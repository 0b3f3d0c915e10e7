---------------------------- MODULE MCEngineRuntime ----------------------------
EXTENDS EngineRuntime

CONSTANTS job, kick, user

JobSet == {job}
KickSet == {kick}
StopSet == {user}
AllFaults == {"db", "start", "tick", "stop", "standdown"}

\* One stop, timeout or restart, and no streak of transient errors at the same time.
OneUpset == /\ stops + timeouts + restarts <= 1
            /\ stops + timeouts + restarts = 1 => \A i \in Instances : fails[i] = 0
=============================================================================
