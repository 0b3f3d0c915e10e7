---------------------------- MODULE MCCopyTrading ----------------------------
EXTENDS CopyTrading

CONSTANT btc

OneProduct == {btc}
SomeLots == {-1, 0, 1, 2}
EnterExit == {0, 2}
ReadFaults == {"archive", "cancel", "leader", "venue"}
OrderFaults == {"archive", "cancel", "silent"}

\* The one product's exposure has not been let go of: what follows is excepted.
NotLost == lost = {}
=============================================================================
