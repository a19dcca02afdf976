--------------------------- MODULE MCShutdownChain ---------------------------
EXTENDS ShutdownChain

\* The address of each target, sanitised.
OwnKeys == [t \in Targets |-> t]

Plain  == [command |-> "unset", delay |-> 0, threshold |-> 0]
Inline == [command |-> "inline", delay |-> 1, threshold |-> 0]
Own    == [command |-> "own", delay |-> 0, threshold |-> 1]

\* Two hosts; both change their command, or the second is not there.
SomeInventories == {<<Plain, Inline>>, <<Inline, Own>>, <<Plain>>}
=============================================================================
