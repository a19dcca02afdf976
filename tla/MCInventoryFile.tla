--------------------------- MODULE MCInventoryFile ---------------------------
EXTENDS InventoryFile, TLC

Bare(n) == [name |-> n, address |-> "10.0.0.1", roles |-> {"nut-server"}, ups |-> None,
            shutdown |-> None, daemon |-> None]
Server(n) == [Bare(n) EXCEPT !.ups = "usbhid-ups"]
Daemon(n) == [Bare(n) EXCEPT !.roles = {"shutdown-daemon"}, !.daemon = DefaultBlock]

\* A fleet with a daemon block, and a draft that does not load.
SomeDrafts ==
  {[hosts |-> <<Server("a"), Daemon("b")>>, block |-> DefaultBlock],
   [hosts |-> <<Bare("a")>>, block |-> None]}

\* A server whose driver was cleared, or a daemon's host, with names that may be
\* taken; and answers with white space in the address, the webhook, a number.
Left(n, r) == [name |-> n, address |-> "10.0.0.1", roles |-> r, driver |-> Keep,
               command |-> Keep, delay |-> Keep, threshold |-> Keep, poll |-> Keep,
               webhook |-> Keep]
SomeAnswers ==
  {[Left("a", {"nut-server"}) EXCEPT !.driver = None],
   Left("b", {"shutdown-daemon"}),
   [Left("b", {"nut-server"}) EXCEPT !.address = "10.0.0.2 "],
   [Left("b", {"shutdown-daemon"}) EXCEPT !.webhook = "MY HOOK"],
   [Left("b", {"shutdown-daemon"}) EXCEPT !.threshold = 0]}

Alike == Permutations(Procs) \cup Permutations(TempNames)
=============================================================================
