---------------------------- MODULE MCFleetSetup ----------------------------
EXTENDS FleetSetup

Often == [cutServer |-> 1, cutConsumer |-> 1, stop |-> 1, restart |-> 1, export |-> 1]
ServerCut == [cutServer |-> 1, cutConsumer |-> 0, stop |-> 0, restart |-> 0, export |-> 0]
=============================================================================
