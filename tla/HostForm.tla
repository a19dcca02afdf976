------------------------------ MODULE HostForm ------------------------------
(***************************************************************************)
(* What a host of the inventory is (internal/inventory: schema.go), which  *)
(* one Validate lets pass (validate.go), and what the wizard makes of it   *)
(* (internal/forms/forms.go: AskHost and EditHost).                        *)
(*                                                                         *)
(* A host is its name, its address, its roles and the blocks that go with  *)
(* a role; None is a block that is not there.  A ups block is its driver:  *)
(* the name of the UPS is treated like it.  The user of a host is left     *)
(* out: the wizard and Validate ask the same of it.                        *)
(***************************************************************************)
EXTENDS Integers

CONSTANTS
  HostNames, Addresses,
  Webhooks, NoWebhook,   \* names of variables with a webhook; a blank one
  Spaced,          \* the words with white space in them
  Drivers, DefaultDriver,
  Commands, DefaultCommand,
  None,            \* no block; also a field that was cleared
  Keep             \* a field left as the form has filled it in

Roles == {"nut-server", "shutdown-target", "shutdown-daemon", "other"}

Shutdowns == [command : Commands, delay : Nat, threshold : 0 .. 99]
Blocks == [threshold : Int, poll : Int, webhook : Webhooks]

Hosts == [name : HostNames, address : Addresses, roles : SUBSET Roles,
          ups : Drivers \cup {None}, shutdown : Shutdowns \cup {None},
          daemon : Blocks \cup {None}]

Words == HostNames \cup Addresses \cup Webhooks

ASSUME FormAssumption ==
  /\ Spaced \subseteq Words /\ NoWebhook \in Webhooks \ Spaced
  /\ DefaultDriver \in Drivers /\ DefaultCommand \in Commands
  /\ Keep # None
  /\ {Keep, None} \cap (Words \cup Drivers \cup Commands \cup Shutdowns \cup Blocks \cup Int) = {}

-----------------------------------------------------------------------------
\* validateHost, validateShutdownDaemon.

BlockValid(b) ==
  b # None => b.threshold \in 1 .. 99 /\ b.poll > 0 /\ b.webhook \notin Spaced

HostValid(h) ==
  /\ h.name \notin Spaced /\ h.address \notin Spaced /\ h.roles # {}
  /\ "nut-server" \in h.roles => h.ups # None
  /\ BlockValid(h.daemon)
  /\ h.daemon # None => "shutdown-daemon" \in h.roles

-----------------------------------------------------------------------------
\* What the roles work with when a block is missing.

DefaultBlock == [threshold |-> 50, poll |-> 30, webhook |-> NoWebhook]
DefaultShutdown == [command |-> DefaultCommand, delay |-> 0, threshold |-> 0]

ShutdownOf(h) == IF h.shutdown = None THEN DefaultShutdown ELSE h.shutdown

EffectiveShutdownDaemon(h, fleet) ==
  IF h.daemon # None THEN h.daemon ELSE IF fleet # None THEN fleet ELSE DefaultBlock

\* What becomes of h in a fleet with that block, role for role.
Works(h, fleet) ==
  [name |-> h.name, address |-> h.address, roles |-> h.roles,
   ups |-> IF "nut-server" \in h.roles THEN h.ups ELSE None,
   shutdown |-> IF "shutdown-target" \in h.roles THEN ShutdownOf(h) ELSE None,
   daemon |-> IF "shutdown-daemon" \in h.roles THEN EffectiveShutdownDaemon(h, fleet) ELSE None]

-----------------------------------------------------------------------------
\* The wizard.  Its fields are filled in from the host; a driver that was typed
\* may as well have been found by the scan the form starts.  The two numbers of
\* a daemon are checked without the white space around them and converted with
\* it, which makes 0 of them (forms.go:289, 311); names, addresses and webhooks
\* are not checked for white space inside (forms.go:98, 103, 301).

Answers == [name : HostNames, address : Addresses, roles : (SUBSET Roles) \ {{}},
            driver : Drivers \cup {None, Keep},
            command : Commands \cup {Keep}, delay : Nat \cup {Keep},
            threshold : 0 .. 99 \cup {Keep}, poll : Nat \cup {Keep},
            webhook : Webhooks \cup {Keep}]

NewHost == [name |-> None, address |-> None, roles |-> {}, ups |-> None,
            shutdown |-> None, daemon |-> None]

\* A field ends up as it was filled in, or as it was typed.
Field(typed, filled) == IF typed = Keep THEN filled ELSE typed

UPSOf(h, a) ==
  LET filled == IF h.ups = None THEN DefaultDriver ELSE h.ups
      left == Field(a.driver, filled)
  IN  IF left = None THEN DefaultDriver ELSE left

ShutdownFrom(h, a) ==
  [command |-> Field(a.command, ShutdownOf(h).command),
   delay |-> Field(a.delay, ShutdownOf(h).delay),
   threshold |-> ShutdownOf(h).threshold]

DaemonFrom(h, a, fleet) ==
  LET filled == EffectiveShutdownDaemon(h, fleet)
  IN  [threshold |-> Field(a.threshold, filled.threshold), poll |-> Field(a.poll, filled.poll),
       webhook |-> Field(a.webhook, filled.webhook)]

\* A block whose role is not chosen is dropped.
CollectRoleDetails(h, a, fleet) ==
  [name |-> a.name, address |-> a.address, roles |-> a.roles,
   ups |-> IF "nut-server" \in a.roles THEN UPSOf(h, a) ELSE None,
   shutdown |-> IF "shutdown-target" \in a.roles THEN ShutdownFrom(h, a) ELSE None,
   daemon |-> IF "shutdown-daemon" \in a.roles THEN DaemonFrom(h, a, fleet) ELSE None]

\* Nothing is changed in the form.
Untouched(h) ==
  [name |-> h.name, address |-> h.address, roles |-> h.roles, driver |-> Keep,
   command |-> Keep, delay |-> Keep, threshold |-> Keep, poll |-> Keep, webhook |-> Keep]
=============================================================================
