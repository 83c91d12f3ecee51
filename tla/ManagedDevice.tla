---------------------------- MODULE ManagedDevice ----------------------------
(***************************************************************************)
(* What compat/run promises to those who share a machine: one run at a time *)
(* owns the virtual device, there is one server at most, it is the owner's, *)
(* nothing but that server is ever attached, and giving up the ownership    *)
(* leaves the machine as it was.                                           *)
(***************************************************************************)
EXTENDS FiniteSets

CONSTANTS Runs, Servers, NoRun, NoServer

VARIABLES
  owner,     \* the run that owns the device, or NoRun
  powered,   \* servers that run, each with the run it belongs to
  attached   \* the server that is attached, or NoServer

vars == <<owner, powered, attached>>

Init == owner = NoRun /\ powered = {} /\ attached = NoServer

Acquire(r) ==
  /\ owner = NoRun
  /\ owner' = r
  /\ UNCHANGED <<powered, attached>>

PowerOn(s) ==
  /\ owner # NoRun
  /\ powered = {}
  /\ powered' = {<<s, owner>>}
  /\ UNCHANGED <<owner, attached>>

PowerOff ==
  /\ powered # {}
  /\ powered' = {}
  /\ attached' = NoServer
  /\ UNCHANGED owner

Attach(s) ==
  /\ attached = NoServer
  /\ <<s, owner>> \in powered
  /\ attached' = s
  /\ UNCHANGED <<owner, powered>>

Detach ==
  /\ attached # NoServer
  /\ attached' = NoServer
  /\ UNCHANGED <<owner, powered>>

GiveUp ==
  /\ owner # NoRun
  /\ owner' = NoRun
  /\ powered' = {}
  /\ attached' = NoServer

Next ==
  \/ \E r \in Runs : Acquire(r)
  \/ \E s \in Servers : PowerOn(s) \/ Attach(s)
  \/ PowerOff \/ Detach \/ GiveUp

Spec == Init /\ [][Next]_vars
=============================================================================
