----------------------------- MODULE Enforcement -----------------------------
(***************************************************************************)
(* What provider::set promises, whatever the provider (provider.hpp 78-91):*)
(* a call takes a batch of desired states and handles each once, in any    *)
(* order; handling one leaves its resource alone or brings it to a state   *)
(* the should asks for, and touches no other resource.  The call returns   *)
(* ok only when every should of the batch was handled and has held at some *)
(* moment since the resources were looked up.  It may give up with an      *)
(* error at any time, keeping what was done.  The rest of the world may    *)
(* change any resource at any moment, a call running or not.               *)
(***************************************************************************)
EXTENDS Sequences

CONSTANTS
  Name,          \* resource names
  State,         \* the states a resource may have on the system
  Holds(_, _)    \* Holds(s, should): the state s is as the should asks

VARIABLES
  sys,      \* the system: each resource's state
  wants,    \* the batch of shoulds of the current (or last) call
  todo,     \* the positions of wants not handled yet
  met,      \* the positions of wants that have held since the lookup
  phase,    \* "idle", "busy", or "returned": the caller has its answer
  outcome   \* result of the call: "none" while it runs, "ok" or "error"

vars == <<sys, wants, todo, met, phase, outcome>>

Holding(s, w) == {i \in DOMAIN w : Holds(s[w[i].name], w[i])}

Nobody == wants = <<>> /\ todo = {} /\ met = {} /\ phase = "idle" /\ outcome = "none"

Init == sys \in [Name -> State] /\ Nobody

\* The caller passes a batch and the resources are looked up.
Start ==
  /\ phase = "idle"
  /\ phase' = "busy"
  /\ todo' = DOMAIN wants'
  /\ met' = Holding(sys, wants')
  /\ outcome' = "none"
  /\ UNCHANGED sys

\* One should is handled.
Handle(i) ==
  /\ phase = "busy"
  /\ i \in todo
  /\ \E s \in State :
       /\ s = sys[wants[i].name] \/ Holds(s, wants[i])
       /\ sys' = [sys EXCEPT ![wants[i].name] = s]
  /\ todo' = todo \ {i}
  /\ met' = met \cup Holding(sys', wants)
  /\ UNCHANGED <<wants, phase, outcome>>

\* Something else changes the system.
Outside ==
  /\ sys' \in [Name -> State]
  /\ met' = IF phase = "busy" THEN met \cup Holding(sys', wants) ELSE met
  /\ UNCHANGED <<wants, todo, phase, outcome>>

Succeed ==
  /\ phase = "busy"
  /\ todo = {}
  /\ met = DOMAIN wants
  /\ phase' = "returned"
  /\ outcome' = "ok"
  /\ UNCHANGED <<sys, wants, todo, met>>

Fail ==
  /\ phase = "busy"
  /\ phase' = "returned"
  /\ outcome' = "error"
  /\ todo' = {}
  /\ UNCHANGED <<sys, wants, met>>

\* The caller drops the answer.
Release == phase = "returned" /\ Nobody' /\ UNCHANGED sys

Next == Start \/ (\E i \in todo : Handle(i)) \/ Outside \/ Succeed \/ Fail \/ Release

Spec == Init /\ [][Next]_vars

\* Every call is answered.
Answered == (phase = "busy") ~> (phase = "returned")
=============================================================================
