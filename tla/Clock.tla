------------------------------- MODULE Clock --------------------------------
(***************************************************************************)
(* The time that expiries and caches are compared with, and the number of  *)
(* requests of a behaviour, shared by the modules that EXTEND this one.     *)
(***************************************************************************)
EXTENDS Naturals

CONSTANTS
    TimeBound,       \* bound: the last instant of a behaviour
    RequestBound     \* bound: requests in a behaviour

ASSUME ClockAssumption == TimeBound \in Nat /\ RequestBound \in Nat

VARIABLES
    now,             \* Date.now(), in steps of the shortest life modelled
    requests         \* requests made so far

clockVars == <<now, requests>>

ClockTypeOK == now \in 0..TimeBound /\ requests \in 0..RequestBound

ClockInit == now = 0 /\ requests = 0

Tick == now < TimeBound /\ now' = now + 1 /\ UNCHANGED requests

\* A new request comes in.
Arrives ==
    /\ requests < RequestBound
    /\ requests' = requests + 1
    /\ UNCHANGED now

\* A request in flight goes on.
GoesOn == UNCHANGED clockVars
=============================================================================
