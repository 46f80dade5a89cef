------------------------------ MODULE ManagedXray -------------------------------
(* The abstract life of one XrayManager: a start() that ends in one of the      *)
(* outcomes of XrayContract, any number of stop()s after it, and a child that   *)
(* may die behind the manager's back at any moment.                             *)
EXTENDS XrayContract

VARIABLES
  call,   \* the call the manager is in, or the answer of the last one
  live    \* TRUE while some child of the manager is live

vars == <<call, live>>

Returned == Answers \cup {"interrupted", "stopped"}

TypeOK ==
  /\ call \in Returned \cup {"new", "starting", "stopping"}
  /\ live \in BOOLEAN

Init ==
  /\ call = "new"
  /\ live = FALSE

CallStart ==
  /\ call = "new"
  /\ call' = "starting"
  /\ UNCHANGED live

(* Inside start() children come and go. *)
Work ==
  /\ call = "starting"
  /\ live' \in BOOLEAN
  /\ UNCHANGED call

ReturnStart ==
  /\ call = "starting"
  /\ [answer |-> call', live |-> live'] \in StartOutcomes \cup InterruptOutcomes

CallStop ==
  /\ call \in Returned
  /\ call' = "stopping"
  /\ UNCHANGED live

(* stop() comes back when no child is live, or raises beside the live one. *)
ReturnStop ==
  /\ call = "stopping"
  /\ [answer |-> call', live |-> live'] \in StopOutcomes(live)

ChildDies ==
  /\ live
  /\ live' = FALSE
  /\ UNCHANGED call

Next ==
  \/ CallStart \/ Work \/ ReturnStart
  \/ CallStop \/ ReturnStop
  \/ ChildDies

Spec == Init /\ [][Next]_vars
=============================================================================
