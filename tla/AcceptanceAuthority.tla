------------------------- MODULE AcceptanceAuthority -------------------------
(***************************************************************************)
(* What a closure contract promises, without its state machine: a claim    *)
(* over a set of units is closed only on a review of the candidate as it   *)
(* stands, and a unit the controller took over is never credited to the    *)
(* worker again.                                                           *)
(*                                                                         *)
(* Closure.tla (the replay of closure_contract.py) is shown to implement   *)
(* this module.                                                            *)
(***************************************************************************)

CONSTANTS
  Units,      (* responsibility units delegated to the worker       *)
  Ids,        (* acceptance identifiers                             *)
  UnitOf,     (* the unit each identifier accepts                   *)
  Digests     (* candidate digests                                  *)

VARIABLES
  candidate,  (* digest of the candidate under review               *)
  passed,     (* identifiers that passed on exactly this candidate  *)
  shadowed,   (* units the controller took over                     *)
  closed      (* the claim is settled                               *)

vars == <<candidate, passed, shadowed, closed>>

\* The identifiers that stand for the units of a set.
IdsOf(us) == {i \in Ids : UnitOf[i] \in us}

Init ==
  /\ candidate \in Digests
  /\ passed = {}
  /\ shadowed = {}
  /\ closed = FALSE

(* A new candidate from the worker: nothing is known about it yet. *)
Deliver ==
  /\ ~closed
  /\ candidate' \in Digests \ {candidate}
  /\ passed' = {}
  /\ UNCHANGED <<shadowed, closed>>

(* The controller edits some units itself: they stop being the worker's. *)
TakeOver ==
  /\ ~closed
  /\ \E us \in SUBSET (Units \ shadowed) :
       /\ us # {}
       /\ shadowed' = shadowed \cup us
  /\ candidate' \in Digests \ {candidate}
  /\ passed' = {}
  /\ UNCHANGED closed

(* A read-only review of the candidate as it stands. *)
Review ==
  /\ ~closed
  /\ \E ids \in SUBSET Ids : passed' = passed \cup ids
  /\ UNCHANGED <<candidate, shadowed, closed>>

(* Closing needs every unit still credited to the worker to have passed. *)
Settle ==
  /\ ~closed
  /\ passed # {}
  /\ IdsOf(Units \ shadowed) \subseteq passed
  /\ closed' = TRUE
  /\ UNCHANGED <<candidate, passed, shadowed>>

Next == Deliver \/ TakeOver \/ Review \/ Settle

Spec == Init /\ [][Next]_vars
=============================================================================
