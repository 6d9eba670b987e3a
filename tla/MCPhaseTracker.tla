---------------------------- MODULE MCPhaseTracker ----------------------------
(* An executor whose name tells its actor and one whose name does not. *)
EXTENDS PhaseTracker, TLC

CONSTANTS luna_one, worker, p1, p2

MCHint     == (luna_one :> "LUNA") @@ (worker :> None)
MCSymmetry == Permutations({p1, p2})
=============================================================================
