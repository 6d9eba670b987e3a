------------------------------- MODULE MCClosure ------------------------------
(* Two Luna units, one of them with two acceptance ids, and a Sol lane unit. *)
EXTENDS ClosureProjection, TLC

CONSTANTS core, docs, lane, c1, c2, d1, l1, e1, e2, e3, e4, e5

MCLunaUnits == {core, docs}
MCSolUnits  == {lane}
MCIds       == {c1, c2, d1}
MCSolIds    == {l1}
MCUnitOf    == (c1 :> core) @@ (c2 :> core) @@ (d1 :> docs)
MCEvidence  == {e1, e2, e3, e4, e5}
MCSymmetry  == Permutations(MCEvidence)
=============================================================================
