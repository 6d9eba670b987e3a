------------------------------ MODULE MCCampaign ------------------------------
(* Two pairs, so four arms, whose meters reset at different times. *)
EXTENDS Campaign, TLC

CONSTANTS five_hour, weekly, p1, p2, r1, r2

MCReset    == (five_hour :> 8) @@ (weekly :> 9)
MCSymmetry == Permutations({p1, p2}) \cup Permutations({r1, r2})
=============================================================================
