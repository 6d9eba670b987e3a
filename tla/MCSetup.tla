------------------------------- MODULE MCSetup --------------------------------
(* Two assets: the skill file appears in release 2, so that a plan made     *)
(* before it does not know its target, and the agent is gone from release   *)
(* 3.  Each changes once.  Either of the first two releases may be          *)
(* installed in an old skills root.                                         *)
EXTENDS Setup, TLC

CONSTANTS skill, agent, s2, s3, g1, g2, mine, notes

MCRelease == << (skill :> Absent) @@ (agent :> g1),
                (skill :> s2) @@ (agent :> g2),
                (skill :> s3) @@ (agent :> Absent) >>

\* Every release ships both, and the last one takes back a change to the agent.
MCDriftRelease == << (skill :> s2) @@ (agent :> g1),
                     (skill :> s2) @@ (agent :> g2),
                     (skill :> s3) @@ (agent :> g1) >>

MCFound == (skill :> {Absent}) @@ (agent :> {Absent, g1})
=============================================================================
