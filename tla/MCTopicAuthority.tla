-------------------------- MODULE MCTopicAuthority --------------------------
(* TopicAuthority: two directories of one session, between which the Topic *)
(* is rotated, on two successive Workers.                                  *)
EXTENDS TopicAuthority, TLC

CONSTANTS r1, r2
MCRuns == {r1, r2}
MCSessionOf == ("a" :> "s1") @@ ("b" :> "s1")
RunSymmetry == Permutations(MCRuns)
=============================================================================
