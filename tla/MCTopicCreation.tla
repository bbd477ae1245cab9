--------------------------- MODULE MCTopicCreation ---------------------------
(* TopicCreation on small instances.                                       *)
EXTENDS TopicCreation, TLC

(* Two requests, of one chat or of two.  The Topics are created in order,  *)
(* which loses nothing: their names do not matter.                         *)
MCRequests == {<<1, 1>>, <<1, 2>>, <<2, 1>>}
Arrived == {r \in Requests : receipt[r] # Unknown \/ flow[r] # NoFlow}
Created == {t \in Topics : owner[t] # NoRequest}
Scope ==
    /\ Arrived \subseteq {<<1, 1>>, <<1, 2>>} \/ Arrived \subseteq {<<1, 1>>, <<2, 1>>}
    /\ Created \in {1..k : k \in 0..Cardinality(Topics)}
=============================================================================
