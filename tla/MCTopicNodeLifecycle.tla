------------------------ MODULE MCTopicNodeLifecycle ------------------------
(* TopicNodeLifecycle on small instances.                                  *)
EXTENDS TopicNodeLifecycle, TLC

Symmetry == Permutations(Nodes) \cup Permutations(Topics)

(* The scope of run lifecycle: two Topics compete for one Worker, one      *)
(* after the other and up to the end of the second use; or one Topic uses  *)
(* two Workers, under a warm target that is lowered and raised.  Besides a *)
(* second Topic, and besides a second Worker, no deployment of the sleep   *)
(* policy is under way, unless for the pool flight; the pool flight and    *)
(* two Topics together end at a restart or a retirement's last steps; and  *)
(* with two Workers it runs beside a creation or a retirement, not both.   *)
Workers == {n \in Nodes : bindings[n].status # "absent"}
Involved == {t \in Topics : Holders(t) # {} \/ \E f \in Flights : f[2] = t /\ flight[f] # Idle}
Settled == \A n \in Nodes : ~Rolling(worker[n])
Over(F) == \A f \in F : flight[f].pc \in Ended
Sleeping == \E f \in Flights : flight[f].pc \in {"sleep", "asleep"}

OneWorker ==
    /\ Cardinality(Workers) <= 1 /\ call.warm # 0
    /\ \A n \in Nodes : bindings[n].gen <= 5
    /\ \/ Cardinality(Involved) <= 1
       \/ Settled /\ (flight[Pool] = Idle \/ (restarts = 0 /\ ~Sleeping))

TwoWorkers ==
    /\ Cardinality(Involved) <= 1 /\ restarts = 0
    /\ Settled \/ flight[Pool] # Idle
    /\ flight[Pool] = Idle \/ Over(Creators) \/ Over(Deleters)

Scope == OneWorker \/ TwoWorkers

(* The scope of run lifecycle_deletions: two deletions overlap before a    *)
(* restart and beside no deployment of the sleep policy, one of them also  *)
(* then.                                                                   *)
DeletionScope ==
    \/ Cardinality({f \in Deleters : flight[f].pc \notin Ended}) <= 1
    \/ restarts = 0 /\ Settled
=============================================================================
