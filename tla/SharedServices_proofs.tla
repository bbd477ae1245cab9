----------------------- MODULE SharedServices_proofs -----------------------
(***************************************************************************)
(* The two services of the host process that all topics share: the budget  *)
(* of processes and memory (ProcessBudget) and the store of the global     *)
(* state (AppStateStore).  They share no state; each part below is about   *)
(* one of them and cites only that one's assumptions.                      *)
(*                                                                         *)
(* The limits of ProcessBudget hold for any number of callers and any      *)
(* rules, its counters are exact, and memory is never overbooked.          *)
(* acquire() reads counters, not the requests themselves, so the invariant *)
(* ties the two together: it is what makes the guards mean what they say.  *)
(*                                                                         *)
(* The store implements its register for any changes and any number of     *)
(* faults.  The invariant ties the transaction at work to the files: what  *)
(* it read is still what a reader would get when it renames, its temporary *)
(* file holds what it makes of that, and the file it replaces is kept      *)
(* until the directory is synced.                                          *)
(***************************************************************************)
EXTENDS ProcessBudget, AppStateStore, FiniteSetTheorems, TLAPS

(* The budget of processes.                                                *)

Busy(k) == {a \in Callers : stage[a] # "idle" /\ kind[a] = k}
Normal  == {a \in Callers : stage[a] # "idle" /\ kind[a] # Cleanup}

Within ==
    /\ \A k \in Kinds : Cardinality(Busy(k)) <= MaxConcurrent[k]
    /\ Cardinality(Normal) <= MaxActive

BInv == BudgetTypeOK /\ RequestsCounted /\ Within

-----------------------------------------------------------------------------
(* Sets of callers are finite, and each of them is of one kind and stage.  *)
LEMMA CallerSets ==
    ASSUME NEW S \in SUBSET Callers
    PROVE  /\ IsFiniteSet(S) /\ Cardinality(S) \in Nat
           /\ \A a \in S : /\ IsFiniteSet(S \ {a})
                           /\ Cardinality(S \ {a}) = Cardinality(S) - 1
           /\ \A a \in Callers \ S : Cardinality(S \cup {a}) = Cardinality(S) + 1
<1>1. IsFiniteSet(S)
  BY FS_Subset, BudgetAssumption DEF BudgetAssumption
<1> QED  BY <1>1, FS_CardinalityType, FS_RemoveElement, FS_AddElement

LEMMA DisjointSum ==
    ASSUME NEW S \in SUBSET Callers, NEW T \in SUBSET Callers, S \cap T = {}
    PROVE  Cardinality(S \cup T) = Cardinality(S) + Cardinality(T)
<1>1. IsFiniteSet(S) /\ IsFiniteSet(T) /\ Cardinality(S) \in Nat /\ Cardinality(T) \in Nat
  BY CallerSets
<1>2. Cardinality(S \cup T) = Cardinality(S) + Cardinality(T) - Cardinality(S \cap T)
  BY <1>1, FS_Union
<1> QED  BY <1>1, <1>2, FS_EmptySet

LEMMA AtMost ==
    ASSUME NEW S \in SUBSET Callers, NEW T \in SUBSET S
    PROVE  Cardinality(T) <= Cardinality(S)
<1>1. IsFiniteSet(S)
  BY CallerSets
<1> QED  BY <1>1, FS_Subset

-----------------------------------------------------------------------------
LEMMA BudgetInitInvariant == BudgetInit => BInv
<1> SUFFICES ASSUME BudgetInit PROVE BInv
  OBVIOUS
<1> USE BudgetAssumption DEF BudgetAssumption
<1>1. BudgetTypeOK
  BY DEF BudgetInit, BudgetTypeOK, Stages, Children
<1>2. /\ AtStage("pending") = {} /\ Normal = {}
      /\ \A k \in Kinds : OfKind("pending", k) = {} /\ Busy(k) = {}
  BY DEF BudgetInit, AtStage, OfKind, Normal, Busy
<1>3. RequestsCounted
  BY <1>2, FS_EmptySet DEF BudgetInit, RequestsCounted
<1>4. Within
  BY <1>2, FS_EmptySet DEF Within
<1> QED  BY <1>1, <1>3, <1>4 DEF BInv

(* A request that passes the limits leaves them respected.                 *)
LEMMA AcquireKeeps ==
    ASSUME BInv, NEW a \in Callers, NEW k \in Kinds, Acquire(a, k)
    PROVE  BInv'
<1> USE BudgetAssumption DEF BudgetAssumption
<1>0. /\ stage[a] = "idle" /\ stage' = [stage EXCEPT ![a] = "pending"]
      /\ kind' = [kind EXCEPT ![a] = k]
      /\ stage \in [Callers -> Stages] /\ kind \in [Callers -> Kinds]
      /\ stage'[a] = "pending" /\ kind'[a] = k
      /\ \A b \in Callers \ {a} : stage'[b] = stage[b] /\ kind'[b] = kind[b]
  BY DEF Acquire, BInv, BudgetTypeOK
<1>1. BudgetTypeOK'
  <2>1. /\ pendingTotal' \in Nat /\ pendingBytes' \in Nat /\ pendingByKind' \in [Kinds -> Nat]
        /\ warm' = warm /\ child' = child /\ others' = others
    <3>1. pendingTotal \in Nat /\ pendingBytes \in Nat /\ pendingByKind \in [Kinds -> Nat]
          /\ Reserve[k] \in Nat
      BY DEF BInv, BudgetTypeOK
    <3>2. pendingByKind[k] + 1 \in Nat
      BY <3>1
    <3> QED  BY <3>1, <3>2 DEF Acquire
  <2>2. stage' \in [Callers -> Stages] /\ kind' \in [Callers -> Kinds]
    BY <1>0 DEF Stages
  <2>3. \A b \in Callers : warm'[b] \/ child'[b] # "none" => stage'[b] = "active"
    BY <1>0, <2>1 DEF BInv, BudgetTypeOK
  <2> QED  BY <2>1, <2>2, <2>3 DEF BInv, BudgetTypeOK
<1>2. RequestsCounted'
  <2>1. /\ AtStage("pending")' = AtStage("pending") \cup {a}
        /\ a \notin AtStage("pending")
    BY <1>0 DEF AtStage
  <2>2. \A j \in Kinds : a \notin OfKind("pending", j)
    BY <1>0 DEF OfKind, AtStage
  <2>3. OfKind("pending", k)' = OfKind("pending", k) \cup {a}
    BY <1>0 DEF OfKind, AtStage
  <2>4. \A j \in Kinds \ {k} : OfKind("pending", j)' = OfKind("pending", j)
    BY <1>0 DEF OfKind, AtStage
  <2>5. \A j \in Kinds : OfKind("pending", j) \in SUBSET Callers
    BY DEF OfKind, AtStage
  <2>6. pendingTotal' = Cardinality(AtStage("pending"))'
    BY <2>1, CallerSets DEF BInv, RequestsCounted, Acquire, AtStage
  <2>7. pendingByKind'[k] = Cardinality(OfKind("pending", k)')
    BY <2>2, <2>3, <2>5, CallerSets DEF BInv, BudgetTypeOK, RequestsCounted, Acquire
  <2>8. \A j \in Kinds \ {k} : pendingByKind'[j] = Cardinality(OfKind("pending", j)')
    BY <2>4 DEF BInv, BudgetTypeOK, RequestsCounted, Acquire
  <2> QED  BY <2>6, <2>7, <2>8 DEF RequestsCounted
<1>3. \A j \in Kinds : Busy(j) = OfKind("active", j) \cup OfKind("pending", j)
                       /\ OfKind("active", j) \cap OfKind("pending", j) = {}
  BY <1>0 DEF Busy, OfKind, AtStage, Stages
<1>4. \A j \in Kinds : Cardinality(Busy(j)')  <= MaxConcurrent[j]
  <2> TAKE j \in Kinds
  <2>1. CASE j # k
    <3>1. Busy(j)' = Busy(j)
      BY <1>0, <2>1 DEF Busy
    <3> QED  BY <3>1 DEF BInv, Within
  <2>2. CASE j = k
    <3>1. Busy(k)' = Busy(k) \cup {a} /\ a \notin Busy(k) /\ Busy(k) \in SUBSET Callers
      BY <1>0 DEF Busy
    <3>2. OfKind("active", k) \in SUBSET Callers /\ OfKind("pending", k) \in SUBSET Callers
      BY DEF OfKind, AtStage
    <3>3. Cardinality(Busy(k)) = Cardinality(OfKind("active", k)) + Cardinality(OfKind("pending", k))
      BY <1>3, <3>2, DisjointSum
    <3>4. Cardinality(Busy(k)) < MaxConcurrent[k]
      BY <3>3 DEF Acquire, CategoryFree, BInv, RequestsCounted
    <3>5. MaxConcurrent[k] \in Nat /\ Cardinality(Busy(k)) \in Nat
      BY <3>1, CallerSets
    <3>6. Cardinality(Busy(k)') = Cardinality(Busy(k)) + 1
      BY <3>1, CallerSets
    <3> QED  BY <2>2, <3>4, <3>5, <3>6
  <2> QED  BY <2>1, <2>2
<1>5. Cardinality(Normal') <= MaxActive
  <2>1. CASE k = Cleanup
    <3>1. Normal' = Normal
      BY <1>0, <2>1 DEF Normal
    <3> QED  BY <3>1 DEF BInv, Within
  <2>2. CASE k # Cleanup
    <3>1. Normal' = Normal \cup {a} /\ a \notin Normal /\ Normal \in SUBSET Callers
      BY <1>0, <2>2 DEF Normal
    <3>2. /\ AtStage("active") \in SUBSET Callers /\ AtStage("pending") \in SUBSET Callers
          /\ AtStage("active") \cap AtStage("pending") = {}
          /\ Normal \in SUBSET (AtStage("active") \cup AtStage("pending"))
      BY <1>0 DEF AtStage, Normal, Stages
    <3>3. Cardinality(AtStage("active") \cup AtStage("pending"))
            = Cardinality(AtStage("active")) + Cardinality(AtStage("pending"))
      BY <3>2, DisjointSum
    <3>4. Cardinality(Normal) <= Cardinality(AtStage("active") \cup AtStage("pending"))
      BY <3>2, AtMost
    <3>5. Cardinality(AtStage("active")) + Cardinality(AtStage("pending")) < MaxActive
      BY <2>2 DEF Acquire, ServiceFree, BInv, RequestsCounted
    <3>6. /\ Cardinality(AtStage("active")) \in Nat /\ Cardinality(AtStage("pending")) \in Nat
          /\ Cardinality(Normal) \in Nat /\ Cardinality(Normal') = Cardinality(Normal) + 1
      BY <3>1, <3>2, CallerSets
    <3> QED  BY <3>3, <3>4, <3>5, <3>6
  <2> QED  BY <2>1, <2>2
<1> QED  BY <1>1, <1>2, <1>4, <1>5 DEF BInv, Within

(* Settling a request takes exactly it off the counters.                   *)
LEMMA SettlePendingKeeps ==
    ASSUME BInv, NEW a \in Callers, Refuse(a) \/ Admit(a)
    PROVE  BInv'
<1> USE BudgetAssumption DEF BudgetAssumption
<1>0. /\ stage[a] = "pending" /\ stage'[a] \in {"idle", "active"} /\ kind' = kind
      /\ stage \in [Callers -> Stages] /\ kind \in [Callers -> Kinds]
      /\ \A b \in Callers \ {a} : stage'[b] = stage[b]
      /\ ReleasePending(kind[a])
  BY DEF Refuse, Admit, BInv, BudgetTypeOK
<1>1. BudgetTypeOK'
  <2>1. /\ pendingTotal' \in Nat /\ pendingBytes' \in Nat /\ pendingByKind' \in [Kinds -> Nat]
    BY <1>0 DEF ReleasePending, Less, BInv, BudgetTypeOK
  <2>2. /\ stage' \in [Callers -> Stages]
        /\ warm' \in [Callers -> BOOLEAN] /\ child' = child /\ others' = others
        /\ \A b \in Callers : warm'[b] \/ child'[b] # "none" => stage'[b] = "active"
    BY DEF Refuse, Admit, BInv, BudgetTypeOK, Stages
  <2> QED  BY <1>0, <2>1, <2>2 DEF BInv, BudgetTypeOK
<1>2. RequestsCounted'
  <2> DEFINE k == kind[a]
  <2>1. /\ AtStage("pending") \in SUBSET Callers /\ a \in AtStage("pending")
        /\ AtStage("pending")' = AtStage("pending") \ {a}
    BY <1>0 DEF AtStage
  <2>2. /\ OfKind("pending", k) \in SUBSET Callers /\ a \in OfKind("pending", k)
        /\ OfKind("pending", k)' = OfKind("pending", k) \ {a}
    BY <1>0 DEF OfKind, AtStage
  <2>3. \A j \in Kinds \ {k} : OfKind("pending", j)' = OfKind("pending", j)
    BY <1>0 DEF OfKind, AtStage
  <2>4. /\ Cardinality(AtStage("pending")) \in Nat
        /\ Cardinality(AtStage("pending")') = Cardinality(AtStage("pending")) - 1
        /\ Cardinality(AtStage("pending")') \in Nat
    BY <2>1, CallerSets, FS_CardinalityType
  <2>5. /\ Cardinality(OfKind("pending", k)) \in Nat
        /\ Cardinality(OfKind("pending", k)') = Cardinality(OfKind("pending", k)) - 1
        /\ Cardinality(OfKind("pending", k)') \in Nat
    BY <2>2, CallerSets, FS_CardinalityType
  <2>6. pendingTotal' = Cardinality(AtStage("pending"))'
    BY <1>0, <2>4 DEF ReleasePending, Less, BInv, RequestsCounted
  <2>7. k \in Kinds
    BY <1>0
  <2>8. pendingByKind'[k] = Cardinality(OfKind("pending", k)')
    BY <1>0, <2>5, <2>7 DEF ReleasePending, Less, BInv, BudgetTypeOK, RequestsCounted
  <2>9. \A j \in Kinds \ {k} : pendingByKind'[j] = Cardinality(OfKind("pending", j)')
    BY <1>0, <2>3 DEF ReleasePending, BInv, BudgetTypeOK, RequestsCounted
  <2>10. \A j \in Kinds : pendingByKind'[j] = Cardinality(OfKind("pending", j)')
    BY <1>0, <2>8, <2>9
  <2> QED  BY <2>6, <2>10 DEF RequestsCounted
<1>3. Within'
  <2>1. \A k \in Kinds : Busy(k)' \in SUBSET Busy(k) /\ Busy(k) \in SUBSET Callers
    BY <1>0 DEF Busy
  <2>2. Normal' \in SUBSET Normal /\ Normal \in SUBSET Callers
    BY <1>0 DEF Normal
  <2>3. \A k \in Kinds : /\ Cardinality(Busy(k)') <= Cardinality(Busy(k))
                         /\ Cardinality(Busy(k)') \in Nat /\ Cardinality(Busy(k)) \in Nat
    BY <2>1, AtMost, CallerSets
  <2>4. Cardinality(Normal') <= Cardinality(Normal)
        /\ Cardinality(Normal') \in Nat /\ Cardinality(Normal) \in Nat
    BY <2>2, AtMost, CallerSets
  <2> QED  BY <2>3, <2>4 DEF BInv, Within
<1> QED  BY <1>1, <1>2, <1>3 DEF BInv

(* Steps of a lease and its child: they may only give the lease back.      *)
LEMMA LeaseKeeps ==
    ASSUME BInv, NEW a \in Callers,
           Spawn(a) \/ SpawnThrows(a) \/ Grow(a) \/ Cool(a) \/ Exit(a) \/ Finish(a)
    PROVE  BInv'
<1> USE BudgetAssumption DEF BudgetAssumption
<1>0. /\ stage[a] = "active" /\ kind' = kind /\ UNCHANGED counters
      /\ stage'[a] \in {"active", "idle"} /\ \A b \in Callers \ {a} : stage'[b] = stage[b]
      /\ stage \in [Callers -> Stages] /\ kind \in [Callers -> Kinds]
  BY DEF Spawn, SpawnThrows, Grow, Cool, Exit, Finish, Release, BInv, BudgetTypeOK
<1>1. BudgetTypeOK'
  BY DEF Spawn, SpawnThrows, Grow, Cool, Exit, Finish, Release, BInv, BudgetTypeOK, counters,
         Stages, Children
<1>2. RequestsCounted'
  <2>1. AtStage("pending")' = AtStage("pending")
        /\ \A k \in Kinds : OfKind("pending", k)' = OfKind("pending", k)
    BY <1>0 DEF AtStage, OfKind
  <2> QED  BY <1>0, <2>1 DEF RequestsCounted, BInv, counters
<1>3. Within'
  <2>1. \A k \in Kinds : Busy(k)' \in SUBSET Busy(k) /\ Busy(k) \in SUBSET Callers
    BY <1>0 DEF Busy
  <2>2. Normal' \in SUBSET Normal /\ Normal \in SUBSET Callers
    BY <1>0 DEF Normal
  <2>3. \A k \in Kinds : /\ Cardinality(Busy(k)') <= Cardinality(Busy(k))
                         /\ Cardinality(Busy(k)') \in Nat /\ Cardinality(Busy(k)) \in Nat
    BY <2>1, AtMost, CallerSets
  <2>4. Cardinality(Normal') <= Cardinality(Normal)
        /\ Cardinality(Normal') \in Nat /\ Cardinality(Normal) \in Nat
    BY <2>2, AtMost, CallerSets
  <2> QED  BY <2>3, <2>4 DEF BInv, Within
<1> QED  BY <1>1, <1>2, <1>3 DEF BInv

LEMMA BudgetNextInvariant == BInv /\ [BudgetNext]_budget => BInv'
<1> SUFFICES ASSUME BInv, [BudgetNext]_budget PROVE BInv'
  OBVIOUS
<1>1. ASSUME NEW a \in Callers, CallerStep(a) PROVE BInv'
  BY <1>1, AcquireKeeps, SettlePendingKeeps, LeaseKeeps DEF CallerStep, LifetimeExceeded
<1>2. CASE Drift \/ UNCHANGED budget
  <2>1. UNCHANGED <<stage, kind, warm, child, counters>> /\ others' \in Nat
    BY <1>2, BudgetAssumption DEF Drift, budget, counters, BInv, BudgetTypeOK, BudgetAssumption
  <2> QED  BY <2>1 DEF BInv, BudgetTypeOK, RequestsCounted, Within, Busy, Normal, AtStage, OfKind, counters
<1> QED  BY <1>1, <1>2 DEF BudgetNext

(* The invariant the two theorems below rest on.                           *)
THEOREM BudgetInvariant == BudgetSpec => []BInv
<1>1. BInv /\ [BudgetNext]_budget => BInv'
  BY BudgetNextInvariant
<1> QED  BY <1>1, BudgetInitInvariant, PTL DEF BudgetSpec

(* The state has its type, and only a lease has a child or a reservation.  *)
THEOREM BudgetTypeCorrect == BudgetSpec => []BudgetTypeOK
<1>1. BInv => BudgetTypeOK
  BY DEF BInv
<1> QED  BY <1>1, BudgetInvariant, PTL

(* No interleaving of requests exceeds the limit of a kind or the limit of *)
(* the service.                                                            *)
THEOREM LimitsAlwaysHold == BudgetSpec => []LimitsHeld
<1>1. ASSUME BInv PROVE LimitsHeld
  <2>1. \A a \in Callers : Uses(a) <=> stage[a] # "idle"
    BY <1>1 DEF BInv, BudgetTypeOK, Uses
  <2>2. \A k \in Kinds : {a \in Callers : Uses(a) /\ kind[a] = k} = Busy(k)
    BY <2>1 DEF Busy
  <2>3. {a \in Callers : Uses(a) /\ kind[a] # Cleanup} = Normal
    BY <2>1 DEF Normal
  <2> QED  BY <1>1, <2>2, <2>3 DEF LimitsHeld, BInv, Within
<1> QED  BY <1>1, BudgetInvariant, PTL

-----------------------------------------------------------------------------
(* The memory set aside.  MapThenSumSet takes the elements of its set in   *)
(* an order nobody knows; a finite set has one sum all the same, because a *)
(* function that is additive on its subsets exists and every order         *)
(* computes it.                                                            *)
Additive(k, g, S) ==
    /\ g \in [SUBSET S -> Nat]
    /\ g[{}] = 0
    /\ \A T \in SUBSET S : \A x \in T : g[T] = Reserve[k[x]] + g[T \ {x}]

Choice(T) == CHOOSE x \in T : TRUE
Sums(k, f, S) ==
    f = [T \in SUBSET S |-> IF T = {} THEN 0 ELSE Reserve[k[Choice(T)]] + f[T \ {Choice(T)}]]

LEMMA ReservedUnfolds ==
    ASSUME NEW k, NEW S
    PROVE  Reserved(k, S) = (CHOOSE f : Sums(k, f, S))[S]
BY DEF Reserved, MapThenSumSet, MapThenFoldSet, Sums, Choice

(* Induction on the subsets of a set of callers: what holds of a set when  *)
(* it holds of each of its proper subsets holds of all.                    *)
LEMMA SubsetInduction ==
    ASSUME NEW S \in SUBSET Callers, NEW Q,
           \A T \in SUBSET S : (\A x \in T : T \ {x} \in Q) => T \in Q
    PROVE  \A T \in SUBSET S : T \in Q
<1> DEFINE Bad == {T \in SUBSET S : T \notin Q}
<1> SUFFICES ASSUME Bad # {} PROVE FALSE
  OBVIOUS
<1>1. Bad \subseteq FiniteSubsetsOf(S)
  BY CallerSets DEF FiniteSubsetsOf
<1>2. PICK T \in Bad : \A U \in Bad : <<U, T>> \notin StrictSubsetOrdering(S)
  BY <1>1, FS_StrictSubsetOrderingWellFounded, WFMin
<1>3. ASSUME NEW x \in T PROVE T \ {x} \in Q
  <2>1. <<T \ {x}, T>> \in StrictSubsetOrdering(S)
    BY DEF StrictSubsetOrdering
  <2> QED  BY <1>2, <2>1
<1> QED  BY <1>2, <1>3

LEMMA AdditiveExists ==
    ASSUME NEW k \in [Callers -> Kinds], NEW S \in SUBSET Callers
    PROVE  \E g : Additive(k, g, S)
<1> USE BudgetAssumption DEF BudgetAssumption
<1> DEFINE Q == {T \in SUBSET S : \E g : Additive(k, g, T)}
<1>1. {} \in Q
  <2>1. Additive(k, [T \in SUBSET {} |-> 0], {})
    BY DEF Additive
  <2> QED  BY <2>1
<1>2. ASSUME NEW T \in SUBSET S, NEW x \in S \ T, T \in Q
      PROVE  T \cup {x} \in Q
  <2>1. PICK g : Additive(k, g, T)
    BY <1>2
  <2> DEFINE h == [U \in SUBSET (T \cup {x}) |->
                     IF x \in U THEN Reserve[k[x]] + g[U \ {x}] ELSE g[U]]
  <2>2. Reserve[k[x]] \in Nat /\ \A y \in T : Reserve[k[y]] \in Nat
    OBVIOUS
  <2>3. h \in [SUBSET (T \cup {x}) -> Nat] /\ h[{}] = 0
    <3>1. ASSUME NEW U \in SUBSET (T \cup {x}) PROVE h[U] \in Nat
      <4>1. CASE x \in U
        <5>1. U \ {x} \in SUBSET T
          OBVIOUS
        <5> QED  BY <2>1, <2>2, <4>1, <5>1 DEF Additive
      <4>2. CASE x \notin U
        BY <2>1, <4>2 DEF Additive
      <4> QED  BY <4>1, <4>2
    <3>2. h[{}] = g[{}]
      OBVIOUS
    <3> QED  BY <2>1, <3>1, <3>2 DEF Additive
  <2>4. ASSUME NEW U \in SUBSET (T \cup {x}), NEW y \in U
        PROVE  h[U] = Reserve[k[y]] + h[U \ {y}]
    <3>1. CASE x \notin U
      BY <2>1, <3>1 DEF Additive
    <3>2. CASE x \in U /\ y = x
      BY <3>2
    <3>3. CASE x \in U /\ y # x
      <4>1. U \ {x} \in SUBSET T /\ y \in U \ {x} /\ (U \ {x}) \ {y} = (U \ {y}) \ {x}
            /\ (U \ {y}) \ {x} \in SUBSET T /\ x \in U \ {y}
        BY <3>3
      <4>2. g[U \ {x}] = Reserve[k[y]] + g[(U \ {y}) \ {x}]
        BY <2>1, <4>1 DEF Additive
      <4>3. h[U] = Reserve[k[x]] + g[U \ {x}]
            /\ h[U \ {y}] = Reserve[k[x]] + g[(U \ {y}) \ {x}]
        BY <3>3, <4>1
      <4>4. g[(U \ {y}) \ {x}] \in Nat /\ Reserve[k[y]] \in Nat
        BY <2>1, <2>2, <4>1 DEF Additive
      <4> HIDE DEF h
      <4> QED  BY <2>2, <4>2, <4>3, <4>4
    <3> QED  BY <3>1, <3>2, <3>3
  <2>5. Additive(k, h, T \cup {x})
    BY <2>3, <2>4 DEF Additive
  <2> QED  BY <2>5
<1> HIDE DEF Q
<1>3. ASSUME NEW T \in SUBSET S, \A x \in T : T \ {x} \in Q
      PROVE  T \in Q
  <2>1. CASE T = {}
    BY <1>1, <2>1
  <2>2. ASSUME NEW x \in T PROVE T \in Q
    <3>1. T \ {x} \in SUBSET S /\ x \in S \ (T \ {x}) /\ (T \ {x}) \cup {x} = T
      OBVIOUS
    <3>2. T \ {x} \in Q
      BY <1>3
    <3>3. (T \ {x}) \cup {x} \in Q
      BY <1>2, <3>1, <3>2
    <3> QED  BY <3>1, <3>3
  <2> QED  BY <2>1, <2>2
<1>4. S \in Q
  BY <1>3, SubsetInduction
<1> QED  BY <1>4 DEF Q

LEMMA ReservedIsAdditive ==
    ASSUME NEW k \in [Callers -> Kinds], NEW S \in SUBSET Callers, NEW g, Additive(k, g, S)
    PROVE  Reserved(k, S) = g[S]
<1>1. \A T \in SUBSET S : T # {} => Choice(T) \in T
  BY DEF Choice
<1>2. Sums(k, g, S)
  <2>1. ASSUME NEW T \in SUBSET S
        PROVE  g[T] = IF T = {} THEN 0 ELSE Reserve[k[Choice(T)]] + g[T \ {Choice(T)}]
    BY <1>1 DEF Additive
  <2>2. g = [T \in SUBSET S |-> g[T]]
    BY DEF Additive
  <2> QED  BY <2>1, <2>2 DEF Sums
<1> DEFINE f == CHOOSE f : Sums(k, f, S)
           Q == {T \in SUBSET S : f[T] = g[T]}
<1>3. Sums(k, f, S)
  BY <1>2
<1> HIDE DEF f
<1>4. ASSUME NEW T \in SUBSET S, \A x \in T : T \ {x} \in Q
      PROVE  T \in Q
  <2>1. CASE T = {}
    BY <1>3, <2>1 DEF Sums, Additive
  <2>2. CASE T # {}
    <3>1. Choice(T) \in T /\ f[T \ {Choice(T)}] = g[T \ {Choice(T)}]
      BY <1>1, <1>4, <2>2
    <3>2. f[T] = Reserve[k[Choice(T)]] + f[T \ {Choice(T)}]
      BY <1>3, <2>2 DEF Sums
    <3>3. g[T] = Reserve[k[Choice(T)]] + g[T \ {Choice(T)}]
      BY <3>1 DEF Additive
    <3> QED  BY <3>1, <3>2, <3>3
  <2> QED  BY <2>1, <2>2
<1> HIDE DEF Q
<1>5. S \in Q
  BY <1>4, SubsetInduction
<1> QED  BY <1>5, ReservedUnfolds DEF Q, f

(* What the accounting needs of a sum.                                     *)
LEMMA ReservedOfCallers ==
    ASSUME NEW k \in [Callers -> Kinds]
    PROVE  /\ Reserved(k, {}) = 0
           /\ \A S \in SUBSET Callers : Reserved(k, S) \in Nat
           /\ \A S \in SUBSET Callers : \A x \in S :
                 Reserved(k, S) = Reserve[k[x]] + Reserved(k, S \ {x})
<1>1. PICK g : Additive(k, g, Callers)
  BY AdditiveExists
<1>2. ASSUME NEW S \in SUBSET Callers
      PROVE  Reserved(k, S) = g[S]
  <2> DEFINE h == [T \in SUBSET S |-> g[T]]
  <2>1. Additive(k, h, S)
    BY <1>1 DEF Additive
  <2> HIDE DEF h
  <2>2. Reserved(k, S) = h[S]
    BY <2>1, ReservedIsAdditive
  <2> QED  BY <2>2 DEF h
<1> QED  BY <1>1, <1>2 DEF Additive

(* Only the kinds of the members matter.                                   *)
LEMMA ReservedAgrees ==
    ASSUME NEW k \in [Callers -> Kinds], NEW j \in [Callers -> Kinds], NEW S \in SUBSET Callers,
           \A a \in S : j[a] = k[a]
    PROVE  Reserved(j, S) = Reserved(k, S)
<1>1. PICK g : Additive(k, g, S)
  BY AdditiveExists
<1>2. Additive(j, g, S)
  BY <1>1 DEF Additive
<1> QED  BY <1>1, <1>2, ReservedIsAdditive

LEMMA ReservedCovered ==
    ASSUME NEW k \in [Callers -> Kinds], NEW S \in SUBSET Callers, NEW T \in SUBSET Callers,
           NEW U \in SUBSET (S \cup T)
    PROVE  Reserved(k, U) <= Reserved(k, S) + Reserved(k, T)
<1>0. /\ Reserved(k, {}) = 0
      /\ \A V \in SUBSET Callers : Reserved(k, V) \in Nat
      /\ \A V \in SUBSET Callers : \A x \in V :
            Reserved(k, V) = Reserve[k[x]] + Reserved(k, V \ {x})
      /\ \A x \in Callers : Reserve[k[x]] \in Nat
  BY ReservedOfCallers, BudgetAssumption DEF BudgetAssumption
<1> DEFINE Below(V) == Reserved(k, V \cap U) <= Reserved(k, V \cap S) + Reserved(k, V \cap T)
           Q == {V \in SUBSET Callers : Below(V)}
<1>1. ASSUME NEW V \in SUBSET Callers, \A x \in V : V \ {x} \in Q
      PROVE  V \in Q
  <2>1. CASE V = {}
    <3>1. V \cap U = {} /\ V \cap S = {} /\ V \cap T = {}
      BY <2>1
    <3>2. Below(V)
      <4>1. 0 <= 0 + 0
        OBVIOUS
      <4> QED  BY <1>0, <3>1, <4>1
    <3> QED  BY <3>2
  <2>2. ASSUME NEW x \in V PROVE Below(V)
    <3> DEFINE W == V \ {x}
               With(A) == Reserved(k, V \cap A) = Reserved(k, W \cap A) + (IF x \in A THEN Reserve[k[x]] ELSE 0)
    <3>1. Reserve[k[x]] \in Nat
      BY <1>0
    <3>2. ASSUME NEW A \in SUBSET Callers
          PROVE  With(A) /\ Reserved(k, W \cap A) \in Nat
      <4>1. CASE x \in A
        <5>1. V \cap A \in SUBSET Callers /\ x \in V \cap A /\ (V \cap A) \ {x} = W \cap A
          BY <4>1
        <5>2. Reserved(k, V \cap A) = Reserve[k[x]] + Reserved(k, W \cap A)
          BY <1>0, <5>1
        <5>3. Reserved(k, W \cap A) \in Nat
          BY <1>0
        <5> HIDE DEF W
        <5> QED  BY <3>1, <4>1, <5>2, <5>3
      <4>2. CASE x \notin A
        <5>1. V \cap A = W \cap A
          <6>1. \A y : y \in V \cap A <=> y \in (V \ {x}) \cap A
            BY <4>2
          <6> QED  BY <6>1
        <5>2. Reserved(k, W \cap A) \in Nat
          BY <1>0
        <5>3. Reserved(k, V \cap A) = Reserved(k, W \cap A)
          BY <5>1, Zenon
        <5> HIDE DEF W
        <5> QED  BY <4>2, <5>2, <5>3
      <4> QED  BY <4>1, <4>2
    <3>3. With(U) /\ With(S) /\ With(T)
          /\ Reserved(k, W \cap U) \in Nat /\ Reserved(k, W \cap S) \in Nat /\ Reserved(k, W \cap T) \in Nat
      <4>1. U \in SUBSET Callers
        OBVIOUS
      <4> HIDE DEF W, With
      <4> QED  BY <3>2, <4>1
    <3>4. Reserved(k, W \cap U) <= Reserved(k, W \cap S) + Reserved(k, W \cap T)
      BY <1>1
    <3>5. x \in U => x \in S \/ x \in T
      OBVIOUS
    <3> HIDE DEF W
    <3> QED  BY <3>1, <3>3, <3>4, <3>5
  <2> QED  BY <2>1, <2>2
<1> HIDE DEF Q
<1>2. Callers \in Q
  BY <1>1, SubsetInduction
<1>3. Callers \cap U = U /\ Callers \cap S = S /\ Callers \cap T = T
  OBVIOUS
<1> QED  BY <1>2, <1>3 DEF Q

-----------------------------------------------------------------------------
(* The bytes counted are those of the pending requests, and a lease keeps  *)
(* its reservation until its child has grown: the two facts that make the  *)
(* prediction of acquire() an upper bound.                                 *)
BytesCounted == pendingBytes = Reserved(kind, AtStage("pending"))

StartingIsWarm ==
    \A a \in Callers : stage[a] = "active" /\ child[a] \in {"none", "small"} => warm[a]

Accounts == BytesCounted /\ StartingIsWarm

LEMMA AccountsInitially == BudgetInit => Accounts
<1> SUFFICES ASSUME BudgetInit PROVE Accounts
  OBVIOUS
<1> USE BudgetAssumption DEF BudgetAssumption
<1>1. AtStage("pending") = {} /\ kind \in [Callers -> Kinds] /\ pendingBytes = 0
  BY DEF BudgetInit, AtStage
<1>2. Reserved(kind, {}) = 0
  BY <1>1, ReservedOfCallers
<1>3. BytesCounted
  BY <1>1, <1>2 DEF BytesCounted
<1>4. StartingIsWarm
  BY DEF BudgetInit, StartingIsWarm
<1> QED  BY <1>3, <1>4 DEF Accounts

LEMMA AcquireAccounts ==
    ASSUME BInv, Accounts, NEW a \in Callers, NEW k \in Kinds, Acquire(a, k)
    PROVE  Accounts'
<1> USE BudgetAssumption DEF BudgetAssumption
<1> DEFINE P == AtStage("pending")
<1>1. /\ stage[a] = "idle" /\ stage'[a] = "pending" /\ kind'[a] = k
      /\ kind \in [Callers -> Kinds] /\ kind' \in [Callers -> Kinds]
      /\ \A b \in Callers \ {a} : stage'[b] = stage[b] /\ kind'[b] = kind[b]
      /\ pendingBytes' = pendingBytes + Reserve[k]
  BY DEF Acquire, BInv, BudgetTypeOK
<1>2. P \in SUBSET Callers /\ a \notin P /\ P' = P \cup {a}
  BY <1>1 DEF AtStage
<1>3. Reserved(kind', P) = Reserved(kind, P)
  BY <1>1, <1>2, ReservedAgrees
<1>4. Reserved(kind', P \cup {a}) = Reserve[k] + Reserved(kind', P)
  <2>1. P \cup {a} \in SUBSET Callers /\ a \in P \cup {a} /\ (P \cup {a}) \ {a} = P
    BY <1>2
  <2> HIDE DEF P
  <2>2. Reserved(kind', P \cup {a}) = Reserve[kind'[a]] + Reserved(kind', (P \cup {a}) \ {a})
    BY <1>1, <2>1, ReservedOfCallers
  <2>3. Reserved(kind', (P \cup {a}) \ {a}) = Reserved(kind', P)
    BY <2>1, Zenon
  <2> QED  BY <1>1, <2>2, <2>3
<1>5. Reserved(kind, P) \in Nat /\ Reserve[k] \in Nat
  BY <1>1, <1>2, ReservedOfCallers
<1>6. BytesCounted'
  <2>1. pendingBytes' = Reserved(kind', P \cup {a})
    BY <1>1, <1>3, <1>4, <1>5 DEF Accounts, BytesCounted
  <2>2. Reserved(kind', P \cup {a}) = Reserved(kind', P')
    BY <1>2, Zenon
  <2> QED  BY <2>1, <2>2 DEF BytesCounted
<1>7. StartingIsWarm'
  BY <1>1 DEF Acquire, Accounts, StartingIsWarm
<1> QED  BY <1>6, <1>7 DEF Accounts

LEMMA SettlePendingAccounts ==
    ASSUME BInv, Accounts, NEW a \in Callers, Refuse(a) \/ Admit(a)
    PROVE  Accounts'
<1> USE BudgetAssumption DEF BudgetAssumption
<1> DEFINE P == AtStage("pending")
<1>1. /\ stage[a] = "pending" /\ stage'[a] \in {"idle", "active"} /\ kind' = kind
      /\ kind \in [Callers -> Kinds]
      /\ \A b \in Callers \ {a} : stage'[b] = stage[b]
      /\ pendingBytes' = Less(pendingBytes, Reserve[kind[a]])
  BY DEF Refuse, Admit, ReleasePending, BInv, BudgetTypeOK
<1>2. P \in SUBSET Callers /\ a \in P /\ P' = P \ {a}
  BY <1>1 DEF AtStage
<1>3. /\ Reserved(kind, P) = Reserve[kind[a]] + Reserved(kind, P \ {a})
      /\ Reserved(kind, P \ {a}) \in Nat /\ Reserve[kind[a]] \in Nat
  BY <1>1, <1>2, ReservedOfCallers
<1>4. BytesCounted'
  <2>1. pendingBytes' = Reserved(kind, P \ {a})
    BY <1>1, <1>3 DEF Less, Accounts, BytesCounted
  <2>2. Reserved(kind, P \ {a}) = Reserved(kind', P')
    BY <1>1, <1>2, Zenon
  <2> QED  BY <2>1, <2>2 DEF BytesCounted
<1>5. StartingIsWarm'
  <2>1. CASE Refuse(a)
    BY <1>1, <2>1 DEF Refuse, Accounts, StartingIsWarm
  <2>2. CASE Admit(a)
    BY <1>1, <2>2 DEF Admit, Accounts, StartingIsWarm, BInv, BudgetTypeOK
  <2> QED  BY <2>1, <2>2
<1> QED  BY <1>4, <1>5 DEF Accounts

LEMMA LeaseAccounts ==
    ASSUME BInv, Accounts, NEW a \in Callers,
           Spawn(a) \/ SpawnThrows(a) \/ Grow(a) \/ Cool(a) \/ Exit(a) \/ Finish(a)
    PROVE  Accounts'
<1>1. /\ stage[a] = "active" /\ stage'[a] \in {"active", "idle"} /\ kind' = kind
      /\ \A b \in Callers \ {a} : stage'[b] = stage[b]
      /\ pendingBytes' = pendingBytes
  BY DEF Spawn, SpawnThrows, Grow, Cool, Exit, Finish, Release, BInv, BudgetTypeOK, counters
<1>2. BytesCounted'
  <2>1. AtStage("pending")' = AtStage("pending")
    BY <1>1 DEF AtStage
  <2> QED  BY <1>1, <2>1, Zenon DEF Accounts, BytesCounted
<1>3. StartingIsWarm'
  BY DEF Spawn, SpawnThrows, Grow, Cool, Exit, Finish, Release, BInv, BudgetTypeOK,
         Accounts, StartingIsWarm
<1> QED  BY <1>2, <1>3 DEF Accounts

LEMMA NextAccounts == BInv /\ Accounts /\ [BudgetNext]_budget => Accounts'
<1> SUFFICES ASSUME BInv, Accounts, [BudgetNext]_budget PROVE Accounts'
  OBVIOUS
<1>1. ASSUME NEW a \in Callers, CallerStep(a) PROVE Accounts'
  BY <1>1, AcquireAccounts, SettlePendingAccounts, LeaseAccounts DEF CallerStep, LifetimeExceeded
<1>2. CASE Drift \/ UNCHANGED budget
  <2>1. UNCHANGED <<stage, kind, warm, child, pendingBytes>>
    BY <1>2 DEF Drift, budget, counters
  <2> QED  BY <2>1 DEF Accounts, BytesCounted, StartingIsWarm, AtStage
<1> QED  BY <1>1, <1>2 DEF BudgetNext

LEMMA AccountsInvariant == BudgetSpec => []Accounts
<1> QED  BY AccountsInitially, NextAccounts, BudgetInvariant, PTL DEF BudgetSpec

(* The counters, although they are clamped at zero, are the number and the *)
(* memory of the requests whose reading has not come back.                 *)
THEOREM CountersAreExact == BudgetSpec => []CountersExact
<1>1. BInv /\ Accounts => CountersExact
  BY DEF BInv, Accounts, BytesCounted, CountersExact
<1> QED  BY <1>1, BudgetInvariant, AccountsInvariant, PTL

(* A request that is admitted fits below the ceiling of its kind together  *)
(* with every child that is running or starting.                           *)
LEMMA AdmittedFits ==
    ASSUME BInv, Accounts, NEW a \in Callers, Admit(a), kind[a] # Cleanup
    PROVE  Committed' < Ceiling[kind[a]]
<1> USE BudgetAssumption DEF BudgetAssumption
<1> DEFINE Grown == {b \in AtStage("active") : child[b] = "grown"}
           Warm == {b \in AtStage("active") : warm[b]}
           Running == {b \in AtStage("active") : child[b] # "dead"}
           P == AtStage("pending")
<1>1. /\ stage[a] = "pending" /\ stage'[a] = "active" /\ child[a] = "none"
      /\ kind \in [Callers -> Kinds] /\ kind' = kind /\ others' = others /\ child' = child
      /\ \A b \in Callers \ {a} : stage'[b] = stage[b]
      /\ Predicted < Ceiling[kind[a]]
  BY DEF Admit, BInv, BudgetTypeOK
<1>2. Predicted = others + Reserved(kind, Grown) + Reserved(kind, P) + Reserved(kind, Warm)
  BY DEF Predicted, MemoryInUse, Accounts, BytesCounted
<1>3. /\ Grown \in SUBSET Callers /\ Warm \in SUBSET Callers /\ P \in SUBSET Callers
      /\ a \in P /\ a \notin Running /\ Running \in SUBSET (Grown \cup Warm)
  BY <1>1 DEF AtStage, Accounts, StartingIsWarm, BInv, BudgetTypeOK, Children
<1>4. Running' = Running \cup {a}
  BY <1>1 DEF AtStage
<1>5. Committed' = others + Reserved(kind, Running \cup {a})
  <2>1. Committed' = others' + Reserved(kind', Running')
    BY DEF Committed
  <2>2. Reserved(kind', Running') = Reserved(kind, Running \cup {a})
    BY <1>1, <1>4, Zenon
  <2> QED  BY <1>1, <2>1, <2>2
<1> HIDE DEF Grown, Warm, Running, P
<1>6. Reserved(kind, Running \cup {a}) = Reserve[kind[a]] + Reserved(kind, Running)
  <2>1. Running \cup {a} \in SUBSET Callers /\ a \in Running \cup {a}
        /\ (Running \cup {a}) \ {a} = Running
    BY <1>3
  <2>2. Reserved(kind, Running \cup {a}) = Reserve[kind[a]] + Reserved(kind, (Running \cup {a}) \ {a})
    BY <1>1, <2>1, ReservedOfCallers
  <2>3. Reserved(kind, (Running \cup {a}) \ {a}) = Reserved(kind, Running)
    BY <2>1, Zenon
  <2> QED  BY <2>2, <2>3
<1>7. Reserved(kind, P) = Reserve[kind[a]] + Reserved(kind, P \ {a})
  BY <1>1, <1>3, ReservedOfCallers
<1>8. Reserved(kind, Running) <= Reserved(kind, Grown) + Reserved(kind, Warm)
  BY <1>1, <1>3, ReservedCovered
<1>9. /\ Reserved(kind, Grown) \in Nat /\ Reserved(kind, Warm) \in Nat
      /\ Reserved(kind, P \ {a}) \in Nat /\ Reserved(kind, Running) \in Nat
      /\ Reserve[kind[a]] \in Nat /\ Ceiling[kind[a]] \in Nat /\ others \in Nat
  <2>1. P \ {a} \in SUBSET Callers /\ Running \in SUBSET Callers
    BY <1>3
  <2> QED  BY <1>1, <1>3, <2>1, ReservedOfCallers DEF BInv, BudgetTypeOK
<1> QED  BY <1>1, <1>2, <1>5, <1>6, <1>7, <1>8, <1>9

(* Concurrent starts never overbook the memory: at every admission what    *)
(* has been admitted, once grown, stays below the ceiling of the kind.     *)
THEOREM MemoryNeverOverbooked == BudgetSpec => NeverOverbooked
<1>1. ASSUME BInv, Accounts, [BudgetNext]_budget,
             NEW a \in Callers, stage[a] = "pending", stage'[a] = "active", kind[a] # Cleanup
      PROVE  Committed' < Ceiling[kind[a]]
  <2>1. ASSUME NEW b \in Callers, CallerStep(b) PROVE Admit(a)
    <3>1. stage \in [Callers -> Stages]
      BY <1>1 DEF BInv, BudgetTypeOK
    <3>2. ~(\E k \in Kinds : Acquire(b, k)) /\ ~Refuse(b)
      BY <1>1, <3>1 DEF Acquire, Refuse
    <3>3. ~(Spawn(b) \/ Grow(b) \/ Cool(b) \/ Exit(b) \/ LifetimeExceeded(b))
      BY <1>1 DEF Spawn, Grow, Cool, Exit, LifetimeExceeded
    <3>4. ~(SpawnThrows(b) \/ Finish(b))
      BY <1>1, <3>1 DEF SpawnThrows, Finish, Release
    <3>5. Admit(b)
      BY <2>1, <3>2, <3>3, <3>4 DEF CallerStep
    <3> QED  BY <1>1, <3>1, <3>5 DEF Admit
  <2>2. CASE Drift \/ UNCHANGED budget
    BY <1>1, <2>2 DEF Drift, budget
  <2> QED  BY <1>1, <2>1, <2>2, AdmittedFits DEF BudgetNext
<1>2. BInv /\ Accounts /\ [BudgetNext]_budget =>
        [\A a \in Callers :
            stage[a] = "pending" /\ stage'[a] = "active" /\ kind[a] # Cleanup
            => Committed' < Ceiling[kind[a]]]_budget
  BY <1>1
<1> QED  BY <1>2, BudgetInvariant, AccountsInvariant, PTL DEF BudgetSpec, NeverOverbooked

-----------------------------------------------------------------------------
(* The store of the global state.                                          *)

Sane == {s \in States : s.revision >= 0}
Sources == Sane \cup {Missing, Broken}

Typed ==
    /\ primary \in Sources /\ backup \in Sources
    /\ temp \in Sources /\ undo \in Sources
    /\ queue \in Seq(Calls)
    /\ running \in Calls \cup {None}
    /\ step \in Steps
    /\ base \in Sane \cup {Fresh}
    /\ known \in Sane \cup {Fresh}
    /\ purge \subseteq {"backup", "temp"}
    /\ outcome \in [Calls -> {"idle", "waiting", "written", "settled", "done", "failed", "lost"}]
    /\ faults \in Nat
    /\ sound \in BOOLEAN /\ exposed \in BOOLEAN
    /\ erased \subseteq Changes

(* The calls in the queue still wait for their answer. *)
QueueWaits ==
    /\ \A i \in 1 .. Len(queue) : outcome[queue[i]] = "waiting" /\ queue[i] # running
    /\ \A i, j \in 1 .. Len(queue) : queue[i] = queue[j] => i = j

AtWork ==
    /\ running = None <=> step = "idle"
    /\ running # None => outcome[running] = IF step = "sync" THEN "written" ELSE "waiting"
    /\ step \in {"copy", "rename"} => temp \in {Missing, After[running][base]}

(* What undamaged files look like. *)
Sound ==
    sound =>
        /\ primary \in Sane \cup {Missing}
        /\ primary = Missing => backup = Missing
        /\ step \in {"apply", "open", "write", "copy", "rename"} => base = ReadState
        /\ step = "sync" => /\ primary \in Sane
                            /\ undo \in Sane \cup {Missing}
                            /\ undo = Missing => backup = Missing

Settled == \A c \in Calls : outcome[c] = "settled" => c = Reset

SInv == Typed /\ QueueWaits /\ AtWork /\ Sound /\ Settled

-----------------------------------------------------------------------------
(* What a call makes of a state is a state with a revision.                *)
LEMMA AfterSane ==
    ASSUME NEW c \in Calls, NEW s \in Sane \cup {Fresh}
    PROVE  After[c][s] \in Sane /\ s \in States
<1>1. s \in States /\ s.revision \in Int /\ s.revision >= -1 /\ s.holds \subseteq Changes
  BY DEF Sane, Fresh, States
<1>2. (IF c = Reset THEN {} ELSE s.holds \cup {c}) \in SUBSET Changes
  BY <1>1 DEF Calls
<1>3. After[c][s] = Revised(s, IF c = Reset THEN {} ELSE s.holds \cup {c})
  BY <1>1 DEF After
<1>4. \A h \in SUBSET Changes : Revised(s, h) \in Sane
  BY <1>1 DEF Revised, Sane, States
<1> QED  BY <1>1, <1>2, <1>3, <1>4

(* A receipt in a state says that its call would change nothing.           *)
LEMMA ReceiptIsRedundant ==
    ASSUME NEW c \in Calls, NEW s \in Sane \cup {Fresh}, Receipt(c, s)
    PROVE  After[c][s] = s
<1> USE StoreAssumption DEF StoreAssumption
<1>1. c \in s.holds /\ c # Reset /\ s # Fresh
  BY DEF Receipt, Fresh, States
<1>2. s \in Sane /\ s \in States /\ s.revision \in Int /\ s.revision >= 0
  BY <1>1 DEF Sane, States
<1>3. s.holds \cup {c} = s.holds
  BY <1>1
<1>4. After[c][s] = Revised(s, s.holds)
  BY <1>1, <1>2, <1>3 DEF After
<1>5. Revised(s, s.holds) = [holds |-> s.holds, revision |-> s.revision]
  BY <1>2 DEF Revised, Content
<1>6. s = [holds |-> s.holds, revision |-> s.revision]
  BY <1>2 DEF States
<1> QED  BY <1>4, <1>5, <1>6

(* A read of good files returns a state.                                   *)
LEMMA ReadSane ==
    ASSUME NEW p \in Sources, NEW b \in Sources
    PROVE  /\ Readable(p, b) \in Sane \cup {Fresh, Broken}
           /\ p \in Sane => Readable(p, b) = p
           /\ p = Missing /\ b = Missing => Readable(p, b) = Fresh
<1> USE StoreAssumption DEF StoreAssumption
<1>1. \A f \in Sources : f \in States <=> f \in Sane
  BY DEF Sources, Sane
<1> QED  BY <1>1 DEF Readable, Sources, Sane

-----------------------------------------------------------------------------
Simulates == Register!Next \/ UNCHANGED Register!register

LEMMA StoreInitInvariant == StoreInit => SInv /\ Register!Init
<1> SUFFICES ASSUME StoreInit PROVE SInv /\ Register!Init
  OBVIOUS
<1> USE StoreAssumption DEF StoreAssumption, StoreInit
<1>1. Typed
  <2>1. queue \in Seq(Calls) /\ outcome \in [Calls -> {"idle", "waiting", "written", "settled", "done", "failed", "lost"}]
    OBVIOUS
  <2> QED  BY <2>1 DEF Typed, Sources, Steps
<1>2. QueueWaits /\ AtWork /\ Settled
  BY DEF QueueWaits, AtWork, Settled
<1>3. Sound
  BY DEF Sound
<1>4. Register!Init
  BY DEF Register!Init, ReadState, Readable, SafeState
<1> QED  BY <1>1, <1>2, <1>3, <1>4 DEF SInv

LEMMA CallStep ==
    ASSUME SInv, NEW c \in Calls, Call(c)
    PROVE  SInv' /\ Simulates
<1> USE StoreAssumption DEF StoreAssumption
<1>0. /\ queue' = Append(queue, c) /\ queue \in Seq(Calls) /\ queue' \in Seq(Calls)
      /\ outcome' = [outcome EXCEPT ![c] = "waiting"] /\ outcome[c] # "waiting"
      /\ outcome[c] # "written"
      /\ UNCHANGED <<primary, backup, temp, undo, running, step, base, known, purge,
                     faults, sound, exposed, erased>>
  BY DEF Call, SInv, Typed, Tell, files, Quiet
<1>1. Typed'
  BY <1>0 DEF SInv, Typed
<1>2. QueueWaits'
  <2>1. \A i \in 1 .. Len(queue) : queue[i] \in Calls /\ queue[i] # c
    BY <1>0 DEF SInv, QueueWaits
  <2>2. running # c
    BY <1>0 DEF SInv, AtWork
  <2>3. /\ Len(queue') = Len(queue) + 1 /\ Len(queue) \in Nat /\ queue'[Len(queue) + 1] = c
        /\ \A i \in 1 .. Len(queue) : queue'[i] = queue[i]
    BY <1>0
  <2>4. \A i \in 1 .. Len(queue') : i \in 1 .. Len(queue) \/ i = Len(queue) + 1
    BY <2>3
  <2>5. \A d \in Calls : outcome'[d] = IF d = c THEN "waiting" ELSE outcome[d]
    BY <1>0 DEF SInv, Typed
  <2>6. \A i \in 1 .. Len(queue') : outcome'[queue'[i]] = "waiting" /\ queue'[i] # running'
    BY <1>0, <2>1, <2>2, <2>3, <2>4, <2>5 DEF SInv, QueueWaits
  <2>7. \A i, j \in 1 .. Len(queue') : queue'[i] = queue'[j] => i = j
    BY <2>1, <2>3, <2>4 DEF SInv, QueueWaits
  <2> QED  BY <2>6, <2>7 DEF QueueWaits
<1>3. AtWork' /\ Settled'
  BY <1>0 DEF SInv, Typed, AtWork, Settled
<1>4. Sound'
  BY <1>0 DEF SInv, Sound, ReadState
<1>5. Register!Call(c)
  BY <1>0 DEF Call, Register!Call, Register!Becomes, Register!Ended, Tell, ReadState, SafeState
<1> QED  BY <1>1, <1>2, <1>3, <1>4, <1>5 DEF SInv, Simulates, Register!Next

(* The transaction ends, before or after its rename.                       *)
LEMMA EndsKeeps ==
    ASSUME SInv, running # None, NEW o \in {"done", "failed", "settled"}, Ends(o),
           o = "settled" => running = Reset
    PROVE  /\ QueueWaits' /\ Settled'
           /\ running' = None /\ step' = "idle" /\ queue' \in Seq(Calls)
           /\ outcome' \in [Calls -> {"idle", "waiting", "written", "settled", "done", "failed", "lost"}]
           /\ base' = Fresh
<1>0. /\ running \in Calls /\ queue \in Seq(Calls) /\ queue' = queue
      /\ outcome' = [outcome EXCEPT ![running] = o] /\ running' = None
      /\ step' = "idle" /\ base' = Fresh
  BY DEF Ends, Tell, SInv, Typed
<1>1. \A d \in Calls : outcome'[d] = IF d = running THEN o ELSE outcome[d]
  BY <1>0 DEF SInv, Typed
<1>2. \A i \in 1 .. Len(queue) : queue[i] \in Calls /\ queue[i] # running
  BY <1>0 DEF SInv, QueueWaits
<1>3. QueueWaits'
  BY <1>0, <1>1, <1>2, StoreAssumption DEF SInv, QueueWaits, StoreAssumption
<1>4. Settled'
  BY <1>1 DEF SInv, Settled
<1> QED  BY <1>0, <1>3, <1>4 DEF SInv, Typed

(* A step within the transaction changes neither the queue nor the caller. *)
LEMMA GoesKeeps ==
    ASSUME SInv, NEW from \in Steps \ {"idle"}, NEW to \in Steps \ {"idle"}, Goes(from, to),
           outcome' = outcome
    PROVE  /\ QueueWaits' /\ Settled'
           /\ running \in Calls /\ running' = running /\ base' = base /\ queue' = queue
           /\ step = from /\ step' = to
<1>1. running # None /\ step = from /\ step' = to /\ UNCHANGED <<queue, running, base>>
  BY DEF Goes, SInv, AtWork
<1> QED  BY <1>1 DEF SInv, QueueWaits, Settled, Typed

LEMMA StartsKeeps ==
    ASSUME SInv, NEW s \in Sane \cup {Fresh, Broken}, Starts(s)
    PROVE  /\ QueueWaits' /\ Settled' /\ AtWork'
           /\ step = "idle" /\ step' \in {"idle", "apply"}
           /\ step' = "apply" => base' = s /\ base' \in Sane \cup {Fresh}
           /\ running' \in Calls \cup {None} /\ base' \in Sane \cup {Fresh}
           /\ queue' \in Seq(Calls) /\ Head(queue) \in Calls
           /\ outcome[Head(queue)] = "waiting"
           /\ outcome' = IF s = Broken THEN [outcome EXCEPT ![Head(queue)] = "failed"] ELSE outcome
<1> USE StoreAssumption DEF StoreAssumption
<1>1. /\ running = None /\ step = "idle" /\ queue \in Seq(Calls) /\ queue # <<>>
      /\ queue' = Tail(queue) /\ Head(queue) = queue[1] /\ Head(queue) \in Calls
      /\ Len(queue) \in Nat /\ Len(queue) >= 1 /\ queue' \in Seq(Calls)
      /\ Len(queue') = Len(queue) - 1
      /\ \A i \in 1 .. Len(queue') : queue'[i] = queue[i + 1]
  BY DEF Starts, SInv, Typed, AtWork
<1>2. /\ outcome[Head(queue)] = "waiting"
      /\ \A i \in 1 .. Len(queue') : /\ queue'[i] \in Calls /\ outcome[queue'[i]] = "waiting"
                                     /\ queue'[i] # Head(queue) /\ queue'[i] # None
  <2>1. \A i \in 1 .. Len(queue') : i + 1 \in 1 .. Len(queue) /\ i + 1 # 1
    BY <1>1
  <2>2. \A i \in 1 .. Len(queue) : queue[i] \in Calls /\ queue[i] # None
    BY <1>1
  <2> QED  BY <1>1, <2>1, <2>2 DEF SInv, QueueWaits
<1>3. outcome' = IF s = Broken THEN [outcome EXCEPT ![Head(queue)] = "failed"] ELSE outcome
  BY DEF Starts, Tell
<1>4. \A i \in 1 .. Len(queue') : outcome'[queue'[i]] = "waiting" /\ queue'[i] # running'
  BY <1>1, <1>2, <1>3 DEF Starts, SInv, Typed
<1>5. \A i, j \in 1 .. Len(queue') : queue'[i] = queue'[j] => i = j
  <2>1. \A i \in 1 .. Len(queue') : i + 1 \in 1 .. Len(queue) /\ i \in Int
    BY <1>1
  <2> QED  BY <1>1, <2>1 DEF SInv, QueueWaits
<1>6. QueueWaits'
  BY <1>4, <1>5 DEF QueueWaits
<1>7. Settled'
  BY <1>1, <1>3 DEF SInv, Typed, Settled
<1>8. CASE s = Broken
  <2>1. UNCHANGED <<running, step, base>>
    BY <1>8 DEF Starts
  <2> QED  BY <1>1, <1>2, <1>3, <1>6, <1>7, <2>1 DEF AtWork, SInv, Typed
<1>9. CASE s # Broken
  <2>1. running' = Head(queue) /\ step' = "apply" /\ base' = s /\ UNCHANGED outcome
    BY <1>9 DEF Starts
  <2> QED  BY <1>1, <1>2, <1>3, <1>6, <1>7, <1>9, <2>1 DEF AtWork, SInv, Typed
<1> QED  BY <1>8, <1>9

-----------------------------------------------------------------------------
(* One lemma per action: it keeps the invariant and is a step of the       *)
(* register.                                                               *)
LEMMA ReadStateSane == SInv => ReadState \in Sane \cup {Fresh, Broken}
BY ReadSane DEF SInv, Typed, ReadState

(* Undamaged files can be read.                                            *)
LEMMA SoundReads ==
    ASSUME SInv, sound
    PROVE  /\ ReadState \in Sane \cup {Fresh}
           /\ ReadState = IF primary = Missing THEN Fresh ELSE primary
           /\ primary # Missing => primary \in Sane /\ primary \in States
<1>1. primary \in Sane \cup {Missing} /\ backup \in Sources /\ primary \in Sources
  BY DEF SInv, Sound, Typed
<1>2. CASE primary = Missing
  BY <1>2, ReadSane DEF SInv, Sound, ReadState, Sources
<1>3. CASE primary # Missing
  BY <1>1, <1>3, ReadSane DEF ReadState, Sane
<1> QED  BY <1>2, <1>3

LEMMA BeginStep == ASSUME SInv, Begin PROVE SInv' /\ Simulates
<1> USE StoreAssumption DEF StoreAssumption
<1>0. /\ Starts(ReadState) /\ ReadState \in Sane \cup {Fresh, Broken}
      /\ UNCHANGED <<primary, backup, temp, undo, known, purge, faults, sound, exposed, erased>>
  BY ReadStateSane DEF Begin, Quiet, Starts, files
<1>1. QueueWaits' /\ Settled' /\ AtWork'
  BY <1>0, StartsKeeps
<1>2. Typed'
  BY <1>0, StartsKeeps DEF SInv, Typed, Steps
<1>3. Sound'
  BY <1>0, StartsKeeps DEF SInv, Sound, ReadState
<1>4. ReadState' = ReadState /\ SafeState' = SafeState
  BY <1>0, StartsKeeps DEF ReadState, SafeState
<1>5. CASE ReadState = Broken
  <2>1. Register!Fail(Head(queue))
    BY <1>0, <1>4, <1>5, StartsKeeps
    DEF Register!Fail, Register!Pending, Register!Becomes, Register!Kept
  <2> QED  BY <1>0, <1>1, <1>2, <1>3, <2>1, StartsKeeps DEF SInv, Simulates, Register!Next
<1>6. CASE ReadState # Broken
  BY <1>0, <1>1, <1>2, <1>3, <1>4, <1>6, StartsKeeps DEF SInv, Simulates, Register!register
<1> QED  BY <1>5, <1>6

(* A transaction that ends before its rename and leaves the files readable *)
(* as they were has failed, or had nothing to do.                          *)
LEMMA EndsEarly ==
    ASSUME SInv, step \in {"apply", "open", "write", "copy", "rename"},
           NEW o \in {"done", "failed", "settled"}, Ends(o), sound' = sound,
           sound => ReadState' = ReadState,
           o # "failed" => /\ ReadState' = ReadState
                           /\ After[running][base] = base
    PROVE  Simulates
<1>1. /\ running \in Calls /\ running # None /\ step' = "idle"
      /\ outcome' = [outcome EXCEPT ![running] = o] /\ outcome[running] = "waiting"
  BY DEF SInv, Typed, AtWork, Ends, Tell
<1>2. SafeState = ReadState /\ SafeState' = ReadState'
  BY <1>1 DEF SafeState
<1>3. CASE o = "failed"
  <2>1. Register!Fail(running)
    BY <1>1, <1>2, <1>3 DEF Register!Fail, Register!Pending, Register!Becomes, Register!Kept
  <2> QED  BY <1>1, <2>1 DEF Simulates, Register!Next
<1>4. CASE o # "failed"
  <2>1. sound => base = ReadState
    BY DEF SInv, Sound
  <2>2. Register!Redundant(running)
    BY <1>1, <1>2, <1>4, <2>1 DEF Register!Redundant, Register!Becomes, Register!Kept
  <2> QED  BY <1>1, <2>2 DEF Simulates, Register!Next
<1> QED  BY <1>3, <1>4

LEMMA ApplyStep == ASSUME SInv, Apply PROVE SInv' /\ Simulates
<1> USE StoreAssumption DEF StoreAssumption
<1>0. /\ step = "apply" /\ running \in Calls /\ running # None /\ base \in Sane \cup {Fresh}
      /\ UNCHANGED <<primary, backup, temp, undo, faults, sound, erased>>
      /\ known' \in {known, base} /\ purge' \subseteq {"backup", "temp"} /\ exposed' \in BOOLEAN
  BY DEF Apply, Finishes, files, SInv, Typed, AtWork
<1>1. ReadState' = ReadState
  BY <1>0 DEF ReadState
<1>2. ASSUME NEW o \in {"done", "failed", "settled"}, Ends(o), o = "settled" => running = Reset
      PROVE  SInv'
  <2>1. /\ QueueWaits' /\ Settled' /\ running' = None /\ step' = "idle" /\ queue' \in Seq(Calls)
        /\ outcome' \in [Calls -> {"idle", "waiting", "written", "settled", "done", "failed", "lost"}]
        /\ base' = Fresh
    BY <1>0, <1>2, EndsKeeps
  <2>2. Typed'
    BY <1>0, <2>1 DEF SInv, Typed, Steps
  <2>3. AtWork' /\ Sound'
    BY <1>0, <1>1, <2>1 DEF AtWork, Sound, SInv
  <2> QED  BY <2>1, <2>2, <2>3 DEF SInv
<1>3. CASE Goes("apply", "open") /\ UNCHANGED <<known, purge, outcome>>
  <2>1. /\ QueueWaits' /\ Settled' /\ running' = running /\ base' = base /\ queue' = queue
        /\ step' = "open"
    BY <1>3, GoesKeeps DEF Steps
  <2>2. Typed' /\ AtWork' /\ Sound'
    BY <1>0, <1>1, <1>3, <2>1 DEF SInv, Typed, AtWork, Sound, Steps
  <2>3. UNCHANGED Register!register
    BY <1>0, <1>1, <1>3, <2>1 DEF Register!register, SafeState
  <2> QED  BY <2>1, <2>2, <2>3 DEF SInv, Simulates
<1>4. CASE Ends("failed")
  BY <1>0, <1>1, <1>2, <1>4, EndsEarly
<1>5. CASE Receipt(running, base) /\ Ends("done")
  <2>1. After[running][base] = base
    BY <1>0, <1>5, ReceiptIsRedundant
  <2> QED  BY <1>0, <1>1, <1>2, <1>5, <2>1, EndsEarly
<1>6. CASE After[running][base] = base /\ Finishes
  BY <1>0, <1>1, <1>2, <1>6, EndsEarly DEF Finishes
<1> QED  BY <1>3, <1>4, <1>5, <1>6 DEF Apply

LEMMA ApplyThrowsStep == ASSUME SInv, ApplyThrows PROVE SInv' /\ Simulates
<1>0. /\ step = "apply" /\ running # None /\ Ends("failed")
      /\ UNCHANGED <<primary, backup, temp, undo, known, purge, faults, sound, exposed, erased>>
  BY DEF ApplyThrows, Quiet, files, SInv, AtWork
<1>1. ReadState' = ReadState
  BY <1>0 DEF ReadState
<1>2. QueueWaits' /\ Settled' /\ Typed'
  BY <1>0, EndsKeeps DEF SInv, Typed, Steps
<1>3. AtWork' /\ Sound'
  BY <1>0, <1>1, EndsKeeps DEF AtWork, Sound, SInv
<1> QED  BY <1>0, <1>1, <1>2, <1>3, EndsEarly DEF SInv

LEMMA OpenStep == ASSUME SInv, Open PROVE SInv' /\ Simulates
<1>0. /\ Goes("open", "write") /\ temp' = Broken
      /\ UNCHANGED <<primary, backup, undo, known, purge, outcome, faults, sound, exposed, erased>>
  BY DEF Open, Quiet
<1>1. /\ QueueWaits' /\ Settled' /\ running' = running /\ base' = base /\ queue' = queue
      /\ step = "open" /\ step' = "write"
  BY <1>0, GoesKeeps DEF Steps
<1>2. ReadState' = ReadState /\ SafeState' = SafeState
  BY <1>0, <1>1 DEF ReadState, SafeState
<1>3. Typed' /\ AtWork' /\ Sound'
  BY <1>0, <1>1, <1>2 DEF SInv, Typed, AtWork, Sound, Steps, Sources
<1> QED  BY <1>0, <1>1, <1>2, <1>3 DEF SInv, Simulates, Register!register

LEMMA WriteStep == ASSUME SInv, Write PROVE SInv' /\ Simulates
<1>0. /\ Goes("write", "copy")
      /\ temp' = IF temp = Missing THEN Missing ELSE After[running][base]
      /\ erased' = erased \ {running}
      /\ UNCHANGED <<primary, backup, undo, known, purge, outcome, faults, sound, exposed>>
  BY DEF Write, Quiet
<1>1. /\ QueueWaits' /\ Settled' /\ running' = running /\ base' = base /\ queue' = queue
      /\ step = "write" /\ step' = "copy" /\ running \in Calls
  BY <1>0, GoesKeeps DEF Steps
<1>2. ReadState' = ReadState /\ SafeState' = SafeState
  BY <1>0, <1>1 DEF ReadState, SafeState
<1>3. After[running][base] \in Sane
  BY <1>1, AfterSane DEF SInv, Typed
<1>4. Typed' /\ AtWork' /\ Sound'
  BY <1>0, <1>1, <1>2, <1>3 DEF SInv, Typed, AtWork, Sound, Steps, Sources
<1> QED  BY <1>0, <1>1, <1>2, <1>4 DEF SInv, Simulates, Register!register

(* Of damaged files nothing is promised.                                   *)
LEMMA UnsoundStep ==
    ASSUME SInv, sound' = FALSE, outcome' = outcome
    PROVE  Simulates
BY DEF Simulates, Register!Next, Register!Damage

LEMMA CopyStep == ASSUME SInv, Copy PROVE SInv' /\ Simulates
<1>0. /\ Goes("copy", "rename")
      /\ backup' = IF primary = Missing THEN backup ELSE primary
      /\ UNCHANGED <<primary, temp, undo, known, purge, outcome, faults, sound, exposed, erased>>
  BY DEF Copy, Quiet
<1>1. /\ QueueWaits' /\ Settled' /\ running' = running /\ base' = base /\ queue' = queue
      /\ step = "copy" /\ step' = "rename"
  BY <1>0, GoesKeeps DEF Steps
<1>2. Typed' /\ AtWork'
  BY <1>0, <1>1 DEF SInv, Typed, AtWork, Steps
<1>3. sound => ReadState' = ReadState
  BY <1>0, SoundReads DEF ReadState, Readable
<1>4. Sound'
  BY <1>0, <1>1, <1>3 DEF SInv, Sound
<1>5. CASE sound
  BY <1>0, <1>1, <1>2, <1>3, <1>4, <1>5 DEF SInv, Simulates, Register!register, SafeState
<1>6. CASE ~sound
  <2>1. Simulates
    BY <1>0, <1>6, UnsoundStep DEF SInv, Typed
  <2> QED  BY <1>1, <1>2, <1>4, <2>1 DEF SInv
<1> QED  BY <1>5, <1>6

LEMMA RenameStep == ASSUME SInv, Rename PROVE SInv' /\ Simulates
<1> USE StoreAssumption DEF StoreAssumption
<1>0. /\ step = "rename" /\ running # None /\ running \in Calls /\ base \in Sane \cup {Fresh}
      /\ outcome[running] = "waiting" /\ UNCHANGED <<known, purge, faults, sound>>
  BY DEF Rename, SInv, AtWork, Typed
<1>1. CASE temp = Missing
  <2>0. Ends("failed") /\ exposed' = TRUE /\ UNCHANGED <<primary, backup, temp, undo, erased>>
    BY <1>1 DEF Rename, files
  <2>1. ReadState' = ReadState
    BY <2>0 DEF ReadState
  <2>2. QueueWaits' /\ Settled' /\ Typed'
    BY <1>0, <2>0, EndsKeeps DEF SInv, Typed, Steps
  <2>3. AtWork' /\ Sound'
    BY <1>0, <2>0, <2>1, EndsKeeps DEF AtWork, Sound, SInv
  <2> QED  BY <1>0, <2>0, <2>1, <2>2, <2>3, EndsEarly DEF SInv
<1>2. CASE temp # Missing
  <2>0. /\ step' = "sync" /\ UNCHANGED <<queue, running, base, backup, exposed>>
        /\ outcome' = [outcome EXCEPT ![running] = "written"]
        /\ primary' = temp /\ temp' = Missing /\ undo' = primary
        /\ erased' = IF running = Reset THEN erased \cup base.holds ELSE erased
    BY <1>2 DEF Rename, Goes, Tell
  <2>1. temp = After[running][base] /\ temp \in Sane /\ temp \in States /\ base \in States
    BY <1>0, <1>2, AfterSane DEF SInv, AtWork, Sane
  <2>2. \A d \in Calls : outcome'[d] = IF d = running THEN "written" ELSE outcome[d]
    BY <1>0, <2>0 DEF SInv, Typed
  <2>3. QueueWaits'
    <3>1. \A i \in 1 .. Len(queue) : queue[i] \in Calls /\ queue[i] # running
      BY DEF SInv, QueueWaits, Typed
    <3> QED  BY <2>0, <2>2, <3>1 DEF SInv, QueueWaits
  <2>4. Typed'
    <3>1. base.holds \subseteq Changes
      BY <2>1 DEF States
    <3>2. outcome' \in [Calls -> {"idle", "waiting", "written", "settled", "done", "failed", "lost"}]
      BY <2>0 DEF SInv, Typed
    <3> QED  BY <1>0, <2>0, <2>1, <3>1, <3>2 DEF SInv, Typed, Steps, Sources
  <2>5. AtWork' /\ Settled'
    BY <1>0, <2>0, <2>2 DEF SInv, AtWork, Settled
  <2>6. Sound'
    <3>1. primary' # Missing /\ primary' \in Sane
      BY <2>0, <2>1 DEF Sane
    <3> QED  BY <1>0, <2>0, <3>1 DEF SInv, Sound
  <2>7. ReadState' = temp
    BY <2>0, <2>1 DEF ReadState, Readable
  <2>8. sound => /\ base = ReadState /\ SafeState = ReadState
                 /\ SafeState' = ReadState
    BY <1>0, <2>0, SoundReads DEF SInv, Sound, SafeState
  <2>9. Register!Commit(running)
    BY <1>0, <2>0, <2>1, <2>7, <2>8 DEF Register!Commit, Register!Becomes
  <2> QED  BY <1>0, <2>3, <2>4, <2>5, <2>6, <2>9 DEF SInv, Simulates, Register!Next
<1> QED  BY <1>1, <1>2

LEMMA SyncStep == ASSUME SInv, Sync PROVE SInv' /\ Simulates
<1> USE StoreAssumption DEF StoreAssumption
<1> DEFINE o == IF running = Reset THEN "settled" ELSE "done"
<1>0. /\ step = "sync" /\ running # None /\ running \in Calls /\ outcome[running] = "written"
      /\ Ends(o) /\ known' = After[running][base] /\ undo' = Missing
      /\ purge' = IF running = Reset THEN {"backup", "temp"} ELSE purge
      /\ UNCHANGED <<primary, backup, temp, erased, faults, sound, exposed>>
      /\ base \in Sane \cup {Fresh}
  BY DEF Sync, Finishes, Quiet, SInv, AtWork, Typed
<1>1. /\ QueueWaits' /\ Settled' /\ running' = None /\ step' = "idle" /\ queue' \in Seq(Calls)
      /\ outcome' \in [Calls -> {"idle", "waiting", "written", "settled", "done", "failed", "lost"}]
      /\ base' = Fresh
  BY <1>0, EndsKeeps
<1>2. Typed'
  BY <1>0, <1>1, AfterSane DEF SInv, Typed, Steps, Sources
<1>3. AtWork' /\ Sound'
  BY <1>0, <1>1 DEF AtWork, Sound, SInv
<1>4. ReadState' = ReadState /\ SafeState' = ReadState'
  BY <1>0, <1>1 DEF ReadState, SafeState
<1>5. Register!Settle(running)
  BY <1>0, <1>4 DEF Register!Settle, Register!Becomes, Ends, Tell
<1> QED  BY <1>0, <1>1, <1>2, <1>3, <1>5 DEF SInv, Simulates, Register!Next

(* The two removals of a factory reset run beside other transactions: they *)
(* must spare what a reader gets.                                          *)
LEMMA PurgeStep ==
    ASSUME SInv, NEW f \in {"backup", "temp"}, Purge(f)
    PROVE  SInv' /\ Simulates
<1> USE StoreAssumption DEF StoreAssumption
<1>0. /\ backup' \in {backup, Missing} /\ temp' \in {temp, Missing}
      /\ purge' = purge \ {f} /\ Reset \in Calls
      /\ UNCHANGED <<primary, undo, queue, running, step, base, known, erased, faults, sound, exposed>>
  BY DEF Purge, Quiet, work, Calls
<1>1. CASE outcome' = outcome
  <2>1. Typed' /\ QueueWaits' /\ AtWork' /\ Settled'
    BY <1>0, <1>1 DEF SInv, Typed, QueueWaits, AtWork, Settled, Sources
  <2>2. sound => ReadState' = ReadState
    BY <1>0, SoundReads DEF ReadState, Readable, SInv, Sound
  <2>3. Sound'
    BY <1>0, <2>2 DEF SInv, Sound
  <2>4. CASE sound
    BY <1>0, <1>1, <2>1, <2>2, <2>3, <2>4 DEF SInv, Simulates, Register!register, SafeState
  <2>5. CASE ~sound
    BY <1>0, <1>1, <2>1, <2>3, <2>5, UnsoundStep DEF SInv, Typed
  <2> QED  BY <2>4, <2>5
<1>2. CASE outcome[Reset] = "settled" /\ outcome' = [outcome EXCEPT ![Reset] = "done"]
  <2>0. \A d \in Calls : outcome'[d] = IF d = Reset THEN "done" ELSE outcome[d]
    BY <1>0, <1>2 DEF SInv, Typed
  <2>1. Typed'
    BY <1>0, <1>2 DEF SInv, Typed, Sources
  <2>2. QueueWaits' /\ AtWork' /\ Settled'
    <3>1. \A i \in 1 .. Len(queue) : queue[i] \in Calls /\ queue[i] # Reset
      BY <1>2 DEF SInv, QueueWaits, Typed
    <3>2. running # Reset
      BY <1>0, <1>2 DEF SInv, AtWork
    <3> QED  BY <1>0, <2>0, <3>1, <3>2 DEF SInv, QueueWaits, AtWork, Settled, Typed
  <2>3. sound => ReadState' = ReadState
    BY <1>0, SoundReads DEF ReadState, Readable, SInv, Sound
  <2>4. Sound'
    BY <1>0, <2>3 DEF SInv, Sound
  <2>5. Register!Confirm(Reset)
    BY <1>0, <1>2, <2>3 DEF Register!Confirm, Register!Becomes, Register!Kept, SafeState
  <2> QED  BY <1>0, <2>1, <2>2, <2>4, <2>5 DEF SInv, Simulates, Register!Next
<1> QED  BY <1>1, <1>2 DEF Purge, Tell

LEMMA PurgeFailsStep ==
    ASSUME SInv, NEW f \in {"backup", "temp"}, PurgeFails(f)
    PROVE  SInv' /\ Simulates
<1> USE StoreAssumption DEF StoreAssumption
<1>0. /\ purge' = purge \ {f} /\ Reset \in Calls /\ faults' \in Nat
      /\ outcome' = [outcome EXCEPT ![Reset] = IF @ = "settled" THEN "failed" ELSE @]
      /\ UNCHANGED <<primary, backup, temp, undo, queue, running, step, base, known, erased, sound, exposed>>
  BY DEF PurgeFails, Fault, work, files, Calls, SInv, Typed
<1>1. ReadState' = ReadState /\ SafeState' = SafeState
  BY <1>0 DEF ReadState, SafeState
<1>2. CASE outcome[Reset] = "settled"
  <2>0. /\ outcome' = [outcome EXCEPT ![Reset] = "failed"]
        /\ \A d \in Calls : outcome'[d] = IF d = Reset THEN "failed" ELSE outcome[d]
    BY <1>0, <1>2 DEF SInv, Typed
  <2>1. Typed'
    BY <1>0, <2>0 DEF SInv, Typed
  <2>2. QueueWaits' /\ AtWork' /\ Settled'
    <3>1. \A i \in 1 .. Len(queue) : queue[i] \in Calls /\ queue[i] # Reset
      BY <1>2 DEF SInv, QueueWaits, Typed
    <3>2. running # Reset
      BY <1>0, <1>2 DEF SInv, AtWork
    <3> QED  BY <1>0, <2>0, <3>1, <3>2 DEF SInv, QueueWaits, AtWork, Settled, Typed
  <2>3. Sound'
    BY <1>0, <1>1 DEF SInv, Sound
  <2>4. Register!Fail(Reset)
    BY <1>0, <1>1, <1>2, <2>0 DEF Register!Fail, Register!Pending, Register!Becomes, Register!Kept
  <2> QED  BY <1>0, <2>1, <2>2, <2>3, <2>4 DEF SInv, Simulates, Register!Next
<1>3. CASE outcome[Reset] # "settled"
  <2>0. outcome' = outcome
    BY <1>0, <1>3 DEF SInv, Typed
  <2>1. Typed' /\ QueueWaits' /\ AtWork' /\ Settled' /\ Sound'
    BY <1>0, <1>1, <2>0 DEF SInv, Typed, QueueWaits, AtWork, Settled, Sound
  <2> QED  BY <1>0, <1>1, <2>0, <2>1 DEF SInv, Simulates, Register!register
<1> QED  BY <1>2, <1>3

LEMMA WriteFailsStep == ASSUME SInv, WriteFails PROVE SInv' /\ Simulates
<1>0. /\ step \in {"open", "write", "copy", "rename"} /\ running # None /\ Ends("failed")
      /\ faults' \in Nat /\ temp' = Missing /\ backup' \in {backup, Broken}
      /\ backup' # backup => primary # Missing
      /\ UNCHANGED <<primary, undo, known, purge, sound, exposed, erased>>
  BY DEF WriteFails, Fault, SInv, AtWork, Typed
<1>1. sound => ReadState' = ReadState
  BY <1>0, SoundReads DEF ReadState, Readable
<1>2. QueueWaits' /\ Settled' /\ Typed'
  BY <1>0, EndsKeeps DEF SInv, Typed, Steps, Sources
<1>3. AtWork' /\ Sound'
  BY <1>0, <1>1, EndsKeeps DEF AtWork, Sound, SInv
<1> QED  BY <1>0, <1>1, <1>2, <1>3, EndsEarly DEF SInv

LEMMA SyncFailsStep == ASSUME SInv, SyncFails PROVE SInv' /\ Simulates
<1>0. /\ step = "sync" /\ running # None /\ running \in Calls /\ Ends("failed")
      /\ outcome[running] = "written" /\ outcome' = [outcome EXCEPT ![running] = "failed"]
      /\ faults' \in Nat /\ sound' = FALSE /\ undo' = Missing
      /\ UNCHANGED <<primary, backup, temp, known, purge, exposed, erased>>
  BY DEF SyncFails, Fault, SInv, AtWork, Typed, Ends, Tell
<1>1. QueueWaits' /\ Settled' /\ Typed'
  BY <1>0, EndsKeeps DEF SInv, Typed, Steps, Sources
<1>2. AtWork' /\ Sound'
  BY <1>0, EndsKeeps DEF AtWork, Sound, SInv
<1>3. Register!Fail(running)
  BY <1>0 DEF Register!Fail, Register!Pending, Register!Becomes, Register!Kept
<1> QED  BY <1>0, <1>1, <1>2, <1>3 DEF SInv, Simulates, Register!Next

LEMMA MisreadStep == ASSUME SInv, Misread PROVE SInv' /\ Simulates
<1> USE StoreAssumption DEF StoreAssumption
<1> DEFINE s == Readable(Broken, backup)
<1>0. /\ Starts(s) /\ s \in Sane \cup {Fresh, Broken} /\ faults' \in Nat /\ sound' = FALSE
      /\ UNCHANGED <<primary, backup, temp, undo, known, purge, exposed, erased>>
  <2>1. s \in Sane \cup {Fresh, Broken}
    BY ReadSane DEF SInv, Typed, Sources
  <2>2. Starts(s) /\ faults' \in Nat /\ sound' = FALSE /\ exposed' = exposed
    BY DEF Misread, Fault, SInv, Typed
  <2> QED  BY <2>1, <2>2 DEF Starts, files
<1>1. QueueWaits' /\ Settled' /\ AtWork'
  BY <1>0, StartsKeeps
<1>2. Typed' /\ Sound'
  BY <1>0, StartsKeeps DEF SInv, Typed, Sound, Steps
<1>3. CASE s = Broken
  <2>1. Register!Fail(Head(queue))
    BY <1>0, <1>3, StartsKeeps
    DEF Register!Fail, Register!Pending, Register!Becomes, Register!Kept
  <2> QED  BY <1>0, <1>1, <1>2, <2>1, StartsKeeps DEF SInv, Simulates, Register!Next
<1>4. CASE s # Broken
  BY <1>0, <1>1, <1>2, <1>4, StartsKeeps, UnsoundStep DEF SInv
<1> QED  BY <1>3, <1>4

LEMMA CorruptStep == ASSUME SInv, Corrupt PROVE SInv' /\ Simulates
<1>0. /\ primary' = Broken /\ sound' = FALSE /\ exposed' \in BOOLEAN /\ faults' \in Nat
      /\ UNCHANGED <<backup, temp, undo, queue, running, step, base, known, purge, outcome, erased>>
  BY DEF Corrupt, Fault, work, SInv, Typed
<1>1. Typed' /\ QueueWaits' /\ AtWork' /\ Settled' /\ Sound'
  BY <1>0 DEF SInv, Typed, QueueWaits, AtWork, Settled, Sound, Sources
<1> QED  BY <1>0, <1>1, UnsoundStep DEF SInv

(* A crash takes the calls with it and, at most, a rename that was not yet *)
(* synced.                                                                 *)
LEMMA CrashStep == ASSUME SInv, Crash PROVE SInv' /\ Simulates
<1> USE StoreAssumption DEF StoreAssumption
<1>0. /\ faults' \in Nat /\ queue' = <<>> /\ running' = None /\ step' = "idle"
      /\ known' = Fresh /\ purge' = {} /\ base' = Fresh /\ undo' = Missing
      /\ outcome' = [c \in Calls |->
             IF outcome[c] \in {"waiting", "written", "settled"} THEN "lost" ELSE outcome[c]]
      /\ primary' \in {primary, undo} /\ (primary' # primary => step = "sync")
      /\ backup' \in {backup, Broken} /\ (backup' # backup => Unsynced)
      /\ UNCHANGED <<temp, sound, exposed, erased>>
  BY DEF Crash, Fault, SInv, Typed
<1>1. Typed'
  <2>1. queue' \in Seq(Calls)
    BY <1>0
  <2> QED  BY <1>0, <2>1 DEF SInv, Typed, Steps, Sources
<1>2. QueueWaits' /\ AtWork' /\ Settled'
  BY <1>0 DEF SInv, Typed, QueueWaits, AtWork, Settled
<1>3. ASSUME sound
      PROVE  /\ ReadState' \in {ReadState, SafeState} /\ SafeState' = ReadState'
             /\ primary' \in Sane \cup {Missing} /\ (primary' = Missing => backup' = Missing)
  <2>1. primary \in Sane \cup {Missing} /\ (primary = Missing => backup = Missing)
    BY <1>3 DEF SInv, Sound
  <2>2. SafeState' = ReadState'
    BY <1>0 DEF SafeState
  <2>3. CASE step # "sync"
    <3>1. primary' = primary /\ (primary = Missing => backup' = backup)
      BY <1>0, <2>3 DEF Unsynced
    <3> QED  BY <1>3, <2>1, <2>2, <2>3, <3>1, SoundReads DEF ReadState, Readable
  <2>4. CASE step = "sync"
    <3>1. primary \in Sane /\ primary \in States /\ undo \in Sane \cup {Missing}
      BY <1>3, <2>4 DEF SInv, Sound, Sane
    <3>2. CASE primary' = primary
      BY <2>2, <3>1, <3>2 DEF ReadState, Readable
    <3>3. CASE primary' = undo
      <4>1. CASE undo = Missing
        <5>1. backup = Missing /\ backup' = backup /\ primary' = Missing
          BY <1>0, <1>3, <2>4, <3>3, <4>1 DEF SInv, Sound, Unsynced
        <5> QED  BY <2>2, <2>4, <4>1, <5>1 DEF ReadState, Readable, SafeState
      <4>2. CASE undo # Missing
        BY <2>2, <2>4, <3>1, <3>3, <4>2 DEF ReadState, Readable, SafeState, Sane
      <4> QED  BY <4>1, <4>2
    <3> QED  BY <1>0, <3>2, <3>3
  <2> QED  BY <2>3, <2>4
<1>4. Sound'
  BY <1>0, <1>3 DEF Sound
<1>5. Register!Crash
  BY <1>0, <1>3 DEF Register!Crash, Register!Pending
<1> QED  BY <1>1, <1>2, <1>4, <1>5 DEF SInv, Simulates, Register!Next

LEMMA StoreStep ==
    ASSUME SInv, [StoreNext]_storeVars
    PROVE  SInv' /\ Simulates
<1>1. CASE UNCHANGED storeVars
  BY <1>1 DEF storeVars, files, work, SInv, Typed, QueueWaits, AtWork, Sound, Settled,
              ReadState, SafeState, Unsynced, Simulates, Register!register
<1>2. CASE StoreNext
  BY <1>2, CallStep, BeginStep, ApplyStep, ApplyThrowsStep, OpenStep, WriteStep, CopyStep,
     RenameStep, SyncStep, PurgeStep, PurgeFailsStep, WriteFailsStep, SyncFailsStep,
     MisreadStep, CorruptStep, CrashStep
  DEF StoreNext, Transaction
<1> QED  BY <1>1, <1>2

LEMMA StoreInvariant == StoreSpec => []SInv
<1>1. StoreInit => SInv
  BY StoreInitInvariant
<1>2. SInv /\ [StoreNext]_storeVars => SInv'
  BY StoreStep
<1> QED  BY <1>1, <1>2, PTL DEF StoreSpec

(* The store keeps its types, whatever fails and however often it crashes. *)
THEOREM StoreTypeCorrect == StoreSpec => []StoreTypeOK
<1>1. SInv => StoreTypeOK
  <2> SUFFICES ASSUME SInv PROVE StoreTypeOK
    OBVIOUS
  <2>1. Sane \subseteq States /\ Fresh \in States
    BY DEF Sane, Fresh, States
  <2>2. Sources \subseteq Files
    BY <2>1 DEF Sources, Files
  <2> QED  BY <2>1, <2>2 DEF SInv, Typed, StoreTypeOK
<1> QED  BY <1>1, StoreInvariant, PTL

(* The store implements its register: serial, atomic, and durable once a   *)
(* call has reported success, for any changes and any number of crashes.   *)
THEOREM ImplementsRegister == StoreSpec => AtomicStore
<1>1. StoreInit => Register!Init
  BY StoreInitInvariant
<1>2. SInv /\ [StoreNext]_storeVars => [Register!Next]_(Register!register)
  BY StoreStep DEF Simulates
<1> QED  BY <1>1, <1>2, StoreInvariant, PTL DEF StoreSpec, AtomicStore, Register!Spec

-----------------------------------------------------------------------------
(* A transaction past its guard still holds a state the process may write. *)
Writable == step \in {"open", "write", "copy", "rename", "sync"} => ~Superseded(base)

LEMMA WritableStep ==
    ASSUME SInv, Writable, [StoreNext]_storeVars
    PROVE  Writable'
<1>1. /\ Superseded(base) <=> Superseded(base)
      /\ UNCHANGED <<known, base>> => (Superseded(base)' <=> Superseded(base))
  BY DEF Superseded, Content
<1>2. CASE UNCHANGED <<known, base, step>>
  BY <1>1, <1>2 DEF Writable
<1>3. CASE \E o \in {"done", "failed", "settled"} : Ends(o)
  BY <1>3 DEF Ends, Writable
<1>4. CASE \E s \in Sane \cup {Fresh, Broken} : Starts(s)
  BY <1>4, StartsKeeps DEF Writable
<1>5. CASE Goes("apply", "open") /\ ~Superseded(base) /\ known' = known
  BY <1>1, <1>5 DEF Goes, Writable
<1>6. CASE \E from \in {"open", "write", "copy", "rename"}, to \in Steps :
               Goes(from, to) /\ known' = known
  BY <1>1, <1>6 DEF Goes, Writable
<1>7. CASE Crash
  BY <1>7 DEF Crash, Writable
<1>8. ReadState \in Sane \cup {Fresh, Broken} /\ Readable(Broken, backup) \in Sane \cup {Fresh, Broken}
  BY ReadSane DEF SInv, Typed, ReadState, Sources
<1>9. CASE UNCHANGED storeVars
  BY <1>2, <1>9 DEF storeVars, work
<1>10. CASE StoreNext
  <2>1. ASSUME NEW c \in Calls, Call(c) PROVE Writable'
    BY <1>2, <2>1 DEF Call
  <2>2. CASE Begin \/ Misread
    BY <1>4, <1>8, <2>2 DEF Begin, Misread
  <2>3. CASE Apply
    BY <1>3, <1>5, <2>3 DEF Apply, Finishes
  <2>4. CASE ApplyThrows \/ Sync \/ WriteFails \/ SyncFails
    BY <1>3, <2>4 DEF ApplyThrows, Sync, Finishes, WriteFails, SyncFails
  <2>5. CASE Open \/ Write \/ Copy
    BY <1>6, <2>5 DEF Open, Write, Copy, Steps
  <2>6. CASE Rename
    BY <1>3, <1>6, <2>6 DEF Rename, Steps
  <2>7. CASE Corrupt \/ \E f \in {"backup", "temp"} : Purge(f) \/ PurgeFails(f)
    BY <1>2, <2>7 DEF Corrupt, Purge, PurgeFails, work
  <2> QED  BY <1>7, <1>10, <2>1, <2>2, <2>3, <2>4, <2>5, <2>6, <2>7 DEF StoreNext, Transaction
<1> QED  BY <1>9, <1>10

(* What a call makes of a writable state is no older than what was sent.   *)
LEMMA AfterAdvances ==
    ASSUME SInv, NEW c \in Calls, base \in Sane \cup {Fresh}, ~Superseded(base),
           NEW t \in {base, After[c][base]}, t # Fresh, t # known
    PROVE  \/ t.revision > known.revision
           \/ t.revision = known.revision /\ Content(t) = Content(known)
<1> DEFINE h == IF c = Reset THEN {} ELSE base.holds \cup {c}
<1>1. /\ base \in States /\ base.revision \in Int /\ known.revision \in Int
      /\ base.revision >= -1 /\ known.revision >= -1
      /\ known # Fresh => known.revision >= 0
      /\ known = Fresh => known.revision = -1
  BY DEF SInv, Typed, Sane, Fresh, States
<1>2. t \in Sane /\ t.revision \in Int /\ t.revision >= 0
  BY AfterSane DEF Sane, Fresh, States
<1>3. CASE known = Fresh
  BY <1>1, <1>2, <1>3
<1>4. CASE known # Fresh
  <2>1. \/ base.revision > known.revision
        \/ base.revision = known.revision /\ Content(base) = Content(known)
    BY <1>1, <1>4 DEF Superseded
  <2>2. base.revision >= 0
    BY <1>1, <1>4, <2>1
  <2>3. CASE t = base
    BY <2>1, <2>3
  <2>4. CASE t = After[c][base]
    <3>1. /\ t.holds = h
          /\ t.revision = base.revision + IF h \cap Global = Content(base) THEN 0 ELSE 1
      BY <1>1, <2>2, <2>4 DEF After, Revised
    <3>2. CASE Content(t) = Content(base)
      BY <1>1, <2>1, <3>1, <3>2 DEF Content
    <3>3. CASE Content(t) # Content(base)
      <4>1. t.revision = base.revision + 1
        BY <3>1, <3>3 DEF Content
      <4> QED  BY <1>1, <2>1, <4>1
    <3> QED  BY <3>2, <3>3
  <2> QED  BY <2>3, <2>4
<1> QED  BY <1>3, <1>4

(* Workers of one process lifetime never see the Global revision go back,  *)
(* even if the files were damaged or misread.                              *)
THEOREM RevisionsAdvance == StoreSpec => BroadcastsAdvance
<1> DEFINE Advance ==
      known' # known /\ known' # Fresh =>
         \/ known'.revision > known.revision
         \/ known'.revision = known.revision /\ Content(known') = Content(known)
<1>1. StoreInit => Writable
  BY DEF StoreInit, Writable
<1>2. SInv /\ Writable /\ [StoreNext]_storeVars => Writable'
  BY WritableStep
<1>3. SInv /\ Writable /\ [StoreNext]_storeVars => [Advance]_storeVars
  <2> SUFFICES ASSUME SInv, Writable, StoreNext, known' # known, known' # Fresh
               PROVE  \/ known'.revision > known.revision
                      \/ known'.revision = known.revision /\ Content(known') = Content(known)
    BY DEF storeVars
  <2>1. CASE Apply
    <3>1. known' = base /\ ~Superseded(base) /\ running \in Calls /\ base \in Sane \cup {Fresh}
      BY <2>1 DEF Apply, Finishes, SInv, Typed, AtWork
    <3> QED  BY <3>1, AfterAdvances
  <2>2. CASE Sync
    <3>1. /\ known' = After[running][base] /\ ~Superseded(base)
          /\ running \in Calls /\ base \in Sane \cup {Fresh}
      BY <2>2 DEF Sync, Finishes, Writable, SInv, Typed, AtWork
    <3> QED  BY <3>1, AfterAdvances
  <2>3. Apply \/ Sync
    BY DEF StoreNext, Transaction, Call, Begin, Misread, Starts, ApplyThrows, Open, Write, Copy,
           Rename, Purge, PurgeFails, WriteFails, SyncFails, Corrupt, Crash
  <2> QED  BY <2>1, <2>2, <2>3
<1> QED  BY <1>1, <1>2, <1>3, StoreInvariant, PTL DEF StoreSpec, BroadcastsAdvance

-----------------------------------------------------------------------------
(* The transaction at work would change nothing and needs no write.        *)
Unchanging == ~Receipt(running, base) /\ ~Superseded(base) /\ After[running][base] = base

LEMMA UnchangingEnds ==
    ASSUME Apply, Unchanging
    PROVE  Finishes /\ exposed' = (exposed \/ (running = Reset /\ primary \notin States))
BY DEF Apply, Unchanging

(* One fault leaves a copy to read: before it both files are good and only *)
(* a reset that has settled removes one; after it the primary is good, or  *)
(* the backup is until the transaction at work has its new primary ready.  *)
OneFault ==
    /\ faults = 0 => sound /\ backup # Broken /\ (purge # {} => outcome[Reset] = "settled")
    /\ faults = 1 /\ ~sound /\ ~exposed =>
          \/ primary \in Sane
          \/ /\ primary = Broken /\ purge = {}
             /\ step = "sync" => running # Reset
             /\ backup \in Sane \/ step = "rename"

LEMMA OneFaultStep ==
    ASSUME SInv, OneFault, [StoreNext]_storeVars
    PROVE  OneFault'
<1> USE StoreAssumption DEF StoreAssumption
<1>0. /\ Typed /\ AtWork /\ Reset \in Calls /\ faults \in Nat
      /\ sound => primary \in Sane \cup {Missing}
      /\ \A f \in Sources : f # Missing /\ f # Broken => f \in Sane
      /\ \A f \in Sane : f # Missing /\ f # Broken /\ f \in States
      /\ primary \in Sources /\ backup \in Sources
  BY DEF SInv, Sound, Typed, Calls, Sources, Sane
<1>1. CASE UNCHANGED storeVars
  BY <1>1 DEF storeVars, files, work, OneFault
<1>2. ASSUME NEW c \in Calls, Call(c) PROVE OneFault'
  <2>1. /\ outcome' = [outcome EXCEPT ![c] = "waiting"] /\ (c = Reset => purge = {})
        /\ UNCHANGED <<primary, backup, running, step, purge, faults, sound, exposed>>
    BY <1>2 DEF Call, Tell, files, Quiet
  <2>2. c # Reset => outcome'[Reset] = outcome[Reset]
    BY <1>0, <2>1 DEF Typed
  <2> QED  BY <2>1, <2>2 DEF OneFault
<1>3. CASE Begin \/ Misread
  <2>1. PICK s \in Sane \cup {Fresh, Broken} : Starts(s)
    BY <1>3, ReadSane, ReadStateSane DEF Begin, Misread, SInv, Typed, Sources
  <2>2. /\ step # "sync" /\ step' # "sync" /\ step # "rename"
        /\ outcome[Reset] = "settled" => outcome'[Reset] = "settled"
    BY <1>0, <2>1, StartsKeeps DEF Typed
  <2>3. UNCHANGED <<primary, backup, purge>>
    BY <2>1 DEF Starts, files
  <2>4. CASE Begin
    <3>1. UNCHANGED <<faults, sound, exposed>>
      BY <2>4 DEF Begin, Quiet
    <3> QED  BY <2>2, <2>3, <3>1 DEF OneFault
  <2>5. CASE Misread
    <3>1. faults' = faults + 1 /\ sound' = FALSE /\ primary \in Sane
      BY <1>0, <2>5 DEF Misread, Fault
    <3> QED  BY <1>0, <2>3, <3>1 DEF OneFault
  <2> QED  BY <1>3, <2>4, <2>5
<1>4. ASSUME NEW o \in {"done", "failed"}, Ends(o), step \notin {"idle", "sync"}
      PROVE  /\ step' = "idle" /\ (outcome[Reset] = "settled" => outcome'[Reset] = "settled")
  BY <1>0, <1>4 DEF Ends, Tell, Typed, AtWork
<1>5. CASE Apply \/ ApplyThrows
  <2>1. /\ UNCHANGED <<primary, backup, faults, sound>> /\ step = "apply"
    BY <1>5 DEF Apply, ApplyThrows, files, Quiet
  <2>2. CASE Apply /\ Unchanging
    <3>1. /\ outcome' = [outcome EXCEPT ![running] = IF running = Reset THEN "settled" ELSE "done"]
          /\ purge' = IF running = Reset THEN {"backup", "temp"} ELSE purge
          /\ step' = "idle"
      BY <2>2, UnchangingEnds DEF Finishes, Ends, Tell
    <3>2. purge' # {} => outcome'[Reset] = "settled" \/ (purge # {} /\ outcome[Reset] # "settled")
      BY <1>0, <3>1 DEF Typed
    <3>3. (exposed => exposed') /\ (running = Reset /\ primary = Broken => exposed')
      BY <1>0, <2>2, UnchangingEnds
    <3> QED  BY <2>1, <3>1, <3>2, <3>3 DEF OneFault
  <2>3. CASE ~(Apply /\ Unchanging)
    <3>1. UNCHANGED <<purge, exposed>>
      BY <1>5, <2>3 DEF Apply, Unchanging, ApplyThrows, Quiet
    <3>2. /\ step' \in {"idle", "open"}
          /\ outcome[Reset] = "settled" => outcome'[Reset] = "settled"
      BY <1>4, <1>5, <2>1, <2>3 DEF Apply, Unchanging, ApplyThrows, Goes
    <3> QED  BY <2>1, <3>1, <3>2 DEF OneFault
  <2> QED  BY <2>2, <2>3
<1>6. CASE Open \/ Write
  <2>1. /\ UNCHANGED <<primary, backup, running, purge, outcome, faults, sound, exposed>>
        /\ step' \in {"write", "copy"} /\ step \in {"open", "write"}
    BY <1>6 DEF Open, Write, Goes, Quiet
  <2> QED  BY <2>1 DEF OneFault
<1>7. CASE Copy
  <2>1. /\ UNCHANGED <<primary, running, purge, outcome, faults, sound, exposed>>
        /\ step' = "rename" /\ step = "copy"
        /\ backup' = IF primary = Missing THEN backup ELSE primary
    BY <1>7 DEF Copy, Goes, Quiet
  <2> QED  BY <1>0, <2>1 DEF OneFault
<1>8. CASE Rename
  <2>1. CASE temp = Missing
    <3>1. /\ UNCHANGED <<primary, backup, purge, faults, sound>> /\ exposed' = TRUE
          /\ outcome[Reset] = "settled" => outcome'[Reset] = "settled"
      BY <1>4, <1>8, <2>1 DEF Rename, files
    <3> QED  BY <3>1 DEF OneFault
  <2>2. CASE temp # Missing
    <3>1. /\ UNCHANGED <<backup, purge, faults, sound, exposed>>
          /\ primary' = temp /\ outcome' = [outcome EXCEPT ![running] = "written"]
          /\ step = "rename"
      BY <1>8, <2>2 DEF Rename, Tell
    <3>2. temp \in Sane
      <4>1. running \in Calls /\ base \in Sane \cup {Fresh} /\ temp = After[running][base]
        BY <1>0, <2>2, <3>1 DEF AtWork, Typed
      <4> QED  BY <4>1, AfterSane
    <3>3. outcome[Reset] = "settled" => outcome'[Reset] = "settled"
      BY <1>0, <3>1 DEF AtWork, Typed
    <3> QED  BY <3>1, <3>2, <3>3 DEF OneFault
  <2> QED  BY <2>1, <2>2
<1>9. CASE Sync
  <2>1. /\ UNCHANGED <<primary, backup, faults, sound, exposed>> /\ step = "sync" /\ step' = "idle"
        /\ outcome' = [outcome EXCEPT ![running] = IF running = Reset THEN "settled" ELSE "done"]
        /\ purge' = IF running = Reset THEN {"backup", "temp"} ELSE purge
    BY <1>9 DEF Sync, Finishes, Quiet, Ends, Tell
  <2>2. purge' # {} => outcome'[Reset] = "settled" \/ (purge # {} /\ outcome[Reset] # "settled")
    BY <1>0, <2>1 DEF Typed
  <2> QED  BY <2>1, <2>2 DEF OneFault
<1>10. ASSUME NEW f \in {"backup", "temp"}, Purge(f) PROVE OneFault'
  <2>1. /\ UNCHANGED <<primary, running, step, faults, sound, exposed>>
        /\ backup' \in {backup, Missing} /\ purge # {} /\ purge' \subseteq purge
        /\ purge' # {} => outcome' = outcome
    BY <1>10 DEF Purge, work, Quiet
  <2> QED  BY <2>1 DEF OneFault
<1>11. ASSUME NEW f \in {"backup", "temp"}, PurgeFails(f) PROVE OneFault'
  <2>1. /\ UNCHANGED <<primary, backup, running, step, sound, exposed>>
        /\ faults' = faults + 1
    BY <1>11 DEF PurgeFails, Fault, files, work
  <2> QED  BY <1>0, <2>1 DEF OneFault
<1>12. CASE WriteFails
  <2>1. faults' = faults + 1 /\ UNCHANGED <<sound, exposed>>
    BY <1>12 DEF WriteFails, Fault
  <2> QED  BY <1>0, <2>1 DEF OneFault
<1>13. CASE SyncFails
  <2>1. faults' = faults + 1 /\ primary' = primary /\ step = "sync"
    BY <1>13 DEF SyncFails, Fault
  <2>2. faults = 0 => primary \in Sane
    BY <2>1 DEF OneFault, SInv, Sound
  <2> QED  BY <1>0, <2>1, <2>2 DEF OneFault
<1>14. CASE Corrupt
  <2>1. /\ faults' = faults + 1 /\ primary' = Broken
        /\ exposed' = (exposed \/ backup \notin States \/ outcome[Reset] \in {"written", "settled"})
        /\ UNCHANGED <<backup, running, step, purge, outcome>>
    BY <1>14 DEF Corrupt, Fault, work
  <2>2. CASE faults = 0 /\ ~exposed'
    <3>1. backup \in Sane /\ purge = {} /\ (step = "sync" => running # Reset)
      BY <1>0, <2>1, <2>2 DEF OneFault, AtWork, Sources
    <3> QED  BY <1>0, <2>1, <2>2, <3>1 DEF OneFault
  <2>3. CASE faults # 0 \/ exposed'
    BY <1>0, <2>1, <2>3 DEF OneFault
  <2> QED  BY <2>2, <2>3
<1>15. CASE Crash
  <2>1. faults' = faults + 1 /\ UNCHANGED <<sound, exposed>>
    BY <1>15 DEF Crash, Fault
  <2> QED  BY <1>0, <2>1 DEF OneFault
<1> QED
  BY <1>1, <1>2, <1>3, <1>5, <1>6, <1>7, <1>8, <1>9, <1>10, <1>11, <1>12, <1>13, <1>14, <1>15
  DEF StoreNext, Transaction

(* Between transactions the state can be read after any one fault that did *)
(* not hit the only copy there is.                                         *)
THEOREM SurvivesOneFault == StoreSpec => []OneFaultSurvived
<1>1. StoreInit => OneFault
  BY StoreAssumption DEF StoreInit, OneFault, StoreAssumption
<1>2. SInv /\ OneFault /\ [StoreNext]_storeVars => OneFault'
  BY OneFaultStep
<1>3. SInv /\ OneFault => OneFaultSurvived
  <2> SUFFICES ASSUME SInv, OneFault, faults <= 1, running = None, ~exposed
               PROVE  ReadState # Broken
    BY DEF OneFaultSurvived
  <2> USE StoreAssumption DEF StoreAssumption
  <2>1. CASE sound
    <3>1. Broken \notin Sane \cup {Fresh}
      BY DEF Sane, Fresh, States
    <3> QED  BY <2>1, <3>1, SoundReads
  <2>2. CASE ~sound
    <3>1. faults = 1 /\ step = "idle"
      BY <2>2 DEF OneFault, SInv, Typed, AtWork
    <3>2. primary \in Sane \/ (primary = Broken /\ backup \in Sane)
      BY <2>2, <3>1 DEF OneFault
    <3> QED  BY <3>2 DEF ReadState, Readable, Sane
  <2> QED  BY <2>1, <2>2 DEF SInv, Typed
<1> QED  BY <1>1, <1>2, <1>3, StoreInvariant, PTL DEF StoreSpec

-----------------------------------------------------------------------------
(* What was erased comes back through no file once a reset has settled:    *)
(* not through the primary, from which every later transaction starts, nor *)
(* through its temporary file, and through the backup and a temporary file *)
(* an earlier transaction left only until they are removed.                *)
Clean(f) == f \in States => f.holds \cap erased = {}

Purging ==
    /\ outcome[Reset] \in {"waiting", "written"} => purge = {}
    /\ sound /\ step = "sync" /\ running = Reset => primary.holds = {} /\ temp = Missing
    /\ sound /\ outcome[Reset] = "settled" =>
          /\ Clean(primary)
          /\ "backup" \notin purge => Clean(backup)
          /\ "temp" \notin purge \/ step \in {"copy", "rename"} => Clean(temp)

(* A step that leaves the primary, the temporary file and the reset alone. *)
LEMMA PurgingFrame ==
    ASSUME Purging, UNCHANGED <<primary, erased>>,
           temp' = temp \/ temp' \in {Missing, Broken},
           backup' = backup \/ backup' \in {Missing, Broken, primary},
           sound' => sound,
           outcome'[Reset] = outcome[Reset] \/ outcome'[Reset] \in {"done", "failed", "lost"},
           purge' = purge,
           step' = "sync" => step = "sync" /\ running' = running /\ temp' = temp,
           step' \in {"copy", "rename"} => step \in {"copy", "rename"}
    PROVE  Purging'
<1>1. /\ Clean(primary) => Clean(primary)'
      /\ Clean(temp) => Clean(temp)'
      /\ Clean(backup) /\ Clean(primary) => Clean(backup)'
      /\ backup' # backup /\ Clean(primary) => Clean(backup)'
  BY StoreAssumption DEF Clean, StoreAssumption
<1> QED  BY <1>1 DEF Purging

LEMMA PurgingStep ==
    ASSUME SInv, Purging, [StoreNext]_storeVars
    PROVE  Purging'
<1> USE StoreAssumption DEF StoreAssumption
<1>0. /\ Typed /\ AtWork /\ Reset \in Calls /\ None \notin Calls
  BY DEF SInv, Calls
<1>1. CASE UNCHANGED storeVars
  BY <1>1, PurgingFrame DEF storeVars, files, work
<1>2. ASSUME NEW c \in Calls, Call(c) PROVE Purging'
  <2>1. /\ outcome' = [outcome EXCEPT ![c] = "waiting"] /\ (c = Reset => purge = {})
        /\ UNCHANGED <<primary, temp, backup, running, step, purge, erased, sound>>
    BY <1>2 DEF Call, Tell, files, Quiet
  <2>2. CASE c = Reset
    <3>1. outcome'[Reset] = "waiting"
      BY <1>0, <2>1, <2>2 DEF Typed
    <3> QED  BY <2>1, <2>2, <3>1 DEF Purging
  <2>3. CASE c # Reset
    <3>1. outcome'[Reset] = outcome[Reset]
      BY <1>0, <2>1, <2>3 DEF Typed
    <3> QED  BY <2>1, <3>1, PurgingFrame
  <2> QED  BY <2>2, <2>3
<1>3. CASE Begin \/ Misread
  <2>1. PICK s \in Sane \cup {Fresh, Broken} : Starts(s)
    BY <1>3, ReadSane, ReadStateSane DEF Begin, Misread, SInv, Typed, Sources
  <2>2. /\ step' \notin {"copy", "rename", "sync"}
        /\ outcome'[Reset] = outcome[Reset] \/ outcome'[Reset] = "failed"
    BY <1>0, <2>1, StartsKeeps DEF Typed
  <2>3. UNCHANGED <<primary, backup, temp, purge, erased>>
    BY <2>1 DEF Starts, files
  <2>4. sound' => sound
    BY <1>3 DEF Begin, Quiet, Misread
  <2> QED  BY <2>2, <2>3, <2>4, PurgingFrame
<1>4. ASSUME NEW o \in {"done", "failed"}, Ends(o)
      PROVE  /\ step' = "idle"
             /\ outcome'[Reset] = outcome[Reset] \/ outcome'[Reset] \in {"done", "failed"}
  BY <1>0, <1>4 DEF Ends, Tell, Typed
<1>5. CASE Apply \/ ApplyThrows
  <2>1. UNCHANGED <<primary, backup, temp, erased, sound>>
    BY <1>5 DEF Apply, ApplyThrows, files, Quiet
  <2>2. CASE Apply /\ Unchanging /\ running = Reset
    <3>1. /\ Ends("settled") /\ purge' = {"backup", "temp"} /\ After[Reset][base] = base
      BY <2>2, UnchangingEnds DEF Unchanging, Finishes
    <3>2. outcome'[Reset] = "settled" /\ step' = "idle"
      BY <1>0, <2>2, <3>1 DEF Ends, Tell, Typed
    <3>3. base.holds = {} /\ base # Fresh
      <4>1. base \in Sane \cup {Fresh}
        BY <1>0 DEF Typed
      <4>2. After[Reset][base].holds = {} /\ After[Reset][base].revision >= 0
        BY <1>0, <4>1, AfterSane DEF After, Revised, Sane
      <4> QED  BY <3>1, <4>2 DEF Fresh
    <3>4. sound => base = primary
      <4>1. step = "apply"
        BY <2>2 DEF Apply
      <4> QED  BY <3>3, <4>1, SoundReads DEF SInv, Sound
    <3>5. sound' => Clean(primary)'
      BY <2>1, <3>3, <3>4 DEF Clean
    <3> QED  BY <3>1, <3>2, <3>5 DEF Purging
  <2>3. CASE ~(Apply /\ Unchanging /\ running = Reset)
    <3>1. purge' = purge
      BY <1>5, <2>3 DEF Apply, Unchanging, ApplyThrows, Finishes
    <3>2. /\ step' \in {"idle", "open"}
          /\ outcome'[Reset] = outcome[Reset] \/ outcome'[Reset] \in {"done", "failed"}
      BY <1>4, <1>5, <2>3 DEF Apply, Unchanging, ApplyThrows, Goes, Finishes
    <3> QED  BY <2>1, <3>1, <3>2, PurgingFrame
  <2> QED  BY <2>2, <2>3
<1>6. CASE Open \/ Copy
  <2>1. /\ UNCHANGED <<primary, purge, erased, sound, outcome>> /\ step' # "sync"
        /\ step' \in {"copy", "rename"} => step \in {"copy", "rename"}
        /\ temp' \in {temp, Broken} /\ backup' \in {backup, primary}
    BY <1>6 DEF Open, Copy, Goes, Quiet
  <2> QED  BY <2>1, PurgingFrame
<1>7. CASE Write
  <2>1. /\ UNCHANGED <<primary, backup, purge, sound, outcome, running, base>>
        /\ step = "write" /\ step' = "copy"
        /\ temp' = IF temp = Missing THEN Missing ELSE After[running][base]
        /\ erased' = erased \ {running}
    BY <1>7 DEF Write, Goes, Quiet
  <2>2. CASE sound /\ outcome[Reset] = "settled"
    <3>1. /\ running \in Calls /\ running # Reset /\ base \in Sane \cup {Fresh} /\ base = ReadState
      BY <1>0, <2>1, <2>2 DEF AtWork, Typed, SInv, Sound
    <3>2. base.holds \cap erased = {}
      <4>1. CASE base = Fresh
        BY <4>1 DEF Fresh
      <4>2. CASE base # Fresh
        <5>1. base = primary /\ primary \in States
          BY <2>2, <3>1, <4>2, SoundReads
        <5> QED  BY <2>2, <5>1 DEF Purging, Clean
      <4> QED  BY <4>1, <4>2
    <3>3. After[running][base].holds = base.holds \cup {running}
      BY <3>1, AfterSane DEF After, Revised
    <3>4. Clean(temp)'
      BY <2>1, <3>2, <3>3 DEF Clean
    <3>5. (Clean(primary) => Clean(primary)') /\ (Clean(backup) => Clean(backup)')
      BY <2>1 DEF Clean
    <3> QED  BY <2>1, <2>2, <3>4, <3>5 DEF Purging
  <2>3. CASE ~(sound /\ outcome[Reset] = "settled")
    BY <2>1, <2>3 DEF Purging
  <2> QED  BY <2>2, <2>3
<1>8. CASE Rename
  <2>1. CASE temp = Missing
    <3>1. UNCHANGED <<primary, backup, temp, purge, sound, erased>> /\ Ends("failed")
      BY <1>8, <2>1 DEF Rename, files
    <3> QED  BY <1>4, <3>1, PurgingFrame
  <2>2. CASE temp # Missing
    <3>1. /\ UNCHANGED <<backup, purge, sound, running>> /\ step = "rename"
          /\ primary' = temp /\ temp' = Missing
          /\ outcome' = [outcome EXCEPT ![running] = "written"]
          /\ erased' = IF running = Reset THEN erased \cup base.holds ELSE erased
      BY <1>8, <2>2 DEF Rename, Tell, Goes
    <3>2. /\ running \in Calls /\ base \in Sane \cup {Fresh} /\ temp = After[running][base]
          /\ outcome[running] = "waiting"
      BY <1>0, <2>2, <3>1 DEF AtWork, Typed
    <3>3. CASE running = Reset
      <4>1. temp.holds = {}
        BY <3>2, <3>3, AfterSane DEF After, Revised
      <4>2. outcome'[Reset] = "written" /\ purge = {}
        BY <1>0, <3>1, <3>2, <3>3 DEF Typed, Purging
      <4> QED  BY <3>1, <4>1, <4>2 DEF Purging
    <3>4. CASE running # Reset
      <4>1. outcome'[Reset] = outcome[Reset] /\ erased' = erased
        BY <1>0, <3>1, <3>2, <3>4 DEF Typed
      <4>2. (Clean(temp) => Clean(primary)') /\ Clean(temp)' /\ (Clean(backup) => Clean(backup)')
        BY <3>1, <4>1 DEF Clean
      <4> QED  BY <3>1, <3>4, <4>1, <4>2 DEF Purging
    <3> QED  BY <3>3, <3>4
  <2> QED  BY <2>1, <2>2
<1>9. CASE Sync
  <2>1. /\ UNCHANGED <<primary, backup, temp, sound, erased>> /\ step = "sync" /\ step' = "idle"
        /\ outcome' = [outcome EXCEPT ![running] = IF running = Reset THEN "settled" ELSE "done"]
        /\ purge' = IF running = Reset THEN {"backup", "temp"} ELSE purge
    BY <1>9 DEF Sync, Finishes, Quiet, Ends, Tell
  <2>2. CASE running = Reset
    <3>1. outcome'[Reset] = "settled"
      BY <1>0, <2>1, <2>2 DEF Typed
    <3>2. sound => Clean(primary)' /\ Clean(temp)'
      BY <2>1, <2>2 DEF Purging, Clean
    <3> QED  BY <2>1, <2>2, <3>1, <3>2 DEF Purging
  <2>3. CASE running # Reset
    <3>1. outcome'[Reset] = outcome[Reset]
      BY <1>0, <2>1, <2>3 DEF Typed
    <3> QED  BY <2>1, <2>3, <3>1, PurgingFrame
  <2> QED  BY <2>2, <2>3
<1>10. ASSUME NEW f \in {"backup", "temp"}, Purge(f) PROVE Purging'
  <2>1. /\ UNCHANGED <<primary, running, step, sound, erased>> /\ purge # {}
        /\ purge' = purge \ {f} /\ temp' = IF f = "temp" THEN Missing ELSE temp
        /\ backup' = IF f = "backup" THEN Missing ELSE backup
    BY <1>10 DEF Purge, work, Quiet
  <2>2. outcome'[Reset] = outcome[Reset] \/ outcome'[Reset] = "done"
    BY <1>0, <1>10 DEF Purge, Tell, Typed
  <2>3. /\ Clean(primary) => Clean(primary)'
        /\ Clean(temp) => Clean(temp)'
        /\ "backup" \notin purge' /\ ("backup" \notin purge => Clean(backup)) => Clean(backup)'
        /\ "temp" \notin purge' /\ ("temp" \notin purge => Clean(temp)) => Clean(temp)'
    BY <2>1 DEF Clean
  <2>4. outcome[Reset] \notin {"waiting", "written"}
    BY <2>1 DEF Purging
  <2>5. ~(step = "sync" /\ running = Reset)
    BY <1>0, <2>4 DEF AtWork
  <2> QED  BY <2>1, <2>2, <2>3, <2>4, <2>5 DEF Purging
<1>11. ASSUME NEW f \in {"backup", "temp"}, PurgeFails(f) PROVE Purging'
  <2>1. /\ UNCHANGED <<primary, backup, temp, running, step, sound, erased>>
        /\ purge' = purge \ {f} /\ f \in purge
        /\ outcome'[Reset] = IF outcome[Reset] = "settled" THEN "failed" ELSE outcome[Reset]
    BY <1>0, <1>11 DEF PurgeFails, files, work, Typed
  <2> QED  BY <2>1 DEF Purging
<1>12. CASE WriteFails \/ SyncFails
  <2>1. /\ UNCHANGED <<primary, purge, erased>> /\ (sound' => sound) /\ Ends("failed")
        /\ temp' \in {temp, Missing} /\ backup' \in {backup, Broken}
    BY <1>12 DEF WriteFails, SyncFails
  <2> QED  BY <1>4, <2>1, PurgingFrame
<1>13. CASE Corrupt
  BY <1>13 DEF Corrupt, work, Purging
<1>14. CASE Crash
  <2>1. step' = "idle" /\ purge' = {} /\ outcome'[Reset] \notin {"waiting", "written", "settled"}
    BY <1>0, <1>14 DEF Crash, Typed
  <2> QED  BY <2>1 DEF Purging
<1> QED
  BY <1>1, <1>2, <1>3, <1>5, <1>6, <1>7, <1>8, <1>9, <1>10, <1>11, <1>12, <1>13, <1>14
  DEF StoreNext, Transaction

(* Only the removal of the last file reports a reset as done.              *)
LEMMA ResetEnds ==
    ASSUME SInv, StoreNext, outcome[Reset] # "done", outcome'[Reset] = "done"
    PROVE  outcome[Reset] = "settled" /\ \E f \in {"backup", "temp"} : Purge(f) /\ purge' = {}
<1> USE StoreAssumption DEF StoreAssumption
<1>0. Typed /\ AtWork /\ QueueWaits /\ Reset \in Calls
  BY DEF SInv, Calls
<1>1. ASSUME NEW c, NEW o, Tell(c, o), c # Reset \/ o # "done" PROVE FALSE
  BY <1>0, <1>1 DEF Tell, Typed
<1>2. outcome' # outcome
  OBVIOUS
<1>3. ASSUME NEW c \in Calls, Call(c) PROVE FALSE
  BY <1>1, <1>3 DEF Call
<1>4. CASE Begin \/ Misread
  <2>1. PICK s \in Sane \cup {Fresh, Broken} : Starts(s)
    BY <1>4, ReadSane, ReadStateSane DEF Begin, Misread, SInv, Typed, Sources
  <2> QED  BY <1>0, <1>2, <2>1, StartsKeeps DEF Typed
<1>5. CASE Apply
  <2>1. ~Receipt(Reset, base)
    BY DEF Receipt
  <2> QED  BY <1>1, <1>2, <1>5, <2>1 DEF Apply, Finishes, Ends
<1>6. CASE ApplyThrows \/ Sync \/ WriteFails \/ SyncFails
  BY <1>1, <1>6 DEF ApplyThrows, Sync, Finishes, WriteFails, SyncFails, Ends
<1>7. CASE Open \/ Write \/ Copy \/ Corrupt
  BY <1>2, <1>7 DEF Open, Write, Copy, Corrupt
<1>8. CASE Rename
  BY <1>1, <1>8 DEF Rename, Ends
<1>9. ASSUME NEW f \in {"backup", "temp"}, PurgeFails(f) PROVE FALSE
  BY <1>0, <1>9 DEF PurgeFails, Typed
<1>10. CASE Crash
  BY <1>0, <1>10 DEF Crash
<1>11. ASSUME NEW f \in {"backup", "temp"}, Purge(f) PROVE purge' = {} /\ outcome[Reset] = "settled"
  BY <1>2, <1>11 DEF Purge
<1> QED
  BY <1>3, <1>4, <1>5, <1>6, <1>7, <1>8, <1>9, <1>10, <1>11 DEF StoreNext, Transaction

(* A reset that reports success has erased: no file of the store holds any *)
(* of what it or an earlier reset erased, whatever was written meanwhile,  *)
(* and also when it found nothing to erase itself.                         *)
THEOREM ResetErases == StoreSpec => ResetPurges
<1> DEFINE Erases ==
      sound /\ outcome[Reset] # "done" /\ outcome'[Reset] = "done" =>
         \A f \in {primary', backup', temp'} : f \in States => f.holds \cap erased' = {}
<1>1. StoreInit => Purging
  BY StoreAssumption DEF StoreInit, Purging, Calls
<1>2. SInv /\ Purging /\ [StoreNext]_storeVars => Purging'
  BY PurgingStep
<1>3. SInv /\ Purging /\ [StoreNext]_storeVars => [Erases]_storeVars
  <2> SUFFICES ASSUME SInv, Purging, StoreNext, sound, outcome[Reset] # "done",
                      outcome'[Reset] = "done"
               PROVE  \A f \in {primary', backup', temp'} : f \in States => f.holds \cap erased' = {}
    BY DEF storeVars
  <2>1. outcome[Reset] = "settled" /\ \E f \in {"backup", "temp"} : Purge(f) /\ purge' = {}
    BY ResetEnds
  <2>2. PICK f \in {"backup", "temp"} : Purge(f) /\ purge' = {}
    BY <2>1
  <2>3. /\ primary' = primary /\ erased' = erased
        /\ (temp' = temp /\ "temp" \notin purge) \/ temp' = Missing
        /\ (backup' = backup /\ "backup" \notin purge) \/ backup' = Missing
    BY <2>2 DEF Purge
  <2>4. /\ primary \in States => primary.holds \cap erased = {}
        /\ "temp" \notin purge /\ temp \in States => temp.holds \cap erased = {}
        /\ "backup" \notin purge /\ backup \in States => backup.holds \cap erased = {}
    BY <2>1 DEF Purging, Clean
  <2> QED  BY <2>3, <2>4, StoreAssumption DEF StoreAssumption
<1> QED  BY <1>1, <1>2, <1>3, StoreInvariant, PTL DEF StoreSpec, ResetPurges

=============================================================================
