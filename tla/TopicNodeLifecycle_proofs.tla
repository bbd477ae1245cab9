---------------------- MODULE TopicNodeLifecycle_proofs ----------------------
(***************************************************************************)
(* Proofs about TopicNodeLifecycle for every set of nodes, Topics and      *)
(* overlapping deletions.  The table keeps the invariant of                *)
(* NodeBindings_proofs because flights only use identities it recorded     *)
(* (Fits).  What the table and the boundary say of one Worker always goes  *)
(* together (Matches), and what a flight found out before an await still   *)
(* holds after it, or its identity has lost its generation (Promise).      *)
(***************************************************************************)
EXTENDS TopicNodeLifecycle, NodeBindings_proofs

WorkerState ==
    [installed : Nat, data : SUBSET Topics, outdated : BOOLEAN,
     sleep : {"off", "entering", "on", "leaving"}, verified : Nat, deleted : BOOLEAN]

Making    == {"provision", "record", "prove"}          \* for the pool or for a Topic
Verifying == {"reconcile", "recheck", "publish", "demote", "demoting"}
Recycling == Retiring \ {"locate", "recycle-begin"}
Waiting   == {"list", "bootstrap", "joined", "claim"}
Serving   == {"begin", "rebind", "session", "adopt", "activate", "confirm", "fail", "recycle-begin"}
Engaged   == Making \cup Verifying \cup Recycling \cup Serving \cup {"bind", "interrupted"}

PoolSteps    == {"idle", "next", "delete", "release"} \cup Making \cup Verifying
DeleterSteps == {"idle", "failed", "done"} \cup Retiring
CreatorSteps == Ended \cup Waiting \cup Engaged \cup {"locate"}

FlightState ==
    [pc : PoolSteps \cup DeleterSteps \cup CreatorSteps, id : Identity \cup {NoId},
     todo : SUBSET [id : Identity, was : Binding],
     updated : BOOLEAN, boots : BOOLEAN, round : Nat]

(* Where a flight may be with an identity, given those the table recorded. *)
At(f, pc, id, ids) ==
    /\ f = Pool => pc \in PoolSteps
    /\ f \in Deleters => pc \in DeleterSteps
    /\ f \in Creators => pc \in CreatorSteps
    /\ pc \in Engaged => id \in ids
    /\ pc \in {"idle"} \cup Waiting \cup Verifying \cup Recycling => id.topic = NoTopic
    /\ pc \in Serving => id.topic = f[2]
    /\ pc \in Making => id.topic \in {NoTopic, f[2]}
    /\ pc \in {"provision", "record"} /\ f \in Creators => id.topic = f[2]

(* The snapshots it has yet to look at; the pool flight has one of a node. *)
Pending(f, v, ids) ==
    /\ \A s \in v.todo : s.id \in ids /\ s.id.topic = NoTopic
    /\ f = Pool => /\ \A s, u \in v.todo : s.id.node = u.id.node => s = u
                   /\ v.pc # "next" => \A s \in v.todo : s.id.node # v.id.node

Fits(f, v, ids) ==
    /\ v \in FlightState
    /\ f \in Creators => ~v.boots
    /\ At(f, v.pc, v.id, ids)
    /\ Pending(f, v, ids)

FlightsFit ==
    /\ flight = [f \in Flights |-> flight[f]]
    /\ \A f \in Flights : Fits(f, flight[f], granted)

LInv ==
    /\ IInv
    /\ IdentitiesGranted
    /\ FlightsFit
    /\ worker \in [Nodes -> WorkerState]
    /\ restarts \in Nat

-----------------------------------------------------------------------------
(* A record of the table and the Worker the boundary knows for it.         *)
Matches(b, w) ==
    /\ w.installed <= b.gen
    /\ b.topic # NoTopic => /\ b.status \in {"reserved", "provisioning", "ready", "failed"}
                            /\ w.installed \in {0, b.gen - 1, b.gen}
                            /\ w.data \subseteq {b.topic}
                            /\ b.session => b.topic \in w.data /\ b.status # "reserved"
    /\ b.topic = NoTopic /\ b.status \notin {"retiring", "retired"} =>
            w.installed \in {0, b.gen} /\ w.data = {}
    /\ b.status = "retiring" /\ w.installed = b.gen => w.data = {}
    /\ b.status = "available" => b.resources # NoResources
    /\ b.status = "ready" => w.installed = b.gen /\ ~w.deleted /\ b.session

(* The generation before the one a Topic got served no Topic: there was a  *)
(* recycling between two Topics.                                           *)
Lineage ==
    \A id \in granted :
        Bound(id.node) /\ bindings[id.node].gen = id.gen + 1 => id.topic = NoTopic

(* What a flight relies on for as long as its identity is current.         *)
PoolPromise(f, v, b, w) ==
    /\ v.pc \in Making \cup Verifying => b.status # "retiring"
    /\ f \in Creators /\ v.pc \in Verifying \cup {"prove"} => b.resources # NoResources
    /\ v.pc = "provision" => b.resources = NoResources
    /\ v.pc \in {"record", "prove"} => v.updated \/ ~w.outdated
    /\ v.pc = "recheck" => ~(w.outdated /\ w.sleep = "entering")
    /\ v.pc = "publish" => ~w.outdated
    /\ v.pc = "complete" => w.installed = b.gen
    /\ v.pc \in Retiring => ~v.boots

TopicPromise(f, v, b, w) ==
    /\ v.pc \in Making \cup {"rebind", "session", "adopt"} => b.status # "reserved"
    /\ v.pc = "rebind" => ~b.session
    /\ v.pc = "adopt" => f[2] \in w.data
    /\ v.pc \in {"activate", "confirm"} => b.session
    /\ v.pc = "confirm" => b.status = "ready"

SnapshotPromise(s, b) ==
    s.was.status \in {"pool-reserved", "pool-provisioning"} =>
        /\ b.status # "retiring"
        /\ s.was.resources = NoResources => b.resources = NoResources

OwnPromise(f, v, B, W) ==
    v.pc \in Engaged /\ B[v.id.node].gen = v.id.gen =>
        /\ v.id.topic = NoTopic => PoolPromise(f, v, B[v.id.node], W[v.id.node])
        /\ v.id.topic # NoTopic => TopicPromise(f, v, B[v.id.node], W[v.id.node])

TodoPromise(v, B) ==
    \A s \in v.todo : B[s.id.node].gen = s.id.gen => SnapshotPromise(s, B[s.id.node])

Promise(f, v, B, W) ==
    /\ OwnPromise(f, v, B, W)
    /\ f = Pool => TodoPromise(v, B)

PInv ==
    /\ LInv
    /\ \A n \in Nodes : Matches(bindings[n], worker[n])
    /\ Lineage
    /\ \A f \in Flights : Promise(f, flight[f], bindings, worker)

-----------------------------------------------------------------------------
(* The three kinds of flights have different names.                        *)
LEMMA Names ==
    /\ Pool \in Flights /\ Pool \notin Creators /\ Pool \notin Deleters
    /\ Pool[2] = NoTopic
    /\ \A f \in Creators \cup Deleters : f \in Flights /\ f # Pool /\ f[2] \in Topics /\ f[2] # NoTopic
    /\ \A f \in Creators : f \notin Deleters
    /\ \A f \in Flights : f = Pool \/ f \in Creators \/ f \in Deleters
    /\ \A t \in Topics : Creator(t) \in Creators /\ Creator(t)[2] = t
    /\ \A f, g \in Creators : f[2] = g[2] => f = g
  BY ConstantsAssumption, LifecycleAssumption DEF Pool, Creators, Creator, Deleters, Flights

(* The actions, by the flights that take them.                             *)
PoolAct(s) == PoolRetires(s) \/ PoolReconciles(s) \/ PoolBootstraps(s)

CreatorAct(f) ==
    \/ ListAvailable(f) \/ BootstrapOrJoin(f) \/ Claim(f)
    \/ BindTopic(f) \/ BeginPreparing(f) \/ CreateSession(f) \/ AdoptSession(f) \/ Activate(f)
    \/ RecordFailure(f) \/ RetryCleanup(f) \/ Resume(f)

LEMMA Actions ==
    ASSUME LifecycleNext
    PROVE  \/ \E warm \in WarmTargets : PoolStart(warm, FALSE, FALSE, {})
           \/ \E s \in flight[Pool].todo : PoolAct(s)
           \/ PoolFinishes
           \/ \E t \in Topics : Create(t)
           \/ \E f \in Flights : Shared(f)
           \/ \E f \in Creators \cup Deleters : Retire(f)
           \/ \E f \in Creators : CreatorAct(f)
           \/ \E f \in Deleters : Delete(f)
           \/ Restart
<1> HIDE DEF Shared
<1>1. ASSUME NEW f \in Deleters, Call(f) \/ Release(f) PROVE Shared(f)
  BY <1>1 DEF Shared
<1> QED  BY <1>1, Names DEF LifecycleNext, PoolStep, CreatorStep, DeleterStep, PoolAct, CreatorAct

-----------------------------------------------------------------------------
LEMMA FitsGrows ==
    ASSUME NEW f, NEW v, NEW ids, NEW more, ids \subseteq more, Fits(f, v, ids)
    PROVE  Fits(f, v, more)
  BY DEF Fits, At, Pending

(* One flight moves.                                                       *)
LEMMA Moves ==
    ASSUME FlightsFit, NEW f \in Flights, NEW v, flight' = [flight EXCEPT ![f] = v],
           granted \subseteq granted', Fits(f, v, granted')
    PROVE  FlightsFit'
<1>1. flight' = [g \in Flights |-> flight'[g]]
  BY DEF FlightsFit
<1>2. ASSUME NEW g \in Flights PROVE Fits(g, flight'[g], granted')
  <2>1. CASE g = f
    <3>1. flight'[f] = v
      BY DEF FlightsFit
    <3> QED  BY <2>1, <3>1
  <2>2. CASE g # f
    <3>1. flight'[g] = flight[g] /\ Fits(g, flight[g], granted)
      BY <2>2 DEF FlightsFit
    <3> QED  BY <3>1, FitsGrows
  <2> QED  BY <2>1, <2>2
<1> QED  BY <1>1, <1>2 DEF FlightsFit

(* It takes a step with the identity it has, or drops all but its identity.*)
LEMMA GoFits ==
    ASSUME FlightsFit, NEW f \in Flights, NEW pc, Go(f, pc), granted \subseteq granted',
           At(f, pc, Id(f), granted'), flight[f].pc # "next"
    PROVE  FlightsFit'
<1> DEFINE v == [flight[f] EXCEPT !.pc = pc]
<1>1. Fits(f, flight[f], granted')
  BY FitsGrows DEF FlightsFit
<1>2. flight[f] \in FlightState
  BY <1>1 DEF Fits
<1>3. /\ v.pc = pc /\ v.id = Id(f) /\ v.todo = flight[f].todo /\ v.boots = flight[f].boots
  BY <1>2 DEF FlightState, Id
<1>4. pc \in PoolSteps \cup DeleterSteps \cup CreatorSteps
  BY Names DEF At
<1>5. v \in FlightState
  BY <1>2, <1>4 DEF FlightState
<1>6. flight' = [flight EXCEPT ![f] = v]
  BY DEF Go
<1> HIDE DEF v
<1>7. Fits(f, v, granted')
  BY <1>1, <1>3, <1>5 DEF Fits, Pending, Id
<1> QED  BY <1>6, <1>7, Moves

LEMMA IdleState == Idle \in FlightState /\ Idle.pc = "idle" /\ Idle.todo = {} /\ ~Idle.boots
                   /\ Idle.id = NoId /\ NoId.topic = NoTopic
  BY DEF Idle, FlightState, PoolSteps, NoId

LEMMA GoWithFits ==
    ASSUME FlightsFit, NEW f \in Flights, NEW pc, NEW id \in Identity \cup {NoId},
           GoWith(f, pc, id), granted \subseteq granted', At(f, pc, id, granted')
    PROVE  FlightsFit'
<1> DEFINE v == [Idle EXCEPT !.pc = pc, !.id = id]
<1>1. v.pc = pc /\ v.id = id /\ v.todo = {} /\ ~v.boots
  BY DEF Idle
<1>2. pc \in PoolSteps \cup DeleterSteps \cup CreatorSteps
  BY Names DEF At
<1>3. v \in FlightState
  BY <1>2 DEF Idle, FlightState
<1>4. flight' = [flight EXCEPT ![f] = v]
  BY DEF GoWith
<1> HIDE DEF v
<1>5. Fits(f, v, granted')
  BY <1>1, <1>3 DEF Fits, Pending
<1> QED  BY <1>4, <1>5, Moves

(* The pool flight takes up its next snapshot, or drops the one it has.    *)
LEMMA PoolGoesOnFits ==
    ASSUME FlightsFit, PoolGoesOn, granted \subseteq granted'
    PROVE  FlightsFit'
<1> DEFINE v == [Idle EXCEPT !.pc = "next", !.todo = flight[Pool].todo]
<1>1. Fits(Pool, flight[Pool], granted') /\ Pool \in Flights
  BY Names, FitsGrows DEF FlightsFit
<1>2. v.pc = "next" /\ v.id = NoId /\ v.todo = flight[Pool].todo /\ ~v.boots
  BY DEF Idle
<1>3. v \in FlightState
  BY <1>1 DEF Fits, FlightState, Idle, PoolSteps
<1>4. flight' = [flight EXCEPT ![Pool] = v]
  BY DEF PoolGoesOn
<1> HIDE DEF v
<1>5. At(Pool, "next", NoId, granted')
  BY Names DEF At, PoolSteps, Engaged, Making, Verifying, Recycling, Retiring, Serving, Waiting
<1>6. Fits(Pool, v, granted')
  BY <1>1, <1>2, <1>3, <1>5 DEF Fits, Pending
<1> QED  BY <1>1, <1>4, <1>6, Moves

LEMMA PoolTakesFits ==
    ASSUME FlightsFit, NEW s \in flight[Pool].todo, NEW pc, NEW id \in Identity \cup {NoId},
           NEW boots \in BOOLEAN, PoolTakes(s, pc, id, boots), granted \subseteq granted',
           At(Pool, pc, id, granted'), pc = "next" \/ id.node = s.id.node
    PROVE  FlightsFit'
<1> DEFINE v == [Idle EXCEPT !.pc = pc, !.id = id, !.boots = boots,
                             !.todo = flight[Pool].todo \ {s}]
<1>1. Fits(Pool, flight[Pool], granted') /\ Pool \in Flights
  BY Names, FitsGrows DEF FlightsFit
<1>2. /\ v.pc = pc /\ v.id = id /\ v.todo = flight[Pool].todo \ {s} /\ v.boots = boots
  BY DEF Idle
<1>3. pc \in PoolSteps
  BY DEF At
<1>4. v \in FlightState
  BY <1>1, <1>3 DEF Fits, FlightState, Idle
<1>5. flight' = [flight EXCEPT ![Pool] = v]
  BY DEF PoolTakes
<1> HIDE DEF v
<1>6. Fits(Pool, v, granted')
  BY <1>1, <1>2, <1>4, Names DEF Fits, Pending
<1> QED  BY <1>1, <1>5, <1>6, Moves

(* A flight that waited for the pool flight looks for idle Workers again.  *)
LEMMA WokenFits ==
    ASSUME NEW f \in Creators, NEW v, NEW ids, Fits(f, v, ids), v.pc \in Waiting,
           NEW pc \in {"list", "joined"}
    PROVE  Fits(f, [v EXCEPT !.pc = pc], ids)
<1> DEFINE w == [v EXCEPT !.pc = pc]
<1>1. v \in FlightState
  BY DEF Fits
<1>2. w.pc = pc /\ w.id = v.id /\ w.todo = v.todo /\ w.boots = v.boots
  BY <1>1 DEF FlightState
<1>3. w \in FlightState
  BY <1>1 DEF FlightState, CreatorSteps, Waiting
<1> HIDE DEF w
<1>4. At(f, pc, v.id, ids)
  BY Names DEF Fits, At, CreatorSteps, Engaged, Making, Verifying, Recycling, Retiring, Serving, Waiting
<1>5. Fits(f, w, ids)
  BY <1>2, <1>3, <1>4, Names DEF Fits, Pending
<1> QED  BY <1>5 DEF w

LEMMA IdleFits ==
    ASSUME NEW f \in Flights, NEW ids
    PROVE  Fits(f, Idle, ids)
  BY IdleState, Names DEF Fits, At, Pending, PoolSteps, DeleterSteps, CreatorSteps, Ended, Engaged,
                          Making, Verifying, Recycling, Retiring, Serving, Waiting

LEMMA JoinedIsCreator ==
    ASSUME FlightsFit, NEW f \in Flights, flight[f].pc \in Waiting
    PROVE  f \in Creators
  BY Names DEF FlightsFit, Fits, At, PoolSteps, DeleterSteps, Waiting, Making, Verifying, Retiring

LEMMA PoolEndsFits ==
    ASSUME FlightsFit, PoolEnds, granted \subseteq granted'
    PROVE  FlightsFit'
<1>1. flight' = [f \in Flights |-> flight'[f]]
  BY DEF PoolEnds
<1>2. ASSUME NEW f \in Flights PROVE Fits(f, flight'[f], granted')
  <2>1. Fits(f, flight[f], granted')
    BY FitsGrows DEF FlightsFit
  <2>2. CASE f = Pool
    BY <2>2, IdleFits DEF PoolEnds
  <2>3. CASE f # Pool /\ flight[f].pc = "joined"
    <3>1. f \in Creators /\ flight[f].pc \in Waiting
      BY <2>3, JoinedIsCreator DEF Waiting
    <3> QED  BY <2>1, <2>3, <3>1, WokenFits DEF PoolEnds
  <2>4. CASE f # Pool /\ flight[f].pc # "joined"
    BY <2>1, <2>4 DEF PoolEnds
  <2> QED  BY <2>2, <2>3, <2>4
<1> QED  BY <1>1, <1>2 DEF FlightsFit

(* The catch clauses.                                                      *)
Failing == Engaged \ {"bind", "interrupted", "fail", "demote", "demoting"}

LEMMA FailsFits ==
    ASSUME FlightsFit, NEW f \in Flights, flight[f].pc \in Failing, Fails(f), granted' = granted
    PROVE  FlightsFit'
<1>1. Fits(f, flight[f], granted) /\ granted \subseteq granted'
  BY DEF FlightsFit
<1>2. /\ At(f, flight[f].pc, Id(f), granted)
      /\ f \in Creators \/ f \in Deleters \/ f = Pool
      /\ f \in Deleters => flight[f].pc \in Retiring /\ f # Pool
      /\ flight[f].pc \in Engaged
      /\ flight[f].pc # "next"
  BY <1>1, Names DEF Fits, At, Id, DeleterSteps, Failing, Engaged, Making, Verifying, Recycling,
                     Retiring, Serving
<1>3. CASE flight[f].pc \in Retiring /\ f # Pool
  <2> DEFINE pc == IF f \in Creators THEN "stuck" ELSE "failed"
  <2>1. GoWith(f, pc, NoId)
    BY <1>3 DEF Fails
  <2>2. At(f, pc, NoId, granted')
    BY <1>2, <1>3, Names DEF At, DeleterSteps, CreatorSteps, Ended, Engaged, Making, Verifying,
                             Recycling, Retiring, Serving, Waiting
  <2> QED  BY <1>1, <2>1, <2>2, GoWithFits
<1>4. CASE ~(flight[f].pc \in Retiring /\ f # Pool)
  <2>1. CASE f \in Creators /\ ~Unclaimed(f)
    <3>1. Go(f, "fail")
      BY <1>4, <2>1 DEF Fails
    <3>2. Id(f) \in granted' /\ Id(f).topic = f[2]
      BY <1>2, <2>1 DEF At, Unclaimed, Failing, Engaged
    <3>3. At(f, "fail", Id(f), granted')
      BY <2>1, <3>2, Names DEF At, CreatorSteps, Engaged, Making, Verifying, Recycling, Retiring,
                               Serving, Waiting
    <3> QED  BY <1>1, <1>2, <3>1, <3>3, GoFits
  <2>2. CASE ~(f \in Creators /\ ~Unclaimed(f))
    <3>1. CASE f \in Creators \/ flight[f].boots
      <4>1. Go(f, "demote")
        BY <1>4, <2>2, <3>1 DEF Fails
      <4>2. Id(f) \in granted' /\ f \notin Deleters
        BY <1>2, <1>4 DEF At
      <4>3. Id(f).topic = NoTopic
        BY <1>2, <2>2, <4>2, Names DEF At, Unclaimed, Engaged, PoolSteps, Making, Verifying, Recycling, Retiring, Serving
      <4>4. At(f, "demote", Id(f), granted')
        BY <1>2, <4>2, <4>3, Names DEF At, CreatorSteps, PoolSteps, Engaged, Making, Verifying,
                                       Recycling, Retiring, Serving, Waiting
      <4> QED  BY <1>1, <1>2, <4>1, <4>4, GoFits
    <3>2. CASE ~(f \in Creators \/ flight[f].boots)
      <4>1. PoolGoesOn \/ PoolEnds
        BY <1>4, <2>2, <3>2 DEF Fails
      <4> QED  BY <1>1, <4>1, PoolGoesOnFits, PoolEndsFits
    <3> QED  BY <3>1, <3>2
  <2> QED  BY <2>1, <2>2
<1> QED  BY <1>3, <1>4

-----------------------------------------------------------------------------
(* The table.                                                              *)

LEMMA Holding ==
    ASSUME LInv, NEW f \in Flights
    PROVE  /\ flight[f] \in FlightState
           /\ At(f, flight[f].pc, Id(f), granted)
           /\ Pending(f, flight[f], granted)
           /\ Id(f) \in Identity \cup {NoId}
  BY DEF LInv, FlightsFit, Fits, Id, FlightState

LEMMA HeldStep ==
    ASSUME NEW id \in granted, HeldIdentityStep(id)
    PROVE  Next
  BY DEF Next

LEMMA PoolPatch ==
    ASSUME NEW id \in granted, id.topic = NoTopic,
           NEW st \in {"pool-provisioning", "available", "retired"}, UpdateStatus(id, st)
    PROVE  Next
  BY HeldStep DEF HeldIdentityStep, PatchableStatus

LEMMA TopicPatch ==
    ASSUME NEW id \in granted, id.topic \in Topics,
           NEW st \in {"provisioning", "ready", "failed"}, UpdateStatus(id, st)
    PROVE  Next
  BY HeldStep, ConstantsAssumption DEF HeldIdentityStep, PatchableStatus

LEMMA PoolStartsTable ==
    ASSUME NEW warm \in WarmTargets \cup {NoWarm}, EnsurePoolSlots(IF warm = NoWarm THEN 0 ELSE warm)
    PROVE  Next
<1>1. (IF warm = NoWarm THEN 0 ELSE warm) \in 0..Capacity
  BY ConstantsAssumption, LifecycleAssumption DEF NoWarm
<1> QED  BY <1>1 DEF Next

(* An engaged flight holds an identity the table recorded.                 *)
LEMMA EngagedHolds ==
    ASSUME LInv, NEW f \in Flights
    PROVE  /\ flight[f].pc \in Engaged => Id(f) \in granted
           /\ flight[f].pc \in Verifying \cup Recycling => Id(f).topic = NoTopic
           /\ flight[f].pc \in Serving => Id(f).topic = f[2]
  BY Holding DEF At

LEMMA TableStep ==
    ASSUME LInv, LifecycleNext
    PROVE  [Next]_vars
<1> USE DEF vars
<1>1. ASSUME NEW warm \in WarmTargets, PoolStart(warm, FALSE, FALSE, {}) PROVE [Next]_vars
  BY <1>1, PoolStartsTable DEF PoolStart
<1>2. ASSUME NEW s \in flight[Pool].todo, PoolAct(s) PROVE [Next]_vars
  <2>1. s.id \in granted /\ s.id.topic = NoTopic
    BY Holding, Names DEF Pending
  <2>2. CASE PoolRetires(s)
    BY <2>1, <2>2, HeldStep DEF PoolRetires, HeldIdentityStep
  <2>3. CASE PoolReconciles(s)
    BY <2>1, <2>3, HeldStep DEF PoolReconciles, HeldIdentityStep
  <2>4. CASE PoolBootstraps(s)
    BY <2>1, <2>4, PoolPatch DEF PoolBootstraps
  <2> QED  BY <1>2, <2>2, <2>3, <2>4 DEF PoolAct
<1>3. ASSUME NEW f \in Flights, Shared(f) PROVE [Next]_vars
  <2>1. CASE RecordResources(f)
    BY <2>1, EngagedHolds, HeldStep DEF RecordResources, Transacts, HeldIdentityStep, Engaged, Making
  <2>2. CASE Publish(f)
    BY <2>2, EngagedHolds, PoolPatch DEF Publish, Transacts, Engaged, Verifying
  <2>3. CASE Demote(f)
    BY <2>3, EngagedHolds, PoolPatch DEF Demote, Engaged, Verifying
  <2>4. CASE Release(f)
    BY <2>4, EngagedHolds, PoolPatch DEF Release, Transacts, Engaged, Recycling, Retiring
  <2>5. CASE Prove(f) \/ LookUp(f)
    BY <2>5 DEF Prove, LookUp
  <2>6. CASE Call(f)
    BY <2>6 DEF Call, Provision, Reconcile, Recheck, Rebind, Recycle, Rotate, DeleteWorker,
                Confirm, Sleep, Unanswered, Answered
  <2> QED  BY <1>3, <2>1, <2>2, <2>3, <2>4, <2>5, <2>6 DEF Shared
<1>4. ASSUME NEW f \in Creators \cup Deleters, Retire(f) PROVE [Next]_vars
  <2>1. CASE BeginRecycling(f)
    BY <2>1, EngagedHolds, HeldStep, Names
       DEF BeginRecycling, HeldIdentityStep, Engaged, Serving
  <2>2. CASE Complete(f)
    BY <2>2, EngagedHolds, HeldStep, Names DEF Complete, HeldIdentityStep, Engaged, Recycling, Retiring
  <2>3. CASE FenceOverflow(f)
    BY <2>3, EngagedHolds, HeldStep, Names
       DEF FenceOverflow, Transacts, HeldIdentityStep, Engaged, Recycling, Retiring
  <2>4. CASE Locate(f) \/ Settle(f) \/ Asleep(f)
    BY <2>4 DEF Locate, Settle, Asleep
  <2> QED  BY <1>4, <2>1, <2>2, <2>3, <2>4 DEF Retire
<1>5. ASSUME NEW f \in Creators, CreatorAct(f) PROVE [Next]_vars
  <2>0. f \in Flights /\ f[2] \in Topics
    BY Names
  <2>1. CASE BootstrapOrJoin(f)
    BY <2>1, PoolStartsTable DEF BootstrapOrJoin, PoolStart
  <2>2. CASE Claim(f)
    <3>1. \A s \in flight[f].todo : s.id \in granted
      BY <2>0, Holding DEF Pending
    <3> QED  BY <2>2, <3>1, HeldStep DEF Claim, HeldIdentityStep
  <2>3. CASE BindTopic(f)
    BY <2>0, <2>3, EngagedHolds, HeldStep DEF BindTopic, HeldIdentityStep, Engaged, TopicOf
  <2>4. CASE BeginPreparing(f)
    BY <2>0, <2>4, EngagedHolds, TopicPatch DEF BeginPreparing, Engaged, Serving
  <2>5. CASE AdoptSession(f)
    BY <2>0, <2>5, EngagedHolds, HeldStep
       DEF AdoptSession, Transacts, HeldIdentityStep, Engaged, Serving
  <2>6. CASE Activate(f)
    BY <2>0, <2>6, EngagedHolds, TopicPatch DEF Activate, Transacts, Engaged, Serving
  <2>7. CASE RecordFailure(f)
    BY <2>0, <2>7, EngagedHolds, TopicPatch DEF RecordFailure, Engaged, Serving
  <2>8. CASE ListAvailable(f) \/ CreateSession(f) \/ RetryCleanup(f) \/ Resume(f)
    BY <2>8 DEF ListAvailable, CreateSession, RetryCleanup, Resume, Answered
  <2> QED  BY <1>5, <2>1, <2>2, <2>3, <2>4, <2>5, <2>6, <2>7, <2>8 DEF CreatorAct
<1>6. CASE PoolFinishes \/ (\E t \in Topics : Create(t)) \/ (\E f \in Deleters : Delete(f)) \/ Restart
  BY <1>6 DEF PoolFinishes, Create, Delete, Restart
<1> QED  BY <1>1, <1>2, <1>3, <1>4, <1>5, <1>6, Actions

LEMMA TableKept ==
    ASSUME LInv, [LifecycleNext]_allvars
    PROVE  IInv' /\ IdentitiesGranted' /\ granted \subseteq granted'
<1>1. [Next]_vars
  BY TableStep DEF allvars
<1> QED  BY <1>1, NextKeepsInvariant, HistoryGrows DEF LInv

-----------------------------------------------------------------------------
(* Every step leaves the flights where their identities allow them.        *)

LEMMA SnapshotFits ==
    ASSUME IInv, IdentitiesGranted, NEW n \in Nodes, Minted(n)
    PROVE  LET s == Snapshot(n, bindings[n]) IN
           /\ s \in [id : Identity, was : Binding]
           /\ s.id \in granted /\ s.id.node = n /\ s.id.topic = bindings[n].topic
           /\ s.was = bindings[n]
  BY DEF IInv, TypeOK, IdentitiesGranted, Snapshot, IdentityOf, Identity, Binding

LEMMA PoolStartFits ==
    ASSUME LInv, IInv', IdentitiesGranted', granted \subseteq granted',
           NEW warm, NEW repairOnly, NEW continueOnError, NEW waiting \in SUBSET Creators,
           \A f \in waiting : flight[f].pc = "bootstrap",
           PoolStart(warm, repairOnly, continueOnError, waiting)
    PROVE  FlightsFit'
<1> DEFINE slots == {n \in Nodes : /\ bindings'[n].status \notin {"absent", "retired"}
                                   /\ ~PoolSkips(bindings'[n], warm, repairOnly)}
           todo == {Snapshot(n, bindings'[n]) : n \in slots}
           v == [Idle EXCEPT !.pc = "next", !.todo = todo]
<1>1. flight' = [f \in Flights |->
              IF f = Pool THEN v
              ELSE IF f \in waiting THEN [flight[f] EXCEPT !.pc = "joined"]
              ELSE flight[f]]
  BY DEF PoolStart
<1>2. ASSUME NEW n \in slots
      PROVE  LET s == Snapshot(n, bindings'[n]) IN
             /\ s \in [id : Identity, was : Binding]
             /\ s.id \in granted' /\ s.id.node = n /\ s.id.topic = NoTopic
  <2>1. n \in Nodes /\ Minted(n)' /\ bindings'[n].topic = NoTopic
    BY DEF PoolSkips, Minted
  <2> QED
    BY <2>1 DEF IInv, TypeOK, IdentitiesGranted, Snapshot, IdentityOf, Identity, Binding
<1> HIDE DEF slots
<1>3. /\ todo \in SUBSET [id : Identity, was : Binding]
      /\ \A s \in todo : s.id \in granted' /\ s.id.topic = NoTopic
      /\ \A s, u \in todo : s.id.node = u.id.node => s = u
  BY <1>2
<1> HIDE DEF todo
<1>4. v.pc = "next" /\ v.id = NoId /\ v.todo = todo /\ ~v.boots
  BY DEF Idle
<1>5. v \in FlightState
  BY <1>3 DEF FlightState, Idle, PoolSteps
<1> HIDE DEF v
<1>6. At(Pool, "next", NoId, granted')
  BY Names DEF At, PoolSteps, Engaged, Making, Verifying, Recycling, Retiring, Serving, Waiting
<1>7. Fits(Pool, v, granted')
  BY <1>3, <1>4, <1>5, <1>6, Names DEF Fits, Pending
<1>8. ASSUME NEW f \in Flights PROVE Fits(f, flight'[f], granted')
  <2>1. Fits(f, flight[f], granted')
    BY FitsGrows DEF LInv, FlightsFit
  <2>2. CASE f = Pool
    BY <1>1, <1>7, <2>2
  <2>3. CASE f # Pool /\ f \in waiting
    <3>1. f \in Creators /\ flight[f].pc \in Waiting
      BY <2>3 DEF Waiting
    <3> QED  BY <1>1, <2>1, <2>3, <3>1, WokenFits
  <2>4. CASE f # Pool /\ f \notin waiting
    BY <1>1, <2>1, <2>4
  <2> QED  BY <2>2, <2>3, <2>4
<1> QED  BY <1>1, <1>8 DEF FlightsFit

LEMMA PoolActFits ==
    ASSUME LInv, granted \subseteq granted', NEW s \in flight[Pool].todo, PoolAct(s)
    PROVE  FlightsFit'
<1> USE Names
<1>1. /\ s \in [id : Identity, was : Binding]
      /\ s.id \in granted /\ s.id \in granted' /\ s.id.topic = NoTopic
      /\ s.id.node \in Nodes /\ s.id \in Identity
  BY Holding DEF Pending, FlightState, Identity
<1>2. FlightsFit
  BY DEF LInv
<1> DEFINE Enter == {"provision", "reconcile", "delete"}
<1>3. ASSUME NEW pc \in Enter, NEW id, id \in granted', id.topic = NoTopic
      PROVE  At(Pool, pc, id, granted')
  BY <1>3 DEF At, PoolSteps, Engaged, Making, Verifying, Recycling, Retiring, Serving, Waiting
<1>4. At(Pool, "next", NoId, granted')
  BY DEF At, PoolSteps, Engaged, Making, Verifying, Recycling, Retiring, Serving, Waiting
<1>5. ASSUME NEW pc \in Enter, NEW boots \in BOOLEAN, PoolTakes(s, pc, s.id, boots)
      PROVE  FlightsFit'
  BY <1>1, <1>2, <1>3, <1>5, PoolTakesFits
<1>6. CASE PoolRetires(s)
  <2>1. CASE Fence(s.id) /\ PoolTakes(s, "delete", [s.id EXCEPT !.gen = @ + 1], FALSE)
    <3> DEFINE id == [s.id EXCEPT !.gen = @ + 1]
               b == [bindings[s.id.node] EXCEPT !.gen = @ + 1, !.status = "retiring"]
    <3>1. bindings[s.id.node] \in Binding /\ bindings[s.id.node].topic = NoTopic
          /\ bindings[s.id.node].gen = s.id.gen
      BY <1>1, <2>1, CurrentIdentity DEF Fence, LInv, Current
    <3>2. id = IdentityOf(s.id.node, b) /\ id \in Identity
      BY <1>1, <3>1 DEF IdentityOf, Identity, Binding
    <3>3. id \in granted' /\ id.topic = NoTopic /\ id.node = s.id.node
      BY <1>1, <2>1, <3>2 DEF Fence, Write, Identity
    <3> HIDE DEF id
    <3>4. PoolTakes(s, "delete", id, FALSE)
      BY <2>1 DEF id
    <3> QED  BY <1>2, <1>3, <3>2, <3>3, <3>4, PoolTakesFits
  <2>2. CASE PoolTakes(s, "delete", s.id, FALSE)
    BY <1>5, <2>2
  <2>3. CASE PoolEnds
    BY <1>2, <2>3, PoolEndsFits
  <2> QED  BY <1>6, <2>1, <2>2, <2>3 DEF PoolRetires
<1>7. CASE PoolReconciles(s)
  <2>1. CASE PoolTakes(s, "reconcile", s.id, FALSE)
    BY <1>5, <2>1
  <2>2. CASE PoolTakes(s, "next", NoId, FALSE)
    BY <1>2, <1>4, <2>2, PoolTakesFits
  <2> QED  BY <1>7, <2>1, <2>2 DEF PoolReconciles
<1>8. CASE PoolBootstraps(s)
  <2>1. CASE \E pc \in Enter : PoolTakes(s, pc, s.id, TRUE)
    BY <1>5, <2>1
  <2>2. CASE PoolEnds
    BY <1>2, <2>2, PoolEndsFits
  <2> QED  BY <1>8, <2>1, <2>2 DEF PoolBootstraps
<1> QED  BY <1>6, <1>7, <1>8 DEF PoolAct

(* Where a flight may go next with the identity it has.                    *)
LEMMA Advances ==
    ASSUME NEW f \in Flights, NEW id, NEW ids
    PROVE  /\ At(f, "provision", id, ids) => At(f, "record", id, ids)
           /\ At(f, "rebind", id, ids) => At(f, "record", id, ids)
           /\ At(f, "record", id, ids) => At(f, "prove", id, ids)
           /\ At(f, "reconcile", id, ids) => At(f, "prove", id, ids)
           /\ At(f, "reconcile", id, ids) /\ f = Pool => At(f, "record", id, ids)
           /\ At(f, "prove", id, ids) /\ id.topic = NoTopic =>
                At(f, "publish", id, ids) /\ At(f, "recheck", id, ids)
           /\ At(f, "prove", id, ids) /\ id.topic # NoTopic => At(f, "session", id, ids)
           /\ At(f, "recheck", id, ids) => At(f, "publish", id, ids)
           /\ At(f, "publish", id, ids) /\ f # Pool => At(f, "bind", id, ids)
           /\ At(f, "demote", id, ids) => At(f, "demoting", id, ids)
           /\ f # Pool /\ (At(f, "demote", id, ids) \/ At(f, "demoting", id, ids)) =>
                f \in Creators /\ At(f, "claim", id, ids)
<1> USE DEF PoolSteps, DeleterSteps, CreatorSteps, Engaged, Making, Verifying, Recycling, Retiring,
            Serving, Waiting, At
<1>1. f = Pool \/ f \in Creators \/ f \in Deleters
  BY Names
<1>2. CASE f = Pool
  BY <1>2, Names
<1>3. CASE f \in Deleters
  BY <1>3, Names
<1>4. CASE f \in Creators
  BY <1>4, Names
<1> QED  BY <1>1, <1>2, <1>3, <1>4

LEMMA AdvancesBound ==
    ASSUME NEW f \in Flights, NEW id, NEW ids
    PROVE  /\ At(f, "begin", id, ids) =>
                At(f, "session", id, ids) /\ At(f, "rebind", id, ids) /\ At(f, "provision", id, ids)
           /\ At(f, "session", id, ids) => At(f, "adopt", id, ids) /\ At(f, "activate", id, ids)
           /\ At(f, "adopt", id, ids) => At(f, "activate", id, ids)
           /\ At(f, "activate", id, ids) => At(f, "confirm", id, ids)
<1> USE DEF PoolSteps, DeleterSteps, CreatorSteps, Engaged, Making, Verifying, Recycling, Retiring,
            Serving, Waiting, At
<1>1. f = Pool \/ f \in Creators \/ f \in Deleters
  BY Names
<1>2. CASE f = Pool
  BY <1>2, Names
<1>3. CASE f \in Deleters
  BY <1>3, Names
<1>4. CASE f \in Creators
  BY <1>4, Names
<1> QED  BY <1>1, <1>2, <1>3, <1>4

LEMMA AdvancesRecycling ==
    ASSUME NEW f \in Flights, NEW id, NEW ids
    PROVE  /\ At(f, "recycle", id, ids) => At(f, "settle", id, ids)
           /\ At(f, "settle", id, ids) => At(f, "complete", id, ids)
           /\ At(f, "complete", id, ids) => At(f, "overflow", id, ids) /\ At(f, "sleep", id, ids)
           /\ At(f, "sleep", id, ids) => At(f, "asleep", id, ids)
           /\ At(f, "delete", id, ids) => At(f, "release", id, ids)
<1> USE DEF PoolSteps, DeleterSteps, CreatorSteps, Engaged, Making, Verifying, Recycling, Retiring,
            Serving, Waiting, At
<1>1. f = Pool \/ f \in Creators \/ f \in Deleters
  BY Names
<1>2. CASE f = Pool
  BY <1>2, Names
<1>3. CASE f \in Deleters
  BY <1>3, Names
<1>4. CASE f \in Creators
  BY <1>4, Names
<1> QED  BY <1>1, <1>2, <1>3, <1>4

(* A flight may end without an identity.                                   *)
LEMMA EndsFit ==
    ASSUME FlightsFit, NEW f \in Creators \cup Deleters, granted \subseteq granted',
           NEW pc, GoWith(f, pc, NoId),
           \/ pc \in {"locate", "done"}
           \/ f \in Creators /\ pc \in {"refused", "aborted"}
    PROVE  FlightsFit'
<1>1. At(f, pc, NoId, granted')
  BY Names DEF At, DeleterSteps, CreatorSteps, Ended, Engaged, Making, Verifying, Recycling,
               Retiring, Serving, Waiting
<1> QED  BY <1>1, Names, GoWithFits

(* It also remembers whether its Worker was updated.                       *)
Marks(f, pc, u) == flight' = [flight EXCEPT ![f].pc = pc, ![f].updated = u]

LEMMA Marked ==
    ASSUME NEW f \in Flights, flight = [g \in Flights |-> flight[g]], flight[f] \in FlightState,
           NEW pc, NEW u, Marks(f, pc, u)
    PROVE  /\ flight' = [flight EXCEPT ![f] = flight'[f]]
           /\ flight'[f].pc = pc /\ flight'[f].id = Id(f) /\ flight'[f].todo = flight[f].todo
           /\ flight'[f].boots = flight[f].boots /\ flight'[f].updated = u
           /\ u \in BOOLEAN /\ pc \in PoolSteps \cup DeleterSteps \cup CreatorSteps =>
                flight'[f] \in FlightState
<1> DEFINE v == [flight[f] EXCEPT !.pc = pc, !.updated = u]
<1>1. flight'[f] = v /\ flight' = [flight EXCEPT ![f] = v]
  BY DEF Marks
<1>2. /\ v.pc = pc /\ v.id = Id(f) /\ v.todo = flight[f].todo
      /\ v.boots = flight[f].boots /\ v.updated = u
  BY DEF FlightState, Id
<1>3. u \in BOOLEAN /\ pc \in PoolSteps \cup DeleterSteps \cup CreatorSteps => v \in FlightState
  BY DEF FlightState
<1> HIDE DEF v
<1>4. flight' = [flight EXCEPT ![f] = flight'[f]]
  BY <1>1
<1>5. /\ flight'[f].pc = pc /\ flight'[f].id = Id(f) /\ flight'[f].todo = flight[f].todo
      /\ flight'[f].boots = flight[f].boots /\ flight'[f].updated = u
  BY <1>1, <1>2
<1>6. u \in BOOLEAN /\ pc \in PoolSteps \cup DeleterSteps \cup CreatorSteps =>
        flight'[f] \in FlightState
  BY <1>1, <1>3
<1> HIDE DEF Marks
<1> QED  BY <1>4, <1>5, <1>6

LEMMA CallFits ==
    ASSUME LInv, granted' = granted, NEW f \in Flights, Call(f)
    PROVE  FlightsFit'
<1> USE Advances, AdvancesBound, AdvancesRecycling
<1>1. FlightsFit /\ granted \subseteq granted'
  BY DEF LInv
<1>2. At(f, flight[f].pc, Id(f), granted')
  BY Holding
<1>3. ASSUME Fails(f), flight[f].pc \in Failing PROVE FlightsFit'
  BY <1>1, <1>3, FailsFits
<1>4. ASSUME NEW pc, Go(f, pc), At(f, pc, Id(f), granted'), flight[f].pc # "next" PROVE FlightsFit'
  BY <1>1, <1>4, GoFits
<1>5. ASSUME NEW pc, NEW u \in BOOLEAN, Marks(f, pc, u),
             At(f, pc, Id(f), granted'), flight[f].pc # "next"
      PROVE  FlightsFit'
  <2>1. flight[f] \in FlightState /\ Fits(f, flight[f], granted')
    BY <1>1, FitsGrows, Holding DEF FlightsFit
  <2>2. pc \in PoolSteps \cup DeleterSteps \cup CreatorSteps
    BY <1>5, Names DEF At
  <2> flight = [g \in Flights |-> flight[g]]
    BY <1>1 DEF FlightsFit
  <2>3. /\ flight' = [flight EXCEPT ![f] = flight'[f]]
        /\ flight'[f].pc = pc /\ flight'[f].id = Id(f) /\ flight'[f].todo = flight[f].todo
        /\ flight'[f].boots = flight[f].boots /\ flight'[f] \in FlightState
    BY <1>1, <1>5, <2>1, <2>2, Marked
  <2>4. Fits(f, flight'[f], granted')
    BY <1>5, <2>1, <2>3 DEF Fits, Pending, Id
  <2> QED  BY <1>1, <2>3, <2>4, Moves
<1>6. {"provision", "rebind", "reconcile", "recheck", "confirm", "recycle", "delete", "sleep",
       "prove", "session", "activate", "settle", "asleep"} \subseteq Failing
  BY DEF Failing, Engaged, Making, Verifying, Recycling, Retiring, Serving
<1>7. CASE Provision(f)
  <2>1. Marks(f, "record", TRUE) \/ Fails(f)
    BY <1>7 DEF Provision, Answered, Marks
  <2> QED  BY <1>2, <1>3, <1>5, <1>6, <1>7, <2>1 DEF Provision
<1>8. CASE Reconcile(f)
  <2> DEFINE pc == IF flight[f].boots THEN "record" ELSE "prove"
  <2>1. Fails(f) \/ \E u \in BOOLEAN : Marks(f, pc, u)
    BY <1>8 DEF Reconcile, Answered, Marks
  <2>3. flight[f].boots => f = Pool
    <3>1. flight[f].pc = "reconcile" /\ Fits(f, flight[f], granted)
      BY <1>1, <1>8 DEF Reconcile, FlightsFit
    <3> QED  BY <3>1, Names DEF Fits, At, DeleterSteps, Retiring
  <2>4. At(f, pc, Id(f), granted') /\ flight[f].pc = "reconcile"
    BY <1>2, <1>8, <2>3 DEF Reconcile
  <2> HIDE DEF pc
  <2> QED  BY <1>3, <1>5, <1>6, <2>1, <2>4
<1>9. CASE Recheck(f)
  BY <1>2, <1>3, <1>4, <1>6, <1>9 DEF Recheck, Answered
<1>10. CASE Rebind(f)
  BY <1>2, <1>3, <1>4, <1>6, <1>10 DEF Rebind, Rotate, Answered
<1>11. CASE Recycle(f)
  BY <1>2, <1>3, <1>4, <1>6, <1>11 DEF Recycle, Rotate, Answered
<1>12. CASE DeleteWorker(f)
  BY <1>2, <1>3, <1>4, <1>6, <1>12 DEF DeleteWorker, Answered
<1>13. CASE Confirm(f)
  <2>1. CASE GoWith(f, "done", NoId)
    <3>1. f \in Creators
      BY <1>2, <1>13, Names DEF Confirm, At, PoolSteps, DeleterSteps, Making, Verifying, Retiring
    <3> QED  BY <1>1, <2>1, <3>1, EndsFit
  <2> QED  BY <1>3, <1>6, <1>13, <2>1 DEF Confirm, Answered
<1>14. CASE Sleep(f)
  <2>1. Fails(f) \/ \E u \in BOOLEAN : Marks(f, "asleep", u)
    BY <1>14 DEF Sleep, Answered, Marks
  <2>2. At(f, "asleep", Id(f), granted') /\ flight[f].pc = "sleep"
    BY <1>2, <1>14 DEF Sleep
  <2> QED  BY <1>3, <1>5, <1>6, <2>1, <2>2
<1>15. CASE Unanswered(f)
  BY <1>3, <1>6, <1>15 DEF Unanswered
<1> QED  BY <1>7, <1>8, <1>9, <1>10, <1>11, <1>12, <1>13, <1>14, <1>15 DEF Call

LEMMA SharedFits ==
    ASSUME LInv, granted \subseteq granted', vars' = vars => granted' = granted,
           NEW f \in Flights, Shared(f)
    PROVE  FlightsFit'
<1> USE Advances
<1>1. FlightsFit
  BY DEF LInv
<1>2. At(f, flight[f].pc, Id(f), granted')
  BY Holding, FitsGrows DEF LInv, FlightsFit, Fits, Id
<1>3. ASSUME Fails(f), UNCHANGED vars, flight[f].pc \in {"record", "publish", "release"}
      PROVE  FlightsFit'
  BY <1>1, <1>3, FailsFits DEF vars, Failing, Engaged, Making, Verifying, Recycling, Retiring
<1>4. ASSUME NEW pc, Go(f, pc), At(f, pc, Id(f), granted'), flight[f].pc # "next" PROVE FlightsFit'
  BY <1>1, <1>4, GoFits
<1>5. f # Pool => f \in Creators \cup Deleters
  BY Names
<1>6. CASE RecordResources(f)
  BY <1>2, <1>3, <1>4, <1>6 DEF RecordResources, Transacts
<1>7. CASE Publish(f)
  <2>1. CASE f # Pool /\ GoWith(f, "bind", Id(f))
    <3>1. Id(f) \in Identity \cup {NoId}
      BY Holding
    <3> QED  BY <1>1, <1>2, <1>7, <2>1, <3>1, GoWithFits DEF Publish, Transacts
  <2> QED  BY <1>1, <1>3, <1>7, <2>1, PoolGoesOnFits DEF Publish, Transacts
<1>8. CASE LookUp(f) \/ Demote(f)
  <2>0. /\ flight[f].pc \in {"demote", "demoting"}
        /\ f # Pool => f \in Creators /\ At(f, "claim", Id(f), granted')
    BY <1>2, <1>8 DEF LookUp, Demote
  <2>1. CASE CatchEnds(f)
    BY <1>1, <1>4, <2>0, <2>1, PoolGoesOnFits, PoolEndsFits DEF CatchEnds
  <2>2. CASE LookUp(f) /\ Go(f, "demoting")
    BY <1>2, <1>4, <2>2 DEF LookUp
  <2>3. CASE f = Pool /\ PoolEnds
    BY <1>1, <2>3, PoolEndsFits
  <2>4. CASE f # Pool /\ GoWith(f, "refused", NoId)
    BY <1>1, <2>0, <2>4, EndsFit
  <2> QED  BY <1>8, <2>1, <2>2, <2>3, <2>4 DEF LookUp, Demote
<1>9. CASE Release(f)
  BY <1>1, <1>3, <1>5, <1>9, PoolGoesOnFits, EndsFit DEF Release, Transacts, Retired
<1>10. CASE Prove(f)
  <2>1. CASE Unclaimed(f)
    BY <1>2, <1>4, <1>10, <2>1 DEF Prove, Unclaimed
  <2>2. CASE ~Unclaimed(f)
    BY <1>2, <1>4, <1>10, <2>2 DEF Prove, Unclaimed
  <2> QED  BY <2>1, <2>2
<1>11. CASE Call(f)
  <2>1. granted' = granted
    BY <1>11 DEF Call, Provision, Reconcile, Recheck, Rebind, Recycle, Rotate, DeleteWorker,
                 Confirm, Sleep, Unanswered, Answered, vars
  <2> QED  BY <1>11, <2>1, CallFits
<1> QED  BY <1>6, <1>7, <1>8, <1>9, <1>10, <1>11 DEF Shared

LEMMA RetireFits ==
    ASSUME LInv, granted \subseteq granted', NEW f \in Creators \cup Deleters, Retire(f)
    PROVE  FlightsFit'
<1> USE AdvancesRecycling
<1>1. FlightsFit /\ f \in Flights
  BY Names DEF LInv
<1>2. At(f, flight[f].pc, Id(f), granted')
  BY <1>1, Holding, FitsGrows DEF FlightsFit, Fits, Id
<1>3. ASSUME Fails(f), UNCHANGED vars, flight[f].pc \in {"recycle-begin", "complete", "overflow"}
      PROVE  FlightsFit'
  BY <1>1, <1>3, FailsFits DEF vars, Failing, Engaged, Recycling, Retiring, Serving
<1>4. ASSUME NEW pc, Go(f, pc), At(f, pc, Id(f), granted'), flight[f].pc # "next" PROVE FlightsFit'
  BY <1>1, <1>4, GoFits
<1>5. ASSUME NEW id \in granted', id.topic = NoTopic, NEW pc \in {"recycle", "delete"}, GoWith(f, pc, id),
             id \in Identity
      PROVE  FlightsFit'
  <2>1. At(f, pc, id, granted')
    BY <1>5, Names DEF At, DeleterSteps, CreatorSteps, Engaged, Making, Verifying, Recycling,
                       Retiring, Serving, Waiting
  <2> QED  BY <1>1, <1>5, <2>1, GoWithFits
<1>6. CASE Locate(f)
  <2>1. CASE Retired(f)
    BY <1>1, <2>1, EndsFit DEF Retired
  <2>2. CASE \E n \in Holders(TopicOf(f)) : GoWith(f, "recycle-begin", IdentityOf(n, bindings[n]))
    <3>1. PICK n \in Holders(TopicOf(f)) : GoWith(f, "recycle-begin", IdentityOf(n, bindings[n]))
      BY <2>2
    <3> DEFINE id == IdentityOf(n, bindings[n])
    <3>2. id \in granted /\ id \in Identity /\ id.topic = f[2]
      BY DEF Holders, Live, Minted, LInv, IdentitiesGranted, IInv, TypeOK, IdentityOf, TopicOf
    <3>3. At(f, "recycle-begin", id, granted')
      BY <3>2, Names DEF At, DeleterSteps, CreatorSteps, Engaged, Making, Verifying, Recycling,
                         Retiring, Serving, Waiting
    <3> QED  BY <1>1, <3>1, <3>2, <3>3, GoWithFits
  <2> QED  BY <1>6, <2>1, <2>2 DEF Locate
<1>7. CASE BeginRecycling(f)
  <2> DEFINE next == [node |-> N(f), gen |-> Id(f).gen + 1, topic |-> NoTopic]
  <2>0. Id(f) \in granted /\ Id(f) \in Identity /\ N(f) \in Nodes /\ next \in Identity
    BY <1>1, <1>7, EngagedHolds DEF BeginRecycling, Engaged, Serving, LInv, IInv, TypeOK, Identity, N
  <2>1. CASE BeginRecycle(Id(f)) /\ GoWith(f, "recycle", next)
    <3>1. PICK s \in 1..MaxSlot :
            Write(N(f), [bindings[N(f)] EXCEPT
                               !.slot = s, !.inCluster = TRUE, !.gen = @ + 1,
                               !.topic = NoTopic, !.session = FALSE,
                               !.status = "retiring"])
      BY <2>1 DEF BeginRecycle, N
    <3>2. bindings[N(f)] \in Binding /\ bindings[N(f)].gen = Id(f).gen
      BY <2>0, <2>1 DEF LInv, IInv, TypeOK, BeginRecycle, Current, N
    <3>3. next \in granted'
      BY <3>1, <3>2 DEF Write, IdentityOf, Binding
    <3> QED  BY <1>5, <2>0, <2>1, <3>3
  <2>2. CASE /\ Rec(f).gen = next.gen /\ Rec(f).status = "retiring" /\ ~Bound(N(f))
             /\ GoWith(f, "recycle", next)
    <3>1. next = IdentityOf(N(f), bindings[N(f)]) /\ Minted(N(f))
      BY <2>2 DEF IdentityOf, Rec, Bound, Minted
    <3>2. next \in granted
      BY <2>0, <3>1 DEF LInv, IdentitiesGranted
    <3> HIDE DEF next
    <3>3. next.topic = NoTopic
      BY DEF next
    <3> QED  BY <1>5, <2>0, <2>2, <3>2, <3>3
  <2> QED  BY <1>3, <1>7, <2>1, <2>2 DEF BeginRecycling
<1>8. CASE Settle(f)
  BY <1>1, <1>2, <1>4, <1>8 DEF Settle
<1>9. CASE Complete(f)
  BY <1>1, <1>2, <1>3, <1>4, <1>9 DEF Complete
<1>10. CASE FenceOverflow(f)
  <2> DEFINE id == [Id(f) EXCEPT !.gen = @ + 1]
             b == [bindings[N(f)] EXCEPT !.gen = @ + 1, !.status = "retiring"]
  <2>0. Id(f) \in granted /\ Id(f) \in Identity /\ N(f) \in Nodes /\ Id(f).topic = NoTopic
    BY <1>1, <1>10, EngagedHolds
       DEF FenceOverflow, Transacts, Engaged, Recycling, Retiring, LInv, IInv, TypeOK, Identity, N
  <2>1. CASE Fence(Id(f)) /\ GoWith(f, "delete", id)
    <3>1. bindings[N(f)] \in Binding /\ bindings[N(f)].topic = NoTopic
          /\ bindings[N(f)].gen = Id(f).gen
      BY <2>0, <2>1, CurrentIdentity DEF Fence, LInv, Current, N
    <3>2. id = IdentityOf(N(f), b) /\ id \in Identity
      BY <2>0, <3>1 DEF IdentityOf, Identity, Binding, N
    <3>3. id \in granted' /\ id.topic = NoTopic
      BY <2>0, <2>1, <3>2 DEF Fence, Write, Identity, N
    <3> HIDE DEF id
    <3> QED  BY <1>5, <2>1, <3>2, <3>3
  <2> QED  BY <1>3, <1>10, <2>1 DEF FenceOverflow, Transacts
<1>11. CASE Asleep(f)
  BY <1>1, <1>11, EndsFit DEF Asleep, Retired
<1> QED  BY <1>6, <1>7, <1>8, <1>9, <1>10, <1>11 DEF Retire

(* A creation looks at idle Workers, or takes one of those it found.       *)
LEMMA SelectFits ==
    ASSUME FlightsFit, NEW f \in Creators, granted \subseteq granted',
           flight[f].pc \in Waiting \cup {"idle"}, Id(f).topic = NoTopic,
           NEW v \in FlightState, flight' = [flight EXCEPT ![f] = v],
           ~v.boots, v.pc \in Waiting \cup {"reconcile"}, v.id.topic = NoTopic,
           v.pc = "reconcile" => v.id \in granted,
           \A s \in v.todo : s.id \in granted /\ s.id.topic = NoTopic
    PROVE  FlightsFit'
<1>1. At(f, v.pc, v.id, granted')
  BY Names DEF At, CreatorSteps, Engaged, Making, Verifying, Recycling, Retiring, Serving, Waiting
<1>2. Fits(f, v, granted')
  BY <1>1, Names DEF Fits, Pending
<1> QED  BY <1>2, Moves, Names

LEMMA CreatorActFits ==
    ASSUME LInv, IInv', IdentitiesGranted', granted \subseteq granted',
           vars' = vars => granted' = granted,
           NEW f \in Creators, CreatorAct(f)
    PROVE  FlightsFit'
<1> USE AdvancesBound
<1>1. FlightsFit /\ f \in Flights /\ f[2] \in Topics /\ f # Pool
  BY Names DEF LInv
<1>2. /\ At(f, flight[f].pc, Id(f), granted')
      /\ flight[f] \in FlightState /\ ~flight[f].boots
  BY <1>1, Holding, FitsGrows DEF FlightsFit, Fits, Id
<1>3. ASSUME Fails(f), UNCHANGED vars, flight[f].pc \in {"begin", "adopt", "activate", "session"}
      PROVE  FlightsFit'
  BY <1>1, <1>3, FailsFits DEF vars, Failing, Engaged, Serving
<1>4. ASSUME NEW pc, Go(f, pc), At(f, pc, Id(f), granted'), flight[f].pc # "next" PROVE FlightsFit'
  BY <1>1, <1>4, GoFits
<1>5. ASSUME NEW id \in granted', id \in Identity, GoWith(f, "bind", id) PROVE FlightsFit'
  <2>1. At(f, "bind", id, granted')
    BY <1>5, Names DEF At, CreatorSteps, Engaged, Making, Verifying, Recycling, Retiring,
                       Serving, Waiting
  <2> QED  BY <1>1, <1>5, <2>1, GoWithFits
<1>6. ASSUME NEW id \in granted', id \in Identity, id.topic = f[2], GoWith(f, "begin", id)
      PROVE  FlightsFit'
  <2>1. At(f, "begin", id, granted')
    BY <1>6, Names DEF At, CreatorSteps, Engaged, Making, Verifying, Recycling, Retiring,
                       Serving, Waiting
  <2> QED  BY <1>1, <1>6, <2>1, GoWithFits
<1>7. CASE ListAvailable(f)
  <2> DEFINE idle == {Snapshot(n, bindings[n]) : n \in {m \in Nodes : IdleInSlot(m)}}
             more == [flight[f] EXCEPT !.pc = "bootstrap", !.round = flight[f].round + 1]
             look == [flight[f] EXCEPT !.pc = "claim", !.todo = idle]
             v == IF idle = {} /\ flight[f].round < 2 THEN more ELSE look
  <2>1. flight' = [flight EXCEPT ![f] = v]
    BY <1>7 DEF ListAvailable
  <2>2. \A s \in idle : /\ s \in [id : Identity, was : Binding]
                        /\ s.id \in granted /\ s.id.topic = NoTopic
    BY DEF IdleInSlot, Bound, Minted, LInv, IInv, TypeOK, IdentitiesGranted, Snapshot,
           IdentityOf, Identity, Binding
  <2> HIDE DEF idle
  <2>3. \A s \in flight[f].todo : s.id \in granted /\ s.id.topic = NoTopic
    BY <1>1, Holding DEF Pending
  <2>4. /\ v \in FlightState /\ ~v.boots /\ v.pc \in Waiting /\ v.id = Id(f)
        /\ v.todo = idle \/ v.todo = flight[f].todo
    <3>1. /\ more \in FlightState /\ ~more.boots /\ more.pc \in Waiting /\ more.id = Id(f)
          /\ more.todo = flight[f].todo
      <4>1. flight[f].round + 1 \in Nat
        BY <1>2 DEF FlightState
      <4> QED  BY <1>2, <4>1 DEF FlightState, CreatorSteps, Waiting, Id
    <3>2. idle \in SUBSET [id : Identity, was : Binding]
      BY <2>2
    <3>3. /\ look \in FlightState /\ ~look.boots /\ look.pc \in Waiting /\ look.id = Id(f)
          /\ look.todo = idle
      BY <1>2, <3>2 DEF FlightState, CreatorSteps, Waiting, Id
    <3> HIDE DEF more, look
    <3> QED  BY <3>1, <3>3
  <2>5. flight[f].pc \in Waiting /\ Id(f).topic = NoTopic
    BY <1>2, <1>7 DEF ListAvailable, Waiting, At
  <2>6. v.pc # "reconcile"
    BY <2>4 DEF Waiting
  <2> HIDE DEF v
  <2> QED  BY <1>1, <2>1, <2>2, <2>3, <2>4, <2>5, <2>6, SelectFits
<1>8. CASE BootstrapOrJoin(f)
  <2>1. CASE PoolStart(NoWarm, flight[f].round = 1, flight[f].round = 2, {f})
    <3> DEFINE repairOnly == flight[f].round = 1
               continueOnError == flight[f].round = 2
    <3> HIDE DEF repairOnly, continueOnError
    <3>1. PoolStart(NoWarm, repairOnly, continueOnError, {f}) /\ flight[f].pc = "bootstrap"
      BY <1>8, <2>1 DEF BootstrapOrJoin, repairOnly, continueOnError
    <3> QED  BY <3>1, PoolStartFits
  <2>2. CASE Go(f, "joined")
    <3>1. At(f, "joined", Id(f), granted')
      BY <1>2, <1>8, Names DEF BootstrapOrJoin, At, CreatorSteps, Engaged, Making, Verifying,
                         Recycling, Retiring, Serving, Waiting
    <3> QED  BY <1>4, <1>8, <2>2, <3>1 DEF BootstrapOrJoin
  <2> QED  BY <1>8, <2>1, <2>2 DEF BootstrapOrJoin
<1>9. CASE Claim(f)
  <2>1. flight[f].pc \in Waiting /\ Id(f).topic = NoTopic
    BY <1>2, <1>9 DEF Claim, Waiting, At
  <2>2. ASSUME NEW s \in flight[f].todo,
               \/ flight' = [flight EXCEPT ![f] = [[flight[f] EXCEPT !.todo = @ \ {s}] EXCEPT
                                !.pc = "reconcile", !.id = s.id, !.updated = FALSE]]
               \/ flight' = [flight EXCEPT ![f] = [flight[f] EXCEPT !.todo = @ \ {s}]]
        PROVE  FlightsFit'
    <3> DEFINE rest == [flight[f] EXCEPT !.todo = @ \ {s}]
               v == [rest EXCEPT !.pc = "reconcile", !.id = s.id, !.updated = FALSE]
    <3>1. /\ \A u \in flight[f].todo : u.id \in granted /\ u.id.topic = NoTopic
          /\ s.id \in Identity
      BY <1>1, Holding DEF Pending, FlightState
    <3>2. /\ rest \in FlightState /\ ~rest.boots /\ rest.pc = flight[f].pc /\ rest.id = Id(f)
          /\ rest.todo = flight[f].todo \ {s}
      BY <1>2 DEF FlightState, Id
    <3>3. /\ v \in FlightState /\ ~v.boots /\ v.pc = "reconcile" /\ v.id = s.id
          /\ v.todo = flight[f].todo \ {s}
      BY <3>1, <3>2 DEF FlightState, CreatorSteps, Engaged, Verifying
    <3> HIDE DEF rest
    <3>4. CASE flight' = [flight EXCEPT ![f] = v]
      <4> HIDE DEF v
      <4> QED  BY <1>1, <2>1, <3>1, <3>3, <3>4, SelectFits
    <3>5. CASE flight' = [flight EXCEPT ![f] = rest]
      <4>1. flight[f].pc # "reconcile"
        BY <2>1 DEF Waiting
      <4> QED  BY <1>1, <2>1, <3>1, <3>2, <3>5, <4>1, SelectFits
    <3> QED  BY <2>2, <3>4, <3>5 DEF rest
  <2>3. CASE GoWith(f, "refused", NoId)
    BY <1>1, <2>3, EndsFit
  <2> QED  BY <1>9, <2>2, <2>3 DEF Claim
<1>10. CASE BindTopic(f)
  <2>0. Id(f) \in granted /\ N(f) \in Nodes /\ Id(f) \in Identity
    BY <1>1, <1>10, EngagedHolds DEF BindTopic, Engaged, LInv, IInv, TypeOK, Identity, N
  <2>1. ASSUME NEW r \in Resources, ReservePrepared(f[2], Id(f), r),
               GoWith(f, "begin", [node |-> N(f), gen |-> Id(f).gen + 1, topic |-> f[2]])
        PROVE  FlightsFit'
    <3> DEFINE id == [node |-> N(f), gen |-> Id(f).gen + 1, topic |-> f[2]]
               b == [bindings[N(f)] EXCEPT !.gen = @ + 1, !.topic = f[2], !.status = "reserved"]
    <3>1. bindings[N(f)] \in Binding /\ bindings[N(f)].gen = Id(f).gen /\ Write(N(f), b)
      BY <2>0, <2>1 DEF ReservePrepared, Current, Bind, LInv, IInv, TypeOK, N
    <3>2. id = IdentityOf(N(f), b) /\ id \in Identity
      BY <1>1, <2>0, <3>1 DEF IdentityOf, Identity, Binding
    <3>3. id \in granted' /\ id.topic = f[2]
      BY <3>1, <3>2 DEF Write
    <3> HIDE DEF id
    <3>4. GoWith(f, "begin", id)
      BY <2>1 DEF id
    <3> QED  BY <1>6, <3>2, <3>3, <3>4
  <2>2. ASSUME NEW n \in Holders(f[2]), GoWith(f, "begin", IdentityOf(n, bindings[n]))
        PROVE  FlightsFit'
    <3> DEFINE id == IdentityOf(n, bindings[n])
    <3>1. id \in granted /\ id \in Identity /\ id.topic = f[2]
      BY DEF Holders, Live, Minted, LInv, IdentitiesGranted, IInv, TypeOK, IdentityOf
    <3> HIDE DEF id
    <3>2. GoWith(f, "begin", id)
      BY <2>2 DEF id
    <3> QED  BY <1>6, <3>1, <3>2
  <2>3. CASE GoWith(f, "locate", NoId)
    BY <1>1, <2>3, EndsFit
  <2> QED  BY <1>10, <2>1, <2>2, <2>3 DEF BindTopic, TopicOf
<1>11. CASE BeginPreparing(f)
  <2>1. flight[f].pc = "begin"
    BY <1>11 DEF BeginPreparing
  <2> DEFINE pc == IF Rec(f).status = "reserved" /\ Rec(f).resources # NoResources /\ Id(f).gen > 1
                   THEN "rebind" ELSE "provision"
  <2>2. Go(f, "session") \/ Go(f, pc) \/ (Fails(f) /\ UNCHANGED vars)
    BY <1>11 DEF BeginPreparing
  <2>3. pc \in {"rebind", "provision"}
    OBVIOUS
  <2> HIDE DEF pc
  <2>4. At(f, pc, Id(f), granted') /\ At(f, "session", Id(f), granted')
    BY <1>1, <1>2, <2>1, <2>3
  <2> QED  BY <1>1, <1>3, <1>4, <2>1, <2>2, <2>4
<1>12. CASE CreateSession(f)
  <2>1. flight[f].pc = "session"
    BY <1>12 DEF CreateSession
  <2>2. Go(f, "activate") \/ Go(f, "adopt") \/ (Fails(f) /\ UNCHANGED vars)
    BY <1>12 DEF CreateSession, Answered
  <2> QED  BY <1>1, <1>2, <1>3, <1>4, <2>1, <2>2
<1>13. CASE AdoptSession(f)
  BY <1>1, <1>2, <1>3, <1>4, <1>13 DEF AdoptSession, Transacts
<1>14. CASE Activate(f)
  BY <1>1, <1>2, <1>3, <1>4, <1>14 DEF Activate, Transacts
<1>15. CASE RecordFailure(f)
  BY <1>1, <1>15, EndsFit DEF RecordFailure
<1>16. CASE RetryCleanup(f)
  <2>1. At(f, "locate", Id(f), granted')
    BY Names DEF At, CreatorSteps, Engaged, Making, Verifying, Recycling, Retiring, Serving, Waiting
  <2> QED  BY <1>4, <1>16, <2>1 DEF RetryCleanup
<1>17. CASE Resume(f)
  <2>1. Id(f) \in granted /\ N(f) \in Nodes
    BY <1>1, <1>17, EngagedHolds DEF Resume, Engaged, LInv, IInv, TypeOK, Identity, N
  <2>2. CASE GoWith(f, "locate", NoId)
    BY <1>1, <2>2, EndsFit
  <2>3. CASE GoWith(f, "bind", IdentityOf(N(f), Rec(f)))
    <3> DEFINE id == IdentityOf(N(f), Rec(f))
    <3>1. Minted(N(f))
      BY <2>1 DEF LInv, IInv, TypeOK, Identity, MintedOnce, IdentityFenced, Absent, N
    <3>2. id \in granted /\ id \in Identity
      BY <2>1, <3>1 DEF LInv, IdentitiesGranted, IInv, TypeOK, Rec
    <3> HIDE DEF id
    <3>3. GoWith(f, "bind", id)
      BY <2>3 DEF id
    <3> QED  BY <1>5, <3>2, <3>3
  <2> QED  BY <1>17, <2>2, <2>3 DEF Resume
<1> QED  BY <1>7, <1>8, <1>9, <1>10, <1>11, <1>12, <1>13, <1>14, <1>15, <1>16, <1>17 DEF CreatorAct

LEMMA RestartFits ==
    ASSUME LInv, Restart
    PROVE  FlightsFit'
<1>1. granted' = granted /\ flight' = [f \in Flights |-> AfterRestart(f)]
  BY DEF Restart, vars
<1>2. ASSUME NEW f \in Flights PROVE Fits(f, AfterRestart(f), granted)
  <2>1. Fits(f, flight[f], granted) /\ At(f, flight[f].pc, Id(f), granted)
    BY Holding DEF LInv, FlightsFit
  <2>2. Fits(f, Idle, granted)
    BY IdleFits
  <2>3. ASSUME NEW pc, NEW id, NEW v, At(f, pc, id, granted), pc # "next",
               v.pc = pc, v.id = id, v.todo = {}, ~v.boots,
               pc \in PoolSteps \cup DeleterSteps \cup CreatorSteps => v \in FlightState
        PROVE  Fits(f, v, granted)
    <3>1. pc \in PoolSteps \cup DeleterSteps \cup CreatorSteps
      BY <2>3, Names DEF At
    <3> QED  BY <2>3, <3>1 DEF Fits, Pending
  <2>4. ASSUME NEW pc, At(f, pc, NoId, granted), pc # "next"
        PROVE  Fits(f, [Idle EXCEPT !.pc = pc], granted)
    <3> DEFINE v == [Idle EXCEPT !.pc = pc]
    <3>1. /\ v.pc = pc /\ v.id = NoId /\ v.todo = {} /\ ~v.boots
          /\ pc \in PoolSteps \cup DeleterSteps \cup CreatorSteps => v \in FlightState
      BY DEF Idle, FlightState
    <3> HIDE DEF v
    <3>2. Fits(f, v, granted)
      BY <2>3, <2>4, <3>1
    <3> QED  BY <3>2 DEF v
  <2>10. ASSUME At(f, "interrupted", Id(f), granted)
         PROVE  Fits(f, [Idle EXCEPT !.pc = "interrupted", !.id = Id(f)], granted)
    <3> DEFINE v == [Idle EXCEPT !.pc = "interrupted", !.id = Id(f)]
    <3>1. /\ v.pc = "interrupted" /\ v.id = Id(f) /\ v.todo = {} /\ ~v.boots
          /\ "interrupted" \in PoolSteps \cup DeleterSteps \cup CreatorSteps => v \in FlightState
      BY Holding DEF Idle, FlightState
    <3> HIDE DEF v
    <3>2. Fits(f, v, granted)
      BY <2>3, <2>10, <3>1
    <3> QED  BY <3>2 DEF v
  <2>11. f \in Creators => /\ flight[f].pc \in Ended \cup Waiting \cup Engaged \cup {"locate"}
                           /\ flight[f].pc \in Waiting => Unclaimed(f)
                           /\ "bind" \in Engaged /\ "bind" \notin Waiting /\ "locate" \in Retiring
    BY <2>1 DEF At, CreatorSteps, Unclaimed, Engaged, Waiting, Retiring
  <2> USE DEF At, CreatorSteps, DeleterSteps, Ended, Engaged, Making, Verifying, Recycling, Retiring,
              Serving, Waiting
  <2>5. CASE flight[f].pc \in Ended
    BY <2>1, <2>5 DEF AfterRestart
  <2>6. CASE flight[f].pc \notin Ended /\ f = Pool
    BY <2>2, <2>6 DEF AfterRestart
  <2>7. CASE flight[f].pc \notin Ended /\ f \in Deleters
    <3>1. At(f, "failed", NoId, granted)
      BY <2>7, Names
    <3>2. AfterRestart(f) = [Idle EXCEPT !.pc = "failed"]
      BY <2>7, Names DEF AfterRestart
    <3> QED  BY <2>4, <3>1, <3>2
  <2>8. CASE flight[f].pc \notin Ended /\ f \in Creators
    <3>1. CASE flight[f].pc \in Retiring \cup {"fail"}
      <4>1. At(f, "stuck", NoId, granted)
        BY <2>8, Names
      <4>2. AfterRestart(f) = [Idle EXCEPT !.pc = "stuck"]
        BY <2>8, <3>1, Names DEF AfterRestart
      <4> QED  BY <2>4, <4>1, <4>2
    <3>2. CASE /\ flight[f].pc \notin Retiring \cup {"fail"}
               /\ flight[f].pc = "bind" \/ ~Unclaimed(f)
      <4>1. flight[f].pc \in Engaged
        BY ONLY <2>8, <2>11, <3>2
      <4>2. At(f, "interrupted", Id(f), granted)
        BY <2>1, <2>8, <4>1, Names
      <4>3. AfterRestart(f) = [Idle EXCEPT !.pc = "interrupted", !.id = Id(f)]
        BY <2>8, <3>2, Names DEF AfterRestart
      <4> QED  BY <2>10, <4>2, <4>3
    <3>3. CASE /\ flight[f].pc \notin Retiring \cup {"fail"}
               /\ ~(flight[f].pc = "bind" \/ ~Unclaimed(f))
      <4>1. At(f, "refused", NoId, granted)
        BY <2>8, Names
      <4>2. AfterRestart(f) = [Idle EXCEPT !.pc = "refused"]
        BY <2>8, <3>3, Names DEF AfterRestart
      <4> QED  BY <2>4, <4>1, <4>2
    <3> QED  BY <3>1, <3>2, <3>3
  <2> QED  BY <2>5, <2>6, <2>7, <2>8, Names
<1> QED  BY <1>1, <1>2 DEF FlightsFit

LEMMA FitsStep ==
    ASSUME LInv, [LifecycleNext]_allvars
    PROVE  FlightsFit'
<1>0. IInv' /\ IdentitiesGranted' /\ granted \subseteq granted' /\ (vars' = vars => granted' = granted)
  BY TableKept DEF vars
<1>1. FlightsFit
  BY DEF LInv
<1>2. ASSUME NEW warm \in WarmTargets, PoolStart(warm, FALSE, FALSE, {}) PROVE FlightsFit'
  <2> DEFINE no == FALSE
             none == {}
  <2>1. PoolStart(warm, no, no, none) /\ none \in SUBSET Creators
        /\ \A f \in none : flight[f].pc = "bootstrap"
    BY <1>2
  <2> HIDE DEF no, none
  <2> QED  BY <1>0, <2>1, PoolStartFits
<1>3. ASSUME NEW s \in flight[Pool].todo, PoolAct(s) PROVE FlightsFit'
  BY <1>0, <1>3, PoolActFits
<1>4. CASE PoolFinishes
  BY <1>0, <1>1, <1>4, PoolEndsFits DEF PoolFinishes
<1>5. ASSUME NEW t \in Topics, Create(t) PROVE FlightsFit'
  <2>1. Creator(t) \in Creators /\ Creator(t) \in Flights
    BY Names
  <2>2. /\ flight[Creator(t)].pc = "idle" /\ Go(Creator(t), "list")
        /\ At(Creator(t), "idle", Id(Creator(t)), granted')
    BY <1>0, <1>1, <1>5, <2>1, Holding, FitsGrows DEF Create, FlightsFit, Fits, Id
  <2>3. At(Creator(t), "list", Id(Creator(t)), granted')
    BY <2>1, <2>2, Names DEF At, CreatorSteps, Engaged, Making, Verifying, Recycling, Retiring,
                             Serving, Waiting
  <2> QED  BY <1>0, <1>1, <2>1, <2>2, <2>3, GoFits
<1>6. ASSUME NEW f \in Flights, Shared(f) PROVE FlightsFit'
  BY <1>0, <1>6, SharedFits
<1>7. ASSUME NEW f \in Creators \cup Deleters, Retire(f) PROVE FlightsFit'
  BY <1>0, <1>7, RetireFits
<1>8. ASSUME NEW f \in Creators, CreatorAct(f) PROVE FlightsFit'
  BY <1>0, <1>8, CreatorActFits
<1>9. ASSUME NEW f \in Deleters, Delete(f) PROVE FlightsFit'
  <2>1. At(f, "locate", Id(f), granted')
    BY Names DEF At, DeleterSteps, Engaged, Making, Verifying, Recycling, Retiring, Serving, Waiting
  <2> QED  BY <1>0, <1>1, <1>9, <2>1, Names, GoFits DEF Delete
<1>10. CASE Restart
  BY <1>10, RestartFits
<1>11. CASE UNCHANGED allvars
  BY <1>1, <1>11 DEF allvars, vars, lifecycle, FlightsFit
<1> QED  BY <1>2, <1>3, <1>4, <1>5, <1>6, <1>7, <1>8, <1>9, <1>10, <1>11, Actions

-----------------------------------------------------------------------------
(* What a call of the boundary makes of a Worker, with the record the      *)
(* table has of it.                                                        *)
Installs(f, b, w, x) ==
    /\ flight[f].pc = "provision" /\ b.gen = Id(f).gen
    /\ b.status \notin {"retiring", "retired"}
    /\ w.installed \in {0, b.gen} \/ (Id(f).topic # NoTopic /\ w.installed = b.gen - 1)
    /\ x \in Provisioned(w, Id(f))

Inspected(f, b, w, x) ==
    /\ flight[f].pc \in {"reconcile", "recheck", "sleep"} /\ b.gen = Id(f).gen
    /\ b.status \in {"available", "pool-provisioning"}
    /\ \/ Waits(w) /\ x = Reported(w)
       \/ Updates(w) /\ x = Updated(w)
       \/ ~Updates(w) /\ x = Verified(w, Id(f))

Settled(f, b, w, x) ==
    /\ flight[f].pc \in {"provision", "reconcile", "recheck", "sleep", "prove", "asleep"}
    /\ b.gen = Id(f).gen
    /\ \E s \in {"on", "off"} : x = [w EXCEPT !.sleep = s]

Cleaned(f, b, w, x) ==
    /\ b.gen = Id(f).gen /\ w.installed # b.gen
    /\ \/ flight[f].pc = "rebind" /\ b.status = "provisioning"
       \/ flight[f].pc = "recycle" /\ b.status = "retiring"
    /\ x = Rotated(w, Id(f)) \/ x = Sanitized(w)

Erased(f, b, w, x) ==
    /\ flight[f].pc = "delete" /\ b.gen = Id(f).gen /\ b.status = "retiring"
    /\ x = [w EXCEPT !.deleted = TRUE, !.data = {}]

Started(f, w, x) ==
    /\ flight[f].pc = "session" /\ f \in Creators
    /\ w.installed = Id(f).gen /\ ~w.deleted
    /\ x = [w EXCEPT !.data = @ \cup {f[2]}]

WorkerChange(f, b, w, x) ==
    \/ Installs(f, b, w, x) \/ Inspected(f, b, w, x) \/ Settled(f, b, w, x)
    \/ Cleaned(f, b, w, x) \/ Erased(f, b, w, x) \/ Started(f, w, x)

CallsOn(f) ==
    \E x : /\ UNCHANGED vars /\ N(f) \in Nodes /\ Id(f) \in granted
           /\ worker' = [worker EXCEPT ![N(f)] = x]
           /\ WorkerChange(f, bindings[N(f)], worker[N(f)], x)

(* The deployment of a sleep policy comes to an end.                       *)
LEMMA SettleEffects ==
    ASSUME LInv, NEW f \in Flights, UNCHANGED vars, Authorized(Id(f)),
           flight[f].pc \in {"provision", "reconcile", "recheck", "sleep", "prove", "asleep"},
           NEW s \in {"on", "off"}, Set(N(f), [worker[N(f)] EXCEPT !.sleep = s])
    PROVE  CallsOn(f)
<1> DEFINE x == [worker[N(f)] EXCEPT !.sleep = s]
<1>1. Id(f) \in granted /\ N(f) \in Nodes
  BY EngagedHolds DEF LInv, IInv, TypeOK, Identity, N, Engaged, Making, Verifying, Recycling, Retiring
<1>2. Settled(f, bindings[N(f)], worker[N(f)], x)
  BY DEF Settled, Authorized, N
<1>3. worker' = [worker EXCEPT ![N(f)] = x]
  BY DEF Set
<1> HIDE DEF x
<1> QED  BY <1>1, <1>2, <1>3 DEF CallsOn, WorkerChange

LEMMA AwaitEffects ==
    ASSUME LInv, NEW f \in Flights, UNCHANGED vars, Authorized(Id(f)),
           flight[f].pc \in {"prove", "asleep"}, Awaited(f)
    PROVE  (UNCHANGED vars /\ UNCHANGED worker) \/ CallsOn(f)
<1> DEFINE w == worker[N(f)]
           s == IF w.sleep \in {"entering", "on"} THEN "on" ELSE "off"
<1>1. CASE flight[f].updated
  <2>1. Set(N(f), [w EXCEPT !.sleep = s])
    BY <1>1 DEF Awaited, Arrived
  <2>2. s \in {"on", "off"}
    OBVIOUS
  <2> HIDE DEF s
  <2> QED  BY <2>1, <2>2, SettleEffects
<1> QED  BY <1>1 DEF Awaited

LEMMA CallEffects ==
    ASSUME LInv, NEW f \in Flights, Call(f)
    PROVE  (UNCHANGED vars /\ UNCHANGED worker) \/ CallsOn(f)
<1>1. flight[f].pc \in Engaged => Id(f) \in granted /\ N(f) \in Nodes
  BY EngagedHolds DEF LInv, IInv, TypeOK, Identity, N
<1> USE DEF Engaged, Making, Verifying, Recycling, Retiring, Serving
<1>2. CASE Provision(f)
  <2>1. PICK x \in Provisioned(worker[N(f)], Id(f)) : Set(N(f), x)
    BY <1>2 DEF Provision
  <2>2. UNCHANGED vars /\ flight[f].pc = "provision" /\ CanProvision(Id(f))
    BY <1>2 DEF Provision, Answered
  <2>3. Installs(f, bindings[N(f)], worker[N(f)], x)
    BY <2>1, <2>2 DEF Installs, CanProvision, Authorized, N
  <2> QED  BY <1>1, <2>1, <2>2, <2>3 DEF CallsOn, WorkerChange, Set
<1>3. CASE Reconcile(f) \/ Recheck(f) \/ Sleep(f)
  <2>1. PICK updated \in BOOLEAN : Reconciled(Id(f), updated)
    BY <1>3 DEF Reconcile, Recheck, Sleep
  <2>2. /\ UNCHANGED vars /\ flight[f].pc \in {"reconcile", "recheck", "sleep"}
        /\ Reconcilable(Id(f))
    BY <1>3, <2>1 DEF Reconcile, Recheck, Sleep, Answered, Reconciled
  <2> DEFINE w == worker[N(f)]
  <2>3. PICK x : /\ worker' = [worker EXCEPT ![N(f)] = x]
                 /\ \/ Waits(w) /\ x = Reported(w)
                    \/ Updates(w) /\ x = Updated(w)
                    \/ ~Updates(w) /\ x = Verified(w, Id(f))
    BY <2>1 DEF Reconciled, Set, N
  <2>4. Inspected(f, bindings[N(f)], w, x)
    BY <2>2, <2>3 DEF Inspected, Reconcilable, Authorized, N
  <2> QED  BY <1>1, <2>2, <2>3, <2>4 DEF CallsOn, WorkerChange
<1>4. CASE Rebind(f) \/ Recycle(f)
  <2>1. PICK st \in {"provisioning", "retiring"} :
          /\ CanRotate(Id(f), st)
          /\ st = "provisioning" => flight[f].pc = "rebind"
          /\ st = "retiring" => flight[f].pc = "recycle"
    BY <1>4 DEF Rebind, Recycle, Rotate
  <2>2. UNCHANGED vars
    BY <1>4 DEF Rebind, Recycle, Rotate, Answered
  <2>3. CASE worker[N(f)].installed = Id(f).gen
    BY <1>4, <2>2, <2>3 DEF Rebind, Recycle, Rotate
  <2>4. ASSUME worker[N(f)].installed # Id(f).gen, NEW x, Set(N(f), x),
               x = Rotated(worker[N(f)], Id(f)) \/ x = Sanitized(worker[N(f)])
        PROVE  CallsOn(f)
    <3>1. Cleaned(f, bindings[N(f)], worker[N(f)], x)
      BY <2>1, <2>4 DEF Cleaned, CanRotate, Authorized, N
    <3> QED  BY <1>1, <2>1, <2>2, <2>4, <3>1 DEF CallsOn, WorkerChange, Set
  <2> QED  BY <1>4, <2>3, <2>4 DEF Rebind, Recycle, Rotate
<1>5. CASE DeleteWorker(f)
  <2> DEFINE x == [worker[N(f)] EXCEPT !.deleted = TRUE, !.data = {}]
  <2>1. /\ UNCHANGED vars /\ worker' = [worker EXCEPT ![N(f)] = x] /\ flight[f].pc = "delete"
        /\ Authorized(Id(f)) /\ Rec(f).status = "retiring"
    BY <1>5 DEF DeleteWorker, Answered, Set
  <2>2. Erased(f, bindings[N(f)], worker[N(f)], x)
    BY <2>1 DEF Erased, Authorized, N, Rec
  <2> HIDE DEF x
  <2> QED  BY <1>1, <2>1, <2>2 DEF CallsOn, WorkerChange
<1>6. CASE Confirm(f) \/ Unanswered(f)
  <2>1. CASE UNCHANGED worker
    BY <1>6, <2>1 DEF Confirm, Unanswered, Answered, vars
  <2>2. CASE RolloutFails(f)
    <3>1. UNCHANGED vars
      BY <1>6 DEF Confirm, Unanswered, Answered
    <3> QED  BY <2>2, <3>1, SettleEffects DEF RolloutFails
  <2> QED  BY <1>6, <2>1, <2>2 DEF Confirm, Unanswered
<1> QED  BY <1>2, <1>3, <1>4, <1>5, <1>6 DEF Call

LEMMA SessionEffects ==
    ASSUME LInv, NEW f \in Creators, CreateSession(f)
    PROVE  (UNCHANGED vars /\ UNCHANGED worker) \/ CallsOn(f)
<1>1. f \in Flights /\ flight[f].pc = "session" /\ Runs(Id(f))
  BY Names DEF CreateSession
<1>2. Id(f) \in granted /\ N(f) \in Nodes
  BY <1>1, EngagedHolds DEF LInv, IInv, TypeOK, Identity, N, Engaged, Serving
<1> DEFINE x == [worker[N(f)] EXCEPT !.data = @ \cup {f[2]}]
<1>3. CASE Set(N(f), [worker[N(f)] EXCEPT !.data = @ \cup {TopicOf(f)}]) /\ UNCHANGED vars
  <2>1. Started(f, worker[N(f)], x)
    BY <1>1 DEF Started, Runs, N
  <2>2. worker' = [worker EXCEPT ![N(f)] = x]
    BY <1>3 DEF Set, TopicOf
  <2> HIDE DEF x
  <2> QED  BY <1>2, <1>3, <2>1, <2>2 DEF CallsOn, WorkerChange
<1> QED  BY <1>3 DEF CreateSession, Answered

(* What the calls that install, inspect and settle a Worker leave alone.   *)
LEMMA ChangeKeeps ==
    ASSUME NEW f, Id(f).gen \in Nat, NEW b, NEW w \in WorkerState, NEW x,
           Installs(f, b, w, x) \/ Inspected(f, b, w, x) \/ Settled(f, b, w, x)
    PROVE  /\ x \in WorkerState
           /\ x.installed = IF Installs(f, b, w, x) THEN Id(f).gen ELSE w.installed
           /\ x.data = w.data /\ x.deleted = w.deleted
           /\ x.outdated => w.outdated
           /\ x.outdated /\ x.sleep = "entering" => w.sleep = "entering"
<1>1. ASSUME NEW id, id.gen \in Nat, x \in Provisioned(w, id)
      PROVE  /\ x \in WorkerState /\ x.installed = id.gen
             /\ x.data = w.data /\ x.deleted = w.deleted
             /\ x.outdated => w.outdated
             /\ x.outdated /\ x.sleep = "entering" => w.sleep = "entering"
  <2> DEFINE new == [w EXCEPT !.installed = id.gen, !.verified = 0]
  <2>1. /\ new \in WorkerState /\ new.installed = id.gen /\ new.data = w.data
        /\ new.deleted = w.deleted /\ new.outdated = w.outdated /\ new.sleep = w.sleep
    BY <1>1 DEF WorkerState
  <2>2. \/ x = [new EXCEPT !.sleep = IF new.sleep = "off" THEN "off" ELSE "leaving"]
        \/ x = [new EXCEPT !.outdated = FALSE, !.sleep = "entering"]
        \/ x = new
    BY <1>1, <2>1 DEF Provisioned
  <2> HIDE DEF new
  <2> QED  BY <2>1, <2>2 DEF WorkerState
<1>2. ASSUME x = Reported(w) \/ x = Updated(w)
      PROVE  /\ x \in WorkerState /\ x.installed = w.installed
             /\ x.data = w.data /\ x.deleted = w.deleted
             /\ x.outdated => w.outdated
             /\ x.outdated /\ x.sleep = "entering" => w.sleep = "entering"
  <2>1. CASE x = Reported(w)
    BY <2>1 DEF Reported, WorkerState
  <2>2. CASE x = Updated(w)
    <3> DEFINE s == IF w.sleep = "on" THEN "on" ELSE "entering"
    <3>1. x = [w EXCEPT !.outdated = FALSE, !.verified = 0, !.sleep = s]
      BY <2>2 DEF Updated
    <3>2. s \in {"on", "entering"}
      OBVIOUS
    <3> HIDE DEF s
    <3> QED  BY <3>1, <3>2 DEF WorkerState
  <2> QED  BY <1>2, <2>1, <2>2
<1>3. ASSUME NEW id, id.gen \in Nat, ~Updates(w), x = Verified(w, id)
      PROVE  /\ x \in WorkerState /\ x.installed = w.installed
             /\ x.data = w.data /\ x.deleted = w.deleted /\ ~x.outdated
  <2>1. Arrived(w) \in WorkerState /\ ~Arrived(w).outdated
        /\ Arrived(w).installed = w.installed /\ Arrived(w).data = w.data
        /\ Arrived(w).deleted = w.deleted
    BY <1>3 DEF Arrived, Updates, WorkerState
  <2> QED  BY <1>3, <2>1 DEF Verified, WorkerState
<1>4. ASSUME NEW s \in {"on", "off"}, x = [w EXCEPT !.sleep = s]
      PROVE  /\ x \in WorkerState /\ x.installed = w.installed
             /\ x.data = w.data /\ x.deleted = w.deleted
             /\ x.outdated = w.outdated /\ x.sleep # "entering"
  BY <1>4 DEF WorkerState
<1>5. CASE Installs(f, b, w, x)
  BY <1>1, <1>5 DEF Installs
<1>6. CASE Inspected(f, b, w, x)
  <2>1. ~Installs(f, b, w, x)
    BY <1>6 DEF Installs, Inspected
  <2> QED  BY <1>2, <1>3, <1>6, <2>1 DEF Inspected
<1>7. CASE ~Installs(f, b, w, x) /\ Settled(f, b, w, x)
  BY <1>4, <1>7 DEF Settled
<1> QED  BY <1>5, <1>6, <1>7

(* A call leaves the Worker with a state of the same type.                 *)
LEMMA ChangeTyped ==
    ASSUME NEW f, Id(f) \in Identity, f \in Creators => f[2] \in Topics,
           NEW b, NEW w \in WorkerState, NEW x, WorkerChange(f, b, w, x)
    PROVE  x \in WorkerState
<1>0. Id(f).gen \in Nat
  BY DEF Identity
<1>1. CASE Installs(f, b, w, x) \/ Inspected(f, b, w, x) \/ Settled(f, b, w, x)
  BY <1>0, <1>1, ChangeKeeps
<1>3. CASE Cleaned(f, b, w, x)
  <2>1. Sanitized(w) \in WorkerState
    BY DEF Sanitized, WorkerState
  <2>2. Rotated(w, Id(f)) \in WorkerState
    BY <1>0, <2>1 DEF Rotated, WorkerState
  <2> QED  BY <1>3, <2>1, <2>2 DEF Cleaned
<1>4. CASE Erased(f, b, w, x)
  BY <1>4 DEF Erased, WorkerState
<1>5. CASE Started(f, w, x)
  <2>1. w.data \cup {f[2]} \in SUBSET Topics
    BY <1>5 DEF Started, WorkerState
  <2> QED  BY <1>5, <2>1 DEF Started, WorkerState
<1> QED  BY <1>1, <1>3, <1>4, <1>5 DEF WorkerChange

LEMMA WorkerKept ==
    ASSUME LInv, [LifecycleNext]_allvars
    PROVE  worker' \in [Nodes -> WorkerState]
<1>1. worker \in [Nodes -> WorkerState]
  BY DEF LInv
<1>2. ASSUME NEW f \in Flights, CallsOn(f) PROVE worker' \in [Nodes -> WorkerState]
  <2>1. PICK x : /\ N(f) \in Nodes /\ Id(f) \in granted
                 /\ worker' = [worker EXCEPT ![N(f)] = x]
                 /\ WorkerChange(f, bindings[N(f)], worker[N(f)], x)
    BY <1>2 DEF CallsOn
  <2>2. Id(f) \in Identity /\ (f \in Creators => f[2] \in Topics)
    BY <2>1, Names DEF LInv, IInv, TypeOK
  <2>3. worker[N(f)] \in WorkerState
    BY <1>1, <2>1
  <2>4. x \in WorkerState
    BY <2>1, <2>2, <2>3, ChangeTyped
  <2> QED  BY <1>1, <2>1, <2>4
<1>3. ASSUME NEW warm \in WarmTargets, PoolStart(warm, FALSE, FALSE, {}) PROVE UNCHANGED worker
  BY <1>3 DEF PoolStart
<1>4. ASSUME NEW s \in flight[Pool].todo, PoolAct(s) PROVE UNCHANGED worker
  BY <1>4 DEF PoolAct, PoolRetires, PoolReconciles, PoolBootstraps
<1>5. CASE PoolFinishes \/ (\E t \in Topics : Create(t)) \/ (\E f \in Deleters : Delete(f))
           \/ UNCHANGED allvars
  BY <1>1, <1>5 DEF PoolFinishes, Create, Delete, allvars, lifecycle
<1>6. ASSUME NEW f \in Flights, Shared(f) PROVE UNCHANGED worker \/ CallsOn(f)
  <2>1. CASE Prove(f)
    BY <2>1, AwaitEffects DEF Prove
  <2> QED  BY <1>6, <2>1, CallEffects
           DEF Shared, RecordResources, Publish, LookUp, Demote, Release, Transacts
<1>7. ASSUME NEW f \in Creators \cup Deleters, Retire(f) PROVE UNCHANGED worker \/ CallsOn(f)
  <2>1. CASE Asleep(f)
    BY <2>1, AwaitEffects, Names DEF Asleep
  <2> QED  BY <1>7, <2>1
           DEF Retire, Locate, BeginRecycling, Settle, Complete, FenceOverflow, Transacts
<1>8. ASSUME NEW f \in Creators, CreatorAct(f) PROVE UNCHANGED worker \/ CallsOn(f)
  BY <1>8, SessionEffects DEF CreatorAct, ListAvailable, BootstrapOrJoin, PoolStart, Claim, BindTopic,
         BeginPreparing, AdoptSession, Activate, RecordFailure, RetryCleanup, Resume, Transacts
<1>9. CASE Restart
  <2>1. PICK upgrade \in BOOLEAN :
          worker' = [n \in Nodes |-> [worker[n] EXCEPT !.verified = 0,
                       !.outdated = IF upgrade THEN worker[n].installed # 0 ELSE @]]
    BY <1>9 DEF Restart
  <2>2. ASSUME NEW n \in Nodes
        PROVE  [worker[n] EXCEPT !.verified = 0,
                       !.outdated = IF upgrade THEN worker[n].installed # 0 ELSE @] \in WorkerState
    BY <1>1 DEF WorkerState
  <2> QED  BY <2>1, <2>2
<1> QED  BY <1>1, <1>2, <1>3, <1>4, <1>5, <1>6, <1>7, <1>8, <1>9, Actions, Names

-----------------------------------------------------------------------------
(* The initial states, and the invariant of the flights.                   *)

LEMMA RestartsKept ==
    ASSUME LInv, [LifecycleNext]_allvars
    PROVE  restarts' \in Nat /\ (restarts' = restarts \/ (restarts' = restarts + 1 /\ Restart))
<1>1. restarts \in Nat
  BY DEF LInv
<1>2. ASSUME NEW warm \in WarmTargets, PoolStart(warm, FALSE, FALSE, {}) PROVE restarts' = restarts
  BY <1>2 DEF PoolStart
<1>3. ASSUME NEW s \in flight[Pool].todo, PoolAct(s) PROVE restarts' = restarts
  BY <1>3 DEF PoolAct, PoolRetires, PoolReconciles, PoolBootstraps
<1>4. CASE PoolFinishes \/ (\E t \in Topics : Create(t)) \/ (\E f \in Deleters : Delete(f))
           \/ UNCHANGED allvars
  BY <1>1, <1>4 DEF PoolFinishes, Create, Delete, allvars, lifecycle
<1>5. ASSUME NEW f \in Flights, Shared(f) PROVE restarts' = restarts
  <2>1. CASE Call(f)
    BY <2>1 DEF Call, Provision, Reconcile, Recheck, Rebind, Recycle, Rotate, DeleteWorker,
                Confirm, Sleep, Unanswered, Answered
  <2>2. CASE RecordResources(f) \/ Prove(f) \/ Publish(f) \/ LookUp(f) \/ Demote(f) \/ Release(f)
    BY <2>2 DEF RecordResources, Prove, Publish, LookUp, Demote, Release, Transacts
  <2> QED  BY <1>5, <2>1, <2>2 DEF Shared
<1>6. ASSUME NEW f \in Creators \cup Deleters, Retire(f) PROVE restarts' = restarts
  BY <1>6 DEF Retire, Locate, BeginRecycling, Settle, Complete, FenceOverflow, Asleep, Transacts
<1>7. ASSUME NEW f \in Creators, CreatorAct(f) PROVE restarts' = restarts
  BY <1>7 DEF CreatorAct, ListAvailable, BootstrapOrJoin, PoolStart, Claim, BindTopic,
         BeginPreparing, CreateSession, AdoptSession, Activate, RecordFailure, RetryCleanup, Resume,
         Transacts, Answered
<1>8. CASE Restart
  <2>1. restarts' = restarts + 1
    BY <1>8 DEF Restart
  <2> QED  BY <1>1, <1>8, <2>1
<1> QED  BY <1>1, <1>2, <1>3, <1>4, <1>5, <1>6, <1>7, <1>8, Actions

LEMMA LInvInitially == LifecycleInit => LInv
<1> SUFFICES ASSUME LifecycleInit PROVE LInv
  OBVIOUS
<1>1. IInv
  BY InitInvariant DEF LifecycleInit
<1>2. IdentitiesGranted
  BY DEF LifecycleInit, Init, IdentitiesGranted
<1>3. FlightsFit
  BY IdleFits DEF LifecycleInit, FlightsFit
<1>4. worker \in [Nodes -> WorkerState]
  <2>1. \A n \in Nodes : bindings[n] \in Binding
    BY <1>1 DEF IInv, TypeOK
  <2>2. ASSUME NEW t \in Topics PROVE LegacyWorker(t) \in WorkerState
    BY DEF LegacyWorker, NoWorker, WorkerState
  <2>3. NoWorker \in WorkerState
    BY DEF NoWorker, WorkerState
  <2>4. \A n \in Nodes : Bound(n) => bindings[n].topic \in Topics
    BY <2>1 DEF Binding, Bound
  <2> QED  BY <2>2, <2>3, <2>4 DEF LifecycleInit
<1>5. restarts \in Nat
  BY DEF LifecycleInit
<1> QED  BY <1>1, <1>2, <1>3, <1>4, <1>5 DEF LInv

LEMMA LInvKept == LInv /\ [LifecycleNext]_allvars => LInv'
  BY TableKept, FitsStep, WorkerKept, RestartsKept DEF LInv

THEOREM FlightsConsistent == LifecycleSpec => []LInv
  BY LInvInitially, LInvKept, PTL DEF LifecycleSpec

(* Flights use the table only as its own specification allows: the         *)
(* life cycle implements NodeBindings, and so keeps all it promises.       *)
THEOREM TableImplemented == LifecycleSpec => TableDiscipline
<1>1. LifecycleInit => Init
  BY DEF LifecycleInit
<1>2. LInv /\ [LifecycleNext]_allvars => [UNCHANGED vars \/ Next]_vars
  BY TableStep DEF allvars, vars
<1> QED  BY <1>1, <1>2, FlightsConsistent, PTL DEF LifecycleSpec, TableDiscipline

-----------------------------------------------------------------------------
(* What a transaction of flight f writes for node n: record c instead of b *)
(* while the Worker is w.                                                  *)
LoweredTo(f, n, b, c) ==
    /\ b.topic = NoTopic
    /\ \/ b.status = "available"
       \/ f = Pool /\ \E s \in flight[Pool].todo : /\ s.id.node = n /\ s.id.gen = b.gen
                                                   /\ s.was.status = "pool-reserved"
       \/ flight[f].pc = "demoting" /\ n = N(f) /\ b.gen = Id(f).gen
    /\ c = [b EXCEPT !.status = "pool-provisioning"]

OfferedAs(f, b, c) ==
    /\ b.topic = NoTopic /\ b.gen = Id(f).gen /\ b.resources # NoResources
    /\ flight[f].pc = "publish" \/ (flight[f].pc = "complete" /\ b.status = "retiring")
    /\ c = [b EXCEPT !.status = "available"]

RetiredAs(f, b, c) ==
    /\ b.topic = NoTopic
    /\ \/ c = [b EXCEPT !.status = "retired"]
       \/ c = [b EXCEPT !.gen = b.gen + 1, !.status = "retiring"]

RecordedAs(f, b, c) ==
    /\ flight[f].pc = "record" /\ b.gen = Id(f).gen /\ b.topic = Id(f).topic
    /\ \E r \in Resources : c = [b EXCEPT !.resources = r]

PreparedAs(f, b, w, c) ==
    /\ f \in Creators /\ b.topic = f[2] /\ b.gen = Id(f).gen
    /\ \/ /\ flight[f].pc = "begin" /\ b.status # "ready"
          /\ c = [b EXCEPT !.status = "provisioning"]
       \/ /\ flight[f].pc = "activate" /\ w.installed = b.gen /\ ~w.deleted
          /\ c = [b EXCEPT !.status = "ready"]
       \/ /\ flight[f].pc = "fail"
          /\ c = [b EXCEPT !.status = "failed"]
       \/ /\ flight[f].pc = "adopt"
          /\ c = [b EXCEPT !.session = TRUE]

GivenTo(f, b, c) ==
    /\ f \in Creators /\ b.topic = NoTopic /\ b.status = "available"
    /\ c = [b EXCEPT !.gen = b.gen + 1, !.topic = f[2], !.status = "reserved"]

TakenFrom(f, b, c) ==
    /\ f # Pool /\ flight[f].pc = "recycle-begin" /\ b.topic = f[2]
    /\ \E s \in Nat : c = [b EXCEPT !.slot = s, !.inCluster = TRUE, !.gen = b.gen + 1,
                                    !.topic = NoTopic, !.session = FALSE, !.status = "retiring"]

Wrote(f, n, b, w, c) ==
    \/ LoweredTo(f, n, b, c)
    \/ RetiredAs(f, b, c) \/ GivenTo(f, b, c)
    \/ n = N(f) /\ (OfferedAs(f, b, c) \/ RecordedAs(f, b, c) \/ PreparedAs(f, b, w, c))
    \/ TakenFrom(f, b, c)

WritesOn(f) ==
    \E n, c :
        /\ n \in Nodes /\ UNCHANGED worker /\ Write(n, c)
        /\ bindings[n].status \notin {"absent", "retired"}
        /\ Wrote(f, n, bindings[n], worker[n], c)

Mints ==
    /\ UNCHANGED worker
    /\ \A n \in Nodes :
        \/ bindings'[n] = bindings[n]
        \/ /\ bindings[n] = Absent
           /\ bindings'[n].status = "pool-reserved" /\ bindings'[n].gen = 1
           /\ bindings'[n].topic = NoTopic /\ bindings'[n].resources = NoResources
    /\ \A id \in granted' : id \in granted \/ bindings'[id.node].topic = NoTopic

Quiet == UNCHANGED vars /\ UNCHANGED worker

LEMMA HeldBinding ==
    ASSUME LInv, NEW id \in granted, Current(id)
    PROVE  /\ id.node \in Nodes /\ bindings[id.node] \in Binding
           /\ bindings[id.node].gen = id.gen /\ bindings[id.node].topic = id.topic
           /\ bindings[id.node].status \notin {"absent", "retired"}
  BY CurrentIdentity DEF LInv, Live, Current

LEMMA PoolStartMints ==
    ASSUME LInv, NEW warm, NEW repairOnly, NEW continueOnError, NEW waiting,
           PoolStart(warm, repairOnly, continueOnError, waiting)
    PROVE  Mints
<1> DEFINE count == IF warm = NoWarm THEN 0 ELSE warm
           missing == (1..count) \ UsedSlots
<1>1. EnsurePoolSlots(count) /\ UNCHANGED worker
  BY DEF PoolStart
<1> HIDE DEF count
<1>2. PICK minted \in SUBSET {m \in Nodes : ~Minted(m)} :
        \E slotOf \in Bijection(minted, missing) :
          /\ bindings' = [n \in Nodes |-> IF n \in minted THEN PoolReserved(slotOf[n])
                                                          ELSE bindings[n]]
          /\ granted' = granted \cup {IdentityOf(n, PoolReserved(slotOf[n])) : n \in minted}
  BY <1>1 DEF EnsurePoolSlots
<1>3. PICK slotOf \in Bijection(minted, missing) :
          /\ bindings' = [n \in Nodes |-> IF n \in minted THEN PoolReserved(slotOf[n])
                                                          ELSE bindings[n]]
          /\ granted' = granted \cup {IdentityOf(n, PoolReserved(slotOf[n])) : n \in minted}
  BY <1>2
<1> HIDE DEF missing
<1>4. ASSUME NEW n \in minted
      PROVE  /\ n \in Nodes /\ bindings[n] = Absent
             /\ bindings'[n].status = "pool-reserved" /\ bindings'[n].gen = 1
             /\ bindings'[n].topic = NoTopic /\ bindings'[n].resources = NoResources
  <2> DEFINE s == slotOf[n]
  <2>1. bindings'[n] = PoolReserved(s)
    BY <1>3
  <2> HIDE DEF s
  <2>2. bindings[n] = Absent
    BY DEF LInv, IInv, MintedOnce
  <2> QED  BY <2>1, <2>2 DEF PoolReserved, NewRecord
<1>5. \A n \in Nodes \ minted : bindings'[n] = bindings[n]
  BY <1>3
<1>6. ASSUME NEW id \in granted', id \notin granted PROVE bindings'[id.node].topic = NoTopic
  <2>1. PICK n \in minted : id = IdentityOf(n, PoolReserved(slotOf[n]))
    BY <1>3, <1>6
  <2> QED  BY <1>4, <2>1 DEF IdentityOf
<1> QED  BY <1>1, <1>4, <1>5, <1>6 DEF Mints

LEMMA PoolEffects ==
    ASSUME LInv, NEW s \in flight[Pool].todo, PoolAct(s)
    PROVE  Quiet \/ WritesOn(Pool)
<1> USE DEF Quiet
<1>1. s.id \in granted /\ s.id.topic = NoTopic
  BY Holding, Names DEF Pending
<1> DEFINE n == s.id.node
           b == bindings[s.id.node]
<1>2. UNCHANGED worker
  BY DEF PoolAct, PoolRetires, PoolReconciles, PoolBootstraps
<1>3. CASE Fence(s.id)
  <2> DEFINE c == [b EXCEPT !.gen = b.gen + 1, !.status = "retiring"]
  <2>1. Current(s.id) /\ Write(n, c)
    BY <1>3 DEF Fence
  <2>2. RetiredAs(Pool, b, c)
    BY <1>1, <2>1, HeldBinding DEF RetiredAs
  <2> HIDE DEF c
  <2> QED  BY <1>1, <1>2, <2>1, <2>2, HeldBinding DEF WritesOn, Wrote
<1> DEFINE c == [b EXCEPT !.status = "pool-provisioning"]
<1>4. CASE BeginAvailableReconciliation(s.id)
  <2>1. Current(s.id) /\ Write(n, c) /\ b.status = "available"
    BY <1>4 DEF BeginAvailableReconciliation, CanReconcile
  <2>2. LoweredTo(Pool, n, b, c)
    BY <1>1, <2>1, HeldBinding DEF LoweredTo
  <2> HIDE DEF c
  <2> QED  BY <1>1, <1>2, <2>1, <2>2, HeldBinding DEF WritesOn, Wrote
<1>5. CASE UpdateStatus(s.id, "pool-provisioning") /\ s.was.status = "pool-reserved"
  <2>1. Current(s.id) /\ Write(n, c)
    BY <1>5 DEF UpdateStatus
  <2>2. LoweredTo(Pool, n, b, c)
    BY <1>1, <1>5, <2>1, HeldBinding DEF LoweredTo
  <2> HIDE DEF c
  <2> QED  BY <1>1, <1>2, <2>1, <2>2, HeldBinding DEF WritesOn, Wrote
<1>6. \/ UNCHANGED vars
      \/ Fence(s.id)
      \/ BeginAvailableReconciliation(s.id)
      \/ UpdateStatus(s.id, "pool-provisioning") /\ s.was.status = "pool-reserved"
  BY DEF PoolAct, PoolRetires, PoolReconciles, PoolBootstraps
<1> QED  BY <1>2, <1>3, <1>4, <1>5, <1>6

LEMMA SharedEffects ==
    ASSUME LInv, NEW f \in Flights, Shared(f)
    PROVE  Quiet \/ WritesOn(f) \/ CallsOn(f)
<1> USE DEF Quiet, Engaged, Making, Verifying, Recycling, Retiring
<1> DEFINE n == N(f)
           b == bindings[N(f)]
           patch(st) == [b EXCEPT !.status = st]
<1>0. ASSUME Id(f) \in granted, Current(Id(f))
      PROVE  /\ n \in Nodes /\ b \in Binding /\ b.gen = Id(f).gen /\ b.topic = Id(f).topic
             /\ b.status \notin {"absent", "retired"}
  BY <1>0, HeldBinding DEF N
<1>1. CASE RecordResources(f)
  <2>1. flight[f].pc = "record" /\ Id(f) \in granted /\ UNCHANGED worker
    BY <1>1, EngagedHolds DEF RecordResources, Transacts
  <2>2. ASSUME NEW r \in Resources, UpdateResources(Id(f), r) PROVE WritesOn(f)
    <3> DEFINE c == [b EXCEPT !.resources = r]
    <3>1. Write(n, c) /\ Current(Id(f))
      BY <2>2 DEF UpdateResources, N
    <3>2. RecordedAs(f, b, c)
      BY <1>0, <2>1, <3>1 DEF RecordedAs
    <3> HIDE DEF c
    <3> QED  BY <1>0, <2>1, <3>1, <3>2 DEF WritesOn, Wrote
  <2> QED  BY <1>1, <2>1, <2>2 DEF RecordResources, Transacts
<1>2. ASSUME NEW st, UpdateStatus(Id(f), st), UNCHANGED worker, Id(f) \in granted,
             Id(f).topic = NoTopic,
             \/ st = "available" /\ flight[f].pc = "publish"
             \/ st = "retired"
             \/ st = "pool-provisioning" /\ flight[f].pc = "demoting"
      PROVE  WritesOn(f)
  <2> DEFINE c == patch(st)
  <2>1. Write(n, c) /\ Current(Id(f)) /\ StatusGuard(Id(f), st)
    BY <1>2 DEF UpdateStatus, N
  <2>2. CASE st = "available" /\ flight[f].pc = "publish"
    <3>1. OfferedAs(f, b, c)
      BY <1>0, <1>2, <2>1, <2>2 DEF OfferedAs, StatusGuard, N
    <3> HIDE DEF c
    <3> QED  BY <1>0, <1>2, <2>1, <3>1 DEF WritesOn, Wrote
  <2>3. CASE st = "retired"
    <3>1. RetiredAs(f, b, c)
      BY <1>0, <1>2, <2>1, <2>3 DEF RetiredAs
    <3> HIDE DEF c
    <3> QED  BY <1>0, <1>2, <2>1, <3>1 DEF WritesOn, Wrote
  <2>4. CASE st = "pool-provisioning" /\ flight[f].pc = "demoting"
    <3>1. LoweredTo(f, n, b, c)
      BY <1>0, <1>2, <2>1, <2>4 DEF LoweredTo
    <3> HIDE DEF c
    <3> QED  BY <1>0, <1>2, <2>1, <3>1 DEF WritesOn, Wrote
  <2> QED  BY <1>2, <2>2, <2>3, <2>4
<1>3. CASE Publish(f)
  BY <1>2, <1>3, EngagedHolds DEF Publish, Transacts
<1>4. CASE LookUp(f) \/ Demote(f)
  BY <1>2, <1>4, EngagedHolds DEF LookUp, Demote
<1>5. CASE Release(f)
  BY <1>2, <1>5, EngagedHolds DEF Release, Transacts
<1>6. CASE Prove(f)
  BY <1>6, AwaitEffects DEF Prove
<1>7. CASE Call(f)
  BY <1>7, CallEffects
<1> QED  BY <1>1, <1>3, <1>4, <1>5, <1>6, <1>7 DEF Shared

LEMMA RetireEffects ==
    ASSUME LInv, NEW f \in Creators \cup Deleters, Retire(f)
    PROVE  Quiet \/ WritesOn(f) \/ CallsOn(f)
<1> USE DEF Quiet
<1> DEFINE n == N(f)
           b == bindings[N(f)]
<1>0. f \in Flights /\ f # Pool
  BY Names
<1>1. ASSUME Id(f) \in granted, Current(Id(f))
      PROVE  /\ n \in Nodes /\ b \in Binding /\ b.gen = Id(f).gen /\ b.topic = Id(f).topic
             /\ b.status \notin {"absent", "retired"}
  BY <1>1, HeldBinding DEF N
<1>2. CASE BeginRecycling(f)
  <2>1. /\ flight[f].pc = "recycle-begin" /\ Id(f) \in granted /\ Id(f).topic = f[2]
        /\ UNCHANGED worker
    BY <1>0, <1>2, EngagedHolds DEF BeginRecycling, Engaged, Serving
  <2>2. CASE BeginRecycle(Id(f))
    <3>1. Current(Id(f))
      BY <2>2 DEF BeginRecycle
    <3>2. PICK s \in 1..MaxSlot :
            Write(n, [b EXCEPT !.slot = s, !.inCluster = TRUE, !.gen = b.gen + 1,
                               !.topic = NoTopic, !.session = FALSE, !.status = "retiring"])
      BY <2>2 DEF BeginRecycle, N
    <3> DEFINE c == [b EXCEPT !.slot = s, !.inCluster = TRUE, !.gen = b.gen + 1,
                              !.topic = NoTopic, !.session = FALSE, !.status = "retiring"]
    <3>3. s \in Nat
      BY ConstantsAssumption
    <3>4. TakenFrom(f, b, c)
      BY <1>0, <1>1, <2>1, <3>1, <3>3 DEF TakenFrom
    <3>5. Write(n, c)
      BY <3>2
    <3> HIDE DEF c
    <3> QED  BY <1>0, <1>1, <2>1, <3>1, <3>4, <3>5 DEF WritesOn, Wrote
  <2> QED  BY <1>0, <1>2, <2>2 DEF BeginRecycling
<1>3. CASE Complete(f)
  <2>1. /\ flight[f].pc = "complete" /\ Id(f) \in granted /\ Id(f).topic = NoTopic
        /\ UNCHANGED worker
    BY <1>0, <1>3, EngagedHolds DEF Complete, Engaged, Recycling, Retiring
  <2>2. CASE CompleteRecycle(Id(f))
    <3> DEFINE c == [b EXCEPT !.status = "available"]
    <3>1. Current(Id(f)) /\ Write(n, c) /\ b.status = "retiring" /\ b.resources # NoResources
      BY <2>2 DEF CompleteRecycle, N
    <3>2. OfferedAs(f, b, c)
      BY <1>1, <2>1, <3>1 DEF OfferedAs
    <3> HIDE DEF c
    <3> QED  BY <1>0, <1>1, <2>1, <3>1, <3>2 DEF WritesOn, Wrote
  <2> QED  BY <1>0, <1>3, <2>2 DEF Complete
<1>4. CASE FenceOverflow(f)
  <2>1. Id(f) \in granted /\ Id(f).topic = NoTopic /\ UNCHANGED worker
    BY <1>0, <1>4, EngagedHolds DEF FenceOverflow, Transacts, Engaged, Recycling, Retiring
  <2>2. CASE Fence(Id(f))
    <3> DEFINE c == [b EXCEPT !.gen = b.gen + 1, !.status = "retiring"]
    <3>1. Current(Id(f)) /\ Write(n, c)
      BY <2>2 DEF Fence, N
    <3>2. RetiredAs(f, b, c)
      BY <1>1, <2>1, <3>1 DEF RetiredAs
    <3> HIDE DEF c
    <3> QED  BY <1>0, <1>1, <2>1, <3>1, <3>2 DEF WritesOn, Wrote
  <2> QED  BY <1>0, <1>4, <2>2 DEF FenceOverflow, Transacts
<1>5. CASE Locate(f) \/ Settle(f)
  BY <1>5 DEF Locate, Settle
<1>6. CASE Asleep(f)
  BY <1>0, <1>6, AwaitEffects DEF Asleep
<1> QED  BY <1>2, <1>3, <1>4, <1>5, <1>6 DEF Retire

(* A creation that finds no idle Worker starts the pool flight.            *)
StartsPool(f) ==
    \E repairOnly, continueOnError : PoolStart(NoWarm, repairOnly, continueOnError, {f})

LEMMA CreatorEffects ==
    ASSUME LInv, NEW f \in Creators, CreatorAct(f)
    PROVE  StartsPool(f) \/ Quiet \/ WritesOn(f) \/ CallsOn(f)
<1> USE DEF Quiet
<1> DEFINE n == N(f)
           b == bindings[N(f)]
<1>0. f \in Flights
  BY Names
<1>1. ASSUME Id(f) \in granted, Current(Id(f))
      PROVE  /\ n \in Nodes /\ b \in Binding /\ b.gen = Id(f).gen /\ b.topic = Id(f).topic
             /\ b.status \notin {"absent", "retired"}
  BY <1>1, HeldBinding DEF N
<1>2. CASE BootstrapOrJoin(f)
  <2>1. CASE PoolStart(NoWarm, flight[f].round = 1, flight[f].round = 2, {f})
    <3> DEFINE repairOnly == flight[f].round = 1
               continueOnError == flight[f].round = 2
    <3> HIDE DEF repairOnly, continueOnError
    <3>1. PoolStart(NoWarm, repairOnly, continueOnError, {f})
      BY <2>1 DEF repairOnly, continueOnError
    <3> QED  BY <3>1 DEF StartsPool
  <2> QED  BY <1>2, <2>1 DEF BootstrapOrJoin
<1>3. CASE Claim(f)
  <2>1. ASSUME NEW s \in flight[f].todo, BeginAvailableReconciliation(s.id) PROVE WritesOn(f)
    <3>1. s.id \in granted /\ s.id.topic = NoTopic
      BY <1>0, Holding DEF Pending
    <3> DEFINE d == bindings[s.id.node]
               c == [d EXCEPT !.status = "pool-provisioning"]
    <3>2. Current(s.id) /\ Write(s.id.node, c) /\ d.status = "available"
      BY <2>1 DEF BeginAvailableReconciliation, CanReconcile
    <3>3. LoweredTo(f, s.id.node, d, c)
      BY <3>1, <3>2, HeldBinding DEF LoweredTo
    <3>4. UNCHANGED worker
      BY <1>3 DEF Claim
    <3> HIDE DEF c
    <3> QED  BY <3>1, <3>2, <3>3, <3>4, HeldBinding DEF WritesOn, Wrote
  <2> QED  BY <1>3, <2>1 DEF Claim
<1>4. CASE BindTopic(f)
  <2>1. Id(f) \in granted /\ UNCHANGED worker
    BY <1>0, <1>4, EngagedHolds DEF BindTopic, Engaged
  <2>2. ASSUME NEW r \in Resources, ReservePrepared(f[2], Id(f), r) PROVE WritesOn(f)
    <3> DEFINE c == [b EXCEPT !.gen = b.gen + 1, !.topic = f[2], !.status = "reserved"]
    <3>1. /\ Current(Id(f)) /\ Write(n, c) /\ b.status = "available" /\ b.topic = NoTopic
      BY <2>2 DEF ReservePrepared, Bind, IdleInSlot, Bound, N
    <3>2. GivenTo(f, b, c)
      BY <3>1 DEF GivenTo
    <3> HIDE DEF c
    <3> QED  BY <1>1, <2>1, <3>1, <3>2 DEF WritesOn, Wrote
  <2> QED  BY <1>4, <2>1, <2>2 DEF BindTopic, TopicOf
<1>5. ASSUME flight[f].pc \in {"begin", "adopt", "activate", "fail"} PROVE
        /\ Id(f) \in granted /\ Id(f).topic = f[2]
        /\ Current(Id(f)) => b.topic = f[2] /\ b.gen = Id(f).gen
  <2>1. Id(f) \in granted /\ Id(f).topic = f[2]
    BY <1>0, <1>5, EngagedHolds DEF Engaged, Serving
  <2> QED  BY <1>1, <2>1
<1>6. CASE BeginPreparing(f)
  <2>1. flight[f].pc = "begin" /\ UNCHANGED worker
    BY <1>6 DEF BeginPreparing
  <2>2. CASE UpdateStatus(Id(f), "provisioning") /\ b.status # "ready"
    <3> DEFINE c == [b EXCEPT !.status = "provisioning"]
    <3>1. Current(Id(f)) /\ Write(n, c)
      BY <2>2 DEF UpdateStatus, N
    <3>2. PreparedAs(f, b, worker[n], c)
      BY <1>5, <2>1, <2>2, <3>1 DEF PreparedAs
    <3> HIDE DEF c
    <3> QED  BY <1>1, <1>5, <2>1, <3>1, <3>2 DEF WritesOn, Wrote
  <2> QED  BY <1>6, <2>1, <2>2 DEF BeginPreparing, Rec
<1>7. CASE AdoptSession(f)
  <2>1. flight[f].pc = "adopt" /\ UNCHANGED worker
    BY <1>7 DEF AdoptSession, Transacts
  <2>2. CASE UpdateSession(Id(f))
    <3> DEFINE c == [b EXCEPT !.session = TRUE]
    <3>1. Current(Id(f)) /\ Write(n, c)
      BY <2>2 DEF UpdateSession, N
    <3>2. PreparedAs(f, b, worker[n], c)
      BY <1>5, <2>1, <2>2, <3>1 DEF PreparedAs
    <3> HIDE DEF c
    <3> QED  BY <1>1, <1>5, <2>1, <3>1, <3>2 DEF WritesOn, Wrote
  <2> QED  BY <1>7, <2>1, <2>2 DEF AdoptSession, Transacts
<1>8. CASE Activate(f)
  <2>1. flight[f].pc = "activate" /\ UNCHANGED worker /\ Runs(Id(f))
    BY <1>8 DEF Activate, Transacts
  <2>2. CASE UpdateStatus(Id(f), "ready")
    <3> DEFINE c == [b EXCEPT !.status = "ready"]
    <3>1. Current(Id(f)) /\ Write(n, c)
      BY <2>2 DEF UpdateStatus, N
    <3>2. worker[n].installed = b.gen /\ ~worker[n].deleted
      BY <1>5, <2>1, <3>1 DEF Runs, N
    <3>3. PreparedAs(f, b, worker[n], c)
      BY <1>5, <2>1, <2>2, <3>1, <3>2 DEF PreparedAs
    <3> HIDE DEF c
    <3> QED  BY <1>1, <1>5, <2>1, <3>1, <3>3 DEF WritesOn, Wrote
  <2> QED  BY <1>8, <2>1, <2>2 DEF Activate, Transacts
<1>9. CASE RecordFailure(f)
  <2>1. flight[f].pc = "fail" /\ UNCHANGED worker
    BY <1>9 DEF RecordFailure
  <2>2. CASE UpdateStatus(Id(f), "failed")
    <3> DEFINE c == [b EXCEPT !.status = "failed"]
    <3>1. Current(Id(f)) /\ Write(n, c)
      BY <2>2 DEF UpdateStatus, N
    <3>2. PreparedAs(f, b, worker[n], c)
      BY <1>5, <2>1, <2>2, <3>1 DEF PreparedAs
    <3> HIDE DEF c
    <3> QED  BY <1>1, <1>5, <2>1, <3>1, <3>2 DEF WritesOn, Wrote
  <2> QED  BY <1>9, <2>1, <2>2 DEF RecordFailure
<1>10. CASE CreateSession(f)
  BY <1>10, SessionEffects
<1>11. CASE ListAvailable(f) \/ RetryCleanup(f) \/ Resume(f)
  BY <1>11 DEF ListAvailable, RetryCleanup, Resume
<1> QED  BY <1>2, <1>3, <1>4, <1>6, <1>7, <1>8, <1>9, <1>10, <1>11 DEF CreatorAct

-----------------------------------------------------------------------------
(* A step moves one flight; those it wakes wait for an idle Worker.        *)
Undisturbed(g) == flight'[g] = flight[g] \/ (g # Pool /\ flight'[g].pc \in Waiting)

Alone(f) == \A g \in Flights \ {f} : Undisturbed(g)

LEMMA GoAlone ==
    ASSUME LInv, NEW f \in Flights
    PROVE  /\ \A pc : Go(f, pc) => Alone(f)
           /\ \A pc, id : GoWith(f, pc, id) => Alone(f)
           /\ \A v : flight' = [flight EXCEPT ![f] = v] => Alone(f)
           /\ \A s, pc, id, boots : PoolTakes(s, pc, id, boots) => Alone(Pool)
           /\ PoolGoesOn => Alone(Pool)
<1>1. flight = [g \in Flights |-> flight[g]]
  BY DEF LInv, FlightsFit
<1>2. ASSUME NEW h, NEW v, flight' = [flight EXCEPT ![h] = v] PROVE Alone(h)
  BY <1>1, <1>2 DEF Alone, Undisturbed
<1> QED  BY <1>2 DEF Go, GoWith, PoolTakes, PoolGoesOn

LEMMA PoolEndsAlone ==
    ASSUME LInv, PoolEnds
    PROVE  Alone(Pool) /\ flight'[Pool] = Idle
<1>1. \A g \in Flights : flight[g] \in FlightState
  BY Holding
<1>2. \A g \in Flights \ {Pool} : \/ flight'[g] = flight[g]
                                  \/ flight'[g] = [flight[g] EXCEPT !.pc = "list"]
  BY DEF PoolEnds
<1>3. flight'[Pool] = Idle
  BY Names DEF PoolEnds
<1> QED  BY <1>1, <1>2, <1>3 DEF Alone, Undisturbed, FlightState, Waiting

LEMMA FailsAlone ==
    ASSUME LInv, NEW f \in Flights, flight[f].pc \in Failing, Fails(f)
    PROVE  Alone(f)
<1>1. f = Pool \/ f \in Creators \/ (f \in Deleters /\ flight[f].pc \in Retiring /\ f # Pool)
  BY Names, Holding DEF At, DeleterSteps, Failing, Engaged, Making, Verifying, Recycling,
                        Retiring, Serving
<1> QED  BY <1>1, GoAlone, PoolEndsAlone, Names DEF Fails

LEMMA PoolStartAlone ==
    ASSUME LInv, NEW warm, NEW repairOnly, NEW continueOnError, NEW waiting \in SUBSET Creators,
           PoolStart(warm, repairOnly, continueOnError, waiting)
    PROVE  Alone(Pool)
<1>1. \A g \in Flights : flight[g] \in FlightState
  BY Holding
<1>2. ASSUME NEW g \in Flights \ {Pool}
      PROVE  flight'[g] = flight[g] \/ flight'[g] = [flight[g] EXCEPT !.pc = "joined"]
  <2>1. flight'[g] = IF g \in waiting THEN [flight[g] EXCEPT !.pc = "joined"] ELSE flight[g]
    BY DEF PoolStart
  <2> QED  BY <2>1
<1> QED  BY <1>1, <1>2 DEF Alone, Undisturbed, FlightState, Waiting

LEMMA PoolAlone ==
    ASSUME LInv, \/ PoolFinishes \/ \E s \in flight[Pool].todo : PoolAct(s)
    PROVE  Alone(Pool)
  BY GoAlone, PoolEndsAlone, Names DEF PoolFinishes, PoolAct, PoolRetires, PoolReconciles, PoolBootstraps

LEMMA SharedAlone ==
    ASSUME LInv, NEW f \in Flights, Shared(f)
    PROVE  Alone(f)
<1>1. ASSUME Fails(f), flight[f].pc \in Failing PROVE Alone(f)
  BY <1>1, FailsAlone
<1>2. flight = [g \in Flights |-> flight[g]]
  BY DEF LInv, FlightsFit
<1>3. {"provision", "rebind", "reconcile", "recheck", "confirm", "recycle", "delete", "sleep",
       "prove", "session", "activate", "settle", "asleep", "record", "publish", "release"}
         \subseteq Failing
  BY DEF Failing, Engaged, Making, Verifying, Recycling, Retiring, Serving
<1>4. CASE RecordResources(f) \/ Prove(f) \/ Publish(f) \/ Release(f)
  BY <1>1, <1>3, <1>4, GoAlone DEF RecordResources, Prove, Publish, Release, Transacts, Retired
<1>5. CASE LookUp(f) \/ Demote(f)
  BY <1>5, GoAlone, PoolEndsAlone DEF LookUp, Demote, CatchEnds
<1>6. CASE Provision(f)
  BY <1>1, <1>2, <1>3, <1>6 DEF Provision, Answered, Alone, Undisturbed
<1>7. CASE Reconcile(f) \/ Sleep(f)
  BY <1>1, <1>2, <1>3, <1>7 DEF Reconcile, Sleep, Answered, Alone, Undisturbed
<1>8. CASE Recheck(f) \/ DeleteWorker(f) \/ Confirm(f)
  BY <1>1, <1>3, <1>8, GoAlone DEF Recheck, DeleteWorker, Confirm, Answered
<1>9. CASE Rebind(f) \/ Recycle(f)
  BY <1>1, <1>3, <1>9, GoAlone DEF Rebind, Recycle, Rotate, Answered
<1>10. CASE Unanswered(f)
  BY <1>1, <1>3, <1>10 DEF Unanswered
<1> QED  BY <1>4, <1>5, <1>6, <1>7, <1>8, <1>9, <1>10 DEF Shared, Call

LEMMA RetireAlone ==
    ASSUME LInv, NEW f \in Creators \cup Deleters, Retire(f)
    PROVE  Alone(f)
<1>1. f \in Flights
  BY Names
<1>2. ASSUME Fails(f), flight[f].pc \in {"recycle-begin", "complete", "overflow"} PROVE Alone(f)
  BY <1>1, <1>2, FailsAlone DEF Failing, Engaged, Recycling, Retiring, Serving
<1>3. CASE Locate(f) \/ Settle(f) \/ Asleep(f)
  BY <1>1, <1>3, GoAlone DEF Locate, Settle, Asleep, Retired
<1>4. CASE BeginRecycling(f)
  BY <1>1, <1>2, <1>4, GoAlone DEF BeginRecycling
<1>5. CASE Complete(f) \/ FenceOverflow(f)
  BY <1>1, <1>2, <1>5, GoAlone DEF Complete, FenceOverflow, Transacts
<1> QED  BY <1>3, <1>4, <1>5 DEF Retire

LEMMA CreatorAlone ==
    ASSUME LInv, NEW f \in Creators, CreatorAct(f)
    PROVE  StartsPool(f) \/ Alone(f)
<1>1. f \in Flights
  BY Names
<1>2. ASSUME Fails(f), flight[f].pc \in {"begin", "adopt", "activate", "session"} PROVE Alone(f)
  BY <1>1, <1>2, FailsAlone DEF Failing, Engaged, Serving
<1>3. CASE ListAvailable(f)
  BY <1>1, <1>3, GoAlone DEF ListAvailable
<1>4. CASE BootstrapOrJoin(f)
  <2>1. CASE PoolStart(NoWarm, flight[f].round = 1, flight[f].round = 2, {f})
    <3> DEFINE repairOnly == flight[f].round = 1
               continueOnError == flight[f].round = 2
    <3> HIDE DEF repairOnly, continueOnError
    <3>1. PoolStart(NoWarm, repairOnly, continueOnError, {f})
      BY <2>1 DEF repairOnly, continueOnError
    <3> QED  BY <3>1 DEF StartsPool
  <2> QED  BY <1>1, <1>4, <2>1, GoAlone DEF BootstrapOrJoin
<1>5. CASE Claim(f)
  BY <1>1, <1>5, GoAlone DEF Claim
<1>6. CASE BindTopic(f) \/ RecordFailure(f) \/ RetryCleanup(f) \/ Resume(f)
  BY <1>1, <1>6, GoAlone DEF BindTopic, RecordFailure, RetryCleanup, Resume
<1>7. CASE BeginPreparing(f) \/ CreateSession(f) \/ AdoptSession(f) \/ Activate(f)
  BY <1>1, <1>2, <1>7, GoAlone DEF BeginPreparing, CreateSession, AdoptSession, Activate, Transacts,
                                   Answered
<1> QED  BY <1>3, <1>4, <1>5, <1>6, <1>7 DEF CreatorAct

(* What one step does: it moves one flight, and what that flight changed.  *)
Effect(f) == Quiet \/ WritesOn(f) \/ CallsOn(f) \/ (f = Pool /\ Mints)

LEMMA Effects ==
    ASSUME LInv, LifecycleNext
    PROVE  Restart \/ \E f \in Flights : Alone(f) /\ Effect(f)
<1> USE DEF Effect
<1>1. ASSUME NEW warm, NEW repairOnly, NEW continueOnError, NEW waiting \in SUBSET Creators,
             PoolStart(warm, repairOnly, continueOnError, waiting)
      PROVE  Alone(Pool) /\ Effect(Pool)
  BY <1>1, PoolStartAlone, PoolStartMints
<1>2. ASSUME NEW warm \in WarmTargets, PoolStart(warm, FALSE, FALSE, {})
      PROVE  Alone(Pool) /\ Effect(Pool)
  <2> DEFINE no == FALSE
  <2> HIDE DEF no
  <2>1. PoolStart(warm, no, no, {})
    BY <1>2 DEF no
  <2> QED  BY <1>1, <2>1
<1>3. ASSUME NEW s \in flight[Pool].todo, PoolAct(s) PROVE Alone(Pool) /\ Effect(Pool)
  BY <1>3, PoolAlone, PoolEffects
<1>4. ASSUME PoolFinishes PROVE Alone(Pool) /\ Effect(Pool)
  BY <1>4, PoolAlone DEF PoolFinishes, Quiet
<1>5. ASSUME NEW f \in Flights, Shared(f) PROVE Alone(f) /\ Effect(f)
  BY <1>5, SharedAlone, SharedEffects
<1>6. ASSUME NEW f \in Creators \cup Deleters, Retire(f) PROVE Alone(f) /\ Effect(f)
  BY <1>6, RetireAlone, RetireEffects
<1>7. ASSUME NEW f \in Creators, CreatorAct(f) PROVE \E g \in Flights : Alone(g) /\ Effect(g)
  <2>1. CASE StartsPool(f)
    <3>1. {f} \in SUBSET Creators
      OBVIOUS
    <3> QED  BY <1>1, <2>1, <3>1, Names DEF StartsPool
  <2>2. CASE ~StartsPool(f)
    BY <1>7, <2>2, CreatorAlone, CreatorEffects, Names
  <2> QED  BY <2>1, <2>2
<1>8. ASSUME NEW f \in Flights, \/ \E t \in Topics : f = Creator(t) /\ Create(t)
                                \/ f \in Deleters /\ Delete(f)
      PROVE  Alone(f) /\ Effect(f)
  BY <1>8, GoAlone DEF Create, Delete, Quiet
<1> QED  BY <1>2, <1>3, <1>4, <1>5, <1>6, <1>7, <1>8, Actions, Names

-----------------------------------------------------------------------------
(* The pool flight only touches Workers that no Topic claimed.             *)

LEMMA PoolUnclaimed ==
    ASSUME LInv, flight[Pool].pc \in Engaged
    PROVE  Id(Pool) \in granted /\ Id(Pool).topic = NoTopic
<1>1. At(Pool, flight[Pool].pc, Id(Pool), granted) /\ Pool[2] = NoTopic
  BY Holding, Names
<1>2. flight[Pool].pc \in PoolSteps
  BY <1>1 DEF At
<1>3. flight[Pool].pc \in Making \cup Verifying \cup Recycling
  BY <1>2 DEF PoolSteps, Engaged, Recycling, Retiring, Making, Verifying, Serving
<1> QED  BY <1>1, <1>3 DEF At

LEMMA PoolLeavesBound ==
    ASSUME LInv, Effect(Pool), NEW n \in Nodes, Bound(n)
    PROVE  bindings'[n] = bindings[n] /\ worker'[n] = worker[n]
<1>1. CASE Quiet
  BY <1>1 DEF Quiet, vars
<1>2. CASE WritesOn(Pool)
  <2>1. PICK m, c : /\ m \in Nodes /\ UNCHANGED worker /\ Write(m, c)
                   /\ Wrote(Pool, m, bindings[m], worker[m], c)
    BY <1>2 DEF WritesOn
  <2>2. bindings[m].topic = NoTopic
    <3>1. CASE RecordedAs(Pool, bindings[m], c)
      BY <3>1, PoolUnclaimed DEF RecordedAs, Engaged, Making
    <3> QED  BY <2>1, <3>1, Names DEF Wrote, LoweredTo, RetiredAs, GivenTo, OfferedAs, PreparedAs, TakenFrom
  <2>3. bindings' = [bindings EXCEPT ![m] = c] /\ bindings \in [Nodes -> Binding]
    BY <2>1 DEF Write, LInv, IInv, TypeOK
  <2> QED  BY <2>1, <2>2, <2>3 DEF Bound
<1>3. CASE CallsOn(Pool)
  <2>1. PICK x : /\ UNCHANGED vars /\ N(Pool) \in Nodes /\ Id(Pool) \in granted
                 /\ worker' = [worker EXCEPT ![N(Pool)] = x]
                 /\ WorkerChange(Pool, bindings[N(Pool)], worker[N(Pool)], x)
    BY <1>3 DEF CallsOn
  <2>2. flight[Pool].pc \in Engaged /\ bindings[N(Pool)].gen = Id(Pool).gen
    BY <2>1, Names DEF WorkerChange, Installs, Inspected, Settled, Cleaned, Erased, Started, Engaged,
                       Making, Verifying, Recycling, Retiring, Serving
  <2>3. bindings[N(Pool)].topic = NoTopic
    BY <2>1, <2>2, PoolUnclaimed DEF LInv, IInv, IdentityFenced, N
  <2> QED  BY <2>1, <2>3 DEF Bound, vars, LInv
<1>4. CASE Mints
  <2>1. bindings[n] # Absent
    BY DEF Bound, Absent
  <2> QED  BY <1>4, <2>1 DEF Mints
<1> QED  BY <1>1, <1>2, <1>3, <1>4 DEF Effect

(* Reconciling the pool never disturbs a Topic, whatever the pool flight   *)
(* saw when it began.                                                      *)
THEOREM PoolNeverDisturbs == LifecycleSpec => PoolSparesTopics
<1> DEFINE Spared == flight'[Pool] # flight[Pool] /\ restarts' = restarts =>
        \A n \in Nodes : Bound(n) => bindings'[n] = bindings[n] /\ worker'[n] = worker[n]
<1>1. ASSUME LInv, [LifecycleNext]_allvars PROVE Spared
  <2>1. CASE UNCHANGED allvars
    BY <2>1 DEF allvars, lifecycle
  <2>2. CASE Restart
    <3>1. restarts' = restarts + 1
      BY <2>2 DEF Restart
    <3>2. restarts \in Nat
      BY <1>1 DEF LInv
    <3> QED  BY <3>1, <3>2
  <2>3. ASSUME NEW f \in Flights, Alone(f), Effect(f) PROVE Spared
    <3>1. CASE f = Pool
      BY <1>1, <2>3, <3>1, PoolLeavesBound
    <3>2. CASE f # Pool
      BY <2>3, <3>2, Names DEF Alone, Undisturbed
    <3> QED  BY <3>1, <3>2
  <2> HIDE DEF Spared
  <2> QED  BY <1>1, <2>1, <2>2, <2>3, Effects
<1>2. LInv /\ [LifecycleNext]_allvars => [Spared]_allvars
  BY <1>1
<1> QED  BY <1>2, FlightsConsistent, PTL DEF LifecycleSpec, PoolSparesTopics

-----------------------------------------------------------------------------
(* What the table and the boundary say of one Worker goes together.        *)

LEMMA Promised ==
    ASSUME PInv, NEW f \in Flights, flight[f].pc \in Engaged, bindings[N(f)].gen = Id(f).gen
    PROVE  /\ Id(f) \in granted /\ N(f) \in Nodes /\ bindings[N(f)] \in Binding
           /\ bindings[N(f)].topic = Id(f).topic /\ bindings[N(f)].status # "absent"
           /\ Id(f).topic = NoTopic => PoolPromise(f, flight[f], bindings[N(f)], worker[N(f)])
           /\ Id(f).topic # NoTopic => TopicPromise(f, flight[f], bindings[N(f)], worker[N(f)])
<1>1. Id(f) \in granted /\ N(f) \in Nodes
  BY EngagedHolds DEF PInv, LInv, IInv, TypeOK, Identity, N
<1>2. bindings[N(f)] \in Binding /\ bindings[N(f)].topic = Id(f).topic
  BY <1>1 DEF PInv, LInv, IInv, TypeOK, IdentityFenced, N
<1>3. bindings[N(f)].status # "absent"
  BY <1>1, <1>2 DEF PInv, LInv, IInv, MintedOnce, Minted, Absent
<1>4. Promise(f, flight[f], bindings, worker)
  BY DEF PInv
<1> QED  BY <1>1, <1>2, <1>3, <1>4 DEF Promise, OwnPromise, Id, N

LEMMA NodeFacts ==
    ASSUME PInv, NEW n \in Nodes
    PROVE  /\ bindings[n] \in Binding /\ worker[n] \in WorkerState
           /\ Matches(bindings[n], worker[n])
           /\ bindings[n].status # "absent" /\ bindings[n].topic = NoTopic =>
                bindings[n].status \in UnboundStatus /\ ~bindings[n].session
           /\ bindings[n].status = "absent" => bindings[n] = Absent
  BY DEF PInv, LInv, IInv, TypeOK, Readable, LegalUnbound, Minted, MintedOnce, Bound

LEMMA WrittenMatches ==
    ASSUME PInv, NEW f \in Flights, NEW n \in Nodes, NEW c,
           bindings[n].status \notin {"absent", "retired"},
           Wrote(f, n, bindings[n], worker[n], c)
    PROVE  Matches(c, worker[n])
<1> DEFINE b == bindings[n]
           w == worker[n]
<1>0. SUFFICES Matches(c, w)
  OBVIOUS
<1>1. /\ b \in Binding /\ w \in WorkerState /\ Matches(b, w)
      /\ b.topic = NoTopic => b.status \in UnboundStatus /\ ~b.session
      /\ b.status \notin {"absent", "retired"} /\ NoResources \notin Resources
  BY NodeFacts, ConstantsAssumption
<1>2. b.gen \in Nat /\ w.installed \in Nat
  BY <1>1 DEF Binding, WorkerState
<1>3. CASE LoweredTo(f, n, b, c)
  <2>1. b.status # "retiring"
    <3>1. ASSUME NEW s \in flight[Pool].todo, s.id.node = n, s.id.gen = b.gen,
                 s.was.status = "pool-reserved"
          PROVE  b.status # "retiring"
      BY <3>1, Names DEF PInv, Promise, TodoPromise, SnapshotPromise
    <3>2. ASSUME flight[f].pc = "demoting", n = N(f), b.gen = Id(f).gen
          PROVE  b.status # "retiring"
      <4>1. Id(f).topic = NoTopic /\ flight[f].pc \in Engaged
        BY <3>2, EngagedHolds DEF PInv, Engaged, Verifying
      <4> QED  BY <3>2, <4>1, Promised DEF PoolPromise, Verifying
    <3> QED  BY <1>3, <3>1, <3>2 DEF LoweredTo
  <2>2. /\ c.status = "pool-provisioning" /\ c.gen = b.gen /\ c.topic = NoTopic
    BY <1>1, <1>3 DEF LoweredTo, Binding
  <2> HIDE DEF b, w
  <2> QED  BY <1>1, <1>3, <2>1, <2>2 DEF LoweredTo, Matches
<1>4. CASE n = N(f) /\ OfferedAs(f, b, c)
  <2>1. PoolPromise(f, flight[f], b, w)
    BY <1>4, Promised DEF OfferedAs, Engaged, Verifying, Recycling, Retiring
  <2>2. /\ c.status = "available" /\ c.gen = b.gen /\ c.topic = NoTopic /\ c.resources = b.resources
        /\ b.topic = NoTopic /\ b.resources # NoResources
    BY <1>1, <1>4 DEF OfferedAs, Binding
  <2>3. CASE flight[f].pc = "publish"
    <3>1. b.status # "retiring"
      BY <2>1, <2>3 DEF PoolPromise, Verifying
    <3> HIDE DEF b, w
    <3> QED  BY <1>1, <2>2, <3>1 DEF Matches
  <2>4. CASE flight[f].pc = "complete" /\ b.status = "retiring"
    <3>1. w.installed = b.gen
      BY <2>1, <2>4 DEF PoolPromise
    <3> HIDE DEF b, w
    <3> QED  BY <1>1, <2>2, <2>4, <3>1 DEF Matches
  <2> QED  BY <1>4, <2>3, <2>4 DEF OfferedAs
<1>5. CASE RetiredAs(f, b, c)
  <2>1. /\ c.topic = NoTopic
        /\ \/ c.status = "retired" /\ c.gen = b.gen
           \/ c.status = "retiring" /\ c.gen = b.gen + 1
    BY <1>1, <1>5 DEF RetiredAs, Binding
  <2> HIDE DEF b, w
  <2> QED  BY <1>1, <1>2, <2>1 DEF Matches
<1>6. CASE RecordedAs(f, b, c)
  <2>1. /\ c.status = b.status /\ c.gen = b.gen /\ c.topic = b.topic /\ c.session = b.session
        /\ c.resources # NoResources
    BY <1>1, <1>6 DEF RecordedAs, Binding
  <2> HIDE DEF b, w
  <2> QED  BY <1>1, <2>1 DEF Matches
<1>7. CASE n = N(f) /\ PreparedAs(f, b, w, c)
  <2>1. TopicPromise(f, flight[f], b, w) /\ b.topic # NoTopic /\ f[2] = b.topic
    <3>1. flight[f].pc \in Engaged /\ b.gen = Id(f).gen /\ b.topic = f[2] /\ f[2] # NoTopic
      BY <1>7, Names DEF PreparedAs, Engaged, Serving
    <3> QED  BY <1>7, <3>1, Promised
  <2>2. \/ /\ c.status \in {"provisioning", "failed"}
           /\ c.gen = b.gen /\ c.topic = b.topic /\ c.session = b.session
        \/ /\ c.status = "ready" /\ w.installed = b.gen /\ ~w.deleted /\ b.session
           /\ c.gen = b.gen /\ c.topic = b.topic /\ c.session = b.session
        \/ /\ c.session /\ c.status = b.status /\ b.topic \in w.data /\ b.status # "reserved"
           /\ c.gen = b.gen /\ c.topic = b.topic
    <3>1. flight[f].pc = "activate" => b.session
      BY <2>1 DEF TopicPromise
    <3>2. flight[f].pc = "adopt" => b.topic \in w.data /\ b.status # "reserved"
      BY <2>1 DEF TopicPromise
    <3> QED  BY <1>1, <1>7, <3>1, <3>2 DEF PreparedAs, Binding
  <2> HIDE DEF b, w
  <2>3. w.installed \in {0, b.gen - 1, b.gen} /\ w.data \subseteq {b.topic} /\ w.installed <= b.gen
    BY <1>1, <2>1 DEF Matches
  <2> QED  BY <1>1, <2>1, <2>2, <2>3 DEF Matches
<1>8. CASE GivenTo(f, b, c)
  <2>1. /\ c.topic # NoTopic /\ c.gen = b.gen + 1 /\ c.status = "reserved" /\ ~c.session
        /\ b.topic = NoTopic /\ b.status = "available"
    BY <1>1, <1>8, Names DEF GivenTo, Binding
  <2> HIDE DEF b, w
  <2>2. w.installed \in {0, b.gen} /\ w.data = {}
    BY <1>1, <2>1 DEF Matches
  <2> QED  BY <1>1, <1>2, <2>1, <2>2 DEF Matches
<1>9. CASE TakenFrom(f, b, c)
  <2>1. /\ c.topic = NoTopic /\ c.gen = b.gen + 1 /\ c.status = "retiring"
    BY <1>1, <1>9 DEF TakenFrom, Binding
  <2> HIDE DEF b, w
  <2> QED  BY <1>1, <1>2, <2>1 DEF Matches
<1> QED  BY <1>3, <1>4, <1>5, <1>6, <1>7, <1>8, <1>9 DEF Wrote

LEMMA ChangedMatches ==
    ASSUME PInv, NEW f \in Flights, N(f) \in Nodes, Id(f) \in granted, NEW x,
           WorkerChange(f, bindings[N(f)], worker[N(f)], x)
    PROVE  Matches(bindings[N(f)], x)
<1> DEFINE b == bindings[N(f)]
           w == worker[N(f)]
<1>0. SUFFICES Matches(b, x)
  OBVIOUS
<1>1. /\ b \in Binding /\ w \in WorkerState /\ Matches(b, w)
      /\ b.status # "absent" /\ b.topic = NoTopic => b.status \in UnboundStatus /\ ~b.session
  BY NodeFacts
<1>2. b.gen \in Nat /\ w.installed \in Nat /\ Id(f).gen \in Nat /\ Id(f).gen >= 1
  BY <1>1 DEF Binding, WorkerState, PInv, LInv, IInv, TypeOK, Identity, MintedOnce
<1>3. CASE Installs(f, b, w, x)
  <2>1. /\ x.installed = b.gen /\ x.data = w.data /\ x.deleted = w.deleted
        /\ b.status \notin {"retiring", "retired"}
    BY <1>1, <1>2, <1>3, ChangeKeeps DEF Installs
  <2> HIDE DEF b, w
  <2> QED  BY <1>1, <1>2, <2>1 DEF Matches
<1>4. CASE ~Installs(f, b, w, x) /\ (Inspected(f, b, w, x) \/ Settled(f, b, w, x))
  <2>1. x.installed = w.installed /\ x.data = w.data /\ x.deleted = w.deleted
    BY <1>1, <1>2, <1>4, ChangeKeeps
  <2> HIDE DEF b, w
  <2> QED  BY <1>1, <2>1 DEF Matches
<1>5. CASE Cleaned(f, b, w, x)
  <2>1. /\ x.data = {} /\ x.deleted = w.deleted
        /\ x.installed \in {w.installed, b.gen} /\ b.gen = Id(f).gen
        /\ b.status = "provisioning" \/ b.status = "retiring"
    BY <1>1, <1>5 DEF Cleaned, Rotated, Sanitized, WorkerState
  <2>2. CASE flight[f].pc = "rebind" /\ b.status = "provisioning"
    <3>1. flight[f].pc \in Engaged /\ f[2] = Id(f).topic /\ b.topic = Id(f).topic
      BY <2>1, <2>2, Promised, EngagedHolds DEF Engaged, Serving, PInv
    <3>2. b.topic # NoTopic
      BY <1>1, <2>2 DEF UnboundStatus
    <3>3. ~b.session
      BY <2>1, <2>2, <3>1, <3>2, Promised DEF TopicPromise
    <3> HIDE DEF b, w
    <3> QED  BY <1>1, <1>2, <2>1, <2>2, <3>2, <3>3 DEF Matches
  <2>3. CASE b.status = "retiring"
    <3> HIDE DEF b, w
    <3> QED  BY <1>1, <1>2, <2>1, <2>3 DEF Matches
  <2> QED  BY <1>5, <2>2, <2>3 DEF Cleaned
<1>6. CASE Erased(f, b, w, x)
  <2>1. x.data = {} /\ x.installed = w.installed /\ b.status = "retiring"
    BY <1>1, <1>6 DEF Erased, WorkerState
  <2> HIDE DEF b, w
  <2> QED  BY <1>1, <2>1 DEF Matches
<1>7. CASE Started(f, w, x)
  <2>1. /\ x.data = w.data \cup {f[2]} /\ x.installed = w.installed /\ x.deleted = w.deleted
        /\ w.installed = Id(f).gen
    BY <1>1, <1>7 DEF Started, WorkerState
  <2>2. Id(f).topic = f[2] /\ f[2] # NoTopic
    BY <1>7, EngagedHolds, Names DEF Started, Serving, PInv
  <2>3. CASE Id(f).gen = b.gen
    <3>1. b.topic = f[2]
      BY <2>2, <2>3 DEF PInv, LInv, IInv, IdentityFenced, N
    <3> HIDE DEF b, w
    <3> QED  BY <1>1, <2>1, <2>2, <2>3, <3>1 DEF Matches
  <2>4. CASE Id(f).gen # b.gen
    <3>1. b.topic # NoTopic /\ b.gen = Id(f).gen + 1 => FALSE
      BY <2>2 DEF PInv, Lineage, Bound, N
    <3> HIDE DEF b, w
    <3>2. b.topic = NoTopic
      BY <1>1, <1>2, <2>1, <2>4, <3>1 DEF Matches
    <3>3. b.status \in {"retiring", "retired"}
      BY <1>1, <1>2, <2>1, <2>4, <3>2 DEF Matches
    <3> QED  BY <1>1, <1>2, <2>1, <2>4, <3>2, <3>3 DEF Matches
  <2> QED  BY <2>3, <2>4
<1> QED  BY <1>3, <1>4, <1>5, <1>6, <1>7 DEF WorkerChange

(* What a step of flight f does to one node: record b and Worker w become  *)
(* c and x.                                                                *)
Touches(f, n, b, w, c, x) ==
    \/ c = b /\ x = w
    \/ x = w /\ b.status \notin {"absent", "retired"} /\ Wrote(f, n, b, w, c)
    \/ c = b /\ n = N(f) /\ Id(f) \in granted /\ WorkerChange(f, b, w, x)
    \/ /\ b = Absent /\ x = w
       /\ c.status = "pool-reserved" /\ c.gen = 1 /\ c.topic = NoTopic /\ c.resources = NoResources

LEMMA Touched ==
    ASSUME LInv, NEW f \in Flights, Effect(f), NEW n \in Nodes
    PROVE  Touches(f, n, bindings[n], worker[n], bindings'[n], worker'[n])
<1>1. bindings = [m \in Nodes |-> bindings[m]] /\ worker = [m \in Nodes |-> worker[m]]
  BY DEF LInv, IInv, TypeOK
<1>2. CASE Quiet
  BY <1>2 DEF Quiet, vars, Touches
<1>3. CASE WritesOn(f)
  <2>1. PICK m, c : /\ m \in Nodes /\ UNCHANGED worker /\ Write(m, c)
                   /\ bindings[m].status \notin {"absent", "retired"}
                   /\ Wrote(f, m, bindings[m], worker[m], c)
    BY <1>3 DEF WritesOn
  <2>2. bindings'[n] = IF n = m THEN c ELSE bindings[n]
    BY <1>1, <2>1 DEF Write
  <2> QED  BY <2>1, <2>2 DEF Touches
<1>4. CASE CallsOn(f)
  <2>1. PICK x : /\ UNCHANGED vars /\ N(f) \in Nodes /\ Id(f) \in granted
                 /\ worker' = [worker EXCEPT ![N(f)] = x]
                 /\ WorkerChange(f, bindings[N(f)], worker[N(f)], x)
    BY <1>4 DEF CallsOn
  <2>2. /\ bindings'[n] = bindings[n]
        /\ worker'[n] = IF n = N(f) THEN x ELSE worker[n]
    BY <1>1, <2>1 DEF vars
  <2> QED  BY <2>1, <2>2 DEF Touches
<1>5. CASE Mints
  BY <1>5 DEF Mints, Touches
<1> QED  BY <1>2, <1>3, <1>4, <1>5 DEF Effect

LEMMA MatchesKept ==
    ASSUME PInv, [LifecycleNext]_allvars, NEW n \in Nodes
    PROVE  Matches(bindings'[n], worker'[n])
<1>1. bindings[n] \in Binding /\ worker[n] \in WorkerState /\ Matches(bindings[n], worker[n]) /\ LInv
  BY NodeFacts DEF PInv
<1>2. CASE UNCHANGED allvars
  BY <1>1, <1>2 DEF allvars, vars, lifecycle
<1>3. CASE Restart
  <2>1. PICK upgrade \in BOOLEAN :
          worker' = [m \in Nodes |-> [worker[m] EXCEPT !.verified = 0,
                       !.outdated = IF upgrade THEN worker[m].installed # 0 ELSE @]]
    BY <1>3 DEF Restart
  <2>2. /\ worker'[n].installed = worker[n].installed /\ worker'[n].data = worker[n].data
        /\ worker'[n].deleted = worker[n].deleted /\ bindings'[n] = bindings[n]
    BY <1>1, <1>3, <2>1 DEF WorkerState, Restart, vars
  <2> QED  BY <1>1, <2>2 DEF Matches
<1>4. ASSUME NEW f \in Flights, Effect(f) PROVE Matches(bindings'[n], worker'[n])
  <2>1. Touches(f, n, bindings[n], worker[n], bindings'[n], worker'[n])
    BY <1>1, <1>4, Touched
  <2>2. CASE bindings[n] = Absent /\ worker'[n] = worker[n] /\ bindings'[n].status = "pool-reserved"
             /\ bindings'[n].gen = 1 /\ bindings'[n].topic = NoTopic
    <3>1. worker[n].installed = 0 /\ worker[n].data = {}
      BY <1>1, <2>2 DEF Matches, Absent
    <3> QED  BY <2>2, <3>1 DEF Matches
  <2> QED  BY <1>1, <2>1, <2>2, WrittenMatches, ChangedMatches DEF Touches
<1> QED  BY <1>1, <1>2, <1>3, <1>4, Effects

LEMMA LineageKept ==
    ASSUME PInv, [LifecycleNext]_allvars
    PROVE  Lineage'
<1>1. LInv /\ Lineage /\ LInv'
  BY LInvKept DEF PInv
<1> SUFFICES ASSUME NEW id \in granted', bindings'[id.node].topic # NoTopic,
                    bindings'[id.node].gen = id.gen + 1
             PROVE  id.topic = NoTopic
  BY DEF Lineage, Bound
<1>2. id.node \in Nodes
  BY <1>1 DEF LInv, IInv, TypeOK, Identity
<1>3. CASE UNCHANGED vars
  BY <1>1, <1>3 DEF vars, Lineage, Bound
<1>4. ASSUME NEW f \in Flights, WritesOn(f) PROVE id.topic = NoTopic
  <2>1. PICK m, c : m \in Nodes /\ Write(m, c) /\ Wrote(f, m, bindings[m], worker[m], c)
    BY <1>4 DEF WritesOn
  <2>2. /\ bindings'[id.node] = IF id.node = m THEN c ELSE bindings[id.node]
        /\ granted' = granted \cup {IdentityOf(m, c)} /\ bindings[m] \in Binding
    BY <1>1, <1>2, <2>1 DEF Write, LInv, IInv, TypeOK
  <2>3. id \in granted
    <3>1. id.gen \in Nat
      BY <1>1 DEF LInv, IInv, TypeOK, Identity
    <3> QED  BY <2>2, <3>1 DEF IdentityOf
  <2>4. CASE id.node # m
    BY <1>1, <2>2, <2>3, <2>4 DEF Lineage, Bound
  <2>5. CASE id.node = m
    <3>1. \/ c.gen = bindings[m].gen /\ c.topic = bindings[m].topic
          \/ c.gen = bindings[m].gen + 1 /\ c.topic = NoTopic
          \/ c.gen = bindings[m].gen + 1 /\ bindings[m].topic = NoTopic
      BY <2>1, <2>2 DEF Wrote, LoweredTo, RetiredAs, GivenTo, OfferedAs, RecordedAs, PreparedAs,
                        TakenFrom, Binding
    <3>2. CASE c.gen = bindings[m].gen /\ c.topic = bindings[m].topic
      BY <1>1, <2>2, <2>3, <2>5, <3>2 DEF Lineage, Bound
    <3>3. CASE c.gen = bindings[m].gen + 1 /\ bindings[m].topic = NoTopic
      <4>1. id.gen = bindings[m].gen
        <5>1. id.gen \in Nat /\ bindings[m].gen \in Nat
          BY <1>1, <2>2 DEF LInv, IInv, TypeOK, Identity, Binding
        <5>2. id.gen + 1 = bindings[m].gen + 1
          BY <2>2, <2>5, <3>3
        <5> QED  BY <5>1, <5>2
      <4> QED  BY <1>1, <2>3, <2>5, <3>3, <4>1 DEF LInv, IInv, IdentityFenced
    <3> QED  BY <2>2, <2>5, <3>1, <3>2, <3>3
  <2> QED  BY <2>4, <2>5
<1>5. CASE Mints
  <2>1. id \in granted
    BY <1>5 DEF Mints
  <2>2. bindings'[id.node] = bindings[id.node]
    BY <1>2, <1>5 DEF Mints
  <2> QED  BY <1>1, <2>1, <2>2 DEF Lineage, Bound
<1>6. Restart \/ UNCHANGED allvars => UNCHANGED vars
  BY DEF Restart, allvars
<1>7. ASSUME NEW f \in Flights, Effect(f) PROVE id.topic = NoTopic
  BY <1>3, <1>4, <1>5, <1>7 DEF Effect, Quiet, CallsOn
<1> QED  BY <1>1, <1>3, <1>6, <1>7, Effects

-----------------------------------------------------------------------------
(* What one flight relies on survives the steps of the others.             *)

(* Two flights that hold the same current identity are at different work.  *)
LEMMA Sole ==
    ASSUME LInv, NEW f \in Flights, NEW g \in Flights
    PROVE  /\ ( /\ flight[f].pc \in {"provision", "record"} /\ Id(f).topic = NoTopic
                /\ flight[g].pc \in {"provision", "record"} /\ Id(g).topic = NoTopic ) => f = g
           /\ ( /\ flight[f].pc = "rebind" \/ f \in Creators
                /\ flight[g].pc \in (Making \cup Serving) \ {"recycle-begin"}
                /\ Id(g).topic # NoTopic /\ f[2] = g[2] ) => f = g
           /\ flight[g].pc \in Making \cup Serving /\ Id(g).topic # NoTopic => Id(g).topic = g[2]
<1>1. /\ At(f, flight[f].pc, Id(f), granted) /\ At(g, flight[g].pc, Id(g), granted)
      /\ Pool[2] = NoTopic
  BY Holding, Names
<1>2. ASSUME flight[f].pc \in {"provision", "record"}, Id(f).topic = NoTopic,
             flight[g].pc \in {"provision", "record"}, Id(g).topic = NoTopic
      PROVE  f = g
  BY <1>1, <1>2, Names DEF At, DeleterSteps, Retiring
<1>3. ASSUME flight[g].pc \in Making \cup Serving, Id(g).topic # NoTopic PROVE Id(g).topic = g[2]
  BY <1>1, <1>3 DEF At
<1>4. ASSUME flight[g].pc \in (Making \cup Serving) \ {"recycle-begin"}, Id(g).topic # NoTopic
      PROVE  g \in Creators
  <2>1. g # Pool
    BY <1>1, <1>3, <1>4
  <2>2. g \notin Deleters
    BY <1>1, <1>4 DEF At, DeleterSteps, Retiring, Making, Serving
  <2> QED  BY <2>1, <2>2, Names
<1>5. ASSUME flight[f].pc = "rebind" PROVE f \in Creators
  BY <1>1, <1>5, Names DEF At, PoolSteps, DeleterSteps, Making, Verifying, Retiring
<1>6. ASSUME flight[f].pc = "rebind" \/ f \in Creators,
             flight[g].pc \in (Making \cup Serving) \ {"recycle-begin"}, Id(g).topic # NoTopic,
             f[2] = g[2]
      PROVE  f = g
  BY <1>4, <1>5, <1>6, Names
<1> QED  BY <1>2, <1>3, <1>6

LEMMA PoolPromiseKept ==
    ASSUME PInv, NEW f \in Flights, NEW g \in Flights, f # g,
           flight[g].pc \in Engaged, bindings[N(g)].gen = Id(g).gen, Id(g).topic = NoTopic,
           NEW c, NEW x, c.gen = bindings[N(g)].gen,
           Touches(f, N(g), bindings[N(g)], worker[N(g)], c, x)
    PROVE  PoolPromise(g, flight[g], c, x)
<1> DEFINE v == flight[g]
           n == N(g)
           b == bindings[N(g)]
           w == worker[N(g)]
<1>0. LInv /\ Touches(f, n, b, w, c, x) /\ c.gen = b.gen
  BY DEF PInv
<1> SUFFICES PoolPromise(g, v, c, x)
  OBVIOUS
<1>1. /\ n \in Nodes /\ b \in Binding /\ w \in WorkerState /\ b.topic = NoTopic
      /\ b.status \in UnboundStatus
      /\ PoolPromise(g, v, b, w)
  BY Promised, NodeFacts
<1> HIDE DEF b, w, v, n
<1>2. b.gen \in Nat /\ NoResources \notin Resources
  BY <1>1, ConstantsAssumption DEF Binding
<1>3. CASE x = w /\ Wrote(f, n, b, w, c)
  <2>1. /\ c.status = "retiring" => b.status = "retiring"
        /\ b.resources # NoResources => c.resources # NoResources
        /\ v.pc = "provision" => c.resources = b.resources
    <3>1. CASE n = N(f) /\ RecordedAs(f, b, c)
      <4>1. flight[f].pc = "record" /\ Id(f).topic = NoTopic
        BY <1>1, <3>1 DEF RecordedAs
      <4>2. v.pc # "provision"
        BY <1>0, <4>1, Sole DEF v
      <4> QED  BY <1>1, <1>2, <3>1, <4>2 DEF RecordedAs, Binding
    <3>2. CASE LoweredTo(f, n, b, c) \/ OfferedAs(f, b, c)
      BY <1>1, <3>2 DEF LoweredTo, OfferedAs, Binding
    <3>0. c.gen # b.gen + 1
      BY <1>0, <1>2
    <3>3. CASE RetiredAs(f, b, c)
      BY <1>1, <3>0, <3>3 DEF RetiredAs, Binding
    <3>4. ~GivenTo(f, b, c) /\ ~TakenFrom(f, b, c)
      BY <1>1, <3>0 DEF GivenTo, TakenFrom, Binding
    <3>5. ~PreparedAs(f, b, w, c)
      BY <1>1, Names DEF PreparedAs
    <3> QED  BY <1>3, <3>1, <3>2, <3>3, <3>4, <3>5 DEF Wrote
  <2>2. PoolPromise(g, v, c, w)
    BY <1>0, <1>1, <2>1 DEF PoolPromise
  <2> QED  BY <1>3, <2>2
<1>4. CASE c = b /\ n = N(f) /\ Id(f) \in granted /\ WorkerChange(f, b, w, x)
  <2>1. /\ x.outdated => w.outdated
        /\ x.outdated /\ x.sleep = "entering" => w.sleep = "entering"
        /\ w.installed = b.gen => x.installed = b.gen
    <3>0. Id(f).gen \in Nat
      BY <1>0, <1>4 DEF LInv, IInv, TypeOK, Identity
    <3>1. CASE Installs(f, b, w, x)
      BY <1>1, <3>0, <3>1, ChangeKeeps DEF Installs
    <3>2. CASE ~Installs(f, b, w, x) /\ (Inspected(f, b, w, x) \/ Settled(f, b, w, x))
      BY <1>1, <3>0, <3>2, ChangeKeeps
    <3>3. CASE Cleaned(f, b, w, x)
      BY <1>1, <3>3 DEF Cleaned, Rotated, Sanitized, WorkerState
    <3>4. CASE Erased(f, b, w, x) \/ Started(f, w, x)
      BY <1>1, <3>4 DEF Erased, Started, WorkerState
    <3> QED  BY <1>4, <3>1, <3>2, <3>3, <3>4 DEF WorkerChange
  <2>6. PoolPromise(g, v, b, x)
    BY <1>1, <2>1 DEF PoolPromise
  <2> QED  BY <1>4, <2>6
<1>5. b # Absent
  BY <1>1 DEF Absent, UnboundStatus
<1> QED  BY <1>0, <1>1, <1>3, <1>4, <1>5 DEF Touches

LEMMA TopicPromiseKept ==
    ASSUME PInv, NEW f \in Flights, NEW g \in Flights, f # g,
           flight[g].pc \in Engaged, bindings[N(g)].gen = Id(g).gen, Id(g).topic # NoTopic,
           NEW c, NEW x, c.gen = bindings[N(g)].gen,
           Touches(f, N(g), bindings[N(g)], worker[N(g)], c, x)
    PROVE  TopicPromise(g, flight[g], c, x)
<1> DEFINE v == flight[g]
           n == N(g)
           b == bindings[N(g)]
           w == worker[N(g)]
<1>0. LInv /\ Touches(f, n, b, w, c, x) /\ c.gen = b.gen
  BY DEF PInv
<1> SUFFICES TopicPromise(g, v, c, x)
  OBVIOUS
<1>1. /\ n \in Nodes /\ b \in Binding /\ w \in WorkerState /\ b.topic = Id(g).topic
      /\ b.status \in {"reserved", "provisioning", "ready", "failed"}
      /\ TopicPromise(g, v, b, w)
  BY Promised, NodeFacts DEF Matches
<1> DEFINE Promising == (Making \cup Serving) \ {"recycle-begin"}
<1>2. CASE v.pc \notin Promising
  BY <1>2 DEF TopicPromise, Serving, Making
<1>3. CASE v.pc \in Promising
  <2>1. b.topic = g[2] /\ b.topic # NoTopic
    BY <1>0, <1>1, <1>3, Sole
  <2>0. Id(g).topic # NoTopic
    OBVIOUS
  <2>2. ASSUME flight[f].pc = "rebind" \/ f \in Creators, f[2] = b.topic PROVE FALSE
    BY <1>0, <1>3, <2>0, <2>1, <2>2, Sole
  <2> HIDE DEF b, w, v, n, Promising
  <2>3. b.gen \in Nat /\ c.gen # b.gen + 1
    BY <1>0, <1>1 DEF Binding
  <2>4. CASE x = w /\ Wrote(f, n, b, w, c)
    <3>1. ~LoweredTo(f, n, b, c) /\ ~OfferedAs(f, b, c) /\ ~RetiredAs(f, b, c) /\ ~GivenTo(f, b, c)
      BY <2>1 DEF LoweredTo, OfferedAs, RetiredAs, GivenTo
    <3>2. ~TakenFrom(f, b, c)
      BY <1>1, <2>3 DEF TakenFrom, Binding
    <3>3. ~PreparedAs(f, b, w, c)
      BY <2>2 DEF PreparedAs
    <3>4. c.status = b.status /\ c.session = b.session
      BY <1>1, <2>4, <3>1, <3>2, <3>3 DEF Wrote, RecordedAs, Binding
    <3> QED  BY <1>1, <2>4, <3>4 DEF TopicPromise
  <2>5. CASE c = b /\ n = N(f) /\ Id(f) \in granted /\ WorkerChange(f, b, w, x)
    <3>1. w.data \subseteq x.data
      <4>0. Id(f).gen \in Nat
        BY <1>0, <2>5 DEF LInv, IInv, TypeOK, Identity
      <4>1. CASE Installs(f, b, w, x) \/ Inspected(f, b, w, x) \/ Settled(f, b, w, x)
        BY <1>1, <4>0, <4>1, ChangeKeeps
      <4>4. CASE Started(f, w, x)
        BY <1>1, <4>4 DEF Started, WorkerState
      <4>2. ~Cleaned(f, b, w, x)
        <5>1. SUFFICES ASSUME b.gen = Id(f).gen, flight[f].pc = "rebind" PROVE FALSE
          BY <1>1 DEF Cleaned
        <5>2. Id(f).topic = b.topic
          BY <2>5, <5>1 DEF PInv, LInv, IInv, IdentityFenced, N, b, n
        <5>3. Id(f).topic = f[2]
          BY <1>0, <5>1, EngagedHolds DEF Serving
        <5> QED  BY <2>2, <5>1, <5>2, <5>3
      <4>3. ~Erased(f, b, w, x)
        BY <1>1 DEF Erased
      <4> QED  BY <2>5, <4>1, <4>2, <4>3, <4>4 DEF WorkerChange
    <3> QED  BY <1>1, <2>5, <3>1 DEF TopicPromise
  <2>6. b # Absent
    BY <1>1 DEF Absent
  <2> QED  BY <1>0, <1>1, <2>4, <2>5, <2>6 DEF Touches
<1> QED  BY <1>2, <1>3

LEMMA SnapshotPromiseKept ==
    ASSUME PInv, NEW f \in Flights, NEW s \in flight[Pool].todo,
           bindings[s.id.node].gen = s.id.gen, NEW c, NEW x, c.gen = bindings[s.id.node].gen,
           Touches(f, s.id.node, bindings[s.id.node], worker[s.id.node], c, x)
    PROVE  SnapshotPromise(s, c)
<1> DEFINE n == s.id.node
           b == bindings[s.id.node]
           w == worker[s.id.node]
<1>0. LInv /\ Touches(f, n, b, w, c, x) /\ c.gen = b.gen
  BY DEF PInv
<1>1. s.id \in granted /\ s.id.topic = NoTopic /\ s.id.gen >= 1
  BY <1>0, Holding, Names DEF Pending, LInv, IInv, MintedOnce
<1>2. n \in Nodes /\ b \in Binding /\ b.topic = NoTopic /\ SnapshotPromise(s, b)
  BY <1>1, Names DEF PInv, LInv, IInv, TypeOK, Identity, IdentityFenced, Promise, TodoPromise
<1>3. b # Absent
  BY <1>1 DEF Absent
<1>4. ~(n = N(f) /\ RecordedAs(f, b, c))
  <2>1. SUFFICES ASSUME n = N(f), flight[f].pc = "record", Id(f).topic = NoTopic PROVE FALSE
    BY <1>2 DEF RecordedAs
  <2>2. f = Pool
    BY <1>0, <2>1, Holding, Names DEF At, DeleterSteps, Retiring
  <2> QED  BY <1>0, <2>1, <2>2, Holding DEF Pending, N, Id
<1> HIDE DEF b, w, n
<1>5. b.gen \in Nat /\ c.gen # b.gen + 1
  BY <1>0, <1>2 DEF Binding
<1>6. CASE Wrote(f, n, b, w, c)
  <2>1. ~GivenTo(f, b, c) /\ ~TakenFrom(f, b, c)
    BY <1>2, <1>5 DEF GivenTo, TakenFrom, Binding
  <2>2. ~PreparedAs(f, b, w, c)
    BY <1>2, Names DEF PreparedAs
  <2>3. CASE RetiredAs(f, b, c)
    BY <1>2, <1>5, <2>3 DEF RetiredAs, Binding, SnapshotPromise
  <2>4. CASE LoweredTo(f, n, b, c) \/ OfferedAs(f, b, c)
    BY <1>2, <2>4 DEF LoweredTo, OfferedAs, Binding, SnapshotPromise
  <2> QED  BY <1>4, <1>6, <2>1, <2>2, <2>3, <2>4 DEF Wrote
<1> QED  BY <1>0, <1>2, <1>3, <1>6 DEF Touches

(* An identity that is current after a step was current before it.         *)
LEMMA StaysCurrent ==
    ASSUME LInv, NEW f \in Flights, Effect(f), NEW id \in granted, bindings'[id.node].gen = id.gen
    PROVE  bindings[id.node].gen = id.gen /\ id.node \in Nodes
<1> DEFINE n == id.node
<1>1. /\ n \in Nodes /\ id.gen \in Nat /\ id.gen >= 1 /\ id.gen <= bindings[n].gen
      /\ bindings[n] \in Binding
  BY DEF LInv, IInv, TypeOK, Identity, IdentityFenced, MintedOnce
<1>2. Touches(f, n, bindings[n], worker[n], bindings'[n], worker'[n])
  BY <1>1, Touched
<1>3. bindings[n] # Absent
  BY <1>1 DEF Absent
<1>4. bindings'[n].gen = bindings[n].gen \/ bindings'[n].gen = bindings[n].gen + 1
  BY <1>1, <1>2, <1>3 DEF Touches, Wrote, LoweredTo, RetiredAs, GivenTo, OfferedAs, RecordedAs,
                          PreparedAs, TakenFrom, Binding
<1>5. bindings[n].gen \in Nat
  BY <1>1 DEF Binding
<1> HIDE DEF n
<1>6. bindings'[n].gen = id.gen
  BY DEF n
<1>7. bindings[n].gen = id.gen
  BY <1>1, <1>4, <1>5, <1>6
<1> QED  BY <1>1, <1>7 DEF n

LEMMA TodoKept ==
    ASSUME PInv, NEW f \in Flights, Effect(f), NEW v, v.todo \subseteq flight[Pool].todo
    PROVE  TodoPromise(v, bindings')
<1> SUFFICES ASSUME NEW s \in flight[Pool].todo, bindings'[s.id.node].gen = s.id.gen
             PROVE  SnapshotPromise(s, bindings'[s.id.node])
  BY DEF TodoPromise
<1>1. LInv /\ s.id \in granted
  BY Holding, Names DEF PInv, Pending
<1>2. bindings[s.id.node].gen = s.id.gen /\ s.id.node \in Nodes
  BY <1>1, StaysCurrent
<1>3. Touches(f, s.id.node, bindings[s.id.node], worker[s.id.node], bindings'[s.id.node], worker'[s.id.node])
  BY <1>1, <1>2, Touched
<1> QED  BY <1>2, <1>3, SnapshotPromiseKept

LEMMA OthersKeepPromise ==
    ASSUME PInv, NEW f \in Flights, Effect(f), Alone(f), NEW g \in Flights \ {f}
    PROVE  Promise(g, flight'[g], bindings', worker')
<1>1. LInv /\ Undisturbed(g)
  BY DEF PInv, Alone
<1>2. CASE g # Pool /\ flight'[g].pc \in Waiting
  <2>1. flight'[g].pc \notin Engaged
    BY <1>2 DEF Waiting, Engaged, Making, Verifying, Recycling, Retiring, Serving
  <2> QED  BY <1>2, <2>1 DEF Promise, OwnPromise
<1>3. CASE flight'[g] = flight[g]
  <2>1. ASSUME flight[g].pc \in Engaged, bindings'[N(g)].gen = Id(g).gen
        PROVE  /\ Id(g).topic = NoTopic => PoolPromise(g, flight[g], bindings'[N(g)], worker'[N(g)])
               /\ Id(g).topic # NoTopic => TopicPromise(g, flight[g], bindings'[N(g)], worker'[N(g)])
    <3>1. Id(g) \in granted
      BY <1>1, <2>1, EngagedHolds
    <3>2. bindings[N(g)].gen = Id(g).gen /\ N(g) \in Nodes
      BY <1>1, <2>1, <3>1, StaysCurrent DEF N
    <3>3. Touches(f, N(g), bindings[N(g)], worker[N(g)], bindings'[N(g)], worker'[N(g)])
      BY <1>1, <3>2, Touched
    <3>4. bindings'[N(g)].gen = bindings[N(g)].gen
      BY <2>1, <3>2
    <3> QED  BY <2>1, <3>2, <3>3, <3>4, PoolPromiseKept, TopicPromiseKept
  <2>2. OwnPromise(g, flight'[g], bindings', worker')
    BY <1>3, <2>1 DEF OwnPromise, Id, N
  <2>3. g = Pool => TodoPromise(flight'[g], bindings')
    BY <1>3, TodoKept
  <2> QED  BY <2>2, <2>3 DEF Promise
<1> QED  BY <1>1, <1>2, <1>3 DEF Undisturbed

-----------------------------------------------------------------------------
(* What a flight relies on after its own step.                             *)
Moved(f) ==
    /\ OwnPromise(f, flight'[f], bindings', worker')
    /\ f = Pool => flight'[f].todo \subseteq flight[f].todo

Relying == Making \cup Verifying \cup {"rebind", "session", "adopt", "activate", "confirm", "complete"}

LEMMA NoPromise ==
    ASSUME NEW f, NEW v, NEW B, NEW W, v.pc \notin Relying, v.pc \in Retiring => ~v.boots
    PROVE  OwnPromise(f, v, B, W)
  BY DEF OwnPromise, PoolPromise, TopicPromise, Relying, Making, Verifying

LEMMA Went ==
    ASSUME LInv, NEW f \in Flights, NEW pc
    PROVE  /\ Go(f, pc) => /\ flight'[f].pc = pc /\ flight'[f].id = Id(f)
                           /\ flight'[f].updated = flight[f].updated
                           /\ flight'[f].boots = flight[f].boots
                           /\ flight'[f].todo = flight[f].todo
           /\ \A id : GoWith(f, pc, id) => /\ flight'[f].pc = pc /\ flight'[f].id = id
                                           /\ flight'[f].todo = {} /\ ~flight'[f].boots
           /\ PoolGoesOn => /\ flight'[Pool].pc = "next" /\ ~flight'[Pool].boots
                            /\ flight'[Pool].todo = flight[Pool].todo
           /\ \A s, id, boots : PoolTakes(s, pc, id, boots) =>
                 /\ flight'[Pool].pc = pc /\ flight'[Pool].id = id /\ flight'[Pool].boots = boots
                 /\ flight'[Pool].todo \subseteq flight[Pool].todo
<1>1. flight = [g \in Flights |-> flight[g]] /\ flight[f] \in FlightState
  BY Holding DEF LInv, FlightsFit
<1>2. ASSUME NEW g \in Flights, NEW v, flight' = [flight EXCEPT ![g] = v] PROVE flight'[g] = v
  BY <1>1, <1>2
<1>3. ASSUME Go(f, pc)
      PROVE  /\ flight'[f].pc = pc /\ flight'[f].id = Id(f)
             /\ flight'[f].updated = flight[f].updated /\ flight'[f].boots = flight[f].boots
             /\ flight'[f].todo = flight[f].todo
  <2>1. flight'[f] = [flight[f] EXCEPT !.pc = pc]
    BY <1>1, <1>3 DEF Go
  <2> QED  BY <1>1, <2>1 DEF FlightState, Id
<1>4. ASSUME NEW id, GoWith(f, pc, id)
      PROVE  /\ flight'[f].pc = pc /\ flight'[f].id = id
             /\ flight'[f].todo = {} /\ ~flight'[f].boots
  <2>1. flight'[f] = [Idle EXCEPT !.pc = pc, !.id = id]
    BY <1>1, <1>4 DEF GoWith
  <2> QED  BY <2>1 DEF Idle
<1>5. ASSUME PoolGoesOn
      PROVE  /\ flight'[Pool].pc = "next" /\ ~flight'[Pool].boots
             /\ flight'[Pool].todo = flight[Pool].todo
  <2>1. flight'[Pool] = [Idle EXCEPT !.pc = "next", !.todo = flight[Pool].todo]
    BY <1>1, <1>5, Names DEF PoolGoesOn
  <2> QED  BY <2>1 DEF Idle
<1>6. ASSUME NEW s, NEW id, NEW boots, PoolTakes(s, pc, id, boots)
      PROVE  /\ flight'[Pool].pc = pc /\ flight'[Pool].id = id /\ flight'[Pool].boots = boots
             /\ flight'[Pool].todo \subseteq flight[Pool].todo
  <2> DEFINE rest == flight[Pool].todo \ {s}
  <2>1. flight'[Pool] = [Idle EXCEPT !.pc = pc, !.id = id, !.boots = boots, !.todo = rest]
    BY <1>1, <1>6, Names DEF PoolTakes
  <2>2. rest \subseteq flight[Pool].todo
    OBVIOUS
  <2> HIDE DEF rest
  <2> QED  BY <2>1, <2>2 DEF Idle
<1> QED  BY <1>3, <1>4, <1>5, <1>6

(* It goes on with the identity it has, which is still current only if it  *)
(* was before.                                                             *)
LEMMA MovedOn ==
    ASSUME PInv, NEW f \in Flights, Effect(f), flight[f].pc \in Engaged,
           flight'[f].id = Id(f), flight'[f].todo = flight[f].todo,
           bindings[N(f)].gen = Id(f).gen /\ bindings'[N(f)].gen = Id(f).gen =>
             /\ Id(f).topic = NoTopic =>
                  PoolPromise(f, flight'[f], bindings'[N(f)], worker'[N(f)])
             /\ Id(f).topic # NoTopic =>
                  TopicPromise(f, flight'[f], bindings'[N(f)], worker'[N(f)])
    PROVE  Moved(f)
<1>1. Id(f) \in granted /\ LInv
  BY EngagedHolds DEF PInv
<1>2. bindings'[N(f)].gen = Id(f).gen => bindings[N(f)].gen = Id(f).gen
  BY <1>1, StaysCurrent DEF N
<1> QED  BY <1>2 DEF Moved, OwnPromise, N

LEMMA PoolMoved ==
    ASSUME LInv, PoolGoesOn \/ PoolEnds
    PROVE  Moved(Pool)
<1>1. "next" \notin Relying \cup Retiring /\ "idle" \notin Relying \cup Retiring
  BY DEF Relying, Retiring, Making, Verifying
<1>2. CASE PoolGoesOn
  BY <1>1, <1>2, Names, Went, NoPromise DEF Moved
<1>3. CASE PoolEnds
  BY <1>1, <1>3, PoolEndsAlone, IdleState, NoPromise DEF Moved
<1> QED  BY <1>2, <1>3

LEMMA PoolTook ==
    ASSUME LInv, NEW s, NEW pc, NEW id, NEW boots, PoolTakes(s, pc, id, boots)
    PROVE  /\ flight'[Pool].pc = pc /\ flight'[Pool].id = id /\ flight'[Pool].boots = boots
           /\ flight'[Pool].todo \subseteq flight[Pool].todo
  BY Went, Names

LEMMA MovedFree ==
    ASSUME LInv, NEW f \in Flights, NEW pc, pc \notin Relying
    PROVE  /\ Go(f, pc) /\ pc \notin Retiring => Moved(f)
           /\ \A id : GoWith(f, pc, id) => Moved(f)
           /\ \A s, id, boots : PoolTakes(s, pc, id, boots) /\ ~boots => Moved(Pool)
<1>1. CASE Go(f, pc) /\ pc \notin Retiring
  BY <1>1, Went, NoPromise DEF Moved
<1>2. ASSUME NEW id, GoWith(f, pc, id) PROVE Moved(f)
  <2>1. flight'[f].pc = pc /\ flight'[f].todo = {} /\ ~flight'[f].boots
    BY <1>2, Went
  <2>2. OwnPromise(f, flight'[f], bindings', worker')
    BY <2>1, NoPromise
  <2> QED  BY <2>1, <2>2 DEF Moved
<1>3. ASSUME NEW s, NEW id, NEW boots, PoolTakes(s, pc, id, boots), ~boots PROVE Moved(Pool)
  <2>1. /\ flight'[Pool].pc = pc /\ flight'[Pool].boots = boots
        /\ flight'[Pool].todo \subseteq flight[Pool].todo
    BY <1>3, Went
  <2>2. OwnPromise(Pool, flight'[Pool], bindings', worker')
    BY <1>3, <2>1, NoPromise
  <2> QED  BY <2>1, <2>2 DEF Moved
<1> QED  BY <1>1, <1>2, <1>3

LEMMA FailsMoved ==
    ASSUME PInv, NEW f \in Flights, Effect(f), flight[f].pc \in Failing, Fails(f), UNCHANGED vars
    PROVE  Moved(f)
<1>1. /\ LInv /\ flight[f].pc \in Engaged
      /\ At(f, flight[f].pc, Id(f), granted)
      /\ f = Pool \/ f \in Creators \/ (f \in Deleters /\ flight[f].pc \in Retiring /\ f # Pool)
  BY Names, Holding DEF At, DeleterSteps, Failing, Engaged, Making, Verifying, Recycling,
                        Retiring, Serving, PInv
<1>2. "fail" \notin Relying \cup Retiring
  BY DEF Relying, Retiring, Making, Verifying
<1>3. CASE flight[f].pc \in Retiring /\ f # Pool
  <2> DEFINE end == IF f \in Creators THEN "stuck" ELSE "failed"
  <2>1. end \notin Relying
    BY DEF Relying, Making, Verifying
  <2> HIDE DEF end
  <2>2. GoWith(f, end, NoId)
    BY <1>3 DEF Fails, end
  <2> QED  BY <1>1, <2>1, <2>2, MovedFree
<1>4. CASE ~(flight[f].pc \in Retiring /\ f # Pool) /\ f \in Creators /\ ~Unclaimed(f)
  <2>1. Go(f, "fail")
    BY <1>4 DEF Fails
  <2> QED  BY <1>1, <1>2, <2>1, MovedFree
<1>5. CASE /\ ~(flight[f].pc \in Retiring /\ f # Pool) /\ ~(f \in Creators /\ ~Unclaimed(f))
           /\ f \in Creators \/ flight[f].boots
  <2>1. Go(f, "demote")
    BY <1>5 DEF Fails
  <2>2. /\ flight'[f].pc = "demote" /\ flight'[f].id = Id(f) /\ flight'[f].todo = flight[f].todo
    BY <1>1, <2>1, Went
  <2>3. Id(f).topic = NoTopic
    BY <1>1, <1>5, PoolUnclaimed DEF Unclaimed, Retiring
  <2>4. ASSUME bindings[N(f)].gen = Id(f).gen
        PROVE  PoolPromise(f, flight'[f], bindings'[N(f)], worker'[N(f)])
    <3>1. PoolPromise(f, flight[f], bindings[N(f)], worker[N(f)])
      BY <1>1, <2>3, <2>4, Promised
    <3>2. flight[f].pc \in Making \cup Verifying
      <4>1. CASE flight[f].pc \in Retiring
        BY <1>1, <1>5, <3>1, <4>1, Names DEF PoolPromise
      <4>2. CASE flight[f].pc \notin Retiring
        <5>1. flight[f].pc \notin Serving \ {"recycle-begin"}
          BY <1>1, <2>3, Names DEF At, PoolSteps, Making, Verifying, Serving
        <5> QED  BY <4>2, <5>1 DEF Failing, Engaged, Recycling, Retiring
      <4> QED  BY <4>1, <4>2
    <3>3. f \in Creators => flight[f].pc \in Verifying \cup {"prove"}
      BY <1>1, <2>3, <3>2, Names DEF At, Making
    <3>4. bindings'[N(f)] = bindings[N(f)]
      BY DEF vars
    <3> QED  BY <2>2, <3>1, <3>2, <3>3, <3>4 DEF PoolPromise, Making, Verifying, Retiring
  <2> QED  BY <1>1, <2>2, <2>3, <2>4, MovedOn
<1>6. CASE /\ ~(flight[f].pc \in Retiring /\ f # Pool) /\ ~(f \in Creators /\ ~Unclaimed(f))
           /\ ~(f \in Creators \/ flight[f].boots)
  <2>1. f = Pool /\ (PoolGoesOn \/ PoolEnds)
    BY <1>1, <1>6 DEF Fails
  <2> QED  BY <1>1, <2>1, PoolMoved
<1> QED  BY <1>3, <1>4, <1>5, <1>6

LEMMA StillRetiring ==
    ASSUME PInv, NEW f \in Flights, Effect(f), flight[f].pc \in Recycling,
           NEW pc \in Recycling \ {"complete"}, Go(f, pc) \/ \E u : Marks(f, pc, u)
    PROVE  Moved(f)
<1>1. LInv /\ flight[f].pc \in Engaged /\ Id(f).topic = NoTopic
  BY EngagedHolds DEF PInv, Engaged
<1>2. /\ flight'[f].pc = pc /\ flight'[f].id = Id(f) /\ flight'[f].todo = flight[f].todo
      /\ flight'[f].boots = flight[f].boots
  <2>1. flight = [g \in Flights |-> flight[g]] /\ flight[f] \in FlightState
    BY <1>1, Holding DEF LInv, FlightsFit
  <2> QED  BY <1>1, <2>1, Went, Marked
<1>3. ASSUME bindings[N(f)].gen = Id(f).gen PROVE ~flight[f].boots
  BY <1>1, <1>3, Promised DEF PoolPromise, Recycling
<1> QED  BY <1>1, <1>2, <1>3, MovedOn DEF PoolPromise, Recycling, Retiring, Making, Verifying

LEMMA CallMoved ==
    ASSUME PInv, NEW f \in Flights, Effect(f), Call(f)
    PROVE  Moved(f)
<1>1. LInv /\ worker = [n \in Nodes |-> worker[n]] /\ flight = [g \in Flights |-> flight[g]]
  BY DEF PInv, LInv, FlightsFit
<1>2. /\ flight[f].pc \in {"provision", "rebind", "reconcile", "recheck", "confirm", "recycle",
                           "delete", "sleep", "prove", "session", "activate", "settle", "asleep"}
      /\ UNCHANGED vars
  BY DEF Call, Provision, Reconcile, Recheck, Rebind, Recycle, Rotate, DeleteWorker, Confirm,
         Sleep, Unanswered, Answered
<1>3. /\ flight[f].pc \in Engaged /\ N(f) \in Nodes /\ Id(f) \in granted
      /\ flight[f].pc \in Failing /\ bindings'[N(f)] = bindings[N(f)] /\ flight[f] \in FlightState
      /\ worker[N(f)] \in WorkerState
  BY <1>1, <1>2, EngagedHolds, Holding
     DEF Failing, Engaged, Making, Verifying, Recycling, Retiring, Serving, LInv, IInv, TypeOK,
         Identity, N, vars
<1>4. CASE Fails(f)
  BY <1>2, <1>3, <1>4, FailsMoved
<1>5. CASE Provision(f) /\ ~Fails(f)
  <2>1. flight[f].pc = "provision" /\ Marks(f, "record", TRUE)
    BY <1>5 DEF Provision, Answered, Marks
  <2>2. /\ flight'[f].pc = "record" /\ flight'[f].updated /\ flight'[f].id = Id(f)
        /\ flight'[f].todo = flight[f].todo
    BY <1>1, <1>3, <2>1, Marked
  <2> QED  BY <1>3, <2>1, <2>2, MovedOn, Promised
           DEF PoolPromise, TopicPromise, Making, Verifying, Retiring
<1>6. CASE Reconcile(f) /\ ~Fails(f)
  <2> DEFINE pc == IF flight[f].boots THEN "record" ELSE "prove"
  <2>1. PICK updated \in BOOLEAN : Reconciled(Id(f), updated) /\ Marks(f, pc, updated)
    BY <1>6 DEF Reconcile, Answered, Marks
  <2>2. /\ flight'[f].pc = pc /\ flight'[f].updated = updated /\ flight'[f].id = Id(f)
        /\ flight'[f].todo = flight[f].todo
    BY <1>1, <1>3, <2>1, Marked
  <2>3. flight[f].pc = "reconcile" /\ bindings[N(f)].gen = Id(f).gen
    BY <1>6, <2>1 DEF Reconcile, Reconciled, Reconcilable, Authorized, N
  <2>4. updated \/ ~worker'[N(f)].outdated
    <3>1. SUFFICES ASSUME ~updated PROVE ~worker'[N(f)].outdated
      OBVIOUS
    <3>2. ~worker[N(f)].outdated /\ worker'[N(f)] = Verified(worker[N(f)], Id(f))
      BY <1>1, <1>3, <2>1, <3>1 DEF Reconciled, Updates, Set, N
    <3> QED  BY <1>3, <3>2 DEF Verified, Arrived, WorkerState
  <2>5. pc \in {"record", "prove"} /\ Id(f).topic = NoTopic
    BY <1>1, <2>3, EngagedHolds DEF Verifying
  <2> HIDE DEF pc
  <2> QED  BY <1>3, <2>2, <2>3, <2>4, <2>5, MovedOn, Promised
           DEF PoolPromise, Making, Verifying, Retiring
<1>7. CASE Recheck(f) /\ ~Fails(f)
  <2>1. PICK updated \in BOOLEAN : Reconciled(Id(f), updated)
    BY <1>7 DEF Recheck
  <2>2. /\ flight[f].pc = "recheck" /\ bindings[N(f)].gen = Id(f).gen /\ Go(f, "publish")
    BY <1>7, <2>1 DEF Recheck, Reconciled, Reconcilable, Authorized, N, Answered
  <2>3. /\ flight'[f].pc = "publish" /\ flight'[f].id = Id(f)
        /\ flight'[f].todo = flight[f].todo
    BY <1>1, <2>2, Went
  <2>4. Id(f).topic = NoTopic
    BY <1>1, <2>2, EngagedHolds DEF Verifying
  <2>5. PoolPromise(f, flight[f], bindings[N(f)], worker[N(f)])
    BY <1>3, <2>2, <2>4, Promised
  <2>6. ~(worker[N(f)].outdated /\ worker[N(f)].sleep = "entering")
    BY <2>2, <2>5 DEF PoolPromise
  <2> DEFINE w == worker[N(f)]
  <2>7. PICK x : /\ worker' = [worker EXCEPT ![N(f)] = x]
                 /\ \/ Waits(w) /\ x = Reported(w)
                    \/ Updates(w) /\ x = Updated(w)
                    \/ ~Updates(w) /\ x = Verified(w, Id(f))
    BY <2>1 DEF Reconciled, Set, N
  <2>8. ~x.outdated
    <3>1. CASE Waits(w) /\ x = Reported(w)
      BY <1>3, <2>6, <3>1 DEF Waits, Reported, WorkerState
    <3>2. CASE x = Updated(w)
      BY <1>3, <3>2 DEF Updated, WorkerState
    <3>3. CASE ~Updates(w) /\ x = Verified(w, Id(f))
      BY <1>3, <3>3 DEF Updates, Verified, Arrived, WorkerState
    <3> QED  BY <2>7, <3>1, <3>2, <3>3
  <2>9. worker'[N(f)] = x
    BY <1>1, <1>3, <2>7
  <2> QED  BY <1>3, <2>2, <2>3, <2>4, <2>5, <2>8, <2>9, MovedOn
           DEF PoolPromise, Making, Verifying, Retiring
<1>8. CASE Rebind(f) /\ ~Fails(f)
  <2>1. flight[f].pc = "rebind" /\ Go(f, "record")
    BY <1>8 DEF Rebind, Rotate, Answered
  <2>2. /\ flight'[f].pc = "record" /\ flight'[f].id = Id(f)
        /\ flight'[f].todo = flight[f].todo
    BY <1>1, <2>1, Went
  <2>3. Id(f).topic # NoTopic
    BY <1>1, <2>1, Names, Holding
       DEF At, PoolSteps, DeleterSteps, Making, Verifying, Retiring, Serving
  <2> QED  BY <1>3, <2>1, <2>2, <2>3, MovedOn, Promised DEF TopicPromise, Making
<1>9. CASE (Recycle(f) \/ DeleteWorker(f) \/ Sleep(f)) /\ ~Fails(f)
  <2>1. PICK pc \in {"settle", "release", "asleep"} : Go(f, pc) \/ \E u : Marks(f, pc, u)
    BY <1>9 DEF Recycle, Rotate, DeleteWorker, Sleep, Answered, Marks
  <2>2. flight[f].pc \in Recycling /\ pc \in Recycling \ {"complete"}
    BY <1>9 DEF Recycle, Rotate, DeleteWorker, Sleep, Recycling, Retiring
  <2> QED  BY <2>1, <2>2, StillRetiring
<1>10. CASE Confirm(f) /\ ~Fails(f)
  <2>1. GoWith(f, "done", NoId) /\ "done" \notin Relying
    BY <1>10 DEF Confirm, Answered, Relying, Making, Verifying
  <2> QED  BY <1>1, <2>1, MovedFree
<1> QED  BY <1>4, <1>5, <1>6, <1>7, <1>8, <1>9, <1>10 DEF Call, Unanswered

LEMMA SharedMoved ==
    ASSUME PInv, NEW f \in Flights, Effect(f), Shared(f)
    PROVE  Moved(f)
<1>1. /\ LInv /\ flight = [g \in Flights |-> flight[g]] /\ flight[f] \in FlightState
      /\ bindings = [n \in Nodes |-> bindings[n]]
  BY Holding DEF PInv, LInv, FlightsFit, IInv, TypeOK
<1>2. /\ "bind" \notin Relying \cup Retiring /\ "claim" \notin Relying \cup Retiring
      /\ "aborted" \notin Relying /\ "done" \notin Relying
  BY DEF Relying, Making, Verifying, Retiring
<1>3. CASE Call(f)
  BY <1>3, CallMoved
<1>4. ASSUME flight[f].pc \in {"record", "publish", "release"}, Fails(f), UNCHANGED vars
      PROVE  Moved(f)
  BY <1>4, FailsMoved DEF Failing, Engaged, Making, Verifying, Recycling, Retiring
<1>5. ASSUME flight[f].pc = "record", NEW r \in Resources, UpdateResources(Id(f), r), Go(f, "prove")
      PROVE  Moved(f)
  <2>1. flight[f].pc \in Engaged
    BY <1>5 DEF Engaged, Making
  <2>2. /\ flight'[f].pc = "prove" /\ flight'[f].id = Id(f) /\ flight'[f].todo = flight[f].todo
        /\ flight'[f].updated = flight[f].updated
    BY <1>1, <1>5, Went
  <2>3. ASSUME bindings[N(f)].gen = Id(f).gen
        PROVE  /\ Id(f).topic = NoTopic =>
                    PoolPromise(f, flight'[f], bindings'[N(f)], worker'[N(f)])
               /\ Id(f).topic # NoTopic =>
                    TopicPromise(f, flight'[f], bindings'[N(f)], worker'[N(f)])
    <3>1. /\ bindings[N(f)] \in Binding /\ N(f) \in Nodes
          /\ Id(f).topic = NoTopic => PoolPromise(f, flight[f], bindings[N(f)], worker[N(f)])
          /\ Id(f).topic # NoTopic => TopicPromise(f, flight[f], bindings[N(f)], worker[N(f)])
      BY <2>1, <2>3, Promised
    <3>2. bindings'[N(f)] = [bindings[N(f)] EXCEPT !.resources = r]
      BY <1>1, <1>5, <3>1 DEF UpdateResources, Write, N
    <3>3. /\ bindings'[N(f)].resources # NoResources
          /\ bindings'[N(f)].status = bindings[N(f)].status
          /\ bindings'[N(f)].gen = bindings[N(f)].gen
          /\ bindings'[N(f)].session = bindings[N(f)].session
      BY <3>1, <3>2, ConstantsAssumption DEF Binding
    <3>4. worker'[N(f)].outdated = worker[N(f)].outdated
      <4>1. Quiet \/ WritesOn(f) \/ CallsOn(f) \/ Mints => UNCHANGED worker
        BY <1>5 DEF Quiet, WritesOn, CallsOn, Mints, WorkerChange, Installs, Inspected, Settled,
                    Cleaned, Erased, Started
      <4> QED  BY <4>1 DEF Effect
    <3> QED  BY <1>5, <2>2, <3>1, <3>3, <3>4 DEF PoolPromise, TopicPromise, Making, Verifying, Retiring
  <2> QED  BY <2>1, <2>2, <2>3, MovedOn
<1>6. CASE RecordResources(f)
  BY <1>4, <1>5, <1>6 DEF RecordResources, Transacts
<1>7. CASE Prove(f)
  <2> DEFINE pc == IF ~Unclaimed(f) THEN "session"
                   ELSE IF flight[f].updated THEN "recheck" ELSE "publish"
  <2>1. flight[f].pc = "prove" /\ Go(f, pc) /\ flight[f].pc \in Engaged /\ UNCHANGED vars
        /\ Awaited(f)
    BY <1>7 DEF Prove, Engaged, Making
  <2>2. /\ Id(f).topic # NoTopic => pc = "session"
        /\ Id(f).topic = NoTopic => \/ pc = "recheck"
                                    \/ pc = "publish" /\ ~flight[f].updated
        /\ pc = "recheck" => flight[f].updated
    BY DEF Unclaimed
  <2> HIDE DEF pc
  <2>3. /\ flight'[f].pc = pc /\ flight'[f].id = Id(f) /\ flight'[f].todo = flight[f].todo
    BY <1>1, <2>1, Went
  <2>4. N(f) \in Nodes /\ worker = [n \in Nodes |-> worker[n]] /\ worker[N(f)] \in WorkerState
    BY <1>1, <2>1, EngagedHolds DEF LInv, IInv, TypeOK, Identity, N
  <2>5. CASE ~flight[f].updated
    <3>1. worker' = worker
      BY <2>1, <2>5 DEF Awaited
    <3> QED  BY <2>1, <2>2, <2>3, <2>5, <3>1, MovedOn, Promised
             DEF PoolPromise, TopicPromise, Making, Verifying, Retiring, vars
  <2>6. CASE flight[f].updated
    <3>1. worker'[N(f)] = Arrived(worker[N(f)])
      BY <2>1, <2>4, <2>6 DEF Awaited, Set
    <3>2. worker'[N(f)].sleep # "entering"
      BY <2>4, <3>1 DEF Arrived, WorkerState
    <3> QED  BY <2>1, <2>2, <2>3, <2>6, <3>2, MovedOn, Promised
             DEF PoolPromise, TopicPromise, Making, Verifying, Retiring, vars
  <2> QED  BY <2>5, <2>6
<1>8. CASE Publish(f)
  <2>1. flight[f].pc = "publish"
    BY <1>8 DEF Publish, Transacts
  <2> QED  BY <1>1, <1>2, <1>4, <1>8, <2>1, MovedFree, PoolMoved DEF Publish, Transacts
<1>9. CASE LookUp(f) \/ Demote(f)
  <2>1. ASSUME CatchEnds(f) PROVE Moved(f)
    BY <1>1, <1>2, <2>1, MovedFree, PoolMoved DEF CatchEnds
  <2>2. ASSUME LookUp(f), Go(f, "demoting") PROVE Moved(f)
    <3>1. /\ flight[f].pc = "demote" /\ flight[f].pc \in Engaged /\ UNCHANGED <<vars, worker>>
          /\ flight'[f].pc = "demoting" /\ flight'[f].id = Id(f)
          /\ flight'[f].todo = flight[f].todo
      BY <1>1, <2>2, Went DEF LookUp, Engaged, Verifying
    <3>2. Id(f).topic = NoTopic
      BY <1>1, <3>1, EngagedHolds DEF Verifying
    <3> QED  BY <3>1, <3>2, MovedOn, Promised DEF PoolPromise, Making, Verifying, Retiring, vars
  <2>3. ASSUME GoWith(f, "refused", NoId) PROVE Moved(f)
    <3>1. "refused" \notin Relying
      BY DEF Relying, Making, Verifying
    <3> QED  BY <1>1, <2>3, <3>1, MovedFree
  <2>4. f = Pool /\ PoolEnds => Moved(f)
    BY <1>1, PoolMoved
  <2> QED  BY <1>9, <2>1, <2>2, <2>3, <2>4 DEF LookUp, Demote
<1>10. CASE Release(f)
  <2> DEFINE end == IF f \in Creators THEN "aborted" ELSE "done"
  <2>1. end \notin Relying
    BY <1>2
  <2>2. flight[f].pc = "release" /\ (Retired(f) <=> GoWith(f, end, NoId))
    BY <1>10 DEF Release, Transacts, Retired
  <2> HIDE DEF end
  <2> QED  BY <1>1, <1>4, <1>10, <2>1, <2>2, MovedFree, PoolMoved DEF Release, Transacts
<1> QED  BY <1>3, <1>6, <1>7, <1>8, <1>9, <1>10 DEF Shared

LEMMA RetireMoved ==
    ASSUME PInv, NEW f \in Creators \cup Deleters, Effect(f), Retire(f)
    PROVE  Moved(f)
<1>1. /\ LInv /\ f \in Flights /\ f # Pool
      /\ bindings = [n \in Nodes |-> bindings[n]]
  BY Names DEF PInv, LInv, IInv, TypeOK
<1>2. "recycle-begin" \notin Relying /\ "recycle" \notin Relying /\ "delete" \notin Relying
  BY DEF Relying, Making, Verifying
<1>3. ASSUME Retired(f) PROVE Moved(f)
  <2> DEFINE end == IF f \in Creators THEN "aborted" ELSE "done"
  <2>1. end \notin Relying
    BY DEF Relying, Making, Verifying
  <2>2. GoWith(f, end, NoId)
    BY <1>3 DEF Retired
  <2> HIDE DEF end
  <2> QED  BY <1>1, <2>1, <2>2, MovedFree
<1>4. ASSUME flight[f].pc \in {"recycle-begin", "complete", "overflow"}, Fails(f), UNCHANGED vars
      PROVE  Moved(f)
  BY <1>1, <1>4, FailsMoved DEF Failing, Engaged, Recycling, Retiring, Serving
<1>5. CASE Locate(f)
  BY <1>1, <1>2, <1>3, <1>5, MovedFree DEF Locate
<1>6. CASE BeginRecycling(f)
  <2> DEFINE next == [node |-> N(f), gen |-> Id(f).gen + 1, topic |-> NoTopic]
  <2>1. flight[f].pc = "recycle-begin" /\ (GoWith(f, "recycle", next) \/ (Fails(f) /\ UNCHANGED vars))
    BY <1>6 DEF BeginRecycling
  <2> HIDE DEF next
  <2> QED  BY <1>1, <1>2, <1>4, <2>1, MovedFree
<1>7. CASE Settle(f)
  <2>1. /\ flight[f].pc = "settle" /\ flight[f].pc \in Engaged /\ flight[f].pc \in Recycling
        /\ UNCHANGED <<vars, worker>> /\ Go(f, "complete")
        /\ worker[N(f)].installed = Id(f).gen
    BY <1>7 DEF Settle, Engaged, Recycling, Retiring, Runs, N
  <2>2. /\ flight'[f].pc = "complete" /\ flight'[f].id = Id(f) /\ flight'[f].todo = flight[f].todo
        /\ flight'[f].boots = flight[f].boots /\ Id(f).topic = NoTopic
    BY <1>1, <2>1, Went, EngagedHolds
  <2> QED  BY <1>1, <2>1, <2>2, MovedOn, Promised DEF PoolPromise, Making, Verifying, Retiring, vars
<1>8. CASE Complete(f)
  <2>1. PICK pc \in {"overflow", "sleep"} : Go(f, pc) \/ (Fails(f) /\ UNCHANGED vars)
    BY <1>8 DEF Complete
  <2>2. flight[f].pc = "complete" /\ flight[f].pc \in Recycling /\ pc \in Recycling \ {"complete"}
    BY <1>8 DEF Complete, Recycling, Retiring
  <2> QED  BY <1>1, <1>4, <2>1, <2>2, StillRetiring
<1>9. CASE FenceOverflow(f)
  <2> DEFINE next == [Id(f) EXCEPT !.gen = @ + 1]
  <2>1. flight[f].pc = "overflow" /\ (GoWith(f, "delete", next) \/ (Fails(f) /\ UNCHANGED vars))
    BY <1>9 DEF FenceOverflow, Transacts
  <2> HIDE DEF next
  <2> QED  BY <1>1, <1>2, <1>4, <2>1, MovedFree
<1>10. CASE Asleep(f)
  BY <1>3, <1>10 DEF Asleep
<1> QED  BY <1>5, <1>6, <1>7, <1>8, <1>9, <1>10 DEF Retire

LEMMA CreatorMoved ==
    ASSUME PInv, NEW f \in Creators, Effect(f), CreatorAct(f), ~StartsPool(f)
    PROVE  Moved(f)
<1>1. /\ LInv /\ f \in Flights /\ f # Pool /\ f[2] # NoTopic
      /\ bindings = [n \in Nodes |-> bindings[n]] /\ worker = [n \in Nodes |-> worker[n]]
      /\ flight = [g \in Flights |-> flight[g]] /\ flight[f] \in FlightState
  BY Names, Holding DEF PInv, LInv, IInv, TypeOK, FlightsFit
<1>2. /\ "refused" \notin Relying /\ "begin" \notin Relying /\ "locate" \notin Relying
      /\ "bind" \notin Relying
      /\ "locate" \notin Engaged /\ \A pc \in Waiting : pc \notin Engaged
  BY DEF Relying, Engaged, Making, Verifying, Recycling, Retiring, Serving, Waiting
<1>3. ASSUME flight'[f].pc \notin Engaged PROVE Moved(f)
  BY <1>1, <1>3 DEF Moved, OwnPromise
<1>4. ASSUME NEW pc \in Waiting \cup {"locate"}, Go(f, pc) PROVE Moved(f)
  <2>1. flight'[f].pc = pc
    BY <1>1, <1>4, Went
  <2> QED  BY <1>2, <1>3, <2>1
<1>5. CASE ListAvailable(f)
  <2> DEFINE idle == {Snapshot(n, bindings[n]) : n \in {m \in Nodes : IdleInSlot(m)}}
             more == [flight[f] EXCEPT !.pc = "bootstrap", !.round = flight[f].round + 1]
             look == [flight[f] EXCEPT !.pc = "claim", !.todo = idle]
  <2>1. flight'[f] = more \/ flight'[f] = look
    BY <1>1, <1>5 DEF ListAvailable
  <2>2. more.pc = "bootstrap" /\ look.pc = "claim"
    BY <1>1 DEF FlightState
  <2> HIDE DEF more, look
  <2> QED  BY <1>2, <1>3, <2>1, <2>2 DEF Waiting
<1>6. CASE BootstrapOrJoin(f)
  BY <1>4, <1>6 DEF BootstrapOrJoin, StartsPool, Waiting
<1>7. CASE Claim(f)
  <2>1. ASSUME NEW s \in flight[f].todo, BeginAvailableReconciliation(s.id),
               flight'[f].pc = "reconcile", flight'[f].id = s.id
        PROVE  Moved(f)
    <3>1. s.id \in granted /\ s.id.topic = NoTopic
      BY <1>1, Holding DEF Pending
    <3>2. s.id.node \in Nodes /\ bindings[s.id.node] \in Binding
      BY <1>1, <3>1 DEF LInv, IInv, TypeOK, Identity
    <3>3. /\ bindings'[s.id.node] = [bindings[s.id.node] EXCEPT !.status = "pool-provisioning"]
          /\ bindings[s.id.node].resources # NoResources
      BY <1>1, <2>1, <3>2 DEF BeginAvailableReconciliation, CanReconcile, Write
    <3>4. /\ bindings'[s.id.node].status = "pool-provisioning"
          /\ bindings'[s.id.node].resources # NoResources
      BY <3>2, <3>3 DEF Binding
    <3>5. PoolPromise(f, flight'[f], bindings'[s.id.node], worker'[s.id.node])
      BY <2>1, <3>4 DEF PoolPromise, Retiring
    <3> QED  BY <1>1, <2>1, <3>1, <3>5 DEF Moved, OwnPromise
  <2>2. ASSUME NEW s \in flight[f].todo
        PROVE  LET rest == [flight[f] EXCEPT !.todo = @ \ {s}]
                   v == [rest EXCEPT !.pc = "reconcile", !.id = s.id, !.updated = FALSE]
               IN  v.pc = "reconcile" /\ v.id = s.id /\ rest.pc = flight[f].pc
    BY <1>1 DEF FlightState
  <2>3. ASSUME NEW v, flight' = [flight EXCEPT ![f] = v] PROVE flight'[f] = v
    BY <1>1, <2>3
  <2>4. ASSUME NEW s \in flight[f].todo,
               LET rest == [flight[f] EXCEPT !.todo = @ \ {s}] IN
               \/ /\ BeginAvailableReconciliation(s.id)
                  /\ flight' = [flight EXCEPT ![f] = [rest EXCEPT !.pc = "reconcile", !.id = s.id,
                                                                  !.updated = FALSE]]
               \/ flight' = [flight EXCEPT ![f] = rest]
        PROVE  Moved(f)
    <3> DEFINE rest == [flight[f] EXCEPT !.todo = @ \ {s}]
               v == [rest EXCEPT !.pc = "reconcile", !.id = s.id, !.updated = FALSE]
    <3>1. v.pc = "reconcile" /\ v.id = s.id /\ rest.pc = flight[f].pc
      BY <2>2
    <3>2. \/ BeginAvailableReconciliation(s.id) /\ flight' = [flight EXCEPT ![f] = v]
          \/ flight' = [flight EXCEPT ![f] = rest]
      BY <2>4
    <3>3. flight[f].pc \notin Engaged
      BY <1>2, <1>7 DEF Claim, Waiting
    <3> HIDE DEF v, rest
    <3> QED  BY <1>3, <2>1, <2>3, <3>1, <3>2, <3>3
  <2>5. CASE GoWith(f, "refused", NoId)
    BY <1>1, <1>2, <2>5, MovedFree
  <2> QED  BY <1>7, <2>4, <2>5 DEF Claim
<1>8. CASE BindTopic(f) \/ RecordFailure(f) \/ Resume(f)
  <2>1. \E id : GoWith(f, "begin", id) \/ GoWith(f, "locate", id) \/ GoWith(f, "bind", id)
    BY <1>8 DEF BindTopic, RecordFailure, Resume
  <2> QED  BY <1>1, <1>2, <2>1, MovedFree
<1>9. CASE RetryCleanup(f)
  BY <1>4, <1>9 DEF RetryCleanup
<1>10. ASSUME flight[f].pc \in Serving PROVE flight[f].pc \in Engaged /\ Id(f).topic # NoTopic
  BY <1>1, <1>10, EngagedHolds DEF Engaged
<1>11. ASSUME flight[f].pc \in {"begin", "session", "adopt", "activate"}, Fails(f), UNCHANGED vars
       PROVE  Moved(f)
  BY <1>1, <1>11, FailsMoved DEF Failing, Engaged, Serving
<1>12. ASSUME flight[f].pc \in Serving, NEW pc, Go(f, pc),
              bindings[N(f)].gen = Id(f).gen =>
                TopicPromise(f, [pc |-> pc], bindings'[N(f)], worker'[N(f)])
       PROVE  Moved(f)
  <2>1. flight'[f].pc = pc /\ flight'[f].id = Id(f) /\ flight'[f].todo = flight[f].todo
    BY <1>1, <1>12, Went
  <2>2. [pc |-> pc].pc = pc
    OBVIOUS
  <2> HIDE DEF N, Id
  <2>3. bindings[N(f)].gen = Id(f).gen => TopicPromise(f, flight'[f], bindings'[N(f)], worker'[N(f)])
    BY <1>12, <2>1, <2>2 DEF TopicPromise
  <2> QED  BY <1>1, <1>10, <1>12, <2>1, <2>3, MovedOn
<1>13. ASSUME flight[f].pc \in Serving, bindings[N(f)].gen = Id(f).gen
       PROVE  /\ N(f) \in Nodes /\ bindings[N(f)] \in Binding /\ worker[N(f)] \in WorkerState
              /\ bindings[N(f)].topic = f[2]
              /\ Matches(bindings[N(f)], worker[N(f)])
              /\ TopicPromise(f, flight[f], bindings[N(f)], worker[N(f)])
  BY <1>1, <1>10, <1>13, Promised, NodeFacts, EngagedHolds
<1>14. ASSUME flight[f].pc \in Serving, Current(Id(f)), NEW b, Write(N(f), b)
       PROVE  bindings'[N(f)] = b /\ bindings[N(f)].gen = Id(f).gen
  <2>1. bindings[N(f)].gen = Id(f).gen
    BY <1>14 DEF Current, N
  <2> QED  BY <1>1, <1>13, <1>14, <2>1 DEF Write
<1>15. CASE BeginPreparing(f)
  <2> DEFINE pc == IF Rec(f).status = "reserved" /\ Rec(f).resources # NoResources /\ Id(f).gen > 1
                   THEN "rebind" ELSE "provision"
             c == [bindings[N(f)] EXCEPT !.status = "provisioning"]
  <2>1. flight[f].pc = "begin" /\ flight[f].pc \in Serving /\ UNCHANGED worker
    BY <1>15 DEF BeginPreparing, Serving
  <2>2. CASE Rec(f).status = "ready" /\ Go(f, "session") /\ UNCHANGED vars
    <3>1. TopicPromise(f, [pc |-> "session"], bindings'[N(f)], worker'[N(f)])
      BY <2>2 DEF Rec, vars, TopicPromise
    <3> QED  BY <1>12, <2>1, <2>2, <3>1
  <2>3. CASE UpdateStatus(Id(f), "provisioning") /\ Go(f, pc)
    <3>1. Current(Id(f)) /\ Write(N(f), c)
      BY <2>3 DEF UpdateStatus, N
    <3>2. bindings'[N(f)] = c /\ bindings[N(f)].gen = Id(f).gen
      <4> HIDE DEF c
      <4> QED  BY <1>14, <2>1, <3>1
    <3>3. /\ bindings[N(f)] \in Binding /\ bindings[N(f)].topic # NoTopic
          /\ Matches(bindings[N(f)], worker[N(f)])
      BY <1>1, <1>13, <2>1, <3>2
    <3>4. pc \in {"rebind", "provision"} /\ (pc = "rebind" => ~bindings[N(f)].session)
      BY <3>3 DEF Rec, Matches
    <3>5. c.status = "provisioning" /\ c.session = bindings[N(f)].session
      BY <3>3 DEF Binding
    <3> HIDE DEF c, pc
    <3>6. TopicPromise(f, [pc |-> pc], bindings'[N(f)], worker'[N(f)])
      BY <3>2, <3>4, <3>5 DEF TopicPromise
    <3> QED  BY <1>12, <2>1, <2>3, <3>6
  <2> QED  BY <1>11, <1>15, <2>1, <2>2, <2>3 DEF BeginPreparing
<1>16. CASE CreateSession(f)
  <2> DEFINE x == [worker[N(f)] EXCEPT !.data = @ \cup {f[2]}]
  <2>1. flight[f].pc = "session" /\ flight[f].pc \in Serving
    BY <1>16 DEF CreateSession, Serving
  <2>2. CASE Rec(f).session /\ Go(f, "activate") /\ UNCHANGED vars
    <3>1. TopicPromise(f, [pc |-> "activate"], bindings'[N(f)], worker'[N(f)])
      BY <2>2 DEF Rec, vars, TopicPromise, Making
    <3> QED  BY <1>12, <2>1, <2>2, <3>1
  <2>3. CASE worker' = [worker EXCEPT ![N(f)] = x] /\ Go(f, "adopt") /\ UNCHANGED vars
    <3>1. ASSUME bindings[N(f)].gen = Id(f).gen
          PROVE  TopicPromise(f, [pc |-> "adopt"], bindings'[N(f)], worker'[N(f)])
      <4>1. worker'[N(f)] = x
        BY <1>1, <1>13, <2>1, <2>3, <3>1
      <4>2. f[2] \in x.data
        BY <1>13, <2>1, <3>1 DEF WorkerState
      <4>3. bindings'[N(f)].status # "reserved"
        BY <1>13, <2>1, <2>3, <3>1 DEF TopicPromise, vars
      <4> HIDE DEF x
      <4> QED  BY <4>1, <4>2, <4>3 DEF TopicPromise, Making
    <3> QED  BY <1>12, <2>1, <2>3, <3>1
  <2> QED  BY <1>11, <1>16, <2>1, <2>2, <2>3 DEF CreateSession, Answered, Set, TopicOf
<1>17. CASE AdoptSession(f)
  <2> DEFINE c == [bindings[N(f)] EXCEPT !.session = TRUE]
  <2>1. flight[f].pc = "adopt" /\ flight[f].pc \in Serving
    BY <1>17 DEF AdoptSession, Transacts, Serving
  <2>2. CASE UpdateSession(Id(f)) /\ Go(f, "activate")
    <3>1. Current(Id(f)) /\ Write(N(f), c)
      BY <2>2 DEF UpdateSession, N
    <3>2. bindings'[N(f)] = c /\ bindings[N(f)].gen = Id(f).gen
      <4> HIDE DEF c
      <4> QED  BY <1>14, <2>1, <3>1
    <3>3. c.session
      BY <1>13, <2>1, <3>2 DEF Binding
    <3> HIDE DEF c
    <3>4. TopicPromise(f, [pc |-> "activate"], bindings'[N(f)], worker'[N(f)])
      BY <3>2, <3>3 DEF TopicPromise, Making
    <3> QED  BY <1>12, <2>1, <2>2, <3>4
  <2> QED  BY <1>11, <1>17, <2>1, <2>2 DEF AdoptSession, Transacts
<1>18. CASE Activate(f)
  <2> DEFINE c == [bindings[N(f)] EXCEPT !.status = "ready"]
  <2>1. flight[f].pc = "activate" /\ flight[f].pc \in Serving
    BY <1>18 DEF Activate, Transacts, Serving
  <2>2. CASE UpdateStatus(Id(f), "ready") /\ Go(f, "confirm")
    <3>1. Current(Id(f)) /\ Write(N(f), c)
      BY <2>2 DEF UpdateStatus, N
    <3>2. bindings'[N(f)] = c /\ bindings[N(f)].gen = Id(f).gen
      <4> HIDE DEF c
      <4> QED  BY <1>14, <2>1, <3>1
    <3>3. c.session /\ c.status = "ready"
      BY <1>13, <2>1, <3>2 DEF Binding, TopicPromise
    <3> HIDE DEF c
    <3>4. TopicPromise(f, [pc |-> "confirm"], bindings'[N(f)], worker'[N(f)])
      BY <3>2, <3>3 DEF TopicPromise, Making
    <3> QED  BY <1>12, <2>1, <2>2, <3>4
  <2> QED  BY <1>11, <1>18, <2>1, <2>2 DEF Activate, Transacts
<1> QED
  BY <1>5, <1>6, <1>7, <1>8, <1>9, <1>15, <1>16, <1>17, <1>18 DEF CreatorAct

LEMMA PoolActMoved ==
    ASSUME PInv, NEW s \in flight[Pool].todo, Effect(Pool), PoolAct(s)
    PROVE  Moved(Pool)
<1>1. /\ LInv /\ Pool \in Flights /\ Pool \notin Creators
      /\ bindings = [n \in Nodes |-> bindings[n]]
      /\ s.id \in granted /\ s.id.topic = NoTopic
  BY Names, Holding DEF PInv, LInv, IInv, TypeOK, Pending
<1>2. s.id.node \in Nodes /\ bindings[s.id.node] \in Binding
  BY <1>1 DEF LInv, IInv, TypeOK, Identity
<1>3. "delete" \notin Relying /\ "next" \notin Relying
  BY DEF Relying, Making, Verifying
<1>4. ASSUME PoolEnds PROVE Moved(Pool)
  BY <1>1, <1>4, PoolMoved
<1>5. ASSUME NEW pc \in {"delete", "next"}, NEW id, NEW boots, PoolTakes(s, pc, id, boots), ~boots
      PROVE  Moved(Pool)
  BY <1>1, <1>3, <1>5, MovedFree
<1>6. ASSUME NEW pc \in {"provision", "reconcile"}, NEW boots, PoolTakes(s, pc, s.id, boots),
             bindings'[s.id.node].gen = s.id.gen =>
                /\ bindings'[s.id.node].status # "retiring"
                /\ pc = "provision" => bindings'[s.id.node].resources = NoResources
      PROVE  Moved(Pool)
  <2>1. /\ flight'[Pool].pc = pc /\ flight'[Pool].id = s.id
        /\ flight'[Pool].todo \subseteq flight[Pool].todo
    BY <1>1, <1>6, PoolTook
  <2>2. bindings'[s.id.node].gen = s.id.gen =>
          PoolPromise(Pool, flight'[Pool], bindings'[s.id.node], worker'[s.id.node])
    BY <1>1, <1>6, <2>1 DEF PoolPromise, Retiring
  <2> QED  BY <1>1, <2>1, <2>2 DEF Moved, OwnPromise
<1> DEFINE no == FALSE
           yes == TRUE
           c == [bindings[s.id.node] EXCEPT !.status = "pool-provisioning"]
<1>7. ~no
  OBVIOUS
<1>8. /\ c.status = "pool-provisioning" /\ c.resources = bindings[s.id.node].resources
      /\ c.gen = bindings[s.id.node].gen
  BY <1>2 DEF Binding
<1> HIDE DEF no, yes, c
<1>9. CASE PoolRetires(s)
  <2>1. (\E id : PoolTakes(s, "delete", id, no)) \/ PoolEnds
    BY <1>9 DEF PoolRetires, no
  <2> QED  BY <1>4, <1>5, <1>7, <2>1
<1>10. CASE PoolReconciles(s)
  <2>1. \/ BeginAvailableReconciliation(s.id) /\ PoolTakes(s, "reconcile", s.id, no)
        \/ PoolTakes(s, "next", NoId, no)
    BY <1>10 DEF PoolReconciles, no
  <2>2. ASSUME BeginAvailableReconciliation(s.id)
        PROVE  bindings'[s.id.node].status = "pool-provisioning"
    <3>1. bindings'[s.id.node] = c
      BY <1>1, <1>2, <2>2 DEF BeginAvailableReconciliation, Write, c
    <3> QED  BY <1>8, <3>1
  <2> QED  BY <1>5, <1>6, <1>7, <2>1, <2>2
<1>11. CASE PoolBootstraps(s)
  <2> DEFINE pc == IF s.was.resources = NoResources THEN "provision" ELSE "reconcile"
  <2>1. \/ PoolTakes(s, pc, s.id, yes) /\ UNCHANGED vars
        \/ PoolTakes(s, pc, s.id, yes) /\ UpdateStatus(s.id, "pool-provisioning")
        \/ PoolEnds
    BY <1>11 DEF PoolBootstraps, yes
  <2>2. /\ pc \in {"provision", "reconcile"}
        /\ pc = "provision" => s.was.resources = NoResources
    OBVIOUS
  <2> HIDE DEF pc
  <2>3. ASSUME UNCHANGED vars \/ UpdateStatus(s.id, "pool-provisioning"),
               bindings'[s.id.node].gen = s.id.gen
        PROVE  /\ bindings'[s.id.node].status # "retiring"
               /\ pc = "provision" => bindings'[s.id.node].resources = NoResources
    <3>1. bindings[s.id.node].gen = s.id.gen
      BY <1>1, <2>3, StaysCurrent
    <3>2. SnapshotPromise(s, bindings[s.id.node])
      BY <1>1, <3>1 DEF PInv, Promise, TodoPromise
    <3>3. s.was.status \in {"pool-reserved", "pool-provisioning"}
      BY <1>11 DEF PoolBootstraps, Reservation
    <3>4. \/ bindings'[s.id.node] = bindings[s.id.node]
          \/ bindings'[s.id.node] = c
      BY <1>1, <1>2, <2>3 DEF UpdateStatus, Write, vars, c
    <3> QED  BY <1>8, <2>2, <3>2, <3>3, <3>4 DEF SnapshotPromise
  <2> QED  BY <1>4, <1>6, <2>1, <2>2, <2>3
<1> QED  BY <1>9, <1>10, <1>11 DEF PoolAct

LEMMA MovedKeeps ==
    ASSUME PInv, NEW f \in Flights, Effect(f), Moved(f)
    PROVE  Promise(f, flight'[f], bindings', worker')
  BY TodoKept DEF Moved, Promise

(* A new pool flight knows the bindings as they are.                       *)
LEMMA PoolStartPromises ==
    ASSUME PInv, NEW warm, NEW repairOnly, NEW continueOnError, NEW waiting,
           PoolStart(warm, repairOnly, continueOnError, waiting)
    PROVE  Promise(Pool, flight'[Pool], bindings', worker')
<1> DEFINE slots == {n \in Nodes : /\ bindings'[n].status \notin {"absent", "retired"}
                                   /\ ~PoolSkips(bindings'[n], warm, repairOnly)}
           todo == {Snapshot(n, bindings'[n]) : n \in slots}
           v == [Idle EXCEPT !.pc = "next", !.todo = todo]
<1>1. flight'[Pool] = v
  BY Names DEF PoolStart
<1>2. v.pc = "next" /\ v.todo = todo
  BY DEF Idle
<1>3. ASSUME NEW s \in todo PROVE s.was = bindings'[s.id.node]
  BY DEF Snapshot, IdentityOf
<1> HIDE DEF v, todo
<1>4. TodoPromise(v, bindings')
  BY <1>2, <1>3 DEF TodoPromise, SnapshotPromise
<1>5. OwnPromise(Pool, v, bindings', worker')
  BY <1>2 DEF OwnPromise, Engaged, Making, Verifying, Recycling, Retiring, Serving
<1> QED  BY <1>1, <1>4, <1>5 DEF Promise

-----------------------------------------------------------------------------
(* After a restart no flight relies on anything.                           *)
LEMMA RestartPromises ==
    ASSUME PInv, Restart, NEW f \in Flights
    PROVE  Promise(f, flight'[f], bindings', worker')
<1> DEFINE ends == [Idle EXCEPT !.pc = "failed"]
           stuck == [Idle EXCEPT !.pc = "stuck"]
           interrupted == [Idle EXCEPT !.pc = "interrupted", !.id = Id(f)]
           refused == [Idle EXCEPT !.pc = "refused"]
<1>1. flight'[f] = AfterRestart(f)
  BY DEF Restart
<1>2. /\ flight'[f] = flight[f] /\ flight[f].pc \in Ended
      \/ flight'[f] \in {Idle, ends, stuck, interrupted, refused}
  BY <1>1 DEF AfterRestart
<1>3. \A v \in {Idle, ends, stuck, interrupted, refused} :
         v.pc \notin Relying \cup Retiring /\ v.todo = {}
  <2>1. /\ ends.pc = "failed" /\ stuck.pc = "stuck" /\ refused.pc = "refused"
        /\ ends.todo = {} /\ stuck.todo = {} /\ refused.todo = {}
    BY DEF Idle
  <2>2. interrupted.pc = "interrupted" /\ interrupted.todo = {}
    BY DEF Idle
  <2> HIDE DEF ends, stuck, interrupted, refused
  <2> QED  BY <2>1, <2>2, IdleState DEF Relying, Making, Verifying, Retiring
<1>4. \A pc \in Ended : pc \notin Relying \cup Retiring
  BY DEF Ended, Relying, Making, Verifying, Retiring
<1> HIDE DEF ends, stuck, interrupted, refused
<1>5. flight'[f].pc \notin Relying \cup Retiring
  BY <1>2, <1>3, <1>4
<1>6. OwnPromise(f, flight'[f], bindings', worker')
  BY <1>5, NoPromise
<1>7. f = Pool => TodoPromise(flight'[f], bindings')
  <2>1. CASE flight'[f] = flight[f]
    BY <2>1 DEF PInv, Promise, TodoPromise, Restart, vars
  <2>2. CASE flight'[f].todo = {}
    BY <2>2 DEF TodoPromise
  <2> QED  BY <1>2, <1>3, <2>1, <2>2
<1> QED  BY <1>6, <1>7 DEF Promise

(* One step moves one flight, which then relies on what is so; what it     *)
(* changed leaves the promises to the others.                              *)
LEMMA PromisesKept ==
    ASSUME PInv, LifecycleNext, NEW g \in Flights
    PROVE  Promise(g, flight'[g], bindings', worker')
<1> DEFINE Kept == Promise(g, flight'[g], bindings', worker')
<1>1. LInv
  BY DEF PInv
<1>2. ASSUME NEW f \in Flights, Alone(f), Effect(f), Promise(f, flight'[f], bindings', worker')
      PROVE  Kept
  BY <1>2, OthersKeepPromise
<1>3. ASSUME NEW f \in Flights, Alone(f), Effect(f), Moved(f) PROVE Kept
  BY <1>2, <1>3, MovedKeeps
<1> HIDE DEF Kept
<1>4. ASSUME NEW warm, NEW repairOnly, NEW continueOnError, NEW waiting \in SUBSET Creators,
             PoolStart(warm, repairOnly, continueOnError, waiting)
      PROVE  Kept
  <2>1. Alone(Pool) /\ Effect(Pool)
    BY <1>1, <1>4, PoolStartAlone, PoolStartMints DEF Effect
  <2>2. Promise(Pool, flight'[Pool], bindings', worker')
    BY <1>4, PoolStartPromises
  <2> QED  BY <1>2, <2>1, <2>2, Names
<1>5. ASSUME NEW warm \in WarmTargets, PoolStart(warm, FALSE, FALSE, {}) PROVE Kept
  <2> DEFINE no == FALSE
  <2> HIDE DEF no
  <2>1. PoolStart(warm, no, no, {})
    BY <1>5 DEF no
  <2> QED  BY <1>4, <2>1
<1>6. ASSUME NEW s \in flight[Pool].todo, PoolAct(s) PROVE Kept
  BY <1>1, <1>3, <1>6, Names, PoolAlone, PoolEffects, PoolActMoved DEF Effect
<1>7. ASSUME PoolFinishes PROVE Kept
  <2>1. Alone(Pool) /\ Effect(Pool)
    BY <1>1, <1>7, PoolAlone DEF PoolFinishes, Quiet, Effect
  <2>2. Moved(Pool)
    BY <1>1, <1>7, PoolMoved DEF PoolFinishes
  <2> QED  BY <1>3, <2>1, <2>2, Names
<1>8. ASSUME NEW f \in Flights, Shared(f) PROVE Kept
  BY <1>1, <1>3, <1>8, SharedAlone, SharedEffects, SharedMoved DEF Effect
<1>9. ASSUME NEW f \in Creators \cup Deleters, Retire(f) PROVE Kept
  BY <1>1, <1>3, <1>9, Names, RetireAlone, RetireEffects, RetireMoved DEF Effect
<1>10. ASSUME NEW f \in Creators, CreatorAct(f) PROVE Kept
  <2>1. CASE StartsPool(f)
    <3>1. {f} \in SUBSET Creators
      OBVIOUS
    <3> QED  BY <1>4, <2>1, <3>1 DEF StartsPool
  <2>2. CASE ~StartsPool(f)
    <3>1. f \in Flights /\ Alone(f) /\ Effect(f)
      BY <1>1, <1>10, <2>2, CreatorAlone, CreatorEffects, Names DEF Effect
    <3> QED  BY <1>3, <1>10, <2>2, <3>1, CreatorMoved
  <2> QED  BY <2>1, <2>2
<1>11. ASSUME NEW f \in Flights, \/ \E t \in Topics : f = Creator(t) /\ Create(t)
                                 \/ f \in Deleters /\ Delete(f)
       PROVE  Kept
  <2>1. Alone(f) /\ Effect(f) /\ f # Pool
    BY <1>1, <1>11, GoAlone, Names DEF Create, Delete, Quiet, Effect
  <2>2. flight'[f].pc \in {"list", "locate"}
    BY <1>1, <1>11, Went DEF Create, Delete
  <2>3. Moved(f)
    BY <2>1, <2>2 DEF Moved, OwnPromise, Engaged, Making, Verifying, Recycling, Retiring, Serving
  <2> QED  BY <1>3, <2>1, <2>3
<1>12. ASSUME Restart PROVE Kept
  BY <1>12, RestartPromises DEF Kept
<1>13. ASSUME NEW t \in Topics, Create(t) PROVE Kept
  BY <1>11, <1>13, Names
<1>14. ASSUME NEW f \in Deleters, Delete(f) PROVE Kept
  BY <1>11, <1>14, Names
<1>15. Kept
  BY <1>5, <1>6, <1>7, <1>8, <1>9, <1>10, <1>12, <1>13, <1>14, Actions
<1> QED  BY <1>15 DEF Kept

LEMMA PInvInitially == LifecycleInit => PInv
<1> SUFFICES ASSUME LifecycleInit PROVE PInv
  OBVIOUS
<1>1. LInv
  BY LInvInitially
<1>2. ASSUME NEW n \in Nodes PROVE Matches(bindings[n], worker[n])
  <2>1. CASE bindings[n] = Absent
    <3>1. worker[n] = NoWorker
      BY <2>1 DEF LifecycleInit, Bound, Absent
    <3> QED  BY <2>1, <3>1 DEF Matches, Absent, NoWorker
  <2>2. CASE \E t \in Topics, r \in Resources : bindings[n] = Legacy(t, r)
    <3>1. PICK t \in Topics, r \in Resources : bindings[n] = Legacy(t, r)
      BY <2>2
    <3> DEFINE b == Legacy(t, r)
               w == LegacyWorker(t)
    <3>2. /\ b.status = "ready" /\ b.gen = 1 /\ b.topic = t /\ b.session /\ t # NoTopic
      BY ConstantsAssumption DEF Legacy
    <3>3. w.installed = 1 /\ w.data = {t} /\ ~w.deleted
      BY DEF LegacyWorker, NoWorker
    <3> HIDE DEF b, w
    <3>4. bindings[n] = b
      BY <3>1 DEF b
    <3>5. worker[n] = w
      BY <3>2, <3>4 DEF LifecycleInit, Bound, w
    <3> QED  BY <3>2, <3>3, <3>4, <3>5 DEF Matches
  <2> QED  BY <2>1, <2>2 DEF LifecycleInit, Init
<1>3. Lineage
  <2> SUFFICES ASSUME NEW id \in granted, bindings[id.node].gen = id.gen + 1, Bound(id.node)
               PROVE  FALSE
    BY DEF Lineage
  <2>1. PICK n \in Nodes : id = IdentityOf(n, bindings[n])
    BY DEF LifecycleInit, Init
  <2>2. id.node = n /\ id.gen = bindings[n].gen
    BY <2>1 DEF IdentityOf
  <2>3. bindings[n].gen \in Nat
    BY <1>1 DEF LInv, IInv, TypeOK, Binding
  <2> QED  BY <2>2, <2>3
<1>4. ASSUME NEW f \in Flights PROVE Promise(f, flight[f], bindings, worker)
  <2>1. flight[f] = Idle
    BY DEF LifecycleInit
  <2>2. "idle" \notin Engaged
    BY DEF Engaged, Making, Verifying, Recycling, Retiring, Serving
  <2> QED  BY <2>1, <2>2, IdleState DEF Promise, OwnPromise, TodoPromise
<1> QED  BY <1>1, <1>2, <1>3, <1>4 DEF PInv

LEMMA PInvKept == PInv /\ [LifecycleNext]_allvars => PInv'
<1> SUFFICES ASSUME PInv, [LifecycleNext]_allvars PROVE PInv'
  OBVIOUS
<1>1. LInv' /\ Lineage'
  BY LInvKept, LineageKept DEF PInv
<1>2. ASSUME NEW n \in Nodes PROVE Matches(bindings'[n], worker'[n])
  BY <1>2, MatchesKept
<1>3. ASSUME NEW f \in Flights PROVE Promise(f, flight'[f], bindings', worker')
  <2>1. CASE LifecycleNext
    BY <1>3, <2>1, PromisesKept
  <2>2. CASE UNCHANGED allvars
    BY <2>2 DEF allvars, vars, lifecycle, PInv
  <2> QED  BY <2>1, <2>2
<1> QED  BY <1>1, <1>2, <1>3 DEF PInv

(* The record of a Worker, the Worker and what every flight relies on      *)
(* always go together.                                                     *)
THEOREM FlightsKeepFaith == LifecycleSpec => []PInv
  BY PInvInitially, PInvKept, PTL DEF LifecycleSpec

(* A ready Topic is served by the generation installed on its Worker,      *)
(* whose volume holds nobody else's data.                                  *)
THEOREM TopicsIsolated == LifecycleSpec => []TopicIsolation
<1>1. PInv => TopicIsolation
  <2> SUFFICES ASSUME PInv, NEW n \in Nodes, bindings[n].status = "ready"
               PROVE  /\ worker[n].installed = bindings[n].gen
                      /\ ~worker[n].deleted
                      /\ worker[n].data \subseteq {bindings[n].topic}
    BY DEF TopicIsolation
  <2>1. Matches(bindings[n], worker[n]) /\ bindings[n].topic # NoTopic
    BY NodeFacts DEF UnboundStatus
  <2> QED  BY <2>1 DEF Matches
<1> QED  BY <1>1, FlightsKeepFaith, PTL

(* A Worker that can be allocated holds no Topic's data.                   *)
THEOREM IdleWorkersAreClean == LifecycleSpec => []AllocatableIsClean
<1>1. PInv => AllocatableIsClean
  BY DEF PInv, AllocatableIsClean, IdleInSlot, Bound, Matches
<1> QED  BY <1>1, FlightsKeepFaith, PTL

-----------------------------------------------------------------------------
(* A Worker is put up for allocation only with the image of the release    *)
(* that runs: a Topic cannot be prepared on any other.                     *)
THEOREM AllocationIsCurrent == LifecycleSpec => PublishedIsCurrent
<1> DEFINE UpToDate == \A n \in Nodes :
        bindings[n].status = "pool-provisioning" /\ bindings'[n].status = "available" =>
            ~worker[n].outdated
<1>1. ASSUME PInv, [LifecycleNext]_allvars PROVE UpToDate
  <2> SUFFICES ASSUME NEW n \in Nodes, bindings[n].status = "pool-provisioning",
                      bindings'[n].status = "available"
               PROVE  ~worker[n].outdated
    OBVIOUS
  <2>1. bindings'[n] # bindings[n]
    OBVIOUS
  <2>2. PICK f \in Flights : Effect(f)
    BY <1>1, <2>1, Effects DEF PInv, allvars, vars, Restart
  <2>3. Touches(f, n, bindings[n], worker[n], bindings'[n], worker'[n])
    BY <1>1, <2>2, Touched DEF PInv
  <2>4. bindings[n] \in Binding
    BY <1>1, NodeFacts
  <2>5. n = N(f) /\ OfferedAs(f, bindings[n], bindings'[n])
    <3>1. Wrote(f, n, bindings[n], worker[n], bindings'[n])
      BY <2>1, <2>3 DEF Touches, Absent
    <3>2. ~LoweredTo(f, n, bindings[n], bindings'[n]) /\ ~RetiredAs(f, bindings[n], bindings'[n])
      BY <2>4 DEF LoweredTo, RetiredAs, Binding
    <3>3. ~GivenTo(f, bindings[n], bindings'[n]) /\ ~TakenFrom(f, bindings[n], bindings'[n])
      BY <2>4 DEF GivenTo, TakenFrom, Binding
    <3>4. ~RecordedAs(f, bindings[n], bindings'[n])
      BY <2>4 DEF RecordedAs, Binding
    <3>5. ~PreparedAs(f, bindings[n], worker[n], bindings'[n])
      BY <2>4 DEF PreparedAs, Binding
    <3> QED  BY <3>1, <3>2, <3>3, <3>4, <3>5 DEF Wrote
  <2>6. flight[f].pc = "publish" /\ flight[f].pc \in Engaged /\ bindings[N(f)].gen = Id(f).gen
    BY <2>5 DEF OfferedAs, Engaged, Verifying
  <2>7. Id(f).topic = NoTopic
    BY <1>1, <2>6, EngagedHolds DEF PInv, Verifying
  <2> QED  BY <1>1, <2>5, <2>6, <2>7, Promised DEF PoolPromise
<1>2. PInv /\ [LifecycleNext]_allvars => [UpToDate]_allvars
  BY <1>1
<1> QED  BY <1>2, FlightsKeepFaith, PTL DEF LifecycleSpec, PublishedIsCurrent

-----------------------------------------------------------------------------
(* A creation is done only when the boundary confirmed it.                 *)
Succeeds(f) == flight[f].pc # "done" /\ flight'[f].pc = "done"

LEMMA OtherwiseNotDone ==
    ASSUME LInv, NEW f \in Creators, NEW pc, pc # "done", NEW id,
           Go(f, pc) \/ GoWith(f, pc, id)
    PROVE  ~Succeeds(f)
<1>1. f \in Flights
  BY Names
<1>2. flight'[f].pc = pc
  BY <1>1, Went
<1> QED  BY <1>2 DEF Succeeds

LEMMA FailureIsNotDone ==
    ASSUME LInv, NEW f \in Creators, Fails(f)
    PROVE  ~Succeeds(f)
<1>1. \/ GoWith(f, "stuck", NoId) \/ Go(f, "fail") \/ Go(f, "demote")
  BY Names DEF Fails
<1> QED  BY <1>1, OtherwiseNotDone

LEMMA AbortIsNotDone ==
    ASSUME LInv, NEW f \in Creators, Retired(f)
    PROVE  ~Succeeds(f)
<1>1. GoWith(f, "aborted", NoId)
  BY DEF Retired
<1> QED  BY <1>1, OtherwiseNotDone

LEMMA SharedSucceeds ==
    ASSUME LInv, NEW f \in Creators, Shared(f), Succeeds(f)
    PROVE  Confirm(f)
<1> USE FailureIsNotDone, OtherwiseNotDone
<1>1. f \in Flights /\ f # Pool /\ flight = [g \in Flights |-> flight[g]] /\ flight[f] \in FlightState
  BY Names, Holding DEF LInv, FlightsFit
<1>2. ~RecordResources(f)
  BY DEF RecordResources, Transacts
<1>3. ~Prove(f)
  <2> DEFINE pc == IF ~Unclaimed(f) THEN "session"
                   ELSE IF flight[f].updated THEN "recheck" ELSE "publish"
  <2>1. pc # "done"
    OBVIOUS
  <2>2. Prove(f) => Go(f, pc)
    BY DEF Prove
  <2> HIDE DEF pc
  <2> QED  BY <2>1, <2>2
<1>4. ~Publish(f)
  BY <1>1 DEF Publish, Transacts
<1>5. ~LookUp(f) /\ ~Demote(f)
  BY <1>1 DEF LookUp, Demote, CatchEnds
<1>6. ~Release(f)
  BY <1>1, AbortIsNotDone DEF Release, Transacts
<1>7. ASSUME NEW pc, pc # "done", NEW u, Marks(f, pc, u) PROVE FALSE
  BY <1>1, <1>7, Marked DEF Succeeds
<1>8. ~Provision(f) /\ ~Reconcile(f) /\ ~Sleep(f)
  <2> DEFINE pc == IF flight[f].boots THEN "record" ELSE "prove"
  <2>1. pc # "done"
    OBVIOUS
  <2>2. Reconcile(f) => Fails(f) \/ \E u : Marks(f, pc, u)
    BY DEF Reconcile, Answered, Marks
  <2>3. Provision(f) => Fails(f) \/ Marks(f, "record", TRUE)
    BY DEF Provision, Answered, Marks
  <2>4. Sleep(f) => Fails(f) \/ \E u : Marks(f, "asleep", u)
    BY DEF Sleep, Answered, Marks
  <2> HIDE DEF pc
  <2> QED  BY <1>7, <2>1, <2>2, <2>3, <2>4
<1>9. ~Recheck(f) /\ ~Rebind(f) /\ ~Recycle(f) /\ ~DeleteWorker(f) /\ ~Unanswered(f)
  BY DEF Recheck, Rebind, Recycle, Rotate, DeleteWorker, Unanswered, Answered
<1> QED  BY <1>2, <1>3, <1>4, <1>5, <1>6, <1>7, <1>8, <1>9 DEF Shared, Call

LEMMA RetireNeverSucceeds ==
    ASSUME LInv, NEW f \in Creators, Retire(f)
    PROVE  ~Succeeds(f)
<1> USE FailureIsNotDone, OtherwiseNotDone, AbortIsNotDone
<1> DEFINE pc == IF Rec(f).slot > Capacity THEN "overflow" ELSE "sleep"
<1>1. pc # "done"
  OBVIOUS
<1>2. Complete(f) => Go(f, pc) \/ Fails(f)
  BY DEF Complete
<1> HIDE DEF pc
<1> QED  BY <1>1, <1>2 DEF Retire, Locate, BeginRecycling, Settle, FenceOverflow, Asleep, Transacts

LEMMA CreatorNeverSucceeds ==
    ASSUME LInv, NEW f \in Creators, CreatorAct(f), ~StartsPool(f)
    PROVE  ~Succeeds(f)
<1> USE FailureIsNotDone, OtherwiseNotDone
<1>1. flight = [g \in Flights |-> flight[g]] /\ flight[f] \in FlightState /\ f \in Flights
  BY Names, Holding DEF LInv, FlightsFit
<1>2. ~(ListAvailable(f) /\ Succeeds(f))
  <2> DEFINE idle == {Snapshot(n, bindings[n]) : n \in {m \in Nodes : IdleInSlot(m)}}
             more == [flight[f] EXCEPT !.pc = "bootstrap", !.round = flight[f].round + 1]
             look == [flight[f] EXCEPT !.pc = "claim", !.todo = idle]
  <2>1. ListAvailable(f) => flight'[f] = more \/ flight'[f] = look
    BY <1>1 DEF ListAvailable
  <2>2. more.pc = "bootstrap" /\ look.pc = "claim"
    BY <1>1 DEF FlightState
  <2> HIDE DEF more, look
  <2> QED  BY <2>1, <2>2 DEF Succeeds
<1>3. ~(BootstrapOrJoin(f) /\ Succeeds(f))
  BY DEF BootstrapOrJoin, StartsPool
<1>4. ~(Claim(f) /\ Succeeds(f))
  <2>1. ASSUME NEW s \in flight[f].todo
        PROVE  LET rest == [flight[f] EXCEPT !.todo = @ \ {s}]
                   v == [rest EXCEPT !.pc = "reconcile", !.id = s.id, !.updated = FALSE]
               IN  v.pc = "reconcile" /\ rest.pc = flight[f].pc
    BY <1>1 DEF FlightState
  <2>2. ASSUME NEW v, flight' = [flight EXCEPT ![f] = v] PROVE flight'[f] = v
    BY <1>1, <2>2
  <2>3. ASSUME Claim(f), NEW s \in flight[f].todo,
               LET rest == [flight[f] EXCEPT !.todo = @ \ {s}] IN
               \/ flight' = [flight EXCEPT ![f] = [rest EXCEPT !.pc = "reconcile", !.id = s.id,
                                                               !.updated = FALSE]]
               \/ flight' = [flight EXCEPT ![f] = rest]
        PROVE  ~Succeeds(f)
    <3> DEFINE rest == [flight[f] EXCEPT !.todo = @ \ {s}]
               v == [rest EXCEPT !.pc = "reconcile", !.id = s.id, !.updated = FALSE]
    <3>1. v.pc = "reconcile" /\ rest.pc = flight[f].pc
      BY <2>1
    <3>2. flight' = [flight EXCEPT ![f] = v] \/ flight' = [flight EXCEPT ![f] = rest]
      BY <2>3
    <3> HIDE DEF v, rest
    <3> QED  BY <2>2, <3>1, <3>2 DEF Succeeds
  <2> QED  BY <2>3 DEF Claim
<1>5. ~(BeginPreparing(f) /\ Succeeds(f))
  <2> DEFINE pc == IF Rec(f).status = "reserved" /\ Rec(f).resources # NoResources /\ Id(f).gen > 1
                   THEN "rebind" ELSE "provision"
  <2>1. pc # "done"
    OBVIOUS
  <2>2. BeginPreparing(f) => Go(f, "session") \/ Go(f, pc) \/ Fails(f)
    BY DEF BeginPreparing
  <2> HIDE DEF pc
  <2> QED  BY <2>1, <2>2
<1>6. ~((BindTopic(f) \/ RecordFailure(f) \/ Resume(f) \/ RetryCleanup(f)) /\ Succeeds(f))
  BY DEF BindTopic, RecordFailure, Resume, RetryCleanup
<1>7. ~((CreateSession(f) \/ AdoptSession(f) \/ Activate(f)) /\ Succeeds(f))
  BY DEF CreateSession, AdoptSession, Activate, Transacts, Answered
<1> QED  BY <1>2, <1>3, <1>4, <1>5, <1>6, <1>7 DEF CreatorAct

LEMMA OnlyConfirmed ==
    ASSUME LInv, LifecycleNext, NEW f \in Creators, Succeeds(f)
    PROVE  Confirm(f) /\ GoWith(f, "done", NoId)
<1>1. f \in Flights /\ f # Pool
  BY Names
<1>2. ASSUME NEW g \in Flights, Alone(g) PROVE g = f
  <2>1. SUFFICES ASSUME g # f PROVE FALSE
    OBVIOUS
  <2>2. Undisturbed(f)
    BY <1>1, <1>2, <2>1 DEF Alone
  <2> QED  BY <2>2 DEF Undisturbed, Succeeds, Waiting
<1>3. ASSUME NEW warm, NEW repairOnly, NEW continueOnError, NEW waiting \in SUBSET Creators,
             PoolStart(warm, repairOnly, continueOnError, waiting)
      PROVE  FALSE
  BY <1>1, <1>2, <1>3, PoolStartAlone, Names
<1>4. ASSUME NEW warm \in WarmTargets, PoolStart(warm, FALSE, FALSE, {}) PROVE FALSE
  <2> DEFINE no == FALSE
  <2> HIDE DEF no
  <2>1. PoolStart(warm, no, no, {})
    BY <1>4 DEF no
  <2> QED  BY <1>3, <2>1
<1>5. ASSUME NEW s \in flight[Pool].todo, PoolAct(s) PROVE FALSE
  BY <1>1, <1>2, <1>5, PoolAlone, Names
<1>6. ~PoolFinishes
  BY <1>1, <1>2, PoolAlone, Names
<1>7. ASSUME NEW g \in Flights, Shared(g) PROVE Confirm(f)
  BY <1>2, <1>7, SharedAlone, SharedSucceeds
<1>8. ASSUME NEW g \in Creators \cup Deleters, Retire(g) PROVE FALSE
  BY <1>2, <1>8, RetireAlone, RetireNeverSucceeds, Names
<1>9. ASSUME NEW g \in Creators, CreatorAct(g) PROVE FALSE
  <2>1. CASE StartsPool(g)
    <3>1. {g} \in SUBSET Creators
      OBVIOUS
    <3> QED  BY <1>3, <2>1, <3>1 DEF StartsPool
  <2>2. CASE ~StartsPool(g)
    BY <1>2, <1>9, <2>2, CreatorAlone, CreatorNeverSucceeds, Names
  <2> QED  BY <2>1, <2>2
<1>10. ASSUME NEW t \in Topics, Create(t) PROVE FALSE
  <2>1. Creator(t) \in Flights /\ Creator(t) \in Creators /\ Go(Creator(t), "list")
    BY <1>10, Names DEF Create
  <2>2. Creator(t) = f
    BY <1>2, <2>1, GoAlone
  <2> QED  BY <2>1, <2>2, OtherwiseNotDone
<1>11. ASSUME NEW g \in Deleters, Delete(g) PROVE FALSE
  <2>1. g \in Flights /\ g \notin Creators /\ Go(g, "locate")
    BY <1>11, Names DEF Delete
  <2> QED  BY <1>2, <2>1, GoAlone
<1>12. ~Restart
  <2>1. SUFFICES ASSUME Restart PROVE FALSE
    OBVIOUS
  <2>2. flight'[f] = AfterRestart(f)
    BY <1>1, <2>1 DEF Restart
  <2> DEFINE stuck == [Idle EXCEPT !.pc = "stuck"]
             interrupted == [Idle EXCEPT !.pc = "interrupted", !.id = Id(f)]
             refused == [Idle EXCEPT !.pc = "refused"]
  <2>3. f \notin Deleters
    BY Names
  <2>4. flight'[f] = flight[f] \/ flight'[f] \in {stuck, interrupted, refused}
    BY <1>1, <2>2, <2>3 DEF AfterRestart
  <2>5. stuck.pc = "stuck" /\ interrupted.pc = "interrupted" /\ refused.pc = "refused"
    BY DEF Idle
  <2> HIDE DEF stuck, interrupted, refused
  <2> QED  BY <2>4, <2>5 DEF Succeeds
<1>13. Confirm(f)
  BY <1>4, <1>5, <1>6, <1>7, <1>8, <1>9, <1>10, <1>11, <1>12, Actions
<1> QED  BY <1>13, FailureIsNotDone DEF Confirm, Answered

(* A creation succeeds only with its Topic bound and ready, and its        *)
(* session on the volume of the generation installed there.                *)
THEOREM CreationsEndReady == LifecycleSpec => DoneIsReady
<1> DEFINE Ready(t) == \E n \in Holders(t) : /\ bindings[n].status = "ready"
                                             /\ bindings[n].session
                                             /\ worker[n].installed = bindings[n].gen
                                             /\ worker[n].data = {t}
           Done == \A t \in Topics :
              flight[Creator(t)].pc # "done" /\ flight'[Creator(t)].pc = "done" => Ready(t)
<1>1. ASSUME PInv, [LifecycleNext]_allvars PROVE Done
  <2> SUFFICES ASSUME NEW t \in Topics, Succeeds(Creator(t)) PROVE Ready(t)
    BY DEF Succeeds
  <2> DEFINE f == Creator(t)
             n == N(f)
             b == bindings[n]
             w == worker[n]
  <2>1. f \in Creators /\ f \in Flights /\ f[2] = t /\ t # NoTopic
    BY Names, ConstantsAssumption
  <2>2. flight' # flight
    BY DEF Succeeds
  <2>3. Confirm(f)
    BY <1>1, <2>1, <2>2, OnlyConfirmed DEF allvars, lifecycle, PInv
  <2>4. flight[f].pc = "confirm" /\ b.gen = Id(f).gen /\ w.installed = Id(f).gen
    BY <2>3 DEF Confirm, Authorized, Runs, N
  <2>5. flight[f].pc \in Engaged /\ Id(f).topic = t
    BY <1>1, <2>1, <2>4, EngagedHolds DEF PInv, Serving, Engaged
  <2>6. n \in Nodes /\ b.topic = t /\ b.session /\ b.status = "ready"
    BY <1>1, <2>1, <2>4, <2>5, Promised DEF TopicPromise
  <2>7. w \in WorkerState /\ Matches(b, w)
    BY <1>1, <2>6, NodeFacts
  <2>8. w.data = {t}
    BY <2>1, <2>6, <2>7 DEF Matches
  <2>9. n \in Holders(t)
    BY <2>6 DEF Holders, Live
  <2> QED  BY <2>4, <2>6, <2>8, <2>9
<1>2. PInv /\ [LifecycleNext]_allvars => [Done]_allvars
  BY <1>1
<1> QED  BY <1>2, FlightsKeepFaith, PTL DEF LifecycleSpec, DoneIsReady

=============================================================================
