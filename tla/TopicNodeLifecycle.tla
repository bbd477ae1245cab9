------------------------- MODULE TopicNodeLifecycle -------------------------
(***************************************************************************)
(* control-plane/topic-node-lifecycle.ts over the table of NodeBindings:   *)
(* the asynchronous operations ("flights") that take a Worker from an      *)
(* empty reservation to an idle Worker, bind it to a Topic, and recycle it *)
(* for the next one.                                                       *)
(*                                                                         *)
(* One step of a flight is the code between two awaits that matter: one    *)
(* transaction of the table, one call of the infrastructure boundary, or   *)
(* one exchange with the Worker.  Flights run concurrently and hold the    *)
(* binding their last transaction returned.  A call of the boundary may be *)
(* refused, fail without effect, or take effect and lose its answer.  The  *)
(* boundary itself (infrastructure/node-controller.ts) runs one call at a  *)
(* time, and is modelled here by what a call checks and changes.           *)
(***************************************************************************)
EXTENDS NodeBindings

CONSTANTS
    Deletions,      \* names of the deletions of one Topic that may overlap
    WarmTargets,    \* warm capacities the settings and the startup ask for
    MaxRestarts     \* bound on process restarts

ASSUME LifecycleAssumption ==
    /\ WarmTargets \subseteq 0..Capacity
    /\ MaxRestarts \in Nat
    /\ "create" \notin Deletions    \* a deletion is no creation

VARIABLES
    worker,         \* what runs at each node, and what the boundary knows of it
    flight,         \* the operation in progress of each flight
    call,           \* arguments of the shared pool flight
    restarts        \* restarts so far

lifecycle == <<worker, flight, call, restarts>>
allvars == <<vars, lifecycle>>

Pool == <<"pool", NoTopic>>                 \* poolFlight: at most one at a time
Creator(t) == <<"create", t>>               \* createRemoteTopicSession
Creators == {Creator(t) : t \in Topics}
Deleters == Deletions \X Topics             \* retire() from a deletion
Flights == {Pool} \cup Creators \cup Deleters

NoWarm == Capacity + 1                      \* warmCapacity left undefined
NoCall == [warm |-> NoWarm, repairOnly |-> FALSE, continueOnError |-> FALSE]
NoId == [node |-> "none", gen |-> 0, topic |-> NoTopic]
Idle == [pc |-> "idle", id |-> NoId, todo |-> {}, updated |-> FALSE, boots |-> FALSE, round |-> 0]

(* A Worker as the boundary sees it: the generation whose identity is      *)
(* installed, the Topics whose data its volume holds, whether its image is *)
(* outdated, its sleep policy, the generation whose isolation the boundary *)
(* has verified, and whether its resources were deleted.  The policy is    *)
(* "on" once its deployment was confirmed, and "entering" or "leaving"     *)
(* while the deployment that switches it is under way.                     *)
NoWorker == [installed |-> 0, data |-> {}, outdated |-> FALSE, sleep |-> "off", verified |-> 0,
             deleted |-> FALSE]
LegacyWorker(t) == [NoWorker EXCEPT !.installed = 1, !.data = {t}]

Ended == {"idle", "refused", "done", "aborted", "failed", "stuck", "interrupted"}

(* The binding a flight works on.                                          *)
Id(f) == flight[f].id
N(f) == Id(f).node
Rec(f) == bindings[N(f)]
Unclaimed(f) == Id(f).topic = NoTopic
Snapshot(n, b) == [id |-> IdentityOf(n, b), was |-> b]

Go(f, pc) == flight' = [flight EXCEPT ![f].pc = pc]
GoWith(f, pc, id) == flight' = [flight EXCEPT ![f] = [Idle EXCEPT !.pc = pc, !.id = id]]

PoolGoesOn ==
    /\ flight' = [flight EXCEPT ![Pool] = [Idle EXCEPT !.pc = "next", !.todo = flight[Pool].todo]]
    /\ UNCHANGED call

(* The pool flight ends: those who awaited it look again.                  *)
PoolEnds ==
    /\ flight' = [f \in Flights |->
                    IF f = Pool THEN Idle
                    ELSE IF flight[f].pc = "joined" THEN [flight[f] EXCEPT !.pc = "list"]
                    ELSE flight[f]]
    /\ call' = NoCall

PoolContinues == call.repairOnly \/ call.continueOnError

(* What an error does to a flight: the catch clauses.                      *)
Retiring == {"locate", "recycle-begin", "recycle", "settle", "complete", "overflow",
             "delete", "release", "sleep", "asleep"}

Fails(f) ==
    IF flight[f].pc \in Retiring /\ f # Pool
    THEN GoWith(f, IF f \in Creators THEN "stuck" ELSE "failed", NoId) /\ UNCHANGED call
    ELSE IF f \in Creators /\ ~Unclaimed(f) THEN Go(f, "fail") /\ UNCHANGED call
    ELSE IF f \in Creators \/ flight[f].boots THEN Go(f, "demote") /\ UNCHANGED call
    ELSE IF flight[f].pc \notin Retiring /\ PoolContinues THEN PoolGoesOn
    ELSE PoolEnds

-----------------------------------------------------------------------------
LifecycleInit ==
    /\ Init
    /\ worker = [n \in Nodes |-> IF Bound(n) THEN LegacyWorker(bindings[n].topic) ELSE NoWorker]
    /\ flight = [f \in Flights |-> Idle]
    /\ call = NoCall
    /\ restarts = 0

(* bootstrapPool() and the start of preparePool().  The flight keeps the   *)
(* bindings as they were; those it will skip are left out at once.         *)
PoolSkips(b, warm, repairOnly) ==
    LET pending == b.status \in {"pool-reserved", "pool-provisioning"}
        removed == \/ warm # NoWarm /\ b.slot \in (warm + 1)..Capacity
                      /\ (pending \/ b.status = "retiring")
                   \/ b.slot > Capacity /\ b.status = "retiring"
    IN  \/ b.topic # NoTopic
        \/ b.slot > Capacity /\ pending
        \/ repairOnly /\ pending /\ b.resources = NoResources
        \/ b.status = "retiring" /\ ~removed

PoolStart(warm, repairOnly, continueOnError, waiting) ==
    /\ flight[Pool] = Idle
    /\ EnsurePoolSlots(IF warm = NoWarm THEN 0 ELSE warm)
    /\ call' = [warm |-> warm, repairOnly |-> repairOnly, continueOnError |-> continueOnError]
    /\ LET slots == {n \in Nodes : /\ bindings'[n].status \notin {"absent", "retired"}
                                   /\ ~PoolSkips(bindings'[n], warm, repairOnly)}
       IN  flight' = [f \in Flights |->
              IF f = Pool THEN [Idle EXCEPT !.pc = "next",
                                            !.todo = {Snapshot(n, bindings'[n]) : n \in slots}]
              ELSE IF f \in waiting THEN [flight[f] EXCEPT !.pc = "joined"]
              ELSE flight[f]]
    /\ UNCHANGED <<worker, restarts>>

(* The slots in order; each is removed, reconciled or bootstrapped.        *)
FirstSlot(s) ==
    /\ flight[Pool].pc = "next"
    /\ s \in flight[Pool].todo
    /\ \A u \in flight[Pool].todo : s.was.slot <= u.was.slot

PoolTakes(s, pc, id, boots) ==
    flight' = [flight EXCEPT ![Pool] = [Idle EXCEPT !.pc = pc, !.id = id, !.boots = boots,
                                                    !.todo = flight[Pool].todo \ {s}]]

Reservation(s) == s.was.status \in {"pool-reserved", "pool-provisioning"}

Surplus(s) ==
    \/ s.was.status = "retiring"
    \/ call.warm # NoWarm /\ s.was.slot \in (call.warm + 1)..Capacity /\ Reservation(s)

PoolRetires(s) ==
    /\ FirstSlot(s)
    /\ Surplus(s)
    /\ \/ /\ s.was.status = "retiring"
          /\ PoolTakes(s, "delete", s.id, FALSE)
          /\ UNCHANGED <<vars, call>>
       \/ /\ s.was.status # "retiring"
          /\ Fence(s.id)
          /\ PoolTakes(s, "delete", [s.id EXCEPT !.gen = @ + 1], FALSE)
          /\ UNCHANGED call
       \/ /\ s.was.status # "retiring" /\ ~Current(s.id)
          /\ PoolEnds
          /\ UNCHANGED vars
    /\ UNCHANGED <<worker, restarts>>

PoolReconciles(s) ==
    /\ FirstSlot(s)
    /\ s.was.status = "available"
    /\ \/ BeginAvailableReconciliation(s.id) /\ PoolTakes(s, "reconcile", s.id, FALSE)
       \/ ~CanReconcile(s.id) /\ PoolTakes(s, "next", NoId, FALSE) /\ UNCHANGED vars
    /\ UNCHANGED <<worker, call, restarts>>

(* Only a reservation that was not yet being provisioned is written here:  *)
(* no transaction checks one that was.                                     *)
PoolBootstraps(s) ==
    /\ FirstSlot(s)
    /\ Reservation(s) /\ ~Surplus(s)
    /\ LET pc == IF s.was.resources = NoResources THEN "provision" ELSE "reconcile" IN
       \/ /\ s.was.status = "pool-provisioning"
          /\ PoolTakes(s, pc, s.id, TRUE)
          /\ UNCHANGED <<vars, call>>
       \/ /\ s.was.status = "pool-reserved"
          /\ UpdateStatus(s.id, "pool-provisioning")
          /\ PoolTakes(s, pc, s.id, TRUE)
          /\ UNCHANGED call
       \/ /\ s.was.status = "pool-reserved" /\ ~Current(s.id)
          /\ PoolEnds
          /\ UNCHANGED vars
    /\ UNCHANGED <<worker, restarts>>

PoolFinishes ==
    /\ flight[Pool].pc = "next" /\ flight[Pool].todo = {}
    /\ PoolEnds
    /\ UNCHANGED <<vars, worker, restarts>>

-----------------------------------------------------------------------------
(* verifyAvailableWorker(): idle Workers first, then a pool flight that    *)
(* repairs existing resources, then one that finishes reservations.        *)

Create(t) ==
    /\ flight[Creator(t)].pc = "idle"
    /\ Holders(t) = {}
    /\ Go(Creator(t), "list")
    /\ UNCHANGED <<vars, worker, call, restarts>>

(* Mutant: the pool is bootstrapped again for as long as nothing is idle.  *)
ListAvailable_NeverGivesUp(f) ==
    /\ flight[f].pc = "list"
    /\ LET idle == {Snapshot(n, bindings[n]) : n \in {m \in Nodes : IdleInSlot(m)}}
           v == flight[f]
       IN  flight' = [flight EXCEPT ![f] =
             IF idle = {} THEN [v EXCEPT !.pc = "bootstrap", !.round = 1]
                          ELSE [v EXCEPT !.pc = "claim", !.todo = idle]]
    /\ UNCHANGED <<vars, worker, call, restarts>>

ListAvailable(f) ==
    /\ flight[f].pc = "list"
    /\ LET idle == {Snapshot(n, bindings[n]) : n \in {m \in Nodes : IdleInSlot(m)}}
           v == flight[f]
       IN  flight' = [flight EXCEPT ![f] =
             IF idle = {} /\ v.round < 2 THEN [v EXCEPT !.pc = "bootstrap", !.round = v.round + 1]
                                         ELSE [v EXCEPT !.pc = "claim", !.todo = idle]]
    /\ UNCHANGED <<vars, worker, call, restarts>>

BootstrapOrJoin(f) ==
    /\ flight[f].pc = "bootstrap"
    /\ \/ PoolStart(NoWarm, flight[f].round = 1, flight[f].round = 2, {f})
       \/ /\ flight[Pool] # Idle
          /\ Go(f, "joined")
          /\ UNCHANGED <<vars, worker, call, restarts>>

Claim(f) ==
    /\ flight[f].pc = "claim"
    /\ \/ \E s \in flight[f].todo :
            LET rest == [flight[f] EXCEPT !.todo = @ \ {s}] IN
            \/ /\ BeginAvailableReconciliation(s.id)
               /\ flight' = [flight EXCEPT ![f] = [rest EXCEPT !.pc = "reconcile", !.id = s.id,
                                                               !.updated = FALSE]]
            \/ /\ ~CanReconcile(s.id)
               /\ flight' = [flight EXCEPT ![f] = rest]
               /\ UNCHANGED vars
       \/ /\ flight[f].todo = {}
          /\ GoWith(f, "refused", NoId)     \* no Topic was created yet
          /\ UNCHANGED vars
    /\ UNCHANGED <<worker, call, restarts>>

-----------------------------------------------------------------------------
(* Calls of the infrastructure boundary: what each requires of the table   *)
(* and of the Worker at the moment it runs, and what it changes.           *)

Authorized(id) == bindings[id.node].gen = id.gen
Runs(id) == worker[id.node].installed = id.gen /\ ~worker[id.node].deleted
Set(n, w) == worker' = [worker EXCEPT ![n] = w]

(* A call that takes effect is answered, or its answer is lost.            *)
Answered(f, step) == UNCHANGED vars /\ UNCHANGED restarts /\ (step \/ Fails(f))

Rolling(w) == w.sleep \in {"entering", "leaving"}

(* A deployment of the sleep policy that was seen to fail is given up.     *)
RolloutFails(f) ==
    /\ flight[f].pc \in {"provision", "reconcile", "recheck", "sleep", "prove", "asleep"}
    /\ Authorized(Id(f)) /\ Rolling(worker[N(f)])
    /\ Set(N(f), [worker[N(f)] EXCEPT !.sleep = "off"])

(* A call the boundary refuses, that fails, or that never reaches it; also *)
(* a Worker that does not answer before the deadline.                      *)
Unanswered(f) ==
    /\ flight[f].pc \in {"provision", "rebind", "reconcile", "recheck", "confirm", "recycle",
                         "delete", "sleep", "prove", "session", "activate", "settle", "asleep"}
    /\ Fails(f)
    /\ UNCHANGED worker \/ RolloutFails(f)
    /\ UNCHANGED <<vars, restarts>>

(* Provisioning creates the Worker of a generation, or hands an unbound    *)
(* one over to the Topic that was bound next, without sanitizing it.       *)
CanProvision(id) ==
    LET w == worker[id.node] IN
    /\ Authorized(id)
    /\ bindings[id.node].status \notin {"retiring", "retired"}
    /\ ~w.deleted
    /\ \/ w.installed \in {0, id.gen}
       \/ id.topic # NoTopic /\ w.installed = id.gen - 1
    /\ id.topic # NoTopic => ~w.outdated

(* A Worker for no Topic enters sleep mode, one for a Topic leaves it; a   *)
(* deployment that is already under way for it is only waited for.         *)
Provisioned(w, id) ==
    LET new == [w EXCEPT !.installed = id.gen, !.verified = 0] IN
    IF id.topic # NoTopic
    THEN {[new EXCEPT !.sleep = IF @ = "off" THEN "off" ELSE "leaving"]}
    ELSE {[new EXCEPT !.outdated = FALSE, !.sleep = "entering"]}
         \cup (IF w.sleep = "entering" THEN {new} ELSE {})

Provision(f) ==
    /\ flight[f].pc = "provision"
    /\ CanProvision(Id(f))
    /\ \E w \in Provisioned(worker[N(f)], Id(f)) : Set(N(f), w)
    /\ Answered(f, /\ flight' = [flight EXCEPT ![f].pc = "record", ![f].updated = TRUE]
                   /\ UNCHANGED call)

Reconcilable(id) ==
    /\ Authorized(id)
    /\ bindings[id.node].status \in {"available", "pool-provisioning"}
    /\ Runs(id)

(* A policy deployment that is under way is only reported, also when the   *)
(* image is outdated; otherwise an outdated image is replaced and the      *)
(* sleep policy applied.  Each is answered as an update and voids the      *)
(* verification.  Only when nothing is left to update is the isolation of  *)
(* the unbound Worker verified.                                            *)
Waits(w) == w.sleep = "entering" \/ (w.sleep = "leaving" /\ ~w.outdated)
Updates(w) == w.outdated \/ w.sleep = "off"
Arrived(w) == [w EXCEPT !.sleep = IF @ \in {"entering", "on"} THEN "on" ELSE "off"]

Reported(w) == [w EXCEPT !.verified = 0]
Updated(w) == [w EXCEPT !.outdated = FALSE, !.verified = 0,
                        !.sleep = IF @ = "on" THEN "on" ELSE "entering"]
Verified(w, id) == [Arrived(w) EXCEPT !.verified = id.gen]

(* A reconcile of the Worker of id that takes effect and is answered as an *)
(* update or as none.                                                      *)
Reconciled(id, updated) ==
    LET w == worker[id.node] IN
    /\ Reconcilable(id)
    /\ \/ updated /\ Waits(w) /\ Set(id.node, Reported(w))
       \/ updated /\ Updates(w) /\ Set(id.node, Updated(w))
       \/ ~updated /\ ~Updates(w) /\ Set(id.node, Verified(w, id))

Reconcile(f) ==
    /\ flight[f].pc = "reconcile"
    /\ \E updated \in BOOLEAN :
         /\ Reconciled(Id(f), updated)
         /\ Answered(f, /\ flight' = [flight EXCEPT
                             ![f].pc = IF flight[f].boots THEN "record" ELSE "prove",
                             ![f].updated = updated]
                        /\ UNCHANGED call)

(* The second reconcile; nobody looks at what it answers.                  *)
Recheck(f) ==
    /\ flight[f].pc = "recheck"
    /\ \E updated \in BOOLEAN : Reconciled(Id(f), updated)
    /\ Answered(f, Go(f, "publish") /\ UNCHANGED call)

(* In-place rotation: the Worker of the previous generation is sanitized   *)
(* before the identity of the next one is installed.  A rotation that was  *)
(* already installed is only acknowledged.                                 *)
CanRotate(id, st) ==
    /\ Authorized(id)
    /\ bindings[id.node].status = st
    /\ bindings[id.node].resources # NoResources /\ bindings[id.node].slot # 0
    /\ ~worker[id.node].deleted
    /\ worker[id.node].installed \in {id.gen - 1, id.gen}

(* Mutant: the old generation is retired without being sanitized.          *)
Sanitized_NotAtAll(w) == w

Sanitized(w) == [w EXCEPT !.data = {}]
Rotated(w, id) == [Sanitized(w) EXCEPT !.installed = id.gen, !.verified = 0]

Rotate(f, pc, st, next) ==
    /\ flight[f].pc = pc
    /\ CanRotate(Id(f), st)
    /\ IF worker[N(f)].installed = Id(f).gen
       THEN UNCHANGED worker /\ Answered(f, Go(f, next) /\ UNCHANGED call)
       ELSE \/ Set(N(f), Rotated(worker[N(f)], Id(f)))
               /\ Answered(f, Go(f, next) /\ UNCHANGED call)
            \/ Set(N(f), Sanitized(worker[N(f)])) /\ Answered(f, FALSE)

Rebind(f)  == Rotate(f, "rebind", "provisioning", "record")
Recycle(f) == Rotate(f, "recycle", "retiring", "settle")

(* Mutant: the deletion trusts the caller instead of the table.            *)
DeleteWorker_Unfenced(f) ==
    /\ flight[f].pc = "delete"
    /\ Set(N(f), [worker[N(f)] EXCEPT !.deleted = TRUE, !.data = {}])
    /\ Answered(f, Go(f, "release") /\ UNCHANGED call)

(* Deletion of the service and its volume.                                 *)
DeleteWorker(f) ==
    /\ flight[f].pc = "delete"
    /\ Authorized(Id(f)) /\ Rec(f).status = "retiring"
    /\ Set(N(f), [worker[N(f)] EXCEPT !.deleted = TRUE, !.data = {}])
    /\ Answered(f, Go(f, "release") /\ UNCHANGED call)

-----------------------------------------------------------------------------
(* The rest of verification and bootstrap.                                 *)

(* A transaction of the table; an identity that is no longer current makes *)
(* it throw.                                                               *)
Transacts(f, pc, action, step) ==
    /\ flight[f].pc = pc
    /\ \/ action /\ step
       \/ ~Current(Id(f)) /\ Fails(f) /\ UNCHANGED vars
    /\ UNCHANGED <<worker, restarts>>

RecordResources(f) ==
    /\ flight[f].pc = "record"
    /\ \E r \in Resources :
        /\ Rec(f).resources \in {NoResources, r}
        /\ Transacts(f, "record", UpdateResources(Id(f), r), Go(f, "prove") /\ UNCHANGED call)

(* waitReady() waits for the policy deployment its answer told of.         *)
Awaited(f) ==
    IF flight[f].updated THEN Set(N(f), Arrived(worker[N(f)])) ELSE UNCHANGED worker

(* Mutant: a Worker that was updated is not reconciled again.              *)
Prove_Once(f) ==
    /\ flight[f].pc = "prove"
    /\ Authorized(Id(f)) /\ Runs(Id(f))
    /\ Awaited(f)
    /\ Go(f, IF Unclaimed(f) THEN "publish" ELSE "session")
    /\ UNCHANGED <<vars, call, restarts>>

(* waitReady(), syncGlobal() and the inspection of the resources.          *)
Prove(f) ==
    /\ flight[f].pc = "prove"
    /\ Authorized(Id(f)) /\ Runs(Id(f))
    /\ Awaited(f)
    /\ Go(f, IF ~Unclaimed(f) THEN "session"
             ELSE IF flight[f].updated THEN "recheck" ELSE "publish")
    /\ UNCHANGED <<vars, call, restarts>>

Publish(f) ==
    Transacts(f, "publish", UpdateStatus(Id(f), "available"),
              IF f = Pool THEN PoolGoesOn ELSE GoWith(f, "bind", Id(f)) /\ UNCHANGED call)

(* The catch clause takes a Worker out of allocation again: a look-up, and *)
(* a transaction that may find that the generation has moved on.           *)
CatchEnds(f) ==
    IF f # Pool THEN Go(f, "claim") /\ UNCHANGED call
    ELSE IF PoolContinues THEN PoolGoesOn ELSE PoolEnds

LookUp(f) ==
    /\ flight[f].pc = "demote"
    /\ IF Current(Id(f)) /\ Rec(f).status = "available"
       THEN Go(f, "demoting") /\ UNCHANGED call ELSE CatchEnds(f)
    /\ UNCHANGED <<vars, worker, restarts>>

(* Mutant: the demotion does not look whose generation it demotes.         *)
Demote_AnyGeneration(f) ==
    /\ flight[f].pc = "demoting"
    /\ IF Live(N(f)) THEN UpdateStatus(IdentityOf(N(f), Rec(f)), "pool-provisioning")
                     ELSE UNCHANGED vars
    /\ CatchEnds(f)
    /\ UNCHANGED <<worker, restarts>>

Demote(f) ==
    /\ flight[f].pc = "demoting"
    /\ \/ UpdateStatus(Id(f), "pool-provisioning") /\ CatchEnds(f)
       \/ /\ ~Current(Id(f))
          /\ IF f = Pool THEN PoolEnds ELSE GoWith(f, "refused", NoId) /\ UNCHANGED call
          /\ UNCHANGED vars
    /\ UNCHANGED <<worker, restarts>>

-----------------------------------------------------------------------------
(* ensureReady() and prepare(): the Topic exists now and claims exactly    *)
(* the Worker that was verified for it.                                    *)
TopicOf(f) == f[2]

BindTopic(f) ==
    /\ flight[f].pc = "bind"
    /\ LET t == TopicOf(f)
           free == Holders(t) = {} /\ Current(Id(f)) /\ IdleInSlot(N(f))
           held == {n \in Holders(t) : n = N(f) /\ bindings[n].gen \in {Id(f).gen, Id(f).gen + 1}}
       IN \/ /\ \E r \in Resources : ReservePrepared(t, Id(f), r)
             /\ GoWith(f, "begin", [node |-> N(f), gen |-> Id(f).gen + 1, topic |-> t])
          \/ /\ \E n \in held : GoWith(f, "begin", IdentityOf(n, bindings[n]))
             /\ UNCHANGED vars
          \/ /\ ~free /\ held = {}
             /\ GoWith(f, "locate", NoId)
             /\ UNCHANGED vars
    /\ UNCHANGED <<worker, call, restarts>>

BeginPreparing(f) ==
    /\ flight[f].pc = "begin"
    /\ \/ /\ Current(Id(f)) /\ Rec(f).status = "ready"
          /\ Go(f, "session")
          /\ UNCHANGED <<vars, call>>
       \/ /\ Rec(f).status # "ready"
          /\ UpdateStatus(Id(f), "provisioning")
          /\ Go(f, IF Rec(f).status = "reserved" /\ Rec(f).resources # NoResources /\ Id(f).gen > 1
                   THEN "rebind" ELSE "provision")
          /\ UNCHANGED call
       \/ ~Current(Id(f)) /\ Fails(f) /\ UNCHANGED vars
    /\ UNCHANGED <<worker, restarts>>

(* Mutant: a session that exists is taken to mean the Topic was ready.     *)
CreateSession_AssumesReady(f) ==
    /\ flight[f].pc = "session"
    /\ Runs(Id(f))
    /\ IF Rec(f).session
       THEN Go(f, "confirm") /\ UNCHANGED <<vars, worker, call, restarts>>
       ELSE /\ Set(N(f), [worker[N(f)] EXCEPT !.data = @ \cup {TopicOf(f)}])
            /\ Answered(f, Go(f, "adopt") /\ UNCHANGED call)

(* session.create puts data of the Topic on the Worker.                    *)
CreateSession(f) ==
    /\ flight[f].pc = "session"
    /\ Runs(Id(f))
    /\ IF Rec(f).session
       THEN Go(f, "activate") /\ UNCHANGED <<vars, worker, call, restarts>>
       ELSE /\ Set(N(f), [worker[N(f)] EXCEPT !.data = @ \cup {TopicOf(f)}])
            /\ Answered(f, Go(f, "adopt") /\ UNCHANGED call)

AdoptSession(f) ==
    Transacts(f, "adopt", UpdateSession(Id(f)), Go(f, "activate") /\ UNCHANGED call)

Activate(f) ==
    /\ flight[f].pc = "activate"
    /\ Runs(Id(f))
    /\ Transacts(f, "activate", UpdateStatus(Id(f), "ready"), Go(f, "confirm") /\ UNCHANGED call)

(* The boundary confirms that the Topic still owns this generation.        *)
Confirm(f) ==
    /\ flight[f].pc = "confirm"
    /\ Authorized(Id(f)) /\ Runs(Id(f))
    /\ UNCHANGED worker
    /\ Answered(f, GoWith(f, "done", NoId) /\ UNCHANGED call)

(* The catch clause of prepare(); the caller then retires the Topic.       *)
RecordFailure(f) ==
    /\ flight[f].pc = "fail"
    /\ IF Current(Id(f)) /\ Rec(f).topic = TopicOf(f)
       THEN UpdateStatus(Id(f), "failed") ELSE UNCHANGED vars
    /\ GoWith(f, "locate", NoId)
    /\ UNCHANGED <<worker, call, restarts>>

-----------------------------------------------------------------------------
(* retire(): for a deletion, or for the cleanup of a failed creation.      *)

Retired(f) == GoWith(f, IF f \in Creators THEN "aborted" ELSE "done", NoId)

Delete(f) ==
    /\ flight[f].pc \in {"idle", "failed"}
    /\ LET c == flight[Creator(TopicOf(f))].pc IN
       c = "done" \/ (c = "idle" /\ Holders(TopicOf(f)) # {})
    /\ Go(f, "locate")
    /\ UNCHANGED <<vars, worker, call, restarts>>

(* The request is delivered again: an interrupted cleanup is finished.     *)
RetryCleanup(f) ==
    /\ flight[f].pc = "stuck"
    /\ Go(f, "locate")
    /\ UNCHANGED <<vars, worker, call, restarts>>

Locate(f) ==
    /\ flight[f].pc = "locate"
    /\ \/ Holders(TopicOf(f)) = {} /\ Retired(f)
       \/ \E n \in Holders(TopicOf(f)) : GoWith(f, "recycle-begin", IdentityOf(n, bindings[n]))
    /\ UNCHANGED <<vars, worker, call, restarts>>

(* Another retirement of the Topic may have begun: it is then joined.      *)
BeginRecycling(f) ==
    /\ flight[f].pc = "recycle-begin"
    /\ LET next == [node |-> N(f), gen |-> Id(f).gen + 1, topic |-> NoTopic]
           begun == Rec(f).gen = next.gen /\ Rec(f).status = "retiring" /\ ~Bound(N(f))
       IN \/ BeginRecycle(Id(f)) /\ GoWith(f, "recycle", next) /\ UNCHANGED call
          \/ begun /\ GoWith(f, "recycle", next) /\ UNCHANGED <<vars, call>>
          \/ ~begun /\ ~Current(Id(f)) /\ Fails(f) /\ UNCHANGED vars
    /\ UNCHANGED <<worker, restarts>>

Settle(f) ==
    /\ flight[f].pc = "settle"
    /\ Runs(Id(f))
    /\ Go(f, "complete")
    /\ UNCHANGED <<vars, worker, call, restarts>>

Complete(f) ==
    /\ flight[f].pc = "complete"
    /\ \/ /\ CompleteRecycle(Id(f))
          /\ Go(f, IF Rec(f).slot > Capacity THEN "overflow" ELSE "sleep")
          /\ UNCHANGED call
       \/ ~(Current(Id(f)) /\ Rec(f).status = "retiring") /\ Fails(f) /\ UNCHANGED vars
    /\ UNCHANGED <<worker, restarts>>

(* A Worker above the capacity is fenced and deleted.                      *)
FenceOverflow(f) ==
    Transacts(f, "overflow", Fence(Id(f)),
              GoWith(f, "delete", [Id(f) EXCEPT !.gen = @ + 1]) /\ UNCHANGED call)

Release(f) ==
    Transacts(f, "release", UpdateStatus(Id(f), "retired"),
              IF f = Pool THEN PoolGoesOn ELSE Retired(f) /\ UNCHANGED call)

(* Any other one is reconciled into sleep mode, and must answer again.     *)
Sleep(f) ==
    /\ flight[f].pc = "sleep"
    /\ \E updated \in BOOLEAN :
         /\ Reconciled(Id(f), updated)
         /\ Answered(f, /\ flight' = [flight EXCEPT ![f].pc = "asleep", ![f].updated = updated]
                        /\ UNCHANGED call)

Asleep(f) ==
    /\ flight[f].pc = "asleep"
    /\ Authorized(Id(f)) /\ Runs(Id(f))
    /\ Awaited(f)
    /\ Retired(f)
    /\ UNCHANGED <<vars, call, restarts>>

-----------------------------------------------------------------------------
(* The process stops: flights are gone, receipts of creations remain.  A   *)
(* new release may make every image outdated; the boundary forgets what it *)
(* verified.                                                               *)
AfterRestart(f) ==
    LET pc == flight[f].pc IN
    IF pc \in Ended THEN flight[f]
    ELSE IF f = Pool THEN Idle
    ELSE IF f \in Deleters THEN [Idle EXCEPT !.pc = "failed"]
    ELSE IF pc \in Retiring \cup {"fail"} THEN [Idle EXCEPT !.pc = "stuck"]
    ELSE IF pc = "bind" \/ ~Unclaimed(f) THEN [Idle EXCEPT !.pc = "interrupted", !.id = Id(f)]
    ELSE [Idle EXCEPT !.pc = "refused"]

Restart ==
    /\ restarts < MaxRestarts
    /\ restarts' = restarts + 1
    /\ flight' = [f \in Flights |-> AfterRestart(f)]
    /\ \E upgrade \in BOOLEAN :
          worker' = [n \in Nodes |-> [worker[n] EXCEPT !.verified = 0,
                       !.outdated = IF upgrade THEN worker[n].installed # 0 ELSE @]]
    /\ call' = NoCall
    /\ UNCHANGED vars

(* The request is delivered again: the receipt names the Topic and the     *)
(* Worker, and only the generations it may have are prepared again.        *)
Resume(f) ==
    /\ flight[f].pc = "interrupted"
    /\ LET verified == IF Unclaimed(f) THEN Id(f).gen ELSE Id(f).gen - 1 IN
       IF Rec(f).gen \in {verified, verified + 1}
       THEN GoWith(f, "bind", IdentityOf(N(f), Rec(f)))
       ELSE GoWith(f, "locate", NoId)
    /\ UNCHANGED <<vars, worker, call, restarts>>

-----------------------------------------------------------------------------
Call(f) ==
    \/ Provision(f) \/ Reconcile(f) \/ Recheck(f) \/ Rebind(f) \/ Recycle(f)
    \/ DeleteWorker(f) \/ Confirm(f) \/ Sleep(f) \/ Unanswered(f)

Shared(f) == RecordResources(f) \/ Prove(f) \/ Publish(f) \/ LookUp(f) \/ Demote(f) \/ Release(f) \/ Call(f)

PoolStep ==
    \/ \E s \in flight[Pool].todo : PoolRetires(s) \/ PoolReconciles(s) \/ PoolBootstraps(s)
    \/ PoolFinishes
    \/ Shared(Pool)

Retire(f) ==
    \/ Locate(f) \/ BeginRecycling(f) \/ Settle(f) \/ Complete(f) \/ FenceOverflow(f) \/ Asleep(f)

CreatorStep(f) ==
    \/ ListAvailable(f) \/ BootstrapOrJoin(f) \/ Claim(f)
    \/ BindTopic(f) \/ BeginPreparing(f) \/ CreateSession(f) \/ AdoptSession(f) \/ Activate(f)
    \/ RecordFailure(f)
    \/ Retire(f) \/ Shared(f)

DeleterStep(f) == Retire(f) \/ Call(f) \/ Release(f)

LifecycleNext ==
    \/ \E warm \in WarmTargets : PoolStart(warm, FALSE, FALSE, {})
    \/ PoolStep
    \/ \E t \in Topics : Create(t)
    \/ \E f \in Creators : CreatorStep(f) \/ RetryCleanup(f) \/ Resume(f)
    \/ \E f \in Deleters : Delete(f) \/ DeleterStep(f)
    \/ Restart

Fairness ==
    /\ WF_allvars(PoolStep)
    /\ \A f \in Creators : WF_allvars(CreatorStep(f))
    /\ \A f \in Deleters : WF_allvars(DeleterStep(f))

LifecycleSpec == LifecycleInit /\ [][LifecycleNext]_allvars
FairLifecycleSpec == LifecycleSpec /\ Fairness

-----------------------------------------------------------------------------
(* The table is only used as its own specification allows: every operation *)
(* on a binding names an identity that was recorded, and patches a bound   *)
(* Worker and an unbound one only with the statuses of its kind.           *)
TableDiscipline == Init /\ [][UNCHANGED vars \/ Next]_vars

(* A Topic served by a Worker is served by the generation installed there, *)
(* on a volume that holds nobody else's data (README: the next identity    *)
(* generation is installed, and only a proven clean Worker is reused).     *)
TopicIsolation ==
    \A n \in Nodes : bindings[n].status = "ready" =>
        /\ worker[n].installed = bindings[n].gen
        /\ ~worker[n].deleted
        /\ worker[n].data \subseteq {bindings[n].topic}

(* A Worker that can be allocated holds no Topic's data.                   *)
AllocatableIsClean ==
    \A n \in Nodes : IdleInSlot(n) => worker[n].data = {}

(* Reconciling the pool never disturbs a Topic: the Worker a Topic claimed *)
(* is left alone, whatever the pool flight saw when it began (comments of  *)
(* preparePool and verifyAvailableWorker).                                 *)
PoolSparesTopics ==
    [][flight'[Pool] # flight[Pool] /\ restarts' = restarts =>
        \A n \in Nodes : Bound(n) => bindings'[n] = bindings[n] /\ worker'[n] = worker[n]]_allvars

(* A creation succeeds only with its Topic bound and ready, and its        *)
(* session on the volume of the generation installed there, also when the  *)
(* creation was interrupted and resumed (README, New Chat).                *)
DoneIsReady ==
    [][\A t \in Topics :
        flight[Creator(t)].pc # "done" /\ flight'[Creator(t)].pc = "done" =>
            \E n \in Holders(t) : /\ bindings[n].status = "ready"
                                  /\ bindings[n].session
                                  /\ worker[n].installed = bindings[n].gen
                                  /\ worker[n].data = {t}]_allvars

(* A Worker leaves reconciliation for allocation only with the image of    *)
(* the release that runs, also when its first reconcile found a policy     *)
(* deployment under way and left the old image in place (preparePool and   *)
(* verifyAvailableWorker): a Worker whose image is outdated cannot be      *)
(* prepared for a Topic.                                                   *)
PublishedIsCurrent ==
    [][\A n \in Nodes :
        bindings[n].status = "pool-provisioning" /\ bindings'[n].status = "available" =>
            ~worker[n].outdated]_allvars

(* The comments of preparePool: the new runtime boundary is verified while *)
(* still fenced, and only then the Worker is exposed as available.         *)
PublishedIsVerified ==
    [][\A n \in Nodes :
        bindings[n].status = "pool-provisioning" /\ bindings'[n].status = "available" =>
            worker[n].verified = bindings[n].gen]_allvars

(* Every flight comes to an end.                                           *)
FlightsEnd ==
    \A f \in Flights : []<>(flight[f].pc \in Ended)

(* The comment in retire(): a failed or pending rollout keeps the slot     *)
(* fenced, so a deletion that failed has not put its Worker up for         *)
(* allocation.                                                             *)
FailedRetirementFenced ==
    [][\A f \in Deleters :
        flight[f].pc \in Retiring /\ flight'[f].pc = "failed" /\ restarts' = restarts =>
            ~(Current(Id(f)) /\ IdleInSlot(N(f)))]_allvars

=============================================================================
