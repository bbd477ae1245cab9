--------------------------- MODULE TopicAuthority ---------------------------
(***************************************************************************)
(* control-plane/remote-topic-authority.ts: which session of which Worker  *)
(* may speak for a Topic, and the admission, dispatch and failure of its   *)
(* runs (with core/native-core-service.ts).  One Topic: the routes of      *)
(* different Topics share only the queue of registrations.                 *)
(*                                                                         *)
(* A step is the code between two awaits.  readyNode() and the tests that  *)
(* surround it are one step, since nothing is written in between and the   *)
(* route is tested on both sides.  Registrations run one after the other,  *)
(* so those that wait are left out: their arguments may be any when they   *)
(* begin.  The table of Workers, the run registry of the native runtime    *)
(* and the Worker itself are modelled by what this code relies on.         *)
(***************************************************************************)
EXTENDS Naturals, FiniteSets

CONSTANTS
    Nodes, Sessions,
    Identities,         \* a session in a workspace directory
    SessionOf,          \* the session of an identity
    Runs,               \* run ids
    MaxNodeGeneration,  \* bound on the generation of a Worker
    MaxGeneration,      \* bound on the generation of the binding
    MaxStamps           \* bound on the times a stop stays unconfirmed

ASSUME AuthorityAssumption ==
    /\ SessionOf \in [Identities -> Sessions]
    /\ "none" \notin Runs
    /\ MaxNodeGeneration \in Nat \ {0}
    /\ MaxGeneration \in Nat
    /\ MaxStamps \in Nat

VARIABLES
    table,          \* nodeBindings: the Worker last bound to the Topic, ready or not
    entry,          \* durable: topic-authority.json
    route, owner,   \* routes and owners, in memory
    registration,   \* the registration in progress
    named,          \* history: every route that was ever installed
    current,        \* RunRegistry: the run that is accepted
    run,            \* each run id: the route and the Worker it was begun for
    admission,      \* the admission in progress (withCoreAdmissionLock)
    dispatch,       \* each run: its dispatchTask()
    poisoned,       \* a task of the route's queue ignored its cancellation
    uncertain,      \* uncertainWorkers: when its last stop failed, 0 for never
    aged,           \* thirty seconds have passed since then
    stamps,         \* the clock of these times
    atWorker        \* what the Worker does of each run

routes == <<entry, route, owner, registration, named>>
admitting == <<run, admission, dispatch, poisoned, atWorker>>
doubts == <<uncertain, aged, stamps>>
vars == <<table, routes, current, admitting, doubts>>

Workers == [node : Nodes, gen : 1..MaxNodeGeneration]
NoWorker == [node |-> "none", gen |-> 0]
NoRoute == [identity |-> "none", gen |-> 0]
NoBinding == [worker |-> NoWorker, session |-> "none", ready |-> FALSE]
NoRegistration == [pc |-> "idle", identity |-> "none", worker |-> NoWorker]
NoAdmission == [pc |-> "idle", route |-> NoRoute, since |-> 0]
NoDispatch == [pc |-> "none", worker |-> NoWorker, lost |-> FALSE]
NoRun == "none"

(* A route with the Worker it stands for: an entry of the file, or a run.  *)
Owned(r, w) == [route |-> r, worker |-> w]
Nobody == Owned(NoRoute, NoWorker)

Greater(m, n) == IF m > n THEN m ELSE n         \* Math.max

-----------------------------------------------------------------------------
AuthorityInit ==
    /\ table = NoBinding
    /\ entry = Nobody
    /\ route = NoRoute /\ owner = NoWorker
    /\ registration = NoRegistration
    /\ named = {}
    /\ current = NoRun
    /\ run = [r \in Runs |-> Nobody]
    /\ admission = NoAdmission
    /\ dispatch = [r \in Runs |-> NoDispatch]
    /\ poisoned = FALSE
    /\ uncertain = [w \in Workers |-> 0]
    /\ aged = [w \in Workers |-> FALSE]
    /\ stamps = 0
    /\ atWorker = [r \in Runs |-> "none"]

(* The table of Workers: another Worker is bound, or the same in a later   *)
(* generation, which is given only to one that is proven clean; its status *)
(* changes.  A Worker that left the Topic is one that is not ready.        *)
BindWorker ==
    /\ ~table.ready
    /\ \E w \in Workers, s \in Sessions :
          /\ w.node = table.worker.node => w.gen > table.worker.gen
          /\ table' = [worker |-> w, session |-> s, ready |-> TRUE]
          /\ atWorker' = [r \in Runs |->
                 IF run[r].worker.node = w.node THEN "none" ELSE atWorker[r]]
    /\ UNCHANGED <<routes, current, run, admission, dispatch, poisoned, doubts>>

ChangeStatus ==
    /\ table # NoBinding
    /\ table' = [table EXCEPT !.ready = ~@]
    /\ UNCHANGED <<routes, current, admitting, doubts>>

-----------------------------------------------------------------------------
(* readyNode() and assertNode().                                           *)
Ready(i) == table.ready /\ table.session = SessionOf[i]
AssertNode(r) == r # NoRoute /\ route = r /\ Ready(r.identity) /\ table.worker = owner

(* revoke(), with the fence of the run registry.                           *)
Revoked == route' = NoRoute /\ owner' = NoWorker /\ current' = NoRun

OtherRoute(i) == route # NoRoute /\ route.identity # i
SameRoute(i) == route.identity = i /\ owner = table.worker

(* registerSerialized() up to durableGeneration(): the registration is     *)
(* refused, and refresh() revokes the route where a rotation leaves it to  *)
(* its caller; or finds nothing to do; or takes the old route away first.  *)
Compare(i, rotating) ==
    /\ registration = NoRegistration
    /\ \/ /\ ~Ready(i) \/ (OtherRoute(i) /\ ~rotating)
          /\ IF rotating THEN UNCHANGED <<route, owner, current>> ELSE Revoked
          /\ UNCHANGED registration
       \/ /\ Ready(i) /\ SameRoute(i)
          /\ UNCHANGED <<registration, route, owner, current>>
       \/ /\ Ready(i) /\ ~SameRoute(i) /\ (OtherRoute(i) => rotating)
          /\ registration' = [pc |-> "persist", identity |-> i, worker |-> table.worker]
          /\ Revoked
    /\ UNCHANGED <<table, entry, named, admitting, doubts>>

(* Mutant: the generation is that of the Worker.                           *)
NextGeneration_OfWorker(i, w) ==
    IF entry.route.identity = i /\ entry.worker = w THEN entry.route.gen ELSE w.gen

(* The recorded generation of the same identity on the same Worker, or one *)
(* above all that were recorded.                                           *)
NextGeneration(i, w) ==
    IF entry.route.identity = i /\ entry.worker = w THEN entry.route.gen
    ELSE Greater(w.gen, entry.route.gen + 1)

(* durableGeneration(): a write that fails may have replaced the file.  No *)
(* route is left to revoke after a failure.                                *)
Persist ==
    /\ registration.pc = "persist"
    /\ LET i == registration.identity
           w == registration.worker
           next == Owned([identity |-> i, gen |-> NextGeneration(i, w)], w)
       IN /\ next.route.gen <= MaxGeneration
          /\ \/ /\ entry' = next
                /\ registration' = [registration EXCEPT !.pc = "install"]
             \/ entry' \in {entry, next} /\ registration' = NoRegistration
    /\ UNCHANGED <<table, route, owner, named, current, admitting, doubts>>

(* The route is installed, with a new queue.                               *)
Install ==
    /\ registration.pc = "install"
    /\ route' = entry.route /\ owner' = registration.worker
    /\ named' = named \cup {Owned(route', owner')}
    /\ registration' = NoRegistration
    /\ poisoned' = FALSE
    /\ UNCHANGED <<table, entry, current, run, admission, dispatch, atWorker, doubts>>

(* revokeSession(): the binding of the Topic is removed.                   *)
RevokeSession(s) ==
    /\ route # NoRoute /\ SessionOf[route.identity] = s
    /\ Revoked
    /\ UNCHANGED <<table, entry, registration, named, admitting, doubts>>

-----------------------------------------------------------------------------
(* beginCoreRunForSession() and beginCoreRunForOwner() wait for their turn *)
(* and then ask modelAllowed() about the route they found.  After its last *)
(* test of the route only microtasks run until beginRun() takes it again,  *)
(* and a rotation writes a file before it installs another: the run is     *)
(* begun for the route that was examined.                                  *)
Admit ==
    /\ admission = NoAdmission
    /\ AssertNode(route)
    /\ ~poisoned
    /\ uncertain[owner] # 0 => aged[owner]
    /\ admission' = [NoAdmission EXCEPT !.pc = IF uncertain[owner] = 0 THEN "begin" ELSE "status",
                                        !.route = route, !.since = uncertain[owner]]
    /\ UNCHANGED <<table, routes, current, run, dispatch, poisoned, atWorker, doubts>>

(* The Worker signs that it is idle: a reservation does not show.          *)
ReadStatus ==
    /\ admission.pc = "status"
    /\ \A r \in Runs : run[r].worker = owner => atWorker[r] # "executing"
    /\ AssertNode(admission.route)
    /\ admission' = [admission EXCEPT !.pc = "proof"]
    /\ UNCHANGED <<table, routes, current, run, dispatch, poisoned, atWorker, doubts>>

(* Mutant: an idle Worker is proof, whatever failed since it was asked.    *)
StillTheSame_Unchecked == TRUE

StillTheSame == uncertain[owner] = admission.since

Lift ==
    /\ admission.pc = "proof"
    /\ AssertNode(admission.route)
    /\ ~poisoned /\ StillTheSame
    /\ uncertain' = [uncertain EXCEPT ![owner] = 0]
    /\ aged' = [aged EXCEPT ![owner] = FALSE]
    /\ admission' = [admission EXCEPT !.pc = "begin"]
    /\ UNCHANGED <<table, routes, current, run, dispatch, poisoned, stamps, atWorker>>

AdmissionFails ==
    /\ admission # NoAdmission
    /\ admission' = NoAdmission
    /\ UNCHANGED <<table, routes, current, run, dispatch, poisoned, atWorker, doubts>>

(* beginRun(): the route of the admission is tested again, after a look    *)
(* into the table of Workers during which it may be revoked or a stop may  *)
(* fail.  The run has a new id or, in restoreRemoteCoreRun(), the id of a  *)
(* run the Worker reported.                                                *)
BeginRun(r) ==
    /\ admission.pc = "begin"
    /\ current = NoRun
    /\ run[r] = Nobody \/ (run[r].worker = owner /\ atWorker[r] = "executing")
    /\ AssertNode(admission.route)
    /\ current' = r
    /\ run' = [run EXCEPT ![r] = Owned(admission.route, owner)]
    /\ admission' = NoAdmission
    /\ UNCHANGED <<table, routes, dispatch, poisoned, atWorker, doubts>>

FinishRun ==
    /\ current # NoRun
    /\ current' = NoRun
    /\ UNCHANGED <<table, routes, admitting, doubts>>

-----------------------------------------------------------------------------
(* dispatchTask(): the task prepares its run at the Worker and starts it.  *)
(* The order in which the tasks of a queue wait is left out.               *)
Accepted(r) == current = r /\ AssertNode(run[r].route)

Send(r) ==
    /\ dispatch[r].pc = "none" /\ Accepted(r)
    /\ dispatch' = [dispatch EXCEPT ![r] = [NoDispatch EXCEPT !.pc = "sent", !.worker = owner]]
    /\ \E does \in {atWorker[r], "reserved", "executing"} :
          atWorker' = [atWorker EXCEPT ![r] = does]
    /\ UNCHANGED <<table, routes, current, run, admission, poisoned, doubts>>

Return(r) ==
    /\ dispatch[r].pc = "sent" /\ Accepted(r)
    /\ dispatch' = [dispatch EXCEPT ![r] = NoDispatch]
    /\ UNCHANGED <<table, routes, current, run, admission, poisoned, atWorker, doubts>>

(* An error, a deadline or a checkpoint; a task that ignores cancellation  *)
(* poisons the queue.                                                      *)
FailTask(r) ==
    /\ dispatch[r].pc = "sent"
    /\ dispatch' = [dispatch EXCEPT ![r].pc = "stopping"]
    /\ poisoned' \in {poisoned, TRUE}
    /\ UNCHANGED <<table, routes, current, run, admission, atWorker, doubts>>

Doubted(w) ==
    /\ stamps < MaxStamps
    /\ stamps' = stamps + 1
    /\ uncertain' = [uncertain EXCEPT ![w] = stamps']
    /\ aged' = [aged EXCEPT ![w] = FALSE]

(* The queue of the task, which may be an earlier one, is poisoned or not. *)
StopConfirmed(r) ==
    /\ dispatch[r].pc = "stopping"
    /\ AssertNode(run[r].route)
    /\ atWorker' = [atWorker EXCEPT ![r] = "none"]
    /\ Doubted(dispatch[r].worker) \/ UNCHANGED doubts
    /\ dispatch' = [dispatch EXCEPT ![r] = NoDispatch]
    /\ UNCHANGED <<table, routes, current, run, admission, poisoned>>

(* The request to stop is refused, fails, or takes effect unheard.         *)
StopUnconfirmed(r) ==
    /\ dispatch[r].pc = "stopping"
    /\ \E does \in {atWorker[r], "none"} : atWorker' = [atWorker EXCEPT ![r] = does]
    /\ Doubted(dispatch[r].worker)
    /\ dispatch' = [dispatch EXCEPT ![r] = [NoDispatch EXCEPT !.worker = dispatch[r].worker,
                                                              !.lost = TRUE]]
    /\ UNCHANGED <<table, routes, current, run, admission, poisoned>>

-----------------------------------------------------------------------------
(* The Worker: a reservation starts or expires, an execution ends.         *)
WorkerProceeds(r) ==
    /\ atWorker[r] # "none"
    /\ \E does \in {"executing", "none"} \ {atWorker[r]} :
          atWorker' = [atWorker EXCEPT ![r] = does]
    /\ UNCHANGED <<table, routes, current, run, admission, dispatch, poisoned, doubts>>

(* Thirty seconds pass since the last failure: no reservation made before  *)
(* it is left.                                                             *)
Elapse(w) ==
    /\ uncertain[w] # 0 /\ ~aged[w]
    /\ aged' = [aged EXCEPT ![w] = TRUE]
    /\ atWorker' = [r \in Runs |->
          IF dispatch[r].lost /\ dispatch[r].worker = w /\ atWorker[r] = "reserved"
          THEN "none" ELSE atWorker[r]]
    /\ UNCHANGED <<table, routes, current, run, admission, dispatch, poisoned, uncertain, stamps>>

(* The program stops and starts: only the file and the Workers remain.     *)
Restart ==
    /\ Revoked
    /\ registration' = NoRegistration
    /\ admission' = NoAdmission
    /\ dispatch' = [r \in Runs |-> NoDispatch]
    /\ poisoned' = FALSE
    /\ uncertain' = [w \in Workers |-> 0]
    /\ aged' = [w \in Workers |-> FALSE]
    /\ stamps' = 0
    /\ UNCHANGED <<table, entry, named, run, atWorker>>

Register ==
    \/ \E i \in Identities, rotating \in BOOLEAN : Compare(i, rotating)
    \/ Persist \/ Install

Task(r) ==
    \/ BeginRun(r) \/ Send(r) \/ Return(r) \/ FailTask(r) \/ StopConfirmed(r)
    \/ StopUnconfirmed(r) \/ WorkerProceeds(r)

AuthorityNext ==
    \/ BindWorker \/ ChangeStatus
    \/ Register
    \/ \E s \in Sessions : RevokeSession(s)
    \/ Admit \/ ReadStatus \/ Lift \/ AdmissionFails \/ FinishRun
    \/ \E r \in Runs : Task(r)
    \/ \E w \in Workers : Elapse(w)
    \/ Restart

AuthoritySpec == AuthorityInit /\ [][AuthorityNext]_vars

-----------------------------------------------------------------------------
Routes == [identity : Identities, gen : Nat \ {0}] \cup {NoRoute}
OwnedRoutes == [route : Routes \ {NoRoute}, worker : Workers]
Admissions == [pc : {"idle", "status", "proof", "begin"}, route : Routes, since : Nat]
Dispatches == [pc : {"none", "sent", "stopping"}, worker : Workers \cup {NoWorker}, lost : BOOLEAN]

AuthorityTypeOK ==
    /\ table \in [worker : Workers, session : Sessions, ready : BOOLEAN] \cup {NoBinding}
    /\ entry \in OwnedRoutes \cup {Nobody}
    /\ route \in Routes
    /\ owner \in Workers \cup {NoWorker}
    /\ route = NoRoute <=> owner = NoWorker
    /\ \/ registration = NoRegistration
       \/ registration \in [pc : {"persist", "install"}, identity : Identities, worker : Workers]
    /\ named \subseteq OwnedRoutes
    /\ current \in Runs \cup {NoRun}
    /\ run \in [Runs -> OwnedRoutes \cup {Nobody}]
    /\ admission \in Admissions /\ admission.since <= stamps
    /\ dispatch \in [Runs -> Dispatches]
    /\ poisoned \in BOOLEAN
    /\ stamps \in Nat
    /\ uncertain \in [Workers -> 0..stamps]
    /\ aged \in [Workers -> BOOLEAN]
    /\ atWorker \in [Runs -> {"none", "reserved", "executing"}]

(* A generation of the binding names one identity on one Worker for ever,  *)
(* whatever writes fail and however often the program restarts: an owner   *)
(* captured before a rotation never passes for the one after it (the code  *)
(* behind "Stale Core binding owner rejected").                            *)
GenerationNamesOwner ==
    \A x, y \in named : x.route.gen = y.route.gen => x = y

(* What serves is what was recorded: the installed route and its Worker    *)
(* are those of the file, and a run that is accepted is one of this route  *)
(* (comment of saveTelegramTopicBinding: Core identity is persisted before *)
(* the Topic becomes routable).                                            *)
RouteIsRecorded ==
    /\ route # NoRoute => entry = Owned(route, owner)
    /\ current # NoRun => run[current] = Owned(route, owner)

(* The doubt about a Worker is lifted only when no task whose stop was not *)
(* confirmed runs there or may still start (comment of modelAllowed).      *)
LiftedMeansIdle ==
    [][\A w \in Workers :
        uncertain[w] # 0 /\ uncertain'[w] = 0 /\ admission'.pc = "begin" =>
            \A r \in Runs : dispatch[r].lost /\ dispatch[r].worker = w => atWorker[r] = "none"]_vars

=============================================================================
