---------------------------- MODULE NodeBindings ----------------------------
(***************************************************************************)
(* The durable table of remote Workers, control-plane/node-bindings.ts.    *)
(*                                                                         *)
(* Every operation of NodeBindingStore is one transaction of a promise     *)
(* queue: it reads the file, changes it, writes a temporary file, syncs    *)
(* and renames it.  A crash leaves the old or the new file, so one         *)
(* operation is one action.  Callers keep the bindings an earlier call     *)
(* returned across awaits and restarts, and use them when the table has    *)
(* moved on: `granted' remembers every identity a caller may still hold.   *)
(* An operation that throws, or that returns what is already there,        *)
(* changes nothing and is a stuttering step.                               *)
(***************************************************************************)
EXTENDS Naturals, FiniteSets, Functions

CONSTANTS
    Nodes,          \* the node ids randomUUID() can mint
    Topics,         \* Telegram Topics, a (chatId, threadId) pair each
    NoTopic,        \* the unbound identity, chatId = threadId = 0
    Resources,      \* (project, service, volume, endpoint) of a Worker
    NoResources,    \* none recorded yet
    Capacity,       \* Workers the code allocates at most (4)
    MaxGeneration,  \* bound on a node's generation
    MaxRevision,    \* bound on the global revision a node has applied
    MaxSlot         \* bound on slot numbers

ASSUME ConstantsAssumption ==
    /\ NoTopic \notin Topics
    /\ NoResources \notin Resources
    /\ Capacity \in Nat \ {0}
    /\ MaxGeneration \in Nat \ {0}
    /\ MaxRevision \in Nat
    /\ MaxSlot \in Nat

VARIABLES
    bindings,       \* the table: node id -> its record, "absent" before it is minted
    clustered,      \* state.clusterId has been minted
    granted         \* history: every (node, generation, topic) ever recorded

vars == <<bindings, clustered, granted>>

UnboundStatus == {"pool-reserved", "pool-provisioning", "available", "retiring", "retired"}
BoundStatus   == {"reserved", "provisioning", "ready", "failed", "retiring", "retired"}

Binding ==
    [status    : UnboundStatus \cup BoundStatus \cup {"absent"},
     gen       : Nat,
     slot      : Nat,             \* 0: no slot (recorded before clusters existed)
     topic     : Topics \cup {NoTopic},
     resources : Resources \cup {NoResources},
     session   : BOOLEAN,         \* a sessionId is recorded
     revision  : Nat,
     inCluster : BOOLEAN]         \* carries state.clusterId

Identity == [node : Nodes, gen : Nat, topic : Topics \cup {NoTopic}]

TypeOK ==
    /\ bindings \in [Nodes -> Binding]
    /\ clustered \in BOOLEAN
    /\ granted \subseteq Identity

-----------------------------------------------------------------------------
(* Records a transaction pushes.                                           *)

NewRecord(st, s, t) ==
    [status |-> st, gen |-> 1, slot |-> s, topic |-> t, resources |-> NoResources,
     session |-> FALSE, revision |-> 0, inCluster |-> TRUE]

PoolReserved(s)  == NewRecord("pool-reserved", s, NoTopic)
NewlyBound(t, s) == NewRecord("reserved", s, t)

Absent ==
    [status |-> "absent", gen |-> 0, slot |-> 0, topic |-> NoTopic, resources |-> NoResources,
     session |-> FALSE, revision |-> 0, inCluster |-> FALSE]

(* A Topic bound before Workers had slots. *)
Legacy(t, r) ==
    [status |-> "ready", gen |-> 1, slot |-> 0, topic |-> t, resources |-> r,
     session |-> TRUE, revision |-> 0, inCluster |-> FALSE]

-----------------------------------------------------------------------------
Minted(n) == bindings[n].status # "absent"
Live(n)   == bindings[n].status \notin {"absent", "retired"}
Bound(n)  == bindings[n].topic # NoTopic

Holders(t) == {n \in Nodes : Live(n) /\ bindings[n].topic = t}

(* Mutant: a Worker being retired no longer counts as holding its slot. *)
UsedSlots_RetiringIsFree ==
    {bindings[n].slot : n \in {m \in Nodes : Live(m) /\ bindings[m].status # "retiring"}} \ {0}

UsedSlots == {bindings[n].slot : n \in {m \in Nodes : Live(m)}} \ {0}

LowestFree(s) == s \notin UsedSlots /\ \A u \in 1..(s - 1) : u \in UsedSlots

IdleInSlot(n) == bindings[n].status = "available" /\ ~Bound(n)
                 /\ bindings[n].slot \in 1..Capacity

Allocatable == {n \in Nodes : clustered /\ IdleInSlot(n)}

IdentityOf(n, b) == [node |-> n, gen |-> b.gen, topic |-> b.topic]

(* Mutant: the check forgets that a retired node is gone. *)
Current_RetiredToo(id) == bindings[id.node].gen = id.gen /\ Minted(id.node)

(* The generation check every operation on a held identity begins with. *)
Current(id) == bindings[id.node].gen = id.gen /\ Live(id.node)

Write(n, b) ==
    /\ bindings' = [bindings EXCEPT ![n] = b]
    /\ granted' = granted \cup {IdentityOf(n, b)}

-----------------------------------------------------------------------------
Init ==
    /\ bindings \in [Nodes -> {Absent} \cup {Legacy(t, r) : t \in Topics, r \in Resources}]
    /\ \A m, n \in Nodes : m # n /\ Bound(m) => bindings[m].topic # bindings[n].topic
    /\ clustered = FALSE
    /\ granted = {IdentityOf(n, bindings[n]) : n \in {m \in Nodes : Minted(m)}}

EnsurePoolSlots(warm) ==
    LET missing == (1..warm) \ UsedSlots IN
    \E minted \in SUBSET {n \in Nodes : ~Minted(n)} :
    \E slotOf \in Bijection(minted, missing) :
        /\ bindings' = [n \in Nodes |-> IF n \in minted THEN PoolReserved(slotOf[n])
                                                        ELSE bindings[n]]
        /\ granted' = granted \cup {IdentityOf(n, PoolReserved(slotOf[n])) : n \in minted}
        /\ clustered' = TRUE

(* Compare-and-set that takes an idle Worker out of allocation. *)
CanReconcile(id) ==
    /\ Current(id)
    /\ bindings[id.node].status = "available"
    /\ ~Bound(id.node)
    /\ ~bindings[id.node].session
    /\ bindings[id.node].slot # 0
    /\ bindings[id.node].resources # NoResources

BeginAvailableReconciliation(id) ==
    /\ CanReconcile(id)
    /\ Write(id.node, [bindings[id.node] EXCEPT !.status = "pool-provisioning"])
    /\ UNCHANGED clustered

(* Mutant: the Topic is recorded without a new generation. *)
Bind_SameGeneration(n, t) ==
    Write(n, [bindings[n] EXCEPT !.topic = t, !.status = "reserved"])

(* A bind begins the next generation of the Worker. *)
Bind(n, t) ==
    /\ bindings[n].gen < MaxGeneration
    /\ Write(n, [bindings[n] EXCEPT !.gen = @ + 1, !.topic = t, !.status = "reserved"])

ReserveAvailable(t) ==
    /\ Holders(t) = {}
    /\ \E n \in Allocatable : Bind(n, t)
    /\ UNCHANGED clustered

(* Mutant: the capacity test and the slot bound are off by one. *)
ReserveNew_OffByOne(t) ==
    /\ Holders(t) = {}
    /\ Allocatable = {}
    /\ Cardinality(UsedSlots) <= Capacity
    /\ \E n \in Nodes, s \in 1..(Capacity + 1) :
          /\ ~Minted(n)
          /\ LowestFree(s)
          /\ Write(n, NewlyBound(t, s))
    /\ clustered' = TRUE

ReserveNew(t) ==
    /\ Holders(t) = {}
    /\ Allocatable = {}
    /\ Cardinality(UsedSlots) < Capacity
    /\ \E n \in Nodes, s \in 1..Capacity :
          /\ ~Minted(n)
          /\ LowestFree(s)
          /\ Write(n, NewlyBound(t, s))
    /\ clustered' = TRUE

(* Claim exactly the Worker that was verified, at the verified generation. *)
ReservePrepared(t, id, r) ==
    /\ Holders(t) = {}
    /\ Current(id)
    /\ IdleInSlot(id.node)
    /\ r # NoResources
    /\ bindings[id.node].resources = r
    /\ Bind(id.node, t)
    /\ UNCHANGED clustered

-----------------------------------------------------------------------------
(* update(): one action for each field its callers patch.  Callers give a  *)
(* bound identity the statuses of the Topic life cycle and an unbound one  *)
(* those of the pool; the store itself checks only what is written here.   *)

StatusGuard(id, st) ==
    CASE st = "available" -> ~Bound(id.node) /\ bindings[id.node].slot # 0
                             /\ bindings[id.node].resources # NoResources
      [] st = "ready"     -> Bound(id.node) /\ bindings[id.node].resources # NoResources
      [] OTHER            -> TRUE

PatchableStatus(id) ==
    IF id.topic = NoTopic THEN {"pool-provisioning", "available", "retired"}
                          ELSE {"provisioning", "ready", "failed", "retired"}

UpdateStatus(id, st) ==
    /\ Current(id)
    /\ StatusGuard(id, st)
    /\ Write(id.node, [bindings[id.node] EXCEPT !.status = st])
    /\ UNCHANGED clustered

UpdateResources(id, r) ==
    /\ Current(id)
    /\ Write(id.node, [bindings[id.node] EXCEPT !.resources = r])
    /\ UNCHANGED clustered

UpdateRevision(id, rev) ==
    /\ Current(id)
    /\ rev >= bindings[id.node].revision
    /\ Write(id.node, [bindings[id.node] EXCEPT !.revision = rev])
    /\ UNCHANGED clustered

UpdateSession(id) ==
    /\ Current(id)
    /\ Bound(id.node)
    /\ Write(id.node, [bindings[id.node] EXCEPT !.session = TRUE])
    /\ UNCHANGED clustered

-----------------------------------------------------------------------------
(* A recycled Worker keeps its slot, or is given the lowest free one when  *)
(* it never had any: only there can a slot above Capacity come from.       *)
RecycledSlot(n, s) ==
    IF bindings[n].slot # 0 THEN s = bindings[n].slot ELSE LowestFree(s)

BeginRecycle(id) ==
    /\ Current(id)
    /\ Bound(id.node)
    /\ bindings[id.node].gen < MaxGeneration
    /\ \E s \in 1..MaxSlot :
          /\ RecycledSlot(id.node, s)
          /\ Write(id.node, [bindings[id.node] EXCEPT
                               !.slot = s, !.inCluster = TRUE, !.gen = @ + 1,
                               !.topic = NoTopic, !.session = FALSE,
                               !.status = "retiring"])
    /\ clustered' = TRUE

CompleteRecycle(id) ==
    /\ Current(id)
    /\ bindings[id.node].status = "retiring"
    /\ ~Bound(id.node)
    /\ bindings[id.node].slot # 0
    /\ bindings[id.node].resources # NoResources
    /\ Write(id.node, [bindings[id.node] EXCEPT !.status = "available"])
    /\ UNCHANGED clustered

Fence(id) ==
    /\ Current(id)
    /\ bindings[id.node].gen < MaxGeneration
    /\ Write(id.node, [bindings[id.node] EXCEPT !.gen = @ + 1, !.status = "retiring"])
    /\ UNCHANGED clustered

-----------------------------------------------------------------------------
HeldIdentityStep(id) ==
    \/ BeginAvailableReconciliation(id)
    \/ \E t \in Topics, r \in Resources : ReservePrepared(t, id, r)
    \/ \E st \in PatchableStatus(id) : UpdateStatus(id, st)
    \/ \E r \in Resources : UpdateResources(id, r)
    \/ \E rev \in 0..MaxRevision : UpdateRevision(id, rev)
    \/ UpdateSession(id)
    \/ BeginRecycle(id)
    \/ CompleteRecycle(id)
    \/ Fence(id)

Next ==
    \/ \E warm \in 0..Capacity : EnsurePoolSlots(warm)
    \/ \E t \in Topics : ReserveAvailable(t) \/ ReserveNew(t)
    \/ \E id \in granted : HeldIdentityStep(id)

Spec == Init /\ [][Next]_vars

-----------------------------------------------------------------------------
(* The table satisfies the validator read() runs before every operation    *)
(* and that throws on a bad file, leaving the bot without any Worker: no   *)
(* sequence of legal calls, with identities however stale, writes a table  *)
(* the next call cannot read.                                              *)

LegalUnbound(n) ==
    ~Bound(n) => /\ bindings[n].status \in UnboundStatus
                 /\ bindings[n].slot # 0
                 /\ ~bindings[n].session

SlotsUnique ==
    \A m, n \in Nodes : Live(m) /\ Live(n) /\ m # n /\ bindings[m].slot # 0
                        => bindings[m].slot # bindings[n].slot

SlotsInCluster ==
    \A n \in Nodes : Live(n) /\ bindings[n].slot # 0 => bindings[n].inCluster = clustered

TopicsUnique ==
    \A m, n \in Nodes : Live(m) /\ Live(n) /\ m # n /\ Bound(m)
                        => bindings[m].topic # bindings[n].topic

Readable ==
    /\ \A n \in Nodes : Minted(n) => bindings[n].gen >= 1 /\ LegalUnbound(n)
    /\ SlotsUnique
    /\ SlotsInCluster
    /\ TopicsUnique

(* Whoever still holds an identity of the current generation holds the     *)
(* Topic that generation serves (comments of reservePrepared and fence: a  *)
(* caller can never act on a Worker that has been given to someone else).  *)
IdentityFenced ==
    \A id \in granted :
        /\ id.gen <= bindings[id.node].gen
        /\ id.gen = bindings[id.node].gen => id.topic = bindings[id.node].topic

(* The pool and the reservations never grow past the capacity: a Worker    *)
(* only gets a slot above it when a Topic bound before slots existed is    *)
(* recycled, and is then never bound to a Topic again (reserve and         *)
(* reservePrepared only take slots up to four).                            *)
NoNewOverflow(n) ==
    bindings'[n].slot > Capacity /\ bindings'[n].slot # bindings[n].slot
        => Minted(n) /\ Bound(n) /\ bindings[n].slot = 0

OverflowUnbound(n) ==
    bindings[n].slot > Capacity /\ ~Bound(n) => bindings'[n].topic = NoTopic

CapacityHeld == [][\A n \in Nodes : NoNewOverflow(n) /\ OverflowUnbound(n)]_vars

(* A node never goes back: retirement is final, generations and revisions  *)
(* do not regress, and it changes hands only with a new generation, which  *)
(* is what makes the identities that callers kept harmless.                *)
NodeMovesForward ==
    [][\A n \in Nodes : Minted(n) =>
        /\ bindings'[n].gen \in {bindings[n].gen, bindings[n].gen + 1}
        /\ bindings'[n].revision >= bindings[n].revision
        /\ bindings[n].status = "retired" => bindings'[n] = bindings[n]
        /\ bindings'[n].topic # bindings[n].topic
              => /\ bindings'[n].gen = bindings[n].gen + 1
                 /\ bindings'[n].status \in {"reserved", "retiring"}]_vars

=============================================================================
