------------------------- MODULE NodeBindings_proofs -------------------------
(***************************************************************************)
(* Proofs about NodeBindings for every set of nodes and Topics.  Readable  *)
(* is not inductive: that an unbound Worker only ever gets a pool status   *)
(* depends on what the callers' identities say, so the inductive invariant *)
(* adds IdentityFenced and how slots, clusters and generations are minted. *)
(***************************************************************************)
EXTENDS NodeBindings, TLAPS

MintedOnce ==
    /\ \A n \in Nodes : ~Minted(n) => bindings[n] = Absent
    /\ \A id \in granted : id.gen >= 1

ClusterMinted ==
    \A n \in Nodes : /\ bindings[n].slot # 0 => bindings[n].inCluster
                     /\ bindings[n].inCluster => clustered

IInv == TypeOK /\ Readable /\ IdentityFenced /\ MintedOnce /\ ClusterMinted

(* What a transaction that writes record b for node n has to respect.      *)
Writable(n, b) ==
    /\ b \in Binding
    /\ b.status # "absent"
    /\ \/ b.gen = bindings[n].gen /\ b.topic = bindings[n].topic /\ Minted(n)
       \/ b.gen = bindings[n].gen + 1
    /\ b.topic = NoTopic => b.status \in UnboundStatus /\ b.slot # 0 /\ ~b.session
    /\ b.slot # 0 => b.inCluster
    /\ b.slot # 0 => \A m \in Nodes \ {n} : Live(m) => bindings[m].slot # b.slot
    /\ b.topic # NoTopic => \A m \in Nodes \ {n} : Live(m) => bindings[m].topic # b.topic

-----------------------------------------------------------------------------
(* One write keeps the invariant when the record respects Writable.        *)
LEMMA WriteKeepsInvariant ==
    ASSUME IInv, NEW n \in Nodes, NEW b, Writable(n, b), Write(n, b),
           clustered' \in BOOLEAN, clustered => clustered', b.inCluster => clustered'
    PROVE  IInv'
<1> USE ConstantsAssumption
<1>1. /\ bindings' = [bindings EXCEPT ![n] = b]
      /\ bindings \in [Nodes -> Binding]
      /\ b \in Binding
  BY DEF Write, Writable, IInv, TypeOK
<1>2. /\ bindings'[n] = b
      /\ \A m \in Nodes \ {n} : bindings'[m] = bindings[m]
  BY <1>1
<1>3. /\ b.gen \in Nat /\ b.gen >= 1
      /\ IdentityOf(n, b) \in Identity
  <2>1. bindings[n].gen \in Nat /\ (Minted(n) => bindings[n].gen >= 1)
    BY <1>1 DEF Binding, IInv, Readable
  <2>2. b.gen \in Nat /\ b.topic \in Topics \cup {NoTopic}
    BY <1>1 DEF Binding
  <2> QED  BY <2>1, <2>2 DEF Writable, IdentityOf, Identity
<1>4. TypeOK'
  BY <1>1, <1>3 DEF TypeOK, Write, IInv
<1>5. Readable'
  <2>1. \A m \in Nodes : Minted(m)' => (bindings[m].gen >= 1)' /\ LegalUnbound(m)'
    BY <1>2, <1>3 DEF Writable, Minted, LegalUnbound, Bound, IInv, Readable
  <2>2. SlotsUnique'
    BY <1>2 DEF Writable, SlotsUnique, Live, IInv, Readable
  <2>3. SlotsInCluster'
    BY <1>1, <1>2 DEF Writable, SlotsInCluster, Live, IInv, ClusterMinted, TypeOK, Binding
  <2>4. TopicsUnique'
    BY <1>2 DEF Writable, TopicsUnique, Live, Bound, IInv, Readable
  <2> QED  BY <2>1, <2>2, <2>3, <2>4 DEF Readable
<1>6. IdentityFenced'
  <2> SUFFICES ASSUME NEW id \in granted'
               PROVE  /\ id.gen <= bindings'[id.node].gen
                      /\ id.gen = bindings'[id.node].gen => id.topic = bindings'[id.node].topic
    BY DEF IdentityFenced
  <2>1. CASE id = IdentityOf(n, b)
    BY <2>1, <1>2, <1>3 DEF IdentityOf
  <2>2. CASE id \in granted
    <3>1. /\ id.node \in Nodes /\ id.gen \in Nat
          /\ id.gen <= bindings[id.node].gen
          /\ id.gen = bindings[id.node].gen => id.topic = bindings[id.node].topic
      BY <2>2 DEF IInv, TypeOK, Identity, IdentityFenced
    <3>2. CASE id.node = n
      <4>1. bindings[n].gen \in Nat
        BY <1>1 DEF Binding
      <4> QED  BY <3>1, <3>2, <4>1, <1>2, <1>3 DEF Writable
    <3>3. CASE id.node # n
      BY <3>1, <3>3, <1>2
    <3> QED  BY <3>2, <3>3
  <2> QED  BY <2>1, <2>2 DEF Write
<1>7. MintedOnce'
  BY <1>2, <1>3 DEF MintedOnce, Minted, Writable, Write, IdentityOf, IInv
<1>8. ClusterMinted'
  BY <1>2 DEF ClusterMinted, Writable, IInv
<1> QED  BY <1>4, <1>5, <1>6, <1>7, <1>8 DEF IInv

-----------------------------------------------------------------------------
(* The initial tables, empty or of Workers recorded before slots existed.  *)
LEMMA InitInvariant == Init => IInv
<1> SUFFICES ASSUME Init PROVE IInv
  OBVIOUS
<1> USE ConstantsAssumption
<1>1. \A n \in Nodes : \/ bindings[n] = Absent
                       \/ \E t \in Topics, r \in Resources : bindings[n] = Legacy(t, r)
  BY DEF Init
<1>2. \A n \in Nodes : bindings[n] \in Binding
  <2> TAKE n \in Nodes
  <2>1. CASE bindings[n] = Absent
    BY <2>1 DEF Absent, Binding
  <2>2. CASE \E t \in Topics, r \in Resources : bindings[n] = Legacy(t, r)
    <3>1. PICK t \in Topics, r \in Resources : bindings[n] = Legacy(t, r)
      BY <2>2
    <3> QED  BY <3>1 DEF Legacy, Binding, BoundStatus
  <2> QED  BY <1>1, <2>1, <2>2
<1>3. TypeOK
  <2>1. bindings \in [Nodes -> Binding]
    BY <1>2 DEF Init
  <2>2. \A n \in Nodes : IdentityOf(n, bindings[n]) \in Identity
    BY <1>2 DEF IdentityOf, Identity, Binding
  <2> QED  BY <2>1, <2>2 DEF TypeOK, Init
<1>4. \A n \in Nodes : \/ bindings[n] = Absent
                       \/ /\ bindings[n].status = "ready"
                          /\ bindings[n].gen = 1
                          /\ bindings[n].slot = 0
                          /\ bindings[n].topic \in Topics
                          /\ bindings[n].inCluster = FALSE
  <2> TAKE n \in Nodes
  <2>1. CASE \E t \in Topics, r \in Resources : bindings[n] = Legacy(t, r)
    <3>1. PICK t \in Topics, r \in Resources : bindings[n] = Legacy(t, r)
      BY <2>1
    <3> QED  BY <3>1 DEF Legacy
  <2> QED  BY <1>1, <2>1
<1>5. Absent.status = "absent" /\ Absent.slot = 0 /\ Absent.inCluster = FALSE
  BY DEF Absent
<1>6. TopicsUnique
  BY DEF Init, TopicsUnique
<1>7. Readable
  BY <1>4, <1>5, <1>6 DEF Readable, LegalUnbound, Bound, SlotsUnique, SlotsInCluster, Live, Minted
<1>8. IdentityFenced /\ \A id \in granted : id.gen >= 1
  <2> SUFFICES ASSUME NEW n \in Nodes, Minted(n)
               PROVE  LET id == IdentityOf(n, bindings[n]) IN
                        /\ id.gen <= bindings[id.node].gen
                        /\ id.gen = bindings[id.node].gen => id.topic = bindings[id.node].topic
                        /\ id.gen >= 1
    BY DEF Init, IdentityFenced
  <2> QED  BY <1>4, <1>5 DEF IdentityOf, Minted
<1>9. ClusterMinted
  BY <1>4, <1>5 DEF ClusterMinted
<1>10. MintedOnce
  BY <1>4, <1>8 DEF MintedOnce, Minted
<1> QED  BY <1>3, <1>7, <1>8, <1>9, <1>10 DEF IInv

-----------------------------------------------------------------------------
(* A held identity of the current generation names the Topic the Worker    *)
(* serves, so the statuses its holder may patch fit the Worker.            *)
LEMMA CurrentIdentity ==
    ASSUME IInv, NEW id \in granted, Current(id)
    PROVE  /\ id.node \in Nodes
           /\ bindings[id.node] \in Binding
           /\ Live(id.node) /\ Minted(id.node)
           /\ id.topic = bindings[id.node].topic
  BY DEF IInv, TypeOK, Identity, IdentityFenced, Current, Live, Minted

(* A new record that keeps generation, Topic and slot of a live Worker.    *)
LEMMA PatchWritable ==
    ASSUME IInv, NEW n \in Nodes, Live(n), NEW b \in Binding,
           b.gen = bindings[n].gen, b.topic = bindings[n].topic,
           b.slot = bindings[n].slot, b.inCluster = bindings[n].inCluster,
           b.status # "absent",
           b.topic = NoTopic => b.status \in UnboundStatus /\ ~b.session
    PROVE  Writable(n, b) /\ (b.inCluster => clustered)
<1>1. Minted(n) /\ LegalUnbound(n)
  BY DEF IInv, Readable, Live, Minted
<1>2. b.slot # 0 => \A m \in Nodes \ {n} : Live(m) => bindings[m].slot # b.slot
  BY DEF IInv, Readable, SlotsUnique
<1>3. b.topic # NoTopic => \A m \in Nodes \ {n} : Live(m) => bindings[m].topic # b.topic
  BY DEF IInv, Readable, TopicsUnique, Bound
<1> QED  BY <1>1, <1>2, <1>3 DEF Writable, LegalUnbound, Bound, IInv, ClusterMinted

(* A bind: the next generation of an idle Worker, for a Topic nobody has.  *)
LEMMA BindWritable ==
    ASSUME IInv, NEW n \in Nodes, IdleInSlot(n), NEW t \in Topics, Holders(t) = {}
    PROVE  LET b == [bindings[n] EXCEPT !.gen = @ + 1, !.topic = t, !.status = "reserved"]
           IN  Writable(n, b) /\ (b.inCluster => clustered)
<1> DEFINE b == [bindings[n] EXCEPT !.gen = @ + 1, !.topic = t, !.status = "reserved"]
<1> USE ConstantsAssumption
<1>1. bindings[n] \in Binding /\ Live(n)
  BY DEF IInv, TypeOK, IdleInSlot, Live
<1>2. /\ b \in Binding /\ b.status = "reserved" /\ b.gen = bindings[n].gen + 1
      /\ b.topic = t /\ b.slot = bindings[n].slot /\ b.inCluster = bindings[n].inCluster
  <2>1. bindings[n].gen + 1 \in Nat
    BY <1>1 DEF Binding
  <2>2. "reserved" \in UnboundStatus \cup BoundStatus \cup {"absent"}
    BY DEF BoundStatus
  <2>3. b \in Binding
    BY <1>1, <2>1, <2>2 DEF Binding
  <2> QED  BY <1>1, <2>3 DEF Binding
<1>3. b.slot # 0 => \A m \in Nodes \ {n} : Live(m) => bindings[m].slot # b.slot
  BY <1>1, <1>2 DEF IInv, Readable, SlotsUnique
<1>4. \A m \in Nodes : Live(m) => bindings[m].topic # t
  BY DEF Holders
<1> HIDE DEF b
<1>5. Writable(n, b) /\ (b.inCluster => clustered)
  BY <1>2, <1>3, <1>4 DEF Writable, IInv, ClusterMinted
<1> QED  BY <1>5 DEF b

-----------------------------------------------------------------------------
(* Every operation keeps the invariant.                                    *)

LEMMA EnsurePoolSlotsKeeps ==
    ASSUME IInv, NEW warm \in 0..Capacity, EnsurePoolSlots(warm)
    PROVE  IInv'
<1> USE ConstantsAssumption
<1> DEFINE missing == (1..warm) \ UsedSlots
<1>1. PICK minted \in SUBSET {n \in Nodes : ~Minted(n)} :
        \E slotOf \in Bijection(minted, missing) :
          /\ bindings' = [n \in Nodes |-> IF n \in minted THEN PoolReserved(slotOf[n])
                                                          ELSE bindings[n]]
          /\ granted' = granted \cup {IdentityOf(n, PoolReserved(slotOf[n])) : n \in minted}
          /\ clustered' = TRUE
  BY DEF EnsurePoolSlots
<1>2. PICK slotOf \in Bijection(minted, missing) :
          /\ bindings' = [n \in Nodes |-> IF n \in minted THEN PoolReserved(slotOf[n])
                                                          ELSE bindings[n]]
          /\ granted' = granted \cup {IdentityOf(n, PoolReserved(slotOf[n])) : n \in minted}
          /\ clustered' = TRUE
  BY <1>1
<1>3. /\ \A n \in minted : slotOf[n] \in missing
      /\ \A m, n \in minted : slotOf[m] = slotOf[n] => m = n
  BY DEF Bijection, Injection, Surjection, IsInjective
<1>4. /\ \A n \in minted : n \in Nodes /\ bindings[n] = Absent /\ ~Live(n)
      /\ \A n \in minted : bindings'[n] = PoolReserved(slotOf[n])
      /\ \A n \in Nodes \ minted : bindings'[n] = bindings[n]
  BY <1>2 DEF IInv, MintedOnce, Live, Minted
<1>5. \A n \in minted : /\ slotOf[n] \in Nat /\ slotOf[n] # 0
                        /\ \A m \in Nodes : Live(m) => bindings[m].slot # slotOf[n]
  BY <1>3 DEF UsedSlots
<1>6. \A n \in minted : /\ bindings'[n].status = "pool-reserved"
                        /\ bindings'[n].gen = 1
                        /\ bindings'[n].slot = slotOf[n]
                        /\ bindings'[n].topic = NoTopic
                        /\ bindings'[n].session = FALSE
                        /\ bindings'[n].inCluster = TRUE
  <2> TAKE n \in minted
  <2> DEFINE s == slotOf[n]
  <2> HIDE DEF s
  <2>1. bindings'[n] = NewRecord("pool-reserved", s, NoTopic)
    BY <1>4 DEF PoolReserved, s
  <2>2. bindings'[n].slot = s
    BY <2>1 DEF NewRecord
  <2> QED  BY <2>1, <2>2 DEF NewRecord, s
<1>7. TypeOK'
  <2>1. \A n \in minted : PoolReserved(slotOf[n]) \in Binding
    BY <1>5 DEF PoolReserved, NewRecord, Binding, UnboundStatus
  <2>2. \A n \in minted : IdentityOf(n, PoolReserved(slotOf[n])) \in Identity
    BY <1>4, <2>1 DEF IdentityOf, Identity, Binding
  <2>3. bindings' \in [Nodes -> Binding]
    BY <1>2, <2>1 DEF IInv, TypeOK
  <2> QED  BY <1>2, <2>2, <2>3 DEF IInv, TypeOK
<1>8. Readable'
  <2>1. \A n \in Nodes : Minted(n)' => (bindings[n].gen >= 1)' /\ LegalUnbound(n)'
    BY <1>4, <1>5, <1>6 DEF Minted, LegalUnbound, Bound, UnboundStatus, IInv, Readable
  <2>2. SlotsUnique'
    BY <1>3, <1>4, <1>5, <1>6 DEF SlotsUnique, Live, IInv, Readable
  <2>3. SlotsInCluster'
    BY <1>2, <1>4, <1>6 DEF SlotsInCluster, Live, IInv, ClusterMinted, TypeOK, Binding
  <2>4. TopicsUnique'
    BY <1>4, <1>6 DEF TopicsUnique, Live, Bound, IInv, Readable
  <2> QED  BY <2>1, <2>2, <2>3, <2>4 DEF Readable
<1>9. IdentityFenced' /\ \A id \in granted' : id.gen >= 1
  <2> SUFFICES ASSUME NEW id \in granted'
               PROVE  /\ id.gen <= bindings'[id.node].gen
                      /\ id.gen = bindings'[id.node].gen => id.topic = bindings'[id.node].topic
                      /\ id.gen >= 1
    BY DEF IdentityFenced
  <2>1. CASE id \in granted
    <3>1. id.node \in Nodes /\ id.gen >= 1 /\ id.gen \in Nat /\ id.gen <= bindings[id.node].gen
      BY <2>1 DEF IInv, TypeOK, Identity, IdentityFenced, MintedOnce
    <3>2. id.node \notin minted
      BY <3>1, <1>4 DEF Absent
    <3> QED  BY <2>1, <3>1, <3>2, <1>4 DEF IInv, IdentityFenced
  <2>2. CASE \E n \in minted : id = IdentityOf(n, PoolReserved(slotOf[n]))
    BY <2>2, <1>4, <1>6 DEF IdentityOf
  <2> QED  BY <1>2, <2>1, <2>2
<1>10. MintedOnce'
  BY <1>4, <1>6, <1>9 DEF MintedOnce, Minted, IInv
<1>11. ClusterMinted'
  BY <1>2, <1>4, <1>6 DEF ClusterMinted, IInv
<1> QED  BY <1>7, <1>8, <1>9, <1>10, <1>11 DEF IInv

LEMMA ReserveAvailableKeeps ==
    ASSUME IInv, NEW t \in Topics, ReserveAvailable(t)
    PROVE  IInv'
<1>1. PICK n \in Allocatable : Bind(n, t)
  BY DEF ReserveAvailable
<1>2. n \in Nodes /\ IdleInSlot(n)
  BY DEF Allocatable
<1>3. clustered' = clustered /\ Holders(t) = {}
  BY DEF ReserveAvailable
<1> QED  BY <1>1, <1>2, <1>3, BindWritable, WriteKeepsInvariant DEF Bind, IInv, TypeOK

LEMMA ReserveNewKeeps ==
    ASSUME IInv, NEW t \in Topics, ReserveNew(t)
    PROVE  IInv'
<1> USE ConstantsAssumption
<1>1. PICK n \in Nodes, s \in 1..Capacity :
        ~Minted(n) /\ LowestFree(s) /\ Write(n, NewlyBound(t, s))
  BY DEF ReserveNew
<1> DEFINE b == NewlyBound(t, s)
<1>2. /\ b \in Binding /\ b.status = "reserved" /\ b.gen = 1 /\ b.topic = t
      /\ b.slot = s /\ b.inCluster = TRUE
  BY DEF NewlyBound, NewRecord, Binding, BoundStatus
<1>3. bindings[n].gen = 0
  BY <1>1 DEF IInv, MintedOnce, Absent
<1>4. \A m \in Nodes : Live(m) => bindings[m].slot # s /\ bindings[m].topic # t
  BY <1>1 DEF LowestFree, UsedSlots, Holders, ReserveNew
<1> HIDE DEF b
<1>5. Writable(n, b)
  BY <1>2, <1>3, <1>4 DEF Writable
<1>6. Write(n, b) /\ clustered' = TRUE
  BY <1>1 DEF ReserveNew, b
<1> QED  BY <1>5, <1>6, WriteKeepsInvariant

LEMMA ReservePreparedKeeps ==
    ASSUME IInv, NEW id \in granted, NEW t \in Topics, NEW r \in Resources,
           ReservePrepared(t, id, r)
    PROVE  IInv'
<1>1. id.node \in Nodes /\ IdleInSlot(id.node) /\ Bind(id.node, t) /\ Holders(t) = {}
      /\ clustered' = clustered
  BY CurrentIdentity DEF ReservePrepared
<1> QED  BY <1>1, BindWritable, WriteKeepsInvariant DEF Bind, IInv, TypeOK
LEMMA BeginAvailableReconciliationKeeps ==
    ASSUME IInv, NEW id \in granted, BeginAvailableReconciliation(id)
    PROVE  IInv'
<1> DEFINE n == id.node
           b == [bindings[n] EXCEPT !.status = "pool-provisioning"]
<1>1. /\ n \in Nodes /\ bindings[n] \in Binding /\ Live(n) /\ ~bindings[n].session
      /\ Write(n, b) /\ clustered' = clustered
  BY CurrentIdentity DEF BeginAvailableReconciliation, CanReconcile
<1>2. /\ b \in Binding /\ b.status = "pool-provisioning" /\ b.gen = bindings[n].gen
      /\ b.topic = bindings[n].topic /\ b.slot = bindings[n].slot
      /\ b.inCluster = bindings[n].inCluster /\ b.session = bindings[n].session
  BY <1>1 DEF Binding, UnboundStatus
<1> HIDE DEF n, b
<1>3. Writable(n, b) /\ (b.inCluster => clustered)
  BY <1>1, <1>2, PatchWritable DEF UnboundStatus
<1> QED  BY <1>1, <1>3, WriteKeepsInvariant DEF IInv, TypeOK

LEMMA UpdateStatusKeeps ==
    ASSUME IInv, NEW id \in granted, NEW st \in PatchableStatus(id), UpdateStatus(id, st)
    PROVE  IInv'
<1> DEFINE n == id.node
           b == [bindings[n] EXCEPT !.status = st]
<1> USE ConstantsAssumption
<1>1. /\ n \in Nodes /\ bindings[n] \in Binding /\ Live(n) /\ Minted(n)
      /\ id.topic = bindings[n].topic
      /\ Write(n, b) /\ clustered' = clustered
  BY CurrentIdentity DEF UpdateStatus
<1>2. /\ st \in UnboundStatus \cup BoundStatus /\ st # "absent"
      /\ id.topic = NoTopic => st \in UnboundStatus
  BY DEF PatchableStatus, UnboundStatus, BoundStatus
<1>3. /\ b \in Binding /\ b.status = st /\ b.gen = bindings[n].gen
      /\ b.topic = bindings[n].topic /\ b.slot = bindings[n].slot
      /\ b.inCluster = bindings[n].inCluster /\ b.session = bindings[n].session
  BY <1>1, <1>2 DEF Binding
<1>4. bindings[n].topic = NoTopic => ~bindings[n].session
  BY <1>1 DEF IInv, Readable, LegalUnbound, Bound
<1> HIDE DEF n, b
<1>5. Writable(n, b) /\ (b.inCluster => clustered)
  BY <1>1, <1>2, <1>3, <1>4, PatchWritable
<1> QED  BY <1>1, <1>5, WriteKeepsInvariant DEF IInv, TypeOK

(* The patches of resources, revision and session keep the status.         *)
LEMMA FieldPatchKeeps ==
    ASSUME IInv, NEW id \in granted, Current(id), NEW b \in Binding,
           b.status = bindings[id.node].status, b.gen = bindings[id.node].gen,
           b.topic = bindings[id.node].topic, b.slot = bindings[id.node].slot,
           b.inCluster = bindings[id.node].inCluster,
           b.session => Bound(id.node),
           Write(id.node, b), UNCHANGED clustered
    PROVE  IInv'
<1>1. /\ id.node \in Nodes /\ Live(id.node) /\ Minted(id.node)
  BY CurrentIdentity
<1>2. b.topic = NoTopic => b.status \in UnboundStatus /\ ~b.session
  BY <1>1 DEF IInv, Readable, LegalUnbound, Bound
<1>3. Writable(id.node, b) /\ (b.inCluster => clustered)
  BY <1>1, <1>2, PatchWritable DEF Minted
<1> QED  BY <1>1, <1>3, WriteKeepsInvariant DEF IInv, TypeOK

LEMMA UpdateResourcesKeeps ==
    ASSUME IInv, NEW id \in granted, NEW r \in Resources, UpdateResources(id, r)
    PROVE  IInv'
<1> DEFINE b == [bindings[id.node] EXCEPT !.resources = r]
<1>1. bindings[id.node] \in Binding /\ (bindings[id.node].session => Bound(id.node))
  BY CurrentIdentity DEF UpdateResources, IInv, Readable, LegalUnbound
<1>2. b \in Binding
  BY <1>1 DEF Binding
<1> QED  BY <1>1, <1>2, FieldPatchKeeps DEF UpdateResources, Binding

LEMMA UpdateRevisionKeeps ==
    ASSUME IInv, NEW id \in granted, NEW rev \in 0..MaxRevision, UpdateRevision(id, rev)
    PROVE  IInv'
<1> DEFINE b == [bindings[id.node] EXCEPT !.revision = rev]
<1>1. bindings[id.node] \in Binding /\ (bindings[id.node].session => Bound(id.node))
  BY CurrentIdentity DEF UpdateRevision, IInv, Readable, LegalUnbound
<1>2. b \in Binding
  BY <1>1, ConstantsAssumption DEF Binding
<1> QED  BY <1>1, <1>2, FieldPatchKeeps DEF UpdateRevision, Binding

LEMMA UpdateSessionKeeps ==
    ASSUME IInv, NEW id \in granted, UpdateSession(id)
    PROVE  IInv'
<1> DEFINE b == [bindings[id.node] EXCEPT !.session = TRUE]
<1>1. bindings[id.node] \in Binding /\ Bound(id.node)
  BY CurrentIdentity DEF UpdateSession
<1>2. b \in Binding
  BY <1>1 DEF Binding
<1> QED  BY <1>1, <1>2, FieldPatchKeeps DEF UpdateSession, Binding

LEMMA BeginRecycleKeeps ==
    ASSUME IInv, NEW id \in granted, BeginRecycle(id)
    PROVE  IInv'
<1> DEFINE n == id.node
<1> USE ConstantsAssumption
<1>1. n \in Nodes /\ bindings[n] \in Binding /\ Live(n)
  BY CurrentIdentity DEF BeginRecycle
<1>2. PICK s \in 1..MaxSlot :
        /\ RecycledSlot(n, s)
        /\ Write(n, [bindings[n] EXCEPT !.slot = s, !.inCluster = TRUE, !.gen = @ + 1,
                                        !.topic = NoTopic, !.session = FALSE,
                                        !.status = "retiring"])
  BY DEF BeginRecycle
<1> DEFINE b == [bindings[n] EXCEPT !.slot = s, !.inCluster = TRUE, !.gen = @ + 1,
                                    !.topic = NoTopic, !.session = FALSE,
                                    !.status = "retiring"]
<1>3. /\ b \in Binding /\ b.status = "retiring" /\ b.gen = bindings[n].gen + 1
      /\ b.topic = NoTopic /\ b.slot = s /\ ~b.session
  <2>1. bindings[n].gen + 1 \in Nat /\ s \in Nat
    BY <1>1 DEF Binding
  <2>2. "retiring" \in UnboundStatus \cup BoundStatus \cup {"absent"}
    BY DEF BoundStatus
  <2>3. b \in Binding
    BY <1>1, <2>1, <2>2 DEF Binding
  <2> QED  BY <1>1, <2>3 DEF Binding
<1>4. b.inCluster = TRUE
  BY <1>1 DEF Binding
<1>5. \A m \in Nodes \ {n} : Live(m) => bindings[m].slot # s
  <2>1. CASE bindings[n].slot = 0
    BY <1>2, <2>1 DEF RecycledSlot, LowestFree, UsedSlots
  <2>2. CASE bindings[n].slot # 0
    BY <1>1, <1>2, <2>2 DEF RecycledSlot, IInv, Readable, SlotsUnique
  <2> QED  BY <2>1, <2>2
<1>6. Write(n, b) /\ clustered' = TRUE
  BY <1>2 DEF BeginRecycle
<1> HIDE DEF n, b
<1>7. Writable(n, b)
  BY <1>3, <1>4, <1>5 DEF Writable, UnboundStatus
<1> QED  BY <1>1, <1>6, <1>7, WriteKeepsInvariant

LEMMA CompleteRecycleKeeps ==
    ASSUME IInv, NEW id \in granted, CompleteRecycle(id)
    PROVE  IInv'
<1> DEFINE n == id.node
           b == [bindings[n] EXCEPT !.status = "available"]
<1>1. /\ n \in Nodes /\ bindings[n] \in Binding /\ Live(n) /\ Minted(n) /\ ~Bound(n)
      /\ Write(n, b) /\ clustered' = clustered
  BY CurrentIdentity DEF CompleteRecycle
<1>2. /\ b \in Binding /\ b.status = "available" /\ b.gen = bindings[n].gen
      /\ b.topic = bindings[n].topic /\ b.slot = bindings[n].slot
      /\ b.inCluster = bindings[n].inCluster /\ b.session = bindings[n].session
  BY <1>1 DEF Binding, UnboundStatus
<1>3. ~bindings[n].session
  BY <1>1 DEF IInv, Readable, LegalUnbound
<1> HIDE DEF n, b
<1>4. Writable(n, b) /\ (b.inCluster => clustered)
  BY <1>1, <1>2, <1>3, PatchWritable DEF UnboundStatus
<1> QED  BY <1>1, <1>4, WriteKeepsInvariant DEF IInv, TypeOK

LEMMA FenceKeeps ==
    ASSUME IInv, NEW id \in granted, Fence(id)
    PROVE  IInv'
<1> DEFINE n == id.node
           b == [bindings[n] EXCEPT !.gen = @ + 1, !.status = "retiring"]
<1>1. /\ n \in Nodes /\ bindings[n] \in Binding /\ Live(n) /\ Minted(n)
      /\ Write(n, b) /\ clustered' = clustered
  BY CurrentIdentity DEF Fence
<1>2. /\ b \in Binding /\ b.status = "retiring" /\ b.gen = bindings[n].gen + 1
      /\ b.topic = bindings[n].topic /\ b.slot = bindings[n].slot
      /\ b.inCluster = bindings[n].inCluster /\ b.session = bindings[n].session
  <2>1. bindings[n].gen + 1 \in Nat
    BY <1>1 DEF Binding
  <2>2. "retiring" \in UnboundStatus \cup BoundStatus \cup {"absent"}
    BY DEF BoundStatus
  <2>3. b \in Binding
    BY <1>1, <2>1, <2>2 DEF Binding
  <2> QED  BY <1>1, <2>3 DEF Binding
<1>3. b.topic = NoTopic => ~b.session /\ b.slot # 0
  BY <1>1, <1>2 DEF IInv, Readable, LegalUnbound, Bound
<1>4. b.slot # 0 => \A m \in Nodes \ {n} : Live(m) => bindings[m].slot # b.slot
  BY <1>1, <1>2 DEF IInv, Readable, SlotsUnique
<1>5. b.topic # NoTopic => \A m \in Nodes \ {n} : Live(m) => bindings[m].topic # b.topic
  BY <1>1, <1>2 DEF IInv, Readable, TopicsUnique, Bound
<1> HIDE DEF n, b
<1>6. Writable(n, b) /\ (b.inCluster => clustered)
  BY <1>1, <1>2, <1>3, <1>4, <1>5 DEF Writable, UnboundStatus, IInv, ClusterMinted
<1> QED  BY <1>1, <1>6, WriteKeepsInvariant DEF IInv, TypeOK

-----------------------------------------------------------------------------
LEMMA NextKeepsInvariant == IInv /\ [Next]_vars => IInv'
<1> SUFFICES ASSUME IInv, [Next]_vars PROVE IInv'
  OBVIOUS
<1>1. ASSUME NEW warm \in 0..Capacity, EnsurePoolSlots(warm) PROVE IInv'
  BY <1>1, EnsurePoolSlotsKeeps
<1>2. ASSUME NEW t \in Topics, ReserveAvailable(t) \/ ReserveNew(t) PROVE IInv'
  BY <1>2, ReserveAvailableKeeps, ReserveNewKeeps
<1>3. ASSUME NEW id \in granted, HeldIdentityStep(id) PROVE IInv'
  <2>1. CASE BeginAvailableReconciliation(id)
    BY <2>1, BeginAvailableReconciliationKeeps
  <2>2. CASE \E t \in Topics, r \in Resources : ReservePrepared(t, id, r)
    BY <2>2, ReservePreparedKeeps
  <2>3. CASE \E st \in PatchableStatus(id) : UpdateStatus(id, st)
    BY <2>3, UpdateStatusKeeps
  <2>4. CASE \E r \in Resources : UpdateResources(id, r)
    BY <2>4, UpdateResourcesKeeps
  <2>5. CASE \E rev \in 0..MaxRevision : UpdateRevision(id, rev)
    BY <2>5, UpdateRevisionKeeps
  <2>6. CASE UpdateSession(id)
    BY <2>6, UpdateSessionKeeps
  <2>7. CASE BeginRecycle(id)
    BY <2>7, BeginRecycleKeeps
  <2>8. CASE CompleteRecycle(id)
    BY <2>8, CompleteRecycleKeeps
  <2>9. CASE Fence(id)
    BY <2>9, FenceKeeps
  <2> QED  BY <1>3, <2>1, <2>2, <2>3, <2>4, <2>5, <2>6, <2>7, <2>8, <2>9 DEF HeldIdentityStep
<1>4. CASE UNCHANGED vars
  BY <1>4 DEF vars, IInv, TypeOK, Readable, SlotsUnique, SlotsInCluster, TopicsUnique,
              IdentityFenced, MintedOnce, ClusterMinted, Minted, Live, Bound, LegalUnbound
<1> QED  BY <1>1, <1>2, <1>3, <1>4 DEF Next

(* The history has every identity the table had; it is never cut.          *)
IdentitiesGranted == \A n \in Nodes : Minted(n) => IdentityOf(n, bindings[n]) \in granted

LEMMA HistoryGrows ==
    ASSUME IInv, IdentitiesGranted, [Next]_vars
    PROVE  IdentitiesGranted' /\ granted \subseteq granted'
<1> DEFINE Goal == IdentitiesGranted' /\ granted \subseteq granted'
<1>1. ASSUME NEW n \in Nodes, NEW b, Write(n, b) PROVE Goal
  <2>1. /\ bindings'[n] = b
        /\ \A m \in Nodes \ {n} : bindings'[m] = bindings[m]
        /\ granted' = granted \cup {IdentityOf(n, b)}
    BY <1>1 DEF IInv, TypeOK, Write
  <2> QED  BY <2>1 DEF IdentitiesGranted, Minted, IdentityOf
<1>2. ASSUME NEW warm \in 0..Capacity, EnsurePoolSlots(warm) PROVE Goal
  <2> DEFINE missing == (1..warm) \ UsedSlots
  <2>1. PICK minted \in SUBSET {n \in Nodes : ~Minted(n)} :
          \E slotOf \in Bijection(minted, missing) :
            /\ bindings' = [n \in Nodes |-> IF n \in minted THEN PoolReserved(slotOf[n])
                                                            ELSE bindings[n]]
            /\ granted' = granted \cup {IdentityOf(n, PoolReserved(slotOf[n])) : n \in minted}
    BY <1>2 DEF EnsurePoolSlots
  <2>2. PICK slotOf \in Bijection(minted, missing) :
            /\ bindings' = [n \in Nodes |-> IF n \in minted THEN PoolReserved(slotOf[n])
                                                            ELSE bindings[n]]
            /\ granted' = granted \cup {IdentityOf(n, PoolReserved(slotOf[n])) : n \in minted}
    BY <2>1
  <2> HIDE DEF missing
  <2>3. ASSUME NEW n \in Nodes, Minted(n)' PROVE IdentityOf(n, bindings'[n]) \in granted'
    <3>1. CASE n \in minted
      BY <2>2, <3>1
    <3>2. CASE n \notin minted
      BY <2>2, <2>3, <3>2 DEF IdentitiesGranted, Minted
    <3> QED  BY <3>1, <3>2
  <2> QED  BY <2>2, <2>3 DEF IdentitiesGranted, IdentityOf
<1>3. ASSUME NEW t \in Topics, ReserveAvailable(t) \/ ReserveNew(t) PROVE Goal
  BY <1>1, <1>3 DEF ReserveAvailable, ReserveNew, Allocatable, Bind
<1>4. ASSUME NEW id \in granted, HeldIdentityStep(id) PROVE Goal
  <2>1. id.node \in Nodes
    BY DEF IInv, TypeOK, Identity
  <2> HIDE DEF Goal
  <2> QED  BY <1>1, <1>4, <2>1 DEF HeldIdentityStep, BeginAvailableReconciliation, ReservePrepared,
              Bind, UpdateStatus, UpdateResources, UpdateRevision, UpdateSession, BeginRecycle,
              CompleteRecycle, Fence
<1>5. ASSUME UNCHANGED vars PROVE Goal
  BY <1>5 DEF vars, IdentitiesGranted, Minted, IdentityOf
<1> HIDE DEF Goal
<1>6. Goal
  BY <1>2, <1>3, <1>4, <1>5 DEF Next
<1> QED  BY <1>6 DEF Goal

(* The inductive invariant holds in every reachable state.                 *)
THEOREM Invariant == Spec => []IInv
<1>1. Init => IInv
  BY InitInvariant
<1>2. IInv /\ [Next]_vars => IInv'
  BY NextKeepsInvariant
<1> QED  BY <1>1, <1>2, PTL DEF Spec

(* The table always has the type the code gives it.                        *)
THEOREM TypeCorrect == Spec => []TypeOK
<1>1. IInv => TypeOK
  BY DEF IInv
<1> QED  BY <1>1, Invariant, PTL

(* No sequence of operations, however stale the identities their callers   *)
(* hold, writes a table that the validator of the next read() refuses.     *)
THEOREM AlwaysReadable == Spec => []Readable
<1>1. IInv => Readable
  BY DEF IInv
<1> QED  BY <1>1, Invariant, PTL

(* An identity of the current generation names the Topic now served.       *)
THEOREM IdentitiesFenced == Spec => []IdentityFenced
<1>1. IInv => IdentityFenced
  BY DEF IInv
<1> QED  BY <1>1, Invariant, PTL

-----------------------------------------------------------------------------
(* How one step may change the record of one node.                         *)
Forward(n, b) ==
    /\ ~Minted(n) => b.slot <= Capacity
    /\ Minted(n) => /\ b.gen \in {bindings[n].gen, bindings[n].gen + 1}
                    /\ b.revision >= bindings[n].revision
                    /\ bindings[n].status = "retired" => b = bindings[n]
                    /\ b.topic # bindings[n].topic
                          => /\ b.gen = bindings[n].gen + 1
                             /\ b.status \in {"reserved", "retiring"}
                    /\ bindings[n].slot > Capacity /\ ~Bound(n) => b.topic = NoTopic
                    /\ b.slot # bindings[n].slot => Bound(n) /\ bindings[n].slot = 0

LEMMA StayForward ==
    ASSUME IInv, NEW n \in Nodes
    PROVE  Forward(n, bindings[n])
  BY ConstantsAssumption DEF Forward, IInv, TypeOK, Binding, Bound, MintedOnce, Absent

LEMMA WriteForward ==
    ASSUME IInv, NEW n \in Nodes, NEW b, Write(n, b), Forward(n, b)
    PROVE  \A m \in Nodes : Forward(m, bindings'[m])
<1> TAKE m \in Nodes
<1>1. m = n => bindings'[m] = b
  BY DEF Write, IInv, TypeOK
<1>2. m # n => bindings'[m] = bindings[m]
  BY DEF Write, IInv, TypeOK
<1> QED  BY <1>1, <1>2, StayForward

LEMMA NextForward ==
    ASSUME IInv, [Next]_vars
    PROVE  \A n \in Nodes : Forward(n, bindings'[n])
<1>1. ASSUME NEW warm \in 0..Capacity, EnsurePoolSlots(warm)
      PROVE  \A n \in Nodes : Forward(n, bindings'[n])
  <2> TAKE n \in Nodes
  <2> DEFINE missing == (1..warm) \ UsedSlots
  <2>1. PICK minted \in SUBSET {m \in Nodes : ~Minted(m)} :
          \E slotOf \in Bijection(minted, missing) :
            bindings' = [m \in Nodes |-> IF m \in minted THEN PoolReserved(slotOf[m])
                                                         ELSE bindings[m]]
    BY <1>1 DEF EnsurePoolSlots
  <2>2. PICK slotOf \in Bijection(minted, missing) :
          bindings' = [m \in Nodes |-> IF m \in minted THEN PoolReserved(slotOf[m])
                                                       ELSE bindings[m]]
    BY <2>1
  <2>3. CASE n \in minted
    <3>1. slotOf[n] \in 1..warm
      BY <2>3 DEF Bijection, Injection
    <3>2. bindings'[n].slot = slotOf[n]
      BY <2>2, <2>3 DEF PoolReserved, NewRecord
    <3> QED  BY <2>3, <3>1, <3>2, ConstantsAssumption DEF Forward
  <2>4. CASE n \notin minted
    BY <2>2, <2>4, StayForward
  <2> QED  BY <2>3, <2>4
<1>2. ASSUME NEW n \in Nodes, NEW t \in Topics, Bind(n, t), IdleInSlot(n)
      PROVE  \A m \in Nodes : Forward(m, bindings'[m])
  <2> DEFINE b == [bindings[n] EXCEPT !.gen = @ + 1, !.topic = t, !.status = "reserved"]
  <2>1. bindings[n] \in Binding /\ bindings[n].status = "available" /\ Minted(n)
    BY <1>2 DEF IInv, TypeOK, IdleInSlot, Minted
  <2>2. Forward(n, b)
    BY <1>2, <2>1, ConstantsAssumption DEF Forward, Binding, IdleInSlot
  <2> QED  BY <1>2, <2>2, WriteForward DEF Bind
<1>3. ASSUME NEW t \in Topics, ReserveAvailable(t) \/ ReserveNew(t)
      PROVE  \A n \in Nodes : Forward(n, bindings'[n])
  <2>1. CASE ReserveAvailable(t)
    BY <1>2, <2>1 DEF ReserveAvailable, Allocatable
  <2>2. CASE ReserveNew(t)
    <3>1. PICK n \in Nodes, s \in 1..Capacity : ~Minted(n) /\ Write(n, NewlyBound(t, s))
      BY <2>2 DEF ReserveNew
    <3>2. Forward(n, NewlyBound(t, s))
      BY <3>1, ConstantsAssumption DEF Forward, NewlyBound, NewRecord
    <3> QED  BY <3>1, <3>2, WriteForward
  <2> QED  BY <1>3, <2>1, <2>2
<1>4. ASSUME NEW id \in granted, HeldIdentityStep(id)
      PROVE  \A n \in Nodes : Forward(n, bindings'[n])
  <2> DEFINE n == id.node
  <2>1. n \in Nodes
    BY DEF IInv, TypeOK, Identity
  <2>2. ASSUME Current(id)
        PROVE  bindings[n] \in Binding /\ Minted(n) /\ bindings[n].status # "retired"
    BY <2>2, CurrentIdentity DEF Live
  <2>3. ASSUME Current(id), NEW st, Write(n, [bindings[n] EXCEPT !.status = st])
        PROVE  \A m \in Nodes : Forward(m, bindings'[m])
    <3>1. Forward(n, [bindings[n] EXCEPT !.status = st])
      BY <2>2, <2>3 DEF Forward, Binding, Bound
    <3> QED  BY <2>1, <2>3, <3>1, WriteForward
  <2>4. CASE BeginAvailableReconciliation(id)
    BY <2>3, <2>4 DEF BeginAvailableReconciliation, CanReconcile
  <2>5. CASE \E t \in Topics, r \in Resources : ReservePrepared(t, id, r)
    BY <1>2, <2>1, <2>5 DEF ReservePrepared
  <2>6. CASE \E st \in PatchableStatus(id) : UpdateStatus(id, st)
    BY <2>3, <2>6 DEF UpdateStatus
  <2>7. CASE \E r \in Resources : UpdateResources(id, r)
    <3>1. PICK r \in Resources : UpdateResources(id, r)
      BY <2>7
    <3>2. Forward(n, [bindings[n] EXCEPT !.resources = r])
      BY <2>2, <3>1 DEF Forward, Binding, Bound, UpdateResources
    <3> QED  BY <2>1, <3>1, <3>2, WriteForward DEF UpdateResources
  <2>8. CASE \E rev \in 0..MaxRevision : UpdateRevision(id, rev)
    <3>1. PICK rev \in 0..MaxRevision : UpdateRevision(id, rev)
      BY <2>8
    <3>2. Forward(n, [bindings[n] EXCEPT !.revision = rev])
      BY <2>2, <3>1 DEF Forward, Binding, Bound, UpdateRevision
    <3> QED  BY <2>1, <3>1, <3>2, WriteForward DEF UpdateRevision
  <2>9. CASE UpdateSession(id)
    <3>1. Forward(n, [bindings[n] EXCEPT !.session = TRUE])
      BY <2>2, <2>9 DEF Forward, Binding, Bound, UpdateSession
    <3> QED  BY <2>1, <2>9, <3>1, WriteForward DEF UpdateSession
  <2>10. CASE BeginRecycle(id)
    <3>1. PICK s \in 1..MaxSlot :
            /\ RecycledSlot(n, s)
            /\ Write(n, [bindings[n] EXCEPT !.slot = s, !.inCluster = TRUE, !.gen = @ + 1,
                                            !.topic = NoTopic, !.session = FALSE,
                                            !.status = "retiring"])
      BY <2>10 DEF BeginRecycle
    <3> DEFINE b == [bindings[n] EXCEPT !.slot = s, !.inCluster = TRUE, !.gen = @ + 1,
                                        !.topic = NoTopic, !.session = FALSE,
                                        !.status = "retiring"]
    <3>2. Forward(n, b)
      BY <2>2, <2>10, <3>1 DEF Forward, Binding, Bound, BeginRecycle, RecycledSlot
    <3> QED  BY <2>1, <3>1, <3>2, WriteForward
  <2>11. CASE CompleteRecycle(id)
    BY <2>3, <2>11 DEF CompleteRecycle
  <2>12. CASE Fence(id)
    <3>1. Forward(n, [bindings[n] EXCEPT !.gen = @ + 1, !.status = "retiring"])
      BY <2>2, <2>12 DEF Forward, Binding, Bound, Fence
    <3> QED  BY <2>1, <2>12, <3>1, WriteForward DEF Fence
  <2> QED  BY <1>4, <2>4, <2>5, <2>6, <2>7, <2>8, <2>9, <2>10, <2>11, <2>12
           DEF HeldIdentityStep
<1>5. CASE UNCHANGED vars
  BY <1>5, StayForward DEF vars
<1> QED  BY <1>1, <1>3, <1>4, <1>5 DEF Next

(* Generations, revisions and retirement only move forward, and a Worker   *)
(* changes hands only together with its generation.                        *)
THEOREM MovesForward == Spec => NodeMovesForward
<1>1. IInv /\ [Next]_vars =>
        [\A n \in Nodes : Minted(n) =>
            /\ bindings'[n].gen \in {bindings[n].gen, bindings[n].gen + 1}
            /\ bindings'[n].revision >= bindings[n].revision
            /\ bindings[n].status = "retired" => bindings'[n] = bindings[n]
            /\ bindings'[n].topic # bindings[n].topic
                  => /\ bindings'[n].gen = bindings[n].gen + 1
                     /\ bindings'[n].status \in {"reserved", "retiring"}]_vars
  BY NextForward DEF Forward
<1> QED  BY <1>1, Invariant, PTL DEF Spec, NodeMovesForward

(* New slots above the capacity come only from Topics older than slots, and *)
(* a Worker in such a slot is never given to a Topic again.                 *)
THEOREM CapacityNeverExceeded == Spec => CapacityHeld
<1>1. ASSUME IInv, [Next]_vars, NEW n \in Nodes PROVE NoNewOverflow(n)
  <2> SUFFICES ASSUME bindings'[n].slot > Capacity, bindings'[n].slot # bindings[n].slot
               PROVE  Minted(n) /\ Bound(n) /\ bindings[n].slot = 0
    BY DEF NoNewOverflow
  <2>1. bindings'[n].slot \in Nat
    BY <1>1, NextKeepsInvariant DEF IInv, TypeOK, Binding
  <2>2. Forward(n, bindings'[n])
    BY <1>1, NextForward
  <2> QED  BY <2>1, <2>2, ConstantsAssumption DEF Forward
<1>2. ASSUME IInv, NEW n \in Nodes, ~Minted(n)
      PROVE  ~(bindings[n].slot > Capacity)
  BY <1>2, ConstantsAssumption DEF IInv, MintedOnce, Absent
<1>3. ASSUME IInv, [Next]_vars, NEW n \in Nodes PROVE OverflowUnbound(n)
  BY <1>2, <1>3, NextForward DEF Forward, OverflowUnbound
<1>4. IInv /\ [Next]_vars => [\A n \in Nodes : NoNewOverflow(n) /\ OverflowUnbound(n)]_vars
  BY <1>1, <1>3
<1> QED  BY <1>4, Invariant, PTL DEF Spec, CapacityHeld
=============================================================================
