------------------------ MODULE TopicCreation_proofs ------------------------
(***************************************************************************)
(* Proofs about TopicCreation for every set of chats, updates, Workers and *)
(* Topics.  The table is only used through its own operations, so what     *)
(* NodeBindings_proofs shows of it holds here too.  On top of that, what a *)
(* delivery may do is tied to what the receipt of its request says (CInv), *)
(* and what is left of a Topic - its route, its Worker, the Topic itself - *)
(* to the receipt, the delivery and a deletion of it (UInv).               *)
(***************************************************************************)
EXTENDS TopicCreation, NodeBindings_proofs

WorkerId == [node : Nodes \cup {"none"}, gen : Nat]

Receipt ==
    [known : BOOLEAN, thread : Topics \cup {NoTopic}, prepared : WorkerId,
     completed : BOOLEAN, cleaning : BOOLEAN, failed : BOOLEAN]

Delivery ==
    [pc : Steps, fresh : BOOLEAN, thread : Topics \cup {NoTopic}, prepared : WorkerId]

Typed ==
    /\ receipt \in [Requests -> Receipt]
    /\ flow \in [Requests -> Delivery]
    /\ owner \in [Topics -> Requests \cup {NoRequest}]

Waiting  == Ended \cup {"queued"}
Starting == {"verify", "note", "create"}
Preparing == {"prepare", "session", "activate"}
Cleanup  == {"cleaning", "retire", "recycle", "untopic", "unsave", "close"}

(* What the receipt of a request says about its delivery.                  *)
Consistent(r) ==
    /\ flow[r].thread # NoTopic => owner[flow[r].thread] = r
    /\ receipt[r].thread # NoTopic => owner[receipt[r].thread] = r
    /\ flow[r].pc \notin Waiting => receipt[r].known
    /\ receipt[r].completed \/ receipt[r].cleaning => receipt[r].known
    /\ receipt[r].completed => flow[r].pc \in Waiting \cup {"look", "canonical"} \cup Cleanup
    /\ receipt[r].completed /\ ~receipt[r].cleaning => flow[r].pc \notin Cleanup
    /\ receipt[r].cleaning => flow[r].pc \in Waiting \cup Cleanup
    /\ flow[r].pc \in Preparing \cup {"thread", "look", "canonical"} => flow[r].thread \in Topics
    /\ flow[r].pc \in {"session", "activate"} => Prepared(r) \in granted

(* Topics have one owner each, known to its receipt, and a request that    *)
(* owns one is past the point of creating another.                         *)
Owned(r) ==
    /\ \A t \in Topics : owner[t] = r => receipt[r].known
    /\ flow[r].pc \in Starting => \A t \in Topics : owner[t] # r
    /\ \A t, u \in Topics : owner[t] = r /\ owner[u] = r => t = u

CInv ==
    /\ IInv
    /\ IdentitiesGranted
    /\ Typed
    /\ \A r \in Requests : Consistent(r) /\ Owned(r)

-----------------------------------------------------------------------------
(* One operation on the table that writes a record for a node and leaves   *)
(* the Topics of every node alone, except that it may unbind one.          *)
Mild ==
    \E n \in Nodes : \E b : Write(n, b) /\ b.topic \in {bindings[n].topic, NoTopic}

(* A step of a creation or a deletion on the table.                        *)
LEMMA PatchIsTableStep ==
    ASSUME IInv, NEW id \in granted, id.topic \in Topics,
           UpdateSession(id) \/ UpdateStatus(id, "ready") \/ UpdateStatus(id, "failed")
    PROVE  Next /\ Mild
<1>1. id.node \in Nodes
  BY DEF IInv, TypeOK, Identity
<1>2. bindings \in [Nodes -> Binding]
  BY DEF IInv, TypeOK
<1>3. HeldIdentityStep(id)
  BY ConstantsAssumption DEF HeldIdentityStep, PatchableStatus
<1>4. Mild
  <2>1. CASE UpdateSession(id)
    BY <2>1, <1>1, <1>2 DEF UpdateSession, Mild, Binding
  <2>2. CASE UpdateStatus(id, "ready")
    BY <2>2, <1>1, <1>2 DEF UpdateStatus, Mild, Binding
  <2>3. CASE UpdateStatus(id, "failed")
    BY <2>3, <1>1, <1>2 DEF UpdateStatus, Mild, Binding
  <2> QED  BY <2>1, <2>2, <2>3
<1> QED  BY <1>3, <1>4 DEF Next

LEMMA RetireIsTableStep ==
    ASSUME IInv, IdentitiesGranted, NEW t \in Topics \cup {NoTopic},
           RetireWorker(t) \/ Recycled(t)
    PROVE  UNCHANGED vars \/ (Next /\ Mild)
<1>1. bindings \in [Nodes -> Binding]
  BY DEF IInv, TypeOK
<1>2. ASSUME NEW n \in Nodes, BeginRecycle(IdentityOf(n, bindings[n]))
      PROVE  Next /\ Mild
  <2>1. Minted(n)
    BY <1>2 DEF BeginRecycle, Current, Live, Minted, IdentityOf
  <2>2. IdentityOf(n, bindings[n]) \in granted
    BY <2>1 DEF IdentitiesGranted
  <2>3. Mild
    <3> DEFINE unbound(s) == [bindings[n] EXCEPT
                 !.slot = s, !.inCluster = TRUE, !.gen = @ + 1,
                 !.topic = NoTopic, !.session = FALSE, !.status = "retiring"]
    <3>1. PICK s \in 1..MaxSlot : Write(n, unbound(s))
      BY <1>2 DEF BeginRecycle, IdentityOf
    <3>2. unbound(s).topic = NoTopic
      BY <1>1 DEF Binding
    <3> QED  BY <3>1, <3>2 DEF Mild
  <2> QED  BY <1>2, <2>2, <2>3 DEF Next, HeldIdentityStep
<1>3. ASSUME NEW n \in Nodes, CompleteRecycle(IdentityOf(n, bindings[n]))
      PROVE  Next /\ Mild
  <2>1. Minted(n)
    BY <1>3 DEF CompleteRecycle, Current, Live, Minted, IdentityOf
  <2>2. IdentityOf(n, bindings[n]) \in granted
    BY <2>1 DEF IdentitiesGranted
  <2>3. Mild
    BY <1>1, <1>3 DEF CompleteRecycle, Mild, Binding, IdentityOf
  <2> QED  BY <1>3, <2>2, <2>3 DEF Next, HeldIdentityStep
<1>4. CASE RetireWorker(t)
  BY <1>4, <1>2 DEF RetireWorker, Holders
<1>5. CASE Recycled(t)
  BY <1>5, <1>3 DEF Recycled
<1> QED  BY <1>4, <1>5

(* A claim writes the next generation of a Worker for the Topic.           *)
LEMMA ClaimIsTableStep ==
    ASSUME IInv, IdentitiesGranted, NEW t \in Topics, NEW n \in Nodes, NEW g, NEW res \in Resources,
           ReservePrepared(t, [node |-> n, gen |-> g, topic |-> NoTopic], res)
    PROVE  /\ Next
           /\ \E b : /\ Write(n, b)
                     /\ b = [bindings[n] EXCEPT !.gen = bindings[n].gen + 1, !.topic = t,
                                                !.status = "reserved"]
<1> DEFINE id == [node |-> n, gen |-> g, topic |-> NoTopic]
<1>1. /\ Current(id) /\ IdleInSlot(n)
      /\ Bind(n, t)
  BY DEF ReservePrepared
<1>2. id = IdentityOf(n, bindings[n]) /\ Minted(n)
  BY <1>1 DEF Current, IdleInSlot, Bound, IdentityOf, Live, Minted
<1>3. id \in granted
  BY <1>2 DEF IdentitiesGranted
<1>4. HeldIdentityStep(id)
  BY DEF HeldIdentityStep
<1> QED  BY <1>1, <1>3, <1>4 DEF Next, Bind

(* What every step of a creation does to the table: nothing, an operation  *)
(* that gives no Worker to a Topic, or the claim of one for the Topic of a *)
(* request that is being prepared.                                         *)
Claims(r) ==
    /\ flow[r].pc = "prepare"
    /\ \E n \in Nodes : \E b :
          /\ Write(n, b)
          /\ b = [bindings[n] EXCEPT !.gen = bindings[n].gen + 1, !.topic = flow[r].thread,
                                     !.status = "reserved"]

LEMMA StepOnTable ==
    ASSUME CInv, CreationNext
    PROVE  \/ UNCHANGED vars
           \/ Next /\ Mild
           \/ Next /\ \E r \in Requests : Claims(r)
<1> USE DEF CInv
<1>1. ASSUME NEW r \in Requests, Serve(r)
      PROVE  \/ UNCHANGED vars
             \/ Next /\ Mild
             \/ Next /\ Claims(r)
  <2>0. flow[r].thread \in Topics \cup {NoTopic}
    BY DEF Typed, Delivery
  <2>1. CASE ClaimWorker(r)
    <3>1. flow[r].pc = "prepare" /\ flow[r].thread \in Topics
      BY <2>1 DEF ClaimWorker, Consistent, Preparing
    <3>2. ASSUME NEW w \in Candidates(r), NEW n \in Nodes, NEW res \in Resources,
                 ReservePrepared(flow[r].thread, [node |-> n, gen |-> w.gen, topic |-> NoTopic], res)
          PROVE  Next /\ Claims(r)
      BY <3>1, <3>2, ClaimIsTableStep DEF Claims
    <3> QED  BY <2>1, <3>2 DEF ClaimWorker
  <2>2. CASE AdoptSession(r) \/ Activate(r) \/ PrepareFails(r)
    <3>1. flow[r].pc \in {"session", "activate"}
      BY <2>2 DEF AdoptSession, Activate, PrepareFails
    <3>2. Prepared(r) \in granted /\ Prepared(r).topic \in Topics
      BY <3>1 DEF Consistent, Preparing, Prepared
    <3>3. \/ UNCHANGED vars
          \/ UpdateSession(Prepared(r))
          \/ UpdateStatus(Prepared(r), "ready")
          \/ UpdateStatus(Prepared(r), "failed")
      BY <2>2 DEF AdoptSession, Activate, PrepareFails
    <3> QED  BY <3>2, <3>3, PatchIsTableStep
  <2>3. CASE BeginRetire(r) \/ FinishRetire(r)
    BY <2>0, <2>3, RetireIsTableStep DEF BeginRetire, FinishRetire
  <2>4. CASE \/ BeginCreation(r) \/ VerifyWorker(r) \/ RecordPrepared(r) \/ CreateForumTopic(r)
             \/ Drop(r) \/ RecordThread(r) \/ LookUp(r) \/ Acknowledge(r) \/ SaveBinding(r)
             \/ RecordCompleted(r) \/ RecordCleaning(r) \/ DeleteForumTopic(r)
             \/ RemoveBinding(r) \/ RecordFailed(r) \/ CleanupFails(r)
    BY <2>4 DEF BeginCreation, VerifyWorker, RecordPrepared, CreateForumTopic, Drop, RecordThread,
         LookUp, Acknowledge, SaveBinding, RecordCompleted, RecordCleaning, DeleteForumTopic,
         RemoveBinding, RecordFailed, CleanupFails
  <2> QED  BY <1>1, <2>1, <2>2, <2>3, <2>4 DEF Serve
<1>2. ASSUME NEW t \in Topics, DeleteStep(t)
      PROVE  UNCHANGED vars \/ (Next /\ Mild)
  BY <1>2, RetireIsTableStep DEF DeleteStep
<1>3. ASSUME NEW r \in Requests, Deliver(r)
      PROVE  UNCHANGED vars
  BY <1>3 DEF Deliver
<1>4. ASSUME NEW t \in Topics, BeginDelete(t)
      PROVE  UNCHANGED vars
  BY <1>4 DEF BeginDelete
<1>5. CASE Restart
  BY <1>5 DEF Restart
<1> QED  BY <1>1, <1>2, <1>3, <1>4, <1>5 DEF CreationNext

(* The invariant of the table, its history included, is kept.              *)
LEMMA TableKept ==
    ASSUME CInv, [CreationNext]_allvars
    PROVE  IInv' /\ IdentitiesGranted' /\ granted \subseteq granted'
<1>1. [Next]_vars
  BY StepOnTable DEF allvars
<1> QED  BY <1>1, NextKeepsInvariant, HistoryGrows DEF CInv

-----------------------------------------------------------------------------
(* A step of one delivery leaves what the others say of themselves intact. *)
LEMMA OthersKept ==
    ASSUME CInv, granted \subseteq granted', NEW r \in Requests, NEW q \in Requests, q # r,
           flow'[q] = flow[q], receipt'[q] = receipt[q],
           \/ owner' = owner
           \/ \E t \in Topics : owner[t] = NoRequest /\ owner' = [owner EXCEPT ![t] = r]
    PROVE  Consistent(q)' /\ Owned(q)'
<1>1. \A t \in Topics : owner'[t] = q <=> owner[t] = q
  BY CreationAssumption DEF CInv, Typed
<1>2. flow[q].thread \in Topics \cup {NoTopic} /\ receipt[q].thread \in Topics \cup {NoTopic}
  BY DEF CInv, Typed, Delivery, Receipt
<1>3. Prepared(q)' = Prepared(q)
  BY DEF Prepared
<1>4. Consistent(q) /\ Owned(q)
  BY DEF CInv
<1>5. Consistent(q)'
  BY <1>1, <1>2, <1>3, <1>4 DEF Consistent
<1>6. Owned(q)'
  BY <1>1, <1>4 DEF Owned
<1> QED  BY <1>5, <1>6

(* What a delivery that becomes f, with its receipt becoming c, must meet. *)
Fits(r, f, c) ==
    /\ f.thread # NoTopic => owner[f.thread] = r
    /\ c.thread # NoTopic => owner[c.thread] = r
    /\ f.pc \notin Waiting => c.known
    /\ c.completed \/ c.cleaning \/ receipt[r].known => c.known
    /\ c.completed => f.pc \in Waiting \cup {"look", "canonical"} \cup Cleanup
    /\ c.completed /\ ~c.cleaning => f.pc \notin Cleanup
    /\ c.cleaning => f.pc \in Waiting \cup Cleanup
    /\ f.pc \in Preparing \cup {"thread", "look", "canonical"} => f.thread \in Topics
    /\ f.pc \in {"session", "activate"} =>
          [node |-> f.prepared.node, gen |-> f.prepared.gen, topic |-> f.thread] \in granted'
    /\ f.pc \in Starting => \A t \in Topics : owner[t] # r

LEMMA BecomesKeeps ==
    ASSUME CInv, granted \subseteq granted', NEW r \in Requests,
           NEW f \in Delivery, NEW c \in Receipt, Fits(r, f, c),
           flow' = [flow EXCEPT ![r] = f], receipt' = [receipt EXCEPT ![r] = c], owner' = owner
    PROVE  Typed' /\ \A q \in Requests : Consistent(q)' /\ Owned(q)'
<1>1. Typed'
  BY DEF CInv, Typed
<1>2. flow'[r] = f /\ receipt'[r] = c
  BY DEF CInv, Typed
<1>3. Consistent(r)'
  BY <1>2 DEF Consistent, Fits, Prepared
<1>4. Owned(r)'
  BY <1>2 DEF Owned, Fits, CInv
<1>5. \A q \in Requests \ {r} : flow'[q] = flow[q] /\ receipt'[q] = receipt[q]
  BY DEF CInv, Typed
<1> QED  BY <1>1, <1>3, <1>4, <1>5, OthersKept

(* The two ways a delivery moves on: to another step, or to its answer.    *)
LEMMA GoKeeps ==
    ASSUME CInv, granted \subseteq granted', NEW r \in Requests, NEW pc \in Steps,
           NEW c \in Receipt, Go(r, pc), Fits(r, [flow[r] EXCEPT !.pc = pc], c),
           receipt' = [receipt EXCEPT ![r] = c], owner' = owner
    PROVE  Typed' /\ \A q \in Requests : Consistent(q)' /\ Owned(q)'
<1> DEFINE f == [flow[r] EXCEPT !.pc = pc]
<1>1. f \in Delivery /\ flow' = [flow EXCEPT ![r] = f]
  BY DEF Go, CInv, Typed, Delivery
<1> QED  BY <1>1, BecomesKeeps

LEMMA SettleKeeps ==
    ASSUME CInv, granted \subseteq granted', NEW r \in Requests, NEW pc \in Waiting,
           NEW c \in Receipt, receipt[r].known => c.known, c.completed \/ c.cleaning => c.known,
           c.thread # NoTopic => owner[c.thread] = r,
           flow' = [flow EXCEPT ![r] = [NoFlow EXCEPT !.pc = pc]],
           receipt' = [receipt EXCEPT ![r] = c], owner' = owner
    PROVE  Typed' /\ \A q \in Requests : Consistent(q)' /\ Owned(q)'
<1> DEFINE f == [NoFlow EXCEPT !.pc = pc]
<1>1. f \in Delivery
  BY DEF NoFlow, Delivery, Steps, Waiting, Ended, WorkerId, NoIdentity
<1>2. Fits(r, f, c)
  BY DEF Fits, NoFlow, Waiting, Ended, Cleanup, Preparing, Starting
<1> QED  BY <1>1, <1>2, BecomesKeeps

(* A delivery stays within what its receipt allows.                        *)
LEMMA ServeKeeps ==
    ASSUME CInv, NEW r \in Requests, Serve(r), IInv', IdentitiesGranted', granted \subseteq granted'
    PROVE  Typed' /\ \A q \in Requests : Consistent(q)' /\ Owned(q)'
<1> USE ConstantsAssumption, CreationAssumption
<1> DEFINE Goal == Typed' /\ \A q \in Requests : Consistent(q)' /\ Owned(q)'
           known == receipt[r]
<1> USE DEF Waiting, Starting, Preparing, Cleanup
<1>1. /\ receipt[r] \in Receipt /\ flow[r] \in Delivery
      /\ Typed /\ Consistent(r) /\ Owned(r)
  BY DEF CInv, Typed
<1>2. /\ receipt = [receipt EXCEPT ![r] = receipt[r]]
      /\ Steps = Steps /\ Ended \subseteq Steps
  BY <1>1 DEF Typed, Steps
<1>3. ASSUME NEW pc \in Ended, Settle(r, pc), UNCHANGED <<receipt, owner>>
      PROVE  Goal
  <2>1. receipt' = [receipt EXCEPT ![r] = receipt[r]]
    BY <1>2, <1>3
  <2> QED  BY <1>1, <1>3, <2>1, SettleKeeps DEF Settle, Consistent
<1>4. ASSUME NEW pc \in Steps, Go(r, pc), UNCHANGED <<receipt, owner>>,
             Fits(r, [flow[r] EXCEPT !.pc = pc], receipt[r])
      PROVE  Goal
  <2>1. receipt' = [receipt EXCEPT ![r] = receipt[r]]
    BY <1>2, <1>4
  <2> QED  BY <1>1, <1>4, <2>1, GoKeeps
<1>5. CASE BeginCreation(r)
  <2> DEFINE c == [receipt[r] EXCEPT !.known = TRUE]
  <2>1. /\ receipt' = [receipt EXCEPT ![r] = c] /\ c \in Receipt /\ c.known /\ owner' = owner
        /\ c.thread = known.thread /\ c.completed = known.completed /\ c.cleaning = known.cleaning
    BY <1>1, <1>5 DEF BeginCreation, Amend, Receipt
  <2>2. CASE Settle(r, "refused")
    BY <2>1, <2>2, <1>1, SettleKeeps DEF Settle, Consistent, Ended
  <2>3. CASE ~Settle(r, "refused")
    <3> DEFINE f == [pc |-> IF known.cleaning THEN "cleaning"
                            ELSE IF known.thread = NoTopic THEN "verify" ELSE "look",
                     fresh |-> ~known.known, thread |-> known.thread, prepared |-> NoIdentity]
    <3>1. /\ ~(known.known /\ known.thread = NoTopic)
          /\ flow' = [flow EXCEPT ![r] = f]
      BY <1>5, <2>3 DEF BeginCreation
    <3>2. f \in Delivery
      BY <1>1 DEF Delivery, Receipt, Steps, WorkerId, NoIdentity
    <3>3. Fits(r, f, c)
      BY <1>1, <2>1, <3>1 DEF Fits, Consistent, Owned, Ended, Receipt
    <3> QED  BY <2>1, <3>1, <3>2, <3>3, BecomesKeeps
  <2> QED  BY <2>2, <2>3
<1>6. CASE VerifyWorker(r)
  <2>1. CASE Go(r, "drop")
    BY <1>1, <1>4, <1>6, <2>1 DEF VerifyWorker, Fits, Consistent, Steps, Ended, Delivery
  <2>2. ASSUME NEW n \in Nodes,
               flow' = [flow EXCEPT ![r].pc = "note",
                                    ![r].prepared = [node |-> n, gen |-> bindings[n].gen]]
        PROVE  Goal
    <3> DEFINE f == [flow[r] EXCEPT !.pc = "note",
                                    !.prepared = [node |-> n, gen |-> bindings[n].gen]]
    <3>1. bindings[n].gen \in Nat
      BY DEF CInv, IInv, TypeOK, Binding
    <3>2. f \in Delivery /\ f.pc = "note" /\ f.thread = flow[r].thread
      BY <1>1, <3>1 DEF Delivery, WorkerId, Steps
    <3>3. Fits(r, f, known)
      BY <1>1, <1>6, <3>2 DEF VerifyWorker, Fits, Consistent, Owned, Ended
    <3>4. flow' = [flow EXCEPT ![r] = f]
      BY <1>1, <2>2 DEF Typed
    <3> QED  BY <1>1, <1>2, <1>6, <3>2, <3>3, <3>4, BecomesKeeps DEF VerifyWorker
  <2> QED  BY <1>6, <2>1, <2>2 DEF VerifyWorker
<1>7. CASE RecordPrepared(r)
  <2> DEFINE c == [known EXCEPT !.prepared = flow[r].prepared]
  <2>1. c \in Receipt
    BY <1>1 DEF Receipt, Delivery
  <2>2. Fits(r, [flow[r] EXCEPT !.pc = "create"], c)
    BY <1>1, <1>7 DEF RecordPrepared, Fits, Consistent, Owned, Ended, Receipt, Delivery
  <2> QED  BY <1>1, <1>7, <2>1, <2>2, GoKeeps DEF RecordPrepared, Amend, Steps
<1>8. CASE CreateForumTopic(r)
  <2>1. CASE Go(r, "drop") /\ UNCHANGED owner
    BY <1>1, <1>4, <1>8, <2>1 DEF CreateForumTopic, Fits, Consistent, Steps, Ended, Delivery
  <2>2. ASSUME NEW t \in Topics, owner[t] = NoRequest, owner' = [owner EXCEPT ![t] = r],
               \/ flow' = [flow EXCEPT ![r].pc = "thread", ![r].thread = t]
               \/ Go(r, "drop")
        PROVE  Goal
    <3>1. flow[r].pc = "create" /\ receipt' = receipt
      BY <1>8 DEF CreateForumTopic
    <3>2. Typed'
      BY <1>1, <2>2, <3>1 DEF Typed, Go, Delivery, Steps
    <3>3. \/ flow'[r].pc = "thread" /\ flow'[r].thread = t
          \/ flow'[r].pc = "drop" /\ flow'[r].thread = flow[r].thread
      BY <1>1, <2>2 DEF Typed, Go, Delivery
    <3>4. \A u \in Topics : owner'[u] = r => u = t
      BY <1>1, <2>2, <3>1 DEF Owned, Typed
    <3>5. flow[r].thread = NoTopic /\ receipt[r].thread = NoTopic
      BY <1>1, <3>1 DEF Owned, Consistent, Delivery, Receipt
    <3>6. owner'[t] = r
      BY <1>1, <2>2 DEF Typed
    <3>7. Consistent(r)'
      BY <1>1, <3>1, <3>3, <3>5, <3>6 DEF Consistent, Ended
    <3>8. Owned(r)'
      BY <1>1, <3>1, <3>3, <3>4 DEF Owned, Consistent, Ended
    <3>9. \A q \in Requests \ {r} : flow'[q] = flow[q] /\ receipt'[q] = receipt[q]
      BY <1>1, <2>2, <3>1 DEF Typed, Go
    <3> QED  BY <2>2, <3>2, <3>7, <3>8, <3>9, OthersKept
  <2> QED  BY <1>8, <2>1, <2>2 DEF CreateForumTopic
<1>9. CASE Drop(r)
  <2> DEFINE c == [known EXCEPT !.failed = TRUE]
  <2>1. /\ c \in Receipt /\ c.known = known.known /\ c.thread = known.thread
        /\ c.completed = known.completed /\ c.cleaning = known.cleaning
    BY <1>1 DEF Receipt
  <2> QED  BY <1>1, <1>9, <2>1, SettleKeeps DEF Drop, Settle, Amend, Consistent, Ended
<1>10. CASE RecordThread(r)
  <2> DEFINE c == [known EXCEPT !.thread = flow[r].thread]
  <2>1. CASE Go(r, "cleaning") /\ UNCHANGED receipt
    BY <1>1, <1>4, <1>10, <2>1 DEF RecordThread, Fits, Consistent, Steps, Ended, Delivery
  <2>2. CASE Amend(r, c) /\ Go(r, "look")
    <3>1. /\ c \in Receipt /\ c.known = known.known /\ c.thread = flow[r].thread
          /\ c.completed = known.completed /\ c.cleaning = known.cleaning
      BY <1>1 DEF Receipt, Delivery
    <3>2. Fits(r, [flow[r] EXCEPT !.pc = "look"], c)
      BY <1>1, <1>10, <3>1 DEF RecordThread, Fits, Consistent, Ended, Delivery
    <3> QED  BY <1>1, <1>10, <2>2, <3>1, <3>2, GoKeeps DEF RecordThread, Amend, Steps
  <2> QED  BY <1>10, <2>1, <2>2 DEF RecordThread
<1>11. CASE LookUp(r)
  <2>1. CASE Settle(r, "refused")
    BY <1>3, <1>11, <2>1 DEF LookUp, Ended
  <2>2. CASE ~Settle(r, "refused")
    <3>1. \/ Go(r, "canonical")
          \/ Go(r, "prepare") /\ ~known.completed
      BY <1>11, <2>2 DEF LookUp
    <3> QED  BY <1>1, <1>4, <1>11, <3>1 DEF LookUp, Fits, Consistent, Steps, Ended, Delivery
  <2> QED  BY <2>1, <2>2
<1>12. CASE Acknowledge(r)
  BY <1>3, <1>12 DEF Acknowledge, Ended
<1>13. CASE ClaimWorker(r)
  <2>1. CASE Go(r, "cleaning")
    BY <1>1, <1>4, <1>13, <2>1 DEF ClaimWorker, Fits, Consistent, Steps, Ended, Delivery
  <2>2. ASSUME NEW w \in Candidates(r), NEW n \in Nodes,
               \/ \E res \in Resources :
                    ReservePrepared(flow[r].thread, [node |-> n, gen |-> w.gen, topic |-> NoTopic], res)
               \/ n \in Holders(flow[r].thread) /\ UNCHANGED vars,
               flow' = [flow EXCEPT ![r].pc = "session",
                                    ![r].prepared = [node |-> n, gen |-> bindings'[n].gen]]
        PROVE  Goal
    <3> DEFINE t == flow[r].thread
               f == [flow[r] EXCEPT !.pc = "session",
                                    !.prepared = [node |-> n, gen |-> bindings'[n].gen]]
    <3>0. bindings' \in [Nodes -> Binding] /\ bindings \in [Nodes -> Binding] /\ t \in Topics
      BY <1>1, <1>13 DEF CInv, IInv, TypeOK, ClaimWorker, Consistent
    <3>1. bindings'[n].topic = t /\ Minted(n)'
      <4>1. CASE UNCHANGED vars /\ n \in Holders(t)
        BY <4>1 DEF Holders, Live, Minted, vars
      <4>2. ASSUME NEW res \in Resources,
                   ReservePrepared(t, [node |-> n, gen |-> w.gen, topic |-> NoTopic], res)
            PROVE  bindings'[n].topic = t /\ Minted(n)'
        BY <3>0, <4>2 DEF ReservePrepared, Bind, Write, Minted, Binding
      <4> QED  BY <2>2, <4>1, <4>2
    <3>2. [node |-> n, gen |-> bindings'[n].gen, topic |-> t] \in granted'
      BY <3>1 DEF IdentitiesGranted, IdentityOf
    <3>3. bindings'[n].gen \in Nat
      BY <3>0 DEF Binding
    <3>4. /\ f \in Delivery /\ f.pc = "session" /\ f.thread = t
          /\ f.prepared.node = n /\ f.prepared.gen = bindings'[n].gen
      BY <1>1, <3>3 DEF Delivery, WorkerId, Steps
    <3>5. Fits(r, f, known)
      BY <1>1, <1>13, <3>0, <3>2, <3>4 DEF ClaimWorker, Fits, Consistent, Ended
    <3>6. flow' = [flow EXCEPT ![r] = f]
      BY <1>1, <2>2 DEF Typed
    <3> QED  BY <1>1, <1>2, <1>13, <3>4, <3>5, <3>6, BecomesKeeps DEF ClaimWorker
  <2> QED  BY <1>13, <2>1, <2>2 DEF ClaimWorker
<1>14. CASE AdoptSession(r)
  BY <1>1, <1>4, <1>14 DEF AdoptSession, Fits, Consistent, Steps, Ended, Delivery, Prepared
<1>15. CASE Activate(r)
  BY <1>1, <1>4, <1>15 DEF Activate, Fits, Consistent, Steps, Ended, Delivery
<1>16. CASE PrepareFails(r)
  BY <1>1, <1>4, <1>16 DEF PrepareFails, Fits, Consistent, Steps, Ended, Delivery
<1>17. CASE SaveBinding(r)
  <2>1. Go(r, "complete") \/ Go(r, "cleaning")
    BY <1>17 DEF SaveBinding
  <2> QED  BY <1>1, <1>4, <1>17, <2>1 DEF SaveBinding, Fits, Consistent, Steps, Ended, Delivery
<1>18. CASE RecordCompleted(r)
  <2> DEFINE c == [known EXCEPT !.completed = TRUE, !.prepared = flow[r].prepared]
  <2>1. CASE Go(r, "cleaning") /\ UNCHANGED receipt
    BY <1>1, <1>4, <1>18, <2>1 DEF RecordCompleted, Fits, Consistent, Steps, Ended, Delivery
  <2>2. CASE Amend(r, c) /\ Settle(r, "done")
    <3>1. /\ c \in Receipt /\ c.known = known.known /\ c.thread = known.thread
      BY <1>1 DEF Receipt, Delivery
    <3>2. known.known
      BY <1>1, <1>18 DEF RecordCompleted, Consistent, Ended
    <3> QED  BY <1>1, <1>18, <2>2, <3>1, <3>2, SettleKeeps
              DEF RecordCompleted, Amend, Settle, Consistent, Ended
  <2> QED  BY <1>18, <2>1, <2>2 DEF RecordCompleted
<1>19. CASE RecordCleaning(r)
  <2> DEFINE c == [known EXCEPT !.cleaning = TRUE]
  <2>1. /\ c \in Receipt /\ c.known = known.known /\ c.thread = known.thread
        /\ c.completed = known.completed /\ c.cleaning
    BY <1>1 DEF Receipt
  <2>2. Fits(r, [flow[r] EXCEPT !.pc = "retire"], c)
    BY <1>1, <1>19, <2>1 DEF RecordCleaning, Fits, Consistent, Ended, Delivery
  <2> QED  BY <1>1, <1>19, <2>1, <2>2, GoKeeps DEF RecordCleaning, Amend, Steps
<1>20. CASE BeginRetire(r)
  <2>1. Go(r, "untopic") \/ Go(r, "recycle")
    BY <1>20 DEF BeginRetire
  <2> QED  BY <1>1, <1>4, <1>20, <2>1 DEF BeginRetire, Fits, Consistent, Steps, Ended, Delivery
<1>21. CASE FinishRetire(r)
  BY <1>1, <1>4, <1>21 DEF FinishRetire, Fits, Consistent, Steps, Ended, Delivery
<1>22. CASE DeleteForumTopic(r)
  BY <1>1, <1>4, <1>22 DEF DeleteForumTopic, Fits, Consistent, Steps, Ended, Delivery
<1>23. CASE RemoveBinding(r)
  BY <1>1, <1>4, <1>23 DEF RemoveBinding, Fits, Consistent, Steps, Ended, Delivery
<1>24. CASE RecordFailed(r)
  <2> DEFINE c == [known EXCEPT !.failed = TRUE]
  <2>1. /\ c \in Receipt /\ c.known = known.known /\ c.thread = known.thread
        /\ c.completed = known.completed /\ c.cleaning = known.cleaning
    BY <1>1 DEF Receipt
  <2> QED  BY <1>1, <1>24, <2>1, SettleKeeps DEF RecordFailed, Settle, Amend, Consistent, Ended
<1>25. CASE CleanupFails(r)
  BY <1>3, <1>25 DEF CleanupFails, Ended
<1> QED
  BY <1>5, <1>6, <1>7, <1>8, <1>9, <1>10, <1>11, <1>12, <1>13, <1>14, <1>15, <1>16, <1>17,
     <1>18, <1>19, <1>20, <1>21, <1>22, <1>23, <1>24, <1>25 DEF Serve

-----------------------------------------------------------------------------
(* The Workers of the initial pool are idle, each in a slot of its own.    *)
LEMMA CreationInitInvariant == CreationInit => CInv
<1> SUFFICES ASSUME CreationInit PROVE CInv
  OBVIOUS
<1> USE ConstantsAssumption, CreationAssumption
<1>1. PICK slotOf \in Bijection(Nodes, 1..Cardinality(Nodes)), res \in Resources :
             bindings = [n \in Nodes |-> Available(slotOf[n], res)]
  BY DEF CreationInit
<1>2. /\ \A n \in Nodes : slotOf[n] \in Nat /\ slotOf[n] # 0
      /\ \A m, n \in Nodes : slotOf[m] = slotOf[n] => m = n
  BY DEF Bijection, Injection, Surjection, IsInjective
<1>3. \A n \in Nodes : /\ bindings[n] = Available(slotOf[n], res)
                       /\ bindings[n] \in Binding
                       /\ bindings[n].status = "available" /\ bindings[n].gen = 1
                       /\ bindings[n].slot = slotOf[n] /\ bindings[n].topic = NoTopic
                       /\ ~bindings[n].session /\ bindings[n].inCluster
  BY <1>1, <1>2 DEF Available, NewRecord, Binding, UnboundStatus
<1>4. TypeOK
  <2>1. bindings \in [Nodes -> Binding]
    BY <1>1, <1>3
  <2>2. \A n \in Nodes : IdentityOf(n, bindings[n]) \in Identity
    BY <1>3 DEF IdentityOf, Identity
  <2> QED  BY <2>1, <2>2 DEF TypeOK, CreationInit
<1>5. Readable
  <2>1. \A n \in Nodes : bindings[n].gen >= 1 /\ LegalUnbound(n)
    BY <1>2, <1>3 DEF LegalUnbound, UnboundStatus
  <2>2. SlotsUnique
    BY <1>2, <1>3 DEF SlotsUnique
  <2>3. SlotsInCluster /\ TopicsUnique
    BY <1>3 DEF CreationInit, SlotsInCluster, TopicsUnique, Bound
  <2> QED  BY <2>1, <2>2, <2>3 DEF Readable
<1>6. IdentityFenced /\ MintedOnce /\ IdentitiesGranted
  BY <1>3 DEF CreationInit, IdentityFenced, MintedOnce, IdentitiesGranted, IdentityOf, Minted
<1>7. ClusterMinted
  BY <1>3 DEF CreationInit, ClusterMinted
<1>8. Unknown \in Receipt /\ NoFlow \in Delivery
  BY DEF Unknown, NoFlow, Receipt, Delivery, WorkerId, NoIdentity, Steps, Ended
<1>9. Typed
  BY <1>8 DEF CreationInit, Typed
<1>10. ASSUME NEW r \in Requests PROVE Consistent(r) /\ Owned(r)
  BY DEF CreationInit, Consistent, Owned, Unknown, NoFlow, Waiting, Starting, Preparing, Cleanup, Ended
<1> QED  BY <1>4, <1>5, <1>6, <1>7, <1>9, <1>10 DEF CInv, IInv

LEMMA CreationNextInvariant == CInv /\ [CreationNext]_allvars => CInv'
<1> SUFFICES ASSUME CInv, [CreationNext]_allvars PROVE CInv'
  OBVIOUS
<1>1. IInv' /\ IdentitiesGranted' /\ granted \subseteq granted'
  BY TableKept
<1> SUFFICES Typed' /\ \A q \in Requests : Consistent(q)' /\ Owned(q)'
  BY <1>1 DEF CInv
<1> DEFINE Kept == UNCHANGED <<receipt, owner, flow>>
<1>2. CASE Kept
  <2>1. Typed'
    BY <1>2 DEF CInv, Typed
  <2>2. ASSUME NEW q \in Requests PROVE Consistent(q)' /\ Owned(q)'
    BY <1>1, <1>2 DEF CInv, Consistent, Owned, Prepared
  <2> QED  BY <2>1, <2>2
<1>3. ASSUME NEW r \in Requests, Serve(r)
      PROVE  Typed' /\ \A q \in Requests : Consistent(q)' /\ Owned(q)'
  BY <1>1, <1>3, ServeKeeps
<1>4. ASSUME NEW r \in Requests, Deliver(r)
      PROVE  Typed' /\ \A q \in Requests : Consistent(q)' /\ Owned(q)'
  <2>1. receipt[r] \in Receipt /\ receipt = [receipt EXCEPT ![r] = receipt[r]] /\ Consistent(r)
    BY DEF CInv, Typed
  <2> QED  BY <1>1, <1>4, <2>1, SettleKeeps DEF Deliver, Consistent, Waiting
<1>5. ASSUME NEW t \in Topics, BeginDelete(t) \/ DeleteStep(t) PROVE Kept
  BY <1>5 DEF BeginDelete, DeleteStep
<1>6. CASE Restart
  <2>1. NoFlow \in Delivery /\ NoFlow.pc = "idle" /\ NoFlow.thread = NoTopic
    BY DEF NoFlow, Delivery, WorkerId, NoIdentity, Steps, Ended
  <2>2. Typed'
    BY <1>6, <2>1 DEF CInv, Typed, Restart
  <2>3. ASSUME NEW q \in Requests PROVE Consistent(q)' /\ Owned(q)'
    BY <1>6, <2>1 DEF CInv, Restart, Consistent, Owned, Waiting, Starting, Preparing, Cleanup, Ended
  <2> QED  BY <2>2, <2>3
<1>7. CASE UNCHANGED allvars
  BY <1>2, <1>7 DEF allvars, creation
<1> QED  BY <1>2, <1>3, <1>4, <1>5, <1>6, <1>7 DEF CreationNext

(* The strengthening that the theorems below rest on.                      *)
THEOREM CreationInvariant == CreationSpec => []CInv
<1>1. CreationInit => CInv
  BY CreationInitInvariant
<1>2. CInv /\ [CreationNext]_allvars => CInv'
  BY CreationNextInvariant
<1> QED  BY <1>1, <1>2, PTL DEF CreationSpec

(* Whatever is delivered again, lost or interrupted, a request creates at  *)
(* most one Topic.                                                         *)
THEOREM AtMostOneTopic == CreationSpec => []OneTopicPerRequest
<1>1. ASSUME CInv PROVE OneTopicPerRequest
  <2> SUFFICES ASSUME NEW t \in Topics, NEW u \in Topics, owner[t] = owner[u], owner[t] # NoRequest
               PROVE  t = u
    BY DEF OneTopicPerRequest
  <2>1. owner[t] \in Requests
    BY <1>1 DEF CInv, Typed
  <2> QED  BY <1>1, <2>1 DEF CInv, Owned
<1> QED  BY <1>1, CreationInvariant, PTL

(* Creations and deletions, with the identities they keep across awaits    *)
(* and restarts, use the table of Workers as its store allows: so what is  *)
(* proved of the table holds of the whole.                                 *)
THEOREM TableIsUsed == CreationSpec => TableUsed
<1>1. CInv /\ [CreationNext]_allvars => [Next]_vars
  BY StepOnTable DEF allvars
<1> QED  BY <1>1, CreationInvariant, PTL DEF CreationSpec, TableUsed

(* No sequence of creations and deletions writes an unreadable table.      *)
THEOREM CreationKeepsTableReadable == CreationSpec => []Readable
<1>1. CInv => Readable
  BY DEF CInv, IInv
<1> QED  BY <1>1, CreationInvariant, PTL

(* A completed creation, or one whose cleanup began, never gives its Topic *)
(* a Worker again.                                                         *)
THEOREM NeverResurrected == CreationSpec => NoResurrection
<1>1. ASSUME CInv, [CreationNext]_allvars, NEW t \in Topics, owner[t] # NoRequest,
             receipt[owner[t]].completed \/ receipt[owner[t]].cleaning
      PROVE  Holders(t)' \subseteq Holders(t)
  <2> USE ConstantsAssumption
  <2>0. bindings \in [Nodes -> Binding] /\ owner[t] \in Requests
    BY <1>1 DEF CInv, IInv, TypeOK, Typed
  <2>1. CASE UNCHANGED vars
    BY <2>1 DEF vars, Holders, Live
  <2>2. CASE Next /\ Mild
    <3>1. PICK n \in Nodes : \E b : Write(n, b) /\ b.topic \in {bindings[n].topic, NoTopic}
      BY <2>2 DEF Mild
    <3>2. /\ \A m \in Nodes \ {n} : bindings'[m] = bindings[m]
          /\ bindings'[n].topic \in {bindings[n].topic, NoTopic}
      BY <2>0, <3>1 DEF Write
    <3>3. ~Minted(n) => bindings[n].topic = NoTopic
      BY <1>1 DEF CInv, IInv, MintedOnce, Absent
    <3>4. bindings[n].status = "retired" => bindings'[n] = bindings[n]
      BY <1>1, <2>2, NextForward DEF Forward, CInv, Minted
    <3>5. ASSUME NEW m \in Nodes, (m \in Holders(t))'
          PROVE  m \in Holders(t)
      BY <3>2, <3>3, <3>4, <3>5 DEF Holders, Live, Minted
    <3> QED  BY <3>5 DEF Holders
  <2>3. ASSUME NEW r \in Requests, Claims(r)
        PROVE  Holders(t)' \subseteq Holders(t)
    <3>1. owner[flow[r].thread] = r /\ ~receipt[r].completed /\ ~receipt[r].cleaning
      BY <1>1, <2>3 DEF Claims, CInv, Consistent, Waiting, Ended, Cleanup, Preparing
    <3>2. flow[r].thread # t
      BY <1>1, <3>1
    <3>3. PICK n \in Nodes : \E b :
             /\ Write(n, b)
             /\ b = [bindings[n] EXCEPT !.gen = bindings[n].gen + 1, !.topic = flow[r].thread,
                                        !.status = "reserved"]
      BY <2>3 DEF Claims
    <3>4. /\ \A m \in Nodes \ {n} : bindings'[m] = bindings[m]
          /\ bindings'[n].topic = flow[r].thread
      BY <2>0, <3>3 DEF Write, Binding
    <3> QED  BY <3>2, <3>4 DEF Holders, Live
  <2> QED  BY <1>1, <2>1, <2>2, <2>3, StepOnTable DEF allvars
<1>2. CInv /\ [CreationNext]_allvars =>
        [\A t \in Topics :
          /\ owner[t] # NoRequest
          /\ receipt[owner[t]].completed \/ receipt[owner[t]].cleaning
          => Holders(t)' \subseteq Holders(t)]_allvars
  BY <1>1
<1> QED  BY <1>2, CreationInvariant, PTL DEF CreationSpec, NoResurrection

-----------------------------------------------------------------------------
(* What is left of a Topic: nothing of one nobody asked for yet, and of    *)
(* one that was, what the receipt, the delivery and a deletion account     *)
(* for.  A Topic is closed to new Workers once its request is completed or *)
(* being cleaned up, or once it was given one: the receipt names a Worker  *)
(* at a generation that is over then.                                      *)
Bare(t) == t \notin saved /\ Holders(t) = {}

Closed(r, t) ==
    \/ receipt[r].completed
    \/ receipt[r].cleaning
    \/ \E id \in granted : /\ id.topic = t /\ id.node = receipt[r].prepared.node
                           /\ id.gen > receipt[r].prepared.gen

Accounted(r, t) ==
    /\ receipt[r].thread = NoTopic \/ receipt[r].failed => Bare(t)
    /\ receipt[r].failed /\ receipt[r].thread = t => t \notin telegram
    /\ t \in saved \/ Holders(t) # {} \/ deletion[t] # "none" => Closed(r, t)
    /\ t \notin telegram => Holders(t) = {} /\ Closed(r, t)
    /\ deletion[t] \in {"recycle", "untopic", "unsave", "done"} => Holders(t) = {}
    /\ flow[r].pc = "canonical" /\ t \notin saved => Holders(t) = {}
    /\ flow[r].pc \in {"recycle", "untopic", "unsave", "close"} => Holders(t) = {}
    /\ flow[r].pc \in {"unsave", "close"} => t \notin telegram
    /\ flow[r].pc = "close" => t \notin saved
    /\ flow[r].pc \in {"session", "activate", "save", "complete"} => Closed(r, t)
    /\ flow[r].pc = "activate" => \A n \in Holders(t) : bindings[n].session
    /\ deletion[t] = "none" /\ flow[r].pc \in {"save", "complete"} => ReadyHolder(t)
    /\ deletion[t] = "none" /\ flow[r].pc = "complete" => t \in saved

TopicState(t) ==
    /\ owner[t] = NoRequest => Bare(t) /\ t \notin telegram /\ deletion[t] = "none"
    /\ owner[t] # NoRequest => Accounted(owner[t], t)

(* What a delivery that works on a Topic knows of it.                      *)
Knows(r) ==
    /\ flow[r].pc \in Preparing \cup {"look", "canonical", "save", "complete"} =>
          receipt[r].thread = flow[r].thread
    /\ flow[r].pc \in Starting \cup {"drop", "thread"} => receipt[r].thread = NoTopic
    /\ flow[r].pc \in Preparing \cup Cleanup \cup {"thread", "look", "canonical", "save", "complete"} =>
          flow[r].thread \in Topics
    /\ flow[r].pc \in Cleanup \ {"cleaning"} => receipt[r].cleaning
    /\ receipt[r].failed => flow[r].pc \in Waiting
    /\ flow[r].pc \in {"create", "thread", "look", "prepare"} /\ flow[r].prepared # NoIdentity =>
          flow[r].prepared = receipt[r].prepared

UInv ==
    /\ deletion \in [Topics -> {"none", "retire", "recycle", "untopic", "unsave", "done", "failed"}]
    /\ \A t \in Topics : TopicState(t)
    /\ \A r \in Requests : Knows(r)

(* A step that does not concern the Worker of a Topic.                     *)
Undisturbed(t) == Holders(t)' = Holders(t) /\ \A n \in Holders(t) : bindings'[n] = bindings[n]

LEMMA WriteElsewhere ==
    ASSUME CInv, NEW n \in Nodes, NEW b, Write(n, b), NEW t \in Topics,
           n \notin Holders(t), b.topic # t
    PROVE  Undisturbed(t)
<1>1. bindings'[n] = b /\ \A m \in Nodes \ {n} : bindings'[m] = bindings[m]
  BY DEF CInv, IInv, TypeOK, Write
<1> QED  BY <1>1 DEF Undisturbed, Holders, Live

LEMMA NothingWritten ==
    ASSUME UNCHANGED vars, NEW t \in Topics PROVE Undisturbed(t)
BY DEF vars, Undisturbed, Holders, Live

(* The Worker a delivery patches is its Topic's, or the step fails.        *)
LEMMA PatchesOwnWorker ==
    ASSUME CInv, NEW r \in Requests, flow[r].pc \in {"session", "activate"}, Current(Prepared(r))
    PROVE  /\ flow[r].prepared.node \in Holders(flow[r].thread)
           /\ Holders(flow[r].thread) = {flow[r].prepared.node}
<1>1. Prepared(r) \in granted /\ flow[r].thread \in Topics
  BY DEF CInv, Consistent, Preparing
<1>2. /\ flow[r].prepared.node \in Nodes /\ Live(flow[r].prepared.node)
      /\ bindings[flow[r].prepared.node].topic = flow[r].thread
  BY <1>1 DEF CInv, IInv, TypeOK, Identity, IdentityFenced, Prepared, Current
<1> QED
  BY <1>1, <1>2, ConstantsAssumption DEF Holders, CInv, IInv, Readable, TopicsUnique, Bound

LEMMA OwnPatch ==
    ASSUME CInv, NEW r \in Requests, flow[r].pc \in {"session", "activate"}, Current(Prepared(r)),
           NEW t \in Topics, t = flow[r].thread,
           NEW b, Write(flow[r].prepared.node, b),
           b.topic = bindings[flow[r].prepared.node].topic, b.status \notin {"absent", "retired"}
    PROVE  /\ \A u \in Topics : u # t => Undisturbed(u)
           /\ Holders(t)' = Holders(t)
           /\ \A n \in Holders(t) : bindings'[n] = b
<1> DEFINE n == flow[r].prepared.node
<1>1. n \in Nodes /\ Holders(t) = {n} /\ Live(n) /\ bindings[n].topic = t
  BY PatchesOwnWorker DEF Holders
<1> HIDE DEF n
<1>2. Write(n, b) /\ b.topic = t
  BY <1>1 DEF n
<1>3. bindings'[n] = b /\ \A m \in Nodes \ {n} : bindings'[m] = bindings[m]
  BY <1>1, <1>2 DEF Write, CInv, IInv, TypeOK
<1>4. Holders(t)' = Holders(t)
  BY <1>1, <1>2, <1>3 DEF Holders, Live
<1>5. \A u \in Topics : u # t => Undisturbed(u)
  BY <1>1, <1>2, WriteElsewhere DEF Holders
<1> QED  BY <1>1, <1>3, <1>4, <1>5

LEMMA PatchEffect ==
    ASSUME CInv, NEW r \in Requests, flow[r].pc \in {"session", "activate"},
           NEW t \in Topics, t = flow[r].thread
    PROVE  /\ \/ UpdateSession(Prepared(r))
              \/ UpdateStatus(Prepared(r), "ready")
              \/ UpdateStatus(Prepared(r), "failed")
              => /\ \A u \in Topics : u # t => Undisturbed(u)
                 /\ Holders(t)' = Holders(t)
           /\ UpdateSession(Prepared(r)) => \A n \in Holders(t) : bindings'[n].session
           /\ UpdateStatus(Prepared(r), "ready") /\ (\A n \in Holders(t) : bindings[n].session) =>
                 ReadyHolder(t)'
<1> DEFINE n == flow[r].prepared.node
           old == bindings[n]
<1>1. Prepared(r).node = n /\ t # NoTopic
  BY ConstantsAssumption DEF Prepared
<1>2. ASSUME Current(Prepared(r))
      PROVE  /\ n \in Holders(t) /\ Holders(t) = {n}
             /\ old \in Binding /\ old.status \notin {"absent", "retired"}
  BY <1>1, <1>2, PatchesOwnWorker DEF Current, Live, Holders, CInv, IInv, TypeOK
<1>3. ASSUME UpdateSession(Prepared(r))
      PROVE  /\ \A u \in Topics : u # t => Undisturbed(u)
             /\ Holders(t)' = Holders(t)
             /\ \A m \in Holders(t) : bindings'[m].session
  <2> DEFINE b == [old EXCEPT !.session = TRUE]
  <2>1. Current(Prepared(r)) /\ Write(n, b)
    BY <1>1, <1>3 DEF UpdateSession
  <2>2. b.topic = old.topic /\ b.status \notin {"absent", "retired"} /\ b.session
    BY <1>2, <2>1 DEF Binding
  <2> HIDE DEF b
  <2> QED  BY <2>1, <2>2, OwnPatch
<1>4. ASSUME NEW st \in {"ready", "failed"}, UpdateStatus(Prepared(r), st)
      PROVE  /\ \A u \in Topics : u # t => Undisturbed(u)
             /\ Holders(t)' = Holders(t)
             /\ st = "ready" /\ (\A m \in Holders(t) : bindings[m].session) => ReadyHolder(t)'
  <2> DEFINE b == [old EXCEPT !.status = st]
  <2>1. Current(Prepared(r)) /\ Write(n, b)
    BY <1>1, <1>4 DEF UpdateStatus
  <2>2. b.topic = old.topic /\ b.status = st /\ b.session = old.session
    BY <1>2, <2>1 DEF Binding
  <2> HIDE DEF b
  <2>3. /\ \A u \in Topics : u # t => Undisturbed(u)
        /\ Holders(t)' = Holders(t)
        /\ \A m \in Holders(t) : bindings'[m] = b
    BY <2>1, <2>2, OwnPatch
  <2> QED  BY <1>2, <2>1, <2>2, <2>3 DEF ReadyHolder
<1> QED  BY <1>3, <1>4

(* A Topic that is retired has no Worker left, and no other loses its own. *)
LEMMA RetireEffect ==
    ASSUME CInv, NEW u \in Topics, RetireWorker(u)
    PROVE  Holders(u)' = {} /\ \A t \in Topics : t # u => Undisturbed(t)
<1>1. CASE Holders(u) = {} /\ UNCHANGED vars
  BY <1>1, NothingWritten DEF Undisturbed
<1>2. ASSUME NEW n \in Holders(u), BeginRecycle(IdentityOf(n, bindings[n]))
      PROVE  Holders(u)' = {} /\ \A t \in Topics : t # u => Undisturbed(t)
  <2> DEFINE b(s) == [bindings[n] EXCEPT !.slot = s, !.inCluster = TRUE, !.gen = @ + 1,
                        !.topic = NoTopic, !.session = FALSE, !.status = "retiring"]
  <2>1. n \in Nodes /\ bindings[n] \in Binding /\ bindings[n].topic = u /\ Live(n)
    BY DEF Holders, CInv, IInv, TypeOK
  <2>2. PICK s \in 1..MaxSlot : Write(n, b(s))
    BY <1>2 DEF BeginRecycle, IdentityOf
  <2>3. b(s).topic = NoTopic
    BY <2>1 DEF Binding
  <2> HIDE DEF b
  <2>4. bindings'[n] = b(s) /\ \A m \in Nodes \ {n} : bindings'[m] = bindings[m]
    BY <2>1, <2>2 DEF Write, CInv, IInv, TypeOK
  <2>5. \A m \in Nodes \ {n} : m \notin Holders(u)
    BY <2>1, ConstantsAssumption DEF Holders, CInv, IInv, Readable, TypeOK, TopicsUnique, Bound
  <2>6. Holders(u)' = {}
    BY <2>3, <2>4, <2>5, ConstantsAssumption DEF Holders, Live
  <2>7. ASSUME NEW t \in Topics, t # u PROVE Undisturbed(t)
    BY <2>1, <2>2, <2>3, <2>7, WriteElsewhere, ConstantsAssumption DEF Holders
  <2> QED  BY <2>6, <2>7
<1> QED  BY <1>1, <1>2 DEF RetireWorker

LEMMA RecycleEffect ==
    ASSUME CInv, NEW u, Recycled(u), NEW t \in Topics PROVE Undisturbed(t)
<1>1. PICK n \in Nodes : CompleteRecycle(IdentityOf(n, bindings[n]))
  BY DEF Recycled
<1> DEFINE b == [bindings[n] EXCEPT !.status = "available"]
<1>2. Write(n, b) /\ bindings[n].topic = NoTopic /\ bindings[n] \in Binding
  BY <1>1 DEF CompleteRecycle, Bound, IdentityOf, CInv, IInv, TypeOK
<1>3. b.topic = NoTopic
  BY <1>2 DEF Binding
<1> HIDE DEF b
<1> QED  BY <1>2, <1>3, WriteElsewhere, ConstantsAssumption DEF Holders

(* A claim is for a Topic without a Worker that is not closed, and closes  *)
(* it: the generation it takes is above the one the receipt names.         *)
LEMMA ClaimEffect ==
    ASSUME CInv, NEW r \in Requests, Knows(r), flow[r].pc = "prepare",
           NEW w \in Candidates(r), NEW n \in Nodes, n = w.node, NEW res \in Resources,
           NEW u \in Topics, u = flow[r].thread,
           ReservePrepared(u, [node |-> n, gen |-> w.gen, topic |-> NoTopic], res)
    PROVE  /\ \A t \in Topics : t # u => Undisturbed(t)
           /\ ~Closed(r, u)
           /\ receipt' = receipt => Closed(r, u)'
<1> DEFINE p == receipt[r].prepared
           b == [bindings[n] EXCEPT !.gen = @ + 1, !.topic = u, !.status = "reserved"]
<1>1. /\ bindings[n] \in Binding /\ w.gen = bindings[n].gen /\ bindings[n].topic = NoTopic
      /\ Write(n, b)
  BY DEF ReservePrepared, Current, IdleInSlot, Bound, Bind, CInv, IInv, TypeOK
<1>2. b.topic = u /\ b.gen = w.gen + 1
  BY <1>1 DEF Binding
<1>3. w.gen \in Nat /\ p.gen \in Nat
  BY <1>1 DEF Binding, CInv, Typed, Receipt, WorkerId
<1> HIDE DEF b
<1>4. w.node = p.node /\ w.gen \in {p.gen, p.gen + 1}
  <2>1. CASE flow[r].prepared # NoIdentity
    BY <2>1 DEF Candidates, Knows
  <2>2. CASE flow[r].prepared = NoIdentity
    BY <2>2 DEF Candidates
  <2> QED  BY <2>1, <2>2
<1>5. \A t \in Topics : t # u => Undisturbed(t)
  BY <1>1, <1>2, WriteElsewhere, ConstantsAssumption DEF Holders
<1>6. ASSUME NEW id \in granted, id.topic = u, id.node = p.node, id.gen > p.gen
      PROVE  FALSE
  <2>1. /\ id.gen \in Nat /\ id.gen <= bindings[n].gen
        /\ id.gen = bindings[n].gen => id.topic = bindings[n].topic
    BY <1>4, <1>6 DEF CInv, IInv, TypeOK, Identity, IdentityFenced
  <2>2. id.gen = bindings[n].gen
    BY <1>1, <1>3, <1>4, <1>6, <2>1
  <2> QED  BY <1>1, <1>6, <2>1, <2>2, ConstantsAssumption
<1>7. ~receipt[r].completed /\ ~receipt[r].cleaning
  BY DEF CInv, Consistent, Waiting, Ended, Cleanup
<1>8. IdentityOf(n, b) \in granted'
  BY <1>1 DEF Write
<1>9. receipt' = receipt => Closed(r, u)'
  BY <1>2, <1>3, <1>4, <1>8 DEF Closed, IdentityOf
<1> QED  BY <1>5, <1>6, <1>7, <1>9 DEF Closed

-----------------------------------------------------------------------------
(* A Topic whose Worker, request and deletion a step leaves alone stays as *)
(* it was.                                                                 *)
LEMMA ClosedStays ==
    ASSUME NEW r, NEW t, Closed(r, t), granted \subseteq granted',
           \/ receipt'[r].completed \/ receipt'[r].cleaning
           \/ /\ receipt'[r].prepared = receipt[r].prepared
              /\ receipt[r].completed => receipt'[r].completed
              /\ receipt[r].cleaning => receipt'[r].cleaning
    PROVE  Closed(r, t)'
BY DEF Closed

LEMMA TopicFrame ==
    ASSUME granted \subseteq granted', NEW t \in Topics, TopicState(t), Undisturbed(t),
           owner'[t] = owner[t], deletion'[t] = deletion[t],
           t \in saved' <=> t \in saved, t \in telegram' <=> t \in telegram,
           owner[t] # NoRequest => receipt'[owner[t]] = receipt[owner[t]] /\ flow'[owner[t]] = flow[owner[t]]
    PROVE  TopicState(t)'
<1>1. Holders(t)' = Holders(t) /\ (ReadyHolder(t) => ReadyHolder(t)')
  BY DEF Undisturbed, ReadyHolder
<1>2. \A n \in Holders(t) : bindings'[n] = bindings[n]
  BY DEF Undisturbed
<1>3. Bare(t) => Bare(t)'
  BY <1>1 DEF Bare
<1>4. CASE owner[t] = NoRequest
  BY <1>3, <1>4 DEF TopicState
<1>5. CASE owner[t] # NoRequest
  <2>0. PICK r : r = owner[t]
    OBVIOUS
  <2>1. Accounted(r, t) /\ receipt'[r] = receipt[r] /\ flow'[r] = flow[r] /\ owner'[t] = r
    BY <1>5, <2>0 DEF TopicState
  <2>2. Closed(r, t) => Closed(r, t)'
    BY <2>1, ClosedStays
  <2>3. Accounted(r, t)'
    BY <1>1, <1>2, <1>3, <2>1, <2>2 DEF Accounted
  <2> QED  BY <1>5, <2>0, <2>1, <2>3 DEF TopicState
<1> QED  BY <1>4, <1>5

(* A delivery that works on a Topic works on the one its request owns.     *)
LEMMA OwnTopic ==
    ASSUME CInv, NEW r \in Requests, flow[r].thread \in Topics
    PROVE  /\ owner[flow[r].thread] = r
           /\ \A t \in Topics : owner[t] = r => t = flow[r].thread
BY ConstantsAssumption DEF CInv, Consistent, Owned

(* The Topics of other requests: no step of a delivery concerns them.      *)
Apart(r) ==
    \A t \in Topics : owner'[t] # r =>
      /\ owner[t] # r /\ owner'[t] = owner[t]
      /\ t \in saved' <=> t \in saved
      /\ t \in telegram' <=> t \in telegram
      /\ Undisturbed(t)

LEMMA ServesApart ==
    ASSUME CInv, UInv, NEW r \in Requests, Serve(r)
    PROVE  /\ Apart(r) /\ deletion' = deletion
           /\ \A q \in Requests \ {r} : receipt'[q] = receipt[q] /\ flow'[q] = flow[q]
<1> DEFINE Aside == \A q \in Requests \ {r} : receipt'[q] = receipt[q] /\ flow'[q] = flow[q]
<1>0. Knows(r) /\ Ended \subseteq Steps /\ owner \in [Topics -> Requests \cup {NoRequest}]
      /\ flow \in [Requests -> Delivery] /\ receipt \in [Requests -> Receipt]
  BY DEF UInv, Steps, CInv, Typed
<1>1. flow[r].thread \in Topics => \A t \in Topics : owner[t] # r => t # flow[r].thread
  BY OwnTopic
<1>2. Aside /\ deletion' = deletion
  <2>1. /\ \A pc, q : Go(r, pc) /\ q \in Requests \ {r} => flow'[q] = flow[q]
        /\ \A pc, q : Settle(r, pc) /\ q \in Requests \ {r} => flow'[q] = flow[q]
        /\ \A c, q : Amend(r, c) /\ q \in Requests \ {r} => receipt'[q] = receipt[q]
        /\ \A f, q : flow' = [flow EXCEPT ![r] = f] /\ q \in Requests \ {r} => flow'[q] = flow[q]
        /\ \A q \in Requests \ {r} : UNCHANGED receipt => receipt'[q] = receipt[q]
        /\ \A q \in Requests \ {r} : UNCHANGED flow => flow'[q] = flow[q]
    BY <1>0 DEF Go, Settle, Amend
  <2>2. CASE \/ BeginCreation(r) \/ RecordPrepared(r) \/ Drop(r) \/ RecordThread(r) \/ LookUp(r)
             \/ Acknowledge(r)
    BY <2>1, <2>2 DEF BeginCreation, RecordPrepared, Drop, RecordThread, LookUp, Acknowledge
  <2>3. CASE VerifyWorker(r)
    BY <1>0, <2>1, <2>3 DEF VerifyWorker
  <2>4. CASE CreateForumTopic(r)
    BY <1>0, <2>1, <2>4 DEF CreateForumTopic
  <2>5. CASE ClaimWorker(r)
    BY <1>0, <2>1, <2>5 DEF ClaimWorker
  <2>6. CASE \/ AdoptSession(r) \/ Activate(r) \/ PrepareFails(r) \/ SaveBinding(r) \/ RecordCompleted(r)
             \/ RecordCleaning(r) \/ BeginRetire(r) \/ FinishRetire(r)
    BY <2>1, <2>6 DEF AdoptSession, Activate, PrepareFails, SaveBinding, RecordCompleted,
         RecordCleaning, BeginRetire, FinishRetire
  <2>7. CASE DeleteForumTopic(r) \/ RemoveBinding(r) \/ RecordFailed(r) \/ CleanupFails(r)
    BY <2>1, <2>7 DEF DeleteForumTopic, RemoveBinding, RecordFailed, CleanupFails
  <2> QED  BY <2>2, <2>3, <2>4, <2>5, <2>6, <2>7 DEF Serve
<1> SUFFICES Apart(r)
  BY <1>2
<1>3. ASSUME \/ UNCHANGED <<saved, telegram>>
             \/ /\ flow[r].thread \in Topics
                /\ \A t \in Topics : t # flow[r].thread =>
                      /\ t \in saved' <=> t \in saved
                      /\ t \in telegram' <=> t \in telegram,
             UNCHANGED owner,
             \/ UNCHANGED vars
             \/ flow[r].thread \in Topics /\ \A t \in Topics : t # flow[r].thread => Undisturbed(t)
      PROVE  Apart(r)
  <2>1. ASSUME NEW t \in Topics, owner[t] # r
        PROVE  /\ t \in saved' <=> t \in saved
               /\ t \in telegram' <=> t \in telegram
               /\ Undisturbed(t)
    BY <1>1, <1>3, <2>1, NothingWritten
  <2> QED  BY <1>3, <2>1 DEF Apart
<1>4. CASE CreateForumTopic(r)
  <2>1. \/ UNCHANGED <<owner, telegram>>
        \/ \E t \in Topics : /\ owner[t] = NoRequest /\ owner' = [owner EXCEPT ![t] = r]
                            /\ telegram' = telegram \cup {t}
    BY <1>4 DEF CreateForumTopic
  <2>2. UNCHANGED vars /\ saved' = saved
    BY <1>4 DEF CreateForumTopic
  <2>3. ASSUME NEW t \in Topics, owner'[t] # r
        PROVE  owner'[t] = owner[t] /\ (t \in telegram' <=> t \in telegram)
    BY <1>0, <2>1, <2>3
  <2> QED  BY <2>2, <2>3, NothingWritten DEF Apart
<1>5. CASE ClaimWorker(r)
  <2>1. flow[r].pc = "prepare" /\ flow[r].thread \in Topics /\ UNCHANGED <<saved, telegram, owner>>
    BY <1>0, <1>5 DEF ClaimWorker, Knows, Preparing
  <2>2. CASE UNCHANGED vars
    BY <1>3, <2>1, <2>2
  <2>3. ASSUME NEW w \in Candidates(r), NEW n \in Nodes, n = w.node, NEW res \in Resources,
               ReservePrepared(flow[r].thread, [node |-> n, gen |-> w.gen, topic |-> NoTopic], res)
        PROVE  Apart(r)
    BY <1>0, <1>3, <2>1, <2>3, ClaimEffect
  <2> QED  BY <1>5, <2>2, <2>3 DEF ClaimWorker
<1>6. CASE AdoptSession(r) \/ Activate(r) \/ PrepareFails(r)
  <2>1. flow[r].pc \in {"session", "activate"} /\ flow[r].thread \in Topics
        /\ UNCHANGED <<saved, telegram, owner>>
    BY <1>0, <1>6 DEF AdoptSession, Activate, PrepareFails, Knows, Preparing
  <2>2. \/ UNCHANGED vars
        \/ UpdateSession(Prepared(r))
        \/ UpdateStatus(Prepared(r), "ready")
        \/ UpdateStatus(Prepared(r), "failed")
    BY <1>6 DEF AdoptSession, Activate, PrepareFails
  <2> QED  BY <1>3, <2>1, <2>2, PatchEffect
<1>7. CASE BeginRetire(r) \/ FinishRetire(r)
  <2>1. flow[r].thread \in Topics /\ UNCHANGED <<saved, telegram, owner>>
        /\ (RetireWorker(flow[r].thread) \/ Recycled(flow[r].thread))
    BY <1>0, <1>7 DEF BeginRetire, FinishRetire, Knows, Cleanup
  <2> QED  BY <1>3, <2>1, RetireEffect, RecycleEffect
<1>8. CASE SaveBinding(r) \/ DeleteForumTopic(r) \/ RemoveBinding(r)
  <2>1. flow[r].thread \in Topics /\ UNCHANGED <<vars, owner>>
    BY <1>0, <1>8 DEF SaveBinding, DeleteForumTopic, RemoveBinding, Knows, Cleanup
  <2>2. /\ \A t \in Topics : t # flow[r].thread => (t \in saved' <=> t \in saved)
        /\ \A t \in Topics : t # flow[r].thread => (t \in telegram' <=> t \in telegram)
    BY <1>8 DEF SaveBinding, DeleteForumTopic, RemoveBinding
  <2> QED  BY <1>3, <2>1, <2>2
<1>9. CASE \/ BeginCreation(r) \/ VerifyWorker(r) \/ RecordPrepared(r) \/ Drop(r) \/ RecordThread(r)
           \/ LookUp(r) \/ Acknowledge(r) \/ RecordCompleted(r) \/ RecordCleaning(r)
           \/ RecordFailed(r) \/ CleanupFails(r)
  BY <1>3, <1>9 DEF BeginCreation, VerifyWorker, RecordPrepared, Drop, RecordThread,
     LookUp, Acknowledge, RecordCompleted, RecordCleaning, RecordFailed, CleanupFails
<1> QED  BY <1>4, <1>5, <1>6, <1>7, <1>8, <1>9 DEF Serve

(* What a delivery knows stays true through its own steps.                 *)
LEMMA ServeKnows ==
    ASSUME CInv, UInv, NEW r \in Requests, Serve(r)
    PROVE  Knows(r)'
<1> USE DEF Waiting, Starting, Preparing, Cleanup
<1>0. /\ Knows(r) /\ Consistent(r) /\ receipt[r] \in Receipt /\ flow[r] \in Delivery
      /\ flow \in [Requests -> Delivery] /\ receipt \in [Requests -> Receipt]
  BY DEF UInv, CInv, Typed
<1>1. /\ \A pc : Go(r, pc) => /\ flow'[r].pc = pc /\ flow'[r].thread = flow[r].thread
                              /\ flow'[r].prepared = flow[r].prepared
      /\ \A pc : Settle(r, pc) => flow'[r].pc = pc
      /\ \A c : Amend(r, c) => receipt'[r] = c
  BY <1>0 DEF Delivery, Go, Settle, Amend, NoFlow
<1>2. ASSUME NEW pc \in Ended, Settle(r, pc)
      PROVE  Knows(r)'
  BY <1>1, <1>2 DEF Knows, Ended
<1>3. ASSUME NEW pc, Go(r, pc), UNCHANGED receipt,
             pc \notin Starting \cup {"drop", "thread"},
             pc \in Cleanup \ {"cleaning"} => flow[r].pc \in Cleanup \ {"cleaning"},
             pc \in Preparing \cup {"look", "canonical", "save", "complete"} =>
                flow[r].pc \in Preparing \cup {"look", "canonical", "save", "complete"},
             pc \in Cleanup => flow[r].thread \in Topics,
             pc \in {"create", "thread", "look", "prepare"} =>
                flow[r].pc \in {"create", "thread", "look", "prepare"},
             flow[r].pc \notin Waiting
      PROVE  Knows(r)'
  BY <1>0, <1>1, <1>3 DEF Knows, Ended
<1>4. CASE BeginCreation(r)
  <2> DEFINE c == [receipt[r] EXCEPT !.known = TRUE]
  <2>1. /\ receipt'[r] = c /\ c.thread = receipt[r].thread /\ c.cleaning = receipt[r].cleaning
        /\ c.failed = receipt[r].failed
    BY <1>0, <1>1, <1>4 DEF BeginCreation, Receipt
  <2>2. CASE Settle(r, "refused")
    BY <1>2, <2>2 DEF Ended
  <2> HIDE DEF c
  <2>3. CASE ~Settle(r, "refused")
    <3>1. /\ ~receipt[r].failed /\ (receipt[r].known => receipt[r].thread # NoTopic)
          /\ flow' = [flow EXCEPT ![r] = [pc |-> IF receipt[r].cleaning THEN "cleaning"
                                                ELSE IF receipt[r].thread = NoTopic THEN "verify"
                                                ELSE "look",
                                          fresh |-> ~receipt[r].known, thread |-> receipt[r].thread,
                                          prepared |-> NoIdentity]]
      BY <1>4, <2>3 DEF BeginCreation
    <3>2. /\ flow'[r].pc = IF receipt[r].cleaning THEN "cleaning"
                           ELSE IF receipt[r].thread = NoTopic THEN "verify" ELSE "look"
          /\ flow'[r].thread = receipt[r].thread /\ flow'[r].prepared = NoIdentity
      BY <1>0, <3>1
    <3>3. receipt[r].cleaning => receipt[r].thread \in Topics
      BY <1>0, <3>1 DEF Consistent, Receipt
    <3>4. receipt[r].thread \in Topics \cup {NoTopic}
      BY <1>0 DEF Receipt
    <3> QED  BY <2>1, <3>1, <3>2, <3>3, <3>4 DEF Knows
  <2> QED  BY <2>2, <2>3
<1>5. CASE VerifyWorker(r)
  <2>1. /\ flow'[r].pc \in {"drop", "note"} /\ receipt' = receipt
    BY <1>0, <1>1, <1>5 DEF VerifyWorker, Delivery
  <2> QED  BY <1>0, <1>5, <2>1 DEF VerifyWorker, Knows, Ended
<1>6. CASE RecordPrepared(r)
  <2> DEFINE c == [receipt[r] EXCEPT !.prepared = flow[r].prepared]
  <2>1. /\ receipt'[r] = c /\ c.thread = receipt[r].thread /\ c.prepared = flow[r].prepared
        /\ c.failed = receipt[r].failed
    BY <1>0, <1>1, <1>6 DEF RecordPrepared, Receipt
  <2> HIDE DEF c
  <2> QED  BY <1>0, <1>1, <1>6, <2>1 DEF RecordPrepared, Knows, Ended
<1>7. CASE CreateForumTopic(r)
  <2>1. /\ receipt' = receipt /\ flow'[r].prepared = flow[r].prepared
        /\ \/ flow'[r].pc = "drop"
           \/ flow'[r].pc = "thread" /\ flow'[r].thread \in Topics
    BY <1>0, <1>1, <1>7 DEF CreateForumTopic, Delivery
  <2> QED  BY <1>0, <1>7, <2>1 DEF CreateForumTopic, Knows, Ended
<1>8. CASE RecordThread(r)
  <2>1. CASE Go(r, "cleaning") /\ UNCHANGED receipt
    BY <1>0, <1>3, <1>8, <2>1 DEF RecordThread, Knows, Ended
  <2>2. CASE Amend(r, [receipt[r] EXCEPT !.thread = flow[r].thread]) /\ Go(r, "look")
    <3> DEFINE c == [receipt[r] EXCEPT !.thread = flow[r].thread]
    <3>1. /\ receipt'[r] = c /\ c.thread = flow[r].thread /\ c.prepared = receipt[r].prepared
          /\ c.failed = receipt[r].failed
      BY <1>0, <1>1, <2>2 DEF Receipt
    <3> HIDE DEF c
    <3> QED  BY <1>0, <1>1, <1>8, <2>2, <3>1 DEF RecordThread, Knows, Ended
  <2> QED  BY <1>8, <2>1, <2>2 DEF RecordThread
<1>9. CASE LookUp(r)
  <2>1. CASE Settle(r, "refused")
    BY <1>2, <2>1 DEF Ended
  <2>2. CASE ~Settle(r, "refused")
    BY <1>0, <1>3, <1>9, <2>2 DEF LookUp, Ended
  <2> QED  BY <2>1, <2>2
<1>10. CASE Acknowledge(r) \/ Drop(r) \/ RecordFailed(r) \/ CleanupFails(r)
  BY <1>2, <1>10 DEF Acknowledge, Drop, RecordFailed, CleanupFails, Ended
<1>11. CASE ClaimWorker(r)
  <2>1. CASE Go(r, "cleaning")
    BY <1>0, <1>3, <1>11, <2>1 DEF ClaimWorker, Knows, Ended
  <2>2. CASE ~Go(r, "cleaning")
    <3>0. PICK n, g : flow' = [flow EXCEPT ![r].pc = "session",
                                           ![r].prepared = [node |-> n, gen |-> g]]
      BY <1>11, <2>2 DEF ClaimWorker
    <3>1. flow'[r].pc = "session" /\ flow'[r].thread = flow[r].thread /\ receipt' = receipt
      BY <1>0, <1>11, <3>0 DEF ClaimWorker, Delivery
    <3> QED  BY <1>0, <1>11, <3>1 DEF ClaimWorker, Knows, Ended
  <2> QED  BY <2>1, <2>2
<1>12. CASE AdoptSession(r) \/ Activate(r) \/ PrepareFails(r)
  BY <1>0, <1>3, <1>12 DEF AdoptSession, Activate, PrepareFails, Knows, Ended
<1>13. CASE SaveBinding(r)
  <2>1. Go(r, "complete") \/ Go(r, "cleaning")
    BY <1>13 DEF SaveBinding
  <2> QED  BY <1>0, <1>3, <1>13, <2>1 DEF SaveBinding, Knows, Ended
<1>14. CASE RecordCompleted(r)
  <2>1. CASE Settle(r, "done")
    BY <1>2, <2>1 DEF Ended
  <2>2. CASE ~Settle(r, "done")
    BY <1>0, <1>3, <1>14, <2>2 DEF RecordCompleted, Knows, Ended
  <2> QED  BY <2>1, <2>2
<1>15. CASE RecordCleaning(r)
  <2> DEFINE c == [receipt[r] EXCEPT !.cleaning = TRUE]
  <2>1. receipt'[r] = c /\ c.cleaning /\ c.failed = receipt[r].failed
    BY <1>0, <1>1, <1>15 DEF RecordCleaning, Receipt
  <2> HIDE DEF c
  <2> QED  BY <1>0, <1>1, <1>15, <2>1 DEF RecordCleaning, Knows, Ended
<1>16. CASE BeginRetire(r)
  <2>1. Go(r, "untopic") \/ Go(r, "recycle")
    BY <1>16 DEF BeginRetire
  <2> QED  BY <1>0, <1>3, <1>16, <2>1 DEF BeginRetire, Knows, Ended
<1>17. CASE FinishRetire(r) \/ DeleteForumTopic(r) \/ RemoveBinding(r)
  BY <1>0, <1>3, <1>17 DEF FinishRetire, DeleteForumTopic, RemoveBinding, Knows, Ended
<1> QED
  BY <1>4, <1>5, <1>6, <1>7, <1>8, <1>9, <1>10, <1>11, <1>12, <1>13, <1>14, <1>15, <1>16, <1>17
  DEF Serve

(* Every step of its request leaves a Topic accounted for.                 *)
LEMMA StillAccounted ==
    ASSUME NEW r \in Requests, NEW t \in Topics, granted \subseteq granted',
           Undisturbed(t), deletion' = deletion,
           t \in saved' <=> t \in saved, t \in telegram' <=> t \in telegram,
           Accounted(r, t),
           receipt[r].completed => receipt'[r].completed,
           receipt[r].cleaning => receipt'[r].cleaning,
           receipt'[r].prepared = receipt[r].prepared \/ receipt'[r].completed,
           receipt'[r].thread = receipt[r].thread \/ receipt'[r].thread = t,
           receipt'[r].failed => receipt[r].failed \/ (Bare(t) /\ (receipt'[r].thread = t => t \notin telegram)),
           \/ flow'[r].pc = flow[r].pc
           \/ flow'[r].pc \notin {"canonical", "recycle", "untopic", "unsave", "close", "session",
                                  "activate", "save", "complete"},
           receipt[r].failed => receipt'[r].thread = receipt[r].thread
    PROVE  Accounted(r, t)'
<1>1. /\ Holders(t)' = Holders(t) /\ (ReadyHolder(t) => ReadyHolder(t)')
      /\ \A n \in Holders(t) : bindings'[n] = bindings[n]
  BY DEF Undisturbed, ReadyHolder
<1>2. Bare(t) => Bare(t)'
  BY <1>1 DEF Bare
<1>3. Closed(r, t) => Closed(r, t)'
  BY ClosedStays
<1>4. t # NoTopic
  BY ConstantsAssumption
<1> QED  BY <1>1, <1>2, <1>3, <1>4 DEF Accounted

LEMMA QuietServesAccount ==
    ASSUME CInv, UInv, NEW r \in Requests, NEW t \in Topics, owner[t] = r, granted \subseteq granted',
           \/ BeginCreation(r) \/ VerifyWorker(r) \/ Drop(r) \/ RecordThread(r) \/ LookUp(r)
           \/ Acknowledge(r) \/ RecordCompleted(r) \/ RecordCleaning(r) \/ RecordFailed(r)
           \/ CleanupFails(r)
    PROVE  Accounted(r, t)'
<1> USE DEF Waiting, Starting, Preparing, Cleanup
<1>0. /\ Knows(r) /\ Consistent(r) /\ receipt[r] \in Receipt /\ flow[r] \in Delivery
      /\ flow \in [Requests -> Delivery] /\ receipt \in [Requests -> Receipt]
      /\ Accounted(r, t)
  BY CreationAssumption DEF UInv, TopicState, CInv, Typed
<1>1. /\ \A pc : Go(r, pc) => flow'[r].pc = pc
      /\ \A pc : Settle(r, pc) => flow'[r].pc = pc
      /\ \A c : Amend(r, c) => receipt'[r] = c
  BY <1>0 DEF Delivery, Go, Settle, Amend, NoFlow
<1>2. flow[r].thread \in Topics => flow[r].thread = t
  BY OwnTopic
<1>3. Undisturbed(t) /\ deletion' = deletion /\ saved' = saved /\ telegram' = telegram
  BY NothingWritten DEF BeginCreation, VerifyWorker, Drop, RecordThread, LookUp, Acknowledge,
     RecordCompleted, RecordCleaning, RecordFailed, CleanupFails
<1> DEFINE Quiet == {"canonical", "recycle", "untopic", "unsave", "close", "session",
                     "activate", "save", "complete"}
<1>4. ASSUME receipt' = receipt, flow'[r].pc \notin Quiet
      PROVE  Accounted(r, t)'
  BY <1>0, <1>3, <1>4, StillAccounted
<1>5. CASE BeginCreation(r)
  <2> DEFINE c == [receipt[r] EXCEPT !.known = TRUE]
  <2>1. /\ receipt'[r] = c /\ c.thread = receipt[r].thread /\ c.cleaning = receipt[r].cleaning
        /\ c.failed = receipt[r].failed /\ c.completed = receipt[r].completed
        /\ c.prepared = receipt[r].prepared
    BY <1>0, <1>1, <1>5 DEF BeginCreation, Receipt
  <2>2. flow'[r].pc \in {"refused", "cleaning", "verify", "look"}
    BY <1>0, <1>1, <1>5 DEF BeginCreation
  <2> HIDE DEF c
  <2> QED  BY <1>0, <1>3, <2>1, <2>2, StillAccounted
<1>6. CASE VerifyWorker(r)
  <2>1. flow'[r].pc \in {"drop", "note"} /\ receipt' = receipt
    BY <1>0, <1>1, <1>6 DEF VerifyWorker, Delivery
  <2> QED  BY <1>4, <2>1
<1>7. CASE Drop(r) \/ RecordFailed(r)
  <2> DEFINE c == [receipt[r] EXCEPT !.failed = TRUE]
  <2>1. /\ receipt'[r] = c /\ c.thread = receipt[r].thread /\ c.cleaning = receipt[r].cleaning
        /\ c.completed = receipt[r].completed /\ c.prepared = receipt[r].prepared
        /\ flow'[r].pc = "refused"
    BY <1>0, <1>1, <1>7 DEF Drop, RecordFailed, Receipt
  <2>2. Bare(t) /\ (receipt[r].thread = t => t \notin telegram)
    <3>1. CASE Drop(r)
      BY <1>0, <3>1, ConstantsAssumption DEF Drop, Knows, Accounted
    <3>2. CASE RecordFailed(r)
      BY <1>0, <3>2 DEF RecordFailed, Accounted, Bare
    <3> QED  BY <1>7, <3>1, <3>2
  <2> HIDE DEF c
  <2> QED  BY <1>0, <1>3, <2>1, <2>2, StillAccounted
<1>8. CASE RecordThread(r)
  <2>1. CASE Go(r, "cleaning") /\ UNCHANGED receipt
    BY <1>1, <1>4, <2>1
  <2>2. CASE Amend(r, [receipt[r] EXCEPT !.thread = flow[r].thread]) /\ Go(r, "look")
    <3> DEFINE c == [receipt[r] EXCEPT !.thread = flow[r].thread]
    <3>1. /\ receipt'[r] = c /\ c.thread = flow[r].thread /\ c.cleaning = receipt[r].cleaning
          /\ c.failed = receipt[r].failed /\ c.completed = receipt[r].completed
          /\ c.prepared = receipt[r].prepared /\ flow'[r].pc = "look"
      BY <1>0, <1>1, <2>2 DEF Receipt
    <3>2. flow[r].thread = t /\ ~receipt[r].failed
      BY <1>0, <1>2, <1>8 DEF RecordThread, Knows, Ended
    <3> HIDE DEF c
    <3> QED  BY <1>0, <1>3, <3>1, <3>2, StillAccounted
  <2> QED  BY <1>8, <2>1, <2>2 DEF RecordThread
<1>9. CASE LookUp(r)
  <2>1. flow[r].thread = t /\ receipt' = receipt
    BY <1>0, <1>2, <1>9 DEF LookUp, Knows
  <2>2. CASE flow'[r].pc = "canonical"
    <3>1. t \in saved
      BY <1>1, <1>9, <2>1, <2>2 DEF LookUp
    <3>2. /\ Holders(t)' = Holders(t) /\ (Bare(t) => Bare(t)') /\ (Closed(r, t) => Closed(r, t)')
      BY <1>3, <2>1, ClosedStays DEF Undisturbed, Bare
    <3> QED  BY <1>0, <1>3, <2>1, <2>2, <3>1, <3>2 DEF Accounted
  <2>3. CASE flow'[r].pc # "canonical"
    <3>1. flow'[r].pc \in {"canonical", "refused", "prepare"}
      BY <1>1, <1>9 DEF LookUp
    <3> QED  BY <1>4, <2>1, <2>3, <3>1
  <2> QED  BY <2>2, <2>3
<1>10. CASE Acknowledge(r) \/ CleanupFails(r)
  <2>1. flow'[r].pc \in {"reused", "refused"} /\ receipt' = receipt
    BY <1>1, <1>10 DEF Acknowledge, CleanupFails
  <2> QED  BY <1>4, <2>1
<1>11. CASE RecordCompleted(r)
  <2>1. CASE Go(r, "cleaning") /\ UNCHANGED receipt
    BY <1>1, <1>4, <2>1
  <2>2. CASE ~(Go(r, "cleaning") /\ UNCHANGED receipt)
    <3> DEFINE c == [receipt[r] EXCEPT !.completed = TRUE, !.prepared = flow[r].prepared]
    <3>1. /\ receipt'[r] = c /\ c.thread = receipt[r].thread /\ c.cleaning = receipt[r].cleaning
          /\ c.failed = receipt[r].failed /\ c.completed /\ flow'[r].pc = "done"
      BY <1>0, <1>1, <1>11, <2>2 DEF RecordCompleted, Receipt
    <3> HIDE DEF c
    <3> QED  BY <1>0, <1>3, <3>1, StillAccounted
  <2> QED  BY <2>1, <2>2
<1>12. CASE RecordCleaning(r)
  <2> DEFINE c == [receipt[r] EXCEPT !.cleaning = TRUE]
  <2>1. /\ receipt'[r] = c /\ c.thread = receipt[r].thread /\ c.cleaning
        /\ c.failed = receipt[r].failed /\ c.completed = receipt[r].completed
        /\ c.prepared = receipt[r].prepared /\ flow'[r].pc = "retire"
    BY <1>0, <1>1, <1>12 DEF RecordCleaning, Receipt
  <2> HIDE DEF c
  <2> QED  BY <1>0, <1>3, <2>1, StillAccounted
<1> QED  BY <1>5, <1>6, <1>7, <1>8, <1>9, <1>10, <1>11, <1>12

LEMMA WorkingServesAccount ==
    ASSUME CInv, UInv, NEW r \in Requests, NEW t \in Topics, owner[t] = r, granted \subseteq granted',
           \/ ClaimWorker(r) \/ AdoptSession(r) \/ Activate(r) \/ PrepareFails(r) \/ SaveBinding(r)
           \/ BeginRetire(r) \/ FinishRetire(r) \/ DeleteForumTopic(r) \/ RemoveBinding(r)
    PROVE  Accounted(r, t)'
<1> USE DEF Waiting, Starting, Preparing, Cleanup
<1>0. /\ Knows(r) /\ Consistent(r) /\ receipt[r] \in Receipt /\ flow[r] \in Delivery
      /\ flow \in [Requests -> Delivery] /\ receipt \in [Requests -> Receipt]
      /\ Accounted(r, t)
  BY CreationAssumption DEF UInv, TopicState, CInv, Typed
<1>1. \A pc : Go(r, pc) => flow'[r].pc = pc
  BY <1>0 DEF Delivery, Go
<1>2. flow[r].thread = t /\ t # NoTopic
  <2>1. flow[r].thread \in Topics
    BY <1>0 DEF ClaimWorker, AdoptSession, Activate, PrepareFails, SaveBinding, BeginRetire,
       FinishRetire, DeleteForumTopic, RemoveBinding, Knows
  <2> QED  BY <2>1, OwnTopic, ConstantsAssumption
<1>3. receipt' = receipt /\ deletion' = deletion
  BY DEF ClaimWorker, AdoptSession, Activate, PrepareFails, SaveBinding, BeginRetire,
     FinishRetire, DeleteForumTopic, RemoveBinding
<1>4. Closed(r, t) => Closed(r, t)'
  BY <1>3, ClosedStays
<1>5. ASSUME UNCHANGED vars, UNCHANGED <<saved, telegram>>, flow'[r].pc = "cleaning"
      PROVE  Accounted(r, t)'
  <2>1. Undisturbed(t)
    BY <1>5, NothingWritten
  <2> QED  BY <1>0, <1>3, <1>5, <2>1, StillAccounted
<1>6. CASE ClaimWorker(r)
  <2>0. UNCHANGED <<saved, telegram>> /\ flow[r].pc = "prepare"
    BY <1>6 DEF ClaimWorker
  <2>1. CASE Go(r, "cleaning") /\ UNCHANGED vars
    BY <1>1, <1>5, <2>0, <2>1
  <2>2. ASSUME NEW w \in Candidates(r), NEW n \in Nodes, n = w.node, flow'[r].pc = "session",
               NEW res \in Resources,
               ReservePrepared(flow[r].thread, [node |-> n, gen |-> w.gen, topic |-> NoTopic], res)
        PROVE  Accounted(r, t)'
    <3>0. ReservePrepared(t, [node |-> n, gen |-> w.gen, topic |-> NoTopic], res)
      BY <1>2, <2>2, Zenon
    <3>1. ~Closed(r, t) /\ Closed(r, t)'
      BY <1>0, <1>2, <1>3, <2>0, <2>2, <3>0, ClaimEffect
    <3>2. receipt[r].thread = t /\ ~receipt[r].failed
      BY <1>0, <1>2, <2>0 DEF Knows, Ended
    <3>3. t \notin saved /\ t \in telegram /\ deletion[t] = "none"
      BY <1>0, <3>1 DEF Accounted
    <3> QED  BY <1>2, <1>3, <2>0, <2>2, <3>1, <3>2, <3>3 DEF Accounted
  <2>3. ASSUME NEW n \in Holders(t), UNCHANGED vars, flow'[r].pc = "session"
        PROVE  Accounted(r, t)'
    <3>1. /\ Holders(t)' = Holders(t) /\ (Bare(t) => Bare(t)')
      BY <2>0, <2>3, NothingWritten DEF Undisturbed, Bare
    <3>2. Closed(r, t) /\ Closed(r, t)'
      BY <1>0, <1>4, <2>3 DEF Accounted
    <3> QED  BY <1>0, <1>3, <2>0, <2>3, <3>1, <3>2 DEF Accounted
  <2>4. ASSUME NEW n, NEW g, flow' = [flow EXCEPT ![r].pc = "session",
                                                   ![r].prepared = [node |-> n, gen |-> g]]
        PROVE  flow'[r].pc = "session"
    BY <1>0, <2>4 DEF Delivery
  <2>5. CASE ~(Go(r, "cleaning") /\ UNCHANGED vars)
    <3>1. PICK w \in Candidates(r), n \in Nodes :
             /\ n = w.node
             /\ \/ \E res \in Resources :
                     ReservePrepared(flow[r].thread,
                                     [node |-> n, gen |-> w.gen, topic |-> NoTopic], res)
                \/ n \in Holders(flow[r].thread) /\ UNCHANGED vars
             /\ flow' = [flow EXCEPT ![r].pc = "session",
                                     ![r].prepared = [node |-> n, gen |-> bindings'[n].gen]]
      BY <1>6, <2>5 DEF ClaimWorker
    <3>2. flow'[r].pc = "session"
      BY <2>4, <3>1
    <3> QED  BY <1>2, <2>2, <2>3, <3>1, <3>2
  <2> QED  BY <2>1, <2>5
<1>7. CASE AdoptSession(r)
  <2>1. /\ Holders(t)' = Holders(t) /\ \A n \in Holders(t) : bindings'[n].session
        /\ flow'[r].pc = "activate" /\ UNCHANGED <<saved, telegram>> /\ flow[r].pc = "session"
    BY <1>1, <1>2, <1>7, PatchEffect DEF AdoptSession
  <2>2. Bare(t) => Bare(t)'
    BY <2>1 DEF Bare
  <2> QED  BY <1>0, <1>3, <1>4, <2>1, <2>2 DEF Accounted
<1>8. CASE Activate(r)
  <2>1. /\ Holders(t)' = Holders(t) /\ ReadyHolder(t)'
        /\ flow'[r].pc = "save" /\ UNCHANGED <<saved, telegram>> /\ flow[r].pc = "activate"
    BY <1>0, <1>1, <1>2, <1>8, PatchEffect DEF Activate, Accounted
  <2>2. Bare(t) => Bare(t)'
    BY <2>1 DEF Bare
  <2> QED  BY <1>0, <1>3, <1>4, <2>1, <2>2 DEF Accounted
<1>9. CASE PrepareFails(r)
  <2>1. /\ Holders(t)' = Holders(t)
        /\ flow'[r].pc = "cleaning" /\ UNCHANGED <<saved, telegram>>
    BY <1>1, <1>2, <1>9, PatchEffect, NothingWritten DEF PrepareFails, Undisturbed
  <2>2. Bare(t) => Bare(t)'
    BY <2>1 DEF Bare
  <2> QED  BY <1>0, <1>3, <1>4, <2>1, <2>2 DEF Accounted
<1>10. CASE SaveBinding(r)
  <2>1. CASE Go(r, "cleaning") /\ UNCHANGED saved
    BY <1>1, <1>5, <1>10, <2>1 DEF SaveBinding
  <2>2. CASE saved' = saved \cup {t} /\ Go(r, "complete")
    <3>1. /\ Holders(t)' = Holders(t) /\ (ReadyHolder(t) => ReadyHolder(t)')
      BY <1>10, NothingWritten DEF SaveBinding, Undisturbed, ReadyHolder
    <3>2. /\ telegram' = telegram /\ flow'[r].pc = "complete" /\ flow[r].pc = "save" /\ t \in saved'
      BY <1>1, <1>10, <2>2 DEF SaveBinding
    <3>3. receipt[r].thread = t /\ ~receipt[r].failed
      BY <1>0, <1>2, <3>2 DEF Knows, Ended
    <3> QED  BY <1>0, <1>2, <1>3, <1>4, <3>1, <3>2, <3>3 DEF Accounted
  <2> QED  BY <1>2, <1>10, <2>1, <2>2 DEF SaveBinding
<1>11. CASE BeginRetire(r)
  <2>1. /\ Holders(t)' = {} /\ UNCHANGED <<saved, telegram>>
        /\ flow'[r].pc \in {"untopic", "recycle"}
    BY <1>1, <1>2, <1>11, RetireEffect DEF BeginRetire
  <2>2. Bare(t) => Bare(t)'
    BY <2>1 DEF Bare
  <2> QED  BY <1>0, <1>3, <1>4, <2>1, <2>2 DEF Accounted
<1>12. CASE FinishRetire(r)
  <2>1. /\ Holders(t)' = Holders(t) /\ UNCHANGED <<saved, telegram>>
        /\ flow'[r].pc = "untopic" /\ flow[r].pc = "recycle"
    BY <1>1, <1>2, <1>12, RecycleEffect DEF FinishRetire, Undisturbed
  <2>2. Bare(t) => Bare(t)'
    BY <2>1 DEF Bare
  <2> QED  BY <1>0, <1>3, <1>4, <2>1, <2>2 DEF Accounted
<1>13. CASE DeleteForumTopic(r)
  <2>1. /\ Holders(t)' = Holders(t) /\ saved' = saved /\ t \notin telegram'
        /\ flow'[r].pc = "unsave" /\ flow[r].pc = "untopic"
    BY <1>1, <1>2, <1>13, NothingWritten DEF DeleteForumTopic, Undisturbed
  <2>2. (Bare(t) => Bare(t)') /\ Closed(r, t)
    BY <1>0, <2>1 DEF Bare, Closed, Knows
  <2> QED  BY <1>0, <1>3, <1>4, <2>1, <2>2 DEF Accounted
<1>14. CASE RemoveBinding(r)
  <2>1. /\ Holders(t)' = Holders(t) /\ t \notin saved' /\ telegram' = telegram
        /\ flow'[r].pc = "close" /\ flow[r].pc = "unsave"
    BY <1>1, <1>2, <1>14, NothingWritten DEF RemoveBinding, Undisturbed
  <2>2. Holders(t) = {} /\ Bare(t)'
    BY <1>0, <2>1 DEF Bare, Accounted
  <2> QED  BY <1>0, <1>3, <1>4, <2>1, <2>2 DEF Accounted
<1> QED  BY <1>6, <1>7, <1>8, <1>9, <1>10, <1>11, <1>12, <1>13, <1>14

(* The two steps before a request owns a Topic, and the one that gives it  *)
(* one.                                                                    *)
LEMMA StartingServesAccount ==
    ASSUME CInv, UInv, NEW r \in Requests, NEW t \in Topics, owner'[t] = r,
           RecordPrepared(r) \/ CreateForumTopic(r)
    PROVE  Accounted(r, t)'
<1> USE DEF Waiting, Starting, Preparing, Cleanup
<1>0. /\ Knows(r) /\ Consistent(r) /\ receipt[r] \in Receipt /\ flow[r] \in Delivery
      /\ flow \in [Requests -> Delivery] /\ owner \in [Topics -> Requests \cup {NoRequest}]
      /\ TopicState(t)
  BY DEF UInv, CInv, Typed
<1>1. \A u \in Topics : owner[u] # r
  BY DEF CInv, Owned, RecordPrepared, CreateForumTopic
<1>2. CASE RecordPrepared(r)
  BY <1>1, <1>2 DEF RecordPrepared
<1>3. CASE CreateForumTopic(r)
  <2>1. /\ receipt' = receipt /\ UNCHANGED vars /\ saved' = saved /\ deletion' = deletion
        /\ flow[r].pc = "create"
    BY <1>3 DEF CreateForumTopic
  <2>2. owner[t] = NoRequest /\ t \in telegram' /\ flow'[r].pc \in {"thread", "drop"}
    BY <1>0, <1>1, <1>3 DEF CreateForumTopic, Go, Delivery
  <2>3. Bare(t) /\ deletion[t] = "none" /\ Holders(t)' = {} /\ Bare(t)'
    BY <1>0, <2>1, <2>2, NothingWritten DEF TopicState, Bare, Undisturbed
  <2>4. receipt[r].thread = NoTopic
    BY <1>0, <2>1 DEF Knows
  <2> QED  BY <2>1, <2>2, <2>3, <2>4, ConstantsAssumption DEF Accounted, Bare
<1> QED  BY <1>2, <1>3

LEMMA ServeAccounts ==
    ASSUME CInv, UInv, NEW r \in Requests, Serve(r), granted \subseteq granted'
    PROVE  UInv'
<1>1. /\ Apart(r) /\ deletion' = deletion
      /\ \A q \in Requests \ {r} : receipt'[q] = receipt[q] /\ flow'[q] = flow[q]
  BY ServesApart
<1>2. ASSUME NEW t \in Topics, owner'[t] = r PROVE TopicState(t)'
  <2>1. CASE RecordPrepared(r) \/ CreateForumTopic(r)
    BY <1>2, <2>1, StartingServesAccount, CreationAssumption DEF TopicState
  <2>2. CASE \/ BeginCreation(r) \/ VerifyWorker(r) \/ Drop(r) \/ RecordThread(r) \/ LookUp(r)
             \/ Acknowledge(r) \/ RecordCompleted(r) \/ RecordCleaning(r) \/ RecordFailed(r)
             \/ CleanupFails(r)
    <3>1. owner' = owner
      BY <2>2 DEF BeginCreation, VerifyWorker, Drop, RecordThread, LookUp, Acknowledge,
         RecordCompleted, RecordCleaning, RecordFailed, CleanupFails
    <3>2. Accounted(r, t)'
      BY <1>2, <2>2, <3>1, QuietServesAccount
    <3> QED  BY <1>2, <3>2, CreationAssumption DEF TopicState
  <2>3. CASE \/ ClaimWorker(r) \/ AdoptSession(r) \/ Activate(r) \/ PrepareFails(r) \/ SaveBinding(r)
             \/ BeginRetire(r) \/ FinishRetire(r) \/ DeleteForumTopic(r) \/ RemoveBinding(r)
    <3>1. owner' = owner
      BY <2>3 DEF ClaimWorker, AdoptSession, Activate, PrepareFails, SaveBinding, BeginRetire,
         FinishRetire, DeleteForumTopic, RemoveBinding
    <3>2. Accounted(r, t)'
      BY <1>2, <2>3, <3>1, WorkingServesAccount
    <3> QED  BY <1>2, <3>2, CreationAssumption DEF TopicState
  <2> QED  BY <2>1, <2>2, <2>3 DEF Serve
<1>3. ASSUME NEW t \in Topics, owner'[t] # r PROVE TopicState(t)'
  <2>1. /\ owner[t] # r /\ owner'[t] = owner[t] /\ Undisturbed(t)
        /\ (t \in saved' <=> t \in saved) /\ (t \in telegram' <=> t \in telegram)
    BY <1>1, <1>3 DEF Apart
  <2>2. TopicState(t) /\ owner[t] \in Requests \cup {NoRequest}
    BY DEF UInv, CInv, Typed
  <2>3. owner[t] # NoRequest => receipt'[owner[t]] = receipt[owner[t]] /\ flow'[owner[t]] = flow[owner[t]]
    BY <1>1, <2>1, <2>2
  <2> QED  BY <1>1, <2>1, <2>2, <2>3, TopicFrame
<1>4. \A q \in Requests : Knows(q)'
  <2>1. Knows(r)'
    BY ServeKnows
  <2>2. ASSUME NEW q \in Requests \ {r} PROVE Knows(q)'
    BY <1>1 DEF UInv, Knows
  <2> QED  BY <2>1, <2>2
<1> QED  BY <1>1, <1>2, <1>3, <1>4 DEF UInv

(* A delivery begins anew, or is lost with the process.                    *)
LEMMA DeliveriesAccount ==
    ASSUME CInv, UInv, granted \subseteq granted',
           (\E r \in Requests : Deliver(r)) \/ Restart
    PROVE  UInv'
<1>0. /\ flow \in [Requests -> Delivery] /\ owner \in [Topics -> Requests \cup {NoRequest}]
  BY DEF CInv, Typed
<1>1. /\ UNCHANGED vars /\ receipt' = receipt /\ saved' = saved /\ telegram' = telegram
      /\ owner' = owner
  BY DEF Deliver, Restart
<1>2. ASSUME NEW r \in Requests PROVE flow'[r] = flow[r] \/ flow'[r].pc \in {"idle", "queued"}
  BY <1>0 DEF Deliver, Restart, NoFlow
<1>3. ASSUME NEW t \in Topics
      PROVE  \/ deletion'[t] = deletion[t]
             \/ deletion[t] # "none" /\ deletion'[t] = "failed"
  BY <1>3 DEF Deliver, Restart, Deleting, UInv
<1>4. ASSUME NEW r \in Requests PROVE Knows(r)'
  BY <1>1, <1>2 DEF UInv, Knows, Waiting, Ended, Preparing, Starting, Cleanup
<1>5. ASSUME NEW t \in Topics PROVE TopicState(t)'
  <2>1. /\ Holders(t)' = Holders(t) /\ (ReadyHolder(t) => ReadyHolder(t)')
        /\ \A n \in Holders(t) : bindings'[n] = bindings[n]
    BY <1>1, NothingWritten DEF Undisturbed, ReadyHolder
  <2>2. Bare(t) => Bare(t)'
    BY <1>1, <2>1 DEF Bare
  <2>3. CASE owner[t] = NoRequest
    BY <1>1, <1>3, <2>2, <2>3 DEF UInv, TopicState
  <2>4. ASSUME NEW r \in Requests, owner[t] = r PROVE TopicState(t)'
    <3>1. Accounted(r, t) /\ owner'[t] = r
      BY <1>1, <2>4, CreationAssumption DEF UInv, TopicState
    <3>2. Closed(r, t) => Closed(r, t)'
      BY <1>1, ClosedStays
    <3>3. flow'[r] = flow[r] \/ flow'[r].pc \in {"idle", "queued"}
      BY <1>2
    <3>4. Accounted(r, t)'
      BY <1>1, <1>3, <2>1, <2>2, <3>1, <3>2, <3>3 DEF Accounted
    <3> QED  BY <3>1, <3>4, CreationAssumption DEF TopicState
  <2> QED  BY <1>0, <2>3, <2>4
<1>6. deletion' \in [Topics -> {"none", "retire", "recycle", "untopic", "unsave", "done", "failed"}]
  BY DEF Deliver, Restart, UInv
<1> QED  BY <1>4, <1>5, <1>6 DEF UInv

(* A deletion concerns a Topic that was saved, and so one that is closed.  *)
LEMMA DeletionsAccount ==
    ASSUME CInv, UInv, granted \subseteq granted',
           NEW u \in Topics, BeginDelete(u) \/ DeleteStep(u)
    PROVE  UInv'
<1>0. owner \in [Topics -> Requests \cup {NoRequest}]
  BY DEF CInv, Typed
<1>1. receipt' = receipt /\ owner' = owner /\ flow' = flow
  BY DEF BeginDelete, DeleteStep
<1>2. ASSUME NEW r \in Requests PROVE Knows(r)'
  BY <1>1 DEF UInv, Knows
<1>3. ASSUME NEW t \in Topics, t # u PROVE TopicState(t)'
  <2>1. Undisturbed(t)
    BY <1>3, RetireEffect, RecycleEffect, NothingWritten DEF BeginDelete, DeleteStep
  <2>2. /\ deletion'[t] = deletion[t]
        /\ (t \in saved' <=> t \in saved) /\ (t \in telegram' <=> t \in telegram)
    BY <1>3 DEF BeginDelete, DeleteStep, Deletes, UInv
  <2>3. TopicState(t)
    BY DEF UInv
  <2> QED  BY <1>1, <2>1, <2>2, <2>3, TopicFrame
<1>4. TopicState(u)'
  <2>0. TopicState(u) /\ (deletion[u] # "none" \/ u \in saved)
    BY DEF UInv, BeginDelete, DeleteStep, Deleting
  <2>1. PICK r \in Requests : owner[u] = r
    BY <1>0, <2>0 DEF TopicState, Bare
  <2>2. Accounted(r, u) /\ owner'[u] = r
    BY <1>1, <2>0, <2>1, CreationAssumption DEF TopicState
  <2>3. Closed(r, u) /\ Closed(r, u)'
    BY <1>1, <2>0, <2>2, ClosedStays DEF Accounted
  <2>4. \A pc : Deletes(u, pc) => deletion'[u] = pc
    BY DEF Deletes, UInv
  <2>5. ASSUME Holders(u)' = {}, saved' \subseteq saved, telegram' \subseteq telegram,
               deletion'[u] # "none",
               flow[r].pc = "close" => u \notin saved,
               deletion[u] = "unsave" \/ u \in saved' \/ u \notin saved
        PROVE  Accounted(r, u)'
    <3>1. Bare(u) => Bare(u)'
      BY <2>5 DEF Bare
    <3> QED  BY <1>1, <2>2, <2>3, <2>5, <3>1 DEF Accounted
  <2>6. ASSUME Undisturbed(u), UNCHANGED saved, UNCHANGED telegram, deletion'[u] # "none",
               deletion'[u] \notin {"recycle", "untopic", "unsave", "done"}
        PROVE  Accounted(r, u)'
    <3>1. /\ Holders(u)' = Holders(u) /\ (Bare(u) => Bare(u)')
          /\ \A n \in Holders(u) : bindings'[n] = bindings[n]
      BY <2>6 DEF Undisturbed, Bare
    <3> QED  BY <1>1, <2>2, <2>3, <2>6, <3>1 DEF Accounted
  <2>7. ASSUME Holders(u) = {}, UNCHANGED vars PROVE Holders(u)' = {}
    BY <2>7, NothingWritten DEF Undisturbed
  <2>8. Accounted(r, u)'
    <3>1. CASE BeginDelete(u)
      BY <2>4, <2>6, <3>1, NothingWritten DEF BeginDelete
    <3>2. CASE deletion[u] = "retire" /\ RetireWorker(u) /\ UNCHANGED <<telegram, saved>>
               /\ deletion'[u] \in {"untopic", "recycle"}
      BY <2>2, <2>5, <3>2, RetireEffect DEF Accounted
    <3>3. CASE deletion[u] = "recycle" /\ Recycled(u) /\ UNCHANGED <<telegram, saved>>
               /\ deletion'[u] = "untopic"
      <4>1. Holders(u)' = {}
        BY <2>2, <3>3, RecycleEffect DEF Accounted, Undisturbed
      <4> QED  BY <2>2, <2>5, <3>3, <4>1 DEF Accounted
    <3>4. CASE deletion[u] = "untopic" /\ telegram' = telegram \ {u} /\ UNCHANGED vars
               /\ UNCHANGED saved /\ deletion'[u] = "unsave"
      BY <2>2, <2>5, <2>7, <3>4 DEF Accounted
    <3>5. CASE deletion[u] = "unsave" /\ saved' = saved \ {u} /\ UNCHANGED vars
               /\ UNCHANGED telegram /\ deletion'[u] = "done"
      BY <2>2, <2>5, <2>7, <3>5 DEF Accounted
    <3>6. CASE deletion'[u] = "failed" /\ UNCHANGED vars /\ UNCHANGED <<telegram, saved>>
      BY <2>6, <3>6, NothingWritten
    <3>7. CASE DeleteStep(u)
      BY <2>4, <3>2, <3>3, <3>4, <3>5, <3>6, <3>7 DEF DeleteStep
    <3> QED  BY <3>1, <3>7
  <2> QED  BY <2>2, <2>8, CreationAssumption DEF TopicState
<1>5. deletion' \in [Topics -> {"none", "retire", "recycle", "untopic", "unsave", "done", "failed"}]
  BY DEF BeginDelete, DeleteStep, Deletes, UInv
<1> QED  BY <1>2, <1>3, <1>4, <1>5 DEF UInv

LEMMA UInvInitially == CreationInit => UInv
<1> SUFFICES ASSUME CreationInit PROVE UInv
  OBVIOUS
<1>1. ASSUME NEW n \in Nodes PROVE bindings[n].topic = NoTopic
  <2>1. PICK slotOf, res : bindings = [m \in Nodes |-> Available(slotOf[m], res)]
    BY DEF CreationInit
  <2> QED  BY <2>1 DEF Available, NewRecord
<1>2. ASSUME NEW t \in Topics PROVE TopicState(t)
  BY <1>1, ConstantsAssumption DEF CreationInit, TopicState, Bare, Holders
<1>3. ASSUME NEW r \in Requests PROVE Knows(r)
  BY DEF CreationInit, Knows, Unknown, NoFlow, Waiting, Starting, Preparing, Cleanup, Ended
<1> QED  BY <1>2, <1>3 DEF CreationInit, UInv

LEMMA UInvKept == CInv /\ UInv /\ [CreationNext]_allvars => UInv'
<1> SUFFICES ASSUME CInv, UInv, [CreationNext]_allvars PROVE UInv'
  OBVIOUS
<1>1. granted \subseteq granted'
  BY TableKept
<1>2. CASE UNCHANGED allvars
  <2>1. UNCHANGED vars /\ UNCHANGED <<receipt, saved, telegram, owner, flow, deletion>>
    BY <1>2 DEF allvars, creation
  <2>2. ASSUME NEW t \in Topics PROVE TopicState(t)'
    <3>1. Undisturbed(t) /\ TopicState(t)
      BY <2>1, NothingWritten DEF UInv
    <3> QED  BY <1>1, <2>1, <3>1, TopicFrame
  <2>3. ASSUME NEW r \in Requests PROVE Knows(r)'
    BY <2>1 DEF UInv, Knows
  <2> QED  BY <2>1, <2>2, <2>3 DEF UInv
<1>3. CASE CreationNext
  BY <1>1, <1>3, ServeAccounts, DeliveriesAccount, DeletionsAccount DEF CreationNext
<1> QED  BY <1>2, <1>3

(* What is left of every Topic is accounted for.                           *)
THEOREM EveryTopicAccounted == CreationSpec => []UInv
<1>1. CreationInit => UInv
  BY UInvInitially
<1>2. CInv /\ UInv /\ [CreationNext]_allvars => UInv'
  BY UInvKept
<1> QED  BY <1>1, <1>2, CreationInvariant, PTL DEF CreationSpec

(* A request that is recorded as failed has left no route, no Worker and   *)
(* no Topic that it knows of, whatever was interrupted, delivered again or *)
(* deleted beside it.                                                      *)
THEOREM FailedIsClean == CreationSpec => []FailedLeavesNothing
<1>1. CInv /\ UInv => FailedLeavesNothing
  BY DEF UInv, TopicState, Accounted, Bare, FailedLeavesNothing
<1> QED  BY <1>1, EveryTopicAccounted, CreationInvariant, PTL

-----------------------------------------------------------------------------
(* Only recording its completion ends a creation as done, and only an      *)
(* acknowledgement ends one as reused.                                     *)
LEMMA EndsAsDone ==
    ASSUME CInv, [CreationNext]_allvars, NEW r \in Requests,
           \/ flow[r].pc = "complete" /\ flow'[r].pc = "done"
           \/ flow[r].pc = "canonical" /\ flow'[r].pc = "reused"
    PROVE  \/ flow[r].pc = "complete" /\ RecordCompleted(r)
           \/ flow[r].pc = "canonical" /\ Acknowledge(r) /\ flow'[r].pc = "reused"
<1>0. flow \in [Requests -> Delivery]
  BY DEF CInv, Typed
<1>1. ASSUME NEW q \in Requests, Serve(q) PROVE r = q \/ flow'[r] = flow[r]
  BY <1>0, <1>1 DEF Serve, BeginCreation, VerifyWorker, RecordPrepared, CreateForumTopic, Drop,
     RecordThread, LookUp, Acknowledge, ClaimWorker, AdoptSession, Activate, PrepareFails,
     SaveBinding, RecordCompleted, RecordCleaning, BeginRetire, FinishRetire, DeleteForumTopic,
     RemoveBinding, RecordFailed, CleanupFails, Go, Settle
<1>2. CASE Serve(r)
  <2>1. /\ BeginCreation(r) => flow[r].pc = "queued"
        /\ VerifyWorker(r) => flow[r].pc = "verify"
        /\ RecordPrepared(r) => flow[r].pc = "note"
        /\ CreateForumTopic(r) => flow[r].pc = "create"
        /\ Drop(r) => flow[r].pc = "drop"
        /\ RecordThread(r) => flow[r].pc = "thread"
        /\ LookUp(r) => flow[r].pc = "look"
        /\ Acknowledge(r) => flow[r].pc = "canonical"
        /\ ClaimWorker(r) => flow[r].pc = "prepare"
    BY DEF BeginCreation, VerifyWorker, RecordPrepared, CreateForumTopic, Drop, RecordThread,
       LookUp, Acknowledge, ClaimWorker
  <2>2. /\ AdoptSession(r) \/ Activate(r) \/ PrepareFails(r) => flow[r].pc \in {"session", "activate"}
        /\ SaveBinding(r) => flow[r].pc = "save"
        /\ RecordCompleted(r) => flow[r].pc = "complete"
        /\ RecordCleaning(r) => flow[r].pc = "cleaning"
        /\ BeginRetire(r) \/ FinishRetire(r) => flow[r].pc \in {"retire", "recycle"}
        /\ DeleteForumTopic(r) => flow[r].pc = "untopic"
        /\ RemoveBinding(r) => flow[r].pc = "unsave"
        /\ RecordFailed(r) => flow[r].pc = "close"
        /\ CleanupFails(r) => flow[r].pc \in {"retire", "recycle", "untopic", "unsave"}
    BY DEF AdoptSession, Activate, PrepareFails, SaveBinding, RecordCompleted, RecordCleaning,
       BeginRetire, FinishRetire, DeleteForumTopic, RemoveBinding, RecordFailed, CleanupFails
  <2> QED  BY <1>2, <2>1, <2>2 DEF Serve
<1>3. ASSUME NEW q \in Requests, Deliver(q) PROVE r # q /\ flow'[r] = flow[r]
  BY <1>0, <1>3 DEF Deliver, Ended
<1>4. CASE Restart
  BY <1>4 DEF Restart, NoFlow
<1>5. ASSUME NEW t \in Topics, BeginDelete(t) \/ DeleteStep(t) PROVE flow' = flow
  BY <1>5 DEF BeginDelete, DeleteStep
<1>6. CASE UNCHANGED allvars
  BY <1>6 DEF allvars, creation
<1> QED  BY <1>1, <1>2, <1>3, <1>4, <1>5, <1>6 DEF CreationNext

(* A request that is answered as successful has its Topic, its route and a *)
(* ready Worker, unless a deletion came in between.                        *)
THEOREM SuccessIsReal == CreationSpec => SuccessIsUsable
<1>1. ASSUME CInv, UInv, [CreationNext]_allvars, NEW r \in Requests, NEW t, t = flow[r].thread
      PROVE  /\ flow[r].pc = "complete" /\ flow'[r].pc = "done" /\ deletion[t] = "none" => Usable(t)
             /\ flow[r].pc = "canonical" /\ flow'[r].pc = "reused" /\ ~Deleting(t) => Usable(t)
  <2>0. Knows(r) /\ flow \in [Requests -> Delivery]
    BY <1>1 DEF UInv, CInv, Typed
  <2>1. flow[r].pc \in {"complete", "canonical"} => t \in Topics /\ Accounted(r, t)
    <3>1. flow[r].pc \in {"complete", "canonical"} => t \in Topics /\ owner[t] = r
      BY <1>1, <2>0, OwnTopic DEF Knows
    <3> QED  BY <1>1, <3>1, CreationAssumption DEF UInv, TopicState
  <2>2. ReadyHolder(t) => Holders(t) # {}
    BY DEF ReadyHolder
  <2>3. CASE flow[r].pc = "complete" /\ deletion[t] = "none"
    BY <2>1, <2>2, <2>3 DEF Accounted, Usable
  <2>4. CASE flow[r].pc = "canonical" /\ flow'[r].pc = "reused"
    <3>1. ReadyHolder(flow[r].thread)
      <4>1. Acknowledge(r)
        BY <1>1, <2>4, EndsAsDone
      <4>2. \A pc : Settle(r, pc) => flow'[r].pc = pc
        BY <2>0 DEF Settle, NoFlow
      <4> QED  BY <2>4, <4>1, <4>2 DEF Acknowledge
    <3>2. ReadyHolder(t)
      BY <1>1, <3>1, Zenon
    <3> QED  BY <2>1, <2>2, <2>4, <3>2 DEF Accounted, Usable
  <2> QED  BY <2>3, <2>4
<1>2. CInv /\ UInv /\ [CreationNext]_allvars =>
        [\A r \in Requests : LET t == flow[r].thread IN
          /\ flow[r].pc = "complete" /\ flow'[r].pc = "done" /\ deletion[t] = "none" => Usable(t)
          /\ flow[r].pc = "canonical" /\ flow'[r].pc = "reused" /\ ~Deleting(t) => Usable(t)]_allvars
  BY <1>1
<1> QED
  BY <1>2, EveryTopicAccounted, CreationInvariant, PTL DEF CreationSpec, SuccessIsUsable

=============================================================================
