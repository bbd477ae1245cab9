---------------------------- MODULE TopicCreation ----------------------------
(***************************************************************************)
(* createRemoteTopicSession() of control-plane/topic-node-lifecycle.ts,    *)
(* the receipts of control-plane/node-bindings.ts it writes, and the       *)
(* deletion of a Topic that may run beside it.                             *)
(*                                                                         *)
(* A request (a chat and an update of Telegram) may be delivered again at  *)
(* any time; while its first delivery is in progress the second one shares *)
(* its promise.  Requests of one chat are served one after the other.  The *)
(* process may stop between any two awaits: only the receipts, the table   *)
(* of Workers, the saved Topic bindings and Telegram itself survive.       *)
(*                                                                         *)
(* How a Worker is verified, prepared and recycled is the subject of       *)
(* TopicNodeLifecycle; here each is one transaction of the table that      *)
(* succeeds or fails.                                                      *)
(***************************************************************************)
EXTENDS NodeBindings, Sequences

CONSTANTS
    Requests,       \* updates that ask for a new Topic, as <<chat, key>>
    NoRequest       \* owner of a Topic that was not created yet

ASSUME CreationAssumption == NoRequest \notin Requests

Chat(r) == r[1]
Chats == {Chat(r) : r \in Requests}

VARIABLES
    receipt,        \* durable: what is known of each request
    saved,          \* durable: Topics with a product binding, and so a route
    telegram,       \* Topics that exist in Telegram
    owner,          \* history: the request a Topic was created for
    line,           \* chatCreations: requests of a chat, in order of arrival
    flow,           \* the delivery in progress of each request
    deletion        \* the deletion of each Topic: where it stands

creation == <<receipt, saved, telegram, owner, line, flow, deletion>>
allvars == <<vars, creation>>

NoIdentity == [node |-> "none", gen |-> 0]

(* TopicCreation: a thread and a Worker once they are known, and how far   *)
(* it came.                                                                *)
Unknown == [known |-> FALSE, thread |-> NoTopic, prepared |-> NoIdentity,
            completed |-> FALSE, cleaning |-> FALSE, failed |-> FALSE]

(* A delivery: what the code holds in local variables across awaits.       *)
NoFlow == [pc |-> "idle", fresh |-> FALSE, thread |-> NoTopic, prepared |-> NoIdentity]

Ended == {"idle", "refused", "done", "reused"}

Go(r, pc) == flow' = [flow EXCEPT ![r].pc = pc]

Amend(r, patched) == receipt' = [receipt EXCEPT ![r] = patched]

(* The promise of a request settles: the next one of its chat goes on.     *)
Settle(r, pc) ==
    /\ flow' = [flow EXCEPT ![r] = [NoFlow EXCEPT !.pc = pc]]
    /\ line' = [line EXCEPT ![Chat(r)] = Tail(@)]

(* Workers that the pool has made available.                               *)
Available(s, res) ==
    [NewRecord("available", s, NoTopic) EXCEPT !.resources = res]

CreationInit ==
    /\ \E slotOf \in Bijection(Nodes, 1..Cardinality(Nodes)), res \in Resources :
          bindings = [n \in Nodes |-> Available(slotOf[n], res)]
    /\ clustered = TRUE
    /\ granted = {IdentityOf(n, bindings[n]) : n \in Nodes}
    /\ receipt = [r \in Requests |-> Unknown]
    /\ saved = {} /\ telegram = {}
    /\ owner = [t \in Topics |-> NoRequest]
    /\ line = [c \in Chats |-> <<>>]
    /\ flow = [r \in Requests |-> NoFlow]
    /\ deletion = [t \in Topics |-> "none"]

-----------------------------------------------------------------------------
Deliver(r) ==
    /\ flow[r].pc \in Ended
    /\ flow' = [flow EXCEPT ![r] = [NoFlow EXCEPT !.pc = "queued"]]
    /\ line' = [line EXCEPT ![Chat(r)] = Append(@, r)]
    /\ UNCHANGED <<vars, receipt, saved, telegram, owner, deletion>>

(* Mutant: a receipt without a thread is taken for one that never began.   *)
BeginCreation_Replays(r) ==
    LET known == receipt[r] IN
    /\ flow[r].pc = "queued" /\ Head(line[Chat(r)]) = r
    /\ Amend(r, [known EXCEPT !.known = TRUE])
    /\ IF known.failed THEN Settle(r, "refused")
       ELSE /\ flow' = [flow EXCEPT ![r] = [pc |-> IF known.cleaning THEN "cleaning"
                                                  ELSE IF known.thread = NoTopic THEN "verify"
                                                  ELSE "look",
                                            fresh |-> ~known.known, thread |-> known.thread,
                                            prepared |-> NoIdentity]]
            /\ UNCHANGED line
    /\ UNCHANGED <<vars, saved, telegram, owner, deletion>>

(* Unknown external results are never replayed, and an interrupted cleanup *)
(* may only be finished.                                                   *)
BeginCreation(r) ==
    LET known == receipt[r] IN
    /\ flow[r].pc = "queued" /\ Head(line[Chat(r)]) = r
    /\ Amend(r, [known EXCEPT !.known = TRUE])
    /\ IF known.failed \/ (known.known /\ known.thread = NoTopic) THEN Settle(r, "refused")
       ELSE /\ flow' = [flow EXCEPT ![r] = [pc |-> IF known.cleaning THEN "cleaning"
                                                  ELSE IF known.thread = NoTopic THEN "verify"
                                                  ELSE "look",
                                            fresh |-> ~known.known, thread |-> known.thread,
                                            prepared |-> NoIdentity]]
            /\ UNCHANGED line
    /\ UNCHANGED <<vars, saved, telegram, owner, deletion>>

VerifyWorker(r) ==
    /\ flow[r].pc = "verify"
    /\ \/ Go(r, "drop")
       \/ \E n \in Nodes :
            /\ IdleInSlot(n)
            /\ flow' = [flow EXCEPT ![r].pc = "note",
                                    ![r].prepared = [node |-> n, gen |-> bindings[n].gen]]
    /\ UNCHANGED <<vars, receipt, saved, telegram, owner, line, deletion>>

RecordPrepared(r) ==
    /\ flow[r].pc = "note"
    /\ Amend(r, [receipt[r] EXCEPT !.prepared = flow[r].prepared])
    /\ Go(r, "create")
    /\ UNCHANGED <<vars, saved, telegram, owner, line, deletion>>

(* Telegram may refuse, or create the Topic and lose the answer.           *)
CreateForumTopic(r) ==
    /\ flow[r].pc = "create"
    /\ \/ \E t \in {u \in Topics : owner[u] = NoRequest} :
            /\ owner' = [owner EXCEPT ![t] = r]
            /\ telegram' = telegram \cup {t}
            /\ flow' = [flow EXCEPT ![r].pc = "thread", ![r].thread = t]
       \/ \E t \in {u \in Topics : owner[u] = NoRequest} :
            /\ owner' = [owner EXCEPT ![t] = r]
            /\ telegram' = telegram \cup {t}
            /\ Go(r, "drop")
       \/ Go(r, "drop") /\ UNCHANGED <<telegram, owner>>
    /\ UNCHANGED <<vars, receipt, saved, line, deletion>>

(* No Topic is known to exist: there is nothing to clean up.               *)
Drop(r) ==
    /\ flow[r].pc = "drop"
    /\ Amend(r, [receipt[r] EXCEPT !.failed = TRUE])
    /\ Settle(r, "refused")
    /\ UNCHANGED <<vars, saved, telegram, owner, deletion>>

RecordThread(r) ==
    /\ flow[r].pc = "thread"
    /\ \/ Amend(r, [receipt[r] EXCEPT !.thread = flow[r].thread]) /\ Go(r, "look")
       \/ Go(r, "cleaning") /\ UNCHANGED receipt
    /\ UNCHANGED <<vars, saved, telegram, owner, line, deletion>>

-----------------------------------------------------------------------------
(* Mutant: a completed receipt whose Topic was deleted is prepared again.  *)
LookUp_Reopens(r) ==
    /\ flow[r].pc = "look"
    /\ Go(r, IF ~flow[r].fresh /\ flow[r].thread \in saved THEN "canonical" ELSE "prepare")
    /\ UNCHANGED <<vars, receipt, saved, telegram, owner, line, deletion>>

(* The product binding is looked up; a redelivery that finds one only      *)
(* acknowledges it.                                                        *)
LookUp(r) ==
    /\ flow[r].pc = "look"
    /\ IF ~flow[r].fresh /\ flow[r].thread \in saved
       THEN Go(r, "canonical") /\ UNCHANGED line
       ELSE IF receipt[r].completed THEN Settle(r, "refused")
       ELSE Go(r, "prepare") /\ UNCHANGED line
    /\ UNCHANGED <<vars, receipt, saved, telegram, owner, deletion>>

ServedAs(t, id) == \E n \in Holders(t) : n = id.node /\ bindings[n].gen = id.gen
ReadyHolder(t) == \E n \in Holders(t) : bindings[n].status = "ready" /\ bindings[n].session

(* Mutant: the product binding is enough to acknowledge the request.       *)
Acknowledge_TrustsTheRoute(r) ==
    /\ flow[r].pc = "canonical"
    /\ Settle(r, "reused")
    /\ UNCHANGED <<vars, receipt, saved, telegram, owner, deletion>>

Acknowledge(r) ==
    /\ flow[r].pc = "canonical"
    /\ LET t == flow[r].thread IN
       Settle(r, IF /\ ReadyHolder(t)
                    /\ receipt[r].completed => ServedAs(t, receipt[r].prepared)
                 THEN "reused" ELSE "refused")
    /\ UNCHANGED <<vars, receipt, saved, telegram, owner, deletion>>

(* The Worker to prepare: the one just verified, or the one the receipt    *)
(* names, at the generation verified or the next.                          *)
Candidates(r) ==
    IF flow[r].prepared # NoIdentity THEN {flow[r].prepared}
    ELSE {[node |-> n, gen |-> bindings[n].gen] : n \in {m \in Nodes :
            m = receipt[r].prepared.node
            /\ bindings[m].gen \in {receipt[r].prepared.gen, receipt[r].prepared.gen + 1}}}

(* Mutant: the Worker is claimed although it was given away since.         *)
ClaimWorker_AnyGeneration(r) ==
    /\ flow[r].pc = "prepare"
    /\ \E w \in Candidates(r), n \in Nodes :
          /\ n = w.node /\ Holders(flow[r].thread) = {}
          /\ Bind(n, flow[r].thread)
          /\ flow' = [flow EXCEPT ![r].pc = "session",
                                  ![r].prepared = [node |-> n, gen |-> bindings'[n].gen]]
    /\ UNCHANGED <<clustered, receipt, saved, telegram, owner, line, deletion>>

(* ensureReady() claims that Worker, or finds the Topic bound to it.       *)
ClaimWorker(r) ==
    /\ flow[r].pc = "prepare"
    /\ \/ \E w \in Candidates(r), n \in Nodes : LET t == flow[r].thread IN
            /\ n = w.node
            /\ \/ \E res \in Resources :
                    ReservePrepared(t, [node |-> n, gen |-> w.gen, topic |-> NoTopic], res)
               \/ /\ n \in Holders(t) /\ bindings[n].gen \in {w.gen, w.gen + 1}
                  /\ bindings[n].status # "retiring"
                  /\ UNCHANGED vars
            /\ flow' = [flow EXCEPT ![r].pc = "session",
                                    ![r].prepared = [node |-> n, gen |-> bindings'[n].gen]]
       \/ Go(r, "cleaning") /\ UNCHANGED vars
    /\ UNCHANGED <<receipt, saved, telegram, owner, line, deletion>>

(* The Worker is provisioned, and its session recorded; then it is ready.  *)
Prepared(r) == [node |-> flow[r].prepared.node, gen |-> flow[r].prepared.gen,
                topic |-> flow[r].thread]

AdoptSession(r) ==
    /\ flow[r].pc = "session"
    /\ UpdateSession(Prepared(r))
    /\ Go(r, "activate")
    /\ UNCHANGED <<receipt, saved, telegram, owner, line, deletion>>

Activate(r) ==
    /\ flow[r].pc = "activate"
    /\ UpdateStatus(Prepared(r), "ready")
    /\ Go(r, "save")
    /\ UNCHANGED <<receipt, saved, telegram, owner, line, deletion>>

(* A failure is recorded, unless the Worker is no longer the Topic's.      *)
PrepareFails(r) ==
    /\ flow[r].pc \in {"session", "activate"}
    /\ IF flow[r].prepared.node \in Holders(flow[r].thread) /\ Current(Prepared(r))
       THEN UpdateStatus(Prepared(r), "failed") ELSE UNCHANGED vars
    /\ Go(r, "cleaning")
    /\ UNCHANGED <<receipt, saved, telegram, owner, line, deletion>>

SaveBinding(r) ==
    /\ flow[r].pc = "save"
    /\ \/ saved' = saved \cup {flow[r].thread} /\ Go(r, "complete")
       \/ Go(r, "cleaning") /\ UNCHANGED saved
    /\ UNCHANGED <<vars, receipt, telegram, owner, line, deletion>>

RecordCompleted(r) ==
    /\ flow[r].pc = "complete"
    /\ \/ /\ Amend(r, [receipt[r] EXCEPT !.completed = TRUE, !.prepared = flow[r].prepared])
          /\ Settle(r, "done")
       \/ Go(r, "cleaning") /\ UNCHANGED <<receipt, line>>
    /\ UNCHANGED <<vars, saved, telegram, owner, deletion>>

-----------------------------------------------------------------------------
(* cleanup(): the irreversible phase is recorded before anything external. *)
(* Mutant: the Worker is left to the next reconciliation.                  *)
RecordCleaning_KeepsWorker(r) ==
    /\ flow[r].pc = "cleaning"
    /\ Amend(r, [receipt[r] EXCEPT !.cleaning = TRUE])
    /\ Go(r, "untopic")
    /\ UNCHANGED <<vars, saved, telegram, owner, line, deletion>>

RecordCleaning(r) ==
    /\ flow[r].pc = "cleaning"
    /\ Amend(r, [receipt[r] EXCEPT !.cleaning = TRUE])
    /\ Go(r, "retire")
    /\ UNCHANGED <<vars, saved, telegram, owner, line, deletion>>

(* retire(): a Topic without a Worker is retired already.                  *)
RetireWorker(t) ==
    \/ Holders(t) = {} /\ UNCHANGED vars
    \/ \E n \in Holders(t) : BeginRecycle(IdentityOf(n, bindings[n]))

Recycled(t) ==
    \E n \in Nodes : /\ bindings[n].status = "retiring"
                     /\ [node |-> n, gen |-> bindings[n].gen - 1, topic |-> t] \in granted
                     /\ CompleteRecycle(IdentityOf(n, bindings[n]))

BeginRetire(r) ==
    /\ flow[r].pc = "retire"
    /\ RetireWorker(flow[r].thread)
    /\ Go(r, IF Holders(flow[r].thread) = {} THEN "untopic" ELSE "recycle")
    /\ UNCHANGED <<receipt, saved, telegram, owner, line, deletion>>

FinishRetire(r) ==
    /\ flow[r].pc = "recycle"
    /\ Recycled(flow[r].thread)
    /\ Go(r, "untopic")
    /\ UNCHANGED <<receipt, saved, telegram, owner, line, deletion>>

(* Telegram deletes the Topic, or it is gone already; only then is the     *)
(* product binding removed.                                                *)
DeleteForumTopic(r) ==
    /\ flow[r].pc = "untopic"
    /\ telegram' = telegram \ {flow[r].thread}
    /\ Go(r, "unsave")
    /\ UNCHANGED <<vars, receipt, saved, owner, line, deletion>>

RemoveBinding(r) ==
    /\ flow[r].pc = "unsave"
    /\ saved' = saved \ {flow[r].thread}
    /\ Go(r, "close")
    /\ UNCHANGED <<vars, receipt, telegram, owner, line, deletion>>

RecordFailed(r) ==
    /\ flow[r].pc = "close"
    /\ Amend(r, [receipt[r] EXCEPT !.failed = TRUE])
    /\ Settle(r, "refused")
    /\ UNCHANGED <<vars, saved, telegram, owner, deletion>>

(* Mutant: a cleanup that fails holds up the chat.                         *)
CleanupFails_HoldsTheLine(r) ==
    /\ flow[r].pc \in {"retire", "recycle", "untopic", "unsave"}
    /\ flow' = [flow EXCEPT ![r] = [NoFlow EXCEPT !.pc = "refused"]]
    /\ UNCHANGED <<vars, receipt, saved, telegram, owner, line, deletion>>

(* A cleanup that fails is left to the next delivery.                      *)
CleanupFails(r) ==
    /\ flow[r].pc \in {"retire", "recycle", "untopic", "unsave"}
    /\ Settle(r, "refused")
    /\ UNCHANGED <<vars, receipt, saved, telegram, owner, deletion>>

-----------------------------------------------------------------------------
(* The deletion of a Topic that has a product binding.  It stops at the    *)
(* step that fails, and the binding is retained for a retry.               *)
Deleting(t) == deletion[t] \in {"retire", "recycle", "untopic", "unsave"}
Deletes(t, pc) == deletion' = [deletion EXCEPT ![t] = pc]

BeginDelete(t) ==
    /\ t \in saved /\ ~Deleting(t)
    /\ Deletes(t, "retire")
    /\ UNCHANGED <<vars, receipt, saved, telegram, owner, line, flow>>

DeleteStep(t) ==
    /\ \/ /\ deletion[t] = "retire"
          /\ RetireWorker(t)
          /\ Deletes(t, IF Holders(t) = {} THEN "untopic" ELSE "recycle")
          /\ UNCHANGED <<telegram, saved>>
       \/ /\ deletion[t] = "recycle"
          /\ Recycled(t)
          /\ Deletes(t, "untopic")
          /\ UNCHANGED <<telegram, saved>>
       \/ /\ deletion[t] = "untopic"
          /\ telegram' = telegram \ {t}
          /\ Deletes(t, "unsave")
          /\ UNCHANGED <<vars, saved>>
       \/ /\ deletion[t] = "unsave"
          /\ saved' = saved \ {t}
          /\ Deletes(t, "done")
          /\ UNCHANGED <<vars, telegram>>
       \/ /\ Deleting(t)
          /\ Deletes(t, "failed")
          /\ UNCHANGED <<vars, telegram, saved>>
    /\ UNCHANGED <<receipt, owner, line, flow>>

(* The process stops and is started again.                                 *)
Restart ==
    /\ line' = [c \in Chats |-> <<>>]
    /\ flow' = [r \in Requests |-> NoFlow]
    /\ deletion' = [t \in Topics |-> IF Deleting(t) THEN "failed" ELSE deletion[t]]
    /\ UNCHANGED <<vars, receipt, saved, telegram, owner>>

(* A Worker whose recycling was interrupted is recovered by the operator   *)
(* or not at all; no step of a creation does it.                           *)
Serve(r) ==
    \/ BeginCreation(r) \/ VerifyWorker(r) \/ RecordPrepared(r) \/ CreateForumTopic(r) \/ Drop(r)
    \/ RecordThread(r) \/ LookUp(r) \/ Acknowledge(r) \/ ClaimWorker(r)
    \/ AdoptSession(r) \/ Activate(r) \/ PrepareFails(r) \/ SaveBinding(r) \/ RecordCompleted(r)
    \/ RecordCleaning(r) \/ BeginRetire(r) \/ FinishRetire(r) \/ DeleteForumTopic(r)
    \/ RemoveBinding(r) \/ RecordFailed(r) \/ CleanupFails(r)

CreationNext ==
    \/ \E r \in Requests : Deliver(r) \/ Serve(r)
    \/ \E t \in Topics : BeginDelete(t) \/ DeleteStep(t)
    \/ Restart

CreationSpec == CreationInit /\ [][CreationNext]_allvars
FairCreationSpec == CreationSpec /\ \A r \in Requests : WF_allvars(Serve(r))

-----------------------------------------------------------------------------
Steps == Ended \cup {"queued", "verify", "note", "create", "drop", "thread", "look", "canonical",
                     "prepare", "session", "activate", "save", "complete", "cleaning", "retire", "recycle",
                     "untopic", "unsave", "close"}

(* A creation works on the table only through the operations of its store. *)
TableUsed == [][Next]_vars

(* However often a request is delivered, wherever the process stopped and  *)
(* whatever answer of Telegram was lost, it creates at most one Topic      *)
(* (beginCreation: unknown external results are never blindly replayed).   *)
OneTopicPerRequest ==
    \A t, u \in Topics : owner[t] = owner[u] /\ owner[t] # NoRequest => t = u

(* A request whose receipt says failed has left nothing behind: no route,  *)
(* no Worker, and no Topic that it knows of.                               *)
FailedLeavesNothing ==
    \A t \in Topics : owner[t] # NoRequest /\ receipt[owner[t]].failed =>
        /\ t \notin saved
        /\ Holders(t) = {}
        /\ receipt[owner[t]].thread = t => t \notin telegram

(* Once a receipt is completed, or its cleanup has begun, no delivery      *)
(* gives the Topic a Worker again (docs/RAILWAY.md: completed receipts     *)
(* cannot resurrect a deleted Worker generation; cleanup(): an interrupted *)
(* retry may only finish cleanup, never allocate another Worker).          *)
NoResurrection ==
    [][\A t \in Topics :
        /\ owner[t] # NoRequest
        /\ receipt[owner[t]].completed \/ receipt[owner[t]].cleaning
        => Holders(t)' \subseteq Holders(t)]_allvars

(* A request reported as successful has its Topic, its route and a ready   *)
(* Worker: a new one unless a deletion has begun since the route was       *)
(* saved, and one acknowledged to a redelivery unless it is being deleted  *)
(* at that very moment.                                                    *)
Usable(t) == t \in telegram /\ t \in saved /\ ReadyHolder(t)

SuccessIsUsable ==
    [][\A r \in Requests : LET t == flow[r].thread IN
        /\ flow[r].pc = "complete" /\ flow'[r].pc = "done" /\ deletion[t] = "none" => Usable(t)
        /\ flow[r].pc = "canonical" /\ flow'[r].pc = "reused" /\ ~Deleting(t) => Usable(t)]_allvars

(* Every delivery is answered, also when the one before it in its chat     *)
(* fails.                                                                  *)
DeliveriesEnd == \A r \in Requests : []<>(flow[r].pc \in Ended)

=============================================================================
