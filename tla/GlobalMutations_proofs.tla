----------------------- MODULE GlobalMutations_proofs -----------------------
(* Proofs about the approved Global mutations: for every set of approvals and *)
(* callers and any contents, an approved change is started at most once, the  *)
(* ledger agrees with the receipts, and activeCommits names the attempts that *)
(* are under way. The inductive invariant adds to these what a call that is   *)
(* under way knows of its approval, and what the startup recovery has found.  *)
EXTENDS GlobalMutations, TLAPS

Busy(c) == calls[c].step # "idle"

(* A call under way owns its approval: activeCommits and the ledger name its *)
(* attempt, until a commit whose answer was lost removes it from the ledger. *)
WorkersOwn ==
    \A c \in Callers : Busy(c) =>
      /\ calls[c].attempt # 0
      /\ active[calls[c].approval] = calls[c].attempt
      /\ \/ /\ ledger[calls[c].approval].status = "committing"
            /\ ledger[calls[c].approval].attempt = calls[c].attempt
         \/ /\ ledger[calls[c].approval].status = "committed"
            /\ calls[c].step = "settling"
      /\ calls[c].step = "claimed" => runs[calls[c].approval] = 0
WorkersApart ==
    \A c, d \in Callers : Busy(c) /\ Busy(d) /\ calls[c].approval = calls[d].approval => c = d

(* The startup recovery runs alone, and records failures of attempts that    *)
(* were under way, each once at most.                                        *)
RecoveryAlone ==
    /\ phase = "recovering" => \A c \in Callers : ~Busy(c)
    /\ phase = "up" => recovered = {}
    /\ \A r \in recovered : r.entry.status = "failed" /\ ledger[r.approval].status = "committing"

MutationInv ==
    /\ MutationTypeOK /\ CommittedIffReceipt /\ ActiveIffWorking /\ RunsAtMostOnce
    /\ WorkersOwn /\ WorkersApart /\ RecoveryAlone

USE MutationAssumption

LEMMA RecordsTyped ==
    /\ Nothing \in Versions /\ Nothing.bytes = NoFile
    /\ NoCall \in Call /\ NoCall.step = "idle"
    /\ \A old \in Versions, bytes \in Contents, by \in Approvals \cup {Someone} :
          Put(old, bytes, by) \in Versions
<1>1. (CHOOSE a \in Approvals : TRUE) \in Approvals
  OBVIOUS
<1>2. Nothing \in Versions /\ Nothing.bytes = NoFile
  BY DEF Nothing, Versions, Contents
<1>3. NoCall \in Call /\ NoCall.step = "idle"
  BY <1>1 DEF NoCall, Call, Steps
<1>4. ASSUME NEW old \in Versions, NEW bytes \in Contents, NEW by \in Approvals \cup {Someone}
      PROVE  Put(old, bytes, by) \in Versions
  BY <1>4 DEF Put, Versions
<1> QED
  BY <1>2, <1>3, <1>4

LEMMA RollbacksTyped ==
    ASSUME MutationTypeOK, NEW a \in Approvals,
           NEW r \in Rollbacks(a) \cup {[ok |-> FALSE, file |-> file]}
    PROVE  r.file \in Versions /\ r.ok \in BOOLEAN
<1>1. ledger[a].before \in Versions
  BY DEF MutationTypeOK, Entries
<1>2. Restored(a) \in Versions /\ file \in Versions
  BY <1>1 DEF MutationTypeOK, Restored
<1>3. r \in {[ok |-> TRUE, file |-> Restored(a)], [ok |-> FALSE, file |-> file],
            [ok |-> FALSE, file |-> Restored(a)]}
  BY DEF Rollbacks
<1>4. CASE r = [ok |-> TRUE, file |-> Restored(a)]
  BY <1>2, <1>4
<1>5. CASE r = [ok |-> FALSE, file |-> file]
  BY <1>2, <1>5
<1>6. CASE r = [ok |-> FALSE, file |-> Restored(a)]
  BY <1>2, <1>6
<1> QED
  BY <1>3, <1>4, <1>5, <1>6

LEMMA CompletedTyped ==
    ASSUME NEW entry \in Entries
    PROVE  /\ Completed(entry) \in Entries /\ Completed(entry).status = "committed"
           /\ Completed(entry).attempt = 0 /\ Completed(entry).before = Nothing
<1>1. Nothing \in Versions
  BY RecordsTyped
<1>2. /\ Completed(entry).status = "committed"
      /\ Completed(entry).attempt = 0 /\ Completed(entry).before = Nothing
  BY DEF Entries, Completed
<1>3. Completed(entry) \in Entries
  <2>1. entry.bound \in BOOLEAN /\ 0 \in 0..MaxAttempts /\ "committed" \in Statuses
    BY DEF Entries, Statuses
  <2> QED
    BY <1>1, <2>1 DEF Entries, Completed
<1> QED
  BY <1>2, <1>3

LEMMA FailedTyped ==
    ASSUME NEW entry \in Entries, NEW a \in Approvals, NEW ok \in BOOLEAN
    PROVE  /\ Failed(entry, ok, a) \in Entries /\ Failed(entry, ok, a).status = "failed"
           /\ Failed(entry, ok, a).attempt = entry.attempt
<1>1. (~ok /\ a \notin Toggles) \in BOOLEAN
  OBVIOUS
<1> QED
  BY <1>1 DEF Entries, Statuses, Failed

LEMMA InvInitially == MutationInit => MutationInv
<1> SUFFICES ASSUME MutationInit PROVE MutationInv
  OBVIOUS
<1>1. MutationTypeOK
  BY RecordsTyped DEF MutationInit, MutationTypeOK, Entries, Statuses
<1> QED
  BY <1>1, RecordsTyped DEF MutationInit, MutationInv, CommittedIffReceipt, ActiveIffWorking,
     RunsAtMostOnce, WorkersOwn, WorkersApart, RecoveryAlone, Busy

(* Steps that change only the ledger entry of an approval nobody works on,   *)
(* from outside an attempt to outside an attempt.                            *)
LEMMA EnterKeeps ==
    ASSUME MutationInv, NEW a \in Approvals, NEW entry \in Entries, Enter(a, entry),
           ledger[a].status \in {"none", "pending"},
           entry.status \in {"none", "pending", "approved", "rejected"},
           entry.attempt = 0, entry.before = Nothing
    PROVE  MutationInv'
<1>0. ledger' = [ledger EXCEPT ![a] = entry] /\ ledger'[a] = entry
  BY DEF Enter, MutationInv, MutationTypeOK
<1>1. MutationTypeOK'
  BY <1>0 DEF MutationInv, MutationTypeOK, Enter, memory
<1>2. CommittedIffReceipt' /\ ActiveIffWorking' /\ RunsAtMostOnce'
  BY <1>0 DEF MutationInv, MutationTypeOK, CommittedIffReceipt, ActiveIffWorking, RunsAtMostOnce, Enter, memory
<1>3. WorkersOwn' /\ WorkersApart' /\ RecoveryAlone'
  BY <1>0 DEF MutationInv, MutationTypeOK, WorkersOwn, WorkersApart, RecoveryAlone, Busy, Enter, memory, QueueFree
<1> QED
  BY <1>1, <1>2, <1>3 DEF MutationInv

(* Steps that touch nothing but the Skill, its snapshot and the clock. *)
LEMMA SkillStepsKeep ==
    ASSUME MutationInv, MutationTypeOK',
           UNCHANGED <<ledger, receipts, phase, recovered, active, calls, runs>>
    PROVE  MutationInv'
BY DEF MutationInv, CommittedIffReceipt, ActiveIffWorking, RunsAtMostOnce,
   WorkersOwn, WorkersApart, RecoveryAlone, Busy

LEMMA OtherWritersKeep ==
    ASSUME MutationInv,
           \/ \E a \in Approvals : Expire(a)
           \/ \E c \in Callers, a \in Approvals : Join(c, a)
           \/ \E bytes \in Contents : ExternalEdit(bytes)
           \/ \E bytes \in Contents, o \in Outcomes : UIWrite(bytes, o)
           \/ ReadSnapshot
    PROVE  MutationInv'
<1> USE DEF MutationInv, MutationTypeOK, memory, durable
<1>0. Someone \in Approvals \cup {Someone}
  OBVIOUS
<1>1. ASSUME NEW a \in Approvals, Expire(a) PROVE MutationInv'
  <2>1. MutationTypeOK'
    BY <1>1 DEF Expire
  <2> QED
    BY <1>1, <2>1, SkillStepsKeep DEF Expire
<1>2. ASSUME NEW c \in Callers, NEW a \in Approvals, Join(c, a) PROVE MutationInv'
  <2>1. MutationTypeOK'
    BY <1>2 DEF Join
  <2> QED
    BY <1>2, <2>1, SkillStepsKeep DEF Join
<1>3. ASSUME NEW bytes \in Contents, ExternalEdit(bytes) PROVE MutationInv'
  <2>1. MutationTypeOK'
    BY <1>0, <1>3, RecordsTyped DEF ExternalEdit
  <2> QED
    BY <1>3, <2>1, SkillStepsKeep DEF ExternalEdit
<1>4. ASSUME NEW bytes \in Contents, NEW o \in Outcomes, UIWrite(bytes, o) PROVE MutationInv'
  <2>1. MutationTypeOK'
    BY <1>0, <1>4, RecordsTyped DEF UIWrite, Write
  <2> QED
    BY <1>4, <2>1, SkillStepsKeep DEF UIWrite, Write
<1>5. ASSUME ReadSnapshot PROVE MutationInv'
  <2>1. MutationTypeOK'
    BY <1>5 DEF ReadSnapshot
  <2> QED
    BY <1>5, <2>1, SkillStepsKeep DEF ReadSnapshot
<1> QED
  BY <1>1, <1>2, <1>3, <1>4, <1>5

LEMMA ReplayKeeps ==
    ASSUME MutationInv, NEW c \in Callers, NEW a \in Approvals, Replay(c, a)
    PROVE  MutationInv'
<1> USE DEF Replay, memory
<1>0. /\ ledger[a] \in Entries /\ ledger[a].status = "committed" /\ ledger[a].attempt = 0
      /\ ledger' = [ledger EXCEPT ![a] = Completed(ledger[a])]
      /\ ledger'[a] = Completed(ledger[a])
  BY DEF MutationInv, MutationTypeOK, CommittedIffReceipt
<1>1. /\ Completed(ledger[a]) \in Entries /\ ledger'[a].status = "committed"
      /\ ledger'[a].attempt = 0 /\ ledger'[a].before = Nothing
  BY <1>0, CompletedTyped
<1>2. MutationTypeOK'
  BY <1>0, <1>1 DEF MutationInv, MutationTypeOK
<1>3. \A b \in Approvals : /\ ledger'[b].status = ledger[b].status
                           /\ ledger'[b].attempt = ledger[b].attempt
  BY <1>0, <1>1 DEF MutationInv, MutationTypeOK
<1>4. CommittedIffReceipt' /\ ActiveIffWorking' /\ RunsAtMostOnce'
  BY <1>3 DEF MutationInv, CommittedIffReceipt, ActiveIffWorking, RunsAtMostOnce
<1>5. WorkersOwn'
  <2> SUFFICES ASSUME NEW d \in Callers, Busy(d)
               PROVE  /\ calls[d].approval \in Approvals
                      /\ ledger'[calls[d].approval].status = ledger[calls[d].approval].status
                      /\ ledger'[calls[d].approval].attempt = ledger[calls[d].approval].attempt
    BY DEF MutationInv, WorkersOwn, Busy
  <2> QED
    BY <1>3 DEF MutationInv, MutationTypeOK, Call
<1>6. WorkersApart' /\ RecoveryAlone'
  BY <1>3 DEF MutationInv, MutationTypeOK, WorkersApart, RecoveryAlone, Busy, QueueFree
<1> QED
  BY <1>2, <1>4, <1>5, <1>6 DEF MutationInv

(* An approval under way that is not live belongs to no call. *)
LEMMA OrphansUnowned ==
    ASSUME MutationInv, NEW a \in Approvals, ledger[a].status = "committing", ~Live(a),
           NEW c \in Callers, Busy(c)
    PROVE  calls[c].approval # a
BY DEF MutationInv, WorkersOwn, Live

LEMMA BlockKeeps ==
    ASSUME MutationInv, NEW c \in Callers, NEW a \in Approvals, NEW r \in Rollbacks(a),
           NEW o \in Outcomes, Block(c, a, r, o)
    PROVE  MutationInv'
<1> USE DEF Block, memory
<1>0. /\ ledger[a] \in Entries /\ ledger[a].status = "committing" /\ ~Live(a)
      /\ r.file \in Versions /\ r.ok \in BOOLEAN
  BY RollbacksTyped DEF MutationInv, MutationTypeOK, CommittedIffReceipt
<1>1. CASE ~Kept(o)
  <2>1. MutationTypeOK'
    BY <1>0, <1>1 DEF MutationInv, MutationTypeOK, Write, durable
  <2> QED
    BY <1>1, <2>1, SkillStepsKeep DEF Write, durable
<1>2. CASE Kept(o)
  <2>0. /\ ledger' = [ledger EXCEPT ![a] = Failed(ledger[a], r.ok, a)]
        /\ ledger'[a] = Failed(ledger[a], r.ok, a)
        /\ receipts' = receipts /\ accepted' = file' /\ file' = r.file
    BY <1>2 DEF Write, RecoverOrphan, MutationInv, MutationTypeOK
  <2>1. /\ ledger'[a] \in Entries /\ ledger'[a].status = "failed"
        /\ ledger'[a].attempt = ledger[a].attempt
    BY <1>0, <2>0, FailedTyped
  <2>2. MutationTypeOK'
    BY <1>0, <2>0, <2>1 DEF MutationInv, MutationTypeOK
  <2>3. CommittedIffReceipt' /\ ActiveIffWorking' /\ RunsAtMostOnce'
    BY <1>0, <2>0, <2>1 DEF MutationInv, MutationTypeOK, CommittedIffReceipt, ActiveIffWorking, RunsAtMostOnce
  <2>4. WorkersOwn'
    <3> SUFFICES ASSUME NEW d \in Callers, Busy(d)
                 PROVE  /\ calls[d].approval \in Approvals
                        /\ ledger'[calls[d].approval] = ledger[calls[d].approval]
      BY DEF MutationInv, WorkersOwn, Busy
    <3> QED
      BY <1>0, <2>0, OrphansUnowned DEF MutationInv, MutationTypeOK, Call
  <2>5. WorkersApart' /\ RecoveryAlone'
    BY <2>0 DEF MutationInv, MutationTypeOK, WorkersApart, RecoveryAlone, Busy, QueueFree
  <2> QED
    BY <2>2, <2>3, <2>4, <2>5 DEF MutationInv
<1> QED
  BY <1>1, <1>2

LEMMA ClaimKeeps ==
    ASSUME MutationInv, NEW c \in Callers, NEW a \in Approvals, NEW o \in Outcomes, Claim(c, a, o)
    PROVE  MutationInv'
<1> USE DEF Claim, Claimable, Idle
<1>a. ledger[a].status = "approved" /\ a \notin receipts /\ minted < MaxAttempts /\ minted' = minted + 1
  OBVIOUS
<1>0. /\ ledger[a] \in Entries /\ ledger[a].status = "approved" /\ a \notin receipts
      /\ runs[a] = 0 /\ active[a] = 0
      /\ minted' = minted + 1 /\ minted' \in 1..MaxAttempts
      /\ \A d \in Callers : Busy(d) => calls[d].approval # a
  <2> HIDE DEF Claim
  <2>1. \A d \in Callers : Busy(d) => calls[d].approval # a
    BY <1>a DEF MutationInv, WorkersOwn
  <2>2. ledger[a] \in Entries /\ minted \in 0..MaxAttempts
    BY DEF MutationInv, MutationTypeOK
  <2>5. minted' \in 1..MaxAttempts
    BY <1>a, <2>2
  <2>6. runs[a] \in Nat
    BY DEF MutationInv, MutationTypeOK
  <2>7. runs[a] <= 1 /\ runs[a] # 1
    BY <1>a DEF MutationInv, RunsAtMostOnce
  <2>3. runs[a] = 0
    BY <2>6, <2>7
  <2>4. active[a] = 0
    BY <2>1 DEF MutationInv, ActiveIffWorking, Busy
  <2> QED
    BY <1>a, <2>1, <2>2, <2>3, <2>4, <2>5
<1> DEFINE entry == Claimed(a, minted')
<1>1. /\ entry \in Entries /\ entry.status = "committing" /\ entry.attempt = minted'
  <2>1. (IF a \in Journalled THEN file ELSE Nothing) \in Versions
    BY RecordsTyped DEF MutationInv, MutationTypeOK
  <2> DEFINE before == IF a \in Journalled THEN file ELSE Nothing
  <2>2. entry = [ledger[a] EXCEPT !.status = "committing", !.attempt = minted', !.before = before]
    BY DEF Claimed
  <2>3. minted' \in 0..MaxAttempts /\ ledger[a] \in Entries
    BY <1>0
  <2> HIDE DEF entry, before, Claim
  <2> QED
    BY <2>1, <2>2, <2>3 DEF Entries, Statuses, before
<1> HIDE DEF entry
<1>2. CASE o = "done"
  <2>1. /\ ledger' = [ledger EXCEPT ![a] = entry] /\ ledger'[a] = entry
        /\ receipts' = receipts /\ accepted' = file
        /\ active' = [active EXCEPT ![a] = minted'] /\ active'[a] = minted'
    BY <1>2 DEF Write, Kept, MutationInv, MutationTypeOK, entry
  <2> DEFINE call == [step |-> "claimed", approval |-> a, attempt |-> minted', restored |-> "unknown"]
  <2>2. calls' = [calls EXCEPT ![c] = call] /\ calls'[c] = call
    BY <1>2 DEF MutationInv, MutationTypeOK
  <2>3. call \in Call /\ call.step = "claimed" /\ call.approval = a /\ call.attempt = minted'
    BY <1>0 DEF Call, Steps
  <2> HIDE DEF call
  <2>4. MutationTypeOK'
    BY <1>0, <1>1, <2>1, <2>2, <2>3 DEF MutationInv, MutationTypeOK
  <2>5. CommittedIffReceipt' /\ RunsAtMostOnce'
    BY <1>0, <1>1, <2>1 DEF MutationInv, MutationTypeOK, CommittedIffReceipt, RunsAtMostOnce
  <2>6. \A d \in Callers : d # c => calls'[d] = calls[d]
    BY <2>2 DEF MutationInv, MutationTypeOK
  <2>7. WorkersOwn'
    <3> SUFFICES ASSUME NEW d \in Callers, d # c, Busy(d)
                 PROVE  /\ calls[d].approval \in Approvals
                        /\ ledger'[calls[d].approval] = ledger[calls[d].approval]
                        /\ active'[calls[d].approval] = active[calls[d].approval]
      BY <1>0, <1>1, <2>1, <2>2, <2>3, <2>6 DEF MutationInv, WorkersOwn, Busy
    <3> QED
      BY <1>0, <2>1 DEF MutationInv, MutationTypeOK, Call
  <2>8. WorkersApart'
    BY <1>0, <2>2, <2>3, <2>6 DEF MutationInv, WorkersApart, Busy
  <2>9. ActiveIffWorking'
    <3>1. \A b \in Approvals : b # a => active'[b] = active[b]
      BY <2>1 DEF MutationInv, MutationTypeOK
    <3> QED
      BY <1>0, <2>1, <2>2, <2>3, <2>6, <3>1 DEF MutationInv, ActiveIffWorking
  <2>10. RecoveryAlone'
    BY <1>0, <2>1 DEF MutationInv, MutationTypeOK, RecoveryAlone, QueueFree
  <2> QED
    BY <2>4, <2>5, <2>7, <2>8, <2>9, <2>10 DEF MutationInv
<1>3. CASE o = "late"
  <2>1. /\ ledger' = [ledger EXCEPT ![a] = entry] /\ ledger'[a] = entry
        /\ receipts' = receipts /\ accepted' = file /\ active' = active /\ calls' = calls
    BY <1>3 DEF Write, Kept, MutationInv, MutationTypeOK, entry
  <2>4. MutationTypeOK'
    BY <1>0, <1>1, <2>1 DEF MutationInv, MutationTypeOK
  <2>5. CommittedIffReceipt' /\ RunsAtMostOnce' /\ ActiveIffWorking'
    BY <1>0, <1>1, <2>1 DEF MutationInv, MutationTypeOK, CommittedIffReceipt, RunsAtMostOnce, ActiveIffWorking
  <2>7. WorkersOwn'
    <3> SUFFICES ASSUME NEW d \in Callers, Busy(d)
                 PROVE  /\ calls[d].approval \in Approvals
                        /\ ledger'[calls[d].approval] = ledger[calls[d].approval]
      BY <2>1 DEF MutationInv, WorkersOwn, Busy
    <3> QED
      BY <1>0, <2>1 DEF MutationInv, MutationTypeOK, Call
  <2>8. WorkersApart' /\ RecoveryAlone'
    BY <2>1 DEF MutationInv, MutationTypeOK, WorkersApart, RecoveryAlone, QueueFree, Busy
  <2> QED
    BY <2>4, <2>5, <2>7, <2>8 DEF MutationInv
<1>4. CASE o = "lost"
  <2>0. UNCHANGED <<ledger, receipts, accepted, active, calls>>
    BY <1>4 DEF Write, Kept, durable
  <2>1. MutationTypeOK'
    BY <1>0, <2>0 DEF MutationInv, MutationTypeOK
  <2> QED
    BY <2>0, <2>1, SkillStepsKeep
<1> QED
  BY <1>2, <1>3, <1>4 DEF Outcomes

(* A step of a call that keeps its approval and its attempt, and neither the *)
(* ledger nor activeCommits, keeps what every call knows.                    *)
LEMMA CallStepsKeep ==
    ASSUME MutationInv, MutationTypeOK', RunsAtMostOnce', NEW c \in Callers,
           UNCHANGED <<ledger, receipts, phase, recovered, active>>,
           phase = "up",
           NEW call \in Call, calls' = [calls EXCEPT ![c] = call],
           Busy(c), call.approval = calls[c].approval, call.attempt = calls[c].attempt,
           call.step \notin {"idle", "claimed"},
           ledger[call.approval].status = "committed" => call.step = "settling",
           \A b \in Approvals : b # call.approval => runs'[b] = runs[b]
    PROVE  MutationInv'
<1>0. calls'[c] = call /\ \A d \in Callers : d # c => calls'[d] = calls[d]
  BY DEF MutationInv, MutationTypeOK
<1>1. ActiveIffWorking'
  BY <1>0 DEF MutationInv, ActiveIffWorking, Busy
<1>2. WorkersOwn'
  <2> SUFFICES ASSUME NEW d \in Callers, d # c, Busy(d)
               PROVE  /\ calls[d].approval \in Approvals
                      /\ calls[d].approval # calls[c].approval
    BY <1>0 DEF MutationInv, WorkersOwn, Busy
  <2> QED
    BY DEF MutationInv, MutationTypeOK, Call, WorkersApart
<1>3. WorkersApart'
  BY <1>0 DEF MutationInv, WorkersApart, Busy
<1>4. CommittedIffReceipt' /\ RecoveryAlone'
  BY DEF MutationInv, CommittedIffReceipt, RecoveryAlone
<1> QED
  BY <1>1, <1>2, <1>3, <1>4 DEF MutationInv

(* What is known of the call of a step of the second transaction. *)
LEMMA WorkerFacts ==
    ASSUME MutationInv, NEW c \in Callers, Busy(c)
    PROVE  /\ calls[c] \in Call /\ calls[c].approval \in Approvals
           /\ ledger[calls[c].approval] \in Entries
           /\ phase = "up" /\ recovered = {}
           /\ ledger[calls[c].approval].status = "committed" => calls[c].step = "settling"
BY DEF MutationInv, MutationTypeOK, Call, RecoveryAlone, WorkersOwn

LEMMA BeginApplyKeeps ==
    ASSUME MutationInv, NEW c \in Callers, BeginApply(c)
    PROVE  MutationInv'
<1> USE DEF BeginApply, Goes, durable
<1> DEFINE a == calls[c].approval
           call == [calls[c] EXCEPT !.step = "applying"]
<1>1. /\ Busy(c) /\ calls[c].step = "claimed" /\ a \in Approvals /\ calls[c] \in Call
      /\ phase = "up" /\ ledger[a].status # "committed"
  BY WorkerFacts DEF Busy
<1>2. ledger[a].status = "committing" /\ runs[a] = 0
  BY <1>1 DEF MutationInv, WorkersOwn
<1>3. call \in Call /\ call.step = "applying" /\ call.approval = a /\ call.attempt = calls[c].attempt
  BY <1>1 DEF Steps, Call
<1>4. calls' = [calls EXCEPT ![c] = call] /\ runs' = [runs EXCEPT ![a] = 1]
  BY <1>2
<1> HIDE DEF a, call
<1>8. runs' \in [Approvals -> Nat]
  <2>1. runs \in [Approvals -> Nat] /\ 1 \in Nat
    BY DEF MutationInv, MutationTypeOK
  <2> QED
    BY <1>4, <2>1
<1>9. calls' \in [Callers -> Call]
  <2>1. calls \in [Callers -> Call]
    BY DEF MutationInv, MutationTypeOK
  <2> QED
    BY <1>3, <1>4, <2>1
<1>5. MutationTypeOK'
  BY <1>8, <1>9 DEF MutationInv, MutationTypeOK
<1>6. RunsAtMostOnce'
  BY <1>1, <1>2, <1>4 DEF MutationInv, MutationTypeOK, RunsAtMostOnce
<1>7. \A b \in Approvals : b # call.approval => runs'[b] = runs[b]
  BY <1>1, <1>3, <1>4 DEF MutationInv, MutationTypeOK
<1> QED
  BY <1>1, <1>3, <1>4, <1>5, <1>6, <1>7, CallStepsKeep DEF a

LEMMA ApplyWritesKeeps ==
    ASSUME MutationInv, NEW c \in Callers, ApplyWrites(c)
    PROVE  MutationInv'
<1> USE DEF ApplyWrites, Goes, durable
<1> DEFINE a == calls[c].approval
           call == [calls[c] EXCEPT !.step = "written"]
<1>1. /\ Busy(c) /\ a \in Approvals /\ calls[c] \in Call
      /\ phase = "up" /\ ledger[a].status # "committed"
  BY WorkerFacts DEF Busy
<1>3. call \in Call /\ call.step = "written" /\ call.approval = a /\ call.attempt = calls[c].attempt
  BY <1>1 DEF Steps, Call
<1>4. calls' = [calls EXCEPT ![c] = call]
  OBVIOUS
<1>2. file' \in Versions
  BY <1>1, RecordsTyped DEF MutationInv, MutationTypeOK, Contents
<1> HIDE DEF a, call
<1>5. MutationTypeOK'
  BY <1>2, <1>3, <1>4 DEF MutationInv, MutationTypeOK
<1>6. RunsAtMostOnce'
  BY DEF MutationInv, RunsAtMostOnce
<1> QED
  BY <1>1, <1>3, <1>4, <1>5, <1>6, CallStepsKeep DEF a

LEMMA ApplyFailsKeeps ==
    ASSUME MutationInv, NEW c \in Callers, NEW r \in Rollbacks(calls[c].approval), ApplyFails(c, r)
    PROVE  MutationInv'
<1> USE DEF ApplyFails, durable
<1> DEFINE a == calls[c].approval
           restored == IF r.ok THEN "yes" ELSE "no"
           call == [calls[c] EXCEPT !.step = "settling", !.restored = restored]
<1>1. Busy(c) /\ a \in Approvals /\ calls[c] \in Call /\ phase = "up"
  BY WorkerFacts DEF Busy
<1>7. restored \in {"unknown", "yes", "no"}
  OBVIOUS
<1> HIDE DEF restored
<1>3. call \in Call /\ call.step = "settling" /\ call.approval = a /\ call.attempt = calls[c].attempt
  BY <1>1, <1>7 DEF Steps, Call
<1>4. calls' = [calls EXCEPT ![c] = call]
  BY <1>1 DEF restored, MutationInv, MutationTypeOK, Call
<1>2. file' \in Versions
  BY <1>1, RollbacksTyped DEF MutationInv
<1> HIDE DEF a, call
<1>5. MutationTypeOK'
  BY <1>2, <1>3, <1>4 DEF MutationInv, MutationTypeOK
<1>6. RunsAtMostOnce'
  BY DEF MutationInv, RunsAtMostOnce
<1> QED
  BY <1>1, <1>3, <1>4, <1>5, <1>6, CallStepsKeep DEF a

(* A call that ends leaves the others what they know: its approval was its   *)
(* own, and whatever it records of it concerns nobody else.                  *)
LEMMA OverKeeps ==
    ASSUME MutationInv, NEW c \in Callers, Busy(c), Over(c),
           MutationTypeOK', CommittedIffReceipt', RunsAtMostOnce',
           \A b \in Approvals : b # calls[c].approval => ledger'[b] = ledger[b],
           UNCHANGED <<phase, recovered, runs>>
    PROVE  MutationInv'
<1> DEFINE a == calls[c].approval
<1>1. a \in Approvals /\ phase = "up" /\ recovered = {} /\ active[a] = calls[c].attempt
  BY WorkerFacts DEF MutationInv, WorkersOwn
<1>2. /\ active' = [active EXCEPT ![a] = 0] /\ active'[a] = 0
      /\ \A b \in Approvals : b # a => active'[b] = active[b]
  BY <1>1 DEF Over, MutationInv, MutationTypeOK
<1>3. /\ calls'[c] = NoCall /\ calls'[c].step = "idle"
      /\ \A d \in Callers : d # c => calls'[d] = calls[d]
  BY RecordsTyped DEF Over, MutationInv, MutationTypeOK
<1>4. ASSUME NEW d \in Callers, d # c, Busy(d)
      PROVE  calls[d].approval \in Approvals /\ calls[d].approval # a
  BY <1>4 DEF MutationInv, MutationTypeOK, Call, WorkersApart
<1> HIDE DEF a
<1>5. ActiveIffWorking'
  <2>1. ASSUME NEW b \in Approvals, active'[b] # 0
        PROVE  \E d \in Callers : /\ calls'[d].step # "idle" /\ calls'[d].approval = b
                                  /\ calls'[d].attempt = active'[b]
    <3>1. b # a /\ active[b] = active'[b]
      BY <1>2, <2>1
    <3>2. PICK d \in Callers : /\ calls[d].step # "idle" /\ calls[d].approval = b
                               /\ calls[d].attempt = active[b]
      BY <2>1, <3>1 DEF MutationInv, ActiveIffWorking
    <3> QED
      BY <1>3, <3>1, <3>2 DEF a
  <2>2. ASSUME NEW b \in Approvals, NEW d \in Callers, calls'[d].step # "idle",
               calls'[d].approval = b, calls'[d].attempt = active'[b]
        PROVE  active'[b] # 0
    <3>1. d # c /\ calls'[d] = calls[d] /\ Busy(d)
      BY <1>3, <2>2 DEF Busy
    <3> QED
      BY <1>2, <1>4, <2>2, <3>1 DEF MutationInv, WorkersOwn
  <2> QED
    BY <2>1, <2>2 DEF ActiveIffWorking
<1>6. WorkersOwn'
  <2> SUFFICES ASSUME NEW d \in Callers, d # c, Busy(d)
               PROVE  /\ ledger'[calls[d].approval] = ledger[calls[d].approval]
                      /\ active'[calls[d].approval] = active[calls[d].approval]
    BY <1>3 DEF MutationInv, WorkersOwn, Busy
  <2> QED
    BY <1>2, <1>4 DEF a
<1>7. WorkersApart'
  BY <1>3 DEF MutationInv, WorkersApart, Busy
<1>8. RecoveryAlone'
  BY <1>1 DEF RecoveryAlone
<1> QED
  BY <1>5, <1>6, <1>7, <1>8 DEF MutationInv

LEMMA CommitKeeps ==
    ASSUME MutationInv, NEW c \in Callers, NEW o \in Outcomes, Commit(c, o)
    PROVE  MutationInv'
<1> DEFINE a == calls[c].approval
           call == [calls[c] EXCEPT !.step = "settling"]
<1>1. /\ Busy(c) /\ a \in Approvals /\ calls[c] \in Call /\ phase = "up" /\ recovered = {}
      /\ ledger[a] \in Entries /\ calls[c].step = "written"
      /\ UNCHANGED <<file, expired, phase, recovered, minted, runs>>
  BY WorkerFacts DEF Busy, Commit
<1>2. ledger[a].status = "committing" /\ active[a] = calls[c].attempt
  BY <1>1 DEF MutationInv, WorkersOwn
<1>3. call \in Call /\ call.step = "settling" /\ call.approval = a /\ call.attempt = calls[c].attempt
  BY <1>1 DEF Steps, Call
<1>4. /\ Completed(ledger[a]) \in Entries /\ Completed(ledger[a]).status = "committed"
      /\ Completed(ledger[a]).attempt = 0 /\ Completed(ledger[a]).before = Nothing
  BY <1>1, CompletedTyped
<1>5. ASSUME Kept(o)
      PROVE  /\ ledger' = [ledger EXCEPT ![a] = Completed(ledger[a])]
             /\ ledger'[a] = Completed(ledger[a])
             /\ receipts' = receipts \cup {a} /\ accepted' = file
             /\ \A b \in Approvals : b # a => ledger'[b] = ledger[b]
  BY <1>1, <1>5 DEF Commit, Write, MutationInv, MutationTypeOK
<1> HIDE DEF a, call
<1>6. ASSUME Kept(o)
      PROVE  CommittedIffReceipt' /\ RunsAtMostOnce'
  BY <1>1, <1>2, <1>4, <1>5, <1>6 DEF MutationInv, CommittedIffReceipt, RunsAtMostOnce
<1>7. CASE o = "done"
  <2>1. Kept(o) /\ Over(c)
    BY <1>7 DEF Commit, Kept
  <2>2. active' \in [Approvals -> 0..MaxAttempts] /\ calls' \in [Callers -> Call]
    <3>1. active \in [Approvals -> 0..MaxAttempts] /\ 0 \in 0..MaxAttempts
      BY DEF MutationInv, MutationTypeOK
    <3>2. calls \in [Callers -> Call] /\ NoCall \in Call
      BY RecordsTyped DEF MutationInv, MutationTypeOK
    <3> QED
      BY <2>1, <3>1, <3>2 DEF Over
  <2>3. MutationTypeOK'
    BY <1>1, <1>4, <1>5, <2>1, <2>2 DEF MutationInv, MutationTypeOK
  <2> QED
    BY <1>1, <1>5, <1>6, <2>1, <2>3, OverKeeps DEF a
<1>8. CASE o = "late"
  <2>1. Kept(o) /\ active' = active /\ calls' = [calls EXCEPT ![c] = call]
    BY <1>8 DEF Commit, Kept, Goes, call
  <2>2. calls'[c] = call /\ \A d \in Callers : d # c => calls'[d] = calls[d]
    BY <2>1 DEF MutationInv, MutationTypeOK
  <2>3. MutationTypeOK'
    BY <1>1, <1>3, <1>4, <1>5, <2>1 DEF MutationInv, MutationTypeOK
  <2>4. ActiveIffWorking'
    BY <1>1, <1>3, <2>1, <2>2 DEF a, MutationInv, ActiveIffWorking, Busy
  <2>5. WorkersOwn'
    <3> SUFFICES ASSUME NEW d \in Callers, d # c, Busy(d)
                 PROVE  ledger'[calls[d].approval] = ledger[calls[d].approval]
      <4>1. calls[c].attempt # 0
        BY <1>1 DEF MutationInv, WorkersOwn
      <4> QED
        BY <1>1, <1>2, <1>3, <1>4, <1>5, <2>1, <2>2, <4>1 DEF MutationInv, WorkersOwn, Busy
    <3> QED
      BY <1>1, <1>5, <2>1 DEF a, MutationInv, MutationTypeOK, Call, WorkersApart
  <2>6. WorkersApart'
    BY <1>1, <1>3, <2>2 DEF a, MutationInv, WorkersApart, Busy
  <2>7. RecoveryAlone'
    BY <1>1 DEF RecoveryAlone
  <2> QED
    BY <1>6, <2>1, <2>3, <2>4, <2>5, <2>6, <2>7 DEF MutationInv
<1>9. CASE o = "lost"
  <2>1. UNCHANGED <<ledger, receipts, accepted, active>> /\ calls' = [calls EXCEPT ![c] = call]
    BY <1>9 DEF Commit, Kept, Goes, call, Write, durable
  <2>2. MutationTypeOK'
    BY <1>1, <1>3, <2>1 DEF MutationInv, MutationTypeOK
  <2>3. RunsAtMostOnce'
    BY <1>1, <2>1 DEF MutationInv, RunsAtMostOnce
  <2> QED
    BY <1>1, <1>3, <2>1, <2>2, <2>3, CallStepsKeep DEF a
<1> QED
  BY <1>7, <1>8, <1>9 DEF Outcomes

LEMMA SettleKeeps ==
    ASSUME MutationInv, NEW c \in Callers, NEW o \in Outcomes,
           NEW r \in Rollbacks(calls[c].approval) \cup {[ok |-> FALSE, file |-> file]},
           Settle(c, r, o)
    PROVE  MutationInv'
<1> DEFINE a == calls[c].approval
<1>1. /\ Busy(c) /\ a \in Approvals /\ ledger[a] \in Entries /\ Over(c)
      /\ UNCHANGED <<expired, phase, recovered, minted, runs>>
  BY WorkerFacts DEF Busy, Settle
<1>2. file' \in Versions /\ r.ok \in BOOLEAN
  <2>1. r.file \in Versions /\ r.ok \in BOOLEAN
    BY <1>1, RollbacksTyped DEF MutationInv
  <2> QED
    BY <2>1 DEF Settle, MutationInv, MutationTypeOK
<1>3. active' \in [Approvals -> 0..MaxAttempts] /\ calls' \in [Callers -> Call]
  BY <1>1, RecordsTyped DEF Over, MutationInv, MutationTypeOK
<1> HIDE DEF a
<1>4. CASE Kept(o) /\ ledger[a].attempt = calls[c].attempt
  <2>1. ledger[a].status = "committing" /\ a \notin receipts
    <3>1. ledger[a].attempt # 0 /\ ledger[a].status \in {"committing", "committed"}
      BY <1>1, <1>4 DEF a, MutationInv, WorkersOwn
    <3>2. ledger[a].status = "committing"
      BY <1>1, <3>1 DEF MutationInv, MutationTypeOK
    <3> QED
      BY <1>1, <3>2 DEF MutationInv, CommittedIffReceipt
  <2>2. PICK ok \in BOOLEAN : Settled(c, r) = Failed(ledger[a], ok, a)
    <3>1. CASE calls[c].restored # "unknown"
      BY <2>1, <3>1 DEF Settled, a
    <3>2. CASE calls[c].restored = "unknown"
      BY <1>2, <2>1, <3>2 DEF Settled, RecoverOrphan, a
    <3> QED
      BY <3>1, <3>2
  <2>3. /\ ledger' = [ledger EXCEPT ![a] = Failed(ledger[a], ok, a)]
        /\ ledger'[a] = Failed(ledger[a], ok, a)
        /\ receipts' = receipts /\ accepted' = file'
        /\ \A b \in Approvals : b # a => ledger'[b] = ledger[b]
    BY <1>1, <1>4, <2>2 DEF Settle, Write, a, MutationInv, MutationTypeOK
  <2>4. ledger'[a] \in Entries /\ ledger'[a].status = "failed"
    BY <1>1, <2>3, FailedTyped
  <2>5. MutationTypeOK'
    BY <1>1, <1>2, <1>3, <2>3, <2>4 DEF MutationInv, MutationTypeOK
  <2>6. CommittedIffReceipt' /\ RunsAtMostOnce'
    BY <1>1, <2>1, <2>3, <2>4 DEF MutationInv, CommittedIffReceipt, RunsAtMostOnce
  <2> QED
    BY <1>1, <2>3, <2>5, <2>6, OverKeeps DEF a
<1>5. CASE ~(Kept(o) /\ ledger[a].attempt = calls[c].attempt)
  <2>1. ledger' = ledger /\ receipts' = receipts /\ accepted' \in Versions
    BY <1>2, <1>5 DEF Settle, Write, a, durable, MutationInv, MutationTypeOK
  <2>2. MutationTypeOK'
    BY <1>1, <1>2, <1>3, <2>1 DEF MutationInv, MutationTypeOK
  <2>3. CommittedIffReceipt' /\ RunsAtMostOnce'
    BY <1>1, <2>1 DEF MutationInv, CommittedIffReceipt, RunsAtMostOnce
  <2> QED
    BY <1>1, <2>1, <2>2, <2>3, OverKeeps
<1> QED
  BY <1>4, <1>5

LEMMA CrashKeeps ==
    ASSUME MutationInv, Crash PROVE MutationInv'
<1> USE DEF Crash, durable
<1>1. /\ active' \in [Approvals -> 0..MaxAttempts] /\ \A a \in Approvals : active'[a] = 0
      /\ calls' \in [Callers -> Call] /\ \A c \in Callers : calls'[c].step = "idle"
  BY RecordsTyped
<1>2. MutationTypeOK'
  BY <1>1 DEF MutationInv, MutationTypeOK
<1> QED
  BY <1>1, <1>2 DEF MutationInv, CommittedIffReceipt, ActiveIffWorking, RunsAtMostOnce,
     WorkersOwn, WorkersApart, RecoveryAlone, Busy

LEMMA RecoverOneKeeps ==
    ASSUME MutationInv, NEW a \in Approvals,
           NEW r \in Rollbacks(a) \cup {[ok |-> FALSE, file |-> file]}, RecoverOne(a, r)
    PROVE  MutationInv'
<1> USE DEF RecoverOne, durable
<1> DEFINE found == [approval |-> a, entry |-> RecoverOrphan(a, r)]
<1>1. /\ ledger[a] \in Entries /\ a \notin receipts /\ ledger[a].status = "committing"
      /\ r.file \in Versions /\ r.ok \in BOOLEAN
  BY RollbacksTyped DEF Orphans, MutationInv, MutationTypeOK, CommittedIffReceipt
<1>2. found.entry = Failed(ledger[a], r.ok, a)
  BY <1>1 DEF RecoverOrphan
<1>3. found \in [approval : Approvals, entry : Entries] /\ found.approval = a
      /\ found.entry.status = "failed"
  BY <1>1, <1>2, FailedTyped
<1>4. recovered' = recovered \cup {found} /\ file' = r.file
  OBVIOUS
<1> HIDE DEF found
<1>5. MutationTypeOK'
  BY <1>1, <1>3, <1>4 DEF MutationInv, MutationTypeOK
<1>6. RecoveryAlone'
  BY <1>1, <1>3, <1>4 DEF MutationInv, RecoveryAlone, Busy
<1> QED
  BY <1>5, <1>6 DEF MutationInv, CommittedIffReceipt, ActiveIffWorking, RunsAtMostOnce,
     WorkersOwn, WorkersApart, Busy

LEMMA FinishRecoveryKeeps ==
    ASSUME MutationInv, FinishRecovery PROVE MutationInv'
<1> USE DEF FinishRecovery
<1> DEFINE found(a) == CHOOSE r \in recovered : r.approval = a
<1>1. ASSUME NEW a \in Orphans
      PROVE  /\ found(a).entry \in Entries /\ found(a).entry.status = "failed"
             /\ ledger[a].status = "committing"
  <2>1. PICK r \in recovered : r.approval = a
    OBVIOUS
  <2>2. found(a) \in recovered /\ found(a).approval = a
    BY <2>1
  <2> HIDE DEF found
  <2> QED
    BY <2>2 DEF MutationInv, MutationTypeOK, RecoveryAlone
<1>2. /\ ledger' = [a \in Approvals |-> IF a \in Orphans THEN found(a).entry ELSE ledger[a]]
      /\ \A a \in Approvals : ledger'[a] = IF a \in Orphans THEN found(a).entry ELSE ledger[a]
  OBVIOUS
<1> HIDE DEF found
<1>3. \A a \in Approvals : ledger'[a] \in Entries
  BY <1>1, <1>2 DEF MutationInv, MutationTypeOK
<1>4. MutationTypeOK'
  BY <1>1, <1>2, <1>3 DEF MutationInv, MutationTypeOK
<1>5. CommittedIffReceipt' /\ RunsAtMostOnce' /\ ActiveIffWorking'
  BY <1>1, <1>2 DEF MutationInv, CommittedIffReceipt, RunsAtMostOnce, ActiveIffWorking
<1>6. WorkersOwn' /\ WorkersApart' /\ RecoveryAlone'
  BY DEF MutationInv, WorkersOwn, WorkersApart, RecoveryAlone, Busy
<1> QED
  BY <1>4, <1>5, <1>6 DEF MutationInv

LEMMA StepKeeps == MutationInv /\ [MutationNext]_vars => MutationInv'
<1> SUFFICES ASSUME MutationInv, [MutationNext]_vars PROVE MutationInv'
  OBVIOUS
<1>1. ASSUME NEW a \in Approvals,
             Prepare(a) \/ BindQuestion(a) \/ \E approves \in BOOLEAN : Answer(a, approves)
      PROVE  MutationInv'
  <2>0. /\ ledger[a] \in Entries /\ ledger[a].status \in {"none", "pending"}
        /\ ledger[a].attempt = 0 /\ ledger[a].before = Nothing
    BY <1>1 DEF Prepare, BindQuestion, Answer, MutationInv, MutationTypeOK
  <2>1. PICK entry : /\ Enter(a, entry) /\ entry \in Entries
                     /\ entry.status \in {"none", "pending", "approved", "rejected"}
                     /\ entry.attempt = 0 /\ entry.before = Nothing
    <3>1. CASE Prepare(a)
      BY <2>0, <3>1 DEF Prepare, Entries, Statuses
    <3>2. CASE BindQuestion(a)
      <4> DEFINE bound == [ledger[a] EXCEPT !.bound = TRUE]
      <4>1. bound \in Entries
        BY <2>0 DEF Entries
      <4>2. bound.status = ledger[a].status /\ bound.attempt = 0 /\ bound.before = Nothing
        BY <2>0 DEF Entries
      <4> QED
        BY <2>0, <3>2, <4>1, <4>2 DEF BindQuestion
    <3>3. ASSUME NEW approves \in BOOLEAN, Answer(a, approves)
          PROVE  \E entry : /\ Enter(a, entry) /\ entry \in Entries
                            /\ entry.status \in {"none", "pending", "approved", "rejected"}
                            /\ entry.attempt = 0 /\ entry.before = Nothing
      <4>1. CASE approves
        BY <2>0, <3>3, <4>1 DEF Answer, Entries, Statuses
      <4>2. CASE ~approves
        BY <2>0, <3>3, <4>2 DEF Answer, Entries, Statuses
      <4> QED
        BY <4>1, <4>2
    <3> QED
      BY <1>1, <3>1, <3>2, <3>3
  <2> QED
    BY <2>0, <2>1, EnterKeeps
<1>2. ASSUME NEW c \in Callers, CallerNext(c)
      PROVE  MutationInv'
  BY <1>2, ReplayKeeps, OtherWritersKeep, ClaimKeeps, BlockKeeps, BeginApplyKeeps, ApplyWritesKeeps,
     ApplyFailsKeeps, CommitKeeps, SettleKeeps DEF CallerNext
<1>3. CASE UNCHANGED vars
  <2>1. MutationTypeOK'
    BY <1>3 DEF vars, MutationInv, MutationTypeOK
  <2> QED
    BY <1>3, <2>1, SkillStepsKeep DEF vars
<1> QED
  BY <1>1, <1>2, <1>3, OtherWritersKeep, CrashKeeps, RecoverOneKeeps, FinishRecoveryKeeps
  DEF MutationNext

THEOREM MutationInvariant == MutationSpec => []MutationInv
BY InvInitially, StepKeeps, PTL DEF MutationSpec

(* However often a commit is called again, fails to be written or is cut off *)
(* by a crash, the change of an approval is started at most once, and only   *)
(* after the approval was claimed (commitGlobalMutationApproved).            *)
THEOREM NeverRunsTwice == MutationSpec => []RunsAtMostOnce
BY MutationInvariant, PTL DEF MutationInv

(* The ledger and the receipts, two tables of one file, agree about what was *)
(* committed, so a repeated call is answered with what happened.             *)
THEOREM LedgerTellsTheTruth == MutationSpec => []CommittedIffReceipt
BY MutationInvariant, PTL DEF MutationInv

(* activeCommits has an entry exactly while a call works on the attempt, so  *)
(* an interrupted attempt is never mistaken for a live one.                  *)
THEOREM AttemptsAreReal == MutationSpec => []ActiveIffWorking
BY MutationInvariant, PTL DEF MutationInv

(* The state has its type, and bytes of the Skill are kept in the ledger     *)
(* only for attempts under way or failed.                                    *)
THEOREM MutationTypeCorrect == MutationSpec => []MutationTypeOK
BY MutationInvariant, PTL DEF MutationInv

(* A restoration over an accepted Skill finds the bytes it would restore. *)
LEMMA RollbackHarmless ==
    ASSUME NEW a \in Approvals, file.bytes = accepted.bytes,
           NEW r \in Rollbacks(a) \cup {[ok |-> FALSE, file |-> file]}
    PROVE  r.file.bytes = file.bytes
<1>1. CASE MayRestore(a)
  <2>1. Restored(a) = accepted
    BY <1>1 DEF MayRestore, Restored
  <2>2. r.file \in {accepted, file}
    BY <1>1, <2>1 DEF Rollbacks
  <2> QED
    BY <2>2
<1>2. CASE ~MayRestore(a)
  BY <1>2 DEF Rollbacks
<1> QED
  BY <1>1, <1>2

LEMMA StepUndoesNothing ==
    ASSUME MutationInv, [MutationNext]_vars, Recovers, file.bytes = accepted.bytes
    PROVE  file'.bytes = file.bytes
<1> USE DEF memory, durable
<1>1. ASSUME NEW bytes \in Contents, NEW o \in Outcomes, ExternalEdit(bytes) \/ UIWrite(bytes, o)
      PROVE  FALSE
  <2>1. UNCHANGED <<ledger, recovered, calls>>
    BY <1>1 DEF ExternalEdit, UIWrite, Write
  <2> QED
    BY <2>1 DEF Recovers
<1>2. ASSUME NEW c \in Callers, ApplyWrites(c)
      PROVE  FALSE
  <2>1. /\ calls'[c].step = "written" /\ calls[c].step = "applying"
        /\ \A d \in Callers : d # c => calls'[d] = calls[d]
        /\ UNCHANGED <<ledger, recovered>>
    BY <1>2 DEF ApplyWrites, Goes, MutationInv, MutationTypeOK, Call
  <2> QED
    BY <2>1 DEF Recovers
<1>3. ASSUME NEW c \in Callers, CallerNext(c)
      PROVE  file'.bytes = file.bytes
  <2>0. calls[c].approval \in Approvals
    BY DEF MutationInv, MutationTypeOK, Call
  <2>1. ASSUME NEW a \in Approvals, NEW o \in Outcomes, NEW r \in Rollbacks(a), Block(c, a, r, o)
        PROVE  file'.bytes = file.bytes
    BY <2>1, RollbackHarmless DEF Block
  <2>2. ASSUME NEW r \in Rollbacks(calls[c].approval), ApplyFails(c, r)
        PROVE  file'.bytes = file.bytes
    BY <2>0, <2>2, RollbackHarmless DEF ApplyFails
  <2>3. ASSUME NEW o \in Outcomes,
               NEW r \in Rollbacks(calls[c].approval) \cup {[ok |-> FALSE, file |-> file]},
               Settle(c, r, o)
        PROVE  file'.bytes = file.bytes
    <3>1. r.file.bytes = file.bytes
      BY <2>0, RollbackHarmless
    <3> QED
      BY <2>3, <3>1 DEF Settle
  <2>4. ASSUME NEW a \in Approvals, NEW o \in Outcomes,
               Replay(c, a) \/ Join(c, a) \/ Claim(c, a, o) \/ BeginApply(c) \/ Commit(c, o)
        PROVE  file' = file
    BY <2>4 DEF Replay, Join, Claim, BeginApply, Commit
  <2> QED
    BY <1>2, <1>3, <2>1, <2>2, <2>3, <2>4, <2>0 DEF CallerNext, Outcomes
<1>4. ASSUME NEW a \in Approvals, NEW r \in Rollbacks(a) \cup {[ok |-> FALSE, file |-> file]},
             RecoverOne(a, r)
      PROVE  file'.bytes = file.bytes
  BY <1>4, RollbackHarmless DEF RecoverOne
<1>5. ASSUME NEW a \in Approvals, NEW approves \in BOOLEAN,
             Prepare(a) \/ BindQuestion(a) \/ Answer(a, approves) \/ Expire(a)
      PROVE  file' = file
  BY <1>5 DEF Prepare, BindQuestion, Answer, Expire, Enter
<1>6. ReadSnapshot \/ Crash \/ FinishRecovery \/ UNCHANGED vars => file' = file
  BY DEF ReadSnapshot, Crash, FinishRecovery, vars
<1>7. TRUE \in BOOLEAN /\ "done" \in Outcomes
  BY DEF Outcomes
<1> QED
  BY <1>1, <1>3, <1>4, <1>5, <1>6, <1>7 DEF MutationNext

(* "Never undo it": whichever step compensates, settles or recovers, at      *)
(* whatever moment, a Skill that is on the disk as the canonical snapshot    *)
(* holds it keeps its bytes (rollbackExternalEffect).                        *)
THEOREM AcceptedIsKept == MutationSpec => NeverUndoesAccepted
<1>1. MutationInv /\ [MutationNext]_vars =>
        [Recovers /\ file.bytes = accepted.bytes => file'.bytes = file.bytes]_vars
  BY StepUndoesNothing
<1> QED
  BY <1>1, MutationInvariant, PTL DEF MutationSpec, NeverUndoesAccepted
(* What a failed attempt leaves. A version of the Skill that bears the name  *)
(* of an approval was written by it; the approval is clean if such a version *)
(* holds the bytes the attempt found.                                        *)
Clean(a) == \A skill \in {file, accepted} : skill.by = a => skill.bytes = ledger[a].before.bytes

OnlyJournalledWrite == \A skill \in {file, accepted} : skill.by \in Journalled \cup {Someone}
RestoredIsClean ==
    \A c \in Callers : calls[c].restored = "yes" =>
      calls[c].step = "settling" /\ Clean(calls[c].approval)
RecoveredIsClean ==
    \A r \in recovered :
      /\ r.entry.before = ledger[r.approval].before
      /\ ~r.entry.flagged => Clean(r.approval)

Traces == OnlyJournalledWrite /\ RestoredIsClean /\ RecoveredIsClean /\ NothingLeftBehind

(* Every step but a write of the change leaves versions that were there, or  *)
(* somebody else's.                                                          *)
Moves == \A skill \in {file', accepted'} : skill \in {file, accepted} \/ skill.by = Someone

LEMMA MovesKeepClean ==
    ASSUME Moves, NEW b \in Approvals, Clean(b), ledger'[b].before = ledger[b].before
    PROVE  Clean(b)'
BY DEF Moves, Clean

(* A step keeps the traces if what it newly records as failed, restored or   *)
(* recovered is clean.                                                       *)
LEMMA MovesKeepTraces ==
    ASSUME MutationInv, MutationInv', Traces, Moves,
           \A b \in Approvals : ledger'[b].status = "failed" /\ ~ledger'[b].flagged =>
              Clean(b)' \/ ledger'[b] = ledger[b],
           \A c \in Callers : calls'[c].restored = "yes" =>
              \/ calls'[c].step = "settling" /\ Clean(calls[c].approval)'
              \/ calls'[c] = calls[c] /\ ledger'[calls[c].approval].before = ledger[calls[c].approval].before,
           \A r \in recovered' :
              \/ r.entry.before = ledger'[r.approval].before /\ (~r.entry.flagged => Clean(r.approval)')
              \/ r \in recovered /\ ledger'[r.approval].before = ledger[r.approval].before
    PROVE  Traces'
<1>1. OnlyJournalledWrite'
  BY DEF OnlyJournalledWrite, Traces, Moves
<1>2. NothingLeftBehind'
  <2> SUFFICES ASSUME NEW b \in Approvals, ledger'[b].status = "failed", ~ledger'[b].flagged
               PROVE  Clean(b)'
    BY DEF NothingLeftBehind, Clean
  <2>1. CASE ledger'[b] = ledger[b]
    <3>1. Clean(b)
      BY <2>1 DEF Traces, NothingLeftBehind, Clean
    <3> QED
      BY <2>1, <3>1, MovesKeepClean
  <2> QED
    BY <2>1
<1>3. RestoredIsClean'
  <2> SUFFICES ASSUME NEW c \in Callers, calls'[c].restored = "yes"
               PROVE  calls'[c].step = "settling" /\ Clean(calls[c].approval)'
    BY DEF RestoredIsClean
  <2>1. CASE calls'[c] = calls[c] /\ ledger'[calls[c].approval].before = ledger[calls[c].approval].before
    <3>1. calls[c].approval \in Approvals
      BY DEF MutationInv, MutationTypeOK, Call
    <3>2. calls[c].step = "settling" /\ Clean(calls[c].approval)
      BY <2>1 DEF Traces, RestoredIsClean
    <3>3. \A b \in Approvals : b = calls[c].approval => Clean(b)'
      BY <2>1, <3>2, MovesKeepClean
    <3> QED
      BY <2>1, <3>1, <3>2, <3>3 DEF Clean
  <2> QED
    BY <2>1
<1>4. RecoveredIsClean'
  <2> SUFFICES ASSUME NEW r \in recovered'
               PROVE  /\ r.entry.before = ledger'[r.approval].before
                      /\ ~r.entry.flagged => Clean(r.approval)'
    BY DEF RecoveredIsClean
  <2>1. CASE r \in recovered /\ ledger'[r.approval].before = ledger[r.approval].before
    <3>1. r.approval \in Approvals
      BY <2>1 DEF MutationInv, MutationTypeOK
    <3>2. r.entry.before = ledger[r.approval].before /\ (~r.entry.flagged => Clean(r.approval))
      BY <2>1 DEF Traces, RecoveredIsClean
    <3> QED
      BY <2>1, <3>1, <3>2, MovesKeepClean
  <2> QED
    BY <2>1
<1> QED
  BY <1>1, <1>2, <1>3, <1>4 DEF Traces
(* A restoration that succeeds puts back the accepted Skill, with the bytes  *)
(* the attempt found; nothing of the attempt is left.                        *)
LEMMA RollbackCleans ==
    ASSUME MutationInv, Traces, NEW a \in Approvals,
           NEW r \in Rollbacks(a) \cup {[ok |-> FALSE, file |-> file]},
           file' = r.file, accepted' \in {accepted, file'}
    PROVE  /\ Moves
           /\ r.ok \/ a \notin Journalled =>
                \A skill \in {file', accepted'} : skill.by = a => skill.bytes = ledger[a].before.bytes
<1>1. CASE MayRestore(a)
  <2>1. Restored(a) = accepted /\ accepted.bytes = ledger[a].before.bytes
    BY <1>1 DEF MayRestore, Restored
  <2>2. r.file \in {accepted, file} /\ (r.ok => r.file = accepted)
    BY <1>1, <2>1 DEF Rollbacks
  <2>3. a \in Journalled
    BY <1>1 DEF MayRestore
  <2> QED
    BY <2>1, <2>2, <2>3 DEF Moves
<1>2. CASE ~MayRestore(a)
  <2>1. r = [ok |-> FALSE, file |-> file]
    BY <1>2 DEF Rollbacks
  <2> QED
    BY <2>1 DEF Moves, Traces, OnlyJournalledWrite
<1> QED
  BY <1>1, <1>2

LEMMA FailedKeepsBefore ==
    ASSUME NEW entry \in Entries, NEW a \in Approvals, NEW ok \in BOOLEAN
    PROVE  /\ Failed(entry, ok, a).before = entry.before
           /\ ~Failed(entry, ok, a).flagged => ok \/ a \in Toggles
BY DEF Failed, Entries

(* A call whose restoration is recorded works on an attempt that is under    *)
(* way or was committed.                                                     *)
LEMMA RestoredWorks ==
    ASSUME MutationInv, Traces, NEW c \in Callers, calls[c].restored = "yes"
    PROVE  /\ Busy(c) /\ calls[c].step = "settling" /\ calls[c].approval \in Approvals
           /\ ledger[calls[c].approval].status \in {"committing", "committed"}
BY DEF MutationInv, MutationTypeOK, Call, WorkersOwn, Busy, Traces, RestoredIsClean

(* Steps that leave the calls and the recovery alone, and enter nothing as   *)
(* failed.                                                                   *)
LEMMA LedgerStepsLeaveNothing ==
    ASSUME MutationInv, MutationInv', Traces, Moves, UNCHANGED <<calls, recovered>>,
           \A b \in Approvals : ledger'[b] = ledger[b] \/ ledger'[b].status # "failed",
           \A b \in Approvals : ledger'[b].before = ledger[b].before
    PROVE  Traces'
<1>1. \A c \in Callers : calls[c].approval \in Approvals
  BY DEF MutationInv, MutationTypeOK, Call
<1>2. \A r \in recovered : r.approval \in Approvals
  BY DEF MutationInv, MutationTypeOK
<1> QED
  BY <1>1, <1>2, MovesKeepTraces

LEMMA PlainStepsLeaveNothing ==
    ASSUME MutationInv, MutationInv', Traces,
           \/ \E a \in Approvals, approves \in BOOLEAN :
                 Prepare(a) \/ BindQuestion(a) \/ Answer(a, approves) \/ Expire(a)
           \/ \E c \in Callers, a \in Approvals : Replay(c, a) \/ Join(c, a)
           \/ \E bytes \in Contents, o \in Outcomes : ExternalEdit(bytes) \/ UIWrite(bytes, o)
           \/ ReadSnapshot
           \/ UNCHANGED vars
    PROVE  Traces'
<1> USE DEF memory, durable
<1>0. ledger \in [Approvals -> Entries]
  BY DEF MutationInv, MutationTypeOK
<1>1. ASSUME NEW a \in Approvals, NEW approves \in BOOLEAN,
             Prepare(a) \/ BindQuestion(a) \/ Answer(a, approves)
      PROVE  Traces'
  <2>1. PICK status \in {"pending", "approved", "rejected"}, bound \in BOOLEAN :
           Enter(a, [ledger[a] EXCEPT !.status = status, !.bound = bound])
    <3>1. CASE Prepare(a)
      BY <1>0, <3>1 DEF Prepare, Enter, Entries
    <3>2. CASE BindQuestion(a)
      BY <1>0, <3>2 DEF BindQuestion, Enter, Entries
    <3>3. CASE Answer(a, approves)
      BY <1>0, <3>3 DEF Answer, Enter, Entries
    <3> QED
      BY <1>1, <3>1, <3>2, <3>3
  <2> DEFINE entry == [ledger[a] EXCEPT !.status = status, !.bound = bound]
  <2>2. entry.status # "failed" /\ entry.before = ledger[a].before
    BY <1>0 DEF Entries
  <2>3. ledger' = [ledger EXCEPT ![a] = entry] /\ file' = file /\ accepted' = file
        /\ UNCHANGED <<calls, recovered>>
    BY <2>1 DEF Enter
  <2> HIDE DEF entry
  <2> QED
    BY <1>0, <2>2, <2>3, LedgerStepsLeaveNothing DEF Moves
<1>2. ASSUME NEW a \in Approvals, Expire(a) PROVE Traces'
  BY <1>2, LedgerStepsLeaveNothing DEF Expire, Moves
<1>3. ASSUME NEW c \in Callers, NEW a \in Approvals, Replay(c, a) PROVE Traces'
  <2>1. ledger[a].status = "committed" /\ ledger[a].before = Nothing
    BY <1>3 DEF Replay, MutationInv, MutationTypeOK, CommittedIffReceipt
  <2>2. Completed(ledger[a]).status = "committed" /\ Completed(ledger[a]).before = Nothing
    BY DEF Completed
  <2>3. /\ \A b \in Approvals : ledger'[b] = IF b = a THEN Completed(ledger[a]) ELSE ledger[b]
        /\ Moves /\ UNCHANGED <<calls, recovered>>
    BY <1>0, <1>3 DEF Replay, Moves
  <2> QED
    BY <2>1, <2>2, <2>3, LedgerStepsLeaveNothing
<1>4. ASSUME NEW c \in Callers, NEW a \in Approvals, Join(c, a) PROVE Traces'
  BY <1>4, LedgerStepsLeaveNothing DEF Join, Moves
<1>5. ASSUME NEW bytes \in Contents, NEW o \in Outcomes, ExternalEdit(bytes) \/ UIWrite(bytes, o)
      PROVE  Traces'
  <2>1. Put(file, bytes, Someone) = file \/ Put(file, bytes, Someone).by = Someone
    BY DEF Put
  <2>2. UNCHANGED <<ledger, calls, recovered>> /\ file' = Put(file, bytes, Someone)
        /\ accepted' \in {accepted, file'}
    BY <1>5 DEF ExternalEdit, UIWrite, Write
  <2> QED
    BY <2>1, <2>2, LedgerStepsLeaveNothing DEF Moves
<1>6. CASE ReadSnapshot
  BY <1>6, LedgerStepsLeaveNothing DEF ReadSnapshot, Moves
<1>7. CASE UNCHANGED vars
  BY <1>7, LedgerStepsLeaveNothing DEF vars, Moves
<1> QED
  BY <1>1, <1>2, <1>3, <1>4, <1>5, <1>6, <1>7

LEMMA BlockLeavesNothing ==
    ASSUME MutationInv, MutationInv', Traces, NEW c \in Callers, NEW a \in Approvals,
           NEW r \in Rollbacks(a), NEW o \in Outcomes, Block(c, a, r, o)
    PROVE  Traces'
<1>0. /\ ledger[a] \in Entries /\ a \notin receipts /\ r.ok \in BOOLEAN
      /\ file' = r.file /\ accepted' \in {accepted, file'}
      /\ UNCHANGED <<calls, recovered>>
  BY RollbacksTyped DEF Block, Write, MutationInv, MutationTypeOK, memory, durable
<1>1. /\ Moves
      /\ r.ok \/ a \notin Journalled =>
           \A skill \in {file', accepted'} : skill.by = a => skill.bytes = ledger[a].before.bytes
  BY <1>0, RollbackCleans
<1>2. CASE ledger' = ledger
  BY <1>0, <1>1, <1>2, LedgerStepsLeaveNothing
<1>3. CASE ledger' # ledger
  <2> DEFINE entry == Failed(ledger[a], r.ok, a)
  <2>1. ledger' = [ledger EXCEPT ![a] = entry]
    BY <1>0, <1>3 DEF Block, Write, RecoverOrphan, durable
  <2>2. entry.before = ledger[a].before /\ (~entry.flagged => r.ok \/ a \in Toggles)
    BY <1>0, FailedKeepsBefore
  <2>3. \A b \in Approvals : ledger'[b] = IF b = a THEN entry ELSE ledger[b]
    BY <2>1 DEF MutationInv, MutationTypeOK
  <2> HIDE DEF entry
  <2>4. ~entry.flagged => Clean(a)'
    BY <1>1, <2>2, <2>3 DEF Clean
  <2>5. \A b \in Approvals : ledger'[b].before = ledger[b].before
    BY <2>2, <2>3
  <2>6. \A b \in Approvals : ledger'[b].status = "failed" /\ ~ledger'[b].flagged =>
           Clean(b)' \/ ledger'[b] = ledger[b]
    BY <2>3, <2>4
  <2>7. \A d \in Callers : calls[d].approval \in Approvals
    BY DEF MutationInv, MutationTypeOK, Call
  <2>8. \A found \in recovered : found.approval \in Approvals
    BY DEF MutationInv, MutationTypeOK
  <2> QED
    BY <1>0, <1>1, <2>5, <2>6, <2>7, <2>8, MovesKeepTraces
<1> QED
  BY <1>2, <1>3

LEMMA ClaimLeavesNothing ==
    ASSUME MutationInv, MutationInv', Traces, NEW c \in Callers, NEW a \in Approvals,
           NEW o \in Outcomes, Claim(c, a, o)
    PROVE  Traces'
<1>1. /\ ledger[a].status = "approved" /\ recovered = {} /\ recovered' = {} /\ file' = file
      /\ accepted' \in {accepted, file}
      /\ ledger' = ledger \/ ledger' = [ledger EXCEPT ![a] = Claimed(a, minted')]
  BY DEF Claim, Claimable, QueueFree, Write, durable, MutationInv, RecoveryAlone
<1>2. Claimed(a, minted').status = "committing"
  BY DEF Claimed, MutationInv, MutationTypeOK, Entries
<1>3. \A b \in Approvals : ledger'[b] = ledger[b] \/ (b = a /\ ledger'[b].status = "committing")
  BY <1>1, <1>2 DEF MutationInv, MutationTypeOK
<1>4. \A d \in Callers : calls'[d].restored = "yes" => calls'[d] = calls[d]
  BY DEF Claim, MutationInv, MutationTypeOK
<1>5. \A d \in Callers : calls'[d].restored = "yes" =>
         ledger'[calls[d].approval].before = ledger[calls[d].approval].before
  BY <1>1, <1>3, <1>4, RestoredWorks
<1> QED
  BY <1>1, <1>3, <1>4, <1>5, MovesKeepTraces DEF Moves

LEMMA CrashLeavesNothing ==
    ASSUME MutationInv, MutationInv', Traces, Crash PROVE Traces'
<1>1. \A c \in Callers : calls'[c].restored = "unknown"
  BY DEF Crash, NoCall
<1> QED
  BY <1>1, MovesKeepTraces DEF Crash, durable, Moves

LEMMA RecoverOneLeavesNothing ==
    ASSUME MutationInv, MutationInv', Traces, NEW a \in Approvals,
           NEW r \in Rollbacks(a) \cup {[ok |-> FALSE, file |-> file]}, RecoverOne(a, r)
    PROVE  Traces'
<1> DEFINE entry == Failed(ledger[a], r.ok, a)
<1>1. /\ ledger[a] \in Entries /\ a \notin receipts /\ r.ok \in BOOLEAN /\ file' = r.file
      /\ UNCHANGED <<ledger, accepted, calls>>
  BY RollbacksTyped DEF RecoverOne, Orphans, durable, MutationInv, MutationTypeOK, CommittedIffReceipt
<1>2. recovered' = recovered \cup {[approval |-> a, entry |-> entry]}
  BY <1>1 DEF RecoverOne, RecoverOrphan
<1>3. entry.before = ledger[a].before /\ (~entry.flagged => r.ok \/ a \in Toggles)
  BY <1>1, FailedKeepsBefore
<1> HIDE DEF entry
<1>4. Moves /\ (~entry.flagged => Clean(a)')
  BY <1>1, <1>3, RollbackCleans DEF Clean
<1>5. \A found \in recovered' :
         \/ found.entry.before = ledger'[found.approval].before /\ (~found.entry.flagged => Clean(found.approval)')
         \/ found \in recovered /\ ledger'[found.approval].before = ledger[found.approval].before
  BY <1>1, <1>2, <1>3, <1>4
<1> QED
  BY <1>1, <1>4, <1>5, MovesKeepTraces
LEMMA FinishRecoveryLeavesNothing ==
    ASSUME MutationInv, MutationInv', Traces, FinishRecovery PROVE Traces'
<1> DEFINE found(a) == CHOOSE r \in recovered : r.approval = a
<1>1. ASSUME NEW a \in Orphans
      PROVE  /\ found(a).entry.before = ledger[a].before
             /\ ~found(a).entry.flagged => Clean(a)
  <2>1. PICK r \in recovered : r.approval = a
    BY DEF FinishRecovery
  <2>2. found(a) \in recovered /\ found(a).approval = a
    BY <2>1
  <2> HIDE DEF found
  <2> QED
    BY <2>2 DEF Traces, RecoveredIsClean
<1>2. \A a \in Approvals : ledger'[a] = IF a \in Orphans THEN found(a).entry ELSE ledger[a]
  BY DEF FinishRecovery
<1>3. Moves /\ calls' = calls /\ recovered' = {}
  BY DEF FinishRecovery, Moves
<1>4. \A c \in Callers : calls[c].restored # "yes"
  BY DEF FinishRecovery, Traces, RestoredIsClean, MutationInv, RecoveryAlone, Busy
<1> HIDE DEF found
<1>5. \A b \in Approvals : ledger'[b].before = ledger[b].before
  BY <1>1, <1>2
<1>6. ASSUME NEW b \in Approvals, ~ledger'[b].flagged, ledger'[b] # ledger[b]
      PROVE  Clean(b)'
  <2>1. b \in Orphans /\ Clean(b)
    BY <1>1, <1>2, <1>6
  <2> QED
    BY <1>3, <1>5, <2>1, MovesKeepClean
<1> QED
  BY <1>3, <1>4, <1>6, MovesKeepTraces

(* Steps of a call that leave the ledger alone. *)
LEMMA CallLeavesNothing ==
    ASSUME MutationInv, MutationInv', Traces, Moves, UNCHANGED <<ledger, recovered>>,
           NEW c \in Callers, \A d \in Callers : d # c => calls'[d] = calls[d],
           calls'[c].restored = "yes" =>
              calls'[c].step = "settling" /\ Clean(calls[c].approval)'
    PROVE  Traces'
BY MovesKeepTraces

LEMMA BeginApplyLeavesNothing ==
    ASSUME MutationInv, MutationInv', Traces, NEW c \in Callers, BeginApply(c)
    PROVE  Traces'
<1>1. calls[c].step = "claimed" /\ calls[c] \in Call
  BY DEF BeginApply, MutationInv, MutationTypeOK
<1>2. calls[c].restored # "yes"
  BY <1>1 DEF Traces, RestoredIsClean
<1>3. calls'[c].restored = calls[c].restored /\ \A d \in Callers : d # c => calls'[d] = calls[d]
  BY <1>1 DEF BeginApply, Goes, MutationInv, MutationTypeOK, Call
<1> QED
  BY <1>2, <1>3, CallLeavesNothing DEF BeginApply, durable, Moves

(* The one step that puts an approval's name on the Skill: its attempt is    *)
(* under way and nothing is said of it yet.                                  *)
LEMMA ApplyWritesLeavesNothing ==
    ASSUME MutationInv, MutationInv', Traces, NEW c \in Callers, ApplyWrites(c)
    PROVE  Traces'
<1> DEFINE a == calls[c].approval
<1>1. /\ Busy(c) /\ calls[c].step = "applying" /\ a \in Approvals /\ calls[c] \in Call
      /\ recovered = {} /\ recovered' = {} /\ UNCHANGED <<ledger, accepted>>
  BY WorkerFacts DEF ApplyWrites, Busy, durable
<1>2. ledger[a].status = "committing" /\ calls[c].restored # "yes"
  BY <1>1 DEF MutationInv, WorkersOwn, Traces, RestoredIsClean
<1>3. /\ calls'[c].restored # "yes"
      /\ \A d \in Callers : d # c => calls'[d] = calls[d]
  BY <1>1, <1>2 DEF ApplyWrites, Goes, MutationInv, MutationTypeOK, Call
<1>4. file' = file \/ (a \in Journalled /\ file'.by = a)
  BY DEF ApplyWrites, Put
<1> HIDE DEF a
<1>5. \A b \in Approvals : b # a /\ Clean(b) => Clean(b)'
  BY <1>1, <1>4 DEF Clean
<1>6. OnlyJournalledWrite'
  BY <1>1, <1>4 DEF OnlyJournalledWrite, Traces
<1>7. NothingLeftBehind'
  <2> SUFFICES ASSUME NEW b \in Approvals, ledger'[b].status = "failed", ~ledger'[b].flagged
               PROVE  Clean(b)'
    BY DEF NothingLeftBehind, Clean
  <2>1. b # a /\ Clean(b)
    BY <1>1, <1>2 DEF Traces, NothingLeftBehind, Clean
  <2> QED
    BY <1>5, <2>1
<1>8. RestoredIsClean'
  <2> SUFFICES ASSUME NEW d \in Callers, d # c, calls[d].restored = "yes", calls'[d] = calls[d]
               PROVE  calls[d].step = "settling" /\ Clean(calls[d].approval)'
    BY <1>3 DEF RestoredIsClean
  <2>1. /\ Busy(d) /\ calls[d].step = "settling" /\ calls[d].approval \in Approvals
        /\ Clean(calls[d].approval)
    BY RestoredWorks DEF Traces, RestoredIsClean
  <2>2. calls[d].approval # a
    BY <1>1, <2>1 DEF MutationInv, WorkersApart, a
  <2> QED
    BY <1>5, <2>1, <2>2
<1>9. RecoveredIsClean'
  BY <1>1 DEF RecoveredIsClean
<1> QED
  BY <1>6, <1>7, <1>8, <1>9 DEF Traces

LEMMA ApplyFailsLeavesNothing ==
    ASSUME MutationInv, MutationInv', Traces, NEW c \in Callers,
           NEW r \in Rollbacks(calls[c].approval), ApplyFails(c, r)
    PROVE  Traces'
<1>1. /\ calls[c] \in Call /\ calls[c].approval \in Approvals
      /\ file' = r.file /\ UNCHANGED <<ledger, accepted, recovered>>
  BY DEF ApplyFails, durable, MutationInv, MutationTypeOK, Call
<1>2. /\ calls'[c].step = "settling" /\ calls'[c].approval = calls[c].approval
      /\ calls'[c].restored = "yes" => r.ok
      /\ \A d \in Callers : d # c => calls'[d] = calls[d]
  BY <1>1 DEF ApplyFails, MutationInv, MutationTypeOK, Call
<1>3. Moves /\ (r.ok => \A skill \in {file', accepted'} :
                    skill.by = calls[c].approval => skill.bytes = ledger[calls[c].approval].before.bytes)
  BY <1>1, RollbackCleans
<1>4. calls'[c].restored = "yes" => Clean(calls[c].approval)'
  BY <1>1, <1>2, <1>3 DEF Clean
<1> QED
  BY <1>1, <1>2, <1>3, <1>4, CallLeavesNothing
LEMMA CommitLeavesNothing ==
    ASSUME MutationInv, MutationInv', Traces, NEW c \in Callers, NEW o \in Outcomes, Commit(c, o)
    PROVE  Traces'
<1> DEFINE a == calls[c].approval
<1>1. /\ Busy(c) /\ calls[c] \in Call /\ a \in Approvals /\ recovered = {} /\ recovered' = {}
      /\ calls[c].step = "written" /\ file' = file /\ accepted' \in {accepted, file}
  BY WorkerFacts DEF Commit, Busy, Write, durable
<1>2. calls[c].restored # "yes"
  BY <1>1 DEF Traces, RestoredIsClean
<1>3. calls'[c].restored # "yes" /\ \A d \in Callers : d # c => calls'[d] = calls[d]
  BY <1>1, <1>2 DEF Commit, Over, Goes, NoCall, MutationInv, MutationTypeOK, Call
<1>4. ledger' = ledger \/ ledger' = [ledger EXCEPT ![a] = Completed(ledger[a])]
  BY DEF Commit, Write, durable
<1>5. Completed(ledger[a]).status = "committed"
  BY DEF Completed
<1> HIDE DEF a
<1>6. \A b \in Approvals : ledger'[b] = ledger[b] \/ (b = a /\ ledger'[b].status = "committed")
  BY <1>4, <1>5 DEF MutationInv, MutationTypeOK
<1>7. ASSUME NEW d \in Callers, calls'[d].restored = "yes"
      PROVE  /\ calls'[d] = calls[d]
             /\ ledger'[calls[d].approval].before = ledger[calls[d].approval].before
  <2>1. d # c /\ calls'[d] = calls[d]
    BY <1>3, <1>7
  <2>2. Busy(d) /\ calls[d].approval \in Approvals
    BY <1>7, <2>1, RestoredWorks
  <2>3. calls[d].approval # a
    BY <1>1, <2>1, <2>2 DEF MutationInv, WorkersApart, a
  <2> QED
    BY <1>6, <2>1, <2>2, <2>3
<1> QED
  BY <1>1, <1>6, <1>7, MovesKeepTraces DEF Moves

(* The third transaction: the attempt is recorded as failed, without a flag  *)
(* only if its bytes were restored before, or are now.                       *)
LEMMA SettleLeavesNothing ==
    ASSUME MutationInv, MutationInv', Traces, NEW c \in Callers, NEW o \in Outcomes,
           NEW r \in Rollbacks(calls[c].approval) \cup {[ok |-> FALSE, file |-> file]},
           Settle(c, r, o)
    PROVE  Traces'
<1> DEFINE a == calls[c].approval
<1>1. /\ Busy(c) /\ calls[c] \in Call /\ a \in Approvals /\ ledger[a] \in Entries
      /\ recovered = {} /\ recovered' = {} /\ Over(c) /\ r.ok \in BOOLEAN
      /\ file' = r.file /\ accepted' \in {accepted, file'}
  <2>1. /\ Busy(c) /\ calls[c] \in Call /\ a \in Approvals /\ ledger[a] \in Entries
        /\ recovered = {} /\ recovered' = {} /\ Over(c)
    BY WorkerFacts DEF Settle, Busy
  <2>2. r.ok \in BOOLEAN
    BY <2>1, RollbacksTyped DEF MutationInv
  <2>3. file' = r.file /\ accepted' \in {accepted, file'}
    BY DEF Settle, Write, durable
  <2> QED
    BY <2>1, <2>2, <2>3
<1>2. calls'[c].restored # "yes" /\ \A d \in Callers : d # c => calls'[d] = calls[d]
  BY <1>1 DEF Over, NoCall, MutationInv, MutationTypeOK
<1>3. /\ Moves
      /\ r.ok \/ a \notin Journalled =>
           \A skill \in {file', accepted'} : skill.by = a => skill.bytes = ledger[a].before.bytes
  BY <1>1, RollbackCleans
<1>4. ASSUME NEW d \in Callers, calls'[d].restored = "yes"
      PROVE  /\ calls'[d] = calls[d] /\ calls[d].approval \in Approvals /\ calls[d].approval # a
  <2>1. d # c /\ calls'[d] = calls[d]
    BY <1>2, <1>4
  <2>2. Busy(d) /\ calls[d].approval \in Approvals
    BY <1>4, <2>1, RestoredWorks
  <2> QED
    BY <1>1, <2>1, <2>2 DEF MutationInv, WorkersApart
<1>5. CASE ledger' = ledger
  BY <1>1, <1>3, <1>4, <1>5, MovesKeepTraces
<1>6. CASE ledger' # ledger
  <2>1. /\ ledger[a].attempt = calls[c].attempt
        /\ ledger' = [ledger EXCEPT ![a] = Settled(c, r)]
    BY <1>6 DEF Settle, Write, durable
  <2>2. ledger[a].status = "committing" /\ a \notin receipts
    BY <1>1, <2>1 DEF MutationInv, MutationTypeOK, CommittedIffReceipt, WorkersOwn
  <2>3. PICK ok \in BOOLEAN : /\ Settled(c, r) = Failed(ledger[a], ok, a)
                              /\ ok => r.ok \/ (calls[c].restored = "yes" /\ file' = file)
    <3>1. CASE calls[c].restored # "unknown"
      <4>1. Settled(c, r) = Failed(ledger[a], calls[c].restored = "yes", a) /\ file' = file
        BY <1>1, <2>1, <2>2, <3>1 DEF Settle, Settled
      <4> QED
        BY <4>1
    <3>2. CASE calls[c].restored = "unknown"
      BY <1>1, <2>2, <3>2 DEF Settled, RecoverOrphan
    <3> QED
      BY <3>1, <3>2
  <2> DEFINE entry == Failed(ledger[a], ok, a)
  <2>4. entry.before = ledger[a].before /\ (~entry.flagged => ok \/ a \in Toggles)
    BY <1>1, FailedKeepsBefore
  <2>5. \A b \in Approvals : ledger'[b] = IF b = a THEN entry ELSE ledger[b]
    BY <2>1, <2>3 DEF MutationInv, MutationTypeOK
  <2>6. calls[c].restored = "yes" => Clean(a)
    BY DEF Traces, RestoredIsClean
  <2> HIDE DEF entry
  <2>7. ~entry.flagged =>
           \A skill \in {file', accepted'} : skill.by = a => skill.bytes = ledger[a].before.bytes
    <3>1. CASE calls[c].restored = "yes" /\ file' = file
      BY <1>1, <2>6, <3>1 DEF Clean
    <3>2. CASE r.ok \/ a \notin Journalled
      BY <1>3, <3>2
    <3> QED
      BY <2>3, <2>4, <3>1, <3>2
  <2> HIDE DEF a
  <2>8. ASSUME NEW b \in Approvals, ledger'[b].status = "failed", ~ledger'[b].flagged
        PROVE  Clean(b)' \/ ledger'[b] = ledger[b]
    BY <2>4, <2>5, <2>7, <2>8 DEF Clean
  <2> QED
    BY <1>1, <1>3, <1>4, <2>5, <2>8, MovesKeepTraces
<1> QED
  BY <1>5, <1>6

LEMMA TracesInitially == MutationInit => Traces
BY DEF MutationInit, Nothing, NoCall, Traces, OnlyJournalledWrite, RestoredIsClean,
   RecoveredIsClean, NothingLeftBehind

LEMMA StepLeavesNothing == MutationInv /\ MutationInv' /\ Traces /\ [MutationNext]_vars => Traces'
<1> SUFFICES ASSUME MutationInv, MutationInv', Traces, [MutationNext]_vars PROVE Traces'
  OBVIOUS
<1>1. ASSUME NEW c \in Callers, CallerNext(c)
      PROVE  Traces'
  <2>1. "done" \in Outcomes
    BY DEF Outcomes
  <2> QED
    BY <1>1, <2>1, PlainStepsLeaveNothing, ClaimLeavesNothing, BlockLeavesNothing,
       BeginApplyLeavesNothing, ApplyWritesLeavesNothing, ApplyFailsLeavesNothing,
       CommitLeavesNothing, SettleLeavesNothing DEF CallerNext
<1>2. TRUE \in BOOLEAN /\ "done" \in Outcomes
  BY DEF Outcomes
<1> QED
  BY <1>1, <1>2, PlainStepsLeaveNothing, CrashLeavesNothing, RecoverOneLeavesNothing,
     FinishRecoveryLeavesNothing DEF MutationNext

(* A change recorded as failed without asking for a repair has left none of  *)
(* its bytes on the disk or in the snapshot, but those that were there before *)
(* it, whatever crashed, failed to be written or was edited meanwhile         *)
(* (rollbackExternalEffect, recoverOrphan).  Nothing is claimed of a failure  *)
(* that is flagged for a repair, nor of the before-image in the ledger.       *)
THEOREM FailuresLeaveNothing == MutationSpec => []NothingLeftBehind
<1>1. MutationInv /\ MutationInv' /\ Traces /\ [MutationNext]_vars => Traces'
  BY StepLeavesNothing
<1>2. Traces => NothingLeftBehind
  BY DEF Traces
<1> QED
  BY <1>1, <1>2, TracesInitially, MutationInvariant, PTL DEF MutationSpec
=============================================================================
