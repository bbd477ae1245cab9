-------------------------- MODULE GlobalMutations --------------------------
(* Approved changes of the Global configuration (control-plane/mutations.ts)  *)
(* over the canonical application state (app/stores/app-state-store.ts). An   *)
(* approval is prepared, bound to a Question, answered, claimed by one        *)
(* attempt, applied and committed; the ledger and the receipts live in one    *)
(* file that is written atomically, while the bytes of a Skill live in a file *)
(* of their own. Transactions of the canonical state queue behind each other; *)
(* the program may crash between any two steps, and whoever has access to the *)
(* disk may edit the Skill at any time.                                       *)
(*                                                                            *)
(* Abstractions. One Skill: what the approvals with a journal write. Two      *)
(* reads of a file within one function happen together. A value of the file   *)
(* carries who put its bytes there ("by"), a history the code does not keep   *)
(* and no guard reads.                                                        *)
EXTENDS Naturals, FiniteSets

CONSTANTS
    Approvals,      \* ids of prepared mutations
    Callers,        \* calls of commitGlobalMutationApproved that may overlap
    Journalled,     \* the approvals that write the Skill (skills.add, .create, .update)
    Toggles,        \* the approvals of type generated-actions.toggle
    Bytes,          \* contents of the Skill file
    Wants,          \* what an approved mutation writes
    MaxAttempts     \* bound: attempts ever claimed

NoFile == "no file"
Someone == "someone"        \* a user in the Telegram UI, or with access to the disk

ASSUME MutationAssumption ==
    /\ Approvals # {}
    /\ Journalled \subseteq Approvals
    /\ Toggles \subseteq Approvals \ Journalled
    /\ Wants \in [Approvals -> Bytes]
    /\ NoFile \notin Bytes
    /\ Someone \notin Approvals
    /\ MaxAttempts \in Nat

VARIABLES
    ledger,         \* durable: the record of each approval
    receipts,       \* durable: approvals with a canonical receipt
    accepted,       \* durable: the Skill as the canonical snapshot holds it
    file,           \* durable: the Skill on the disk
    expired,        \* approvals whose fifteen minutes are over
    phase,          \* "recovering" at startup, then "up"
    recovered,      \* results of the startup recovery not yet written
    active,         \* activeCommits: the attempt of this process, 0 for none
    minted,         \* attempts claimed so far (their ids are fresh)
    calls,          \* what each caller is doing
    runs            \* history: how often the change of an approval was started

durable == <<ledger, receipts, accepted>>
memory == <<phase, recovered, active, minted, calls>>
vars == <<ledger, receipts, accepted, file, expired, phase, recovered, active, minted, calls, runs>>

Contents == Bytes \cup {NoFile}
Versions == [bytes : Contents, by : Approvals \cup {Someone}]
Statuses == {"none", "pending", "approved", "rejected", "committing", "committed", "failed"}
Entries == [status : Statuses, bound : BOOLEAN, attempt : 0..MaxAttempts,
            before : Versions, flagged : BOOLEAN]
Steps == {"idle", "claimed", "applying", "written", "settling"}
Call == [step : Steps, approval : Approvals, attempt : 0..MaxAttempts,
         restored : {"unknown", "yes", "no"}]

Nothing == [bytes |-> NoFile, by |-> Someone]
NoCall == [step |-> "idle", approval |-> CHOOSE a \in Approvals : TRUE, attempt |-> 0,
           restored |-> "unknown"]

(* Writing the bytes that are there already changes nothing. *)
Put(old, bytes, by) == IF old.bytes = bytes THEN old ELSE [bytes |-> bytes, by |-> by]

----------------------------------------------------------------------------
(* The program starts with the recovery of what a previous run left. *)
MutationInit ==
    /\ ledger = [a \in Approvals |-> [status |-> "none", bound |-> FALSE, attempt |-> 0,
                                      before |-> Nothing, flagged |-> FALSE]]
    /\ receipts = {}
    /\ accepted = Nothing
    /\ file = Nothing
    /\ expired = {}
    /\ phase = "recovering"
    /\ recovered = {}
    /\ active = [a \in Approvals |-> 0]
    /\ minted = 0
    /\ calls = [c \in Callers |-> NoCall]
    /\ runs = [a \in Approvals |-> 0]

(* A transaction waits for the one in front of it; only the transaction that *)
(* runs an approved change lasts longer than a step of this model.           *)
QueueFree == phase = "up" /\ \A c \in Callers : calls[c].step \notin {"applying", "written"}

(* How a write of the canonical file ends: done, failed with the old file in *)
(* place, or failed after the rename, when the directory could not be synced.*)
Outcomes == {"done", "lost", "late"}
Kept(outcome) == outcome # "lost"

(* What a transaction that is kept writes: the ledger, the receipts, and the *)
(* Skill as it is on the disk, which every transaction reads again.          *)
Write(outcome, newLedger, newReceipts, skill) ==
    IF Kept(outcome)
    THEN ledger' = newLedger /\ receipts' = newReceipts /\ accepted' = skill
    ELSE UNCHANGED durable

Completed(entry) == [status |-> "committed", bound |-> entry.bound, attempt |-> 0,
                     before |-> Nothing, flagged |-> FALSE]

(* A mutant: the result of the restoration is not looked at. *)
Failed_Unflagged(entry, restored, a) == [entry EXCEPT !.status = "failed", !.flagged = FALSE]

Failed(entry, restored, a) ==
    [entry EXCEPT !.status = "failed", !.flagged = ~restored /\ a \notin Toggles]

(* A mutant: the canonical snapshot is not consulted before bytes are restored. *)
MayRestore_AnySnapshot(a) ==
    a \in Journalled /\ file.bytes \in {ledger[a].before.bytes, Wants[a]}

(* Restore the bytes before the attempt: only over the bytes the attempt     *)
(* writes, and only while the canonical snapshot holds those before it, which*)
(* then has them from whom it says. The disk may fail before the change or   *)
(* after it.                                                                 *)
MayRestore(a) ==
    /\ a \in Journalled
    /\ accepted.bytes = ledger[a].before.bytes
    /\ file.bytes \in {ledger[a].before.bytes, Wants[a]}
Restored(a) == IF accepted.bytes = ledger[a].before.bytes THEN accepted ELSE ledger[a].before
Rollbacks(a) ==
    IF MayRestore(a)
    THEN {[ok |-> TRUE, file |-> Restored(a)],
          [ok |-> FALSE, file |-> file], [ok |-> FALSE, file |-> Restored(a)]}
    ELSE {[ok |-> FALSE, file |-> file]}

(* A mutant: an orphan goes back to "approved", to be tried again. *)
RecoverOrphan_Retries(a, rollback) ==
    IF a \in receipts THEN Completed(ledger[a])
    ELSE IF rollback.ok THEN [ledger[a] EXCEPT !.status = "approved"]
    ELSE Failed(ledger[a], FALSE, a)

(* What is known of an interrupted attempt: done if it has its receipt, else *)
(* failed, and never run again.                                              *)
RecoverOrphan(a, rollback) ==
    IF a \in receipts THEN Completed(ledger[a]) ELSE Failed(ledger[a], rollback.ok, a)
Live(a) == ledger[a].attempt # 0 /\ active[a] = ledger[a].attempt
Orphans == {a \in Approvals :
              /\ \/ ledger[a].status = "committing"
                 \/ ledger[a].status = "failed" /\ a \in receipts
              /\ ~Live(a)}

----------------------------------------------------------------------------
(* prepareGlobalMutation .. handleApprovedGlobalQuestion: transactions that  *)
(* only change the ledger (one that is not kept changes nothing at all).     *)
Enter(a, entry) ==
    /\ QueueFree
    /\ ledger' = [ledger EXCEPT ![a] = entry]
    /\ accepted' = file
    /\ UNCHANGED <<receipts, file, expired, memory, runs>>

Prepare(a) ==
    /\ ledger[a].status = "none"
    /\ Enter(a, [ledger[a] EXCEPT !.status = "pending"])

BindQuestion(a) ==
    /\ ledger[a].status = "pending" /\ ~ledger[a].bound /\ a \notin expired
    /\ Enter(a, [ledger[a] EXCEPT !.bound = TRUE])

Answer(a, approves) ==
    /\ ledger[a].status = "pending" /\ ledger[a].bound /\ a \notin expired
    /\ Enter(a, [ledger[a] EXCEPT !.status = IF approves THEN "approved" ELSE "rejected"])

Expire(a) ==
    /\ ledger[a].status # "none" /\ a \notin expired
    /\ expired' = expired \cup {a}
    /\ UNCHANGED <<durable, file, memory, runs>>

----------------------------------------------------------------------------
(* The first transaction of commitGlobalMutationApproved. *)
Idle(c) == calls[c].step = "idle"

(* A change with its receipt is reported, not repeated. *)
Replay(c, a) ==
    /\ QueueFree /\ Idle(c) /\ a \in receipts
    /\ ledger[a].status \in {"approved", "committing", "committed", "failed"}
    /\ ledger' = [ledger EXCEPT ![a] = Completed(ledger[a])]
    /\ accepted' = file
    /\ UNCHANGED <<receipts, file, expired, memory, runs>>

(* A live attempt is joined: the caller hears "committing" and the ledger is *)
(* written as it was.                                                        *)
Join(c, a) ==
    /\ QueueFree /\ Idle(c) /\ a \notin receipts
    /\ ledger[a].status = "committing" /\ Live(a)
    /\ accepted' = file
    /\ UNCHANGED <<ledger, receipts, file, expired, memory, runs>>

(* An interrupted attempt is settled and the caller asks for a new approval. *)
Block(c, a, rollback, outcome) ==
    /\ QueueFree /\ Idle(c) /\ a \notin receipts
    /\ ledger[a].status \in {"committing", "committed"}
    /\ ~(ledger[a].status = "committing" /\ Live(a))
    /\ rollback \in Rollbacks(a)
    /\ file' = rollback.file
    /\ Write(outcome, [ledger EXCEPT ![a] = RecoverOrphan(a, rollback)], receipts, file')
    /\ UNCHANGED <<expired, memory, runs>>

(* An approved change is claimed, with the bytes that are there now. *)
Claimed(a, attempt) ==
    [ledger[a] EXCEPT !.status = "committing", !.attempt = attempt,
                      !.before = IF a \in Journalled THEN file ELSE Nothing]
Claimable(a) == ledger[a].status = "approved" /\ a \notin expired /\ a \notin receipts

Claim(c, a, outcome) ==
    /\ QueueFree /\ Idle(c) /\ Claimable(a)
    /\ minted < MaxAttempts
    /\ minted' = minted + 1
    /\ Write(outcome, [ledger EXCEPT ![a] = Claimed(a, minted')], receipts, file)
    /\ IF outcome = "done"
       THEN /\ active' = [active EXCEPT ![a] = minted']
            /\ calls' = [calls EXCEPT ![c] = [step |-> "claimed", approval |-> a,
                                              attempt |-> minted', restored |-> "unknown"]]
       ELSE UNCHANGED <<active, calls>>
    /\ UNCHANGED <<file, expired, phase, recovered, runs>>

----------------------------------------------------------------------------
(* The second transaction: the change, and its commit with the receipt. *)
Goes(c, step) == calls' = [calls EXCEPT ![c].step = step]

BeginApply(c) ==
    /\ QueueFree /\ calls[c].step = "claimed" /\ calls[c].approval \notin receipts
    /\ Goes(c, "applying")
    /\ runs' = [runs EXCEPT ![calls[c].approval] = @ + 1]
    /\ UNCHANGED <<durable, file, expired, phase, recovered, active, minted>>

ApplyWrites(c) ==
    LET a == calls[c].approval IN
    /\ calls[c].step = "applying"
    /\ file' = IF a \in Journalled THEN Put(file, Wants[a], a) ELSE file
    /\ Goes(c, "written")
    /\ UNCHANGED <<durable, expired, phase, recovered, active, minted, runs>>

(* The change throws, before or after it wrote; what it wrote is restored    *)
(* before the queue is released, and the transaction is given up.            *)
ApplyFails(c, rollback) ==
    /\ calls[c].step \in {"applying", "written"}
    /\ rollback \in Rollbacks(calls[c].approval)
    /\ file' = rollback.file
    /\ calls' = [calls EXCEPT ![c].step = "settling",
                              ![c].restored = IF rollback.ok THEN "yes" ELSE "no"]
    /\ UNCHANGED <<durable, expired, phase, recovered, active, minted, runs>>

(* A mutant: the end of an attempt is only noted when it was committed. *)
Over_KeepsActive(c) ==
    /\ active' = IF calls[c].attempt \in Nat /\ ledger'[calls[c].approval].status = "committed"
                 THEN [active EXCEPT ![calls[c].approval] = 0] ELSE active
    /\ calls' = [calls EXCEPT ![c] = NoCall]

(* The attempt is over: activeCommits forgets it. *)
Over(c) ==
    /\ active' = IF active[calls[c].approval] = calls[c].attempt
                 THEN [active EXCEPT ![calls[c].approval] = 0] ELSE active
    /\ calls' = [calls EXCEPT ![c] = NoCall]

Commit(c, outcome) ==
    LET a == calls[c].approval IN
    /\ calls[c].step = "written"
    /\ Write(outcome, [ledger EXCEPT ![a] = Completed(ledger[a])], receipts \cup {a}, file)
    /\ IF outcome = "done" THEN Over(c) ELSE Goes(c, "settling") /\ UNCHANGED active
    /\ UNCHANGED <<file, expired, phase, recovered, minted, runs>>

(* The third transaction, after a failure: the attempt is recorded as failed,*)
(* unless the ledger no longer names it.                                     *)
Settled(c, rollback) ==
    LET a == calls[c].approval IN
    IF calls[c].restored # "unknown" /\ a \notin receipts
    THEN Failed(ledger[a], calls[c].restored = "yes", a)
    ELSE RecoverOrphan(a, rollback)
Settle(c, rollback, outcome) ==
    LET a == calls[c].approval
        undo == calls[c].restored = "unknown" /\ a \notin receipts IN
    /\ QueueFree /\ calls[c].step = "settling"
    /\ IF ledger[a].attempt = calls[c].attempt
       THEN /\ rollback \in IF undo THEN Rollbacks(a) ELSE {[ok |-> FALSE, file |-> file]}
            /\ file' = rollback.file
            /\ Write(outcome, [ledger EXCEPT ![a] = Settled(c, rollback)], receipts, file')
       ELSE /\ rollback = [ok |-> FALSE, file |-> file]
            /\ Write(outcome, ledger, receipts, file)
            /\ UNCHANGED file
    /\ Over(c)
    /\ UNCHANGED <<expired, phase, recovered, minted, runs>>

----------------------------------------------------------------------------
(* Other writers: the Telegram UI changes the Skill in a transaction of its  *)
(* own (runTrustedTelegramGlobalMutation), an empty transaction reads the    *)
(* snapshot (readGlobalSnapshot), and anybody may edit the file.             *)
UIWrite(bytes, outcome) ==
    /\ QueueFree
    /\ file' = Put(file, bytes, Someone)
    /\ Write(outcome, ledger, receipts, file')
    /\ UNCHANGED <<expired, memory, runs>>

ReadSnapshot ==
    /\ QueueFree
    /\ accepted' = file
    /\ UNCHANGED <<ledger, receipts, file, expired, memory, runs>>

ExternalEdit(bytes) ==
    /\ file' = Put(file, bytes, Someone)
    /\ UNCHANGED <<durable, expired, memory, runs>>

(* Only the two files survive. *)
Crash ==
    /\ phase' = "recovering"
    /\ recovered' = {}
    /\ active' = [a \in Approvals |-> 0]
    /\ calls' = [c \in Callers |-> NoCall]
    /\ UNCHANGED <<durable, file, expired, minted, runs>>

(* recoverInterruptedGlobalMutationApprovals, before any request is accepted:*)
(* the Skill is restored orphan by orphan, the ledger is written at the end. *)
(* A failed write ends the process, which is a crash.                        *)
RecoverOne(a, rollback) ==
    /\ phase = "recovering"
    /\ a \in Orphans /\ a \notin {r.approval : r \in recovered}
    /\ rollback \in IF a \in receipts THEN {[ok |-> FALSE, file |-> file]} ELSE Rollbacks(a)
    /\ file' = rollback.file
    /\ recovered' = recovered \cup {[approval |-> a, entry |-> RecoverOrphan(a, rollback)]}
    /\ UNCHANGED <<durable, expired, phase, active, minted, calls, runs>>

FinishRecovery ==
    /\ phase = "recovering"
    /\ Orphans = {r.approval : r \in recovered}
    /\ ledger' = [a \in Approvals |->
                    IF a \in Orphans THEN (CHOOSE r \in recovered : r.approval = a).entry
                    ELSE ledger[a]]
    /\ accepted' = file
    /\ phase' = "up"
    /\ recovered' = {}
    /\ UNCHANGED <<receipts, file, expired, active, minted, calls, runs>>

----------------------------------------------------------------------------
CallerNext(c) ==
    \/ \E a \in Approvals : Replay(c, a) \/ Join(c, a)
    \/ \E a \in Approvals, o \in Outcomes : Claim(c, a, o)
    \/ \E a \in Approvals, o \in Outcomes : \E r \in Rollbacks(a) : Block(c, a, r, o)
    \/ BeginApply(c)
    \/ ApplyWrites(c)
    \/ \E r \in Rollbacks(calls[c].approval) : ApplyFails(c, r)
    \/ \E o \in Outcomes : Commit(c, o)
    \/ \E o \in Outcomes : \E r \in Rollbacks(calls[c].approval) \cup {[ok |-> FALSE, file |-> file]} :
          Settle(c, r, o)

MutationNext ==
    \/ \E a \in Approvals :
          \/ Prepare(a) \/ BindQuestion(a) \/ Expire(a)
          \/ \E approves \in BOOLEAN : Answer(a, approves)
    \/ \E c \in Callers : CallerNext(c)
    \/ \E bytes \in Contents : ExternalEdit(bytes) \/ (\E o \in Outcomes : UIWrite(bytes, o))
    \/ ReadSnapshot
    \/ Crash
    \/ \E a \in Approvals : \E r \in Rollbacks(a) \cup {[ok |-> FALSE, file |-> file]} : RecoverOne(a, r)
    \/ FinishRecovery

(* Promises settle once the queue, which is first in first out, reaches them: *)
(* a caller is not passed over for ever.                                      *)
Advances(c) ==
    \/ BeginApply(c)
    \/ \E o \in Outcomes : \E r \in Rollbacks(calls[c].approval) \cup {[ok |-> FALSE, file |-> file]} :
          Settle(c, r, o)
Works(c) ==
    \/ ApplyWrites(c)
    \/ \E r \in Rollbacks(calls[c].approval) : ApplyFails(c, r)
    \/ \E o \in Outcomes : Commit(c, o)

MutationSpec == MutationInit /\ [][MutationNext]_vars
MutationFairness == \A c \in Callers : SF_vars(Advances(c)) /\ WF_vars(Works(c))
FairMutationSpec == MutationSpec /\ MutationFairness

----------------------------------------------------------------------------
(* The state has its type; an approval without an attempt that may be under  *)
(* way or has failed holds neither an attempt nor bytes of the Skill.        *)
MutationTypeOK ==
    /\ ledger \in [Approvals -> Entries]
    /\ \A a \in Approvals : ledger[a].status \notin {"committing", "failed"} =>
          ledger[a].attempt = 0 /\ ledger[a].before = Nothing
    /\ receipts \subseteq Approvals
    /\ accepted \in Versions /\ file \in Versions
    /\ expired \subseteq Approvals
    /\ phase \in {"recovering", "up"}
    /\ recovered \subseteq [approval : Approvals, entry : Entries]
    /\ active \in [Approvals -> 0..MaxAttempts]
    /\ minted \in 0..MaxAttempts
    /\ calls \in [Callers -> Call]
    /\ runs \in [Approvals -> Nat]

(* One approval is one execution: whatever is called again, fails to be      *)
(* written or crashes, the change is started at most once, and only after it *)
(* was approved and claimed.                                                 *)
RunsAtMostOnce ==
    \A a \in Approvals :
      /\ runs[a] <= 1
      /\ runs[a] = 1 => ledger[a].status \in {"committing", "committed", "failed"}

(* The ledger says "committed" of exactly the changes with a canonical       *)
(* receipt, so a repeated call is answered with what really happened.        *)
CommittedIffReceipt ==
    \A a \in Approvals : ledger[a].status = "committed" <=> a \in receipts

(* activeCommits names an attempt exactly while a call works on it: a leaked *)
(* entry would answer "committing" for ever and keep the recovery away.      *)
ActiveIffWorking ==
    \A a \in Approvals :
      active[a] # 0 <=> \E c \in Callers : /\ calls[c].step # "idle"
                                            /\ calls[c].approval = a
                                            /\ calls[c].attempt = active[a]

(* A change that is recorded as failed without asking for a repair has left  *)
(* none of its bytes, neither on the disk nor in the canonical snapshot,     *)
(* other than those that were there before it.                               *)
NothingLeftBehind ==
    \A a \in Approvals :
      ledger[a].status = "failed" /\ ~ledger[a].flagged =>
        \A skill \in {file, accepted} :
          skill.by = a => skill.bytes = ledger[a].before.bytes

(* "A later canonical writer may have deliberately accepted these same bytes.*)
(* Never undo it": a recovery does not change a Skill that is on the disk as *)
(* the canonical snapshot holds it.                                          *)
Recovers ==
    \/ \E c \in Callers : /\ calls[c].step \in {"applying", "written", "settling"}
                          /\ calls'[c].step \in {"settling", "idle"} /\ calls'[c].step # calls[c].step
    \/ recovered' # recovered
    \/ ledger' # ledger /\ file' # file /\ calls' = calls
NeverUndoesAccepted ==
    [][Recovers /\ file.bytes = accepted.bytes => file'.bytes = file.bytes]_vars

(* An attempt that was claimed is over at some time, committed, failed or    *)
(* interrupted, if the change it runs returns.                               *)
AttemptsEnd == \A a \in Approvals : []<>(active[a] = 0)

=============================================================================
