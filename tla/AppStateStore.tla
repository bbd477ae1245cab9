---------------------------- MODULE AppStateStore ----------------------------
(***************************************************************************)
(* The file that holds the canonical state of the bot,                     *)
(* app/stores/app-state-store.ts, with the Global revision that            *)
(* control-plane/global-state.ts computes inside each of its transactions. *)
(*                                                                         *)
(* A promise queue runs one transaction at a time: read (the backup when   *)
(* the primary cannot be read), apply, compute the revision, write a       *)
(* temporary file, copy the primary over the backup, rename, sync the      *)
(* directory.  Each of these is an await, so each is a step here.  Not in  *)
(* the queue: the two removals that follow a factory reset.                *)
(***************************************************************************)
EXTENDS Integers, Sequences

CONSTANTS
    Changes,        \* updates of the state, each by a caller of its own
    Global,         \* those that change what a Global snapshot contains
    Approved,       \* those that carry an approvalId and leave a receipt
    Reset,          \* the factory reset
    None, Missing, Broken,
    MaxRevision,    \* bound: no new call once this revision is reached
    MaxFaults       \* bound on failures, crashes and corruptions

Calls == Changes \cup {Reset}
States == [holds : SUBSET Changes, revision : Int]
Files == States \cup {Missing, Broken}

ASSUME StoreAssumption ==
    /\ Global \subseteq Changes
    /\ Approved \subseteq Changes
    /\ Reset \notin Changes
    /\ None \notin Calls
    /\ Missing \notin States
    /\ Broken \notin States
    /\ Missing # Broken
    /\ MaxRevision \in Nat
    /\ MaxFaults \in Nat

VARIABLES
    primary, backup, temp,  \* app-state.json, its .bak and its .tmp
    undo,           \* the primary before a rename the directory sync has not confirmed
    queue,          \* writeQueue: the calls that wait
    running, step,  \* the transaction at the head, and what it does next
    base,           \* previous: the state it read
    known,          \* knownSnapshots: the state last broadcast, Fresh for none
    purge,          \* removals of a factory reset still to run
    outcome,        \* [Calls -> what the caller has been told]
    faults,         \* how many failures, crashes and corruptions there were
    sound,          \* history: nothing has damaged the files or their reading
    exposed,        \* history: the primary was damaged while it was, or was to
                    \* become, the only copy; a reset took the file of another
                    \* transaction, or the one copy a damage had left
    erased          \* history: what resets erased and nobody wrote again

files == <<primary, backup, temp, undo>>
work == <<queue, running, step, base>>
storeVars == <<files, work, known, purge, outcome, faults, sound, exposed, erased>>

Fresh == [holds |-> {}, revision |-> -1]

Steps == {"idle", "apply", "open", "write", "copy", "rename", "sync"}

StoreTypeOK ==
    /\ {primary, backup, temp, undo} \subseteq Files
    /\ queue \in Seq(Calls)
    /\ running \in Calls \cup {None}
    /\ step \in Steps
    /\ base \in States
    /\ known \in States
    /\ purge \subseteq {"backup", "temp"}
    /\ outcome \in [Calls -> {"idle", "waiting", "written", "settled", "done", "failed", "lost"}]
    /\ faults \in Nat
    /\ {sound, exposed} \subseteq BOOLEAN
    /\ erased \subseteq Changes

-----------------------------------------------------------------------------
(* What is read and what is computed.                                      *)

(* readCurrentState; Broken stands for `both are unusable'. *)
Readable(p, b) ==
    IF p \in States THEN p
    ELSE IF b \in States THEN b
    ELSE IF p = Missing /\ b = Missing THEN Fresh
    ELSE Broken

ReadState == Readable(primary, backup)

(* materializeGlobalSnapshot, as far as contentHash tells contents apart. *)
Content(s) == s.holds \cap Global

(* revisionAppState: the revision counts the changes of the content. *)
Revised(s, held) ==
    [holds |-> held,
     revision |-> (IF s.revision = -1 THEN 0 ELSE s.revision)
                  + (IF held \cap Global = Content(s) THEN 0 ELSE 1)]

After == [c \in Calls |-> [s \in States |->
             Revised(s, IF c = Reset THEN {} ELSE s.holds \cup {c})]]

Superseded_Never(s) == FALSE

(* A snapshot older than the one this process broadcast, or another of its age. *)
Superseded(s) ==
    /\ known # Fresh
    /\ \/ s.revision < known.revision
       \/ s.revision = known.revision /\ Content(s) # Content(known)

Receipt(c, s) == c \in Approved /\ c \in s.holds

StoreInit ==
    /\ primary = Missing
    /\ backup = Missing
    /\ temp = Missing
    /\ undo = Missing
    /\ queue = <<>>
    /\ running = None
    /\ step = "idle"
    /\ base = Fresh
    /\ known = Fresh
    /\ purge = {}
    /\ outcome = [c \in Calls |-> "idle"]
    /\ faults = 0
    /\ sound = TRUE
    /\ exposed = FALSE
    /\ erased = {}

-----------------------------------------------------------------------------
(* The queue and its transactions.                                         *)

Tell(c, o) == outcome' = [outcome EXCEPT ![c] = o]

(* The transaction ends, and its caller is told. *)
Ends(o) ==
    /\ Tell(running, o)
    /\ running' = None
    /\ step' = "idle"
    /\ base' = Fresh
    /\ UNCHANGED queue

Goes(from, to) ==
    /\ step = from
    /\ step' = to
    /\ UNCHANGED <<queue, running, base>>

Quiet == UNCHANGED <<faults, sound, exposed>>

Call(c) ==
    /\ outcome[c] \in {"idle", "done", "failed", "lost"}
    /\ \A f \in {primary, backup} : f \in States => f.revision < MaxRevision
    /\ c = Reset => purge = {}
    /\ queue' = Append(queue, c)
    /\ Tell(c, "waiting")
    /\ UNCHANGED <<files, running, step, base, known, purge, erased>> /\ Quiet

(* s is the state the read returns, Broken if it throws. *)
Starts(s) ==
    /\ running = None
    /\ queue # <<>>
    /\ queue' = Tail(queue)
    /\ IF s = Broken
         THEN /\ Tell(Head(queue), "failed")
              /\ UNCHANGED <<running, step, base>>
         ELSE /\ running' = Head(queue)
              /\ step' = "apply"
              /\ base' = s
              /\ UNCHANGED outcome
    /\ UNCHANGED <<files, known, purge, erased>>

(* A queue chained on the result itself stops at its first failure. *)
Begin_AfterSuccess ==
    /\ \A c \in Calls : outcome[c] # "failed"
    /\ Starts(ReadState)
    /\ Quiet

Begin == Starts(ReadState) /\ Quiet

(* The queue is released; a factory reset goes on outside it, with its     *)
(* two removals.                                                           *)
Finishes ==
    /\ Ends(IF running = Reset THEN "settled" ELSE "done")
    /\ known' = After[running][base]
    /\ purge' = IF running = Reset THEN {"backup", "temp"} ELSE purge

(* Mutant: a reset that finds nothing to erase has nothing to remove.      *)
Apply_NothingToRemove ==
    /\ step = "apply"
    /\ \/ Receipt(running, base) /\ Ends("done") /\ UNCHANGED <<known, purge>>
       \/ Superseded(base) /\ Ends("failed") /\ UNCHANGED <<known, purge>>
       \/ /\ ~Receipt(running, base) /\ ~Superseded(base)
          /\ IF After[running][base] = base
               THEN Ends("done") /\ known' = base /\ UNCHANGED purge
               ELSE Goes("apply", "open") /\ UNCHANGED <<known, purge, outcome>>
    /\ UNCHANGED <<files, faults, sound, exposed, erased>>

(* The callback runs; a receipt or an unchanged state needs no write.  The *)
(* removals of a reset follow all the same: they may take the backup that  *)
(* was read in place of a damaged primary.                                 *)
Apply ==
    /\ step = "apply"
    /\ IF Receipt(running, base)
         THEN Ends("done") /\ UNCHANGED <<known, purge, exposed>>
       ELSE IF Superseded(base)
         THEN Ends("failed") /\ UNCHANGED <<known, purge, exposed>>
       ELSE IF After[running][base] = base
         THEN Finishes /\ exposed' = (exposed \/ (running = Reset /\ primary \notin States))
       ELSE Goes("apply", "open") /\ UNCHANGED <<known, purge, outcome, exposed>>
    /\ UNCHANGED <<files, faults, sound, erased>>

(* The callback, or the materialisation of the snapshot, throws. *)
ApplyThrows ==
    /\ step = "apply"
    /\ ~Receipt(running, base)
    /\ Ends("failed")
    /\ UNCHANGED <<files, known, purge, erased>> /\ Quiet

Open_InPlace ==
    /\ Goes("open", "write")
    /\ temp' = Broken
    /\ primary' = Broken
    /\ UNCHANGED <<backup, undo, known, purge, outcome, erased>> /\ Quiet

Open ==
    /\ Goes("open", "write")
    /\ temp' = Broken
    /\ UNCHANGED <<primary, backup, undo, known, purge, outcome, erased>> /\ Quiet

Write ==
    /\ Goes("write", "copy")
    /\ temp' = IF temp = Missing THEN Missing ELSE After[running][base]
    /\ erased' = erased \ {running}
    /\ UNCHANGED <<primary, backup, undo, known, purge, outcome>> /\ Quiet

Copy ==
    /\ Goes("copy", "rename")
    /\ backup' = IF primary = Missing THEN backup ELSE primary
    /\ UNCHANGED <<primary, temp, undo, known, purge, outcome, erased>> /\ Quiet

Rename_Confirms ==
    /\ step = "rename"
    /\ temp # Missing
    /\ Ends("done")
    /\ primary' = temp
    /\ temp' = Missing
    /\ UNCHANGED <<backup, undo, known, purge, erased>> /\ Quiet

(* A reset that ended while this one ran may have removed the temporary file. *)
Rename ==
    /\ step = "rename"
    /\ IF temp = Missing
         THEN Ends("failed") /\ exposed' = TRUE /\ UNCHANGED <<files, erased>>
         ELSE /\ Goes("rename", "sync")
              /\ Tell(running, "written")
              /\ primary' = temp
              /\ temp' = Missing
              /\ undo' = primary
              /\ erased' = IF running = Reset THEN erased \cup base.holds ELSE erased
              /\ UNCHANGED <<backup, exposed>>
    /\ UNCHANGED <<known, purge, faults, sound>>

Sync ==
    /\ step = "sync"
    /\ Finishes
    /\ undo' = Missing
    /\ UNCHANGED <<primary, backup, temp, erased>> /\ Quiet

Purge(f) ==
    /\ f \in purge
    /\ purge' = purge \ {f}
    /\ IF f = "backup"
         THEN backup' = Missing /\ UNCHANGED temp
         ELSE temp' = Missing /\ UNCHANGED backup
    /\ IF purge' = {} /\ outcome[Reset] = "settled"
         THEN Tell(Reset, "done")
         ELSE UNCHANGED outcome
    /\ UNCHANGED <<primary, undo, work, known, erased>> /\ Quiet

-----------------------------------------------------------------------------
(* Failures.                                                               *)

Fault == faults < MaxFaults /\ faults' = faults + 1

(* An I/O error of the write: its temporary file is removed.  A copy that  *)
(* fails half-way leaves half a backup.                                    *)
WriteFails ==
    /\ Fault
    /\ step \in {"open", "write", "copy", "rename"}
    /\ Ends("failed")
    /\ temp' = Missing
    /\ backup' \in {backup} \cup (IF step = "copy" /\ primary # Missing THEN {Broken} ELSE {})
    /\ UNCHANGED <<primary, undo, known, purge, sound, exposed, erased>>

(* The caller hears of a failure, yet the new file is in its place. *)
SyncFails ==
    /\ Fault
    /\ step = "sync"
    /\ Ends("failed")
    /\ sound' = FALSE
    /\ undo' = Missing
    /\ UNCHANGED <<primary, backup, temp, known, purge, exposed, erased>>

PurgeFails(f) ==
    /\ Fault
    /\ f \in purge
    /\ purge' = purge \ {f}
    /\ outcome' = [outcome EXCEPT ![Reset] = IF @ = "settled" THEN "failed" ELSE @]
    /\ UNCHANGED <<files, work, known, sound, exposed, erased>>

(* The read of the primary fails for once: the backup is taken for it. *)
Misread ==
    /\ Fault
    /\ primary \in States
    /\ Starts(Readable(Broken, backup))
    /\ sound' = FALSE
    /\ UNCHANGED exposed

(* Something outside the bot damages the primary. *)
Corrupt ==
    /\ Fault
    /\ primary \in States
    /\ primary' = Broken
    /\ sound' = FALSE
    /\ exposed' = (exposed \/ backup \notin States \/ outcome[Reset] \in {"written", "settled"})
    /\ UNCHANGED <<backup, temp, undo, work, known, purge, outcome, erased>>

(* The copy of the backup is not synced, the rename not until the sync. *)
Unsynced ==
    \/ step = "rename" /\ primary # Missing
    \/ step = "sync" /\ undo # Missing

Crash ==
    /\ Fault
    /\ primary' \in {primary} \cup (IF step = "sync" THEN {undo} ELSE {})
    /\ backup' \in {backup} \cup (IF Unsynced THEN {Broken} ELSE {})
    /\ queue' = <<>>
    /\ running' = None
    /\ step' = "idle"
    /\ known' = Fresh
    /\ purge' = {}
    /\ outcome' = [c \in Calls |->
           IF outcome[c] \in {"waiting", "written", "settled"} THEN "lost" ELSE outcome[c]]
    /\ base' = Fresh
    /\ undo' = Missing
    /\ UNCHANGED <<temp, sound, exposed, erased>>

-----------------------------------------------------------------------------
Transaction ==
    Begin \/ Apply \/ ApplyThrows \/ Open \/ Write \/ Copy \/ Rename \/ Sync

StoreNext ==
    \/ \E c \in Calls : Call(c)
    \/ Transaction
    \/ \E f \in {"backup", "temp"} : Purge(f) \/ PurgeFails(f)
    \/ WriteFails
    \/ SyncFails
    \/ Misread
    \/ Corrupt
    \/ Crash

StoreSpec == StoreInit /\ [][StoreNext]_storeVars

(* Node runs every settled promise; a callback is assumed to return. *)
FairStoreSpec ==
    /\ StoreSpec
    /\ WF_storeVars(Transaction)
    /\ \A f \in {"backup", "temp"} : WF_storeVars(Purge(f))

-----------------------------------------------------------------------------
(* Properties.                                                             *)

(* What a power failure leaves: the rename may not have reached the disk.  *)
SafeState ==
    IF step # "sync" THEN ReadState ELSE IF undo = Missing THEN Fresh ELSE undo

(* While nothing damages the files, the state is one register: each call   *)
(* replaces the whole value by what it makes of that very value, so no     *)
(* update is lost; success is reported once no crash can take it back, and *)
(* a crash falls back at most to the value before an unreported call       *)
(* (docs/DISTRIBUTED_TOPIC_DELIVERY.md: `serialized atomic commit').       *)
Register == INSTANCE DurableRegister WITH
    Initial <- Fresh,
    value <- ReadState,
    safe <- SafeState

AtomicStore == Register!Spec

(* Between transactions the state can be read after any one failure, crash *)
(* or corruption (`trying backup'), unless that hit the only copy there is *)
(* or a reset removed the only good one: its removals do not ask whether   *)
(* the primary can be read, nor whose temporary file it is.                *)
OneFaultSurvived ==
    faults <= 1 /\ running = None /\ ~exposed => ReadState # Broken

(* Within one process the Global revision that Workers are sent never goes *)
(* back, and never names two contents, whatever file a read falls back to  *)
(* (`would overwrite a known newer revision').                             *)
BroadcastsAdvance ==
    [][known' # known /\ known' # Fresh =>
         \/ known'.revision > known.revision
         \/ known'.revision = known.revision /\ Content(known') = Content(known)]_storeVars

(* When a factory reset reports success, no file of the store holds what   *)
(* this or an earlier reset erased, although other transactions go on      *)
(* meanwhile, and also when it is the retry of a reset that failed or was  *)
(* interrupted and finds nothing to erase itself; damage apart.            *)
ResetPurges ==
    [][sound /\ outcome[Reset] # "done" /\ outcome'[Reset] = "done" =>
         \A f \in {primary', backup', temp'} : f \in States => f.holds \cap erased' = {}]_storeVars

(* Every call is answered, unless the process dies. *)
CallsEnd == \A c \in Calls : outcome[c] = "waiting" ~> outcome[c] \in {"done", "failed", "lost"}

=============================================================================
