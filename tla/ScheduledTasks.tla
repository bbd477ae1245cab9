--------------------------- MODULE ScheduledTasks ---------------------------
(***************************************************************************)
(* The scheduled tasks of the bot (scheduled-task-runtime-service.ts over   *)
(* scheduled-task-store.ts): the timers, the executions, the deliveries     *)
(* that wait for the foreground to be idle, the list's Delete button, the   *)
(* creation of a task, the factory reset and restarts of the process.       *)
(*                                                                         *)
(* An `await` ends a step.  A change of the store changes the memory at     *)
(* once (setScheduledTasks) and reaches the file when its write settles; a  *)
(* write that fails leaves the memory changed.  The caller goes on in a     *)
(* later step, after whatever the other callers did in between.             *)
(***************************************************************************)
EXTENDS Naturals, FiniteSets, Sequences

CONSTANTS Tasks,        \* the ids of tasks; randomUUID never repeats one
          Cron,         \* the recurring ones; the others run once
          None,         \* no task under this id, or no delivery
          MaxRuns,      \* bound: starts of one task in one life
          MaxFaults,    \* bound: writes of the settings and resets that fail
          MaxRestarts   \* bound: restarts of the process

ASSUME CronAssumption == Cron \subseteq Tasks
ASSUME BoundsAssumption == {MaxRuns, MaxFaults, MaxRestarts} \subseteq Nat
ASSUME NoneAssumption == None \notin Tasks

Statuses == {"idle", "running", "success", "error"}
TaskRecord == [status : Statuses, next : {"none", "later", "due"}]
ASSUME NoneIsNoRecord == None \notin TaskRecord

(***************************************************************************)
(* Where an execution stands: before its first update (begin), waiting for  *)
(* that write (marking), in the executor (executing), waiting for the write *)
(* of its outcome with the task still stored (saving), with the task gone   *)
(* (missing) or removed by itself (removing), for the second attempt's      *)
(* write (resaving, remissing), or flushing its delivery (sending).         *)
(***************************************************************************)
Phases == {"idle", "begin", "marking", "executing", "saving", "missing",
           "removing", "resaving", "remissing", "sending"}
Event == "event"               \* the flush started by an idle foreground
Owners == Tasks \cup {Event}
ASSUME EventAssumption == Event \notin Tasks

VARIABLES store,      \* the tasks in memory (settings.scheduledTasks)
          disk,       \* the tasks in app-state.json
          creating,   \* addScheduledTask called, write not settled
          deleting,   \* removeScheduledTask of the list called, not settled
          born,       \* ids given out
          gone,       \* tasks whose removal was confirmed to the user
          timers,     \* timersByTaskId
          running,    \* runningTaskIds
          exec,       \* where the execution of each task stands
          queue,      \* deliveryQueue: whose delivery
          flushing,   \* flushInProgress
          loop,       \* the delivery each flush in progress is sending
          busy,       \* foregroundSessionState.isBusy()
          resetting,  \* where the factory reset stands
          swept,      \* tasks whose timers it took, then those it erased
          stranded,   \* history: tasks that lost what would run them next
          runs,       \* starts of each task in this life
          faults, restarts

life == <<timers, running, exec, stranded, runs>>
deliveries == <<queue, flushing, loop>>
clients == <<creating, deleting, born, gone, resetting, swept>>
limits == <<faults, restarts>>
vars == <<store, disk, life, deliveries, clients, busy, limits>>

Present(t) == store[t] # None

Init ==
  /\ store = [t \in Tasks |-> None] /\ disk = store
  /\ creating = {} /\ deleting = {} /\ born = {} /\ gone = {}
  /\ timers = {} /\ running = {} /\ exec = [t \in Tasks |-> "idle"]
  /\ stranded = {} /\ runs = [t \in Tasks |-> 0]
  /\ queue = <<>> /\ flushing = FALSE /\ loop = [o \in Owners |-> None]
  /\ busy = FALSE /\ resetting = "no" /\ swept = {} /\ faults = 0 /\ restarts = 0

-----------------------------------------------------------------------------
(* Scheduling and starting.  Both are synchronous: they describe what the   *)
(* step that calls them does to the state of this life.                     *)

(* Mutant: startExecution without its check of runningTaskIds. *)
StartExecution_Unchecked(t, armed) ==
  /\ timers' = armed /\ UNCHANGED stranded
  /\ IF Present(t)
       THEN /\ runs[t] < MaxRuns
            /\ runs' = [runs EXCEPT ![t] = @ + 1]
            /\ running' = running \cup {t}
            /\ exec' = [exec EXCEPT ![t] = "begin"]
       ELSE UNCHANGED <<running, exec, runs>>

(* startExecution with a task that is due, or that is gone *)
StartExecution(t, armed) ==
  IF t \in running
    THEN /\ stranded' = stranded \cup {t} /\ timers' = armed
         /\ UNCHANGED <<running, exec, runs>>
    ELSE IF ~Present(t)
      THEN timers' = armed /\ UNCHANGED <<running, exec, stranded, runs>>
      ELSE /\ runs[t] < MaxRuns
           /\ runs' = [runs EXCEPT ![t] = @ + 1]
           /\ running' = running \cup {t}
           /\ exec' = [exec EXCEPT ![t] = "begin"]
           /\ timers' = armed /\ UNCHANGED stranded

(* Mutant: a next run that is already due is left to the timer of a later one. *)
ScheduleTask_LaterOnly(t, next) ==
  /\ timers' = IF next = "later" THEN timers \cup {t} ELSE timers \ {t}
  /\ UNCHANGED <<running, exec, stranded, runs>>

(* scheduleTask of a copy of the task whose next run is `next` *)
ScheduleTask(t, next) ==
  CASE next = "none"  -> timers' = timers \ {t} /\ UNCHANGED <<running, exec, stranded, runs>>
    [] next = "later" -> timers' = timers \cup {t} /\ UNCHANGED <<running, exec, stranded, runs>>
    [] next = "due"   -> StartExecution(t, timers \ {t})

(* The timer of a task fires.  One that is not due yet (the longest delay of *)
(* a timer is shorter) is armed again, which changes nothing.                *)
Fire(t) ==
  /\ t \in timers
  /\ IF Present(t)
       THEN store[t].next = "due" /\ StartExecution(t, timers \ {t})
       ELSE timers' = timers \ {t} /\ UNCHANGED <<running, exec, stranded, runs>>
  /\ UNCHANGED <<store, disk, deliveries, clients, busy, limits>>

(* The time of a task's next run passes. *)
Elapse(t) ==
  /\ Present(t) /\ store[t].next = "later"
  /\ store' = [store EXCEPT ![t].next = "due"]
  /\ UNCHANGED <<disk, life, deliveries, clients, busy, limits>>

(* The write a caller waits for settles: the settings reach the file, or the *)
(* write fails.                                                              *)
WriteSettles(ok) ==
  IF ok THEN disk' = store /\ UNCHANGED limits
        ELSE /\ faults < MaxFaults /\ faults' = faults + 1
             /\ UNCHANGED <<disk, restarts>>

-----------------------------------------------------------------------------
(* One execution: executeTask, handleSuccessfulExecution and                *)
(* handleFailedExecution.                                                   *)

(* Mutant: an update that inserts a task it does not find. *)
UpdateScheduledTask_Upsert(t, record) == store' = [store EXCEPT ![t] = record]

(* updateScheduledTask: no effect on a task that is gone *)
UpdateScheduledTask(t, record) ==
  store' = IF Present(t) THEN [store EXCEPT ![t] = record] ELSE store

(* the first update: the run is recorded before the executor is called *)
Mark(t) ==
  /\ exec[t] = "begin"
  /\ IF Present(t)
       THEN /\ UpdateScheduledTask(t, [store[t] EXCEPT !.status = "running"])
            /\ exec' = [exec EXCEPT ![t] = "marking"]
            /\ UNCHANGED <<timers, running, queue>>
       ELSE /\ exec' = [exec EXCEPT ![t] = "idle"]
            /\ timers' = timers \ {t} /\ running' = running \ {t}
            /\ queue' = SelectSeq(queue, LAMBDA d : d # t)
            /\ UNCHANGED store
  /\ UNCHANGED <<disk, stranded, runs, flushing, loop, clients, busy, limits>>

(* A failure of that first write is outside the try: the run is dropped, and *)
(* nothing schedules the task again in this life.                            *)
Marked(t) ==
  /\ exec[t] = "marking"
  /\ \E ok \in BOOLEAN :
       /\ WriteSettles(ok)
       /\ exec' = [exec EXCEPT ![t] = IF ok THEN "executing" ELSE "idle"]
       /\ running' = IF ok THEN running ELSE running \ {t}
       /\ stranded' = IF ok THEN stranded ELSE stranded \cup {t}
  /\ UNCHANGED <<store, timers, runs, deliveries, clients, busy>>

(* Mutant: a next run is computed whatever the kind of the task. *)
NextAfter_Recurring(t) == "later"

NextAfter(t) == IF t \in Cron THEN "later" ELSE "none"

(* The update that records an outcome.  `at` and `orGone` are the phases in *)
(* which the execution waits for the write, with the task stored or gone.   *)
SaveOutcome(t, status, at, orGone) ==
  /\ UpdateScheduledTask(t, [status |-> status, next |-> NextAfter(t)])
  /\ exec' = [exec EXCEPT ![t] = IF Present(t) THEN at ELSE orGone]

(* The executor ends: with a result, with an error, or past its deadline, in *)
(* the temporary session it ran in.  A task that runs once is removed.       *)
Finish(t) ==
  /\ exec[t] = "executing"
  /\ \/ SaveOutcome(t, "error", "saving", "missing")
     \/ t \in Cron /\ SaveOutcome(t, "success", "saving", "missing")
     \/ /\ t \notin Cron
        /\ store' = [store EXCEPT ![t] = None]
        /\ exec' = [exec EXCEPT ![t] = "removing"]
  /\ UNCHANGED <<disk, timers, running, stranded, runs, deliveries, clients, busy, limits>>

(* The catch of executeTask: the write of the outcome failed, so the run is  *)
(* recorded again, as an error.                                              *)
Retry(t) ==
  /\ exec[t] \in {"saving", "missing", "removing"}
  /\ WriteSettles(FALSE)
  /\ SaveOutcome(t, "error", "resaving", "remissing")
  /\ UNCHANGED <<timers, running, stranded, runs, deliveries, clients, busy>>

(* That failed too: it is logged, and the execution is over. *)
GiveUp(t) ==
  /\ exec[t] \in {"resaving", "remissing"}
  /\ WriteSettles(FALSE)
  /\ exec' = [exec EXCEPT ![t] = "idle"] /\ running' = running \ {t}
  /\ stranded' = stranded \cup {t}
  /\ UNCHANGED <<store, timers, runs, deliveries, clients, busy>>

(* What enqueueDelivery does with `rest` queued before it and the ids `left` *)
(* marked as running: the execution ends here unless it flushes the queue.   *)
EnqueueDelivery(t, rest, left) ==
  /\ queue' = Append(rest, t)
  /\ IF flushing \/ busy
       THEN /\ exec' = [exec EXCEPT ![t] = "idle"] /\ running' = left \ {t}
            /\ UNCHANGED <<flushing, loop>>
       ELSE /\ exec' = [exec EXCEPT ![t] = "sending"] /\ running' = left
            /\ flushing' = TRUE /\ loop' = [loop EXCEPT ![t] = Head(queue')]

(* The outcome is saved.  scheduleTask runs while the id is still marked as  *)
(* running: a next run that is already due is refused there.                 *)
Saved(t) ==
  /\ exec[t] \in {"saving", "missing", "resaving", "remissing"}
  /\ WriteSettles(TRUE)
  /\ IF exec[t] \in {"missing", "remissing"}
       THEN UNCHANGED <<timers, stranded>>
       ELSE LET next == IF Present(t) THEN store[t].next ELSE NextAfter(t) IN
            /\ timers' = IF next = "later" THEN timers \cup {t} ELSE timers \ {t}
            /\ stranded' = IF next = "due" THEN stranded \cup {t} ELSE stranded
  /\ EnqueueDelivery(t, queue, running)
  /\ UNCHANGED <<store, runs, clients, busy>>

(* removeTask: the timer, the mark and the deliveries of the task are dropped *)
Removed(t) ==
  /\ exec[t] = "removing"
  /\ WriteSettles(TRUE)
  /\ timers' = timers \ {t}
  /\ EnqueueDelivery(t, SelectSeq(queue, LAMBDA d : d # t), running \ {t})
  /\ UNCHANGED <<store, stranded, runs, clients, busy>>

-----------------------------------------------------------------------------
(* The flush of deferred deliveries.                                        *)

(* The loop of flush `o` is over; for an execution, that is its end. *)
EndFlush(o) ==
  /\ flushing' = FALSE /\ loop' = [loop EXCEPT ![o] = None]
  /\ exec' = IF o \in Tasks THEN [exec EXCEPT ![o] = "idle"] ELSE exec
  /\ running' = running \ {o}

(* One delivery is sent, or not.  The queue's head is dropped when the send  *)
(* returns, whatever the queue holds by then.                                *)
SendReturns(o) ==
  /\ loop[o] # None
  /\ \/ UNCHANGED queue /\ EndFlush(o)
     \/ /\ queue' = IF queue = <<>> THEN queue ELSE Tail(queue)
        /\ IF queue' # <<>> /\ ~busy
             THEN loop' = [loop EXCEPT ![o] = Head(queue')]
                  /\ UNCHANGED <<flushing, exec, running>>
             ELSE EndFlush(o)
  /\ UNCHANGED <<store, disk, timers, stranded, runs, clients, busy, limits>>

BecomeBusy ==
  /\ ~busy /\ busy' = TRUE
  /\ UNCHANGED <<store, disk, life, deliveries, clients, limits>>

(* The foreground becomes idle.  The end of a run flushes the deliveries; a  *)
(* cancelled or stalled run only clears the mark.                            *)
BecomeIdle ==
  /\ busy /\ busy' = FALSE
  /\ \/ UNCHANGED deliveries
     \/ /\ ~flushing /\ queue # <<>> /\ loop[Event] = None
        /\ flushing' = TRUE /\ loop' = [loop EXCEPT ![Event] = Head(queue)]
        /\ UNCHANGED queue
  /\ UNCHANGED <<store, disk, life, clients, limits>>

-----------------------------------------------------------------------------
(* The user: a new task, the Delete button of the list, the factory reset.  *)
(* The first run of a new task may come due before its record is written.   *)

Create(t) ==
  /\ t \notin born /\ born' = born \cup {t}
  /\ store' = [store EXCEPT ![t] = [status |-> "idle", next |-> "later"]]
  /\ creating' = creating \cup {t}
  /\ UNCHANGED <<disk, life, deliveries, deleting, gone, resetting, swept, busy, limits>>

Created(t) ==
  /\ t \in creating /\ creating' = creating \ {t}
  /\ \/ /\ WriteSettles(TRUE)
        /\ ScheduleTask(t, IF Present(t) THEN store[t].next ELSE "later")
     \/ /\ WriteSettles(FALSE)
        /\ stranded' = stranded \cup {t}
        /\ UNCHANGED <<timers, running, exec, runs>>
  /\ UNCHANGED <<store, deliveries, deleting, born, gone, resetting, swept, busy>>

Delete(t) ==
  /\ Present(t) /\ t \notin deleting
  /\ store' = [store EXCEPT ![t] = None]
  /\ deleting' = deleting \cup {t}
  /\ UNCHANGED <<disk, life, deliveries, creating, born, gone, resetting, swept, busy, limits>>

Deleted(t) ==
  /\ t \in deleting /\ deleting' = deleting \ {t}
  /\ \/ /\ WriteSettles(TRUE)
        /\ gone' = gone \cup {t}
        /\ timers' = timers \ {t} /\ running' = running \ {t}
        /\ queue' = SelectSeq(queue, LAMBDA d : d # t)
     \/ WriteSettles(FALSE) /\ UNCHANGED <<gone, timers, running, queue>>
  /\ UNCHANGED <<store, exec, stranded, runs, flushing, loop, creating, born, resetting,
                 swept, busy>>

(* clearAll("factory_reset"): refused while a task is marked as running.    *)
(* All timers are taken before the steps that may fail.                      *)
ClearAll ==
  /\ resetting = "no" /\ running = {}
  /\ resetting' = "clearing" /\ swept' = timers
  /\ timers' = {} /\ queue' = <<>> /\ flushing' = FALSE
  /\ UNCHANGED <<store, disk, running, exec, stranded, runs, loop,
                 creating, deleting, born, gone, busy, limits>>

NoTasks == [t \in Tasks |-> None]

(* A step before the settings are emptied throws, the file's own reset among *)
(* them, which may have taken effect.  Nothing arms the tasks again.         *)
ResetFails ==
  /\ resetting = "clearing" /\ resetting' = "no"
  /\ faults < MaxFaults /\ faults' = faults + 1
  /\ disk' \in {disk, NoTasks}
  /\ stranded' = stranded \cup swept /\ swept' = {}
  /\ UNCHANGED <<store, timers, running, exec, runs, deliveries, creating, deleting, born, gone,
                 busy, restarts>>

(* The file is reset, and at once the settings.  A write that waited behind  *)
(* the file's reset may put the tasks back until the settings are written.   *)
Erase ==
  /\ resetting = "clearing" /\ resetting' = "flushing"
  /\ swept' = {t \in Tasks : Present(t)}
  /\ store' = NoTasks /\ disk' \in {NoTasks, store}
  /\ UNCHANGED <<life, deliveries, creating, deleting, born, gone, busy, limits>>

(* The empty settings are written, and the reset reports success, or not.    *)
Purge ==
  /\ resetting = "flushing" /\ resetting' = "no" /\ swept' = {}
  /\ \/ WriteSettles(TRUE) /\ gone' = gone \cup swept
     \/ WriteSettles(FALSE) /\ UNCHANGED gone
  /\ UNCHANGED <<store, life, deliveries, creating, deleting, born, busy>>

-----------------------------------------------------------------------------
(* A restart at any moment.  recoverTasksOnStartup marks an interrupted run  *)
(* as an error and schedules every task by the time it was last given:       *)
(* that of an interrupted run is past, so it starts again.                   *)

Recovered(r) == IF r # None /\ r.status = "running" THEN [r EXCEPT !.status = "error"] ELSE r

Restart ==
  /\ restarts < MaxRestarts /\ restarts' = restarts + 1
  /\ \E late \in SUBSET {t \in Tasks : disk[t] # None /\ disk[t].next = "later"} :
       store' = [t \in Tasks |-> IF t \in late THEN [Recovered(disk[t]) EXCEPT !.next = "due"]
                                               ELSE Recovered(disk[t])]
  /\ disk' = store'
  /\ LET due == {t \in Tasks : store'[t] # None /\ store'[t].next = "due"} IN
     /\ timers' = {t \in Tasks : store'[t] # None /\ store'[t].next = "later"}
     /\ running' = due
     /\ exec' = [t \in Tasks |-> IF t \in due THEN "begin" ELSE "idle"]
     /\ runs' = [t \in Tasks |-> IF t \in due THEN 1 ELSE 0]
  /\ queue' = <<>> /\ flushing' = FALSE /\ loop' = [o \in Owners |-> None]
  /\ creating' = {} /\ deleting' = {} /\ stranded' = {}
  /\ busy' = FALSE /\ resetting' = "no" /\ swept' = {}
  /\ UNCHANGED <<born, gone, faults>>

Step(t) ==
  \/ Mark(t) \/ Marked(t) \/ Finish(t) \/ Retry(t) \/ GiveUp(t) \/ Saved(t) \/ Removed(t)

Next ==
  \/ \E t \in Tasks : Step(t) \/ Fire(t) \/ Elapse(t)
                      \/ Create(t) \/ Created(t) \/ Delete(t) \/ Deleted(t)
  \/ \E o \in Owners : SendReturns(o)
  \/ BecomeBusy \/ BecomeIdle \/ Restart
  \/ ClearAll \/ ResetFails \/ Erase \/ Purge

TaskSpec == Init /\ [][Next]_vars

-----------------------------------------------------------------------------
(* Properties.                                                              *)

(* No second execution of a task starts before its first is over, although   *)
(* the mark of a deleted task is dropped while its execution goes on.        *)
OneRunAtATime ==
  [][restarts' = restarts => \A t \in Tasks : runs'[t] > runs[t] => exec[t] = "idle"]_vars

(* A task that runs once starts at most once in a life of the process,       *)
(* whatever of its run, its record or its removal fails.                     *)
OncePerLife == \A t \in Tasks \ Cron : runs[t] <= 1

(* What the user was told is removed, or a factory reset purged, is never    *)
(* stored again, in memory or in the file: not by an execution that was      *)
(* under way, a write that was waiting or a restart.                         *)
DeletedStaysDeleted == \A t \in gone : ~Present(t) /\ disk[t] = None

(* A stored task that has a next run is being executed or has a timer.  It   *)
(* loses them in three ways only, until the next restart, which arms every   *)
(* task: its timer fires while its last execution is not quite over, a write *)
(* of its record fails, or a factory reset takes its timer and then fails.   *)
AlwaysArmed ==
  \A t \in Tasks \ (creating \cup stranded \cup swept) :
     Present(t) /\ store[t].next # "none" => exec[t] # "idle" \/ t \in timers

=============================================================================
