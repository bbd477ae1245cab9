------------------------ MODULE ScheduledTasks_proofs ------------------------
(***************************************************************************)
(* Proofs about ScheduledTasks, for every set of tasks and every bound.     *)
(*                                                                         *)
(* What makes the properties inductive: a stored task that is executed is   *)
(* marked as running (Marks), ids are given out once and only known ids     *)
(* occur anywhere (Known), what is being deleted or erased is not in memory *)
(* (Leaving), the delivery of a task's own flush is the end of its          *)
(* execution (Sending), a task that runs once and has started has nothing   *)
(* that could start it again (Spent), and a stored task that is not in the  *)
(* middle of its execution is armed or was stranded (Armed).                *)
(***************************************************************************)
EXTENDS ScheduledTasks, TLAPS

TaskTypes ==
  /\ store \in [Tasks -> TaskRecord \cup {None}]
  /\ disk \in [Tasks -> TaskRecord \cup {None}]
  /\ exec \in [Tasks -> Phases] /\ runs \in [Tasks -> Nat]
  /\ timers \subseteq Tasks /\ running \subseteq Tasks
  /\ faults \in Nat /\ restarts \in Nat
  /\ loop = [o \in Owners |-> loop[o]]

Sending == \A t \in Tasks : loop[t] # None => exec[t] = "sending"

Marks == \A t \in Tasks : Present(t) /\ exec[t] # "idle" => t \in running

Known ==
  /\ creating \subseteq born /\ deleting \subseteq born /\ gone \subseteq born
  /\ swept \subseteq born /\ (resetting = "no" => swept = {})
  /\ timers \subseteq born /\ born \subseteq Tasks
  /\ \A t \in Tasks :
       Present(t) \/ disk[t] # None \/ exec[t] # "idle" \/ runs[t] # 0 => t \in born

Leaving ==
  /\ \A t \in Tasks : t \in deleting => ~Present(t)
  /\ \A t \in Tasks : exec[t] \in {"removing", "missing", "remissing"} => ~Present(t)
  /\ \A t \in Tasks : resetting = "flushing" /\ t \in swept => ~Present(t)

Spent ==
  \A t \in Tasks \ Cron :
    /\ runs[t] <= 1
    /\ t \in timers \/ t \in creating => runs[t] = 0
    /\ exec[t] # "idle" => runs[t] = 1
    /\ exec[t] \in {"saving", "resaving"} /\ Present(t) => store[t].next = "none"
    /\ t \in creating => t \notin timers

Armed ==
  \A t \in Tasks :
    exec[t] \in {"idle", "sending"} /\ Present(t) /\ store[t].next # "none"
      => t \in timers \cup stranded \cup swept \cup creating

TaskInv ==
  /\ TaskTypes /\ Sending /\ Marks /\ Known /\ Leaving
  /\ DeletedStaysDeleted /\ Spent /\ Armed

(* What scheduleTask does, case by case. *)
ScheduleOutcome(t, next) ==
  \/ /\ next = "none" /\ timers' = timers \ {t}
     /\ UNCHANGED <<running, exec, stranded, runs>>
  \/ /\ next = "later" /\ timers' = timers \cup {t}
     /\ UNCHANGED <<running, exec, stranded, runs>>
  \/ /\ next = "due" /\ t \in running
     /\ timers' = timers \ {t} /\ stranded' = stranded \cup {t}
     /\ UNCHANGED <<running, exec, runs>>
  \/ /\ next = "due" /\ t \notin running /\ ~Present(t)
     /\ timers' = timers \ {t} /\ UNCHANGED <<running, exec, stranded, runs>>
  \/ /\ next = "due" /\ t \notin running /\ Present(t)
     /\ timers' = timers \ {t} /\ running' = running \cup {t}
     /\ exec' = [exec EXCEPT ![t] = "begin"]
     /\ runs' = [runs EXCEPT ![t] = @ + 1] /\ UNCHANGED stranded

LEMMA ScheduleEffect ==
  ASSUME NEW t \in Tasks, NEW next \in {"none", "later", "due"}, ScheduleTask(t, next)
  PROVE  ScheduleOutcome(t, next)
  <1>1. CASE next = "none"
    BY <1>1 DEF ScheduleTask, ScheduleOutcome
  <1>2. CASE next = "later"
    BY <1>2 DEF ScheduleTask, ScheduleOutcome
  <1>3. CASE next = "due"
    BY <1>3 DEF ScheduleTask, StartExecution, ScheduleOutcome
  <1>. QED BY <1>1, <1>2, <1>3

LEMMA FireKeeps == ASSUME TaskInv, NEW t \in Tasks, Fire(t) PROVE TaskInv'
  <1>1. TaskTypes'
    BY DEF TaskInv, TaskTypes, Phases, Fire, StartExecution, deliveries, limits
  <1>2. Sending'
    BY DEF TaskInv, TaskTypes, Marks, Sending, Fire, StartExecution, deliveries
  <1>3. Marks'
    BY DEF TaskInv, TaskTypes, Marks, Present, Fire, StartExecution
  <1>4. Known'
    BY DEF TaskInv, TaskTypes, Known, Present, Fire, StartExecution, clients
  <1>5. Leaving'
    BY DEF TaskInv, TaskTypes, Leaving, Present, Fire, StartExecution, clients
  <1>6. DeletedStaysDeleted'
    BY DEF TaskInv, DeletedStaysDeleted, Present, Fire, clients
  <1>7. Spent'
    BY DEF TaskInv, TaskTypes, Spent, Present, Fire, StartExecution, clients
  <1>8. Armed'
    BY DEF TaskInv, TaskTypes, Armed, Present, Fire, StartExecution, clients, limits
  <1>. QED BY <1>1, <1>2, <1>3, <1>4, <1>5, <1>6, <1>7, <1>8 DEF TaskInv

LEMMA ElapseKeeps == ASSUME TaskInv, NEW t \in Tasks, Elapse(t) PROVE TaskInv'
  <1>1. TaskTypes'
    BY DEF TaskInv, TaskTypes, Present, TaskRecord, Elapse, life, deliveries, limits
  <1>2. Sending'
    BY DEF TaskInv, Sending, Elapse, life, deliveries
  <1>3. Marks'
    BY DEF TaskInv, Marks, Present, Elapse, life
  <1>4. Known'
    BY DEF TaskInv, Known, Present, Elapse, life, clients
  <1>5. Leaving'
    BY DEF TaskInv, Leaving, Present, Elapse, life, clients
  <1>6. DeletedStaysDeleted'
    BY DEF TaskInv, DeletedStaysDeleted, Present, Elapse, clients
  <1>7. Spent'
    BY DEF TaskInv, Spent, Present, Elapse, life, clients
  <1>8. Armed'
    BY DEF TaskInv, Armed, Present, Elapse, life, clients, limits
  <1>. QED BY <1>1, <1>2, <1>3, <1>4, <1>5, <1>6, <1>7, <1>8 DEF TaskInv

LEMMA MarkKeeps == ASSUME TaskInv, NEW t \in Tasks, Mark(t) PROVE TaskInv'
  <1>1. TaskTypes'
    BY DEF TaskInv, TaskTypes, Present, TaskRecord, Statuses, Phases, Mark, UpdateScheduledTask,
           limits
  <1>2. Sending'
    BY DEF TaskInv, TaskTypes, Sending, Mark
  <1>3. Marks'
    BY DEF TaskInv, TaskTypes, Marks, Present, Mark, UpdateScheduledTask
  <1>4. Known'
    BY DEF TaskInv, TaskTypes, Known, Present, Mark, UpdateScheduledTask, clients
  <1>5. Leaving'
    BY DEF TaskInv, TaskTypes, Leaving, Present, Mark, UpdateScheduledTask, clients
  <1>6. DeletedStaysDeleted'
    BY DEF TaskInv, TaskTypes, Known, DeletedStaysDeleted, Present, Mark, UpdateScheduledTask,
           clients
  <1>7. Spent'
    BY DEF TaskInv, TaskTypes, Spent, Present, Mark, UpdateScheduledTask, clients
  <1>8. Armed'
    BY DEF TaskInv, TaskTypes, Armed, Present, Mark, UpdateScheduledTask, clients, limits
  <1>. QED BY <1>1, <1>2, <1>3, <1>4, <1>5, <1>6, <1>7, <1>8 DEF TaskInv

LEMMA MarkedKeeps == ASSUME TaskInv, NEW t \in Tasks, Marked(t) PROVE TaskInv'
  <1>1. TaskTypes'
    BY DEF TaskInv, TaskTypes, Phases, Marked, WriteSettles, deliveries, limits
  <1>2. Sending'
    BY DEF TaskInv, Sending, Marked, deliveries
  <1>3. Marks'
    BY DEF TaskInv, TaskTypes, Marks, Present, Marked
  <1>4. Known'
    BY DEF TaskInv, Known, Present, Marked, WriteSettles, clients
  <1>5. Leaving'
    BY DEF TaskInv, Leaving, Present, Marked, clients
  <1>6. DeletedStaysDeleted'
    BY DEF TaskInv, DeletedStaysDeleted, Present, Marked, WriteSettles, clients
  <1>7. Spent'
    BY DEF TaskInv, Spent, Present, Marked, clients
  <1>8. Armed'
    BY DEF TaskInv, TaskTypes, Armed, Present, Marked, WriteSettles, clients, limits
  <1>. QED BY <1>1, <1>2, <1>3, <1>4, <1>5, <1>6, <1>7, <1>8 DEF TaskInv

LEMMA FinishKeeps == ASSUME TaskInv, NEW t \in Tasks, Finish(t) PROVE TaskInv'
  <1>1. TaskTypes'
    BY EventAssumption
       DEF TaskInv, TaskTypes, TaskRecord, Statuses, Phases, Finish, SaveOutcome,
           UpdateScheduledTask, NextAfter, deliveries, limits
  <1>2. Sending'
    BY DEF TaskInv, TaskTypes, Sending, Finish, SaveOutcome, deliveries
  <1>3. Marks'
    BY DEF TaskInv, TaskTypes, Marks, Present, Finish, SaveOutcome, UpdateScheduledTask
  <1>4. Known'
    BY DEF TaskInv, TaskTypes, Known, Present, Finish, SaveOutcome, UpdateScheduledTask, clients
  <1>5. Leaving'
    BY DEF TaskInv, TaskTypes, Leaving, Present, Finish, SaveOutcome, UpdateScheduledTask,
           clients
  <1>6. DeletedStaysDeleted'
    BY DEF TaskInv, TaskTypes, Known, DeletedStaysDeleted, Present, Finish, SaveOutcome,
           UpdateScheduledTask, clients
  <1>7. Spent'
    BY DEF TaskInv, TaskTypes, Spent, Present, Finish, SaveOutcome, UpdateScheduledTask,
           NextAfter, clients
  <1>8. Armed'
    BY DEF TaskInv, TaskTypes, Armed, Present, Finish, SaveOutcome, UpdateScheduledTask,
           clients, limits
  <1>. QED BY <1>1, <1>2, <1>3, <1>4, <1>5, <1>6, <1>7, <1>8 DEF TaskInv

LEMMA RetryKeeps == ASSUME TaskInv, NEW t \in Tasks, Retry(t) PROVE TaskInv'
  <1>1. TaskTypes'
    BY DEF TaskInv, TaskTypes, TaskRecord, Statuses, Phases, Retry, WriteSettles, SaveOutcome,
           UpdateScheduledTask, NextAfter, deliveries
  <1>2. Sending'
    BY DEF TaskInv, Sending, Retry, SaveOutcome, deliveries
  <1>3. Marks'
    BY DEF TaskInv, Marks, Present, Retry, SaveOutcome, UpdateScheduledTask
  <1>4. Known'
    BY DEF TaskInv, Known, Present, Retry, WriteSettles, SaveOutcome, UpdateScheduledTask,
           clients
  <1>5. Leaving'
    BY DEF TaskInv, Leaving, Present, Retry, SaveOutcome, UpdateScheduledTask, clients
  <1>6. DeletedStaysDeleted'
    BY DEF TaskInv, DeletedStaysDeleted, Present, Retry, WriteSettles, SaveOutcome,
           UpdateScheduledTask, clients
  <1>7. Spent'
    BY DEF TaskInv, TaskTypes, Spent, Present, Retry, SaveOutcome, UpdateScheduledTask,
           NextAfter, clients
  <1>8. Armed'
    BY DEF TaskInv, TaskTypes, Leaving, Armed, Present, Retry, WriteSettles, SaveOutcome,
           UpdateScheduledTask, clients, limits
  <1>. QED BY <1>1, <1>2, <1>3, <1>4, <1>5, <1>6, <1>7, <1>8 DEF TaskInv

LEMMA GiveUpKeeps == ASSUME TaskInv, NEW t \in Tasks, GiveUp(t) PROVE TaskInv'
  <1>1. TaskTypes'
    BY DEF TaskInv, TaskTypes, Phases, GiveUp, WriteSettles, deliveries
  <1>2. Sending'
    BY DEF TaskInv, Sending, GiveUp, deliveries
  <1>3. Marks'
    BY DEF TaskInv, TaskTypes, Marks, Present, GiveUp
  <1>4. Known'
    BY DEF TaskInv, Known, Present, GiveUp, WriteSettles, clients
  <1>5. Leaving'
    BY DEF TaskInv, Leaving, Present, GiveUp, clients
  <1>6. DeletedStaysDeleted'
    BY DEF TaskInv, DeletedStaysDeleted, Present, GiveUp, WriteSettles, clients
  <1>7. Spent'
    BY DEF TaskInv, Spent, Present, GiveUp, clients
  <1>8. Armed'
    BY DEF TaskInv, TaskTypes, Armed, Present, GiveUp, WriteSettles, clients, limits
  <1>. QED BY <1>1, <1>2, <1>3, <1>4, <1>5, <1>6, <1>7, <1>8 DEF TaskInv

LEMMA SavedKeeps == ASSUME TaskInv, NEW t \in Tasks, Saved(t) PROVE TaskInv'
  <1>1. TaskTypes'
    BY DEF TaskInv, TaskTypes, Phases, Saved, WriteSettles, EnqueueDelivery, NextAfter, limits
  <1>2. Sending'
    BY DEF TaskInv, TaskTypes, Owners, Sending, Saved, EnqueueDelivery
  <1>3. Marks'
    BY DEF TaskInv, TaskTypes, Marks, Present, Saved, EnqueueDelivery
  <1>4. Known'
    BY DEF TaskInv, TaskTypes, Known, Present, Saved, WriteSettles, EnqueueDelivery, clients
  <1>5. Leaving'
    BY DEF TaskInv, TaskTypes, Leaving, Present, Saved, EnqueueDelivery, clients
  <1>6. DeletedStaysDeleted'
    BY DEF TaskInv, DeletedStaysDeleted, Present, Saved, WriteSettles, clients
  <1>7. Spent'
    BY DEF TaskInv, TaskTypes, Spent, Present, Saved, EnqueueDelivery, NextAfter, clients
  <1>8. Armed'
    <2> SUFFICES ASSUME NEW u \in Tasks, exec'[u] \in {"idle", "sending"},
                        store'[u] # None, store'[u].next # "none"
                 PROVE  u \in timers' \cup stranded' \cup swept' \cup creating'
      BY DEF Armed, Present
    <2>1. /\ store' = store /\ swept' = swept /\ creating' = creating
          /\ exec[t] \in {"saving", "missing", "resaving", "remissing"}
      BY DEF Saved, WriteSettles, clients, limits
    <2>2. CASE u = t
      <3>1. exec[t] \notin {"missing", "remissing"}
        BY <2>1, <2>2 DEF TaskInv, Leaving, Present
      <3>2. store[t].next \in {"later", "due"}
        BY <2>1, <2>2 DEF TaskInv, TaskTypes, TaskRecord
      <3>3. QED BY <2>1, <2>2, <3>1, <3>2 DEF Saved, Present
    <2>3. CASE u # t
      <3>1. exec'[u] = exec[u] /\ timers \ {t} \subseteq timers' /\ stranded \subseteq stranded'
        BY <2>3 DEF Saved, EnqueueDelivery, TaskInv, TaskTypes
      <3>2. QED BY <2>1, <2>3, <3>1 DEF TaskInv, Armed, Present
    <2>4. QED BY <2>2, <2>3
  <1>. QED BY <1>1, <1>2, <1>3, <1>4, <1>5, <1>6, <1>7, <1>8 DEF TaskInv

LEMMA RemovedKeeps == ASSUME TaskInv, NEW t \in Tasks, Removed(t) PROVE TaskInv'
  <1>1. TaskTypes'
    BY DEF TaskInv, TaskTypes, Phases, Removed, WriteSettles, EnqueueDelivery, limits
  <1>2. Sending'
    BY DEF TaskInv, TaskTypes, Owners, Sending, Removed, EnqueueDelivery
  <1>3. Marks'
    BY DEF TaskInv, TaskTypes, Marks, Leaving, Present, Removed, EnqueueDelivery
  <1>4. Known'
    BY DEF TaskInv, TaskTypes, Known, Present, Removed, WriteSettles, EnqueueDelivery, clients
  <1>5. Leaving'
    BY DEF TaskInv, TaskTypes, Leaving, Present, Removed, EnqueueDelivery, clients
  <1>6. DeletedStaysDeleted'
    BY DEF TaskInv, DeletedStaysDeleted, Present, Removed, WriteSettles, clients
  <1>7. Spent'
    BY DEF TaskInv, TaskTypes, Spent, Present, Removed, EnqueueDelivery, clients
  <1>8. Armed'
    BY DEF TaskInv, TaskTypes, Leaving, Armed, Present, Removed, WriteSettles, EnqueueDelivery,
           clients, limits
  <1>. QED BY <1>1, <1>2, <1>3, <1>4, <1>5, <1>6, <1>7, <1>8 DEF TaskInv

LEMMA SendReturnsKeeps == ASSUME TaskInv, NEW o \in Owners, SendReturns(o) PROVE TaskInv'
  <1>1. TaskTypes'
    BY DEF TaskInv, TaskTypes, Phases, SendReturns, EndFlush, limits
  <1>2. Sending'
    BY DEF TaskInv, TaskTypes, Owners, Sending, SendReturns, EndFlush
  <1>3. Marks'
    BY DEF TaskInv, TaskTypes, Marks, Present, SendReturns, EndFlush
  <1>4. Known'
    BY DEF TaskInv, TaskTypes, Known, Present, SendReturns, EndFlush, clients
  <1>5. Leaving'
    BY DEF TaskInv, TaskTypes, Leaving, Present, SendReturns, EndFlush, clients
  <1>6. DeletedStaysDeleted'
    BY DEF TaskInv, DeletedStaysDeleted, Present, SendReturns, clients
  <1>7. Spent'
    BY DEF TaskInv, TaskTypes, Spent, Present, SendReturns, EndFlush, clients
  <1>8. Armed'
    BY DEF TaskInv, TaskTypes, Sending, Armed, Present, SendReturns, EndFlush, clients, limits
  <1>. QED BY <1>1, <1>2, <1>3, <1>4, <1>5, <1>6, <1>7, <1>8 DEF TaskInv

LEMMA CreateKeeps == ASSUME TaskInv, NEW t \in Tasks, Create(t) PROVE TaskInv'
  <1>1. TaskTypes'
    BY DEF TaskInv, TaskTypes, TaskRecord, Statuses, Create, life, deliveries, limits
  <1>2. Sending'
    BY DEF TaskInv, Sending, Create, life, deliveries
  <1>3. Marks'
    BY DEF TaskInv, Marks, Known, Present, Create, life
  <1>4. Known'
    BY DEF TaskInv, Known, Present, Create, life
  <1>5. Leaving'
    BY DEF TaskInv, Known, Leaving, Present, Create, life
  <1>6. DeletedStaysDeleted'
    BY DEF TaskInv, Known, DeletedStaysDeleted, Present, Create
  <1>7. Spent'
    BY DEF TaskInv, Known, Spent, Present, Create, life
  <1>8. Armed'
    BY DEF TaskInv, Armed, Present, Create, life, limits
  <1>. QED BY <1>1, <1>2, <1>3, <1>4, <1>5, <1>6, <1>7, <1>8 DEF TaskInv

LEMMA CreatedKeeps == ASSUME TaskInv, NEW t \in Tasks, Created(t) PROVE TaskInv'
  <1>. DEFINE next == IF Present(t) THEN store[t].next ELSE "later"
  <1>a. next \in {"none", "later", "due"}
    BY DEF TaskInv, TaskTypes, Present, TaskRecord
  <1>b. /\ t \in creating /\ creating' = creating \ {t}
        /\ UNCHANGED <<store, deleting, born, gone, resetting, swept, loop, restarts>>
        /\ \/ ScheduleTask(t, next) /\ disk' = store /\ faults' = faults
           \/ /\ UNCHANGED <<timers, running, exec, runs, disk>>
              /\ stranded' = stranded \cup {t} /\ faults' = faults + 1
    BY DEF Created, WriteSettles, life, deliveries, limits
  <1>c. ScheduleTask(t, next) => ScheduleOutcome(t, next)
    BY <1>a, ScheduleEffect
  <1>. HIDE DEF next
  <1>d. Present(t) => next = store[t].next
    BY DEF next
  <1>e. ~Present(t) => next = "later"
    BY DEF next
  <1>1. TaskTypes'
    BY <1>b, <1>c, <1>d, <1>e DEF ScheduleOutcome, TaskInv, TaskTypes, Phases
  <1>2. Sending'
    BY <1>b, <1>c, <1>d, <1>e DEF ScheduleOutcome, TaskInv, TaskTypes, Marks, Sending
  <1>3. Marks'
    BY <1>b, <1>c, <1>d, <1>e DEF ScheduleOutcome, TaskInv, TaskTypes, Marks, Present
  <1>4. Known'
    BY <1>b, <1>c, <1>d, <1>e DEF ScheduleOutcome, TaskInv, TaskTypes, Known, Present
  <1>5. Leaving'
    BY <1>b, <1>c, <1>d, <1>e DEF ScheduleOutcome, TaskInv, TaskTypes, Leaving, Present
  <1>6. DeletedStaysDeleted'
    BY <1>b, <1>c, <1>d, <1>e DEF TaskInv, DeletedStaysDeleted, Present
  <1>7. Spent'
    BY <1>b, <1>c, <1>d, <1>e DEF ScheduleOutcome, TaskInv, TaskTypes, Spent, Present
  <1>8. Armed'
    BY <1>b, <1>c, <1>d, <1>e DEF ScheduleOutcome, TaskInv, TaskTypes, Armed, Present
  <1>. QED BY <1>1, <1>2, <1>3, <1>4, <1>5, <1>6, <1>7, <1>8 DEF TaskInv

LEMMA DeleteKeeps == ASSUME TaskInv, NEW t \in Tasks, Delete(t) PROVE TaskInv'
  <1>1. TaskTypes'
    BY DEF TaskInv, TaskTypes, Delete, life, deliveries, limits
  <1>2. Sending'
    BY DEF TaskInv, Sending, Delete, life, deliveries
  <1>3. Marks'
    BY DEF TaskInv, Marks, Present, Delete, life
  <1>4. Known'
    BY DEF TaskInv, Known, Present, Delete, life
  <1>5. Leaving'
    BY DEF TaskInv, TaskTypes, Leaving, Present, Delete, life
  <1>6. DeletedStaysDeleted'
    BY DEF TaskInv, DeletedStaysDeleted, Present, Delete
  <1>7. Spent'
    BY DEF TaskInv, Spent, Present, Delete, life
  <1>8. Armed'
    BY DEF TaskInv, Armed, Present, Delete, life, limits
  <1>. QED BY <1>1, <1>2, <1>3, <1>4, <1>5, <1>6, <1>7, <1>8 DEF TaskInv

LEMMA DeletedKeeps == ASSUME TaskInv, NEW t \in Tasks, Deleted(t) PROVE TaskInv'
  <1>1. TaskTypes'
    BY DEF TaskInv, TaskTypes, Deleted, WriteSettles, limits
  <1>2. Sending'
    BY DEF TaskInv, Sending, Deleted
  <1>3. Marks'
    BY DEF TaskInv, Marks, Leaving, Present, Deleted
  <1>4. Known'
    BY DEF TaskInv, Known, Present, Deleted, WriteSettles
  <1>5. Leaving'
    BY DEF TaskInv, Leaving, Present, Deleted
  <1>6. DeletedStaysDeleted'
    BY DEF TaskInv, Leaving, DeletedStaysDeleted, Present, Deleted, WriteSettles
  <1>7. Spent'
    BY DEF TaskInv, Spent, Present, Deleted
  <1>8. Armed'
    BY DEF TaskInv, TaskTypes, Leaving, Armed, Present, Deleted, WriteSettles, limits
  <1>. QED BY <1>1, <1>2, <1>3, <1>4, <1>5, <1>6, <1>7, <1>8 DEF TaskInv

LEMMA ClearAllKeeps == ASSUME TaskInv, ClearAll PROVE TaskInv'
  <1>1. TaskTypes'
    BY DEF TaskInv, TaskTypes, NoTasks, ClearAll, limits
  <1>2. Sending'
    BY DEF TaskInv, Sending, ClearAll, limits
  <1>3. Marks'
    BY DEF TaskInv, Marks, NoTasks, Present, ClearAll, limits
  <1>4. Known'
    BY DEF TaskInv, TaskTypes, Known, NoTasks, Present, ClearAll, limits
  <1>5. Leaving'
    BY DEF TaskInv, Leaving, NoTasks, Present, ClearAll, limits
  <1>6. DeletedStaysDeleted'
    BY DEF TaskInv, Known, Leaving, DeletedStaysDeleted, NoTasks, Present, ClearAll, limits
  <1>7. Spent'
    BY DEF TaskInv, Spent, NoTasks, Present, ClearAll, limits
  <1>8. Armed'
    BY DEF TaskInv, Known, Leaving, Armed, NoTasks, Present, ClearAll, limits
  <1>. QED BY <1>1, <1>2, <1>3, <1>4, <1>5, <1>6, <1>7, <1>8 DEF TaskInv

LEMMA ResetFailsKeeps == ASSUME TaskInv, ResetFails PROVE TaskInv'
  <1>1. TaskTypes'
    BY DEF TaskInv, TaskTypes, NoTasks, ResetFails, deliveries
  <1>2. Sending'
    BY DEF TaskInv, Sending, ResetFails, deliveries
  <1>3. Marks'
    BY DEF TaskInv, Marks, NoTasks, Present, ResetFails, deliveries
  <1>4. Known'
    BY DEF TaskInv, TaskTypes, Known, NoTasks, Present, ResetFails, deliveries
  <1>5. Leaving'
    BY DEF TaskInv, Leaving, NoTasks, Present, ResetFails, deliveries
  <1>6. DeletedStaysDeleted'
    BY DEF TaskInv, Known, Leaving, DeletedStaysDeleted, NoTasks, Present, ResetFails, deliveries
  <1>7. Spent'
    BY DEF TaskInv, Spent, NoTasks, Present, ResetFails, deliveries
  <1>8. Armed'
    BY DEF TaskInv, Leaving, Armed, NoTasks, Present, ResetFails, deliveries
  <1>. QED BY <1>1, <1>2, <1>3, <1>4, <1>5, <1>6, <1>7, <1>8 DEF TaskInv

LEMMA EraseKeeps == ASSUME TaskInv, Erase PROVE TaskInv'
  <1>1. TaskTypes'
    BY DEF TaskInv, TaskTypes, NoTasks, Erase, life, deliveries, limits
  <1>2. Sending'
    BY DEF TaskInv, Sending, Erase, life, deliveries, limits
  <1>3. Marks'
    BY DEF TaskInv, Marks, NoTasks, Present, Erase, life, deliveries, limits
  <1>4. Known'
    BY DEF TaskInv, TaskTypes, Known, NoTasks, Present, Erase, life, deliveries, limits
  <1>5. Leaving'
    BY DEF TaskInv, Leaving, NoTasks, Present, Erase, life, deliveries, limits
  <1>6. DeletedStaysDeleted'
    BY DEF TaskInv, Known, Leaving, DeletedStaysDeleted, NoTasks, Present, Erase, life, deliveries, limits
  <1>7. Spent'
    BY DEF TaskInv, Spent, NoTasks, Present, Erase, life, deliveries, limits
  <1>8. Armed'
    BY DEF TaskInv, Leaving, Armed, NoTasks, Present, Erase, life, deliveries, limits
  <1>. QED BY <1>1, <1>2, <1>3, <1>4, <1>5, <1>6, <1>7, <1>8 DEF TaskInv

LEMMA PurgeKeeps == ASSUME TaskInv, Purge PROVE TaskInv'
  <1>1. TaskTypes'
    BY DEF TaskInv, TaskTypes, NoTasks, Purge, life, deliveries, limits, WriteSettles
  <1>2. Sending'
    BY DEF TaskInv, Sending, Purge, life, deliveries, limits, WriteSettles
  <1>3. Marks'
    BY DEF TaskInv, Marks, NoTasks, Present, Purge, life, deliveries, limits, WriteSettles
  <1>4. Known'
    BY DEF TaskInv, TaskTypes, Known, NoTasks, Present, Purge, life, deliveries, limits, WriteSettles
  <1>5. Leaving'
    BY DEF TaskInv, Leaving, NoTasks, Present, Purge, life, deliveries, limits, WriteSettles
  <1>6. DeletedStaysDeleted'
    BY DEF TaskInv, Known, Leaving, DeletedStaysDeleted, NoTasks, Present, Purge, life, deliveries, limits, WriteSettles
  <1>7. Spent'
    BY DEF TaskInv, Spent, NoTasks, Present, Purge, life, deliveries, limits, WriteSettles
  <1>8. Armed'
    BY DEF TaskInv, Leaving, Armed, NoTasks, Present, Purge, life, deliveries, limits, WriteSettles
  <1>. QED BY <1>1, <1>2, <1>3, <1>4, <1>5, <1>6, <1>7, <1>8 DEF TaskInv

LEMMA RestartKeeps == ASSUME TaskInv, Restart PROVE TaskInv'
  <1>1. TaskTypes'
    BY DEF TaskInv, TaskTypes, TaskRecord, Statuses, Phases, Restart, Recovered
  <1>2. Sending'
    BY DEF TaskInv, Owners, Sending, Restart
  <1>3. Marks'
    BY DEF TaskInv, Marks, Restart
  <1>4. Known'
    BY DEF TaskInv, Known, Present, Restart, Recovered
  <1>5. Leaving'
    BY DEF TaskInv, Leaving, Restart
  <1>6. DeletedStaysDeleted'
    BY DEF TaskInv, Known, DeletedStaysDeleted, Present, Restart, Recovered
  <1>7. Spent'
    BY DEF TaskInv, Spent, Restart
  <1>8. Armed'
    <2> SUFFICES ASSUME NEW u \in Tasks, store'[u] # None, store'[u].next # "none"
                 PROVE  u \in timers' \/ exec'[u] = "begin"
      BY DEF Armed, Present
    <2>1. store'[u].next \in {"later", "due"}
      BY <1>1 DEF TaskTypes, TaskRecord
    <2>2. QED BY <2>1 DEF Restart
  <1>. QED BY <1>1, <1>2, <1>3, <1>4, <1>5, <1>6, <1>7, <1>8 DEF TaskInv

(* The initial state, and a step that changes none of this. *)
LEMMA InitKeeps == Init => TaskInv
  BY NoneIsNoRecord, NoneAssumption
     DEF Init, TaskInv, TaskTypes, Sending, Marks, Known, Leaving, DeletedStaysDeleted,
         Spent, Armed, Present, Phases, Owners

LEMMA ElsewhereKeeps ==
  ASSUME TaskInv, UNCHANGED <<store, disk, life, loop, clients, limits>>
  PROVE  TaskInv'
  BY DEF TaskInv, TaskTypes, Sending, Marks, Known, Leaving, DeletedStaysDeleted,
         Spent, Armed, Present, life, clients, limits

(* An idle foreground may start a flush of its own. *)
LEMMA BecomeIdleKeeps == ASSUME TaskInv, BecomeIdle PROVE TaskInv'
  <1>1. TaskTypes' /\ Sending'
    BY EventAssumption
       DEF TaskInv, TaskTypes, Sending, Owners, BecomeIdle, life, deliveries, limits
  <1>2. QED
    BY <1>1 DEF TaskInv, Marks, Known, Leaving, DeletedStaysDeleted, Spent, Armed, Present,
                BecomeIdle, life, clients, limits

LEMMA StepKeeps == TaskInv /\ [Next]_vars => TaskInv'
  <1> SUFFICES ASSUME TaskInv, [Next]_vars PROVE TaskInv'
    OBVIOUS
  <1>1. CASE \E t \in Tasks : Step(t)
    BY <1>1, MarkKeeps, MarkedKeeps, FinishKeeps, RetryKeeps, GiveUpKeeps, SavedKeeps, RemovedKeeps
       DEF Step
  <1>2. CASE \E t \in Tasks : Fire(t) \/ Elapse(t) \/ Create(t) \/ Created(t) \/ Delete(t) \/ Deleted(t)
    BY <1>2, FireKeeps, ElapseKeeps, CreateKeeps, CreatedKeeps, DeleteKeeps, DeletedKeeps
  <1>3. CASE \E o \in Owners : SendReturns(o)
    BY <1>3, SendReturnsKeeps
  <1>4. CASE BecomeBusy
    BY <1>4, ElsewhereKeeps DEF BecomeBusy, deliveries
  <1>5. CASE BecomeIdle \/ ClearAll \/ ResetFails \/ Erase \/ Purge \/ Restart
    BY <1>5, BecomeIdleKeeps, ClearAllKeeps, ResetFailsKeeps, EraseKeeps, PurgeKeeps, RestartKeeps
  <1>6. CASE UNCHANGED vars
    BY <1>6, ElsewhereKeeps DEF vars, deliveries
  <1>. QED BY <1>1, <1>2, <1>3, <1>4, <1>5, <1>6 DEF Next

(* The invariant holds in every reachable state. *)
THEOREM TaskInvariant == TaskSpec => []TaskInv
  BY InitKeeps, StepKeeps, PTL DEF TaskSpec

(* What was confirmed as removed stays removed, in memory and in the file. *)
THEOREM DeletedTasksStayDeleted == TaskSpec => []DeletedStaysDeleted
  <1>1. TaskInv => DeletedStaysDeleted
    BY DEF TaskInv
  <1>. QED BY <1>1, TaskInvariant, PTL

(* A task that runs once starts at most once in a life of the process. *)
THEOREM OnceTasksRunOnce == TaskSpec => []OncePerLife
  <1>1. TaskInv => OncePerLife
    BY DEF TaskInv, Spent, OncePerLife
  <1>. QED BY <1>1, TaskInvariant, PTL

(* A stored task with a next run is armed or being executed, but for those  *)
(* that were lost: refused as still running, their write or a reset failed. *)
THEOREM TasksStayArmed == TaskSpec => []AlwaysArmed
  <1>1. TaskInv => AlwaysArmed
    BY DEF TaskInv, Armed, AlwaysArmed
  <1>. QED BY <1>1, TaskInvariant, PTL

(* Only startExecution counts a start, and it finds the task idle. *)
LEMMA StartsIdle ==
  ASSUME TaskInv, [Next]_vars, restarts' = restarts, NEW u \in Tasks, runs'[u] > runs[u]
  PROVE  exec[u] = "idle"
  <1>. DEFINE Started(t) == /\ Present(t) /\ t \notin running
                            /\ runs' = [runs EXCEPT ![t] = @ + 1]
  <1>1. ~ UNCHANGED runs
    BY DEF TaskInv, TaskTypes
  <1>2. ~ Restart
    BY DEF Restart, TaskInv, TaskTypes
  <1>3. ASSUME NEW t \in Tasks, Fire(t) PROVE Started(t)
    BY <1>1, <1>3 DEF Fire, StartExecution
  <1>4. ASSUME NEW t \in Tasks, Created(t) PROVE Started(t)
    <2>. DEFINE next == IF Present(t) THEN store[t].next ELSE "later"
    <2>1. next \in {"none", "later", "due"}
      BY DEF TaskInv, TaskTypes, Present, TaskRecord
    <2>2. ScheduleTask(t, next)
      BY <1>1, <1>4 DEF Created, life
    <2>3. ScheduleOutcome(t, next)
      BY <2>1, <2>2, ScheduleEffect
    <2>4. QED BY <1>1, <2>3 DEF ScheduleOutcome
  <1>5. \E t \in Tasks : Fire(t) \/ Created(t)
    BY <1>1, <1>2 DEF Next, Step, Elapse, Mark, Marked, Finish, Retry, GiveUp, Saved, Removed,
                      Create, Delete, Deleted, SendReturns, BecomeBusy, BecomeIdle, ClearAll,
                      ResetFails, Erase, Purge, life, vars
  <1>6. PICK t \in Tasks : Started(t)
    BY <1>3, <1>4, <1>5
  <1>7. u = t
    BY <1>6 DEF TaskInv, TaskTypes
  <1>. QED BY <1>6, <1>7 DEF TaskInv, Marks

(* No execution of a task starts before the last one is over. *)
THEOREM RunsDoNotOverlap == TaskSpec => OneRunAtATime
  <1>. DEFINE Apart == restarts' = restarts
                         => \A t \in Tasks : runs'[t] > runs[t] => exec[t] = "idle"
  <1>1. TaskInv /\ [Next]_vars => [Apart]_vars
    BY StartsIdle
  <1>. QED BY <1>1, TaskInvariant, PTL DEF TaskSpec, OneRunAtATime


====
