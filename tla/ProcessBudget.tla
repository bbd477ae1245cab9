---------------------------- MODULE ProcessBudget ----------------------------
(***************************************************************************)
(* runtime/process-budget.ts: the admission of every child process of the  *)
(* bot.  acquire() is one step up to its await on the cgroup files (the    *)
(* limits of the kind and of the service) and one step after it (memory).  *)
(* The reading of the memory in use and the test on it follow that await   *)
(* without another one, so they are one step.                              *)
(*                                                                         *)
(* A caller is an acquire() with the lease and the child it leads to; the  *)
(* ids of leases are never reused, so a caller that ends stands for a new  *)
(* one.  Memory is in units; a child starts small and grows to what its    *)
(* kind reserves before its reservation cools.                             *)
(***************************************************************************)
EXTENDS Naturals, FiniteSets, FiniteSetsExt

CONSTANTS
    Callers, Kinds,
    Cleanup,        \* the kind of the recovery lane
    Forced,         \* kinds that are killed when their lifetime is over (mcp-server)
    MaxConcurrent,  \* RULES: children of a kind at one time
    Reserve,        \* RULES: memory set aside for one of them
    Ceiling,        \* RULES: pressureCeiling times the memory limit
    MaxActive,      \* BOT_PROCESS_MAX_ACTIVE
    MaxOthers       \* bound on the memory used by other processes

ASSUME BudgetAssumption ==
    /\ IsFiniteSet(Callers)
    /\ Cleanup \in Kinds /\ Forced \subseteq Kinds
    /\ MaxConcurrent \in [Kinds -> Nat]
    /\ Reserve \in [Kinds -> Nat]
    /\ Ceiling \in [Kinds -> Nat]
    /\ MaxActive \in Nat /\ MaxOthers \in Nat

VARIABLES
    stage,          \* each caller: idle, pending in acquire(), or holding a lease
    kind,           \* ... the kind it asked for
    warm,           \* ... its reservation has not cooled yet
    child,          \* ... its child: none yet, small, grown, or dead
    pendingTotal, pendingBytes, pendingByKind,      \* counters of the governor
    others          \* memory used by processes that hold no lease

budget == <<stage, kind, warm, child, pendingTotal, pendingBytes, pendingByKind, others>>
counters == <<pendingTotal, pendingBytes, pendingByKind>>

Stages == {"idle", "pending", "active"}
Children == {"none", "small", "grown", "dead"}

AtStage(s) == {a \in Callers : stage[a] = s}
OfKind(s, k) == {a \in AtStage(s) : kind[a] = k}

Less(m, n) == IF m > n THEN m - n ELSE 0        \* Math.max(0, m - n)

(* What callers of given kinds set aside together.                         *)
Reserved(kinds, S) == MapThenSumSet(LAMBDA a : Reserve[kinds[a]], S)

MemoryInUse == others + Reserved(kind, {a \in AtStage("active") : child[a] = "grown"})

(* Mutant: the prediction forgets the children that are still starting.    *)
Predicted_ColdOnly == MemoryInUse + pendingBytes

Predicted ==
    MemoryInUse + pendingBytes + Reserved(kind, {a \in AtStage("active") : warm[a]})

BudgetInit ==
    /\ stage = [a \in Callers |-> "idle"]
    /\ kind = [a \in Callers |-> Cleanup]
    /\ warm = [a \in Callers |-> FALSE]
    /\ child = [a \in Callers |-> "none"]
    /\ pendingTotal = 0 /\ pendingBytes = 0
    /\ pendingByKind = [k \in Kinds |-> 0]
    /\ others \in 0..MaxOthers

-----------------------------------------------------------------------------
(* Mutant: requests that wait for the reading are not counted in a kind.   *)
CategoryFree_ActiveOnly(k) == Cardinality(OfKind("active", k)) < MaxConcurrent[k]

CategoryFree(k) == Cardinality(OfKind("active", k)) + pendingByKind[k] < MaxConcurrent[k]
ServiceFree(k) ==
    k # Cleanup => Cardinality(AtStage("active")) + pendingTotal < MaxActive

(* A request over a limit is rejected and changes nothing.                 *)
Acquire(a, k) ==
    /\ stage[a] = "idle"
    /\ CategoryFree(k) /\ ServiceFree(k)
    /\ stage' = [stage EXCEPT ![a] = "pending"]
    /\ kind' = [kind EXCEPT ![a] = k]
    /\ pendingTotal' = pendingTotal + 1
    /\ pendingBytes' = pendingBytes + Reserve[k]
    /\ pendingByKind' = [pendingByKind EXCEPT ![k] = @ + 1]
    /\ UNCHANGED <<warm, child, others>>

ReleasePending(k) ==
    /\ pendingTotal' = Less(pendingTotal, 1)
    /\ pendingBytes' = Less(pendingBytes, Reserve[k])
    /\ pendingByKind' = [pendingByKind EXCEPT ![k] = Less(@, 1)]

(* Mutant: a rejected request is released where it is rejected and again   *)
(* where the error is caught; the counters do not fall below zero.         *)
Refuse_Twice(a) ==
    /\ stage[a] = "pending"
    /\ pendingTotal' = Less(pendingTotal, 2)
    /\ pendingBytes' = Less(pendingBytes, 2 * Reserve[kind[a]])
    /\ pendingByKind' = [pendingByKind EXCEPT ![kind[a]] = Less(@, 2)]
    /\ stage' = [stage EXCEPT ![a] = "idle"]
    /\ UNCHANGED <<kind, warm, child, others>>

(* The reading fails, or the memory would not suffice.                     *)
Refuse(a) ==
    /\ stage[a] = "pending"
    /\ ReleasePending(kind[a])
    /\ stage' = [stage EXCEPT ![a] = "idle"]
    /\ UNCHANGED <<kind, warm, child, others>>

Admit(a) ==
    /\ stage[a] = "pending"
    /\ kind[a] # Cleanup => Predicted < Ceiling[kind[a]]
    /\ ReleasePending(kind[a])
    /\ stage' = [stage EXCEPT ![a] = "active"]
    /\ warm' = [warm EXCEPT ![a] = TRUE]
    /\ UNCHANGED <<kind, child, others>>

-----------------------------------------------------------------------------
Release(a) ==
    /\ stage' = [stage EXCEPT ![a] = "idle"]
    /\ warm' = [warm EXCEPT ![a] = FALSE]
    /\ child' = [child EXCEPT ![a] = "none"]

Spawn(a) ==
    /\ stage[a] = "active" /\ child[a] = "none"
    /\ child' = [child EXCEPT ![a] = "small"]
    /\ UNCHANGED <<stage, kind, warm, others, counters>>

SpawnThrows(a) ==
    /\ stage[a] = "active" /\ child[a] = "none"
    /\ Release(a)
    /\ UNCHANGED <<kind, others, counters>>

Grow(a) ==
    /\ child[a] = "small"
    /\ child' = [child EXCEPT ![a] = "grown"]
    /\ UNCHANGED <<stage, kind, warm, others, counters>>

(* RESERVATION_WARMUP_MS is over.                                          *)
Cool(a) ==
    /\ stage[a] = "active" /\ warm[a] /\ child[a] \in {"grown", "dead"}
    /\ warm' = [warm EXCEPT ![a] = FALSE]
    /\ UNCHANGED <<stage, kind, child, others, counters>>

Exit(a) ==
    /\ child[a] \in {"small", "grown"}
    /\ child' = [child EXCEPT ![a] = "dead"]
    /\ UNCHANGED <<stage, kind, warm, others, counters>>

(* Mutant: the child is asked to stop and not killed when it does not.     *)
LifetimeExceeded_Asks(a) ==
    /\ kind[a] \in Forced /\ child[a] \in {"small", "grown"}
    /\ UNCHANGED budget

(* SIGTERM when the lifetime is over and SIGKILL two seconds later.  The   *)
(* timeout of an exec only sends SIGTERM, and its child may go on.         *)
LifetimeExceeded(a) ==
    /\ kind[a] \in Forced
    /\ Exit(a)

(* The exit or close of the child, or the finally of an exec.              *)
Finish(a) ==
    /\ stage[a] = "active" /\ child[a] = "dead"
    /\ Release(a)
    /\ UNCHANGED <<kind, others, counters>>

Drift ==
    /\ others' \in 0..MaxOthers
    /\ UNCHANGED <<stage, kind, warm, child, counters>>

CallerStep(a) ==
    \/ \E k \in Kinds : Acquire(a, k)
    \/ Refuse(a) \/ Admit(a)
    \/ Spawn(a) \/ SpawnThrows(a) \/ Grow(a) \/ Cool(a)
    \/ Exit(a) \/ LifetimeExceeded(a) \/ Finish(a)

BudgetNext == Drift \/ \E a \in Callers : CallerStep(a)

BudgetSpec == BudgetInit /\ [][BudgetNext]_budget

(* The reading comes back or fails, spawn returns or throws, a child whose *)
(* time is over is killed, and its exit is reported.                       *)
FairBudgetSpec ==
    /\ BudgetSpec
    /\ \A a \in Callers :
          /\ WF_budget(Refuse(a) \/ Admit(a))
          /\ WF_budget(Spawn(a) \/ SpawnThrows(a))
          /\ WF_budget(LifetimeExceeded(a))
          /\ WF_budget(Finish(a))

-----------------------------------------------------------------------------
BudgetTypeOK ==
    /\ stage \in [Callers -> Stages]
    /\ kind \in [Callers -> Kinds]
    /\ warm \in [Callers -> BOOLEAN]
    /\ child \in [Callers -> Children]
    /\ pendingTotal \in Nat /\ pendingBytes \in Nat
    /\ pendingByKind \in [Kinds -> Nat]
    /\ others \in Nat
    /\ \A a \in Callers : warm[a] \/ child[a] # "none" => stage[a] = "active"

(* The counters, which are clamped at zero when they are decremented, have *)
(* not drifted from the requests that are pending.                         *)
RequestsCounted ==
    /\ pendingTotal = Cardinality(AtStage("pending"))
    /\ \A k \in Kinds : pendingByKind[k] = Cardinality(OfKind("pending", k))

CountersExact ==
    /\ RequestsCounted
    /\ pendingBytes = Reserved(kind, AtStage("pending"))

(* However requests overlap in their await and children outlive what was   *)
(* asked of them, the children that run and the requests for one stay      *)
(* below the limit of their kind, and normal work below the one of the     *)
(* service (PROCESS_BUDGET.md: "Max active", "a global default ceiling").  *)
Uses(a) == stage[a] # "idle" \/ child[a] \in {"small", "grown"}

LimitsHeld ==
    /\ \A k \in Kinds :
          Cardinality({a \in Callers : Uses(a) /\ kind[a] = k}) <= MaxConcurrent[k]
    /\ Cardinality({a \in Callers : Uses(a) /\ kind[a] # Cleanup}) <= MaxActive

(* What has been admitted, once grown, fits below the ceiling of the kind  *)
(* admitted last: concurrent starts cannot overbook memory before the      *)
(* accounting of the cgroup catches up (PROCESS_BUDGET.md).                *)
Committed ==
    others + Reserved(kind, {a \in AtStage("active") : child[a] # "dead"})

NeverOverbooked ==
    [][\A a \in Callers :
        stage[a] = "pending" /\ stage'[a] = "active" /\ kind[a] # Cleanup
        => Committed' < Ceiling[kind[a]]]_budget

(* A child with a lifetime gives its lease back, whatever it does.         *)
LeasesReturn ==
    \A a \in Callers : []<>(stage[a] = "idle" \/ kind[a] \notin Forced)

=============================================================================
