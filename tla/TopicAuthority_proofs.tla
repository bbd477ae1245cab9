------------------------ MODULE TopicAuthority_proofs ------------------------
(***************************************************************************)
(* Proofs about TopicAuthority, for any Workers, sessions, identities and  *)
(* runs and any bounds.                                                    *)
(*                                                                         *)
(* Generations name owners because every route ever installed is the       *)
(* recorded one or of a lower generation, while each registration records  *)
(* a generation above the recorded one or leaves the record as it is.      *)
(* Doubts are lifted rightly because, from the moment thirty seconds have  *)
(* passed, a task whose stop was not confirmed is not merely reserved, so  *)
(* an idle Worker does not have it; and a later failure changes the time   *)
(* that the admission remembers.                                           *)
(***************************************************************************)
EXTENDS TopicAuthority, TLAPS

(* What the record says of the routes that were ever installed.            *)
Recorded ==
    /\ \A x \in named : /\ x.route.gen <= entry.route.gen
                        /\ x.route.gen = entry.route.gen => x = entry
    /\ route # NoRoute => Owned(route, owner) \in named
    /\ registration # NoRegistration => route = NoRoute
    /\ route = NoRoute => current = NoRun
    /\ registration.pc = "install" =>
          /\ entry # Nobody
          /\ entry.route.identity = registration.identity
          /\ entry.worker = registration.worker

AuthorityInvariant ==
    AuthorityTypeOK /\ Recorded /\ GenerationNamesOwner /\ RouteIsRecorded

(* A task belongs to the Worker of its run, and after the wait none whose  *)
(* stop was not confirmed is only reserved.                                *)
Lost(r, w) == dispatch[r].lost /\ dispatch[r].worker = w

Stopping ==
    /\ \A r \in Runs : dispatch[r].worker \in {NoWorker, run[r].worker}
    /\ \A r \in Runs : dispatch[r].pc # "none" => dispatch[r].worker # NoWorker
    /\ \A w \in Workers, r \in Runs : aged[w] /\ Lost(r, w) => atWorker[r] # "reserved"

(* An admission that asks for proof asks about a route that was installed, *)
(* and, unless its Worker failed again, after the wait; once it has the    *)
(* answer the Worker holds nothing whose stop was not confirmed.           *)
Asked(x) ==
    /\ admission.pc \in {"status", "proof"}
    /\ x.route = admission.route
    /\ uncertain[x.worker] = admission.since

Proving ==
    /\ admission # NoAdmission => \E x \in named : x.route = admission.route
    /\ admission.pc \in {"status", "proof"} => admission.since # 0
    /\ \A x \in named : Asked(x) => aged[x.worker]
    /\ \A x \in named : Asked(x) /\ admission.pc = "proof" =>
          \A r \in Runs : Lost(r, x.worker) => atWorker[r] = "none"

DoubtInvariant == AuthorityInvariant /\ Stopping /\ Proving

-----------------------------------------------------------------------------
(* A recorded generation is at least one.                                  *)
LEMMA NextGenerationBound ==
    ASSUME AuthorityTypeOK, NEW i \in Identities, NEW w \in Workers
    PROVE  /\ NextGeneration(i, w) \in Nat \ {0}
           /\ \/ NextGeneration(i, w) > entry.route.gen
              \/ /\ entry = Owned([identity |-> i, gen |-> NextGeneration(i, w)], w)
                 /\ NextGeneration(i, w) = entry.route.gen
<1>1. w.gen \in Nat \ {0} /\ entry.route.gen \in Nat
  BY AuthorityAssumption DEF AuthorityTypeOK, OwnedRoutes, Routes, Workers, Nobody, Owned, NoRoute
<1>2. CASE entry.route.identity = i /\ entry.worker = w
  <2>1. entry \in OwnedRoutes
    BY <1>1, <1>2 DEF AuthorityTypeOK, Nobody, Owned, NoWorker, Workers
  <2>2. entry.route \in Routes \ {NoRoute}
    BY <2>1 DEF OwnedRoutes
  <2>3. entry.route = [identity |-> i, gen |-> entry.route.gen] /\ entry.route.gen \in Nat \ {0}
    BY <1>2, <2>2 DEF Routes
  <2>4. entry = Owned(entry.route, w)
    BY <1>2, <2>1 DEF OwnedRoutes, Owned
  <2> QED BY <1>2, <2>3, <2>4 DEF NextGeneration
<1>3. CASE ~(entry.route.identity = i /\ entry.worker = w)
  BY <1>1, <1>3 DEF NextGeneration, Greater
<1> QED BY <1>2, <1>3

(* The values that stand for nothing have the types of what they stand for. *)
LEMMA Nothing ==
    /\ NoRoute \in Routes /\ NoWorker \notin Workers
    /\ NoAdmission \in Admissions /\ NoAdmission.since = 0 /\ NoAdmission.pc = "idle"
    /\ NoDispatch \in Dispatches /\ NoDispatch.pc = "none" /\ NoDispatch.lost = FALSE
    /\ NoDispatch.worker = NoWorker
  BY AuthorityAssumption DEF NoRoute, NoWorker, NoAdmission, NoDispatch, Routes, Workers, Admissions, Dispatches

LEMMA TypeInit == AuthorityInit => AuthorityTypeOK
<1> SUFFICES ASSUME AuthorityInit PROVE AuthorityTypeOK
  OBVIOUS
<1>1. /\ admission \in Admissions /\ admission.since <= stamps
      /\ dispatch \in [Runs -> Dispatches]
  BY Nothing DEF AuthorityInit
<1>2. /\ uncertain \in [Workers -> 0..stamps] /\ aged \in [Workers -> BOOLEAN] /\ stamps \in Nat
      /\ atWorker \in [Runs -> {"none", "reserved", "executing"}]
  BY DEF AuthorityInit
<1> QED
  BY <1>1, <1>2, Nothing DEF AuthorityInit, AuthorityTypeOK

(* The part of the type that is about failed stops.                        *)
DoubtsOK ==
    /\ stamps \in Nat
    /\ admission.since <= stamps
    /\ uncertain \in [Workers -> 0..stamps]
    /\ aged \in [Workers -> BOOLEAN]

LEMMA DoubtedType ==
    ASSUME AuthorityTypeOK, NEW w, Doubted(w), UNCHANGED admission
    PROVE  DoubtsOK'
<1>1. stamps' = stamps + 1 /\ stamps \in Nat
  BY DEF Doubted, AuthorityTypeOK
<1>2. admission'.since \in Nat /\ admission'.since <= stamps
  BY DEF AuthorityTypeOK, Admissions
<1>3. uncertain' \in [Workers -> 0..stamps']
  <2>1. stamps' \in 0..stamps' /\ 0..stamps \subseteq 0..stamps'
    BY <1>1
  <2>2. uncertain' = [uncertain EXCEPT ![w] = stamps'] /\ uncertain \in [Workers -> 0..stamps]
    BY DEF Doubted, AuthorityTypeOK
  <2> QED BY <2>1, <2>2
<1>4. aged' \in [Workers -> BOOLEAN]
  BY DEF Doubted, AuthorityTypeOK
<1> QED BY <1>1, <1>2, <1>3, <1>4 DEF DoubtsOK

LEMMA TypeStep == AuthorityTypeOK /\ Recorded /\ [AuthorityNext]_vars => AuthorityTypeOK'
<1> SUFFICES ASSUME AuthorityTypeOK, Recorded, [AuthorityNext]_vars PROVE AuthorityTypeOK'
  OBVIOUS
<1> USE DEF routes, admitting, doubts
<1>1. CASE BindWorker
  BY <1>1 DEF BindWorker, AuthorityTypeOK
<1>2. CASE ChangeStatus
  BY <1>2 DEF ChangeStatus, AuthorityTypeOK, NoBinding
<1>4. ASSUME NEW i \in Identities, NEW rotating \in BOOLEAN, Compare(i, rotating)
      PROVE  AuthorityTypeOK'
  <2>1. Ready(i) => table.worker \in Workers
    BY DEF Ready, AuthorityTypeOK, NoBinding
  <2> QED BY <1>4, <2>1 DEF Compare, Revoked, AuthorityTypeOK, Routes
<1>5. CASE Persist
  <2> DEFINE i == registration.identity
             w == registration.worker
             next == Owned([identity |-> i, gen |-> NextGeneration(i, w)], w)
  <2>1. i \in Identities /\ w \in Workers
    BY <1>5 DEF Persist, AuthorityTypeOK, NoRegistration
  <2>2. next \in OwnedRoutes
    <3>1. NextGeneration(i, w) \in Nat \ {0}
      BY <2>1, NextGenerationBound
    <3> HIDE DEF i, w
    <3> QED BY <2>1, <3>1 DEF OwnedRoutes, Owned, Routes, NoRoute
  <2>3. registration' \in [pc : {"persist", "install"}, identity : Identities, worker : Workers]
        \/ registration' = NoRegistration
    BY <1>5 DEF Persist, AuthorityTypeOK, NoRegistration
  <2>4. entry' \in {entry, next}
    BY <1>5 DEF Persist
  <2> HIDE DEF next
  <2> QED BY <1>5, <2>2, <2>3, <2>4 DEF Persist, AuthorityTypeOK
<1>6. CASE Install
  <2>1. entry \in OwnedRoutes
    BY <1>6 DEF Install, Recorded, AuthorityTypeOK
  <2>2. entry.route \in Routes \ {NoRoute} /\ entry.worker \in Workers
    BY <2>1 DEF OwnedRoutes
  <2>3. registration.worker = entry.worker
    BY <1>6 DEF Install, Recorded
  <2>4. Owned(entry.route, entry.worker) \in OwnedRoutes
    BY <2>2 DEF OwnedRoutes, Owned
  <2> QED BY <1>6, <2>2, <2>3, <2>4, Nothing DEF Install, AuthorityTypeOK
<1>7. ASSUME NEW s \in Sessions, RevokeSession(s) PROVE AuthorityTypeOK'
  BY <1>7 DEF RevokeSession, Revoked, AuthorityTypeOK, Routes
<1>8. CASE Admit
  <2>1. uncertain[owner] \in Nat /\ uncertain[owner] <= stamps /\ stamps \in Nat
    <3>1. uncertain[owner] \in 0..stamps /\ stamps \in Nat
      BY <1>8 DEF Admit, AssertNode, AuthorityTypeOK
    <3> QED BY <3>1
  <2>2. /\ admission'.since = uncertain[owner]
        /\ \E pc \in {"begin", "status"} :
              admission' = [pc |-> pc, route |-> route, since |-> uncertain[owner]]
    <3> DEFINE pc == IF uncertain[owner] = 0 THEN "begin" ELSE "status"
    <3>1. admission' = [NoAdmission EXCEPT !.pc = pc, !.route = route, !.since = uncertain[owner]]
      BY <1>8 DEF Admit
    <3>2. pc \in {"begin", "status"}
      OBVIOUS
    <3> HIDE DEF pc
    <3>3. admission' = [pc |-> pc, route |-> route, since |-> uncertain[owner]]
      BY <3>1 DEF NoAdmission
    <3> QED BY <3>2, <3>3
  <2>3. admission' \in Admissions
    BY <2>1, <2>2 DEF Admissions, AuthorityTypeOK
  <2> QED BY <1>8, <2>1, <2>2, <2>3 DEF Admit, AuthorityTypeOK
<1>9. CASE ReadStatus
  BY <1>9 DEF ReadStatus, AuthorityTypeOK, Admissions
<1>10. CASE Lift
  <2>1. admission' \in Admissions /\ admission'.since = admission.since
    BY <1>10 DEF Lift, AuthorityTypeOK, Admissions
  <2>2. 0 \in 0..stamps
    BY DEF AuthorityTypeOK
  <2>3. uncertain' \in [Workers -> 0..stamps]
    BY <1>10, <2>2 DEF Lift, AuthorityTypeOK
  <2>4. aged' \in [Workers -> BOOLEAN]
    BY <1>10 DEF Lift, AuthorityTypeOK
  <2> QED BY <1>10, <2>1, <2>3, <2>4 DEF Lift, AuthorityTypeOK
<1>11. CASE AdmissionFails
  BY <1>11, Nothing DEF AdmissionFails, AuthorityTypeOK
<1>12. CASE FinishRun
  BY <1>12 DEF FinishRun, AuthorityTypeOK
<1>13. ASSUME NEW r \in Runs, Task(r) PROVE AuthorityTypeOK'
  <2>1. CASE BeginRun(r)
    <3>1. route # NoRoute /\ owner \in Workers
      BY <2>1 DEF BeginRun, AssertNode, AuthorityTypeOK
    <3>2. Owned(admission.route, owner) \in OwnedRoutes
      BY <2>1, <3>1 DEF BeginRun, AssertNode, Owned, OwnedRoutes, AuthorityTypeOK
    <3>3. run' \in [Runs -> OwnedRoutes \cup {Nobody}]
      BY <2>1, <3>2 DEF BeginRun, AuthorityTypeOK
    <3> QED BY <2>1, <3>3, Nothing DEF BeginRun, AuthorityTypeOK
  <2>2. CASE Send(r)
    <3>1. [NoDispatch EXCEPT !.pc = "sent", !.worker = owner] \in Dispatches
      BY DEF NoDispatch, Dispatches, AuthorityTypeOK
    <3>2. dispatch' \in [Runs -> Dispatches]
      BY <2>2, <3>1 DEF Send, AuthorityTypeOK
    <3>3. atWorker' \in [Runs -> {"none", "reserved", "executing"}]
      BY <2>2 DEF Send, AuthorityTypeOK
    <3> QED BY <2>2, <3>2, <3>3 DEF Send, AuthorityTypeOK
  <2>3. CASE Return(r)
    BY <2>3, Nothing DEF Return, AuthorityTypeOK
  <2>4. CASE FailTask(r)
    <3>1. dispatch' \in [Runs -> Dispatches]
      BY <2>4 DEF FailTask, AuthorityTypeOK, Dispatches
    <3> QED BY <2>4, <3>1 DEF FailTask, AuthorityTypeOK
  <2>5. CASE StopConfirmed(r)
    <3>1. dispatch' \in [Runs -> Dispatches]
      BY <2>5, Nothing DEF StopConfirmed, AuthorityTypeOK
    <3>2. DoubtsOK'
      BY <2>5, DoubtedType DEF StopConfirmed, DoubtsOK, AuthorityTypeOK
    <3>3. atWorker' \in [Runs -> {"none", "reserved", "executing"}]
      BY <2>5 DEF StopConfirmed, AuthorityTypeOK
    <3> QED BY <2>5, <3>1, <3>2, <3>3 DEF StopConfirmed, DoubtsOK, AuthorityTypeOK
  <2>6. CASE StopUnconfirmed(r)
    <3>1. [NoDispatch EXCEPT !.worker = dispatch[r].worker, !.lost = TRUE] \in Dispatches
      BY DEF NoDispatch, Dispatches, AuthorityTypeOK
    <3>2. dispatch' \in [Runs -> Dispatches]
      BY <2>6, <3>1 DEF StopUnconfirmed, AuthorityTypeOK
    <3>3. DoubtsOK'
      BY <2>6, DoubtedType DEF StopUnconfirmed
    <3>4. atWorker' \in [Runs -> {"none", "reserved", "executing"}]
      BY <2>6 DEF StopUnconfirmed, AuthorityTypeOK
    <3> QED BY <2>6, <3>2, <3>3, <3>4 DEF StopUnconfirmed, DoubtsOK, AuthorityTypeOK
  <2>7. CASE WorkerProceeds(r)
    BY <2>7 DEF WorkerProceeds, AuthorityTypeOK
  <2> QED BY <1>13, <2>1, <2>2, <2>3, <2>4, <2>5, <2>6, <2>7 DEF Task
<1>14. ASSUME NEW w \in Workers, Elapse(w) PROVE AuthorityTypeOK'
  BY <1>14 DEF Elapse, AuthorityTypeOK
<1>15. CASE Restart
  <2>1. /\ dispatch' \in [Runs -> Dispatches]
        /\ admission' \in Admissions /\ admission'.since = 0
    BY <1>15, Nothing DEF Restart
  <2>2. uncertain' \in [Workers -> 0..stamps'] /\ aged' \in [Workers -> BOOLEAN] /\ stamps' = 0
    BY <1>15 DEF Restart
  <2>3. /\ table' = table /\ entry' = entry /\ named' = named /\ run' = run /\ atWorker' = atWorker
        /\ route' = NoRoute /\ owner' = NoWorker /\ current' = NoRun
        /\ registration' = NoRegistration /\ poisoned' = FALSE
    BY <1>15 DEF Restart, Revoked
  <2>4. DoubtsOK'
    <3>1. stamps' \in Nat /\ admission'.since <= stamps'
      BY <2>1, <2>2
    <3> QED BY <2>2, <3>1 DEF DoubtsOK
  <2> QED BY <2>1, <2>3, <2>4, Nothing DEF DoubtsOK, AuthorityTypeOK
<1>16. CASE UNCHANGED vars
  BY <1>16 DEF vars, AuthorityTypeOK
<1> QED
  BY <1>1, <1>2, <1>4, <1>5, <1>6, <1>7, <1>8, <1>9, <1>10, <1>11, <1>12, <1>13, <1>14,
     <1>15, <1>16
  DEF AuthorityNext, Register

-----------------------------------------------------------------------------
LEMMA InvariantInit == AuthorityInit => AuthorityInvariant
  BY TypeInit
  DEF AuthorityInit, AuthorityInvariant, Recorded, GenerationNamesOwner, RouteIsRecorded, NoRegistration

LEMMA InvariantStep == AuthorityInvariant /\ [AuthorityNext]_vars => AuthorityInvariant'
<1> SUFFICES ASSUME AuthorityInvariant, [AuthorityNext]_vars
             PROVE  (Recorded /\ GenerationNamesOwner /\ RouteIsRecorded)'
  BY TypeStep DEF AuthorityInvariant
<1> USE DEF routes, admitting, doubts
<1>1. CASE UNCHANGED <<routes, current, run>>
  BY <1>1 DEF AuthorityInvariant, Recorded, GenerationNamesOwner, RouteIsRecorded
<1>2. CASE Revoked /\ UNCHANGED <<entry, named, run>> /\ registration'.pc # "install"
  BY <1>2 DEF Revoked, AuthorityInvariant, Recorded, GenerationNamesOwner, RouteIsRecorded
<1>3. ASSUME NEW i \in Identities, NEW rotating \in BOOLEAN, Compare(i, rotating)
      PROVE  (Recorded /\ GenerationNamesOwner /\ RouteIsRecorded)'
  <2>1. registration.pc # "install" /\ UNCHANGED <<entry, named, run>>
    BY <1>3 DEF Compare, NoRegistration
  <2>2. \/ UNCHANGED <<route, owner, current, registration>>
        \/ Revoked /\ UNCHANGED registration
        \/ Revoked /\ registration'.pc = "persist"
    BY <1>3 DEF Compare
  <2> QED BY <1>1, <1>2, <2>1, <2>2
<1>4. CASE Persist
  <2> DEFINE i == registration.identity
             w == registration.worker
             next == Owned([identity |-> i, gen |-> NextGeneration(i, w)], w)
  <2>1. i \in Identities /\ w \in Workers /\ registration # NoRegistration
    BY <1>4 DEF Persist, AuthorityInvariant, AuthorityTypeOK, NoRegistration
  <2>2. /\ NextGeneration(i, w) \in Nat \ {0}
        /\ NextGeneration(i, w) > entry.route.gen \/ entry = next
    BY <2>1, NextGenerationBound DEF AuthorityInvariant
  <2>3. /\ next.route.identity = i /\ next.worker = w /\ next.route.gen = NextGeneration(i, w)
        /\ next # Nobody
    BY <2>2 DEF Owned, Nobody, NoRoute
  <2>4. route = NoRoute /\ current = NoRun
    BY <2>1 DEF AuthorityInvariant, Recorded
  <2>5. entry' \in {entry, next} /\ UNCHANGED <<route, named, current>>
    BY <1>4 DEF Persist
  <2>6. ASSUME NEW x \in named
        PROVE  x.route.gen <= entry'.route.gen /\ (x.route.gen = entry'.route.gen => x = entry')
    <3>1. x.route.gen <= entry.route.gen /\ (x.route.gen = entry.route.gen => x = entry)
      BY DEF AuthorityInvariant, Recorded
    <3>2. x.route.gen \in Nat /\ entry.route.gen \in Nat
      BY DEF AuthorityInvariant, AuthorityTypeOK, OwnedRoutes, Routes, Nobody, Owned, NoRoute
    <3> HIDE DEF next
    <3> QED BY <2>2, <2>3, <2>5, <3>1, <3>2
  <2>7. registration'.pc = "install" =>
           entry' # Nobody /\ entry'.route.identity = registration'.identity
                           /\ entry'.worker = registration'.worker
    <3>1. CASE entry' = next /\ registration' = [registration EXCEPT !.pc = "install"]
      <4>1. registration'.identity = i /\ registration'.worker = w
        BY <3>1, <2>1 DEF AuthorityInvariant, AuthorityTypeOK
      <4> QED BY <3>1, <4>1, <2>3
    <3>2. CASE registration' = NoRegistration
      BY <3>2 DEF NoRegistration
    <3> QED BY <1>4, <3>1, <3>2 DEF Persist
  <2>8. Recorded'
    BY <2>4, <2>5, <2>6, <2>7 DEF Recorded
  <2> QED BY <2>4, <2>5, <2>8 DEF AuthorityInvariant, GenerationNamesOwner, RouteIsRecorded
<1>5. CASE Install
  <2>1. entry \in OwnedRoutes /\ entry.worker = registration.worker
    BY <1>5 DEF Install, AuthorityInvariant, Recorded, AuthorityTypeOK
  <2>2. Owned(route', owner') = entry /\ named' = named \cup {entry}
    BY <1>5, <2>1 DEF Install, Owned, OwnedRoutes
  <2>3. entry' = entry /\ registration' = NoRegistration /\ current' = current
    BY <1>5 DEF Install
  <2>4. current = NoRun
    BY <1>5 DEF Install, NoRegistration, AuthorityInvariant, Recorded
  <2>5. entry.route.gen \in Nat
    BY <2>1 DEF OwnedRoutes, Routes, NoRoute
  <2>6. Recorded'
    BY <2>2, <2>3, <2>4, <2>5 DEF AuthorityInvariant, Recorded, NoRegistration
  <2>7. GenerationNamesOwner'
    BY <2>2 DEF AuthorityInvariant, Recorded, GenerationNamesOwner
  <2> QED BY <2>2, <2>3, <2>4, <2>6, <2>7 DEF RouteIsRecorded
<1>6. ASSUME NEW s \in Sessions, RevokeSession(s)
      PROVE  (Recorded /\ GenerationNamesOwner /\ RouteIsRecorded)'
  <2>1. registration'.pc # "install"
    BY <1>6 DEF RevokeSession, AuthorityInvariant, Recorded, NoRegistration
  <2> QED BY <1>2, <1>6, <2>1 DEF RevokeSession
<1>7. ASSUME NEW r \in Runs, BeginRun(r)
      PROVE  (Recorded /\ GenerationNamesOwner /\ RouteIsRecorded)'
  BY <1>7 DEF BeginRun, AssertNode, AuthorityInvariant, AuthorityTypeOK, Recorded, GenerationNamesOwner,
     RouteIsRecorded
<1>8. CASE FinishRun
  BY <1>8 DEF FinishRun, AuthorityInvariant, Recorded, GenerationNamesOwner, RouteIsRecorded
<1>9. CASE Restart
  BY <1>2, <1>9 DEF Restart, NoRegistration
<1>10. CASE BindWorker \/ ChangeStatus \/ Admit \/ ReadStatus \/ Lift \/ AdmissionFails
  BY <1>1, <1>10 DEF BindWorker, ChangeStatus, Admit, ReadStatus, Lift, AdmissionFails
<1>11. ASSUME NEW r \in Runs, Task(r)
       PROVE  (Recorded /\ GenerationNamesOwner /\ RouteIsRecorded)'
  BY <1>1, <1>7, <1>11
  DEF Task, Send, Return, FailTask, StopConfirmed, StopUnconfirmed, WorkerProceeds
<1>12. ASSUME NEW w \in Workers, Elapse(w)
       PROVE  (Recorded /\ GenerationNamesOwner /\ RouteIsRecorded)'
  BY <1>1, <1>12 DEF Elapse
<1>13. CASE UNCHANGED vars
  BY <1>1, <1>13 DEF vars
<1> QED
  BY <1>3, <1>4, <1>5, <1>6, <1>8, <1>9, <1>10, <1>11, <1>12, <1>13 DEF AuthorityNext, Register

(* The inductive invariant holds in every reachable state.                 *)
THEOREM AuthorityHolds == AuthoritySpec => []AuthorityInvariant
<1>1. AuthorityInit => AuthorityInvariant
  BY InvariantInit
<1>2. AuthorityInvariant /\ [AuthorityNext]_vars => AuthorityInvariant'
  BY InvariantStep
<1> QED BY <1>1, <1>2, PTL DEF AuthoritySpec

(* The state of the authority has its type.                                *)
THEOREM AuthorityTypeCorrect == AuthoritySpec => []AuthorityTypeOK
<1>1. AuthorityInvariant => AuthorityTypeOK
  BY DEF AuthorityInvariant
<1> QED BY <1>1, AuthorityHolds, PTL

(* A generation of the binding is never given to a second identity or      *)
(* Worker (durableGeneration).                                             *)
THEOREM GenerationsAreUnique == AuthoritySpec => []GenerationNamesOwner
<1>1. AuthorityInvariant => GenerationNamesOwner
  BY DEF AuthorityInvariant
<1> QED BY <1>1, AuthorityHolds, PTL

(* The route that serves is the recorded one, and the accepted run is a    *)
(* run of it (registerSerialized, revoke, beginRun).                       *)
THEOREM ServingIsRecorded == AuthoritySpec => []RouteIsRecorded
<1>1. AuthorityInvariant => RouteIsRecorded
  BY DEF AuthorityInvariant
<1> QED BY <1>1, AuthorityHolds, PTL

-----------------------------------------------------------------------------
LEMMA DoubtInit == AuthorityInit => DoubtInvariant
  BY InvariantInit, Nothing
  DEF AuthorityInit, DoubtInvariant, Stopping, Proving, Lost, Asked, Nobody, Owned

(* The Worker of a run that is accepted is the owner.                      *)
LEMMA AcceptedRunsAtOwner ==
    ASSUME AuthorityInvariant, NEW r \in Runs, Accepted(r)
    PROVE  run[r].worker = owner /\ owner \in Workers
  BY AuthorityAssumption
  DEF Accepted, AssertNode, AuthorityInvariant, AuthorityTypeOK, RouteIsRecorded, Owned, NoRun

(* A failed stop changes the time an admission remembers, and the wait     *)
(* begins again.                                                           *)
LEMMA DoubtIsNew ==
    ASSUME AuthorityTypeOK, NEW w \in Workers, Doubted(w)
    PROVE  /\ aged'[w] = FALSE
           /\ uncertain'[w] # admission.since /\ uncertain'[w] # 0
           /\ \A v \in Workers \ {w} : uncertain'[v] = uncertain[v] /\ aged'[v] = aged[v]
  BY DEF Doubted, AuthorityTypeOK, Admissions

LEMMA StoppingStep ==
    ASSUME DoubtInvariant, [AuthorityNext]_vars
    PROVE  Stopping'
<1> USE DEF routes, admitting, doubts
<1> AuthorityTypeOK /\ AuthorityInvariant /\ Stopping
  BY DEF DoubtInvariant, AuthorityInvariant
<1>1. CASE UNCHANGED <<run, dispatch, aged, atWorker>>
  BY <1>1 DEF Stopping, Lost
<1>2. CASE BindWorker
  BY <1>2 DEF BindWorker, Stopping, Lost, AuthorityTypeOK
<1>3. CASE Lift
  BY <1>3 DEF Lift, Stopping, Lost, AuthorityTypeOK
<1>4. ASSUME NEW r \in Runs, BeginRun(r) PROVE Stopping'
  <2>1. run'[r].worker = run[r].worker \/ dispatch[r].worker = NoWorker
    <3>1. run'[r].worker = owner
      BY <1>4 DEF BeginRun, AuthorityTypeOK, Owned
    <3>2. CASE run[r] = Nobody
      BY <3>2 DEF Stopping, Nobody, Owned
    <3> QED BY <1>4, <3>1, <3>2 DEF BeginRun
  <2> QED BY <1>4, <2>1 DEF BeginRun, Stopping, Lost, AuthorityTypeOK
<1>5. ASSUME NEW r \in Runs, Send(r) PROVE Stopping'
  <2>1. run[r].worker = owner /\ owner \in Workers
    BY <1>5, AcceptedRunsAtOwner DEF Send
  <2>2. dispatch'[r].worker = owner /\ dispatch'[r].lost = FALSE
    BY <1>5 DEF Send, NoDispatch, AuthorityTypeOK
  <2>3. \A q \in Runs \ {r} : dispatch'[q] = dispatch[q] /\ atWorker'[q] = atWorker[q]
    BY <1>5 DEF Send, AuthorityTypeOK
  <2>4. UNCHANGED <<run, aged>>
    BY <1>5 DEF Send
  <2> QED BY <2>1, <2>2, <2>3, <2>4, Nothing DEF Stopping, Lost
<1>6. ASSUME NEW r \in Runs, Return(r) PROVE Stopping'
  BY <1>6, Nothing DEF Return, Stopping, Lost, AuthorityTypeOK
<1>7. ASSUME NEW r \in Runs, FailTask(r) PROVE Stopping'
  <2>1. \A q \in Runs : /\ dispatch'[q].worker = dispatch[q].worker
                        /\ dispatch'[q].lost = dispatch[q].lost
                        /\ dispatch'[q].pc # "none" => dispatch[q].pc # "none"
    BY <1>7 DEF FailTask, AuthorityTypeOK, Dispatches
  <2>2. UNCHANGED <<run, aged, atWorker>>
    BY <1>7 DEF FailTask
  <2> QED BY <2>1, <2>2 DEF Stopping, Lost
<1>8. ASSUME NEW r \in Runs, StopConfirmed(r) PROVE Stopping'
  <2>1. dispatch[r].worker \in Workers
    BY <1>8 DEF StopConfirmed, Stopping, AuthorityTypeOK, Dispatches
  <2>2. \A w \in Workers : aged'[w] => aged[w]
    BY <1>8, <2>1, DoubtIsNew DEF StopConfirmed
  <2>3. dispatch'[r] = NoDispatch /\ run' = run
    BY <1>8 DEF StopConfirmed, AuthorityTypeOK
  <2>4. \A q \in Runs \ {r} : dispatch'[q] = dispatch[q] /\ atWorker'[q] = atWorker[q]
    BY <1>8 DEF StopConfirmed, AuthorityTypeOK
  <2> QED BY <2>2, <2>3, <2>4, Nothing DEF Stopping, Lost
<1>9. ASSUME NEW r \in Runs, StopUnconfirmed(r) PROVE Stopping'
  <2>1. dispatch[r].worker \in Workers
    BY <1>9 DEF StopUnconfirmed, Stopping, AuthorityTypeOK, Dispatches
  <2>2. aged'[dispatch[r].worker] = FALSE /\ \A w \in Workers : aged'[w] => aged[w]
    BY <1>9, <2>1, DoubtIsNew DEF StopUnconfirmed
  <2>3. dispatch'[r].worker = dispatch[r].worker /\ dispatch'[r].pc = "none" /\ run' = run
    BY <1>9 DEF StopUnconfirmed, NoDispatch, AuthorityTypeOK
  <2>4. \A q \in Runs \ {r} : dispatch'[q] = dispatch[q] /\ atWorker'[q] = atWorker[q]
    BY <1>9 DEF StopUnconfirmed, AuthorityTypeOK
  <2> QED BY <2>2, <2>3, <2>4 DEF Stopping, Lost
<1>10. ASSUME NEW r \in Runs, WorkerProceeds(r) PROVE Stopping'
  BY <1>10 DEF WorkerProceeds, Stopping, Lost, AuthorityTypeOK
<1>11. ASSUME NEW w \in Workers, Elapse(w) PROVE Stopping'
  <2>1. \A r \in Runs : /\ atWorker'[r] \in {atWorker[r], "none"}
                        /\ Lost(r, w) => atWorker'[r] # "reserved"
    BY <1>11 DEF Elapse, Lost
  <2>2. \A v \in Workers \ {w} : aged'[v] = aged[v]
    BY <1>11 DEF Elapse, AuthorityTypeOK
  <2>3. UNCHANGED <<run, dispatch>>
    BY <1>11 DEF Elapse
  <2> QED BY <2>1, <2>2, <2>3 DEF Stopping, Lost
<1>12. CASE Restart
  BY <1>12, Nothing DEF Restart, Stopping, Lost
<1>13. ASSUME NEW i \in Identities, NEW rotating \in BOOLEAN, Compare(i, rotating) PROVE Stopping'
  BY <1>1, <1>13 DEF Compare
<1>14. ASSUME NEW s \in Sessions, RevokeSession(s) PROVE Stopping'
  BY <1>1, <1>14 DEF RevokeSession
<1>15. CASE \/ ChangeStatus \/ Persist \/ Install \/ Admit \/ ReadStatus
            \/ AdmissionFails \/ FinishRun \/ UNCHANGED vars
  BY <1>1, <1>15
  DEF ChangeStatus, Persist, Install, Admit, ReadStatus, AdmissionFails, FinishRun, vars
<1> QED
  BY <1>2, <1>3, <1>4, <1>5, <1>6, <1>7, <1>8, <1>9, <1>10, <1>11, <1>12, <1>13, <1>14, <1>15
  DEF AuthorityNext, Register, Task

(* Two installed routes that are equal have the same Worker.               *)
LEMMA OneWorker ==
    ASSUME AuthorityInvariant, NEW x \in named, NEW y \in named, x.route = y.route
    PROVE  x = y
  BY DEF AuthorityInvariant, GenerationNamesOwner

(* Nothing asked is disturbed while the admission, the routes and what       *)
(* the Worker is known to hold stay as they are.                           *)
LEMMA ProvingKept ==
    ASSUME DoubtInvariant, UNCHANGED <<admission, named>>,
           \A w \in Workers : uncertain'[w] = admission.since =>
               /\ uncertain[w] = admission.since
               /\ aged[w] => aged'[w]
               /\ \A r \in Runs : Lost(r, w)' => Lost(r, w) /\ atWorker'[r] \in {atWorker[r], "none"}
    PROVE  Proving'
<1>1. \A x \in named : x.worker \in Workers
  BY DEF DoubtInvariant, AuthorityInvariant, AuthorityTypeOK, OwnedRoutes
<1>2. \A x \in named : Asked(x)' => Asked(x) /\ aged'[x.worker]
  BY <1>1 DEF Asked, DoubtInvariant, Proving
<1>3. ASSUME NEW x \in named, Asked(x)', admission.pc = "proof", NEW r \in Runs, Lost(r, x.worker)'
      PROVE  atWorker'[r] = "none"
  <2>1. Lost(r, x.worker) /\ atWorker'[r] \in {atWorker[r], "none"}
    BY <1>1, <1>3 DEF Asked
  <2>2. Asked(x)
    BY <1>2, <1>3
  <2> QED BY <1>3, <2>1, <2>2 DEF DoubtInvariant, Proving
<1> QED BY <1>2, <1>3 DEF DoubtInvariant, Proving

(* What an idle answer shows: nothing whose stop was not confirmed.        *)
LEMMA IdleMeansNone ==
    ASSUME DoubtInvariant, NEW w \in Workers, aged[w],
           \A r \in Runs : run[r].worker = w => atWorker[r] # "executing",
           NEW r \in Runs, Lost(r, w)
    PROVE  atWorker[r] = "none"
<1>1. run[r].worker = w
  BY Nothing DEF DoubtInvariant, Stopping, Lost
<1> QED BY <1>1 DEF DoubtInvariant, Stopping, AuthorityInvariant, AuthorityTypeOK

LEMMA ProvingStep ==
    ASSUME DoubtInvariant, AuthorityInvariant', [AuthorityNext]_vars
    PROVE  Proving'
<1> USE DEF routes, admitting, doubts
<1> AuthorityTypeOK /\ AuthorityInvariant /\ Stopping /\ Proving
  BY DEF DoubtInvariant, AuthorityInvariant
<1>1. CASE UNCHANGED <<named, admission, uncertain, aged, dispatch, atWorker>>
  BY <1>1 DEF Proving, Asked, Lost
<1>2. CASE admission' = NoAdmission
  BY <1>2, Nothing DEF Proving, Asked
<1>3. CASE Admit
  <2>1. /\ route # NoRoute /\ owner \in Workers /\ Owned(route, owner) \in named
    BY <1>3 DEF Admit, AssertNode, AuthorityInvariant, Recorded, AuthorityTypeOK
  <2>2. admission'.route = route /\ admission'.since = uncertain[owner]
    BY <1>3 DEF Admit, NoAdmission
  <2>3. admission'.pc = IF uncertain[owner] = 0 THEN "begin" ELSE "status"
    BY <1>3 DEF Admit, NoAdmission
  <2>4. uncertain[owner] # 0 => aged[owner]
    BY <1>3 DEF Admit
  <2>5. UNCHANGED <<named, uncertain, aged>>
    BY <1>3 DEF Admit
  <2>6. ASSUME NEW x \in named, Asked(x)' PROVE aged'[x.worker]
    <3>1. x.route = Owned(route, owner).route
      BY <2>2, <2>6 DEF Asked, Owned
    <3>2. x = Owned(route, owner)
      BY <2>1, <3>1, OneWorker
    <3> QED BY <2>3, <2>4, <2>5, <2>6, <3>2 DEF Asked, Owned
  <2>7. \E x \in named : x.route = route
    BY <2>1 DEF Owned
  <2>8. admission'.pc # "proof"
    BY <2>3
  <2>9. admission'.pc = "status" => admission'.since # 0
    BY <2>2, <2>3
  <2> QED BY <2>2, <2>5, <2>6, <2>7, <2>8, <2>9 DEF Proving
<1>4. CASE ReadStatus
  <2>1. /\ route # NoRoute /\ owner \in Workers /\ Owned(route, owner) \in named
        /\ admission.route = route /\ admission.pc = "status"
    BY <1>4 DEF ReadStatus, AssertNode, AuthorityInvariant, Recorded, AuthorityTypeOK
  <2>2. /\ admission'.route = admission.route /\ admission'.since = admission.since
        /\ admission'.pc = "proof"
    BY <1>4 DEF ReadStatus, AuthorityTypeOK, Admissions
  <2>3. UNCHANGED <<named, uncertain, aged, dispatch, atWorker>>
    BY <1>4 DEF ReadStatus
  <2>4. ASSUME NEW x \in named, Asked(x)'
        PROVE  aged'[x.worker] /\ \A r \in Runs : Lost(r, x.worker)' => atWorker'[r] = "none"
    <3>1. Asked(x)
      BY <2>1, <2>2, <2>3, <2>4 DEF Asked
    <3>2. x = Owned(route, owner)
      BY <2>1, <3>1, OneWorker DEF Asked, Owned
    <3>3. x.worker = owner /\ aged[owner]
      BY <3>1, <3>2 DEF Owned, Proving
    <3>4. \A r \in Runs : Lost(r, owner) => atWorker[r] = "none"
      BY <1>4, <2>1, <3>3, IdleMeansNone DEF ReadStatus
    <3> QED BY <2>3, <3>3, <3>4 DEF Lost
  <2>5. admission # NoAdmission
    BY <2>1, Nothing
  <2> QED BY <2>1, <2>2, <2>3, <2>4, <2>5 DEF Proving
<1>5. CASE Lift
  <2>1. admission'.route = admission.route /\ admission'.pc = "begin" /\ named' = named
    BY <1>5 DEF Lift, AuthorityTypeOK, Admissions
  <2>2. admission # NoAdmission
    BY <1>5, Nothing DEF Lift
  <2> QED BY <2>1, <2>2 DEF Proving, Asked
<1>6. CASE Install
  <2>1. UNCHANGED <<admission, uncertain, aged, dispatch, atWorker>> /\ named \subseteq named'
    BY <1>6 DEF Install
  <2>2. ASSUME NEW x \in named', Asked(x)' PROVE x \in named /\ Asked(x)
    <3>1. Asked(x)
      BY <2>1, <2>2 DEF Asked
    <3>2. admission # NoAdmission
      BY <3>1, Nothing DEF Asked
    <3>3. PICK y \in named : y.route = admission.route
      BY <3>2 DEF Proving
    <3>4. x = y
      BY <2>1, <3>1, <3>3 DEF Asked, AuthorityInvariant, GenerationNamesOwner
    <3> QED BY <3>1, <3>3, <3>4
  <2> QED BY <2>1, <2>2 DEF Proving, Lost
<1>7. CASE BindWorker
  BY <1>7, ProvingKept DEF BindWorker, Lost
<1>8. ASSUME NEW r \in Runs, Send(r) PROVE Proving'
  <2>1. \A q \in Runs \ {r} : dispatch'[q] = dispatch[q] /\ atWorker'[q] = atWorker[q]
    BY <1>8 DEF Send, AuthorityTypeOK
  <2>2. dispatch'[r].lost = FALSE
    BY <1>8 DEF Send, NoDispatch, AuthorityTypeOK
  <2>3. UNCHANGED <<admission, named, uncertain, aged>>
    BY <1>8 DEF Send
  <2> QED BY <2>1, <2>2, <2>3, ProvingKept DEF Lost
<1>9. ASSUME NEW r \in Runs, Return(r) PROVE Proving'
  BY <1>9, Nothing, ProvingKept DEF Return, Lost, AuthorityTypeOK
<1>10. ASSUME NEW r \in Runs, FailTask(r) PROVE Proving'
  <2>1. \A q \in Runs : /\ dispatch'[q].worker = dispatch[q].worker
                        /\ dispatch'[q].lost = dispatch[q].lost
    BY <1>10 DEF FailTask, AuthorityTypeOK, Dispatches
  <2>2. UNCHANGED <<admission, named, uncertain, aged, atWorker>>
    BY <1>10 DEF FailTask
  <2> QED BY <2>1, <2>2, ProvingKept DEF Lost
<1>11. ASSUME NEW r \in Runs, StopConfirmed(r) PROVE Proving'
  <2>1. dispatch[r].worker \in Workers
    BY <1>11 DEF StopConfirmed, Stopping, AuthorityTypeOK, Dispatches
  <2>2. \A w \in Workers : uncertain'[w] = admission.since =>
            uncertain[w] = admission.since /\ (aged[w] => aged'[w])
    BY <1>11, <2>1, DoubtIsNew DEF StopConfirmed
  <2>3. dispatch'[r] = NoDispatch /\ UNCHANGED <<admission, named>>
    BY <1>11 DEF StopConfirmed, AuthorityTypeOK
  <2>4. \A q \in Runs \ {r} : dispatch'[q] = dispatch[q] /\ atWorker'[q] = atWorker[q]
    BY <1>11 DEF StopConfirmed, AuthorityTypeOK
  <2> QED BY <2>2, <2>3, <2>4, Nothing, ProvingKept DEF Lost
<1>12. ASSUME NEW r \in Runs, StopUnconfirmed(r) PROVE Proving'
  <2> DEFINE v == dispatch[r].worker
  <2>1. v \in Workers
    BY <1>12 DEF StopUnconfirmed, Stopping, AuthorityTypeOK, Dispatches
  <2>2. uncertain'[v] # admission.since
    BY <1>12, <2>1, DoubtIsNew DEF StopUnconfirmed
  <2>3. \A w \in Workers \ {v} : uncertain'[w] = uncertain[w] /\ aged'[w] = aged[w]
    BY <1>12, <2>1, DoubtIsNew DEF StopUnconfirmed
  <2>4. dispatch'[r].worker = v /\ UNCHANGED <<admission, named>>
    BY <1>12 DEF StopUnconfirmed, NoDispatch, AuthorityTypeOK
  <2>5. \A q \in Runs \ {r} : dispatch'[q] = dispatch[q] /\ atWorker'[q] = atWorker[q]
    BY <1>12 DEF StopUnconfirmed, AuthorityTypeOK
  <2> HIDE DEF v
  <2>6. ASSUME NEW w \in Workers, uncertain'[w] = admission.since
        PROVE  /\ uncertain[w] = admission.since
               /\ aged[w] => aged'[w]
               /\ \A q \in Runs : Lost(q, w)' => Lost(q, w) /\ atWorker'[q] \in {atWorker[q], "none"}
    <3>1. w # v
      BY <2>2, <2>6
    <3> QED BY <2>3, <2>4, <2>5, <2>6, <3>1 DEF Lost
  <2> QED BY <2>4, <2>6, ProvingKept
<1>13. ASSUME NEW r \in Runs, WorkerProceeds(r) PROVE Proving'
  <2>1. atWorker[r] # "none" /\ UNCHANGED <<admission, named, uncertain, aged, dispatch>>
    BY <1>13 DEF WorkerProceeds
  <2>2. \A q \in Runs \ {r} : atWorker'[q] = atWorker[q]
    BY <1>13 DEF WorkerProceeds, AuthorityTypeOK
  <2>3. \A x \in named : Asked(x)' <=> Asked(x)
    BY <2>1 DEF Asked
  <2>4. \A x \in named : Asked(x) /\ admission.pc = "proof" => ~Lost(r, x.worker)
    BY <2>1 DEF Proving
  <2> QED BY <2>1, <2>2, <2>3, <2>4 DEF Proving, Lost
<1>14. ASSUME NEW w \in Workers, Elapse(w) PROVE Proving'
  <2>1. \A q \in Runs : atWorker'[q] \in {atWorker[q], "none"}
    BY <1>14 DEF Elapse
  <2>2. \A v \in Workers : aged[v] => aged'[v]
    BY <1>14 DEF Elapse, AuthorityTypeOK
  <2>3. UNCHANGED <<admission, named, uncertain, dispatch>>
    BY <1>14 DEF Elapse
  <2> QED BY <2>1, <2>2, <2>3, ProvingKept DEF Lost
<1>15. ASSUME NEW i \in Identities, NEW rotating \in BOOLEAN, Compare(i, rotating) PROVE Proving'
  BY <1>1, <1>15 DEF Compare
<1>16. ASSUME NEW s \in Sessions, RevokeSession(s) PROVE Proving'
  BY <1>1, <1>16 DEF RevokeSession
<1>17. ASSUME NEW r \in Runs, BeginRun(r) PROVE Proving'
  BY <1>2, <1>17 DEF BeginRun
<1>18. CASE AdmissionFails \/ Restart
  BY <1>2, <1>18 DEF AdmissionFails, Restart
<1>19. CASE ChangeStatus \/ Persist \/ FinishRun \/ UNCHANGED vars
  BY <1>1, <1>19 DEF ChangeStatus, Persist, FinishRun, vars
<1> QED
  BY <1>3, <1>4, <1>5, <1>6, <1>7, <1>8, <1>9, <1>10, <1>11, <1>12, <1>13, <1>14, <1>15, <1>16,
     <1>17, <1>18, <1>19
  DEF AuthorityNext, Register, Task

(* Failed stops are remembered as they must be, in every reachable state.  *)
THEOREM DoubtsHold == AuthoritySpec => []DoubtInvariant
<1>1. AuthorityInit => DoubtInvariant
  BY DoubtInit
<1>2. DoubtInvariant /\ [AuthorityNext]_vars => DoubtInvariant'
  BY InvariantStep, StoppingStep, ProvingStep DEF DoubtInvariant
<1> QED BY <1>1, <1>2, PTL DEF AuthoritySpec

LEMMA LiftStep ==
    ASSUME DoubtInvariant, AuthorityNext, NEW w \in Workers,
           uncertain[w] # 0, uncertain'[w] = 0, admission'.pc = "begin",
           NEW r \in Runs, dispatch[r].lost, dispatch[r].worker = w
    PROVE  atWorker[r] = "none"
<1> USE DEF routes, admitting, doubts
<1> AuthorityTypeOK /\ AuthorityInvariant /\ Stopping /\ Proving
  BY DEF DoubtInvariant, AuthorityInvariant
<1>1. ASSUME NEW q \in Runs, StopConfirmed(q) \/ StopUnconfirmed(q) PROVE FALSE
  <2>1. dispatch[q].worker \in Workers
    BY <1>1 DEF StopConfirmed, StopUnconfirmed, Stopping, AuthorityTypeOK, Dispatches
  <2> QED BY <1>1, <2>1, DoubtIsNew DEF StopConfirmed, StopUnconfirmed
<1>2. ~Restart
  BY Nothing DEF Restart
<1>3. Lift
  BY <1>1, <1>2
  DEF AuthorityNext, Register, Task, BindWorker, ChangeStatus, Compare, Persist, Install,
      RevokeSession, Admit, ReadStatus, AdmissionFails, FinishRun, BeginRun, Send, Return, FailTask,
      WorkerProceeds, Elapse
<1>4. /\ route # NoRoute /\ owner \in Workers /\ Owned(route, owner) \in named
      /\ admission.route = route /\ admission.pc = "proof" /\ uncertain[owner] = admission.since
  BY <1>3 DEF Lift, StillTheSame, AssertNode, AuthorityInvariant, Recorded, AuthorityTypeOK
<1>5. w = owner
  BY <1>3 DEF Lift, AuthorityTypeOK
<1>6. Asked(Owned(route, owner))
  BY <1>4 DEF Asked, Owned
<1> QED BY <1>4, <1>5, <1>6 DEF Proving, Lost, Owned

(* The doubt about a Worker is lifted only when no task whose stop was not *)
(* confirmed runs there or may still start (modelAllowed).                 *)
THEOREM DoubtsLiftedRightly == AuthoritySpec => LiftedMeansIdle
<1>1. DoubtInvariant /\ [AuthorityNext]_vars =>
        [\A w \in Workers :
            uncertain[w] # 0 /\ uncertain'[w] = 0 /\ admission'.pc = "begin" =>
                \A r \in Runs : dispatch[r].lost /\ dispatch[r].worker = w => atWorker[r] = "none"]_vars
  BY LiftStep
<1> QED BY <1>1, DoubtsHold, PTL DEF AuthoritySpec, LiftedMeansIdle
=============================================================================
