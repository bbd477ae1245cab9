----------------------- MODULE ResponseStream_proofs -----------------------
(***************************************************************************)
(* What ResponseStream skips is shown, and the answer is in the chat once,   *)
(* for any number of streams, versions, parts, retries and faults.          *)
(*                                                                         *)
(* A flush is a walk over one stream record, so most of the proof is about   *)
(* records: StreamOK says what the record of a flush at any of its awaits    *)
(* means, and Outcome what the flush returns when it ends.  The other half   *)
(* of the invariant, Awaiting, counts: the flushes the finalizer waits for   *)
(* are exactly those in the chain, so that the result it reads is that of    *)
(* the flush of the final text and nothing moves once it has read it.       *)
(***************************************************************************)
EXTENDS ResponseStream, SequenceTheorems, FiniteSetTheorems, WellFoundedInduction, TLAPS

Records ==
  [payload : Versions \cup {0}, sigs : Seq(Parts), shown : Seq(Parts \cup {Gone}),
   timer : BOOLEAN, pending : Nat, phase : {"idle", "sync", "trim", "delay"},
   version : Versions \cup {0}, at : Nat, tries : Nat, cancelled : BOOLEAN,
   broken : BOOLEAN, plain : BOOLEAN, awaited : Nat, ok : BOOLEAN]

FinPhases ==
  {"streaming", "waiting", "flushing", "persisting", "rollback", "cleanup",
   "sending", "streamed", "sent", "dropped"}

Finalizers ==
  [phase : FinPhases, stream : Streams \cup {0}, version : Versions \cup {0}, plain : BOOLEAN, part : Nat]

Typed ==
  /\ reply \in Replies
  /\ streams \in [Streams -> Records]
  /\ made \in Streams \cup {0} /\ current \in Streams \cup {0}
  /\ sent \in Nat
  /\ fin \in Finalizers
  /\ answer \in Seq(Parts)
  /\ left \in Nat
  /\ faults \in Nat

-----------------------------------------------------------------------------
(* One stream.                                                              *)

(* Its signatures are still those of its messages: a draft that is cancelled *)
(* may have been forgotten in the middle of a flush.                        *)
Tracked(p, r) == p.mode = "edit" \/ ~r.cancelled

(* what the texts of a reply are rendered to, and whether all are native *)
RichParts(p) == UNION {Range(Rendered[v]) : v \in Span(p)}
AllNative(p) == \A v \in Span(p) : Native(v)

(* Only a stream with a native text turns to plain text; in mode "edit" all  *)
(* its texts are native then.                                               *)
Turned(p, r) == r.plain /\ p.mode = "edit" => AllNative(p)

(* what a message shows instead of the part that was recorded for it: in a   *)
(* draft, only the native part of an edit that lost its answer              *)
Replaced(p, shown, part) == part \in RichParts(p) /\ (p.mode = "draft" => shown \in NativeParts)

(* Each message has a signature, and shows what its signature says, but for  *)
(* a part whose edit or deletion lost its answer: that one turned the stream *)
(* to plain text.                                                           *)
Kept(p, r) ==
  /\ Len(r.shown) = Len(r.sigs)
  /\ Turned(p, r)
  /\ ~r.plain => \A i \in 1..Len(r.sigs) : r.sigs[i] \in RichParts(p)
  /\ ~r.broken => \A i \in 1..Len(r.sigs) :
       r.shown[i] = r.sigs[i] \/ (r.plain /\ Replaced(p, r.shown[i], r.sigs[i]))

(* the first n parts are done *)
Matches(r, n) == n <= Len(r.sigs) /\ \A i \in 1..n : r.sigs[i] = Goal(r)[i]

(* A flush at one of its awaits. *)
Flushing(p, r) ==
  /\ r.phase # "idle" => r.version \in Span(p) /\ ~r.broken
  /\ r.phase = "sync" =>
       r.at \in 1..Len(Goal(r)) /\ (Tracked(p, r) => Matches(r, r.at - 1))
  /\ r.phase = "trim" /\ Tracked(p, r) =>
       Matches(r, Len(Goal(r))) /\ Len(r.sigs) > Len(Goal(r))

StreamOK(p, r) ==
  /\ r.payload = 0 => r = Fresh
  /\ r.payload # 0 => r.payload \in Span(p)
  /\ Kept(p, r) /\ Flushing(p, r)

-----------------------------------------------------------------------------
(* The finalizer and its stream.                                            *)

Quiet(r) == r.pending = 0 /\ r.phase = "idle" /\ ~r.timer

(* Which streams the finalizer and the map of states know, by phase. *)
FinPhase ==
  /\ current # 0 => streams[current].payload # 0
  /\ fin.stream # 0 => streams[fin.stream].payload # 0
  /\ fin.phase = "streaming" => fin.stream = 0
  /\ Completing \/ fin.phase = "streamed" => fin.stream # 0
  /\ fin.phase \in {"persisting", "rollback"} => mode = "draft"
  /\ fin.phase = "cleanup" => mode = "edit"
  /\ fin.phase \in {"persisting", "rollback", "streamed"} /\ mode = "draft" =>
       fin.version \in Versions

(* In mode "edit": the flushes of the stream that is being completed.  The   *)
(* one of the final text is the last, and tells whether the messages show it *)
(* or the stream has failed; then the stream is quiet for good.             *)
Awaiting(p, phase, r) ==
  /\ phase \in {"waiting", "flushing"} =>
       r.payload = p.final /\ ~r.timer /\ r.awaited = r.pending + Running(r)
  /\ phase = "flushing" =>
       /\ r.awaited <= 1
       /\ r.phase # "idle" => r.version = p.final
       /\ r.awaited = 0 =>
            IF r.ok THEN ~r.broken /\ r.sigs = Text(p.final, r.plain)
                    ELSE r.broken \/ r.cancelled
  /\ phase \in {"cleanup", "sending", "streamed", "sent", "dropped"} => Quiet(r)
  /\ phase = "cleanup" =>
       (r.broken \/ r.cancelled) /\ Turned(p, r) /\ r.payload \in Span(p)
  /\ phase = "streamed" => r.shown \in Forms(p.final)
  /\ phase \in {"sending", "sent"} => r.shown = <<>>

Prefix(s, t) == Len(s) <= Len(t) /\ \A i \in 1..Len(s) : s[i] = t[i]

(* What the finalizer has sent or persisted. *)
Answered ==
  /\ fin.phase \in {"streaming", "waiting", "flushing", "cleanup"} => answer = <<>>
  /\ fin.phase = "streamed" /\ mode = "edit" => answer = <<>>
  /\ fin.phase \in {"streaming", "waiting", "flushing", "persisting", "streamed"} => left = 0
  /\ fin.phase = "persisting" =>
       LET goal == Text(fin.version, fin.plain) IN
       Prefix(answer, goal) /\ Len(answer) < Len(goal)
  /\ fin.phase = "streamed" /\ mode = "draft" => answer = Text(fin.version, fin.plain)
  /\ fin.phase = "sending" =>
       /\ fin.part = Len(answer) /\ Len(answer) < Len(Rendered[Final])
       /\ Prefix(answer, Rendered[Final])
  /\ fin.phase = "sent" => answer = Rendered[Final]
  /\ fin.phase \notin {"sending", "sent", "dropped"} => fin.part = 0

StreamsOK ==
  \A s \in Streams :
    StreamOK(reply, streams[s]) \/ (fin.phase = "cleanup" /\ s = fin.stream)

Awaited ==
  mode = "edit" /\ fin.stream # 0 => Awaiting(reply, fin.phase, streams[fin.stream])

(* Versions arrive in order; what a finalizer completes or persists is the   *)
(* final text, or one of the next message that arrived after it.            *)
Numbered ==
  /\ fin.phase = "streaming" => sent < Final
  /\ \A s \in Streams : streams[s].payload <= sent
  /\ Completing => streams[fin.stream].payload >= Final
  /\ fin.phase \in {"persisting", "rollback", "streamed"} /\ mode = "draft" =>
       fin.version \in Final..sent

SInv == Typed /\ FinPhase /\ Answered /\ StreamsOK /\ Awaited /\ Numbered

USE DEF mode, Final

-----------------------------------------------------------------------------
(* Sequences and numbers.                                                   *)

(* A nonempty set of numbers has a least element. *)
LEMMA Least ==
  ASSUME NEW n \in Nat, NEW S \in SUBSET (1..n), S # {}
  PROVE  Min(S) \in S /\ \A j \in S : Min(S) <= j
<1> DEFINE Upto(i) == 1..i
           Initials == {Upto(i) : i \in S}
<1>1. Initials \subseteq FiniteSubsetsOf(1..n)
  <2>1. ASSUME NEW i \in S PROVE Upto(i) \in SUBSET (1..n) /\ IsFiniteSet(Upto(i))
    BY FS_Interval
  <2> QED  BY <2>1 DEF FiniteSubsetsOf
<1>2. PICK T \in Initials : \A U \in Initials : <<U, T>> \notin StrictSubsetOrdering(1..n)
  <2>1. IsFiniteSet(1..n)
    BY FS_Interval
  <2>2. Initials # {}
    OBVIOUS
  <2> HIDE DEF Initials
  <2> QED  BY <1>1, <2>1, <2>2, FS_StrictSubsetOrderingWellFounded, WFMin
<1>3. PICK i \in S : T = Upto(i)
  BY <1>2
<1>4. ASSUME NEW j \in S, j < i PROVE FALSE
  <2>1. Upto(j) \in Initials /\ Upto(j) # Upto(i) /\ Upto(j) \subseteq Upto(i)
    BY <1>4
  <2>2. <<Upto(j), Upto(i)>> \in StrictSubsetOrdering(1..n)
    BY <2>1 DEF StrictSubsetOrdering
  <2> QED  BY <1>2, <1>3, <2>1, <2>2
<1>5. \A j \in S : i <= j
  BY <1>4
<1> QED  BY <1>5 DEF Min

(* A sequence without its last element. *)
LEMMA FrontOf ==
  ASSUME NEW S, NEW q \in Seq(S)
  PROVE  /\ Front(q) \in Seq(S)
         /\ Len(Front(q)) = IF Len(q) = 0 THEN 0 ELSE Len(q) - 1
         /\ \A i \in 1..(Len(q) - 1) : Front(q)[i] = q[i]
<1>1. Len(q) \in Nat /\ \A i \in 1..Len(q) : q[i] \in S
  BY LenProperties, ElementOfSeq
<1> QED  BY <1>1, SubSeqProperties DEF Front

(* The versions of a reply. *)
LEMMA InSpan ==
  ASSUME reply \in Replies
  PROVE  /\ Span(reply) \subseteq Versions /\ Versions \subseteq Nat /\ 0 \notin Span(reply)
         /\ mode \in {"edit", "draft"} /\ Final \in Span(reply) /\ Final \in Nat
         /\ mode = "edit" =>
              \A v \in Span(reply) : Native(v) => AllNative(reply)
BY RepliesAssumption, VersionsAssumption, FormsAssumption
   DEF RepliesAssumption, VersionsAssumption, FormsAssumption, AllNative

(* The parts of a text, in either form. *)
LEMMA TextParts ==
  ASSUME NEW v \in Versions, NEW p \in BOOLEAN
  PROVE  /\ Text(v, p) \in Seq(Parts) /\ Text(v, p) # <<>>
         /\ Len(Text(v, p)) \in Nat \ {0}
         /\ \A i \in 1..Len(Text(v, p)) :
              Text(v, p)[i] \in Parts /\ Text(v, p)[i] \in Range(Text(v, p))
<1>1. Text(v, p) \in Seq(Parts) /\ Text(v, p) # <<>>
  BY PartsAssumption DEF PartsAssumption, Forms, Text
<1>2. /\ Len(Text(v, p)) \in Nat \ {0}
      /\ DOMAIN Text(v, p) = 1..Len(Text(v, p))
  BY <1>1, LenProperties, EmptySeq
<1>3. \A i \in 1..Len(Text(v, p)) : Text(v, p)[i] \in Range(Text(v, p))
  BY <1>2 DEF Range
<1> QED  BY <1>1, <1>2, <1>3

(* ... and of a text of the reply, as it is rendered or as plain text *)
LEMMA FormParts ==
  ASSUME reply \in Replies, NEW v \in Span(reply), NEW p \in BOOLEAN,
         NEW i \in 1..Len(Text(v, p))
  PROVE  /\ Text(v, p)[i] \in Parts
         /\ p => Text(v, p)[i] \in PlainParts
         /\ ~p => Text(v, p)[i] \in RichParts(reply)
         /\ ~p /\ Native(v) => Text(v, p)[i] \in NativeParts
<1>1. v \in Versions
  BY InSpan
<1>2. Text(v, p)[i] \in Parts /\ Text(v, p)[i] \in Range(Text(v, p))
  BY <1>1, TextParts
<1>3. CASE p
  BY <1>1, <1>2, <1>3 DEF Text, PlainParts
<1>4. CASE ~p
  BY <1>1, <1>2, <1>4 DEF Text, RichParts, NativeParts
<1> QED  BY <1>2, <1>3, <1>4

(* What was rendered and is also plain text is a raw part: none if the       *)
(* stream of a message in mode "edit" turned to plain text.                  *)
LEMMA RawPart ==
  ASSUME reply \in Replies, NEW part \in RichParts(reply), part \in PlainParts
  PROVE  part \in RawParts /\ ~AllNative(reply)
<1>1. \A v \in Span(reply) : part \in Range(Rendered[v]) => ~Native(v) /\ v \in Versions
  BY InSpan, FormsAssumption DEF FormsAssumption, NativeParts
<1> QED  BY <1>1 DEF RichParts, RawParts, AllNative

(* Recorded signatures that are those of a text are what is shown. *)
LEMMA MatchIsShown ==
  ASSUME reply \in Replies, NEW r \in Records, Kept(reply, r), ~r.broken,
         NEW v \in Span(reply), r.sigs = Text(v, r.plain)
  PROVE  /\ Shows(r)
         /\ mode = "edit" => r.shown = r.sigs
<1>1. /\ r.sigs \in Seq(Parts) /\ r.shown \in Seq(Parts \cup {Gone})
      /\ r.plain \in BOOLEAN /\ Len(r.shown) = Len(r.sigs)
  BY DEF Records, Kept
<1>2. r.sigs \in Seq(Parts \cup {Gone})
  BY <1>1, SeqMonotonic
<1>3. ASSUME NEW i \in 1..Len(r.sigs), r.shown[i] # r.sigs[i]
      PROVE  mode = "draft" /\ r.plain /\ r.sigs[i] \in RawParts /\ r.shown[i] \in NativeParts
  <2>1. r.plain /\ Replaced(reply, r.shown[i], r.sigs[i])
    BY <1>3 DEF Kept
  <2>2. r.sigs[i] \in PlainParts
    BY <1>1, <2>1, FormParts
  <2>3. r.sigs[i] \in RawParts /\ ~AllNative(reply)
    BY <2>1, <2>2, RawPart DEF Replaced
  <2> QED  BY <2>1, <2>3, InSpan DEF Kept, Turned, Replaced
<1>4. Shows(r)
  BY <1>1, <1>3 DEF Shows
<1>5. mode = "edit" => r.shown = r.sigs
  BY <1>1, <1>2, <1>3, SeqEqual
<1> QED  BY <1>4, <1>5

-----------------------------------------------------------------------------
(* The steps of a flush, on the record of one stream.                       *)

(* What a step of a flush leaves alone, and what it returns when it ends:    *)
(* TRUE for a version in V that the signatures now are those of, FALSE for   *)
(* a stream that is broken or cancelled.                                    *)
Same(r, q) ==
  /\ q.payload = r.payload /\ q.timer = r.timer /\ q.pending = r.pending
  /\ q.cancelled = r.cancelled /\ q.awaited = r.awaited

Outcome(m, r, q, V) ==
  /\ q \in Records /\ StreamOK(m, q)
  /\ q.payload = r.payload /\ q.timer = r.timer /\ q.pending = r.pending
  /\ q.cancelled = r.cancelled
  /\ \/ q.phase # "idle" /\ q.awaited = r.awaited /\ q.version \in V
     \/ /\ q.phase = "idle" /\ q.awaited = IF r.awaited > 0 THEN r.awaited - 1 ELSE 0
        /\ r.awaited > 0 =>
             IF q.ok THEN ~q.broken /\ (Tracked(m, q) => \E v \in V : q.sigs = Text(v, q.plain))
                     ELSE q.broken \/ q.cancelled

LEMMA OutcomeOfSame ==
  ASSUME NEW r, NEW p, NEW q, NEW V, NEW W, Same(r, p), Outcome(reply, p, q, V), V \subseteq W
  PROVE  Outcome(reply, r, q, W)
BY DEF Same, Outcome

LEMMA EndedOutcome ==
  ASSUME reply \in Replies, NEW r \in Records, r.payload \in Span(reply), Kept(reply, r),
         NEW ok \in BOOLEAN, NEW V,
         IF ok THEN ~r.broken /\ (Tracked(reply, r) => \E v \in V : r.sigs = Text(v, r.plain))
               ELSE r.broken \/ r.cancelled
  PROVE  Outcome(reply, r, Ended(r, ok), V)
<1> DEFINE q == Ended(r, ok)
<1> DEFINE fewer == IF r.awaited > 0 THEN r.awaited - 1 ELSE 0
           told == IF r.awaited > 0 THEN ok ELSE r.ok
<1>0. fewer \in Nat /\ told \in BOOLEAN
  BY DEF Records
<1>4. q = [r EXCEPT !.phase = "idle", !.awaited = fewer, !.ok = told]
  BY DEF Ended, Records
<1> HIDE DEF q, fewer, told
<1>1. /\ q \in Records
      /\ q.payload = r.payload /\ q.timer = r.timer /\ q.pending = r.pending
      /\ q.cancelled = r.cancelled /\ q.phase = "idle" /\ q.broken = r.broken
      /\ q.plain = r.plain /\ q.sigs = r.sigs /\ q.shown = r.shown
      /\ q.awaited = fewer /\ q.ok = told
  BY <1>0, <1>4 DEF Records
<1>2. StreamOK(reply, q)
  BY <1>1, InSpan DEF StreamOK, Kept, Turned, Flushing
<1>3. Tracked(reply, q) <=> Tracked(reply, r)
  BY <1>1 DEF Tracked
<1> QED  BY <1>1, <1>2, <1>3 DEF Outcome, q, fewer, told

LEMMA AdvanceOutcome ==
  ASSUME reply \in Replies, NEW r \in Records, r.payload \in Span(reply), Kept(reply, r),
         ~r.broken, r.version \in Span(reply),
         NEW i \in 1..(Len(Goal(r)) + 1), Tracked(reply, r) => Matches(r, i - 1)
  PROVE  Outcome(reply, r, Advance(r, i), {r.version})
<1> DEFINE goal == Goal(r)
           todo == {j \in i..Len(goal) : Outdated(r, j)}
<1>1. /\ goal \in Seq(Parts) /\ goal # <<>> /\ Len(goal) \in Nat \ {0}
      /\ r.sigs \in Seq(Parts) /\ Len(r.sigs) \in Nat
      /\ goal = Text(r.version, r.plain)
  BY InSpan, TextParts, LenProperties DEF Goal, Records
<1>2. i \in Nat \ {0} /\ i <= Len(goal) + 1
  BY <1>1
<1> HIDE DEF goal
<1>3. \A j \in i..Len(goal) : j \notin todo => j <= Len(r.sigs) /\ r.sigs[j] = goal[j]
  BY <1>1, <1>2 DEF Outdated, goal
<1>4. Tracked(reply, r) => i - 1 <= Len(r.sigs) /\ \A j \in 1..(i - 1) : r.sigs[j] = goal[j]
  BY DEF Matches, goal
<1>5. CASE todo # {}
  <2> DEFINE m == Min(todo)
             q == [r EXCEPT !.phase = "sync", !.at = m]
  <2>1. m \in todo /\ \A j \in todo : m <= j
    <3>1. todo \in SUBSET (1..Len(goal))
      BY <1>1, <1>2
    <3> HIDE DEF todo
    <3> QED  BY <1>1, <1>5, <3>1, Least
  <2>2. m \in i..Len(goal) /\ m \in Nat
    BY <1>1, <1>2, <2>1
  <2> HIDE DEF m
  <2>3. Tracked(reply, r) => m - 1 <= Len(r.sigs) /\ \A j \in 1..(m - 1) : r.sigs[j] = goal[j]
    <3> SUFFICES ASSUME Tracked(reply, r)
                 PROVE  m - 1 <= Len(r.sigs) /\ \A j \in 1..(m - 1) : r.sigs[j] = goal[j]
      OBVIOUS
    <3>1. \A j \in i..(m - 1) : j \notin todo
      BY <1>2, <2>1, <2>2
    <3>2. \A j \in i..(m - 1) : j <= Len(r.sigs) /\ r.sigs[j] = goal[j]
      BY <1>1, <1>2, <1>3, <2>2, <3>1
    <3> HIDE DEF todo
    <3>3. ASSUME NEW j \in 1..(m - 1) PROVE r.sigs[j] = goal[j]
      <4>1. CASE j < i
        BY <1>2, <1>4, <2>2, <4>1
      <4>2. CASE j >= i
        BY <1>2, <2>2, <3>2, <4>2
      <4> QED  BY <1>2, <2>2, <4>1, <4>2
    <3>4. m - 1 <= Len(r.sigs)
      <4>1. CASE m = i
        BY <1>4, <4>1
      <4>2. CASE m # i
        <5>1. m - 1 \in i..(m - 1)
          BY <1>2, <2>2, <4>2
        <5> QED  BY <3>2, <5>1
      <4> QED  BY <4>1, <4>2
    <3> QED  BY <3>3, <3>4
  <2>4. /\ q \in Records /\ q.payload = r.payload /\ q.timer = r.timer
        /\ q.pending = r.pending /\ q.cancelled = r.cancelled /\ q.awaited = r.awaited
        /\ q.version = r.version /\ q.phase = "sync" /\ q.at = m /\ q.broken = r.broken
        /\ q.plain = r.plain /\ q.sigs = r.sigs /\ q.shown = r.shown
    BY <2>2 DEF Records
  <2> HIDE DEF q
  <2>5. Goal(q) = goal /\ (Tracked(reply, q) <=> Tracked(reply, r))
    BY <2>4 DEF Goal, goal, Tracked
  <2>6. Kept(reply, q)
    BY <2>4 DEF Kept, Turned
  <2>7. Flushing(reply, q)
    <3>1. q.at \in 1..Len(goal)
      BY <1>1, <1>2, <2>2, <2>4
    <3>2. Tracked(reply, q) => Matches(q, q.at - 1)
      BY <2>3, <2>4, <2>5 DEF Matches
    <3> QED  BY <2>4, <2>5, <3>1, <3>2 DEF Flushing
  <2>8. Outcome(reply, r, q, {r.version})
    BY <2>4, <2>6, <2>7, InSpan DEF Outcome, StreamOK
  <2> QED  BY <1>5, <2>8 DEF Advance, goal, q, m
<1>6. CASE todo = {}
  <2>1. Tracked(reply, r) => Len(goal) <= Len(r.sigs) /\ \A j \in 1..Len(goal) : r.sigs[j] = goal[j]
    <3> SUFFICES ASSUME Tracked(reply, r)
                 PROVE  Len(goal) <= Len(r.sigs) /\ \A j \in 1..Len(goal) : r.sigs[j] = goal[j]
      OBVIOUS
    <3>1. \A j \in i..Len(goal) : j <= Len(r.sigs) /\ r.sigs[j] = goal[j]
      BY <1>3, <1>6
    <3> HIDE DEF todo
    <3>2. ASSUME NEW j \in 1..Len(goal) PROVE r.sigs[j] = goal[j]
      <4>1. CASE j < i
        BY <1>1, <1>2, <1>4, <4>1
      <4>2. CASE j >= i
        BY <1>1, <1>2, <3>1, <4>2
      <4> QED  BY <1>1, <1>2, <4>1, <4>2
    <3>3. Len(goal) <= Len(r.sigs)
      <4>1. CASE i = Len(goal) + 1
        BY <1>1, <1>4, <4>1
      <4>2. CASE i # Len(goal) + 1
        <5>1. Len(goal) \in i..Len(goal)
          BY <1>1, <1>2, <4>2
        <5> QED  BY <3>1, <5>1
      <4> QED  BY <4>1, <4>2
    <3> QED  BY <3>2, <3>3
  <2>2. CASE Len(r.sigs) > Len(goal)
    <3> DEFINE q == [r EXCEPT !.phase = "trim"]
    <3>1. /\ q \in Records /\ q.payload = r.payload /\ q.timer = r.timer
          /\ q.pending = r.pending /\ q.cancelled = r.cancelled /\ q.awaited = r.awaited
          /\ q.version = r.version /\ q.phase = "trim" /\ q.broken = r.broken
          /\ q.plain = r.plain /\ q.sigs = r.sigs /\ q.shown = r.shown
      BY DEF Records
    <3> HIDE DEF q
    <3>2. Goal(q) = goal /\ (Tracked(reply, q) <=> Tracked(reply, r))
      BY <3>1 DEF Goal, goal, Tracked
    <3>3. Kept(reply, q) /\ Flushing(reply, q)
      BY <2>1, <2>2, <3>1, <3>2 DEF Kept, Turned, Flushing, Matches
    <3>4. Outcome(reply, r, q, {r.version})
      BY <3>1, <3>3, InSpan DEF Outcome, StreamOK
    <3> QED  BY <1>6, <2>2, <3>4 DEF Advance, goal, q
  <2>3. CASE ~(Len(r.sigs) > Len(goal))
    <3>1. Tracked(reply, r) => r.sigs = Text(r.version, r.plain)
      BY <1>1, <2>1, <2>3, SeqEqual
    <3>2. Outcome(reply, r, Ended(r, TRUE), {r.version})
      BY <3>1, EndedOutcome
    <3> QED  BY <1>6, <2>3, <3>2 DEF Advance, goal
  <2> QED  BY <2>2, <2>3
<1> QED  BY <1>5, <1>6

LEMMA LoopOutcome ==
  ASSUME reply \in Replies, NEW r \in Records, r.payload \in Span(reply), Kept(reply, r), ~r.broken
  PROVE  Outcome(reply, r, Loop(r), {r.payload})
<1> DEFINE next == [r EXCEPT !.version = r.payload]
<1>1. /\ next \in Records /\ next.version = r.payload /\ next.payload = r.payload
      /\ next.sigs = r.sigs /\ next.shown = r.shown /\ next.plain = r.plain
      /\ next.broken = r.broken /\ Same(r, next) /\ r.payload \in Versions
  BY InSpan DEF Records, Same
<1> HIDE DEF next
<1>2. CASE r.cancelled
  <2>1. Outcome(reply, r, Ended(r, FALSE), {r.payload})
    BY <1>2, EndedOutcome
  <2> QED  BY <1>2, <2>1 DEF Loop
<1>3. CASE ~r.cancelled /\ next.sigs = Goal(next)
  <2>1. r.sigs = Text(r.payload, r.plain)
    BY <1>1, <1>3 DEF Goal
  <2>2. r.sigs # <<>>
    BY <1>1, <2>1, TextParts DEF Records
  <2>3. Outcome(reply, r, Ended(r, r.sigs # <<>>), {r.payload})
    <3> DEFINE ok == r.sigs # <<>>
    <3>1. ok = TRUE
      BY <2>2
    <3> HIDE DEF ok
    <3>2. Outcome(reply, r, Ended(r, ok), {r.payload})
      BY <2>1, <3>1, EndedOutcome
    <3> QED  BY <3>2 DEF ok
  <2> QED  BY <1>3, <2>3 DEF Loop, next
<1>4. CASE ~r.cancelled /\ next.sigs # Goal(next)
  <2>1. Kept(reply, next) /\ Len(Goal(next)) \in Nat \ {0}
    BY <1>1, TextParts DEF Kept, Turned, Goal, Records
  <2>2. 1 \in 1..(Len(Goal(next)) + 1) /\ Matches(next, 1 - 1)
    BY <1>1, <2>1, LenProperties DEF Matches, Records
  <2>3. Outcome(reply, next, Advance(next, 1), {next.version})
    BY <1>1, <2>1, <2>2, AdvanceOutcome
  <2>4. Outcome(reply, r, Advance(next, 1), {r.payload})
    BY <1>1, <2>3, OutcomeOfSame
  <2> QED  BY <1>4, <2>4 DEF Loop, next
<1> QED  BY <1>2, <1>3, <1>4

(* A call that failed: any part may differ from what is shown when it is the *)
(* last call of the stream; in a draft, only by a native part when the       *)
(* stream turns to plain text.                                              *)
Counted(p, r) ==
  /\ Len(r.shown) = Len(r.sigs)
  /\ Turned(p, r)
  /\ ~r.plain => \A i \in 1..Len(r.sigs) : r.sigs[i] \in RichParts(p)
  /\ ~r.plain /\ Native(r.version) => \A i \in 1..Len(r.sigs) :
       r.shown[i] = r.sigs[i] \/ Replaced(p, r.shown[i], r.sigs[i])

LEMMA BrokenOutcome ==
  ASSUME reply \in Replies, NEW r \in Records, r.payload \in Span(reply), Counted(reply, r), NEW V
  PROVE  Outcome(reply, r, Ended([r EXCEPT !.broken = TRUE], FALSE), V)
<1> DEFINE q == [r EXCEPT !.broken = TRUE]
<1>1. /\ q \in Records /\ Same(r, q) /\ q.broken /\ q.payload = r.payload
      /\ q.sigs = r.sigs /\ q.shown = r.shown /\ q.plain = r.plain
  BY DEF Records, Same
<1> HIDE DEF q
<1>2. Kept(reply, q)
  BY <1>1 DEF Kept, Turned, Counted
<1>3. Outcome(reply, q, Ended(q, FALSE), V)
  BY <1>1, <1>2, EndedOutcome
<1>4. Outcome(reply, r, Ended(q, FALSE), V)
  BY <1>1, <1>3, OutcomeOfSame
<1> QED  BY <1>4 DEF q

LEMMA FailedOutcome ==
  ASSUME reply \in Replies, NEW r \in Records, r.payload \in Span(reply), Counted(reply, r),
         ~r.broken, r.version \in Span(reply)
  PROVE  Outcome(reply, r, Failed(r), {r.payload})
<1>1. CASE ~r.plain /\ Native(r.version)
  <2> DEFINE q == [r EXCEPT !.plain = TRUE]
  <2>1. /\ q \in Records /\ Same(r, q) /\ q.plain /\ q.payload = r.payload
        /\ q.sigs = r.sigs /\ q.shown = r.shown /\ q.broken = r.broken
    BY DEF Records, Same
  <2> HIDE DEF q
  <2>2. Kept(reply, q)
    BY <1>1, <2>1, InSpan DEF Kept, Turned, Counted
  <2>3. Outcome(reply, q, Loop(q), {q.payload})
    BY <2>1, <2>2, LoopOutcome
  <2>4. Outcome(reply, r, Loop(q), {r.payload})
    BY <2>1, <2>3, OutcomeOfSame
  <2> QED  BY <1>1, <2>4 DEF Failed, q
<1>2. CASE ~(~r.plain /\ Native(r.version))
  BY <1>2, BrokenOutcome DEF Failed
<1> QED  BY <1>1, <1>2

LEMMA LimitedOutcome ==
  ASSUME reply \in Replies, NEW r \in Records, r.payload \in Span(reply), Kept(reply, r),
         ~r.broken, r.version \in Span(reply)
  PROVE  Outcome(reply, r, Limited(r), {r.version})
<1>1. Counted(reply, r)
  BY DEF Kept, Counted
<1>2. CASE r.tries >= MaxRetries
  BY <1>1, <1>2, BrokenOutcome DEF Limited
<1>3. CASE ~(r.tries >= MaxRetries)
  <2> DEFINE more == r.tries + 1
             q == [r EXCEPT !.tries = more, !.phase = "delay"]
  <2>0. more \in Nat
    BY DEF Records
  <2> HIDE DEF more
  <2>1. /\ q \in Records /\ q.payload = r.payload /\ q.timer = r.timer
        /\ q.pending = r.pending /\ q.cancelled = r.cancelled /\ q.awaited = r.awaited
        /\ q.version = r.version /\ q.phase = "delay" /\ q.broken = r.broken
        /\ q.plain = r.plain /\ q.sigs = r.sigs /\ q.shown = r.shown
    BY <2>0 DEF Records
  <2> HIDE DEF q
  <2>2. Kept(reply, q) /\ Flushing(reply, q)
    BY <2>1 DEF Kept, Turned, Flushing
  <2>3. Outcome(reply, r, q, {r.version})
    BY <2>1, <2>2, InSpan DEF Outcome, StreamOK
  <2> QED  BY <1>3, <2>3 DEF Limited, q, more
<1> QED  BY <1>2, <1>3

(* The part in flight. *)
LEMMA InFlight ==
  ASSUME reply \in Replies, NEW r \in Records, StreamOK(reply, r), r.phase = "sync"
  PROVE  /\ r.payload \in Span(reply) /\ ~r.broken
         /\ r.version \in Span(reply) /\ r.version \in Versions
         /\ r.at \in 1..Len(Goal(r)) /\ Goal(r)[r.at] \in Parts
         /\ ~r.plain => Goal(r)[r.at] \in RichParts(reply)
         /\ ~r.plain /\ Native(r.version) => Goal(r)[r.at] \in NativeParts
         /\ Goal(r) = Text(r.version, r.plain)
<1>1. r.payload \in Span(reply)
  BY DEF StreamOK, Fresh
<1>2. ~r.broken /\ r.version \in Span(reply) /\ r.at \in 1..Len(Goal(r)) /\ r.plain \in BOOLEAN
  BY DEF StreamOK, Flushing, Records
<1> QED  BY <1>1, <1>2, InSpan, FormParts DEF Goal

LEMMA DeliveredKeeps ==
  ASSUME reply \in Replies, NEW r \in Records, StreamOK(reply, r), r.phase = "sync"
  PROVE  LET q == Delivered(r) IN
         /\ q \in Records /\ Same(r, q) /\ Kept(reply, q)
         /\ q.version = r.version /\ q.broken = r.broken /\ q.at = r.at
         /\ Goal(q) = Goal(r)
         /\ Tracked(reply, q) => Matches(q, r.at)
<1> DEFINE q == Delivered(r)
           goal == Goal(r)
           part == goal[r.at]
           n == Len(r.sigs)
<1>1. /\ ~r.broken /\ r.at \in 1..Len(goal) /\ part \in Parts
      /\ ~r.plain => part \in RichParts(reply)
      /\ goal \in Seq(Parts) /\ Len(goal) \in Nat
  BY InFlight, TextParts, LenProperties DEF Records
<1>2. /\ r.sigs \in Seq(Parts) /\ r.shown \in Seq(Parts \cup {Gone})
      /\ n \in Nat /\ Len(r.shown) = n
  BY LenProperties DEF Records, StreamOK, Kept
<1>3. part \in Parts \cup {Gone}
  BY <1>1
<1>4. Tracked(reply, r) => r.at - 1 <= n /\ \A i \in 1..(r.at - 1) : r.sigs[i] = goal[i]
  BY DEF StreamOK, Flushing, Matches
<1> HIDE DEF goal, part, n
<1>5. CASE r.at > n
  <2> DEFINE sigs == Append(r.sigs, part)
             shown == Append(r.shown, part)
  <2>1. /\ sigs \in Seq(Parts) /\ Len(sigs) = n + 1
        /\ sigs[n + 1] = part /\ \A i \in 1..n : sigs[i] = r.sigs[i]
    BY <1>1, <1>2, AppendProperties DEF n
  <2>2. /\ shown \in Seq(Parts \cup {Gone}) /\ Len(shown) = n + 1
        /\ shown[n + 1] = part /\ \A i \in 1..n : shown[i] = r.shown[i]
    BY <1>2, <1>3, AppendProperties
  <2>3. q = [r EXCEPT !.sigs = sigs, !.shown = shown]
    BY <1>5 DEF Delivered, n, part, goal, Records
  <2> HIDE DEF q, sigs, shown
  <2>4. /\ q \in Records /\ Same(r, q) /\ q.sigs = sigs /\ q.shown = shown
        /\ q.version = r.version /\ q.broken = r.broken /\ q.plain = r.plain
        /\ q.at = r.at
    BY <2>1, <2>2, <2>3 DEF Records, Same
  <2>5. Goal(q) = goal /\ (Tracked(reply, q) <=> Tracked(reply, r))
    BY <2>4 DEF Goal, goal, Tracked, Same
  <2>6. Kept(reply, q)
    <3>1. Turned(reply, q)
      BY <2>4 DEF StreamOK, Kept, Turned
    <3>2. ASSUME NEW i \in 1..(n + 1)
          PROVE  /\ ~r.plain => sigs[i] \in RichParts(reply)
                 /\ shown[i] = sigs[i] \/ (r.plain /\ Replaced(reply, shown[i], sigs[i]))
      <4>1. CASE i = n + 1
        BY <1>1, <2>1, <2>2, <4>1
      <4>2. CASE i # n + 1
        <5>1. i \in 1..n
          BY <1>2, <4>2
        <5> QED  BY <1>1, <2>1, <2>2, <5>1 DEF StreamOK, Kept, n
      <4> QED  BY <4>1, <4>2
    <3> QED  BY <2>1, <2>2, <2>4, <3>1, <3>2 DEF Kept
  <2>7. ASSUME Tracked(reply, r) PROVE Matches(q, r.at)
    <3>1. r.at = n + 1
      BY <1>1, <1>2, <1>4, <1>5, <2>7
    <3>2. ASSUME NEW i \in 1..r.at PROVE sigs[i] = goal[i]
      <4>1. CASE i = n + 1
        BY <2>1, <3>1, <4>1 DEF part
      <4>2. CASE i # n + 1
        BY <1>2, <1>4, <2>1, <2>7, <3>1, <4>2
      <4> QED  BY <4>1, <4>2
    <3> QED  BY <1>2, <2>1, <2>4, <2>5, <3>1, <3>2 DEF Matches
  <2> QED  BY <2>4, <2>5, <2>6, <2>7 DEF q, goal
<1>6. CASE ~(r.at > n)
  <2> DEFINE sigs == [r.sigs EXCEPT ![r.at] = part]
             shown == [r.shown EXCEPT ![r.at] = part]
  <2>0. r.at \in 1..n
    BY <1>1, <1>2, <1>6
  <2>1. /\ sigs \in Seq(Parts) /\ Len(sigs) = n
        /\ \A i \in 1..n : sigs[i] = IF i = r.at THEN part ELSE r.sigs[i]
    BY <1>1, <1>2, <2>0, ExceptSeq DEF n
  <2>2. /\ shown \in Seq(Parts \cup {Gone}) /\ Len(shown) = n
        /\ \A i \in 1..n : shown[i] = IF i = r.at THEN part ELSE r.shown[i]
    BY <1>2, <1>3, <2>0, ExceptSeq
  <2>3. q = [r EXCEPT !.sigs = sigs, !.shown = shown]
    BY <1>6 DEF Delivered, n, part, goal, Records
  <2> HIDE DEF q, sigs, shown
  <2>4. /\ q \in Records /\ Same(r, q) /\ q.sigs = sigs /\ q.shown = shown
        /\ q.version = r.version /\ q.broken = r.broken /\ q.plain = r.plain
        /\ q.at = r.at
    BY <2>1, <2>2, <2>3 DEF Records, Same
  <2>5. Goal(q) = goal /\ (Tracked(reply, q) <=> Tracked(reply, r))
    BY <2>4 DEF Goal, goal, Tracked, Same
  <2>6. Kept(reply, q)
    <3>1. Turned(reply, q)
      BY <2>4 DEF StreamOK, Kept, Turned
    <3>2. ASSUME NEW i \in 1..n
          PROVE  /\ ~r.plain => sigs[i] \in RichParts(reply)
                 /\ shown[i] = sigs[i] \/ (r.plain /\ Replaced(reply, shown[i], sigs[i]))
      BY <1>1, <2>1, <2>2 DEF StreamOK, Kept, n
    <3> QED  BY <2>1, <2>2, <2>4, <3>1, <3>2 DEF Kept
  <2>7. ASSUME Tracked(reply, r) PROVE Matches(q, r.at)
    <3>1. ASSUME NEW i \in 1..r.at PROVE sigs[i] = goal[i]
      BY <1>2, <1>4, <2>0, <2>1, <2>7 DEF part
    <3> QED  BY <2>0, <2>1, <2>4, <2>5, <3>1 DEF Matches
  <2> QED  BY <2>4, <2>5, <2>6, <2>7 DEF q, goal
<1> QED  BY <1>5, <1>6

LEMMA UnansweredKeeps ==
  ASSUME reply \in Replies, NEW r \in Records, StreamOK(reply, r), r.phase = "sync"
  PROVE  LET q == Unanswered(r) IN
         /\ q \in Records /\ Same(r, q) /\ Counted(reply, q)
         /\ q.version = r.version /\ q.broken = r.broken
<1> DEFINE q == Unanswered(r)
           part == Goal(r)[r.at]
<1>0. r.at \in 1..Len(Goal(r)) /\ part \in Parts \cup {Gone} /\ r.at \in Nat
  BY InFlight DEF Records
<1>1. /\ r.at \in Nat \ {0} /\ part \in Parts \cup {Gone}
      /\ r.shown \in Seq(Parts \cup {Gone}) /\ Len(r.shown) = Len(r.sigs)
      /\ Len(r.sigs) \in Nat
  <2>1. Len(r.sigs) \in Nat /\ r.shown \in Seq(Parts \cup {Gone})
    BY LenProperties DEF Records
  <2>2. Len(r.shown) = Len(r.sigs)
    BY DEF StreamOK, Kept
  <2>3. r.at # 0
    <3> DEFINE n == Len(Goal(r))
    <3>1. n \in Nat
      BY InFlight, TextParts DEF Records
    <3> HIDE DEF n
    <3> QED  BY <1>0, <3>1 DEF n
  <2> HIDE DEF part
  <2> QED  BY <1>0, <2>1, <2>2, <2>3
<1>2. Counted(reply, r) /\ ~r.broken
  BY InFlight DEF StreamOK, Kept, Counted
<1>3. CASE r.at > Len(r.sigs)
  BY <1>2, <1>3 DEF Unanswered, Same
<1>4. CASE ~(r.at > Len(r.sigs))
  <2> DEFINE shown == [r.shown EXCEPT ![r.at] = part]
  <2>1. r.at \in 1..Len(r.shown)
    BY <1>1, <1>4
  <2>2. /\ shown \in Seq(Parts \cup {Gone}) /\ Len(shown) = Len(r.sigs)
        /\ \A i \in 1..Len(r.sigs) : shown[i] = IF i = r.at THEN part ELSE r.shown[i]
    BY <1>1, <2>1, ExceptSeq
  <2>3. q = [r EXCEPT !.shown = shown]
    BY <1>4 DEF Unanswered, Records
  <2>5. ASSUME ~r.plain, Native(r.version), NEW i \in 1..Len(r.sigs)
        PROVE  shown[i] = r.sigs[i] \/ Replaced(reply, shown[i], r.sigs[i])
    <3>1. part \in NativeParts /\ r.sigs[i] \in RichParts(reply) /\ r.shown[i] = r.sigs[i]
      BY <1>2, <2>5, InFlight DEF StreamOK, Kept
    <3> HIDE DEF shown, part
    <3> QED  BY <2>2, <3>1 DEF Replaced
  <2> HIDE DEF q, shown
  <2>4. /\ q \in Records /\ Same(r, q) /\ q.version = r.version /\ q.broken = r.broken
        /\ q.sigs = r.sigs /\ q.shown = shown /\ q.plain = r.plain
    BY <2>2, <2>3 DEF Records, Same
  <2> QED  BY <1>2, <2>2, <2>4, <2>5 DEF Counted, Turned, q
<1> QED  BY <1>3, <1>4

(* A deletion: one message less, or one that is gone.                       *)
LEMMA TrimKeeps ==
  ASSUME reply \in Replies, NEW r \in Records, StreamOK(reply, r), r.phase = "trim"
  PROVE  LET q == [r EXCEPT !.sigs = Front(@), !.shown = Front(@)] IN
         /\ q \in Records /\ Same(r, q) /\ Kept(reply, q)
         /\ q.version = r.version /\ q.broken = r.broken /\ Goal(q) = Goal(r)
         /\ Tracked(reply, q) => Matches(q, Len(Goal(r)))
<1> DEFINE sigs == Front(r.sigs)
           shown == Front(r.shown)
           q == [r EXCEPT !.sigs = sigs, !.shown = shown]
           n == Len(r.sigs)
<1>1. /\ r.sigs \in Seq(Parts) /\ r.shown \in Seq(Parts \cup {Gone})
      /\ n \in Nat /\ Len(r.shown) = n
  BY LenProperties DEF Records, StreamOK, Kept
<1>2. /\ sigs \in Seq(Parts) /\ Len(sigs) = (IF n = 0 THEN 0 ELSE n - 1)
      /\ \A i \in 1..(n - 1) : sigs[i] = r.sigs[i]
  BY <1>1, FrontOf
<1>3. /\ shown \in Seq(Parts \cup {Gone}) /\ Len(shown) = (IF n = 0 THEN 0 ELSE n - 1)
      /\ \A i \in 1..(n - 1) : shown[i] = r.shown[i]
  BY <1>1, FrontOf
<1>4. \A i \in 1..Len(sigs) : i \in 1..n /\ sigs[i] = r.sigs[i] /\ shown[i] = r.shown[i]
  BY <1>1, <1>2, <1>3
<1>5. [r EXCEPT !.sigs = Front(@), !.shown = Front(@)] = q
  BY DEF Records
<1> HIDE DEF sigs, shown, q
<1>6. /\ q \in Records /\ Same(r, q) /\ q.sigs = sigs /\ q.shown = shown
      /\ q.version = r.version /\ q.broken = r.broken /\ q.plain = r.plain
  BY <1>2, <1>3 DEF Records, Same, q
<1>7. Goal(q) = Goal(r) /\ (Tracked(reply, q) <=> Tracked(reply, r))
  BY <1>6 DEF Goal, Tracked, Same
<1>8. Kept(reply, q)
  BY <1>2, <1>3, <1>4, <1>6 DEF Kept, Turned, StreamOK
<1>9. ASSUME Tracked(reply, r) PROVE Matches(q, Len(Goal(r)))
  <2>1. /\ Len(Goal(r)) < n
        /\ \A i \in 1..Len(Goal(r)) : r.sigs[i] = Goal(r)[i]
    BY <1>9 DEF StreamOK, Flushing, Matches
  <2>2. Len(Goal(r)) \in Nat
    BY InSpan, TextParts DEF Goal, StreamOK, Flushing, Records
  <2> QED  BY <1>1, <1>2, <1>6, <1>7, <2>1, <2>2 DEF Matches
<1> QED  BY <1>5, <1>6, <1>7, <1>8, <1>9

LEMMA TrimLostKeeps ==
  ASSUME reply \in Replies, NEW r \in Records, StreamOK(reply, r), r.phase = "trim", mode = "edit"
  PROVE  LET q == [r EXCEPT !.shown[Len(r.sigs)] = Gone] IN
         /\ q \in Records /\ Same(r, q) /\ Counted(reply, q)
         /\ q.version = r.version /\ q.broken = r.broken
<1> DEFINE n == Len(r.sigs)
           shown == [r.shown EXCEPT ![n] = Gone]
           q == [r EXCEPT !.shown = shown]
<1>1. /\ r.shown \in Seq(Parts \cup {Gone}) /\ n \in Nat /\ Len(r.shown) = n
      /\ Kept(reply, r) /\ ~r.broken
  BY LenProperties DEF Records, StreamOK, Kept, Flushing
<1>2. n \in 1..Len(r.shown)
  <2>1. n > Len(Goal(r)) /\ Len(Goal(r)) \in Nat
    BY InSpan, TextParts DEF Goal, StreamOK, Flushing, Records, Tracked
  <2> QED  BY <1>1, <2>1
<1>3. /\ shown \in Seq(Parts \cup {Gone}) /\ Len(shown) = n
      /\ \A i \in 1..n : i # n => shown[i] = r.shown[i]
  BY <1>1, <1>2, ExceptSeq
<1>4. [r EXCEPT !.shown[Len(r.sigs)] = Gone] = q
  BY DEF Records
<1> HIDE DEF shown, q
<1>5. /\ q \in Records /\ Same(r, q) /\ q.version = r.version /\ q.broken = r.broken
      /\ q.sigs = r.sigs /\ q.shown = shown /\ q.plain = r.plain
  BY <1>3 DEF Records, Same, q
<1>6. Counted(reply, q)
  BY <1>1, <1>3, <1>5 DEF Kept, Counted, Turned, Replaced
<1> QED  BY <1>4, <1>5, <1>6

-----------------------------------------------------------------------------
(* A step of a flush in the state of the system.                            *)

LEMMA FlushStartStep ==
  ASSUME reply \in Replies, NEW s \in Streams, streams \in [Streams -> Records],
         StreamOK(reply, streams[s]),
         FlushStart(s)
  PROVE  \E q \in Records :
           /\ streams' = [streams EXCEPT ![s] = q]
           /\ streams[s].payload # 0 /\ streams[s].phase = "idle"
           /\ streams[s].pending > 0
           /\ Outcome(reply, [streams[s] EXCEPT !.pending = @ - 1], q, {streams[s].payload})
<1> DEFINE r == streams[s]
           less == r.pending - 1
           p == [r EXCEPT !.pending = less]
           z == [p EXCEPT !.tries = 0]
           q == IF z.broken THEN Ended(z, FALSE) ELSE Loop(z)
<1>1. r \in Records /\ r.pending > 0 /\ r.phase = "idle" /\ less \in Nat
  BY DEF FlushStart, Records
<1>2. streams' = [streams EXCEPT ![s] = q]
  <2>1. [streams[s] EXCEPT !.pending = @ - 1, !.tries = 0] = z
    BY <1>1 DEF Records
  <2> QED  BY <2>1 DEF FlushStart, Update
<1>3. r.payload # 0 /\ r.payload \in Span(reply)
  BY <1>1 DEF StreamOK, Fresh
<1> HIDE DEF less
<1>4. /\ z \in Records /\ Same(p, z) /\ z.payload = r.payload /\ z.sigs = r.sigs
      /\ z.shown = r.shown /\ z.plain = r.plain /\ z.broken = r.broken
  BY <1>1 DEF Records, Same
<1> HIDE DEF z, p, r
<1>5. Kept(reply, z)
  BY <1>4 DEF StreamOK, Kept, Turned, r
<1>6. Outcome(reply, z, q, {r.payload})
  <2>1. CASE z.broken
    BY <1>3, <1>4, <1>5, <2>1, EndedOutcome
  <2>2. CASE ~z.broken
    BY <1>3, <1>4, <1>5, <2>2, LoopOutcome
  <2> QED  BY <2>1, <2>2
<1>7. Outcome(reply, p, q, {r.payload})
  BY <1>4, <1>6, OutcomeOfSame
<1>8. p = [streams[s] EXCEPT !.pending = @ - 1]
  BY <1>1 DEF p, r, less, Records
<1>9. q \in Records
  BY <1>6 DEF Outcome
<1> HIDE DEF q
<1> QED  BY <1>1, <1>2, <1>3, <1>7, <1>8, <1>9 DEF r

LEMMA CallStep ==
  ASSUME reply \in Replies, NEW s \in Streams, streams \in [Streams -> Records],
         StreamOK(reply, streams[s]),
         CallSettles(s) \/ TrimSettles(s) \/ DelayElapses(s)
  PROVE  \E q \in Records :
           /\ streams' = [streams EXCEPT ![s] = q]
           /\ streams[s].payload # 0 /\ streams[s].phase # "idle"
           /\ Outcome(reply, streams[s], q, {streams[s].version, streams[s].payload})
<1> DEFINE r == streams[s]
           V == {r.version, r.payload}
<1>1. r \in Records
  OBVIOUS
<1>2. ASSUME r.phase # "idle"
      PROVE  /\ r.payload # 0 /\ r.payload \in Span(reply) /\ Kept(reply, r) /\ Counted(reply, r)
             /\ ~r.broken /\ r.version \in Span(reply) /\ r.version \in Versions
  BY <1>2, InSpan DEF StreamOK, Fresh, Flushing, Kept, Counted
<1>3. SUFFICES ASSUME r.phase # "idle"
               PROVE  \E q : Update(s, q) /\ Outcome(reply, r, q, V)
  BY <1>2 DEF CallSettles, TrimSettles, DelayElapses, Outcome, Update
<1>4. Outcome(reply, r, Limited(r), V) /\ Outcome(reply, r, Failed(r), V)
  <2>1. Outcome(reply, r, Limited(r), {r.version})
    BY <1>1, <1>2, <1>3, LimitedOutcome
  <2>2. Outcome(reply, r, Failed(r), {r.payload})
    BY <1>1, <1>2, <1>3, FailedOutcome
  <2> QED  BY <2>1, <2>2, OutcomeOfSame DEF Same
<1>5. CASE CallSettles(s)
  <2>1. r.phase = "sync"
    BY <1>5 DEF CallSettles
  <2>2. Outcome(reply, r, Advance(Delivered(r), r.at + 1), V)
    <3> DEFINE q == Delivered(r)
    <3>1. /\ q \in Records /\ Same(r, q) /\ Kept(reply, q)
          /\ q.version = r.version /\ q.broken = r.broken
          /\ Goal(q) = Goal(r) /\ (Tracked(reply, q) => Matches(q, r.at))
      BY <1>1, <2>1, DeliveredKeeps
    <3>2. r.at \in 1..Len(Goal(r)) /\ Len(Goal(r)) \in Nat
      <4>1. r.at \in 1..Len(Goal(r))
        BY <1>1, <2>1, InFlight
      <4>2. r.plain \in BOOLEAN
        BY <1>1 DEF Records
      <4> QED  BY <1>2, <1>3, <4>1, <4>2, TextParts DEF Goal
    <3> HIDE DEF q, r
    <3>3. r.at + 1 \in 1..(Len(Goal(q)) + 1) /\ (r.at + 1) - 1 = r.at
      BY <3>1, <3>2
    <3>4. Outcome(reply, q, Advance(q, r.at + 1), {q.version})
      <4>1. q.payload \in Span(reply) /\ ~q.broken /\ q.version \in Span(reply)
        BY <1>2, <1>3, <3>1 DEF Same
      <4> QED  BY <3>1, <3>3, <4>1, AdvanceOutcome
    <3> QED  BY <3>1, <3>4, OutcomeOfSame DEF q
  <2>3. Outcome(reply, r, Failed(Unanswered(r)), V)
    <3> DEFINE q == Unanswered(r)
    <3>1. /\ q \in Records /\ Same(r, q) /\ Counted(reply, q)
          /\ q.version = r.version /\ q.broken = r.broken
      BY <1>1, <2>1, UnansweredKeeps
    <3> HIDE DEF q, r
    <3>2. Outcome(reply, q, Failed(q), {q.payload}) /\ q.payload = r.payload
      BY <1>2, <1>3, <3>1, FailedOutcome DEF Same
    <3> QED  BY <3>1, <3>2, OutcomeOfSame DEF q
  <2> QED  BY <1>4, <1>5, <2>2, <2>3 DEF CallSettles
<1>6. CASE TrimSettles(s)
  <2>1. r.phase = "trim"
    BY <1>6 DEF TrimSettles
  <2> DEFINE less == [r EXCEPT !.sigs = Front(@), !.shown = Front(@)]
             lost == [r EXCEPT !.shown[Len(r.sigs)] = Gone]
  <2>2. Outcome(reply, r, Advance(less, Len(Goal(r)) + 1), V)
    <3>1. /\ less \in Records /\ Same(r, less) /\ Kept(reply, less)
          /\ less.version = r.version /\ less.broken = r.broken
          /\ Goal(less) = Goal(r) /\ (Tracked(reply, less) => Matches(less, Len(Goal(r))))
      BY <1>1, <2>1, TrimKeeps, ZenonT(60)
    <3>2. Len(Goal(r)) \in Nat
      BY <1>1, <1>2, <1>3, TextParts DEF Goal, Records
    <3> HIDE DEF less, r
    <3>3. Len(Goal(r)) + 1 \in 1..(Len(Goal(less)) + 1) /\ (Len(Goal(r)) + 1) - 1 = Len(Goal(r))
      BY <3>1, <3>2
    <3>4. Outcome(reply, less, Advance(less, Len(Goal(r)) + 1), {less.version})
      <4>1. less.payload \in Span(reply) /\ ~less.broken /\ less.version \in Span(reply)
        BY <1>2, <1>3, <3>1 DEF Same
      <4> QED  BY <3>1, <3>3, <4>1, AdvanceOutcome
    <3> QED  BY <3>1, <3>4, OutcomeOfSame
  <2>3. ASSUME mode = "edit" PROVE Outcome(reply, r, Failed(lost), V)
    <3>1. /\ lost \in Records /\ Same(r, lost) /\ Counted(reply, lost)
          /\ lost.version = r.version /\ lost.broken = r.broken
      BY <1>1, <2>1, <2>3, TrimLostKeeps
    <3> HIDE DEF lost, r
    <3>2. Outcome(reply, lost, Failed(lost), {lost.payload}) /\ lost.payload = r.payload
      BY <1>2, <1>3, <3>1, FailedOutcome DEF Same
    <3> QED  BY <3>1, <3>2, OutcomeOfSame
  <2> QED  BY <1>4, <1>6, <2>2, <2>3 DEF TrimSettles
<1>7. CASE DelayElapses(s)
  <2>1. Outcome(reply, r, Loop(r), {r.payload})
    BY <1>1, <1>2, <1>3, LoopOutcome
  <2>2. Outcome(reply, r, Loop(r), V)
    BY <2>1, OutcomeOfSame DEF Same
  <2> QED  BY <1>7, <2>2 DEF DelayElapses
<1> QED  BY <1>5, <1>6, <1>7

-----------------------------------------------------------------------------
(* The invariant.                                                           *)

(* What a stream has recorded does not depend on its payload, its timer or   *)
(* the flushes that wait.                                                   *)
LEMMA SameRecord ==
  ASSUME NEW m, NEW r, NEW q, StreamOK(m, r), q.payload # 0, q.payload \in Span(m),
         q.sigs = r.sigs, q.shown = r.shown, q.phase = r.phase, q.version = r.version,
         q.at = r.at, q.broken = r.broken, q.plain = r.plain,
         Tracked(m, q) => Tracked(m, r)
  PROVE  StreamOK(m, q)
<1>1. Goal(q) = Goal(r)
  BY DEF Goal
<1>2. Kept(m, q)
  BY DEF StreamOK, Kept, Turned
<1>3. Flushing(m, q)
  BY <1>1 DEF StreamOK, Flushing, Matches
<1> QED  BY <1>2, <1>3 DEF StreamOK

(* Each flush the finalizer waits for is the running one or in the chain.    *)
LEMMA AwaitingFlush ==
  ASSUME mode = "edit", NEW r \in Records, NEW q \in Records, NEW p, Awaiting(reply, p, r),
         p \in FinPhases \ {"streaming", "persisting", "rollback"},
         \/ /\ r.phase = "idle" /\ r.pending > 0
            /\ Outcome(reply, [r EXCEPT !.pending = @ - 1], q, {r.payload})
         \/ r.phase # "idle" /\ Outcome(reply, r, q, {r.version, r.payload})
  PROVE  p \in {"waiting", "flushing"} /\ Awaiting(reply, p, q)
<1>1. p \in {"waiting", "flushing"}
  BY DEF Awaiting, Quiet, Records, FinPhases
<1>2. /\ r.payload = Final /\ ~r.timer /\ r.awaited = r.pending + Running(r)
      /\ r.awaited \in Nat /\ r.pending \in Nat /\ q.awaited \in Nat /\ q.pending \in Nat
  BY <1>1 DEF Awaiting, Records
<1>3. PICK less \in Nat, V \in {{r.payload}, {r.version, r.payload}} :
        /\ q.payload = Final /\ ~q.timer /\ q.pending = less /\ r.awaited = less + 1
        /\ p = "flushing" => \A v \in V : v = Final
        /\ \/ q.phase # "idle" /\ q.awaited = r.awaited /\ q.version \in V
           \/ /\ q.phase = "idle" /\ q.awaited = r.awaited - 1
              /\ IF q.ok THEN ~q.broken /\ \E v \in V : q.sigs = Text(v, q.plain)
                         ELSE q.broken \/ q.cancelled
  <2>1. CASE /\ r.phase = "idle" /\ r.pending > 0
             /\ Outcome(reply, [r EXCEPT !.pending = @ - 1], q, {r.payload})
    <3> DEFINE less == r.pending - 1
               z == [r EXCEPT !.pending = less]
    <3>1. z.payload = r.payload /\ z.timer = r.timer /\ z.pending = less
          /\ z.awaited = r.awaited /\ z = [r EXCEPT !.pending = @ - 1] /\ less \in Nat
      BY <1>2, <2>1 DEF Records
    <3>2. r.awaited = less + 1 /\ r.awaited > 0
      BY <1>2, <2>1 DEF Running
    <3> HIDE DEF z, less
    <3> QED  BY <1>2, <2>1, <3>1, <3>2 DEF Outcome, Tracked
  <2>2. CASE r.phase # "idle" /\ Outcome(reply, r, q, {r.version, r.payload})
    <3>1. r.awaited = r.pending + 1 /\ r.awaited > 0
      BY <1>2, <2>2 DEF Running
    <3>2. p = "flushing" => r.version = Final
      BY <2>2 DEF Awaiting
    <3> QED  BY <1>2, <2>2, <3>1, <3>2 DEF Outcome, Tracked
  <2> QED  BY <2>1, <2>2
<1>4. q.awaited = q.pending + Running(q)
  BY <1>2, <1>3 DEF Running
<1>5. ASSUME p = "flushing"
      PROVE  /\ q.awaited <= 1
             /\ q.phase # "idle" => q.version = Final
             /\ q.awaited = 0 =>
                  IF q.ok THEN ~q.broken /\ q.sigs = Text(Final, q.plain)
                          ELSE q.broken \/ q.cancelled
  <2>1. r.awaited <= 1
    BY <1>5 DEF Awaiting
  <2> QED  BY <1>2, <1>3, <1>5, <2>1
<1> QED  BY <1>1, <1>2, <1>3, <1>4, <1>5 DEF Awaiting

LEMMA SyncKeeps ==
  ASSUME SInv, NEW s \in Streams, Sync(s)
  PROVE  SInv'
<1> DEFINE r == streams[s]
<1>1. streams \in [Streams -> Records] /\ r \in Records
  BY DEF SInv, Typed
<1>2. /\ UNCHANGED <<reply, made, current, sent, fin, answer>>
      /\ left' = left /\ faults' \in Nat /\ reply \in Replies
      /\ r.phase # "idle" \/ r.pending > 0
  <2>1. faults \in Nat /\ reply \in Replies
    BY DEF SInv, Typed
  <2>2. CASE FlushStart(s)
    BY <2>1, <2>2 DEF FlushStart
  <2>3. CASE CallSettles(s)
    BY <2>1, <2>3 DEF CallSettles, Fault, NoFault
  <2>4. CASE TrimSettles(s)
    BY <2>1, <2>4 DEF TrimSettles, Fault, NoFault
  <2>5. CASE DelayElapses(s)
    BY <2>1, <2>5 DEF DelayElapses
  <2> QED  BY <2>2, <2>3, <2>4, <2>5 DEF Sync
<1>3. StreamOK(reply, r)
  <2>1. CASE fin.phase = "cleanup" /\ s = fin.stream
    <3>1. mode = "edit" /\ fin.stream # 0
      BY <2>1 DEF SInv, FinPhase, Completing
    <3>2. Quiet(r)
      BY <2>1, <3>1 DEF SInv, Awaited, Awaiting
    <3> QED  BY <1>1, <1>2, <3>2 DEF Quiet, Records
  <2> QED  BY <2>1 DEF SInv, StreamsOK
<1>4. PICK q \in Records :
        /\ streams' = [streams EXCEPT ![s] = q]
        /\ q.payload = r.payload /\ r.payload # 0 /\ StreamOK(reply, q)
        /\ \/ /\ r.phase = "idle" /\ r.pending > 0
              /\ Outcome(reply, [r EXCEPT !.pending = @ - 1], q, {r.payload})
           \/ r.phase # "idle" /\ Outcome(reply, r, q, {r.version, r.payload})
  <2>1. CASE FlushStart(s)
    <3>1. PICK q \in Records :
           /\ streams' = [streams EXCEPT ![s] = q]
           /\ r.payload # 0 /\ r.phase = "idle" /\ r.pending > 0
           /\ Outcome(reply, [r EXCEPT !.pending = @ - 1], q, {r.payload})
      BY <1>1, <1>2, <1>3, <2>1, FlushStartStep
    <3>2. [r EXCEPT !.pending = @ - 1].payload = r.payload
      BY <1>1 DEF Records
    <3>3. q.payload = r.payload /\ StreamOK(reply, q)
      BY <3>1, <3>2 DEF Outcome
    <3> QED  BY <3>1, <3>3
  <2>2. CASE CallSettles(s) \/ TrimSettles(s) \/ DelayElapses(s)
    <3>1. PICK q \in Records :
           /\ streams' = [streams EXCEPT ![s] = q]
           /\ r.payload # 0 /\ r.phase # "idle"
           /\ Outcome(reply, r, q, {r.version, r.payload})
      BY <1>1, <1>2, <1>3, <2>2, CallStep
    <3>2. q.payload = r.payload /\ StreamOK(reply, q)
      BY <3>1 DEF Outcome
    <3> QED  BY <3>1, <3>2
  <2> QED  BY <2>1, <2>2 DEF Sync
<1>5. Typed'
  BY <1>1, <1>2, <1>4 DEF SInv, Typed
<1>6. FinPhase'
  BY <1>1, <1>2, <1>4 DEF SInv, FinPhase, Typed, Finalizers, Completing
<1>7. Answered'
  BY <1>2 DEF SInv, Answered
<1>8. StreamsOK'
  BY <1>1, <1>2, <1>4 DEF SInv, StreamsOK
<1>9. Awaited'
  <2> SUFFICES ASSUME mode = "edit", fin.stream # 0
               PROVE  Awaiting(reply, fin.phase, streams'[fin.stream])
    BY <1>2 DEF Awaited
  <2>1. Awaiting(reply, fin.phase, streams[fin.stream])
    BY DEF SInv, Awaited
  <2>2. CASE s = fin.stream
    <3>1. fin.phase \notin {"streaming", "persisting", "rollback"}
      BY DEF SInv, FinPhase
    <3>2. fin.phase \in FinPhases
      BY DEF SInv, Typed, Finalizers
    <3>3. Awaiting(reply, fin.phase, q)
      BY <1>1, <1>4, <2>1, <2>2, <3>1, <3>2, AwaitingFlush
    <3> QED  BY <1>1, <1>4, <2>2, <3>3
  <2>3. CASE s # fin.stream
    <3>1. streams'[fin.stream] = streams[fin.stream]
      BY <1>1, <1>4, <2>3 DEF SInv, Typed, Finalizers
    <3> QED  BY <2>1, <3>1
  <2> QED  BY <2>2, <2>3
<1>10. Numbered'
  BY <1>1, <1>2, <1>4 DEF SInv, Numbered, Typed, FinPhase, Finalizers, Completing
<1> QED  BY <1>5, <1>6, <1>7, <1>8, <1>9, <1>10 DEF SInv

(* The stream of a finalizer that cleans up is quiet. *)
LEMMA Busy ==
  ASSUME SInv, NEW s \in Streams, ~Quiet(streams[s])
  PROVE  /\ StreamOK(reply, streams[s]) /\ streams[s].payload # 0
         /\ mode = "edit" /\ s = fin.stream => fin.phase \in {"waiting", "flushing"}
<1>1. StreamOK(reply, streams[s])
  <2>1. CASE fin.phase = "cleanup" /\ s = fin.stream
    <3>1. mode = "edit" /\ fin.stream # 0
      BY <2>1 DEF SInv, FinPhase, Completing
    <3> QED  BY <2>1, <3>1 DEF SInv, Awaited, Awaiting
  <2> QED  BY <2>1 DEF SInv, StreamsOK
<1>2. streams[s].payload # 0
  BY <1>1 DEF StreamOK, Fresh, Quiet
<1>3. ASSUME mode = "edit", s = fin.stream PROVE fin.phase \in {"waiting", "flushing"}
  <2>1. s # 0
    BY DEF Streams
  <2>2. fin.phase \in FinPhases /\ fin.phase \notin {"streaming", "persisting", "rollback"}
    BY <1>3, <2>1 DEF SInv, FinPhase, Typed, Finalizers
  <2> QED  BY <1>3, <2>1, <2>2 DEF SInv, Awaited, Awaiting, FinPhases
<1> QED  BY <1>1, <1>2, <1>3

LEMMA TickKeeps ==
  ASSUME SInv, NEW s \in Streams, Tick(s)
  PROVE  SInv'
<1> DEFINE r == streams[s]
           more == r.pending + 1
           q == [r EXCEPT !.timer = FALSE, !.pending = more]
<1>1. streams \in [Streams -> Records] /\ r \in Records /\ r.timer /\ more \in Nat
  <2>1. streams \in [Streams -> Records] /\ r.timer
    BY DEF SInv, Typed, Tick
  <2>2. r \in Records /\ r.pending \in Nat
    BY <2>1 DEF Records
  <2> QED  BY <2>1, <2>2
<1>2. streams' = [streams EXCEPT ![s] = q] /\ UNCHANGED <<reply, made, current, sent, fin, answer, left, faults>>
  <2>1. q = [streams[s] EXCEPT !.timer = FALSE, !.pending = @ + 1]
    BY <1>1 DEF Records
  <2> QED  BY <2>1 DEF Tick, Update
<1>3. StreamOK(reply, r) /\ r.payload # 0 /\ r.payload \in Span(reply)
  BY <1>1, Busy DEF Quiet, StreamOK
<1> HIDE DEF more
<1>4. /\ q \in Records /\ q.payload = r.payload /\ q.sigs = r.sigs /\ q.shown = r.shown
      /\ q.phase = r.phase /\ q.version = r.version /\ q.at = r.at /\ q.broken = r.broken
      /\ q.plain = r.plain /\ q.cancelled = r.cancelled
  BY <1>1 DEF Records
<1> HIDE DEF q
<1>5. StreamOK(reply, q)
  BY <1>3, <1>4, SameRecord DEF Tracked
<1>6. ~(mode = "edit" /\ s = fin.stream)
  <2> SUFFICES ASSUME mode = "edit", s = fin.stream PROVE FALSE
    OBVIOUS
  <2>1. fin.phase \in {"waiting", "flushing"}
    BY <1>1, Busy DEF Quiet
  <2>2. fin.stream # 0
    BY DEF Streams
  <2> QED  BY <1>1, <2>1, <2>2 DEF SInv, Awaited, Awaiting
<1>7. Typed'
  BY <1>1, <1>2, <1>4 DEF SInv, Typed
<1>8. FinPhase'
  BY <1>1, <1>2, <1>3, <1>4 DEF SInv, FinPhase, Typed, Finalizers, Completing
<1>9. Answered'
  BY <1>2 DEF SInv, Answered
<1>10. StreamsOK'
  BY <1>1, <1>2, <1>5 DEF SInv, StreamsOK
<1>11. Awaited'
  BY <1>1, <1>2, <1>6 DEF SInv, Awaited, Typed, Finalizers
<1>12. Numbered'
  BY <1>1, <1>2, <1>4 DEF SInv, Numbered, Typed, FinPhase, Finalizers, Completing
<1> QED  BY <1>7, <1>8, <1>9, <1>10, <1>11, <1>12 DEF SInv

(* A stream that is cancelled keeps what it has recorded. *)
LEMMA CancelledOK ==
  ASSUME NEW r \in Records, NEW m, NEW p
  PROVE  LET q == Cancelled(r) IN
         /\ q \in Records /\ q.payload = r.payload /\ q.cancelled /\ ~q.timer
         /\ q.sigs = r.sigs /\ q.shown = r.shown /\ q.plain = r.plain
         /\ q.phase = r.phase /\ q.pending = r.pending /\ q.broken = r.broken
         /\ StreamOK(m, r) /\ r.payload # 0 => StreamOK(m, q)
         /\ Awaiting(reply, p, r) => Awaiting(reply, p, q)
<1> DEFINE q == Cancelled(r)
<1>1. /\ q \in Records /\ q.payload = r.payload /\ q.cancelled /\ ~q.timer
      /\ q.sigs = r.sigs /\ q.shown = r.shown /\ q.plain = r.plain
      /\ q.phase = r.phase /\ q.pending = r.pending /\ q.broken = r.broken
      /\ q.version = r.version /\ q.at = r.at /\ q.awaited = r.awaited /\ q.ok = r.ok
  BY DEF Cancelled, Records
<1> HIDE DEF q
<1>2. StreamOK(m, r) /\ r.payload # 0 => StreamOK(m, q)
  <2>1. StreamOK(m, r) /\ r.payload # 0 => r.payload \in Span(m)
    BY DEF StreamOK
  <2> QED  BY <1>1, <2>1, SameRecord DEF Tracked
<1>3. Awaiting(reply, p, r) => Awaiting(reply, p, q)
  <2>1. Running(q) = Running(r) /\ (Quiet(r) => Quiet(q))
    BY <1>1 DEF Running, Quiet
  <2> QED  BY <1>1, <2>1 DEF Awaiting, Turned
<1> QED  BY <1>1, <1>2, <1>3 DEF q

LEMMA ClearKeeps ==
  ASSUME SInv, Clear
  PROVE  SInv'
<1> DEFINE r == streams[current]
           q == Cancelled(r)
<1>1. /\ streams \in [Streams -> Records] /\ current \in Streams /\ r \in Records
      /\ r.payload # 0
  BY DEF SInv, Typed, FinPhase, Clear
<1>2. /\ streams' = [streams EXCEPT ![current] = q] /\ current' = 0
      /\ UNCHANGED <<reply, made, sent, fin, answer, left, faults>>
  BY DEF Clear, Update
<1>3. /\ q \in Records /\ q.payload = r.payload
      /\ StreamOK(reply, r) => StreamOK(reply, q)
      /\ Awaiting(reply, fin.phase, r) => Awaiting(reply, fin.phase, q)
  BY <1>1, CancelledOK
<1> HIDE DEF q
<1>4. Typed'
  BY <1>1, <1>2, <1>3 DEF SInv, Typed
<1>5. FinPhase'
  BY <1>1, <1>2, <1>3 DEF SInv, FinPhase, Typed, Finalizers, Completing
<1>6. Answered'
  BY <1>2 DEF SInv, Answered
<1>7. StreamsOK'
  BY <1>1, <1>2, <1>3 DEF SInv, StreamsOK
<1>8. Awaited'
  BY <1>1, <1>2, <1>3 DEF SInv, Awaited, Typed, Finalizers
<1>9. Numbered'
  BY <1>1, <1>2, <1>3 DEF SInv, Numbered, Typed, FinPhase, Finalizers, Completing
<1> QED  BY <1>4, <1>5, <1>6, <1>7, <1>8, <1>9 DEF SInv

LEMMA FreshOK ==
  /\ Fresh \in Records /\ Fresh.sigs = <<>> /\ Fresh.shown = <<>>
  /\ Fresh.phase = "idle" /\ ~Fresh.broken /\ ~Fresh.plain
  /\ \A m : StreamOK(m, Fresh)
<1>1. /\ <<>> \in Seq(Parts) /\ <<>> \in Seq(Parts \cup {Gone}) /\ Len(<<>>) = 0
  BY EmptySeq
<1>2. Fresh \in Records
  BY <1>1 DEF Fresh, Records
<1>3. \A m : StreamOK(m, Fresh)
  BY <1>1 DEF StreamOK, Kept, Turned, Flushing, Fresh
<1> QED  BY <1>2, <1>3 DEF Fresh

LEMMA EnqueueKeeps ==
  ASSUME SInv, NEW v \in Versions, Enqueue(v)
  PROVE  SInv'
<1>1. /\ streams \in [Streams -> Records] /\ fin.phase # "cleanup"
      /\ mode = "edit" => fin.stream = 0
      /\ v \in Nat /\ v # 0 /\ v \in Span(reply) /\ v = sent + 1 /\ sent \in Nat
      /\ fin.phase = "streaming" => v < Final
  <2>1. fin.phase # "cleanup" /\ (mode = "edit" => fin.stream = 0)
    BY DEF SInv, FinPhase, Enqueue, Arrives
  <2>2. v \in Span(reply) /\ v = sent + 1 /\ (fin.phase = "streaming" => v < Final)
    BY DEF Enqueue, Arrives, Completing
  <2> QED  BY <2>1, <2>2, VersionsAssumption DEF SInv, Typed, VersionsAssumption
<1>2. PICK s \in Streams, q \in Records :
        /\ streams' = [streams EXCEPT ![s] = q]
        /\ q.payload = v /\ StreamOK(reply, q)
        /\ made' \in Streams \cup {0} /\ current' = s
        /\ fin.stream # 0 /\ Completing => s = fin.stream
        /\ UNCHANGED <<reply, fin, answer, left, faults>> /\ sent' = v
  <2>1. CASE current # 0
    <3> DEFINE r == streams[current]
               p == [r EXCEPT !.payload = v]
               q == Arm(p)
    <3>1. current \in Streams /\ r \in Records /\ r.payload # 0 /\ StreamOK(reply, r)
      BY <1>1, <2>1 DEF SInv, Typed, FinPhase, StreamsOK
    <3>2. /\ p \in Records /\ p.payload = v /\ p.sigs = r.sigs /\ p.shown = r.shown
          /\ p.phase = r.phase /\ p.version = r.version /\ p.at = r.at /\ p.broken = r.broken
          /\ p.plain = r.plain /\ p.cancelled = r.cancelled
      BY <3>1 DEF Records
    <3> HIDE DEF p
    <3>3. /\ q \in Records /\ q.payload = v /\ q.sigs = r.sigs /\ q.shown = r.shown
          /\ q.phase = r.phase /\ q.version = r.version /\ q.at = r.at /\ q.broken = r.broken
          /\ q.plain = r.plain /\ q.cancelled = r.cancelled
      <4>1. CASE p.broken
        BY <3>2, <4>1 DEF Arm
      <4>2. CASE ~p.broken
        <5> DEFINE armed == p.timer \/ ~p.cancelled
        <5>1. q = [p EXCEPT !.timer = armed] /\ armed \in BOOLEAN
          BY <3>2, <4>2 DEF Arm, Records
        <5> HIDE DEF armed, q
        <5> QED  BY <3>2, <5>1 DEF Records
      <4> QED  BY <4>1, <4>2
    <3>4. streams' = [streams EXCEPT ![current] = q]
      BY <2>1 DEF Enqueue, Update, p
    <3> HIDE DEF q
    <3>5. StreamOK(reply, q)
      BY <1>1, <3>1, <3>3, SameRecord DEF Tracked
    <3>6. fin.stream # 0 /\ Completing => current = fin.stream
      BY DEF Enqueue, Arrives, SInv, FinPhase, Completing
    <3> QED  BY <2>1, <3>1, <3>3, <3>4, <3>5, <3>6 DEF Enqueue, SInv, Typed
  <2>2. CASE current = 0
    <3> DEFINE p == [Fresh EXCEPT !.payload = v]
               q == Arm(p)
    <3>1. /\ p \in Records /\ p.payload = v /\ p.sigs = <<>> /\ p.shown = <<>>
          /\ p.phase = "idle" /\ ~p.broken /\ ~p.plain
      <4>1. /\ Fresh \in Records /\ Fresh.sigs = <<>> /\ Fresh.shown = <<>>
            /\ Fresh.phase = "idle" /\ ~Fresh.broken /\ ~Fresh.plain
        BY FreshOK
      <4> QED  BY <4>1 DEF Records
    <3>2. /\ q \in Records /\ q.payload = v /\ q.sigs = <<>> /\ q.shown = <<>>
          /\ q.phase = "idle" /\ ~q.broken /\ ~q.plain
      <4> DEFINE armed == p.timer \/ ~p.cancelled
      <4>1. q = [p EXCEPT !.timer = armed] /\ armed \in BOOLEAN
        BY <3>1 DEF Arm, Records
      <4> HIDE DEF armed, q, p
      <4> QED  BY <3>1, <4>1 DEF Records
    <3>3. made' \in Streams /\ streams' = [streams EXCEPT ![made'] = q] /\ current' = made'
      BY <2>2, StreamBounds DEF Enqueue, Update, SInv, Typed, Streams, StreamBounds
    <3> HIDE DEF q
    <3>4. StreamOK(reply, q)
      BY <1>1, <3>2 DEF StreamOK, Kept, Turned, Flushing
    <3>5. ~(fin.stream # 0 /\ Completing)
      BY <2>2 DEF Enqueue, Arrives, SInv, FinPhase, Completing
    <3> QED  BY <2>2, <3>2, <3>3, <3>4, <3>5 DEF Enqueue
  <2> QED  BY <2>1, <2>2
<1>3. Typed'
  BY <1>1, <1>2 DEF SInv, Typed
<1>4. FinPhase'
  BY <1>1, <1>2 DEF SInv, FinPhase, Typed, Finalizers, Completing
<1>5. Answered'
  BY <1>2 DEF SInv, Answered
<1>6. StreamsOK'
  BY <1>1, <1>2 DEF SInv, StreamsOK
<1>7. Awaited'
  BY <1>1, <1>2 DEF Awaited
<1>8. Numbered'
  <2>1. reply \in Replies /\ Final \in Nat
    BY InSpan DEF SInv, Typed
  <2>2. \A i \in Streams : streams[i].payload \in Nat
    <3>1. \A i \in Streams : streams[i].payload \in Versions \cup {0}
      BY <1>1 DEF Records
    <3> QED  BY <2>1, <3>1, InSpan
  <2>3. ASSUME NEW i \in Streams PROVE streams'[i].payload <= sent'
    BY <1>1, <1>2, <2>2 DEF SInv, Numbered
  <2>4. Completing' => streams'[fin.stream].payload >= Final
    <3>1. Completing => fin.stream # 0 /\ fin.stream \in Streams
      BY DEF SInv, FinPhase, Typed, Finalizers
    <3> QED  BY <1>1, <1>2, <2>1, <2>2, <3>1 DEF SInv, Numbered, Completing
  <2>5. fin.phase \in {"persisting", "rollback", "streamed"} /\ mode = "draft" =>
          fin.version \in Final..sent'
    BY <1>1, <1>2, <2>1 DEF SInv, Numbered
  <2> QED  BY <1>1, <1>2, <2>3, <2>4, <2>5 DEF Numbered
<1> QED  BY <1>3, <1>4, <1>5, <1>6, <1>7, <1>8 DEF SInv

LEMMA CompleteKeeps ==
  ASSUME SInv, Complete
  PROVE  SInv'
<1>1. /\ streams \in [Streams -> Records] /\ fin.phase = "streaming" /\ fin.stream = 0
      /\ fin \in Finalizers /\ answer = <<>> /\ fin.part = 0
      /\ UNCHANGED <<reply, made, current, answer, left, faults>> /\ sent' = Final
      /\ Final \in Versions /\ Final \in Nat /\ Final # 0 /\ Final \in Span(reply)
      /\ current \in Streams \cup {0} /\ left = 0
      /\ \A s \in Streams : streams[s].payload <= Final
  <2>1. /\ streams \in [Streams -> Records] /\ fin.phase = "streaming" /\ fin.stream = 0
        /\ fin \in Finalizers /\ answer = <<>> /\ fin.part = 0
        /\ UNCHANGED <<reply, made, current, answer, left, faults>> /\ sent' = Final
        /\ current \in Streams \cup {0} /\ left = 0 /\ reply \in Replies
        /\ sent < Final /\ sent \in Nat /\ \A s \in Streams : streams[s].payload <= sent
    BY DEF SInv, Typed, FinPhase, Answered, Numbered, Complete
  <2>2. Final \in Versions /\ Final \in Nat /\ Final # 0 /\ Final \in Span(reply)
    BY <2>1, InSpan
  <2>3. \A s \in Streams : streams[s].payload \in Nat
    <3>1. \A s \in Streams : streams[s] \in Records
      BY <2>1
    <3> QED  BY <3>1, VersionsAssumption DEF Records, VersionsAssumption
  <2> QED  BY <2>1, <2>2, <2>3
<1>2. CASE current = 0
  <2>1. fin' = [fin EXCEPT !.phase = "sending"] /\ streams' = streams
    BY <1>2 DEF Complete
  <2>2. /\ fin' \in Finalizers /\ fin'.phase = "sending" /\ fin'.stream = 0 /\ fin'.part = 0
    BY <1>1, <2>1 DEF Finalizers, FinPhases
  <2>3. Typed' /\ FinPhase' /\ StreamsOK' /\ Awaited' /\ Numbered'
    BY <1>1, <2>1, <2>2 DEF SInv, Typed, FinPhase, StreamsOK, Awaited, Numbered, Completing
  <2>4. Answered'
    <3>1. Len(Rendered[Final]) \in Nat \ {0}
      BY <1>1, TextParts DEF Text
    <3> QED  BY <1>1, <2>2, <3>1 DEF Answered, Prefix
  <2> QED  BY <2>3, <2>4 DEF SInv
<1>3. CASE current # 0
  <2> DEFINE r == streams[current]
             n == r.pending + Running(r)
             q == [r EXCEPT !.payload = Final, !.timer = FALSE, !.awaited = n]
  <2>1. /\ fin' = [fin EXCEPT !.phase = "waiting", !.stream = current]
        /\ streams' = [streams EXCEPT ![current] = q]
    BY <1>3 DEF Complete, Update
  <2>2. /\ fin' \in Finalizers /\ fin'.phase = "waiting" /\ fin'.stream = current
        /\ fin'.part = 0
    BY <1>1, <1>3, <2>1 DEF Finalizers, FinPhases
  <2>3. /\ current \in Streams /\ r \in Records /\ r.payload # 0 /\ StreamOK(reply, r)
        /\ n \in Nat
    BY <1>1, <1>3 DEF SInv, Typed, FinPhase, StreamsOK, Records, Running
  <2> HIDE DEF n
  <2>4. /\ q \in Records /\ q.payload = Final /\ q.sigs = r.sigs /\ q.shown = r.shown
        /\ q.phase = r.phase /\ q.version = r.version /\ q.at = r.at /\ q.broken = r.broken
        /\ q.plain = r.plain /\ q.cancelled = r.cancelled
        /\ ~q.timer /\ q.awaited = n /\ q.pending = r.pending
    BY <1>1, <2>3 DEF Records
  <2> HIDE DEF q
  <2>5. StreamOK(reply, q)
    BY <1>1, <2>3, <2>4, SameRecord DEF Tracked
  <2>6. Awaiting(reply, "waiting", q)
    BY <2>4 DEF Awaiting, Running, n
  <2>7. Typed'
    BY <1>1, <2>1, <2>2, <2>3, <2>4 DEF SInv, Typed
  <2>8. FinPhase'
    BY <1>1, <1>3, <2>1, <2>2, <2>3, <2>4 DEF SInv, FinPhase, Completing
  <2>9. Answered'
    BY <1>1, <2>2 DEF Answered
  <2>10. StreamsOK'
    BY <1>1, <2>1, <2>2, <2>3, <2>5 DEF SInv, StreamsOK
  <2>11. Awaited'
    BY <1>1, <2>1, <2>2, <2>3, <2>6 DEF Awaited
  <2>12. Numbered'
    BY <1>1, <2>1, <2>2, <2>3, <2>4 DEF Numbered, Completing
  <2> QED  BY <2>7, <2>8, <2>9, <2>10, <2>11, <2>12 DEF SInv
<1> QED  BY <1>2, <1>3

-----------------------------------------------------------------------------
(* The finalizer.                                                           *)

(* A step of the finalizer with the stream it completes. *)
LEMMA FinKeeps ==
  ASSUME SInv, fin.stream \in Streams, NEW q \in Records, Completing,
         q.payload = streams[fin.stream].payload,
         streams' = [streams EXCEPT ![fin.stream] = q],
         reply' = reply, made' = made, sent' = sent, faults' \in Nat,
         current' \in {current, 0}, fin' \in Finalizers, fin'.stream = fin.stream,
         answer' \in Seq(Parts), left' \in Nat, fin'.phase # "streaming",
         fin'.phase \in {"persisting", "rollback"} => mode = "draft",
         fin'.phase = "cleanup" => mode = "edit",
         fin'.phase \in {"persisting", "rollback", "streamed"} /\ mode = "draft" =>
           fin'.version \in Versions /\ fin'.version \in Final..sent,
         StreamOK(reply, q) \/ fin'.phase = "cleanup",
         mode = "edit" => Awaiting(reply, fin'.phase, q),
         Answered'
  PROVE  SInv'
<1>0. /\ streams \in [Streams -> Records] /\ fin.stream # 0
      /\ streams[fin.stream].payload # 0
  BY DEF SInv, Typed, Streams, FinPhase
<1>1. Typed'
  BY <1>0 DEF SInv, Typed
<1>2. FinPhase'
  BY <1>0 DEF SInv, FinPhase, Typed, Completing
<1>3. StreamsOK'
  BY <1>0 DEF SInv, StreamsOK
<1>4. Awaited'
  BY <1>0 DEF Awaited
<1>5. Numbered'
  BY <1>0 DEF SInv, Numbered, Completing
<1> QED  BY <1>1, <1>2, <1>3, <1>4, <1>5 DEF SInv

LEMMA CompletingStream ==
  ASSUME SInv, Completing
  PROVE  /\ fin.stream \in Streams /\ streams \in [Streams -> Records]
         /\ streams[fin.stream] \in Records /\ streams[fin.stream].payload # 0
         /\ fin \in Finalizers /\ answer \in Seq(Parts) /\ faults \in Nat
         /\ reply \in Replies /\ mode \in {"edit", "draft"} /\ left \in Nat
         /\ fin.phase # "cleanup" => StreamOK(reply, streams[fin.stream])
         /\ mode = "edit" => Awaiting(reply, fin.phase, streams[fin.stream])
BY InSpan DEF SInv, Typed, FinPhase, Finalizers, StreamsOK, Awaited

LEMMA CleanedOK ==
  ASSUME NEW r \in Records, r.payload # 0, NEW m, r.payload \in Span(m),
         m.mode = "edit" \/ m.mode = "draft",
         m.mode = "edit" => r.phase = "idle",
         Turned(m, r), Flushing(m, r)
  PROVE  LET q == Cancelled(Cleaned(r)) IN
         /\ q \in Records /\ q.payload = r.payload /\ q.shown = <<>> /\ StreamOK(m, q)
         /\ r.phase = "idle" /\ r.pending = 0 => Quiet(q)
<1> DEFINE p == Cleaned(r)
           q == Cancelled(p)
<1>1. <<>> \in Seq(Parts) /\ <<>> \in Seq(Parts \cup {Gone}) /\ Len(<<>>) = 0
  BY EmptySeq
<1>2. /\ p \in Records /\ p.payload = r.payload /\ p.sigs = <<>> /\ p.shown = <<>>
      /\ p.phase = r.phase /\ p.pending = r.pending /\ p.version = r.version
      /\ p.at = r.at /\ p.broken = r.broken /\ p.plain = r.plain
  BY <1>1 DEF Cleaned, Records
<1> HIDE DEF p
<1>3. /\ q \in Records /\ q.payload = r.payload /\ q.sigs = <<>> /\ q.shown = <<>>
      /\ q.phase = r.phase /\ q.pending = r.pending /\ q.version = r.version
      /\ q.at = r.at /\ q.broken = r.broken /\ q.plain = r.plain
      /\ q.cancelled /\ ~q.timer
  BY <1>2 DEF Cancelled, Records
<1> HIDE DEF q
<1>4. Goal(q) = Goal(r)
  BY <1>3 DEF Goal
<1>5. Kept(m, q)
  BY <1>1, <1>3 DEF Kept, Turned
<1>6. Flushing(m, q)
  BY <1>3, <1>4 DEF Flushing, Tracked
<1> QED  BY <1>3, <1>5, <1>6 DEF StreamOK, Quiet, q, p

(* cleanupBrokenStream: nothing is left to delete, or the deletions begin.   *)
LEMMA CleanupStep ==
  ASSUME SInv, Completing, fin.phase # "cleanup", Cleanup(streams[fin.stream]),
         mode = "edit" =>
           /\ Quiet(streams[fin.stream])
           /\ streams[fin.stream].broken \/ streams[fin.stream].cancelled
  PROVE  \E q \in Records :
           /\ streams' = [streams EXCEPT ![fin.stream] = q]
           /\ q.payload = streams[fin.stream].payload /\ StreamOK(reply, q)
           /\ current' \in {current, 0}
           /\ fin' \in Finalizers /\ fin'.stream = fin.stream /\ fin'.part = fin.part
           /\ fin'.phase \in {"sending", "cleanup"}
           /\ fin'.phase = "cleanup" => mode = "edit"
           /\ mode = "edit" => Awaiting(reply, fin'.phase, q)
<1> DEFINE r == streams[fin.stream]
<1>1. /\ fin.stream \in Streams /\ streams \in [Streams -> Records] /\ r \in Records
      /\ r.payload # 0 /\ fin \in Finalizers /\ mode \in {"edit", "draft"}
      /\ StreamOK(reply, r) /\ r.payload \in Span(reply)
  BY CompletingStream DEF StreamOK
<1>2. CASE mode = "draft" \/ r.sigs = <<>>
  <2> DEFINE q == Cancelled(Cleaned(r))
  <2>1. Close(Cleaned(r), "sending")
    BY <1>2 DEF Cleanup
  <2>2. /\ streams' = [streams EXCEPT ![fin.stream] = q] /\ current' = 0
        /\ fin' = [fin EXCEPT !.phase = "sending"]
    BY <2>1 DEF Close, Update
  <2>3. /\ q \in Records /\ q.payload = r.payload /\ q.shown = <<>> /\ StreamOK(reply, q)
        /\ mode = "edit" => Quiet(q)
    BY <1>1, CleanedOK DEF Quiet, StreamOK, Kept
  <2> HIDE DEF q
  <2>4. /\ fin' \in Finalizers /\ fin'.phase = "sending" /\ fin'.stream = fin.stream
        /\ fin'.part = fin.part
    BY <1>1, <2>2 DEF Finalizers, FinPhases
  <2>5. mode = "edit" => Awaiting(reply, fin'.phase, q)
    BY <2>3, <2>4 DEF Awaiting
  <2> QED  BY <1>1, <2>2, <2>3, <2>4, <2>5
<1>3. CASE ~(mode = "draft" \/ r.sigs = <<>>)
  <2>1. fin' = [fin EXCEPT !.phase = "cleanup"] /\ UNCHANGED <<streams, current>>
    BY <1>3 DEF Cleanup
  <2>2. /\ fin' \in Finalizers /\ fin'.phase = "cleanup" /\ fin'.stream = fin.stream
        /\ fin'.part = fin.part
    BY <1>1, <2>1 DEF Finalizers, FinPhases
  <2>3. streams' = [streams EXCEPT ![fin.stream] = r]
    BY <1>1, <2>1
  <2>4. Awaiting(reply, fin'.phase, r)
    BY <1>1, <1>3, <2>2 DEF Awaiting, StreamOK, Kept
  <2> QED  BY <1>1, <1>3, <2>1, <2>2, <2>3, <2>4
<1> QED  BY <1>2, <1>3

(* The finalizer begins to send with nothing sent. *)
LEMMA NothingSent ==
  ASSUME SInv, reply' = reply, answer' = <<>>, fin'.part = 0,
         fin'.phase \in {"sending", "cleanup", "flushing", "waiting"},
         fin'.phase \in {"flushing", "waiting"} => left' = 0
  PROVE  Answered'
<1>1. Len(Rendered[Final]) \in Nat \ {0} /\ Len(<<>>) = 0
  BY InSpan, TextParts DEF Text, SInv, Typed
<1> QED  BY <1>1 DEF Answered, Prefix

LEMMA WaitedKeeps ==
  ASSUME SInv, Waited
  PROVE  SInv'
<1> DEFINE r == streams[fin.stream]
<1>0. Completing
  BY DEF Waited, Completing
<1>1. /\ fin.stream \in Streams /\ streams \in [Streams -> Records] /\ r \in Records
      /\ r.payload # 0 /\ fin \in Finalizers /\ answer \in Seq(Parts) /\ faults \in Nat
      /\ mode \in {"edit", "draft"} /\ fin.phase = "waiting"
      /\ StreamOK(reply, r) /\ (mode = "edit" => Awaiting(reply, "waiting", r))
      /\ UNCHANGED <<reply, made, sent, answer, left, faults>>
      /\ answer = <<>> /\ fin.part = 0 /\ r.awaited = 0 /\ left = 0
      /\ r.payload \in Span(reply)
  BY <1>0, CompletingStream DEF Waited, SInv, Answered, StreamOK
<1>2. mode = "edit" => Quiet(r) /\ r.payload = Final /\ r.pending = 0
  BY <1>1 DEF Awaiting, Quiet, Running, Records
<1>3. CASE r.broken
  <2>1. Cleanup(r)
    BY <1>3 DEF Waited
  <2>2. PICK q \in Records :
           /\ streams' = [streams EXCEPT ![fin.stream] = q]
           /\ q.payload = streams[fin.stream].payload /\ StreamOK(reply, q)
           /\ current' \in {current, 0}
           /\ fin' \in Finalizers /\ fin'.stream = fin.stream /\ fin'.part = fin.part
           /\ fin'.phase \in {"sending", "cleanup"}
           /\ fin'.phase = "cleanup" => mode = "edit"
           /\ mode = "edit" => Awaiting(reply, fin'.phase, q)
    BY <1>0, <1>1, <1>2, <1>3, <2>1, CleanupStep
  <2>3. Answered'
    BY <1>1, <2>2, NothingSent
  <2> QED  BY <1>0, <1>1, <2>2, <2>3, FinKeeps
<1>4. CASE ~r.broken /\ r.sigs = <<>>
  <2> DEFINE q == Cancelled(r)
  <2>1. /\ streams' = [streams EXCEPT ![fin.stream] = q] /\ current' = 0
        /\ fin' = [fin EXCEPT !.phase = "sending"]
    BY <1>4 DEF Waited, Close, Update
  <2>2. /\ q \in Records /\ q.payload = r.payload /\ ~q.timer /\ q.shown = r.shown
        /\ q.phase = r.phase /\ q.pending = r.pending /\ StreamOK(reply, q)
    BY <1>1, CancelledOK
  <2> HIDE DEF q
  <2>3. q.shown = <<>>
    <3>1. Len(r.shown) = 0 /\ r.shown \in Seq(Parts \cup {Gone})
      BY <1>1, <1>4, EmptySeq DEF StreamOK, Kept, Records
    <3> QED  BY <2>2, <3>1, EmptySeq
  <2>4. /\ fin' \in Finalizers /\ fin'.phase = "sending" /\ fin'.stream = fin.stream
        /\ fin'.part = 0
    BY <1>1, <2>1 DEF Finalizers, FinPhases
  <2>5. mode = "edit" => Awaiting(reply, fin'.phase, q)
    BY <1>2, <2>2, <2>3, <2>4 DEF Awaiting, Quiet
  <2>6. Answered'
    BY <1>1, <2>4, NothingSent
  <2> QED  BY <1>0, <1>1, <2>1, <2>2, <2>4, <2>5, <2>6, FinKeeps
<1>5. CASE ~r.broken /\ r.sigs # <<>>
  <2> DEFINE n == r.pending + 1
             k == r.pending + Running(r) + 1
             q == [r EXCEPT !.pending = n, !.awaited = k]
  <2>1. /\ streams' = [streams EXCEPT ![fin.stream] = q] /\ current' = current
        /\ fin' = [fin EXCEPT !.phase = "flushing"]
    <3>1. q = [r EXCEPT !.pending = @ + 1, !.awaited = r.pending + Running(r) + 1]
      BY <1>1 DEF Records
    <3> QED  BY <1>5, <3>1 DEF Waited, Update
  <2>2. n \in Nat /\ k \in Nat /\ (mode = "edit" => n = 1 /\ k = 1)
    BY <1>1, <1>2 DEF Records, Running, Quiet
  <2> HIDE DEF n, k
  <2>3. /\ q \in Records /\ q.payload = r.payload /\ q.sigs = r.sigs /\ q.shown = r.shown
        /\ q.phase = r.phase /\ q.version = r.version /\ q.at = r.at /\ q.broken = r.broken
        /\ q.plain = r.plain /\ q.cancelled = r.cancelled /\ q.timer = r.timer
        /\ q.pending = n /\ q.awaited = k
    BY <1>1, <2>2 DEF Records
  <2> HIDE DEF q
  <2>4. StreamOK(reply, q)
    BY <1>1, <2>3, SameRecord DEF Tracked
  <2>5. /\ fin' \in Finalizers /\ fin'.phase = "flushing" /\ fin'.stream = fin.stream
        /\ fin'.part = 0
    BY <1>1, <2>1 DEF Finalizers, FinPhases
  <2>6. mode = "edit" => Awaiting(reply, fin'.phase, q)
    BY <1>2, <2>2, <2>3, <2>5 DEF Awaiting, Quiet, Running
  <2>7. Answered'
    BY <1>1, <2>5, NothingSent
  <2> QED  BY <1>0, <1>1, <2>1, <2>3, <2>4, <2>5, <2>6, <2>7, FinKeeps
<1> QED  BY <1>3, <1>4, <1>5

LEMMA FlushedKeeps ==
  ASSUME SInv, Flushed
  PROVE  SInv'
<1> DEFINE r == streams[fin.stream]
<1>0. Completing
  BY DEF Flushed, Completing
<1>1. /\ fin.stream \in Streams /\ streams \in [Streams -> Records] /\ r \in Records
      /\ r.payload # 0 /\ fin \in Finalizers /\ answer \in Seq(Parts) /\ faults \in Nat
      /\ mode \in {"edit", "draft"} /\ fin.phase = "flushing"
      /\ StreamOK(reply, r) /\ (mode = "edit" => Awaiting(reply, "flushing", r))
      /\ UNCHANGED <<reply, made, sent, answer, left, faults>>
      /\ answer = <<>> /\ fin.part = 0 /\ r.awaited = 0 /\ left = 0
      /\ reply \in Replies /\ r.payload >= Final /\ r.payload <= sent
  BY <1>0, CompletingStream DEF Flushed, SInv, Answered, Numbered
<1>2. mode = "edit" => /\ Quiet(r)
                       /\ IF r.ok THEN ~r.broken /\ r.sigs = Text(Final, r.plain)
                                  ELSE r.broken \/ r.cancelled
  BY <1>1 DEF Awaiting, Quiet, Running, Records
<1>3. CASE ~r.ok
  <2>1. Cleanup(r)
    BY <1>3 DEF Flushed
  <2>2. PICK q \in Records :
           /\ streams' = [streams EXCEPT ![fin.stream] = q]
           /\ q.payload = streams[fin.stream].payload /\ StreamOK(reply, q)
           /\ current' \in {current, 0}
           /\ fin' \in Finalizers /\ fin'.stream = fin.stream /\ fin'.part = fin.part
           /\ fin'.phase \in {"sending", "cleanup"}
           /\ fin'.phase = "cleanup" => mode = "edit"
           /\ mode = "edit" => Awaiting(reply, fin'.phase, q)
    BY <1>0, <1>1, <1>2, <1>3, <2>1, CleanupStep
  <2>3. Answered'
    BY <1>1, <2>2, NothingSent
  <2> QED  BY <1>0, <1>1, <2>2, <2>3, FinKeeps
<1>4. CASE r.ok /\ mode = "edit"
  <2> DEFINE q == Cancelled(r)
  <2>1. /\ streams' = [streams EXCEPT ![fin.stream] = q] /\ current' = 0
        /\ fin' = [fin EXCEPT !.phase = "streamed"]
    BY <1>4 DEF Flushed, Close, Update
  <2>2. /\ q \in Records /\ q.payload = r.payload /\ ~q.timer /\ q.shown = r.shown
        /\ q.phase = r.phase /\ q.pending = r.pending /\ StreamOK(reply, q)
    BY <1>1, CancelledOK
  <2> HIDE DEF q
  <2>3. q.shown \in Forms(Final)
    <3>1. r.shown = r.sigs
      BY <1>1, <1>2, <1>4, InSpan, MatchIsShown DEF StreamOK
    <3> QED  BY <1>2, <1>4, <2>2, <3>1 DEF Text, Forms
  <2>4. /\ fin' \in Finalizers /\ fin'.phase = "streamed" /\ fin'.stream = fin.stream
        /\ fin'.part = 0
    BY <1>1, <2>1 DEF Finalizers, FinPhases
  <2>5. Awaiting(reply, fin'.phase, q)
    BY <1>2, <1>4, <2>2, <2>3, <2>4 DEF Awaiting, Quiet
  <2>6. Answered'
    BY <1>1, <1>4, <2>4 DEF Answered
  <2> QED  BY <1>0, <1>1, <1>4, <2>1, <2>2, <2>4, <2>5, <2>6, FinKeeps
<1>5. CASE r.ok /\ mode = "draft"
  <2>1. /\ fin' = [fin EXCEPT !.phase = "persisting", !.version = r.payload, !.plain = r.plain]
        /\ streams' = streams /\ current' = current
    BY <1>5 DEF Flushed
  <2>2. streams' = [streams EXCEPT ![fin.stream] = r]
    BY <1>1, <2>1
  <2>3. r.payload \in Versions /\ r.plain \in BOOLEAN
    BY <1>1 DEF Records
  <2>4. /\ fin' \in Finalizers /\ fin'.phase = "persisting" /\ fin'.stream = fin.stream
        /\ fin'.part = 0 /\ fin'.version = r.payload /\ fin'.plain = r.plain
    BY <1>1, <2>1, <2>3 DEF Finalizers, FinPhases
  <2>5. Answered'
    <3>1. Len(Text(r.payload, r.plain)) \in Nat \ {0} /\ Len(<<>>) = 0
      BY <2>3, TextParts
    <3> QED  BY <1>1, <1>5, <2>4, <3>1 DEF Answered, Prefix
  <2>6. fin'.version \in Final..sent
    BY <1>1, <2>3, <2>4, InSpan DEF SInv, Typed
  <2> QED  BY <1>0, <1>1, <1>5, <2>1, <2>2, <2>3, <2>4, <2>5, <2>6, FinKeeps
<1> QED  BY <1>1, <1>3, <1>4, <1>5

(* One more part of a text that is sent in order. *)
LEMMA NextPart ==
  ASSUME NEW S, NEW a \in Seq(S), NEW g \in Seq(S), Prefix(a, g), Len(a) < Len(g)
  PROVE  LET b == Append(a, g[Len(a) + 1]) IN
         /\ b \in Seq(S) /\ Len(b) = Len(a) + 1 /\ Prefix(b, g)
         /\ Len(b) = Len(g) => b = g
<1> DEFINE b == Append(a, g[Len(a) + 1])
<1>1. Len(a) \in Nat /\ Len(g) \in Nat
  BY LenProperties
<1>2. g[Len(a) + 1] \in S
  BY <1>1, ElementOfSeq
<1>3. /\ b \in Seq(S) /\ Len(b) = Len(a) + 1 /\ b[Len(a) + 1] = g[Len(a) + 1]
      /\ \A i \in 1..Len(a) : b[i] = a[i]
  BY <1>2, AppendProperties
<1> HIDE DEF b
<1>4. Prefix(b, g)
  BY <1>1, <1>3 DEF Prefix
<1>5. Len(b) = Len(g) => b = g
  BY <1>3, <1>4, SeqEqual DEF Prefix
<1> QED  BY <1>3, <1>4, <1>5 DEF b

LEMMA PersistKeeps ==
  ASSUME SInv, Persist
  PROVE  SInv'
<1> DEFINE r == streams[fin.stream]
           goal == Text(fin.version, fin.plain)
<1>0. Completing
  BY DEF Persist, Completing
<1>1. /\ fin.stream \in Streams /\ streams \in [Streams -> Records] /\ r \in Records
      /\ r.payload # 0 /\ fin \in Finalizers /\ answer \in Seq(Parts) /\ faults \in Nat
      /\ fin.phase = "persisting" /\ mode = "draft" /\ StreamOK(reply, r)
      /\ UNCHANGED <<reply, made, sent, left>> /\ fin.part = 0 /\ left = 0
      /\ fin.version \in Versions /\ Prefix(answer, goal) /\ Len(answer) < Len(goal)
      /\ fin.version \in Final..sent
  BY <1>0, CompletingStream DEF Persist, SInv, FinPhase, Answered, Numbered
<1>2. goal \in Seq(Parts)
  BY <1>1, TextParts DEF Finalizers
<1>3. CASE /\ NoFault /\ answer' = Append(answer, goal[Len(answer) + 1])
           /\ IF Len(answer') = Len(goal) THEN Close(r, "streamed")
              ELSE UNCHANGED <<fin, streams, current>>
  <2>1. /\ answer' \in Seq(Parts) /\ Len(answer') = Len(answer) + 1 /\ Prefix(answer', goal)
        /\ Len(answer') = Len(goal) => answer' = goal
    BY <1>1, <1>2, <1>3, NextPart
  <2>2. faults' \in Nat
    BY <1>1, <1>3 DEF NoFault
  <2>3. CASE Len(answer') = Len(goal)
    <3> DEFINE q == Cancelled(r)
    <3>1. /\ streams' = [streams EXCEPT ![fin.stream] = q] /\ current' = 0
          /\ fin' = [fin EXCEPT !.phase = "streamed"]
      BY <1>3, <2>3 DEF Close, Update
    <3>2. q \in Records /\ q.payload = r.payload /\ StreamOK(reply, q)
      BY <1>1, CancelledOK
    <3> HIDE DEF q
    <3>3. /\ fin' \in Finalizers /\ fin'.phase = "streamed" /\ fin'.stream = fin.stream
          /\ fin'.part = 0 /\ fin'.version = fin.version /\ fin'.plain = fin.plain
      BY <1>1, <3>1 DEF Finalizers, FinPhases
    <3>4. Answered'
      BY <1>1, <2>1, <2>3, <3>3 DEF Answered
    <3> QED  BY <1>0, <1>1, <2>1, <2>2, <3>1, <3>2, <3>3, <3>4, FinKeeps
  <2>4. CASE Len(answer') # Len(goal)
    <3>1. UNCHANGED <<fin, streams, current>>
      BY <1>3, <2>4
    <3>2. streams' = [streams EXCEPT ![fin.stream] = r]
      BY <1>1, <3>1
    <3>3. Answered'
      <4>1. Len(answer') < Len(goal)
        BY <1>1, <1>2, <2>1, <2>4, LenProperties DEF Prefix
      <4> QED  BY <1>1, <2>1, <3>1, <4>1 DEF Answered
    <3> QED  BY <1>0, <1>1, <2>1, <2>2, <3>1, <3>2, <3>3, FinKeeps
  <2> QED  BY <2>3, <2>4
<1>4. CASE /\ Fault /\ fin' = [fin EXCEPT !.phase = "rollback"]
           /\ UNCHANGED <<answer, streams, current>>
  <2>1. /\ fin' \in Finalizers /\ fin'.phase = "rollback" /\ fin'.stream = fin.stream
        /\ fin'.part = 0 /\ fin'.version = fin.version
    BY <1>1, <1>4 DEF Finalizers, FinPhases
  <2>2. streams' = [streams EXCEPT ![fin.stream] = r] /\ faults' \in Nat
    BY <1>1, <1>4 DEF Fault
  <2>3. Answered'
    BY <2>1 DEF Answered
  <2> QED  BY <1>0, <1>1, <1>4, <2>1, <2>2, <2>3, FinKeeps
<1> QED  BY <1>3, <1>4 DEF Persist

LEMMA RollbackKeeps ==
  ASSUME SInv, Rollback
  PROVE  SInv'
<1> DEFINE r == streams[fin.stream]
<1>0. Completing
  BY DEF Rollback, Completing
<1>1. /\ fin.stream \in Streams /\ streams \in [Streams -> Records] /\ r \in Records
      /\ r.payload # 0 /\ fin \in Finalizers /\ answer \in Seq(Parts) /\ faults \in Nat
      /\ fin.phase = "rollback" /\ mode = "draft" /\ StreamOK(reply, r)
      /\ UNCHANGED <<reply, made, sent, faults>> /\ fin.part = 0 /\ fin.version \in Versions
      /\ left' \in Nat /\ fin.version \in Final..sent
  BY <1>0, CompletingStream DEF Rollback, Deletion, SInv, FinPhase, Answered, Numbered
<1>2. CASE answer = <<>>
  <2>1. Cleanup(r) /\ answer' = <<>>
    BY <1>2 DEF Rollback
  <2>2. PICK q \in Records :
           /\ streams' = [streams EXCEPT ![fin.stream] = q]
           /\ q.payload = streams[fin.stream].payload /\ StreamOK(reply, q)
           /\ current' \in {current, 0}
           /\ fin' \in Finalizers /\ fin'.stream = fin.stream /\ fin'.part = fin.part
           /\ fin'.phase \in {"sending", "cleanup"}
           /\ fin'.phase = "cleanup" => mode = "edit"
           /\ mode = "edit" => Awaiting(reply, fin'.phase, q)
    BY <1>0, <1>1, <2>1, CleanupStep
  <2>3. Answered'
    BY <1>1, <2>1, <2>2, NothingSent
  <2> QED  BY <1>0, <1>1, <1>2, <2>1, <2>2, <2>3, FinKeeps
<1>3. CASE answer # <<>>
  <2>1. answer' = Front(answer) /\ UNCHANGED <<fin, streams, current>>
    BY <1>3 DEF Rollback
  <2>2. answer' \in Seq(Parts)
    BY <1>1, <2>1, FrontOf
  <2>3. streams' = [streams EXCEPT ![fin.stream] = r]
    BY <1>1, <2>1
  <2>4. Answered'
    BY <1>1, <2>1 DEF Answered
  <2> QED  BY <1>0, <1>1, <2>1, <2>2, <2>3, <2>4, FinKeeps
<1> QED  BY <1>2, <1>3

LEMMA DeleteKeeps ==
  ASSUME SInv, Delete
  PROVE  SInv'
<1> DEFINE r == streams[fin.stream]
<1>0. Completing
  BY DEF Delete, Completing
<1>1. /\ fin.stream \in Streams /\ streams \in [Streams -> Records] /\ r \in Records
      /\ r.payload # 0 /\ fin \in Finalizers /\ answer \in Seq(Parts) /\ faults \in Nat
      /\ fin.phase = "cleanup" /\ mode = "edit" /\ Awaiting(reply, "cleanup", r)
      /\ UNCHANGED <<reply, made, sent, answer, faults>> /\ fin.part = 0 /\ answer = <<>>
      /\ left' \in Nat
  BY <1>0, CompletingStream DEF Delete, Deletion, SInv, FinPhase, Answered
<1>2. /\ Quiet(r) /\ (r.broken \/ r.cancelled) /\ Turned(reply, r)
      /\ r.payload \in Span(reply)
  BY <1>1 DEF Awaiting
<1>3. CASE r.shown # <<>>
  <2> DEFINE shown == Front(r.shown)
             q == [r EXCEPT !.shown = shown]
  <2>1. /\ streams' = [streams EXCEPT ![fin.stream] = q] /\ UNCHANGED <<fin, current>>
    <3>1. q = [r EXCEPT !.shown = Front(@)]
      BY <1>1 DEF Records
    <3> QED  BY <1>3, <3>1 DEF Delete, Update
  <2>2. shown \in Seq(Parts \cup {Gone})
    BY <1>1, FrontOf DEF Records
  <2> HIDE DEF shown
  <2>3. /\ q \in Records /\ q.payload = r.payload /\ q.pending = r.pending
        /\ q.phase = r.phase /\ q.timer = r.timer /\ q.broken = r.broken
        /\ q.cancelled = r.cancelled /\ q.plain = r.plain
    BY <1>1, <2>2 DEF Records
  <2> HIDE DEF q
  <2>4. Awaiting(reply, "cleanup", q)
    BY <1>2, <2>3 DEF Awaiting, Quiet, Turned
  <2>5. Answered'
    BY <1>1, <2>1 DEF Answered
  <2> QED  BY <1>0, <1>1, <2>1, <2>3, <2>4, <2>5, FinKeeps
<1>4. CASE r.shown = <<>>
  <2> DEFINE q == Cancelled(Cleaned(r))
  <2>1. /\ streams' = [streams EXCEPT ![fin.stream] = q] /\ current' = 0
        /\ fin' = [fin EXCEPT !.phase = "sending"]
    BY <1>4 DEF Delete, Close, Update
  <2>2. /\ q \in Records /\ q.payload = r.payload /\ q.shown = <<>> /\ StreamOK(reply, q)
        /\ Quiet(q)
    <3>1. Flushing(reply, r)
      BY <1>2 DEF Flushing, Quiet
    <3> QED  BY <1>1, <1>2, <3>1, CleanedOK DEF Quiet
  <2> HIDE DEF q
  <2>3. /\ fin' \in Finalizers /\ fin'.phase = "sending" /\ fin'.stream = fin.stream
        /\ fin'.part = 0
    BY <1>1, <2>1 DEF Finalizers, FinPhases
  <2>4. Awaiting(reply, fin'.phase, q)
    BY <2>2, <2>3 DEF Awaiting
  <2>5. Answered'
    BY <1>1, <2>3, NothingSent
  <2> QED  BY <1>0, <1>1, <2>1, <2>2, <2>3, <2>4, <2>5, FinKeeps
<1> QED  BY <1>3, <1>4

LEMMA SendKeeps ==
  ASSUME SInv, Send
  PROVE  SInv'
<1> DEFINE goal == Rendered[Final]
<1>1. /\ fin \in Finalizers /\ fin.phase = "sending" /\ answer \in Seq(Parts) /\ faults \in Nat
      /\ fin.part = Len(answer) /\ Len(answer) < Len(goal) /\ Prefix(answer, goal)
      /\ UNCHANGED <<reply, streams, made, current, sent, left>>
  BY DEF SInv, Typed, Answered, Send
<1>2. goal \in Seq(Parts) /\ Len(goal) \in Nat \ {0}
  BY InSpan, TextParts DEF Text, SInv, Typed
<1>3. Len(answer) \in Nat
  BY <1>1, LenProperties
<1>4. /\ fin' \in Finalizers /\ answer' \in Seq(Parts) /\ faults' \in Nat
      /\ fin'.phase \in {"sending", "sent", "dropped"} /\ fin'.stream = fin.stream
      /\ Answered'
  <2>1. CASE /\ NoFault /\ answer' = Append(answer, goal[fin.part + 1])
             /\ fin' = [fin EXCEPT !.part = fin.part + 1,
                                   !.phase = IF fin.part + 1 = Len(goal) THEN "sent" ELSE @]
    <3>1. /\ answer' \in Seq(Parts) /\ Len(answer') = Len(answer) + 1 /\ Prefix(answer', goal)
          /\ Len(answer') = Len(goal) => answer' = goal
      BY <1>1, <1>2, <2>1, NextPart
    <3> DEFINE next == fin.part + 1
               phase == IF next = Len(goal) THEN "sent" ELSE "sending"
    <3>2. fin' = [fin EXCEPT !.part = next, !.phase = phase] /\ next \in Nat
      BY <1>1, <1>3, <2>1 DEF Finalizers
    <3>3. next = Len(answer')
      BY <1>1, <3>1
    <3> HIDE DEF next
    <3>4. /\ fin' \in Finalizers /\ fin'.phase = phase /\ fin'.stream = fin.stream
          /\ fin'.part = next
      BY <1>1, <3>2 DEF Finalizers, FinPhases
    <3>5. Answered'
      <4>1. CASE next = Len(goal)
        BY <1>1, <3>1, <3>3, <3>4, <4>1 DEF Answered
      <4>2. CASE next # Len(goal)
        <5>1. Len(answer') < Len(goal)
          BY <1>2, <1>3, <3>1, <3>3, <4>2 DEF Prefix
        <5> QED  BY <1>1, <3>1, <3>3, <3>4, <4>2, <5>1 DEF Answered
      <4> QED  BY <4>1, <4>2
    <3> QED  BY <1>1, <2>1, <3>1, <3>4, <3>5 DEF NoFault
  <2>2. CASE Fault /\ UNCHANGED answer /\ fin' = [fin EXCEPT !.phase = "dropped"]
    <3>1. fin' \in Finalizers /\ fin'.phase = "dropped" /\ fin'.stream = fin.stream
      BY <1>1, <2>2 DEF Finalizers, FinPhases
    <3> QED  BY <1>1, <2>2, <3>1 DEF Answered, Fault
  <2> QED  BY <2>1, <2>2 DEF Send
<1>5. Typed'
  BY <1>1, <1>4 DEF SInv, Typed
<1>6. FinPhase'
  BY <1>1, <1>4 DEF SInv, FinPhase, Completing
<1>7. StreamsOK'
  BY <1>1, <1>4 DEF SInv, StreamsOK
<1>8. Awaited'
  <2> SUFFICES ASSUME mode = "edit", fin.stream # 0
               PROVE  Awaiting(reply, fin'.phase, streams[fin.stream])
    BY <1>1, <1>4 DEF Awaited
  <2>1. Awaiting(reply, "sending", streams[fin.stream])
    BY <1>1 DEF SInv, Awaited
  <2> QED  BY <1>4, <2>1 DEF Awaiting
<1>9. Numbered'
  BY <1>1, <1>4 DEF SInv, Numbered, Completing
<1> QED  BY <1>4, <1>5, <1>6, <1>7, <1>8, <1>9 DEF SInv

-----------------------------------------------------------------------------
(* The theorems.                                                            *)

LEMMA InitInv == Init => SInv
<1> SUFFICES ASSUME Init PROVE SInv
  OBVIOUS
<1>1. Fresh \in Records /\ \A m : StreamOK(m, Fresh)
  BY FreshOK
<1>2. <<>> \in Seq(Parts)
  BY EmptySeq
<1>3. /\ reply \in Replies /\ reply.first \in Nat \ {0} /\ Final \in Nat
      /\ reply.first <= Final /\ sent = reply.first - 1
  <2>1. reply \in Replies /\ sent = reply.first - 1
    BY DEF Init
  <2>2. reply.first \in Versions /\ reply.last \in Versions
    BY <2>1, RepliesAssumption DEF RepliesAssumption
  <2>3. Final \in reply.first..reply.last /\ Final \in Nat
    BY <2>1, InSpan DEF Span
  <2>4. reply.first \in Nat \ {0} /\ reply.last \in Nat
    BY <2>2, VersionsAssumption DEF VersionsAssumption
  <2> QED  BY <2>1, <2>3, <2>4
<1>4. Typed
  BY <1>1, <1>2, <1>3 DEF Init, Typed, Started, Finalizers, FinPhases
<1>5. FinPhase /\ Answered /\ Awaited
  BY DEF Init, Started, FinPhase, Answered, Awaited, Completing
<1>6. StreamsOK
  BY <1>1 DEF Init, StreamsOK
<1>7. Numbered
  BY <1>3 DEF Init, Started, Fresh, Numbered, Completing
<1> QED  BY <1>4, <1>5, <1>6, <1>7 DEF SInv

LEMMA StepInv == SInv /\ [Next]_vars => SInv'
<1> SUFFICES ASSUME SInv, [Next]_vars PROVE SInv'
  OBVIOUS
<1>1. ASSUME NEW v \in Versions, Enqueue(v) PROVE SInv'
  BY <1>1, EnqueueKeeps
<1>2. ASSUME NEW s \in Streams, Sync(s) PROVE SInv'
  BY <1>2, SyncKeeps
<1>3. ASSUME NEW s \in Streams, Tick(s) PROVE SInv'
  BY <1>3, TickKeeps
<1>4. CASE Clear
  BY <1>4, ClearKeeps
<1>5. CASE Complete
  BY <1>5, CompleteKeeps
<1>6. CASE Finalize
  BY <1>6, WaitedKeeps, FlushedKeeps, PersistKeeps, RollbackKeeps, DeleteKeeps, SendKeeps
     DEF Finalize
<1>7. CASE UNCHANGED vars
  BY <1>7 DEF vars, SInv, Typed, FinPhase, Answered, StreamsOK, Awaited, Numbered, Completing
<1> QED  BY <1>1, <1>2, <1>3, <1>4, <1>5, <1>6, <1>7 DEF Next

LEMMA StreamInvariant == StreamSpec => []SInv
BY InitInv, StepInv, PTL DEF StreamSpec

(* What a flush skips as unchanged is what the messages show, for any        *)
(* number of streams, of versions and parts of the text and of calls that    *)
(* lost their answers, and for native and raw texts that follow each other   *)
(* in a draft; there a raw part may be skipped while the draft shows a       *)
(* native one, and nothing else (flushState, syncMessages).                 *)
THEOREM SkippedIsShown == StreamSpec => []SkipIsSound
<1>1. SInv => SkipIsSound
  <2> SUFFICES ASSUME SInv, NEW s \in Streams, streams[s].payload # 0, ~streams[s].broken,
                      ~streams[s].cancelled,
                      streams[s].sigs = Text(streams[s].payload, streams[s].plain)
               PROVE  Shows(streams[s])
    BY DEF SkipIsSound, UpToDate
  <2>1. streams[s] \in Records /\ reply \in Replies
    BY DEF SInv, Typed
  <2>2. StreamOK(reply, streams[s])
    <3>1. ASSUME fin.phase = "cleanup", s = fin.stream PROVE FALSE
      <4>1. mode = "edit" /\ fin.stream # 0
        BY <3>1 DEF SInv, FinPhase, Completing
      <4> QED  BY <3>1, <4>1 DEF SInv, Awaited, Awaiting
    <3> QED  BY <3>1 DEF SInv, StreamsOK
  <2> QED  BY <2>1, <2>2, MatchIsShown DEF StreamOK
<1> QED  BY <1>1, StreamInvariant, PTL

(* When the finalizer is done, the answer is in the chat once: shown by the  *)
(* messages of the stream; or persisted from the draft, in the final text or *)
(* in one of the next message that came into the draft after it; or sent by  *)
(* the finalizer, beside at most those messages whose deletion failed        *)
(* (complete, cleanupBrokenStream, finalizeAssistantResponse).              *)
THEOREM AnsweredOnce == StreamSpec => []AnswerOnce
<1>1. SInv => AnswerOnce
  <2> SUFFICES ASSUME SInv PROVE AnswerOnce
    OBVIOUS
  <2>1. fin.phase = "streamed" => fin.stream # 0
    BY DEF SInv, FinPhase
  <2>2. fin.phase = "streamed" /\ mode = "edit" =>
          answer = <<>> /\ left = 0 /\ streams[fin.stream].shown \in Forms(Final)
    BY <2>1 DEF SInv, Answered, Awaited, Awaiting
  <2>3. fin.phase = "streamed" /\ mode = "draft" =>
          /\ answer = Text(fin.version, fin.plain) /\ left = 0
          /\ fin.version \in Final..sent
    BY DEF SInv, Answered, Numbered
  <2>4. fin.phase \in {"sending", "sent"} /\ mode = "edit" /\ fin.stream # 0 =>
          streams[fin.stream].shown = <<>>
    BY DEF SInv, Awaited, Awaiting
  <2>5. fin.phase = "sent" => answer = Rendered[Final]
    BY DEF SInv, Answered
  <2> QED  BY <2>2, <2>3, <2>4, <2>5 DEF AnswerOnce
<1> QED  BY <1>1, StreamInvariant, PTL

=============================================================================
