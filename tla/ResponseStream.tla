--------------------------- MODULE ResponseStream ---------------------------
(***************************************************************************)
(* One answer of the assistant on its way to Telegram: the partial texts     *)
(* that a ResponseStreamer shows while they grow (response-streamer.ts), and *)
(* the finalizer that completes the stream, or sends the answer itself when  *)
(* nothing usable was streamed (finalize-assistant-response.ts, called by    *)
(* the completion task of event-subscription-service.ts).                    *)
(*                                                                         *)
(* In mode "edit" the partial texts are messages that are edited in place;   *)
(* in mode "draft" they are native drafts, which vanish, and the finalizer   *)
(* persists the text as new messages.  A text is a sequence of parts, each   *)
(* one message; Rendered gives the parts of a version of the text, native    *)
(* blocks or raw text, and Plain the ones it is re-chunked to as plain text, *)
(* which leaves raw text as it is.  A call to Telegram starts in one step and *)
(* settles in a later one: it takes effect, is refused, is rate limited, or  *)
(* takes effect and loses its answer.                                        *)
(***************************************************************************)
EXTENDS Naturals, Sequences, SequencesExt, FiniteSetsExt

CONSTANTS Rendered,     \* the parts of each version of a text
          Plain,        \* the same versions as plain text
          Replies,      \* the replies: their streaming mode and versions
          Gone,         \* a tracked message that is no longer in the chat
          MaxStreams,   \* bound: streams started for this answer
          MaxRetries,   \* MAX_STREAM_SYNC_RATE_LIMIT_RETRIES
          MaxFaults     \* bound: calls that fail, other than flushes by a rate
                        \* limit and deletions

Versions == DOMAIN Rendered
Streams == 1..MaxStreams
Forms(v) == {Rendered[v], Plain[v]}
Native(v) == Rendered[v] # Plain[v]
NativeParts == UNION {Range(Rendered[v]) : v \in {w \in Versions : Native(w)}}
RawParts == UNION {Range(Rendered[v]) : v \in {w \in Versions : ~Native(w)}}
PlainParts == UNION {Range(Plain[v]) : v \in Versions}
Parts == NativeParts \cup PlainParts

(* the versions of a reply: partial texts, the completed text, and partial   *)
(* texts of the next message                                                *)
Span(p) == p.first..p.last

ASSUME VersionsAssumption == Versions \subseteq Nat \ {0} /\ DOMAIN Plain = Versions
ASSUME PartsAssumption == \A v \in Versions : Forms(v) \subseteq Seq(Parts) \ {<<>>}
ASSUME StreamBounds == {MaxStreams, MaxRetries, MaxFaults} \subseteq Nat
ASSUME RepliesAssumption ==
  /\ Replies \subseteq [mode : {"edit", "draft"}, first : Versions, final : Versions, last : Versions]
  /\ \A p \in Replies : Span(p) \subseteq Versions /\ p.final \in Span(p)

(* A signature names the form of its part (part-signature.ts).  The texts    *)
(* that a message in mode "edit" shows have the format of the settings, raw  *)
(* or native; a draft shows native thinking blocks beside either.           *)
ASSUME FormsAssumption ==
  /\ NativeParts \cap PlainParts = {}
  /\ \A p \in Replies : p.mode = "edit" =>
       \A v, w \in Span(p) : Native(v) <=> Native(w)

VARIABLES reply,     \* the reply that the run gives
          streams,   \* the StreamState objects created for it
          made,      \* how many there are
          current,   \* the one in the map of states; 0: none
          sent,      \* the last version enqueued
          fin,       \* the finalizer
          answer,    \* parts of the answer sent as messages by the finalizer
          left,      \* messages of the answer whose deletion failed
          faults

vars == <<reply, streams, made, current, sent, fin, answer, left, faults>>

mode == reply.mode
Final == reply.final

(***************************************************************************)
(* A stream: the latest payload, the signatures it believes delivered, what  *)
(* its messages really show, its timer, the flushes chained behind the one   *)
(* that runs, and of that one the version it syncs, the part whose call is   *)
(* in flight and its rate-limit retries.  `awaited` counts the flushes the   *)
(* finalizer waits for and `ok` is the result of the last of them.           *)
(***************************************************************************)
Fresh == [payload |-> 0, sigs |-> <<>>, shown |-> <<>>, timer |-> FALSE,
          pending |-> 0, phase |-> "idle", version |-> 0, at |-> 0, tries |-> 0,
          cancelled |-> FALSE, broken |-> FALSE, plain |-> FALSE,
          awaited |-> 0, ok |-> FALSE]

Started == [phase |-> "streaming", stream |-> 0, version |-> 0, plain |-> FALSE,
            part |-> 0]

Init ==
  /\ reply \in Replies
  /\ streams = [s \in Streams |-> Fresh]
  /\ made = 0 /\ current = 0 /\ sent = reply.first - 1
  /\ fin = Started /\ answer = <<>> /\ left = 0 /\ faults = 0

Update(s, r) == streams' = [streams EXCEPT ![s] = r]

-----------------------------------------------------------------------------
(* A flush: flushState and syncMessages up to their next await.             *)

Text(v, plain) == IF plain THEN Plain[v] ELSE Rendered[v]
Goal(r) == Text(r.version, r.plain)

(* The flush returns `ok` to whoever waits for it. *)
Ended(r, ok) ==
  [r EXCEPT !.phase = "idle", !.awaited = IF @ > 0 THEN @ - 1 ELSE 0,
            !.ok = IF r.awaited > 0 THEN ok ELSE @]

(* the part at i has no message yet, or one that shows something else *)
Outdated(r, i) == i > Len(r.sigs) \/ r.sigs[i] # Goal(r)[i]

(* The next call of syncMessages from part i on: a send or an edit, then the *)
(* deletion of surplus messages from the last one down.                      *)
Advance(r, i) ==
  LET todo == {j \in i..Len(Goal(r)) : Outdated(r, j)} IN
  IF todo # {} THEN [r EXCEPT !.phase = "sync", !.at = Min(todo)]
  ELSE IF Len(r.sigs) > Len(Goal(r)) THEN [r EXCEPT !.phase = "trim"]
  ELSE Ended(r, TRUE)

(* the head of the loop of flushState *)
Loop(r) ==
  LET next == [r EXCEPT !.version = r.payload] IN
  IF r.cancelled THEN Ended(r, FALSE)
  ELSE IF next.sigs = Goal(next) THEN Ended(r, r.sigs # <<>>)
  ELSE Advance(next, 1)

(* Mutant: the rich form is tried again. *)
Failed_Again(r) ==
  IF r.tries < MaxRetries /\ Native(r.version)
    THEN Loop([r EXCEPT !.tries = @ + 1])
    ELSE Ended([r EXCEPT !.broken = TRUE], FALSE)

(* a call that threw: first plain text, then a broken stream *)
Failed(r) ==
  IF ~r.plain /\ Native(r.version)
    THEN Loop([r EXCEPT !.plain = TRUE])
    ELSE Ended([r EXCEPT !.broken = TRUE], FALSE)

(* Mutant: the retries of a rate limit are not counted. *)
Limited_ForEver(r) == [r EXCEPT !.phase = "delay"]

(* a call that was answered with 429 *)
Limited(r) ==
  IF r.tries >= MaxRetries THEN Ended([r EXCEPT !.broken = TRUE], FALSE)
  ELSE [r EXCEPT !.tries = @ + 1, !.phase = "delay"]

Fault == faults < MaxFaults /\ faults' = faults + 1
NoFault == UNCHANGED faults

(* a call that took effect and threw: an edited message shows the new part;  *)
(* a message that was sent stays unknown                                     *)
Unanswered(r) ==
  IF r.at > Len(r.sigs) THEN r ELSE [r EXCEPT !.shown[r.at] = Goal(r)[r.at]]

(* ... and one that was answered *)
Delivered(r) ==
  LET part == Goal(r)[r.at] IN
  IF r.at > Len(r.sigs)
    THEN [r EXCEPT !.sigs = Append(@, part), !.shown = Append(@, part)]
    ELSE [r EXCEPT !.sigs[r.at] = part, !.shown[r.at] = part]

-----------------------------------------------------------------------------
(* The flushes of a stream run one after the other.                         *)

FlushStart(s) ==
  LET r == [streams[s] EXCEPT !.pending = @ - 1, !.tries = 0] IN
  /\ streams[s].pending > 0 /\ streams[s].phase = "idle"
  /\ Update(s, IF r.broken THEN Ended(r, FALSE) ELSE Loop(r))
  /\ UNCHANGED <<reply, made, current, sent, fin, answer, left, faults>>

(* The send or edit in flight settles.  A message that is gone cannot be     *)
(* edited.                                                                  *)
CallSettles(s) ==
  LET r == streams[s]
      missing == r.at <= Len(r.shown) /\ r.shown[r.at] = Gone IN
  /\ r.phase = "sync"
  /\ \/ NoFault /\ ~missing /\ Update(s, Advance(Delivered(r), r.at + 1))
     \/ NoFault /\ missing /\ Update(s, Failed(r))
     \/ NoFault /\ Update(s, Limited(r))
     \/ Fault /\ Update(s, Failed(r))
     \/ Fault /\ ~missing /\ Update(s, Failed(Unanswered(r)))
  /\ UNCHANGED <<reply, made, current, sent, fin, answer, left>>

(* The deletion of the last surplus message settles; deleting a draft does   *)
(* nothing, deleting a message that is gone counts as done.                  *)
TrimSettles(s) ==
  LET r == streams[s]
      last == Len(r.sigs)
      less == [r EXCEPT !.sigs = Front(@), !.shown = Front(@)] IN
  /\ r.phase = "trim"
  /\ \/ NoFault /\ Update(s, Advance(less, Len(Goal(r)) + 1))
     \/ mode = "edit" /\ NoFault /\ Update(s, Limited(r))
     \/ mode = "edit" /\ Fault /\ Update(s, Failed(r))
     \/ mode = "edit" /\ Fault /\ Update(s, Failed([r EXCEPT !.shown[last] = Gone]))
  /\ UNCHANGED <<reply, made, current, sent, fin, answer, left>>

DelayElapses(s) ==
  /\ streams[s].phase = "delay"
  /\ Update(s, Loop(streams[s]))
  /\ UNCHANGED <<reply, made, current, sent, fin, answer, left, faults>>

(* The throttle elapses; or flush() is called at once, for the placeholder   *)
(* of a new generation draft.                                               *)
Tick(s) ==
  /\ streams[s].timer
  /\ Update(s, [streams[s] EXCEPT !.timer = FALSE, !.pending = @ + 1])
  /\ UNCHANGED <<reply, made, current, sent, fin, answer, left, faults>>

-----------------------------------------------------------------------------
(* The events of the run.                                                   *)

Completing == fin.phase \in {"waiting", "flushing", "persisting", "rollback", "cleanup"}

(* A partial text, or in the draft of the run a thinking block: the next one *)
(* of this message; or, as all messages of a run share the draft until the   *)
(* finalizer has done with it, the first texts of the next message.          *)
Arrives(v) ==
  /\ v = sent + 1 /\ v \in Span(reply)
  /\ \/ fin.phase = "streaming" /\ v < Final
     \/ Completing /\ mode = "draft" /\ current # 0 /\ current = fin.stream

(* Mutant: the throttle is not armed while a flush is in progress. *)
Arm_WhenIdle(r) == IF r.broken \/ r.phase # "idle" THEN r ELSE [r EXCEPT !.timer = ~r.cancelled]

(* ensureTimer, which enqueue does not reach for a broken stream *)
Arm(r) == IF r.broken THEN r ELSE [r EXCEPT !.timer = @ \/ ~r.cancelled]

Enqueue(v) ==
  /\ Arrives(v) /\ sent' = v
  /\ IF current # 0
       THEN /\ Update(current, Arm([streams[current] EXCEPT !.payload = v]))
            /\ UNCHANGED <<made, current>>
       ELSE /\ made < MaxStreams /\ made' = made + 1 /\ current' = made'
            /\ Update(made', Arm([Fresh EXCEPT !.payload = v]))
  /\ UNCHANGED <<reply, fin, answer, left, faults>>

Cancelled(r) == [r EXCEPT !.cancelled = TRUE, !.timer = FALSE]

(* clearMessage, clearSession or clearAll: an error, an idle or a retired    *)
(* session.  What is visible stays.                                         *)
Clear ==
  /\ current # 0 /\ current' = 0
  /\ Update(current, Cancelled(streams[current]))
  /\ UNCHANGED <<reply, made, sent, fin, answer, left, faults>>

-----------------------------------------------------------------------------
(* The finalizer.                                                           *)

Running(r) == IF r.phase = "idle" THEN 0 ELSE 1

(* complete(): the final text replaces the payload, and the flushes that are *)
(* chained are awaited.  Without a stream the finalizer sends the answer.    *)
Complete ==
  /\ fin.phase = "streaming" /\ sent' = Final
  /\ IF current = 0
       THEN fin' = [fin EXCEPT !.phase = "sending"] /\ UNCHANGED streams
       ELSE LET r == streams[current] IN
            /\ fin' = [fin EXCEPT !.phase = "waiting", !.stream = current]
            /\ Update(current, [r EXCEPT !.payload = Final, !.timer = FALSE,
                                        !.awaited = r.pending + Running(r)])
  /\ UNCHANGED <<reply, made, current, answer, left, faults>>

(* cancelState, and the state is taken out of the map *)
Close(r, phase) ==
  /\ Update(fin.stream, Cancelled(r)) /\ current' = 0
  /\ fin' = [fin EXCEPT !.phase = phase]

Cleaned(r) == [r EXCEPT !.sigs = <<>>, !.shown = <<>>]

(* cleanupBrokenStream begins; for drafts it only forgets them *)
Cleanup(r) ==
  IF mode = "draft" \/ r.sigs = <<>> THEN Close(Cleaned(r), "sending")
  ELSE fin' = [fin EXCEPT !.phase = "cleanup"] /\ UNCHANGED <<streams, current>>

(* The chained flushes are over. *)
Waited ==
  LET r == streams[fin.stream] IN
  /\ fin.phase = "waiting" /\ r.awaited = 0
  /\ IF r.broken THEN Cleanup(r)
     ELSE IF r.sigs = <<>> THEN Close(r, "sending")
     ELSE /\ fin' = [fin EXCEPT !.phase = "flushing"] /\ UNCHANGED current
          /\ Update(fin.stream, [r EXCEPT !.pending = @ + 1,
                                         !.awaited = r.pending + Running(r) + 1])
  /\ UNCHANGED <<reply, made, sent, answer, left, faults>>

(* The flush of the final text is over.  A draft is then persisted, in the   *)
(* form and with the payload the state holds now.                           *)
Flushed ==
  LET r == streams[fin.stream] IN
  /\ fin.phase = "flushing" /\ r.awaited = 0
  /\ IF ~r.ok THEN Cleanup(r)
     ELSE IF mode = "edit" THEN Close(r, "streamed")
     ELSE /\ fin' = [fin EXCEPT !.phase = "persisting", !.version = r.payload, !.plain = r.plain]
          /\ UNCHANGED <<streams, current>>
  /\ UNCHANGED <<reply, made, sent, answer, left, faults>>

(* completePart of the next part; a failure rolls back the parts before it.  *)
(* A message whose send lost its answer stays unknown.                       *)
Persist ==
  LET goal == Text(fin.version, fin.plain)
      r == streams[fin.stream] IN
  /\ fin.phase = "persisting"
  /\ \/ /\ NoFault /\ answer' = Append(answer, goal[Len(answer) + 1])
        /\ IF Len(answer') = Len(goal) THEN Close(r, "streamed")
           ELSE UNCHANGED <<fin, streams, current>>
     \/ /\ Fault /\ fin' = [fin EXCEPT !.phase = "rollback"]
        /\ UNCHANGED <<answer, streams, current>>
  /\ UNCHANGED <<reply, made, sent, left>>

(* Mutant: a persisted part is left in the chat when a later one fails. *)
Rollback_None ==
  /\ fin.phase = "rollback" /\ Cleanup(streams[fin.stream])
  /\ UNCHANGED <<reply, made, sent, answer, left, faults>>

(* A deletion is done, or fails, which is only logged: the message stays.    *)
Deletion == left' \in {left, left + 1}

(* The persisted parts are deleted, the last one first.                     *)
Rollback ==
  /\ fin.phase = "rollback"
  /\ IF answer = <<>> THEN Cleanup(streams[fin.stream]) /\ UNCHANGED <<answer, left>>
     ELSE answer' = Front(answer) /\ Deletion /\ UNCHANGED <<fin, streams, current>>
  /\ UNCHANGED <<reply, made, sent, faults>>

(* The messages shown are deleted, the last one first; one that is gone      *)
(* counts as deleted.                                                       *)
Delete ==
  LET r == streams[fin.stream] IN
  /\ fin.phase = "cleanup"
  /\ IF r.shown = <<>> THEN Close(Cleaned(r), "sending") /\ UNCHANGED left
     ELSE /\ Update(fin.stream, [r EXCEPT !.shown = Front(@)])
          /\ IF Last(r.shown) = Gone THEN UNCHANGED left ELSE Deletion
          /\ UNCHANGED <<fin, current>>
  /\ UNCHANGED <<reply, made, sent, answer, faults>>

(* The finalizer sends the answer itself, part by part; a part that fails    *)
(* drops the rest and clears all streams.                                    *)
Send ==
  LET next == fin.part + 1 IN
  /\ fin.phase = "sending"
  /\ \/ /\ NoFault /\ answer' = Append(answer, Rendered[Final][next])
        /\ fin' = [fin EXCEPT !.part = next,
                              !.phase = IF next = Len(Rendered[Final]) THEN "sent" ELSE @]
     \/ Fault /\ UNCHANGED answer /\ fin' = [fin EXCEPT !.phase = "dropped"]
  /\ UNCHANGED <<reply, streams, made, current, sent, left>>

Finalize == Waited \/ Flushed \/ Persist \/ Rollback \/ Delete \/ Send
Sync(s) == FlushStart(s) \/ CallSettles(s) \/ TrimSettles(s) \/ DelayElapses(s)

Next ==
  \/ \E v \in Versions : Enqueue(v)
  \/ \E s \in Streams : Sync(s) \/ Tick(s)
  \/ Clear \/ Complete \/ Finalize

(***************************************************************************)
(* Every call to Telegram settles (its client has deadlines), timers fire    *)
(* and promises resolve.  Nothing says that a message is ever completed.     *)
(***************************************************************************)
StreamSpec ==
  /\ Init /\ [][Next]_vars
  /\ WF_vars(Finalize)
  /\ \A s \in Streams : WF_vars(Sync(s)) /\ WF_vars(Tick(s))

-----------------------------------------------------------------------------
(* Properties.                                                              *)

(* When the finalizer is done, the answer is in the chat, and once:          *)
(*   - the messages of the stream show the final text, and nothing was to be *)
(*     deleted;                                                             *)
(*   - or the draft has been persisted, with the final text, or, if texts of *)
(*     the next message came into the draft meanwhile, one of theirs instead *)
(*     (complete reads the payload anew after the flush);                   *)
(*   - or the finalizer has sent it, and of the messages that the stream or  *)
(*     the persisted draft had in the chat only those are beside it whose   *)
(*     deletion failed (cleanupBrokenStream and the rollback log it).       *)
(* Messages of cleared streams, and those the program never learned of       *)
(* because their send lost its answer, are not counted.                     *)
AnswerOnce ==
  /\ fin.phase = "streamed" /\ mode = "edit" =>
       answer = <<>> /\ left = 0 /\ streams[fin.stream].shown \in Forms(Final)
  /\ fin.phase = "streamed" /\ mode = "draft" =>
       /\ answer = Text(fin.version, fin.plain) /\ left = 0
       /\ fin.version \in Final..sent
  /\ fin.phase \in {"sending", "sent"} /\ mode = "edit" /\ fin.stream # 0 =>
       streams[fin.stream].shown = <<>>
  /\ fin.phase = "sent" => answer = Rendered[Final]

(* the recorded signatures are those of the latest payload: it is skipped    *)
UpToDate(r) == r.payload # 0 /\ r.sigs = Text(r.payload, r.plain)

(* The messages show what the recorded signatures say.  One case is left: a  *)
(* draft that showed raw text and was edited to a native block; the edit took *)
(* effect and lost its answer, and the next text, plain from then on, is the *)
(* raw text again.  The draft then shows the block until it goes.           *)
Shows(r) ==
  /\ Len(r.shown) = Len(r.sigs)
  /\ \A i \in 1..Len(r.sigs) :
       \/ r.shown[i] = r.sigs[i]
       \/ /\ mode = "draft" /\ r.plain
          /\ r.sigs[i] \in RawParts /\ r.shown[i] \in NativeParts

(* A payload whose signatures equal the recorded ones is skipped: then the   *)
(* messages do show it, whatever calls lost their answers before.            *)
SkipIsSound ==
  \A s \in Streams :
    LET r == streams[s] IN UpToDate(r) /\ ~r.broken /\ ~r.cancelled => Shows(r)

(* A finalizer that has begun comes to an end, even if Telegram answers      *)
(* every call of the stream with a rate limit.                              *)
AnswerSettles ==
  Completing ~> fin.phase \in {"sending", "streamed", "sent", "dropped"}

(* The latest text of a stream is shown, unless the stream breaks or is      *)
(* cancelled: no update is lost in the throttle or behind a flush in progress. *)
LatestShown ==
  \A s \in Streams :
    streams[s].payload # 0 ~>
      \/ UpToDate(streams[s]) /\ Shows(streams[s])
      \/ streams[s].broken \/ streams[s].cancelled
=============================================================================
