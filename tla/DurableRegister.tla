-------------------------- MODULE DurableRegister --------------------------
(***************************************************************************)
(* What the callers of the application state may rely on: one value, which *)
(* changes only when one call replaces it as a whole by what the call      *)
(* makes of that very value.  A call that reports success has its effect   *)
(* in a value that no crash takes back; a crash falls back at most to the  *)
(* value before a call that had not yet reported.  Nothing is promised     *)
(* about the value any more once the files were damaged (`sound').         *)
(***************************************************************************)
CONSTANTS
    Calls,              \* the calls that replace the value
    Initial,            \* the value of a new installation
    After               \* After[c][v]: what call c makes of the value v

VARIABLES
    value,              \* what a reader gets
    safe,               \* what a power failure leaves
    outcome,            \* [Calls -> what the caller knows and awaits]
    sound               \* nothing has damaged the files

register == <<value, safe, outcome, sound>>

Ended == {"idle", "done", "failed", "lost"}
Pending == {"waiting", "written", "settled"}

Init ==
    /\ value = Initial
    /\ safe = Initial
    /\ outcome = [c \in Calls |-> "idle"]
    /\ sound = TRUE

Becomes(c, o) == outcome' = [outcome EXCEPT ![c] = o]

(* Only damaged files change by themselves. *)
Kept == sound /\ sound' => value' = value /\ safe' = safe

Call(c) ==
    /\ outcome[c] \in Ended
    /\ Becomes(c, "waiting")
    /\ UNCHANGED <<value, safe, sound>>

Commit(c) ==
    /\ outcome[c] = "waiting"
    /\ sound => value' = After[c][value]
    /\ Becomes(c, "written")
    /\ sound' = sound
    /\ sound => safe' = safe

Settle(c) ==
    /\ outcome[c] = "written"
    /\ safe' = value
    /\ \E o \in {"settled", "done"} : Becomes(c, o)
    /\ UNCHANGED <<value, sound>>

Confirm(c) ==
    /\ outcome[c] = "settled"
    /\ Becomes(c, "done")
    /\ Kept
    /\ sound' = sound

(* A call that would change nothing needs no write. *)
Redundant(c) ==
    /\ outcome[c] = "waiting"
    /\ sound => After[c][value] = value
    /\ sound => safe = value
    /\ \E o \in {"settled", "done"} : Becomes(c, o)
    /\ Kept
    /\ sound' = sound

(* A call that fails has changed nothing, or had already settled. *)
Fail(c) ==
    /\ outcome[c] \in Pending
    /\ sound' => outcome[c] # "written"
    /\ Becomes(c, "failed")
    /\ Kept
    /\ sound' => sound

Crash ==
    /\ outcome' = [c \in Calls |->
           IF outcome[c] \in Pending THEN "lost" ELSE outcome[c]]
    /\ sound' = sound
    /\ sound => value' \in {value, safe} /\ safe' = value'

Damage ==
    /\ sound' = FALSE
    /\ UNCHANGED outcome

Next ==
    \/ \E c \in Calls :
          \/ Call(c)
          \/ Commit(c)
          \/ Settle(c)
          \/ Confirm(c)
          \/ Redundant(c)
          \/ Fail(c)
    \/ Crash
    \/ Damage

Spec == Init /\ [][Next]_register

=============================================================================
