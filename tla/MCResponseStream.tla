-------------------------- MODULE MCResponseStream --------------------------
(***************************************************************************)
(* Instances of ResponseStream for TLC.  With the native format the text     *)
(* shrinks from two messages to one and its first part changes, and the      *)
(* final version is what the first one was; version 4 belongs to the next    *)
(* message of the run.  As plain text two parts fit one message.  With the   *)
(* raw format a draft begins with a thinking block, a second one comes       *)
(* between two equal texts, and version 9 is the next message's; in mode     *)
(* "edit" these last two versions make a reply.                             *)
(***************************************************************************)
EXTENDS ResponseStream

MCRendered ==
  << <<"a", "b">>, <<"c">>, <<"a", "b">>, <<"d">>,
     <<"hm">>, <<"x">>, <<"hm hm">>, <<"x">>, <<"y">> >>
MCPlain ==
  << <<"ab plain">>, <<"c plain">>, <<"ab plain">>, <<"d plain">>,
     <<"hm plain">>, <<"x">>, <<"hm hm plain">>, <<"x">>, <<"y">> >>

Reply(m, first, final, last) == [mode |-> m, first |-> first, final |-> final, last |-> last]
MCReplies ==
  {Reply("edit", 1, 3, 3), Reply("draft", 1, 3, 4),
   Reply("draft", 5, 8, 9), Reply("edit", 8, 9, 9)}
=============================================================================
