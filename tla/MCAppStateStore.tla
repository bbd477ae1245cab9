--------------------------- MODULE MCAppStateStore ---------------------------
(* Two changes, one of them approved and Global, the other of the journal.  *)
EXTENDS AppStateStore

=============================================================================
