------------------------- MODULE MCGlobalMutations -------------------------
(* One approval writes the Skill, the other is a toggle of the canonical     *)
(* state, two calls commit them, and a user deletes the Skill or writes what *)
(* either approval wants.                                                    *)
EXTENDS GlobalMutations, TLC

MCBytes == {"p", "q"}
MCWants == ("m1" :> "p") @@ ("m2" :> "q")
=============================================================================
