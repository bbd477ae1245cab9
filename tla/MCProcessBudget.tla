--------------------------- MODULE MCProcessBudget ---------------------------
(* Four kinds after RULES: the recovery lane, one that its owner ends      *)
(* (opencode-server), two at a time that are asked to stop (ssh) and one   *)
(* that is killed (mcp-server).                                            *)
EXTENDS ProcessBudget, TLC

MCKinds == {"cleanup", "opencode-server", "ssh", "mcp-server"}
MCMaxConcurrent == [k \in MCKinds |-> IF k \in {"ssh", "cleanup"} THEN 2 ELSE 1]
MCReserve == ("cleanup" :> 1) @@ ("opencode-server" :> 3) @@ ("ssh" :> 1) @@ ("mcp-server" :> 2)
MCCeiling == ("cleanup" :> 9) @@ ("opencode-server" :> 7) @@ ("ssh" :> 6) @@ ("mcp-server" :> 5)
=============================================================================
