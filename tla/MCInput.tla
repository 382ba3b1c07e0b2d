------------------------------ MODULE MCInput -------------------------------
(* Up to four keystrokes and lines of at most two characters. *)
EXTENDS Input

MCPrintable == {"a", "space", "1"}
MCOthers == {"tab", "escape"}
MCWorkspaces == {"1"}
==============================================================================
