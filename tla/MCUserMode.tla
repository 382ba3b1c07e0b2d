------------------------------ MODULE MCUserMode ------------------------------
(* Two indices a level; a page that shares every table with the code's and *)
(* one that shares none but the first.                                     *)
EXTENDS UserMode

MCCode == <<0, 0, 1, 0>>
MCStack == <<1, 1, 1, 1>>
MCCalls ==
    {"read", "write"} \X {"input", "output"} \cup {"open", "close", "unknown"} \X {"other"}
MCRequests == {<<0, 0, 1, 1>>, <<0, 1, 0, 0>>}
==============================================================================
