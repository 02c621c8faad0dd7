---------------------------- MODULE MCToolServer ----------------------------
(* Small instances of ToolServer. *)
EXTENDS ToolServer

MCToolOf == [c \in Calls |-> CASE c = "script" -> "python"
                               [] c = "search" -> "web_search"
                               [] OTHER        -> "read_file"]
=============================================================================
