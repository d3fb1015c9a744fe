---------------------------- MODULE MCAprFiles ----------------------------
(***************************************************************************)
(* A directory with a file and a directory, which has a file, and a path   *)
(* beside it.                                                              *)
(***************************************************************************)
EXTENDS AprFiles

MCPath == {"dir", "dir/file", "dir/sub", "dir/sub/file"}
MCParentOf ==
    [p \in MCPath |-> CASE p = "dir" -> NULL
                         [] p = "dir/sub/file" -> "dir/sub"
                         [] OTHER -> "dir"]

===========================================================================
