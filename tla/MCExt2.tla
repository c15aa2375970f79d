--------------------------------- MODULE MCExt2 ---------------------------------
(***************************************************************************)
(* Small volumes: one group of a few blocks and inodes, a short name and a *)
(* long one, of which a directory block holds one beside "." and "..".     *)
(***************************************************************************)
EXTENDS Ext2

MCNameLen ==
    ("a" :> 1) @@ ("b" :> 40) @@ ("." :> 1) @@ (".." :> 2) @@ ("lost+found" :> 10)
================================================================================
