--------------------------------- MODULE MCFiles --------------------------------
(***************************************************************************)
(* Two processes, two names, and absolute and relative paths that go down, *)
(* up again, above the root, and through what may be a file.               *)
(***************************************************************************)
EXTENDS Files, TLC

MCPaths ==
    [abs : {FALSE}, comps : {<<"a">>, <<"b">>, <<"a", "b">>, <<"..", "b">>, <<"a", "..">>}]
    \cup [abs : {TRUE}, comps : {<<>>, <<"a", ".", "b">>}]

(* A directory's node may come with the flag of a file.  The opposite is    *)
(* left out: sys_chdir would then accept a file.                            *)
MCGarbage == {{}, {"file"}}

Symmetric == Permutations(Procs)
================================================================================
