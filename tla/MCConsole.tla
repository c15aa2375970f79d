-------------------------------- MODULE MCConsole -------------------------------
(***************************************************************************)
(* One letter, the end of a line, the lock, a plain and an extended        *)
(* modifier, on a screen of two lines that a tab just fits into.           *)
(***************************************************************************)
EXTENDS Console

MCModifiers == [k \in {"lshift", "rctl"} |-> IF k = "lshift" THEN "SHIFT" ELSE "CTL"]
================================================================================
