------------------------------ MODULE MCShell -------------------------------
(***************************************************************************)
(* Two directories on PATH; the program "x" lies in the second one only.   *)
(***************************************************************************)
EXTENDS Shell

MCDirs  == <<"bin", "usr">>
MCWhere == [d \in {"bin", "usr"} |-> IF d = "usr" THEN {<<"x">>} ELSE {}]
=============================================================================
