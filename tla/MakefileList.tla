---------------------------- MODULE MakefileList ---------------------------
(***************************************************************************)
(* What both makes of the repository do with their makefiles: every -f     *)
(* adds one at the end, and when the options are read they are gone        *)
(* through from the first to the last, until one of them fails.            *)
(***************************************************************************)
EXTENDS Naturals, Sequences

CONSTANT Name

VARIABLES phase, names, used

vars == <<phase, names, used>>

Init == phase = "options" /\ names = <<>> /\ used = <<>>

Add(name) ==
    /\ phase = "options"
    /\ names' = Append(names, name)
    /\ UNCHANGED <<phase, used>>

Begin == phase = "options" /\ names # <<>> /\ phase' = "use" /\ UNCHANGED <<names, used>>

Use ==
    /\ phase = "use" /\ Len(used) < Len(names)
    /\ used' = Append(used, names[Len(used) + 1])
    /\ UNCHANGED <<phase, names>>

Succeed == phase = "use" /\ used = names /\ phase' = "success" /\ UNCHANGED <<names, used>>
Fail == phase \in {"options", "use"} /\ phase' = "failure" /\ UNCHANGED <<names, used>>

Next == (\E name \in Name : Add(name)) \/ Begin \/ Use \/ Succeed \/ Fail

Spec == Init /\ [][Next]_vars
=============================================================================
