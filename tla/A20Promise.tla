---------------------------- MODULE A20Promise -----------------------------
(***************************************************************************)
(* What enable_a20 of boot/x86/bootld/bootld.s promises its caller: it     *)
(* answers "enabled" only when the line is open, "disabled" only after     *)
(* every method has been tried, in the order the code lists them, and the  *)
(* byte at 0x500 that it borrows for the test keeps its value.             *)
(***************************************************************************)
CONSTANT Value      \* the values the borrowed byte may have

VARIABLES status, gate, tried, kept

vars == <<status, gate, tried, kept>>

Init ==
    /\ status = "trying"
    /\ gate \in {0, 1}
    /\ tried = {}
    /\ kept \in Value

\* The line opens, whoever caused it.
Open == gate' = 1 /\ UNCHANGED <<status, tried, kept>>

Order == {<<{}, "bios">>, <<{"bios"}, "kb">>, <<{"bios", "kb"}, "fast">>}

Try ==
    /\ status = "trying"
    /\ \E m \in {"bios", "kb", "fast"} :
          <<tried, m>> \in Order /\ tried' = tried \cup {m}
    /\ gate' \in {gate, 1}
    /\ UNCHANGED <<status, kept>>

SayEnabled ==
    /\ status = "trying" /\ gate = 1
    /\ status' = "enabled"
    /\ UNCHANGED <<gate, tried, kept>>

SayDisabled ==
    /\ status = "trying" /\ tried = {"bios", "kb", "fast"}
    /\ status' = "disabled"
    /\ UNCHANGED <<gate, tried, kept>>

Next == Open \/ Try \/ SayEnabled \/ SayDisabled

Spec == Init /\ [][Next]_vars
=============================================================================
