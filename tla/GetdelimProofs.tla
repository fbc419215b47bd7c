--------------------------- MODULE GetdelimProofs ---------------------------
(***************************************************************************)
(* Proofs about Getdelim for every chunk size, every buffer a caller may   *)
(* bring (one byte excepted) and a stream of any length.                   *)
(***************************************************************************)
EXTENDS Getdelim, TLAPS

\* Inside the loop the buffer holds what was read, with room for one more
\* character and a '\0', and the delimiter can only be the last character.
Reading ==
    /\ lineptr = 1 => n # 1
    /\ pc = "loop" =>
          /\ n >= 2 /\ len <= n - 2
          /\ len = Len(text)
          /\ \A j \in 1 .. len : buf[j - 1] = text[j]
          /\ \A j \in 1 .. len - 1 : text[j] # delimiter
          /\ c # delimiter /\ len > 0 => text[len] # delimiter
          /\ c = delimiter => len > 0 /\ buf[len] = "nul"

IInv == TypeOK /\ StoreInBounds /\ ReturnsText /\ Reading

\* The initial states satisfy the inductive invariant.
LEMMA InitIInv == Init => IInv
  BY GetdelimAssumption DEF Init, IInv, TypeOK, StoreInBounds, ReturnsText, Reading, Bytes

\* Every call, turn and return preserves the inductive invariant.
LEMMA NextIInv == IInv /\ [Next]_vars => IInv'
<1> SUFFICES ASSUME IInv, [Next]_vars PROVE IInv'
  OBVIOUS
<1> USE GetdelimAssumption
    DEF IInv, TypeOK, StoreInBounds, ReturnsText, Reading, Bytes, Return, Room, Full
<1>1. CASE Call
  BY <1>1 DEF Call
<1>2. CASE CallFails
  BY <1>2 DEF CallFails
<1>3. CASE GetChar
  <2>1. PICK d \in Char :
          /\ c' = d
          /\ text' = Append(text, d)
          /\ buf' = [j \in 0 .. Room - 1 |->
                       IF j = len THEN d
                       ELSE IF j = len + 1 /\ d = delimiter THEN "nul"
                       ELSE IF j < n THEN buf[j] ELSE "old"]
    BY <1>3 DEF GetChar
  <2>2. pc = "loop" /\ pc' = "loop" /\ c # delimiter /\ n' = Room /\ len' = len + 1
        /\ left' \in Nat /\ UNCHANGED <<lineptr, ret>>
    BY <1>3 DEF GetChar
  <2>3. Room \in Nat /\ Room >= n /\ len + 2 < Room + 1 /\ len' <= Room - 2
    BY <2>2
  <2>4. buf' \in [0 .. Room - 1 -> Char \cup {"nul", "old"}]
    BY <2>1, <2>2, <2>3
  <2>5. Len(text') = len + 1 /\ text' \in Seq(Char) /\ text'[len + 1] = d
        /\ \A j \in 1 .. len : text'[j] = text[j]
    BY <2>1, <2>2
  <2>6. \A j \in 1 .. len + 1 : buf'[j - 1] = text'[j]
    BY <2>1, <2>2, <2>3, <2>5
  <2>7. \A j \in 1 .. len : text'[j] # delimiter
    BY <2>2, <2>5
  <2>8. d = delimiter => buf'[len + 1] = "nul"
    BY <2>1, <2>2, <2>3
  <2> QED
    BY <2>1, <2>2, <2>3, <2>4, <2>5, <2>6, <2>7, <2>8
<1>4. CASE GrowFails
  BY <1>4 DEF GrowFails
<1>5. CASE AtEof
  BY <1>5 DEF AtEof
<1>6. CASE Done
  BY <1>6 DEF Done
<1>7. CASE Retry
  BY <1>7 DEF Retry
<1>8. CASE UNCHANGED vars
  BY <1>8 DEF vars
<1> QED
  BY <1>1, <1>2, <1>3, <1>4, <1>5, <1>6, <1>7, <1>8 DEF Next

\* For every chunk size and every stream: no store outside the buffer, and what
\* a call returns is what it read.
THEOREM Safety == Spec => [](TypeOK /\ StoreInBounds /\ ReturnsText)
<1>1. IInv => TypeOK /\ StoreInBounds /\ ReturnsText
  BY DEF IInv
<1> QED
  BY InitIInv, NextIInv, <1>1, PTL DEF Spec
=============================================================================
