------------------------------ MODULE Getdelim ------------------------------
(***************************************************************************)
(* getdelim of lib/libc/stdio/getline.c, called again and again on one     *)
(* stream with the same buffer, the way a caller reads a file line by      *)
(* line.  getline is getdelim with '\n'.                                   *)
(***************************************************************************)
EXTENDS Integers, Sequences

CONSTANTS
    Char,        \* what the stream may deliver, the delimiter among it
    delimiter,   \* a delimiter of 0 ends the loop before it starts
    CHUNK_SIZE,  \* 12 in the code
    Sizes,       \* sizes of a buffer the caller brings; 0 for none
    MaxInput     \* bound: characters in the stream

ASSUME GetdelimAssumption ==
    /\ delimiter \in Char /\ Char \cap {"nul", "old", "EOF"} = {}
    /\ CHUNK_SIZE \in Nat \ {0, 1}
    /\ Sizes \subseteq Nat \ {1}
    /\ MaxInput \in Nat

VARIABLES
    pc,
    lineptr,     \* 1 if *lineptr is not NULL
    n, buf,      \* *n and the bytes *lineptr points to
    len, c,      \* the locals of the call
    left,        \* characters still in the stream
    text,        \* history: what this call has taken from the stream
    ret          \* what the last call returned

vars == <<pc, lineptr, n, buf, len, c, left, text, ret>>

Bytes(m) == [0 .. m - 1 -> Char \cup {"nul", "old"}]

Init ==
    /\ pc = "call"
    /\ n \in Sizes /\ lineptr = IF n = 0 THEN 0 ELSE 1
    /\ buf = [j \in 0 .. n - 1 |-> "old"]
    /\ len = 0 /\ c = "nul" /\ left = MaxInput /\ text = <<>> /\ ret = 0

Return(r) == pc' = "call" /\ ret' = r

\* Entry: a buffer is allocated unless the caller brought one.
Call ==
    /\ pc = "call" /\ ret # -1
    /\ pc' = "loop"
    /\ IF lineptr = 0 \/ n = 0
       THEN /\ lineptr' = 1
            /\ n' = CHUNK_SIZE /\ buf' = [j \in 0 .. CHUNK_SIZE - 1 |-> "old"]
       ELSE UNCHANGED <<lineptr, n, buf>>
    /\ len' = 0 /\ c' = "nul" /\ text' = <<>>
    /\ UNCHANGED <<left, ret>>

CallFails ==
    /\ pc = "call" /\ ret # -1
    /\ lineptr = 0 \/ n = 0
    /\ lineptr' = 0
    /\ Return(-1)
    /\ UNCHANGED <<n, buf, len, c, left, text>>

\* The growth test keeps room for the character and the '\0' with a byte to
\* spare; as a slip it waits until no byte is left.
FullLate == len = n

Full == len = n - 2

Room == IF Full THEN n + CHUNK_SIZE ELSE n

\* One turn: fgetc, growth, the store, and '\0' after a delimiter; as a slip
\* without that '\0'.
GetCharNoNul ==
    /\ pc = "loop" /\ c # delimiter /\ left > 0
    /\ \E d \in Char :
          /\ c' = d
          /\ text' = Append(text, d)
          /\ buf' = [j \in 0 .. Room - 1 |->
                       IF j = len THEN d ELSE IF j < n THEN buf[j] ELSE "old"]
    /\ n' = Room
    /\ len' = len + 1
    /\ left' = left - 1
    /\ UNCHANGED <<pc, lineptr, ret>>

GetChar ==
    /\ pc = "loop" /\ c # delimiter /\ left > 0
    /\ \E d \in Char :
          /\ c' = d
          /\ text' = Append(text, d)
          /\ buf' = [j \in 0 .. Room - 1 |->
                       IF j = len THEN d
                       ELSE IF j = len + 1 /\ d = delimiter THEN "nul"
                       ELSE IF j < n THEN buf[j] ELSE "old"]
    /\ n' = Room
    /\ len' = len + 1
    /\ left' = left - 1
    /\ UNCHANGED <<pc, lineptr, ret>>

\* realloc fails: the pointer is lost, *n keeps the old size, the characters
\* read so far are gone.
\* As a slip: *n is advanced before the test of the pointer.
GrowFailsAhead ==
    /\ pc = "loop" /\ c # delimiter /\ left > 0 /\ Full
    /\ left' = left - 1
    /\ lineptr' = 0
    /\ n' = n + CHUNK_SIZE
    /\ Return(-1)
    /\ UNCHANGED <<buf, len, c, text>>

GrowFails ==
    /\ pc = "loop" /\ c # delimiter /\ left > 0 /\ Full
    /\ left' = left - 1
    /\ lineptr' = 0
    /\ Return(-1)
    /\ UNCHANGED <<n, buf, len, c, text>>

\* End of the stream, or a read error; as a slip an empty read returns 0.
AtEofZero ==
    /\ pc = "loop" /\ c # delimiter
    /\ c' = "EOF"
    /\ Return(len)
    /\ UNCHANGED <<lineptr, n, buf, len, left, text>>

AtEof ==
    /\ pc = "loop" /\ c # delimiter
    /\ c' = "EOF"
    /\ Return(IF len = 0 THEN -1 ELSE len)
    /\ UNCHANGED <<lineptr, n, buf, len, left, text>>

Done ==
    /\ pc = "loop" /\ c = delimiter
    /\ Return(len)
    /\ UNCHANGED <<lineptr, n, buf, len, c, left, text>>

\* After an allocation failure the caller may try again with the same pointer.
Retry ==
    /\ pc = "call" /\ ret = -1 /\ lineptr = 0
    /\ ret' = 0
    /\ UNCHANGED <<pc, lineptr, n, buf, len, c, left, text>>

Next == Call \/ CallFails \/ GetChar \/ GrowFails \/ AtEof \/ Done \/ Retry

Spec == Init /\ [][Next]_vars

FairSpec == Spec /\ WF_vars(Next)

-----------------------------------------------------------------------------
\* The type invariant: *n is the size of the buffer whenever there is one.
TypeOK ==
    /\ pc \in {"call", "loop"} /\ lineptr \in {0, 1}
    /\ n \in Nat /\ buf \in Bytes(n)
    /\ len \in Nat /\ left \in Nat /\ ret \in Nat \cup {-1}
    /\ c \in Char \cup {"nul", "EOF"}
    /\ text \in Seq(Char)

\* At the store of a character, and of the '\0' behind it, both positions lie
\* in the buffer, after growth, in a reused buffer and after a failed realloc.
StoreInBounds ==
    /\ pc = "loop" => lineptr = 1 /\ len + 1 < Room
    /\ pc = "loop" /\ c = delimiter => len < n

\* A call that returns a length leaves exactly the characters it took from the
\* stream at the start of the buffer, none of them behind a delimiter, and a
\* '\0' after a delimiter; a last line without delimiter is not terminated.
ReturnsText ==
    (pc = "call" /\ ret > 0) =>
        /\ ret = Len(text)
        /\ \A j \in 1 .. ret : buf[j - 1] = text[j]
        /\ \A j \in 1 .. ret - 1 : text[j] # delimiter
        /\ text[ret] = delimiter => buf[ret] = "nul"

\* A caller that reads until -1 gets there: no call is stuck, and none comes
\* back again and again without using up the stream.
ReadsOut == <>(pc = "call" /\ ret = -1)
=============================================================================
