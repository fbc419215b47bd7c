---------------------------- MODULE ShellProofs -----------------------------
(***************************************************************************)
(* Proofs about Shell for every alphabet, every growth step of the line    *)
(* buffer and of the argument vector, and input of any length.             *)
(***************************************************************************)
EXTENDS Shell, FiniteSetTheorems, TLAPS

\* What process knows of the line it is splitting: it ends in '\0', nothing but
\* blanks has been passed while there is no command, and the first argument is
\* the command.
Splitting ==
    /\ pc \in {"split", "dispatch", "waiting"} =>
          i < buf_sz /\ buf[i] = "nul" /\ k <= i + 1
    /\ pc = "split" /\ com = Null => \A j \in 0 .. k - 1 : buf[j] \in Blank
    /\ com = Null => argc = 0
    /\ com # Null => argc > 0 /\ args[0] = com

IInv ==
    /\ TypeOK /\ LineInBounds /\ ArgvTerminated /\ CommandNotNull /\ OneReader
    /\ Splitting

\* The initial state satisfies the inductive invariant.
LEMMA InitIInv == Init => IInv
  BY ShellAssumption DEF Init, IInv, TypeOK, LineInBounds, ArgvTerminated,
     CommandNotNull, OneReader, Splitting, Char, Null

\* Every turn of the two loops, every command and every step of the child
\* preserves the inductive invariant.
LEMMA NextIInv == IInv /\ [Next]_vars => IInv'
<1> SUFFICES ASSUME IInv, [Next]_vars PROVE IInv'
  OBVIOUS
<1> USE ShellAssumption DEF IInv, TypeOK, LineInBounds, ArgvTerminated,
        CommandNotNull, OneReader, Splitting, Char, Null, Blank, Length, NotYet,
        Prompt, main, proc, env
<1>1. CASE ReadChar
  <2>1. PICK c \in Letters \cup {"sp", "bs", "nl"} :
          /\ typed' = Append(typed, c)
          /\ ReadKept(c) \/ ReadVanishing(c) \/ ReadNewline(c)
    BY <1>1 DEF ReadChar
  <2>2. pc = "read" /\ left' \in Nat /\ typed' \in Seq(Char)
        /\ UNCHANGED <<path, haspath, home, cwd, child, looked>>
    BY <1>1, <2>1 DEF ReadChar
  <2>3. CASE ReadKept(c)
    <3>0. c \in Char /\ c # "junk" /\ i \in 0 .. buf_sz - 1
      BY <2>1, <2>2
    <3>1. CASE NeedsRoom
      <4>1. buf_sz' = buf_sz + BufChunk
            /\ buf' = [j \in 0 .. buf_sz + BufChunk - 1 |->
                          IF j < buf_sz THEN [buf EXCEPT ![i] = c][j] ELSE "junk"]
        BY <2>3, <3>1 DEF ReadKept, Resized
      <4> QED
        BY <2>2, <2>3, <3>0, <3>1, <4>1 DEF ReadKept, NeedsRoom
    <3>2. CASE ~NeedsRoom
      <4>1. buf_sz' = buf_sz /\ buf' = [buf EXCEPT ![i] = c]
        BY <2>3, <3>2 DEF ReadKept
      <4> QED
        BY <2>2, <2>3, <3>0, <3>2, <4>1 DEF ReadKept, NeedsRoom
    <3> QED
      BY <3>1, <3>2
  <2>4. CASE ReadVanishing(c)
    BY <2>1, <2>2, <2>4 DEF ReadVanishing
  <2>5. CASE ReadNewline(c)
    BY <2>1, <2>2, <2>5 DEF ReadNewline
  <2> QED
    BY <2>1, <2>3, <2>4, <2>5
<1>2. CASE Eof
  BY <1>2 DEF Eof
<1>3. CASE SplitLeading
  BY <1>3 DEF SplitLeading
<1>4. CASE SplitCommand
  BY <1>4 DEF SplitCommand
<1>5. CASE SplitBlank
  BY <1>5 DEF SplitBlank
<1>6. CASE SplitChar
  BY <1>6 DEF SplitChar, Full, Resized
<1>7. CASE SplitCrash
  BY <1>7 DEF SplitCrash, Full
<1>8. CASE SplitEnd
  BY <1>8 DEF SplitEnd
<1>9. CASE SetOrExit
  BY <1>9 DEF SetOrExit
<1>10. CASE Cd
  BY <1>10 DEF Cd, CdTargets
<1>11. CASE Which
  <2>1. pc = "dispatch" /\ UNCHANGED <<left, buf, buf_sz, escape, proc, haspath, home, cwd, child>>
    BY <1>11 DEF Which
  <2>2. (pc' = "crashed" /\ UNCHANGED <<i, typed>>) \/ Prompt
    BY <1>11 DEF Which
  <2>3. CASE pc' = "crashed" /\ UNCHANGED <<i, typed>>
    BY <2>1, <2>3
  <2>4. CASE Prompt
    BY <2>1, <2>4
  <2> QED
    BY <2>2, <2>3, <2>4
<1>12. CASE Fork
  BY <1>12 DEF Fork
<1>13. CASE ForkFails
  BY <1>13 DEF ForkFails
<1>14. CASE ChildExec
  BY <1>14 DEF ChildExec
<1>15. CASE ChildExits
  BY <1>15 DEF ChildExits
<1>16. CASE Reap
  BY <1>16 DEF Reap
<1>17. CASE UNCHANGED vars
  BY <1>17 DEF vars
<1>18. QED
  BY <1>1, <1>2, <1>3, <1>4, <1>5, <1>6, <1>7, <1>8, <1>9, <1>10, <1>11, <1>12, <1>13, <1>14, <1>15, <1>16, <1>17 DEF Next, Process, Child

\* For every buffer and vector growth and any input: the line stays inside its
\* buffer, the argument vector inside its allocation and NULL-terminated, the
\* command is never NULL, and the shell never reads beside a live child.
THEOREM Safety == Spec => [](TypeOK /\ LineInBounds /\ ArgvReady /\ OneReader)
<1>1. IInv => TypeOK /\ LineInBounds /\ ArgvReady /\ OneReader
  BY DEF IInv, ArgvReady
<1> QED
  BY InitIInv, NextIInv, <1>1, PTL DEF Spec

-----------------------------------------------------------------------------
\* What main knows of the text: the characters in front of p that belong to the
\* line, as a set of positions, and the place of each in the line.
Run(t, p) == {q \in 1 .. p - 1 : \A r \in q .. p - 1 : t[r] = "bs"}
KeptTo(t, n) ==
    {p \in 1 .. n : (t[p] = "bs" => Escaped(t, p)) /\ (t[p] = "nl" => ~Escaped(t, p))}
Place(K, p) == Cardinality({q \in K : q < p})

\* A line of l characters, stored in b, of the positions K of a text t: every
\* place is that of one position, and from place m on b holds what was typed.
Line(K, t, b, l, m) ==
    /\ l = Cardinality(K)
    /\ \A j \in 0 .. l - 1 : \E p \in K : Place(K, p) = j
    /\ \A p \in K : Place(K, p) >= m => b[Place(K, p)] = t[p]

Reading ==
    /\ pc = "read" =>
          /\ (escape = 1) <=> Escaped(typed, Len(typed) + 1)
          /\ Line(KeptTo(typed, Len(typed)), typed, buf, i, 0)
    /\ pc \in {"split", "dispatch", "waiting"} => escape = 0

\* The words that process has found: those that begin in front of k.
BlankAt(t, m) == \E p \in Kept(t) : Index(t, p) = m /\ t[p] \in Blank
Starts(t, m) == ~BlankAt(t, m) /\ (m = 0 \/ BlankAt(t, m - 1))

Words0 ==
    /\ pc = "split" => Line(Kept(typed), typed, buf, i, k)
    /\ pc \in {"split", "dispatch"} =>
          /\ i = Cardinality(Kept(typed))
          /\ {args[j] : j \in 0 .. argc - 1} = {m \in 0 .. k - 1 : Starts(typed, m)}
          /\ \A j \in 1 .. argc - 1 : args[j - 1] < args[j]
    /\ pc = "dispatch" => k = i + 1
    /\ pc = "split" /\ com = Null => newarg = 0 /\ \A m \in 0 .. k - 1 : BlankAt(typed, m)
    /\ pc = "split" /\ com # Null => k > 0 /\ (newarg = 1 <=> BlankAt(typed, k - 1))

WInv == Reading /\ Words0

-----------------------------------------------------------------------------
\* A run of backslashes one longer changes the parity, any other character ends
\* the run.
LEMMA EscapedStep ==
    ASSUME NEW t \in Seq(Char), NEW c \in Char
    PROVE  /\ \A p \in 1 .. Len(t) + 1 : Escaped(Append(t, c), p) <=> Escaped(t, p)
           /\ Escaped(Append(t, c), Len(t) + 2) <=> (c = "bs" /\ ~Escaped(t, Len(t) + 1))
<1> DEFINE u == Append(t, c)
           n == Len(t)
<1>1. /\ n \in Nat /\ \A p \in 1 .. n : u[p] = t[p]
      /\ u[n + 1] = c
  OBVIOUS
<1> HIDE DEF u, n
<1>2. \A v, p : Escaped(v, p) <=> Cardinality(Run(v, p)) % 2 = 1
  BY DEF Escaped, Run
<1>3. ASSUME NEW p \in 1 .. n + 1 PROVE Escaped(u, p) <=> Escaped(t, p)
  <2>1. Run(u, p) = Run(t, p)
    BY <1>1 DEF Run
  <2> QED
    BY <1>2, <2>1
<1>4. ASSUME c = "bs" PROVE Escaped(u, n + 2) <=> ~Escaped(t, n + 1)
  <2>1. Run(u, n + 2) = Run(t, n + 1) \cup {n + 1}
    <3>1. ASSUME NEW q \in 1 .. n + 1
          PROVE  q \in Run(u, n + 2) <=> (q = n + 1 \/ q \in Run(t, n + 1))
      <4>1. (n + 1) + 1 = n + 2 /\ (n + 2) - 1 = n + 1 /\ (n + 1) - 1 = n
        BY <1>1
      <4>2. CASE q = n + 1
        BY <1>1, <1>4, <4>1, <4>2 DEF Run
      <4>3. CASE q \in 1 .. n
        BY <1>1, <1>4, <4>1, <4>3 DEF Run
      <4> QED
        BY <1>1, <4>2, <4>3
    <3>2. Run(u, n + 2) \subseteq 1 .. n + 1 /\ Run(t, n + 1) \subseteq 1 .. n + 1
      BY <1>1 DEF Run
    <3> QED
      BY <1>1, <3>1, <3>2
  <2>2. n + 1 \notin Run(t, n + 1) /\ Run(t, n + 1) \subseteq 1 .. n
    BY <1>1 DEF Run
  <2>3. IsFiniteSet(1 .. n)
    BY <1>1, FS_Interval
  <2>4. IsFiniteSet(Run(t, n + 1))
    BY <2>2, <2>3, FS_Subset
  <2>5. Cardinality(Run(u, n + 2)) = Cardinality(Run(t, n + 1)) + 1
        /\ Cardinality(Run(t, n + 1)) \in Nat
    BY <2>1, <2>2, <2>4, FS_AddElement, FS_CardinalityType
  <2>6. \A m \in Nat : (m + 1) % 2 = 1 <=> ~(m % 2 = 1)
    OBVIOUS
  <2> QED
    BY <1>2, <2>5, <2>6
<1>5. ASSUME c # "bs" PROVE ~Escaped(u, n + 2)
  <2>1. Run(u, n + 2) = {}
    BY <1>1, <1>5 DEF Run
  <2>2. Cardinality(Run(u, n + 2)) = 0
    BY <2>1, FS_EmptySet
  <2> QED
    BY <1>2, <2>2
<1> QED
  BY <1>3, <1>4, <1>5 DEF u, n

\* One more character belongs to the line or not; the others stay what they are.
LEMMA KeptStep ==
    ASSUME NEW t \in Seq(Char), NEW c \in Char
    PROVE  /\ KeptTo(Append(t, c), Len(t)) = KeptTo(t, Len(t))
           /\ KeptTo(Append(t, c), Len(t) + 1) =
                 KeptTo(t, Len(t)) \cup
                    IF /\ c = "bs" => Escaped(t, Len(t) + 1)
                       /\ c = "nl" => ~Escaped(t, Len(t) + 1)
                    THEN {Len(t) + 1} ELSE {}
<1> DEFINE u == Append(t, c)
           n == Len(t)
<1>1. /\ n \in Nat /\ \A p \in 1 .. n : u[p] = t[p]
      /\ u[n + 1] = c
  OBVIOUS
<1>2. \A p \in 1 .. n + 1 : Escaped(u, p) <=> Escaped(t, p)
  BY EscapedStep
<1> HIDE DEF u, n
<1>3. KeptTo(u, n) = KeptTo(t, n)
  BY <1>1, <1>2 DEF KeptTo
<1>4. ASSUME NEW p \in 1 .. n + 1
      PROVE  p \in KeptTo(u, n + 1) <=>
                \/ p \in KeptTo(t, n)
                \/ p = n + 1 /\ (c = "bs" => Escaped(t, n + 1)) /\ (c = "nl" => ~Escaped(t, n + 1))
  <2>1. CASE p = n + 1
    BY <1>1, <1>2, <2>1 DEF KeptTo
  <2>2. CASE p \in 1 .. n
    BY <1>1, <1>2, <2>2 DEF KeptTo
  <2> QED
    BY <1>1, <2>1, <2>2
<1>5. KeptTo(u, n + 1) \subseteq 1 .. n + 1 /\ KeptTo(t, n) \subseteq 1 .. n + 1
  BY <1>1 DEF KeptTo
<1>6. KeptTo(u, n + 1) = KeptTo(t, n) \cup
                    IF /\ c = "bs" => Escaped(t, n + 1)
                       /\ c = "nl" => ~Escaped(t, n + 1)
                    THEN {n + 1} ELSE {}
  BY <1>1, <1>4, <1>5
<1> QED
  BY <1>3, <1>6 DEF u, n

\* The place of a position lies in front of the number of positions, and a
\* position behind all of them gets the next place.
LEMMA PlaceBound ==
    ASSUME NEW n \in Nat, NEW K, K \subseteq 1 .. n
    PROVE  /\ IsFiniteSet(K) /\ Cardinality(K) \in Nat
           /\ \A p \in K : Place(K, p) \in 0 .. Cardinality(K) - 1
           /\ LET L == K \cup {n + 1}
              IN  /\ Cardinality(L) = Cardinality(K) + 1
                  /\ Place(L, n + 1) = Cardinality(K)
                  /\ \A p \in K : Place(L, p) = Place(K, p)
<1>1. IsFiniteSet(K) /\ Cardinality(K) \in Nat
  <2>1. IsFiniteSet(1 .. n)
    BY FS_Interval
  <2>2. IsFiniteSet(K)
    BY <2>1, FS_Subset
  <2> QED
    BY <2>2, FS_CardinalityType
<1>2. ASSUME NEW p \in K PROVE Place(K, p) \in 0 .. Cardinality(K) - 1
  <2> DEFINE S == {q \in K : q < p}
  <2>1. S \subseteq K /\ p \in K /\ p \notin S
    OBVIOUS
  <2> HIDE DEF S
  <2>2. IsFiniteSet(S) /\ Cardinality(S) \in Nat /\ Cardinality(S) <= Cardinality(K)
        /\ Cardinality(S) # Cardinality(K)
    BY <1>1, <2>1, FS_Subset, FS_CardinalityType
  <2> QED
    BY <1>1, <2>2 DEF S, Place
<1>3. Cardinality(K \cup {n + 1}) = Cardinality(K) + 1
  BY <1>1, FS_AddElement
<1>4. Place(K \cup {n + 1}, n + 1) = Cardinality(K)
  <2>0. \A q \in K : q \in Nat /\ q < n + 1
    OBVIOUS
  <2>1. ~(n + 1 < n + 1)
    OBVIOUS
  <2>2. {q \in K \cup {n + 1} : q < n + 1} = K
    BY <2>0, <2>1
  <2> QED
    BY <2>2 DEF Place
<1>5. ASSUME NEW p \in K PROVE Place(K \cup {n + 1}, p) = Place(K, p)
  <2>1. {q \in K \cup {n + 1} : q < p} = {q \in K : q < p}
    OBVIOUS
  <2> QED
    BY <2>1 DEF Place
<1> QED
  BY <1>1, <1>2, <1>3, <1>4, <1>5

\* Text t with its line in b becomes text u with its line in d: the first n
\* characters and, from place m1 on, the first l of the line are the same.
Extends(n, K, t, u, b, d, l, m, m1) ==
    /\ n \in Nat /\ K \subseteq 1 .. n /\ m \in Nat /\ m1 \in Nat /\ m <= m1
    /\ Line(K, t, b, l, m)
    /\ \A p \in 1 .. n : u[p] = t[p]
    /\ \A j \in 0 .. l - 1 : j >= m1 => d[j] = b[j]

\* A character that belongs to the line is stored behind it; one that does not,
\* and process behind its index, leave the rest of the line alone.
LEMMA LineStep ==
    ASSUME NEW n, NEW K, NEW t, NEW u, NEW b, NEW d, NEW l, NEW m, NEW m1,
           Extends(n, K, t, u, b, d, l, m, m1)
    PROVE  /\ l \in Nat
           /\ Line(K, u, d, l, m1)
           /\ d[l] = u[n + 1] => Line(K \cup {n + 1}, u, d, l + 1, m1)
<1> USE DEF Extends
<1>1. /\ l = Cardinality(K) /\ \A j \in 0 .. l - 1 : \E p \in K : Place(K, p) = j
      /\ \A p \in K : Place(K, p) >= m => b[Place(K, p)] = t[p]
  BY DEF Line
<1>2. l \in Nat /\ \A p \in K : Place(K, p) \in 0 .. l - 1
  BY <1>1, PlaceBound
<1>3. \A p \in K : Place(K, p) >= m1 => d[Place(K, p)] = u[p]
  <2> TAKE p \in K
  <2>1. p \in 1 .. n /\ Place(K, p) \in 0 .. l - 1
    BY <1>2
  <2> QED
    BY <1>1, <2>1
<1>4. Line(K, u, d, l, m1)
  BY <1>1, <1>3 DEF Line
<1>5. ASSUME d[l] = u[n + 1] PROVE Line(K \cup {n + 1}, u, d, l + 1, m1)
  <2> DEFINE L == K \cup {n + 1}
  <2>1. Cardinality(L) = l + 1 /\ Place(L, n + 1) = l
        /\ \A p \in K : Place(L, p) = Place(K, p)
    BY <1>1, PlaceBound
  <2>2. /\ K \subseteq L /\ n + 1 \in L /\ \A p \in L : p \in K \/ p = n + 1
    OBVIOUS
  <2> HIDE DEF L
  <2>3. ASSUME NEW j \in 0 .. l PROVE \E p \in L : Place(L, p) = j
    <3>1. CASE j = l
      BY <2>1, <2>2, <3>1
    <3>2. CASE j \in 0 .. l - 1
      <4>1. PICK p \in K : Place(K, p) = j
        BY <1>1, <3>2
      <4> QED
        BY <2>1, <2>2, <4>1
    <3> QED
      BY <1>2, <3>1, <3>2
  <2>4. ASSUME NEW p \in L, Place(L, p) >= m1 PROVE d[Place(L, p)] = u[p]
    BY <1>3, <1>5, <2>1, <2>2, <2>4
  <2>5. Line(L, u, d, l + 1, m1)
    BY <1>2, <2>1, <2>3, <2>4 DEF Line
  <2> QED
    BY <2>5 DEF L
<1> QED
  BY <1>2, <1>4, <1>5

\* Every character read keeps what main knows of the line, and the newline hands
\* the whole of it to process.
LEMMA ReadWInv == IInv /\ WInv /\ ReadChar => WInv'
<1> SUFFICES ASSUME IInv, WInv, ReadChar PROVE WInv'
  OBVIOUS
<1> DEFINE n == Len(typed)
           K == KeptTo(typed, n)
<1>1. PICK c \in Letters \cup {"sp", "bs", "nl"} :
        /\ typed' = Append(typed, c)
        /\ ReadKept(c) \/ ReadVanishing(c) \/ ReadNewline(c)
  BY DEF ReadChar
<1>2. /\ pc = "read" /\ typed \in Seq(Char) /\ n \in Nat /\ c \in Char
      /\ i \in 0 .. buf_sz - 1 /\ escape \in {0, 1} /\ buf_sz \in Nat \ {0}
      /\ buf \in [0 .. buf_sz - 1 -> Char] /\ c # "nul" /\ BufChunk \in Nat
  BY ShellAssumption DEF ReadChar, IInv, TypeOK, LineInBounds, Char
<1>3. (escape = 1 <=> Escaped(typed, n + 1)) /\ Line(K, typed, buf, i, 0)
  BY <1>2 DEF WInv, Reading
<1>4. K \subseteq 1 .. n
  BY DEF KeptTo
<1>5. Len(typed') = n + 1 /\ typed'[n + 1] = c /\ \A p \in 1 .. n : typed'[p] = typed[p]
  BY <1>1, <1>2
<1>6. /\ KeptTo(typed', n) = K
      /\ KeptTo(typed', n + 1) = K \cup IF /\ c = "bs" => Escaped(typed, n + 1)
                                           /\ c = "nl" => ~Escaped(typed, n + 1)
                                        THEN {n + 1} ELSE {}
      /\ Escaped(typed', n + 2) <=> (c = "bs" /\ ~Escaped(typed, n + 1))
  BY <1>1, <1>2, KeptStep, EscapedStep
<1>7. Kept(typed') = K
  BY <1>2, <1>5, <1>6 DEF Kept, KeptTo
<1> HIDE DEF n, K
<1>8. Len(typed') + 1 = n + 2
  BY <1>2, <1>5
<1>9. CASE ReadKept(c)
  <2>1. /\ pc' = "read" /\ i' = i + 1 /\ escape' = 0
        /\ c # "nl" /\ (c = "bs" => escape = 1)
    BY <1>2, <1>9 DEF ReadKept, Vanishes
  <2>2. buf'[i] = c /\ \A j \in 0 .. i - 1 : buf'[j] = buf[j]
    BY <1>2, <1>9 DEF ReadKept, Resized
  <2>3. KeptTo(typed', n + 1) = K \cup {n + 1} /\ ~Escaped(typed', n + 2)
    BY <1>3, <1>6, <2>1
  <2>4. Line(K \cup {n + 1}, typed', buf', i + 1, 0)
    <3>1. Extends(n, K, typed, typed', buf, buf', i, 0, 0)
      BY <1>2, <1>3, <1>4, <1>5, <2>2 DEF Extends
    <3> QED
      BY <1>5, <2>2, <3>1, LineStep
  <2>4a. escape' = 1 <=> Escaped(typed', Len(typed') + 1)
    BY <1>8, <2>1, <2>3
  <2>5. Reading'
    BY <1>5, <2>1, <2>3, <2>4, <2>4a DEF Reading
  <2> QED
    BY <2>1, <2>5 DEF WInv, Words0
<1>10. CASE ReadVanishing(c)
  <2>1. /\ pc' = "read" /\ i' = i /\ escape' = IF c = "bs" THEN 1 ELSE 0
        /\ \A j \in 0 .. i - 1 : buf'[j] = buf[j]
        /\ (c = "nl" /\ escape = 1) \/ (c = "bs" /\ escape = 0)
    BY <1>2, <1>10 DEF ReadVanishing, Vanishes
  <2>2. KeptTo(typed', n + 1) = K
    BY <1>3, <1>6, <2>1
  <2>2a. escape' = 1 <=> Escaped(typed', Len(typed') + 1)
    BY <1>3, <1>6, <1>8, <2>1
  <2>3. Line(K, typed', buf', i, 0)
    <3>1. Extends(n, K, typed, typed', buf, buf', i, 0, 0)
      BY <1>2, <1>3, <1>4, <1>5, <2>1 DEF Extends
    <3> QED
      BY <3>1, LineStep
  <2>4. Reading'
    BY <1>5, <2>1, <2>2, <2>2a, <2>3 DEF Reading
  <2> QED
    BY <2>1, <2>4 DEF WInv, Words0
<1>11. CASE ReadNewline(c)
  <2>1. /\ pc' = "split" /\ i' = i /\ escape' = 0 /\ k' = 0 /\ com' = Null /\ newarg' = 0
        /\ argc' = 0 /\ buf' = [buf EXCEPT ![i] = "nul"]
    BY <1>11 DEF ReadNewline
  <2>2. \A j \in 0 .. i - 1 : buf'[j] = buf[j]
    BY <1>2, <2>1
  <2>3. Line(Kept(typed'), typed', buf', i', 0)
    <3>1. Extends(n, K, typed, typed', buf, buf', i, 0, 0)
      BY <1>2, <1>3, <1>4, <1>5, <2>2 DEF Extends
    <3> QED
      BY <1>7, <2>1, <3>1, LineStep
  <2>4. i' = Cardinality(Kept(typed'))
    BY <2>3 DEF Line
  <2>5. {args'[j] : j \in 0 .. argc' - 1} = {} /\ {m \in 0 .. k' - 1 : Starts(typed', m)} = {}
    BY <2>1
  <2>6. Words0'
    BY <2>1, <2>3, <2>4, <2>5 DEF Words0
  <2> QED
    BY <2>1, <2>6 DEF WInv, Reading
<1> QED
  BY <1>1, <1>9, <1>10, <1>11

\* The byte process looks at is a blank if a blank was typed there.
LEMMA BlankHere ==
    ASSUME IInv, WInv, NotYet
    PROVE  BlankAt(typed, k) <=> buf[k] \in Blank
<1> DEFINE K == Kept(typed)
<1>1. Line(K, typed, buf, i, k) /\ k \in 0 .. i /\ i \in Nat /\ buf[i] = "nul"
  BY DEF IInv, WInv, Words0, NotYet, Length, TypeOK, Splitting
<1>2. K \subseteq 1 .. Len(typed) /\ Len(typed) \in Nat
  BY DEF IInv, TypeOK, Kept
<1>3. \A p : Index(typed, p) = Place(K, p)
  BY DEF Index, Place
<1> HIDE DEF K
<1>4. \A p \in K : Place(K, p) \in 0 .. i - 1
  BY <1>1, <1>2, PlaceBound DEF Line
<1>5. BlankAt(typed, k) <=> \E p \in K : Place(K, p) = k /\ typed[p] \in Blank
  BY <1>3 DEF BlankAt, K
<1>6. CASE k = i
  BY <1>1, <1>4, <1>5, <1>6 DEF Blank
<1>7. CASE k \in 0 .. i - 1
  <2>1. PICK p \in K : Place(K, p) = k
    BY <1>1, <1>7 DEF Line
  <2>2. \A q \in K : Place(K, q) = k => typed[q] = buf[k]
    BY <1>1, <1>7 DEF Line
  <2> QED
    BY <1>5, <2>1, <2>2
<1> QED
  BY <1>1, <1>6, <1>7

\* One more place of the line: the words that begin there.
LEMMA StartsStep ==
    ASSUME NEW t, NEW n \in Nat
    PROVE  {m \in 0 .. n : Starts(t, m)} =
              {m \in 0 .. n - 1 : Starts(t, m)} \cup {m \in {n} : Starts(t, m)}
  OBVIOUS

\* Every turn of the splitter keeps what it knows of the words.
LEMMA SplitWInv ==
    IInv /\ WInv /\ (SplitLeading \/ SplitCommand \/ SplitBlank \/ SplitChar) => WInv'
<1> SUFFICES ASSUME IInv, WInv, SplitLeading \/ SplitCommand \/ SplitBlank \/ SplitChar
             PROVE  WInv'
  OBVIOUS
<1>1. NotYet /\ pc = "split" /\ pc' = "split" /\ UNCHANGED <<typed, i, escape>> /\ k' = k + 1
  BY DEF SplitLeading, SplitCommand, SplitBlank, SplitChar, NotYet, main
<1>2. /\ k \in 0 .. i /\ i \in Nat /\ buf_sz \in Nat /\ i < buf_sz
      /\ buf \in [0 .. buf_sz - 1 -> Char]
      /\ argc \in Nat /\ argc < args_sz /\ args_sz \in Nat
      /\ args \in [0 .. args_sz - 1 -> Nat \cup {Null}]
      /\ \A j \in 0 .. argc - 1 : args[j] \in 0 .. k - 1
      /\ newarg \in {0, 1} /\ Null = -1 /\ (com = Null => argc = 0) /\ com \in Nat \cup {Null}
      /\ (com # Null => argc > 0)
  BY <1>1 DEF IInv, TypeOK, ArgvTerminated, Splitting, NotYet, Length, Null
<1>3. /\ escape = 0 /\ Line(Kept(typed), typed, buf, i, k) /\ i = Cardinality(Kept(typed))
      /\ {args[j] : j \in 0 .. argc - 1} = {m \in 0 .. k - 1 : Starts(typed, m)}
      /\ \A j \in 1 .. argc - 1 : args[j - 1] < args[j]
      /\ com = Null => newarg = 0 /\ \A m \in 0 .. k - 1 : BlankAt(typed, m)
      /\ com # Null => k > 0 /\ (newarg = 1 <=> BlankAt(typed, k - 1))
  BY <1>1 DEF WInv, Reading, Words0
<1>4. BlankAt(typed, k) <=> buf[k] \in Blank
  BY <1>1, BlankHere
<1>5. {m \in 0 .. k : Starts(typed, m)} =
         {args[j] : j \in 0 .. argc - 1} \cup {m \in {k} : Starts(typed, m)}
  <2>1. k \in Nat
    BY <1>2
  <2>2. {m \in 0 .. k : Starts(typed, m)} =
           {m \in 0 .. k - 1 : Starts(typed, m)} \cup {m \in {k} : Starts(typed, m)}
    BY <2>1, StartsStep
  <2> QED
    BY <1>3, <2>2
<1>6. Reading'
  BY <1>1, <1>3 DEF Reading
<1>7. \A j \in 0 .. i - 1 : j >= k + 1 => buf'[j] = buf[j]
  BY <1>2 DEF SplitLeading, SplitCommand, SplitBlank, SplitChar, main
<1>8. Line(Kept(typed), typed, buf', i, k + 1)
  <2>1. Kept(typed) \subseteq 1 .. Len(typed) /\ Len(typed) \in Nat
    BY DEF IInv, TypeOK, Kept
  <2>2. Extends(Len(typed), Kept(typed), typed, typed, buf, buf', i, k, k + 1)
    BY <1>2, <1>3, <1>7, <2>1 DEF Extends
  <2> QED
    BY <2>2, LineStep
<1>9. ASSUME /\ {args'[j] : j \in 0 .. argc' - 1} = {m \in 0 .. k : Starts(typed, m)}
             /\ \A j \in 1 .. argc' - 1 : args'[j - 1] < args'[j]
             /\ com' = Null => newarg' = 0 /\ \A m \in 0 .. k : BlankAt(typed, m)
             /\ com' # Null => (newarg' = 1 <=> BlankAt(typed, k))
      PROVE  WInv'
  <2>1. k' - 1 = k /\ k' > 0
    BY <1>1, <1>2
  <2>2. Words0'
    BY <1>1, <1>3, <1>8, <1>9, <2>1 DEF Words0
  <2> QED
    BY <1>6, <2>2 DEF WInv
<1> DEFINE W == {m \in 0 .. k : Starts(typed, m)}
<1>10. ASSUME ~Starts(typed, k), UNCHANGED <<argc>>, \A j \in 0 .. argc - 1 : args'[j] = args[j]
       PROVE  /\ {args'[j] : j \in 0 .. argc' - 1} = W
              /\ \A j \in 1 .. argc' - 1 : args'[j - 1] < args'[j]
  <2>1. {m \in {k} : Starts(typed, m)} = {}
    BY <1>10
  <2>2. W = {args[j] : j \in 0 .. argc - 1}
    BY <1>5, <2>1
  <2>3. \A j \in 1 .. argc - 1 : args'[j - 1] < args'[j]
    BY <1>2, <1>3, <1>10
  <2> HIDE DEF W
  <2> QED
    BY <1>10, <2>2, <2>3
<1>11. ASSUME Starts(typed, k), argc' = argc + 1, args'[argc] = k,
              \A j \in 0 .. argc - 1 : args'[j] = args[j]
       PROVE  /\ {args'[j] : j \in 0 .. argc' - 1} = W
              /\ \A j \in 1 .. argc' - 1 : args'[j - 1] < args'[j]
  <2>1. {m \in {k} : Starts(typed, m)} = {k}
    BY <1>11
  <2>2. W = {args[j] : j \in 0 .. argc - 1} \cup {k}
    BY <1>5, <2>1
  <2>3. 0 .. argc' - 1 = (0 .. argc - 1) \cup {argc}
    BY <1>2, <1>11
  <2>4. {args'[j] : j \in 0 .. argc' - 1} = {args[j] : j \in 0 .. argc - 1} \cup {k}
    BY <1>11, <2>3
  <2>5. \A j \in 1 .. argc' - 1 : args'[j - 1] < args'[j]
    <3> TAKE j \in 1 .. argc' - 1
    <3>1. CASE j = argc
      BY <1>2, <1>11, <3>1
    <3>2. CASE j \in 1 .. argc - 1
      BY <1>2, <1>3, <1>11, <3>2
    <3> QED
      BY <1>2, <1>11, <3>1, <3>2
  <2> QED
    BY <2>2, <2>4, <2>5
<1> HIDE DEF W
<1>12. CASE SplitLeading
  <2>1. /\ com = Null /\ com' = Null /\ BlankAt(typed, k)
        /\ UNCHANGED <<args, argc, newarg>>
    BY <1>4, <1>12 DEF SplitLeading
  <2>2. ~Starts(typed, k)
    BY <2>1 DEF Starts
  <2>3. \A m \in 0 .. k : BlankAt(typed, m)
    BY <1>2, <1>3, <2>1
  <2> QED
    BY <1>3, <1>9, <1>10, <2>1, <2>2, <2>3 DEF W
<1>13. CASE SplitCommand
  <2>1. /\ com = Null /\ com' = k /\ ~BlankAt(typed, k) /\ argc' = argc + 1
        /\ args' = [args EXCEPT ![argc] = k] /\ newarg' = newarg
    BY <1>4, <1>13 DEF SplitCommand
  <2>2. Starts(typed, k)
    BY <1>2, <1>3, <2>1 DEF Starts
  <2>3. args'[argc] = k /\ \A j \in 0 .. argc - 1 : args'[j] = args[j]
    BY <1>2, <2>1
  <2>4. newarg' = 0 /\ com' # Null
    BY <1>2, <1>3, <2>1
  <2> QED
    BY <1>9, <1>11, <2>1, <2>2, <2>3, <2>4 DEF W
<1>14. CASE SplitBlank
  <2>1. /\ com # Null /\ com' = com /\ BlankAt(typed, k) /\ newarg' = 1
        /\ UNCHANGED <<args, argc>>
    BY <1>4, <1>14 DEF SplitBlank
  <2>2. ~Starts(typed, k)
    BY <2>1 DEF Starts
  <2> QED
    BY <1>9, <1>10, <2>1, <2>2 DEF W
<1>15. CASE SplitChar
  <2>1. /\ com # Null /\ com' = com /\ ~BlankAt(typed, k) /\ newarg' = 0
        /\ argc' = IF newarg = 1 THEN argc + 1 ELSE argc
    BY <1>4, <1>15 DEF SplitChar
  <2>2. \A j \in 0 .. argc - 1 : args'[j] = args[j]
    BY <1>2, <1>15, ShellAssumption DEF SplitChar, Full, Resized
  <2>3. CASE newarg = 1
    <3>1. args'[argc] = k
      BY <1>2, <1>15, <2>3, ShellAssumption DEF SplitChar, Full, Resized
    <3>2. Starts(typed, k)
      BY <1>3, <2>1, <2>3 DEF Starts
    <3> QED
      BY <1>9, <1>11, <2>1, <2>2, <2>3, <3>1, <3>2 DEF W
  <2>4. CASE newarg # 1
    <3>1. ~Starts(typed, k)
      BY <1>2, <1>3, <2>1, <2>4 DEF Starts
    <3> QED
      BY <1>9, <1>10, <2>1, <2>2, <2>4, <3>1 DEF W
  <2> QED
    BY <2>3, <2>4
<1> QED
  BY <1>12, <1>13, <1>14, <1>15

\* The empty text has an empty line, and no backslash in front of what comes.
LEMMA EmptyText ==
    ASSUME NEW t, t = <<>>, NEW b
    PROVE  /\ Len(t) = 0 /\ ~Escaped(t, Len(t) + 1)
           /\ Line(KeptTo(t, Len(t)), t, b, 0, 0)
<1>1. Len(t) = 0 /\ Len(t) + 1 = 1
  OBVIOUS
<1>2. Run(t, 1) = {} /\ KeptTo(t, 0) = {}
  BY DEF Run, KeptTo
<1>3. Cardinality({}) = 0 /\ 0 % 2 = 0
  BY FS_EmptySet
<1>4. Cardinality(Run(t, 1)) % 2 = 0
  BY <1>2, <1>3
<1>5. Escaped(t, 1) <=> Cardinality(Run(t, 1)) % 2 = 1
  BY DEF Escaped, Run
<1>6. ~Escaped(t, 1)
  BY <1>4, <1>5
<1>7. Line({}, t, b, 0, 0)
  BY <1>3 DEF Line
<1> QED
  BY <1>1, <1>2, <1>6, <1>7

\* Commands and children leave the words alone, and the prompt begins a new text.
LEMMA NextWInv == IInv /\ WInv /\ [Next]_vars => WInv'
<1> SUFFICES ASSUME IInv, WInv, [Next]_vars PROVE WInv'
  OBVIOUS
<1>1. CASE ReadChar
  BY <1>1, ReadWInv
<1>2. CASE SplitLeading \/ SplitCommand \/ SplitBlank \/ SplitChar
  BY <1>2, SplitWInv
<1>3. CASE SplitEnd
  <2>1. /\ pc = "split" /\ pc' = "dispatch" /\ k = i + 1
        /\ UNCHANGED <<typed, i, buf, escape, k, args, argc>>
    BY <1>3 DEF SplitEnd, Length, main, proc
  <2>2. Words0'
    BY <2>1 DEF WInv, Words0
  <2> QED
    BY <2>1, <2>2 DEF WInv, Reading
<1>4. ASSUME pc \in {"split", "dispatch", "waiting"}, Prompt, UNCHANGED escape
      PROVE  WInv'
  <2>1. pc' = "read" /\ i' = 0 /\ typed' = <<>> /\ escape' = 0
    BY <1>4 DEF Prompt, WInv, Reading
  <2>2. /\ ~Escaped(typed', Len(typed') + 1)
        /\ Line(KeptTo(typed', Len(typed')), typed', buf', 0, 0)
    BY <2>1, EmptyText
  <2>3. Reading'
    BY <2>1, <2>2 DEF Reading
  <2> QED
    BY <2>1, <2>3 DEF WInv, Words0
<1>5. ASSUME pc' \in {"done", "crashed"} PROVE WInv'
  BY <1>5 DEF WInv, Reading, Words0
<1>6. ASSUME UNCHANGED <<typed, main, proc>>, pc' = pc \/ (pc = "dispatch" /\ pc' = "waiting")
      PROVE  WInv'
  BY <1>6 DEF WInv, Reading, Words0, main, proc
<1>7. CASE Eof \/ SplitCrash
  BY <1>5, <1>7 DEF Eof, SplitCrash
<1>8. CASE SetOrExit
  BY <1>4, <1>8 DEF SetOrExit
<1>9. CASE Cd
  BY <1>4, <1>9 DEF Cd
<1>10. CASE Which
  <2>1. pc = "dispatch" /\ UNCHANGED escape /\ (pc' = "crashed" \/ Prompt)
    BY <1>10 DEF Which
  <2> QED
    BY <1>4, <1>5, <2>1
<1>11. CASE Fork \/ ChildExec \/ ChildExits
  BY <1>6, <1>11 DEF Fork, ChildExec, ChildExits
<1>12. CASE ForkFails
  BY <1>4, <1>12 DEF ForkFails
<1>13. CASE Reap
  BY <1>4, <1>13 DEF Reap
<1>14. CASE UNCHANGED vars
  BY <1>6, <1>14 DEF vars
<1> QED
  BY <1>1, <1>2, <1>3, <1>7, <1>8, <1>9, <1>10, <1>11, <1>12, <1>13, <1>14
     DEF Next, Process, Child

LEMMA InitWInv == Init => WInv
<1> SUFFICES ASSUME Init PROVE WInv
  OBVIOUS
<1>1. pc = "read" /\ typed = <<>> /\ i = 0 /\ escape = 0
  BY DEF Init
<1>2. /\ ~Escaped(typed, Len(typed) + 1)
      /\ Line(KeptTo(typed, Len(typed)), typed, buf, 0, 0)
  BY <1>1, EmptyText
<1> QED
  BY <1>1, <1>2 DEF WInv, Reading, Words0

\* For every alphabet, growth step and length of input, with escapes anywhere:
\* process is given the text that was typed without its escapes, and the
\* built-ins and execvp the words of that text, each once and in order.
THEOREM LineAndWords == Spec => [](LineIsTyped /\ ArgsAreWords)
<1>1. IInv /\ WInv => LineIsTyped
  <2> SUFFICES ASSUME IInv, WInv, pc = "split", k = 0
               PROVE  /\ i = Cardinality(Kept(typed))
                      /\ \A p \in Kept(typed) : buf[Index(typed, p)] = typed[p]
    BY DEF LineIsTyped
  <2>1. Line(Kept(typed), typed, buf, i, 0)
    BY DEF WInv, Words0
  <2>2. Kept(typed) \subseteq 1 .. Len(typed) /\ Len(typed) \in Nat
    BY DEF IInv, TypeOK, Kept
  <2>3. \A p \in Kept(typed) : Place(Kept(typed), p) >= 0
    <3>1. Cardinality(Kept(typed)) \in Nat
          /\ \A p \in Kept(typed) : Place(Kept(typed), p) \in 0 .. Cardinality(Kept(typed)) - 1
      BY <2>2, PlaceBound
    <3> QED
      BY <3>1
  <2>4. \A p : Index(typed, p) = Place(Kept(typed), p)
    BY DEF Index, Place
  <2> QED
    BY <2>1, <2>3, <2>4 DEF Line
<1>2. IInv /\ WInv => ArgsAreWords
  <2> SUFFICES ASSUME IInv, WInv, pc = "dispatch"
               PROVE  {args[j] : j \in 0 .. argc - 1} = Words(typed)
    BY DEF ArgsAreWords, WInv, Words0
  <2> DEFINE n == Cardinality(Kept(typed))
  <2>1. /\ i = n /\ k = n + 1 /\ n \in Nat
        /\ {args[j] : j \in 0 .. argc - 1} = {m \in 0 .. k - 1 : Starts(typed, m)}
    BY DEF WInv, Words0, IInv, TypeOK
  <2>2. ~BlankAt(typed, n)
    <3>1. Kept(typed) \subseteq 1 .. Len(typed) /\ Len(typed) \in Nat
      BY DEF IInv, TypeOK, Kept
    <3>2. \A p \in Kept(typed) : Place(Kept(typed), p) \in 0 .. n - 1
      BY <3>1, PlaceBound
    <3>3. \A p : Index(typed, p) = Place(Kept(typed), p)
      BY DEF Index, Place
    <3> QED
      BY <2>1, <3>2, <3>3 DEF BlankAt
  <2> HIDE DEF n
  <2>3. Words(typed) =
           {m \in 0 .. n - 1 : ~BlankAt(typed, m) /\ (m = 0 \/ BlankAt(typed, m - 1))}
           \cup (IF n = 0 \/ BlankAt(typed, n - 1) THEN {n} ELSE {})
    BY DEF Words, BlankAt, n
  <2>4. {m \in 0 .. n - 1 : Starts(typed, m)} =
           {m \in 0 .. n - 1 : ~BlankAt(typed, m) /\ (m = 0 \/ BlankAt(typed, m - 1))}
    BY DEF Starts
  <2>5. {m \in {n} : Starts(typed, m)} = IF n = 0 \/ BlankAt(typed, n - 1) THEN {n} ELSE {}
    BY <2>2 DEF Starts
  <2>6. {m \in 0 .. n : Starts(typed, m)} =
           {m \in 0 .. n - 1 : Starts(typed, m)} \cup {m \in {n} : Starts(typed, m)}
    BY <2>1, StartsStep
  <2>7. k - 1 = n
    BY <2>1
  <2> QED
    BY <2>1, <2>3, <2>4, <2>5, <2>6, <2>7
<1> QED
  BY InitIInv, NextIInv, InitWInv, NextWInv, <1>1, <1>2, PTL DEF Spec
=============================================================================
