------------------------------ MODULE LexProofs -----------------------------
(***************************************************************************)
(* lex for every alphabet, chunk size and length of input: the line buffer *)
(* never overflows, every fgets makes progress, parse is given whole lines *)
(* only, and the third section comes out as it went in.                    *)
(***************************************************************************)
EXTENDS Lex, FiniteSetTheorems, TLAPS

\* While a line is being read, a newline can only be its last character.
NewlineLast ==
    pc \in {"more", "line"} =>
        \A j \in 1 .. Len(buffer) - 1 : buffer[j] # nl

\* The inductive invariant.
IInv == TypeOK /\ BufferFits /\ NewlineLast /\ WholeLines
          /\ (pc = "getline" => buffer_sz = 0 \/ buffer_sz >= CHUNK_SIZE)

\* What fgets delivers is a sequence of fewer than m characters without an
\* inner newline, and it is empty only if m leaves no room.
LEMMA ChunkLemma ==
    ASSUME NEW mm \in Nat, mm >= 2, NEW s \in Chunks(mm)
    PROVE  /\ s \in Seq(Char) /\ Len(s) > 0 /\ Len(s) < mm
           /\ \A j \in 1 .. Len(s) - 1 : s[j] # nl
  BY DEF Chunks

LEMMA LastChunkLemma ==
    ASSUME NEW mm \in Nat, mm >= 2, NEW s \in LastChunks(mm)
    PROVE  /\ s \in Seq(Char) /\ Len(s) < mm
           /\ \A j \in 1 .. Len(s) : s[j] # nl
  BY DEF LastChunks

\* One fgets behind a line without a newline: the line and its '\0' fit, and a
\* newline can only be last; without the end of the file it grew.
LEMMA FgetsLemma ==
    ASSUME NEW kept \in Seq(Char), NEW mm \in Nat, mm >= 2,
           \A j \in 1 .. Len(kept) : kept[j] # nl,
           eof \in {0, 1}, left \in Nat, errs \in Nat,
           Fgets(kept, mm)
    PROVE  /\ buffer' \in Seq(Char) /\ eof' \in {0, 1}
           /\ left' \in Nat /\ errs' \in Nat
           /\ Len(buffer') < Len(kept) + mm /\ Len(buffer') >= Len(kept)
           /\ \A j \in 1 .. Len(buffer') - 1 : buffer'[j] # nl
  <1>1. PICK s \in Seq(Char) :
            /\ Len(s) < mm
            /\ \A j \in 1 .. Len(s) - 1 : s[j] # nl
            /\ left >= Len(s) /\ buffer' = kept \o s /\ left' = left - Len(s)
            /\ eof' \in {0, 1}
    <2>1. CASE \E s \in Chunks(mm) : /\ eof' = eof /\ left >= Len(s)
                                     /\ buffer' = kept \o s /\ left' = left - Len(s)
      BY <2>1, ChunkLemma
    <2>2. CASE \E s \in LastChunks(mm) : /\ eof' = 1 /\ left >= Len(s)
                                         /\ buffer' = kept \o s /\ left' = left - Len(s)
      <3>1. PICK s \in LastChunks(mm) : /\ eof' = 1 /\ left >= Len(s)
                                        /\ buffer' = kept \o s /\ left' = left - Len(s)
        BY <2>2
      <3>2. s \in Seq(Char) /\ Len(s) < mm /\ \A j \in 1 .. Len(s) - 1 : s[j] # nl
        BY LastChunkLemma
      <3> QED BY <3>1, <3>2
    <2> QED BY <2>1, <2>2 DEF Fgets
  <1>2. Len(buffer') = Len(kept) + Len(s) /\ buffer' \in Seq(Char)
    BY <1>1
  <1>3. \A j \in 1 .. Len(buffer') :
            buffer'[j] = IF j <= Len(kept) THEN kept[j] ELSE s[j - Len(kept)]
    BY <1>1, <1>2
  <1>4. \A j \in 1 .. Len(buffer') - 1 : buffer'[j] # nl
    <2> SUFFICES ASSUME NEW j \in 1 .. Len(buffer') - 1 PROVE buffer'[j] # nl
      OBVIOUS
    <2>1. CASE j <= Len(kept) BY <2>1, <1>2, <1>3
    <2>2. CASE j > Len(kept)
      <3>1. j - Len(kept) \in 1 .. Len(s) - 1 BY <2>2, <1>1, <1>2
      <3>2. buffer'[j] = s[j - Len(kept)] BY <2>2, <1>2, <1>3
      <3> QED BY <3>1, <3>2, <1>1
    <2> QED BY <2>1, <2>2, <1>2
  <1> QED BY <1>1, <1>2, <1>4 DEF Fgets

\* The buffer has room for a character and its '\0' after every growth.
LEMMA SizeLemma ==
    ASSUME NEW len \in Nat, buffer_sz \in Nat, len < buffer_sz
    PROVE  /\ Size(len) \in Nat /\ Size(len) >= buffer_sz
           /\ Size(len) - len \in Nat /\ Size(len) - len >= 2
  BY LexAssumption DEF Size

\* The inductive invariant holds at the start, and every step keeps it.
LEMMA InitIInv == Init => IInv
  BY LexAssumption DEF Init, IInv, TypeOK, BufferFits, NewlineLast, WholeLines, SECTION_MAX

LEMMA NextIInv == IInv /\ [Next]_vars => IInv'
  <1> USE LexAssumption
  <1> SUFFICES ASSUME IInv, [Next]_vars PROVE IInv' OBVIOUS
  <1> USE DEF IInv, TypeOK, BufferFits, NewlineLast, WholeLines, SECTION_MAX,
              SECTION_SUBROUTINES, stream, options
  <1>1. CASE Configure BY <1>1 DEF Configure
  <1>2. CASE Usage BY <1>2 DEF Usage
  <1>3. CASE OpenNext BY <1>3 DEF OpenNext
  <1>4. CASE OpenFails BY <1>4 DEF OpenFails
  <1>5. CASE AllParsed BY <1>5 DEF AllParsed
  <1>6. CASE Release BY <1>6 DEF Release
  <1>7. CASE GetFirst
    <2>1. First \in Nat /\ First >= 2 /\ First >= CHUNK_SIZE
      BY <1>7 DEF GetFirst, First
    <2>2. /\ buffer' \in Seq(Char) /\ eof' \in {0, 1}
          /\ left' \in Nat /\ errs' \in Nat
          /\ Len(buffer') < First /\ Len(buffer') \in Nat
          /\ \A j \in 1 .. Len(buffer') - 1 : buffer'[j] # nl
      <3>1. /\ <<>> \in Seq(Char) /\ Len(<<>>) = 0
            /\ \A j \in 1 .. Len(<<>>) : <<>>[j] # nl
        OBVIOUS
      <3>2. Fgets(<<>>, First) /\ eof \in {0, 1} /\ left \in Nat /\ errs \in Nat
        BY <1>7 DEF GetFirst
      <3>3. /\ buffer' \in Seq(Char) /\ eof' \in {0, 1}
            /\ left' \in Nat /\ errs' \in Nat
            /\ Len(buffer') < Len(<<>>) + First
            /\ \A j \in 1 .. Len(buffer') - 1 : buffer'[j] # nl
        <4> HIDE DEF IInv
        <4> QED BY ONLY <3>1, <3>2, <2>1, FgetsLemma
      <3> QED BY <3>1, <3>3, <2>1
    <2>3. TypeOK' BY <1>7, <2>1, <2>2 DEF GetFirst
    <2>4. pc' = "more" => Len(buffer') > 0
      BY <1>7, <2>2 DEF GetFirst
    <2>5. BufferFits'
      <3> SUFFICES ASSUME pc' = "more" PROVE BufferFits'
        BY <1>7 DEF GetFirst
      <3>1. Len(buffer') < buffer_sz' /\ buffer_sz' \in Nat /\ buffer_sz' >= CHUNK_SIZE
        BY <1>7, <2>1, <2>2 DEF GetFirst
      <3>2. Size(Len(buffer))' - Len(buffer') >= 2
        BY <3>1, <2>2 DEF Size
      <3> QED BY <3>1, <3>2, <2>4
    <2> QED BY <1>7, <2>2, <2>3, <2>5 DEF GetFirst
  <1>8. CASE GetNone BY <1>8 DEF GetNone
  <1>9. CASE GetMore
    <2>1. \A j \in 1 .. Len(buffer) : buffer[j] # nl
      BY <1>9 DEF GetMore, Whole
    <2>2. /\ buffer_sz' \in Nat /\ buffer_sz' >= buffer_sz
          /\ buffer_sz' - Len(buffer) \in Nat /\ buffer_sz' - Len(buffer) >= 2
      BY <1>9, SizeLemma DEF GetMore
    <2>3. /\ buffer' \in Seq(Char) /\ eof' \in {0, 1}
          /\ left' \in Nat /\ errs' \in Nat
          /\ Len(buffer') < Len(buffer) + (buffer_sz' - Len(buffer))
          /\ Len(buffer') >= Len(buffer)
          /\ \A j \in 1 .. Len(buffer') - 1 : buffer'[j] # nl
      <3> HIDE DEF BufferFits, NewlineLast, WholeLines
      <3> QED BY <2>1, <2>2, <1>9, FgetsLemma DEF GetMore
    <2>4. TypeOK' BY <1>9, <2>2, <2>3 DEF GetMore
    <2>5. BufferFits'
      <3>1. Len(buffer') < buffer_sz' /\ Len(buffer') > 0 /\ buffer_sz' >= CHUNK_SIZE
        BY <1>9, <2>2, <2>3 DEF GetMore
      <3>2. Size(Len(buffer))' - Len(buffer') >= 2
        BY <3>1, <2>2, <2>3 DEF Size
      <3> QED BY <3>1, <3>2
    <2> QED BY <1>9, <2>3, <2>4, <2>5 DEF GetMore
  <1>10. CASE GetMoreError
    <2>1. /\ buffer_sz' \in Nat /\ buffer_sz' >= buffer_sz
          /\ buffer_sz' - Len(buffer) >= 2
      BY <1>10, SizeLemma DEF GetMoreError
    <2>2. Size(Len(buffer))' - Len(buffer') >= 2
      BY <2>1, <1>10 DEF GetMoreError, Size
    <2> QED BY <1>10, <2>1, <2>2 DEF GetMoreError
  <1>11. CASE GrowFails BY <1>11 DEF GrowFails
  <1>12. CASE GotLine
    <2>1. Size(Len(buffer))' = Size(Len(buffer)) BY <1>12 DEF GotLine, Size
    <2> QED BY <1>12, <2>1 DEF GotLine, Whole
  <1>13. CASE NextSection BY <1>13 DEF NextSection
  <1>14. CASE ParseTraced BY <1>14 DEF ParseTraced, InSection
  <1>15. CASE parse_subroutines BY <1>15 DEF parse_subroutines, InSection
  <1>16. CASE ParseCrash BY <1>16 DEF ParseCrash, InSection
  <1>17. CASE UNCHANGED vars
    <2>1. Size(Len(buffer))' = Size(Len(buffer)) BY <1>17 DEF vars, Size
    <2> QED BY <1>17, <2>1 DEF vars
  <1> QED BY <1>1, <1>2, <1>3, <1>4, <1>5, <1>6, <1>7, <1>8, <1>9, <1>10,
             <1>11, <1>12, <1>13, <1>14, <1>15, <1>16, <1>17 DEF Next

\* lex keeps its line inside the buffer, always reads at least one more
\* character unless the file ends, and hands parse whole lines only, whatever
\* the chunk size, the files and the reads and allocations that fail.
THEOREM Safety == Spec => [](TypeOK /\ BufferFits /\ WholeLines)
  <1>1. IInv => TypeOK /\ BufferFits /\ WholeLines
    BY DEF IInv
  <1> QED
    BY InitIInv, NextIInv, <1>1, PTL DEF Spec

-----------------------------------------------------------------------------
\* The section is the number of delimiters parse has been given.
Sections ==
    pc # "crash" => section = Delims(seen, Len(seen) + 1) /\ OutputIsSubroutines

Rank(K, p) == Cardinality({q \in K : q <= p})

\* One more line counts if it is a delimiter, and belongs to the third section
\* if it is none and two have come before.
LEMMA LineCounts ==
    ASSUME NEW s \in Seq(Seq(Char)), NEW l \in Seq(Char)
    PROVE  /\ Delims(s, Len(s) + 1) \in Nat
           /\ Delims(Append(s, l), Len(s) + 2) =
                 Delims(s, Len(s) + 1) + IF IsDelim(l) THEN 1 ELSE 0
           /\ ~IsDelim(l) /\ Delims(s, Len(s) + 1) = 2
                 => Third(Append(s, l)) = Third(s) \cup {Len(s) + 1}
           /\ ~(~IsDelim(l) /\ Delims(s, Len(s) + 1) = 2)
                 => Third(Append(s, l)) = Third(s)
<1> DEFINE u == Append(s, l)
           n == Len(s)
           D(t, p) == {q \in 1 .. p - 1 : IsDelim(t[q])}
<1>1. n \in Nat /\ Len(u) = n + 1 /\ u[n + 1] = l /\ \A p \in 1 .. n : u[p] = s[p]
  OBVIOUS
<1> HIDE DEF u, n
<1>2. \A t, p : Delims(t, p) = Cardinality(D(t, p))
  BY DEF Delims
<1>3. ASSUME NEW p \in 1 .. n + 1 PROVE Delims(u, p) = Delims(s, p)
  <2>1. D(u, p) = D(s, p)
    BY <1>1
  <2> HIDE DEF D
  <2> QED
    BY <1>2, <2>1
<1>4. IsFiniteSet(D(s, n + 1)) /\ n + 1 \notin D(s, n + 1)
  <2>1. D(s, n + 1) \subseteq 1 .. n
    BY <1>1
  <2>2. IsFiniteSet(1 .. n)
    <3>1. n \in Int /\ 1 \in Int
      BY <1>1
    <3> QED
      BY ONLY <3>1, FS_Interval
  <2> HIDE DEF D
  <2> QED
    BY <1>1, <2>1, <2>2, FS_Subset
<1>5. IsDelim(l) => D(u, n + 2) = D(s, n + 1) \cup {n + 1}
  <2> SUFFICES ASSUME IsDelim(l) PROVE D(u, n + 2) = D(s, n + 1) \cup {n + 1}
    OBVIOUS
  <2>1. ASSUME NEW q \in 1 .. n + 1
        PROVE  q \in D(u, n + 2) <=> (q = n + 1 \/ q \in D(s, n + 1))
    <3>1. (n + 2) - 1 = n + 1 /\ (n + 1) - 1 = n
      BY <1>1
    <3>2. CASE q = n + 1
      BY <1>1, <3>1, <3>2
    <3>3. CASE q \in 1 .. n
      BY <1>1, <3>1, <3>3
    <3> QED
      BY <1>1, <3>2, <3>3
  <2>2. D(u, n + 2) \subseteq 1 .. n + 1 /\ D(s, n + 1) \subseteq 1 .. n + 1
    BY <1>1
  <2> QED
    BY <1>1, <2>1, <2>2
<1>6. ~IsDelim(l) => D(u, n + 2) = D(s, n + 1)
  <2> SUFFICES ASSUME ~IsDelim(l) PROVE D(u, n + 2) = D(s, n + 1)
    OBVIOUS
  <2>1. ASSUME NEW q \in 1 .. n + 1
        PROVE  q \in D(u, n + 2) <=> q \in D(s, n + 1)
    <3>1. (n + 2) - 1 = n + 1 /\ (n + 1) - 1 = n
      BY <1>1
    <3>2. CASE q = n + 1
      BY <1>1, <3>1, <3>2
    <3>3. CASE q \in 1 .. n
      BY <1>1, <3>1, <3>3
    <3> QED
      BY <1>1, <3>2, <3>3
  <2>2. D(u, n + 2) \subseteq 1 .. n + 1 /\ D(s, n + 1) \subseteq 1 .. n + 1
    BY <1>1
  <2> QED
    BY <1>1, <2>1, <2>2
<1> HIDE DEF D
<1>7. Delims(s, n + 1) \in Nat
  BY <1>2, <1>4, FS_CardinalityType
<1>8. Delims(u, n + 2) = Delims(s, n + 1) + IF IsDelim(l) THEN 1 ELSE 0
  <2>1. CASE IsDelim(l)
    <3>1. Cardinality(D(u, n + 2)) = Cardinality(D(s, n + 1)) + 1
      BY <1>4, <1>5, <2>1, FS_AddElement
    <3> QED
      BY <1>2, <2>1, <3>1
  <2>2. CASE ~IsDelim(l)
    BY <1>2, <1>6, <1>7, <2>2
  <2> QED
    BY <2>1, <2>2
<1>9. ASSUME NEW p \in 1 .. n + 1
      PROVE  p \in Third(u) <=>
                p \in Third(s) \/ (p = n + 1 /\ ~IsDelim(l) /\ Delims(s, n + 1) = 2)
  <2>1. CASE p = n + 1
    BY <1>1, <1>3, <2>1 DEF Third, n
  <2>2. CASE p \in 1 .. n
    BY <1>1, <1>3, <2>2 DEF Third, n
  <2> QED
    BY <1>1, <2>1, <2>2
<1>10. Third(u) \subseteq 1 .. n + 1 /\ Third(s) \subseteq 1 .. n + 1
  BY <1>1 DEF Third, n
<1>11. ~IsDelim(l) /\ Delims(s, n + 1) = 2 => Third(u) = Third(s) \cup {n + 1}
  BY <1>1, <1>9, <1>10
<1>12. ~(~IsDelim(l) /\ Delims(s, n + 1) = 2) => Third(u) = Third(s)
  BY <1>1, <1>9, <1>10
<1> QED
  BY <1>7, <1>8, <1>11, <1>12 DEF u, n

\* A line copied gets the next rank, and the ranks of the others stay.
LEMMA RankStep ==
    ASSUME NEW n \in Nat, NEW K, K \subseteq 1 .. n
    PROVE  /\ Cardinality(K) \in Nat
           /\ \A p \in K : Rank(K, p) \in 1 .. Cardinality(K)
           /\ Cardinality(K \cup {n + 1}) = Cardinality(K) + 1
           /\ Rank(K \cup {n + 1}, n + 1) = Cardinality(K) + 1
           /\ \A p \in K : Rank(K \cup {n + 1}, p) = Rank(K, p)
<1>1. IsFiniteSet(K) /\ Cardinality(K) \in Nat /\ \A p \in K : p \in Nat /\ p < n + 1
  <2>1. IsFiniteSet(1 .. n)
    BY FS_Interval
  <2>2. IsFiniteSet(K)
    BY <2>1, FS_Subset
  <2> QED
    BY <2>2, FS_CardinalityType
<1>2. ASSUME NEW p \in K PROVE Rank(K, p) \in 1 .. Cardinality(K)
  <2> DEFINE S == {q \in K : q <= p}
  <2>1. S \subseteq K /\ p \in S
    BY <1>1
  <2> HIDE DEF S
  <2>2. IsFiniteSet(S) /\ Cardinality(S) \in Nat /\ Cardinality(S) <= Cardinality(K)
    BY <1>1, <2>1, FS_Subset, FS_CardinalityType
  <2>3. Cardinality(S) # 0
    BY <2>1, <2>2, FS_EmptySet
  <2> QED
    BY <1>1, <2>2, <2>3 DEF S, Rank
<1>3. Cardinality(K \cup {n + 1}) = Cardinality(K) + 1
  BY <1>1, FS_AddElement
<1>4. Rank(K \cup {n + 1}, n + 1) = Cardinality(K) + 1
  <2>0. n + 1 <= n + 1 /\ \A q \in K : q <= n + 1
    BY <1>1
  <2>1. {q \in K \cup {n + 1} : q <= n + 1} = K \cup {n + 1}
    BY <2>0
  <2> QED
    BY <1>3, <2>1 DEF Rank
<1>5. ASSUME NEW p \in K PROVE Rank(K \cup {n + 1}, p) = Rank(K, p)
  <2>0. p \in Nat /\ ~(n + 1 <= p)
    BY <1>1
  <2>1. {q \in K \cup {n + 1} : q <= p} = {q \in K : q <= p}
    BY <2>0
  <2> QED
    BY <2>1 DEF Rank
<1> QED
  BY <1>1, <1>2, <1>3, <1>4, <1>5

\* A line parse has been given moves on, is dropped or is copied.
LEMMA NextSections == IInv /\ Sections /\ [Next]_vars => Sections'
<1> SUFFICES ASSUME IInv, Sections, [Next]_vars, pc' # "crash" PROVE Sections'
  BY DEF Sections
<1> DEFINE n == Len(seen)
           d == Delims(seen, n + 1)
           K == Third(seen)
<1>1. /\ seen \in Seq(Seq(Char)) /\ n \in Nat /\ buffer \in Seq(Char) /\ out \in Seq(Seq(Char))
      /\ section \in 0 .. 3
  BY DEF IInv, TypeOK, SECTION_MAX
<1>2. K \subseteq 1 .. n
  BY DEF Third
<1>3. CASE pc = "crash"
  BY <1>3 DEF Next, vars, Configure, Usage, OpenNext, OpenFails, AllParsed, Release, GetFirst,
     GetNone, GetMore, GetMoreError, GrowFails, GotLine, NextSection, ParseTraced,
     parse_subroutines, ParseCrash, InSection
<1>4. CASE pc # "crash" /\ UNCHANGED <<section, out, seen>>
  BY <1>4 DEF Sections, OutputIsSubroutines
<1>5. CASE pc # "crash" /\ seen' = Append(seen, buffer)
           /\ \/ IsDelim(buffer) /\ section' = section + 1 /\ out' = out
              \/ ~IsDelim(buffer) /\ section' = section
                 /\ IF section = 2 THEN out' = Append(out, buffer) ELSE out' = out
  <2>1. /\ section = d /\ Len(out) = Cardinality(K)
        /\ \A p \in K : out[Rank(K, p)] = seen[p]
    BY <1>5 DEF Sections, OutputIsSubroutines, Rank
  <2>2. /\ Delims(seen', n + 2) = d + IF IsDelim(buffer) THEN 1 ELSE 0
        /\ ~IsDelim(buffer) /\ d = 2 => Third(seen') = K \cup {n + 1}
        /\ ~(~IsDelim(buffer) /\ d = 2) => Third(seen') = K
        /\ d \in Nat
    BY <1>1, <1>5, LineCounts
  <2>3. Len(seen') = n + 1 /\ seen'[n + 1] = buffer /\ \A p \in 1 .. n : seen'[p] = seen[p]
    BY <1>1, <1>5
  <2>4. (n + 1) + 1 = n + 2
    BY <1>1
  <2> HIDE DEF n, d, K
  <2>5. section' = Delims(seen', Len(seen') + 1)
    BY <1>5, <2>1, <2>2, <2>3, <2>4
  <2>6. OutputIsSubroutines'
    <3>1. CASE ~IsDelim(buffer) /\ d = 2
      <4>1. out' = Append(out, buffer)
        BY <1>5, <2>1, <3>1
      <4>2. Len(out') = Len(out) + 1 /\ out'[Len(out) + 1] = buffer /\ Len(out) \in Nat
            /\ \A j \in 1 .. Len(out) : out'[j] = out[j]
        BY <1>1, <4>1
      <4> DEFINE L == K \cup {n + 1}
      <4>3. /\ \A p \in K : Rank(K, p) \in 1 .. Cardinality(K)
            /\ Cardinality(L) = Cardinality(K) + 1
            /\ Rank(L, n + 1) = Cardinality(K) + 1
            /\ \A p \in K : Rank(L, p) = Rank(K, p)
        BY <1>1, <1>2, RankStep
      <4>4. \A p \in L : p = n + 1 \/ (p \in K /\ p \in 1 .. n)
        BY <1>2
      <4> HIDE DEF L
      <4>5. ASSUME NEW p \in L PROVE out'[Rank(L, p)] = seen'[p]
        BY <2>1, <2>3, <4>2, <4>3, <4>4
      <4>6. Third(seen') = L
        BY <2>2, <3>1 DEF L
      <4> QED
        BY <2>1, <4>2, <4>3, <4>5, <4>6 DEF OutputIsSubroutines, Rank
    <3>2. CASE ~(~IsDelim(buffer) /\ d = 2)
      <4>1. out' = out /\ Third(seen') = K
        BY <1>5, <2>1, <2>2, <3>2
      <4> QED
        BY <1>2, <2>1, <2>3, <4>1 DEF OutputIsSubroutines, Rank
    <3> QED
      BY <3>1, <3>2
  <2> QED
    BY <2>5, <2>6 DEF Sections
<1>6. CASE NextSection
  BY <1>5, <1>6 DEF NextSection
<1>7. CASE ParseTraced \/ parse_subroutines
  <2>1. /\ pc # "crash" /\ seen' = Append(seen, buffer) /\ section' = section
        /\ section <= SECTION_MAX /\ ~IsDelim(buffer)
        /\ IF section = 2 THEN out' = Append(out, buffer) ELSE out' = out
    BY <1>1, <1>7 DEF ParseTraced, parse_subroutines, InSection, SECTION_SUBROUTINES, SECTION_MAX
  <2> QED
    BY <1>5, <2>1
<1>8. CASE ParseCrash
  BY <1>8 DEF ParseCrash
<1> QED
  BY <1>3, <1>4, <1>6, <1>7, <1>8 DEF Next, vars, Configure, Usage, OpenNext, OpenFails,
     AllParsed, Release, GetFirst, GetNone, GetMore, GetMoreError, GrowFails, GotLine

\* For every text, spread over any number of files and read in pieces of any
\* size, through reads and allocations that fail: what is written is the third
\* section, each of its lines once and in order.
THEOREM CopiesThirdSection == Spec => []OutputIsSubroutines
<1>1. Init => Sections
  <2> SUFFICES ASSUME Init PROVE Sections
    OBVIOUS
  <2>1. seen = <<>> /\ out = <<>> /\ section = 0 /\ Len(seen) + 1 = 1 /\ Len(out) = 0
    BY DEF Init
  <2>2. {q \in 1 .. 0 : IsDelim(seen[q])} = {} /\ Third(seen) = {} /\ 1 - 1 = 0
    BY <2>1 DEF Third
  <2>3. Cardinality({}) = 0
    BY FS_EmptySet
  <2>4. Delims(seen, 1) = 0
    BY <2>2, <2>3 DEF Delims
  <2> QED
    BY <2>1, <2>2, <2>3, <2>4 DEF Sections, OutputIsSubroutines
<1>2. Sections => OutputIsSubroutines
  BY DEF Sections, OutputIsSubroutines
<1> QED
  BY InitIInv, NextIInv, NextSections, <1>1, <1>2, PTL DEF Spec
=============================================================================
