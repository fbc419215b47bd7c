--------------------------- MODULE OldBootProofs ---------------------------
(***************************************************************************)
(* Proofs about the boot chain of boot/i386_fat.old: boot0, which loads,   *)
(* and fat_reader, which looks at the same volume (Fat); boot1 and boot2,  *)
(* from the memory map to the report on the screen (Boot2).  The constants *)
(* and variables of the two have nothing in common; what they share are    *)
(* the lemmas on recursive functions in front.                             *)
(***************************************************************************)
EXTENDS Boot2, Fat, WellFoundedInduction, TLAPS

-----------------------------------------------------------------------------
\* A nonempty set of naturals has a least element.
LEMMA Least ==
    ASSUME NEW T, T \subseteq Nat, T # {}
    PROVE  \E x \in T : \A y \in T : x <= y
<1> DEFINE R == OpToRel(<, Nat)
<1>1. IsWellFoundedOn(R, Nat)
  BY NatLessThanWellFounded
<1> HIDE DEF R
<1>2. PICK x \in T : \A y \in T : ~(<<y, x>> \in R)
  BY <1>1, WFMin
<1>3. \A y \in T : x <= y
  <2> TAKE y \in T
  <2>1. ~(<<y, x>> \in R) /\ x \in Nat /\ y \in Nat
    BY <1>2
  <2>2. ~(y < x)
    BY <2>1 DEF R, OpToRel
  <2> QED
    BY <2>1, <2>2
<1> QED
  BY <1>3

\* What it takes to define a function on the naturals by its value z at 0 and,
\* at x, from its value at a smaller number p[x].
Steps(S, z, H, p) ==
    /\ z \in S /\ H \in [Nat -> [S -> S]] /\ p \in [Nat -> Nat]
    /\ \A x \in Nat \ {0} : p[x] < x
Defined(f, S, z, H, p) ==
    f \in [Nat -> S] /\ f[0] = z /\ \A x \in Nat \ {0} : f[x] = H[x][f[p[x]]]

\* There is such a function.
LEMMA Recursion ==
    ASSUME NEW S, NEW z, NEW H, NEW p, Steps(S, z, H, p)
    PROVE  \E f : Defined(f, S, z, H, p)
<1> USE DEF Steps
<1> DEFINE Upto(g, n) ==
        /\ g \in [0 .. n -> S] /\ g[0] = z
        /\ \A x \in 1 .. n : g[x] = H[x][g[p[x]]]
<1>1. ASSUME NEW m \in Nat, NEW n \in Nat, NEW g, NEW h, Upto(g, m), Upto(h, n)
      PROVE  \A x \in Nat : x <= m /\ x <= n => g[x] = h[x]
  <2> DEFINE T == {x \in Nat : x <= m /\ x <= n /\ g[x] # h[x]}
  <2>1. SUFFICES ASSUME T # {} PROVE FALSE
    OBVIOUS
  <2>2. T \subseteq Nat
    OBVIOUS
  <2> HIDE DEF T
  <2>3. PICK x \in T : \A y \in T : x <= y
    BY <2>1, <2>2, Least
  <2>4. x \in Nat /\ x <= m /\ x <= n /\ g[x] # h[x]
    BY <2>3 DEF T
  <2>5. x # 0
    BY <1>1, <2>4
  <2>6. p[x] \in Nat /\ p[x] < x
    BY <2>4, <2>5
  <2>7. p[x] \notin T
    BY <2>3, <2>4, <2>6
  <2>8. g[p[x]] = h[p[x]]
    BY <2>4, <2>6, <2>7 DEF T
  <2>9. g[x] = H[x][g[p[x]]] /\ h[x] = H[x][h[p[x]]]
    BY <1>1, <2>4, <2>5
  <2> QED
    BY <2>4, <2>8, <2>9
<1>2. \A n \in Nat : \E g : Upto(g, n)
  <2> DEFINE T == {n \in Nat : ~\E g : Upto(g, n)}
  <2>1. SUFFICES ASSUME T # {} PROVE FALSE
    OBVIOUS
  <2>2. T \subseteq Nat
    OBVIOUS
  <2> HIDE DEF T
  <2>3. PICK n \in T : \A y \in T : n <= y
    BY <2>1, <2>2, Least
  <2>4. n \in Nat /\ ~\E g : Upto(g, n)
    BY <2>3 DEF T
  <2>5. n # 0
    <3>1. Upto([x \in 0 .. 0 |-> z], 0)
      OBVIOUS
    <3> HIDE DEF Upto
    <3> QED
      BY <2>4, <3>1
  <2>6. n - 1 \in Nat /\ n - 1 \notin T
    BY <2>3, <2>4, <2>5
  <2>7. PICK g : Upto(g, n - 1)
    BY <2>6 DEF T
  <2> DEFINE v == H[n][g[p[n]]]
             h == [x \in 0 .. n |-> IF x = n THEN v ELSE g[x]]
  <2>8. p[n] \in 0 .. n - 1 /\ g[p[n]] \in S /\ v \in S
    BY <2>4, <2>5, <2>7
  <2> HIDE DEF v
  <2>9. h \in [0 .. n -> S] /\ h[0] = z
    BY <2>4, <2>5, <2>7, <2>8
  <2>10. ASSUME NEW x \in 1 .. n PROVE h[x] = H[x][h[p[x]]]
    <3>1. p[x] \in 0 .. n - 1 /\ h[p[x]] = g[p[x]]
      <4>1. x \in Nat \ {0} /\ p[x] \in Nat /\ p[x] < x
        BY <2>4
      <4> QED
        BY <2>4, <4>1
    <3>2. CASE x = n
      BY <2>4, <3>1, <3>2 DEF v
    <3>3. CASE x \in 1 .. n - 1
      BY <2>4, <2>7, <3>1, <3>3
    <3> QED
      BY <2>4, <3>2, <3>3
  <2> QED
    BY <2>4, <2>9, <2>10
<1> DEFINE F == [n \in Nat |-> CHOOSE g : Upto(g, n)]
           f == [x \in Nat |-> F[x][x]]
<1>3. \A n \in Nat : Upto(F[n], n)
  BY <1>2
<1> HIDE DEF F
<1>4. f \in [Nat -> S] /\ f[0] = z
  <2>1. \A x \in Nat : F[x] \in [0 .. x -> S] /\ F[x][0] = z
    BY <1>3
  <2>2. \A x \in Nat : x \in 0 .. x
    OBVIOUS
  <2>3. \A x \in Nat : F[x][x] \in S
    BY <2>1, <2>2
  <2> QED
    BY <2>1, <2>3
<1>5. ASSUME NEW x \in Nat \ {0} PROVE f[x] = H[x][f[p[x]]]
  <2>1. p[x] \in Nat /\ p[x] < x /\ x \in Nat
    OBVIOUS
  <2>2. Upto(F[x], x) /\ Upto(F[p[x]], p[x])
    BY <1>3, <2>1
  <2>3. F[x][p[x]] = F[p[x]][p[x]]
    <3> HIDE DEF Upto
    <3>1. PICK q \in Nat : q = p[x] /\ q <= x /\ q <= q
      BY <2>1
    <3>2. PICK g : g = F[x] /\ Upto(g, x)
      BY <2>2
    <3>3. PICK h : h = F[q] /\ Upto(h, q)
      BY <2>2, <3>1
    <3>4. x \in Nat /\ q \in Nat
      BY <2>1
    <3>5. \A y \in Nat : y <= x /\ y <= q => g[y] = h[y]
      BY ONLY <1>1, <3>2, <3>3, <3>4
    <3> QED
      BY <3>1, <3>2, <3>3, <3>5, Zenon
  <2>4. F[x][x] = H[x][F[x][p[x]]]
    <3>1. x \in 1 .. x
      BY <2>1
    <3> HIDE DEF f
    <3> QED
      BY <2>2, <3>1
  <2> QED
    BY <2>1, <2>3, <2>4
<1> HIDE DEF f
<1> QED
  BY <1>4, <1>5 DEF Defined

\* ... in particular from the value right below it, up to any number.
StepsTo(n, S, z, H) == n \in Nat /\ z \in S /\ H \in [1 .. n -> [S -> S]]
DefinedTo(f, n, S, z, H) ==
    f \in [0 .. n -> S] /\ f[0] = z /\ \A k \in 1 .. n : f[k] = H[k][f[k - 1]]

LEMMA PrimitiveRecursion ==
    ASSUME NEW n, NEW S, NEW z, NEW H, StepsTo(n, S, z, H)
    PROVE  \E f : DefinedTo(f, n, S, z, H)
<1> USE DEF StepsTo
<1> DEFINE p == [k \in Nat |-> IF k = 0 THEN 0 ELSE k - 1]
           I == [k \in Nat |-> [s \in S |-> IF k \in 1 .. n THEN H[k][s] ELSE z]]
<1>1. Steps(S, z, I, p)
  BY DEF Steps
<1>2. \A k \in 1 .. n : k \in Nat \ {0} /\ p[k] = k - 1 /\ \A s \in S : I[k][s] = H[k][s]
  OBVIOUS
<1> HIDE DEF p, I
<1>3. PICK f : Defined(f, S, z, I, p)
  BY <1>1, Recursion
<1> DEFINE g == [k \in 0 .. n |-> f[k]]
<1>4. g \in [0 .. n -> S] /\ g[0] = z
  BY <1>3 DEF Defined
<1>5. ASSUME NEW k \in 1 .. n PROVE g[k] = H[k][g[k - 1]]
  <2>1. k \in Nat /\ k - 1 \in 0 .. n /\ k \in 0 .. n /\ f[k - 1] \in S
    BY <1>3 DEF Defined
  <2>2. f[k] = I[k][f[p[k]]]
    BY <1>2, <1>3 DEF Defined
  <2>3. f[k] = H[k][f[k - 1]]
    BY <1>2, <2>1, <2>2
  <2> QED
    BY <2>1, <2>3
<1> HIDE DEF g
<1> QED
  BY <1>4, <1>5 DEF DefinedTo

\* Two functions defined in the same way agree.
Alike(f, g, n) ==
    n \in Nat /\ f[0] = g[0] /\ \A k \in 1 .. n : f[k - 1] = g[k - 1] => f[k] = g[k]

LEMMA Agree ==
    ASSUME NEW n, NEW f, NEW g, Alike(f, g, n)
    PROVE  \A k \in 0 .. n : f[k] = g[k]
<1> USE DEF Alike
<1> DEFINE T == {k \in 0 .. n : f[k] # g[k]}
<1>1. SUFFICES ASSUME T # {} PROVE FALSE
  OBVIOUS
<1>2. T \subseteq Nat
  OBVIOUS
<1> HIDE DEF T
<1>3. PICK k \in T : \A y \in T : k <= y
  BY <1>1, <1>2, Least
<1>4. k \in 0 .. n /\ f[k] # g[k] /\ k # 0
  BY <1>3 DEF T
<1>5. k - 1 \in 0 .. n /\ k - 1 \notin T /\ k \in 1 .. n
  BY <1>3, <1>4
<1> QED
  BY <1>4, <1>5 DEF T

\* Division by a positive number: the quotient and the rest, which are unique.
LEMMA Division ==
    ASSUME NEW x \in Nat, NEW w \in Nat \ {0}
    PROVE  \E d \in Nat : \E m \in 0 .. w - 1 :
               d = x \div w /\ m = x % w /\ x = d * w + m
<1>1. PICK d : d = x \div w
  OBVIOUS
<1>2. PICK m : m = x % w
  OBVIOUS
<1>a. d \in Nat /\ m \in 0 .. w - 1 /\ m \in Nat
  BY <1>1, <1>2
<1>b. x - w * d = m
  BY <1>1, <1>2
<1>3. d \in Nat /\ m \in 0 .. w - 1 /\ x = d * w + m
  <2>1. x = d * w + m
    BY <1>a, <1>b
  <2> QED
    BY <1>a, <2>1
<1> QED
  BY <1>1, <1>2, <1>3

LEMMA Unique ==
    ASSUME NEW w \in Nat \ {0}, NEW q \in Nat, NEW r \in 0 .. w - 1
    PROVE  (q * w + r) % w = r /\ (q * w + r) \div w = q
OBVIOUS

\* A sum taken modulo w term by term is the sum modulo w.
LEMMA ModSum ==
    ASSUME NEW a \in Nat, NEW b \in Nat, NEW w \in Nat \ {0}
    PROVE ((a % w) + b) % w = (a + b) % w
<1>1. PICK q \in Nat : \E r \in 0 .. w - 1 : r = a % w /\ a = q * w + r
  BY Division
<1>b. PICK r \in 0 .. w - 1 : r = a % w /\ a = q * w + r
  BY <1>1
<1>2. r + b \in Nat
  OBVIOUS
<1>3. PICK q2 \in Nat : \E r2 \in 0 .. w - 1 : r2 = (r + b) % w /\ r + b = q2 * w + r2
  BY <1>2, Division
<1>c. PICK r2 \in 0 .. w - 1 : r2 = (r + b) % w /\ r + b = q2 * w + r2
  BY <1>3
<1>a. r2 = ((a % w) + b) % w
  BY <1>b, <1>c, Zenon
<1>4. a + b = (q + q2) * w + r2
  <2>1. (q + q2) * w = q * w + q2 * w
    OBVIOUS
  <2>2. PICK u : u = q * w /\ u \in Nat
    OBVIOUS
  <2>3. PICK v : v = q2 * w /\ v \in Nat
    OBVIOUS
  <2>4. a = u + r /\ r + b = v + r2
    BY <1>b, <1>c, <2>2, <2>3
  <2>5. a + b = u + v + r2
    BY <2>2, <2>3, <2>4
  <2> QED
    BY <2>1, <2>2, <2>3, <2>5
<1>5. ((q + q2) * w + r2) % w = r2
  <2>1. q + q2 \in Nat
    BY <1>1, <1>3
  <2> QED BY <2>1, <1>3, Unique
<1> QED
  BY <1>4, <1>5, <1>a, Zenon

-----------------------------------------------------------------------------
\* The entries the BIOS has given.
G == Len(given)

\* What is used of the constants.
LEMMA Constants ==
    /\ TABLE \in Nat \ {0} /\ WORD \in Nat \ {0} /\ WORD \div UINT16 <= UINT16
    /\ MaxMap \in Nat /\ MaxMap < UINT16 /\ UINT16 \in Nat \ {0}
    /\ Paragraphs \in Nat /\ Paragraphs <= 4096 /\ DL \in 0 .. 255
<1>1. UINT16 \in Nat \ {0}
  BY DEF UINT16
<1>2. MaxMap \in 0 .. UINT16 - 1
  BY Boot2Assumption
<1>3. Paragraphs \in 0 .. 4096
  BY Boot2Assumption
<1>4. TABLE \in Nat \ {0} /\ WORD \in Nat \ {0} /\ WORD \div UINT16 <= UINT16
      /\ DL \in 0 .. 255
  BY Boot2Assumption
<1> QED
  BY <1>1, <1>2, <1>3, <1>4

\* Up to the last call the count is 0; bp counts the entries, which lie in the
\* order they came in, and only the last call sets the count.
MapOK ==
    /\ pc \in {"start", "a20", "e820", "entry32", "wild", "clear", "clearing", "greet",
               "entries", "sum", "usable", "reclaimable", "locate", "address", "version",
               "drive", "bytes", "halt", "trap"}
    /\ given \in Seq(Entry) /\ entries \in [1 .. MaxMap -> Entry \cup {NoEntry}]
    /\ bp = G /\ bp <= MaxMap
    /\ \A k \in 1 .. bp : entries[k] = given[k]
    /\ pc \in {"start", "a20", "e820"} => count = 0
    /\ count = 0 \/ (count = bp /\ whole = 1)

DriveOK ==
    G <= TABLE => intact = 1 /\ sector_size = 512 /\ (pc # "start" => num = DL)

IInv == MapOK /\ DriveOK

\* An entry is stored at its place, and what lies behind the table changes only
\* when it does.
LEMMA StoreLemma ==
    ASSUME MapOK, NEW e \in Entry, Store(bp + 1, e), given' = Append(given, e),
           bp < MaxMap
    PROVE  /\ given' \in Seq(Entry) /\ G' = bp + 1
           /\ entries' \in [1 .. MaxMap -> Entry \cup {NoEntry}]
           /\ \A k \in 1 .. bp + 1 : entries'[k] = given'[k]
           /\ bp + 1 <= TABLE => UNCHANGED <<num, sector_size, intact>>
<1>0. bp \in Nat /\ MaxMap \in Nat /\ TABLE \in Nat /\ bp = Len(given)
  BY Constants DEF MapOK, G
<1>1. /\ given' \in Seq(Entry) /\ Len(given') = Len(given) + 1
      /\ given'[Len(given) + 1] = e /\ \A k \in 1 .. Len(given) : given'[k] = given[k]
  BY DEF MapOK
<1>2. entries' = [entries EXCEPT ![bp + 1] = e]
  BY DEF Store
<1>3. /\ entries' \in [1 .. MaxMap -> Entry \cup {NoEntry}] /\ entries'[bp + 1] = e
      /\ \A k \in 1 .. bp : entries'[k] = entries[k]
  BY <1>0, <1>2 DEF MapOK
<1>4. \A k \in 1 .. bp + 1 : entries'[k] = given'[k]
  <2>1. TAKE k \in 1 .. bp + 1
  <2>2. CASE k \in 1 .. bp
    BY <1>0, <1>1, <1>3, <2>2 DEF MapOK
  <2>3. CASE k = bp + 1
    BY <1>0, <1>1, <1>3, <2>3
  <2> QED
    BY <1>0, <2>2, <2>3
<1>5. bp + 1 <= TABLE => UNCHANGED <<num, sector_size, intact>>
  BY <1>0 DEF Store
<1> QED
  BY <1>0, <1>1, <1>3, <1>4, <1>5 DEF G

\* The initial states satisfy the inductive invariant.
LEMMA InitIInv == Init => IInv
<1> SUFFICES ASSUME Init PROVE IInv
  OBVIOUS
<1>1. given = <<>> /\ <<>> \in Seq(Entry) /\ Len(<<>>) = 0
  BY DEF Init
<1>2. MaxMap \in Nat
  BY Constants
<1> QED
  BY <1>1, <1>2 DEF Init, IInv, MapOK, DriveOK, G

\* Every call of the BIOS and every step of entry32 preserves it.
LEMMA NextIInv == IInv /\ [Next]_vars => IInv'
<1> SUFFICES ASSUME IInv, [Next]_vars PROVE IInv'
  OBVIOUS
<1>0. MapOK /\ DriveOK
  BY DEF IInv
<1>n. bp \in Nat /\ MaxMap \in Nat /\ TABLE \in Nat /\ G = bp
  BY <1>0, Constants DEF MapOK, G
<1>k. given' = given => G' = G
  BY DEF G
<1>1. CASE Start
  BY <1>0, <1>k, <1>1 DEF Start, IInv, MapOK, DriveOK
<1>2. CASE enable_a20
  BY <1>0, <1>k, <1>2 DEF enable_a20, table, IInv, MapOK, DriveOK
<1>3. CASE E820
  <2>1. PICK e \in Entry : Store(bp + 1, e) /\ given' = Append(given, e)
    BY <1>3 DEF E820
  <2>2. bp' = bp + 1 /\ bp < MaxMap - 1 /\ pc = "e820" /\ UNCHANGED <<pc, count, whole>>
    BY <1>3 DEF E820
  <2>3. bp < MaxMap
    BY <1>n, <2>2
  <2>4. /\ given' \in Seq(Entry) /\ G' = bp + 1
        /\ entries' \in [1 .. MaxMap -> Entry \cup {NoEntry}]
        /\ \A k \in 1 .. bp + 1 : entries'[k] = given'[k]
        /\ bp + 1 <= TABLE => UNCHANGED <<num, sector_size, intact>>
    BY <1>0, <2>1, <2>3, StoreLemma
  <2>5. MapOK'
    <3>1. count = 0 /\ pc' = "e820" /\ count' = 0 /\ bp' = G' /\ bp' <= MaxMap
      BY <1>0, <1>n, <2>2, <2>3, <2>4 DEF MapOK
    <3> QED
      BY <2>2, <2>4, <3>1 DEF MapOK
  <2>6. DriveOK'
    BY <1>0, <1>n, <2>2, <2>4 DEF DriveOK
  <2> QED
    BY <2>5, <2>6 DEF IInv
<1>4. CASE E820Done
  <2>1. PICK e \in Entry : Store(bp + 1, e) /\ given' = Append(given, e)
    BY <1>4 DEF E820Done
  <2>2. bp' = bp + 1 /\ bp < MaxMap /\ pc = "e820" /\ pc' = "entry32"
        /\ count' = bp' /\ whole' = 1
    BY <1>4 DEF E820Done
  <2>4. /\ given' \in Seq(Entry) /\ G' = bp + 1
        /\ entries' \in [1 .. MaxMap -> Entry \cup {NoEntry}]
        /\ \A k \in 1 .. bp + 1 : entries'[k] = given'[k]
        /\ bp + 1 <= TABLE => UNCHANGED <<num, sector_size, intact>>
    BY <1>0, <2>1, <2>2, StoreLemma
  <2>5. MapOK'
    BY <1>0, <1>n, <2>2, <2>4 DEF MapOK
  <2>6. DriveOK'
    BY <1>0, <1>n, <2>2, <2>4 DEF DriveOK
  <2> QED
    BY <2>5, <2>6 DEF IInv
<1>5. CASE E820Fails
  BY <1>0, <1>k, <1>5 DEF E820Fails, table, IInv, MapOK, DriveOK
<1>6. CASE Enter
  BY <1>0, <1>k, <1>6 DEF Enter, table, IInv, MapOK, DriveOK
<1>7. CASE Wild
  BY <1>0, <1>k, <1>7 DEF Wild, table, IInv, MapOK, DriveOK
<1>8. CASE Clear
  BY <1>0, <1>k, <1>8 DEF Clear, table, IInv, MapOK, DriveOK
<1>9. CASE ClearForEver
  BY <1>0, <1>k, <1>9 DEF ClearForEver, table, IInv, MapOK, DriveOK
<1>10. CASE Report
  <2>1. /\ pc \in {"greet", "entries", "sum", "usable", "reclaimable", "address",
                   "version", "drive", "bytes"}
        /\ pc' \in {"entries", "sum", "usable", "reclaimable", "locate", "version",
                    "drive", "bytes", "halt"}
    BY <1>10 DEF Report, Line
  <2>2. UNCHANGED table
    BY <1>10 DEF Report
  <2> QED
    BY <1>0, <1>k, <2>1, <2>2 DEF table, IInv, MapOK, DriveOK
<1>11. CASE Trap
  BY <1>0, <1>k, <1>11 DEF Trap, table, IInv, MapOK, DriveOK
<1>12. CASE Sum
  <2>1. UNCHANGED <<pc, table>>
    BY <1>12 DEF Sum
  <2> QED
    BY <1>0, <1>k, <2>1 DEF table, IInv, MapOK, DriveOK
<1>13. CASE locate_smbios_entry
  <2>1. pc = "locate" /\ pc' = "address" /\ UNCHANGED table
    BY <1>13 DEF locate_smbios_entry
  <2> QED
    BY <1>0, <1>k, <2>1 DEF table, IInv, MapOK, DriveOK
<1>14. CASE UNCHANGED vars
  BY <1>0, <1>k, <1>14 DEF vars, table, IInv, MapOK, DriveOK
<1> QED
  BY <1>1, <1>2, <1>3, <1>4, <1>5, <1>6, <1>7, <1>8, <1>9, <1>10, <1>11, <1>12, <1>13,
     <1>14 DEF Next

\* For every table and every BIOS: entry32 is handed the whole map, in its order,
\* or none of it, and a map that fits the table leaves the drive, its sector size
\* and the code alone.
THEOREM Safety == Spec => [](MapWholeOrEmpty /\ DriveKept)
<1>1. IInv => MapWholeOrEmpty /\ DriveKept
  BY DEF IInv, MapOK, DriveOK, G, MapWholeOrEmpty, DriveKept
<1> QED
  BY InitIInv, NextIInv, <1>1, PTL DEF Spec

-----------------------------------------------------------------------------
\* The digits of a number, with none for 0, and the numbers that the first
\* digits stand for.
DigitsOf(base) ==
    CHOOSE d : d = [x \in Nat |-> IF x = 0 THEN <<>> ELSE Append(d[x \div base], x % base)]
Values(s, base) ==
    CHOOSE v : v = [k \in 0 .. Len(s) |-> IF k = 0 THEN 0 ELSE v[k - 1] * base + s[k]]

LEMMA DigitsDefined ==
    ASSUME NEW base \in {10, 16}
    PROVE  /\ DigitsOf(base) \in [Nat -> Seq(Nat)] /\ DigitsOf(base)[0] = <<>>
           /\ \A x \in Nat \ {0} :
                 /\ x \div base \in Nat /\ x \div base < x /\ x % base \in Nat
                 /\ DigitsOf(base)[x] = Append(DigitsOf(base)[x \div base], x % base)
<1> DEFINE p == [x \in Nat |-> x \div base]
           H == [x \in Nat |-> [s \in Seq(Nat) |-> Append(s, x % base)]]
           d == DigitsOf(base)
<1>1. ASSUME NEW x \in Nat
      PROVE  /\ x \div base \in Nat /\ x % base \in Nat
             /\ x # 0 => x \div base < x
  <2>1. CASE base = 10
    BY <2>1
  <2>2. CASE base = 16
    BY <2>2
  <2> QED
    BY <2>1, <2>2
<1>2. Steps(Seq(Nat), <<>>, H, p)
  BY <1>1 DEF Steps
<1>3. \A x \in Nat : p[x] = x \div base /\ \A s \in Seq(Nat) : H[x][s] = Append(s, x % base)
  OBVIOUS
<1> HIDE DEF p, H
<1>4. PICK f : Defined(f, Seq(Nat), <<>>, H, p)
  BY <1>2, Recursion
<1>5. f \in [Nat -> Seq(Nat)] /\ f[0] = <<>>
      /\ \A x \in Nat \ {0} : f[x] = Append(f[x \div base], x % base)
  <2>1. f \in [Nat -> Seq(Nat)] /\ f[0] = <<>> /\ \A x \in Nat \ {0} : f[x] = H[x][f[p[x]]]
    BY <1>4 DEF Defined
  <2>2. ASSUME NEW x \in Nat \ {0} PROVE f[x] = Append(f[x \div base], x % base)
    <3>1. p[x] = x \div base /\ x \div base \in Nat
      BY <1>1, <1>3
    <3>2. f[x \div base] \in Seq(Nat)
      BY <2>1, <3>1
    <3>3. H[x][f[x \div base]] = Append(f[x \div base], x % base)
      BY <1>3, <3>2
    <3>4. f[x] = H[x][f[p[x]]]
      BY <2>1
    <3> QED
      BY <3>1, <3>3, <3>4, Zenon
  <2> QED
    BY <2>1, <2>2
<1>6. f = [x \in Nat |-> IF x = 0 THEN <<>> ELSE Append(f[x \div base], x % base)]
  BY <1>5
<1>7. d = [x \in Nat |-> IF x = 0 THEN <<>> ELSE Append(d[x \div base], x % base)]
  BY <1>6 DEF DigitsOf
<1> HIDE DEF d
<1>8. d[0] = <<>> /\ \A x \in Nat \ {0} : d[x] = Append(d[x \div base], x % base)
  BY <1>7
<1>9. \A x \in Nat : d[x] = f[x]
  <2> DEFINE T == {x \in Nat : d[x] # f[x]}
  <2>1. SUFFICES ASSUME T # {} PROVE FALSE
    OBVIOUS
  <2>2. T \subseteq Nat
    OBVIOUS
  <2> HIDE DEF T
  <2>3. PICK x \in T : \A y \in T : x <= y
    BY <2>1, <2>2, Least
  <2>4. x \in Nat /\ d[x] # f[x] /\ x # 0
    BY <1>5, <1>8, <2>3 DEF T
  <2>5. x \div base \in Nat /\ x \div base \notin T
    BY <1>1, <2>3, <2>4
  <2> QED
    BY <1>5, <1>8, <2>4, <2>5 DEF T
<1>10. d = f
  BY <1>5, <1>7, <1>9
<1> QED
  BY <1>1, <1>5, <1>8, <1>10 DEF d

\* A number below base * m has at most one digit more than the numbers below m.
LEMMA LengthStep ==
    ASSUME NEW base \in {10, 16}, NEW m \in Nat, NEW n \in Nat,
           \A x \in Nat : x < m => Len(DigitsOf(base)[x]) <= n
    PROVE  \A x \in Nat : x < base * m => Len(DigitsOf(base)[x]) <= n + 1
<1>d. /\ DigitsOf(base) \in [Nat -> Seq(Nat)] /\ DigitsOf(base)[0] = <<>>
      /\ \A y \in Nat \ {0} :
            /\ y \div base \in Nat /\ y \div base < y /\ y % base \in Nat
            /\ DigitsOf(base)[y] = Append(DigitsOf(base)[y \div base], y % base)
  BY DigitsDefined
<1> TAKE x \in Nat
<1> HAVE x < base * m
<1>1. CASE x = 0
  <2>1. Len(DigitsOf(base)[x]) = 0
    BY <1>d, <1>1
  <2> QED
    BY <2>1
<1>2. CASE x # 0
  <2>1. x \div base \in Nat /\ x % base \in Nat /\ x \in Nat \ {0}
    <3>1. x \in Nat \ {0} 
      BY <1>2
    <3> QED
      BY <1>d, <3>1
  <2>2. x \div base < m
    <3>1. CASE base = 10
      BY <3>1
    <3>2. CASE base = 16
      BY <3>2
    <3> QED
      BY <3>1, <3>2
  <2>3. DigitsOf(base)[x \div base] \in Seq(Nat) /\ Len(DigitsOf(base)[x \div base]) <= n
    BY <1>d, <2>1, <2>2
  <2>4. DigitsOf(base)[x] = Append(DigitsOf(base)[x \div base], x % base)
    BY <1>d, <2>1
  <2> QED
    BY <2>1, <2>3, <2>4
<1> QED
  BY <1>1, <1>2

MEGABYTE == 1048576

\* The digits of the numbers that fit a byte, a word, an address and a WORD.
LEMMA DigitsLength ==
    /\ \A t \in Nat, base \in {10, 16} :
          Digits(t, base) \in Seq(Nat) /\ Len(Digits(t, base)) >= 1
    /\ \A t \in Nat : t < 1000 => Len(Decimal(t)) <= 3
    /\ \A t \in Nat : t < 65536 => Len(Decimal(t)) <= 5
    /\ \A t \in Nat : t < WORD => Len(Decimal(t)) <= 10
    /\ \A t \in Nat : t < 256 => Len(printx(t)) <= 2
    /\ \A t \in Nat : t < MEGABYTE => Len(printx(t)) <= 5
<1> DEFINE D(m, base, n) == \A x \in Nat : x < m => Len(DigitsOf(base)[x]) <= n
<1>0. ASSUME NEW t \in Nat, NEW base \in {10, 16}
      PROVE  /\ Digits(t, base) = IF t = 0 THEN <<0>> ELSE DigitsOf(base)[t]
             /\ Digits(t, base) \in Seq(Nat) /\ Len(Digits(t, base)) >= 1
  <2>1. Digits(t, base) = IF t = 0 THEN <<0>> ELSE DigitsOf(base)[t]
    BY DEF Digits, DigitsOf
  <2>2. CASE t = 0
    BY <2>1, <2>2
  <2>3. CASE t # 0
    <3>d. /\ DigitsOf(base) \in [Nat -> Seq(Nat)]
          /\ \A y \in Nat \ {0} :
                /\ y \div base \in Nat /\ y % base \in Nat
                /\ DigitsOf(base)[y] = Append(DigitsOf(base)[y \div base], y % base)
      BY DigitsDefined
    <3>1. t \div base \in Nat /\ t % base \in Nat /\ DigitsOf(base)[t \div base] \in Seq(Nat)
          /\ DigitsOf(base)[t] = Append(DigitsOf(base)[t \div base], t % base)
      BY <2>3, <3>d
    <3>2. DigitsOf(base)[t] \in Seq(Nat) /\ Len(DigitsOf(base)[t]) >= 1
      BY <3>1
    <3> QED
      BY <2>1, <2>3, <3>2
  <2> QED
    BY <2>2, <2>3
<1>s. ASSUME NEW base \in {10, 16}, NEW m \in Nat, NEW n \in Nat, D(m, base, n)
      PROVE  D(base * m, base, n + 1)
  BY <1>s, LengthStep
<1>l. ASSUME NEW base \in {10, 16}, NEW m \in Nat, NEW n \in Nat, n >= 1, D(m, base, n),
             NEW t \in Nat, t < m
      PROVE  Len(Digits(t, base)) <= n
  <2>1. CASE t = 0
    <3>1. Digits(t, base) = <<0>>
      BY <1>0, <2>1
    <3> QED
      BY <1>l, <3>1
  <2>2. CASE t # 0
    BY <1>0, <1>l, <2>2
  <2> QED
    BY <2>1, <2>2
<1>i. ASSUME NEW base \in {10, 16} PROVE D(1, base, 0)
  <2>1. DigitsOf(base)[0] = <<>>
    BY DigitsDefined
  <2> QED
    BY <2>1
<1> HIDE DEF D
<1>1. D(10, 10, 1)
  <2>1. D(10 * 1, 10, 0 + 1)
    BY <1>s, <1>i
  <2> QED
    BY <2>1
<1>2. D(100, 10, 2)
  <2>1. D(10 * 10, 10, 1 + 1)
    BY <1>s, <1>1
  <2> QED
    BY <2>1
<1>3. D(1000, 10, 3)
  <2>1. D(10 * 100, 10, 2 + 1)
    BY <1>s, <1>2
  <2> QED
    BY <2>1
<1>4. D(10000, 10, 4)
  <2>1. D(10 * 1000, 10, 3 + 1)
    BY <1>s, <1>3
  <2> QED
    BY <2>1
<1>5. D(100000, 10, 5)
  <2>1. D(10 * 10000, 10, 4 + 1)
    BY <1>s, <1>4
  <2> QED
    BY <2>1
<1>6. D(1000000, 10, 6)
  <2>1. D(10 * 100000, 10, 5 + 1)
    BY <1>s, <1>5
  <2> QED
    BY <2>1
<1>7. D(10000000, 10, 7)
  <2>1. D(10 * 1000000, 10, 6 + 1)
    BY <1>s, <1>6
  <2> QED
    BY <2>1
<1>8. D(100000000, 10, 8)
  <2>1. D(10 * 10000000, 10, 7 + 1)
    BY <1>s, <1>7
  <2> QED
    BY <2>1
<1>9. D(1000000000, 10, 9)
  <2>1. D(10 * 100000000, 10, 8 + 1)
    BY <1>s, <1>8
  <2> QED
    BY <2>1
<1>10. D(10000000000, 10, 10)
  <2>1. D(10 * 1000000000, 10, 9 + 1)
    BY <1>s, <1>9
  <2> QED
    BY <2>1
<1>11. D(16, 16, 1)
  <2>1. D(16 * 1, 16, 0 + 1)
    BY <1>s, <1>i
  <2> QED
    BY <2>1
<1>12. D(256, 16, 2)
  <2>1. D(16 * 16, 16, 1 + 1)
    BY <1>s, <1>11
  <2> QED
    BY <2>1
<1>13. D(4096, 16, 3)
  <2>1. D(16 * 256, 16, 2 + 1)
    BY <1>s, <1>12
  <2> QED
    BY <2>1
<1>14. D(65536, 16, 4)
  <2>1. D(16 * 4096, 16, 3 + 1)
    BY <1>s, <1>13
  <2> QED
    BY <2>1
<1>15. D(MEGABYTE, 16, 5)
  <2>1. D(16 * 65536, 16, 4 + 1)
    BY <1>s, <1>14
  <2> QED
    BY <2>1 DEF MEGABYTE
<1>16. ASSUME NEW t \in Nat, t < WORD PROVE t < 10000000000
  <2>1. WORD \in Nat /\ WORD < 10000000000
    BY Constants DEF UINT16
  <2> QED
    BY <1>16, <2>1
<1> QED
  <2>1. \A t \in Nat : t < 1000 => Len(Digits(t, 10)) <= 3
    BY <1>3, <1>l
  <2>2. \A t \in Nat : t < 65536 => Len(Digits(t, 10)) <= 5
    BY <1>5, <1>l
  <2>3. \A t \in Nat : t < WORD => Len(Digits(t, 10)) <= 10
    BY <1>10, <1>16, <1>l
  <2>4. \A t \in Nat : t < 256 => Len(Digits(t, 16)) <= 2
    BY <1>12, <1>l
  <2>5. \A t \in Nat : t < MEGABYTE => Len(Digits(t, 16)) <= 5
    BY <1>15, <1>l DEF MEGABYTE
  <2> QED
    BY <1>0, <2>1, <2>2, <2>3, <2>4, <2>5 DEF Decimal, printx

-----------------------------------------------------------------------------
\* The lines on the screen when entry32 is at p.
LinesAt(p) ==
    IF p = "entries" THEN 1 ELSE IF p = "sum" THEN 2 ELSE IF p = "usable" THEN 3
    ELSE IF p = "reclaimable" THEN 4 ELSE IF p \in {"locate", "address"} THEN 5
    ELSE IF p = "version" THEN 6 ELSE IF p = "drive" THEN 7 ELSE IF p = "bytes" THEN 8
    ELSE IF p = "halt" THEN 9 ELSE 0

\* What the type invariant rests on: the drive is a byte, its sector size a word,
\* and an entry point lies below the first megabyte.
MapBounds ==
    /\ gate \in {0, 1} /\ said \in {0, 1} /\ intact \in {0, 1} /\ shl \in {0, 1}
    /\ whole \in {0, 1} /\ i \in 0 .. MaxMap
    /\ num \in 0 .. 255 /\ sector_size \in 0 .. UINT16 - 1
    /\ mem_size \in 0 .. WORD - 1
    /\ available_mem \in 0 .. WORD - 1 /\ reclaimable_mem \in 0 .. WORD - 1
    /\ smbios_entry \in 0 .. MEGABYTE - 1

DisplayOK == ScreenTypeOK /\ rows \in Seq(Nat \X Nat) /\ shown \in Seq(Seq(Nat))

TInv == MapOK /\ MapBounds /\ DisplayOK

\* Every line that is printed has at most 38 characters and leads to the next.
LEMMA ReportLine ==
    ASSUME TInv, Report
    PROVE  \E n \in Nat, numbers \in Seq(Seq(Nat)) :
              /\ printf(n, numbers) /\ LineLen(n, numbers) \in 0 .. 38
              /\ LinesAt(pc) \in 0 .. 8 /\ LinesAt(pc') = LinesAt(pc) + 1
              /\ Running /\ pc' \notin {"clear", "clearing", "trap"} /\ Running'
              /\ pc \notin {"clear", "clearing", "trap"}
<1> DEFINE Fits(numbers) ==
        \E n \in Nat : printf(n, numbers) /\ LineLen(n, numbers) \in 0 .. 38
           Goes ==
        /\ LinesAt(pc) \in 0 .. 8 /\ LinesAt(pc') = LinesAt(pc) + 1
        /\ Running /\ pc' \notin {"clear", "clearing", "trap"} /\ Running'
        /\ pc \notin {"clear", "clearing", "trap"}
<1>n. /\ count \in Nat /\ count < 65536 /\ mem_size \in Nat /\ mem_size < WORD
      /\ available_mem \in Nat /\ available_mem < WORD /\ reclaimable_mem \in Nat
      /\ reclaimable_mem < WORD /\ smbios_entry \in Nat /\ smbios_entry < MEGABYTE
      /\ num \in Nat /\ num < 256 /\ sector_size \in Nat /\ sector_size < 65536
  <2>1. count \in Nat /\ count <= MaxMap /\ MaxMap < 65536
    BY Constants DEF UINT16, TInv, MapOK, G
  <2>2. WORD \in Nat \ {0} /\ MapBounds
    BY Constants DEF TInv
  <2>3. /\ mem_size \in 0 .. WORD - 1 /\ available_mem \in 0 .. WORD - 1
        /\ reclaimable_mem \in 0 .. WORD - 1 /\ smbios_entry \in 0 .. MEGABYTE - 1
        /\ num \in 0 .. 255 /\ sector_size \in 0 .. UINT16 - 1
    BY <2>2 DEF MapBounds
  <2>4. MEGABYTE \in Nat /\ UINT16 = 65536
    BY DEF MEGABYTE, UINT16
  <2>5. ASSUME NEW n \in Nat, NEW x \in 0 .. n - 1 PROVE x \in Nat /\ x < n
    OBVIOUS
  <2>6. /\ mem_size \in Nat /\ mem_size < WORD
        /\ available_mem \in Nat /\ available_mem < WORD
        /\ reclaimable_mem \in Nat /\ reclaimable_mem < WORD
    BY <2>2, <2>3, <2>5
  <2>7. /\ smbios_entry \in Nat /\ smbios_entry < MEGABYTE
        /\ sector_size \in Nat /\ sector_size < UINT16
    BY <2>3, <2>4, <2>5
  <2>8. count \in Nat /\ count < 65536
    BY <2>1, Constants
  <2>9. num \in Nat /\ num < 256 /\ sector_size < 65536
    BY <2>3, <2>4, <2>7
  <2> QED
    BY <2>6, <2>7, <2>8, <2>9
<1>d. \A t \in Nat : /\ Decimal(t) \in Seq(Nat) /\ Len(Decimal(t)) \in Nat
                     /\ printx(t) \in Seq(Nat) /\ Len(printx(t)) \in Nat
  BY DigitsLength DEF Decimal, printx
<1>e. /\ Len(Decimal(count)) <= 5 /\ Len(Decimal(mem_size)) <= 10
      /\ Len(Decimal(available_mem)) <= 10 /\ Len(Decimal(reclaimable_mem)) <= 10
      /\ Len(printx(smbios_entry)) <= 5 /\ Len(printx(num)) <= 2
      /\ Len(Decimal(sector_size)) <= 5
  <2>1. \A t \in Nat : t < 65536 => Len(Decimal(t)) <= 5
    BY DigitsLength
  <2>2. \A t \in Nat : t < WORD => Len(Decimal(t)) <= 10
    BY DigitsLength
  <2>3. \A t \in Nat : t < 256 => Len(printx(t)) <= 2
    BY DigitsLength
  <2>4. \A t \in Nat : t < MEGABYTE => Len(printx(t)) <= 5
    BY DigitsLength
  <2>5. Len(Decimal(count)) <= 5 /\ Len(Decimal(sector_size)) <= 5
    BY <1>n, <2>1
  <2>6. /\ Len(Decimal(mem_size)) <= 10 /\ Len(Decimal(available_mem)) <= 10
        /\ Len(Decimal(reclaimable_mem)) <= 10
    BY <1>n, <2>2
  <2>7. Len(printx(num)) <= 2
    BY <1>n, <2>3
  <2>8. Len(printx(smbios_entry)) <= 5
    BY <1>n, <2>4
  <2> QED
    BY <2>5, <2>6, <2>7, <2>8
<1>0. ASSUME NEW n \in Nat, printf(n, <<>>), n <= 38 PROVE Fits(<<>>)
  BY <1>0 DEF LineLen
<1>f. ASSUME NEW n \in Nat, NEW s \in Seq(Nat), n + Len(s) <= 38
      PROVE  LineLen(n, <<s>>) \in 0 .. 38
  <2>1. PICK u : u = Len(s) /\ u \in Nat
    OBVIOUS
  <2>2. LineLen(n, <<s>>) = n + u
    BY <2>1 DEF LineLen
  <2>4. u \in Nat /\ n + u <= 38
    BY <1>f, <2>1
  <2>3. n + u \in 0 .. 38
    BY <2>4
  <2> QED
    BY <2>2, <2>3, Zenon
<1>g. ASSUME NEW n \in Nat, NEW s \in Seq(Nat), NEW t \in Seq(Nat),
             n + Len(s) + Len(t) <= 38
      PROVE  LineLen(n, <<s, t>>) \in 0 .. 38
  <2>1. PICK u : u = Len(s) /\ u \in Nat
    OBVIOUS
  <2>4. PICK v : v = Len(t) /\ v \in Nat
    OBVIOUS
  <2>2. LineLen(n, <<s, t>>) = n + (u + v)
    BY <2>1, <2>4 DEF LineLen
  <2>5. u \in Nat /\ v \in Nat /\ n + u + v <= 38
    BY <1>g, <2>1, <2>4
  <2>3. n + (u + v) \in 0 .. 38
    BY <2>5
  <2> QED
    BY <2>2, <2>3, Zenon
<1>1. ASSUME NEW n \in Nat, NEW s \in Seq(Nat), printf(n, <<s>>), n + Len(s) <= 38
      PROVE  Fits(<<s>>)
  <2>2. LineLen(n, <<s>>) \in 0 .. 38
    BY <1>1, <1>f
  <2> QED
    BY <1>1, <2>2, Zenon
<1>2. ASSUME NEW n \in Nat, NEW s \in Seq(Nat), NEW t \in Seq(Nat), printf(n, <<s, t>>),
             n + Len(s) + Len(t) <= 38
      PROVE  Fits(<<s, t>>)
  <2>2. LineLen(n, <<s, t>>) \in 0 .. 38
    BY <1>2, <1>g
  <2> QED
    BY <1>2, <2>2, Zenon
<1> HIDE DEF Fits
<1>3. SUFFICES \E numbers \in Seq(Seq(Nat)) : Fits(numbers) /\ Goes
  BY DEF Fits
<1>4. CASE Line("greet", "entries", 23, <<>>)
  <2>1. Fits(<<>>) /\ <<>> \in Seq(Seq(Nat))
    BY <1>0, <1>4 DEF Line
  <2>2. Goes
    BY <1>4 DEF Line, LinesAt, Running
  <2> QED
    BY <2>1, <2>2
<1>5. CASE Line("entries", "sum", 14, <<Decimal(count)>>)
  <2>1. Decimal(count) \in Seq(Nat) /\ 14 + Len(Decimal(count)) <= 38
    BY <1>n, <1>d, <1>e
  <2>2. Fits(<<Decimal(count)>>) /\ <<Decimal(count)>> \in Seq(Seq(Nat))
    BY <1>1, <1>5, <2>1 DEF Line
  <2>3. Goes
    BY <1>5 DEF Line, LinesAt, Running
  <2> QED
    BY <2>2, <2>3
<1>6. CASE Line("sum", "usable", 27, <<Decimal(mem_size)>>)
  <2>1. Decimal(mem_size) \in Seq(Nat) /\ 27 + Len(Decimal(mem_size)) <= 38
    BY <1>n, <1>d, <1>e
  <2>2. Fits(<<Decimal(mem_size)>>) /\ <<Decimal(mem_size)>> \in Seq(Seq(Nat))
    BY <1>1, <1>6, <2>1 DEF Line
  <2>3. Goes
    BY <1>6 DEF Line, LinesAt, Running
  <2> QED
    BY <2>2, <2>3
<1>7. CASE Line("usable", "reclaimable", 28, <<Decimal(available_mem)>>)
  <2>1. Decimal(available_mem) \in Seq(Nat) /\ 28 + Len(Decimal(available_mem)) <= 38
    BY <1>n, <1>d, <1>e
  <2>2. Fits(<<Decimal(available_mem)>>) /\ <<Decimal(available_mem)>> \in Seq(Seq(Nat))
    BY <1>1, <1>7, <2>1 DEF Line
  <2>3. Goes
    BY <1>7 DEF Line, LinesAt, Running
  <2> QED
    BY <2>2, <2>3
<1>8. CASE Line("reclaimable", "locate", 26, <<Decimal(reclaimable_mem)>>)
  <2>1. Decimal(reclaimable_mem) \in Seq(Nat) /\ 26 + Len(Decimal(reclaimable_mem)) <= 38
    BY <1>n, <1>d, <1>e
  <2>2. /\ Fits(<<Decimal(reclaimable_mem)>>)
        /\ <<Decimal(reclaimable_mem)>> \in Seq(Seq(Nat))
    BY <1>1, <1>8, <2>1 DEF Line
  <2>3. Goes
    BY <1>8 DEF Line, LinesAt, Running
  <2> QED
    BY <2>2, <2>3
<1>9. CASE Line("address", "version", 23, <<printx(smbios_entry)>>)
  <2>1. printx(smbios_entry) \in Seq(Nat) /\ 23 + Len(printx(smbios_entry)) <= 38
    BY <1>n, <1>d, <1>e
  <2>2. Fits(<<printx(smbios_entry)>>) /\ <<printx(smbios_entry)>> \in Seq(Seq(Nat))
    BY <1>1, <1>9, <2>1 DEF Line
  <2>3. Goes
    BY <1>9 DEF Line, LinesAt, Running
  <2> QED
    BY <2>2, <2>3
<1>10. ASSUME NEW major \in {0, 255}, NEW minor \in {0, 255},
              Line("version", "drive", 19, <<Decimal(major), Decimal(minor)>>)
       PROVE  \E numbers \in Seq(Seq(Nat)) : Fits(numbers) /\ Goes
  <2>1. /\ Decimal(major) \in Seq(Nat) /\ Decimal(minor) \in Seq(Nat)
        /\ 19 + Len(Decimal(major)) + Len(Decimal(minor)) <= 38
    <3>1. major \in Nat /\ minor \in Nat /\ major < 1000 /\ minor < 1000
      OBVIOUS
    <3>2. Len(Decimal(major)) <= 3 /\ Len(Decimal(minor)) <= 3
      BY <3>1, DigitsLength
    <3>3. /\ Decimal(major) \in Seq(Nat) /\ Decimal(minor) \in Seq(Nat)
          /\ Len(Decimal(major)) \in Nat /\ Len(Decimal(minor)) \in Nat
      BY <1>d, <3>1
    <3> QED
      BY <3>2, <3>3
  <2>2. /\ Fits(<<Decimal(major), Decimal(minor)>>)
        /\ <<Decimal(major), Decimal(minor)>> \in Seq(Seq(Nat))
    BY <1>2, <1>10, <2>1 DEF Line
  <2>3. Goes
    BY <1>10 DEF Line, LinesAt, Running
  <2> QED
    BY <2>2, <2>3
<1>11. CASE Line("drive", "bytes", 17, <<printx(num)>>)
  <2>1. printx(num) \in Seq(Nat) /\ 17 + Len(printx(num)) <= 38
    BY <1>n, <1>d, <1>e
  <2>2. Fits(<<printx(num)>>) /\ <<printx(num)>> \in Seq(Seq(Nat))
    BY <1>1, <1>11, <2>1 DEF Line
  <2>3. Goes
    BY <1>11 DEF Line, LinesAt, Running
  <2> QED
    BY <2>2, <2>3
<1>12. CASE Line("bytes", "halt", 20, <<Decimal(sector_size)>>)
  <2>1. Decimal(sector_size) \in Seq(Nat) /\ 20 + Len(Decimal(sector_size)) <= 38
    BY <1>n, <1>d, <1>e
  <2>2. Fits(<<Decimal(sector_size)>>) /\ <<Decimal(sector_size)>> \in Seq(Seq(Nat))
    BY <1>1, <1>12, <2>1 DEF Line
  <2>3. Goes
    BY <1>12 DEF Line, LinesAt, Running
  <2> QED
    BY <2>2, <2>3
<1> HIDE DEF Goes
<1> QED
  BY <1>4, <1>5, <1>6, <1>7, <1>8, <1>9, <1>10, <1>11, <1>12 DEF Report

LEMMA Rest ==
    ASSUME NEW y \in Int, NEW w \in Nat \ {0}
    PROVE  y % w \in 0 .. w - 1
OBVIOUS

\* '\r' and '\n' leave an index of 16 bits.
LEMMA LineEnd ==
    ASSUME NEW t \in Int, width \in Nat \ {0}
    PROVE  Newline(Return(t)) \in 0 .. UINT16 - 1
<1>1. 2 * width \in Nat \ {0}
  OBVIOUS
<1>2. t % (2 * width) \in Int
  BY <1>1
<1>3. Return(t) \in Int
  BY <1>2 DEF Return
<1>4. Return(t) + 2 * width \in Int
  BY <1>3
<1>5. UINT16 \in Nat \ {0}
  BY DEF UINT16
<1>6. (Return(t) + 2 * width) % UINT16 \in 0 .. UINT16 - 1
  BY <1>4, <1>5, Rest, Zenon
<1> QED
  BY <1>6, Zenon DEF Newline

\* A line of at most 38 characters is printed.
Prints(n, numbers) ==
    /\ DisplayOK /\ numbers \in Seq(Seq(Nat)) /\ printf(n, numbers)
    /\ LineLen(n, numbers) \in 0 .. 38

\* A printed line keeps the display's types, whatever the mode is.
LEMMA PrintTyped ==
    ASSUME NEW n, NEW numbers, Prints(n, numbers)
    PROVE  /\ DisplayOK'
           /\ UNCHANGED <<mode, buffer, width, height>>
           /\ index' = Newline(Return(putchar(LineLen(n, numbers), index)))
           /\ rows' = Append(rows, <<index, index + 2 * LineLen(n, numbers)>>)
           /\ shown' = shown \o numbers
<1>1. PICK len : len = LineLen(n, numbers)
  OBVIOUS
<1>2. len \in 0 .. 38
  BY <1>1 DEF Prints, DisplayOK
<1>3. /\ width > 0 /\ index' = Newline(Return(putchar(len, index)))
      /\ rows' = Append(rows, <<index, index + 2 * len>>) /\ shown' = shown \o numbers
      /\ UNCHANGED <<mode, buffer, width, height>>
  <2>1. /\ width > 0 /\ index' = Newline(Return(putchar(LineLen(n, numbers), index)))
        /\ rows' = Append(rows, <<index, index + 2 * LineLen(n, numbers)>>)
        /\ shown' = shown \o numbers
        /\ UNCHANGED <<mode, buffer, width, height>>
    BY DEF Prints, DisplayOK, printf
  <2> QED
    BY <1>1, <2>1, Zenon
<1>4. index \in Nat /\ width \in Nat \ {0} /\ height \in Nat
  <2>1. width > 0
    BY <1>3
  <2>2. index \in 0 .. UINT16 - 1 /\ width \in 0 .. UINT16 - 1 /\ height \in 0 .. UINT16 - 1
    BY DEF Prints, DisplayOK, ScreenTypeOK
  <2>3. UINT16 \in Nat
    BY DEF UINT16
  <2> QED
    BY <2>1, <2>2, <2>3
<1>5. PICK c : c = Cells /\ c \in Nat
  <2>1. 2 * width \in Nat /\ Cells = 2 * width * height
    BY <1>4 DEF Cells
  <2> QED
    BY <1>4, <2>1
<1>6. putchar(len, index) \in Int
  <2>1. CASE index < c
    <3>1. c \in Nat \ {0} /\ index + 2 * len \in Nat
      BY <1>2, <1>4, <1>5, <2>1
    <3>2. putchar(len, index) = (index + 2 * len) % c
      BY <1>5, <2>1 DEF putchar
    <3> QED
      BY <3>1, <3>2
  <2>2. CASE ~(index < c) /\ index + 2 * len < UINT16
    <3>1. putchar(len, index) = index + 2 * len
      BY <1>5, <2>2 DEF putchar
    <3> QED
      BY <1>2, <1>4, <3>1
  <2>3. CASE ~(index < c) /\ ~(index + 2 * len < UINT16) /\ c = 0
    <3>1. putchar(len, index) = (index + 2 * len) % UINT16
      BY <1>5, <2>3 DEF putchar
    <3> QED
      BY <1>2, <1>4, <3>1 DEF UINT16
  <2>4. CASE ~(index < c) /\ ~(index + 2 * len < UINT16) /\ c # 0
    <3>1. putchar(len, index) = (index + 2 * len - UINT16) % c
      BY <1>5, <2>4 DEF putchar
    <3>2. index + 2 * len - UINT16 \in Nat /\ c \in Nat \ {0}
      BY <1>2, <1>4, <1>5, <2>4 DEF UINT16
    <3> QED
      BY <3>1, <3>2
  <2> QED
    BY <2>1, <2>2, <2>3, <2>4
<1>7. PICK t : t = putchar(len, index) /\ t \in Int
  BY <1>6
<1>8. index' = Newline(Return(t))
  BY <1>3, <1>7, Zenon
<1>9. index' \in 0 .. UINT16 - 1
  <2>1. Newline(Return(t)) \in 0 .. UINT16 - 1
    BY <1>4, <1>7, LineEnd
  <2> QED
    BY <1>8, <2>1, Zenon
<1>10. rows' \in Seq(Nat \X Nat) /\ shown' \in Seq(Seq(Nat))
  <2>1. index + 2 * len \in Nat
    BY <1>2, <1>4
  <2> QED
    BY <1>3, <1>4, <2>1 DEF Prints, DisplayOK
<1>11. ScreenTypeOK'
  BY <1>3, <1>9 DEF Prints, DisplayOK, ScreenTypeOK
<1> QED
  BY <1>1, <1>3, <1>10, <1>11 DEF DisplayOK

\* The entries are records of numbers.
LEMMA EntryTyped ==
    ASSUME NEW e \in Entry \cup {NoEntry}
    PROVE  e.base \in Nat /\ e.h \in Nat /\ e.l \in Nat /\ e.l < WORD /\ e.type \in Nat
  BY Boot2Assumption, Constants DEF NoEntry

\* What an entry behind the table leaves in the drive is a byte and a word.
LEMMA StoreBounds ==
    ASSUME MapBounds, NEW e \in Entry, NEW k, Store(k, e)
    PROVE  num' \in 0 .. 255 /\ sector_size' \in 0 .. UINT16 - 1 /\ intact' \in {0, 1}
<1>1. e.base \in Nat
  BY EntryTyped
<1>2. e.base % 256 \in 0 .. 255 /\ e.base \div 256 \in Nat
  BY <1>1
<1>3. (e.base \div 256) % UINT16 \in 0 .. UINT16 - 1
  <2>1. UINT16 \in Nat \ {0} /\ e.base \div 256 \in Int
    BY <1>2 DEF UINT16
  <2> QED
    BY <2>1, Rest
<1>4. /\ num \in 0 .. 255 /\ sector_size \in 0 .. UINT16 - 1 /\ intact \in {0, 1}
  BY DEF MapBounds
<1>5. /\ num' = num \/ num' = e.base % 256
      /\ sector_size' = sector_size \/ sector_size' = (e.base \div 256) % UINT16
      /\ intact' = intact \/ intact' = 0
  BY DEF Store
<1> QED
  BY <1>2, <1>3, <1>4, <1>5

LEMMA AddressBound ==
    \A j \in 1 .. Paragraphs : Address(j) \in 0 .. MEGABYTE - 1
<1> TAKE j \in 1 .. Paragraphs
<1>0. j \in Nat /\ j >= 1 /\ j <= 4096
  BY Constants
<1>1. PICK x : x = 16 * (j - 1) /\ x \in Nat /\ x <= 65520
  BY <1>0
<1>2. 983040 + x \in Nat /\ 983040 + x <= 1048575
  BY <1>1
<1>3. Address(j) = 983040 + x
  BY <1>1 DEF Address
<1>4. Address(j) \in Nat /\ Address(j) < MEGABYTE
  BY <1>1, <1>2, <1>3 DEF MEGABYTE
<1>5. MEGABYTE \in Nat
  BY DEF MEGABYTE
<1> QED
  BY <1>4, <1>5

\* The address of an entry point.
LEMMA Located ==
    ASSUME locate_smbios_entry
    PROVE  \/ Matches = {} /\ smbios_entry' = 0
           \/ \E k \in 1 .. Paragraphs :
                 /\ smbios_entry' = Address(k) /\ Address(k) \in 0 .. MEGABYTE - 1
                 /\ k \in Matches /\ \A m \in Matches : k <= m
<1>1. CASE Matches = {}
  BY <1>1 DEF locate_smbios_entry
<1>2. CASE Matches # {}
  <2>1. Matches \subseteq 1 .. Paragraphs /\ Matches \subseteq Nat
    BY DEF Matches
  <2>2. \E k \in Matches : \A m \in Matches : k <= m
    BY <1>2, <2>1, Least
  <2>3. PICK k \in Matches : k = CHOOSE x \in Matches : \A m \in Matches : x <= m
    BY <2>2
  <2>4. \A m \in Matches : k <= m
    BY <2>2, <2>3
  <2>5. smbios_entry' = Address(k)
    BY <1>2, <2>3 DEF locate_smbios_entry
  <2>6. k \in 1 .. Paragraphs
    BY <2>1
  <2>9. Address(k) \in 0 .. MEGABYTE - 1
    BY <2>6, AddressBound, Zenon
  <2>10. \E j \in 1 .. Paragraphs :
            /\ smbios_entry' = Address(j) /\ Address(j) \in 0 .. MEGABYTE - 1
            /\ j \in Matches /\ \A m \in Matches : j <= m
    <3>1. k \in 1 .. Paragraphs /\ k \in Matches
      BY <2>6
    <3> QED
      BY <2>4, <2>5, <2>9, <3>1, Zenon
  <2> QED
    BY <2>10, Zenon
<1> QED
  BY <1>1, <1>2

\* The initial states are typed.
LEMMA InitTInv == Init => TInv
<1> SUFFICES ASSUME Init PROVE TInv
  OBVIOUS
<1>1. MapOK
  BY InitIInv DEF IInv
<1>2. WORD \in Nat \ {0} /\ MaxMap \in Nat /\ MEGABYTE \in Nat \ {0} /\ UINT16 = 65536
  BY Constants DEF MEGABYTE, UINT16
<1>3. MapBounds
  BY <1>2 DEF Init, MapBounds
<1>4. DisplayOK
  <2>1. ScreenInit
    BY DEF Init
  <2>2. rows = <<>> /\ shown = <<>> /\ mode \in Modes /\ buffer = 0 /\ index = 0
    BY <2>1 DEF ScreenInit
  <2>3. width \in 0 .. UINT16 - 1 /\ height \in 0 .. UINT16 - 1
    <3>1. width \in Leftover /\ height \in Leftover
      BY <2>1 DEF ScreenInit
    <3>2. \A x \in Leftover : x \in 0 .. UINT16 - 1
      BY ScreenAssumption
    <3> QED
      BY <3>1, <3>2
  <2>4. index \in 0 .. UINT16 - 1
    BY <2>2 DEF UINT16
  <2>5. buffer \in {0, \hA0000, \hB0000, \hB8000}
    BY <2>2
  <2>6. ScreenTypeOK
    BY <2>2, <2>3, <2>4, <2>5, SMT DEF ScreenTypeOK
  <2> QED
    BY <2>2, <2>6 DEF DisplayOK
<1> QED
  BY <1>1, <1>3, <1>4 DEF TInv

\* The screen that init_screen sets up is typed.
LEMMA EnterTyped ==
    ASSUME DisplayOK, init_screen
    PROVE  DisplayOK'
<1>1. /\ index' = 0 /\ buffer' = BufferOf(mode) /\ UNCHANGED <<mode, rows, shown>>
      /\ width' = width \/ width' = WidthOf(mode)
      /\ height' = height \/ height' = HeightOf(mode)
  BY DEF init_screen
<1>2. BufferOf(mode) \in {0, \hA0000, \hB0000, \hB8000}
  BY DEF BufferOf
<1>3. WidthOf(mode) \in {40, 80, 320, 160, 640} /\ HeightOf(mode) \in {25, 350, 200}
  BY DEF WidthOf, HeightOf
<1>4. /\ mode \in Modes /\ width \in 0 .. UINT16 - 1 /\ height \in 0 .. UINT16 - 1
      /\ rows \in Seq(Nat \X Nat) /\ shown \in Seq(Seq(Nat))
  BY DEF DisplayOK, ScreenTypeOK
<1>5. \A x \in {40, 80, 320, 160, 640, 25, 350, 200, 0} : x \in 0 .. UINT16 - 1
  BY DEF UINT16
<1>6. /\ width' \in 0 .. UINT16 - 1 /\ height' \in 0 .. UINT16 - 1
      /\ index' \in 0 .. UINT16 - 1
  BY <1>1, <1>3, <1>4, <1>5
<1>7. ScreenTypeOK'
  BY <1>1, <1>2, <1>4, <1>6 DEF ScreenTypeOK
<1> QED
  BY <1>1, <1>4, <1>7 DEF DisplayOK

\* Every step keeps the types.
LEMMA NextTInv == TInv /\ IInv /\ [Next]_vars => TInv'
<1> SUFFICES ASSUME TInv, IInv, [Next]_vars PROVE TInv'
  OBVIOUS
<1>m. MapOK'
  BY NextIInv DEF IInv
<1>b. MapBounds /\ DisplayOK
  BY DEF TInv
<1>u. UNCHANGED display => DisplayOK'
  BY <1>b DEF DisplayOK, ScreenTypeOK, display, screen
<1>f. UNCHANGED <<said, table, sums, smbios_entry, fixed>> => MapBounds'
  BY <1>b DEF MapBounds, table, sums, fixed
<1>1. CASE Start
  <2>1. MapBounds'
    BY <1>b, <1>1, Constants DEF Start, MapBounds, sums, fixed
  <2>2. DisplayOK'
    BY <1>u, <1>1 DEF Start
  <2> QED
    BY <1>m, <2>1, <2>2 DEF TInv
<1>2. CASE enable_a20
  <2>1. said' \in {0, 1} /\ UNCHANGED <<table, sums, smbios_entry, fixed, display>>
    BY <1>2 DEF enable_a20, CheckCarry
  <2>2. MapBounds'
    BY <1>b, <2>1 DEF MapBounds, table, sums, fixed
  <2> QED
    BY <1>m, <1>u, <2>1, <2>2 DEF TInv
<1>3. CASE E820
  <2>1. PICK e \in Entry : Store(bp + 1, e)
    BY <1>3 DEF E820
  <2>2. UNCHANGED <<said, whole, sums, smbios_entry, fixed, display>>
    BY <1>3 DEF E820
  <2>3. num' \in 0 .. 255 /\ sector_size' \in 0 .. UINT16 - 1 /\ intact' \in {0, 1}
    BY <1>b, <2>1, StoreBounds
  <2>4. MapBounds'
    BY <1>b, <2>2, <2>3 DEF MapBounds, sums, fixed
  <2> QED
    BY <1>m, <1>u, <2>2, <2>4 DEF TInv
<1>4. CASE E820Done
  <2>1. PICK e \in Entry : Store(bp + 1, e)
    BY <1>4 DEF E820Done
  <2>2. whole' = 1 /\ UNCHANGED <<said, sums, smbios_entry, fixed, display>>
    BY <1>4 DEF E820Done
  <2>3. num' \in 0 .. 255 /\ sector_size' \in 0 .. UINT16 - 1 /\ intact' \in {0, 1}
    BY <1>b, <2>1, StoreBounds
  <2>4. MapBounds'
    BY <1>b, <2>2, <2>3 DEF MapBounds, sums, fixed
  <2> QED
    BY <1>m, <1>u, <2>2, <2>4 DEF TInv
<1>5. CASE E820Fails
  BY <1>m, <1>u, <1>f, <1>5 DEF E820Fails, TInv
<1>6. CASE Enter
  <2>1. DisplayOK'
    BY <1>b, <1>6, EnterTyped DEF Enter
  <2> QED
    BY <1>m, <1>f, <1>6, <2>1 DEF Enter, TInv
<1>7. CASE Wild
  BY <1>m, <1>u, <1>f, <1>7 DEF Wild, TInv
<1>8. CASE Clear
  <2>1. index' = 0 /\ UNCHANGED <<mode, buffer, width, height, rows, shown>>
    BY <1>8 DEF Clear, clear_screen
  <2>2. 0 \in 0 .. UINT16 - 1
    BY DEF UINT16
  <2>3. DisplayOK'
    BY <1>b, <2>1, <2>2 DEF DisplayOK, ScreenTypeOK
  <2> QED
    BY <1>m, <1>f, <1>8, <2>3 DEF Clear, TInv
<1>9. CASE ClearForEver
  BY <1>m, <1>u, <1>f, <1>9 DEF ClearForEver, TInv
<1>10. CASE Report
  <2>1. PICK n \in Nat, numbers \in Seq(Seq(Nat)) :
           printf(n, numbers) /\ LineLen(n, numbers) \in 0 .. 38
    BY <1>10, ReportLine
  <2>2. Prints(n, numbers)
    BY <1>b, <2>1 DEF Prints
  <2>3. DisplayOK'
    BY <2>2, PrintTyped
  <2> QED
    BY <1>m, <1>f, <1>10, <2>3 DEF Report, TInv
<1>11. CASE Trap
  BY <1>m, <1>u, <1>f, <1>11 DEF Trap, printf_traps, TInv
<1>12. CASE Sum
  <2>1. /\ pc = "sum" /\ i < count /\ i' = i + 1
        /\ UNCHANGED <<said, table, smbios_entry, fixed, display>>
    BY <1>12 DEF Sum
  <2>2. i' \in 0 .. MaxMap
    BY <1>b, <2>1, Constants DEF TInv, MapOK, MapBounds, G
  <2>3. ASSUME NEW x \in 0 .. WORD - 1, NEW y \in Nat PROVE (x + y) % WORD \in 0 .. WORD - 1
    <3>1. WORD \in Nat \ {0} /\ x + y \in Int
      BY Constants
    <3> QED
      BY <3>1, Rest
  <2>4. Length(entries[i + 1]) \in Nat
    <3>1. i + 1 \in 1 .. MaxMap
      BY <1>b, <2>1, <2>2 DEF MapBounds
    <3>2. entries[i + 1] \in Entry \cup {NoEntry}
      BY <3>1 DEF TInv, MapOK
    <3>3. WORD \in Nat \ {0} /\ entries[i + 1].h \in Nat /\ entries[i + 1].l \in Nat
      BY <3>2, EntryTyped, Constants
    <3> QED
      BY <3>3 DEF Length
  <2>5. /\ mem_size' = (mem_size + Length(entries[i + 1])) % WORD
        /\ \/ available_mem' = (available_mem + Length(entries[i + 1])) % WORD
           \/ available_mem' = available_mem
        /\ \/ reclaimable_mem' = (reclaimable_mem + Length(entries[i + 1])) % WORD
           \/ reclaimable_mem' = reclaimable_mem
    BY <1>12 DEF Sum
  <2>6. /\ mem_size' \in 0 .. WORD - 1 /\ available_mem' \in 0 .. WORD - 1
        /\ reclaimable_mem' \in 0 .. WORD - 1
    <3>1. /\ mem_size \in 0 .. WORD - 1 /\ available_mem \in 0 .. WORD - 1
          /\ reclaimable_mem \in 0 .. WORD - 1
      BY <1>b DEF MapBounds
    <3>2. mem_size' \in 0 .. WORD - 1
      BY <2>3, <2>4, <2>5, <3>1, Zenon
    <3>3. available_mem' \in 0 .. WORD - 1
      BY <2>3, <2>4, <2>5, <3>1, Zenon
    <3>4. reclaimable_mem' \in 0 .. WORD - 1
      BY <2>3, <2>4, <2>5, <3>1, Zenon
    <3> QED
      BY <3>2, <3>3, <3>4
  <2>7. MapBounds'
    BY <1>b, <2>1, <2>2, <2>6 DEF MapBounds, table, fixed
  <2> QED
    BY <1>m, <1>u, <2>1, <2>7 DEF TInv
<1>13. CASE locate_smbios_entry
  <2>1. UNCHANGED <<said, table, sums, fixed, display>>
    BY <1>13 DEF locate_smbios_entry
  <2>2. smbios_entry' \in 0 .. MEGABYTE - 1
    <3>1. 0 \in 0 .. MEGABYTE - 1
      <4>1. MEGABYTE \in Nat \ {0}
        BY DEF MEGABYTE
      <4> QED
        BY <4>1
    <3> QED
      BY <1>13, <3>1, Located
  <2>3. MapBounds'
    BY <1>b, <2>1, <2>2 DEF MapBounds, table, sums, fixed
  <2> QED
    BY <1>m, <1>u, <2>1, <2>3 DEF TInv
<1>14. CASE UNCHANGED vars
  BY <1>m, <1>u, <1>f, <1>14 DEF vars, TInv
<1> QED
  BY <1>1, <1>2, <1>3, <1>4, <1>5, <1>6, <1>7, <1>8, <1>9, <1>10, <1>11, <1>12, <1>13,
     <1>14 DEF Next

\* The invariant is typed.
LEMMA TInvTyped == TInv => TypeOK
<1> SUFFICES ASSUME TInv PROVE TypeOK
  OBVIOUS
<1>1. MapOK /\ MapBounds /\ ScreenTypeOK
  BY DEF TInv, DisplayOK
<1>2. bp \in 0 .. MaxMap /\ count \in 0 .. MaxMap
  <2>1. bp \in Nat /\ bp <= MaxMap /\ (count = 0 \/ count = bp)
    BY <1>1 DEF MapOK, G
  <2> QED
    BY <2>1, Constants
<1>3. num \in Nat /\ sector_size \in Nat /\ smbios_entry \in Nat
  <2>1. num \in 0 .. 255 /\ sector_size \in 0 .. UINT16 - 1
        /\ smbios_entry \in 0 .. MEGABYTE - 1
    BY <1>1 DEF MapBounds
  <2> QED
    BY <2>1
<1>4. MapTypeOK
  BY <1>1, <1>2, <1>3 DEF MapTypeOK, MapOK, MapBounds
<1> QED
  BY <1>1, <1>4 DEF TypeOK

\* In every reachable state the variables have their types: the numbers fit the
\* words that the code keeps them in.
THEOREM Typed == Spec => []TypeOK
<1>1. Init => TInv /\ IInv
  BY InitTInv, InitIInv
<1>2. TInv /\ IInv /\ [Next]_vars => (TInv /\ IInv)'
  BY NextTInv, NextIInv
<1> QED
  BY <1>1, <1>2, TInvTyped, PTL DEF Spec

-----------------------------------------------------------------------------
\* In the text modes the lines lie one below the other, and the next one begins
\* in the row behind them; before entry32 is entered nothing is on the screen.
Text == {0, 1, 2, 3, 7}
Row(m) == IF m \in {0, 1} THEN 80 ELSE 160

Layout ==
    /\ ~Running => rows = <<>> /\ shown = <<>>
    /\ mode \in Text /\ Running =>
          /\ pc \notin {"clearing", "trap"}
          /\ 2 * width = Row(mode) /\ height = 25
          /\ buffer = IF mode = 7 THEN \hB0000 ELSE \hB8000
          /\ index = LinesAt(pc) * Row(mode)
          /\ Len(rows) = LinesAt(pc)
          /\ \A k \in 1 .. Len(rows) :
                rows[k][1] = (k - 1) * Row(mode) /\ rows[k][2] <= k * Row(mode)

InRow(row, k, len) ==
    /\ row \in {80, 160} /\ 2 * width = row /\ height = 25 /\ width \in Nat
    /\ k \in 0 .. 8 /\ index = k * row /\ len \in 0 .. 38

\* A line of at most 38 characters ends within its row, and the next one begins
\* in the first column of the next row.
LEMMA TextLine ==
    ASSUME NEW row, NEW k, NEW len, InRow(row, k, len)
    PROVE  Newline(Return(putchar(len, index))) = (k + 1) * row
           /\ index + 2 * len <= (k + 1) * row
<1> USE DEF InRow
<1>1. PICK at : at = index /\ at \in Nat /\ at + 2 * len < 25 * row
                /\ at + 2 * len \in k * row .. (k + 1) * row - 1
  <2>1. CASE row = 80
    BY <2>1
  <2>2. CASE row = 160
    BY <2>2
  <2> QED
    BY <2>1, <2>2
<1>2. Cells = 25 * row
  BY DEF Cells
<1>3. putchar(len, index) = at + 2 * len
  <2>1. (at + 2 * len) % (25 * row) = at + 2 * len
    <3>1. CASE row = 80
      BY <1>1, <3>1
    <3>2. CASE row = 160
      BY <1>1, <3>2
    <3> QED
      BY <3>1, <3>2
  <2>2. at < Cells
    BY <1>1, <1>2
  <2>3. putchar(len, index) = (at + 2 * len) % Cells
    BY <1>1, <2>2 DEF putchar
  <2> QED
    BY <1>2, <2>1, <2>3, Zenon
<1>4. PICK t : t = at + 2 * len /\ t \in k * row .. (k + 1) * row - 1
  BY <1>1
<1>5. Return(t) = k * row
  <2>1. PICK r : r = t - k * row /\ r \in 0 .. row - 1 /\ t = k * row + r
    <3>1. CASE row = 80
      BY <1>4, <3>1
    <3>2. CASE row = 160
      BY <1>4, <3>2
    <3> QED
      BY <3>1, <3>2
  <2>2. t % row = r
    <3>1. row \in Nat \ {0} /\ k \in Nat
      OBVIOUS
    <3>2. (k * row + r) % row = r
      BY <2>1, <3>1, Unique
    <3> QED
      BY <2>1, <3>2, Zenon
  <2>3. Return(t) = t - (t % row)
    BY Zenon DEF Return
  <2>4. t \in Nat /\ r \in Nat /\ k * row \in Nat
    <3>1. row \in Nat /\ k \in Nat /\ k * row \in Nat
      OBVIOUS
    <3>2. r \in Nat
      BY <2>1, <3>1
    <3> QED
      BY <2>1, <3>1, <3>2
  <2>5. Return(t) = t - r
    BY <2>2, <2>3, Zenon
  <2> QED
    BY <2>1, <2>4, <2>5
<1>6. Newline(k * row) = (k + 1) * row
  <2>1. CASE row = 80
    BY <2>1 DEF Newline, UINT16
  <2>2. CASE row = 160
    BY <2>2 DEF Newline, UINT16
  <2> QED
    BY <2>1, <2>2
<1>7. index + 2 * len <= (k + 1) * row
  BY <1>1
<1> QED
  BY <1>3, <1>4, <1>5, <1>6, <1>7

\* What a printed line does to the layout of a text mode.
LEMMA LineLayout ==
    ASSUME TInv, Layout, mode \in Text, Report
    PROVE  Layout'
<1>1. PICK n \in Nat, numbers \in Seq(Seq(Nat)) :
         /\ printf(n, numbers) /\ LineLen(n, numbers) \in 0 .. 38
         /\ LinesAt(pc) \in 0 .. 8 /\ LinesAt(pc') = LinesAt(pc) + 1
         /\ Running /\ pc' \notin {"clear", "clearing", "trap"} /\ Running'
         /\ pc \notin {"clear", "clearing", "trap"}
  BY ReportLine
<1>2. Prints(n, numbers)
  BY <1>1 DEF Prints, TInv
<1>3. PICK len : len = LineLen(n, numbers) /\ len \in 0 .. 38
  BY <1>1
<1>4. /\ UNCHANGED <<mode, buffer, width, height>>
      /\ index' = Newline(Return(putchar(len, index)))
      /\ rows' = Append(rows, <<index, index + 2 * len>>)
  BY <1>2, <1>3, PrintTyped
<1>5. PICK k : k = LinesAt(pc) /\ k \in 0 .. 8 /\ LinesAt(pc') = k + 1
  BY <1>1
<1>6. PICK row : row = Row(mode) /\ row \in {80, 160}
  BY DEF Row
<1>7. /\ 2 * width = row /\ height = 25 /\ index = k * row /\ Len(rows) = k
      /\ buffer = IF mode = 7 THEN \hB0000 ELSE \hB8000
      /\ \A j \in 1 .. Len(rows) : rows[j][1] = (j - 1) * row /\ rows[j][2] <= j * row
  BY <1>1, <1>5, <1>6 DEF Layout
<1>8. width \in Nat /\ rows \in Seq(Nat \X Nat)
  <2>1. width \in 0 .. UINT16 - 1 /\ rows \in Seq(Nat \X Nat)
    BY DEF TInv, DisplayOK, ScreenTypeOK
  <2> QED
    BY <2>1
<1>9. index' = (k + 1) * row /\ index + 2 * len <= (k + 1) * row
  <2>1. /\ Newline(Return(putchar(len, index))) = (k + 1) * row
        /\ index + 2 * len <= (k + 1) * row
    <3>1. InRow(row, k, len)
      BY <1>3, <1>5, <1>6, <1>7, <1>8 DEF InRow
    <3> QED
      BY <3>1, TextLine
  <2> QED
    BY <1>4, <2>1
<1>10. Row(mode') = row /\ mode' = mode
  BY <1>4, <1>6
<1>11. /\ Len(rows') = k + 1 /\ rows'[k + 1] = <<index, index + 2 * len>>
       /\ \A j \in 1 .. k : rows'[j] = rows[j]
  <2>1. PICK e : e = <<index, index + 2 * len>>
    OBVIOUS
  <2>2. rows' = Append(rows, e) /\ Len(rows) = k /\ rows \in Seq(Nat \X Nat)
    BY <1>4, <1>7, <1>8, <2>1
  <2>3. Len(rows') = k + 1 /\ rows'[k + 1] = e /\ \A j \in 1 .. k : rows'[j] = rows[j]
    BY <2>2
  <2> QED
    BY <2>1, <2>3, Zenon
<1>12. \A j \in 1 .. k + 1 : rows'[j][1] = (j - 1) * row /\ rows'[j][2] <= j * row
  <2> TAKE j \in 1 .. k + 1
  <2>1. CASE j \in 1 .. k
    BY <1>7, <1>11, <2>1
  <2>2. CASE j = k + 1
    <3>1. rows'[j][1] = index /\ rows'[j][2] = index + 2 * len
      BY <1>11, <2>2
    <3>2. j - 1 = k
      BY <1>5, <2>2
    <3> QED
      BY <1>7, <1>9, <2>2, <3>1, <3>2
  <2>3. j \in 1 .. k \/ j = k + 1
    BY <1>5
  <2> QED
    BY <2>1, <2>2, <2>3
<1>13. /\ width' = width /\ height' = 25 /\ index' = LinesAt(pc') * Row(mode')
       /\ Len(rows') = LinesAt(pc') /\ buffer' = buffer
       /\ \A j \in 1 .. Len(rows') :
             rows'[j][1] = (j - 1) * Row(mode') /\ rows'[j][2] <= j * Row(mode')
  BY <1>4, <1>5, <1>7, <1>9, <1>10, <1>11, <1>12
<1>14. 2 * width' = Row(mode') /\ buffer' = IF mode' = 7 THEN \hB0000 ELSE \hB8000
  BY <1>7, <1>10, <1>13
<1> QED
  BY <1>1, <1>13, <1>14 DEF Layout

\* Every step keeps the layout.
LEMMA NextLayout == TInv /\ Layout /\ [Next]_vars => Layout'
<1> SUFFICES ASSUME TInv, Layout, [Next]_vars PROVE Layout'
  OBVIOUS
<1>o. ~Running => rows = <<>> /\ shown = <<>>
  BY DEF Layout
<1>t. mode \in Text /\ Running =>
         /\ pc \notin {"clearing", "trap"} /\ 2 * width = Row(mode) /\ height = 25
  BY DEF Layout
<1>n. width \in Nat
  <2>1. width \in 0 .. UINT16 - 1
    BY DEF TInv, DisplayOK, ScreenTypeOK
  <2> QED
    BY <2>1
<1>b. ASSUME ~Running, ~Running', UNCHANGED display PROVE Layout'
  BY <1>o, <1>b DEF Layout, display
<1>r. ASSUME Running, Running', UNCHANGED display, LinesAt(pc') = LinesAt(pc),
             pc' \notin {"clearing", "trap"}
      PROVE  Layout'
  BY <1>r DEF Layout, display, screen
<1>w. mode \in Text /\ Running => width \in {40, 80} /\ Cells \in {2000, 4000}
  <2>1. SUFFICES ASSUME mode \in Text, Running PROVE width \in {40, 80} /\ Cells \in {2000, 4000}
    OBVIOUS
  <2>2. Row(mode) \in {80, 160}
    BY DEF Row
  <2>3. width \in {40, 80} /\ height = 25
    BY <1>t, <1>n, <2>1, <2>2
  <2> QED
    BY <2>3 DEF Cells
<1>1. CASE Start
  BY <1>b, <1>1 DEF Start, Running
<1>2. CASE enable_a20
  BY <1>b, <1>2 DEF enable_a20, Running
<1>3. CASE E820
  BY <1>b, <1>3 DEF E820, Running
<1>4. CASE E820Done
  BY <1>b, <1>4 DEF E820Done, Running
<1>5. CASE E820Fails
  BY <1>b, <1>5 DEF E820Fails, Running
<1>6. CASE Enter
  <2>1. pc = "entry32" /\ pc' = "clear" /\ init_screen
    BY <1>6 DEF Enter
  <2>2. rows' = <<>> /\ Running'
    BY <1>o, <2>1 DEF Running, init_screen
  <2>3. /\ index' = 0 /\ buffer' = BufferOf(mode) /\ mode' = mode
        /\ mode \in Text => width' = WidthOf(mode) /\ height' = HeightOf(mode)
    BY <2>1 DEF init_screen, Listed, Text
  <2>4. LinesAt(pc') = 0 /\ Len(rows') = 0
    BY <2>1, <2>2 DEF LinesAt
  <2>5. mode \in Text =>
           /\ 2 * WidthOf(mode) = Row(mode) /\ HeightOf(mode) = 25
           /\ BufferOf(mode) = IF mode = 7 THEN \hB0000 ELSE \hB8000
    BY DEF Text, WidthOf, HeightOf, BufferOf, Row
  <2>6. Row(mode) \in Nat
    BY DEF Row
  <2>7. mode' \in Text =>
           /\ 2 * width' = Row(mode') /\ height' = 25 /\ index' = LinesAt(pc') * Row(mode')
           /\ buffer' = IF mode' = 7 THEN \hB0000 ELSE \hB8000
    BY <2>3, <2>4, <2>5, <2>6
  <2> QED
    BY <2>1, <2>2, <2>4, <2>7 DEF Layout
<1>7. CASE Wild
  BY <1>b, <1>7 DEF Wild, Running
<1>8. CASE Clear
  <2>1. pc = "clear" /\ pc' = "greet" /\ Running /\ Running'
        /\ LinesAt(pc) = 0 /\ LinesAt(pc') = 0
    BY <1>8 DEF Clear, Running, LinesAt
  <2>2. index' = 0 /\ UNCHANGED <<mode, buffer, width, height, rows, shown>>
    BY <1>8 DEF Clear, clear_screen
  <2>3. Row(mode) \in Nat
    BY DEF Row
  <2>4. index' = LinesAt(pc') * Row(mode')
    BY <2>1, <2>2, <2>3
  <2> QED
    BY <2>1, <2>2, <2>4 DEF Layout
<1>9. CASE ClearForEver
  <2>1. pc = "clear" /\ Running /\ pc' = "clearing" /\ Running' /\ Cells >= UINT16
        /\ UNCHANGED display
    BY <1>9 DEF ClearForEver, Running
  <2>2. mode \notin Text
    BY <1>w, <2>1 DEF UINT16
  <2> QED
    BY <2>1, <2>2 DEF Layout, display
<1>10. CASE Report
  <2>1. CASE mode \in Text
    BY <1>10, <2>1, LineLayout
  <2>2. CASE mode \notin Text
    <3>1. PICK n \in Nat, numbers \in Seq(Seq(Nat)) : printf(n, numbers) /\ Running'
      BY <1>10, ReportLine
    <3>2. UNCHANGED mode
      BY <1>10 DEF Report, Line, printf
    <3> QED
      BY <2>2, <3>1, <3>2 DEF Layout
  <2> QED
    BY <2>1, <2>2
<1>11. CASE Trap
  <2>1. pc = "greet" /\ Running /\ pc' = "trap" /\ Running' /\ width = 0 /\ UNCHANGED display
    BY <1>11 DEF Trap, Running, printf_traps
  <2>2. mode \notin Text
    BY <1>w, <2>1
  <2> QED
    BY <2>1, <2>2 DEF Layout, display
<1>12. CASE Sum
  <2>1. pc = "sum" /\ UNCHANGED <<pc, display>>
    BY <1>12 DEF Sum
  <2> QED
    BY <1>r, <2>1 DEF Running
<1>13. CASE locate_smbios_entry
  <2>1. pc = "locate" /\ pc' = "address" /\ UNCHANGED display
    BY <1>13 DEF locate_smbios_entry
  <2>2. LinesAt(pc') = LinesAt(pc)
    BY <2>1 DEF LinesAt
  <2> QED
    BY <1>r, <2>1, <2>2 DEF Running
<1>14. CASE UNCHANGED vars
  <2>1. UNCHANGED <<pc, display>>
    BY <1>14 DEF vars
  <2> QED
    BY <1>b, <1>r, <1>t, <2>1 DEF Running, Layout, display, screen
<1> QED
  BY <1>1, <1>2, <1>3, <1>4, <1>5, <1>6, <1>7, <1>8, <1>9, <1>10, <1>11, <1>12, <1>13,
     <1>14 DEF Next

\* Whatever the map and the numbers are: in the text modes every line of the report
\* has a row of the adapter's memory to itself.
THEOREM LinesOnScreen == Spec => []ReportOnScreen
<1>1. Init => TInv /\ IInv /\ Layout
  <2>1. Init => Layout
    BY DEF Init, ScreenInit, Running, Layout
  <2> QED
    BY <2>1, InitTInv, InitIInv
<1>2. TInv /\ IInv /\ Layout /\ [Next]_vars => (TInv /\ IInv /\ Layout)'
  BY NextTInv, NextIInv, NextLayout
<1>3. Layout => ReportOnScreen
  <2>1. SUFFICES ASSUME Layout, mode \in Text, Running PROVE ReportOnScreen
    BY SMT DEF ReportOnScreen, Text
  <2>2. /\ buffer = IF mode = 7 THEN \hB0000 ELSE \hB8000
        /\ Len(rows) = LinesAt(pc)
        /\ \A k \in 1 .. Len(rows) :
              rows[k][1] = (k - 1) * Row(mode) /\ rows[k][2] <= k * Row(mode)
    BY <2>1, SMT DEF Layout
  <2>3. LinesAt(pc) \in 0 .. 9
    BY DEF LinesAt
  <2>4. \A k \in 1 .. Len(rows) : k <= 25
    <3>1. Len(rows) = LinesAt(pc)
      BY <2>2
    <3> QED
      BY ONLY <2>3, <3>1
  <2>5. Row(mode) = IF mode \in {0, 1} THEN 80 ELSE 160
    BY DEF Row
  <2> QED
    <3>1. CASE mode \in {0, 1}
      BY <2>2, <2>4, <2>5, <3>1, SMT DEF ReportOnScreen
    <3>2. CASE mode \notin {0, 1}
      BY <2>2, <2>4, <2>5, <3>2, SMT DEF ReportOnScreen
    <3> QED
      BY <3>1, <3>2
<1> QED
  BY <1>1, <1>2, <1>3, PTL DEF Spec

-----------------------------------------------------------------------------
\* The numbers that the first digits stand for.
LEMMA ValuesDefined ==
    ASSUME NEW base \in {10, 16}, NEW s \in Seq(Nat)
    PROVE  /\ Values(s, base) \in [0 .. Len(s) -> Nat] /\ Values(s, base)[0] = 0
           /\ \A k \in 1 .. Len(s) :
                 Values(s, base)[k] = Values(s, base)[k - 1] * base + s[k]
           /\ Value(s, base) = Values(s, base)[Len(s)] /\ Value(s, base) \in Nat
<1> DEFINE n == Len(s)
           H == [k \in 1 .. n |-> [x \in Nat |-> x * base + s[k]]]
           v == Values(s, base)
<1>1. n \in Nat /\ base \in Nat
  OBVIOUS
<1>2. H \in [1 .. n -> [Nat -> Nat]]
  <2>1. ASSUME NEW k \in 1 .. n, NEW x \in Nat PROVE x * base + s[k] \in Nat
    <3>1. s[k] \in Nat /\ x * base \in Nat
      BY <1>1
    <3> QED
      BY <3>1
  <2> QED
    BY <2>1
<1>3. \A k \in 1 .. n, x \in Nat : H[k][x] = x * base + s[k]
  OBVIOUS
<1> HIDE DEF H, n
<1>4. PICK u \in [0 .. n -> Nat] : u[0] = 0 /\ \A k \in 1 .. n : u[k] = H[k][u[k - 1]]
  <2>1. StepsTo(n, Nat, 0, H)
    BY <1>1, <1>2 DEF StepsTo
  <2>2. PICK u : DefinedTo(u, n, Nat, 0, H)
    BY <2>1, PrimitiveRecursion
  <2> QED
    BY <2>2 DEF DefinedTo
<1>5. ASSUME NEW k \in 1 .. n PROVE u[k] = u[k - 1] * base + s[k]
  <2>1. k - 1 \in 0 .. n /\ u[k - 1] \in Nat
    BY <1>1, <1>4
  <2>2. H[k][u[k - 1]] = u[k - 1] * base + s[k]
    BY <1>3, <2>1
  <2> QED
    BY <1>4, <2>2
<1>6. u = [k \in 0 .. n |-> IF k = 0 THEN 0 ELSE u[k - 1] * base + s[k]]
  BY <1>1, <1>4, <1>5
<1>7. v = [k \in 0 .. n |-> IF k = 0 THEN 0 ELSE v[k - 1] * base + s[k]]
  BY <1>6 DEF Values, n
<1>8. Value(s, base) = v[n]
  BY DEF Value, Values, n
<1> HIDE DEF v
<1>9. v[0] = 0 /\ \A k \in 1 .. n : v[k] = v[k - 1] * base + s[k]
  BY <1>1, <1>7
<1>10. \A k \in 0 .. n : v[k] = u[k]
  <2>1. \A k \in 1 .. n : v[k - 1] = u[k - 1] => v[k] = u[k]
    BY <1>5, <1>9
  <2> DEFINE w == u
  <2>2. Alike(v, w, n)
    BY <1>1, <1>4, <1>9, <2>1 DEF Alike
  <2> HIDE DEF w
  <2>3. \A k \in 0 .. n : v[k] = w[k]
    BY <2>2, Agree
  <2> QED
    BY <2>3 DEF w
<1>11. v \in [0 .. n -> Nat]
  BY <1>4, <1>7, <1>10
<1>12. v[n] \in Nat
  BY <1>1, <1>11
<1> QED
  BY <1>8, <1>9, <1>11, <1>12 DEF v, n

\* One digit more.
LEMMA ValueAppend ==
    ASSUME NEW base \in {10, 16}, NEW s \in Seq(Nat), NEW d \in Nat
    PROVE  Value(Append(s, d), base) = Value(s, base) * base + d
<1> DEFINE n == Len(s)
           t == Append(s, d)
           v == Values(s, base)
           w == Values(t, base)
<1>0. n \in Nat
  OBVIOUS
<1>1. n \in Nat /\ t \in Seq(Nat) /\ Len(t) = n + 1 /\ t[n + 1] = d
      /\ \A k \in 1 .. n : t[k] = s[k]
  OBVIOUS
<1>2. /\ v[0] = 0 /\ Value(s, base) = v[n]
      /\ \A k \in 1 .. n : v[k] = v[k - 1] * base + s[k]
  BY ValuesDefined
<1> HIDE DEF t
<1>3. /\ w[0] = 0 /\ Value(t, base) = w[n + 1]
      /\ \A k \in 1 .. n + 1 : w[k] = w[k - 1] * base + t[k]
  <2>1. /\ w[0] = 0 /\ Value(t, base) = w[Len(t)]
        /\ \A k \in 1 .. Len(t) : w[k] = w[k - 1] * base + t[k]
    BY <1>1, ValuesDefined
  <2> QED
    BY <1>1, <2>1
<1> HIDE DEF v, w, n
<1>4. \A k \in 0 .. n : v[k] = w[k]
  <2>1. \A k \in 1 .. n : v[k - 1] = w[k - 1] => v[k] = w[k]
    BY <1>1, <1>2, <1>3
  <2>2. Alike(v, w, n)
    BY <1>1, <1>2, <1>3, <2>1 DEF Alike
  <2> QED
    BY <2>2, Agree
<1>5. w[n] = v[n]
  BY <1>1, <1>4
<1>6. n + 1 \in 1 .. n + 1 /\ n + 1 - 1 = n
  BY <1>1
<1>7. w[n + 1] = w[n] * base + t[n + 1]
  <2>1. PICK m : m = n + 1
    OBVIOUS
  <2>2. m \in 1 .. n + 1 /\ m - 1 = n
    BY <1>0, <2>1
  <2>3. w[m] = w[m - 1] * base + t[m]
    BY <1>3, <2>2
  <2> QED
    BY <2>1, <2>2, <2>3, Zenon
<1>8. Value(t, base) = Value(s, base) * base + d
  BY <1>1, <1>2, <1>3, <1>5, <1>7, Zenon
<1> QED
  BY <1>8 DEF t

\* Read as a number, the digits that are printed for a number are the number.
LEMMA DigitsRead ==
    ASSUME NEW base \in {10, 16}, NEW t \in Nat
    PROVE  Value(Digits(t, base), base) = t
<1> DEFINE d == DigitsOf(base)
           T == {x \in Nat : Value(d[x], base) # x}
<1>1. /\ d \in [Nat -> Seq(Nat)] /\ d[0] = <<>>
      /\ \A x \in Nat \ {0} : /\ x \div base \in Nat /\ x \div base < x /\ x % base \in Nat
                              /\ d[x] = Append(d[x \div base], x % base)
  BY DigitsDefined
<1> HIDE DEF d
<1>2. <<>> \in Seq(Nat) /\ Value(<<>>, base) = 0
  <2>1. <<>> \in Seq(Nat) /\ Len(<<>>) = 0
    OBVIOUS
  <2> QED
    BY <2>1, ValuesDefined
<1>3. T = {}
  <2>1. SUFFICES ASSUME T # {} PROVE FALSE
    OBVIOUS
  <2>2. T \subseteq Nat
    OBVIOUS
  <2> HIDE DEF T
  <2>3. PICK x \in T : \A y \in T : x <= y
    BY <2>1, <2>2, Least
  <2>4. x \in Nat /\ Value(d[x], base) # x
    BY <2>3 DEF T
  <2>5. x # 0
    BY <1>1, <1>2, <2>4
  <2>6. PICK q : q = x \div base
    OBVIOUS
  <2>7. PICK r : r = x % base
    OBVIOUS
  <2>8. q \in Nat /\ q < x /\ r \in Nat /\ d[x] = Append(d[q], r) /\ d[q] \in Seq(Nat)
    BY <1>1, <2>4, <2>5, <2>6, <2>7
  <2>9. q \notin T
    BY <2>3, <2>4, <2>8
  <2>10. Value(d[q], base) = q
    BY <2>8, <2>9 DEF T
  <2>11. Value(d[x], base) = q * base + r
    BY <2>8, <2>10, ValueAppend
  <2>12. x = q * base + r
    <3>1. base \in Nat \ {0}
      OBVIOUS
    <3>2. \E c \in Nat : \E m \in 0 .. base - 1 :
             c = x \div base /\ m = x % base /\ x = c * base + m
      BY <2>4, <3>1, Division
    <3> QED
      BY <2>6, <2>7, <3>2, Zenon
  <2> QED
    BY <2>4, <2>11, <2>12
<1>4. Value(d[t], base) = t
  BY <1>3
<1>5. Digits(t, base) = IF t = 0 THEN <<0>> ELSE d[t]
  BY DEF Digits, DigitsOf, d
<1>6. Value(<<0>>, base) = 0
  <2>1. Append(<<>>, 0) = <<0>>
    OBVIOUS
  <2>2. Value(Append(<<>>, 0), base) = Value(<<>>, base) * base + 0
    <3>1. \A u \in Seq(Nat), c \in Nat : Value(Append(u, c), base) = Value(u, base) * base + c
      BY ValueAppend
    <3>2. 0 \in Nat
      OBVIOUS
    <3> QED
      BY <1>2, <3>1, <3>2, Zenon
  <2>3. 0 * base + 0 = 0
    OBVIOUS
  <2> QED
    BY <1>2, <2>1, <2>2, <2>3, Zenon
<1> QED
  BY <1>4, <1>5, <1>6

-----------------------------------------------------------------------------
\* The map that entry32 is handed, and the types that the BIOS may report.
Handed == IF count = 0 THEN <<>> ELSE given
AllTypes == {e.type : e \in Entry}

\* While the entries are added up the sums are those of the entries passed so far,
\* if all regions have less than four gigabytes.
Small == \A k \in 1 .. G : given[k].h = 0

SumsOK ==
    /\ i = 0 => mem_size = 0 /\ available_mem = 0 /\ reclaimable_mem = 0
    /\ Small => /\ mem_size = Sums(Handed, AllTypes)[i] % WORD
                /\ available_mem = Sums(Handed, {1})[i] % WORD
                /\ reclaimable_mem = Sums(Handed, {3})[i] % WORD

SumInv ==
    /\ i <= count /\ (pc \in {"start", "a20", "e820"} => i = 0)
    /\ LinesAt(pc) >= 3 => i = count
    /\ SumsOK

\* The numbers printed when entry32 is at p.
NumbersAt(p) ==
    IF p = "sum" THEN 1 ELSE IF p = "usable" THEN 2 ELSE IF p = "reclaimable" THEN 3
    ELSE IF p \in {"locate", "address"} THEN 4 ELSE IF p = "version" THEN 5
    ELSE IF p = "drive" THEN 7 ELSE IF p = "bytes" THEN 8 ELSE IF p = "halt" THEN 9 ELSE 0

\* What has been printed are the digits of variables that do not change any more.
ShownInv ==
    /\ Len(shown) = NumbersAt(pc)
    /\ NumbersAt(pc) >= 1 => shown[1] = Decimal(count)
    /\ NumbersAt(pc) >= 2 => shown[2] = Decimal(mem_size)
    /\ NumbersAt(pc) >= 3 => shown[3] = Decimal(available_mem)
    /\ NumbersAt(pc) >= 4 => shown[4] = Decimal(reclaimable_mem)
    /\ NumbersAt(pc) >= 5 => shown[5] = printx(smbios_entry)
    /\ NumbersAt(pc) >= 8 => shown[8] = printx(num)
    /\ NumbersAt(pc) >= 9 => shown[9] = Decimal(sector_size)

\* The first entry point of the BIOS area.
Found ==
    \/ Matches = {} /\ smbios_entry = 0
    \/ \E k \in 1 .. Paragraphs :
          smbios_entry = Address(k) /\ k \in Matches /\ \A m \in Matches : k <= m

FoundInv ==
    /\ DOMAIN area = 1 .. Paragraphs
    /\ pc \in {"address", "version", "drive", "bytes", "halt"} => Found

\* The sums of the lengths of the first entries.
LEMMA SumsDefined ==
    ASSUME NEW map \in Seq(Entry), NEW types
    PROVE  /\ Sums(map, types) \in [0 .. Len(map) -> Nat] /\ Sums(map, types)[0] = 0
           /\ \A k \in 1 .. Len(map) :
                 Sums(map, types)[k] = Sums(map, types)[k - 1]
                                       + (IF map[k].type \in types THEN map[k].l ELSE 0)
<1> DEFINE n == Len(map)
           a == [k \in 1 .. n |-> IF map[k].type \in types THEN map[k].l ELSE 0]
           H == [k \in 1 .. n |-> [x \in Nat |-> x + a[k]]]
           v == Sums(map, types)
<1>1. n \in Nat
  OBVIOUS
<1>2. \A k \in 1 .. n : /\ a[k] \in Nat
                        /\ a[k] = IF map[k].type \in types THEN map[k].l ELSE 0
  <2> TAKE k \in 1 .. n
  <2>1. map[k] \in Entry
    OBVIOUS
  <2>2. map[k].l \in Nat
    BY <2>1, EntryTyped
  <2> QED
    BY <2>2
<1> HIDE DEF a
<1>3. H \in [1 .. n -> [Nat -> Nat]] /\ \A k \in 1 .. n, x \in Nat : H[k][x] = x + a[k]
  BY <1>2
<1> HIDE DEF H, n
<1>4. PICK u : DefinedTo(u, n, Nat, 0, H)
  <2>1. StepsTo(n, Nat, 0, H)
    BY <1>1, <1>3 DEF StepsTo
  <2> QED
    BY <2>1, PrimitiveRecursion
<1>5. u \in [0 .. n -> Nat] /\ u[0] = 0
  BY <1>4 DEF DefinedTo
<1>6. ASSUME NEW k \in 1 .. n PROVE u[k] = u[k - 1] + a[k]
  <2>1. k - 1 \in 0 .. n /\ u[k - 1] \in Nat
    BY <1>1, <1>5
  <2>2. H[k][u[k - 1]] = u[k - 1] + a[k]
    BY <1>3, <2>1
  <2> QED
    BY <1>4, <2>2 DEF DefinedTo
<1>7. u = [k \in 0 .. n |->
             IF k = 0 THEN 0
             ELSE u[k - 1] + (IF map[k].type \in types THEN map[k].l ELSE 0)]
  BY <1>1, <1>2, <1>5, <1>6
<1>8. v = [k \in 0 .. n |->
             IF k = 0 THEN 0
             ELSE v[k - 1] + (IF map[k].type \in types THEN map[k].l ELSE 0)]
  BY <1>7 DEF Sums, n
<1> HIDE DEF v
<1>9. v[0] = 0 /\ \A k \in 1 .. n : v[k] = v[k - 1] + a[k]
  BY <1>1, <1>2, <1>8
<1>10. \A k \in 0 .. n : v[k] = u[k]
  <2>1. \A k \in 1 .. n : v[k - 1] = u[k - 1] => v[k] = u[k]
    BY <1>6, <1>9
  <2> DEFINE w == u
  <2>2. Alike(v, w, n)
    BY <1>1, <1>5, <1>9, <2>1 DEF Alike
  <2> HIDE DEF w
  <2>3. \A k \in 0 .. n : v[k] = w[k]
    BY <2>2, Agree
  <2> QED
    BY <2>3 DEF w
<1>11. v \in [0 .. n -> Nat]
  BY <1>5, <1>8, <1>10
<1> QED
  BY <1>2, <1>9, <1>11 DEF v, n

\* What entry32 is handed is a sequence of entries; so far as they are passed they
\* lie in the table.
LEMMA HandedTyped ==
    ASSUME MapOK
    PROVE  /\ Handed \in Seq(Entry) /\ Len(Handed) = count /\ count \in Nat
           /\ count <= MaxMap
           /\ \A k \in 1 .. count : entries[k] = Handed[k] /\ Handed[k] = given[k]
           /\ count <= G
<1>1. /\ given \in Seq(Entry) /\ bp = Len(given) /\ bp <= MaxMap
      /\ \A k \in 1 .. bp : entries[k] = given[k]
      /\ count = 0 \/ count = bp
  BY DEF MapOK, G
<1>2. Len(given) \in Nat
  BY <1>1
<1>3. CASE count = 0
  <2>1. Handed = <<>>
    BY <1>3 DEF Handed
  <2>2. <<>> \in Seq(Entry) /\ Len(<<>>) = 0 /\ 0 <= MaxMap
    BY Constants
  <2> QED
    BY <1>2, <1>3, <2>1, <2>2 DEF G
<1>4. CASE count # 0
  <2>1. Handed = given /\ count = Len(given)
    BY <1>1, <1>4 DEF Handed
  <2> QED
    BY <1>1, <1>2, <2>1 DEF G
<1> QED
  BY <1>3, <1>4

\* The same of the next state.
HandedOK == Handed \in Seq(Entry) /\ count \in Nat

LEMMA HandedNext == MapOK' => Handed' \in Seq(Entry) /\ count' \in Nat
<1>1. MapOK => HandedOK
  BY HandedTyped DEF HandedOK
<1>2. MapOK' => HandedOK'
  BY <1>1, PTL
<1> QED
  BY <1>2 DEF HandedOK

\* One entry more, in a word.
LEMMA SumStep ==
    ASSUME NEW map \in Seq(Entry), NEW types, NEW k \in 1 .. Len(map),
           NEW x, x = Sums(map, types)[k - 1] % WORD
    PROVE  Sums(map, types)[k] % WORD
             = IF map[k].type \in types THEN (x + map[k].l) % WORD ELSE x
<1>1. /\ Sums(map, types) \in [0 .. Len(map) -> Nat]
      /\ Sums(map, types)[k] = Sums(map, types)[k - 1]
                               + (IF map[k].type \in types THEN map[k].l ELSE 0)
  BY SumsDefined
<1>2. Len(map) \in Nat /\ map[k] \in Entry /\ k - 1 \in 0 .. Len(map)
  OBVIOUS
<1>3. PICK l : l = map[k].l /\ l \in Nat
  BY <1>2, EntryTyped
<1>4. PICK a : a = Sums(map, types)[k - 1] /\ a \in Nat
  BY <1>1, <1>2
<1>5. PICK b : b = Sums(map, types)[k]
  OBVIOUS
<1>6. CASE map[k].type \in types
  <2>1. b = a + l
    BY <1>1, <1>3, <1>4, <1>5, <1>6
  <2>2. ((a % WORD) + l) % WORD = (a + l) % WORD
    <3>1. \A c, d \in Nat : ((c % WORD) + d) % WORD = (c + d) % WORD
      <4>1. WORD \in Nat \ {0}
        BY Constants
      <4> QED
        BY <4>1, ModSum
    <3> QED
      BY <1>3, <1>4, <3>1, Zenon
  <2> QED
    BY <1>3, <1>4, <1>5, <1>6, <2>1, <2>2, Zenon
<1>7. CASE map[k].type \notin types
  <2>1. b = a
    BY <1>1, <1>4, <1>5, <1>7
  <2> QED
    BY <1>4, <1>5, <1>7, <2>1, Zenon
<1> QED
  BY <1>6, <1>7

\* Every step keeps the sums.
LEMMA NextSumInv == TInv /\ IInv /\ SumInv /\ [Next]_vars => SumInv'
<1> SUFFICES ASSUME TInv, IInv, SumInv, [Next]_vars PROVE SumInv'
  OBVIOUS
<1>0. MapOK /\ MapBounds /\ i \in Nat /\ count \in Nat
  <2>1. MapOK /\ MapBounds
    BY DEF TInv
  <2>2. i \in 0 .. MaxMap /\ count \in Nat
    BY <2>1, HandedTyped DEF MapBounds
  <2> QED
    BY <2>1, <2>2
<1>s. /\ i <= count /\ (pc \in {"start", "a20", "e820"} => i = 0)
      /\ LinesAt(pc) >= 3 => i = count
      /\ SumsOK
  BY DEF SumInv
<1>u. ASSUME UNCHANGED <<i, mem_size, available_mem, reclaimable_mem, count, given>>
      PROVE  SumsOK'
  <2>1. Handed' = Handed /\ (Small' <=> Small)
    BY <1>u DEF Handed, Small, G
  <2> QED
    BY <1>s, <1>u, <2>1 DEF SumsOK
<1>z. ASSUME MapOK', i = 0, UNCHANGED sums PROVE SumsOK'
  <2>1. mem_size = 0 /\ available_mem = 0 /\ reclaimable_mem = 0
    BY <1>s, <1>z DEF SumsOK
  <2>2. i' = 0 /\ mem_size' = 0 /\ available_mem' = 0 /\ reclaimable_mem' = 0
    BY <1>z, <2>1 DEF sums
  <2>3. Handed' \in Seq(Entry)
    BY <1>z, HandedNext
  <2>4. \A types : Sums(Handed', types)[0] = 0
    BY <2>3, SumsDefined
  <2>5. 0 % WORD = 0
    BY Constants
  <2> QED
    BY <2>2, <2>4, <2>5 DEF SumsOK
<1>m. MapOK'
  BY NextIInv DEF IInv
<1>1. CASE Start
  BY <1>s, <1>u, <1>1 DEF Start, sums, LinesAt, SumInv
<1>2. CASE enable_a20
  BY <1>s, <1>u, <1>2 DEF enable_a20, sums, table, LinesAt, SumInv
<1>3. CASE E820
  <2>1. pc = "e820" /\ pc' = pc /\ UNCHANGED <<count, sums>>
    BY <1>3 DEF E820
  <2>2. SumsOK'
    BY <1>m, <1>s, <1>z, <2>1
  <2> QED
    BY <1>s, <2>1, <2>2 DEF SumInv, sums
<1>4. CASE E820Done
  <2>1. pc = "e820" /\ pc' = "entry32" /\ UNCHANGED sums
    BY <1>4 DEF E820Done
  <2>2. SumsOK'
    BY <1>m, <1>s, <1>z, <2>1
  <2>3. i' = 0 /\ count' \in Nat
    BY <1>m, <1>s, <2>1, HandedNext DEF sums
  <2>4. ~(LinesAt(pc') >= 3)
    BY <2>1 DEF LinesAt
  <2> QED
    BY <2>1, <2>2, <2>3, <2>4 DEF SumInv
<1>5. CASE E820Fails
  BY <1>s, <1>u, <1>5 DEF E820Fails, sums, table, LinesAt, SumInv
<1>6. CASE Enter
  BY <1>s, <1>u, <1>6 DEF Enter, sums, table, LinesAt, SumInv
<1>7. CASE Wild
  BY <1>s, <1>u, <1>7 DEF Wild, sums, table, LinesAt, SumInv
<1>8. CASE Clear
  BY <1>s, <1>u, <1>8 DEF Clear, sums, table, LinesAt, SumInv
<1>9. CASE ClearForEver
  BY <1>s, <1>u, <1>9 DEF ClearForEver, sums, table, LinesAt, SumInv
<1>10. CASE Report
  <2>1. UNCHANGED <<table, sums>>
    BY <1>10 DEF Report
  <2>2. SumsOK'
    BY <1>u, <2>1 DEF table, sums
  <2>3. LinesAt(pc) \in 0 .. 8 /\ LinesAt(pc') = LinesAt(pc) + 1 /\ Running'
    BY <1>10, ReportLine
  <2>4. LinesAt(pc) = 2 => pc = "sum"
    BY DEF LinesAt
  <2>5. pc = "sum" => i >= count
    BY <1>10 DEF Report, Line
  <2>6. LinesAt(pc') >= 3 => i = count
    BY <1>0, <1>s, <2>3, <2>4, <2>5
  <2> QED
    BY <1>s, <2>1, <2>2, <2>3, <2>6 DEF SumInv, table, sums, Running
<1>11. CASE Trap
  BY <1>s, <1>u, <1>11 DEF Trap, sums, table, LinesAt, SumInv
<1>12. CASE Sum
  <2>1. pc = "sum" /\ i < count /\ i' = i + 1 /\ UNCHANGED <<pc, table>>
    BY <1>12 DEF Sum
  <2>2. PICK k : k = i + 1 /\ k \in 1 .. count /\ k - 1 = i
    BY <1>0, <2>1
  <2>3. PICK e : e = entries[k]
    OBVIOUS
  <2>4. /\ mem_size' = (mem_size + Length(e)) % WORD
        /\ available_mem' = IF e.type = 1 THEN (available_mem + Length(e)) % WORD
                            ELSE available_mem
        /\ reclaimable_mem' = IF e.type = 3 THEN (reclaimable_mem + Length(e)) % WORD
                              ELSE reclaimable_mem
    BY <1>12, <2>2, <2>3 DEF Sum
  <2>5. /\ Handed \in Seq(Entry) /\ Len(Handed) = count /\ e = Handed[k] /\ e = given[k]
        /\ k \in 1 .. G /\ e \in Entry
    <3>1. /\ Handed \in Seq(Entry) /\ Len(Handed) = count /\ count <= G
          /\ entries[k] = Handed[k] /\ Handed[k] = given[k]
      BY <1>0, <2>2, HandedTyped
    <3>2. G \in Nat /\ Handed[k] \in Entry
      BY <1>0, <2>2, <3>1 DEF MapOK, G
    <3> QED
      BY <1>0, <2>2, <2>3, <3>1, <3>2
  <2>6. ASSUME Small PROVE Length(e) = e.l
    <3>1. e.h = 0 /\ e.l \in Nat /\ e.l < WORD /\ WORD \in Nat
      BY <2>5, <2>6, EntryTyped, Constants DEF Small
    <3>2. (0 + e.l) % WORD = e.l
      BY <3>1
    <3> QED
      BY <3>1, <3>2 DEF Length
  <2>7. Handed' = Handed /\ (Small' <=> Small)
    BY <2>1 DEF Handed, Small, G, table
  <2>8. ASSUME Small
        PROVE  /\ mem_size' = Sums(Handed, AllTypes)[k] % WORD
               /\ available_mem' = Sums(Handed, {1})[k] % WORD
               /\ reclaimable_mem' = Sums(Handed, {3})[k] % WORD
    <3>1. /\ mem_size = Sums(Handed, AllTypes)[k - 1] % WORD
          /\ available_mem = Sums(Handed, {1})[k - 1] % WORD
          /\ reclaimable_mem = Sums(Handed, {3})[k - 1] % WORD
      BY <1>s, <2>2, <2>8 DEF SumsOK
    <3>2. ASSUME NEW types, NEW x, x = Sums(Handed, types)[k - 1] % WORD
          PROVE  Sums(Handed, types)[k] % WORD
                   = IF Handed[k].type \in types THEN (x + Handed[k].l) % WORD ELSE x
      <4>1. k \in 1 .. Len(Handed) /\ Handed \in Seq(Entry)
        BY <2>2, <2>5
      <4> HIDE DEF Handed
      <4> QED
        BY <3>2, <4>1, SumStep
    <3>3. Length(e) = e.l /\ e = Handed[k] /\ e.type \in AllTypes
      BY <2>5, <2>6, <2>8 DEF AllTypes
    <3>4. mem_size' = Sums(Handed, AllTypes)[k] % WORD
      BY <2>4, <3>1, <3>2, <3>3
    <3>5. available_mem' = Sums(Handed, {1})[k] % WORD
      BY <2>4, <3>1, <3>2, <3>3
    <3>6. reclaimable_mem' = Sums(Handed, {3})[k] % WORD
      BY <2>4, <3>1, <3>2, <3>3
    <3> QED
      BY <3>4, <3>5, <3>6
  <2>9. i' = k /\ i' # 0
    BY <1>0, <2>1, <2>2
  <2>10. SumsOK'
    BY <2>7, <2>8, <2>9 DEF SumsOK
  <2>11. i' <= count' /\ LinesAt(pc') = 2
    BY <1>0, <2>1 DEF LinesAt, table
  <2> QED
    BY <2>1, <2>10, <2>11 DEF SumInv
<1>13. CASE locate_smbios_entry
  <2>1. pc = "locate" /\ pc' = "address" /\ UNCHANGED <<table, sums>>
    BY <1>13 DEF locate_smbios_entry
  <2>2. SumsOK'
    BY <1>u, <2>1 DEF table, sums
  <2> QED
    BY <1>s, <2>1, <2>2 DEF table, sums, LinesAt, SumInv
<1>14. CASE UNCHANGED vars
  <2>1. UNCHANGED <<pc, table, sums>>
    BY <1>14 DEF vars
  <2>2. SumsOK'
    BY <1>u, <2>1 DEF table, sums
  <2> QED
    BY <1>s, <2>1, <2>2 DEF table, sums, SumInv
<1> QED
  BY <1>1, <1>2, <1>3, <1>4, <1>5, <1>6, <1>7, <1>8, <1>9, <1>10, <1>11, <1>12, <1>13,
     <1>14 DEF Next

\* What a line with one number leaves on the screen.
LEMMA OneShown ==
    ASSUME DisplayOK, NEW n, NEW d \in Seq(Nat), printf(n, <<d>>)
    PROVE  /\ Len(shown) \in Nat /\ Len(shown') = Len(shown) + 1
           /\ shown'[Len(shown) + 1] = d
           /\ \A k \in 1 .. Len(shown) : shown'[k] = shown[k]
<1>1. shown \in Seq(Seq(Nat)) /\ <<d>> \in Seq(Seq(Nat)) /\ Len(<<d>>) = 1 /\ <<d>>[1] = d
  BY DEF DisplayOK
<1>2. shown' = shown \o <<d>>
  BY DEF printf
<1> QED
  BY ONLY <1>1, <1>2

\* What the line with the two bytes of the version leaves there.
LEMMA TwoShown ==
    ASSUME DisplayOK, NEW n, NEW d \in Seq(Nat), NEW e \in Seq(Nat), printf(n, <<d, e>>)
    PROVE  /\ Len(shown) \in Nat /\ Len(shown') = Len(shown) + 2
           /\ \A k \in 1 .. Len(shown) : shown'[k] = shown[k]
<1>1. shown \in Seq(Seq(Nat)) /\ <<d, e>> \in Seq(Seq(Nat)) /\ Len(<<d, e>>) = 2
  BY DEF DisplayOK
<1>2. shown' = shown \o <<d, e>>
  BY DEF printf
<1> QED
  BY ONLY <1>1, <1>2

\* The numbers of the report stay, and every line adds its own.
LEMMA ReportShown ==
    ASSUME TInv, ShownInv, Report
    PROVE  ShownInv'
<1>d. DisplayOK /\ MapOK /\ MapBounds
  BY DEF TInv
<1>u. UNCHANGED <<count, mem_size, available_mem, reclaimable_mem, smbios_entry, num,
                  sector_size>>
  BY DEF Report, table, sums
<1>n. \A t \in Nat : Decimal(t) \in Seq(Nat) /\ printx(t) \in Seq(Nat)
  BY DigitsLength DEF Decimal, printx
<1>t. /\ count \in Nat /\ mem_size \in Nat /\ available_mem \in Nat /\ reclaimable_mem \in Nat
      /\ smbios_entry \in Nat /\ num \in Nat /\ sector_size \in Nat
  <2>1. count \in Nat
    BY <1>d, HandedTyped
  <2>2. /\ mem_size \in 0 .. WORD - 1 /\ available_mem \in 0 .. WORD - 1
        /\ reclaimable_mem \in 0 .. WORD - 1 /\ smbios_entry \in 0 .. MEGABYTE - 1
        /\ num \in 0 .. 255 /\ sector_size \in 0 .. UINT16 - 1
    BY <1>d DEF MapBounds
  <2> QED
    BY <2>1, <2>2
<1>s. /\ Len(shown) = NumbersAt(pc)
      /\ NumbersAt(pc) >= 1 => shown[1] = Decimal(count)
      /\ NumbersAt(pc) >= 2 => shown[2] = Decimal(mem_size)
      /\ NumbersAt(pc) >= 3 => shown[3] = Decimal(available_mem)
      /\ NumbersAt(pc) >= 4 => shown[4] = Decimal(reclaimable_mem)
      /\ NumbersAt(pc) >= 5 => shown[5] = printx(smbios_entry)
      /\ NumbersAt(pc) >= 8 => shown[8] = printx(num)
      /\ NumbersAt(pc) >= 9 => shown[9] = Decimal(sector_size)
  BY DEF ShownInv
<1>i. ASSUME NEW m \in 0 .. 9, NumbersAt(pc') = m, Len(shown') = m,
             m >= 1 => shown'[1] = Decimal(count),
             m >= 2 => shown'[2] = Decimal(mem_size),
             m >= 3 => shown'[3] = Decimal(available_mem),
             m >= 4 => shown'[4] = Decimal(reclaimable_mem),
             m >= 5 => shown'[5] = printx(smbios_entry),
             m >= 8 => shown'[8] = printx(num),
             m >= 9 => shown'[9] = Decimal(sector_size)
      PROVE  ShownInv'
  BY <1>u, <1>i, Zenon DEF ShownInv
<1>o. ASSUME NEW n, NEW d \in Seq(Nat), printf(n, <<d>>), NEW m \in Nat, NEW p \in Nat,
             NumbersAt(pc) = m, p = m + 1
      PROVE  Len(shown') = p /\ shown'[p] = d /\ \A k \in 1 .. m : shown'[k] = shown[k]
  <2>1. /\ Len(shown') = Len(shown) + 1 /\ shown'[Len(shown) + 1] = d
        /\ \A k \in 1 .. Len(shown) : shown'[k] = shown[k]
    BY <1>d, <1>o, OneShown
  <2>2. Len(shown) = m
    BY <1>s, <1>o
  <2> QED
    BY <1>o, <2>1, <2>2, Zenon
<1>1. CASE Line("greet", "entries", 23, <<>>)
  <2>1. NumbersAt(pc) = 0 /\ NumbersAt(pc') = 0
    BY <1>1 DEF Line, NumbersAt
  <2>2. shown' = shown \o <<>> /\ shown \in Seq(Seq(Nat))
    BY <1>1, <1>d DEF Line, printf, DisplayOK
  <2>3. Len(shown') = 0
    BY <1>s, <2>1, <2>2
  <2> QED
    BY <1>i, <2>1, <2>3
<1>2. CASE Line("entries", "sum", 14, <<Decimal(count)>>)
  <2>1. NumbersAt(pc) = 0 /\ NumbersAt(pc') = 1
    BY <1>2 DEF Line, NumbersAt
  <2>2. printf(14, <<Decimal(count)>>) /\ Decimal(count) \in Seq(Nat)
    BY <1>2, <1>n, <1>t DEF Line
  <2>3. 0 \in Nat /\ 1 \in Nat /\ 1 = 0 + 1
    OBVIOUS
  <2>4. Len(shown') = 1 /\ shown'[1] = Decimal(count)
    BY <1>o, <2>1, <2>2, <2>3, Zenon
  <2> QED
    BY <1>i, <2>1, <2>4
<1>3. CASE Line("sum", "usable", 27, <<Decimal(mem_size)>>)
  <2>1. NumbersAt(pc) = 1 /\ NumbersAt(pc') = 2
    BY <1>3 DEF Line, NumbersAt
  <2>2. printf(27, <<Decimal(mem_size)>>) /\ Decimal(mem_size) \in Seq(Nat)
    BY <1>3, <1>n, <1>t DEF Line
  <2>3. 1 \in Nat /\ 2 \in Nat /\ 2 = 1 + 1
    OBVIOUS
  <2>4. /\ Len(shown') = 2 /\ shown'[2] = Decimal(mem_size)
        /\ \A k \in 1 .. 1 : shown'[k] = shown[k]
    BY <1>o, <2>1, <2>2, <2>3, Zenon
  <2> QED
    BY <1>i, <1>s, <2>1, <2>4
<1>4. CASE Line("usable", "reclaimable", 28, <<Decimal(available_mem)>>)
  <2>1. NumbersAt(pc) = 2 /\ NumbersAt(pc') = 3
    BY <1>4 DEF Line, NumbersAt
  <2>2. printf(28, <<Decimal(available_mem)>>) /\ Decimal(available_mem) \in Seq(Nat)
    BY <1>4, <1>n, <1>t DEF Line
  <2>3. 2 \in Nat /\ 3 \in Nat /\ 3 = 2 + 1
    OBVIOUS
  <2>4. /\ Len(shown') = 3 /\ shown'[3] = Decimal(available_mem)
        /\ \A k \in 1 .. 2 : shown'[k] = shown[k]
    BY <1>o, <2>1, <2>2, <2>3, Zenon
  <2> QED
    BY <1>i, <1>s, <2>1, <2>4
<1>5. CASE Line("reclaimable", "locate", 26, <<Decimal(reclaimable_mem)>>)
  <2>1. NumbersAt(pc) = 3 /\ NumbersAt(pc') = 4
    BY <1>5 DEF Line, NumbersAt
  <2>2. printf(26, <<Decimal(reclaimable_mem)>>) /\ Decimal(reclaimable_mem) \in Seq(Nat)
    BY <1>5, <1>n, <1>t DEF Line
  <2>3. 3 \in Nat /\ 4 \in Nat /\ 4 = 3 + 1
    OBVIOUS
  <2>4. /\ Len(shown') = 4 /\ shown'[4] = Decimal(reclaimable_mem)
        /\ \A k \in 1 .. 3 : shown'[k] = shown[k]
    BY <1>o, <2>1, <2>2, <2>3, Zenon
  <2> QED
    BY <1>i, <1>s, <2>1, <2>4
<1>6. CASE Line("address", "version", 23, <<printx(smbios_entry)>>)
  <2>1. NumbersAt(pc) = 4 /\ NumbersAt(pc') = 5
    BY <1>6 DEF Line, NumbersAt
  <2>2. printf(23, <<printx(smbios_entry)>>) /\ printx(smbios_entry) \in Seq(Nat)
    BY <1>6, <1>n, <1>t DEF Line
  <2>3. 4 \in Nat /\ 5 \in Nat /\ 5 = 4 + 1
    OBVIOUS
  <2>4. /\ Len(shown') = 5 /\ shown'[5] = printx(smbios_entry)
        /\ \A k \in 1 .. 4 : shown'[k] = shown[k]
    BY <1>o, <2>1, <2>2, <2>3, Zenon
  <2> QED
    BY <1>i, <1>s, <2>1, <2>4
<1>w. ASSUME NEW n, NEW d \in Seq(Nat), NEW e \in Seq(Nat), printf(n, <<d, e>>)
      PROVE  /\ Len(shown') = Len(shown) + 2
             /\ \A k \in 1 .. Len(shown) : shown'[k] = shown[k]
  BY <1>d, <1>w, TwoShown
<1>7. ASSUME NEW major \in {0, 255}, NEW minor \in {0, 255},
             Line("version", "drive", 19, <<Decimal(major), Decimal(minor)>>)
      PROVE  ShownInv'
  <2>1. NumbersAt(pc) = 5 /\ NumbersAt(pc') = 7
    BY <1>7 DEF Line, NumbersAt
  <2>2. PICK d \in Seq(Nat) : d = Decimal(major)
    BY <1>n
  <2>3. PICK e \in Seq(Nat) : e = Decimal(minor)
    BY <1>n
  <2>4. printf(19, <<d, e>>)
    BY <1>7, <2>2, <2>3 DEF Line
  <2>5. /\ Len(shown') = Len(shown) + 2
        /\ \A k \in 1 .. Len(shown) : shown'[k] = shown[k]
    BY <1>w, <2>4
  <2>6. Len(shown') = 7 /\ \A k \in 1 .. 5 : shown'[k] = shown[k]
    BY <1>s, <2>1, <2>5
  <2> QED
    BY <1>i, <1>s, <2>1, <2>6
<1>8. CASE Line("drive", "bytes", 17, <<printx(num)>>)
  <2>1. NumbersAt(pc) = 7 /\ NumbersAt(pc') = 8
    BY <1>8 DEF Line, NumbersAt
  <2>2. printf(17, <<printx(num)>>) /\ printx(num) \in Seq(Nat)
    BY <1>8, <1>n, <1>t DEF Line
  <2>3. 7 \in Nat /\ 8 \in Nat /\ 8 = 7 + 1
    OBVIOUS
  <2>4. /\ Len(shown') = 8 /\ shown'[8] = printx(num)
        /\ \A k \in 1 .. 7 : shown'[k] = shown[k]
    BY <1>o, <2>1, <2>2, <2>3, Zenon
  <2> QED
    BY <1>i, <1>s, <2>1, <2>4
<1>9. CASE Line("bytes", "halt", 20, <<Decimal(sector_size)>>)
  <2>1. NumbersAt(pc) = 8 /\ NumbersAt(pc') = 9
    BY <1>9 DEF Line, NumbersAt
  <2>2. printf(20, <<Decimal(sector_size)>>) /\ Decimal(sector_size) \in Seq(Nat)
    BY <1>9, <1>n, <1>t DEF Line
  <2>3. 8 \in Nat /\ 9 \in Nat /\ 9 = 8 + 1
    OBVIOUS
  <2>4. /\ Len(shown') = 9 /\ shown'[9] = Decimal(sector_size)
        /\ \A k \in 1 .. 8 : shown'[k] = shown[k]
    BY <1>o, <2>1, <2>2, <2>3, Zenon
  <2> QED
    BY <1>i, <1>s, <2>1, <2>4
<1> QED
  BY <1>1, <1>2, <1>3, <1>4, <1>5, <1>6, <1>7, <1>8, <1>9 DEF Report

\* Every step keeps what has been printed.
LEMMA NextShownInv == TInv /\ ShownInv /\ [Next]_vars => ShownInv'
<1> SUFFICES ASSUME TInv, ShownInv, [Next]_vars PROVE ShownInv'
  OBVIOUS
<1>0. ASSUME NumbersAt(pc) = 0, NumbersAt(pc') = 0, shown' = shown PROVE ShownInv'
  BY <1>0 DEF ShownInv
<1>1. CASE Start
  BY <1>0, <1>1 DEF Start, NumbersAt, display
<1>2. CASE enable_a20
  BY <1>0, <1>2 DEF enable_a20, NumbersAt, display
<1>3. CASE E820
  BY <1>0, <1>3 DEF E820, NumbersAt, display
<1>4. CASE E820Done
  BY <1>0, <1>4 DEF E820Done, NumbersAt, display
<1>5. CASE E820Fails
  BY <1>0, <1>5 DEF E820Fails, NumbersAt, display
<1>6. CASE Enter
  BY <1>0, <1>6 DEF Enter, NumbersAt, init_screen
<1>7. CASE Wild
  BY <1>0, <1>7 DEF Wild, NumbersAt, display
<1>8. CASE Clear
  BY <1>0, <1>8 DEF Clear, NumbersAt, clear_screen
<1>9. CASE ClearForEver
  BY <1>0, <1>9 DEF ClearForEver, NumbersAt, display
<1>10. CASE Report
  BY <1>10, ReportShown
<1>11. CASE Trap
  BY <1>0, <1>11 DEF Trap, NumbersAt, printf_traps, display
<1>12. CASE Sum
  <2>1. pc = "sum" /\ pc' = pc /\ count' = count /\ shown' = shown
    BY <1>12 DEF Sum, table, display
  <2>2. NumbersAt(pc) = 1
    BY <2>1 DEF NumbersAt
  <2> QED
    BY <2>1, <2>2 DEF ShownInv
<1>13. CASE locate_smbios_entry
  <2>1. /\ pc = "locate" /\ pc' = "address" /\ shown' = shown
        /\ UNCHANGED <<count, mem_size, available_mem, reclaimable_mem>>
    BY <1>13 DEF locate_smbios_entry, table, sums, display
  <2>2. NumbersAt(pc) = 4 /\ NumbersAt(pc') = 4
    BY <2>1 DEF NumbersAt
  <2> QED
    BY <2>1, <2>2 DEF ShownInv
<1>14. CASE UNCHANGED vars
  BY <1>14 DEF vars, table, sums, display, ShownInv
<1> QED
  BY <1>1, <1>2, <1>3, <1>4, <1>5, <1>6, <1>7, <1>8, <1>9, <1>10, <1>11, <1>12, <1>13,
     <1>14 DEF Next

\* Every step keeps what has been found.
LEMMA NextFoundInv == FoundInv /\ [Next]_vars => FoundInv'
<1> SUFFICES ASSUME FoundInv, [Next]_vars PROVE FoundInv'
  OBVIOUS
<1> DEFINE Behind == pc \in {"address", "version", "drive", "bytes", "halt"}
<1>a. ASSUME area' = area PROVE Matches' = Matches
  BY <1>a DEF Matches
<1>u. ASSUME UNCHANGED <<area, smbios_entry>>, Behind' => Behind PROVE FoundInv'
  <2>1. Matches' = Matches /\ DOMAIN area' = 1 .. Paragraphs
    BY <1>a, <1>u DEF FoundInv
  <2>2. Found => Found'
    BY <1>u, <2>1 DEF Found
  <2> QED
    BY <1>u, <2>1, <2>2 DEF FoundInv
<1>1. CASE locate_smbios_entry
  <2>1. area' = area /\ pc' = "address"
    BY <1>1 DEF locate_smbios_entry, fixed
  <2>2. Matches' = Matches /\ DOMAIN area' = 1 .. Paragraphs
    BY <1>a, <2>1 DEF FoundInv
  <2>3. \/ Matches = {} /\ smbios_entry' = 0
        \/ \E k \in 1 .. Paragraphs :
              smbios_entry' = Address(k) /\ k \in Matches /\ \A m \in Matches : k <= m
    BY <1>1, Located
  <2>4. Found'
    BY <2>2, <2>3 DEF Found
  <2> QED
    BY <2>1, <2>2, <2>4 DEF FoundInv
<1>2. CASE Report
  BY <1>2, <1>u DEF Report, Line, fixed
<1>3. CASE Start \/ enable_a20 \/ E820 \/ E820Done \/ E820Fails
  BY <1>3, <1>u DEF Start, enable_a20, E820, E820Done, E820Fails, fixed
<1>4. CASE Enter \/ Wild \/ Clear \/ ClearForEver \/ Trap \/ Sum
  BY <1>4, <1>u DEF Enter, Wild, Clear, ClearForEver, Trap, Sum, fixed
<1>5. CASE UNCHANGED vars
  BY <1>5, <1>u DEF vars, fixed
<1> QED
  BY <1>1, <1>2, <1>3, <1>4, <1>5 DEF Next

\* Nothing is added up, printed or found in the initial states.
LEMMA InitReport == Init => SumInv /\ ShownInv /\ FoundInv
<1> SUFFICES ASSUME Init PROVE SumInv /\ ShownInv /\ FoundInv
  OBVIOUS
<1>1. /\ pc = "start" /\ count = 0 /\ i = 0 /\ mem_size = 0 /\ available_mem = 0
      /\ reclaimable_mem = 0 /\ shown = <<>>
      /\ area \in [1 .. Paragraphs -> {"none", "wrong", "good"}]
  BY DEF Init, ScreenInit
<1>2. NumbersAt(pc) = 0 /\ LinesAt(pc) = 0
  BY <1>1 DEF NumbersAt, LinesAt
<1>3. Len(shown) = 0
  BY <1>1
<1>4. ShownInv
  BY <1>2, <1>3 DEF ShownInv
<1>5. FoundInv
  BY <1>1 DEF FoundInv
<1>6. Handed = <<>> /\ <<>> \in Seq(Entry)
  BY <1>1 DEF Handed
<1>7. \A types : Sums(<<>>, types)[0] = 0
  BY <1>6, SumsDefined
<1>8. 0 % WORD = 0
  BY Constants
<1>9. SumInv
  BY <1>1, <1>2, <1>6, <1>7, <1>8 DEF SumInv, SumsOK
<1> QED
  BY <1>4, <1>5, <1>9

\* Read off the screen, the numbers that have been printed are the machine's.
LEMMA TrueAtHalt ==
    IInv /\ TInv /\ SumInv /\ ShownInv /\ FoundInv => ReportTrue
<1> SUFFICES ASSUME IInv, TInv, SumInv, ShownInv, FoundInv,
                    pc = "halt", Len(given) <= TABLE, Small
             PROVE  /\ Value(shown[1], 10) = Len(Handed)
                    /\ Value(shown[2], 10) = Total(Handed, AllTypes) % WORD
                    /\ Value(shown[3], 10) = Total(Handed, {1}) % WORD
                    /\ Value(shown[4], 10) = Total(Handed, {3}) % WORD
                    /\ \/ /\ Value(shown[5], 16) = 0
                          /\ \A k \in DOMAIN area : area[k] # "good"
                       \/ \E k \in DOMAIN area :
                             /\ Value(shown[5], 16) = Address(k) /\ area[k] = "good"
                             /\ \A m \in 1 .. k - 1 : area[m] # "good"
                    /\ Value(shown[8], 16) = DL /\ Value(shown[9], 10) = 512
  BY Zenon DEF ReportTrue, Handed, AllTypes, Small, G
<1>1. NumbersAt(pc) = 9 /\ LinesAt(pc) = 9
  BY DEF NumbersAt, LinesAt
<1>2. /\ shown[1] = Decimal(count) /\ shown[2] = Decimal(mem_size)
      /\ shown[3] = Decimal(available_mem) /\ shown[4] = Decimal(reclaimable_mem)
      /\ shown[5] = printx(smbios_entry) /\ shown[8] = printx(num)
      /\ shown[9] = Decimal(sector_size)
  BY <1>1 DEF ShownInv
<1>3. MapOK /\ MapBounds
  BY DEF TInv
<1>4. /\ count \in Nat /\ mem_size \in Nat /\ available_mem \in Nat /\ reclaimable_mem \in Nat
      /\ smbios_entry \in Nat /\ num \in Nat /\ sector_size \in Nat
  <2>1. count \in Nat
    BY <1>3, HandedTyped
  <2>2. /\ mem_size \in 0 .. WORD - 1 /\ available_mem \in 0 .. WORD - 1
        /\ reclaimable_mem \in 0 .. WORD - 1 /\ smbios_entry \in 0 .. MEGABYTE - 1
        /\ num \in 0 .. 255 /\ sector_size \in 0 .. UINT16 - 1
    BY <1>3 DEF MapBounds
  <2> QED
    BY <2>1, <2>2
<1>5. \A t \in Nat : Value(Decimal(t), 10) = t /\ Value(printx(t), 16) = t
  <2>1. ASSUME NEW base \in {10, 16}, NEW t \in Nat PROVE Value(Digits(t, base), base) = t
    BY DigitsRead
  <2> QED
    BY <2>1 DEF Decimal, printx
<1>6. /\ Value(shown[1], 10) = count /\ Value(shown[2], 10) = mem_size
      /\ Value(shown[3], 10) = available_mem /\ Value(shown[4], 10) = reclaimable_mem
      /\ Value(shown[5], 16) = smbios_entry /\ Value(shown[8], 16) = num
      /\ Value(shown[9], 10) = sector_size
  BY <1>2, <1>4, <1>5, Zenon
<1>7. Len(Handed) = count
  BY <1>3, HandedTyped
<1>8. i = count
  BY <1>1 DEF SumInv
<1>9. /\ mem_size = Total(Handed, AllTypes) % WORD
      /\ available_mem = Total(Handed, {1}) % WORD
      /\ reclaimable_mem = Total(Handed, {3}) % WORD
  BY <1>7, <1>8 DEF SumInv, SumsOK, Total
<1>10. num = DL /\ sector_size = 512
  BY DEF IInv, DriveOK, G
<1>11. DOMAIN area = 1 .. Paragraphs /\ Found
  BY DEF FoundInv
<1>12. CASE Matches = {} /\ smbios_entry = 0
  <2>1. \A k \in DOMAIN area : area[k] # "good"
    BY <1>11, <1>12 DEF Matches
  <2> QED
    BY <1>6, <1>7, <1>9, <1>10, <1>12, <2>1
<1>13. ASSUME NEW k \in 1 .. Paragraphs, smbios_entry = Address(k), k \in Matches,
              \A m \in Matches : k <= m
       PROVE  \E j \in DOMAIN area :
                 /\ smbios_entry = Address(j) /\ area[j] = "good"
                 /\ \A m \in 1 .. j - 1 : area[m] # "good"
  <2>1. k \in DOMAIN area /\ area[k] = "good"
    BY <1>11, <1>13 DEF Matches
  <2>2. Paragraphs \in Nat
    BY Constants
  <2>3. ASSUME NEW m \in 1 .. k - 1 PROVE area[m] # "good"
    <3>1. m \in 1 .. Paragraphs /\ ~(k <= m)
      BY <2>2
    <3> QED
      BY <1>13, <3>1 DEF Matches
  <2> QED
    BY <1>13, <2>1, <2>3, Zenon
<1> QED
  BY <1>6, <1>7, <1>9, <1>10, <1>11, <1>12, <1>13, Zenon DEF Found

\* What the screen says when boot2 halts is true of the machine, whatever the BIOS
\* reported: the sums of Sum, the digits of printf, the search and the drive, over
\* the whole way from real mode to the halt.
THEOREM ReportIsTrue == Spec => []ReportTrue
<1> DEFINE Inv == IInv /\ TInv /\ SumInv /\ ShownInv /\ FoundInv
<1>1. Init => Inv
  BY InitIInv, InitTInv, InitReport
<1>2. Inv /\ [Next]_vars => Inv'
  BY NextIInv, NextTInv, NextSumInv, NextShownInv, NextFoundInv
<1>3. Inv => ReportTrue
  BY TrueAtHalt
<1> QED
  BY <1>1, <1>2, <1>3, PTL DEF Spec

-----------------------------------------------------------------------------
\* What is used of the constants of a volume.
LEMMA Volumes ==
    /\ BOOTLD \in File /\ File \cap (Mark \cup {ZERO}) = {}
    /\ SLOT \in Nat \ {0} /\ SECTOR \in Nat /\ SECTOR >= 4 /\ OFFSETS \in Nat \ {0}
    /\ MaxCluster \in Nat /\ MaxCluster >= 2 /\ TERMINATOR \in Nat /\ NAME_LENGTH \in Nat
    /\ EOC \in Nat /\ EOC > MaxCluster /\ EOC >= TERMINATOR
BY FatAssumption

\* What the volume is stays, and a program that has not begun has done nothing;
\* cx has the bytes of a sector or a few more.
FatTyped ==
    /\ FatTypeOK
    /\ fat \in [2 .. MaxCluster -> (3 .. (MaxCluster - 1)) \cup {EOC}]
    /\ cx >= SECTOR
    /\ phase = "start" => /\ listed = 0 /\ printed = <<>>
                          /\ cluster = 0 /\ di = 0 /\ loads = <<>>

\* The numbers a volume says of itself.
LEMMA BpbTyped ==
    ASSUME bpb \in Geometry
    PROVE  /\ bpb.bytes_per_sector \in Nat /\ bpb.sectors_per_cluster \in Nat \ {0}
           /\ bpb.fat_sectors \in Nat /\ bpb.root_dir_cluster \in Nat
           /\ cluster_size \in Nat /\ cluster_size \div SLOT \in Nat
<1>1. bpb \in [bytes_per_sector : Nat, sectors_per_cluster : Nat \ {0},
               fat_sectors : Nat, root_dir_cluster : Nat]
  BY FatAssumption
<1>2. /\ bpb.bytes_per_sector \in Nat /\ bpb.sectors_per_cluster \in Nat \ {0}
      /\ bpb.fat_sectors \in Nat /\ bpb.root_dir_cluster \in Nat
  BY <1>1
<1>3. cluster_size \in Nat
  BY <1>2 DEF cluster_size
<1>4. \E d \in Nat : \E m \in 0 .. SLOT - 1 :
         d = cluster_size \div SLOT /\ m = cluster_size % SLOT
         /\ cluster_size = d * SLOT + m
  BY <1>3, Volumes, Division
<1> QED
  BY <1>2, <1>3, <1>4

\* What fat_reader reads of a directory.
LEMMA ClusterTyped ==
    ASSUME bpb \in Geometry, NEW root \in Seq(Slot)
    PROVE  /\ InCluster(root) \in Seq(Slot \cup {ZERO})
           /\ Len(InCluster(root)) = cluster_size \div SLOT
           /\ \A k \in 1 .. cluster_size \div SLOT :
                 InCluster(root)[k] = IF k <= Len(root) THEN root[k] ELSE ZERO
<1>1. PICK n : n = cluster_size \div SLOT /\ n \in Nat
  BY BpbTyped
<1>2. InCluster(root) = [k \in 1 .. n |-> IF k <= Len(root) THEN root[k] ELSE ZERO]
  BY <1>1 DEF InCluster
<1>3. \A k \in 1 .. n : (IF k <= Len(root) THEN root[k] ELSE ZERO) \in Slot \cup {ZERO}
  BY <1>1
<1>4. InCluster(root) \in [1 .. n -> Slot \cup {ZERO}]
  BY <1>2, <1>3
<1>5. InCluster(root) \in Seq(Slot \cup {ZERO}) /\ Len(InCluster(root)) = n
  BY <1>1, <1>4
<1> QED
  BY <1>1, <1>2, <1>5

\* The initial states are typed.
LEMMA FatInitTyped == FatInit => FatTyped
<1> SUFFICES ASSUME FatInit PROVE FatTyped
  OBVIOUS
<1>1. dir \in Seq(Slot)
  <2>1. PICK n \in 0 .. MaxSlots : dir \in [1 .. n -> Slot]
    BY DEF FatInit
  <2>2. n \in Nat
    BY FatAssumption
  <2> QED
    BY <2>1, <2>2
<1>2. fat \in [2 .. MaxCluster -> (3 .. (MaxCluster - 1)) \cup {EOC}]
  BY DEF FatInit, Chains
<1>3. 0 \in 0 .. Len(<<>>) \div 2 /\ <<>> \in Seq(Slot \cup {ZERO}) /\ <<>> \in Seq(Slot)
      /\ <<>> \in Seq(Nat \X (0 .. MaxCluster)) /\ 0 \in 0 .. MaxCluster
  BY Volumes
<1>4. /\ prog \in {"fat_reader", "boot0"} /\ phase = "start" /\ bpb \in Geometry
      /\ root_cluster = <<>> /\ listed = 0 /\ printed = <<>>
      /\ cluster = 0 /\ di = 0 /\ cx = SECTOR /\ loads = <<>>
  BY DEF FatInit
<1>5. FatTypeOK
  BY <1>1, <1>3, <1>4, Volumes DEF FatTypeOK
<1> QED
  BY <1>2, <1>4, <1>5, Volumes DEF FatTyped

\* What the table holds: a cluster, the end of a chain, or 0.
LEMMA EntryOf ==
    ASSUME FatTyped, NEW entry \in FatEntry(cluster)
    PROVE  entry \in 0 .. MaxCluster \/ entry = EOC
<1>1. cx \in Nat /\ cx >= 4 /\ SECTOR \in Nat /\ cluster \in Nat /\ MaxCluster \in Nat
  BY Volumes DEF FatTyped, FatTypeOK
<1>2. PICK q : q = cx \div 4
  OBVIOUS
<1>3. q \in Nat \ {0}
  BY <1>1, <1>2
<1>4. PICK at : at = (cluster \div q) * (SECTOR \div 4) + (cluster % q)
  OBVIOUS
<1>5. at \in Nat
  <2>1. \E d \in Nat : \E m \in 0 .. q - 1 :
           d = cluster \div q /\ m = cluster % q /\ cluster = d * q + m
    BY <1>1, <1>3, Division
  <2>2. PICK s : s = SECTOR \div 4 /\ s \in Nat
    BY <1>1
  <2>3. \A d \in Nat, m \in 0 .. q - 1 : d * s + m \in Nat
    BY <1>3, <2>2
  <2> QED
    BY <1>4, <2>1, <2>2, <2>3
<1>6. entry \in EntryAt(at)
  BY <1>2, <1>4 DEF FatEntry
<1>7. CASE at < 2
  BY <1>6, <1>7 DEF EntryAt
<1>8. CASE at >= 2 /\ at <= MaxCluster
  <2>1. fat[at] \in (3 .. (MaxCluster - 1)) \cup {EOC}
    BY <1>1, <1>5, <1>8 DEF FatTyped
  <2> QED
    BY <1>1, <1>5, <1>6, <1>8, <2>1 DEF EntryAt
<1>9. CASE at > MaxCluster
  BY <1>1, <1>5, <1>6, <1>9, Volumes DEF EntryAt
<1> QED
  BY <1>1, <1>5, <1>7, <1>8, <1>9

\* Every step of the two programs keeps the types.
LEMMA FatNextTyped == FatTyped /\ [FatNext]_fatvars => FatTyped'
<1> SUFFICES ASSUME FatTyped, [FatNext]_fatvars PROVE FatTyped'
  OBVIOUS
<1>0. /\ prog \in {"fat_reader", "boot0"}
      /\ phase \in {"start", "list", "exit", "trap", "died", "load", "jump"}
      /\ bpb \in Geometry /\ dir \in Seq(Slot)
      /\ root_cluster \in Seq(Slot \cup {ZERO}) /\ listed \in 0 .. Len(root_cluster) \div 2
      /\ printed \in Seq(Slot)
      /\ cluster \in 0 .. MaxCluster /\ di \in Nat /\ cx \in Nat
      /\ loads \in Seq(Nat \X (0 .. MaxCluster))
      /\ fat \in [2 .. MaxCluster -> (3 .. (MaxCluster - 1)) \cup {EOC}]
      /\ cx >= SECTOR
      /\ phase = "start" => /\ listed = 0 /\ printed = <<>>
                            /\ cluster = 0 /\ di = 0 /\ loads = <<>>
  BY DEF FatTyped, FatTypeOK
<1>1. CASE ReadRoot
  <2>1. PICK root \in Seq(Slot) : root_cluster' = InCluster(root)
    <3>1. PICK elsewhere \in {<<>>, <<"lfn", BOOTLD>>} :
             root_cluster' = InCluster(IF root_dir_offset = RootSector * bpb.bytes_per_sector
                                       THEN dir ELSE elsewhere)
      BY <1>1 DEF ReadRoot
    <3>2. "lfn" \in Slot /\ BOOTLD \in Slot
      BY Volumes DEF Slot, Mark
    <3>3. elsewhere \in Seq(Slot)
      <4>1. PICK a \in Slot : a = "lfn"
        BY <3>2
      <4>2. PICK b \in Slot : b = BOOTLD
        BY <3>2
      <4>3. <<>> \in Seq(Slot) /\ <<a, b>> \in Seq(Slot)
        OBVIOUS
      <4> QED
        BY <4>1, <4>2, <4>3, Zenon
    <3> QED
      BY <1>0, <3>1, <3>3
  <2>2. root_cluster' \in Seq(Slot \cup {ZERO})
    BY <1>0, <2>1, ClusterTyped
  <2>3. /\ phase' = "list" /\ listed' = 0
        /\ UNCHANGED <<prog, disk, printed, cluster, di, cx, loads>>
    BY <1>0, <1>1 DEF ReadRoot
  <2>4. listed' \in 0 .. Len(root_cluster') \div 2
    BY <2>2, <2>3
  <2> QED
    BY <1>0, <2>2, <2>3, <2>4 DEF FatTyped, FatTypeOK, disk
<1>2. CASE ReaderFails
  BY <1>0, <1>2 DEF ReaderFails, FatTyped, FatTypeOK, disk
<1>3. CASE ListEntry
  <2>1. /\ listed < Len(root_cluster) \div 2 /\ Short(listed) # ZERO
        /\ printed' = printed \/ printed' = Append(printed, Short(listed))
        /\ listed' = listed + 1
        /\ UNCHANGED <<prog, phase, disk, root_cluster, cluster, di, cx, loads>>
    BY <1>3 DEF ListEntry
  <2>2. listed' \in 0 .. Len(root_cluster') \div 2
    BY <1>0, <2>1
  <2>3. Short(listed) \in Slot
    <3>1. 2 * listed + 2 \in 1 .. Len(root_cluster)
      BY <1>0, <2>1
    <3>2. root_cluster[2 * listed + 2] \in Slot \cup {ZERO}
      BY <1>0, <3>1
    <3> QED
      BY <2>1, <3>2 DEF Short
  <2>4. printed' \in Seq(Slot)
    <3>1. PICK e \in Slot : e = Short(listed)
      BY <2>3
    <3>2. printed \in Seq(Slot) /\ (printed' = printed \/ printed' = Append(printed, e))
      BY <1>0, <2>1, <3>1
    <3> QED
      BY ONLY <3>2
  <2>5. phase # "start"
    BY <1>3 DEF ListEntry
  <2> QED
    BY <1>0, <2>1, <2>2, <2>4, <2>5 DEF FatTyped, FatTypeOK, disk
<1>4. CASE ListEnds
  BY <1>0, <1>4 DEF ListEnds, FatTyped, FatTypeOK, disk
<1>5. CASE LocateFile
  <2>1. /\ phase' = "load" /\ cx' \in {SECTOR} \cup (SECTOR + 1 .. SECTOR + NAME_LENGTH)
        /\ cluster' \in {First(BOOTLD), First(SlotOnDisk(4))}
        /\ UNCHANGED <<prog, disk, root_cluster, listed, printed, di, loads>>
    BY <1>5 DEF LocateFile
  <2>2. cluster' \in 0 .. MaxCluster
    BY <2>1, Volumes DEF First
  <2>3. cx' \in Nat /\ cx' >= SECTOR
    BY <2>1, Volumes
  <2> QED
    BY <1>0, <2>1, <2>2, <2>3 DEF FatTyped, FatTypeOK, disk
<1>6. CASE LoadCluster
  <2>1. /\ phase = "load" /\ phase' \in {"load", "jump"}
        /\ loads' = Append(loads, <<di, cluster>>)
        /\ UNCHANGED <<prog, disk, root_cluster, listed, printed, cx>>
    BY <1>6 DEF LoadCluster, Turn
  <2>2. PICK entry \in FatEntry(cluster) :
           IF entry >= TERMINATOR THEN UNCHANGED <<cluster, di>>
           ELSE cluster' = entry /\ di' = di + cx
    BY <1>6 DEF LoadCluster, Turn
  <2>3. entry \in 0 .. MaxCluster \/ entry = EOC
    BY EntryOf
  <2>4. cluster' \in 0 .. MaxCluster /\ di' \in Nat
    <3>1. CASE entry >= TERMINATOR
      BY <1>0, <2>2, <3>1
    <3>2. CASE ~(entry >= TERMINATOR)
      <4>1. cluster' = entry /\ di' = di + cx /\ di \in Nat /\ cx \in Nat
        BY <1>0, <2>2, <3>2
      <4>2. entry # EOC
        BY <3>2, Volumes
      <4> QED
        BY <2>3, <4>1, <4>2
    <3> QED
      BY <3>1, <3>2
  <2>5. loads' \in Seq(Nat \X (0 .. MaxCluster))
    BY <1>0, <2>1
  <2> QED
    BY <1>0, <2>1, <2>4, <2>5 DEF FatTyped, FatTypeOK, disk
<1>7. CASE UNCHANGED fatvars
  BY <1>0, <1>7 DEF fatvars, FatTyped, FatTypeOK, disk
<1> QED
  BY <1>1, <1>2, <1>3, <1>4, <1>5, <1>6, <1>7 DEF FatNext

\* What the two programs keep stays typed on every volume, one that says of itself
\* what cannot be included.
THEOREM VolumeTyped == FatSpec => []FatTypeOK
<1>1. FatTyped => FatTypeOK
  BY DEF FatTyped
<1> QED
  BY <1>1, FatInitTyped, FatNextTyped, PTL DEF FatSpec
-----------------------------------------------------------------------------
\* While boot0 loads, the clusters loaded so far lie one behind the other and are
\* the beginning of the chain, and di is behind them; at the jump it is all of it.
Loaded ==
    /\ cx = SECTOR
    /\ \A n \in 1 .. Len(loads) :
          loads[n][1] = (n - 1) * SECTOR /\ loads[n][2] \in 2 .. MaxCluster
    /\ \A n \in 1 .. Len(loads) - 1 : fat[loads[n][2]] = loads[n + 1][2]
    /\ Len(loads) >= 1 => loads[1][2] = 2

LoadInv ==
    phase \in {"load", "jump"} /\ SlotOnDisk(2) = BOOTLD /\ MaxCluster < TERMINATOR =>
        /\ Loaded
        /\ phase = "load" =>
              /\ di = Len(loads) * SECTOR
              /\ IF Len(loads) = 0 THEN cluster = 2
                 ELSE cluster = fat[loads[Len(loads)][2]]
              /\ cluster \in 2 .. MaxCluster
        /\ phase = "jump" => Len(loads) >= 1 /\ fat[loads[Len(loads)][2]] = EOC

\* In a sector of whole entries the entry of a cluster is found by sector and index.
LEMMA EntryFound ==
    ASSUME cx = SECTOR, cluster \in 2 .. MaxCluster
    PROVE  FatEntry(cluster) = {fat[cluster]}
<1>1. SECTOR \in Nat /\ SECTOR >= 4 /\ MaxCluster \in Nat
  BY Volumes
<1>2. PICK q : q = SECTOR \div 4
  OBVIOUS
<1>3. q \in Nat \ {0}
  BY <1>1, <1>2
<1>4. cluster \in Nat /\ cluster >= 2 /\ cluster <= MaxCluster
  BY <1>1
<1>5. (cluster \div q) * q + (cluster % q) = cluster
  <2>1. \E d \in Nat : \E m \in 0 .. q - 1 :
           d = cluster \div q /\ m = cluster % q /\ cluster = d * q + m
    BY <1>3, <1>4, Division
  <2> QED
    BY <2>1, Zenon
<1>6. FatEntry(cluster) = EntryAt(cluster)
  BY <1>2, <1>5, Zenon DEF FatEntry
<1> QED
  BY <1>1, <1>4, <1>6 DEF EntryAt

\* One cluster more.
LEMMA OneLoaded ==
    ASSUME FatTyped, Loaded, loads' = Append(loads, <<di, cluster>>), UNCHANGED <<cx, fat>>,
           di = Len(loads) * SECTOR, cluster \in 2 .. MaxCluster,
           IF Len(loads) = 0 THEN cluster = 2 ELSE cluster = fat[loads[Len(loads)][2]]
    PROVE  Loaded' /\ Len(loads') = Len(loads) + 1 /\ loads'[Len(loads')][2] = cluster
<1>1. PICK l : l = Len(loads)
  OBVIOUS
<1>2. loads \in Seq(Nat \X (0 .. MaxCluster)) /\ <<di, cluster>> \in Nat \X (0 .. MaxCluster)
  BY DEF FatTyped, FatTypeOK
<1>3. /\ l \in Nat /\ Len(loads') = l + 1
      /\ \A n \in 1 .. l : loads'[n] = loads[n]
      /\ loads'[l + 1] = <<di, cluster>>
  BY <1>1, <1>2
<1>4. loads'[l + 1][1] = l * SECTOR /\ loads'[l + 1][2] = cluster
  BY <1>1, <1>3
<1>5. PICK m : m = l + 1 /\ m \in Nat /\ m - 1 = l
  BY <1>3
<1>6. /\ \A n \in 1 .. l :
            loads'[n][1] = (n - 1) * SECTOR /\ loads'[n][2] \in 2 .. MaxCluster
      /\ loads'[m][1] = (m - 1) * SECTOR /\ loads'[m][2] \in 2 .. MaxCluster
  BY <1>1, <1>3, <1>4, <1>5 DEF Loaded
<1>7. \A n \in 1 .. m :
         loads'[n][1] = (n - 1) * SECTOR /\ loads'[n][2] \in 2 .. MaxCluster
  <2> TAKE n \in 1 .. m
  <2>1. n = m \/ n \in 1 .. l
    BY <1>3, <1>5
  <2> QED
    BY <1>6, <2>1
<1>8. \A n \in 1 .. m - 1 : fat'[loads'[n][2]] = loads'[n + 1][2]
  <2> TAKE n \in 1 .. m - 1
  <2>1. CASE n = l
    <3>1. n + 1 = m /\ Len(loads) # 0 /\ loads'[n] = loads[n]
      BY <1>1, <1>3, <1>5, <2>1
    <3>2. cluster = fat[loads[n][2]]
      BY <1>1, <2>1, <3>1
    <3> QED
      BY <1>4, <1>5, <3>1, <3>2
  <2>2. CASE n # l
    <3>1. n \in 1 .. l - 1 /\ n \in 1 .. l /\ n + 1 \in 1 .. l
      BY <1>3, <1>5, <2>2
    <3>2. fat[loads[n][2]] = loads[n + 1][2]
      BY <1>1, <3>1 DEF Loaded
    <3> QED
      BY <1>3, <3>1, <3>2
  <2> QED
    BY <2>1, <2>2
<1>9. loads'[1][2] = 2
  <2>1. CASE l = 0
    BY <1>1, <1>4, <2>1
  <2>2. CASE l # 0
    <3>1. 1 \in 1 .. l /\ Len(loads) >= 1
      BY <1>1, <1>3, <2>2
    <3> QED
      BY <1>3, <3>1 DEF Loaded
  <2> QED
    BY <2>1, <2>2
<1>10. Len(loads') = m /\ cx' = SECTOR
  BY <1>3, <1>5 DEF Loaded
<1>11. Loaded'
  BY <1>7, <1>8, <1>9, <1>10 DEF Loaded
<1> QED
  BY <1>1, <1>4, <1>5, <1>10, <1>11

\* Every step keeps what has been loaded.
LEMMA NextLoadInv == FatTyped /\ LoadInv /\ [FatNext]_fatvars => LoadInv'
<1> SUFFICES ASSUME FatTyped, LoadInv, [FatNext]_fatvars PROVE LoadInv'
  OBVIOUS
<1>1. CASE ReadRoot \/ ReaderFails \/ ListEntry \/ ListEnds
  BY <1>1 DEF ReadRoot, ReaderFails, ListEntry, ListEnds, LoadInv
<1>2. CASE LocateFile
  <2>1. /\ phase' = "load" /\ UNCHANGED <<dir, fat, di, loads>>
        /\ SlotOnDisk(2) = BOOTLD => cluster' = 2 /\ cx' = SECTOR
    BY <1>2 DEF LocateFile, First, disk
  <2>2. loads = <<>> /\ di = 0
    BY <1>2 DEF LocateFile, FatTyped
  <2>3. SlotOnDisk(2)' = SlotOnDisk(2)
    BY <2>1 DEF SlotOnDisk
  <2>4. 0 = 0 * SECTOR /\ 2 \in 2 .. MaxCluster
    BY Volumes
  <2>5. Len(loads') = 0 /\ di' = 0
    BY <2>1, <2>2
  <2>6. SlotOnDisk(2) = BOOTLD => Loaded'
    BY <2>1, <2>5 DEF Loaded
  <2> QED
    BY <2>1, <2>3, <2>4, <2>5, <2>6 DEF LoadInv
<1>3. CASE LoadCluster
  <2>1. /\ phase = "load" /\ loads' = Append(loads, <<di, cluster>>)
        /\ UNCHANGED <<dir, fat, cx>>
    BY <1>3 DEF LoadCluster, Turn, disk
  <2>2. SlotOnDisk(2)' = SlotOnDisk(2)
    BY <2>1 DEF SlotOnDisk
  <2>3. SUFFICES ASSUME SlotOnDisk(2) = BOOTLD, MaxCluster < TERMINATOR PROVE LoadInv'
    BY <2>2 DEF LoadInv
  <2>4. /\ Loaded /\ di = Len(loads) * SECTOR /\ cluster \in 2 .. MaxCluster
        /\ IF Len(loads) = 0 THEN cluster = 2 ELSE cluster = fat[loads[Len(loads)][2]]
    BY <2>1, <2>3 DEF LoadInv
  <2>5. Loaded' /\ Len(loads') = Len(loads) + 1 /\ loads'[Len(loads')][2] = cluster
    BY <2>1, <2>4, OneLoaded
  <2>6. FatEntry(cluster) = {fat[cluster]}
    BY <2>4, EntryFound DEF Loaded
  <2>7. \/ fat[cluster] >= TERMINATOR /\ phase' = "jump"
        \/ /\ ~(fat[cluster] >= TERMINATOR)
           /\ phase' = "load" /\ cluster' = fat[cluster] /\ di' = di + cx
    BY <1>3, <2>1, <2>6 DEF LoadCluster, Turn
  <2>8. fat[cluster] \in (3 .. (MaxCluster - 1)) \cup {EOC}
    BY <2>4 DEF FatTyped
  <2>9. PICK l \in Nat : l = Len(loads) /\ Len(loads') = l + 1
    BY <2>5 DEF FatTyped, FatTypeOK
  <2>10. CASE fat[cluster] >= TERMINATOR /\ phase' = "jump"
    <3>1. fat[cluster] = EOC
      BY <2>3, <2>8, <2>10, Volumes
    <3>2. Len(loads') >= 1
      BY <2>9
    <3> QED
      BY <2>1, <2>5, <2>10, <3>1, <3>2 DEF LoadInv
  <2>11. CASE /\ ~(fat[cluster] >= TERMINATOR)
              /\ phase' = "load" /\ cluster' = fat[cluster] /\ di' = di + cx
    <3>1. cluster' \in 2 .. MaxCluster
      BY <2>8, <2>11, Volumes
    <3>2. di' = Len(loads') * SECTOR
      <4>1. (l + 1) * SECTOR = l * SECTOR + SECTOR
        BY Volumes
      <4>2. di' = l * SECTOR + SECTOR
        BY <2>4, <2>9, <2>11 DEF Loaded
      <4> QED
        BY <2>9, <4>1, <4>2, Zenon
    <3>3. Len(loads') # 0
      BY <2>9
    <3> QED
      BY <2>1, <2>5, <2>11, <3>1, <3>2, <3>3 DEF LoadInv
  <2> QED
    BY <2>7, <2>10, <2>11
<1>4. CASE UNCHANGED fatvars
  BY <1>4 DEF fatvars, disk, LoadInv, Loaded, SlotOnDisk
<1> QED
  BY <1>1, <1>2, <1>3, <1>4 DEF FatNext

\* For every table of clusters and end marks, every size of a sector and every
\* number of clusters: what boot0 jumps to is the loader, whole and in order.
THEOREM ChainLoaded == FatSpec => []LoadsChain
<1>1. FatInit => FatTyped /\ LoadInv
  BY FatInitTyped DEF FatInit, LoadInv
<1>2. FatTyped /\ LoadInv /\ [FatNext]_fatvars => (FatTyped /\ LoadInv)'
  BY FatNextTyped, NextLoadInv
<1>3. FatTyped /\ LoadInv => LoadsChain
  <2> SUFFICES ASSUME FatTyped, LoadInv, phase = "jump", SlotOnDisk(2) = BOOTLD,
                      MaxCluster < TERMINATOR
               PROVE  /\ \A n \in 1 .. Len(loads) :
                            /\ loads[n][1] = (n - 1) * SECTOR
                            /\ fat[loads[n][2]] = IF n = Len(loads) THEN EOC
                                                  ELSE loads[n + 1][2]
                      /\ loads[1][2] = 2
    BY DEF LoadsChain
  <2>1. Loaded /\ Len(loads) >= 1 /\ fat[loads[Len(loads)][2]] = EOC
    BY DEF LoadInv
  <2>2. Len(loads) \in Nat
    BY DEF FatTyped, FatTypeOK
  <2>3. \A n \in 1 .. Len(loads) : n = Len(loads) \/ n \in 1 .. Len(loads) - 1
    BY <2>2
  <2> QED
    BY <2>1, <2>3 DEF Loaded
<1> QED
  BY <1>1, <1>2, <1>3, PTL DEF FatSpec
-----------------------------------------------------------------------------
\* While fat_reader lists a directory of pairs, the files among the slots behind it
\* are printed; at the end nothing is left.
Listable ==
    /\ prog = "fat_reader" /\ Paired /\ Len(dir) * SLOT <= cluster_size
    /\ RootSector * bpb.bytes_per_sector \in 0 .. OFFSETS - 1

ListInv ==
    Listable /\ phase \in {"list", "exit"} =>
        /\ root_cluster = InCluster(dir)
        /\ 2 * listed <= Len(dir) /\ printed = Files(dir)[2 * listed]
        /\ phase = "exit" => 2 * listed = Len(dir)

\* The files among the first slots, one slot after the other.
LEMMA FilesDefined ==
    ASSUME NEW s \in Seq(Slot)
    PROVE  /\ Files(s)[0] = <<>>
           /\ \A k \in 1 .. Len(s) :
                 Files(s)[k] = IF s[k] \in File THEN Append(Files(s)[k - 1], s[k])
                               ELSE Files(s)[k - 1]
<1> DEFINE n == Len(s)
           H == [k \in 1 .. n |->
                   [x \in Seq(Slot) |-> IF s[k] \in File THEN Append(x, s[k]) ELSE x]]
           v == Files(s)
<1>1. n \in Nat /\ <<>> \in Seq(Slot)
  OBVIOUS
<1>2. H \in [1 .. n -> [Seq(Slot) -> Seq(Slot)]]
  <2>1. ASSUME NEW k \in 1 .. n, NEW x \in Seq(Slot)
        PROVE  (IF s[k] \in File THEN Append(x, s[k]) ELSE x) \in Seq(Slot)
    <3>1. PICK e \in Slot : e = s[k]
      OBVIOUS
    <3>2. Append(x, e) \in Seq(Slot)
      OBVIOUS
    <3> QED
      BY <3>1, <3>2
  <2> QED
    BY <2>1
<1>3. \A k \in 1 .. n, x \in Seq(Slot) :
         H[k][x] = IF s[k] \in File THEN Append(x, s[k]) ELSE x
  OBVIOUS
<1> HIDE DEF H, n
<1>4. PICK u : DefinedTo(u, n, Seq(Slot), <<>>, H)
  <2>1. StepsTo(n, Seq(Slot), <<>>, H)
    BY <1>1, <1>2 DEF StepsTo
  <2> QED
    BY <2>1, PrimitiveRecursion
<1>5. u \in [0 .. n -> Seq(Slot)] /\ u[0] = <<>>
  BY <1>4 DEF DefinedTo
<1>6. ASSUME NEW k \in 1 .. n
      PROVE  u[k] = IF s[k] \in File THEN Append(u[k - 1], s[k]) ELSE u[k - 1]
  <2>1. k - 1 \in 0 .. n /\ u[k - 1] \in Seq(Slot)
    BY <1>1, <1>5
  <2>2. u[k] = H[k][u[k - 1]]
    BY <1>4 DEF DefinedTo
  <2> QED
    BY <1>3, <2>1, <2>2
<1>7. u = [k \in 0 .. n |->
             IF k = 0 THEN <<>>
             ELSE IF s[k] \in File THEN Append(u[k - 1], s[k]) ELSE u[k - 1]]
  <2>1. u = [k \in 0 .. n |-> u[k]]
    BY <1>5
  <2>2. \A k \in 0 .. n : k = 0 \/ k \in 1 .. n
    BY <1>1
  <2>3. \A k \in 0 .. n :
           u[k] = IF k = 0 THEN <<>>
                  ELSE IF s[k] \in File THEN Append(u[k - 1], s[k]) ELSE u[k - 1]
    <3> TAKE k \in 0 .. n
    <3>1. CASE k = 0
      BY <1>5, <3>1
    <3>2. CASE k # 0
      <4>1. k \in 1 .. n
        BY <2>2, <3>2
      <4> QED
        BY <1>6, <3>2, <4>1, Zenon
    <3> QED
      BY <3>1, <3>2
  <2> QED
    BY <2>1, <2>3, Zenon
<1>8. v = [k \in 0 .. n |->
             IF k = 0 THEN <<>>
             ELSE IF s[k] \in File THEN Append(v[k - 1], s[k]) ELSE v[k - 1]]
  BY <1>7 DEF Files, n
<1> HIDE DEF v
<1>9. 0 \in 0 .. n /\ \A k \in 1 .. n : k \in 0 .. n /\ k # 0
  BY <1>1
<1>10. v[0] = <<>>
  BY <1>8, <1>9, Zenon
<1>11. ASSUME NEW k \in 1 .. n
       PROVE  v[k] = IF s[k] \in File THEN Append(v[k - 1], s[k]) ELSE v[k - 1]
  BY <1>8, <1>9, Zenon
<1> QED
  BY <1>10, <1>11, Zenon DEF v, n

\* A directory that fits its cluster is read to its end.
LEMMA DirectoryFits ==
    ASSUME FatTyped, Listable
    PROVE  Len(dir) \in Nat /\ Len(dir) <= cluster_size \div SLOT
<1>1. Len(dir) \in Nat /\ SLOT \in Nat \ {0} /\ cluster_size \in Nat
  BY Volumes, BpbTyped DEF FatTyped, FatTypeOK
<1>2. PICK d \in Nat : \E m \in 0 .. SLOT - 1 :
         d = cluster_size \div SLOT /\ m = cluster_size % SLOT /\ cluster_size = d * SLOT + m
  BY <1>1, Division
<1>3. cluster_size < d * SLOT + SLOT /\ d = cluster_size \div SLOT
  BY <1>1, <1>2
<1>4. Len(dir) * SLOT <= cluster_size
  BY DEF Listable
<1>5. PICK l \in Nat : l = Len(dir)
  BY <1>1
<1>6. l <= d
  <2>1. SUFFICES ASSUME l >= d + 1 PROVE FALSE
    BY <1>2
  <2>2. l * SLOT < d * SLOT + SLOT
    BY <1>1, <1>3, <1>4, <1>5
  <2>3. PICK e \in Nat : l = d + 1 + e
    BY <2>1
  <2>4. (d + 1 + e) * SLOT = d * SLOT + SLOT + e * SLOT
    BY <1>1
  <2>5. e * SLOT \in Nat /\ d * SLOT \in Nat
    BY <1>1
  <2> QED
    BY <1>1, <2>2, <2>3, <2>4, <2>5
<1> QED
  BY <1>1, <1>3, <1>5, <1>6

\* Every step keeps the list.
LEMMA NextListInv == FatTyped /\ ListInv /\ [FatNext]_fatvars => ListInv'
<1> SUFFICES ASSUME FatTyped, ListInv, [FatNext]_fatvars, Listable',
                    phase' \in {"list", "exit"}
             PROVE  /\ root_cluster' = InCluster(dir)'
                    /\ 2 * listed' <= Len(dir') /\ printed' = Files(dir')[2 * listed']
                    /\ phase' = "exit" => 2 * listed' = Len(dir')
  BY DEF ListInv
<1>0. UNCHANGED <<prog, disk>>
  BY DEF FatNext, fatvars, ReadRoot, ReaderFails, ListEntry, ListEnds, LocateFile,
         LoadCluster, Turn
<1>1. dir' = dir /\ bpb' = bpb /\ InCluster(dir)' = InCluster(dir) /\ (Listable' <=> Listable)
  BY <1>0 DEF disk, Listable, Paired, RootSector, cluster_size, InCluster
<1>2. Listable /\ dir \in Seq(Slot) /\ bpb \in Geometry
  BY <1>1 DEF FatTyped, FatTypeOK
<1>3. PICK l \in Nat : l = Len(dir) /\ l <= cluster_size \div SLOT
  BY <1>2, DirectoryFits
<1>4. PICK c \in Nat : c = cluster_size \div SLOT
  BY <1>2, BpbTyped
<1>5. /\ Len(InCluster(dir)) = c
      /\ \A k \in 1 .. c : InCluster(dir)[k] = IF k <= l THEN dir[k] ELSE ZERO
  BY <1>2, <1>3, <1>4, ClusterTyped
<1>6. l % 2 = 0 /\ \A n \in 1 .. l :
                      IF (n % 2) = 1 THEN dir[n] = "lfn"
                      ELSE dir[n] \notin {"lfn", "volume", "deleted"}
  BY <1>2, <1>3 DEF Listable, Paired
<1>7. CASE ReadRoot
  <2>1. /\ phase' = "list" /\ listed' = listed /\ printed' = printed
        /\ \E elsewhere \in {<<>>, <<"lfn", BOOTLD>>} :
              root_cluster' = InCluster(IF root_dir_offset = RootSector * bpb.bytes_per_sector
                                        THEN dir ELSE elsewhere)
    BY <1>7 DEF ReadRoot
  <2>2. listed = 0 /\ printed = <<>>
    BY <1>7 DEF ReadRoot, FatTyped
  <2>3. root_dir_offset = RootSector * bpb.bytes_per_sector
    <3>1. PICK x : x = RootSector * bpb.bytes_per_sector
      OBVIOUS
    <3>2. x \in 0 .. OFFSETS - 1 /\ OFFSETS \in Nat \ {0}
      BY <1>2, <3>1, Volumes DEF Listable
    <3>3. x % OFFSETS = x
      BY <3>2
    <3> QED
      BY <3>1, <3>3 DEF root_dir_offset
  <2>4. root_cluster' = InCluster(dir)
    BY <2>1, <2>3, Zenon
  <2>5. Files(dir)[0] = <<>>
    BY <1>2, FilesDefined
  <2>6. 2 * listed' = 0 /\ 0 <= l
    BY <2>1, <2>2
  <2> QED
    BY <1>1, <1>3, <2>1, <2>2, <2>4, <2>5, <2>6
<1>8. ASSUME phase = "list"
      PROVE  /\ root_cluster = InCluster(dir) /\ listed \in Nat
             /\ 2 * listed <= l /\ printed = Files(dir)[2 * listed]
             /\ listed < c \div 2 /\ Short(listed) # ZERO => 2 * listed + 2 <= l
             /\ 2 * listed + 2 <= l => /\ Short(listed) = dir[2 * listed + 2]
                                       /\ listed < c \div 2 /\ Short(listed) # ZERO
  <2>1. /\ root_cluster = InCluster(dir)
        /\ 2 * listed <= l /\ printed = Files(dir)[2 * listed]
    BY <1>2, <1>3, <1>8 DEF ListInv
  <2>2. listed \in Nat
    BY DEF FatTyped, FatTypeOK
  <2>3. PICK p \in Nat : p = 2 * listed + 2
    BY <2>2
  <2>4. Short(listed) = InCluster(dir)[p]
    BY <2>1, <2>3 DEF Short
  <2>5. listed < c \div 2 <=> p <= c
    BY <1>4, <2>2, <2>3
  <2>6. p <= c => Short(listed) = IF p <= l THEN dir[p] ELSE ZERO
    BY <1>5, <2>2, <2>3, <2>4
  <2>7. p <= l => dir[p] # ZERO
    <3>1. p \in 1 .. l => dir[p] \in Slot
      BY <1>2, <1>3
    <3> QED
      BY <2>2, <2>3, <3>1, Volumes DEF Slot, Mark, ZERO
  <2> QED
    BY <1>3, <1>4, <2>1, <2>2, <2>3, <2>5, <2>6, <2>7
<1>9. CASE ListEntry
  <2>1. /\ phase = "list" /\ phase' = "list" /\ root_cluster' = root_cluster
        /\ listed < Len(root_cluster) \div 2 /\ Short(listed) # ZERO
        /\ printed' = IF Short(listed) \in Attribute12 THEN printed
                      ELSE Append(printed, Short(listed))
        /\ listed' = listed + 1
    BY <1>9 DEF ListEntry
  <2>2. PICK p \in Nat : p = 2 * listed + 2 /\ p - 1 = 2 * listed + 1 /\ p - 2 = 2 * listed
    BY <1>8, <2>1
  <2>3. p <= l /\ Short(listed) = dir[p] /\ root_cluster = InCluster(dir)
    BY <1>5, <1>8, <2>1, <2>2
  <2>4. p % 2 = 0 /\ (p - 1) % 2 = 1 /\ p \in 1 .. l /\ p - 1 \in 1 .. l
    <3>1. PICK x \in Nat : x = listed
      BY <1>8, <2>1
    <3>2. (2 * x + 2) % 2 = 0 /\ (2 * x + 1) % 2 = 1
      OBVIOUS
    <3>3. p = 2 * x + 2 /\ p - 1 = 2 * x + 1
      BY <2>2, <3>1
    <3>4. p >= 2 /\ p <= l
      BY <2>3, <3>3
    <3> QED
      BY <3>2, <3>3, <3>4
  <2>5. dir[p - 1] = "lfn" /\ dir[p] \notin {"lfn", "volume", "deleted"}
    BY <1>6, <2>4
  <2>6. dir[p] \in File \/ dir[p] = "hidden"
    BY <1>2, <1>3, <2>4, <2>5 DEF Slot, Mark
  <2>7. "lfn" \notin File /\ "hidden" \notin File
    BY Volumes DEF Mark
  <2>8. PICK f : f = Files(dir)
    OBVIOUS
  <2>9. \A k \in 1 .. l : f[k] = IF dir[k] \in File THEN Append(f[k - 1], dir[k]) ELSE f[k - 1]
    BY <1>2, <1>3, <2>8, FilesDefined
  <2>10. f[p - 1] = f[p - 2]
    <3>1. p - 1 - 1 = p - 2
      OBVIOUS
    <3> QED
      BY <2>4, <2>5, <2>7, <2>9, <3>1
  <2>11. f[p] = IF dir[p] \in File THEN Append(f[p - 1], dir[p]) ELSE f[p - 1]
    BY <2>4, <2>9
  <2>12. printed = f[p - 2]
    BY <1>8, <2>1, <2>2, <2>8
  <2>13. dir[p] \in Attribute12 <=> dir[p] \notin File
    BY <2>5, <2>6, <2>7 DEF Attribute12
  <2>14. printed' = f[p]
    BY <2>1, <2>3, <2>10, <2>11, <2>12, <2>13
  <2>15. 2 * listed' = p
    BY <1>8, <2>1, <2>2
  <2> QED
    BY <1>1, <1>3, <2>1, <2>3, <2>8, <2>14, <2>15
<1>10. CASE ListEnds
  <2>1. /\ phase = "list" /\ (listed < Len(root_cluster) \div 2 => Short(listed) = ZERO)
        /\ UNCHANGED <<root_cluster, listed, printed>>
    BY <1>10 DEF ListEnds
  <2>2. ~(2 * listed + 2 <= l)
    BY <1>5, <1>8, <2>1
  <2>3. 2 * listed = l
    BY <1>6, <1>8, <2>1, <2>2
  <2> QED
    BY <1>1, <1>3, <1>8, <2>1, <2>3
<1>11. CASE LocateFile \/ LoadCluster
  BY <1>2, <1>11 DEF LocateFile, LoadCluster, Turn, Listable
<1>12. CASE ReaderFails
  BY <1>12 DEF ReaderFails
<1>13. CASE UNCHANGED fatvars
  <2>1. UNCHANGED <<phase, root_cluster, listed, printed>>
    BY <1>13 DEF fatvars
  <2> QED
    BY <1>1, <1>2, <2>1 DEF ListInv
<1> QED
  BY <1>7, <1>9, <1>10, <1>11, <1>12, <1>13 DEF FatNext

\* For every directory of pairs that fits its cluster, on every volume whose root
\* directory a word can address: fat_reader lists its files, all and in order.
THEOREM FilesListed == FatSpec => []ListsFiles
<1>1. FatInit => FatTyped /\ ListInv
  BY FatInitTyped DEF FatInit, ListInv
<1>2. FatTyped /\ ListInv /\ [FatNext]_fatvars => (FatTyped /\ ListInv)'
  BY FatNextTyped, NextListInv
<1>3. FatTyped /\ ListInv => ListsFiles
  BY DEF ListInv, Listable, ListsFiles
<1> QED
  BY <1>1, <1>2, <1>3, PTL DEF FatSpec
=============================================================================
