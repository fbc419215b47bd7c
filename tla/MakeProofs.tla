----------------------------- MODULE MakeProofs ----------------------------
(***************************************************************************)
(* Proofs about Make for any number of options and of default makefiles:   *)
(* what the exit handlers free, which pointers are followed, and that both *)
(* programs implement MakefileList.                                        *)
(***************************************************************************)
EXTENDS Make, TLAPS

K == Len(named)
U == Len(used)

\* What is allocated at each point, as long as make has not lost its array.
Held ==
    IF pc = "exit" THEN live = {}
    ELSE IF pc = "crash" THEN TRUE
    ELSE IF pc # "free" THEN live = 1 .. K
    ELSE IF prog = "make" THEN i <= K /\ live = i + 1 .. K
    ELSE IF s = NULL THEN live = {} ELSE s = JUNK \/ live = s .. K

\* The list of amake: element n is the one of the n-th option, and points to the
\* next; the element of a default makefile is alone and points anywhere.
ListOK ==
    prog = "amake" =>
        /\ array = <<>> /\ len = 0
        /\ Held
        /\ paths = IF named = <<>> THEN NULL ELSE 1
        /\ pend # NULL =>
              /\ pend = K /\ pc # "search" /\ next[K] = NULL
              /\ \A n \in 1 .. K - 1 : next[n] = n + 1
        /\ pend = NULL => K <= 1 /\ (pc = "configure" => K = 0)
                          /\ (K = 1 => next[1] \in {NULL, JUNK})
        /\ pc = "use" =>
              \/ K > 0 /\ s = U + 1 /\ s <= K
              \/ s = NULL /\ U = K /\ next[K] = NULL
              \/ s = JUNK /\ pend = NULL
        /\ pc = "free" =>
              s = NULL \/ s \in 1 .. K \/ (s = JUNK /\ pend = NULL /\ next[K] = JUNK)
        /\ pc \in {"release", "free"} /\ status = 0 => K > 0 /\ next[K] = NULL

\* The array of make: string n is the operand of the n-th option, until there is
\* no memory for a larger array.
ArrayOK ==
    prog = "make" =>
        /\ paths = NULL /\ pend = NULL /\ s = NULL /\ pc # "search"
        /\ \/ /\ len = K /\ Len(array) = K /\ \A n \in 1 .. K : array[n] = n
              /\ Held
           \/ /\ len = K + 1 /\ array = <<>> /\ status = 1
              /\ pc \in {"release", "free", "crash"} /\ i = 0
        /\ pc = "configure" => i = 0
        /\ pc = "use" => i = U /\ i <= K

\* What both have used is the beginning of what they were given.
Order ==
    /\ K <= MaxFiles
    /\ \A n \in 1 .. K : value[n] = named[n]
    /\ U <= K /\ \A n \in 1 .. U : used[n] = named[n]
    /\ pc \in {"configure", "search"} => used = <<>>
    /\ pc \in {"configure", "search", "use"} => status = 0
    /\ pc = "use" => K > 0
    /\ pc \in {"release", "free", "exit"} /\ status = 0 => U = K

IInv == TypeOK /\ ListOK /\ ArrayOK /\ Order

-----------------------------------------------------------------------------
\* The initial states satisfy the inductive invariant.
LEMMA InitIInv == Init => IInv
<1> SUFFICES ASSUME Init PROVE IInv
  OBVIOUS
<1>1. TypeOK
  BY MakeAssumption DEF Init, TypeOK, NULL, JUNK
<1>2. ListOK /\ ArrayOK /\ Order
  BY MakeAssumption DEF Init, ListOK, ArrayOK, Order, Held, K, U, NULL, JUNK
<1> QED
  BY <1>1, <1>2 DEF IInv

\* What a sequence with one more element holds.
LEMMA AppendLemma ==
    ASSUME NEW S, NEW q \in Seq(S), NEW e \in S
    PROVE  /\ Append(q, e) \in Seq(S) /\ Append(q, e) # <<>>
           /\ Len(Append(q, e)) = Len(q) + 1 /\ Append(q, e)[Len(q) + 1] = e
           /\ \A n \in 1 .. Len(q) : Append(q, e)[n] = q[n]
  OBVIOUS

\* Every option, search, use and turn of an exit handler preserves it.
LEMMA NextIInv == IInv /\ [Next]_vars => IInv'
<1> SUFFICES ASSUME IInv, [Next]_vars PROVE IInv'
  OBVIOUS
<1> USE DEF NULL, JUNK, Exit, list, dynarray, heap
<1>0. TypeOK /\ ListOK /\ ArrayOK /\ Order
  BY DEF IInv
<1>a. /\ MaxFiles \in Nat /\ DEFAULTS \in Nat /\ live \subseteq 1 .. MaxFiles
      /\ K \in Nat /\ K <= MaxFiles /\ i \in Nat /\ len \in Nat /\ U \in Nat /\ New = K + 1
      /\ paths \in 0 .. MaxFiles /\ pend \in 0 .. MaxFiles /\ s \in JUNK .. MaxFiles
      /\ value \in [1 .. MaxFiles -> Nat] /\ next \in [1 .. MaxFiles -> JUNK .. MaxFiles]
  <2>1. MaxFiles \in Nat /\ DEFAULTS \in Nat
    BY MakeAssumption
  <2>2. K \in Nat /\ U \in Nat /\ New = K + 1
    BY <1>0 DEF TypeOK, K, U, New
  <2> QED
    BY <1>0, <2>1, <2>2 DEF TypeOK, Order
<1>b. /\ (named = <<>> <=> K = 0) /\ (used = <<>> <=> U = 0)
      /\ named \in Seq(Name) /\ used \in Seq(Name) /\ array \in Seq(1 .. MaxFiles)
      /\ there \subseteq Name /\ \A name \in Name : name \in Nat \ {0}
  BY <1>0, MakeAssumption DEF TypeOK, K, U
<1>k. (named' = named => K' = K) /\ (used' = used => U' = U)
  BY DEF K, U
<1>e. \A n \in 1 .. K : value[n] = named[n] /\ named[n] \in Name
  BY <1>0, <1>b DEF Order, K
<1>n. K \in Nat /\ U \in Nat
  BY <1>a
<1>1. CASE Usage
  <2> USE <1>0, <1>a, <1>k, <1>b, <1>1 DEF Usage
  <2>1. TypeOK'
    BY DEF TypeOK
  <2>2. ListOK'
    BY DEF ListOK, Held, Order
  <2>3. ArrayOK'
    BY DEF ArrayOK, Held, Order
  <2>4. Order'
    BY DEF Order, ListOK, ArrayOK
  <2> QED
    BY <2>1, <2>2, <2>3, <2>4 DEF IInv
<1>2. ASSUME NEW name \in Name, AddList(name) PROVE IInv'
  <2>0. /\ prog = "amake" /\ pc = "configure" /\ K < MaxFiles
        /\ named' = Append(named, name) /\ live' = live \cup {K + 1}
        /\ value' = [value EXCEPT ![K + 1] = name]
        /\ next' = [n \in 1 .. MaxFiles |->
                      IF n = K + 1 THEN NULL ELSE IF n = pend THEN K + 1 ELSE next[n]]
        /\ paths' = (IF paths = NULL THEN K + 1 ELSE paths) /\ pend' = K + 1
        /\ UNCHANGED <<prog, pc, status, there, path, s, array, len, i, used>>
    BY <1>a, <1>k, <1>2 DEF AddList, K, New
  <2>1. /\ K' = K + 1 /\ named' \in Seq(Name) /\ named'[K + 1] = name
        /\ \A n \in 1 .. K : named'[n] = named[n]
        /\ named' # <<>>
    BY <2>0, <1>b, AppendLemma DEF K
  <2>u. /\ paths' \in 0 .. MaxFiles /\ pend' = K + 1 /\ K + 1 \in 1 .. MaxFiles
        /\ UNCHANGED <<prog, pc, status, there, path, s, array, len, i, used>>
    BY <1>a, <2>0
  <2>v. /\ value' \in [1 .. MaxFiles -> Nat]
        /\ \A n \in 1 .. K + 1 : value'[n] = named'[n]
    <3>1. value' = [value EXCEPT ![K + 1] = name] /\ name \in Nat
      BY <1>b, <2>0
    <3>2. value' \in [1 .. MaxFiles -> Nat] /\ value'[K + 1] = name
          /\ \A n \in 1 .. K : value'[n] = value[n]
      BY <1>a, <2>u, <3>1
    <3>3. \A n \in 1 .. K + 1 : value'[n] = named'[n]
      <4>1. TAKE n \in 1 .. K + 1
      <4>2. CASE n \in 1 .. K
        BY <1>e, <2>1, <3>2, <4>2
      <4>3. CASE n = K + 1
        BY <2>1, <3>2, <4>3
      <4> QED
        BY <1>n, <4>2, <4>3
    <3> QED
      BY <3>2, <3>3
  <2>n. next' \in [1 .. MaxFiles -> JUNK .. MaxFiles]
    BY <1>a, <2>0
  <2>l. live' \subseteq 1 .. MaxFiles
    BY <1>a, <2>0
  <2>2a. TypeOK'
    BY <1>0, <2>1, <2>u, <2>v, <2>n, <2>l DEF TypeOK
  <2>3a. live = 1 .. K /\ array = <<>> /\ len = 0
    BY <1>0, <2>0 DEF ListOK, Held
  <2>3. live' = 1 .. K + 1
    BY <1>a, <1>k, <2>0, <2>3a
  <2>4a. \/ K = 0
         \/ pend = K /\ \A n \in 1 .. K - 1 : next[n] = n + 1
    BY <1>0, <1>a, <1>k, <2>0 DEF ListOK
  <2>4. /\ \A n \in 1 .. K : next'[n] = n + 1
        /\ next'[K + 1] = NULL
    BY <1>a, <1>k, <2>0, <2>4a
  <2>5. paths' = 1
    BY <1>0, <1>a, <1>k, <1>b, <2>0 DEF ListOK
  <2>6. ListOK'
    <3>1. pc' = "configure" /\ array' = <<>> /\ len' = 0 /\ pend' = K' /\ live' = 1 .. K'
      BY <2>0, <2>u, <2>1, <2>3, <2>3a
    <3>2. K' \in Nat /\ K' > 0 /\ next'[K'] = NULL /\ \A n \in 1 .. K' - 1 : next'[n] = n + 1
      BY <1>a, <2>1, <2>4
    <3> QED
      BY <2>1, <2>5, <3>1, <3>2 DEF ListOK, Held
  <2>7. ArrayOK'
    BY <1>k, <2>0 DEF ArrayOK
  <2>8. Order'
    <3>1. \A n \in 1 .. U : used[n] = named'[n]
      BY <1>0, <1>a, <2>1 DEF Order
    <3>2. U' = U /\ used' = used /\ pc = "configure" /\ status = 0 /\ U <= K
      BY <1>0, <1>k, <2>0, <2>u DEF Order
    <3>3. pc' = "configure" /\ status' = 0 /\ K' <= MaxFiles /\ used' = <<>>
      BY <1>0, <1>a, <2>0, <2>1, <2>u, <3>2 DEF Order
    <3> QED
      BY <1>a, <2>1, <2>v, <3>1, <3>2, <3>3 DEF Order
  <2> QED
    BY <2>2a, <2>6, <2>7, <2>8 DEF IInv
<1>3. ASSUME NEW name \in Name, AddArray(name) PROVE IInv'
  <2>0. /\ prog = "make" /\ pc = "configure" /\ K < MaxFiles
        /\ named' = Append(named, name) /\ live' = live \cup {K + 1}
        /\ value' = [value EXCEPT ![K + 1] = name]
        /\ len' = len + 1 /\ array' = Append(array, K + 1)
        /\ UNCHANGED <<prog, pc, status, there, path, paths, pend, s, i, next, used>>
    BY <1>a, <1>k, <1>3 DEF AddArray, K, New
  <2>1. /\ K' = K + 1 /\ named' \in Seq(Name) /\ named'[K + 1] = name
        /\ \A n \in 1 .. K : named'[n] = named[n]
    BY <2>0, <1>b, AppendLemma DEF K
  <2>2. /\ len = K /\ Len(array) = K /\ \A n \in 1 .. K : array[n] = n
        /\ live = 1 .. K
    BY <1>0, <2>0 DEF ArrayOK, Held
  <2>3. /\ array' \in Seq(1 .. MaxFiles) /\ Len(array') = K + 1
        /\ \A n \in 1 .. K + 1 : array'[n] = n
    <3>1. K + 1 \in 1 .. MaxFiles
      BY <1>a, <2>0
    <3>2. /\ array' \in Seq(1 .. MaxFiles) /\ Len(array') = K + 1 /\ array'[K + 1] = K + 1
          /\ \A n \in 1 .. K : array'[n] = n
      BY <1>b, <2>0, <2>2, <3>1, AppendLemma
    <3> QED
      BY <1>a, <3>2
  <2>4. live' = 1 .. K + 1
    BY <1>a, <1>k, <2>0, <2>2
  <2>u. /\ len' \in Nat /\ K + 1 \in 1 .. MaxFiles
        /\ UNCHANGED <<prog, pc, status, there, path, paths, pend, s, i, next, used>>
    BY <1>a, <2>0
  <2>v. /\ value' \in [1 .. MaxFiles -> Nat]
        /\ \A n \in 1 .. K + 1 : value'[n] = named'[n]
    <3>1. value' = [value EXCEPT ![K + 1] = name] /\ name \in Nat
      BY <1>b, <2>0
    <3>2. value' \in [1 .. MaxFiles -> Nat] /\ value'[K + 1] = name
          /\ \A n \in 1 .. K : value'[n] = value[n]
      BY <1>a, <2>u, <3>1
    <3>3. \A n \in 1 .. K + 1 : value'[n] = named'[n]
      <4>1. TAKE n \in 1 .. K + 1
      <4>2. CASE n \in 1 .. K
        BY <1>e, <2>1, <3>2, <4>2
      <4>3. CASE n = K + 1
        BY <2>1, <3>2, <4>3
      <4> QED
        BY <1>n, <4>2, <4>3
    <3> QED
      BY <3>2, <3>3
  <2>l. live' \subseteq 1 .. MaxFiles
    BY <1>a, <2>0
  <2>5. TypeOK'
    BY <1>0, <2>1, <2>3, <2>u, <2>v, <2>l DEF TypeOK
  <2>6. ListOK'
    BY <1>k, <2>0 DEF ListOK
  <2>7. ArrayOK'
    BY <1>0, <1>a, <1>k, <2>0, <2>1, <2>2, <2>3, <2>4 DEF ArrayOK, Held
  <2>8. Order'
    <3>1. \A n \in 1 .. U : used[n] = named'[n]
      BY <1>0, <1>a, <2>1 DEF Order
    <3>2. U' = U /\ used' = used /\ pc = "configure" /\ status = 0 /\ U <= K
      BY <1>0, <1>k, <2>0, <2>u DEF Order
    <3>3. pc' = "configure" /\ status' = 0 /\ K' <= MaxFiles /\ used' = <<>>
      BY <1>0, <1>a, <2>0, <2>1, <2>u, <3>2 DEF Order
    <3> QED
      BY <1>a, <2>1, <2>v, <3>1, <3>2, <3>3 DEF Order
  <2> QED
    BY <2>5, <2>6, <2>7, <2>8 DEF IInv
<1>4. CASE AppendFails
  <2>0. /\ prog = "make" /\ pc = "configure" /\ K < MaxFiles
        /\ live' = live \cup {K + 1} /\ len' = len + 1 /\ array' = <<>>
        /\ pc' = "release" /\ status' = 1
        /\ UNCHANGED <<prog, there, path, paths, pend, s, i, value, next, named, used>>
    BY <1>a, <1>k, <1>4 DEF AppendFails, K, New
  <2>1. <<>> \in Seq(1 .. MaxFiles)
    OBVIOUS
  <2>2. live' \subseteq 1 .. MaxFiles
    BY <1>a, <1>k, <2>0
  <2> USE <1>0, <1>a, <1>k, <2>0
  <2>3. TypeOK'
    BY <2>1, <2>2 DEF TypeOK
  <2>4. ListOK'
    BY DEF ListOK
  <2>5. ArrayOK'
    BY DEF ArrayOK
  <2>6. Order'
    BY DEF Order
  <2> QED
    BY <2>3, <2>4, <2>5, <2>6 DEF IInv
<1>5. CASE Configured
  <2>0. /\ pc = "configure" /\ s' = paths
        /\ UNCHANGED <<prog, there, path, paths, pend, array, len, i, value, next, live,
                       named, used>>
    BY <1>5 DEF Configured
  <2>1. \/ K # 0 /\ pc' = "use" /\ status' = status
        \/ K = 0 /\ prog = "amake" /\ pc' = "search" /\ status' = status
        \/ K = 0 /\ prog = "make" /\ pc' = "release" /\ status' = 1
    BY <1>0, <1>b, <1>5 DEF Configured, TypeOK
  <2>2. TypeOK'
    BY <1>0, <2>0, <2>1 DEF TypeOK
  <2>3. ListOK'
    BY <1>0, <1>a, <1>k, <1>b, <2>0, <2>1 DEF ListOK, Held, Order
  <2>4. ArrayOK'
    BY <1>0, <1>a, <1>k, <1>b, <2>0, <2>1 DEF ArrayOK, Held, Order
  <2>5. Order'
    BY <1>0, <1>a, <1>k, <1>b, <2>0, <2>1 DEF Order
  <2> QED
    BY <2>2, <2>3, <2>4, <2>5 DEF IInv
<1>6. CASE SearchOn
  <2> USE <1>0, <1>a, <1>k, <1>b, <1>6 DEF SearchOn
  <2>1. TypeOK'
    BY DEF TypeOK
  <2>2. ListOK'
    BY DEF ListOK, Held, Order
  <2>3. ArrayOK'
    BY DEF ArrayOK, Held, Order
  <2>4. Order'
    BY DEF Order, ListOK, ArrayOK
  <2> QED
    BY <2>1, <2>2, <2>3, <2>4 DEF IInv
<1>7. CASE SearchHit
  <2>0. PICK garbage \in {NULL, JUNK} :
           /\ pc = "search" /\ paths = NULL /\ path \in there
           /\ named' = Append(named, path) /\ paths' = K + 1
           /\ live' = live \cup {K + 1} /\ value' = [value EXCEPT ![K + 1] = path]
           /\ next' = [next EXCEPT ![K + 1] = garbage]
           /\ UNCHANGED <<prog, pc, status, there, path, pend, s, array, len, i, used>>
    BY <1>a, <1>k, <1>7 DEF SearchHit, K, New
  <2>1a. prog = "amake"
    BY <1>0, <2>0 DEF ArrayOK, TypeOK
  <2>1b. named = <<>> /\ live = 1 .. K /\ pend = NULL /\ array = <<>> /\ len = 0
    BY <1>0, <2>0, <2>1a DEF ListOK, Held
  <2>1. prog = "amake" /\ K = 0 /\ live = {} /\ path \in Name /\ pend = NULL
        /\ used = <<>> /\ MaxFiles > 0
    BY <1>0, <1>a, <1>k, <1>b, <2>0, <2>1a, <2>1b, MakeAssumption DEF Order
  <2>2. /\ K' = 1 /\ named' \in Seq(Name) /\ named'[1] = path /\ named' # <<>>
    <3>1. named' = Append(named, path) /\ path \in Name /\ Len(named) = 0
      BY <2>0, <2>1 DEF K
    <3> QED
      BY <1>b, <3>1, AppendLemma DEF K
  <2>3. live' = 1 .. 1 /\ next'[1] = garbage /\ value'[1] = path
    BY <1>a, <1>k, <2>0, <2>1
  <2>4. TypeOK'
    BY <1>0, <1>a, <1>k, <1>b, <2>0, <2>1, <2>2, <2>3 DEF TypeOK
  <2>5. ListOK'
    BY <1>k, <2>0, <2>1, <2>1b, <2>2, <2>3 DEF ListOK, Held
  <2>6. ArrayOK'
    BY <1>k, <2>0, <2>1 DEF ArrayOK
  <2>7. Order'
    <3>1. pc' = "search" /\ status' = 0 /\ U' = 0 /\ used' = <<>>
      BY <1>0, <1>b, <1>k, <2>0, <2>1 DEF Order
    <3> QED
      BY <1>a, <2>1, <2>2, <2>3, <3>1 DEF Order
  <2> QED
    BY <2>4, <2>5, <2>6, <2>7 DEF IInv
<1>8. CASE Found
  <2> USE <1>0, <1>a, <1>k, <1>b, <1>8 DEF Found
  <2>1. TypeOK'
    BY DEF TypeOK
  <2>2. ListOK'
    BY DEF ListOK, Held, Order
  <2>3. ArrayOK'
    BY DEF ArrayOK, Held, Order
  <2>0. K > 0
    BY DEF ListOK, ArrayOK, TypeOK
  <2>4. Order'
    BY <2>0 DEF Order
  <2> QED
    BY <2>1, <2>2, <2>3, <2>4 DEF IInv
<1>9. CASE SearchFails
  <2> USE <1>0, <1>a, <1>k, <1>b, <1>9 DEF SearchFails
  <2>1. TypeOK'
    BY DEF TypeOK
  <2>2. ListOK'
    BY DEF ListOK, Held, Order
  <2>3. ArrayOK'
    BY DEF ArrayOK, Held, Order
  <2>4. Order'
    BY DEF Order, ListOK, ArrayOK
  <2> QED
    BY <2>1, <2>2, <2>3, <2>4 DEF IInv
<1>10. CASE UseList
  <2>0. /\ prog = "amake" /\ pc = "use" /\ s \in live
        /\ UNCHANGED <<prog, there, path, paths, pend, array, len, i, value, next, live,
                       named>>
    BY <1>10 DEF UseList
  <2>1a. live = 1 .. K /\ s = U + 1 /\ s <= K
    BY <1>0, <1>a, <2>0 DEF ListOK, Held
  <2>1. s \in 1 .. K /\ value[s] = named[s] /\ value[s] \in Name
    BY <1>a, <1>e, <2>1a
  <2>2. CASE used' = Append(used, value[s]) /\ s' = next[s] /\ UNCHANGED <<pc, status>>
    <3>1. /\ used' \in Seq(Name) /\ Len(used') = s /\ used'[s] = named[s]
          /\ U' = s /\ \A n \in 1 .. s - 1 : used'[n] = used[n]
      BY <1>b, <2>1, <2>1a, <2>2, AppendLemma DEF U
    <3>2a. \/ pend = K /\ next[K] = NULL /\ \A n \in 1 .. K - 1 : next[n] = n + 1
           \/ pend = NULL /\ K = 1 /\ next[1] \in {NULL, JUNK}
      BY <1>0, <1>a, <1>k, <2>0, <2>1 DEF ListOK
    <3>2. \/ pend = K /\ s < K /\ s' = s + 1
          \/ pend = K /\ s = K /\ s' = NULL /\ next[K] = NULL
          \/ pend = NULL /\ s = K /\ K = 1 /\ s' = next[K] /\ next[K] \in {NULL, JUNK}
      BY <1>a, <1>k, <2>1, <2>2, <3>2a
    <3>3. TypeOK'
      BY <1>0, <1>a, <1>k, <2>0, <2>2, <3>1 DEF TypeOK
    <3>4. ListOK'
      BY <1>0, <1>a, <1>k, <2>0, <2>1a, <2>2, <3>1, <3>2 DEF ListOK, Held
    <3>5. ArrayOK'
      BY <1>k, <2>0 DEF ArrayOK
    <3>6. Order'
      BY <1>0, <1>a, <1>k, <2>0, <2>1a, <2>2, <3>1 DEF Order
    <3> QED
      BY <3>3, <3>4, <3>5, <3>6 DEF IInv
  <2>3. CASE Exit(1) /\ UNCHANGED <<used, s>>
    <3>1. TypeOK'
      BY <1>0, <2>0, <2>3 DEF TypeOK
    <3>2. ListOK'
      BY <1>0, <1>a, <1>k, <2>0, <2>3 DEF ListOK, Held
    <3>3. ArrayOK'
      BY <1>k, <2>0 DEF ArrayOK
    <3>4. Order'
      BY <1>k, <1>0, <2>0, <2>3 DEF Order
    <3> QED
      BY <3>1, <3>2, <3>3, <3>4 DEF IInv
  <2> QED
    BY <1>10, <2>2, <2>3 DEF UseList
<1>11. CASE UseArray
  <2>0. /\ prog = "make" /\ pc = "use" /\ i < len
        /\ used' = Append(used, value[array[i + 1]]) /\ i' = i + 1
        /\ UNCHANGED <<prog, pc, status, there, path, paths, pend, s, array, len, value,
                       next, live, named>>
    BY <1>11 DEF UseArray
  <2>1a. /\ len = K /\ i = U /\ array[i + 1] = i + 1
         /\ live = 1 .. K /\ Len(array) = K /\ \A n \in 1 .. K : array[n] = n
    BY <1>0, <1>a, <2>0 DEF ArrayOK, Held
  <2>1. i + 1 \in 1 .. K /\ value[i + 1] = named[i + 1] /\ value[i + 1] \in Name
    BY <1>a, <1>e, <2>0, <2>1a
  <2>2. /\ used' \in Seq(Name) /\ U' = i + 1 /\ used'[i + 1] = named[i + 1]
        /\ \A n \in 1 .. i : used'[n] = used[n]
    BY <1>b, <2>0, <2>1, <2>1a, AppendLemma DEF U
  <2>3. TypeOK'
    BY <1>0, <2>0, <2>2 DEF TypeOK
  <2>4. ListOK'
    BY <1>k, <2>0 DEF ListOK
  <2>5. ArrayOK'
    BY <1>0, <1>a, <1>k, <2>0, <2>1a, <2>2 DEF ArrayOK, Held
  <2>6a. \A n \in 1 .. U' : used'[n] = named[n]
    <3>1. \A n \in 1 .. U : used[n] = named[n]
      BY <1>0 DEF Order
    <3> QED
      BY <1>n, <2>1a, <2>2, <3>1
  <2>6. Order'
    <3>1. K' = K /\ named' = named /\ value' = value /\ U' <= K /\ pc' = "use" /\ pc = "use"
          /\ status' = status
      BY <1>k, <2>0, <2>1, <2>2
    <3> QED
      BY <1>0, <2>6a, <3>1 DEF Order
  <2> QED
    BY <2>3, <2>4, <2>5, <2>6 DEF IInv
<1>12. CASE AllUsed
  <2>0. /\ pc = "use" /\ pc' = "release" /\ status' = 0
        /\ UNCHANGED <<prog, there, path, paths, pend, s, array, len, i, value, next,
                       live, named, used>>
    BY <1>12 DEF AllUsed
  <2>1. \/ prog = "amake" /\ s = NULL
        \/ prog = "make" /\ i >= len
    BY <1>0, <1>12 DEF AllUsed, TypeOK
  <2>2. U = K /\ (prog = "amake" => next[K] = NULL) /\ K > 0
    BY <1>0, <1>a, <1>k, <2>0, <2>1 DEF ListOK, ArrayOK, Held, Order
  <2>3. TypeOK'
    BY <1>0, <2>0 DEF TypeOK
  <2>4. ListOK'
    BY <1>k, <1>0, <2>0, <2>2 DEF ListOK, Held
  <2>5. ArrayOK'
    BY <1>0, <1>a, <1>k, <2>0, <2>1 DEF ArrayOK, Held
  <2>6. Order'
    BY <1>k, <1>0, <2>0, <2>2 DEF Order
  <2> QED
    BY <2>3, <2>4, <2>5, <2>6 DEF IInv
<1>13. CASE Crash
  <2> USE <1>0, <1>a, <1>k, <1>b, <1>13 DEF Crash
  <2>1. TypeOK'
    BY DEF TypeOK
  <2>2. ListOK'
    BY DEF ListOK, Held, Order
  <2>3. ArrayOK'
    BY DEF ArrayOK, Held, Order
  <2>4. Order'
    BY DEF Order, ListOK, ArrayOK
  <2> QED
    BY <2>1, <2>2, <2>3, <2>4 DEF IInv
<1>14. CASE Handler
  <2> USE <1>0, <1>a, <1>k, <1>b, <1>14 DEF Handler
  <2>1. TypeOK'
    BY DEF TypeOK
  <2>2. ListOK'
    BY DEF ListOK, Held, Order
  <2>3. ArrayOK'
    BY DEF ArrayOK, Held, Order
  <2>4. Order'
    BY DEF Order, ListOK, ArrayOK
  <2> QED
    BY <2>1, <2>2, <2>3, <2>4 DEF IInv
<1>15. CASE FreeElement
  <2>0. /\ prog = "amake" /\ pc = "free" /\ s \in live
        /\ live' = live \ {s} /\ s' = next[s]
        /\ UNCHANGED <<prog, pc, status, there, path, paths, pend, array, len, i, value,
                       next, named, used>>
    BY <1>15 DEF FreeElement
  <2>1a. s # JUNK /\ s # NULL
    BY <1>a, <1>k, <2>0
  <2>1b. s \in 1 .. K /\ live = s .. K /\ array = <<>> /\ len = 0
    BY <1>0, <2>0, <2>1a DEF ListOK, Held
  <2>1. s \in 1 .. K /\ live' = s + 1 .. K
    BY <1>a, <1>k, <2>0, <2>1b
  <2>2a. \/ pend = K /\ next[K] = NULL /\ \A n \in 1 .. K - 1 : next[n] = n + 1
         \/ pend = NULL /\ K = 1 /\ next[1] \in {NULL, JUNK}
    BY <1>0, <1>a, <1>k, <2>0, <2>1 DEF ListOK
  <2>2. \/ s' \in 1 .. K /\ live' = s' .. K
        \/ s' = NULL /\ live' = {}
        \/ s' = JUNK /\ pend = NULL /\ next[K] = JUNK
    <3>1. CASE s < K
      <4>1. pend = NULL => K = 1
        BY <1>n, <2>1, <2>2a
      <4> QED
        BY <1>a, <2>0, <2>1, <2>2a, <3>1, <4>1
    <3>2. CASE s = K
      <4>1. live' = {}
        BY <1>n, <2>1, <3>2
      <4>2. next[K] \in {NULL, JUNK} /\ (next[K] = JUNK => pend = NULL)
        BY <1>n, <2>1, <2>2a
      <4> QED
        BY <2>0, <3>2, <4>1, <4>2
    <3> QED
      BY <1>n, <2>1, <3>1, <3>2
  <2>3. TypeOK'
    BY <1>0, <1>a, <2>0, <2>1, <2>2 DEF TypeOK
  <2>4. ListOK'
    <3>1. K' = K /\ UNCHANGED <<prog, pc, status, paths, pend, array, len, next, named>>
          /\ pc = "free" /\ prog = "amake"
      BY <1>k, <2>0
    <3>2. Held'
      BY <2>2, <3>1, <1>n DEF Held
    <3> QED
      BY <1>0, <2>2, <3>1, <3>2 DEF ListOK
  <2>5. ArrayOK'
    BY <1>k, <2>0 DEF ArrayOK
  <2>6. Order'
    BY <1>k, <1>0, <2>0 DEF Order
  <2> QED
    BY <2>3, <2>4, <2>5, <2>6 DEF IInv
<1>16. CASE FreeString
  <2>0. /\ prog = "make" /\ pc = "free" /\ i < len /\ array # <<>>
        /\ live' = live \ {array[i + 1]} /\ i' = i + 1
        /\ UNCHANGED <<prog, pc, status, there, path, paths, pend, s, array, len, value,
                       next, named, used>>
    BY <1>16 DEF FreeString
  <2>1. /\ len = K /\ Len(array) = K /\ array[i + 1] = i + 1
        /\ live = i + 1 .. K
    BY <1>0, <1>a, <1>k, <2>0 DEF ArrayOK, Held
  <2>2. live' = i + 2 .. K
    BY <1>a, <1>k, <2>0, <2>1
  <2>2a. live' \subseteq 1 .. MaxFiles /\ i' \in Nat
    <3>1. live' \subseteq live /\ i' = i + 1
      BY <2>0
    <3> QED
      BY <1>a, <3>1
  <2>3. TypeOK'
    BY <1>0, <2>0, <2>2a DEF TypeOK
  <2>4. ListOK'
    BY <1>k, <2>0 DEF ListOK
  <2>5. ArrayOK'
    BY <1>0, <1>a, <1>k, <2>0, <2>1, <2>2 DEF ArrayOK, Held
  <2>6. Order'
    BY <1>k, <1>0, <2>0 DEF Order
  <2> QED
    BY <2>3, <2>4, <2>5, <2>6 DEF IInv
<1>17. CASE Released
  <2> USE <1>0, <1>a, <1>k, <1>b, <1>17 DEF Released
  <2>1. TypeOK'
    BY DEF TypeOK
  <2>2. ListOK'
    BY DEF ListOK, Held, Order
  <2>0. prog = "make" => i = K /\ live = {} /\ len = K /\ Len(array) = K
                          /\ \A n \in 1 .. K : array[n] = n
    <3> SUFFICES ASSUME prog = "make"
                 PROVE  /\ i = K /\ live = {} /\ len = K /\ Len(array) = K
                        /\ \A n \in 1 .. K : array[n] = n
      OBVIOUS
    <3>1. i >= len /\ pc = "free"
      BY DEF TypeOK
    <3>2. /\ len = K /\ Len(array) = K /\ \A n \in 1 .. K : array[n] = n
          /\ i <= K /\ live = i + 1 .. K
      BY <3>1 DEF ArrayOK, Held
    <3>3. i = K /\ live = {}
      BY <3>1, <3>2
    <3> QED
      BY <3>2, <3>3
  <2>3. ArrayOK'
    BY <2>0 DEF ArrayOK, Held
  <2>4. Order'
    BY DEF Order, ListOK, ArrayOK
  <2> QED
    BY <2>1, <2>2, <2>3, <2>4 DEF IInv
<1>18. CASE UNCHANGED vars
  <2> USE <1>0, <1>a, <1>k, <1>b, <1>18 DEF vars
  <2>1. TypeOK'
    BY DEF TypeOK
  <2>2. ListOK'
    BY DEF ListOK, Held, Order
  <2>3. ArrayOK'
    BY DEF ArrayOK, Held, Order
  <2>4. Order'
    BY DEF Order, ListOK, ArrayOK
  <2> QED
    BY <2>1, <2>2, <2>3, <2>4 DEF IInv
<1> QED
  BY <1>1, <1>2, <1>3, <1>4, <1>5, <1>6, <1>7, <1>8, <1>9, <1>10, <1>11, <1>12, <1>13, <1>14, <1>15, <1>16, <1>17, <1>18 DEF Next

-----------------------------------------------------------------------------
\* Only Crash gets there, and only with a pointer that nobody has set.
LEMMA CrashStep == IInv /\ FollowsNoJunk /\ [Next]_vars => FollowsNoJunk'
<1> SUFFICES ASSUME IInv, FollowsNoJunk, [Next]_vars PROVE FollowsNoJunk'
  OBVIOUS
<1>1. CASE Crash
  <2>1. CASE prog = "amake"
    <3>1. pc \in {"use", "free"} /\ s # NULL /\ s \notin live
          /\ UNCHANGED <<prog, pend>>
      BY <1>1, <2>1 DEF Crash, list
    <3>2. K \in Nat /\ s \in JUNK .. MaxFiles /\ U \in Nat
      BY DEF IInv, TypeOK, K, U
    <3>3. CASE pc = "use"
      <4>1. live = 1 .. K
        BY <2>1, <3>3 DEF IInv, ListOK, Held
      <4>2. \/ s = U + 1 /\ s <= K
            \/ s = JUNK /\ pend = NULL
        BY <2>1, <3>1, <3>3 DEF IInv, ListOK
      <4> QED
        BY <2>1, <3>1, <3>2, <4>1, <4>2 DEF FollowsNoJunk
    <3>4. CASE pc = "free"
      <4>1. s = JUNK \/ live = s .. K
        BY <2>1, <3>1, <3>4 DEF IInv, ListOK, Held
      <4>2. s \in 1 .. K \/ (s = JUNK /\ pend = NULL)
        BY <2>1, <3>1, <3>4 DEF IInv, ListOK
      <4> QED
        BY <2>1, <3>1, <3>2, <4>1, <4>2 DEF FollowsNoJunk, JUNK
    <3> QED
      BY <3>1, <3>3, <3>4
  <2>2. CASE prog = "make"
    <3>1. pc = "free" /\ i < len /\ array = <<>> /\ UNCHANGED <<prog, dynarray>>
      BY <1>1, <2>2 DEF Crash
    <3>2. len > 0
      BY <3>1 DEF IInv, TypeOK
    <3> QED
      BY <2>2, <3>1, <3>2 DEF FollowsNoJunk, dynarray
  <2> QED
    BY <2>1, <2>2 DEF IInv, TypeOK
<1>2. ASSUME NEW name \in Name, AddList(name) \/ AddArray(name) PROVE FollowsNoJunk'
  BY <1>2 DEF AddList, AddArray, FollowsNoJunk
<1>3. CASE Usage
  BY <1>3 DEF Usage, FollowsNoJunk, Exit
<1>4. CASE AppendFails
  BY <1>4 DEF AppendFails, FollowsNoJunk, Exit
<1>5. CASE Configured
  BY <1>5 DEF Configured, FollowsNoJunk, Exit
<1>6. CASE SearchOn
  BY <1>6 DEF SearchOn, FollowsNoJunk, Exit
<1>7. CASE SearchHit
  BY <1>7 DEF SearchHit, FollowsNoJunk, Exit
<1>8. CASE Found
  BY <1>8 DEF Found, FollowsNoJunk, Exit
<1>9. CASE SearchFails
  BY <1>9 DEF SearchFails, FollowsNoJunk, Exit
<1>10. CASE UseList
  BY <1>10 DEF UseList, FollowsNoJunk, Exit
<1>11. CASE UseArray
  BY <1>11 DEF UseArray, FollowsNoJunk, Exit
<1>12. CASE AllUsed
  BY <1>12 DEF AllUsed, FollowsNoJunk, Exit
<1>13. CASE Handler
  BY <1>13 DEF Handler, FollowsNoJunk, Exit
<1>14. CASE FreeElement
  BY <1>14 DEF FreeElement, FollowsNoJunk, Exit
<1>15. CASE FreeString
  BY <1>15 DEF FreeString, FollowsNoJunk, Exit
<1>16. CASE Released
  BY <1>16 DEF Released, FollowsNoJunk, Exit
<1>17. CASE UNCHANGED vars
  BY <1>17 DEF vars, list, dynarray, FollowsNoJunk
<1> QED
  BY <1>1, <1>2, <1>3, <1>4, <1>5, <1>6, <1>7, <1>8, <1>9, <1>10, <1>11, <1>12, <1>13, <1>14, <1>15, <1>16, <1>17 DEF Next

\* For any options, any default makefiles and any allocation that fails: what
\* the exit handlers leave is nothing, and no pointer is followed that nobody
\* has set, but for those that FollowsNoJunk names.
THEOREM Safety == Spec => [](TypeOK /\ AllFreed /\ FollowsNoJunk)
<1>1. Init => FollowsNoJunk
  BY DEF Init, FollowsNoJunk
<1>2. IInv => TypeOK /\ AllFreed
  BY DEF IInv, TypeOK, ListOK, ArrayOK, Held, AllFreed
<1> QED
  BY InitIInv, NextIInv, CrashStep, <1>1, <1>2, PTL DEF Spec

-----------------------------------------------------------------------------
\* The initial states are initial states of MakefileList.
LEMMA InitOrder == Init => Promise!Init
  BY DEF Init, Promise!Init, Phase

\* Every step is one of MakefileList, or changes nothing it speaks of.
LEMMA NextOrder == IInv /\ [Next]_vars => [Promise!Next]_(Promise!vars)
<1> SUFFICES ASSUME IInv, [Next]_vars PROVE [Promise!Next]_(Promise!vars)
  OBVIOUS
<1> USE DEF Promise!vars, Promise!Next, Phase, list, dynarray, heap, Exit
<1>a. K \in Nat /\ U \in Nat /\ (named = <<>> <=> K = 0) /\ (used = <<>> <=> U = 0)
  BY DEF IInv, TypeOK, K, U
<1>b. U <= K /\ \A n \in 1 .. U : used[n] = named[n]
  BY DEF IInv, Order
<1>c. pc \in {"configure", "search"} => used = <<>> /\ status = 0
  BY DEF IInv, Order
<1>d. pc = "use" => status = 0
  BY DEF IInv, Order
<1>e. \A n \in 1 .. K : value[n] = named[n]
  BY DEF IInv, Order
<1>f. U = K => used = named
  <2>1. named \in Seq(Name) /\ used \in Seq(Name)
    BY DEF IInv, TypeOK
  <2> QED
    BY <1>b, <2>1 DEF K, U
<1>1. CASE Usage
  BY <1>1, <1>c DEF Usage, Promise!Fail
<1>2. ASSUME NEW name \in Name, AddList(name) \/ AddArray(name)
      PROVE  Promise!Next
  BY <1>2 DEF AddList, AddArray, Promise!Add
<1>3. CASE AppendFails
  BY <1>3 DEF AppendFails, Promise!Fail
<1>4. CASE Configured
  BY <1>4, <1>c DEF Configured, Promise!Begin, Promise!Fail
<1>5. CASE SearchOn
  BY <1>5 DEF SearchOn
<1>6. CASE SearchHit
  <2>1. path \in Name
    BY <1>6, MakeAssumption DEF SearchHit, IInv, TypeOK
  <2> QED
    BY <1>6, <2>1 DEF SearchHit, Promise!Add
<1>7. CASE Found
  <2>1. named # <<>>
    BY <1>7 DEF Found, IInv, ListOK, ArrayOK, TypeOK
  <2> QED
    BY <1>7, <2>1 DEF Found, Promise!Begin
<1>8. CASE SearchFails
  BY <1>8 DEF SearchFails, Promise!Fail
<1>9. CASE UseList
  <2>1. /\ prog = "amake" /\ pc = "use" /\ s \in live
        /\ \/ used' = Append(used, value[s]) /\ pc' = pc
           \/ pc' = "release" /\ status' = 1 /\ used' = used
        /\ named' = named
    BY <1>9 DEF UseList
  <2>2. s = U + 1 /\ s <= K
    <3>1. live = 1 .. K
      BY <2>1 DEF IInv, ListOK, Held
    <3>2. \/ s = U + 1 /\ s <= K
          \/ s = NULL \/ s = JUNK
      BY <2>1 DEF IInv, ListOK
    <3> QED
      BY <1>a, <2>1, <3>1, <3>2 DEF NULL, JUNK
  <2>3. value[s] = named[U + 1] /\ U < K
    BY <1>a, <1>e, <2>2
  <2> QED
    BY <2>1, <2>2, <2>3 DEF Promise!Use, Promise!Fail, K, U
<1>10. CASE UseArray
  <2>1. /\ prog = "make" /\ pc = "use" /\ i < len
        /\ used' = Append(used, value[array[i + 1]]) /\ pc' = pc /\ named' = named
    BY <1>10 DEF UseArray
  <2>2. len = K /\ i = U /\ \A n \in 1 .. K : array[n] = n
    BY <2>1 DEF IInv, ArrayOK
  <2>3. value[array[i + 1]] = named[U + 1] /\ U < K
    BY <1>a, <1>e, <2>1, <2>2
  <2> QED
    BY <2>1, <2>2, <2>3 DEF Promise!Use, K, U
<1>11. CASE AllUsed
  <2>1. U = K
    <3>1. CASE prog = "amake"
      BY <1>11, <1>a, <3>1 DEF AllUsed, IInv, ListOK, NULL, JUNK
    <3>2. CASE prog = "make"
      <4>1. len = K /\ i = U /\ i <= K /\ i >= len
        BY <1>11, <3>2 DEF AllUsed, IInv, ArrayOK
      <4> QED
        BY <1>a, <4>1
    <3> QED
      BY <3>1, <3>2 DEF IInv, TypeOK
  <2> QED
    BY <1>11, <1>f, <2>1 DEF AllUsed, Promise!Succeed
<1>12. CASE Crash
  <2>1. pc \in {"use", "free"} /\ pc' = "crash" /\ UNCHANGED <<named, used, status>>
    BY <1>12 DEF Crash
  <2>2. pc = "free" => status # 0
    <3>1. CASE prog = "amake"
      <4>1. SUFFICES ASSUME pc = "free", status = 0 PROVE FALSE
        OBVIOUS
      <4>2. s # NULL /\ s \notin live
        BY <1>12, <3>1 DEF Crash
      <4>3. K > 0 /\ next[K] = NULL
        BY <3>1, <4>1 DEF IInv, ListOK
      <4>4. s \in 1 .. K
        BY <3>1, <4>1, <4>2, <4>3 DEF IInv, ListOK, NULL, JUNK
      <4>5. live = s .. K
        BY <3>1, <4>1, <4>4, <1>a DEF IInv, ListOK, Held, NULL, JUNK
      <4> QED
        BY <1>a, <4>2, <4>4, <4>5
    <3>2. CASE prog = "make"
      <4> SUFFICES ASSUME pc = "free" PROVE status # 0
        OBVIOUS
      <4>1. i < len /\ array = <<>> /\ i \in Nat
        BY <1>12, <3>2 DEF Crash, IInv, TypeOK
      <4>2. Len(array) = 0
        BY <4>1
      <4>3. ~(len = K /\ Len(array) = K)
        BY <1>a, <4>1, <4>2
      <4> QED
        BY <3>2, <4>3 DEF IInv, ArrayOK
    <3> QED
      BY <3>1, <3>2 DEF IInv, TypeOK
  <2> QED
    BY <2>1, <2>2 DEF Promise!Fail
<1>13. CASE Handler
  BY <1>13 DEF Handler
<1>14. CASE FreeElement
  BY <1>14 DEF FreeElement
<1>15. CASE FreeString
  BY <1>15 DEF FreeString
<1>16. CASE Released
  BY <1>16 DEF Released
<1>17. CASE UNCHANGED vars
  BY <1>17 DEF vars
<1> QED
  BY <1>1, <1>2, <1>3, <1>4, <1>5, <1>6, <1>7, <1>8, <1>9, <1>10, <1>11, <1>12, <1>13,
     <1>14, <1>15, <1>16, <1>17 DEF Next

\* Both programs implement MakefileList: they use the makefiles they are given
\* one after the other, in the order of the options, and succeed only after the
\* last one.
THEOREM Refinement == Spec => KeepsOrder
<1> QED
  BY InitIInv, NextIInv, InitOrder, NextOrder, PTL DEF Spec, KeepsOrder, Promise!Spec
=============================================================================
