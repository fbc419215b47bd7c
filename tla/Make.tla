-------------------------------- MODULE Make -------------------------------
(***************************************************************************)
(* The two makes as far as they are written: usr/bin/amake/main.c keeps    *)
(* the operands of its -f options in a linked list and echoes the files,   *)
(* usr/bin/make/src/main.c keeps them in the growing array of dynarray.h   *)
(* and only prints their names.  Both give the memory back in an exit      *)
(* handler.  A file name is a number; 1 .. DEFAULTS are the names amake    *)
(* looks for by itself.  An address is the number of the allocation.       *)
(***************************************************************************)
EXTENDS Integers, Sequences

CONSTANTS
    DEFAULTS,    \* 2 in amake, which does not define XSI_CONFORMANT
    Name,        \* the operands -f may have
    MaxFiles     \* bound: -f options

ASSUME MakeAssumption ==
    /\ DEFAULTS \in Nat /\ MaxFiles \in Nat \ {0}
    /\ Name \subseteq Nat \ {0} /\ 1 .. DEFAULTS \subseteq Name

NULL == 0
JUNK == 0 - 1    \* a pointer nobody has set

VARIABLES
    prog,            \* "amake" or "make"
    pc, status,      \* the exit status, once it is chosen
    there,           \* the default makefiles that exist
    path,            \* the next of them to look for
    paths, pend,     \* amake: the first and the last element
    s,               \* amake: the element main or cleanup has come to
    array, len, i,   \* make: in_makefiles, <<>> for a NULL array
    value, next,     \* what is stored in an element, or in a string of make
    live,            \* what is allocated
    named, used      \* history: the names in the order of the options, and of use

list == <<paths, pend>>
dynarray == <<array, len>>
heap == <<value, next, live>>
vars == <<prog, pc, status, there, path, list, s, dynarray, i, heap, named, used>>

Init ==
    /\ prog \in {"amake", "make"}
    /\ pc = "configure" /\ status = 0
    /\ there \in SUBSET (1 .. DEFAULTS) /\ path = 1
    /\ paths = NULL /\ pend = NULL /\ s = NULL
    /\ array = <<>> /\ len = 0 /\ i = 0
    /\ value = [n \in 1 .. MaxFiles |-> 0] /\ next = [n \in 1 .. MaxFiles |-> JUNK]
    /\ live = {} /\ named = <<>> /\ used = <<>>

\* The first element or string not allocated yet.
New == Len(named) + 1

Exit(code) == pc' = "release" /\ status' = code

-----------------------------------------------------------------------------
\* An option that both accept, or an end of the program by option: -h, one that
\* is unknown, or a -f whose memory cannot be had (what was had is given back).
Usage ==
    /\ pc = "configure" /\ Exit(1)
    /\ UNCHANGED <<prog, there, path, list, s, dynarray, i, heap, named, used>>

\* The -f of amake; as a slip pend stays at the first element.
AddListHead(name) ==
    /\ prog = "amake" /\ pc = "configure" /\ Len(named) < MaxFiles
    /\ named' = Append(named, name)
    /\ live' = live \cup {New}
    /\ value' = [value EXCEPT ![New] = name]
    /\ next' = [n \in 1 .. MaxFiles |->
                   IF n = New THEN NULL ELSE IF n = pend THEN New ELSE next[n]]
    /\ paths' = IF paths = NULL THEN New ELSE paths
    /\ pend' = IF pend = NULL THEN New ELSE pend
    /\ UNCHANGED <<prog, pc, status, there, path, s, dynarray, i, used>>

AddList(name) ==
    /\ prog = "amake" /\ pc = "configure" /\ Len(named) < MaxFiles
    /\ named' = Append(named, name)
    /\ live' = live \cup {New}
    /\ value' = [value EXCEPT ![New] = name]
    /\ next' = [n \in 1 .. MaxFiles |->
                   IF n = New THEN NULL ELSE IF n = pend THEN New ELSE next[n]]
    /\ paths' = IF paths = NULL THEN New ELSE paths
    /\ pend' = New
    /\ UNCHANGED <<prog, pc, status, there, path, s, dynarray, i, used>>

\* The -f of make: dynarray_append counts the element before it has room for it.
AddArray(name) ==
    /\ prog = "make" /\ pc = "configure" /\ Len(named) < MaxFiles
    /\ named' = Append(named, name)
    /\ live' = live \cup {New}
    /\ value' = [value EXCEPT ![New] = name]
    /\ len' = len + 1
    /\ array' = Append(array, New)
    /\ UNCHANGED <<prog, pc, status, there, path, list, s, i, next, used>>

\* There is none: the old array is lost, the string too, and exit runs the
\* handler with the new length.
AppendFails ==
    /\ prog = "make" /\ pc = "configure" /\ Len(named) < MaxFiles
    /\ live' = live \cup {New}
    /\ len' = len + 1 /\ array' = <<>>
    /\ Exit(1)
    /\ UNCHANGED <<prog, there, path, list, s, i, value, next, named, used>>

\* The end of the options: main of amake looks for the defaults if there was no
\* -f; make prints their names, looks for none of them and so finds none.
Configured ==
    /\ pc = "configure" /\ s' = paths
    /\ IF named # <<>> THEN pc' = "use" /\ status' = status
       ELSE IF prog = "amake" THEN pc' = "search" /\ status' = status
       ELSE Exit(1)
    /\ UNCHANGED <<prog, there, path, list, dynarray, i, heap, named, used>>

\* The loop over the default names, which ends when there is a list.
SearchOn ==
    /\ pc = "search" /\ paths = NULL /\ path <= DEFAULTS /\ path \notin there
    /\ path' = path + 1
    /\ UNCHANGED <<prog, pc, status, there, list, s, dynarray, i, heap, named, used>>

\* access finds the file.  Nobody sets next of its element, and fresh memory may
\* hold a NULL there or anything else.
SearchHit ==
    /\ pc = "search" /\ paths = NULL /\ path \in there
    /\ named' = Append(named, path)
    /\ paths' = New /\ live' = live \cup {New}
    /\ value' = [value EXCEPT ![New] = path]
    /\ \E garbage \in {NULL, JUNK} : next' = [next EXCEPT ![New] = garbage]
    /\ UNCHANGED <<prog, pc, status, there, path, pend, s, dynarray, i, used>>

Found ==
    /\ pc = "search" /\ paths # NULL
    /\ pc' = "use" /\ s' = paths
    /\ UNCHANGED <<prog, status, there, path, list, dynarray, i, heap, named, used>>

\* No default exists, or there is no memory for the element or its name.
SearchFails ==
    /\ pc = "search" /\ paths = NULL /\ (path > DEFAULTS \/ path \in there)
    /\ Exit(1)
    /\ UNCHANGED <<prog, there, path, list, s, dynarray, i, heap, named, used>>

-----------------------------------------------------------------------------
\* amake opens, echoes and closes one file after the other.
UseList ==
    /\ prog = "amake" /\ pc = "use" /\ s \in live
    /\ \/ used' = Append(used, value[s]) /\ s' = next[s] /\ UNCHANGED <<pc, status>>
       \/ Exit(1) /\ UNCHANGED <<used, s>>
    /\ UNCHANGED <<prog, there, path, list, dynarray, i, heap, named>>

UseArray ==
    /\ prog = "make" /\ pc = "use" /\ i < len
    /\ used' = Append(used, value[array[i + 1]]) /\ i' = i + 1
    /\ UNCHANGED <<prog, pc, status, there, path, list, s, dynarray, heap, named>>

AllUsed ==
    /\ pc = "use" /\ IF prog = "amake" THEN s = NULL ELSE i >= len
    /\ Exit(0)
    /\ UNCHANGED <<prog, there, path, list, s, dynarray, i, heap, named, used>>

\* main or cleanup follows a pointer to no element, release_mem indexes no array.
Crash ==
    /\ \/ prog = "amake" /\ pc \in {"use", "free"} /\ s # NULL /\ s \notin live
       \/ prog = "make" /\ pc = "free" /\ i < len /\ array = <<>>
    /\ pc' = "crash"
    /\ UNCHANGED <<prog, status, there, path, list, s, dynarray, i, heap, named, used>>

-----------------------------------------------------------------------------
\* The exit handlers, cleanup and release_mem.
Handler ==
    /\ pc = "release" /\ pc' = "free"
    /\ s' = paths /\ i' = 0
    /\ UNCHANGED <<prog, status, there, path, list, dynarray, heap, named, used>>

\* As a slip cleanup takes next out of the element it has just freed.
FreeElementLate ==
    /\ prog = "amake" /\ pc = "free" /\ s \in live
    /\ live' = live \ {s} /\ s' \in {next[s], JUNK}
    /\ UNCHANGED <<prog, pc, status, there, path, list, dynarray, i, value, next, named, used>>

FreeElement ==
    /\ prog = "amake" /\ pc = "free" /\ s \in live
    /\ live' = live \ {s} /\ s' = next[s]
    /\ UNCHANGED <<prog, pc, status, there, path, list, dynarray, i, value, next, named, used>>

\* As a slip the first string is passed over.
FreeStringLess ==
    /\ prog = "make" /\ pc = "free" /\ i < len /\ array # <<>>
    /\ live' = (IF i = 0 THEN live ELSE live \ {array[i + 1]}) /\ i' = i + 1
    /\ UNCHANGED <<prog, pc, status, there, path, list, s, dynarray, value, next, named, used>>

FreeString ==
    /\ prog = "make" /\ pc = "free" /\ i < len /\ array # <<>>
    /\ live' = live \ {array[i + 1]} /\ i' = i + 1
    /\ UNCHANGED <<prog, pc, status, there, path, list, s, dynarray, value, next, named, used>>

Released ==
    /\ pc = "free" /\ IF prog = "amake" THEN s = NULL ELSE i >= len
    /\ pc' = "exit"
    /\ UNCHANGED <<prog, status, there, path, list, s, dynarray, i, heap, named, used>>

Next ==
    \/ Usage \/ (\E name \in Name : AddList(name) \/ AddArray(name)) \/ AppendFails
    \/ Configured \/ SearchOn \/ SearchHit \/ Found \/ SearchFails
    \/ UseList \/ UseArray \/ AllUsed \/ Crash
    \/ Handler \/ FreeElement \/ FreeString \/ Released

Spec == Init /\ [][Next]_vars

-----------------------------------------------------------------------------
\* The type invariant.
TypeOK ==
    /\ prog \in {"amake", "make"} /\ status \in {0, 1}
    /\ pc \in {"configure", "search", "use", "release", "free", "exit", "crash"}
    /\ there \subseteq 1 .. DEFAULTS /\ path \in 1 .. DEFAULTS + 1
    /\ paths \in 0 .. MaxFiles /\ pend \in 0 .. MaxFiles /\ s \in JUNK .. MaxFiles
    /\ array \in Seq(1 .. MaxFiles) /\ len \in Nat /\ i \in Nat
    /\ value \in [1 .. MaxFiles -> Nat] /\ next \in [1 .. MaxFiles -> JUNK .. MaxFiles]
    /\ live \subseteq 1 .. MaxFiles
    /\ named \in Seq(Name) /\ used \in Seq(Name)

\* What an exit handler leaves is nothing: every element or string is freed, and
\* none of them twice, whichever option, allocation or file has failed.
AllFreed == pc = "exit" => live = {}

\* Neither program follows a pointer nobody has set, unless amake has taken a
\* default makefile, or make has lost its array.
FollowsNoJunk ==
    pc = "crash" =>
        \/ prog = "amake" /\ pend = NULL
        \/ prog = "make" /\ array = <<>> /\ len > 0

\* Both programs do with their makefiles what MakefileList says: all of them, in
\* the order of the options, and success only after the last one.
Phase ==
    IF pc \in {"configure", "search"} THEN "options"
    ELSE IF pc = "use" THEN "use"
    ELSE IF pc # "crash" /\ status = 0 THEN "success"
    ELSE "failure"
Promise == INSTANCE MakefileList WITH phase <- Phase, names <- named
KeepsOrder == Promise!Spec
=============================================================================
