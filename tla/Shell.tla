------------------------------- MODULE Shell --------------------------------
(***************************************************************************)
(* The command interpreter, bin/sh/src: the character loop of main, the    *)
(* splitter of process, the built-in commands with lookup, and the child   *)
(* process of an external command.  One ReadChar is one turn of main's     *)
(* loop, one Split* step one turn of process's loop.                       *)
(*                                                                         *)
(* A character is a letter, a blank "sp", "bs" (backslash), "nl" or "nul"; *)
(* "junk" is a byte malloc or realloc left undefined.  A name is one       *)
(* letter: "c", "e", "s" and "w" stand for cd, exit, set and which.        *)
(***************************************************************************)
EXTENDS Integers, Sequences, FiniteSets

CONSTANTS
    Letters,     \* the letters typed
    BufChunk,    \* first size and growth of the line buffer; 50 in the code
    ArgChunk,    \* first size and growth of the argument vector; 3 in the code
    MaxInput,    \* bound: characters that arrive on standard input
    Dirs,        \* the directories PATH names when the shell starts, in order
    Where        \* Where[d]: the programs in directory d

ASSUME ShellAssumption ==
    /\ BufChunk \in Nat \ {0}
    /\ ArgChunk \in Nat \ {0, 1}
    /\ MaxInput \in Nat
    /\ Letters \cap {"sp", "bs", "nl", "nul", "junk"} = {}

VARIABLES
    pc,
    left,        \* characters still to come
    typed,       \* history: every character since the last prompt
    buf, buf_sz, i, escape,           \* main: the line being read
    k,                                \* process: its loop index
    com, args, args_sz, argc, newarg, \* process: the command being split
    path,        \* the directories getenv("PATH") shows now
    haspath, home,   \* 1 if PATH, HOME are set
    cwd,         \* the working directory
    child,       \* the forked process
    looked       \* the directories the last which went through

main == <<buf, buf_sz, i, escape>>
proc == <<k, com, args, args_sz, argc, newarg>>
env  == <<path, haspath, home, cwd>>
vars == <<pc, left, typed, main, proc, env, child, looked>>

Null == -1
Blank == {"sp"}
Char == Letters \cup {"sp", "bs", "nl", "nul", "junk"}

\* n bytes, or pointers, of which the first m are those of f.
Resized(f, m, n, fill) == [j \in 0 .. n - 1 |-> IF j < m THEN f[j] ELSE fill]

Init ==
    /\ pc = "read" /\ left = MaxInput /\ typed = <<>>
    /\ buf_sz = BufChunk /\ buf = [j \in 0 .. BufChunk - 1 |-> "junk"]
    /\ i = 0 /\ escape = 0
    /\ k = 0 /\ com = Null /\ newarg = 0
    /\ args_sz = ArgChunk /\ args = [j \in 0 .. ArgChunk - 1 |-> Null] /\ argc = 0
    /\ haspath \in {0, 1} /\ path = IF haspath = 1 THEN Dirs ELSE <<>>
    /\ home \in {0, 1} /\ cwd = "start"
    /\ child = "none" /\ looked = Dirs

-----------------------------------------------------------------------------
\* What one character does to the line: the ones that vanish store '\0' and
\* step i back before it is stepped forward (through SIZE_MAX when i is 0).
Vanishes(c) == (escape = 1 /\ c = "nl") \/ (escape = 0 /\ c = "bs")

\* The growth test after i++, and as a slip: one character late.
NeedsRoomLate == i = buf_sz

NeedsRoom == i + 1 = buf_sz

ReadKept(c) ==
    /\ ~Vanishes(c) /\ (escape = 1 \/ c # "nl")
    /\ i' = i + 1
    /\ escape' = 0
    /\ IF NeedsRoom
       THEN /\ buf_sz' = buf_sz + BufChunk
            /\ buf' = Resized([buf EXCEPT ![i] = c], buf_sz, buf_sz + BufChunk, "junk")
       ELSE buf' = [buf EXCEPT ![i] = c] /\ UNCHANGED buf_sz
    /\ UNCHANGED <<pc, proc>>

\* As a slip: i-- forgotten, the '\0' stays in the line.
ReadLeavesNul(c) ==
    /\ Vanishes(c) /\ i + 1 < buf_sz
    /\ buf' = [buf EXCEPT ![i] = "nul"] /\ i' = i + 1
    /\ escape' = IF c = "bs" THEN 1 ELSE 0
    /\ UNCHANGED <<pc, buf_sz, proc>>

ReadVanishing(c) ==
    /\ Vanishes(c)
    /\ buf' = [buf EXCEPT ![i] = "nul"]
    /\ escape' = IF c = "bs" THEN 1 ELSE 0
    /\ UNCHANGED <<pc, buf_sz, i, proc>>

\* The newline becomes '\0' and process starts on i + 1 bytes.
ReadNewline(c) ==
    /\ c = "nl" /\ escape = 0
    /\ buf' = [buf EXCEPT ![i] = "nul"]
    /\ pc' = "split"
    /\ k' = 0 /\ com' = Null /\ newarg' = 0
    /\ args_sz' = ArgChunk /\ args' = [j \in 0 .. ArgChunk - 1 |-> Null] /\ argc' = 0
    /\ UNCHANGED <<buf_sz, i, escape>>

ReadChar ==
    /\ pc = "read" /\ left > 0
    /\ left' = left - 1
    /\ \E c \in Letters \cup {"sp", "bs", "nl"} :
          /\ typed' = Append(typed, c)
          /\ ReadKept(c) \/ ReadVanishing(c) \/ ReadNewline(c)
    /\ UNCHANGED <<env, child, looked>>

\* End of file, or an error of read (EFAULT among them, when the realloc of
\* the line returned NULL): a line without its newline is dropped.
Eof ==
    /\ pc = "read"
    /\ pc' = "done"
    /\ UNCHANGED <<left, typed, main, proc, env, child, looked>>

-----------------------------------------------------------------------------
\* The buf_sz main passes to process, "i + 1 to include '\0'".
Length == i + 1

\* One turn of process's loop over the line and its final '\0'.
NotYet == pc = "split" /\ k < Length

SplitLeading ==
    /\ NotYet /\ com = Null /\ buf[k] \in Blank
    /\ k' = k + 1
    /\ UNCHANGED <<pc, left, typed, main, com, args, args_sz, argc, newarg, env, child, looked>>

SplitCommand ==
    /\ NotYet /\ com = Null /\ buf[k] \notin Blank
    /\ com' = k
    /\ args' = [args EXCEPT ![argc] = k] /\ argc' = argc + 1
    /\ k' = k + 1
    /\ UNCHANGED <<pc, left, typed, main, args_sz, newarg, env, child, looked>>

SplitBlank ==
    /\ NotYet /\ com # Null /\ buf[k] \in Blank
    /\ buf' = [buf EXCEPT ![k] = "nul"]
    /\ newarg' = 1
    /\ k' = k + 1
    /\ UNCHANGED <<pc, left, typed, buf_sz, i, escape, com, args, args_sz, argc, env, child, looked>>

\* The growth test of the vector, which keeps a NULL at its end, and as a slip.
FullLate == argc = args_sz

Full == argc = args_sz - 1

\* As a slip: newarg is never reset.
SplitCharSticky ==
    /\ NotYet /\ com # Null /\ buf[k] \notin Blank
    /\ args_sz' = IF Full THEN args_sz + ArgChunk ELSE args_sz
    /\ args' = LET grown == Resized(args, argc, args_sz', Null)
               IN  IF newarg = 1 THEN [grown EXCEPT ![argc] = k] ELSE grown
    /\ argc' = argc + newarg
    /\ k' = k + 1
    /\ UNCHANGED <<pc, left, typed, main, com, newarg, env, child, looked>>

SplitChar ==
    /\ NotYet /\ com # Null /\ buf[k] \notin Blank
    /\ LET sz == IF Full THEN args_sz + ArgChunk ELSE args_sz
           grown == Resized(args, IF Full THEN argc ELSE args_sz, sz, Null)
       IN  /\ args_sz' = sz
           /\ args' = IF newarg = 1 THEN [grown EXCEPT ![argc] = k] ELSE grown
    /\ argc' = IF newarg = 1 THEN argc + 1 ELSE argc
    /\ newarg' = 0
    /\ k' = k + 1
    /\ UNCHANGED <<pc, left, typed, main, com, env, child, looked>>

\* malloc or realloc of the vector returns NULL, which is then written through.
SplitCrash ==
    /\ NotYet
    /\ k = 0 \/ (com # Null /\ buf[k] \notin Blank /\ Full)
    /\ pc' = "crashed"
    /\ UNCHANGED <<left, typed, main, proc, env, child, looked>>

SplitEnd ==
    /\ pc = "split" /\ k = Length
    /\ pc' = "dispatch"
    /\ UNCHANGED <<left, typed, main, proc, env, child, looked>>

-----------------------------------------------------------------------------
\* The string a pointer into the line denotes: the bytes before the next '\0'.
Str(p) ==
    LET e == CHOOSE e \in p .. i : buf[e] = "nul" /\ \A j \in p .. e - 1 : buf[j] # "nul"
    IN  [j \in 1 .. e - p |-> buf[p + j - 1]]

lookup_table == {<<"c">>, <<"e">>, <<"s">>, <<"w">>}

\* Back in main: i = -1, the prompt, i++.
Prompt ==
    /\ pc' = "read"
    /\ i' = 0
    /\ typed' = <<>>

\* set and exit only print.
SetOrExit ==
    /\ pc = "dispatch" /\ Str(com) \in {<<"e">>, <<"s">>}
    /\ Prompt
    /\ UNCHANGED <<left, buf, buf_sz, escape, proc, env, child, looked>>

\* cd without operand goes to HOME, if that is set; an empty operand, which a
\* trailing blank produces, is one chdir refuses.  Options are left out.
CdTargets ==
    IF argc > 1 THEN (IF Str(args[1]) = <<>> THEN {} ELSE {"named"})
    ELSE IF home = 1 THEN {"home"} ELSE {}

Cd ==
    /\ pc = "dispatch" /\ Str(com) = <<"c">>
    /\ cwd' \in CdTargets \cup {cwd}
    /\ Prompt
    /\ UNCHANGED <<left, buf, buf_sz, escape, proc, path, haspath, home, child, looked>>

\* lookup writes '\0' over every ':' of the environment's own PATH string.
PathAfterLookup == IF path = <<>> THEN path ELSE SubSeq(path, 1, 1)

\* which without an operand, or of a program when PATH is unset, follows NULL.
Which ==
    /\ pc = "dispatch" /\ Str(com) = <<"w">>
    /\ \/ /\ argc > 1 => Str(args[1]) \notin lookup_table /\ haspath = 0
          /\ pc' = "crashed"
          /\ UNCHANGED <<i, typed, path, looked>>
       \/ /\ argc > 1 /\ Str(args[1]) \in lookup_table
          /\ Prompt
          /\ UNCHANGED <<path, looked>>
       \/ /\ argc > 1 /\ Str(args[1]) \notin lookup_table /\ haspath = 1
          /\ Prompt
          /\ looked' = path
          /\ path' = PathAfterLookup
    /\ UNCHANGED <<left, buf, buf_sz, escape, proc, haspath, home, cwd, child>>

\* An external command: fork, and waitpid in the parent.
Fork ==
    /\ pc = "dispatch" /\ Str(com) \notin lookup_table
    /\ pc' = "waiting" /\ child' = "forked"
    /\ UNCHANGED <<left, typed, main, proc, env, looked>>

ForkFails ==
    /\ pc = "dispatch" /\ Str(com) \notin lookup_table
    /\ Prompt
    /\ UNCHANGED <<left, buf, buf_sz, escape, proc, env, child, looked>>

\* execvp searches the PATH the child inherited.
Found(w) == \E j \in 1 .. Len(path) : w \in Where[path[j]]

\* As a slip: no exit(1), the child goes on as a second shell.
ChildExecStays ==
    /\ child = "forked"
    /\ child' = IF Found(Str(com)) THEN "running" ELSE "shell"
    /\ UNCHANGED <<pc, left, typed, main, proc, env, looked>>

\* After execvp fails execv may find the program in the working directory;
\* exit(1) when both fail.
ChildExec ==
    /\ child = "forked"
    /\ child' \in IF Found(Str(com)) THEN {"running"} ELSE {"running", "exited"}
    /\ UNCHANGED <<pc, left, typed, main, proc, env, looked>>

ChildExits ==
    /\ child = "running"
    /\ child' = "exited"
    /\ UNCHANGED <<pc, left, typed, main, proc, env, looked>>

\* waitpid, and as a slip: with WNOHANG.
ReapNoHang ==
    /\ pc = "waiting"
    /\ Prompt
    /\ UNCHANGED <<left, buf, buf_sz, escape, proc, env, child, looked>>

Reap ==
    /\ pc = "waiting" /\ child = "exited"
    /\ child' = "none"
    /\ Prompt
    /\ UNCHANGED <<left, buf, buf_sz, escape, proc, env, looked>>

Process == \/ SplitLeading \/ SplitCommand \/ SplitBlank \/ SplitChar \/ SplitCrash \/ SplitEnd
           \/ SetOrExit \/ Cd \/ Which \/ Fork \/ ForkFails \/ Reap

Child == ChildExec \/ ChildExits

Next == ReadChar \/ Eof \/ Process \/ Child

Spec == Init /\ [][Next]_vars

\* The shell runs whenever it can, and a program that was started ends.
FairSpec == Spec /\ WF_vars(Process) /\ WF_vars(Child)

-----------------------------------------------------------------------------
\* The type invariant of the shell's variables; the line buffer and the vector
\* have exactly the sizes recorded for them.
TypeOK ==
    /\ pc \in {"read", "split", "dispatch", "waiting", "done", "crashed"}
    /\ left \in Nat
    /\ typed \in Seq(Char)
    /\ buf_sz \in Nat \ {0} /\ buf \in [0 .. buf_sz - 1 -> Char]
    /\ i \in Nat /\ escape \in {0, 1}
    /\ k \in Nat /\ newarg \in {0, 1}
    /\ com \in Nat \cup {Null} /\ argc \in Nat
    /\ args_sz \in Nat \ {0, 1} /\ args \in [0 .. args_sz - 1 -> Nat \cup {Null}]
    /\ haspath \in {0, 1} /\ home \in {0, 1}
    /\ cwd \in {"start", "home", "named"}
    /\ child \in {"none", "forked", "running", "exited"}

\* read never stores a character outside the line buffer, through growth,
\* escapes that step i back and lines that start over; and every byte before it
\* has been stored.
LineInBounds ==
    pc \in {"read", "split"} => i < buf_sz /\ \A j \in 0 .. i - 1 : buf[j] # "junk"

\* The vector handed to built-ins and to execvp ends in NULL inside its own
\* allocation, and the pointers before it point into the line.
ArgvTerminated ==
    /\ argc < args_sz
    /\ \A j \in 0 .. args_sz - 1 :
          IF j < argc THEN args[j] \in 0 .. k - 1 ELSE args[j] = Null

\* builtin_lookup is never given NULL: even for an empty or a blank line the
\* final '\0' becomes the (empty) command.
CommandNotNull == pc \in {"dispatch", "waiting"} => com # Null /\ com = args[0]

\* What process hands over can be followed: the vector to its NULL, and the
\* command it starts with.
ArgvReady == ArgvTerminated /\ CommandNotNull

\* While a child exists the shell waits for it: never two readers of standard
\* input, never a child left behind.
OneReader == child # "none" => pc = "waiting"

\* The escape rules as a definition on the text: a character is escaped by an
\* odd run of backslashes before it; unescaped backslashes and escaped newlines
\* are not part of the line.
Escaped(t, p) ==
    Cardinality({q \in 1 .. p - 1 : \A r \in q .. p - 1 : t[r] = "bs"}) % 2 = 1

Kept(t) ==
    {p \in 1 .. Len(t) - 1 :
        /\ t[p] = "bs" => Escaped(t, p)
        /\ t[p] = "nl" => ~Escaped(t, p)}

Index(t, p) == Cardinality({q \in Kept(t) : q < p})

\* The line process receives is the text typed since the prompt without its
\* escapes.
LineIsTyped ==
    (pc = "split" /\ k = 0) =>
        /\ i = Cardinality(Kept(typed))
        /\ \A p \in Kept(typed) : buf[Index(typed, p)] = typed[p]

\* Where the words of the line begin; a line that is empty or ends in a blank
\* has one more, empty word at its end.
Words(t) ==
    LET blank(m) == \E p \in Kept(t) : Index(t, p) = m /\ t[p] \in Blank
        n == Cardinality(Kept(t))
    IN  {m \in 0 .. n - 1 : ~blank(m) /\ (m = 0 \/ blank(m - 1))}
        \cup (IF n = 0 \/ blank(n - 1) THEN {n} ELSE {})

\* The arguments are the words of the line, each once and in order.
ArgsAreWords ==
    pc = "dispatch" =>
        /\ {args[j] : j \in 0 .. argc - 1} = Words(typed)
        /\ \A j \in 1 .. argc - 1 : args[j - 1] < args[j]

\* After every line the shell prompts again, unless it crashed: no command, and
\* no failure to start one, leaves it waiting.
LineAnswered == (pc = "split") ~> (pc \in {"read", "crashed"})

\* lookup.c line 17, "if not, check if exists in path": which goes through all
\* of the PATH the shell was started with.
WhichChecksWholePath == looked = Dirs
=============================================================================
