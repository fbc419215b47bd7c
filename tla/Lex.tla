-------------------------------- MODULE Lex --------------------------------
(***************************************************************************)
(* usr/bin/lex/main.c: the lexer generator as far as it is written.  Its   *)
(* input files are read line by line with its own getline, lines "%%"      *)
(* move from one section to the next, and the lines of the third section   *)
(* are copied to the output.  The sections run on from file to file.       *)
(***************************************************************************)
EXTENDS Integers, Sequences, FiniteSets

CONSTANTS
    Char,        \* what a file may hold
    pct, nl,     \* '%' and '\n' among them
    Space,       \* the characters isspace accepts, '\n' among them
    CHUNK_SIZE,  \* 12 in the code
    MaxFiles,    \* bound: file operands
    MaxInput,    \* bound: characters in all the files
    MaxErrors    \* bound: read errors

ASSUME LexAssumption ==
    /\ {pct, nl} \subseteq Char /\ Space \subseteq Char
    /\ nl \in Space /\ pct \notin Space
    /\ CHUNK_SIZE \in Nat \ {0, 1}
    /\ MaxFiles \in Nat /\ MaxInput \in Nat /\ MaxErrors \in Nat

SECTION_SUBROUTINES == 2
SECTION_MAX == 2

VARIABLES
    pc,
    outf,        \* "null", "stdout" or "file"
    closeout,    \* 1 if release closes outf
    todo,        \* streams main still has to parse
    infiles,     \* 1 if they are operands, 0 for standard input
    section,
    buffer,      \* the characters in front of the '\0'
    buffer_sz,   \* 0 for no buffer
    eof,         \* 1 once feof(fp)
    out,         \* the lines written to outf
    seen,        \* history: the lines parse has been given
    left, errs   \* characters and read errors still to come

vars == <<pc, outf, closeout, todo, infiles, section, buffer, buffer_sz,
          eof, out, seen, left, errs>>

stream == <<buffer, buffer_sz, eof, left, errs>>
options == <<outf, closeout, infiles>>

Init ==
    /\ pc = "configure" /\ outf = "null" /\ closeout = 1
    /\ todo = 0 /\ infiles = 0 /\ section = 0
    /\ buffer = <<>> /\ buffer_sz = 0 /\ eof = 0
    /\ out = <<>> /\ seen = <<>>
    /\ left = MaxInput /\ errs = MaxErrors

-----------------------------------------------------------------------------
\* configure with or without -t (-n and -v set a flag nothing reads), then the
\* output file, whose fopen is not checked.
Configure ==
    /\ pc = "configure" /\ pc' = "main"
    /\ \/ outf' = "stdout" /\ closeout' = 0
       \/ outf' \in {"file", "null"} /\ closeout' = 1
    /\ \E operands \in 0 .. MaxFiles :
          /\ infiles' = IF operands > 0 THEN 1 ELSE 0
          /\ todo' = IF operands > 0 THEN operands ELSE 1
    /\ UNCHANGED <<section, stream, out, seen>>

\* -h or an unknown option, with or without a -t in front of it.
Usage ==
    /\ pc = "configure" /\ pc' = "release"
    /\ \/ outf' = "stdout" /\ closeout' = 0
       \/ UNCHANGED <<outf, closeout>>
    /\ UNCHANGED <<todo, infiles, section, stream, out, seen>>

\* parse starts on the next stream without a buffer; as a slip the loop runs
\* once more than there are operands.
OpenNextBeyond ==
    /\ pc = "main" /\ todo >= 0 /\ pc' = "getline"
    /\ todo' = todo - 1
    /\ buffer' = <<>> /\ buffer_sz' = 0 /\ eof' = 0
    /\ UNCHANGED <<options, section, out, seen, left, errs>>

OpenNext ==
    /\ pc = "main" /\ todo > 0 /\ pc' = "getline"
    /\ todo' = todo - 1
    /\ buffer' = <<>> /\ buffer_sz' = 0 /\ eof' = 0
    /\ UNCHANGED <<options, section, out, seen, left, errs>>

OpenFails ==
    /\ pc = "main" /\ todo > 0 /\ infiles = 1 /\ pc' = "release"
    /\ UNCHANGED <<options, todo, section, stream, out, seen>>

AllParsed ==
    /\ pc = "main" /\ todo = 0 /\ pc' = "release"
    /\ UNCHANGED <<options, todo, section, stream, out, seen>>

\* The atexit handler: fclose of a null pointer is undefined.
Release ==
    /\ pc = "release"
    /\ pc' = IF closeout = 1 /\ outf = "null" THEN "crash" ELSE "exit"
    /\ UNCHANGED <<options, todo, section, stream, out, seen>>

-----------------------------------------------------------------------------
\* What fgets(p, m, fp) may deliver without meeting the end of the file: up to
\* a newline, or m - 1 characters without one.
Chunks(m) ==
    {s \in UNION {[1 .. k -> Char] : k \in 0 .. m - 1} :
        /\ \A j \in 1 .. Len(s) - 1 : s[j] # nl
        /\ Len(s) = m - 1 \/ (Len(s) > 0 /\ s[Len(s)] = nl)}

\* ... and in front of the end of the file.
LastChunks(m) ==
    {s \in UNION {[1 .. k -> Char] : k \in 0 .. m - 2} :
        \A j \in 1 .. Len(s) : s[j] # nl}

\* fgets(kept + strlen(kept), m, fp) meets no error.
Fgets(kept, m) ==
    /\ \/ /\ eof' = eof
          /\ \E s \in Chunks(m) :
                left >= Len(s) /\ buffer' = kept \o s /\ left' = left - Len(s)
       \/ /\ eof' = 1
          /\ \E s \in LastChunks(m) :
                left >= Len(s) /\ buffer' = kept \o s /\ left' = left - Len(s)
    /\ errs' = errs

\* As a slip the buffer is grown only when the '\0' has no room either.
SizeLate(len) ==
    IF buffer_sz - len = 0 THEN buffer_sz + CHUNK_SIZE ELSE buffer_sz

\* buffer_sz for the next fgets of a line of len characters.
Size(len) ==
    IF buffer_sz - len - 1 = 0 THEN buffer_sz + CHUNK_SIZE ELSE buffer_sz

First == IF buffer_sz = 0 THEN CHUNK_SIZE ELSE buffer_sz

\* The first fgets of a line, into a new buffer or the one of the last line.
GetFirst ==
    /\ pc = "getline" /\ eof = 0
    /\ buffer_sz' = First
    /\ Fgets(<<>>, First)
    /\ pc' = IF buffer' = <<>> THEN "main" ELSE "more"
    /\ UNCHANGED <<options, todo, section, out, seen>>

\* getline returns -1: calloc or the first read fails, or the file is at its end.
GetNone ==
    /\ pc = "getline" /\ (eof = 1 \/ errs > 0 \/ buffer_sz = 0)
    /\ pc' = "main"
    /\ errs' = IF eof = 1 \/ buffer_sz = 0 THEN errs ELSE errs - 1
    /\ UNCHANGED <<options, todo, section, buffer, buffer_sz, eof, out, seen, left>>

Whole == eof = 1 \/ \E j \in 1 .. Len(buffer) : buffer[j] = nl

\* As a slip fgets is told of one byte more than there is.
GetMoreStale ==
    /\ pc = "more" /\ ~Whole
    /\ buffer_sz' = Size(Len(buffer))
    /\ Fgets(buffer, buffer_sz' - Len(buffer) + 1)
    /\ UNCHANGED <<pc, options, todo, section, out, seen>>

\* One turn of the loop: grow if need be and read on behind the '\0'.
GetMore ==
    /\ pc = "more" /\ ~Whole
    /\ buffer_sz' = Size(Len(buffer))
    /\ Fgets(buffer, buffer_sz' - Len(buffer))
    /\ UNCHANGED <<pc, options, todo, section, out, seen>>

\* A read error here ends nothing: the loop goes on until the read succeeds.
GetMoreError ==
    /\ pc = "more" /\ ~Whole /\ errs > 0
    /\ errs' = errs - 1
    /\ buffer_sz' = Size(Len(buffer))
    /\ UNCHANGED <<pc, options, todo, section, buffer, eof, out, seen, left>>

\* realloc fails: getline returns -1 and the line is lost.
GrowFails ==
    /\ pc = "more" /\ ~Whole /\ Size(Len(buffer)) # buffer_sz
    /\ pc' = "main"
    /\ UNCHANGED <<options, todo, section, stream, out, seen>>

\* As a slip only the first chunk of a line is handed to parse.
GotLineEarly ==
    /\ pc = "more" /\ pc' = "line"
    /\ UNCHANGED <<options, todo, section, stream, out, seen>>

GotLine ==
    /\ pc = "more" /\ Whole /\ pc' = "line"
    /\ UNCHANGED <<options, todo, section, stream, out, seen>>

-----------------------------------------------------------------------------
\* A line "%%", with anything behind a white space.
IsDelim(l) == Len(l) >= 3 /\ l[1] = pct /\ l[2] = pct /\ l[3] \in Space

\* A delimiter line only moves on; as a slip the one that opens the third
\* section is copied as well.
NextSectionCopied ==
    /\ pc = "line" /\ section <= SECTION_MAX /\ IsDelim(buffer)
    /\ pc' = "getline"
    /\ section' = section + 1
    /\ seen' = Append(seen, buffer)
    /\ out' = IF section' = SECTION_SUBROUTINES /\ outf # "null"
              THEN Append(out, buffer) ELSE out
    /\ UNCHANGED <<options, todo, stream>>

NextSection ==
    /\ pc = "line" /\ section <= SECTION_MAX /\ IsDelim(buffer)
    /\ pc' = "getline"
    /\ section' = section + 1
    /\ seen' = Append(seen, buffer)
    /\ UNCHANGED <<options, todo, stream, out>>

InSection ==
    /\ pc = "line" /\ ~(section <= SECTION_MAX /\ IsDelim(buffer))
    /\ seen' = Append(seen, buffer)
    /\ UNCHANGED <<options, todo, section, stream>>

\* parse_definitions and parse_rules only trace the line.
ParseTraced ==
    /\ InSection /\ section < SECTION_SUBROUTINES
    /\ pc' = "getline" /\ out' = out

\* parse_subroutines writes the line.
parse_subroutines ==
    /\ InSection /\ section = SECTION_SUBROUTINES /\ outf # "null"
    /\ pc' = "getline" /\ out' = Append(out, buffer)

\* A null output file, or a call through parsesec[3].
ParseCrash ==
    /\ InSection
    /\ section > SECTION_MAX \/ (section = SECTION_SUBROUTINES /\ outf = "null")
    /\ pc' = "crash" /\ out' = out

Next ==
    \/ Configure \/ Usage \/ OpenNext \/ OpenFails \/ AllParsed \/ Release
    \/ GetFirst \/ GetNone \/ GetMore \/ GetMoreError \/ GrowFails \/ GotLine
    \/ NextSection \/ ParseTraced \/ parse_subroutines \/ ParseCrash

Spec == Init /\ [][Next]_vars

\* A single thread; it never waits for anything but its reads.
FairSpec == Spec /\ WF_vars(Next)

-----------------------------------------------------------------------------
\* The type invariant.
TypeOK ==
    /\ pc \in {"configure", "main", "getline", "more", "line", "release",
               "exit", "crash"}
    /\ outf \in {"null", "stdout", "file"} /\ closeout \in {0, 1}
    /\ todo \in Nat /\ infiles \in {0, 1} /\ section \in 0 .. SECTION_MAX + 1
    /\ buffer \in Seq(Char) /\ buffer_sz \in Nat /\ eof \in {0, 1}
    /\ out \in Seq(Seq(Char)) /\ seen \in Seq(Seq(Char))
    /\ left \in Nat /\ errs \in Nat

\* The line and its '\0' fit the buffer, and the next fgets has room for at
\* least one character: growth by whole chunks, lines longer than the buffer
\* of the line before, and reads that failed half way keep it so.
BufferFits ==
    pc \in {"more", "line"} =>
        /\ Len(buffer) > 0 /\ Len(buffer) < buffer_sz
        /\ buffer_sz >= CHUNK_SIZE
        /\ Size(Len(buffer)) - Len(buffer) >= 2

\* parse is given whole lines: one newline at the end and none in front of it,
\* or the rest of the file.
WholeLines ==
    pc = "line" =>
        /\ \A j \in 1 .. Len(buffer) - 1 : buffer[j] # nl
        /\ eof = 1 \/ buffer[Len(buffer)] = nl

\* The lines of the third section of s: no delimiter, and two in front of them.
Delims(s, p) == Cardinality({q \in 1 .. p - 1 : IsDelim(s[q])})
Third(s) == {p \in 1 .. Len(s) : ~IsDelim(s[p]) /\ Delims(s, p) = 2}

\* The output is the third section of the files taken together, line by line
\* and in order: no line of it is lost, cut or doubled where it is read in
\* several pieces or goes on in the next file.
OutputIsSubroutines ==
    pc # "crash" =>
        /\ Len(out) = Cardinality(Third(seen))
        /\ \A p \in Third(seen) : out[Cardinality({q \in Third(seen) : q <= p})] = seen[p]

\* lex comes to an end, whatever the lengths of the lines and whichever reads
\* fail, as long as reads do not fail for ever.
Finishes == <>(pc \in {"exit", "crash"})
=============================================================================
