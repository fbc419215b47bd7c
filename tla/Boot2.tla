------------------------------- MODULE Boot2 -------------------------------
(***************************************************************************)
(* The second stage of boot/i386_fat.old: boot1.asm collects the memory    *)
(* map in real mode and hands it to entry32 of boot2.c, which adds it up,  *)
(* looks for the SMBIOS entry point and reports on the screen.             *)
(*                                                                         *)
(* print ends with test al, al and so returns with carry clear.  In        *)
(* boot1.asm that decides three branches: the greeting never halts, .check *)
(* (which gives its caller's carry back with popf) always lets enable_a20  *)
(* report success, and a failed E820 call returns as a success, so that    *)
(* the INT 12h, E801h and 88h fallbacks are never taken.                   *)
(***************************************************************************)
EXTENDS Screen

CONSTANTS
    TABLE,       \* entries the table has room for: 16 in the code
    WORD,        \* 2^32 in the code
    Entry,       \* what the BIOS may report: records base, h, l, type
    MaxMap,      \* bound: entries a BIOS reports; bp counts them in 16 bits
    Paragraphs,  \* paragraphs of the BIOS area: 4096 in the code
    DL           \* the drive the machine was started from

ASSUME Boot2Assumption ==
    /\ TABLE \in Nat \ {0} /\ WORD \in Nat \ {0} /\ WORD \div UINT16 <= UINT16
    /\ MaxMap \in 0 .. UINT16 - 1
    /\ Entry \subseteq [base : Nat, h : Nat, l : 0 .. WORD - 1, type : Nat]
    /\ Paragraphs \in 0 .. 4096
    /\ DL \in 0 .. 255

VARIABLES
    pc,
    gate, said,      \* the A20 line, and 1 once "a20 enabled" is printed
    entries, count,  \* memory_map; the memory behind the table is part of it
    bp,              \* entries stored by mmap_e820h
    num, sector_size, \* drive, which lies right behind the table
    intact,          \* 0 once the code behind drive is overwritten
    shl,             \* 1: a shift by 32 is one by 0, as on the CPU; 0: it gives 0
    i, mem_size, available_mem, reclaimable_mem,
    smbios_entry,    \* the address found, 0 for NULL
    area,            \* what the paragraphs of the BIOS area hold
    given, whole     \* history: what the BIOS has reported, and if that was all

table == <<entries, count, bp, num, sector_size, intact, given, whole>>
sums  == <<i, mem_size, available_mem, reclaimable_mem>>
fixed == <<gate, shl, area>>
vars  == <<pc, said, table, sums, smbios_entry, fixed, display>>

NoEntry == [base |-> 0, h |-> 0, l |-> 0, type |-> 0]

Init ==
    /\ ScreenInit
    /\ pc = "start" /\ gate \in {0, 1} /\ said = 0
    /\ entries = [k \in 1 .. MaxMap |-> NoEntry] /\ count = 0 /\ bp = 0
    /\ num = 0 /\ sector_size = 512 /\ intact = 1
    /\ shl \in {0, 1}
    /\ i = 0 /\ mem_size = 0 /\ available_mem = 0 /\ reclaimable_mem = 0
    /\ smbios_entry = 0
    /\ area \in [1 .. Paragraphs -> {"none", "wrong", "good"}]
    /\ given = <<>> /\ whole = 0

-----------------------------------------------------------------------------
\* boot1.asm: the drive and the greeting.
Start ==
    /\ pc = "start" /\ pc' = "a20"
    /\ num' = DL
    /\ UNCHANGED <<said, entries, count, bp, sector_size, intact, given, whole, sums,
                   smbios_entry, fixed, display>>

\* .check tests the line and sets the carry accordingly, and then popf gives
\* back the carry it was called with, which print has cleared.
CheckCarry(cf) == cf

enable_a20 ==
    /\ pc = "a20" /\ pc' = "e820"
    /\ said' = 1 - CheckCarry(0)
    /\ UNCHANGED <<table, sums, smbios_entry, fixed, display>>

\* Entry number k goes to es:di; behind the table lie drive and then whatever
\* the linker put there.  As a slip di is advanced before the entry is stored.
StoreAhead(k, e) ==
    /\ entries' = [entries EXCEPT ![IF k < MaxMap THEN k + 1 ELSE k] = e]
    /\ IF k >= TABLE
       THEN num' = e.base % 256 /\ sector_size' = (e.base \div 256) % UINT16
       ELSE UNCHANGED <<num, sector_size>>
    /\ IF k >= TABLE THEN intact' \in {0, intact} ELSE intact' = intact

Store(k, e) ==
    /\ entries' = [entries EXCEPT ![k] = e]
    /\ IF k = TABLE + 1
       THEN num' = e.base % 256 /\ sector_size' = (e.base \div 256) % UINT16
       ELSE UNCHANGED <<num, sector_size>>
    /\ IF k > TABLE THEN intact' \in {0, intact} ELSE intact' = intact

\* A call that leaves ebx nonzero; as a slip the count is kept in memory.
E820Counting ==
    /\ pc = "e820" /\ bp < MaxMap - 1
    /\ \E e \in Entry : Store(bp + 1, e) /\ given' = Append(given, e)
    /\ bp' = bp + 1 /\ count' = bp' /\ whole' = whole
    /\ UNCHANGED <<pc, said, sums, smbios_entry, fixed, display>>

E820 ==
    /\ pc = "e820" /\ bp < MaxMap - 1
    /\ \E e \in Entry : Store(bp + 1, e) /\ given' = Append(given, e)
    /\ bp' = bp + 1
    /\ UNCHANGED <<pc, said, count, whole, sums, smbios_entry, fixed, display>>

\* The last entry: ebx is 0.
E820Done ==
    /\ pc = "e820" /\ bp < MaxMap
    /\ \E e \in Entry : Store(bp + 1, e) /\ given' = Append(given, e)
    /\ bp' = bp + 1 /\ count' = bp' /\ whole' = 1
    /\ pc' = "entry32"
    /\ UNCHANGED <<said, sums, smbios_entry, fixed, display>>

\* Carry at any call: there is no E820, the map ended the other way, or edx,
\* which the loop does not load again, was not preserved.
E820Fails ==
    /\ pc = "e820" /\ pc' = "entry32"
    /\ UNCHANGED <<said, table, sums, smbios_entry, fixed, display>>

-----------------------------------------------------------------------------
\* entry32, if it is still there.
Enter ==
    /\ pc = "entry32" /\ intact = 1 /\ pc' = "clear"
    /\ init_screen
    /\ UNCHANGED <<said, table, sums, smbios_entry, fixed>>

Wild ==
    /\ pc = "entry32" /\ intact = 0 /\ pc' = "wild"
    /\ UNCHANGED <<said, table, sums, smbios_entry, fixed, display>>

\* clear_screen, once from init_screen and once more.
Clear ==
    /\ pc = "clear" /\ pc' = "greet"
    /\ clear_screen
    /\ UNCHANGED <<said, table, sums, smbios_entry, fixed>>

ClearForEver ==
    /\ pc = "clear" /\ Cells >= UINT16 /\ pc' = "clearing"
    /\ UNCHANGED <<said, table, sums, smbios_entry, fixed, display>>

\* A printf in entry32, with the characters that are not digits.
Line(here, next, n, numbers) ==
    /\ pc = here /\ pc' = next
    /\ printf(n, numbers)

\* major_version and minor_version may be any bytes; through NULL they are two
\* bytes of the interrupt table.
Report ==
    /\ \/ Line("greet", "entries", 23, <<>>)
       \/ Line("entries", "sum", 14, <<Decimal(count)>>)
       \/ i >= count /\ Line("sum", "usable", 27, <<Decimal(mem_size)>>)
       \/ Line("usable", "reclaimable", 28, <<Decimal(available_mem)>>)
       \/ Line("reclaimable", "locate", 26, <<Decimal(reclaimable_mem)>>)
       \/ Line("address", "version", 23, <<printx(smbios_entry)>>)
       \/ \E major, minor \in {0, 255} :
             Line("version", "drive", 19, <<Decimal(major), Decimal(minor)>>)
       \/ Line("drive", "bytes", 17, <<printx(num)>>)
       \/ Line("bytes", "halt", 20, <<Decimal(sector_size)>>)
    /\ UNCHANGED <<said, table, sums, smbios_entry, fixed>>

\* A line without a width: the first '\r' divides by 0.
Trap ==
    /\ pc = "greet" /\ printf_traps /\ pc' = "trap"
    /\ UNCHANGED <<said, table, sums, smbios_entry, fixed>>

\* REBUILD64_F(entries[i].length) in 32 bits.
Length(e) == IF shl = 1 THEN (e.h + e.l) % WORD ELSE e.l

\* As slips the sums are kept in wider words, reclaimable memory is counted as
\* available, and the loop is left in front of its increment.
SumWide ==
    /\ pc = "sum" /\ i < count
    /\ mem_size' = mem_size + Length(entries[i + 1])
    /\ i' = i + 1
    /\ UNCHANGED <<pc, said, table, available_mem, reclaimable_mem, smbios_entry,
                   fixed, display>>

SumStuck ==
    /\ pc = "sum" /\ i < count
    /\ i' = IF entries[i + 1].type \in {1, 3} THEN i + 1 ELSE i
    /\ UNCHANGED <<pc, said, table, mem_size, available_mem, reclaimable_mem,
                   smbios_entry, fixed, display>>

SumBoth ==
    /\ pc = "sum" /\ i < count
    /\ LET e == entries[i + 1] IN
       /\ mem_size' = (mem_size + Length(e)) % WORD
       /\ available_mem' = IF e.type \in {1, 3} THEN (available_mem + Length(e)) % WORD
                           ELSE available_mem
       /\ reclaimable_mem' = IF e.type = 3 THEN (reclaimable_mem + Length(e)) % WORD
                             ELSE reclaimable_mem
    /\ i' = i + 1
    /\ UNCHANGED <<pc, said, table, smbios_entry, fixed, display>>

Sum ==
    /\ pc = "sum" /\ i < count
    /\ LET e == entries[i + 1] IN
       /\ mem_size' = (mem_size + Length(e)) % WORD
       /\ available_mem' = IF e.type = 1 THEN (available_mem + Length(e)) % WORD
                           ELSE available_mem
       /\ reclaimable_mem' = IF e.type = 3 THEN (reclaimable_mem + Length(e)) % WORD
                             ELSE reclaimable_mem
    /\ i' = i + 1
    /\ UNCHANGED <<pc, said, table, smbios_entry, fixed, display>>

\* The first paragraph with the anchor and a checksum of 0, which an entry
\* point of length 0 has too.
Matches == {k \in 1 .. Paragraphs : area[k] = "good"}
Address(k) == \hF0000 + 16 * (k - 1)

locate_smbios_entry ==
    /\ pc = "locate" /\ pc' = "address"
    /\ smbios_entry' = IF Matches = {} THEN 0
                       ELSE Address(CHOOSE k \in Matches : \A m \in Matches : k <= m)
    /\ UNCHANGED <<said, table, sums, fixed, display>>

Next ==
    \/ Start \/ enable_a20 \/ E820 \/ E820Done \/ E820Fails
    \/ Enter \/ Wild \/ Clear \/ ClearForEver \/ Report \/ Trap
    \/ Sum \/ locate_smbios_entry

Spec == Init /\ [][Next]_vars

\* The processor runs until it halts, and every BIOS call returns.
FairSpec == Spec /\ WF_vars(Next)

-----------------------------------------------------------------------------
Running == pc \notin {"start", "a20", "e820", "entry32", "wild"}

\* The type invariant.
MapTypeOK ==
    /\ gate \in {0, 1} /\ said \in {0, 1} /\ intact \in {0, 1} /\ shl \in {0, 1}
    /\ entries \in [1 .. MaxMap -> Entry \cup {NoEntry}]
    /\ given \in Seq(Entry) /\ whole \in {0, 1}
    /\ bp \in 0 .. MaxMap /\ count \in 0 .. MaxMap /\ i \in 0 .. MaxMap
    /\ num \in Nat /\ sector_size \in Nat
    /\ mem_size \in 0 .. WORD - 1
    /\ available_mem \in 0 .. WORD - 1 /\ reclaimable_mem \in 0 .. WORD - 1
    /\ smbios_entry \in Nat

TypeOK == MapTypeOK /\ ScreenTypeOK

\* mmap_e820h hands over all of the BIOS's map, in its order, or none of it: a
\* call that fails after some entries leaves no shortened map behind.
MapWholeOrEmpty ==
    \/ count = 0
    \/ whole = 1 /\ count = Len(given) /\ \A k \in 1 .. count : entries[k] = given[k]

\* A map that fits its table leaves what lies behind the table alone: the drive
\* boot1 was started from, its sector size and the code of entry32.
DriveKept ==
    Len(given) <= TABLE =>
        intact = 1 /\ sector_size = 512 /\ (pc # "start" => num = DL)

\* The number that digits stand for, and the lengths of the first k regions of
\* some types added up.
Value(digits, base) ==
    LET v[k \in 0 .. Len(digits)] == IF k = 0 THEN 0 ELSE v[k - 1] * base + digits[k]
    IN  v[Len(digits)]
Sums(map, types) ==
    LET s[k \in 0 .. Len(map)] ==
            IF k = 0 THEN 0
            ELSE s[k - 1] + (IF map[k].type \in types THEN map[k].l ELSE 0)
    IN  s
Total(map, types) == Sums(map, types)[Len(map)]

\* Read off the screen, the numbers are the machine's: what the BIOS reported,
\* added up by type as a word can hold it, the first SMBIOS entry point, and the
\* drive.  For maps that fit the table and regions of less than four gigabytes.
ReportTrue ==
    pc = "halt" /\ Len(given) <= TABLE /\ (\A k \in 1 .. Len(given) : given[k].h = 0)
        => LET map == IF count = 0 THEN <<>> ELSE given
               Dec(k) == Value(shown[k], 10)
               Hex(k) == Value(shown[k], 16)
           IN  /\ Dec(1) = Len(map)
               /\ Dec(2) = Total(map, {e.type : e \in Entry}) % WORD
               /\ Dec(3) = Total(map, {1}) % WORD
               /\ Dec(4) = Total(map, {3}) % WORD
               /\ \/ Hex(5) = 0 /\ \A k \in DOMAIN area : area[k] # "good"
                  \/ \E k \in DOMAIN area :
                        /\ Hex(5) = Address(k) /\ area[k] = "good"
                        /\ \A m \in 1 .. k - 1 : area[m] # "good"
               /\ Hex(8) = DL /\ Dec(9) = 512

\* In the text modes every line of the report has a row of the adapter's memory
\* to itself: it begins in the first column and nothing is written over it.
ReportOnScreen ==
    mode \in {0, 1, 2, 3, 7} /\ Running =>
        LET row == IF mode \in {0, 1} THEN 80 ELSE 160
        IN  /\ buffer = IF mode = 7 THEN \hB0000 ELSE \hB8000
            /\ \A k \in 1 .. Len(rows) :
                  /\ rows[k][1] = (k - 1) * row
                  /\ rows[k][2] <= k * row /\ k <= 25

\* In the text modes the report comes to its end, whatever the map is.
Reports == (mode \in {0, 1, 2, 3, 7} /\ pc = "clear") ~> pc = "halt"

\* "a20 enabled" is printed only with an open line.
A20Reported == said = 1 => gate = 1
=============================================================================
