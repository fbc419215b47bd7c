----------------------------- MODULE BootSector -----------------------------
(***************************************************************************)
(* The first two sectors of the x86 boot chain: boot/x86/mbr/mbr.s, linked *)
(* at 0x7a00, and the part of boot/x86/vbr/vbr.S that is compiled in.      *)
(*                                                                         *)
(* The MBR's stack starts at 0x7c00, the first byte after the relocated    *)
(* copy of the sector.  Slot n is the word n + 1 words below 0x7c00:       *)
(* 0 holds es, 1 di, 2 dx, then what calls and interrupts push.  In the    *)
(* copy slot 0 is the boot signature and entry e of the partition table    *)
(* has its flag in slot FlagSlot(e) and its sector number one slot above.  *)
(***************************************************************************)
EXTENDS Naturals

CONSTANTS
    BiosPush,    \* numbers of words a BIOS service may push on the caller's stack
    Sector,      \* CL of a table entry: sector number and cylinder bits 8-9
    Drive,       \* drive numbers the BIOS may boot from
    Count,       \* low bytes of a partition's sector count
    MaxEntry,    \* bound: how far beyond the table the scan is followed
    Cylinders, Heads, Sectors    \* last cylinder, last head, sectors per track

ASSUME BootSectorAssumption ==
    /\ BiosPush \subseteq Nat
    /\ Sector \subseteq 0 .. 255 /\ Drive \subseteq 0 .. 255 /\ Count \subseteq 0 .. 255
    /\ MaxEntry \in Nat /\ MaxEntry > 3
    /\ Cylinders \subseteq 0 .. 1023 /\ Heads \subseteq 0 .. 255 /\ Sectors \subseteq 1 .. 63

Entries == 0 .. 3

VARIABLES
    pc,
    disk,      \* the partition table as it is on the disk
    count,     \* low byte of the fourth entry's sector count
    tab,       \* the table in memory, behind the stack pointer
    reach,     \* the deepest slot written so far
    di, cl,    \* index of the entry looked at, loop counter
    part,      \* the digit the message will show
    loaded,    \* whose first sector is at 0x7c00
    failed,    \* 1 after a read that set carry
    es, dl,    \* what the VBR is started with
    geom,      \* the VBR's sectors per track and number of heads
    asked,     \* the drive geometry INT 13h described
    lba        \* the first sector of the partition, according to the VBR

scan == <<di, cl, part, loaded, failed>>
vbr  == <<es, dl, geom, asked, lba>>
vars == <<pc, disk, count, tab, reach, scan, vbr>>

Entry == [active : {0, 1}, sector : Sector]

\* Sectors that are not the first sector of a partition.
Junk == 4

FlagSlot(e) == 8 * (4 - e)

\* What the BIOS jumps to: the registers it hands over and the sector.
Init ==
    /\ pc = "top"
    /\ disk \in [Entries -> Entry] /\ tab = disk /\ count \in Count
    /\ dl \in Drive
    /\ es = "pnp"
    /\ reach = 0
    /\ di = 0 /\ cl = 0 /\ part = 0 /\ loaded = Junk /\ failed = 0
    /\ geom = <<0, 0>> /\ asked = <<0, 0, 0>> /\ lba = 0

\* Slots up to n have been written: an entry whose sector number or flag lies
\* there holds return addresses and register values.
Push(n) ==
    /\ reach' = IF n > reach THEN n ELSE reach
    /\ LET hit == {e \in Entries : n >= FlagSlot(e) - 1}
       IN  \E junk \in [hit -> Entry] :
             tab' = [e \in Entries |->
                        IF n >= FlagSlot(e) THEN junk[e]
                        ELSE IF e \in hit THEN [tab[e] EXCEPT !.sector = junk[e].sector]
                        ELSE tab[e]]

\* top: the three words are pushed to slots 0..2, then the copy of the sector
\* ends up on them.  _start: print pushes a return address and ax, its INT 10h
\* flags, cs and ip (slots 3 to 7), and the BIOS what it needs.
\* As a slip: the scan starts at the second entry.
TopSecond ==
    /\ pc = "top" /\ pc' = "scan"
    /\ \E b \in BiosPush : Push(7 + b)
    /\ di' = 1 /\ cl' = 3
    /\ UNCHANGED <<disk, count, part, loaded, failed, vbr>>

Top ==
    /\ pc = "top" /\ pc' = "scan"
    /\ \E b \in BiosPush : Push(7 + b)
    /\ di' = 0 /\ cl' = 4
    /\ UNCHANGED <<disk, count, part, loaded, failed, vbr>>

\* (%di) and 2(%di).  Entry 4 begins with the boot signature, whose low byte
\* 0x55 is not active; beyond it lies the sector as the BIOS loaded it.
Active(e) == IF e \in Entries THEN {tab[e].active} ELSE IF e = 4 THEN {0} ELSE {0, 1}
SectorOf(e) == IF e \in Entries THEN {tab[e].sector} ELSE Sector

Dec(b) == (b + 255) % 256

\* As a slip: there is no decb.
AdvanceNoDec(c) ==
    /\ di' = di + 1
    /\ cl' = c
    /\ pc' = IF cl' = 0 THEN "halted" ELSE "scan"

\* The end of a turn: addw, decb %cl, jnz, with cl as it is when it gets there.
Advance(c) ==
    /\ di' = di + 1
    /\ cl' = Dec(c)
    /\ pc' = IF cl' = 0 THEN "halted" ELSE "scan"

Skip ==
    /\ pc = "scan" /\ di < MaxEntry
    /\ 0 \in Active(di)
    /\ part' = part + 1
    /\ Advance(cl)
    /\ UNCHANGED <<disk, count, tab, reach, loaded, failed, vbr>>

\* An active entry: dh and cx come from it, INT 13h reads one sector to 0x7c00
\* and pushes three words and what the BIOS needs.  The entry's own sector is
\* read if its sector number is still the one on the disk.
Loads(e) == IF e \in Entries /\ reach < FlagSlot(e) - 1 THEN e ELSE Junk

Load ==
    /\ pc = "scan" /\ di < MaxEntry
    /\ 1 \in Active(di)
    /\ part' = part + 1
    /\ \E b \in BiosPush : Push(5 + b)
    /\ loaded' = Loads(di)
    /\ pc' = "jump"
    /\ UNCHANGED <<disk, count, di, cl, failed, vbr>>

\* The read fails; cl is the sector number now, not the entries left.
LoadFails ==
    /\ pc = "scan" /\ di < MaxEntry
    /\ 1 \in Active(di)
    /\ part' = part + 1
    /\ \E b \in BiosPush : Push(5 + b)
    /\ failed' = 1
    /\ \E c \in SectorOf(di) : Advance(c)
    /\ UNCHANGED <<disk, count, loaded, vbr>>

\* The message, and the three pops: dx is the low word of the fourth entry's
\* sector count, di its high word, es the boot signature.
Jump ==
    /\ pc = "jump" /\ pc' = "vbr"
    /\ dl' = count
    /\ es' = "signature"
    /\ UNCHANGED <<disk, count, tab, reach, scan, geom, asked, lba>>

-----------------------------------------------------------------------------
\* INT 13h AH=08h for the drive in dl, and what begin makes of dx and cx.
Packed(c, h, s) == [ch |-> c % 256, cl |-> s + 64 * (c \div 256), dh |-> h]

\* As a slip: incb for incw.
VbrByteGeometry(r) == <<((256 * r.ch + r.cl) % 64), (r.dh + 1) % 256>>

VbrGeometry(r) == <<((256 * r.ch + r.cl) % 64), (r.dh + 1) % 65536>>

\* begin: the partition entry is looked for at the es:si of the start.  With es
\* the boot signature that is adapter memory: without the word 0xaa55 there the
\* sector is 1, and with it (0 here) whatever follows, not a partition entry.
VbrBegin ==
    /\ pc = "vbr" /\ pc' = "vbr_halted"
    /\ \E c \in Cylinders, h \in Heads, s \in Sectors :
          asked' = <<c, h, s>> /\ geom' = VbrGeometry(Packed(c, h, s))
    /\ lba' \in {0, 1}
    /\ UNCHANGED <<disk, count, tab, reach, scan, es, dl>>

Next == Top \/ Skip \/ Load \/ LoadFails \/ Jump \/ VbrBegin

Spec == Init /\ [][Next]_vars

FairSpec == Spec /\ WF_vars(Next)

-----------------------------------------------------------------------------
\* The type invariant of the two boot sectors: registers keep their widths.
TypeOK ==
    /\ pc \in {"top", "scan", "jump", "vbr", "halted", "vbr_halted"}
    /\ disk \in [Entries -> Entry] /\ tab \in [Entries -> Entry]
    /\ count \in Count /\ dl \in 0 .. 255
    /\ reach \in Nat /\ di \in 0 .. MaxEntry /\ cl \in 0 .. 255
    /\ part \in 0 .. MaxEntry /\ loaded \in Entries \cup {Junk}
    /\ failed \in {0, 1} /\ es \in {"pnp", "signature"}
    /\ lba \in {0, 1}

\* As long as no read fails the scan stays inside the four entries and the
\* digit it prints is the number of the entry it stopped at.
ScanInTable ==
    failed = 0 =>
        /\ pc = "scan" => di \in Entries /\ cl = 4 - di /\ part = di
        /\ pc = "jump" => di \in Entries /\ part = di + 1

\* The entry on the disk that a scan of the table finds.
FirstActive(e) == disk[e].active = 1 /\ \A f \in 0 .. e - 1 : disk[f].active = 0

\* If no read fails the scan stays in the table and, unless the stack reached
\* down to the first active entry of the disk's table, it is that entry's sector
\* that is started.
LoadsFirstActive ==
    /\ ScanInTable
    /\ (pc = "jump" /\ failed = 0) =>
          \A e \in Entries : FirstActive(e) /\ reach < FlagSlot(e) - 1 => loaded = e

\* The VBR computes heads and sectors per track as words: it is right for all
\* 256 head numbers, and the cylinder bits do not leak into the sectors.
VbrGeometryExact ==
    pc = "vbr_halted" => geom = <<asked[3], asked[2] + 1>>

\* Without a failed read the chain comes to its hlt, in the MBR or in the VBR.
ComesToHalt == <>(pc \in {"halted", "vbr_halted"} \/ failed = 1)
=============================================================================
