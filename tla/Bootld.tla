------------------------------- MODULE Bootld -------------------------------
(***************************************************************************)
(* The second stage loader, boot/x86/bootld/bootld.s: its main flow, the   *)
(* routines that open the A20 line and the drive geometry it records.  One *)
(* step is one access to something the hardware can change meanwhile, with *)
(* the register moves around it; A20Line takes its steps in between.       *)
(***************************************************************************)
EXTENDS A20Line

CONSTANTS
    PollLimit,   \* checks after the fast gate; 30 in the code
    KbLimit,     \* bound of the first wait for the 8042; 30 in the code
    Cylinders, Heads, Sectors   \* last cylinder, last head, sectors per track

ASSUME BootldAssumption ==
    /\ PollLimit \in Nat \ {0}
    /\ KbLimit \in Nat \ {0}
    /\ Cylinders \subseteq 0 .. 1023
    /\ Heads \subseteq 0 .. 255
    /\ Sectors \subseteq 1 .. 63

VARIABLES
    pc,
    site,         \* which call of check_a20 is (or was last) running
    sl, sh,       \* the two bytes check_a20 keeps on the stack
    zf, cf,       \* zero flag of the compare, carry flag of the answers
    iflag,        \* interrupt flag
    ifsave,       \* the interrupt flag in the word pushed by enable_a20
    cx,           \* the loop counter
    procmsg,      \* what print_proc and its caller have printed
    a20msg,       \* what follows "a20 " on the screen
    answer,       \* the geometry INT 13h AH=08h described, <<>> if it failed
    geom          \* drive parameters recorded by init_disk

chk  == <<site, sl, sh, zf>>
flags == <<cf, iflag, ifsave>>
said == <<procmsg, a20msg>>
disk == <<answer, geom>>
vars == <<hw, line, mem, pc, chk, flags, cx, said, disk>>

NoGeom == [heads |-> 0, cylinders |-> 0, sectors |-> 0]

Init ==
    /\ LineInit
    /\ pc = "top"
    /\ site = "first" /\ sl = 0 /\ sh = 0 /\ zf = 0
    /\ cf = 0 /\ iflag = hw.iflag /\ ifsave = 0
    /\ cx = 0
    /\ procmsg = "none" /\ a20msg = "none"
    /\ answer = <<>> /\ geom = NoGeom

Step(from, to) == pc = from /\ pc' = to

Call(s) == pc' = "chk_save_low" /\ site' = s

-----------------------------------------------------------------------------
\* top, _start: relocate, save the drive number, clear, print the welcome.
Top ==
    /\ Step("top", "proc")
    /\ UNCHANGED <<hw, line, mem, chk, flags, cx, said, disk>>

\* The carry print_proc returns, with or without the brand string leaves: its stc
\* is followed by println (whose testb clears carry) and by addw $50, %sp, which
\* cannot carry below 0x0700.
ProcCarry == 0

PrintProc ==
    /\ Step("proc", "a20")
    /\ cf' = ProcCarry
    /\ procmsg' = IF cf' = 1 THEN "cpuid_ns" ELSE "brand"
    /\ UNCHANGED <<hw, line, mem, chk, iflag, ifsave, cx, a20msg, disk>>

\* enable_a20: pushf, and the first check.
EnableA20 ==
    /\ pc = "a20" /\ Call("first")
    /\ ifsave' = iflag
    /\ UNCHANGED <<hw, line, mem, sl, sh, zf, cf, iflag, cx, said, disk>>

-----------------------------------------------------------------------------
\* check_a20, one step per access to the two bytes.
ChkSaveLow ==
    /\ Step("chk_save_low", "chk_save_high")
    /\ sl' = low /\ iflag' = 0
    /\ UNCHANGED <<hw, line, mem, site, sh, zf, cf, ifsave, cx, said, disk>>

ChkSaveHigh ==
    /\ Step("chk_save_high", "chk_zero_low")
    /\ sh' = HighByte
    /\ UNCHANGED <<hw, line, mem, site, sl, zf, flags, cx, said, disk>>

ChkZeroLow ==
    /\ Step("chk_zero_low", "chk_mark_high")
    /\ low' = 0
    /\ UNCHANGED <<hw, line, high, chk, flags, cx, said, disk>>

ChkMarkHigh ==
    /\ Step("chk_mark_high", "chk_cmp")
    /\ WriteHigh(255)
    /\ UNCHANGED <<hw, line, chk, flags, cx, said, disk>>

\* The compare as slip: cmpb with 0x00, the value written to the lower byte.
CmpZero ==
    /\ Step("chk_cmp", "chk_rest_high")
    /\ zf' = IF low = 0 THEN 1 ELSE 0
    /\ UNCHANGED <<hw, line, mem, site, sl, sh, flags, cx, said, disk>>

ChkCmp ==
    /\ Step("chk_cmp", "chk_rest_high")
    /\ zf' = IF low = 255 THEN 1 ELSE 0
    /\ UNCHANGED <<hw, line, mem, site, sl, sh, flags, cx, said, disk>>

\* The two pops as slip: the upper byte restored from the lower one's word.
RestHighSwapped ==
    /\ Step("chk_rest_high", "chk_rest_low")
    /\ WriteHigh(sl)
    /\ UNCHANGED <<hw, line, chk, flags, cx, said, disk>>

ChkRestHigh ==
    /\ Step("chk_rest_high", "chk_rest_low")
    /\ WriteHigh(sh)
    /\ UNCHANGED <<hw, line, chk, flags, cx, said, disk>>

ChkRestLow ==
    /\ Step("chk_rest_low", "chk_ret")
    /\ low' = sl
    /\ UNCHANGED <<hw, line, high, chk, flags, cx, said, disk>>

\* The sequence of methods as slip: port 0x92 is never tried.
NoFastGate(n) ==
    IF site = "first" THEN "bios_query" ELSE IF site = "bios" THEN "kb" ELSE "fail"

\* popf; stc or clc; sti; ret, and in enable_a20 the jnc after the call.
NextMethod(n) ==
    IF site = "first" THEN "bios_query"
    ELSE IF site = "bios" THEN "kb"
    ELSE IF site = "kb" THEN "fast"
    ELSE IF n = 0 THEN "fail" ELSE "chk_save_low"

ChkRet ==
    /\ pc = "chk_ret"
    /\ cf' = zf /\ iflag' = 1
    /\ cx' = IF zf = 1 /\ site = "poll" THEN cx - 1 ELSE cx
    /\ pc' = IF zf = 1 THEN NextMethod(cx') ELSE "ok"
    /\ UNCHANGED <<hw, line, mem, chk, ifsave, said, disk>>

-----------------------------------------------------------------------------
\* enable_a20_bios.  testw clears carry, so the jc after it is never taken:
\* only AX = 0 skips the second call.
BiosQuery ==
    /\ pc = "bios_query"
    /\ IF hw.query = 0 THEN Call("bios") ELSE pc' = "bios_enable" /\ UNCHANGED site
    /\ UNCHANGED <<hw, line, mem, sl, sh, zf, flags, cx, said, disk>>

BiosEnable ==
    /\ pc = "bios_enable" /\ Call("bios")
    /\ gate' = IF hw.enable = 1 THEN 1 ELSE gate
    /\ UNCHANGED <<hw, busy, kbcmd, fastbit, mem, sl, sh, zf, flags, cx, said, disk>>

\* enable_a20_kb: a bounded wait, 0xd1, an unbounded wait, 0xdf.
KbEnter ==
    /\ Step("kb", "kb_wait")
    /\ iflag' = 0 /\ cx' = KbLimit
    /\ UNCHANGED <<hw, line, mem, chk, cf, ifsave, said, disk>>

\* The bounded wait as slip: no bound at all.
KbWaitUnbounded ==
    /\ pc = "kb_wait"
    /\ pc' = IF busy = 1 THEN "kb_wait" ELSE "kb_cmd"
    /\ UNCHANGED <<hw, line, mem, chk, flags, cx, said, disk>>

KbWait ==
    /\ pc = "kb_wait"
    /\ cx' = cx - 1
    /\ pc' = IF cx' = 0 THEN "kb_out" ELSE IF busy = 1 THEN "kb_wait" ELSE "kb_cmd"
    /\ UNCHANGED <<hw, line, mem, chk, flags, said, disk>>

KbCmd ==
    /\ Step("kb_cmd", "kb_wait2")
    /\ busy' = 1 /\ kbcmd' = "d1"
    /\ UNCHANGED <<hw, gate, fastbit, mem, chk, flags, cx, said, disk>>

\* A turn of the wait with the buffer still full changes nothing.
KbWait2 ==
    /\ Step("kb_wait2", "kb_data")
    /\ busy = 0
    /\ UNCHANGED <<hw, line, mem, chk, flags, cx, said, disk>>

KbData ==
    /\ Step("kb_data", "kb_out")
    /\ busy' = 1 /\ kbcmd' = "df"
    /\ UNCHANGED <<hw, gate, fastbit, mem, chk, flags, cx, said, disk>>

KbOut ==
    /\ pc = "kb_out" /\ Call("kb")
    /\ iflag' = 1
    /\ UNCHANGED <<hw, line, mem, sl, sh, zf, cf, ifsave, cx, said, disk>>

\* enable_a20_fast, and the counter of the polls that follow it.
Fast ==
    /\ pc = "fast" /\ Call("poll")
    /\ fastbit' = 1
    /\ cx' = PollLimit
    /\ UNCHANGED <<hw, gate, busy, kbcmd, mem, sl, sh, zf, flags, said, disk>>

\* popf; stc or clc; ret.
EnableRet ==
    /\ pc \in {"ok", "fail"}
    /\ cf' = IF pc = "fail" THEN 1 ELSE 0
    /\ iflag' = ifsave
    /\ pc' = "report"
    /\ UNCHANGED <<hw, line, mem, chk, ifsave, cx, said, disk>>

Report ==
    /\ Step("report", IF cf = 1 THEN "halt" ELSE "disk")
    /\ a20msg' = IF cf = 1 THEN "disabled" ELSE "enabled"
    /\ UNCHANGED <<hw, line, mem, chk, flags, cx, procmsg, disk>>

-----------------------------------------------------------------------------
\* INT 13h AH=08h: CH and the top bits of CL hold the last cylinder, the rest
\* of CL the last sector, DH the last head.
Packed(c, h, s) == [ch |-> c % 256, cl |-> s + 64 * (c \div 256), dh |-> h]

\* The decoding as slip: the sector bits left in the cylinder.
GeometryNoShift(r) ==
    [heads     |-> (r.dh + 1) % 256,
     cylinders |-> (r.ch + 256 * r.cl + 1) % 65536,
     sectors   |-> r.cl % 64]

\* What init_disk stores: byte and word arithmetic on those registers.
Geometry(r) ==
    [heads     |-> (r.dh + 1) % 256,
     cylinders |-> (r.ch + 256 * (r.cl \div 64) + 1) % 65536,
     sectors   |-> r.cl % 64]

\* The carry of the call is not tested: after a failure the registers hold
\* whatever they hold, and are stored all the same.
InitDisk ==
    /\ Step("disk", "halt")
    /\ \/ \E c \in Cylinders, h \in Heads, s \in Sectors :
             /\ answer' = <<c, h, s>>
             /\ geom' = Geometry(Packed(c, h, s))
       \/ /\ answer' = <<>>
          /\ \E r \in [ch : {0, 255}, cl : {0, 255}, dh : {0, 255}] :
                geom' = Geometry(r)
    /\ UNCHANGED <<hw, line, mem, chk, flags, cx, said>>

\* println, reg32_dump, cli, hlt: with interrupts off nothing wakes the CPU.
Halt ==
    /\ Step("halt", "halted")
    /\ iflag' = 0
    /\ UNCHANGED <<hw, line, mem, chk, cf, ifsave, cx, said, disk>>

Check == \/ ChkSaveLow \/ ChkSaveHigh \/ ChkZeroLow \/ ChkMarkHigh
         \/ ChkCmp \/ ChkRestHigh \/ ChkRestLow \/ ChkRet

Cpu == \/ Top \/ PrintProc \/ EnableA20 \/ Check \/ BiosQuery \/ BiosEnable
       \/ KbEnter \/ KbWait \/ KbCmd \/ KbWait2 \/ KbData \/ KbOut
       \/ Fast \/ EnableRet \/ Report \/ InitDisk \/ Halt

LineStep ==
    /\ KbcConsume \/ FastSettles
    /\ UNCHANGED <<pc, chk, flags, cx, said, disk>>

Next == Cpu \/ LineStep

Spec == Init /\ [][Next]_vars

\* The CPU runs until hlt; an 8042 that is present empties its buffer and the
\* chipset follows port 0x92, each in finite time.
FairSpec == Spec /\ WF_vars(Cpu) /\ WF_vars(LineStep)

-----------------------------------------------------------------------------
Pcs == {"top", "proc", "a20", "chk_save_low", "chk_save_high", "chk_zero_low",
        "chk_mark_high", "chk_cmp", "chk_rest_high", "chk_rest_low", "chk_ret",
        "bios_query", "bios_enable", "kb", "kb_wait", "kb_cmd", "kb_wait2",
        "kb_data", "kb_out", "fast", "ok", "fail", "report", "disk", "halt",
        "halted"}

\* The type invariant of the loader and of the hardware it drives: registers,
\* flags, the two probed bytes and the counters of the bounded waits.
TypeOK ==
    /\ LineTypeOK
    /\ pc \in Pcs
    /\ site \in {"first", "bios", "kb", "poll"}
    /\ sl \in Byte /\ sh \in Byte
    /\ zf \in Bit /\ cf \in Bit
    /\ iflag \in Bit /\ ifsave \in Bit
    /\ cx \in Nat
    /\ procmsg \in {"none", "brand", "cpuid_ns"}
    /\ a20msg \in {"none", "enabled", "disabled"}

\* Where check_a20 has overwritten the byte at 0x500 and not yet restored it.
LowLent == {"chk_mark_high", "chk_cmp", "chk_rest_high", "chk_rest_low"}

\* enable_a20 clears carry, and the loader prints "enabled", only when the line
\* is open, however the line moved while check_a20 was comparing the bytes.
A20Sound == (pc = "ok" \/ (pc = "report" /\ cf = 0) \/ a20msg = "enabled") => gate = 1

\* check_a20 gives back the byte at 0x500, even when the restore of the upper
\* byte goes to the same address or the line opens between save and restore.
LowIntact == pc \notin LowLent => low = hw.low

\* The byte at 0x100500 comes back as well, with one exception: if the line
\* opened during the run it may hold the copy of the lower byte that check_a20
\* saved through the closed line.
HighIntact ==
    pc \notin {"chk_cmp", "chk_rest_high"} =>
        high = hw.high \/ (high = hw.low /\ gate = 1 /\ hw.gate = 0)

\* enable_a20 returns with the interrupt flag of its caller, although every
\* check_a20 and enable_a20_kb inside it ends in an unconditional sti.
InterruptFlagKept == pc \in {"report", "disk", "halt"} => iflag = hw.iflag

\* All that the A20 routines borrow from their caller, the two bytes they probe
\* and the interrupt flag, is given back on every path through the methods.
GivesBack == LowIntact /\ HighIntact /\ InterruptFlagKept

\* init_disk decodes the packed registers of INT 13h AH=08h: the counts are the
\* last cylinder and head plus one, and the sectors; only a drive with head
\* number 255 does not fit the byte.
GeometryDecoded ==
    answer # <<>> =>
        /\ geom.cylinders = answer[1] + 1
        /\ answer[2] < 255 => geom.heads = answer[2] + 1
        /\ geom.sectors = answer[3]

\* enable_a20 as its caller sees it.
status == IF a20msg = "none" THEN "trying" ELSE a20msg

tried == IF site = "first" THEN {}
         ELSE IF site = "bios" THEN {"bios"}
         ELSE IF site = "kb" THEN {"bios", "kb"} ELSE {"bios", "kb", "fast"}

Promise == INSTANCE A20Promise WITH
    Value <- InitByte, kept <- IF pc \in LowLent THEN hw.low ELSE low

\* The loader implements the promise of enable_a20: no false "enabled", no
\* "disabled" before the BIOS, the 8042 and port 0x92 have been tried in that
\* order, and the borrowed byte unchanged.
KeepsPromise == Promise!Spec

\* The loader always reaches its hlt: neither wait for the 8042 lasts forever,
\* with the controller absent (the bounded wait gives up) or present.  On a
\* machine whose BIOS opens the line it has said "enabled" by then, whatever the
\* other gates do.
Halts ==
    <>(/\ pc = "halted"
       /\ (hw.enable = 1 /\ hw.query # 0) => a20msg = "enabled")
=============================================================================
