---------------------------- MODULE BootldProofs ----------------------------
(***************************************************************************)
(* Proofs about Bootld for every initial content of the two bytes, every   *)
(* bound of the waits and every machine.                                   *)
(***************************************************************************)
EXTENDS Bootld, TLAPS

\* What check_a20 and enable_a20 know at each of their instructions: the test
\* of the line (Evidence), the two saved bytes (Saved), the interrupt flag
\* pushed by enable_a20 (Pushed) and what has been announced (Announced).
Evidence ==
    /\ hw.gate = 1 => gate = 1
    /\ pc = "chk_mark_high" => low = 0
    /\ pc = "chk_cmp" => (low = 255 \/ gate = 1)
    /\ pc \in {"chk_rest_high", "chk_rest_low", "chk_ret"} => (zf = 1 \/ gate = 1)
    /\ pc \in {"ok", "disk"} => gate = 1
    /\ (pc = "report" /\ cf = 0) => gate = 1

Saved ==
    /\ pc \in {"chk_save_high", "chk_zero_low"} \cup LowLent => sl = hw.low
    /\ pc \in {"chk_zero_low"} \cup LowLent =>
          sh = hw.high \/ (sh = hw.low /\ hw.gate = 0)
    /\ pc \in {"chk_cmp", "chk_rest_high"} /\ gate = 0 => high = hw.high

Pushed ==
    /\ pc \in {"top", "proc", "a20"} => iflag = hw.iflag
    /\ pc \notin {"top", "proc", "a20"} => ifsave = hw.iflag

Announced ==
    /\ (pc \in {"disk", "halt", "halted"}) <=> (a20msg # "none")
    /\ pc = "fail" => site = "poll"
    /\ (pc = "report" /\ cf = 1) => site = "poll"
    /\ pc \in {"top", "proc", "a20", "bios_query", "bios_enable"} => site = "first"
    /\ pc \in {"kb", "kb_wait", "kb_cmd", "kb_wait2", "kb_data", "kb_out"} => site = "bios"
    /\ pc = "fast" => site = "kb"
    /\ (pc = "kb_wait" \/ (site = "poll" /\ pc \in {"chk_save_low", "chk_save_high",
            "chk_zero_low", "chk_ret"} \cup LowLent)) => cx > 0

IInv ==
    /\ TypeOK /\ A20Sound /\ LowIntact /\ HighIntact /\ InterruptFlagKept
    /\ Evidence /\ Saved /\ Pushed /\ Announced

\* The initial states satisfy the inductive invariant.
LEMMA InitIInv == Init => IInv
<1> SUFFICES ASSUME Init PROVE IInv
  OBVIOUS
<1>1. hw.low \in Byte /\ hw.high \in Byte /\ hw.gate \in Bit /\ hw.fast \in Bit
      /\ hw.iflag \in Bit
  BY InitByteAssumption DEF Init, LineInit, Machine
<1>2. TypeOK
  BY <1>1 DEF Init, LineInit, TypeOK, LineTypeOK, Pcs, Bit, Byte
<1> QED
  BY <1>1, <1>2 DEF Init, LineInit, IInv, LowLent, A20Sound, LowIntact,
     HighIntact, InterruptFlagKept, Evidence, Saved, Pushed, Announced

\* Every instruction of the loader and every step of the line preserves the
\* inductive invariant.
LEMMA NextIInv == IInv /\ [Next]_vars => IInv'
<1> SUFFICES ASSUME IInv, [Next]_vars PROVE IInv'
  OBVIOUS
<1> USE InitByteAssumption, BootldAssumption
    DEF IInv, TypeOK, LineTypeOK, Machine, Byte, Bit, Pcs, LowLent, A20Sound,
        LowIntact, HighIntact, InterruptFlagKept, Evidence, Saved, Pushed,
        Announced, Step, Call, WriteHigh, HighByte,
        line, mem, chk, flags, said, disk
<1>1. CASE Top
  BY <1>1 DEF Top
<1>2. CASE PrintProc
  BY <1>2 DEF PrintProc, ProcCarry
<1>3. CASE EnableA20
  BY <1>3 DEF EnableA20
<1>4. CASE ChkSaveLow
  BY <1>4 DEF ChkSaveLow
<1>5. CASE ChkSaveHigh
  BY <1>5 DEF ChkSaveHigh
<1>6. CASE ChkZeroLow
  BY <1>6 DEF ChkZeroLow
<1>7. CASE ChkMarkHigh
  BY <1>7 DEF ChkMarkHigh
<1>8. CASE ChkCmp
  BY <1>8 DEF ChkCmp
<1>9. CASE ChkRestHigh
  BY <1>9 DEF ChkRestHigh
<1>10. CASE ChkRestLow
  BY <1>10 DEF ChkRestLow
<1>11. CASE ChkRet
  BY <1>11 DEF ChkRet, NextMethod
<1>12. CASE BiosQuery
  BY <1>12 DEF BiosQuery
<1>13. CASE BiosEnable
  BY <1>13 DEF BiosEnable
<1>14. CASE KbEnter
  BY <1>14 DEF KbEnter
<1>15. CASE KbWait
  BY <1>15 DEF KbWait
<1>16. CASE KbCmd
  BY <1>16 DEF KbCmd
<1>17. CASE KbWait2
  BY <1>17 DEF KbWait2
<1>18. CASE KbData
  BY <1>18 DEF KbData
<1>19. CASE KbOut
  BY <1>19 DEF KbOut
<1>20. CASE Fast
  BY <1>20 DEF Fast
<1>21. CASE EnableRet
  BY <1>21 DEF EnableRet
<1>22. CASE Report
  BY <1>22 DEF Report
<1>23. CASE InitDisk
  BY <1>23 DEF InitDisk
<1>24. CASE Halt
  BY <1>24 DEF Halt
<1>25. CASE LineStep
  BY <1>25 DEF LineStep, KbcConsume, FastSettles
<1>26. CASE UNCHANGED vars
  BY <1>26 DEF vars
<1>27. QED
  BY <1>1, <1>2, <1>3, <1>4, <1>5, <1>6, <1>7, <1>8, <1>9, <1>10, <1>11, <1>12, <1>13, <1>14, <1>15, <1>16, <1>17, <1>18, <1>19, <1>20, <1>21, <1>22, <1>23, <1>24, <1>25, <1>26 DEF Next, Cpu, Check

\* enable_a20 never claims an open line that is closed, the byte at 0x500 and
\* (but for the race HighIntact names) the byte at 0x100500 come back, and the
\* caller's interrupt flag too, on every machine and for every bound.
THEOREM Safety == Spec => [](TypeOK /\ A20Sound /\ GivesBack)
<1>1. IInv => TypeOK /\ A20Sound /\ GivesBack
  BY DEF IInv, GivesBack
<1> QED
  BY InitIInv, NextIInv, <1>1, PTL DEF Spec

\* The loader starts where enable_a20's promise starts.
LEMMA PromiseInit == Init => Promise!Init
  BY DEF Init, LineInit, Machine, Bit, Promise!Init, status, tried, LowLent

\* Every step of the loader is a step of the promise or leaves its state alone:
\* calls of the three methods are Try, the report is SayEnabled or SayDisabled,
\* a step of the line is Open, and all of check_a20 is invisible.
LEMMA PromiseStep == IInv /\ [Next]_vars => [Promise!Next]_(Promise!vars)
<1> SUFFICES ASSUME IInv, [Next]_vars PROVE [Promise!Next]_(Promise!vars)
  OBVIOUS
<1> USE DEF IInv, TypeOK, LineTypeOK, Bit, Pcs, LowLent, LowIntact, A20Sound,
        Evidence, Saved, Announced, Step, Call, WriteHigh,
        line, mem, chk, flags, said, disk, status, tried,
        Promise!Next, Promise!vars
<1>1. CASE Top
  BY <1>1 DEF Top
<1>2. CASE PrintProc
  BY <1>2 DEF PrintProc, ProcCarry
<1>3. CASE EnableA20
  BY <1>3 DEF EnableA20
<1>4. CASE ChkSaveLow
  BY <1>4 DEF ChkSaveLow
<1>5. CASE ChkSaveHigh
  BY <1>5 DEF ChkSaveHigh
<1>6. CASE ChkZeroLow
  BY <1>6 DEF ChkZeroLow
<1>7. CASE ChkMarkHigh
  BY <1>7 DEF ChkMarkHigh
<1>8. CASE ChkCmp
  BY <1>8 DEF ChkCmp
<1>9. CASE ChkRestHigh
  BY <1>9 DEF ChkRestHigh
<1>10. CASE ChkRestLow
  BY <1>10 DEF ChkRestLow
<1>11. CASE ChkRet
  BY <1>11 DEF ChkRet, NextMethod
<1>12. CASE KbEnter
  BY <1>12 DEF KbEnter
<1>13. CASE KbWait
  BY <1>13 DEF KbWait
<1>14. CASE KbCmd
  BY <1>14 DEF KbCmd
<1>15. CASE KbWait2
  BY <1>15 DEF KbWait2
<1>16. CASE KbData
  BY <1>16 DEF KbData
<1>17. CASE EnableRet
  BY <1>17 DEF EnableRet
<1>18. CASE InitDisk
  BY <1>18 DEF InitDisk
<1>19. CASE Halt
  BY <1>19 DEF Halt
<1>20. CASE BiosQuery
  BY <1>20 DEF BiosQuery, Promise!Try, Promise!Order
<1>21. CASE BiosEnable
  BY <1>21 DEF BiosEnable, Promise!Try, Promise!Order
<1>22. CASE KbOut
  BY <1>22 DEF KbOut, Promise!Try, Promise!Order
<1>23. CASE Fast
  BY <1>23 DEF Fast, Promise!Try, Promise!Order
<1>24. CASE Report
  BY <1>24 DEF Report, Promise!SayEnabled, Promise!SayDisabled
<1>25. CASE LineStep
  BY <1>25 DEF LineStep, KbcConsume, FastSettles, Promise!Open
<1>26. CASE UNCHANGED vars
  BY <1>26 DEF vars
<1>27. QED
  BY <1>1, <1>2, <1>3, <1>4, <1>5, <1>6, <1>7, <1>8, <1>9, <1>10, <1>11, <1>12, <1>13, <1>14, <1>15, <1>16, <1>17, <1>18, <1>19, <1>20, <1>21, <1>22, <1>23, <1>24, <1>25, <1>26 DEF Next, Cpu, Check

\* The loader implements the promise of enable_a20 on every machine, for every
\* bound of its waits and every content of the two bytes.
THEOREM Refinement == Spec => KeepsPromise
  BY InitIInv, NextIInv, PromiseInit, PromiseStep, PTL
     DEF Spec, KeepsPromise, Promise!Spec
-----------------------------------------------------------------------------
\* The two parts of CL come apart again, for every value the call can return.
LEMMA GeometryLemma ==
    ASSUME NEW c \in 0 .. 1023, NEW h \in 0 .. 255, NEW s \in 1 .. 63
    PROVE  /\ Geometry(Packed(c, h, s)).cylinders = c + 1
           /\ h < 255 => Geometry(Packed(c, h, s)).heads = h + 1
           /\ Geometry(Packed(c, h, s)).sectors = s
<1> DEFINE q == c \div 256
<1>1. q \in 0 .. 3 /\ c % 256 \in 0 .. 255 /\ c = 256 * q + (c % 256)
  OBVIOUS
<1> HIDE DEF q
<1>2. (s + 64 * q) \div 64 = q /\ (s + 64 * q) % 64 = s
  <2>1. q = 0 \/ q = 1 \/ q = 2 \/ q = 3
    BY <1>1
  <2> QED
    BY <2>1
<1>3. ((c % 256) + 256 * q + 1) % 65536 = c + 1
  <2>1. (c % 256) + 256 * q + 1 = c + 1 /\ c + 1 \in 0 .. 65535
    BY <1>1
  <2> QED
    BY <2>1
<1>4. h < 255 => (h + 1) % 256 = h + 1
  OBVIOUS
<1>5. Packed(c, h, s) = [ch |-> c % 256, cl |-> s + 64 * q, dh |-> h]
  BY DEF Packed, q
<1> QED
  BY <1>2, <1>3, <1>4, <1>5 DEF Geometry

\* Only init_disk records a geometry.
LEMMA DiskKept == [Next]_vars => InitDisk \/ UNCHANGED disk
  BY DEF Next, Cpu, Check, LineStep, vars, disk, Top, PrintProc, EnableA20, ChkSaveLow,
     ChkSaveHigh, ChkZeroLow, ChkMarkHigh, ChkCmp, ChkRestHigh, ChkRestLow, ChkRet,
     BiosQuery, BiosEnable, KbEnter, KbWait, KbCmd, KbWait2, KbData, KbOut, Fast,
     EnableRet, Report, Halt

\* Every drive the BIOS can describe is recorded with the cylinders, heads and
\* sectors it has.
THEOREM DriveGeometry == Spec => []GeometryDecoded
<1>1. Init => GeometryDecoded
  BY DEF Init, GeometryDecoded
<1>2. GeometryDecoded /\ [Next]_vars => GeometryDecoded'
  <2> SUFFICES ASSUME GeometryDecoded, [Next]_vars PROVE GeometryDecoded'
    OBVIOUS
  <2>1. CASE UNCHANGED disk
    BY <2>1 DEF disk, GeometryDecoded
  <2>2. CASE InitDisk
    <3>1. CASE answer' = <<>>
      BY <3>1 DEF GeometryDecoded
    <3>2. CASE \E c \in Cylinders, h \in Heads, s \in Sectors :
                  answer' = <<c, h, s>> /\ geom' = Geometry(Packed(c, h, s))
      <4>1. PICK c \in Cylinders, h \in Heads, s \in Sectors :
                   answer' = <<c, h, s>> /\ geom' = Geometry(Packed(c, h, s))
        BY <3>2
      <4>2. c \in 0 .. 1023 /\ h \in 0 .. 255 /\ s \in 1 .. 63
        BY BootldAssumption
      <4>3. answer'[1] = c /\ answer'[2] = h /\ answer'[3] = s
        BY <4>1
      <4>4. /\ geom'.cylinders = c + 1 /\ geom'.sectors = s
            /\ h < 255 => geom'.heads = h + 1
        <5>1. /\ Geometry(Packed(c, h, s)).cylinders = c + 1
              /\ h < 255 => Geometry(Packed(c, h, s)).heads = h + 1
              /\ Geometry(Packed(c, h, s)).sectors = s
          BY <4>2, GeometryLemma
        <5>2. geom' = Geometry(Packed(c, h, s))
          BY <4>1
        <5> QED
          BY <5>1, <5>2
      <4> QED
        BY <4>3, <4>4 DEF GeometryDecoded
    <3> QED
      BY <2>2, <3>1, <3>2 DEF InitDisk
  <2> QED
    BY <2>1, <2>2, DiskKept
<1> QED
  BY <1>1, <1>2, PTL DEF Spec
=============================================================================
