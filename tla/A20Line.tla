------------------------------ MODULE A20Line ------------------------------
(***************************************************************************)
(* The PC hardware that boot/x86/bootld/bootld.s drives to open the A20    *)
(* address line: the line itself, the two physical bytes the test of the   *)
(* line touches, the 8042 keyboard controller, port 0x92 and the BIOS.     *)
(* None of it is in the repository; it is modelled from how bootld.s uses  *)
(* it.  The line changes on its own time, between any two instructions.    *)
(***************************************************************************)
EXTENDS Naturals

CONSTANT InitByte   \* what the two probed bytes may hold when the loader starts

Byte == 0 .. 255
Bit  == {0, 1}     \* lines and flags, as the hardware shows them

ASSUME InitByteAssumption == InitByte \subseteq Byte

VARIABLES
    hw,       \* the machine the loader happens to run on; never changes
    gate,     \* 1: address bit 20 is passed on to memory
    low,      \* the byte at physical 0x000500
    high,     \* the byte at physical 0x100500
    busy,     \* 8042 status bit 1: input buffer full
    kbcmd,    \* the byte the 8042 has been given and not yet acted on
    fastbit   \* bit 1 of port 0x92

line == <<gate, busy, kbcmd, fastbit>>
mem  == <<low, high>>

(***************************************************************************)
(* gate, low, high: the initial state of the line and of the two bytes;    *)
(* query: AX after INT 15h AX=2403h (0x8600 comes with carry set);         *)
(* enable: INT 15h AX=2401h opens the line; kbc: an 8042 is present (the   *)
(* port floats at 0xff otherwise); kbgate: its output port drives A20;     *)
(* fast: port 0x92 exists (it floats otherwise); iflag: the interrupt flag *)
(* the loader is entered with.                                             *)
(***************************************************************************)
Machine ==
    [gate : Bit, low : InitByte, high : InitByte, query : {0, 3, 34304},
     enable : Bit, kbc : Bit, kbgate : Bit, fast : Bit, iflag : Bit]

LineInit ==
    /\ hw \in Machine
    /\ gate = hw.gate
    /\ low = hw.low
    /\ high = hw.high
    /\ busy \in Bit /\ (hw.kbc = 0 => busy = 1)
    /\ kbcmd = "none"
    /\ fastbit = 1 - hw.fast

\* FFFF:0510, the byte one megabyte above 0000:0500 when the line is open and
\* the very same byte when it is closed.
HighByte == IF gate = 1 THEN high ELSE low

WriteHigh(b) ==
    /\ low'  = IF gate = 1 THEN low ELSE b
    /\ high' = IF gate = 1 THEN b ELSE high

\* The 8042 takes the byte out of its input buffer; 0xdf after 0xd1 opens the
\* line on machines that route it through the controller.
KbcConsume ==
    /\ hw.kbc = 1 /\ busy = 1
    /\ busy' = 0
    /\ gate' = IF kbcmd = "df" /\ hw.kbgate = 1 THEN 1 ELSE gate
    /\ UNCHANGED <<hw, mem, kbcmd, fastbit>>

\* The chipset follows port 0x92 some time after the write.
FastSettles ==
    /\ hw.fast = 1 /\ fastbit = 1 /\ gate = 0
    /\ gate' = 1
    /\ UNCHANGED <<hw, mem, busy, kbcmd, fastbit>>

LineTypeOK ==
    /\ hw \in Machine
    /\ gate \in Bit
    /\ low \in Byte
    /\ high \in Byte
    /\ busy \in Bit
    /\ kbcmd \in {"none", "d1", "df"}
    /\ fastbit \in Bit
=============================================================================
