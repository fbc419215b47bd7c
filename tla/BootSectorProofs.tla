-------------------------- MODULE BootSectorProofs --------------------------
(***************************************************************************)
(* Proofs about BootSector for every BIOS stack use, every partition table *)
(* and every drive.                                                        *)
(***************************************************************************)
EXTENDS BootSector, TLAPS

\* The part of the table the stack has not reached is the disk's table, and the
\* entries the scan has passed were not active in it.
Scanned ==
    /\ \A e \in Entries : reach < FlagSlot(e) - 1 => tab[e] = disk[e]
    /\ (pc \in {"scan", "jump"} /\ failed = 0) =>
          \A f \in Entries : f < di /\ reach < FlagSlot(f) - 1 => disk[f].active = 0
    /\ (pc = "jump" /\ failed = 0 /\ reach < FlagSlot(di) - 1) =>
          disk[di].active = 1 /\ loaded = di
    /\ pc = "top" => failed = 0 /\ part = 0 /\ di = 0
    /\ pc = "scan" => part = di
    /\ pc = "jump" => part = di + 1

IInv == TypeOK /\ ScanInTable /\ Scanned

\* What pushing down to slot n does to the table: entries above it stay.
LEMMA PushKeeps ==
    ASSUME TypeOK, NEW n \in Nat, Push(n)
    PROVE  /\ reach' \in Nat /\ reach' >= reach
           /\ tab' \in [Entries -> Entry]
           /\ \A e \in Entries : reach' < FlagSlot(e) - 1 => tab'[e] = tab[e]
<1> DEFINE hit == {e \in Entries : n >= FlagSlot(e) - 1}
<1>1. PICK junk \in [hit -> Entry] :
        tab' = [e \in Entries |->
                  IF n >= FlagSlot(e) THEN junk[e]
                  ELSE IF e \in hit THEN [tab[e] EXCEPT !.sector = junk[e].sector]
                  ELSE tab[e]]
  BY DEF Push
<1>2. reach' \in Nat /\ reach' >= reach /\ reach' >= n
  BY DEF Push, TypeOK
<1>3. ASSUME NEW e \in Entries PROVE FlagSlot(e) \in Nat
  BY DEF Entries, FlagSlot
<1>4. ASSUME NEW e \in Entries PROVE tab'[e] \in Entry
  <2>1. tab[e] \in Entry
    BY DEF TypeOK
  <2>2. CASE n >= FlagSlot(e)
    BY <1>1, <1>3, <2>2
  <2>3. CASE n < FlagSlot(e) /\ e \in hit
    <3>1. tab'[e] = [tab[e] EXCEPT !.sector = junk[e].sector]
      BY <1>1, <1>3, <2>3
    <3>2. junk[e] \in Entry
      BY <2>3
    <3> QED
      BY <2>1, <3>1, <3>2 DEF Entry
  <2>4. CASE e \notin hit
    BY <1>1, <1>3, <2>1, <2>4
  <2> QED
    BY <1>3, <2>2, <2>3, <2>4
<1>5. ASSUME NEW e \in Entries, reach' < FlagSlot(e) - 1 PROVE tab'[e] = tab[e]
  BY <1>1, <1>2, <1>3, <1>5
<1> QED
  BY <1>1, <1>2, <1>4, <1>5

\* decb on a byte.
LEMMA DecByte ==
    ASSUME NEW b \in 0 .. 255
    PROVE  Dec(b) \in 0 .. 255 /\ (b > 0 => Dec(b) = b - 1)
<1>1. CASE b = 0
  BY <1>1 DEF Dec
<1>2. CASE b > 0
  <2>1. (b - 1 + 256) % 256 = b - 1
    BY <1>2
  <2> QED
    BY <1>2, <2>1 DEF Dec
<1> QED
  BY <1>1, <1>2

\* The initial states satisfy the inductive invariant.
LEMMA InitIInv == Init => IInv
<1> SUFFICES ASSUME Init PROVE IInv
  OBVIOUS
<1> QED
  BY BootSectorAssumption DEF Init, IInv, TypeOK, ScanInTable, Scanned, Entries, Junk

\* One step of the boot sectors preserves the inductive invariant.
LEMMA NextIInv == IInv /\ [Next]_vars => IInv'
<1> SUFFICES ASSUME IInv, [Next]_vars PROVE IInv'
  OBVIOUS
<1> USE BootSectorAssumption
<1>0. \A b \in BiosPush : 7 + b \in Nat /\ 5 + b \in Nat
  OBVIOUS
<1>1. CASE Top
  <2>1. reach' \in Nat /\ reach' >= reach /\ tab' \in [Entries -> Entry]
        /\ \A e \in Entries : reach' < FlagSlot(e) - 1 => tab'[e] = tab[e]
    BY <1>0, <1>1, PushKeeps DEF Top, IInv
  <2> QED
    BY <1>1, <2>1 DEF Top, IInv, TypeOK, ScanInTable, Scanned, Entries, FlagSlot, vbr
<1>2. CASE Skip
  <2>1. tab[di].active = 0 \/ di \notin Entries
    BY <1>2 DEF Skip, Active
  <2>2. /\ pc = "scan" /\ di < MaxEntry /\ part' = part + 1 /\ di' = di + 1
        /\ cl' = Dec(cl) /\ pc' = (IF cl' = 0 THEN "halted" ELSE "scan")
        /\ UNCHANGED <<disk, count, tab, reach, loaded, failed, vbr>>
    BY <1>2 DEF Skip, Advance
  <2>3. cl \in 0 .. 255 /\ Dec(cl) \in 0 .. 255 /\ (cl > 0 => Dec(cl) = cl - 1)
    BY DecByte DEF IInv, TypeOK
  <2>4. TypeOK'
    BY <2>2, <2>3 DEF IInv, TypeOK, Scanned, vbr
  <2>5. ScanInTable'
    BY <2>2, <2>3 DEF IInv, TypeOK, ScanInTable, Entries
  <2>6. Scanned'
    BY <2>1, <2>2 DEF IInv, TypeOK, Scanned, Entries, FlagSlot
  <2> QED
    BY <2>4, <2>5, <2>6 DEF IInv
<1>3. CASE Load
  <2>1. reach' \in Nat /\ reach' >= reach /\ tab' \in [Entries -> Entry]
        /\ \A e \in Entries : reach' < FlagSlot(e) - 1 => tab'[e] = tab[e]
    BY <1>0, <1>3, PushKeeps DEF Load, IInv
  <2>2. tab[di].active = 1 \/ di \notin Entries
    BY <1>3 DEF Load, Active
  <2> QED
    BY <1>3, <2>1, <2>2 DEF Load, Loads, IInv, TypeOK, ScanInTable, Scanned,
       Entries, Junk, FlagSlot, vbr
<1>4. CASE LoadFails
  <2>1. reach' \in Nat /\ reach' >= reach /\ tab' \in [Entries -> Entry]
        /\ \A e \in Entries : reach' < FlagSlot(e) - 1 => tab'[e] = tab[e]
    BY <1>0, <1>4, PushKeeps DEF LoadFails, IInv
  <2>2. PICK c \in SectorOf(di) : Advance(c)
    BY <1>4 DEF LoadFails
  <2>3. c \in 0 .. 255
    BY <2>2 DEF SectorOf, IInv, TypeOK, Entry
  <2> QED
    BY <1>4, <2>1, <2>2, <2>3 DEF LoadFails, Advance, Dec, IInv, TypeOK,
       ScanInTable, Scanned, Entries, FlagSlot, vbr
<1>5. CASE Jump
  BY <1>5 DEF Jump, scan, IInv, TypeOK, ScanInTable, Scanned
<1>6. CASE VbrBegin
  BY <1>6 DEF VbrBegin, scan, IInv, TypeOK, ScanInTable, Scanned
<1>7. CASE UNCHANGED vars
  BY <1>7 DEF vars, scan, vbr, IInv, TypeOK, ScanInTable, Scanned
<1> QED
  BY <1>1, <1>2, <1>3, <1>4, <1>5, <1>6, <1>7 DEF Next

\* For every partition table and every use a BIOS makes of the stack: without a
\* failed read the scan stays in the table and starts the first active entry
\* the stack has not reached.
THEOREM Safety == Spec => [](TypeOK /\ LoadsFirstActive)
<1>1. IInv => TypeOK /\ LoadsFirstActive
  <2> SUFFICES ASSUME IInv, pc = "jump", failed = 0, NEW e \in Entries,
                      FirstActive(e), reach < FlagSlot(e) - 1
               PROVE  loaded = e
    BY DEF IInv, LoadsFirstActive
  <2>1. di \in Entries
    BY DEF IInv, ScanInTable
  <2>2. ~(e < di)
    BY DEF IInv, Scanned, FirstActive
  <2>3. ~(di < e)
    BY <2>1 DEF IInv, TypeOK, Scanned, FirstActive, FlagSlot, Entries
  <2> QED
    BY <2>1, <2>2, <2>3 DEF IInv, Scanned, Entries
<1> QED
  BY InitIInv, NextIInv, <1>1, PTL DEF Spec
-----------------------------------------------------------------------------
\* The mask keeps the six sector bits, and a word holds 256 heads.
LEMMA GeometryLemma ==
    ASSUME NEW c \in 0 .. 1023, NEW h \in 0 .. 255, NEW s \in 1 .. 63
    PROVE  VbrGeometry(Packed(c, h, s)) = <<s, h + 1>>
<1> DEFINE q == c \div 256
<1>1. q \in 0 .. 3 /\ c % 256 \in 0 .. 255
  OBVIOUS
<1> HIDE DEF q
<1>2. (256 * (c % 256) + (s + 64 * q)) % 64 = s
  <2> DEFINE r == c % 256
  <2>1. r \in 0 .. 255
    BY <1>1
  <2> HIDE DEF r
  <2>2. 256 * r + (s + 64 * q) = 64 * (4 * r + q) + s /\ 4 * r + q \in Nat
    BY <1>1, <2>1
  <2>3. ASSUME NEW m \in Nat PROVE (64 * m + s) % 64 = s
    OBVIOUS
  <2> QED
    BY <2>2, <2>3 DEF r
<1>3. (h + 1) % 65536 = h + 1
  OBVIOUS
<1>4. Packed(c, h, s) = [ch |-> c % 256, cl |-> s + 64 * q, dh |-> h]
  BY DEF Packed, q
<1> QED
  BY <1>2, <1>3, <1>4 DEF VbrGeometry

\* The VBR takes the geometry of every drive from the packed registers.
THEOREM DriveGeometry == Spec => []VbrGeometryExact
<1>1. Init => VbrGeometryExact
  BY DEF Init, VbrGeometryExact
<1>2. VbrGeometryExact /\ [Next]_vars => VbrGeometryExact'
  <2> SUFFICES ASSUME VbrGeometryExact, [Next]_vars PROVE VbrGeometryExact'
    OBVIOUS
  <2>1. CASE VbrBegin
    <3>1. PICK c \in Cylinders, h \in Heads, s \in Sectors :
                 asked' = <<c, h, s>> /\ geom' = VbrGeometry(Packed(c, h, s))
      BY <2>1 DEF VbrBegin
    <3>2. c \in 0 .. 1023 /\ h \in 0 .. 255 /\ s \in 1 .. 63
      BY BootSectorAssumption
    <3> QED
      BY <3>1, <3>2, GeometryLemma DEF VbrGeometryExact
  <2>2. CASE UNCHANGED vars
    BY <2>2 DEF vars, vbr, VbrGeometryExact
  <2>3. CASE Top \/ Skip \/ Load \/ LoadFails \/ Jump
    BY <2>3 DEF Top, Skip, Load, LoadFails, Jump, Advance, VbrGeometryExact
  <2> QED
    BY <2>1, <2>2, <2>3 DEF Next
<1> QED
  BY <1>1, <1>2, PTL DEF Spec
=============================================================================
