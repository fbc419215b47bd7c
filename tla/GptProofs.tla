----------------------------- MODULE GptProofs -----------------------------
(***************************************************************************)
(* Proofs about Gpt for images, sectors and arrays of every size and any   *)
(* number of runs: a disk that has had a table keeps one, wherever the     *)
(* tool is killed, and a run that ends leaves a complete one.              *)
(***************************************************************************)
EXTENDS Gpt, TLAPS

\* The primary table of the tool, and the backup another tool has left.
ToolTable ==
    disk[1] = PrimaryHeader /\ \A j \in 0 .. A - 1 : disk[2 + j] = Entries("tool", j)
OtherBackup ==
    /\ disk[N - 1] = Header("other", N - 1, BackupArray, LastUsable, "zero")
    /\ \A j \in 0 .. A - 1 : disk[BackupArray + j] = Entries("other", j)

\* Where the tool is in its two arrays.  Without Room the first sector of the
\* backup array may lie in front of the image, and the position stays where the
\* primary array ends.
Base == IF BackupArray >= 0 THEN BackupArray ELSE 2 + A
Writing == pc \in {"mbr", "primary", "parray", "barray", "bheader"}

Position ==
    /\ sector_size \in SectorSizes /\ N \in Nat /\ k \in Nat /\ pos \in Nat
    /\ errors \in Nat /\ had \in {0, 1} /\ DOMAIN disk = Lba
    /\ N <= len /\ len <= MaxLba + 1 /\ len \in Nat
    /\ Room => N = len
    /\ Writing => sector_size > 0
    /\ pc \in {"mbr", "primary"} => k = 0
    /\ pc \in {"parray", "barray"} => k < A
    /\ pc = "parray" /\ k > 0 => pos = 2 + k
    /\ pc = "barray" => pos = IF k = 0 THEN 2 + A ELSE Base + k
    /\ pc = "bheader" => pos <= MaxLba

\* What is on the disk of an image with room, as long as no write has failed:
\* the tool is finished with the primary table before it touches the backup.
Progress ==
    Room /\ errors = 0 =>
        /\ pc = "parray" =>
              disk[1] = PrimaryHeader /\ \A j \in 0 .. k - 1 : disk[2 + j] = Entries("tool", j)
        /\ pc \in {"barray", "bheader", "exit"} => ToolTable
        /\ had = 1 => ToolTable \/ OtherBackup
        /\ pc = "barray" => \A j \in 0 .. k - 1 : disk[BackupArray + j] = Entries("tool", j)
        /\ pc \in {"bheader", "exit"} =>
              \A j \in 0 .. A - 1 : disk[BackupArray + j] = Entries("tool", j)
        /\ pc = "exit" => disk[N - 1] = BackupHeader
        /\ Writing \/ pc = "exit" => pc = "mbr" \/ protect = N - 1

\* Before the first table nothing but the first sector can pass for a header.
Clean == had = 0 => \A b \in Lba \ {1} : ~HeaderValid(b)

IInv == Position /\ Progress /\ (had = 1 => Room) /\ Clean

-----------------------------------------------------------------------------
\* The sectors of the array, for a sector size that holds an entry.
LEMMA ALemma ==
    ASSUME sector_size \in SectorSizes, sector_size > 0
    PROVE  A \in Nat /\ A >= 1 /\ A <= PART_ARRAY_SLOTS
<1>1. sector_size \in Nat /\ PART_ARRAY_SLOTS \in Nat /\ PART_ARRAY_SLOTS > 0
      /\ sector_size * (PART_ARRAY_SLOTS \div sector_size) = PART_ARRAY_SLOTS
  BY GptAssumption
<1>2. A \in Int /\ sector_size * A = PART_ARRAY_SLOTS
  BY <1>1 DEF A
<1> QED
  BY <1>1, <1>2

\* The two tables a reader accepts.
LEMMA ToolTableValid == Room /\ ToolTable => Valid(1)
  BY DEF Room, ToolTable, Valid, HeaderValid, PrimaryHeader, Header, Sector, crc32

LEMMA OtherBackupValid == Room /\ OtherBackup => Valid(N - 1)
  BY DEF Room, OtherBackup, Valid, HeaderValid, Header, Sector, crc32

\* A first table is the tool's.
OnlyFirst ==
    /\ Room /\ N \in Nat /\ N <= MaxLba + 1 /\ A \in Nat /\ A >= 1
    /\ disk[1] = PrimaryHeader /\ TableThere
    /\ \A b \in Lba \ {1} : ~HeaderValid(b)

LEMMA FirstTable == OnlyFirst => ToolTable
<1> SUFFICES ASSUME OnlyFirst PROVE ToolTable
  OBVIOUS
<1>1. N - 1 \in Lba \ {1}
  BY GptAssumption DEF Room, Lba, OnlyFirst
<1>2. Valid(1)
  BY <1>1 DEF TableThere, Valid, OnlyFirst
<1>3. disk[1].arr = 2 /\ disk[1].from = "tool" /\ disk[1] = PrimaryHeader
  BY DEF PrimaryHeader, Header, Sector, OnlyFirst
<1> QED
  BY <1>2, <1>3 DEF Valid, ToolTable

\* One write: the sector is written, or the write fails and is counted.
LEMMA WriteLemma ==
    ASSUME Position, sector_size > 0, NEW lba \in Int, NEW content, Write(lba, content)
    PROVE  /\ UNCHANGED <<sector_size, N, protect>>
           /\ UNCHANGED <<A, BackupArray, LastUsable, PrimaryHeader, BackupHeader, EfiLast, Base>>
           /\ Room' = Room
           /\ pos' = Seek(lba) + 1 /\ Seek(lba) \in Nat
           /\ DOMAIN disk' = Lba /\ errors' \in Nat /\ had' \in {0, 1}
           /\ disk' = disk \/ disk' = [disk EXCEPT ![Seek(lba)] = content]
           /\ errors' = 0 => errors = 0 /\ disk' = [disk EXCEPT ![Seek(lba)] = content]
           /\ len' = len \/ (Seek(lba) >= len /\ len' \in {Seek(lba), Seek(lba) + 1})
           /\ had' = IF Room /\ TableThere' THEN 1 ELSE had
<1>1. UNCHANGED <<sector_size, N, protect>> /\ pos' = Seek(lba) + 1
  BY DEF Write
<1>2. UNCHANGED <<A, BackupArray, LastUsable, PrimaryHeader, BackupHeader, EfiLast, Base>>
  BY <1>1 DEF A, BackupArray, LastUsable, PrimaryHeader, BackupHeader, EfiLast, Base, Header, Sector, crc32
<1>3. Room' = Room
  BY <1>1, <1>2 DEF Room
<1>4. Seek(lba) \in Nat
  BY DEF Position, Seek
<1>5. \/ /\ disk' = [disk EXCEPT ![Seek(lba)] = content]
         /\ len' = IF Seek(lba) < len THEN len
                   ELSE IF content.kind = "array" THEN Seek(lba) + 1 ELSE Seek(lba)
         /\ errors' = errors
      \/ errors' = errors + 1 /\ UNCHANGED <<disk, len>>
  BY DEF Write
<1>6. had' = IF Room /\ TableThere' THEN 1 ELSE had
  BY DEF Write
<1>7. DOMAIN disk' = Lba /\ errors' \in Nat /\ had' \in {0, 1}
  BY <1>5, <1>6 DEF Position
<1>8. errors' = 0 => errors = 0 /\ disk' = [disk EXCEPT ![Seek(lba)] = content]
  BY <1>5 DEF Position
<1>9. len' = len \/ (Seek(lba) >= len /\ len' \in {Seek(lba), Seek(lba) + 1})
  <2>1. len \in Nat
    BY DEF Position
  <2> QED
    BY <1>4, <1>5, <2>1
<1>10. disk' = disk \/ disk' = [disk EXCEPT ![Seek(lba)] = content]
  BY <1>5
<1> QED
  BY <1>1, <1>2, <1>3, <1>4, <1>6, <1>7, <1>8, <1>9, <1>10

\* The initial states satisfy the inductive invariant.
LEMMA InitIInv == Init => IInv
<1> SUFFICES ASSUME Init PROVE IInv
  OBVIOUS
<1>1. len \in Nat /\ len <= MaxLba + 1 /\ MaxLba \in Nat
  BY GptAssumption DEF Init
<1>2. DOMAIN disk = Lba
  BY DEF Init, OtherTable
<1>3. Position
  BY <1>1, <1>2 DEF Init, Position, Writing
<1>4. CASE disk = [b \in Lba |-> Blank] /\ had = 0
  <2>1. Clean
    BY <1>4 DEF Clean, HeaderValid, Blank, Sector
  <2> QED
    BY <1>3, <1>4, <2>1 DEF Init, IInv, Progress, Writing
<1>5. CASE Room /\ disk = OtherTable /\ had = 1
  <2>1. sector_size \in SectorSizes /\ sector_size > 0
    BY <1>5 DEF Init, Room
  <2>2. A \in Nat /\ A >= 1
    BY <2>1, ALemma
  <2>3. OtherBackup
    BY <1>1, <1>3, <1>5, <2>2, GptAssumption DEF OtherBackup, OtherTable, Room, Position, BackupArray, Lba
  <2> QED
    BY <1>3, <1>5, <2>3 DEF Init, IInv, Progress, Writing, Clean
<1> QED
  BY <1>4, <1>5 DEF Init

-----------------------------------------------------------------------------
\* A write that cannot be taken for a header behind the first sector.
LEMMA CleanWrite ==
    ASSUME Clean, had = 0, DOMAIN disk = Lba, NEW at, NEW content,
           disk' = disk \/ disk' = [disk EXCEPT ![at] = content],
           \/ at = 1
           \/ content.kind # "header"
           \/ content.crc # crc32(content.from, content.cur, content.arr, content.last, "zero")
    PROVE  \A b \in Lba \ {1} : ~HeaderValid(b)'
<1> SUFFICES ASSUME NEW b \in Lba \ {1} PROVE ~HeaderValid(b)'
  OBVIOUS
<1>1. ~HeaderValid(b)
  BY DEF Clean
<1>2. disk'[b] = disk[b] \/ (b = at /\ disk'[b] = content)
  OBVIOUS
<1> QED
  BY <1>1, <1>2 DEF HeaderValid

\* A sector of its primary table written over leaves the table of the tool and
\* the backup of another one as they are.
LEMMA PrimaryWrite ==
    ASSUME Room, A \in Nat, N \in Nat, N <= MaxLba + 1, DOMAIN disk = Lba,
           UNCHANGED <<N, A, BackupArray, LastUsable, PrimaryHeader, EfiLast>>,
           NEW j \in 0 .. A - 1, NEW b, NEW content,
           \/ b = 1 /\ content = PrimaryHeader
           \/ b = 2 + j /\ content = Entries("tool", j),
           disk' = [disk EXCEPT ![b] = content]
    PROVE  /\ ToolTable => ToolTable'
           /\ OtherBackup => OtherBackup'
           /\ disk'[b] = content
           /\ \A m \in 0 .. A - 1 : b # 2 + m => disk'[2 + m] = disk[2 + m]
           /\ b # 1 => disk'[1] = disk[1]
<1>1. /\ 1 \in Lba /\ N - 1 \in Lba /\ N - 1 > b
      /\ \A m \in 0 .. A - 1 : 2 + m \in Lba /\ BackupArray + m \in Lba /\ BackupArray + m > b
  BY GptAssumption DEF Room, Lba, BackupArray
<1>2. b \in Lba /\ disk'[b] = content /\ \A c \in Lba \ {b} : disk'[c] = disk[c]
  BY <1>1
<1>3. disk'[N - 1] = disk[N - 1] /\ \A m \in 0 .. A - 1 : disk'[BackupArray + m] = disk[BackupArray + m]
  BY <1>1, <1>2
<1>4. OtherBackup => OtherBackup'
  BY <1>3 DEF OtherBackup, Entries
<1>5. \A m \in 0 .. A - 1 : b # 2 + m => disk'[2 + m] = disk[2 + m]
  BY <1>1, <1>2
<1>6. b # 1 => disk'[1] = disk[1]
  BY <1>1, <1>2
<1>7. ToolTable => ToolTable'
  <2>1. SUFFICES ASSUME ToolTable PROVE ToolTable'
    OBVIOUS
  <2>2. disk'[1] = PrimaryHeader
    BY <1>2, <1>6, <2>1 DEF ToolTable
  <2>3. \A m \in 0 .. A - 1 : disk'[2 + m] = Entries("tool", m)
    BY <1>2, <1>5, <2>1 DEF ToolTable
  <2> QED
    BY <2>2, <2>3 DEF ToolTable, Entries
<1> QED
  BY <1>2, <1>4, <1>5, <1>6, <1>7

\* The backup lies behind the primary table.
LEMMA BackupWrite ==
    ASSUME Room, A \in Nat, N \in Nat, N <= MaxLba + 1, DOMAIN disk = Lba,
           UNCHANGED <<N, A, PrimaryHeader, EfiLast>>,
           NEW b \in Nat, BackupArray <= b, b < N, NEW content,
           disk' = [disk EXCEPT ![b] = content]
    PROVE  /\ ToolTable => ToolTable'
           /\ disk'[b] = content
           /\ \A m \in 0 .. A - 1 : BackupArray + m # b
                                       => disk'[BackupArray + m] = disk[BackupArray + m]
<1>1. /\ 1 \in Lba /\ b \in Lba /\ 1 < b
      /\ \A m \in 0 .. A - 1 : 2 + m \in Lba /\ BackupArray + m \in Lba /\ 2 + m < b
  BY GptAssumption DEF Room, Lba, BackupArray
<1>2. disk'[b] = content /\ \A c \in Lba \ {b} : disk'[c] = disk[c]
  BY <1>1
<1>3. disk'[1] = disk[1] /\ \A m \in 0 .. A - 1 : disk'[2 + m] = disk[2 + m]
  BY <1>1, <1>2
<1>4. ToolTable => ToolTable'
  BY <1>3 DEF ToolTable, Entries
<1> QED
  BY <1>1, <1>2, <1>4

-----------------------------------------------------------------------------
\* Every run, every sector, every kill and every other tool preserves it.
LEMMA NextIInv == IInv /\ [Next]_vars => IInv'
<1> SUFFICES ASSUME IInv, [Next]_vars PROVE IInv'
  OBVIOUS
<1>0. Position /\ Progress /\ (had = 1 => Room) /\ Clean
  BY DEF IInv
<1>a. sector_size > 0 => A \in Nat /\ A >= 1 /\ A <= PART_ARRAY_SLOTS
  BY <1>0, ALemma DEF Position
<1>b. /\ N \in Nat /\ k \in Nat /\ pos \in Nat /\ errors \in Nat /\ DOMAIN disk = Lba
      /\ MaxLba \in Nat /\ PART_ARRAY_SLOTS \in Nat /\ 2 * PART_ARRAY_SLOTS + 2 <= MaxLba
      /\ sector_size \in Nat /\ N <= MaxLba + 1 /\ len \in Nat
  BY <1>0, GptAssumption DEF Position
<1>f. OnlyFirst' => ToolTable'
  BY FirstTable, PTL
<1>1. CASE Configure
  <2>1. /\ pc = "start" /\ pc' \in {"trap", "mbr"} /\ (pc' = "mbr" => sector_size > 0)
        /\ N' = len /\ pos' = 0 /\ k' = 0
        /\ UNCHANGED <<sector_size, len, protect, disk, errors, had>>
    BY <1>1, <1>b DEF Configure
  <2>2. Room => N' = N
    BY <1>0, <2>1 DEF Position
  <2>3. Room => Room' /\ A' = A /\ ToolTable' = ToolTable /\ OtherBackup' = OtherBackup
    BY <2>1, <2>2 DEF Room, A, ToolTable, OtherBackup, PrimaryHeader, LastUsable,
       BackupArray, Entries, EfiLast
  <2>4. Position'
    BY <1>0, <1>b, <2>1 DEF Position, Writing, Room
  <2>5. Progress'
    BY <1>0, <2>1, <2>3 DEF Progress, Writing
  <2>6. Clean'
    BY <1>0, <2>1 DEF Clean, HeaderValid
  <2> QED
    BY <1>0, <2>1, <2>3, <2>4, <2>5, <2>6 DEF IInv
<1>2. CASE Die
  <2>1. /\ pc = "start" /\ pc' = "died"
        /\ UNCHANGED <<sector_size, N, len, protect, disk, pos, k, errors, had>>
    BY <1>2 DEF Die
  <2> QED
    BY <1>0, <2>1 DEF IInv, Position, Progress, Writing, Clean, HeaderValid, Room, A,
       ToolTable, OtherBackup, PrimaryHeader, LastUsable, BackupArray, Entries, EfiLast, Base
<1>3. CASE WriteMbr
  <2>1. /\ pc = "mbr" /\ pc' = "primary" /\ protect' = N - 1 /\ sector_size > 0
        /\ len' = IF len < 3 \div sector_size THEN 3 \div sector_size ELSE len
        /\ UNCHANGED <<sector_size, N, disk, pos, k, errors, had>>
    BY <1>0, <1>3 DEF WriteMbr, Position, Writing
  <2>2. 3 \div sector_size \in 0 .. 3
    BY <1>b, <2>1
  <2>3. /\ N <= len' /\ len' <= MaxLba + 1 /\ len' \in Nat
        /\ Room => N = len'
    <3>1. len \in Nat /\ len <= MaxLba + 1 /\ N <= len /\ MaxLba >= 4 /\ (Room => N = len /\ N >= 5)
      BY <1>0, <1>a, <1>b, <2>1, GptAssumption DEF Position, Room
    <3> HIDE DEF Room
    <3>2. PICK d \in 0 .. 3 : len' = IF len < d THEN d ELSE len
      BY <2>1, <2>2
    <3> QED
      BY <1>b, <3>1, <3>2
  <2>4. Position'
    BY <1>0, <2>1, <2>3 DEF Position, Writing, Room, A, Base, BackupArray
  <2> QED
    BY <1>0, <2>1, <2>4 DEF IInv, Progress, Writing, Clean, HeaderValid, Room, A,
       ToolTable, OtherBackup, PrimaryHeader, LastUsable, BackupArray, Entries, EfiLast, Base
<1>4. CASE WriteHeader("primary", "parray", 1, PrimaryHeader)
  <2>1. pc = "primary" /\ pc' = "parray" /\ k' = k /\ Write(1, PrimaryHeader) /\ k = 0
        /\ sector_size > 0
    BY <1>0, <1>4 DEF WriteHeader, Position, Writing
  <2>2. /\ UNCHANGED <<sector_size, N, protect>>
        /\ UNCHANGED <<A, BackupArray, LastUsable, PrimaryHeader, BackupHeader, EfiLast, Base>>
        /\ Room' = Room
        /\ pos' = Seek(1) + 1 /\ Seek(1) \in Nat
        /\ DOMAIN disk' = Lba /\ errors' \in Nat /\ had' \in {0, 1}
        /\ disk' = disk \/ disk' = [disk EXCEPT ![Seek(1)] = PrimaryHeader]
        /\ errors' = 0 => errors = 0 /\ disk' = [disk EXCEPT ![Seek(1)] = PrimaryHeader]
        /\ len' = len \/ (Seek(1) >= len /\ len' \in {Seek(1), Seek(1) + 1})
        /\ had' = IF Room /\ TableThere' THEN 1 ELSE had
    BY <1>0, <2>1, WriteLemma
  <2>3. Seek(1) = 1 /\ PrimaryHeader.kind = "header"
    BY <2>2 DEF Seek, PrimaryHeader, Header, Sector
  <2>4. Position'
    <3>1. N' <= len' /\ len' <= MaxLba + 1 /\ len' \in Nat
      BY <1>0, <1>b, <2>2, <2>3 DEF Position
    <3>2. Room' => N' = len'
      BY <1>0, <1>a, <1>b, <2>1, <2>2, <2>3 DEF Position, Room
    <3> QED
      BY <1>0, <1>a, <1>b, <2>1, <2>2, <2>3, <3>1, <3>2 DEF Position, Writing
  <2>5. had = 0 => \A b \in Lba \ {1} : ~HeaderValid(b)'
    BY <1>0, <1>b, <2>2, <2>3, CleanWrite
  <2>6. Progress'
    <3>1. SUFFICES ASSUME Room, errors' = 0
                   PROVE  disk'[1] = PrimaryHeader /\ protect = N - 1
                          /\ (had' = 1 => ToolTable' \/ OtherBackup')
      BY <1>b, <2>1, <2>2 DEF Progress, Writing
    <3>2. /\ disk'[1] = PrimaryHeader
          /\ (ToolTable => ToolTable') /\ (OtherBackup => OtherBackup')
      BY <1>a, <1>b, <2>1, <2>2, <2>3, <3>1, PrimaryWrite
    <3>3. protect = N - 1 /\ (had = 1 => ToolTable \/ OtherBackup)
      BY <1>0, <2>1, <2>2, <3>1 DEF Progress, Writing
    <3>4. CASE had = 1
      <4>1. ToolTable \/ OtherBackup
        BY <3>3, <3>4
      <4> QED
        BY <3>2, <3>3, <4>1
    <3>5. CASE had = 0
      <4>1. TableThere' => ToolTable'
        BY <1>a, <1>b, <1>f, <2>1, <2>2, <2>5, <3>1, <3>2, <3>5 DEF OnlyFirst
      <4> QED
        BY <2>2, <3>2, <3>3, <3>5, <4>1
    <3> QED
      BY <1>0, <3>4, <3>5 DEF Position
  <2> QED
    BY <1>0, <2>2, <2>4, <2>5, <2>6 DEF IInv, Clean
<1>5. CASE WriteArray("parray", "barray", 2)
  <2> DEFINE at == 2 + k
             content == Entries("tool", k)
  <2>0. content.kind = "array"
    BY DEF Entries, Sector
  <2> HIDE DEF content
  <2>1. /\ pc = "parray" /\ sector_size > 0 /\ k < A /\ (k > 0 => pos = at)
        /\ Write(IF k = 0 THEN 2 ELSE pos, content)
        /\ IF k + 1 = A THEN pc' = "barray" /\ k' = 0 ELSE pc' = "parray" /\ k' = k + 1
    BY <1>0, <1>5 DEF WriteArray, Position, Writing, content
  <2>1a. Write(at, content) /\ at \in Nat
    BY <1>b, <2>1
  <2>2. /\ UNCHANGED <<sector_size, N, protect>>
        /\ UNCHANGED <<A, BackupArray, LastUsable, PrimaryHeader, BackupHeader, EfiLast, Base>>
        /\ Room' = Room
        /\ pos' = Seek(at) + 1 /\ Seek(at) \in Nat
        /\ DOMAIN disk' = Lba /\ errors' \in Nat /\ had' \in {0, 1}
        /\ disk' = disk \/ disk' = [disk EXCEPT ![Seek(at)] = content]
        /\ errors' = 0 => errors = 0 /\ disk' = [disk EXCEPT ![Seek(at)] = content]
        /\ len' = len \/ (Seek(at) >= len /\ len' \in {Seek(at), Seek(at) + 1})
        /\ had' = IF Room /\ TableThere' THEN 1 ELSE had
    BY <1>0, <2>1, <2>1a, WriteLemma
  <2>3. Seek(at) = at /\ at < MaxLba
    BY <1>a, <1>b, <2>1, <2>1a DEF Seek
  <2>4. Position'
    <3>1. N' <= len' /\ len' <= MaxLba + 1 /\ len' \in Nat
      BY <1>0, <1>b, <2>2, <2>3 DEF Position
    <3>2. Room' => N' = len'
      BY <1>0, <1>a, <1>b, <2>1, <2>2, <2>3 DEF Position, Room
    <3> QED
      BY <1>0, <1>a, <1>b, <2>1, <2>2, <2>3, <3>1, <3>2 DEF Position, Writing
  <2>5. had = 0 => \A b \in Lba \ {1} : ~HeaderValid(b)'
    BY <1>0, <1>b, <2>0, <2>2, CleanWrite
  <2>6. Progress'
    <3>1. CASE Room /\ errors' = 0
      <4>1. disk[1] = PrimaryHeader /\ protect = N - 1 /\ (had = 1 => ToolTable \/ OtherBackup)
            /\ \A j \in 0 .. k - 1 : disk[2 + j] = Entries("tool", j)
        BY <1>0, <2>1, <2>2, <3>1 DEF Progress, Writing
      <4>2. k \in 0 .. A - 1 /\ 2 + k # 1
        BY <1>a, <1>b, <2>1
      <4>3. /\ (ToolTable => ToolTable') /\ (OtherBackup => OtherBackup')
            /\ disk'[2 + k] = Entries("tool", k)
            /\ \A m \in 0 .. A - 1 : 2 + k # 2 + m => disk'[2 + m] = disk[2 + m]
            /\ disk'[1] = disk[1]
        BY <1>a, <1>b, <2>1, <2>2, <2>3, <3>1, <4>2, PrimaryWrite DEF content
      <4>4. \A j \in 0 .. k : disk'[2 + j] = Entries("tool", j)
        <5>1. TAKE j \in 0 .. k
        <5>2. CASE j = k
          BY <4>3, <5>2
        <5>3. CASE j \in 0 .. k - 1
          <6>1. j \in 0 .. A - 1 /\ 2 + k # 2 + j
            BY <1>a, <1>b, <2>1, <5>3
          <6> QED
            BY <4>1, <4>3, <5>3, <6>1
        <5> QED
          BY <1>b, <5>2, <5>3
      <4>5. disk'[1] = PrimaryHeader' /\ \A j \in 0 .. k : disk'[2 + j] = Entries("tool", j)'
        BY <2>2, <4>1, <4>3, <4>4 DEF Entries
      <4>6. k + 1 = A => ToolTable'
        BY <1>a, <1>b, <2>2, <4>5 DEF ToolTable
      <4>7. had' = 1 => ToolTable' \/ OtherBackup'
        <5>1. CASE had = 1
          <6>1. ToolTable \/ OtherBackup
            BY <4>1, <5>1
          <6> QED
            BY <4>3, <6>1
        <5>2. CASE had = 0
          BY <1>a, <1>b, <1>f, <2>1, <2>2, <2>5, <3>1, <4>5, <5>2 DEF OnlyFirst
        <5> QED
          BY <1>0, <5>1, <5>2 DEF Position
      <4> QED
        BY <1>a, <1>b, <2>1, <2>2, <4>1, <4>5, <4>6, <4>7 DEF Progress, Writing
    <3> QED
      BY <2>2, <3>1 DEF Progress
  <2> QED
    BY <1>0, <2>2, <2>4, <2>5, <2>6 DEF IInv, Clean
<1>6. CASE WriteArray("barray", "bheader", BackupArray)
  <2> DEFINE lba == IF k = 0 THEN BackupArray ELSE pos
             content == Entries("tool", k)
  <2>0. content.kind = "array"
    BY DEF Entries, Sector
  <2> HIDE DEF content
  <2>1. /\ pc = "barray" /\ sector_size > 0 /\ k < A /\ pos = (IF k = 0 THEN 2 + A ELSE Base + k)
        /\ Write(lba, content)
        /\ IF k + 1 = A THEN pc' = "bheader" /\ k' = 0 ELSE pc' = "barray" /\ k' = k + 1
    BY <1>0, <1>6 DEF WriteArray, Position, Writing, content
  <2>1a. A \in Nat /\ BackupArray \in Int /\ lba \in Int
    BY <1>a, <1>b, <2>1 DEF BackupArray
  <2>1b. Seek(lba) = Base + k /\ Base \in Nat
    BY <1>b, <2>1, <2>1a DEF Seek, Base
  <2> HIDE DEF lba
  <2>2. /\ UNCHANGED <<sector_size, N, protect>>
        /\ UNCHANGED <<A, BackupArray, LastUsable, PrimaryHeader, BackupHeader, EfiLast, Base>>
        /\ Room' = Room
        /\ pos' = Seek(lba) + 1 /\ Seek(lba) \in Nat
        /\ DOMAIN disk' = Lba /\ errors' \in Nat /\ had' \in {0, 1}
        /\ disk' = disk \/ disk' = [disk EXCEPT ![Seek(lba)] = content]
        /\ errors' = 0 => errors = 0 /\ disk' = [disk EXCEPT ![Seek(lba)] = content]
        /\ len' = len \/ (Seek(lba) >= len /\ len' \in {Seek(lba), Seek(lba) + 1})
        /\ had' = IF Room /\ TableThere' THEN 1 ELSE had
    BY <1>0, <2>1, <2>1a, WriteLemma
  <2>3. Base + k < MaxLba
    BY <1>a, <1>b, <2>1 DEF Base, BackupArray
  <2>3a. Room => Base = BackupArray /\ BackupArray + k < N - 1 /\ N = len
    BY <1>0, <1>a, <1>b, <2>1 DEF Base, BackupArray, Room, Position
  <2>4. Position'
    <3>1. N' <= len' /\ len' <= MaxLba + 1 /\ len' \in Nat
      BY <1>0, <1>b, <2>1b, <2>2, <2>3 DEF Position
    <3>2. Room' => N' = len'
      BY <1>b, <2>1b, <2>2, <2>3a
    <3> QED
      BY <1>0, <1>a, <1>b, <2>1, <2>1b, <2>2, <2>3, <3>1, <3>2 DEF Position, Writing
  <2>5. had = 0 => \A b \in Lba \ {1} : ~HeaderValid(b)'
    BY <1>0, <1>b, <2>0, <2>2, CleanWrite
  <2>6. Progress'
    <3>1. CASE Room /\ errors' = 0
      <4>1. ToolTable /\ protect = N - 1
            /\ \A j \in 0 .. k - 1 : disk[BackupArray + j] = Entries("tool", j)
        BY <1>0, <2>1, <2>2, <3>1 DEF Progress, Writing
      <4>2. /\ ToolTable' /\ disk'[BackupArray + k] = Entries("tool", k)
            /\ \A m \in 0 .. A - 1 : BackupArray + m # BackupArray + k
                                        => disk'[BackupArray + m] = disk[BackupArray + m]
        <5>1. /\ BackupArray + k \in Nat /\ BackupArray <= BackupArray + k /\ BackupArray + k < N
              /\ disk' = [disk EXCEPT ![BackupArray + k] = content]
          BY <1>b, <2>1b, <2>1a, <2>2, <2>3a, <3>1
        <5> QED
          BY <1>a, <1>b, <2>1, <2>2, <3>1, <4>1, <5>1, BackupWrite DEF content
      <4>4. \A j \in 0 .. k : disk'[BackupArray + j] = Entries("tool", j)
        <5>1. TAKE j \in 0 .. k
        <5>2. CASE j = k
          BY <4>2, <5>2
        <5>3. CASE j \in 0 .. k - 1
          <6>1. j \in 0 .. A - 1 /\ BackupArray + j # BackupArray + k
            BY <1>b, <2>1, <2>1a, <5>3
          <6> QED
            BY <4>1, <4>2, <5>3, <6>1
        <5> QED
          BY <1>b, <5>2, <5>3
      <4>5. \A j \in 0 .. k : disk'[BackupArray' + j] = Entries("tool", j)'
        BY <2>2, <4>4 DEF Entries
      <4> QED
        BY <1>a, <1>b, <2>1, <2>1a, <2>2, <4>1, <4>2, <4>5 DEF Progress, Writing
    <3> QED
      BY <2>2, <3>1 DEF Progress
  <2> QED
    BY <1>0, <2>2, <2>4, <2>5, <2>6 DEF IInv, Clean
<1>7. CASE WriteHeader("bheader", "exit", N - 1, BackupHeader)
  <2>1. pc = "bheader" /\ pc' = "exit" /\ k' = k /\ Write(N - 1, BackupHeader) /\ sector_size > 0
        /\ N - 1 \in Int
    BY <1>0, <1>b, <1>7 DEF WriteHeader, Position, Writing
  <2>2. /\ UNCHANGED <<sector_size, N, protect>>
        /\ UNCHANGED <<A, BackupArray, LastUsable, PrimaryHeader, BackupHeader, EfiLast, Base>>
        /\ Room' = Room
        /\ pos' = Seek(N - 1) + 1 /\ Seek(N - 1) \in Nat
        /\ DOMAIN disk' = Lba /\ errors' \in Nat /\ had' \in {0, 1}
        /\ disk' = disk \/ disk' = [disk EXCEPT ![Seek(N - 1)] = BackupHeader]
        /\ errors' = 0 => errors = 0 /\ disk' = [disk EXCEPT ![Seek(N - 1)] = BackupHeader]
        /\ len' = len \/ (Seek(N - 1) >= len /\ len' \in {Seek(N - 1), Seek(N - 1) + 1})
        /\ had' = IF Room /\ TableThere' THEN 1 ELSE had
    BY <1>0, <2>1, WriteLemma
  <2>3. /\ BackupHeader.kind = "header"
        /\ BackupHeader.crc # crc32(BackupHeader.from, BackupHeader.cur, BackupHeader.arr,
                                    BackupHeader.last, "zero")
    BY <2>2 DEF BackupHeader, Header, Sector, crc32
  <2>4. Position'
    <3>0. Seek(N - 1) <= MaxLba /\ (Room => Seek(N - 1) = N - 1 /\ N = len)
      BY <1>0, <1>a, <1>b, <2>1 DEF Position, Room, Seek
    <3>1. N' <= len' /\ len' <= MaxLba + 1 /\ len' \in Nat
      BY <1>0, <1>b, <2>2, <3>0 DEF Position
    <3>2. Room' => N' = len'
      BY <1>b, <2>2, <3>0
    <3> QED
      BY <1>0, <1>b, <2>1, <2>2, <2>3, <3>1, <3>2 DEF Position, Writing
  <2>5. had = 0 => \A b \in Lba \ {1} : ~HeaderValid(b)'
    BY <1>0, <1>b, <2>2, <2>3, CleanWrite
  <2>6. Progress'
    <3>1. CASE Room /\ errors' = 0
      <4>1. ToolTable /\ protect = N - 1
            /\ \A j \in 0 .. A - 1 : disk[BackupArray + j] = Entries("tool", j)
        BY <1>0, <2>1, <2>2, <3>1 DEF Progress, Writing
      <4>2. /\ N - 1 \in Nat /\ BackupArray <= N - 1 /\ N - 1 < N /\ Seek(N - 1) = N - 1
            /\ \A m \in 0 .. A - 1 : BackupArray + m # N - 1
        BY <1>a, <1>b, <2>1, <3>1 DEF Room, BackupArray, Seek
      <4>3. disk' = [disk EXCEPT ![N - 1] = BackupHeader]
        BY <2>2, <3>1, <4>2
      <4>4. /\ ToolTable' /\ disk'[N - 1] = BackupHeader
            /\ \A m \in 0 .. A - 1 : disk'[BackupArray + m] = disk[BackupArray + m]
        BY <1>a, <1>b, <2>1, <2>2, <3>1, <4>1, <4>2, <4>3, BackupWrite
      <4>5. \A j \in 0 .. A - 1 : disk'[BackupArray + j] = Entries("tool", j)'
        BY <2>2, <4>1, <4>4 DEF Entries
      <4> QED
        BY <2>1, <2>2, <4>1, <4>4, <4>5 DEF Progress, Writing
    <3> QED
      BY <2>2, <3>1 DEF Progress
  <2> QED
    BY <1>0, <2>2, <2>4, <2>5, <2>6 DEF IInv, Clean
<1>8. CASE Kill
  <2>1. /\ Writing /\ pc' = "killed"
        /\ UNCHANGED <<sector_size, N, len, protect, disk, pos, k, errors, had>>
    BY <1>8 DEF Kill, Writing
  <2> QED
    BY <1>0, <2>1 DEF IInv, Position, Progress, Writing, Clean, HeaderValid, Room, A,
       ToolTable, OtherBackup, PrimaryHeader, LastUsable, BackupArray, Entries, EfiLast, Base
<1>9. CASE Again
  <2>1. /\ pc' = "start" /\ UNCHANGED <<sector_size, N, len, protect, pos, k, errors>>
        /\ (UNCHANGED <<disk, had>> \/ (Room /\ disk' = OtherTable /\ had' = 1))
    BY <1>9 DEF Again
  <2>2. Room' = Room /\ A' = A /\ BackupArray' = BackupArray /\ LastUsable' = LastUsable
    BY <2>1 DEF Room, A, BackupArray, LastUsable
  <2>3. CASE UNCHANGED <<disk, had>>
    BY <1>0, <2>1, <2>3 DEF IInv, Position, Progress, Writing, Clean, HeaderValid, Room, A,
       ToolTable, OtherBackup, PrimaryHeader, LastUsable, BackupArray, Entries, EfiLast, Base
  <2>4. CASE Room /\ disk' = OtherTable /\ had' = 1
    <3>1. OtherBackup'
      <4>1. A \in Nat /\ A >= 1
        BY <1>a, <1>b, <2>4 DEF Room
      <4>2. /\ N - 1 \in Lba /\ N - 1 # 1 /\ N - 1 \notin 2 .. A + 1
            /\ N - 1 \notin BackupArray .. N - 2
            /\ \A j \in 0 .. A - 1 : /\ BackupArray + j \in Lba
                                     /\ BackupArray + j \in BackupArray .. N - 2
                                     /\ BackupArray + j # 1 /\ BackupArray + j \notin 2 .. A + 1
                                     /\ BackupArray + j - BackupArray = j
        BY <1>b, <2>4, <4>1 DEF Room, BackupArray, Lba
      <4>3. /\ disk'[N - 1] = Header("other", N - 1, BackupArray, LastUsable, "zero")
            /\ \A j \in 0 .. A - 1 : disk'[BackupArray + j] = Entries("other", j)
        <5>1. \A b \in Lba : b \in BackupArray .. N - 2 /\ b # 1 /\ b \notin 2 .. A + 1
                             => disk'[b] = Entries("other", b - BackupArray)
          BY <2>4 DEF OtherTable
        <5>2. disk'[N - 1] = Header("other", N - 1, BackupArray, LastUsable, "zero")
          BY <2>4, <4>2 DEF OtherTable
        <5>3. ASSUME NEW j \in 0 .. A - 1 PROVE disk'[BackupArray + j] = Entries("other", j)
          <6> DEFINE b == BackupArray + j
          <6>1. /\ b \in Lba /\ b \in BackupArray .. N - 2 /\ b # 1 /\ b \notin 2 .. A + 1
                /\ b - BackupArray = j
            BY <1>b, <2>4, <4>1 DEF Room, BackupArray, Lba
          <6> HIDE DEF b
          <6>2. disk'[b] = Entries("other", b - BackupArray)
            BY <5>1, <6>1
          <6> QED
            BY <6>1, <6>2 DEF b
        <5> QED
          BY <5>2, <5>3
      <4>4. EfiLast' = EfiLast /\ N' = N
        BY <2>1 DEF EfiLast
      <4>5. \A j \in 0 .. A - 1 : disk'[BackupArray + j] = Entries("other", j)'
        BY <4>3, <4>4 DEF Entries
      <4>6. /\ disk'[N - 1] = Header("other", N - 1, BackupArray, LastUsable, "zero")'
        BY <2>2, <4>3, <4>4 DEF Header, Sector, crc32
      <4> QED
        BY <2>2, <4>4, <4>5, <4>6 DEF OtherBackup
    <3>2. Position'
      BY <1>0, <2>1, <2>2, <2>4 DEF Position, Writing, OtherTable
    <3>3. Progress' /\ Clean'
      BY <2>1, <2>4, <3>1 DEF Progress, Clean, Writing
    <3> QED
      BY <2>2, <2>4, <3>2, <3>3 DEF IInv
  <2> QED
    BY <2>1, <2>3, <2>4
<1>10. CASE UNCHANGED vars
  BY <1>0, <1>10 DEF vars, IInv, Position, Progress, Writing, Clean, HeaderValid, Room, A,
     ToolTable, OtherBackup, PrimaryHeader, BackupHeader, LastUsable, BackupArray, Entries,
     EfiLast, Base
<1> QED
  BY <1>1, <1>2, <1>3, <1>4, <1>5, <1>6, <1>7, <1>8, <1>9, <1>10 DEF Next, WriteGpt

\* For every image, sector size and array, and for any runs of the tool, killed
\* between any two sectors: a disk that has had a table has one, and a run that
\* ends without an error leaves both arrays, both headers and the MBR in place.
THEOREM Safety == Spec => [](Recoverable /\ TableComplete)
<1>1. IInv => Recoverable
  BY ToolTableValid, OtherBackupValid DEF IInv, Progress, Recoverable, TableThere
<1>2. IInv => TableComplete
  <2> SUFFICES ASSUME IInv, pc = "exit", errors = 0, Room
               PROVE  /\ Valid(1) /\ disk[1].from = "tool"
                      /\ \A j \in 0 .. A - 1 : disk[2 + j] = disk[BackupArray + j]
                      /\ disk[N - 1].kind = "header" /\ disk[N - 1].arr = BackupArray
                      /\ protect = N - 1
    BY DEF TableComplete
  <2>1. /\ ToolTable /\ disk[N - 1] = BackupHeader /\ protect = N - 1
        /\ \A j \in 0 .. A - 1 : disk[BackupArray + j] = Entries("tool", j)
    BY DEF IInv, Progress, Writing
  <2>2. disk[1].from = "tool" /\ Valid(1)
    BY <2>1, ToolTableValid DEF ToolTable, PrimaryHeader, Header, Sector
  <2>3. disk[N - 1].kind = "header" /\ disk[N - 1].arr = BackupArray
    BY <2>1 DEF BackupHeader, Header, Sector
  <2> QED
    BY <2>1, <2>2, <2>3 DEF ToolTable
<1> QED
  BY InitIInv, NextIInv, <1>1, <1>2, PTL DEF Spec

-----------------------------------------------------------------------------
\* An image without room for two tables stays one: whatever a run writes past
\* its end, it does not grow to the size at which there is room.
Small ==
    sector_size > 0 /\ ~Room =>
        len < 2 * A + 3 /\ (pc = "bheader" => pos <= 2 * A + 2)

\* A header of the tool in the first sector is the one that a run of today
\* writes there.
Named == Room /\ disk[1].kind = "header" /\ disk[1].from = "tool" => disk[1] = PrimaryHeader

UInv == TypeOK /\ Small /\ Named /\ (pc = "bheader" => k = 0)

\* What a write of the tool does, wherever main has got to: at most one sector
\* changes, in the order of main the first one only to the header of this run,
\* and a write past the end of an image without room ends in front of sector
\* 2 * A + 3.
LEMMA OneWrite ==
    ASSUME IInv, UInv, WriteGpt
    PROVE  /\ sector_size > 0 /\ UNCHANGED <<sector_size, N, protect, runs, A, PrimaryHeader>>
           /\ Room' = Room
           /\ pc' \in {"parray", "barray", "bheader", "exit"} /\ k' \in 0 .. A - 1
           /\ pos' \in Nat /\ DOMAIN disk' = Lba /\ had' \in {0, 1}
           /\ len' \in Nat /\ len' <= MaxLba + 1 /\ errors' \in 0 .. MaxErrors
           /\ \E at \in Nat : \E content :
                 /\ disk' = disk \/ disk' = [disk EXCEPT ![at] = content]
                 /\ Room => at # 1 \/ content = PrimaryHeader
                 /\ len' = len \/ len' <= at \/ (content.kind = "array" /\ len' <= at + 1)
                 /\ ~Room => at <= 2 * A + 2 /\ (content.kind = "array" => at < 2 * A + 2)
                 /\ pos' = at + 1
                 /\ pc' = "bheader" => content.kind = "array"
<1> DEFINE Written(at, content) ==
        /\ disk' = disk \/ disk' = [disk EXCEPT ![at] = content]
        /\ Room => at # 1 \/ content = PrimaryHeader
        /\ len' = len \/ len' <= at \/ (content.kind = "array" /\ len' <= at + 1)
        /\ ~Room => at <= 2 * A + 2 /\ (content.kind = "array" => at < 2 * A + 2)
        /\ pos' = at + 1
        /\ pc' = "bheader" => content.kind = "array"
<1>1. Position /\ IInv'
  BY NextIInv DEF IInv, Next
<1>2. /\ N \in Nat /\ k \in Nat /\ pos \in Nat /\ sector_size > 0
      /\ len \in Nat /\ sector_size \in SectorSizes
  <2>1. Writing
    BY DEF WriteGpt, WriteArray, WriteHeader, Writing
  <2> QED
    BY <1>1, <2>1 DEF Position
<1>3. A \in Nat /\ A >= 1 /\ A <= PART_ARRAY_SLOTS
  BY <1>2, ALemma
<1>4. /\ len' \in Nat /\ len' <= MaxLba + 1 /\ pos' \in Nat
      /\ DOMAIN disk' = Lba /\ had' \in {0, 1} /\ errors' \in Nat
  BY <1>1 DEF IInv, Position
<1>5. ASSUME NEW lba \in Int, NEW content, Write(lba, content)
      PROVE  /\ UNCHANGED <<sector_size, N, protect, runs, A, PrimaryHeader>> /\ Room' = Room
             /\ disk' = disk \/ disk' = [disk EXCEPT ![Seek(lba)] = content]
             /\ errors' \in 0 .. MaxErrors
             /\ Seek(lba) \in Nat /\ pos' = Seek(lba) + 1
             /\ \/ len' = len \/ len' <= Seek(lba)
                \/ content.kind = "array" /\ len' <= Seek(lba) + 1
  <2>1. /\ UNCHANGED <<sector_size, N, protect, A, PrimaryHeader>> /\ Room' = Room
        /\ disk' = disk \/ disk' = [disk EXCEPT ![Seek(lba)] = content]
        /\ Seek(lba) \in Nat /\ pos' = Seek(lba) + 1
    BY <1>1, <1>2, <1>5, WriteLemma
  <2>2. runs' = runs
    BY <1>5 DEF Write
  <2>3. errors' \in 0 .. MaxErrors
    BY <1>5, GptAssumption DEF Write, UInv, TypeOK
  <2>4. \/ len' = len \/ len' <= Seek(lba)
        \/ content.kind = "array" /\ len' <= Seek(lba) + 1
    BY <1>2, <1>5, <2>1 DEF Write
  <2> QED
    BY <2>1, <2>2, <2>3, <2>4
<1>6. CASE WriteHeader("primary", "parray", 1, PrimaryHeader)
  <2>1. Write(1, PrimaryHeader) /\ pc' = "parray" /\ k' = k /\ Seek(1) = 1 /\ k = 0
    BY <1>1, <1>6 DEF WriteHeader, Position, Seek
  <2>2. PrimaryHeader.kind = "header"
    BY DEF PrimaryHeader, Header, Sector
  <2>3. Written(1, PrimaryHeader)
    BY <1>2, <1>3, <1>5, <2>1, <2>2
  <2> QED
    BY <1>2, <1>3, <1>4, <1>5, <2>1, <2>3
<1>7. CASE WriteArray("parray", "barray", 2)
  <2>1. /\ pc = "parray" /\ k < A /\ (k > 0 => pos = 2 + k)
        /\ Write(IF k = 0 THEN 2 ELSE pos, Entries("tool", k))
        /\ IF k + 1 = A THEN pc' = "barray" /\ k' = 0 ELSE pc' = "parray" /\ k' = k + 1
    BY <1>1, <1>7 DEF WriteArray, Position
  <2>2. Write(2 + k, Entries("tool", k)) /\ Seek(2 + k) = 2 + k
    BY <1>2, <2>1 DEF Seek
  <2>3. Entries("tool", k).kind = "array"
    BY DEF Entries, Sector
  <2>4. Written(2 + k, Entries("tool", k))
    BY <1>2, <1>3, <1>5, <2>1, <2>2, <2>3
  <2> QED
    BY <1>2, <1>3, <1>4, <1>5, <2>1, <2>2, <2>4
<1>8. CASE WriteArray("barray", "bheader", BackupArray)
  <2> DEFINE lba == IF k = 0 THEN BackupArray ELSE pos
  <2>1. /\ pc = "barray" /\ k < A /\ pos = (IF k = 0 THEN 2 + A ELSE Base + k)
        /\ Write(lba, Entries("tool", k))
        /\ IF k + 1 = A THEN pc' = "bheader" /\ k' = 0 ELSE pc' = "barray" /\ k' = k + 1
    BY <1>1, <1>8 DEF WriteArray, Position
  <2>2. lba \in Int /\ Seek(lba) = Base + k /\ Base \in Nat
    BY <1>2, <1>3, <2>1 DEF Seek, Base, BackupArray
  <2>3. Entries("tool", k).kind = "array"
    BY DEF Entries, Sector
  <2>4. Room => Base + k # 1
    BY <1>2, <1>3, <2>1 DEF Room, Base, BackupArray
  <2>5. ~Room => Base + k < 2 * A + 2
    BY <1>2, <1>3, <2>1 DEF Room, Base, BackupArray
  <2> HIDE DEF lba
  <2>6. Written(Base + k, Entries("tool", k))
    BY <1>2, <1>3, <1>5, <2>1, <2>2, <2>3, <2>4, <2>5
  <2> QED
    BY <1>2, <1>3, <1>4, <1>5, <2>1, <2>2, <2>6
<1>9. CASE WriteHeader("bheader", "exit", N - 1, BackupHeader)
  <2>1. Write(N - 1, BackupHeader) /\ pc' = "exit" /\ k' = k /\ pc = "bheader"
    BY <1>9 DEF WriteHeader
  <2>2. BackupHeader.kind = "header"
    BY DEF BackupHeader, Header, Sector
  <2>3. Room => Seek(N - 1) # 1
    BY <1>2, <1>3 DEF Room, Seek
  <2>4. ~Room => Seek(N - 1) <= 2 * A + 2
    BY <1>2, <1>3, <2>1 DEF Seek, UInv, Small, Room
  <2>5. N - 1 \in Int
    BY <1>2
  <2>6. Written(Seek(N - 1), BackupHeader)
    BY <1>2, <1>3, <1>5, <2>1, <2>2, <2>3, <2>4, <2>5
  <2>7. k \in 0 .. A - 1
    BY <1>3, <2>1 DEF UInv
  <2> QED
    BY <1>2, <1>3, <1>4, <1>5, <2>1, <2>5, <2>6, <2>7
<1> QED
  BY <1>6, <1>7, <1>8, <1>9 DEF WriteGpt

LEMMA InitUInv == Init => UInv
<1> SUFFICES ASSUME Init PROVE UInv
  OBVIOUS
<1>1. /\ len \in 0 .. MaxLba + 1 /\ N = len /\ MaxLba \in Nat /\ PART_ARRAY_SLOTS \in Nat \ {0}
      /\ sector_size \in SectorSizes /\ MaxRuns \in Nat /\ MaxErrors \in Nat
  BY GptAssumption DEF Init
<1>2. DOMAIN disk = Lba /\ had \in {0, 1} /\ disk[1].from # "tool"
  BY <1>1, GptAssumption DEF Init, OtherTable, Blank, Header, Sector, Room, Lba
<1>3. TypeOK
  BY <1>1, <1>2 DEF Init, TypeOK
<1>4. Small
  <2> SUFFICES ASSUME sector_size > 0, ~Room PROVE len < 2 * A + 3
    BY DEF Init, Small
  <2>1. A \in Nat
    BY <1>1, ALemma
  <2> QED
    BY <1>1, <2>1 DEF Room
<1> QED
  BY <1>2, <1>3, <1>4 DEF Init, UInv, Named

LEMMA NextUInv == IInv /\ UInv /\ [Next]_vars => UInv'
<1> SUFFICES ASSUME IInv, UInv, [Next]_vars PROVE UInv'
  OBVIOUS
<1>1. /\ MaxLba \in Nat /\ PART_ARRAY_SLOTS \in Nat \ {0} /\ MaxRuns \in Nat /\ MaxErrors \in Nat
      /\ 2 * PART_ARRAY_SLOTS + 2 <= MaxLba
  BY GptAssumption
<1>2. /\ TypeOK /\ Small /\ Named /\ (pc = "bheader" => k = 0) /\ N <= len
      /\ (Room => N = len) /\ (Writing => sector_size > 0) /\ sector_size \in Nat
  BY GptAssumption DEF UInv, IInv, Position
<1>3. sector_size > 0 => A \in Nat /\ A >= 1 /\ A <= PART_ARRAY_SLOTS
  BY <1>2, ALemma DEF TypeOK
<1>4. CASE Configure
  <2>1. /\ pc' \in {"trap", "mbr"} /\ N' = len /\ pos' = 0 /\ k' = 0 /\ runs' = runs + 1
        /\ runs < MaxRuns /\ UNCHANGED <<sector_size, len, protect, disk, errors, had>>
    BY <1>4 DEF Configure
  <2>2. A' = A /\ (Room => Room' /\ N' = N)
    BY <1>2, <2>1 DEF A, Room
  <2>3. TypeOK'
    BY <1>1, <1>2, <2>1 DEF TypeOK
  <2>4. sector_size > 0 /\ ~Room => ~Room'
    BY <1>2, <1>3, <2>1, <2>2 DEF Small, Room, TypeOK
  <2>5. Small'
    BY <1>2, <1>3, <2>1, <2>2 DEF Small
  <2>6. Room' => Room
    BY <1>2, <2>1, <2>2, <2>4 DEF Room, TypeOK
  <2>7. Named'
    BY <1>2, <2>1, <2>2, <2>6 DEF Named, PrimaryHeader, LastUsable
  <2> QED
    BY <2>1, <2>3, <2>5, <2>7 DEF UInv
<1>5. CASE WriteMbr
  <2>1. /\ pc = "mbr" /\ pc' = "primary" /\ protect' = N - 1 /\ sector_size > 0
        /\ len' = IF len < 3 \div sector_size THEN 3 \div sector_size ELSE len
        /\ UNCHANGED <<sector_size, N, disk, pos, k, runs, errors, had>>
    BY <1>2, <1>5 DEF WriteMbr, Writing
  <2>2. A' = A /\ Room' = Room /\ PrimaryHeader' = PrimaryHeader
    BY <2>1 DEF A, Room, PrimaryHeader, LastUsable
  <2>3. 3 \div sector_size \in 0 .. 3
    BY <1>2, <2>1
  <2>4. len' \in Nat /\ (len' = len \/ len' <= 3)
    BY <1>2, <2>1, <2>3 DEF TypeOK
  <2>5. TypeOK'
    BY <1>1, <1>2, <1>3, <2>1, <2>4 DEF TypeOK
  <2>6. Small' /\ Named'
    BY <1>2, <1>3, <2>1, <2>2, <2>4 DEF Small, Named
  <2> QED
    BY <2>1, <2>5, <2>6 DEF UInv
<1>6. CASE WriteGpt
  <2>1. /\ sector_size > 0 /\ UNCHANGED <<sector_size, N, protect, runs, A, PrimaryHeader>>
        /\ Room' = Room
        /\ pc' \in {"parray", "barray", "bheader", "exit"} /\ k' \in 0 .. A - 1
        /\ pos' \in Nat /\ DOMAIN disk' = Lba /\ had' \in {0, 1}
        /\ len' \in Nat /\ len' <= MaxLba + 1 /\ errors' \in 0 .. MaxErrors
    BY <1>6, OneWrite
  <2>0. PICK at \in Nat : \E content :
              /\ disk' = disk \/ disk' = [disk EXCEPT ![at] = content]
              /\ Room => at # 1 \/ content = PrimaryHeader
              /\ len' = len \/ len' <= at \/ (content.kind = "array" /\ len' <= at + 1)
              /\ ~Room => at <= 2 * A + 2 /\ (content.kind = "array" => at < 2 * A + 2)
              /\ pos' = at + 1
              /\ pc' = "bheader" => content.kind = "array"
    BY <1>6, OneWrite
  <2>2. PICK content :
           /\ disk' = disk \/ disk' = [disk EXCEPT ![at] = content]
           /\ Room => at # 1 \/ content = PrimaryHeader
           /\ len' = len \/ len' <= at \/ (content.kind = "array" /\ len' <= at + 1)
           /\ ~Room => at <= 2 * A + 2 /\ (content.kind = "array" => at < 2 * A + 2)
           /\ pos' = at + 1
           /\ pc' = "bheader" => content.kind = "array"
    BY <2>0
  <2>3. TypeOK'
    BY <1>1, <1>2, <1>3, <2>1 DEF TypeOK
  <2>4. Small'
    BY <1>2, <1>3, <2>1, <2>2 DEF Small
  <2>5. Named'
    <3>1. Room => disk'[1] = disk[1] \/ disk'[1] = PrimaryHeader
      <4>1. 1 \in DOMAIN disk
        BY <1>1, <1>2 DEF TypeOK, Lba
      <4> QED
        BY <2>2, <4>1
    <3> QED
      BY <1>2, <2>1, <3>1 DEF Named
  <2>6. pc' = "bheader" => k' = 0
    BY <1>6 DEF WriteGpt, WriteArray, WriteHeader
  <2> QED
    BY <2>3, <2>4, <2>5, <2>6 DEF UInv
<1>7. CASE Die \/ Kill
  <2>1. /\ pc' \in {"died", "killed"} /\ runs' \in 0 .. MaxRuns
        /\ UNCHANGED <<sector_size, N, len, protect, disk, pos, k, errors, had>>
    BY <1>1, <1>2, <1>7 DEF Die, Kill, TypeOK
  <2>2. A' = A /\ Room' = Room /\ PrimaryHeader' = PrimaryHeader
    BY <2>1 DEF A, Room, PrimaryHeader, LastUsable
  <2> QED
    BY <1>2, <2>1, <2>2 DEF UInv, TypeOK, Small, Named
<1>8. CASE Again
  <2>1. /\ pc' = "start" /\ UNCHANGED <<sector_size, N, len, protect, pos, k, runs, errors>>
        /\ (UNCHANGED <<disk, had>> \/ (Room /\ disk' = OtherTable /\ had' = 1))
    BY <1>8 DEF Again
  <2>2. A' = A /\ Room' = Room /\ PrimaryHeader' = PrimaryHeader
    BY <2>1 DEF A, Room, PrimaryHeader, LastUsable
  <2>3. disk' = disk \/ (DOMAIN disk' = Lba /\ disk'[1].from # "tool")
    BY <1>1, <2>1 DEF OtherTable, Header, Sector, Lba
  <2> QED
    BY <1>2, <2>1, <2>2, <2>3 DEF UInv, TypeOK, Small, Named
<1>9. CASE UNCHANGED vars
  BY <1>2, <1>9 DEF vars, UInv, TypeOK, Small, Named, Room, A, PrimaryHeader, LastUsable
<1> QED
  BY <1>4, <1>5, <1>6, <1>7, <1>8, <1>9 DEF Next

\* Whatever is killed and run again, the sectors the table of the tool calls
\* usable belong to no copy of it, and its partition lies among them where the
\* image has room for it.
THEOREM UsableSectors == Spec => [](TypeOK /\ UsableFree)
<1>1. UInv /\ IInv => UsableFree
  <2> SUFFICES ASSUME UInv, IInv, Room, sector_size >= 4,
                      disk[1].kind = "header", disk[1].from = "tool"
               PROVE  /\ A + 1 < PART_DATA_LBA /\ disk[1].last < BackupArray
                      /\ (/\ disk[2] = Entries("tool", 0)
                          /\ N > 2 * PART_DATA_LBA + EFI_SYSTEM_PART \div sector_size)
                         => disk[2].last <= disk[1].last
    BY DEF UsableFree
  <2>1. sector_size \in SectorSizes /\ N \in Nat /\ sector_size \in Nat
    BY GptAssumption DEF UInv, TypeOK
  <2>2. A \in Nat /\ A >= 1 /\ PART_ARRAY_SLOTS \in Nat /\ PART_DATA_LBA = 2 + PART_ARRAY_SLOTS \div 4
    BY <2>1, ALemma, GptAssumption
  <2>3. sector_size * A = PART_ARRAY_SLOTS
    BY <2>1, GptAssumption DEF A
  <2>4. 4 * A <= PART_ARRAY_SLOTS
    BY <2>1, <2>2, <2>3
  <2>5. A <= PART_ARRAY_SLOTS \div 4 /\ PART_ARRAY_SLOTS \div 4 \in Nat
    <3> HIDE DEF A
    <3> QED
      BY <2>2, <2>4
  <2>6. disk[1].last = N - PART_DATA_LBA
    BY DEF UInv, Named, PrimaryHeader, Header, Sector, LastUsable
  <2>7. disk[2] = Entries("tool", 0) =>
           disk[2].last = PART_DATA_LBA + EFI_SYSTEM_PART \div sector_size
    BY DEF Entries, EfiLast, Sector
  <2>8. EFI_SYSTEM_PART \div sector_size \in Nat
    BY <2>1, GptAssumption
  <2> QED
    BY <2>1, <2>2, <2>5, <2>6, <2>7, <2>8 DEF BackupArray
<1>2. UInv => TypeOK
  BY DEF UInv
<1> QED
  BY InitIInv, NextIInv, InitUInv, NextUInv, <1>1, <1>2, PTL DEF Spec
=============================================================================
