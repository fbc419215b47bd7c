-------------------------------- MODULE Gpt --------------------------------
(***************************************************************************)
(* tools.bak/configurator/configure.c: writes a protective MBR entry, a    *)
(* GUID partition table and its backup to a disk image, one after the      *)
(* other, with results that nobody looks at.  The tool may be killed       *)
(* between two sectors and run again; between two runs another tool may    *)
(* write a table of its own.  The unit of length is a partition entry of   *)
(* 128 bytes; a sector is written whole or not at all.                     *)
(***************************************************************************)
EXTENDS Integers

CONSTANTS
    PART_ARRAY_SLOTS,  \* 128 in the code
    PART_DATA_LBA,     \* 34 in the code
    EFI_SYSTEM_PART,   \* 64 MiB in the code, here in entries
    SectorSizes,       \* what -s may ask for, in entries; 0 for less than one
    Sizes,             \* sectors an image may have
    MaxLba,            \* bound: no write goes beyond this sector
    MaxRuns, MaxErrors \* bounds: runs of the tool, writes that fail

ASSUME GptAssumption ==
    /\ PART_ARRAY_SLOTS \in Nat \ {0} /\ EFI_SYSTEM_PART \in Nat
    /\ PART_DATA_LBA = 2 + PART_ARRAY_SLOTS \div 4
    /\ SectorSizes \subseteq {s \in 0 .. PART_ARRAY_SLOTS :
            s > 0 => s * (PART_ARRAY_SLOTS \div s) = PART_ARRAY_SLOTS}
    /\ Sizes \subseteq 0 .. MaxLba + 1 /\ MaxLba \in Nat
    /\ 2 * PART_ARRAY_SLOTS + 2 <= MaxLba
    /\ MaxRuns \in Nat /\ MaxErrors \in Nat

VARIABLES
    pc,
    sector_size, N,    \* device.sector_size and LBA_COUNT
    len,               \* sectors of the image, which a write past its end extends
    protect,           \* sectors the 0xEE entry of the MBR protects, 0 for no entry
    disk,              \* what every sector holds
    pos,               \* the file position
    k,                 \* sectors of the array already written
    runs, errors,      \* runs begun, writes failed
    had                \* history: 1 once a valid table has been on the disk

vars == <<pc, sector_size, N, len, protect, disk, pos, k, runs, errors, had>>

\* The sectors of the array.
A == PART_ARRAY_SLOTS \div sector_size

Lba == 0 .. MaxLba

\* A sector: nothing of a table, sector j of an array, or a header with the
\* address it is written for, the array it names and checksums, the last usable
\* sector, and its own checksum.  A checksum is what it was computed over: the
\* header and what its checksum field held at that time.
Sector(kind, from, j, cur, arr, last, crc) ==
    [kind |-> kind, from |-> from, j |-> j, cur |-> cur, arr |-> arr,
     last |-> last, crc |-> crc]
Blank == Sector("none", "none", 0, 0, 0, 0, <<>>)

\* The array of the tool has one entry, in its first sector: the EFI partition.
EfiLast == PART_DATA_LBA + EFI_SYSTEM_PART \div sector_size
Entries(from, j) ==
    Sector("array", from, j, 0, 0, IF from = "tool" /\ j = 0 THEN EfiLast ELSE 0, <<>>)

crc32(from, cur, arr, last, field) == <<from, cur, arr, last, field>>
Header(from, cur, arr, last, field) ==
    Sector("header", from, 0, cur, arr, last, crc32(from, cur, arr, last, field))

\* As slips the sector of the backup header, or one sector of the partitions, is
\* taken for a sector of the backup array.
BackupArrayLate == N - A
LastUsableLate == N - PART_DATA_LBA + 1

BackupArray == N - A - 1
LastUsable == N - PART_DATA_LBA

PrimaryHeader == Header("tool", 1, 2, LastUsable, "zero")

\* The copy of the primary header still holds its checksum when the backup's is
\* computed.
BackupHeader == Header("tool", N - 1, BackupArray, LastUsable, "primary")

\* What a reader of the table accepts.
HeaderValid(lba) ==
    LET h == disk[lba] IN
    /\ h.kind = "header" /\ h.cur = lba
    /\ h.crc = crc32(h.from, h.cur, h.arr, h.last, "zero")
Valid(lba) ==
    /\ HeaderValid(lba)
    /\ \A j \in 0 .. A - 1 : disk[disk[lba].arr + j] = Entries(disk[lba].from, j)
TableThere == Valid(1) \/ Valid(N - 1)

\* The table another tool leaves, both copies of it.
OtherTable ==
    [b \in Lba |->
        IF b = 1 THEN Header("other", 1, 2, LastUsable, "zero")
        ELSE IF b \in 2 .. A + 1 THEN Entries("other", b - 2)
        ELSE IF b \in BackupArray .. N - 2 THEN Entries("other", b - BackupArray)
        ELSE IF b = N - 1 THEN Header("other", N - 1, BackupArray, LastUsable, "zero")
        ELSE Blank]

\* Both copies have room, with a sector between them.
Room == sector_size > 0 /\ N >= 2 * A + 3

-----------------------------------------------------------------------------
Init ==
    /\ pc = "start" /\ sector_size \in SectorSizes
    /\ len \in Sizes /\ N = len
    /\ protect = 0 /\ pos = 0 /\ k = 0 /\ runs = 0 /\ errors = 0
    /\ \/ disk = [b \in Lba |-> Blank] /\ had = 0
       \/ Room /\ disk = OtherTable /\ had = 1

\* The options, the device and its size.
Configure ==
    /\ pc = "start" /\ runs < MaxRuns /\ runs' = runs + 1
    /\ pc' = IF sector_size = 0 THEN "trap" ELSE "mbr"
    /\ N' = len /\ pos' = 0 /\ k' = 0
    /\ UNCHANGED <<sector_size, len, protect, disk, errors, had>>

\* A missing or malformed option, or a device that does not open.
Die ==
    /\ pc = "start" /\ runs < MaxRuns /\ runs' = runs + 1
    /\ pc' = "died"
    /\ UNCHANGED <<sector_size, N, len, protect, disk, pos, k, errors, had>>

\* The entry ends at byte 462, behind three units of length.
WriteMbr ==
    /\ pc = "mbr" /\ pc' = "primary"
    /\ protect' = N - 1
    /\ len' = IF len < 3 \div sector_size THEN 3 \div sector_size ELSE len
    /\ UNCHANGED <<sector_size, N, disk, pos, k, runs, errors, had>>

\* fseek: the offset of a negative sector is rejected and the position stays; as
\* a slip it is not.
SeekAnywhere(lba) == lba
Seek(lba) == IF lba >= 0 THEN lba ELSE pos

\* fseek and one sector of fwrite; a header does not fill its own.
Write(lba, content) ==
    LET at == Seek(lba) IN
    /\ UNCHANGED <<sector_size, N, protect, runs>>
    /\ pos' = at + 1
    /\ \/ /\ disk' = [disk EXCEPT ![at] = content]
          /\ len' = IF at < len THEN len ELSE IF content.kind = "array" THEN at + 1 ELSE at
          /\ errors' = errors
       \/ errors < MaxErrors /\ errors' = errors + 1 /\ UNCHANGED <<disk, len>>
    /\ had' = IF Room /\ TableThere' THEN 1 ELSE had

\* The next sector of an array written to lba; as a slip the last one stays in
\* its buffer.
WriteArrayShort(here, next, lba) ==
    /\ pc = here
    /\ Write(IF k = 0 THEN lba ELSE pos, Entries("tool", k))
    /\ IF k + 2 >= A THEN pc' = next /\ k' = 0 ELSE pc' = here /\ k' = k + 1

WriteArray(here, next, lba) ==
    /\ pc = here
    /\ Write(IF k = 0 THEN lba ELSE pos, Entries("tool", k))
    /\ IF k + 1 = A THEN pc' = next /\ k' = 0 ELSE pc' = here /\ k' = k + 1

WriteHeader(here, next, lba, content) ==
    /\ pc = here /\ pc' = next /\ k' = k
    /\ Write(lba, content)

\* The order of main; as a slip the two tables change places.
WriteGptSwapped ==
    \/ WriteArray("primary", "bheader", BackupArray)
    \/ WriteHeader("bheader", "pheader", N - 1, BackupHeader)
    \/ WriteHeader("pheader", "parray", 1, PrimaryHeader)
    \/ WriteArray("parray", "exit", 2)

WriteGpt ==
    \/ WriteHeader("primary", "parray", 1, PrimaryHeader)
    \/ WriteArray("parray", "barray", 2)
    \/ WriteArray("barray", "bheader", BackupArray)
    \/ WriteHeader("bheader", "exit", N - 1, BackupHeader)

\* The tool is killed; what it has written stays.
Kill ==
    /\ pc \in {"mbr", "primary", "parray", "barray", "bheader"} /\ pc' = "killed"
    /\ UNCHANGED <<sector_size, N, len, protect, disk, pos, k, runs, errors, had>>

\* It is run again, or another tool has written a table in the meantime.
Again ==
    /\ pc \in {"exit", "died", "killed", "trap"} /\ pc' = "start"
    /\ \/ UNCHANGED <<disk, had>>
       \/ Room /\ disk' = OtherTable /\ had' = 1
    /\ UNCHANGED <<sector_size, N, len, protect, pos, k, runs, errors>>

Next == Configure \/ Die \/ WriteMbr \/ WriteGpt \/ Kill \/ Again

Spec == Init /\ [][Next]_vars

\* A process runs until it ends or is killed; nobody has to run the tool.
FairSpec == Spec /\ WF_vars(WriteMbr \/ WriteGpt)

-----------------------------------------------------------------------------
\* The type invariant.
TypeOK ==
    /\ pc \in {"start", "mbr", "primary", "parray", "barray", "bheader", "exit",
               "died", "killed", "trap"}
    /\ sector_size \in SectorSizes
    /\ N \in Nat /\ len \in 0 .. MaxLba + 1
    /\ protect \in Int /\ pos \in Nat /\ k \in 0 .. PART_ARRAY_SLOTS - 1
    /\ DOMAIN disk = Lba
    /\ runs \in 0 .. MaxRuns /\ errors \in 0 .. MaxErrors /\ had \in {0, 1}

\* Killed between any two sectors, and run again after that: once the disk has
\* had a table, a reader finds one, the primary one or its backup.  For an
\* image with room for both and as long as no write fails.
Recoverable == had = 1 /\ errors = 0 => TableThere

\* A run that was not killed leaves a table of its own with two equal arrays,
\* the backup header at the end of the image where the primary one says, and the
\* image protected up to its last sector.
TableComplete ==
    pc = "exit" /\ errors = 0 /\ Room =>
        /\ Valid(1) /\ disk[1].from = "tool"
        /\ \A j \in 0 .. A - 1 : disk[2 + j] = disk[BackupArray + j]
        /\ disk[N - 1].kind = "header" /\ disk[N - 1].arr = BackupArray
        /\ protect = N - 1

\* The usable sectors the tool names belong to no copy of the table, and its
\* partition lies among them if the image has room for it.  For sectors of 512
\* bytes and more: PART_DATA_LBA counts on them.
UsableFree ==
    LET h == disk[1] IN
    Room /\ sector_size >= 4 /\ h.kind = "header" /\ h.from = "tool" =>
        /\ A + 1 < PART_DATA_LBA /\ h.last < BackupArray
        /\ (/\ disk[2] = Entries("tool", 0)
            /\ N > 2 * PART_DATA_LBA + EFI_SYSTEM_PART \div sector_size)
           => disk[2].last <= h.last

\* A run that is not killed repairs whatever killed runs have left.
RunRepairs == pc = "mbr" /\ Room ~> pc = "killed" \/ errors > 0 \/ Valid(1)

\* The backup header a run leaves is one that a reader accepts.
BackupValid == pc = "exit" /\ errors = 0 /\ Room => HeaderValid(N - 1)
=============================================================================
