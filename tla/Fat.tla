-------------------------------- MODULE Fat --------------------------------
(***************************************************************************)
(* The two programs that read a FAT32 root directory:                      *)
(* tools.bak/fat_reader/fat_reader.c lists it, and the boot sector         *)
(* boot/i386_fat.old/boot0.asm finds the loader there and follows its      *)
(* cluster chain.  Both take the directory for an array of pairs: a slot   *)
(* with a long name, then the slot with the entry it belongs to.           *)
(*                                                                         *)
(* The names are other than those of Boot2, the stages that boot0 loads,   *)
(* so that one module can speak of the whole chain.                        *)
(***************************************************************************)
EXTENDS Integers, Sequences

CONSTANTS
    File,          \* names of files; not those of Mark
    BOOTLD,        \* the one boot0 looks for
    MaxSlots,      \* bound: slots in use in the directory
    SLOT, SECTOR,  \* bytes of a slot and of a sector: 32 and 512 in the code
    NAME_LENGTH,   \* 11 in the code
    MaxCluster,    \* the last cluster of the volume
    EOC,           \* what ends a cluster chain in the table
    TERMINATOR,    \* what boot0 takes for it: 0x0FFFF7 in the code
    OFFSETS,       \* 2^32 in the code
    Geometry       \* what a volume may say of itself, see bpb

\* A slot is the entry of a file or of something else: a part of a long name, a
\* hidden file or a directory, a volume label, a deleted file; behind the last
\* one in use its bytes are 0.
Mark == {"lfn", "hidden", "volume", "deleted"}
Slot == File \cup Mark
ZERO == "end"

\* A sector holds at least one entry of the table, and 2 is the first cluster.
ASSUME FatAssumption ==
    /\ BOOTLD \in File /\ File \cap (Mark \cup {ZERO}) = {}
    /\ MaxSlots \in Nat /\ NAME_LENGTH \in Nat
    /\ SLOT \in Nat \ {0} /\ SECTOR \in Nat /\ SECTOR >= 4 /\ OFFSETS \in Nat \ {0}
    /\ MaxCluster \in Nat /\ MaxCluster >= 2 /\ TERMINATOR \in Nat
    /\ EOC \in Nat /\ EOC > MaxCluster /\ EOC >= TERMINATOR
    /\ Geometry \subseteq [bytes_per_sector : Nat, sectors_per_cluster : Nat \ {0},
                           fat_sectors : Nat, root_dir_cluster : Nat]

VARIABLES
    prog,          \* "fat_reader" or "boot0"
    phase,         \* its place
    bpb,           \* fat_sectors: the reserved sectors and those of all tables
    dir,           \* the slots in use of the directory
    fat,           \* the table: the cluster behind every cluster
    root_cluster,  \* fat_reader: the slots it has read
    listed,        \* its i: how many pairs it has gone through
    printed,       \* history: the names fat_reader has listed
    cluster, di,   \* boot0: the cluster to load, and where to
    cx,            \* boot0: the bytes of a sector, as long as nobody changes cl
    loads          \* history: <<offset, cluster>> of what boot0 has loaded

disk == <<bpb, dir, fat>>
fatvars == <<prog, phase, disk, root_cluster, listed, printed, cluster, di, cx, loads>>

\* The tables of a volume: chains that do not meet, and a cluster of its own for
\* files that are not BOOTLD.
Chains ==
    {f \in [2 .. MaxCluster -> (3 .. (MaxCluster - 1)) \cup {EOC}] :
        /\ f[MaxCluster] = EOC
        /\ \A a, b \in 2 .. MaxCluster : (f[a] = f[b] /\ f[a] # EOC) => a = b}

FatInit ==
    /\ prog \in {"fat_reader", "boot0"} /\ phase = "start"
    /\ bpb \in Geometry
    /\ dir \in UNION {[1 .. n -> Slot] : n \in 0 .. MaxSlots}
    /\ fat \in Chains
    /\ root_cluster = <<>> /\ listed = 0 /\ printed = <<>>
    /\ cluster = 0 /\ di = 0 /\ cx = SECTOR /\ loads = <<>>

-----------------------------------------------------------------------------
\* fat_reader reads one cluster from an offset it computes in 32 bits.
RootSector ==
    bpb.fat_sectors + (bpb.root_dir_cluster - 2) * bpb.sectors_per_cluster
root_dir_offset == (RootSector * bpb.bytes_per_sector) % OFFSETS
cluster_size == bpb.sectors_per_cluster * bpb.bytes_per_sector

InCluster(root) ==
    [n \in 1 .. cluster_size \div SLOT |-> IF n <= Len(root) THEN root[n] ELSE ZERO]

ReadRoot ==
    /\ prog = "fat_reader" /\ phase = "start" /\ bpb.bytes_per_sector # 0
    /\ \E elsewhere \in {<<>>, <<"lfn", BOOTLD>>} :
          root_cluster' = InCluster(IF root_dir_offset = RootSector * bpb.bytes_per_sector
                               THEN dir ELSE elsewhere)
    /\ phase' = "list"
    /\ UNCHANGED <<prog, disk, listed, printed, cluster, di, cx, loads>>

\* No operand, no device, no memory; or a division by the 0 bytes per sector of
\* an image that has no FAT.
ReaderFails ==
    /\ prog = "fat_reader" /\ phase = "start"
    /\ phase' = IF bpb.bytes_per_sector = 0 THEN "trap" ELSE "died"
    /\ UNCHANGED <<prog, disk, root_cluster, listed, printed, cluster, di, cx, loads>>

\* The second slot of a pair decides: a 0 ends the list, the attributes 0x12
\* hide it.  A volume label and a deleted file are listed.  As a slip the first
\* slot of the pair is looked at.
ShortFirst(n) == root_cluster[2 * n + 1]
Short(n) == root_cluster[2 * n + 2]
Attribute12 == {"lfn", "hidden"}

ListEntry ==
    /\ prog = "fat_reader" /\ phase = "list"
    /\ listed < Len(root_cluster) \div 2 /\ Short(listed) # ZERO
    /\ printed' = IF Short(listed) \in Attribute12 THEN printed
                  ELSE Append(printed, Short(listed))
    /\ listed' = listed + 1
    /\ UNCHANGED <<prog, phase, disk, root_cluster, cluster, di, cx, loads>>

ListEnds ==
    /\ prog = "fat_reader" /\ phase = "list"
    /\ (listed < Len(root_cluster) \div 2 => Short(listed) = ZERO)
    /\ phase' = "exit"
    /\ UNCHANGED <<prog, disk, root_cluster, listed, printed, cluster, di, cx, loads>>

-----------------------------------------------------------------------------
\* The first cluster in a slot; a file that is not BOOTLD has one of its own.
First(slot) ==
    IF slot = BOOTLD THEN 2 ELSE IF slot = ZERO THEN 0 ELSE MaxCluster
SlotOnDisk(n) == IF n <= Len(dir) THEN dir[n] ELSE ZERO

\* boot0 compares the first entry with its target.  test byte [di], 0 is never
\* true: any other first entry leads to the second one, whatever it is, with the
\* rest of the name's length in cl.
LocateFile ==
    /\ prog = "boot0" /\ phase = "start" /\ phase' = "load"
    /\ IF SlotOnDisk(2) = BOOTLD
       THEN cluster' = First(BOOTLD) /\ cx' = SECTOR
       ELSE cluster' = First(SlotOnDisk(4)) /\ cx' \in SECTOR + 1 .. SECTOR + NAME_LENGTH
    /\ UNCHANGED <<prog, disk, root_cluster, listed, printed, di, loads>>

\* The table's entry for a cluster, found by a sector and an index in it; the
\* first two are reserved, and those behind the table may hold anything.  As a
\* slip the sector is left out.
EntryAt(at) ==
    IF at < 2 THEN {EOC} ELSE IF at <= MaxCluster THEN {fat[at]} ELSE {0, EOC}

FatEntryInFirst(c) == EntryAt(c % (cx \div 4))
FatEntry(c) == EntryAt((c \div (cx \div 4)) * (SECTOR \div 4) + (c % (cx \div 4)))

\* One turn of the loop of load_file_from_cluster: di moves on by one sector,
\* however many a cluster has.  As a slip the comparison
\* is ja, with the end mark itself.
Turn(terminator) ==
    /\ prog = "boot0" /\ phase = "load" /\ Len(loads) < MaxCluster
    /\ loads' = Append(loads, <<di, cluster>>)
    /\ \E entry \in FatEntry(cluster) :
          IF entry >= terminator THEN phase' = "jump" /\ UNCHANGED <<cluster, di>>
          ELSE cluster' = entry /\ di' = di + cx /\ phase' = phase
    /\ UNCHANGED <<prog, disk, root_cluster, listed, printed, cx>>

LoadClusterJa == Turn(EOC + 1)

LoadCluster == Turn(TERMINATOR)

FatNext ==
    \/ ReadRoot \/ ReaderFails \/ ListEntry \/ ListEnds
    \/ LocateFile \/ LoadCluster

FatSpec == FatInit /\ [][FatNext]_fatvars

-----------------------------------------------------------------------------
\* The type invariant.
FatTypeOK ==
    /\ prog \in {"fat_reader", "boot0"}
    /\ phase \in {"start", "list", "exit", "trap", "died", "load", "jump"}
    /\ bpb \in Geometry /\ dir \in Seq(Slot)
    /\ root_cluster \in Seq(Slot \cup {ZERO}) /\ listed \in 0 .. Len(root_cluster) \div 2
    /\ printed \in Seq(Slot)
    /\ cluster \in 0 .. MaxCluster /\ di \in Nat /\ cx \in Nat
    /\ loads \in Seq(Nat \X (0 .. MaxCluster))

\* A directory as both programs expect it: every entry has one slot of long name
\* in front of it, and none is deleted or a volume label.
Paired ==
    /\ Len(dir) % 2 = 0
    /\ \A n \in 1 .. Len(dir) :
          IF (n % 2) = 1 THEN dir[n] = "lfn" ELSE dir[n] \notin {"lfn", "volume", "deleted"}

\* The files among the first k slots.
Files(slots) ==
    LET f[k \in 0 .. Len(slots)] ==
            IF k = 0 THEN <<>>
            ELSE IF slots[k] \in File THEN Append(f[k - 1], slots[k]) ELSE f[k - 1]
    IN  f

\* Of such a directory, if it fits a cluster and its offset fits a word, the
\* files that are neither hidden nor directories are listed, in their order.
ListsFiles ==
    /\ prog = "fat_reader" /\ phase = "exit" /\ Paired /\ Len(dir) * SLOT <= cluster_size
    /\ RootSector * bpb.bytes_per_sector \in 0 .. OFFSETS - 1
    => printed = Files(dir)[Len(dir)]

\* The loader's clusters lie in memory one behind the other, all of them and in
\* the order of the chain, whichever sector of the table an entry is in.  For a
\* loader that is the first entry, clusters of one sector and a volume whose
\* clusters are all below the terminator.
LoadsChain ==
    /\ phase = "jump" /\ SlotOnDisk(2) = BOOTLD
    /\ bpb.sectors_per_cluster = 1 /\ MaxCluster < TERMINATOR
    => /\ \A n \in 1 .. Len(loads) :
             /\ loads[n][1] = (n - 1) * SECTOR
             /\ fat[loads[n][2]] = IF n = Len(loads) THEN EOC ELSE loads[n + 1][2]
       /\ loads[1][2] = 2
=============================================================================
