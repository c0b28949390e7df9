------------------------------ MODULE FatLayout ------------------------------
(***************************************************************************)
(* f_mkfs and mount_volume of FatFs (src/src/tools/mkfat32/fatfs/ff.c) as  *)
(* mkfat32 has them: one partition, one FAT, no options.  f_mkfs looks for *)
(* a cluster size in a loop that starts over, writes its geometry into the *)
(* boot record and the partition table, and the first call on the volume   *)
(* has to find the same geometry there.                                    *)
(*                                                                         *)
(* A drive names its size in sectors, and the sizes a small instance       *)
(* scales: of a sector and a directory entry, the entries of the root, the *)
(* unit of the cluster size table, MAX_FAT12 and MAX_FAT16.  It also names *)
(* the folder that is packed into it (module FatVolume), and whether its   *)
(* disk never fails while that is done.                                    *)
(***************************************************************************)
EXTENDS Integers, Sequences, FiniteSets

CONSTANTS
    Drives,     \* [sectors, ss, dire, root, unit, max12, max16, sound, folder]
    Wrap        \* where a DWORD wraps, 2^32; TLC counts to 2^31

ASSUME WrapAssumption == Wrap \in Nat /\ Wrap >= 16777216

VARIABLES
    drive,
    phase,      \* of f_mkfs, and of the volume behind it
    mk,         \* f_mkfs: the configuration it tries or has found
    disk,       \* sector number -> contents; a sector not in it is zeros
    fs          \* the FATFS object: the geometry that mount_volume found

layoutVars == <<drive, phase, mk, disk, fs>>

Unknown == Wrap - 1         \* 0xFFFFFFFF
N_SEC_TRACK == 63
MAX_FAT12 == drive.max12    \* 0xFF5
MAX_FAT16 == drive.max16    \* 0xFFF5
MAX_FAT32 == 268435445
cst == <<1, 4, 16, 64, 256, 512>>
cst32 == <<1, 2, 4, 8, 16, 32>>
Powers == <<1, 2, 4, 8, 16, 32, 64, 128>>
ClusterSizes == {Powers[i] : i \in DOMAIN Powers}

\* GET_BLOCK_SIZE of disk_ioctl: BLOCK_SIZE, in bytes, where f_mkfs expects
\* the sectors of an erase block.
sz_blk == 512

CeilDiv(a, b) == (a + b - 1) \div b
ZeroSector == <<"zero", 0>>
SectorAt(d, sect) == IF sect \in DOMAIN d THEN d[sect] ELSE ZeroSector

-----------------------------------------------------------------------------
(* f_mkfs: where the volume lies, and the loop for its clusters.           *)

NoVolume == [fsty |-> "FAT16", sz_au |-> 0, b_vol |-> 0, sz_vol |-> 0]

Locate ==
    /\ phase = "locate"
    /\ LET b_vol == IF drive.sectors > N_SEC_TRACK THEN N_SEC_TRACK ELSE 0
           sz_vol == drive.sectors - b_vol
       IN  /\ mk' = [NoVolume EXCEPT !.b_vol = b_vol, !.sz_vol = sz_vol]
           /\ phase' = IF sz_vol < 128 THEN "aborted" ELSE "configure"
    /\ UNCHANGED <<drive, disk, fs>>

\* "AU auto-selection": the boundaries are in ascending order.
AutoSelect(table, n) == Powers[Cardinality({i \in DOMAIN table : table[i] <= n}) + 1]

AllocUnit ==
    CASE mk.sz_au # 0 -> mk.sz_au
      [] mk.sz_au = 0 /\ mk.fsty = "FAT32" -> AutoSelect(cst32, mk.sz_vol \div 131072)
      [] OTHER -> AutoSelect(cst, mk.sz_vol \div drive.unit)

\* The clusters before the FAT takes its room, and the FAT that needs.
Estimate == mk.sz_vol \div AllocUnit
SubType == IF mk.fsty = "FAT16" /\ Estimate <= MAX_FAT12 THEN "FAT12" ELSE mk.fsty

FatSize(type, clusters) ==
    CeilDiv(CASE type = "FAT32" -> clusters * 4 + 8
              [] type = "FAT16" -> clusters * 2 + 4
              [] OTHER          -> (clusters * 3 + 1) \div 2 + 3, drive.ss)

\* One round of the loop.  "Align data area to erase block boundary" pads the
\* FAT, or for FAT32 the reserved sectors in front of it.
Config ==
    LET pau == AllocUnit
        type == SubType
        rsv == IF type = "FAT32" THEN 32 ELSE 1
        fat == FatSize(type, Estimate)
        dir == IF type = "FAT32" THEN 0 ELSE (drive.root * drive.dire) \div drive.ss
        data == mk.b_vol + rsv + fat + dir
        pad == CeilDiv(data, sz_blk) * sz_blk - data
    IN  [b_vol |-> mk.b_vol, sz_vol |-> mk.sz_vol, sz_au |-> mk.sz_au, fsty |-> type,
         pau |-> pau,
         sz_rsv |-> IF type = "FAT32" THEN rsv + pad ELSE rsv,
         sz_fat |-> IF type = "FAT32" THEN fat ELSE fat + pad,
         sz_dir |-> dir,
         n_clst |-> ((mk.sz_vol - rsv - fat - dir - pad) % Wrap) \div pau,
         tooSmall |-> mk.sz_vol < data + pau * 16 - mk.b_vol]

\* Rounds that end f_mkfs, and rounds whose count fits the type.
Aborts(c) ==
    \/ c.fsty = "FAT32" /\ (Estimate <= MAX_FAT16 \/ Estimate > MAX_FAT32)
    \/ c.tooSmall
    \/ c.fsty = "FAT12" /\ c.n_clst > MAX_FAT12
Fits(c) ==
    CASE c.fsty = "FAT32" -> c.n_clst > MAX_FAT16
      [] c.fsty = "FAT16" -> c.n_clst \in (MAX_FAT12 + 1) .. MAX_FAT16
      [] OTHER            -> c.n_clst <= MAX_FAT12

Again(c, fsty, sz_au) == [c EXCEPT !.fsty = fsty, !.sz_au = sz_au]

\* Defect: the round that follows selects its cluster size anew.
RetriesAuto(c) ==
    IF c.n_clst > MAX_FAT16 THEN {Again(c, "FAT16", 0)} ELSE {}

\* "Adjust cluster size and retry": the round that follows, if there is one.
Retries(c) ==
    CASE c.fsty = "FAT32" /\ c.sz_au = 0 /\ c.pau > 1 ->
            {Again(c, "FAT32", c.pau \div 2)}
      [] c.fsty = "FAT16" /\ c.n_clst > MAX_FAT16 ->
            IF c.sz_au = 0 /\ c.pau * 2 <= 64
            THEN {Again(c, "FAT16", c.pau * 2)} ELSE {Again(c, "FAT32", c.sz_au)}
      [] c.fsty = "FAT16" /\ c.n_clst <= MAX_FAT12 /\ c.sz_au = 0 /\ c.pau * 2 <= 128 ->
            {Again(c, "FAT16", c.pau * 2)}
      [] OTHER -> {}

Configure ==
    /\ phase = "configure"
    /\ \/ /\ Aborts(Config) \/ (~Fits(Config) /\ Retries(Config) = {})
          /\ phase' = "aborted"
          /\ UNCHANGED mk
       \/ /\ ~Aborts(Config) /\ ~Fits(Config)
          /\ mk' \in Retries(Config)
          /\ UNCHANGED phase
       \/ /\ ~Aborts(Config) /\ Fits(Config)
          /\ mk' = Config
          /\ phase' = "create"
    /\ UNCHANGED <<drive, disk, fs>>

-----------------------------------------------------------------------------
(* f_mkfs: what it writes.                                                 *)

\* Defect: a large volume's size goes into the short field.
TotSec16Any == mk.sz_vol % 65536

\* The volume's size is in a field of two bytes, or in one of four.
TotSec16 == IF mk.sz_vol < 65536 THEN mk.sz_vol ELSE 0
TotSec32 == IF mk.sz_vol < 65536 THEN 0 ELSE mk.sz_vol

\* "Create FAT VBR": fields of one, two and four bytes.
BootRecord ==
    [BytsPerSec |-> drive.ss, SecPerClus |-> mk.pau % 256, RsvdSecCnt |-> mk.sz_rsv % 65536,
     RootEntCnt |-> IF mk.fsty = "FAT32" THEN 0 ELSE drive.root,
     TotSec16 |-> TotSec16, TotSec32 |-> TotSec32,
     FATSz16 |-> IF mk.fsty = "FAT32" THEN 0 ELSE mk.sz_fat % 65536,
     FATSz32 |-> IF mk.fsty = "FAT32" THEN mk.sz_fat ELSE 0,
     HiddSec |-> mk.b_vol, FAT32 |-> mk.fsty = "FAT32"]

\* FAT[0], FAT[1] and, for FAT32, the root directory's FAT[2]: the sectors
\* that hold them.
FirstFat ==
    LET set == CASE mk.fsty = "FAT12" -> <<248, 255, 255>>
                 [] mk.fsty = "FAT16" -> <<248, 255, 255, 255>>
                 [] OTHER -> <<248, 255, 255, 255, 255, 255, 255, 255, 255, 255, 255, 15>>
        Byte(i) == IF i < Len(set) THEN set[i + 1] ELSE 0
    IN  [k \in 0 .. CeilDiv(Len(set), drive.ss) - 1 |->
            <<"fat", [i \in 0 .. drive.ss - 1 |-> Byte(k * drive.ss + i)]>>]

\* create_partition: a sector's place in cylinder, head and sector bytes.
Heads ==
    LET enough == {h \in {8, 16, 32, 64, 128} :
                      (drive.sectors \div h) \div N_SEC_TRACK <= 1024}
    IN  IF enough = {} THEN 255 ELSE CHOOSE h \in enough : \A k \in enough : h <= k

\* Defect: the cylinder's upper bits are dropped.
ChsLow(lba) ==
    [head |-> (lba \div N_SEC_TRACK) % Heads,
     sec  |-> (lba % N_SEC_TRACK) + 1,
     cyl  |-> ((lba \div N_SEC_TRACK) \div Heads) % 256]

Chs(lba) ==
    LET cy == (lba \div N_SEC_TRACK) \div Heads
    IN  [head |-> (lba \div N_SEC_TRACK) % Heads,
         sec  |-> ((cy \div 256) % 4) * 64 + (lba % N_SEC_TRACK) + 1,
         cyl  |-> cy % 256]

System ==
    IF mk.fsty = "FAT32" THEN 12
    ELSE IF mk.sz_vol >= 65536 THEN 6
    ELSE IF mk.fsty = "FAT16" THEN 4 ELSE 1

Partition ==
    LET size == IF N_SEC_TRACK + mk.sz_vol > drive.sectors
                THEN drive.sectors - N_SEC_TRACK ELSE mk.sz_vol
    IN  [StLba |-> N_SEC_TRACK, SizLba |-> size, System |-> System,
         start |-> Chs(N_SEC_TRACK), end |-> Chs(N_SEC_TRACK + size - 1)]

FsInfo(free, next) == <<"fsinfo", [free |-> free, next |-> next]>>

\* FSInfo and the copies of a FAT32 volume: nobody asks whether writing them
\* succeeded.
Unchecked == IF mk.fsty = "FAT32" THEN {mk.b_vol + 1, mk.b_vol + 6, mk.b_vol + 7} ELSE {}

\* The boot record, FSInfo and the copies, the FAT and the root directory,
\* then the partition table.  Any other write that fails ends f_mkfs, and
\* mkfat32 with it.
CreateVolume ==
    /\ phase = "create"
    /\ \/ /\ LET b_vol == mk.b_vol
                 b_fat == b_vol + mk.sz_rsv
                 infos == IF mk.fsty = "FAT32" THEN {b_vol + 1, b_vol + 7} ELSE {}
                 records == {b_vol} \cup (IF mk.fsty = "FAT32" THEN {b_vol + 6} ELSE {})
                 fat == {b_fat + k : k \in DOMAIN FirstFat}
             IN  \E lost \in SUBSET (IF drive.sound THEN {} ELSE Unchecked) :
                    disk' = [s \in ({0} \cup records \cup infos \cup fat) \ lost |->
                               CASE s = 0 -> <<"mbr", Partition>>
                                 [] s \in records -> <<"vbr", BootRecord>>
                                 [] s \in infos -> FsInfo(mk.n_clst - 1, 2)
                                 [] OTHER -> FirstFat[s - b_fat]]
          /\ phase' = "mount"
       \/ phase' = "failed" /\ UNCHANGED disk
    /\ UNCHANGED <<drive, mk, fs>>

-----------------------------------------------------------------------------
(* mount_volume, in the first call after f_mount.                          *)

\* check_fs: the sector is the boot record of a volume.
IsVbr(sect) ==
    LET s == SectorAt(disk, sect)
    IN  /\ s[1] = "vbr"
        /\ \/ s[2].FAT32
           \/ /\ s[2].SecPerClus \in ClusterSizes
              /\ s[2].RsvdSecCnt # 0
              /\ s[2].RootEntCnt # 0
              /\ s[2].TotSec16 >= 128 \/ s[2].TotSec32 >= 65536
              /\ s[2].FATSz16 # 0

\* find_volume: sector 0 itself, or the first partition.
VolumeSector ==
    CASE IsVbr(0) -> {0}
      [] disk[0][1] = "mbr" /\ disk[0][2].StLba # 0 /\ IsVbr(disk[0][2].StLba) ->
            {disk[0][2].StLba}
      [] OTHER -> {}

\* The bytes a FAT of n entries needs.
szbfat(type, n) ==
    CASE type = "FAT32" -> n * 4
      [] type = "FAT16" -> n * 2
      [] OTHER          -> (n * 3) \div 2 + (n % 2)

\* What the boot record b in sector bsect says, and whether it is possible.
Geometry(b, bsect) ==
    LET fasize == IF b.FATSz16 = 0 THEN b.FATSz32 ELSE b.FATSz16
        tsect == IF b.TotSec16 = 0 THEN b.TotSec32 ELSE b.TotSec16
        sysect == b.RsvdSecCnt + fasize + b.RootEntCnt \div (drive.ss \div drive.dire)
        nclst == (tsect - sysect) \div b.SecPerClus
        type == IF nclst <= MAX_FAT12 THEN "FAT12"
                ELSE IF nclst <= MAX_FAT16 THEN "FAT16" ELSE "FAT32"
    IN  [fs_type |-> type, csize |-> b.SecPerClus, n_fatent |-> nclst + 2,
         fsize |-> fasize, n_rootdir |-> b.RootEntCnt, volbase |-> bsect,
         fatbase |-> bsect + b.RsvdSecCnt, database |-> bsect + sysect,
         dirbase |-> IF type = "FAT32" THEN 2 ELSE bsect + b.RsvdSecCnt + fasize,
         possible |->
            /\ b.BytsPerSec = drive.ss /\ b.SecPerClus \in ClusterSizes
            /\ b.RootEntCnt % (drive.ss \div drive.dire) = 0 /\ b.RsvdSecCnt # 0
            /\ tsect >= sysect /\ nclst # 0 /\ nclst <= MAX_FAT32
            /\ (type = "FAT32") = (b.RootEntCnt = 0)
            /\ fasize >= CeilDiv(szbfat(type, nclst + 2), drive.ss)]

NoFs == [fs_type |-> "none"]

\* A disk that fails leaves no volume.
Mount ==
    /\ phase = "mount"
    /\ LET found == {Geometry(disk[b][2], b) : b \in VolumeSector}
       IN  \/ /\ fs' \in {g \in found : g.possible}
              /\ phase' = "ready"
           \/ /\ \A g \in found : ~g.possible
              /\ phase' = "no_filesystem"
              /\ UNCHANGED fs
           \/ phase' = "failed" /\ UNCHANGED fs
    /\ UNCHANGED <<drive, mk, disk>>

LayoutInit ==
    /\ drive \in Drives
    /\ phase = "locate"
    /\ mk = NoVolume
    /\ disk = [s \in {} |-> ZeroSector]
    /\ fs = NoFs

LayoutNext == Locate \/ Configure \/ CreateVolume \/ Mount

\* The volume is used then, and what says where it lies stays.
Use ==
    /\ phase = "ready"
    /\ phase' \in {"ready", "closed"}
    /\ \A s \in {0, fs.volbase} : SectorAt(disk', s) = SectorAt(disk, s)
    /\ UNCHANGED <<drive, mk, fs>>

\* A volume is made, mounted and used: what mkfat32 does with it, also when
\* the disk fails in the middle, never touches the boot record nor the
\* partition table (module FatVolume implements this).
LayoutSpec == LayoutInit /\ [][LayoutNext \/ Use]_layoutVars

-----------------------------------------------------------------------------
(* What must hold of it.                                                   *)

\* The volume f_mkfs made is the volume the next call mounts: of the same
\* type, with the same areas and the same number of clusters, none of them
\* beyond the drive, and its FAT has an entry for each.  So would any later
\* call mount it.  The one exception is a volume without a single cluster:
\* f_mkfs makes it all the same.
MountsWhatWasMade ==
    /\ phase = "no_filesystem" => mk.n_clst = 0
    /\ phase \in {"ready", "closed"} =>
        /\ VolumeSector = {mk.b_vol}
        /\ fs = Geometry(SectorAt(disk, mk.b_vol)[2], mk.b_vol) /\ fs.possible
        /\ fs.fs_type = mk.fsty
        /\ fs.csize = mk.pau
        /\ fs.n_fatent = mk.n_clst + 2
        /\ fs.fatbase = mk.b_vol + mk.sz_rsv
        /\ fs.database = mk.b_vol + mk.sz_rsv + mk.sz_fat + mk.sz_dir
        /\ fs.database + (fs.n_fatent - 2) * fs.csize <= drive.sectors

\* The partition table names the volume: by its sectors, and by cylinder,
\* head and sector as far as those reach.
PartitionNamesVolume ==
    phase \in {"mount", "ready", "closed"} =>
        LET p == disk[0][2]
            Lba(c) == (((c.sec \div 64) * 256 + c.cyl) * Heads + c.head) * N_SEC_TRACK
                      + (c.sec % 64) - 1
            last == p.StLba + p.SizLba - 1
        IN  /\ p.StLba = mk.b_vol /\ p.SizLba = mk.sz_vol
            /\ p.StLba + p.SizLba = drive.sectors
            /\ Lba(p.start) = p.StLba
            /\ last < 1024 * Heads * N_SEC_TRACK => Lba(p.end) = last

\* The loop of f_mkfs ends, whatever the size of the drive.
FormattingEnds == <>(phase \notin {"locate", "configure", "create", "mount"})
=============================================================================
