-------------------------------- MODULE FatFs --------------------------------
(***************************************************************************)
(* The calls of FatFs (src/src/tools/mkfat32/fatfs/ff.c) that mkfat32      *)
(* makes on a mounted volume: f_mkdir, f_open for a new file, f_write,     *)
(* f_close, and everything under them.                                     *)
(*                                                                         *)
(* A call takes the program's memory t to a set of outcomes, for the disk  *)
(* may fail in any access.  The memory: the disk; the window, one sector   *)
(* in memory (win, winsect, wflag); last_clst, free_clst and fsi, what     *)
(* FSInfo says and whether it is to be written; the file object fp and the *)
(* directory object dp; and what the function returned (res, and val for a *)
(* cluster number; and path, what is left of a path that is followed).     *)
(* Sectors are kept by kind: bytes of the FAT, entries of a directory,     *)
(* cells of a file.                                                        *)
(***************************************************************************)
EXTENDS FatLayout

NoSector == Unknown
DiskError == Unknown        \* 0xFFFFFFFF from get_fat and create_chain

ss == drive.ss
Slots == ss \div drive.dire                 \* directory entries in a sector
NoCell == <<<<>>, 0>>
NoEntry == [name |-> <<>>, dir |-> FALSE, clust |-> 0, size |-> 0]
Clusters == 2 .. fs.n_fatent - 1

Result(t, res) == [t EXCEPT !.res = res]
Value(t, val) == [t EXCEPT !.val = val]
Ok(t) == t.res = "OK"

\* A loop: Round(t, k) is its round k, and what it returns More of goes on.
\* The bound n is one the loop does not reach.
More(t) == Result(t, "more")
Goes(t) == t.res = "more"
Loop(Round(_, _), t, n) ==
    LET after[k \in 0 .. n] ==
            IF k = 0 THEN {More(t)}
            ELSE UNION {IF Goes(u) THEN Round(Result(u, "OK"), k) ELSE {u} : u \in after[k - 1]}
    IN  {u \in after[n] : ~Goes(u)}

\* What a sector says to a reader of the FAT, of a directory, and of a file.
FatBytes(s) == IF s[1] = "fat" THEN s[2]
               ELSE [i \in 0 .. ss - 1 |-> IF s = ZeroSector THEN 0 ELSE 170]
Entries(s) == IF s[1] = "dir" THEN s[2]
              ELSE [i \in 0 .. Slots - 1 |->
                      IF s = ZeroSector THEN NoEntry ELSE [NoEntry EXCEPT !.name = s]]
Cells(s) == IF s[1] = "data" THEN s[2] ELSE [i \in 0 .. ss - 1 |-> NoCell]

-----------------------------------------------------------------------------
(* disk_read, disk_write, and the window.                                  *)

\* An access that takes a memory to u, or fails and leaves t.  t.broken: the
\* disk has never failed, has failed once, or fails for good.
Access(t, u) ==
    LET Failed(b) == [Result(t, "DISK_ERR") EXCEPT !.broken = b]
    IN  CASE drive.sound \/ t.broken = "once" -> {Result(u, "OK")}
          [] ~drive.sound /\ t.broken = "no"  -> {Result(u, "OK"), Failed("once"), Failed("for good")}
          [] OTHER                            -> {Failed("for good")}

\* A write that fails may have written the first of its sectors.
Stored(t, sect, contents, n) ==
    LET written == sect .. sect + n - 1
    IN  [t EXCEPT !.disk = [s \in DOMAIN t.disk \cup written |->
            IF s \in written THEN contents[s - sect + 1] ELSE t.disk[s]]]
disk_write(t, sect, contents) ==
    LET all == Len(contents)
    IN  UNION {Access(Stored(t, sect, contents, n), Stored(t, sect, contents, all)) :
                 n \in 0 .. all - 1}

sync_window(t) ==
    IF t.wflag THEN {[u EXCEPT !.wflag = ~Ok(u)] : u \in disk_write(t, t.winsect, <<t.win>>)}
    ELSE {Result(t, "OK")}

ReadWindow(t, sect) ==
    {[u EXCEPT !.winsect = IF Ok(u) THEN sect ELSE NoSector] :
        u \in Access(t, [t EXCEPT !.win = SectorAt(t.disk, sect)])}

move_window(t, sect) ==
    IF sect = t.winsect THEN {Result(t, "OK")}
    ELSE UNION {IF Ok(u) THEN ReadWindow(u, sect) ELSE {u} : u \in sync_window(t)}

\* Defect: the entry is left in the window.
SyncLater(t) == {Result(t, "OK")}

\* Defect: the boot record's sector, not the one next to it.
WriteInfoFirst(t) ==
    LET info == FsInfo(t.free_clst, t.last_clst)
    IN  {[Result(u, "OK") EXCEPT !.win = info, !.winsect = fs.volbase, !.fsi = "clean"] :
            u \in disk_write(t, fs.volbase, <<info>>)}

\* "Update FSInfo sector if needed": nobody asks whether that succeeded.
\* CTRL_SYNC of disk_ioctl does nothing.
WriteInfo(t) ==
    LET info == FsInfo(t.free_clst, t.last_clst)
    IN  {[Result(u, "OK") EXCEPT !.win = info, !.winsect = fs.volbase + 1, !.fsi = "clean"] :
            u \in disk_write(t, fs.volbase + 1, <<info>>)}
sync_fs(t) == UNION {IF Ok(u) /\ u.fsi = "dirty" THEN WriteInfo(u) ELSE {u} : u \in sync_window(t)}

-----------------------------------------------------------------------------
(* The FAT.                                                                *)

clst2sect(clst) == IF clst \in Clusters THEN fs.database + fs.csize * (clst - 2) ELSE 0

\* Byte bc of the FAT.
ToFatByte(t, bc) == move_window(t, fs.fatbase + bc \div ss)
FatByte(t, bc) == FatBytes(t.win)[bc % ss]

\* Where the entry of a cluster begins, and the places of its bytes.
FatOffset(clst) ==
    CASE fs.fs_type = "FAT12" -> clst + clst \div 2
      [] fs.fs_type = "FAT16" -> clst * 2
      [] OTHER                -> clst * 4
Bytes == IF fs.fs_type = "FAT32" THEN 0 .. 3 ELSE 0 .. 1

\* An entry from its bytes; those of a FAT12 entry may lie in two sectors,
\* and the upper half byte of a FAT32 entry is not its own.
FatEntry(clst, byte) ==
    LET wc == byte[0] + 256 * byte[1]
    IN  CASE fs.fs_type = "FAT32" -> wc + 65536 * (byte[2] + 256 * (byte[3] % 16))
          [] fs.fs_type = "FAT16" -> wc
          [] OTHER                -> IF clst % 2 = 1 THEN wc \div 16 ELSE wc % 4096

\* val: 1 for a cluster that is not there, DiskError, or the entry.
GetRest(t, clst) ==
    LET bc == FatOffset(clst)
        Byte(u, i) == FatByte(IF i = 0 THEN t ELSE u, bc + i)
    IN  {Value(u, IF Ok(u) THEN FatEntry(clst, [i \in Bytes |-> Byte(u, i)]) ELSE DiskError) :
            u \in ToFatByte(t, bc + 1)}
get_fat(t, clst) ==
    IF clst \notin Clusters THEN {Value(t, 1)}
    ELSE UNION {IF Ok(u) THEN GetRest(u, clst) ELSE {Value(u, DiskError)} :
                   u \in ToFatByte(t, FatOffset(clst))}

\* Byte i of a number.
Digit(val, i) == (val \div <<1, 256, 65536, 16777216>>[i + 1]) % 256

\* Byte i of an entry: of FAT12 and of FAT32 half a byte is not its own.
EntryByte(clst, i, old, val) ==
    LET odd == fs.fs_type = "FAT12" /\ clst % 2 = 1
        low == Digit(val, i)
        half == (fs.fs_type = "FAT12" /\ i = 1) \/ (fs.fs_type = "FAT32" /\ i = 3)
    IN  IF odd /\ i = 0 THEN (old % 16) + 16 * (val % 16)
        ELSE IF odd THEN (val \div 16) % 256
        ELSE IF half THEN 16 * (old \div 16) + (low % 16) ELSE low

EndOfChain == 268435455     \* 0xFFFFFFFF, of which an entry keeps its bits

\* The bytes of an entry that lie in the window, with places in places.
PutBytes(t, clst, places, val) ==
    LET old == FatBytes(t.win)
        Place(b) == (b - FatOffset(clst)) % ss
        New(b) == IF Place(b) \in places THEN EntryByte(clst, Place(b), old[b], val) ELSE old[b]
    IN  [t EXCEPT !.win = <<"fat", [b \in 0 .. ss - 1 |-> New(b)]>>, !.wflag = TRUE]

PutRest(t, clst, val) ==
    {IF Ok(u) THEN PutBytes(u, clst, Bytes \ {0}, val) ELSE u :
        u \in ToFatByte(t, FatOffset(clst) + 1)}
put_fat(t, clst, val) ==
    IF clst \notin Clusters THEN {Result(t, "INT_ERR")}
    ELSE UNION {IF Ok(u) THEN PutRest(PutBytes(u, clst, {0}, val), clst, val) ELSE {u} :
                   u \in ToFatByte(t, FatOffset(clst))}

\* "Update FSINFO": the free clusters are counted if their number is known.
Counted(t) == IF t.fsi = "clean" THEN [t EXCEPT !.fsi = "dirty"] ELSE t
OneMoreFree(t) ==
    IF t.free_clst < fs.n_fatent - 2 THEN [Counted(t) EXCEPT !.free_clst = @ + 1] ELSE t
OneLessFree(t) ==
    IF t.free_clst <= fs.n_fatent - 2 THEN [Counted(t) EXCEPT !.free_clst = @ - 1] ELSE Counted(t)

\* The cluster val, and from it to the next one of its chain.
RemoveRound(t, k) ==
    LET Free(u) == {IF ~Ok(v) THEN v
                    ELSE IF u.val < fs.n_fatent THEN More(OneMoreFree(v)) ELSE OneMoreFree(v) :
                        v \in put_fat(u, t.val, 0)}
    IN  IF t.val \notin Clusters THEN {Result(t, "INT_ERR")}
        ELSE UNION {CASE u.val = 0         -> {Result(u, "OK")}
                      [] u.val = 1         -> {Result(u, "INT_ERR")}
                      [] u.val = DiskError -> {Result(u, "DISK_ERR")}
                      [] OTHER             -> Free(u) : u \in get_fat(t, t.val)}
remove_chain(t, clst) == Loop(RemoveRound, Value(t, clst), fs.n_fatent)

\* Defect: the search does not come around.
SearchUpwards(t, scl) ==
    UNION {IF t.val + 1 >= fs.n_fatent THEN {Value(t, 0)}
           ELSE IF u.val = 0 THEN {Value(u, t.val + 1)}
           ELSE IF u.val \in {1, DiskError} THEN {u}
           ELSE {More(Value(u, t.val + 1))} : u \in get_fat(t, t.val + 1)}

\* The cluster behind val, or the first one; the search ends at scl.
SearchRound(t, scl) ==
    LET wraps == t.val + 1 >= fs.n_fatent
        n == IF wraps THEN 2 ELSE t.val + 1
    IN  IF wraps /\ n > scl THEN {Value(t, 0)}
        ELSE UNION {CASE u.val = 0                -> {Value(u, n)}
                      [] u.val \in {1, DiskError} -> {u}
                      [] OTHER -> {IF n = scl THEN Value(u, 0) ELSE More(Value(u, n))} :
                          u \in get_fat(t, n)}

\* The search for a free cluster, from scl on and around.  val: the cluster,
\* 0 when there is none, 1 or DiskError.
FindFree(t, scl) ==
    LET Round(u, k) == SearchRound(u, scl)
    IN  Loop(Round, Value(t, scl), fs.n_fatent)

\* Defect: a chain's first cluster is not marked.
LinkUnmarked(t, clst, ncl) ==
    LET Linked(v) == IF Ok(v) THEN OneLessFree([Value(v, ncl) EXCEPT !.last_clst = ncl])
                     ELSE Value(v, IF v.res = "DISK_ERR" THEN DiskError ELSE 1)
    IN  IF clst = 0 THEN {Linked(t)}
        ELSE UNION {{Linked(v) : v \in put_fat(u, clst, ncl)} : u \in put_fat(t, ncl, EndOfChain)}

\* Marks the new cluster, and links the last one to it.
LinkCluster(t, clst, ncl) ==
    LET Linked(v) == IF Ok(v) THEN OneLessFree([Value(v, ncl) EXCEPT !.last_clst = ncl])
                     ELSE Value(v, IF v.res = "DISK_ERR" THEN DiskError ELSE 1)
    IN  UNION {IF Ok(u) /\ clst # 0 THEN {Linked(v) : v \in put_fat(u, clst, ncl)} ELSE {Linked(u)} :
                  u \in put_fat(t, ncl, EndOfChain)}

FindThenLink(t, clst, scl) ==
    UNION {IF u.val \in Clusters THEN LinkCluster(u, clst, u.val) ELSE {u} :
              u \in FindFree(t, scl)}

\* A chain that grows tries its next cluster first.
StretchChain(t, clst) ==
    LET ncl == IF clst + 1 >= fs.n_fatent THEN 2 ELSE clst + 1
        Suggested(u) == IF u.last_clst \in Clusters THEN u.last_clst ELSE clst
    IN  UNION {CASE u.val \in {1, DiskError} -> {u}
                 [] u.val = 0                -> LinkCluster(u, clst, ncl)
                 [] OTHER                    -> FindThenLink(u, clst, Suggested(u)) :
                  u \in get_fat(t, ncl)}

\* val: a cluster of the chain of clst, new unless it had one; 0, 1, DiskError.
NewChain(t) ==
    IF t.free_clst = 0 THEN {Value(t, 0)}
    ELSE FindThenLink(t, 0, IF t.last_clst \in Clusters THEN t.last_clst ELSE 1)
create_chain(t, clst) ==
    IF clst = 0 THEN NewChain(t)
    ELSE UNION {CASE u.val < 2          -> {Value(u, 1)}
                  [] u.val = DiskError  -> {u}
                  [] u.val \in Clusters -> {u}
                  [] OTHER -> IF u.free_clst = 0 THEN {Value(u, 0)} ELSE StretchChain(u, clst) :
                      u \in get_fat(t, clst)}

-----------------------------------------------------------------------------
(* Directories.  dp: the table [sclust: its first cluster, 0 for the root, *)
(* dptr: the offset, sect, clust: where that is, fn: the name looked for]. *)
(* The root of FAT32 is a chain, from cluster dirbase on.                  *)

MAX_DIR == 2097152

\* The sectors are written one by one, the window stands for the first.
ClearRound(t, k, sect) ==
    {IF Ok(u) /\ k < fs.csize THEN More(u) ELSE u :
        u \in disk_write(t, sect + k - 1, <<ZeroSector>>)}

dir_clear(t, clst) ==
    LET sect == clst2sect(clst)
        Round(u, k) == ClearRound(u, k, sect)
    IN  UNION {IF Ok(u) THEN Loop(Round, [u EXCEPT !.winsect = sect, !.win = ZeroSector], fs.csize)
               ELSE {u} : u \in sync_window(t)}

At(t, ofs, sect, clust) ==
    [Result(t, "OK") EXCEPT !.dp.dptr = ofs, !.dp.sect = sect, !.dp.clust = clust]

\* dir_sdi to offset 0.
dir_rewind(t) ==
    LET sclust == IF t.dp.sclust = 0 /\ fs.fs_type = "FAT32" THEN fs.dirbase ELSE t.dp.sclust
        sect == IF sclust = 0 THEN fs.dirbase ELSE clst2sect(sclust)
    IN  IF sect = 0 THEN Result(t, "INT_ERR") ELSE At(t, 0, sect, sclust)

NoMore(t) == [Result(t, "NO_FILE") EXCEPT !.dp.sect = 0]

\* The table has come to its end: a cluster is added.
StretchTable(t, ofs) ==
    LET Clear(u) == {IF Ok(v) THEN At(v, ofs, clst2sect(u.val), u.val) ELSE v :
                        v \in dir_clear(u, u.val)}
    IN  UNION {CASE u.val = 0         -> {Result(u, "DENIED")}
                 [] u.val = 1         -> {Result(u, "INT_ERR")}
                 [] u.val = DiskError -> {Result(u, "DISK_ERR")}
                 [] OTHER             -> Clear(u) : u \in create_chain(t, t.dp.clust)}

NextCluster(t, ofs, stretch) ==
    UNION {CASE u.val < 2           -> {Result(u, "INT_ERR")}
             [] u.val = DiskError   -> {Result(u, "DISK_ERR")}
             [] u.val \in Clusters  -> {At(u, ofs, clst2sect(u.val), u.val)}
             [] OTHER -> IF stretch THEN StretchTable(u, ofs) ELSE {NoMore(u)} :
              u \in get_fat(t, t.dp.clust)}

NextSector(t, ofs, stretch) ==
    CASE t.dp.clust = 0 /\ ofs \div drive.dire >= fs.n_rootdir -> {NoMore(t)}
      [] t.dp.clust # 0 /\ (ofs \div ss) % fs.csize = 0 -> NextCluster(t, ofs, stretch)
      [] OTHER -> {At(t, ofs, t.dp.sect + 1, t.dp.clust)}
dir_next(t, stretch) ==
    LET ofs == t.dp.dptr + drive.dire
    IN  IF t.dp.sect = 0 \/ ofs >= MAX_DIR THEN {NoMore(t)}
        ELSE IF ofs % ss = 0 THEN NextSector(t, ofs, stretch)
        ELSE {At(t, ofs, t.dp.sect, t.dp.clust)}

\* The entry dp points to, in the window.
SlotOf(t) == (t.dp.dptr % ss) \div drive.dire
Slot(t) == Entries(t.win)[SlotOf(t)]
SetSlot(t, slot, entry) ==
    [t EXCEPT !.win = <<"dir", [Entries(t.win) EXCEPT ![slot] = entry]>>, !.wflag = TRUE]

\* The entry of dp: it has the name, or the table ends, or the next one; and
\* it is free, or the next one.
FindNext(t) == {IF Ok(u) THEN More(u) ELSE u : u \in dir_next(t, FALSE)}
FindRound(t, k) ==
    UNION {IF ~Ok(u) THEN {u}
           ELSE IF Slot(u).name = <<>> THEN {Result(u, "NO_FILE")}
           ELSE IF Slot(u).name = u.dp.fn THEN {u} ELSE FindNext(u) :
              u \in move_window(t, t.dp.sect)}
AllocNext(t) ==
    {CASE Ok(u)             -> More(u)
       [] u.res = "NO_FILE" -> Result(u, "DENIED")
       [] OTHER             -> u : u \in dir_next(t, TRUE)}
AllocRound(t, k) ==
    UNION {IF ~Ok(u) \/ Slot(u).name = <<>> THEN {u} ELSE AllocNext(u) :
              u \in move_window(t, t.dp.sect)}

\* No table is longer than the root and all clusters together.
MostEntries == fs.n_rootdir + (fs.n_fatent - 2) * fs.csize * Slots + 1
dir_find(t) == LET u == dir_rewind(t) IN IF Ok(u) THEN Loop(FindRound, u, MostEntries) ELSE {u}
dir_alloc(t) == LET u == dir_rewind(t) IN IF Ok(u) THEN Loop(AllocRound, u, MostEntries) ELSE {u}

\* The entry that dir_alloc found is in the window: the code's second call of
\* move_window has nothing to do.
dir_register(t) ==
    {IF Ok(u) THEN SetSlot(u, SlotOf(u), [NoEntry EXCEPT !.name = t.dp.fn]) ELSE u :
        u \in dir_alloc(t)}

-----------------------------------------------------------------------------
(* Names.  A path is a sequence of bytes.                                  *)

Separators == {47, 92}
Blank == 32
Dot == 46
Colon == 58
Illegal == {42, 43, 44, Colon, 59, 60, 61, 62, 91, 93, 124, 34, 63, 127}
Upper(c) == IF c \in 97 .. 122 THEN c - 32 ELSE c
Padded(s, n) == [i \in 1 .. n |-> IF i <= Len(s) THEN s[i] ELSE Blank]

\* The place of the first byte of a path that is in T, or one past it.
FirstOf(path, T) ==
    LET places == {i \in 1 .. Len(path) : path[i] \in T} \cup {Len(path) + 1}
    IN  CHOOSE i \in places : \A k \in places : i <= k
FirstName(path) == FirstOf(path, 0 .. 255 \ Separators)

\* Code page 932: characters of two bytes.
dbc_1st(c) == c \in 129 .. 159 \cup 224 .. 252
dbc_2nd(c) == c \in 64 .. 126 \cup 128 .. 252

\* The path behind the number of drive 0, none for another drive.
get_ldnumber(path) ==
    LET colon == FirstOf(path, 0 .. Blank \cup {Colon})
    IN  IF colon > Len(path) \/ path[colon] # Colon THEN {path}
        ELSE IF colon = 2 /\ path[1] = 48 THEN {SubSeq(path, 3, Len(path))} ELSE {}

Body == 8
Extension == 3
DDEM == 229
RDDEM == 5

\* The second byte of a character: the run of first bytes before it is odd.
IsSecond(path, i) ==
    \E k \in 1 .. i - 1 :
        /\ (i - k) % 2 = 1
        /\ \A n \in k .. i - 1 : dbc_1st(path[n])
        /\ k > 1 => ~dbc_1st(path[k - 1])
Singles(path) == {i \in 1 .. Len(path) : ~dbc_1st(path[i]) /\ ~IsSecond(path, i)}

\* The bytes of a segment in the eleven of an entry.
ShortName(seg) ==
    LET dot == FirstOf(seg, {Dot})
        upper == [i \in DOMAIN seg |-> IF i \in Singles(seg) THEN Upper(seg[i]) ELSE seg[i]]
        sfn == Padded(SubSeq(upper, 1, dot - 1), Body)
               \o Padded(SubSeq(upper, dot + 1, Len(seg)), Extension)
    IN  [i \in DOMAIN sfn |-> IF i = 1 /\ sfn[i] = DDEM THEN RDDEM ELSE sfn[i]]

\* A segment that fits them, of legal bytes and whole characters.
IsName(seg) ==
    LET dot == FirstOf(seg, {Dot})
    IN  /\ seg # <<>>
        /\ dot - 1 <= Body /\ Len(seg) - dot <= Extension
        /\ \A i \in DOMAIN seg :
              /\ seg[i] = Dot => i = dot
              /\ i \in Singles(seg) => seg[i] \notin Illegal
              /\ IsSecond(seg, i) => dbc_2nd(seg[i])
              /\ i = Len(seg) => i \in Singles(seg) \/ IsSecond(seg, i)

\* create_name: a segment as a directory holds it, and the path behind it.  A
\* path's char is signed: bytes from 128 on are less than a blank in the test
\* for the last segment.
create_name(path) ==
    LET ends == {i \in Singles(path) : path[i] \in 0 .. Blank \cup Separators}
        stop == CHOOSE i \in ends \cup {Len(path) + 1} : \A k \in ends : i <= k
        behind == SubSeq(path, stop + 1, Len(path))
        rest == SubSeq(behind, FirstName(behind), Len(behind))
        seg == SubSeq(path, 1, stop - 1)
    IN  [fn |-> ShortName(seg), valid |-> IsName(seg), rest |-> rest,
         last |-> \/ stop > Len(path) \/ path[stop] <= Blank
                  \/ rest = <<>> \/ rest[1] \in 0 .. Blank \cup 128 .. 255]

\* A segment of the path, in the table dp names.
FollowRound(t, k) ==
    LET name == create_name(t.path)
        Enter(u) == {More([u EXCEPT !.dp.sclust = Slot(u).clust, !.path = name.rest])}
    IN  IF ~name.valid THEN {Result(t, "INVALID_NAME")}
        ELSE UNION {IF u.res = "NO_FILE" /\ ~name.last THEN {Result(u, "NO_PATH")}
                    ELSE IF ~Ok(u) \/ name.last THEN {u}
                    ELSE IF ~Slot(u).dir THEN {Result(u, "NO_PATH")} ELSE Enter(u) :
                       u \in dir_find([t EXCEPT !.dp.fn = name.fn])}

\* An empty path is the root itself, an object without a name.
Origin(t) == [dir_rewind(t) EXCEPT !.dp.fn = <<>>]

follow_path(t, path) ==
    LET name == SubSeq(path, FirstName(path), Len(path))
        root == [t EXCEPT !.dp.sclust = 0, !.path = name]
    IN  IF name = <<>> \/ name[1] < Blank THEN {Origin(root)}
        ELSE Loop(FollowRound, root, Len(path))

\* mount_volume finds the drive, and a volume that is mounted.
Located(t, path) ==
    IF get_ldnumber(path) = {} THEN {Result(t, "INVALID_DRIVE")}
    ELSE UNION {follow_path(t, p) : p \in get_ldnumber(path)}

-----------------------------------------------------------------------------
(* f_mkdir and f_open.                                                     *)

DotName == Padded(<<Dot>>, Body + Extension)
DotDotName == Padded(<<Dot, Dot>>, Body + Extension)
DirEntry(name, clust) == [NoEntry EXCEPT !.name = name, !.dir = TRUE, !.clust = clust]

\* The new table in cluster dcl: the entries of itself and of its parent.
NewTable(t, dcl) ==
    LET table == [i \in 0 .. Slots - 1 |->
                    CASE i = 0 -> DirEntry(DotName, dcl)
                      [] i = 1 -> DirEntry(DotDotName, t.dp.sclust)
                      [] OTHER -> NoEntry]
    IN  {IF Ok(u) THEN [u EXCEPT !.win = <<"dir", table>>, !.wflag = TRUE] ELSE u :
            u \in dir_clear(t, dcl)}

\* Defect: the cluster of a directory that could not be entered is kept.
KeepsCluster(t, dcl) == {t}

\* "Could not register, remove the allocated cluster"
FreesCluster(t, dcl) == {Result(u, t.res) : u \in remove_chain(t, dcl)}

\* The directory in its parent, and on the disk.
Register(t, dcl) ==
    UNION {IF Ok(u) THEN sync_fs(SetSlot(u, SlotOf(u), DirEntry(t.dp.fn, dcl)))
           ELSE FreesCluster(u, dcl) : u \in dir_register(t)}

MakeDirectory(t) ==
    LET Fill(u) == UNION {IF Ok(v) THEN Register(v, u.val) ELSE FreesCluster(v, u.val) :
                             v \in NewTable(Result(u, "OK"), u.val)}
    IN  UNION {CASE u.val = 0         -> {Result(u, "DENIED")}
                 [] u.val = 1         -> {Result(u, "INT_ERR")}
                 [] u.val = DiskError -> {Result(u, "DISK_ERR")}
                 [] OTHER             -> Fill(u) : u \in create_chain(t, 0)}

f_mkdir(t, path) ==
    UNION {CASE u.res = "NO_FILE" -> MakeDirectory(u)
             [] Ok(u)             -> {Result(u, "EXIST")}
             [] OTHER             -> {u} : u \in Located(t, path)}

NoFile == [sclust |-> 0, objsize |-> 0, sect |-> 0, clust |-> 0,
           buf |-> [i \in 0 .. ss - 1 |-> NoCell], dirty |-> FALSE, modified |-> FALSE,
           err |-> "OK", dir_sect |-> 0, dir_slot |-> 0, bw |-> 0]

\* f_open with FA_CREATE_NEW: the entry is in the window when it returns.
f_open(t, path) ==
    LET Opened(v) == [v EXCEPT !.fp = [NoFile EXCEPT
                        !.modified = TRUE, !.dir_sect = v.winsect, !.dir_slot = SlotOf(v)]]
    IN  UNION {CASE Ok(u) /\ u.dp.fn = <<>> -> {Result(u, "INVALID_NAME")}
                 [] Ok(u) /\ u.dp.fn # <<>> -> {Result(u, IF Slot(u).dir THEN "DENIED" ELSE "EXIST")}
                 [] u.res = "NO_FILE" -> {IF Ok(v) THEN Opened(v) ELSE v : v \in dir_register(u)}
                 [] OTHER             -> {u} : u \in Located(t, path)}

-----------------------------------------------------------------------------
(* f_write and f_close.  The file pointer stands at the end of the file:   *)
(* objsize.  bw counts what a call of f_write has taken.                   *)

Abort(t, res) == [Result(t, res) EXCEPT !.fp.err = res]

\* Defect: the buffer counts as written even if it could not be.
WriteBackOnce(t) ==
    IF ~t.fp.dirty THEN {Result(t, "OK")}
    ELSE {[u EXCEPT !.fp.dirty = FALSE] :
             u \in disk_write(t, t.fp.sect, <<<<"data", t.fp.buf>>>>)}

\* "Write-back sector cache"
WriteBack(t) ==
    IF ~t.fp.dirty THEN {Result(t, "OK")}
    ELSE {[u EXCEPT !.fp.dirty = ~Ok(u)] :
             u \in disk_write(t, t.fp.sect, <<<<"data", t.fp.buf>>>>)}

Took(t, n) == [Result(t, "OK") EXCEPT !.fp.objsize = @ + n, !.fp.bw = @ + n]

\* A piece goes into the sector buffer.
TakeIntoBuffer(t, data) ==
    LET ofs == t.fp.objsize % ss
        n == IF ss - ofs < Len(data) THEN ss - ofs ELSE Len(data)
    IN  [Took(t, n) EXCEPT
            !.fp.buf = [i \in 0 .. ss - 1 |->
                          IF i \in ofs .. ofs + n - 1 THEN data[i - ofs + 1] ELSE @[i]],
            !.fp.dirty = TRUE]

\* Defect: a run of sectors is not clipped.
RunUnclipped(csect, n) == n \div ss

\* "Clip at cluster boundary"
Run(csect, n) == IF csect + n \div ss > fs.csize THEN fs.csize - csect ELSE n \div ss

\* Whole sectors go to the disk past the buffer.
WriteDirect(t, sect, cc, data) ==
    {IF Ok(u) THEN Took(u, cc * ss) ELSE Abort(u, u.res) :
        u \in disk_write(t, sect,
                [k \in 1 .. cc |-> <<"data", [i \in 0 .. ss - 1 |-> data[(k - 1) * ss + i + 1]]>>])}

\* On a sector boundary, in a cluster of the file.
WriteSector(t, data) ==
    LET csect == (t.fp.objsize \div ss) % fs.csize
        sect == clst2sect(t.fp.clust)
        Put(u) == IF Len(data) >= ss
                  THEN WriteDirect(u, sect + csect, Run(csect, Len(data)), data)
                  ELSE {TakeIntoBuffer([u EXCEPT !.fp.sect = sect + csect], data)}
    IN  UNION {CASE ~Ok(u)             -> {Abort(u, u.res)}
                 [] Ok(u) /\ sect = 0  -> {Abort(u, "INT_ERR")}
                 [] Ok(u) /\ sect # 0  -> Put(u) : u \in WriteBack(t)}

\* On a cluster boundary.  A volume without a free cluster takes nothing.
EnterCluster(t, data) ==
    UNION {CASE c.val = 0         -> {Result(c, "OK")}
             [] c.val = 1         -> {Abort(c, "INT_ERR")}
             [] c.val = DiskError -> {Abort(c, "DISK_ERR")}
             [] OTHER -> WriteSector([c EXCEPT !.fp.clust = c.val,
                                               !.fp.sclust = IF @ = 0 THEN c.val ELSE @], data) :
              c \in create_chain(t, IF t.fp.objsize = 0 THEN 0 ELSE t.fp.clust)}

\* A piece of the data; a full volume takes nothing, which is no error.
Piece(t, data) ==
    IF t.fp.objsize % ss # 0 THEN {TakeIntoBuffer(t, data)}
    ELSE IF (t.fp.objsize \div ss) % fs.csize = 0 THEN EnterCluster(t, data)
    ELSE WriteSector(t, data)
WriteRound(t, data) ==
    LET left == SubSeq(data, t.fp.bw + 1, Len(data))
        Written(u) == [u EXCEPT !.fp.modified = TRUE]
    IN  IF left = <<>> THEN {Written(t)}
        ELSE {IF ~Ok(u) THEN u
              ELSE IF u.fp.objsize = t.fp.objsize THEN Written(u) ELSE More(u) :
                 u \in Piece(t, left)}

f_write(t, data) ==
    LET u == [t EXCEPT !.fp.bw = 0]
        Round(v, k) == WriteRound(v, data)
    IN  IF t.fp.err # "OK" THEN {Result(u, t.fp.err)} ELSE Loop(Round, u, Len(data) + 1)

\* f_close: f_sync writes back the buffer and the entry.
f_close(t) ==
    LET slot == t.fp.dir_slot
        Entry(v) == [Entries(v.win)[slot] EXCEPT !.clust = t.fp.sclust, !.size = t.fp.objsize]
        Update(v) == {[w EXCEPT !.fp.modified = FALSE] : w \in sync_fs(SetSlot(v, slot, Entry(v)))}
        Enter(u) == UNION {IF Ok(v) THEN Update(v) ELSE {v} : v \in move_window(u, t.fp.dir_sect)}
    IN  IF ~t.fp.modified THEN {Result(t, "OK")}
        ELSE UNION {IF Ok(u) THEN Enter(u) ELSE {u} : u \in WriteBack(t)}
=============================================================================
