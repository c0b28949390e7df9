--------------------------- MODULE FatVolumeProofs ---------------------------
(***************************************************************************)
(* Theorems about FatFs at work with its own sizes: on a drive of any      *)
(* number of sectors, with any folder, and with a disk that may fail in    *)
(* any access.  No call leaves the volume, puts a thing where another kind *)
(* of thing belongs, or touches what f_mkfs wrote for the next mount; and  *)
(* every directory and every file has a chain of clusters of its own.      *)
(*                                                                         *)
(* Every operator of FatFs takes a memory to a set of memories.  The       *)
(* lemmas go from the disk up to the calls and say of each operator that   *)
(* it takes a sane memory to sane memories, and what it does not touch;    *)
(* the loops are shown by induction over their rounds.  A sane memory is   *)
(* one whose sectors hold what belongs there and whose FAT is a set of     *)
(* chains that end, each begun by one entry, the root or the open file.    *)
(* What is read back from the disk follows from that, chain by chain and   *)
(* directory by directory.                                                 *)
(***************************************************************************)
EXTENDS FatProofs

-----------------------------------------------------------------------------
(* What holds of the volume, of a memory, and of its objects.              *)

\* What a sector may hold: outside the volume, nothing.
Holds(s, x) ==
    /\ s \in Nat /\ s < VolumeEnd
    /\ s < fs.fatbase => x[1] \in {"mbr", "vbr", "fsinfo"}
    /\ FatSector(s) => x[1] \in {"fat", "zero"}
    /\ TableSector(s) => x[1] \in {"dir", "data", "zero"}
    /\ TableSector(s) /\ ~DataSector(s) => x[1] \in {"dir", "zero"}

\* The window is a sector of the volume, or none; the first sectors of the
\* disk are those of the variable disk.
Fields == {"disk", "win", "winsect", "wflag", "last_clst", "free_clst", "fsi", "fp", "broken",
           "dp", "res", "val", "path"}
Proper(t, f, q) ==
    /\ DOMAIN t = Fields
    /\ t.fp = f /\ t.dp = q
    /\ \A s \in DOMAIN t.disk : Holds(s, t.disk[s])
    /\ \A s \in {0, 63} : SectorAt(t.disk, s) = SectorAt(disk, s)
    /\ t.winsect \in {NoSector} \cup 0 .. fs.fatbase - 1 \/ Holds(t.winsect, t.win)
    /\ t.wflag \in BOOLEAN
    /\ t.wflag => t.winsect \in fs.fatbase .. VolumeEnd - 1
    /\ t.last_clst \in Clusters \cup {Unknown}
    /\ t.fsi # "none" => fs.fs_type = "FAT32"

\* What a sector is now or may be again: what the window holds of it, and
\* what the disk holds, unless the window is to be written there.
Shows(t, s, x) ==
    \/ s = t.winsect /\ x = t.win
    \/ ~(t.wflag /\ s = t.winsect) /\ x = SectorAt(t.disk, s)
Seen(t, s) == IF s = t.winsect THEN t.win ELSE SectorAt(t.disk, s)

\* From t to u nothing new is to be seen: in the FAT nothing at all, and in
\* the tables no entries.
NewIn(t, s, x) ==
    /\ FatSector(s) => Shows(t, s, x)
    /\ TableSector(s) => Shows(t, s, x) \/ x[1] # "dir"
Weakens(t, u) == u.broken = "no" => t.broken = "no"
Quiet(t, u) == (\A s, x : Shows(u, s, x) => NewIn(t, s, x)) /\ Weakens(t, u)
QuietTables(t, u) ==
    /\ \A s, x : Shows(u, s, x) /\ TableSector(s) => Shows(t, s, x) \/ x[1] # "dir"
    /\ Weakens(t, u)

\* The window and the disk agree about the FAT, whose sectors are bytes.
Coherent(t) ==
    \A s : FatSector(s) =>
        /\ \A x : Shows(t, s, x) => x = Seen(t, s)
        /\ FatBytes(Seen(t, s)) \in [0 .. ss - 1 -> 0 .. 255]
BytesSeen(t) == [b \in FatPlaces |-> FatBytes(Seen(t, fs.fatbase + b \div 512))[b % 512]]
Fat(t) == [c \in Clusters |-> EntryOf(BytesSeen(t), c)]

\* The entry at a place of a table, and the cluster that it claims.
IsNamed(e) == e.name \notin {<<>>, DotName, DotDotName}
Claims(t, s, i, c) ==
    /\ TableSector(s) /\ c # 0
    /\ \E x : /\ Shows(t, s, x) /\ x[1] = "dir" /\ i \in DOMAIN x[2]
              /\ IsNamed(x[2][i]) /\ x[2][i].clust = c

\* A directory has a cluster, and the entry of the open file is none of a
\* directory.
Tabular(x) ==
    /\ DOMAIN x = 0 .. Slots - 1
    /\ \A i \in 0 .. Slots - 1 : /\ DOMAIN x[i] = DOMAIN NoEntry
                                 /\ IsNamed(x[i]) /\ x[i].dir => x[i].clust # 0
TablesFit(t) ==
    \A s, x : TableSector(s) /\ Shows(t, s, x) /\ x[1] = "dir" => Tabular(x[2])
FileFits(t, f) ==
    TableSector(f.dir_sect) =>
        \A x : Shows(t, f.dir_sect, x) /\ x[1] = "dir" /\ f.dir_slot \in DOMAIN x[2] =>
            ~x[2][f.dir_slot].dir

\* The clusters in h belong to whoever holds them, one to FAT32's root, and
\* the others to the entries that claim them: to one each, and with a chain.
Rooted == {RootChain} \ {0}
Owned(t, h, c) == c \in h \/ c \in Rooted \/ \E s, i : Claims(t, s, i, c)
Alone(t, h) ==
    /\ h \cap Rooted = {}
    /\ \A s, i, c : Claims(t, s, i, c) => c \notin h /\ c \notin Rooted
    /\ \A s, i, r, k, c : Claims(t, s, i, c) /\ Claims(t, r, k, c) => s = r /\ i = k
Linked(t, h) ==
    \E J \in SUBSET Clusters :
        /\ Chained(Fat(t), J, t.broken)
        /\ \A c : Owned(t, h, c) => Begins(Fat(t), J, c)

\* A FAT12 entry that a failure has cut in two can be that of a cluster on
\* the largest volumes.
Whole(t) == t.broken = "no" \/ fs.fs_type # "FAT12" \/ fs.n_fatent <= HalfEntry

Grounded(t, f, h) ==
    /\ Coherent(t) /\ TablesFit(t) /\ FileFits(t, f)
    /\ Whole(t) => Alone(t, h) /\ Linked(t, h)
Sane(t, f, q, h) == Proper(t, f, q) /\ Grounded(t, f, h)

\* What fits where.
LEMMA ZeroFits ==
    ASSUME Areas, NEW s \in Nat, fs.fatbase <= s, s < VolumeEnd
    PROVE  Holds(s, ZeroSector)
BY DEF Holds, ZeroSector, Areas, FatSector, TableSector, DataSector

LEMMA FatFits ==
    ASSUME Areas, NEW s, FatSector(s), NEW x
    PROVE  Holds(s, <<"fat", x>>) /\ s \in fs.fatbase .. VolumeEnd - 1 /\ s # NoSector
BY SectorsEnd DEF Holds, Areas, FatSector, TableSector, DataSector

LEMMA TableFits ==
    ASSUME Areas, NEW s, TableSector(s), NEW x
    PROVE  Holds(s, <<"dir", x>>) /\ s \in fs.fatbase .. VolumeEnd - 1 /\ s # NoSector
BY SectorsEnd DEF Holds, Areas, FatSector, TableSector, DataSector

LEMMA DataFits ==
    ASSUME Areas, NEW s, DataSector(s), NEW x
    PROVE  Holds(s, <<"data", x>>) /\ s \in fs.fatbase .. VolumeEnd - 1 /\ TableSector(s)
BY SectorsEnd DEF Holds, Areas, FatSector, TableSector, DataSector

-----------------------------------------------------------------------------
(* The disk and the window.                                                *)

\* u differs from t in what Sane does not ask for.
Like(t, u) ==
    /\ DOMAIN u = Fields /\ Weakens(t, u)
    /\ u.disk = t.disk /\ u.win = t.win /\ u.winsect = t.winsect /\ u.wflag = t.wflag
    /\ u.last_clst = t.last_clst /\ u.fsi = t.fsi /\ u.fp = t.fp /\ u.dp = t.dp

LEMMA ProperLike ==
    ASSUME NEW t, NEW u, NEW f, NEW q, Proper(t, f, q), Like(t, u)
    PROVE  Proper(u, f, q) /\ Quiet(t, u)
BY DEF Proper, Like, Quiet, NewIn, Shows

LEMMA ResultIs ==
    ASSUME NEW t, DOMAIN t = Fields, NEW r
    PROVE  /\ Like(t, Result(t, r)) /\ Result(t, r).res = r /\ Result(t, r).val = t.val
           /\ Result(t, r).path = t.path /\ Result(t, r).free_clst = t.free_clst
BY DEF Like, Result, Fields, Weakens

LEMMA ValueIs ==
    ASSUME NEW t, DOMAIN t = Fields, NEW n
    PROVE  /\ Like(t, Value(t, n)) /\ Value(t, n).val = n /\ Value(t, n).res = t.res
           /\ Value(t, n).path = t.path /\ Value(t, n).free_clst = t.free_clst
BY DEF Like, Value, Fields, Weakens

LEMMA QuietOnward ==
    ASSUME NEW t, NEW u, NEW v, Quiet(t, u), Quiet(u, v)
    PROVE  Quiet(t, v)
BY DEF Quiet, NewIn, Weakens

\* An access happens, or fails.
LEMMA AccessIs ==
    ASSUME NEW t, NEW w, DOMAIN t = Fields, DOMAIN w = Fields, NEW u \in Access(t, w)
    PROVE  \/ Like(w, u) /\ u.res = "OK" /\ u.val = w.val /\ u.path = w.path
           \/ /\ Like(t, u) /\ u.res = "DISK_ERR" /\ u.val = t.val /\ u.path = t.path
              /\ u.broken # "no"
<1> DEFINE F(b) == [Result(t, "DISK_ERR") EXCEPT !.broken = b]
<1>1. u = Result(w, "OK") \/ \E b \in {"once", "for good"} : u = F(b)
  BY DEF Access
<1>2. CASE u = Result(w, "OK")
  BY <1>2, ResultIs
<1>3. ASSUME NEW b \in {"once", "for good"}, u = F(b)
      PROVE  /\ Like(t, u) /\ u.res = "DISK_ERR" /\ u.val = t.val /\ u.path = t.path
             /\ u.broken # "no"
  BY <1>3 DEF Like, Result, Fields, Weakens
<1> QED BY <1>1, <1>2, <1>3

\* What an access leaves alone.
Answers(t, u) ==
    /\ u.res \in {"OK", "DISK_ERR"} /\ u.val = t.val /\ u.path = t.path
    /\ u.res = "DISK_ERR" => u.broken # "no"
SameWindow(t, u) == u.win = t.win /\ u.winsect = t.winsect /\ u.wflag = t.wflag

\* What fits its sector may be written, behind the first ones, in part or whole.
LEMMA StoredProper ==
    ASSUME Areas, NEW t, NEW f, NEW q, Proper(t, f, q), NEW sect \in Nat, 63 < sect,
           NEW c, Len(c) \in Nat, NEW n \in 0 .. Len(c),
           \A i \in 1 .. Len(c) : Holds(sect + i - 1, c[i]) /\ NewIn(t, sect + i - 1, c[i]),
           NEW w, w = Stored(t, sect, c, n)
    PROVE  /\ Proper(w, f, q) /\ Quiet(t, w) /\ SameWindow(t, w)
           /\ w.fsi = t.fsi /\ w.val = t.val /\ w.path = t.path
           /\ \A i \in 1 .. n : SectorAt(w.disk, sect + i - 1) = c[i]
<1> DEFINE written == sect .. sect + n - 1
           d == [s \in DOMAIN t.disk \cup written |->
                    IF s \in written THEN c[s - sect + 1] ELSE t.disk[s]]
<1>1. DOMAIN t = Fields
  BY DEF Proper
<1>2. w = [t EXCEPT !.disk = d]
  BY DEF Stored
<1> HIDE DEF d
<1>3. /\ DOMAIN w = Fields /\ w.disk = d
      /\ w.win = t.win /\ w.winsect = t.winsect /\ w.wflag = t.wflag
      /\ w.last_clst = t.last_clst /\ w.fsi = t.fsi /\ w.fp = t.fp /\ w.dp = t.dp
      /\ w.val = t.val /\ w.path = t.path /\ w.broken = t.broken
  BY <1>1, <1>2 DEF Fields
<1>4. ASSUME NEW s \in DOMAIN d PROVE Holds(s, d[s])
  <2>1. CASE s \in written
    <3>1. d[s] = c[s - sect + 1]
      BY <2>1 DEF d
    <3>2. s - sect + 1 \in 1 .. Len(c) /\ sect + (s - sect + 1) - 1 = s
      BY <2>1
    <3> QED BY <3>1, <3>2
  <2>2. CASE s \notin written
    BY <1>4, <2>2 DEF d, Proper
  <2> QED BY <2>1, <2>2
<1>5. ASSUME NEW s \in {0, 63} PROVE SectorAt(d, s) = SectorAt(t.disk, s)
  <2>1. s \notin written
    BY <1>5
  <2> QED BY <2>1 DEF d, SectorAt
<1>6. Proper(w, f, q)
  BY <1>3, <1>4, <1>5 DEF Proper
<1>7. ASSUME NEW i \in 1 .. n PROVE SectorAt(d, sect + i - 1) = c[i]
  <2>1. sect + i - 1 \in written /\ (sect + i - 1) - sect + 1 = i
    OBVIOUS
  <2> QED BY <2>1 DEF d, SectorAt
<1>8. ASSUME NEW s, s \notin written PROVE SectorAt(d, s) = SectorAt(t.disk, s)
  BY <1>8 DEF d, SectorAt
<1>9. Quiet(t, w)
  <2>1. ASSUME NEW s, NEW x, Shows(w, s, x) PROVE Shows(t, s, x) \/ NewIn(t, s, x)
    <3>1. CASE s \in written
      <4>1. s - sect + 1 \in 1 .. n /\ n <= Len(c) /\ sect + (s - sect + 1) - 1 = s
        BY <3>1
      <4>2. SectorAt(d, s) = c[s - sect + 1] /\ NewIn(t, s, c[s - sect + 1])
        BY <1>7, <4>1
      <4> QED BY <1>3, <2>1, <4>2 DEF Shows
    <3>2. CASE s \notin written
      BY <1>3, <1>8, <2>1, <3>2 DEF Shows
    <3> QED BY <3>1, <3>2
  <2> QED BY <1>3, <2>1 DEF Quiet, NewIn, Weakens
<1> QED BY <1>3, <1>6, <1>7, <1>9 DEF SameWindow

LEMMA DiskWriteProper ==
    ASSUME Areas, NEW t, NEW f, NEW q, Proper(t, f, q), NEW sect \in Nat, 63 < sect,
           NEW c, Len(c) \in Nat,
           \A i \in 1 .. Len(c) : Holds(sect + i - 1, c[i]) /\ NewIn(t, sect + i - 1, c[i]),
           NEW u \in disk_write(t, sect, c)
    PROVE  /\ Proper(u, f, q) /\ Quiet(t, u)
           /\ Answers(t, u) /\ SameWindow(t, u) /\ u.fsi = t.fsi
           /\ Ok(u) => \A i \in 1 .. Len(c) : SectorAt(u.disk, sect + i - 1) = c[i]
<1> DEFINE w == Stored(t, sect, c, Len(c))
<1>1. PICK n \in 0 .. Len(c) - 1 : u \in Access(Stored(t, sect, c, n), w)
  BY DEF disk_write
<1> DEFINE v == Stored(t, sect, c, n)
<1>2. /\ n \in 0 .. Len(c) /\ Len(c) \in 0 .. Len(c)
      /\ v = Stored(t, sect, c, n) /\ w = Stored(t, sect, c, Len(c)) /\ u \in Access(v, w)
  BY <1>1
<1> HIDE DEF v, w
<1>3. /\ Proper(v, f, q) /\ Quiet(t, v) /\ SameWindow(t, v)
      /\ v.fsi = t.fsi /\ v.val = t.val /\ v.path = t.path
  BY <1>2, StoredProper
<1>4. /\ Proper(w, f, q) /\ Quiet(t, w) /\ SameWindow(t, w)
      /\ w.fsi = t.fsi /\ w.val = t.val /\ w.path = t.path
      /\ \A i \in 1 .. Len(c) : SectorAt(w.disk, sect + i - 1) = c[i]
  BY <1>2, StoredProper
<1>5. DOMAIN v = Fields /\ DOMAIN w = Fields
  BY <1>3, <1>4 DEF Proper
<1>7. CASE Like(w, u) /\ u.res = "OK" /\ u.val = w.val /\ u.path = w.path
  <2>1. Proper(u, f, q) /\ Quiet(t, u)
    BY <1>4, <1>7, ProperLike, QuietOnward
  <2>2. \A i \in 1 .. Len(c) : SectorAt(u.disk, sect + i - 1) = c[i]
    BY <1>4, <1>7 DEF Like
  <2> QED BY <1>4, <1>7, <2>1, <2>2 DEF Answers, SameWindow, Like
<1>8. CASE /\ Like(v, u) /\ u.res = "DISK_ERR" /\ u.val = v.val /\ u.path = v.path
           /\ u.broken # "no"
  <2>1. Proper(u, f, q) /\ Quiet(t, u)
    BY <1>3, <1>8, ProperLike, QuietOnward
  <2> QED BY <1>3, <1>8, <2>1 DEF Answers, SameWindow, Like, Ok
<1> QED BY <1>2, <1>5, <1>7, <1>8, AccessIs

LEMMA SyncWindowProper ==
    ASSUME Areas, NEW t, NEW f, NEW q, Proper(t, f, q), NEW u \in sync_window(t)
    PROVE  /\ Proper(u, f, q) /\ Quiet(t, u) /\ Answers(t, u)
           /\ u.win = t.win /\ u.winsect = t.winsect /\ u.fsi = t.fsi
           /\ Ok(u) => ~u.wflag
<1>1. CASE ~t.wflag
  <2>1. u = Result(t, "OK") /\ DOMAIN t = Fields
    BY <1>1 DEF sync_window, Proper
  <2>2. Like(t, u) /\ u.res = "OK" /\ u.val = t.val /\ u.path = t.path
    BY <2>1, ResultIs
  <2> QED BY <1>1, <2>2, ProperLike DEF Answers, Like
<1>2. CASE t.wflag
  <2>1. PICK v \in disk_write(t, t.winsect, <<t.win>>) : u = [v EXCEPT !.wflag = ~Ok(v)]
    BY <1>2 DEF sync_window
  <2>2. /\ t.winsect \in Nat /\ 63 < t.winsect /\ t.winsect # NoSector
        /\ Holds(t.winsect, t.win)
    BY <1>2, SectorsEnd DEF Proper, Areas
  <2> DEFINE c == <<t.win>>
  <2>3. Len(c) = 1 /\ c[1] = t.win
    OBVIOUS
  <2>4. \A i \in 1 .. Len(c) : i = 1 /\ t.winsect + i - 1 = t.winsect
    BY <2>2, <2>3
  <2>5. v \in disk_write(t, t.winsect, c)
    BY <2>1
  <2>6. NewIn(t, t.winsect, t.win)
    BY DEF NewIn, Shows
  <2> HIDE DEF c
  <2>7. \A i \in 1 .. Len(c) : Holds(t.winsect + i - 1, c[i]) /\ NewIn(t, t.winsect + i - 1, c[i])
    BY <2>2, <2>3, <2>4, <2>6
  <2>8. /\ Proper(v, f, q) /\ Quiet(t, v) /\ Answers(t, v) /\ SameWindow(t, v)
        /\ v.fsi = t.fsi
        /\ Ok(v) => \A i \in 1 .. Len(c) : SectorAt(v.disk, t.winsect + i - 1) = c[i]
    BY <2>2, <2>3, <2>5, <2>7, DiskWriteProper
  <2>9. DOMAIN v = Fields /\ v.winsect \in fs.fatbase .. VolumeEnd - 1
    BY <1>2, <2>8 DEF Proper, SameWindow
  <2>10. /\ DOMAIN u = Fields /\ u.disk = v.disk /\ u.win = v.win /\ u.winsect = v.winsect
         /\ u.last_clst = v.last_clst /\ u.fsi = v.fsi /\ u.fp = v.fp /\ u.dp = v.dp
         /\ u.res = v.res /\ u.val = v.val /\ u.path = v.path /\ u.broken = v.broken
    BY <2>1, <2>9 DEF Fields
  <2>11. u.wflag = ~Ok(v) /\ u.wflag \in BOOLEAN
    BY <2>1, <2>9 DEF Fields
  <2>12. Proper(u, f, q)
    BY <2>8, <2>9, <2>10, <2>11 DEF Proper
  <2>13. Ok(u) => ~u.wflag
    BY <2>10, <2>11 DEF Ok
  <2>14. Quiet(t, u)
    <3>1. Ok(v) => SectorAt(v.disk, t.winsect) = t.win
      BY <2>2, <2>3, <2>4, <2>8
    <3>2. ASSUME NEW s, NEW x, Shows(u, s, x) PROVE Shows(t, s, x) \/ Shows(v, s, x)
      BY <1>2, <2>8, <2>10, <2>11, <3>1, <3>2 DEF Shows, SameWindow
    <3> QED BY <2>8, <2>10, <3>2 DEF Quiet, NewIn, Weakens
  <2> QED BY <2>8, <2>10, <2>12, <2>13, <2>14 DEF Answers, SameWindow
<1> QED BY <1>1, <1>2

\* The window moves to a sector of the FAT or behind.
LEMMA MoveWindowProper ==
    ASSUME Areas, NEW t, NEW f, NEW q, Proper(t, f, q),
           NEW sect \in Nat, fs.fatbase <= sect, sect < VolumeEnd,
           NEW u \in move_window(t, sect)
    PROVE  /\ Proper(u, f, q) /\ Quiet(t, u) /\ Answers(t, u) /\ u.fsi = t.fsi
           /\ Ok(u) => u.winsect = sect
<1>1. CASE sect = t.winsect
  <2>1. u = Result(t, "OK") /\ DOMAIN t = Fields
    BY <1>1 DEF move_window, Proper
  <2>2. Like(t, u) /\ u.res = "OK" /\ u.val = t.val /\ u.path = t.path
    BY <2>1, ResultIs
  <2> QED BY <1>1, <2>2, ProperLike DEF Answers, Like
<1>2. CASE sect # t.winsect
  <2>1. PICK v \in sync_window(t) : u \in (IF Ok(v) THEN ReadWindow(v, sect) ELSE {v})
    BY <1>2 DEF move_window
  <2>2. /\ Proper(v, f, q) /\ Quiet(t, v) /\ Answers(t, v) /\ v.fsi = t.fsi
        /\ Ok(v) => ~v.wflag
    BY <2>1, SyncWindowProper
  <2>3. CASE ~Ok(v)
    BY <2>1, <2>2, <2>3
  <2>4. CASE Ok(v)
    <3> DEFINE x == SectorAt(v.disk, sect)
               w == [v EXCEPT !.win = x]
    <3>1. PICK y \in Access(v, w) : u = [y EXCEPT !.winsect = IF Ok(y) THEN sect ELSE NoSector]
      BY <2>1, <2>4 DEF ReadWindow
    <3>2. DOMAIN v = Fields /\ v.wflag \in BOOLEAN /\ ~v.wflag
      BY <2>2, <2>4 DEF Proper
    <3>3. Holds(sect, x)
      BY <2>2, ZeroFits DEF Proper, SectorAt
    <3> HIDE DEF x
    <3>4. /\ DOMAIN w = Fields /\ w.disk = v.disk /\ w.win = x
          /\ w.wflag = v.wflag /\ w.last_clst = v.last_clst /\ w.fsi = v.fsi
          /\ w.fp = v.fp /\ w.dp = v.dp /\ w.val = v.val /\ w.path = v.path
          /\ w.broken = v.broken
      BY <3>2 DEF Fields
    <3> HIDE DEF w
    <3>5. /\ DOMAIN y = Fields /\ y.disk = v.disk
          /\ y.wflag = v.wflag /\ y.last_clst = v.last_clst /\ y.fsi = v.fsi
          /\ y.fp = v.fp /\ y.dp = v.dp /\ y.val = v.val /\ y.path = v.path
          /\ y.res \in {"OK", "DISK_ERR"} /\ (y.res = "DISK_ERR" => y.broken # "no")
          /\ Ok(y) => y.win = x
          /\ y.broken = "no" => v.broken = "no"
      BY <3>1, <3>2, <3>4, AccessIs DEF Like, Ok, Weakens
    <3>6. /\ DOMAIN u = Fields /\ u.disk = v.disk /\ u.win = y.win
          /\ u.wflag = v.wflag /\ u.last_clst = v.last_clst /\ u.fsi = v.fsi
          /\ u.fp = v.fp /\ u.dp = v.dp /\ u.val = v.val /\ u.path = v.path
          /\ u.res = y.res /\ u.broken = y.broken
          /\ u.winsect = IF Ok(y) THEN sect ELSE NoSector
      BY <3>1, <3>5 DEF Fields
    <3>7. Proper(u, f, q)
      BY <2>2, <3>2, <3>3, <3>5, <3>6 DEF Proper
    <3>8. Quiet(v, u)
      <4>1. ASSUME NEW s, NEW y0, Shows(u, s, y0) PROVE Shows(v, s, y0) \/ s = NoSector
        BY <3>2, <3>5, <3>6, <4>1 DEF Shows, x
      <4>2. ~FatSector(NoSector) /\ ~TableSector(NoSector)
        BY SectorsEnd DEF FatSector, TableSector, Areas
      <4> QED BY <3>5, <3>6, <4>1, <4>2 DEF Quiet, NewIn, Weakens
    <3> QED BY <2>2, <3>5, <3>6, <3>7, <3>8, QuietOnward DEF Answers, Ok
  <2> QED BY <2>3, <2>4
<1> QED BY <1>1, <1>2

\* FSInfo lies in front of the FAT.
LEMMA SyncFsProper ==
    ASSUME Areas, NEW t, NEW f, NEW q, Proper(t, f, q), NEW u \in sync_fs(t)
    PROVE  Proper(u, f, q) /\ Quiet(t, u) /\ u.res \in {"OK", "DISK_ERR"}
<1>1. PICK v \in sync_window(t) : u \in (IF Ok(v) /\ v.fsi = "dirty" THEN WriteInfo(v) ELSE {v})
  BY DEF sync_fs
<1>2. /\ Proper(v, f, q) /\ Quiet(t, v) /\ Answers(t, v) /\ v.fsi = t.fsi
      /\ Ok(v) => ~v.wflag
  BY <1>1, SyncWindowProper
<1>3. CASE ~(Ok(v) /\ v.fsi = "dirty")
  BY <1>1, <1>2, <1>3 DEF Answers
<1>4. CASE Ok(v) /\ v.fsi = "dirty"
  <2> DEFINE info == FsInfo(v.free_clst, v.last_clst)
             c == <<info>>
             sect == fs.volbase + 1
  <2>1. fs.fs_type = "FAT32" /\ sect = 64 /\ 70 < fs.fatbase
    BY <1>2, <1>4 DEF Proper, Areas
  <2>2. PICK w \in disk_write(v, sect, c) :
            u = [Result(w, "OK") EXCEPT !.win = info, !.winsect = sect, !.fsi = "clean"]
    BY <1>1, <1>4 DEF WriteInfo
  <2>3. Holds(sect, info)
    BY <2>1, SectorsEnd DEF FsInfo, Holds, FatSector, TableSector, DataSector, Areas
  <2>4. Len(c) = 1 /\ c[1] = info
    OBVIOUS
  <2>5. /\ \A i \in 1 .. Len(c) : i = 1 /\ sect + i - 1 = sect
        /\ sect \in Nat /\ 63 < sect
    BY <2>1, <2>4
  <2>6. ~FatSector(sect) /\ ~TableSector(sect)
    BY <2>1 DEF FatSector, TableSector, Areas
  <2> HIDE DEF c, info, sect
  <2>7. NewIn(v, sect, info)
    BY <2>6 DEF NewIn
  <2>8. Proper(w, f, q) /\ Quiet(v, w) /\ SameWindow(v, w)
    BY <1>2, <2>2, <2>3, <2>4, <2>5, <2>7, DiskWriteProper
  <2>9. w.wflag = v.wflag /\ ~v.wflag /\ DOMAIN w = Fields
    BY <1>2, <1>4, <2>8 DEF SameWindow, Proper
  <2>10. /\ DOMAIN u = Fields /\ u.disk = w.disk /\ u.win = info /\ u.winsect = sect
         /\ u.wflag = w.wflag /\ u.last_clst = w.last_clst /\ u.fsi = "clean"
         /\ u.fp = w.fp /\ u.dp = w.dp /\ u.res = "OK" /\ u.broken = w.broken
    BY <2>2, <2>9 DEF Fields, Result
  <2>11. Proper(u, f, q)
    BY <2>1, <2>3, <2>8, <2>9, <2>10 DEF Proper
  <2>12. Quiet(w, u)
    <3>1. ASSUME NEW s, NEW x, Shows(u, s, x) PROVE Shows(w, s, x) \/ s = sect
      BY <2>9, <2>10, <3>1 DEF Shows
    <3> QED BY <2>6, <2>10, <3>1 DEF Quiet, NewIn, Weakens
  <2> QED BY <1>2, <2>8, <2>10, <2>11, <2>12, QuietOnward
<1> QED BY <1>3, <1>4

-----------------------------------------------------------------------------
(* What stays when nothing new is to be seen.                              *)

LEMMA SeenShows ==
    ASSUME NEW t, NEW s
    PROVE  Shows(t, s, Seen(t, s))
BY DEF Shows, Seen

LEMMA PlaceLies ==
    ASSUME Areas, NEW b \in FatPlaces
    PROVE  b \div 512 \in Nat /\ b % 512 \in 0 .. 511 /\ FatSector(fs.fatbase + b \div 512)
BY DEF FatPlaces, FatSector, Areas

LEMMA FatStays ==
    ASSUME Areas, NEW t, NEW u, Coherent(t),
           \A s, x : Shows(u, s, x) /\ FatSector(s) => Shows(t, s, x)
    PROVE  Coherent(u) /\ BytesSeen(u) = BytesSeen(t) /\ Fat(u) = Fat(t)
<1>1. ASSUME NEW s, FatSector(s)
      PROVE  Seen(u, s) = Seen(t, s) /\ \A x : Shows(u, s, x) => x = Seen(t, s)
  BY <1>1, SeenShows DEF Coherent
<1>2. Coherent(u)
  BY <1>1 DEF Coherent
<1>3. ASSUME NEW b \in FatPlaces
      PROVE  Seen(u, fs.fatbase + b \div 512) = Seen(t, fs.fatbase + b \div 512)
  BY <1>1, PlaceLies
<1>4. BytesSeen(u) = BytesSeen(t)
  BY <1>3 DEF BytesSeen
<1> QED BY <1>2, <1>4 DEF Fat

LEMMA QuietFat ==
    ASSUME Areas, NEW t, NEW u, Coherent(t), Quiet(t, u)
    PROVE  Coherent(u) /\ BytesSeen(u) = BytesSeen(t) /\ Fat(u) = Fat(t)
<1>1. \A s, x : Shows(u, s, x) /\ FatSector(s) => Shows(t, s, x)
  BY DEF Quiet, NewIn
<1> QED BY <1>1, FatStays

LEMMA QuietToTables ==
    ASSUME NEW t, NEW u, Quiet(t, u)
    PROVE  QuietTables(t, u)
BY DEF Quiet, NewIn, QuietTables

\* The tables, with no new entries.
LEMMA TablesStay ==
    ASSUME NEW t, NEW u, QuietTables(t, u)
    PROVE  /\ TablesFit(t) => TablesFit(u)
           /\ \A f, g : FileFits(t, f) /\ g.dir_sect = f.dir_sect /\ g.dir_slot = f.dir_slot
                        => FileFits(u, g)
           /\ \A s, i, c : Claims(u, s, i, c) => Claims(t, s, i, c)
           /\ \A h : Alone(t, h) => Alone(u, h)
           /\ \A h, c : Owned(u, h, c) => Owned(t, h, c)
           /\ Whole(u) => Whole(t)
<1>1. TablesFit(t) => TablesFit(u)
  BY DEF QuietTables, TablesFit
<1>2. ASSUME NEW f, NEW g, FileFits(t, f), g.dir_sect = f.dir_sect, g.dir_slot = f.dir_slot
      PROVE  FileFits(u, g)
  BY <1>2 DEF QuietTables, FileFits
<1>3. \A s, i, c : Claims(u, s, i, c) => Claims(t, s, i, c)
  BY DEF QuietTables, Claims
<1>4. \A h : Alone(t, h) => Alone(u, h)
  BY <1>3 DEF Alone
<1>5. \A h, c : Owned(u, h, c) => Owned(t, h, c)
  BY <1>3 DEF Owned
<1>6. Whole(u) => Whole(t)
  BY DEF QuietTables, Weakens, Whole
<1> QED BY <1>1, <1>2, <1>3, <1>4, <1>5, <1>6

LEMMA ChainsStay ==
    ASSUME NEW t, NEW u, NEW F, NEW J, Chained(F, J, t.broken), QuietTables(t, u)
    PROVE  Chained(F, J, u.broken)
BY FailureKeepsChains DEF QuietTables, Weakens

LEMMA QuietGrounded ==
    ASSUME Areas, NEW t, NEW u, NEW f, NEW g, NEW h, Grounded(t, f, h), Quiet(t, u),
           g.dir_sect = f.dir_sect, g.dir_slot = f.dir_slot
    PROVE  Grounded(u, g, h) /\ Fat(u) = Fat(t)
<1>1. Coherent(u) /\ Fat(u) = Fat(t) /\ QuietTables(t, u)
  BY QuietFat, QuietToTables DEF Grounded
<1>2. TablesFit(u) /\ FileFits(u, g)
  BY <1>1, TablesStay DEF Grounded
<1>3. ASSUME Whole(u) PROVE Alone(u, h) /\ Linked(u, h)
  <2>1. Alone(t, h) /\ Linked(t, h)
    BY <1>1, <1>3, TablesStay DEF Grounded
  <2>2. PICK J \in SUBSET Clusters :
            /\ Chained(Fat(t), J, t.broken)
            /\ \A c : Owned(t, h, c) => Begins(Fat(t), J, c)
    BY <2>1 DEF Linked
  <2>3. Chained(Fat(u), J, u.broken)
    BY <1>1, <2>2, ChainsStay
  <2>4. \A c : Owned(u, h, c) => Begins(Fat(u), J, c)
    BY <1>1, <2>2, TablesStay
  <2>5. Alone(u, h)
    BY <1>1, <2>1, TablesStay
  <2> QED BY <2>3, <2>4, <2>5 DEF Linked
<1> QED BY <1>1, <1>2, <1>3 DEF Grounded

LEMMA QuietSane ==
    ASSUME Areas, NEW t, NEW u, NEW f, NEW q, NEW h, Sane(t, f, q, h), Proper(u, f, q),
           Quiet(t, u)
    PROVE  Sane(u, f, q, h) /\ Fat(u) = Fat(t)
BY QuietGrounded DEF Sane

LEMMA SaneLike ==
    ASSUME Areas, NEW t, NEW u, NEW f, NEW q, NEW h, Sane(t, f, q, h), Like(t, u)
    PROVE  Sane(u, f, q, h) /\ Fat(u) = Fat(t)
<1>1. Proper(u, f, q) /\ Quiet(t, u)
  BY ProperLike DEF Sane
<1> QED BY <1>1, QuietSane

\* Fewer clusters are held.
LEMMA HoldsLess ==
    ASSUME NEW t, NEW f, NEW q, NEW h, NEW k, Sane(t, f, q, h), k \subseteq h
    PROVE  Sane(t, f, q, k)
<1>1. Alone(t, h) => Alone(t, k)
  BY DEF Alone
<1>2. \A c : Owned(t, k, c) => Owned(t, h, c)
  BY DEF Owned
<1>3. Linked(t, h) => Linked(t, k)
  BY <1>2 DEF Linked
<1> QED BY <1>1, <1>3 DEF Sane, Grounded

LEMMA SyncWindowSane ==
    ASSUME Areas, NEW t, NEW f, NEW q, NEW h, Sane(t, f, q, h), NEW u \in sync_window(t)
    PROVE  /\ Sane(u, f, q, h) /\ Answers(t, u)
           /\ u.win = t.win /\ u.winsect = t.winsect /\ u.fsi = t.fsi
           /\ Ok(u) => ~u.wflag
<1>1. Proper(t, f, q)
  BY DEF Sane
<1>2. /\ Proper(u, f, q) /\ Quiet(t, u) /\ Answers(t, u)
      /\ u.win = t.win /\ u.winsect = t.winsect /\ u.fsi = t.fsi
      /\ Ok(u) => ~u.wflag
  BY <1>1, SyncWindowProper
<1> QED BY <1>2, QuietSane

LEMMA MoveWindowSane ==
    ASSUME Areas, NEW t, NEW f, NEW q, NEW h, Sane(t, f, q, h),
           NEW sect \in Nat, fs.fatbase <= sect, sect < VolumeEnd,
           NEW u \in move_window(t, sect)
    PROVE  /\ Sane(u, f, q, h) /\ Answers(t, u) /\ u.fsi = t.fsi
           /\ Ok(u) => u.winsect = sect
<1>1. Proper(t, f, q)
  BY DEF Sane
<1>2. /\ Proper(u, f, q) /\ Quiet(t, u) /\ Answers(t, u) /\ u.fsi = t.fsi
      /\ Ok(u) => u.winsect = sect
  BY <1>1, MoveWindowProper
<1> QED BY <1>2, QuietSane

LEMMA SyncFsSane ==
    ASSUME Areas, NEW t, NEW f, NEW q, NEW h, Sane(t, f, q, h), NEW u \in sync_fs(t)
    PROVE  Sane(u, f, q, h) /\ u.res \in {"OK", "DISK_ERR"}
<1>1. Proper(t, f, q)
  BY DEF Sane
<1>2. Proper(u, f, q) /\ Quiet(t, u) /\ u.res \in {"OK", "DISK_ERR"}
  BY <1>1, SyncFsProper
<1> QED BY <1>2, QuietSane

-----------------------------------------------------------------------------
(* The FAT.                                                                *)

LEMMA ToFatByteProper ==
    ASSUME Areas, NEW t, NEW f, NEW q, Proper(t, f, q), NEW bc \in Nat,
           FatSector(fs.fatbase + bc \div ss), NEW u \in ToFatByte(t, bc)
    PROVE  /\ Proper(u, f, q) /\ Quiet(t, u) /\ Answers(t, u) /\ u.fsi = t.fsi
           /\ Ok(u) => u.winsect = fs.fatbase + bc \div ss
<1> DEFINE sect == fs.fatbase + bc \div ss
<1> SUFFICES /\ Proper(u, f, q) /\ Quiet(t, u) /\ Answers(t, u) /\ u.fsi = t.fsi
             /\ Ok(u) => u.winsect = sect
  OBVIOUS
<1>1. u \in move_window(t, sect)
  BY DEF ToFatByte
<1>2. FatSector(sect)
  OBVIOUS
<1> HIDE DEF sect
<1>3. sect \in Nat /\ fs.fatbase <= sect /\ sect < VolumeEnd
  BY <1>2, SectorsEnd DEF FatSector, Areas
<1> QED BY <1>1, <1>2, <1>3, MoveWindowProper

\* The bytes of an entry behind the first lie in one sector, and those of
\* FAT16 and FAT32 all do.
LEMMA SameSector ==
    ASSUME Areas, NEW c \in Clusters, NEW i \in Bytes
    PROVE  /\ FatOffset(c) + i \in FatPlaces /\ i \in 0 .. 3
           /\ i # 0 => (FatOffset(c) + i) \div 512 = (FatOffset(c) + 1) \div 512
           /\ fs.fs_type # "FAT12" => (FatOffset(c) + i) \div 512 = FatOffset(c) \div 512
<1>1. /\ FatOffset(c) \in Nat /\ FatOffset(c) \in FatPlaces /\ FatOffset(c) + 1 \in FatPlaces
      /\ fs.fs_type = "FAT32" => /\ FatOffset(c) + 2 \in FatPlaces
                                 /\ FatOffset(c) + 3 \in FatPlaces
  BY EntryPlaces
<1>2. CASE fs.fs_type = "FAT32"
  <2>1. FatOffset(c) = c * 4 /\ c \in Nat
    BY <1>2, ClustersAre DEF FatOffset
  <2>2. \A n \in 0 .. 3 : (c * 4 + n) \div 512 = (c * 4) \div 512
    BY <2>1
  <2>3. i \in 0 .. 3
    BY <1>2 DEF Bytes
  <2>4. i = 0 \/ i = 1 \/ i = 2 \/ i = 3
    BY <2>3
  <2>5. (FatOffset(c) + i) \div 512 = FatOffset(c) \div 512
        /\ (FatOffset(c) + 1) \div 512 = FatOffset(c) \div 512
    BY <2>1, <2>2, <2>3
  <2> QED BY <1>1, <1>2, <2>3, <2>4, <2>5
<1>3. CASE fs.fs_type # "FAT32"
  <2>1. i = 0 \/ i = 1
    BY <1>3 DEF Bytes
  <2>2. fs.fs_type # "FAT12" => (FatOffset(c) + 1) \div 512 = FatOffset(c) \div 512
    <3>1. fs.fs_type # "FAT12" => FatOffset(c) = c * 2 /\ c \in Nat
      BY <1>3, ClustersAre DEF FatOffset, Areas
    <3> QED BY <3>1
  <2> QED BY <1>1, <2>1, <2>2
<1> QED BY <1>2, <1>3

\* A byte of the FAT in the window.
LEMMA ByteInWindow ==
    ASSUME Areas, NEW t, NEW b \in FatPlaces, t.winsect = fs.fatbase + b \div 512
    PROVE  FatBytes(t.win)[b % ss] = BytesSeen(t)[b]
BY SectorsEnd DEF BytesSeen, Seen

LEMMA SeenBytes ==
    ASSUME Areas, NEW t, Coherent(t)
    PROVE  BytesSeen(t) \in [FatPlaces -> 0 .. 255]
<1>1. ASSUME NEW b \in FatPlaces
      PROVE  FatBytes(Seen(t, fs.fatbase + b \div 512))[b % 512] \in 0 .. 255
  <2> DEFINE s == fs.fatbase + b \div 512
  <2>1. FatSector(s) /\ b % 512 \in 0 .. ss - 1
    BY PlaceLies, SectorsEnd
  <2> HIDE DEF s
  <2>2. FatBytes(Seen(t, s)) \in [0 .. ss - 1 -> 0 .. 255]
    BY <2>1 DEF Coherent
  <2>3. FatBytes(Seen(t, s))[b % 512] \in 0 .. 255
    BY <2>1, <2>2
  <2> QED BY <2>3 DEF s
<1> QED BY <1>1 DEF BytesSeen

\* What the FAT says of a cluster, and of no other.
LEMMA GetFatSane ==
    ASSUME Areas, NEW t, NEW f, NEW q, NEW h, Sane(t, f, q, h), NEW clst,
           NEW u \in get_fat(t, clst)
    PROVE  /\ Sane(u, f, q, h) /\ u.fsi = t.fsi /\ u.path = t.path
           /\ Fat(u) = Fat(t)
           /\ Ok(t) => ~Goes(u)
           /\ clst \notin Clusters => u.val = 1
           /\ clst \in Clusters => u.val \in {DiskError, Fat(t)[clst]}
<1> DEFINE bc == FatOffset(clst)
<1>1. CASE clst \notin Clusters
  <2>1. u = Value(t, 1) /\ DOMAIN t = Fields
    BY <1>1 DEF get_fat, Sane, Proper
  <2>2. Like(t, u) /\ u.val = 1 /\ u.path = t.path /\ u.res = t.res
    BY <2>1, ValueIs
  <2>3. Ok(t) => ~Goes(u)
    BY <2>2 DEF Ok, Goes
  <2> QED BY <1>1, <2>2, <2>3, SaneLike DEF Like
<1>2. CASE clst \in Clusters
  <2> DEFINE Byte(v, w, i) == FatByte(IF i = 0 THEN v ELSE w, bc + i)
  <2>1. PICK v \in ToFatByte(t, bc) :
            \/ /\ Ok(v)
               /\ \E w \in ToFatByte(v, bc + 1) :
                     u = Value(w, IF Ok(w) THEN FatEntry(clst, [i \in Bytes |-> Byte(v, w, i)])
                                  ELSE DiskError)
            \/ u = Value(v, DiskError)
    BY <1>2 DEF get_fat, GetRest
  <2>2. /\ bc \in Nat /\ bc + 1 \in Nat /\ FatSector(fs.fatbase + bc \div ss)
        /\ FatSector(fs.fatbase + (bc + 1) \div ss)
    BY <1>2, EntryLies
  <2> HIDE DEF bc
  <2>3. Proper(t, f, q)
    BY DEF Sane
  <2>4. /\ Proper(v, f, q) /\ Quiet(t, v) /\ Answers(t, v) /\ v.fsi = t.fsi
        /\ Ok(v) => v.winsect = fs.fatbase + bc \div ss
    BY <2>1, <2>2, <2>3, ToFatByteProper
  <2>5. Sane(v, f, q, h) /\ Fat(v) = Fat(t) /\ DOMAIN v = Fields
    BY <2>4, QuietSane DEF Proper
  <2>6. CASE u = Value(v, DiskError)
    <3>1. Like(v, u) /\ u.path = v.path /\ u.res = v.res /\ u.val = DiskError
      BY <2>5, <2>6, ValueIs
    <3>2. Sane(u, f, q, h) /\ Fat(u) = Fat(v)
      BY <2>5, <3>1, SaneLike
    <3> QED BY <1>2, <2>4, <2>5, <3>1, <3>2 DEF Like, Answers, Goes
  <2>7. ASSUME NEW w \in ToFatByte(v, bc + 1), NEW n, Ok(v), u = Value(w, n),
               n = IF Ok(w) THEN FatEntry(clst, [i \in Bytes |-> Byte(v, w, i)]) ELSE DiskError
        PROVE  /\ Sane(u, f, q, h) /\ u.fsi = t.fsi /\ u.path = t.path /\ ~Goes(u)
               /\ Fat(u) = Fat(t) /\ u.val \in {DiskError, Fat(t)[clst]}
    <3>1. /\ Proper(w, f, q) /\ Quiet(v, w) /\ Answers(v, w) /\ w.fsi = v.fsi
          /\ Ok(w) => w.winsect = fs.fatbase + (bc + 1) \div ss
      BY <2>2, <2>4, <2>7, ToFatByteProper
    <3>2. Sane(w, f, q, h) /\ Fat(w) = Fat(t) /\ DOMAIN w = Fields
      BY <2>5, <3>1, QuietSane DEF Proper
    <3>3. Like(w, u) /\ u.path = w.path /\ u.res = w.res /\ u.val = n
      BY <2>7, <3>2, ValueIs
    <3>4. Sane(u, f, q, h) /\ Fat(u) = Fat(w)
      BY <3>2, <3>3, SaneLike
    <3>5. ASSUME Ok(w) PROVE n = Fat(t)[clst]
      <4>1. BytesSeen(v) = BytesSeen(t) /\ BytesSeen(w) = BytesSeen(t)
        BY <2>4, <2>5, <3>1, QuietFat DEF Sane, Grounded
      <4>2. ASSUME NEW i \in Bytes PROVE Byte(v, w, i) = BytesSeen(t)[bc + i]
        <5>1. /\ bc + i \in FatPlaces /\ ss = 512 /\ i \in 0 .. 3
              /\ i # 0 => (bc + i) \div 512 = (bc + 1) \div 512
          BY <1>2, SameSector, SectorsEnd DEF bc
        <5>2. CASE i = 0
          <6>1. v.winsect = fs.fatbase + (bc + i) \div 512
            BY <2>2, <2>4, <2>7, <5>1, <5>2
          <6>2. FatBytes(v.win)[(bc + i) % ss] = BytesSeen(t)[bc + i]
            BY <4>1, <5>1, <6>1, ByteInWindow
          <6> QED BY <5>2, <6>2 DEF FatByte
        <5>3. CASE i # 0
          <6>1. w.winsect = fs.fatbase + (bc + i) \div 512
            BY <3>1, <3>5, <5>1, <5>3
          <6>2. FatBytes(w.win)[(bc + i) % ss] = BytesSeen(t)[bc + i]
            BY <4>1, <5>1, <6>1, ByteInWindow
          <6> QED BY <5>3, <6>2 DEF FatByte
        <5> QED BY <5>2, <5>3
      <4>3. [i \in Bytes |-> Byte(v, w, i)] = [i \in Bytes |-> BytesSeen(t)[bc + i]]
        BY <4>2
      <4> QED BY <1>2, <2>7, <3>5, <4>3 DEF Fat, EntryOf, bc
    <3> QED BY <2>4, <2>5, <2>7, <3>1, <3>2, <3>3, <3>4, <3>5 DEF Like, Answers, Goes
  <2>8. ASSUME Ok(v), NEW w \in ToFatByte(v, bc + 1),
               u = Value(w, IF Ok(w) THEN FatEntry(clst, [i \in Bytes |-> Byte(v, w, i)])
                            ELSE DiskError)
        PROVE  /\ Sane(u, f, q, h) /\ u.fsi = t.fsi /\ u.path = t.path /\ ~Goes(u)
               /\ Fat(u) = Fat(t) /\ u.val \in {DiskError, Fat(t)[clst]}
    <3> HIDE DEF Byte
    <3> QED BY <2>7, <2>8
  <2> QED BY <1>2, <2>1, <2>6, <2>8
<1> QED BY <1>1, <1>2

\* Bytes of the FAT go into a window on the FAT.
LEMMA PutBytesProper ==
    ASSUME Areas, NEW t, NEW f, NEW q, Proper(t, f, q), FatSector(t.winsect),
           NEW clst, NEW places, NEW val, NEW u, u = PutBytes(t, clst, places, val)
    PROVE  /\ Proper(u, f, q) /\ QuietTables(t, u) /\ u.winsect = t.winsect
           /\ u.res = t.res /\ u.val = t.val /\ u.path = t.path /\ u.fsi = t.fsi
<1>1. PICK x : u = [t EXCEPT !.win = <<"fat", x>>, !.wflag = TRUE]
  BY DEF PutBytes
<1>2. DOMAIN t = Fields
  BY DEF Proper
<1>3. /\ DOMAIN u = Fields /\ u.win = <<"fat", x>> /\ u.disk = t.disk /\ u.winsect = t.winsect
      /\ u.last_clst = t.last_clst /\ u.fsi = t.fsi /\ u.fp = t.fp /\ u.dp = t.dp
      /\ u.res = t.res /\ u.val = t.val /\ u.path = t.path /\ u.broken = t.broken
  BY <1>1, <1>2 DEF Fields
<1>4. u.wflag = TRUE
  BY <1>1, <1>2 DEF Fields
<1>5. Holds(t.winsect, <<"fat", x>>) /\ t.winsect \in fs.fatbase .. VolumeEnd - 1
  BY FatFits
<1>6. Proper(u, f, q)
  BY <1>3, <1>4, <1>5 DEF Proper
<1>7. QuietTables(t, u)
  <2>1. ~TableSector(t.winsect)
    BY DEF FatSector, TableSector, Areas
  <2> QED BY <1>3, <2>1 DEF QuietTables, Shows, Weakens
<1> QED BY <1>3, <1>6, <1>7

LEMMA PutBytesChanges ==
    ASSUME Areas, NEW t, Coherent(t), FatSector(t.winsect), DOMAIN t = Fields,
           NEW clst \in Clusters, NEW places \in SUBSET Bytes, NEW val \in Nat,
           \A i \in places : t.winsect = fs.fatbase + (FatOffset(clst) + i) \div 512,
           NEW u, u = PutBytes(t, clst, places, val)
    PROVE  Coherent(u) /\ BytesSeen(u) = Changed(BytesSeen(t), clst, places, val)
<1> DEFINE o == FatOffset(clst)
           old == FatBytes(t.win)
           Place(b) == (b - o) % ss
           New(b) == IF Place(b) \in places THEN EntryByte(clst, Place(b), old[b], val) ELSE old[b]
           x == [b \in 0 .. ss - 1 |-> New(b)]
           n == t.winsect - fs.fatbase
<1>1. u = [t EXCEPT !.win = <<"fat", x>>, !.wflag = TRUE]
  BY DEF PutBytes
<1>2. /\ ss = 512 /\ o \in Nat /\ fs.fatbase \in Nat /\ n \in Nat /\ n < fs.fsize
      /\ fs.fsize \in Nat /\ clst \in Nat /\ t.winsect = fs.fatbase + n
  BY SectorsEnd, EntryPlaces, ClustersAre DEF Areas, FatSector
<1>3. places \subseteq 0 .. 3 /\ \A i \in places : (o + i) \div 512 = n
  <2>1. Bytes \subseteq 0 .. 3
    BY DEF Bytes
  <2>2. ASSUME NEW i \in places PROVE (o + i) \div 512 = n
    <3> DEFINE k == (o + i) \div 512
    <3>1. t.winsect = fs.fatbase + k /\ k \in Int
      BY <1>2, <2>1
    <3> HIDE DEF k, n, o
    <3>2. k = n
      BY <1>2, <3>1
    <3> QED BY <3>2 DEF k
  <2> QED BY <2>1, <2>2
<1> HIDE DEF x, n, o
<1>4. u.win = <<"fat", x>> /\ u.disk = t.disk /\ u.winsect = t.winsect
  BY <1>1 DEF Fields
<1>5. u.wflag = TRUE
  BY <1>1 DEF Fields
<1>6. Seen(t, t.winsect) = t.win /\ Seen(u, t.winsect) = <<"fat", x>>
  BY <1>4 DEF Seen
<1>7. old \in [0 .. ss - 1 -> 0 .. 255]
  BY <1>6 DEF Coherent
<1>8. ASSUME NEW b \in 0 .. ss - 1
      PROVE  x[b] \in 0 .. 255
  <2>1. old[b] \in 0 .. 255 /\ places \subseteq Bytes
    BY <1>7
  <2> HIDE DEF old
  <2>2. Place(b) \in places => EntryByte(clst, Place(b), old[b], val) \in 0 .. 255
    BY <1>2, <2>1, EntryByteFits
  <2> QED BY <2>1, <2>2 DEF x
<1>9. FatBytes(<<"fat", x>>) = x /\ x \in [0 .. ss - 1 -> 0 .. 255]
  <2>1. x = [b \in 0 .. ss - 1 |-> x[b]]
    BY DEF x
  <2> QED BY <1>8, <2>1 DEF FatBytes
<1>10. \A s : s # t.winsect => Seen(u, s) = Seen(t, s) /\ \A z : Shows(u, s, z) => Shows(t, s, z)
  BY <1>4 DEF Seen, Shows
<1>11. Coherent(u)
  <2>1. ASSUME NEW s, FatSector(s), NEW z, Shows(u, s, z) PROVE z = Seen(u, s)
    <3>1. CASE s = t.winsect
      BY <1>4, <1>5, <2>1, <3>1 DEF Shows, Seen
    <3>2. CASE s # t.winsect
      BY <1>10, <2>1, <3>2 DEF Coherent
    <3> QED BY <3>1, <3>2
  <2>2. ASSUME NEW s, FatSector(s) PROVE FatBytes(Seen(u, s)) \in [0 .. ss - 1 -> 0 .. 255]
    <3>1. CASE s = t.winsect
      BY <1>6, <1>9, <3>1
    <3>2. CASE s # t.winsect
      BY <1>10, <2>2, <3>2 DEF Coherent
    <3> QED BY <3>1, <3>2
  <2> QED BY <2>1, <2>2 DEF Coherent
<1>12. ASSUME NEW b \in FatPlaces
       PROVE  BytesSeen(u)[b] = (IF b - o \in places
                                THEN EntryByte(clst, b - o, BytesSeen(t)[b], val)
                                ELSE BytesSeen(t)[b])
  <2> DEFINE k == b \div 512
             r == b % 512
  <2>1. k \in Nat /\ r \in 0 .. 511 /\ b = 512 * k + r
    BY DEF FatPlaces
  <2>2. /\ BytesSeen(u)[b] = FatBytes(Seen(u, fs.fatbase + k))[r]
        /\ BytesSeen(t)[b] = FatBytes(Seen(t, fs.fatbase + k))[r]
    BY DEF BytesSeen
  <2> HIDE DEF k, r
  <2>3. CASE k # n
    <3>1. fs.fatbase + k # t.winsect
      BY <1>2, <2>1, <2>3
    <3>2. BytesSeen(u)[b] = BytesSeen(t)[b]
      BY <1>10, <2>2, <3>1
    <3>3. b - o \notin places
      <4>1. \A i \in places : i \in Nat /\ (o + i) \div 512 = n
        BY <1>3
      <4>2. ASSUME b - o \in places PROVE FALSE
        <5>1. o + (b - o) = b
          BY <1>2, <2>1
        <5>2. b \div 512 = n
          BY <4>1, <4>2, <5>1
        <5> QED BY <2>3, <5>2 DEF k
      <4> QED BY <4>2
    <3> QED BY <3>2, <3>3
  <2>4. CASE k = n
    <3>1. BytesSeen(u)[b] = x[r] /\ BytesSeen(t)[b] = old[r]
      BY <1>2, <1>6, <1>9, <2>2, <2>4
    <3>2. x[r] = IF Place(r) \in places THEN EntryByte(clst, Place(r), old[r], val) ELSE old[r]
      BY <1>2, <2>1 DEF x
    <3>3. Place(r) = (b - o) % 512
      BY <1>2, <2>1
    <3>4. b - o \in places => Place(r) = b - o
      <4>1. b - o \in places => b - o \in 0 .. 3
        BY <1>3
      <4> HIDE DEF Place
      <4> QED BY <3>3, <4>1
    <3>5. Place(r) \in places => Place(r) = b - o
      <4> HIDE DEF Place
      <4>1. ASSUME Place(r) \in places PROVE Place(r) = b - o
        <5>1. Place(r) \in 0 .. 3 /\ (o + Place(r)) \div 512 = n
          BY <1>3, <4>1
        <5> DEFINE i == Place(r)
        <5>2. i \in 0 .. 3 /\ (o + i) \div 512 = n /\ i = (b - o) % 512
          BY <3>3, <5>1
        <5> HIDE DEF i
        <5>3. b \div 512 = n /\ b \in Nat
          BY <2>1, <2>4 DEF k
        <5>4. i = b - o
          BY <1>2, <5>2, <5>3
        <5> QED BY <5>4 DEF i
      <4> QED BY <4>1
    <3> QED BY <3>1, <3>2, <3>4, <3>5
  <2> QED BY <2>3, <2>4
<1>13. BytesSeen(u) = Changed(BytesSeen(t), clst, places, val)
  <2>1. BytesSeen(u) = [b \in FatPlaces |-> BytesSeen(u)[b]]
    BY DEF BytesSeen
  <2> QED BY <1>12, <2>1 DEF Changed, o
<1> QED BY <1>11, <1>13

\* The entry of a cluster is all that put_fat changes.  Where the disk fails
\* between the two bytes of a FAT12 entry, the first one stays.
Cut(t, u, clst) ==
    \/ Fat(u) = Fat(t)
    \/ /\ clst \in Clusters /\ fs.fs_type = "FAT12" /\ OneChanged(Fat(t), Fat(u), clst)
       /\ HalfEntry <= Fat(t)[clst] => HalfEntry <= Fat(u)[clst]

LEMMA PutFatProper ==
    ASSUME Areas, NEW t, NEW f, NEW q, Proper(t, f, q), Coherent(t), NEW clst,
           NEW val \in Clusters \cup {0, EndOfChain}, NEW u \in put_fat(t, clst, val)
    PROVE  /\ Proper(u, f, q) /\ Coherent(u) /\ QuietTables(t, u)
           /\ u.fsi = t.fsi /\ u.path = t.path /\ u.val = t.val
           /\ u.res \in {"OK", "DISK_ERR", "INT_ERR"}
           /\ Ok(u) => /\ clst \in Clusters /\ OneChanged(Fat(t), Fat(u), clst)
                       /\ Fat(u)[clst] = Entered(val)
           /\ ~Ok(u) => Cut(t, u, clst)
           /\ u.res = "INT_ERR" => clst \notin Clusters
           /\ u.res = "DISK_ERR" => u.broken # "no"
<1> DEFINE bc == FatOffset(clst)
<1>1. CASE clst \notin Clusters
  <2>1. u = Result(t, "INT_ERR") /\ DOMAIN t = Fields
    BY <1>1 DEF put_fat, Proper
  <2>2. Like(t, u) /\ u.res = "INT_ERR" /\ u.val = t.val /\ u.path = t.path
    BY <2>1, ResultIs
  <2>3. Proper(u, f, q) /\ Quiet(t, u)
    BY <2>2, ProperLike
  <2>4. Coherent(u) /\ Fat(u) = Fat(t) /\ QuietTables(t, u)
    BY <2>3, QuietFat, QuietToTables
  <2> QED BY <1>1, <2>2, <2>3, <2>4 DEF Like, Ok, Cut
<1>2. CASE clst \in Clusters
  <2> DEFINE first(v) == PutBytes(v, clst, {0}, val)
             B == BytesSeen(t)
  <2>1. PICK v \in ToFatByte(t, bc) :
            \/ ~Ok(v) /\ u = v
            \/ /\ Ok(v)
               /\ \E w \in ToFatByte(first(v), bc + 1) :
                     u = IF Ok(w) THEN PutBytes(w, clst, Bytes \ {0}, val) ELSE w
    BY <1>2 DEF put_fat, PutRest
  <2>2. /\ bc \in Nat /\ bc + 1 \in Nat /\ FatSector(fs.fatbase + bc \div ss)
        /\ FatSector(fs.fatbase + (bc + 1) \div ss) /\ ss = 512
    BY <1>2, EntryLies, SectorsEnd
  <2>3. /\ val \in Nat /\ B \in [FatPlaces -> 0 .. 255]
        /\ {0} \in SUBSET Bytes /\ Bytes \ {0} \in SUBSET Bytes
    BY ClustersAre, SeenBytes DEF EndOfChain, Bytes
  <2> HIDE DEF bc, B
  <2>4. /\ Proper(v, f, q) /\ Quiet(t, v) /\ Answers(t, v) /\ v.fsi = t.fsi
        /\ Ok(v) => v.winsect = fs.fatbase + bc \div ss
    BY <2>1, <2>2, ToFatByteProper
  <2>5. Coherent(v) /\ BytesSeen(v) = B /\ Fat(v) = Fat(t) /\ QuietTables(t, v)
    BY <2>4, QuietFat, QuietToTables DEF B
  <2>6. CASE ~Ok(v) /\ u = v
    BY <1>2, <2>4, <2>5, <2>6 DEF Answers, Cut
  <2>7. ASSUME Ok(v), NEW w \in ToFatByte(first(v), bc + 1),
               u = IF Ok(w) THEN PutBytes(w, clst, Bytes \ {0}, val) ELSE w
        PROVE  /\ Proper(u, f, q) /\ Coherent(u) /\ QuietTables(t, u)
               /\ u.fsi = t.fsi /\ u.path = t.path /\ u.val = t.val
               /\ u.res \in {"OK", "DISK_ERR"}
               /\ Ok(u) => OneChanged(Fat(t), Fat(u), clst) /\ Fat(u)[clst] = Entered(val)
               /\ ~Ok(u) => Cut(t, u, clst)
               /\ u.res = "DISK_ERR" => u.broken # "no"
    <3> DEFINE y == first(v)
    <3>1. /\ Proper(y, f, q) /\ QuietTables(v, y) /\ y.winsect = v.winsect
          /\ y.val = v.val /\ y.path = v.path /\ y.fsi = v.fsi
      <4>1. FatSector(v.winsect)
        BY <2>2, <2>4, <2>7
      <4>2. y = PutBytes(v, clst, {0}, val)
        OBVIOUS
      <4> HIDE DEF y
      <4> QED BY <2>4, <4>1, <4>2, PutBytesProper
    <3>2. Coherent(y) /\ BytesSeen(y) = Changed(B, clst, {0}, val)
      <4>1. \A i \in {0} : v.winsect = fs.fatbase + (FatOffset(clst) + i) \div 512
        BY <2>2, <2>4, <2>7 DEF bc
      <4>2. FatSector(v.winsect) /\ DOMAIN v = Fields
        BY <2>2, <2>4, <2>7 DEF Proper
      <4> QED BY <1>2, <2>3, <2>5, <4>1, <4>2, PutBytesChanges
    <3>3. w \in ToFatByte(y, bc + 1)
      BY <2>7
    <3> HIDE DEF y
    <3>4. /\ Proper(w, f, q) /\ Quiet(y, w) /\ Answers(y, w) /\ w.fsi = y.fsi
          /\ Ok(w) => w.winsect = fs.fatbase + (bc + 1) \div ss
      BY <2>2, <3>1, <3>3, ToFatByteProper
    <3>5. Coherent(w) /\ BytesSeen(w) = Changed(B, clst, {0}, val)
      BY <3>2, <3>4, QuietFat
    <3>6. QuietTables(t, w)
      BY <2>5, <3>1, <3>4 DEF QuietTables, Quiet, NewIn, Weakens
    <3>7. CASE ~Ok(w)
      <4>1. fs.fs_type = "FAT12"
        <5>1. ASSUME fs.fs_type # "FAT12" PROVE FALSE
          <6>1. 1 \in Bytes
            BY DEF Bytes
          <6>2. (bc + 1) \div 512 = bc \div 512
            BY <1>2, <5>1, <6>1, SameSector DEF bc
          <6>3. fs.fatbase + (bc + 1) \div ss = y.winsect
            BY <2>2, <2>4, <2>7, <3>1, <6>2
          <6>4. w = Result(y, "OK") /\ DOMAIN y = Fields
            BY <3>1, <3>3, <6>3 DEF ToFatByte, move_window, Proper
          <6> QED BY <3>7, <6>4, ResultIs DEF Ok
        <5> QED BY <5>1
      <4>2. OneChanged(Fat(t), Fat(w), clst)
        BY <1>2, <2>3, <3>5, PutEntryOthers DEF OneChanged, Fat, B
      <4>3. HalfEntry <= Fat(t)[clst] => HalfEntry <= Fat(w)[clst]
        BY <1>2, <2>3, <3>5, <4>1, HalfEntryStays DEF Fat, B
      <4> QED BY <1>2, <2>4, <2>7, <3>1, <3>4, <3>5, <3>6, <3>7, <4>1, <4>2, <4>3 DEF Answers, Cut
    <3>8. CASE Ok(w)
      <4>1. u = PutBytes(w, clst, Bytes \ {0}, val)
        BY <2>7, <3>8
      <4>2. FatSector(w.winsect) /\ DOMAIN w = Fields
        BY <2>2, <3>4, <3>8 DEF Proper
      <4>3. /\ Proper(u, f, q) /\ QuietTables(w, u)
            /\ u.res = w.res /\ u.val = w.val /\ u.path = w.path /\ u.fsi = w.fsi
        BY <3>4, <4>1, <4>2, PutBytesProper
      <4>4. \A i \in Bytes \ {0} : w.winsect = fs.fatbase + (FatOffset(clst) + i) \div 512
        BY <1>2, <2>2, <3>4, <3>8, SameSector DEF bc
      <4>5. /\ Coherent(u)
            /\ BytesSeen(u) = Changed(BytesSeen(w), clst, Bytes \ {0}, val)
        BY <1>2, <2>3, <3>5, <4>1, <4>2, <4>4, PutBytesChanges
      <4>6. BytesSeen(u) = Changed(B, clst, Bytes, val)
        BY <1>2, <3>5, <4>5, ChangedTwice
      <4>7. OneChanged(Fat(t), Fat(u), clst)
        BY <1>2, <2>3, <4>6, PutEntryOthers DEF OneChanged, Fat, B
      <4>8. Fat(u)[clst] = Entered(val)
        BY <1>2, <2>3, <4>6, PutEntryOwn DEF Fat
      <4>9. QuietTables(t, u)
        BY <3>6, <4>3 DEF QuietTables, Weakens
      <4> QED BY <2>4, <3>1, <3>4, <3>8, <4>3, <4>5, <4>7, <4>8, <4>9 DEF Answers, Ok
    <3> QED BY <3>7, <3>8
  <2> QED BY <1>2, <2>1, <2>6, <2>7 DEF Ok
<1> QED BY <1>1, <1>2

\* What is counted is counted for FSInfo.
LEMMA CountSane ==
    ASSUME Areas, NEW t, NEW f, NEW q, NEW h, Sane(t, f, q, h),
           NEW u, u = OneMoreFree(t) \/ u = OneLessFree(t)
    PROVE  /\ Sane(u, f, q, h) /\ Fat(u) = Fat(t) /\ u.broken = t.broken
           /\ u.res = t.res /\ u.val = t.val /\ u.path = t.path
<1> DEFINE c == Counted(t)
<1>1. DOMAIN t = Fields /\ Proper(t, f, q)
  BY DEF Sane, Proper
<1>2. /\ DOMAIN c = Fields /\ c.disk = t.disk /\ c.win = t.win /\ c.winsect = t.winsect
      /\ c.wflag = t.wflag /\ c.last_clst = t.last_clst /\ c.fp = t.fp /\ c.dp = t.dp
      /\ c.res = t.res /\ c.val = t.val /\ c.path = t.path /\ c.broken = t.broken
      /\ c.fsi = "none" <=> t.fsi = "none"
  BY <1>1 DEF Counted, Fields
<1>3. u = t \/ u = c \/ \E n : u = [c EXCEPT !.free_clst = n]
  BY DEF OneMoreFree, OneLessFree
<1> HIDE DEF c
<1>4. Proper(c, f, q) /\ Quiet(t, c)
  BY <1>1, <1>2 DEF Proper, Quiet, NewIn, Shows, Weakens
<1>5. Sane(c, f, q, h) /\ Fat(c) = Fat(t)
  BY <1>4, QuietSane
<1>6. ASSUME NEW n, u = [c EXCEPT !.free_clst = n]
      PROVE  /\ Sane(u, f, q, h) /\ Fat(u) = Fat(t) /\ u.broken = t.broken
             /\ u.res = t.res /\ u.val = t.val /\ u.path = t.path
  <2>1. /\ Like(c, u) /\ u.res = c.res /\ u.val = c.val /\ u.path = c.path
        /\ u.broken = c.broken
    BY <1>2, <1>6 DEF Like, Fields, Weakens
  <2> QED BY <1>2, <1>5, <2>1, SaneLike
<1> QED BY <1>2, <1>3, <1>5, <1>6

\* What a memory is sane by, and what makes it so again when the FAT changes.
LEMMA SaneUnfolds ==
    ASSUME NEW t, NEW u, NEW f, NEW q, NEW h, Sane(t, f, q, h), QuietTables(t, u), Whole(u)
    PROVE  /\ Alone(t, h)
           /\ \E J \in SUBSET Clusters :
                 /\ Chained(Fat(t), J, u.broken)
                 /\ \A c : Owned(t, h, c) => Begins(Fat(t), J, c)
<1>1. Whole(t)
  BY TablesStay
<1>2. Alone(t, h) /\ Linked(t, h)
  BY <1>1 DEF Sane, Grounded
<1>3. PICK J \in SUBSET Clusters :
          /\ Chained(Fat(t), J, t.broken)
          /\ \A c : Owned(t, h, c) => Begins(Fat(t), J, c)
  BY <1>2 DEF Linked
<1>4. Chained(Fat(t), J, u.broken)
  BY <1>3, ChainsStay
<1> QED BY <1>2, <1>3, <1>4

LEMMA SaneFolds ==
    ASSUME NEW t, NEW u, NEW f, NEW q, NEW h, NEW k, Sane(t, f, q, h),
           Proper(u, f, q), Coherent(u), QuietTables(t, u),
           Whole(u) => /\ Alone(t, k)
                       /\ \E J \in SUBSET Clusters :
                             /\ Chained(Fat(u), J, u.broken)
                             /\ \A c : Owned(t, k, c) => Begins(Fat(u), J, c)
    PROVE  Sane(u, f, q, k)
<1>1. TablesFit(u) /\ FileFits(u, f)
  BY TablesStay DEF Sane, Grounded
<1>2. ASSUME Whole(u) PROVE Alone(u, k) /\ Linked(u, k)
  <2>1. PICK J \in SUBSET Clusters :
            /\ Chained(Fat(u), J, u.broken)
            /\ \A c : Owned(t, k, c) => Begins(Fat(u), J, c)
    BY <1>2
  <2>2. \A c : Owned(u, k, c) => Begins(Fat(u), J, c)
    BY <2>1, TablesStay
  <2>3. Alone(u, k)
    BY <1>2, TablesStay
  <2> QED BY <2>1, <2>2, <2>3 DEF Linked
<1> QED BY <1>1, <1>2 DEF Sane, Grounded

LEMMA FatValues ==
    ASSUME Areas, NEW t, Coherent(t), NEW c \in Clusters
    PROVE  Fat(t)[c] \in Nat /\ Fat(t)[c] <= Mark
<1>1. BytesSeen(t) \in [FatPlaces -> 0 .. 255]
  BY SeenBytes
<1>2. Fat(t)[c] = EntryOf(BytesSeen(t), c)
  BY DEF Fat
<1> QED BY <1>1, <1>2, EntryFits

\* The held cluster is freed, or lost, and the one behind it is held.
LEMMA FreesHeld ==
    ASSUME Areas, NEW t, NEW f, NEW q, NEW c \in Clusters, Sane(t, f, q, {c}),
           NEW u \in put_fat(t, c, 0)
    PROVE  /\ Sane(u, f, q, {}) /\ u.path = t.path /\ u.val = t.val /\ ~Goes(u)
           /\ Ok(u) /\ Fat(t)[c] \in Clusters => Sane(u, f, q, {Fat(t)[c]})
<1> DEFINE F == Fat(t)
           G == Fat(u)
           n == F[c]
<1>1. Proper(t, f, q) /\ Coherent(t)
  BY DEF Sane, Grounded
<1>2. /\ Proper(u, f, q) /\ Coherent(u) /\ QuietTables(t, u)
      /\ u.path = t.path /\ u.val = t.val
      /\ u.res \in {"OK", "DISK_ERR", "INT_ERR"}
      /\ Ok(u) => OneChanged(F, G, c)
      /\ ~Ok(u) => Cut(t, u, c)
  BY <1>1, PutFatProper
<1>3. OneChanged(F, G, c)
  BY <1>2 DEF Cut, OneChanged
<1> HIDE DEF F, G
<1>4. ASSUME Whole(u)
      PROVE  /\ Alone(t, {})
             /\ n \in Clusters => Alone(t, {n})
             /\ \E K \in SUBSET Clusters :
                   /\ Chained(G, K, u.broken)
                   /\ \A e : Owned(t, {}, e) => Begins(G, K, e)
                   /\ n \in Clusters => Begins(G, K, n)
  <2>1. Alone(t, {c})
    BY <1>2, <1>4, SaneUnfolds
  <2>2. PICK J \in SUBSET Clusters :
            /\ Chained(F, J, u.broken)
            /\ \A e : Owned(t, {c}, e) => Begins(F, J, e)
    BY <1>2, <1>4, SaneUnfolds DEF F
  <2>3. Begins(F, J, c)
    BY <2>2 DEF Owned
  <2>4. c \notin J /\ \A e \in Clusters \ J : F[e] # c
    BY <2>3 DEF Begins
  <2>5. /\ Chained(G, J \cup {c}, u.broken)
        /\ \A e : Begins(F, J, e) /\ e # c => Begins(G, J \cup {c}, e)
        /\ c \notin J /\ F[c] \in Clusters => Begins(G, J \cup {c}, F[c])
    BY <1>3, <2>2, <2>4, LoseKeepsChains
  <2>6. ASSUME NEW e, Owned(t, {}, e) PROVE e # c /\ Begins(F, J, e)
    BY <2>1, <2>2, <2>6 DEF Owned, Alone
  <2>7. ASSUME NEW e, Owned(t, {}, e) PROVE e # n
    BY <2>4, <2>6, <2>7 DEF Begins
  <2>8. Alone(t, {})
    BY <2>1 DEF Alone
  <2>9. n \in Clusters => Alone(t, {n})
    BY <2>7, <2>8 DEF Alone, Owned
  <2> QED BY <2>4, <2>5, <2>6, <2>8, <2>9
<1>5. Sane(u, f, q, {})
  BY <1>2, <1>4, SaneFolds DEF G
<1>6. n \in Clusters => Sane(u, f, q, {n})
  <2>1. \A e : Owned(t, {n}, e) => e = n \/ Owned(t, {}, e)
    BY DEF Owned
  <2>2. ASSUME n \in Clusters, Whole(u)
        PROVE  /\ Alone(t, {n})
               /\ \E K \in SUBSET Clusters :
                     /\ Chained(G, K, u.broken)
                     /\ \A e : Owned(t, {n}, e) => Begins(G, K, e)
    BY <1>4, <2>1, <2>2
  <2> HIDE DEF n
  <2> QED BY <1>2, <2>2, SaneFolds DEF G
<1> QED BY <1>2, <1>5, <1>6 DEF Goes, F

LEMMA RemoveRoundSane ==
    ASSUME Areas, NEW t, NEW f, NEW q, Sane(t, f, q, {t.val}), Ok(t), NEW k,
           NEW u \in RemoveRound(t, k)
    PROVE  Sane(u, f, q, {}) /\ (Goes(u) => Sane(u, f, q, {u.val}))
<1> DEFINE c == t.val
<1>1. CASE c \notin Clusters
  <2>1. u = Result(t, "INT_ERR") /\ DOMAIN t = Fields
    BY <1>1 DEF RemoveRound, Sane, Proper
  <2>2. Sane(u, f, q, {c}) /\ ~Goes(u)
    BY <2>1, ResultIs, SaneLike DEF Goes
  <2> QED BY <2>2, HoldsLess
<1>2. CASE c \in Clusters
  <2>1. PICK v \in get_fat(t, c) :
            \/ \E r \in {"OK", "INT_ERR", "DISK_ERR"} : u = Result(v, r)
            \/ /\ v.val # 0 /\ v.val # 1 /\ v.val # DiskError
               /\ \E w \in put_fat(v, c, 0) :
                     \/ ~Ok(w) /\ u = w
                     \/ Ok(w) /\ v.val < fs.n_fatent /\ u = More(OneMoreFree(w))
                     \/ Ok(w) /\ u = OneMoreFree(w)
    BY <1>2 DEF RemoveRound
  <2>2. Sane(v, f, q, {c}) /\ Fat(v) = Fat(t) /\ v.val \in {DiskError, Fat(t)[c]}
    BY <1>2, <2>1, GetFatSane
  <2>3. DOMAIN v = Fields /\ Coherent(v)
    BY <2>2 DEF Sane, Proper, Grounded
  <2>4. ASSUME NEW r \in {"OK", "INT_ERR", "DISK_ERR"}, u = Result(v, r)
        PROVE  Sane(u, f, q, {}) /\ ~Goes(u)
    <3>1. Sane(u, f, q, {c}) /\ ~Goes(u)
      BY <2>2, <2>3, <2>4, ResultIs, SaneLike DEF Goes
    <3> QED BY <3>1, HoldsLess
  <2>5. ASSUME v.val # 0, v.val # 1, v.val # DiskError,
               NEW w \in put_fat(v, c, 0),
               \/ ~Ok(w) /\ u = w
               \/ Ok(w) /\ v.val < fs.n_fatent /\ u = More(OneMoreFree(w))
               \/ Ok(w) /\ u = OneMoreFree(w)
        PROVE  Sane(u, f, q, {}) /\ (Goes(u) => Sane(u, f, q, {u.val}))
    <3> DEFINE x == OneMoreFree(w)
               n == v.val
    <3>1. /\ Sane(w, f, q, {}) /\ w.val = n /\ ~Goes(w)
          /\ Ok(w) /\ n \in Clusters => Sane(w, f, q, {n})
      BY <1>2, <2>2, <2>5, FreesHeld
    <3>2. n < fs.n_fatent => n \in Clusters
      <4>1. n \in Nat /\ n # 0 /\ n # 1
        BY <1>2, <2>2, <2>3, <2>5, FatValues
      <4> HIDE DEF n
      <4> QED BY <4>1 DEF Clusters, Areas
    <3>3. \A j : Sane(w, f, q, j) => /\ Sane(x, f, q, j) /\ x.val = n /\ x.res = w.res
                                     /\ Sane(More(x), f, q, j) /\ More(x).val = n
      <4>1. ASSUME NEW j, Sane(w, f, q, j)
            PROVE  /\ Sane(x, f, q, j) /\ x.val = n /\ x.res = w.res
                   /\ Sane(More(x), f, q, j) /\ More(x).val = n
        <5>1. Sane(x, f, q, j) /\ x.val = w.val /\ x.res = w.res
          BY <4>1, CountSane
        <5> HIDE DEF x
        <5>2. DOMAIN x = Fields
          BY <5>1 DEF Sane, Proper
        <5> QED BY <3>1, <5>1, <5>2, ResultIs, SaneLike DEF More
      <4> QED BY <4>1
    <3>4. ~Goes(x)
      BY <3>1, <3>3 DEF Goes
    <3> HIDE DEF x, n
    <3> QED BY <2>5, <3>1, <3>2, <3>3, <3>4 DEF x, n
  <2> QED BY <2>1, <2>4, <2>5
<1> QED BY <1>1, <1>2

-----------------------------------------------------------------------------
(* Loops.  A loop is a function of the number of its rounds; that there is *)
(* such a function has to be shown of each, for a lemma cannot be used for *)
(* an operator that is its parameter.                                      *)

\* What a round of the loop with a name does; x is what the loop looks for.
Turn(loop, x, u, k) ==
    CASE loop = "remove" -> RemoveRound(u, k)
      [] loop = "search" -> SearchRound(u, x)
      [] loop = "clear"  -> ClearRound(u, k, x)
      [] loop = "find"   -> FindRound(u, k)
      [] loop = "alloc"  -> AllocRound(u, k)
      [] loop = "follow" -> FollowRound(u, k)
      [] OTHER           -> WriteRound(u, x)

\* The states after round k, where g[k - 1] are those before it.
After(g, loop, x, t, k) ==
    IF k = 0 THEN {More(t)}
    ELSE UNION {IF Goes(u) THEN Turn(loop, x, Result(u, "OK"), k) ELSE {u} : u \in g[k - 1]}

Unrolls(g, loop, x, t, L) == g = [k \in 0 .. L |-> After(g, loop, x, t, k)]

LEMMA LoopsRun ==
    ASSUME NEW loop, NEW x, NEW t, NEW L \in Nat
    PROVE  \E g : Unrolls(g, loop, x, t, L)
<1> DEFINE Runs(n) == \E g : g = [k \in 0 .. n |-> After(g, loop, x, t, k)]
           S == {n \in Nat : Runs(n)}
<1>1. Runs(0)
  <2> DEFINE g == [k \in 0 .. 0 |-> {More(t)}]
  <2>1. \A k \in 0 .. 0 : k = 0
    OBVIOUS
  <2>2. g = [k \in 0 .. 0 |-> After(g, loop, x, t, k)]
    BY <2>1 DEF After
  <2> QED BY <2>2
<1>2. ASSUME NEW n \in Nat, Runs(n) PROVE Runs(n + 1)
  <2>1. PICK f : f = [k \in 0 .. n |-> After(f, loop, x, t, k)]
    BY <1>2
  <2> DEFINE next == UNION {IF Goes(u) THEN Turn(loop, x, Result(u, "OK"), n + 1) ELSE {u} :
                               u \in f[n]}
             g == [k \in 0 .. n + 1 |-> IF k = n + 1 THEN next ELSE f[k]]
  <2>2. ASSUME NEW k \in 0 .. n + 1 PROVE g[k] = After(g, loop, x, t, k)
    <3>1. CASE k = n + 1
      <4>1. g[k] = next /\ g[n] = f[n] /\ k # 0 /\ k - 1 = n
        BY <3>1
      <4> HIDE DEF g
      <4> QED BY <4>1, <3>1 DEF After
    <3>2. CASE k # n + 1
      <4>1. k \in 0 .. n /\ g[k] = f[k] /\ f[k] = After(f, loop, x, t, k)
        BY <3>2, <2>1
      <4>2. k # 0 => k - 1 \in 0 .. n + 1 /\ k - 1 # n + 1
        BY <4>1
      <4>3. k # 0 => g[k - 1] = f[k - 1]
        BY <4>2
      <4> HIDE DEF g
      <4> QED BY <4>1, <4>3 DEF After
    <3> QED BY <3>1, <3>2
  <2>3. g = [k \in 0 .. n + 1 |-> g[k]]
    OBVIOUS
  <2> HIDE DEF g
  <2>4. g = [k \in 0 .. n + 1 |-> After(g, loop, x, t, k)]
    BY <2>2, <2>3
  <2> QED BY <2>4
<1>3. 0 \in S /\ \A k \in 0 .. L - 1 : k \in S => k + 1 \in S
  <2> HIDE DEF Runs
  <2> QED BY <1>1, <1>2
<1> HIDE DEF S
<1>4. L \in S
  BY <1>3, UpToInduction
<1>5. PICK g : g = [k \in 0 .. L |-> After(g, loop, x, t, k)]
  BY <1>4 DEF S
<1>6. Unrolls(g, loop, x, t, L)
  BY <1>5 DEF Unrolls
<1> QED BY <1>6

-----------------------------------------------------------------------------
(* What the rounds of each loop keep.                                      *)

\* A position in a table is a sector of the table, or none.
Placed(q) ==
    /\ DOMAIN q = {"sclust", "dptr", "sect", "clust", "fn"}
    /\ q.sect # 0 =>
          /\ q.dptr \in Nat /\ q.dptr % 32 = 0
          /\ IF q.clust = 0
             THEN /\ fs.fs_type # "FAT32" /\ q.dptr \div 32 < 512
                  /\ q.sect = fs.dirbase + q.dptr \div 512
             ELSE /\ q.clust \in Clusters
                  /\ q.sect = clst2sect(q.clust) + ((q.dptr \div 512) % fs.csize)

\* A memory with a position of its own, and one that has been positioned.
Walks(t, f, h) == Sane(t, f, t.dp, h) /\ Placed(t.dp)
Stands(t, f, h) ==
    /\ Walks(t, f, h)
    /\ Ok(t) \/ Goes(t) => t.dp.sect # 0
    /\ Ok(t) => t.winsect = t.dp.sect

\* The object of a file that is open: its buffer belongs to a cluster of the
\* volume, its entry to a table, and its chain to nobody else.
Filed(f) ==
    /\ DOMAIN f = DOMAIN NoFile
    /\ f.sclust \in Clusters \cup {0} /\ f.clust \in Clusters \cup {0}
    /\ f.sclust = 0 => f.clust = 0
    /\ f.objsize \in Nat /\ f.bw \in Nat /\ f.dirty \in BOOLEAN
    /\ f.dirty \/ f.objsize % 512 # 0 => DataSector(f.sect)
    /\ TableSector(f.dir_sect) /\ f.dir_slot \in 0 .. Slots - 1
Held(f) == {f.sclust} \ {0}
Writes(t, q) == Sane(t, t.fp, q, Held(t.fp)) /\ Filed(t.fp)

\* The chain that is removed is held from its next cluster on; the search
\* leaves the FAT z as it is, and finds a cluster that is free.
Kept(loop, x, f, q, h, z, u) ==
    CASE loop = "remove" -> Sane(u, f, q, {}) /\ (Goes(u) => Sane(u, f, q, {u.val}))
      [] loop = "search" -> /\ Sane(u, f, q, h) /\ Fat(u) = z
                            /\ u.val \in Clusters \cup {0, 1, DiskError}
                            /\ Goes(u) => u.val \in Clusters \cup {1}
                            /\ ~Goes(u) /\ u.val \in Clusters => z[u.val] = 0
      [] loop = "clear"  -> Sane(u, f, q, h) /\ u.winsect = x
      [] loop = "find"   -> Stands(u, f, h)
      [] loop = "alloc"  -> Stands(u, f, h)
      [] loop = "follow" -> Walks(u, f, h)
      [] OTHER           -> Writes(u, q)

\* What a loop begins with, and every round hands on, it ends with.
LEMMA LoopKeeps ==
    ASSUME NEW loop, NEW x, NEW t, NEW n \in Nat, NEW f, NEW q, NEW h, NEW z,
           NEW g, g = [k \in 0 .. n |-> After(g, loop, x, t, k)],
           Kept(loop, x, f, q, h, z, More(t)),
           \A k \in 1 .. n : \A u : Kept(loop, x, f, q, h, z, u) /\ Goes(u) =>
               \A v \in Turn(loop, x, Result(u, "OK"), k) : Kept(loop, x, f, q, h, z, v)
    PROVE  \A u \in g[n] : Kept(loop, x, f, q, h, z, u)
<1> DEFINE S == {k \in 0 .. n : \A u \in g[k] : Kept(loop, x, f, q, h, z, u)}
<1>1. 0 \in S
  <2>1. g[0] = {More(t)} /\ 0 \in 0 .. n
    BY DEF After
  <2> QED BY <2>1
<1>2. ASSUME NEW k \in 0 .. n - 1, k \in S PROVE k + 1 \in S
  <2>1. k + 1 \in 0 .. n /\ k + 1 \in 1 .. n /\ k + 1 # 0 /\ (k + 1) - 1 = k
    OBVIOUS
  <2>2. g[k + 1] = UNION {IF Goes(u) THEN Turn(loop, x, Result(u, "OK"), k + 1) ELSE {u} :
                             u \in g[k]}
    <3>1. g[k + 1] = After(g, loop, x, t, k + 1)
      BY <2>1
    <3> QED BY <2>1, <3>1 DEF After
  <2>3. ASSUME NEW v \in g[k + 1] PROVE Kept(loop, x, f, q, h, z, v)
    <3>1. PICK u \in g[k] : v \in IF Goes(u) THEN Turn(loop, x, Result(u, "OK"), k + 1) ELSE {u}
      BY <2>2
    <3>2. Kept(loop, x, f, q, h, z, u)
      BY <1>2
    <3> QED BY <2>1, <3>1, <3>2
  <2> QED BY <2>1, <2>3
<1> HIDE DEF S
<1>3. \A k \in 0 .. n - 1 : k \in S => k + 1 \in S
  BY <1>2
<1>4. 0 .. n \subseteq S
  BY <1>1, <1>3, UpToInduction
<1> QED BY <1>4 DEF S

LEMMA RemoveLoop ==
    ASSUME NEW t, NEW n \in Nat, NEW f, NEW q, NEW h, NEW z,
           Kept("remove", 0, f, q, h, z, More(t)),
           \A k \in 1 .. n : \A u : Kept("remove", 0, f, q, h, z, u) /\ Goes(u) =>
               \A v \in RemoveRound(Result(u, "OK"), k) : Kept("remove", 0, f, q, h, z, v)
    PROVE  \A v \in Loop(RemoveRound, t, n) : Kept("remove", 0, f, q, h, z, v) /\ ~Goes(v)
<1> DEFINE loop == "remove"
           x == 0
           Iterate(g, k) ==
               IF k = 0 THEN {More(t)}
               ELSE UNION {IF Goes(u) THEN RemoveRound(Result(u, "OK"), k)
                           ELSE {u} : u \in g[k - 1]}
           runs == CHOOSE g : g = [k \in 0 .. n |-> Iterate(g, k)]
<1>1. Loop(RemoveRound, t, n) = {u \in runs[n] : ~Goes(u)}
  BY DEF Loop
<1>2. \A u, k : Turn(loop, x, u, k) = RemoveRound(u, k)
  BY DEF Turn
<1>3. \A g, k : After(g, loop, x, t, k) = Iterate(g, k)
  BY <1>2 DEF After
<1> HIDE DEF loop, x
<1>4. PICK g : Unrolls(g, loop, x, t, n)
  BY LoopsRun
<1>5. runs = [k \in 0 .. n |-> After(runs, loop, x, t, k)]
  <2> HIDE DEF Iterate
  <2>1. g = [k \in 0 .. n |-> Iterate(g, k)]
    BY <1>3, <1>4 DEF Unrolls
  <2>2. runs = [k \in 0 .. n |-> Iterate(runs, k)]
    BY <2>1
  <2> QED BY <1>3, <2>2
<1> HIDE DEF runs
<1>6. \A u \in runs[n] : Kept(loop, x, f, q, h, z, u)
  <2>1. Kept(loop, x, f, q, h, z, More(t))
    BY DEF loop, x
  <2>2. \A k \in 1 .. n : \A u : Kept(loop, x, f, q, h, z, u) /\ Goes(u) =>
            \A v \in Turn(loop, x, Result(u, "OK"), k) : Kept(loop, x, f, q, h, z, v)
    BY <1>2 DEF loop, x
  <2> QED BY <1>5, <2>1, <2>2, LoopKeeps
<1> QED BY <1>1, <1>6 DEF loop, x

Searched(t, x, n) == LET Once(u, k) == SearchRound(u, x) IN Loop(Once, t, n)

LEMMA SearchLoop ==
    ASSUME NEW t, NEW n \in Nat, NEW f, NEW q, NEW h, NEW x, NEW z,
           Kept("search", x, f, q, h, z, More(t)),
           \A k \in 1 .. n : \A u : Kept("search", x, f, q, h, z, u) /\ Goes(u) =>
               \A v \in SearchRound(Result(u, "OK"), x) : Kept("search", x, f, q, h, z, v)
    PROVE  \A v \in Searched(t, x, n) : Kept("search", x, f, q, h, z, v) /\ ~Goes(v)
<1> DEFINE loop == "search"
           Iterate(g, k) ==
               IF k = 0 THEN {More(t)}
               ELSE UNION {IF Goes(u) THEN SearchRound(Result(u, "OK"), x)
                           ELSE {u} : u \in g[k - 1]}
           runs == CHOOSE g : g = [k \in 0 .. n |-> Iterate(g, k)]
<1>1. Searched(t, x, n) = {u \in runs[n] : ~Goes(u)}
  BY DEF Searched, Loop
<1>2. \A u, k : Turn(loop, x, u, k) = SearchRound(u, x)
  BY DEF Turn
<1>3. \A g, k : After(g, loop, x, t, k) = Iterate(g, k)
  BY <1>2 DEF After
<1> HIDE DEF loop
<1>4. PICK g : Unrolls(g, loop, x, t, n)
  BY LoopsRun
<1>5. runs = [k \in 0 .. n |-> After(runs, loop, x, t, k)]
  <2> HIDE DEF Iterate
  <2>1. g = [k \in 0 .. n |-> Iterate(g, k)]
    BY <1>3, <1>4 DEF Unrolls
  <2>2. runs = [k \in 0 .. n |-> Iterate(runs, k)]
    BY <2>1
  <2> QED BY <1>3, <2>2
<1> HIDE DEF runs
<1>6. \A u \in runs[n] : Kept(loop, x, f, q, h, z, u)
  <2>1. Kept(loop, x, f, q, h, z, More(t))
    BY DEF loop
  <2>2. \A k \in 1 .. n : \A u : Kept(loop, x, f, q, h, z, u) /\ Goes(u) =>
            \A v \in Turn(loop, x, Result(u, "OK"), k) : Kept(loop, x, f, q, h, z, v)
    BY <1>2 DEF loop
  <2> QED BY <1>5, <2>1, <2>2, LoopKeeps
<1> QED BY <1>1, <1>6 DEF loop

Cleared(t, x, n) == LET Once(u, k) == ClearRound(u, k, x) IN Loop(Once, t, n)

LEMMA ClearLoop ==
    ASSUME NEW t, NEW n \in Nat, NEW f, NEW q, NEW h, NEW x, NEW z,
           Kept("clear", x, f, q, h, z, More(t)),
           \A k \in 1 .. n : \A u : Kept("clear", x, f, q, h, z, u) /\ Goes(u) =>
               \A v \in ClearRound(Result(u, "OK"), k, x) : Kept("clear", x, f, q, h, z, v)
    PROVE  \A v \in Cleared(t, x, n) : Kept("clear", x, f, q, h, z, v) /\ ~Goes(v)
<1> DEFINE loop == "clear"
           Iterate(g, k) ==
               IF k = 0 THEN {More(t)}
               ELSE UNION {IF Goes(u) THEN ClearRound(Result(u, "OK"), k, x)
                           ELSE {u} : u \in g[k - 1]}
           runs == CHOOSE g : g = [k \in 0 .. n |-> Iterate(g, k)]
<1>1. Cleared(t, x, n) = {u \in runs[n] : ~Goes(u)}
  BY DEF Cleared, Loop
<1>2. \A u, k : Turn(loop, x, u, k) = ClearRound(u, k, x)
  BY DEF Turn
<1>3. \A g, k : After(g, loop, x, t, k) = Iterate(g, k)
  BY <1>2 DEF After
<1> HIDE DEF loop
<1>4. PICK g : Unrolls(g, loop, x, t, n)
  BY LoopsRun
<1>5. runs = [k \in 0 .. n |-> After(runs, loop, x, t, k)]
  <2> HIDE DEF Iterate
  <2>1. g = [k \in 0 .. n |-> Iterate(g, k)]
    BY <1>3, <1>4 DEF Unrolls
  <2>2. runs = [k \in 0 .. n |-> Iterate(runs, k)]
    BY <2>1
  <2> QED BY <1>3, <2>2
<1> HIDE DEF runs
<1>6. \A u \in runs[n] : Kept(loop, x, f, q, h, z, u)
  <2>1. Kept(loop, x, f, q, h, z, More(t))
    BY DEF loop
  <2>2. \A k \in 1 .. n : \A u : Kept(loop, x, f, q, h, z, u) /\ Goes(u) =>
            \A v \in Turn(loop, x, Result(u, "OK"), k) : Kept(loop, x, f, q, h, z, v)
    BY <1>2 DEF loop
  <2> QED BY <1>5, <2>1, <2>2, LoopKeeps
<1> QED BY <1>1, <1>6 DEF loop

LEMMA FindLoop ==
    ASSUME NEW t, NEW n \in Nat, NEW f, NEW q, NEW h, NEW z,
           Kept("find", 0, f, q, h, z, More(t)),
           \A k \in 1 .. n : \A u : Kept("find", 0, f, q, h, z, u) /\ Goes(u) =>
               \A v \in FindRound(Result(u, "OK"), k) : Kept("find", 0, f, q, h, z, v)
    PROVE  \A v \in Loop(FindRound, t, n) : Kept("find", 0, f, q, h, z, v) /\ ~Goes(v)
<1> DEFINE loop == "find"
           x == 0
           Iterate(g, k) ==
               IF k = 0 THEN {More(t)}
               ELSE UNION {IF Goes(u) THEN FindRound(Result(u, "OK"), k)
                           ELSE {u} : u \in g[k - 1]}
           runs == CHOOSE g : g = [k \in 0 .. n |-> Iterate(g, k)]
<1>1. Loop(FindRound, t, n) = {u \in runs[n] : ~Goes(u)}
  BY DEF Loop
<1>2. \A u, k : Turn(loop, x, u, k) = FindRound(u, k)
  BY DEF Turn
<1>3. \A g, k : After(g, loop, x, t, k) = Iterate(g, k)
  BY <1>2 DEF After
<1> HIDE DEF loop, x
<1>4. PICK g : Unrolls(g, loop, x, t, n)
  BY LoopsRun
<1>5. runs = [k \in 0 .. n |-> After(runs, loop, x, t, k)]
  <2> HIDE DEF Iterate
  <2>1. g = [k \in 0 .. n |-> Iterate(g, k)]
    BY <1>3, <1>4 DEF Unrolls
  <2>2. runs = [k \in 0 .. n |-> Iterate(runs, k)]
    BY <2>1
  <2> QED BY <1>3, <2>2
<1> HIDE DEF runs
<1>6. \A u \in runs[n] : Kept(loop, x, f, q, h, z, u)
  <2>1. Kept(loop, x, f, q, h, z, More(t))
    BY DEF loop, x
  <2>2. \A k \in 1 .. n : \A u : Kept(loop, x, f, q, h, z, u) /\ Goes(u) =>
            \A v \in Turn(loop, x, Result(u, "OK"), k) : Kept(loop, x, f, q, h, z, v)
    BY <1>2 DEF loop, x
  <2> QED BY <1>5, <2>1, <2>2, LoopKeeps
<1> QED BY <1>1, <1>6 DEF loop, x

LEMMA AllocLoop ==
    ASSUME NEW t, NEW n \in Nat, NEW f, NEW q, NEW h, NEW z,
           Kept("alloc", 0, f, q, h, z, More(t)),
           \A k \in 1 .. n : \A u : Kept("alloc", 0, f, q, h, z, u) /\ Goes(u) =>
               \A v \in AllocRound(Result(u, "OK"), k) : Kept("alloc", 0, f, q, h, z, v)
    PROVE  \A v \in Loop(AllocRound, t, n) : Kept("alloc", 0, f, q, h, z, v) /\ ~Goes(v)
<1> DEFINE loop == "alloc"
           x == 0
           Iterate(g, k) ==
               IF k = 0 THEN {More(t)}
               ELSE UNION {IF Goes(u) THEN AllocRound(Result(u, "OK"), k)
                           ELSE {u} : u \in g[k - 1]}
           runs == CHOOSE g : g = [k \in 0 .. n |-> Iterate(g, k)]
<1>1. Loop(AllocRound, t, n) = {u \in runs[n] : ~Goes(u)}
  BY DEF Loop
<1>2. \A u, k : Turn(loop, x, u, k) = AllocRound(u, k)
  BY DEF Turn
<1>3. \A g, k : After(g, loop, x, t, k) = Iterate(g, k)
  BY <1>2 DEF After
<1> HIDE DEF loop, x
<1>4. PICK g : Unrolls(g, loop, x, t, n)
  BY LoopsRun
<1>5. runs = [k \in 0 .. n |-> After(runs, loop, x, t, k)]
  <2> HIDE DEF Iterate
  <2>1. g = [k \in 0 .. n |-> Iterate(g, k)]
    BY <1>3, <1>4 DEF Unrolls
  <2>2. runs = [k \in 0 .. n |-> Iterate(runs, k)]
    BY <2>1
  <2> QED BY <1>3, <2>2
<1> HIDE DEF runs
<1>6. \A u \in runs[n] : Kept(loop, x, f, q, h, z, u)
  <2>1. Kept(loop, x, f, q, h, z, More(t))
    BY DEF loop, x
  <2>2. \A k \in 1 .. n : \A u : Kept(loop, x, f, q, h, z, u) /\ Goes(u) =>
            \A v \in Turn(loop, x, Result(u, "OK"), k) : Kept(loop, x, f, q, h, z, v)
    BY <1>2 DEF loop, x
  <2> QED BY <1>5, <2>1, <2>2, LoopKeeps
<1> QED BY <1>1, <1>6 DEF loop, x

LEMMA FollowLoop ==
    ASSUME NEW t, NEW n \in Nat, NEW f, NEW q, NEW h, NEW z,
           Kept("follow", 0, f, q, h, z, More(t)),
           \A k \in 1 .. n : \A u : Kept("follow", 0, f, q, h, z, u) /\ Goes(u) =>
               \A v \in FollowRound(Result(u, "OK"), k) : Kept("follow", 0, f, q, h, z, v)
    PROVE  \A v \in Loop(FollowRound, t, n) : Kept("follow", 0, f, q, h, z, v) /\ ~Goes(v)
<1> DEFINE loop == "follow"
           x == 0
           Iterate(g, k) ==
               IF k = 0 THEN {More(t)}
               ELSE UNION {IF Goes(u) THEN FollowRound(Result(u, "OK"), k)
                           ELSE {u} : u \in g[k - 1]}
           runs == CHOOSE g : g = [k \in 0 .. n |-> Iterate(g, k)]
<1>1. Loop(FollowRound, t, n) = {u \in runs[n] : ~Goes(u)}
  BY DEF Loop
<1>2. \A u, k : Turn(loop, x, u, k) = FollowRound(u, k)
  BY DEF Turn
<1>3. \A g, k : After(g, loop, x, t, k) = Iterate(g, k)
  BY <1>2 DEF After
<1> HIDE DEF loop, x
<1>4. PICK g : Unrolls(g, loop, x, t, n)
  BY LoopsRun
<1>5. runs = [k \in 0 .. n |-> After(runs, loop, x, t, k)]
  <2> HIDE DEF Iterate
  <2>1. g = [k \in 0 .. n |-> Iterate(g, k)]
    BY <1>3, <1>4 DEF Unrolls
  <2>2. runs = [k \in 0 .. n |-> Iterate(runs, k)]
    BY <2>1
  <2> QED BY <1>3, <2>2
<1> HIDE DEF runs
<1>6. \A u \in runs[n] : Kept(loop, x, f, q, h, z, u)
  <2>1. Kept(loop, x, f, q, h, z, More(t))
    BY DEF loop, x
  <2>2. \A k \in 1 .. n : \A u : Kept(loop, x, f, q, h, z, u) /\ Goes(u) =>
            \A v \in Turn(loop, x, Result(u, "OK"), k) : Kept(loop, x, f, q, h, z, v)
    BY <1>2 DEF loop, x
  <2> QED BY <1>5, <2>1, <2>2, LoopKeeps
<1> QED BY <1>1, <1>6 DEF loop, x

Poured(t, x, n) == LET Once(u, k) == WriteRound(u, x) IN Loop(Once, t, n)

LEMMA WriteLoop ==
    ASSUME NEW t, NEW n \in Nat, NEW f, NEW q, NEW h, NEW x, NEW z,
           Kept("write", x, f, q, h, z, More(t)),
           \A k \in 1 .. n : \A u : Kept("write", x, f, q, h, z, u) /\ Goes(u) =>
               \A v \in WriteRound(Result(u, "OK"), x) : Kept("write", x, f, q, h, z, v)
    PROVE  \A v \in Poured(t, x, n) : Kept("write", x, f, q, h, z, v) /\ ~Goes(v)
<1> DEFINE loop == "write"
           Iterate(g, k) ==
               IF k = 0 THEN {More(t)}
               ELSE UNION {IF Goes(u) THEN WriteRound(Result(u, "OK"), x)
                           ELSE {u} : u \in g[k - 1]}
           runs == CHOOSE g : g = [k \in 0 .. n |-> Iterate(g, k)]
<1>1. Poured(t, x, n) = {u \in runs[n] : ~Goes(u)}
  BY DEF Poured, Loop
<1>2. \A u, k : Turn(loop, x, u, k) = WriteRound(u, x)
  BY DEF Turn
<1>3. \A g, k : After(g, loop, x, t, k) = Iterate(g, k)
  BY <1>2 DEF After
<1> HIDE DEF loop
<1>4. PICK g : Unrolls(g, loop, x, t, n)
  BY LoopsRun
<1>5. runs = [k \in 0 .. n |-> After(runs, loop, x, t, k)]
  <2> HIDE DEF Iterate
  <2>1. g = [k \in 0 .. n |-> Iterate(g, k)]
    BY <1>3, <1>4 DEF Unrolls
  <2>2. runs = [k \in 0 .. n |-> Iterate(runs, k)]
    BY <2>1
  <2> QED BY <1>3, <2>2
<1> HIDE DEF runs
<1>6. \A u \in runs[n] : Kept(loop, x, f, q, h, z, u)
  <2>1. Kept(loop, x, f, q, h, z, More(t))
    BY DEF loop
  <2>2. \A k \in 1 .. n : \A u : Kept(loop, x, f, q, h, z, u) /\ Goes(u) =>
            \A v \in Turn(loop, x, Result(u, "OK"), k) : Kept(loop, x, f, q, h, z, v)
    BY <1>2 DEF loop
  <2> QED BY <1>5, <2>1, <2>2, LoopKeeps
<1> QED BY <1>1, <1>6 DEF loop

-----------------------------------------------------------------------------
(* Chains.                                                                 *)

LEMMA SaneMarks ==
    ASSUME Areas, NEW t, NEW f, NEW q, NEW h, Sane(t, f, q, h), NEW r
    PROVE  /\ Sane(Result(t, r), f, q, h) /\ Sane(Value(t, r), f, q, h) /\ Sane(More(t), f, q, h)
           /\ Fat(Result(t, r)) = Fat(t) /\ Fat(Value(t, r)) = Fat(t) /\ Fat(More(t)) = Fat(t)
           /\ Result(t, r).res = r /\ Result(t, r).val = t.val
           /\ Value(t, r).val = r /\ Value(t, r).res = t.res
           /\ Goes(More(t)) /\ ~Ok(More(t)) /\ More(t).val = t.val
           /\ Result(t, r).winsect = t.winsect /\ Value(t, r).winsect = t.winsect
           /\ More(t).winsect = t.winsect
           /\ Result(t, r).dp = t.dp /\ Value(t, r).dp = t.dp /\ More(t).dp = t.dp
           /\ Result(t, r).fp = t.fp /\ Value(t, r).fp = t.fp /\ More(t).fp = t.fp
<1>1. DOMAIN t = Fields
  BY DEF Sane, Proper
<1> QED BY <1>1, ResultIs, ValueIs, SaneLike DEF More, Goes, Ok, Like

\* A chain that is removed belongs to nobody.
LEMMA RemoveChainSane ==
    ASSUME Areas, NEW t, NEW f, NEW q, NEW clst, Sane(t, f, q, {clst}),
           NEW u \in remove_chain(t, clst)
    PROVE  Sane(u, f, q, {})
<1> DEFINE w == Value(t, clst)
<1>1. Kept("remove", 0, f, q, {}, 0, More(w))
  <2>1. Sane(w, f, q, {clst}) /\ w.val = clst
    BY SaneMarks
  <2> HIDE DEF w
  <2>2. Sane(More(w), f, q, {clst}) /\ More(w).val = clst
    BY <2>1, SaneMarks
  <2>3. Sane(More(w), f, q, {})
    BY <2>2, HoldsLess
  <2> QED BY <2>2, <2>3 DEF Kept
<1>2. ASSUME NEW k \in 1 .. fs.n_fatent, NEW v, Kept("remove", 0, f, q, {}, 0, v), Goes(v),
             NEW y \in RemoveRound(Result(v, "OK"), k)
      PROVE  Kept("remove", 0, f, q, {}, 0, y)
  <2> DEFINE x == Result(v, "OK")
  <2>1. Sane(x, f, q, {x.val}) /\ Ok(x)
    BY <1>2, SaneMarks DEF Kept, Ok
  <2>2. y \in RemoveRound(x, k)
    OBVIOUS
  <2> HIDE DEF x
  <2> QED BY <2>1, <2>2, RemoveRoundSane DEF Kept
<1>3. u \in Loop(RemoveRound, w, fs.n_fatent) /\ fs.n_fatent \in Nat
  BY DEF remove_chain, Areas
<1> HIDE DEF w
<1>4. Kept("remove", 0, f, q, {}, 0, u)
  BY <1>1, <1>2, <1>3, RemoveLoop
<1> QED BY <1>4 DEF Kept

LEMMA SearchRoundSane ==
    ASSUME Areas, NEW t, NEW f, NEW q, NEW h, Sane(t, f, q, h), Ok(t),
           t.val \in Clusters \cup {1}, NEW scl \in Clusters \cup {1},
           NEW u \in SearchRound(t, scl)
    PROVE  /\ Sane(u, f, q, h) /\ Fat(u) = Fat(t) /\ u.val \in Clusters \cup {0, 1, DiskError}
           /\ Goes(u) => u.val \in Clusters
           /\ ~Goes(u) /\ u.val \in Clusters => Fat(t)[u.val] = 0
<1> DEFINE n == IF t.val + 1 >= fs.n_fatent THEN 2 ELSE t.val + 1
<1>1. n \in Clusters
  BY DEF Clusters, Areas
<1>2. \/ u = Value(t, 0)
      \/ \E v \in get_fat(t, n) :
            \/ u = Value(v, n) /\ v.val = 0
            \/ u = v /\ v.val \in {1, DiskError}
            \/ u = Value(v, 0)
            \/ u = More(Value(v, n))
  BY DEF SearchRound
<1> HIDE DEF n
<1>3. 0 \notin Clusters /\ 1 \notin Clusters /\ DiskError \notin Clusters /\ DiskError # 0
  BY ClustersAre, WrapAssumption DEF DiskError, Unknown
<1>4. CASE u = Value(t, 0)
  <2>1. Sane(u, f, q, h) /\ Fat(u) = Fat(t) /\ u.val = 0 /\ u.res = t.res
    BY <1>4, SaneMarks
  <2> QED BY <1>3, <2>1 DEF Goes, Ok
<1>5. ASSUME NEW v \in get_fat(t, n),
             \/ u = Value(v, n) /\ v.val = 0
             \/ u = v /\ v.val \in {1, DiskError}
             \/ u = Value(v, 0)
             \/ u = More(Value(v, n))
      PROVE  /\ Sane(u, f, q, h) /\ Fat(u) = Fat(t) /\ u.val \in Clusters \cup {0, 1, DiskError}
             /\ Goes(u) => u.val \in Clusters
             /\ ~Goes(u) /\ u.val \in Clusters => Fat(t)[u.val] = 0
  <2>1. Sane(v, f, q, h) /\ Fat(v) = Fat(t) /\ ~Goes(v) /\ v.val \in {DiskError, Fat(t)[n]}
    BY <1>1, GetFatSane
  <2> DEFINE w == Value(v, n)
  <2>2. Sane(w, f, q, h) /\ Fat(w) = Fat(v) /\ w.val = n /\ w.res = v.res
    BY <2>1, SaneMarks
  <2>3. CASE u = w /\ v.val = 0
    BY <1>1, <1>3, <2>1, <2>2, <2>3 DEF Goes
  <2>4. CASE u = v /\ v.val \in {1, DiskError}
    BY <1>3, <2>1, <2>4
  <2>5. CASE u = Value(v, 0)
    <3>1. Sane(u, f, q, h) /\ Fat(u) = Fat(v) /\ u.val = 0 /\ u.res = v.res
      BY <2>1, <2>5, SaneMarks
    <3> QED BY <1>3, <2>1, <3>1 DEF Goes
  <2>6. CASE u = More(w)
    <3> HIDE DEF w
    <3> QED BY <1>1, <2>1, <2>2, <2>6, SaneMarks
  <2> QED BY <1>5, <2>3, <2>4, <2>5, <2>6
<1> QED BY <1>2, <1>4, <1>5

LEMMA FindFreeSane ==
    ASSUME Areas, NEW t, NEW f, NEW q, NEW h, Sane(t, f, q, h), NEW scl \in Clusters \cup {1},
           NEW u \in FindFree(t, scl)
    PROVE  /\ Sane(u, f, q, h) /\ Fat(u) = Fat(t) /\ u.val \in Clusters \cup {0, 1, DiskError}
           /\ u.val \in Clusters => Fat(t)[u.val] = 0
<1> DEFINE w == Value(t, scl)
           z == Fat(t)
<1>1. Kept("search", scl, f, q, h, z, More(w))
  <2>1. Sane(w, f, q, h) /\ Fat(w) = z /\ w.val = scl
    BY SaneMarks
  <2> HIDE DEF w, z
  <2> QED BY <2>1, SaneMarks DEF Kept
<1>2. ASSUME NEW k \in 1 .. fs.n_fatent, NEW v, Kept("search", scl, f, q, h, z, v), Goes(v),
             NEW y \in SearchRound(Result(v, "OK"), scl)
      PROVE  Kept("search", scl, f, q, h, z, y)
  <2> DEFINE x == Result(v, "OK")
  <2> HIDE DEF z
  <2>1. Sane(x, f, q, h) /\ Fat(x) = z /\ Ok(x) /\ x.val \in Clusters \cup {1}
    BY <1>2, SaneMarks DEF Kept, Ok
  <2>2. y \in SearchRound(x, scl)
    OBVIOUS
  <2> HIDE DEF x
  <2> QED BY <2>1, <2>2, SearchRoundSane DEF Kept
<1>3. u \in Searched(w, scl, fs.n_fatent) /\ fs.n_fatent \in Nat
  BY DEF FindFree, Searched, Areas
<1> HIDE DEF w, z
<1>4. Kept("search", scl, f, q, h, z, u) /\ ~Goes(u)
  BY <1>1, <1>2, <1>3, SearchLoop
<1> QED BY <1>4 DEF Kept, z

\* A cluster that is free is marked as the end of a chain, and held.
LEMMA MarksFree ==
    ASSUME Areas, NEW t, NEW f, NEW q, NEW h, Sane(t, f, q, h), NEW n \in Clusters,
           Fat(t)[n] = 0, NEW u \in put_fat(t, n, EndOfChain)
    PROVE  /\ Sane(u, f, q, h) /\ OneChanged(Fat(t), Fat(u), n)
           /\ u.res \in {"OK", "DISK_ERR", "INT_ERR"}
           /\ Ok(u) => Sane(u, f, q, h \cup {n}) /\ (Whole(u) => n \notin h)
<1> DEFINE F == Fat(t)
           G == Fat(u)
<1>1. Proper(t, f, q) /\ Coherent(t)
  BY DEF Sane, Grounded
<1>2. EndOfChain \in Clusters \cup {0, EndOfChain} /\ Entered(EndOfChain) = Mark
  BY DEF Entered
<1>3. /\ Proper(u, f, q) /\ Coherent(u) /\ QuietTables(t, u)
      /\ u.res \in {"OK", "DISK_ERR", "INT_ERR"}
      /\ Ok(u) => OneChanged(F, G, n) /\ G[n] = Mark
      /\ ~Ok(u) => Cut(t, u, n)
  BY <1>1, <1>2, PutFatProper
<1>4. OneChanged(F, G, n)
  BY <1>3 DEF Cut, OneChanged
<1> HIDE DEF F, G
<1>5. ASSUME Whole(u)
      PROVE  Alone(t, h) /\ \E J \in SUBSET Clusters :
                /\ Chained(F, J, u.broken)
                /\ \A e : Owned(t, h, e) => Begins(F, J, e) /\ e # n
                /\ \A e \in Clusters \ J : F[e] # n
  <2>1. PICK J \in SUBSET Clusters :
            /\ Chained(F, J, u.broken)
            /\ \A e : Owned(t, h, e) => Begins(F, J, e)
    BY <1>3, <1>5, SaneUnfolds DEF F
  <2>2. \A e : Owned(t, h, e) => e # n
    BY <2>1 DEF Begins, F
  <2>3. \A b, i : Ends(b, i) => i \notin Clusters
    BY EndIsNoCluster
  <2>4. ASSUME NEW e \in Clusters \ J PROVE F[e] # n
    BY <2>1, <2>3, <2>4, ClustersAre DEF Chained, F
  <2> QED BY <1>3, <1>5, <2>1, <2>2, <2>4, SaneUnfolds
<1>6. Sane(u, f, q, h)
  <2>1. ASSUME Whole(u)
        PROVE  Alone(t, h) /\ \E K \in SUBSET Clusters :
                  Chained(G, K, u.broken) /\ \A e : Owned(t, h, e) => Begins(G, K, e)
    <3>1. PICK J \in SUBSET Clusters :
              /\ Chained(F, J, u.broken)
              /\ \A e : Owned(t, h, e) => Begins(F, J, e) /\ e # n
              /\ \A e \in Clusters \ J : F[e] # n
      BY <1>5, <2>1
    <3>2. /\ Chained(G, J \cup {n}, u.broken)
          /\ \A e : Begins(F, J, e) /\ e # n => Begins(G, J \cup {n}, e)
      BY <1>4, <3>1, LoseKeepsChains
    <3>3. J \cup {n} \in SUBSET Clusters
      OBVIOUS
    <3> QED BY <1>5, <2>1, <3>1, <3>2, <3>3
  <2> QED BY <1>3, <2>1, SaneFolds DEF G
<1>7. ASSUME Ok(u) PROVE Sane(u, f, q, h \cup {n}) /\ (Whole(u) => n \notin h)
  <2>1. ASSUME Whole(u)
        PROVE  /\ n \notin h /\ Alone(t, h \cup {n})
               /\ \E K \in SUBSET Clusters :
                     /\ Chained(G, K, u.broken)
                     /\ \A e : Owned(t, h \cup {n}, e) => Begins(G, K, e)
    <3>1. PICK J \in SUBSET Clusters :
              /\ Chained(F, J, u.broken)
              /\ \A e : Owned(t, h, e) => Begins(F, J, e) /\ e # n
      BY <1>5, <2>1
    <3>2. /\ Chained(G, J \ {n}, u.broken) /\ Begins(G, J \ {n}, n)
          /\ \A e : Begins(F, J, e) => e # n /\ Begins(G, J \ {n}, e)
      BY <1>3, <1>4, <1>7, <3>1, MarkKeepsChains DEF F
    <3>3. \A e : Owned(t, h \cup {n}, e) => e = n \/ Owned(t, h, e)
      BY DEF Owned
    <3>4. ~Owned(t, h, n)
      BY <3>1
    <3>5. Alone(t, h \cup {n})
      BY <1>5, <2>1, <3>4 DEF Alone, Owned
    <3>6. J \ {n} \in SUBSET Clusters
      OBVIOUS
    <3> QED BY <3>1, <3>2, <3>3, <3>4, <3>5, <3>6 DEF Owned
  <2>2. Sane(u, f, q, h \cup {n})
    BY <1>3, <2>1, SaneFolds DEF G
  <2> QED BY <2>1, <2>2
<1> QED BY <1>3, <1>4, <1>6, <1>7 DEF F, G

\* The last cluster of a chain, or one that is lost, is linked to a cluster
\* that is held, which it then has.
LEMMA LinksLast ==
    ASSUME Areas, NEW t, NEW f, NEW q, NEW h, NEW n \in Clusters, Sane(t, f, q, h \cup {n}),
           Whole(t) => n \notin h, NEW c \in Clusters, c # n,
           Fat(t)[c] # 0, Fat(t)[c] \notin Clusters, NEW u \in put_fat(t, c, n)
    PROVE  Sane(u, f, q, h) /\ u.res \in {"OK", "DISK_ERR", "INT_ERR"}
<1> DEFINE F == Fat(t)
           G == Fat(u)
<1>1. Proper(t, f, q) /\ Coherent(t)
  BY DEF Sane, Grounded
<1>2. n \in Clusters \cup {0, EndOfChain}
  OBVIOUS
<1>3. Entered(n) = n
  BY DEF Entered, Mark, Areas, Clusters, EndOfChain
<1>4. /\ Proper(u, f, q) /\ Coherent(u) /\ QuietTables(t, u)
      /\ u.res \in {"OK", "DISK_ERR", "INT_ERR"}
      /\ Ok(u) => OneChanged(F, G, c) /\ G[c] = n
      /\ ~Ok(u) => Cut(t, u, c)
      /\ u.res = "INT_ERR" => c \notin Clusters
      /\ u.res = "DISK_ERR" => u.broken # "no"
  BY <1>1, <1>2, <1>3, PutFatProper
<1>5. G[c] \in Nat
  BY <1>4, FatValues
<1> HIDE DEF F, G
<1>6. ASSUME Whole(u)
      PROVE  Alone(t, h) /\ \E J \in SUBSET Clusters :
                Chained(G, J, u.broken) /\ \A e : Owned(t, h, e) => Begins(G, J, e)
  <2>1. Whole(t)
    BY <1>4, <1>6, TablesStay
  <2>2. Alone(t, h \cup {n})
    BY <1>4, <1>6, SaneUnfolds
  <2>3. PICK J \in SUBSET Clusters :
            /\ Chained(F, J, u.broken)
            /\ \A e : Owned(t, h \cup {n}, e) => Begins(F, J, e)
    BY <1>4, <1>6, SaneUnfolds DEF F
  <2>4. Begins(F, J, n)
    BY <2>3 DEF Owned
  <2>5. c \in J \/ Ends(u.broken, F[c])
    BY <2>3 DEF Chained, F
  <2>6. ASSUME NEW e, Owned(t, h, e) PROVE Begins(F, J, e) /\ e # n
    BY <2>1, <2>2, <2>3, <2>6 DEF Owned, Alone
  <2>7. Alone(t, h)
    BY <2>2 DEF Alone
  <2>8. CASE Ok(u)
    <3>1. Chained(G, J, u.broken) /\ \A e : Begins(F, J, e) /\ e # n => Begins(G, J, e)
      BY <1>4, <2>3, <2>4, <2>5, <2>8, LinkKeepsChains
    <3> QED BY <2>6, <2>7, <3>1
  <2>9. CASE ~Ok(u)
    <3>1. CASE Fat(u) = Fat(t)
      BY <2>3, <2>6, <2>7, <3>1 DEF F, G
    <3>2. CASE Fat(u) # Fat(t)
      <4>1. /\ fs.fs_type = "FAT12" /\ OneChanged(F, G, c)
            /\ HalfEntry <= F[c] => HalfEntry <= G[c]
        BY <1>4, <2>9, <3>2 DEF Cut, F, G
      <4>2. u.broken # "no" /\ fs.n_fatent <= HalfEntry
        BY <1>4, <1>6, <2>9, <4>1 DEF Whole, Ok
      <4>3. c \in J \/ Ends(u.broken, G[c])
        BY <1>5, <2>5, <4>1, <4>2 DEF Ends, HalfEntry, Areas
      <4>4. Chained(G, J, u.broken) /\ \A e : Begins(F, J, e) => Begins(G, J, e)
        BY <2>3, <2>5, <4>1, <4>3, HalfKeepsChains
      <4> QED BY <2>6, <2>7, <4>4
    <3> QED BY <3>1, <3>2
  <2> QED BY <2>8, <2>9
<1>7. Sane(u, f, q, h)
  BY <1>4, <1>6, SaneFolds DEF G
<1> QED BY <1>4, <1>7

\* A free cluster begins a chain, which is held then, or is linked to one.
LEMMA LinkClusterSane ==
    ASSUME Areas, NEW t, NEW f, NEW q, NEW h, Sane(t, f, q, h), NEW ncl \in Clusters,
           Fat(t)[ncl] = 0, NEW clst,
           clst # 0 => clst \in Clusters /\ Fat(t)[clst] # 0 /\ Fat(t)[clst] \notin Clusters,
           NEW u \in LinkCluster(t, clst, ncl)
    PROVE  /\ Sane(u, f, q, h) /\ u.val \in Clusters \cup {1, DiskError}
           /\ clst = 0 /\ u.val \in Clusters => Sane(u, f, q, h \cup {u.val})
<1> DEFINE taken(v) == [Value(v, ncl) EXCEPT !.last_clst = ncl]
           Done(v) == IF Ok(v) THEN OneLessFree(taken(v))
                      ELSE Value(v, IF v.res = "DISK_ERR" THEN DiskError ELSE 1)
<1>1. ASSUME NEW v, NEW j, Sane(v, f, q, j)
      PROVE  /\ Sane(Done(v), f, q, j) /\ Done(v).val \in Clusters \cup {1, DiskError}
             /\ Ok(v) => Done(v).val = ncl
             /\ ~Ok(v) => Done(v).val \notin Clusters
  <2>1. CASE Ok(v)
    <3> DEFINE x == Value(v, ncl)
               w == taken(v)
    <3>1. Sane(x, f, q, j) /\ x.val = ncl /\ DOMAIN x = Fields
      BY <1>1, SaneMarks DEF Sane, Proper
    <3>2. w = [x EXCEPT !.last_clst = ncl]
      OBVIOUS
    <3> HIDE DEF x, w, taken
    <3>3. /\ DOMAIN w = Fields /\ w.disk = x.disk /\ w.win = x.win /\ w.winsect = x.winsect
          /\ w.wflag = x.wflag /\ w.last_clst = ncl /\ w.fsi = x.fsi /\ w.fp = x.fp /\ w.dp = x.dp
          /\ w.val = x.val /\ w.broken = x.broken
      BY <3>1, <3>2 DEF Fields
    <3>4. Proper(w, f, q) /\ Quiet(x, w)
      BY <3>1, <3>3 DEF Sane, Proper, Quiet, NewIn, Shows, Weakens
    <3>5. Sane(w, f, q, j)
      BY <3>1, <3>4, QuietSane
    <3>6. Done(v) = OneLessFree(w)
      BY <2>1 DEF w
    <3> HIDE DEF Done
    <3> QED BY <2>1, <3>1, <3>3, <3>5, <3>6, CountSane
  <2>2. CASE ~Ok(v)
    <3>1. Done(v) = Value(v, DiskError) \/ Done(v) = Value(v, 1)
      BY <2>2
    <3> HIDE DEF Done
    <3> QED BY <1>1, <2>2, <3>1, SaneMarks, ClustersAre
  <2> QED BY <2>1, <2>2
<1>2. PICK v \in put_fat(t, ncl, EndOfChain) :
          \/ ~(Ok(v) /\ clst # 0) /\ u = Done(v)
          \/ Ok(v) /\ clst # 0 /\ \E w \in put_fat(v, clst, ncl) : u = Done(w)
  BY DEF LinkCluster
<1> HIDE DEF Done
<1>3. /\ Sane(v, f, q, h) /\ OneChanged(Fat(t), Fat(v), ncl)
      /\ Ok(v) => Sane(v, f, q, h \cup {ncl}) /\ (Whole(v) => ncl \notin h)
  BY <1>2, MarksFree
<1>4. CASE ~(Ok(v) /\ clst # 0) /\ u = Done(v)
  <2>1. Sane(u, f, q, h) /\ u.val \in Clusters \cup {1, DiskError}
    BY <1>1, <1>3, <1>4
  <2>2. u.val \in Clusters => Ok(v) /\ u.val = ncl
    BY <1>1, <1>3, <1>4
  <2>3. Ok(v) => Sane(u, f, q, h \cup {ncl})
    BY <1>1, <1>3, <1>4
  <2> QED BY <2>1, <2>2, <2>3
<1>5. ASSUME Ok(v), clst # 0, NEW w \in put_fat(v, clst, ncl), u = Done(w)
      PROVE  Sane(u, f, q, h) /\ u.val \in Clusters \cup {1, DiskError}
  <2>1. clst \in Clusters /\ clst # ncl /\ Fat(v)[clst] = Fat(t)[clst]
    BY <1>3, <1>5 DEF OneChanged
  <2>2. Sane(w, f, q, h)
    BY <1>3, <1>5, <2>1, LinksLast
  <2> QED BY <1>1, <1>5, <2>2
<1> QED BY <1>2, <1>4, <1>5

LEMMA FindThenLinkSane ==
    ASSUME Areas, NEW t, NEW f, NEW q, NEW h, Sane(t, f, q, h), NEW clst,
           clst # 0 => clst \in Clusters /\ Fat(t)[clst] # 0 /\ Fat(t)[clst] \notin Clusters,
           NEW scl \in Clusters \cup {1}, NEW u \in FindThenLink(t, clst, scl)
    PROVE  /\ Sane(u, f, q, h) /\ u.val \in Clusters \cup {0, 1, DiskError}
           /\ clst = 0 /\ u.val \in Clusters => Sane(u, f, q, h \cup {u.val})
<1>1. PICK v \in FindFree(t, scl) :
         u \in IF v.val \in Clusters THEN LinkCluster(v, clst, v.val) ELSE {v}
  BY DEF FindThenLink
<1>2. /\ Sane(v, f, q, h) /\ Fat(v) = Fat(t) /\ v.val \in Clusters \cup {0, 1, DiskError}
      /\ v.val \in Clusters => Fat(t)[v.val] = 0
  BY FindFreeSane
<1>3. CASE v.val \in Clusters
  <2>1. u \in LinkCluster(v, clst, v.val)
    BY <1>1, <1>3
  <2> QED BY <1>2, <1>3, <2>1, LinkClusterSane
<1> QED BY <1>1, <1>2, <1>3

LEMMA StretchChainSane ==
    ASSUME Areas, NEW t, NEW f, NEW q, NEW h, Sane(t, f, q, h), NEW clst \in Clusters,
           Fat(t)[clst] # 0, Fat(t)[clst] \notin Clusters, NEW u \in StretchChain(t, clst)
    PROVE  Sane(u, f, q, h) /\ u.val \in Clusters \cup {0, 1, DiskError}
<1> DEFINE ncl == IF clst + 1 >= fs.n_fatent THEN 2 ELSE clst + 1
           scl(v) == IF v.last_clst \in Clusters THEN v.last_clst ELSE clst
<1>1. ncl \in Clusters /\ \A v : scl(v) \in Clusters
  BY DEF Clusters, Areas
<1>2. PICK v \in get_fat(t, ncl) : \/ u = v /\ v.val \in {1, DiskError}
                                   \/ v.val = 0 /\ u \in LinkCluster(v, clst, ncl)
                                   \/ u \in FindThenLink(v, clst, scl(v))
  BY DEF StretchChain
<1> HIDE DEF ncl, scl
<1>3. Sane(v, f, q, h) /\ Fat(v) = Fat(t) /\ v.val \in {DiskError, Fat(t)[ncl]}
  BY <1>1, <1>2, GetFatSane
<1>4. CASE v.val = 0 /\ u \in LinkCluster(v, clst, ncl)
  <2>1. Fat(v)[ncl] = 0
    BY <1>3, <1>4, WrapAssumption DEF DiskError, Unknown
  <2>2. clst # 0 => clst \in Clusters /\ Fat(v)[clst] # 0 /\ Fat(v)[clst] \notin Clusters
    BY <1>3
  <2>3. Sane(u, f, q, h) /\ u.val \in Clusters \cup {1, DiskError}
    BY <1>1, <1>3, <1>4, <2>1, <2>2, LinkClusterSane
  <2> QED BY <2>3
<1>5. CASE u \in FindThenLink(v, clst, scl(v))
  <2>1. scl(v) \in Clusters \cup {1}
    BY <1>1
  <2>2. clst # 0 => clst \in Clusters /\ Fat(v)[clst] # 0 /\ Fat(v)[clst] \notin Clusters
    BY <1>3
  <2> DEFINE s == scl(v)
  <2>3. s \in Clusters \cup {1} /\ u \in FindThenLink(v, clst, s)
    BY <1>5, <2>1
  <2> HIDE DEF s
  <2> QED BY <1>3, <2>2, <2>3, FindThenLinkSane
<1> QED BY <1>2, <1>3, <1>4, <1>5

\* What create_chain returns is a cluster, or one of three refusals.  The
\* first cluster of a chain is held then.
LEMMA CreateChainSane ==
    ASSUME Areas, NEW t, NEW f, NEW q, NEW h, Sane(t, f, q, h), NEW clst,
           NEW u \in create_chain(t, clst)
    PROVE  /\ Sane(u, f, q, h) /\ u.val \in Clusters \cup {0, 1, DiskError}
           /\ clst = 0 /\ u.val \in Clusters => Sane(u, f, q, h \cup {u.val})
<1>1. CASE clst # 0
  <2> DEFINE Stretch(v) == CASE v.val < 2          -> {Value(v, 1)}
                             [] v.val = DiskError  -> {v}
                             [] v.val \in Clusters -> {v}
                             [] OTHER -> IF v.free_clst = 0 THEN {Value(v, 0)}
                                         ELSE StretchChain(v, clst)
  <2> HIDE DEF Stretch
  <2>1. create_chain(t, clst) = UNION {Stretch(v) : v \in get_fat(t, clst)}
    BY <1>1 DEF create_chain, Stretch
  <2>2. PICK v \in get_fat(t, clst) : u \in Stretch(v)
    BY <2>1
  <2>3. \/ u = Value(v, 1)
        \/ u = v /\ v.val = DiskError
        \/ u = v /\ v.val \in Clusters
        \/ u = Value(v, 0)
        \/ /\ ~(v.val < 2) /\ v.val # DiskError /\ v.val \notin Clusters
           /\ u \in StretchChain(v, clst)
    BY <2>2 DEF Stretch
  <2>4. /\ Sane(v, f, q, h) /\ (clst \notin Clusters => v.val = 1)
        /\ Fat(v) = Fat(t) /\ (clst \in Clusters => v.val \in {DiskError, Fat(t)[clst]})
    BY <2>2, GetFatSane
  <2>5. CASE /\ ~(v.val < 2) /\ v.val # DiskError /\ v.val \notin Clusters
             /\ u \in StretchChain(v, clst)
    <3>1. clst \in Clusters /\ Fat(v)[clst] # 0 /\ Fat(v)[clst] \notin Clusters
      BY <2>4, <2>5
    <3> QED BY <1>1, <2>4, <2>5, <3>1, StretchChainSane
  <2> QED BY <1>1, <2>3, <2>4, <2>5, SaneMarks
<1>2. CASE clst = 0
  <2> DEFINE scl == IF t.last_clst \in Clusters THEN t.last_clst ELSE 1
  <2>1. u = Value(t, 0) \/ u \in FindThenLink(t, 0, scl)
    BY <1>2 DEF create_chain, NewChain
  <2>2. scl \in Clusters \cup {1}
    OBVIOUS
  <2>3. CASE u = Value(t, 0)
    BY <2>3, SaneMarks, ClustersAre
  <2> HIDE DEF scl
  <2> QED BY <1>2, <2>1, <2>2, <2>3, FindThenLinkSane
<1> QED BY <1>1, <1>2

-----------------------------------------------------------------------------
(* Directories.                                                            *)

\* A position is a sector of the root, or of a cluster.
LEMMA PositionLies ==
    ASSUME Areas, NEW q, Placed(q), q.sect # 0
    PROVE  TableSector(q.sect)
<1>1. fs.csize \in {1, 2, 4, 8, 16, 32, 64, 128} /\ q.dptr \in Nat
  BY SizesAre DEF Areas, Placed
<1>2. CASE q.clust = 0
  <2>1. /\ fs.dirbase = fs.fatbase + fs.fsize /\ fs.database = fs.dirbase + 32
        /\ q.sect = fs.dirbase + q.dptr \div 512 /\ q.dptr \div 32 < 512
    BY <1>2 DEF Areas, Placed
  <2> DEFINE n == q.dptr \div 512
  <2>2. n \in 0 .. 31
    BY <1>1, <2>1
  <2>3. /\ q.sect = fs.dirbase + n /\ fs.database <= VolumeEnd /\ VolumeEnd \in Nat
        /\ fs.dirbase \in Nat
    BY <2>1, SectorsEnd DEF Areas
  <2> HIDE DEF n
  <2> QED BY <2>1, <2>2, <2>3 DEF TableSector
<1>3. CASE q.clust # 0
  <2>1. q.clust \in Clusters /\ q.sect = clst2sect(q.clust) + ((q.dptr \div 512) % fs.csize)
    BY <1>3 DEF Placed
  <2> DEFINE k == (q.dptr \div 512) % fs.csize
  <2>2. k \in 0 .. fs.csize - 1
    BY <1>1
  <2>3. q.sect = clst2sect(q.clust) + k
    BY <2>1
  <2> HIDE DEF k
  <2>4. DataSector(clst2sect(q.clust) + k)
    BY <2>1, <2>2, ClusterLies
  <2> QED BY <2>3, <2>4, DataFits
<1> QED BY <1>2, <1>3

\* u differs from t in the directory object, and in what Sane does not ask for.
OnlyPosition(t, u) ==
    /\ DOMAIN u = Fields /\ u.broken = t.broken
    /\ u.disk = t.disk /\ u.win = t.win /\ u.winsect = t.winsect /\ u.wflag = t.wflag
    /\ u.last_clst = t.last_clst /\ u.fsi = t.fsi /\ u.fp = t.fp

LEMMA PositionSane ==
    ASSUME Areas, NEW t, NEW f, NEW q, NEW h, Sane(t, f, q, h), NEW u, OnlyPosition(t, u)
    PROVE  Sane(u, f, u.dp, h)
<1>1. Proper(u, f, u.dp)
  BY DEF Sane, Proper, OnlyPosition
<1>2. Quiet(t, u)
  BY DEF OnlyPosition, Quiet, NewIn, Shows, Weakens
<1>3. Grounded(t, f, h)
  BY DEF Sane
<1> HIDE DEF Grounded
<1>4. Grounded(u, f, h)
  BY <1>2, <1>3, QuietGrounded
<1> QED BY <1>1, <1>4 DEF Sane

LEMMA AtWalks ==
    ASSUME Areas, NEW t, NEW f, NEW h, Walks(t, f, h), NEW ofs, NEW sect, NEW clust
    PROVE  LET u == At(t, ofs, sect, clust)
           IN  /\ Sane(u, f, u.dp, h) /\ Ok(u) /\ ~Goes(u)
               /\ DOMAIN u.dp = {"sclust", "dptr", "sect", "clust", "fn"}
               /\ u.dp.dptr = ofs /\ u.dp.sect = sect /\ u.dp.clust = clust
<1> DEFINE r == Result(t, "OK")
           u == At(t, ofs, sect, clust)
           q == t.dp
<1>1. DOMAIN q = {"sclust", "dptr", "sect", "clust", "fn"} /\ Sane(t, f, q, h) /\ DOMAIN t = Fields
  BY DEF Walks, Placed, Sane, Proper
<1>2. Sane(r, f, q, h) /\ r.res = "OK" /\ DOMAIN r = Fields /\ r.dp = q
  BY <1>1, SaneMarks DEF Sane, Proper
<1>3. u = [r EXCEPT !.dp.dptr = ofs, !.dp.sect = sect, !.dp.clust = clust]
  BY DEF At
<1> HIDE DEF r, u
<1>4. OnlyPosition(r, u) /\ u.res = r.res
  BY <1>2, <1>3 DEF OnlyPosition, Fields
<1>5. /\ DOMAIN u.dp = DOMAIN q /\ u.dp.dptr = ofs /\ u.dp.sect = sect /\ u.dp.clust = clust
  <2>1. u.dp = [[[q EXCEPT !.dptr = ofs] EXCEPT !.sect = sect] EXCEPT !.clust = clust]
    BY <1>2, <1>3 DEF Fields
  <2> QED BY <1>1, <2>1
<1>6. Sane(u, f, u.dp, h)
  BY <1>2, <1>4, PositionSane
<1> QED BY <1>1, <1>2, <1>4, <1>5, <1>6 DEF Ok, Goes, u

LEMMA NoMoreWalks ==
    ASSUME Areas, NEW t, NEW f, NEW h, Walks(t, f, h)
    PROVE  Walks(NoMore(t), f, h) /\ ~Ok(NoMore(t)) /\ ~Goes(NoMore(t))
<1> DEFINE r == Result(t, "NO_FILE")
           u == NoMore(t)
           q == t.dp
<1>1. DOMAIN q = {"sclust", "dptr", "sect", "clust", "fn"} /\ Sane(t, f, q, h)
  BY DEF Walks, Placed
<1>2. Sane(r, f, q, h) /\ r.res = "NO_FILE" /\ DOMAIN r = Fields /\ r.dp = q
  BY <1>1, SaneMarks DEF Sane, Proper
<1>3. u = [r EXCEPT !.dp.sect = 0]
  BY DEF NoMore
<1> HIDE DEF r, u
<1>4. OnlyPosition(r, u) /\ u.res = r.res
  BY <1>2, <1>3 DEF OnlyPosition, Fields
<1>5. DOMAIN u.dp = DOMAIN q /\ u.dp.sect = 0
  <2>1. u.dp = [q EXCEPT !.sect = 0]
    BY <1>2, <1>3 DEF Fields
  <2> QED BY <1>1, <2>1
<1>6. Sane(u, f, u.dp, h)
  BY <1>2, <1>4, PositionSane
<1> QED BY <1>1, <1>2, <1>4, <1>5, <1>6 DEF Ok, Goes, u, Walks, Placed

LEMMA WalksMarks ==
    ASSUME Areas, NEW t, NEW f, NEW h, Walks(t, f, h), NEW r
    PROVE  /\ Walks(Result(t, r), f, h) /\ Walks(More(t), f, h)
           /\ Result(t, r).dp = t.dp /\ More(t).dp = t.dp
           /\ Result(t, r).res = r /\ Goes(More(t)) /\ ~Ok(More(t))
           /\ Result(t, r).winsect = t.winsect /\ More(t).winsect = t.winsect
<1>1. Sane(t, f, t.dp, h)
  BY DEF Walks
<1> QED BY <1>1, SaneMarks DEF Walks

\* What does not move the position.
LEMMA SaneWalks ==
    ASSUME NEW t, NEW f, NEW h, Walks(t, f, h), NEW u, Sane(u, f, t.dp, h)
    PROVE  Walks(u, f, h) /\ u.dp = t.dp
BY DEF Walks, Sane, Proper

LEMMA ClearedSane ==
    ASSUME Areas, NEW sect \in Nat, \A k \in 0 .. fs.csize - 1 : DataSector(sect + k),
           NEW t, NEW f, NEW q, NEW h, Sane(t, f, q, h), t.winsect = sect,
           NEW u \in Cleared(t, sect, fs.csize)
    PROVE  Sane(u, f, q, h) /\ ~Goes(u) /\ u.winsect = sect
<1>1. fs.csize \in Nat
  BY SizesAre DEF Areas
<1>2. Kept("clear", sect, f, q, h, 0, More(t))
  BY SaneMarks DEF Kept
<1>3. ASSUME NEW k \in 1 .. fs.csize, NEW y, Kept("clear", sect, f, q, h, 0, y),
             NEW v \in ClearRound(Result(y, "OK"), k, sect)
      PROVE  Kept("clear", sect, f, q, h, 0, v)
  <2> DEFINE r == Result(y, "OK")
             c == <<ZeroSector>>
             s == sect + k - 1
  <2>1. Sane(r, f, q, h) /\ r.winsect = sect
    <3>1. Sane(y, f, q, h) /\ y.winsect = sect
      BY <1>3 DEF Kept
    <3> QED BY <3>1, SaneMarks
  <2>2. PICK o \in disk_write(r, s, c) : v = o \/ v = More(o)
    BY <1>3 DEF ClearRound
  <2>3. DataSector(s)
    <3>1. k - 1 \in 0 .. fs.csize - 1 /\ sect + (k - 1) = s
      BY <1>1
    <3> QED BY <3>1
  <2> HIDE DEF r, s
  <2>4. s \in fs.fatbase .. VolumeEnd - 1
    BY <2>3, DataFits
  <2>5. s \in Nat /\ 63 < s /\ fs.fatbase <= s /\ s < VolumeEnd
    BY <2>4 DEF Areas
  <2>6. Len(c) = 1 /\ c[1] = ZeroSector /\ \A i \in 1 .. Len(c) : i = 1 /\ s + i - 1 = s
    BY <2>5
  <2>7. Holds(s, ZeroSector)
    BY <2>5, ZeroFits
  <2> HIDE DEF c
  <2>8. NewIn(r, s, ZeroSector)
    BY <2>3 DEF NewIn, ZeroSector, DataSector, FatSector, Areas
  <2>9. /\ Len(c) \in Nat
        /\ \A i \in 1 .. Len(c) : Holds(s + i - 1, c[i]) /\ NewIn(r, s + i - 1, c[i])
    BY <2>6, <2>7, <2>8
  <2>10. Proper(o, f, q) /\ Quiet(r, o) /\ SameWindow(r, o)
    <3>1. Proper(r, f, q)
      BY <2>1 DEF Sane
    <3> QED BY <2>2, <2>5, <2>9, <3>1, DiskWriteProper
  <2>11. Sane(o, f, q, h) /\ o.winsect = sect
    BY <2>1, <2>10, QuietSane DEF SameWindow
  <2> QED BY <2>2, <2>11, SaneMarks DEF Kept
<1>4. Kept("clear", sect, f, q, h, 0, u) /\ ~Goes(u)
  BY <1>1, <1>2, <1>3, ClearLoop
<1> QED BY <1>4 DEF Kept

LEMMA DirClearSane ==
    ASSUME Areas, NEW t, NEW f, NEW q, NEW h, Sane(t, f, q, h), NEW clst \in Clusters,
           NEW u \in dir_clear(t, clst)
    PROVE  /\ Sane(u, f, q, h) /\ ~Goes(u)
           /\ Ok(u) => u.winsect = clst2sect(clst)
<1> DEFINE sect == clst2sect(clst)
           w(v) == [v EXCEPT !.winsect = sect, !.win = ZeroSector]
<1>1. PICK v \in sync_window(t) :
          \/ u = v /\ ~Ok(v)
          \/ Ok(v) /\ u \in Cleared(w(v), sect, fs.csize)
  BY DEF dir_clear, Cleared
<1>2. Sane(v, f, q, h) /\ Answers(t, v) /\ (Ok(v) => ~v.wflag)
  BY <1>1, SyncWindowSane
<1>3. v.res \in {"OK", "DISK_ERR"} /\ DOMAIN v = Fields
  BY <1>2 DEF Answers, Sane, Proper
<1>4. CASE u = v /\ ~Ok(v)
  BY <1>2, <1>3, <1>4 DEF Goes
<1>5. CASE Ok(v) /\ u \in Cleared(w(v), sect, fs.csize)
  <2> DEFINE x == w(v)
  <2>1. 0 \in 0 .. fs.csize - 1
    BY SizesAre DEF Areas
  <2>2. sect \in Nat /\ DataSector(sect) /\ \A k \in 0 .. fs.csize - 1 : DataSector(sect + k)
    BY <2>1, ClusterLies
  <2>3. u \in Cleared(x, sect, fs.csize)
    BY <1>5
  <2> HIDE DEF sect
  <2>4. Holds(sect, ZeroSector)
    <3>1. sect \in fs.fatbase .. VolumeEnd - 1
      BY <2>2, DataFits
    <3> QED BY <3>1, ZeroFits DEF Areas
  <2>5. /\ DOMAIN x = Fields /\ x.disk = v.disk /\ x.win = ZeroSector /\ x.winsect = sect
        /\ x.last_clst = v.last_clst /\ x.fsi = v.fsi /\ x.fp = v.fp /\ x.dp = v.dp
        /\ x.broken = v.broken
    BY <1>3 DEF Fields
  <2>6. x.wflag = v.wflag
    BY <1>3 DEF Fields
  <2> HIDE DEF x
  <2>7. Sane(x, f, q, h)
    <3>1. Proper(x, f, q)
      BY <1>2, <1>5, <2>4, <2>5, <2>6 DEF Sane, Proper
    <3>2. ASSUME NEW s, NEW y, Shows(x, s, y) PROVE NewIn(v, s, y)
      <4>1. (s = sect /\ y = ZeroSector) \/ Shows(v, s, y)
        BY <1>2, <1>5, <2>5, <2>6, <3>2 DEF Shows
      <4>2. ~FatSector(sect) /\ ZeroSector[1] # "dir"
        BY <2>2 DEF ZeroSector, DataSector, FatSector, Areas
      <4> QED BY <4>1, <4>2 DEF NewIn
    <3>3. Quiet(v, x)
      BY <2>5, <3>2 DEF Quiet, Weakens
    <3> QED BY <1>2, <3>1, <3>3, QuietSane
  <2>8. Sane(u, f, q, h) /\ ~Goes(u) /\ u.winsect = sect
    BY <2>2, <2>3, <2>5, <2>7, ClearedSane
  <2> QED BY <2>8 DEF sect
<1> QED BY <1>1, <1>4, <1>5

LEMMA RewindWalks ==
    ASSUME Areas, NEW t, NEW f, NEW h, Walks(t, f, h)
    PROVE  /\ Walks(dir_rewind(t), f, h) /\ ~Goes(dir_rewind(t))
           /\ Ok(dir_rewind(t)) => dir_rewind(t).dp.sect # 0
<1> DEFINE sclust == IF t.dp.sclust = 0 /\ fs.fs_type = "FAT32" THEN fs.dirbase ELSE t.dp.sclust
           sect == IF sclust = 0 THEN fs.dirbase ELSE clst2sect(sclust)
           u == dir_rewind(t)
<1>1. u = IF sect = 0 THEN Result(t, "INT_ERR") ELSE At(t, 0, sect, sclust)
  BY DEF dir_rewind
<1>2. sclust = 0 => fs.fs_type # "FAT32"
  BY DEF Areas
<1>3. sclust # 0 /\ sect # 0 => sclust \in Clusters
  BY NoClusterNoSector
<1>4. sclust # 0 => sect = clst2sect(sclust)
  OBVIOUS
<1>5. sclust = 0 => sect = fs.dirbase /\ fs.dirbase \in Nat
  BY DEF Areas
<1> HIDE DEF sclust, sect, u
<1>6. CASE sect = 0
  <2>1. u = Result(t, "INT_ERR")
    BY <1>1, <1>6
  <2>2. u.res = "INT_ERR"
    BY <2>1, WalksMarks
  <2> QED BY <2>1, <2>2, WalksMarks DEF Ok, Goes, u
<1>7. CASE sect # 0
  <2>1. u = At(t, 0, sect, sclust)
    BY <1>1, <1>7
  <2>2. /\ Sane(u, f, u.dp, h) /\ ~Goes(u)
        /\ DOMAIN u.dp = {"sclust", "dptr", "sect", "clust", "fn"}
        /\ u.dp.dptr = 0 /\ u.dp.sect = sect /\ u.dp.clust = sclust
    BY <2>1, AtWalks
  <2>3. 0 \in Nat /\ 0 % 32 = 0 /\ 0 \div 32 = 0 /\ 0 \div 512 = 0 /\ 0 % fs.csize = 0
    BY SizesAre DEF Areas
  <2>4. fs.dirbase + 0 = fs.dirbase \/ sclust # 0
    BY <1>5
  <2>5. sclust # 0 => clst2sect(sclust) + 0 = clst2sect(sclust)
    <3>1. 0 \in 0 .. fs.csize - 1
      BY SizesAre DEF Areas
    <3> QED BY <1>3, <1>7, <3>1, ClusterLies
  <2>6. Placed(u.dp)
    <3> DEFINE q == u.dp
    <3>1. q.dptr \in Nat /\ q.dptr % 32 = 0 /\ q.dptr \div 32 < 512 /\ q.dptr \div 512 = 0
          /\ (q.dptr \div 512) % fs.csize = 0
      BY <2>2, <2>3
    <3>2. q.sect = fs.dirbase + q.dptr \div 512 \/ q.clust # 0
      BY <2>2, <2>4, <3>1, <1>5
    <3>3. q.clust # 0 => /\ q.clust \in Clusters
                         /\ q.sect = clst2sect(q.clust) + ((q.dptr \div 512) % fs.csize)
      BY <2>2, <2>5, <3>1, <1>3, <1>4, <1>7
    <3>4. q.clust = 0 => fs.fs_type # "FAT32"
      BY <1>2, <2>2
    <3>5. DOMAIN q = {"sclust", "dptr", "sect", "clust", "fn"}
      BY <2>2
    <3> HIDE DEF q
    <3>6. Placed(q)
      BY <3>1, <3>2, <3>3, <3>4, <3>5 DEF Placed
    <3> QED BY <3>6 DEF q
  <2> QED BY <1>7, <2>2, <2>6 DEF Walks, u
<1> QED BY <1>6, <1>7

\* The first sector of a cluster.
LEMMA AtClusterWalks ==
    ASSUME Areas, NEW t, NEW f, NEW h, Walks(t, f, h), NEW ofs \in Nat, ofs % 32 = 0,
           (ofs \div 512) % fs.csize = 0, NEW clust \in Clusters
    PROVE  LET u == At(t, ofs, clst2sect(clust), clust)
           IN  Walks(u, f, h) /\ Ok(u) /\ ~Goes(u) /\ u.dp.sect # 0 /\ u.dp.sect = clst2sect(clust)
                  /\ u.winsect = t.winsect
<1> DEFINE sect == clst2sect(clust)
           u == At(t, ofs, sect, clust)
<1>1. 0 \in 0 .. fs.csize - 1
  BY SizesAre DEF Areas
<1>2. sect \in Nat /\ sect # 0 /\ clust # 0
  BY <1>1, ClusterLies, ClustersAre
<1>3. u.winsect = t.winsect
  BY DEF At, Result, Walks, Sane, Proper, Fields
<1>4. /\ Sane(u, f, u.dp, h) /\ Ok(u) /\ ~Goes(u)
      /\ DOMAIN u.dp = {"sclust", "dptr", "sect", "clust", "fn"}
      /\ u.dp.dptr = ofs /\ u.dp.sect = sect /\ u.dp.clust = clust
  BY AtWalks
<1> DEFINE q == u.dp
<1>5. Placed(q)
  <2>1. sect = clst2sect(clust) + 0
    BY <1>2
  <2> HIDE DEF u
  <2>2. /\ DOMAIN q = {"sclust", "dptr", "sect", "clust", "fn"}
        /\ q.dptr = ofs /\ q.sect = clst2sect(clust) + 0 /\ q.clust = clust
    BY <1>4, <2>1
  <2> HIDE DEF q
  <2>3. (q.dptr \div 512) % fs.csize = 0
    BY <2>2
  <2> QED BY <1>2, <2>2, <2>3 DEF Placed
<1> QED BY <1>2, <1>3, <1>4, <1>5 DEF Walks

LEMMA StretchTableWalks ==
    ASSUME Areas, NEW t, NEW f, NEW h, Walks(t, f, h), NEW ofs \in Nat, ofs % 32 = 0,
           (ofs \div 512) % fs.csize = 0, NEW u \in StretchTable(t, ofs)
    PROVE  Walks(u, f, h) /\ ~Goes(u) /\ (Ok(u) => u.dp.sect # 0)
<1>1. PICK c \in create_chain(t, t.dp.clust) :
          \/ \E r \in {"DENIED", "INT_ERR", "DISK_ERR"} : u = Result(c, r)
          \/ /\ c.val \notin {0, 1, DiskError}
             /\ \E v \in dir_clear(c, c.val) :
                   u = IF Ok(v) THEN At(v, ofs, clst2sect(c.val), c.val) ELSE v
  BY DEF StretchTable
<1>2. Sane(c, f, t.dp, h) /\ c.val \in Clusters \cup {0, 1, DiskError}
  <2>1. Sane(t, f, t.dp, h)
    BY DEF Walks
  <2> DEFINE clst == t.dp.clust
  <2>2. c \in create_chain(t, clst)
    OBVIOUS
  <2> HIDE DEF clst
  <2> QED BY <2>1, <2>2, CreateChainSane
<1>3. Walks(c, f, h)
  BY <1>2, SaneWalks
<1>4. ASSUME NEW r \in {"DENIED", "INT_ERR", "DISK_ERR"}, u = Result(c, r)
      PROVE  Walks(u, f, h) /\ ~Goes(u) /\ (Ok(u) => u.dp.sect # 0)
  BY <1>3, <1>4, WalksMarks DEF Goes, Ok
<1>5. ASSUME c.val \notin {0, 1, DiskError}, NEW v \in dir_clear(c, c.val),
             u = IF Ok(v) THEN At(v, ofs, clst2sect(c.val), c.val) ELSE v
      PROVE  Walks(u, f, h) /\ ~Goes(u) /\ (Ok(u) => u.dp.sect # 0)
  <2>1. c.val \in Clusters
    BY <1>2, <1>5
  <2>2. Sane(v, f, t.dp, h) /\ ~Goes(v)
    BY <1>2, <2>1, DirClearSane
  <2>3. Walks(v, f, h)
    BY <2>2, SaneWalks
  <2> QED BY <1>5, <2>1, <2>2, <2>3, AtClusterWalks
<1> QED BY <1>1, <1>4, <1>5

LEMMA NextClusterWalks ==
    ASSUME Areas, NEW t, NEW f, NEW h, Walks(t, f, h), NEW ofs \in Nat, ofs % 32 = 0,
           (ofs \div 512) % fs.csize = 0, NEW stretch, NEW u \in NextCluster(t, ofs, stretch)
    PROVE  Walks(u, f, h) /\ ~Goes(u) /\ (Ok(u) => u.dp.sect # 0)
<1>1. PICK c \in get_fat(t, t.dp.clust) :
          \/ \E r \in {"INT_ERR", "DISK_ERR"} : u = Result(c, r)
          \/ c.val \in Clusters /\ u = At(c, ofs, clst2sect(c.val), c.val)
          \/ u \in StretchTable(c, ofs)
          \/ u = NoMore(c)
  BY DEF NextCluster
<1>2. Sane(c, f, t.dp, h)
  BY GetFatSane DEF Walks
<1>3. Walks(c, f, h)
  BY <1>2, SaneWalks
<1>4. ASSUME NEW r \in {"INT_ERR", "DISK_ERR"}, u = Result(c, r)
      PROVE  Walks(u, f, h) /\ ~Goes(u) /\ (Ok(u) => u.dp.sect # 0)
  BY <1>3, <1>4, WalksMarks DEF Goes, Ok
<1>5. CASE c.val \in Clusters /\ u = At(c, ofs, clst2sect(c.val), c.val)
  BY <1>3, <1>5, AtClusterWalks
<1>6. CASE u \in StretchTable(c, ofs)
  BY <1>3, <1>6, StretchTableWalks
<1>7. CASE u = NoMore(c)
  BY <1>3, <1>7, NoMoreWalks
<1> QED BY <1>1, <1>4, <1>5, <1>6, <1>7

\* A position moves on within its table, or is lost.
LEMMA DirNextWalks ==
    ASSUME Areas, NEW t, NEW f, NEW h, Walks(t, f, h), NEW stretch, NEW u \in dir_next(t, stretch)
    PROVE  Walks(u, f, h) /\ ~Goes(u) /\ (Ok(u) => u.dp.sect # 0)
<1> DEFINE ofs == t.dp.dptr + drive.dire
           q == t.dp
<1>1. drive.dire = 32 /\ ss = 512 /\ fs.csize \in {1, 2, 4, 8, 16, 32, 64, 128}
  BY SectorsEnd, SizesAre DEF Areas, IsReal
<1>2. \/ u = NoMore(t)
      \/ /\ q.sect # 0
         /\ \/ ofs % ss # 0 /\ u = At(t, ofs, q.sect, q.clust)
            \/ /\ ofs % ss = 0
               /\ \/ u = NoMore(t)
                  \/ (ofs \div ss) % fs.csize = 0 /\ u \in NextCluster(t, ofs, stretch)
                  \/ /\ ~(q.clust = 0 /\ ofs \div drive.dire >= fs.n_rootdir)
                     /\ ~(q.clust # 0 /\ (ofs \div ss) % fs.csize = 0)
                     /\ u = At(t, ofs, q.sect + 1, q.clust)
  BY DEF dir_next, NextSector
<1>3. CASE u = NoMore(t)
  BY <1>3, NoMoreWalks
<1>4. ASSUME q.sect # 0
      PROVE  /\ q.dptr \in Nat /\ q.dptr % 32 = 0 /\ ofs = q.dptr + 32 /\ ofs \in Nat
             /\ ofs % 32 = 0 /\ q.sect \in Nat
             /\ q.clust = 0 \/ q.clust \in Clusters
             /\ q.clust = 0 => /\ fs.fs_type # "FAT32" /\ q.dptr \div 32 < 512
                               /\ fs.n_rootdir = 512
                               /\ q.sect = fs.dirbase + q.dptr \div 512
             /\ q.clust # 0 => q.sect = clst2sect(q.clust) + ((q.dptr \div 512) % fs.csize)
  <2>1. Placed(q)
    BY DEF Walks
  <2>2. TableSector(q.sect)
    BY <1>4, <2>1, PositionLies
  <2>3. q.dptr \in Nat /\ q.dptr % 32 = 0
    BY <1>4, <2>1 DEF Placed
  <2>4. ofs = q.dptr + 32
    BY <1>1
  <2> HIDE DEF ofs
  <2>5. ofs \in Nat /\ ofs % 32 = 0
    BY <2>3, <2>4
  <2> HIDE DEF q
  <2> QED BY <1>4, <2>1, <2>2, <2>3, <2>4, <2>5 DEF Placed, TableSector, Areas
<1> HIDE DEF ofs
<1>5. ASSUME q.sect # 0, NEW s, s # 0, u = At(t, ofs, s, q.clust),
             q.clust = 0 => ofs \div 32 < 512 /\ s = fs.dirbase + ofs \div 512,
             q.clust # 0 => s = clst2sect(q.clust) + ((ofs \div 512) % fs.csize)
      PROVE  Walks(u, f, h) /\ ~Goes(u) /\ (Ok(u) => u.dp.sect # 0)
  <2> DEFINE r == u.dp
  <2>1. /\ Sane(u, f, r, h) /\ Ok(u) /\ ~Goes(u)
        /\ DOMAIN r = {"sclust", "dptr", "sect", "clust", "fn"}
        /\ r.dptr = ofs /\ r.sect = s /\ r.clust = q.clust
    BY <1>5, AtWalks
  <2> HIDE DEF r
  <2>2. Placed(r)
    BY <1>4, <1>5, <2>1 DEF Placed
  <2> QED BY <1>5, <2>1, <2>2 DEF Walks, r
<1>6. CASE q.sect # 0 /\ ofs % ss # 0 /\ u = At(t, ofs, q.sect, q.clust)
  <2> DEFINE d == q.dptr
  <2>1. d \in Nat /\ d % 32 = 0 /\ ofs = d + 32 /\ ofs % 512 # 0
    BY <1>1, <1>4, <1>6
  <2> HIDE DEF d
  <2>2. ofs \div 512 = d \div 512 /\ (d \div 32 < 512 => ofs \div 32 < 512)
    BY <2>1
  <2>3. ofs \div 512 = q.dptr \div 512 /\ (q.dptr \div 32 < 512 => ofs \div 32 < 512)
    BY <2>2 DEF d
  <2> QED BY <1>4, <1>5, <1>6, <2>3
<1>7. CASE q.sect # 0 /\ ofs % ss = 0 /\ (ofs \div ss) % fs.csize = 0
           /\ u \in NextCluster(t, ofs, stretch)
  <2>1. ofs \in Nat /\ ofs % 32 = 0 /\ (ofs \div 512) % fs.csize = 0
    BY <1>1, <1>4, <1>7
  <2> QED BY <1>7, <2>1, NextClusterWalks
<1>8. CASE /\ q.sect # 0 /\ ofs % ss = 0
           /\ ~(q.clust = 0 /\ ofs \div drive.dire >= fs.n_rootdir)
           /\ ~(q.clust # 0 /\ (ofs \div ss) % fs.csize = 0)
           /\ u = At(t, ofs, q.sect + 1, q.clust)
  <2> DEFINE d == q.dptr
             n == d \div 512
             c == fs.csize
  <2>1. d \in Nat /\ ofs = d + 32 /\ ofs % 512 = 0 /\ d % 32 = 0
    BY <1>1, <1>4, <1>8
  <2>2. n = d \div 512 /\ c \in {1, 2, 4, 8, 16, 32, 64, 128}
    BY <1>1
  <2> HIDE DEF d, n, c
  <2>3. n \in Nat /\ ofs \div 512 = n + 1
    BY <2>1, <2>2
  <2>4. (n + 1) % c # 0 => (n + 1) % c = (n % c) + 1
    BY <2>2, <2>3
  <2>5. q.sect + 1 # 0
    BY <1>4, <1>8
  <2>6. CASE q.clust = 0
    <3>1. q.sect = fs.dirbase + n /\ fs.n_rootdir = 512 /\ fs.dirbase \in Nat
      BY <1>4, <1>8, <2>6 DEF n, d, Areas
    <3>2. ofs \div 32 < 512
      BY <1>1, <1>8, <2>1, <2>6, <3>1
    <3>3. q.sect + 1 = fs.dirbase + ofs \div 512
      BY <2>3, <3>1
    <3> QED BY <1>5, <1>8, <2>5, <2>6, <3>2, <3>3
  <2>7. CASE q.clust # 0
    <3>1. q.sect = clst2sect(q.clust) + (n % c) /\ q.clust \in Clusters
      BY <1>4, <1>8, <2>7 DEF n, d, c
    <3>2. (n + 1) % c = (n % c) + 1
      BY <1>1, <1>8, <2>3, <2>4, <2>7 DEF c
    <3>3. clst2sect(q.clust) \in Nat
      <4>1. 0 \in 0 .. fs.csize - 1
        BY <1>1
      <4> QED BY <3>1, <4>1, ClusterLies
    <3>4. n % c \in Nat
      BY <2>2, <2>3
    <3>5. q.sect + 1 = clst2sect(q.clust) + ((ofs \div 512) % c)
      BY <2>3, <3>1, <3>2, <3>3, <3>4
    <3> QED BY <1>5, <1>8, <2>5, <2>7, <3>5 DEF c
  <2> QED BY <2>6, <2>7
<1> QED BY <1>2, <1>3, <1>6, <1>7, <1>8

\* The window on a table, as its entries.
LEMMA EntriesFit ==
    ASSUME Areas, NEW t, NEW f, NEW q, NEW h, Sane(t, f, q, h), TableSector(t.winsect)
    PROVE  /\ Tabular(Entries(t.win))
           /\ \A i \in 0 .. Slots - 1 :
                 LET e == Entries(t.win)[i]
                 IN  /\ IsNamed(e) /\ e.clust # 0 => Claims(t, t.winsect, i, e.clust)
                     /\ t.winsect = f.dir_sect /\ i = f.dir_slot => ~e.dir
<1> DEFINE E == Entries(t.win)
<1>1. Shows(t, t.winsect, t.win) /\ TablesFit(t) /\ FileFits(t, f)
  BY DEF Shows, Sane, Grounded
<1>2. CASE t.win[1] = "dir"
  <2>1. E = t.win[2]
    BY <1>2 DEF Entries
  <2>2. Tabular(E)
    BY <1>1, <1>2, <2>1 DEF TablesFit
  <2> HIDE DEF E
  <2>3. ASSUME NEW i \in 0 .. Slots - 1
        PROVE  /\ IsNamed(E[i]) /\ E[i].clust # 0 => Claims(t, t.winsect, i, E[i].clust)
               /\ t.winsect = f.dir_sect /\ i = f.dir_slot => ~E[i].dir
    <3>1. i \in DOMAIN t.win[2]
      BY <2>1, <2>2 DEF Tabular
    <3> QED BY <1>1, <1>2, <2>1, <3>1 DEF Claims, FileFits
  <2> QED BY <2>2, <2>3 DEF E
<1>3. CASE t.win[1] # "dir"
  <2>1. /\ DOMAIN E = 0 .. Slots - 1
        /\ \A i \in 0 .. Slots - 1 : E[i] = NoEntry \/ E[i] = [NoEntry EXCEPT !.name = t.win]
    BY <1>3 DEF Entries
  <2> HIDE DEF E
  <2>2. \A i \in 0 .. Slots - 1 : /\ DOMAIN E[i] = DOMAIN NoEntry
                                  /\ E[i].clust = 0 /\ E[i].dir = FALSE
    BY <2>1 DEF NoEntry
  <2>3. Tabular(E)
    BY <2>1, <2>2 DEF Tabular
  <2> QED BY <2>2, <2>3 DEF E
<1> QED BY <1>2, <1>3

\* New entries in a window on a table: the one that claims a cluster that was
\* held takes it over.
Tabled(t, x) == [t EXCEPT !.win = <<"dir", x>>, !.wflag = TRUE]
TakesOver(t, x, slot, h, k) ==
    \A i \in 0 .. Slots - 1 : IsNamed(x[i]) /\ x[i].clust # 0 =>
        \/ Claims(t, t.winsect, i, x[i].clust)
        \/ i = slot /\ x[i].clust \in h \ k

LEMMA TableSane ==
    ASSUME Areas, NEW t, NEW f, NEW q, NEW h, Sane(t, f, q, h), TableSector(t.winsect),
           NEW x, Tabular(x), NEW k, k \subseteq h, NEW slot,
           TakesOver(t, x, slot, h, k),
           t.winsect = f.dir_sect /\ f.dir_slot \in 0 .. Slots - 1 => ~x[f.dir_slot].dir,
           NEW u, u = Tabled(t, x)
    PROVE  /\ Sane(u, f, q, k) /\ u.winsect = t.winsect /\ u.res = t.res /\ u.dp = t.dp
           /\ \A y : Shows(u, t.winsect, y) <=> y = <<"dir", x>>
<1> DEFINE s == t.winsect
<1>1. Proper(t, f, q) /\ Grounded(t, f, h) /\ DOMAIN t = Fields
  BY DEF Sane, Proper
<1>2. /\ DOMAIN u = Fields /\ u.win = <<"dir", x>> /\ u.disk = t.disk /\ u.winsect = s
      /\ u.last_clst = t.last_clst /\ u.fsi = t.fsi /\ u.fp = t.fp /\ u.dp = t.dp
      /\ u.res = t.res /\ u.broken = t.broken
  BY <1>1 DEF Fields, Tabled
<1>3. u.wflag = TRUE
  BY <1>1 DEF Fields, Tabled
<1>4. Holds(s, <<"dir", x>>) /\ s \in fs.fatbase .. VolumeEnd - 1
  BY TableFits
<1>5. Proper(u, f, q)
  BY <1>1, <1>2, <1>3, <1>4 DEF Proper
<1>6. \A r, y : Shows(u, r, y) => IF r = s THEN y = <<"dir", x>> ELSE Shows(t, r, y)
  BY <1>2, <1>3 DEF Shows
<1>7. \A y : Shows(u, s, y) <=> y = <<"dir", x>>
  BY <1>2, <1>3 DEF Shows
<1>8. Coherent(u) /\ Fat(u) = Fat(t)
  <2>1. ~FatSector(s)
    BY DEF FatSector, TableSector, Areas
  <2>2. \A r, y : Shows(u, r, y) /\ FatSector(r) => Shows(t, r, y)
    BY <1>6, <2>1
  <2> QED BY <1>1, <2>2, FatStays DEF Grounded
<1>9. ASSUME NEW r, NEW i, NEW c, Claims(u, r, i, c)
      PROVE  Claims(t, r, i, c) \/ (r = s /\ i = slot /\ c \in h \ k)
  <2>1. PICK y : /\ Shows(u, r, y) /\ y[1] = "dir" /\ i \in DOMAIN y[2]
                 /\ IsNamed(y[2][i]) /\ y[2][i].clust = c
    BY <1>9 DEF Claims
  <2>2. TableSector(r) /\ c # 0
    BY <1>9 DEF Claims
  <2>3. CASE r = s
    <3>1. y = <<"dir", x>>
      BY <1>6, <2>1, <2>3
    <3>2. y[2] = x /\ i \in 0 .. Slots - 1
      BY <2>1, <3>1 DEF Tabular
    <3> QED BY <2>1, <2>2, <2>3, <3>2 DEF TakesOver
  <2>4. CASE r # s
    <3>1. Shows(t, r, y)
      BY <1>6, <2>1, <2>4
    <3> QED BY <2>1, <2>2, <3>1 DEF Claims
  <2> QED BY <2>3, <2>4
<1>10. TablesFit(u)
  <2>1. ASSUME NEW r, NEW y, TableSector(r), Shows(u, r, y), y[1] = "dir" PROVE Tabular(y[2])
    <3>1. CASE r = s
      <4>1. y[2] = x
        BY <1>6, <2>1, <3>1
      <4> QED BY <4>1
    <3>2. CASE r # s
      BY <1>1, <1>6, <2>1, <3>2 DEF Grounded, TablesFit
    <3> QED BY <3>1, <3>2
  <2> QED BY <2>1 DEF TablesFit
<1>11. FileFits(u, f)
  <2>1. ASSUME NEW y, Shows(u, f.dir_sect, y), y[1] = "dir", f.dir_slot \in DOMAIN y[2],
               TableSector(f.dir_sect)
        PROVE  ~y[2][f.dir_slot].dir
    <3>1. CASE f.dir_sect = s
      <4>1. y[2] = x
        BY <1>6, <2>1, <3>1
      <4> QED BY <2>1, <3>1, <4>1 DEF Tabular
    <3>2. CASE f.dir_sect # s
      BY <1>1, <1>6, <2>1, <3>2 DEF Grounded, FileFits
    <3> QED BY <3>1, <3>2
  <2> QED BY <2>1 DEF FileFits
<1>12. ASSUME Whole(u) PROVE Alone(u, k) /\ Linked(u, k)
  <2>1. Alone(t, h) /\ Linked(t, h)
    BY <1>1, <1>2, <1>12 DEF Grounded, Whole
  <2>2. Alone(u, k)
    <3>1. k \cap Rooted = {}
      BY <2>1 DEF Alone
    <3>2. ASSUME NEW r, NEW i, NEW c, Claims(u, r, i, c) PROVE c \notin k /\ c \notin Rooted
      BY <1>9, <2>1, <3>2 DEF Alone
    <3>3. ASSUME NEW r, NEW i, NEW p, NEW j, NEW c, Claims(u, r, i, c), Claims(u, p, j, c)
          PROVE  r = p /\ i = j
      BY <1>9, <2>1, <3>3 DEF Alone
    <3> QED BY <3>1, <3>2, <3>3 DEF Alone
  <2>3. ASSUME NEW c, Owned(u, k, c) PROVE Owned(t, h, c)
    BY <1>9, <2>3 DEF Owned
  <2>4. PICK J \in SUBSET Clusters :
            /\ Chained(Fat(t), J, t.broken)
            /\ \A c : Owned(t, h, c) => Begins(Fat(t), J, c)
    BY <2>1 DEF Linked
  <2>5. Chained(Fat(u), J, u.broken) /\ \A c : Owned(u, k, c) => Begins(Fat(u), J, c)
    BY <1>2, <1>8, <2>3, <2>4
  <2> QED BY <2>2, <2>5 DEF Linked
<1> QED BY <1>2, <1>5, <1>7, <1>8, <1>10, <1>11, <1>12 DEF Sane, Grounded

\* An entry goes into a window on a table.
LEMMA SetSlotSane ==
    ASSUME Areas, NEW t, NEW f, NEW q, NEW h, Sane(t, f, q, h), TableSector(t.winsect),
           NEW slot \in 0 .. Slots - 1, NEW e, DOMAIN e = DOMAIN NoEntry,
           IsNamed(e) /\ e.dir => e.clust # 0,
           IsNamed(e) /\ e.clust # 0 => e.clust \in h,
           t.winsect = f.dir_sect /\ slot = f.dir_slot => ~e.dir,
           NEW u, u = SetSlot(t, slot, e)
    PROVE  /\ Sane(u, f, q, h \ {e.clust}) /\ u.winsect = t.winsect /\ u.res = t.res
           /\ u.dp = t.dp
           /\ ~e.dir => \A g : g.dir_sect = t.winsect /\ g.dir_slot = slot => FileFits(u, g)
<1> DEFINE E == Entries(t.win)
           x == [E EXCEPT ![slot] = e]
           k == h \ {e.clust}
<1>1. u = Tabled(t, x)
  BY DEF SetSlot, Tabled
<1>2. /\ Tabular(E)
      /\ \A i \in 0 .. Slots - 1 :
            /\ IsNamed(E[i]) /\ E[i].clust # 0 => Claims(t, t.winsect, i, E[i].clust)
            /\ t.winsect = f.dir_sect /\ i = f.dir_slot => ~E[i].dir
  BY EntriesFit
<1> HIDE DEF E
<1>3. /\ DOMAIN x = 0 .. Slots - 1 /\ x[slot] = e
      /\ \A i \in 0 .. Slots - 1 : i # slot => x[i] = E[i]
  BY <1>2 DEF Tabular
<1> HIDE DEF x, k
<1>4. Tabular(x)
  BY <1>2, <1>3 DEF Tabular
<1>5. k \subseteq h
  BY DEF k
<1>6. TakesOver(t, x, slot, h, k)
  BY <1>2, <1>3 DEF k, TakesOver
<1>7. t.winsect = f.dir_sect /\ f.dir_slot \in 0 .. Slots - 1 => ~x[f.dir_slot].dir
  BY <1>2, <1>3
<1>8. /\ Sane(u, f, q, k) /\ u.winsect = t.winsect /\ u.res = t.res /\ u.dp = t.dp
      /\ \A y : Shows(u, t.winsect, y) <=> y = <<"dir", x>>
  BY <1>1, <1>4, <1>5, <1>6, <1>7, TableSane
<1>9. ~e.dir => \A g : g.dir_sect = t.winsect /\ g.dir_slot = slot => FileFits(u, g)
  BY <1>3, <1>8 DEF FileFits
<1> QED BY <1>8, <1>9 DEF k

\* The window goes where the position is.
LEMMA WindowThere ==
    ASSUME Areas, NEW t, NEW f, NEW h, Walks(t, f, h), t.dp.sect # 0,
           NEW u \in move_window(t, t.dp.sect)
    PROVE  Walks(u, f, h) /\ Stands(u, f, h) /\ ~Goes(u) /\ u.dp = t.dp
<1> DEFINE s == t.dp.sect
<1>1. TableSector(s)
  BY PositionLies DEF Walks
<1>2. s \in Nat /\ fs.fatbase <= s /\ s < VolumeEnd
  BY <1>1 DEF TableSector, Areas
<1>3. Sane(t, f, t.dp, h)
  BY DEF Walks
<1>4. u \in move_window(t, s) /\ s # 0
  OBVIOUS
<1> HIDE DEF s
<1>5. Sane(u, f, t.dp, h) /\ Answers(t, u) /\ (Ok(u) => u.winsect = s)
  BY <1>2, <1>3, <1>4, MoveWindowSane
<1>6. Walks(u, f, h) /\ u.dp = t.dp
  BY <1>5, SaneWalks
<1>7. ~Goes(u)
  BY <1>5 DEF Answers, Goes
<1> QED BY <1>4, <1>5, <1>6, <1>7 DEF Stands, s

LEMMA FindRoundStands ==
    ASSUME Areas, NEW t, NEW f, NEW h, Walks(t, f, h), t.dp.sect # 0,
           NEW k, NEW u \in FindRound(t, k)
    PROVE  Stands(u, f, h)
<1>1. PICK v \in move_window(t, t.dp.sect) :
          \/ u = v
          \/ u = Result(v, "NO_FILE")
          \/ \E w \in dir_next(v, FALSE) : u = IF Ok(w) THEN More(w) ELSE w
  BY DEF FindRound, FindNext
<1>2. Walks(v, f, h) /\ Stands(v, f, h)
  BY WindowThere
<1>3. CASE u = Result(v, "NO_FILE")
  <2>1. Walks(u, f, h) /\ u.res = "NO_FILE"
    BY <1>2, <1>3, WalksMarks
  <2> QED BY <2>1 DEF Stands, Ok, Goes
<1>4. ASSUME NEW w \in dir_next(v, FALSE), u = IF Ok(w) THEN More(w) ELSE w
      PROVE  Stands(u, f, h)
  <2>1. Walks(w, f, h) /\ ~Goes(w) /\ (Ok(w) => w.dp.sect # 0)
    BY <1>2, DirNextWalks
  <2>2. CASE Ok(w)
    <3>1. u = More(w)
      BY <1>4, <2>2
    <3>2. Walks(u, f, h) /\ u.dp = w.dp /\ ~Ok(u)
      BY <2>1, <3>1, WalksMarks
    <3> QED BY <2>1, <2>2, <3>2 DEF Stands
  <2>3. CASE ~Ok(w)
    BY <1>4, <2>1, <2>3 DEF Stands
  <2> QED BY <2>2, <2>3
<1> QED BY <1>1, <1>2, <1>3, <1>4

LEMMA AllocRoundStands ==
    ASSUME Areas, NEW t, NEW f, NEW h, Walks(t, f, h), t.dp.sect # 0,
           NEW k, NEW u \in AllocRound(t, k)
    PROVE  Stands(u, f, h)
<1> DEFINE Then(w) == CASE Ok(w)             -> More(w)
                        [] w.res = "NO_FILE" -> Result(w, "DENIED")
                        [] OTHER             -> w
<1>1. PICK v \in move_window(t, t.dp.sect) : u = v \/ \E w \in dir_next(v, TRUE) : u = Then(w)
  BY DEF AllocRound, AllocNext
<1>2. \/ u = v
      \/ \E w \in dir_next(v, TRUE) :
                \/ Ok(w) /\ u = More(w)
                \/ u = Result(w, "DENIED")
                \/ ~Ok(w) /\ u = w
  BY <1>1
<1>3. Walks(v, f, h) /\ Stands(v, f, h)
  BY WindowThere
<1>4. ASSUME NEW w \in dir_next(v, TRUE),
             \/ Ok(w) /\ u = More(w)
             \/ u = Result(w, "DENIED")
             \/ ~Ok(w) /\ u = w
      PROVE  Stands(u, f, h)
  <2>1. Walks(w, f, h) /\ ~Goes(w) /\ (Ok(w) => w.dp.sect # 0)
    BY <1>3, DirNextWalks
  <2>2. CASE Ok(w) /\ u = More(w)
    <3>1. Walks(u, f, h) /\ u.dp = w.dp /\ ~Ok(u)
      BY <2>1, <2>2, WalksMarks
    <3> QED BY <2>1, <2>2, <3>1 DEF Stands
  <2>3. CASE u = Result(w, "DENIED")
    <3>1. Walks(u, f, h) /\ u.res = "DENIED"
      BY <2>1, <2>3, WalksMarks
    <3> QED BY <3>1 DEF Stands, Ok, Goes
  <2>4. CASE ~Ok(w) /\ u = w
    BY <2>1, <2>4 DEF Stands
  <2> QED BY <1>4, <2>2, <2>3, <2>4
<1> QED BY <1>2, <1>3, <1>4

\* What a round begins with.
LEMMA RoundBegins ==
    ASSUME Areas, NEW t, NEW f, NEW h, Stands(t, f, h), Goes(t)
    PROVE  Walks(Result(t, "OK"), f, h) /\ Result(t, "OK").dp.sect # 0
BY WalksMarks DEF Stands

LEMMA LoopBegins ==
    ASSUME Areas, NEW t, NEW f, NEW h, Walks(t, f, h), t.dp.sect # 0
    PROVE  Stands(More(t), f, h)
BY WalksMarks DEF Stands

LEMMA RefusalStands ==
    ASSUME NEW t, NEW f, NEW h, Walks(t, f, h), ~Ok(t), ~Goes(t)
    PROVE  Stands(t, f, h)
BY DEF Stands

LEMMA MostEntriesIs == ASSUME Areas PROVE MostEntries \in Nat
<1> DEFINE a == fs.n_rootdir
           n == fs.n_fatent - 2
           c == fs.csize
<1>1. a \in Nat /\ n \in Nat /\ c \in Nat /\ Slots = 16
  BY SectorsEnd, SizesAre DEF Areas
<1>2. MostEntries = a + n * c * Slots + 1
  BY DEF MostEntries
<1> HIDE DEF a, n, c
<1> QED BY <1>1, <1>2

LEMMA DirFindStands ==
    ASSUME Areas, NEW t, NEW f, NEW h, Walks(t, f, h), NEW u \in dir_find(t)
    PROVE  Stands(u, f, h) /\ ~Goes(u)
<1> DEFINE w == dir_rewind(t)
<1>1. Walks(w, f, h) /\ ~Goes(w) /\ (Ok(w) => w.dp.sect # 0)
  BY RewindWalks
<1>2. \/ ~Ok(w) /\ u = w
      \/ Ok(w) /\ u \in Loop(FindRound, w, MostEntries)
  BY DEF dir_find
<1> HIDE DEF w
<1>3. Ok(w) => Kept("find", 0, f, 0, h, 0, More(w))
  BY <1>1, LoopBegins DEF Kept
<1>4. ASSUME NEW k \in 1 .. MostEntries, NEW v, Kept("find", 0, f, 0, h, 0, v), Goes(v),
             NEW y \in FindRound(Result(v, "OK"), k)
      PROVE  Kept("find", 0, f, 0, h, 0, y)
  <2> DEFINE x == Result(v, "OK")
  <2>1. Walks(x, f, h) /\ x.dp.sect # 0 /\ y \in FindRound(x, k)
    BY <1>4, RoundBegins DEF Kept
  <2> HIDE DEF x
  <2> QED BY <2>1, FindRoundStands DEF Kept
<1>5. Ok(w) => Kept("find", 0, f, 0, h, 0, u) /\ ~Goes(u)
  BY <1>2, <1>3, <1>4, FindLoop, MostEntriesIs
<1> QED BY <1>1, <1>2, <1>5, RefusalStands DEF Kept

LEMMA DirAllocStands ==
    ASSUME Areas, NEW t, NEW f, NEW h, Walks(t, f, h), NEW u \in dir_alloc(t)
    PROVE  Stands(u, f, h) /\ ~Goes(u)
<1> DEFINE w == dir_rewind(t)
<1>1. Walks(w, f, h) /\ ~Goes(w) /\ (Ok(w) => w.dp.sect # 0)
  BY RewindWalks
<1>2. \/ ~Ok(w) /\ u = w
      \/ Ok(w) /\ u \in Loop(AllocRound, w, MostEntries)
  BY DEF dir_alloc
<1> HIDE DEF w
<1>3. Ok(w) => Kept("alloc", 0, f, 0, h, 0, More(w))
  BY <1>1, LoopBegins DEF Kept
<1>4. ASSUME NEW k \in 1 .. MostEntries, NEW v, Kept("alloc", 0, f, 0, h, 0, v), Goes(v),
             NEW y \in AllocRound(Result(v, "OK"), k)
      PROVE  Kept("alloc", 0, f, 0, h, 0, y)
  <2> DEFINE x == Result(v, "OK")
  <2>1. Walks(x, f, h) /\ x.dp.sect # 0 /\ y \in AllocRound(x, k)
    BY <1>4, RoundBegins DEF Kept
  <2> HIDE DEF x
  <2> QED BY <2>1, AllocRoundStands DEF Kept
<1>5. Ok(w) => Kept("alloc", 0, f, 0, h, 0, u) /\ ~Goes(u)
  BY <1>2, <1>3, <1>4, AllocLoop, MostEntriesIs
<1> QED BY <1>1, <1>2, <1>5, RefusalStands DEF Kept

LEMMA StandsLies ==
    ASSUME Areas, NEW t, NEW f, NEW h, Stands(t, f, h), Ok(t)
    PROVE  TableSector(t.winsect) /\ Sane(t, f, t.dp, h) /\ SlotOf(t) \in 0 .. Slots - 1
<1>1. Placed(t.dp) /\ t.dp.sect # 0 /\ t.winsect = t.dp.sect /\ Sane(t, f, t.dp, h)
  BY DEF Stands, Walks
<1> DEFINE d == t.dp.dptr
<1>2. d \in Nat /\ ss = 512 /\ Slots = 16 /\ drive.dire = 32
  BY <1>1, SectorsEnd DEF Placed, Areas, IsReal
<1>3. SlotOf(t) = (d % 512) \div 32
  BY <1>2 DEF SlotOf
<1> HIDE DEF d
<1>4. SlotOf(t) \in 0 .. Slots - 1
  BY <1>2, <1>3
<1> QED BY <1>1, <1>4, PositionLies

\* The entry of a name goes where dir_alloc found room.
LEMMA SetSlotStands ==
    ASSUME Areas, NEW t, NEW f, NEW h, Stands(t, f, h), Ok(t), NEW e,
           DOMAIN e = DOMAIN NoEntry, IsNamed(e) /\ e.dir => e.clust # 0,
           IsNamed(e) /\ e.clust # 0 => e.clust \in h,
           e.dir => ~TableSector(f.dir_sect),
           NEW u, u = SetSlot(t, SlotOf(t), e)
    PROVE  /\ Stands(u, f, h \ {e.clust}) /\ Ok(u) /\ SlotOf(u) \in 0 .. Slots - 1
           /\ ~e.dir => \A g : g.dir_sect = u.winsect /\ g.dir_slot = SlotOf(u) => FileFits(u, g)
<1> DEFINE slot == SlotOf(t)
           k == h \ {e.clust}
<1>1. TableSector(t.winsect) /\ Sane(t, f, t.dp, h) /\ slot \in 0 .. Slots - 1
  BY StandsLies
<1>2. t.winsect = f.dir_sect /\ slot = f.dir_slot => ~e.dir
  BY <1>1
<1>3. u = SetSlot(t, slot, e)
  OBVIOUS
<1> HIDE DEF slot, k
<1>4. /\ Sane(u, f, t.dp, k) /\ u.winsect = t.winsect /\ u.res = t.res /\ u.dp = t.dp
      /\ ~e.dir => \A g : g.dir_sect = t.winsect /\ g.dir_slot = slot => FileFits(u, g)
  BY <1>1, <1>2, <1>3, SetSlotSane DEF k
<1>5. Walks(u, f, k)
  BY <1>4 DEF Walks, Stands
<1>6. SlotOf(u) = slot
  BY <1>4 DEF SlotOf, slot
<1>7. Stands(u, f, k) /\ Ok(u)
  BY <1>4, <1>5 DEF Stands, Ok, Goes
<1> QED BY <1>1, <1>4, <1>6, <1>7 DEF k

LEMMA DirRegisterStands ==
    ASSUME Areas, NEW t, NEW f, NEW h, Walks(t, f, h), 0 \notin h, NEW u \in dir_register(t)
    PROVE  /\ Stands(u, f, h)
           /\ Ok(u) => /\ SlotOf(u) \in 0 .. Slots - 1
                       /\ \A g : g.dir_sect = u.winsect /\ g.dir_slot = SlotOf(u)
                                 => FileFits(u, g)
<1> DEFINE e == [NoEntry EXCEPT !.name = t.dp.fn]
<1>1. PICK v \in dir_alloc(t) : \/ ~Ok(v) /\ u = v
                                \/ Ok(v) /\ u = SetSlot(v, SlotOf(v), e)
  BY DEF dir_register
<1>2. Stands(v, f, h)
  BY DirAllocStands
<1>3. DOMAIN e = DOMAIN NoEntry /\ e.dir = FALSE /\ e.clust = 0
  BY DEF NoEntry
<1> HIDE DEF e
<1>4. CASE Ok(v) /\ u = SetSlot(v, SlotOf(v), e)
  <2>1. h \ {e.clust} = h
    BY <1>3
  <2>2. /\ Stands(u, f, h \ {e.clust}) /\ SlotOf(u) \in 0 .. Slots - 1
        /\ ~e.dir => \A g : g.dir_sect = u.winsect /\ g.dir_slot = SlotOf(u) => FileFits(u, g)
    BY <1>2, <1>3, <1>4, SetSlotStands
  <2> QED BY <1>3, <2>1, <2>2
<1> QED BY <1>1, <1>2, <1>4

-----------------------------------------------------------------------------
(* Paths.                                                                  *)

\* Into the table dp names next: the position stays for now.
LEMMA EntersWalks ==
    ASSUME Areas, NEW t, NEW f, NEW h, Walks(t, f, h), NEW sclust, NEW rest,
           NEW u, u = [t EXCEPT !.dp.sclust = sclust, !.path = rest]
    PROVE  Walks(u, f, h)
<1> DEFINE q == t.dp
<1>1. Sane(t, f, q, h) /\ DOMAIN t = Fields /\ Placed(q)
  BY DEF Walks, Sane, Proper
<1>2. OnlyPosition(t, u) /\ u.dp = [q EXCEPT !.sclust = sclust]
  BY <1>1 DEF OnlyPosition, Fields
<1> HIDE DEF q
<1>3. Sane(u, f, u.dp, h)
  BY <1>1, <1>2, PositionSane
<1>4. DOMAIN u.dp = DOMAIN q /\ u.dp.dptr = q.dptr /\ u.dp.sect = q.sect /\ u.dp.clust = q.clust
  BY <1>1, <1>2 DEF Placed
<1>5. Placed(u.dp)
  BY <1>1, <1>4 DEF Placed
<1> QED BY <1>3, <1>5 DEF Walks, q

LEMMA NamedWalks ==
    ASSUME Areas, NEW t, NEW f, NEW h, Walks(t, f, h), NEW name,
           NEW u, u = [t EXCEPT !.dp.fn = name]
    PROVE  Walks(u, f, h) /\ u.res = t.res
<1> DEFINE q == t.dp
<1>1. Sane(t, f, q, h) /\ DOMAIN t = Fields /\ Placed(q)
  BY DEF Walks, Sane, Proper
<1>2. OnlyPosition(t, u) /\ u.dp = [q EXCEPT !.fn = name] /\ u.res = t.res
  BY <1>1 DEF OnlyPosition, Fields
<1> HIDE DEF q
<1>3. Sane(u, f, u.dp, h)
  BY <1>1, <1>2, PositionSane
<1>4. DOMAIN u.dp = DOMAIN q /\ u.dp.dptr = q.dptr /\ u.dp.sect = q.sect /\ u.dp.clust = q.clust
  BY <1>1, <1>2 DEF Placed
<1>5. Placed(u.dp)
  BY <1>1, <1>4 DEF Placed
<1> QED BY <1>2, <1>3, <1>5 DEF Walks, q

LEMMA FollowRoundWalks ==
    ASSUME Areas, NEW t, NEW f, NEW h, Walks(t, f, h), NEW k, NEW u \in FollowRound(t, k)
    PROVE  Walks(u, f, h)
<1> DEFINE name == create_name(t.path)
           w == [t EXCEPT !.dp.fn = name.fn]
           Into(v) == [v EXCEPT !.dp.sclust = Slot(v).clust, !.path = name.rest]
<1>1. \/ u = Result(t, "INVALID_NAME")
      \/ \E v \in dir_find(w) : u = Result(v, "NO_PATH") \/ u = v \/ u = More(Into(v))
  BY DEF FollowRound
<1>2. Walks(w, f, h)
  BY NamedWalks
<1> HIDE DEF w
<1>3. ASSUME NEW v \in dir_find(w), u = Result(v, "NO_PATH") \/ u = v \/ u = More(Into(v))
      PROVE  Walks(u, f, h)
  <2>1. Walks(v, f, h)
    BY <1>2, DirFindStands DEF Stands
  <2> DEFINE i == Into(v)
             c == Slot(v).clust
             p == name.rest
  <2>2. i = [v EXCEPT !.dp.sclust = c, !.path = p]
    OBVIOUS
  <2> HIDE DEF i, c, p, name
  <2>3. Walks(i, f, h)
    BY <2>1, <2>2, EntersWalks
  <2>4. u = Result(v, "NO_PATH") \/ u = v \/ u = More(i)
    BY <1>3 DEF i
  <2> HIDE DEF Into
  <2>5. Walks(Result(v, "NO_PATH"), f, h)
    BY <2>1, WalksMarks
  <2>6. Walks(More(i), f, h)
    BY <2>3, WalksMarks
  <2> QED BY <2>1, <2>4, <2>5, <2>6
<1>4. Walks(Result(t, "INVALID_NAME"), f, h)
  BY WalksMarks
<1> QED BY <1>1, <1>3, <1>4

LEMMA FollowPathWalks ==
    ASSUME Areas, NEW t, NEW f, NEW h, Walks(t, f, h), NEW path, Len(path) \in Nat,
           NEW u \in follow_path(t, path)
    PROVE  Walks(u, f, h)
<1> DEFINE name == SubSeq(path, FirstName(path), Len(path))
           root == [t EXCEPT !.dp.sclust = 0, !.path = name]
<1>1. u = Origin(root) \/ u \in Loop(FollowRound, root, Len(path))
  BY DEF follow_path
<1>2. Walks(root, f, h)
  BY EntersWalks
<1> HIDE DEF root
<1>3. Walks(Origin(root), f, h)
  <2> DEFINE r == dir_rewind(root)
  <2>1. Walks(r, f, h)
    BY <1>2, RewindWalks
  <2>2. Origin(root) = [r EXCEPT !.dp.fn = <<>>]
    BY DEF Origin
  <2> DEFINE o == Origin(root)
  <2>3. o = [r EXCEPT !.dp.fn = <<>>]
    BY <2>2
  <2> HIDE DEF r, o
  <2>4. Walks(o, f, h)
    BY <2>1, <2>3, NamedWalks
  <2> QED BY <2>4 DEF o
<1>4. ASSUME NEW k \in 1 .. Len(path), NEW v, Kept("follow", 0, f, 0, h, 0, v),
             NEW y \in FollowRound(Result(v, "OK"), k)
      PROVE  Kept("follow", 0, f, 0, h, 0, y)
  <2> DEFINE x == Result(v, "OK")
  <2>1. Walks(x, f, h) /\ y \in FollowRound(x, k)
    BY <1>4, WalksMarks DEF Kept
  <2> HIDE DEF x
  <2> QED BY <2>1, FollowRoundWalks DEF Kept
<1>5. Kept("follow", 0, f, 0, h, 0, More(root))
  BY <1>2, WalksMarks DEF Kept
<1>6. \A v \in Loop(FollowRound, root, Len(path)) : Kept("follow", 0, f, 0, h, 0, v)
  <2> DEFINE n == Len(path)
  <2>1. n \in Nat
    OBVIOUS
  <2>2. \A k \in 1 .. n : \A v : Kept("follow", 0, f, 0, h, 0, v) /\ Goes(v) =>
            \A y \in FollowRound(Result(v, "OK"), k) : Kept("follow", 0, f, 0, h, 0, y)
    BY <1>4
  <2> HIDE DEF n
  <2>3. \A v \in Loop(FollowRound, root, n) : Kept("follow", 0, f, 0, h, 0, v)
    BY <1>5, <2>1, <2>2, FollowLoop
  <2> QED BY <2>3 DEF n
<1> QED BY <1>1, <1>3, <1>6 DEF Kept

LEMMA LocatedWalks ==
    ASSUME Areas, NEW t, NEW f, NEW h, Walks(t, f, h),
           NEW S, NEW path \in Seq(S), NEW u \in Located(t, path)
    PROVE  Walks(u, f, h)
<1>1. u = Result(t, "INVALID_DRIVE") \/ \E p \in get_ldnumber(path) : u \in follow_path(t, p)
  BY DEF Located
<1>2. ASSUME NEW p \in get_ldnumber(path) PROVE Len(p) \in Nat
  <2>1. p = path \/ p = SubSeq(path, 3, Len(path))
    BY DEF get_ldnumber
  <2>2. Len(path) \in Nat
    OBVIOUS
  <2>3. p = SubSeq(path, 3, Len(path)) => p \in Seq(S)
    OBVIOUS
  <2> QED BY <2>1, <2>2, <2>3
<1>3. ASSUME NEW p \in get_ldnumber(path), u \in follow_path(t, p) PROVE Walks(u, f, h)
  <2>1. Len(p) \in Nat
    BY <1>2
  <2> QED BY <1>3, <2>1, FollowPathWalks
<1> QED BY <1>1, <1>3, WalksMarks

-----------------------------------------------------------------------------
(* f_mkdir and f_open.                                                     *)

LEMMA DirEntryIs ==
    ASSUME NEW name, NEW clust
    PROVE  /\ DOMAIN DirEntry(name, clust) = DOMAIN NoEntry /\ DirEntry(name, clust).name = name
           /\ DirEntry(name, clust).clust = clust /\ DirEntry(name, clust).dir = TRUE
BY DEF DirEntry, NoEntry

\* A new table names nothing yet.
LEMMA NewTableSane ==
    ASSUME Areas, NEW t, NEW f, NEW q, NEW h, Sane(t, f, q, h), ~TableSector(f.dir_sect),
           NEW dcl \in Clusters, NEW u \in NewTable(t, dcl)
    PROVE  Sane(u, f, q, h)
<1> DEFINE x == [i \in 0 .. Slots - 1 |->
                    CASE i = 0 -> DirEntry(DotName, dcl)
                      [] i = 1 -> DirEntry(DotDotName, t.dp.sclust)
                      [] OTHER -> NoEntry]
<1>1. PICK v \in dir_clear(t, dcl) : \/ ~Ok(v) /\ u = v
                                     \/ Ok(v) /\ u = Tabled(v, x)
  BY DEF NewTable, Tabled
<1>2. Sane(v, f, q, h) /\ (Ok(v) => v.winsect = clst2sect(dcl))
  BY DirClearSane
<1>3. CASE Ok(v) /\ u = Tabled(v, x)
  <2>1. TableSector(v.winsect)
    <3>1. 0 \in 0 .. fs.csize - 1
      BY SizesAre DEF Areas
    <3>2. DataSector(clst2sect(dcl))
      BY <3>1, ClusterLies
    <3> QED BY <1>2, <1>3, <3>2, DataFits
  <2>2. /\ DOMAIN x = 0 .. Slots - 1
        /\ \A i \in 0 .. Slots - 1 : \/ x[i] = DirEntry(DotName, dcl)
                                     \/ x[i] = DirEntry(DotDotName, t.dp.sclust)
                                     \/ x[i] = NoEntry
    OBVIOUS
  <2> HIDE DEF x
  <2>3. NoEntry.name = <<>>
    BY DEF NoEntry
  <2>4. ASSUME NEW i \in 0 .. Slots - 1
        PROVE  DOMAIN x[i] = DOMAIN NoEntry /\ ~IsNamed(x[i])
    <3> DEFINE e == x[i]
               d == DirEntry(DotName, dcl)
               dd == DirEntry(DotDotName, t.dp.sclust)
    <3>1. e = d \/ e = dd \/ e = NoEntry
      BY <2>2
    <3>2. DOMAIN d = DOMAIN NoEntry /\ d.name = DotName
      BY DirEntryIs
    <3>3. DOMAIN dd = DOMAIN NoEntry /\ dd.name = DotDotName
      BY DirEntryIs
    <3> HIDE DEF e, d, dd
    <3>4. DOMAIN e = DOMAIN NoEntry /\ (e.name = DotName \/ e.name = DotDotName \/ e.name = <<>>)
      BY <2>3, <3>1, <3>2, <3>3
    <3>5. ~IsNamed(e)
      BY <3>4 DEF IsNamed
    <3> QED BY <3>4, <3>5 DEF e
  <2>5. Tabular(x) /\ TakesOver(v, x, 0, h, h)
    BY <2>2, <2>4 DEF Tabular, TakesOver
  <2>6. v.winsect # f.dir_sect
    BY <2>1
  <2> QED BY <1>2, <1>3, <2>1, <2>5, <2>6, TableSane
<1> QED BY <1>1, <1>2, <1>3

\* The cluster is given back.
LEMMA FreesClusterWalks ==
    ASSUME Areas, NEW t, NEW f, NEW dcl, Walks(t, f, {dcl}), NEW u \in FreesCluster(t, dcl)
    PROVE  Walks(u, f, {})
<1>1. PICK v \in remove_chain(t, dcl) : u = Result(v, t.res)
  BY DEF FreesCluster
<1>2. Sane(t, f, t.dp, {dcl}) /\ Placed(t.dp)
  BY DEF Walks
<1>3. Sane(v, f, t.dp, {})
  BY <1>1, <1>2, RemoveChainSane
<1>4. Walks(v, f, {})
  BY <1>2, <1>3 DEF Walks, Sane, Proper
<1> QED BY <1>1, <1>4, WalksMarks

\* The new directory's entry takes its cluster over, or the cluster is given
\* back.
LEMMA RegisterWalks ==
    ASSUME Areas, NEW t, NEW f, NEW dcl \in Clusters, Walks(t, f, {dcl}),
           ~TableSector(f.dir_sect), NEW u \in Register(t, dcl)
    PROVE  Walks(u, f, {})
<1> DEFINE e == DirEntry(t.dp.fn, dcl)
           h == {dcl}
<1>1. PICK v \in dir_register(t) : \/ Ok(v) /\ u \in sync_fs(SetSlot(v, SlotOf(v), e))
                                   \/ u \in FreesCluster(v, dcl)
  BY DEF Register
<1>2. 0 \notin h /\ dcl # 0
  BY ClustersAre
<1>3. Stands(v, f, h) /\ Walks(v, f, h)
  <2>1. Walks(t, f, h)
    OBVIOUS
  <2> HIDE DEF h
  <2> QED BY <1>1, <1>2, <2>1, DirRegisterStands DEF Stands
<1>4. CASE Ok(v) /\ u \in sync_fs(SetSlot(v, SlotOf(v), e))
  <2> DEFINE w == SetSlot(v, SlotOf(v), e)
  <2> DEFINE name == t.dp.fn
  <2>1. e = DirEntry(name, dcl)
    OBVIOUS
  <2> HIDE DEF e, name
  <2>2. DOMAIN e = DOMAIN NoEntry /\ e.clust = dcl
    BY <2>1, DirEntryIs
  <2>3. DOMAIN e = DOMAIN NoEntry /\ e.clust = dcl /\ e.clust # 0 /\ e.clust \in h
    BY <1>2, <2>2
  <2>4. h \ {e.clust} = {}
    BY <2>3
  <2> HIDE DEF h
  <2>5. w = SetSlot(v, SlotOf(v), e) /\ u \in sync_fs(w)
    BY <1>4
  <2> HIDE DEF w
  <2>6. Stands(w, f, h \ {e.clust})
    BY <1>3, <1>4, <2>3, <2>5, SetSlotStands
  <2>7. Walks(w, f, {}) /\ Sane(w, f, w.dp, {})
    BY <2>4, <2>6 DEF Stands, Walks
  <2>8. Sane(u, f, w.dp, {})
    BY <2>5, <2>7, SyncFsSane
  <2> QED BY <2>7, <2>8, SaneWalks
<1>5. CASE u \in FreesCluster(v, dcl)
  BY <1>3, <1>5, FreesClusterWalks
<1> QED BY <1>1, <1>4, <1>5

LEMMA MakeDirectoryWalks ==
    ASSUME Areas, NEW t, NEW f, Walks(t, f, {}), ~TableSector(f.dir_sect),
           NEW u \in MakeDirectory(t)
    PROVE  Walks(u, f, {})
<1> DEFINE Fill(c) == UNION {IF Ok(v) THEN Register(v, c.val) ELSE FreesCluster(v, c.val) :
                                v \in NewTable(Result(c, "OK"), c.val)}
<1>1. PICK c \in create_chain(t, 0) :
          \/ \E r : u = Result(c, r)
          \/ c.val \notin {0, 1, DiskError} /\ u \in Fill(c)
  BY DEF MakeDirectory
<1>2. Sane(t, f, t.dp, {})
  BY DEF Walks
<1>3. /\ Sane(c, f, t.dp, {}) /\ c.val \in Clusters \cup {0, 1, DiskError}
      /\ c.val \in Clusters => Sane(c, f, t.dp, {} \cup {c.val})
  BY <1>1, <1>2, CreateChainSane
<1>4. Walks(c, f, {})
  BY <1>3, SaneWalks
<1>5. CASE c.val \notin {0, 1, DiskError} /\ u \in Fill(c)
  <2> DEFINE w == Result(c, "OK")
             h == {c.val}
  <2>1. PICK v \in NewTable(w, c.val) : u \in Register(v, c.val) \/ u \in FreesCluster(v, c.val)
    BY <1>5
  <2>2. c.val \in Clusters /\ h = {} \cup {c.val}
    BY <1>3, <1>5
  <2> HIDE DEF w, h
  <2>3. Sane(w, f, t.dp, h)
    BY <1>3, <2>2, SaneMarks DEF w
  <2>4. Sane(v, f, t.dp, h)
    BY <2>1, <2>2, <2>3, NewTableSane
  <2>5. Placed(t.dp) /\ v.dp = t.dp
    BY <2>4 DEF Walks, Sane, Proper
  <2>6. Walks(v, f, {c.val})
    BY <2>4, <2>5 DEF Walks, h
  <2> QED BY <2>1, <2>2, <2>6, RegisterWalks, FreesClusterWalks
<1> QED BY <1>1, <1>4, <1>5, WalksMarks

LEMMA MkdirWalks ==
    ASSUME Areas, NEW t, NEW f, Walks(t, f, {}), ~TableSector(f.dir_sect),
           NEW S, NEW path \in Seq(S), NEW u \in f_mkdir(t, path)
    PROVE  Walks(u, f, {})
<1>1. PICK v \in Located(t, path) : u \in MakeDirectory(v) \/ (\E r : u = Result(v, r)) \/ u = v
  BY DEF f_mkdir
<1>2. Walks(v, f, {})
  BY LocatedWalks
<1>3. u \in MakeDirectory(v) => Walks(u, f, {})
  BY <1>2, MakeDirectoryWalks
<1>4. \A r : Walks(Result(v, r), f, {})
  BY <1>2, WalksMarks
<1> QED BY <1>1, <1>2, <1>3, <1>4

\* u differs from t in the file object.
OnlyFile(t, u) ==
    /\ DOMAIN u = Fields /\ u.broken = t.broken
    /\ u.disk = t.disk /\ u.win = t.win /\ u.winsect = t.winsect /\ u.wflag = t.wflag
    /\ u.last_clst = t.last_clst /\ u.fsi = t.fsi /\ u.dp = t.dp

LEMMA OnlyFileSane ==
    ASSUME Areas, NEW t, NEW f, NEW q, NEW h, Sane(t, f, q, h), NEW u, OnlyFile(t, u),
           FileFits(t, u.fp)
    PROVE  Sane(u, u.fp, q, h)
<1> DEFINE g == u.fp
<1>1. Proper(u, g, q)
  BY DEF Sane, Proper, OnlyFile
<1>2. Quiet(t, u)
  BY DEF OnlyFile, Quiet, NewIn, Shows, Weakens
<1>3. FileFits(t, g)
  OBVIOUS
<1> HIDE DEF g
<1>4. Grounded(t, g, h)
  BY <1>3 DEF Sane, Grounded
<1>5. Grounded(u, g, h)
  BY <1>2, <1>4, QuietGrounded
<1> QED BY <1>1, <1>5 DEF Sane, g

\* The file object is touched only when the call succeeds.
LEMMA OpenWalks ==
    ASSUME Areas, NEW t, NEW f, Walks(t, f, {}), NEW S, NEW path \in Seq(S),
           NEW u \in f_open(t, path)
    PROVE  \/ Walks(u, f, {}) /\ ~Ok(u)
           \/ Ok(u) /\ Writes(u, u.dp)
<1> DEFINE file(v) ==
              [NoFile EXCEPT !.modified = TRUE, !.dir_sect = v.winsect, !.dir_slot = SlotOf(v)]
           Opened(v) == [v EXCEPT !.fp = file(v)]
           Branch(v) ==
               CASE Ok(v) /\ v.dp.fn = <<>> -> {Result(v, "INVALID_NAME")}
                 [] Ok(v) /\ v.dp.fn # <<>> ->
                       {Result(v, IF Slot(v).dir THEN "DENIED" ELSE "EXIST")}
                 [] v.res = "NO_FILE" -> {IF Ok(w) THEN Opened(w) ELSE w : w \in dir_register(v)}
                 [] OTHER -> {v}
<1>1. PICK v \in Located(t, path) : u \in Branch(v)
  <2>1. f_open(t, path) = UNION {Branch(v) : v \in Located(t, path)}
    BY DEF f_open
  <2> HIDE DEF Branch
  <2> QED BY <2>1
<1> HIDE DEF Opened
<1>2. \/ \E r \in {"INVALID_NAME", "DENIED", "EXIST"} : u = Result(v, r)
      \/ u = v /\ ~Ok(v)
      \/ \E w \in dir_register(v) : u = IF Ok(w) THEN Opened(w) ELSE w
  BY <1>1
<1>3. Walks(v, f, {})
  BY LocatedWalks
<1>4. ASSUME NEW w \in dir_register(v), u = IF Ok(w) THEN Opened(w) ELSE w
      PROVE  \/ Walks(u, f, {}) /\ ~Ok(u)
             \/ Ok(u) /\ Writes(u, u.dp)
  <2>1. /\ Stands(w, f, {})
        /\ Ok(w) => /\ SlotOf(w) \in 0 .. Slots - 1
                    /\ \A g : g.dir_sect = w.winsect /\ g.dir_slot = SlotOf(w) => FileFits(w, g)
    <3>1. 0 \notin {}
      OBVIOUS
    <3> QED BY <1>3, <3>1, DirRegisterStands
  <2>2. CASE ~Ok(w)
    BY <1>4, <2>1, <2>2 DEF Stands
  <2>3. CASE Ok(w)
    <3> DEFINE n == file(w)
    <3>1. TableSector(w.winsect) /\ Sane(w, f, w.dp, {}) /\ DOMAIN w = Fields
      <4>1. TableSector(w.winsect) /\ Sane(w, f, w.dp, {})
        BY <2>1, <2>3, StandsLies
      <4> QED BY <4>1 DEF Sane, Proper
    <3>2. /\ DOMAIN n = DOMAIN NoFile /\ n.sclust = 0 /\ n.clust = 0 /\ n.objsize = 0 /\ n.bw = 0
          /\ n.dirty = FALSE /\ n.dir_sect = w.winsect /\ n.dir_slot = SlotOf(w)
      BY DEF NoFile
    <3>3. u = [w EXCEPT !.fp = n]
      BY <1>4, <2>3 DEF Opened
    <3> HIDE DEF n
    <3>4. Filed(n) /\ Held(n) = {}
      <4>1. 0 \in Nat /\ 0 % 512 = 0
        OBVIOUS
      <4> QED BY <2>1, <2>3, <3>1, <3>2, <4>1 DEF Filed, Held
    <3>5. OnlyFile(w, u) /\ u.fp = n /\ u.res = w.res
      BY <3>1, <3>3 DEF OnlyFile, Fields
    <3>6. FileFits(w, u.fp)
      BY <2>1, <2>3, <3>2, <3>5
    <3>7. Sane(u, u.fp, w.dp, {}) /\ u.dp = w.dp
      BY <3>1, <3>5, <3>6, OnlyFileSane DEF OnlyFile
    <3> QED BY <2>3, <3>4, <3>5, <3>7 DEF Ok, Writes
  <2> QED BY <2>2, <2>3
<1>5. ASSUME NEW r \in {"INVALID_NAME", "DENIED", "EXIST"}, u = Result(v, r)
      PROVE  Walks(u, f, {}) /\ ~Ok(u)
  BY <1>3, <1>5, WalksMarks DEF Ok
<1> QED BY <1>2, <1>3, <1>4, <1>5

-----------------------------------------------------------------------------
(* f_write and f_close.                                                    *)

\* The file object may change but for its entry and what it holds.
LEMMA FileSane ==
    ASSUME Areas, NEW t, NEW q, NEW h, Sane(t, t.fp, q, h), NEW u, OnlyFile(t, u),
           u.fp.dir_sect = t.fp.dir_sect, u.fp.dir_slot = t.fp.dir_slot,
           NEW k, k \subseteq h
    PROVE  Sane(u, u.fp, q, k)
<1>1. FileFits(t, t.fp)
  BY DEF Sane, Grounded
<1>2. FileFits(t, u.fp)
  BY <1>1 DEF FileFits
<1>3. Sane(u, u.fp, q, h)
  BY <1>2, OnlyFileSane
<1> QED BY <1>3, HoldsLess

LEMMA FileWrites ==
    ASSUME Areas, NEW t, NEW q, Writes(t, q), NEW u, OnlyFile(t, u), Filed(u.fp),
           u.fp.dir_sect = t.fp.dir_sect, u.fp.dir_slot = t.fp.dir_slot,
           u.fp.sclust = t.fp.sclust
    PROVE  Writes(u, q)
<1>1. Held(u.fp) = Held(t.fp)
  BY DEF Held
<1>2. Sane(t, t.fp, q, Held(t.fp))
  BY DEF Writes
<1> DEFINE h == Held(t.fp)
<1>3. h \subseteq h
  OBVIOUS
<1> HIDE DEF h
<1>4. Sane(u, u.fp, q, h)
  BY <1>2, <1>3, FileSane DEF h
<1> QED BY <1>1, <1>4 DEF Writes, h

LEMMA WritesIs ==
    ASSUME NEW t, NEW q, Writes(t, q)
    PROVE  /\ Sane(t, t.fp, q, Held(t.fp)) /\ Filed(t.fp) /\ DOMAIN t = Fields /\ t.dp = q
           /\ DOMAIN t.fp = DOMAIN NoFile
BY DEF Writes, Sane, Proper, Filed

LEMMA WritesMarks ==
    ASSUME Areas, NEW t, NEW q, Writes(t, q), NEW r
    PROVE  /\ Writes(Result(t, r), q) /\ Writes(More(t), q) /\ Writes(Abort(t, r), q)
           /\ Result(t, r).res = r /\ Abort(t, r).res = r
<1>1. Sane(t, t.fp, q, Held(t.fp)) /\ Filed(t.fp)
  BY WritesIs
<1> DEFINE k == Held(t.fp)
<1>2. /\ Sane(Result(t, r), t.fp, q, k) /\ Result(t, r).fp = t.fp /\ Result(t, r).res = r
      /\ Sane(More(t), t.fp, q, k) /\ More(t).fp = t.fp
  BY <1>1, SaneMarks
<1> DEFINE v == Result(t, r)
           u == Abort(t, r)
           f == t.fp
<1>3. u = [v EXCEPT !.fp.err = r] /\ DOMAIN v = Fields
  BY <1>2 DEF Abort, Sane, Proper
<1>4. Writes(v, q) /\ Writes(More(t), q)
  BY <1>1, <1>2 DEF Writes
<1> HIDE DEF u, v, k
<1>5. OnlyFile(v, u) /\ u.fp = [v.fp EXCEPT !.err = r] /\ u.res = v.res
  BY <1>3 DEF OnlyFile, Fields
<1>6. Filed(u.fp) /\ u.fp.sclust = v.fp.sclust /\ u.fp.dir_sect = v.fp.dir_sect
      /\ u.fp.dir_slot = v.fp.dir_slot
  <2> DEFINE g == v.fp
             h == u.fp
  <2>1. Filed(g)
    BY <1>1, <1>2 DEF v
  <2>2. h = [g EXCEPT !.err = r]
    BY <1>5
  <2> HIDE DEF g, h
  <2>3. Filed(h) /\ h.sclust = g.sclust /\ h.dir_sect = g.dir_sect /\ h.dir_slot = g.dir_slot
    BY <2>1, <2>2 DEF Filed, NoFile
  <2> QED BY <2>3 DEF g, h
<1>7. Writes(u, q)
  BY <1>4, <1>5, <1>6, FileWrites
<1> QED BY <1>2, <1>4, <1>5, <1>7 DEF u, v

LEMMA DataNew ==
    ASSUME Areas, NEW t, NEW s, DataSector(s), NEW b
    PROVE  NewIn(t, s, <<"data", b>>) /\ Holds(s, <<"data", b>>)
<1> DEFINE x == <<"data", b>>
<1>1. x[1] # "dir" /\ Holds(s, x)
  BY DataFits
<1> HIDE DEF x
<1>2. ~FatSector(s)
  BY DEF FatSector, DataSector, Areas
<1> QED BY <1>1, <1>2 DEF NewIn, x

\* The buffer goes to its sector.
LEMMA WriteBackWrites ==
    ASSUME Areas, NEW t, NEW q, Writes(t, q), NEW u \in WriteBack(t)
    PROVE  /\ Writes(u, q) /\ u.res \in {"OK", "DISK_ERR"}
           /\ u.fp.objsize = t.fp.objsize /\ u.fp.clust = t.fp.clust
           /\ u.fp.sclust = t.fp.sclust /\ u.fp.dir_sect = t.fp.dir_sect
           /\ u.fp.dir_slot = t.fp.dir_slot
<1>1. Sane(t, t.fp, q, Held(t.fp)) /\ Filed(t.fp) /\ Proper(t, t.fp, q)
  BY DEF Writes, Sane
<1>2. CASE ~t.fp.dirty
  <2>1. u = Result(t, "OK")
    BY <1>2 DEF WriteBack
  <2>2. Writes(u, q) /\ u.res = "OK"
    BY <2>1, WritesMarks
  <2>3. u.fp = t.fp
    BY <2>1, WritesIs, ResultIs DEF Like
  <2>4. u.res \in {"OK", "DISK_ERR"}
    BY <2>2
  <2> QED BY <2>2, <2>3, <2>4
<1>3. CASE t.fp.dirty
  <2> DEFINE s == t.fp.sect
             x == <<"data", t.fp.buf>>
             c == <<x>>
  <2>1. PICK v \in disk_write(t, s, c) : u = [v EXCEPT !.fp.dirty = ~Ok(v)]
    BY <1>3 DEF WriteBack
  <2>2. DataSector(s)
    BY <1>1, <1>3 DEF Filed
  <2>3. NewIn(t, s, x) /\ Holds(s, x)
    BY <2>2, DataNew
  <2> HIDE DEF x
  <2>4. Len(c) = 1 /\ c[1] = x
    OBVIOUS
  <2> HIDE DEF s, c
  <2>5. s \in fs.fatbase .. VolumeEnd - 1
    BY <2>2, DataFits
  <2>6. s \in Nat /\ 63 < s
    BY <2>5 DEF Areas
  <2>7. \A i \in 1 .. Len(c) : i = 1 /\ s + i - 1 = s
    BY <2>4, <2>6
  <2>8. /\ Len(c) \in Nat
        /\ \A i \in 1 .. Len(c) : Holds(s + i - 1, c[i]) /\ NewIn(t, s + i - 1, c[i])
    BY <2>3, <2>4, <2>7
  <2>9. Proper(v, t.fp, q) /\ Quiet(t, v) /\ Answers(t, v)
    BY <1>1, <2>1, <2>6, <2>8, DiskWriteProper
  <2>10. DOMAIN v = Fields /\ v.fp = t.fp /\ v.res \in {"OK", "DISK_ERR"}
    BY <2>9 DEF Proper, Answers
  <2>11. OnlyFile(v, u) /\ u.fp = [v.fp EXCEPT !.dirty = ~Ok(v)] /\ u.res = v.res
    BY <2>1, <2>10 DEF OnlyFile, Fields
  <2>12. Writes(v, q)
    BY <1>1, <2>9, <2>10, QuietSane DEF Writes
  <2> DEFINE g == t.fp
             h == u.fp
             b == ~Ok(v)
  <2>13. h = [g EXCEPT !.dirty = b] /\ b \in BOOLEAN /\ Filed(g) /\ DataSector(g.sect)
    BY <1>1, <2>2, <2>10, <2>11 DEF s
  <2> HIDE DEF g, h, b
  <2>14. /\ DOMAIN h = DOMAIN g /\ h.sclust = g.sclust /\ h.clust = g.clust
         /\ h.objsize = g.objsize /\ h.bw = g.bw /\ h.sect = g.sect /\ h.dir_sect = g.dir_sect
         /\ h.dir_slot = g.dir_slot
    BY <2>13 DEF Filed, NoFile
  <2>15. h.dirty \in BOOLEAN
    BY <2>13 DEF Filed, NoFile
  <2>16. Filed(h)
    BY <2>13, <2>14, <2>15 DEF Filed
  <2>17. Writes(u, q)
    BY <2>10, <2>11, <2>12, <2>14, <2>16, FileWrites DEF g, h
  <2> QED BY <2>10, <2>11, <2>14, <2>17 DEF g, h
<1> QED BY <1>2, <1>3

LEMMA WriteBackDone ==
    ASSUME Areas, NEW t, NEW q, Writes(t, q), NEW u \in WriteBack(t), Ok(u)
    PROVE  ~u.fp.dirty
<1>1. DOMAIN t = Fields /\ DOMAIN t.fp = DOMAIN NoFile
  BY WritesIs
<1>2. CASE ~t.fp.dirty
  <2>1. u = Result(t, "OK")
    BY <1>2 DEF WriteBack
  <2> QED BY <1>1, <1>2, <2>1, ResultIs DEF Like
<1>3. CASE t.fp.dirty
  <2> DEFINE c == <<<<"data", t.fp.buf>>>>
  <2>1. PICK v \in disk_write(t, t.fp.sect, c) : u = [v EXCEPT !.fp.dirty = ~Ok(v)]
    BY <1>3 DEF WriteBack
  <2>2. PICK n \in 0 .. Len(c) - 1 :
            v \in Access(Stored(t, t.fp.sect, c, n), Stored(t, t.fp.sect, c, Len(c)))
    BY <2>1 DEF disk_write
  <2>3. ASSUME NEW k PROVE LET w == Stored(t, t.fp.sect, c, k)
                           IN  DOMAIN w = Fields /\ w.fp = t.fp
    BY <1>1 DEF Stored, Fields
  <2>4. DOMAIN v = Fields /\ v.fp = t.fp
    BY <2>2, <2>3, AccessIs DEF Like
  <2>5. u.fp.dirty = ~Ok(v) /\ u.res = v.res
    BY <1>1, <2>1, <2>4 DEF Fields, NoFile
  <2> QED BY <2>5 DEF Ok
<1> QED BY <1>2, <1>3

\* So many bytes more: what is left in the buffer has a sector.
Buffered(f, n) == f.dirty \/ (f.objsize + n) % 512 # 0 => DataSector(f.sect)

\* The file ends on a boundary of sectors.
Aligned(f) == f.objsize % 512 = 0

LEMMA TookWrites ==
    ASSUME Areas, NEW t, NEW q, Writes(t, q), NEW n \in Nat, Buffered(t.fp, n)
    PROVE  Writes(Took(t, n), q) /\ Took(t, n).res = "OK"
<1> DEFINE v == Result(t, "OK")
           u == Took(t, n)
           g == v.fp
           h == u.fp
<1>1. Writes(v, q) /\ v.res = "OK" /\ DOMAIN v = Fields /\ Filed(g)
  BY WritesMarks, WritesIs
<1>2. g = t.fp
  BY WritesIs, ResultIs DEF Like
<1>3. u = [v EXCEPT !.fp.objsize = @ + n, !.fp.bw = @ + n]
  BY DEF Took
<1> HIDE DEF u, v
<1>4. /\ OnlyFile(v, u) /\ u.res = v.res
      /\ h = [[g EXCEPT !.objsize = @ + n] EXCEPT !.bw = @ + n]
  BY <1>1, <1>3 DEF OnlyFile, Fields
<1>5. Buffered(g, n)
  BY <1>2
<1> HIDE DEF g, h
<1>6. /\ DOMAIN h = DOMAIN g /\ h.sclust = g.sclust /\ h.clust = g.clust /\ h.dirty = g.dirty
      /\ h.objsize = g.objsize + n /\ h.bw = g.bw + n /\ h.sect = g.sect
      /\ h.dir_sect = g.dir_sect /\ h.dir_slot = g.dir_slot
  BY <1>1, <1>4 DEF Filed, NoFile
<1>7. g.dirty \/ (g.objsize + n) % 512 # 0 => DataSector(g.sect)
  BY <1>5 DEF Buffered
<1>8. Filed(h)
  BY <1>1, <1>6, <1>7 DEF Filed
<1>9. Writes(u, q)
  BY <1>1, <1>4, <1>6, <1>8, FileWrites DEF g, h
<1> QED BY <1>1, <1>4, <1>9 DEF u

LEMMA TakeWrites ==
    ASSUME Areas, NEW t, NEW q, Writes(t, q), DataSector(t.fp.sect), NEW S, NEW data \in Seq(S)
    PROVE  Writes(TakeIntoBuffer(t, data), q) /\ ~Goes(TakeIntoBuffer(t, data))
<1> DEFINE ofs == t.fp.objsize % ss
           n == IF ss - ofs < Len(data) THEN ss - ofs ELSE Len(data)
           v == Took(t, n)
           u == TakeIntoBuffer(t, data)
<1>1. t.fp.objsize \in Nat /\ ss = 512 /\ Len(data) \in Nat
  BY SectorsEnd DEF Writes, Filed
<1>2. n \in Nat /\ Buffered(t.fp, n)
  BY <1>1 DEF Buffered
<1>3. PICK b : u = [v EXCEPT !.fp.buf = b, !.fp.dirty = TRUE]
  BY DEF TakeIntoBuffer
<1> HIDE DEF n
<1>4. Writes(v, q) /\ v.res = "OK"
  BY <1>2, TookWrites
<1>5. v.fp.sect = t.fp.sect
  BY WritesIs DEF Took, Result, Fields, NoFile
<1> HIDE DEF v, u
<1> DEFINE g == v.fp
           h == u.fp
<1>6. Filed(g) /\ DOMAIN v = Fields
  BY <1>4, WritesIs
<1>7. OnlyFile(v, u) /\ u.res = v.res /\ h = [[g EXCEPT !.buf = b] EXCEPT !.dirty = TRUE]
  BY <1>3, <1>6 DEF OnlyFile, Fields
<1>9. DataSector(g.sect)
  BY <1>5
<1> HIDE DEF g, h
<1>10. /\ DOMAIN h = DOMAIN g /\ h.sclust = g.sclust /\ h.clust = g.clust
       /\ h.objsize = g.objsize /\ h.bw = g.bw /\ h.sect = g.sect /\ h.dir_sect = g.dir_sect
       /\ h.dir_slot = g.dir_slot
  BY <1>6, <1>7 DEF Filed, NoFile
<1>11. h.dirty = TRUE
  BY <1>6, <1>7 DEF Filed, NoFile
<1>12. Filed(h)
  BY <1>6, <1>9, <1>10, <1>11 DEF Filed
<1>13. Writes(u, q)
  BY <1>4, <1>7, <1>10, <1>12, FileWrites DEF g, h
<1> QED BY <1>4, <1>7, <1>13 DEF Goes, u

\* A run of sectors stays in its cluster.
LEMMA RunStays ==
    ASSUME Areas, NEW csect \in 0 .. fs.csize - 1, NEW n \in Nat
    PROVE  Run(csect, n) \in 0 .. fs.csize - csect
<1> DEFINE c == fs.csize
<1>1. c \in {1, 2, 4, 8, 16, 32, 64, 128} /\ csect \in 0 .. c - 1 /\ ss = 512
  BY SectorsEnd, SizesAre DEF Areas
<1>2. Run(csect, n) = IF csect + n \div ss > c THEN c - csect ELSE n \div ss
  BY DEF Run
<1> HIDE DEF c
<1>3. Run(csect, n) \in 0 .. c - csect
  BY <1>1, <1>2
<1> QED BY <1>3 DEF c

LEMMA DirectWrites ==
    ASSUME Areas, NEW t, NEW q, Writes(t, q), Aligned(t.fp), NEW cc \in Nat,
           NEW sect \in Nat, \A k \in 0 .. cc - 1 : DataSector(sect + k), 63 < sect,
           NEW data, NEW u \in WriteDirect(t, sect, cc, data)
    PROVE  Writes(u, q) /\ ~Goes(u)
<1> DEFINE piece(k) == [i \in 0 .. ss - 1 |-> data[(k - 1) * ss + i + 1]]
           c == [k \in 1 .. cc |-> <<"data", piece(k)>>]
<1>1. PICK v \in disk_write(t, sect, c) :
          u = IF Ok(v) THEN Took(v, cc * ss) ELSE Abort(v, v.res)
  BY DEF WriteDirect
<1> HIDE DEF piece
<1>2. Len(c) = cc
  <2> DEFINE T == {<<"data", piece(k)>> : k \in 1 .. cc}
  <2>1. c \in [1 .. cc -> T] /\ DOMAIN c = 1 .. cc
    OBVIOUS
  <2> HIDE DEF c, T
  <2>2. c \in Seq(T)
    BY <2>1
  <2> QED BY <2>1, <2>2
<1>3. ASSUME NEW i \in 1 .. cc
      PROVE  Holds(sect + i - 1, c[i]) /\ NewIn(t, sect + i - 1, c[i])
  <2>1. i - 1 \in 0 .. cc - 1 /\ sect + (i - 1) = sect + i - 1
    OBVIOUS
  <2>2. DataSector(sect + i - 1)
    <3>1. DataSector(sect + (i - 1))
      BY <2>1
    <3> QED BY <2>1, <3>1
  <2>3. c[i] = <<"data", piece(i)>>
    OBVIOUS
  <2> HIDE DEF c
  <2> QED BY <2>2, <2>3, DataNew
<1> HIDE DEF c
<1>4. Sane(t, t.fp, q, Held(t.fp)) /\ Filed(t.fp) /\ Proper(t, t.fp, q)
  BY DEF Writes, Sane
<1>5. Proper(v, t.fp, q) /\ Quiet(t, v) /\ Answers(t, v)
  BY <1>1, <1>2, <1>3, <1>4, DiskWriteProper
<1>6. Writes(v, q) /\ v.fp = t.fp /\ v.res \in {"OK", "DISK_ERR"}
  <2>1. Sane(v, t.fp, q, Held(t.fp))
    BY <1>4, <1>5, QuietSane
  <2>2. v.fp = t.fp
    BY <1>5 DEF Proper
  <2> QED BY <1>4, <1>5, <2>1, <2>2 DEF Writes, Answers
<1>7. CASE Ok(v)
  <2> DEFINE n == cc * ss
             o == t.fp.objsize
  <2>1. n = cc * 512 /\ o \in Nat /\ o % 512 = 0
    BY <1>4, SectorsEnd DEF Filed, Aligned
  <2>2. u = Took(v, n)
    BY <1>1, <1>7
  <2> HIDE DEF n, o
  <2>3. n \in Nat /\ (o + n) % 512 = 0
    BY <2>1
  <2>4. Buffered(v.fp, n)
    BY <1>4, <1>6, <2>3 DEF Filed, Buffered, o
  <2> QED BY <1>6, <2>2, <2>3, <2>4, TookWrites DEF Goes
<1>8. CASE ~Ok(v)
  <2>1. u = Abort(v, v.res)
    BY <1>1, <1>8
  <2> QED BY <1>6, <2>1, WritesMarks DEF Goes
<1> QED BY <1>7, <1>8

\* The buffer belongs to another sector; what it held is written.
LEMMA BufferAtWrites ==
    ASSUME Areas, NEW t, NEW q, Writes(t, q), Aligned(t.fp), ~t.fp.dirty,
           NEW s, DataSector(s), NEW u, u = [t EXCEPT !.fp.sect = s]
    PROVE  Writes(u, q) /\ u.fp.sect = s
<1> DEFINE g == t.fp
           h == u.fp
<1>1. Filed(g) /\ DOMAIN t = Fields /\ ~g.dirty /\ Aligned(g)
  BY WritesIs
<1>2. OnlyFile(t, u) /\ h = [g EXCEPT !.sect = s]
  BY <1>1 DEF OnlyFile, Fields
<1> HIDE DEF g, h
<1>4. /\ DOMAIN h = DOMAIN g /\ h.sclust = g.sclust /\ h.clust = g.clust
      /\ h.objsize = g.objsize /\ h.bw = g.bw /\ h.dirty = g.dirty /\ h.dir_sect = g.dir_sect
      /\ h.dir_slot = g.dir_slot /\ h.sect = s
  BY <1>1, <1>2 DEF Filed, NoFile
<1>5. Filed(h)
  BY <1>1, <1>4 DEF Filed, Aligned
<1> QED BY <1>2, <1>4, <1>5, FileWrites DEF g, h

\* On a sector boundary, in a cluster of the file.
LEMMA WriteSectorWrites ==
    ASSUME Areas, NEW t, NEW q, Writes(t, q), Aligned(t.fp),
           NEW S, NEW data \in Seq(S), NEW u \in WriteSector(t, data)
    PROVE  Writes(u, q) /\ ~Goes(u)
<1> DEFINE csect == (t.fp.objsize \div ss) % fs.csize
           sect == clst2sect(t.fp.clust)
           n == Len(data)
           Put(v) == IF n >= ss THEN WriteDirect(v, sect + csect, Run(csect, n), data)
                     ELSE {TakeIntoBuffer([v EXCEPT !.fp.sect = sect + csect], data)}
<1>1. PICK v \in WriteBack(t) :
          \/ u = Abort(v, v.res) \/ u = Abort(v, "INT_ERR")
          \/ Ok(v) /\ sect # 0 /\ u \in Put(v)
  BY DEF WriteSector
<1>2. /\ Writes(v, q) /\ v.res \in {"OK", "DISK_ERR"} /\ v.fp.objsize = t.fp.objsize
      /\ Ok(v) => ~v.fp.dirty
  BY <1>1, WriteBackWrites, WriteBackDone
<1>3. CASE u = Abort(v, v.res) \/ u = Abort(v, "INT_ERR")
  <2>1. PICK r \in {"OK", "DISK_ERR", "INT_ERR"} : u = Abort(v, r)
    BY <1>2, <1>3
  <2> QED BY <1>2, <2>1, WritesMarks DEF Goes
<1>4. CASE Ok(v) /\ sect # 0 /\ u \in Put(v)
  <2> DEFINE at == sect + csect
  <2>1. csect \in 0 .. fs.csize - 1 /\ csect \in Nat /\ fs.csize \in Nat
    <3> DEFINE o == t.fp.objsize
               c == fs.csize
    <3>1. o \in Nat /\ ss = 512 /\ c \in {1, 2, 4, 8, 16, 32, 64, 128}
      BY SectorsEnd, SizesAre DEF Writes, Filed, Areas
    <3>2. csect = (o \div ss) % c
      OBVIOUS
    <3> HIDE DEF o, c, csect
    <3>3. csect \in 0 .. c - 1 /\ csect \in Nat /\ c \in Nat
      BY <3>1, <3>2
    <3> QED BY <3>3 DEF c
  <2>2. t.fp.clust \in Clusters
    BY <1>4, NoClusterNoSector
  <2>3. sect \in Nat /\ DataSector(at)
    BY <2>1, <2>2, ClusterLies
  <2> HIDE DEF csect, sect
  <2>4. n \in Nat
    OBVIOUS
  <2>5. CASE n >= ss
    <3> DEFINE cc == Run(csect, n)
    <3>1. cc \in 0 .. fs.csize - csect /\ fs.csize \in Nat /\ cc \in Nat
      <4>1. cc \in 0 .. fs.csize - csect
        BY <2>1, <2>4, RunStays
      <4> QED BY <2>1, <4>1
    <3>2. u \in WriteDirect(v, at, cc, data)
      BY <1>4, <2>5
    <3> HIDE DEF cc, n
    <3>3. ASSUME NEW k \in 0 .. cc - 1 PROVE DataSector(at + k)
      <4>1. csect + k \in 0 .. fs.csize - 1 /\ at + k = sect + (csect + k)
        BY <2>1, <2>3, <3>1
      <4>2. DataSector(sect + (csect + k))
        BY <2>2, <4>1, ClusterLies DEF sect
      <4> QED BY <4>1, <4>2
    <3>4. Aligned(v.fp)
      BY <1>2 DEF Aligned
    <3> HIDE DEF at
    <3>5. at \in Nat /\ 63 < at
      <4>1. fs.database \in Nat /\ 63 < fs.database
        BY DEF Areas
      <4>2. DataSector(at)
        BY <2>3
      <4> QED BY <4>1, <4>2 DEF DataSector
    <3> QED BY <1>2, <3>1, <3>2, <3>3, <3>4, <3>5, DirectWrites
  <2>6. CASE ~(n >= ss)
    <3> DEFINE w == [v EXCEPT !.fp.sect = at]
    <3>1. u = TakeIntoBuffer(w, data)
      BY <1>4, <2>6
    <3>2. Aligned(v.fp) /\ ~v.fp.dirty /\ w = [v EXCEPT !.fp.sect = at]
      BY <1>2, <1>4 DEF Aligned
    <3> HIDE DEF w, at
    <3>3. Writes(v, q) /\ DataSector(at)
      BY <1>2, <2>3
    <3>4. Writes(w, q) /\ w.fp.sect = at
      BY <3>2, <3>3, BufferAtWrites
    <3> QED BY <2>3, <3>1, <3>4, TakeWrites
  <2> QED BY <2>5, <2>6
<1> QED BY <1>1, <1>3, <1>4

\* On a cluster boundary.  What the file holds is its first cluster, also
\* when this is the one just taken.
LEMMA EnterClusterWrites ==
    ASSUME Areas, NEW t, NEW q, Writes(t, q), Aligned(t.fp),
           NEW S, NEW data \in Seq(S), NEW u \in EnterCluster(t, data)
    PROVE  Writes(u, q) /\ ~Goes(u)
<1> DEFINE With(c) == [c EXCEPT !.fp.clust = c.val, !.fp.sclust = IF @ = 0 THEN c.val ELSE @]
           from == IF t.fp.objsize = 0 THEN 0 ELSE t.fp.clust
           k == Held(t.fp)
<1>1. PICK c \in create_chain(t, from) :
          \/ u = Result(c, "OK") \/ u = Abort(c, "INT_ERR") \/ u = Abort(c, "DISK_ERR")
          \/ c.val \notin {0, 1, DiskError} /\ u \in WriteSector(With(c), data)
  BY DEF EnterCluster
<1>2. Sane(t, t.fp, q, k) /\ Filed(t.fp)
  BY WritesIs
<1>3. from = 0 \/ t.fp.sclust # 0
  BY <1>2 DEF Filed
<1> HIDE DEF from, k
<1>4. /\ Sane(c, t.fp, q, k) /\ c.val \in Clusters \cup {0, 1, DiskError}
      /\ from = 0 /\ c.val \in Clusters => Sane(c, t.fp, q, k \cup {c.val})
  BY <1>1, <1>2, CreateChainSane
<1>5. c.fp = t.fp /\ DOMAIN c = Fields
  BY <1>4 DEF Sane, Proper
<1>6. Writes(c, q)
  BY <1>2, <1>4, <1>5 DEF Writes, k
<1>7. CASE c.val \notin {0, 1, DiskError} /\ u \in WriteSector(With(c), data)
  <2> DEFINE w == With(c)
             g == c.fp
             h == w.fp
             first == IF g.sclust = 0 THEN c.val ELSE g.sclust
  <2>1. c.val \in Clusters /\ Filed(g) /\ g = t.fp /\ Held(g) = k
    BY <1>2, <1>4, <1>5, <1>7 DEF k
  <2>2. OnlyFile(c, w) /\ h = [[g EXCEPT !.clust = c.val] EXCEPT !.sclust = first]
    BY <1>5, <2>1 DEF OnlyFile, Fields, Filed, NoFile
  <2>3. u \in WriteSector(w, data)
    BY <1>7
  <2> HIDE DEF w
  <2>4. first \in Clusters /\ Aligned(g) /\ 0 \notin Clusters
    BY <2>1, ClustersAre DEF Filed
  <2> HIDE DEF h
  <2>5. first = IF g.sclust = 0 THEN c.val ELSE g.sclust
    OBVIOUS
  <2> HIDE DEF g, first
  <2>6. /\ DOMAIN h = DOMAIN g /\ h.sclust = first /\ h.clust = c.val
        /\ h.objsize = g.objsize /\ h.bw = g.bw /\ h.dirty = g.dirty /\ h.dir_sect = g.dir_sect
        /\ h.dir_slot = g.dir_slot /\ h.sect = g.sect
    BY <2>1, <2>2 DEF Filed, NoFile
  <2>7. Filed(h) /\ Aligned(h)
    BY <2>1, <2>4, <2>6 DEF Filed, Aligned
  <2>8. PICK z : Sane(c, g, q, z) /\ Held(h) \subseteq z
    <3>1. CASE g.sclust = 0
      <4>1. Sane(c, g, q, k \cup {c.val})
        BY <1>3, <1>4, <2>1, <3>1
      <4>2. Held(h) \subseteq k \cup {c.val}
        BY <2>5, <2>6, <3>1 DEF Held
      <4> QED BY <4>1, <4>2
    <3>2. CASE g.sclust # 0
      <4>1. Sane(c, g, q, k) /\ Held(h) \subseteq k
        BY <1>4, <2>1, <2>5, <2>6, <3>2 DEF Held
      <4> QED BY <4>1
    <3> QED BY <3>1, <3>2
  <2>9. Sane(w, h, q, Held(h))
    BY <2>2, <2>6, <2>8, FileSane DEF g, h
  <2>10. Writes(w, q) /\ Aligned(w.fp)
    BY <2>7, <2>9 DEF Writes, h
  <2> QED BY <2>3, <2>10, WriteSectorWrites
<1>8. ASSUME NEW r \in {"OK", "INT_ERR", "DISK_ERR"}, u = Result(c, r) \/ u = Abort(c, r)
      PROVE  Writes(u, q) /\ ~Goes(u)
  <2>1. Writes(Result(c, r), q) /\ Result(c, r).res = r
    BY <1>6, WritesMarks
  <2>2. Writes(Abort(c, r), q) /\ Abort(c, r).res = r
    BY <1>6, WritesMarks
  <2>3. Writes(u, q) /\ u.res = r
    BY <1>8, <2>1, <2>2
  <2> QED BY <1>8, <2>3 DEF Goes
<1> QED BY <1>1, <1>7, <1>8

LEMMA PieceWrites ==
    ASSUME Areas, NEW t, NEW q, Writes(t, q), NEW S, NEW data \in Seq(S), NEW u \in Piece(t, data)
    PROVE  Writes(u, q) /\ ~Goes(u)
<1>1. t.fp.objsize \in Nat /\ ss = 512 /\ Filed(t.fp)
  BY SectorsEnd DEF Writes, Filed
<1>2. CASE Aligned(t.fp)
  <2>1. u \in EnterCluster(t, data) \/ u \in WriteSector(t, data)
    BY <1>1, <1>2 DEF Piece, Aligned
  <2> QED BY <1>2, <2>1, EnterClusterWrites, WriteSectorWrites
<1>3. CASE ~Aligned(t.fp)
  <2>1. u = TakeIntoBuffer(t, data)
    BY <1>1, <1>3 DEF Piece, Aligned
  <2>2. DataSector(t.fp.sect)
    BY <1>1, <1>3 DEF Filed, Aligned
  <2> QED BY <2>1, <2>2, TakeWrites
<1> QED BY <1>2, <1>3

\* A mark of the file object: modified, or bw set to 0 before a call and
\* behind it.
LEMMA ModifiedWrites ==
    ASSUME Areas, NEW t, NEW q, Writes(t, q), NEW b, NEW u,
           u = [t EXCEPT !.fp.modified = b] \/ u = [t EXCEPT !.fp.bw = 0]
    PROVE  Writes(u, q) /\ u.res = t.res
<1> DEFINE g == t.fp
           h == u.fp
<1>1. Filed(g) /\ DOMAIN t = Fields
  BY WritesIs
<1>2. /\ OnlyFile(t, u) /\ u.res = t.res
      /\ h = [g EXCEPT !.modified = b] \/ h = [g EXCEPT !.bw = 0]
  BY <1>1 DEF OnlyFile, Fields
<1> HIDE DEF g, h
<1>3. Filed(h) /\ h.dir_sect = g.dir_sect /\ h.dir_slot = g.dir_slot /\ h.sclust = g.sclust
  BY <1>1, <1>2 DEF Filed, NoFile
<1> QED BY <1>2, <1>3, FileWrites DEF g, h

LEMMA WriteRoundWrites ==
    ASSUME Areas, NEW t, NEW q, Writes(t, q), NEW S, NEW data \in Seq(S),
           NEW u \in WriteRound(t, data)
    PROVE  Writes(u, q)
<1> DEFINE left == SubSeq(data, t.fp.bw + 1, Len(data))
           Marked(v) == [v EXCEPT !.fp.modified = TRUE]
<1>1. left \in Seq(S)
  <2>1. t.fp.bw \in Nat
    BY DEF Writes, Filed
  <2> QED BY <2>1
<1>2. u = Marked(t) \/ \E v \in Piece(t, left) : u = v \/ u = Marked(v) \/ u = More(v)
  BY DEF WriteRound
<1>3. \A v \in Piece(t, left) : Writes(v, q)
  BY <1>1, PieceWrites
<1> HIDE DEF left
<1>4. ASSUME NEW v, Writes(v, q) PROVE Writes(Marked(v), q)
  <2> DEFINE w == Marked(v)
  <2>1. w = [v EXCEPT !.fp.modified = TRUE]
    OBVIOUS
  <2> HIDE DEF w
  <2>2. Writes(w, q)
    BY <1>4, <2>1, ModifiedWrites
  <2> QED BY <2>2 DEF w
<1> HIDE DEF Marked
<1>5. \A v : Writes(v, q) => Writes(More(v), q)
  BY WritesMarks
<1> QED BY <1>2, <1>3, <1>4, <1>5

LEMMA WriteWrites ==
    ASSUME Areas, NEW t, NEW q, Writes(t, q), NEW S, NEW data \in Seq(S), NEW u \in f_write(t, data)
    PROVE  Writes(u, q)
<1> DEFINE v == [t EXCEPT !.fp.bw = 0]
           n == Len(data) + 1
<1>1. u = Result(v, t.fp.err) \/ u \in Poured(v, data, n)
  BY DEF f_write, Poured
<1>2. v = [t EXCEPT !.fp.bw = 0] /\ n \in Nat
  OBVIOUS
<1> HIDE DEF v, n
<1>3. Writes(v, q)
  BY <1>2, ModifiedWrites
<1>4. CASE u = Result(v, t.fp.err)
  BY <1>3, <1>4, WritesMarks
<1>5. CASE u \in Poured(v, data, n)
  <2> DEFINE loop == "write"
  <2>1. \A w : Kept(loop, data, 0, q, 0, 0, w) <=> Writes(w, q)
    BY DEF Kept
  <2>2. ASSUME NEW w, Writes(w, q), Goes(w), NEW x \in WriteRound(Result(w, "OK"), data)
        PROVE  Writes(x, q)
    <3> DEFINE y == Result(w, "OK")
    <3>1. Writes(y, q) /\ x \in WriteRound(y, data)
      BY <2>2, WritesMarks
    <3> HIDE DEF y
    <3> QED BY <3>1, WriteRoundWrites
  <2>3. Writes(More(v), q)
    BY <1>3, WritesMarks
  <2>4. /\ Kept("write", data, 0, q, 0, 0, More(v))
        /\ \A k \in 1 .. n : \A w : Kept("write", data, 0, q, 0, 0, w) /\ Goes(w) =>
               \A x \in WriteRound(Result(w, "OK"), data) : Kept("write", data, 0, q, 0, 0, x)
    BY <2>1, <2>2, <2>3
  <2>5. Kept("write", data, 0, q, 0, 0, u)
    BY <1>2, <1>5, <2>4, WriteLoop
  <2> QED BY <2>1, <2>5
<1> QED BY <1>1, <1>4, <1>5

\* f_close.  Its callers forget the file object, whatever it answers: what the
\* file held its entry claims now, or nobody does.
LEMMA CloseSane ==
    ASSUME Areas, NEW t, NEW q, Writes(t, q), NEW u \in f_close(t)
    PROVE  Sane(u, u.fp, q, {})
<1> DEFINE slot == t.fp.dir_slot
           Updated(v) == [Entries(v.win)[slot] EXCEPT !.clust = t.fp.sclust, !.size = t.fp.objsize]
           Marked(w) == [w EXCEPT !.fp.modified = FALSE]
           Update(w) == {Marked(x) : x \in sync_fs(SetSlot(w, slot, Updated(w)))}
           Enter(v) == UNION {IF Ok(w) THEN Update(w) ELSE {w} :
                                 w \in move_window(v, t.fp.dir_sect)}
<1>1. ASSUME NEW v, Writes(v, q) PROVE Sane(v, v.fp, q, {})
  <2>1. {} \subseteq Held(v.fp)
    OBVIOUS
  <2> QED BY <1>1, <2>1, HoldsLess DEF Writes
<1>2. CASE u = Result(t, "OK")
  BY <1>1, <1>2, WritesMarks
<1>3. ASSUME NEW v \in WriteBack(t), u = v PROVE Sane(u, u.fp, q, {})
  BY <1>1, <1>3, WriteBackWrites
<1>4. ASSUME NEW v \in WriteBack(t), NEW w \in move_window(v, t.fp.dir_sect),
             \/ ~Ok(w) /\ u = w
             \/ Ok(w) /\ \E x \in sync_fs(SetSlot(w, slot, Updated(w))) : u = Marked(x)
      PROVE  Sane(u, u.fp, q, {})
  <2> DEFINE sect == t.fp.dir_sect
             f == v.fp
             k == Held(f)
  <2>1. TableSector(sect) /\ slot \in 0 .. Slots - 1
    BY DEF Writes, Filed
  <2>2. sect \in Nat /\ fs.fatbase <= sect /\ sect < VolumeEnd
    <3>1. fs.fatbase \in Nat /\ fs.fsize \in Nat
      BY DEF Areas
    <3> QED BY <2>1, <3>1 DEF TableSector
  <2>3. w \in move_window(v, sect)
    BY <1>4
  <2>4. Writes(v, q) /\ f.dir_sect = sect /\ f.dir_slot = slot /\ f.sclust = t.fp.sclust
    BY <1>4, WriteBackWrites
  <2>5. Sane(v, f, q, k)
    BY <2>4 DEF Writes
  <2> HIDE DEF sect, f, k
  <2>6. Sane(w, f, q, k) /\ (Ok(w) => w.winsect = sect)
    BY <2>2, <2>3, <2>5, MoveWindowSane
  <2>7. DOMAIN w = Fields /\ w.fp = f
    BY <2>6 DEF Sane, Proper
  <2>8. CASE u = w
    <3>1. {} \subseteq k
      OBVIOUS
    <3> QED BY <2>6, <2>7, <2>8, <3>1, HoldsLess
  <2>9. CASE Ok(w) /\ \E x \in sync_fs(SetSlot(w, slot, Updated(w))) : u = Marked(x)
    <3> DEFINE o == Entries(w.win)[slot]
               c == t.fp.sclust
               z == t.fp.objsize
               e == [o EXCEPT !.clust = c, !.size = z]
               y == SetSlot(w, slot, e)
    <3>1. PICK x \in sync_fs(y) : u = Marked(x)
      BY <2>9
    <3>2. y = SetSlot(w, slot, e)
      OBVIOUS
    <3> HIDE DEF y
    <3>3. TableSector(w.winsect) /\ w.winsect = sect
      BY <2>1, <2>6, <2>9
    <3>4. Tabular(Entries(w.win)) /\ ~o.dir
      <4>1. /\ Tabular(Entries(w.win))
            /\ \A i \in 0 .. Slots - 1 :
                  w.winsect = f.dir_sect /\ i = f.dir_slot => ~Entries(w.win)[i].dir
        BY <2>6, <3>3, EntriesFit
      <4> QED BY <2>1, <2>4, <3>3, <4>1
    <3>5. DOMAIN o = DOMAIN NoEntry
      BY <2>1, <3>4 DEF Tabular
    <3>6. e = [o EXCEPT !.clust = c, !.size = z] /\ k = {c} \ {0}
      BY <2>4 DEF k, Held
    <3> HIDE DEF e, o, c, z
    <3>7. DOMAIN e = DOMAIN NoEntry /\ ~e.dir /\ e.clust = c
      BY <3>4, <3>5, <3>6 DEF NoEntry
    <3>8. /\ IsNamed(e) /\ e.dir => e.clust # 0
          /\ IsNamed(e) /\ e.clust # 0 => e.clust \in k
          /\ w.winsect = f.dir_sect /\ slot = f.dir_slot => ~e.dir
      BY <3>6, <3>7
    <3>9. Sane(y, f, q, k \ {e.clust})
      BY <2>1, <2>6, <3>2, <3>3, <3>7, <3>8, SetSlotSane
    <3>10. k \ {e.clust} = {}
      BY <3>6, <3>7
    <3>11. Sane(x, f, q, {})
      <4>1. Sane(y, f, q, {})
        BY <3>9, <3>10
      <4> QED BY <3>1, <4>1, SyncFsSane
    <3>12. DOMAIN x = Fields /\ x.fp = f /\ DOMAIN f = DOMAIN NoFile
      BY <2>4, <3>11, WritesIs DEF Sane, Proper, f
    <3>13. /\ OnlyFile(x, u) /\ u.fp.dir_sect = x.fp.dir_sect
           /\ u.fp.dir_slot = x.fp.dir_slot
      BY <3>1, <3>12 DEF OnlyFile, Fields, NoFile
    <3>14. {} \subseteq {}
      OBVIOUS
    <3> QED BY <3>11, <3>12, <3>13, <3>14, FileSane
  <2> QED BY <1>4, <2>8, <2>9
<1>5. \/ u = Result(t, "OK")
      \/ \E v \in WriteBack(t) :
            \/ u = v
            \/ \E w \in move_window(v, t.fp.dir_sect) :
                  \/ ~Ok(w) /\ u = w
                  \/ Ok(w) /\ \E x \in sync_fs(SetSlot(w, slot, Updated(w))) : u = Marked(x)
  <2>1. f_close(t) = IF ~t.fp.modified THEN {Result(t, "OK")}
                     ELSE UNION {IF Ok(v) THEN Enter(v) ELSE {v} : v \in WriteBack(t)}
    BY DEF f_close
  <2>2. \A v, w : w \in Enter(v) =>
            \E y \in move_window(v, t.fp.dir_sect) : w \in IF Ok(y) THEN Update(y) ELSE {y}
    OBVIOUS
  <2>3. \A w, y : y \in Update(w) =>
            \E x \in sync_fs(SetSlot(w, slot, Updated(w))) : y = Marked(x)
    OBVIOUS
  <2> HIDE DEF Enter, Update, Marked, Updated, slot
  <2>4. \/ u = Result(t, "OK")
        \/ \E v \in WriteBack(t) : u = v \/ u \in Enter(v)
    BY <2>1
  <2> QED BY <2>2, <2>3, <2>4
<1> QED BY <1>2, <1>3, <1>4, <1>5

-----------------------------------------------------------------------------
(* The inductive invariant.                                                *)

\* The disk behind f_mkfs: records in front of the FAT, the first sector of
\* the FAT, and nothing else; FSInfo may be missing.
Formatted ==
    /\ \A s \in DOMAIN disk :
          \/ s \in Nat /\ s < 63 + mk.sz_rsv /\ disk[s][1] \in {"mbr", "vbr", "fsinfo"}
          \/ s = 63 + mk.sz_rsv
    /\ SectorAt(disk, 63 + mk.sz_rsv) = FirstFat[0]
    /\ mk.fsty = "FAT32" /\ 64 \in DOMAIN disk => disk[64] = FsInfo(mk.n_clst - 1, 2)

\* The disk and the FATFS object between two calls.
Settled == Sane(Memory, fp, Memory.dp, Held(fp))

\* The file object is that of the file that is open, the only one, and a call
\* is under way as long as it is.
OpenFile ==
    /\ copying = {} => fp = NoFile
    /\ copying # {} => phase = "ready" /\ stack # <<>> /\ Filed(fp)
    /\ \A c \in copying : DOMAIN c = {"path", "blocks", "at"} /\ c.blocks \in Seq(Nat)
    /\ \A b, c \in copying : b = c

FatInv ==
    /\ LayoutInv
    /\ phase = "mount" => Formatted
    /\ phase \in {"ready", "closed"} => Settled
    /\ OpenFile
    /\ todo \subseteq drive.folder

-----------------------------------------------------------------------------
(* As long as the volume is the same, everything that is said of a memory  *)
(* is the same.                                                            *)

LEMMA SectorsStay ==
    ASSUME drive' = drive, fs' = fs
    PROVE  /\ ss' = ss /\ Slots' = Slots /\ Clusters' = Clusters /\ VolumeEnd' = VolumeEnd
           /\ FatPlaces' = FatPlaces /\ Bytes' = Bytes /\ Rooted' = Rooted /\ Mark' = Mark
           /\ NoFile' = NoFile
           /\ \A s : /\ FatSector(s)' = FatSector(s) /\ TableSector(s)' = TableSector(s)
                     /\ DataSector(s)' = DataSector(s)
<1>1. /\ ss' = ss /\ Clusters' = Clusters /\ VolumeEnd' = VolumeEnd
      /\ FatPlaces' = FatPlaces /\ Bytes' = Bytes /\ Rooted' = Rooted /\ Mark' = Mark
  BY DEF ss, Clusters, VolumeEnd, FatPlaces, Bytes, Rooted, RootChain, Mark
<1>2. Slots' = Slots
  BY <1>1 DEF Slots
<1>3. NoFile' = NoFile
  BY <1>1 DEF NoFile
<1>4. ASSUME NEW s
      PROVE  /\ FatSector(s)' = FatSector(s) /\ TableSector(s)' = TableSector(s)
             /\ DataSector(s)' = DataSector(s)
  BY <1>1 DEF FatSector, TableSector, DataSector
<1> QED BY <1>1, <1>2, <1>3, <1>4

LEMMA EntryStays ==
    ASSUME drive' = drive, fs' = fs
    PROVE  /\ \A x : FatBytes(x)' = FatBytes(x)
           /\ \A B, c : EntryOf(B, c)' = EntryOf(B, c)
<1>1. ASSUME NEW x PROVE FatBytes(x)' = FatBytes(x)
  <2>1. ss' = ss
    BY SectorsStay
  <2> QED BY <2>1 DEF FatBytes
<1>2. ASSUME NEW B, NEW c PROVE EntryOf(B, c)' = EntryOf(B, c)
  <2>1. Bytes' = Bytes /\ FatOffset(c)' = FatOffset(c)
    BY SectorsStay DEF FatOffset
  <2>2. ASSUME NEW b PROVE FatEntry(c, b)' = FatEntry(c, b)
    <3>1. CASE fs.fs_type = "FAT32"
      BY <3>1 DEF FatEntry
    <3>2. CASE fs.fs_type = "FAT16"
      BY <3>2 DEF FatEntry
    <3>3. CASE fs.fs_type \notin {"FAT16", "FAT32"}
      BY <3>3 DEF FatEntry
    <3> QED BY <3>1, <3>2, <3>3
  <2>3. PICK b : b = [i \in Bytes |-> B[FatOffset(c) + i]]
    OBVIOUS
  <2>4. EntryOf(B, c)' = FatEntry(c, b)'
    BY <2>1, <2>3 DEF EntryOf
  <2>5. EntryOf(B, c) = FatEntry(c, b)
    BY <2>3 DEF EntryOf
  <2> QED BY <2>2, <2>4, <2>5
<1> QED BY <1>1, <1>2

LEMMA FatIsSame ==
    ASSUME drive' = drive, fs' = fs
    PROVE  \A t : BytesSeen(t)' = BytesSeen(t) /\ Fat(t)' = Fat(t)
<1>1. FatPlaces' = FatPlaces /\ Clusters' = Clusters
  BY SectorsStay
<1>2. ASSUME NEW t PROVE BytesSeen(t)' = BytesSeen(t)
  <2>1. \A x : FatBytes(x)' = FatBytes(x)
    BY EntryStays
  <2> QED BY <1>1, <2>1 DEF BytesSeen
<1>3. ASSUME NEW t PROVE Fat(t)' = Fat(t)
  <2> DEFINE B == BytesSeen(t)
  <2>1. B' = B
    BY <1>2
  <2>2. \A X, c : EntryOf(X, c)' = EntryOf(X, c)
    BY EntryStays
  <2>3. Fat(t) = [c \in Clusters |-> EntryOf(B, c)]
    BY DEF Fat
  <2>4. Fat(t)' = [c \in Clusters |-> EntryOf(B, c)']
    BY <1>1, <2>1 DEF Fat
  <2> HIDE DEF B
  <2> QED BY <2>1, <2>2, <2>3, <2>4
<1> QED BY <1>2, <1>3

\* So a memory is as sane as it was, whose first sectors are the disk's.
LEMMA GroundedStays ==
    ASSUME drive' = drive, fs' = fs
    PROVE  \A t, f, h : Grounded(t, f, h)' = Grounded(t, f, h)
<1>1. /\ ss' = ss /\ Slots' = Slots /\ Clusters' = Clusters /\ Rooted' = Rooted /\ Mark' = Mark
      /\ \A s : FatSector(s)' = FatSector(s) /\ TableSector(s)' = TableSector(s)
  BY SectorsStay
<1>2. ASSUME NEW t PROVE Coherent(t)' = Coherent(t)
  <2>1. \A x : FatBytes(x)' = FatBytes(x)
    BY EntryStays
  <2> QED BY <1>1, <2>1 DEF Coherent
<1>3. ASSUME NEW t PROVE TablesFit(t)' = TablesFit(t)
  <2>1. ASSUME NEW x PROVE Tabular(x)' = Tabular(x)
    BY <1>1 DEF Tabular
  <2> QED BY <1>1, <2>1 DEF TablesFit
<1>4. ASSUME NEW t, NEW f PROVE FileFits(t, f)' = FileFits(t, f)
  BY <1>1 DEF FileFits
<1>5. ASSUME NEW t PROVE Whole(t)' = Whole(t)
  BY DEF Whole
<1>6. ASSUME NEW t, NEW s, NEW i, NEW c PROVE Claims(t, s, i, c)' = Claims(t, s, i, c)
  BY <1>1 DEF Claims
<1>7. ASSUME NEW t, NEW h PROVE Alone(t, h)' = Alone(t, h)
  BY <1>1, <1>6 DEF Alone
<1>8. ASSUME NEW t, NEW h, NEW c PROVE Owned(t, h, c)' = Owned(t, h, c)
  BY <1>1, <1>6 DEF Owned
<1>9. ASSUME NEW t, NEW h PROVE Linked(t, h)' = Linked(t, h)
  <2>1. ASSUME NEW F, NEW J, NEW b PROVE Chained(F, J, b)' = Chained(F, J, b)
    <3>1. ASSUME NEW n PROVE Ends(b, n)' = Ends(b, n)
      BY <1>1 DEF Ends
    <3> QED BY <1>1, <3>1 DEF Chained
  <2>2. ASSUME NEW F, NEW J, NEW c PROVE Begins(F, J, c)' = Begins(F, J, c)
    BY <1>1 DEF Begins
  <2>3. Fat(t)' = Fat(t)
    BY FatIsSame
  <2> QED BY <1>1, <1>8, <2>1, <2>2, <2>3 DEF Linked
<1>10. ASSUME NEW t, NEW f, NEW h PROVE Grounded(t, f, h)' = Grounded(t, f, h)
  BY <1>2, <1>3, <1>4, <1>5, <1>7, <1>9 DEF Grounded
<1> QED BY <1>10

LEMMA ProperStays ==
    ASSUME drive' = drive, fs' = fs, NEW t, NEW f, NEW q, Proper(t, f, q), t.disk = disk'
    PROVE  Proper(t, f, q)'
<1>1. /\ Clusters' = Clusters /\ VolumeEnd' = VolumeEnd
      /\ \A s : /\ FatSector(s)' = FatSector(s) /\ TableSector(s)' = TableSector(s)
                /\ DataSector(s)' = DataSector(s)
  BY SectorsStay
<1>2. ASSUME NEW s, NEW x PROVE Holds(s, x)' = Holds(s, x)
  BY <1>1 DEF Holds
<1> QED BY <1>1, <1>2 DEF Proper

LEMMA FiledStays ==
    ASSUME drive' = drive, fs' = fs
    PROVE  NoFile' = NoFile /\ \A f : Filed(f)' = Filed(f)
<1>1. /\ NoFile' = NoFile /\ Clusters' = Clusters /\ Slots' = Slots
      /\ \A s : TableSector(s)' = TableSector(s) /\ DataSector(s)' = DataSector(s)
  BY SectorsStay
<1>2. ASSUME NEW f PROVE Filed(f)' = Filed(f)
  BY <1>1 DEF Filed
<1> QED BY <1>1, <1>2

-----------------------------------------------------------------------------
(* Between two calls.                                                      *)

LEMMA MemoryIs ==
    /\ DOMAIN Memory = Fields /\ Memory.disk = disk /\ Memory.win = mem.win
    /\ Memory.winsect = mem.winsect /\ Memory.wflag = mem.wflag
    /\ Memory.last_clst = mem.last_clst /\ Memory.fsi = mem.fsi
    /\ Memory.fp = fp /\ Memory.broken = broken
    /\ DOMAIN Memory.dp = {"sclust", "dptr", "sect", "clust", "fn"} /\ Memory.dp.sect = 0
BY DEF Memory, Fields

LEMMA SettledWalks ==
    ASSUME Areas, Settled
    PROVE  /\ Sane(Memory, fp, Memory.dp, Held(fp)) /\ Walks(Memory, fp, Held(fp))
           /\ Memory.fp = fp
<1>1. Sane(Memory, fp, Memory.dp, Held(fp)) /\ Placed(Memory.dp)
  BY MemoryIs DEF Settled, Placed
<1> QED BY <1>1, MemoryIs DEF Walks

\* What a step leaves of a memory.
Left(u) ==
    /\ disk' = u.disk /\ broken' = u.broken
    /\ mem'.win = u.win /\ mem'.winsect = u.winsect /\ mem'.wflag = u.wflag
    /\ mem'.last_clst = u.last_clst /\ mem'.fsi = u.fsi

LEMMA NoFileHolds ==
    ASSUME Areas
    PROVE  Held(NoFile) = {} /\ \A t : FileFits(t, NoFile)
<1>1. NoFile.dir_sect = 0 /\ NoFile.sclust = 0
  BY DEF NoFile
<1>2. ~TableSector(0)
  BY DEF TableSector, Areas
<1> QED BY <1>1, <1>2 DEF Held, FileFits

\* A memory that is sane leaves a settled disk, and what says where the
\* volume lies as it was; the file object may be forgotten.
LEMMA LeavesSettled ==
    ASSUME Areas, NEW u, NEW f, NEW q, NEW h, Sane(u, f, q, h), Left(u),
           NEW g, fp' = g, g = f \/ g = NoFile, Held(g) \subseteq h, drive' = drive, fs' = fs
    PROVE  Settled' /\ \A s \in {0, 63} : SectorAt(disk', s) = SectorAt(disk, s)
<1>1. PICK v : v = Memory'
  OBVIOUS
<1>2. /\ DOMAIN v = Fields /\ v.disk = u.disk /\ v.win = u.win /\ v.winsect = u.winsect
      /\ v.wflag = u.wflag /\ v.last_clst = u.last_clst /\ v.fsi = u.fsi
      /\ v.fp = g /\ v.broken = u.broken /\ v.disk = disk'
  <2>1. (/\ DOMAIN Memory = Fields /\ Memory.disk = disk /\ Memory.win = mem.win
         /\ Memory.winsect = mem.winsect /\ Memory.wflag = mem.wflag
         /\ Memory.last_clst = mem.last_clst /\ Memory.fsi = mem.fsi
         /\ Memory.fp = fp /\ Memory.broken = broken)'
    BY MemoryIs, PTL
  <2> QED BY <1>1, <2>1 DEF Left, Fields
<1>3. Proper(u, f, q)
  BY DEF Sane
<1>4. Proper(v, g, v.dp) /\ Quiet(u, v)
  BY <1>2, <1>3 DEF Proper, Quiet, NewIn, Shows, Weakens
<1> DEFINE k == Held(g)
<1>5. Grounded(u, f, k)
  BY HoldsLess DEF Sane
<1>6. Grounded(u, g, k)
  BY <1>5, NoFileHolds DEF Grounded
<1> HIDE DEF k
<1>7. Grounded(v, g, k)
  BY <1>4, <1>6, QuietGrounded
<1>8. Grounded(v, g, k)'
  BY <1>7, GroundedStays
<1>9. Proper(v, g, v.dp)'
  BY <1>2, <1>4, ProperStays
<1>10. Settled'
  BY <1>1, <1>8, <1>9 DEF Settled, Sane, k, Held
<1>11. \A s \in {0, 63} : SectorAt(disk', s) = SectorAt(disk, s)
  BY <1>3 DEF Proper, Left
<1> QED BY <1>10, <1>11

LEMMA StaysSettled ==
    ASSUME Areas, Settled, disk' = disk, mem' = mem, broken' = broken, fs' = fs, drive' = drive,
           fp' = fp \/ fp' = NoFile
    PROVE  Settled'
<1>1. PICK u, f : u = Memory /\ f = fp
  OBVIOUS
<1>2. Sane(u, f, u.dp, Held(f)) /\ Left(u)
  BY <1>1, MemoryIs DEF Settled, Left
<1>3. PICK g : g = fp'
  OBVIOUS
<1>4. Held(g) \subseteq Held(f)
  BY <1>1, <1>3, NoFileHolds
<1>5. g = f \/ g = NoFile
  BY <1>1, <1>3
<1> QED BY <1>2, <1>3, <1>4, <1>5, LeavesSettled

LEMMA PathsAre ==
    ASSUME drive \in Drives, todo \subseteq drive.folder, NEW e \in todo
    PROVE  PathOf(e) \in Seq(0 .. 255) /\ e.blocks \in Seq(Nat)
<1>1. e.dir \in Seq(0 .. 255) /\ e.name \in Seq(0 .. 255) /\ e.blocks \in Seq(Nat)
  BY FolderAssumption
<1> DEFINE S == 0 .. 255
           d == e.dir
           n == e.name
           sep == <<47>>
<1>2. sep \in Seq(S) /\ d \in Seq(S) /\ n \in Seq(S)
  BY <1>1
<1> HIDE DEF S, d, n, sep
<1>3. d \o sep \o n \in Seq(S)
  BY <1>2
<1> QED BY <1>1, <1>2, <1>3 DEF PathOf, S, d, n, sep

-----------------------------------------------------------------------------
(* f_mkfs and the mount leave a settled volume.                            *)

\* The first sector of the FAT: the entries of no cluster, and FAT32's root.
FirstBytes(type, B) ==
    /\ B \in [0 .. 511 -> 0 .. 255]
    /\ \A i \in 0 .. 511 :
          12 <= i \/ (type = "FAT12" /\ 3 <= i) \/ (type = "FAT16" /\ 4 <= i) => B[i] = 0
    /\ type = "FAT32" => B[8] = 255 /\ B[9] = 255 /\ B[10] = 255 /\ B[11] = 15

LEMMA FirstFatIs ==
    ASSUME IsReal(drive), mk.fsty \in {"FAT12", "FAT16", "FAT32"}
    PROVE  DOMAIN FirstFat = {0} /\ \E B : FirstFat[0] = <<"fat", B>> /\ FirstBytes(mk.fsty, B)
<1> DEFINE type == mk.fsty
           set == CASE type = "FAT12" -> <<248, 255, 255>>
                    [] type = "FAT16" -> <<248, 255, 255, 255>>
                    [] OTHER -> <<248, 255, 255, 255, 255, 255, 255, 255, 255, 255, 255, 15>>
           n == Len(set)
           Byte(i) == IF i < n THEN set[i + 1] ELSE 0
           B == [i \in 0 .. 511 |-> Byte(i)]
<1>1. FirstFat = [k \in 0 .. CeilDiv(n, 512) - 1 |->
                     <<"fat", [i \in 0 .. 511 |-> Byte(k * 512 + i)]>>]
  BY DEF FirstFat, IsReal
<1>2. FirstBytes(type, B)
  <2>1. CASE type = "FAT12"
    <3>1. set = <<248, 255, 255>>
      BY <2>1
    <3> HIDE DEF set
    <3> QED BY <2>1, <3>1 DEF FirstBytes
  <2>2. CASE type = "FAT16"
    <3>1. set = <<248, 255, 255, 255>>
      BY <2>2
    <3> HIDE DEF set
    <3> QED BY <2>2, <3>1 DEF FirstBytes
  <2>3. CASE type = "FAT32"
    <3>1. set = <<248, 255, 255, 255, 255, 255, 255, 255, 255, 255, 255, 15>>
      BY <2>3
    <3> HIDE DEF set
    <3>2. n = 12 /\ \A i \in 1 .. 12 : set[i] \in 0 .. 255
      BY <3>1
    <3>3. set[9] = 255 /\ set[10] = 255 /\ set[11] = 255 /\ set[12] = 15
      BY <3>1
    <3>4. \A i \in 0 .. 511 : i < 12 => i + 1 \in 1 .. 12
      OBVIOUS
    <3>5. B \in [0 .. 511 -> 0 .. 255]
      BY <3>2, <3>4
    <3>6. \A i \in 0 .. 511 : 12 <= i => B[i] = 0
      BY <3>2
    <3>7. B[8] = 255 /\ B[9] = 255 /\ B[10] = 255 /\ B[11] = 15
      BY <3>2, <3>3
    <3> QED BY <2>3, <3>5, <3>6, <3>7 DEF FirstBytes
  <2> QED BY <2>1, <2>2, <2>3
<1>3. n \in {3, 4, 12}
  OBVIOUS
<1> HIDE DEF n, set
<1>4. CeilDiv(n, 512) = 1
  BY <1>3 DEF CeilDiv
<1>5. 0 .. CeilDiv(n, 512) - 1 = {0}
  BY <1>4
<1>6. FirstFat[0] = <<"fat", [i \in 0 .. 511 |-> Byte(0 * 512 + i)]>>
  BY <1>1, <1>5
<1>7. [i \in 0 .. 511 |-> Byte(0 * 512 + i)] = B
  OBVIOUS
<1> HIDE DEF Byte, B
<1> QED BY <1>1, <1>2, <1>5, <1>6, <1>7

LEMMA MadeFormatted ==
    ASSUME \A d \in Drives : IsReal(d), LayoutInv, CreateVolume, phase' = "mount"
    PROVE  Formatted'
<1>1. IsReal(drive) /\ Made(mk) /\ mk' = mk
  BY DEF LayoutInv, CreateVolume
<1> DEFINE type == mk.fsty
           rsv == mk.sz_rsv
           infos == IF type = "FAT32" THEN {64, 70} ELSE {}
           records == {63} \cup (IF type = "FAT32" THEN {69} ELSE {})
<1>2. /\ mk.b_vol = 63 /\ rsv \in Nat /\ 1 <= rsv /\ (type = "FAT32" => 32 <= rsv)
  BY <1>1 DEF Made, BehindTrack
<1>3. DOMAIN FirstFat = {0} /\ mk' = mk /\ drive' = drive
  BY <1>1, FirstFatIs DEF Made, CreateVolume
<1>4. PICK lost \in SUBSET Unchecked :
          disk' = [s \in ({0} \cup records \cup infos \cup {63 + rsv}) \ lost |->
                 CASE s = 0 -> <<"mbr", Partition>>
                   [] s \in records -> <<"vbr", BootRecord>>
                   [] s \in infos -> FsInfo(mk.n_clst - 1, 2)
                   [] OTHER -> FirstFat[s - (63 + rsv)]]
  <2> DEFINE fat == {63 + rsv + k : k \in DOMAIN FirstFat}
  <2>1. fat = {63 + rsv}
    BY <1>2, <1>3
  <2>2. PICK lost \in SUBSET (IF drive.sound THEN {} ELSE Unchecked) :
            disk' = [s \in ({0} \cup records \cup infos \cup fat) \ lost |->
                   CASE s = 0 -> <<"mbr", Partition>>
                     [] s \in records -> <<"vbr", BootRecord>>
                     [] s \in infos -> FsInfo(mk.n_clst - 1, 2)
                     [] OTHER -> FirstFat[s - (63 + rsv)]]
    <3> DEFINE b == mk.b_vol
               notes == IF type = "FAT32" THEN {b + 1, b + 7} ELSE {}
               copies == {b} \cup (IF type = "FAT32" THEN {b + 6} ELSE {})
               first == {b + rsv + k : k \in DOMAIN FirstFat}
    <3>1. PICK lost \in SUBSET (IF drive.sound THEN {} ELSE Unchecked) :
              disk' = [s \in ({0} \cup copies \cup notes \cup first) \ lost |->
                     CASE s = 0 -> <<"mbr", Partition>>
                       [] s \in copies -> <<"vbr", BootRecord>>
                       [] s \in notes -> FsInfo(mk.n_clst - 1, 2)
                       [] OTHER -> FirstFat[s - (b + rsv)]]
      BY DEF CreateVolume
    <3>2. b = 63 /\ notes = infos /\ copies = records /\ first = fat
      BY <1>2
    <3> HIDE DEF b, notes, copies, first, infos, records, fat
    <3> QED BY <3>1, <3>2
  <2>3. lost \in SUBSET Unchecked
    BY <2>2
  <2> HIDE DEF fat
  <2> QED BY <2>1, <2>2, <2>3
<1>5. (63 + rsv) - (63 + rsv) = 0 /\ 63 + rsv \notin {0} \cup records \cup infos
      /\ 63 + rsv \notin lost
  <2>1. lost \subseteq {64, 69, 70} /\ (type # "FAT32" => lost = {})
    BY <1>2, <1>4 DEF Unchecked
  <2>2. type = "FAT32" => 70 < 63 + rsv
    BY <1>2
  <2> QED BY <1>2, <2>1, <2>2
<1> HIDE DEF rsv
<1>6. ASSUME NEW s \in DOMAIN disk'
      PROVE  \/ s \in Nat /\ s < 63 + rsv /\ disk'[s][1] \in {"mbr", "vbr", "fsinfo"}
             \/ s = 63 + rsv
  <2>1. s \in {0} \cup records \cup infos \cup {63 + rsv}
    BY <1>4
  <2>2. CASE s = 63 + rsv
    BY <2>2
  <2>3. CASE s \in {0} \cup records \cup infos
    <3>1. s \in {0, 63, 69, 64, 70} /\ (s \notin {0, 63} => type = "FAT32")
      BY <2>3
    <3>2. s \in Nat /\ s < 63 + rsv
      BY <1>2, <3>1
    <3>3. disk'[s] = (CASE s = 0 -> <<"mbr", Partition>>
                        [] s \in records -> <<"vbr", BootRecord>>
                        [] s \in infos -> FsInfo(mk.n_clst - 1, 2)
                        [] OTHER -> FirstFat[s - (63 + rsv)])
      BY <1>4, <2>1
    <3>4. disk'[s][1] \in {"mbr", "vbr", "fsinfo"}
      BY <2>3, <3>3 DEF FsInfo
    <3> QED BY <3>2, <3>4
  <2> HIDE DEF records, infos
  <2> QED BY <2>1, <2>2, <2>3
<1>7. type = "FAT32" /\ 64 \in DOMAIN disk' => disk'[64] = FsInfo(mk.n_clst - 1, 2)
  <2> SUFFICES ASSUME type = "FAT32", 64 \in DOMAIN disk'
               PROVE  disk'[64] = FsInfo(mk.n_clst - 1, 2)
    OBVIOUS
  <2>1. 64 # 0 /\ 64 \notin records /\ 64 \in infos
    OBVIOUS
  <2> HIDE DEF records, infos
  <2>2. disk'[64] = FsInfo(mk.n_clst - 1, 2)
    BY <1>4, <2>1
  <2> QED BY <2>2
<1>8. SectorAt(disk', 63 + rsv) = FirstFat[0]
  <2> HIDE DEF records, infos
  <2>1. PICK s : s = 63 + rsv
    OBVIOUS
  <2>2. s \notin {0} \cup records \cup infos /\ s - (63 + rsv) = 0
    BY <1>5, <2>1, Zenon
  <2>3. s # 0 /\ s \notin records /\ s \notin infos
    BY <2>2
  <2>4. disk'[s] = FirstFat[s - (63 + rsv)]
    <3>1. s \in ({0} \cup records \cup infos \cup {63 + rsv}) \ lost
      BY <1>5, <2>1
    <3> QED BY <1>4, <2>3, <3>1
  <2>5. s \in DOMAIN disk'
    BY <1>4, <1>5, <2>1
  <2>6. SectorAt(disk', s) = FirstFat[0]
    BY <2>2, <2>4, <2>5 DEF SectorAt
  <2> QED BY <2>1, <2>6, Zenon
<1>9. FirstFat' = FirstFat
  BY <1>3 DEF FirstFat
<1> QED BY <1>1, <1>6, <1>7, <1>8, <1>9 DEF Formatted, SectorAt, FsInfo, rsv

\* Its clusters are free, but for the root of FAT32.
FirstEntry(c) == IF fs.fs_type = "FAT32" /\ c = 2 THEN Mark ELSE 0

LEMMA FirstEntriesAre ==
    ASSUME Areas, NEW B, FirstBytes(fs.fs_type, B), NEW X \in [FatPlaces -> 0 .. 255],
           \A b \in FatPlaces : X[b] = IF b < 512 THEN B[b] ELSE 0, NEW c \in Clusters
    PROVE  EntryOf(X, c) = FirstEntry(c)
<1> DEFINE o == FatOffset(c)
<1>1. c \in Nat /\ 2 <= c
  BY DEF Clusters, Areas
<1>2. \A i \in 0 .. 511 :
         12 <= i \/ (fs.fs_type = "FAT12" /\ 3 <= i) \/ (fs.fs_type = "FAT16" /\ 4 <= i) => B[i] = 0
  BY DEF FirstBytes
<1>3. /\ o \in Nat /\ o \in FatPlaces /\ o + 1 \in FatPlaces
      /\ fs.fs_type = "FAT32" => o + 2 \in FatPlaces /\ o + 3 \in FatPlaces
  BY EntryPlaces
<1>4. EntryOf(X, c) = IF fs.fs_type = "FAT32"
                      THEN X[o] + 256 * X[o + 1] + 65536 * (X[o + 2] + 256 * (X[o + 3] % 16))
                      ELSE IF fs.fs_type = "FAT16" THEN X[o] + 256 * X[o + 1]
                      ELSE IF c % 2 = 1 THEN X[o] \div 16 + 16 * X[o + 1]
                      ELSE X[o] + 256 * (X[o + 1] % 16)
  BY EntryIs
<1>5. ASSUME NEW b \in FatPlaces,
             12 <= b \/ (fs.fs_type = "FAT12" /\ 3 <= b) \/ (fs.fs_type = "FAT16" /\ 4 <= b)
      PROVE  X[b] = 0
  <2>1. b \in Nat
    BY DEF FatPlaces, Areas
  <2>2. b < 512 => b \in 0 .. 511
    BY <2>1
  <2>3. b < 512 => B[b] = 0
    BY <1>2, <1>5, <2>2
  <2>4. X[b] = IF b < 512 THEN B[b] ELSE 0
    OBVIOUS
  <2> QED BY <2>3, <2>4
<1>6. CASE fs.fs_type = "FAT12"
  <2>1. 3 <= o
    BY <1>1, <1>6 DEF FatOffset
  <2> HIDE DEF o
  <2>2. X[o] = 0 /\ X[o + 1] = 0
    BY <1>3, <1>5, <1>6, <2>1
  <2>3. EntryOf(X, c) = IF c % 2 = 1 THEN 0 \div 16 + 16 * 0 ELSE 0 + 256 * (0 % 16)
    BY <1>4, <1>6, <2>2
  <2>4. 0 \div 16 + 16 * 0 = 0 /\ 0 + 256 * (0 % 16) = 0
    OBVIOUS
  <2> QED BY <1>6, <2>3, <2>4 DEF FirstEntry
<1>7. CASE fs.fs_type = "FAT16"
  <2>1. 4 <= o
    BY <1>1, <1>7 DEF FatOffset
  <2> HIDE DEF o
  <2>2. X[o] = 0 /\ X[o + 1] = 0
    BY <1>3, <1>5, <1>7, <2>1
  <2> QED BY <1>4, <1>7, <2>2 DEF FirstEntry
<1>8. CASE fs.fs_type = "FAT32" /\ c # 2
  <2>1. 12 <= o
    BY <1>1, <1>8 DEF FatOffset
  <2> HIDE DEF o
  <2>2. X[o] = 0 /\ X[o + 1] = 0 /\ X[o + 2] = 0 /\ X[o + 3] = 0
    BY <1>3, <1>5, <1>8, <2>1
  <2> QED BY <1>4, <1>8, <2>2 DEF FirstEntry
<1>9. CASE fs.fs_type = "FAT32" /\ c = 2
  <2>1. o = 8
    BY <1>9 DEF FatOffset
  <2>2. B[8] = 255 /\ B[9] = 255 /\ B[10] = 255 /\ B[11] = 15
    BY <1>9 DEF FirstBytes
  <2>3. X[8] = 255 /\ X[8 + 1] = 255 /\ X[8 + 2] = 255 /\ X[8 + 3] = 15
    BY <1>3, <1>9, <2>1, <2>2
  <2>4. EntryOf(X, c) = X[8] + 256 * X[8 + 1] + 65536 * (X[8 + 2] + 256 * (X[8 + 3] % 16))
    BY <1>4, <1>9, <2>1
  <2>5. FirstEntry(c) = 268435455
    BY <1>9 DEF FirstEntry, Mark
  <2>6. 255 + 256 * 255 + 65536 * (255 + 256 * (15 % 16)) = 268435455
    OBVIOUS
  <2> QED BY <2>3, <2>4, <2>5, <2>6
<1> QED BY <1>6, <1>7, <1>8, <1>9 DEF Areas

LEMMA FirstChains ==
    ASSUME Areas, NEW F, \A c \in Clusters : F[c] = FirstEntry(c), NEW b
    PROVE  Chained(F, {}, b) /\ \A c \in Rooted : Begins(F, {}, c)
<1>1. Ends(b, Mark) /\ Mark \notin Clusters /\ Mark # 0 /\ 0 \notin Clusters
  BY MarkEnds, ClustersAre
<1>2. \A c \in Clusters : F[c] \notin Clusters /\ (F[c] = 0 \/ Ends(b, F[c]))
  BY <1>1 DEF FirstEntry
<1>3. \A c \in Rooted : c = 2 /\ fs.fs_type = "FAT32"
  BY DEF Rooted, RootChain, Areas
<1>4. \A c \in Rooted : c \in Clusters /\ F[c] # 0
  BY <1>1, <1>3, ClustersAre DEF FirstEntry
<1> QED BY <1>2, <1>4 DEF Chained, Begins

\* The memory behind mount_volume.
JustMounted ==
    /\ mem.winsect # NoSector =>
          mem.winsect \in {63, 64} /\ (mem.winsect = 64 => fs.fs_type = "FAT32")
    /\ mem.wflag = FALSE
    /\ mem.last_clst \in {2, Unknown}
    /\ mem.fsi # "none" => fs.fs_type = "FAT32"

\* The areas of the volume that f_mkfs laid out.
LEMMA MountedAreas ==
    ASSUME \A d \in Drives : IsReal(d), LayoutInv, phase = "ready"
    PROVE  /\ Areas /\ Written /\ IsReal(drive)
           /\ fs.fatbase = 63 + mk.sz_rsv /\ fs.fs_type = mk.fsty
           /\ mk.fsty \in {"FAT12", "FAT16", "FAT32"}
           /\ fs.fatbase \in Nat /\ fs.fsize \in Nat /\ 1 <= fs.fsize /\ 63 < fs.fatbase
           /\ fs.database \in Nat /\ VolumeEnd \in Nat
           /\ fs.fatbase + fs.fsize <= fs.database /\ fs.database <= VolumeEnd
           /\ fs.fs_type = "FAT32" => 70 < fs.fatbase
<1>1. Areas
  BY AreasFollow
<1>2. IsReal(drive) /\ Made(mk) /\ Written /\ fs = Geometry(BootRecord, 63)
  BY DEF LayoutInv
<1>3. fs.fatbase = 63 + mk.sz_rsv /\ fs.fsize = mk.sz_fat /\ fs.fs_type = mk.fsty
  BY <1>2, GeometryIs
<1>4. mk.sz_fat \in Nat \ {0} /\ mk.fsty \in {"FAT12", "FAT16", "FAT32"}
  BY <1>2 DEF Made
<1>5. fs.database <= VolumeEnd
  BY <1>1, SectorsEnd
<1>6. fs.fatbase + fs.fsize <= fs.database
  BY <1>1 DEF Areas
<1> QED BY <1>1, <1>2, <1>3, <1>4, <1>5, <1>6 DEF Areas

LEMMA MountedProper ==
    ASSUME \A d \in Drives : IsReal(d), LayoutInv, phase = "ready", Formatted, JustMounted
    PROVE  Proper(Memory, fp, Memory.dp)
<1>1. /\ Areas /\ Written
      /\ fs.fatbase = 63 + mk.sz_rsv /\ fs.fs_type = mk.fsty
      /\ mk.fsty \in {"FAT12", "FAT16", "FAT32"}
      /\ fs.fatbase \in Nat /\ fs.fsize \in Nat /\ 1 <= fs.fsize /\ 63 < fs.fatbase
      /\ fs.database \in Nat /\ VolumeEnd \in Nat
      /\ fs.fatbase + fs.fsize <= fs.database /\ fs.database <= VolumeEnd
      /\ fs.fs_type = "FAT32" => 70 < fs.fatbase
      /\ IsReal(drive)
  BY MountedAreas
<1>2. ASSUME NEW s \in Nat, s < fs.fatbase, NEW x, x[1] \in {"mbr", "vbr", "fsinfo"}
      PROVE  Holds(s, x)
  BY <1>1, <1>2 DEF Holds, FatSector, TableSector, DataSector
<1>3. ASSUME NEW s \in DOMAIN disk PROVE Holds(s, disk[s])
  <2>1. CASE s \in Nat /\ s < 63 + mk.sz_rsv /\ disk[s][1] \in {"mbr", "vbr", "fsinfo"}
    BY <1>1, <1>2, <2>1
  <2>2. CASE s = 63 + mk.sz_rsv
    <3>1. s = fs.fatbase /\ disk[s] = FirstFat[0]
      BY <1>1, <2>2 DEF Formatted, SectorAt
    <3>2. disk[s][1] = "fat"
      BY <1>1, <3>1, FirstFatIs
    <3> QED BY <1>1, <3>1, <3>2 DEF Holds, FatSector, TableSector, DataSector
  <2> QED BY <2>1, <2>2 DEF Formatted
<1>4. mem.winsect \in {NoSector} \cup 0 .. fs.fatbase - 1
  BY <1>1 DEF JustMounted
<1>5. mem.last_clst \in Clusters \cup {Unknown}
  BY <1>1, ClustersAre DEF JustMounted
<1> QED BY <1>3, <1>4, <1>5, MemoryIs DEF Proper, JustMounted

LEMMA MountedSettled ==
    ASSUME \A d \in Drives : IsReal(d), LayoutInv, phase = "ready", Formatted, JustMounted,
           fp = NoFile
    PROVE  Settled
<1>1. /\ Areas /\ fs.fatbase = 63 + mk.sz_rsv /\ fs.fs_type = mk.fsty
      /\ mk.fsty \in {"FAT12", "FAT16", "FAT32"}
      /\ fs.fatbase \in Nat /\ fs.fsize \in Nat /\ 1 <= fs.fsize /\ 63 < fs.fatbase
      /\ fs.fs_type = "FAT32" => 70 < fs.fatbase
      /\ IsReal(drive)
  BY MountedAreas
<1>2. ss = 512 /\ Slots = 16 /\ NoSector \in Nat /\ VolumeEnd <= NoSector /\ VolumeEnd \in Nat
  BY <1>1, SectorsEnd DEF Areas
<1>3. PICK B : FirstFat[0] = <<"fat", B>> /\ FirstBytes(fs.fs_type, B)
  BY <1>1, FirstFatIs
<1>4. ASSUME NEW s, FatSector(s) \/ TableSector(s)
      PROVE  /\ s # Memory.winsect
             /\ SectorAt(disk, s) = IF s = fs.fatbase THEN <<"fat", B>> ELSE ZeroSector
  <2>1. s \in Nat /\ fs.fatbase <= s
    BY <1>1, <1>4 DEF FatSector, TableSector
  <2>2. s < VolumeEnd
    <3>1. fs.fatbase + fs.fsize <= VolumeEnd
      BY MountedAreas
    <3> QED BY <1>1, <1>2, <1>4, <3>1 DEF FatSector, TableSector
  <2>3. s # mem.winsect
    BY <1>1, <1>2, <2>1, <2>2 DEF JustMounted
  <2>4. CASE s = fs.fatbase
    BY <1>1, <1>3, <2>3, <2>4, MemoryIs DEF Formatted
  <2>5. CASE s # fs.fatbase
    <3>1. s \notin DOMAIN disk
      BY <1>1, <2>1, <2>5 DEF Formatted
    <3> QED BY <2>3, <2>5, <3>1, MemoryIs DEF SectorAt
  <2> QED BY <2>4, <2>5
<1> DEFINE t == Memory
           First(s) == IF s = fs.fatbase THEN <<"fat", B>> ELSE ZeroSector
<1>5. t.disk = disk /\ t.fp = fp
  BY MemoryIs
<1> HIDE DEF t
<1>6. ASSUME NEW s, FatSector(s) \/ TableSector(s), NEW x, Shows(t, s, x)
      PROVE  x = First(s)
  BY <1>4, <1>5, <1>6 DEF Shows, t
<1>7. ASSUME NEW s, FatSector(s) PROVE Seen(t, s) = First(s)
  BY <1>4, <1>5, <1>7 DEF Seen, t
<1>8. ASSUME NEW s, TableSector(s) PROVE First(s)[1] = "zero"
  BY <1>1, <1>8 DEF TableSector, ZeroSector
<1>9. B \in [0 .. 511 -> 0 .. 255]
  BY <1>3 DEF FirstBytes
<1>10. \A i \in 0 .. 511 : B[i] \in 0 .. 255
  BY <1>9, Zenon
<1> DEFINE Z == [i \in 0 .. 511 |-> 0]
<1>11. /\ FatBytes(<<"fat", B>>) = B /\ FatBytes(ZeroSector) = Z
       /\ \A i \in 0 .. 511 : Z[i] = 0
  BY <1>2 DEF FatBytes, ZeroSector
<1>12. Z \in [0 .. 511 -> 0 .. 255]
  OBVIOUS
<1> HIDE DEF Z, First
<1>13. Coherent(t)
  <2>1. ASSUME NEW s, FatSector(s) PROVE FatBytes(Seen(t, s)) \in [0 .. 511 -> 0 .. 255]
    <3>1. Seen(t, s) \in {<<"fat", B>>, ZeroSector}
      BY <1>7, <2>1 DEF First
    <3>2. FatBytes(Seen(t, s)) \in {B, Z}
      BY <1>11, <3>1
    <3> QED BY <1>9, <1>12, <3>2, Zenon
  <2>2. \A s : FatSector(s) => \A x : Shows(t, s, x) => x = Seen(t, s)
    BY <1>6, <1>7
  <2>3. ss - 1 = 511
    BY <1>2
  <2> QED BY <2>1, <2>2, <2>3 DEF Coherent
<1>14. ASSUME NEW s, NEW x, TableSector(s), Shows(t, s, x), x[1] = "dir" PROVE FALSE
  BY <1>6, <1>8, <1>14
<1>15. TablesFit(t) /\ FileFits(t, NoFile) /\ \A s, i, c : ~Claims(t, s, i, c)
  BY <1>1, <1>14, NoFileHolds DEF TablesFit, Claims
<1>16. Alone(t, {})
  BY <1>15 DEF Alone
<1> DEFINE X == BytesSeen(t)
<1>17. ASSUME NEW b \in FatPlaces PROVE X[b] = IF b < 512 THEN B[b] ELSE 0
  <2> DEFINE s == fs.fatbase + b \div 512
             i == b % 512
  <2>1. /\ b \in Nat /\ b < 512 * fs.fsize
        /\ b \div 512 \in Nat /\ b \div 512 < fs.fsize /\ i \in 0 .. 511
    BY <1>1 DEF FatPlaces
  <2>2. FatSector(s)
    BY <1>1, <2>1 DEF FatSector
  <2>3. X[b] = FatBytes(Seen(t, s))[i]
    BY DEF BytesSeen
  <2>4. CASE b < 512
    <3>1. b \div 512 = 0 /\ i = b
      BY <2>1, <2>4
    <3>2. s = fs.fatbase
      BY <1>1, <3>1
    <3> HIDE DEF s, i, X
    <3> QED BY <1>7, <1>11, <2>2, <2>3, <2>4, <3>1, <3>2 DEF First
  <2>5. CASE ~(b < 512)
    <3>1. s # fs.fatbase
      BY <1>1, <2>1, <2>5
    <3> HIDE DEF s, i, X
    <3>2. i \in 0 .. 511
      BY <2>1
    <3> QED BY <1>7, <1>11, <2>2, <2>3, <2>5, <3>1, <3>2 DEF First
  <2> QED BY <2>4, <2>5
<1>18. X \in [FatPlaces -> 0 .. 255]
  <2>1. X = [b \in FatPlaces |-> X[b]]
    BY DEF BytesSeen
  <2>2. ASSUME NEW b \in FatPlaces PROVE X[b] \in 0 .. 255
    <3>1. b \in Nat
      BY DEF FatPlaces
    <3>2. b < 512 => b \in 0 .. 511
      BY <3>1
    <3>3. ASSUME b < 512 PROVE B[b] \in 0 .. 255
      BY <1>10, <3>2, <3>3
    <3> HIDE DEF X
    <3>4. X[b] = IF b < 512 THEN B[b] ELSE 0
      BY <1>17
    <3> QED BY <3>3, <3>4
  <2> HIDE DEF X
  <2> QED BY <2>1, <2>2
<1>19. \A c \in Clusters : Fat(t)[c] = FirstEntry(c)
  <2> SUFFICES ASSUME NEW c \in Clusters PROVE Fat(t)[c] = FirstEntry(c)
    OBVIOUS
  <2>1. Fat(t)[c] = EntryOf(X, c)
    BY DEF Fat
  <2> HIDE DEF X
  <2> QED BY <1>1, <1>3, <1>17, <1>18, <2>1, FirstEntriesAre
<1> HIDE DEF X
<1>20. Linked(t, {})
  <2>1. Chained(Fat(t), {}, t.broken) /\ \A c \in Rooted : Begins(Fat(t), {}, c)
    BY <1>1, <1>19, FirstChains
  <2> QED BY <1>15, <2>1 DEF Linked, Owned
<1>21. Grounded(t, fp, {})
  BY <1>13, <1>15, <1>16, <1>20 DEF Grounded
<1>22. Held(fp) = {}
  BY <1>1, NoFileHolds
<1> QED BY <1>21, <1>22, MountedProper DEF Settled, Sane, t

LEMMA MountedThen ==
    ASSUME \A d \in Drives : IsReal(d)
    PROVE  (LayoutInv /\ phase = "ready" /\ Formatted /\ JustMounted /\ fp = NoFile => Settled)'
<1>1. LayoutInv /\ phase = "ready" /\ Formatted /\ JustMounted /\ fp = NoFile => Settled
  BY MountedSettled
<1> QED BY <1>1, PTL

LEMMA FormatSettles ==
    ASSUME \A d \in Drives : IsReal(d), LayoutInv, phase = "mount" => Formatted, Format,
           fp = NoFile
    PROVE  /\ (phase = "mount" => Formatted)'
           /\ (phase \in {"ready", "closed"} => Settled)'
<1>1. LayoutNext /\ [LayoutNext \/ Use]_layoutVars
  BY DEF Format
<1>2. LayoutInv'
  BY <1>1, LayoutSteps
<1>3. \/ CreateVolume /\ phase' = "mount"
      \/ Mount /\ phase' = "ready"
      \/ phase' \notin {"mount", "ready", "closed"}
  BY <1>1 DEF LayoutNext, Locate, Configure, CreateVolume, Mount
<1>4. CASE CreateVolume /\ phase' = "mount"
  BY <1>4, MadeFormatted
<1>5. CASE Mount /\ phase' = "ready"
  <2>1. phase = "mount" /\ Formatted /\ drive' = drive /\ mk' = mk /\ disk' = disk
    BY <1>5 DEF Mount
  <2>2. Formatted'
    <3>1. FirstFat' = FirstFat
      BY <2>1 DEF FirstFat
    <3> QED BY <2>1, <3>1 DEF Formatted, SectorAt, FsInfo
  <2>3. (LayoutInv /\ phase = "ready" /\ Formatted /\ JustMounted /\ fp = NoFile => Settled)'
    BY MountedThen
  <2>4. fs'.volbase = 63 /\ fs'.fs_type = mk.fsty
    <3>1. IsReal(drive) /\ Made(mk)
      BY <2>1 DEF LayoutInv
    <3>2. fs' = Geometry(BootRecord, 63)
      <4>1. fs' = Geometry(BootRecord, 63)'
        BY <1>2, <1>5 DEF LayoutInv
      <4> QED BY <2>1, <4>1, SameRecords
    <3> QED BY <3>1, <3>2, GeometryIs
  <2>5. JustMounted'
    <3>1. CASE mem' = InWindow(fs'.volbase, "none")
      BY <2>1, <2>4, <3>1 DEF JustMounted, InWindow, NoSector
    <3>2. CASE fs'.fs_type = "FAT32" /\ GetInfo(fs'.volbase + 1)
      <4>1. fs'.volbase + 1 = 64 /\ (64 \in DOMAIN disk => disk[64][2].next = 2)
        BY <2>1, <2>4, <3>2 DEF Formatted, FsInfo
      <4>2. GetInfo(64)
        BY <3>2, <4>1
      <4> DEFINE next == disk[64][2].next
                 free == disk[64][2].free
      <4> HIDE DEF next, free
      <4>3. \/ /\ 64 \in DOMAIN disk
               /\ mem' = [InWindow(64, "clean") EXCEPT !.last_clst = next, !.free_clst = free]
            \/ mem' = InWindow(64, "clean")
            \/ mem' = [InWindow(64 - 1, "none") EXCEPT !.winsect = NoSector]
        BY <4>2 DEF GetInfo, next, free
      <4>4. CASE /\ 64 \in DOMAIN disk
                 /\ mem' = [InWindow(64, "clean") EXCEPT !.last_clst = next, !.free_clst = free]
        <5>1. /\ mem'.winsect = 64 /\ mem'.wflag = FALSE
              /\ mem'.last_clst = next /\ mem'.fsi = "clean"
          BY <4>4 DEF InWindow
        <5>2. next = 2
          BY <4>1, <4>4 DEF next
        <5> QED BY <3>2, <5>1, <5>2 DEF JustMounted
      <4>5. CASE mem' = InWindow(64, "clean")
        <5>1. /\ mem'.winsect = 64 /\ mem'.wflag = FALSE
              /\ mem'.last_clst = Unknown /\ mem'.fsi = "clean"
          BY <4>5 DEF InWindow
        <5> QED BY <3>2, <5>1 DEF JustMounted
      <4>6. CASE mem' = [InWindow(64 - 1, "none") EXCEPT !.winsect = NoSector]
        <5>1. /\ mem'.winsect = NoSector /\ mem'.wflag = FALSE
              /\ mem'.last_clst = Unknown /\ mem'.fsi = "none"
          BY <4>6 DEF InWindow
        <5> QED BY <5>1 DEF JustMounted
      <4> QED BY <4>3, <4>4, <4>6, <4>5
    <3> QED BY <1>5, <3>1, <3>2 DEF Format
  <2>6. (fp = NoFile)'
    <3>1. NoFile' = NoFile /\ fp' = fp
      BY <2>1 DEF Format, NoFile, ss
    <3> QED BY <3>1
  <2> QED BY <1>2, <1>5, <2>2, <2>3, <2>5, <2>6
<1> QED BY <1>3, <1>4, <1>5

-----------------------------------------------------------------------------
(* The invariant is inductive, and every step is one of the layout.        *)

\* What a call leaves.
LEMMA CallUses ==
    ASSUME \A d \in Drives : IsReal(d), FatInv, phase = "ready",
           NEW u, NEW f, NEW q, NEW h, Sane(u, f, q, h), Left(u),
           NEW g, fp' = g, g = f \/ g = NoFile, Held(g) \subseteq h, StaysPut
    PROVE  /\ Use /\ LayoutInv' /\ Settled' /\ phase' = "ready" /\ drive' = drive
           /\ NoFile' = NoFile /\ \A x : Filed(x)' = Filed(x)
<1>1. phase' = "ready" /\ drive' = drive /\ mk' = mk /\ fs' = fs
  BY DEF StaysPut
<1>2. Areas
  BY AreasFollow DEF FatInv
<1>3. Settled' /\ \A s \in {0, 63} : SectorAt(disk', s) = SectorAt(disk, s)
  BY <1>1, <1>2, LeavesSettled
<1>4. Use
  BY <1>1, <1>2, <1>3 DEF Use, Areas
<1>5. LayoutInv'
  BY <1>4, LayoutSteps DEF FatInv
<1> QED BY <1>1, <1>3, <1>4, <1>5, FiledStays

LEMMA LeavesLeft ==
    ASSUME NEW u, Leaves(u)
    PROVE  Left(u)
BY DEF Leaves, Left

\* What a call begins with.
LEMMA CallBegins ==
    ASSUME \A d \in Drives : IsReal(d), FatInv, phase = "ready"
    PROVE  /\ Areas /\ drive \in Drives /\ todo \subseteq drive.folder /\ OpenFile
           /\ Sane(Memory, fp, Memory.dp, Held(fp)) /\ Walks(Memory, fp, Held(fp))
           /\ Memory.fp = fp
           /\ copying = {} => fp = NoFile /\ Held(fp) = {} /\ ~TableSector(fp.dir_sect)
<1>1. Areas
  BY AreasFollow DEF FatInv
<1>2. /\ Sane(Memory, fp, Memory.dp, Held(fp)) /\ Walks(Memory, fp, Held(fp))
      /\ Memory.fp = fp
  BY <1>1, SettledWalks DEF FatInv
<1>3. ASSUME copying = {} PROVE fp = NoFile /\ Held(fp) = {} /\ ~TableSector(fp.dir_sect)
  <2>1. fp = NoFile
    BY <1>3 DEF FatInv, OpenFile
  <2>2. NoFile.dir_sect = 0
    BY DEF NoFile
  <2> QED BY <1>1, <2>1, <2>2, NoFileHolds DEF TableSector, Areas
<1> QED BY <1>1, <1>2, <1>3 DEF FatInv, LayoutInv

LEMMA MkdirStep ==
    ASSUME \A d \in Drives : IsReal(d), FatInv, MkdirCall
    PROVE  FatInv' /\ Use
<1>1. PICK e \in Entry : \E u \in f_mkdir(Memory, PathOf(e)) : Leaves(u) /\ todo' = todo \ {e}
  BY DEF MkdirCall
<1>2. PICK u \in f_mkdir(Memory, PathOf(e)) : Leaves(u) /\ todo' = todo \ {e}
  BY <1>1
<1>3. phase = "ready" /\ copying = {} /\ fp' = fp /\ copying' = copying /\ StaysPut
  BY DEF MkdirCall, Packing
<1>4. PICK t, f, path : t = Memory /\ f = fp /\ path = PathOf(e)
  OBVIOUS
<1>5. Walks(t, f, {}) /\ ~TableSector(f.dir_sect) /\ Areas /\ OpenFile /\ Held(f) = {}
  BY <1>3, <1>4, CallBegins
<1>6. path \in Seq(0 .. 255)
  <2>1. e \in todo
    BY DEF Entry
  <2> QED BY <1>3, <1>4, <2>1, CallBegins, PathsAre
<1>7. u \in f_mkdir(t, path)
  BY <1>2, <1>4
<1>8. Walks(u, f, {})
  BY <1>5, <1>6, <1>7, MkdirWalks
<1>9. Use /\ LayoutInv' /\ Settled' /\ phase' = "ready" /\ drive' = drive /\ NoFile' = NoFile
  <2>1. Sane(u, f, u.dp, {}) /\ Left(u) /\ fp' = f
    BY <1>2, <1>3, <1>4, <1>8, LeavesLeft DEF Walks
  <2> QED BY <1>3, <1>5, <2>1, CallUses
<1>10. todo' \subseteq drive'.folder
  BY <1>2, <1>9 DEF FatInv
<1>11. OpenFile'
  BY <1>3, <1>5, <1>9 DEF OpenFile
<1> QED BY <1>9, <1>10, <1>11 DEF FatInv

LEMMA OpenStep ==
    ASSUME \A d \in Drives : IsReal(d), FatInv, OpenCall
    PROVE  FatInv' /\ Use
<1> DEFINE Opened(e, u) ==
              /\ Leaves(u) /\ todo' = todo \ {e} /\ fp' = u.fp
              /\ \/ /\ Ok(u) /\ stack' = stack
                    /\ copying' = {[path |-> PathOf(e), blocks |-> e.blocks, at |-> 0]}
                 \/ ~Ok(u) /\ copying' = copying
<1>1. PICK e \in Entry : \E u \in f_open(Memory, PathOf(e)) : Opened(e, u)
  BY DEF OpenCall
<1>2. PICK u \in f_open(Memory, PathOf(e)) : Opened(e, u)
  BY <1>1
<1>3. phase = "ready" /\ copying = {} /\ stack # <<>> /\ StaysPut
  BY DEF OpenCall, Packing
<1>4. PICK t, f, path : t = Memory /\ f = fp /\ path = PathOf(e)
  OBVIOUS
<1>5. Walks(t, f, {}) /\ Areas /\ OpenFile /\ Held(f) = {}
  BY <1>3, <1>4, CallBegins
<1>6. path \in Seq(0 .. 255) /\ e.blocks \in Seq(Nat)
  <2>1. e \in todo
    BY DEF Entry
  <2> QED BY <1>3, <1>4, <2>1, CallBegins, PathsAre
<1>7. u \in f_open(t, path)
  BY <1>2, <1>4
<1>8. \/ Walks(u, f, {}) /\ ~Ok(u)
      \/ Ok(u) /\ Writes(u, u.dp)
  BY <1>5, <1>6, <1>7, OpenWalks
<1>9. Left(u) /\ fp' = u.fp
  BY <1>2, LeavesLeft
<1>10. CASE Walks(u, f, {}) /\ ~Ok(u)
  <2>1. Sane(u, f, u.dp, {}) /\ u.fp = f
    BY <1>10 DEF Walks, Sane, Proper
  <2>2. /\ Use /\ LayoutInv' /\ Settled' /\ phase' = "ready" /\ drive' = drive
        /\ NoFile' = NoFile
    BY <1>3, <1>5, <1>9, <2>1, CallUses
  <2>3. copying' = {} /\ fp' = fp /\ fp = NoFile
    BY <1>2, <1>3, <1>4, <1>9, <1>10, <2>1, CallBegins
  <2>4. OpenFile'
    BY <2>2, <2>3 DEF OpenFile
  <2> QED BY <1>2, <2>2, <2>4 DEF FatInv
<1>11. CASE Ok(u) /\ Writes(u, u.dp)
  <2>1. Sane(u, u.fp, u.dp, Held(u.fp)) /\ Filed(u.fp)
    BY <1>11 DEF Writes
  <2>2. PICK g : g = u.fp
    OBVIOUS
  <2>3. /\ Use /\ LayoutInv' /\ Settled' /\ phase' = "ready" /\ drive' = drive
        /\ \A x : Filed(x)' = Filed(x)
    BY <1>3, <1>9, <2>1, <2>2, CallUses
  <2>4. copying' = {[path |-> PathOf(e), blocks |-> e.blocks, at |-> 0]} /\ stack' # <<>>
    BY <1>2, <1>3, <1>11
  <2>5. Filed(fp)'
    BY <1>9, <2>1, <2>2, <2>3
  <2>6. \A c \in copying' : DOMAIN c = {"path", "blocks", "at"} /\ c.blocks \in Seq(Nat)
    BY <1>6, <2>4
  <2>7. OpenFile'
    <3>1. copying' # {} /\ \A b, c \in copying' : b = c
      BY <2>4
    <3> QED BY <2>3, <2>4, <2>5, <2>6, <3>1 DEF OpenFile
  <2> QED BY <1>2, <2>3, <2>7 DEF FatInv
<1> QED BY <1>8, <1>10, <1>11

LEMMA WriteStep ==
    ASSUME \A d \in Drives : IsReal(d), FatInv, WriteCall
    PROVE  FatInv' /\ Use
<1> DEFINE Wrote(c, u) ==
              /\ c.blocks # <<>> /\ Leaves(u) /\ fp' = [u.fp EXCEPT !.bw = 0]
              /\ copying' = {[c EXCEPT !.blocks = Tail(@), !.at = @ + Head(c.blocks)]}
<1>1. PICK c \in copying : \E u \in f_write(Memory, BlockOf(c)) : Wrote(c, u)
  BY DEF WriteCall
<1>2. PICK u \in f_write(Memory, BlockOf(c)) : Wrote(c, u)
  BY <1>1
<1>3. stack' = stack /\ todo' = todo /\ StaysPut
  BY DEF WriteCall
<1>4. /\ phase = "ready" /\ stack # <<>> /\ Filed(fp)
      /\ DOMAIN c = {"path", "blocks", "at"} /\ c.blocks \in Seq(Nat)
  BY DEF FatInv, OpenFile
<1>5. PICK t, data : t = Memory /\ data = BlockOf(c)
  OBVIOUS
<1>6. Areas /\ Writes(t, t.dp)
  BY <1>4, <1>5, CallBegins DEF Writes
<1>7. Head(c.blocks) \in Nat /\ Tail(c.blocks) \in Seq(Nat)
  <2> DEFINE b == c.blocks
  <2>1. b \in Seq(Nat) /\ b # <<>>
    BY <1>2, <1>4
  <2> HIDE DEF b
  <2>2. Head(b) \in Nat /\ Tail(b) \in Seq(Nat)
    BY <2>1
  <2> QED BY <2>2 DEF b
<1>8. \E S : BlockOf(c) \in Seq(S)
  <2> DEFINE n == Head(c.blocks)
             cell(i) == <<c.path, c.at + i>>
             S == {cell(i) : i \in 1 .. n}
             b == [i \in 1 .. n |-> cell(i)]
  <2>1. BlockOf(c) = b /\ n \in Nat
    BY <1>7 DEF BlockOf
  <2> HIDE DEF n, cell
  <2>2. b \in [1 .. n -> S]
    OBVIOUS
  <2> HIDE DEF b, S
  <2>3. b \in Seq(S)
    BY <2>1, <2>2
  <2> QED BY <2>1, <2>3
<1>9. Writes(u, t.dp)
  <2>1. u \in f_write(t, data) /\ \E S : data \in Seq(S)
    BY <1>2, <1>8, <1>5
  <2> QED BY <1>6, <2>1, WriteWrites
<1> DEFINE w == [u EXCEPT !.fp.bw = 0]
<1>10. Writes(w, t.dp)
  BY <1>6, <1>9, ModifiedWrites
<1>11. w.fp = [u.fp EXCEPT !.bw = 0] /\ Left(w)
  <2>1. DOMAIN u = Fields
    BY <1>9 DEF Writes, Sane, Proper
  <2>2. Left(u)
    BY <1>2, LeavesLeft
  <2> QED BY <2>1, <2>2 DEF Left, Fields
<1> HIDE DEF w
<1>12. PICK g : g = w.fp
  OBVIOUS
<1>13. /\ Use /\ LayoutInv' /\ Settled' /\ phase' = "ready" /\ drive' = drive /\ NoFile' = NoFile
      /\ \A x : Filed(x)' = Filed(x)
  <2>1. fp' = g
    BY <1>2, <1>11, <1>12
  <2>2. Sane(w, g, t.dp, Held(g))
    BY <1>10, <1>12 DEF Writes
  <2> QED BY <1>3, <1>4, <1>11, <2>1, <2>2, CallUses
<1>14. OpenFile'
  <2> DEFINE b == Tail(c.blocks)
             n == Head(c.blocks)
  <2>1. copying' = {[[c EXCEPT !.blocks = b] EXCEPT !.at = c.at + n]}
    BY <1>2, <1>4
  <2> HIDE DEF b, n
  <2>2. copying' # {} /\ \A x \in copying' : DOMAIN x = {"path", "blocks", "at"} /\ x.blocks = b
    BY <1>4, <2>1
  <2>3. \A x, y \in copying' : x = y
    BY <2>1
  <2>4. Filed(fp)'
    <3>1. fp' = g /\ Filed(g)
      BY <1>2, <1>10, <1>11, <1>12 DEF Writes
    <3> QED BY <1>13, <3>1
  <2> QED BY <1>3, <1>4, <1>7, <1>13, <2>2, <2>3, <2>4 DEF OpenFile, b
<1>15. todo' \subseteq drive'.folder
  BY <1>3, <1>13 DEF FatInv
<1> QED BY <1>13, <1>14, <1>15 DEF FatInv

LEMMA CloseStep ==
    ASSUME \A d \in Drives : IsReal(d), FatInv, CloseCall
    PROVE  FatInv' /\ Use
<1>1. PICK c \in copying : \E u \in f_close(Memory) : Leaves(u)
  BY DEF CloseCall
<1>2. PICK u \in f_close(Memory) : Leaves(u)
  BY <1>1
<1>3. fp' = NoFile /\ copying' = {} /\ todo' = todo /\ StaysPut
  BY DEF CloseCall
<1>4. phase = "ready" /\ Filed(fp)
  BY <1>1 DEF FatInv, OpenFile
<1>5. PICK t : t = Memory
  OBVIOUS
<1>6. Areas /\ Writes(t, t.dp)
  BY <1>4, <1>5, CallBegins DEF Writes
<1>7. Sane(u, u.fp, t.dp, {}) /\ Left(u)
  BY <1>2, <1>6, <1>5, CloseSane, LeavesLeft
<1>8. Use /\ LayoutInv' /\ Settled' /\ phase' = "ready" /\ drive' = drive /\ NoFile' = NoFile
  <2>1. PICK g : g = NoFile
    OBVIOUS
  <2>2. fp' = g /\ Held(g) = {}
    BY <1>3, <1>6, <2>1, NoFileHolds
  <2> QED BY <1>3, <1>4, <1>7, <2>1, <2>2, CallUses
<1>9. OpenFile'
  BY <1>3, <1>8 DEF OpenFile
<1> QED BY <1>3, <1>8, <1>9 DEF FatInv

\* The steps that make no call.
LEMMA OtherStep ==
    ASSUME \A d \in Drives : IsReal(d), FatInv, Abandon \/ EndFolder \/ CloseImage
    PROVE  FatInv' /\ Use
<1>1. /\ phase = "ready" /\ phase' \in {"ready", "closed"}
      /\ drive' = drive /\ mk' = mk /\ disk' = disk /\ fs' = fs /\ mem' = mem /\ todo' = todo
      /\ broken' = broken /\ (fp' = fp \/ fp' = NoFile)
  BY DEF Abandon, EndFolder, CloseImage, Packing, StaysPut, clientVars, FatInv, OpenFile
<1>2. Use
  BY <1>1 DEF Use
<1>3. LayoutInv' /\ Settled'
  <2>1. Areas
    BY <1>1, AreasFollow DEF FatInv
  <2> QED BY <1>1, <1>2, <2>1, LayoutSteps, StaysSettled DEF FatInv
<1>4. NoFile' = NoFile
  BY <1>1, FiledStays
<1>5. copying' = {} /\ fp' = NoFile
  <2>1. CASE Abandon
    BY <2>1 DEF Abandon
  <2>2. CASE EndFolder
    BY <2>2 DEF EndFolder, Packing, FatInv, OpenFile
  <2>3. CASE CloseImage
    BY <2>3 DEF CloseImage, clientVars, FatInv, OpenFile
  <2> QED BY <2>1, <2>2, <2>3
<1>6. OpenFile'
  BY <1>4, <1>5 DEF OpenFile
<1> QED BY <1>1, <1>2, <1>3, <1>6 DEF FatInv

LEMMA FormatStep ==
    ASSUME \A d \in Drives : IsReal(d), FatInv, Format
    PROVE  FatInv' /\ LayoutNext
<1>1. LayoutNext /\ fp' = fp /\ todo' = todo /\ copying' = copying
  BY DEF Format
<1>2. drive' = drive /\ phase # "ready"
  BY <1>1 DEF LayoutNext, Locate, Configure, CreateVolume, Mount
<1>3. LayoutInv'
  BY <1>1, LayoutSteps DEF FatInv
<1>4. (phase = "mount" => Formatted)' /\ (phase \in {"ready", "closed"} => Settled)'
  <2>1. fp = NoFile
    BY <1>2 DEF FatInv, OpenFile
  <2> QED BY <2>1, FormatSettles DEF FatInv
<1>5. OpenFile'
  <2>1. copying = {} /\ fp = NoFile
    BY <1>2 DEF FatInv, OpenFile
  <2>2. NoFile' = NoFile
    BY <1>2 DEF NoFile, ss
  <2> QED BY <1>1, <2>1, <2>2 DEF OpenFile
<1> QED BY <1>1, <1>2, <1>3, <1>4, <1>5 DEF FatInv

LEMMA FatBegins ==
    FatInit => FatInv
<1> SUFFICES ASSUME FatInit PROVE FatInv
  OBVIOUS
<1>1. LayoutInv /\ phase = "locate"
  BY LayoutBegins DEF FatInit, LayoutInit
<1> QED BY <1>1 DEF FatInit, FatInv, OpenFile

LEMMA FatSteps ==
    ASSUME \A d \in Drives : IsReal(d), FatInv, [FatNext]_fatVars
    PROVE  FatInv' /\ [LayoutNext \/ Use]_layoutVars
<1>1. CASE UNCHANGED fatVars
  <2>1. /\ drive' = drive /\ phase' = phase /\ mk' = mk /\ disk' = disk /\ fs' = fs
        /\ mem' = mem /\ broken' = broken /\ fp' = fp
        /\ copying' = copying /\ todo' = todo /\ stack' = stack
    BY <1>1 DEF fatVars, layoutVars, clientVars
  <2>2. UNCHANGED layoutVars
    BY <2>1 DEF layoutVars
  <2>3. LayoutInv'
    BY <2>2, LayoutSteps DEF FatInv
  <2>4. phase \in {"ready", "closed"} => Settled'
    <3>1. phase \in {"ready", "closed"} => Areas
      BY AreasFollow DEF FatInv
    <3> QED BY <2>1, <3>1, StaysSettled DEF FatInv
  <2>5. OpenFile'
    BY <2>1, FiledStays DEF FatInv, OpenFile
  <2>6. (phase = "mount" => Formatted)'
    BY <2>1 DEF FatInv, Formatted, SectorAt, FsInfo, FirstFat
  <2> QED BY <2>1, <2>2, <2>3, <2>4, <2>5, <2>6 DEF FatInv
<1>2. CASE Format
  BY <1>2, FormatStep
<1>3. CASE MkdirCall
  BY <1>3, MkdirStep
<1>4. CASE OpenCall
  BY <1>4, OpenStep
<1>5. CASE WriteCall
  BY <1>5, WriteStep
<1>6. CASE CloseCall
  BY <1>6, CloseStep
<1>7. CASE Abandon \/ EndFolder \/ CloseImage
  BY <1>7, OtherStep
<1> QED BY <1>1, <1>2, <1>3, <1>4, <1>5, <1>6, <1>7 DEF FatNext, Step

-----------------------------------------------------------------------------
(* The packing as a whole.                                                 *)

\* The invariant of the packing: between two calls the memory is sane, so the
\* FAT is a set of chains that end, and the entries of the tables, the root
\* of FAT32 and the open file begin one each.
THEOREM PackingHolds ==
    ASSUME \A d \in Drives : IsReal(d)
    PROVE  FatSpec => []FatInv
<1>1. FatInv /\ [FatNext]_fatVars => FatInv'
  BY FatSteps
<1> QED BY <1>1, FatBegins, PTL DEF FatSpec

\* A volume that is packed, also on a disk that fails, implements one that is
\* only used: no call touches the partition table or the boot record.
THEOREM FatImplementsLayout ==
    ASSUME \A d \in Drives : IsReal(d)
    PROVE  FatSpec => LayoutSpec
<1>1. FatInit => LayoutInit
  BY DEF FatInit
<1>2. FatInv /\ [FatNext]_fatVars => [LayoutNext \/ Use]_layoutVars
  BY FatSteps
<1> QED BY <1>1, <1>2, PackingHolds, PTL DEF FatSpec, LayoutSpec

\* The next mount finds what f_mkfs made, whatever has been packed into it.
THEOREM PackedVolumeMounts ==
    ASSUME \A d \in Drives : IsReal(d)
    PROVE  FatSpec => [](MountsWhatWasMade /\ PartitionNamesVolume)
BY FatImplementsLayout, VolumeFound, PartitionIsVolume, PTL

-----------------------------------------------------------------------------
(* What is read back.                                                      *)

\* What would lie on the disk, were the window and the buffer written.
LEMMA OverlayHolds ==
    ASSUME Areas, Settled, OpenFile, NEW s \in DOMAIN Overlay
    PROVE  Holds(s, Overlay[s])
<1>1. /\ \A x \in DOMAIN disk : Holds(x, disk[x])
      /\ mem.winsect \in {NoSector} \cup 0 .. fs.fatbase - 1 \/ Holds(mem.winsect, mem.win)
      /\ mem.wflag => mem.winsect \in fs.fatbase .. VolumeEnd - 1
  BY MemoryIs DEF Settled, Sane, Proper
<1> DEFINE window == IF mem.wflag THEN {mem.winsect} ELSE {}
           buffer == IF fp.dirty THEN {fp.sect} ELSE {}
<1>2. Overlay = [x \in DOMAIN disk \cup window \cup buffer |->
                    CASE x \in window -> mem.win
                      [] x \in buffer \ window -> <<"data", fp.buf>>
                      [] OTHER -> disk[x]]
  BY DEF Overlay
<1>3. s \in window => Holds(s, mem.win)
  <2> SUFFICES ASSUME mem.wflag, s = mem.winsect PROVE Holds(s, mem.win)
    OBVIOUS
  <2>1. s \notin {NoSector} \cup 0 .. fs.fatbase - 1
    BY <1>1, SectorsEnd DEF Areas
  <2> QED BY <1>1, <2>1
<1>4. s \in buffer => Holds(s, <<"data", fp.buf>>)
  <2> SUFFICES ASSUME fp.dirty, s = fp.sect PROVE Holds(s, <<"data", fp.buf>>)
    OBVIOUS
  <2>1. Filed(fp)
    BY DEF OpenFile, NoFile
  <2>2. DataSector(s)
    BY <2>1 DEF Filed
  <2> QED BY <2>2, DataFits
<1>5. s \in DOMAIN disk => Holds(s, disk[s])
  BY <1>1
<1> HIDE DEF window, buffer
<1>6. s \in DOMAIN disk \cup window \cup buffer
  BY <1>2
<1>7. Overlay[s] = CASE s \in window -> mem.win
                     [] s \in buffer \ window -> <<"data", fp.buf>>
                     [] OTHER -> disk[s]
  BY <1>2, <1>6
<1>8. CASE s \in window
  BY <1>3, <1>7, <1>8
<1>9. CASE s \in buffer \ window
  BY <1>4, <1>7, <1>9
<1>10. CASE s \notin window /\ s \notin buffer
  BY <1>5, <1>6, <1>7, <1>10
<1> QED BY <1>8, <1>9, <1>10

LEMMA HoldsInPlace ==
    ASSUME Areas, NEW s, NEW x, Holds(s, x)
    PROVE  /\ s < fs.database + (fs.n_fatent - 2) * fs.csize
           /\ s < fs.fatbase => x[1] \in {"mbr", "vbr", "fsinfo"}
           /\ s \in fs.fatbase .. fs.fatbase + fs.fsize - 1 => x[1] \in {"fat", "zero"}
           /\ s \in fs.fatbase + fs.fsize .. fs.database - 1 => x[1] \in {"dir", "zero"}
           /\ s >= fs.database => x[1] \in {"dir", "data", "zero"}
<1>1. s \in Nat /\ s < VolumeEnd
  BY DEF Holds
<1>2. /\ fs.fatbase \in Nat /\ fs.fsize \in Nat /\ fs.database \in Nat
      /\ fs.fatbase + fs.fsize <= fs.database
  BY DEF Areas
<1>3. s < fs.database + (fs.n_fatent - 2) * fs.csize
  BY <1>1 DEF VolumeEnd
<1>4. /\ s \in fs.fatbase .. fs.fatbase + fs.fsize - 1 => FatSector(s)
      /\ s \in fs.fatbase + fs.fsize .. fs.database - 1 => TableSector(s) /\ ~DataSector(s)
      /\ s >= fs.database => TableSector(s)
  BY <1>1, <1>2 DEF FatSector, TableSector, DataSector
<1> QED BY <1>3, <1>4 DEF Holds

LEMMA TypeFollows ==
    ASSUME \A d \in Drives : IsReal(d), FatInv
    PROVE  FatTypeOK
<1> SUFFICES ASSUME AtWork PROVE FatTypeOK
  BY DEF FatTypeOK
<1>1. phase \in {"ready", "closed"} /\ Settled /\ OpenFile
  BY DEF AtWork, FatInv
<1>2. Areas
  BY <1>1, AreasFollow DEF FatInv
<1>3. mem.wflag => mem.winsect \in fs.fatbase .. drive.sectors - 1
  <2> SUFFICES ASSUME mem.wflag PROVE mem.winsect \in fs.fatbase .. drive.sectors - 1
    OBVIOUS
  <2>1. mem.winsect \in fs.fatbase .. VolumeEnd - 1
    BY <1>1, MemoryIs DEF Settled, Sane, Proper
  <2> QED BY <1>2, <2>1, SectorsEnd DEF Areas
<1>4. mem.last_clst \in Clusters \cup {Unknown}
  BY <1>1, MemoryIs DEF Settled, Sane, Proper
<1>5. fp.sclust \in Clusters \cup {0} /\ fp.clust \in Clusters \cup {0}
  BY <1>1 DEF OpenFile, Filed, NoFile
<1>6. copying = {} => fp = NoFile
  BY <1>1 DEF OpenFile
<1>7. \A s \in DOMAIN Overlay : Holds(s, Overlay[s])
  BY <1>1, <1>2, OverlayHolds
<1> HIDE DEF Overlay
<1> QED BY <1>2, <1>3, <1>4, <1>5, <1>6, <1>7, HoldsInPlace DEF FatTypeOK

\* With any folder and a disk that may fail in any access, the window and the
\* file object are what the calls leave, every sector lies in the volume and
\* holds what its place is for, and nothing is written behind the last cluster.
THEOREM EverySectorInPlace ==
    ASSUME \A d \in Drives : IsReal(d)
    PROVE  FatSpec => []FatTypeOK
<1>1. FatInv => FatTypeOK
  BY TypeFollows
<1> QED BY <1>1, PackingHolds, PTL

\* A sector as it would be, were the window and the buffer written, is what
\* the memory shows of it, or what the open file has in its buffer.
LEMMA OverlayShows ==
    ASSUME Areas, Settled, OpenFile, NEW s, NEW x, x = SectorAt(Overlay, s)
    PROVE  Shows(Memory, s, x) \/ (DataSector(s) /\ x[1] = "data")
<1> DEFINE window == IF mem.wflag THEN {mem.winsect} ELSE {}
           buffer == IF fp.dirty THEN {fp.sect} ELSE {}
<1>1. Overlay = [y \in DOMAIN disk \cup window \cup buffer |->
                    CASE y \in window -> mem.win
                      [] y \in buffer \ window -> <<"data", fp.buf>>
                      [] OTHER -> disk[y]]
  BY DEF Overlay
<1>2. s \in window => mem.wflag /\ s = mem.winsect
  OBVIOUS
<1>3. s \notin window => ~(mem.wflag /\ s = mem.winsect)
  OBVIOUS
<1>4. s \in buffer => DataSector(s)
  <2> SUFFICES ASSUME fp.dirty, s = fp.sect PROVE DataSector(s)
    OBVIOUS
  <2>1. Filed(fp)
    BY DEF OpenFile, NoFile
  <2> QED BY <2>1 DEF Filed
<1> HIDE DEF window, buffer
<1>5. s \in DOMAIN Overlay =>
         Overlay[s] = CASE s \in window -> mem.win
                        [] s \in buffer \ window -> <<"data", fp.buf>>
                        [] OTHER -> disk[s]
  BY <1>1
<1>6. DOMAIN Overlay = DOMAIN disk \cup window \cup buffer
  BY <1>1
<1> HIDE DEF Overlay
<1>7. CASE s \in window
  <2>1. x = mem.win
    BY <1>5, <1>6, <1>7 DEF SectorAt
  <2> QED BY <1>2, <1>7, <2>1, MemoryIs DEF Shows
<1>8. CASE s \in buffer /\ s \notin window
  <2>1. x = <<"data", fp.buf>>
    BY <1>5, <1>6, <1>8 DEF SectorAt
  <2> QED BY <1>4, <1>8, <2>1
<1>9. CASE s \notin window /\ s \notin buffer
  <2>1. x = SectorAt(disk, s)
    BY <1>5, <1>6, <1>9 DEF SectorAt
  <2> QED BY <1>3, <1>9, <2>1, MemoryIs DEF Shows
<1> QED BY <1>7, <1>8, <1>9

\* The FAT that is read back is the one that the memory shows.
LEMMA FatRead ==
    ASSUME Areas, Settled, OpenFile, NEW d, d = Overlay, NEW c \in Clusters
    PROVE  /\ FatOf(d, c) = Fat(Memory)[c]
           /\ Fat(Memory)[c] \in Nat /\ Fat(Memory)[c] <= Mark
<1>1. Coherent(Memory) /\ ss = 512
  BY SectorsEnd DEF Settled, Sane, Grounded
<1> DEFINE t == Memory
           B == BytesSeen(t)
           o == FatOffset(c)
           Byte(bc) == FatBytes(SectorAt(d, fs.fatbase + bc \div ss))[bc % ss]
<1> HIDE DEF t
<1>2. ASSUME NEW s, FatSector(s) PROVE SectorAt(d, s) = Seen(t, s)
  <2>1. ~DataSector(s)
    BY <1>2 DEF FatSector, DataSector, Areas
  <2>2. Shows(t, s, SectorAt(d, s))
    BY <2>1, OverlayShows DEF t
  <2> QED BY <1>1, <1>2, <2>2 DEF Coherent, t
<1>3. ASSUME NEW b \in FatPlaces PROVE /\ FatSector(fs.fatbase + b \div 512) /\ b % 512 \in 0 .. 511
  BY <1>3 DEF FatPlaces, FatSector, Areas
<1>4. ASSUME NEW b \in FatPlaces PROVE Byte(b) = B[b]
  BY <1>1, <1>2, <1>3 DEF BytesSeen
<1>5. B \in [FatPlaces -> 0 .. 255]
  <2>1. B = [b \in FatPlaces |-> B[b]]
    BY DEF BytesSeen
  <2>2. ASSUME NEW b \in FatPlaces PROVE B[b] \in 0 .. 255
    <3> DEFINE s == fs.fatbase + b \div 512
               i == b % 512
               y == FatBytes(Seen(t, s))
    <3>1. FatSector(s) /\ i \in 0 .. 511
      BY <1>3
    <3>2. B[b] = y[i]
      BY DEF BytesSeen
    <3>3. y \in [0 .. ss - 1 -> 0 .. 255]
      BY <1>1, <3>1 DEF Coherent, t
    <3>4. i \in 0 .. ss - 1
      BY <1>1, <3>1
    <3> HIDE DEF y, i, B
    <3> QED BY <3>2, <3>3, <3>4, Zenon
  <2> HIDE DEF B
  <2> QED BY <2>1, <2>2
<1>6. Fat(t)[c] = EntryOf(B, c)
  BY DEF Fat
<1>7. EntryOf(B, c) \in Nat /\ EntryOf(B, c) <= Mark
  <2> HIDE DEF B
  <2> QED BY <1>5, EntryFits
<1>8. \A i \in Bytes : o + i \in FatPlaces
  <2>1. /\ o \in Nat /\ o \in FatPlaces /\ o + 1 \in FatPlaces
        /\ fs.fs_type = "FAT32" => o + 2 \in FatPlaces /\ o + 3 \in FatPlaces
    BY EntryPlaces
  <2> HIDE DEF o
  <2>2. \A i \in Bytes : i \in {0, 1} \/ (fs.fs_type = "FAT32" /\ i \in {2, 3})
    BY DEF Bytes
  <2> QED BY <2>1, <2>2
<1>9. [i \in Bytes |-> Byte(o + i)] = [i \in Bytes |-> B[o + i]]
  <2> HIDE DEF Byte, B, o
  <2> QED BY <1>4, <1>8
<1>10. FatOf(d, c) = FatEntry(c, [i \in Bytes |-> Byte(o + i)])
  BY DEF FatOf
<1>11. EntryOf(B, c) = FatEntry(c, [i \in Bytes |-> B[o + i]])
  BY DEF EntryOf
<1> HIDE DEF Byte, B, o
<1> QED BY <1>6, <1>7, <1>9, <1>10, <1>11 DEF t

\* The contents d of a disk show the memory t of a volume whose clusters in h
\* are held and those in J are lost.
Legible(d, t, h, J) ==
    /\ \A s : \/ Shows(t, s, SectorAt(d, s))
              \/ DataSector(s) /\ SectorAt(d, s)[1] = "data"
    /\ \A c \in Clusters : FatOf(d, c) = Fat(t)[c] /\ Fat(t)[c] \in Nat /\ Fat(t)[c] <= Mark
    /\ TablesFit(t) /\ Alone(t, h)
    /\ Chained(Fat(t), J, t.broken)
    /\ \A c : Owned(t, h, c) => Begins(Fat(t), J, c)

LEMMA OverlayLegible ==
    ASSUME Areas, Settled, OpenFile, Whole(Memory), NEW d, d = Overlay
    PROVE  \E J : Legible(d, Memory, Held(fp), J)
<1>1. TablesFit(Memory) /\ Alone(Memory, Held(fp)) /\ Linked(Memory, Held(fp))
  BY DEF Settled, Sane, Grounded
<1>2. \A s : \/ Shows(Memory, s, SectorAt(d, s))
             \/ DataSector(s) /\ SectorAt(d, s)[1] = "data"
  BY OverlayShows
<1>3. \A c \in Clusters : /\ FatOf(d, c) = Fat(Memory)[c]
                          /\ Fat(Memory)[c] \in Nat /\ Fat(Memory)[c] <= Mark
  BY FatRead
<1> QED BY <1>1, <1>2, <1>3 DEF Legible, Linked

\* A chain that somebody owns.
LEMMA OwnedWalk ==
    ASSUME Areas, NEW d, NEW t, NEW h, NEW J, Legible(d, t, h, J), NEW c, Owned(t, h, c)
    PROVE  /\ Begins(Fat(t), J, c) /\ Walk(Fat(t), Chain(d, c), c, fs.n_fatent)
           /\ Chain(d, c) \in Seq(Clusters)
<1>1. Begins(Fat(t), J, c) /\ c \in Clusters
  BY DEF Legible, Begins
<1>2. Walk(Fat(t), Chain(d, c), c, fs.n_fatent)
  BY <1>1, ChainWalks DEF Legible
<1> QED BY <1>1, <1>2 DEF Walk

LEMMA OwnedApart ==
    ASSUME Areas, NEW d, NEW t, NEW h, NEW J, Legible(d, t, h, J),
           NEW c, Owned(t, h, c), NEW e, Owned(t, h, e),
           NEW i \in DOMAIN Chain(d, c), NEW j \in DOMAIN Chain(d, e),
           Chain(d, c)[i] = Chain(d, e)[j]
    PROVE  c = e
<1> DEFINE w == Chain(d, c)
           v == Chain(d, e)
           n == fs.n_fatent
           F == Fat(t)
<1>1. /\ Begins(F, J, c) /\ Walk(F, w, c, n) /\ w \in Seq(Clusters)
      /\ Begins(F, J, e) /\ Walk(F, v, e, n) /\ v \in Seq(Clusters)
  BY OwnedWalk
<1>2. Chained(F, J, t.broken) /\ n \in Nat
  BY DEF Legible, Areas
<1>3. i \in 1 .. Len(w) /\ j \in 1 .. Len(v) /\ w[i] = v[j]
  BY <1>1
<1> HIDE DEF w, v, n, F
<1> QED BY <1>1, <1>2, <1>3, WalksApart

\* The cluster that a sector is of.
LEMMA SameCluster ==
    ASSUME Areas, NEW c \in Clusters, NEW e \in Clusters,
           NEW k \in 0 .. fs.csize - 1, NEW r \in 0 .. fs.csize - 1,
           clst2sect(c) + k = clst2sect(e) + r
    PROVE  c = e
<1> DEFINE p == fs.csize
           a == fs.database
<1>1. p \in {1, 2, 4, 8, 16, 32, 64, 128} /\ a \in Nat /\ c \in Nat /\ e \in Nat
      /\ k \in 0 .. p - 1 /\ r \in 0 .. p - 1
  BY SizesAre, ClustersAre DEF Areas
<1>2. (a + p * (c - 2)) + k = (a + p * (e - 2)) + r
  BY DEF clst2sect
<1> HIDE DEF p, a
<1> QED BY <1>1, <1>2

\* The sectors of the table of a directory in cluster a, 0 for the root.
First(a) == IF a = 0 THEN RootChain ELSE a
InTable(d, a, s) ==
    IF First(a) = 0 THEN s \in fs.dirbase .. fs.dirbase + 31
    ELSE \E k \in DOMAIN Chain(d, First(a)), r \in 0 .. fs.csize - 1 :
            s = clst2sect(Chain(d, First(a))[k]) + r
Claimed(t, c) == \E s, i : Claims(t, s, i, c)
Known(t, a) == a = 0 \/ Claimed(t, a)

LEMMA FirstOwned ==
    ASSUME NEW t, NEW h, NEW a, Known(t, a), First(a) # 0
    PROVE  Owned(t, h, First(a))
BY DEF Known, Claimed, First, Owned, Rooted

LEMMA TableLies ==
    ASSUME Areas, NEW d, NEW t, NEW h, NEW J, Legible(d, t, h, J),
           NEW a, Known(t, a), NEW s, InTable(d, a, s)
    PROVE  TableSector(s) /\ (First(a) # 0 <=> DataSector(s))
<1>1. CASE First(a) = 0
  <2>1. a = 0 /\ fs.fs_type # "FAT32"
    BY <1>1 DEF First, RootChain, Areas, Known
  <2>2. s \in fs.dirbase .. fs.dirbase + 31
    BY <1>1 DEF InTable
  <2> QED BY <1>1, <2>1, <2>2, SectorsEnd DEF Areas, TableSector, DataSector
<1>2. CASE First(a) # 0
  <2>1. PICK k \in DOMAIN Chain(d, First(a)), r \in 0 .. fs.csize - 1 :
           s = clst2sect(Chain(d, First(a))[k]) + r
    BY <1>2 DEF InTable
  <2>2. Chain(d, First(a)) \in Seq(Clusters)
    BY <1>2, FirstOwned, OwnedWalk
  <2>3. Chain(d, First(a))[k] \in Clusters
    BY <2>2
  <2>4. DataSector(s)
    BY <2>1, <2>3, ClusterLies
  <2> QED BY <1>2, <2>4 DEF DataSector, TableSector, Areas
<1> QED BY <1>1, <1>2

\* No sector is of the tables of two directories.
LEMMA TablesApart ==
    ASSUME Areas, NEW d, NEW t, NEW h, NEW J, Legible(d, t, h, J),
           NEW a, Known(t, a), NEW b, Known(t, b), NEW s, InTable(d, a, s), InTable(d, b, s)
    PROVE  a = b
<1>1. First(a) # 0 <=> First(b) # 0
  BY TableLies
<1>2. CASE First(a) = 0
  BY <1>1, <1>2 DEF First
<1>3. CASE First(a) # 0
  <2> DEFINE w == Chain(d, First(a))
             v == Chain(d, First(b))
  <2>1. Owned(t, h, First(a)) /\ Owned(t, h, First(b))
    BY <1>1, <1>3, FirstOwned
  <2>2. w \in Seq(Clusters) /\ v \in Seq(Clusters)
    BY <2>1, OwnedWalk
  <2>3. PICK i \in DOMAIN w, k \in 0 .. fs.csize - 1 : s = clst2sect(w[i]) + k
    BY <1>3 DEF InTable
  <2>4. PICK j \in DOMAIN v, r \in 0 .. fs.csize - 1 : s = clst2sect(v[j]) + r
    BY <1>1, <1>3 DEF InTable
  <2>5. w[i] = v[j]
    <3>1. w[i] \in Clusters /\ v[j] \in Clusters
      BY <2>2
    <3> HIDE DEF w, v
    <3> QED BY <2>3, <2>4, <3>1, SameCluster
  <2>6. First(a) = First(b)
    BY <2>1, <2>5, OwnedApart
  <2>7. a # 0 => a \notin Rooted
    BY DEF Known, Claimed, Legible, Alone
  <2>8. b # 0 => b \notin Rooted
    BY DEF Known, Claimed, Legible, Alone
  <2> QED BY <1>3, <2>6, <2>7, <2>8 DEF First, Rooted
<1> QED BY <1>2, <1>3

\* An entry of a table lies at a place of it, and claims its cluster.
EntryAt(d, t, a, e, s, i) ==
    /\ InTable(d, a, s) /\ i \in 0 .. Slots - 1
    /\ e = Entries(SectorAt(d, s))[i]
    /\ e.clust # 0 => Claims(t, s, i, e.clust)
    /\ e.dir => e.clust # 0

LEMMA TableEntry ==
    ASSUME Areas, NEW d, NEW t, NEW h, NEW J, Legible(d, t, h, J),
           NEW a, Known(t, a), NEW e \in Table(d, a)
    PROVE  \E s, i : EntryAt(d, t, a, e, s, i)
<1> DEFINE first == IF a = 0 THEN RootChain ELSE a
           sectors == IF first = 0
                      THEN [k \in 1 .. fs.n_rootdir \div Slots |-> SectorAt(d, fs.dirbase + k - 1)]
                      ELSE SectorsOf(d, first)
<1>1. /\ e \in UNION {{Entries(sectors[k])[i] : i \in 0 .. Slots - 1} : k \in DOMAIN sectors}
      /\ IsNamed(e)
  BY DEF Table, IsNamed
<1>2. first = First(a)
  BY DEF First
<1> HIDE DEF first
<1>3. PICK k \in DOMAIN sectors : e \in {Entries(sectors[k])[i] : i \in 0 .. Slots - 1}
  BY <1>1
<1>4. PICK i \in 0 .. Slots - 1 : e = Entries(sectors[k])[i]
  BY <1>3
<1>5. \E s : InTable(d, a, s) /\ sectors[k] = SectorAt(d, s)
  <2>1. CASE first = 0
    <3>1. sectors = [x \in 1 .. fs.n_rootdir \div Slots |-> SectorAt(d, fs.dirbase + x - 1)]
      BY <2>1
    <3>2. fs.n_rootdir \div Slots = 32 /\ fs.dirbase \in Nat
      <4>1. fs.fs_type # "FAT32" /\ fs.dirbase \in Nat
        BY <1>2, <2>1 DEF First, RootChain, Areas, Known
      <4>2. fs.n_rootdir = 512 /\ Slots = 16
        BY <4>1, SectorsEnd DEF Areas
      <4> QED BY <4>1, <4>2
    <3>3. k \in 1 .. 32 /\ sectors[k] = SectorAt(d, fs.dirbase + k - 1)
      BY <3>1, <3>2
    <3>4. fs.dirbase + k - 1 \in fs.dirbase .. fs.dirbase + 31
      BY <3>2, <3>3
    <3> QED BY <1>2, <2>1, <3>3, <3>4 DEF InTable
  <2>2. CASE first # 0
    <3> DEFINE w == Chain(d, first)
               p == fs.csize
    <3>1. w \in Seq(Clusters)
      BY <1>2, <2>2, FirstOwned, OwnedWalk
    <3>2. sectors = [x \in 1 .. Len(w) * p |->
                       SectorAt(d, clst2sect(w[(x - 1) \div p + 1]) + ((x - 1) % p))]
      BY <2>2 DEF SectorsOf
    <3> HIDE DEF w, sectors
    <3> DEFINE j == (k - 1) \div p + 1
               r == (k - 1) % p
    <3>3. j \in 1 .. Len(w) /\ r \in 0 .. p - 1
      <4> DEFINE L == Len(w)
      <4>1. k \in 1 .. L * p /\ L \in Nat /\ p \in {1, 2, 4, 8, 16, 32, 64, 128}
        BY <1>3, <3>1, <3>2, SizesAre DEF Areas
      <4> HIDE DEF L, p
      <4> QED BY <4>1 DEF L
    <3>4. sectors[k] = SectorAt(d, clst2sect(w[j]) + r)
      BY <1>3, <3>2
    <3>5. j \in DOMAIN w
      BY <3>1, <3>3
    <3> HIDE DEF j, r
    <3>6. InTable(d, a, clst2sect(w[j]) + r)
      BY <1>2, <2>2, <3>3, <3>5 DEF InTable, w
    <3> QED BY <3>4, <3>6
  <2> QED BY <2>1, <2>2
<1>6. PICK s : InTable(d, a, s) /\ sectors[k] = SectorAt(d, s)
  BY <1>5
<1> DEFINE x == SectorAt(d, s)
<1>7. TableSector(s) /\ e = Entries(x)[i] /\ (Shows(t, s, x) \/ x[1] = "data")
  BY <1>4, <1>6, TableLies DEF Legible
<1> HIDE DEF x
<1>8. CASE x[1] = "dir"
  <2>1. Shows(t, s, x) /\ e = x[2][i]
    BY <1>7, <1>8 DEF Entries
  <2>2. Tabular(x[2])
    BY <1>7, <1>8, <2>1 DEF Legible, TablesFit
  <2>3. i \in DOMAIN x[2] /\ (e.dir => e.clust # 0)
    BY <1>1, <2>1, <2>2 DEF Tabular
  <2>4. e.clust # 0 => Claims(t, s, i, e.clust)
    BY <1>1, <1>7, <1>8, <2>1, <2>3 DEF Claims
  <2> QED BY <1>6, <1>7, <2>3, <2>4 DEF EntryAt, x
<1>9. CASE x[1] # "dir"
  <2>1. e = NoEntry \/ e = [NoEntry EXCEPT !.name = x]
    BY <1>7, <1>9 DEF Entries
  <2>2. e.clust = 0 /\ ~e.dir
    BY <2>1 DEF NoEntry
  <2> QED BY <1>6, <1>7, <2>2 DEF EntryAt, x
<1> QED BY <1>8, <1>9

\* Two nodes of the tree with the same cluster are the same node: from the
\* directories of a level, whose tables are apart, to the level below.
DirsKnown(t, N) == \A n \in N : n.entry.dir => Known(t, n.entry.clust)
DirsDiffer(N, M) ==
    \A n \in N, m \in M : n.entry.dir /\ m.entry.dir /\ n.entry.clust = m.entry.clust => n = m
Separate(N, M) == \A n \in N, m \in M : n.entry.clust # 0 /\ n.entry.clust = m.entry.clust => n = m
Begun(t, N) == \A n \in N : /\ n.entry.clust # 0 => Claimed(t, n.entry.clust)
                            /\ n.entry.dir => n.entry.clust # 0

LEMMA NodeBelow ==
    ASSUME NEW d, NEW N, NEW x \in Below(d, N)
    PROVE  \E n \in N : /\ n.entry.dir /\ x.entry \in Table(d, n.entry.clust)
                        /\ x = [path |-> Append(n.path, x.entry.name), entry |-> x.entry]
<1>1. PICK n \in {m \in N : m.entry.dir} :
         x \in {[path |-> Append(n.path, e.name), entry |-> e] : e \in Table(d, n.entry.clust)}
  BY DEF Below
<1> QED BY <1>1

LEMMA BelowBegun ==
    ASSUME Areas, NEW d, NEW t, NEW h, NEW J, Legible(d, t, h, J), NEW N, DirsKnown(t, N)
    PROVE  Begun(t, Below(d, N))
<1> SUFFICES ASSUME NEW x \in Below(d, N)
             PROVE  /\ x.entry.clust # 0 => Claimed(t, x.entry.clust)
                    /\ x.entry.dir => x.entry.clust # 0
  BY DEF Begun
<1>1. PICK n \in N : n.entry.dir /\ x.entry \in Table(d, n.entry.clust)
  BY NodeBelow
<1>2. Known(t, n.entry.clust)
  BY <1>1 DEF DirsKnown
<1>3. PICK s, i : EntryAt(d, t, n.entry.clust, x.entry, s, i)
  BY <1>1, <1>2, TableEntry
<1> QED BY <1>3 DEF EntryAt, Claimed

LEMMA BelowSeparate ==
    ASSUME Areas, NEW d, NEW t, NEW h, NEW J, Legible(d, t, h, J),
           NEW N, DirsKnown(t, N), NEW M, DirsKnown(t, M), DirsDiffer(N, M)
    PROVE  Separate(Below(d, N), Below(d, M))
<1> SUFFICES ASSUME NEW x \in Below(d, N), NEW y \in Below(d, M),
                    x.entry.clust # 0, x.entry.clust = y.entry.clust
             PROVE  x = y
  BY DEF Separate
<1>1. PICK n \in N : /\ n.entry.dir /\ x.entry \in Table(d, n.entry.clust)
                     /\ x = [path |-> Append(n.path, x.entry.name), entry |-> x.entry]
  BY NodeBelow
<1>2. PICK m \in M : /\ m.entry.dir /\ y.entry \in Table(d, m.entry.clust)
                     /\ y = [path |-> Append(m.path, y.entry.name), entry |-> y.entry]
  BY NodeBelow
<1>3. Known(t, n.entry.clust) /\ Known(t, m.entry.clust)
  BY <1>1, <1>2 DEF DirsKnown
<1>4. PICK s, i : EntryAt(d, t, n.entry.clust, x.entry, s, i)
  BY <1>1, <1>3, TableEntry
<1>5. PICK r, k : EntryAt(d, t, m.entry.clust, y.entry, r, k)
  BY <1>2, <1>3, TableEntry
<1>6. s = r /\ i = k
  <2>1. Claims(t, s, i, x.entry.clust) /\ Claims(t, r, k, x.entry.clust)
    BY <1>4, <1>5 DEF EntryAt
  <2> QED BY <2>1 DEF Legible, Alone
<1>7. n.entry.clust = m.entry.clust
  <2>1. InTable(d, n.entry.clust, s) /\ InTable(d, m.entry.clust, s)
    BY <1>4, <1>5, <1>6 DEF EntryAt
  <2> QED BY <1>3, <2>1, TablesApart
<1>8. n = m
  BY <1>1, <1>2, <1>7 DEF DirsDiffer
<1>9. x.entry = y.entry
  BY <1>4, <1>5, <1>6 DEF EntryAt
<1> QED BY <1>1, <1>2, <1>8, <1>9

\* The tree is found level by level.
Deeper(d, g, k) == IF k = 0 THEN {} ELSE Below(d, {Root} \cup g[k - 1])

LEMMA TreeGrows ==
    ASSUME NEW d, NEW L \in Nat
    PROVE  \E g : g = [k \in 0 .. L |-> Deeper(d, g, k)]
<1> DEFINE Grows(n) == \E g : g = [k \in 0 .. n |-> Deeper(d, g, k)]
           S == {n \in Nat : Grows(n)}
<1>1. Grows(0)
  <2> DEFINE g == [k \in 0 .. 0 |-> {}]
  <2>1. \A k \in 0 .. 0 : Deeper(d, g, k) = {}
    BY DEF Deeper
  <2>2. g = [k \in 0 .. 0 |-> Deeper(d, g, k)]
    BY <2>1
  <2> QED BY <2>2
<1>2. ASSUME NEW n \in Nat, Grows(n) PROVE Grows(n + 1)
  <2>1. PICK f : f = [k \in 0 .. n |-> Deeper(d, f, k)]
    BY <1>2
  <2> DEFINE g == [k \in 0 .. n + 1 |-> IF k = n + 1 THEN Below(d, {Root} \cup f[n]) ELSE f[k]]
  <2>2. ASSUME NEW k \in 0 .. n + 1 PROVE g[k] = Deeper(d, g, k)
    <3>1. CASE k = n + 1
      <4>1. g[k] = Below(d, {Root} \cup f[n]) /\ g[n] = f[n] /\ k # 0 /\ k - 1 = n
        BY <3>1
      <4> HIDE DEF g
      <4> QED BY <4>1 DEF Deeper
    <3>2. CASE k # n + 1
      <4>1. k \in 0 .. n /\ g[k] = f[k] /\ f[k] = Deeper(d, f, k)
        BY <3>2, <2>1
      <4>2. k # 0 => k - 1 \in 0 .. n + 1 /\ k - 1 # n + 1
        BY <4>1
      <4>3. k # 0 => g[k - 1] = f[k - 1]
        BY <4>2
      <4> HIDE DEF g
      <4> QED BY <4>1, <4>3 DEF Deeper
    <3> QED BY <3>1, <3>2
  <2>3. g = [k \in 0 .. n + 1 |-> g[k]]
    OBVIOUS
  <2> HIDE DEF g
  <2>4. g = [k \in 0 .. n + 1 |-> Deeper(d, g, k)]
    BY <2>2, <2>3
  <2> QED BY <2>4
<1>3. 0 \in S /\ \A k \in 0 .. L - 1 : k \in S => k + 1 \in S
  <2> HIDE DEF Grows
  <2> QED BY <1>1, <1>2
<1> HIDE DEF S
<1>4. L \in S
  BY <1>3, UpToInduction
<1> QED BY <1>4 DEF S

LEMMA TreeApart ==
    ASSUME Areas, NEW d, NEW t, NEW h, NEW J, Legible(d, t, h, J)
    PROVE  Begun(t, Tree(d)) /\ Separate(Tree(d), Tree(d))
<1> DEFINE L == fs.n_fatent
           nodes == CHOOSE g : g = [n \in 0 .. L |->
                                      IF n = 0 THEN {} ELSE Below(d, {Root} \cup g[n - 1])]
<1>1. L \in Nat
  BY DEF Areas
<1>2. Tree(d) = nodes[L]
  BY DEF Tree
<1>3. \E g : g = [n \in 0 .. L |-> IF n = 0 THEN {} ELSE Below(d, {Root} \cup g[n - 1])]
  <2>1. PICK g : g = [k \in 0 .. L |-> Deeper(d, g, k)]
    BY <1>1, TreeGrows
  <2> QED BY <2>1, Zenon DEF Deeper
<1>4. nodes = [n \in 0 .. L |-> IF n = 0 THEN {} ELSE Below(d, {Root} \cup nodes[n - 1])]
  BY <1>3, Zenon
<1> HIDE DEF nodes, L
<1>5. Root.entry.dir /\ Root.entry.clust = 0
  <2>1. DirEntry(<<>>, 0).dir /\ DirEntry(<<>>, 0).clust = 0
    BY DEF DirEntry, NoEntry
  <2> QED BY <2>1 DEF Root
<1> DEFINE Fine(N) == Begun(t, N) /\ Separate(N, N)
           S == {n \in Nat : Fine(nodes[n])}
<1>6. Fine({})
  BY DEF Begun, Separate
<1>7. ASSUME NEW N, Fine(N) PROVE Fine(Below(d, {Root} \cup N))
  <2> DEFINE U == {Root} \cup N
  <2>1. DirsKnown(t, U)
    BY <1>5, <1>7 DEF DirsKnown, Known, Begun
  <2>2. DirsDiffer(U, U)
    BY <1>5, <1>7 DEF DirsDiffer, Begun, Separate
  <2> HIDE DEF U
  <2> QED BY <2>1, <2>2, BelowBegun, BelowSeparate DEF U
<1>8. 0 \in S
  <2>1. nodes[0] = {}
    BY <1>1, <1>4
  <2> QED BY <1>6, <2>1
<1>9. ASSUME NEW n \in 0 .. L - 1, n \in S PROVE n + 1 \in S
  <2>1. n + 1 \in 0 .. L /\ n + 1 # 0 /\ (n + 1) - 1 = n /\ n + 1 \in Nat
    BY <1>1
  <2>2. nodes[n + 1] = Below(d, {Root} \cup nodes[n])
    BY <1>4, <2>1
  <2> HIDE DEF Fine
  <2> QED BY <1>7, <1>9, <2>1, <2>2
<1>10. L \in S
  <2> HIDE DEF S
  <2> QED BY <1>1, <1>8, <1>9, UpToInduction
<1> QED BY <1>2, <1>10

\* The objects, and what they have their clusters from.
NodeObject(n) ==
    [at |-> n.path, clust |-> n.entry.clust, size |-> n.entry.size, dir |-> n.entry.dir]
RootObject == [at |-> <<>>, clust |-> RootChain, size |-> 0, dir |-> TRUE]
FileObject(c) == [at |-> Canonical(c.path), clust |-> fp.sclust, size |-> fp.objsize, dir |-> FALSE]

LEMMA ObjectIs ==
    ASSUME NEW d, NEW o \in Objects(d)
    PROVE  \/ \E n \in Tree(d) : o = NodeObject(n) /\ n.entry.clust # 0 /\ o.clust = n.entry.clust
           \/ o = RootObject /\ o.clust = RootChain /\ o.clust \in Rooted
           \/ \E c \in copying : o = FileObject(c) /\ o.clust = fp.sclust /\ o.clust \in Held(fp)
<1> DEFINE nodes == {[at |-> n.path, clust |-> n.entry.clust, size |-> n.entry.size,
                      dir |-> n.entry.dir] : n \in {m \in Tree(d) : m.entry.clust # 0}}
           roots == {[at |-> <<>>, clust |-> r, size |-> 0, dir |-> TRUE] : r \in {RootChain} \ {0}}
           files == {[at |-> Canonical(c.path), clust |-> fp.sclust, size |-> fp.objsize,
                      dir |-> FALSE] : c \in {b \in copying : fp.sclust # 0}}
<1>1. o \in nodes \/ o \in roots \/ o \in files
  BY DEF Objects
<1>2. CASE o \in nodes
  <2>1. PICK n \in Tree(d) : n.entry.clust # 0 /\ o = NodeObject(n)
    BY <1>2 DEF NodeObject
  <2> QED BY <2>1 DEF NodeObject
<1>3. CASE o \in roots
  <2>1. PICK r \in {RootChain} \ {0} : o = [at |-> <<>>, clust |-> r, size |-> 0, dir |-> TRUE]
    BY <1>3
  <2>2. o = RootObject /\ r = RootChain
    BY <2>1 DEF RootObject
  <2> QED BY <2>1, <2>2 DEF RootObject, Rooted
<1>4. CASE o \in files
  <2>1. PICK c \in copying : fp.sclust # 0 /\ o = FileObject(c)
    BY <1>4 DEF FileObject
  <2> QED BY <2>1 DEF FileObject, Held
<1> QED BY <1>1, <1>2, <1>3, <1>4

\* No two objects begin their chains at the same cluster.
LEMMA ObjectsApart ==
    ASSUME Areas, OpenFile, NEW d, NEW t, NEW J, Legible(d, t, Held(fp), J),
           NEW o \in Objects(d)
    PROVE  /\ Owned(t, Held(fp), o.clust)
           /\ \A r \in Objects(d) : o.clust = r.clust => o = r
<1>1. Begun(t, Tree(d)) /\ Separate(Tree(d), Tree(d)) /\ Alone(t, Held(fp))
  BY TreeApart DEF Legible
<1>2. \A n \in Tree(d) : n.entry.clust # 0 => Claimed(t, n.entry.clust)
  BY <1>1 DEF Begun
<1>3. \A c : Claimed(t, c) => Owned(t, Held(fp), c) /\ c \notin Held(fp) /\ c \notin Rooted
  BY <1>1 DEF Claimed, Owned, Alone
<1>4. \A c \in Held(fp) : c \notin Rooted
  BY <1>1 DEF Alone
<1>5. Owned(t, Held(fp), o.clust)
  BY <1>2, <1>3, ObjectIs DEF Owned
<1>6. ASSUME NEW r \in Objects(d), o.clust = r.clust PROVE o = r
  <2>1. CASE \E n \in Tree(d) : o = NodeObject(n) /\ n.entry.clust # 0 /\ o.clust = n.entry.clust
    <3>1. PICK n \in Tree(d) : o = NodeObject(n) /\ n.entry.clust # 0 /\ o.clust = n.entry.clust
      BY <2>1
    <3>2. r.clust \notin Held(fp) /\ r.clust \notin Rooted
      BY <1>2, <1>3, <1>6, <3>1
    <3>3. PICK m \in Tree(d) : r = NodeObject(m) /\ m.entry.clust # 0 /\ r.clust = m.entry.clust
      BY <3>2, ObjectIs
    <3>4. n = m
      BY <1>1, <1>6, <3>1, <3>3 DEF Separate
    <3> QED BY <3>1, <3>3, <3>4
  <2>2. CASE o = RootObject /\ o.clust = RootChain /\ o.clust \in Rooted
    <3>1. r.clust \in Rooted
      BY <1>6, <2>2
    <3>2. r = RootObject
      BY <1>2, <1>3, <1>4, <3>1, ObjectIs
    <3> QED BY <2>2, <3>2
  <2>3. CASE \E c \in copying : o = FileObject(c) /\ o.clust = fp.sclust /\ o.clust \in Held(fp)
    <3>1. PICK c \in copying : o = FileObject(c) /\ o.clust \in Held(fp)
      BY <2>3
    <3>2. PICK b \in copying : r = FileObject(b)
      BY <1>2, <1>3, <1>4, <1>6, <3>1, ObjectIs
    <3>3. b = c
      BY DEF OpenFile
    <3> QED BY <3>1, <3>2, <3>3
  <2> QED BY <2>1, <2>2, <2>3, ObjectIs
<1> QED BY <1>5, <1>6

\* The mark of the end, as it is read back.
LEMMA MarkIsRead ==
    ASSUME Areas
    PROVE  FatEntry(0, [i \in Bytes |-> 255]) = Mark
<1> DEFINE byte == [i \in Bytes |-> 255]
           x == byte[0]
           y == byte[1]
           z == byte[2]
           w == byte[3]
           n == FatEntry(0, byte)
<1>1. x = 255 /\ y = 255 /\ (fs.fs_type = "FAT32" => z = 255 /\ w = 255)
  BY DEF Bytes
<1>2. n = IF fs.fs_type = "FAT32" THEN (x + 256 * y) + 65536 * (z + 256 * (w % 16))
          ELSE IF fs.fs_type = "FAT16" THEN x + 256 * y
          ELSE IF 0 % 2 = 1 THEN (x + 256 * y) \div 16 ELSE (x + 256 * y) % 4096
  <2> HIDE DEF byte
  <2> QED BY DEF FatEntry, Areas
<1> SUFFICES n = Mark
  OBVIOUS
<1> HIDE DEF x, y, z, w, n
<1> QED BY <1>1, <1>2, SMT DEF Mark, Areas

\* The chain of an object is one, and shares no cluster with another's.
LEMMA ChainOfObject ==
    ASSUME Areas, OpenFile, NEW d, NEW t, NEW J, Legible(d, t, Held(fp), J), NEW o \in Objects(d)
    PROVE  LET chain == Chain(d, o.clust)
           IN  /\ chain # <<>> /\ chain \in Seq(Clusters)
               /\ IsInjective(chain)
               /\ FatOf(d, Last(chain)) >= fs.n_fatent
               /\ t.broken = "no" => FatOf(d, Last(chain)) = Mark
<1> DEFINE w == Chain(d, o.clust)
           F == Fat(t)
<1>1. Owned(t, Held(fp), o.clust) /\ Chained(F, J, t.broken)
  BY ObjectsApart DEF Legible
<1>2. Begins(F, J, o.clust) /\ Walk(F, w, o.clust, fs.n_fatent) /\ w \in Seq(Clusters)
  BY <1>1, OwnedWalk
<1> HIDE DEF w, F
<1>3. w # <<>> /\ IsInjective(w) /\ Len(w) \in 1 .. Len(w) /\ Ends(t.broken, F[w[Len(w)]])
  BY <1>1, <1>2, WalkEnds
<1>4. Last(w) = w[Len(w)] /\ w[Len(w)] \in Clusters
  BY <1>2, <1>3 DEF Last
<1>5. FatOf(d, Last(w)) = F[w[Len(w)]]
  BY <1>4 DEF Legible, F
<1>6. /\ fs.n_fatent <= F[w[Len(w)]] /\ F[w[Len(w)]] \in Nat
      /\ t.broken = "no" => F[w[Len(w)]] = Mark
  BY <1>3 DEF Ends
<1>7. fs.n_fatent \in Nat
  BY DEF Areas
<1> QED BY <1>2, <1>3, <1>5, <1>6, <1>7 DEF w

LEMMA ChainsOfObjects ==
    ASSUME Areas, OpenFile, NEW d, NEW t, NEW J, Legible(d, t, Held(fp), J),
           NEW o \in Objects(d), NEW r \in Objects(d), o # r
    PROVE  ToSet(Chain(d, o.clust)) \cap ToSet(Chain(d, r.clust)) = {}
<1> DEFINE w == Chain(d, o.clust)
           v == Chain(d, r.clust)
<1> SUFFICES ASSUME NEW i \in DOMAIN w, NEW j \in DOMAIN v, w[i] = v[j] PROVE FALSE
  BY DEF ToSet
<1>1. Owned(t, Held(fp), o.clust) /\ Owned(t, Held(fp), r.clust) /\ o.clust # r.clust
  BY ObjectsApart
<1> QED BY <1>1, OwnedApart

LEMMA ChainsFollow ==
    ASSUME \A d \in Drives : IsReal(d), FatInv
    PROVE  NoCrossLinks
<1> SUFFICES ASSUME AtWork, NoEntryIsHalf PROVE NoCrossLinks
  BY DEF NoCrossLinks
<1>1. Areas /\ Settled /\ OpenFile
  BY AreasFollow DEF AtWork, FatInv
<1>2. Whole(Memory)
  BY MemoryIs DEF NoEntryIsHalf, Whole
<1>3. PICK d, t : d = Overlay /\ t = Memory
  OBVIOUS
<1>4. PICK J : Legible(d, t, Held(fp), J)
  BY <1>1, <1>2, <1>3, OverlayLegible
<1>5. t.broken = broken
  BY <1>3, MemoryIs
<1> DEFINE objects == Objects(d)
           chains == [o \in objects |-> Chain(d, o.clust)]
           marked == FatEntry(0, [i \in Bytes |-> 255])
<1>6. ASSUME NEW o \in objects
      PROVE  /\ chains[o] # <<>> /\ IsInjective(chains[o])
             /\ FatOf(d, Last(chains[o])) >= fs.n_fatent
             /\ broken = "no" => FatOf(d, Last(chains[o])) = marked
  <2>1. chains[o] = Chain(d, o.clust)
    OBVIOUS
  <2>2. marked = Mark
    BY <1>1, MarkIsRead
  <2> HIDE DEF chains, marked
  <2> QED BY <1>1, <1>4, <1>5, <2>1, <2>2, ChainOfObject
<1>7. ASSUME NEW o \in objects, NEW r \in objects, o # r
      PROVE  ToSet(chains[o]) \cap ToSet(chains[r]) = {}
  BY <1>1, <1>4, <1>7, ChainsOfObjects
<1> QED BY <1>3, <1>6, <1>7 DEF NoCrossLinks

\* Whatever is packed, and whichever access of the disk fails, every
\* directory and every file has a chain of clusters of its own, which ends and
\* shares none with another: create_chain, put_fat and remove_chain keep the
\* FAT so, and register and close begin no chain in two entries.
THEOREM ChainsStayApart ==
    ASSUME \A d \in Drives : IsReal(d)
    PROVE  FatSpec => []NoCrossLinks
<1>1. FatInv => NoCrossLinks
  BY ChainsFollow
<1> QED BY <1>1, PackingHolds, PTL
=============================================================================
