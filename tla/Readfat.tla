------------------------------- MODULE Readfat -------------------------------
(***************************************************************************)
(* The image reader, src/test/readfat/main.c: it looks for a file in the   *)
(* root directory of an image and writes what the file holds to a file of  *)
(* that name.  It has an opinion of its own of where things lie, takes the *)
(* volume for FAT12, and reads the FAT from the file's first entry on,     *)
(* three bytes for two entries, without following them.                    *)
(***************************************************************************)
EXTENDS FatVolume

None == <<>>

\* convert_char
IsPlain(c) == c \in 48 .. 57 \cup 65 .. 90 \cup 97 .. 122

\* The name as an entry has it; None for one it refuses.  Without a dot the
\* name is not measured: it runs on into the suffix, and into the terminator.
\* One that runs on behind its 12 bytes is None here too, though the program
\* goes on with what it has overwritten.
Converted(name) ==
    LET dot == FirstOf(name, {Dot})
        upper == [i \in DOMAIN name |-> Upper(name[i])]
        base == SubSeq(upper, 1, dot - 1)
        suffix == SubSeq(upper, dot + 1, Len(name))
        plain == \A i \in DOMAIN name : i = dot \/ IsPlain(name[i])
        dotted == dot <= Len(name)
        fits == IF dotted THEN Len(base) <= Body /\ Len(suffix) <= Extension
                ELSE Len(name) <= Body + Extension + 1
    IN  CASE plain /\ fits /\ ~dotted -> Padded(upper, Body + Extension)
          [] plain /\ fits /\ dotted  -> Padded(base, Body) \o Padded(suffix, Extension)
          [] ~plain \/ ~fits          -> None

\* The areas: one sector is taken to be reserved when the FAT is looked for,
\* the boot record's number when the root is.
StartLba(d) == SectorAt(d, 0)[2].StLba
Boot12(d) == SectorAt(d, StartLba(d))[2]
FatTable(d) == StartLba(d) + 1
RootDir(d) == StartLba(d) + Boot12(d).RsvdSecCnt + Boot12(d).FATSz16
DataArea(d) == RootDir(d) + (Boot12(d).RootEntCnt * drive.dire) \div ss

RootEntry(d, i) == Entries(SectorAt(d, RootDir(d) + i \div Slots))[i % Slots]

\* The first entry with the name, as far as the first free one: a set of at
\* most one.
FileEntry(d, filename) ==
    LET Stops(i) == RootEntry(d, i).name \in {<<>>, filename}
        stops == {i \in 0 .. Boot12(d).RootEntCnt - 1 : Stops(i)}
    IN  {RootEntry(d, i) : i \in {k \in stops : /\ \A n \in stops : k <= n
                                                /\ RootEntry(d, k).name # <<>>}}

\* Defect: a file that begins in the upper half of a pair is read from the
\* lower one.
ItemEven(d, n) ==
    LET Byte(k) == LET bc == 3 * (n \div 2) + k
                   IN  FatBytes(SectorAt(d, FatTable(d) + bc \div ss))[bc % ss]
    IN  (Byte(1) % 16) * 256 + Byte(0)

\* The n-th entry of the FAT: the lower or the upper half of three bytes.
Item(d, n) ==
    LET Byte(k) == LET bc == 3 * (n \div 2) + k
                   IN  FatBytes(SectorAt(d, FatTable(d) + bc \div ss))[bc % ss]
    IN  IF n % 2 = 0 THEN (Byte(1) % 16) * 256 + Byte(0) ELSE Byte(2) * 16 + Byte(1) \div 16

\* The clusters it reads: the first, and what the entries from there on say,
\* up to the first 0xFFF.  It reads at most what the FAT has room for.
ClustersFrom(d, start) ==
    LET ends == {n \in start .. (Boot12(d).FATSz16 * ss * 2) \div 3 - 1 : Item(d, n) = 4095}
        stop == CHOOSE n \in ends : \A k \in ends : n <= k
    IN  IF ends = {} THEN None
        ELSE <<start>> \o [k \in 1 .. stop - start |-> Item(d, start + k - 1)]

\* What it writes, in cells; None when it ends with an error.  A cluster more
\* than the size asks for is a read of nothing, and an error.
readfat(d, name) ==
    LET csize == Boot12(d).SecPerClus * Boot12(d).BytsPerSec
        Sector(c, i) == DataArea(d) + (c - 2) * Boot12(d).SecPerClus + (i % csize) \div ss
        Read(e, clusters) ==
            IF clusters = None \/ Len(clusters) > CeilDiv(e.size, csize) THEN None
            ELSE [i \in 1 .. e.size |->
                    IF (i - 1) \div csize >= Len(clusters) THEN NoCell
                    ELSE Cells(SectorAt(d, Sector(clusters[(i - 1) \div csize + 1], i - 1)))
                            [(i - 1) % ss]]
        entries == FileEntry(d, Converted(name))
    IN  IF Converted(name) = None \/ entries = {} THEN None
        ELSE LET e == CHOOSE x \in entries : TRUE IN Read(e, ClustersFrom(d, e.clust))

-----------------------------------------------------------------------------
(* What must hold of it.                                                   *)

\* The image reader gets out of a FAT12 image what the image builder put in,
\* for a file in the root that is not empty and has a name it accepts, as
\* long as the disk did not fail: create_chain then lays every file out in
\* one piece, which is all that readfat can read.
ReadsBack ==
    phase = "closed" /\ drive.folder # {} /\ broken = "no" /\ fs.fs_type = "FAT12" =>
        \A e \in {x \in drive.folder : x.file /\ x.dir = <<>> /\ Converted(x.name) # None} :
            LET p == Canonical(e.name)
            IN  p \in DOMAIN told /\ told[p].state = "closed" /\ told[p].data # <<>>
                    => readfat(disk, e.name) = told[p].data
=============================================================================
