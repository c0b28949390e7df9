------------------------------ MODULE FatVolume ------------------------------
(***************************************************************************)
(* A volume of FatFs at work: add_folder (module MkFat32) packs a folder   *)
(* into it call by call, while the disk may fail in any one access, or in  *)
(* every access from one on.  What the directories and the FAT say is read *)
(* back from the disk, and compared with what the calls answered and with  *)
(* what a volume promises (module Volume).                                 *)
(***************************************************************************)
EXTENDS FatFs, SequencesExt

\* Paths are sequences of bytes, and files come in blocks of so many of them.
ASSUME FolderAssumption ==
    \A d \in Drives : \A e \in d.folder :
        e.dir \in Seq(0 .. 255) /\ e.name \in Seq(0 .. 255) /\ e.blocks \in Seq(Nat)

VARIABLES
    mem,        \* of the FATFS object: [win, winsect, wflag, last_clst,
                \*   free_clst, fsi: FSInfo is "clean", "dirty", "none"]
    fp,         \* the FIL object
    broken,     \* of the disk: "no", "once" (it has failed), "for good"
    todo,       \* the entries of the folder that are not packed yet:
                \*   [dir: its path, name: its bytes, blocks: what its file
                \*    holds, in pieces of a block; <<>> of a directory]
    stack,      \* the paths of the calls of add_folder, outermost first
    copying,    \* the entry whose file is open: a set of at most one
    told,       \* canonical path -> what its calls have answered
    last,       \* the call before: [call, path, res, short]
    view        \* what is read back: the state of a Volume

clientVars == <<mem, fp, broken, todo, stack, copying, told, last>>
fatVars == <<layoutVars, clientVars, view>>

-----------------------------------------------------------------------------
(* Reading a volume back, from the contents d of a disk.                   *)

\* The disk as it would be if the window and the file's buffer were written.
Overlay ==
    LET window == IF mem.wflag THEN {mem.winsect} ELSE {}
        buffer == IF fp.dirty THEN {fp.sect} ELSE {}
    IN  [s \in DOMAIN disk \cup window \cup buffer |->
            CASE s \in window -> mem.win
              [] s \in buffer \ window -> <<"data", fp.buf>>
              [] OTHER -> disk[s]]

FatOf(d, clst) ==
    LET Byte(bc) == FatBytes(SectorAt(d, fs.fatbase + bc \div ss))[bc % ss]
    IN  FatEntry(clst, [i \in Bytes |-> Byte(FatOffset(clst) + i)])

\* The clusters from clst on, as far as they are clusters; a chain that runs
\* in a circle is cut off.
Chain(d, clst) ==
    LET from[n \in 0 .. fs.n_fatent] ==
            [c \in 0 .. EndOfChain |->
                IF c \notin Clusters \/ n = 0 THEN <<>> ELSE <<c>> \o from[n - 1][FatOf(d, c)]]
    IN  from[fs.n_fatent][clst]

SectorsOf(d, clst) ==
    LET chain == Chain(d, clst)
    IN  [k \in 1 .. Len(chain) * fs.csize |->
            SectorAt(d, clst2sect(chain[(k - 1) \div fs.csize + 1]) + ((k - 1) % fs.csize))]

\* The entries in use of the directory in cluster clst, 0 for the root.
RootChain == IF fs.fs_type = "FAT32" THEN fs.dirbase ELSE 0
Table(d, clst) ==
    LET first == IF clst = 0 THEN RootChain ELSE clst
        sectors == IF first = 0
                   THEN [k \in 1 .. fs.n_rootdir \div Slots |-> SectorAt(d, fs.dirbase + k - 1)]
                   ELSE SectorsOf(d, first)
    IN  {e \in UNION {{Entries(sectors[k])[i] : i \in 0 .. Slots - 1} : k \in DOMAIN sectors} :
            e.name \notin {<<>>, DotName, DotDotName}}

\* The entries of the volume with their paths, as deep as there can be
\* directories with a cluster of their own.
Below(d, nodes) ==
    UNION {{[path |-> Append(n.path, e.name), entry |-> e] : e \in Table(d, n.entry.clust)} :
              n \in {m \in nodes : m.entry.dir}}
Root == [path |-> <<>>, entry |-> DirEntry(<<>>, 0)]
Tree(d) ==
    LET nodes[n \in 0 .. fs.n_fatent] ==
            IF n = 0 THEN {} ELSE Below(d, {Root} \cup nodes[n - 1])
    IN  nodes[fs.n_fatent]

\* What a file of size cells from cluster clst holds.
Contents(d, clst, size) ==
    LET sectors == SectorsOf(d, clst)
    IN  [i \in 1 .. size |->
            IF (i - 1) \div ss + 1 \in DOMAIN sectors
            THEN Cells(sectors[(i - 1) \div ss + 1])[(i - 1) % ss] ELSE NoCell]

AtWork == phase \in {"ready", "closed"} /\ drive.folder # {}

\* The volume as a program that reads it would find it, were the window and
\* the buffer written, and the open file's size known; with the states that
\* the calls told.
ToldState(p) == IF p \in DOMAIN told /\ told[p].state # "dir" THEN told[p].state ELSE "lost"
FileAt(d, n) ==
    LET open == ToldState(n.path) \in {"open", "short"}
    IN  [data  |-> IF open THEN Contents(d, fp.sclust, fp.objsize)
                   ELSE Contents(d, n.entry.clust, n.entry.size),
         state |-> ToldState(n.path)]
ViewOf(tree, d) ==
    [dirs  |-> {n.path : n \in {m \in tree : m.entry.dir}},
     files |-> [p \in {n.path : n \in {m \in tree : ~m.entry.dir}} |->
                   FileAt(d, CHOOSE n \in tree : n.path = p)]]

\* One view; a set, for TLC to read the disk once.
Views == IF AtWork THEN {ViewOf(tree, d) : tree \in {Tree(Overlay)}, d \in {Overlay}}
         ELSE {[dirs |-> {}, files |-> [p \in {} |-> <<>>]]}

-----------------------------------------------------------------------------
(* Calls.                                                                  *)

\* The memory a call begins with, and the one it leaves.
Memory ==
    [disk |-> disk, win |-> mem.win, winsect |-> mem.winsect, wflag |-> mem.wflag,
     last_clst |-> mem.last_clst, free_clst |-> mem.free_clst, fsi |-> mem.fsi,
     fp |-> fp, broken |-> broken,
     dp |-> [sclust |-> 0, dptr |-> 0, sect |-> 0, clust |-> 0, fn |-> <<>>],
     res |-> "OK", val |-> 0, path |-> <<>>]
Leaves(u) ==
    /\ disk' = u.disk
    /\ mem' = [win |-> u.win, winsect |-> u.winsect, wflag |-> u.wflag,
               last_clst |-> u.last_clst, free_clst |-> u.free_clst, fsi |-> u.fsi]
    /\ broken' = u.broken

\* join_paths of main.c
PathOf(e) == IF e.dir = <<>> THEN e.name ELSE e.dir \o <<47>> \o e.name

Segments(path) ==
    LET name[k \in 1 .. Len(path) + 1] == create_name(IF k = 1 THEN path ELSE name[k - 1].rest)
        final == CHOOSE k \in DOMAIN name : name[k].last /\ \A n \in 1 .. k - 1 : ~name[n].last
    IN  [k \in 1 .. final |-> name[k].fn]

\* A path as FatFs takes it; with the number of another drive, as it stands.
Canonical(path) ==
    LET here == get_ldnumber(path)
    IN  Segments(IF here = {} THEN path ELSE CHOOSE p \in here : TRUE)

Answer(path, state, data) ==
    told' = [p \in DOMAIN told \cup {Canonical(path)} |->
                IF p = Canonical(path) THEN [state |-> state, data |-> data] ELSE told[p]]
Answered(call, path, u, short) ==
    last' = [call |-> call, path |-> path, res |-> u.res, short |-> short]

Packing == phase = "ready" /\ stack # <<>> /\ copying = {}
Entry == {e \in todo : e.dir = Last(stack)}
StaysPut == UNCHANGED <<drive, phase, mk, fs>>

\* add_folder over f_mkdir: into the directory, or out of this one.
MkdirCall ==
    /\ Packing
    /\ \E e \in {x \in Entry : ~x.file} : \E u \in f_mkdir(Memory, PathOf(e)) :
          /\ Leaves(u)
          /\ Answered("f_mkdir", PathOf(e), u, FALSE)
          /\ todo' = todo \ {e}
          /\ \/ Ok(u) /\ stack' = Append(stack, PathOf(e)) /\ Answer(PathOf(e), "dir", <<>>)
             \/ ~Ok(u) /\ stack' = Front(stack) /\ UNCHANGED told
    /\ UNCHANGED <<fp, copying>> /\ StaysPut

OpenCall ==
    /\ Packing
    /\ \E e \in {x \in Entry : x.file} : \E u \in f_open(Memory, PathOf(e)) :
          /\ Leaves(u)
          /\ Answered("f_open", PathOf(e), u, FALSE)
          /\ todo' = todo \ {e}
          /\ fp' = u.fp
          /\ \/ /\ Ok(u)
                /\ copying' = {[path |-> PathOf(e), blocks |-> e.blocks, at |-> 0]}
                /\ Answer(PathOf(e), "open", <<>>)
                /\ UNCHANGED stack
             \/ ~Ok(u) /\ stack' = Front(stack) /\ UNCHANGED <<told, copying>>
    /\ StaysPut

\* What file c holds in its next block.
BlockOf(c) == [i \in 1 .. Head(c.blocks) |-> <<c.path, c.at + i>>]

\* A short write is reported, and the next block is tried all the same.
WriteCall ==
    /\ \E c \in {x \in copying : x.blocks # <<>>} : \E u \in f_write(Memory, BlockOf(c)) :
          LET before == told[Canonical(c.path)]
              short == u.fp.bw < Len(BlockOf(c))
          IN  /\ Leaves(u)
              /\ Answered("f_write", c.path, u, short)
              /\ fp' = [u.fp EXCEPT !.bw = 0]
              /\ copying' = {[c EXCEPT !.blocks = Tail(@), !.at = @ + Head(c.blocks)]}
              /\ Answer(c.path, IF short THEN "short" ELSE before.state,
                        before.data \o SubSeq(BlockOf(c), 1, u.fp.bw))
    /\ UNCHANGED <<todo, stack>> /\ StaysPut

CloseCall ==
    /\ \E c \in {x \in copying : x.blocks = <<>>} : \E u \in f_close(Memory) :
          /\ Leaves(u)
          /\ Answered("f_close", c.path, u, FALSE)
          /\ Answer(c.path, IF Ok(u) THEN "closed" ELSE "lost", told[Canonical(c.path)].data)
          /\ stack' = IF Ok(u) THEN stack ELSE Front(stack)
    /\ fp' = NoFile
    /\ copying' = {}
    /\ UNCHANGED todo /\ StaysPut

\* The host's file cannot be opened: add_folder returns, the file stays open.
Abandon ==
    /\ \E c \in copying :
          /\ c.at = 0
          /\ Answer(c.path, "lost", <<>>)
    /\ stack' = Front(stack)
    /\ fp' = NoFile
    /\ copying' = {}
    /\ UNCHANGED <<disk, mem, broken, todo, last>> /\ StaysPut

EndFolder ==
    /\ Packing
    /\ Entry = {}
    /\ stack' = Front(stack)
    /\ UNCHANGED <<disk, mem, fp, broken, todo, copying, told, last>> /\ StaysPut

\* The image file is closed; what is in the window is gone.
CloseImage ==
    /\ phase = "ready"
    /\ stack = <<>>
    /\ phase' = "closed"
    /\ UNCHANGED <<drive, mk, disk, fs, clientVars>>

FatInit ==
    /\ LayoutInit
    /\ mem = [win |-> ZeroSector, winsect |-> NoSector, wflag |-> FALSE,
              last_clst |-> Unknown, free_clst |-> Unknown, fsi |-> "none"]
    /\ fp = NoFile
    /\ broken = "no"
    /\ todo = drive.folder
    /\ stack = <<<<>>>>
    /\ copying = {}
    /\ told = [p \in {} |-> <<>>]
    /\ last = [call |-> "none", path |-> <<>>, res |-> "OK", short |-> FALSE]
    /\ view \in Views

\* "Get FSInfo if available": mount_volume leaves its last sector in the
\* window, and does without FSInfo, then and later, when it cannot be read.
\* One that f_mkfs failed to write knows nothing, but is written later.
InWindow(sect, fsi) ==
    [win |-> SectorAt(disk, sect), winsect |-> sect, wflag |-> FALSE,
     last_clst |-> Unknown, free_clst |-> Unknown, fsi |-> fsi]
GetInfo(sect) ==
    \/ /\ IF sect \in DOMAIN disk
          THEN mem' = [InWindow(sect, "clean") EXCEPT !.last_clst = disk[sect][2].next,
                                                      !.free_clst = disk[sect][2].free]
          ELSE mem' = InWindow(sect, "clean")
       /\ UNCHANGED broken
    \/ /\ ~drive.sound /\ broken = "no"
       /\ mem' = [InWindow(sect - 1, "none") EXCEPT !.winsect = NoSector]
       /\ broken' \in {"once", "for good"}

\* f_mkfs and the mount.
Format ==
    /\ LayoutNext
    /\ \/ /\ phase' # "ready"
          /\ UNCHANGED mem
          /\ broken' = IF phase' # "mount" \/ Unchecked \subseteq DOMAIN disk' THEN broken ELSE "once"
       \/ /\ phase' = "ready" /\ fs'.fs_type # "FAT32"
          /\ mem' = InWindow(fs'.volbase, "none")
          /\ UNCHANGED broken
       \/ phase' = "ready" /\ fs'.fs_type = "FAT32" /\ GetInfo(fs'.volbase + 1)
    /\ UNCHANGED <<fp, todo, stack, copying, told, last>>

Step ==
    \/ Format
    \/ MkdirCall
    \/ OpenCall
    \/ WriteCall
    \/ CloseCall
    \/ Abandon
    \/ EndFolder
    \/ CloseImage

FatNext == Step /\ view' \in Views'

\* f_mkfs and the mount run on by themselves.
FatSpec == FatInit /\ [][FatNext]_fatVars /\ WF_layoutVars(LayoutNext)
-----------------------------------------------------------------------------
(* What must hold of it.                                                   *)

\* The objects with clusters of their own: those of the tree, the root of
\* FAT32, and the open file, whose entry does not know them yet.
Objects(d) ==
    {[at |-> n.path, clust |-> n.entry.clust, size |-> n.entry.size, dir |-> n.entry.dir] :
        n \in {m \in Tree(d) : m.entry.clust # 0}}
    \cup {[at |-> <<>>, clust |-> r, size |-> 0, dir |-> TRUE] : r \in {RootChain} \ {0}}
    \cup {[at |-> Canonical(c.path), clust |-> fp.sclust, size |-> fp.objsize, dir |-> FALSE] :
            c \in {b \in copying : fp.sclust # 0}}

\* The window and the file object are what the calls leave, and every sector
\* the engine has touched lies in the volume and holds what its place is for:
\* nothing is written behind the last cluster.
FatTypeOK ==
    AtWork =>
        /\ mem.wflag => mem.winsect \in fs.fatbase .. drive.sectors - 1
        /\ mem.last_clst \in Clusters \cup {Unknown}
        /\ fp.sclust \in Clusters \cup {0} /\ fp.clust \in Clusters \cup {0}
        /\ copying = {} => fp = NoFile
        /\ LET d == Overlay
           IN  \A s \in DOMAIN d :
                  /\ s < fs.database + (fs.n_fatent - 2) * fs.csize
                  /\ s < fs.fatbase => d[s][1] \in {"mbr", "vbr", "fsinfo"}
                  /\ s \in fs.fatbase .. fs.fatbase + fs.fsize - 1 => d[s][1] \in {"fat", "zero"}
                  /\ s \in fs.fatbase + fs.fsize .. fs.database - 1 => d[s][1] \in {"dir", "zero"}
                  /\ s >= fs.database => d[s][1] \in {"dir", "data", "zero"}

\* put_fat may have written one byte of a FAT12 entry only.  Of an end or
\* over an end it makes 0xF00 or more, and on a volume with so many entries
\* that may be a cluster.
HalfEntry == 15 * 256
NoEntryIsHalf == broken = "no" \/ fs.fs_type # "FAT12" \/ fs.n_fatent <= HalfEntry

\* create_chain and put_fat keep the FAT a set of chains: every directory and
\* every file has a chain of its own, which ends and shares no cluster with
\* another; also after a failed access in the middle of a call, as long as
\* the window is not lost.
NoCrossLinks ==
    AtWork /\ NoEntryIsHalf =>
        LET d == Overlay
            objects == Objects(d)
            chains == [o \in objects |-> Chain(d, o.clust)]
            marked == FatEntry(0, [i \in Bytes |-> 255])
        IN  /\ \A o \in objects :
                  LET chain == chains[o]
                  IN  /\ chain # <<>>
                      /\ IsInjective(chain)
                      /\ FatOf(d, Last(chain)) >= fs.n_fatent
                      /\ broken = "no" => FatOf(d, Last(chain)) = marked
            /\ \A o, r \in objects :
                  o # r => ToSet(chains[o]) \cap ToSet(chains[r]) = {}

\* What f_mkdir or f_close has confirmed is on the disk, in full, whatever
\* failed later: sync_fs leaves nothing of it in the window.
Durable ==
    AtWork =>
        LET tree == Tree(disk)
        IN  \A p \in {q \in DOMAIN told : told[q].state \in {"dir", "closed"}} :
                \E n \in tree :
                    /\ n.path = p
                    /\ n.entry.dir = (told[p].state = "dir")
                    /\ n.entry.dir \/ Contents(disk, n.entry.clust, n.entry.size) = told[p].data

\* A file has as many clusters as its size asks for: never too few, and none
\* too many as long as the disk does not fail.  Then a cluster is taken
\* exactly when an object has it: a call that is refused gives back what it
\* took.  FSInfo counts the clusters that are left, in memory and, when it is
\* clean, on the disk.
NothingLeaks ==
    AtWork =>
        LET d == Overlay
            objects == Objects(d)
            files == {o \in objects : ~o.dir}
            Room(o) == Len(Chain(d, o.clust)) * fs.csize * ss
            taken == {c \in Clusters : FatOf(d, c) # 0}
            info == SectorAt(disk, fs.volbase + 1)
        IN  /\ NoEntryIsHalf => \A o \in files : o.size <= Room(o)
            /\ broken = "no" =>
                  /\ \A o \in files : Room(o) - fs.csize * ss < o.size
                  /\ taken = UNION {ToSet(Chain(d, o.clust)) : o \in objects}
                  /\ fs.fs_type = "FAT32" => mem.free_clst = Cardinality(Clusters \ taken)
                  /\ mem.fsi = "clean" => info = FsInfo(mem.free_clst, mem.last_clst)

\* A call is refused for want of room only when there is none: no free
\* cluster, one that was the new directory's and then was wanted for its
\* parent, or no entry left in the root.
FullMeansFull ==
    AtWork /\ broken = "no" /\ (last.res = "DENIED" \/ last.short) =>
        LET d == Overlay
            free == {c \in Clusters : FatOf(d, c) = 0}
            rootFull == fs.fs_type # "FAT32" /\ Cardinality(Table(d, 0)) = fs.n_rootdir
            exists == Canonical(last.path) \in {n.path : n \in Tree(d)}
        IN  CASE last.call = "f_write" -> free = {}
              [] last.call = "f_mkdir" -> Cardinality(free) <= 1 \/ rootFull
              [] OTHER                 -> free = {} \/ rootFull \/ exists

\* Every call does to the tree what module Volume promises of it, or nothing:
\* the files and directories that are read back are those of a Volume.
Paths == {Canonical(PathOf(e)) : e \in drive.folder}
Pieces ==
    UNION {{[i \in 1 .. e.blocks[k] |-> <<PathOf(e), SumFunction(SubSeq(e.blocks, 1, k - 1)) + i>>] :
              k \in DOMAIN e.blocks} : e \in drive.folder}
Promise == INSTANCE Volume WITH vol <- view
KeepsPromise == Promise!VolumeInit /\ [][Promise!VolumeNext(Paths, Pieces)]_view
=============================================================================
