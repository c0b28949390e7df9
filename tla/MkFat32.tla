------------------------------- MODULE MkFat32 -------------------------------
(***************************************************************************)
(* The image builder, src/src/tools/mkfat32/main.c over diskio.c: it makes *)
(* an image file of zeros, has FatFs partition and format it, and copies a *)
(* folder of the host into the volume.                                     *)
(*                                                                         *)
(* FatFs does what module Volume promises of it, which module FatFs shows; *)
(* its calls and the host's may fail wherever the code provides for it.    *)
(* Names and cells stand for strings and bytes.                            *)
(***************************************************************************)
EXTENDS Volume

CONSTANTS
    Hosts,          \* the folders to pack: [given, dirs, sizes]
    Hidden,         \* the names that begin with a dot
    FatName,        \* how FatFs compares a name: without its case
    Size,           \* the image size asked for, in cells
    BlkSize,        \* st_blksize of the image file, in cells
    ReadSize,       \* st_blksize of the files to pack, in cells
    SectorSize,     \* BLOCK_SIZE, in cells
    CodeSize,       \* a sector's cells in front of its partition table
    Track           \* the sectors f_mkfs leaves in front of the volume

\* A folder is a tree: a path is made of names, it leads to a directory or to
\* a file, and whatever lies on it is a directory.  No folder, nothing in it.
ASSUME HostAssumption ==
    \A h \in Hosts :
        LET paths == h.dirs \cup DOMAIN h.sizes
        IN  /\ paths \subseteq Seq(DOMAIN FatName) \ {<<>>}
            /\ h.dirs \cap DOMAIN h.sizes = {}
            /\ h.sizes \in [DOMAIN h.sizes -> Nat]
            /\ \A p \in paths : \A n \in 1 .. Len(p) - 1 : SubSeq(p, 1, n) \in h.dirs
            /\ ~h.given => paths = {}

\* Block and sector sizes are not zero.
ASSUME BlockAssumption ==
    /\ Size \in Nat
    /\ {BlkSize, ReadSize, SectorSize} \subseteq Nat \ {0}

VARIABLES
    stage,      \* of create_image
    host,       \* folder_pack: given or not, the paths of its directories,
                \* and the sizes of its files in cells
    image,      \* the image file: [0 .. n - 1 -> contents]
    stack,      \* the calls of add_folder, outermost first
    unread,     \* the files of the volume whose host file could not be read
    err,        \* what the outermost add_folder returned
    printed,    \* the kinds of failures that were printed
    exit        \* the exit code, or Running

mkVars == <<stage, host, image, stack, vol, unread, err, printed, exit>>

Running == 99
Killed == 139       \* by a signal
\* Contents of a cell of the image.
Zero == <<"zero", 0>>
Table == <<"table", 0>>
Data == <<"data", 0>>
NoImage == [c \in {} |-> Zero]
\* Memory behind a block: two cells stand for any number.
Garbage == <<<<<<>>, 0>>, <<<<>>, 0>>>>

-----------------------------------------------------------------------------
(* The host and FatFs.                                                     *)

Files == DOMAIN host.sizes
Entries(dir) == {p \in host.dirs \cup Files : Len(p) = Len(dir) + 1 /\ Front(p) = dir}

FatPath(p) == [i \in 1 .. Len(p) |-> FatName[p[i]]]
\* "join 2 paths"; the defect forgets the first.
JoinedBare(p1, p2) == <<p2>>
join_paths(p1, p2) == Append(p1, p2)

\* GET_SECTOR_COUNT of disk_ioctl.
SectorCount == Size \div SectorSize

\* The loop that writes zeros writes whole blocks until size is reached.
Zeros == ((Size + BlkSize - 1) \div BlkSize) * BlkSize

-----------------------------------------------------------------------------
(* create_image.                                                           *)

Fail(kind) ==
    /\ printed' = printed \cup {kind}
    /\ stage' = "exited"
    /\ exit' = 1

\* The file is made and filled, and reopened for FatFs; each step may fail.
MakeImage ==
    /\ stage = "create"
    /\ \/ /\ image' = [c \in 0 .. Zeros - 1 |-> Zero]
          /\ stage' = "format"
          /\ UNCHANGED <<printed, exit>>
       \/ /\ Fail("image")
          /\ UNCHANGED image
    /\ UNCHANGED <<host, stack, vol, unread, err>>

\* add_folder is called: it has yet to open its directory.
Call(dir, img) ==
    [dir |-> dir, img |-> img, at |-> "opendir", left |-> {}, file |-> <<>>, next |-> 0]

\* f_mkfs writes the partition table, and the volume behind the first track;
\* f_mount follows.
Formatted ==
    [c \in DOMAIN image |->
        IF c \in CodeSize .. SectorSize - 1 THEN Table
        ELSE IF c \in Track * SectorSize .. SectorCount * SectorSize - 1 THEN Data
        ELSE image[c]]

Format ==
    /\ stage = "format"
    /\ \/ /\ image' = Formatted
          /\ stage' = "pack"
          /\ stack' = IF host.given THEN <<Call(<<>>, <<>>)>> ELSE <<>>
          /\ UNCHANGED <<printed, exit>>
       \/ /\ Fail("image")
          /\ UNCHANGED <<image, stack>>
    /\ UNCHANGED <<host, vol, unread, err>>

\* The image is closed and the program exits with what add_folder returned.
Exit ==
    /\ stage = "pack"
    /\ stack = <<>>
    /\ stage' = "exited"
    /\ exit' = err
    /\ UNCHANGED <<host, image, stack, vol, unread, err, printed>>
-----------------------------------------------------------------------------
(* add_folder.                                                             *)

top == Last(stack)
Doing(at) == stage = "pack" /\ stack # <<>> /\ top.at = at
Under(call) == Append(Front(stack), call)

\* A call returns.  The outermost one returns to create_image; what a nested
\* one returns is dropped.
Return(code) ==
    /\ stack' = Front(stack)
    /\ err' = IF Len(stack) = 1 THEN code ELSE err

\* "return 1", behind a message.
GiveUp == Return(1) /\ printed' = printed \cup {"folder"}

Opendir ==
    /\ Doing("opendir")
    /\ \/ /\ stack' = Under([top EXCEPT !.at = "readdir", !.left = Entries(top.dir)])
          /\ UNCHANGED <<err, printed>>
       \/ GiveUp
    /\ UNCHANGED <<stage, host, image, vol, unread, exit>>

\* The entries come in any order.
Read(p) == [top EXCEPT !.left = @ \ {p}]

SkipHidden(p) ==
    /\ Last(p) \in Hidden
    /\ stack' = Under(Read(p))
    /\ UNCHANGED <<vol, unread, err, printed>>

\* f_mkdir, then the nested call.  A call that failed may have left the entry.
EnterFolder(p) ==
    /\ Last(p) \notin Hidden
    /\ p \in host.dirs
    /\ LET img == join_paths(top.img, Last(p))
       IN  \/ /\ Mkdir(FatPath(img))
              /\ stack' = Append(Under(Read(p)), Call(p, img))
              /\ UNCHANGED <<err, printed>>
           \/ GiveUp /\ (Mkdir(FatPath(img)) \/ UNCHANGED vol)
    /\ UNCHANGED unread

\* f_open makes the file; then the host's file is opened and looked at.
OpenFile(p) ==
    /\ Last(p) \notin Hidden
    /\ p \in Files
    /\ LET img == join_paths(top.img, Last(p))
       IN  \/ /\ Create(FatPath(img))
              /\ stack' = Under([Read(p) EXCEPT !.at = "copy", !.file = p, !.next = 0])
              /\ UNCHANGED <<err, printed>>
           \/ GiveUp /\ (CreateLost(FatPath(img)) \/ UNCHANGED vol)
    /\ UNCHANGED unread

Readdir ==
    /\ Doing("readdir")
    /\ \E p \in top.left : SkipHidden(p) \/ EnterFolder(p) \/ OpenFile(p)
    /\ UNCHANGED <<stage, host, image, exit>>

EndFolder ==
    /\ Doing("readdir")
    /\ top.left = {}
    /\ Return(0)
    /\ UNCHANGED <<stage, host, image, vol, unread, printed, exit>>

\* What the host file holds; its path in the volume; the block read next.
Content(p) == [i \in 1 .. host.sizes[p] |-> <<p, i>>]
Target == FatPath(join_paths(top.img, Last(top.file)))
Block ==
    LET end == top.next + ReadSize
    IN  SubSeq(Content(top.file), top.next + 1,
               IF end < host.sizes[top.file] THEN end ELSE host.sizes[top.file])

\* Defect: only whole blocks are copied.
MoreBlocksWhole == top.next + ReadSize <= host.sizes[top.file]

MoreBlocks == top.next < host.sizes[top.file]

\* Defect: a block that was not taken is tried again.
CopyBlockAgain ==
    /\ Doing("copy")
    /\ MoreBlocks
    /\ \/ /\ Write(Target, Block)
          /\ stack' = Under([top EXCEPT !.next = @ + ReadSize])
          /\ UNCHANGED printed
       \/ /\ WriteShort(Target, Block)
          /\ printed' = printed \cup {"write"}
          /\ UNCHANGED stack
    /\ UNCHANGED <<stage, host, image, unread, err, exit>>

\* A short write is printed, and the loop goes on.
CopyBlock ==
    /\ Doing("copy")
    /\ MoreBlocks
    /\ \/ Write(Target, Block) /\ UNCHANGED printed
       \/ WriteShort(Target, Block) /\ printed' = printed \cup {"write"}
    /\ stack' = Under([top EXCEPT !.next = @ + ReadSize])
    /\ UNCHANGED <<stage, host, image, unread, err, exit>>

\* read() answers -1, which f_write takes for a number of bytes: it writes
\* what lies behind the block until the volume or the process ends.
ReadFails ==
    /\ Doing("copy")
    /\ MoreBlocks
    /\ WriteShort(Target, Garbage)
    /\ unread' = unread \cup {Target}
    /\ \/ /\ printed' = printed \cup {"write"}
          /\ stack' = Under([top EXCEPT !.next = @ + ReadSize])
          /\ UNCHANGED <<stage, exit>>
       \/ /\ stage' = "exited"
          /\ exit' = Killed
          /\ UNCHANGED <<stack, printed>>
    /\ UNCHANGED <<host, image, err>>

\* f_close, then close.
CloseFile ==
    /\ Doing("copy")
    /\ ~MoreBlocks
    /\ \/ /\ Close(Target)
          /\ \/ /\ stack' = Under([top EXCEPT !.at = "readdir"])
                /\ UNCHANGED <<err, printed>>
             \/ GiveUp
       \/ Lose(Target) /\ GiveUp
    /\ UNCHANGED <<stage, host, image, unread, exit>>

-----------------------------------------------------------------------------
MkInit ==
    /\ stage = "create"
    /\ host \in Hosts
    /\ image = NoImage
    /\ stack = <<>>
    /\ VolumeInit
    /\ unread = {}
    /\ err = 0
    /\ printed = {}
    /\ exit = Running

MkNext ==
    \/ MakeImage
    \/ Format
    \/ Opendir
    \/ Readdir
    \/ EndFolder
    \/ CopyBlock
    \/ ReadFails
    \/ CloseFile
    \/ Exit

\* A process that runs on by itself; it makes no loop that waits.
MkSpec == MkInit /\ [][MkNext]_mkVars /\ WF_mkVars(MkNext)

-----------------------------------------------------------------------------
(* What must hold of it.                                                   *)

\* The paths without hidden names anywhere.
Visible(paths) == {p \in paths : \A i \in 1 .. Len(p) : p[i] \notin Hidden}

\* The calls of add_folder on the stack are a path down the host's folder
\* and the same path down the volume; the file being copied is in the volume.
MkTypeOK ==
    /\ exit \in {0, 1, Killed, Running} /\ (exit = Running <=> stage # "exited")
    /\ \A i \in 1 .. Len(stack) :
          /\ Len(stack[i].dir) = i - 1
          /\ stack[i].img = stack[i].dir
          /\ i > 1 => Front(stack[i].dir) = stack[i - 1].dir
                      /\ FatPath(stack[i].img) \in vol.dirs
          /\ stack[i].at = "copy" => i = Len(stack) /\ InState(Target, {"open", "short"})

\* At every moment a file of the volume holds the beginning of the one host
\* file of its path and nothing else: blocks never go to another file,
\* another folder or past a gap, whatever failed before.  A failed read()
\* spoils no file but its own.
NeverGarbled ==
    \A q \in DOMAIN vol.files :
        \E p \in Visible(Files) :
            /\ FatPath(p) = q
            /\ q \notin unread => IsPrefix(vol.files[q].data, Content(p))

\* A run that exits with 0 and printed nothing of a failure has packed the
\* whole folder: every visible file, complete and closed, every visible
\* directory, and nothing else.
SilentSuccessIsComplete ==
    exit = 0 /\ printed = {} /\ host.given =>
        /\ vol.dirs = {FatPath(p) : p \in Visible(host.dirs)}
        /\ DOMAIN vol.files = {FatPath(p) : p \in Visible(Files)}
        /\ \A p \in Visible(Files) :
              vol.files[FatPath(p)] = [data |-> Content(p), state |-> "closed"]

\* Every sector FatFs is told of exists in the image file.
EverySectorInFile ==
    image # NoImage => 0 .. SectorCount * SectorSize - 1 \subseteq DOMAIN image

-----------------------------------------------------------------------------
(* What a comment says, and the code does not do.                          *)

\* main.c on add_folder: its return value is the exit code of the program.
ExitCodeTellsFailure == exit = 0 => "folder" \notin printed
=============================================================================
