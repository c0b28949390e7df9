-------------------------------- MODULE Scene --------------------------------
(***************************************************************************)
(* From the built programs to the running machine: BuildRootfs.cmake packs *)
(* the kernel with mkfat32 (module MkFat32), copies the boot block and the *)
(* loader in front of the volume with dd, and the machine boots the image  *)
(* (module Boot).  Three parts written apart must agree on one layout:     *)
(* the script's sizes, f_mkfs's first track, and boot.S's sectors.         *)
(***************************************************************************)
EXTENDS MkFat32

CONSTANTS
    MAX_SIZE,           \* of the boot block: 446
    RES_SIZE,           \* of the loader: 4096
    DdSectors,          \* "count=8" of the dd that copies the loader
    LOADER_SECTORS,     \* of asm.h: 8
    BootSizes, LoaderSizes      \* what the compiler may have made

\* The layout the three parts share: the boot block ends before the partition
\* table, the loader fits what dd copies and what boot.S reads, and all of it
\* fits the track in front of the volume, which the image is large enough for
\* (f_mkfs refuses a smaller one).
ASSUME LayoutAssumption ==
    /\ {MAX_SIZE, RES_SIZE, DdSectors, LOADER_SECTORS, CodeSize, Track} \subseteq Nat
    /\ BootSizes \cup LoaderSizes \subseteq Nat
    /\ MAX_SIZE <= CodeSize /\ CodeSize <= SectorSize
    /\ RES_SIZE <= DdSectors * SectorSize /\ RES_SIZE <= LOADER_SECTORS * SectorSize
    /\ SectorSize + DdSectors * SectorSize <= Track * SectorSize
    /\ Track * SectorSize <= Size

VARIABLES
    sizes,      \* of bootblock and loader, in cells
    script,     \* the step of BuildRootfs.cmake
    ddFailed,   \* a dd did not do its work
    pc, memory, code, screen, failed    \* of the machine

Machine == INSTANCE Boot WITH disk <- image

scriptVars == <<sizes, script, ddFailed>>
machineVars == <<pc, memory, code, screen, failed>>
sceneVars == <<mkVars, scriptVars, machineVars>>

-----------------------------------------------------------------------------
(* BuildRootfs.cmake.                                                      *)

\* dd bs=.. count=.. seek=.. conv=notrunc: n cells of a file, in place.
CellOf(file, i) == IF file = "/dev/zero" THEN Zero ELSE <<file, i>>
Dd(file, n, seek) ==
    [c \in DOMAIN image |->
        IF c \in seek .. seek + n - 1 THEN CellOf(file, c - seek) ELSE image[c]]

\* No exit code of a dd is looked at: one that stops early goes unnoticed.
Copied(file, n, seek) ==
    \/ image' = Dd(file, n, seek) /\ UNCHANGED ddFailed
    \/ \E k \in 0 .. n - 1 : image' = Dd(file, k, seek) /\ ddFailed' = TRUE

\* Defect: the loader's size is not looked at.
BootFits == sizes.boot <= MAX_SIZE

SizesFit == sizes.boot <= MAX_SIZE /\ sizes.loader <= RES_SIZE

\* "Get file size": a program too large is fatal.
CheckSizes ==
    /\ script = "check"
    /\ script' = IF SizesFit THEN "pack" ELSE "fatal"
    /\ UNCHANGED <<mkVars, sizes, ddFailed, machineVars>>

\* "Build temp img": mkfat32 runs.
RunMkfat32 ==
    /\ script = "pack"
    /\ MkNext
    /\ UNCHANGED <<scriptVars, machineVars>>

\* Defect: a failure of mkfat32 goes unnoticed.
PackedAnyway ==
    /\ script = "pack"
    /\ exit # Running
    /\ script' = "fill"
    /\ UNCHANGED <<mkVars, sizes, ddFailed, machineVars>>

\* Its exit code is looked at.
Packed ==
    /\ script = "pack"
    /\ exit # Running
    /\ script' = IF exit = 0 THEN "fill" ELSE "fatal"
    /\ UNCHANGED <<mkVars, sizes, ddFailed, machineVars>>

DdStep(from, to) ==
    /\ script = from
    /\ script' = to
    /\ UNCHANGED <<stage, host, stack, vol, unread, err, printed, exit,
                   sizes, machineVars>>

\* Defect: the whole sector is filled.
FillSector ==
    /\ DdStep("fill", "copyboot")
    /\ Copied("/dev/zero", SectorSize, 0)

\* "Fill with 0 at start"
FillFront ==
    /\ DdStep("fill", "copyboot")
    /\ Copied("/dev/zero", MAX_SIZE, 0)

\* "Copy boot block"
CopyBootBlock ==
    /\ DdStep("copyboot", "copyloader")
    /\ LET n == IF sizes.boot < MAX_SIZE THEN sizes.boot ELSE MAX_SIZE
       IN  Copied("boot", n, 0)

\* "Copy loader"
CopyLoader ==
    /\ DdStep("copyloader", "success")
    /\ LET most == DdSectors * SectorSize
           n == IF sizes.loader < most THEN sizes.loader ELSE most
       IN  Copied("loader", n, SectorSize)

\* The machine runs the finished image.
RunMachine ==
    /\ script = "success"
    /\ Machine!BootNext
    /\ UNCHANGED <<stage, host, stack, vol, unread, err, printed, exit,
                   script, ddFailed>>

SceneInit ==
    /\ MkInit
    /\ sizes \in [boot : BootSizes, loader : LoaderSizes]
    /\ script = "check"
    /\ ddFailed = FALSE
    /\ Machine!BootInit

SceneNext ==
    \/ CheckSizes
    \/ RunMkfat32
    \/ Packed
    \/ FillFront
    \/ CopyBootBlock
    \/ CopyLoader
    \/ RunMachine

\* Tools and machine run on by themselves.
SceneSpec == SceneInit /\ [][SceneNext]_sceneVars /\ WF_sceneVars(SceneNext)

-----------------------------------------------------------------------------
(* What must hold of it.                                                   *)

\* The builder's calls and the machine are well-formed, before and after the
\* build.
SceneTypeOK == MkTypeOK /\ Machine!BootTypeOK

\* Every sector FatFs is told of lies in the image file, and whatever is
\* copied in front of it, the partition table and every cell of the volume
\* stay as mkfat32 left them.
VolumeSurvives ==
    /\ EverySectorInFile
    /\ exit = 0 =>
          \A c \in DOMAIN image :
              Formatted[c] \in {Table, Data} => image[c] = Formatted[c]

\* A build that reports success, and whose copies all did their work, boots:
\* the processor is never sent into anything but the boot block and the
\* loader that were built, whole.
BootsWhatWasBuilt == pc = "lost" => ddFailed

\* A machine that boots finds the kernel, and every other file of the packed
\* folder itself, whole in the volume, unless a write came up short, which
\* mkfat32 prints and does not report; what is lost deeper down it may miss.
BootsWithKernel ==
    pc # "off" /\ "write" \notin printed =>
        \A p \in Visible(Files) :
            Len(p) = 1 =>
                /\ FatPath(p) \in DOMAIN vol.files
                /\ vol.files[FatPath(p)] = [data |-> Content(p), state |-> "closed"]

\* The machine stops with the code of what failed, before any loader.
ErrorNamesStep == Machine!ErrorNamesStep

\* The build ends, and a machine that starts comes to rest, in the loader or
\* with an error on the screen.
ComesToRest == <>(script = "fatal" \/ pc \in {"spin", "halted", "lost"})
=============================================================================
