-------------------------------- MODULE Boot ---------------------------------
(***************************************************************************)
(* The boot chain: the firmware reads sector 0, boot.S reads the loader    *)
(* behind it, loader.S enters protected mode and calls bootmain.           *)
(*                                                                         *)
(* The firmware is external: it may lack the int 13h extensions, a read    *)
(* may fail half way, and it need not open the A20 line.  The processor    *)
(* runs what lies in memory: code that is not the code that was written    *)
(* for the place leads nowhere (lost).                                     *)
(***************************************************************************)
EXTENDS Integers, Sequences

CONSTANTS
    SectorSize,         \* 512, in cells
    LOADER_SECTORS      \* 8

VARIABLES
    disk,       \* [0 .. n - 1 -> contents]; never written here
    sizes,      \* of the two programs: [boot, loader]
    pc,         \* where the processor is
    memory,     \* from BOOT_START (0x7C00) on
    code,       \* the character at ShitHappensCodePos
    screen,     \* the lines printed
    failed      \* the firmware service that failed, if one did

bootVars == <<disk, sizes, pc, memory, code, screen, failed>>

BOOT_START == 0
LOADER_START == BOOT_START + SectorSize     \* 0x7E00
MemorySize == LOADER_START + LOADER_SECTORS * SectorSize

\* Defect: a sector too many.
ReadIntoBeyond(address, sector, count) ==
    [a \in BOOT_START .. address + (count + 1) * SectorSize - 1 |->
        IF a \in address .. address + (count + 1) * SectorSize - 1
           /\ a - address + sector * SectorSize \in DOMAIN disk
        THEN disk[a - address + sector * SectorSize]
        ELSE IF a \in DOMAIN memory THEN memory[a] ELSE <<"noise", 0>>]

\* Memory after sectors of the disk were read to an address.
ReadInto(address, sector, count) ==
    [a \in DOMAIN memory |->
        LET c == a - address + sector * SectorSize
        IN  IF a \in address .. address + count * SectorSize - 1 /\ c \in DOMAIN disk
            THEN disk[c] ELSE memory[a]]

\* A program of n cells lies at an address.
LiesAt(program, n, address) ==
    \A i \in 0 .. n - 1 :
        address + i \in DOMAIN memory /\ memory[address + i] = <<program, i>>
BootLies == LiesAt("boot", sizes.boot, BOOT_START)
LoaderLies == LiesAt("loader", sizes.loader, LOADER_START)

PrintString(line) == screen' = Append(screen, line)

\* The firmware reads sector 0 and jumps there.
PowerOn ==
    /\ pc = "off"
    /\ memory' = ReadInto(BOOT_START, 0, 1)
    /\ pc' = "reset"
    /\ UNCHANGED <<disk, sizes, code, screen, failed>>

\* start: segments and stack, and a line printed.
Start ==
    /\ pc = "reset"
    /\ \/ BootLies /\ PrintString("Start Booting!") /\ pc' = "CheckInt13"
       \/ ~BootLies /\ pc' = "lost" /\ UNCHANGED screen
    /\ UNCHANGED <<disk, sizes, memory, code, failed>>

\* The code is stored between the comparison and the jump.
CheckInt13 ==
    /\ pc = "CheckInt13"
    /\ code' = "1"
    /\ \/ pc' = "LoadLoader" /\ UNCHANGED failed
       \/ pc' = "BootLoaderEnd" /\ failed' = "int13"
    /\ UNCHANGED <<disk, sizes, memory, screen>>

\* Defect: the code is stored behind the jump.
LoadLoaderLate ==
    /\ pc = "LoadLoader"
    /\ \/ /\ memory' = ReadInto(LOADER_START, 1, LOADER_SECTORS)
          /\ PrintString("Go to Loader!")
          /\ pc' = "loader"
          /\ code' = "3"
          /\ UNCHANGED failed
       \/ /\ \E n \in 0 .. LOADER_SECTORS : memory' = ReadInto(LOADER_START, 1, n)
          /\ pc' = "BootLoaderEnd"
          /\ failed' = "read"
          /\ UNCHANGED <<code, screen>>
    /\ UNCHANGED <<disk, sizes>>

\* LoadLoader and ReadDisk: sectors 1 .. LOADER_SECTORS to LOADER_START.
LoadLoader ==
    /\ pc = "LoadLoader"
    /\ code' = "3"
    /\ \/ /\ memory' = ReadInto(LOADER_START, 1, LOADER_SECTORS)
          /\ PrintString("Go to Loader!")
          /\ pc' = "loader"
          /\ UNCHANGED failed
       \/ /\ \E n \in 0 .. LOADER_SECTORS : memory' = ReadInto(LOADER_START, 1, n)
          /\ pc' = "BootLoaderEnd"
          /\ failed' = "read"
          /\ UNCHANGED screen
    /\ UNCHANGED <<disk, sizes>>

\* Defect: the boot is tried again.
BootLoaderAgain ==
    /\ pc = "BootLoaderEnd"
    /\ pc' = "CheckInt13"
    /\ failed' = "none"
    /\ UNCHANGED <<disk, sizes, memory, code, screen>>

\* The error line, with its code, and hlt with interrupts off.
BootLoaderEnd ==
    /\ pc = "BootLoaderEnd"
    /\ PrintString(<<"Error", code>>)
    /\ pc' = "halted"
    /\ UNCHANGED <<disk, sizes, memory, code, failed>>

\* loader.S: A20 is asked for, the answer not looked at; protected mode.
EnterProtectedMode ==
    /\ pc = "loader"
    /\ pc' = IF LoaderLies THEN "bootmain" ELSE "lost"
    /\ UNCHANGED <<disk, sizes, memory, code, screen, failed>>

\* bootmain is empty and returns; the loader spins.
Bootmain ==
    /\ pc = "bootmain"
    /\ pc' = "spin"
    /\ UNCHANGED <<disk, sizes, memory, code, screen, failed>>

BootInit ==
    /\ pc = "off"
    /\ memory = [a \in 0 .. MemorySize - 1 |-> <<"noise", 0>>]
    /\ code = "0"
    /\ screen = <<>>
    /\ failed = "none"

BootNext ==
    \/ PowerOn
    \/ Start
    \/ CheckInt13
    \/ LoadLoader
    \/ BootLoaderEnd
    \/ EnterProtectedMode
    \/ Bootmain

-----------------------------------------------------------------------------
\* The machine's state is well-formed: a step is one of the programs' labels,
\* and memory covers exactly the boot sector and the loader's sectors.
BootTypeOK ==
    /\ pc \in {"off", "reset", "CheckInt13", "LoadLoader", "BootLoaderEnd",
               "loader", "bootmain", "spin", "halted", "lost"}
    /\ DOMAIN memory = 0 .. MemorySize - 1
    /\ code \in {"0", "1", "3"}

\* A machine that stops with an error shows the code of the service that
\* failed, not of one that was tried before, and has printed nothing else but
\* the line of the boot block: it has announced no loader.
ErrorNamesStep ==
    pc = "halted" =>
        screen = <<"Start Booting!", <<"Error", IF failed = "int13" THEN "1" ELSE "3">>>>
=============================================================================
