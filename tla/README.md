# Scene (cwzCore): specifications

TLA+ specifications of the Scene toy operating system, their model-checking
runs, and proofs. Paths below are relative to the root of the repository.

## 1. The system

Scene is built on a Linux host and boots from a disk image. What exists of it
falls in two halves that share no code: the **build and boot chain** and the
**kernel with its libc**. The boot chain does not reach the kernel yet: the C
part of the loader, `src/arch/ia32/boot/loader/src/main.c`, is an empty
`bootmain`.

```
 host                                            machine
 ----                                            -------
 BuildRootfs.cmake                               firmware reads sector 0
   |  sizes of bootblock, loader                   v
   |--> mkfat32 (main.c over diskio.c)           boot.S   int 13h, 8 sectors
   |       |--> FatFs: partition, FAT volume       v
   |       `--> add_folder: the kernel            loader.S A20, protected mode
   `--> dd x 3: zeros, boot block, loader          v
            `----------- scene.img ----------->   bootmain (empty)

 kernel:  printf info warn err (io.c)
             |--> _vsnprintf (libc vsprintf.c) --> buf --> strlen
             `--> TUI_* (tui.c) --> video memory, port.c --> CRT controller
          libc: string.c, strtol.c, atoi.c, itoa.c, math.c
```

### Components

| Component | State | Operations | What makes it correct |
|---|---|---|---|
| Console driver `tui.c` | the page, `TUI_pos`, `TUI_color`, two registers of the CRT controller | init, clear, put, write, colour, position | the screen shows the text printed; the device cursor follows; no store leaves video memory |
| Port I/O `port.c` | the device | in/out | through the driver |
| Kernel output `io.c` | one global buffer | printf, info, warn, err, wrappers | prints what it was given, cut to the buffer, and leaves colour and buffer as they were |
| Formatter `vsprintf.c` | one call: scanner, arguments, output index | `vsnprintf_`, `snprintf_`, `sprintf_` | stays in its buffer, takes its arguments, prints what the directives mean |
| String functions `string.c` | one call: memory | 15 functions | memory and result are what the C function is for |
| Numbers `strtol.c`, `atoi.c`, `itoa.c` | one call | strtol, strtoll, atoi, itoa | reads and writes the number, up to the limits |
| Division `math.c` | one call: five registers | udivmoddi4 and its callers | quotient and remainder are exact, unsigned and signed |
| Image builder `mkfat32` | image file, volume, recursion over the folder | create_image, add_folder | a silent success packed everything; nothing is ever garbled |
| FatFs (vendored) `ff.c` | the disk; one sector window, the next free cluster and FSInfo in `FATFS`; the sector buffer of an open file | f_mkfs, f_mount, f_mkdir, f_open, f_write, f_sync, f_close | the volume made is the volume mounted; the FAT stays a set of chains; what was confirmed is on the disk; nothing leaks |
| Image script `BuildRootfs.cmake` | the image between its copies | size checks, mkfat32, dd | the copies fit in front of the volume |
| Boot block and loader | sectors in memory, the processor's place, the error character | read, print, jump | runs only what was built; an error names its cause |
| Image reader `test/readfat` | none: it reads an image | main | gets out of the image what mkfat32 put in |
| Kernel entry `start.S`, `init.c` | none | | not modelled: adds two numbers |
| `fs/fat32`, boot headers, libc headers, build files | none | | declarations only |
| other `test/`, `pkg/deprecated` | experiments and superseded code, in no build | | not modelled |

`PROJECT.json` lists every component with its sources and its status.

### What is hard here

There is **no concurrency** inside the kernel: interrupts are off, there is one
thread, and nothing is asynchronous. The difficulty is elsewhere:

- **8-bit arithmetic and edges**: columns, rows and cursor halves are bytes;
  tabs return before the wrap; scrolling happens one line late on purpose.
- **Limits of buffers**: the 512-byte message buffer, the formatter's 32-byte
  digit buffer, `itoa`'s `len`, `strnlen` reading whole words.
- **Sequences of legal calls**: colour saved and restored by hand in three
  copies of the same code; one buffer reused by messages of different lengths.
- **Partial failure**: every host call of the image builder can fail, results
  of some are dropped (a nested `add_folder`, short writes, all three `dd`s).
- **Agreement of parts written apart**: 446 bytes, 4096 bytes, `count=8`,
  `LOADER_SECTORS` and the first track of `f_mkfs` are five numbers in four
  files that must describe one layout.
- **A file system in one sector**: FatFs keeps one window for boot record, FAT
  and directories, and one buffer per file. A FAT12 entry may lie in two
  sectors. The disk may fail between any two accesses, in the middle of a call
  that has linked half a chain, or of a write of several sectors of which the first
  are there already. Of FSInfo and the backup copies `f_mkfs` does not even ask whether they
  were written.
- **Limits of the layout**: `f_mkfs` looks for a cluster size in a loop that
  starts over, and its result has to be what the mount computes from the boot
  record, by other formulas, at every boundary between FAT12, FAT16 and FAT32.
- **Termination** of nested loops that advance one shared pointer, or, in
  `f_mkfs`, try one configuration after the other.

## 2. Modules

| Module | Models | Correspondence |
|---|---|---|
| `Terminal` | the promise of a text console (abstract) | nothing in the code: finished lines, the line being written, the ink, and the screen they must show |
| `Tui` | `tui.c`, `port.c`, the CRT controller | `mem` is the visible page of `TUI_buffer`, `TUI_pos`, `TUI_color`, `crtc` the device; `todo` is what the loop of `TUI_writeBuf` has left, and every iteration is a step. Implements `Terminal` (`ShowsText`) |
| `Io` (EXTENDS `Tui`) | `io.c` | `buf`, and `call`: the running printf/info/warn/err with `curr_color` and its result. `chosen` and `owed` are history: the colour the callers asked for and the text they must still see |
| `Vsnprintf` | `vsprintf.c` | a run is one call; `pc` is the part of the scanner (text, flags, width and precision, length, specifier), a step per character or field, `va` the arguments left. A job's flags are a sequence, in any order and with repetitions; `idx` wraps as `size_t` does. The digit functions are operators. `Meaning` is what the C standard says, on its own |
| `CString` | `string.c` | a run is one call on a byte memory; a loop iteration is a step, so copies happen in the code's order |
| `CStdlib` (EXTENDS `CString`) | `strtol.c`, `atoi.c`, `itoa.c`, `ctype.h` | a step per character; `itoa` ends in `CString`'s strrev |
| `Division` | `math.c` | the locals of `udivmoddi4`, a step per iteration; `op` is the call, signed or not. A register has `Width` bits, whose values are the constant `Bit` |
| `Libc` (EXTENDS `CStdlib`, `Division`) | nothing of its own | a run is one call of either |
| `Volume` | what FatFs promises its caller (abstract) | directories, and files with what was written to them; every call may fail |
| `FatLayout` | `f_mkfs`, `mount_volume` and below | `mk` is the configuration `f_mkfs` tries, `disk` the sectors, `fs` the geometry the mount found; what `f_mkfs` writes without a check (`Unchecked`) may be missing. `Use` stands for whatever is done with the volume then (`LayoutSpec`); `FatVolume` implements it. `Wrap` is what a DWORD wraps at |
| `FatFs` (EXTENDS `FatLayout`) | the functions of `ff.c` under `f_mkdir`, `f_open`, `f_write`, `f_close`; `diskio.c` | an operator per function, from a state to the set of states it may return with, over `win`, `winsect`, `wflag`, `last_clst`, `free_clst` of the code; every disk access may fail, a write with the first of its sectors `Stored` |
| `FatVolume` (EXTENDS `FatFs`, INSTANCE `Volume`) | `add_folder`'s calls on one volume | a step per call; `todo` is what the folder still holds. `view` is what a reader of the disk would find; it implements `Volume` (`KeepsPromise`) |
| `Readfat` (EXTENDS `FatVolume`) | `test/readfat/main.c` | an operator of the image and a name |
| `MkFat32` (EXTENDS `Volume`) | `mkfat32/main.c`, `diskio.c` | `stack` is the recursion of `add_folder`, a step per host or FatFs call that matters; `image` the image file by cells, `vol` the volume |
| `Boot` | `boot.S`, `loader.S`, `asm.h` | `pc` names the code's labels; `memory` holds what was read from which sector; `code` is the character patched into the message |
| `Scene` (EXTENDS `MkFat32`, INSTANCE `Boot`) | `BuildRootfs.cmake` | `script` is its step; after success the machine of `Boot` runs on the image that was built (`disk <- image`) |
| `KernelProofs`, `VsnprintfProofs`, `MeaningProofs` (EXTENDS `VsnprintfProofs`), `LibcProofs`, `NumberProofs` (EXTENDS `LibcProofs`), `BuildProofs`, `FatProofs`, `FatVolumeProofs` (EXTENDS `FatProofs`) | theorems about `Tui` and `Io`, the scanner and the buffer of `Vsnprintf`, its conversions, the memory of `CString` in `Libc`, the numbers of `CString`, `CStdlib` and `Division` in `Libc`, `Scene` with `MkFat32` and `Boot`, `FatLayout`, `FatVolume` with `FatFs` | section 5 |

The parts are composed where they interact: `Io` runs on `Tui`; `MkFat32` packs
into a `Volume`, which `FatVolume` shows FatFs to be; `Scene` puts `MkFat32`
and the script in front of the machine of `Boot`.

`MC*` modules give TLC its sets of calls, folders and texts; each `.cfg` is one
run. An operator whose comment begins with "Defect" is the wrong version of the
definition that follows it; no specification uses it, and each property's run
fails when it takes that definition's place.

Abstractions: characters are model values or small numbers; blocks of files
and cells of the image stand for bytes; widths of integers are constants
(`UINT8`, `Width`, ...) so that TLC meets every overflow with small numbers.
The page is what is visible of the 32 KB of video memory: `TUI_scroll` reads
inside the page only, so a store beyond it never becomes visible, and
`CursorInVideoMemory` says stores stay inside the 32 KB.

In `FatFs` a sector of the FAT is its bytes, for a FAT12 entry is not a whole
number of them; a sector of a directory is its entries, and data are cells
that name their file and place, so a misplaced one shows. Dates, attributes
and volume labels are left out. A drive names its sizes: `Real` drives have
FatFs's own, `Small` ones have sectors of four bytes and limits of FAT12 and
FAT16 that a few clusters reach.

## 3. Runs

All passing runs check deadlock unless the system is meant to stop (a call that
has returned, a program that exited, a halted machine).

| Run | Question | Bounds |
|---|---|---|
| `tui_text` | Does the screen show exactly what was printed (`ShowsText`: `Tui` implements `Terminal`), without any background (`BlackBackground`)? | 5 x 2 cells, one glyph, one colour change, all characters; tabs kept off the right edge, no positioning |
| `tui_any` | With any legal call: `TypeOK`, `HwCursor`, `CursorInVideoMemory`, `OneCellOneLine` | 4 x 2 cells, 3-bit bytes, 12 cells of video memory: exactly as many as the assumption on sizes asks for |
| `io_calls` | Do messages print what they owe (`PrintsWhatIsOwed`), and leave no trace (`CallerUndisturbed`)? | 2 x 2 cells, a buffer of 4; outputs empty, shorter, filling, longer, and with a NUL inside |
| `format` | Does the formatter stay in its buffer (`StaysInBuffer`), keep its contract (`KeepsItsContract`), take its arguments (`TakesItsArguments`), print the meaning (`PrintsTheMeaning`), return (`Returns`)? | all 32 sets of flags, each in one order; all lengths and conversions but floating point; widths and precisions absent, given and from arguments; buffer sizes 0 to 5 and large; 3- to 16-bit integers, a digit buffer of 8 and numbers that are too long for it; outputs around the limit of `size_t` |
| `libc` | Is memory what each function is for (`MemoryIsMeant`), results too (`ResultIsMeant`), numbers read (`NumberIsRead`) and written (`NumberIsWritten`), divisions exact (`Divides`), do calls return (`CallsReturn`)? | 8 bytes, words of 4, texts of up to 2 characters at every alignment, moves of up to 3 bytes at every overlap; texts of 4 characters around the limits of a 7-bit long; itoa buffers of 0 and 2 to 5; every division of 5-bit numbers |
| `fatfs` | Is the volume made the one mounted (`MountsWhatWasMade`, `PartitionNamesVolume`), does formatting end (`FormattingEnds`); is every sector what its place is for (`FatTypeOK`), the FAT a set of chains (`NoCrossLinks`) without a lost cluster (`NothingLeaks`), what was confirmed on the disk (`Durable`), a volume full when a call says so (`FullMeansFull`); do the calls keep what `Volume` promises (`KeepsPromise`); does readfat read the files back (`ReadsBack`); does all of this leave the boot record and the partition table alone (`LayoutSpec`)? | 31 real drives of 0 to 16,515,072 sectors, on both sides of the boundaries of `f_mkfs`: format and mount only. 16 small drives of 2 to 6 clusters of 1, 2 or 4 sectors, FAT12, FAT16 and FAT32, with folders whose files are longer than a cluster, whose tables grow, whose names clash, are refused or read in FatFs's own way, and that do not fit; in each history one access of the disk may fail, once or for good, but on three drives |
| `scene` | From build to boot: is what was packed never garbled (`NeverGarbled`), a silent success complete (`SilentSuccessIsComplete`); `VolumeSurvives` the copies of the script, the machine `BootsWhatWasBuilt` and `BootsWithKernel`, an `ErrorNamesStep`, and everything `ComesToRest`; `SceneTypeOK` | three folders and none (the kernel alone; nested three deep with hidden entries and an empty file; two names equal without case), sectors of 4 cells, loader area of 2 sectors, programs smaller than, as large as and larger than their place; every host and FatFs call may fail, every dd may stop early, the firmware may fail |

The bounds are enough because the control of each part depends on comparisons
with one width, one limit or one buffer size, and the values on both sides of
each of them occur. The screens are the smallest on which wrap, tab stop and
scroll happen separately; two rows make every line feed after the first a
scroll. Three levels of folders make a call of `add_folder` that is neither
the first nor the last. FatFs's searches compare with the last cluster, the
last entry of a sector, of a cluster and of the root, and with the last byte
of a FAT sector; a small drive has each of them within the few entries that a
folder needs. One failure of the disk in a history reaches every place where a
call can be left half done, and a disk that fails for good reaches the code
behind it with every later access failing; two failures with working accesses
between them are not tried. The orders in which `readdir` gives the entries are all
tried.

### Fairness

`Tui`, `Io`, `Boot` and `Division` state safety only; that a message in the
making can always go on is the deadlock check of run `io_calls`. The one-call modules (`Vsnprintf`, `Libc`) and the
programs (`MkFat32`, `Scene`) have weak fairness on their whole next-state
relation, `FatVolume` on the steps of formatting and mounting (`LayoutNext`):
a processor that executes goes on. A failing external call returns;
none is assumed to succeed.

### Conditions of the properties

- `ShowsText` assumes callers that leave positioning to the driver and print
  no tab that would reach the right edge (`EdgeTabs = FALSE`). Without that the
  promise fails: run `tui_tab`.
- `PrintsTheMeaning` leaves out three groups of directives in which the code
  departs from the C standard, and no text of the repository says otherwise
  (`Standard` in `Vsnprintf`): a negative precision, which the code takes for one of
  zero (`vsprintf.c:652`) and C for none; precision zeros with left justification; and `#`
  with a precision, with a number as wide as its field (`vsprintf.c:189` takes
  its digits for padding), with zero padding in binary, or with a number that
  does not fit the digit buffer. Without `#` such a number is covered: the code
  drops the front of what does not fit its 32 characters (a `%lb`), and the
  property says that it loses exactly that. The other properties of the run
  hold for all of these. A format that ends inside a directive is no call of
  the model.
- `MemoryIsMeant` for `strcat` assumes a destination cleared before:
  `string.c:173` writes no terminator. Calls are legal for C (`Legal`, which
  `CallsAssumption` demands of every call): areas and texts lie in the memory, texts are
  terminated, nothing overlaps but in `memmove`, and there is no `backspace`
  on an empty string (it would write `src[-1]`).
- `itoa` is called with numbers that are not negative and a `len` other than 1
  (it writes its terminator behind a buffer of 1). Nothing calls `itoa`.
- `NumberIsRead` holds for `strtoll` of what is not negative: see below.
- `Divides` excepts the smallest number divided by -1, whose quotient no signed
  number holds. The remainder it states is C's for a positive divisor; for a
  negative one the code gives it the opposite sign (`math.c:24` negates it
  whenever the signs of the operands differ).
- `MountsWhatWasMade` excepts a volume without a single cluster: a drive of a
  few sectors too few is formatted without an error, and has no file system
  for the next call.
- `NoCrossLinks` holds whatever fails, but for two things. That a chain ends with
  the mark `create_chain` writes, and not only with some value behind the last
  cluster, is stated while nothing has failed. And the volume must be one where
  half an entry cannot be a cluster (`NoEntryIsHalf`): an entry of FAT12 may lie
  in two sectors, so `put_fat` may have written one byte of it when the disk fails.
  What such an entry reads is 0xF00 or more, which on a FAT12 volume of more than 3840
  entries is a cluster like another, perhaps one in use.
- `NothingLeaks` says of files that no size is beyond their clusters, on the same
  condition, also after failures. The rest of it, and `FullMeansFull`, are about volumes whose
  disk has not failed yet: a failure in the middle of a call may leave a cluster
  marked that belongs to nobody. `Durable` and `KeepsPromise` hold whatever
  fails on the volumes of the run, none of which has 3840 entries.
- `FullMeansFull` takes tables to be shorter than 65536 entries, where `dir_next`
  refuses to go on (`ff.c:1724`): no folder of the run has so many.
- `ReadsBack` is about files in the root that are not empty, on a FAT12 volume
  whose disk did not fail: readfat looks nowhere else, and reads the FAT in a
  row from the file's first entry. That this is right for every file that
  mkfat32 writes, because files are written one after the other and
  `create_chain` lays each out in one piece, is what the run shows.
- `BootsWithKernel` excepts builds in which a short write was printed: their
  exit code is 0 all the same.

## 4. Findings

Each is a run of its own that must fail, against a sentence of the repository.

| Run | Code | Text |
|---|---|---|
| `tui_tab` | a tab near the right edge leaves the column beyond the last one (`tui.c:70` returns before the wrap) | `tui.c:161`: at the last column, go to the next line |
| `tui_getpos` | `TUI_getPos` returns the two bytes of the cursor address as column and row (`tui.c:143`) | `tui.h:122`: the position of the cursor |
| `format_sprintf` | `sprintf_` formats `"TEST:%d\n"` in place of its format (`vsprintf.c:912`) | `stdio.h:16`: the format specifies the output |
| `mkfat32_exit` | the result of a nested `add_folder` is dropped (`main.c:59`) | `main.c:35`: the return value is the program's exit code |
| `libc_strtoll` | every negative number is answered with `LLONG_MIN`: the cutoff 2^63 is kept in a signed variable (`strtol.c:138`); `atol` and `atoll` inherit it | `strtol.c:131`: a range error is for a number that is too big |

Seen while reading, without a run: `TUI_putEntryAt` takes `x, y` where `tui.h`
documents them the other way round; the comment at `tui.c:193` says grey where
the colour is the current one; the length `printf` returns counts characters
that were cut; `docs/os.md` speaks of a 10 KB loader, of FAT12 and of a jump to
the kernel, where the code has 8 sectors, `f_mkfs` and an empty `bootmain`;
`math.c:30` warns of a loss of precision on x86_64, of which the loop that is
written there has none (`DivisionDivides`). FatFs takes a host's name in its own
way: `a b` is packed as `A`, `0:a` in the root as `A`, and `b/x` for no `x` that begins
with a byte above 127, because `ff.c:2990` compares a signed character with a blank;
the first two are refused only when the name they become is there already.

## 5. Proofs

40 theorems on 653 lemmas, for every value of the constants. In each module
the argument is the same: an inductive invariant, checked by TLC on the
module's run first where TLC can evaluate it, holds initially and after every step, and implies the
property. The sizes of those checks are given, to show that the invariants
were met by more than one state: `MkInv` and `SceneInv` in 440,846 states of the
model of run `scene`, `TextInv` in 498,363 of `tui_text`, `MemoryInv` in 65,410
of `libc`, `ReadInv` in the 30,357 of its 4,743 calls that read a number, `LayoutInv` on the 31 real drives of `fatfs`, and
what `FatInv` says of the disk and the window on its small drives.

### What is assumed

| Assumption | Why the code justifies it |
|---|---|
| `Tui` `SizeAssumption` | 80 x 25 is less than 256 each way, and (25 - 1) * 80 + 256 = 2176 cells are within the 16384 of the adapter, which are within 2^16 |
| `Tui` `CallerAssumption`, `CharAssumption` | positions are on the screen and colours are those of `color.h`, as `tui.h` asks; the three control characters differ |
| `Io` `BufferAssumption` | `IO_BUF_SIZE` is 512; the formatter puts out characters |
| `Vsnprintf` `SizeAssumption` | `size_t` holds the 16 digits of a pointer and the two digits that a field of a format has in the model; the digit buffer is not empty, and an integer has bits |
| `Vsnprintf` `JobAssumption` | a format is literal characters and whole directives, with the arguments they take (an integer for a number, a string for `%s`) and counts that are `size_t`; flags come in any order |
| `CString` `LongAssumption`, `CallsAssumption` | `sizeof(long)` is not 0; the calls are those the C standard defines (`Legal`): areas lie in the memory, texts end in it, and nothing overlaps but in `memmove` |
| `CStdlib` `RangeAssumption`, `NumberCallsAssumption` | `LONG_MAX` and `INT_MAX` are 2^63 - 1 and 2^31 - 1; a base is 0 or 2 to 36, and `itoa` gets what section 3 says (`LegalNumber`) |
| `Division` `WidthAssumption`, `BitAssumption` | a register has bits, whose values double from 1 on |
| `MkFat32` `HostAssumption`, `BlockAssumption` | a folder is a finite tree: an entry's parent is a directory, no path is both file and directory; block and sector sizes (`f_mkfs`'s, `BUFSIZ`) are not 0 |
| `Scene` `LayoutAssumption` | the numbers written in four files fit each other: 446 <= 446 <= 512 (the boot block, where the table begins, the sector), 4096 <= 8 * 512 for `dd`, for `count=8` and for `LOADER_SECTORS`, 9 sectors are within the first 63, and these within the image |
| `FatVolume` `FolderAssumption` | paths and names are sequences of bytes, and files come in blocks of so many cells |
| `FatLayout` `WrapAssumption` | a DWORD wraps at 2^32, which is at least 2^24. TLC's own numbers end before 2^31, so the run takes 2^30 |

TLC evaluates all of them on the passing runs. Two theorems have a hypothesis
besides: `DriverIsConsole` that callers leave positioning to the driver
(`PlainCallers`, section 3), and those of `FatProofs` and
`FatVolumeProofs` that drives have FatFs's own
sizes (`IsReal`: sectors of 512 bytes, 512 root entries, 4085 and 65525 clusters as
the limits of FAT12 and FAT16), whatever their number of sectors.

### Console (`KernelProofs`)

| Theorem | States |
|---|---|
| `TypeCorrect` | `Spec => []TypeOK` |
| `CursorInStep` | `Spec => []HwCursor` |
| `CursorStaysInVideoMemory` | `Spec => []CursorInVideoMemory` |
| `BackgroundStaysBlack` | `Spec => []BlackBackground` |
| `PutsOneCellOneLine` | `Spec => OneCellOneLine` |
| `DriverIsConsole` | `Spec => ShowsText`: `Tui` implements `Terminal` |

The inductive invariant is `Inv`: types, the row on the screen, the device's
registers equal to the cursor's index, and no background. None of the theorems
is inductive alone. The cursor's index is only bounded because the row is, and
the row is on the screen because every path that moves the cursor scrolls it
back (`PutInv`); the registers hold the index only because it fits two bytes
(`IndexBounds`), which again needs the row. Tabs make the column as large as a
byte allows, so the bound uses `UINT8`, not the width. The arithmetic of
splitting an index into bytes is in `Halves` and `CursorSet`; the bitwise or of
`TUI_getColor` is reduced to its four bits in a lemma of its own.

`DriverIsConsole` takes a page apart into rows. The refinement needs `TextInv`:
besides `Inv`, the column is below the width, and every cell from the cursor on
is blank (`BlankBehind`), for the console's line ends where the driver's cursor
stands. Each character is then one of the console's steps: a glyph lengthens
the line (`TUI_write` changes the cell behind it), a line feed finishes it, and
a scroll drops the row of the oldest line, which is what `Terminal`'s screen
does with a list of lines that grew by one.

### Kernel output (`KernelProofs`)

| Theorem | States |
|---|---|
| `IoTypeCorrect` | `IoSpec => []IoTypeOK` |
| `MessagesPrintWhatIsOwed` | `IoSpec => []PrintsWhatIsOwed` |
| `CallersUndisturbed` | `IoSpec => []CallerUndisturbed` |
| `CursorInStepForIo` | `IoSpec => [](TypeOK /\ HwCursor)` |

The inductive invariant is `IoInv`: the console's `Inv`, the three properties,
and `Saved`: while a call runs, the colour it saved is the one the callers
chose. `CallerUndisturbed` needs `Saved` for the step that returns, `Saved`
needs `CallerUndisturbed` for the step that calls, and both need that
`TUI_getColor` gives back what `TUI_setColor` was given, which is true because
the background is black (`Inv`). The steps of `io.c` that set the colour and
hand over a string are no steps of `Tui` by themselves, so `Inv` is carried
over them by `Recolored`.

`PrintsWhatIsOwed` rests on `StringOwed`: the string `strlen` finds in the
formatted buffer is the output cut at the first of its end, the end of the
buffer, and a NUL. That there is a first such place is `LeastNat`, a set of
natural numbers has a least one, from the library's theorem on well-founded
relations; it stands in for an induction.

### Formatter (`VsnprintfProofs`, `MeaningProofs`)

| Theorem | States |
|---|---|
| `WritesStayInBuffer` | `Spec => []StaysInBuffer` |
| `DirectivesTakeTheirs` | `Spec => []TakesItsArguments` |
| `ScannerTypeCorrect` | `Spec => []TypeOK` |
| `ContractKept` | `Spec => []KeepsItsContract` |
| `ConversionsMean` | `Spec => []PrintsTheMeaning` |

`StaysInBuffer` needs only that the size of the buffer does not change. For the
arguments, the scanner has to be followed through the format: `AtItem` says
that it stands at the beginning of the i-th item, or in it behind the flags, the
width, the precision or the length, with the arguments of all items before it
taken, and of this one those that its text so far has named (`ItemInv`). A
format is one sequence of characters, so where an item begins is the sum of the
lengths before it, and the lemmas about such concatenations are most of the
module. The scanner's types follow from it (`ScanInv`): a width is an unsigned
number because the digits or the argument it was read from are an item's.
`ContractInv` adds what the buffer holds: byte i is the i-th character of the
output so far, if it fits. This holds as long as the output is shorter than
`SIZE_T` characters, where `idx` wraps and the code starts to write over the
beginning; so does `KeepsItsContract`.

`ConversionsMean` compares two ways to write a number. The code collects it
backwards in the digit buffer, a character at a time while there is room; the
standard writes it forwards and whole. `Holds(b, t)` says that the buffer `b` is
the text `t` backwards, as much of its end as the buffer has room for. Every
step of `_ntoa_format` puts something in front of `t`: zeros (`ZerosHold`),
`0x`, `0b` or `0` after the zeros it takes away again (`CutHolds`,
`HashedHolds`), the sign (`SignedHolds`). So `t` is in the end what the standard
asks for, and the buffer its last `BufferSize` characters (`NumberMeans`). That the
digits themselves agree is `DigitsHold`: what is left after k divisions is the
quotient by the k-th power of the base (`QuotientIs`), and the loop stops where
the standard's numeral has its first digit (`DigitCountIsSize`, `SizeIs`).
The removal of zeros in `#` is where the proof needs most of
the conditions of `Standard`: without them the characters removed are digits.

`MeaningInv` carries this through a call: after k items the output is the
meaning of these k, and `flags`, `width` and `precision` are those of the next
directive as far as it was read (`ReadSoFar`). The number `_atoi` makes of a field is the one
the field was written with (`NumeralRun`).

### Strings (`LibcProofs`)

| Theorem | States |
|---|---|
| `LoopsProgress` | `LibcSpec => []MemoryInv` |
| `MemoryRight` | `LibcSpec => []MemoryIsMeant` |
| `LimitedLength` | `LibcSpec => []LengthIsMeant` |

`MemoryInv` has one clause per function: before the k-th iteration of a loop, k
bytes of the memory the call found are changed, the ones the function is for, and
no other (`Copied`, `CopiedDown`, `Filled`, `Swapped`). That the next byte
to be read is still the old one is where the calls must be legal, and where
`memmove` must choose its direction: upwards if the destination lies below the
source or behind its end, downwards if not (`Upwards`). `strrev` swaps from both
ends, and the bytes between are in place when the two meet. `strncpy` runs two
loops, `strcat` one behind a text that `strlen` measures. `LengthIsMeant` is
about `strnlen`, which reads words: it finds the first terminator although it
tests eight bytes at a time, because the first word that has one is searched
from its beginning, and a terminator behind the limit is cut off.

### Numbers (`NumberProofs`)

| Theorem | States |
|---|---|
| `ComparisonsOrder` | `LibcSpec => []ResultIsMeant` |
| `NumbersRead` | `LibcSpec => []NumberIsRead` |
| `NumbersWritten` | `LibcSpec => []NumberIsWritten` |
| `DivInvariant` | `DivSpec => []DivInv` |
| `DivisionDivides` | `LibcSpec => []Divides` |

A number is what its digits make of a base by Horner's rule (`NumberUpTo`, a
function that calls itself). That there is such a function, and what its steps
are (`HornerExists`, `NumberSteps`), is shown with `UpToInduction`, in which a
set of lengths, and no operator, has what is to be shown: the least length
that is not in it would contradict the step. The other inductions of the
module are instances of it.

- **Comparing.** The first digit that differs decides between two numbers of
  one length (`OrderedByFirst`), which is why the code may return there. Areas
  and texts are numbers in a base of 256 in `ResultIsMeant`.
- **Reading.** `ReadInv` follows `strtol` and `atoi` through blanks, sign and prefix; then
  `Taking` says that `acc` is the number the digits so far make, or that
  `any` is -1 and that number is beyond the limit. `CutoffIs` shows the test of
  `strtol` exact: `acc` and the next digit are beyond `cutoff` and `cutlim`
  just when the number they make is beyond the limit, and a number that is
  beyond it stays so whatever digits follow (`StaysBelow`). No sum wraps.
- **Writing.** `WriteInv` says of `itoa` that the digits on the memory are the
  remainders of the quotients it went through (`Dividing`), and that it stops at
  the last digit or where the buffer ends (`Divided`). The reversal is
  `strrev`'s, whose invariant `LibcProofs` has. What stands then is the numeral
  (`NumeralIs`, `ReversedIs`), of which a buffer too small holds the last digits
  only (`TooManyDigits`).
- **Dividing.** `DivInv` is the invariant of the two loops of `udivmoddi4`. While
  the divisor is shifted up, it is the divisor times `qbit` and neither has lost
  a bit, because the top bit stops the loop. While it is shifted down, the
  number is what is left plus the quotient so far times the divisor, and what is
  left is less than twice the divisor in its present place, so that one
  subtraction per bit is enough. `Masks` and the lemmas `MaskUp` and `MaskDown`
  say what a shift of a single bit does: `Bit` is a constant with an assumption
  in place of an exponent. `DividesSigned` follows from the same invariant by
  cases of the signs (`SignedMagnitude`).

### Image builder (`BuildProofs`)

| Theorem | States |
|---|---|
| `MkTypeCorrect` | `MkSpec => []MkTypeOK` |
| `NothingGarbled` | `MkSpec => []NeverGarbled` |
| `SilentSuccess` | `MkSpec => []SilentSuccessIsComplete` |

`MkInv` says of the recursion of `add_folder` that its calls are a path down the
folder, that the same path is in the volume, and that each call still has
entries of its own directory only (`CallsOK`); of the file being copied, that it
holds the first blocks, or that a short write was printed (`CopyOK`); of the volume,
that everything in it comes from the folder (`FromTheFolder`). `NothingForgotten`
makes a success complete: every entry owed to the volume is in it, is being
copied, or is still to come in a call on the stack (`Pending`). Owed is
everything while nothing was printed, and the entries of the folder itself as
long as the outermost call has not failed: what a nested call returns is
dropped (`main.c:59`), so a failure below must be seen to harm nothing above.
Which names FatFs takes for equal (`FatName`) is arbitrary.

### Script and boot (`BuildProofs`)

| Theorem | States |
|---|---|
| `SceneTypeCorrect` | `SceneSpec => []SceneTypeOK` |
| `VolumeUntouched` | `SceneSpec => []VolumeSurvives` |
| `BootsOwnCode` | `SceneSpec => []BootsWhatWasBuilt` |
| `KernelOnDisk` | `SceneSpec => []BootsWithKernel` |
| `ErrorCodeNamesStep` | `SceneSpec => []ErrorNamesStep` |
| `ScenePacks` | `SceneSpec => [](NeverGarbled /\ SilentSuccessIsComplete)` |

`SceneInv` carries `MkInv` into the script and the boot, and adds where things
lie: the partition table and the volume in the image from formatting on
(`Laid`), the two programs once their `dd` has run, the boot block and the
loader in the machine's memory once they were read. A short `dd` leaves a
beginning, which is why `BootsWhatWasBuilt` needs the history `ddFailed`.
`LayoutAssumption` is used exactly where a copy meets the next part: the boot
block and the table, the loader and the first track, the loader and what `int 13h`
reads.

### Format and mount (`FatProofs`)

| Theorem | States, if all drives are `IsReal` |
|---|---|
| `LayoutHolds` | `LayoutSpec => []LayoutInv` |
| `VolumeFound` | `LayoutSpec => []MountsWhatWasMade` |
| `PartitionIsVolume` | `LayoutSpec => []PartitionNamesVolume` |

`LayoutInv` says of the loop of `f_mkfs`, which retries with other cluster sizes
and FAT types until one fits, what it has when it stops: the reserved sectors,
the FATs, the root and the data areas fit the volume, so that no sum wraps;
the number of clusters is within the limits of the type, and the FAT has an entry
for each. The mount computes the type from that number, so it finds the type
that was made. A round of the loop is `RoundIs`; `FitsIs` and `Accepted` say
what a round leaves that is not refused, and `SearchesOn` that one that is refused leaves
what the next may begin with. `RecordIs` reads back from the boot record what was
written there, `FoundBehindTable` finds it by way of the partition table, and
`GeometryIs` computes from it the areas that were made. `LayoutSpec` lets the volume be used in any way that leaves the boot
record and the table alone.

### FatFs at work (`FatVolumeProofs`)

| Theorem | States, if all drives are `IsReal` |
|---|---|
| `PackingHolds` | `FatSpec => []FatInv` |
| `EverySectorInPlace` | `FatSpec => []FatTypeOK` |
| `ChainsStayApart` | `FatSpec => []NoCrossLinks` |
| `FatImplementsLayout` | `FatSpec => LayoutSpec`: packing touches neither the boot record nor the table |
| `PackedVolumeMounts` | `FatSpec => [](MountsWhatWasMade /\ PartitionNamesVolume)` |

They hold for a drive of any number of sectors, for any folder, with files and
tables of any length and directories of any depth, and for a disk that fails in any access.

Neither property is inductive. That two files share no cluster is only kept if
every entry of every table is known to be the only one that names its first cluster, those
of directories nobody can reach any more included; and that a write lands in its
file's data is only kept if the FAT leads nowhere else. So `FatInv` says of the memory
between two calls (disk, window, `last_clst`, file object) that it is `Sane`:

- `Proper`: every sector of the disk, and the one in the window unless it lies in front of
  the FAT, holds what its place is for (`Holds`), and a window to be written lies in the FAT or behind.
- `Coherent`: window and disk agree about the FAT, except where the window is still to be
  written; both are bytes.
- `TablesFit`, `FileFits`: a table's sector has all its entries, an entry of a
  directory names a cluster, and the slot that the open file will be entered in is no directory's.
- `Alone`: a cluster that begins a chain has one owner: an entry (`Claims`), FAT32's root,
  or who holds it now, the call under way or the open file.
- `Linked`: there is a set of lost clusters such that the FAT without them is a set of
  chains that end (`Chained`), and each owner has the first cluster of one (`Begins`). The
  set is what a failure may leave: clusters that are marked and belong to nobody.

What a sector "holds" is awkward when the disk fails: a window that could not be
written stays in memory and may be written later, or be dropped. `Shows` is
therefore a relation: it gives what is seen of a sector now and what may
be seen of it again. An operator that only reads is `Quiet`, and quiet steps keep all
that was said (`QuietSane`).

An operator of `FatFs` takes a memory to the set of memories it may
return with. There is a lemma for each, from `AccessIs` (one access of the disk) up to
`MkdirWalks`, `OpenWalks`, `WriteWrites` and `CloseSane` (the calls): from a
sane memory it returns with sane ones only, with so many more clusters held, and
with the entry it found still where it was. The loops of the code are functions of a
number of rounds, and one induction, `LoopKeeps`, does for all of them: what each round keeps, the
loop keeps. The chain of `create_chain` grows in an order that matters: the new
cluster is marked as an end first (`MarksFree`) and linked second
(`LinksLast`), so that a failure between the two leaves a lost cluster and no
chain without an end; `remove_chain` frees from the front (`FreesHeld`), so the
rest is lost when it fails, and never found again from a file.

Reading back begins with `OverlayShows`: what a reader would find in a sector
is something that the memory shows of it. Chains then are walks through the FAT of
the memory (`FatRead`, `OwnedWalk`); two walks from different owners have no cluster in common
(`OwnedApart`), and each ends within as many steps as there are clusters,
since it repeats none. The tables of two directories lie in different sectors
(`TablesApart`). With that, the tree is read level by level (`BelowBegun`, `BelowSeparate`,
`TreeApart`): different nodes have different entries, at different places, and so different chains;
that a level has no node twice needs that the directory above it was reached by
one path only, which is the induction's hypothesis.

### Only model-checked

- **Liveness** (`CallsReturn`, `Returns`, `FormattingEnds`, `ComesToRest`):
  liveness under fairness is beyond the prover.
- **What lies in files and under which path** (`Durable`, `KeepsPromise`, `ReadsBack`). `FatInv`
  says which clusters are whose, and not what data they hold, nor that the names in
  a table differ. Both are needed to say that a path leads to what was written under it.
- **Counting clusters** (`NothingLeaks`, `FullMeansFull`): the lost clusters of
  `Linked` would have to be none as long as nothing has failed, the lengths of chains
  follow the sizes, and FSInfo's number be that of the free clusters.
- **That calls answer.** A loop of `FatFs` has a bound (`Loop`, `MostEntries`) that the
  code does not have, and a call that reached it would return with nothing. The theorems
  are about what calls return with. In run `fatfs` no call reaches its bound:
  the bound of a walk over the FAT is the number of its entries, that of a table
  the number of entries that all clusters have together.

## 6. Not modelled

- `ffunicode.c`: with `FF_USE_LFN` 0 (`ffconf.h`) the preprocessor leaves
  nothing of it. The same goes for what `ff.c` has of exFAT, long names, file
  locks, relative paths and other code pages than 932. These are more than half of the
  lines in the tree.
- The calls of FatFs that no program of the repository makes: `f_read`,
  `f_lseek`, `f_unlink`, `f_rename`, `f_truncate`, `f_stat`, `f_getfree`,
  reading directories, and what only they reach.
- The deprecated boot chain `pkg/deprecated`, the assembly snippets in `test/`:
  in no build.
- The kernel's entry: it adds two numbers, and nothing reaches it. Header files
  and build files without operations.
- Floating point in `vsprintf.c`: switched off in the build.
- 16- and 32-bit port instructions and MMIO accessors: single instructions
  nobody calls.
- Descriptor tables, stacks, and the instructions that switch to protected
  mode: beneath the level of `Boot`, where a jump either reaches the code that
  was written for the place or is `lost`.
- In readfat: an image whose FAT runs on past the array of clusters is an error
  of the model, where the program writes past the array; the images of the run
  have no such FAT. A name without a dot that is longer than 12 bytes is `None`, where the program
  writes past its buffer of 12 (`filename[12]`); no file of the run has such a name.

## 7. Plan

Done: every part that is built and called is modelled. Proofs about the console
and its refinement, kernel output, the formatter, the
memory and the results of the string functions, the library's numbers and the
division, the image builder, script and boot, FatFs's layout, and FatFs at work: what
lies where, and whose the clusters are.

Next, in this order:

1. That every loop of `FatFs` ends before its bound: `Walk` and
   `Chained` have the measures already.
2. `NothingLeaks`, with the lost clusters empty while nothing has failed, and with
   `free_clst` counted along.
3. `Durable` and `KeepsPromise`, with the names of a table and the data of a file's clusters
   in the invariant.
