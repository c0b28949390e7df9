-------------------------------- MODULE Volume -------------------------------
(***************************************************************************)
(* What FatFs (src/src/tools/mkfat32/fatfs/ff.c) promises a program that   *)
(* calls f_mkdir, f_open for a new file, f_write and f_close: directories, *)
(* and files that hold what was written to them.  The image builder        *)
(* (module MkFat32) is written over this promise; the file system itself   *)
(* (module FatFs) is shown to keep it.                                     *)
(*                                                                         *)
(* A path is a sequence of names as FatFs compares them.  Any call may     *)
(* fail: the volume may be full, and the disk may fail in any access.      *)
(***************************************************************************)
EXTENDS Integers, Sequences, SequencesExt

VARIABLE vol    \* [dirs: a set of paths,
                \*  files: path -> [data: what it holds,
                \*    state: "open", "short" (a write came up short),
                \*           "closed", or "lost" (a call failed, or none came)]]

EmptyVolume == [dirs |-> {}, files |-> [p \in {} |-> <<>>]]

Exists(p) == p \in vol.dirs \cup DOMAIN vol.files
HasRoom(p) == ~Exists(p) /\ Front(p) \in vol.dirs \cup {<<>>}

\* The file at path p becomes f.
WithFile(p, f) ==
    [vol EXCEPT !.files = [q \in DOMAIN vol.files \cup {p} |->
                              IF q = p THEN f ELSE vol.files[q]]]
InState(p, states) == p \in DOMAIN vol.files /\ vol.files[p].state \in states

\* f_mkdir
Mkdir(p) ==
    /\ HasRoom(p)
    /\ vol' = [vol EXCEPT !.dirs = @ \cup {p}]

\* f_open with FA_CREATE_NEW
Create(p) ==
    /\ HasRoom(p)
    /\ vol' = WithFile(p, [data |-> <<>>, state |-> "open"])

\* f_open made the file and failed, or nobody uses the file it made.
CreateLost(p) ==
    /\ HasRoom(p)
    /\ vol' = WithFile(p, [data |-> <<>>, state |-> "lost"])

\* f_write takes all of d.
Write(p, d) ==
    /\ InState(p, {"open"})
    /\ vol' = WithFile(p, [vol.files[p] EXCEPT !.data = @ \o d])

\* f_write takes a beginning of d; it will take nothing more.
WriteShort(p, d) ==
    /\ InState(p, {"open", "short"})
    /\ \E n \in 0 .. Len(d) - 1 :
          /\ InState(p, {"short"}) => n = 0
          /\ vol' = WithFile(p, [data |-> vol.files[p].data \o SubSeq(d, 1, n),
                                 state |-> "short"])

\* f_close
Close(p) ==
    /\ InState(p, {"open", "short"})
    /\ vol' = WithFile(p, [vol.files[p] EXCEPT !.state = "closed"])

\* f_close failed, or is never called: the file may turn out to be empty.
Lose(p) ==
    /\ InState(p, {"open", "short"})
    /\ \E d \in {vol.files[p].data, <<>>} :
          vol' = WithFile(p, [data |-> d, state |-> "lost"])

-----------------------------------------------------------------------------
VolumeInit == vol = EmptyVolume

\* The calls, with paths and with pieces of data from given sets.
VolumeNext(paths, pieces) ==
    \E p \in paths :
        \/ Mkdir(p) \/ Create(p) \/ CreateLost(p)
        \/ \E d \in pieces : Write(p, d) \/ WriteShort(p, d)
        \/ Close(p) \/ Lose(p)

VolumeSpec(paths, pieces) ==
    VolumeInit /\ [][VolumeNext(paths, pieces)]_vol
=============================================================================
