----------------------------- MODULE BuildProofs -----------------------------
(***************************************************************************)
(* Theorems about the image builder, for every folder, every size of a     *)
(* block and every way FatFs may compare names; and about the script and   *)
(* the boot that use its image, for every layout in which the parts fit    *)
(* each other and every size of the programs.                              *)
(***************************************************************************)
EXTENDS Scene, SequenceTheorems, TLAPS

-----------------------------------------------------------------------------
(* The image builder: what its state is made of.                           *)

Names == DOMAIN FatName
Paths == Seq(Names) \ {<<>>}
Cells == Seq(Names) \X Nat
CallType ==
    [dir: Seq(Names), img: Seq(Names), at: {"opendir", "readdir", "copy"},
     left: SUBSET Paths, file: Seq(Names), next: Nat]
FileType == [data: Seq(Cells), state: {"open", "short", "closed", "lost"}]

-----------------------------------------------------------------------------
(* The inductive invariant.                                                *)

VolumeOK ==
    /\ vol = [dirs |-> vol.dirs, files |-> vol.files]
    /\ vol.files \in [DOMAIN vol.files -> FileType]

Types ==
    /\ host \in Hosts
    /\ stage \in {"create", "format", "pack", "exited"}
    /\ stack \in Seq(CallType)
    /\ err \in {0, 1}
    /\ exit \in {0, 1, Killed, Running}
    /\ exit = Running <=> stage # "exited"
    /\ exit = 0 => stack = <<>> /\ err = 0
    /\ stage \in {"create", "format"} => unread = {}
    /\ VolumeOK

\* Path e leads to p or to something above it.
Begins(e, p) == Len(e) <= Len(p) /\ \A i \in 1 .. Len(e) : e[i] = p[i]

\* A call works on a visible directory that its caller made, and has entries
\* of that directory left; only the innermost one copies a file.
CallOK(i) ==
    LET c == stack[i]
    IN  /\ Len(c.dir) = i - 1 /\ c.img = c.dir
        /\ c.left \subseteq Entries(c.dir)
        /\ c.dir \in Visible(host.dirs) \cup {<<>>}
        /\ i > 1 => Front(c.dir) = stack[i - 1].dir /\ FatPath(c.dir) \in vol.dirs
        /\ c.at = "copy" =>
              i = Len(stack) /\ c.file \in Visible(Files) /\ Front(c.file) = c.dir
CallsOK == \A i \in 1 .. Len(stack) : CallOK(i)

\* The data d is the beginning of what the host file p holds.
Holds(d, p) ==
    Len(d) <= host.sizes[p] /\ \A i \in 1 .. Len(d) : d[i] = <<p, i>>

SoFar(p) == IF top.next < host.sizes[p] THEN top.next ELSE host.sizes[p]

Copying(p) == stack # <<>> /\ top.at = "copy" /\ top.file = p

\* The file being copied holds all that was read of it, until a write comes
\* up short; that is printed.
CopyOK ==
    \A p \in Files :
        Copying(p) =>
            /\ InState(FatPath(p), {"open", "short"})
            /\ FatPath(p) \notin unread => Holds(vol.files[FatPath(p)].data, p)
            /\ FatPath(p) \notin unread /\ vol.files[FatPath(p)].state = "open"
                  => Len(vol.files[FatPath(p)].data) = SoFar(p)
            /\ stage = "pack" /\ vol.files[FatPath(p)].state = "short" => "write" \in printed

FromTheFolder ==
    /\ \A q \in vol.dirs : \E p \in Visible(host.dirs) : FatPath(p) = q
    /\ \A q \in DOMAIN vol.files :
          \E p \in Visible(Files) :
              FatPath(p) = q /\ (q \notin unread => Holds(vol.files[q].data, p))

\* A call still on the stack will come to p.
PendingIn(c, p) ==
    \/ c.at = "opendir" /\ Len(c.dir) < Len(p) /\ Begins(c.dir, p)
    \/ \E e \in c.left : Begins(e, p)
Pending(p) == \E i \in 1 .. Len(stack) : PendingIn(stack[i], p)

Stored(p) ==
    /\ p \in host.dirs => FatPath(p) \in vol.dirs
    /\ p \in Files =>
          /\ FatPath(p) \in DOMAIN vol.files
          /\ vol.files[FatPath(p)] = [data |-> Content(p), state |-> "closed"]

\* What must not be forgotten: everything while no failure was printed, and
\* what lies in the packed folder itself while the outermost call has not
\* failed, and no write has.
Owed(p) ==
    \/ printed = {}
    \/ "write" \notin printed /\ Len(p) = 1 /\ (stack # <<>> \/ err = 0)

NothingForgotten ==
    stage = "pack" \/ exit = 0 =>
        /\ "write" \notin printed => unread = {}
        /\ \A p \in Visible(host.dirs \cup Files) :
              Owed(p) => Pending(p) \/ Stored(p) \/ Copying(p)

MkInv == Types /\ CallsOK /\ CopyOK /\ FromTheFolder /\ NothingForgotten

-----------------------------------------------------------------------------
(* Sequences and paths.                                                    *)

LEMMA OneElement ==
    ASSUME NEW S, NEW e \in S
    PROVE  <<e>> \in Seq(S) /\ Len(<<e>>) = 1 /\ <<e>>[1] = e
OBVIOUS

LEMMA FrontLast ==
    ASSUME NEW S, NEW s \in Seq(S), s # <<>>
    PROVE  /\ Len(s) \in Nat \ {0}
           /\ Last(s) \in S /\ Last(s) = s[Len(s)]
           /\ Front(s) \in Seq(S) /\ Len(Front(s)) = Len(s) - 1
           /\ \A i \in 1 .. Len(s) - 1 : Front(s)[i] = s[i]
           /\ Append(Front(s), Last(s)) = s
<1>1. Len(s) \in Nat \ {0}
  BY EmptySeq
<1>2. \A i \in 1 .. Len(s) : s[i] \in S
  BY ElementOfSeq
<1>3. /\ Front(s) \in Seq(S) /\ Len(Front(s)) = Len(s) - 1
      /\ \A i \in 1 .. Len(s) - 1 : Front(s)[i] = s[i]
  <2>1. 1 \in Int /\ Len(s) - 1 \in Int /\ \A i \in 1 .. Len(s) - 1 : s[i] \in S
    BY <1>1, <1>2, SMT
  <2>2. /\ SubSeq(s, 1, Len(s) - 1) \in Seq(S)
        /\ Len(SubSeq(s, 1, Len(s) - 1)) =
              IF 1 <= Len(s) - 1 THEN (Len(s) - 1) - 1 + 1 ELSE 0
        /\ \A i \in 1 .. (Len(s) - 1) - 1 + 1 :
              SubSeq(s, 1, Len(s) - 1)[i] = s[1 + i - 1]
    BY <2>1, SubSeqProperties
  <2>3. Front(s) = SubSeq(s, 1, Len(s) - 1)
    BY DEF Front
  <2> HIDE DEF Front
  <2>4. \A i \in 1 .. Len(s) - 1 : SubSeq(s, 1, Len(s) - 1)[i] = s[i]
    <3> TAKE i \in 1 .. Len(s) - 1
    <3>1. i \in 1 .. (Len(s) - 1) - 1 + 1 /\ 1 + i - 1 = i
      BY <1>1, SMT
    <3> QED BY <2>2, <3>1
  <2>5. Len(SubSeq(s, 1, Len(s) - 1)) = Len(s) - 1
    <3>1. 1 <= Len(s) - 1 => (Len(s) - 1) - 1 + 1 = Len(s) - 1
      BY <1>1, SMT
    <3>2. ~(1 <= Len(s) - 1) => 0 = Len(s) - 1
      <4> DEFINE n == Len(s)
      <4>1. n \in Nat /\ n # 0
        BY <1>1
      <4> HIDE DEF n
      <4>2. ~(1 <= n - 1) => 0 = n - 1
        BY <4>1, SMT
      <4> QED BY <4>2 DEF n
    <3> QED BY <2>2, <3>1, <3>2
  <2> QED BY <2>2, <2>3, <2>4, <2>5
<1>4. Append(Front(s), Last(s)) = s
  <2>1. Last(s) \in S
    BY <1>1, <1>2, SMT DEF Last
  <2> DEFINE t == Append(Front(s), Last(s))
  <2>2. /\ t \in Seq(S) /\ Len(t) = Len(s)
        /\ \A i \in 1 .. Len(s) - 1 : t[i] = s[i]
        /\ t[Len(s)] = s[Len(s)]
    BY <1>1, <1>3, <2>1, AppendProperties, SMT DEF Last
  <2> HIDE DEF t
  <2>3. \A i \in 1 .. Len(t) : t[i] = s[i]
    BY <1>1, <2>2, SMT
  <2> QED BY <2>2, <2>3, SeqEqual DEF t
<1> QED BY <1>1, <1>2, <1>3, <1>4, SMT DEF Last

\* What the assumption on folders says of the folder that is packed.
LEMMA Tree ==
    ASSUME host \in Hosts
    PROVE  /\ host.dirs \cup Files \subseteq Paths
           /\ host.dirs \cap Files = {}
           /\ \A p \in Files : host.sizes[p] \in Nat
           /\ \A p \in host.dirs \cup Files : \A n \in 1 .. Len(p) - 1 :
                 SubSeq(p, 1, n) \in host.dirs
           /\ ~host.given => host.dirs \cup Files = {}
BY HostAssumption, Zenon DEF Files, Paths, Names

LEMMA EntryOf ==
    ASSUME host \in Hosts, NEW d \in Seq(Names), NEW p \in Entries(d)
    PROVE  /\ p \in Paths /\ p \in host.dirs \cup Files
           /\ Front(p) = d /\ Len(d) \in Nat /\ Len(p) = Len(d) + 1
           /\ Last(p) \in Names /\ Last(p) = p[Len(p)]
           /\ \A i \in 1 .. Len(d) : p[i] = d[i]
           /\ join_paths(d, Last(p)) = p
<1>1. p \in Paths /\ p \in host.dirs \cup Files /\ Len(p) = Len(d) + 1 /\ Front(p) = d
  BY Tree DEF Entries
<1>2. p \in Seq(Names) /\ p # <<>>
  BY <1>1 DEF Paths
<1>3. Len(d) \in Nat
  BY LenProperties
<1>4. \A i \in 1 .. Len(p) - 1 : Front(p)[i] = p[i]
  BY <1>2, FrontLast
<1>5. \A i \in 1 .. Len(d) : p[i] = d[i]
  BY <1>1, <1>3, <1>4, SMT
<1> QED BY <1>1, <1>2, <1>3, <1>5, FrontLast DEF join_paths

\* An entry of a visible directory is visible if its name is.
LEMMA VisibleEntry ==
    ASSUME host \in Hosts, NEW d \in Seq(Names), NEW p \in Entries(d),
           d \in Visible(host.dirs) \cup {<<>>}, Last(p) \notin Hidden
    PROVE  p \in Visible(host.dirs \cup Files)
<1>1. \A i \in 1 .. Len(d) : d[i] \notin Hidden
  BY EmptySeq, SMT DEF Visible
<1>2. ASSUME NEW i \in 1 .. Len(p) PROVE p[i] \notin Hidden
  <2>1. Len(d) \in Nat /\ Len(p) = Len(d) + 1 /\ Last(p) = p[Len(p)]
    BY EntryOf
  <2>2. i \in 1 .. Len(d) \/ i = Len(p)
    BY <2>1, SMT
  <2> QED BY <1>1, <2>1, <2>2, EntryOf
<1> QED BY <1>2, EntryOf DEF Visible

\* Below directory d there is an entry of d on the way to p.
LEMMA OnTheWay ==
    ASSUME host \in Hosts, NEW d \in Seq(Names), NEW p \in host.dirs \cup Files,
           Len(d) < Len(p), Begins(d, p)
    PROVE  \E e \in Entries(d) : Begins(e, p)
<1> DEFINE n == Len(d) + 1
           e == SubSeq(p, 1, n)
<1>1. p \in Seq(Names) /\ Len(p) \in Nat /\ Len(d) \in Nat
  BY Tree, LenProperties DEF Paths
<1>2. \A i \in 1 .. Len(p) : p[i] \in Names
  BY <1>1, ElementOfSeq
<1>3. n \in 1 .. Len(p) /\ n \in Int /\ \A i \in 1 .. n : p[i] \in Names
  BY <1>1, <1>2, SMT
<1>4. /\ e \in Seq(Names)
      /\ Len(e) = IF 1 <= n THEN n - 1 + 1 ELSE 0
      /\ \A i \in 1 .. n - 1 + 1 : e[i] = p[1 + i - 1]
  <2>1. 1 \in Int
    OBVIOUS
  <2> HIDE DEF n
  <2> QED BY <1>3, <2>1, SubSeqProperties
<1>5. Len(e) = Len(d) + 1 /\ \A i \in 1 .. Len(e) : e[i] = p[i]
  BY <1>1, <1>3, <1>4, SMT
<1>6. e \in host.dirs \cup Files
  <2>1. CASE n = Len(p)
    BY <1>1, <2>1, SubSeqFull
  <2>2. CASE n \in 1 .. Len(p) - 1
    BY <2>2, Tree
  <2> QED BY <1>1, <1>3, <2>1, <2>2, SMT
<1> HIDE DEF e, n
<1>7. Front(e) = d
  <2>1. e # <<>>
    BY <1>1, <1>5, EmptySeq
  <2>2. Front(e) \in Seq(Names) /\ Len(Front(e)) = Len(d)
        /\ \A i \in 1 .. Len(d) : Front(e)[i] = e[i]
    <3>1. /\ Front(e) \in Seq(Names) /\ Len(Front(e)) = Len(e) - 1
          /\ \A i \in 1 .. Len(e) - 1 : Front(e)[i] = e[i]
      BY <1>4, <2>1, FrontLast
    <3>2. Len(e) - 1 = Len(d)
      BY <1>1, <1>5, SMT
    <3> QED BY <3>1, <3>2
  <2>3. \A i \in 1 .. Len(Front(e)) : Front(e)[i] = d[i]
    BY <1>1, <1>5, <2>2, SMT DEF Begins
  <2> QED BY <2>2, <2>3, SeqEqual
<1> QED BY <1>1, <1>5, <1>6, <1>7, SMT DEF Entries, Begins
-----------------------------------------------------------------------------
(* What a call does to the volume.                                         *)

LEMMA Made ==
    ASSUME VolumeOK, NEW p, Mkdir(p)
    PROVE  /\ VolumeOK'
           /\ vol'.dirs = vol.dirs \cup {p} /\ vol'.files = vol.files
<1>1. vol' = [vol EXCEPT !.dirs = @ \cup {p}]
  BY DEF Mkdir
<1>2. vol = [dirs |-> vol.dirs, files |-> vol.files]
  BY DEF VolumeOK
<1>3. vol' = [dirs |-> vol.dirs \cup {p}, files |-> vol.files]
  BY <1>1, <1>2
<1>4. vol'.dirs = vol.dirs \cup {p} /\ vol'.files = vol.files
  BY <1>3
<1> QED BY <1>3, <1>4 DEF VolumeOK

LEMMA Filed ==
    ASSUME VolumeOK, NEW p, NEW f \in FileType, vol' = WithFile(p, f)
    PROVE  /\ VolumeOK'
           /\ vol'.dirs = vol.dirs
           /\ DOMAIN vol'.files = DOMAIN vol.files \cup {p}
           /\ vol'.files[p] = f
           /\ \A q \in DOMAIN vol.files : q # p => vol'.files[q] = vol.files[q]
<1> DEFINE files == [q \in DOMAIN vol.files \cup {p} |-> IF q = p THEN f ELSE vol.files[q]]
<1>1. vol' = [vol EXCEPT !.files = files]
  BY DEF WithFile
<1>2. vol = [dirs |-> vol.dirs, files |-> vol.files]
  BY DEF VolumeOK
<1>3. vol' = [dirs |-> vol.dirs, files |-> files]
  <2> HIDE DEF files
  <2> QED BY <1>1, <1>2
<1>4. vol'.dirs = vol.dirs /\ vol'.files = files
  <2> HIDE DEF files
  <2> QED BY <1>3
<1>5. /\ DOMAIN files = DOMAIN vol.files \cup {p} /\ files[p] = f
      /\ \A q \in DOMAIN vol.files : q # p => files[q] = vol.files[q]
      /\ files \in [DOMAIN files -> FileType]
  BY DEF VolumeOK
<1> HIDE DEF files
<1> QED BY <1>3, <1>4, <1>5 DEF VolumeOK

LEMMA FileOf ==
    ASSUME VolumeOK, NEW q \in DOMAIN vol.files
    PROVE  /\ vol.files[q] \in FileType
           /\ vol.files[q].data \in Seq(Cells)
           /\ vol.files[q] = [data |-> vol.files[q].data, state |-> vol.files[q].state]
<1>1. vol.files[q] \in FileType
  BY DEF VolumeOK
<1> QED BY <1>1 DEF FileType

\* Directories stay, files stay, and a closed one as it is.
Kept ==
    /\ host' = host
    /\ vol.dirs \subseteq vol'.dirs
    /\ \A q \in DOMAIN vol.files :
          /\ q \in DOMAIN vol'.files
          /\ vol.files[q].state = "closed" => vol'.files[q] = vol.files[q]

LEMMA StoredStays ==
    ASSUME Kept, NEW p, Stored(p)
    PROVE  Stored(p)'
<1>1. p \in host'.dirs => FatPath(p) \in vol'.dirs
  BY DEF Kept, Stored
<1>2. ASSUME p \in Files'
      PROVE  /\ FatPath(p) \in DOMAIN vol'.files
             /\ vol'.files[FatPath(p)] = [data |-> Content(p)', state |-> "closed"]
  <2>1. /\ FatPath(p) \in DOMAIN vol.files
        /\ vol.files[FatPath(p)] = [data |-> Content(p), state |-> "closed"]
    BY <1>2 DEF Kept, Stored, Files
  <2>2. vol.files[FatPath(p)].state = "closed"
    BY <2>1
  <2>3. Content(p)' = Content(p)
    BY DEF Kept, Content
  <2> QED BY <2>1, <2>2, <2>3 DEF Kept
<1> QED BY <1>1, <1>2 DEF Stored

\* Each call on a file, as a change of that file.
LEMMA Opened ==
    ASSUME VolumeOK, NEW p, host' = host,
           NEW st \in {"open", "lost"}, HasRoom(p),
           vol' = WithFile(p, [data |-> <<>>, state |-> st])
    PROVE  /\ VolumeOK' /\ Kept /\ vol'.dirs = vol.dirs
           /\ p \notin DOMAIN vol.files
           /\ DOMAIN vol'.files = DOMAIN vol.files \cup {p}
           /\ vol'.files[p] = [data |-> <<>>, state |-> st]
           /\ \A q \in DOMAIN vol.files : q # p => vol'.files[q] = vol.files[q]
<1>1. [data |-> <<>>, state |-> st] \in FileType
  BY EmptySeq DEF FileType
<1>2. p \notin DOMAIN vol.files
  BY DEF HasRoom, Exists
<1> QED BY <1>1, <1>2, Filed DEF Kept

LEMMA Changed ==
    ASSUME VolumeOK, NEW p, host' = host, InState(p, {"open", "short"}),
           NEW f \in FileType, vol' = WithFile(p, f)
    PROVE  /\ VolumeOK' /\ Kept /\ vol'.dirs = vol.dirs
           /\ DOMAIN vol'.files = DOMAIN vol.files /\ p \in DOMAIN vol.files
           /\ vol'.files[p] = f
           /\ \A q \in DOMAIN vol.files : q # p => vol'.files[q] = vol.files[q]
<1>1. p \in DOMAIN vol.files /\ vol.files[p].state # "closed"
  BY DEF InState
<1> QED BY <1>1, Filed DEF Kept

-----------------------------------------------------------------------------
(* What a step does to the calls of add_folder.                            *)

LEMMA Top ==
    ASSUME Types, CallsOK, stack # <<>>
    PROVE  /\ host \in Hosts /\ Len(stack) \in Nat \ {0}
           /\ top = stack[Len(stack)] /\ top \in CallType
           /\ CallOK(Len(stack))
           /\ top.dir \in Seq(Names) /\ top.img = top.dir
           /\ top.dir \in Visible(host.dirs) \cup {<<>>}
           /\ top.left \subseteq Entries(top.dir)
           /\ Len(top.dir) = Len(stack) - 1
<1>1. Len(stack) \in Nat \ {0} /\ top = stack[Len(stack)] /\ top \in CallType
  BY FrontLast DEF Types, top
<1>2. CallOK(Len(stack))
  BY <1>1, SMT DEF CallsOK
<1>3. top.dir \in Seq(Names)
  BY <1>1 DEF CallType
<1> QED BY <1>1, <1>2, <1>3 DEF CallOK, Types

\* The innermost call goes on.
LEMMA GoesOn ==
    ASSUME Types, CallsOK, stack # <<>>, host' = host, vol.dirs \subseteq vol'.dirs,
           NEW c \in CallType, stack' = Under(c),
           c.dir = top.dir, c.img = top.img, c.left \subseteq Entries(top.dir),
           c.at = "copy" => c.file \in Visible(Files) /\ Front(c.file) = c.dir
    PROVE  /\ stack' \in Seq(CallType) /\ stack' # <<>> /\ Len(stack') = Len(stack)
           /\ \A i \in 1 .. Len(stack) - 1 : stack'[i] = stack[i]
           /\ stack'[Len(stack)] = c /\ top' = c
           /\ CallsOK'
<1>1. Len(stack) \in Nat \ {0} /\ top = stack[Len(stack)] /\ CallOK(Len(stack))
  BY Top
<1> DEFINE n == Len(stack)
<1>2. /\ Front(stack) \in Seq(CallType) /\ Len(Front(stack)) = n - 1
      /\ \A i \in 1 .. n - 1 : Front(stack)[i] = stack[i]
  BY FrontLast DEF Types
<1>3. /\ stack' \in Seq(CallType) /\ stack' # <<>>
      /\ Len(stack') = (n - 1) + 1
      /\ \A i \in 1 .. n - 1 : stack'[i] = Front(stack)[i]
      /\ stack'[(n - 1) + 1] = c
  BY <1>2, AppendProperties DEF Under
<1>4. (n - 1) + 1 = n
  BY <1>1, SMT
<1>5. /\ Len(stack') = n /\ \A i \in 1 .. n - 1 : stack'[i] = stack[i]
      /\ stack'[n] = c /\ top' = c
  BY <1>2, <1>3, <1>4 DEF top, Last
<1>6. ASSUME NEW i \in 1 .. n PROVE CallOK(i)'
  <2>1. CallOK(i)
    BY DEF CallsOK
  <2>2. CASE i = n
    <3>1. i > 1 => stack'[i - 1] = stack[i - 1]
      BY <1>1, <1>5, <2>2, SMT
    <3>2. stack'[i] = c /\ stack[i] = top /\ i = Len(stack')
      BY <1>1, <1>5, <2>2
    <3> QED BY <2>1, <3>1, <3>2 DEF CallOK, Entries, Files
  <2>3. CASE i # n
    <3>1. stack'[i] = stack[i] /\ i # Len(stack)
      BY <1>1, <1>5, <2>3, SMT
    <3>2. i > 1 => stack'[i - 1] = stack[i - 1]
      BY <1>1, <1>5, <2>3, SMT
    <3> QED BY <2>1, <3>1, <3>2 DEF CallOK, Entries, Files
  <2> QED BY <2>2, <2>3
<1> QED BY <1>3, <1>5, <1>6 DEF CallsOK

\* The innermost call returns.
LEMMA Returns ==
    ASSUME Types, CallsOK, stack # <<>>, host' = host, vol.dirs \subseteq vol'.dirs,
           stack' = Front(stack)
    PROVE  /\ stack' \in Seq(CallType) /\ Len(stack') = Len(stack) - 1
           /\ \A i \in 1 .. Len(stack) - 1 : stack'[i] = stack[i]
           /\ stack' = <<>> <=> Len(stack) = 1
           /\ \A p : ~Copying(p)'
           /\ CallsOK'
<1> DEFINE n == Len(stack)
<1>1. n \in Nat \ {0}
  BY Top
<1>2. /\ stack' \in Seq(CallType) /\ Len(stack') = n - 1
      /\ \A i \in 1 .. n - 1 : stack'[i] = stack[i]
  BY FrontLast DEF Types
<1>3. stack' = <<>> <=> n = 1
  BY <1>1, <1>2, EmptySeq, SMT
<1>4. ASSUME NEW i \in 1 .. n - 1 PROVE CallOK(i)' /\ stack'[i].at # "copy"
  <2>1. i \in 1 .. n /\ i # n /\ (i > 1 => i - 1 \in 1 .. n - 1)
    BY <1>1, SMT
  <2>2. CallOK(i)
    BY <2>1 DEF CallsOK
  <2>3. stack'[i] = stack[i] /\ (i > 1 => stack'[i - 1] = stack[i - 1])
    BY <1>2, <2>1
  <2> QED BY <2>1, <2>2, <2>3 DEF CallOK, Entries, Files
<1>5. ASSUME stack' # <<>> PROVE top'.at # "copy"
  <2>1. n - 1 \in 1 .. n - 1
    <3>1. n \in Nat /\ n # 0 /\ n # 1
      BY <1>1, <1>3, <1>5
    <3> HIDE DEF n
    <3> QED BY <3>1, SMT
  <2> QED BY <1>2, <1>4, <2>1 DEF top, Last
<1> QED BY <1>2, <1>3, <1>4, <1>5 DEF CallsOK, Copying
-----------------------------------------------------------------------------
(* What a step leaves of the other invariants.                             *)

\* Every directory and file of the volume still comes from the folder.
LEMMA StillFromTheFolder ==
    ASSUME FromTheFolder, host' = host, unread \subseteq unread',
           \A q \in vol'.dirs :
              q \in vol.dirs \/ \E p \in Visible(host.dirs) : FatPath(p) = q,
           \A q \in DOMAIN vol'.files :
              \/ q \in DOMAIN vol.files /\ vol'.files[q] = vol.files[q]
              \/ \E p \in Visible(Files) :
                    FatPath(p) = q /\ (q \notin unread' => Holds(vol'.files[q].data, p))
    PROVE  FromTheFolder'
<1>1. ASSUME NEW q \in vol'.dirs
      PROVE  \E p \in Visible(host'.dirs) : FatPath(p) = q
  BY DEF FromTheFolder
<1>2. ASSUME NEW q \in DOMAIN vol'.files
      PROVE  \E p \in Visible(DOMAIN host'.sizes) :
                FatPath(p) = q /\ (q \notin unread' => Holds(vol'.files[q].data, p))
  <2>1. CASE q \in DOMAIN vol.files /\ vol'.files[q] = vol.files[q]
    <3>1. PICK p \in Visible(Files) :
             FatPath(p) = q /\ (q \notin unread => Holds(vol.files[q].data, p))
      BY <2>1 DEF FromTheFolder
    <3> QED BY <2>1, <3>1 DEF Files
  <2>2. CASE \E p \in Visible(Files) :
                FatPath(p) = q /\ (q \notin unread' => Holds(vol'.files[q].data, p))
    BY <2>2 DEF Files
  <2> QED BY <1>2, <2>1, <2>2
<1> QED BY <1>1, <1>2 DEF FromTheFolder, Files, Holds

\* A step of the packing keeps what is owed if it keeps what is pending and
\* what is copied, or stores it.
LEMMA StillOwed ==
    ASSUME NothingForgotten, stage = "pack", Kept,
           "write" \notin printed' => "write" \notin printed,
           printed' = {} => printed = {},
           "write" \notin printed' /\ unread = {} => unread' = {},
           stack # <<>> \/ err = 0 \/ ~(stack' # <<>> \/ err' = 0),
           \A p \in Visible(host.dirs \cup Files) :
              Owed(p)' /\ Owed(p) /\ (Pending(p) \/ Copying(p))
                 => Pending(p)' \/ Stored(p)' \/ Copying(p)'
    PROVE  NothingForgotten'
<1>1. "write" \notin printed => unread = {}
  BY DEF NothingForgotten
<1>2. ASSUME NEW p \in Visible(host.dirs \cup Files), Owed(p)'
      PROVE  Pending(p)' \/ Stored(p)' \/ Copying(p)'
  <2>1. Owed(p)
    BY <1>2 DEF Owed
  <2>2. Pending(p) \/ Stored(p) \/ Copying(p)
    BY <2>1 DEF NothingForgotten
  <2> QED BY <1>2, <2>1, <2>2, StoredStays
<1>3. Visible(host.dirs \cup Files)' = Visible(host.dirs \cup Files)
  BY DEF Kept, Files, Visible
<1> QED BY <1>1, <1>2, <1>3 DEF NothingForgotten

-----------------------------------------------------------------------------
(* The steps.                                                              *)

LEMMA MkInvInit == MkInit => MkInv
<1> SUFFICES ASSUME MkInit PROVE MkInv
  OBVIOUS
<1> USE DEF MkInit, VolumeInit, EmptyVolume, Running, Killed
<1>1. Len(stack) = 0 /\ stack \in Seq(CallType)
  BY EmptySeq
<1>2. Types
  BY <1>1 DEF Types, VolumeOK
<1>3. CallsOK
  BY <1>1, SMT DEF CallsOK
<1>4. CopyOK /\ FromTheFolder /\ NothingForgotten
  BY DEF CopyOK, Copying, FromTheFolder, NothingForgotten
<1> QED BY <1>2, <1>3, <1>4 DEF MkInv

\* Steps that do not touch the volume or its calls.
LEMMA Elsewhere ==
    ASSUME MkInv, UNCHANGED <<host, stack, vol, unread, err>>,
           \/ stage' = "exited" /\ exit' = 1
           \/ stage' = "format" /\ exit' = exit /\ stage = "create"
    PROVE  MkInv'
<1> USE DEF MkInv
<1>1. Types'
  BY DEF Types, VolumeOK, Running, Killed
<1>2. CallsOK'
  BY DEF CallsOK, CallOK, Entries, Files
<1>3. CopyOK'
  BY DEF CopyOK, Copying, top, Files, Holds, SoFar, InState
<1>4. FromTheFolder'
  BY DEF FromTheFolder, Files, Holds
<1>5. NothingForgotten'
  BY DEF NothingForgotten, Types, Running
<1> QED BY <1>1, <1>2, <1>3, <1>4, <1>5

LEMMA MakeImageStep == MkInv /\ MakeImage => MkInv'
<1> SUFFICES ASSUME MkInv, MakeImage PROVE MkInv'
  OBVIOUS
<1>1. /\ UNCHANGED <<host, stack, vol, unread, err>>
      /\ \/ stage' = "exited" /\ exit' = 1
         \/ stage' = "format" /\ exit' = exit /\ stage = "create"
  BY DEF MakeImage, Fail
<1> QED BY <1>1, Elsewhere

LEMMA FormatStep == MkInv /\ Format => MkInv'
<1> SUFFICES ASSUME MkInv, Format PROVE MkInv'
  OBVIOUS
<1>1. CASE Fail("image") /\ UNCHANGED <<image, stack>>
  <2>1. stage' = "exited" /\ exit' = 1 /\ UNCHANGED <<host, stack, vol, unread, err>>
    BY <1>1 DEF Format, Fail
  <2> QED BY <2>1, Elsewhere
<1>2. CASE /\ stage' = "pack" /\ UNCHANGED <<printed, exit>>
           /\ stack' = IF host.given THEN <<Call(<<>>, <<>>)>> ELSE <<>>
  <2> DEFINE c == Call(<<>>, <<>>)
  <2>1. UNCHANGED <<host, vol, unread, err>> /\ stage = "format"
    BY DEF Format
  <2>2. /\ c \in CallType /\ c.dir = <<>> /\ c.img = <<>> /\ c.at = "opendir"
        /\ c.left = {}
    BY EmptySeq DEF Call, CallType
  <2> HIDE DEF c
  <2>3. \/ stack' = <<>> /\ ~host.given
        \/ stack' = <<c>> /\ Len(stack') = 1 /\ stack'[1] = c /\ top' = c
    BY <1>2 DEF c, top, Last
  <2>4. Types'
    <3>1. stack' \in Seq(CallType)
      <4>1. <<>> \in Seq(CallType)
        BY EmptySeq
      <4>2. <<c>> \in Seq(CallType)
        BY <2>2, OneElement
      <4> QED BY <2>3, <4>1, <4>2
    <3>2. exit' = Running
      BY <1>2, <2>1 DEF MkInv, Types
    <3> QED BY <1>2, <2>1, <3>1, <3>2 DEF MkInv, Types, VolumeOK, Running
  <2>5. CallsOK'
    <3>1. ASSUME NEW i \in 1 .. Len(stack') PROVE CallOK(i)'
      <4>1. Len(<<>>) = 0
        BY EmptySeq
      <4>2. ~(stack' = <<>>)
        BY <4>1, SMT
      <4>3. Len(stack') = 1 /\ stack'[1] = c
        BY <2>3, <4>2
      <4>4. i = 1
        BY <4>3, SMT
      <4> QED BY <2>2, <4>1, <4>3, <4>4, SMT DEF CallOK
    <3> QED BY <3>1 DEF CallsOK
  <2>6. \A p : ~Copying(p)'
    BY <2>2, <2>3 DEF Copying
  <2>7. FromTheFolder'
    BY <2>1 DEF MkInv, FromTheFolder, Files, Holds
  <2>8. NothingForgotten'
    <3>1. unread' = {}
      BY <2>1 DEF MkInv, Types
    <3>2. ASSUME NEW p \in Visible(host'.dirs \cup Files') PROVE Pending(p)'
      <4>1. p \in Paths /\ host.given
        BY <2>1, Tree DEF MkInv, Types, Visible, Files
      <4>2. Len(<<>>) = 0 /\ Len(p) \in Nat \ {0}
        BY <4>1, EmptySeq DEF Paths
      <4>3. Begins(<<>>, p) /\ Len(<<>>) < Len(p)
        BY <4>2, SMT DEF Begins
      <4>4. Len(stack') = 1 /\ stack'[1] = c
        BY <2>1, <2>3, <4>1
      <4>5. 1 \in 1 .. Len(stack')
        BY <4>4, SMT
      <4>6. /\ stack'[1].at = "opendir" /\ Len(stack'[1].dir) < Len(p)
            /\ Begins(stack'[1].dir, p)
        BY <2>2, <4>3, <4>4
      <4> QED BY <4>5, <4>6 DEF Pending, PendingIn
    <3> QED BY <3>1, <3>2 DEF NothingForgotten
  <2> QED BY <2>4, <2>5, <2>6, <2>7, <2>8 DEF MkInv, CopyOK
<1> QED BY <1>1, <1>2 DEF Format

LEMMA ExitStep == MkInv /\ Exit => MkInv'
<1> SUFFICES ASSUME MkInv, Exit PROVE MkInv'
  OBVIOUS
<1>1. /\ UNCHANGED <<host, stack, vol, unread, err, printed>>
      /\ stage = "pack" /\ stage' = "exited" /\ exit' = err /\ stack = <<>>
  BY DEF Exit
<1>2. Types'
  BY <1>1 DEF MkInv, Types, VolumeOK, Running
<1>3. CallsOK'
  BY <1>1 DEF MkInv, CallsOK, CallOK, Entries, Files
<1>4. \A p : ~Copying(p)'
  BY <1>1 DEF Copying
<1>5. FromTheFolder'
  BY <1>1 DEF MkInv, FromTheFolder, Files, Holds
<1>6. NothingForgotten'
  BY <1>1 DEF MkInv, NothingForgotten, Owed, Pending, PendingIn, Stored, Copying, Files, Content, top
<1> QED BY <1>2, <1>3, <1>4, <1>5, <1>6 DEF MkInv, CopyOK
\* The innermost call returns: having given up, or at the end of its folder.
LEMMA ReturnStep ==
    ASSUME MkInv, stage = "pack", stack # <<>>, UNCHANGED <<stage, host, unread, exit>>,
           VolumeOK', Kept, FromTheFolder',
           NEW result \in {0, 1}, Return(result), printed \subseteq printed',
           \/ result = 1 /\ "folder" \in printed'
           \/ result = 0 /\ top.at = "readdir" /\ top.left = {}
    PROVE  MkInv'
<1> DEFINE n == Len(stack)
<1>1. Types /\ CallsOK /\ NothingForgotten
  BY DEF MkInv
<1>2. stack' = Front(stack) /\ err' = (IF n = 1 THEN result ELSE err)
  BY DEF Return
<1>3. /\ stack' \in Seq(CallType) /\ Len(stack') = n - 1
      /\ \A i \in 1 .. n - 1 : stack'[i] = stack[i]
      /\ stack' = <<>> <=> n = 1
      /\ \A p : ~Copying(p)'
      /\ CallsOK'
  BY <1>1, <1>2, Returns DEF Kept
<1>4. /\ n \in Nat /\ n # 0 /\ top = stack[n] /\ CallOK(n)
      /\ top.dir \in Seq(Names) /\ host \in Hosts
      /\ top.left \subseteq Entries(top.dir) /\ Len(top.dir) = n - 1
  BY <1>1, Top
<1>5. Types'
  BY <1>1, <1>2, <1>3 DEF Types, Running, Killed
<1> HIDE DEF n
<1>6. ASSUME NEW p \in Visible(host.dirs \cup Files), Owed(p)', Pending(p) \/ Copying(p)
      PROVE  Pending(p)'
  <2>1. ASSUME NEW i \in 1 .. n - 1, PendingIn(stack[i], p)
        PROVE  Pending(p)'
    BY <1>3, <2>1 DEF Pending, PendingIn
  <2>2. ASSUME PendingIn(top, p) \/ Copying(p)
        PROVE  FALSE
    <3>1. CASE result = 0 /\ top.at = "readdir" /\ top.left = {}
      BY <2>2, <3>1 DEF PendingIn, Copying
    <3>2. CASE result = 1 /\ "folder" \in printed'
      <4>1. n # 1 /\ Len(p) = 1
        BY <1>2, <1>3, <1>6, <3>2 DEF Owed
      <4>2. Len(top.dir) >= 1
        BY <1>4, <4>1, SMT
      <4>3. CASE PendingIn(top, p)
        <5>1. PICK e \in top.left : Begins(e, p)
          BY <4>1, <4>2, <4>3, SMT DEF PendingIn
        <5>2. Len(e) = Len(top.dir) + 1 /\ Len(e) <= 1
          BY <1>4, <4>1, <5>1 DEF Entries, Begins
        <5> QED BY <1>4, <4>1, <5>2, SMT
      <4>4. CASE Copying(p)
        <5>1. Front(p) = top.dir /\ p \in Files
          BY <1>4, <4>4 DEF Copying, CallOK, Visible
        <5>2. p \in Seq(Names) /\ p # <<>>
          BY <1>4, <5>1, Tree DEF Paths
        <5>3. Len(Front(p)) = Len(p) - 1
          BY <5>2, FrontLast
        <5> QED BY <1>4, <4>1, <5>1, <5>3, SMT
      <4> QED BY <2>2, <4>3, <4>4
    <3> QED BY <3>1, <3>2
  <2>3. \E i \in 1 .. n : PendingIn(stack[i], p)
    BY <1>6, <2>2 DEF Pending, n
  <2>4. PICK i \in 1 .. n : PendingIn(stack[i], p)
    BY <2>3
  <2>5. i \in 1 .. n - 1 \/ i = n
    BY <1>4, SMT
  <2> QED BY <1>4, <2>1, <2>2, <2>4, <2>5
<1>7. NothingForgotten'
  <2>1. \A p \in Visible(host.dirs \cup Files) :
           Owed(p)' /\ Owed(p) /\ (Pending(p) \/ Copying(p))
              => Pending(p)' \/ Stored(p)' \/ Copying(p)'
    BY <1>6
  <2> QED BY <1>1, <2>1, StillOwed
<1> QED BY <1>3, <1>5, <1>7 DEF MkInv, CopyOK

\* What is pending in the outer calls stays so when the innermost one goes on.
LEMMA StillPending ==
    ASSUME Types, CallsOK, stack # <<>>, NEW p, Pending(p),
           Len(stack') >= Len(stack), Len(stack') \in Nat,
           \A i \in 1 .. Len(stack) - 1 : stack'[i] = stack[i],
           PendingIn(top, p) => Pending(p)'
    PROVE  Pending(p)'
<1>1. PICK i \in 1 .. Len(stack) : PendingIn(stack[i], p)
  BY DEF Pending
<1>2. Len(stack) \in Nat /\ top = stack[Len(stack)]
  BY Top
<1>3. CASE i = Len(stack)
  BY <1>1, <1>2, <1>3
<1>4. CASE i # Len(stack)
  <2>1. i \in 1 .. Len(stack) - 1 /\ i \in 1 .. Len(stack')
    BY <1>2, <1>4, SMT
  <2>2. PendingIn(stack'[i], p)
    BY <1>1, <2>1
  <2> QED BY <2>1, <2>2 DEF Pending, PendingIn
<1> QED BY <1>3, <1>4

LEMMA OpendirStep == MkInv /\ Opendir => MkInv'
<1> SUFFICES ASSUME MkInv, Opendir PROVE MkInv'
  OBVIOUS
<1>1. /\ UNCHANGED <<stage, host, vol, unread, exit>>
      /\ stage = "pack" /\ stack # <<>> /\ top.at = "opendir"
  BY DEF Opendir, Doing
<1>2. Types /\ CallsOK /\ NothingForgotten /\ FromTheFolder
  BY DEF MkInv
<1>3. VolumeOK' /\ Kept /\ FromTheFolder'
  BY <1>1, <1>2 DEF Kept, Types, VolumeOK, FromTheFolder, Files, Holds
<1>4. CASE GiveUp
  <2>1. Return(1) /\ "folder" \in printed' /\ printed \subseteq printed'
    BY <1>4 DEF GiveUp
  <2> QED BY <1>1, <1>3, <2>1, ReturnStep
<1>5. CASE /\ stack' = Under([top EXCEPT !.at = "readdir", !.left = Entries(top.dir)])
           /\ UNCHANGED <<err, printed>>
  <2> DEFINE c == [top EXCEPT !.at = "readdir", !.left = Entries(top.dir)]
             n == Len(stack)
  <2>1. /\ top \in CallType /\ host \in Hosts /\ top.dir \in Seq(Names)
        /\ n \in Nat /\ n # 0 /\ top.left \subseteq Entries(top.dir)
    BY <1>1, <1>2, Top
  <2>2. Entries(top.dir) \subseteq Paths
    BY <2>1, EntryOf
  <2>3. /\ c \in CallType /\ c.dir = top.dir /\ c.img = top.img /\ c.at = "readdir"
        /\ c.left = Entries(top.dir)
    BY <2>1, <2>2 DEF CallType
  <2>4. stack' = Under(c)
    BY <1>5
  <2> HIDE DEF c
  <2>5. /\ stack' \in Seq(CallType) /\ stack' # <<>> /\ Len(stack') = n
        /\ \A i \in 1 .. n - 1 : stack'[i] = stack[i]
        /\ stack'[n] = c /\ top' = c
        /\ CallsOK'
    BY <1>1, <1>2, <1>3, <2>3, <2>4, GoesOn DEF Kept
  <2>6. Types'
    BY <1>1, <1>2, <1>3, <1>5, <2>5 DEF Types, Running
  <2>7. \A p : ~Copying(p)'
    BY <2>3, <2>5 DEF Copying
  <2>8. ASSUME NEW p \in Visible(host.dirs \cup Files), Pending(p) \/ Copying(p)
        PROVE  Pending(p)'
    <3>1. Pending(p)
      BY <1>1, <2>8 DEF Copying
    <3>2. ASSUME PendingIn(top, p) PROVE Pending(p)'
      <4>1. \E e \in Entries(top.dir) : Begins(e, p)
        BY <2>1, <3>2, OnTheWay DEF PendingIn, Visible
      <4>2. PendingIn(stack'[n], p) /\ n \in 1 .. Len(stack')
        BY <2>1, <2>3, <2>5, <4>1 DEF PendingIn
      <4> QED BY <4>2 DEF Pending, PendingIn
    <3>3. Len(stack') >= Len(stack) /\ Len(stack') \in Nat
      BY <2>1, <2>5
    <3> HIDE DEF n
    <3> QED BY <1>1, <1>2, <2>5, <3>1, <3>2, <3>3, StillPending DEF n
  <2>9. NothingForgotten'
    BY <1>1, <1>2, <1>3, <1>5, <2>8, StillOwed
  <2> QED BY <1>3, <2>5, <2>6, <2>7, <2>9 DEF MkInv, CopyOK
<1> QED BY <1>4, <1>5 DEF Opendir

LEMMA EndFolderStep == MkInv /\ EndFolder => MkInv'
<1> SUFFICES ASSUME MkInv, EndFolder PROVE MkInv'
  OBVIOUS
<1>1. /\ UNCHANGED <<stage, host, vol, unread, printed, exit>>
      /\ stage = "pack" /\ stack # <<>> /\ top.at = "readdir" /\ top.left = {}
      /\ Return(0)
  BY DEF EndFolder, Doing
<1>2. VolumeOK' /\ Kept /\ FromTheFolder'
  BY <1>1 DEF MkInv, Kept, Types, VolumeOK, FromTheFolder, Files, Holds
<1> QED BY <1>1, <1>2, ReturnStep
\* The innermost call after it read the entry p: what was pending in it is
\* pending still, or lies on the other side of p.
LEMMA EntryRead ==
    ASSUME Types, CallsOK, stack # <<>>, NEW p \in top.left
    PROVE  /\ Read(p) \in CallType /\ Read(p).dir = top.dir /\ Read(p).img = top.img
           /\ Read(p).at = top.at /\ Read(p).left = top.left \ {p}
           /\ Read(p).file = top.file /\ Read(p).next = top.next
           /\ Read(p).left \subseteq Entries(top.dir)
           /\ p \in Paths /\ p \in host.dirs \cup Files /\ Front(p) = top.dir
           /\ Len(p) = Len(top.dir) + 1
           /\ join_paths(top.img, Last(p)) = p
           /\ Last(p) = p[Len(p)]
           /\ Last(p) \notin Hidden => p \in Visible(host.dirs \cup Files)
<1>1. /\ host \in Hosts /\ top \in CallType /\ top.dir \in Seq(Names)
      /\ top.left \subseteq Entries(top.dir) /\ top.img = top.dir
      /\ top.dir \in Visible(host.dirs) \cup {<<>>}
  BY Top
<1>2. /\ Read(p) \in CallType /\ Read(p).dir = top.dir /\ Read(p).img = top.img
      /\ Read(p).at = top.at /\ Read(p).left = top.left \ {p}
      /\ Read(p).file = top.file /\ Read(p).next = top.next
  BY <1>1 DEF CallType, Read
<1>3. p \in Entries(top.dir)
  BY <1>1
<1> QED BY <1>1, <1>2, <1>3, EntryOf, VisibleEntry

LEMMA SkipHiddenStep ==
    ASSUME MkInv, stage = "pack", stack # <<>>, top.at = "readdir",
           UNCHANGED <<stage, host, image, exit>>,
           NEW p \in top.left, SkipHidden(p)
    PROVE  MkInv'
<1> DEFINE n == Len(stack)
<1>1. /\ UNCHANGED <<vol, unread, err, printed>>
      /\ Last(p) \in Hidden /\ stack' = Under(Read(p))
  BY DEF SkipHidden
<1>2. Types /\ CallsOK /\ NothingForgotten /\ FromTheFolder
  BY DEF MkInv
<1>3. VolumeOK' /\ Kept /\ FromTheFolder'
  BY <1>1, <1>2 DEF Kept, Types, VolumeOK, FromTheFolder, Files, Holds
<1>4. /\ Read(p) \in CallType /\ Read(p).dir = top.dir /\ Read(p).img = top.img
      /\ Read(p).at = "readdir" /\ Read(p).left = top.left \ {p}
      /\ Read(p).left \subseteq Entries(top.dir)
      /\ p \in Paths /\ Last(p) = p[Len(p)]
  BY <1>2, EntryRead
<1>5. /\ stack' \in Seq(CallType) /\ stack' # <<>> /\ Len(stack') = n
      /\ \A i \in 1 .. n - 1 : stack'[i] = stack[i]
      /\ stack'[n] = Read(p) /\ top' = Read(p)
      /\ CallsOK'
  <2>1. Read(p).at # "copy" /\ vol.dirs \subseteq vol'.dirs
    BY <1>1, <1>4
  <2> QED BY <1>1, <1>2, <1>4, <2>1, GoesOn
<1>6. Types'
  BY <1>1, <1>2, <1>3, <1>5 DEF Types, Running
<1>7. \A q : ~Copying(q)'
  BY <1>4, <1>5 DEF Copying
<1>8. ASSUME NEW q \in Visible(host.dirs \cup Files), Pending(q) \/ Copying(q)
      PROVE  Pending(q)'
  <2>1. Pending(q)
    BY <1>8 DEF Copying
  <2>2. n \in Nat /\ n # 0 /\ top = stack[n]
    BY <1>2, Top
  <2>3. ASSUME PendingIn(top, q) PROVE Pending(q)'
    <3>1. PICK e \in top.left : Begins(e, q)
      BY <2>3 DEF PendingIn
    <3>2. e # p
      <4> SUFFICES ASSUME e = p PROVE FALSE
        OBVIOUS
      <4>1. Len(p) \in 1 .. Len(p) /\ Len(p) <= Len(q) /\ Len(q) \in Nat
        <5>1. p \in Seq(Names) /\ p # <<>> /\ q \in Seq(Names)
          BY <1>2, <1>4, Tree DEF Paths, Visible, Types
        <5>2. Len(p) \in Nat /\ Len(p) # 0 /\ Len(q) \in Nat
          BY <5>1, EmptySeq
        <5> QED BY <3>1, <5>2, SMT DEF Begins
      <4>2. q[Len(p)] = p[Len(p)] /\ Len(p) \in 1 .. Len(q)
        BY <3>1, <4>1, SMT DEF Begins
      <4> QED BY <1>1, <1>4, <4>2 DEF Visible
    <3>3. PendingIn(stack'[n], q) /\ n \in 1 .. Len(stack')
      BY <1>4, <1>5, <2>2, <3>1, <3>2 DEF PendingIn
    <3> QED BY <3>3 DEF Pending, PendingIn
  <2>4. Len(stack') >= Len(stack) /\ Len(stack') \in Nat
    BY <1>5, <2>2
  <2> HIDE DEF n
  <2> QED BY <1>2, <1>5, <2>1, <2>3, <2>4, StillPending DEF n
<1>9. NothingForgotten'
  BY <1>1, <1>2, <1>3, <1>8, StillOwed
<1> QED BY <1>3, <1>5, <1>6, <1>7, <1>9 DEF MkInv, CopyOK

LEMMA EnterFolderStep ==
    ASSUME MkInv, stage = "pack", stack # <<>>, top.at = "readdir",
           UNCHANGED <<stage, host, image, exit>>,
           NEW p \in top.left, EnterFolder(p)
    PROVE  MkInv'
<1> DEFINE n == Len(stack)
           c == Call(p, p)
<1>1. /\ UNCHANGED unread /\ Last(p) \notin Hidden /\ p \in host.dirs
  BY DEF EnterFolder
<1>2. Types /\ CallsOK /\ NothingForgotten /\ FromTheFolder
  BY DEF MkInv
<1>3. /\ Read(p) \in CallType /\ Read(p).dir = top.dir /\ Read(p).img = top.img
      /\ Read(p).at = "readdir" /\ Read(p).left = top.left \ {p}
      /\ Read(p).left \subseteq Entries(top.dir)
      /\ p \in Paths /\ Front(p) = top.dir /\ Len(p) = Len(top.dir) + 1
      /\ join_paths(top.img, Last(p)) = p
      /\ p \in Visible(host.dirs)
  BY <1>1, <1>2, EntryRead DEF Visible
<1>4. /\ n \in Nat /\ n # 0 /\ top = stack[n] /\ Len(top.dir) = n - 1 /\ host \in Hosts
  BY <1>2, Top
<1>5. VolumeOK /\ (Mkdir(FatPath(p)) \/ UNCHANGED vol)
  BY <1>2, <1>3 DEF Types, EnterFolder, GiveUp
<1>6. VolumeOK' /\ Kept /\ FromTheFolder'
  <2>1. VolumeOK' /\ vol'.files = vol.files
        /\ (vol'.dirs = vol.dirs \cup {FatPath(p)} \/ vol'.dirs = vol.dirs)
    BY <1>5, Made DEF VolumeOK
  <2>2. Kept
    BY <2>1 DEF Kept
  <2>3. FromTheFolder'
    BY <1>1, <1>2, <1>3, <2>1, StillFromTheFolder
  <2> QED BY <2>1, <2>2, <2>3
<1>7. CASE GiveUp
  <2>1. Return(1) /\ "folder" \in printed' /\ printed \subseteq printed'
    BY <1>7 DEF GiveUp
  <2> QED BY <1>1, <1>6, <2>1, ReturnStep
<1>8. CASE /\ Mkdir(FatPath(p)) /\ stack' = Append(Under(Read(p)), c)
           /\ UNCHANGED <<err, printed>>
  <2>1. /\ c \in CallType /\ c.dir = p /\ c.img = p /\ c.at = "opendir" /\ c.left = {}
    BY <1>3, EmptySeq DEF Call, CallType, Paths
  <2>2. vol'.dirs = vol.dirs \cup {FatPath(p)} /\ vol'.files = vol.files
    BY <1>5, <1>8, Made
  <2> HIDE DEF c
  <2>3. /\ Under(Read(p)) \in Seq(CallType) /\ Len(Under(Read(p))) = n
        /\ \A i \in 1 .. n - 1 : Under(Read(p))[i] = stack[i]
        /\ Under(Read(p))[n] = Read(p)
    <3>1. /\ Front(stack) \in Seq(CallType) /\ Len(Front(stack)) = n - 1
          /\ \A i \in 1 .. n - 1 : Front(stack)[i] = stack[i]
      BY <1>2, FrontLast DEF Types
    <3>2. (n - 1) + 1 = n
      BY <1>4, SMT
    <3> QED BY <1>3, <3>1, <3>2, AppendProperties DEF Under
  <2>4. /\ stack' \in Seq(CallType) /\ stack' # <<>> /\ Len(stack') = n + 1
        /\ \A i \in 1 .. n : stack'[i] = Under(Read(p))[i]
        /\ stack'[n + 1] = c
    BY <1>8, <2>1, <2>3, AppendProperties
  <2>5. /\ \A i \in 1 .. n - 1 : stack'[i] = stack[i]
        /\ stack'[n] = Read(p) /\ top' = c
    BY <1>4, <2>3, <2>4, SMT DEF top, Last
  <2>6. Types'
    BY <1>1, <1>2, <1>6, <1>8, <2>4 DEF Types, Running
  <2>7. CallsOK'
    <3>1. ASSUME NEW i \in 1 .. n + 1 PROVE CallOK(i)'
      <4>1. CASE i = n + 1
        <5>1. i - 1 = n /\ i > 1 /\ Len(p) = i - 1
          BY <1>3, <1>4, <4>1, SMT
        <5> QED BY <1>3, <1>6, <2>1, <2>2, <2>4, <2>5, <4>1, <5>1 DEF CallOK, Kept
      <4>2. CASE i = n
        <5>1. CallOK(n) /\ (i > 1 => i - 1 \in 1 .. n - 1)
          BY <1>2, <1>4, <4>2, SMT DEF CallsOK
        <5> QED BY <1>3, <1>4, <2>2, <2>5, <4>2, <5>1 DEF CallOK, Entries, Files
      <4>3. CASE i # n /\ i # n + 1
        <5>1. i \in 1 .. n - 1 /\ i \in 1 .. n /\ (i > 1 => i - 1 \in 1 .. n - 1)
          BY <1>4, <4>3, SMT
        <5>2. CallOK(i)
          BY <1>2, <5>1 DEF CallsOK
        <5> QED BY <2>2, <2>5, <4>3, <5>1, <5>2 DEF CallOK, Entries, Files
      <4> QED BY <4>1, <4>2, <4>3
    <3> QED BY <2>4, <3>1 DEF CallsOK
  <2>8. \A q : ~Copying(q)'
    BY <2>1, <2>5 DEF Copying
  <2>9. ASSUME NEW q \in Visible(host.dirs \cup Files), Pending(q) \/ Copying(q)
        PROVE  Pending(q)' \/ Stored(q)'
    <3>1. Pending(q)
      BY <2>9 DEF Copying
    <3>2. CASE \E e \in top.left \ {p} : Begins(e, q)
      <4>1. PendingIn(stack'[n], q) /\ n \in 1 .. Len(stack')
        BY <1>3, <1>4, <2>4, <2>5, <3>2, SMT DEF PendingIn
      <4> QED BY <4>1 DEF Pending, PendingIn
    <3>3. CASE Begins(p, q) /\ q # p
      <4>1. p \in Seq(Names) /\ q \in Seq(Names)
        BY <1>3, <1>4, Tree DEF Paths, Visible
      <4>2. Len(p) # Len(q)
        BY <3>3, <4>1, SeqEqual, SMT DEF Begins
      <4>3. Len(p) < Len(q)
        BY <3>3, <4>1, <4>2, LenProperties, SMT DEF Begins
      <4>4. PendingIn(stack'[n + 1], q) /\ n + 1 \in 1 .. Len(stack')
        BY <1>4, <2>1, <2>4, <3>3, <4>3, SMT DEF PendingIn
      <4> QED BY <4>4 DEF Pending, PendingIn
    <3>4. CASE q = p
      <4>1. p \notin Files
        BY <1>1, <1>4, Tree
      <4> QED BY <1>1, <2>2, <3>4, <4>1 DEF Stored, Files
    <3>5. CASE ~PendingIn(top, q)
      <4>1. Len(stack') >= Len(stack) /\ Len(stack') \in Nat
        BY <1>4, <2>4, SMT
      <4> QED BY <1>2, <2>5, <3>1, <3>5, <4>1, StillPending
    <3> QED BY <3>2, <3>3, <3>4, <3>5 DEF PendingIn
  <2>10. NothingForgotten'
    BY <1>1, <1>2, <1>6, <1>8, <2>9, StillOwed
  <2> QED BY <1>6, <2>6, <2>7, <2>8, <2>10 DEF MkInv, CopyOK
<1> QED BY <1>3, <1>7, <1>8 DEF EnterFolder
\* The entry p was read, and the file it names is copied next.
LEMMA OpenFileStep ==
    ASSUME MkInv, stage = "pack", stack # <<>>, top.at = "readdir",
           UNCHANGED <<stage, host, image, exit>>,
           NEW p \in top.left, OpenFile(p)
    PROVE  MkInv'
<1> DEFINE n == Len(stack)
           q == FatPath(p)
           c == [Read(p) EXCEPT !.at = "copy", !.file = p, !.next = 0]
<1>1. /\ UNCHANGED unread /\ Last(p) \notin Hidden /\ p \in Files
  BY DEF OpenFile
<1>2. Types /\ CallsOK /\ NothingForgotten /\ FromTheFolder /\ VolumeOK
  BY DEF MkInv, Types
<1>3. /\ Read(p) \in CallType /\ Read(p).dir = top.dir /\ Read(p).img = top.img
      /\ Read(p).left = top.left \ {p} /\ Read(p).left \subseteq Entries(top.dir)
      /\ p \in Paths /\ Front(p) = top.dir /\ Len(p) = Len(top.dir) + 1
      /\ join_paths(top.img, Last(p)) = p
      /\ p \in Visible(Files)
  BY <1>1, <1>2, EntryRead DEF Visible
<1>4. /\ n \in Nat /\ n # 0 /\ top = stack[n] /\ host \in Hosts
      /\ host.sizes[p] \in Nat
  BY <1>1, <1>2, Top, Tree
<1>5. \/ /\ Create(q) /\ stack' = Under(c) /\ UNCHANGED <<err, printed>>
      \/ GiveUp /\ (CreateLost(q) \/ UNCHANGED vol)
  BY <1>3 DEF OpenFile
<1>6. Holds(<<>>, p)
  BY <1>4, EmptySeq, SMT DEF Holds
<1>7. ASSUME NEW st \in {"open", "lost"}, HasRoom(q),
             vol' = WithFile(q, [data |-> <<>>, state |-> st])
      PROVE  /\ VolumeOK' /\ Kept /\ FromTheFolder' /\ vol'.dirs = vol.dirs
             /\ q \in DOMAIN vol'.files
             /\ vol'.files[q] = [data |-> <<>>, state |-> st]
  <2>1. /\ VolumeOK' /\ Kept /\ vol'.dirs = vol.dirs
        /\ DOMAIN vol'.files = DOMAIN vol.files \cup {q}
        /\ vol'.files[q] = [data |-> <<>>, state |-> st]
        /\ \A r \in DOMAIN vol.files : r # q => vol'.files[r] = vol.files[r]
    BY <1>2, <1>7, Opened
  <2>2. vol'.files[q].data = <<>>
    BY <2>1
  <2>3. FromTheFolder'
    BY <1>1, <1>2, <1>3, <1>6, <2>1, <2>2, StillFromTheFolder
  <2> QED BY <2>1, <2>3
<1> HIDE DEF c
<1>8. CASE GiveUp /\ (CreateLost(q) \/ UNCHANGED vol)
  <2>1. Return(1) /\ "folder" \in printed' /\ printed \subseteq printed'
    BY <1>8 DEF GiveUp
  <2>2. VolumeOK' /\ Kept /\ FromTheFolder'
    <3>1. CASE UNCHANGED vol
      BY <1>1, <1>2, <3>1 DEF VolumeOK, Kept, FromTheFolder, Files, Holds
    <3>2. CASE CreateLost(q)
      BY <1>7, <3>2 DEF CreateLost
    <3> QED BY <1>8, <3>1, <3>2
  <2> QED BY <1>1, <2>1, <2>2, ReturnStep
<1>9. CASE Create(q) /\ stack' = Under(c) /\ UNCHANGED <<err, printed>>
  <2>1. /\ c \in CallType /\ c.dir = top.dir /\ c.img = top.img /\ c.at = "copy"
        /\ c.left = top.left \ {p} /\ c.file = p /\ c.next = 0
    BY <1>3 DEF c, CallType, Paths
  <2>2. /\ VolumeOK' /\ Kept /\ FromTheFolder'
        /\ q \in DOMAIN vol'.files
        /\ vol'.files[q] = [data |-> <<>>, state |-> "open"]
    BY <1>7, <1>9 DEF Create
  <2>3. /\ stack' \in Seq(CallType) /\ stack' # <<>> /\ Len(stack') = n
        /\ \A i \in 1 .. n - 1 : stack'[i] = stack[i]
        /\ stack'[n] = c /\ top' = c
        /\ CallsOK'
    BY <1>2, <1>3, <1>9, <2>1, <2>2, GoesOn DEF Kept
  <2>4. Types'
    BY <1>1, <1>2, <1>9, <2>2, <2>3 DEF Types, Running
  <2>5. CopyOK'
    <3>1. ASSUME NEW r \in Files', Copying(r)'
          PROVE  /\ InState(FatPath(r), {"open", "short"})'
                 /\ Holds(vol.files[FatPath(r)].data, r)'
                 /\ vol'.files[FatPath(r)].state = "open"
                 /\ (Len(vol.files[FatPath(r)].data) = SoFar(r))'
      <4>1. r = p
        BY <2>1, <2>3, <3>1 DEF Copying
      <4>2. /\ vol'.files[q].data = <<>> /\ vol'.files[q].state = "open"
            /\ Len(<<>>) = 0
        BY <2>2, EmptySeq
      <4>3. SoFar(p)' = 0
        <5>1. host'.sizes[p] = host.sizes[p] /\ top'.next = 0
          BY <2>1, <2>2, <2>3 DEF Kept
        <5> QED BY <1>4, <5>1, SMT DEF SoFar
      <4>4. Holds(<<>>, p)'
        BY <1>6, <2>2 DEF Holds, Kept
      <4> QED BY <2>2, <4>1, <4>2, <4>3, <4>4 DEF InState, Holds
    <3> QED BY <3>1 DEF CopyOK
  <2>6. ASSUME NEW r \in Visible(host.dirs \cup Files), Pending(r) \/ Copying(r)
        PROVE  Pending(r)' \/ Copying(r)'
    <3>1. Pending(r)
      BY <2>6 DEF Copying
    <3>2. CASE \E e \in top.left \ {p} : Begins(e, r)
      <4>1. PendingIn(stack'[n], r) /\ n \in 1 .. Len(stack')
        BY <1>4, <2>1, <2>3, <3>2, SMT DEF PendingIn
      <4> QED BY <4>1 DEF Pending, PendingIn
    <3>3. CASE Begins(p, r) /\ r # p
      <4>1. p \in Seq(Names) /\ r \in Seq(Names) /\ r \in host.dirs \cup Files
        BY <1>3, <1>4, Tree DEF Paths, Visible
      <4>2. Len(p) # Len(r)
        BY <3>3, <4>1, SeqEqual, SMT DEF Begins
      <4>3. Len(p) < Len(r) /\ Len(p) \in Nat /\ Len(r) \in Nat /\ Len(p) # 0
        BY <1>3, <3>3, <4>1, <4>2, LenProperties, EmptySeq, SMT DEF Begins, Paths
      <4>4. SubSeq(r, 1, Len(p)) \in host.dirs
        BY <1>4, <4>1, <4>3, Tree, SMT
      <4>5. SubSeq(r, 1, Len(p)) = p
        <5>1. \A i \in 1 .. Len(p) : r[i] \in Names /\ r[i] = p[i]
          BY <3>3, <4>1, <4>3, ElementOfSeq, SMT DEF Begins
        <5>2. /\ SubSeq(r, 1, Len(p)) \in Seq(Names)
              /\ Len(SubSeq(r, 1, Len(p))) = Len(p)
              /\ \A i \in 1 .. Len(p) : SubSeq(r, 1, Len(p))[i] = r[i]
          <6>1. 1 \in Int /\ Len(p) \in Int /\ 1 <= Len(p)
            BY <4>3, SMT
          <6>2. /\ SubSeq(r, 1, Len(p)) \in Seq(Names)
                /\ Len(SubSeq(r, 1, Len(p))) = Len(p) - 1 + 1
                /\ \A i \in 1 .. Len(p) - 1 + 1 : SubSeq(r, 1, Len(p))[i] = r[1 + i - 1]
            BY <5>1, <6>1, SubSeqProperties
          <6> QED BY <4>3, <6>2, SMT
        <5> QED BY <4>1, <5>1, <5>2, SeqEqual
      <4> QED BY <1>1, <1>4, <4>4, <4>5, Tree
    <3>4. CASE r = p
      BY <2>1, <2>3, <3>4 DEF Copying
    <3>5. CASE ~PendingIn(top, r)
      <4>1. Len(stack') >= Len(stack) /\ Len(stack') \in Nat
        BY <1>4, <2>3, SMT
      <4> QED BY <1>2, <2>3, <3>1, <3>5, <4>1, StillPending
    <3> QED BY <3>2, <3>3, <3>4, <3>5 DEF PendingIn
  <2>7. NothingForgotten'
    BY <1>1, <1>2, <1>9, <2>2, <2>6, StillOwed
  <2> QED BY <2>2, <2>3, <2>4, <2>5, <2>7 DEF MkInv
<1> QED BY <1>5, <1>8, <1>9

LEMMA ReaddirStep == MkInv /\ Readdir => MkInv'
<1> SUFFICES ASSUME MkInv, Readdir PROVE MkInv'
  OBVIOUS
<1>1. /\ stage = "pack" /\ stack # <<>> /\ top.at = "readdir"
      /\ UNCHANGED <<stage, host, image, exit>>
  BY DEF Readdir, Doing
<1>2. PICK p \in top.left : SkipHidden(p) \/ EnterFolder(p) \/ OpenFile(p)
  BY DEF Readdir
<1> QED BY <1>1, <1>2, SkipHiddenStep, EnterFolderStep, OpenFileStep
\* The file that is being copied.
LEMMA CopyTop ==
    ASSUME MkInv, Doing("copy")
    PROVE  /\ stage = "pack" /\ stack # <<>> /\ top.at = "copy"
           /\ Copying(top.file) /\ top.file \in Visible(Files) /\ top.file \in Files
           /\ top.file \in Seq(Names) /\ Target = FatPath(top.file)
           /\ top.next \in Nat /\ host.sizes[top.file] \in Nat
           /\ VolumeOK /\ InState(Target, {"open", "short"})
           /\ Target \notin unread => Holds(vol.files[Target].data, top.file)
           /\ Target \notin unread /\ vol.files[Target].state = "open"
                 => Len(vol.files[Target].data) = SoFar(top.file)
           /\ vol.files[Target].state = "short" => "write" \in printed
<1>1. stage = "pack" /\ stack # <<>> /\ top.at = "copy"
  BY DEF Doing
<1>2. /\ host \in Hosts /\ top \in CallType /\ top = stack[Len(stack)]
      /\ CallOK(Len(stack)) /\ top.img = top.dir
  BY <1>1, Top DEF MkInv
<1>3. /\ top.file \in Visible(Files) /\ top.file \in Files /\ Front(top.file) = top.dir
      /\ top.file \in Seq(Names) /\ top.next \in Nat
  BY <1>1, <1>2 DEF CallOK, Visible, CallType
<1>4. top.file \in Paths /\ host.sizes[top.file] \in Nat
  BY <1>2, <1>3, Tree
<1>5. Target = FatPath(top.file)
  BY <1>2, <1>3, <1>4, FrontLast DEF Target, join_paths, Paths
<1>6. Copying(top.file)
  BY <1>1 DEF Copying
<1> QED BY <1>1, <1>3, <1>4, <1>5, <1>6 DEF MkInv, Types, CopyOK

\* The block that is read next continues the file.
LEMMA BlockRead ==
    ASSUME MkInv, Doing("copy"), MoreBlocks
    PROVE  /\ Block \in Seq(Cells) /\ Len(Block) \in Nat \ {0}
           /\ top.next + Len(Block) = IF top.next + ReadSize < host.sizes[top.file]
                                      THEN top.next + ReadSize ELSE host.sizes[top.file]
           /\ \A i \in 1 .. Len(Block) : Block[i] = <<top.file, top.next + i>>
<1> DEFINE F == top.file
           a == top.next
           z == host.sizes[F]
           e == IF a + ReadSize < z THEN a + ReadSize ELSE z
<1>1. /\ F \in Seq(Names) /\ a \in Nat /\ z \in Nat /\ a < z
      /\ ReadSize \in Nat /\ ReadSize # 0
  BY CopyTop, BlockAssumption DEF MoreBlocks
<1>2. e \in Nat /\ a < e /\ e <= z
  BY <1>1, SMT
<1>3. Content(F) = [i \in 1 .. z |-> <<F, i>>]
  BY DEF Content
<1>4. Block = SubSeq(Content(F), a + 1, e)
  BY DEF Block
<1> HIDE DEF F, a, z, e
<1>5. \A i \in a + 1 .. e : Content(F)[i] = <<F, i>> /\ Content(F)[i] \in Cells
  BY <1>1, <1>2, <1>3, SMT DEF Cells
<1>6. a + 1 \in Int /\ e \in Int /\ a + 1 <= e
  BY <1>1, <1>2, SMT
<1>7. /\ Block \in Seq(Cells) /\ Len(Block) = e - (a + 1) + 1
      /\ \A i \in 1 .. e - (a + 1) + 1 : Block[i] = Content(F)[(a + 1) + i - 1]
  BY <1>4, <1>5, <1>6, SubSeqProperties
<1>8. e - (a + 1) + 1 = e - a /\ e - a \in Nat \ {0} /\ a + (e - a) = e
  BY <1>1, <1>2, SMT
<1>9. ASSUME NEW i \in 1 .. e - a PROVE Block[i] = <<F, a + i>>
  <2>1. (a + 1) + i - 1 = a + i /\ a + i \in a + 1 .. e
    BY <1>1, <1>2, SMT
  <2> QED BY <1>5, <1>7, <1>8, <2>1
<1> QED BY <1>7, <1>8, <1>9 DEF F, a, z, e

LEMMA DataGrows ==
    ASSUME NEW p, host.sizes[p] \in Nat, NEW d \in Seq(Cells), NEW b \in Seq(Cells),
           Holds(d, p), Len(d) + Len(b) <= host.sizes[p],
           \A i \in 1 .. Len(b) : b[i] = <<p, Len(d) + i>>
    PROVE  d \o b \in Seq(Cells) /\ Len(d \o b) = Len(d) + Len(b) /\ Holds(d \o b, p)
<1>1. /\ d \o b \in Seq(Cells) /\ Len(d \o b) = Len(d) + Len(b)
      /\ \A i \in 1 .. Len(d) + Len(b) :
            (d \o b)[i] = IF i <= Len(d) THEN d[i] ELSE b[i - Len(d)]
  BY ConcatProperties
<1>2. Len(d) \in Nat /\ Len(b) \in Nat
  BY LenProperties
<1>3. ASSUME NEW i \in 1 .. Len(d) + Len(b) PROVE (d \o b)[i] = <<p, i>>
  <2>1. CASE i <= Len(d)
    BY <1>1, <1>2, <2>1, SMT DEF Holds
  <2>2. CASE ~(i <= Len(d))
    <3>1. i - Len(d) \in 1 .. Len(b) /\ Len(d) + (i - Len(d)) = i
      BY <1>2, <2>2, SMT
    <3>2. (d \o b)[i] = b[i - Len(d)]
      BY <1>1, <2>2
    <3> QED BY <3>1, <3>2
  <2> QED BY <2>1, <2>2
<1> QED BY <1>1, <1>3 DEF Holds

\* The file being copied becomes f, and its call goes on with c.
LEMMA CopyGoesOn ==
    ASSUME MkInv, Doing("copy"), UNCHANGED <<stage, host, err, exit>>,
           printed \subseteq printed', unread \subseteq unread',
           "write" \notin printed' => unread' = unread,
           stack' = Under([top EXCEPT !.next = @ + ReadSize]),
           NEW f \in FileType, vol' = WithFile(Target, f),
           f.state \in {"open", "short"},
           f.state = "short" => "write" \in printed',
           Target \notin unread' => Holds(f.data, top.file),
           Target \notin unread' /\ f.state = "open" =>
              Len(f.data) = IF top.next + ReadSize < host.sizes[top.file]
                            THEN top.next + ReadSize ELSE host.sizes[top.file]
    PROVE  MkInv'
<1>0. PICK F : F = top.file
  OBVIOUS
<1> DEFINE n == Len(stack)
           q == FatPath(F)
           c == [top EXCEPT !.next = @ + ReadSize]
<1>1. /\ stage = "pack" /\ stack # <<>> /\ top.at = "copy"
      /\ F \in Visible(Files) /\ F \in Files /\ Target = q
      /\ top.next \in Nat /\ InState(q, {"open", "short"})
  BY <1>0, CopyTop
<1>2. Types /\ CallsOK /\ NothingForgotten /\ FromTheFolder /\ VolumeOK
  BY DEF MkInv, Types
<1>3. /\ n \in Nat /\ n # 0 /\ top = stack[n] /\ top \in CallType /\ CallOK(n)
      /\ top.left \subseteq Entries(top.dir) /\ Front(F) = top.dir
  BY <1>0, <1>1, <1>2, Top DEF CallOK
<1>4. /\ VolumeOK' /\ Kept /\ vol'.dirs = vol.dirs
      /\ DOMAIN vol'.files = DOMAIN vol.files /\ q \in DOMAIN vol.files
      /\ vol'.files[q] = f
      /\ \A r \in DOMAIN vol.files : r # q => vol'.files[r] = vol.files[r]
  BY <1>1, <1>2, Changed
<1>5. FromTheFolder'
  BY <1>0, <1>1, <1>2, <1>4, StillFromTheFolder
<1>6. /\ c \in CallType /\ c.dir = top.dir /\ c.img = top.img /\ c.at = "copy"
      /\ c.left = top.left /\ c.file = F /\ c.next = top.next + ReadSize
  <2>1. top.next + ReadSize \in Nat
    BY <1>1, BlockAssumption, SMT
  <2> QED BY <1>0, <1>1, <1>3, <2>1 DEF CallType
<1> HIDE DEF c
<1>7. /\ stack' \in Seq(CallType) /\ stack' # <<>> /\ Len(stack') = n
      /\ \A i \in 1 .. n - 1 : stack'[i] = stack[i]
      /\ stack'[n] = c /\ top' = c
      /\ CallsOK'
  <2>1. stack' = Under(c)
    BY DEF c
  <2> QED BY <1>1, <1>2, <1>3, <1>4, <1>6, <2>1, GoesOn
<1>8. Types'
  BY <1>1, <1>2, <1>4, <1>7 DEF Types, Running
<1>9. CopyOK'
  <2>1. ASSUME NEW r \in Files', Copying(r)' PROVE r = F
    BY <1>6, <1>7, <2>1 DEF Copying
  <2>2. InState(q, {"open", "short"})'
    BY <1>4 DEF InState
  <2>3. q \notin unread' => Holds(vol.files[q].data, F)'
    BY <1>0, <1>1, <1>4 DEF Holds, Kept
  <2>4. SoFar(F)' = IF top.next + ReadSize < host.sizes[F]
                    THEN top.next + ReadSize ELSE host.sizes[F]
    BY <1>4, <1>6, <1>7 DEF SoFar, Kept
  <2>5. q \notin unread' /\ vol'.files[q].state = "open"
           => Len(vol'.files[q].data) = SoFar(F)'
    BY <1>0, <1>1, <1>4, <2>4
  <2>6. vol'.files[q].state = "short" => "write" \in printed'
    BY <1>4
  <2> QED BY <2>1, <2>2, <2>3, <2>5, <2>6 DEF CopyOK
<1>10. ASSUME NEW r \in Visible(host.dirs \cup Files), Pending(r) \/ Copying(r)
       PROVE  Pending(r)' \/ Copying(r)'
  <2>1. CASE Copying(r)
    BY <1>0, <1>6, <1>7, <2>1 DEF Copying
  <2>2. CASE Pending(r)
    <3>1. ASSUME PendingIn(top, r) PROVE Pending(r)'
      <4>1. PendingIn(stack'[n], r) /\ n \in 1 .. Len(stack')
        BY <1>1, <1>3, <1>6, <1>7, <3>1 DEF PendingIn
      <4> QED BY <4>1 DEF Pending, PendingIn
    <3>2. Len(stack') >= Len(stack) /\ Len(stack') \in Nat
      BY <1>3, <1>7
    <3> HIDE DEF n
    <3> QED BY <1>1, <1>2, <1>7, <2>2, <3>1, <3>2, StillPending DEF n
  <2> QED BY <1>10, <2>1, <2>2
<1>11. NothingForgotten'
  BY <1>1, <1>2, <1>4, <1>10, StillOwed
<1> QED BY <1>5, <1>7, <1>8, <1>9, <1>11 DEF MkInv
LEMMA WrittenWhole ==
    ASSUME MkInv, Doing("copy"), MoreBlocks, Write(Target, Block)
    PROVE  \E f \in FileType :
              /\ vol' = WithFile(Target, f) /\ f.state = "open"
              /\ Target \notin unread =>
                    /\ Holds(f.data, top.file)
                    /\ Len(f.data) = IF top.next + ReadSize < host.sizes[top.file]
                                     THEN top.next + ReadSize ELSE host.sizes[top.file]
<1> DEFINE d == vol.files[Target].data
           f == [data |-> d \o Block, state |-> "open"]
<1>1. /\ VolumeOK /\ Target \in DOMAIN vol.files /\ vol.files[Target].state = "open"
      /\ top.next \in Nat /\ host.sizes[top.file] \in Nat
      /\ Target \notin unread => Holds(d, top.file) /\ Len(d) = SoFar(top.file)
  BY CopyTop DEF Write, InState
<1>2. d \in Seq(Cells) /\ vol.files[Target] = [data |-> d, state |-> "open"]
  BY <1>1, FileOf
<1>3. [vol.files[Target] EXCEPT !.data = @ \o Block] = f
  <2>1. ASSUME NEW g, NEW x, NEW y, g = [data |-> x, state |-> "open"]
        PROVE  [g EXCEPT !.data = y] = [data |-> y, state |-> "open"]
    BY <2>1
  <2>2. PICK y : y = vol.files[Target].data \o Block
    OBVIOUS
  <2>3. PICK g : g = vol.files[Target]
    OBVIOUS
  <2>4. [g EXCEPT !.data = y] = [data |-> y, state |-> "open"]
    BY <1>2, <2>1, <2>3
  <2> QED BY <2>2, <2>3, <2>4
<1>4. /\ Block \in Seq(Cells) /\ Len(Block) \in Nat
      /\ top.next + Len(Block) = IF top.next + ReadSize < host.sizes[top.file]
                                 THEN top.next + ReadSize ELSE host.sizes[top.file]
      /\ \A i \in 1 .. Len(Block) : Block[i] = <<top.file, top.next + i>>
  BY BlockRead
<1>5. vol' = WithFile(Target, f)
  BY <1>3 DEF Write
<1> HIDE DEF d
<1>6. d \o Block \in Seq(Cells)
  BY <1>2, <1>4, ConcatProperties
<1>7. f \in FileType /\ f.state = "open" /\ f.data = d \o Block
  BY <1>6 DEF FileType
<1>8. ASSUME Target \notin unread
      PROVE  /\ Holds(f.data, top.file)
             /\ Len(f.data) = IF top.next + ReadSize < host.sizes[top.file]
                              THEN top.next + ReadSize ELSE host.sizes[top.file]
  <2>1. Len(d) = top.next
    BY <1>1, <1>8 DEF SoFar, MoreBlocks
  <2>2. Len(d) + Len(Block) <= host.sizes[top.file]
    <3>1. top.next + ReadSize \in Nat
      BY <1>1, BlockAssumption, SMT
    <3> QED BY <1>1, <1>4, <2>1, <3>1, SMT
  <2>3. Len(d \o Block) = Len(d) + Len(Block) /\ Holds(d \o Block, top.file)
    BY <1>1, <1>2, <1>4, <1>8, <2>1, <2>2, DataGrows
  <2> QED BY <1>4, <1>7, <2>1, <2>3
<1> QED BY <1>5, <1>7, <1>8

LEMMA WrittenShort ==
    ASSUME MkInv, Doing("copy"), MoreBlocks, NEW b \in Seq(Cells), WriteShort(Target, b)
    PROVE  \E f \in FileType :
              /\ vol' = WithFile(Target, f) /\ f.state = "short"
              /\ Target \notin unread /\ b = Block => Holds(f.data, top.file)
<1> DEFINE d == vol.files[Target].data
<1>1. /\ VolumeOK /\ Target \in DOMAIN vol.files /\ host.sizes[top.file] \in Nat
      /\ vol.files[Target].state \in {"open", "short"}
      /\ top.next \in Nat
      /\ Target \notin unread => Holds(d, top.file)
      /\ Target \notin unread /\ vol.files[Target].state = "open"
            => Len(d) = SoFar(top.file)
  BY CopyTop DEF InState
<1>2. d \in Seq(Cells) /\ Len(d) \in Nat /\ Len(b) \in Nat
  BY <1>1, FileOf, LenProperties
<1>3. PICK n \in 0 .. Len(b) - 1 :
         /\ InState(Target, {"short"}) => n = 0
         /\ vol' = WithFile(Target, [data |-> d \o SubSeq(b, 1, n), state |-> "short"])
  BY DEF WriteShort
<1> DEFINE e == SubSeq(b, 1, n)
           f == [data |-> d \o e, state |-> "short"]
<1>4. e \in Seq(Cells) /\ Len(e) = n /\ \A i \in 1 .. n : e[i] = b[i]
  <2>1. \A i \in 1 .. n : b[i] \in Cells
    BY <1>2, <1>3, ElementOfSeq, SMT
  <2>2. 1 \in Int /\ n \in Int /\ n >= 0
    BY <1>2, <1>3, SMT
  <2>3. /\ e \in Seq(Cells) /\ Len(e) = (IF 1 <= n THEN n - 1 + 1 ELSE 0)
        /\ \A i \in 1 .. n - 1 + 1 : e[i] = b[1 + i - 1]
    BY <2>1, <2>2, SubSeqProperties
  <2>4. 1 <= n => n - 1 + 1 = n
    BY <2>2, SMT
  <2>5. ~(1 <= n) => n = 0
    BY <2>2, SMT
  <2>6. ASSUME NEW i \in 1 .. n PROVE e[i] = b[i]
    <3>1. i \in 1 .. n - 1 + 1 /\ 1 + i - 1 = i
      BY <2>2, SMT
    <3> QED BY <2>3, <3>1
  <2> QED BY <2>3, <2>4, <2>5, <2>6
<1> HIDE DEF d, e
<1>5. d \o e \in Seq(Cells)
  BY <1>2, <1>4, ConcatProperties
<1>6. f \in FileType /\ f.state = "short" /\ f.data = d \o e
  BY <1>5 DEF FileType
<1>7. ASSUME Target \notin unread, b = Block PROVE Holds(d \o e, top.file)
  <2>1. CASE vol.files[Target].state = "open"
    <3>1. /\ Len(b) \in Nat
          /\ top.next + Len(b) = IF top.next + ReadSize < host.sizes[top.file]
                                 THEN top.next + ReadSize ELSE host.sizes[top.file]
          /\ \A i \in 1 .. Len(b) : b[i] = <<top.file, top.next + i>>
      BY <1>7, BlockRead
    <3>2. Len(d) = top.next
      BY <1>1, <1>7, <2>1 DEF SoFar, MoreBlocks
    <3>3. top.next + Len(b) <= host.sizes[top.file]
      <4>1. top.next + ReadSize \in Nat
        BY <1>1, BlockAssumption, SMT
      <4> QED BY <1>1, <3>1, <4>1, SMT
    <3>4. Len(d) + Len(e) <= host.sizes[top.file] /\ \A i \in 1 .. n : i \in 1 .. Len(b)
      BY <1>1, <1>2, <1>3, <1>4, <3>2, <3>3, SMT
    <3>5. \A i \in 1 .. Len(e) : e[i] = <<top.file, Len(d) + i>>
      BY <1>4, <3>1, <3>2, <3>4
    <3> QED BY <1>1, <1>2, <1>4, <1>7, <3>4, <3>5, DataGrows
  <2>2. CASE vol.files[Target].state = "short"
    <3>1. n = 0
      BY <1>1, <1>3, <2>2 DEF InState
    <3>2. Len(d) + Len(e) <= host.sizes[top.file] /\ 1 .. Len(e) = {}
      <4>1. Len(e) = 0 /\ Len(d) <= host.sizes[top.file]
        BY <1>1, <1>4, <1>7, <3>1 DEF Holds
      <4> QED BY <1>1, <1>2, <4>1, SMT
    <3> QED BY <1>1, <1>2, <1>4, <1>7, <3>2, DataGrows
  <2> QED BY <1>1, <2>1, <2>2
<1> QED BY <1>3, <1>6, <1>7 DEF d, e

LEMMA CopyBlockStep == MkInv /\ CopyBlock => MkInv'
<1> SUFFICES ASSUME MkInv, CopyBlock PROVE MkInv'
  OBVIOUS
<1>1. /\ Doing("copy") /\ MoreBlocks
      /\ UNCHANGED <<stage, host, err, exit>> /\ unread' = unread
      /\ stack' = Under([top EXCEPT !.next = @ + ReadSize])
  BY DEF CopyBlock
<1>2. CASE Write(Target, Block) /\ UNCHANGED printed
  <2>1. PICK f \in FileType :
           /\ vol' = WithFile(Target, f) /\ f.state = "open"
           /\ Target \notin unread =>
                 /\ Holds(f.data, top.file)
                 /\ Len(f.data) = IF top.next + ReadSize < host.sizes[top.file]
                                  THEN top.next + ReadSize ELSE host.sizes[top.file]
    BY <1>1, <1>2, WrittenWhole
  <2> QED BY <1>1, <1>2, <2>1, CopyGoesOn
<1>3. CASE WriteShort(Target, Block) /\ printed' = printed \cup {"write"}
  <2>1. PICK f \in FileType :
           /\ vol' = WithFile(Target, f) /\ f.state = "short"
           /\ Target \notin unread => Holds(f.data, top.file)
    BY <1>1, <1>3, BlockRead, WrittenShort
  <2> QED BY <1>1, <1>3, <2>1, CopyGoesOn
<1> QED BY <1>2, <1>3 DEF CopyBlock

LEMMA ReadFailsStep == MkInv /\ ReadFails => MkInv'
<1> SUFFICES ASSUME MkInv, ReadFails PROVE MkInv'
  OBVIOUS
<1>1. /\ Doing("copy") /\ MoreBlocks /\ WriteShort(Target, Garbage)
      /\ UNCHANGED <<host, err>> /\ unread' = unread \cup {Target}
  BY DEF ReadFails
<1>2. Garbage \in Seq(Cells)
  <2>1. <<<<>>, 0>> \in Cells
    BY EmptySeq DEF Cells
  <2> QED BY <2>1, SMT DEF Garbage
<1>3. PICK f \in FileType : vol' = WithFile(Target, f) /\ f.state = "short"
  BY <1>1, <1>2, WrittenShort
<1>4. CASE /\ printed' = printed \cup {"write"}
           /\ stack' = Under([top EXCEPT !.next = @ + ReadSize])
           /\ UNCHANGED <<stage, exit>>
  BY <1>1, <1>3, <1>4, CopyGoesOn
<1>5. CASE stage' = "exited" /\ exit' = Killed /\ UNCHANGED <<stack, printed>>
  <2>0. PICK F : F = top.file
    OBVIOUS
  <2> DEFINE q == FatPath(F)
  <2>1. /\ F \in Visible(Files) /\ Target = q /\ InState(q, {"open", "short"})
        /\ VolumeOK
    BY <1>1, <2>0, CopyTop
  <2>2. /\ VolumeOK' /\ Kept /\ vol'.dirs = vol.dirs
        /\ DOMAIN vol'.files = DOMAIN vol.files /\ q \in DOMAIN vol.files
        /\ vol'.files[q] = f
        /\ \A r \in DOMAIN vol.files : r # q => vol'.files[r] = vol.files[r]
    BY <1>1, <1>3, <2>1, Changed
  <2>3. Types'
    BY <1>1, <1>5, <2>2 DEF MkInv, Types, Running, Killed
  <2>4. CallsOK'
    BY <1>1, <1>5, <2>2 DEF MkInv, CallsOK, CallOK, Entries, Files
  <2>5. CopyOK'
    <3>1. ASSUME NEW r \in Files', Copying(r)' PROVE r = F
      BY <1>5, <2>0, <3>1 DEF Copying, top
    <3>2. InState(q, {"open", "short"})' /\ q \in unread' /\ stage' # "pack"
      BY <1>1, <1>3, <1>5, <2>1, <2>2 DEF InState
    <3> QED BY <3>1, <3>2 DEF CopyOK
  <2>6. FromTheFolder'
    <3>1. FromTheFolder /\ unread \subseteq unread' /\ q \in unread'
      BY <1>1, <2>1 DEF MkInv
    <3> QED BY <1>1, <2>1, <2>2, <3>1, StillFromTheFolder
  <2>7. NothingForgotten'
    BY <1>5 DEF NothingForgotten, Killed
  <2> QED BY <2>3, <2>4, <2>5, <2>6, <2>7 DEF MkInv
<1> QED BY <1>4, <1>5 DEF ReadFails
LEMMA CloseFileStep == MkInv /\ CloseFile => MkInv'
<1> SUFFICES ASSUME MkInv, CloseFile PROVE MkInv'
  OBVIOUS
<1>0. PICK F : F = top.file
  OBVIOUS
<1> DEFINE n == Len(stack)
           q == FatPath(F)
           d == vol.files[q].data
           c == [top EXCEPT !.at = "readdir"]
<1>1. /\ Doing("copy") /\ ~MoreBlocks
      /\ UNCHANGED <<stage, host, exit>> /\ unread' = unread
      /\ \/ /\ Close(Target)
            /\ \/ stack' = Under(c) /\ UNCHANGED <<err, printed>>
               \/ GiveUp
         \/ Lose(Target) /\ GiveUp
  BY DEF CloseFile
<1>2. /\ stage = "pack" /\ stack # <<>> /\ top.at = "copy"
      /\ F \in Visible(Files) /\ F \in Files /\ Target = q
      /\ top.next \in Nat /\ host.sizes[F] \in Nat
      /\ InState(q, {"open", "short"}) /\ q \in DOMAIN vol.files
      /\ q \notin unread => Holds(d, F)
      /\ q \notin unread /\ vol.files[q].state = "open" => Len(d) = SoFar(F)
      /\ vol.files[q].state = "short" => "write" \in printed
  BY <1>0, <1>1, CopyTop DEF InState
<1>3. Types /\ CallsOK /\ NothingForgotten /\ FromTheFolder /\ VolumeOK
  BY DEF MkInv, Types
<1>4. /\ n \in Nat /\ n # 0 /\ top = stack[n] /\ top \in CallType
      /\ top.left \subseteq Entries(top.dir) /\ host \in Hosts
  BY <1>2, <1>3, Top
<1>5. /\ d \in Seq(Cells) /\ vol.files[q].state \in {"open", "short"}
      /\ vol.files[q] = [data |-> d, state |-> vol.files[q].state]
  BY <1>2, <1>3, FileOf DEF InState
\* The file keeps its data, or is lost.
<1>6. ASSUME NEW f \in FileType, vol' = WithFile(q, f), f.data \in {d, <<>>}
      PROVE  /\ VolumeOK' /\ Kept /\ FromTheFolder' /\ vol'.dirs = vol.dirs
             /\ q \in DOMAIN vol'.files /\ vol'.files[q] = f
  <2>1. /\ VolumeOK' /\ Kept /\ vol'.dirs = vol.dirs
        /\ DOMAIN vol'.files = DOMAIN vol.files
        /\ vol'.files[q] = f
        /\ \A r \in DOMAIN vol.files : r # q => vol'.files[r] = vol.files[r]
    BY <1>1, <1>2, <1>3, <1>6, Changed
  <2>2. q \notin unread => Holds(f.data, F)
    <3>1. Holds(<<>>, F)
      BY <1>2, EmptySeq, SMT DEF Holds
    <3> QED BY <1>2, <1>6, <3>1
  <2>3. FromTheFolder'
    BY <1>1, <1>2, <1>3, <2>1, <2>2, StillFromTheFolder
  <2> QED BY <1>2, <2>1, <2>3
<1>7. ASSUME Close(q)
      PROVE  vol' = WithFile(q, [data |-> d, state |-> "closed"])
  <2>1. ASSUME NEW g, NEW x, NEW y, g = [data |-> x, state |-> y]
        PROVE  [g EXCEPT !.state = "closed"] = [data |-> x, state |-> "closed"]
    BY <2>1
  <2>2. [vol.files[q] EXCEPT !.state = "closed"] = [data |-> d, state |-> "closed"]
    BY <1>5, <2>1
  <2> QED BY <1>7, <2>2 DEF Close
<1>8. ASSUME NEW x \in {d, <<>>}, NEW y \in {"closed", "lost"}
      PROVE  [data |-> x, state |-> y] \in FileType /\ [data |-> x, state |-> y].data = x
  BY <1>5, EmptySeq DEF FileType
<1> HIDE DEF d
<1>9. CASE GiveUp
  <2>1. PICK x \in {d, <<>>}, y \in {"closed", "lost"} :
           vol' = WithFile(q, [data |-> x, state |-> y])
    <3>1. CASE Close(q)
      BY <1>7, <3>1
    <3>2. CASE Lose(q)
      BY <3>2 DEF Lose, d
    <3> QED BY <1>1, <1>2, <3>1, <3>2
  <2>2. VolumeOK' /\ Kept /\ FromTheFolder'
    BY <1>6, <1>8, <2>1
  <2>3. Return(1) /\ "folder" \in printed' /\ printed \subseteq printed'
    BY <1>9 DEF GiveUp
  <2> QED BY <1>1, <1>2, <2>2, <2>3, ReturnStep
<1>10. CASE Close(q) /\ stack' = Under(c) /\ UNCHANGED <<err, printed>>
  <2>1. /\ VolumeOK' /\ Kept /\ FromTheFolder' /\ q \in DOMAIN vol'.files
        /\ vol'.files[q] = [data |-> d, state |-> "closed"]
    BY <1>6, <1>7, <1>8, <1>10
  <2>2. /\ c \in CallType /\ c.dir = top.dir /\ c.img = top.img /\ c.at = "readdir"
        /\ c.left = top.left
    BY <1>4 DEF CallType
  <2> HIDE DEF c
  <2>3. /\ stack' \in Seq(CallType) /\ stack' # <<>> /\ Len(stack') = n
        /\ \A i \in 1 .. n - 1 : stack'[i] = stack[i]
        /\ stack'[n] = c /\ top' = c
        /\ CallsOK'
    BY <1>2, <1>3, <1>4, <1>10, <2>1, <2>2, GoesOn DEF Kept
  <2>4. Types'
    BY <1>1, <1>2, <1>3, <1>10, <2>1, <2>3 DEF Types, Running
  <2>5. \A r : ~Copying(r)'
    BY <2>2, <2>3 DEF Copying
  <2>6. ASSUME "write" \notin printed PROVE Stored(F)'
    <3>1. q \notin unread /\ vol.files[q].state = "open"
      BY <1>2, <1>3, <1>5, <2>6 DEF NothingForgotten
    <3>2. Holds(d, F) /\ Len(d) = host.sizes[F]
      <4>1. SoFar(F) = host.sizes[F]
        BY <1>0, <1>1 DEF SoFar, MoreBlocks
      <4> QED BY <1>2, <3>1, <4>1 DEF d
    <3>3. d = Content(F)
      <4>1. DOMAIN d = 1 .. host.sizes[F]
        BY <1>5, <3>2, LenProperties
      <4>2. d = [i \in 1 .. host.sizes[F] |-> d[i]]
        BY <1>5, <4>1, LenProperties
      <4> QED BY <3>2, <4>2 DEF Holds, Content
    <3>4. F \notin host.dirs
      BY <1>2, <1>4, Tree
    <3>5. Content(F)' = Content(F) /\ host' = host
      BY <1>1 DEF Content
    <3> QED BY <2>1, <3>3, <3>4, <3>5 DEF Stored
  <2>7. ASSUME NEW r \in Visible(host.dirs \cup Files), Owed(r), Pending(r) \/ Copying(r)
        PROVE  Pending(r)' \/ Stored(r)'
    <3>1. CASE Copying(r)
      BY <1>0, <2>6, <2>7, <3>1 DEF Copying, Owed
    <3>2. CASE Pending(r)
      <4>1. ASSUME PendingIn(top, r) PROVE Pending(r)'
        <5>1. PendingIn(stack'[n], r) /\ n \in 1 .. Len(stack')
          BY <1>2, <1>4, <2>2, <2>3, <4>1 DEF PendingIn
        <5> QED BY <5>1 DEF Pending, PendingIn
      <4>2. Len(stack') >= Len(stack) /\ Len(stack') \in Nat
        BY <1>4, <2>3
      <4> HIDE DEF n
      <4> QED BY <1>2, <1>3, <2>3, <3>2, <4>1, <4>2, StillPending DEF n
    <3> QED BY <2>7, <3>1, <3>2
  <2>8. NothingForgotten'
    BY <1>1, <1>2, <1>3, <1>10, <2>1, <2>7, StillOwed
  <2> QED BY <2>1, <2>3, <2>4, <2>5, <2>8 DEF MkInv, CopyOK
<1> QED BY <1>1, <1>2, <1>9, <1>10

\* The invariant does not look into the image file.
LEMMA MkInvKept ==
    ASSUME MkInv, UNCHANGED <<stage, host, stack, vol, unread, err, printed, exit>>
    PROVE  MkInv'
<1>1. Types'
  BY DEF MkInv, Types, VolumeOK
<1>2. CallsOK'
  BY DEF MkInv, CallsOK, CallOK, Entries, Files
<1>3. CopyOK'
  BY DEF MkInv, CopyOK, Copying, top, Files, Holds, SoFar, InState
<1>4. FromTheFolder'
  BY DEF MkInv, FromTheFolder, Files, Holds
<1>5. NothingForgotten'
  BY DEF MkInv, NothingForgotten, Owed, Pending, PendingIn, Stored, Copying, Files,
         Content, top
<1> QED BY <1>1, <1>2, <1>3, <1>4, <1>5 DEF MkInv

LEMMA MkInvNext == MkInv /\ [MkNext]_mkVars => MkInv'
<1> SUFFICES ASSUME MkInv, [MkNext]_mkVars PROVE MkInv'
  OBVIOUS
<1>1. CASE UNCHANGED mkVars
  BY <1>1, MkInvKept DEF mkVars
<1>2. CASE MkNext
  BY <1>2, MakeImageStep, FormatStep, OpendirStep, ReaddirStep, EndFolderStep,
     CopyBlockStep, ReadFailsStep, CloseFileStep, ExitStep DEF MkNext
<1> QED BY <1>1, <1>2

LEMMA MkInvariance == MkSpec => []MkInv
<1> QED BY MkInvInit, MkInvNext, PTL DEF MkSpec

-----------------------------------------------------------------------------
(* What must hold.                                                         *)

LEMMA MkInvTypes == MkInv => MkTypeOK
<1> SUFFICES ASSUME MkInv PROVE MkTypeOK
  OBVIOUS
<1>1. Types /\ CallsOK /\ CopyOK
  BY DEF MkInv
<1>2. ASSUME NEW i \in 1 .. Len(stack)
      PROVE  /\ Len(stack[i].dir) = i - 1
             /\ stack[i].img = stack[i].dir
             /\ i > 1 => Front(stack[i].dir) = stack[i - 1].dir
                         /\ FatPath(stack[i].img) \in vol.dirs
             /\ stack[i].at = "copy" => i = Len(stack) /\ InState(Target, {"open", "short"})
  <2>1. CallOK(i)
    BY <1>1 DEF CallsOK
  <2>2. ASSUME stack[i].at = "copy" PROVE InState(Target, {"open", "short"})
    <3>1. i = Len(stack) /\ stack # <<>>
      BY <2>1, <2>2, EmptySeq, SMT DEF CallOK
    <3>2. /\ top = stack[i] /\ top.img = top.dir /\ host \in Hosts
      BY <1>1, <3>1, Top
    <3>3. top.file \in Visible(Files) /\ top.file \in Files /\ Front(top.file) = top.dir
      BY <2>1, <2>2, <3>2 DEF CallOK, Visible
    <3>4. top.file \in Paths
      BY <3>2, <3>3, Tree
    <3>5. Target = FatPath(top.file)
      BY <3>2, <3>3, <3>4, FrontLast DEF Target, join_paths, Paths
    <3>6. Copying(top.file)
      BY <2>2, <3>1, <3>2 DEF Copying
    <3> QED BY <1>1, <3>3, <3>5, <3>6 DEF CopyOK
  <2> QED BY <2>1, <2>2 DEF CallOK
<1> QED BY <1>1, <1>2 DEF MkTypeOK, Types

\* The nested calls of add_folder always walk one path down the host's folder
\* and the same one down the volume, and the file a call copies is one the
\* volume has open.
THEOREM MkTypeCorrect == MkSpec => []MkTypeOK
<1> QED BY MkInvariance, MkInvTypes, PTL

LEMMA MkInvClean == MkInv => NeverGarbled
<1> SUFFICES ASSUME MkInv PROVE NeverGarbled
  OBVIOUS
<1>1. Types /\ FromTheFolder /\ VolumeOK /\ host \in Hosts
  BY DEF MkInv, Types
<1>2. ASSUME NEW q \in DOMAIN vol.files
      PROVE  \E p \in Visible(Files) :
                /\ FatPath(p) = q
                /\ q \notin unread => IsPrefix(vol.files[q].data, Content(p))
  <2> DEFINE d == vol.files[q].data
  <2>1. PICK p \in Visible(Files) : FatPath(p) = q /\ (q \notin unread => Holds(d, p))
    BY <1>1 DEF FromTheFolder
  <2>2. d \in Seq(Cells)
    BY <1>1, FileOf
  <2> HIDE DEF d
  <2>3. /\ p \in Seq(Names) /\ host.sizes[p] \in Nat /\ p \in Files
    BY <1>1, Tree DEF Visible, Paths
  <2>4. ASSUME Holds(d, p) PROVE IsPrefix(d, Content(p))
    <3> DEFINE z == host.sizes[p]
               t == Content(p)
    <3>1. t \in Seq(Cells) /\ Len(t) = z /\ \A i \in 1 .. z : t[i] = <<p, i>>
      <4>1. t = [i \in 1 .. z |-> <<p, i>>]
        BY DEF Content
      <4>2. \A i \in 1 .. z : <<p, i>> \in Cells
        BY <2>3, SMT DEF Cells
      <4>3. [i \in 1 .. z |-> <<p, i>>] \in [1 .. z -> Cells]
        BY <4>2
      <4>4. [i \in 1 .. z |-> <<p, i>>] \in Seq(Cells)
        BY <2>3, <4>3
      <4>5. Len(t) = z
        BY <2>3, <4>1, <4>4, LenProperties, SMT
      <4> HIDE DEF z
      <4> QED BY <4>1, <4>4, <4>5
    <3> HIDE DEF t
    <3>2. Len(d) \in Nat /\ Len(d) <= Len(t) /\ Len(t) \in Nat
      BY <2>2, <2>3, <2>4, <3>1, LenProperties DEF Holds
    <3>3. \A i \in 1 .. Len(d) : d[i] = t[i] /\ i \in 1 .. Len(t)
      BY <2>3, <2>4, <3>1, <3>2, SMT DEF Holds
    <3>4. SubSeq(t, 1, Len(d)) = SubSeq(d, 1, Len(d))
      <4>1. 1 \in Int /\ Len(d) \in Int
        BY <3>2
      <4>2. \A i \in 1 .. Len(d) : t[i] \in Cells /\ d[i] \in Cells
        BY <2>2, <3>1, <3>3, ElementOfSeq
      <4>3. /\ SubSeq(t, 1, Len(d)) \in Seq(Cells)
            /\ Len(SubSeq(t, 1, Len(d))) = IF 1 <= Len(d) THEN Len(d) - 1 + 1 ELSE 0
            /\ \A i \in 1 .. Len(d) - 1 + 1 : SubSeq(t, 1, Len(d))[i] = t[1 + i - 1]
        BY <4>1, <4>2, SubSeqProperties
      <4>4. /\ SubSeq(d, 1, Len(d)) \in Seq(Cells)
            /\ Len(SubSeq(d, 1, Len(d))) = IF 1 <= Len(d) THEN Len(d) - 1 + 1 ELSE 0
            /\ \A i \in 1 .. Len(d) - 1 + 1 : SubSeq(d, 1, Len(d))[i] = d[1 + i - 1]
        BY <4>1, <4>2, SubSeqProperties
      <4>5. \A i \in 1 .. Len(SubSeq(t, 1, Len(d))) :
               i \in 1 .. Len(d) - 1 + 1 /\ i \in 1 .. Len(d) /\ 1 + i - 1 = i
        BY <3>2, <4>3, SMT
      <4>6. \A i \in 1 .. Len(SubSeq(t, 1, Len(d))) :
               SubSeq(t, 1, Len(d))[i] = SubSeq(d, 1, Len(d))[i]
        BY <3>3, <4>3, <4>4, <4>5
      <4> QED BY <4>3, <4>4, <4>6, SeqEqual
    <3> QED BY <3>2, <3>4 DEF IsPrefix, t
  <2> QED BY <2>1, <2>4 DEF d
<1> QED BY <1>2 DEF NeverGarbled

\* Whatever fails, and however FatFs compares names, a file of the volume
\* holds the beginning of the one host file of its path, or a read of that
\* very file failed.
THEOREM NothingGarbled == MkSpec => []NeverGarbled
<1> QED BY MkInvariance, MkInvClean, PTL

LEMMA MkInvComplete == MkInv => SilentSuccessIsComplete
<1> SUFFICES ASSUME MkInv, exit = 0, printed = {}, host.given
             PROVE  /\ vol.dirs = {FatPath(p) : p \in Visible(host.dirs)}
                    /\ DOMAIN vol.files = {FatPath(p) : p \in Visible(Files)}
                    /\ \A p \in Visible(Files) :
                          vol.files[FatPath(p)] = [data |-> Content(p), state |-> "closed"]
  BY DEF SilentSuccessIsComplete
<1>1. stack = <<>> /\ FromTheFolder
  BY DEF MkInv, Types
<1>2. ASSUME NEW p \in Visible(host.dirs \cup Files) PROVE Stored(p)
  <2>1. ~Pending(p) /\ ~Copying(p)
    <3>1. Len(stack) = 0
      BY <1>1, EmptySeq
    <3> QED BY <1>1, <3>1, SMT DEF Pending, Copying
  <2> QED BY <2>1 DEF MkInv, NothingForgotten, Owed
<1>3. /\ \A p \in Visible(host.dirs) : FatPath(p) \in vol.dirs
      /\ \A p \in Visible(Files) :
            /\ FatPath(p) \in DOMAIN vol.files
            /\ vol.files[FatPath(p)] = [data |-> Content(p), state |-> "closed"]
  BY <1>2 DEF Visible, Stored
<1> QED BY <1>1, <1>3 DEF FromTheFolder

\* A run that exits with 0 and printed nothing has packed every visible file
\* and directory of the folder, whatever the folder.
THEOREM SilentSuccess == MkSpec => []SilentSuccessIsComplete
<1> QED BY MkInvariance, MkInvComplete, PTL

-----------------------------------------------------------------------------
(* The script and the boot: the inductive invariant, besides MkInv.        *)

\* The image, once it is there: the partition table and the volume lie where
\* f_mkfs put them.
Laid ==
    \A c \in DOMAIN image :
        /\ c \in CodeSize .. SectorSize - 1 => image[c] = Table
        /\ c \in Track * SectorSize .. SectorCount * SectorSize - 1
           /\ c \notin CodeSize .. SectorSize - 1 => image[c] = Data

ImageOK ==
    /\ image = NoImage \/ DOMAIN image = 0 .. Zeros - 1
    /\ stage \in {"format", "pack"} \/ exit = 0 => DOMAIN image = 0 .. Zeros - 1
    /\ stage = "pack" \/ exit = 0 => Laid

\* The first n cells of a program lie in the image from a place on.
Written(program, n, at) ==
    \A i \in 0 .. n - 1 : at + i \in DOMAIN image /\ image[at + i] = <<program, i>>

ScriptOK ==
    /\ sizes \in [boot : BootSizes, loader : LoaderSizes]
    /\ script \in {"check", "fatal", "pack", "fill", "copyboot", "copyloader", "success"}
    /\ script \notin {"check", "fatal"} => SizesFit
    /\ script \notin {"check", "fatal", "pack"} => exit = 0
    /\ script \in {"copyloader", "success"} /\ ~ddFailed => Written("boot", sizes.boot, 0)
    /\ script = "success" /\ ~ddFailed => Written("loader", sizes.loader, SectorSize)

CodeOf(service) == IF service = "int13" THEN "1" ELSE "3"

MachineOK ==
    /\ pc # "off" => script = "success"
    /\ Machine!BootTypeOK
    /\ pc \in {"off", "reset"} => screen = <<>>
    /\ pc \in {"CheckInt13", "LoadLoader", "BootLoaderEnd"} => screen = <<"Start Booting!">>
    /\ pc = "reset" /\ ~ddFailed => Machine!BootLies
    /\ pc = "loader" /\ ~ddFailed => Machine!LoaderLies
    /\ pc = "lost" => ddFailed
    /\ pc = "BootLoaderEnd" => code = CodeOf(failed)
    /\ pc = "halted" => screen = <<"Start Booting!", <<"Error", CodeOf(failed)>>>>

SceneInv == MkInv /\ ImageOK /\ ScriptOK /\ MachineOK
-----------------------------------------------------------------------------
(* The layout.                                                             *)

LEMMA Division ==
    ASSUME NEW a \in Nat, NEW b \in Nat, b # 0
    PROVE  a \div b \in Nat /\ (a \div b) * b <= a /\ a < (a \div b) * b + b
OBVIOUS

LEMMA Products ==
    ASSUME NEW a \in Nat, NEW b \in Nat
    PROVE  a * b \in Nat
OBVIOUS

\* The programs lie in the first track, the volume behind it, and all of it in
\* the image, which is at least as large as was asked for.
LEMMA Places ==
    /\ SectorSize \in Nat /\ CodeSize \in Nat /\ MAX_SIZE \in Nat
    /\ Track * SectorSize \in Nat /\ DdSectors * SectorSize \in Nat
    /\ LOADER_SECTORS * SectorSize \in Nat /\ LOADER_SECTORS \in Nat
    /\ SectorCount * SectorSize \in Nat /\ Zeros \in Nat /\ Size \in Nat
    /\ MAX_SIZE <= CodeSize /\ CodeSize <= SectorSize /\ SectorSize # 0
    /\ SectorSize + DdSectors * SectorSize <= Track * SectorSize
    /\ Track * SectorSize <= Size
    /\ SectorCount * SectorSize <= Size /\ Size <= Zeros
<1>1. /\ SectorSize \in Nat /\ CodeSize \in Nat /\ MAX_SIZE \in Nat /\ Track \in Nat
      /\ DdSectors \in Nat /\ LOADER_SECTORS \in Nat /\ Size \in Nat
      /\ BlkSize \in Nat /\ BlkSize # 0 /\ SectorSize # 0
  BY BlockAssumption, LayoutAssumption
<1>2. SectorCount \in Nat /\ SectorCount * SectorSize <= Size
  BY <1>1, Division DEF SectorCount
<1>3. Zeros \in Nat /\ Size <= Zeros
  <2> DEFINE a == Size + BlkSize - 1
             z == (a \div BlkSize) * BlkSize
  <2>1. a \in Nat
    BY <1>1, SMT
  <2>2. a \div BlkSize \in Nat /\ a < z + BlkSize
    <3> HIDE DEF a
    <3> QED BY <1>1, <2>1, Division
  <2>3. z \in Nat
    BY <1>1, <2>2, Products
  <2> HIDE DEF z
  <2>4. Size <= z
    BY <1>1, <2>2, <2>3, SMT
  <2> QED BY <2>3, <2>4 DEF z, Zeros
<1> QED BY <1>1, <1>2, <1>3, Products, LayoutAssumption

\* What a dd does to the image.
LEMMA DdDone ==
    ASSUME NEW file, NEW n \in Nat, NEW seek \in Nat, Copied(file, n, seek)
    PROVE  /\ DOMAIN image' = DOMAIN image
           /\ \A c \in DOMAIN image : c \notin seek .. seek + n - 1 => image'[c] = image[c]
           /\ ~ddFailed' =>
                 /\ ~ddFailed
                 /\ \A i \in 0 .. n - 1 :
                       seek + i \in DOMAIN image => image'[seek + i] = CellOf(file, i)
<1>1. PICK k \in 0 .. n : /\ image' = Dd(file, k, seek)
                          /\ ~ddFailed' => ~ddFailed /\ k = n
  BY SMT DEF Copied
<1>2. DOMAIN image' = DOMAIN image
  BY <1>1 DEF Dd
<1>3. \A c \in DOMAIN image :
         image'[c] = IF c \in seek .. seek + k - 1 THEN CellOf(file, c - seek) ELSE image[c]
  BY <1>1 DEF Dd
<1>4. ASSUME NEW c \in DOMAIN image, c \notin seek .. seek + n - 1
      PROVE  image'[c] = image[c]
  <2>1. c \notin seek .. seek + k - 1
    BY <1>4, SMT
  <2> QED BY <1>3, <2>1
<1>5. ASSUME ~ddFailed', NEW i \in 0 .. n - 1, seek + i \in DOMAIN image
      PROVE  image'[seek + i] = CellOf(file, i)
  <2>1. seek + i \in seek .. seek + k - 1 /\ (seek + i) - seek = i
    BY <1>1, <1>5, SMT
  <2> QED BY <1>3, <1>5, <2>1
<1> QED BY <1>1, <1>2, <1>4, <1>5

\* The image stays laid out when cells are written that lie in front of the
\* volume and not in the partition table.
LEMMA StaysLaid ==
    ASSUME NEW n \in Nat, NEW seek \in Nat, Laid,
           seek + n <= Track * SectorSize,
           seek + n <= CodeSize \/ seek >= SectorSize,
           DOMAIN image' = DOMAIN image,
           \A c \in DOMAIN image : c \notin seek .. seek + n - 1 => image'[c] = image[c]
    PROVE  Laid'
<1>1. ASSUME NEW c \in DOMAIN image,
             c \in CodeSize .. SectorSize - 1
             \/ c \in Track * SectorSize .. SectorCount * SectorSize - 1
      PROVE  image'[c] = image[c]
  <2>1. c \notin seek .. seek + n - 1
    <3> DEFINE t == Track * SectorSize
               m == SectorCount * SectorSize
    <3>1. t \in Nat /\ m \in Nat /\ seek + n <= t /\ SectorSize \in Nat /\ CodeSize \in Nat
      BY Places
    <3>2. c \in CodeSize .. SectorSize - 1 \/ c \in t .. m - 1
      BY <1>1
    <3> HIDE DEF t, m
    <3> QED BY <3>1, <3>2, SMT
  <2> QED BY <2>1
<1> QED BY <1>1 DEF Laid

-----------------------------------------------------------------------------
(* mkfat32 runs, or a dd.                                                  *)

LEMMA ImageMade ==
    ASSUME Types, ImageOK, MkNext
    PROVE  ImageOK'
<1>1. CASE MakeImage
  <2>1. CASE image' = [c \in 0 .. Zeros - 1 |-> Zero] /\ stage' = "format"
             /\ UNCHANGED <<printed, exit>>
    <3>1. DOMAIN image' = 0 .. Zeros - 1 /\ exit' # 0
      BY <1>1, <2>1 DEF MakeImage, Types, Running
    <3> QED BY <2>1, <3>1 DEF ImageOK
  <2>2. CASE Fail("image") /\ UNCHANGED image
    BY <2>2 DEF ImageOK, Fail
  <2> QED BY <1>1, <2>1, <2>2 DEF MakeImage
<1>2. CASE Format
  <2>1. CASE image' = Formatted /\ stage' = "pack"
    <3>1. DOMAIN image' = 0 .. Zeros - 1
      BY <1>2, <2>1 DEF Formatted, ImageOK, Format
    <3>2. Laid'
      BY <2>1 DEF Formatted, Laid
    <3> QED BY <3>1, <3>2 DEF ImageOK
  <2>2. CASE Fail("image") /\ UNCHANGED <<image, stack>>
    BY <2>2 DEF ImageOK, Fail
  <2> QED BY <1>2, <2>1, <2>2 DEF Format
<1>3. CASE stage = "pack" /\ image' = image
  BY <1>3 DEF ImageOK, Laid
<1>4. MakeImage \/ Format \/ (stage = "pack" /\ image' = image)
  BY DEF MkNext, Opendir, Readdir, EndFolder, CopyBlock, ReadFails, CloseFile, Exit, Doing
<1> QED BY <1>1, <1>2, <1>3, <1>4

\* A dd changes nothing that mkfat32 or the machine sees, but the image.
LEMMA DdOnlyImage ==
    ASSUME NEW from, NEW to, DdStep(from, to), SceneInv
    PROVE  /\ MkInv'
           /\ script = from /\ script' = to /\ sizes' = sizes
           /\ stage' = stage /\ exit' = exit
           /\ UNCHANGED machineVars
<1> QED BY MkInvKept DEF DdStep, SceneInv

LEMMA StillImage ==
    ASSUME ImageOK, exit = 0, stage' = stage, exit' = exit,
           DOMAIN image' = DOMAIN image, Laid'
    PROVE  ImageOK'
BY DEF ImageOK

\* Until the build is done the machine is off.
LEMMA StillOff ==
    ASSUME MachineOK, script # "success", UNCHANGED machineVars
    PROVE  MachineOK'
<1>1. pc = "off" /\ pc' = "off" /\ memory' = memory /\ code' = code /\ screen' = screen
  BY DEF MachineOK, machineVars
<1>2. Machine!BootTypeOK'
  BY <1>1 DEF MachineOK, Machine!BootTypeOK
<1> QED BY <1>1, <1>2 DEF MachineOK

LEMMA FillFrontStep == SceneInv /\ FillFront => SceneInv'
<1> SUFFICES ASSUME SceneInv, FillFront PROVE SceneInv'
  OBVIOUS
<1>1. /\ DdStep("fill", "copyboot") /\ Copied("/dev/zero", MAX_SIZE, 0)
      /\ ImageOK /\ ScriptOK /\ MachineOK
  BY DEF FillFront, SceneInv
<1>2. /\ MkInv' /\ script = "fill" /\ script' = "copyboot" /\ sizes' = sizes
      /\ stage' = stage /\ exit' = exit /\ UNCHANGED machineVars
  BY <1>1, DdOnlyImage
<1>3. exit = 0 /\ Laid
  BY <1>1, <1>2 DEF ScriptOK, ImageOK
<1>4. /\ DOMAIN image' = DOMAIN image
      /\ \A c \in DOMAIN image : c \notin 0 .. 0 + MAX_SIZE - 1 => image'[c] = image[c]
  BY <1>1, DdDone, Places
<1>5. ImageOK'
  <2>1. 0 + MAX_SIZE <= CodeSize /\ 0 + MAX_SIZE <= Track * SectorSize
    <3> DEFINE t == Track * SectorSize
               u == DdSectors * SectorSize
    <3>1. /\ t \in Nat /\ u \in Nat /\ SectorSize + u <= t
          /\ MAX_SIZE <= CodeSize /\ CodeSize <= SectorSize
          /\ MAX_SIZE \in Nat /\ CodeSize \in Nat /\ SectorSize \in Nat
      BY Places
    <3> HIDE DEF t, u
    <3>2. 0 + MAX_SIZE <= CodeSize /\ 0 + MAX_SIZE <= t
      BY <3>1, SMT
    <3> QED BY <3>2 DEF t
  <2>2. Laid'
    BY <1>3, <1>4, <2>1, Places, StaysLaid
  <2> QED BY <1>1, <1>2, <1>3, <1>4, <2>2, StillImage
<1>6. ScriptOK'
  BY <1>1, <1>2 DEF ScriptOK, SizesFit
<1>7. MachineOK'
  BY <1>1, <1>2, StillOff
<1> QED BY <1>2, <1>5, <1>6, <1>7 DEF SceneInv

LEMMA CopyBootBlockStep == SceneInv /\ CopyBootBlock => SceneInv'
<1> SUFFICES ASSUME SceneInv, CopyBootBlock PROVE SceneInv'
  OBVIOUS
<1> DEFINE n == sizes.boot
           t == Track * SectorSize
           u == DdSectors * SectorSize
<1>1. DdStep("copyboot", "copyloader") /\ ImageOK /\ ScriptOK /\ MachineOK
  BY DEF CopyBootBlock, SceneInv
<1>2. /\ MkInv' /\ script = "copyboot" /\ script' = "copyloader" /\ sizes' = sizes
      /\ stage' = stage /\ exit' = exit /\ UNCHANGED machineVars
  BY <1>1, DdOnlyImage
<1>3. exit = 0 /\ Laid /\ SizesFit /\ DOMAIN image = 0 .. Zeros - 1
  BY <1>1, <1>2 DEF ScriptOK, ImageOK
<1>4. n \in Nat /\ n <= MAX_SIZE
  BY <1>1, <1>3, LayoutAssumption DEF ScriptOK, SizesFit
<1>5. /\ t \in Nat /\ u \in Nat /\ SectorSize + u <= t /\ t <= Size /\ Size <= Zeros
      /\ MAX_SIZE <= CodeSize /\ CodeSize <= SectorSize
      /\ MAX_SIZE \in Nat /\ CodeSize \in Nat /\ SectorSize \in Nat
      /\ Size \in Nat /\ Zeros \in Nat
  BY Places
<1>6. Copied("boot", n, 0)
  <2>1. (IF sizes.boot < MAX_SIZE THEN sizes.boot ELSE MAX_SIZE) = n
    BY <1>4, <1>5, SMT
  <2> QED BY <2>1 DEF CopyBootBlock
<1> HIDE DEF n
<1>7. /\ DOMAIN image' = DOMAIN image
      /\ \A c \in DOMAIN image : c \notin 0 .. 0 + n - 1 => image'[c] = image[c]
      /\ ~ddFailed' =>
            /\ ~ddFailed
            /\ \A i \in 0 .. n - 1 :
                  0 + i \in DOMAIN image => image'[0 + i] = CellOf("boot", i)
  BY <1>4, <1>6, DdDone
<1>8. ImageOK'
  <2>1. 0 + n <= CodeSize /\ 0 + n <= t
    <3> HIDE DEF t, u
    <3> QED BY <1>4, <1>5, SMT
  <2>2. Laid'
    BY <1>3, <1>4, <1>7, <2>1, StaysLaid
  <2> QED BY <1>1, <1>2, <1>3, <1>7, <2>2, StillImage
<1>9. ScriptOK'
  <2>1. \A i \in 0 .. n - 1 : 0 + i \in DOMAIN image
    <3> HIDE DEF t, u
    <3> QED BY <1>3, <1>4, <1>5, SMT
  <2>2. ~ddFailed' => Written("boot", n, 0)'
    <3>1. sizes'.boot = n
      BY <1>2 DEF n
    <3> QED BY <1>7, <2>1, <3>1 DEF Written, CellOf, n
  <2> QED BY <1>1, <1>2, <2>2 DEF ScriptOK, SizesFit, n
<1>10. MachineOK'
  BY <1>1, <1>2, StillOff
<1> QED BY <1>2, <1>8, <1>9, <1>10 DEF SceneInv

LEMMA CopyLoaderStep == SceneInv /\ CopyLoader => SceneInv'
<1> SUFFICES ASSUME SceneInv, CopyLoader PROVE SceneInv'
  OBVIOUS
<1> DEFINE n == sizes.loader
           b == sizes.boot
           t == Track * SectorSize
           u == DdSectors * SectorSize
<1>1. DdStep("copyloader", "success") /\ ImageOK /\ ScriptOK /\ MachineOK
  BY DEF CopyLoader, SceneInv
<1>2. /\ MkInv' /\ script = "copyloader" /\ script' = "success" /\ sizes' = sizes
      /\ stage' = stage /\ exit' = exit /\ UNCHANGED machineVars
  BY <1>1, DdOnlyImage
<1>3. exit = 0 /\ Laid /\ SizesFit /\ DOMAIN image = 0 .. Zeros - 1
  BY <1>1, <1>2 DEF ScriptOK, ImageOK
<1>4. n \in Nat /\ n <= RES_SIZE /\ b \in Nat /\ b <= MAX_SIZE
      /\ RES_SIZE \in Nat /\ RES_SIZE <= u
  BY <1>1, <1>3, LayoutAssumption DEF ScriptOK, SizesFit
<1>5. /\ t \in Nat /\ u \in Nat /\ SectorSize + u <= t /\ t <= Size /\ Size <= Zeros
      /\ MAX_SIZE <= CodeSize /\ CodeSize <= SectorSize
      /\ MAX_SIZE \in Nat /\ CodeSize \in Nat /\ SectorSize \in Nat
      /\ Size \in Nat /\ Zeros \in Nat
  BY Places
<1>6. Copied("loader", n, SectorSize)
  <2>1. (IF sizes.loader < u THEN sizes.loader ELSE u) = n
    <3> HIDE DEF u
    <3> QED BY <1>4, <1>5, SMT
  <2> QED BY <2>1 DEF CopyLoader
<1> HIDE DEF n, b
<1>7. /\ DOMAIN image' = DOMAIN image
      /\ \A c \in DOMAIN image :
            c \notin SectorSize .. SectorSize + n - 1 => image'[c] = image[c]
      /\ ~ddFailed' =>
            /\ ~ddFailed
            /\ \A i \in 0 .. n - 1 :
                  SectorSize + i \in DOMAIN image => image'[SectorSize + i] = CellOf("loader", i)
  BY <1>4, <1>5, <1>6, DdDone
<1>8. ImageOK'
  <2>1. SectorSize + n <= t /\ SectorSize >= SectorSize
    <3> HIDE DEF t, u
    <3> QED BY <1>4, <1>5, SMT
  <2>2. Laid'
    BY <1>3, <1>4, <1>5, <1>7, <2>1, StaysLaid
  <2> QED BY <1>1, <1>2, <1>3, <1>7, <2>2, StillImage
<1>9. ScriptOK'
  <2>1. /\ \A i \in 0 .. n - 1 : SectorSize + i \in DOMAIN image
        /\ \A i \in 0 .. b - 1 : 0 + i \notin SectorSize .. SectorSize + n - 1
    <3> HIDE DEF t, u
    <3> QED BY <1>3, <1>4, <1>5, SMT
  <2>2. sizes'.loader = n /\ sizes'.boot = b
    BY <1>2 DEF n, b
  <2>3. ~ddFailed' => Written("loader", n, SectorSize)'
    BY <1>7, <2>1, <2>2 DEF Written, CellOf, n
  <2>4. ~ddFailed' => Written("boot", b, 0)'
    <3>1. ~ddFailed => Written("boot", b, 0)
      BY <1>1, <1>2 DEF ScriptOK, b
    <3> QED BY <1>7, <2>1, <2>2, <3>1 DEF Written, b
  <2> QED BY <1>1, <1>2, <2>3, <2>4 DEF ScriptOK, SizesFit, n, b
<1>10. MachineOK'
  BY <1>1, <1>2, StillOff
<1> QED BY <1>2, <1>8, <1>9, <1>10 DEF SceneInv

LEMMA ScriptStep ==
    SceneInv /\ (CheckSizes \/ RunMkfat32 \/ Packed) => SceneInv'
<1> SUFFICES ASSUME SceneInv, CheckSizes \/ RunMkfat32 \/ Packed PROVE SceneInv'
  OBVIOUS
<1>1. MkInv /\ Types /\ ImageOK /\ ScriptOK /\ MachineOK
  BY DEF SceneInv, MkInv
<1>2. script # "success" /\ UNCHANGED machineVars /\ sizes' = sizes
  BY DEF CheckSizes, RunMkfat32, Packed, scriptVars
<1>3. MkInv'
  <2>1. CASE MkNext
    BY <1>1, <2>1, MkInvNext
  <2>2. CASE UNCHANGED mkVars
    BY <1>1, <2>2, MkInvNext
  <2> QED BY <2>1, <2>2 DEF CheckSizes, RunMkfat32, Packed
<1>4. ImageOK'
  <2>1. CASE MkNext
    BY <1>1, <2>1, ImageMade
  <2>2. CASE UNCHANGED mkVars
    BY <1>1, <2>2 DEF ImageOK, Laid, mkVars
  <2> QED BY <2>1, <2>2 DEF CheckSizes, RunMkfat32, Packed
<1>5. ScriptOK'
  <2>1. CASE CheckSizes
    BY <1>1, <2>1 DEF CheckSizes, ScriptOK, SizesFit
  <2>2. CASE RunMkfat32
    BY <1>1, <2>2 DEF RunMkfat32, ScriptOK, SizesFit, scriptVars
  <2>3. CASE Packed
    BY <1>1, <2>3 DEF Packed, ScriptOK, SizesFit, mkVars
  <2> QED BY <2>1, <2>2, <2>3
<1>6. MachineOK'
  BY <1>1, <1>2, StillOff
<1> QED BY <1>3, <1>4, <1>5, <1>6 DEF SceneInv

-----------------------------------------------------------------------------
(* The machine runs.                                                       *)

\* What a read of whole sectors brings into memory.
LEMMA ReadIn ==
    ASSUME NEW address \in Nat, NEW sector \in Nat, NEW count \in Nat,
           memory' = Machine!ReadInto(address, sector, count)
    PROVE  /\ DOMAIN memory' = DOMAIN memory
           /\ \A program : \A n \in Nat :
                 /\ Written(program, n, sector * SectorSize)
                 /\ n <= count * SectorSize
                 /\ \A i \in 0 .. n - 1 : address + i \in DOMAIN memory
                 => \A i \in 0 .. n - 1 : memory'[address + i] = <<program, i>>
<1> DEFINE from == sector * SectorSize
           many == count * SectorSize
<1>1. from \in Nat /\ many \in Nat
  BY Places, Products
<1>2. DOMAIN memory' = DOMAIN memory
  BY DEF Machine!ReadInto
<1>3. \A a \in DOMAIN memory :
         a \in address .. address + many - 1 /\ a - address + from \in DOMAIN image
         => memory'[a] = image[a - address + from]
  BY DEF Machine!ReadInto
<1> HIDE DEF from, many
<1>4. ASSUME NEW program, NEW n \in Nat, Written(program, n, from), n <= many,
             \A i \in 0 .. n - 1 : address + i \in DOMAIN memory,
             NEW i \in 0 .. n - 1
      PROVE  memory'[address + i] = <<program, i>>
  <2>1. address + i \in address .. address + many - 1 /\ (address + i) - address + from = from + i
    BY <1>1, <1>4, SMT
  <2>2. from + i \in DOMAIN image /\ image[from + i] = <<program, i>>
    BY <1>4 DEF Written
  <2> QED BY <1>3, <1>4, <2>1, <2>2
<1> QED BY <1>2, <1>4 DEF from, many

\* Memory has room for both programs.
LEMMA Room ==
    ASSUME ScriptOK, SizesFit, Machine!BootTypeOK
    PROVE  /\ sizes.boot \in Nat /\ sizes.boot <= 1 * SectorSize
           /\ sizes.loader \in Nat /\ sizes.loader <= LOADER_SECTORS * SectorSize
           /\ \A i \in 0 .. sizes.boot - 1 : Machine!BOOT_START + i \in DOMAIN memory
           /\ \A i \in 0 .. sizes.loader - 1 : Machine!LOADER_START + i \in DOMAIN memory
           /\ Machine!BOOT_START = 0 /\ Machine!LOADER_START = SectorSize
<1> DEFINE l == LOADER_SECTORS * SectorSize
<1>1. /\ sizes.boot \in Nat /\ sizes.boot <= MAX_SIZE /\ MAX_SIZE \in Nat
      /\ sizes.loader \in Nat /\ sizes.loader <= RES_SIZE /\ RES_SIZE \in Nat
      /\ RES_SIZE <= l
  BY LayoutAssumption DEF ScriptOK, SizesFit
<1>2. l \in Nat /\ SectorSize \in Nat /\ MAX_SIZE <= CodeSize /\ CodeSize <= SectorSize
      /\ CodeSize \in Nat
  BY Places
<1>3. DOMAIN memory = 0 .. ((0 + SectorSize) + l) - 1
  <2>1. Machine!MemorySize = (0 + SectorSize) + l
    BY DEF Machine!MemorySize, Machine!LOADER_START, Machine!BOOT_START
  <2>2. DOMAIN memory = 0 .. Machine!MemorySize - 1
    BY DEF Machine!BootTypeOK
  <2> HIDE DEF l
  <2> QED BY <2>1, <2>2
<1>4. Machine!BOOT_START = 0 /\ Machine!LOADER_START = SectorSize
  BY <1>2 DEF Machine!LOADER_START, Machine!BOOT_START
<1> HIDE DEF l
<1>5. /\ sizes.boot <= 1 * SectorSize /\ sizes.loader <= l
      /\ \A i \in 0 .. sizes.boot - 1 : 0 + i \in DOMAIN memory
      /\ \A i \in 0 .. sizes.loader - 1 : SectorSize + i \in DOMAIN memory
  BY <1>1, <1>2, <1>3, SMT
<1> QED BY <1>1, <1>4, <1>5 DEF l

\* The screen with its first and its second line.
LEMMA Printed ==
    ASSUME NEW x, NEW y
    PROVE  Append(<<>>, x) = <<x>> /\ Append(<<x>>, y) = <<x, y>>
<1> DEFINE S == {x, y}
<1>1. <<>> \in Seq(S) /\ <<x>> \in Seq(S) /\ <<x, y>> \in Seq(S)
  OBVIOUS
<1>2. Len(<<>>) = 0 /\ Len(<<x>>) = 1 /\ <<x>>[1] = x
  OBVIOUS
<1>3. Append(<<>>, x) \in Seq(S) /\ Len(Append(<<>>, x)) = 1 /\ Append(<<>>, x)[1] = x
  BY <1>1, <1>2, AppendProperties
<1>4. Append(<<x>>, y) \in Seq(S) /\ Len(Append(<<x>>, y)) = 2
      /\ Append(<<x>>, y)[1] = x /\ Append(<<x>>, y)[2] = y
  BY <1>1, <1>2, AppendProperties
<1>5. <<x, y>> \in Seq(S) /\ Len(<<x, y>>) = 2 /\ <<x, y>>[1] = x /\ <<x, y>>[2] = y
  OBVIOUS
<1> HIDE DEF S
<1>6. Append(<<>>, x) = <<x>>
  BY <1>1, <1>2, <1>3, SeqEqual
<1>7. Append(<<x>>, y) = <<x, y>>
  <2> DEFINE a == Append(<<x>>, y)
             b == <<x, y>>
  <2>1. a \in Seq(S) /\ b \in Seq(S) /\ Len(a) = 2 /\ Len(b) = 2 /\ a[1] = b[1] /\ a[2] = b[2]
    BY <1>4, <1>5
  <2> HIDE DEF a, b
  <2>2. a = b
    BY <2>1, SeqEqual
  <2> QED BY <2>2 DEF a, b
<1> QED BY <1>6, <1>7

\* The processor's place changes; memory has the same addresses.
LEMMA StillRuns ==
    ASSUME MachineOK, script = "success", script' = "success", ddFailed' = ddFailed,
           DOMAIN memory' = DOMAIN memory, code' \in {"0", "1", "3"},
           pc' \in {"off", "reset", "CheckInt13", "LoadLoader", "BootLoaderEnd",
                    "loader", "bootmain", "spin", "halted", "lost"},
           pc' \in {"off", "reset"} => screen' = <<>>,
           pc' \in {"CheckInt13", "LoadLoader", "BootLoaderEnd"} => screen' = <<"Start Booting!">>,
           pc' = "reset" /\ ~ddFailed => Machine!BootLies',
           pc' = "loader" /\ ~ddFailed => Machine!LoaderLies',
           pc' = "lost" => ddFailed,
           pc' = "BootLoaderEnd" => code' = CodeOf(failed'),
           pc' = "halted" => screen' = <<"Start Booting!", <<"Error", CodeOf(failed')>>>>
    PROVE  MachineOK'
<1>1. Machine!BootTypeOK'
  BY DEF MachineOK, Machine!BootTypeOK, Machine!MemorySize, Machine!LOADER_START, Machine!BOOT_START
<1> QED BY <1>1 DEF MachineOK

LEMMA PowerOnStep ==
    ASSUME MachineOK, ScriptOK, SizesFit, sizes' = sizes, script = "success",
           script' = "success", ddFailed' = ddFailed, Machine!PowerOn
    PROVE  MachineOK'
<1>1. /\ pc' = "reset" /\ memory' = Machine!ReadInto(0, 0, 1)
      /\ code' = code /\ screen' = <<>>
  BY DEF MachineOK, Machine!PowerOn, Machine!BOOT_START
<1>2. /\ DOMAIN memory' = DOMAIN memory
      /\ \A program : \A n \in Nat :
            /\ Written(program, n, 0 * SectorSize)
            /\ n <= 1 * SectorSize
            /\ \A i \in 0 .. n - 1 : 0 + i \in DOMAIN memory
            => \A i \in 0 .. n - 1 : memory'[0 + i] = <<program, i>>
  BY <1>1, ReadIn
<1>3. Machine!BootTypeOK
  BY DEF MachineOK
<1>4. /\ sizes.boot \in Nat /\ sizes.boot <= 1 * SectorSize
      /\ \A i \in 0 .. sizes.boot - 1 : 0 + i \in DOMAIN memory
  BY <1>3, Room DEF Machine!BOOT_START
<1>5. ASSUME ~ddFailed PROVE Machine!BootLies'
  <2>1. 0 * SectorSize = 0
    BY Places
  <2>2. Written("boot", sizes.boot, 0 * SectorSize)
    BY <1>5, <2>1 DEF ScriptOK
  <2>3. \A i \in 0 .. sizes.boot - 1 :
           0 + i \in DOMAIN memory' /\ memory'[0 + i] = <<"boot", i>>
    BY <1>2, <1>4, <2>2
  <2> QED BY <2>3 DEF Machine!BootLies, Machine!LiesAt, Machine!BOOT_START
<1> QED BY <1>1, <1>2, <1>3, <1>5, StillRuns DEF Machine!BootTypeOK

LEMMA StartStep ==
    ASSUME MachineOK, script = "success", script' = "success", ddFailed' = ddFailed,
           Machine!Start
    PROVE  MachineOK'
<1>1. Machine!BootTypeOK /\ screen = <<>>
      /\ DOMAIN memory' = DOMAIN memory /\ code' = code
  BY DEF MachineOK, Machine!Start
<1>2. CASE screen' = Append(screen, "Start Booting!") /\ pc' = "CheckInt13"
  <2>1. screen' = <<"Start Booting!">>
    BY <1>1, <1>2, Printed
  <2> QED BY <1>1, <1>2, <2>1, StillRuns DEF Machine!BootTypeOK
<1>3. CASE ~Machine!BootLies /\ pc' = "lost" /\ screen' = screen
  <2>1. ddFailed
    BY <1>3 DEF MachineOK, Machine!Start
  <2> QED BY <1>1, <1>3, <2>1, StillRuns DEF Machine!BootTypeOK
<1> QED BY <1>2, <1>3 DEF Machine!Start, Machine!PrintString

LEMMA CheckInt13Step ==
    ASSUME MachineOK, script = "success", script' = "success", ddFailed' = ddFailed,
           Machine!CheckInt13
    PROVE  MachineOK'
<1>1. screen = <<"Start Booting!">> /\ screen' = screen /\ DOMAIN memory' = DOMAIN memory
      /\ code' = "1"
      /\ (pc' = "LoadLoader" \/ (pc' = "BootLoaderEnd" /\ failed' = "int13"))
  BY DEF MachineOK, Machine!CheckInt13
<1> QED BY <1>1, StillRuns DEF CodeOf

LEMMA LoadLoaderStep ==
    ASSUME MachineOK, ScriptOK, SizesFit, sizes' = sizes, script = "success",
           script' = "success", ddFailed' = ddFailed, Machine!LoadLoader
    PROVE  MachineOK'
<1>1. Machine!BootTypeOK /\ code' = "3"
      /\ Machine!LOADER_START = SectorSize /\ SectorSize \in Nat /\ LOADER_SECTORS \in Nat
  BY Places, Room DEF MachineOK, Machine!LoadLoader
<1>2. CASE /\ memory' = Machine!ReadInto(SectorSize, 1, LOADER_SECTORS)
           /\ screen' = Append(screen, "Go to Loader!")
           /\ pc' = "loader"
  <2>1. /\ DOMAIN memory' = DOMAIN memory
        /\ \A program : \A n \in Nat :
              /\ Written(program, n, 1 * SectorSize)
              /\ n <= LOADER_SECTORS * SectorSize
              /\ \A i \in 0 .. n - 1 : SectorSize + i \in DOMAIN memory
              => \A i \in 0 .. n - 1 : memory'[SectorSize + i] = <<program, i>>
    BY <1>1, <1>2, ReadIn
  <2>2. /\ sizes.loader \in Nat /\ sizes.loader <= LOADER_SECTORS * SectorSize
        /\ \A i \in 0 .. sizes.loader - 1 : SectorSize + i \in DOMAIN memory
    <3>1. \A i \in 0 .. sizes.loader - 1 : Machine!LOADER_START + i \in DOMAIN memory
      BY <1>1, Room
    <3> QED BY <1>1, <3>1, Room
  <2>3. ASSUME ~ddFailed PROVE Machine!LoaderLies'
    <3>1. 1 * SectorSize = SectorSize
      BY <1>1
    <3>2. Written("loader", sizes.loader, 1 * SectorSize)
      BY <2>3, <3>1 DEF ScriptOK
    <3>3. \A i \in 0 .. sizes.loader - 1 :
             SectorSize + i \in DOMAIN memory' /\ memory'[SectorSize + i] = <<"loader", i>>
      BY <2>1, <2>2, <3>2
    <3> QED BY <1>1, <3>3 DEF Machine!LoaderLies, Machine!LiesAt
  <2> QED BY <1>1, <1>2, <2>1, <2>3, StillRuns
<1>3. CASE /\ \E n \in 0 .. LOADER_SECTORS : memory' = Machine!ReadInto(SectorSize, 1, n)
           /\ pc' = "BootLoaderEnd" /\ failed' = "read" /\ screen' = screen
  <2>1. DOMAIN memory' = DOMAIN memory
    BY <1>3 DEF Machine!ReadInto
  <2>2. screen' = <<"Start Booting!">>
    BY <1>3 DEF MachineOK, Machine!LoadLoader
  <2> QED BY <1>1, <1>3, <2>1, <2>2, StillRuns DEF CodeOf
<1> QED BY <1>1, <1>2, <1>3 DEF Machine!LoadLoader, Machine!PrintString

LEMMA BootLoaderEndStep ==
    ASSUME MachineOK, script = "success", script' = "success", ddFailed' = ddFailed,
           Machine!BootLoaderEnd
    PROVE  MachineOK'
<1>1. screen = <<"Start Booting!">> /\ DOMAIN memory' = DOMAIN memory
      /\ code = CodeOf(failed) /\ code \in {"0", "1", "3"} /\ code' = code
      /\ failed' = failed /\ pc' = "halted" /\ screen' = Append(screen, <<"Error", code>>)
  BY DEF MachineOK, Machine!BootTypeOK, Machine!BootLoaderEnd, Machine!PrintString
<1>2. screen' = <<"Start Booting!", <<"Error", code>>>>
  BY <1>1, Printed
<1> QED BY <1>1, <1>2, StillRuns

LEMMA LoaderStep ==
    ASSUME MachineOK, script = "success", script' = "success", ddFailed' = ddFailed,
           Machine!EnterProtectedMode \/ Machine!Bootmain
    PROVE  MachineOK'
<1>1. screen' = screen /\ DOMAIN memory' = DOMAIN memory
      /\ code \in {"0", "1", "3"} /\ code' = code
  BY DEF MachineOK, Machine!BootTypeOK, Machine!EnterProtectedMode, Machine!Bootmain
<1>2. pc' \in {"bootmain", "lost", "spin"} /\ (pc' = "lost" => ddFailed)
  BY DEF MachineOK, Machine!EnterProtectedMode, Machine!Bootmain
<1> QED BY <1>1, <1>2, StillRuns

LEMMA RunMachineStep == SceneInv /\ RunMachine => SceneInv'
<1> SUFFICES ASSUME SceneInv, RunMachine PROVE SceneInv'
  OBVIOUS
<1>1. ImageOK /\ ScriptOK /\ MachineOK /\ SizesFit
  BY DEF SceneInv, RunMachine, ScriptOK
<1>2. /\ script = "success" /\ script' = "success" /\ ddFailed' = ddFailed
      /\ sizes' = sizes /\ image' = image /\ stage' = stage /\ exit' = exit
  BY DEF RunMachine, Machine!BootNext, Machine!PowerOn, Machine!Start,
         Machine!CheckInt13, Machine!LoadLoader, Machine!BootLoaderEnd,
         Machine!EnterProtectedMode, Machine!Bootmain
<1>3. MkInv'
  BY MkInvKept DEF RunMachine, SceneInv
<1>4. ImageOK'
  BY <1>1, <1>2 DEF ImageOK, Laid
<1>5. ScriptOK'
  BY <1>1, <1>2 DEF ScriptOK, SizesFit, Written
<1>6. MachineOK'
  BY <1>1, <1>2, PowerOnStep, StartStep, CheckInt13Step, LoadLoaderStep,
     BootLoaderEndStep, LoaderStep
  DEF RunMachine, Machine!BootNext
<1> QED BY <1>3, <1>4, <1>5, <1>6 DEF SceneInv

-----------------------------------------------------------------------------
LEMMA SceneInvInit == SceneInit => SceneInv
<1> SUFFICES ASSUME SceneInit PROVE SceneInv
  OBVIOUS
<1>1. MkInv
  BY MkInvInit DEF SceneInit
<1>2. ImageOK
  BY DEF SceneInit, MkInit, ImageOK, Running
<1>3. ScriptOK
  BY DEF SceneInit, ScriptOK
<1>4. MachineOK
  BY DEF SceneInit, MachineOK, Machine!BootInit, Machine!BootTypeOK
<1> QED BY <1>1, <1>2, <1>3, <1>4 DEF SceneInv

LEMMA SceneInvNext == SceneInv /\ [SceneNext]_sceneVars => SceneInv'
<1> SUFFICES ASSUME SceneInv, [SceneNext]_sceneVars PROVE SceneInv'
  OBVIOUS
<1>1. CASE SceneNext
  BY <1>1, ScriptStep, FillFrontStep, CopyBootBlockStep, CopyLoaderStep, RunMachineStep
  DEF SceneNext
<1>2. CASE UNCHANGED sceneVars
  <2>1. UNCHANGED mkVars /\ UNCHANGED scriptVars /\ UNCHANGED machineVars
    BY <1>2 DEF sceneVars
  <2>2. MkInv'
    BY <2>1, MkInvNext DEF SceneInv
  <2>3. ImageOK'
    BY <2>1 DEF SceneInv, ImageOK, Laid, mkVars
  <2>4. ScriptOK'
    BY <2>1 DEF SceneInv, ScriptOK, SizesFit, Written, scriptVars, mkVars
  <2>5. MachineOK'
    BY <2>1 DEF SceneInv, MachineOK, Machine!BootTypeOK, Machine!BootLies,
                Machine!LoaderLies, Machine!LiesAt, scriptVars, machineVars
  <2> QED BY <2>2, <2>3, <2>4, <2>5 DEF SceneInv
<1> QED BY <1>1, <1>2

LEMMA SceneInvariance == SceneSpec => []SceneInv
<1>1. SceneInit => SceneInv
  BY SceneInvInit
<1>2. SceneInv /\ [SceneNext]_sceneVars => SceneInv'
  BY SceneInvNext
<1> QED BY <1>1, <1>2, PTL DEF SceneSpec

-----------------------------------------------------------------------------
(* The properties.                                                         *)

\* mkfat32's calls and the boot chain's memory are well-formed in every build
\* and every boot.
THEOREM SceneTypeCorrect == SceneSpec => []SceneTypeOK
<1>1. SceneInv => SceneTypeOK
  BY MkInvTypes DEF SceneInv, SceneTypeOK, MachineOK
<1> QED BY <1>1, SceneInvariance, PTL

\* What the script copies in front of the volume never reaches the partition
\* table or the volume, and no sector FatFs writes lies outside the file.
THEOREM VolumeUntouched == SceneSpec => []VolumeSurvives
<1>1. SceneInv => VolumeSurvives
  <2> SUFFICES ASSUME SceneInv PROVE VolumeSurvives
    OBVIOUS
  <2> DEFINE m == SectorCount * SectorSize
  <2>1. ImageOK
    BY DEF SceneInv
  <2>2. m \in Nat /\ Size \in Nat /\ Zeros \in Nat /\ m <= Size /\ Size <= Zeros
    BY Places
  <2>3. EverySectorInFile
    <3>1. image # NoImage => DOMAIN image = 0 .. Zeros - 1
      BY <2>1 DEF ImageOK
    <3>2. 0 .. m - 1 \subseteq 0 .. Zeros - 1
      <4> HIDE DEF m
      <4> QED BY <2>2, SMT
    <3> QED BY <3>1, <3>2 DEF EverySectorInFile
  <2>4. ASSUME exit = 0, NEW c \in DOMAIN image PROVE image[c] = Formatted[c]
    BY <2>1, <2>4 DEF ImageOK, Laid, Formatted
  <2> QED BY <2>3, <2>4 DEF VolumeSurvives
<1> QED BY <1>1, SceneInvariance, PTL

\* The processor is sent into nothing but the boot block and the loader that
\* were built, unless a dd failed, which the script does not look at.
THEOREM BootsOwnCode == SceneSpec => []BootsWhatWasBuilt
<1>1. SceneInv => BootsWhatWasBuilt
  BY DEF SceneInv, MachineOK, BootsWhatWasBuilt
<1> QED BY <1>1, SceneInvariance, PTL

\* A machine that boots finds every file of the packed folder itself whole,
\* though add_folder drops what its nested calls return.
THEOREM KernelOnDisk == SceneSpec => []BootsWithKernel
<1>1. SceneInv => BootsWithKernel
  <2> SUFFICES ASSUME SceneInv, pc # "off", "write" \notin printed,
                      NEW p \in Visible(Files), Len(p) = 1
               PROVE  /\ FatPath(p) \in DOMAIN vol.files
                      /\ vol.files[FatPath(p)] = [data |-> Content(p), state |-> "closed"]
    BY DEF BootsWithKernel
  <2>1. exit = 0
    BY DEF SceneInv, MachineOK, ScriptOK
  <2>2. stack = <<>> /\ err = 0
    BY <2>1 DEF SceneInv, MkInv, Types
  <2>3. p \in Files /\ p \in Visible(host.dirs \cup Files)
    BY DEF Visible
  <2>4. Pending(p) \/ Stored(p) \/ Copying(p)
    BY <2>1, <2>2, <2>3 DEF SceneInv, MkInv, NothingForgotten, Owed
  <2>5. ~Pending(p) /\ ~Copying(p)
    BY <2>2 DEF Pending, Copying
  <2> QED BY <2>3, <2>4, <2>5 DEF Stored
<1> QED BY <1>1, SceneInvariance, PTL

\* A machine that halts shows the code of the firmware call that failed.
THEOREM ErrorCodeNamesStep == SceneSpec => []ErrorNamesStep
<1>1. SceneInv => ErrorNamesStep
  BY DEF SceneInv, MachineOK, ErrorNamesStep, Machine!ErrorNamesStep, CodeOf
<1> QED BY <1>1, SceneInvariance, PTL

\* What holds of mkfat32 alone holds of it as a step of the script.
THEOREM ScenePacks == SceneSpec => [](NeverGarbled /\ SilentSuccessIsComplete)
<1>1. SceneInv => NeverGarbled /\ SilentSuccessIsComplete
  BY MkInvClean, MkInvComplete DEF SceneInv
<1> QED BY <1>1, SceneInvariance, PTL
=============================================================================
