-------------------------------- MODULE MCFat --------------------------------
(***************************************************************************)
(* Drives for TLC.                                                         *)
(***************************************************************************)
EXTENDS Readfat

CONSTANT Sizes      \* of the drives with FatFs's own sizes, in sectors

\* What mkfat32 formats: f_mkfs and the mount only.
Real(sectors) ==
    [sectors |-> sectors, ss |-> 512, dire |-> 32, root |-> 512, unit |-> 4096, max12 |-> 4085,
     max16 |-> 65525, sound |-> FALSE, folder |-> {}]

\* Drives with sectors of 4 bytes, two entries each.
Small(sectors, unit, max12, root, folder) ==
    [sectors |-> sectors, ss |-> 4, dire |-> 2, root |-> root, unit |-> unit, max12 |-> max12,
     max16 |-> 65525, sound |-> FALSE, folder |-> folder]

\* FAT32, with clusters of two sectors.
Small32(sectors, folder) ==
    [Small(sectors, 4096, 2, 4, folder) EXCEPT !.max16 = 3]

a == <<97>>
A == <<65>>
b == <<98>>
c == <<99>>
d == <<100>>
e == <<101>>
File(dir, name, blocks) == [dir |-> dir, name |-> name, file |-> TRUE, blocks |-> blocks]
Dir(dir, name) == [dir |-> dir, name |-> name, file |-> FALSE, blocks |-> <<>>]

\* A file longer than a cluster, and a directory whose table has to grow.
Nested == {File(<<>>, a, <<9>>), Dir(<<>>, b), File(b, a, <<3, 3>>)}
\* Two tables that grow, in turns with files; an empty file.
Deep == {Dir(<<>>, a), Dir(a, b), File(<<97, 47, 98>>, c, <<5>>), File(a, c, <<6, 2>>),
         File(<<>>, c, <<>>)}
\* Names that FatFs takes for one, or takes for none.
Clashes == {File(<<>>, a, <<2>>), Dir(<<>>, A), File(A, b, <<1>>), File(<<>>, <<98, 46, 99>>, <<7>>),
            File(<<>>, <<98, 43>>, <<1>>)}
\* More entries than the root has room for.
Crowd == {File(<<>>, a, <<4>>), File(<<>>, b, <<8>>), Dir(<<>>, c)}
\* A directory that cannot be entered into its parent, and room for a file.
Tight == {Dir(<<>>, a), Dir(a, b), File(<<>>, c, <<8>>), File(<<>>, b, <<1, 3>>)}
\* A root that has to grow, for one entry more than a cluster holds; on a
\* sound disk, for its many orders.
Roots == {File(<<>>, a, <<3>>), File(<<>>, b, <<>>), Dir(<<>>, c), Dir(<<>>, d), Dir(<<>>, e)}
\* Names that FatFs reads in its own way: a number of a drive, one that does
\* not exist, nothing behind the number; two bytes of one character, the
\* second a separator or a small letter, the first a deletion mark; a blank;
\* and a byte above 127 that begins a name, in the root and below.
Odd == {File(<<>>, <<48, 58, 97>>, <<3>>), File(<<>>, <<129, 92, 97>>, <<1>>),
        File(<<>>, <<229, 97>>, <<1>>), File(<<>>, <<200>>, <<1>>), Dir(<<>>, b),
        File(b, <<200>>, <<1>>)}
Refused == {File(<<>>, <<48, 58, 97>>, <<3>>), Dir(<<>>, <<49, 58, 97>>), File(<<>>, <<97, 32, 98>>, <<1>>),
            File(<<>>, <<48, 58>>, <<1>>), Dir(<<>>, <<48, 58>>), File(<<>>, <<129>>, <<1>>), Dir(<<>>, <<1>>)}

MCDrives ==
    {Real(n) : n \in Sizes}
    \cup {Small(sectors, 4096, 4085, 4, Nested) : sectors \in {516, 518}}
    \cup {Small(518, 4096, 4085, 4, Deep)}
    \cup {Small(519, 256, 4085, 4, Nested)}
    \cup {Small(522, 256, 4085, 4, Deep)}
    \cup {Small(518, 4096, 3, 4, Nested)}
    \cup {Small(517, 4096, 4085, 4, Clashes)}
    \cup {Small(517, 4096, 4085, 2, Crowd)}
    \cup {Small(516, 4096, 4085, 4, Tight)}
    \cup {Small(518, 4096, 3, 4, Deep)}
    \cup {Small(523, 100, 4085, 4, Nested)}
    \cup {Small32(520, Nested), Small32(522, Deep), [Small32(522, Roots) EXCEPT !.sound = TRUE]}
    \cup {[Small(518, 4096, 4085, 6, names) EXCEPT !.sound = TRUE] : names \in {Odd, Refused}}
=============================================================================
