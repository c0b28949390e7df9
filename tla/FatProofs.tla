------------------------------ MODULE FatProofs ------------------------------
(***************************************************************************)
(* Theorems about f_mkfs and mount_volume with FatFs's own sizes: on a     *)
(* drive of any number of sectors, whatever is written behind them later.  *)
(***************************************************************************)
EXTENDS FatVolume, FiniteSetTheorems, WellFoundedInduction, TLAPS

\* A drive with FatFs's own sizes.
IsReal(d) ==
    /\ d.sectors \in 0 .. Wrap - 1
    /\ d.ss = 512 /\ d.dire = 32 /\ d.root = 512 /\ d.unit = 4096
    /\ d.max12 = 4085 /\ d.max16 = 65525

-----------------------------------------------------------------------------
(* The inductive invariant.                                                *)

\* The volume is the drive behind its first track.
BehindTrack(c) ==
    /\ c.b_vol = 63
    /\ c.sz_vol = drive.sectors - 63
    /\ c.sz_vol >= 128

\* Between two rounds of the loop.
Searching(c) ==
    /\ BehindTrack(c)
    /\ c.fsty \in {"FAT16", "FAT32"}
    /\ c.sz_au \in {0} \cup ClusterSizes

\* The loop's result: the areas fit the volume, nothing has wrapped, the
\* number of clusters is one of its type, and the FAT has an entry for each.
Made(c) ==
    /\ BehindTrack(c)
    /\ c.pau \in ClusterSizes
    /\ c.sz_fat \in Nat \ {0} /\ c.n_clst \in Nat
    /\ c.fsty = "FAT32" =>
            /\ c.sz_rsv \in Nat /\ 32 <= c.sz_rsv /\ c.sz_rsv <= 65535 /\ c.sz_dir = 0
            /\ 65525 < c.n_clst /\ c.n_clst <= MAX_FAT32
    /\ c.fsty # "FAT32" => c.sz_rsv = 1 /\ c.sz_dir = 32 /\ c.sz_fat <= 65535
    /\ \/ c.fsty = "FAT32"
       \/ c.fsty = "FAT16" /\ 4085 < c.n_clst /\ c.n_clst <= 65525
       \/ c.fsty = "FAT12" /\ c.n_clst <= 4085
    /\ c.sz_rsv + c.sz_fat + c.sz_dir <= c.sz_vol
    /\ c.n_clst = (c.sz_vol - (c.sz_rsv + c.sz_fat + c.sz_dir)) \div c.pau
    /\ szbfat(c.fsty, c.n_clst + 2) <= 512 * c.sz_fat

\* What f_mkfs wrote where the volume is looked for.
Written ==
    /\ SectorAt(disk, 0) = <<"mbr", Partition>>
    /\ SectorAt(disk, 63) = <<"vbr", BootRecord>>

LayoutInv ==
    /\ drive \in Drives
    /\ phase \in {"locate", "configure", "create", "mount", "ready", "closed",
                  "aborted", "failed", "no_filesystem"}
    /\ phase = "configure" => Searching(mk)
    /\ phase \in {"create", "mount", "ready", "closed", "no_filesystem"} => Made(mk)
    /\ phase \in {"mount", "ready", "closed"} => Written
    /\ phase \in {"ready", "closed"} => fs = Geometry(BootRecord, 63) /\ fs.possible
    /\ phase = "no_filesystem" => mk.n_clst = 0
-----------------------------------------------------------------------------
(* Numbers.                                                                *)

LEMMA SizesAre == ClusterSizes = {1, 2, 4, 8, 16, 32, 64, 128}
<1>1. DOMAIN Powers = 1 .. 8
  BY DEF Powers
<1>2. Powers[1] = 1 /\ Powers[2] = 2 /\ Powers[3] = 4 /\ Powers[4] = 8
      /\ Powers[5] = 16 /\ Powers[6] = 32 /\ Powers[7] = 64 /\ Powers[8] = 128
  BY DEF Powers
<1>3. 1 .. 8 = {1, 2, 3, 4, 5, 6, 7, 8}
  OBVIOUS
<1> QED BY <1>1, <1>2, <1>3 DEF ClusterSizes

\* A table of six boundaries selects one of the first seven sizes.
LEMMA SelectsSize ==
    ASSUME NEW table, DOMAIN table = 1 .. 6, NEW n
    PROVE  AutoSelect(table, n) \in ClusterSizes
<1> DEFINE S == {i \in DOMAIN table : table[i] <= n}
<1>1. IsFiniteSet(1 .. 6) /\ Cardinality(1 .. 6) = 6
  <2> DEFINE lo == 1
             hi == 6
  <2>1. lo \in Int /\ hi \in Int /\ ~(lo > hi) /\ hi - lo + 1 = 6
    OBVIOUS
  <2> HIDE DEF lo, hi
  <2>2. IsFiniteSet(lo .. hi) /\ Cardinality(lo .. hi) = hi - lo + 1
    BY <2>1, FS_Interval, Zenon
  <2> QED BY <2>1, <2>2 DEF lo, hi
<1>2. Cardinality(S) \in Nat /\ Cardinality(S) <= 6
  <2>1. S \subseteq 1 .. 6
    OBVIOUS
  <2> QED BY <2>1, <1>1, FS_Subset, FS_CardinalityType
<1> HIDE DEF S
<1>3. Cardinality(S) + 1 \in 1 .. 8
  BY <1>2
<1>4. AutoSelect(table, n) = Powers[Cardinality(S) + 1]
  BY DEF AutoSelect, S
<1>5. DOMAIN Powers = 1 .. 8
  BY DEF Powers
<1> QED BY <1>3, <1>4, <1>5 DEF ClusterSizes

LEMMA UnitIsSize ==
    ASSUME Searching(mk)
    PROVE  AllocUnit \in ClusterSizes
<1>1. DOMAIN cst = 1 .. 6 /\ DOMAIN cst32 = 1 .. 6
  BY DEF cst, cst32
<1>2. AutoSelect(cst32, mk.sz_vol \div 131072) \in ClusterSizes
  BY <1>1, SelectsSize
<1>3. AutoSelect(cst, mk.sz_vol \div drive.unit) \in ClusterSizes
  BY <1>1, SelectsSize
<1> QED BY <1>2, <1>3 DEF AllocUnit, Searching

\* Rounding up to the next multiple of a sector, and of an erase block.
LEMMA Ceiling ==
    ASSUME NEW a \in Nat
    PROVE  /\ CeilDiv(a, 512) \in Nat
           /\ a <= 512 * CeilDiv(a, 512) /\ 512 * CeilDiv(a, 512) <= a + 511
BY DEF CeilDiv

LEMMA Padding ==
    ASSUME NEW a \in Nat
    PROVE  CeilDiv(a, sz_blk) * sz_blk - a \in 0 .. 511
BY DEF CeilDiv, sz_blk

\* Clusters counted behind the areas are no more than those estimated before.
LEMMA Fewer ==
    ASSUME NEW v \in Nat, NEW used \in Nat, used <= v, NEW p \in ClusterSizes
    PROVE  /\ v \div p \in Nat /\ (v - used) \div p \in Nat
           /\ (v - used) \div p <= v \div p
<1>1. p \in {1, 2, 4, 8, 16, 32, 64, 128}
  BY SizesAre
<1> QED BY <1>1

\* The bytes FatSize rounds up.
FatNeeds(type, e) ==
    CASE type = "FAT32" -> e * 4 + 8
      [] type = "FAT16" -> e * 2 + 4
      [] OTHER          -> (e * 3 + 1) \div 2 + 3

LEMMA FatNeedsAre ==
    ASSUME IsReal(drive), NEW type \in {"FAT12", "FAT16", "FAT32"}, NEW e \in Nat
    PROVE  FatSize(type, e) = CeilDiv(FatNeeds(type, e), 512) /\ FatNeeds(type, e) \in Nat \ {0}
<1>1. FatSize(type, e) = CeilDiv(FatNeeds(type, e), 512)
  BY DEF FatSize, FatNeeds, IsReal
<1>2. FatNeeds(type, e) \in Nat \ {0}
  BY DEF FatNeeds
<1> QED BY <1>1, <1>2

LEMMA FatIsSome ==
    ASSUME IsReal(drive), NEW type \in {"FAT12", "FAT16", "FAT32"}, NEW e \in Nat
    PROVE  FatSize(type, e) \in Nat \ {0}
<1> DEFINE bytes == FatNeeds(type, e)
<1>1. FatSize(type, e) = CeilDiv(bytes, 512) /\ bytes \in Nat \ {0}
  BY FatNeedsAre
<1> HIDE DEF bytes
<1>2. CeilDiv(bytes, 512) \in Nat /\ bytes <= 512 * CeilDiv(bytes, 512)
  BY <1>1, Ceiling
<1> QED BY <1>1, <1>2

\* A FAT takes little of the volume.
LEMMA FatIsShort ==
    ASSUME IsReal(drive), NEW type \in {"FAT12", "FAT16", "FAT32"}, NEW e \in Nat
    PROVE  512 * FatSize(type, e) <=
                (CASE type = "FAT12" -> e * 2 + 515
                   [] type = "FAT16" -> e * 2 + 515
                   [] OTHER          -> e * 4 + 519)
<1>1. FatNeeds(type, e) + 511 <=
                (CASE type = "FAT12" -> e * 2 + 515
                   [] type = "FAT16" -> e * 2 + 515
                   [] OTHER          -> e * 4 + 519)
  BY DEF FatNeeds
<1>2. FatNeeds(type, e) \in Nat /\ FatSize(type, e) = CeilDiv(FatNeeds(type, e), 512)
  BY FatNeedsAre
<1>3. /\ CeilDiv(FatNeeds(type, e), 512) \in Nat
      /\ 512 * CeilDiv(FatNeeds(type, e), 512) <= FatNeeds(type, e) + 511
  BY <1>2, Ceiling
<1> QED BY <1>1, <1>2, <1>3

\* A FAT for the estimate has an entry for each cluster counted.
LEMMA FatHolds ==
    ASSUME IsReal(drive), NEW type \in {"FAT12", "FAT16", "FAT32"},
           NEW e \in Nat, NEW n \in Nat, n <= e
    PROVE  szbfat(type, n + 2) <= 512 * FatSize(type, e)
<1>1. szbfat(type, n + 2) \in Int /\ szbfat(type, n + 2) <= FatNeeds(type, e)
  <2>1. CASE type = "FAT32"
    BY <2>1 DEF szbfat, FatNeeds
  <2>2. CASE type = "FAT16"
    BY <2>2 DEF szbfat, FatNeeds
  <2>3. CASE type = "FAT12"
    <3>1. FatNeeds(type, e) = (e * 3 + 1) \div 2 + 3
      BY <2>3 DEF FatNeeds
    <3>2. szbfat(type, n + 2) = ((n + 2) * 3) \div 2 + ((n + 2) % 2)
      BY <2>3 DEF szbfat
    <3>3. szbfat(type, n + 2) <= (n * 3 + 1) \div 2 + 3
      BY <3>2
    <3>4. (n * 3 + 1) \div 2 <= (e * 3 + 1) \div 2
      OBVIOUS
    <3>5. szbfat(type, n + 2) \in Int
      BY <3>2
    <3> QED BY <3>1, <3>3, <3>4, <3>5
  <2> QED BY <2>1, <2>2, <2>3
<1>2. FatSize(type, e) = CeilDiv(FatNeeds(type, e), 512) /\ FatNeeds(type, e) \in Nat
  BY FatNeedsAre
<1>3. /\ CeilDiv(FatNeeds(type, e), 512) \in Nat
      /\ FatNeeds(type, e) <= 512 * CeilDiv(FatNeeds(type, e), 512)
  BY <1>2, Ceiling
<1> QED BY <1>1, <1>2, <1>3
-----------------------------------------------------------------------------
(* The loop of f_mkfs.                                                     *)

\* A FAT32 volume is large enough for its FAT.
LEMMA RoomForFat ==
    ASSUME NEW v \in Nat, NEW p \in ClusterSizes, NEW fat \in Nat, NEW pad \in 0 .. 511,
           512 * fat <= (v \div p) * 4 + 519, v \div p > 65525
    PROVE  32 + fat + pad <= v
<1>1. p \in {1, 2, 4, 8, 16, 32, 64, 128}
  BY SizesAre
<1>2. v \div p \in Nat /\ v \div p <= v
  BY <1>1
<1> DEFINE e == v \div p
<1> HIDE DEF e
<1>3. e \in Nat /\ e <= v /\ e > 65525 /\ 512 * fat <= e * 4 + 519
  BY <1>2 DEF e
<1> QED BY <1>3

\* A round with clusters of p sectors: what its FAT, its padding and its
\* areas take, and what is left for clusters.
Round(p, fat, pad, over) ==
    /\ Estimate = mk.sz_vol \div p /\ Estimate \in Nat
    /\ fat = FatSize(SubType, Estimate)
    /\ over = (IF SubType = "FAT32" THEN 32 ELSE 33) + fat
    /\ Config.b_vol = mk.b_vol /\ Config.sz_vol = mk.sz_vol /\ Config.pau = p
    /\ Config.fsty = SubType
    /\ Config.sz_rsv = IF SubType = "FAT32" THEN 32 + pad ELSE 1
    /\ Config.sz_fat = IF SubType = "FAT32" THEN fat ELSE fat + pad
    /\ Config.sz_dir = IF SubType = "FAT32" THEN 0 ELSE 32
    /\ Config.n_clst = ((mk.sz_vol - over - pad) % Wrap) \div p
    /\ ~Config.tooSmall => over <= mk.sz_vol

LEMMA RoundIs ==
    ASSUME IsReal(drive), Searching(mk)
    PROVE  \E p \in ClusterSizes, fat \in Nat, pad \in 0 .. 511, over \in Nat :
                Round(p, fat, pad, over)
<1> DEFINE p == AllocUnit
           v == mk.sz_vol
           fat == FatSize(SubType, Estimate)
           rsv == IF SubType = "FAT32" THEN 32 ELSE 1
           dir == IF SubType = "FAT32" THEN 0 ELSE (drive.root * drive.dire) \div drive.ss
           data == mk.b_vol + rsv + fat + dir
           pad == CeilDiv(data, sz_blk) * sz_blk - data
           over == (IF SubType = "FAT32" THEN 32 ELSE 33) + fat
<1>1. p \in ClusterSizes
  BY UnitIsSize
<1>2. v \in Nat /\ mk.b_vol = 63
  BY DEF IsReal, Searching, BehindTrack
<1>3. Estimate = v \div p
  BY DEF Estimate
<1>4. v \div p \in Nat
  BY <1>1, <1>2, SizesAre
<1>5. SubType \in {"FAT12", "FAT16", "FAT32"}
  BY DEF SubType, Searching
<1>6. fat \in Nat
  <2> HIDE DEF p
  <2> QED BY <1>3, <1>4, <1>5, FatIsSome
<1>7. dir = IF SubType = "FAT32" THEN 0 ELSE 32
  BY DEF IsReal
<1>8. over = rsv + fat + dir /\ over \in Nat /\ data = 63 + over /\ data \in Nat
  <2> HIDE DEF fat
  <2> QED BY <1>2, <1>6, <1>7
<1>9. pad \in 0 .. 511
  <2> HIDE DEF data
  <2> QED BY <1>8, Padding
<1>10. Config = [b_vol |-> mk.b_vol, sz_vol |-> v, sz_au |-> mk.sz_au, fsty |-> SubType,
         pau |-> p,
         sz_rsv |-> IF SubType = "FAT32" THEN rsv + pad ELSE rsv,
         sz_fat |-> IF SubType = "FAT32" THEN fat ELSE fat + pad,
         sz_dir |-> dir,
         n_clst |-> ((v - rsv - fat - dir - pad) % Wrap) \div p,
         tooSmall |-> v < data + p * 16 - mk.b_vol]
  BY DEF Config
<1>11. v - rsv - fat - dir - pad = v - over - pad
  <2> HIDE DEF fat, pad
  <2> QED BY <1>2, <1>6, <1>7, <1>8, <1>9
<1>12. ~(v < data + p * 16 - mk.b_vol) => over <= v
  <2> HIDE DEF data, over, p
  <2> QED BY <1>1, <1>2, <1>8, SizesAre
<1> HIDE DEF p, v, fat, dir, data, pad, over
<1>13. /\ Config.b_vol = mk.b_vol /\ Config.sz_vol = v /\ Config.pau = p
       /\ Config.fsty = SubType
       /\ Config.sz_rsv = IF SubType = "FAT32" THEN 32 + pad ELSE 1
       /\ Config.sz_fat = IF SubType = "FAT32" THEN fat ELSE fat + pad
       /\ Config.sz_dir = IF SubType = "FAT32" THEN 0 ELSE 32
       /\ Config.n_clst = ((v - over - pad) % Wrap) \div p
       /\ ~Config.tooSmall => over <= v
  BY <1>7, <1>10, <1>11, <1>12
<1> QED
  <2> p \in ClusterSizes /\ fat \in Nat /\ pad \in 0 .. 511 /\ over \in Nat
    BY <1>1, <1>6, <1>8, <1>9
  <2> WITNESS p \in ClusterSizes, fat \in Nat, pad \in 0 .. 511, over \in Nat
  <2>1. Estimate = mk.sz_vol \div p /\ Estimate \in Nat
    BY <1>3, <1>4 DEF p, v
  <2>2. fat = FatSize(SubType, Estimate)
    BY DEF fat
  <2>3. over = (IF SubType = "FAT32" THEN 32 ELSE 33) + fat
    BY DEF over
  <2>4. v = mk.sz_vol
    BY DEF v
  <2> QED BY <1>13, <2>1, <2>2, <2>3, <2>4 DEF Round

LEMMA FitsIs ==
    ASSUME NEW c, Fits(c), MAX_FAT12 \in Nat, MAX_FAT16 \in Nat, c.n_clst \in Nat
    PROVE  /\ c.fsty = "FAT32" => c.n_clst > MAX_FAT16
           /\ c.fsty = "FAT16" => c.n_clst >= MAX_FAT12 + 1 /\ c.n_clst <= MAX_FAT16
           /\ c.fsty = "FAT12" => c.n_clst <= MAX_FAT12
BY DEF Fits

\* The round f_mkfs accepts.
LEMMA Accepted ==
    ASSUME IsReal(drive), Searching(mk), ~Aborts(Config), Fits(Config)
    PROVE  Made(Config)
<1> PICK p \in ClusterSizes, fat \in Nat, pad \in 0 .. 511, over \in Nat :
            Round(p, fat, pad, over)
  BY RoundIs
<1> DEFINE v == mk.sz_vol
           e == v \div p
           n == Config.n_clst
           type == SubType
<1> HIDE DEF v, e, n, type
<1>1. v \in Nat /\ v \in 0 .. Wrap - 1 /\ BehindTrack(Config)
  <2>1. BehindTrack(mk) /\ Config.b_vol = mk.b_vol /\ Config.sz_vol = mk.sz_vol
    BY DEF Searching, Round
  <2>2. v \in Nat /\ v \in 0 .. Wrap - 1
    BY <2>1, WrapAssumption DEF IsReal, BehindTrack, v
  <2> QED BY <2>1, <2>2 DEF BehindTrack, v
<1>2. e \in Nat /\ Estimate = e /\ n = ((v - over - pad) % Wrap) \div p
  BY DEF Round, v, e, n
<1>3. type = Config.fsty /\ over <= v
  BY DEF Round, Aborts, v, type
<1>4. n \in Nat
  <2>1. (v - over - pad) % Wrap \in Nat
    BY <1>1, WrapAssumption
  <2> QED BY <1>2, <2>1, SizesAre
<1>5. \/ type = "FAT32" /\ e > 65525 /\ e <= MAX_FAT32 /\ n > 65525
      \/ type = "FAT16" /\ 4085 < n /\ n <= 65525
      \/ type = "FAT12" /\ n <= 4085 /\ e <= 4085
  <2>1. type \in {"FAT12", "FAT16", "FAT32"}
    BY DEF SubType, Searching, type
  <2>2. e <= 4085 \/ type # "FAT12"
    BY <1>2 DEF SubType, Searching, MAX_FAT12, IsReal, type
  <2>3. MAX_FAT12 = 4085 /\ MAX_FAT16 = 65525
    BY DEF MAX_FAT12, MAX_FAT16, IsReal
  <2>4. /\ type = "FAT32" => n > MAX_FAT16
        /\ type = "FAT16" => n >= MAX_FAT12 + 1 /\ n <= MAX_FAT16
        /\ type = "FAT12" => n <= MAX_FAT12
    BY <1>3, <1>4, <2>3, FitsIs DEF n
  <2>5. type = "FAT32" => ~(e <= MAX_FAT16) /\ ~(e > MAX_FAT32)
    BY <1>2, <1>3 DEF Aborts
  <2>6. CASE type = "FAT12"
    BY <2>6, <2>2, <2>3, <2>4
  <2>7. CASE type = "FAT16"
    BY <2>7, <2>3, <2>4, <1>4
  <2>8. CASE type = "FAT32"
    <3>1. e > 65525
      BY <2>8, <1>2, <2>5, <2>3
    <3>2. e <= MAX_FAT32
      BY <2>8, <1>2, <2>5 DEF MAX_FAT32
    <3>3. n > 65525
      BY <2>8, <2>4, <2>3
    <3> QED BY <2>8, <3>1, <3>2, <3>3
  <2> QED BY <2>1, <2>6, <2>7, <2>8
<1>6. /\ fat = FatSize(type, e)
      /\ over = (IF type = "FAT32" THEN 32 ELSE 33) + fat
  BY <1>2 DEF Round, type
<1>7. /\ Config.sz_rsv = IF type = "FAT32" THEN 32 + pad ELSE 1
      /\ Config.sz_fat = IF type = "FAT32" THEN fat ELSE fat + pad
      /\ Config.sz_dir = IF type = "FAT32" THEN 0 ELSE 32
      /\ Config.pau = p
      /\ Config.sz_vol = v
  BY DEF Round, v, type
<1>8. type \in {"FAT12", "FAT16", "FAT32"}
  BY <1>4, <1>5
<1>9. /\ fat \in Nat \ {0}
      /\ type = "FAT12" => 512 * fat <= e * 2 + 515
      /\ type = "FAT16" => 512 * fat <= e * 2 + 515
      /\ type = "FAT32" => 512 * fat <= e * 4 + 519
  BY <1>2, <1>6, <1>8, FatIsSome, FatIsShort
<1>10. over + pad <= v
  <2>1. CASE type = "FAT32"
    BY <2>1, <1>1, <1>4, <1>5, <1>6, <1>9, RoomForFat DEF e
  <2>2. CASE type # "FAT32"
    <3>1. n <= 65525
      BY <2>2, <1>4, <1>5
    <3> SUFFICES ASSUME v < over + pad PROVE FALSE
      BY <1>1
    <3> DEFINE w == (v - over - pad) % Wrap
    <3>2. w = v - over - pad + Wrap
      <4>1. v - over - pad + Wrap \in 0 .. Wrap - 1
        BY <1>1, <1>3, WrapAssumption
      <4> QED BY <4>1, <1>1, WrapAssumption
    <3>3. n = w \div p
      BY <1>2
    <3> HIDE DEF w
    <3>4. w \in Nat /\ w >= 16776000
      BY <1>1, <1>3, <3>2, WrapAssumption
    <3>5. w \div p >= 131000
      BY <3>4, SizesAre
    <3> QED BY <1>4, <3>1, <3>3, <3>5
  <2> QED BY <2>1, <2>2
<1>11. n = (v - (over + pad)) \div p
  <2>1. (v - over - pad) % Wrap = v - (over + pad)
    BY <1>1, <1>10, WrapAssumption
  <2> QED BY <2>1, <1>2
<1>12. n \in Nat /\ n <= e
  <2> DEFINE used == over + pad
  <2>1. used \in Nat /\ used <= v
    BY <1>10
  <2> HIDE DEF used
  <2>2. v \div p \in Nat /\ (v - used) \div p \in Nat /\ (v - used) \div p <= v \div p
    BY <2>1, <1>1, Fewer
  <2> QED BY <2>2, <1>11 DEF e, used
<1>13. szbfat(type, n + 2) <= 512 * fat
  BY <1>2, <1>6, <1>8, <1>12, FatHolds
<1>14. type = "FAT16" => fat <= 65024
  <2> SUFFICES ASSUME type = "FAT16" PROVE fat <= 65024
    OBVIOUS
  <2>1. over = 33 + fat /\ n <= 65525
    BY <1>4, <1>5, <1>6
  <2>2. 33 + fat + pad <= v /\ (v - (33 + fat + pad)) \div p <= 65525
    BY <2>1, <1>10, <1>11
  <2>3. 512 * fat <= (v \div p) * 2 + 515
    BY <1>9 DEF e
  <2>4. p \in {1, 2, 4, 8, 16, 32, 64, 128}
    BY SizesAre
  <2> QED BY <1>1, <2>2, <2>3, <2>4
<1>15. Config.sz_rsv + Config.sz_fat + Config.sz_dir = over + pad
  BY <1>6, <1>7, <1>8, <1>9
<1>16. szbfat(type, n + 2) \in Int
  BY <1>12 DEF szbfat
<1>17. szbfat(type, n + 2) <= 512 * Config.sz_fat
  BY <1>7, <1>9, <1>13, <1>16
<1>18. /\ Config.sz_fat \in Nat \ {0}
       /\ type # "FAT32" => Config.sz_fat <= 65535
  BY <1>4, <1>5, <1>2, <1>7, <1>9, <1>14
<1>19. type = "FAT32" =>
            /\ Config.sz_rsv \in Nat /\ 32 <= Config.sz_rsv /\ Config.sz_rsv <= 65535
            /\ Config.sz_dir = 0
            /\ 65525 < n /\ n <= MAX_FAT32
  BY <1>2, <1>4, <1>5, <1>7, <1>12 DEF MAX_FAT32
<1>20. type # "FAT32" => Config.sz_rsv = 1 /\ Config.sz_dir = 32
  BY <1>7
<1> QED
  BY <1>1, <1>3, <1>4, <1>5, <1>7, <1>10, <1>11, <1>12, <1>15, <1>17, <1>18, <1>19, <1>20
     DEF Made, n, v, type

\* The round that follows another.
LEMMA SearchesOn ==
    ASSUME IsReal(drive), Searching(mk), NEW c \in Retries(Config)
    PROVE  Searching(c)
<1> PICK p \in ClusterSizes, fat \in Nat, pad \in 0 .. 511, over \in Nat :
            Round(p, fat, pad, over)
  BY RoundIs
<1>1. /\ Config.b_vol = 63 /\ Config.sz_vol = drive.sectors - 63 /\ Config.sz_vol >= 128
      /\ Config.pau \in ClusterSizes /\ Config.sz_au = mk.sz_au
  BY DEF Round, Searching, BehindTrack, Config
<1>2. Config.sz_au \in {0} \cup ClusterSizes
  BY <1>1 DEF Searching
<1> DEFINE r == Config
<1>3. /\ DOMAIN r = DOMAIN [Config EXCEPT !.fsty = "FAT16"]
      /\ {"fsty", "sz_au", "b_vol", "sz_vol"} \subseteq DOMAIN r
  BY DEF Config
<1>4. \A type \in {"FAT16", "FAT32"}, size \in {0} \cup ClusterSizes :
         Searching(Again(r, type, size))
  <2> HIDE DEF r
  <2> SUFFICES ASSUME NEW type \in {"FAT16", "FAT32"}, NEW size \in {0} \cup ClusterSizes
               PROVE  Searching(Again(r, type, size))
    OBVIOUS
  <2>1. /\ Again(r, type, size).b_vol = r.b_vol /\ Again(r, type, size).sz_vol = r.sz_vol
        /\ Again(r, type, size).fsty = type /\ Again(r, type, size).sz_au = size
    BY <1>3 DEF Again
  <2> QED BY <1>1, <2>1 DEF Searching, BehindTrack, r
<1>5. \E type \in {"FAT16", "FAT32"}, size \in {0} \cup ClusterSizes : c = Again(r, type, size)
  <2>1. r.pau > 1 => r.pau \div 2 \in ClusterSizes
    BY <1>1, SizesAre
  <2>2. r.pau * 2 <= 128 => r.pau * 2 \in ClusterSizes
    BY <1>1, SizesAre
  <2>3. r.pau * 2 <= 64 => r.pau * 2 <= 128
    BY <1>1, SizesAre
  <2>4. c \in Retries(r) /\ r.sz_au \in {0} \cup ClusterSizes
    BY <1>2
  <2> HIDE DEF r
  <2> QED BY <2>1, <2>2, <2>3, <2>4 DEF Retries
<1> QED BY <1>4, <1>5
-----------------------------------------------------------------------------
(* What f_mkfs writes, and what mount_volume makes of it.                  *)

\* CHS of the partition table: six numbers of heads.
LEMMA HeadsAre == IsReal(drive) => Heads \in {8, 16, 32, 64, 128, 255}
<1> DEFINE enough == {h \in {8, 16, 32, 64, 128} :
                         (drive.sectors \div h) \div N_SEC_TRACK <= 1024}
<1>1. enough \subseteq {8, 16, 32, 64, 128}
  OBVIOUS
<1>2. Heads = IF enough = {} THEN 255 ELSE CHOOSE h \in enough : \A k \in enough : h <= k
  BY DEF Heads
<1> HIDE DEF enough
<1>3. enough # {} => \E h \in enough : \A k \in enough : h <= k
  <2>1. CASE 8 \in enough
    BY <2>1, <1>1
  <2>2. CASE 8 \notin enough /\ 16 \in enough
    BY <2>2, <1>1
  <2>3. CASE 8 \notin enough /\ 16 \notin enough /\ 32 \in enough
    BY <2>3, <1>1
  <2>4. CASE 8 \notin enough /\ 16 \notin enough /\ 32 \notin enough /\ 64 \in enough
    BY <2>4, <1>1
  <2>5. CASE 8 \notin enough /\ 16 \notin enough /\ 32 \notin enough /\ 64 \notin enough
    <3> SUFFICES ASSUME enough # {} PROVE 128 \in enough /\ \A k \in enough : 128 <= k
      OBVIOUS
    <3>1. \A k \in enough : k = 8 \/ k = 16 \/ k = 32 \/ k = 64 \/ k = 128
      BY <1>1
    <3>2. \A k \in enough : k = 128
      BY <2>5, <3>1
    <3>3. PICK k : k \in enough
      OBVIOUS
    <3> QED BY <3>2, <3>3
  <2> QED BY <2>1, <2>2, <2>3, <2>4, <2>5
<1>4. enough # {} => (CHOOSE h \in enough : \A k \in enough : h <= k) \in enough
  BY <1>3
<1> QED BY <1>1, <1>2, <1>4

\* A sector within reach is found again from its cylinder, head and sector.
Lba(c) ==
    (((c.sec \div 64) * 256 + c.cyl) * Heads + c.head) * N_SEC_TRACK + (c.sec % 64) - 1

LEMMA ChsNames ==
    ASSUME Heads \in {8, 16, 32, 64, 128, 255}, NEW lba \in Nat,
           lba < 1024 * Heads * N_SEC_TRACK
    PROVE  Lba(Chs(lba)) = lba
<1> DEFINE t == lba \div 63
           h == Heads
           cy == t \div h
           c == Chs(lba)
<1>1. c = [head |-> t % h, sec |-> ((cy \div 256) % 4) * 64 + (lba % 63) + 1, cyl |-> cy % 256]
  BY DEF Chs, N_SEC_TRACK
<1>2. c.head = t % h /\ c.sec = ((cy \div 256) % 4) * 64 + (lba % 63) + 1 /\ c.cyl = cy % 256
  <2> HIDE DEF t, h, cy, c
  <2> QED BY <1>1
<1>3. t \in Nat /\ lba = t * 63 + (lba % 63) /\ lba % 63 \in 0 .. 62
  OBVIOUS
<1>4. h \in {8, 16, 32, 64, 128, 255} /\ lba < 1024 * h * 63
  BY DEF N_SEC_TRACK
<1>5. cy \in 0 .. 1023 /\ t = cy * h + (t % h) /\ t % h \in Nat
  <2> HIDE DEF h
  <2>1. t < 1024 * h
    BY <1>3, <1>4
  <2> HIDE DEF t
  <2> QED BY <2>1, <1>3, <1>4
<1> HIDE DEF t, h, cy
<1> DEFINE hi == cy \div 256
           lo == cy % 256
           sec == lba % 63
<1>6. hi \in 0 .. 3 /\ lo \in 0 .. 255 /\ hi * 256 + lo = cy
  BY <1>5
<1>7. hi % 4 = hi
  BY <1>6
<1> HIDE DEF hi, lo
<1>8. c.sec = hi * 64 + sec + 1
  BY <1>2, <1>7 DEF hi
<1>9. sec \in 0 .. 62
  BY <1>3
<1> HIDE DEF sec
<1>10. (hi * 64 + sec + 1) \div 64 = hi /\ (hi * 64 + sec + 1) % 64 = sec + 1
  BY <1>6, <1>9
<1>11. Lba(c) = ((hi * 256 + lo) * h + (t % h)) * 63 + (sec + 1) - 1
  BY <1>2, <1>8, <1>10 DEF Lba, N_SEC_TRACK, lo, h
<1>12. Lba(c) = t * 63 + (sec + 1) - 1
  BY <1>5, <1>6, <1>11
<1>13. Lba(c) = t * 63 + sec
  BY <1>3, <1>9, <1>12
<1> QED BY <1>3, <1>13 DEF sec

\* The fields of the boot record lose nothing of the geometry.
LEMMA RecordIs ==
    ASSUME IsReal(drive), Made(mk)
    PROVE  /\ BootRecord.BytsPerSec = 512 /\ BootRecord.SecPerClus = mk.pau
           /\ BootRecord.RsvdSecCnt = mk.sz_rsv /\ BootRecord.RsvdSecCnt # 0
           /\ BootRecord.RootEntCnt = (IF mk.fsty = "FAT32" THEN 0 ELSE 512)
           /\ IF mk.sz_vol < 65536
              THEN BootRecord.TotSec16 = mk.sz_vol /\ BootRecord.TotSec32 = 0
              ELSE BootRecord.TotSec16 = 0 /\ BootRecord.TotSec32 = mk.sz_vol
           /\ BootRecord.FATSz16 = (IF mk.fsty = "FAT32" THEN 0 ELSE mk.sz_fat)
           /\ BootRecord.FATSz32 = (IF mk.fsty = "FAT32" THEN mk.sz_fat ELSE 0)
           /\ BootRecord.FAT32 = (mk.fsty = "FAT32")
<1>1. mk.pau % 256 = mk.pau
  BY SizesAre DEF Made
<1>2. mk.sz_rsv % 65536 = mk.sz_rsv /\ mk.sz_rsv # 0
  BY DEF Made
<1>3. mk.fsty # "FAT32" => mk.sz_fat % 65536 = mk.sz_fat
  BY DEF Made
<1>4. BootRecord =
        [BytsPerSec |-> 512, SecPerClus |-> mk.pau, RsvdSecCnt |-> mk.sz_rsv,
         RootEntCnt |-> IF mk.fsty = "FAT32" THEN 0 ELSE 512,
         TotSec16 |-> TotSec16, TotSec32 |-> TotSec32,
         FATSz16 |-> IF mk.fsty = "FAT32" THEN 0 ELSE mk.sz_fat,
         FATSz32 |-> IF mk.fsty = "FAT32" THEN mk.sz_fat ELSE 0,
         HiddSec |-> mk.b_vol, FAT32 |-> mk.fsty = "FAT32"]
  BY <1>1, <1>2, <1>3 DEF BootRecord, IsReal
<1>5. IF mk.sz_vol < 65536
      THEN TotSec16 = mk.sz_vol /\ TotSec32 = 0
      ELSE TotSec16 = 0 /\ TotSec32 = mk.sz_vol
  BY DEF TotSec16, TotSec32
<1> QED BY <1>2, <1>4, <1>5

\* The record is found, behind a sector 0 that is none.
LEMMA FoundBehindTable ==
    ASSUME IsReal(drive), Made(mk), Written
    PROVE  VolumeSector = {63} /\ disk[0] = <<"mbr", Partition>>
<1>1. SectorAt(disk, 0)[1] = "mbr" /\ SectorAt(disk, 0)[2] = Partition
  BY DEF Written
<1>2. ~IsVbr(0)
  BY <1>1 DEF IsVbr
<1>3. disk[0] = <<"mbr", Partition>>
  <2>1. SectorAt(disk, 0) # ZeroSector
    BY <1>1 DEF ZeroSector
  <2> QED BY <2>1 DEF SectorAt, Written
<1>4. Partition.StLba = 63
  BY DEF Partition, N_SEC_TRACK
<1>5. IsVbr(63)
  <2>1. SectorAt(disk, 63)[1] = "vbr" /\ SectorAt(disk, 63)[2] = BootRecord
    BY DEF Written
  <2>2. CASE mk.fsty = "FAT32"
    <3>1. BootRecord.FAT32 = (mk.fsty = "FAT32")
      BY DEF BootRecord
    <3>2. SectorAt(disk, 63)[2].FAT32
      BY <2>1, <2>2, <3>1, Zenon
    <3> QED BY <2>1, <3>2 DEF IsVbr
  <2>3. CASE mk.fsty # "FAT32"
    <3>1. /\ BootRecord.SecPerClus \in ClusterSizes
          /\ BootRecord.RsvdSecCnt # 0
          /\ BootRecord.RootEntCnt # 0
          /\ BootRecord.FATSz16 # 0
      BY <2>3, RecordIs DEF Made
    <3>2. BootRecord.TotSec16 >= 128 \/ BootRecord.TotSec32 >= 65536
      BY RecordIs DEF Made, BehindTrack, IsReal
    <3> QED BY <2>1, <3>1, <3>2 DEF IsVbr
  <2> QED BY <2>2, <2>3
<1>6. disk[0][1] = "mbr" /\ disk[0][2].StLba = 63
  BY <1>3, <1>4
<1>7. VolumeSector = {disk[0][2].StLba}
  BY <1>2, <1>5, <1>6 DEF VolumeSector
<1> QED BY <1>3, <1>6, <1>7

\* mount_volume reads from the record what f_mkfs put in: only a volume
\* without clusters it does not take.
LEMMA GeometryIs ==
    ASSUME IsReal(drive), Made(mk)
    PROVE  LET g == Geometry(BootRecord, 63)
           IN  /\ g.fs_type = mk.fsty /\ g.csize = mk.pau /\ g.n_fatent = mk.n_clst + 2
               /\ g.volbase = 63 /\ g.fatbase = 63 + mk.sz_rsv
               /\ g.fsize = mk.sz_fat /\ g.n_rootdir = (IF mk.fsty = "FAT32" THEN 0 ELSE 512)
               /\ g.dirbase = (IF mk.fsty = "FAT32" THEN 2 ELSE 63 + mk.sz_rsv + mk.sz_fat)
               /\ g.database = 63 + (mk.sz_rsv + mk.sz_fat + mk.sz_dir)
               /\ g.possible = (mk.n_clst # 0)
<1> DEFINE b == BootRecord
           fasize == IF b.FATSz16 = 0 THEN b.FATSz32 ELSE b.FATSz16
           tsect == IF b.TotSec16 = 0 THEN b.TotSec32 ELSE b.TotSec16
           sysect == b.RsvdSecCnt + fasize + b.RootEntCnt \div (drive.ss \div drive.dire)
           nclst == (tsect - sysect) \div b.SecPerClus
           type == IF nclst <= MAX_FAT12 THEN "FAT12"
                   ELSE IF nclst <= MAX_FAT16 THEN "FAT16" ELSE "FAT32"
           possible ==
            /\ b.BytsPerSec = drive.ss /\ b.SecPerClus \in ClusterSizes
            /\ b.RootEntCnt % (drive.ss \div drive.dire) = 0 /\ b.RsvdSecCnt # 0
            /\ tsect >= sysect /\ nclst # 0 /\ nclst <= MAX_FAT32
            /\ (type = "FAT32") = (b.RootEntCnt = 0)
            /\ fasize >= CeilDiv(szbfat(type, nclst + 2), drive.ss)
           g == Geometry(BootRecord, 63)
<1>1. g = [fs_type |-> type, csize |-> b.SecPerClus, n_fatent |-> nclst + 2,
         fsize |-> fasize, n_rootdir |-> b.RootEntCnt, volbase |-> 63,
         fatbase |-> 63 + b.RsvdSecCnt, database |-> 63 + sysect,
         dirbase |-> IF type = "FAT32" THEN 2 ELSE 63 + b.RsvdSecCnt + fasize,
         possible |-> possible]
  BY DEF Geometry
<1> HIDE DEF b, g
<1>2. g.fs_type = type /\ g.csize = b.SecPerClus /\ g.n_fatent = nclst + 2
      /\ g.volbase = 63 /\ g.fatbase = 63 + b.RsvdSecCnt /\ g.database = 63 + sysect
      /\ g.fsize = fasize /\ g.n_rootdir = b.RootEntCnt
      /\ g.dirbase = (IF type = "FAT32" THEN 2 ELSE 63 + b.RsvdSecCnt + fasize)
      /\ g.possible = possible
  <2> HIDE DEF fasize, tsect, sysect, nclst, type, possible
  <2> QED BY <1>1
<1> HIDE DEF fasize, tsect, sysect, nclst, type, possible
<1>3. fasize = mk.sz_fat
  BY RecordIs DEF b, fasize, Made
<1>4. tsect = mk.sz_vol
  BY RecordIs DEF b, tsect, Made, BehindTrack
<1>5. drive.ss \div drive.dire = 16
  BY DEF IsReal
<1>6. b.RootEntCnt \div 16 = mk.sz_dir /\ b.RootEntCnt % 16 = 0
  BY RecordIs DEF b, Made
<1>7. sysect = mk.sz_rsv + mk.sz_fat + mk.sz_dir
  BY <1>3, <1>5, <1>6, RecordIs DEF sysect, b
<1>8. nclst = mk.n_clst
  BY <1>4, <1>7, RecordIs DEF nclst, b, Made
<1>9. type = mk.fsty
  <2>1. type = IF mk.n_clst <= 4085 THEN "FAT12"
               ELSE IF mk.n_clst <= 65525 THEN "FAT16" ELSE "FAT32"
    BY <1>8 DEF type, MAX_FAT12, MAX_FAT16, IsReal
  <2> HIDE DEF type
  <2> QED BY <2>1 DEF Made
<1>10. possible = (mk.n_clst # 0)
  <2>1. b.BytsPerSec = drive.ss /\ b.SecPerClus \in ClusterSizes /\ b.RsvdSecCnt # 0
    BY RecordIs DEF b, IsReal, Made
  <2>2. tsect >= sysect
    BY <1>4, <1>7 DEF Made, BehindTrack, IsReal
  <2>3. mk.n_clst <= MAX_FAT32
    BY DEF Made, MAX_FAT32
  <2>4. (mk.fsty = "FAT32") = (b.RootEntCnt = 0)
    BY RecordIs DEF b
  <2>5. mk.sz_fat >= CeilDiv(szbfat(mk.fsty, mk.n_clst + 2), 512)
    <3> DEFINE need == szbfat(mk.fsty, mk.n_clst + 2)
    <3>1. need \in Nat /\ need <= 512 * mk.sz_fat /\ mk.sz_fat \in Nat
      BY DEF Made, szbfat
    <3> HIDE DEF need
    <3>2. CeilDiv(need, 512) <= mk.sz_fat
      BY <3>1 DEF CeilDiv
    <3>3. CeilDiv(need, 512) \in Nat
      BY <3>1, Ceiling
    <3> QED BY <3>1, <3>2, <3>3 DEF need
  <2>6. fasize >= CeilDiv(szbfat(type, nclst + 2), drive.ss)
    BY <1>3, <1>8, <1>9, <2>5 DEF IsReal
  <2> QED BY <1>5, <1>6, <1>8, <1>9, <2>1, <2>2, <2>3, <2>4, <2>6 DEF possible
<1>11. /\ b.RsvdSecCnt = mk.sz_rsv
       /\ b.RootEntCnt = (IF mk.fsty = "FAT32" THEN 0 ELSE 512)
  BY RecordIs DEF b
<1> QED BY <1>2, <1>3, <1>7, <1>8, <1>9, <1>10, <1>11, RecordIs DEF g, b
-----------------------------------------------------------------------------
(* The invariant is inductive.                                             *)

LEMMA LayoutBegins ==
    LayoutInit => LayoutInv
BY DEF LayoutInit, LayoutInv

\* What depends on the drive and the configuration stays with them.
LEMMA SameRecords ==
    ASSUME drive' = drive, mk' = mk
    PROVE  /\ BootRecord' = BootRecord /\ Partition' = Partition /\ Heads' = Heads
           /\ Geometry(BootRecord, 63)' = Geometry(BootRecord, 63)
           /\ Made(mk)' = Made(mk)
<1>1. BootRecord' = BootRecord
  BY DEF BootRecord, TotSec16, TotSec32
<1>2. Heads' = Heads
  BY DEF Heads
<1>3. Partition' = Partition
  BY <1>2 DEF Partition, System, Chs
<1>4. Geometry(BootRecord, 63)' = Geometry(BootRecord, 63)
  BY <1>1 DEF Geometry, MAX_FAT12, MAX_FAT16
<1>5. Made(mk)' = Made(mk)
  BY DEF Made, BehindTrack
<1> QED BY <1>1, <1>2, <1>3, <1>4, <1>5

LEMMA LayoutSteps ==
    ASSUME \A d \in Drives : IsReal(d), LayoutInv, [LayoutNext \/ Use]_layoutVars
    PROVE  LayoutInv'
<1> IsReal(drive)
  BY DEF LayoutInv
<1>1. CASE Locate
  <2>1. mk'.b_vol = (IF drive.sectors > 63 THEN 63 ELSE 0) /\ mk'.sz_vol = drive.sectors - mk'.b_vol
        /\ mk'.fsty = "FAT16" /\ mk'.sz_au = 0
    BY <1>1 DEF Locate, NoVolume, N_SEC_TRACK
  <2>2. phase' = IF mk'.sz_vol < 128 THEN "aborted" ELSE "configure"
    BY <1>1, <2>1 DEF Locate, N_SEC_TRACK
  <2>3. drive' = drive
    BY <1>1 DEF Locate
  <2>4. phase' = "configure" => Searching(mk)'
    <3> SUFFICES ASSUME phase' = "configure" PROVE Searching(mk)'
      OBVIOUS
    <3>1. ~(mk'.sz_vol < 128)
      BY <2>2
    <3>2. mk'.b_vol = 63 /\ mk'.sz_vol = drive.sectors - 63 /\ mk'.sz_vol >= 128
      BY <2>1, <3>1, WrapAssumption DEF IsReal
    <3> QED BY <2>1, <2>3, <3>2 DEF Searching, BehindTrack
  <2> QED BY <2>2, <2>3, <2>4 DEF LayoutInv
<1>2. CASE Configure
  <2>1. Searching(mk) /\ drive' = drive
    BY <1>2 DEF Configure, LayoutInv
  <2>2. CASE phase' = "aborted"
    BY <2>1, <2>2 DEF LayoutInv
  <2>3. CASE phase' = phase /\ mk' \in Retries(Config)
    <3>1. Searching(mk')
      BY <2>1, <2>3, SearchesOn
    <3>2. Searching(mk)'
      BY <2>1, <3>1 DEF Searching, BehindTrack
    <3> QED BY <1>2, <2>1, <2>3, <3>2 DEF LayoutInv, Configure
  <2>4. CASE phase' = "create" /\ mk' = Config /\ ~Aborts(Config) /\ Fits(Config)
    <3>1. Made(Config)
      BY <2>1, <2>4, Accepted
    <3>2. Made(mk)'
      BY <2>1, <2>4, <3>1 DEF Made, BehindTrack
    <3> QED BY <2>1, <2>4, <3>2 DEF LayoutInv
  <2> QED BY <1>2, <2>2, <2>3, <2>4 DEF Configure
<1>3. CASE CreateVolume
  <2>1. Made(mk) /\ drive' = drive /\ mk' = mk
    BY <1>3 DEF CreateVolume, LayoutInv
  <2>2. CASE phase' = "failed"
    BY <2>1, <2>2 DEF LayoutInv
  <2>3. CASE phase' # "failed"
    <3>1. phase' = "mount"
      BY <1>3, <2>3 DEF CreateVolume
    <3>2. /\ 0 \in DOMAIN disk' /\ disk'[0] = <<"mbr", Partition>>
          /\ 63 \in DOMAIN disk' /\ disk'[63] = <<"vbr", BootRecord>>
      <4>1. mk.b_vol = 63 /\ {0, 63} \cap Unchecked = {}
        <5>1. mk.b_vol = 63
          BY <2>1 DEF Made, BehindTrack
        <5> QED BY <5>1 DEF Unchecked
      <4> DEFINE copies == {mk.b_vol} \cup (IF mk.fsty = "FAT32" THEN {mk.b_vol + 6} ELSE {})
                 notes == IF mk.fsty = "FAT32" THEN {mk.b_vol + 1, mk.b_vol + 7} ELSE {}
                 first == {mk.b_vol + mk.sz_rsv + k : k \in DOMAIN FirstFat}
                 What(s) == CASE s = 0 -> <<"mbr", Partition>>
                              [] s \in copies -> <<"vbr", BootRecord>>
                              [] s \in notes -> FsInfo(mk.n_clst - 1, 2)
                              [] OTHER -> FirstFat[s - (mk.b_vol + mk.sz_rsv)]
      <4>2. PICK lost \in SUBSET (IF drive.sound THEN {} ELSE Unchecked) :
                disk' = [s \in ({0} \cup copies \cup notes \cup first) \ lost |-> What(s)]
        BY <1>3, <2>3 DEF CreateVolume
      <4>3. 0 \notin lost /\ 63 \notin lost
        BY <4>1, <4>2
      <4>4. 63 \in copies /\ 0 \notin copies \cup notes /\ 63 \notin notes
        BY <4>1
      <4> HIDE DEF copies, notes, first, What
      <4>5. 0 \in DOMAIN disk' /\ 63 \in DOMAIN disk'
        BY <4>2, <4>3, <4>4
      <4>6. disk'[0] = What(0) /\ disk'[63] = What(63)
        BY <4>2, <4>5
      <4>7. What(0) = <<"mbr", Partition>> /\ What(63) = <<"vbr", BootRecord>>
        BY <4>4 DEF What
      <4> QED BY <4>5, <4>6, <4>7
    <3>3. Written'
      BY <2>1, <3>2, SameRecords DEF Written, SectorAt
    <3>4. Made(mk)'
      BY <2>1, SameRecords
    <3> QED BY <2>1, <3>1, <3>3, <3>4 DEF LayoutInv
  <2> QED BY <2>2, <2>3
<1>4. CASE Mount
  <2>1. Made(mk) /\ Written /\ drive' = drive /\ mk' = mk /\ disk' = disk
    BY <1>4 DEF Mount, LayoutInv
  <2>2. Made(mk)' /\ Written'
    BY <2>1, SameRecords DEF Written, SectorAt
  <2>3. CASE phase' = "failed"
    BY <2>1, <2>3 DEF LayoutInv
  <2>4. CASE phase' # "failed"
    <3> DEFINE g == Geometry(BootRecord, 63)
    <3>1. {Geometry(disk[b][2], b) : b \in VolumeSector} = {g}
      <4>1. disk[63][2] = BootRecord
        <5>1. SectorAt(disk, 63) # ZeroSector /\ SectorAt(disk, 63)[2] = BootRecord
          BY <2>1 DEF Written, ZeroSector
        <5> QED BY <5>1 DEF SectorAt
      <4> QED BY <2>1, <4>1, FoundBehindTable
    <3>2. g.possible = (mk.n_clst # 0)
      BY <2>1, GeometryIs
    <3> HIDE DEF g
    <3>3. CASE phase' = "ready"
      <4>1. fs' = g /\ g.possible
        BY <1>4, <3>1, <3>3 DEF Mount
      <4>2. fs' = Geometry(BootRecord, 63)' /\ fs'.possible
        BY <2>1, <4>1, SameRecords DEF g
      <4> QED BY <2>1, <2>2, <3>3, <4>2 DEF LayoutInv
    <3>4. CASE phase' = "no_filesystem"
      <4>1. mk'.n_clst = 0
        BY <1>4, <2>1, <3>1, <3>2, <3>4 DEF Mount
      <4> QED BY <2>1, <2>2, <3>4, <4>1 DEF LayoutInv
    <3> QED BY <1>4, <2>4, <3>3, <3>4 DEF Mount
  <2> QED BY <2>3, <2>4
<1>5. CASE Use
  <2>1. /\ Made(mk) /\ Written /\ drive' = drive /\ mk' = mk /\ fs' = fs
        /\ phase' \in {"ready", "closed"}
        /\ fs = Geometry(BootRecord, 63) /\ fs.possible
    BY <1>5 DEF Use, LayoutInv
  <2>2. fs.volbase = 63
    BY <2>1, GeometryIs
  <2>3. SectorAt(disk', 0) = SectorAt(disk, 0) /\ SectorAt(disk', 63) = SectorAt(disk, 63)
    BY <1>5, <2>2 DEF Use
  <2>4. Written'
    BY <2>1, <2>3, SameRecords DEF Written, SectorAt
  <2>5. Made(mk)' /\ fs' = Geometry(BootRecord, 63)' /\ fs'.possible
    BY <2>1, SameRecords
  <2> QED BY <2>1, <2>4, <2>5 DEF LayoutInv
<1>6. CASE UNCHANGED layoutVars
  <2>1. drive' = drive /\ phase' = phase /\ mk' = mk /\ disk' = disk /\ fs' = fs
    BY <1>6 DEF layoutVars
  <2>2. Searching(mk)' = Searching(mk) /\ Written' = Written
    BY <2>1, SameRecords DEF Searching, BehindTrack, Written, SectorAt
  <2> QED BY <2>1, <2>2, SameRecords DEF LayoutInv
<1> QED BY <1>1, <1>2, <1>3, <1>4, <1>5, <1>6 DEF LayoutNext

\* The volume f_mkfs finds a place for holds through formatting, mounting
\* and use.
THEOREM LayoutHolds ==
    ASSUME \A d \in Drives : IsReal(d)
    PROVE  LayoutSpec => []LayoutInv
<1>1. LayoutInv /\ [LayoutNext \/ Use]_layoutVars => LayoutInv'
  BY LayoutSteps
<1> QED BY <1>1, LayoutBegins, PTL DEF LayoutSpec

-----------------------------------------------------------------------------
(* The results.                                                            *)

\* f_mkfs and mount_volume agree: on a drive of any size below 2^32 sectors
\* the first call after f_mkfs mounts the volume that was made, of the same
\* type and with the same areas, inside the drive, and so would every later
\* one; only a volume without a cluster is not mounted.
THEOREM VolumeFound ==
    ASSUME \A d \in Drives : IsReal(d)
    PROVE  LayoutSpec => []MountsWhatWasMade
<1>1. LayoutInv => MountsWhatWasMade
  <2> SUFFICES ASSUME LayoutInv, phase \in {"ready", "closed"}
               PROVE  /\ VolumeSector = {mk.b_vol}
                      /\ fs = Geometry(SectorAt(disk, mk.b_vol)[2], mk.b_vol) /\ fs.possible
                      /\ fs.fs_type = mk.fsty
                      /\ fs.csize = mk.pau
                      /\ fs.n_fatent = mk.n_clst + 2
                      /\ fs.fatbase = mk.b_vol + mk.sz_rsv
                      /\ fs.database = mk.b_vol + mk.sz_rsv + mk.sz_fat + mk.sz_dir
                      /\ fs.database + (fs.n_fatent - 2) * fs.csize <= drive.sectors
    BY DEF LayoutInv, MountsWhatWasMade
  <2>1. /\ IsReal(drive) /\ Made(mk) /\ Written /\ mk.b_vol = 63
        /\ fs = Geometry(BootRecord, 63) /\ fs.possible
    BY DEF LayoutInv, Made, BehindTrack
  <2>2. VolumeSector = {63}
    BY <2>1, FoundBehindTable
  <2>3. SectorAt(disk, 63)[2] = BootRecord
    BY <2>1 DEF Written
  <2>4. /\ fs.fs_type = mk.fsty /\ fs.csize = mk.pau /\ fs.n_fatent = mk.n_clst + 2
        /\ fs.fatbase = 63 + mk.sz_rsv
        /\ fs.database = 63 + (mk.sz_rsv + mk.sz_fat + mk.sz_dir)
    BY <2>1, GeometryIs
  <2>5. mk.sz_rsv \in Nat /\ mk.sz_fat \in Nat /\ mk.sz_dir \in Nat
    BY <2>1 DEF Made
  <2>6. fs.database + (fs.n_fatent - 2) * fs.csize <= drive.sectors
    <3> DEFINE used == mk.sz_rsv + mk.sz_fat + mk.sz_dir
               n == mk.n_clst
               p == mk.pau
    <3>1. /\ used \in Nat /\ used <= drive.sectors - 63 /\ n \in Nat
          /\ n = (drive.sectors - 63 - used) \div p
      BY <2>1, <2>5 DEF Made, BehindTrack
    <3>2. drive.sectors \in Nat
      BY <2>1, WrapAssumption DEF IsReal
    <3>3. p \in {1, 2, 4, 8, 16, 32, 64, 128}
      BY <2>1, SizesAre DEF Made
    <3>4. fs.database = 63 + used /\ fs.n_fatent = n + 2 /\ fs.csize = p
      BY <2>4
    <3> HIDE DEF used, n, p
    <3>5. n * p <= drive.sectors - 63 - used
      BY <3>1, <3>2, <3>3
    <3>6. fs.n_fatent - 2 = n
      BY <3>1, <3>4
    <3>7. n * p \in Nat
      BY <3>1, <3>3
    <3>8. 63 + used + n * p <= drive.sectors
      BY <3>1, <3>2, <3>5, <3>7
    <3> QED BY <3>4, <3>6, <3>8
  <2>7. 63 + (mk.sz_rsv + mk.sz_fat + mk.sz_dir) = mk.b_vol + mk.sz_rsv + mk.sz_fat + mk.sz_dir
    BY <2>1, <2>5
  <2>8. fs = Geometry(SectorAt(disk, mk.b_vol)[2], mk.b_vol)
    BY <2>1, <2>3
  <2>9. fs.fatbase = mk.b_vol + mk.sz_rsv
        /\ fs.database = mk.b_vol + mk.sz_rsv + mk.sz_fat + mk.sz_dir
    BY <2>1, <2>4, <2>7
  <2> QED BY <2>1, <2>2, <2>4, <2>6, <2>8, <2>9
<1> QED BY <1>1, LayoutHolds, PTL

\* create_partition names the volume, by its sectors and by cylinder, head
\* and sector, on a drive of any size below 2^32 sectors.
THEOREM PartitionIsVolume ==
    ASSUME \A d \in Drives : IsReal(d)
    PROVE  LayoutSpec => []PartitionNamesVolume
<1>1. LayoutInv => PartitionNamesVolume
  <2> SUFFICES ASSUME LayoutInv, phase \in {"mount", "ready", "closed"}
               PROVE  LET p == disk[0][2]
                          final == p.StLba + p.SizLba - 1
                      IN  /\ p.StLba = mk.b_vol /\ p.SizLba = mk.sz_vol
                          /\ p.StLba + p.SizLba = drive.sectors
                          /\ Lba(p.start) = p.StLba
                          /\ final < 1024 * Heads * N_SEC_TRACK => Lba(p.end) = final
    BY DEF PartitionNamesVolume, Lba
  <2>1. IsReal(drive) /\ Made(mk) /\ Written /\ mk.b_vol = 63 /\ mk.sz_vol = drive.sectors - 63
    BY DEF LayoutInv, Made, BehindTrack
  <2>2. disk[0][2] = Partition
    BY <2>1, FoundBehindTable
  <2>3. drive.sectors \in Nat /\ drive.sectors >= 191
    BY <2>1, WrapAssumption DEF IsReal, Made, BehindTrack
  <2>4. Partition = [StLba |-> 63, SizLba |-> mk.sz_vol, System |-> System,
                     start |-> Chs(63), end |-> Chs(63 + mk.sz_vol - 1)]
    BY <2>1, <2>3 DEF Partition, N_SEC_TRACK
  <2>5. Heads \in {8, 16, 32, 64, 128, 255}
    BY <2>1, HeadsAre
  <2>6. Lba(Chs(63)) = 63
    <3>1. 63 < 1024 * Heads * N_SEC_TRACK
      BY <2>5 DEF N_SEC_TRACK
    <3> QED BY <2>5, <3>1, ChsNames
  <2>7. 63 + mk.sz_vol - 1 < 1024 * Heads * N_SEC_TRACK =>
            Lba(Chs(63 + mk.sz_vol - 1)) = 63 + mk.sz_vol - 1
    <3> DEFINE final == 63 + mk.sz_vol - 1
    <3>1. final \in Nat
      BY <2>1, <2>3
    <3> HIDE DEF final
    <3>2. final < 1024 * Heads * N_SEC_TRACK => Lba(Chs(final)) = final
      BY <2>5, <3>1, ChsNames
    <3> QED BY <3>2 DEF final
  <2>8. 63 + mk.sz_vol = drive.sectors
    BY <2>1, <2>3
  <2> QED BY <2>1, <2>2, <2>4, <2>6, <2>7, <2>8
<1> QED BY <1>1, LayoutHolds, PTL
-----------------------------------------------------------------------------
(* The areas of a mounted volume.                                         *)

\* One past the last sector of the last cluster.
VolumeEnd == fs.database + (fs.n_fatent - 2) * fs.csize

\* The largest number that an entry of the FAT can be.
Mark == IF fs.fs_type = "FAT12" THEN 4095
        ELSE IF fs.fs_type = "FAT16" THEN 65535 ELSE 268435455

\* The areas of a mounted volume, one behind the other.
Areas ==
    /\ IsReal(drive)
    /\ fs.fs_type \in {"FAT12", "FAT16", "FAT32"}
    /\ fs.csize \in ClusterSizes
    /\ fs.n_fatent \in Nat /\ fs.n_fatent >= 3 /\ fs.n_fatent <= Mark
    /\ fs.volbase = 63
    /\ fs.fatbase \in Nat /\ fs.fsize \in Nat /\ fs.database \in Nat /\ fs.dirbase \in Nat
    /\ fs.n_rootdir \in Nat
    /\ 63 < fs.fatbase
    /\ IF fs.fs_type = "FAT32"
       THEN /\ 70 < fs.fatbase /\ fs.dirbase = 2 /\ fs.n_rootdir = 0
            /\ fs.database = fs.fatbase + fs.fsize
       ELSE /\ fs.dirbase = fs.fatbase + fs.fsize /\ fs.n_rootdir = 512
            /\ fs.database = fs.dirbase + 32
    /\ szbfat(fs.fs_type, fs.n_fatent) <= 512 * fs.fsize
    /\ VolumeEnd \in Nat /\ VolumeEnd <= drive.sectors

\* Sectors of the FAT, of the tables of directories, and of clusters.
FatSector(s) == s \in Nat /\ fs.fatbase <= s /\ s < fs.fatbase + fs.fsize
TableSector(s) == s \in Nat /\ fs.fatbase + fs.fsize <= s /\ s < VolumeEnd
DataSector(s) == s \in Nat /\ fs.database <= s /\ s < VolumeEnd

LEMMA AreasFollow ==
    ASSUME \A d \in Drives : IsReal(d), LayoutInv, phase \in {"ready", "closed"}
    PROVE  Areas
<1> DEFINE g == Geometry(BootRecord, 63)
<1>1. IsReal(drive) /\ Made(mk) /\ fs = g /\ g.possible
  BY DEF LayoutInv
<1> HIDE DEF g
<1>2. /\ g.fs_type = mk.fsty /\ g.csize = mk.pau /\ g.n_fatent = mk.n_clst + 2
      /\ g.volbase = 63 /\ g.fatbase = 63 + mk.sz_rsv
      /\ g.fsize = mk.sz_fat /\ g.n_rootdir = (IF mk.fsty = "FAT32" THEN 0 ELSE 512)
      /\ g.dirbase = (IF mk.fsty = "FAT32" THEN 2 ELSE 63 + mk.sz_rsv + mk.sz_fat)
      /\ g.database = 63 + (mk.sz_rsv + mk.sz_fat + mk.sz_dir)
      /\ mk.n_clst # 0
  BY <1>1, GeometryIs DEF g
<1>3. /\ mk.n_clst \in Nat /\ mk.sz_fat \in Nat
      /\ mk.fsty \in {"FAT12", "FAT16", "FAT32"} /\ mk.pau \in ClusterSizes
      /\ mk.fsty = "FAT32" => mk.sz_rsv \in Nat /\ 32 <= mk.sz_rsv /\ mk.sz_dir = 0
      /\ mk.fsty # "FAT32" => mk.sz_rsv = 1 /\ mk.sz_dir = 32
      /\ szbfat(mk.fsty, mk.n_clst + 2) <= 512 * mk.sz_fat
      /\ mk.sz_rsv + mk.sz_fat + mk.sz_dir <= drive.sectors - 63
      /\ mk.n_clst = (drive.sectors - 63 - (mk.sz_rsv + mk.sz_fat + mk.sz_dir)) \div mk.pau
      /\ drive.sectors \in Nat
  BY <1>1, WrapAssumption DEF Made, BehindTrack, IsReal
<1>4. VolumeEnd \in Nat /\ VolumeEnd <= drive.sectors
  <2> DEFINE used == mk.sz_rsv + mk.sz_fat + mk.sz_dir
             n == mk.n_clst
             p == mk.pau
             v == drive.sectors - 63
  <2>1. used \in Nat /\ n \in Nat /\ v \in Nat /\ used <= v /\ n = (v - used) \div p
    BY <1>3
  <2>2. p \in {1, 2, 4, 8, 16, 32, 64, 128}
    BY <1>3, SizesAre
  <2>3. VolumeEnd = 63 + used + n * p
    <3>1. fs.n_fatent - 2 = n
      BY <1>1, <1>2, <1>3
    <3> QED BY <1>1, <1>2, <3>1 DEF VolumeEnd
  <2>4. drive.sectors = v + 63
    BY <1>3
  <2> HIDE DEF used, n, p, v
  <2>5. n * p \in Nat /\ n * p <= v - used
    BY <2>1, <2>2
  <2> QED BY <2>1, <2>3, <2>4, <2>5
<1>5. /\ fs.n_fatent \in Nat /\ fs.n_fatent >= 3
      /\ fs.fatbase \in Nat /\ 63 < fs.fatbase /\ fs.database \in Nat /\ fs.dirbase \in Nat
      /\ fs.fsize \in Nat /\ fs.n_rootdir \in Nat
  BY <1>1, <1>2, <1>3
<1>6. fs.n_fatent <= Mark
  BY <1>1, <1>2, <1>3 DEF Made, MAX_FAT32, Mark
<1> QED BY <1>1, <1>2, <1>3, <1>4, <1>5, <1>6 DEF Areas

\* Numbers of sectors are no mark for a sector that is not there.
LEMMA SectorsEnd ==
    ASSUME Areas
    PROVE  /\ drive.sectors \in Nat /\ NoSector \in Nat /\ drive.sectors <= NoSector
           /\ fs.database <= VolumeEnd
           /\ ss = 512 /\ Slots = 16
BY WrapAssumption, SizesAre DEF Areas, IsReal, NoSector, Unknown, ss, Slots, VolumeEnd

LEMMA ClustersAre ==
    ASSUME Areas
    PROVE  /\ Clusters \subseteq Nat /\ 0 \notin Clusters /\ 1 \notin Clusters /\ 2 \in Clusters
           /\ DiskError \notin Clusters
<1>1. fs.n_fatent - 2 <= VolumeEnd
  <2> DEFINE n == fs.n_fatent - 2
             p == fs.csize
  <2>1. n \in Nat /\ p \in {1, 2, 4, 8, 16, 32, 64, 128} /\ fs.database \in Nat
    BY SizesAre DEF Areas
  <2>2. VolumeEnd = fs.database + n * p
    BY DEF VolumeEnd
  <2> HIDE DEF n, p
  <2>3. n <= fs.database + n * p
    BY <2>1
  <2> QED BY <2>2, <2>3 DEF n
<1>2. fs.n_fatent \in Nat /\ fs.n_fatent >= 3
  BY DEF Areas
<1>3. fs.database >= 65 /\ fs.database \in Nat
  BY DEF Areas
<1>4. fs.n_fatent <= drive.sectors + 2 /\ drive.sectors <= DiskError
  BY <1>1, <1>2, SectorsEnd DEF Areas, NoSector, DiskError
<1>5. DiskError > fs.n_fatent - 1
  <2> DEFINE n == fs.n_fatent - 2
             p == fs.csize
  <2>1. n \in Nat /\ p \in {1, 2, 4, 8, 16, 32, 64, 128} /\ fs.database \in Nat
        /\ fs.database >= 65
    BY <1>3, SizesAre DEF Areas
  <2>2. VolumeEnd = fs.database + n * p
    BY DEF VolumeEnd
  <2>3. fs.n_fatent = n + 2
    BY <1>2
  <2> HIDE DEF n, p
  <2>4. n + 65 <= VolumeEnd
    BY <2>1, <2>2
  <2>5. VolumeEnd <= DiskError /\ VolumeEnd \in Nat /\ DiskError \in Nat
    BY SectorsEnd DEF Areas, NoSector, DiskError
  <2> QED BY <2>1, <2>3, <2>4, <2>5
<1> QED BY <1>2, <1>5 DEF Clusters

\* The sectors of a cluster.
LEMMA ClusterLies ==
    ASSUME Areas, NEW clst \in Clusters, NEW k \in 0 .. fs.csize - 1
    PROVE  /\ clst2sect(clst) \in Nat /\ clst2sect(clst) # 0
           /\ DataSector(clst2sect(clst) + k) /\ DataSector(clst2sect(clst))
<1> DEFINE n == fs.n_fatent
           p == fs.csize
           a == fs.database
<1>1. /\ clst \in 2 .. n - 1 /\ n \in Nat /\ p \in {1, 2, 4, 8, 16, 32, 64, 128}
      /\ a \in Nat /\ a # 0
  BY SizesAre DEF Areas, Clusters
<1>2. clst2sect(clst) = a + p * (clst - 2) /\ VolumeEnd = a + (n - 2) * p
  BY DEF clst2sect, VolumeEnd
<1>3. k \in 0 .. p - 1
  OBVIOUS
<1> HIDE DEF n, p, a
<1>4. p * (clst - 2) \in Nat /\ p * (clst - 2) + p <= (n - 2) * p
  BY <1>1
<1>5. /\ a + p * (clst - 2) \in Nat /\ a + p * (clst - 2) # 0
      /\ a <= a + p * (clst - 2) + k /\ a + p * (clst - 2) + k < a + (n - 2) * p
      /\ a <= a + p * (clst - 2) /\ a + p * (clst - 2) < a + (n - 2) * p
      /\ a + p * (clst - 2) + k \in Nat
  BY <1>1, <1>3, <1>4
<1> QED BY <1>2, <1>5 DEF DataSector, a

LEMMA NoClusterNoSector ==
    ASSUME NEW clst, clst \notin Clusters
    PROVE  clst2sect(clst) = 0
BY DEF clst2sect

\* Both bytes of an entry lie in the FAT.
LEMMA EntryLies ==
    ASSUME Areas, NEW clst \in Clusters
    PROVE  /\ FatOffset(clst) \in Nat
           /\ FatSector(fs.fatbase + FatOffset(clst) \div ss)
           /\ FatSector(fs.fatbase + (FatOffset(clst) + 1) \div ss)
<1> DEFINE n == fs.n_fatent
           size == fs.fsize
           base == fs.fatbase
           o == FatOffset(clst)
<1>1. clst \in 2 .. n - 1 /\ n \in Nat /\ size \in Nat /\ base \in Nat /\ ss = 512
  BY SectorsEnd DEF Areas, Clusters
<1>2. o \in Nat /\ o + 1 < szbfat(fs.fs_type, n) /\ szbfat(fs.fs_type, n) \in Nat
  <2>1. CASE fs.fs_type = "FAT32"
    <3>1. szbfat(fs.fs_type, n) = n * 4 /\ o = clst * 4
      BY <2>1 DEF szbfat, FatOffset
    <3> HIDE DEF o, n
    <3> QED BY <1>1, <3>1
  <2>2. CASE fs.fs_type = "FAT16"
    <3>1. szbfat(fs.fs_type, n) = n * 2 /\ o = clst * 2
      BY <2>2 DEF szbfat, FatOffset
    <3> HIDE DEF o, n
    <3> QED BY <1>1, <3>1
  <2>3. CASE fs.fs_type = "FAT12"
    <3>1. szbfat(fs.fs_type, n) = (n * 3) \div 2 + (n % 2) /\ o = clst + clst \div 2
      BY <2>3 DEF szbfat, FatOffset
    <3> HIDE DEF o, n
    <3>2. (n * 3) \div 2 = n + n \div 2
      BY <1>1
    <3>3. clst \div 2 < n \div 2 + (n % 2)
      BY <1>1
    <3> QED BY <1>1, <3>1, <3>2, <3>3
  <2> QED BY <2>1, <2>2, <2>3 DEF Areas
<1>3. szbfat(fs.fs_type, n) <= 512 * size
  BY DEF Areas
<1> HIDE DEF n, size, o, base
<1>4. o \div 512 \in 0 .. size - 1 /\ (o + 1) \div 512 \in 0 .. size - 1
  BY <1>1, <1>2, <1>3
<1> QED BY <1>1, <1>2, <1>4 DEF FatSector, base, size, o

\* What holds of 0 and of the next number holds of all.
LEMMA UpToInduction ==
    ASSUME NEW L \in Nat, NEW S, 0 \in S, \A k \in 0 .. L - 1 : k \in S => k + 1 \in S
    PROVE  0 .. L \subseteq S
<1> SUFFICES ASSUME NEW n \in 0 .. L, n \notin S PROVE FALSE
  OBVIOUS
<1> DEFINE T == {k \in 0 .. L : k \notin S}
           R == {p \in Nat \X Nat : p[1] < p[2]}
<1>1. IsWellFoundedOn(R, Nat)
  <2>1. OpToRel(<, Nat) = R
    BY DEF OpToRel
  <2> QED BY <2>1, NatLessThanWellFounded
<1>2. PICK x \in T : \A y \in T : <<y, x>> \notin R
  <2>1. T \subseteq Nat /\ n \in T
    OBVIOUS
  <2> HIDE DEF T, R
  <2> QED BY <1>1, <2>1, WFMin
<1>3. x \in 0 .. L /\ x \notin S /\ x # 0
  BY <1>2
<1>4. x - 1 \in 0 .. L - 1 /\ x - 1 < x /\ (x - 1) + 1 = x
  BY <1>3
<1>5. x - 1 \in S
  <2> SUFFICES ASSUME x - 1 \notin S PROVE FALSE
    OBVIOUS
  <2>1. x - 1 \in T
    BY <1>3, <1>4
  <2>2. <<x - 1, x>> \in R
    <3> DEFINE y == x - 1
    <3>1. y \in Nat /\ x \in Nat /\ y < x
      BY <1>3, <1>4
    <3> HIDE DEF y
    <3> QED BY <3>1
  <2> QED BY <1>2, <2>1, <2>2
<1> QED BY <1>3, <1>4, <1>5

-----------------------------------------------------------------------------
(* The entries of the FAT, from its bytes.                                 *)

FatPlaces == 0 .. 512 * fs.fsize - 1
EntryOf(B, c) == FatEntry(c, [i \in Bytes |-> B[FatOffset(c) + i]])

\* What put_fat makes of the bytes of an entry, or of those in places only.
Changed(B, c, places, val) ==
    [b \in FatPlaces |-> IF b - FatOffset(c) \in places
                         THEN EntryByte(c, b - FatOffset(c), B[b], val) ELSE B[b]]

LEMMA EntryPlaces ==
    ASSUME Areas, NEW c \in Clusters
    PROVE  /\ FatOffset(c) \in Nat
           /\ FatOffset(c) \in FatPlaces /\ FatOffset(c) + 1 \in FatPlaces
           /\ fs.fs_type = "FAT32" => /\ FatOffset(c) + 2 \in FatPlaces
                                      /\ FatOffset(c) + 3 \in FatPlaces
<1> DEFINE n == fs.n_fatent
           size == fs.fsize
<1>1. c \in 2 .. n - 1 /\ n \in Nat /\ size \in Nat
      /\ szbfat(fs.fs_type, n) <= 512 * size
  BY DEF Areas, Clusters
<1> HIDE DEF n, size
<1>2. CASE fs.fs_type = "FAT32"
  <2>1. szbfat(fs.fs_type, n) = n * 4 /\ FatOffset(c) = c * 4
    BY <1>2 DEF szbfat, FatOffset
  <2> QED BY <1>1, <2>1 DEF FatPlaces, size
<1>3. CASE fs.fs_type = "FAT16"
  <2>1. szbfat(fs.fs_type, n) = n * 2 /\ FatOffset(c) = c * 2
    BY <1>3 DEF szbfat, FatOffset
  <2> QED BY <1>1, <1>3, <2>1 DEF FatPlaces, size
<1>4. CASE fs.fs_type = "FAT12"
  <2>1. szbfat(fs.fs_type, n) = (n * 3) \div 2 + (n % 2) /\ FatOffset(c) = c + c \div 2
    BY <1>4 DEF szbfat, FatOffset
  <2>2. (n * 3) \div 2 = n + n \div 2 /\ c \div 2 < n \div 2 + (n % 2)
    BY <1>1
  <2> QED BY <1>1, <1>4, <2>1, <2>2 DEF FatPlaces, size
<1> QED BY <1>2, <1>3, <1>4 DEF Areas

\* A byte and a half of two bytes.
LEMMA Nibbles ==
    ASSUME NEW a \in 0 .. 255, NEW b \in 0 .. 255
    PROVE  /\ (a + 256 * b) \div 16 = a \div 16 + 16 * b
           /\ (a + 256 * b) % 4096 = a + 256 * (b % 16)
<1>1. (a + 256 * b) \div 16 = a \div 16 + 16 * b
  OBVIOUS
<1>2. (a + 256 * b) % 4096 = a + 256 * (b % 16)
  <2> DEFINE q == b \div 16
             r == b % 16
  <2>1. q \in Nat /\ r \in 0 .. 15 /\ b = 16 * q + r
    OBVIOUS
  <2> HIDE DEF q, r
  <2>2. a + 256 * b = 4096 * q + (a + 256 * r) /\ a + 256 * r \in 0 .. 4095
    BY <2>1
  <2>3. (4096 * q + (a + 256 * r)) % 4096 = a + 256 * r
    BY <2>1, <2>2
  <2> QED BY <2>2, <2>3 DEF r
<1> QED BY <1>1, <1>2

\* An entry in terms of its bytes.
LEMMA EntryIs ==
    ASSUME Areas, NEW c \in Clusters, NEW B \in [FatPlaces -> 0 .. 255]
    PROVE  LET o == FatOffset(c)
           IN  EntryOf(B, c) =
                  IF fs.fs_type = "FAT32"
                  THEN B[o] + 256 * B[o + 1] + 65536 * (B[o + 2] + 256 * (B[o + 3] % 16))
                  ELSE IF fs.fs_type = "FAT16" THEN B[o] + 256 * B[o + 1]
                  ELSE IF c % 2 = 1 THEN B[o] \div 16 + 16 * B[o + 1]
                  ELSE B[o] + 256 * (B[o + 1] % 16)
<1> DEFINE o == FatOffset(c)
           byte == [i \in Bytes |-> B[o + i]]
<1>1. o \in Nat /\ o \in FatPlaces /\ o + 1 \in FatPlaces
  BY EntryPlaces
<1>2. B[o] \in 0 .. 255 /\ B[o + 1] \in 0 .. 255
  BY <1>1
<1>3. byte[0] = B[o] /\ byte[1] = B[o + 1]
  BY <1>1 DEF Bytes
<1>4. CASE fs.fs_type = "FAT32"
  <2>1. byte[2] = B[o + 2] /\ byte[3] = B[o + 3]
    BY <1>4 DEF Bytes
  <2> HIDE DEF byte, o
  <2> QED BY <1>3, <1>4, <2>1 DEF EntryOf, FatEntry, o, byte
<1>5. CASE fs.fs_type = "FAT16"
  <2> HIDE DEF byte, o
  <2> QED BY <1>3, <1>5 DEF EntryOf, FatEntry, o, byte
<1>6. CASE fs.fs_type = "FAT12"
  <2> DEFINE wc == B[o] + 256 * B[o + 1]
  <2>1. EntryOf(B, c) = IF c % 2 = 1 THEN wc \div 16 ELSE wc % 4096
    <3> HIDE DEF byte, o
    <3> QED BY <1>3, <1>6 DEF EntryOf, FatEntry, o, byte
  <2>2. /\ wc \div 16 = B[o] \div 16 + 16 * B[o + 1]
        /\ wc % 4096 = B[o] + 256 * (B[o + 1] % 16)
    <3> DEFINE x == B[o]
               y == B[o + 1]
    <3>1. x \in 0 .. 255 /\ y \in 0 .. 255
      BY <1>2
    <3> HIDE DEF x, y
    <3>2. (x + 256 * y) \div 16 = x \div 16 + 16 * y /\ (x + 256 * y) % 4096 = x + 256 * (y % 16)
      BY <3>1, Nibbles
    <3> QED BY <3>2 DEF x, y
  <2> QED BY <1>6, <2>1, <2>2
<1> QED BY <1>4, <1>5, <1>6 DEF Areas

\* A number below 2^28 in four bytes, the last one of half a byte.
LEMMA FourBytes ==
    ASSUME NEW v \in Nat, v <= 268435455
    PROVE  /\ v = (v % 256) + 256 * ((v \div 256) % 256)
                  + 65536 * (((v \div 65536) % 256) + 256 * ((v \div 16777216) % 16))
           /\ ((v \div 16777216) % 256) % 16 = (v \div 16777216) % 16
           /\ v % 65536 = (v % 256) + 256 * ((v \div 256) % 256)
           /\ v % 4096 = (v % 256) + 256 * (((v \div 256) % 256) % 16)
           /\ v % 4096 = (v % 16) + 16 * ((v \div 16) % 256)
<1> DEFINE a == v % 16
           b == (v \div 16) % 16
           c == (v \div 256) % 16
           d == (v \div 4096) % 16
           e == (v \div 65536) % 256
           g == v \div 16777216
<1>1. /\ a \in 0 .. 15 /\ b \in 0 .. 15 /\ c \in 0 .. 15 /\ d \in 0 .. 15 /\ e \in 0 .. 255
      /\ g \in 0 .. 15
      /\ v = a + 16 * b + 256 * c + 4096 * d + 65536 * e + 16777216 * g
  <2> DEFINE w == v \div 16
             x == v \div 256
             y == v \div 4096
             z == v \div 65536
  <2>1. /\ v = 16 * w + (v % 16) /\ w = 16 * x + (w % 16) /\ x = 16 * y + (x % 16)
        /\ y = 16 * z + (y % 16) /\ z = 256 * g + (z % 256)
        /\ v \in Nat /\ w \in Nat /\ x \in Nat /\ y \in Nat /\ z \in Nat /\ g \in Nat
    BY SMTT(20)
  <2>2. g <= 15
    BY SMTT(20)
  <2> HIDE DEF w, x, y, z
  <2>3. a \in 0 .. 15 /\ w % 16 \in 0 .. 15 /\ x % 16 \in 0 .. 15 /\ y % 16 \in 0 .. 15
        /\ z % 256 \in 0 .. 255
    BY <2>1, SMTT(20)
  <2> QED BY <2>1, <2>2, <2>3, SMTT(20) DEF w, x, y, z
<1> HIDE DEF a, b, c, d, e, g
<1>2. v % 256 = a + 16 * b /\ v % 16 = a
  BY <1>1, SMTT(20)
<1>3. v \div 256 = c + 16 * d + 256 * e + 65536 * g /\ (v \div 256) % 256 = c + 16 * d
  BY <1>1, SMTT(20)
<1>4. v \div 65536 = e + 256 * g /\ (v \div 65536) % 256 = e
  BY <1>1, SMTT(20)
<1>5. v \div 16777216 = g
  BY <1>1, SMTT(20)
<1>6. v \div 16 = b + 16 * c + 256 * d + 4096 * e + 1048576 * g
      /\ (v \div 16) % 256 = b + 16 * c
  BY <1>1, SMTT(20)
<1>7. v % 65536 = a + 16 * b + 256 * c + 4096 * d /\ v % 4096 = a + 16 * b + 256 * c
  BY <1>1, SMTT(20)
<1>8. (c + 16 * d) % 16 = c
  BY <1>1, SMTT(20)
<1>9. g % 256 = g /\ g % 16 = g
  BY <1>1, SMTT(20)
<1> QED BY <1>1, <1>2, <1>3, <1>4, <1>5, <1>6, <1>7, <1>8, <1>9, SMTT(20)

\* A number in its digits, of which an entry of FAT32 keeps half the last one.
LEMMA DigitsFit ==
    ASSUME NEW v \in Nat
    PROVE  /\ Digit(v, 0) \in 0 .. 255 /\ Digit(v, 1) \in 0 .. 255
           /\ Digit(v, 2) \in 0 .. 255 /\ Digit(v, 3) \in 0 .. 255
           /\ v <= EndOfChain => v = Digit(v, 0) + 256 * Digit(v, 1)
                                     + 65536 * (Digit(v, 2) + 256 * (Digit(v, 3) % 16))
           /\ v <= EndOfChain => v % 65536 = Digit(v, 0) + 256 * Digit(v, 1)
           /\ v <= EndOfChain => v % 4096 = Digit(v, 0) + 256 * (Digit(v, 1) % 16)
           /\ v <= EndOfChain => v % 4096 = (v % 16) + 16 * ((v \div 16) % 256)
<1>1. v \div 1 = v
  OBVIOUS
<1>2. ASSUME NEW w, w = <<1, 256, 65536, 16777216>>
      PROVE  w[0 + 1] = 1 /\ w[1 + 1] = 256 /\ w[2 + 1] = 65536 /\ w[3 + 1] = 16777216
  BY <1>2, SMT
<1>3. /\ Digit(v, 0) = v % 256 /\ Digit(v, 1) = (v \div 256) % 256
      /\ Digit(v, 2) = (v \div 65536) % 256 /\ Digit(v, 3) = (v \div 16777216) % 256
  BY <1>1, <1>2, SMT DEF Digit
<1>4. v % 256 \in 0 .. 255 /\ (v \div 256) % 256 \in 0 .. 255
      /\ (v \div 65536) % 256 \in 0 .. 255 /\ (v \div 16777216) % 256 \in 0 .. 255
  BY SMT
<1>5. ASSUME v <= EndOfChain
      PROVE  v = (v % 256) + 256 * ((v \div 256) % 256)
                 + 65536 * (((v \div 65536) % 256) + 256 * ((v \div 16777216) % 16))
  BY <1>5, FourBytes, SMT DEF EndOfChain
<1>6. v <= EndOfChain => ((v \div 16777216) % 256) % 16 = (v \div 16777216) % 16
  BY FourBytes, SMT DEF EndOfChain
<1>7. v <= EndOfChain => v % 65536 = (v % 256) + 256 * ((v \div 256) % 256)
  BY FourBytes, SMT DEF EndOfChain
<1>8. v <= EndOfChain => v % 4096 = (v % 256) + 256 * (((v \div 256) % 256) % 16)
  BY FourBytes, SMT DEF EndOfChain
<1>9. v <= EndOfChain => v % 4096 = (v % 16) + 16 * ((v \div 16) % 256)
  BY FourBytes, SMT DEF EndOfChain
<1> QED BY <1>3, <1>4, <1>5, <1>6, <1>7, <1>8, <1>9, SMT

LEMMA EntryByteFits ==
    ASSUME Areas, NEW c \in Nat, NEW i \in Bytes, NEW x \in 0 .. 255, NEW v \in Nat
    PROVE  EntryByte(c, i, x, v) \in 0 .. 255
<1>1. Digit(v, 0) \in 0 .. 255 /\ Digit(v, 1) \in 0 .. 255 /\ Digit(v, 2) \in 0 .. 255
      /\ Digit(v, 3) \in 0 .. 255
  BY DigitsFit, SMT
<1>2. (x % 16) + 16 * (v % 16) \in 0 .. 255 /\ (v \div 16) % 256 \in 0 .. 255
  BY SMT
<1>3. \A n \in 0 .. 255 : 16 * (x \div 16) + (n % 16) \in 0 .. 255
  BY SMT
<1>4. i \in 0 .. 3 /\ (fs.fs_type # "FAT32" => i \in 0 .. 1)
  BY SMT DEF Bytes
<1>5. fs.fs_type \in {"FAT12", "FAT16", "FAT32"}
  BY DEF Areas
<1> DEFINE low == Digit(v, i)
<1>6. low \in 0 .. 255
  BY <1>1, <1>4
<1> HIDE DEF low
<1>7. 16 * (x \div 16) + (low % 16) \in 0 .. 255
  BY <1>3, <1>6
<1>8. EntryByte(c, i, x, v) \in {(x % 16) + 16 * (v % 16), (v \div 16) % 256,
                                 16 * (x \div 16) + (low % 16), low}
  BY SMT DEF EntryByte, low
<1> QED BY <1>2, <1>6, <1>7, <1>8

LEMMA ChangedFits ==
    ASSUME Areas, NEW c \in Clusters, NEW B \in [FatPlaces -> 0 .. 255], NEW v \in Nat,
           NEW places \in SUBSET Bytes
    PROVE  Changed(B, c, places, v) \in [FatPlaces -> 0 .. 255]
<1> SUFFICES ASSUME NEW b \in FatPlaces
             PROVE  (IF b - FatOffset(c) \in places
                     THEN EntryByte(c, b - FatOffset(c), B[b], v) ELSE B[b]) \in 0 .. 255
  BY DEF Changed
<1>1. B[b] \in 0 .. 255 /\ c \in Nat
  BY ClustersAre
<1> DEFINE i == b - FatOffset(c)
<1>2. i \in places => i \in Bytes
  OBVIOUS
<1> HIDE DEF i
<1>3. i \in places => EntryByte(c, i, B[b], v) \in 0 .. 255
  BY <1>1, <1>2, EntryByteFits
<1> QED BY <1>1, <1>3 DEF i

\* What put_fat writes: no cluster, another one, or an end.
Entered(v) == IF v = EndOfChain THEN Mark ELSE v

LEMMA PutEntryOwn ==
    ASSUME Areas, NEW c \in Clusters, NEW B \in [FatPlaces -> 0 .. 255],
           NEW v \in Clusters \cup {0, EndOfChain}
    PROVE  EntryOf(Changed(B, c, Bytes, v), c) = Entered(v)
<1> DEFINE D == Changed(B, c, Bytes, v)
           o == FatOffset(c)
<1>1. v \in Nat /\ v <= EndOfChain /\ c \in Nat /\ (v # EndOfChain => v <= Mark)
  BY SMT DEF Areas, Mark, Clusters, EndOfChain
<1>2. D \in [FatPlaces -> 0 .. 255]
  <2>1. Bytes \in SUBSET Bytes
    BY SMT
  <2> QED BY <1>1, <2>1, ChangedFits, SMT
<1>3. /\ o \in Nat /\ o \in FatPlaces /\ o + 1 \in FatPlaces
      /\ fs.fs_type = "FAT32" => o + 2 \in FatPlaces /\ o + 3 \in FatPlaces
  BY EntryPlaces, SMT
<1>4. ASSUME NEW i \in Bytes, o + i \in FatPlaces
      PROVE  D[o + i] = EntryByte(c, i, B[o + i], v) /\ B[o + i] \in 0 .. 255
  <2>1. (o + i) - o = i
    BY <1>3, SMT DEF Bytes
  <2> QED BY <1>4, <2>1, SMT DEF Changed
<1>5. Digit(v, 0) \in 0 .. 255 /\ Digit(v, 1) \in 0 .. 255 /\ Digit(v, 3) \in 0 .. 255
  BY <1>1, DigitsFit, SMT
<1>6. Entered(v) = IF fs.fs_type = "FAT12" THEN v % 4096
                   ELSE IF fs.fs_type = "FAT16" THEN v % 65536 ELSE v
  BY <1>1, SMT DEF Entered, Mark, EndOfChain
<1>7. o + 0 = o /\ 0 \in Bytes /\ 1 \in Bytes
  BY <1>3, SMT DEF Bytes
<1>8. /\ EntryOf(D, c) = IF fs.fs_type = "FAT32"
                         THEN D[o] + 256 * D[o + 1] + 65536 * (D[o + 2] + 256 * (D[o + 3] % 16))
                         ELSE IF fs.fs_type = "FAT16" THEN D[o] + 256 * D[o + 1]
                         ELSE IF c % 2 = 1 THEN D[o] \div 16 + 16 * D[o + 1]
                         ELSE D[o] + 256 * (D[o + 1] % 16)
  BY <1>2, EntryIs, SMT
<1>9. /\ D[o] = EntryByte(c, 0, B[o], v) /\ B[o] \in 0 .. 255
      /\ D[o + 1] = EntryByte(c, 1, B[o + 1], v) /\ B[o + 1] \in 0 .. 255
  BY <1>3, <1>4, <1>7, SMT
<1>10. CASE fs.fs_type = "FAT32"
  <2>1. 2 \in Bytes /\ 3 \in Bytes
    BY <1>10, SMT DEF Bytes
  <2>2. /\ D[o + 2] = EntryByte(c, 2, B[o + 2], v) /\ B[o + 2] \in 0 .. 255
        /\ D[o + 3] = EntryByte(c, 3, B[o + 3], v) /\ B[o + 3] \in 0 .. 255
    BY <1>3, <1>4, <1>10, <2>1, SMT
  <2> DEFINE d == Digit(v, 3)
             x == B[o + 3]
  <2>3. /\ D[o] = Digit(v, 0) /\ D[o + 1] = Digit(v, 1) /\ D[o + 2] = Digit(v, 2)
        /\ D[o + 3] = 16 * (x \div 16) + (d % 16) /\ x \in 0 .. 255 /\ d \in 0 .. 255
    BY <1>1, <1>5, <1>9, <1>10, <2>2, SMT DEF EntryByte
  <2>4. v = Digit(v, 0) + 256 * Digit(v, 1) + 65536 * (Digit(v, 2) + 256 * (d % 16))
    BY <1>1, DigitsFit, SMT
  <2> HIDE DEF D, o, x, d
  <2>5. D[o + 3] % 16 = d % 16
    BY <2>3, SMT
  <2>6. EntryOf(D, c) = v
    BY <1>8, <1>10, <2>3, <2>4, <2>5, SMT
  <2> QED BY <1>6, <1>10, <2>6, SMT DEF D
<1>11. CASE fs.fs_type = "FAT16"
  <2>1. D[o] = Digit(v, 0) /\ D[o + 1] = Digit(v, 1)
    BY <1>1, <1>9, <1>11, SMT DEF EntryByte
  <2>2. v % 65536 = Digit(v, 0) + 256 * Digit(v, 1)
    BY <1>1, DigitsFit, SMT
  <2> HIDE DEF D, o
  <2>3. EntryOf(D, c) = v % 65536
    BY <1>8, <1>11, <2>1, <2>2, SMT
  <2> QED BY <1>6, <1>11, <2>3, SMT DEF D
<1>12. CASE fs.fs_type = "FAT12" /\ c % 2 = 1
  <2> DEFINE x == B[o]
  <2>1. D[o] = (x % 16) + 16 * (v % 16) /\ D[o + 1] = (v \div 16) % 256 /\ x \in 0 .. 255
    BY <1>1, <1>9, <1>12, SMT DEF EntryByte
  <2>2. v % 4096 = (v % 16) + 16 * ((v \div 16) % 256)
    BY <1>1, FourBytes, SMT DEF EndOfChain
  <2> HIDE DEF D, o, x
  <2>3. D[o] \div 16 = v % 16
    BY <1>1, <2>1, SMT
  <2> QED BY <1>6, <1>8, <1>12, <2>1, <2>2, <2>3, SMT DEF D
<1>13. CASE fs.fs_type = "FAT12" /\ c % 2 # 1
  <2> DEFINE d == Digit(v, 1)
             x == B[o + 1]
  <2>1. /\ D[o] = Digit(v, 0) /\ D[o + 1] = 16 * (x \div 16) + (d % 16)
        /\ x \in 0 .. 255 /\ d \in 0 .. 255
    BY <1>1, <1>5, <1>9, <1>13, SMT DEF EntryByte
  <2>2. v % 4096 = Digit(v, 0) + 256 * (d % 16)
    BY <1>1, DigitsFit, SMT
  <2> HIDE DEF D, o, x, d
  <2>3. D[o + 1] % 16 = d % 16
    BY <2>1, SMT
  <2> QED BY <1>6, <1>8, <1>13, <2>1, <2>2, <2>3, SMT DEF D
<1> QED BY <1>10, <1>11, <1>12, <1>13, SMT DEF Areas

\* The bytes of an entry that are not written, and those of another entry.
LEMMA OtherBytes ==
    ASSUME Areas, NEW c \in Clusters, NEW B, NEW v, NEW places \in SUBSET Bytes,
           NEW b \in FatPlaces, b - FatOffset(c) \notin places
    PROVE  Changed(B, c, places, v)[b] = B[b]
BY DEF Changed

LEMMA PutEntryOthers ==
    ASSUME Areas, NEW c \in Clusters, NEW e \in Clusters, c # e,
           NEW B \in [FatPlaces -> 0 .. 255], NEW v \in Nat, NEW places \in SUBSET Bytes
    PROVE  EntryOf(Changed(B, c, places, v), e) = EntryOf(B, e)
<1> DEFINE D == Changed(B, c, places, v)
           o == FatOffset(e)
           p == FatOffset(c)
<1> SUFFICES EntryOf(D, e) = EntryOf(B, e)
  OBVIOUS
<1>1. /\ o \in Nat /\ o \in FatPlaces /\ o + 1 \in FatPlaces
      /\ fs.fs_type = "FAT32" => o + 2 \in FatPlaces /\ o + 3 \in FatPlaces
  BY EntryPlaces
<1>2. D \in [FatPlaces -> 0 .. 255]
  BY ChangedFits
<1>3. /\ EntryOf(D, e) = IF fs.fs_type = "FAT32"
                         THEN D[o] + 256 * D[o + 1] + 65536 * (D[o + 2] + 256 * (D[o + 3] % 16))
                         ELSE IF fs.fs_type = "FAT16" THEN D[o] + 256 * D[o + 1]
                         ELSE IF e % 2 = 1 THEN D[o] \div 16 + 16 * D[o + 1]
                         ELSE D[o] + 256 * (D[o + 1] % 16)
      /\ EntryOf(B, e) = IF fs.fs_type = "FAT32"
                         THEN B[o] + 256 * B[o + 1] + 65536 * (B[o + 2] + 256 * (B[o + 3] % 16))
                         ELSE IF fs.fs_type = "FAT16" THEN B[o] + 256 * B[o + 1]
                         ELSE IF e % 2 = 1 THEN B[o] \div 16 + 16 * B[o + 1]
                         ELSE B[o] + 256 * (B[o + 1] % 16)
  BY <1>2, EntryIs
<1>4. c \in Nat /\ e \in Nat /\ p \in Nat
  BY ClustersAre, EntryPlaces
<1>5. \A b \in FatPlaces : b - p \notin Bytes => D[b] = B[b]
  BY OtherBytes
<1>6. CASE fs.fs_type = "FAT32"
  <2>1. o = e * 4 /\ p = c * 4 /\ Bytes = 0 .. 3
    BY <1>6 DEF FatOffset, Bytes
  <2>2. o - p \notin 0 .. 3 /\ (o + 1) - p \notin 0 .. 3 /\ (o + 2) - p \notin 0 .. 3
        /\ (o + 3) - p \notin 0 .. 3
    <3> HIDE DEF o, p
    <3> QED BY <1>4, <2>1, SMT
  <2>3. D[o] = B[o] /\ D[o + 1] = B[o + 1] /\ D[o + 2] = B[o + 2] /\ D[o + 3] = B[o + 3]
    <3> HIDE DEF o, p, D
    <3> QED BY <1>1, <1>5, <1>6, <2>1, <2>2
  <2> HIDE DEF D, o
  <2> QED BY <1>3, <1>6, <2>3, SMT
<1>7. CASE fs.fs_type = "FAT16"
  <2>1. o = e * 2 /\ p = c * 2 /\ Bytes = 0 .. 1
    BY <1>7 DEF FatOffset, Bytes
  <2>2. o - p \notin 0 .. 1 /\ (o + 1) - p \notin 0 .. 1
    <3> HIDE DEF o, p
    <3> QED BY <1>4, <2>1, SMT
  <2>3. D[o] = B[o] /\ D[o + 1] = B[o + 1]
    <3> HIDE DEF o, p, D
    <3> QED BY <1>1, <1>5, <2>1, <2>2
  <2>4. fs.fs_type # "FAT32"
    BY <1>7
  <2> HIDE DEF D, o
  <2> QED BY <1>3, <1>7, <2>3, <2>4, SMT
<1>8. CASE fs.fs_type = "FAT12"
  <2>1. o = e + e \div 2 /\ p = c + c \div 2 /\ Bytes = 0 .. 1 /\ places \subseteq 0 .. 1
    BY <1>8 DEF FatOffset, Bytes
  <2>2. B[o] \in 0 .. 255 /\ B[o + 1] \in 0 .. 255
    BY <1>1
  <2>3. CASE e % 2 = 1
    <3>1. (o + 1) - p \notin 0 .. 1
      <4> HIDE DEF o, p
      <4> QED BY <1>4, <2>1, <2>3, SMT
    <3>2. D[o + 1] = B[o + 1]
      <4> HIDE DEF o, p, D
      <4> QED BY <1>1, <1>5, <2>1, <3>1
    <3>3. o - p \in 0 .. 1 => o - p = 1 /\ c % 2 # 1
      <4> HIDE DEF o, p
      <4> QED BY <1>4, <2>1, <2>3, SMT
    <3>4. D[o] \div 16 = B[o] \div 16
      <4>1. CASE o - p \notin places
        BY <1>1, <4>1, OtherBytes
      <4>2. CASE o - p \in places
        <5>1. o - p = 1 /\ c % 2 # 1
          BY <2>1, <3>3, <4>2
        <5>2. D[o] = EntryByte(c, 1, B[o], v)
          BY <1>1, <4>2, <5>1 DEF Changed
        <5> DEFINE x == B[o]
                   d == Digit(v, 1)
        <5>3. D[o] = 16 * (x \div 16) + (d % 16) /\ x \in 0 .. 255 /\ d \in 0 .. 255
          BY <1>8, <2>2, <5>1, <5>2, DigitsFit, SMT DEF EntryByte
        <5> HIDE DEF x, d, D, o
        <5>4. D[o] \div 16 = x \div 16
          BY <5>3, SMT
        <5> QED BY <5>4 DEF x
      <4> QED BY <4>1, <4>2
    <3>5. fs.fs_type # "FAT32" /\ fs.fs_type # "FAT16"
      BY <1>8
    <3> HIDE DEF D, o
    <3> QED BY <1>3, <2>3, <3>2, <3>4, <3>5, SMT
  <2>4. CASE e % 2 # 1
    <3>1. o - p \notin 0 .. 1
      <4> HIDE DEF o, p
      <4> QED BY <1>4, <2>1, <2>4, SMT
    <3>2. D[o] = B[o]
      <4> HIDE DEF o, p, D
      <4> QED BY <1>1, <1>5, <2>1, <3>1
    <3>3. (o + 1) - p \in 0 .. 1 => (o + 1) - p = 0 /\ c % 2 = 1
      <4> HIDE DEF o, p
      <4> QED BY <1>4, <2>1, <2>4, SMT
    <3>4. D[o + 1] % 16 = B[o + 1] % 16
      <4> DEFINE b == o + 1
      <4>1. b \in FatPlaces /\ b = o + 1
        BY <1>1
      <4> HIDE DEF b
      <4>2. CASE (o + 1) - p \notin places
        BY <4>1, <4>2, OtherBytes
      <4>3. CASE (o + 1) - p \in places
        <5>1. (o + 1) - p = 0 /\ c % 2 = 1
          BY <2>1, <3>3, <4>3
        <5>2. D[o + 1] = EntryByte(c, 0, B[o + 1], v)
          <6>1. b - p = 0 /\ b - p \in places
            BY <4>1, <4>3, <5>1
          <6>2. D[b] = EntryByte(c, b - p, B[b], v)
            BY <4>1, <6>1 DEF Changed
          <6> QED BY <4>1, <6>1, <6>2
        <5> DEFINE x == B[o + 1]
        <5>3. D[o + 1] = (x % 16) + 16 * (v % 16) /\ x \in 0 .. 255
          BY <1>8, <2>2, <5>1, <5>2, SMT DEF EntryByte
        <5> HIDE DEF x, D, o
        <5>4. D[o + 1] % 16 = x % 16
          BY <5>3, SMT
        <5> QED BY <5>4 DEF x
      <4> QED BY <4>2, <4>3
    <3>5. fs.fs_type # "FAT32" /\ fs.fs_type # "FAT16"
      BY <1>8
    <3> HIDE DEF D, o
    <3> QED BY <1>3, <2>4, <3>2, <3>4, <3>5, SMT
  <2> QED BY <2>3, <2>4
<1> QED BY <1>6, <1>7, <1>8 DEF Areas

LEMMA EntryFits ==
    ASSUME Areas, NEW c \in Clusters, NEW B \in [FatPlaces -> 0 .. 255]
    PROVE  EntryOf(B, c) \in Nat /\ EntryOf(B, c) <= Mark
<1> DEFINE o == FatOffset(c)
<1>1. /\ B[o] \in 0 .. 255 /\ B[o + 1] \in 0 .. 255
      /\ fs.fs_type = "FAT32" => B[o + 2] \in 0 .. 255 /\ B[o + 3] \in 0 .. 255
  BY EntryPlaces
<1>2. EntryOf(B, c) = IF fs.fs_type = "FAT32"
                      THEN B[o] + 256 * B[o + 1] + 65536 * (B[o + 2] + 256 * (B[o + 3] % 16))
                      ELSE IF fs.fs_type = "FAT16" THEN B[o] + 256 * B[o + 1]
                      ELSE IF c % 2 = 1 THEN B[o] \div 16 + 16 * B[o + 1]
                      ELSE B[o] + 256 * (B[o + 1] % 16)
  BY EntryIs
<1> DEFINE x == B[o]
           y == B[o + 1]
           z == B[o + 2]
           w == B[o + 3]
           n == EntryOf(B, c)
<1> HIDE DEF x, y, z, w, n, o
<1>3. /\ x \in 0 .. 255 /\ y \in 0 .. 255
      /\ fs.fs_type = "FAT32" => z \in 0 .. 255 /\ w \in 0 .. 255
  BY <1>1 DEF x, y, z, w
<1>4. n = IF fs.fs_type = "FAT32" THEN x + 256 * y + 65536 * (z + 256 * (w % 16))
          ELSE IF fs.fs_type = "FAT16" THEN x + 256 * y
          ELSE IF c % 2 = 1 THEN x \div 16 + 16 * y ELSE x + 256 * (y % 16)
  BY <1>2, SMT DEF x, y, z, w, n
<1>5. n \in Nat /\ n <= Mark
  <2>1. fs.fs_type \in {"FAT12", "FAT16", "FAT32"}
    BY DEF Areas
  <2>2. ASSUME fs.fs_type = "FAT32" PROVE n \in Nat /\ n <= 268435455
    <3> DEFINE k == w % 16
    <3>1. k \in 0 .. 15
      BY <1>3, <2>2, SMT
    <3>2. n = x + 256 * y + 65536 * (z + 256 * k)
      BY <1>4, <2>2, SMT
    <3> HIDE DEF k
    <3>3. x \in 0 .. 255 /\ y \in 0 .. 255 /\ z \in 0 .. 255
      BY <1>3, <2>2
    <3> DEFINE low == x + 256 * y
               high == z + 256 * k
    <3>4. low \in Nat /\ low <= 65535 /\ high \in Nat /\ high <= 4095
      BY <3>1, <3>3, SMT
    <3>5. n = low + 65536 * high
      BY <3>2
    <3> HIDE DEF low, high
    <3>6. low + 65536 * high \in Nat /\ low + 65536 * high <= 268435455
      BY <3>4, Z3
    <3> QED BY <3>5, <3>6
  <2>3. ASSUME fs.fs_type = "FAT16" PROVE n \in Nat /\ n <= 65535
    <3>1. n = x + 256 * y
      BY <1>4, <2>3, SMT
    <3> QED BY <1>3, <3>1, SMT
  <2>4. ASSUME fs.fs_type = "FAT12" PROVE n \in Nat /\ n <= 4095
    BY <1>3, <1>4, <2>4, SMT
  <2>5. Mark = IF fs.fs_type = "FAT12" THEN 4095
               ELSE IF fs.fs_type = "FAT16" THEN 65535 ELSE 268435455
    BY DEF Mark
  <2>6. CASE fs.fs_type = "FAT32"
    BY <2>2, <2>5, <2>6, SMT
  <2>7. CASE fs.fs_type = "FAT16"
    BY <2>3, <2>5, <2>7, SMT
  <2>8. CASE fs.fs_type = "FAT12"
    BY <2>4, <2>5, <2>8, SMT
  <2> QED BY <2>1, <2>6, <2>7, <2>8
<1> QED BY <1>5 DEF n

\* The first byte of an entry of FAT12 does not make a cluster of an end.
LEMMA HalfEntryStays ==
    ASSUME Areas, NEW c \in Clusters, NEW B \in [FatPlaces -> 0 .. 255], NEW v \in Nat,
           fs.fs_type = "FAT12", HalfEntry <= EntryOf(B, c)
    PROVE  HalfEntry <= EntryOf(Changed(B, c, {0}, v), c)
<1> DEFINE D == Changed(B, c, {0}, v)
           o == FatOffset(c)
<1>1. D \in [FatPlaces -> 0 .. 255]
  <2>1. {0} \in SUBSET Bytes
    BY DEF Bytes
  <2> QED BY <2>1, ChangedFits
<1>2. o \in Nat /\ o \in FatPlaces /\ o + 1 \in FatPlaces
  BY EntryPlaces
<1>3. D[o + 1] = B[o + 1]
  <2>1. (o + 1) - o \notin {0} /\ {0} \in SUBSET Bytes
    BY <1>2 DEF Bytes
  <2> QED BY <1>2, <2>1, OtherBytes
<1>4. D[o] \in 0 .. 255 /\ B[o] \in 0 .. 255 /\ B[o + 1] \in 0 .. 255
  BY <1>1, <1>2
<1>5. /\ EntryOf(D, c) = IF c % 2 = 1 THEN D[o] \div 16 + 16 * D[o + 1]
                         ELSE D[o] + 256 * (D[o + 1] % 16)
      /\ EntryOf(B, c) = IF c % 2 = 1 THEN B[o] \div 16 + 16 * B[o + 1]
                         ELSE B[o] + 256 * (B[o + 1] % 16)
  BY <1>1, EntryIs
<1> DEFINE x == D[o]
           y == B[o + 1]
           z == B[o]
           n == EntryOf(B, c)
           m == EntryOf(D, c)
<1> HIDE DEF x, y, z, n, m, o
<1>6. x \in 0 .. 255 /\ y \in 0 .. 255 /\ z \in 0 .. 255
  BY <1>4 DEF x, y, z
<1>7. /\ m = IF c % 2 = 1 THEN x \div 16 + 16 * y ELSE x + 256 * (y % 16)
      /\ n = IF c % 2 = 1 THEN z \div 16 + 16 * y ELSE z + 256 * (y % 16)
  BY <1>3, <1>5, SMT DEF x, y, z, n, m
<1>8. HalfEntry = 3840 /\ HalfEntry <= n
  BY SMT DEF HalfEntry, n
<1>9. HalfEntry <= m
  BY <1>6, <1>7, <1>8, SMT
<1> QED BY <1>9 DEF m

\* The bytes of an entry in two steps.
LEMMA ChangedTwice ==
    ASSUME Areas, NEW c \in Clusters, NEW B, NEW v
    PROVE  Changed(Changed(B, c, {0}, v), c, Bytes \ {0}, v) = Changed(B, c, Bytes, v)
<1>1. 0 \in Bytes
  BY DEF Bytes
<1> DEFINE D == Changed(B, c, {0}, v)
<1>2. ASSUME NEW b \in FatPlaces
      PROVE  (IF b - FatOffset(c) \in Bytes \ {0}
              THEN EntryByte(c, b - FatOffset(c), D[b], v) ELSE D[b])
             = (IF b - FatOffset(c) \in Bytes
                THEN EntryByte(c, b - FatOffset(c), B[b], v) ELSE B[b])
  <2>1. D[b] = IF b - FatOffset(c) \in {0}
               THEN EntryByte(c, b - FatOffset(c), B[b], v) ELSE B[b]
    BY DEF Changed
  <2> DEFINE i == b - FatOffset(c)
  <2> HIDE DEF i, D
  <2> QED BY <1>1, <2>1, Zenon DEF i
<1> HIDE DEF D
<1>3. Changed(D, c, Bytes \ {0}, v) = Changed(B, c, Bytes, v)
  BY <1>2, Zenon DEF Changed
<1> QED BY <1>3 DEF D

-----------------------------------------------------------------------------
(* The FAT as a set of chains.                                             *)

\* What ends a chain, on a disk that has failed or not.
Ends(b, n) ==
    /\ n \in Nat /\ fs.n_fatent <= n
    /\ b = "no" => n = Mark
    /\ fs.fs_type = "FAT12" => HalfEntry <= n

\* The FAT F is a set of chains, but for the clusters in J, which are lost.
Chained(F, J, b) ==
    /\ \A c \in Clusters \ J :
          \/ F[c] = 0
          \/ F[c] \in Clusters \ J /\ F[F[c]] # 0
          \/ Ends(b, F[c])
    /\ \A c, e \in Clusters \ J : F[c] = F[e] /\ F[c] \in Clusters => c = e

\* A chain begins with cluster c.
Begins(F, J, c) ==
    /\ c \in Clusters \ J /\ F[c] # 0
    /\ \A e \in Clusters \ J : F[e] # c

\* The entry of a cluster is all that changes.
OneChanged(F, G, c) == \A e \in Clusters : e # c => G[e] = F[e]

LEMMA MarkEnds ==
    ASSUME Areas, NEW b
    PROVE  Ends(b, Mark) /\ Mark \notin Clusters /\ Mark # 0
BY DEF Ends, Mark, Areas, Clusters, HalfEntry

LEMMA EndIsNoCluster ==
    ASSUME Areas, NEW b, NEW n, Ends(b, n)
    PROVE  n \notin Clusters /\ n # 0
BY DEF Ends, Clusters, Areas

\* A cluster that is free is marked.
LEMMA MarkKeepsChains ==
    ASSUME Areas, NEW F, NEW J, NEW b, Chained(F, J, b), NEW c \in Clusters, F[c] = 0,
           NEW G, OneChanged(F, G, c), G[c] = Mark
    PROVE  /\ Chained(G, J \ {c}, b) /\ Begins(G, J \ {c}, c)
           /\ \A e : Begins(F, J, e) => e # c /\ Begins(G, J \ {c}, e)
<1> DEFINE K == J \ {c}
<1>1. Ends(b, Mark) /\ Mark \notin Clusters /\ Mark # 0
  BY MarkEnds
<1>2. ASSUME NEW e \in Clusters \ K PROVE e = c \/ (e \in Clusters \ J /\ G[e] = F[e])
  BY <1>2 DEF OneChanged
<1>3. ASSUME NEW e \in Clusters \ J PROVE F[e] # c
  <2>1. c # 0
    BY ClustersAre
  <2>2. \A n : Ends(b, n) => n # c
    BY EndIsNoCluster
  <2> QED BY <1>3, <2>1, <2>2 DEF Chained
<1>4. ASSUME NEW e \in Clusters \ K PROVE G[e] # c
  BY <1>1, <1>2, <1>3
<1>5. ASSUME NEW e \in Clusters \ K
      PROVE  G[e] = 0 \/ (G[e] \in Clusters \ K /\ G[G[e]] # 0) \/ Ends(b, G[e])
  <2>1. CASE e = c
    BY <1>1, <2>1
  <2>2. CASE e # c
    <3>1. e \in Clusters \ J /\ G[e] = F[e]
      BY <1>2, <2>2
    <3>2. CASE F[e] \in Clusters \ J /\ F[F[e]] # 0
      <4>1. F[e] # c /\ F[e] \in Clusters \ K
        BY <1>3, <3>1, <3>2
      <4>2. G[F[e]] = F[F[e]]
        BY <4>1 DEF OneChanged
      <4> QED BY <3>1, <3>2, <4>1, <4>2
    <3> QED BY <3>1, <3>2 DEF Chained
  <2> QED BY <2>1, <2>2
<1>6. ASSUME NEW e \in Clusters \ K, NEW x \in Clusters \ K, G[e] = G[x], G[e] \in Clusters
      PROVE  e = x
  BY <1>1, <1>2, <1>6 DEF Chained
<1>7. Chained(G, K, b)
  <2> HIDE DEF K
  <2> QED BY <1>5, <1>6 DEF Chained
<1>8. Begins(G, K, c)
  BY <1>1, <1>4 DEF Begins
<1>9. ASSUME NEW e, Begins(F, J, e) PROVE e # c /\ Begins(G, K, e)
  <2>1. e \in Clusters \ J /\ F[e] # 0 /\ \A x \in Clusters \ J : F[x] # e
    BY <1>9 DEF Begins
  <2>2. e # c /\ e \in Clusters \ K /\ G[e] = F[e]
    BY <2>1 DEF OneChanged
  <2>3. ASSUME NEW x \in Clusters \ K PROVE G[x] # e
    BY <1>1, <1>2, <2>1, <2>2
  <2> QED BY <2>1, <2>2, <2>3 DEF Begins
<1> QED BY <1>7, <1>8, <1>9

\* A cluster that no other leads to is lost, whatever becomes of its entry;
\* the one that it led to begins what is left of the chain.
LEMMA LoseKeepsChains ==
    ASSUME Areas, NEW F, NEW J, NEW b, Chained(F, J, b), NEW c \in Clusters,
           \A e \in Clusters \ J : F[e] # c, NEW G, OneChanged(F, G, c)
    PROVE  /\ Chained(G, J \cup {c}, b)
           /\ \A e : Begins(F, J, e) /\ e # c => Begins(G, J \cup {c}, e)
           /\ c \notin J /\ F[c] \in Clusters => Begins(G, J \cup {c}, F[c])
<1> DEFINE K == J \cup {c}
<1>1. ASSUME NEW e \in Clusters \ K PROVE e \in Clusters \ J /\ e # c /\ G[e] = F[e]
  BY <1>1 DEF OneChanged
<1>2. ASSUME NEW e \in Clusters \ K
      PROVE  G[e] = 0 \/ (G[e] \in Clusters \ K /\ G[G[e]] # 0) \/ Ends(b, G[e])
  <2>1. e \in Clusters \ J /\ e # c /\ G[e] = F[e]
    BY <1>1
  <2>2. CASE F[e] \in Clusters \ J /\ F[F[e]] # 0
    <3>1. F[e] # c /\ F[e] \in Clusters \ K
      BY <2>1, <2>2
    <3>2. G[F[e]] = F[F[e]]
      BY <3>1 DEF OneChanged
    <3> QED BY <2>1, <2>2, <3>1, <3>2
  <2> QED BY <2>1, <2>2 DEF Chained
<1>3. ASSUME NEW e \in Clusters \ K, NEW x \in Clusters \ K, G[e] = G[x], G[e] \in Clusters
      PROVE  e = x
  BY <1>1, <1>3 DEF Chained
<1>4. Chained(G, K, b)
  <2> HIDE DEF K
  <2> QED BY <1>2, <1>3 DEF Chained
<1>5. ASSUME NEW e, Begins(F, J, e), e # c PROVE Begins(G, K, e)
  <2>1. e \in Clusters \ J /\ F[e] # 0 /\ \A x \in Clusters \ J : F[x] # e
    BY <1>5 DEF Begins
  <2>2. e \in Clusters \ K /\ G[e] = F[e]
    BY <1>5, <2>1 DEF OneChanged
  <2>3. ASSUME NEW x \in Clusters \ K PROVE G[x] # e
    BY <1>1, <2>1
  <2> QED BY <2>1, <2>2, <2>3 DEF Begins
<1>6. ASSUME c \notin J, F[c] \in Clusters PROVE Begins(G, K, F[c])
  <2>1. F[c] # 0 /\ ~Ends(b, F[c])
    BY <1>6, ClustersAre, EndIsNoCluster
  <2>2. F[c] \in Clusters \ J /\ F[F[c]] # 0 /\ F[c] # c
    BY <1>6, <2>1 DEF Chained
  <2>3. F[c] \in Clusters \ K /\ G[F[c]] = F[F[c]]
    BY <2>2 DEF OneChanged
  <2>4. ASSUME NEW x \in Clusters \ K, G[x] = F[c] PROVE FALSE
    <3>1. x \in Clusters \ J /\ x # c /\ F[x] = F[c]
      BY <1>1, <2>4
    <3> QED BY <1>6, <3>1 DEF Chained
  <2> QED BY <2>2, <2>3, <2>4 DEF Begins
<1> QED BY <1>4, <1>5, <1>6

\* The end of a chain is linked to the beginning of another.
LEMMA LinkKeepsChains ==
    ASSUME Areas, NEW F, NEW J, NEW b, Chained(F, J, b), NEW c \in Clusters,
           c \in J \/ Ends(b, F[c]), NEW n, Begins(F, J, n), n # c,
           NEW G, OneChanged(F, G, c), G[c] = n
    PROVE  Chained(G, J, b) /\ \A e : Begins(F, J, e) /\ e # n => Begins(G, J, e)
<1>1. n \in Clusters \ J /\ F[n] # 0 /\ G[n] = F[n] /\ n # 0
  BY ClustersAre DEF Begins, OneChanged
<1>2. \A e \in Clusters \ J : F[e] # n
  BY DEF Begins
<1>3. ASSUME NEW e \in Clusters \ J
      PROVE  G[e] = 0 \/ (G[e] \in Clusters \ J /\ G[G[e]] # 0) \/ Ends(b, G[e])
  <2>1. CASE e = c
    BY <1>1, <2>1
  <2>2. CASE e # c
    <3>1. G[e] = F[e]
      BY <2>2 DEF OneChanged
    <3>2. CASE F[e] \in Clusters \ J /\ F[F[e]] # 0
      <4>1. G[F[e]] # 0
        <5>1. CASE F[e] = c
          BY <1>1, <5>1
        <5>2. CASE F[e] # c
          BY <3>2, <5>2 DEF OneChanged
        <5> QED BY <5>1, <5>2
      <4> QED BY <3>1, <3>2, <4>1
    <3> QED BY <3>1, <3>2 DEF Chained
  <2> QED BY <2>1, <2>2
<1>4. ASSUME NEW e \in Clusters \ J, NEW x \in Clusters \ J, G[e] = G[x], G[e] \in Clusters
      PROVE  e = x
  <2>1. CASE e # c /\ x # c
    BY <1>4, <2>1 DEF OneChanged, Chained
  <2>2. CASE e = c \/ x = c
    BY <1>2, <1>4, <2>2 DEF OneChanged
  <2> QED BY <2>1, <2>2
<1>5. Chained(G, J, b)
  BY <1>3, <1>4 DEF Chained
<1>6. ASSUME NEW e, Begins(F, J, e), e # n PROVE Begins(G, J, e)
  <2>1. e \in Clusters \ J /\ F[e] # 0 /\ \A x \in Clusters \ J : F[x] # e
    BY <1>6 DEF Begins
  <2>2. G[e] # 0
    BY <1>1, <2>1 DEF OneChanged
  <2>3. ASSUME NEW x \in Clusters \ J PROVE G[x] # e
    BY <1>6, <2>1 DEF OneChanged
  <2> QED BY <2>1, <2>2, <2>3 DEF Begins
<1> QED BY <1>5, <1>6

\* The end of a chain stays one when it is cut in two.
LEMMA HalfKeepsChains ==
    ASSUME Areas, NEW F, NEW J, NEW b, Chained(F, J, b), NEW c \in Clusters,
           c \in J \/ Ends(b, F[c]), NEW G, OneChanged(F, G, c), c \in J \/ Ends(b, G[c])
    PROVE  Chained(G, J, b) /\ \A e : Begins(F, J, e) => Begins(G, J, e)
<1>1. \A n : Ends(b, n) => n \notin Clusters /\ n # 0
  BY EndIsNoCluster
<1>2. ASSUME NEW e \in Clusters \ J
      PROVE  G[e] = 0 \/ (G[e] \in Clusters \ J /\ G[G[e]] # 0) \/ Ends(b, G[e])
  <2>1. CASE e = c
    BY <2>1
  <2>2. CASE e # c
    <3>1. G[e] = F[e]
      BY <2>2 DEF OneChanged
    <3>2. CASE F[e] \in Clusters \ J /\ F[F[e]] # 0
      <4>1. G[F[e]] # 0
        <5>1. CASE F[e] = c
          BY <1>1, <3>2, <5>1
        <5>2. CASE F[e] # c
          BY <3>2, <5>2 DEF OneChanged
        <5> QED BY <5>1, <5>2
      <4> QED BY <3>1, <3>2, <4>1
    <3> QED BY <3>1, <3>2 DEF Chained
  <2> QED BY <2>1, <2>2
<1>3. ASSUME NEW e \in Clusters \ J, NEW x \in Clusters \ J, G[e] = G[x], G[e] \in Clusters
      PROVE  e = x
  <2>1. CASE e # c /\ x # c
    BY <1>3, <2>1 DEF OneChanged, Chained
  <2>2. CASE e = c \/ x = c
    BY <1>1, <1>3, <2>2
  <2> QED BY <2>1, <2>2
<1>4. Chained(G, J, b)
  BY <1>2, <1>3 DEF Chained
<1>5. ASSUME NEW e, Begins(F, J, e) PROVE Begins(G, J, e)
  <2>1. e \in Clusters \ J /\ F[e] # 0 /\ \A x \in Clusters \ J : F[x] # e
    BY <1>5 DEF Begins
  <2>2. G[e] # 0
    BY <1>1, <2>1 DEF OneChanged
  <2>3. ASSUME NEW x \in Clusters \ J PROVE G[x] # e
    BY <1>1, <2>1 DEF OneChanged
  <2> QED BY <2>1, <2>2, <2>3 DEF Begins
<1> QED BY <1>4, <1>5

\* A failure makes the FAT no worse.
LEMMA FailureKeepsChains ==
    ASSUME NEW F, NEW J, NEW b, NEW x, Chained(F, J, b), x = "no" => b = "no"
    PROVE  Chained(F, J, x)
<1>1. \A n : Ends(b, n) => Ends(x, n)
  BY DEF Ends
<1> QED BY <1>1 DEF Chained

-----------------------------------------------------------------------------
(* The clusters along a chain.                                             *)

\* w are the clusters that the FAT F leads to from cluster c on, k at most.
Walk(F, w, c, k) ==
    /\ w \in Seq(Clusters) /\ Len(w) <= k
    /\ w # <<>> => w[1] = c
    /\ \A i \in 1 .. Len(w) - 1 : w[i + 1] = F[w[i]]
    /\ w # <<>> /\ Len(w) < k => F[w[Len(w)]] \notin Clusters
    /\ c \in Clusters /\ k # 0 => w # <<>>

LEMMA NoWalk ==
    ASSUME NEW F, NEW c, NEW k \in Nat, c \notin Clusters \/ k = 0
    PROVE  Walk(F, <<>>, c, k)
BY DEF Walk

LEMMA LongerWalk ==
    ASSUME NEW F, NEW c \in Clusters, NEW k \in Nat, NEW v, Walk(F, v, F[c], k)
    PROVE  Walk(F, <<c>> \o v, c, k + 1)
<1> DEFINE w == <<c>> \o v
<1>1. v \in Seq(Clusters) /\ Len(v) \in Nat /\ Len(v) <= k
  BY DEF Walk
<1>2. /\ w \in Seq(Clusters) /\ Len(w) = Len(v) + 1 /\ w[1] = c
      /\ \A i \in 1 .. Len(v) : w[i + 1] = v[i]
  BY <1>1
<1>3. w # <<>>
  BY <1>2
<1> HIDE DEF w
<1>4. ASSUME NEW i \in 1 .. Len(w) - 1 PROVE w[i + 1] = F[w[i]]
  <2>1. i \in 1 .. Len(v) /\ w[i + 1] = v[i]
    BY <1>1, <1>2
  <2>2. CASE i = 1
    <3>1. v # <<>>
      BY <2>1
    <3> QED BY <1>2, <2>1, <2>2, <3>1 DEF Walk
  <2>3. CASE i # 1
    <3>1. i - 1 \in 1 .. Len(v) - 1 /\ i - 1 \in 1 .. Len(v) /\ (i - 1) + 1 = i
      BY <1>1, <2>1, <2>3
    <3>2. w[i] = v[i - 1]
      BY <1>2, <3>1
    <3>3. v[i] = F[v[i - 1]]
      BY <3>1 DEF Walk
    <3> QED BY <2>1, <3>2, <3>3
  <2> QED BY <2>2, <2>3
<1>5. ASSUME Len(w) < k + 1 PROVE F[w[Len(w)]] \notin Clusters
  <2>1. Len(v) < k /\ k # 0
    BY <1>1, <1>2, <1>5
  <2>2. CASE v = <<>>
    <3>1. Len(w) = 1
      BY <1>2, <2>2
    <3> QED BY <1>2, <2>1, <2>2, <3>1 DEF Walk
  <2>3. CASE v # <<>>
    <3>1. Len(v) \in 1 .. Len(v)
      BY <1>1, <2>3
    <3>2. w[Len(w)] = v[Len(v)]
      BY <1>2, <3>1
    <3> QED BY <2>1, <2>3, <3>2 DEF Walk
  <2> QED BY <2>2, <2>3
<1> QED BY <1>1, <1>2, <1>3, <1>4, <1>5 DEF Walk, w

\* A walk from the beginning of a chain stays in the chains that are not lost.
LEMMA WalkStays ==
    ASSUME Areas, NEW F, NEW J, NEW b, Chained(F, J, b), NEW c, Begins(F, J, c),
           NEW w, NEW k \in Nat, Walk(F, w, c, k), NEW i \in 1 .. Len(w)
    PROVE  w[i] \in Clusters \ J /\ F[w[i]] # 0
<1> DEFINE L == Len(w) - 1
           S == {n \in Nat : w[n + 1] \in Clusters \ J /\ F[w[n + 1]] # 0}
<1>1. w \in Seq(Clusters) /\ w # <<>> /\ w[1] = c /\ L \in Nat /\ i - 1 \in 0 .. L
  BY DEF Walk
<1>2. 0 \in S
  BY <1>1 DEF Begins
<1>3. ASSUME NEW n \in 0 .. L - 1, n \in S PROVE n + 1 \in S
  <2>1. n + 1 \in 1 .. Len(w) - 1 /\ (n + 1) + 1 \in 1 .. Len(w) /\ n + 1 \in Nat
    BY <1>1
  <2> DEFINE x == w[n + 1]
             y == w[(n + 1) + 1]
  <2>2. y = F[x] /\ y \in Clusters /\ x \in Clusters \ J
    BY <1>1, <1>3, <2>1 DEF Walk
  <2> HIDE DEF x, y
  <2>3. y # 0 /\ ~Ends(b, y)
    BY <2>2, ClustersAre, EndIsNoCluster
  <2>4. y \in Clusters \ J /\ F[y] # 0
    BY <2>2, <2>3 DEF Chained
  <2> QED BY <2>1, <2>4 DEF y
<1> HIDE DEF S
<1>4. i - 1 \in S
  <2>1. 0 .. L \subseteq S
    BY <1>1, <1>2, <1>3, UpToInduction
  <2> QED BY <1>1, <2>1
<1>5. (i - 1) + 1 = i
  OBVIOUS
<1> QED BY <1>4, <1>5 DEF S

\* Two walks meet only when they are from the same cluster, and in step.
LEMMA WalksApart ==
    ASSUME Areas, NEW F, NEW J, NEW b, Chained(F, J, b),
           NEW c, Begins(F, J, c), NEW w, NEW k \in Nat, Walk(F, w, c, k),
           NEW e, Begins(F, J, e), NEW v, NEW n \in Nat, Walk(F, v, e, n),
           NEW i \in 1 .. Len(w), NEW j \in 1 .. Len(v), w[i] = v[j]
    PROVE  c = e /\ i = j
<1> DEFINE L == Len(w) - 1
           S == {m \in Nat : \A h \in 1 .. Len(v) : w[m + 1] = v[h] => c = e /\ m + 1 = h}
<1>1. /\ w \in Seq(Clusters) /\ w # <<>> /\ w[1] = c /\ L \in Nat /\ i - 1 \in 0 .. L
      /\ v \in Seq(Clusters) /\ v # <<>> /\ v[1] = e /\ Len(v) \in Nat
  BY DEF Walk
<1>2. ASSUME NEW h \in 1 .. Len(v), h # 1
      PROVE  /\ h - 1 \in 1 .. Len(v) /\ v[h] = F[v[h - 1]]
             /\ v[h - 1] \in Clusters \ J /\ v[h] \in Clusters
  <2>1. h - 1 \in 1 .. Len(v) - 1 /\ h - 1 \in 1 .. Len(v) /\ (h - 1) + 1 = h
    BY <1>1, <1>2
  <2>2. v[h] = F[v[h - 1]]
    BY <2>1 DEF Walk
  <2>3. v[h - 1] \in Clusters \ J
    BY <2>1, WalkStays
  <2> QED BY <1>1, <2>1, <2>2, <2>3
<1>3. 0 \in S
  <2>1. ASSUME NEW h \in 1 .. Len(v), w[1] = v[h] PROVE c = e /\ h = 1
    <3>1. CASE h = 1
      BY <1>1, <2>1, <3>1
    <3>2. CASE h # 1
      BY <1>1, <1>2, <2>1, <3>2 DEF Begins
    <3> QED BY <3>1, <3>2
  <2> QED BY <2>1
<1>4. ASSUME NEW m \in 0 .. L - 1, m \in S PROVE m + 1 \in S
  <2>1. m + 1 \in 1 .. Len(w) - 1 /\ m + 1 \in 1 .. Len(w) /\ m + 1 \in Nat
    BY <1>1
  <2>2. w[(m + 1) + 1] = F[w[m + 1]] /\ w[m + 1] \in Clusters \ J
    BY <2>1, WalkStays DEF Walk
  <2>3. ASSUME NEW h \in 1 .. Len(v), w[(m + 1) + 1] = v[h] PROVE c = e /\ (m + 1) + 1 = h
    <3>1. CASE h = 1
      <4>1. F[w[m + 1]] = e
        BY <1>1, <2>2, <2>3, <3>1
      <4> QED BY <2>2, <4>1 DEF Begins
    <3>2. CASE h # 1
      <4>1. h - 1 \in 1 .. Len(v) /\ F[w[m + 1]] = F[v[h - 1]] /\ F[w[m + 1]] \in Clusters
            /\ v[h - 1] \in Clusters \ J
        BY <1>2, <2>2, <2>3, <3>2
      <4>2. w[m + 1] = v[h - 1]
        BY <2>2, <4>1 DEF Chained
      <4>3. c = e /\ m + 1 = h - 1
        BY <1>4, <4>1, <4>2
      <4> QED BY <2>1, <4>3
    <3> QED BY <3>1, <3>2
  <2> QED BY <2>1, <2>3
<1>5. i - 1 \in S
  <2> HIDE DEF S
  <2>1. 0 .. L \subseteq S
    BY <1>1, <1>3, <1>4, UpToInduction
  <2> QED BY <1>1, <2>1
<1>6. (i - 1) + 1 = i
  OBVIOUS
<1> QED BY <1>5, <1>6

\* So a walk of as many steps as the FAT has entries has come to the end.
LEMMA WalkEnds ==
    ASSUME Areas, NEW F, NEW J, NEW b, Chained(F, J, b), NEW c, Begins(F, J, c),
           NEW w, Walk(F, w, c, fs.n_fatent)
    PROVE  w # <<>> /\ IsInjective(w) /\ Len(w) \in 1 .. Len(w) /\ Ends(b, F[w[Len(w)]])
<1>1. c \in Clusters /\ fs.n_fatent \in Nat /\ fs.n_fatent >= 3
  BY DEF Begins, Areas
<1>2. w \in Seq(Clusters) /\ w # <<>>
  BY <1>1 DEF Walk
<1>3. Len(w) \in Nat /\ DOMAIN w = 1 .. Len(w) /\ Len(w) \in 1 .. Len(w)
  BY <1>2
<1>4. IsInjective(w)
  <2>1. ASSUME NEW i \in 1 .. Len(w), NEW j \in 1 .. Len(w), w[i] = w[j] PROVE i = j
    BY <1>1, <2>1, WalksApart
  <2> QED BY <1>3, <2>1 DEF IsInjective
<1>5. Len(w) < fs.n_fatent
  <2>1. w \in Injection(1 .. Len(w), Clusters)
    <3>1. w \in [1 .. Len(w) -> Clusters]
      BY <1>2
    <3> QED BY <1>4, <3>1 DEF Injection
  <2>2. IsFiniteSet(Clusters) /\ Cardinality(Clusters) = fs.n_fatent - 2
    <3> DEFINE hi == fs.n_fatent - 1
    <3>1. hi \in Int /\ 2 \in Int /\ ~(2 > hi) /\ (hi - 2) + 1 = fs.n_fatent - 2
      BY <1>1
    <3>2. Clusters = 2 .. hi
      BY DEF Clusters
    <3> HIDE DEF hi
    <3>3. IsFiniteSet(2 .. hi) /\ Cardinality(2 .. hi) = (hi - 2) + 1
      BY <3>1, FS_Interval, Zenon
    <3> QED BY <3>1, <3>2, <3>3
  <2>3. Cardinality(1 .. Len(w)) = Len(w)
    BY <1>3, FS_Interval
  <2>4. Cardinality(1 .. Len(w)) <= Cardinality(Clusters)
    BY <2>1, <2>2, FS_Injection
  <2> QED BY <1>1, <1>3, <2>2, <2>3, <2>4
<1>6. F[w[Len(w)]] \notin Clusters
  BY <1>2, <1>5 DEF Walk
<1>7. w[Len(w)] \in Clusters \ J /\ F[w[Len(w)]] # 0
  BY <1>1, <1>3, WalkStays
<1>8. Ends(b, F[w[Len(w)]])
  BY <1>6, <1>7 DEF Chained
<1> QED BY <1>2, <1>3, <1>4, <1>8

\* The chain that is read back is such a walk.
Along(d, g, k) ==
    [c \in 0 .. EndOfChain |->
        IF c \notin Clusters \/ k = 0 THEN <<>> ELSE <<c>> \o g[k - 1][FatOf(d, c)]]

LEMMA ChainRuns ==
    ASSUME NEW d, NEW L \in Nat
    PROVE  \E g : g = [k \in 0 .. L |-> Along(d, g, k)]
<1> DEFINE Runs(n) == \E g : g = [k \in 0 .. n |-> Along(d, g, k)]
           S == {n \in Nat : Runs(n)}
<1>1. Runs(0)
  <2> DEFINE g == [k \in 0 .. 0 |-> [c \in 0 .. EndOfChain |-> <<>>]]
  <2>1. \A k \in 0 .. 0 : k = 0
    OBVIOUS
  <2>2. \A k \in 0 .. 0 : Along(d, g, k) = [c \in 0 .. EndOfChain |-> <<>>]
    BY <2>1 DEF Along
  <2>3. g = [k \in 0 .. 0 |-> Along(d, g, k)]
    BY <2>2
  <2> QED BY <2>3
<1>2. ASSUME NEW n \in Nat, Runs(n) PROVE Runs(n + 1)
  <2>1. PICK f : f = [k \in 0 .. n |-> Along(d, f, k)]
    BY <1>2
  <2> DEFINE next == [c \in 0 .. EndOfChain |->
                         IF c \notin Clusters THEN <<>> ELSE <<c>> \o f[n][FatOf(d, c)]]
             g == [k \in 0 .. n + 1 |-> IF k = n + 1 THEN next ELSE f[k]]
  <2>2. ASSUME NEW k \in 0 .. n + 1 PROVE g[k] = Along(d, g, k)
    <3>1. CASE k = n + 1
      <4>1. g[k] = next /\ g[n] = f[n] /\ k # 0 /\ k - 1 = n
        BY <3>1
      <4> HIDE DEF g
      <4> QED BY <4>1, <3>1 DEF Along
    <3>2. CASE k # n + 1
      <4>1. k \in 0 .. n /\ g[k] = f[k] /\ f[k] = Along(d, f, k)
        BY <3>2, <2>1
      <4>2. k # 0 => k - 1 \in 0 .. n + 1 /\ k - 1 # n + 1
        BY <4>1
      <4>3. k # 0 => g[k - 1] = f[k - 1]
        BY <4>2
      <4> HIDE DEF g
      <4> QED BY <4>1, <4>3 DEF Along
    <3> QED BY <3>1, <3>2
  <2>3. g = [k \in 0 .. n + 1 |-> g[k]]
    OBVIOUS
  <2> HIDE DEF g
  <2>4. g = [k \in 0 .. n + 1 |-> Along(d, g, k)]
    BY <2>2, <2>3
  <2> QED BY <2>4
<1>3. 0 \in S /\ \A k \in 0 .. L - 1 : k \in S => k + 1 \in S
  <2> HIDE DEF Runs
  <2> QED BY <1>1, <1>2
<1> HIDE DEF S
<1>4. L \in S
  BY <1>3, UpToInduction
<1> QED BY <1>4 DEF S

LEMMA ChainWalks ==
    ASSUME Areas, NEW d, NEW F,
           \A c \in Clusters : FatOf(d, c) = F[c] /\ F[c] \in Nat /\ F[c] <= Mark,
           NEW c \in Clusters
    PROVE  Walk(F, Chain(d, c), c, fs.n_fatent)
<1> DEFINE N == fs.n_fatent
           from == CHOOSE f : f = [n \in 0 .. N |->
                      [x \in 0 .. EndOfChain |->
                         IF x \notin Clusters \/ n = 0 THEN <<>>
                         ELSE <<x>> \o f[n - 1][FatOf(d, x)]]]
<1>1. N \in Nat /\ N <= Mark /\ Mark \in Nat /\ Mark <= EndOfChain /\ EndOfChain \in Nat
  BY DEF Areas, Mark, EndOfChain
<1>2. \A x \in Clusters : x \in 0 .. EndOfChain /\ F[x] \in 0 .. EndOfChain
  <2>1. \A x \in Clusters : x \in Nat /\ x <= EndOfChain
    BY <1>1 DEF Clusters
  <2> QED BY <1>1, <2>1
<1>3. Chain(d, c) = from[N][c]
  BY DEF Chain
<1>4. \E g : g = [n \in 0 .. N |->
                     [x \in 0 .. EndOfChain |->
                        IF x \notin Clusters \/ n = 0 THEN <<>>
                        ELSE <<x>> \o g[n - 1][FatOf(d, x)]]]
  <2>1. PICK g : g = [k \in 0 .. N |-> Along(d, g, k)]
    BY <1>1, ChainRuns
  <2> QED BY <2>1, Zenon DEF Along
<1>5. from = [n \in 0 .. N |->
                [x \in 0 .. EndOfChain |->
                   IF x \notin Clusters \/ n = 0 THEN <<>>
                   ELSE <<x>> \o from[n - 1][FatOf(d, x)]]]
  BY <1>4, Zenon
<1> HIDE DEF from
<1>6. ASSUME NEW k \in 0 .. N, NEW x \in 0 .. EndOfChain
      PROVE  from[k][x] = IF x \notin Clusters \/ k = 0 THEN <<>>
                          ELSE <<x>> \o from[k - 1][FatOf(d, x)]
  <2>1. from[k] = [y \in 0 .. EndOfChain |->
                     IF y \notin Clusters \/ k = 0 THEN <<>>
                     ELSE <<y>> \o from[k - 1][FatOf(d, y)]]
    BY <1>5, Zenon
  <2> QED BY <2>1, Zenon
<1> DEFINE S == {k \in Nat : \A x \in 0 .. EndOfChain : Walk(F, from[k][x], x, k)}
<1>7. 0 \in S
  <2>1. 0 \in 0 .. N
    BY <1>1
  <2>2. ASSUME NEW x \in 0 .. EndOfChain PROVE from[0][x] = <<>>
    BY <1>6, <2>1
  <2>3. ASSUME NEW x \in 0 .. EndOfChain PROVE Walk(F, from[0][x], x, 0)
    BY <2>2, NoWalk
  <2> QED BY <2>3
<1>8. ASSUME NEW k \in 0 .. N - 1, k \in S PROVE k + 1 \in S
  <2>1. k \in Nat /\ k + 1 \in 0 .. N /\ k + 1 # 0 /\ (k + 1) - 1 = k /\ k + 1 \in Nat
    BY <1>1
  <2>2. ASSUME NEW x \in 0 .. EndOfChain PROVE Walk(F, from[k + 1][x], x, k + 1)
    <3>1. CASE x \notin Clusters
      <4>1. from[k + 1][x] = <<>>
        BY <1>6, <2>1, <3>1
      <4> QED BY <2>1, <3>1, <4>1, NoWalk
    <3>2. CASE x \in Clusters
      <4>1. from[k + 1][x] = <<x>> \o from[k][F[x]]
        BY <1>6, <2>1, <3>2
      <4>2. Walk(F, from[k][F[x]], F[x], k)
        BY <1>2, <1>8, <3>2
      <4> QED BY <2>1, <3>2, <4>1, <4>2, LongerWalk
    <3> QED BY <3>1, <3>2
  <2> QED BY <2>1, <2>2
<1>9. N \in S
  <2> HIDE DEF S
  <2>1. 0 .. N \subseteq S
    BY <1>1, <1>7, <1>8, UpToInduction
  <2> QED BY <1>1, <2>1
<1>10. Walk(F, from[N][c], c, N)
  BY <1>2, <1>9
<1> QED BY <1>3, <1>10
=============================================================================
