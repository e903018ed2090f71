---------------------------- MODULE StoreProofs ----------------------------
(***************************************************************************)
(* SectorsOwned for every size of sectors, runs and maps.  alloc_smap_bit  *)
(* looks at one bit and do_unlink may leave the end of a run marked; that  *)
(* runs stay apart all the same is because each begins on a grid of RUN    *)
(* sectors from the root directory's run on, and because a bit of the grid *)
(* is set only for a file that is there.  Then, that the disk read through *)
(* inodes and runs is a store of byte files (ByteFiles).                   *)
(***************************************************************************)
EXTENDS Store, WellFoundedInduction, TLAPS

(* Scans find the first of what they look for: a set of natural numbers    *)
(* has a least one.                                                        *)
LEMMA LeastNatural ==
  ASSUME NEW T \in SUBSET Nat, T # {}
  PROVE  \E m \in T : \A n \in T : m <= n
<1> DEFINE R == OpToRel(<, Nat)
<1>1. IsWellFoundedOn(R, Nat)
  BY NatLessThanWellFounded
<1>2. ASSUME NEW j \in Nat, NEW n \in Nat, n < j PROVE <<n, j>> \in R
  BY <1>2 DEF R, OpToRel
<1> HIDE DEF R
<1>3. PICK m \in T : \A n \in T : <<n, m>> \notin R
  BY <1>1, WFMin, Zenon
<1>4. ASSUME NEW n \in T PROVE m <= n
  <2>1. ~ (n < m)
    BY <1>2, <1>3
  <2>2. m \in Nat /\ n \in Nat
    OBVIOUS
  <2>3. QED
    BY <2>1, <2>2
<1>5. QED
  BY <1>4

Grid == {1 + k * RUN : k \in Nat}

Typed ==
  /\ smap \subseteq Bits
  /\ inode \in [File -> [start : Nat, size : Nat]]
  /\ file \in [Handle -> [file : File, pos : Nat] \cup {Closed}]

(* A handle that is open has a file to work on.                            *)
HandlesHaveFiles == \A h \in Handle : file[h] # Closed => Exists(file[h].file)

OnGrid(b) == b \in Grid /\ 1 + RUN <= b /\ b + RUN <= TAR_BIT
Placed(f) == OnGrid(inode[f].start) \/ (f = TAR /\ inode[f].start = TAR_BIT)

(* What is known of a file that is there.                                  *)
FilesPlaced ==
  \A f \in File : Exists(f) =>
    /\ Placed(f)
    /\ Run(inode[f].start) \subseteq smap
    /\ inode[f].size <= RUN * SECT
    /\ \A g \in File : Exists(g) /\ inode[g].start = inode[f].start => g = f

(* A set bit of the grid is that of the root directory or of a file.       *)
GridUsed ==
  \A b \in Grid \cap smap :
    b + RUN <= TAR_BIT => b = 1 \/ \E f \in File : Exists(f) /\ inode[f].start = b

StoreInv ==
  /\ Typed
  /\ HandlesHaveFiles
  /\ {0} \cup Run(1) \subseteq smap
  /\ FilesPlaced
  /\ GridUsed

-----------------------------------------------------------------------------
(* Arithmetic.                                                             *)

LEMMA DivMod ==
  ASSUME NEW a \in Nat, NEW b \in Nat \ {0}
  PROVE  /\ a \div b \in Nat /\ a % b \in 0..(b - 1)
         /\ a = b * (a \div b) + (a % b)
OBVIOUS

LEMMA SmallQuotient ==
  ASSUME NEW a \in Nat, NEW b \in Nat \ {0}, a < b
  PROVE  a \div b = 0
OBVIOUS

LEMMA DivMonotone ==
  ASSUME NEW a \in Nat, NEW b \in Nat, a <= b, NEW c \in Nat \ {0}
  PROVE  a \div c <= b \div c
OBVIOUS

LEMMA DivOfMultiple ==
  ASSUME NEW k \in Nat, NEW c \in Nat \ {0}
  PROVE  (k * c) \div c = k
OBVIOUS

LEMMA Distributes ==
  ASSUME NEW a \in Int, NEW b \in Int, NEW c \in Int
  PROVE  (a - b + 1) * c = a * c - b * c + c
OBVIOUS

LEMMA NextMultiple ==
  ASSUME NEW i \in Nat, NEW j \in Nat, i < j, NEW r \in Nat
  PROVE  i * r + r <= j * r
OBVIOUS

LEMMA GridPoints == Grid \subseteq Nat \ {0} /\ 1 \in Grid
<1>1. RUN \in Nat /\ 0 * RUN = 0
  BY StoreAssumption
<1>2. ASSUME NEW k \in Nat PROVE k * RUN \in Nat
  BY <1>1
<1>3. QED
  BY <1>1, <1>2 DEF Grid

(* Runs on the grid do not overlap.                                        *)
LEMMA GridApart ==
  ASSUME NEW a \in Grid, NEW b \in Grid, a < b
  PROVE  a + RUN <= b
<1>1. RUN \in Nat \ {0}
  BY StoreAssumption
<1>2. PICK i \in Nat, j \in Nat : a = 1 + i * RUN /\ b = 1 + j * RUN
  BY DEF Grid
<1>3. i < j
  <2>1. SUFFICES ASSUME j < i \/ j = i PROVE FALSE
    BY <1>2
  <2>2. CASE j = i
    BY <1>2, <2>2, GridPoints
  <2>3. CASE j < i
    <3>1. j * RUN + RUN <= i * RUN
      BY <1>1, <2>3, NextMultiple
    <3>2. i * RUN \in Nat /\ j * RUN \in Nat
      BY <1>1
    <3>3. QED
      BY <1>1, <1>2, <3>1, <3>2
  <2>4. QED
    BY <2>1, <2>2, <2>3
<1>4. i * RUN + RUN <= j * RUN
  BY <1>1, <1>3, NextMultiple
<1>5. i * RUN \in Nat /\ j * RUN \in Nat
  BY <1>1
<1>6. QED
  BY <1>1, <1>2, <1>4, <1>5

(* Every sector but the reserved one lies in a run of the grid.            *)
LEMMA GridCovers ==
  ASSUME NEW m \in Nat, m >= 1
  PROVE  \E b \in Grid : b <= m /\ m < b + RUN
<1>1. RUN \in Nat \ {0} /\ m - 1 \in Nat
  BY StoreAssumption
<1> DEFINE k == (m - 1) \div RUN
           r == (m - 1) % RUN
<1>2. k \in Nat /\ r \in 0..(RUN - 1) /\ m - 1 = RUN * k + r
  BY <1>1, DivMod
<1>3. k * RUN = RUN * k /\ k * RUN \in Nat
  BY <1>1, <1>2
<1> HIDE DEF k, r
<1>4. 1 + k * RUN \in Grid
  BY <1>2 DEF Grid
<1>5. 1 + k * RUN <= m /\ m < 1 + k * RUN + RUN
  BY <1>1, <1>2, <1>3
<1>6. QED
  BY <1>4, <1>5

(* What do_unlink clears is part of the run, and its first bit is.         *)
LEMMA FreedPart ==
  ASSUME NEW b \in Nat
  PROVE  Freed(b) \subseteq Run(b) /\ b \in Freed(b)
<1> DEFINE head == BYTE - (b % BYTE)
           whole == IF RUN < head THEN 0 ELSE (RUN - head) \div BYTE
           tail == b \div BYTE + 1 + whole
<1>1. RUN \in Nat \ {0} /\ BYTE \in Nat \ {0}
  BY StoreAssumption
<1>2. b \div BYTE \in Nat /\ b % BYTE \in 0..(BYTE - 1) /\ b = BYTE * (b \div BYTE) + (b % BYTE)
  BY <1>1, DivMod
<1>3. whole \in Nat
  <2>1. CASE RUN < head
    BY <2>1
  <2>2. CASE ~ (RUN < head)
    <3>1. RUN - head \in Nat
      BY <1>1, <1>2, <2>2
    <3>2. (RUN - head) \div BYTE \in Nat
      BY <1>1, <3>1, DivMod
    <3>3. QED
      BY <2>2, <3>2
  <2>3. QED
    BY <2>1, <2>2
<1>4. Freed(b) = {i \in Run(b) : i < tail * BYTE \/ tail % BYTES # 0}
  BY DEF Freed, LastByte
<1> HIDE DEF whole
<1>5. b < tail * BYTE
  <2> DEFINE q == b \div BYTE
  <2>1. q \in Nat /\ tail \in Nat /\ q < tail
    BY <1>2, <1>3
  <2>2. q * BYTE + BYTE <= tail * BYTE /\ q * BYTE = BYTE * q
    BY <1>1, <2>1, NextMultiple
  <2>3. q * BYTE \in Nat /\ tail * BYTE \in Nat
    BY <1>1, <2>1
  <2>4. b = BYTE * q + (b % BYTE) /\ b % BYTE \in 0..(BYTE - 1)
    BY <1>2
  <2> HIDE DEF q, tail
  <2>5. QED
    BY <1>1, <2>2, <2>3, <2>4
<1>6. b \in Run(b)
  BY <1>1 DEF Run
<1> HIDE DEF tail
<1>7. QED
  BY <1>4, <1>5, <1>6

-----------------------------------------------------------------------------
(* The places of two files.                                                *)

LEMMA BitsFrom ==
  /\ NR_BITS \in Nat /\ TAR_BIT + RUN <= NR_BITS
  /\ \E n \in Nat : Bits = 0..(n - 1) /\ TAR_BIT + RUN <= n
<1>1. NR_BITS \in Nat /\ TAR_BIT + RUN <= NR_BITS
  BY StoreAssumption DEF NR_BITS
<1>2. QED
  BY <1>1 DEF Bits

LEMMA FirstFreeBit ==
  ASSUME Free # {}
  PROVE  /\ FirstFree \in Bits /\ FirstFree \notin smap
         /\ \A i \in Bits : i < FirstFree => i \in smap
<1>1. Free \in SUBSET Nat
  BY DEF Free, Bits
<1>2. \E m \in Free : \A k \in Free : m <= k
  BY <1>1, LeastNatural
<1>3. FirstFree \in Free /\ \A k \in Free : FirstFree <= k
  BY <1>2 DEF FirstFree, Least
<1>4. QED
  BY <1>1, <1>3 DEF Free, Bits

LEMMA PlacedBeside ==
  ASSUME StoreInv, NEW f \in File, Exists(f), NEW g \in File \ {f}, Exists(g)
  PROVE  \/ inode[f].start + RUN <= inode[g].start
         \/ inode[g].start + RUN <= inode[f].start
<1> DEFINE a == inode[f].start
           b == inode[g].start
<1>1. RUN \in Nat \ {0} /\ TAR_BIT \in Nat
  BY StoreAssumption
<1>2. a \in Nat /\ b \in Nat /\ a # b
  BY DEF StoreInv, Typed, FilesPlaced
<1>3. Placed(f) /\ Placed(g)
  BY DEF StoreInv, FilesPlaced
<1>4. a + RUN <= b \/ b + RUN <= a
  <2>1. CASE OnGrid(a) /\ OnGrid(b)
    BY <1>2, <2>1, GridApart DEF OnGrid
  <2>2. CASE OnGrid(a) /\ b = TAR_BIT
    BY <2>2 DEF OnGrid
  <2>3. CASE OnGrid(b) /\ a = TAR_BIT
    BY <2>3 DEF OnGrid
  <2>4. QED
    BY <1>2, <1>3, <2>1, <2>2, <2>3 DEF Placed
<1>5. QED
  BY <1>4

LEMMA PlacedApart ==
  ASSUME StoreInv, NEW f \in File, Exists(f), NEW g \in File \ {f}, Exists(g)
  PROVE  Run(inode[f].start) \cap Run(inode[g].start) = {}
<1> DEFINE a == inode[f].start
           b == inode[g].start
<1>1. RUN \in Nat /\ a \in Nat /\ b \in Nat
  BY StoreAssumption DEF StoreInv, Typed
<1>2. a + RUN <= b \/ b + RUN <= a
  BY PlacedBeside
<1> HIDE DEF a, b
<1>3. Run(a) \cap Run(b) = {}
  BY <1>1, <1>2 DEF Run
<1>4. QED
  BY <1>3 DEF a, b

(* A file's run begins behind that of the root directory.                  *)
LEMMA PlacedBehindRoot ==
  ASSUME StoreInv, NEW f \in File, Exists(f)
  PROVE  1 + RUN <= inode[f].start /\ inode[f].start \in Nat
<1>1. RUN \in Nat \ {0} /\ TAR_BIT \in Nat /\ RUN < TAR_BIT
  BY StoreAssumption
<1>2. inode[f].start \in Nat /\ Placed(f)
  BY DEF StoreInv, Typed, FilesPlaced
<1>3. QED
  BY <1>1, <1>2 DEF Placed, OnGrid

(* The place a new file gets is the start of a free run of the grid.       *)
LEMMA NewPlace ==
  ASSUME StoreInv, BeforeTar
  PROVE  OnGrid(FirstFree) /\ FirstFree \in Bits /\ FirstFree \notin smap
<1> DEFINE m == FirstFree
<1>1. RUN \in Nat \ {0} /\ TAR_BIT \in Nat /\ RUN < TAR_BIT
  BY StoreAssumption
<1>2. m \in Bits /\ m \notin smap /\ m + RUN <= TAR_BIT
      /\ \A i \in Bits : i < m => i \in smap
  BY FirstFreeBit DEF BeforeTar
<1>3. m \in Nat /\ 1 + RUN <= m
  BY <1>1, <1>2 DEF StoreInv, Bits, Run
<1> HIDE DEF m
<1>4. PICK b \in Grid : b <= m /\ m < b + RUN
  BY <1>1, <1>3, GridCovers
<1>5. b \in Nat
  BY GridPoints
<1>6. b = m
  <2>1. SUFFICES ASSUME b < m PROVE FALSE
    BY <1>3, <1>4, <1>5
  <2>2. b \in smap /\ b + RUN <= TAR_BIT
    BY <1>1, <1>2, <1>3, <1>5, <2>1, BitsFrom
  <2>3. m \in Run(b)
    BY <1>1, <1>3, <1>4, <1>5 DEF Run
  <2>4. CASE b = 1
    BY <1>2, <2>3, <2>4 DEF StoreInv
  <2>5. CASE b # 1
    <3>1. PICK g \in File : Exists(g) /\ inode[g].start = b
      BY <2>2, <2>5 DEF StoreInv, GridUsed
    <3>2. Run(b) \subseteq smap
      BY <3>1 DEF StoreInv, FilesPlaced
    <3>3. QED
      BY <1>2, <2>3, <3>2
  <2>6. QED
    BY <2>4, <2>5
<1>7. OnGrid(m)
  BY <1>2, <1>3, <1>4, <1>6 DEF OnGrid
<1>8. QED
  BY <1>2, <1>7 DEF m

(* The invariant says what the property asks for.                          *)
LEMMA InvOwned == StoreInv => SectorsOwned
<1>1. SUFFICES ASSUME StoreInv, NEW f \in File, Exists(f)
               PROVE  /\ inode[f].size <= RUN * SECT
                      /\ Run(inode[f].start) \subseteq smap
                      /\ Run(inode[f].start) \cap ({0} \cup Run(1)) = {}
                      /\ \A g \in File \ {f} : Exists(g) =>
                           Run(inode[f].start) \cap Run(inode[g].start) = {}
  BY DEF SectorsOwned
<1>2. inode[f].size <= RUN * SECT /\ Run(inode[f].start) \subseteq smap
  BY <1>1 DEF StoreInv, FilesPlaced
<1>3. Run(inode[f].start) \cap ({0} \cup Run(1)) = {}
  <2> DEFINE a == inode[f].start
  <2>1. a \in Nat /\ 1 + RUN <= a /\ RUN \in Nat \ {0}
    BY <1>1, PlacedBehindRoot, StoreAssumption
  <2> HIDE DEF a
  <2>2. Run(a) \cap ({0} \cup Run(1)) = {}
    BY <2>1 DEF Run
  <2>3. QED
    BY <2>2 DEF a
<1>4. \A g \in File \ {f} : Exists(g) => Run(inode[f].start) \cap Run(inode[g].start) = {}
  BY <1>1, PlacedApart
<1>5. QED
  BY <1>2, <1>3, <1>4

-----------------------------------------------------------------------------
(* Initial state.                                                          *)

LEMMA InitInv == Init => StoreInv
<1>1. SUFFICES ASSUME Init PROVE StoreInv
  OBVIOUS
<1>2. RUN \in Nat \ {0} /\ TAR_BIT \in Nat /\ RUN < TAR_BIT
      /\ TAR \in File /\ SECT \in Nat \ {0}
  BY StoreAssumption
<1>3. PICK n \in Nat : Bits = 0..(n - 1) /\ TAR_BIT + RUN <= n
  BY BitsFrom
<1>4. RUN * SECT \in Nat \ {0}
  BY <1>2
<1>5. inode[TAR] = [start |-> TAR_BIT, size |-> RUN * SECT]
  BY <1>1, <1>2 DEF Init
<1>6. \A f \in File : Exists(f) <=> f = TAR
  <2>1. inode[TAR].start # 0 /\ Nothing.start = 0
    BY <1>2, <1>5 DEF Nothing
  <2>2. Exists(TAR)
    BY <2>1 DEF Exists
  <2>3. \A f \in File \ {TAR} : inode[f] = Nothing
    BY <1>1 DEF Init
  <2>4. QED
    BY <2>2, <2>3 DEF Exists
<1>8. smap = {0} \cup Run(1) \cup Run(TAR_BIT)
  BY <1>1 DEF Init
<1>9. Typed
  <2>1. smap \subseteq Bits
    BY <1>2, <1>3, <1>8 DEF Run
  <2>2. inode \in [File -> [start : Nat, size : Nat]]
    BY <1>1, <1>2, <1>4 DEF Init, Nothing
  <2>3. QED
    BY <1>1, <2>1, <2>2 DEF Typed, Init
<1>10. HandlesHaveFiles
  BY <1>1 DEF Init, HandlesHaveFiles
<1>11. FilesPlaced
  BY <1>2, <1>4, <1>5, <1>6, <1>8 DEF FilesPlaced, Placed
<1>12. GridUsed
  <2>1. SUFFICES ASSUME NEW b \in Grid, b \in smap, b + RUN <= TAR_BIT PROVE b = 1
    BY DEF GridUsed
  <2>2. b \in Nat \ {0} /\ 1 \in Grid
    BY GridPoints
  <2>3. b \in Run(1)
    BY <1>2, <1>8, <2>1, <2>2 DEF Run
  <2>4. CASE b > 1
    BY <1>2, <2>2, <2>3, <2>4, GridApart DEF Run
  <2>5. QED
    BY <2>2, <2>4
<1>13. QED
  BY <1>8, <1>9, <1>10, <1>11, <1>12 DEF StoreInv

-----------------------------------------------------------------------------
(* Steps.                                                                  *)

LEMMA WithPlace ==
  ASSUME NEW f \in File, inode[f].start # 0
  PROVE  Exists(f)
<1>1. Nothing.start = 0
  BY DEF Nothing
<1>2. QED
  BY <1>1 DEF Exists

(* A step that leaves the map and the places of files as they are.         *)
LEMMA SamePlaces ==
  ASSUME StoreInv, Typed', HandlesHaveFiles', UNCHANGED smap,
         \A f \in File : /\ inode'[f].start = inode[f].start
                         /\ Exists(f)' <=> Exists(f)
                         /\ Exists(f) => inode'[f].size <= RUN * SECT
  PROVE  StoreInv'
<1>1. FilesPlaced'
  BY DEF StoreInv, FilesPlaced, Placed, OnGrid, Run
<1>2. GridUsed'
  BY DEF StoreInv, GridUsed
<1>3. QED
  BY <1>1, <1>2 DEF StoreInv

(* The bytes of a transfer of one round: as many as were asked for, from   *)
(* the position on.                                                        *)
LEMMA OneRound ==
  ASSUME StoreInv, NEW h \in Handle, file[h] # Closed, NEW n \in Nat \ {0},
         NEW last, last = (Pos(h) + n) \div SECT, OneChunk(h, last)
  PROVE  Met(h, n, last) = [k \in 1..n |-> Inode(h).start * SECT + Pos(h) + k - 1]
<1> DEFINE F == FirstSect(h)
           c == chunk(h, last)
           first == Bytes(n, c, Offset(h))
           more == Bytes(n, c, 0)
           moved == first + ((last - F) \div c) * more
           from(r) == (Inode(h).start + F + r * c) * SECT
           place(k) == IF k <= first THEN from(0) + Offset(h) + k - 1
                       ELSE from(1 + (k - first - 1) \div more) + ((k - first - 1) % more)
<1>1. SECT \in Nat \ {0} /\ CHUNK \in Nat \ {0}
  BY StoreAssumption
<1>2. Pos(h) \in Nat /\ Pos(h) + n \in Nat /\ Inode(h).start \in Nat
  BY DEF StoreInv, Typed, Pos, Inode
<1>3. F \in Nat /\ Offset(h) \in 0..(SECT - 1) /\ Pos(h) = SECT * F + Offset(h)
  BY <1>1, <1>2, DivMod DEF FirstSect, Offset
<1>4. last \in Nat /\ Pos(h) + n < SECT * last + SECT
  <2> DEFINE end == Pos(h) + n
  <2>1. end \in Nat /\ last = end \div SECT
    BY <1>2
  <2> HIDE DEF end
  <2>2. last \in Nat /\ end % SECT \in 0..(SECT - 1) /\ end = SECT * last + (end % SECT)
    BY <1>1, <2>1, DivMod
  <2>3. SECT * last \in Nat
    BY <1>1, <2>2
  <2>4. last \in Nat /\ end < SECT * last + SECT
    BY <1>1, <2>2, <2>3
  <2>5. QED
    BY <2>4 DEF end
<1>5. F <= last
  <2>1. Pos(h) <= Pos(h) + n
    BY <1>2
  <2>2. Pos(h) \div SECT <= (Pos(h) + n) \div SECT
    BY <1>1, <1>2, <2>1, DivMonotone
  <2>3. QED
    BY <2>2 DEF FirstSect
<1>6. c = last - F + 1 /\ c \in Nat \ {0} /\ last - F \in Nat
  BY <1>1, <1>3, <1>4, <1>5 DEF OneChunk, chunk, min
<1>7. c * SECT = last * SECT - F * SECT + SECT
      /\ last * SECT = SECT * last /\ F * SECT = SECT * F
      /\ SECT * last \in Nat /\ SECT * F \in Nat
  BY <1>1, <1>3, <1>4, <1>6, Distributes
<1>8. first = n
  <2> DEFINE off == Offset(h)
             all == c * SECT
             pos == Pos(h)
             x == SECT * last
             y == SECT * F
  <2>1. all = x - y + SECT /\ pos + n < x + SECT /\ pos = y + off
        /\ off \in Nat /\ x \in Nat /\ y \in Nat /\ pos \in Nat
    BY <1>2, <1>3, <1>4, <1>7
  <2>2. first = min(n, all - off)
    BY DEF Bytes
  <2> HIDE DEF off, all, pos, x, y, first
  <2>3. QED
    BY <1>1, <2>1, <2>2 DEF min
<1>9. more \in Int
  <2>1. c * SECT - 0 \in Int
    BY <1>1, <1>6
  <2>2. QED
    BY <2>1 DEF Bytes, min
<1>10. (last - F) \div c = 0
  <2>1. last - F < c
    BY <1>3, <1>4, <1>5, <1>6
  <2>2. QED
    BY <1>6, <2>1, SmallQuotient
<1>11. moved = n
  BY <1>8, <1>9, <1>10
<1>12. Met(h, n, last) = [k \in 1..moved |-> place(k)]
  BY <1>3, <1>4, <1>5 DEF Met
<1>13. ASSUME NEW k \in 1..n PROVE place(k) = Inode(h).start * SECT + Pos(h) + k - 1
  <2> DEFINE s == Inode(h).start
  <2>1. place(k) = (s + F + 0 * c) * SECT + Offset(h) + k - 1
    BY <1>8
  <2>2. (s + F + 0 * c) * SECT = s * SECT + SECT * F
    BY <1>1, <1>2, <1>3, <1>6
  <2>3. s * SECT \in Nat
    BY <1>1, <1>2
  <2> HIDE DEF s, place, F, c
  <2>4. place(k) = s * SECT + Pos(h) + k - 1
    BY <1>2, <1>3, <1>7, <2>1, <2>2, <2>3
  <2>5. QED
    BY <2>4 DEF s
<1> HIDE DEF place, moved
<1>14. QED
  BY <1>11, <1>12, <1>13

(* What careful callers ask for is one round.                              *)
LEMMA ReadMet ==
  ASSUME StoreInv, NEW h \in Handle, NEW n \in Lengths, file[h] # Closed, InFile(h, n)
  PROVE  Met(h, n, LastRead(h, n)) = [k \in 1..n |-> Inode(h).start * SECT + Pos(h) + k - 1]
<1>1. Pos(h) + n \in Nat /\ Inode(h).size \in Nat /\ n \in Nat \ {0} /\ SECT \in Nat \ {0}
  BY StoreAssumption DEF StoreInv, Typed, Pos, Inode
<1>2. (Pos(h) + n) \div SECT <= Inode(h).size \div SECT
  BY <1>1, DivMonotone DEF InFile
<1>3. LastRead(h, n) = (Pos(h) + n) \div SECT
  BY <1>2 DEF LastRead, min
<1>4. QED
  BY <1>1, <1>3, OneRound DEF InFile

LEMMA WriteMet ==
  ASSUME StoreInv, NEW h \in Handle, NEW n \in Lengths, file[h] # Closed, InRun(h, n)
  PROVE  Met(h, n, LastWritten(h, n)) = [k \in 1..n |-> Inode(h).start * SECT + Pos(h) + k - 1]
<1>1. Pos(h) + n \in Nat /\ n \in Nat \ {0} /\ SECT \in Nat \ {0} /\ RUN \in Nat
  BY StoreAssumption DEF StoreInv, Typed, Pos
<1>2. (Pos(h) + n) \div SECT <= RUN
  <2>1. RUN * SECT \in Nat
    BY <1>1
  <2>2. (Pos(h) + n) \div SECT <= (RUN * SECT) \div SECT
    BY <1>1, <2>1, DivMonotone DEF InRun
  <2>3. QED
    BY <1>1, <2>2, DivOfMultiple
<1>3. LastWritten(h, n) = (Pos(h) + n) \div SECT
  BY <1>2 DEF LastWritten, min
<1>4. QED
  BY <1>1, <1>3, OneRound DEF InRun

LEMMA StartOfFile ==
  ASSUME StoreInv, NEW f \in File, Exists(f)
  PROVE  inode[f].start # 0
<1>1. RUN \in Nat
  BY StoreAssumption
<1>2. QED
  BY <1>1, PlacedBehindRoot

LEMMA CreateStep ==
  ASSUME StoreInv, NEW h \in Handle, NEW f \in File, BeforeTar, OpenCreates(h, f)
  PROVE  StoreInv'
<1> DEFINE m == FirstFree
<1>1. RUN \in Nat \ {0} /\ TAR_BIT \in Nat
  BY StoreAssumption
<1>2. OnGrid(m) /\ m \in Bits /\ m \notin smap
  BY NewPlace
<1>3. PICK n \in Nat : Bits = 0..(n - 1) /\ TAR_BIT + RUN <= n
  BY BitsFrom
<1>4. /\ file[h] = Closed /\ ~ Exists(f)
      /\ smap' = smap \cup (Run(m) \cap Bits)
      /\ inode' = [inode EXCEPT ![f] = [start |-> m, size |-> 0]]
      /\ file' = [file EXCEPT ![h] = [file |-> f, pos |-> 0]]
  BY DEF OpenCreates
<1> HIDE DEF m
<1>5. m \in Grid /\ m \in Nat \ {0} /\ 1 + RUN <= m /\ m + RUN <= TAR_BIT
  BY <1>2, GridPoints DEF OnGrid
<1>6. Run(m) \subseteq Bits /\ m \in Run(m)
  BY <1>1, <1>3, <1>5 DEF Run
<1>7. Typed'
  BY <1>4, <1>5 DEF StoreInv, Typed
<1>8. inode'[f] = [start |-> m, size |-> 0] /\ \A g \in File \ {f} : inode'[g] = inode[g]
  BY <1>4 DEF StoreInv, Typed
<1>9. Exists(f)' /\ \A g \in File \ {f} : Exists(g)' <=> Exists(g)
  <2>1. inode'[f].start # 0 /\ Nothing.start = 0
    BY <1>5, <1>8 DEF Nothing
  <2>2. QED
    BY <1>8, <2>1 DEF Exists
<1>10. HandlesHaveFiles'
  <2>1. SUFFICES ASSUME NEW g \in Handle, file'[g] # Closed PROVE Exists(file[g].file)'
    BY DEF HandlesHaveFiles
  <2>2. CASE g = h
    BY <1>4, <1>9, <2>2 DEF StoreInv, Typed
  <2>3. CASE g # h
    BY <1>4, <1>9, <2>1, <2>3 DEF StoreInv, Typed, HandlesHaveFiles
  <2>4. QED
    BY <2>2, <2>3
<1>11. FilesPlaced'
  <2>1. SUFFICES ASSUME NEW g \in File, Exists(g)'
                 PROVE  /\ Placed(g)'
                        /\ (Run(inode[g].start) \subseteq smap)'
                        /\ inode'[g].size <= RUN * SECT
                        /\ \A k \in File : Exists(k)' /\ inode'[k].start = inode'[g].start => k = g
    BY DEF FilesPlaced
  <2>2. \A k \in File \ {f} : Exists(k) => inode[k].start # m
    BY <1>1, <1>2, <1>6 DEF StoreInv, FilesPlaced, Run
  <2>3. CASE g = f
    <3>1. RUN * SECT \in Nat
      BY StoreAssumption
    <3>2. Placed(g)' /\ inode'[g].size <= RUN * SECT
      BY <1>2, <1>8, <2>3, <3>1 DEF Placed, OnGrid
    <3>3. (Run(inode[g].start) \subseteq smap)'
      BY <1>4, <1>6, <1>8, <2>3 DEF Run
    <3>4. QED
      BY <1>8, <1>9, <2>2, <2>3, <3>2, <3>3
  <2>4. CASE g # f
    <3>1. Exists(g) /\ inode'[g] = inode[g]
      BY <1>8, <1>9, <2>1, <2>4
    <3>2. Placed(g)' /\ (Run(inode[g].start) \subseteq smap)' /\ inode'[g].size <= RUN * SECT
      BY <1>4, <3>1 DEF StoreInv, FilesPlaced, Placed, OnGrid, Run
    <3>3. QED
      BY <1>8, <1>9, <2>2, <2>4, <3>1, <3>2 DEF StoreInv, FilesPlaced
  <2>5. QED
    BY <2>3, <2>4
<1>12. GridUsed'
  <2>1. SUFFICES ASSUME NEW b \in Grid, b \in smap', b + RUN <= TAR_BIT, b # 1
                 PROVE  \E g \in File : Exists(g)' /\ inode'[g].start = b
    BY DEF GridUsed
  <2>2. CASE b \in smap
    BY <1>4, <1>8, <1>9, <2>1, <2>2 DEF StoreInv, GridUsed
  <2>3. CASE b \in Run(m)
    <3>1. b \in Nat /\ m <= b /\ b < m + RUN
      BY <1>1, <1>5, <2>3 DEF Run
    <3>2. b = m
      BY <1>1, <1>5, <3>1, GridApart
    <3>3. QED
      BY <1>8, <1>9, <3>2
  <2>4. QED
    BY <1>4, <2>1, <2>2, <2>3
<1>13. QED
  BY <1>4, <1>7, <1>10, <1>11, <1>12 DEF StoreInv, Run

LEMMA FindStep ==
  ASSUME StoreInv, NEW h \in Handle, NEW f \in File, NEW trunc \in BOOLEAN,
         OpenFinds(h, f, trunc)
  PROVE  StoreInv'
<1>1. /\ Exists(f) /\ UNCHANGED smap
      /\ inode' = IF trunc THEN [inode EXCEPT ![f].size = 0] ELSE inode
      /\ file' = [file EXCEPT ![h] = [file |-> f, pos |-> 0]]
  BY DEF OpenFinds
<1>2. RUN * SECT \in Nat /\ inode[f].start # 0
  BY StoreAssumption, <1>1, StartOfFile
<1>3. Typed'
  BY <1>1 DEF StoreInv, Typed
<1>4. \A g \in File : inode'[g].start = inode[g].start /\ (g # f => inode'[g] = inode[g])
  BY <1>1 DEF StoreInv, Typed
<1>5. \A g \in File : Exists(g)' <=> Exists(g)
  BY <1>1, <1>2, <1>4, WithPlace DEF Exists, Nothing
<1>6. \A g \in File : Exists(g) => inode'[g].size <= RUN * SECT
  <2>1. inode'[f].size \in {0, inode[f].size}
    BY <1>1 DEF StoreInv, Typed
  <2>2. QED
    BY <1>1, <1>2, <1>4, <2>1 DEF StoreInv, FilesPlaced
<1>7. HandlesHaveFiles'
  BY <1>1, <1>5 DEF StoreInv, Typed, HandlesHaveFiles
<1>8. QED
  BY <1>1, <1>3, <1>4, <1>5, <1>6, <1>7, SamePlaces

LEMMA CloseStep ==
  ASSUME StoreInv, NEW h \in Handle, Close(h)
  PROVE  StoreInv'
<1>1. UNCHANGED <<smap, inode>> /\ file' = [file EXCEPT ![h] = Closed]
  BY DEF Close
<1>2. Typed'
  BY <1>1 DEF StoreInv, Typed
<1>3. HandlesHaveFiles'
  BY <1>1 DEF StoreInv, Typed, HandlesHaveFiles, Exists
<1>4. \A g \in File : Exists(g)' <=> Exists(g)
  BY <1>1 DEF Exists
<1>5. QED
  BY <1>1, <1>2, <1>3, <1>4, SamePlaces DEF StoreInv, FilesPlaced

LEMMA UnlinkStep ==
  ASSUME StoreInv, NEW f \in File, Unlink(f)
  PROVE  StoreInv'
<1> DEFINE b == inode[f].start
<1>1. /\ Exists(f) /\ Opened(f) = {}
      /\ smap' = smap \ Freed(b)
      /\ inode' = [inode EXCEPT ![f] = Nothing] /\ UNCHANGED file
  BY DEF Unlink
<1>2. b \in Nat /\ 1 + RUN <= b /\ RUN \in Nat \ {0}
  BY <1>1, PlacedBehindRoot, StoreAssumption
<1>3. Freed(b) \subseteq Run(b) /\ b \in Freed(b)
  BY <1>2, FreedPart
<1>4. ~ Exists(f)' /\ \A g \in File \ {f} : inode'[g] = inode[g] /\ (Exists(g)' <=> Exists(g))
  BY <1>1 DEF StoreInv, Typed, Exists
<1>5. Typed'
  BY <1>1 DEF StoreInv, Typed, Nothing
<1>6. HandlesHaveFiles'
  <2>1. SUFFICES ASSUME NEW h \in Handle, file[h] # Closed PROVE Exists(file[h].file)'
    BY <1>1 DEF HandlesHaveFiles
  <2>2. file[h].file \in File \ {f}
    BY <1>1, <2>1 DEF StoreInv, Typed, Opened
  <2>3. QED
    BY <1>1, <1>4, <2>1, <2>2 DEF StoreInv, HandlesHaveFiles, Exists
<1>7. {0} \cup Run(1) \subseteq smap'
  <2>1. Run(b) \cap ({0} \cup Run(1)) = {}
    BY <1>2 DEF Run
  <2>2. QED
    BY <1>1, <1>3, <2>1 DEF StoreInv
<1>8. FilesPlaced'
  <2>1. SUFFICES ASSUME NEW g \in File, Exists(g)'
                 PROVE  /\ Placed(g)'
                        /\ (Run(inode[g].start) \subseteq smap)'
                        /\ inode'[g].size <= RUN * SECT
                        /\ \A k \in File : Exists(k)' /\ inode'[k].start = inode'[g].start => k = g
    BY DEF FilesPlaced
  <2>2. g # f /\ Exists(g) /\ inode'[g] = inode[g]
    BY <1>4, <2>1
  <2>3. Run(inode[g].start) \cap Run(b) = {}
    BY <1>1, <2>2, PlacedApart
  <2>4. (Run(inode[g].start) \subseteq smap)'
    BY <1>1, <1>3, <2>2, <2>3 DEF StoreInv, FilesPlaced, Run
  <2>5. Placed(g)' /\ inode'[g].size <= RUN * SECT
    BY <2>2 DEF StoreInv, FilesPlaced, Placed, OnGrid
  <2>6. \A k \in File : Exists(k)' /\ inode'[k].start = inode'[g].start => k = g
    BY <1>4, <2>2 DEF StoreInv, FilesPlaced
  <2>7. QED
    BY <2>4, <2>5, <2>6
<1>9. GridUsed'
  BY <1>1, <1>3, <1>4 DEF StoreInv, GridUsed
<1>10. QED
  BY <1>5, <1>6, <1>7, <1>8, <1>9 DEF StoreInv, Run

(* Neither reading nor writing moves a file, or makes it longer than its   *)
(* run.                                                                    *)
LEMMA AdvanceStep ==
  ASSUME StoreInv, NEW h \in Handle, file[h] # Closed, NEW moved \in Nat,
         Pos(h) + moved <= RUN * SECT, Advance(h, moved), UNCHANGED smap
  PROVE  StoreInv'
<1> DEFINE f == file[h].file
           pos == Pos(h) + moved
<1>1. f \in File /\ Pos(h) \in Nat /\ Exists(f)
  BY DEF StoreInv, Typed, HandlesHaveFiles, Pos
<1>2. inode[f].start # 0
  BY <1>1, StartOfFile
<1>3. /\ file' = [file EXCEPT ![h].pos = pos]
      /\ inode' = inode \/ inode' = [inode EXCEPT ![f].size = pos]
  BY DEF Advance
<1>4. pos \in Nat /\ pos <= RUN * SECT
  BY <1>1
<1> HIDE DEF pos
<1>5. Typed' /\ \A g \in Handle : (file'[g] = Closed <=> file[g] = Closed)
                 /\ (file[g] # Closed => file'[g].file = file[g].file)
  <2>1. file'[h].file = f /\ file'[h] \in [file : File, pos : Nat]
        /\ \A g \in Handle \ {h} : file'[g] = file[g]
    BY <1>1, <1>3, <1>4 DEF StoreInv, Typed
  <2>2. inode' \in [File -> [start : Nat, size : Nat]]
    BY <1>1, <1>3, <1>4 DEF StoreInv, Typed
  <2>3. file' \in [Handle -> [file : File, pos : Nat] \cup {Closed}]
    BY <1>3, <2>1 DEF StoreInv, Typed
  <2>4. QED
    BY <2>1, <2>2, <2>3, StoreAssumption DEF StoreInv, Typed
<1>6. \A g \in File : inode'[g].start = inode[g].start /\ (g # f => inode'[g] = inode[g])
  BY <1>1, <1>3 DEF StoreInv, Typed
<1>7. \A g \in File : Exists(g)' <=> Exists(g)
  BY <1>1, <1>2, <1>6 DEF Exists, Nothing
<1>8. \A g \in File : Exists(g) => inode'[g].size <= RUN * SECT
  <2>1. inode'[f].size \in {pos, inode[f].size}
    BY <1>1, <1>3 DEF StoreInv, Typed
  <2>2. QED
    BY <1>1, <1>4, <1>6, <2>1 DEF StoreInv, FilesPlaced
<1>9. HandlesHaveFiles'
  BY <1>5, <1>7 DEF StoreInv, Typed, HandlesHaveFiles
<1>10. QED
  BY <1>5, <1>6, <1>7, <1>8, <1>9, SamePlaces

LEMMA ReadStep ==
  ASSUME StoreInv, NEW h \in Handle, NEW n \in Lengths, file[h] # Closed,
         InFile(h, n), Read(h, n)
  PROVE  StoreInv'
<1> DEFINE f == file[h].file
<1>1. f \in File /\ Pos(h) \in Nat /\ Exists(f) /\ inode[f].size \in Nat /\ n \in Nat \ {0}
  BY StoreAssumption DEF StoreInv, Typed, HandlesHaveFiles, Pos
<1>2. RUN * SECT \in Nat
  BY StoreAssumption
<1>3. Advance(h, n) /\ UNCHANGED smap
  <2>1. Len(Met(h, n, LastRead(h, n))) = n
    BY <1>1, ReadMet
  <2>2. QED
    BY <2>1 DEF Read
<1>4. Pos(h) + n <= inode[f].size /\ inode[f].size <= RUN * SECT
  BY <1>1 DEF InFile, Inode, StoreInv, FilesPlaced
<1>5. Pos(h) + n <= RUN * SECT
  BY <1>1, <1>2, <1>4
<1>6. QED
  BY <1>1, <1>3, <1>5, AdvanceStep

LEMMA WriteStep ==
  ASSUME StoreInv, NEW h \in Handle, NEW n \in Lengths, NEW v \in Data, file[h] # Closed,
         InRun(h, n), Write(h, n, v)
  PROVE  StoreInv'
<1>1. n \in Nat
  BY StoreAssumption
<1>2. Advance(h, n) /\ UNCHANGED smap
  <2>1. Len(Met(h, n, LastWritten(h, n))) = n
    BY <1>1, WriteMet
  <2>2. QED
    BY <2>1 DEF Write
<1>3. QED
  BY <1>1, <1>2, AdvanceStep DEF InRun

LEMMA NextInv == StoreInv /\ [Next]_vars => StoreInv'
<1>1. SUFFICES ASSUME StoreInv, [Next]_vars PROVE StoreInv'
  OBVIOUS
<1>2. CASE UNCHANGED vars
  BY <1>1, <1>2 DEF vars, StoreInv, Typed, HandlesHaveFiles, FilesPlaced, GridUsed,
                    Placed, OnGrid, Exists, Run
<1>3. ASSUME NEW h \in Handle, NEW f \in File, BeforeTar, OpenCreates(h, f) PROVE StoreInv'
  BY <1>1, <1>3, CreateStep
<1>4. ASSUME NEW h \in Handle, NEW f \in File, NEW trunc \in BOOLEAN, OpenFinds(h, f, trunc)
      PROVE  StoreInv'
  BY <1>1, <1>4, FindStep
<1>5. ASSUME NEW h \in Handle, Close(h) PROVE StoreInv'
  BY <1>1, <1>5, CloseStep
<1>6. ASSUME NEW f \in File, Unlink(f) PROVE StoreInv'
  BY <1>1, <1>6, UnlinkStep
<1>7. ASSUME NEW h \in Handle, NEW n \in Lengths, file[h] # Closed, InFile(h, n), Read(h, n)
      PROVE  StoreInv'
  BY <1>1, <1>7, ReadStep
<1>8. ASSUME NEW h \in Handle, NEW n \in Lengths, NEW v \in Data,
             file[h] # Closed, InRun(h, n), Write(h, n, v)
      PROVE  StoreInv'
  BY <1>1, <1>8, WriteStep
<1>9. QED
  BY <1>1, <1>2, <1>3, <1>4, <1>5, <1>6, <1>7, <1>8 DEF Next

(* For any sizes of sectors, runs and maps, and any number of files: what  *)
(* alloc_smap_bit and do_unlink do to the sector map, and do_rw to the     *)
(* sizes, never gives a sector to two files or to a file and the root      *)
(* directory.                                                              *)
THEOREM OwnSectors == Spec => []SectorsOwned
<1>1. Init => StoreInv
  BY InitInv
<1>2. StoreInv /\ [Next]_vars => StoreInv'
  BY NextInv
<1>3. StoreInv => SectorsOwned
  BY InvOwned
<1>4. QED
  BY <1>1, <1>2, <1>3, PTL DEF Spec

-----------------------------------------------------------------------------
(* The disk, read through inodes and runs, is a store of byte files: Store *)
(* implements ByteFiles, for every size of sectors, runs and maps.         *)

DiskTyped == disk \in [Addresses -> Data]

Base(f) == inode[f].start * SECT      \* where the bytes of a file begin
Size(f) == inode[f].size
Content(f) == IF Exists(f) THEN [i \in 1..Size(f) |-> disk[Base(f) + i - 1]] ELSE NoFile

-----------------------------------------------------------------------------
(* Arithmetic of addresses.                                                *)

LEMMA RunsInBytes ==
  ASSUME NEW a \in Nat, NEW b \in Nat, NEW r \in Nat, NEW s \in Nat, a + r <= b
  PROVE  a * s + r * s <= b * s
<1>1. PICK d \in Nat : b = a + r + d
  BY b - a - r \in Nat
<1>2. b * s = a * s + r * s + d * s
  BY <1>1
<1>3. d * s \in Nat /\ a * s \in Nat /\ r * s \in Nat
  OBVIOUS
<1>4. QED
  BY <1>2, <1>3

(* A file's run lies on the disk, and beside that of any other file.       *)
LEMMA BytesApart ==
  ASSUME StoreInv, NEW f \in File, Exists(f)
  PROVE  /\ Base(f) \in Nat /\ RUN * SECT \in Nat /\ Size(f) \in 0..(RUN * SECT)
         /\ Base(f) + RUN * SECT <= NR_BITS * SECT /\ NR_BITS * SECT \in Nat
         /\ \A g \in File \ {f} : Exists(g) =>
              Base(f) + RUN * SECT <= Base(g) \/ Base(g) + RUN * SECT <= Base(f)
<1>1. RUN \in Nat \ {0} /\ SECT \in Nat \ {0} /\ TAR_BIT \in Nat
  BY StoreAssumption
<1>2. NR_BITS \in Nat /\ TAR_BIT + RUN <= NR_BITS
  BY BitsFrom
<1>3. inode[f].start \in Nat /\ inode[f].size \in Nat /\ inode[f].size <= RUN * SECT
  BY DEF StoreInv, Typed, FilesPlaced
<1>4. inode[f].start + RUN <= NR_BITS
  <2>1. Placed(f)
    BY DEF StoreInv, FilesPlaced
  <2>2. QED
    BY <1>1, <1>2, <1>3, <2>1 DEF Placed, OnGrid
<1>5. Base(f) \in Nat /\ RUN * SECT \in Nat /\ NR_BITS * SECT \in Nat
  BY <1>1, <1>2, <1>3 DEF Base
<1>6. Base(f) + RUN * SECT <= NR_BITS * SECT
  BY <1>1, <1>2, <1>3, <1>4, RunsInBytes DEF Base
<1>7. ASSUME NEW g \in File \ {f}, Exists(g)
      PROVE  Base(f) + RUN * SECT <= Base(g) \/ Base(g) + RUN * SECT <= Base(f)
  <2>1. inode[g].start \in Nat
    BY DEF StoreInv, Typed
  <2>2. inode[f].start + RUN <= inode[g].start \/ inode[g].start + RUN <= inode[f].start
    BY <1>7, PlacedBeside
  <2>3. QED
    BY <1>1, <1>3, <2>1, <2>2, RunsInBytes DEF Base
<1>8. Size(f) \in 0..(RUN * SECT)
  BY <1>3, <1>5 DEF Size
<1>9. QED
  BY <1>5, <1>6, <1>7, <1>8

LEMMA ContentOfFile ==
  ASSUME StoreInv, DiskTyped, NEW f \in File, Exists(f)
  PROVE  /\ Content(f) = [i \in 1..Size(f) |-> disk[Base(f) + i - 1]]
         /\ Content(f) \in Seq(Data) /\ Len(Content(f)) = Size(f)
         /\ Content(f) # NoFile
<1>1. Size(f) \in Nat /\ Base(f) \in Nat
  BY BytesApart
<1>2. ASSUME NEW i \in 1..Size(f) PROVE Base(f) + i - 1 \in Addresses
  BY BytesApart DEF Addresses
<1>3. Content(f) = [i \in 1..Size(f) |-> disk[Base(f) + i - 1]]
  BY DEF Content
<1>4. Content(f) \in Seq(Data) /\ Len(Content(f)) = Size(f)
  <2> DEFINE e(i) == disk[Base(f) + i - 1]
  <2>1. \A i \in 1..Size(f) : e(i) \in Data
    BY <1>2 DEF DiskTyped
  <2> HIDE DEF e
  <2>2. [i \in 1..Size(f) |-> e(i)] \in Seq(Data) /\ Len([i \in 1..Size(f) |-> e(i)]) = Size(f)
    BY <1>1, <2>1
  <2>3. QED
    BY <1>3, <2>2 DEF e
<1>5. QED
  BY <1>3, <1>4, StoreAssumption

LEMMA ContentsOf == Contents = [f \in File |-> Content(f)]
BY DEF Contents, Content, Base, Size

-----------------------------------------------------------------------------
(* Each step is one of ByteFiles.                                          *)

(* What a step does to one file's content only.                            *)
LEMMA OneContent ==
  ASSUME NEW f \in File, NEW c, Content(f)' = c,
         \A g \in File \ {f} : Content(g)' = Content(g)
  PROVE  Contents' = [Contents EXCEPT ![f] = c]
<1>1. Contents' = [g \in File |-> Content(g)']
  BY DEF Contents, Content, Base, Size
<1>2. QED
  BY <1>1, ContentsOf

LEMMA SameContents ==
  ASSUME \A g \in File : Content(g)' = Content(g)
  PROVE  Contents' = Contents
<1>1. Contents' = [g \in File |-> Content(g)']
  BY DEF Contents, Content, Base, Size
<1>2. QED
  BY <1>1, ContentsOf

LEMMA CreateRefines ==
  ASSUME StoreInv, NEW h \in Handle, NEW f \in File, BeforeTar, OpenCreates(h, f)
  PROVE  Abs!Open(h, f) /\ UNCHANGED disk
<1> DEFINE m == FirstFree
<1>1. /\ file[h] = Closed /\ UNCHANGED disk /\ got' = <<>>
      /\ inode' = [inode EXCEPT ![f] = [start |-> m, size |-> 0]]
      /\ file' = [file EXCEPT ![h] = [file |-> f, pos |-> 0]]
  BY DEF OpenCreates
<1>2. m \in Nat \ {0}
  BY NewPlace, GridPoints DEF OnGrid
<1> HIDE DEF m
<1>3. inode'[f] = [start |-> m, size |-> 0] /\ \A g \in File \ {f} : inode'[g] = inode[g]
  BY <1>1 DEF StoreInv, Typed
<1>4. Content(f)' = <<>>
  <2>1. inode'[f].start # 0 /\ Nothing.start = 0
    BY <1>2, <1>3 DEF Nothing
  <2>2. Exists(f)'
    BY <2>1 DEF Exists
  <2>3. Size(f)' = 0
    BY <1>3 DEF Size
  <2>4. Content(f)' = [i \in 1..0 |-> disk'[Base(f)' + i - 1]]
    BY <2>2, <2>3 DEF Content
  <2>5. QED
    BY <2>4
<1>5. \A g \in File \ {f} : Content(g)' = Content(g)
  BY <1>1, <1>3 DEF Content, Base, Size, Exists
<1>6. Contents' = [Contents EXCEPT ![f] = <<>>]
  BY <1>4, <1>5, OneContent
<1>7. QED
  BY <1>1, <1>6 DEF Abs!Open, Abs!At

LEMMA FindRefines ==
  ASSUME StoreInv, DiskTyped, NEW h \in Handle, NEW f \in File, NEW trunc \in BOOLEAN,
         OpenFinds(h, f, trunc)
  PROVE  Abs!Open(h, f) /\ UNCHANGED disk
<1>1. /\ file[h] = Closed /\ Exists(f) /\ UNCHANGED disk /\ got' = <<>>
      /\ inode' = IF trunc THEN [inode EXCEPT ![f].size = 0] ELSE inode
      /\ file' = [file EXCEPT ![h] = [file |-> f, pos |-> 0]]
  BY DEF OpenFinds
<1>2. CASE trunc
  <2>1. /\ inode'[f].start = inode[f].start /\ inode'[f].size = 0
        /\ \A g \in File \ {f} : inode'[g] = inode[g]
    BY <1>1, <1>2 DEF StoreInv, Typed
  <2>2. Exists(f)'
    <3>1. inode'[f].start # 0 /\ Nothing.start = 0
      BY <1>1, <2>1, StartOfFile DEF Nothing
    <3>2. QED
      BY <3>1 DEF Exists
  <2>3. Content(f)' = [i \in 1..0 |-> disk'[Base(f)' + i - 1]]
    BY <2>1, <2>2 DEF Content, Size
  <2>4. Content(f)' = <<>>
    BY <2>3
  <2>5. \A g \in File \ {f} : Content(g)' = Content(g)
    BY <1>1, <2>1 DEF Content, Base, Size, Exists
  <2>6. Contents' = [Contents EXCEPT ![f] = <<>>]
    BY <2>4, <2>5, OneContent
  <2>7. QED
    BY <1>1, <2>6 DEF Abs!Open, Abs!At
<1>3. CASE ~ trunc
  <2>1. Contents' = Contents
    BY <1>1, <1>3 DEF Contents, Exists
  <2>2. Contents[f] # NoFile
    BY <1>1, ContentOfFile, ContentsOf
  <2>3. QED
    BY <1>1, <2>1, <2>2 DEF Abs!Open, Abs!At
<1>4. QED
  BY <1>2, <1>3

LEMMA CloseRefines ==
  ASSUME NEW h \in Handle, Close(h)
  PROVE  Abs!Close(h) /\ UNCHANGED disk
<1>1. Contents' = Contents
  BY DEF Close, Contents, Exists
<1>2. QED
  BY <1>1 DEF Close, Abs!Close

LEMMA UnlinkRefines ==
  ASSUME StoreInv, DiskTyped, NEW f \in File, Unlink(f)
  PROVE  Abs!Remove(f) /\ UNCHANGED disk
<1>1. /\ Exists(f) /\ Opened(f) = {} /\ UNCHANGED <<file, disk>> /\ got' = <<>>
      /\ inode' = [inode EXCEPT ![f] = Nothing]
  BY DEF Unlink
<1>2. inode'[f] = Nothing /\ \A g \in File \ {f} : inode'[g] = inode[g]
  BY <1>1 DEF StoreInv, Typed
<1>3. Content(f)' = NoFile
  BY <1>2 DEF Content, Exists
<1>4. \A g \in File \ {f} : Content(g)' = Content(g)
  BY <1>1, <1>2 DEF Content, Base, Size, Exists
<1>5. Contents' = [Contents EXCEPT ![f] = NoFile]
  BY <1>3, <1>4, OneContent
<1>6. Contents[f] # NoFile
  BY <1>1, ContentOfFile, ContentsOf
<1>7. QED
  BY <1>1, <1>5, <1>6 DEF Abs!Remove, Abs!HandlesOn, Opened

(* The position moves by what was asked for.                               *)
LEMMA AdvanceCursor ==
  ASSUME StoreInv, NEW h \in Handle, file[h] # Closed, NEW n \in Nat, Advance(h, n)
  PROVE  /\ file' = [file EXCEPT ![h].pos = @ + n]
         /\ \A g \in File : inode'[g].start = inode[g].start /\ (Exists(g)' <=> Exists(g))
         /\ \A g \in File \ {file[h].file} : inode'[g] = inode[g]
         /\ inode'[file[h].file].size =
              IF Pos(h) + n >= Inode(h).size THEN Pos(h) + n ELSE Inode(h).size
<1> DEFINE pos == Pos(h) + n
<1>1. PICK f \in File : f = file[h].file /\ Exists(f)
  BY DEF StoreInv, Typed, HandlesHaveFiles
<1>2. /\ file' = [file EXCEPT ![h].pos = pos]
      /\ inode' = IF pos >= inode[f].size THEN [inode EXCEPT ![f].size = pos] ELSE inode
  BY <1>1 DEF Advance, Inode
<1>3. file' = [file EXCEPT ![h].pos = @ + n]
  BY <1>2 DEF Pos
<1> HIDE DEF pos
<1>4. \A g \in File : inode'[g].start = inode[g].start /\ (g # f => inode'[g] = inode[g])
  BY <1>1, <1>2 DEF StoreInv, Typed
<1>5. inode'[f].size = IF pos >= inode[f].size THEN pos ELSE inode[f].size
  BY <1>1, <1>2 DEF StoreInv, Typed
<1>6. \A g \in File : Exists(g)' <=> Exists(g)
  <2>1. inode[f].start # 0 /\ Nothing.start = 0
    BY <1>1, StartOfFile DEF Nothing
  <2>2. Exists(f)'
    BY <1>1, <1>4, <2>1 DEF Exists
  <2>3. QED
    BY <1>1, <1>4, <2>2 DEF Exists
<1>7. QED
  BY <1>1, <1>3, <1>4, <1>5, <1>6 DEF pos, Inode

LEMMA ReadRefines ==
  ASSUME StoreInv, DiskTyped, NEW h \in Handle, NEW n \in Lengths, file[h] # Closed,
         InFile(h, n), Read(h, n)
  PROVE  Abs!Read(h, n) /\ UNCHANGED disk
<1> DEFINE met == Met(h, n, LastRead(h, n))
<1>1. PICK f \in File : f = file[h].file /\ Exists(f)
  BY DEF StoreInv, Typed, HandlesHaveFiles
<1>2. n \in Nat \ {0} /\ Pos(h) \in Nat
  BY StoreAssumption DEF StoreInv, Typed, Pos
<1>3. met = [k \in 1..n |-> Base(f) + Pos(h) + k - 1]
  BY <1>1, ReadMet DEF Inode, Base
<1>4. DOMAIN met = 1..n /\ Len(met) = n
  BY <1>2, <1>3
<1>5. got' = [k \in 1..n |-> disk[met[k]]] /\ Advance(h, n) /\ UNCHANGED disk
  BY <1>4 DEF Read
<1> HIDE DEF met
<1>6. Pos(h) + n <= Size(f) /\ Size(f) \in Nat /\ Base(f) \in Nat
  BY <1>1, BytesApart DEF InFile, Inode, Size
<1>7. file' = [file EXCEPT ![h].pos = @ + n]
  BY <1>2, <1>5, AdvanceCursor
<1>8. \A g \in File : inode'[g].start = inode[g].start /\ (Exists(g)' <=> Exists(g))
                      /\ inode'[g].size = inode[g].size
  <2>1. inode'[f].size = inode[f].size
    BY <1>1, <1>2, <1>5, <1>6, AdvanceCursor DEF Inode, Size
  <2>2. QED
    BY <1>1, <1>2, <1>5, <2>1, AdvanceCursor
<1>9. Contents' = Contents
  <2>1. \A g \in File : Content(g)' = Content(g)
    BY <1>5, <1>8 DEF Content, Base, Size
  <2>2. QED
    BY <2>1, SameContents
<1>10. Contents[f] \in Seq(Data) /\ Len(Contents[f]) = Size(f)
       /\ Contents[f] = [i \in 1..Size(f) |-> disk[Base(f) + i - 1]]
  BY <1>1, ContentOfFile, ContentsOf
<1>11. got' = SubSeq(Contents[f], Pos(h) + 1, Pos(h) + n)
  <2> DEFINE p == Pos(h)
             c == Contents[f]
  <2>1. p \in Nat /\ p + n <= Len(c) /\ c \in Seq(Data)
    BY <1>2, <1>6, <1>10
  <2>2. \A k \in 1..n : c[p + k] = disk[met[k]]
    <3>1. SUFFICES ASSUME NEW k \in 1..n PROVE c[p + k] = disk[met[k]]
      OBVIOUS
    <3>2. met[k] = Base(f) + (p + k) - 1 /\ p + k \in 1..Size(f)
      BY <1>2, <1>3, <1>6
    <3> HIDE DEF p
    <3>3. QED
      BY <1>10, <3>2
  <2> HIDE DEF p, c
  <2>3. SubSeq(c, p + 1, p + n) = [k \in 1..n |-> c[p + k]]
    BY <1>2, <2>1
  <2>4. got' = SubSeq(c, p + 1, p + n)
    BY <1>5, <2>2, <2>3
  <2>5. QED
    BY <2>4 DEF p, c
<1>12. QED
  BY <1>1, <1>5, <1>6, <1>7, <1>9, <1>10, <1>11 DEF Abs!Read, Pos

(* The bytes that are written are those at the positions of the writer's   *)
(* file, and no other file has one of them.                                *)
LEMMA WriteRefines ==
  ASSUME StoreInv, DiskTyped, NEW h \in Handle, NEW n \in Lengths, NEW v \in Data,
         file[h] # Closed, InRun(h, n), Write(h, n, v)
  PROVE  Abs!Write(h, n, v) /\ DiskTyped'
<1> DEFINE met == Met(h, n, LastWritten(h, n))
           over == {met[k] : k \in DOMAIN met}
           p == Pos(h)
<1>1. PICK f \in File : f = file[h].file /\ Exists(f)
  BY DEF StoreInv, Typed, HandlesHaveFiles
<1>2. n \in Nat \ {0} /\ p \in Nat
  BY StoreAssumption DEF StoreInv, Typed, Pos
<1>3. met = [k \in 1..n |-> Base(f) + p + k - 1]
  BY <1>1, WriteMet DEF Inode, Base
<1>4. DOMAIN met = 1..n /\ Len(met) = n
  BY <1>2, <1>3
<1>5. /\ disk' = [a \in Addresses |-> IF a \in over THEN v ELSE disk[a]]
      /\ Advance(h, n) /\ got' = <<>>
  BY <1>4 DEF Write
<1>6. over = {Base(f) + p + k - 1 : k \in 1..n}
  BY <1>3, <1>4
<1> HIDE DEF met, over
<1>7. /\ Base(f) \in Nat /\ RUN * SECT \in Nat /\ Size(f) \in Nat /\ Size(f) <= RUN * SECT
      /\ p <= Size(f) /\ p + n <= RUN * SECT
  BY <1>1, BytesApart DEF InRun, Inode, Size
<1>8. DiskTyped'
  BY <1>5 DEF DiskTyped
<1>9. file' = [file EXCEPT ![h].pos = @ + n]
  BY <1>2, <1>5, AdvanceCursor
<1>10. /\ \A g \in File : inode'[g].start = inode[g].start /\ (Exists(g)' <=> Exists(g))
       /\ \A g \in File \ {f} : inode'[g] = inode[g]
       /\ inode'[f].size = IF p + n >= Size(f) THEN p + n ELSE Size(f)
  BY <1>1, <1>2, <1>5, AdvanceCursor DEF Inode, Size
<1> DEFINE old == Contents[f]
           len == IF p + n > Len(old) THEN p + n ELSE Len(old)
           new == [i \in 1..len |-> IF i \in (p + 1)..(p + n) THEN v ELSE old[i]]
<1>11. old = [i \in 1..Size(f) |-> disk[Base(f) + i - 1]] /\ Len(old) = Size(f) /\ old # NoFile
  BY <1>1, ContentOfFile, ContentsOf
<1>12. Content(f)' = new
  <2>1. len \in Nat /\ len = inode'[f].size /\ len <= RUN * SECT
    BY <1>2, <1>7, <1>10, <1>11
  <2>2. Content(f)' = [i \in 1..len |-> disk'[Base(f) + i - 1]]
    BY <1>1, <1>10, <2>1 DEF Content, Base, Size
  <2>3. ASSUME NEW i \in 1..len
        PROVE  disk'[Base(f) + i - 1] = IF i \in (p + 1)..(p + n) THEN v ELSE old[i]
    <3>1. Base(f) + i - 1 \in Addresses
      BY <1>1, <1>7, <2>1, BytesApart DEF Addresses
    <3>2. Base(f) + i - 1 \in over <=> i \in (p + 1)..(p + n)
      <4>1. CASE i \in (p + 1)..(p + n)
        <5>1. i - p \in 1..n /\ Base(f) + i - 1 = Base(f) + p + (i - p) - 1
          BY <1>2, <1>7, <2>1, <4>1
        <5>2. QED
          BY <1>6, <4>1, <5>1
      <4>2. CASE i \notin (p + 1)..(p + n)
        BY <1>2, <1>6, <1>7, <2>1, <4>2
      <4>3. QED
        BY <4>1, <4>2
    <3>3. i \notin (p + 1)..(p + n) => i \in 1..Size(f)
      BY <1>2, <1>7, <1>11, <2>1
    <3>4. QED
      BY <1>5, <1>11, <3>1, <3>2, <3>3
  <2> HIDE DEF len, old, p
  <2>4. QED
    BY <2>2, <2>3
<1>13. \A g \in File \ {f} : Content(g)' = Content(g)
  <2>1. SUFFICES ASSUME NEW g \in File \ {f} PROVE Content(g)' = Content(g)
    OBVIOUS
  <2>2. CASE ~ Exists(g)
    BY <1>10, <2>2 DEF Content
  <2>3. CASE Exists(g)
    <3>1. /\ Base(g) \in Nat /\ Size(g) \in 0..(RUN * SECT)
          /\ Base(f) + RUN * SECT <= Base(g) \/ Base(g) + RUN * SECT <= Base(f)
      BY <1>1, <2>3, BytesApart
    <3>2. \A i \in 1..Size(g) : Base(g) + i - 1 \in Addresses
      BY <2>3, BytesApart DEF Addresses
    <3>3. \A i \in 1..Size(g) : Base(g) + i - 1 \notin over
      BY <1>2, <1>6, <1>7, <3>1
    <3>4. \A i \in 1..Size(g) : disk'[Base(g) + i - 1] = disk[Base(g) + i - 1]
      BY <1>5, <3>2, <3>3
    <3>5. Base(g)' = Base(g) /\ Size(g)' = Size(g) /\ Exists(g)'
      BY <1>10, <2>3 DEF Base, Size
    <3>6. QED
      BY <2>3, <3>4, <3>5 DEF Content
  <2>4. QED
    BY <2>2, <2>3
<1>14. Contents' = [Contents EXCEPT ![f] = new]
  BY <1>12, <1>13, OneContent
<1>15. QED
  BY <1>1, <1>5, <1>7, <1>8, <1>9, <1>11, <1>14 DEF Abs!Write, Pos

-----------------------------------------------------------------------------
LEMMA RefineInit == Init => DiskTyped /\ Abs!Init
<1>1. SUFFICES ASSUME Init PROVE DiskTyped /\ Abs!Init
  OBVIOUS
<1>2. DiskTyped
  BY <1>1 DEF Init, DiskTyped
<1>3. StoreInv
  BY <1>1, InitInv
<1>4. Contents \in [File -> Seq(Data) \cup {NoFile}]
  <2>1. \A f \in File : Content(f) \in Seq(Data) \cup {NoFile}
    BY <1>2, <1>3, ContentOfFile DEF Content
  <2>2. QED
    BY <2>1, ContentsOf
<1>5. QED
  BY <1>1, <1>2, <1>4 DEF Init, Abs!Init

LEMMA RefineStep ==
  StoreInv /\ DiskTyped /\ [Next]_vars => DiskTyped' /\ [Abs!Next]_(Abs!vars)
<1>1. SUFFICES ASSUME StoreInv, DiskTyped, [Next]_vars
               PROVE  DiskTyped' /\ [Abs!Next]_(Abs!vars)
  OBVIOUS
<1>2. CASE UNCHANGED vars
  <2>1. Contents' = Contents
    BY <1>2 DEF vars, Contents, Exists
  <2>2. QED
    BY <1>1, <1>2, <2>1 DEF vars, Abs!vars, DiskTyped
<1>3. ASSUME NEW h \in Handle, NEW f \in File, BeforeTar, OpenCreates(h, f)
      PROVE  DiskTyped' /\ Abs!Next
  BY <1>1, <1>3, CreateRefines DEF Abs!Next, DiskTyped
<1>4. ASSUME NEW h \in Handle, NEW f \in File, NEW trunc \in BOOLEAN, OpenFinds(h, f, trunc)
      PROVE  DiskTyped' /\ Abs!Next
  BY <1>1, <1>4, FindRefines DEF Abs!Next, DiskTyped
<1>5. ASSUME NEW h \in Handle, Close(h) PROVE DiskTyped' /\ Abs!Next
  BY <1>1, <1>5, CloseRefines DEF Abs!Next, DiskTyped
<1>6. ASSUME NEW f \in File, Unlink(f) PROVE DiskTyped' /\ Abs!Next
  BY <1>1, <1>6, UnlinkRefines DEF Abs!Next, DiskTyped
<1>7. ASSUME NEW h \in Handle, NEW n \in Lengths, file[h] # Closed, InFile(h, n), Read(h, n)
      PROVE  DiskTyped' /\ Abs!Next
  BY <1>1, <1>7, ReadRefines DEF Abs!Next, DiskTyped
<1>8. ASSUME NEW h \in Handle, NEW n \in Lengths, NEW v \in Data,
             file[h] # Closed, InRun(h, n), Write(h, n, v)
      PROVE  DiskTyped' /\ Abs!Next
  BY <1>1, <1>8, WriteRefines DEF Abs!Next
<1>9. QED
  BY <1>1, <1>2, <1>3, <1>4, <1>5, <1>6, <1>7, <1>8 DEF Next

(* Whatever the sizes and however many files and handles, a process that   *)
(* keeps to what do_rw can do sees byte files: what it reads is what was   *)
(* last written there.                                                     *)
THEOREM ByteFilesImplemented == Spec => ImplementsByteFiles
<1>1. Init => StoreInv
  BY InitInv
<1>2. StoreInv /\ [Next]_vars => StoreInv'
  BY NextInv
<1>3. QED
  BY RefineInit, RefineStep, <1>1, <1>2, PTL DEF Spec, ImplementsByteFiles, Abs!Spec
=============================================================================
