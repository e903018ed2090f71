--------------------------- MODULE InstallProofs ---------------------------
(***************************************************************************)
(* Proofs about Install, for every archive, any room on the disk and any   *)
(* number of power failures.  Both properties rest on the order in which   *)
(* files get into the directory, which is the archive's, and on the maps   *)
(* being given out from below.                                             *)
(***************************************************************************)
EXTENDS Install, SequenceTheorems, TLAPS

Creating == {"alloc_smap_bit", "alloc_smap_rest", "new_inode", "new_dir_entry"}
HasRun == {"alloc_smap_rest", "new_inode", "new_dir_entry"}
Filling == {"sync root", "truncate", "data", "size"}
Extracting == {"alloc_imap_bit", "mark"} \cup Creating \cup Filling
Made == {"boot", "untar", "extract done"} \cup Extracting

Typed ==
  /\ super \in BOOLEAN /\ tar \in {"absent", "there", "cleared"}
  /\ pc \in {"superblock"} \cup Making \cup Made
  /\ inodes \in [Numbers -> [run : 0..NR_FREE, size : Nat]]
  /\ data \in [Numbers -> Seq(Names \X Nat)]
  /\ entries \in Seq([name : Names, nr : Numbers])
  /\ root \in Nat /\ root_inode \in Nat /\ fd_pos \in Nat /\ i \in Nat
  /\ inode_nr \in 0..NR_FREE /\ free_sect_nr \in 0..NR_FREE
  /\ crashes \in 0..MAX_CRASHES

(* Until mkfs is done there are no entries; the maps get their first bits. *)
Blanks ==
  /\ tar = "absent" =>
       /\ entries = <<>>
       /\ IF super THEN pc \in Making ELSE pc \in {"boot", "superblock"}
       /\ pc \in Making \ {"inode map"} => imap = {0}
       /\ pc \in {"inodes", "root"} => smap = {0}
  /\ tar # "absent" => super /\ pc \in Made

(* The directory is a beginning of the archive, and its size on disk is    *)
(* behind only while the new one is about to be written.                   *)
Listed ==
  /\ Len(entries) <= Len(Archive)
  /\ \A k \in 1..Len(entries) : entries[k].name = Archive[k]
  /\ root = IF pc = "sync root" THEN Len(entries) - 1 ELSE Len(entries)
  /\ pc # "boot" => root_inode = Len(entries)

(* Bits are given out from below; one that no file has was lost in a       *)
(* failure, or is about to be a file's.                                    *)
NewInodes == IF pc \in Creating THEN 1 ELSE 0
NewRuns == IF pc \in HasRun THEN 1 ELSE 0
Given ==
  tar # "absent" =>
    \E n, r \in 0..NR_FREE :
      /\ imap = 0..n /\ n <= Len(entries) + crashes + NewInodes
      /\ smap = 0..r /\ r <= Len(entries) + crashes + NewRuns

RunOf(k) == inodes[entries[k].nr].run

(* Files have inodes and runs of their own.                                *)
Owned ==
  /\ \A k \in 1..Len(entries) : entries[k].nr \in imap /\ RunOf(k) \in smap \ {0}
                                /\ RunOf(k) \in whole
  /\ \A k, l \in 1..Len(entries) :
       k # l => entries[k].nr # entries[l].nr /\ RunOf(k) # RunOf(l)

(* A file that is being created has them as well.                          *)
NewOwned ==
  /\ pc \in {"alloc_imap_bit"} \cup Creating => i = Len(entries) + 1 /\ i <= Len(Archive)
  /\ pc \in Creating =>
       inode_nr \in imap \ {0} /\ \A k \in 1..Len(entries) : entries[k].nr # inode_nr
  /\ pc \in HasRun =>
       free_sect_nr \in smap \ {0} /\ \A k \in 1..Len(entries) : RunOf(k) # free_sect_nr
  /\ pc \in HasRun \ {"alloc_smap_rest"} => free_sect_nr \in whole
  /\ pc = "new_dir_entry" => inodes[inode_nr].run = free_sect_nr

(* The first n pieces of the kth file are in their places.                 *)
HasPieces(k, n) ==
  /\ Len(data[RunOf(k)]) >= n
  /\ \A p \in 1..n : data[RunOf(k)][p] = Piece(Archive[k], p)

Complete(k) ==
  inodes[entries[k].nr].size = Pieces[Archive[k]] /\ HasPieces(k, Pieces[Archive[k]])

(* Since the power came back, the files before the present one have been   *)
(* written, and what of the present one is counted is there.               *)
Extracted ==
  /\ pc \in Extracting =>
       /\ tar = "there" /\ i >= 1 /\ i <= Len(entries) + 1
       /\ \A k \in 1..(i - 1) : Complete(k)
  /\ pc \in Filling => i <= Len(entries) /\ inode_nr = entries[i].nr
  /\ pc = "data" =>
       /\ fd_pos < Pieces[Archive[i]]
       /\ inodes[inode_nr].size = fd_pos /\ HasPieces(i, fd_pos)
  /\ pc = "size" =>
       /\ fd_pos >= 1 /\ fd_pos <= Pieces[Archive[i]]
       /\ inodes[inode_nr].size = fd_pos - 1 /\ HasPieces(i, fd_pos)
  /\ pc = "mark" => i = Len(Archive) + 1
  /\ tar = "cleared" =>
       Len(entries) = Len(Archive) /\ \A k \in 1..Len(Archive) : Complete(k)

InstallInv == Typed /\ Blanks /\ Listed /\ Given /\ Owned /\ NewOwned /\ Extracted

-----------------------------------------------------------------------------
(* Operators.                                                              *)

(* The first bit not set, when bits were given out from below.             *)
LEMMA NextBit ==
  ASSUME NEW n \in Nat, n < NR_FREE
  PROVE  Least(Numbers \ (0..n)) = n + 1
<1> DEFINE S == Numbers \ (0..n)
<1>1. n + 1 \in S /\ \A j \in S : j \in Nat /\ n + 1 <= j
  BY InstallAssumption DEF Numbers
<1>2. \A k \in S : (\A j \in S : k <= j) => k = n + 1
  BY <1>1
<1> HIDE DEF S
<1>3. \E k \in S : \A j \in S : k <= j
  BY <1>1
<1>4. Least(S) \in S /\ \A j \in S : Least(S) <= j
  BY <1>3 DEF Least
<1>5. QED
  BY <1>2, <1>4 DEF S

LEMMA Lengths ==
  ASSUME Typed, Listed
  PROVE  /\ Len(entries) \in Nat /\ Len(Archive) \in Nat \ {0} /\ Len(entries) <= Len(Archive)
         /\ DOMAIN entries = 1..Len(entries) /\ DOMAIN Archive = 1..Len(Archive)
         /\ \A k \in 1..Len(entries) : entries[k].nr \in Numbers /\ RunOf(k) \in 0..NR_FREE
         /\ \A k \in 1..Len(Archive) : Archive[k] \in Names /\ Pieces[Archive[k]] \in Nat \ {0}
<1>1. entries \in Seq([name : Names, nr : Numbers]) /\ inodes \in [Numbers -> [run : 0..NR_FREE, size : Nat]]
  BY DEF Typed
<1>2. Archive \in Seq(Names) /\ Archive # <<>>
  BY InstallAssumption
<1>3. Len(entries) \in Nat /\ DOMAIN entries = 1..Len(entries)
  BY <1>1, LenProperties
<1>4. Len(Archive) \in Nat \ {0} /\ DOMAIN Archive = 1..Len(Archive)
  BY <1>2, LenProperties, EmptySeq
<1>5. ASSUME NEW k \in 1..Len(entries) PROVE entries[k].nr \in Numbers /\ RunOf(k) \in 0..NR_FREE
  <2>1. entries[k] \in [name : Names, nr : Numbers]
    BY <1>1, ElementOfSeq
  <2>2. QED
    BY <1>1, <2>1 DEF RunOf
<1>6. ASSUME NEW k \in 1..Len(Archive) PROVE Archive[k] \in Names /\ Pieces[Archive[k]] \in Nat \ {0}
  BY <1>2, ElementOfSeq, InstallAssumption
<1>7. Len(entries) <= Len(Archive)
  BY DEF Listed
<1>8. QED
  BY <1>3, <1>4, <1>5, <1>6, <1>7

(* Looking for the nth file of the archive.                                *)
LEMMA Search ==
  ASSUME Typed, Listed, NEW n \in 1..Len(Archive), NEW size \in 0..Len(entries)
  PROVE  search_file(Archive[n], size) = IF n <= size THEN entries[n].nr ELSE 0
<1>1. /\ Len(entries) \in Nat /\ Len(Archive) \in Nat /\ Len(entries) <= Len(Archive)
      /\ DOMAIN entries = 1..Len(entries) /\ DOMAIN Archive = 1..Len(Archive)
  BY Lengths
<1>2. Places(Archive[n], size) = IF n <= size THEN {n} ELSE {}
  <2>1. \A k \in 1..size : k \in DOMAIN entries /\ entries[k].name = Archive[k]
    <3>1. \A k \in 1..Len(entries) : entries[k].name = Archive[k]
      BY DEF Listed
    <3>2. QED
      BY <1>1, <3>1
  <2>2. \A k \in 1..size : Archive[k] = Archive[n] => k = n
    BY <1>1, InstallAssumption
  <2>3. QED
    BY <1>1, <2>1, <2>2 DEF Places
<1>3. Least({n}) = n
  BY <1>1 DEF Least
<1>4. QED
  BY <1>1, <1>2, <1>3 DEF search_file

(* What is found after a power failure is an entry of its own.             *)
LEMMA FoundAt ==
  ASSUME Typed, Listed, NEW f \in Names, Found(f) # 0
  PROVE  \E k \in 1..Len(entries) : f = Archive[k] /\ Found(f) = entries[k].nr
<1>1. /\ Len(entries) \in Nat /\ Len(Archive) \in Nat /\ Len(entries) <= Len(Archive)
      /\ DOMAIN Archive = 1..Len(Archive)
  BY Lengths
<1>2. PICK k \in 1..Len(Archive) : f = Archive[k]
  BY <1>1 DEF Names
<1>3. root \in 0..Len(entries)
  <2>1. root \in Nat
    BY DEF Typed
  <2>2. root = Len(entries) \/ root = Len(entries) - 1
    BY DEF Listed
  <2>3. QED
    BY <1>1, <2>1, <2>2
<1>4. Found(f) = IF k <= root THEN entries[k].nr ELSE 0
  BY <1>2, <1>3, Search DEF Found
<1>5. QED
  BY <1>1, <1>2, <1>3, <1>4

(* What is done with the next header.                                      *)
LEMMA Opening ==
  ASSUME Typed, Listed, root_inode = Len(entries), NEW n \in Nat \ {0},
         n <= Len(entries) + 1, OpenNext(n)
  PROVE  \/ n = Len(Archive) + 1 /\ Len(entries) = Len(Archive) /\ pc' = "mark" /\ inode_nr' = inode_nr
         \/ /\ n <= Len(Archive) /\ n = Len(entries) + 1
            /\ pc' = "alloc_imap_bit" /\ inode_nr' = 0
         \/ /\ n <= Len(Archive) /\ n <= Len(entries)
            /\ pc' = "truncate" /\ inode_nr' = entries[n].nr
<1>1. Len(entries) \in Nat /\ Len(Archive) \in Nat /\ Len(entries) <= Len(Archive)
  BY Lengths
<1>2. CASE n > Len(Archive)
  BY <1>1, <1>2 DEF OpenNext
<1>3. CASE n <= Len(Archive)
  <2>1. /\ inode_nr' = search_file(Archive[n], root_inode)
        /\ pc' = IF inode_nr' = 0 THEN "alloc_imap_bit" ELSE "truncate"
    BY <1>1, <1>3 DEF OpenNext
  <2>2. inode_nr' = IF n <= Len(entries) THEN entries[n].nr ELSE 0
    BY <1>1, <1>3, <2>1, Search
  <2>3. n <= Len(entries) => entries[n].nr # 0
    BY <1>1, Lengths DEF Numbers
  <2>4. QED
    BY <1>1, <1>3, <2>1, <2>2, <2>3
<1>4. QED
  BY <1>1, <1>2, <1>3

-----------------------------------------------------------------------------
(* The invariant, one lemma for each action.                               *)

(* What a step leaves as it is.                                            *)
LEMMA SameOwned ==
  ASSUME Owned, UNCHANGED <<entries, inodes, imap, smap, whole>>
  PROVE  Owned'
BY DEF Owned, RunOf

LEMMA SameComplete ==
  ASSUME UNCHANGED <<entries, inodes, data>>, NEW k
  PROVE  /\ Complete(k)' = Complete(k)
         /\ \A n : HasPieces(k, n)' = HasPieces(k, n)
BY DEF Complete, HasPieces, RunOf

LEMMA SameGiven ==
  ASSUME Typed, Given, UNCHANGED <<tar, entries, imap, smap, crashes>>,
         pc \in Creating => pc' \in Creating,
         pc \in HasRun => pc' \in HasRun
  PROVE  Given'
<1>1. CASE tar = "absent"
  BY <1>1 DEF Given
<1>2. CASE tar # "absent"
  <2>1. Len(entries) \in Nat /\ crashes \in Nat
    BY LenProperties, InstallAssumption DEF Typed
  <2>2. PICK n, r \in 0..NR_FREE :
          /\ imap = 0..n /\ n <= Len(entries) + crashes + NewInodes
          /\ smap = 0..r /\ r <= Len(entries) + crashes + NewRuns
    BY <1>2 DEF Given
  <2>3. NewInodes \in {0, 1} /\ NewRuns \in {0, 1} /\ NewInodes' \in {0, 1} /\ NewRuns' \in {0, 1}
    BY DEF NewInodes, NewRuns, HasRun
  <2>4. NewInodes <= NewInodes' /\ NewRuns <= NewRuns'
    BY DEF NewInodes, NewRuns, HasRun
  <2>5. n <= Len(entries') + crashes' + NewInodes' /\ r <= Len(entries') + crashes' + NewRuns'
    BY <2>1, <2>2, <2>3, <2>4
  <2>6. QED
    BY <2>2, <2>5, Zenon DEF Given
<1>3. QED
  BY <1>1, <1>2

(* Before there are entries.                                               *)
LEMMA NoFiles ==
  ASSUME Typed', Blanks', tar' = "absent"
  PROVE  Given' /\ Owned' /\ NewOwned' /\ Extracted'
<1>1. entries' = <<>> /\ pc' \in Making \cup {"boot", "superblock"}
  BY DEF Blanks
<1>2. Len(entries') = 0
  BY <1>1
<1>3. pc' \notin Extracting
  BY <1>1 DEF Making, Extracting, Creating, HasRun, Filling
<1>4. Given' /\ Owned'
  BY <1>2 DEF Given, Owned
<1>5. NewOwned' /\ Extracted'
  BY <1>3 DEF NewOwned, Extracted, Extracting, Creating, HasRun, Filling
<1>6. QED
  BY <1>4, <1>5

LEMMA InvInit ==
  ASSUME Init
  PROVE  InstallInv
<1>1. Typed
  <2>1. Blank \in [run : 0..NR_FREE, size : Nat] /\ <<>> \in Seq(Names \X Nat)
    BY InstallAssumption DEF Blank
  <2>2. inodes \in [Numbers -> [run : 0..NR_FREE, size : Nat]] /\ data \in [Numbers -> Seq(Names \X Nat)]
    BY <2>1 DEF Init
  <2>3. entries \in Seq([name : Names, nr : Numbers]) /\ 0 \in 0..NR_FREE /\ 0 \in 0..MAX_CRASHES
    BY InstallAssumption DEF Init
  <2>4. QED
    BY <2>2, <2>3 DEF Init, Typed, Made
<1>2. Blanks /\ Listed /\ Given /\ Owned /\ NewOwned /\ Extracted
  <2>1. Len(entries) = 0 /\ Len(Archive) \in Nat
    BY InstallAssumption, LenProperties DEF Init
  <2>2. QED
    BY <2>1 DEF Init, Blanks, Listed, Given, Owned, NewOwned, Extracted, Making, Extracting, Creating, HasRun, Filling
<1>3. QED
  BY <1>1, <1>2 DEF InstallInv

LEMMA InitFsKept ==
  ASSUME InstallInv, init_fs
  PROVE  InstallInv'
<1>1. Typed /\ Blanks /\ Listed /\ Given /\ Owned /\ NewOwned /\ Extracted
  BY DEF InstallInv
<1>2. /\ pc = "boot" /\ pc' = (IF super THEN "untar" ELSE "superblock") /\ root_inode' = root
      /\ UNCHANGED <<super, imap, smap, whole, inodes, root, entries, tar, data,
                     i, inode_nr, free_sect_nr, fd_pos, crashes>>
  BY DEF init_fs, disk
<1>3. Typed'
  BY <1>1, <1>2 DEF Typed, Made
<1>4. Blanks'
  BY <1>1, <1>2 DEF Blanks, Making, Made
<1>5. Listed'
  BY <1>1, <1>2 DEF Listed
<1>6. Given' /\ Owned'
  BY <1>1, <1>2, SameGiven, SameOwned DEF Creating, HasRun
<1>7. NewOwned' /\ Extracted'
  <2>1. pc' \notin Extracting
    BY <1>2 DEF Extracting, Creating, HasRun, Filling
  <2>2. NewOwned'
    BY <2>1 DEF NewOwned, Extracting, Creating, HasRun
  <2>3. \A k : Complete(k)' = Complete(k)
    BY <1>2, SameComplete
  <2>4. QED
    BY <1>1, <1>2, <2>1, <2>2, <2>3 DEF Extracted, Extracting, Creating, HasRun, Filling
<1>8. QED
  BY <1>3, <1>4, <1>5, <1>6, <1>7 DEF InstallInv

(* The parts of mkfs but the last.                                         *)
LEMMA MkfsKept ==
  ASSUME InstallInv, MakeSuper \/ MakeInodeMap \/ MakeSectorMap \/ MakeInodes
  PROVE  InstallInv'
<1>1. Typed /\ Blanks /\ Listed
  BY DEF InstallInv
<1>2. tar = "absent" /\ entries = <<>>
  BY <1>1 DEF Blanks, Made, Extracting, Creating, HasRun, Filling,
     MakeSuper, MakeInodeMap, MakeSectorMap, MakeInodes
<1>3. /\ super' \in {super, TRUE} /\ root' \in {root, 0} /\ root_inode' \in {root_inode, 0}
      /\ UNCHANGED <<inodes, entries, tar, data, i, inode_nr, free_sect_nr, fd_pos, crashes>>
      /\ pc' \in Making
  BY DEF MakeSuper, MakeInodeMap, MakeSectorMap, MakeInodes, memory, Making
<1>4. Typed'
  <2>1. super' \in BOOLEAN
    BY <1>1, <1>3, Zenon DEF Typed
  <2>2. root' \in Nat /\ root_inode' \in Nat
    BY <1>1, <1>3 DEF Typed
  <2>3. QED
    BY <1>1, <1>3, <2>1, <2>2, Zenon DEF Typed
<1>5. Blanks'
  <2>1. super'
    BY <1>1, <1>2 DEF Blanks, MakeSuper, MakeInodeMap, MakeSectorMap, MakeInodes
  <2>2. pc' \in Making \ {"inode map"} => imap' = {0}
    BY <1>1, <1>2 DEF Blanks, MakeSuper, MakeInodeMap, MakeSectorMap, MakeInodes, Making
  <2>3. pc' \in {"inodes", "root"} => smap' = {0}
    BY <1>1, <1>2 DEF Blanks, MakeSuper, MakeInodeMap, MakeSectorMap, MakeInodes, Making
  <2>4. QED
    BY <1>2, <1>3, <2>1, <2>2, <2>3 DEF Blanks
<1>6. Listed'
  <2>1. Len(entries) = 0 /\ root = 0 /\ root_inode = 0
    BY <1>1, <1>2 DEF Listed, MakeSuper, MakeInodeMap, MakeSectorMap, MakeInodes
  <2>2. pc' # "sync root"
    BY <1>3 DEF Making
  <2>3. QED
    BY <1>1, <1>2, <1>3, <2>1, <2>2 DEF Listed
<1>7. QED
  BY <1>2, <1>3, <1>4, <1>5, <1>6, NoFiles DEF InstallInv

LEMMA MakeRootKept ==
  ASSUME InstallInv, MakeRoot
  PROVE  InstallInv'
<1>1. Typed /\ Blanks /\ Listed
  BY DEF InstallInv
<1>2. tar = "absent" /\ entries = <<>> /\ super /\ imap = {0} /\ smap = {0}
  BY <1>1 DEF Blanks, Made, Making, Extracting, Creating, HasRun, Filling, MakeRoot
<1>3. /\ pc = "root" /\ pc' = "untar" /\ entries' = <<>> /\ tar' = "there"
      /\ UNCHANGED <<super, imap, smap, whole, inodes, root, data, root_inode, i, inode_nr, free_sect_nr,
                     fd_pos, crashes>>
  BY DEF MakeRoot, memory
<1>4. Len(entries) = 0 /\ root = 0 /\ root_inode = 0 /\ Len(Archive) \in Nat
  BY <1>1, <1>2, <1>3, Lengths DEF Listed
<1>5. Typed'
  BY <1>1, <1>2, <1>3 DEF Typed, Made
<1>6. Blanks' /\ Listed'
  BY <1>2, <1>3, <1>4 DEF Blanks, Listed, Made
<1>7. Given'
  <2>1. imap' = 0..0 /\ smap' = 0..0 /\ 0 \in 0..NR_FREE
    BY <1>2, <1>3, InstallAssumption
  <2>2. Len(entries') = 0 /\ Len(entries') \in Nat /\ crashes' \in Nat
    BY <1>1, <1>3 DEF Typed
  <2>3. NewInodes' \in {0, 1} /\ NewRuns' \in {0, 1}
    BY DEF NewInodes, NewRuns, HasRun
  <2>4. 0 <= Len(entries') + crashes' + NewInodes' /\ 0 <= Len(entries') + crashes' + NewRuns'
    <3>1. \A a, b, c \in Nat : 0 <= a + b + c
      OBVIOUS
    <3>2. NewInodes' \in Nat /\ NewRuns' \in Nat
      BY <2>3
    <3>3. QED
      BY <2>2, <3>1, <3>2, Zenon
  <2>5. QED
    BY <2>1, <2>4, Zenon DEF Given
<1>8. Owned'
  BY <1>3 DEF Owned
<1>9. NewOwned' /\ Extracted'
  BY <1>3 DEF NewOwned, Extracted, Extracting, Creating, HasRun, Filling
<1>10. QED
  BY <1>5, <1>6, <1>7, <1>8, <1>9 DEF InstallInv

LEMMA UntarKept ==
  ASSUME InstallInv, untar
  PROVE  InstallInv'
<1>1. Typed /\ Blanks /\ Listed /\ Given /\ Owned /\ NewOwned /\ Extracted
  BY DEF InstallInv
<1>2. /\ pc = "untar" /\ tar # "absent" /\ i' = 1
      /\ UNCHANGED <<super, imap, smap, whole, inodes, root, entries, tar, data,
                     root_inode, free_sect_nr, fd_pos, crashes>>
  BY DEF untar, disk
<1>3. CASE tar = "cleared"
  <2>1. pc' = "extract done" /\ inode_nr' = inode_nr
    BY <1>3 DEF untar
  <2>2. Typed'
    BY <1>1, <1>2, <2>1 DEF Typed, Made
  <2>3. Blanks' /\ Listed'
    BY <1>1, <1>2, <2>1 DEF Blanks, Listed, Made
  <2>4. Given' /\ Owned'
    BY <1>1, <1>2, SameGiven, SameOwned DEF Creating, HasRun
  <2>5. NewOwned'
    BY <2>1 DEF NewOwned, Creating, HasRun
  <2>6. Extracted'
    BY <1>1, <1>2, <2>1, SameComplete DEF Extracted, Extracting, Creating, HasRun, Filling
  <2>7. QED
    BY <2>2, <2>3, <2>4, <2>5, <2>6 DEF InstallInv
<1>4. CASE tar # "cleared"
  <2>1. /\ tar = "there" /\ OpenNext(1) /\ root_inode = Len(entries)
        /\ Len(entries) \in Nat /\ Len(Archive) \in Nat \ {0}
    BY <1>1, <1>2, <1>4, Lengths DEF untar, Typed, Listed
  <2>2. \/ /\ pc' = "alloc_imap_bit" /\ inode_nr' = 0 /\ 1 = Len(entries) + 1
        \/ /\ pc' = "truncate" /\ 1 <= Len(entries) /\ inode_nr' = entries[1].nr
    BY <1>1, <2>1, Opening
  <2>3. Typed'
    <3>1. inode_nr' \in 0..NR_FREE
      BY <1>1, <2>1, <2>2, Lengths, InstallAssumption DEF Numbers
    <3>2. pc' \in Made
      BY <2>2 DEF Made, Extracting, Filling
    <3>3. QED
      BY <1>1, <1>2, <3>1, <3>2 DEF Typed
  <2>4. Blanks' /\ Listed'
    BY <1>1, <1>2, <2>2 DEF Blanks, Listed, Made, Extracting, Filling
  <2>5. Given' /\ Owned'
    BY <1>1, <1>2, SameGiven, SameOwned DEF Creating, HasRun
  <2>6. NewOwned'
    BY <1>1, <1>2, <2>1, <2>2 DEF NewOwned, Creating, HasRun
  <2>7. Extracted'
    <3>1. \A k \in 1..(i' - 1) : FALSE
      BY <1>2
    <3>2. tar' = "there" /\ i' >= 1 /\ i' <= Len(entries') + 1
      BY <1>2, <2>1
    <3>3. /\ pc' \in Filling => i' <= Len(entries') /\ inode_nr' = entries'[i'].nr
          /\ pc' \notin {"data", "size", "mark"}
      BY <1>2, <2>2 DEF Filling
    <3>4. QED
      BY <3>1, <3>2, <3>3 DEF Extracted
  <2>8. QED
    BY <2>3, <2>4, <2>5, <2>6, <2>7 DEF InstallInv
<1>5. QED
  BY <1>3, <1>4

LEMMA AllocImapBitKept ==
  ASSUME InstallInv, alloc_imap_bit
  PROVE  InstallInv'
<1>1. Typed /\ Blanks /\ Listed /\ Given /\ Owned /\ NewOwned /\ Extracted
  BY DEF InstallInv
<1>2. /\ pc = "alloc_imap_bit" /\ pc' = "alloc_smap_bit"
      /\ inode_nr' = Least(Numbers \ imap) /\ imap' = imap \cup {inode_nr'}
      /\ UNCHANGED <<super, smap, whole, inodes, root, entries, tar, data,
                     root_inode, i, free_sect_nr, fd_pos, crashes>>
  BY DEF alloc_imap_bit
<1>3. tar # "absent" /\ i = Len(entries) + 1 /\ i <= Len(Archive)
  BY <1>1, <1>2 DEF Blanks, Making, NewOwned
<1>4. PICK n, r \in 0..NR_FREE :
        /\ imap = 0..n /\ n <= Len(entries) + crashes + NewInodes
        /\ smap = 0..r /\ r <= Len(entries) + crashes + NewRuns
  BY <1>1, <1>3 DEF Given
<1>5. /\ NewInodes = 0 /\ NewInodes' = 1 /\ NewRuns = 0 /\ NewRuns' = 0
  BY <1>2 DEF NewInodes, NewRuns, HasRun, Creating
<1>6. Len(entries) \in Nat /\ Len(Archive) \in Nat /\ crashes \in Nat /\ crashes <= MAX_CRASHES
  BY <1>1, Lengths, InstallAssumption DEF Typed
<1>7. n < NR_FREE
  BY <1>3, <1>4, <1>5, <1>6, InstallAssumption
<1>8. inode_nr' = n + 1 /\ imap' = 0..(n + 1)
  BY <1>2, <1>4, <1>7, NextBit
<1>9. Typed'
  <2>1. inode_nr' \in 0..NR_FREE
    BY <1>4, <1>7, <1>8, InstallAssumption
  <2>2. pc' \in Made
    BY <1>2 DEF Made, Extracting, Creating
  <2>3. QED
    BY <1>1, <1>2, <2>1, <2>2 DEF Typed
<1>10. Blanks' /\ Listed'
  BY <1>1, <1>2, <1>3 DEF Blanks, Listed, Made, Extracting, Creating
<1>11. Given'
  <2>1. n + 1 \in 0..NR_FREE
    BY <1>4, <1>7, InstallAssumption
  <2>2. n + 1 <= Len(entries) + crashes + 1
    BY <1>4, <1>5, <1>6
  <2>3. r <= Len(entries) + crashes + 0
    BY <1>4, <1>5, <1>6
  <2>4. QED
    BY <1>2, <1>4, <1>5, <1>8, <2>1, <2>2, <2>3, Zenon DEF Given
<1>12. Owned'
  BY <1>1, <1>2 DEF Owned, RunOf
<1>13. NewOwned'
  <2>1. inode_nr' \in imap' \ {0}
    BY <1>4, <1>8
  <2>2. \A k \in 1..Len(entries) : entries[k].nr # inode_nr'
    BY <1>1, <1>4, <1>8 DEF Owned
  <2>3. QED
    BY <1>2, <1>3, <2>1, <2>2 DEF NewOwned, Creating, HasRun
<1>14. Extracted'
  BY <1>1, <1>2, SameComplete DEF Extracted, Extracting, Creating, HasRun, Filling
<1>15. QED
  BY <1>9, <1>10, <1>11, <1>12, <1>13, <1>14 DEF InstallInv

LEMMA AllocSmapBitKept ==
  ASSUME InstallInv, alloc_smap_bit
  PROVE  InstallInv'
<1>1. Typed /\ Blanks /\ Listed /\ Given /\ Owned /\ NewOwned /\ Extracted
  BY DEF InstallInv
<1>2. /\ pc = "alloc_smap_bit" /\ pc' \in {"new_inode", "alloc_smap_rest"}
      /\ free_sect_nr' = Least(Numbers \ smap) /\ smap' = smap \cup {free_sect_nr'}
      /\ whole' = (IF pc' = "new_inode" THEN whole \cup {free_sect_nr'} ELSE whole)
      /\ UNCHANGED <<super, imap, inodes, root, entries, tar, data,
                     root_inode, i, inode_nr, fd_pos, crashes>>
  BY DEF alloc_smap_bit
<1>3. tar # "absent" /\ i = Len(entries) + 1 /\ i <= Len(Archive)
  BY <1>1, <1>2 DEF Blanks, Making, NewOwned, Creating, HasRun
<1>4. PICK n, r \in 0..NR_FREE :
        /\ imap = 0..n /\ n <= Len(entries) + crashes + NewInodes
        /\ smap = 0..r /\ r <= Len(entries) + crashes + NewRuns
  BY <1>1, <1>3 DEF Given
<1>5. /\ NewInodes = 1 /\ NewInodes' = 1 /\ NewRuns = 0 /\ NewRuns' = 1
  BY <1>2 DEF NewInodes, NewRuns, HasRun, Creating
<1>6. Len(entries) \in Nat /\ Len(Archive) \in Nat /\ crashes \in Nat /\ crashes <= MAX_CRASHES
  BY <1>1, Lengths, InstallAssumption DEF Typed
<1>7. r < NR_FREE
  BY <1>3, <1>4, <1>5, <1>6, InstallAssumption
<1>8. free_sect_nr' = r + 1 /\ smap' = 0..(r + 1)
  BY <1>2, <1>4, <1>7, NextBit
<1>9. Typed'
  <2>1. free_sect_nr' \in 0..NR_FREE
    BY <1>4, <1>7, <1>8, InstallAssumption
  <2>2. pc' \in Made
    BY <1>2 DEF Made, Extracting, Creating
  <2>3. QED
    BY <1>1, <1>2, <2>1, <2>2 DEF Typed
<1>10. Blanks' /\ Listed'
  BY <1>1, <1>2, <1>3 DEF Blanks, Listed, Made, Extracting, Creating
<1>11. Given'
  <2>1. r + 1 \in 0..NR_FREE
    BY <1>4, <1>7, InstallAssumption
  <2>2. n <= Len(entries) + crashes + 1
    BY <1>4, <1>5, <1>6
  <2>3. r + 1 <= Len(entries) + crashes + 1
    BY <1>4, <1>5, <1>6
  <2>4. QED
    BY <1>2, <1>4, <1>5, <1>8, <2>1, <2>2, <2>3, Zenon DEF Given
<1>12. Owned'
  BY <1>1, <1>2 DEF Owned, RunOf
<1>13. NewOwned'
  <2>1. free_sect_nr' \in smap' \ {0}
    BY <1>4, <1>8
  <2>2. \A k \in 1..Len(entries) : RunOf(k) # free_sect_nr'
    BY <1>1, <1>4, <1>8 DEF Owned
  <2>3. inode_nr \in imap \ {0} /\ \A k \in 1..Len(entries) : entries[k].nr # inode_nr
    BY <1>1, <1>2 DEF NewOwned, Creating, HasRun
  <2>4. QED
    BY <1>2, <1>3, <2>1, <2>2, <2>3 DEF NewOwned, Creating, HasRun, RunOf
<1>14. Extracted'
  BY <1>1, <1>2, SameComplete DEF Extracted, Extracting, Creating, HasRun, Filling
<1>15. QED
  BY <1>9, <1>10, <1>11, <1>12, <1>13, <1>14 DEF InstallInv

LEMMA AllocSmapRestKept ==
  ASSUME InstallInv, AllocSmapRest
  PROVE  InstallInv'
<1>1. Typed /\ Blanks /\ Listed /\ Given /\ Owned /\ NewOwned /\ Extracted
  BY DEF InstallInv
<1>2. /\ pc = "alloc_smap_rest" /\ pc' = "new_inode"
      /\ whole' = whole \cup {free_sect_nr}
      /\ UNCHANGED <<super, imap, smap, inodes, root, entries, tar, data,
                     root_inode, i, inode_nr, free_sect_nr, fd_pos, crashes>>
  BY DEF AllocSmapRest, memory
<1>3. Typed' /\ Blanks' /\ Listed'
  BY <1>1, <1>2 DEF Typed, Blanks, Listed, Making, Made, Extracting, Creating
<1>4. Given'
  BY <1>1, <1>2, SameGiven DEF Creating, HasRun
<1>5. Owned'
  BY <1>1, <1>2 DEF Owned, RunOf
<1>6. NewOwned'
  BY <1>1, <1>2 DEF NewOwned, Creating, HasRun, RunOf
<1>7. Extracted'
  BY <1>1, <1>2, SameComplete DEF Extracted, Extracting, Creating, HasRun, Filling
<1>8. QED
  BY <1>3, <1>4, <1>5, <1>6, <1>7 DEF InstallInv

LEMMA NewInodeKept ==
  ASSUME InstallInv, new_inode
  PROVE  InstallInv'
<1>1. Typed /\ Blanks /\ Listed /\ Given /\ Owned /\ NewOwned /\ Extracted
  BY DEF InstallInv
<1>2. /\ pc = "new_inode" /\ pc' = "new_dir_entry"
      /\ inodes' = [inodes EXCEPT ![inode_nr] = [run |-> free_sect_nr, size |-> 0]]
      /\ UNCHANGED <<super, imap, smap, whole, root, entries, tar, data,
                     root_inode, i, inode_nr, free_sect_nr, fd_pos, crashes>>
  BY DEF new_inode, memory
<1>3. /\ i = Len(entries) + 1 /\ i <= Len(Archive)
      /\ inode_nr \in imap \ {0} /\ \A k \in 1..Len(entries) : entries[k].nr # inode_nr
      /\ free_sect_nr \in smap \ {0} /\ \A k \in 1..Len(entries) : RunOf(k) # free_sect_nr
  BY <1>1, <1>2 DEF NewOwned, Creating, HasRun
<1>4. tar = "there" /\ Len(entries) \in Nat /\ \A k \in 1..Len(entries) : entries[k].nr \in Numbers
  BY <1>1, <1>2, Lengths DEF Extracted, Extracting, Creating
<1>5. inode_nr \in Numbers /\ inodes \in [Numbers -> [run : 0..NR_FREE, size : Nat]]
      /\ free_sect_nr \in 0..NR_FREE
  BY <1>1, <1>3 DEF Typed, Numbers
<1>6. Typed'
  <2>1. inodes' \in [Numbers -> [run : 0..NR_FREE, size : Nat]]
    BY <1>2, <1>5
  <2>2. pc' \in Made
    BY <1>2 DEF Made, Extracting, Creating
  <2>3. QED
    BY <1>1, <1>2, <2>1, <2>2 DEF Typed
<1>7. /\ inodes'[inode_nr].run = free_sect_nr
      /\ \A k \in 1..Len(entries) : inodes'[entries[k].nr] = inodes[entries[k].nr]
  BY <1>2, <1>3, <1>4, <1>5
<1>8. Blanks' /\ Listed'
  BY <1>1, <1>2, <1>4 DEF Blanks, Listed, Made, Extracting, Creating
<1>9. Given'
  BY <1>1, <1>2, SameGiven DEF Creating, HasRun
<1>10. Owned'
  BY <1>1, <1>2, <1>7 DEF Owned, RunOf
<1>11. NewOwned'
  BY <1>1, <1>2, <1>3, <1>7 DEF NewOwned, Creating, HasRun, RunOf
<1>12. Extracted'
  <2>1. \A k \in 1..Len(entries) : Complete(k)' = Complete(k)
    BY <1>2, <1>7 DEF Complete, HasPieces, RunOf
  <2>2. \A k \in 1..(i - 1) : Complete(k)
    BY <1>1, <1>2 DEF Extracted, Extracting, Creating
  <2>3. \A k \in 1..(i' - 1) : Complete(k)'
    BY <1>2, <1>3, <1>4, <2>1, <2>2
  <2>4. i' >= 1 /\ i' <= Len(entries') + 1
    BY <1>2, <1>3, <1>4
  <2>5. QED
    BY <1>2, <1>4, <2>3, <2>4 DEF Extracted, Filling
<1>13. QED
  BY <1>6, <1>8, <1>9, <1>10, <1>11, <1>12 DEF InstallInv

LEMMA NewDirEntryKept ==
  ASSUME InstallInv, new_dir_entry
  PROVE  InstallInv'
<1>1. Typed /\ Blanks /\ Listed /\ Given /\ Owned /\ NewOwned /\ Extracted
  BY DEF InstallInv
<1> DEFINE new == [name |-> Archive[i], nr |-> inode_nr]
<1>2. /\ pc = "new_dir_entry" /\ pc' = "sync root"
      /\ entries' = Append(entries, new) /\ root_inode' = root_inode + 1
      /\ UNCHANGED <<super, imap, smap, whole, inodes, root, tar, data,
                     i, inode_nr, free_sect_nr, fd_pos, crashes>>
  BY DEF new_dir_entry
<1>16. PICK len \in Nat : len = Len(entries)
  BY <1>1, Lengths
<1>3. /\ i = len + 1 /\ i <= Len(Archive)
      /\ inode_nr \in imap \ {0} /\ \A k \in 1..len : entries[k].nr # inode_nr
      /\ free_sect_nr \in smap \ {0} /\ \A k \in 1..len : RunOf(k) # free_sect_nr
      /\ free_sect_nr \in whole /\ inodes[inode_nr].run = free_sect_nr
  BY <1>1, <1>2, <1>16 DEF NewOwned, Creating, HasRun
<1>4. tar = "there" /\ Len(Archive) \in Nat /\ i \in 1..Len(Archive) /\ Archive[i] \in Names
  <2>1. tar = "there"
    BY <1>1, <1>2 DEF Extracted, Extracting, Creating
  <2>2. Len(Archive) \in Nat /\ \A k \in 1..Len(Archive) : Archive[k] \in Names
    BY <1>1, Lengths
  <2>3. i \in 1..Len(Archive)
    BY <1>3, <2>2
  <2>4. QED
    BY <2>1, <2>2, <2>3
<1>5. entries \in Seq([name : Names, nr : Numbers]) /\ new \in [name : Names, nr : Numbers]
  <2>1. inode_nr \in Numbers
    BY <1>1, <1>3 DEF Typed, Numbers
  <2>2. QED
    BY <1>1, <1>4, <2>1 DEF Typed
<1>17. new.name = Archive[i] /\ new.nr = inode_nr
  OBVIOUS
<1> HIDE DEF new
<1>6. /\ entries' \in Seq([name : Names, nr : Numbers]) /\ Len(entries') = len + 1
      /\ \A k \in 1..len : entries'[k] = entries[k]
      /\ entries'[len + 1] = new
  <2>1. /\ Append(entries, new) \in Seq([name : Names, nr : Numbers])
        /\ Len(Append(entries, new)) = Len(entries) + 1
        /\ \A k \in 1..Len(entries) : Append(entries, new)[k] = entries[k]
        /\ Append(entries, new)[Len(entries) + 1] = new
    BY <1>5, AppendProperties
  <2>2. QED
    BY <1>2, <1>16, <2>1, Zenon
<1>7. entries'[len + 1].name = Archive[i] /\ entries'[len + 1].nr = inode_nr
  BY <1>6, <1>17
<1>8. Typed'
  <2>1. pc' \in Made
    BY <1>2 DEF Made, Extracting, Filling
  <2>2. root_inode' \in Nat
    <3>1. root_inode \in Nat
      BY <1>1 DEF Typed
    <3>2. root_inode' = root_inode + 1
      BY <1>2
    <3>3. QED
      BY <3>1, <3>2
  <2>3. QED
    BY <1>1, <1>2, <1>6, <2>1, <2>2 DEF Typed
<1>9. Blanks'
  BY <1>1, <1>2, <1>4 DEF Blanks, Made, Extracting, Filling
<1>10. Listed'
  <2>1. root = len /\ root_inode = len /\ \A k \in 1..len : entries[k].name = Archive[k]
    BY <1>1, <1>2, <1>16 DEF Listed
  <2>2. \A k \in 1..(len + 1) : entries'[k].name = Archive[k]
    BY <1>3, <1>4, <1>6, <1>7, <2>1
  <2>3. /\ Len(entries') <= Len(Archive) /\ root' = Len(entries') - 1
        /\ root_inode' = Len(entries')
    <3>1. Len(entries') = len + 1 /\ root' = root /\ root_inode' = root_inode + 1
      BY <1>2, <1>6
    <3>2. QED
      BY <1>3, <1>4, <2>1, <3>1
  <2>4. QED
    BY <1>2, <1>6, <2>2, <2>3 DEF Listed
<1>11. Given'
  <2>1. PICK n, r \in 0..NR_FREE :
          /\ imap = 0..n /\ n <= len + crashes + NewInodes
          /\ smap = 0..r /\ r <= len + crashes + NewRuns
    BY <1>1, <1>4, <1>16 DEF Given
  <2>2. NewInodes = 1 /\ NewInodes' = 0 /\ NewRuns = 1 /\ NewRuns' = 0
    BY <1>2 DEF NewInodes, NewRuns, HasRun, Creating
  <2>3. crashes \in Nat
    BY <1>1, InstallAssumption DEF Typed
  <2>4. n <= (len + 1) + crashes + 0 /\ r <= (len + 1) + crashes + 0
    BY <2>1, <2>2, <2>3
  <2>5. QED
    BY <1>2, <1>6, <2>1, <2>2, <2>4, Zenon DEF Given
<1>12. Owned'
  <2>1. ASSUME NEW k \in 1..(len + 1)
        PROVE  /\ entries'[k].nr \in imap /\ inodes[entries'[k].nr].run \in smap \ {0}
               /\ inodes[entries'[k].nr].run \in whole
               /\ \A l \in 1..(len + 1) : k # l =>
                    /\ entries'[k].nr # entries'[l].nr
                    /\ inodes[entries'[k].nr].run # inodes[entries'[l].nr].run
    BY <1>1, <1>3, <1>6, <1>7, <1>16 DEF Owned, RunOf
  <2>2. \A k \in 1..Len(entries') :
          entries'[k].nr \in imap' /\ RunOf(k)' \in smap' \ {0} /\ RunOf(k)' \in whole'
    BY <1>2, <1>6, <2>1 DEF RunOf
  <2>3. ASSUME NEW k \in 1..(len + 1), NEW l \in 1..(len + 1), k # l
        PROVE  entries'[k].nr # entries'[l].nr /\ RunOf(k)' # RunOf(l)'
    <3>1. inodes[entries'[k].nr].run # inodes[entries'[l].nr].run
      BY <2>1, <2>3
    <3>2. QED
      BY <1>2, <2>1, <2>3, <3>1 DEF RunOf
  <2>4. QED
    BY <1>6, <2>2, <2>3 DEF Owned
<1>13. NewOwned'
  BY <1>2 DEF NewOwned, Creating, HasRun
<1>14. Extracted'
  <2>1. \A k \in 1..len : Complete(k)' = Complete(k)
    BY <1>2, <1>6 DEF Complete, HasPieces, RunOf
  <2>2. \A k \in 1..(i - 1) : Complete(k)
    BY <1>1, <1>2 DEF Extracted, Extracting, Creating
  <2>3. i - 1 = len /\ i' = i /\ i >= 1 /\ i <= Len(entries') /\ i <= Len(entries') + 1
    <3>1. i' = i /\ Len(entries') = len + 1
      BY <1>2, <1>6
    <3>2. QED
      BY <1>3, <3>1
  <2>4. \A k \in 1..(i' - 1) : Complete(k)'
    BY <2>1, <2>2, <2>3
  <2>5. inode_nr' = entries'[i'].nr
    BY <1>2, <1>3, <1>7
  <2>6. QED
    BY <1>2, <1>4, <2>3, <2>4, <2>5 DEF Extracted
<1>15. QED
  BY <1>8, <1>9, <1>10, <1>11, <1>12, <1>13, <1>14 DEF InstallInv

LEMMA SyncRootKept ==
  ASSUME InstallInv, SyncRoot
  PROVE  InstallInv'
<1>1. Typed /\ Blanks /\ Listed /\ Given /\ Owned /\ NewOwned /\ Extracted
  BY DEF InstallInv
<1>2. /\ pc = "sync root" /\ pc' = "truncate" /\ root' = root_inode
      /\ UNCHANGED <<super, imap, smap, whole, inodes, entries, tar, data,
                     root_inode, i, inode_nr, free_sect_nr, fd_pos, crashes>>
  BY DEF SyncRoot, memory
<1>3. Typed'
  BY <1>1, <1>2 DEF Typed, Made, Extracting, Filling
<1>4. Blanks' /\ Listed'
  BY <1>1, <1>2 DEF Blanks, Listed, Made, Making, Extracting, Filling
<1>5. Given' /\ Owned'
  BY <1>1, <1>2, SameGiven, SameOwned DEF Creating, HasRun
<1>6. NewOwned' /\ Extracted'
  BY <1>1, <1>2, SameComplete DEF NewOwned, Extracted, Extracting, Creating, HasRun, Filling
<1>7. QED
  BY <1>3, <1>4, <1>5, <1>6 DEF InstallInv

LEMMA MarkKept ==
  ASSUME InstallInv, Mark
  PROVE  InstallInv'
<1>1. Typed /\ Blanks /\ Listed /\ Given /\ Owned /\ NewOwned /\ Extracted
  BY DEF InstallInv
<1>2. /\ pc = "mark" /\ pc' = "extract done" /\ tar' = "cleared" /\ tar = "there"
      /\ UNCHANGED <<super, imap, smap, whole, inodes, root, entries, data,
                     root_inode, i, inode_nr, free_sect_nr, fd_pos, crashes>>
  BY <1>1 DEF Mark, memory, Extracted, Extracting
<1>3. Typed'
  BY <1>1, <1>2 DEF Typed, Made
<1>4. Blanks' /\ Listed'
  BY <1>1, <1>2 DEF Blanks, Listed, Made
<1>5. Given'
  BY <1>1, <1>2 DEF Given, NewInodes, NewRuns, Creating, HasRun
<1>6. Owned' /\ NewOwned'
  BY <1>1, <1>2, SameOwned DEF NewOwned, Creating, HasRun
<1>7. Extracted'
  <2>1. i = Len(Archive) + 1 /\ i <= Len(entries) + 1 /\ \A k \in 1..(i - 1) : Complete(k)
    BY <1>1, <1>2 DEF Extracted, Extracting
  <2>2. Len(entries) \in Nat /\ Len(Archive) \in Nat /\ Len(entries) <= Len(Archive)
    BY <1>1, Lengths
  <2>3. Len(entries') = Len(Archive) /\ \A k \in 1..Len(Archive) : Complete(k)'
    <3>1. i - 1 = Len(Archive) /\ Len(entries) = Len(Archive)
      BY <2>1, <2>2
    <3>2. \A k : Complete(k)' = Complete(k)
      BY <1>2, SameComplete
    <3>3. QED
      BY <1>2, <2>1, <3>1, <3>2
  <2>4. QED
    BY <1>2, <2>3 DEF Extracted, Extracting, Creating, HasRun, Filling
<1>8. QED
  BY <1>3, <1>4, <1>5, <1>6, <1>7 DEF InstallInv

LEMMA CrashKept ==
  ASSUME InstallInv, Crash
  PROVE  InstallInv'
<1>1. Typed /\ Blanks /\ Listed /\ Given /\ Owned /\ NewOwned /\ Extracted
  BY DEF InstallInv
<1>2. /\ crashes < MAX_CRASHES /\ pc \notin Making /\ pc # "sync root"
      /\ crashes' = crashes + 1 /\ pc' = "boot"
      /\ root_inode' = 0 /\ i' = 0 /\ inode_nr' = 0 /\ free_sect_nr' = 0 /\ fd_pos' = 0
      /\ UNCHANGED <<super, imap, smap, whole, inodes, root, entries, tar, data>>
  BY DEF Crash, disk
<1>3. Typed'
  <2>1. crashes' \in 0..MAX_CRASHES /\ 0 \in 0..NR_FREE
    <3>1. crashes \in 0..MAX_CRASHES
      BY <1>1 DEF Typed
    <3>2. crashes' = crashes + 1 /\ crashes < MAX_CRASHES
      BY <1>2
    <3>3. crashes' \in 0..MAX_CRASHES
      BY <3>1, <3>2, InstallAssumption
    <3>4. QED
      BY <3>3, InstallAssumption
  <2>2. QED
    BY <1>1, <1>2, <2>1 DEF Typed, Made
<1>4. Blanks' /\ Listed'
  BY <1>1, <1>2 DEF Blanks, Listed, Made, Making
<1>5. Given'
  <2>1. CASE tar = "absent"
    BY <1>2, <2>1 DEF Given
  <2>2. CASE tar # "absent"
    <3>1. PICK n, r \in 0..NR_FREE :
            /\ imap = 0..n /\ n <= Len(entries) + crashes + NewInodes
            /\ smap = 0..r /\ r <= Len(entries) + crashes + NewRuns
      BY <1>1, <2>2 DEF Given
    <3>2. NewInodes \in {0, 1} /\ NewInodes' = 0 /\ NewRuns \in {0, 1} /\ NewRuns' = 0
      BY <1>2 DEF NewInodes, NewRuns, HasRun, Creating
    <3>3. Len(entries) \in Nat /\ crashes \in Nat
      BY <1>1, Lengths, InstallAssumption DEF Typed
    <3>4. n <= Len(entries) + (crashes + 1) + 0 /\ r <= Len(entries) + (crashes + 1) + 0
      BY <3>1, <3>2, <3>3
    <3>5. QED
      BY <1>2, <3>1, <3>2, <3>4, Zenon DEF Given
  <2>3. QED
    BY <2>1, <2>2
<1>6. Owned'
  BY <1>1, <1>2, SameOwned
<1>7. NewOwned' /\ Extracted'
  <2>1. \A k : Complete(k)' = Complete(k)
    BY <1>2, SameComplete
  <2>2. QED
    BY <1>1, <1>2, <2>1 DEF NewOwned, Extracted, Extracting, Creating, HasRun, Filling
<1>8. QED
  BY <1>3, <1>4, <1>5, <1>6, <1>7 DEF InstallInv

(* The file that is being written.                                         *)
LEMMA Current ==
  ASSUME Typed, Listed, Owned, Extracted, pc \in Filling
  PROVE  /\ tar = "there" /\ i \in 1..Len(entries) /\ i \in 1..Len(Archive) /\ i \in Nat
         /\ inode_nr = entries[i].nr /\ inode_nr \in Numbers
         /\ RunOf(i) = inodes[inode_nr].run /\ RunOf(i) \in Numbers
         /\ \A k \in 1..(i - 1) : k \in 1..Len(entries) /\ k \in 1..Len(Archive) /\ Complete(k)
         /\ \A k \in 1..Len(entries) : k # i => entries[k].nr # inode_nr /\ RunOf(k) # RunOf(i)
<1>1. /\ tar = "there" /\ i >= 1 /\ i <= Len(entries) /\ inode_nr = entries[i].nr
      /\ \A k \in 1..(i - 1) : Complete(k)
  BY DEF Extracted, Extracting
<1>2. /\ Len(entries) \in Nat /\ Len(Archive) \in Nat /\ Len(entries) <= Len(Archive)
      /\ \A k \in 1..Len(entries) : entries[k].nr \in Numbers /\ RunOf(k) \in 0..NR_FREE
  BY Lengths
<1>3. i \in Nat
  BY DEF Typed
<1>4. i \in 1..Len(entries) /\ i \in 1..Len(Archive)
  BY <1>1, <1>2, <1>3
<1>5. RunOf(i) = inodes[inode_nr].run
  BY <1>1 DEF RunOf
<1>6. RunOf(i) \in Numbers /\ inode_nr \in Numbers
  <2>1. RunOf(i) # 0
    BY <1>4 DEF Owned
  <2>2. QED
    BY <1>1, <1>2, <1>4, <2>1, InstallAssumption DEF Numbers
<1>7. \A k \in 1..(i - 1) : k \in 1..Len(entries) /\ k \in 1..Len(Archive)
  BY <1>2, <1>4
<1>8. \A k \in 1..Len(entries) : k # i => entries[k].nr # inode_nr /\ RunOf(k) # RunOf(i)
  BY <1>1, <1>4 DEF Owned
<1>9. QED
  BY <1>1, <1>3, <1>4, <1>5, <1>6, <1>7, <1>8

LEMMA TruncateKept ==
  ASSUME InstallInv, Truncate
  PROVE  InstallInv'
<1>1. Typed /\ Blanks /\ Listed /\ Given /\ Owned /\ NewOwned /\ Extracted
  BY DEF InstallInv
<1>2. /\ pc = "truncate" /\ pc' = "data" /\ fd_pos' = 0
      /\ inodes' = [inodes EXCEPT ![inode_nr].size = 0]
      /\ UNCHANGED <<super, imap, smap, whole, root, entries, tar, data,
                     root_inode, i, inode_nr, free_sect_nr, crashes>>
  BY DEF Truncate
<1>3. pc \in Filling
  BY <1>2 DEF Filling
<1>4. /\ tar = "there" /\ i \in 1..Len(entries) /\ i \in 1..Len(Archive) /\ i \in Nat
      /\ inode_nr = entries[i].nr /\ inode_nr \in Numbers
      /\ \A k \in 1..(i - 1) : k \in 1..Len(entries) /\ Complete(k)
      /\ \A k \in 1..Len(entries) : k # i => entries[k].nr # inode_nr
  BY <1>1, <1>3, Current
<1>5. inodes \in [Numbers -> [run : 0..NR_FREE, size : Nat]] /\ \A k \in 1..Len(entries) : entries[k].nr \in Numbers
  BY <1>1, Lengths DEF Typed
<1>6. inodes' \in [Numbers -> [run : 0..NR_FREE, size : Nat]]
  BY <1>2, <1>4, <1>5
<1>7. /\ inodes'[inode_nr].size = 0
      /\ \A n \in Numbers : inodes'[n].run = inodes[n].run
      /\ \A n \in Numbers : n # inode_nr => inodes'[n] = inodes[n]
  BY <1>2, <1>4, <1>5
<1>8. Typed'
  BY <1>1, <1>2, <1>6 DEF Typed, Made, Extracting, Filling
<1>9. Blanks' /\ Listed'
  BY <1>1, <1>2, <1>4 DEF Blanks, Listed, Made, Extracting, Filling
<1>10. Given'
  BY <1>1, <1>2, SameGiven DEF Creating, HasRun
<1>11. \A k \in 1..Len(entries) : RunOf(k)' = RunOf(k)
  BY <1>2, <1>5, <1>7 DEF RunOf
<1>12. Owned' /\ NewOwned'
  BY <1>1, <1>2, <1>11 DEF Owned, NewOwned, Creating, HasRun
<1>13. Extracted'
  <2>1. \A k \in 1..(i - 1) : Complete(k)'
    <3>1. ASSUME NEW k \in 1..(i - 1) PROVE Complete(k)'
      <4>1. k \in 1..Len(entries) /\ k # i /\ Complete(k)
        BY <1>4
      <4>2. inodes'[entries[k].nr] = inodes[entries[k].nr]
        BY <1>4, <1>5, <1>7, <4>1
      <4>3. QED
        BY <1>2, <1>11, <4>1, <4>2 DEF Complete, HasPieces
    <3>2. QED
      BY <3>1
  <2>2. HasPieces(i, 0)'
    <3>1. data[RunOf(i)] \in Seq(Names \X Nat)
      BY <1>1, <1>3, Current DEF Typed
    <3>2. Len(data[RunOf(i)]) >= 0
      BY <3>1
    <3>3. data'[RunOf(i)'] = data[RunOf(i)]
      BY <1>2, <1>4, <1>11
    <3>4. QED
      BY <1>2, <3>2, <3>3 DEF HasPieces
  <2>3. 0 < Pieces[Archive[i]]
    BY <1>1, <1>4, Lengths
  <2>4. i <= Len(entries) /\ i >= 1 /\ i <= Len(entries) + 1
    BY <1>1, <1>4, Lengths
  <2>5. QED
    BY <1>2, <1>4, <1>7, <2>1, <2>2, <2>3, <2>4 DEF Extracted
<1>14. QED
  BY <1>8, <1>9, <1>10, <1>12, <1>13 DEF InstallInv

LEMMA WriteDataKept ==
  ASSUME InstallInv, WriteData
  PROVE  InstallInv'
<1>1. Typed /\ Blanks /\ Listed /\ Given /\ Owned /\ NewOwned /\ Extracted
  BY DEF InstallInv
<1> DEFINE old == data[inodes[inode_nr].run]
           new == [k \in 1..(IF fd_pos >= Len(old) THEN fd_pos + 1 ELSE Len(old)) |->
                     IF k = fd_pos + 1 THEN Piece(Archive[i], k) ELSE old[k]]
<1>2. /\ pc = "data" /\ pc' = "size"
      /\ data' = [data EXCEPT ![inodes[inode_nr].run] = new]
      /\ fd_pos' = fd_pos + 1
      /\ UNCHANGED <<super, imap, smap, whole, inodes, root, entries, tar,
                     root_inode, i, inode_nr, free_sect_nr, crashes>>
  BY DEF WriteData
<1>3. pc \in Filling
  BY <1>2 DEF Filling
<1>4. /\ tar = "there" /\ i \in 1..Len(entries) /\ i \in 1..Len(Archive) /\ i \in Nat
      /\ inode_nr = entries[i].nr /\ RunOf(i) = inodes[inode_nr].run /\ RunOf(i) \in Numbers
      /\ \A k \in 1..(i - 1) : k \in 1..Len(entries) /\ k \in 1..Len(Archive) /\ Complete(k)
      /\ \A k \in 1..Len(entries) : k # i => RunOf(k) # RunOf(i)
  BY <1>1, <1>3, Current
<1>5. /\ fd_pos < Pieces[Archive[i]] /\ inodes[inode_nr].size = fd_pos /\ HasPieces(i, fd_pos)
      /\ Pieces[Archive[i]] \in Nat /\ Archive[i] \in Names /\ fd_pos \in Nat
  <2>1. fd_pos \in Nat
    BY <1>1 DEF Typed
  <2>2. QED
    BY <1>1, <1>2, <1>4, <2>1, Lengths DEF Extracted
<1>6. /\ old \in Seq(Names \X Nat) /\ Len(old) \in Nat
      /\ \A k \in 1..Len(old) : old[k] \in Names \X Nat
  <2>1. old \in Seq(Names \X Nat)
    BY <1>1, <1>4 DEF Typed
  <2>2. QED
    BY <2>1, LenProperties, ElementOfSeq
<1>7. Len(old) >= fd_pos /\ \A p \in 1..fd_pos : old[p] = Piece(Archive[i], p)
  BY <1>4, <1>5 DEF HasPieces
<1> HIDE DEF old
<1>8. PICK l : l = IF fd_pos >= Len(old) THEN fd_pos + 1 ELSE Len(old)
  OBVIOUS
<1>18. l \in Nat /\ l >= fd_pos + 1 /\ l >= Len(old) /\ l <= Len(old) + 1
  BY <1>5, <1>6, <1>7, <1>8
<1>9. /\ new \in [1..l -> Names \X Nat]
      /\ new[fd_pos + 1] = Piece(Archive[i], fd_pos + 1)
      /\ \A p \in 1..fd_pos : new[p] = old[p]
  <2>1. \A k \in 1..l : k = fd_pos + 1 => Piece(Archive[i], k) \in Names \X Nat
    BY <1>5 DEF Piece
  <2>2. \A k \in 1..l : k # fd_pos + 1 => k \in 1..Len(old)
    BY <1>5, <1>6, <1>7, <1>8, <1>18
  <2>3. fd_pos + 1 \in 1..l /\ \A p \in 1..fd_pos : p \in 1..l /\ p # fd_pos + 1
    BY <1>5, <1>8, <1>18
  <2>4. QED
    BY <1>6, <1>8, <1>18, <2>1, <2>2, <2>3
<1> HIDE DEF new
<1>10. new \in Seq(Names \X Nat) /\ Len(new) = l
  BY <1>9, <1>18
<1>11. /\ data' \in [Numbers -> Seq(Names \X Nat)] /\ data'[RunOf(i)] = new
       /\ \A n \in Numbers : n # RunOf(i) => data'[n] = data[n]
  <2>1. data \in [Numbers -> Seq(Names \X Nat)]
    BY <1>1 DEF Typed
  <2>2. QED
    BY <1>2, <1>4, <1>10, <2>1
<1>12. Typed'
  <2>1. fd_pos' \in Nat
    BY <1>2, <1>5
  <2>2. QED
    BY <1>1, <1>2, <1>11, <2>1 DEF Typed, Made, Extracting, Filling
<1>13. Blanks' /\ Listed'
  BY <1>1, <1>2, <1>4 DEF Blanks, Listed, Made, Extracting, Filling
<1>14. Given' /\ Owned' /\ NewOwned'
  BY <1>1, <1>2, SameGiven, SameOwned DEF NewOwned, Creating, HasRun
<1>15. \A k : RunOf(k)' = RunOf(k)
  BY <1>2 DEF RunOf
<1>16. Extracted'
  <2>1. ASSUME NEW k \in 1..(i - 1) PROVE Complete(k)'
    <3>1. k \in 1..Len(entries) /\ k # i /\ Complete(k)
      BY <1>4
    <3>2. RunOf(k) \in Numbers /\ RunOf(k) # RunOf(i)
      <4>1. RunOf(k) \in 0..NR_FREE /\ RunOf(k) # 0
        BY <1>1, <3>1, Lengths DEF Owned
      <4>2. QED
        BY <1>4, <3>1, <4>1, InstallAssumption DEF Numbers
    <3>3. data'[RunOf(k)] = data[RunOf(k)]
      BY <1>11, <3>2
    <3>4. QED
      BY <1>2, <1>15, <3>1, <3>3 DEF Complete, HasPieces
  <2>2. HasPieces(i, fd_pos)'
    <3>1. Len(new) >= fd_pos + 1 /\ \A p \in 1..(fd_pos + 1) : new[p] = Piece(Archive[i], p)
      BY <1>5, <1>7, <1>8, <1>18, <1>9, <1>10
    <3>2. data'[RunOf(i)'] = new /\ fd_pos' = fd_pos + 1 /\ i' = i
      BY <1>2, <1>11, <1>15
    <3>3. QED
      BY <1>2, <3>1, <3>2 DEF HasPieces
  <2>3. /\ fd_pos + 1 >= 1 /\ fd_pos + 1 <= Pieces[Archive[i]] /\ fd_pos = (fd_pos + 1) - 1
        /\ i >= 1 /\ i <= Len(entries) /\ i <= Len(entries) + 1
    <3>1. Len(entries) \in Nat
      BY <1>1, Lengths
    <3>2. QED
      BY <1>4, <1>5, <3>1
  <2>4. QED
    BY <1>2, <1>4, <1>5, <2>1, <2>2, <2>3 DEF Extracted
<1>17. QED
  BY <1>12, <1>13, <1>14, <1>16 DEF InstallInv

LEMMA WriteSizeKept ==
  ASSUME InstallInv, WriteSize
  PROVE  InstallInv'
<1>1. Typed /\ Blanks /\ Listed /\ Given /\ Owned /\ NewOwned /\ Extracted
  BY DEF InstallInv
<1>2. /\ pc = "size"
      /\ inodes' = IF fd_pos >= inodes[inode_nr].size
                   THEN [inodes EXCEPT ![inode_nr].size = fd_pos] ELSE inodes
      /\ UNCHANGED <<super, imap, smap, whole, root, entries, tar, data,
                     root_inode, free_sect_nr, fd_pos, crashes>>
  BY DEF WriteSize
<1>3. pc \in Filling
  BY <1>2 DEF Filling
<1>4. /\ tar = "there" /\ i \in 1..Len(entries) /\ i \in 1..Len(Archive) /\ i \in Nat
      /\ inode_nr = entries[i].nr /\ inode_nr \in Numbers
      /\ \A k \in 1..(i - 1) : k \in 1..Len(entries) /\ Complete(k)
      /\ \A k \in 1..Len(entries) : k # i => entries[k].nr # inode_nr
  BY <1>1, <1>3, Current
<1>5. /\ inodes \in [Numbers -> [run : 0..NR_FREE, size : Nat]]
      /\ \A k \in 1..Len(entries) : entries[k].nr \in Numbers
      /\ fd_pos \in Nat
  BY <1>1, Lengths DEF Typed
<1>6. /\ fd_pos >= 1 /\ fd_pos <= Pieces[Archive[i]] /\ Pieces[Archive[i]] \in Nat
      /\ inodes[inode_nr].size = fd_pos - 1 /\ HasPieces(i, fd_pos)
  BY <1>1, <1>2, <1>4, Lengths DEF Extracted
<1>7. inodes' = [inodes EXCEPT ![inode_nr].size = fd_pos]
  BY <1>2, <1>5, <1>6
<1>8. inodes' \in [Numbers -> [run : 0..NR_FREE, size : Nat]]
  BY <1>4, <1>5, <1>7
<1>9. /\ inodes'[inode_nr].size = fd_pos
      /\ \A n \in Numbers : inodes'[n].run = inodes[n].run
      /\ \A n \in Numbers : n # inode_nr => inodes'[n] = inodes[n]
  BY <1>4, <1>5, <1>7
<1>10. \A k \in 1..Len(entries) : RunOf(k)' = RunOf(k)
  BY <1>2, <1>5, <1>9 DEF RunOf
<1>11. Owned'
  BY <1>1, <1>2, <1>10 DEF Owned
<1>12. ASSUME NEW k \in 1..(i - 1) PROVE Complete(k)'
  <2>1. k \in 1..Len(entries) /\ k # i /\ Complete(k)
    BY <1>4
  <2>2. inodes'[entries[k].nr] = inodes[entries[k].nr]
    BY <1>4, <1>5, <1>9, <2>1
  <2>3. QED
    BY <1>2, <1>10, <2>1, <2>2 DEF Complete, HasPieces
<1>13. /\ Len(entries) \in Nat /\ Len(Archive) \in Nat
       /\ i <= Len(entries) /\ i <= Len(Archive) /\ i >= 1
  BY <1>1, <1>4, Lengths
<1>14. CASE fd_pos < Pieces[Archive[i]]
  <2>1. pc' = "data" /\ i' = i /\ inode_nr' = inode_nr
    BY <1>14 DEF WriteSize
  <2>2. Typed'
    BY <1>1, <1>2, <1>8, <2>1 DEF Typed, Made, Extracting, Filling
  <2>3. Blanks' /\ Listed'
    BY <1>1, <1>2, <1>4, <2>1 DEF Blanks, Listed, Made, Extracting, Filling
  <2>4. Given' /\ NewOwned'
    BY <1>1, <1>2, <2>1, SameGiven DEF NewOwned, Creating, HasRun
  <2>5. Extracted'
    <3>1. HasPieces(i, fd_pos)'
      BY <1>2, <1>4, <1>6, <1>10, <2>1 DEF HasPieces
    <3>2. i <= Len(entries) + 1
      BY <1>4, <1>13
    <3>3. QED
      BY <1>2, <1>4, <1>9, <1>12, <1>13, <1>14, <2>1, <3>1, <3>2 DEF Extracted
  <2>6. QED
    BY <1>11, <2>2, <2>3, <2>4, <2>5 DEF InstallInv
<1>15. CASE ~ (fd_pos < Pieces[Archive[i]])
  <2>1. i' = i + 1 /\ OpenNext(i + 1) /\ root_inode = Len(entries) /\ fd_pos = Pieces[Archive[i]]
    BY <1>1, <1>2, <1>5, <1>6, <1>15 DEF WriteSize, Listed
  <2>2. i + 1 \in Nat \ {0} /\ i + 1 <= Len(entries) + 1
    BY <1>4, <1>13
  <2>3. \/ /\ i' = Len(Archive) + 1 /\ pc' = "mark" /\ inode_nr' = inode_nr
        \/ /\ i' <= Len(Archive) /\ i' = Len(entries) + 1
           /\ pc' = "alloc_imap_bit" /\ inode_nr' = 0
        \/ /\ i' <= Len(Archive) /\ i' <= Len(entries)
           /\ pc' = "truncate" /\ inode_nr' = entries[i'].nr
    BY <1>1, <2>1, <2>2, Opening
  <2>4. i' \in Nat \ {0} /\ i' <= Len(entries) + 1
    BY <2>1, <2>2
  <2>5. Typed'
    <3>1. inode_nr' \in 0..NR_FREE
      <4>1. \A k \in 1..Len(entries) : entries[k].nr \in 0..NR_FREE
        BY <1>5, InstallAssumption DEF Numbers
      <4>2. inode_nr \in 0..NR_FREE /\ 0 \in 0..NR_FREE
        BY <1>4, InstallAssumption DEF Numbers
      <4>3. QED
        BY <1>13, <2>3, <2>4, <4>1, <4>2
    <3>2. pc' \in Made /\ i' \in Nat
      BY <2>3, <2>4 DEF Made, Extracting, Filling
    <3>3. QED
      BY <1>1, <1>2, <1>8, <3>1, <3>2 DEF Typed
  <2>6. Blanks' /\ Listed'
    BY <1>1, <1>2, <1>4, <2>3 DEF Blanks, Listed, Made, Extracting, Filling
  <2>7. Given'
    BY <1>1, <1>2, <2>3, SameGiven DEF Creating, HasRun
  <2>8. NewOwned'
    BY <1>2, <2>3 DEF NewOwned, Creating, HasRun
  <2>9. Extracted'
    <3>1. PICK j \in Nat : j = i
      BY <1>4
    <3>2. Complete(j)'
      <4>1. HasPieces(j, Pieces[Archive[j]])
        BY <1>6, <2>1, <3>1
      <4>2. inodes'[entries[j].nr].size = Pieces[Archive[j]] /\ RunOf(j)' = RunOf(j)
        BY <1>4, <1>9, <1>10, <2>1, <3>1
      <4>3. QED
        BY <1>2, <4>1, <4>2 DEF Complete, HasPieces
    <3>3. \A k \in 1..(i' - 1) : k \in 1..(i - 1) \/ k = j
      BY <1>4, <2>1, <3>1
    <3>4. \A k \in 1..(i' - 1) : Complete(k)'
      BY <1>12, <3>2, <3>3
    <3>5. i' >= 1
      BY <2>4
    <3>6. QED
      BY <1>2, <1>4, <2>3, <2>4, <3>4, <3>5 DEF Extracted, Filling
  <2>10. QED
    BY <1>11, <2>5, <2>6, <2>7, <2>8, <2>9 DEF InstallInv
<1>16. QED
  BY <1>14, <1>15

LEMMA InvStep ==
  ASSUME InstallInv, [Next]_vars
  PROVE  InstallInv'
<1>1. CASE UNCHANGED vars
  <2>1. Typed /\ Blanks /\ Listed /\ Given /\ Owned /\ NewOwned /\ Extracted
    BY DEF InstallInv
  <2>2. /\ UNCHANGED <<super, imap, smap, whole, inodes, root, entries, tar, data>>
        /\ UNCHANGED <<pc, root_inode, i, inode_nr, free_sect_nr, fd_pos, crashes>>
    BY <1>1 DEF vars, disk, memory
  <2>3. Typed' /\ Blanks' /\ Listed'
    BY <2>1, <2>2 DEF Typed, Blanks, Listed
  <2>4. Given' /\ Owned'
    BY <2>1, <2>2, SameGiven, SameOwned
  <2>5. NewOwned'
    BY <2>1, <2>2 DEF NewOwned, RunOf
  <2>6. Extracted'
    BY <2>1, <2>2, SameComplete DEF Extracted
  <2>7. QED
    BY <2>3, <2>4, <2>5, <2>6 DEF InstallInv
<1>2. CASE Write
  BY <1>2, InitFsKept, MkfsKept, MakeRootKept, UntarKept, AllocImapBitKept, AllocSmapBitKept,
     AllocSmapRestKept,
     NewInodeKept, NewDirEntryKept, SyncRootKept, TruncateKept, WriteDataKept, WriteSizeKept,
     MarkKept DEF Write
<1>3. QED
  BY <1>1, <1>2, CrashKept DEF Next

LEMMA Invariant == Spec => []InstallInv
<1>1. InstallInv /\ [Next]_vars => InstallInv'
  BY InvStep
<1>2. QED
  BY <1>1, InvInit, PTL DEF Spec

-----------------------------------------------------------------------------
(* Theorems.                                                               *)

(* A file somebody finds after a power failure, wherever it struck, has    *)
(* an inode and a run that the maps have marked and no other file has.     *)
THEOREM MapsCover == Spec => []MapsCoverFiles
<1>1. InstallInv => MapsCoverFiles
  <2> SUFFICES ASSUME InstallInv PROVE MapsCoverFiles
    OBVIOUS
  <2>1. Typed /\ Listed /\ Owned
    BY DEF InstallInv
  <2>2. ASSUME NEW f \in Names, Found(f) # 0
        PROVE  \E k \in 1..Len(entries) : f = Archive[k] /\ Found(f) = entries[k].nr
    BY <2>1, <2>2, FoundAt
  <2>3. ASSUME NEW f \in Names, Found(f) # 0
        PROVE  Found(f) \in imap /\ inodes[Found(f)].run \in whole
    BY <2>1, <2>2, <2>3 DEF Owned, RunOf
  <2>4. ASSUME NEW f \in Names, NEW g \in Names \ {f}, Found(f) # 0, Found(g) # 0
        PROVE  Found(g) # Found(f) /\ inodes[Found(g)].run # inodes[Found(f)].run
    BY <2>1, <2>2, <2>4 DEF Owned, RunOf
  <2>5. QED
    BY <2>3, <2>4 DEF MapsCoverFiles
<1>2. QED
  BY <1>1, Invariant, PTL

(* The first byte of the archive is cleared only when every file of it is  *)
(* found and complete, however often the extraction was cut off.           *)
THEOREM Installed == Spec => []InstalledWhenCleared
<1>1. InstallInv => InstalledWhenCleared
  <2> SUFFICES ASSUME InstallInv, tar = "cleared", NEW f \in Names
               PROVE  /\ Found(f) # 0
                      /\ inodes[Found(f)].size = Pieces[f]
                      /\ \A k \in 1..Pieces[f] :
                           /\ k \in DOMAIN data[inodes[Found(f)].run]
                           /\ data[inodes[Found(f)].run][k] = Piece(f, k)
    BY DEF InstalledWhenCleared
  <2>1. Typed /\ Blanks /\ Listed /\ Owned /\ Extracted
    BY DEF InstallInv
  <2>2. PICK j \in 1..Len(Archive) : f = Archive[j]
    BY <2>1, Lengths DEF Names
  <2>3. /\ Len(entries) = Len(Archive) /\ Complete(j) /\ pc \notin Extracting
    BY <2>1, <2>2 DEF Extracted
  <2>4. /\ root = Len(entries) /\ j \in 1..Len(entries)
    BY <2>1, <2>3 DEF Listed, Extracting, Filling
  <2>5. Found(f) = entries[j].nr /\ entries[j].nr \in Numbers
    BY <2>1, <2>2, <2>3, <2>4, Search, Lengths DEF Found
  <2>6. inodes[Found(f)].size = Pieces[f] /\ HasPieces(j, Pieces[f])
    BY <2>2, <2>3, <2>5 DEF Complete
  <2>7. DOMAIN data[RunOf(j)] = 1..Len(data[RunOf(j)]) /\ Len(data[RunOf(j)]) \in Nat
    <3>1. RunOf(j) \in 0..NR_FREE /\ RunOf(j) # 0
      BY <2>1, <2>4, Lengths DEF Owned
    <3>2. RunOf(j) \in Numbers
      BY <3>1, InstallAssumption DEF Numbers
    <3>3. data[RunOf(j)] \in Seq(Names \X Nat)
      BY <2>1, <3>2 DEF Typed
    <3>4. QED
      BY <3>3, LenProperties
  <2>8. Pieces[f] \in Nat
    BY InstallAssumption
  <2>9. /\ Len(data[RunOf(j)]) >= Pieces[f]
        /\ \A k \in 1..Pieces[f] : data[RunOf(j)][k] = Piece(f, k)
    BY <2>2, <2>6 DEF HasPieces
  <2>10. inodes[Found(f)].run = RunOf(j)
    BY <2>5 DEF RunOf
  <2>11. Found(f) # 0
    BY <2>5, InstallAssumption DEF Numbers
  <2>12. \A k \in 1..Pieces[f] : k \in DOMAIN data[RunOf(j)]
    BY <2>7, <2>8, <2>9
  <2>13. QED
    BY <2>6, <2>9, <2>10, <2>11, <2>12
<1>2. QED
  BY <1>1, Invariant, PTL
=============================================================================
