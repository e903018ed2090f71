----------------------------- MODULE FilesProofs -----------------------------
(***************************************************************************)
(* Proofs about Files with careful callers, for every number of processes  *)
(* and every size of the tables.  The counts are compared with the handles *)
(* there are by saying, of each request, which handles it adds or removes. *)
(***************************************************************************)
EXTENDS Files, FiniteSetTheorems, WellFoundedInduction, TLAPS

(* Scans find the first of what they look for: a set of natural numbers    *)
(* has a least one.                                                        *)
LEMMA LeastNatural ==
  ASSUME NEW T \in SUBSET Nat, T # {}
  PROVE  \E m \in T : \A n \in T : m <= n
<1> DEFINE R == OpToRel(<, Nat)
<1>1. IsWellFoundedOn(R, Nat)
  BY NatLessThanWellFounded
<1>2. ASSUME NEW j \in Nat, NEW n \in Nat, n < j PROVE <<n, j>> \in R
  BY <1>2 DEF R, OpToRel
<1> HIDE DEF R
<1>3. PICK m \in T : \A n \in T : <<n, m>> \notin R
  BY <1>1, WFMin, Zenon
<1>4. ASSUME NEW n \in T PROVE m <= n
  <2>1. ~ (n < m)
    BY <1>2, <1>3
  <2>2. m \in Nat /\ n \in Nat
    OBVIOUS
  <2>3. QED
    BY <2>1, <2>2
<1>5. QED
  BY <1>4

Typed ==
  /\ alive \subseteq Proc /\ IsFiniteSet(alive)
  /\ filp \in [Proc -> [Fds -> Descs \cup {None}]]
  /\ fd_inode \in [Descs -> Slots \cup {None}]
  /\ fd_cnt \in [Descs -> Int]
  /\ i_num \in [Slots -> Nums \cup {None}]
  /\ i_cnt \in [Slots -> Int]
  /\ imap \subseteq Nums
  /\ dir \in [Places -> [inode_nr : Nums \cup {None},
                         name : Paths \cup {"", ".", "dev_tty0", "cmd.tar"}]]
  /\ dir_size \in 0..ENTS

(* Until fs_fork the child has the handles of its parent, whom the memory  *)
(* manager keeps blocked.                                                  *)
Copied ==
  \/ forking = {}
  \/ \E p \in alive, c \in Proc \ alive : forking = {<<p, c>>} /\ filp[c] = filp[p]

(* The inode map and the directory agree, and the root is never removed.   *)
Numbered ==
  /\ imap = {dir[j].inode_nr : j \in Places} \ {None}
  /\ \A j, k \in Places : dir[j].inode_nr = dir[k].inode_nr /\ j # k => dir[j].inode_nr = None
  /\ ROOT_INODE \in imap

(* The entries search_file looks at are all there are, and each has a name *)
(* of its own.                                                             *)
Named ==
  /\ \A j \in Places : IF dir[j].inode_nr = None THEN dir[j].name = ""
                       ELSE j <= dir_size /\ dir[j].name \notin {"", ROOT}
  /\ \A j, k \in Places : dir[j].name = dir[k].name /\ j # k => dir[j].inode_nr = None

(* A slot is kept for an inode in use only, whether handles are left or a  *)
(* refused unlink has counted it up.                                       *)
SlotsInUse == \A s \in Slots : i_cnt[s] # 0 => i_num[s] \in imap

FilesInv == Typed /\ Copied /\ HandlesCounted /\ OpenFilesExist /\ Numbered /\ Named

On(d) == {h \in Held : DescOf(h) = d}
To(s) == {h \in Held : SlotOf(h) = s}
Root(s) == IF s = 1 THEN 1 ELSE 0

-----------------------------------------------------------------------------
(* Tables and handles.                                                     *)

LEMMA LeastIn ==
  ASSUME NEW S \in SUBSET Nat, S # {}
  PROVE  Least(S) \in S /\ \A j \in S : Least(S) <= j
<1>1. \E m \in S : \A k \in S : m <= k
  BY LeastNatural
<1>2. QED
  BY <1>1 DEF Least

LEMMA Tables ==
  /\ Fds \subseteq Nat \ {0} /\ Descs \subseteq Nat \ {0} /\ Slots \subseteq Nat \ {0}
  /\ Places \subseteq Nat \ {0} /\ Nums = Places
  /\ 1 \in Slots /\ ROOT_INODE \in Nums /\ TTY_INODE \in Nums /\ TAR_INODE \in Nums
  /\ IsFiniteSet(Fds) /\ IsFiniteSet(Places) /\ Cardinality(Places) = ENTS
<1>1. /\ NR_FILES \in Nat \ {0} /\ NR_FILE_DESC \in Nat \ {0} /\ NR_INODES \in Nat \ {0}
      /\ ENTS \in Nat /\ ENTS > 3
  BY FilesAssumption
<1>2. IsFiniteSet(Fds)
  BY <1>1, FS_Interval, 1 \in Int, NR_FILES \in Int DEF Fds
<1>3. IsFiniteSet(Places) /\ Cardinality(Places) = ENTS
  BY <1>1, FS_Interval, 1 \in Int, ENTS \in Int DEF Places
<1>4. QED
  BY <1>1, <1>2, <1>3
  DEF Fds, Descs, Slots, Places, Nums, ROOT_INODE, TTY_INODE, TAR_INODE

LEMMA HeldMeans ==
  /\ \A p \in alive, fd \in Fds : <<p, fd>> \in Held <=> filp[p][fd] # None
  /\ \A h \in Held : /\ h[1] \in alive /\ h[2] \in Fds /\ h = <<h[1], h[2]>>
                     /\ filp[h[1]][h[2]] # None /\ DescOf(h) = filp[h[1]][h[2]]
BY DEF Held, DescOf

LEMMA HeldFinite ==
  ASSUME Typed, NEW S \in SUBSET Held
  PROVE  IsFiniteSet(S) /\ Cardinality(S) \in Nat
<1>1. IsFiniteSet(alive \X Fds)
  BY Tables, FS_Product DEF Typed
<1>2. S \in SUBSET (alive \X Fds)
  BY DEF Held
<1>3. IsFiniteSet(S)
  BY <1>1, <1>2, FS_Subset
<1>4. QED
  BY <1>3, FS_CardinalityType

LEMMA FdsFinite ==
  ASSUME NEW S \in SUBSET Fds
  PROVE  IsFiniteSet(S) /\ Cardinality(S) \in Nat
BY Tables, FS_Subset, FS_CardinalityType

(* The handles of one process as handles of all.                           *)
LEMMA OneProcess ==
  ASSUME NEW p, NEW S \in SUBSET Fds
  PROVE  IsFiniteSet({p} \X S) /\ Cardinality({p} \X S) = Cardinality(S)
<1>1. IsFiniteSet({p}) /\ Cardinality({p}) = 1
  BY FS_Singleton
<1>2. IsFiniteSet(S) /\ Cardinality(S) \in Nat
  BY FdsFinite
<1>3. IsFiniteSet({p} \X S) /\ Cardinality({p} \X S) = Cardinality({p}) * Cardinality(S)
  BY <1>1, <1>2, FS_Product
<1>4. QED
  BY <1>1, <1>2, <1>3

LEMMA JoinProcess ==
  ASSUME NEW p, NEW T \in SUBSET Fds, NEW S, IsFiniteSet(S), S \cap ({p} \X T) = {}
  PROVE  Cardinality(S \cup ({p} \X T)) = Cardinality(S) + Cardinality(T)
<1>1. /\ IsFiniteSet({p} \X T) /\ Cardinality({p} \X T) = Cardinality(T)
      /\ Cardinality(T) \in Nat /\ Cardinality(S) \in Nat
  BY OneProcess, FdsFinite, FS_CardinalityType
<1>2. Cardinality(S \cup ({p} \X T)) =
        Cardinality(S) + Cardinality({p} \X T) - Cardinality(S \cap ({p} \X T))
  BY <1>1, FS_Union
<1>3. Cardinality(S \cap ({p} \X T)) = 0
  BY FS_EmptySet
<1>4. QED
  BY <1>1, <1>2, <1>3

LEMMA LeaveProcess ==
  ASSUME NEW p, NEW T \in SUBSET Fds, NEW S, IsFiniteSet(S), S \cap ({p} \X T) = {p} \X T
  PROVE  Cardinality(S \ ({p} \X T)) = Cardinality(S) - Cardinality(T)
<1>1. Cardinality({p} \X T) = Cardinality(T)
  BY OneProcess
<1>2. Cardinality(S \ ({p} \X T)) = Cardinality(S) - Cardinality(S \cap ({p} \X T))
  BY FS_Difference
<1>3. QED
  BY <1>1, <1>2

LEMMA OnlyProcess ==
  ASSUME NEW p, NEW T \in SUBSET Fds, NEW S, IsFiniteSet(S), S \cap ({p} \X T) = {p} \X T
  PROVE  /\ Cardinality(T) <= Cardinality(S)
         /\ Cardinality(T) = Cardinality(S) => \A h \in S : h[1] = p
<1>1. Cardinality({p} \X T) = Cardinality(T)
  BY OneProcess
<1>2. ({p} \X T) \in SUBSET S
  OBVIOUS
<1>3. /\ Cardinality({p} \X T) <= Cardinality(S)
      /\ Cardinality(S) = Cardinality({p} \X T) => S = {p} \X T
  BY <1>2, FS_Subset
<1>4. \A h \in {p} \X T : h[1] = p
  OBVIOUS
<1>5. QED
  BY <1>1, <1>3, <1>4

(* A handle in use has a descriptor and a slot, and both count it.         *)
LEMMA Referenced ==
  ASSUME Typed, HandlesCounted, NEW h \in Held
  PROVE  /\ DescOf(h) \in Descs /\ SlotOf(h) \in Slots
         /\ h \in On(DescOf(h)) /\ h \in To(SlotOf(h))
         /\ fd_cnt[DescOf(h)] = Cardinality(On(DescOf(h))) /\ fd_cnt[DescOf(h)] >= 1
         /\ i_cnt[SlotOf(h)] >= 1
<1>1. h[1] \in Proc /\ h[2] \in Fds /\ DescOf(h) = filp[h[1]][h[2]] /\ DescOf(h) # None
  BY HeldMeans DEF Typed
<1>2. filp[h[1]] \in [Fds -> Descs \cup {None}]
  BY <1>1 DEF Typed
<1>3. DescOf(h) \in Descs
  BY <1>1, <1>2
<1>4. SlotOf(h) \in Slots
  BY <1>3 DEF SlotOf, Typed, HandlesCounted
<1>5. h \in On(DescOf(h)) /\ h \in To(SlotOf(h))
  BY DEF On, To
<1>6. IsFiniteSet(On(DescOf(h))) /\ Cardinality(On(DescOf(h))) \in Nat
      /\ IsFiniteSet(To(SlotOf(h))) /\ Cardinality(To(SlotOf(h))) \in Nat
  BY HeldFinite DEF On, To
<1>7. Cardinality(On(DescOf(h))) # 0 /\ Cardinality(To(SlotOf(h))) # 0
  BY <1>5, <1>6, FS_EmptySet
<1>8. fd_cnt[DescOf(h)] = Cardinality(On(DescOf(h)))
  BY <1>3, <1>4 DEF HandlesCounted, On, SlotOf, None
<1>9. i_cnt[SlotOf(h)] >= Cardinality(To(SlotOf(h))) + Root(SlotOf(h))
  BY <1>4 DEF HandlesCounted, To, Root
<1>10. i_cnt[SlotOf(h)] \in Int
  BY <1>4 DEF Typed
<1>11. QED
  BY <1>3, <1>4, <1>5, <1>6, <1>7, <1>8, <1>9, <1>10 DEF Root

LEMMA OnFinite ==
  ASSUME Typed
  PROVE  /\ \A d : IsFiniteSet(On(d)) /\ Cardinality(On(d)) \in Nat
         /\ \A s : IsFiniteSet(To(s)) /\ Cardinality(To(s)) \in Nat
BY HeldFinite DEF On, To

(* HandlesCounted, in terms of these sets.                                 *)
LEMMA CountedMeans ==
  HandlesCounted <=>
    /\ stopped # "assert"
    /\ \A h \in Held : SlotOf(h) # None
    /\ \A d \in Descs : fd_inode[d] # None => fd_cnt[d] = Cardinality(On(d)) /\ fd_cnt[d] > 0
    /\ \A s \in Slots : i_cnt[s] >= Cardinality(To(s)) + Root(s)
    /\ \A s, t \in Slots : i_cnt[s] # 0 /\ i_cnt[t] # 0 /\ i_num[s] = i_num[t] => s = t
BY DEF HandlesCounted, On, To, Root

-----------------------------------------------------------------------------
(* Opening.                                                                *)

(* get_inode never takes a slot that somebody refers to for another inode. *)
LEMMA SlotTaken ==
  ASSUME Typed, HandlesCounted, NEW num \in Nums, GetInode(num)
  PROVE  /\ SlotFor(num) \in Slots
         /\ i_num' = [i_num EXCEPT ![SlotFor(num)] = num]
         /\ i_cnt' = [i_cnt EXCEPT ![SlotFor(num)] = i_cnt[SlotFor(num)] + 1]
         /\ i_cnt[SlotFor(num)] # 0 => i_num[SlotFor(num)] = num
         /\ \A t \in Slots : i_cnt[t] # 0 /\ i_num[t] = num => t = SlotFor(num)
<1>1. Cached(num) \in SUBSET Nat /\ Vacant \in SUBSET Nat
  BY Tables DEF Cached, Vacant
<1>2. CASE Cached(num) # {}
  <2>1. SlotFor(num) = Least(Cached(num)) /\ Least(Cached(num)) \in Cached(num)
    BY <1>1, <1>2, LeastIn DEF SlotFor
  <2>2. SlotFor(num) \in Slots /\ i_cnt[SlotFor(num)] # 0 /\ i_num[SlotFor(num)] = num
    BY <2>1 DEF Cached
  <2>3. \A t \in Slots : i_cnt[t] # 0 /\ i_num[t] = num => t = SlotFor(num)
    BY <2>2, CountedMeans
  <2>4. QED
    BY <1>2, <2>2, <2>3 DEF GetInode, Typed
<1>3. CASE Cached(num) = {}
  <2>1. SlotFor(num) = Least(Vacant) /\ Least(Vacant) \in Vacant
    BY <1>1, <1>3, LeastIn DEF SlotFor, GetInode, Full
  <2>2. SlotFor(num) \in Slots /\ i_cnt[SlotFor(num)] = 0
    BY <2>1 DEF Vacant
  <2>3. \A t \in Slots : ~ (i_cnt[t] # 0 /\ i_num[t] = num)
    BY <1>3 DEF Cached
  <2>4. i_cnt' = [i_cnt EXCEPT ![SlotFor(num)] = 1] /\ i_num' = [i_num EXCEPT ![SlotFor(num)] = num]
    BY <1>3 DEF GetInode
  <2>5. QED
    BY <2>2, <2>3, <2>4
<1>4. QED
  BY <1>2, <1>3

(* One more reference, whether a handle comes with it or not, keeps slots  *)
(* apart and their inodes.                                                 *)
LEMMA SlotsKept ==
  ASSUME Typed, HandlesCounted, NEW num \in Nums, GetInode(num)
  PROVE  /\ i_num' \in [Slots -> Nums \cup {None}] /\ i_cnt' \in [Slots -> Int]
         /\ \A s, t \in Slots : i_cnt'[s] # 0 /\ i_cnt'[t] # 0 /\ i_num'[s] = i_num'[t] => s = t
         /\ \A h \in Held : i_num'[SlotOf(h)] = i_num[SlotOf(h)]
<1> DEFINE new == SlotFor(num)
<1>1. /\ new \in Slots
      /\ i_num' = [i_num EXCEPT ![new] = num]
      /\ i_cnt' = [i_cnt EXCEPT ![new] = i_cnt[new] + 1]
      /\ i_cnt[new] # 0 => i_num[new] = num
      /\ \A t \in Slots : i_cnt[t] # 0 /\ i_num[t] = num => t = new
  BY SlotTaken
<1>2. i_num \in [Slots -> Nums \cup {None}] /\ i_cnt \in [Slots -> Int]
  BY DEF Typed
<1>3. \A s, t \in Slots : i_cnt[s] # 0 /\ i_cnt[t] # 0 /\ i_num[s] = i_num[t] => s = t
  BY CountedMeans
<1> HIDE DEF new
<1>4. i_num' \in [Slots -> Nums \cup {None}] /\ i_cnt' \in [Slots -> Int]
  BY <1>1, <1>2
<1>5. \A s, t \in Slots : i_cnt'[s] # 0 /\ i_cnt'[t] # 0 /\ i_num'[s] = i_num'[t] => s = t
  BY <1>1, <1>2, <1>3
<1>6. ASSUME NEW h \in Held PROVE i_num'[SlotOf(h)] = i_num[SlotOf(h)]
  <2>1. SlotOf(h) \in Slots /\ i_cnt[SlotOf(h)] # 0
    BY Referenced
  <2>2. QED
    BY <1>1, <1>2, <2>1
<1>7. QED
  BY <1>4, <1>5, <1>6

(* do_open: one more handle, on a descriptor nobody had.                   *)
LEMMA Opened ==
  ASSUME FilesInv, NEW p \in alive, NEW num \in Nums, FreeFds(p) # {}, FreeDescs # {},
         GetInode(num), Install(p, SlotFor(num)), UNCHANGED <<alive, stopped>>
  PROVE  /\ HandlesCounted'
         /\ filp' \in [Proc -> [Fds -> Descs \cup {None}]]
         /\ fd_inode' \in [Descs -> Slots \cup {None}] /\ fd_cnt' \in [Descs -> Int]
         /\ \A q \in Proc \ {p} : filp'[q] = filp[q]
         /\ \A h \in Held : /\ DescOf(h)' = DescOf(h)
                            /\ i_num'[SlotOf(h)'] = i_num[SlotOf(h)]
         /\ \A h \in Held' : h \in Held \/ i_num'[SlotOf(h)'] = num
<1>1. PICK fd : fd = Least(FreeFds(p))
  OBVIOUS
<1>2. PICK d : d = Least(FreeDescs)
  OBVIOUS
<1>3. PICK new : new = SlotFor(num)
  OBVIOUS
<1> DEFINE h0 == <<p, fd>>
<1>4. Typed /\ HandlesCounted
  BY DEF FilesInv
<1>5. fd \in Fds /\ filp[p][fd] = None
  <2>1. FreeFds(p) \in SUBSET Nat
    BY Tables DEF FreeFds
  <2>2. QED
    BY <1>1, <2>1, LeastIn DEF FreeFds
<1>6. d \in Descs /\ fd_inode[d] = None
  <2>1. FreeDescs \in SUBSET Nat
    BY Tables DEF FreeDescs
  <2>2. QED
    BY <1>2, <2>1, LeastIn DEF FreeDescs
<1>7. /\ new \in Slots
      /\ i_num' = [i_num EXCEPT ![new] = num]
      /\ i_cnt' = [i_cnt EXCEPT ![new] = i_cnt[new] + 1]
  BY <1>4, <1>3, SlotTaken
<1>8. /\ filp' = [filp EXCEPT ![p] = [filp[p] EXCEPT ![fd] = d]]
      /\ fd_inode' = [fd_inode EXCEPT ![d] = new] /\ fd_cnt' = [fd_cnt EXCEPT ![d] = 1]
  BY <1>1, <1>2, <1>3 DEF Install
<1>9. /\ p \in Proc /\ filp \in [Proc -> [Fds -> Descs \cup {None}]]
      /\ fd_inode \in [Descs -> Slots \cup {None}] /\ fd_cnt \in [Descs -> Int]
      /\ i_num \in [Slots -> Nums \cup {None}] /\ i_cnt \in [Slots -> Int]
      /\ filp[p] \in [Fds -> Descs \cup {None}]
  BY <1>4 DEF Typed
<1>10. None \notin Descs /\ None \notin Slots
  BY Tables DEF None
<1>11. /\ filp' \in [Proc -> [Fds -> Descs \cup {None}]]
       /\ fd_inode' \in [Descs -> Slots \cup {None}] /\ fd_cnt' \in [Descs -> Int]
       /\ \A q \in Proc \ {p} : filp'[q] = filp[q]
       /\ filp'[p][fd] = d /\ \A e \in Fds \ {fd} : filp'[p][e] = filp[p][e]
  BY <1>5, <1>6, <1>7, <1>8, <1>9
<1>12. \A h \in Held : h # h0 /\ DescOf(h)' = DescOf(h)
  <2>1. SUFFICES ASSUME NEW h \in Held PROVE h # h0 /\ DescOf(h)' = DescOf(h)
    OBVIOUS
  <2>2. h[1] \in alive /\ h[2] \in Fds /\ h = <<h[1], h[2]>> /\ filp[h[1]][h[2]] # None
    BY HeldMeans
  <2>3. h # h0
    BY <1>5, <2>2
  <2>4. filp'[h[1]][h[2]] = filp[h[1]][h[2]]
    BY <1>4, <1>11, <2>2, <2>3 DEF Typed
  <2>5. QED
    BY <2>3, <2>4 DEF DescOf
<1>13. \A h \in Held : DescOf(h) # d /\ SlotOf(h)' = SlotOf(h)
  <2>1. SUFFICES ASSUME NEW h \in Held PROVE DescOf(h) # d /\ SlotOf(h)' = SlotOf(h)
    OBVIOUS
  <2>2. DescOf(h) \in Descs /\ SlotOf(h) \in Slots
    BY <1>4, Referenced
  <2>3. DescOf(h) # d
    BY <1>6, <1>10, <2>2 DEF SlotOf
  <2>4. fd_inode'[DescOf(h)] = fd_inode[DescOf(h)]
    BY <1>8, <1>9, <2>2, <2>3
  <2>5. QED
    BY <1>12, <2>3, <2>4 DEF SlotOf
<1>14. h0 \in Held' /\ DescOf(h0)' = d /\ SlotOf(h0)' = new
  <2>1. DescOf(h0)' = d
    BY <1>11 DEF DescOf
  <2>2. h0 \in (alive \X Fds)'
    BY <1>5
  <2>3. d # None
    BY <1>6, <1>10
  <2>4. QED
    BY <1>6, <1>8, <1>9, <1>11, <2>1, <2>2, <2>3 DEF Held, SlotOf
<1>15. Held' = Held \cup {h0}
  <2>1. ASSUME NEW h \in Held' PROVE h \in Held \cup {h0}
    <3>1. PICK q \in alive, e \in Fds : h = <<q, e>> /\ filp'[q][e] # None
      BY DEF Held
    <3>2. CASE q = p /\ e = fd
      BY <3>1, <3>2
    <3>3. CASE ~ (q = p /\ e = fd)
      <4>1. filp'[q][e] = filp[q][e]
        BY <1>4, <1>11, <3>3 DEF Typed
      <4>2. QED
        BY <3>1, <4>1, HeldMeans
    <3>4. QED
      BY <3>2, <3>3
  <2>2. ASSUME NEW h \in Held PROVE h \in Held'
    <3>1. h[1] \in alive /\ h[2] \in Fds /\ h = <<h[1], h[2]>> /\ filp[h[1]][h[2]] # None
      BY HeldMeans
    <3>2. filp'[h[1]][h[2]] # None
      BY <1>12, <3>1 DEF DescOf
    <3>3. QED
      BY <3>1, <3>2 DEF Held
  <2>3. QED
    BY <1>14, <2>1, <2>2
<1>16. /\ On(d)' = {h0} /\ \A e : e # d => On(e)' = On(e)
       /\ To(new)' = To(new) \cup {h0} /\ h0 \notin To(new)
       /\ \A s : s # new => To(s)' = To(s)
  BY <1>12, <1>13, <1>14, <1>15 DEF On, To
<1>17. /\ Cardinality(On(d)') = 1
       /\ Cardinality(To(new)') = Cardinality(To(new)) + 1
  BY <1>4, <1>16, OnFinite, FS_Singleton, FS_AddElement
<1>18. HandlesCounted'
  <2>1. \A h \in Held' : SlotOf(h)' # None
    BY <1>4, <1>7, <1>10, <1>13, <1>14, <1>15, Referenced
  <2>2. ASSUME NEW e \in Descs, fd_inode'[e] # None
        PROVE  fd_cnt'[e] = Cardinality(On(e)') /\ fd_cnt'[e] > 0
    <3>1. CASE e = d
      BY <1>8, <1>9, <1>17, <3>1
    <3>2. CASE e # d
      <4>1. fd_inode[e] # None /\ fd_cnt'[e] = fd_cnt[e]
        BY <1>8, <1>9, <2>2, <3>2
      <4>2. QED
        BY <1>4, <1>16, <3>2, <4>1, CountedMeans
    <3>3. QED
      BY <3>1, <3>2
  <2>3. ASSUME NEW s \in Slots PROVE i_cnt'[s] >= Cardinality(To(s)') + Root(s)
    <3>1. i_cnt[s] >= Cardinality(To(s)) + Root(s)
      BY <1>4, CountedMeans
    <3>2. CASE s = new
      <4>1. i_cnt[s] \in Int /\ Cardinality(To(s)) \in Nat /\ Root(s) \in Nat
        BY <1>4, <1>9, OnFinite DEF Root
      <4>2. i_cnt'[s] = i_cnt[s] + 1
        BY <1>7, <1>9, <3>2
      <4>3. QED
        BY <1>17, <3>1, <3>2, <4>1, <4>2
    <3>3. CASE s # new
      BY <1>7, <1>9, <1>16, <3>1, <3>3
    <3>4. QED
      BY <3>2, <3>3
  <2>4. \A s, t \in Slots : i_cnt'[s] # 0 /\ i_cnt'[t] # 0 /\ i_num'[s] = i_num'[t] => s = t
    BY <1>4, SlotsKept
  <2>5. stopped' # "assert"
    BY <1>4 DEF HandlesCounted
  <2>6. QED
    BY <2>1, <2>2, <2>3, <2>4, <2>5 DEF HandlesCounted, On, To, Root
<1>19. \A h \in Held : i_num'[SlotOf(h)'] = i_num[SlotOf(h)]
  BY <1>4, <1>13, SlotsKept
<1>20. i_num'[SlotOf(h0)'] = num
  BY <1>7, <1>9, <1>14
<1>21. QED
  BY <1>11, <1>12, <1>15, <1>18, <1>19, <1>20

-----------------------------------------------------------------------------
(* Closing, fork and exit.                                                 *)

(* do_close by the only holder of the descriptor.                          *)
LEMMA ClosedStep ==
  ASSUME FilesInv, NEW p \in Proc, NEW fd \in Fds, OnlyHolder(p, fd), Close(p, fd)
  PROVE  /\ HandlesCounted'
         /\ filp' \in [Proc -> [Fds -> Descs \cup {None}]]
         /\ fd_inode' \in [Descs -> Slots \cup {None}] /\ i_cnt' \in [Slots -> Int]
         /\ \A q \in Proc \ {p} : filp'[q] = filp[q]
         /\ Held' \subseteq Held
         /\ \A h \in Held : h \in Held' \/ DescOf(h)' # DescOf(h)
         /\ \A h \in Held' : SlotOf(h)' = SlotOf(h)
<1>1. Typed /\ HandlesCounted /\ p \in alive
  BY DEF FilesInv, Close, Calls
<1> DEFINE h0 == <<p, fd>>
<1>2. PICK d : d = filp[p][fd]
  OBVIOUS
<1>3. PICK s : s = fd_inode[d]
  OBVIOUS
<1>4. h0 \in Held /\ DescOf(h0) = d /\ SlotOf(h0) = s /\ d # None /\ fd_cnt[d] = 1
  BY <1>1, <1>2, <1>3, HeldMeans DEF OnlyHolder, DescOf, SlotOf
<1>5. d \in Descs /\ s \in Slots /\ h0 \in On(d) /\ fd_cnt[d] = Cardinality(On(d)) /\ i_cnt[s] >= 1
  BY <1>1, <1>4, Referenced
<1>6. On(d) = {h0}
  <2>1. IsFiniteSet(On(d)) /\ Cardinality(On(d)) = 1
    BY <1>1, <1>4, <1>5, OnFinite
  <2>2. QED
    BY <1>5, <2>1, FS_Singleton
<1>7. /\ i_cnt' = [i_cnt EXCEPT ![s] = i_cnt[s] - 1]
      /\ fd_inode' = [fd_inode EXCEPT ![d] = None]
      /\ filp' = [filp EXCEPT ![p] = [filp[p] EXCEPT ![fd] = None]]
      /\ UNCHANGED <<stopped, alive, fd_cnt, i_num>>
  <2>1. i_cnt[s] \in Int
    BY <1>1, <1>5 DEF Typed
  <2>2. i_cnt[s] > 0
    BY <1>5, <2>1
  <2>3. QED
    BY <1>2, <1>3, <2>2 DEF Close
<1>8. /\ filp \in [Proc -> [Fds -> Descs \cup {None}]]
      /\ fd_inode \in [Descs -> Slots \cup {None}] /\ fd_cnt \in [Descs -> Int]
      /\ i_cnt \in [Slots -> Int] /\ filp[p] \in [Fds -> Descs \cup {None}]
  BY <1>1 DEF Typed
<1>9. /\ filp' \in [Proc -> [Fds -> Descs \cup {None}]]
      /\ fd_inode' \in [Descs -> Slots \cup {None}] /\ i_cnt' \in [Slots -> Int]
      /\ \A q \in Proc \ {p} : filp'[q] = filp[q]
      /\ filp'[p][fd] = None /\ \A e \in Fds \ {fd} : filp'[p][e] = filp[p][e]
  BY <1>5, <1>7, <1>8
<1>10. Held' = Held \ {h0}
  <2>1. ASSUME NEW q \in alive, NEW e \in Fds
        PROVE  <<q, e>> \in Held' <=> <<q, e>> \in Held /\ <<q, e>> # h0
    <3>1. <<q, e>> \in Held <=> filp[q][e] # None
      BY HeldMeans
    <3>2. <<q, e>> \in Held' <=> filp'[q][e] # None
      BY <1>7 DEF Held
    <3>3. q \in Proc
      BY <1>1 DEF Typed
    <3>4. CASE q = p /\ e = fd
      BY <1>9, <3>2, <3>4
    <3>5. CASE ~ (q = p /\ e = fd)
      BY <1>9, <3>1, <3>2, <3>3, <3>5
    <3>6. QED
      BY <3>4, <3>5
  <2>2. Held \subseteq alive \X Fds /\ Held' \subseteq alive \X Fds
    BY <1>7 DEF Held
  <2>3. QED
    BY <2>1, <2>2
<1>11. ASSUME NEW h \in Held, h # h0
       PROVE  /\ DescOf(h)' = DescOf(h) /\ SlotOf(h)' = SlotOf(h)
              /\ DescOf(h) \in Descs /\ DescOf(h) # d
  <2>1. h[1] \in alive /\ h[2] \in Fds /\ h = <<h[1], h[2]>>
    BY HeldMeans
  <2>2. h[1] \in Proc /\ (h[1] # p \/ h[2] # fd)
    BY <1>1, <1>11, <2>1 DEF Typed
  <2>3. filp'[h[1]][h[2]] = filp[h[1]][h[2]]
    BY <1>9, <2>1, <2>2
  <2>4. DescOf(h) \in Descs /\ DescOf(h) # d
    BY <1>1, <1>6, <1>11, Referenced DEF On
  <2>5. fd_inode'[DescOf(h)] = fd_inode[DescOf(h)]
    BY <1>7, <1>8, <2>4
  <2>6. QED
    BY <2>3, <2>4, <2>5 DEF DescOf, SlotOf
<1>12. DescOf(h0)' # DescOf(h0)
  BY <1>4, <1>9 DEF DescOf
<1>13. /\ \A e \in Descs \ {d} : On(e)' = On(e)
       /\ To(s)' = To(s) \ {h0} /\ h0 \in To(s) /\ \A t : t # s => To(t)' = To(t)
  BY <1>4, <1>10, <1>11 DEF On, To
<1>14. Cardinality(To(s)') = Cardinality(To(s)) - 1 /\ Cardinality(To(s)) \in Nat
  BY <1>1, <1>13, OnFinite, FS_RemoveElement
<1>15. HandlesCounted'
  <2>1. \A h \in Held' : SlotOf(h)' # None
    BY <1>1, <1>10, <1>11, CountedMeans
  <2>2. ASSUME NEW e \in Descs, fd_inode'[e] # None
        PROVE  fd_cnt'[e] = Cardinality(On(e)') /\ fd_cnt'[e] > 0
    <3>1. e # d /\ fd_inode[e] # None
      BY <1>5, <1>7, <1>8, <2>2
    <3>2. QED
      BY <1>1, <1>7, <1>13, <3>1, CountedMeans
  <2>3. ASSUME NEW t \in Slots PROVE i_cnt'[t] >= Cardinality(To(t)') + Root(t)
    <3>1. i_cnt[t] >= Cardinality(To(t)) + Root(t)
      BY <1>1, CountedMeans
    <3>2. CASE t = s
      <4>1. i_cnt[t] \in Int /\ Root(t) \in Nat /\ i_cnt'[t] = i_cnt[t] - 1
        BY <1>5, <1>7, <1>8, <3>2 DEF Root
      <4>2. QED
        BY <1>14, <3>1, <3>2, <4>1
    <3>3. CASE t # s
      BY <1>7, <1>8, <1>13, <3>1, <3>3
    <3>4. QED
      BY <3>2, <3>3
  <2>4. \A t, u \in Slots : i_cnt'[t] # 0 /\ i_cnt'[u] # 0 /\ i_num'[t] = i_num'[u] => t = u
    <3>1. ASSUME NEW t \in Slots, i_cnt'[t] # 0 PROVE i_cnt[t] # 0
      BY <1>5, <1>7, <1>8, <3>1
    <3>2. QED
      BY <1>1, <1>7, <3>1, CountedMeans
  <2>5. stopped' # "assert"
    BY <1>1, <1>7 DEF HandlesCounted
  <2>6. QED
    BY <2>1, <2>2, <2>3, <2>4, <2>5 DEF HandlesCounted, On, To, Root
<1>16. QED
  BY <1>9, <1>10, <1>11, <1>12, <1>15

(* fs_fork: the child's handles, as many on a descriptor and on an inode   *)
(* as its parent has.                                                      *)
LEMMA ForkedStep ==
  ASSUME FilesInv, FsFork
  PROVE  /\ HandlesCounted'
         /\ alive' \subseteq Proc /\ IsFiniteSet(alive')
         /\ fd_cnt' \in [Descs -> Int] /\ i_cnt' \in [Slots -> Int]
         /\ \A h \in Held : h \in Held'
         /\ \A h \in Held' : \E g \in Held : DescOf(h)' = DescOf(g) /\ SlotOf(h)' = SlotOf(g)
<1>1. Typed /\ HandlesCounted
  BY DEF FilesInv
<1>2. PICK p \in alive, c \in Proc \ alive : forking = {<<p, c>>} /\ filp[c] = filp[p]
  <2>1. forking # {}
    BY DEF FsFork
  <2>2. QED
    BY <2>1 DEF FilesInv, Copied
<1>3. /\ fd_cnt' = [d \in Descs |-> fd_cnt[d] + Cardinality(HandlesOn(c, d))]
      /\ i_cnt' = [s \in Slots |-> i_cnt[s] + Cardinality(HandlesTo(c, s))]
      /\ alive' = alive \cup {c}
      /\ UNCHANGED <<filp, fd_inode, i_num, stopped>>
  BY <1>2 DEF FsFork
<1>4. /\ \A d : HandlesOn(c, d) \in SUBSET Fds /\ Cardinality(HandlesOn(c, d)) \in Nat
      /\ \A s : HandlesTo(c, s) \in SUBSET Fds /\ Cardinality(HandlesTo(c, s)) \in Nat
  BY FdsFinite DEF HandlesOn, HandlesTo
<1>5. fd_cnt' \in [Descs -> Int] /\ i_cnt' \in [Slots -> Int]
  <2>1. fd_cnt \in [Descs -> Int] /\ i_cnt \in [Slots -> Int]
    BY <1>1 DEF Typed
  <2>2. QED
    BY <1>3, <1>4, <2>1
<1>6. alive' \subseteq Proc /\ IsFiniteSet(alive')
  <2>1. IsFiniteSet(alive) /\ alive \subseteq Proc
    BY <1>1 DEF Typed
  <2>2. QED
    BY <1>2, <1>3, <2>1, FS_AddElement
<1>7. \A h : DescOf(h)' = DescOf(h) /\ SlotOf(h)' = SlotOf(h)
  BY <1>3 DEF DescOf, SlotOf
<1>8. Held' = Held \cup {<<c, fd>> : fd \in {e \in Fds : filp[c][e] # None}}
  <2>1. ASSUME NEW h \in Held'
        PROVE  h \in Held \/ \E fd \in Fds : h = <<c, fd>> /\ filp[c][fd] # None
    <3>1. PICK q \in alive \cup {c}, fd \in Fds : h = <<q, fd>> /\ filp[q][fd] # None
      BY <1>3 DEF Held
    <3>2. QED
      BY <3>1, HeldMeans
  <2>2. ASSUME NEW h \in Held PROVE h \in Held'
    BY <1>3 DEF Held
  <2>3. ASSUME NEW fd \in Fds, filp[c][fd] # None PROVE <<c, fd>> \in Held'
    BY <1>3, <2>3 DEF Held
  <2>4. QED
    BY <2>1, <2>2, <2>3
<1>9. \A fd \in Fds : filp[c][fd] # None =>
        /\ <<p, fd>> \in Held /\ <<c, fd>> \notin Held
        /\ DescOf(<<c, fd>>) = DescOf(<<p, fd>>) /\ SlotOf(<<c, fd>>) = SlotOf(<<p, fd>>)
        /\ DescOf(<<c, fd>>) = filp[c][fd]
  BY <1>2, HeldMeans DEF DescOf, SlotOf
<1>10. ASSUME NEW h \in Held'
       PROVE  \E g \in Held : DescOf(h)' = DescOf(g) /\ SlotOf(h)' = SlotOf(g)
  <2>1. h \in Held \/ \E fd \in Fds : h = <<c, fd>> /\ filp[c][fd] # None
    BY <1>8
  <2>2. CASE h \in Held
    BY <1>7, <2>2
  <2>3. CASE \E fd \in Fds : h = <<c, fd>> /\ filp[c][fd] # None
    <3>1. PICK fd \in Fds : h = <<c, fd>> /\ filp[c][fd] # None
      BY <2>3
    <3>2. <<p, fd>> \in Held /\ DescOf(h) = DescOf(<<p, fd>>) /\ SlotOf(h) = SlotOf(<<p, fd>>)
      BY <1>9, <3>1
    <3>3. QED
      BY <1>7, <3>2
  <2>4. QED
    BY <2>1, <2>2, <2>3
<1>11. ASSUME NEW d \in Descs
       PROVE  Cardinality(On(d)') = Cardinality(On(d)) + Cardinality(HandlesOn(c, d))
  <2> DEFINE new == {c} \X HandlesOn(c, d)
  <2>1. d # None
    BY Tables DEF None
  <2>2. On(d)' = On(d) \cup new
    <3>1. \A h \in Held : h \in On(d)' <=> h \in On(d)
      BY <1>7, <1>8 DEF On
    <3>2. ASSUME NEW h \in Held', h \notin Held PROVE h \in On(d)' <=> h \in new
      <4>1. PICK fd \in Fds : h = <<c, fd>> /\ filp[c][fd] # None
        BY <1>8, <3>2
      <4>2. DescOf(h) = filp[c][fd]
        BY <1>9, <4>1
      <4>3. QED
        BY <1>7, <3>2, <4>1, <4>2 DEF On, HandlesOn
    <3>3. ASSUME NEW h \in new PROVE h \in Held' /\ h \notin Held
      <4>1. PICK fd \in HandlesOn(c, d) : h = <<c, fd>>
        OBVIOUS
      <4>2. fd \in Fds /\ filp[c][fd] # None
        BY <2>1 DEF HandlesOn
      <4>3. QED
        BY <1>8, <1>9, <4>1, <4>2
    <3>4. On(d)' \subseteq Held' /\ On(d) \subseteq Held
      BY DEF On
    <3>5. Held \subseteq Held'
      BY <1>8
    <3>6. QED
      BY <3>1, <3>2, <3>3, <3>4, <3>5
  <2>3. On(d) \cap new = {}
    BY <1>2, HeldMeans DEF On
  <2>4. IsFiniteSet(On(d))
    BY <1>1, OnFinite
  <2>5. Cardinality(On(d) \cup new) = Cardinality(On(d)) + Cardinality(HandlesOn(c, d))
    BY <1>4, <2>3, <2>4, JoinProcess
  <2>6. QED
    BY <2>2, <2>5
<1>12. ASSUME NEW s \in Slots
       PROVE  Cardinality(To(s)') = Cardinality(To(s)) + Cardinality(HandlesTo(c, s))
  <2> DEFINE new == {c} \X HandlesTo(c, s)
  <2>1. To(s)' = To(s) \cup new
    <3>1. \A h \in Held : h \in To(s)' <=> h \in To(s)
      BY <1>7, <1>8 DEF To
    <3>2. ASSUME NEW h \in Held', h \notin Held PROVE h \in To(s)' <=> h \in new
      <4>1. PICK fd \in Fds : h = <<c, fd>> /\ filp[c][fd] # None
        BY <1>8, <3>2
      <4>2. SlotOf(h) = fd_inode[filp[c][fd]]
        BY <1>9, <4>1 DEF SlotOf
      <4>3. QED
        BY <1>7, <3>2, <4>1, <4>2 DEF To, HandlesTo
    <3>3. ASSUME NEW h \in new PROVE h \in Held' /\ h \notin Held
      <4>1. PICK fd \in HandlesTo(c, s) : h = <<c, fd>>
        OBVIOUS
      <4>2. fd \in Fds /\ filp[c][fd] # None
        BY DEF HandlesTo
      <4>3. QED
        BY <1>8, <1>9, <4>1, <4>2
    <3>4. To(s)' \subseteq Held' /\ To(s) \subseteq Held
      BY DEF To
    <3>5. Held \subseteq Held'
      BY <1>8
    <3>6. QED
      BY <3>1, <3>2, <3>3, <3>4, <3>5
  <2>2. To(s) \cap new = {}
    BY <1>2, HeldMeans DEF To
  <2>3. IsFiniteSet(To(s))
    BY <1>1, OnFinite
  <2>4. Cardinality(To(s) \cup new) = Cardinality(To(s)) + Cardinality(HandlesTo(c, s))
    BY <1>4, <2>2, <2>3, JoinProcess
  <2>5. QED
    BY <2>1, <2>4
<1>13. HandlesCounted'
  <2>1. \A h \in Held' : SlotOf(h)' # None
    BY <1>1, <1>10, CountedMeans
  <2>2. ASSUME NEW d \in Descs, fd_inode'[d] # None
        PROVE  fd_cnt'[d] = Cardinality(On(d)') /\ fd_cnt'[d] > 0
    <3>1. fd_inode[d] # None /\ fd_cnt'[d] = fd_cnt[d] + Cardinality(HandlesOn(c, d))
      BY <1>3, <2>2
    <3>2. fd_cnt[d] = Cardinality(On(d)) /\ fd_cnt[d] > 0 /\ fd_cnt[d] \in Int
      BY <1>1, <3>1, CountedMeans DEF Typed
    <3>3. Cardinality(HandlesOn(c, d)) \in Nat
      BY <1>4
    <3>4. QED
      BY <1>11, <3>1, <3>2, <3>3
  <2>3. ASSUME NEW s \in Slots PROVE i_cnt'[s] >= Cardinality(To(s)') + Root(s)
    <3>1. i_cnt[s] \in Int /\ Root(s) \in Nat /\ Cardinality(To(s)) \in Nat
      BY <1>1, OnFinite DEF Root, Typed
    <3>2. i_cnt[s] >= Cardinality(To(s)) + Root(s)
      BY <1>1, CountedMeans
    <3>3. i_cnt'[s] = i_cnt[s] + Cardinality(HandlesTo(c, s))
      BY <1>3
    <3>4. QED
      BY <1>4, <1>12, <3>1, <3>2, <3>3
  <2>4. \A s, t \in Slots : i_cnt'[s] # 0 /\ i_cnt'[t] # 0 /\ i_num'[s] = i_num'[t] => s = t
    <3>1. ASSUME NEW s \in Slots, i_cnt'[s] # 0 PROVE i_cnt[s] # 0
      <4>1. CASE HandlesTo(c, s) = {}
        <5>1. i_cnt[s] \in Int /\ Cardinality({}) = 0
          BY <1>1, FS_EmptySet DEF Typed
        <5>2. i_cnt'[s] = i_cnt[s] + 0
          BY <1>3, <4>1, <5>1
        <5>3. QED
          BY <3>1, <5>1, <5>2
      <4>2. CASE HandlesTo(c, s) # {}
        <5>1. PICK fd \in Fds : filp[c][fd] # None /\ fd_inode[filp[c][fd]] = s
          BY <4>2 DEF HandlesTo
        <5>2. <<p, fd>> \in Held /\ SlotOf(<<p, fd>>) = s
          BY <1>9, <5>1 DEF SlotOf
        <5>3. i_cnt[s] >= 1
          BY <1>1, <5>2, Referenced
        <5>4. QED
          BY <5>3
      <4>3. QED
        BY <4>1, <4>2
    <3>2. QED
      BY <1>1, <1>3, <3>1, CountedMeans
  <2>5. stopped' # "assert"
    BY <1>1, <1>3 DEF HandlesCounted
  <2>6. QED
    BY <2>1, <2>2, <2>3, <2>4, <2>5 DEF HandlesCounted, On, To, Root
<1>14. QED
  BY <1>5, <1>6, <1>8, <1>10, <1>13

(* fs_exit gives back every handle, and forgets the inode of a descriptor  *)
(* only when nobody else holds it.                                         *)
LEMMA ExitedStep ==
  ASSUME FilesInv, NEW p \in Proc, FsExit(p)
  PROVE  /\ HandlesCounted'
         /\ alive' \subseteq Proc /\ IsFiniteSet(alive')
         /\ filp' \in [Proc -> [Fds -> Descs \cup {None}]]
         /\ fd_inode' \in [Descs -> Slots \cup {None}]
         /\ fd_cnt' \in [Descs -> Int] /\ i_cnt' \in [Slots -> Int]
         /\ Held' \subseteq Held
         /\ \A h \in Held' : SlotOf(h)' = SlotOf(h)
         /\ \A h \in Held : h[1] \in alive' => h \in Held'
<1>1. Typed /\ HandlesCounted /\ p \in alive
  BY DEF FilesInv, FsExit, Calls
<1>2. /\ filp \in [Proc -> [Fds -> Descs \cup {None}]]
      /\ fd_inode \in [Descs -> Slots \cup {None}] /\ fd_cnt \in [Descs -> Int]
      /\ i_cnt \in [Slots -> Int] /\ filp[p] \in [Fds -> Descs \cup {None}]
      /\ alive \subseteq Proc /\ IsFiniteSet(alive)
  BY <1>1 DEF Typed
<1>3. /\ None \notin Descs /\ None \notin Slots /\ Fds \subseteq Nat
  BY Tables DEF None
<1>4. /\ \A d : HandlesOn(p, d) \in SUBSET Fds /\ Cardinality(HandlesOn(p, d)) \in Nat
      /\ \A s : HandlesTo(p, s) \in SUBSET Fds /\ Cardinality(HandlesTo(p, s)) \in Nat
  BY FdsFinite DEF HandlesOn, HandlesTo
<1>5. ASSUME NEW d \in Descs
      PROVE  /\ ({p} \X HandlesOn(p, d)) \subseteq On(d)
             /\ Cardinality(On(d) \ ({p} \X HandlesOn(p, d)))
                  = Cardinality(On(d)) - Cardinality(HandlesOn(p, d))
             /\ Cardinality(HandlesOn(p, d)) <= Cardinality(On(d))
             /\ Cardinality(HandlesOn(p, d)) = Cardinality(On(d)) => \A h \in On(d) : h[1] = p
  <2>1. ({p} \X HandlesOn(p, d)) \subseteq On(d)
    <3>1. ASSUME NEW fd \in HandlesOn(p, d) PROVE <<p, fd>> \in On(d)
      BY <1>1, <1>3, HeldMeans DEF HandlesOn, On, DescOf
    <3>2. QED
      BY <3>1
  <2>2. IsFiniteSet(On(d))
    BY <1>1, OnFinite
  <2>3. /\ Cardinality(On(d) \ ({p} \X HandlesOn(p, d)))
             = Cardinality(On(d)) - Cardinality(HandlesOn(p, d))
        /\ Cardinality(HandlesOn(p, d)) <= Cardinality(On(d))
        /\ Cardinality(HandlesOn(p, d)) = Cardinality(On(d)) => \A h \in On(d) : h[1] = p
    <3>1. HandlesOn(p, d) \in SUBSET Fds
      BY <1>4
    <3>2. On(d) \cap ({p} \X HandlesOn(p, d)) = {p} \X HandlesOn(p, d)
      BY <2>1
    <3>3. QED
      BY <2>2, <3>1, <3>2, LeaveProcess, OnlyProcess
  <2>4. QED
    BY <2>1, <2>3
<1>6. ASSUME NEW s \in Slots
      PROVE  /\ ({p} \X HandlesTo(p, s)) \subseteq To(s)
             /\ Cardinality(To(s) \ ({p} \X HandlesTo(p, s)))
                  = Cardinality(To(s)) - Cardinality(HandlesTo(p, s))
             /\ Cardinality(HandlesTo(p, s)) <= Cardinality(To(s))
  <2>1. ({p} \X HandlesTo(p, s)) \subseteq To(s)
    <3>1. ASSUME NEW fd \in HandlesTo(p, s) PROVE <<p, fd>> \in To(s)
      BY <1>1, HeldMeans DEF HandlesTo, To, DescOf, SlotOf
    <3>2. QED
      BY <3>1
  <2>2. HandlesTo(p, s) \in SUBSET Fds /\ IsFiniteSet(To(s))
    BY <1>1, <1>4, OnFinite
  <2>3. To(s) \cap ({p} \X HandlesTo(p, s)) = {p} \X HandlesTo(p, s)
    BY <2>1
  <2>4. Cardinality(To(s) \ ({p} \X HandlesTo(p, s)))
          = Cardinality(To(s)) - Cardinality(HandlesTo(p, s))
    BY <2>2, <2>3, LeaveProcess
  <2>5. Cardinality(HandlesTo(p, s)) <= Cardinality(To(s))
    BY <2>2, <2>3, OnlyProcess
  <2>6. QED
    BY <2>1, <2>4, <2>5
<1>7. ASSUME NEW fd \in Fds, filp[p][fd] # None PROVE GivesBack(p, fd)
  <2> DEFINE d == filp[p][fd]
             all == HandlesOn(p, d)
             below == {e \in all : e < fd}
  <2>1. <<p, fd>> \in Held /\ DescOf(<<p, fd>>) = d
    BY <1>1, <1>7, HeldMeans DEF DescOf
  <2>2. d \in Descs /\ fd_cnt[d] = Cardinality(On(d))
    BY <1>1, <2>1, Referenced
  <2>3. fd \in all /\ fd \notin below /\ below \in SUBSET all
    BY <1>3 DEF HandlesOn
  <2>4. IsFiniteSet(all) /\ Cardinality(all) \in Nat /\ Cardinality(below) \in Nat
    BY <1>4, FdsFinite
  <2>5. Cardinality(below) <= Cardinality(all) /\ Cardinality(below) # Cardinality(all)
    BY <2>3, <2>4, FS_Subset
  <2>6. Cardinality(all) <= Cardinality(On(d)) /\ fd_cnt[d] \in Int
    BY <1>2, <1>5, <2>2
  <2>7. fd_cnt[d] > Cardinality(below)
    BY <2>2, <2>4, <2>5, <2>6
  <2>8. QED
    BY <2>4, <2>6, <2>7 DEF GivesBack
<1>8. \A s : {fd \in HandlesTo(p, s) : GivesBack(p, fd)} = HandlesTo(p, s)
  BY <1>7 DEF HandlesTo
<1>9. /\ i_cnt' = [s \in Slots |-> i_cnt[s] - Cardinality(HandlesTo(p, s))]
      /\ fd_cnt' = [d \in Descs |-> fd_cnt[d] - Cardinality(HandlesOn(p, d))]
      /\ fd_inode' = [d \in Descs |->
           IF fd_cnt[d] \in 1..Cardinality(HandlesOn(p, d)) THEN None ELSE fd_inode[d]]
      /\ filp' = [filp EXCEPT ![p] = [fd \in Fds |-> None]]
      /\ alive' = alive \ {p}
      /\ UNCHANGED <<i_num, stopped>>
  BY <1>8 DEF FsExit
<1>10. /\ alive' \subseteq Proc /\ IsFiniteSet(alive')
       /\ filp' \in [Proc -> [Fds -> Descs \cup {None}]]
       /\ fd_inode' \in [Descs -> Slots \cup {None}]
       /\ fd_cnt' \in [Descs -> Int] /\ i_cnt' \in [Slots -> Int]
  BY <1>2, <1>4, <1>9, FS_RemoveElement
<1>11. ASSUME NEW h, h[1] # p
       PROVE  h \in Held' <=> h \in Held
  BY <1>2, <1>9, <1>11 DEF Held
<1>12. \A h \in Held' : h[1] # p
  BY <1>9 DEF Held
<1>13. ASSUME NEW h \in Held, h[1] # p
       PROVE  DescOf(h)' = DescOf(h) /\ SlotOf(h)' = SlotOf(h)
  <2>1. DescOf(h)' = DescOf(h)
    BY <1>2, <1>9, <1>13, HeldMeans DEF DescOf
  <2>2. DescOf(h) \in Descs /\ h \in On(DescOf(h)) /\ fd_cnt[DescOf(h)] = Cardinality(On(DescOf(h)))
    BY <1>1, Referenced
  <2>3. Cardinality(On(DescOf(h))) \in Nat /\ Cardinality(HandlesOn(p, DescOf(h))) \in Nat
    BY <1>1, <1>4, OnFinite
  <2>4. /\ Cardinality(HandlesOn(p, DescOf(h))) <= Cardinality(On(DescOf(h)))
        /\ Cardinality(HandlesOn(p, DescOf(h))) # Cardinality(On(DescOf(h)))
    BY <1>5, <1>13, <2>2
  <2>5. ~ (fd_cnt[DescOf(h)] \in 1..Cardinality(HandlesOn(p, DescOf(h))))
    BY <2>2, <2>3, <2>4
  <2>6. fd_inode'[DescOf(h)] = fd_inode[DescOf(h)]
    BY <1>9, <2>2, <2>5
  <2>7. QED
    BY <2>1, <2>6 DEF SlotOf
<1>14. ASSUME NEW d \in Descs
       PROVE  On(d)' = On(d) \ ({p} \X HandlesOn(p, d))
  <2>1. ASSUME NEW h \in On(d), h[1] = p PROVE h \in {p} \X HandlesOn(p, d)
    BY <2>1, HeldMeans DEF On, HandlesOn
  <2>2. \A h \in {p} \X HandlesOn(p, d) : h[1] = p
    OBVIOUS
  <2>3. ASSUME NEW h, h[1] # p PROVE h \in On(d)' <=> h \in On(d)
    BY <1>11, <1>13, <2>3 DEF On
  <2>4. \A h \in On(d)' : h[1] # p
    BY <1>12 DEF On
  <2>5. QED
    BY <2>1, <2>2, <2>3, <2>4
<1>15. ASSUME NEW s \in Slots
       PROVE  To(s)' = To(s) \ ({p} \X HandlesTo(p, s))
  <2>1. ASSUME NEW h \in To(s), h[1] = p PROVE h \in {p} \X HandlesTo(p, s)
    BY <2>1, HeldMeans DEF To, HandlesTo, SlotOf
  <2>2. \A h \in {p} \X HandlesTo(p, s) : h[1] = p
    OBVIOUS
  <2>3. ASSUME NEW h, h[1] # p PROVE h \in To(s)' <=> h \in To(s)
    BY <1>11, <1>13, <2>3 DEF To
  <2>4. \A h \in To(s)' : h[1] # p
    BY <1>12 DEF To
  <2>5. QED
    BY <2>1, <2>2, <2>3, <2>4
<1>16. HandlesCounted'
  <2>1. \A h \in Held' : SlotOf(h)' # None
    BY <1>1, <1>11, <1>12, <1>13, CountedMeans
  <2>2. ASSUME NEW d \in Descs, fd_inode'[d] # None
        PROVE  fd_cnt'[d] = Cardinality(On(d)') /\ fd_cnt'[d] > 0
    <3>1. fd_inode[d] # None /\ fd_cnt[d] \notin 1..Cardinality(HandlesOn(p, d))
          /\ fd_cnt'[d] = fd_cnt[d] - Cardinality(HandlesOn(p, d))
      BY <1>9, <2>2
    <3>2. fd_cnt[d] = Cardinality(On(d)) /\ fd_cnt[d] > 0 /\ fd_cnt[d] \in Int
      BY <1>1, <1>2, <3>1, CountedMeans
    <3>3. fd_cnt'[d] = Cardinality(On(d)')
      BY <1>5, <1>14, <3>1, <3>2
    <3>4. Cardinality(HandlesOn(p, d)) \in Nat
      BY <1>4
    <3>5. fd_cnt'[d] > 0
      BY <3>1, <3>2, <3>4
    <3>6. QED
      BY <3>3, <3>5
  <2>3. ASSUME NEW s \in Slots
        PROVE  i_cnt'[s] >= Cardinality(To(s)') + Root(s) /\ (i_cnt'[s] # 0 => i_cnt[s] # 0)
    <3>1. i_cnt[s] \in Int /\ Root(s) \in Nat /\ Cardinality(To(s)) \in Nat
          /\ Cardinality(HandlesTo(p, s)) \in Nat
      BY <1>1, <1>2, <1>4, OnFinite DEF Root
    <3>2. i_cnt[s] >= Cardinality(To(s)) + Root(s)
      BY <1>1, CountedMeans
    <3>3. i_cnt'[s] = i_cnt[s] - Cardinality(HandlesTo(p, s))
      BY <1>9
    <3>4. Cardinality(To(s)') = Cardinality(To(s)) - Cardinality(HandlesTo(p, s))
          /\ Cardinality(HandlesTo(p, s)) <= Cardinality(To(s))
      BY <1>6, <1>15
    <3>5. QED
      BY <3>1, <3>2, <3>3, <3>4
  <2>4. \A s, t \in Slots : i_cnt'[s] # 0 /\ i_cnt'[t] # 0 /\ i_num'[s] = i_num'[t] => s = t
    BY <1>1, <1>9, <2>3, CountedMeans
  <2>5. stopped' # "assert"
    BY <1>1, <1>9 DEF HandlesCounted
  <2>6. QED
    BY <2>1, <2>2, <2>3, <2>4, <2>5 DEF HandlesCounted, On, To, Root
<1>17. QED
  BY <1>9, <1>10, <1>11, <1>12, <1>13, <1>16

-----------------------------------------------------------------------------
(* The directory.                                                          *)

(* What search_file finds in directory D of length n.                      *)
Lookup(D, n, path) ==
  LET hits == {j \in 1..n : D[j].name = path}
  IN  IF path = ROOT THEN ROOT_INODE
      ELSE IF hits = {} THEN None ELSE D[Least(hits)].inode_nr

(* A directory as Named has it.                                            *)
NoName == ""
Listing(D, n) ==
  /\ n \in 0..ENTS
  /\ \A j \in Places : D[j].inode_nr = None => D[j].name = NoName
  /\ \A j \in Places : D[j].inode_nr # None => j <= n /\ D[j].name \notin {NoName, ROOT}
  /\ \A j, k \in Places : D[j].name = D[k].name /\ j # k => D[j].inode_nr = None

(* In it search_file finds the entry of the name and nothing else.         *)
LEMMA LookupFinds ==
  ASSUME NEW D, NEW n, Listing(D, n), NEW path, path \notin {NoName, ROOT}
  PROVE  /\ \A j \in Places : D[j].name = path => /\ D[j].inode_nr # None
                                                  /\ Lookup(D, n, path) = D[j].inode_nr
         /\ (\A j \in Places : D[j].name # path) => Lookup(D, n, path) = None
<1> DEFINE hits == {j \in 1..n : D[j].name = path}
<1>1. ENTS \in Nat /\ n \in Nat /\ n <= ENTS /\ 1..n \subseteq Places
  <2>1. ENTS \in Nat /\ n \in 0..ENTS
    BY FilesAssumption DEF Listing
  <2>2. QED
    BY <2>1 DEF Places
<1>2. Lookup(D, n, path) = IF hits = {} THEN None ELSE D[Least(hits)].inode_nr
  BY DEF Lookup
<1>3. ASSUME NEW j \in Places, D[j].name = path
      PROVE  D[j].inode_nr # None /\ Lookup(D, n, path) = D[j].inode_nr
  <2>1. D[j].inode_nr # None /\ j <= n
    BY <1>3 DEF Listing
  <2>2. j \in hits
    <3>1. j \in Nat \ {0}
      BY Tables
    <3>2. QED
      BY <1>1, <1>3, <2>1, <3>1
  <2>3. \A k \in hits : k = j
    BY <1>1, <1>3, <2>1 DEF Listing
  <2>4. hits \in SUBSET Nat
    BY <1>1, Tables
  <2>5. Least(hits) \in hits
    BY <2>2, <2>4, LeastIn
  <2>6. QED
    BY <1>2, <2>1, <2>2, <2>3, <2>5
<1>4. ASSUME \A j \in Places : D[j].name # path PROVE Lookup(D, n, path) = None
  BY <1>1, <1>2, <1>4
<1>5. QED
  BY <1>3, <1>4

(* What search_file finds is a file of the directory.                      *)
LEMMA Found ==
  ASSUME FilesInv, NEW path, Search(path) # None
  PROVE  /\ Search(path) \in imap /\ Search(path) \in Nums
         /\ path # ROOT => \E j \in Places : /\ j <= dir_size /\ dir[j].name = path
                                             /\ dir[j].inode_nr = Search(path)
<1>1. Typed /\ Numbered
  BY DEF FilesInv
<1>2. CASE path = ROOT
  BY <1>1, <1>2, Tables DEF Search, Numbered
<1>3. CASE path # ROOT
  <2> DEFINE hits == {j \in 1..dir_size : dir[j].name = path}
  <2>1. hits # {} /\ Search(path) = dir[Least(hits)].inode_nr
    BY <1>3 DEF Search
  <2>2. dir_size \in 0..ENTS /\ ENTS \in Nat
    BY <1>1, FilesAssumption DEF Typed
  <2>3. hits \in SUBSET Nat
    BY <2>2
  <2>4. Least(hits) \in hits
    BY <2>1, <2>3, LeastIn
  <2>5. Least(hits) \in Places /\ Least(hits) <= dir_size /\ dir[Least(hits)].name = path
    BY <2>2, <2>4 DEF Places
  <2>6. Search(path) \in imap
    BY <1>1, <2>1, <2>5 DEF Numbered
  <2>7. QED
    BY <1>1, <2>1, <2>5, <2>6 DEF Typed
<1>4. QED
  BY <1>2, <1>3

(* A hole in the directory means a free bit in the inode map, since no two *)
(* entries share an inode.                                                 *)
LEMMA NumberFree ==
  ASSUME Typed, Numbered, Holes # {}
  PROVE  NewNum \in Nums /\ NewNum \notin imap
<1> DEFINE Used == Places \ Holes
           f == [j \in Used |-> dir[j].inode_nr]
<1>1. Used \in SUBSET Places /\ Used # Places
  BY DEF Holes
<1>2. IsFiniteSet(Used) /\ Cardinality(Used) \in Nat /\ Cardinality(Used) < ENTS
  <2>1. /\ IsFiniteSet(Used) /\ Cardinality(Used) <= Cardinality(Places)
        /\ Cardinality(Places) = Cardinality(Used) => Places = Used
    BY <1>1, Tables, FS_Subset
  <2>2. Cardinality(Used) \in Nat
    BY <2>1, FS_CardinalityType
  <2>3. Cardinality(Places) = ENTS /\ ENTS \in Nat
    BY Tables, FilesAssumption
  <2>4. QED
    BY <1>1, <2>1, <2>2, <2>3
<1>3. imap = {dir[j].inode_nr : j \in Used}
  BY DEF Numbered, Holes
<1>4. f \in Surjection(Used, imap)
  BY <1>3 DEF Surjection
<1>5. Cardinality(imap) <= Cardinality(Used)
  BY <1>2, <1>4, FS_Surjection
<1>6. Nums # imap
  <2>1. Cardinality(Nums) = ENTS /\ ENTS \in Nat
    BY Tables, FilesAssumption
  <2>2. SUFFICES ASSUME Nums = imap PROVE FALSE
    OBVIOUS
  <2>3. ENTS <= Cardinality(Used)
    BY <1>5, <2>1, <2>2
  <2>4. QED
    BY <1>2, <2>1, <2>3
<1>7. Nums \ imap # {} /\ Nums \ imap \in SUBSET Nat
  BY <1>6, Tables DEF Typed
<1>8. QED
  BY <1>7, LeastIn DEF NewNum

(* new_dir_entry.                                                          *)
LEMMA AddedStep ==
  ASSUME FilesInv, NEW path \in Paths, Search(path) = None, Holes # {}, dir_size < ENTS,
         NEW num \in Nums \ imap, imap' = imap \cup {num}, AddEntry(num, path)
  PROVE  /\ Numbered' /\ Named' /\ imap' \subseteq Nums /\ dir_size' \in 0..ENTS
         /\ dir' \in [Places -> [inode_nr : Nums \cup {None},
                                 name : Paths \cup {"", ".", "dev_tty0", "cmd.tar"}]]
<1>1. Typed /\ Numbered /\ Named
  BY DEF FilesInv
<1>2. PICK j : j = Least(Holes)
  OBVIOUS
<1>3. j \in Places /\ dir[j].inode_nr = None /\ \A k \in Holes : j <= k
  <2>1. Holes \in SUBSET Nat
    BY Tables DEF Holes
  <2>2. QED
    BY <1>2, <2>1, LeastIn DEF Holes
<1>4. dir_size \in Nat /\ ENTS \in Nat /\ dir_size < ENTS /\ dir_size' = dir_size + 1
  <2>1. dir_size \in 0..ENTS /\ ENTS \in Nat
    BY <1>1, FilesAssumption DEF Typed
  <2>2. QED
    BY <2>1 DEF AddEntry
<1>5. dir \in [Places -> [inode_nr : Nums \cup {None},
                          name : Paths \cup {"", ".", "dev_tty0", "cmd.tar"}]]
  BY <1>1 DEF Typed
<1>6. dir' = [dir EXCEPT ![j] = [inode_nr |-> num, name |-> path]]
  BY <1>2 DEF AddEntry, Entry
<1>7. /\ dir'[j].inode_nr = num /\ dir'[j].name = path
      /\ \A k \in Places : k # j => dir'[k] = dir[k]
  BY <1>3, <1>5, <1>6
<1>8. num # None /\ None \notin Nums
  BY Tables DEF None
<1>9. path # "" /\ path # ROOT
  <2>1. path # ""
    BY FilesAssumption
  <2>2. path # ROOT
    BY DEF Search, ROOT_INODE, None
  <2>3. QED
    BY <2>1, <2>2
<1>10. j <= dir_size + 1
  <2>1. dir_size + 1 \in Places
    BY <1>4 DEF Places
  <2>2. dir[dir_size + 1].inode_nr = None
    <3>1. ~ (dir_size + 1 <= dir_size)
      BY <1>4
    <3>2. QED
      BY <1>1, <2>1, <3>1 DEF Named
  <2>3. QED
    BY <1>3, <2>1, <2>2 DEF Holes
<1>11. ASSUME NEW k \in Places PROVE dir[k].name # path
  <2>1. SUFFICES ASSUME dir[k].name = path PROVE FALSE
    OBVIOUS
  <2>2. dir[k].inode_nr # None /\ k <= dir_size
    BY <1>1, <1>9, <2>1 DEF Named
  <2> DEFINE hits == {i \in 1..dir_size : dir[i].name = path}
  <2>3. k \in hits /\ hits \in SUBSET Nat /\ hits \in SUBSET Places
    BY <1>4, <2>1, <2>2 DEF Places
  <2>4. Least(hits) \in hits
    BY <2>3, LeastIn
  <2>5. dir[Least(hits)].inode_nr = None
    BY <1>9, <2>3 DEF Search
  <2>6. QED
    BY <1>1, <1>9, <2>3, <2>4, <2>5 DEF Named
<1>12. Numbered'
  <2>1. imap' = {dir'[k].inode_nr : k \in Places} \ {None}
    <3>1. imap = {dir[k].inode_nr : k \in Places} \ {None}
      BY <1>1 DEF Numbered
    <3>2. ASSUME NEW n \in imap' PROVE n \in {dir'[k].inode_nr : k \in Places} \ {None}
      <4>1. CASE n = num
        BY <1>3, <1>7, <1>8, <4>1
      <4>2. CASE n # num
        BY <1>3, <1>7, <3>1, <4>2
      <4>3. QED
        BY <4>1, <4>2
    <3>3. ASSUME NEW k \in Places, dir'[k].inode_nr # None PROVE dir'[k].inode_nr \in imap'
      BY <1>7, <3>1, <3>3
    <3>4. QED
      BY <3>2, <3>3
  <2>2. \A k \in Places : dir[k].inode_nr # num
    BY <1>1, <1>8 DEF Numbered
  <2>3. QED
    BY <1>1, <1>7, <2>1, <2>2 DEF Numbered
<1>13. Named'
  <2>1. \A k \in Places : IF dir'[k].inode_nr = None THEN dir'[k].name = ""
                          ELSE k <= dir_size' /\ dir'[k].name \notin {"", ROOT}
    <3>1. ASSUME NEW k \in Places, k # j, dir[k].inode_nr # None PROVE k <= dir_size + 1
      <4>1. k <= dir_size /\ k \in Nat
        BY <1>1, <3>1, Tables DEF Named
      <4>2. QED
        BY <1>4, <4>1
    <3>2. QED
      BY <1>1, <1>4, <1>7, <1>8, <1>9, <1>10, <3>1 DEF Named
  <2>2. \A k, l \in Places : dir'[k].name = dir'[l].name /\ k # l => dir'[k].inode_nr = None
    BY <1>1, <1>7, <1>11 DEF Named
  <2>3. QED
    BY <2>1, <2>2 DEF Named
<1>14. imap' \subseteq Nums /\ dir_size' \in 0..ENTS
  <2>1. imap \subseteq Nums
    BY <1>1 DEF Typed
  <2>2. QED
    BY <1>4, <2>1
<1>15. dir' \in [Places -> [inode_nr : Nums \cup {None},
                            name : Paths \cup {"", ".", "dev_tty0", "cmd.tar"}]]
  <2>1. [inode_nr |-> num, name |-> path]
          \in [inode_nr : Nums \cup {None}, name : Paths \cup {"", ".", "dev_tty0", "cmd.tar"}]
    OBVIOUS
  <2>2. QED
    BY <1>5, <1>6, <2>1
<1>16. QED
  BY <1>12, <1>13, <1>14, <1>15

(* The end of do_unlink, when the last entry leaves no hole behind it.     *)
LEMMA RemovedStep ==
  ASSUME FilesInv, NEW num \in imap, num # ROOT_INODE, RemoveEntry(num), imap' = imap \ {num},
         PlaceOf(num) = dir_size => \A k \in 1..(dir_size - 1) : dir[k].inode_nr # None
  PROVE  /\ Numbered' /\ Named' /\ imap' \subseteq Nums /\ dir_size' \in 0..ENTS
         /\ dir' \in [Places -> [inode_nr : Nums \cup {None},
                                 name : Paths \cup {"", ".", "dev_tty0", "cmd.tar"}]]
<1>1. Typed /\ Numbered /\ Named
  BY DEF FilesInv
<1>2. PICK j : j = PlaceOf(num)
  OBVIOUS
<1>3. num # None /\ num \in Nums
  BY <1>1 DEF Numbered, Typed
<1>4. j \in Places /\ dir[j].inode_nr = num
  <2> DEFINE at == {k \in Places : dir[k].inode_nr = num}
  <2>1. at \in SUBSET Nat /\ at # {}
    BY <1>1, Tables DEF Numbered
  <2>2. QED
    BY <1>2, <2>1, LeastIn DEF PlaceOf
<1>5. /\ dir \in [Places -> [inode_nr : Nums \cup {None},
                             name : Paths \cup {"", ".", "dev_tty0", "cmd.tar"}]]
      /\ dir_size \in 0..ENTS /\ ENTS \in Nat /\ imap \subseteq Nums
  BY <1>1, FilesAssumption DEF Typed
<1>6. dir' = [dir EXCEPT ![j] = [inode_nr |-> None, name |-> ""]]
  BY <1>2 DEF RemoveEntry, Empty, Entry
<1>7. /\ dir'[j].inode_nr = None /\ dir'[j].name = ""
      /\ \A k \in Places : k # j => dir'[k] = dir[k]
  BY <1>4, <1>5, <1>6
<1>8. \A k \in Places : k # j => dir[k].inode_nr # num
  BY <1>1, <1>3, <1>4 DEF Numbered
<1>9. /\ dir_size' \in 0..ENTS
      /\ \A k \in Places : k # j /\ k <= dir_size => k <= dir_size'
  <2>1. CASE j # dir_size
    BY <1>2, <1>5, <2>1 DEF RemoveEntry
  <2>2. CASE j = dir_size
    <3>1. j \in Nat \ {0} /\ Places \subseteq Nat
      BY <1>4, Tables
    <3>2. {k \in 1..(j - 1) : dir[k].inode_nr # None} = 1..(j - 1)
      BY <1>2, <2>2
    <3>3. dir_size' = Cardinality(1..(j - 1))
      BY <1>2, <2>2, <3>2 DEF RemoveEntry
    <3>4. Cardinality(1..(j - 1)) = j - 1
      BY <3>1, FS_Interval, 1 \in Int, j - 1 \in Int
    <3>5. ENTS \in Nat /\ j \in 1..ENTS
      BY <1>4, FilesAssumption DEF Places
    <3>6. ENTS \in Nat /\ j <= ENTS
      BY <3>5
    <3>7. dir_size' = j - 1
      BY <3>3, <3>4
    <3>8. dir_size' \in 0..ENTS
      BY <3>1, <3>7, <3>6
    <3>9. ASSUME NEW k \in Places, k # j, k <= j PROVE k <= j - 1
      BY <3>1, <3>9
    <3>10. QED
      BY <2>2, <3>7, <3>8, <3>9
  <2>3. QED
    BY <2>1, <2>2
<1>10. Numbered'
  <2>1. imap' = {dir'[k].inode_nr : k \in Places} \ {None}
    <3>1. imap = {dir[k].inode_nr : k \in Places} \ {None}
      BY <1>1 DEF Numbered
    <3>2. ASSUME NEW n \in imap, n # num PROVE n \in {dir'[k].inode_nr : k \in Places} \ {None}
      BY <1>4, <1>7, <3>1, <3>2
    <3>3. ASSUME NEW k \in Places, dir'[k].inode_nr # None
          PROVE  dir'[k].inode_nr \in imap /\ dir'[k].inode_nr # num
      BY <1>7, <1>8, <3>1, <3>3
    <3>4. QED
      BY <3>2, <3>3
  <2>2. ROOT_INODE \in imap'
    BY <1>1 DEF Numbered
  <2>3. \A k, l \in Places : dir'[k].inode_nr = dir'[l].inode_nr /\ k # l => dir'[k].inode_nr = None
    BY <1>1, <1>7 DEF Numbered
  <2>4. QED
    BY <2>1, <2>2, <2>3 DEF Numbered
<1>11. Named'
  <2>1. \A k \in Places : IF dir'[k].inode_nr = None THEN dir'[k].name = ""
                          ELSE k <= dir_size' /\ dir'[k].name \notin {"", ROOT}
    BY <1>1, <1>7, <1>9 DEF Named
  <2>2. \A k, l \in Places : dir'[k].name = dir'[l].name /\ k # l => dir'[k].inode_nr = None
    <3>1. SUFFICES ASSUME NEW k \in Places, NEW l \in Places, dir'[k].name = dir'[l].name, k # l
                   PROVE  dir'[k].inode_nr = None
      OBVIOUS
    <3>2. CASE k = j
      BY <1>7, <3>2
    <3>3. CASE l = j
      BY <1>1, <1>7, <3>1, <3>3 DEF Named
    <3>4. CASE k # j /\ l # j
      BY <1>1, <1>7, <3>1, <3>4 DEF Named
    <3>5. QED
      BY <3>2, <3>3, <3>4
  <2>3. QED
    BY <2>1, <2>2 DEF Named
<1>12. dir' \in [Places -> [inode_nr : Nums \cup {None},
                            name : Paths \cup {"", ".", "dev_tty0", "cmd.tar"}]]
  <2>1. [inode_nr |-> None, name |-> ""]
          \in [inode_nr : Nums \cup {None}, name : Paths \cup {"", ".", "dev_tty0", "cmd.tar"}]
    OBVIOUS
  <2>2. QED
    BY <1>5, <1>6, <2>1
<1>13. QED
  BY <1>5, <1>9, <1>10, <1>11, <1>12

-----------------------------------------------------------------------------
(* The invariant.                                                          *)

LEMMA FilesInvInit == Init => FilesInv
<1> SUFFICES ASSUME Init PROVE FilesInv
  OBVIOUS
<1>1. Typed
  <2>1. IsFiniteSet({FIRST}) /\ FIRST \in Proc
    BY FS_Singleton, FilesAssumption
  <2>2. /\ filp \in [Proc -> [Fds -> Descs \cup {None}]]
        /\ fd_inode \in [Descs -> Slots \cup {None}] /\ fd_cnt \in [Descs -> Int]
        /\ i_num \in [Slots -> Nums \cup {None}] /\ i_cnt \in [Slots -> Int]
        /\ imap \subseteq Nums
    BY Tables DEF Init, None
  <2>3. dir_size \in 0..ENTS
    <3>1. dir_size = 3 /\ ENTS \in Nat /\ ENTS > 3
      BY FilesAssumption DEF Init
    <3>2. QED
      BY <3>1
  <2>4. dir \in [Places -> [inode_nr : Nums \cup {None},
                            name : Paths \cup {"", ".", "dev_tty0", "cmd.tar"}]]
    BY Tables DEF Init, Entry, Empty
  <2>5. QED
    BY <2>1, <2>2, <2>3, <2>4 DEF Init, Typed
<1>2. Copied
  BY DEF Init, Copied
<1>3. Held = {}
  BY FilesAssumption DEF Init, Held
<1>4. HandlesCounted
  <2>1. \A d : On(d) = {}
    BY <1>3 DEF On
  <2>2. \A s : To(s) = {}
    BY <1>3 DEF To
  <2>3. Cardinality({}) = 0
    BY FS_EmptySet
  <2>4. \A s \in Slots : i_cnt[s] >= Cardinality(To(s)) + Root(s)
    BY <2>2, <2>3 DEF Init, Root
  <2>5. \A d \in Descs : fd_inode[d] = None
    BY DEF Init
  <2>6. \A s, t \in Slots : i_cnt[s] # 0 /\ i_cnt[t] # 0 => s = t
    BY DEF Init
  <2>7. QED
    BY <1>3, <2>4, <2>5, <2>6, CountedMeans DEF Init
<1>5. OpenFilesExist
  BY <1>3 DEF OpenFilesExist
<1>6. /\ {1, 2, 3} \subseteq Places
      /\ \A j \in Places :
           dir[j] = IF j = 1 THEN Entry(1, ".") ELSE IF j = 2 THEN Entry(2, "dev_tty0")
                    ELSE IF j = 3 THEN Entry(3, "cmd.tar") ELSE Empty
  <2>1. {1, 2, 3} \subseteq Places
    BY Tables DEF ROOT_INODE, TTY_INODE, TAR_INODE
  <2>2. QED
    BY <2>1 DEF Init, ROOT_INODE, TTY_INODE, TAR_INODE
<1>7. /\ imap = {1, 2, 3} /\ dir_size = 3 /\ None = 0
      /\ dir[1].inode_nr = 1 /\ dir[2].inode_nr = 2 /\ dir[3].inode_nr = 3
      /\ dir[1].name = "." /\ dir[2].name = "dev_tty0" /\ dir[3].name = "cmd.tar"
      /\ \A j \in Places \ {1, 2, 3} : dir[j].inode_nr = 0 /\ dir[j].name = ""
  <2>1. imap = {1, 2, 3} /\ dir_size = 3 /\ None = 0
    BY DEF Init, ROOT_INODE, TTY_INODE, TAR_INODE, None
  <2>2. dir[1] = Entry(1, ".") /\ dir[2] = Entry(2, "dev_tty0") /\ dir[3] = Entry(3, "cmd.tar")
    BY <1>6
  <2>3. \A j \in Places \ {1, 2, 3} : dir[j] = Empty
    BY <1>6
  <2>4. \A n, name : Entry(n, name).inode_nr = n /\ Entry(n, name).name = name
    BY DEF Entry
  <2>5. Empty.inode_nr = 0 /\ Empty.name = ""
    BY <2>4 DEF Empty, None
  <2>6. \A j \in Places \ {1, 2, 3} : dir[j].inode_nr = 0 /\ dir[j].name = ""
    BY <2>3, <2>5
  <2>7. dir[1].inode_nr = 1 /\ dir[1].name = "."
    BY <2>2, <2>4
  <2>8. dir[2].inode_nr = 2 /\ dir[2].name = "dev_tty0"
    BY <2>2, <2>4
  <2>9. dir[3].inode_nr = 3 /\ dir[3].name = "cmd.tar"
    BY <2>2, <2>4
  <2>10. QED
    BY <2>1, <2>6, <2>7, <2>8, <2>9
<1>8. Numbered
  <2>1. imap = {dir[j].inode_nr : j \in Places} \ {None}
    <3>1. {1, 2, 3} \subseteq {dir[j].inode_nr : j \in Places} \ {None}
      <4>1. 1 \in Places /\ 2 \in Places /\ 3 \in Places
        BY <1>6
      <4>2. /\ dir[1].inode_nr \in {dir[j].inode_nr : j \in Places}
            /\ dir[2].inode_nr \in {dir[j].inode_nr : j \in Places}
            /\ dir[3].inode_nr \in {dir[j].inode_nr : j \in Places}
        BY <4>1
      <4>3. /\ 1 \in {dir[j].inode_nr : j \in Places}
            /\ 2 \in {dir[j].inode_nr : j \in Places}
            /\ 3 \in {dir[j].inode_nr : j \in Places}
        BY <1>7, <4>2
      <4>4. None \notin {1, 2, 3}
        BY DEF None
      <4>5. QED
        BY <4>3, <4>4
    <3>2. ASSUME NEW j \in Places PROVE dir[j].inode_nr \in {0, 1, 2, 3}
      BY <1>7
    <3>3. QED
      BY <1>7, <3>1, <3>2
  <2>2. \A j, k \in Places : dir[j].inode_nr = dir[k].inode_nr /\ j # k => dir[j].inode_nr = None
    <3>1. \A j \in Places : dir[j].inode_nr = IF j \in {1, 2, 3} THEN j ELSE 0
      <4>1. ASSUME NEW j \in Places, j \in {1, 2, 3} PROVE dir[j].inode_nr = j
        BY <1>7, <4>1
      <4>2. ASSUME NEW j \in Places, j \notin {1, 2, 3} PROVE dir[j].inode_nr = 0
        BY <1>7, <4>2
      <4>3. QED
        BY <4>1, <4>2
    <3>2. QED
      BY <3>1 DEF None
  <2>3. QED
    BY <1>7, <2>1, <2>2 DEF Numbered, ROOT_INODE
<1>9. Named
  <2>1. ASSUME NEW j \in Places
        PROVE  IF dir[j].inode_nr = None THEN dir[j].name = ""
               ELSE j <= dir_size /\ dir[j].name \notin {"", ROOT}
    <3>1. CASE j \in {1, 2, 3}
      <4>1. CASE j = 1
        <5>1. j <= 3 /\ 1 # None
          BY <4>1 DEF None
        <5>2. "." # "" /\ "." # ROOT
          BY DEF ROOT
        <5>3. QED
          BY <1>7, <4>1, <5>1, <5>2
      <4>2. CASE j = 2
        <5>1. j <= 3 /\ 2 # None
          BY <4>2 DEF None
        <5>2. "dev_tty0" # "" /\ "dev_tty0" # ROOT
          BY DEF ROOT
        <5>3. QED
          BY <1>7, <4>2, <5>1, <5>2
      <4>3. CASE j = 3
        <5>1. j <= 3 /\ 3 # None
          BY <4>3 DEF None
        <5>2. "cmd.tar" # "" /\ "cmd.tar" # ROOT
          BY DEF ROOT
        <5>3. QED
          BY <1>7, <4>3, <5>1, <5>2
      <4>4. QED
        BY <3>1, <4>1, <4>2, <4>3
    <3>2. CASE j \notin {1, 2, 3}
      BY <1>7, <3>2
    <3>3. QED
      BY <3>1, <3>2
  <2>2. \A j \in Places : j \in {1, 2, 3} \/ j \notin {1, 2, 3}
    OBVIOUS
  <2>3. \A j, k \in Places : dir[j].name = dir[k].name /\ j # k => dir[j].inode_nr = None
    BY <1>6, <1>7, <2>2
  <2>4. \A j \in Places : IF dir[j].inode_nr = None THEN dir[j].name = ""
                          ELSE j <= dir_size /\ dir[j].name \notin {"", ROOT}
    BY <2>1
  <2>5. QED
    BY <2>4, <2>3 DEF Named
<1>10. QED
  BY <1>1, <1>2, <1>4, <1>5, <1>8, <1>9 DEF FilesInv

(* What every step of the next lemma has to show.                          *)
KeepsFiles ==
  \A h \in Held : h[1] \in alive' /\ DescOf(h)' = DescOf(h)
                  => i_num'[SlotOf(h)'] = i_num[SlotOf(h)]
Kept == FilesInv' /\ KeepsFiles

(* The handles stay as they are.                                           *)
LEMMA HandlesFrame ==
  ASSUME FilesInv, alive' = alive, fd_inode' = fd_inode, \A p \in alive : filp'[p] = filp[p]
  PROVE  /\ Held' = Held
         /\ \A h \in Held : DescOf(h)' = DescOf(h) /\ SlotOf(h)' = SlotOf(h)
         /\ \A d : On(d)' = On(d) /\ \A s : To(s)' = To(s)
<1>1. Held' = Held
  BY DEF Held
<1>2. \A h \in Held : DescOf(h)' = DescOf(h) /\ SlotOf(h)' = SlotOf(h)
  BY HeldMeans DEF DescOf, SlotOf
<1>3. QED
  BY <1>1, <1>2 DEF On, To

LEMMA PanicKept ==
  ASSUME FilesInv, Panic
  PROVE  Kept
<1>1. /\ UNCHANGED <<alive, forking, filp, fd_inode, fd_cnt, i_num, i_cnt, imap, dir, dir_size>>
      /\ stopped' = "panic"
  BY DEF Panic, tables, disk
<1>2. Held' = Held /\ \A h : DescOf(h)' = DescOf(h) /\ SlotOf(h)' = SlotOf(h)
  BY <1>1 DEF Held, DescOf, SlotOf
<1>3. Typed /\ Copied /\ Numbered /\ Named
  BY DEF FilesInv
<1>4. Typed'
  BY <1>1, <1>3 DEF Typed
<1>5. Copied'
  BY <1>1, <1>3 DEF Copied
<1>6. Numbered' /\ Named'
  BY <1>1, <1>3 DEF Numbered, Named
<1>7. Typed' /\ Copied' /\ Numbered' /\ Named'
  BY <1>4, <1>5, <1>6
<1>8. HandlesCounted' /\ OpenFilesExist'
  <2>1. \A d : {h \in Held' : DescOf(h)' = d} = {h \in Held : DescOf(h) = d}
    BY <1>2
  <2>2. \A s : {h \in Held' : SlotOf(h)' = s} = {h \in Held : SlotOf(h) = s}
    BY <1>2
  <2>3. HandlesCounted'
    BY <1>1, <1>2, <2>1, <2>2 DEF FilesInv, HandlesCounted
  <2>4. OpenFilesExist'
    BY <1>1, <1>2 DEF FilesInv, OpenFilesExist
  <2>5. QED
    BY <2>3, <2>4
<1>9. QED
  BY <1>1, <1>2, <1>7, <1>8 DEF Kept, KeepsFiles, FilesInv

(* fork, the one request in two steps, is not disturbed by the others.     *)
LEMMA CopiedFrame ==
  ASSUME FilesInv, NEW p \in alive, Calls(p), UNCHANGED <<alive, forking>>,
         \A q \in Proc \ {p} : filp'[q] = filp[q]
  PROVE  Copied'
<1>1. CASE forking = {}
  BY <1>1 DEF Copied
<1>2. CASE forking # {}
  <2>1. PICK q \in alive, c \in Proc \ alive : forking = {<<q, c>>} /\ filp[c] = filp[q]
    BY <1>2 DEF FilesInv, Copied
  <2>2. p # q
    BY <2>1 DEF Calls
  <2>3. q \in Proc
    BY DEF FilesInv, Typed
  <2>4. QED
    BY <2>1, <2>2, <2>3 DEF Copied
<1>3. QED
  BY <1>1, <1>2

(* A new inode's number is in no slot yet, so that setting its count to 1  *)
(* takes no reference away.                                                *)
LEMMA NewIsGot ==
  ASSUME SlotsInUse, NEW num, num \notin imap, NewInode(num)
  PROVE  GetInode(num)
<1>1. Cached(num) = {}
  BY DEF SlotsInUse, Cached
<1>2. QED
  BY <1>1 DEF NewInode, GetInode

LEMMA CreatesKept ==
  ASSUME FilesInv, SlotsInUse, NEW p \in Proc, NEW path \in Paths, NEW flag \in Flags,
         OpenCreates(p, path, flag)
  PROVE  Kept
<1>1. Typed /\ HandlesCounted /\ Numbered /\ p \in alive
  BY DEF FilesInv, OpenCreates, Calls
<1>2. PICK num : num = NewNum
  OBVIOUS
<1>3. num \in Nums /\ num \notin imap
  BY <1>1, <1>2, NumberFree DEF OpenCreates
<1>12. NewInode(num) => GetInode(num)
  BY <1>3, NewIsGot
<1>4. /\ FreeFds(p) # {} /\ FreeDescs # {} /\ GetInode(num) /\ Install(p, SlotFor(num))
      /\ imap' = imap \cup {num} /\ AddEntry(num, path) /\ Search(path) = None
      /\ Holes # {} /\ dir_size < ENTS /\ Calls(p) /\ UNCHANGED <<alive, forking, stopped>>
  BY <1>2, <1>12 DEF OpenCreates, Creates
<1>5. /\ HandlesCounted'
      /\ filp' \in [Proc -> [Fds -> Descs \cup {None}]]
      /\ fd_inode' \in [Descs -> Slots \cup {None}] /\ fd_cnt' \in [Descs -> Int]
      /\ \A q \in Proc \ {p} : filp'[q] = filp[q]
      /\ \A h \in Held : DescOf(h)' = DescOf(h) /\ i_num'[SlotOf(h)'] = i_num[SlotOf(h)]
      /\ \A h \in Held' : h \in Held \/ i_num'[SlotOf(h)'] = num
  BY <1>1, <1>3, <1>4, Opened
<1>6. i_num' \in [Slots -> Nums \cup {None}] /\ i_cnt' \in [Slots -> Int]
  BY <1>1, <1>3, <1>4, SlotsKept
<1>7. /\ Numbered' /\ Named' /\ imap' \subseteq Nums /\ dir_size' \in 0..ENTS
      /\ dir' \in [Places -> [inode_nr : Nums \cup {None},
                              name : Paths \cup {"", ".", "dev_tty0", "cmd.tar"}]]
  BY <1>3, <1>4, AddedStep
<1>8. Copied'
  BY <1>1, <1>4, <1>5, CopiedFrame
<1>9. Typed'
  BY <1>1, <1>4, <1>5, <1>6, <1>7 DEF Typed
<1>10. OpenFilesExist'
  <2>1. \A h \in Held : i_num[SlotOf(h)] \in imap
    BY DEF FilesInv, OpenFilesExist
  <2>2. \A h \in Held' : i_num'[SlotOf(h)'] \in imap'
    BY <1>4, <1>5, <2>1
  <2>3. QED
    BY <1>7, <2>2 DEF Numbered, OpenFilesExist
<1>11. QED
  BY <1>5, <1>7, <1>8, <1>9, <1>10 DEF Kept, KeepsFiles, FilesInv

LEMMA FindsKept ==
  ASSUME FilesInv, NEW p \in Proc, NEW path \in Paths, NEW flag \in Flags,
         ~ (Search(path) = ROOT_INODE /\ O_TRUNC \in flag), OpenFinds(p, path, flag)
  PROVE  Kept
<1>1. Typed /\ HandlesCounted /\ Numbered /\ Named /\ p \in alive
  BY DEF FilesInv, OpenFinds, Calls
<1>2. PICK num : num = Search(path)
  OBVIOUS
<1>3. num \in Nums /\ num \in imap
  BY <1>2, Found DEF OpenFinds, Finds
<1>4. /\ FreeFds(p) # {} /\ FreeDescs # {} /\ GetInode(num) /\ Install(p, SlotFor(num))
      /\ Calls(p) /\ UNCHANGED <<alive, forking, stopped, imap, dir, dir_size>>
  BY <1>2 DEF OpenFinds
<1>5. /\ HandlesCounted'
      /\ filp' \in [Proc -> [Fds -> Descs \cup {None}]]
      /\ fd_inode' \in [Descs -> Slots \cup {None}] /\ fd_cnt' \in [Descs -> Int]
      /\ \A q \in Proc \ {p} : filp'[q] = filp[q]
      /\ \A h \in Held : DescOf(h)' = DescOf(h) /\ i_num'[SlotOf(h)'] = i_num[SlotOf(h)]
      /\ \A h \in Held' : h \in Held \/ i_num'[SlotOf(h)'] = num
  BY <1>1, <1>3, <1>4, Opened
<1>6. i_num' \in [Slots -> Nums \cup {None}] /\ i_cnt' \in [Slots -> Int]
  BY <1>1, <1>3, <1>4, SlotsKept
<1>7. Numbered' /\ Named'
  BY <1>1, <1>4 DEF Numbered, Named
<1>8. Copied'
  BY <1>1, <1>4, <1>5, CopiedFrame
<1>9. Typed'
  BY <1>1, <1>4, <1>5, <1>6 DEF Typed
<1>10. OpenFilesExist'
  <2>1. \A h \in Held : i_num[SlotOf(h)] \in imap
    BY DEF FilesInv, OpenFilesExist
  <2>2. \A h \in Held' : i_num'[SlotOf(h)'] \in imap'
    BY <1>3, <1>4, <1>5, <2>1
  <2>3. QED
    BY <1>7, <2>2 DEF Numbered, OpenFilesExist
<1>11. QED
  BY <1>5, <1>7, <1>8, <1>9, <1>10 DEF Kept, KeepsFiles, FilesInv

LEMMA CloseKept ==
  ASSUME FilesInv, NEW p \in Proc, NEW fd \in Fds, OnlyHolder(p, fd), Close(p, fd)
  PROVE  Kept
<1>1. Typed /\ Numbered /\ Named /\ p \in alive
  BY DEF FilesInv, Close, Calls
<1>2. Calls(p) /\ UNCHANGED <<alive, forking, fd_cnt, i_num, imap, dir, dir_size>>
  BY DEF Close, disk
<1>3. /\ HandlesCounted'
      /\ filp' \in [Proc -> [Fds -> Descs \cup {None}]]
      /\ fd_inode' \in [Descs -> Slots \cup {None}] /\ i_cnt' \in [Slots -> Int]
      /\ \A q \in Proc \ {p} : filp'[q] = filp[q]
      /\ Held' \subseteq Held
      /\ \A h \in Held : h \in Held' \/ DescOf(h)' # DescOf(h)
      /\ \A h \in Held' : SlotOf(h)' = SlotOf(h)
  BY ClosedStep
<1>4. Copied'
  BY <1>1, <1>2, <1>3, CopiedFrame
<1>5. Numbered' /\ Named'
  BY <1>1, <1>2 DEF Numbered, Named
<1>6. Typed'
  BY <1>1, <1>2, <1>3 DEF Typed
<1>7. OpenFilesExist'
  BY <1>2, <1>3 DEF FilesInv, OpenFilesExist
<1>8. KeepsFiles
  BY <1>2, <1>3 DEF KeepsFiles
<1>9. QED
  BY <1>3, <1>4, <1>5, <1>6, <1>7, <1>8 DEF Kept, FilesInv

LEMMA CopyTableKept ==
  ASSUME FilesInv, NEW p \in Proc, NEW c \in Proc, CopyTable(p, c)
  PROVE  Kept
<1>1. Typed /\ HandlesCounted /\ OpenFilesExist /\ Numbered /\ Named /\ p \in alive
  BY DEF FilesInv, CopyTable, Calls
<1>2. /\ c \in Proc \ alive /\ forking' = {<<p, c>>} /\ filp' = [filp EXCEPT ![c] = filp[p]]
      /\ UNCHANGED <<alive, fd_inode, fd_cnt, i_num, i_cnt, imap, dir, dir_size, stopped>>
  BY DEF CopyTable, disk
<1>3. /\ filp \in [Proc -> [Fds -> Descs \cup {None}]] /\ alive \subseteq Proc
  BY <1>1 DEF Typed
<1>4. /\ filp' \in [Proc -> [Fds -> Descs \cup {None}]]
      /\ filp'[c] = filp'[p] /\ \A q \in alive : filp'[q] = filp[q]
  BY <1>1, <1>2, <1>3
<1>5. /\ Held' = Held
      /\ \A h \in Held : DescOf(h)' = DescOf(h) /\ SlotOf(h)' = SlotOf(h)
      /\ \A d : On(d)' = On(d) /\ \A s : To(s)' = To(s)
  BY <1>2, <1>4, HandlesFrame
<1>6. Typed'
  BY <1>1, <1>2, <1>4 DEF Typed
<1>7. Copied'
  BY <1>1, <1>2, <1>4 DEF Copied
<1>8. Numbered' /\ Named'
  BY <1>1, <1>2 DEF Numbered, Named
<1>9. OpenFilesExist' /\ KeepsFiles
  BY <1>1, <1>2, <1>5 DEF OpenFilesExist, KeepsFiles
<1>10. HandlesCounted'
  <2>1. /\ stopped' # "assert"
        /\ \A h \in Held' : SlotOf(h)' # None
        /\ \A d \in Descs : fd_inode'[d] # None => fd_cnt'[d] = Cardinality(On(d)') /\ fd_cnt'[d] > 0
        /\ \A s \in Slots : i_cnt'[s] >= Cardinality(To(s)') + Root(s)
        /\ \A s, t \in Slots : i_cnt'[s] # 0 /\ i_cnt'[t] # 0 /\ i_num'[s] = i_num'[t] => s = t
    BY <1>1, <1>2, <1>5, CountedMeans
  <2>2. QED
    BY <2>1 DEF HandlesCounted, On, To, Root
<1>11. QED
  BY <1>6, <1>7, <1>8, <1>9, <1>10 DEF Kept, FilesInv

LEMMA FsForkKept ==
  ASSUME FilesInv, FsFork
  PROVE  Kept
<1>1. Typed /\ OpenFilesExist /\ Numbered /\ Named
  BY DEF FilesInv
<1>2. UNCHANGED <<filp, fd_inode, i_num, imap, dir, dir_size, stopped>> /\ forking' = {}
  BY DEF FsFork, disk
<1>3. /\ HandlesCounted'
      /\ alive' \subseteq Proc /\ IsFiniteSet(alive')
      /\ fd_cnt' \in [Descs -> Int] /\ i_cnt' \in [Slots -> Int]
      /\ \A h \in Held : h \in Held'
      /\ \A h \in Held' : \E g \in Held : DescOf(h)' = DescOf(g) /\ SlotOf(h)' = SlotOf(g)
  BY ForkedStep
<1>4. Typed'
  BY <1>1, <1>2, <1>3 DEF Typed
<1>5. Copied' /\ Numbered' /\ Named'
  BY <1>1, <1>2 DEF Copied, Numbered, Named
<1>6. OpenFilesExist'
  <2>1. \A h \in Held' : i_num'[SlotOf(h)'] \in imap
    BY <1>1, <1>2, <1>3 DEF OpenFilesExist
  <2>2. QED
    BY <1>2, <1>5, <2>1 DEF Numbered, OpenFilesExist
<1>7. KeepsFiles
  BY <1>2 DEF KeepsFiles, SlotOf, DescOf
<1>8. QED
  BY <1>3, <1>4, <1>5, <1>6, <1>7 DEF Kept, FilesInv

LEMMA FsExitKept ==
  ASSUME FilesInv, NEW p \in Proc, FsExit(p)
  PROVE  Kept
<1>1. Typed /\ OpenFilesExist /\ Numbered /\ Named
  BY DEF FilesInv
<1>2. UNCHANGED <<forking, i_num, imap, dir, dir_size, stopped>> /\ forking = {}
  BY DEF FsExit, disk
<1>3. /\ HandlesCounted'
      /\ alive' \subseteq Proc /\ IsFiniteSet(alive')
      /\ filp' \in [Proc -> [Fds -> Descs \cup {None}]]
      /\ fd_inode' \in [Descs -> Slots \cup {None}]
      /\ fd_cnt' \in [Descs -> Int] /\ i_cnt' \in [Slots -> Int]
      /\ Held' \subseteq Held
      /\ \A h \in Held' : SlotOf(h)' = SlotOf(h)
      /\ \A h \in Held : h[1] \in alive' => h \in Held'
  BY ExitedStep
<1>4. Typed'
  BY <1>1, <1>2, <1>3 DEF Typed
<1>5. Copied' /\ Numbered' /\ Named'
  BY <1>1, <1>2 DEF Copied, Numbered, Named
<1>6. OpenFilesExist' /\ KeepsFiles
  BY <1>1, <1>2, <1>3 DEF OpenFilesExist, KeepsFiles
<1>7. QED
  BY <1>3, <1>4, <1>5, <1>6 DEF Kept, FilesInv

LEMMA RefusesKept ==
  ASSUME FilesInv, NEW p \in Proc, NEW path \in Paths, UnlinkRefuses(p, path)
  PROVE  Kept
<1>1. Typed /\ HandlesCounted /\ OpenFilesExist /\ Numbered /\ Named
  BY DEF FilesInv
<1>2. PICK num : num = Search(path)
  OBVIOUS
<1>3. num \in Nums
  BY <1>2, Found DEF UnlinkRefuses
<1>4. GetInode(num)
      /\ UNCHANGED <<alive, forking, filp, fd_inode, fd_cnt, imap, dir, dir_size, stopped>>
  BY <1>2 DEF UnlinkRefuses, disk
<1>5. /\ i_num' \in [Slots -> Nums \cup {None}] /\ i_cnt' \in [Slots -> Int]
      /\ \A s, t \in Slots : i_cnt'[s] # 0 /\ i_cnt'[t] # 0 /\ i_num'[s] = i_num'[t] => s = t
      /\ \A h \in Held : i_num'[SlotOf(h)] = i_num[SlotOf(h)]
  BY <1>1, <1>3, <1>4, SlotsKept
<1>6. /\ Held' = Held
      /\ \A h \in Held : DescOf(h)' = DescOf(h) /\ SlotOf(h)' = SlotOf(h)
      /\ \A d : On(d)' = On(d) /\ \A s : To(s)' = To(s)
  BY <1>4, HandlesFrame
<1>7. Typed'
  BY <1>1, <1>4, <1>5 DEF Typed
<1>8. Copied' /\ Numbered' /\ Named'
  BY <1>1, <1>4 DEF FilesInv, Copied, Numbered, Named
<1>9. OpenFilesExist' /\ KeepsFiles
  BY <1>1, <1>4, <1>5, <1>6 DEF OpenFilesExist, KeepsFiles
<1>10. HandlesCounted'
  <2>1. ASSUME NEW s \in Slots PROVE i_cnt'[s] >= i_cnt[s] /\ i_cnt[s] \in Int
    <3>1. /\ SlotFor(num) \in Slots
          /\ i_cnt' = [i_cnt EXCEPT ![SlotFor(num)] = i_cnt[SlotFor(num)] + 1]
      BY <1>1, <1>3, <1>4, SlotTaken
    <3>2. i_cnt \in [Slots -> Int]
      BY <1>1 DEF Typed
    <3>3. QED
      BY <3>1, <3>2
  <2>2. ASSUME NEW s \in Slots PROVE i_cnt'[s] >= Cardinality(To(s)') + Root(s)
    <3>1. Cardinality(To(s)) \in Nat /\ Root(s) \in Nat /\ i_cnt[s] >= Cardinality(To(s)) + Root(s)
      BY <1>1, OnFinite, CountedMeans DEF Root
    <3>2. i_cnt'[s] \in Int
      BY <1>5
    <3>3. QED
      BY <1>6, <2>1, <3>1, <3>2
  <2>3. /\ stopped' # "assert"
        /\ \A h \in Held' : SlotOf(h)' # None
        /\ \A d \in Descs : fd_inode'[d] # None => fd_cnt'[d] = Cardinality(On(d)') /\ fd_cnt'[d] > 0
    BY <1>1, <1>4, <1>6, CountedMeans
  <2>4. QED
    BY <1>5, <2>2, <2>3 DEF HandlesCounted, On, To, Root
<1>11. QED
  BY <1>7, <1>8, <1>9, <1>10 DEF Kept, FilesInv

LEMMA RemovesKept ==
  ASSUME FilesInv, NEW p \in Proc, NEW path \in Paths, Search(path) # None,
         NoHoleBelow(path), UnlinkRemoves(p, path)
  PROVE  Kept
<1>1. Typed /\ HandlesCounted /\ OpenFilesExist /\ Numbered /\ Named
  BY DEF FilesInv
<1>2. PICK num : num = Search(path)
  OBVIOUS
<1>3. num \in imap /\ num # ROOT_INODE /\ Cached(num) = {}
  BY <1>2, Found DEF UnlinkRemoves, I_REGULAR
<1>4. /\ imap' = imap \ {num} /\ RemoveEntry(num)
      /\ UNCHANGED <<alive, forking, filp, fd_inode, fd_cnt, i_num, i_cnt, stopped>>
  BY <1>2 DEF UnlinkRemoves, tables
<1>5. PlaceOf(num) = dir_size => \A k \in 1..(dir_size - 1) : dir[k].inode_nr # None
  BY <1>2 DEF NoHoleBelow
<1>6. /\ Numbered' /\ Named' /\ imap' \subseteq Nums /\ dir_size' \in 0..ENTS
      /\ dir' \in [Places -> [inode_nr : Nums \cup {None},
                              name : Paths \cup {"", ".", "dev_tty0", "cmd.tar"}]]
  BY <1>3, <1>4, <1>5, RemovedStep
<1>7. /\ Held' = Held
      /\ \A h \in Held : DescOf(h)' = DescOf(h) /\ SlotOf(h)' = SlotOf(h)
      /\ \A d : On(d)' = On(d) /\ \A s : To(s)' = To(s)
  BY <1>4, HandlesFrame
<1>8. Typed'
  BY <1>1, <1>4, <1>6 DEF Typed
<1>9. Copied'
  BY <1>4 DEF FilesInv, Copied
<1>10. OpenFilesExist'
  <2>1. ASSUME NEW h \in Held PROVE i_num[SlotOf(h)] \in imap /\ i_num[SlotOf(h)] # num
    <3>1. SlotOf(h) \in Slots /\ i_cnt[SlotOf(h)] # 0
      BY <1>1, Referenced
    <3>2. QED
      BY <1>1, <1>3, <3>1 DEF OpenFilesExist, Cached
  <2>2. \A h \in Held' : i_num'[SlotOf(h)'] \in imap'
    BY <1>4, <1>7, <2>1
  <2>3. QED
    BY <1>6, <2>2 DEF Numbered, OpenFilesExist
<1>11. HandlesCounted'
  <2>1. /\ stopped' # "assert"
        /\ \A h \in Held' : SlotOf(h)' # None
        /\ \A d \in Descs : fd_inode'[d] # None => fd_cnt'[d] = Cardinality(On(d)') /\ fd_cnt'[d] > 0
        /\ \A s \in Slots : i_cnt'[s] >= Cardinality(To(s)') + Root(s)
        /\ \A s, t \in Slots : i_cnt'[s] # 0 /\ i_cnt'[t] # 0 /\ i_num'[s] = i_num'[t] => s = t
    BY <1>1, <1>4, <1>7, CountedMeans
  <2>2. QED
    BY <2>1 DEF HandlesCounted, On, To, Root
<1>12. KeepsFiles
  BY <1>4, <1>7 DEF KeepsFiles
<1>13. QED
  BY <1>6, <1>8, <1>9, <1>10, <1>11, <1>12 DEF Kept, FilesInv

LEMMA StutterKept ==
  ASSUME FilesInv, UNCHANGED vars
  PROVE  Kept
<1>1. UNCHANGED <<alive, forking, filp, fd_inode, fd_cnt, i_num, i_cnt, imap, dir, dir_size,
                stopped>>
  BY DEF vars, tables, disk
<1>2. Held' = Held /\ \A h : DescOf(h)' = DescOf(h) /\ SlotOf(h)' = SlotOf(h)
  BY <1>1 DEF Held, DescOf, SlotOf
<1>3. Typed /\ Copied /\ Numbered /\ Named
  BY DEF FilesInv
<1>4. Typed' /\ Copied'
  BY <1>1, <1>3 DEF Typed, Copied
<1>5. Numbered' /\ Named'
  BY <1>1, <1>3 DEF Numbered, Named
<1>6. HandlesCounted' /\ OpenFilesExist'
  <2>1. \A d : {h \in Held' : DescOf(h)' = d} = {h \in Held : DescOf(h) = d}
    BY <1>2
  <2>2. \A s : {h \in Held' : SlotOf(h)' = s} = {h \in Held : SlotOf(h) = s}
    BY <1>2
  <2>3. HandlesCounted'
    BY <1>1, <1>2, <2>1, <2>2 DEF FilesInv, HandlesCounted
  <2>4. OpenFilesExist'
    BY <1>1, <1>2 DEF FilesInv, OpenFilesExist
  <2>5. QED
    BY <2>3, <2>4
<1>7. QED
  BY <1>1, <1>2, <1>4, <1>5, <1>6 DEF Kept, KeepsFiles, FilesInv

LEMMA FilesInvStep ==
  ASSUME FilesInv, SlotsInUse, [CarefulNext]_vars
  PROVE  Kept
<1>1. CASE FsFork
  BY <1>1, FsForkKept
<1>2. ASSUME NEW p \in Proc, FsExit(p) PROVE Kept
  BY <1>2, FsExitKept
<1>3. ASSUME NEW p \in Proc, NEW c \in Proc, CopyTable(p, c) PROVE Kept
  BY <1>3, CopyTableKept
<1>4. ASSUME NEW p \in Proc, NEW fd \in Fds, OnlyHolder(p, fd) /\ Close(p, fd) PROVE Kept
  BY <1>4, CloseKept
<1>5. ASSUME NEW p \in Proc, NEW path \in Paths, NEW flag \in Flags, OpenPanics(p, path, flag)
      PROVE  Kept
  BY <1>5, PanicKept DEF OpenPanics
<1>6. ASSUME NEW p \in Proc, NEW path \in Paths, NEW flag \in Flags, OpenCreates(p, path, flag)
      PROVE  Kept
  BY <1>6, CreatesKept
<1>7. ASSUME NEW p \in Proc, NEW path \in Paths, NEW flag \in Flags,
             ~ (Search(path) = ROOT_INODE /\ O_TRUNC \in flag) /\ OpenFinds(p, path, flag)
      PROVE  Kept
  BY <1>7, FindsKept
<1>8. ASSUME NEW p \in Proc, NEW path \in Paths, GetPanics(p, path) PROVE Kept
  BY <1>8, PanicKept DEF GetPanics
<1>9. ASSUME NEW p \in Proc, NEW path \in Paths, UnlinkRefuses(p, path) PROVE Kept
  BY <1>9, RefusesKept
<1>10. ASSUME NEW p \in Proc, NEW path \in Paths,
              Search(path) # None /\ NoHoleBelow(path) /\ UnlinkRemoves(p, path)
       PROVE  Kept
  BY <1>10, RemovesKept
<1>11. CASE UNCHANGED vars
  BY <1>11, StutterKept
<1>12. QED
  BY <1>1, <1>2, <1>3, <1>4, <1>5, <1>6, <1>7, <1>8, <1>9, <1>10, <1>11 DEF CarefulNext

(* The slots, action by action.                                            *)
LEMMA SlotsInUseInit == Init => SlotsInUse
<1> SUFFICES ASSUME Init, NEW s \in Slots, i_cnt[s] # 0 PROVE i_num[s] \in imap
  BY DEF SlotsInUse
<1>1. s = 1
  BY DEF Init
<1>2. QED
  BY <1>1 DEF Init

(* One more reference to an inode in use.                                  *)
LEMMA GotInUse ==
  ASSUME FilesInv, SlotsInUse, NEW num \in Nums, GetInode(num), num \in imap', imap \subseteq imap'
  PROVE  SlotsInUse'
<1>1. Typed /\ HandlesCounted
  BY DEF FilesInv
<1>2. /\ SlotFor(num) \in Slots
      /\ i_num' = [i_num EXCEPT ![SlotFor(num)] = num]
      /\ i_cnt' = [i_cnt EXCEPT ![SlotFor(num)] = i_cnt[SlotFor(num)] + 1]
  BY <1>1, SlotTaken
<1>3. i_num \in [Slots -> Nums \cup {None}] /\ i_cnt \in [Slots -> Int]
  BY <1>1 DEF Typed
<1>4. ASSUME NEW s \in Slots, i_cnt'[s] # 0 PROVE i_num'[s] \in imap'
  <2>1. CASE s = SlotFor(num)
    BY <1>2, <1>3, <2>1
  <2>2. CASE s # SlotFor(num)
    <3>1. i_num'[s] = i_num[s] /\ i_cnt'[s] = i_cnt[s]
      BY <1>2, <1>3, <2>2
    <3>2. QED
      BY <1>4, <3>1 DEF SlotsInUse
  <2>3. QED
    BY <2>1, <2>2
<1>5. QED
  BY <1>4 DEF SlotsInUse

(* A count of 0 stays 0 in a fork and in an exit.                          *)
LEMMA NoneRefers ==
  ASSUME FilesInv, NEW s \in Slots, i_cnt[s] = 0, NEW p \in alive
  PROVE  HandlesTo(p, s) = {}
<1>1. Typed /\ HandlesCounted
  BY DEF FilesInv
<1>2. i_cnt[s] >= Cardinality(To(s)) + Root(s)
  BY <1>1, CountedMeans
<1>3. IsFiniteSet(To(s)) /\ Cardinality(To(s)) \in Nat /\ Root(s) \in Nat
  BY <1>1, OnFinite DEF Root
<1>4. To(s) = {}
  BY <1>2, <1>3, FS_EmptySet
<1>5. ASSUME NEW fd \in HandlesTo(p, s) PROVE FALSE
  <2>1. fd \in Fds /\ filp[p][fd] # None /\ fd_inode[filp[p][fd]] = s
    BY DEF HandlesTo
  <2>2. <<p, fd>> \in Held
    BY <2>1, HeldMeans
  <2>3. <<p, fd>> \in To(s)
    BY <2>1, <2>2 DEF To, SlotOf, DescOf
  <2>4. QED
    BY <1>4, <2>3
<1>6. QED
  BY <1>5

LEMMA ForkInUse ==
  ASSUME FilesInv, SlotsInUse, FsFork
  PROVE  SlotsInUse'
<1>1. PICK p \in alive, c \in Proc \ alive : forking = {<<p, c>>} /\ filp[c] = filp[p]
  <2>1. forking # {}
    BY DEF FsFork
  <2>2. QED
    BY <2>1 DEF FilesInv, Copied
<1>2. /\ i_cnt' = [s \in Slots |-> i_cnt[s] + Cardinality(HandlesTo(c, s))]
      /\ UNCHANGED <<i_num, imap>>
  BY <1>1 DEF FsFork, disk
<1>3. ASSUME NEW s \in Slots, i_cnt[s] = 0 PROVE i_cnt'[s] = 0
  <2>1. HandlesTo(c, s) = HandlesTo(p, s)
    BY <1>1 DEF HandlesTo
  <2>2. HandlesTo(c, s) = {}
    BY <1>3, <2>1, NoneRefers
  <2>3. QED
    BY <1>2, <1>3, <2>2, FS_EmptySet
<1>4. QED
  BY <1>2, <1>3 DEF SlotsInUse

LEMMA ExitInUse ==
  ASSUME FilesInv, SlotsInUse, NEW p \in Proc, FsExit(p)
  PROVE  SlotsInUse'
<1>1. p \in alive
  BY DEF FsExit, Calls
<1>2. /\ i_cnt' = [s \in Slots |->
                     i_cnt[s] - Cardinality({fd \in HandlesTo(p, s) : GivesBack(p, fd)})]
      /\ UNCHANGED <<i_num, imap>>
  BY DEF FsExit, disk
<1>3. ASSUME NEW s \in Slots, i_cnt[s] = 0 PROVE i_cnt'[s] = 0
  <2>1. {fd \in HandlesTo(p, s) : GivesBack(p, fd)} = {}
    BY <1>1, <1>3, NoneRefers
  <2>2. QED
    BY <1>2, <1>3, <2>1, FS_EmptySet
<1>4. QED
  BY <1>2, <1>3 DEF SlotsInUse

LEMMA SlotsInUseStep ==
  ASSUME FilesInv, SlotsInUse, [CarefulNext]_vars
  PROVE  SlotsInUse'
<1>1. Typed
  BY DEF FilesInv
<1>2. ASSUME UNCHANGED <<i_num, i_cnt, imap>> PROVE SlotsInUse'
  BY <1>2 DEF SlotsInUse
<1>3. ASSUME NEW p \in Proc, NEW fd \in Fds, Close(p, fd) PROVE SlotsInUse'
  <2>1. /\ i_cnt' = i_cnt \/ \E s \in Slots : i_cnt[s] > 0 /\ i_cnt' = [i_cnt EXCEPT ![s] = i_cnt[s] - 1]
        /\ UNCHANGED <<i_num, imap>>
    <3>1. filp[p][fd] # None /\ fd_inode[filp[p][fd]] # None /\ p \in Proc
      BY <1>3 DEF Close
    <3>2. fd_inode[filp[p][fd]] \in Slots
      <4>1. filp \in [Proc -> [Fds -> Descs \cup {None}]] /\ fd_inode \in [Descs -> Slots \cup {None}]
        BY <1>1 DEF Typed
      <4>2. filp[p][fd] \in Descs
        BY <3>1, <4>1
      <4>3. QED
        BY <3>1, <4>1, <4>2
    <3>3. PICK t : t = fd_inode[filp[p][fd]]
      OBVIOUS
    <3>4. /\ IF i_cnt[t] > 0 THEN i_cnt' = [i_cnt EXCEPT ![t] = i_cnt[t] - 1] ELSE i_cnt' = i_cnt
          /\ UNCHANGED <<i_num, imap>>
      BY <1>3, <3>3 DEF Close, disk
    <3>5. QED
      BY <3>2, <3>3, <3>4
  <2>2. i_cnt \in [Slots -> Int]
    BY <1>1 DEF Typed
  <2>3. ASSUME NEW s \in Slots, i_cnt[s] = 0 PROVE i_cnt'[s] = 0
    BY <2>1, <2>2, <2>3
  <2>4. QED
    BY <2>1, <2>3 DEF SlotsInUse
<1>4. ASSUME NEW p \in Proc, NEW path \in Paths, NEW flag \in Flags, OpenCreates(p, path, flag)
      PROVE  SlotsInUse'
  <2>1. PICK num : num = NewNum
    OBVIOUS
  <2>2. num \in Nums /\ num \notin imap
    BY <1>4, <2>1, NumberFree DEF OpenCreates, FilesInv
  <2>3. NewInode(num) /\ imap' = imap \cup {num}
    BY <1>4, <2>1 DEF OpenCreates
  <2>4. QED
    BY <2>2, <2>3, NewIsGot, GotInUse
<1>5. ASSUME NEW p \in Proc, NEW path \in Paths, NEW flag \in Flags, OpenFinds(p, path, flag)
      PROVE  SlotsInUse'
  <2>1. PICK num : num = Search(path)
    OBVIOUS
  <2>2. GetInode(num) /\ imap' = imap /\ num # None
    BY <1>5, <2>1 DEF OpenFinds, Finds
  <2>3. num \in imap /\ num \in Nums
    BY <2>1, <2>2, Found
  <2>4. QED
    BY <2>2, <2>3, GotInUse
<1>6. ASSUME NEW p \in Proc, NEW path \in Paths, UnlinkRefuses(p, path) PROVE SlotsInUse'
  <2>1. PICK num : num = Search(path)
    OBVIOUS
  <2>2. GetInode(num) /\ imap' = imap /\ num # None
    BY <1>6, <2>1 DEF UnlinkRefuses, disk
  <2>3. num \in imap /\ num \in Nums
    BY <2>1, <2>2, Found
  <2>4. QED
    BY <2>2, <2>3, GotInUse
<1>7. ASSUME NEW p \in Proc, NEW path \in Paths, UnlinkRemoves(p, path) PROVE SlotsInUse'
  <2>1. PICK num : num = Search(path)
    OBVIOUS
  <2>2. Cached(num) = {} /\ imap' = imap \ {num} /\ UNCHANGED <<i_num, i_cnt>>
    BY <1>7, <2>1 DEF UnlinkRemoves, tables
  <2>3. QED
    BY <2>2 DEF Cached, SlotsInUse
<1>8. ASSUME \/ \E p \in Proc : \E path \in Paths :
                  GetPanics(p, path) \/ \E flag \in Flags : OpenPanics(p, path, flag)
             \/ \E p \in Proc, c \in Proc : CopyTable(p, c)
             \/ UNCHANGED vars
      PROVE  SlotsInUse'
  <2>1. UNCHANGED <<i_num, i_cnt, imap>>
    BY <1>8 DEF GetPanics, OpenPanics, Panic, CopyTable, vars, tables, disk
  <2>2. QED
    BY <1>2, <2>1
<1>9. QED
  BY <1>3, <1>4, <1>5, <1>6, <1>7, <1>8, ForkInUse, ExitInUse DEF CarefulNext

LEMMA FilesInvariant == CarefulSpec => [](FilesInv /\ SlotsInUse)
<1>1. FilesInv /\ SlotsInUse /\ [CarefulNext]_vars => FilesInv' /\ SlotsInUse'
  BY FilesInvStep, SlotsInUseStep DEF Kept
<1>2. QED
  BY <1>1, FilesInvInit, SlotsInUseInit, PTL DEF CarefulSpec

(* Over opens, closes, forks and exits in any order the counts of          *)
(* descriptors and inodes are right, and put_inode's assertion never       *)
(* fails, as long as a handle is closed by its only holder.                *)
THEOREM Counted == CarefulSpec => []HandlesCounted
<1>1. FilesInv => HandlesCounted
  BY DEF FilesInv
<1>2. QED
  BY <1>1, FilesInvariant, PTL

(* do_unlink removes no file that somebody has open.                       *)
THEOREM OpenOnesExist == CarefulSpec => []OpenFilesExist
<1>1. FilesInv => OpenFilesExist
  BY DEF FilesInv
<1>2. QED
  BY <1>1, FilesInvariant, PTL

(* get_inode never gives the slot of an open file to another.              *)
THEOREM FilesKept == CarefulSpec => HandlesKeepTheirFile
<1> DEFINE Keeps == \A h \in Held : h[1] \in alive' /\ DescOf(h)' = DescOf(h)
                                    => i_num[SlotOf(h)]' = i_num[SlotOf(h)]
<1>1. FilesInv /\ SlotsInUse /\ [CarefulNext]_vars => [Keeps]_vars
  BY FilesInvStep DEF Kept, KeepsFiles
<1>2. QED
  BY <1>1, FilesInvariant, PTL DEF CarefulSpec, HandlesKeepTheirFile

(* search_file finds every file under its name, and the inode map and the  *)
(* directory agree, for a directory of any length.                         *)
THEOREM Directory == CarefulSpec => []DirectoryWhole
<1>1. FilesInv => DirectoryWhole
  <2> SUFFICES ASSUME FilesInv PROVE DirectoryWhole
    OBVIOUS
  <2>1. Typed /\ Numbered /\ Named
    BY DEF FilesInv
  <2>2. ASSUME NEW j \in Places, dir[j].inode_nr # None
        PROVE  Search(dir[j].name) = dir[j].inode_nr
    <3>1. Listing(dir, dir_size)
      BY <2>1 DEF Typed, Named, Listing, NoName
    <3>2. dir[j].name \notin {NoName, ROOT}
      BY <2>2, <3>1 DEF Listing
    <3>3. Lookup(dir, dir_size, dir[j].name) = dir[j].inode_nr
      BY <3>1, <3>2, LookupFinds
    <3>4. QED
      BY <3>3 DEF Lookup, Search
  <2>3. QED
    BY <2>1, <2>2 DEF Numbered, DirectoryWhole
<1>2. QED
  BY <1>1, FilesInvariant, PTL

-----------------------------------------------------------------------------
(* Names and handles as Namespace has them.                                *)

LEMMA NamesMean ==
  /\ NoName \notin Names /\ ROOT \in Names /\ Paths \subseteq Names
  /\ \A n : Search(n) = Lookup(dir, dir_size, n) /\ Search(n)' = Lookup(dir', dir_size', n)
  /\ Search(ROOT) = ROOT_INODE /\ Search(ROOT)' = ROOT_INODE
<1>1. NoName \notin Names
  BY FilesAssumption, Zenon DEF Names, ROOT, NoName
<1>2. QED
  BY <1>1 DEF Names, Search, Lookup

(* Naming changes where an entry does.                                     *)
LEMMA OneEntry ==
  ASSUME FilesInv, Listing(dir', dir_size'),
         NEW i \in Places, NEW e, dir'[i] = e, \A j \in Places \ {i} : dir'[j] = dir[j],
         NEW path \in Names \ {ROOT},
         dir[i].name \in {NoName, path}, e.name \in {NoName, path},
         \A j \in Places \ {i} : dir[j].name # path
  PROVE  Naming' = [Naming EXCEPT ![path] = e.inode_nr]
<1>1. Typed /\ Named
  BY DEF FilesInv
<1>2. Listing(dir, dir_size)
  BY <1>1 DEF Typed, Named, Listing, NoName
<1>3. \A j \in Places : dir'[j].inode_nr = None \/ dir'[j].name # NoName
  BY DEF Listing
<1>4. ASSUME NEW n \in Names PROVE Search(n)' = IF n = path THEN e.inode_nr ELSE Search(n)
  <2>1. CASE n = ROOT
    BY <2>1, NamesMean
  <2>2. CASE n # ROOT
    <3>1. n \notin {NoName, ROOT}
      BY <2>2, NamesMean
    <3>2. /\ \A j \in Places : dir[j].name = n => Search(n) = dir[j].inode_nr
          /\ (\A j \in Places : dir[j].name # n) => Search(n) = None
      BY <1>2, <3>1, LookupFinds, NamesMean
    <3>3. /\ \A j \in Places : dir'[j].name = n => Search(n)' = dir'[j].inode_nr
          /\ (\A j \in Places : dir'[j].name # n) => Search(n)' = None
      <4>1. Search(n)' = Lookup(dir', dir_size', n)
        BY NamesMean
      <4>2. QED
        BY <3>1, <4>1, LookupFinds
    <3>4. CASE n = path
      <4>1. CASE e.name = path
        BY <3>3, <3>4, <4>1
      <4>2. CASE e.name = NoName
        <5>1. e.inode_nr = None
          BY <1>3, <4>2
        <5>2. \A j \in Places : dir'[j].name # n
          BY <3>1, <3>4, <4>2
        <5>3. QED
          BY <3>3, <3>4, <5>1, <5>2
      <4>3. QED
        BY <4>1, <4>2
    <3>5. CASE n # path
      <4>1. dir[i].name # n /\ dir'[i].name # n
        BY <3>1, <3>5
      <4>2. CASE \E j \in Places : dir[j].name = n
        BY <3>2, <3>3, <3>5, <4>1, <4>2
      <4>3. CASE \A j \in Places : dir[j].name # n
        BY <3>2, <3>3, <3>5, <4>1, <4>3
      <4>4. QED
        BY <4>2, <4>3
    <3>6. QED
      BY <3>4, <3>5
  <2>3. QED
    BY <2>1, <2>2
<1>5. QED
  BY <1>4 DEF Naming

LEMMA NamingAdded ==
  ASSUME FilesInv, NEW path \in Paths, Search(path) = None, Holes # {}, dir_size < ENTS,
         NEW num \in Nums \ imap, imap' = imap \cup {num}, AddEntry(num, path)
  PROVE  Naming' = [Naming EXCEPT ![path] = num]
<1>1. Typed /\ Named
  BY DEF FilesInv
<1>2. PICK i : i = Least(Holes)
  OBVIOUS
<1>3. i \in Places /\ dir[i].inode_nr = None
  <2>1. Holes \in SUBSET Nat
    BY Tables DEF Holes
  <2>2. QED
    BY <1>2, <2>1, LeastIn DEF Holes
<1>4. PICK e : e = Entry(num, path)
  OBVIOUS
<1>5. /\ dir'[i] = e /\ \A j \in Places \ {i} : dir'[j] = dir[j]
      /\ e.name = path /\ e.inode_nr = num
  BY <1>1, <1>2, <1>3, <1>4 DEF AddEntry, Entry, Typed
<1>6. path \in Names \ {ROOT} /\ path # NoName
  BY NamesMean DEF ROOT_INODE, None
<1>7. dir[i].name = NoName
  BY <1>1, <1>3 DEF Named, NoName
<1>8. \A j \in Places : dir[j].name # path
  <2>1. Listing(dir, dir_size)
    BY <1>1 DEF Typed, Named, Listing, NoName
  <2>2. \A j \in Places : dir[j].name = path => dir[j].inode_nr # None
                                                /\ Search(path) = dir[j].inode_nr
    BY <1>6, <2>1, LookupFinds, NamesMean
  <2>3. QED
    BY <2>2
<1>9. Listing(dir', dir_size')
  BY AddedStep DEF Named, Listing, NoName
<1>10. Naming' = [Naming EXCEPT ![path] = e.inode_nr]
  BY <1>3, <1>5, <1>6, <1>7, <1>8, <1>9, OneEntry
<1>11. QED
  BY <1>5, <1>10

LEMMA NamingRemoved ==
  ASSUME FilesInv, NEW path \in Paths, path # ROOT, Search(path) # None,
         Search(path) # ROOT_INODE,
         RemoveEntry(Search(path)), imap' = imap \ {Search(path)}, NoHoleBelow(path)
  PROVE  Naming' = [Naming EXCEPT ![path] = None]
<1>1. Typed /\ Numbered /\ Named
  BY DEF FilesInv
<1>2. PICK num : num = Search(path)
  OBVIOUS
<1>3. num \in imap
  BY <1>2, Found
<1>4. PICK i \in Places : dir[i].name = path /\ dir[i].inode_nr = num
  BY <1>2, Found
<1>5. PlaceOf(num) = i
  <2>1. {j \in Places : dir[j].inode_nr = num} = {i}
    BY <1>1, <1>2, <1>4 DEF Numbered
  <2>2. {i} \in SUBSET Nat
    BY Tables
  <2>3. QED
    BY <2>1, <2>2, LeastIn DEF PlaceOf
<1>6. dir'[i] = Empty /\ \A j \in Places \ {i} : dir'[j] = dir[j]
  BY <1>1, <1>2, <1>5 DEF RemoveEntry, Typed
<1>7. PlaceOf(num) = dir_size => \A k \in 1..(dir_size - 1) : dir[k].inode_nr # None
  BY <1>2 DEF NoHoleBelow
<1>8. Listing(dir', dir_size')
  BY <1>2, <1>3, <1>7, RemovedStep DEF Named, Listing, NoName
<1>9. Empty.name = NoName /\ Empty.inode_nr = None
  BY DEF Empty, Entry, NoName
<1>10. \A j \in Places \ {i} : dir[j].name # path
  BY <1>1, <1>2, <1>4 DEF Named
<1>11. Naming' = [Naming EXCEPT ![path] = Empty.inode_nr]
  BY <1>4, <1>6, <1>8, <1>9, <1>10, NamesMean, OneEntry
<1>12. QED
  BY <1>9, <1>11
LEMMA NamingFrame ==
  ASSUME UNCHANGED <<dir, dir_size>>
  PROVE  Naming' = Naming
BY DEF Naming, Search

(* Opens, in terms of the handles there are.                               *)
LEMMA OpensMean ==
  ASSUME NEW p \in Proc, NEW fd \in Fds
  PROVE  /\ Opens[p][fd] = OpenOn(p, fd) /\ Opens'[p][fd] = OpenOn(p, fd)'
         /\ OpenOn(p, fd) = IF <<p, fd>> \in Held THEN i_num[SlotOf(<<p, fd>>)] ELSE None
         /\ OpenOn(p, fd)' = IF <<p, fd>> \in Held' THEN i_num'[SlotOf(<<p, fd>>)'] ELSE None
BY DEF Opens, OpenOn, Held, SlotOf, DescOf

LEMMA OpensFrame ==
  ASSUME Held' = Held, \A h \in Held : i_num'[SlotOf(h)'] = i_num[SlotOf(h)]
  PROVE  Opens' = Opens
<1>1. \A p \in Proc, fd \in Fds : OpenOn(p, fd)' = OpenOn(p, fd)
  BY OpensMean
<1>2. QED
  BY <1>1 DEF Opens

LEMMA OneHandle ==
  ASSUME NEW p \in Proc, NEW fd \in Fds, NEW num, OpenOn(p, fd)' = num,
         \A h \in Held \ {<<p, fd>>} : h \in Held' /\ i_num'[SlotOf(h)'] = i_num[SlotOf(h)],
         Held' \subseteq Held \cup {<<p, fd>>}
  PROVE  Opens' = [Opens EXCEPT ![p][fd] = num]
<1>1. ASSUME NEW q \in Proc, NEW e \in Fds
      PROVE  OpenOn(q, e)' = IF q = p /\ e = fd THEN num ELSE OpenOn(q, e)
  <2>1. CASE q = p /\ e = fd
    BY <2>1
  <2>2. CASE ~ (q = p /\ e = fd)
    <3>1. <<q, e>> # <<p, fd>>
      BY <2>2
    <3>2. QED
      BY <2>2, <3>1, OpensMean
  <2>3. QED
    BY <2>1, <2>2
<1>2. QED
  BY <1>1 DEF Opens

(* What is open is a file of the directory.                                *)
LEMMA OpenIsNamed ==
  ASSUME FilesInv, NEW p \in Proc, NEW fd \in Fds
  PROVE  /\ <<p, fd>> \in Held => OpenOn(p, fd) \in imap /\ OpenOn(p, fd) # None
         /\ <<p, fd>> \notin Held => OpenOn(p, fd) = None
<1>1. None \notin Nums /\ imap \subseteq Nums
  BY Tables DEF None, FilesInv, Typed
<1>2. QED
  BY <1>1, OpensMean DEF FilesInv, OpenFilesExist

(* A file that nobody has open in Namespace's sense, and conversely.       *)
LEMMA NobodyHas ==
  ASSUME NEW num, num # None, alive \subseteq Proc,
         \A h \in Held : i_num[SlotOf(h)] # num
  PROVE  {h \in alive \X Fds : Opens[h[1]][h[2]] = num} = {}
<1>1. ASSUME NEW p \in alive, NEW fd \in Fds PROVE Opens[p][fd] # num
  BY OpensMean
<1>2. QED
  BY <1>1

LEMMA OpensOpened ==
  ASSUME FilesInv, NEW p \in alive, NEW num \in Nums, FreeFds(p) # {}, FreeDescs # {},
         GetInode(num), Install(p, SlotFor(num)), UNCHANGED <<alive, stopped>>
  PROVE  \E fd \in Fds : OpenOn(p, fd) = None /\ Opens' = [Opens EXCEPT ![p][fd] = num]
<1>1. Typed /\ p \in Proc
  BY DEF FilesInv, Typed
<1>2. PICK fd : fd = Least(FreeFds(p))
  OBVIOUS
<1>3. PICK d : d = Least(FreeDescs)
  OBVIOUS
<1>4. fd \in Fds /\ filp[p][fd] = None
  <2>1. FreeFds(p) \in SUBSET Nat
    BY Tables DEF FreeFds
  <2>2. QED
    BY <1>2, <2>1, LeastIn DEF FreeFds
<1>5. d \in Descs /\ d # None
  <2>1. FreeDescs \in SUBSET Nat
    BY Tables DEF FreeDescs
  <2>2. QED
    BY <1>3, <2>1, LeastIn, Tables DEF FreeDescs, None
<1>6. filp' = [filp EXCEPT ![p] = [filp[p] EXCEPT ![fd] = d]]
  BY <1>2, <1>3 DEF Install
<1>7. /\ filp'[p][fd] = d
      /\ \A q \in Proc, e \in Fds : <<q, e>> # <<p, fd>> => filp'[q][e] = filp[q][e]
  BY <1>1, <1>4, <1>6 DEF Typed
<1>8. /\ \A h \in Held : DescOf(h)' = DescOf(h) /\ i_num'[SlotOf(h)'] = i_num[SlotOf(h)]
      /\ \A h \in Held' : h \in Held \/ i_num'[SlotOf(h)'] = num
  BY Opened
<1>9. \A h \in Held : h \in Held'
  BY <1>8, HeldMeans DEF Held, DescOf
<1>10. <<p, fd>> \notin Held /\ <<p, fd>> \in Held'
  BY <1>4, <1>5, <1>7 DEF Held
<1>11. Held' \subseteq Held \cup {<<p, fd>>}
  <2>1. SUFFICES ASSUME NEW q \in alive, NEW e \in Fds, filp'[q][e] # None
                 PROVE  <<q, e>> \in Held \cup {<<p, fd>>}
    BY DEF Held
  <2>2. q \in Proc
    BY <1>1 DEF Typed
  <2>3. CASE <<q, e>> # <<p, fd>>
    BY <1>7, <2>1, <2>2, <2>3, HeldMeans
  <2>4. QED
    BY <2>3
<1>12. OpenOn(p, fd) = None /\ OpenOn(p, fd)' = num
  BY <1>1, <1>4, <1>8, <1>10, OpensMean
<1>13. Opens' = [Opens EXCEPT ![p][fd] = num]
  BY <1>1, <1>4, <1>8, <1>9, <1>11, <1>12, OneHandle
<1>14. QED
  BY <1>4, <1>12, <1>13
-----------------------------------------------------------------------------
(* Each request is a step of Namespace or none.                            *)

LEMMA CreateRefines ==
  ASSUME FilesInv, SlotsInUse, NEW p \in Proc, NEW path \in Paths, NEW flag \in Flags,
         OpenCreates(p, path, flag)
  PROVE  Abs!Next
<1>1. Typed /\ Numbered /\ OpenFilesExist /\ p \in alive
  BY DEF FilesInv, OpenCreates, Calls
<1>2. PICK num : num = NewNum
  OBVIOUS
<1>3. num \in Nums \ imap /\ num # None
  BY <1>1, <1>2, NumberFree, Tables DEF OpenCreates, None
<1>11. NewInode(num) => GetInode(num)
  BY <1>3, NewIsGot
<1>4. /\ FreeFds(p) # {} /\ FreeDescs # {} /\ GetInode(num) /\ Install(p, SlotFor(num))
      /\ imap' = imap \cup {num} /\ AddEntry(num, path) /\ Search(path) = None
      /\ Holes # {} /\ dir_size < ENTS /\ UNCHANGED <<alive, stopped>>
  BY <1>2, <1>11 DEF OpenCreates, Creates
<1>5. PICK fd \in Fds : OpenOn(p, fd) = None /\ Opens' = [Opens EXCEPT ![p][fd] = num]
  BY <1>1, <1>3, <1>4, OpensOpened
<1>6. Naming' = [Naming EXCEPT ![path] = num]
  BY <1>3, <1>4, NamingAdded
<1>7. path \in Names /\ Naming[path] = None /\ Opens[p][fd] = None
  BY <1>4, <1>5, NamesMean, OpensMean DEF Naming
<1>8. Abs!Unused(num)
  <2>1. Abs!HasOpen(num) = {}
    <3>1. \A h \in Held : i_num[SlotOf(h)] # num
      BY <1>1, <1>3 DEF OpenFilesExist
    <3>2. alive \subseteq Proc
      BY <1>1 DEF Typed
    <3>3. QED
      BY <1>3, <3>1, <3>2, NobodyHas DEF Abs!HasOpen
  <2>2. \A n \in Names : Naming[n] # num
    BY <1>3, Found DEF Naming
  <2>3. QED
    BY <2>1, <2>2 DEF Abs!Unused
<1>9. Abs!Create(p, fd, path, num)
  BY <1>1, <1>4, <1>5, <1>6, <1>7 DEF Abs!Create
<1>10. QED
  BY <1>1, <1>3, <1>7, <1>8, <1>9 DEF Abs!Next

LEMMA FindRefines ==
  ASSUME FilesInv, NEW p \in Proc, NEW path \in Paths, NEW flag \in Flags,
         ~ (Search(path) = ROOT_INODE /\ O_TRUNC \in flag), OpenFinds(p, path, flag)
  PROVE  Abs!Next
<1>1. p \in alive
  BY DEF OpenFinds, Calls
<1>2. PICK num : num = Search(path)
  OBVIOUS
<1>3. num \in Nums /\ num # None
  BY <1>2, Found DEF OpenFinds, Finds
<1>4. /\ FreeFds(p) # {} /\ FreeDescs # {} /\ GetInode(num) /\ Install(p, SlotFor(num))
      /\ UNCHANGED <<alive, dir, dir_size, stopped>>
  BY <1>2 DEF OpenFinds
<1>5. PICK fd \in Fds : OpenOn(p, fd) = None /\ Opens' = [Opens EXCEPT ![p][fd] = num]
  BY <1>1, <1>3, <1>4, OpensOpened
<1>6. path \in Names /\ Naming[path] = num /\ Opens[p][fd] = None
  BY <1>2, <1>5, NamesMean, OpensMean DEF Naming
<1>7. Naming' = Naming
  BY <1>4, NamingFrame
<1>8. Abs!Open(p, fd, path)
  BY <1>1, <1>3, <1>4, <1>5, <1>6, <1>7 DEF Abs!Open
<1>9. QED
  BY <1>1, <1>6, <1>8 DEF Abs!Next

LEMMA CloseRefines ==
  ASSUME FilesInv, NEW p \in Proc, NEW fd \in Fds, OnlyHolder(p, fd), Close(p, fd)
  PROVE  Abs!Next
<1>1. Typed /\ p \in alive /\ filp[p][fd] # None
  BY DEF FilesInv, Close, Calls
<1>2. UNCHANGED <<alive, i_num, dir, dir_size>>
  BY DEF Close, disk
<1>3. filp' = [filp EXCEPT ![p][fd] = None]
  <2>1. stopped' # "assert"
    BY ClosedStep DEF HandlesCounted
  <2>2. QED
    BY <2>1 DEF Close
<1>4. /\ filp'[p][fd] = None
      /\ \A q \in Proc, e \in Fds : <<q, e>> # <<p, fd>> => filp'[q][e] = filp[q][e]
  BY <1>1, <1>3 DEF Typed
<1>5. /\ Held' \subseteq Held
      /\ \A h \in Held' : SlotOf(h)' = SlotOf(h)
  BY ClosedStep
<1>6. \A h \in Held \ {<<p, fd>>} : h \in Held'
  <2>1. SUFFICES ASSUME NEW q \in alive, NEW e \in Fds, <<q, e>> # <<p, fd>>,
                        filp[q][e] # None
                 PROVE  <<q, e>> \in Held'
    BY DEF Held
  <2>2. q \in Proc
    BY <1>1 DEF Typed
  <2>3. filp'[q][e] # None
    BY <1>4, <2>1, <2>2
  <2>4. QED
    BY <1>2, <2>3 DEF Held
<1>7. OpenOn(p, fd)' = None
  BY <1>4 DEF OpenOn
<1>8. Opens' = [Opens EXCEPT ![p][fd] = None]
  BY <1>2, <1>5, <1>6, <1>7, OneHandle
<1>9. Opens[p][fd] # None
  <2>1. <<p, fd>> \in Held
    BY <1>1, HeldMeans
  <2>2. OpenOn(p, fd) # None
    BY <2>1, OpenIsNamed
  <2>3. QED
    BY <2>2, OpensMean
<1>10. Naming' = Naming
  BY <1>2, NamingFrame
<1>11. Abs!Close(p, fd)
  BY <1>1, <1>2, <1>8, <1>9, <1>10 DEF Abs!Close
<1>12. QED
  BY <1>1, <1>11 DEF Abs!Next

(* fs_fork gives the child what its parent has open.                       *)
LEMMA ForkRefines ==
  ASSUME FilesInv, FsFork
  PROVE  Abs!Next
<1>1. Typed
  BY DEF FilesInv
<1>2. PICK p \in alive, c \in Proc \ alive : forking = {<<p, c>>} /\ filp[c] = filp[p]
  <2>1. forking # {}
    BY DEF FsFork
  <2>2. QED
    BY <2>1 DEF FilesInv, Copied
<1>3. alive' = alive \cup {c} /\ UNCHANGED <<filp, fd_inode, i_num, dir, dir_size>>
  BY <1>2 DEF FsFork, disk
<1>4. p \in Proc /\ p # c
  BY <1>1, <1>2 DEF Typed
<1>5. ASSUME NEW q \in Proc, NEW fd \in Fds
      PROVE  OpenOn(q, fd)' = IF q = c THEN OpenOn(p, fd) ELSE OpenOn(q, fd)
  <2>1. CASE q = c
    BY <1>2, <1>3, <2>1 DEF OpenOn
  <2>2. CASE q # c
    BY <1>3, <2>2 DEF OpenOn
  <2>3. QED
    BY <2>1, <2>2
<1>6. Opens' = [Opens EXCEPT ![c] = Opens[p]]
  BY <1>4, <1>5 DEF Opens
<1>7. Naming' = Naming
  BY <1>3, NamingFrame
<1>8. Abs!Fork(p, c)
  BY <1>2, <1>3, <1>6, <1>7 DEF Abs!Fork
<1>9. QED
  BY <1>2, <1>8 DEF Abs!Next

LEMMA ExitRefines ==
  ASSUME FilesInv, NEW p \in Proc, FsExit(p)
  PROVE  Abs!Next
<1>1. Typed /\ p \in alive
  BY DEF FilesInv, FsExit, Calls
<1>2. alive' = alive \ {p} /\ UNCHANGED <<i_num, dir, dir_size>>
  BY DEF FsExit, disk
<1>3. /\ Held' \subseteq Held
      /\ \A h \in Held' : SlotOf(h)' = SlotOf(h)
      /\ \A h \in Held : h[1] \in alive' => h \in Held'
  BY ExitedStep
<1>4. ASSUME NEW q \in Proc, NEW fd \in Fds
      PROVE  OpenOn(q, fd)' = IF q = p THEN None ELSE OpenOn(q, fd)
  <2>1. CASE q = p
    BY <1>2, <2>1 DEF OpenOn
  <2>2. CASE q # p
    <3>1. <<q, fd>> \in Held' <=> <<q, fd>> \in Held
      BY <1>2, <1>3, <2>2, HeldMeans
    <3>2. QED
      BY <1>2, <1>3, <2>2, <3>1, OpensMean
  <2>3. QED
    BY <2>1, <2>2
<1>5. Opens' = [Opens EXCEPT ![p] = [fd \in Fds |-> None]]
  BY <1>4 DEF Opens
<1>6. Naming' = Naming
  BY <1>2, NamingFrame
<1>7. Abs!Exit(p)
  BY <1>1, <1>2, <1>5, <1>6 DEF Abs!Exit
<1>8. QED
  BY <1>1, <1>7 DEF Abs!Next

LEMMA RemoveRefines ==
  ASSUME FilesInv, NEW p \in Proc, NEW path \in Paths, Search(path) # None,
         NoHoleBelow(path), UnlinkRemoves(p, path)
  PROVE  Abs!Next
<1>1. Typed /\ HandlesCounted
  BY DEF FilesInv
<1>2. PICK num : num = Search(path)
  OBVIOUS
<1>3. /\ num \notin {None, ROOT_INODE, TTY_INODE} /\ Cached(num) = {} /\ path # ROOT
      /\ imap' = imap \ {num} /\ RemoveEntry(num)
      /\ UNCHANGED <<alive, filp, fd_inode, i_num>>
  BY <1>2 DEF UnlinkRemoves, tables, I_REGULAR
<1>4. Naming' = [Naming EXCEPT ![path] = None]
  BY <1>2, <1>3, NamingRemoved
<1>5. Opens' = Opens
  BY <1>3 DEF Opens, OpenOn
<1>6. path \in Names /\ Naming[path] = num
  BY <1>2, NamesMean DEF Naming
<1>7. Abs!HasOpen(num) = {}
  <2>1. ASSUME NEW h \in Held PROVE i_num[SlotOf(h)] # num
    <3>1. SlotOf(h) \in Slots /\ i_cnt[SlotOf(h)] # 0
      BY <1>1, Referenced
    <3>2. QED
      BY <1>3, <3>1 DEF Cached
  <2>2. alive \subseteq Proc
    BY <1>1 DEF Typed
  <2>3. QED
    BY <1>3, <2>1, <2>2, NobodyHas DEF Abs!HasOpen
<1>8. Abs!Remove(path)
  BY <1>3, <1>4, <1>5, <1>6, <1>7 DEF Abs!Remove
<1>9. QED
  BY <1>6, <1>8 DEF Abs!Next

(* A refused unlink takes a reference, which nobody sees.                  *)
LEMMA RefuseStutters ==
  ASSUME FilesInv, NEW p \in Proc, NEW path \in Paths, UnlinkRefuses(p, path)
  PROVE  UNCHANGED Abs!vars
<1>1. Typed /\ HandlesCounted
  BY DEF FilesInv
<1>2. PICK num : num = Search(path)
  OBVIOUS
<1>3. num \in Nums
  BY <1>2, Found DEF UnlinkRefuses
<1>4. GetInode(num) /\ UNCHANGED <<alive, filp, fd_inode, dir, dir_size>>
  BY <1>2 DEF UnlinkRefuses, disk
<1>5. \A h \in Held : i_num'[SlotOf(h)] = i_num[SlotOf(h)]
  BY <1>1, <1>3, <1>4, SlotsKept
<1>6. Held' = Held /\ \A h \in Held : SlotOf(h)' = SlotOf(h)
  BY <1>4, HandlesFrame
<1>7. Opens' = Opens /\ Naming' = Naming
  BY <1>4, <1>5, <1>6, OpensFrame, NamingFrame
<1>8. QED
  BY <1>4, <1>7 DEF Abs!vars

(* Nor does anybody see the copy of filp before FS has counted it.         *)
LEMMA CopyStutters ==
  ASSUME FilesInv, NEW p \in Proc, NEW c \in Proc, CopyTable(p, c)
  PROVE  UNCHANGED Abs!vars
<1>1. /\ c \notin alive /\ filp' = [filp EXCEPT ![c] = filp[p]]
      /\ UNCHANGED <<alive, fd_inode, i_num, dir, dir_size>>
  BY DEF CopyTable, disk
<1>2. \A q \in alive : filp'[q] = filp[q]
  BY <1>1 DEF FilesInv, Typed
<1>3. Opens' = Opens /\ Naming' = Naming
  BY <1>1, <1>2, NamingFrame DEF Opens, OpenOn
<1>4. QED
  BY <1>1, <1>3 DEF Abs!vars

LEMMA PanicStutters ==
  ASSUME UNCHANGED vars \/ Panic
  PROVE  UNCHANGED Abs!vars
<1>1. UNCHANGED <<alive, filp, fd_inode, i_num, dir, dir_size>>
  BY DEF Panic, vars, tables, disk
<1>2. Opens' = Opens /\ Naming' = Naming
  BY <1>1, NamingFrame DEF Opens, OpenOn
<1>3. QED
  BY <1>1, <1>2 DEF Abs!vars

LEMMA NamespaceInit ==
  ASSUME Init
  PROVE  Abs!Init
<1>1. /\ dir_size = 3 /\ alive = {FIRST} /\ filp = [p \in Proc |-> [fd \in Fds |-> None]]
      /\ dir = [j \in Places |-> CASE j = 1 -> Entry(ROOT_INODE, ".")
                                   [] j = 2 -> Entry(TTY_INODE, "dev_tty0")
                                   [] j = 3 -> Entry(TAR_INODE, "cmd.tar")
                                   [] OTHER -> Empty]
  BY DEF Init
<1>2. 1 \in Places /\ 2 \in Places /\ 3 \in Places
  BY Tables DEF Nums, ROOT_INODE, TTY_INODE, TAR_INODE
<1>3. /\ dir[1].name = "." /\ dir[1].inode_nr = ROOT_INODE
      /\ dir[2].name = "dev_tty0" /\ dir[2].inode_nr = TTY_INODE
      /\ dir[3].name = "cmd.tar" /\ dir[3].inode_nr = TAR_INODE
      /\ \A j \in Places : j \notin {1, 2, 3} => dir[j].name = NoName
  <2>1. /\ dir[1] = Entry(ROOT_INODE, ".") /\ dir[2] = Entry(TTY_INODE, "dev_tty0")
        /\ dir[3] = Entry(TAR_INODE, "cmd.tar")
        /\ \A j \in Places : j \notin {1, 2, 3} => dir[j] = Empty
    BY <1>1, <1>2
  <2>2. \A num, name : Entry(num, name).inode_nr = num /\ Entry(num, name).name = name
    BY DEF Entry
  <2>3. Empty.name = NoName
    BY <2>2 DEF Empty, NoName
  <2>4. QED
    BY <2>1, <2>2, <2>3
<1>4. Listing(dir, dir_size)
  BY FilesInvInit DEF FilesInv, Typed, Named, Listing, NoName
<1>5. ASSUME NEW n \in Names PROVE Search(n) = Made[n]
  <2>1. n # NoName
    BY NamesMean
  <2>2. Search(n) = Lookup(dir, dir_size, n) /\ Search(ROOT) = ROOT_INODE
    BY NamesMean
  <2>3. CASE n = ROOT
    <3>1. Made[n] = ROOT_INODE
      BY <2>3 DEF Made, ROOT
    <3>2. QED
      BY <2>2, <2>3, <3>1
  <2>4. CASE n # ROOT
    <3>1. /\ \A j \in Places : dir[j].name = n => Search(n) = dir[j].inode_nr
          /\ (\A j \in Places : dir[j].name # n) => Search(n) = None
      BY <1>4, <2>1, <2>2, <2>4, LookupFinds
    <3>2. CASE n = "."
      BY <1>2, <1>3, <3>1, <3>2 DEF Made
    <3>3. CASE n = "dev_tty0"
      BY <1>2, <1>3, <2>4, <3>1, <3>3 DEF Made
    <3>4. CASE n = "cmd.tar"
      BY <1>2, <1>3, <2>4, <3>1, <3>4 DEF Made
    <3>5. CASE n \notin {".", "dev_tty0", "cmd.tar"}
      <4>1. \A j \in Places : dir[j].name # n
        BY <1>3, <2>1, <3>5
      <4>2. QED
        BY <2>4, <3>1, <3>5, <4>1 DEF Made
    <3>6. QED
      BY <3>2, <3>3, <3>4, <3>5
  <2>5. QED
    BY <2>3, <2>4
<1>6. Naming = Made
  BY <1>5 DEF Naming, Made
<1>7. Opens = [p \in Proc |-> [fd \in Fds |-> None]]
  BY <1>1 DEF Opens, OpenOn
<1>8. QED
  BY <1>1, <1>6, <1>7 DEF Abs!Init

LEMMA NamespaceStep ==
  ASSUME FilesInv, SlotsInUse, [CarefulNext]_vars
  PROVE  [Abs!Next]_(Abs!vars)
<1>1. CASE FsFork
  BY <1>1, ForkRefines
<1>2. ASSUME NEW p \in Proc, FsExit(p) PROVE Abs!Next
  BY <1>2, ExitRefines
<1>3. ASSUME NEW p \in Proc, NEW c \in Proc, CopyTable(p, c) PROVE UNCHANGED Abs!vars
  BY <1>3, CopyStutters
<1>4. ASSUME NEW p \in Proc, NEW fd \in Fds, OnlyHolder(p, fd) /\ Close(p, fd) PROVE Abs!Next
  BY <1>4, CloseRefines
<1>5. ASSUME NEW p \in Proc, NEW path \in Paths, NEW flag \in Flags, OpenPanics(p, path, flag)
      PROVE  UNCHANGED Abs!vars
  BY <1>5, PanicStutters DEF OpenPanics
<1>6. ASSUME NEW p \in Proc, NEW path \in Paths, NEW flag \in Flags, OpenCreates(p, path, flag)
      PROVE  Abs!Next
  BY <1>6, CreateRefines
<1>7. ASSUME NEW p \in Proc, NEW path \in Paths, NEW flag \in Flags,
             ~ (Search(path) = ROOT_INODE /\ O_TRUNC \in flag) /\ OpenFinds(p, path, flag)
      PROVE  Abs!Next
  BY <1>7, FindRefines
<1>8. ASSUME NEW p \in Proc, NEW path \in Paths, GetPanics(p, path) PROVE UNCHANGED Abs!vars
  BY <1>8, PanicStutters DEF GetPanics
<1>9. ASSUME NEW p \in Proc, NEW path \in Paths, UnlinkRefuses(p, path)
      PROVE  UNCHANGED Abs!vars
  BY <1>9, RefuseStutters
<1>10. ASSUME NEW p \in Proc, NEW path \in Paths,
              Search(path) # None /\ NoHoleBelow(path) /\ UnlinkRemoves(p, path)
       PROVE  Abs!Next
  BY <1>10, RemoveRefines
<1>11. CASE UNCHANGED vars
  BY <1>11, PanicStutters
<1>12. QED
  BY <1>1, <1>2, <1>3, <1>4, <1>5, <1>6, <1>7, <1>8, <1>9, <1>10, <1>11 DEF CarefulNext

(* For careful callers FS keeps names and open files as Namespace says,    *)
(* with however many processes and however small its tables.               *)
THEOREM NamespaceImplemented == CarefulSpec => ImplementsNamespace
<1>1. Init => Abs!Init
  BY NamespaceInit
<1>2. FilesInv /\ SlotsInUse /\ [CarefulNext]_vars => [Abs!Next]_(Abs!vars)
  BY NamespaceStep
<1>3. QED
  BY <1>1, <1>2, FilesInvariant, PTL DEF CarefulSpec, ImplementsNamespace, Abs!Spec
=============================================================================
