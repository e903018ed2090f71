------------------------------- MODULE Files -------------------------------
(***************************************************************************)
(* What the file system task keeps in memory and in the root directory:    *)
(* the file descriptors of the processes, file_desc_table, inode_table,    *)
(* the inode map and the directory (fs/open.c, fs/unlink.c, fs/stat.c and  *)
(* fs_fork, fs_exit of fs/fs.c).  FS serves one request after the other    *)
(* and nobody else touches these tables, so a request is one step; the one *)
(* exception is fork, where the memory manager copies the parent's filp    *)
(* (mm/forkexit.c:32) and tells FS later.  Contents of files, their        *)
(* positions and their sectors are not modelled.                           *)
(***************************************************************************)
EXTENDS Integers, FiniteSets

CONSTANTS
  Proc,          \* user processes, and MM when it opens a program to execute
  FIRST,         \* the one that runs at the start
  NR_FILES,      \* handles of a process
  NR_FILE_DESC,  \* entries of file_desc_table
  NR_INODES,     \* entries of inode_table
  ENTS,          \* directory entries in a sector
  Paths,         \* what the processes name in their calls
  CNT_BOUND      \* bound: an i_cnt that nobody gives back stops here

ASSUME FilesAssumption ==
  /\ FIRST \in Proc
  /\ NR_FILES \in Nat \ {0} /\ NR_FILE_DESC \in Nat \ {0} /\ NR_INODES \in Nat \ {0}
  /\ ENTS \in Nat /\ ENTS > 3
  /\ CNT_BOUND \in Nat
  /\ "" \notin Paths      \* the empty path is the root directory's

Fds == 1..NR_FILES
Descs == 1..NR_FILE_DESC
Slots == 1..NR_INODES
Places == 1..ENTS
Nums == 1..ENTS           \* inode numbers: an entry of the first sector has one
None == 0                 \* a null pointer, no inode

O_CREATE == "O_CREATE"
O_RW == "O_RW"
O_TRUNC == "O_TRUNC"
Flags == SUBSET {O_CREATE, O_RW, O_TRUNC}

ROOT_INODE == 1
TTY_INODE == 2            \* one of the NR_CONSOLES devices, they are all alike
TAR_INODE == 3
ROOT == "/"
I_REGULAR(num) == num \notin {ROOT_INODE, TTY_INODE}

VARIABLES
  alive,       \* processes that can call
  forking,     \* {<<parent, child>>} from the copy of filp to fs_fork, else {}
  filp,        \* of a process: its handles, each a descriptor or None
  fd_inode,    \* of a descriptor: its slot in inode_table, None when it is free
  fd_cnt,
  i_num,       \* of a slot; what a slot of count 0 holds is never read
  i_cnt,
  imap,        \* inode numbers in use
  dir,         \* the directory's first sector
  dir_size,    \* i_size of the root directory, in entries
  stopped      \* "no", or what stopped the machine: "panic", "assert"

tables == <<filp, fd_inode, fd_cnt, i_num, i_cnt>>
disk == <<imap, dir, dir_size>>
vars == <<alive, forking, tables, disk, stopped>>

Entry(num, name) == [inode_nr |-> num, name |-> name]
Empty == Entry(None, "")

(* mkfs and init_fs: ".", a terminal and cmd.tar; the root inode is held.  *)
Init ==
  /\ alive = {FIRST} /\ forking = {}
  /\ filp = [p \in Proc |-> [fd \in Fds |-> None]]
  /\ fd_inode = [d \in Descs |-> None] /\ fd_cnt = [d \in Descs |-> 0]
  /\ i_num = [s \in Slots |-> IF s = 1 THEN ROOT_INODE ELSE None]
  /\ i_cnt = [s \in Slots |-> IF s = 1 THEN 1 ELSE 0]
  /\ imap = {ROOT_INODE, TTY_INODE, TAR_INODE}
  /\ dir = [j \in Places |-> CASE j = 1 -> Entry(ROOT_INODE, ".")
                               [] j = 2 -> Entry(TTY_INODE, "dev_tty0")
                               [] j = 3 -> Entry(TAR_INODE, "cmd.tar")
                               [] OTHER -> Empty]
  /\ dir_size = 3
  /\ stopped = "no"

Least(S) == CHOOSE i \in S : \A j \in S : i <= j
Calls(p) == p \in alive /\ stopped = "no" /\ \A f \in forking : f[1] # p

-----------------------------------------------------------------------------
(* The directory.                                                          *)

(* search_file looks at the first dir_size entries only.                   *)
Search(path) ==
  LET hits == {j \in 1..dir_size : dir[j].name = path}
  IN  IF path = ROOT THEN ROOT_INODE
      ELSE IF hits = {} THEN None ELSE dir[Least(hits)].inode_nr
PlaceOf(num) == Least({j \in Places : dir[j].inode_nr = num})
Holes == {j \in Places : dir[j].inode_nr = None}

(* Mutant: it is made longer for a hole past its end only, off by one.     *)
AddEntry_OffByOne(num, name) ==
  /\ dir' = [dir EXCEPT ![Least(Holes)] = Entry(num, name)]
  /\ dir_size' = IF Least(Holes) > dir_size + 1 THEN dir_size + 1 ELSE dir_size

(* new_dir_entry takes the first hole and makes the directory longer,      *)
(* whether the hole was inside it or not.                                  *)
AddEntry(num, name) ==
  /\ dir' = [dir EXCEPT ![Least(Holes)] = Entry(num, name)]
  /\ dir_size' = dir_size + 1

(* The end of do_unlink: removing the last entry shortens the directory to *)
(* the number of entries in use before it.                                 *)
RemoveEntry(num) ==
  LET j == PlaceOf(num)
      used == {k \in 1..(j - 1) : dir[k].inode_nr # None}
  IN  /\ dir' = [dir EXCEPT ![j] = Empty]
      /\ dir_size' = IF j = dir_size THEN Cardinality(used) ELSE dir_size

-----------------------------------------------------------------------------
(* inode_table.                                                            *)

Cached(num) == {s \in Slots : i_cnt[s] # 0 /\ i_num[s] = num}
Vacant == {s \in Slots : i_cnt[s] = 0}
Full(num) == Cached(num) = {} /\ Vacant = {}
SlotFor(num) == IF Cached(num) # {} THEN Least(Cached(num)) ELSE Least(Vacant)

(* get_inode: one more reference to the slot of the inode.                 *)
GetInode(num) ==
  /\ ~ Full(num)
  /\ i_num' = [i_num EXCEPT ![SlotFor(num)] = num]
  /\ i_cnt' = [i_cnt EXCEPT ![SlotFor(num)] = IF Cached(num) # {} THEN @ + 1 ELSE 1]

(* new_inode: a slot from get_inode, whose count becomes 1 in any case.    *)
NewInode(num) ==
  /\ ~ Full(num)
  /\ i_num' = [i_num EXCEPT ![SlotFor(num)] = num]
  /\ i_cnt' = [i_cnt EXCEPT ![SlotFor(num)] = 1]

-----------------------------------------------------------------------------
(* Opening and closing.                                                    *)

FreeFds(p) == {fd \in Fds : filp[p][fd] = None}
FreeDescs == {d \in Descs : fd_inode[d] = None}

(* Mutant: the inodes in use are taken for the first ones.                 *)
NewNum_Count == Cardinality(imap) + 1

NewNum == Least(Nums \ imap)
Creates(path, flag) == Search(path) = None /\ O_CREATE \in flag
Finds(path, flag) ==
  Search(path) # None /\ O_RW \in flag /\ (O_CREATE \in flag => O_TRUNC \in flag)

Panic == stopped' = "panic" /\ UNCHANGED <<alive, forking, tables, disk>>

(* do_open panics when a table is full, before it looks for the file or    *)
(* when it needs a slot or a place.                                        *)
OpenPanics(p, path, flag) ==
  /\ Calls(p)
  /\ \/ FreeFds(p) = {} \/ FreeDescs = {}
     \/ Finds(path, flag) /\ Full(Search(path))
     \/ Creates(path, flag) /\ (Holes = {} \/ Full(NewNum))
  /\ Panic

Install(p, slot) ==
  LET d == Least(FreeDescs)
  IN  /\ filp' = [filp EXCEPT ![p][Least(FreeFds(p))] = d]
      /\ fd_inode' = [fd_inode EXCEPT ![d] = slot]
      /\ fd_cnt' = [fd_cnt EXCEPT ![d] = 1]

(* Bound: the directory stays within its first sector.                     *)
OpenCreates(p, path, flag) ==
  /\ Calls(p) /\ FreeFds(p) # {} /\ FreeDescs # {}
  /\ Creates(path, flag)
  /\ Holes # {} /\ dir_size < ENTS
  /\ NewInode(NewNum)
  /\ Install(p, SlotFor(NewNum))
  /\ imap' = imap \cup {NewNum}
  /\ AddEntry(NewNum, path)
  /\ UNCHANGED <<alive, forking, stopped>>

(* Truncating the root directory empties it.                               *)
OpenFinds(p, path, flag) ==
  LET num == Search(path)
  IN  /\ Calls(p) /\ FreeFds(p) # {} /\ FreeDescs # {}
      /\ Finds(path, flag)
      /\ GetInode(num)
      /\ Install(p, SlotFor(num))
      /\ dir_size' = IF O_TRUNC \in flag /\ num = ROOT_INODE THEN 0 ELSE dir_size
      /\ UNCHANGED <<alive, forking, imap, dir, stopped>>

(* do_close: put_inode asserts that there is a reference to give back; the *)
(* descriptor is free at once, whoever else holds it.                      *)
Close(p, fd) ==
  LET d == filp[p][fd]
      s == fd_inode[d]
  IN  /\ Calls(p) /\ d # None /\ s # None
      /\ IF i_cnt[s] > 0
         THEN /\ i_cnt' = [i_cnt EXCEPT ![s] = @ - 1]
              /\ fd_inode' = [fd_inode EXCEPT ![d] = None]
              /\ filp' = [filp EXCEPT ![p][fd] = None]
              /\ UNCHANGED stopped
         ELSE stopped' = "assert" /\ UNCHANGED <<i_cnt, fd_inode, filp>>
      /\ UNCHANGED <<alive, forking, fd_cnt, i_num, disk>>

(* Of a descriptor somebody closed, do_close puts the null inode: it tests *)
(* and decrements a word of low memory that could be anything.             *)
CloseStale(p, fd) ==
  LET d == filp[p][fd]
  IN  /\ Calls(p) /\ d # None /\ fd_inode[d] = None
      /\ \/ /\ stopped' = "assert" /\ UNCHANGED filp
         \/ /\ filp' = [filp EXCEPT ![p][fd] = None] /\ UNCHANGED stopped
      /\ UNCHANGED <<alive, forking, fd_inode, fd_cnt, i_num, i_cnt, disk>>

-----------------------------------------------------------------------------
(* Unlink and stat.                                                        *)

(* Both take a slot for the inode, and panic when there is none.           *)
GetPanics(p, path) ==
  /\ Calls(p)
  /\ Search(path) # None /\ Full(Search(path))
  /\ Panic

(* A device, a directory or a file in use is not removed, and the          *)
(* reference taken to find that out is not given back.                     *)
UnlinkRefuses(p, path) ==
  LET num == Search(path)
  IN  /\ Calls(p) /\ path # ROOT /\ num # None
      /\ ~ I_REGULAR(num) \/ Cached(num) # {}
      /\ ~ Full(num) /\ i_cnt[SlotFor(num)] < CNT_BOUND
      /\ GetInode(num)
      /\ UNCHANGED <<alive, forking, filp, fd_inode, fd_cnt, disk, stopped>>

(* Mutant: a file in use is removed.                                       *)
UnlinkRemoves_InUse(p, path) ==
  LET num == Search(path)
  IN  /\ Calls(p) /\ path # ROOT /\ num # None
      /\ I_REGULAR(num) /\ ~ Full(num)
      /\ imap' = imap \ {num}
      /\ RemoveEntry(num)
      /\ UNCHANGED <<alive, forking, tables, stopped>>

UnlinkRemoves(p, path) ==
  LET num == Search(path)
  IN  /\ Calls(p) /\ path # ROOT /\ num # None
      /\ I_REGULAR(num) /\ Cached(num) = {} /\ ~ Full(num)
      /\ imap' = imap \ {num}
      /\ RemoveEntry(num)
      /\ UNCHANGED <<alive, forking, tables, stopped>>

-----------------------------------------------------------------------------
(* Fork and exit.                                                          *)

CopyTable(p, c) ==
  /\ Calls(p) /\ forking = {} /\ c \in Proc \ alive
  /\ filp' = [filp EXCEPT ![c] = filp[p]]
  /\ forking' = {<<p, c>>}
  /\ UNCHANGED <<alive, fd_inode, fd_cnt, i_num, i_cnt, disk, stopped>>

HandlesOn(p, d) == {fd \in Fds : filp[p][fd] = d}
HandlesTo(p, s) == {fd \in Fds : filp[p][fd] # None /\ fd_inode[filp[p][fd]] = s}

(* Mutant: the inodes a child shares are not counted.                      *)
FsFork_OnlyDescs ==
  /\ stopped = "no"
  /\ \E f \in forking : LET c == f[2] IN
         /\ fd_cnt' = [d \in Descs |-> fd_cnt[d] + Cardinality(HandlesOn(c, d))]
         /\ i_cnt' = i_cnt
         /\ alive' = alive \cup {c}
  /\ forking' = {}
  /\ UNCHANGED <<filp, fd_inode, i_num, disk, stopped>>

(* fs_fork counts what the copied handles refer to.                        *)
FsFork ==
  /\ stopped = "no"
  /\ \E f \in forking : LET c == f[2] IN
         /\ fd_cnt' = [d \in Descs |-> fd_cnt[d] + Cardinality(HandlesOn(c, d))]
         /\ i_cnt' = [s \in Slots |-> i_cnt[s] + Cardinality(HandlesTo(c, s))]
         /\ alive' = alive \cup {c}
  /\ forking' = {}
  /\ UNCHANGED <<filp, fd_inode, i_num, disk, stopped>>

(* fs_exit gives back handle after handle; once the count of a descriptor  *)
(* has come to 0 its inode is forgotten, and a later handle on it finds    *)
(* none.                                                                   *)
GivesBack(p, fd) ==
  LET d == filp[p][fd]
  IN  fd_cnt[d] \notin 1..Cardinality({e \in HandlesOn(p, d) : e < fd})

FsExit(p) ==
  /\ Calls(p) /\ forking = {}
  /\ i_cnt' = [s \in Slots |->
                 i_cnt[s] - Cardinality({fd \in HandlesTo(p, s) : GivesBack(p, fd)})]
  /\ fd_cnt' = [d \in Descs |-> fd_cnt[d] - Cardinality(HandlesOn(p, d))]
  /\ fd_inode' = [d \in Descs |->
       IF fd_cnt[d] \in 1..Cardinality(HandlesOn(p, d)) THEN None ELSE fd_inode[d]]
  /\ filp' = [filp EXCEPT ![p] = [fd \in Fds |-> None]]
  /\ alive' = alive \ {p}
  /\ UNCHANGED <<forking, i_num, disk, stopped>>

-----------------------------------------------------------------------------
Next ==
  \/ FsFork
  \/ \E p \in Proc :
       \/ FsExit(p)
       \/ \E c \in Proc : CopyTable(p, c)
       \/ \E fd \in Fds : Close(p, fd) \/ CloseStale(p, fd)
       \/ \E path \in Paths :
            \/ \E flag \in Flags : \/ OpenPanics(p, path, flag)
                                   \/ OpenCreates(p, path, flag)
                                   \/ OpenFinds(p, path, flag)
            \/ GetPanics(p, path)
            \/ UnlinkRefuses(p, path)
            \/ UnlinkRemoves(p, path)

Spec == Init /\ [][Next]_vars

(* What the code needs of its callers: a handle is closed by its only      *)
(* holder, the root directory is not truncated, and the last entry is not  *)
(* removed while there is a hole below it.                                 *)
OnlyHolder(p, fd) == filp[p][fd] # None /\ fd_cnt[filp[p][fd]] = 1
NoHoleBelow(path) ==
  PlaceOf(Search(path)) = dir_size => \A k \in 1..(dir_size - 1) : dir[k].inode_nr # None

CarefulNext ==
  \/ FsFork
  \/ \E p \in Proc :
       \/ FsExit(p)
       \/ \E c \in Proc : CopyTable(p, c)
       \/ \E fd \in Fds : OnlyHolder(p, fd) /\ Close(p, fd)
       \/ \E path \in Paths :
            \/ \E flag \in Flags : \/ OpenPanics(p, path, flag)
                                   \/ OpenCreates(p, path, flag)
                                   \/ ~ (Search(path) = ROOT_INODE /\ O_TRUNC \in flag)
                                      /\ OpenFinds(p, path, flag)
            \/ GetPanics(p, path)
            \/ UnlinkRefuses(p, path)
            \/ Search(path) # None /\ NoHoleBelow(path) /\ UnlinkRemoves(p, path)

CarefulSpec == Init /\ [][CarefulNext]_vars

-----------------------------------------------------------------------------
(* Properties.                                                             *)

Held == {h \in alive \X Fds : filp[h[1]][h[2]] # None}
DescOf(h) == filp[h[1]][h[2]]
SlotOf(h) == fd_inode[DescOf(h)]

(* No handle is without its file (do_rw asserts that its inode lies in     *)
(* inode_table, fs/read_write.c:25).  The count of a descriptor in use is  *)
(* the number of handles on it, over opens, forks and exits in any order   *)
(* (fs_fork, fs_exit, do_close).  An inode is counted at least once for    *)
(* every handle on it, so get_inode never gives its slot to another file   *)
(* and the assertion of put_inode (fs/open.c:371) never fails; no two      *)
(* slots hold one inode.                                                   *)
HandlesCounted ==
  /\ stopped # "assert"
  /\ \A h \in Held : SlotOf(h) # None
  /\ \A d \in Descs : fd_inode[d] # None =>
       fd_cnt[d] = Cardinality({h \in Held : DescOf(h) = d}) /\ fd_cnt[d] > 0
  /\ \A s \in Slots : i_cnt[s] >= Cardinality({h \in Held : SlotOf(h) = s})
                                  + (IF s = 1 THEN 1 ELSE 0)
  /\ \A s, t \in Slots : i_cnt[s] # 0 /\ i_cnt[t] # 0 /\ i_num[s] = i_num[t] => s = t

(* A file somebody has open is not removed: its inode number stays taken   *)
(* and the directory names it (do_unlink's test of i_cnt).                 *)
OpenFilesExist ==
  \A h \in Held : i_num[SlotOf(h)] \in imap \cap {dir[j].inode_nr : j \in Places}

(* A handle keeps the file it was opened on until it is closed, whatever   *)
(* others open, close, create and remove.                                  *)
HandlesKeepTheirFile ==
  [][\A h \in Held : h[1] \in alive' /\ DescOf(h)' = DescOf(h)
                     => i_num[SlotOf(h)]' = i_num[SlotOf(h)]]_vars

(* search_file finds every file of the directory, by its name and as       *)
(* itself; so no file is hidden and no name is given twice.  The inode map *)
(* says which inodes the directory names, and no two entries share one:    *)
(* creating never takes an inode that is in use.                           *)
DirectoryWhole ==
  /\ \A j \in Places : dir[j].inode_nr # None => Search(dir[j].name) = dir[j].inode_nr
  /\ imap = {dir[j].inode_nr : j \in Places} \ {None}
  /\ \A j, k \in Places : dir[j].inode_nr = dir[k].inode_nr /\ j # k
                          => dir[j].inode_nr = None

(* Seen through search_file and the handles FS keeps names and open files  *)
(* as processes expect it (Namespace): whatever others open, create, close *)
(* and remove, a name leads to its file and a handle to the file it was    *)
(* opened on; a child gets what its parent has open although FS hears of   *)
(* the fork later; what is created is nobody else's.                       *)
Names == Paths \cup {ROOT, "dev_tty0", "cmd.tar"}
Made == [n \in Names |-> CASE n \in {ROOT, "."} -> ROOT_INODE
                           [] n = "dev_tty0" -> TTY_INODE
                           [] n = "cmd.tar" -> TAR_INODE
                           [] OTHER -> None]
Naming == [n \in Names |-> Search(n)]
OpenOn(p, fd) ==
  IF p \in alive /\ filp[p][fd] # None THEN i_num[fd_inode[filp[p][fd]]] ELSE None
Opens == [p \in Proc |-> [fd \in Fds |-> OpenOn(p, fd)]]
Abs == INSTANCE Namespace WITH File <- Nums, Lasting <- {ROOT_INODE, TTY_INODE},
                               Given <- Made, names <- Naming, open <- Opens
ImplementsNamespace == Abs!Spec
=============================================================================
