------------------------------ MODULE Install ------------------------------
(***************************************************************************)
(* The first start of the system and the starts after a power failure.     *)
(* FS makes a file system when it finds none (init_fs, mkfs), then Init    *)
(* extracts cmd.tar (untar), creating and filling a file for each in the   *)
(* archive, and clears the first byte of the archive as a sign that it is  *)
(* done.  One action is one write to the disk; the power may fail between  *)
(* any two, which loses everything but the disk.  Until Init is done FS    *)
(* has no other client.  Where a run of sectors begins is in Store.        *)
(***************************************************************************)
EXTENDS Integers, Sequences, FiniteSets

CONSTANTS
  Archive,      \* names of the files in cmd.tar, in its order; none has a slash
  Pieces,       \* of a file: how often untar writes, 8192 bytes at a time
  NR_FREE,      \* inodes and runs of sectors beside those mkfs gives away
  MAX_CRASHES   \* bound: how often the power fails

Names == {Archive[i] : i \in DOMAIN Archive}

ASSUME InstallAssumption ==
  /\ Archive \in Seq(Names) /\ Archive # <<>> /\ MAX_CRASHES \in Nat
  /\ \A i, j \in DOMAIN Archive : Archive[i] = Archive[j] => i = j
  /\ \A f \in Names : Pieces[f] \in Nat \ {0}
  /\ NR_FREE \in Nat /\ NR_FREE >= Len(Archive) + MAX_CRASHES

Numbers == 1..NR_FREE      \* of inodes, and of runs
Blank == [run |-> 0, size |-> 0]
Piece(f, k) == <<f, k>>

Least(S) == CHOOSE i \in S : \A j \in S : i <= j

VARIABLES
  \* on disk
  super,      \* the superblock has its magic number
  imap, smap, \* inodes and runs with a bit set in the maps, 0 for those mkfs gives away
  whole,      \* runs of which every bit is set
  inodes,     \* i_start_sect and i_size of the numbered inodes
  root,       \* i_size of the root directory's inode, in entries beyond mkfs's
  entries,    \* those entries
  tar,        \* cmd.tar: "absent", "there" or, first byte 0, "cleared"
  data,       \* what lies in each run
  \* in memory
  pc,         \* the next write
  root_inode, \* FS's copy of root
  i,          \* the file untar is at
  inode_nr, free_sect_nr,   \* its inode and run
  fd_pos,     \* pieces written
  \* for the bound
  crashes

disk == <<super, imap, smap, whole, inodes, root, entries, tar, data>>
memory == <<root_inode, i, inode_nr, free_sect_nr, fd_pos>>
vars == <<disk, pc, memory, crashes>>

Init ==
  /\ super = FALSE /\ imap = {} /\ smap = {} /\ whole = {} /\ root = 0 /\ entries = <<>>
  /\ inodes = [n \in Numbers |-> Blank]
  /\ tar = "absent" /\ data = [r \in Numbers |-> <<>>]
  /\ pc = "boot" /\ root_inode = 0 /\ i = 0 /\ inode_nr = 0 /\ free_sect_nr = 0 /\ fd_pos = 0
  /\ crashes = 0

-----------------------------------------------------------------------------
(* init_fs and mkfs.                                                       *)

(* A magic number in the superblock is all init_fs asks for.               *)
init_fs ==
  /\ pc = "boot"
  /\ pc' = IF super THEN "untar" ELSE "superblock"
  /\ root_inode' = root
  /\ UNCHANGED <<disk, i, inode_nr, free_sect_nr, fd_pos, crashes>>

(* Each part of mkfs writes its sectors and goes to the next.              *)
MakeSuper ==
  /\ pc = "superblock" /\ pc' = "inode map"
  /\ super' = TRUE
  /\ UNCHANGED <<imap, smap, whole, inodes, root, entries, tar, data, memory, crashes>>

MakeInodeMap ==
  /\ pc = "inode map" /\ pc' = "sector map"
  /\ imap' = {0}
  /\ UNCHANGED <<super, smap, whole, inodes, root, entries, tar, data, memory, crashes>>

MakeSectorMap ==
  /\ pc = "sector map" /\ pc' = "inodes"
  /\ smap' = {0} /\ whole' = {0}
  /\ UNCHANGED <<super, imap, inodes, root, entries, tar, data, memory, crashes>>

MakeInodes ==
  /\ pc = "inodes" /\ pc' = "root"
  /\ root' = 0 /\ root_inode' = 0
  /\ UNCHANGED <<super, imap, smap, whole, inodes, entries, tar, data,
                 i, inode_nr, free_sect_nr, fd_pos, crashes>>

MakeRoot ==
  /\ pc = "root" /\ pc' = "untar"
  /\ entries' = <<>> /\ tar' = "there"
  /\ UNCHANGED <<super, imap, smap, whole, inodes, root, data, memory, crashes>>

Making == {"inode map", "sector map", "inodes", "root"}

-----------------------------------------------------------------------------
(* untar and what its calls make FS write.                                 *)

(* search_file: the first entry of that name within the directory's size.  *)
Places(f, size) == {k \in 1..size : k \in DOMAIN entries /\ entries[k].name = f}
search_file(f, size) ==
  IF Places(f, size) = {} THEN 0 ELSE entries[Least(Places(f, size))].nr

(* Mutant: a last file without an entry behind it is taken for the end.    *)
OpenNext_Early(n) ==
  IF n >= Len(Archive)
    THEN pc' = "mark" /\ UNCHANGED inode_nr
    ELSE LET nr == search_file(Archive[n], root_inode) IN
         /\ inode_nr' = nr
         /\ pc' = IF nr = 0 THEN "alloc_imap_bit" ELSE "truncate"

(* Behind the last file comes a header of zeros.  The names are taken to   *)
(* have no slash: where one has, open returns -1, and untar goes back      *)
(* without the mark, on this and on every later start.                     *)
OpenNext(n) ==
  IF n > Len(Archive)
    THEN pc' = "mark" /\ UNCHANGED inode_nr
    ELSE LET nr == search_file(Archive[n], root_inode) IN
         /\ inode_nr' = nr
         /\ pc' = IF nr = 0 THEN "alloc_imap_bit" ELSE "truncate"

(* Mutant: what the directory has is taken to be there.                    *)
untar_Trusts ==
  /\ pc = "untar" /\ tar # "absent"
  /\ i' = 1
  /\ IF tar = "cleared" \/ search_file(Archive[Len(Archive)], root_inode) # 0
       THEN pc' = "extract done" /\ UNCHANGED inode_nr ELSE OpenNext(1)
  /\ UNCHANGED <<disk, root_inode, free_sect_nr, fd_pos, crashes>>

(* cmd.tar is opened and its first header read.                            *)
untar ==
  /\ pc = "untar" /\ tar # "absent"
  /\ i' = 1
  /\ IF tar = "cleared" THEN pc' = "extract done" /\ UNCHANGED inode_nr ELSE OpenNext(1)
  /\ UNCHANGED <<disk, root_inode, free_sect_nr, fd_pos, crashes>>

(* Mutant: the map is changed in the buffer and not written back.          *)
alloc_smap_bit_NotWritten ==
  /\ pc = "alloc_smap_bit" /\ pc' = "new_inode"
  /\ free_sect_nr' = Least(Numbers \ smap)
  /\ UNCHANGED <<disk, root_inode, i, inode_nr, fd_pos, crashes>>

alloc_imap_bit ==
  /\ pc = "alloc_imap_bit" /\ pc' = "alloc_smap_bit"
  /\ inode_nr' = Least(Numbers \ imap)
  /\ imap' = imap \cup {inode_nr'}
  /\ UNCHANGED <<super, smap, whole, inodes, root, entries, tar, data,
                 root_inode, i, free_sect_nr, fd_pos, crashes>>

(* The first bit that is not set begins the new run.  Bits of a run that   *)
(* are in two sectors of the map, as the first file's are, are written one *)
(* sector after the other; a failure in between loses the part that is     *)
(* marked, and the next run begins behind it.                              *)
alloc_smap_bit ==
  /\ pc = "alloc_smap_bit"
  /\ free_sect_nr' = Least(Numbers \ smap)
  /\ smap' = smap \cup {free_sect_nr'}
  /\ \/ pc' = "new_inode" /\ whole' = whole \cup {free_sect_nr'}
     \/ pc' = "alloc_smap_rest" /\ UNCHANGED whole
  /\ UNCHANGED <<super, imap, inodes, root, entries, tar, data,
                 root_inode, i, inode_nr, fd_pos, crashes>>

AllocSmapRest ==
  /\ pc = "alloc_smap_rest" /\ pc' = "new_inode"
  /\ whole' = whole \cup {free_sect_nr}
  /\ UNCHANGED <<super, imap, smap, inodes, root, entries, tar, data, memory, crashes>>

new_inode ==
  /\ pc = "new_inode" /\ pc' = "new_dir_entry"
  /\ inodes' = [inodes EXCEPT ![inode_nr] = [run |-> free_sect_nr, size |-> 0]]
  /\ UNCHANGED <<super, imap, smap, whole, root, entries, tar, data, memory, crashes>>

(* new_dir_entry takes the first empty place, which need not be the first  *)
(* behind the directory's size, and counts the size up all the same.       *)
new_dir_entry ==
  /\ pc = "new_dir_entry" /\ pc' = "sync root"
  /\ entries' = Append(entries, [name |-> Archive[i], nr |-> inode_nr])
  /\ root_inode' = root_inode + 1
  /\ UNCHANGED <<super, imap, smap, whole, inodes, root, tar, data,
                 i, inode_nr, free_sect_nr, fd_pos, crashes>>

SyncRoot ==
  /\ pc = "sync root" /\ pc' = "truncate"
  /\ root' = root_inode
  /\ UNCHANGED <<super, imap, smap, whole, inodes, entries, tar, data, memory, crashes>>

(* O_TRUNC, for a new file as well.                                        *)
Truncate ==
  /\ pc = "truncate" /\ pc' = "data"
  /\ inodes' = [inodes EXCEPT ![inode_nr].size = 0]
  /\ fd_pos' = 0
  /\ UNCHANGED <<super, imap, smap, whole, root, entries, tar, data,
                 root_inode, i, inode_nr, free_sect_nr, crashes>>

(* do_rw writes the data, then the inode.                                  *)
WriteData ==
  /\ pc = "data" /\ pc' = "size"
  /\ data' = [data EXCEPT ![inodes[inode_nr].run] =
                [k \in 1..(IF fd_pos >= Len(@) THEN fd_pos + 1 ELSE Len(@)) |->
                   IF k = fd_pos + 1 THEN Piece(Archive[i], k) ELSE @[k]]]
  /\ fd_pos' = fd_pos + 1
  /\ UNCHANGED <<super, imap, smap, whole, inodes, root, entries, tar,
                 root_inode, i, inode_nr, free_sect_nr, crashes>>

WriteSize ==
  /\ pc = "size"
  /\ inodes' = IF fd_pos >= inodes[inode_nr].size
               THEN [inodes EXCEPT ![inode_nr].size = fd_pos] ELSE inodes
  /\ IF fd_pos < Pieces[Archive[i]]
       THEN pc' = "data" /\ UNCHANGED <<i, inode_nr>>
       ELSE i' = i + 1 /\ OpenNext(i + 1)
  /\ UNCHANGED <<super, imap, smap, whole, root, entries, tar, data,
                 root_inode, free_sect_nr, fd_pos, crashes>>

(* The first byte of the archive.                                          *)
Mark ==
  /\ pc = "mark" /\ pc' = "extract done"
  /\ tar' = "cleared"
  /\ UNCHANGED <<super, imap, smap, whole, inodes, root, entries, data, memory, crashes>>

-----------------------------------------------------------------------------
(* The power fails.  The code does not survive that in two places, which   *)
(* are left out here: between mkfs's first write and its last, where the   *)
(* next start takes the magic number for a whole file system, and between  *)
(* a new directory entry and the directory's new size, where the next      *)
(* start creates the file again, counts the older entry instead of the     *)
(* new one, and is one entry short from then on.                           *)
Crash ==
  /\ crashes < MAX_CRASHES
  /\ pc \notin Making \cup {"boot", "sync root"}
  /\ crashes' = crashes + 1
  /\ pc' = "boot"
  /\ root_inode' = 0 /\ i' = 0 /\ inode_nr' = 0 /\ free_sect_nr' = 0 /\ fd_pos' = 0
  /\ UNCHANGED disk

Write ==
  \/ init_fs \/ MakeSuper \/ MakeInodeMap \/ MakeSectorMap \/ MakeInodes \/ MakeRoot
  \/ untar \/ alloc_imap_bit \/ alloc_smap_bit \/ AllocSmapRest \/ new_inode \/ new_dir_entry
  \/ SyncRoot \/ Truncate \/ WriteData \/ WriteSize \/ Mark

Next == Write \/ Crash

Spec == Init /\ [][Next]_vars /\ WF_vars(Write)

-----------------------------------------------------------------------------
(* Properties.                                                             *)

(* The inode a name leads to on disk, after any crash.                     *)
Found(f) == search_file(f, root)

(* The cleared byte means that everything is there: each file of the       *)
(* archive is found and has its pieces in their places, however often the  *)
(* extraction was cut off before (untar's order of its writes).            *)
InstalledWhenCleared ==
  tar = "cleared" =>
    \A f \in Names :
      /\ Found(f) # 0
      /\ inodes[Found(f)].size = Pieces[f]
      /\ \A k \in 1..Pieces[f] :
           /\ k \in DOMAIN data[inodes[Found(f)].run]
           /\ data[inodes[Found(f)].run][k] = Piece(f, k)

(* A file somebody can find has its inode and all of its run marked in the *)
(* maps, and shares them with no other: create_file writes maps, inode and *)
(* entry in an order in which a crash loses space and never gives it out   *)
(* twice.                                                                  *)
MapsCoverFiles ==
  \A f \in Names : Found(f) # 0 =>
    /\ Found(f) \in imap /\ inodes[Found(f)].run \in whole
    /\ \A g \in Names \ {f} : Found(g) # 0 =>
         Found(g) # Found(f) /\ inodes[Found(g)].run # inodes[Found(f)].run

(* When the power stays on in the end, the archive gets extracted.         *)
EventuallyInstalled == <>[](pc = "extract done" /\ tar = "cleared")
=============================================================================
