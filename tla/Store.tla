------------------------------- MODULE Store -------------------------------
(***************************************************************************)
(* Where files lie on the disk and what reading and writing does to them:  *)
(* the sector map (mkfs, alloc_smap_bit, the end of do_unlink), the inodes *)
(* and do_rw.  FS serves one request after the other (task_fs), so each is *)
(* a step.  Sectors are counted as the bits of the map are: bit 0 is       *)
(* reserved, bit 1 is the first sector of the data area.  The tables of    *)
(* handles and the directory are in Files, the transfers in Disk.          *)
(***************************************************************************)
EXTENDS Integers, Sequences

CONSTANTS
  File,       \* the files there may be
  TAR,        \* cmd.tar, which mkfs puts there
  Handle,     \* file descriptors, one handle on each
  Data,       \* values of a byte
  Lengths,    \* bytes of a request
  SECT,       \* bytes of a sector (512)
  RUN,        \* sectors of a file, NR_DEFAULT_FILE_SECTS (2048)
  CHUNK,      \* sectors fsbuf holds (2048)
  BYTE,       \* bits of a byte of the map (8)
  BYTES,      \* bytes of a sector of the map (512)
  NR_SMAP,    \* sectors of the map
  TAR_BIT,    \* the bit of INSTALL_FIRST_SECTOR
  Closed, NoFile   \* a handle that is not open, the content of no file

ASSUME StoreAssumption ==
  /\ TAR \in File /\ TAR_BIT \in Nat
  /\ {SECT, RUN, CHUNK, BYTE, BYTES, NR_SMAP} \subseteq Nat \ {0}
  /\ RUN < BYTE * BYTES
  /\ RUN < TAR_BIT /\ TAR_BIT + RUN <= BYTE * BYTES * NR_SMAP
  /\ Lengths \subseteq Nat \ {0}
  /\ Closed \notin [file : File, pos : Nat] /\ NoFile \notin Seq(Data)

NR_BITS == BYTE * BYTES * NR_SMAP
Bits == 0..(NR_BITS - 1)
Run(b) == b..(b + RUN - 1)              \* the sectors of a file that starts at b
Addresses == 0..(NR_BITS * SECT - 1)
Nothing == [start |-> 0, size |-> 0]

Least(S) == CHOOSE i \in S : \A j \in S : i <= j
min(a, b) == IF a <= b THEN a ELSE b

VARIABLES
  smap,       \* the bits of the sector map that are set
  inode,      \* of a file: i_start_sect and i_size, Nothing when it is not there
  file,       \* of a handle: its file and fd_pos, or Closed
  disk,       \* every byte of the data area
  got         \* what the last request handed to its caller

vars == <<smap, inode, file, disk, got>>

Exists(f) == inode[f] # Nothing
Opened(f) == {h \in Handle : file[h] # Closed /\ file[h].file = f}

(* mkfs: the root directory has the first run, cmd.tar is installed at a   *)
(* place of its own.                                                       *)
Init ==
  /\ smap = {0} \cup Run(1) \cup Run(TAR_BIT)
  /\ inode = [f \in File |-> IF f = TAR THEN [start |-> TAR_BIT, size |-> RUN * SECT]
                             ELSE Nothing]
  /\ file = [h \in Handle |-> Closed]
  /\ \E v \in Data : disk = [a \in Addresses |-> v]
  /\ got = <<>>

-----------------------------------------------------------------------------
(* Taking and giving back sectors.                                         *)

(* alloc_smap_bit looks for one free bit only and sets the rest of the run *)
(* whatever they are.  With no free bit it returns sector 0, that of the   *)
(* boot loader; files are created only while there is one (BeforeTar).     *)
Free == Bits \ smap
FirstFree == Least(Free)

(* The end of do_unlink clears the bits up to the end of a byte, then      *)
(* whole bytes, then the rest; a rest that begins a sector of the map is   *)
(* looked for behind the end of the buffer, and stays set.                 *)
LastByte(b) ==
  LET head == BYTE - (b % BYTE)
      whole == IF RUN < head THEN 0 ELSE (RUN - head) \div BYTE
  IN  b \div BYTE + 1 + whole

(* Mutant: the first byte is cleared from its first bit.                   *)
Freed_WholeByte(b) ==
  {i \in ((b \div BYTE) * BYTE)..(b + RUN - 1) :
     i < LastByte(b) * BYTE \/ LastByte(b) % BYTES # 0}

Freed(b) == {i \in Run(b) : i < LastByte(b) * BYTE \/ LastByte(b) % BYTES # 0}

-----------------------------------------------------------------------------
(* Opening and removing.                                                   *)
OpenCreates(h, f) ==
  /\ file[h] = Closed /\ ~ Exists(f)
  /\ smap' = smap \cup (Run(FirstFree) \cap Bits)
  /\ inode' = [inode EXCEPT ![f] = [start |-> FirstFree, size |-> 0]]
  /\ file' = [file EXCEPT ![h] = [file |-> f, pos |-> 0]]
  /\ got' = <<>> /\ UNCHANGED disk

OpenFinds(h, f, trunc) ==
  /\ file[h] = Closed /\ Exists(f)
  /\ inode' = IF trunc THEN [inode EXCEPT ![f].size = 0] ELSE inode
  /\ file' = [file EXCEPT ![h] = [file |-> f, pos |-> 0]]
  /\ got' = <<>> /\ UNCHANGED <<smap, disk>>

Close(h) ==
  /\ file[h] # Closed
  /\ file' = [file EXCEPT ![h] = Closed]
  /\ got' = <<>> /\ UNCHANGED <<smap, inode, disk>>

Unlink(f) ==
  /\ Exists(f) /\ Opened(f) = {}
  /\ smap' = smap \ Freed(inode[f].start)
  /\ inode' = [inode EXCEPT ![f] = Nothing]
  /\ got' = <<>> /\ UNCHANGED <<file, disk>>

-----------------------------------------------------------------------------
(* do_rw: chunk after chunk through fsbuf.                                 *)

Pos(h) == file[h].pos
Inode(h) == inode[file[h].file]
FirstSect(h) == Pos(h) \div SECT

(* The last sector it looks at; of a read the size bounds it, of a write   *)
(* the run, by one sector too many.                                        *)
LastRead(h, n) == min((Pos(h) + n) \div SECT, Inode(h).size \div SECT)
LastWritten(h, n) == min((Pos(h) + n) \div SECT, RUN)

chunk(h, last) == min(last - FirstSect(h) + 1, CHUNK)

(* Mutant: the first sector is read from its start.                        *)
Offset_Zero(h) == 0

Offset(h) == Pos(h) % SECT

(* left is never made smaller (left -+ bytes): a round moves as much as    *)
(* is asked for altogether, as far as the chunk has room.                  *)
Bytes(n, sectors, offset) == min(n, sectors * SECT - offset)

(* The bytes of the disk a transfer meets, in the order it meets them; the *)
(* first round starts at the position, the others at a sector's start.     *)
Met(h, n, last) ==
  LET c == chunk(h, last)
      first == Bytes(n, c, Offset(h))
      more == Bytes(n, c, 0)
      moved == first + ((last - FirstSect(h)) \div c) * more
      from(r) == (Inode(h).start + FirstSect(h) + r * c) * SECT
  IN  IF last < FirstSect(h) THEN <<>>
      ELSE [k \in 1..moved |->
              IF k <= first THEN from(0) + Offset(h) + k - 1
              ELSE from(1 + (k - first - 1) \div more) + ((k - first - 1) % more)]

(* The size follows the position, of a read as well.                       *)
Advance(h, moved) ==
  LET pos == Pos(h) + moved IN
  /\ file' = [file EXCEPT ![h].pos = pos]
  /\ inode' = IF pos >= Inode(h).size THEN [inode EXCEPT ![file[h].file].size = pos]
              ELSE inode

Read(h, n) ==
  LET met == Met(h, n, LastRead(h, n)) IN
  /\ got' = [k \in DOMAIN met |-> disk[met[k]]]
  /\ Advance(h, Len(met))
  /\ UNCHANGED <<smap, disk>>

(* (over is quantified so that TLC works it out once.)                     *)
Write(h, n, v) ==
  LET met == Met(h, n, LastWritten(h, n)) IN
  \E over \in {{met[k] : k \in DOMAIN met}} :
    /\ disk' = [a \in Addresses |-> IF a \in over THEN v ELSE disk[a]]
    /\ Advance(h, Len(met))
    /\ got' = <<>> /\ UNCHANGED smap

-----------------------------------------------------------------------------
(* What the callers in this repository keep to, and what the code needs:   *)
(* a transfer fits into fsbuf at once, a read stays within the file, a     *)
(* write begins within it and ends within its run, and the files are few   *)
(* enough that no new run reaches cmd.tar's place.                         *)
OneChunk(h, last) == last - FirstSect(h) + 1 <= CHUNK
InFile(h, n) == Pos(h) + n <= Inode(h).size /\ OneChunk(h, LastRead(h, n))
InRun(h, n) ==
  /\ Pos(h) <= Inode(h).size /\ Pos(h) + n <= RUN * SECT
  /\ OneChunk(h, LastWritten(h, n))
BeforeTar == Free # {} /\ FirstFree + RUN <= TAR_BIT

Next ==
  \/ \E h \in Handle, f \in File :
       \/ BeforeTar /\ OpenCreates(h, f)
       \/ \E trunc \in BOOLEAN : OpenFinds(h, f, trunc)
  \/ \E h \in Handle : Close(h)
  \/ \E f \in File : Unlink(f)
  \/ \E h \in Handle, n \in Lengths :
       /\ file[h] # Closed
       /\ \/ InFile(h, n) /\ Read(h, n)
          \/ InRun(h, n) /\ \E v \in Data : Write(h, n, v)

Spec == Init /\ [][Next]_vars

-----------------------------------------------------------------------------
(* Properties.                                                             *)

(* A file has no more bytes than its run (do_rw), its sectors are marked   *)
(* as taken, and no other file nor the root directory has one of them:     *)
(* although alloc_smap_bit looks at one bit only, and do_unlink leaves     *)
(* marked the end of a run that meets a border of the map, any order of    *)
(* creating and removing keeps the runs apart.                             *)
SectorsOwned ==
  \A f \in File : Exists(f) =>
    /\ inode[f].size <= RUN * SECT
    /\ Run(inode[f].start) \subseteq smap
    /\ Run(inode[f].start) \cap ({0} \cup Run(1)) = {}
    /\ \A g \in File \ {f} : Exists(g) =>
         Run(inode[f].start) \cap Run(inode[g].start) = {}

(* Seen through its files the disk is a store of byte sequences: a read    *)
(* returns what was last written to its file at its position, whoever      *)
(* wrote it and whatever other files were created, written, truncated or   *)
(* removed in between (do_open, do_close, do_unlink, do_rw).               *)
Contents ==
  [f \in File |-> IF Exists(f) THEN [i \in 1..inode[f].size |-> disk[inode[f].start * SECT + i - 1]]
                  ELSE NoFile]
Abs == INSTANCE ByteFiles WITH content <- Contents, cursor <- file
ImplementsByteFiles == Abs!Spec
=============================================================================
