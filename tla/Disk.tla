-------------------------------- MODULE Disk --------------------------------
(***************************************************************************)
(* The hard disk driver (kernel/hd.c) between its client, the file system  *)
(* task, and the ATA controller, which answers in its own time and by      *)
(* interrupts.  Receiving and notifying are single steps, as in            *)
(* Rendezvous, but for the wait for an interrupt, which looks for it and   *)
(* goes to sleep in two (Ipc).  Data is told by where it comes from: a     *)
(* sector's number and its place in the client's buffer.  The drive is the *)
(* one of hdinfo[1], the controller is external: it does what the driver's *)
(* comments, polls and waits expect of one.                                *)
(***************************************************************************)
EXTENDS Integers, Sequences

CONSTANTS
  COUNTS,           \* values of the sector count register (256)
  NR_PART_PER_DIV,  \* entries of a partition table (4)
  NR_SUB_PER_PART,  \* logical partitions kept of an extended one (16)
  Drives,           \* partitionings the drive may have
  Positions,        \* sectors of a partition, from 0, that are asked for
  Lengths           \* sectors of a request

Slots == 1..NR_PART_PER_DIV
Links == 0..(NR_SUB_PER_PART - 1)
primary(i) == [part |-> i, sub |-> -1]     \* hd1, hd2, ...; hd0 is the drive
extend(i, j) == [part |-> i, sub |-> j]    \* hd1a, hd1b, ..., hd2a, ...
Devices == {primary(i) : i \in Slots \cup {0}} \cup {extend(i, j) : i \in Slots, j \in Links}

(* A partitioning says where things are: for each entry of the first table *)
(* its start and, if it is extended, the table and the start of each       *)
(* logical partition in it.  The chain of tables begins where the extended *)
(* partition does and meets no table twice.                                *)
IsUsed(d, i) == d[i].kind # "none"
IsExtended(d, i) == d[i].kind = "extended"
IsPartitioning(d) ==
  /\ d \in [Slots -> [kind : {"none", "primary", "extended"}, start : Nat,
                     logical : Seq([table : Nat, start : Nat])]]
  /\ \A i \in Slots : ~ IsExtended(d, i) => d[i].logical = <<>>
  /\ \A i \in Slots : IsExtended(d, i) =>
       LET l == d[i].logical
       IN  /\ l # <<>> /\ l[1].table = d[i].start
           /\ \A a, b \in DOMAIN l : l[a].table = l[b].table => a = b

ASSUME DiskAssumption ==
  /\ COUNTS \in Nat \ {0}
  /\ NR_PART_PER_DIV \in Nat \ {0} /\ NR_SUB_PER_PART \in Nat \ {0}
  /\ \A d \in Drives : IsPartitioning(d)
  /\ Positions \subseteq Nat /\ Lengths \subseteq Nat \ {0}

StartOf(d, dev) ==
  CASE dev = primary(0) -> 0
    [] dev.part \in Slots /\ dev.sub = -1 -> d[dev.part].start
    [] OTHER -> d[dev.part].logical[dev.sub + 1].start
Exists(d, dev) ==
  \/ dev = primary(0)
  \/ dev.part \in Slots /\ IsUsed(d, dev.part) /\ dev.sub < Len(d[dev.part].logical)

(* The tables on the drive: a logical partition is written relative to its *)
(* table, the next table relative to the start of the extended partition.  *)
Table(d, i, s) ==
  LET l == d[i].logical
      j == CHOOSE k \in DOMAIN l : l[k].table = s
  IN  [base |-> l[j].start - s,
       more |-> j < Len(l),
       next |-> IF j < Len(l) THEN l[j + 1].table - d[i].start ELSE 0]

VARIABLES
  drive,                   \* the partitioning of the disk
  pc,                      \* where task_hd is
  doing,                   \* the command it sent: "identify", "mbr", "ebr", "rw"
  req, asked,              \* the request, and whether the client waits for it
  geo,                     \* the answer to an ioctl
  k,                       \* sectors of the request that are done
  open_cnt, base,          \* hdinfo[0]: partition starts, -1 when not known
  ext, link, s,            \* partition(): the entry, the link, the table's sector
  has_int_msg,             \* a notification that is not yet taken
  ata,                     \* the controller
  irq,                     \* it has raised its line
  moved                    \* history: <<sector, place in the buffer>> transferred

hdinfo == <<open_cnt, base>>
chain == <<ext, link, s>>
client == <<req, asked, geo>>
vars == <<drive, pc, doing, client, k, hdinfo, chain, has_int_msg, ata, irq, moved>>

NoRequest == [type |-> "none", dev |-> primary(0), pos |-> 0, count |-> 0]
Quiet == [status |-> "idle", cmd |-> "none", at |-> 0, left |-> 0, data |-> 0]

(* init_hd clears hdinfo: hd0 starts at 0.  The drive may still be         *)
(* starting up when the machine does.                                      *)
Init ==
  /\ drive \in Drives
  /\ pc = "main" /\ doing = "rw"
  /\ req = NoRequest /\ asked = FALSE /\ geo = -1 /\ k = 0
  /\ open_cnt = 0 /\ base = [dev \in Devices |-> IF dev = primary(0) THEN 0 ELSE -1]
  /\ ext = 0 /\ link = 0 /\ s = 0
  /\ has_int_msg = FALSE
  /\ ata \in {Quiet, [Quiet EXCEPT !.status = "busy"]} /\ irq = FALSE
  /\ moved = <<>>

-----------------------------------------------------------------------------
(* The controller.                                                         *)

(* After a start-up, and for the first sector of a write, it only drops    *)
(* its busy bit; the driver polls for that.                                *)
AtaReady ==
  /\ ata.status = "busy" /\ ata.cmd \in {"none", "WRITE"} /\ ata.data = 0
  /\ ata' = [ata EXCEPT !.status = IF ata.cmd = "none" THEN "idle" ELSE "drq"]
  /\ UNCHANGED <<drive, pc, doing, client, k, hdinfo, chain, has_int_msg, irq, moved>>

(* A sector to be read lies ready.                                         *)
AtaFetched ==
  /\ ata.status = "busy" /\ ata.cmd \in {"READ", "IDENTIFY"}
  /\ ata' = [ata EXCEPT !.status = "drq"]
  /\ irq' = TRUE
  /\ UNCHANGED <<drive, pc, doing, client, k, hdinfo, chain, has_int_msg, moved>>

Advance(a) ==
  [a EXCEPT !.at = @ + 1, !.left = @ - 1, !.data = 0,
            !.status = IF a.left = 1 THEN "idle" ELSE IF a.cmd = "WRITE" THEN "drq" ELSE "busy"]

(* A sector it was given is on the disk.                                   *)
AtaStored ==
  /\ ata.status = "busy" /\ ata.cmd = "WRITE" /\ ata.data # 0
  /\ moved' = Append(moved, <<ata.at, ata.data>>)
  /\ ata' = Advance(ata)
  /\ irq' = TRUE
  /\ UNCHANGED <<drive, pc, doing, client, k, hdinfo, chain, has_int_msg>>

Controller == AtaReady \/ AtaFetched \/ AtaStored

(* Mutant: only a task that sleeps already is notified.                    *)
hd_handler_Drops ==
  /\ irq /\ irq' = FALSE
  /\ pc' = IF pc = "asleep" THEN "woken" ELSE pc
  /\ UNCHANGED <<drive, doing, client, k, hdinfo, chain, has_int_msg, ata, moved>>

(* hd_handler reads the status, which takes the line back, and notifies    *)
(* the task (info_task).                                                   *)
hd_handler ==
  /\ irq /\ irq' = FALSE
  /\ IF pc = "asleep"
     THEN pc' = "woken" /\ UNCHANGED has_int_msg
     ELSE has_int_msg' = TRUE /\ UNCHANGED pc
  /\ UNCHANGED <<drive, doing, client, k, hdinfo, chain, ata, moved>>

-----------------------------------------------------------------------------
(* The client: rw_sector and the other messages FS sends, each a SEND and  *)
(* a RECEIVE (Rendezvous).  It opens the drive first and closes no drive   *)
(* that is not open; a partition it uses exists.                           *)
Requests ==
  [type : {"open", "close"}, dev : {primary(0)}, pos : {0}, count : {0}]
    \cup [type : {"ioctl"}, dev : Devices, pos : {0}, count : {0}]
    \cup [type : {"READ", "WRITE"}, dev : Devices, pos : Positions, count : Lengths]

Ask(r) ==
  /\ ~ asked
  /\ r.type # "open" => open_cnt > 0 /\ Exists(drive, r.dev)
  /\ req' = r /\ asked' = TRUE
  /\ UNCHANGED <<drive, pc, doing, geo, k, hdinfo, chain, has_int_msg, ata, irq, moved>>

-----------------------------------------------------------------------------
(* The task.                                                               *)

(* RECEIVE from ANY takes a notification first; task_hd has no case for it *)
(* and spins.                                                              *)
Receive ==
  /\ pc = "main" /\ (has_int_msg \/ asked)
  /\ pc' = IF has_int_msg THEN "spin" ELSE req.type
  /\ has_int_msg' = FALSE
  /\ UNCHANGED <<drive, doing, client, k, hdinfo, chain, ata, irq, moved>>

Command(what) == doing' = what /\ pc' = "command"

Open ==
  /\ pc = "open" /\ Command("identify")
  /\ UNCHANGED <<drive, client, k, hdinfo, chain, has_int_msg, ata, irq, moved>>

Close ==
  /\ pc = "close"
  /\ open_cnt' = open_cnt - 1 /\ pc' = "answer"
  /\ UNCHANGED <<drive, doing, client, k, base, chain, has_int_msg, ata, irq, moved>>

Ioctl ==
  /\ pc = "ioctl"
  /\ geo' = base[req.dev] /\ pc' = "answer"
  /\ UNCHANGED <<drive, doing, req, asked, k, hdinfo, chain, has_int_msg, ata, irq, moved>>

ReadWrite ==
  /\ pc \in {"READ", "WRITE"} /\ Command("rw")
  /\ UNCHANGED <<drive, client, k, hdinfo, chain, has_int_msg, ata, irq, moved>>

(* send_cmd_ata0: polls the busy bit, at most HD_TIMEOUT long.             *)
CommandTimeout ==
  /\ pc = "command" /\ ata.status = "busy"
  /\ pc' = "panic"
  /\ UNCHANGED <<drive, doing, client, k, hdinfo, chain, has_int_msg, ata, irq, moved>>

(* The register is 8 bits wide (sector_num is a u8); 0 stands for 256.     *)
Sectors(n) == IF n % COUNTS = 0 THEN COUNTS ELSE n % COUNTS

ToDo ==
  CASE doing = "identify" -> [cmd |-> "IDENTIFY", at |-> 0, n |-> 1]
    [] doing = "mbr" -> [cmd |-> "READ", at |-> 0, n |-> 1]
    [] doing = "ebr" -> [cmd |-> "READ", at |-> s, n |-> 1]
    [] doing = "rw" -> [cmd |-> req.type, at |-> base[req.dev] + req.pos, n |-> req.count]

SendCommand ==
  /\ pc = "command" /\ ata.status # "busy"
  /\ ata' = [status |-> "busy", cmd |-> ToDo.cmd, at |-> ToDo.at,
             left |-> Sectors(ToDo.n), data |-> 0]
  /\ pc' = IF ToDo.cmd = "WRITE" THEN "poll" ELSE "wait"
  /\ UNCHANGED <<drive, doing, client, k, hdinfo, chain, has_int_msg, irq, moved>>

(* task_hd calls hd_identity without its argument, so the command may also *)
(* go to a drive that is not there.                                        *)
SendCommandNobody ==
  /\ pc = "command" /\ ata.status # "busy" /\ doing = "identify"
  /\ pc' = "wait"
  /\ UNCHANGED <<drive, doing, client, k, hdinfo, chain, has_int_msg, ata, irq, moved>>

(* interrupt_wait: recv_msg looks for a notification that has come,        *)
InterruptWait ==
  /\ pc = "wait"
  /\ IF has_int_msg
     THEN has_int_msg' = FALSE /\ pc' = "woken"
     ELSE pc' = "blocking" /\ UNCHANGED has_int_msg
  /\ UNCHANGED <<drive, doing, client, k, hdinfo, chain, ata, irq, moved>>

(* and does not look again when it goes to sleep: one that has come in     *)
(* between wakes nobody.                                                   *)
InterruptSleep ==
  /\ pc = "blocking" /\ pc' = "asleep"
  /\ UNCHANGED <<drive, doing, client, k, hdinfo, chain, has_int_msg, ata, irq, moved>>

(* port_read: what the controller holds, if it holds anything; the rest of *)
(* the command goes on.                                                    *)
Held == IF ata.status = "drq" THEN ata.at ELSE -1
PortRead == ata' = IF ata.status = "drq" THEN Advance(ata) ELSE ata

(* hd_identity, then hd_open, which reads the tables the first time.  The  *)
(* start hd_identity writes is the 0 that is there, if the argument it did *)
(* not get happens to be the drive's number, and else it goes elsewhere.   *)
Identified ==
  /\ pc = "woken" /\ doing = "identify" /\ PortRead
  /\ IF open_cnt = 0
     THEN open_cnt' = 1 /\ Command("mbr")
     ELSE pc' = "answer" /\ UNCHANGED <<open_cnt, doing>>
  /\ UNCHANGED <<drive, client, k, base, chain, has_int_msg, irq, moved>>

(* partition: on to the first table of the next extended partition.        *)
NextExtended(i) ==
  LET more == {j \in Slots : j > i /\ IsExtended(drive, j)}
      j == CHOOSE x \in more : \A y \in more : x <= y
  IN  IF more = {}
      THEN pc' = "answer" /\ UNCHANGED <<doing, chain>>
      ELSE Command("ebr") /\ ext' = j /\ link' = 0 /\ s' = drive[j].start

ReadMbr ==
  /\ pc = "woken" /\ doing = "mbr" /\ PortRead
  /\ base' = [dev \in Devices |->
                IF dev.part \in Slots /\ dev.sub = -1 /\ IsUsed(drive, dev.part)
                THEN drive[dev.part].start ELSE base[dev]]
  /\ NextExtended(0)
  /\ UNCHANGED <<drive, client, k, open_cnt, has_int_msg, irq, moved>>

(* Mutant: a logical partition is taken to be relative to the extended one. *)
ReadEbr_FromStart ==
  LET t == Table(drive, ext, s)
  IN  /\ pc = "woken" /\ doing = "ebr" /\ PortRead
      /\ base' = [base EXCEPT ![extend(ext, link)] = drive[ext].start + t.base]
      /\ IF t.more /\ link + 1 \in Links
         THEN /\ Command("ebr") /\ link' = link + 1
              /\ s' = drive[ext].start + t.next /\ UNCHANGED ext
         ELSE NextExtended(ext)
      /\ UNCHANGED <<drive, client, k, open_cnt, has_int_msg, irq, moved>>

(* Mutant: the chain is followed to its end, however long it is.           *)
ReadEbr_NoBound ==
  LET t == Table(drive, ext, s)
  IN  /\ pc = "woken" /\ doing = "ebr" /\ PortRead
      /\ base' = [base EXCEPT ![extend(ext, link)] = s + t.base]
      /\ IF t.more
         THEN /\ Command("ebr") /\ link' = link + 1
              /\ s' = drive[ext].start + t.next /\ UNCHANGED ext
         ELSE NextExtended(ext)
      /\ UNCHANGED <<drive, client, k, open_cnt, has_int_msg, irq, moved>>

ReadEbr ==
  LET t == Table(drive, ext, s)
  IN  /\ pc = "woken" /\ doing = "ebr" /\ PortRead
      /\ base' = [base EXCEPT ![extend(ext, link)] = s + t.base]
      /\ IF t.more /\ link + 1 \in Links
         THEN /\ Command("ebr") /\ link' = link + 1
              /\ s' = drive[ext].start + t.next /\ UNCHANGED ext
         ELSE NextExtended(ext)
      /\ UNCHANGED <<drive, client, k, open_cnt, has_int_msg, irq, moved>>

(* hd_rw: one sector after the other, each with its interrupt.             *)
Done(n) == n = req.count

ReadSector ==
  /\ pc = "woken" /\ doing = "rw" /\ req.type = "READ" /\ PortRead
  /\ moved' = Append(moved, <<Held, k + 1>>)
  /\ k' = k + 1
  /\ pc' = IF Done(k + 1) THEN "answer" ELSE "wait"
  /\ UNCHANGED <<drive, doing, client, hdinfo, chain, has_int_msg, irq>>

PollTimeout ==
  /\ pc = "poll" /\ ata.status # "drq"
  /\ pc' = "panic"
  /\ UNCHANGED <<drive, doing, client, k, hdinfo, chain, has_int_msg, ata, irq, moved>>

(* Mutant: the last sector's interrupt is not waited for.                  *)
PortWrite_NoLastWait ==
  /\ pc = "poll" /\ ata.status = "drq"
  /\ ata' = [ata EXCEPT !.data = k + 1, !.status = "busy"]
  /\ pc' = IF Done(k + 1) THEN "answer" ELSE "wait"
  /\ UNCHANGED <<drive, doing, client, k, hdinfo, chain, has_int_msg, irq, moved>>

PortWrite ==
  /\ pc = "poll" /\ ata.status = "drq"
  /\ ata' = [ata EXCEPT !.data = k + 1, !.status = "busy"]
  /\ pc' = "wait"
  /\ UNCHANGED <<drive, doing, client, k, hdinfo, chain, has_int_msg, irq, moved>>

WriteNext ==
  /\ pc = "woken" /\ doing = "rw" /\ req.type = "WRITE"
  /\ k' = k + 1
  /\ pc' = IF Done(k + 1) THEN "answer" ELSE "poll"
  /\ UNCHANGED <<drive, doing, client, hdinfo, chain, has_int_msg, ata, irq, moved>>

(* What a request leaves behind is never looked at again.                  *)
Reply ==
  /\ pc = "answer" /\ pc' = "main"
  /\ asked' = FALSE /\ req' = NoRequest /\ geo' = -1
  /\ k' = 0 /\ moved' = <<>>
  /\ UNCHANGED <<drive, doing, hdinfo, chain, has_int_msg, ata, irq>>

-----------------------------------------------------------------------------
Task == \/ Receive \/ Open \/ Close \/ Ioctl \/ ReadWrite
        \/ CommandTimeout \/ SendCommand \/ SendCommandNobody \/ InterruptWait \/ InterruptSleep
        \/ Identified \/ ReadMbr \/ ReadEbr \/ ReadSector
        \/ PollTimeout \/ PortWrite \/ WriteNext \/ Reply

Next == Controller \/ hd_handler \/ Task \/ \E r \in Requests : Ask(r)

(* The task gets the processor (Sched!NoStarvation), a raised line is      *)
(* served, the controller goes on with a command it has.                   *)
Fairness == WF_vars(Controller) /\ WF_vars(hd_handler) /\ WF_vars(Task)

Spec == Init /\ [][Next]_vars /\ Fairness

-----------------------------------------------------------------------------
TypeOK ==
  /\ drive \in Drives
  /\ pc \in {"main", "open", "close", "ioctl", "READ", "WRITE", "command", "poll",
             "wait", "blocking", "asleep", "woken", "answer", "panic", "spin"}
  /\ doing \in {"identify", "mbr", "ebr", "rw"}
  /\ req \in Requests \cup {NoRequest} /\ asked \in BOOLEAN
  /\ geo \in Int /\ k \in Nat /\ open_cnt \in Nat
  /\ base \in [Devices -> Int]
  /\ ext \in Slots \cup {0} /\ link \in Links /\ s \in Nat
  /\ has_int_msg \in BOOLEAN /\ irq \in BOOLEAN
  /\ ata \in [status : {"idle", "busy", "drq"}, at : Int, left : Nat, data : Nat,
              cmd : {"none", "READ", "WRITE", "IDENTIFY"}]
  /\ moved \in Seq(Int \X Nat)

(* When a request is answered, every sector of it, and no other, has gone  *)
(* to or come from its place, in order, whatever the controller's timing:  *)
(* the partition's start was read off its chain of tables rightly and no   *)
(* sector was fetched before the controller had it (hd_rw, partition).     *)
TransferExact ==
  pc = "answer" =>
    /\ req.type \in {"READ", "WRITE"} =>
         moved = [i \in 1..req.count |-> <<StartOf(drive, req.dev) + req.pos + i - 1, i>>]
    /\ req.type = "ioctl" => geo = StartOf(drive, req.dev)

(* Interrupts and waits for them keep in step: there is never more than    *)
(* one on its way, and none is left over when the task listens to its      *)
(* clients again, where it would make it spin for ever (hd.c:261).         *)
InStep ==
  /\ ~ (irq /\ has_int_msg)
  /\ pc \in {"main", "answer", "command", "poll"} => ~ irq /\ ~ has_int_msg
  /\ pc \in {"main", "answer", "command"} => ata.left = 0
  /\ pc # "spin"

(* The driver sleeps on an interrupt that came while it went to sleep.     *)
Missed == pc = "asleep" /\ has_int_msg

(* A read or write of at most COUNTS sectors is answered, however the      *)
(* interrupts and the waits fall: all that can keep it from its answer is  *)
(* an interrupt between the look for one and the sleep (proc.c:154, 236,   *)
(* the window ipc_lost_wakeup shows), and the drive letting the driver's   *)
(* timeouts run out, which stops the machine.                              *)
Answered ==
  (pc \in {"READ", "WRITE"} /\ req.count <= COUNTS) ~> (pc \in {"answer", "panic"} \/ Missed)
=============================================================================
