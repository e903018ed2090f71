# QiuOS in TLA+

QiuOS is a small 32-bit teaching kernel: a microkernel that schedules
processes and passes messages between them, and four server tasks above it
(terminal, system, hard disk, file system, and a memory manager that forks,
ends and replaces processes). This directory holds TLA+ modules translated from
its source, the TLC configurations that check them on small instances, and
proofs that TLAPS checks. The translation is from the code; where it and a
comment part, the code decides, and the difference is listed below.

Contents: 1 the system, 2 the modules, 3 the runs, 4 fairness and assumptions
on callers, 5 the proofs, 6 where code and comments part, 7 what is not
modelled, 8 the plan.

## 1. The system

| component | state | operations | talks to |
|---|---|---|---|
| message passing, `kernel/proc.c` | `p_flags`, `p_msg`, `p_recvfrom`, `p_sendto`, `has_int_msg`, `q_sending`/`next_sending` of each entry of `proc_table` | `sys_sendrec`: `send_msg`, `recv_msg`, `deadlock`, `block`, `unblock`; `info_task` from interrupts | everybody |
| scheduler and clock, `kernel/proc.c`, `kernel/clock.c` | `ticks`, `priority`, `p_proc_ready`, `k_reenter`, `tick` | `clock_handler`, `schedule` | message passing (who is runnable), terminal (`info_task`) |
| memory manager, `mm/` | flags, parent and registers in `proc_table`; `mm_msg` | FORK, EXIT, WAIT, EXEC | its callers, FS |
| file system, `fs/` | `filp` of each process, `file_desc_table`, `inode_table`; on disk the inode map, sector map, inodes and the root directory | OPEN, CLOSE, READ, WRITE, UNLINK, STAT, FORK, EXIT, RESUME_PROC | callers, MM, terminal, disk |
| terminal and keyboard, `kernel/tty.c`, `kernel/keyboard.c` | `kb_in` ring, `keyboard_pressed`, the reader of each terminal | `keyboard_handler`, `task_tty`, `tty_do_read`, `tty_do_write`, `tty_write` | clock, FS |
| disk driver, `kernel/hd.c` | `hdinfo` (open count, partition starts), controller registers | DEV_OPEN, DEV_CLOSE, DEV_IOCTL, DEV_READ, DEV_WRITE, `hd_handler` | FS, `info_task` |
| first start, `fs/fs.c` (`init_fs`, `mkfs`), `kernel/main.c` (`untar`) | the file system on disk | making it, extracting `cmd.tar` into it | FS, disk |
| system task, console, boot, library, shell, programs | see section 7 | | |

All interaction is by synchronous messages: a SEND blocks until its receiver
takes the message, a call is a SEND followed by a RECEIVE (`send_recv(BOTH,
...)`, two system calls with a preemption point between them), and an
interrupt is a pending bit (`has_int_msg`) plus a wake-up. Besides that, MM
writes into the process table entries of other processes and copies `filp`,
which FS reads.

What is hard here, and what each component must get right:

* **Message passing.** System calls run with interrupts enabled
  (`kernel.asm:315`), so `info_task` can run between two statements of
  `send_msg` or `recv_msg`. The queues, flags and fields of two processes must
  keep agreeing; no message goes to the wrong process; senders never wait in a
  circle; no notification is lost.
* **Scheduler.** Ticks are charged in calls as well, where nobody is
  rescheduled, and processes block before they have used up theirs. `schedule()`
  goes over the table with interrupts on when `block()` calls it: drivers wake and
  the clock charges while it searches. `do_fork` copies ticks. Everybody runnable
  must still get the processor.
* **Memory manager.** A caller may be anywhere between its SEND and its
  RECEIVE when MM reads and writes its entry. Exits, waits and adoptions come
  in any order; each child is reaped once, by a parent that waits.
* **File system.** Three tables of counts, changed by open, close, fork, exit
  and unlink in any order, decide when a slot is free and a file may go.
  Nothing but those counts protects an open file. The sector map is searched
  by one bit and changed by 2048; a transfer is cut into chunks with offsets at
  both ends; two files must not share a sector, and a read must return what was
  written.
* **Disk.** Every sector of a request has its interrupt, raised when the
  controller likes; waits and interrupts must stay in step, and the starts of
  partitions come from a chain of tables on the disk.
* **First start.** A power failure may cut off the extraction of `cmd.tar`
  between any two writes; the next start must finish it.
* **Terminal.** A reader is suspended in FS and resumed by a message that
  crosses the requests going the other way; keys arrive at any moment.

`PROJECT.json` lists these as hazards at their lines, each with the properties
that would catch it.

## 2. The modules

| module | models | extends or instantiates |
|---|---|---|
| `Rendezvous` | abstract: what message passing promises, one step per operation | |
| `Ipc` | `proc.c` and the system call path, cut where an interrupt can change what the rest of a call reads | instantiates `Rendezvous` |
| `Sched` | `schedule`, `clock_handler`, and who changes `ticks` and `p_flags` meanwhile | |
| `Family` | abstract: who lives, whose child it is, who is told of its end | |
| `Mm` | MM, the library functions that call it, the process table | instantiates `Family` |
| `Namespace` | abstract: names that lead to files, handles that stay on theirs | |
| `Files` | FS's tables, the inode map and the root directory | instantiates `Namespace` |
| `ByteFiles` | abstract: files as sequences of bytes, handles with a position | |
| `Store` | sector map, inodes, `do_rw` | instantiates `ByteFiles` |
| `Disk` | the driver, its client, the controller | |
| `Install` | `init_fs`, `mkfs`, `untar`, write by write, and power failures | |
| `Tty` | keyboard handler, ring, clock's wake-up, `task_tty`, FS as the way to it | |
| `IpcMC`, `SchedMC`, `MmMC`, `FilesMC`, `StoreMC`, `DiskMC`, `InstallMC`, `TtyMC` | values of the constants for TLC | the module of that name |
| `IpcProofs`, `SchedProofs`, `MmProofs`, `FilesProofs`, `StoreProofs`, `DiskProofs`, `InstallProofs`, `TtyProofs` | theorems | the module of that name, TLAPS |

**Ipc.** The variables carry the names of the fields. `pc` says where in a
call the kernel is, `peer` which process the call names. A call is cut only
where an interrupt matters: `send_msg` before its assert, copy, clearing and
wake-up (`SendAssert`, `SendCopy`, `SendClear`, `SendWake`), `recv_msg` between
its last look at `has_int_msg` and RECEIVING (`RecvMustWait`, `RecvSetFlag`,
`RecvSetFrom`), and before `block`. The linked list of senders is a sequence, a
message its `source`. The walk of `deadlock()` is defined through the least set
closed under "sends to"; `WalkAgrees` compares that with the loop of the code.

**Rendezvous.** Modes, partners, queues and pending notifications, each
operation one step; no processor, no kernel. `Ipc` maps onto it with `ModeOf`
and `PartnerOf`: a message changes hands at the copy, although the receiver
looks blocked two statements longer. The abstract state does not record what a
receiver asked for, so the refinement says that a message leaves its queue only
by a RECEIVE its owner could have made; that RECEIVE from ANY takes the oldest
is the order of the queue (`SendQueueExact`, `Append` in `Rendezvous!Enqueue`)
and the guard of `RecvCopy`.

**Sched.** `schedule()` entry by entry: `i` is the entry its loop is at, `greatest` its
`greatest_ticks`, and `p_proc_ready` is assigned as it goes. Called by `block()` it runs
with interrupts on, so between any two entries a driver may wake (`Interrupt`) and the
clock may charge the best entry so far (`TickCall`); called by `clock_handler` it is
under the mask of the clock, and only drivers wake. Why a process blocks or wakes is left
open. The manager writes the table of processes at user level: `Fork` copies the ticks of
the parent, who may be running, `SetFlags` stops, starts and releases entries. `waited`
and `woken` are history variables: `waited` counts the clock ticks somebody was passed
over since it last ran, was charged or a fork was made, and saturates behind the bound
that `BoundedWait` must stay under; `woken` holds the drivers woken since this
`schedule()` began.

**Mm.** Calls into the kernel are atomic here (`Ipc` has their inside); what interleaves
is MM with its callers. `do_fork` is cut between the registers and the flags of the
copied entry (`ForkRegs`, `ForkFlags`), `p_flags |= WAITING` between load and store
(`WaitLoad`, `WaitStore`), because a running process changes these words in its own
system calls. A request that was queued is served as `task_mm` does it, at once, while
its caller is only runnable again. `at` is where a process resumes: at user level, in
the second half of BOTH, behind it, or spinning in a failed assert.

**Family.** What processes expect of fork, exit and wait, without messages, flags or
half-done calls: each is one step, and so is the adoption of one orphan. `Mm` maps onto
it by the three flags that are MM's own (`States`, `Waiters`) and by `p_parent` of the
entries in use (`ParentsInUse`); the other two flags belong to the kernel's calls. A
child exists from the copy of the flags on, not from that of the registers, and a wait
begins with the store, not with the load.

**Files.** FS serves one request at a time and nobody else touches its tables, so a
request is one step. The exception is fork: MM copies `filp` (`CopyTable`) and FS hears
of it later (`FsFork`), with other requests between. The directory is kept entry by
entry, with its length, since searches look at the first `dir_size` entries only while
holes are filled from the front. `new_inode` sets the count of its slot to 1 whatever it
was (`NewInode`); that it was free is part of the proofs (`SlotsInUse`). Undefined
behaviour is a choice: `do_close` on a descriptor that somebody else closed works on a
null inode, and either its assert fails or it goes on.

**Namespace.** What processes expect of names and handles, without counts, tables or
places: where each name leads, what each process has open. `Files` maps onto it by
searching every name (`Naming`) and following every handle to its inode (`Opens`). A
child appears when FS hears of the fork, not at the copy of `filp`; the reference a
refused unlink leaves behind is not seen. Which name goes is the code's choice of entry
by inode number, and that it is the name asked for is part of the refinement.

**Store.** A sector is a bit of the sector map, a file a start and a size.
`FirstFree` is `alloc_smap_bit`, which looks at one bit and sets a run from
there; with no free bit it returns sector 0, the boot sector. `Freed` is the end of
`do_unlink`, which clears bytes of the map up to the last (`LastByte`) and may leave
the end of a run marked. `Met` lists the bytes of the disk that `do_rw`
meets, round by round: the first at the offset, the others at a sector's start,
each as long as what was asked for altogether (`left` is never lowered). Bytes
are values of `Data`. The handles here are those of `Files`, whose counts keep
a file that is open from being removed (`Unlink`'s guard); a chunk of `do_rw`
is `Disk`'s requests.

**ByteFiles.** What processes expect: reading returns the bytes at the
position, writing replaces or appends them, nobody else changes them. `Store`
maps onto it by reading the disk through start and size (`Contents`).

**Disk.** `task_hd` with its sequence of commands: identify, the tables of the first
open, the sectors of a request. The controller (external) answers in its own time: it
may be slow, it may run a timeout out, it raises its line after each sector.
`hd_identity` is called without its argument, so its command may go to a drive that is
not there (`SendCommandNobody`), and the start it writes goes to the entry of an unset
index (`hd.c:280`): where that is not drive 0, whose start is 0 already, it is outside
the model. A wait for an interrupt is two steps, as in `recv_msg`: the look at
`has_int_msg` (`InterruptWait`) and the block (`InterruptSleep`), and an interrupt
between the two is missed (`Missed`).

**Install.** One action is one write to the disk, with what FS keeps in memory beside
what is on disk (`root_inode` and `root`). A run of the sector map may lie in two of its
sectors, as that of the first file does (bits 2049 to 4096); then `alloc_smap_bit` is
two writes (`AllocSmapRest`), and `whole` has the runs of which both are done. `Crash`
keeps the disk and loses the rest.

**Tty.** The ring as an array with `p_tail` and a count, the two flags
(`keyboard_pressed` of the handler, `has_int_msg` of the kernel), the places of
the terminal task and of FS, and the process the terminal reads for. One
terminal, that of the current console. The ring holds codes: of "a character", "enter",
"backspace", "nothing" (releases, shift), and the prefixes E0 and E1, after which the
task takes as many codes as the sequence needs and spins until they are there
(`TtyCodes`). Which key a sequence is, is left open.

## 3. The runs

| run | instance | checks | shows |
|---|---|---|---|
| `ipc_races` | a driver, two processes, an idle one; interrupts anywhere | `TypeOK Consistent SendQueueExact NoSendCycle WalkAgrees Delivered SendsTaken` | whatever the interrupts do, fields agree, queues are exact, senders never form a circle, messages reach those they were meant for (receivers that take no interrupts), and nobody queued at a process that goes on receiving from ANY waits for ever |
| `ipc_quiet` | the same, no interrupt in a window | `NoAssertFails NoLostWakeup ImplementsRendezvous` | outside the windows the kernel implements `Rendezvous` and no assert fails |
| `ipc_lost_wakeup` | as `ipc_races` | `NoLostWakeup` violated | an interrupt between the look and the block is lost |
| `sched` | a driver, the manager, an idle process, a user and a free entry; refills of 1 and 2 ticks; `schedule()` interrupted at any entry | `RunsRunnable BoundedWait RefillOnlyWhenSpent NoStarvation` | between two forks nobody runnable is passed over for longer than twice the refills of the others; a refill begins only when all have spent their ticks |
| `mm_races` | Init and three slots, fork, exit, wait and exec, any interleaving | `TypeOK FamiliesWhole ReleasedToWaiter ImplementsFamily` | parents and children agree even when callers are not yet blocked; each child is reaped once, by a parent that waits; what MM does in many steps is one step of `Family` |
| `mm_fork_race` | Init and two slots, fork only | `ChildBlockedUntilReply` violated | the child of a caller that is not blocked yet runs before its memory is copied |
| `files` | two processes, tables of 2/2/3, five directory entries, careful callers | `HandlesCounted OpenFilesExist DirectoryWhole ImplementsNamespace` | counts protect open files over open, close, fork, exit and unlink in any order, the directory finds what it has, and names and handles mean what processes expect |
| `store` | two files, two handles, runs of two sectors of three bytes, a map of three sectors with a border inside a run and room for two created files | `SectorsOwned ImplementsByteFiles` | no two files share a sector; what is read is what was last written there |
| `disk` | three partitionings, a count register of two, requests of one to three sectors | `TypeOK TransferExact InStep Answered` | sectors go to the right place in order, interrupts and waits stay in step, requests the register can count are answered unless an interrupt falls into the window of `recv_msg` |
| `install` | an archive of three files, one of two pieces, the first one's run in two sectors of the map, three power failures | `InstalledWhenCleared MapsCoverFiles EventuallyInstalled` | the archive is marked as extracted only when all of it is there; nothing a name leads to is given out twice; the extraction ends |
| `tty` | two processes that take turns, a ring of 2, lines of 2 | `TypeOK AnswersOnlyCallers KeysInOrder CallsReturn PressNoticed` and no deadlock, which a panic would be | the wake-up and resume protocol works for one user at a time |
| `tty_deadlock` | two processes at once | `NoPanic` violated | FS and the terminal task send to each other and the kernel panics |

**Bounds and why they are enough.** Three processes beside an idle one are what a queue
of two, a cycle of three and a third party's interference need; in `Ipc` nothing
distinguishes more, and the proofs hold for any number. In `Mm` three slots are the
least with which all branches of `do_exit` are taken: a process exits whose parent is
not Init and that leaves a hanging child while Init waits. EXEC, which changes no parent
and no flag, is made by one of them (`Execs`). In `Sched` five entries are one of each
kind; the driver's comes first and the free one last, so that a driver can wake behind
the loop and before it. `Watched`, the processes whose waits are counted, is the idle
one, which the others can keep out longest; `WaitBounded` is proved for all of them. In
`Files` two descriptors, three slots and five entries let every table fill up, a slot
and a descriptor be used again, and two files beside cmd.tar leave holes below the last
entry; `CNT_BOUND` caps the references that refused unlinks leak, and the directory
stays within its first sector (`OpenCreates`). In `Store` the sectors, runs and bytes of
the map are cut down to the smallest sizes that keep their relations: a request begins
inside a sector and crosses into the next, a run crosses a byte of the map and ends at a
border of a sector of it, two runs fit in front of `cmd.tar`, so two created files are
there at once, and `cmd.tar` lies off the grid of the other runs but may be created on
it later. In `Disk` the chain of an extended partition is followed over two links and
cut off at the third, and a request of three sectors overflows the register. In
`Install` three failures let two cut off the same file and one the next. In `Tty` a ring
of two overflows and wraps, and a line of two is long enough for a backspace that counts
and one that does not. The invariants of all these runs are proved for every size
(section 5). `MaxDebt` in `Sched` bounds how far below zero the ticks charged in calls
may take a process; at 0, as here, a process can come out of a call with nothing left
and is charged once more before the next rescheduling. The proofs hold for any debt.

Deadlock is checked in `sched`, `store` and the two `tty` runs
(`tty_deadlock` stops at its violation). Elsewhere the machine may really stop:
a panic or a failed assert ends a behaviour, in `Files` a panic or the exit of
everybody does, in `Disk` a timeout or a request the register cannot count, and
`Install` is over when the archive is extracted.

## 4. Fairness and assumptions on callers

* `Ipc`: weak fairness of the kernel's own steps; a system call runs to its end.
* `Sched`: calls end (weak); strong fairness of the tick at user level, since
  the clock ticks at its own pace and finds the processor at user level again
  and again, but not at any given moment.
* `Sched!NoStarvation` excepts two behaviours the code leaves open, neither of which it
  bounds: forks without end, as a copy's ticks come from no refill; and a clock tick
  that falls into `schedule()`, over a call, again and again just while the process in
  question is its best entry so far, and takes a tick it did not have.
* `Tty`: weak fairness of each task, which is what `NoStarvation` gives one that stays
  runnable. Nobody has to make a call or press a key. `Tick` is the clock.
* `Mm` and `Store` have no liveness property, and no fairness.
* `Disk`: weak fairness of the task, of a raised line and of the controller,
  which goes on with a command it has. A client need not ask.
* `Install`: weak fairness of the next write; the power need not fail.
* For writes `CallsReturn` of `Tty` has the premise `TypingPauses`: `recv_msg` takes
  interrupts before requests (`proc.c:154`), so a key before each pass of the terminal
  task would keep writers out for ever. The premise also leaves out that the code a
  prefix announced never comes (`keyboard.c:53`); `PressNoticed` excepts it by name.
* `Disk!Answered` excepts `Missed`: an interrupt between the look at `has_int_msg` and
  the block leaves the driver asleep for ever, which is the finding of
  `ipc_lost_wakeup` met from above.

Some specifications and guards restrict the environment to what the code
needs. What happens without them is in section 6:

* `Ipc!QuietSpec`: no interrupt in the windows (`InWindow`).
* `Files!CarefulSpec`: handles are closed by their only holder, the root
  directory is not truncated, the last entry is not removed over a hole.
* `Store`: the guards in `Next`. A request fits into `fsbuf` at once
  (`OneChunk`), a read stays within its file (`InFile`), a write begins within
  its file and ends within its run (`InRun`), and a new run ends before the place
  mkfs gives `cmd.tar` (`BeforeTar`).
* `Disk`: the client opens the drive first, closes what is open, and asks for
  partitions that exist, as FS does; `Answered` is about requests the register
  can count.
* `Install!Crash`: not inside mkfs, and not between a new directory entry and
  the directory's new size. The names in the archive have no slash: `open` refuses one
  that has, and untar would return without marking the archive (`main.c:33-37`).
* `Tty!OneUserSpec`: one process at a time uses the terminal. Init's shells open one
  terminal each (`main.c:204-212`), but nothing in FS or the terminal task keeps two
  processes from one; what then becomes of the first reader (`tty.c:102-103`) no
  property says.

The constants have named assumptions, which TLC evaluates in every run. Most say that
sizes are positive. Of the others: the table of `Ipc` is finite, as the array it is, and
has its drivers and idle processes among its processes; in `Sched` the processes that
fork have one priority, as `kernel_main` gives it, and some process never blocks;
`Store` has a run smaller than a sector of the map and `cmd.tar` on the disk behind the
first run; in `Files` no file has the empty name, which `open` takes for the root
directory (`fs/open.c:277`); in `Disk` the chain of an extended partition begins where
the partition does and meets no table twice (`IsPartitioning`), as a partitioned disk
has it; in `Install` no two files of the archive have one name, and there is room for
them and for what each power failure may lose; in `Tty` the terminal task is none of the
users.

## 5. The proofs

Each module of proofs establishes an inductive invariant: the properties the
runs check, strengthened by what makes them preserved. TLC checked each invariant on the
instance of its run before it was proved. There is one lemma for each
action, and a theorem for each property. The theorems hold for every value of
the constants that the assumptions of section 4 admit: any number of processes, any sizes,
any partitioning, any archive. Those with a restricted specification or premise say so.

**Message passing** (`IpcProofs`), for any set of processes, drivers and idle
processes.

* `TypeCorrect`, `AssertsConsistent`, `QueuesExact`, `NoCycle`: `TypeOK`,
  `Consistent`, `SendQueueExact` and `NoSendCycle` are invariants of `Spec`, with
  interrupts anywhere. The inductive invariant is `IpcInv == TypeOK /\
  Consistent /\ SendQueueExact`. `Consistent` names, for each place in a call,
  what may be assumed of the caller and its peer; it carries the two windows as
  exceptions. `SendQueueExact` alone is not inductive: that `recv_msg` takes a
  process out of the one queue it is in needs the flags and `p_sendto` of
  `Consistent`. `NoSendCycle` adds a circle argument (`CycleTest`): a new link
  closes a circle only if `Deadlock` said so.
* `WalkCorrect`: `WalkAgrees`. What the loop of `deadlock()` visits is a sequence in
  which each process sends to the next (`IsWalk`). `NoSendCycle` lets no process occur
  twice, so in a finite table the walk ends (`WalkEnds`, the pigeonhole principle), and
  it has then met everybody in the closed set the model is defined by (`WalkMeets`).
* `QuietAsserts`, `QuietWakeups`: under `QuietSpec` no assert fails and no
  wake-up is lost. The strengthening `Undisturbed` says that nobody changes the
  peer of a half-done send or the caller of a half-done receive.
* `DeliveryCorrect`: `Delivered`, from `IpcInv` and `ReceiverHeld`, with interrupts
  anywhere. It is about all processes but the drivers: one that an interrupt wakes in
  the middle of a SEND to it may get two messages in one buffer.
* `Refinement`: `QuietSpec => ImplementsRendezvous`. Each kernel step is a step
  of `Rendezvous` or a stutter; the invariants used are `IpcInv`, `Undisturbed`,
  `StillAlone` (a receiver about to block has found nothing to take) and
  `SenderStamped`.

**Scheduler** (`SchedProofs`), for any table, priorities and debt, `schedule()`
interrupted at any entry. `TypeCorrect`, `AlwaysRunnable`, `RefillFair`: `TypeOK`,
`RunsRunnable` and `RefillOnlyWhenSpent`. `ScanInv` says what a scan has found so far:
`p_proc_ready` can run, and no runnable process behind it has more ticks, but for
drivers woken since. That is what makes the refill fair although the table changes
during the scan, and why `woken` is an exception it cannot do without.

`WaitBounded`: `BoundedWait`. While `p` waits, each clock tick takes one from what is
due to the others (`Due`: what they have left, and one tick of a process that holds the
processor with none). `Bound` says that `waited[p]` and the sum of `Due(p)` are together
at most one refill of the others while the refill of `p` is still to come, and two after
it; `TickWait` and `ScheduleWait` show it for the clock and for the loops of
`schedule()`, over the sum of a table (`TotalIsSum`, `TotalMonotonic`). A fork adds to
what is due, and a tick charged to `p` in the middle of `schedule()` may cost `p` its
turn; the wait is counted from the last of either.

**Memory manager** (`MmProofs`), for any number of slots.

* `TypeCorrect`, `Families`, `Released`: `TypeOK`, `FamiliesWhole` and
  `ReleasedToWaiter`, with callers preempted anywhere. `FamiliesWhole` alone is
  not inductive, because the manager works on entries whose owners run. `MmInv`
  adds where these can be: who is served is between its SEND and its RECEIVE or
  blocked there (`Served`), a queued caller has not changed since its SEND
  (`Queued`), the entry `do_fork` fills is nobody's (`Forking`), and which flags
  go with which (`Resting`, `Parents`). These hold although the flags of a
  caller are not what the code takes them for.
* `FamilyImplemented`: `Spec => ImplementsFamily`. Each step of the manager that
  changes one of its flags or a parent is a step of `Family` (`ForkIsFork`,
  `ExitIsExit`, `OrphanIsAdopt`, `ReapIsWait`, `StoreIsWait`), all others stutter.
  `MmInv` is needed for what the steps find: that `seen` is still what the caller's
  flags are but for the kernel's bits, that nobody hangs when the wait is stored, that
  who exits has a parent. `Gone` adds that whose orphans are handed over has ended.

**Descriptors, inodes, directory** (`FilesProofs`), under `CarefulSpec`, for any
number of processes and any size of the tables. `Counted`, `OpenOnesExist`,
`FilesKept`, `Directory`: `HandlesCounted`, `OpenFilesExist`,
`HandlesKeepTheirFile` and `DirectoryWhole`. That a descriptor in use has a handle on it
is part of `HandlesCounted`: none leaks, over any order of opens, forks and exits. The
counts are cardinalities of sets of handles
(`On`, `To`); for each request the proof says which handles it adds or removes.
`NamespaceImplemented`: `CarefulSpec => ImplementsNamespace`. `LookupFinds` says what a
search returns in a directory as `Named` has it, `OneEntry` and `OneHandle` that a
changed entry changes one name and a changed handle one place of `Opens`.
`FilesInv` adds that a child has its parent's handles until FS hears of the
fork (`Copied`), that inode map and directory agree (`Numbered`), and that entries
have different names and lie within the directory's length (`Named`). `SlotsInUse`,
proved beside it, says that a slot is kept for an inode in use only, so the slot
`new_inode` sets to 1 was 0.

**Sectors, reading and writing** (`StoreProofs`), for any sizes of sectors, runs
and maps.

* `OwnSectors`: `SectorsOwned`. Alone it is not inductive, as nothing in it
  makes 2047 of the bits `alloc_smap_bit` sets free. `StoreInv` says where files
  can be: on a grid of runs from the root directory's on (or, for `cmd.tar`,
  where mkfs put it), and that a set bit of the grid is the start of a file that
  is there (`GridUsed`). Then the first free bit is on the grid (`NewPlace`:
  below it all is set, and inside a taken run nothing is free), and a run
  beginning at a free bit of the grid meets no other, although `do_unlink` may
  have left the end of a run marked (`FreedPart`: it always clears the start).
  `OneRound` computes what `do_rw` moves when one round is enough.
* `ByteFilesImplemented`: `Spec => ImplementsByteFiles`, from `StoreInv`.
  `BytesApart` turns places of runs into places of bytes; each operation changes
  the content of its file as `ByteFiles` says and of no other.

**Disk driver** (`DiskProofs`), for any partitioning, requests of any length and any
width of the register. `TypeCorrect`, `InterruptsInStep`, `Exact`: `TypeOK`,
`InStep` and `TransferExact`. `DiskInv` says for each place of the task where
the controller is (`Ata`): whether the interrupt of the sector at hand is still
to come, raised, or taken (`Lines`, `Told`), and that the sectors moved and
those the controller has left make up the request (`Progress`). `Known` follows
the walk through the tables: behind it the starts are right. That the walk does not
write a start twice is what `IsPartitioning` is needed for.

**First start** (`InstallProofs`), for any archive and any number of power
failures. `MapsCover`, `Installed`: `MapsCoverFiles` and `InstalledWhenCleared`.
`InstallInv` rests on two facts: the directory is a beginning of the archive in
the archive's order (`Listed`), so a name is found where it belongs, and bits
are given out from below (`Given`), so a bit just taken is no other file's; a run that
spans two sectors of the map is whole (`whole`) before its inode is written. A
failure loses one bit of each map at most, which is why the room has to grow with
the failures. `Extracted` says what the present pass has written: all files
before the present one, and of that one what its size counts. The two places where a
failure is not survived (section 4) are those where `Blanks` and `Listed` break.

**Terminal** (`TtyProofs`).

* `TypeCorrect`, `KeysKept`: `TypeOK` and `KeysInOrder`, for any ring, any line and any
  number of users at once. `CellsApart` and `NextCell` compute with places
  modulo the ring's size: while the ring holds no more keys than it has cells,
  two keys are in two cells.
* `CallersAnswered`, `NoPanicAlone`: `AnswersOnlyCallers` and `NoPanic` under
  `OneUserSpec`. `OneUserInv` says where
  the one user can be (`InOnePlace`): in FS's queue, at FS, or suspended and known to
  the terminal task, which then owes him bytes or an answer. `NoPanic` is what
  `tty_deadlock` finds violated with two users at once.

`LeastNatural`, which several modules need for scans that look for the first of
something, is proved from the well-foundedness of the numbers. Sums over a table
and the loop of `deadlock()` need induction, and the library's induction theorems take
an operator, which no installed prover can instantiate; there the least
counterexample is looked for with `LeastNatural` instead.

Only model-checked: liveness (`SendsTaken`, `NoStarvation`, `CallsReturn`,
`PressNoticed`, `Answered`, `EventuallyInstalled`), which the prover has no
rules for.
Only proved: `HandlesKeepTheirFile`, which is part of `ImplementsNamespace`, and the
scheduler's `TypeOK`; no run spends time on them.

## 6. Where code and comments part

Three are runs that TLC finds violated, with the quotation in `PROJECT.json`.

* `ipc_lost_wakeup`: a notification is kept for a task that is not waiting, but
  `recv_msg` looks for it long before it blocks.
* `mm_fork_race`: `do_fork` copies the flags of a caller whose request was queued and
  who has not run since; the child is runnable at once, long before the SEND that is
  to unblock it.
* `tty_deadlock`: the terminal task's SEND to FS crosses FS's SEND to it.

The others are the reason for an assumption of section 4, a premise of a
property, or an inequality where one would expect an equation:

* Processes. Wait without children should return -1, but a released entry still
  counts as a child (`mm/exit.c:61`). `fork` should return -1 when it fails
  (`lib/usr/fork.c:15`), but a full process table makes its caller spin in an assert
  (`fork.c:25`). A caller that runs on while it is served may have its RECEIVING
  overwritten by MM's store of WAITING. These are in the model; no property says that
  a call comes back.
* Scheduler. `schedule()` may be interrupted between its scan and its refill, so a driver
  that wakes there is refilled with ticks left (the exception in `RefillOnlyWhenSpent`),
  and a child gets ticks by copy (the exceptions in `BoundedWait` and `NoStarvation`).
* Handles. `do_close` frees the descriptor whatever its count, and the other
  holder's read or write meets the assert of `do_rw`. A refused unlink keeps its
  reference to the inode (an inequality in `HandlesCounted`). Removing the last
  directory entry sets the directory's length to the number of entries before
  it, not to the place of the last of them.
* Sectors. With no free bit `alloc_smap_bit` returns 0 and the file begins at
  the boot sector; a run that reaches `cmd.tar`'s place overlaps it. `BeforeTar` keeps
  callers away from both.
* `do_rw`. `left -+ bytes` assigns nothing, so from a second chunk on too much
  is moved; a write is bounded by the run's length and not by its end; a read
  past the end makes the file longer, since the size follows the position of
  reads as well.
* Disk. A request of 256 sectors or more is cut in the 8-bit register while
  `hd_rw` waits for every sector of it. `hd_identity` gets no argument, and writes a
  start and a size at that index of `hdinfo`, which has one entry (`hd.c:280`).
* Power failures. The superblock is written first, and its magic number is all
  the next start asks for, so a failure inside mkfs leaves half a file system
  for a whole one. A failure between a new directory entry and the directory's
  size hides the entry, and the size stays one behind from then on.
* Terminal. The ring takes one code more than it holds (`KeysInOrder` is stated
  up to there); `tty_do_write` sends the stack behind a pointer, so `write()` on a
  terminal returns any count; one wake-up takes one key from the ring, so keys
  can stay there until the next is pressed; after a prefix the task spins for the next
  code, and serves nobody.

## 7. What is not modelled

* Directories of more than one sector, several consoles: planned, see below.
* Console output, key maps, formatting: layout. No property rests on them.
* System task: answers from tables it only reads.
* Boot, descriptor tables, interrupt controller, library functions: code without
  state of its own, or that runs once before the first process.
* Init, shell, programs: clients. The models let processes make their calls in
  any order; `kernel_main` and `init_fs` give the initial states. What Init does
  first, the extraction, is `Install`.
* Addresses and memory: `alloc_mem` computes a fixed place per entry.
* Not built, hence not modelled: `mm/wait.c`, `fs/close.c`, `kernel/untar.c`.

## 8. The plan

In the order of importance; 1 to 9 are done.

1. `Rendezvous`, `Ipc`: message passing, refinement.
2. `Sched`: scheduler.
3. `Family`, `Mm`: processes, refinement.
4. `Namespace`, `Files`: descriptors, inodes, directory, refinement.
5. `Tty`: terminal.
6. `Disk`: driver and controller.
7. `ByteFiles`, `Store`: sectors, reading and writing, refinement.
8. `Install`: first start and power failures.
9. Proofs for all of them: each safety property a run checks, each refinement.
10. A directory of several sectors with `search_file`'s buffer, in `Files`.
11. Several consoles in `Tty`.
