----------------------------- MODULE DiskProofs -----------------------------
(***************************************************************************)
(* Proofs about Disk, for every partitioning, every size of the tables and *)
(* every width of the count register.  DiskInv says, for each place of the *)
(* task, where the controller is: whether its interrupt is still to come,  *)
(* on its way or taken, how many sectors it has left, and which of the     *)
(* partitions are known.                                                   *)
(***************************************************************************)
EXTENDS Disk, WellFoundedInduction, TLAPS

(* Scans find the first of what they look for: a set of natural numbers    *)
(* has a least one.                                                        *)
LEMMA LeastNatural ==
  ASSUME NEW T \in SUBSET Nat, T # {}
  PROVE  \E m \in T : \A n \in T : m <= n
<1> DEFINE R == OpToRel(<, Nat)
<1>1. IsWellFoundedOn(R, Nat)
  BY NatLessThanWellFounded
<1>2. ASSUME NEW j \in Nat, NEW n \in Nat, n < j PROVE <<n, j>> \in R
  BY <1>2 DEF R, OpToRel
<1> HIDE DEF R
<1>3. PICK m \in T : \A n \in T : <<n, m>> \notin R
  BY <1>1, WFMin, Zenon
<1>4. ASSUME NEW n \in T PROVE m <= n
  <2>1. ~ (n < m)
    BY <1>2, <1>3
  <2>2. m \in Nat /\ n \in Nat
    OBVIOUS
  <2>3. QED
    BY <2>1, <2>2
<1>5. QED
  BY <1>4

(* The task is in a transfer: it polls, waits or has been woken.           *)
Busy == pc \in {"poll", "wait", "blocking", "asleep", "woken"}
Moving == doing = "rw" /\ Busy
Opening == doing \in {"mbr", "ebr"} /\ pc \in {"command", "wait", "blocking", "asleep", "woken", "panic"}
(* The controller has raised its interrupt for the sector at hand.         *)
Told == irq \/ has_int_msg \/ pc = "woken"
Writing == doing = "rw" /\ req.type = "WRITE"

(* What the task is at belongs to the request it has received; but for     *)
(* opening, the drive is open.                                             *)
Served ==
  /\ ~ asked => pc = "main" /\ req = NoRequest
  /\ asked => req \in Requests
  /\ pc \in {"open", "close", "ioctl", "READ", "WRITE"} => req.type = pc
  /\ Busy \/ pc = "command" =>
       IF doing = "rw" THEN req.type \in {"READ", "WRITE"} ELSE req.type = "open"
  /\ pc = "poll" => Writing
  /\ asked /\ req.type # "open" /\ ~ (req.type = "close" /\ pc = "answer") =>
       open_cnt > 0 /\ Exists(drive, req.dev)
  /\ pc # "spin"

(* An interrupt is raised or kept only while the task is to wait for it.   *)
Lines ==
  /\ ~ (irq /\ has_int_msg)
  /\ has_int_msg => pc \in {"wait", "blocking", "asleep"}
  /\ irq => pc \in {"wait", "blocking", "asleep"}

(* The controller: what its registers say of each other, and where it is   *)
(* when the task is at each of its places.  A request that the register    *)
(* cannot count, or an identification nobody got, leaves it idle.          *)
Ata ==
  /\ ata.status = "idle" => ata.left = 0
  /\ ata.status = "drq" => ata.left > 0 /\ ata.data = 0 /\ ata.cmd # "none"
  /\ ata.status = "busy" => ata.left > 0 \/ ata.cmd = "none"
  /\ ata.cmd = "none" => ata.left = 0 /\ ata.data = 0
  /\ ata.data # 0 => ata.status = "busy" /\ ata.cmd = "WRITE"
  /\ ~ Busy /\ pc # "panic" => ata.left = 0
  /\ pc = "panic" => ata.cmd \in {"none", "WRITE"} /\ ata.data = 0
  /\ Moving => ata.cmd = req.type
  /\ pc = "poll" => ata.data = 0
  /\ Busy /\ doing # "rw" => ata.left <= 1
  /\ Told /\ ~ Writing => ata.status = "drq" /\ ata.cmd \in {"READ", "IDENTIFY"}
  /\ Told /\ Writing => ata.status # "busy" /\ ata.data = 0
  /\ pc \in {"wait", "blocking", "asleep"} /\ ~ Told =>
       IF Writing THEN ata.status = "busy" /\ ata.data = k + 1
       ELSE ata.left = 0 \/ (ata.status = "busy" /\ ata.cmd \in {"READ", "IDENTIFY"})

(* The sectors moved so far, those the controller still has to move, and   *)
(* the ones the task has counted, belong together.                         *)
Progress ==
  LET start == StartOf(drive, req.dev) + req.pos
      n == Len(moved)
  IN  /\ ~ (Moving \/ pc \in {"answer", "panic"}) => k = 0 /\ n = 0
      /\ Moving => /\ k < req.count
                   /\ n = IF Writing /\ Told THEN k + 1 ELSE k
                   /\ ata.at = start + n
                   /\ ata.left = Sectors(req.count) - n
      /\ req.type \in {"READ", "WRITE"} => \A i \in 1..n : moved[i] = <<start + i - 1, i>>
      /\ pc = "answer" /\ req.type \in {"READ", "WRITE"} => n = req.count
      /\ pc = "answer" /\ req.type = "ioctl" => geo = StartOf(drive, req.dev)

(* The partitions known when the tables before link l of entry e are read. *)
ReadOff(dev, e, l) ==
  \/ dev.sub = -1
  \/ dev.part < e
  \/ dev.part = e /\ dev.sub < l

(* Once the drive is open and its tables are read, every partition's start *)
(* is known; before, those whose entry has been read.                      *)
Known ==
  /\ open_cnt > 0 /\ ~ Opening =>
       \A dev \in Devices : Exists(drive, dev) => base[dev] = StartOf(drive, dev)
  /\ base[primary(0)] = 0
  /\ Opening /\ doing = "ebr" =>
       /\ ext \in Slots /\ IsExtended(drive, ext) /\ link < Len(drive[ext].logical)
       /\ s = drive[ext].logical[link + 1].table
       /\ \A dev \in Devices : Exists(drive, dev) /\ ReadOff(dev, ext, link) => base[dev] = StartOf(drive, dev)

Controllers == [status : {"idle", "busy", "drq"}, at : Int, left : Nat, data : Nat,
                cmd : {"none", "READ", "WRITE", "IDENTIFY"}]

DiskInv == TypeOK /\ Served /\ Lines /\ Ata /\ Progress /\ Known

LEMMA RequestFields ==
  ASSUME NEW r \in Requests \cup {NoRequest}
  PROVE  /\ r.type \in {"none", "open", "close", "ioctl", "READ", "WRITE"}
         /\ r.dev \in Devices /\ r.pos \in Nat /\ r.count \in Nat
         /\ r.type \in {"READ", "WRITE"} => r.count > 0
<1>1. primary(0) \in Devices
  BY DEF Devices
<1>2. CASE r = NoRequest
  BY <1>1, <1>2 DEF NoRequest
<1>3. CASE r \in [type : {"open", "close"}, dev : {primary(0)}, pos : {0}, count : {0}]
  BY <1>1, <1>3
<1>4. CASE r \in [type : {"ioctl"}, dev : Devices, pos : {0}, count : {0}]
  BY <1>4
<1>5. CASE r \in [type : {"READ", "WRITE"}, dev : Devices, pos : Positions, count : Lengths]
  <2>1. r.type \in {"READ", "WRITE"} /\ r.dev \in Devices /\ r.pos \in Positions /\ r.count \in Lengths
    BY <1>5
  <2>2. r.pos \in Nat /\ r.count \in Nat \ {0}
    BY <2>1, DiskAssumption
  <2>3. QED
    BY <2>1, <2>2
<1>6. QED
  BY <1>2, <1>3, <1>4, <1>5 DEF Requests

LEMMA Requested ==
  ASSUME NEW r \in Requests
  PROVE  r.type # "none"
BY DEF Requests

(* The controller after a sector.                                          *)
LEMMA Advanced ==
  ASSUME NEW a \in Controllers, a.left > 0
  PROVE  /\ Advance(a) \in Controllers
         /\ Advance(a).at = a.at + 1 /\ Advance(a).left = a.left - 1
         /\ Advance(a).data = 0 /\ Advance(a).cmd = a.cmd
         /\ Advance(a).status = IF a.left = 1 THEN "idle"
                                ELSE IF a.cmd = "WRITE" THEN "drq" ELSE "busy"
<1>1. /\ Advance(a).at = a.at + 1 /\ Advance(a).left = a.left - 1
         /\ Advance(a).data = 0 /\ Advance(a).cmd = a.cmd
         /\ Advance(a).status = IF a.left = 1 THEN "idle"
                                ELSE IF a.cmd = "WRITE" THEN "drq" ELSE "busy"
  BY DEF Advance, Controllers
<1>2. Advance(a) \in Controllers
  <2> DEFINE a1 == [a EXCEPT !.at = a.at + 1]
             a2 == [a1 EXCEPT !.left = a.left - 1]
             a3 == [a2 EXCEPT !.data = 0]
             st == IF a.left = 1 THEN "idle" ELSE IF a.cmd = "WRITE" THEN "drq" ELSE "busy"
  <2>1. a1 \in Controllers
    BY DEF Controllers
  <2>2. a2 \in Controllers
    <3> HIDE DEF a1
    <3>1. QED
      BY <2>1 DEF Controllers
  <2>3. a3 \in Controllers
    <3> HIDE DEF a2
    <3>1. QED
      BY <2>2 DEF Controllers
  <2>4. [a3 EXCEPT !.status = st] \in Controllers
    <3> HIDE DEF a3
    <3>1. QED
      BY <2>3 DEF Controllers
  <2>5. Advance(a) = [a3 EXCEPT !.status = st]
    BY DEF Advance, Controllers
  <2>6. QED
    BY <2>4, <2>5
<1>3. QED
  BY <1>1, <1>2

(* The register holds every number of sectors up to COUNTS, and no more    *)
(* than it was given.                                                      *)
LEMMA DivMod ==
  ASSUME NEW a \in Nat, NEW b \in Nat \ {0}
  PROVE  /\ a \div b \in Nat /\ a % b \in 0..(b - 1)
         /\ a = b * (a \div b) + (a % b)
OBVIOUS

LEMMA Register ==
  ASSUME NEW n \in Nat, n > 0
  PROVE  /\ Sectors(n) \in Nat /\ Sectors(n) > 0
         /\ Sectors(n) <= n
<1> DEFINE q == n \div COUNTS
           m == n % COUNTS
<1>1. COUNTS \in Nat \ {0}
  BY DiskAssumption
<1>2. /\ q \in Nat /\ m \in 0..(COUNTS - 1)
      /\ n = COUNTS * q + m
  BY <1>1, DivMod
<1>3. Sectors(n) = IF m = 0 THEN COUNTS ELSE m
  BY DEF Sectors
<1> HIDE DEF q, m
<1>4. CASE q = 0
  BY <1>1, <1>2, <1>3, <1>4
<1>5. CASE q > 0
  <2>1. COUNTS * q >= COUNTS
    BY <1>1, <1>2, <1>5
  <2>2. QED
    BY <1>1, <1>2, <1>3, <2>1
<1>6. QED
  BY <1>2, <1>4, <1>5

(* A device is the drive, an entry of the first table or a logical         *)
(* partition.                                                              *)
LEMMA Device ==
  ASSUME NEW d, NEW dev \in Devices
  PROVE  \/ dev = primary(0) /\ StartOf(d, dev) = 0
         \/ /\ dev.part \in Slots /\ dev.sub = -1 /\ dev # primary(0)
            /\ StartOf(d, dev) = d[dev.part].start
            /\ Exists(d, dev) => IsUsed(d, dev.part)
         \/ /\ dev.part \in Slots /\ dev.sub \in Links /\ dev # primary(0)
            /\ dev = extend(dev.part, dev.sub)
            /\ StartOf(d, dev) = d[dev.part].logical[dev.sub + 1].start
            /\ Exists(d, dev) => dev.sub < Len(d[dev.part].logical)
<1>1. CASE dev = primary(0)
  BY <1>1 DEF StartOf, primary, Slots
<1>2. CASE \E i \in Slots : dev = primary(i)
  <2>1. PICK i \in Slots : dev = primary(i)
    BY <1>2
  <2>2. dev.part = i /\ dev.sub = -1 /\ dev # primary(0)
    BY <2>1, DiskAssumption DEF primary, Slots
  <2>3. QED
    BY <2>2 DEF StartOf, Exists
<1>3. CASE \E i \in Slots, j \in Links : dev = extend(i, j)
  <2>1. PICK i \in Slots, j \in Links : dev = extend(i, j)
    BY <1>3
  <2>2. dev.part = i /\ dev.sub = j /\ j # -1 /\ dev # primary(0)
    BY <2>1, DiskAssumption DEF primary, extend, Slots, Links
  <2>3. QED
    BY <2>1, <2>2 DEF StartOf, Exists
<1>4. QED
  BY <1>1, <1>2, <1>3 DEF Devices

(* What the partitioning says of an entry of the first table, and of one   *)
(* that is extended.                                                       *)
LEMMA Entry ==
  ASSUME TypeOK, NEW i \in Slots
  PROVE  /\ drive[i].start \in Nat
         /\ drive[i].logical \in Seq([table : Nat, start : Nat])
         /\ drive[i].logical # <<>> => IsExtended(drive, i)
BY DiskAssumption DEF TypeOK, IsPartitioning

LEMMA ExtendedEntry ==
  ASSUME TypeOK, NEW i \in Slots, IsExtended(drive, i)
  PROVE  /\ Len(drive[i].logical) > 0
         /\ drive[i].logical[1].table = drive[i].start
         /\ \A a, b \in 1..Len(drive[i].logical) :
              drive[i].logical[a].table = drive[i].logical[b].table => a = b
<1> DEFINE l == drive[i].logical
<1>1. /\ l # <<>> /\ l[1].table = drive[i].start
      /\ \A a, b \in DOMAIN l : l[a].table = l[b].table => a = b
  BY DiskAssumption DEF TypeOK, IsPartitioning
<1>2. l \in Seq([table : Nat, start : Nat])
  BY Entry
<1>3. Len(l) > 0 /\ DOMAIN l = 1..Len(l)
  <2> HIDE DEF l
  <2>1. QED
    BY <1>1, <1>2
<1>4. QED
  BY <1>1, <1>3

(* One more sector moved.                                                  *)
LEMMA Grown ==
  ASSUME NEW m \in Seq(Int \X Nat), NEW a \in Int, NEW b \in Nat
  PROVE  /\ Append(m, <<a, b>>) \in Seq(Int \X Nat)
         /\ Len(Append(m, <<a, b>>)) = Len(m) + 1
         /\ \A i \in 1..Len(m) : Append(m, <<a, b>>)[i] = m[i]
         /\ Append(m, <<a, b>>)[Len(m) + 1] = <<a, b>>
OBVIOUS

LEMMA Fields ==
  ASSUME TypeOK
  PROVE  /\ req.type \in {"none", "open", "close", "ioctl", "READ", "WRITE"}
         /\ req.dev \in Devices /\ req.pos \in Nat /\ req.count \in Nat
         /\ req.type \in {"READ", "WRITE"} => req.count > 0
         /\ ata \in Controllers
         /\ ata.status \in {"idle", "busy", "drq"} /\ ata.at \in Int /\ ata.left \in Nat
         /\ ata.data \in Nat /\ ata.cmd \in {"none", "READ", "WRITE", "IDENTIFY"}
<1>1. ata \in Controllers
  BY DEF TypeOK, Controllers
<1>2. req \in Requests \cup {NoRequest}
  BY DEF TypeOK
<1>3. QED
  BY <1>1, <1>2, RequestFields DEF Controllers

(* What port_read finds when the task has been woken to read.              *)
LEMMA Taken ==
  ASSUME DiskInv, pc = "woken", ~ Writing, PortRead
  PROVE  /\ ata.status = "drq" /\ ata.left > 0 /\ ata.cmd \in {"READ", "IDENTIFY"}
         /\ ata' \in Controllers
         /\ ata'.at = ata.at + 1 /\ ata'.left = ata.left - 1
         /\ ata'.data = 0 /\ ata'.cmd = ata.cmd
         /\ ata'.status = IF ata.left = 1 THEN "idle" ELSE "busy"
<1>1. /\ ata.status = "drq" /\ ata.left > 0 /\ ata.cmd \in {"READ", "IDENTIFY"}
      /\ ata \in Controllers
  BY Fields DEF DiskInv, Ata, Told
<1>2. ata' = Advance(ata)
  BY <1>1 DEF PortRead
<1>3. QED
  BY <1>1, <1>2, Advanced

LEMMA ElementIn ==
  ASSUME NEW S, NEW q \in Seq(S), NEW i \in 1..Len(q)
  PROVE  q[i] \in S
OBVIOUS

(* What is asked for begins at a known place.                              *)
LEMMA KnownStart ==
  ASSUME DiskInv, doing = "rw", pc \in {"command", "poll", "wait", "blocking", "asleep", "woken"}
  PROVE  /\ base[req.dev] = StartOf(drive, req.dev)
         /\ StartOf(drive, req.dev) \in Int /\ StartOf(drive, req.dev) + req.pos \in Int
<1>1. req.type \in {"READ", "WRITE"} /\ asked
  BY DEF DiskInv, Served, Busy
<1>2. open_cnt > 0 /\ ~ Opening /\ req.dev \in Devices /\ Exists(drive, req.dev)
  BY <1>1, Fields DEF DiskInv, Served, Opening
<1>3. base[req.dev] = StartOf(drive, req.dev) /\ base[req.dev] \in Int
  BY <1>2 DEF DiskInv, TypeOK, Known
<1>4. QED
  BY <1>3, Fields DEF DiskInv

(* The entry read last, and where the next one is.                         *)
LEMMA EbrTable ==
  ASSUME DiskInv, Opening, doing = "ebr"
  PROVE  LET l == drive[ext].logical
             t == Table(drive, ext, s)
         IN  /\ s + t.base = l[link + 1].start
             /\ t.more <=> link + 1 < Len(l)
             /\ t.more => drive[ext].start + t.next = l[link + 2].table
             /\ l[link + 1].start \in Nat
             /\ t.more => l[link + 2].table \in Nat
<1> DEFINE l == drive[ext].logical
           t == Table(drive, ext, s)
           j == CHOOSE x \in DOMAIN l : l[x].table = s
<1>1. /\ ext \in Slots /\ IsExtended(drive, ext) /\ link \in Nat /\ link < Len(l)
      /\ s = l[link + 1].table /\ s \in Nat
  BY DiskAssumption DEF DiskInv, Known, TypeOK, Links
<1>2. /\ l \in Seq([table : Nat, start : Nat]) /\ drive[ext].start \in Nat
      /\ \A a, b \in 1..Len(l) : l[a].table = l[b].table => a = b
  BY <1>1, Entry, ExtendedEntry DEF DiskInv
<1>3. t = [base |-> l[j].start - s, more |-> j < Len(l),
           next |-> IF j < Len(l) THEN l[j + 1].table - drive[ext].start ELSE 0]
  BY DEF Table
<1> HIDE DEF l, t
<1>4. j = link + 1
  BY <1>1, <1>2
<1> HIDE DEF j
<1>5. /\ link + 1 \in 1..Len(l)
      /\ link + 1 < Len(l) => link + 2 \in 1..Len(l)
      /\ \A i \in 1..Len(l) : l[i].table \in Nat /\ l[i].start \in Nat
  <2>1. Len(l) \in Nat
    BY <1>2
  <2>2. ASSUME NEW i \in 1..Len(l) PROVE l[i].table \in Nat /\ l[i].start \in Nat
    <3>1. l[i] \in [table : Nat, start : Nat]
      BY <1>2, <2>2, ElementIn
    <3>2. QED
      BY <3>1
  <2>3. link + 1 < Len(l) => link + 2 \in 1..Len(l)
    BY <1>1, <2>1
  <2>4. QED
    BY <1>1, <2>1, <2>2, <2>3
<1>6. t = [base |-> l[link + 1].start - s, more |-> link + 1 < Len(l),
           next |-> IF link + 1 < Len(l) THEN l[link + 2].table - drive[ext].start ELSE 0]
  BY <1>1, <1>3, <1>4
<1>7. /\ s + t.base = l[link + 1].start
      /\ t.more <=> link + 1 < Len(l)
      /\ t.more => drive[ext].start + t.next = l[link + 2].table
  <2>1. l[link + 1].start \in Int /\ s \in Int /\ drive[ext].start \in Int
    BY <1>1, <1>2, <1>5
  <2>2. link + 1 < Len(l) => l[link + 2].table \in Int
    BY <1>5
  <2>3. s + t.base = l[link + 1].start
    BY <1>6, <2>1
  <2>4. t.more <=> link + 1 < Len(l)
    BY <1>6
  <2>5. ASSUME link + 1 < Len(l)
        PROVE  drive[ext].start + t.next = l[link + 2].table
    <3>1. t.next = l[link + 2].table - drive[ext].start
      BY <1>6, <2>5
    <3>2. QED
      BY <2>1, <2>2, <2>5, <3>1
  <2>6. QED
    BY <2>3, <2>4, <2>5
<1>8. QED
  BY <1>5, <1>7 DEF l, t

(* partition: after the entry i the next extended one is taken, and when   *)
(* there is none every partition is known.                                 *)
LEMMA NextTaken ==
  ASSUME DiskInv, NEW i \in Slots \cup {0}, NextExtended(i), base' \in [Devices -> Int],
         \A dev \in Devices : Exists(drive, dev) /\ (dev.sub = -1 \/ dev.part <= i)
                             => base'[dev] = StartOf(drive, dev)
  PROVE  \/ /\ pc' = "answer" /\ UNCHANGED <<doing, chain>>
            /\ \A dev \in Devices : Exists(drive, dev) => base'[dev] = StartOf(drive, dev)
         \/ /\ pc' = "command" /\ doing' = "ebr"
            /\ ext' \in Slots /\ IsExtended(drive, ext') /\ link' = 0
            /\ s' = drive[ext'].logical[1].table /\ s' \in Nat
            /\ 0 < Len(drive[ext'].logical)
            /\ \A dev \in Devices :
                 Exists(drive, dev) /\ ReadOff(dev, ext', 0) => base'[dev] = StartOf(drive, dev)
<1> DEFINE more == {j \in Slots : j > i /\ IsExtended(drive, j)}
           least == CHOOSE x \in more : \A y \in more : x <= y
<1>1. ASSUME NEW dev \in Devices, Exists(drive, dev), dev.sub # -1
      PROVE  \/ dev = primary(0)
             \/ dev.part \in Slots /\ dev.sub \in Links /\ IsExtended(drive, dev.part)
  <2>1. \/ dev = primary(0)
        \/ /\ dev.part \in Slots /\ dev.sub \in Links
           /\ dev.sub < Len(drive[dev.part].logical)
    BY <1>1, Device
  <2>2. ASSUME dev.part \in Slots, dev.sub \in Links, dev.sub < Len(drive[dev.part].logical)
        PROVE  drive[dev.part].logical # <<>>
    BY <2>2, DiskAssumption DEF Links
  <2>3. QED
    BY <2>1, <2>2, Entry DEF DiskInv
<1>2. primary(0).sub = -1
  BY DEF primary
<1>3. CASE more = {}
  <2>1. pc' = "answer" /\ UNCHANGED <<doing, chain>>
    BY <1>3 DEF NextExtended
  <2>2. ASSUME NEW dev \in Devices, Exists(drive, dev)
        PROVE  base'[dev] = StartOf(drive, dev)
    <3>1. CASE dev.sub = -1
      BY <2>2, <3>1
    <3>2. CASE dev.sub # -1
      <4>1. dev.part \in Slots /\ IsExtended(drive, dev.part)
        BY <1>1, <1>2, <2>2, <3>2
      <4>2. dev.part <= i
        BY <1>3, <4>1 DEF Slots
      <4>3. QED
        BY <2>2, <4>2
    <3>3. QED
      BY <3>1, <3>2
  <2>3. QED
    BY <2>1, <2>2
<1>4. CASE more # {}
  <2>1. \E m \in more : \A y \in more : m <= y
    <3>1. more \in SUBSET Nat
      BY DiskAssumption DEF Slots
    <3>2. QED
      BY <1>4, <3>1, LeastNatural, Zenon
  <2>2. least \in more /\ \A y \in more : least <= y
    BY <2>1, Zenon
  <2>3. pc' = "command" /\ doing' = "ebr" /\ ext' = least /\ link' = 0 /\ s' = drive[least].start
    BY <1>4 DEF NextExtended, Command
  <2> HIDE DEF least
  <2>4. /\ ext' \in Slots /\ IsExtended(drive, ext')
        /\ s' = drive[ext'].logical[1].table /\ s' \in Nat
        /\ 0 < Len(drive[ext'].logical)
    BY <2>2, <2>3, Entry, ExtendedEntry DEF DiskInv
  <2>5. ASSUME NEW dev \in Devices, Exists(drive, dev), ReadOff(dev, ext', 0)
        PROVE  base'[dev] = StartOf(drive, dev)
    <3>1. CASE dev.sub = -1
      BY <2>5, <3>1
    <3>2. CASE dev.sub # -1
      <4>1. dev.part \in Slots /\ dev.sub \in Links /\ IsExtended(drive, dev.part)
        BY <1>1, <1>2, <2>5, <3>2
      <4>2. dev.part < ext'
        BY <2>5, <3>2, <4>1, DiskAssumption DEF Links, ReadOff
      <4>3. dev.part <= i
        BY <2>2, <2>3, <4>1, <4>2 DEF Slots
      <4>4. QED
        BY <2>5, <4>3
    <3>3. QED
      BY <3>1, <3>2
  <2>6. QED
    BY <2>3, <2>4, <2>5
<1>5. QED
  BY <1>3, <1>4

-----------------------------------------------------------------------------
(* Each action keeps the invariant: first the controller's and the         *)
(* interrupt's, then the client's and the task's.                          *)

LEMMA AtaReadyKept ==
  ASSUME DiskInv, AtaReady
  PROVE  DiskInv'
<1> USE Fields DEF Busy, Moving, Opening, Told, Writing, hdinfo, chain, client, vars, AtaReady
<1>1. TypeOK'
  <2>1. ata \in Controllers
    BY DEF DiskInv
  <2>2. ata' \in Controllers
    BY <2>1 DEF Controllers
  <2>3. QED
    BY <2>2 DEF DiskInv, TypeOK, Controllers
<1>2. Served'
  BY DEF DiskInv, Served
<1>3. Lines'
  BY DEF DiskInv, Lines
<1>4. Ata'
  BY DEF DiskInv, TypeOK, Ata
<1>5. Progress'
  BY DEF DiskInv, Progress
<1>6. Known'
  BY DEF DiskInv, Known
<1>7. QED
  BY <1>1, <1>2, <1>3, <1>4, <1>5, <1>6 DEF DiskInv

LEMMA AtaFetchedKept ==
  ASSUME DiskInv, AtaFetched
  PROVE  DiskInv'
<1> USE Fields DEF Busy, Moving, Opening, Told, Writing, hdinfo, chain, client, vars, AtaFetched
<1>1. TypeOK'
  <2>1. ata \in Controllers
    BY DEF DiskInv
  <2>2. ata' \in Controllers
    BY <2>1 DEF Controllers
  <2>3. QED
    BY <2>2 DEF DiskInv, TypeOK, Controllers
<1>2. Served'
  BY DEF DiskInv, Served
<1>3. Lines'
  BY DEF DiskInv, Served, Lines, Ata
<1>4. Ata'
  BY DEF DiskInv, Ata
<1>5. Progress'
  BY DEF DiskInv, Ata, Progress
<1>6. Known'
  BY DEF DiskInv, Known
<1>7. QED
  BY <1>1, <1>2, <1>3, <1>4, <1>5, <1>6 DEF DiskInv

LEMMA AtaStoredKept ==
  ASSUME DiskInv, AtaStored
  PROVE  DiskInv'
<1> USE Fields DEF Busy, Moving, Opening, Told, Writing, hdinfo, chain, client, vars
<1> DEFINE m == <<ata.at, ata.data>>
<1>1. /\ ata.left > 0 /\ pc \in {"wait", "blocking", "asleep"} /\ ~ Told /\ Writing
      /\ ata.data = k + 1 /\ ata.cmd = "WRITE"
  BY DEF DiskInv, AtaStored, Ata, Lines
<1>2. /\ ata' \in Controllers
      /\ ata'.at = ata.at + 1 /\ ata'.left = ata.left - 1
      /\ ata'.data = 0 /\ ata'.cmd = "WRITE"
      /\ ata'.status = IF ata.left = 1 THEN "idle" ELSE "drq"
  <2>1. ata' = Advance(ata) /\ ata \in Controllers
    BY DEF DiskInv, AtaStored
  <2>2. QED
    BY <1>1, <2>1, Advanced
<1>3. /\ moved' \in Seq(Int \X Nat) /\ Len(moved') = Len(moved) + 1
      /\ \A i \in 1..Len(moved) : moved'[i] = moved[i]
      /\ moved'[Len(moved) + 1] = <<ata.at, ata.data>>
  <2>1. moved' = Append(moved, <<ata.at, ata.data>>) /\ moved \in Seq(Int \X Nat)
    BY DEF DiskInv, TypeOK, AtaStored
  <2>2. ata.at \in Int /\ ata.data \in Nat
    BY DEF DiskInv
  <2>3. QED
    BY <2>1, <2>2, Grown
<1>4. /\ irq' = TRUE
      /\ UNCHANGED <<drive, pc, doing, client, k, hdinfo, chain, has_int_msg>>
  BY DEF AtaStored
<1>5. TypeOK'
  BY <1>2, <1>3, <1>4 DEF DiskInv, TypeOK, Controllers
<1>6. Served'
  BY <1>4 DEF DiskInv, Served
<1>7. Lines'
  BY <1>1, <1>4 DEF DiskInv, Lines
<1>8. Ata'
  BY <1>1, <1>2, <1>4 DEF DiskInv, Ata
<1>9. Progress'
  <2> DEFINE start == StartOf(drive, req.dev) + req.pos
             n == Len(moved)
  <2>1. /\ n = k /\ n \in Nat /\ k < req.count /\ ata.at = start + n
        /\ ata.left = Sectors(req.count) - n
        /\ \A i \in 1..n : moved[i] = <<start + i - 1, i>>
    BY <1>1 DEF DiskInv, TypeOK, Progress
  <2>2. \A i \in 1..(n + 1) : moved'[i] = <<start + i - 1, i>>
    <3>1. moved'[n + 1] = <<start + n, n + 1>>
      BY <1>1, <1>3, <2>1
    <3>2. start + (n + 1) - 1 = start + n
      BY <2>1
    <3>3. \A i \in 1..n : moved'[i] = <<start + i - 1, i>>
      BY <1>3, <2>1
    <3>4. \A i \in 1..(n + 1) : i \in 1..n \/ i = n + 1
      BY <2>1
    <3>5. QED
      BY <3>1, <3>2, <3>3, <3>4
  <2>3. Len(moved') = n + 1
    BY <1>3
  <2>4. ata'.at = start + (n + 1) /\ ata'.left = Sectors(req.count) - (n + 1)
    <3>1. start \in Int /\ Sectors(req.count) \in Nat
      BY <1>1, <2>1, KnownStart, Register DEF DiskInv
    <3>2. QED
      BY <1>2, <2>1, <3>1
  <2>5. QED
    BY <1>1, <1>4, <2>1, <2>2, <2>3, <2>4 DEF Progress
<1>10. Known'
  BY <1>4 DEF DiskInv, Known
<1>11. QED
  BY <1>5, <1>6, <1>7, <1>8, <1>9, <1>10 DEF DiskInv

LEMMA hd_handlerKept ==
  ASSUME DiskInv, hd_handler
  PROVE  DiskInv'
<1> USE Fields DEF Busy, Moving, Opening, Told, Writing, hdinfo, chain, client, vars, hd_handler
<1>1. TypeOK'
  <2>1. pc' \in {pc, "woken"} /\ has_int_msg' \in {has_int_msg, TRUE} /\ irq' = FALSE
    OBVIOUS
  <2>2. has_int_msg' \in BOOLEAN
    BY <2>1 DEF DiskInv, TypeOK
  <2>3. pc' \in {"main", "open", "close", "ioctl", "READ", "WRITE", "command", "poll",
                "wait", "blocking", "asleep", "woken", "answer", "panic", "spin"}
    BY <2>1 DEF DiskInv, TypeOK
  <2>4. QED
    BY <2>1, <2>2, <2>3 DEF DiskInv, TypeOK
<1>2. Served'
  BY DEF DiskInv, Served
<1>3. Lines'
  BY DEF DiskInv, Lines
<1>4. Ata'
  BY DEF DiskInv, Ata
<1>5. Progress'
  BY DEF DiskInv, Progress
<1>6. Known'
  BY DEF DiskInv, Known
<1>7. QED
  BY <1>1, <1>2, <1>3, <1>4, <1>5, <1>6 DEF DiskInv

LEMMA AskKept ==
  ASSUME DiskInv, NEW r \in Requests, Ask(r)
  PROVE  DiskInv'
<1> USE Fields DEF Busy, Moving, Opening, Told, Writing, hdinfo, chain, client, vars, Ask
<1>1. TypeOK'
  BY DEF DiskInv, TypeOK
<1>2. Served'
  BY DEF DiskInv, Served
<1>3. Lines'
  BY DEF DiskInv, Lines
<1>4. Ata'
  BY DEF DiskInv, Served, Lines, Ata
<1>5. Progress'
  BY DEF DiskInv, Served, Progress
<1>6. Known'
  BY DEF DiskInv, Known
<1>7. QED
  BY <1>1, <1>2, <1>3, <1>4, <1>5, <1>6 DEF DiskInv

LEMMA ReceiveKept ==
  ASSUME DiskInv, Receive
  PROVE  DiskInv'
<1> USE Fields DEF Busy, Moving, Opening, Told, Writing, hdinfo, chain, client, vars, Receive
<1>1. TypeOK'
  <2>1. asked => req.type # "none"
    BY Requested DEF DiskInv, Served
  <2>2. pc' \in {"open", "close", "ioctl", "READ", "WRITE", "spin"}
    BY <2>1 DEF DiskInv
  <2>3. has_int_msg' = FALSE
    OBVIOUS
  <2>4. /\ has_int_msg' \in BOOLEAN
        /\ pc' \in {"main", "open", "close", "ioctl", "READ", "WRITE", "command", "poll",
                   "wait", "blocking", "asleep", "woken", "answer", "panic", "spin"}
    BY <2>2, <2>3
  <2>5. QED
    BY <2>4 DEF DiskInv, TypeOK
<1>2. Served'
  BY DEF DiskInv, Served, Lines
<1>3. Lines'
  BY DEF DiskInv, Lines
<1>4. Ata'
  BY DEF DiskInv, Ata
<1>5. Progress'
  BY DEF DiskInv, Progress
<1>6. Known'
  BY DEF DiskInv, Known
<1>7. QED
  BY <1>1, <1>2, <1>3, <1>4, <1>5, <1>6 DEF DiskInv

LEMMA OpenKept ==
  ASSUME DiskInv, Open
  PROVE  DiskInv'
<1> USE Fields DEF Busy, Moving, Opening, Told, Writing, hdinfo, chain, client, vars, Open, Command
<1>1. TypeOK'
  BY DEF DiskInv, TypeOK
<1>2. Served'
  BY DEF DiskInv, Served
<1>3. Lines'
  BY DEF DiskInv, Lines
<1>4. Ata'
  BY DEF DiskInv, Served, Ata
<1>5. Progress'
  BY DEF DiskInv, Progress
<1>6. Known'
  BY DEF DiskInv, Known
<1>7. QED
  BY <1>1, <1>2, <1>3, <1>4, <1>5, <1>6 DEF DiskInv

LEMMA CloseKept ==
  ASSUME DiskInv, Close
  PROVE  DiskInv'
<1> USE Fields DEF Busy, Moving, Opening, Told, Writing, hdinfo, chain, client, vars, Close
<1>1. TypeOK'
  BY DEF DiskInv, TypeOK, Served
<1>2. Served'
  BY DEF DiskInv, Served
<1>3. Lines'
  BY DEF DiskInv, Lines
<1>4. Ata'
  BY DEF DiskInv, Ata
<1>5. Progress'
  BY DEF DiskInv, Served, Progress
<1>6. Known'
  BY DEF DiskInv, TypeOK, Known
<1>7. QED
  BY <1>1, <1>2, <1>3, <1>4, <1>5, <1>6 DEF DiskInv

LEMMA IoctlKept ==
  ASSUME DiskInv, Ioctl
  PROVE  DiskInv'
<1> USE Fields DEF Busy, Moving, Opening, Told, Writing, hdinfo, chain, client, vars, Ioctl
<1>1. TypeOK'
  BY DEF DiskInv, TypeOK
<1>2. Served'
  BY DEF DiskInv, Served
<1>3. Lines'
  BY DEF DiskInv, Lines
<1>4. Ata'
  BY DEF DiskInv, Ata
<1>5. Progress'
  BY DEF DiskInv, TypeOK, Served, Lines, Ata, Progress, Known
<1>6. Known'
  BY DEF DiskInv, Known
<1>7. QED
  BY <1>1, <1>2, <1>3, <1>4, <1>5, <1>6 DEF DiskInv

LEMMA ReadWriteKept ==
  ASSUME DiskInv, ReadWrite
  PROVE  DiskInv'
<1> USE Fields DEF Busy, Moving, Opening, Told, Writing, hdinfo, chain, client, vars, ReadWrite, Command
<1>1. TypeOK'
  BY DEF DiskInv, TypeOK
<1>2. Served'
  BY DEF DiskInv, Served
<1>3. Lines'
  BY DEF DiskInv, Lines
<1>4. Ata'
  BY DEF DiskInv, Ata
<1>5. Progress'
  BY DEF DiskInv, Progress
<1>6. Known'
  BY DEF DiskInv, Known
<1>7. QED
  BY <1>1, <1>2, <1>3, <1>4, <1>5, <1>6 DEF DiskInv

LEMMA CommandTimeoutKept ==
  ASSUME DiskInv, CommandTimeout
  PROVE  DiskInv'
<1> USE Fields DEF Busy, Moving, Opening, Told, Writing, hdinfo, chain, client, vars, CommandTimeout
<1>1. TypeOK'
  BY DEF DiskInv, TypeOK
<1>2. Served'
  BY DEF DiskInv, Served
<1>3. Lines'
  BY DEF DiskInv, Lines
<1>4. Ata'
  BY DEF DiskInv, Ata
<1>5. Progress'
  BY DEF DiskInv, Progress
<1>6. Known'
  BY DEF DiskInv, Known
<1>7. QED
  BY <1>1, <1>2, <1>3, <1>4, <1>5, <1>6 DEF DiskInv

LEMMA SendCommandKept ==
  ASSUME DiskInv, SendCommand
  PROVE  DiskInv'
<1> USE Fields DEF Busy, Moving, Opening, Told, Writing, hdinfo, chain, client, vars
<1> DEFINE n == ToDo.n
<1>1. /\ pc = "command" /\ ata.left = 0 /\ ~ irq /\ ~ has_int_msg
      /\ k = 0 /\ moved = <<>> /\ asked
  BY DEF DiskInv, TypeOK, SendCommand, Served, Ata, Lines, Progress
<1>2. /\ n \in Nat /\ n > 0 /\ ToDo.at \in Int
      /\ ToDo.cmd = IF doing = "rw" THEN req.type ELSE IF doing = "identify" THEN "IDENTIFY" ELSE "READ"
      /\ doing = "rw" => /\ n = req.count /\ req.type \in {"READ", "WRITE"}
                         /\ ToDo.at = StartOf(drive, req.dev) + req.pos
  <2>1. CASE doing = "rw"
    <3>1. req.type \in {"READ", "WRITE"}
      BY <1>1, <2>1 DEF DiskInv, Served
    <3>2. base[req.dev] = StartOf(drive, req.dev) /\ base[req.dev] \in Int
      BY <1>1, <2>1, KnownStart
    <3>3. ToDo = [cmd |-> req.type, at |-> base[req.dev] + req.pos, n |-> req.count]
      BY <2>1 DEF ToDo
    <3>4. QED
      BY <2>1, <3>1, <3>2, <3>3 DEF DiskInv
  <2>2. CASE doing # "rw"
    BY <2>2 DEF DiskInv, TypeOK, ToDo
  <2>3. QED
    BY <2>1, <2>2
<1>3. ata' = [status |-> "busy", cmd |-> ToDo.cmd, at |-> ToDo.at, left |-> Sectors(n), data |-> 0]
  BY DEF SendCommand
<1>4. /\ ata'.status = "busy" /\ ata'.cmd = ToDo.cmd /\ ata'.at = ToDo.at
      /\ ata'.left = Sectors(n) /\ ata'.data = 0
  BY <1>3
<1>5. Sectors(n) \in Nat /\ Sectors(n) > 0
  BY <1>2, Register
<1> HIDE DEF n
<1>6. /\ pc' = IF ToDo.cmd = "WRITE" THEN "poll" ELSE "wait"
      /\ UNCHANGED <<drive, doing, client, k, hdinfo, chain, has_int_msg, irq, moved>>
  BY DEF SendCommand
<1>7. TypeOK'
  <2>1. ToDo.cmd \in {"READ", "WRITE", "IDENTIFY"}
    BY <1>2
  <2>2. QED
    BY <1>2, <1>3, <1>5, <1>6, <2>1 DEF DiskInv, TypeOK
<1>8. Served'
  BY <1>1, <1>2, <1>6 DEF DiskInv, Served
<1>9. Lines'
  BY <1>1, <1>6 DEF DiskInv, Lines
<1>10. Ata'
  <2>1. doing # "rw" => n = 1
    BY DEF DiskInv, TypeOK, ToDo, n
  <2>2. Sectors(n) <= n
    BY <1>2, Register
  <2>3. QED
    BY <1>1, <1>2, <1>4, <1>5, <1>6, <2>1, <2>2 DEF DiskInv, Ata
<1>11. Progress'
  <2>1. Len(moved) = 0
    BY <1>1
  <2>2. QED
    BY <1>1, <1>2, <1>4, <1>6, <2>1, KnownStart, Register DEF DiskInv, Progress
<1>12. Known'
  <2>1. Opening <=> Opening'
    BY <1>1, <1>2, <1>6 DEF DiskInv, Served
  <2>2. QED
    BY <1>6, <2>1 DEF DiskInv, Known
<1>13. QED
  BY <1>7, <1>8, <1>9, <1>10, <1>11, <1>12 DEF DiskInv

LEMMA SendCommandNobodyKept ==
  ASSUME DiskInv, SendCommandNobody
  PROVE  DiskInv'
<1> USE Fields DEF Busy, Moving, Opening, Told, Writing, hdinfo, chain, client, vars, SendCommandNobody
<1>1. TypeOK'
  BY DEF DiskInv, TypeOK
<1>2. Served'
  BY DEF DiskInv, Served
<1>3. Lines'
  BY DEF DiskInv, Lines
<1>4. Ata'
  BY DEF DiskInv, Ata
<1>5. Progress'
  BY DEF DiskInv, Progress
<1>6. Known'
  BY DEF DiskInv, Known
<1>7. QED
  BY <1>1, <1>2, <1>3, <1>4, <1>5, <1>6 DEF DiskInv

LEMMA InterruptWaitKept ==
  ASSUME DiskInv, InterruptWait
  PROVE  DiskInv'
<1> USE Fields DEF Busy, Moving, Opening, Told, Writing, hdinfo, chain, client, vars, InterruptWait
<1>1. TypeOK'
  <2>1. pc' \in {"woken", "blocking"} /\ has_int_msg' \in {has_int_msg, FALSE}
    OBVIOUS
  <2>2. has_int_msg' \in BOOLEAN
    BY <2>1 DEF DiskInv, TypeOK
  <2>3. pc' \in {"main", "open", "close", "ioctl", "READ", "WRITE", "command", "poll",
                "wait", "blocking", "asleep", "woken", "answer", "panic", "spin"}
    BY <2>1 DEF DiskInv, TypeOK
  <2>4. QED
    BY <2>1, <2>2, <2>3 DEF DiskInv, TypeOK
<1>2. Served'
  BY DEF DiskInv, Served
<1>3. Lines'
  BY DEF DiskInv, Lines
<1>4. Ata'
  BY DEF DiskInv, Ata
<1>5. Progress'
  BY DEF DiskInv, Progress
<1>6. Known'
  BY DEF DiskInv, Known
<1>7. QED
  BY <1>1, <1>2, <1>3, <1>4, <1>5, <1>6 DEF DiskInv

LEMMA InterruptSleepKept ==
  ASSUME DiskInv, InterruptSleep
  PROVE  DiskInv'
<1> USE Fields DEF Busy, Moving, Opening, Told, Writing, hdinfo, chain, client, vars, InterruptSleep
<1>1. TypeOK'
  BY DEF DiskInv, TypeOK
<1>2. Served'
  BY DEF DiskInv, Served
<1>3. Lines'
  BY DEF DiskInv, Lines
<1>4. Ata'
  BY DEF DiskInv, Ata
<1>5. Progress'
  BY DEF DiskInv, Progress
<1>6. Known'
  BY DEF DiskInv, Known
<1>7. QED
  BY <1>1, <1>2, <1>3, <1>4, <1>5, <1>6 DEF DiskInv

LEMMA IdentifiedKept ==
  ASSUME DiskInv, Identified
  PROVE  DiskInv'
<1> USE Fields DEF Busy, Moving, Opening, Told, Writing, hdinfo, chain, client, vars
<1>1. /\ pc = "woken" /\ doing = "identify" /\ ~ irq /\ ~ has_int_msg /\ req.type = "open"
      /\ k = 0 /\ Len(moved) = 0 /\ asked
  BY DEF DiskInv, TypeOK, Identified, Served, Lines, Progress
<1>2. /\ ata' \in Controllers /\ ata'.left = 0 /\ ata'.status = "idle" /\ ata'.data = 0
      /\ ata'.cmd \in {"READ", "IDENTIFY"}
  <2>1. PortRead /\ ~ Writing
    BY <1>1 DEF Identified
  <2>2. ata.left = 1
    BY <1>1 DEF DiskInv, Ata
  <2>3. QED
    BY <1>1, <2>1, <2>2, Taken
<1>3. base' = base
  BY DEF Identified
<1>4. /\ UNCHANGED <<drive, client, k, chain, has_int_msg, irq, moved>>
      /\ \/ open_cnt = 0 /\ open_cnt' = 1 /\ doing' = "mbr" /\ pc' = "command"
         \/ open_cnt > 0 /\ pc' = "answer" /\ UNCHANGED <<open_cnt, doing>>
  BY DEF DiskInv, TypeOK, Identified, Command
<1>5. TypeOK'
  BY <1>2, <1>3, <1>4 DEF DiskInv, TypeOK, Controllers
<1>6. Served'
  BY <1>1, <1>4 DEF DiskInv, Served
<1>7. Lines'
  BY <1>1, <1>4 DEF DiskInv, Lines
<1>8. Ata'
  BY <1>1, <1>2, <1>4 DEF DiskInv, Ata
<1>9. Progress'
  BY <1>1, <1>4 DEF DiskInv, Progress
<1>10. Known'
  <2>1. primary(0) \in Devices /\ StartOf(drive, primary(0)) = 0
    BY DEF Devices, StartOf, primary, Slots
  <2>2. QED
    BY <1>1, <1>3, <1>4, <2>1 DEF DiskInv, Known
<1>11. QED
  BY <1>5, <1>6, <1>7, <1>8, <1>9, <1>10 DEF DiskInv

LEMMA ReadMbrKept ==
  ASSUME DiskInv, ReadMbr
  PROVE  DiskInv'
<1> USE Fields DEF Busy, Moving, Opening, Told, Writing, hdinfo, chain, client, vars
<1>1. /\ pc = "woken" /\ doing = "mbr" /\ ~ irq /\ ~ has_int_msg /\ req.type = "open"
      /\ k = 0 /\ Len(moved) = 0 /\ asked /\ Opening
  BY DEF DiskInv, TypeOK, ReadMbr, Served, Lines, Progress
<1>2. /\ ata' \in Controllers /\ ata'.left = 0 /\ ata'.status = "idle" /\ ata'.data = 0
      /\ ata'.cmd \in {"READ", "IDENTIFY"}
  <2>1. PortRead /\ ~ Writing
    BY <1>1 DEF ReadMbr
  <2>2. ata.left = 1
    BY <1>1, <2>1, Taken DEF DiskInv, Ata
  <2>3. QED
    BY <1>1, <2>1, <2>2, Taken
<1>3. /\ base' \in [Devices -> Int] /\ base'[primary(0)] = 0
      /\ \A dev \in Devices : Exists(drive, dev) /\ (dev.sub = -1 \/ dev.part <= 0)
                             => base'[dev] = StartOf(drive, dev)
  <2>1. base' = [dev \in Devices |->
                   IF dev.part \in Slots /\ dev.sub = -1 /\ IsUsed(drive, dev.part)
                   THEN drive[dev.part].start ELSE base[dev]]
    BY DEF ReadMbr
  <2>2. base' \in [Devices -> Int]
    <3>1. \A dev \in Devices : base[dev] \in Int
      BY DEF DiskInv, TypeOK
    <3>2. \A i \in Slots : drive[i].start \in Int
      BY Entry DEF DiskInv
    <3>3. QED
      BY <2>1, <3>1, <3>2
  <2>3. primary(0) \in Devices /\ primary(0).part \notin Slots
    BY DEF Devices, primary, Slots
  <2>4. base'[primary(0)] = 0
    BY <1>1, <2>1, <2>3 DEF DiskInv, Known
  <2>5. ASSUME NEW dev \in Devices, Exists(drive, dev), dev.sub = -1 \/ dev.part <= 0
        PROVE  base'[dev] = StartOf(drive, dev)
    <3>1. CASE dev = primary(0)
      BY <2>4, <3>1 DEF StartOf, primary, Slots
    <3>2. CASE dev # primary(0)
      <4>1. dev.part \in Slots => ~ (dev.part <= 0)
        BY DEF Slots
      <4>2. /\ dev.part \in Slots /\ dev.sub = -1 /\ IsUsed(drive, dev.part)
            /\ StartOf(drive, dev) = drive[dev.part].start
        BY <2>5, <3>2, <4>1, Device, DiskAssumption DEF Links
      <4>3. QED
        BY <2>1, <4>2
    <3>3. QED
      BY <3>1, <3>2
  <2>6. QED
    BY <2>2, <2>4, <2>5
<1>4. /\ UNCHANGED <<drive, client, k, open_cnt, has_int_msg, irq, moved>>
      /\ NextExtended(0)
  BY DEF ReadMbr
<1>5. \/ /\ pc' = "answer" /\ UNCHANGED <<doing, chain>>
         /\ \A dev \in Devices : Exists(drive, dev) => base'[dev] = StartOf(drive, dev)
      \/ /\ pc' = "command" /\ doing' = "ebr"
         /\ ext' \in Slots /\ IsExtended(drive, ext') /\ link' = 0
         /\ s' = drive[ext'].logical[1].table /\ s' \in Nat
         /\ 0 < Len(drive[ext'].logical)
         /\ \A dev \in Devices : Exists(drive, dev) /\ ReadOff(dev, ext', 0) => base'[dev] = StartOf(drive, dev)
  BY <1>3, <1>4, NextTaken
<1>6. TypeOK'
  <2>1. 0 \in Links
    BY DiskAssumption DEF Links
  <2>2. QED
    BY <1>2, <1>3, <1>4, <1>5, <2>1 DEF DiskInv, TypeOK, Controllers
<1>7. Served'
  BY <1>1, <1>4, <1>5 DEF DiskInv, Served
<1>8. Lines'
  BY <1>1, <1>4 DEF DiskInv, Lines
<1>9. Ata'
  BY <1>1, <1>2, <1>4, <1>5 DEF DiskInv, Ata
<1>10. Progress'
  BY <1>1, <1>4, <1>5 DEF DiskInv, Progress
<1>11. Known'
  BY <1>1, <1>3, <1>4, <1>5 DEF DiskInv, Known
<1>12. QED
  BY <1>6, <1>7, <1>8, <1>9, <1>10, <1>11 DEF DiskInv

LEMMA ReadEbrKept ==
  ASSUME DiskInv, ReadEbr
  PROVE  DiskInv'
<1> USE Fields DEF Busy, Moving, Opening, Told, Writing, hdinfo, chain, client, vars
<1> DEFINE l == drive[ext].logical
           t == Table(drive, ext, s)
<1>1. /\ pc = "woken" /\ doing = "ebr" /\ ~ irq /\ ~ has_int_msg /\ req.type = "open"
      /\ k = 0 /\ Len(moved) = 0 /\ asked /\ Opening
      /\ ext \in Slots /\ IsExtended(drive, ext) /\ link \in Links /\ link < Len(l)
      /\ base[primary(0)] = 0
      /\ \A dev \in Devices : Exists(drive, dev) /\ ReadOff(dev, ext, link) => base[dev] = StartOf(drive, dev)
  BY DEF DiskInv, TypeOK, ReadEbr, Served, Lines, Progress, Known
<1>2. /\ ata' \in Controllers /\ ata'.left = 0 /\ ata'.status = "idle" /\ ata'.data = 0
      /\ ata'.cmd \in {"READ", "IDENTIFY"}
  <2>1. PortRead /\ ~ Writing
    BY <1>1 DEF ReadEbr
  <2>2. ata.left = 1
    BY <1>1, <2>1, Taken DEF DiskInv, Ata
  <2>3. QED
    BY <1>1, <2>1, <2>2, Taken
<1>3. /\ s + t.base = l[link + 1].start /\ l[link + 1].start \in Nat
      /\ t.more <=> link + 1 < Len(l)
      /\ t.more => drive[ext].start + t.next = l[link + 2].table /\ l[link + 2].table \in Nat
  BY <1>1, EbrTable
<1>4. /\ UNCHANGED <<drive, client, k, open_cnt, has_int_msg, irq, moved>>
      /\ base' = [base EXCEPT ![extend(ext, link)] = s + t.base]
      /\ \/ /\ link + 1 < Len(l) /\ link + 1 \in Links
            /\ pc' = "command" /\ doing' = "ebr" /\ ext' = ext /\ link' = link + 1
            /\ s' = drive[ext].start + t.next
         \/ ~ (link + 1 < Len(l) /\ link + 1 \in Links) /\ NextExtended(ext)
  BY <1>3 DEF ReadEbr, Command
<1> HIDE DEF t
<1>5. /\ base' \in [Devices -> Int] /\ base'[primary(0)] = 0
      /\ \A dev \in Devices : Exists(drive, dev) /\ ReadOff(dev, ext, link + 1) => base'[dev] = StartOf(drive, dev)
  <2>1. extend(ext, link) \in Devices /\ extend(ext, link) # primary(0)
    BY <1>1, DiskAssumption DEF Devices, extend, primary, Links
  <2>2. base \in [Devices -> Int] /\ primary(0) \in Devices
    BY DEF DiskInv, TypeOK, Devices
  <2>3. base'[extend(ext, link)] = StartOf(drive, extend(ext, link))
    <3>1. extend(ext, link).part = ext /\ extend(ext, link).sub = link /\ link # -1
      BY <1>1, DiskAssumption DEF extend, Links
    <3>2. StartOf(drive, extend(ext, link)) = l[link + 1].start
      BY <2>1, <3>1 DEF StartOf
    <3>3. QED
      BY <1>3, <1>4, <2>1, <2>2, <3>2
  <2>4. base' \in [Devices -> Int] /\ base'[primary(0)] = 0
    BY <1>1, <1>3, <1>4, <2>1, <2>2
  <2>5. ASSUME NEW dev \in Devices, Exists(drive, dev), ReadOff(dev, ext, link + 1)
        PROVE  base'[dev] = StartOf(drive, dev)
    <3>1. CASE dev = extend(ext, link)
      BY <2>3, <3>1
    <3>2. CASE dev # extend(ext, link)
      <4>1. base'[dev] = base[dev]
        BY <1>4, <2>2, <3>2
      <4>2. ReadOff(dev, ext, link)
        <5>1. CASE dev.sub = -1
          BY <5>1 DEF ReadOff
        <5>2. CASE dev.sub # -1
          <6>1. \/ dev = primary(0)
                \/ /\ dev.part \in Slots /\ dev.sub \in Links
                   /\ dev = extend(dev.part, dev.sub)
            BY <5>2, Device
          <6>2. primary(0).sub = -1
            BY DEF primary
          <6>3. dev.part \in Nat /\ dev.sub \in Nat /\ link \in Nat
            BY <1>1, <5>2, <6>1, <6>2, DiskAssumption DEF Slots, Links
          <6>4. dev.part = ext => dev.sub # link
            BY <3>2, <5>2, <6>1, <6>2
          <6>5. QED
            BY <2>5, <5>2, <6>3, <6>4 DEF ReadOff
        <5>3. QED
          BY <5>1, <5>2
      <4>3. QED
        BY <1>1, <2>5, <4>1, <4>2
    <3>3. QED
      BY <3>1, <3>2
  <2>6. QED
    BY <2>4, <2>5
<1>6. \/ /\ pc' = "answer" /\ UNCHANGED <<doing, chain>>
         /\ \A dev \in Devices : Exists(drive, dev) => base'[dev] = StartOf(drive, dev)
      \/ /\ pc' = "command" /\ doing' = "ebr"
         /\ ext' \in Slots /\ IsExtended(drive, ext') /\ link' \in Links
         /\ s' = drive[ext'].logical[link' + 1].table /\ s' \in Nat
         /\ link' < Len(drive[ext'].logical)
         /\ \A dev \in Devices : Exists(drive, dev) /\ ReadOff(dev, ext', link') => base'[dev] = StartOf(drive, dev)
  <2>1. CASE link + 1 < Len(l) /\ link + 1 \in Links
    <3>1. /\ pc' = "command" /\ doing' = "ebr" /\ ext' = ext /\ link' = link + 1
          /\ s' = l[link + 2].table /\ s' \in Nat
      BY <1>3, <1>4, <2>1
    <3>2. l[link + 2] = drive[ext'].logical[link' + 1]
      BY <1>1, <3>1, DiskAssumption DEF Links
    <3>3. QED
      BY <1>1, <1>5, <2>1, <3>1, <3>2
  <2>2. CASE ~ (link + 1 < Len(l) /\ link + 1 \in Links)
    <3>1. ASSUME NEW dev \in Devices, Exists(drive, dev), dev.sub = -1 \/ dev.part <= ext
          PROVE  base'[dev] = StartOf(drive, dev)
      <4>1. CASE dev.sub = -1
        BY <1>5, <3>1, <4>1 DEF ReadOff
      <4>2. CASE dev.sub # -1
        <5>1. \/ dev = primary(0)
              \/ /\ dev.part \in Slots /\ dev.sub \in Links
                 /\ dev.sub < Len(drive[dev.part].logical)
          BY <3>1, <4>2, Device
        <5>2. /\ dev.part \in Slots /\ dev.sub \in Links
              /\ dev.sub < Len(drive[dev.part].logical)
          BY <4>2, <5>1 DEF primary
        <5>3. l \in Seq([table : Nat, start : Nat])
          BY <1>1, Entry DEF DiskInv
        <5>4. dev.part = ext => dev.sub < link + 1
          BY <1>1, <2>2, <5>2, <5>3, DiskAssumption DEF Links
        <5>5. ReadOff(dev, ext, link + 1)
          BY <1>1, <3>1, <4>2, <5>2, <5>4, DiskAssumption DEF ReadOff, Slots
        <5>6. QED
          BY <1>5, <3>1, <5>5
      <4>3. QED
        BY <4>1, <4>2
    <3>2. NextExtended(ext)
      BY <1>4, <2>2
    <3>3. ext \in Slots \cup {0} /\ 0 \in Links
      BY <1>1, DiskAssumption DEF Links
    <3>4. QED
      BY <1>5, <3>1, <3>2, <3>3, NextTaken
  <2>3. QED
    BY <2>1, <2>2
<1>7. TypeOK'
  BY <1>2, <1>4, <1>5, <1>6 DEF DiskInv, TypeOK, Controllers
<1>8. Served'
  BY <1>1, <1>4, <1>6 DEF DiskInv, Served
<1>9. Lines'
  BY <1>1, <1>4 DEF DiskInv, Lines
<1>10. Ata'
  BY <1>1, <1>2, <1>4, <1>6 DEF DiskInv, Ata
<1>11. Progress'
  BY <1>1, <1>4, <1>6 DEF DiskInv, Progress
<1>12. Known'
  BY <1>1, <1>4, <1>5, <1>6 DEF DiskInv, Known
<1>13. QED
  BY <1>7, <1>8, <1>9, <1>10, <1>11, <1>12 DEF DiskInv

LEMMA ReadSectorKept ==
  ASSUME DiskInv, ReadSector
  PROVE  DiskInv'
<1> USE Fields DEF Busy, Moving, Opening, Told, Writing, hdinfo, chain, client, vars
<1> DEFINE start == StartOf(drive, req.dev) + req.pos
<1>1. /\ pc = "woken" /\ doing = "rw" /\ req.type = "READ" /\ ~ irq /\ ~ has_int_msg /\ asked
      /\ k \in Nat /\ k < req.count /\ Len(moved) = k /\ ata.at = start + k
      /\ ata.left = Sectors(req.count) - k
  BY DEF DiskInv, TypeOK, ReadSector, Served, Lines, Progress
<1>2. /\ ata.status = "drq" /\ ata' \in Controllers
      /\ ata'.at = ata.at + 1 /\ ata'.left = ata.left - 1 /\ ata'.data = 0 /\ ata'.cmd = "READ"
      /\ ata'.status = IF ata.left = 1 THEN "idle" ELSE "busy"
  <2>1. PortRead /\ ~ Writing /\ Moving
    BY <1>1 DEF ReadSector
  <2>2. ata.cmd = "READ"
    BY <1>1, <2>1 DEF DiskInv, Ata
  <2>3. QED
    BY <1>1, <2>1, <2>2, Taken
<1>3. Held = ata.at
  BY <1>2 DEF Held
<1>4. /\ moved' \in Seq(Int \X Nat) /\ Len(moved') = k + 1
      /\ \A i \in 1..k : moved'[i] = moved[i]
      /\ moved'[k + 1] = <<ata.at, k + 1>>
  <2>1. moved' = Append(moved, <<ata.at, k + 1>>) /\ moved \in Seq(Int \X Nat)
    BY <1>3 DEF DiskInv, TypeOK, ReadSector
  <2>2. ata.at \in Int /\ k + 1 \in Nat
    BY <1>1 DEF DiskInv
  <2>3. QED
    BY <1>1, <2>1, <2>2, Grown
<1>5. /\ k' = k + 1 /\ pc' = IF k + 1 = req.count THEN "answer" ELSE "wait"
      /\ UNCHANGED <<drive, doing, client, hdinfo, chain, has_int_msg, irq>>
  BY DEF ReadSector, Done
<1>6. ata.left - 1 \in Nat /\ k + 1 = req.count => ata.left = 1
  <2>1. Sectors(req.count) <= req.count /\ Sectors(req.count) \in Nat
    BY <1>1, Register DEF DiskInv
  <2>2. QED
    BY <1>1, <1>2, <2>1 DEF DiskInv, Ata
<1>7. TypeOK'
  BY <1>1, <1>2, <1>4, <1>5 DEF DiskInv, TypeOK, Controllers
<1>8. Served'
  BY <1>1, <1>5 DEF DiskInv, Served
<1>9. Lines'
  BY <1>1, <1>5 DEF DiskInv, Lines
<1>10. Ata'
  BY <1>1, <1>2, <1>5, <1>6 DEF DiskInv, Ata
<1>11. Progress'
  <2>1. \A i \in 1..k : moved[i] = <<start + i - 1, i>>
    BY <1>1 DEF DiskInv, Progress
  <2>2. \A i \in 1..(k + 1) : moved'[i] = <<start + i - 1, i>>
    <3>1. moved'[k + 1] = <<start + k, k + 1>>
      BY <1>1, <1>4
    <3>2. start + (k + 1) - 1 = start + k
      BY <1>1, KnownStart
    <3>3. \A i \in 1..k : moved'[i] = <<start + i - 1, i>>
      BY <1>4, <2>1
    <3>4. \A i \in 1..(k + 1) : i \in 1..k \/ i = k + 1
      BY <1>1
    <3>5. QED
      BY <3>1, <3>2, <3>3, <3>4
  <2>3. ata'.at = start + (k + 1) /\ ata'.left = Sectors(req.count) - (k + 1)
    <3>1. start \in Int /\ Sectors(req.count) \in Nat
      BY <1>1, KnownStart, Register DEF DiskInv
    <3>2. QED
      BY <1>1, <1>2, <3>1
  <2>4. QED
    BY <1>1, <1>4, <1>5, <2>2, <2>3 DEF DiskInv, Progress
<1>12. Known'
  BY <1>1, <1>5 DEF DiskInv, Known
<1>13. QED
  BY <1>7, <1>8, <1>9, <1>10, <1>11, <1>12 DEF DiskInv

LEMMA PollTimeoutKept ==
  ASSUME DiskInv, PollTimeout
  PROVE  DiskInv'
<1> USE Fields DEF Busy, Moving, Opening, Told, Writing, hdinfo, chain, client, vars, PollTimeout
<1>1. TypeOK'
  BY DEF DiskInv, TypeOK
<1>2. Served'
  BY DEF DiskInv, Served
<1>3. Lines'
  BY DEF DiskInv, Lines
<1>4. Ata'
  BY DEF DiskInv, Served, Ata
<1>5. Progress'
  BY DEF DiskInv, Progress
<1>6. Known'
  BY DEF DiskInv, Served, Known
<1>7. QED
  BY <1>1, <1>2, <1>3, <1>4, <1>5, <1>6 DEF DiskInv

LEMMA PortWriteKept ==
  ASSUME DiskInv, PortWrite
  PROVE  DiskInv'
<1> USE Fields DEF Busy, Moving, Opening, Told, Writing, hdinfo, chain, client, vars, PortWrite
<1>1. TypeOK'
  <2> DEFINE a1 == [ata EXCEPT !.data = k + 1]
  <2>1. a1 \in Controllers
    <3>1. ata \in Controllers /\ k + 1 \in Nat
      BY DEF DiskInv, TypeOK
    <3>2. QED
      BY <3>1 DEF Controllers
  <2>2. ata' = [a1 EXCEPT !.status = "busy"]
    BY DEF DiskInv, Controllers
  <2> HIDE DEF a1
  <2>3. ata' \in Controllers
    BY <2>1, <2>2 DEF Controllers
  <2>4. QED
    BY <2>3 DEF DiskInv, TypeOK, Controllers
<1>2. Served'
  BY DEF DiskInv, Served
<1>3. Lines'
  BY DEF DiskInv, Lines
<1>4. Ata'
  BY DEF DiskInv, Served, Lines, Ata
<1>5. Progress'
  BY DEF DiskInv, Progress
<1>6. Known'
  BY DEF DiskInv, Served, Known
<1>7. QED
  BY <1>1, <1>2, <1>3, <1>4, <1>5, <1>6 DEF DiskInv

LEMMA WriteNextKept ==
  ASSUME DiskInv, WriteNext
  PROVE  DiskInv'
<1> USE Fields DEF Busy, Moving, Opening, Told, Writing, hdinfo, chain, client, vars
<1>1. /\ pc = "woken" /\ Writing /\ ~ irq /\ ~ has_int_msg /\ asked
      /\ k \in Nat /\ k < req.count /\ Len(moved) = k + 1
      /\ ata.left = Sectors(req.count) - (k + 1)
      /\ ata.status # "busy" /\ ata.data = 0 /\ ata.cmd = "WRITE"
  BY DEF DiskInv, TypeOK, WriteNext, Served, Lines, Progress, Ata
<1>2. /\ k' = k + 1 /\ pc' = IF k + 1 = req.count THEN "answer" ELSE "poll"
      /\ UNCHANGED <<drive, doing, client, hdinfo, chain, has_int_msg, ata, irq, moved>>
  BY DEF WriteNext, Done
<1>3. k + 1 = req.count => ata.left = 0
  <2>1. Sectors(req.count) <= req.count /\ Sectors(req.count) \in Nat
    BY <1>1, Register DEF DiskInv
  <2>2. QED
    BY <1>1, <2>1 DEF DiskInv
<1>4. TypeOK'
  BY <1>1, <1>2 DEF DiskInv, TypeOK
<1>5. Served'
  BY <1>1, <1>2 DEF DiskInv, Served
<1>6. Lines'
  BY <1>1, <1>2 DEF DiskInv, Lines
<1>7. Ata'
  BY <1>1, <1>2, <1>3 DEF DiskInv, Ata
<1>8. Progress'
  BY <1>1, <1>2 DEF DiskInv, Progress
<1>9. Known'
  BY <1>1, <1>2 DEF DiskInv, Known
<1>10. QED
  BY <1>4, <1>5, <1>6, <1>7, <1>8, <1>9 DEF DiskInv

LEMMA ReplyKept ==
  ASSUME DiskInv, Reply
  PROVE  DiskInv'
<1> USE Fields DEF Busy, Moving, Opening, Told, Writing, hdinfo, chain, client, vars, Reply
<1>1. TypeOK'
  <2>1. req' \in Requests \cup {NoRequest} /\ moved' \in Seq(Int \X Nat)
    OBVIOUS
  <2>2. k' \in Nat /\ asked' \in BOOLEAN /\ pc' = "main"
    OBVIOUS
  <2>3. geo' = -1
    OBVIOUS
  <2>4. -1 \in Int
    OBVIOUS
  <2>5. geo' \in Int
    BY <2>3, <2>4
  <2>6. QED
    BY <2>1, <2>2, <2>5 DEF DiskInv, TypeOK
<1>2. Served'
  BY DEF DiskInv, Served
<1>3. Lines'
  BY DEF DiskInv, Lines
<1>4. Ata'
  BY DEF DiskInv, Lines, Ata
<1>5. Progress'
  BY DEF DiskInv, Progress
<1>6. Known'
  BY DEF DiskInv, Known
<1>7. QED
  BY <1>1, <1>2, <1>3, <1>4, <1>5, <1>6 DEF DiskInv

-----------------------------------------------------------------------------
(* The invariant.                                                          *)

LEMMA DiskInvInit ==
  ASSUME Init
  PROVE  DiskInv
<1> USE DiskAssumption DEF Init, NoRequest, Quiet
<1>1. TypeOK
  <2>1. /\ ata.status \in {"idle", "busy"} /\ ata.cmd = "none" /\ ata.left = 0 /\ ata.data = 0
        /\ ata \in Controllers
    BY DEF Controllers
  <2>2. 0 \in Links /\ -1 \in Int
    BY DEF Links
  <2>3. base \in [Devices -> Int] /\ geo \in Int
    <3>1. \A dev \in Devices : (IF dev = primary(0) THEN 0 ELSE -1) \in Int
      BY <2>2
    <3>2. base = [dev \in Devices |-> IF dev = primary(0) THEN 0 ELSE -1] /\ geo = -1
      OBVIOUS
    <3>3. QED
      BY <2>2, <3>1, <3>2
  <2>4. moved \in Seq(Int \X Nat) /\ req \in Requests \cup {NoRequest}
    OBVIOUS
  <2>5. QED
    BY <2>1, <2>2, <2>3, <2>4 DEF TypeOK, Controllers
<1>2. Served /\ Lines
  BY DEF Served, Lines, Busy
<1>3. Ata
  BY DEF Ata, Busy, Moving, Told
<1>4. Progress
  BY DEF Progress, Moving, Busy
<1>5. Known
  <2>1. primary(0) \in Devices
    BY DEF Devices
  <2>2. QED
    BY <2>1 DEF Known, Opening
<1>6. QED
  BY <1>1, <1>2, <1>3, <1>4, <1>5 DEF DiskInv

LEMMA StutterKept ==
  ASSUME DiskInv, UNCHANGED vars
  PROVE  DiskInv'
<1> USE DEF vars, client, hdinfo, chain, Busy, Moving, Opening, Told, Writing
<1>1. TypeOK'
  BY DEF DiskInv, TypeOK
<1>2. Served' /\ Lines'
  BY DEF DiskInv, Served, Lines
<1>3. Ata'
  BY DEF DiskInv, Ata
<1>4. Progress'
  BY DEF DiskInv, Progress
<1>5. Known'
  BY DEF DiskInv, Known
<1>6. QED
  BY <1>1, <1>2, <1>3, <1>4, <1>5 DEF DiskInv

LEMMA DiskInvStep ==
  ASSUME DiskInv, [Next]_vars
  PROVE  DiskInv'
<1>1. CASE Controller
  BY <1>1, AtaReadyKept, AtaFetchedKept, AtaStoredKept DEF Controller
<1>2. CASE hd_handler
  BY <1>2, hd_handlerKept
<1>3. CASE Task
  BY <1>3, ReceiveKept, OpenKept, CloseKept, IoctlKept, ReadWriteKept, CommandTimeoutKept,
     SendCommandKept, SendCommandNobodyKept, InterruptWaitKept, InterruptSleepKept,
     IdentifiedKept, ReadMbrKept, ReadEbrKept, ReadSectorKept, PollTimeoutKept, PortWriteKept, WriteNextKept, ReplyKept DEF Task
<1>4. ASSUME NEW r \in Requests, Ask(r) PROVE DiskInv'
  BY <1>4, AskKept
<1>5. CASE UNCHANGED vars
  BY <1>5, StutterKept
<1>6. QED
  BY <1>1, <1>2, <1>3, <1>4, <1>5 DEF Next

LEMMA DiskInvariant == Spec => []DiskInv
<1>1. Init => DiskInv
  BY DiskInvInit
<1>2. DiskInv /\ [Next]_vars => DiskInv'
  BY DiskInvStep
<1>3. QED
  BY <1>1, <1>2, PTL DEF Spec

-----------------------------------------------------------------------------
(* The task, the controller and what lies between them stay well typed.    *)
THEOREM TypeCorrect == Spec => []TypeOK
<1>1. DiskInv => TypeOK
  BY DEF DiskInv
<1>2. QED
  BY <1>1, DiskInvariant, PTL

(* hd_rw, hd_open: a wait has its one interrupt, and none is left over     *)
(* when the task listens to its clients again, for requests of any length  *)
(* and whatever the controller's timing.                                   *)
THEOREM InterruptsInStep == Spec => []InStep
<1>1. DiskInv => InStep
  BY DEF DiskInv, TypeOK, InStep, Lines, Ata, Served, Busy
<1>2. QED
  BY <1>1, DiskInvariant, PTL

(* hd_rw, hd_ioctl, partition: what is answered was moved to or from its   *)
(* place, whole and in order, on every drive with any number of primary,   *)
(* extended and logical partitions.                                        *)
THEOREM Exact == Spec => []TransferExact
<1>1. DiskInv => TransferExact
  <2> SUFFICES ASSUME DiskInv, pc = "answer"
               PROVE  /\ req.type \in {"READ", "WRITE"} =>
                           moved = [i \in 1..req.count |-> <<StartOf(drive, req.dev) + req.pos + i - 1, i>>]
                      /\ req.type = "ioctl" => geo = StartOf(drive, req.dev)
    BY DEF TransferExact
  <2> DEFINE start == StartOf(drive, req.dev) + req.pos
  <2>1. ASSUME req.type \in {"READ", "WRITE"}
        PROVE  moved = [i \in 1..req.count |-> <<start + i - 1, i>>]
    <3>1. /\ Len(moved) = req.count
          /\ \A i \in 1..Len(moved) : moved[i] = <<start + i - 1, i>>
      BY <2>1 DEF DiskInv, Progress
    <3>2. moved \in Seq(Int \X Nat)
      BY DEF DiskInv, TypeOK
    <3>3. moved = [i \in 1..Len(moved) |-> moved[i]]
      BY <3>2
    <3>4. QED
      BY <3>1, <3>3
  <2>2. req.type = "ioctl" => geo = StartOf(drive, req.dev)
    BY DEF DiskInv, Progress
  <2>3. QED
    BY <2>1, <2>2
<1>2. QED
  BY <1>1, DiskInvariant, PTL
=============================================================================
