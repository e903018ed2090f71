------------------------------ MODULE MmProofs -------------------------------
(***************************************************************************)
(* Proofs about Mm, for every number of entries.  The argument rests on    *)
(* where a process can be: while the manager serves it, it is on its way   *)
(* to its RECEIVE or blocked there, so nobody else changes its entry.      *)
(***************************************************************************)
EXTENDS Mm, WellFoundedInduction, SequenceTheorems, TLAPS

(* Scans find the first of what they look for: a set of natural numbers    *)
(* has a least one.                                                        *)
LEMMA LeastNatural ==
  ASSUME NEW T \in SUBSET Nat, T # {}
  PROVE  \E m \in T : \A n \in T : m <= n
<1> DEFINE R == OpToRel(<, Nat)
<1>1. IsWellFoundedOn(R, Nat)
  BY NatLessThanWellFounded
<1>2. ASSUME NEW j \in Nat, NEW n \in Nat, n < j PROVE <<n, j>> \in R
  BY <1>2 DEF R, OpToRel
<1> HIDE DEF R
<1>3. PICK m \in T : \A n \in T : <<n, m>> \notin R
  BY <1>1, WFMin, Zenon
<1>4. ASSUME NEW n \in T PROVE m <= n
  <2>1. ~ (n < m)
    BY <1>2, <1>3
  <2>2. m \in Nat /\ n \in Nat
    OBVIOUS
  <2>3. QED
    BY <2>1, <2>2
<1>5. QED
  BY <1>4

(* A caller the manager works for: between its two system calls, or        *)
(* blocked in the second.                                                  *)
Calling(p) == \/ at[p] = "receive" /\ p_flags[p] = {}
              \/ at[p] = "reply" /\ p_flags[p] = {"RECEIVING"}

ServedCall ==
  CASE mm_pc \in {"fork", "fork_flags", "fork_space"} -> "FORK"
    [] mm_pc \in {"wait", "wait_store"} -> "WAIT"
    [] mm_pc = "exit" -> "EXIT"
    [] mm_pc = "exec" -> "EXEC"
    [] OTHER -> "none"

(* The request it works on is that of its caller; the end of a process is  *)
(* never asked for by Init.                                                *)
Served ==
  ServedCall # "none" =>
    /\ Calling(src) /\ call[src] = ServedCall
    /\ src = PROC_INIT => ServedCall \in {"FORK", "WAIT", "EXEC"}

(* A queued caller has not changed since its SEND.                         *)
Queued ==
  /\ \A i \in DOMAIN q_sending :
       LET p == q_sending[i] IN
       /\ p_flags[p] = {"SENDING"} /\ at[p] = "receive"
       /\ msg[p].type = call[p] /\ call[p] \in Calls(p)
  /\ \A i, j \in DOMAIN q_sending : q_sending[i] = q_sending[j] => i = j

(* The entry do_fork fills is a free one first, then not yet one that      *)
(* could make calls of its own.                                            *)
Forking ==
  /\ mm_pc \in {"fork_flags", "fork_space"} =>
       /\ pid \in Slots /\ at[pid] \in {"receive", "reply"}
  /\ mm_pc = "fork_flags" =>
       /\ p_flags[pid] = {"FREE_SLOT"}
       /\ at[pid] = "reply" => at[src] = "reply"
  /\ mm_pc = "fork_space" =>
       /\ p_flags[pid] \in SUBSET {"RECEIVING"}
       /\ at[pid] = "reply" => p_flags[pid] = {"RECEIVING"}

Resting ==
  \A p \in Pid :
    /\ "FREE_SLOT" \in p_flags[p] => p # PROC_INIT /\ p_flags[p] = {"FREE_SLOT"}
    /\ "HANGING" \in p_flags[p] => p # PROC_INIT /\ p_flags[p] \in SUBSET {"HANGING", "RECEIVING"}
    /\ "WAITING" \in p_flags[p] =>
         call[p] = "WAIT" /\ p_flags[p] \in SUBSET {"WAITING", "RECEIVING"}

(* Nobody is his own parent, and who exits is not Init.                    *)
Parents ==
  /\ \A i \in Slots : p_parent[i] # i
  /\ Leaving(pid) => pid \in Slots
  /\ mm_pc = "wait_store" => Hanging(src) = {} /\ seen \in SUBSET {"RECEIVING"}

MmInv == TypeOK /\ FamiliesWhole /\ Served /\ Queued /\ Forking /\ Resting /\ Parents

-----------------------------------------------------------------------------
LEMMA LeastIn ==
  ASSUME NEW S \in SUBSET Slots, S # {}
  PROVE  Least(S) \in S
<1>1. S \in SUBSET Nat
  BY DEF Slots
<1>2. \E m \in S : \A k \in S : m <= k
  BY <1>1, LeastNatural
<1>3. QED
  BY <1>2 DEF Least

LEMMA Messages ==
  /\ \A t \in {"FORK", "WAIT", "EXIT", "EXEC"} : Request(t) \in Message /\ Request(t).type = t
  /\ \A r \in {0, Failure}, p \in Pid \cup {NO_TASK} :
       Answer(r, p) \in Message /\ Answer(r, p).type = "SYSCALL_RET" /\ Answer(r, p).PID = p
  /\ Blank \in Message /\ Blank.type = "SYSCALL_RET"
BY DEF Request, Answer, Blank, Message, Failure

LEMMA Members ==
  /\ PROC_INIT \in Pid /\ PROC_INIT \notin Slots /\ Slots \subseteq Pid
  /\ Pid = Slots \cup {PROC_INIT} /\ NO_TASK \notin Pid
  /\ \A u \in Pid : Calls(u) \subseteq {"FORK", "WAIT", "EXIT", "EXEC"}
  /\ Calls(PROC_INIT) \subseteq {"FORK", "WAIT", "EXEC"}
<1>1. Types \subseteq {"FORK", "WAIT", "EXIT", "EXEC"} /\ NSLOT \in Nat \ {0}
  BY MmAssumption
<1>2. \A u : /\ Calls(u) \subseteq {"FORK", "WAIT", "EXIT", "EXEC"}
             /\ u = PROC_INIT => Calls(u) \subseteq {"FORK", "WAIT", "EXEC"}
  BY <1>1 DEF Calls
<1>3. QED
  BY <1>1, <1>2 DEF PROC_INIT, Slots, Pid, NO_TASK

LEMMA LeastFree ==
  ASSUME Free # {}
  PROVE  Least(Free) \in Slots /\ p_flags[Least(Free)] = {"FREE_SLOT"}
<1>1. Free \in SUBSET Slots
  BY DEF Free
<1>2. Least(Free) \in Free
  BY <1>1, LeastIn
<1>3. QED
  BY <1>1, <1>2 DEF Free

LEMMA LeastChild ==
  ASSUME NEW p, Children(p) # {}
  PROVE  Least(Children(p)) \in Slots /\ p_parent[Least(Children(p))] = p
<1>1. Children(p) \in SUBSET Slots
  BY DEF Children
<1>2. Least(Children(p)) \in Children(p)
  BY <1>1, LeastIn
<1>3. QED
  BY <1>1, <1>2 DEF Children

LEMMA LeastHanging ==
  ASSUME NEW p, Hanging(p) # {}
  PROVE  /\ Least(Hanging(p)) \in Slots /\ p_parent[Least(Hanging(p))] = p
         /\ "HANGING" \in p_flags[Least(Hanging(p))]
<1>1. Hanging(p) \in SUBSET Slots
  BY DEF Hanging, Children
<1>2. Least(Hanging(p)) \in Hanging(p)
  BY <1>1, LeastIn
<1>3. QED
  BY <1>1, <1>2 DEF Hanging, Children

(* RECEIVE takes the first of the queue.                                   *)
LEMMA FirstQueued ==
  ASSUME q_sending \in Seq(Pid), q_sending # <<>>
  PROVE  /\ 1 \in DOMAIN q_sending /\ Head(q_sending) = q_sending[1] /\ Head(q_sending) \in Pid
         /\ Tail(q_sending) \in Seq(Pid)
         /\ \A i \in DOMAIN Tail(q_sending) :
              i # 0 /\ i + 1 \in DOMAIN q_sending /\ Tail(q_sending)[i] = q_sending[i + 1]
OBVIOUS

LEMMA LastQueued ==
  ASSUME q_sending \in Seq(Pid), NEW u \in Pid
  PROVE  /\ Append(q_sending, u) \in Seq(Pid)
         /\ \A i \in DOMAIN Append(q_sending, u) :
              \/ i \in DOMAIN q_sending /\ Append(q_sending, u)[i] = q_sending[i]
              \/ i = Len(q_sending) + 1 /\ Append(q_sending, u)[i] = u
OBVIOUS

LEMMA TypeStep ==
  ASSUME MmInv, [Next]_vars
  PROVE  TypeOK'
<1> USE Members, Messages DEF MmInv, TypeOK, table, users, mm
<1>1. CASE TakeRequest
  <2>1. CASE q_sending = <<>>
    BY <1>1, <2>1 DEF TakeRequest
  <2>2. CASE q_sending # <<>>
    <3>1. src' = Head(q_sending) /\ q_sending' = Tail(q_sending)
      BY <1>1, <2>2 DEF TakeRequest
    <3>2. src' \in Pid /\ src' = q_sending[1] /\ 1 \in DOMAIN q_sending /\ q_sending' \in Seq(Pid)
      BY <2>2, <3>1, FirstQueued
    <3>3. msg[src'].type \in {"FORK", "WAIT", "EXIT", "EXEC"}
      BY <3>2 DEF Queued
    <3>4. First(msg[src'].type) \in {"fork", "wait", "exit", "exec"}
      BY <3>3 DEF First
    <3>5. p_flags' \in [Pid -> SUBSET Flags]
      BY <1>1, <2>2 DEF TakeRequest
    <3>6. QED
      BY <1>1, <2>2, <3>2, <3>4, <3>5 DEF TakeRequest
  <2>3. QED
    BY <2>1, <2>2
<1>2. CASE Send
  <2>1. p_flags' \in [Pid -> SUBSET Flags] /\ msg' \in [Pid -> Message]
    BY <1>2 DEF Send
  <2>2. mm_pc' \in {"send", "sending", resume} /\ halted' \in BOOLEAN
    BY <1>2 DEF Send
  <2>3. QED
    BY <1>2, <2>1, <2>2 DEF Send
<1>3. CASE Reply
  BY <1>3 DEF Reply, Sending
<1>4. CASE ForkFull
  BY <1>4 DEF ForkFull, Serving
<1>5. CASE ForkRegs
  <2>1. pid' \in Slots
    BY <1>5, LeastFree DEF ForkRegs
  <2>2. QED
    BY <1>5, <2>1 DEF ForkRegs, Serving
<1>6. CASE ForkFlags
  BY <1>6 DEF ForkFlags
<1>7. CASE ForkSpace
  BY <1>7 DEF ForkSpace, Sending
<1>8. CASE Exit
  <2>1. src \in Slots /\ "FREE_SLOT" \notin p_flags[src]
    BY <1>8 DEF Exit, Serving, Served, ServedCall, Calling
  <2>2. p_parent[src] \in Pid
    BY <2>1 DEF FamiliesWhole
  <2>3. p_flags' \in [Pid -> SUBSET Flags]
    BY <1>8, <2>2 DEF Exit, Clean, Flags
  <2>4. to' \in Pid /\ out' \in Message /\ resume' \in {"loop", "reply", "orphans"}
        /\ mm_pc' \in {"send", "orphans"}
    BY <1>8, <2>2 DEF Exit, Clean, Sending
  <2>5. QED
    BY <1>8, <2>3, <2>4 DEF Exit, Serving
<1>9. CASE Orphan
  <2>1. Least(Children(pid)) \in Slots
    BY <1>9, LeastChild DEF Orphan
  <2>2. p_flags' \in [Pid -> SUBSET Flags]
    BY <1>9, <2>1 DEF Orphan, Flags
  <2>3. to' \in Pid /\ out' \in Message /\ resume' \in {"loop", "reply", "orphans"}
        /\ mm_pc' \in {"send", "orphans"}
    BY <1>9, <2>1 DEF Orphan, Sending
  <2>4. QED
    BY <1>9, <2>1, <2>2, <2>3 DEF Orphan
<1>10. CASE OrphansDone
  BY <1>10 DEF OrphansDone
<1>11. CASE WaitReap
  <2>1. Least(Hanging(src)) \in Slots
    BY <1>11, LeastHanging DEF WaitReap
  <2>2. p_parent[Least(Hanging(src))] = src
    BY <1>11, LeastHanging DEF WaitReap
  <2>3. p_flags' \in [Pid -> SUBSET Flags]
    BY <1>11, <2>1 DEF WaitReap, Clean, Flags
  <2>4. QED
    BY <1>11, <2>1, <2>2, <2>3 DEF WaitReap, Serving, Clean, Sending
<1>12. CASE WaitLoad
  BY <1>12 DEF WaitLoad, Serving
<1>13. CASE WaitStore
  BY <1>13 DEF WaitStore, Flags
<1>14. CASE WaitNone
  BY <1>14 DEF WaitNone, Serving, Sending
<1>15. CASE ExecFails
  BY <1>15 DEF ExecFails, Serving
<1>16. CASE ExecLoads
  BY <1>16 DEF ExecLoads, Serving
<1>17. ASSUME NEW u \in Pid, NEW t \in Calls(u), SendCall(u, t)
       PROVE  TypeOK'
  <2>1. t \in {"FORK", "WAIT", "EXIT", "EXEC"}
    OBVIOUS
  <2>2. First(t) \in {"fork", "wait", "exit", "exec"}
    BY <2>1 DEF First
  <2>3. CASE mm_pc = "sending" /\ to = u
    BY <1>17, <2>3 DEF SendCall
  <2>4. CASE ~ (mm_pc = "sending" /\ to = u)
    <3>1. p_flags' \in [Pid -> SUBSET Flags] /\ q_sending' \in Seq(Pid)
      <4>1. Append(q_sending, u) \in Seq(Pid)
        BY LastQueued
      <4>2. q_sending' \in {q_sending, Append(q_sending, u)}
        BY <1>17, <2>4 DEF SendCall
      <4>3. p_flags' \in {p_flags, [p_flags EXCEPT ![u] = {"SENDING"}]}
        BY <1>17, <2>4 DEF SendCall
      <4>4. QED
        <5>1. p_flags' \in [Pid -> SUBSET Flags]
          BY <4>3 DEF Flags
        <5>2. QED
          BY <4>1, <4>2, <5>1
    <3>2. mm_pc' \in {mm_pc, First(t)} /\ src' \in Pid
      BY <1>17, <2>4 DEF SendCall
    <3>3. QED
      BY <1>17, <2>1, <2>2, <2>4, <3>1, <3>2 DEF SendCall
  <2>5. QED
    BY <2>3, <2>4
<1>18. ASSUME NEW u \in Pid, ReceiveAnswer(u)
       PROVE  TypeOK'
  BY <1>18 DEF ReceiveAnswer, Flags
<1>19. ASSUME NEW u \in Pid, Return(u)
       PROVE  TypeOK'
  BY <1>19 DEF Return
<1>20. CASE UNCHANGED vars
  BY <1>20 DEF vars
<1>21. QED
  BY <1>1, <1>2, <1>3, <1>4, <1>5, <1>6, <1>7, <1>8, <1>9, <1>10, <1>11, <1>12, <1>13,
     <1>14, <1>15, <1>16, <1>17, <1>18, <1>19, <1>20 DEF Next, Manager, Serve, User

LEMMA RestingStep ==
  ASSUME MmInv, [Next]_vars
  PROVE  Resting'
<1> USE Members DEF MmInv, TypeOK, Resting, table, users, mm
<1>1. CASE TakeRequest
  <2>1. CASE q_sending = <<>>
    BY <1>1, <2>1 DEF TakeRequest
  <2>2. CASE q_sending # <<>>
    <3>1. src' \in Pid /\ src' = q_sending[1] /\ 1 \in DOMAIN q_sending
      BY <1>1, <2>2, FirstQueued DEF TakeRequest
    <3>2. p_flags[src'] = {"SENDING"}
      BY <3>1 DEF Queued
    <3>3. QED
      BY <1>1, <2>2, <3>1, <3>2 DEF TakeRequest
  <2>3. QED
    BY <2>1, <2>2
<1>2. CASE Send
  BY <1>2 DEF Send
<1>3. CASE Reply
  BY <1>3 DEF Reply, Sending
<1>4. CASE ForkFull
  BY <1>4 DEF ForkFull, Serving
<1>5. CASE ForkRegs
  <2>1. pid' \in Slots /\ p_flags[pid'] = {"FREE_SLOT"}
    BY <1>5, LeastFree DEF ForkRegs
  <2>2. QED
    BY <1>5, <2>1 DEF ForkRegs, Serving
<1>6. CASE ForkFlags
  <2>1. pid \in Slots /\ p_flags[src] \in SUBSET {"RECEIVING"}
    BY <1>6 DEF ForkFlags, Served, ServedCall, Calling, Forking
  <2>2. QED
    BY <1>6, <2>1 DEF ForkFlags
<1>7. CASE ForkSpace
  BY <1>7 DEF ForkSpace, Sending
<1>8. CASE Exit
  <2>1. src \in Slots /\ p_flags[src] \in SUBSET {"RECEIVING"}
    BY <1>8 DEF Exit, Serving, Served, ServedCall, Calling
  <2>2. p_parent[src] \in Pid
    BY <2>1 DEF FamiliesWhole
  <2>3. QED
    BY <1>8, <2>1, <2>2 DEF Exit, Serving, Clean
<1>9. CASE Orphan
  <2>1. Least(Children(pid)) \in Slots
    BY <1>9, LeastChild DEF Orphan
  <2>2. QED
    BY <1>9, <2>1 DEF Orphan
<1>10. CASE OrphansDone
  BY <1>10 DEF OrphansDone
<1>11. CASE WaitReap
  <2>1. Least(Hanging(src)) \in Slots
    BY <1>11, LeastHanging DEF WaitReap
  <2>2. QED
    BY <1>11, <2>1 DEF WaitReap, Serving, Clean
<1>12. CASE WaitLoad
  BY <1>12 DEF WaitLoad, Serving
<1>13. CASE WaitStore
  <2>1. call[src] = "WAIT" /\ seen \in SUBSET {"RECEIVING"}
    BY <1>13 DEF WaitStore, Served, ServedCall, Parents
  <2>2. QED
    BY <1>13, <2>1 DEF WaitStore
<1>14. CASE WaitNone
  BY <1>14 DEF WaitNone, Serving, Sending
<1>15. CASE ExecFails
  BY <1>15 DEF ExecFails, Serving
<1>16. CASE ExecLoads
  BY <1>16 DEF ExecLoads, Serving, Served, ServedCall, Calling
<1>17. ASSUME NEW u \in Pid, NEW t \in Calls(u), SendCall(u, t)
       PROVE  Resting'
  BY <1>17 DEF SendCall, Running
<1>18. ASSUME NEW u \in Pid, ReceiveAnswer(u)
       PROVE  Resting'
  BY <1>18 DEF ReceiveAnswer, Running
<1>19. ASSUME NEW u \in Pid, Return(u)
       PROVE  Resting'
  BY <1>19 DEF Return, Running
<1>20. CASE UNCHANGED vars
  BY <1>20 DEF vars
<1>21. QED
  BY <1>1, <1>2, <1>3, <1>4, <1>5, <1>6, <1>7, <1>8, <1>9, <1>10, <1>11, <1>12, <1>13,
     <1>14, <1>15, <1>16, <1>17, <1>18, <1>19, <1>20 DEF Next, Manager, Serve, User

(* A step that leaves blocked senders alone.                               *)
SendersLeft ==
  \A p \in Pid : p_flags[p] = {"SENDING"} =>
    /\ p_flags'[p] = {"SENDING"} /\ at'[p] = at[p]
    /\ msg'[p] = msg[p] /\ call'[p] = call[p]

LEMMA QueuedFrame ==
  ASSUME MmInv, q_sending' = q_sending, SendersLeft
  PROVE  Queued'
<1>1. ASSUME NEW i \in DOMAIN q_sending
      PROVE  LET p == q_sending[i] IN
             /\ p_flags'[p] = {"SENDING"} /\ at'[p] = "receive"
             /\ msg'[p].type = call'[p] /\ call'[p] \in Calls(p)
  <2>1. q_sending[i] \in Pid
    BY DEF MmInv, TypeOK
  <2>2. p_flags[q_sending[i]] = {"SENDING"}
    BY DEF MmInv, Queued
  <2>3. QED
    BY <2>1, <2>2 DEF MmInv, Queued, SendersLeft
<1>2. \A i, j \in DOMAIN q_sending : q_sending[i] = q_sending[j] => i = j
  BY DEF MmInv, Queued
<1>3. QED
  BY <1>1, <1>2 DEF Queued

LEMMA QueuedStep ==
  ASSUME MmInv, [Next]_vars
  PROVE  Queued'
<1> USE Members DEF MmInv, TypeOK, table, users, mm
<1>1. CASE TakeRequest
  <2>1. CASE q_sending = <<>>
    BY <1>1, <2>1, QueuedFrame DEF SendersLeft, TakeRequest
  <2>2. CASE q_sending # <<>>
    <3>1. src' = q_sending[1] /\ 1 \in DOMAIN q_sending /\ q_sending[1] \in Pid
      BY <1>1, <2>2, FirstQueued DEF TakeRequest
    <3>2. \A i \in DOMAIN q_sending' :
            i # 0 /\ i + 1 \in DOMAIN q_sending /\ q_sending'[i] = q_sending[i + 1]
      BY <1>1, <2>2, FirstQueued DEF TakeRequest
    <3>3. \A i \in DOMAIN q_sending' : i \in Int
      BY <1>1, <2>2, FirstQueued DEF TakeRequest
    <3>4. \A i \in DOMAIN q_sending' : q_sending'[i] \in Pid /\ q_sending'[i] # src'
      BY <3>1, <3>2, <3>3 DEF Queued
    <3>5. \A p \in Pid \ {src'} : p_flags'[p] = p_flags[p]
      BY <1>1, <2>2 DEF TakeRequest
    <3>6. at' = at /\ call' = call /\ msg' = msg
      BY <1>1 DEF TakeRequest
    <3>7. QED
      BY <3>2, <3>3, <3>4, <3>5, <3>6 DEF Queued
  <2>3. QED
    BY <2>1, <2>2
<1>2. CASE Send
  BY <1>2, QueuedFrame DEF SendersLeft, Send
<1>3. CASE Reply
  BY <1>3, QueuedFrame DEF SendersLeft, Reply, Sending
<1>4. CASE ForkFull
  BY <1>4, QueuedFrame DEF SendersLeft, ForkFull, Serving
<1>5. CASE ForkRegs
  <2>1. pid' \in Slots /\ p_flags[pid'] = {"FREE_SLOT"}
    BY <1>5, LeastFree DEF ForkRegs
  <2>2. QED
    BY <1>5, <2>1, QueuedFrame DEF SendersLeft, ForkRegs
<1>6. CASE ForkFlags
  BY <1>6, QueuedFrame DEF SendersLeft, ForkFlags, Forking
<1>7. CASE ForkSpace
  BY <1>7, QueuedFrame DEF SendersLeft, ForkSpace, Sending, Forking
<1>8. CASE Exit
  <2>1. src \in Slots /\ p_flags[src] \in SUBSET {"RECEIVING"}
    BY <1>8 DEF Exit, Serving, Served, ServedCall, Calling
  <2>2. p_parent[src] \in Pid
    BY <2>1 DEF FamiliesWhole
  <2>3. \A p \in Pid : p_flags[p] = {"SENDING"} => p_flags'[p] = {"SENDING"}
    <3>1. \A p \in Pid : p # src => p_flags'[p] \in {p_flags[p], p_flags[p] \ {"WAITING"}}
      BY <1>8, <2>1, <2>2 DEF Exit, Clean
    <3>2. {"SENDING"} \ {"WAITING"} = {"SENDING"}
      OBVIOUS
    <3>3. QED
      BY <2>1, <3>1, <3>2
  <2>4. QED
    BY <1>8, <2>3, QueuedFrame DEF SendersLeft, Exit
<1>9. CASE Orphan
  <2>1. Least(Children(pid)) \in Slots
    BY <1>9, LeastChild DEF Orphan
  <2>2. \A p \in Pid : p_flags[p] = {"SENDING"} => p_flags'[p] = {"SENDING"}
    BY <1>9, <2>1 DEF Orphan
  <2>3. QED
    BY <1>9, <2>2, QueuedFrame DEF SendersLeft, Orphan
<1>10. CASE OrphansDone
  BY <1>10, QueuedFrame DEF SendersLeft, OrphansDone
<1>11. CASE WaitReap
  <2>1. Least(Hanging(src)) \in Slots /\ "HANGING" \in p_flags[Least(Hanging(src))]
    BY <1>11, LeastHanging DEF WaitReap
  <2>2. \A p \in Pid : p_flags[p] = {"SENDING"} => p_flags'[p] = {"SENDING"}
    BY <1>11, <2>1 DEF WaitReap, Clean
  <2>3. QED
    BY <1>11, <2>2, QueuedFrame DEF SendersLeft, WaitReap
<1>12. CASE WaitLoad
  BY <1>12, QueuedFrame DEF SendersLeft, WaitLoad, Serving
<1>13. CASE WaitStore
  BY <1>13, QueuedFrame DEF SendersLeft, WaitStore, Served, ServedCall, Calling
<1>14. CASE WaitNone
  BY <1>14, QueuedFrame DEF SendersLeft, WaitNone, Serving, Sending
<1>15. CASE ExecFails
  BY <1>15, QueuedFrame DEF SendersLeft, ExecFails, Serving
<1>16. CASE ExecLoads
  BY <1>16, QueuedFrame DEF SendersLeft, ExecLoads, Serving, Served, ServedCall, Calling
<1>17. ASSUME NEW u \in Pid, NEW t \in Calls(u), SendCall(u, t)
       PROVE  Queued'
  <2>1. CASE (mm_pc = "sending" /\ to = u) \/ mm_pc = "receiving"
    <3>1. p_flags[u] = {} /\ p_flags' = p_flags /\ q_sending' = q_sending
      BY <1>17, <2>1 DEF SendCall, Running
    <3>2. \A p \in Pid \ {u} : at'[p] = at[p] /\ msg'[p] = msg[p] /\ call'[p] = call[p]
      BY <1>17, <2>1 DEF SendCall
    <3>3. SendersLeft
      BY <3>1, <3>2 DEF SendersLeft
    <3>4. QED
      BY <3>1, <3>3, QueuedFrame
  <2>2. CASE ~ (mm_pc = "sending" /\ to = u) /\ mm_pc # "receiving"
    <3>1. \A i \in DOMAIN q_sending' :
             \/ i \in DOMAIN q_sending /\ q_sending'[i] = q_sending[i]
             \/ i = Len(q_sending) + 1 /\ q_sending'[i] = u
      BY <1>17, <2>2, LastQueued DEF SendCall
    <3>2. \A i \in DOMAIN q_sending : q_sending[i] # u
      BY <1>17 DEF SendCall, Running, Queued
    <3>3. p_flags'[u] = {"SENDING"} /\ at'[u] = "receive" /\ msg'[u].type = t /\ call'[u] = t
      <4>1. Request(t).type = t
        BY Messages
      <4>2. QED
        BY <1>17, <2>2, <4>1 DEF SendCall
    <3>4. \A p \in Pid \ {u} : /\ p_flags'[p] = p_flags[p] /\ at'[p] = at[p]
                              /\ msg'[p] = msg[p] /\ call'[p] = call[p]
      BY <1>17 DEF SendCall
    <3>5. QED
      BY <3>1, <3>2, <3>3, <3>4 DEF Queued
  <2>3. QED
    BY <1>17, <2>1, <2>2 DEF SendCall
<1>18. ASSUME NEW u \in Pid, ReceiveAnswer(u)
       PROVE  Queued'
  <2>1. p_flags[u] = {} /\ q_sending' = q_sending
    BY <1>18 DEF ReceiveAnswer, Running
  <2>2. \A p \in Pid \ {u} : /\ p_flags'[p] = p_flags[p] /\ at'[p] = at[p]
                            /\ msg'[p] = msg[p] /\ call'[p] = call[p]
    BY <1>18 DEF ReceiveAnswer
  <2>3. SendersLeft
    BY <2>1, <2>2 DEF SendersLeft
  <2>4. QED
    BY <2>1, <2>3, QueuedFrame
<1>19. ASSUME NEW u \in Pid, Return(u)
       PROVE  Queued'
  BY <1>19, QueuedFrame DEF SendersLeft, Return, Running
<1>20. CASE UNCHANGED vars
  BY <1>20, QueuedFrame DEF SendersLeft, vars
<1>21. QED
  BY <1>1, <1>2, <1>3, <1>4, <1>5, <1>6, <1>7, <1>8, <1>9, <1>10, <1>11, <1>12, <1>13,
     <1>14, <1>15, <1>16, <1>17, <1>18, <1>19, <1>20 DEF Next, Manager, Serve, User

LEMMA ServedStep ==
  ASSUME MmInv, [Next]_vars
  PROVE  Served'
<1> USE Members DEF MmInv, TypeOK, Served, ServedCall, Calling, table, users, mm
<1>1. CASE TakeRequest
  <2>1. CASE q_sending = <<>>
    BY <1>1, <2>1 DEF TakeRequest
  <2>2. CASE q_sending # <<>>
    <3>1. src' = q_sending[1] /\ 1 \in DOMAIN q_sending /\ q_sending[1] \in Pid
      BY <1>1, <2>2, FirstQueued DEF TakeRequest
    <3>2. p_flags[src'] = {"SENDING"} /\ at[src'] = "receive" /\ msg[src'].type = call[src']
          /\ call[src'] \in Calls(src')
      BY <3>1 DEF Queued
    <3>3. p_flags'[src'] = {} /\ at' = at /\ call' = call /\ mm_pc' = First(call[src'])
      BY <1>1, <2>2, <3>1, <3>2 DEF TakeRequest
    <3>4. call[src'] \in {"FORK", "WAIT", "EXIT", "EXEC"}
          /\ (src' = PROC_INIT => call[src'] \in {"FORK", "WAIT", "EXEC"})
      BY <3>1, <3>2
    <3>5. QED
      BY <3>2, <3>3, <3>4 DEF First
  <2>3. QED
    BY <2>1, <2>2
<1>2. CASE Send
  BY <1>2 DEF Send
<1>3. CASE Reply
  BY <1>3 DEF Reply, Sending
<1>4. CASE ForkFull
  BY <1>4 DEF ForkFull, Serving
<1>5. CASE ForkRegs
  <2>1. pid' \in Slots /\ p_flags[pid'] = {"FREE_SLOT"}
    BY <1>5, LeastFree DEF ForkRegs
  <2>2. pid' # src
    BY <1>5, <2>1 DEF ForkRegs, Serving
  <2>3. QED
    BY <1>5, <2>1, <2>2 DEF ForkRegs, Serving
<1>6. CASE ForkFlags
  BY <1>6 DEF ForkFlags, Forking
<1>7. CASE ForkSpace
  BY <1>7 DEF ForkSpace, Sending
<1>8. CASE Exit
  BY <1>8 DEF Exit, Serving, Clean, Sending
<1>9. CASE Orphan
  BY <1>9 DEF Orphan, Sending
<1>10. CASE OrphansDone
  BY <1>10 DEF OrphansDone
<1>11. CASE WaitReap
  BY <1>11 DEF WaitReap, Clean, Sending
<1>12. CASE WaitLoad
  BY <1>12 DEF WaitLoad, Serving
<1>13. CASE WaitStore
  BY <1>13 DEF WaitStore
<1>14. CASE WaitNone
  BY <1>14 DEF WaitNone, Serving, Sending
<1>15. CASE ExecFails
  BY <1>15 DEF ExecFails, Serving
<1>16. CASE ExecLoads
  BY <1>16 DEF ExecLoads, Serving
<1>17. ASSUME NEW u \in Pid, NEW t \in Calls(u), SendCall(u, t)
       PROVE  Served'
  <2>1. CASE mm_pc = "receiving"
    <3>1. t \in {"FORK", "WAIT", "EXIT", "EXEC"} /\ (u = PROC_INIT => t \in {"FORK", "WAIT", "EXEC"})
      OBVIOUS
    <3>2. src' = u /\ mm_pc' = First(t) /\ p_flags'[u] = {} /\ at'[u] = "receive" /\ call'[u] = t
      BY <1>17, <2>1 DEF SendCall, Running
    <3>3. QED
      BY <3>1, <3>2 DEF First
  <2>2. CASE mm_pc # "receiving"
    BY <1>17, <2>2 DEF SendCall, Running
  <2>3. QED
    BY <2>1, <2>2
<1>18. ASSUME NEW u \in Pid, ReceiveAnswer(u)
       PROVE  Served'
  BY <1>18 DEF ReceiveAnswer, Running
<1>19. ASSUME NEW u \in Pid, Return(u)
       PROVE  Served'
  BY <1>19 DEF Return, Running
<1>20. CASE UNCHANGED vars
  BY <1>20 DEF vars
<1>21. QED
  BY <1>1, <1>2, <1>3, <1>4, <1>5, <1>6, <1>7, <1>8, <1>9, <1>10, <1>11, <1>12, <1>13,
     <1>14, <1>15, <1>16, <1>17, <1>18, <1>19, <1>20 DEF Next, Manager, Serve, User

LEMMA ForkingStep ==
  ASSUME MmInv, [Next]_vars
  PROVE  Forking'
<1> USE Members DEF MmInv, TypeOK, Forking, table, users, mm
<1>1. CASE TakeRequest
  <2>1. CASE q_sending = <<>>
    BY <1>1, <2>1 DEF TakeRequest
  <2>2. CASE q_sending # <<>>
    <3>1. src' = q_sending[1] /\ 1 \in DOMAIN q_sending /\ q_sending[1] \in Pid
      BY <1>1, <2>2, FirstQueued DEF TakeRequest
    <3>2. msg[src'].type \in {"FORK", "WAIT", "EXIT", "EXEC"}
      BY <3>1 DEF Queued
    <3>3. QED
      BY <1>1, <2>2, <3>2 DEF TakeRequest, First
  <2>3. QED
    BY <2>1, <2>2
<1>2. CASE Send
  BY <1>2 DEF Send
<1>3. CASE Reply
  BY <1>3 DEF Reply, Sending
<1>4. CASE ForkFull
  BY <1>4 DEF ForkFull, Serving
<1>5. CASE ForkRegs
  <2>1. pid' \in Slots /\ p_flags[pid'] = {"FREE_SLOT"}
    BY <1>5, LeastFree DEF ForkRegs
  <2>2. at[src] \in {"receive", "reply"} /\ pid' # src
    BY <1>5, <2>1 DEF ForkRegs, Serving, Served, ServedCall, Calling
  <2>3. QED
    BY <1>5, <2>1, <2>2 DEF ForkRegs, Serving
<1>6. CASE ForkFlags
  <2>1. at[src] = "reply" => p_flags[src] = {"RECEIVING"}
    BY <1>6 DEF ForkFlags, Served, ServedCall, Calling
  <2>2. p_flags[src] \in SUBSET {"RECEIVING"}
    BY <1>6 DEF ForkFlags, Served, ServedCall, Calling
  <2>3. QED
    BY <1>6, <2>1, <2>2 DEF ForkFlags
<1>7. CASE ForkSpace
  BY <1>7 DEF ForkSpace, Sending
<1>8. CASE Exit
  BY <1>8 DEF Exit, Serving, Clean, Sending
<1>9. CASE Orphan
  BY <1>9 DEF Orphan, Sending
<1>10. CASE OrphansDone
  BY <1>10 DEF OrphansDone
<1>11. CASE WaitReap
  BY <1>11 DEF WaitReap, Clean, Sending
<1>12. CASE WaitLoad
  BY <1>12 DEF WaitLoad, Serving
<1>13. CASE WaitStore
  BY <1>13 DEF WaitStore
<1>14. CASE WaitNone
  BY <1>14 DEF WaitNone, Serving, Sending
<1>15. CASE ExecFails
  BY <1>15 DEF ExecFails, Serving
<1>16. CASE ExecLoads
  BY <1>16 DEF ExecLoads, Serving
<1>17. ASSUME NEW u \in Pid, NEW t \in Calls(u), SendCall(u, t)
       PROVE  Forking'
  <2>1. CASE mm_pc = "receiving"
    <3>1. mm_pc' \in {"fork", "wait", "exit", "exec"}
      BY <1>17, <2>1 DEF SendCall, First
    <3>2. QED
      BY <3>1
  <2>2. CASE mm_pc # "receiving"
    BY <1>17, <2>2 DEF SendCall, Running
  <2>3. QED
    BY <2>1, <2>2
<1>18. ASSUME NEW u \in Pid, ReceiveAnswer(u)
       PROVE  Forking'
  <2>1. p_flags[u] = {} /\ p_flags' \in {p_flags, [p_flags EXCEPT ![u] = {"RECEIVING"}]}
        /\ at' = [at EXCEPT ![u] = "reply"]
    BY <1>18 DEF ReceiveAnswer, Running
  <2>2. CASE mm_pc' \in {"fork_flags", "fork_space"}
    <3>1. p_flags' = [p_flags EXCEPT ![u] = {"RECEIVING"}] /\ UNCHANGED mm
      BY <1>18, <2>2 DEF ReceiveAnswer
    <3>2. QED
      BY <2>1, <3>1
  <2>3. QED
    BY <2>2
<1>19. ASSUME NEW u \in Pid, Return(u)
       PROVE  Forking'
  BY <1>19 DEF Return, Running, Served, ServedCall, Calling
<1>20. CASE UNCHANGED vars
  BY <1>20 DEF vars
<1>21. QED
  BY <1>1, <1>2, <1>3, <1>4, <1>5, <1>6, <1>7, <1>8, <1>9, <1>10, <1>11, <1>12, <1>13,
     <1>14, <1>15, <1>16, <1>17, <1>18, <1>19, <1>20 DEF Next, Manager, Serve, User

LEMMA ParentsStep ==
  ASSUME MmInv, [Next]_vars
  PROVE  Parents'
<1> USE Members DEF MmInv, TypeOK, Parents, Leaving, table, users, mm
<1>1. CASE TakeRequest
  <2>1. mm_pc' \notin {"wait_store", "orphans", "send", "sending"}
    <3>1. CASE q_sending = <<>>
      BY <1>1, <3>1 DEF TakeRequest
    <3>2. CASE q_sending # <<>>
      <4>1. src' = q_sending[1] /\ 1 \in DOMAIN q_sending /\ q_sending[1] \in Pid
        BY <1>1, <3>2, FirstQueued DEF TakeRequest
      <4>2. msg[src'].type \in {"FORK", "WAIT", "EXIT", "EXEC"}
        BY <4>1 DEF Queued
      <4>3. QED
        BY <1>1, <3>2, <4>2 DEF TakeRequest, First
    <3>3. QED
      BY <3>1, <3>2
  <2>2. QED
    BY <1>1, <2>1 DEF TakeRequest
<1>2. CASE Send
  BY <1>2 DEF Send
<1>3. CASE Reply
  BY <1>3 DEF Reply, Sending
<1>4. CASE ForkFull
  BY <1>4 DEF ForkFull, Serving
<1>5. CASE ForkRegs
  BY <1>5 DEF ForkRegs
<1>6. CASE ForkFlags
  <2>1. pid \in Slots /\ p_flags[pid] # p_flags[src]
    BY <1>6 DEF ForkFlags, Forking, Served, ServedCall, Calling
  <2>2. QED
    BY <1>6, <2>1 DEF ForkFlags
<1>7. CASE ForkSpace
  BY <1>7 DEF ForkSpace, Sending
<1>8. CASE Exit
  BY <1>8 DEF Exit, Serving, Clean, Sending, Served, ServedCall
<1>9. CASE Orphan
  <2>1. Least(Children(pid)) \in Slots
    BY <1>9, LeastChild DEF Orphan
  <2>2. QED
    BY <1>9, <2>1 DEF Orphan, Sending
<1>10. CASE OrphansDone
  BY <1>10 DEF OrphansDone
<1>11. CASE WaitReap
  BY <1>11 DEF WaitReap, Serving, Clean, Sending
<1>12. CASE WaitLoad
  <2>1. p_flags[src] \in SUBSET {"RECEIVING"}
    BY <1>12 DEF WaitLoad, Serving, Served, ServedCall, Calling
  <2>2. QED
    BY <1>12, <2>1 DEF WaitLoad, Serving, Hanging, Children
<1>13. CASE WaitStore
  BY <1>13 DEF WaitStore
<1>14. CASE WaitNone
  BY <1>14 DEF WaitNone, Serving, Sending
<1>15. CASE ExecFails
  BY <1>15 DEF ExecFails, Serving
<1>16. CASE ExecLoads
  BY <1>16 DEF ExecLoads, Serving
<1>17. ASSUME NEW u \in Pid, NEW t \in Calls(u), SendCall(u, t)
       PROVE  Parents'
  <2>1. CASE mm_pc = "receiving"
    <3>1. mm_pc' \in {"fork", "wait", "exit", "exec"}
      BY <1>17, <2>1 DEF SendCall, First
    <3>2. QED
      BY <1>17, <2>1, <3>1 DEF SendCall
  <2>2. CASE mm_pc # "receiving"
    <3>1. \A i \in Slots : "HANGING" \in p_flags'[i] => "HANGING" \in p_flags[i]
      BY <1>17 DEF SendCall
    <3>2. QED
      BY <1>17, <2>2, <3>1 DEF SendCall, Hanging, Children
  <2>3. QED
    BY <2>1, <2>2
<1>18. ASSUME NEW u \in Pid, ReceiveAnswer(u)
       PROVE  Parents'
  <2>1. \A i \in Slots : "HANGING" \in p_flags'[i] => "HANGING" \in p_flags[i]
    BY <1>18 DEF ReceiveAnswer
  <2>2. QED
    BY <1>18, <2>1 DEF ReceiveAnswer, Hanging, Children
<1>19. ASSUME NEW u \in Pid, Return(u)
       PROVE  Parents'
  BY <1>19 DEF Return, Hanging, Children
<1>20. CASE UNCHANGED vars
  BY <1>20 DEF vars, Hanging, Children
<1>21. QED
  BY <1>1, <1>2, <1>3, <1>4, <1>5, <1>6, <1>7, <1>8, <1>9, <1>10, <1>11, <1>12, <1>13,
     <1>14, <1>15, <1>16, <1>17, <1>18, <1>19, <1>20 DEF Next, Manager, Serve, User

LEMMA FamiliesStep ==
  ASSUME MmInv, [Next]_vars
  PROVE  FamiliesWhole'
<1> USE Members DEF MmInv, TypeOK, FamiliesWhole, Dead, Leaving, table, users, mm
<1>1. CASE TakeRequest
  <2>1. CASE q_sending = <<>>
    BY <1>1, <2>1 DEF TakeRequest
  <2>2. CASE q_sending # <<>>
    <3>1. src' = q_sending[1] /\ 1 \in DOMAIN q_sending /\ q_sending[1] \in Pid
      BY <1>1, <2>2, FirstQueued DEF TakeRequest
    <3>2. p_flags[src'] = {"SENDING"}
      BY <3>1 DEF Queued
    <3>3. p_flags' = [p_flags EXCEPT ![src'] = @ \ {"SENDING"}] /\ p_parent' = p_parent
      BY <1>1, <2>2 DEF TakeRequest
    <3>4. QED
      BY <1>1, <3>1, <3>2, <3>3 DEF TakeRequest
  <2>3. QED
    BY <2>1, <2>2
<1>2. CASE Send
  BY <1>2 DEF Send
<1>3. CASE Reply
  BY <1>3 DEF Reply, Sending
<1>4. CASE ForkFull
  BY <1>4 DEF ForkFull, Serving
<1>5. CASE ForkRegs
  BY <1>5 DEF ForkRegs, Serving
<1>6. CASE ForkFlags
  <2>1. pid \in Slots /\ p_flags[pid] = {"FREE_SLOT"}
        /\ p_flags[src] \in SUBSET {"RECEIVING"} /\ mm_pc = "fork_flags"
    BY <1>6 DEF ForkFlags, Forking, Served, ServedCall, Calling
  <2>2. QED
    BY <1>6, <2>1 DEF ForkFlags
<1>7. CASE ForkSpace
  BY <1>7 DEF ForkSpace, Sending
<1>8. CASE Exit
  <2>1. src \in Slots /\ p_flags[src] \in SUBSET {"RECEIVING"} /\ mm_pc = "exit"
    BY <1>8 DEF Exit, Serving, Served, ServedCall, Calling
  <2>2. p_parent[src] \in Pid /\ p_parent[src] # src
    BY <2>1 DEF Parents
  <2>3. Leaving(src)' /\ p_parent' = p_parent
    BY <1>8 DEF Exit, Clean, Sending
  <2>4. CASE "WAITING" \in p_flags[p_parent[src]]
    BY <1>8, <2>1, <2>2, <2>3, <2>4 DEF Exit, Clean
  <2>5. CASE "WAITING" \notin p_flags[p_parent[src]]
    BY <1>8, <2>1, <2>2, <2>3, <2>5 DEF Exit
  <2>6. QED
    BY <2>4, <2>5
<1>9. CASE Orphan
  <2> DEFINE i == Least(Children(pid))
  <2>1. i \in Slots /\ p_parent[i] = pid /\ pid \in Slots /\ i # pid /\ mm_pc = "orphans"
    BY <1>9, LeastChild DEF Orphan, Parents
  <2>2. pid' = pid /\ p_parent' = [p_parent EXCEPT ![i] = PROC_INIT] /\ Leaving(pid)'
    BY <1>9 DEF Orphan, Sending
  <2>3. ~ Dead(PROC_INIT)
    BY DEF Resting
  <2>4. CASE "HANGING" \in p_flags[i] /\ "WAITING" \in p_flags[PROC_INIT]
    <3>1. p_flags' = [p_flags EXCEPT ![PROC_INIT] = @ \ {"WAITING"}, ![i] = {"FREE_SLOT"}]
      BY <1>9, <2>4 DEF Orphan
    <3>2. QED
      BY <2>1, <2>2, <2>3, <2>4, <3>1
  <2>5. CASE ~ ("HANGING" \in p_flags[i] /\ "WAITING" \in p_flags[PROC_INIT])
    <3>1. p_flags' = p_flags
      BY <1>9, <2>5 DEF Orphan
    <3>2. QED
      BY <2>1, <2>2, <2>3, <2>5, <3>1
  <2>6. QED
    BY <2>4, <2>5
<1>10. CASE OrphansDone
  BY <1>10 DEF OrphansDone, Children
<1>11. CASE WaitReap
  <2> DEFINE i == Least(Hanging(src))
  <2>1. i \in Slots /\ p_parent[i] = src /\ "HANGING" \in p_flags[i] /\ mm_pc = "wait"
    BY <1>11, LeastHanging DEF WaitReap, Serving
  <2>2. p_flags' = [p_flags EXCEPT ![i] = {"FREE_SLOT"}] /\ p_parent' = p_parent
    BY <1>11 DEF WaitReap, Clean
  <2>3. QED
    BY <2>1, <2>2
<1>12. CASE WaitLoad
  BY <1>12 DEF WaitLoad, Serving
<1>13. CASE WaitStore
  <2>1. p_flags[src] \in SUBSET {"RECEIVING"} /\ seen \in SUBSET {"RECEIVING"}
        /\ Hanging(src) = {} /\ mm_pc = "wait_store"
    BY <1>13 DEF WaitStore, Served, ServedCall, Calling, Parents
  <2>2. p_flags' = [p_flags EXCEPT ![src] = seen \cup {"WAITING"}] /\ p_parent' = p_parent
    BY <1>13 DEF WaitStore
  <2>3. QED
    BY <2>1, <2>2 DEF Hanging, Children
<1>14. CASE WaitNone
  BY <1>14 DEF WaitNone, Serving, Sending
<1>15. CASE ExecFails
  BY <1>15 DEF ExecFails, Serving
<1>16. CASE ExecLoads
  BY <1>16 DEF ExecLoads, Serving
<1>17. ASSUME NEW u \in Pid, NEW t \in Calls(u), SendCall(u, t)
       PROVE  FamiliesWhole'
  <2>1. p_parent' = p_parent /\ p_flags' \in {p_flags, [p_flags EXCEPT ![u] = {"SENDING"}]}
    BY <1>17 DEF SendCall
  <2>2. p_flags[u] = {}
    BY <1>17 DEF SendCall, Running
  <2>3. \A p : Leaving(p) => Leaving(p)'
    BY <1>17 DEF SendCall
  <2>4. QED
    BY <2>1, <2>2, <2>3
<1>18. ASSUME NEW u \in Pid, ReceiveAnswer(u)
       PROVE  FamiliesWhole'
  <2>1. p_parent' = p_parent /\ p_flags' \in {p_flags, [p_flags EXCEPT ![u] = {"RECEIVING"}]}
    BY <1>18 DEF ReceiveAnswer
  <2>2. p_flags[u] = {}
    BY <1>18 DEF ReceiveAnswer, Running
  <2>3. \A p : Leaving(p) => Leaving(p)'
    BY <1>18 DEF ReceiveAnswer
  <2>4. QED
    BY <2>1, <2>2, <2>3
<1>19. ASSUME NEW u \in Pid, Return(u)
       PROVE  FamiliesWhole'
  BY <1>19 DEF Return
<1>20. CASE UNCHANGED vars
  BY <1>20 DEF vars
<1>21. QED
  BY <1>1, <1>2, <1>3, <1>4, <1>5, <1>6, <1>7, <1>8, <1>9, <1>10, <1>11, <1>12, <1>13,
     <1>14, <1>15, <1>16, <1>17, <1>18, <1>19, <1>20 DEF Next, Manager, Serve, User

LEMMA MmInvInit == Init => MmInv
<1> SUFFICES ASSUME Init PROVE MmInv
  OBVIOUS
<1> USE Members, Messages DEF Init
<1>1. TypeOK
  <2>1. q_sending \in Seq(Pid)
    OBVIOUS
  <2>2. p_flags \in [Pid -> SUBSET Flags]
    BY DEF Flags
  <2>3. QED
    BY <2>1, <2>2 DEF TypeOK
<1>2. FamiliesWhole
  BY DEF FamiliesWhole
<1>3. Served /\ Forking /\ Parents
  BY DEF Served, ServedCall, Forking, Parents, Leaving
<1>4. Queued
  BY DEF Queued
<1>5. Resting
  BY DEF Resting
<1>6. QED
  BY <1>1, <1>2, <1>3, <1>4, <1>5 DEF MmInv

LEMMA MmInvStep == MmInv /\ [Next]_vars => MmInv'
<1> SUFFICES ASSUME MmInv, [Next]_vars PROVE MmInv'
  OBVIOUS
<1>1. TypeOK' /\ Resting' /\ Queued' /\ Served' /\ Forking' /\ Parents' /\ FamiliesWhole'
  BY TypeStep, RestingStep, QueuedStep, ServedStep, ForkingStep, ParentsStep, FamiliesStep
<1>2. QED
  BY <1>1 DEF MmInv

LEMMA MmInvariant == Spec => []MmInv
BY MmInvInit, MmInvStep, PTL DEF Spec

(* The table of processes, the queue of callers, the messages and the      *)
(* manager's own variables stay well typed for any number of entries,      *)
(* wherever in its call each caller is when the manager looks at it.       *)
THEOREM TypeCorrect == Spec => []TypeOK
<1>1. MmInv => TypeOK
  BY DEF MmInv
<1>2. QED
  BY <1>1, MmInvariant, PTL

(* Whatever the order of forks, exits and waits, every process has a       *)
(* living parent or one whose children do_exit is still handing over, and  *)
(* no process hangs unnoticed by a parent that waits.                      *)
THEOREM Families == Spec => []FamiliesWhole
<1>1. MmInv => FamiliesWhole
  BY DEF MmInv
<1>2. QED
  BY <1>1, MmInvariant, PTL

-----------------------------------------------------------------------------
(* Who is released: a process whose EXIT is being served and whose parent  *)
(* waits, or one that hangs.                                               *)
LEMMA ReleaseStep ==
  ASSUME MmInv, [Next]_vars, NEW i \in Slots,
         "FREE_SLOT" \in p_flags'[i], "FREE_SLOT" \notin p_flags[i]
  PROVE  /\ p_flags'[i] = {"FREE_SLOT"}
         /\ "HANGING" \in p_flags[i] \/ call[i] = "EXIT"
         /\ p_parent'[i] \in Pid /\ call[p_parent'[i]] = "WAIT"
         /\ to' = p_parent'[i] /\ out'.PID = i
<1> DEFINE Goal == /\ p_flags'[i] = {"FREE_SLOT"}
                   /\ "HANGING" \in p_flags[i] \/ call[i] = "EXIT"
                   /\ p_parent'[i] \in Pid /\ call[p_parent'[i]] = "WAIT"
                   /\ to' = p_parent'[i] /\ out'.PID = i
<1> USE Members DEF MmInv, TypeOK
<1>1. CASE Exit
  <2>1. src \in Slots /\ p_flags[src] \in SUBSET {"RECEIVING"} /\ call[src] = "EXIT"
    BY <1>1 DEF Exit, Serving, Served, ServedCall, Calling
  <2>2. p_parent[src] \in Pid /\ p_parent[src] # src
    BY <2>1 DEF FamiliesWhole, Parents
  <2>3. CASE "WAITING" \in p_flags[p_parent[src]]
    <3>1. i = src
      BY <1>1, <2>1, <2>2, <2>3 DEF Exit, Clean
    <3>2. call[p_parent[src]] = "WAIT"
      BY <2>2, <2>3 DEF Resting
    <3>3. p_flags'[i] = {"FREE_SLOT"} /\ p_parent' = p_parent /\ to' = p_parent[src]
          /\ out' = Answer(0, src)
      BY <1>1, <2>1, <2>3, <3>1 DEF Exit, Clean, Sending
    <3>4. QED
      BY <2>1, <2>2, <3>1, <3>2, <3>3, Messages
  <2>4. CASE "WAITING" \notin p_flags[p_parent[src]]
    BY <1>1, <2>1, <2>4 DEF Exit
  <2>5. QED
    BY <2>3, <2>4
<1>2. CASE Orphan
  <2>1. Least(Children(pid)) \in Slots
    BY <1>2, LeastChild DEF Orphan
  <2>2. i = Least(Children(pid)) /\ "HANGING" \in p_flags[i] /\ "WAITING" \in p_flags[PROC_INIT]
    BY <1>2, <2>1 DEF Orphan
  <2>3. p_flags'[i] = {"FREE_SLOT"} /\ p_parent'[i] = PROC_INIT /\ to' = PROC_INIT
        /\ out' = Answer(0, i)
    BY <1>2, <2>1, <2>2 DEF Orphan, Sending
  <2>4. call[PROC_INIT] = "WAIT"
    BY <2>2 DEF Resting
  <2>5. QED
    BY <2>2, <2>3, <2>4, Messages
<1>3. CASE WaitReap
  <2>1. Least(Hanging(src)) \in Slots /\ p_parent[Least(Hanging(src))] = src
        /\ "HANGING" \in p_flags[Least(Hanging(src))]
    BY <1>3, LeastHanging DEF WaitReap
  <2>2. i = Least(Hanging(src))
    BY <1>3, <2>1 DEF WaitReap, Clean
  <2>3. p_flags'[i] = {"FREE_SLOT"} /\ p_parent' = p_parent /\ to' = src /\ out' = Answer(0, i)
    BY <1>3, <2>1, <2>2 DEF WaitReap, Clean, Sending
  <2>4. call[src] = "WAIT"
    BY <1>3 DEF WaitReap, Serving, Served, ServedCall
  <2>5. QED
    BY <2>1, <2>2, <2>3, <2>4, Messages
<1>4. CASE ForkFlags
  <2>1. p_flags[src] \in SUBSET {"RECEIVING"}
    BY <1>4 DEF ForkFlags, Served, ServedCall, Calling
  <2>2. QED
    BY <1>4, <2>1 DEF ForkFlags
<1>5. CASE WaitStore
  BY <1>5 DEF WaitStore, Parents
<1>6. CASE TakeRequest
  BY <1>6, FirstQueued DEF TakeRequest
<1>7. CASE Send
  BY <1>7 DEF Send
<1>8. CASE \E u \in Pid : User(u)
  BY <1>8 DEF User, SendCall, ReceiveAnswer, Return, table
<1>9. CASE UNCHANGED p_flags
  BY <1>9
<1>10. QED
  BY <1>1, <1>2, <1>3, <1>4, <1>5, <1>6, <1>7, <1>8, <1>9
  DEF Next, Manager, Serve, vars, table, Reply, ForkFull, ForkRegs, ForkSpace, OrphansDone,
      WaitLoad, WaitNone, ExecFails, ExecLoads

(* An entry is released whole, and only to tell its parent, whose wait()   *)
(* is under way, that the process is gone: each dead child is reported to  *)
(* one who asked, by do_exit, do_wait or the adoption by Init.             *)
THEOREM Released == Spec => ReleasedToWaiter
<1> DEFINE Release(i) ==
      "FREE_SLOT" \in p_flags'[i] /\ "FREE_SLOT" \notin p_flags[i] =>
        /\ p_flags'[i] = {"FREE_SLOT"}
        /\ "HANGING" \in p_flags[i] \/ call[i] = "EXIT"
        /\ p_parent'[i] \in Pid /\ call[p_parent'[i]] = "WAIT"
        /\ to' = p_parent'[i] /\ out'.PID = i
<1>1. MmInv /\ [Next]_vars => [\A i \in Slots : Release(i)]_vars
  BY ReleaseStep
<1>2. QED
  BY <1>1, MmInvariant, PTL DEF Spec, ReleasedToWaiter

-----------------------------------------------------------------------------
(* Mm implements Family.  Who exits is out of the family before the manager *)
(* looks for its children.                                                 *)
Gone == Leaving(pid) => Dead(pid)

LEMMA GoneStep == MmInv /\ Gone /\ [Next]_vars => Gone'
<1> SUFFICES ASSUME MmInv, Gone, [Next]_vars, Leaving(pid)' PROVE Dead(pid)'
  BY DEF Gone
<1> USE Members DEF MmInv, TypeOK, Dead, Leaving, Gone, users, mm
<1>1. CASE Exit
  <2>1. src \in Slots /\ pid' = src
    BY <1>1 DEF Exit, Serving, Served, ServedCall
  <2>2. p_flags'[src] \cap {"HANGING", "FREE_SLOT"} # {}
    <3>1. CASE "WAITING" \in p_flags[p_parent[src]]
      BY <1>1, <2>1, <3>1 DEF Exit, Clean
    <3>2. CASE "WAITING" \notin p_flags[p_parent[src]]
      BY <1>1, <2>1, <3>2 DEF Exit
    <3>3. QED
      BY <3>1, <3>2
  <2>3. QED
    BY <2>1, <2>2
<1>2. CASE Orphan
  <2>1. Least(Children(pid)) \in Slots /\ pid \in Slots /\ Dead(pid) /\ pid' = pid
    BY <1>2, LeastChild DEF Orphan, Parents
  <2>2. p_flags' = p_flags \/ p_flags' = [p_flags EXCEPT ![PROC_INIT] = @ \ {"WAITING"},
                                              ![Least(Children(pid))] = {"FREE_SLOT"}]
    BY <1>2 DEF Orphan
  <2>3. p_flags'[pid] \in {p_flags[pid], {"FREE_SLOT"}}
    BY <2>1, <2>2
  <2>4. QED
    BY <2>1, <2>3
<1>3. CASE Send
  BY <1>3 DEF Send
<1>4. ASSUME NEW u \in Pid, NEW t \in Calls(u), SendCall(u, t)
      PROVE  Dead(pid)'
  <2>1. p_flags[u] = {} /\ pid' = pid /\ p_flags' \in {p_flags, [p_flags EXCEPT ![u] = {"SENDING"}]}
    BY <1>4 DEF SendCall, Running, table
  <2>2. t \in {"FORK", "WAIT", "EXIT", "EXEC"}
    OBVIOUS
  <2>3. Leaving(pid)
    BY <1>4, <2>2 DEF SendCall, First
  <2>4. QED
    BY <2>1, <2>3
<1>5. ASSUME NEW u \in Pid, ReceiveAnswer(u)
      PROVE  Dead(pid)'
  BY <1>5 DEF ReceiveAnswer, Running
<1>6. CASE TakeRequest
  <2>1. CASE q_sending = <<>>
    BY <1>6, <2>1 DEF TakeRequest
  <2>2. CASE q_sending # <<>>
    <3>1. src' = q_sending[1] /\ 1 \in DOMAIN q_sending /\ q_sending[1] \in Pid
      BY <1>6, <2>2, FirstQueued DEF TakeRequest
    <3>2. msg[src'].type \in {"FORK", "WAIT", "EXIT", "EXEC"}
      BY <3>1 DEF Queued
    <3>3. QED
      BY <1>6, <2>2, <3>2 DEF TakeRequest, First
  <2>3. QED
    BY <2>1, <2>2
<1>7. ASSUME NEW u \in Pid, Return(u)
      PROVE  Dead(pid)'
  BY <1>7 DEF Return, table
<1>8. CASE UNCHANGED vars
  BY <1>8 DEF vars, table
<1>9. CASE OrphansDone \/ WaitStore \/ WaitLoad \/ ForkFull \/ ForkRegs \/ ForkFlags
  BY <1>9 DEF OrphansDone, WaitStore, WaitLoad, ForkFull, ForkRegs, ForkFlags
<1>10. CASE WaitReap \/ WaitNone \/ ForkSpace \/ Reply \/ ExecFails \/ ExecLoads
  BY <1>10 DEF WaitReap, Clean, WaitNone, ForkSpace, Reply, Sending, ExecFails, ExecLoads
<1>11. QED
  BY <1>1, <1>2, <1>3, <1>4, <1>5, <1>6, <1>7, <1>8, <1>9, <1>10
  DEF Next, Manager, Serve, User

(* One entry changes its state.                                            *)
LEMMA StatesChange ==
  ASSUME NEW c \in Pid, NEW s \in {"free", "dead", "live"},
         \A p \in Pid \ {c} : \A f \in {"FREE_SLOT", "HANGING"} :
           f \in p_flags'[p] <=> f \in p_flags[p],
         s = "free" <=> "FREE_SLOT" \in p_flags'[c],
         s = "dead" <=> "FREE_SLOT" \notin p_flags'[c] /\ "HANGING" \in p_flags'[c]
  PROVE  States' = [States EXCEPT ![c] = s]
<1>1. \A p \in Pid : StateOf(p)' = IF p = c THEN s ELSE StateOf(p)
  BY DEF StateOf
<1>2. QED
  BY <1>1 DEF States

LEMMA FamilyStutters ==
  ASSUME p_parent' = p_parent,
         \A p \in Pid : \A f \in {"FREE_SLOT", "HANGING", "WAITING"} :
           f \in p_flags'[p] <=> f \in p_flags[p]
  PROVE  UNCHANGED Abs!vars
BY DEF Abs!vars, States, ParentsInUse, Waiters, StateOf

LEMMA FamilyInit == Init => Abs!Init
BY Members DEF Init, Abs!Init, States, ParentsInUse, Waiters, StateOf

(* Each step of the manager that changes who lives, whose child he is or   *)
(* who waits, and the step of Family it is.                                *)
LEMMA ForkIsFork ==
  ASSUME MmInv, ForkFlags
  PROVE  Abs!Fork(src, pid)
<1> USE Members DEF MmInv, TypeOK
<1>1. /\ src \in Pid /\ pid \in Slots /\ p_flags[pid] = {"FREE_SLOT"}
      /\ p_flags[src] \in SUBSET {"RECEIVING"}
  BY DEF ForkFlags, Forking, Served, ServedCall, Calling
<1>2. /\ p_flags' = [p_flags EXCEPT ![pid] = p_flags[src]]
      /\ p_parent' = [p_parent EXCEPT ![pid] = src]
  BY DEF ForkFlags
<1>3. States[src] = "live" /\ src \notin Waiters /\ States[pid] = "free"
  BY <1>1 DEF States, StateOf, Waiters
<1>4. States' = [States EXCEPT ![pid] = "live"]
  <2>1. \A p \in Pid \ {pid} : p_flags'[p] = p_flags[p]
    BY <1>2
  <2>2. p_flags'[pid] = p_flags[src]
    BY <1>1, <1>2
  <2>3. QED
    BY <1>1, <2>1, <2>2, StatesChange
<1>5. ParentsInUse' = [ParentsInUse EXCEPT ![pid] = src]
  BY <1>1, <1>2 DEF ParentsInUse, StateOf
<1>6. Waiters' = Waiters
  BY <1>1, <1>2 DEF Waiters
<1>7. QED
  BY <1>3, <1>4, <1>5, <1>6 DEF Abs!Fork, Abs!Acts

LEMMA ExitIsExit ==
  ASSUME MmInv, Exit
  PROVE  Abs!Exit(src)
<1> USE Members DEF MmInv, TypeOK
<1>1. src \in Slots /\ p_flags[src] \in SUBSET {"RECEIVING"}
  BY DEF Exit, Serving, Served, ServedCall, Calling
<1>2. p_parent[src] \in Pid /\ p_parent[src] # src
  BY <1>1 DEF FamiliesWhole, Parents
<1>3. States[src] = "live" /\ src \notin Waiters /\ src # PROC_INIT
      /\ ParentsInUse[src] = p_parent[src]
  BY <1>1 DEF States, StateOf, Waiters, ParentsInUse
<1>4. p_parent' = p_parent
  BY DEF Exit
<1>5. CASE "WAITING" \in p_flags[p_parent[src]]
  <2>1. p_flags' = [p_flags EXCEPT ![p_parent[src]] = @ \ {"WAITING"}, ![src] = {"FREE_SLOT"}]
    BY <1>1, <1>2, <1>5 DEF Exit, Clean
  <2>2. States' = [States EXCEPT ![src] = "free"]
    <3>1. \A p \in Pid \ {src} : p_flags'[p] \in {p_flags[p], p_flags[p] \ {"WAITING"}}
      BY <1>2, <2>1
    <3>2. p_flags'[src] = {"FREE_SLOT"}
      BY <1>1, <2>1
    <3>3. QED
      BY <1>1, <3>1, <3>2, StatesChange
  <2>3. ParentsInUse' = [ParentsInUse EXCEPT ![src] = NO_TASK]
    BY <1>1, <1>2, <1>4, <2>1 DEF ParentsInUse, StateOf
  <2>4. Waiters' = Waiters \ {p_parent[src]} /\ p_parent[src] \in Waiters
    BY <1>1, <1>2, <1>5, <2>1 DEF Waiters
  <2>5. QED
    BY <1>3, <2>2, <2>3, <2>4 DEF Abs!Exit, Abs!Acts, Abs!Told
<1>6. CASE "WAITING" \notin p_flags[p_parent[src]]
  <2>1. p_flags' = [p_flags EXCEPT ![src] = @ \cup {"HANGING"}]
    BY <1>6 DEF Exit
  <2>2. States' = [States EXCEPT ![src] = "dead"]
    <3>1. \A p \in Pid \ {src} : p_flags'[p] = p_flags[p]
      BY <2>1
    <3>2. p_flags'[src] = p_flags[src] \cup {"HANGING"}
      BY <1>1, <2>1
    <3>3. QED
      BY <1>1, <3>1, <3>2, StatesChange
  <2>3. ParentsInUse' = ParentsInUse
    BY <1>1, <1>4, <2>1 DEF ParentsInUse, StateOf
  <2>4. Waiters' = Waiters /\ p_parent[src] \notin Waiters
    BY <1>1, <1>6, <2>1 DEF Waiters
  <2>5. QED
    BY <1>3, <2>2, <2>3, <2>4 DEF Abs!Exit, Abs!Acts
<1>7. QED
  BY <1>5, <1>6

(* A free entry among the orphans changes hands unseen.                    *)
LEMMA OrphanIsAdopt ==
  ASSUME MmInv, Gone, Orphan
  PROVE  Abs!Adopt(Least(Children(pid))) \/ UNCHANGED Abs!vars
<1> USE Members DEF MmInv, TypeOK
<1> DEFINE i == Least(Children(pid))
<1>1. i \in Slots /\ p_parent[i] = pid /\ pid \in Slots /\ i # pid
  BY LeastChild DEF Orphan, Parents, Leaving
<1>2. Dead(pid)
  BY DEF Orphan, Gone, Leaving
<1>3. p_parent' = [p_parent EXCEPT ![i] = PROC_INIT]
  BY DEF Orphan
<1>4. States[pid] # "live"
  BY <1>1, <1>2 DEF States, StateOf, Dead
<1>5. CASE "FREE_SLOT" \in p_flags[i]
  <2>1. p_flags' = p_flags
    BY <1>1, <1>5 DEF Orphan, Resting
  <2>2. \A p \in Pid : StateOf(p)' = StateOf(p)
    BY <2>1 DEF StateOf
  <2>3. \A p \in Pid \ {i} : p_parent'[p] = p_parent[p]
    BY <1>1, <1>3
  <2>4. StateOf(i) = "free"
    BY <1>5 DEF StateOf
  <2>5. States' = States /\ ParentsInUse' = ParentsInUse /\ Waiters' = Waiters
    BY <2>1, <2>2, <2>3, <2>4 DEF States, ParentsInUse, Waiters
  <2>6. QED
    BY <2>5 DEF Abs!vars
<1>6. CASE "FREE_SLOT" \notin p_flags[i] /\ "HANGING" \in p_flags[i]
           /\ "WAITING" \in p_flags[PROC_INIT]
  <2>1. p_flags' = [p_flags EXCEPT ![PROC_INIT] = @ \ {"WAITING"}, ![i] = {"FREE_SLOT"}]
    BY <1>6 DEF Orphan
  <2>2. ParentsInUse[i] = pid /\ States[i] = "dead" /\ PROC_INIT \in Waiters
    BY <1>1, <1>6 DEF ParentsInUse, States, StateOf, Waiters
  <2>3. States' = [States EXCEPT ![i] = "free"]
    <3>1. \A p \in Pid \ {i} : p_flags'[p] \in {p_flags[p], p_flags[p] \ {"WAITING"}}
      BY <1>1, <2>1
    <3>2. p_flags'[i] = {"FREE_SLOT"}
      BY <1>1, <2>1
    <3>3. QED
      BY <1>1, <3>1, <3>2, StatesChange
  <2>4. ParentsInUse' = [ParentsInUse EXCEPT ![i] = NO_TASK]
    BY <1>1, <1>3, <2>1 DEF ParentsInUse, StateOf
  <2>5. Waiters' = Waiters \ {PROC_INIT}
    BY <1>1, <1>6, <2>1 DEF Waiters, Resting
  <2>6. QED
    BY <1>1, <1>4, <2>2, <2>3, <2>4, <2>5 DEF Abs!Adopt, Abs!Told
<1>7. CASE "FREE_SLOT" \notin p_flags[i] /\ ~ ("HANGING" \in p_flags[i]
           /\ "WAITING" \in p_flags[PROC_INIT])
  <2>1. p_flags' = p_flags
    BY <1>7 DEF Orphan
  <2>2. ParentsInUse[i] = pid /\ ~ (States[i] = "dead" /\ PROC_INIT \in Waiters)
    BY <1>1, <1>7 DEF ParentsInUse, States, StateOf, Waiters
  <2>3. States' = States /\ Waiters' = Waiters
    BY <2>1 DEF States, StateOf, Waiters
  <2>4. ParentsInUse' = [ParentsInUse EXCEPT ![i] = PROC_INIT]
    BY <1>1, <1>3, <1>7, <2>1 DEF ParentsInUse, StateOf
  <2>5. QED
    BY <1>1, <1>4, <2>2, <2>3, <2>4 DEF Abs!Adopt
<1>8. QED
  BY <1>5, <1>6, <1>7

LEMMA ReapIsWait ==
  ASSUME MmInv, WaitReap
  PROVE  Abs!Wait(src)
<1> USE Members DEF MmInv, TypeOK
<1> DEFINE i == Least(Hanging(src))
<1>1. i \in Slots /\ p_parent[i] = src /\ "HANGING" \in p_flags[i]
      /\ p_flags[src] \in SUBSET {"RECEIVING"} /\ i # src
  BY LeastHanging DEF WaitReap, Serving, Served, ServedCall, Calling, Parents
<1>2. p_flags' = [p_flags EXCEPT ![i] = {"FREE_SLOT"}] /\ p_parent' = p_parent
  BY DEF WaitReap, Clean
<1>3. States[i] = "dead" /\ ParentsInUse[i] = src
      /\ States[src] = "live" /\ src \notin Waiters /\ Waiters \ {src} = Waiters
  BY <1>1 DEF States, StateOf, ParentsInUse, Waiters, Resting
<1>4. States' = [States EXCEPT ![i] = "free"]
  <2>1. \A p \in Pid \ {i} : p_flags'[p] = p_flags[p]
    BY <1>2
  <2>2. p_flags'[i] = {"FREE_SLOT"}
    BY <1>1, <1>2
  <2>3. QED
    BY <1>1, <2>1, <2>2, StatesChange
<1>5. ParentsInUse' = [ParentsInUse EXCEPT ![i] = NO_TASK]
  BY <1>1, <1>2 DEF ParentsInUse, StateOf
<1>6. Waiters' = Waiters
  BY <1>1, <1>2 DEF Waiters, Resting
<1>7. Abs!Told(src, i)
  BY <1>3, <1>4, <1>5, <1>6 DEF Abs!Told
<1>8. QED
  BY <1>1, <1>3, <1>7 DEF Abs!Wait, Abs!Acts

LEMMA StoreIsWait ==
  ASSUME MmInv, WaitStore
  PROVE  Abs!Wait(src)
<1> USE Members DEF MmInv, TypeOK
<1>1. p_flags[src] \in SUBSET {"RECEIVING"} /\ seen \in SUBSET {"RECEIVING"}
      /\ Hanging(src) = {}
  BY DEF WaitStore, Served, ServedCall, Calling, Parents
<1>2. p_flags' = [p_flags EXCEPT ![src] = seen \cup {"WAITING"}] /\ p_parent' = p_parent
  BY DEF WaitStore
<1>3. States[src] = "live" /\ src \notin Waiters
  BY <1>1 DEF States, StateOf, Waiters
<1>4. ASSUME NEW c \in Pid PROVE ~ (States[c] = "dead" /\ ParentsInUse[c] = src)
  BY <1>1 DEF States, StateOf, ParentsInUse, Hanging, Children, Resting
<1>5. States' = States /\ ParentsInUse' = ParentsInUse
  BY <1>1, <1>2 DEF States, StateOf, ParentsInUse
<1>6. Waiters' = Waiters \cup {src}
  BY <1>1, <1>2 DEF Waiters
<1>7. QED
  BY <1>3, <1>4, <1>5, <1>6 DEF Abs!Wait, Abs!Acts

LEMMA FamilyStep == MmInv /\ Gone /\ [Next]_vars => [Abs!Next]_(Abs!vars)
<1> SUFFICES ASSUME MmInv, Gone, [Next]_vars PROVE [Abs!Next]_(Abs!vars)
  OBVIOUS
<1> USE Members DEF MmInv, TypeOK
<1> DEFINE Kept == \A p \in Pid : \A f \in {"FREE_SLOT", "HANGING", "WAITING"} :
                     f \in p_flags'[p] <=> f \in p_flags[p]
<1>1. CASE ForkFlags
  <2>1. pid \in Pid /\ src \in Pid
    OBVIOUS
  <2>2. Abs!Fork(src, pid)
    BY <1>1, ForkIsFork
  <2>3. QED
    BY <2>1, <2>2 DEF Abs!Next
<1>2. CASE Exit
  <2>1. Abs!Exit(src)
    BY <1>2, ExitIsExit
  <2>2. QED
    BY <2>1 DEF Abs!Next
<1>3. CASE Orphan
  <2>1. Least(Children(pid)) \in Pid
    BY <1>3, LeastChild DEF Orphan
  <2>2. Abs!Adopt(Least(Children(pid))) \/ UNCHANGED Abs!vars
    BY <1>3, OrphanIsAdopt
  <2>3. QED
    BY <2>1, <2>2 DEF Abs!Next
<1>4. CASE WaitReap \/ WaitStore
  <2>1. Abs!Wait(src)
    BY <1>4, ReapIsWait, StoreIsWait
  <2>2. QED
    BY <2>1 DEF Abs!Next
<1>5. CASE TakeRequest
  <2>1. p_parent' = p_parent /\ Kept
    BY <1>5, FirstQueued DEF TakeRequest
  <2>2. QED
    BY <2>1, FamilyStutters
<1>6. CASE Send
  <2>1. p_parent' = p_parent /\ Kept
    BY <1>6 DEF Send
  <2>2. QED
    BY <2>1, FamilyStutters
<1>7. ASSUME NEW u \in Pid, User(u)
      PROVE  UNCHANGED Abs!vars
  <2>1. CASE UNCHANGED table
    BY <2>1, FamilyStutters DEF table
  <2>2. CASE ~ UNCHANGED table
    <3>1. p_flags[u] = {} /\ p_parent' = p_parent
          /\ p_flags' \in {p_flags, [p_flags EXCEPT ![u] = {"SENDING"}],
                           [p_flags EXCEPT ![u] = {"RECEIVING"}]}
      BY <1>7, <2>2 DEF User, SendCall, ReceiveAnswer, Return, Running, table
    <3>2. Kept
      BY <3>1
    <3>3. QED
      BY <3>1, <3>2, FamilyStutters
  <2>3. QED
    BY <2>1, <2>2
<1>8. CASE UNCHANGED table
  BY <1>8, FamilyStutters DEF table
<1>9. QED
  BY <1>1, <1>2, <1>3, <1>4, <1>5, <1>6, <1>7, <1>8
  DEF Next, Manager, Serve, vars, Reply, ForkFull, ForkRegs, ForkSpace, OrphansDone,
      WaitLoad, WaitNone, ExecFails, ExecLoads

(* For any number of processes, wherever each is when the manager serves   *)
(* it: the messages, flags and loops of do_fork, do_exit and do_wait       *)
(* amount to fork, exit, adoption and wait as single steps.                *)
THEOREM FamilyImplemented == Spec => ImplementsFamily
<1>1. Init => Gone
  BY DEF Init, Gone, Leaving
<1>2. Spec => []Gone
  BY <1>1, GoneStep, MmInvariant, PTL DEF Spec
<1>3. Spec => Abs!Init /\ [][Abs!Next]_(Abs!vars)
  BY <1>2, FamilyInit, FamilyStep, MmInvariant, PTL DEF Spec
<1>4. QED
  BY <1>3 DEF ImplementsFamily, Abs!Spec
=============================================================================
