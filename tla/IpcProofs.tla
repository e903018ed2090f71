------------------------------ MODULE IpcProofs ------------------------------
(***************************************************************************)
(* Proofs about Ipc, for every set of processes, drivers and idlers; last, *)
(* that outside the windows it implements Rendezvous.                      *)
(***************************************************************************)
EXTENDS Ipc, SequenceTheorems, FiniteSetTheorems, WellFoundedInduction, TLAPS

(* RemoveAt drops one element and keeps the order of the others.           *)
LEMMA RemoveAtElements ==
  ASSUME NEW S, NEW s \in Seq(S), NEW i \in DOMAIN s
  PROVE  /\ RemoveAt(s, i) \in Seq(S)
         /\ Len(RemoveAt(s, i)) = Len(s) - 1
         /\ \A j \in 1..(Len(s) - 1) :
              RemoveAt(s, i)[j] = IF j < i THEN s[j] ELSE s[j + 1]
<1>1. i \in 1..Len(s) /\ Len(s) \in Nat
  OBVIOUS
<1> DEFINE before == SubSeq(s, 1, i - 1)
           after == SubSeq(s, i + 1, Len(s))
<1>2. /\ before \in Seq(S) /\ Len(before) = i - 1
      /\ \A j \in 1..(i - 1) : before[j] = s[j]
  BY <1>1, SubSeqProperties, Z3
<1>3. /\ after \in Seq(S) /\ Len(after) = Len(s) - i
      /\ \A j \in 1..(Len(s) - i) : after[j] = s[i + j]
  BY <1>1, SubSeqProperties, Z3
<1> HIDE DEF before, after
<1>4. /\ before \o after \in Seq(S)
      /\ Len(before \o after) = Len(before) + Len(after)
      /\ \A j \in 1..(Len(before) + Len(after)) :
           (before \o after)[j] =
              IF j <= Len(before) THEN before[j] ELSE after[j - Len(before)]
  BY <1>2, <1>3, ConcatProperties
<1>5. RemoveAt(s, i) = before \o after
  BY DEF RemoveAt, before, after
<1>6. Len(before) + Len(after) = Len(s) - 1
  BY <1>1, <1>2, <1>3
<1>7. ASSUME NEW j \in 1..(Len(s) - 1)
      PROVE  (before \o after)[j] = IF j < i THEN s[j] ELSE s[j + 1]
  <2>1. CASE j < i
    BY <1>1, <1>2, <1>4, <1>6, <2>1
  <2>2. CASE ~ (j < i)
    <3>1. j - Len(before) \in 1..(Len(s) - i) /\ i + (j - Len(before)) = j + 1
      BY <1>1, <1>2, <2>2
    <3>2. j \in 1..(Len(before) + Len(after)) /\ ~ (j <= Len(before))
      BY <1>1, <1>2, <1>6, <2>2
    <3>3. (before \o after)[j] = after[j - Len(before)]
      BY <1>4, <3>2
    <3>4. QED
      BY <1>3, <2>2, <3>1, <3>3
  <2>3. QED
    BY <2>1, <2>2
<1>8. QED
  BY <1>4, <1>5, <1>6, <1>7

-----------------------------------------------------------------------------
(* What RecvCopy does to the sender at place i of the caller's queue.      *)
TakesFrom(i, from) ==
  /\ from = q_sending[p_proc_ready][i]
  /\ q_sending' = [q_sending EXCEPT ![p_proc_ready] = RemoveAt(@, i)]
  /\ mail' = [mail EXCEPT ![p_proc_ready] = from]
  /\ p_msg' = [p_msg EXCEPT ![from] = FALSE]
  /\ p_sendto' = [p_sendto EXCEPT ![from] = NO_TASK]
  /\ p_flags' = [p_flags EXCEPT ![from] = @ \ {SENDING}]

LEMMA RecvCopyTakes ==
  ASSUME TypeOK, NEW src \in Proc \cup {ANY, INTERRUPT}, RecvCopy(src)
  PROVE  \E i \in DOMAIN q_sending[p_proc_ready], from \in Proc :
           /\ TakesFrom(i, from)
           /\ IF src = ANY THEN i = 1 ELSE from = src
<1>1. \A i \in DOMAIN q_sending[p_proc_ready] : q_sending[p_proc_ready][i] \in Proc
  BY DEF TypeOK
<1>2. QED
  BY <1>1 DEF RecvCopy, TakesFrom

(* Every step keeps every field in its type.                               *)
LEMMA TypeStep ==
  ASSUME TypeOK, [Next]_vars
  PROVE  TypeOK'
<1> USE DEF TypeOK, Steps, SendSteps, RecvSteps, BlockSteps, StopSteps, procVars
<1>1. ASSUME NEW dest \in Proc, SendPanics(dest)
      PROVE  TypeOK'
  BY <1>1 DEF SendPanics, EnterSend
<1>2. ASSUME NEW dest \in Proc, SendDirect(dest)
      PROVE  TypeOK'
  BY <1>2 DEF SendDirect, EnterSend, Accepts
<1>3. ASSUME NEW dest \in Proc, SendQueued(dest)
      PROVE  TypeOK'
  <2>1. Append(q_sending[dest], p_proc_ready) \in Seq(Proc)
    BY DEF TypeOK
  <2>2. q_sending' \in [Proc -> Seq(Proc)]
    BY <1>3, <2>1 DEF SendQueued, TypeOK
  <2>3. QED
    BY <1>3, <2>2 DEF SendQueued, EnterSend, TypeOK, Steps, BlockSteps
<1>4. ASSUME NEW src \in Proc \cup {ANY, INTERRUPT}, RecvInterrupt(src)
      PROVE  TypeOK'
  BY <1>4 DEF RecvInterrupt, EnterReceive
<1>5. ASSUME NEW src \in Proc \cup {ANY, INTERRUPT}, RecvCopy(src)
      PROVE  TypeOK'
  <2>1. PICK i \in DOMAIN q_sending[p_proc_ready], from \in Proc :
          TakesFrom(i, from)
    BY <1>5, RecvCopyTakes
  <2>2. RemoveAt(q_sending[p_proc_ready], i) \in Seq(Proc)
    BY RemoveAtElements
  <2>3. q_sending' \in [Proc -> Seq(Proc)]
    BY <2>1, <2>2 DEF TakesFrom
  <2>4. QED
    BY <1>5, <2>1, <2>3 DEF RecvCopy, EnterReceive, TakesFrom
<1>6. ASSUME NEW src \in Proc \cup {ANY, INTERRUPT}, RecvMustWait(src)
      PROVE  TypeOK'
  BY <1>6 DEF RecvMustWait, EnterReceive
<1>7. ASSUME SendAssert
      PROVE  TypeOK'
  BY <1>7 DEF SendAssert
<1>8. ASSUME SendCopy
      PROVE  TypeOK'
  BY <1>8 DEF SendCopy
<1>9. ASSUME SendClear
      PROVE  TypeOK'
  BY <1>9 DEF SendClear
<1>10. ASSUME SendWake
      PROVE  TypeOK'
  BY <1>10 DEF SendWake, Settled
<1>11. ASSUME RecvSetFlag
      PROVE  TypeOK'
  BY <1>11 DEF RecvSetFlag
<1>12. ASSUME RecvSetFrom
      PROVE  TypeOK'
  BY <1>12 DEF RecvSetFrom
<1>13. ASSUME Block
      PROVE  TypeOK'
  BY <1>13 DEF Block, Runnable
<1>14. ASSUME BlockAsserts
      PROVE  TypeOK'
  BY <1>14 DEF BlockAsserts
<1>15. ASSUME Preempt
      PROVE  TypeOK'
  BY <1>15 DEF Preempt, Runnable
<1>16. ASSUME NEW t \in Drivers, InfoTask(t)
      PROVE  TypeOK'
  BY <1>16, RoleAssumption DEF InfoTask
<1>17. CASE UNCHANGED vars
  BY <1>17 DEF vars, procVars
<1>18. QED
  BY <1>1, <1>2, <1>3, <1>4, <1>5, <1>6, <1>7, <1>8, <1>9, <1>10, <1>11, <1>12, <1>13, <1>14, <1>15, <1>16, <1>17
     DEF Next, Sends, Receives, KernelStep

(* Type correctness: every field of every process stays in its type.       *)
THEOREM TypeCorrect == Spec => []TypeOK
<1>1. Init => TypeOK
  BY DEF Init, TypeOK, Steps
<1>2. TypeOK /\ [Next]_vars => TypeOK'
  BY TypeStep
<1>3. QED
  BY <1>1, <1>2, PTL DEF Spec

-----------------------------------------------------------------------------
(* The asserts of proc.c survive every step, interrupts included.          *)
LEMMA ConsistentStep ==
  ASSUME TypeOK, SendQueueExact, Consistent, [Next]_vars
  PROVE  Consistent'
<1> USE ProcAssumption DEF TypeOK, Steps, SendSteps, RecvSteps, BlockSteps, StopSteps,
            procVars, Consistent, CallerShape, ProcShape, SENDING, RECEIVING
<1>1. ASSUME NEW dest \in Proc, SendPanics(dest)
      PROVE  Consistent'
  BY <1>1 DEF SendPanics, EnterSend
<1>2. ASSUME NEW dest \in Proc, SendDirect(dest)
      PROVE  Consistent'
  BY <1>2 DEF SendDirect, EnterSend, Accepts
<1>3. ASSUME NEW dest \in Proc, SendQueued(dest)
      PROVE  Consistent'
  <2>1. CallerShape'
    BY <1>3 DEF SendQueued, EnterSend
  <2>2. ASSUME NEW p \in Proc
        PROVE  ProcShape(p)'
    BY <1>3 DEF SendQueued, EnterSend
  <2>3. QED
    BY <2>1, <2>2
<1>4. ASSUME NEW src \in Proc \cup {ANY, INTERRUPT}, RecvInterrupt(src)
      PROVE  Consistent'
  BY <1>4 DEF RecvInterrupt, EnterReceive
<1>5. ASSUME NEW src \in Proc \cup {ANY, INTERRUPT}, RecvCopy(src)
      PROVE  Consistent'
  <2>1. PICK i \in DOMAIN q_sending[p_proc_ready], from \in Proc :
          TakesFrom(i, from)
    BY <1>5, RecvCopyTakes
  <2>2. SENDING \in p_flags[from]
    BY <2>1 DEF SendQueueExact, TakesFrom, ToSet, TypeOK
  <2>3. QED
    BY <1>5, <2>1, <2>2 DEF RecvCopy, EnterReceive, TakesFrom
<1>6. ASSUME NEW src \in Proc \cup {ANY, INTERRUPT}, RecvMustWait(src)
      PROVE  Consistent'
  BY <1>6 DEF RecvMustWait, EnterReceive
<1>7. ASSUME SendAssert
      PROVE  Consistent'
  BY <1>7 DEF SendAssert
<1>8. ASSUME SendCopy
      PROVE  Consistent'
  BY <1>8 DEF SendCopy
<1>9. ASSUME SendClear
      PROVE  Consistent'
  <2>1. CallerShape'
    BY <1>9 DEF SendClear
  <2>2. ASSUME NEW p \in Proc
        PROVE  ProcShape(p)'
    BY <1>9 DEF SendClear
  <2>3. QED
    BY <2>1, <2>2
<1>10. ASSUME SendWake
      PROVE  Consistent'
  <2>1. CallerShape'
    BY <1>10 DEF SendWake, Settled
  <2>2. ASSUME NEW p \in Proc
        PROVE  ProcShape(p)'
    BY <1>10 DEF SendWake, Settled
  <2>3. QED
    BY <2>1, <2>2
<1>11. ASSUME RecvSetFlag
      PROVE  Consistent'
  <2>1. CallerShape'
    BY <1>11 DEF RecvSetFlag
  <2>2. ASSUME NEW p \in Proc
        PROVE  ProcShape(p)'
    <3>1. CASE p = p_proc_ready
      BY <1>11, <3>1 DEF RecvSetFlag
    <3>2. CASE p # p_proc_ready
      BY <1>11, <3>2 DEF RecvSetFlag
    <3>3. QED
      BY <3>1, <3>2
  <2>3. QED
    BY <2>1, <2>2
<1>12. ASSUME RecvSetFrom
      PROVE  Consistent'
  <2>1. CallerShape'
    BY <1>12 DEF RecvSetFrom
  <2>2. ASSUME NEW p \in Proc
        PROVE  ProcShape(p)'
    <3>1. CASE p = p_proc_ready
      BY <1>12, <3>1 DEF RecvSetFrom
    <3>2. CASE p # p_proc_ready
      BY <1>12, <3>2 DEF RecvSetFrom
    <3>3. QED
      BY <3>1, <3>2
  <2>3. QED
    BY <2>1, <2>2
<1>13. ASSUME Block
      PROVE  Consistent'
  <2>1. CallerShape'
    BY <1>13 DEF Block, Runnable
  <2>2. ASSUME NEW p \in Proc
        PROVE  ProcShape(p)'
    BY <1>13 DEF Block, Runnable
  <2>3. QED
    BY <2>1, <2>2
<1>14. ASSUME BlockAsserts
      PROVE  Consistent'
  BY <1>14 DEF BlockAsserts
<1>15. ASSUME Preempt
      PROVE  Consistent'
  <2>1. CallerShape'
    BY <1>15 DEF Preempt, Runnable
  <2>2. ASSUME NEW p \in Proc
        PROVE  ProcShape(p)'
    BY <1>15 DEF Preempt, Runnable
  <2>3. QED
    BY <2>1, <2>2
<1>16. ASSUME NEW t \in Drivers, InfoTask(t)
      PROVE  Consistent'
  <2>1. CallerShape'
    <3>1. t \in Proc
      BY RoleAssumption
    <3>2. UNCHANGED <<p_proc_ready, pc, peer>>
      BY <1>16 DEF InfoTask
    <3>3. CASE p_flags[t] = {RECEIVING} /\ p_recvfrom[t] \in {INTERRUPT, ANY}
      <4>1. /\ p_flags' = [p_flags EXCEPT ![t] = {}]
            /\ p_msg' = [p_msg EXCEPT ![t] = FALSE]
            /\ p_recvfrom' = [p_recvfrom EXCEPT ![t] = NO_TASK]
            /\ p_sendto' = [p_sendto EXCEPT ![t] = NO_TASK]
        BY <1>16, <3>3 DEF InfoTask
      <4>2. t = p_proc_ready => pc \in {"recv_block", "assert"}
        BY <3>3
      <4>3. CASE t = p_proc_ready
        BY <3>1, <3>2, <4>1, <4>2, <4>3
      <4>4. CASE t # p_proc_ready
        BY <3>1, <3>2, <4>1, <4>4
      <4>5. QED
        BY <4>3, <4>4
    <3>4. CASE ~ (p_flags[t] = {RECEIVING} /\ p_recvfrom[t] \in {INTERRUPT, ANY})
      <4>1. UNCHANGED <<p_flags, p_msg, p_recvfrom, p_sendto>>
        BY <1>16, <3>4 DEF InfoTask
      <4>2. QED
        BY <3>2, <4>1
    <3>5. QED
      BY <3>3, <3>4
  <2>2. ASSUME NEW p \in Proc
        PROVE  ProcShape(p)'
    BY <1>16, RoleAssumption DEF InfoTask
  <2>3. QED
    BY <2>1, <2>2
<1>17. CASE UNCHANGED vars
  BY <1>17 DEF vars, procVars
<1>18. QED
  BY <1>1, <1>2, <1>3, <1>4, <1>5, <1>6, <1>7, <1>8, <1>9, <1>10, <1>11, <1>12, <1>13, <1>14, <1>15, <1>16, <1>17
     DEF Next, Sends, Receives, KernelStep

-----------------------------------------------------------------------------
(* A step that touches no queue and blocks or releases no sender keeps the *)
(* queues exact.                                                           *)
LEMMA QueueFrame ==
  ASSUME SendQueueExact, q_sending' = q_sending,
         \A p \in Proc : SENDING \in p_flags'[p] <=> SENDING \in p_flags[p],
         \A p \in Proc : SENDING \in p_flags[p] => p_sendto'[p] = p_sendto[p]
  PROVE  SendQueueExact'
BY DEF SendQueueExact

(* The caller joins the queue of dest: it was in none before.              *)
LEMMA QueueJoin ==
  ASSUME TypeOK, Consistent, SendQueueExact,
         NEW dest \in Proc, SendQueued(dest)
  PROVE  SendQueueExact'
<1> DEFINE me == p_proc_ready
           q == q_sending[dest]
<1>1. /\ me \in Proc /\ p_flags[me] = {}
      /\ q_sending' = [q_sending EXCEPT ![dest] = Append(q, me)]
      /\ p_flags' = [p_flags EXCEPT ![me] = @ \cup {SENDING}]
      /\ p_sendto' = [p_sendto EXCEPT ![me] = dest]
  BY DEF SendQueued, EnterSend, Consistent, CallerShape, TypeOK
<1>2. q \in Seq(Proc) /\ DOMAIN q = 1..Len(q) /\ Len(q) \in Nat
  BY DEF TypeOK
<1>3. /\ DOMAIN Append(q, me) = 1..(Len(q) + 1)
      /\ \A i \in 1..Len(q) : Append(q, me)[i] = q[i]
      /\ Append(q, me)[Len(q) + 1] = me
  BY <1>1, <1>2
<1>4. \A d \in Proc : me \notin ToSet(q_sending[d])
  BY <1>1 DEF SendQueueExact
<1>5. ToSet(Append(q, me)) = ToSet(q) \cup {me}
  <2>1. \A x \in ToSet(q) : x \in ToSet(Append(q, me))
    BY <1>2, <1>3 DEF ToSet
  <2>2. me \in ToSet(Append(q, me))
    BY <1>2, <1>3 DEF ToSet
  <2>3. \A x \in ToSet(Append(q, me)) : x \in ToSet(q) \cup {me}
    BY <1>2, <1>3 DEF ToSet
  <2>4. QED
    BY <2>1, <2>2, <2>3
<1>6. ASSUME NEW d \in Proc, NEW s \in Proc
      PROVE  s \in ToSet(q_sending'[d]) <=> SENDING \in p_flags'[s] /\ p_sendto'[s] = d
  <2>1. s \in ToSet(q_sending[d]) <=> SENDING \in p_flags[s] /\ p_sendto[s] = d
    BY DEF SendQueueExact
  <2>2. q_sending'[d] = IF d = dest THEN Append(q, me) ELSE q_sending[d]
    BY <1>1 DEF TypeOK
  <2>3. /\ p_flags'[s] = IF s = me THEN {SENDING} ELSE p_flags[s]
        /\ p_sendto'[s] = IF s = me THEN dest ELSE p_sendto[s]
    BY <1>1 DEF TypeOK
  <2>4. QED
    BY <1>4, <1>5, <2>1, <2>2, <2>3
<1>7. ASSUME NEW d \in Proc,
             NEW i \in DOMAIN q_sending'[d], NEW j \in DOMAIN q_sending'[d],
             q_sending'[d][i] = q_sending'[d][j]
      PROVE  i = j
  <2>1. CASE d # dest
    <3>1. q_sending'[d] = q_sending[d]
      BY <1>1, <2>1 DEF TypeOK
    <3>2. QED
      BY <1>7, <3>1 DEF SendQueueExact
  <2>2. CASE d = dest
    <3>1. q_sending'[d] = Append(q, me)
      BY <1>1, <2>2 DEF TypeOK
    <3>2. \A k \in 1..Len(q) : q[k] # me
      BY <1>2, <1>4 DEF ToSet
    <3>3. \A k, l \in 1..Len(q) : q[k] = q[l] => k = l
      BY <1>2 DEF SendQueueExact
    <3>4. QED
      BY <1>2, <1>3, <1>7, <3>1, <3>2, <3>3
  <2>3. QED
    BY <2>1, <2>2
<1>8. QED
  BY <1>6, <1>7 DEF SendQueueExact

(* The sender whose message is taken leaves the caller's queue.            *)
LEMMA QueueLeave ==
  ASSUME TypeOK, Consistent, SendQueueExact,
         NEW src \in Proc \cup {ANY, INTERRUPT}, RecvCopy(src)
  PROVE  SendQueueExact'
<1> DEFINE me == p_proc_ready
           q == q_sending[me]
<1>1. PICK k \in DOMAIN q, from \in Proc : TakesFrom(k, from)
  BY RecvCopyTakes
<1>2. /\ me \in Proc /\ q \in Seq(Proc)
      /\ Len(q) \in Nat /\ DOMAIN q = 1..Len(q) /\ q[k] = from
  BY <1>1 DEF TypeOK, TakesFrom
<1>3. SENDING \in p_flags[from] /\ p_sendto[from] = me
  BY <1>2 DEF SendQueueExact, ToSet
<1> DEFINE rest == RemoveAt(q, k)
<1>4. /\ Len(rest) = Len(q) - 1 /\ DOMAIN rest = 1..(Len(q) - 1)
      /\ \A j \in 1..(Len(q) - 1) : rest[j] = IF j < k THEN q[j] ELSE q[j + 1]
  <2>1. /\ rest \in Seq(Proc) /\ Len(rest) = Len(q) - 1
        /\ \A j \in 1..(Len(q) - 1) : rest[j] = IF j < k THEN q[j] ELSE q[j + 1]
    BY <1>2, RemoveAtElements
  <2>2. DOMAIN rest = 1..Len(rest)
    BY <2>1
  <2>3. QED
    BY <2>1, <2>2
<1> HIDE DEF rest
<1>5. \A i, j \in 1..Len(q) : q[i] = q[j] => i = j
  BY <1>2 DEF SendQueueExact
<1>6. ToSet(rest) = ToSet(q) \ {from}
  <2>1. \A x \in ToSet(rest) : x \in ToSet(q) /\ x # from
    <3> SUFFICES ASSUME NEW j \in 1..(Len(q) - 1)
                 PROVE  rest[j] \in ToSet(q) /\ rest[j] # from
      BY <1>4 DEF ToSet
    <3>1. CASE j < k
      <4>1. rest[j] = q[j] /\ j \in 1..Len(q) /\ j # k
        BY <1>2, <1>4, <3>1
      <4>2. QED
        BY <1>2, <1>5, <4>1 DEF ToSet
    <3>2. CASE ~ (j < k)
      <4>1. rest[j] = q[j + 1] /\ j + 1 \in 1..Len(q) /\ j + 1 # k
        BY <1>2, <1>4, <3>2
      <4>2. QED
        BY <1>2, <1>5, <4>1 DEF ToSet
    <3>3. QED
      BY <3>1, <3>2
  <2>2. ASSUME NEW x \in ToSet(q), x # from
        PROVE  x \in ToSet(rest)
    <3>1. PICK i \in 1..Len(q) : q[i] = x
      BY <1>2 DEF ToSet
    <3>2. i # k
      BY <1>2, <2>2, <3>1
    <3>3. CASE i < k
      BY <1>2, <1>4, <3>1, <3>3 DEF ToSet
    <3>4. CASE i > k
      <4>1. i - 1 \in 1..(Len(q) - 1) /\ ~ (i - 1 < k) /\ (i - 1) + 1 = i
        BY <1>2, <3>4
      <4>2. rest[i - 1] = x
        BY <1>4, <3>1, <4>1
      <4>3. QED
        BY <1>4, <4>1, <4>2 DEF ToSet
    <3>5. QED
      BY <1>2, <3>2, <3>3, <3>4
  <2>3. QED
    BY <2>1, <2>2
<1>7. ASSUME NEW d \in Proc
      PROVE  q_sending'[d] = IF d = me THEN rest ELSE q_sending[d]
  BY <1>1, <1>2 DEF TakesFrom, TypeOK, rest
<1>8. ASSUME NEW s \in Proc
      PROVE  /\ p_flags'[s] = IF s = from THEN p_flags[s] \ {SENDING} ELSE p_flags[s]
             /\ p_sendto'[s] = IF s = from THEN NO_TASK ELSE p_sendto[s]
  BY <1>1 DEF TakesFrom, TypeOK
<1>9. ASSUME NEW d \in Proc, NEW s \in Proc
      PROVE  s \in ToSet(q_sending'[d]) <=> SENDING \in p_flags'[s] /\ p_sendto'[s] = d
  <2>1. s \in ToSet(q_sending[d]) <=> SENDING \in p_flags[s] /\ p_sendto[s] = d
    BY DEF SendQueueExact
  <2>2. QED
    BY <1>3, <1>6, <1>7, <1>8, <2>1
<1>10. ASSUME NEW d \in Proc,
              NEW i \in DOMAIN q_sending'[d], NEW j \in DOMAIN q_sending'[d],
              q_sending'[d][i] = q_sending'[d][j]
       PROVE  i = j
  <2>1. CASE d # me
    BY <1>7, <1>10, <2>1 DEF SendQueueExact
  <2>2. CASE d = me
    <3>1. i \in 1..(Len(q) - 1) /\ j \in 1..(Len(q) - 1) /\ rest[i] = rest[j]
      BY <1>4, <1>7, <1>10, <2>2
    <3>2. QED
      BY <1>2, <1>4, <1>5, <3>1
  <2>3. QED
    BY <2>1, <2>2
<1>11. QED
  BY <1>9, <1>10 DEF SendQueueExact

(* Every step keeps the send queues exact.                                 *)
LEMMA QueueStep ==
  ASSUME TypeOK, Consistent, SendQueueExact, [Next]_vars
  PROVE  SendQueueExact'
<1> USE DEF TypeOK, procVars, SENDING, RECEIVING
<1>1. ASSUME NEW dest \in Proc, SendPanics(dest)
      PROVE  SendQueueExact'
  BY <1>1, QueueFrame DEF SendPanics
<1>2. ASSUME NEW dest \in Proc, SendDirect(dest)
      PROVE  SendQueueExact'
  BY <1>2, QueueFrame DEF SendDirect
<1>3. ASSUME NEW dest \in Proc, SendQueued(dest)
      PROVE  SendQueueExact'
  BY <1>3, QueueJoin
<1>4. ASSUME NEW src \in Proc \cup {ANY, INTERRUPT}, RecvInterrupt(src)
      PROVE  SendQueueExact'
  BY <1>4, QueueFrame DEF RecvInterrupt
<1>5. ASSUME NEW src \in Proc \cup {ANY, INTERRUPT}, RecvCopy(src)
      PROVE  SendQueueExact'
  BY <1>5, QueueLeave
<1>6. ASSUME NEW src \in Proc \cup {ANY, INTERRUPT}, RecvMustWait(src)
      PROVE  SendQueueExact'
  BY <1>6, QueueFrame DEF RecvMustWait
<1>7. ASSUME SendAssert
      PROVE  SendQueueExact'
  BY <1>7, QueueFrame DEF SendAssert
<1>8. ASSUME SendCopy
      PROVE  SendQueueExact'
  BY <1>8, QueueFrame DEF SendCopy
<1>9. ASSUME SendClear
      PROVE  SendQueueExact'
  BY <1>9, QueueFrame DEF SendClear
<1>10. ASSUME SendWake
      PROVE  SendQueueExact'
  BY <1>10, QueueFrame DEF SendWake
<1>11. ASSUME RecvSetFlag
      PROVE  SendQueueExact'
  BY <1>11, QueueFrame DEF RecvSetFlag
<1>12. ASSUME RecvSetFrom
      PROVE  SendQueueExact'
  BY <1>12, QueueFrame DEF RecvSetFrom
<1>13. ASSUME Block
      PROVE  SendQueueExact'
  BY <1>13, QueueFrame DEF Block
<1>14. ASSUME BlockAsserts
      PROVE  SendQueueExact'
  BY <1>14, QueueFrame DEF BlockAsserts
<1>15. ASSUME Preempt
      PROVE  SendQueueExact'
  BY <1>15, QueueFrame DEF Preempt
<1>16. ASSUME NEW t \in Drivers, InfoTask(t)
      PROVE  SendQueueExact'
  <2>1. q_sending' = q_sending
    BY <1>16 DEF InfoTask
  <2>2. ASSUME NEW p \in Proc
        PROVE  SENDING \in p_flags'[p] <=> SENDING \in p_flags[p]
    <3>1. CASE p = t /\ p_flags[t] = {RECEIVING}
      BY <1>16, <3>1 DEF InfoTask
    <3>2. CASE ~ (p = t /\ p_flags[t] = {RECEIVING})
      BY <1>16, <3>2 DEF InfoTask
    <3>3. QED
      BY <3>1, <3>2
  <2>3. \A p \in Proc : SENDING \in p_flags[p] => p_sendto'[p] = p_sendto[p]
    BY <1>16 DEF InfoTask
  <2>4. QED
    BY <2>1, <2>2, <2>3, QueueFrame
<1>17. CASE UNCHANGED vars
  BY <1>17, QueueFrame DEF vars
<1>18. QED
  BY <1>1, <1>2, <1>3, <1>4, <1>5, <1>6, <1>7, <1>8, <1>9, <1>10, <1>11, <1>12, <1>13, <1>14, <1>15, <1>16, <1>17
     DEF Next, Sends, Receives, KernelStep

(* What the other invariants rest on.                                      *)
IpcInv == TypeOK /\ Consistent /\ SendQueueExact

LEMMA IpcInvInit == Init => IpcInv
<1> SUFFICES ASSUME Init PROVE IpcInv
  OBVIOUS
<1>1. TypeOK
  BY DEF Init, TypeOK, Steps
<1>2. Consistent
  BY DEF Init, Consistent, CallerShape, ProcShape, SendSteps, RecvSteps
<1>3. SendQueueExact
  BY DEF Init, SendQueueExact, ToSet, SENDING
<1>4. QED
  BY <1>1, <1>2, <1>3 DEF IpcInv

LEMMA IpcInvStep == IpcInv /\ [Next]_vars => IpcInv'
BY TypeStep, ConsistentStep, QueueStep DEF IpcInv

(* The asserts recv_msg and send_msg make of other processes hold, under   *)
(* every placement of the interrupts.                                      *)
THEOREM AssertsConsistent == Spec => []Consistent
<1>1. IpcInv => Consistent
  BY DEF IpcInv
<1>2. QED
  BY IpcInvInit, IpcInvStep, <1>1, PTL DEF Spec

(* The queue of a process holds exactly the senders blocked on it.         *)
THEOREM QueuesExact == Spec => []SendQueueExact
<1>1. IpcInv => SendQueueExact
  BY DEF IpcInv
<1>2. QED
  BY IpcInvInit, IpcInvStep, <1>1, PTL DEF Spec

-----------------------------------------------------------------------------
(* A step that makes nobody a sender and redirects none makes no cycle.    *)
LEMMA CycleFrame ==
  ASSUME NoSendCycle,
         \A p \in Proc : SENDING \in p_flags'[p] =>
                          SENDING \in p_flags[p] /\ p_sendto'[p] = p_sendto[p]
  PROVE  NoSendCycle'
BY DEF NoSendCycle

(* The test in send_msg is enough.  Were S a circle after the caller is    *)
(* blocked, the caller would be in it, and so would dest; deadlock() said  *)
(* no, so some closed set C holds dest and not the caller; S and C have a  *)
(* circle of their own in common, from before the step.                    *)
LEMMA CycleTest ==
  ASSUME TypeOK, Consistent, NoSendCycle, NEW dest \in Proc, SendQueued(dest)
  PROVE  NoSendCycle'
<1> DEFINE me == p_proc_ready
<1>1. /\ me \in Proc
      /\ \A p \in Proc \ {me} : p_flags'[p] = p_flags[p] /\ p_sendto'[p] = p_sendto[p]
      /\ p_sendto'[me] = dest
  BY DEF SendQueued, EnterSend, TypeOK
<1>2. PICK C \in SUBSET Proc : dest \in C /\ SendClosed(C) /\ me \notin C
  BY DEF SendQueued, Deadlock
<1> SUFFICES ASSUME NEW S \in (SUBSET Proc) \ {{}},
                    \A p \in S : SENDING \in p_flags'[p] /\ p_sendto'[p] \in S
             PROVE  FALSE
  BY DEF NoSendCycle
<1>3. CASE me \notin S
  BY <1>1, <1>3 DEF NoSendCycle
<1>4. CASE me \in S
  <2>1. dest \in S \cap C
    BY <1>1, <1>2, <1>4
  <2>2. ASSUME NEW p \in S \cap C
        PROVE  SENDING \in p_flags[p] /\ p_sendto[p] \in S \cap C
    <3>1. p \in Proc \ {me}
      BY <1>2
    <3>2. SENDING \in p_flags[p] /\ p_sendto[p] \in S
      BY <1>1, <3>1
    <3>3. p_sendto[p] \in C
      BY <1>2, <3>2 DEF SendClosed
    <3>4. QED
      BY <3>2, <3>3
  <2>3. S \cap C \in (SUBSET Proc) \ {{}}
    BY <2>1
  <2>4. QED
    BY <2>2, <2>3 DEF NoSendCycle
<1>5. QED
  BY <1>3, <1>4

(* No step closes a circle of blocked senders.                             *)
LEMMA CycleStep ==
  ASSUME TypeOK, Consistent, NoSendCycle, [Next]_vars
  PROVE  NoSendCycle'
<1> USE DEF TypeOK, procVars, SENDING, RECEIVING
<1>1. ASSUME NEW dest \in Proc, SendPanics(dest)
      PROVE  NoSendCycle'
  BY <1>1, CycleFrame DEF SendPanics
<1>2. ASSUME NEW dest \in Proc, SendDirect(dest)
      PROVE  NoSendCycle'
  BY <1>2, CycleFrame DEF SendDirect
<1>3. ASSUME NEW dest \in Proc, SendQueued(dest)
      PROVE  NoSendCycle'
  BY <1>3, CycleTest
<1>4. ASSUME NEW src \in Proc \cup {ANY, INTERRUPT}, RecvInterrupt(src)
      PROVE  NoSendCycle'
  BY <1>4, CycleFrame DEF RecvInterrupt
<1>5. ASSUME NEW src \in Proc \cup {ANY, INTERRUPT}, RecvCopy(src)
      PROVE  NoSendCycle'
  <2>1. PICK i \in DOMAIN q_sending[p_proc_ready], from \in Proc :
          TakesFrom(i, from)
    BY <1>5, RecvCopyTakes
  <2>2. QED
    BY <2>1, CycleFrame DEF TakesFrom
<1>6. ASSUME NEW src \in Proc \cup {ANY, INTERRUPT}, RecvMustWait(src)
      PROVE  NoSendCycle'
  BY <1>6, CycleFrame DEF RecvMustWait
<1>7. ASSUME SendAssert
      PROVE  NoSendCycle'
  BY <1>7, CycleFrame DEF SendAssert
<1>8. ASSUME SendCopy
      PROVE  NoSendCycle'
  BY <1>8, CycleFrame DEF SendCopy
<1>9. ASSUME SendClear
      PROVE  NoSendCycle'
  BY <1>9, CycleFrame DEF SendClear
<1>10. ASSUME SendWake
      PROVE  NoSendCycle'
  BY <1>10, CycleFrame DEF SendWake
<1>11. ASSUME RecvSetFlag
      PROVE  NoSendCycle'
  BY <1>11, CycleFrame DEF RecvSetFlag
<1>12. ASSUME RecvSetFrom
      PROVE  NoSendCycle'
  BY <1>12, CycleFrame DEF RecvSetFrom
<1>13. ASSUME Block
      PROVE  NoSendCycle'
  BY <1>13, CycleFrame DEF Block
<1>14. ASSUME BlockAsserts
      PROVE  NoSendCycle'
  BY <1>14, CycleFrame DEF BlockAsserts
<1>15. ASSUME Preempt
      PROVE  NoSendCycle'
  BY <1>15, CycleFrame DEF Preempt
<1>16. ASSUME NEW t \in Drivers, InfoTask(t)
      PROVE  NoSendCycle'
  <2>1. \A p \in Proc : SENDING \in p_flags'[p] => SENDING \in p_flags[p]
    BY <1>16 DEF InfoTask
  <2>2. \A p \in Proc : SENDING \in p_flags'[p] => p_sendto'[p] = p_sendto[p]
    BY <1>16 DEF InfoTask
  <2>3. QED
    BY <2>1, <2>2, CycleFrame
<1>17. CASE UNCHANGED vars
  BY <1>17, CycleFrame DEF vars
<1>18. QED
  BY <1>1, <1>2, <1>3, <1>4, <1>5, <1>6, <1>7, <1>8, <1>9, <1>10, <1>11, <1>12, <1>13, <1>14, <1>15, <1>16, <1>17
     DEF Next, Sends, Receives, KernelStep

(* Blocked senders never wait on one another in a circle, for any number   *)
(* of processes: the walk in deadlock() always ends.                       *)
THEOREM NoCycle == Spec => []NoSendCycle
<1>1. Init => NoSendCycle
  <2> SUFFICES ASSUME Init, NEW S \in (SUBSET Proc) \ {{}}
               PROVE  \E p \in S : SENDING \in p_flags[p] => p_sendto[p] \notin S
    BY DEF NoSendCycle
  <2>1. S # {}
    OBVIOUS
  <2>2. PICK p \in S : TRUE
    BY <2>1
  <2>3. QED
    BY <2>2 DEF Init
<1>2. IpcInv /\ NoSendCycle /\ [Next]_vars => NoSendCycle'
  BY CycleStep DEF IpcInv
<1>3. QED
  BY IpcInvInit, IpcInvStep, <1>1, <1>2, PTL DEF Spec

-----------------------------------------------------------------------------
(* The loop of deadlock().  Hops is defined by recursion on the number of  *)
(* rounds; h below is the walk it takes.  Arguments about the walk look    *)
(* for the first round at which something goes wrong.                      *)
LEMMA LeastNatural ==
  ASSUME NEW T \in SUBSET Nat, T # {}
  PROVE  \E m \in T : \A n \in T : m <= n
<1> DEFINE Below == OpToRel(<, Nat)
<1>1. IsWellFoundedOn(Below, Nat)
  BY NatLessThanWellFounded
<1>2. ASSUME NEW j \in Nat, NEW n \in Nat, n < j PROVE <<n, j>> \in Below
  BY <1>2 DEF Below, OpToRel
<1> HIDE DEF Below
<1>3. PICK m \in T : \A n \in T : <<n, m>> \notin Below
  BY <1>1, WFMin, Zenon
<1>4. ASSUME NEW n \in T PROVE m <= n
  <2>1. ~ (n < m)
    BY <1>2, <1>3
  <2>2. m \in Nat /\ n \in Nat
    OBVIOUS
  <2>3. QED
    BY <2>1, <2>2
<1>5. QED
  BY <1>4

IsWalk(h, dest, m) ==
  /\ h \in [0..m -> Proc] /\ h[0] = dest
  /\ \A n \in 1..m : h[n] = IF SENDING \in p_flags[h[n - 1]] THEN p_sendto[h[n - 1]]
                            ELSE h[n - 1]

LEMMA SendsToProc ==
  ASSUME IpcInv, NEW p \in Proc, SENDING \in p_flags[p]
  PROVE  p_sendto[p] \in Proc \ {p}
<1>1. ProcShape(p)
  BY DEF IpcInv, Consistent
<1>2. QED
  BY <1>1 DEF ProcShape, SENDING, RECEIVING

LEMMA WalkExists ==
  ASSUME IpcInv, NEW dest \in Proc, NEW N \in Nat
  PROVE  \E h : IsWalk(h, dest, N)
<1> DEFINE Bad == {m \in 0..N : ~ (\E h : IsWalk(h, dest, m))}
<1>1. SUFFICES ASSUME Bad # {} PROVE FALSE
  OBVIOUS
<1>2. PICK m \in Bad : \A j \in Bad : m <= j
  <2>1. Bad \in SUBSET Nat
    OBVIOUS
  <2>2. QED
    BY <1>1, <2>1, LeastNatural
<1>3. m # 0
  <2>1. IsWalk([n \in 0..0 |-> dest], dest, 0)
    BY DEF IsWalk
  <2>2. QED
    BY <2>1
<1>4. PICK h : IsWalk(h, dest, m - 1)
  <2>1. m - 1 \in 0..N /\ m - 1 \notin Bad
    BY <1>2, <1>3
  <2>2. QED
    BY <2>1
<1> DEFINE last == h[m - 1]
           next == IF SENDING \in p_flags[last] THEN p_sendto[last] ELSE last
           t == [n \in 0..m |-> IF n = m THEN next ELSE h[n]]
<1>5. last \in Proc
  BY <1>2, <1>3, <1>4 DEF IsWalk
<1>6. next \in Proc
  BY <1>5, SendsToProc
<1>7. IsWalk(t, dest, m)
  <2> HIDE DEF next
  <2>1. t \in [0..m -> Proc] /\ t[0] = dest
    BY <1>2, <1>3, <1>4, <1>6 DEF IsWalk
  <2>2. ASSUME NEW n \in 1..m
        PROVE  t[n] = IF SENDING \in p_flags[t[n - 1]] THEN p_sendto[t[n - 1]] ELSE t[n - 1]
    <3>1. CASE n = m
      <4>1. t[n - 1] = last /\ t[n] = next
        BY <1>2, <1>3, <3>1
      <4>2. QED
        BY <4>1 DEF next
    <3>2. CASE n # m
      BY <1>2, <1>3, <1>4, <3>2 DEF IsWalk
    <3>3. QED
      BY <3>1, <3>2
  <2>3. QED
    BY <2>1, <2>2 DEF IsWalk
<1>8. QED
  BY <1>7

LEMMA HopsIsWalk ==
  ASSUME IpcInv, NEW dest \in Proc
  PROVE  IsWalk(Hops(dest), dest, Cardinality(Proc))
<1> DEFINE N == Cardinality(Proc)
           Rule(h) == h = [n \in 0..N |->
                             IF n = 0 THEN dest
                             ELSE IF SENDING \in p_flags[h[n - 1]] THEN p_sendto[h[n - 1]]
                             ELSE h[n - 1]]
           hop == CHOOSE h : Rule(h)
<1>n. N \in Nat
  BY TableAssumption, FS_CardinalityType
<1>1. Hops(dest) = hop
  BY Zenon DEF Hops
<1> HIDE DEF N
<1>2. PICK h : IsWalk(h, dest, N)
  BY <1>n, WalkExists
<1>3. Rule(h)
  BY <1>n, <1>2 DEF IsWalk
<1>4. Rule(hop)
  BY <1>3, Zenon
<1> HIDE DEF hop
<1>5. hop = h
  <2> DEFINE Bad == {n \in 0..N : hop[n] # h[n]}
  <2>1. SUFFICES ASSUME Bad # {} PROVE FALSE
    BY <1>3, <1>4
  <2>2. PICK m \in Bad : \A j \in Bad : m <= j
    <3>1. Bad \in SUBSET Nat
      BY <1>n
    <3>2. QED
      BY <2>1, <3>1, LeastNatural
  <2>3. CASE m = 0
    BY <1>n, <1>3, <1>4, <2>2, <2>3
  <2>4. CASE m # 0
    <3>1. hop[m - 1] = h[m - 1]
      BY <1>n, <2>2, <2>4
    <3>2. /\ hop[m] = IF SENDING \in p_flags[hop[m - 1]] THEN p_sendto[hop[m - 1]]
                       ELSE hop[m - 1]
          /\ h[m] = IF SENDING \in p_flags[h[m - 1]] THEN p_sendto[h[m - 1]] ELSE h[m - 1]
      BY <1>n, <1>3, <1>4, <2>2, <2>4
    <3>3. QED
      BY <2>2, <3>1, <3>2
  <2>5. QED
    BY <2>3, <2>4
<1>6. QED
  BY <1>1, <1>2, <1>5 DEF N

(* A walk of as many hops as there are processes has met one of them       *)
(* twice, so by NoSendCycle it has come to one that does not send.         *)
LEMMA WalkEnds ==
  ASSUME IpcInv, NoSendCycle, NEW h, NEW dest \in Proc,
         IsWalk(h, dest, Cardinality(Proc))
  PROVE  SENDING \notin p_flags[h[Cardinality(Proc)]]
<1> DEFINE N == Cardinality(Proc)
<1>n. N \in Nat /\ IsFiniteSet(Proc)
  BY TableAssumption, FS_CardinalityType
<1>1. /\ h \in [0..N -> Proc]
      /\ \A n \in 1..N : h[n] = IF SENDING \in p_flags[h[n - 1]] THEN p_sendto[h[n - 1]]
                                ELSE h[n - 1]
  BY DEF IsWalk
<1>2. SUFFICES ASSUME SENDING \in p_flags[h[N]] PROVE FALSE
  OBVIOUS
<1>3. PICK x, y \in 0..N : x # y /\ h[x] = h[y]
  <2>1. IsFiniteSet(0..N) /\ Cardinality(0..N) = N + 1
    BY <1>n, FS_Interval
  <2> DEFINE rounds == 0..N
  <2>2. /\ IsFiniteSet(rounds) /\ Cardinality(Proc) < Cardinality(rounds)
        /\ h \in [rounds -> Proc]
    BY <1>n, <1>1, <2>1
  <2>3. SUFFICES \E a, b \in rounds : a # b /\ h[a] = h[b]
    OBVIOUS
  <2> HIDE DEF rounds, N
  <2>4. QED
    BY <1>n, <2>2, FS_PigeonHole, Zenon
<1> HIDE DEF N
(* Every process on the way sends: the walk does not move on from one that *)
(* does not.                                                               *)
<1>4. \A n \in 0..N : SENDING \in p_flags[h[n]]
  <2> DEFINE Still == {c \in 0..N : SENDING \notin p_flags[h[N - c]]}
  <2>1. Still = {}
    <3>1. SUFFICES ASSUME Still # {} PROVE FALSE
      OBVIOUS
    <3>2. PICK c \in Still : \A j \in Still : c <= j
      <4>1. Still \in SUBSET Nat
        BY <1>n
      <4>2. QED
        BY <3>1, <4>1, LeastNatural
    <3>3. c # 0
      BY <1>n, <1>2, <3>2
    <3>4. c - 1 \in 0..N /\ c - 1 \notin Still /\ N - (c - 1) = (N - c) + 1
      BY <1>n, <3>2, <3>3
    <3>5. SENDING \in p_flags[h[(N - c) + 1]]
      BY <3>4
    <3>6. (N - c) + 1 \in 1..N /\ ((N - c) + 1) - 1 = N - c
      BY <1>n, <3>2, <3>3
    <3>7. h[(N - c) + 1] = h[N - c]
      BY <1>1, <3>2, <3>6
    <3>8. QED
      BY <3>2, <3>5, <3>7
  <2>2. ASSUME NEW n \in 0..N PROVE SENDING \in p_flags[h[n]]
    <3>1. N - n \in 0..N /\ N - (N - n) = n
      BY <1>n
    <3>2. QED
      BY <2>1, <3>1
  <2>3. QED
    BY <2>2
<1>5. ASSUME NEW a \in 0..N, NEW b \in 0..N, a < b, h[a] = h[b] PROVE FALSE
  <2> DEFINE S == {h[n] : n \in a..(b - 1)}
  <2>1. S \in (SUBSET Proc) \ {{}}
    <3>1. \A n \in a..(b - 1) : h[n] \in Proc
      BY <1>n, <1>1
    <3>2. a \in a..(b - 1)
      BY <1>n, <1>5
    <3>3. QED
      BY <3>1, <3>2
  <2>2. ASSUME NEW n \in a..(b - 1) PROVE p_sendto[h[n]] \in S
    <3>1. n \in 0..N /\ n + 1 \in 1..N /\ (n + 1) - 1 = n
      BY <1>n
    <3>2. p_sendto[h[n]] = h[n + 1]
      BY <1>1, <1>4, <3>1
    <3>3. CASE n = b - 1
      <4>1. h[n + 1] = h[a] /\ a \in a..(b - 1)
        BY <1>n, <1>5, <3>3
      <4>2. QED
        BY <3>2, <4>1
    <3>4. CASE n # b - 1
      <4>1. n + 1 \in a..(b - 1)
        BY <1>n, <3>4
      <4>2. QED
        BY <3>2, <4>1
    <3>5. QED
      BY <3>3, <3>4
  <2>3. \A n \in a..(b - 1) : SENDING \in p_flags[h[n]]
    BY <1>n, <1>4
  <2>4. PICK p \in S : SENDING \in p_flags[p] => p_sendto[p] \notin S
    <3> HIDE DEF S
    <3>1. QED
      BY <2>1 DEF NoSendCycle
  <2>5. QED
    BY <2>2, <2>3, <2>4
<1>6. QED
  <2>1. x < y \/ y < x
    BY <1>n, <1>3
  <2>2. QED
    BY <1>3, <1>5, <2>1

(* What the walk has met by its end is the least set of Deadlock.          *)
LEMMA WalkMeets ==
  ASSUME IpcInv, NoSendCycle, NEW h, NEW src \in Proc, NEW dest \in Proc \ {src},
         IsWalk(h, dest, Cardinality(Proc))
  PROVE  Deadlock(src, dest)
           <=> \E n \in 1..Cardinality(Proc) : h[n] = src /\ h[n - 1] # h[n]
<1> DEFINE N == Cardinality(Proc)
<1>n. N \in Nat
  BY TableAssumption, FS_CardinalityType
<1>0. SENDING \notin p_flags[h[N]]
  BY WalkEnds
<1> HIDE DEF N
<1>1. /\ h \in [0..N -> Proc] /\ h[0] = dest
      /\ \A n \in 1..N : h[n] = IF SENDING \in p_flags[h[n - 1]] THEN p_sendto[h[n - 1]]
                                ELSE h[n - 1]
  BY DEF IsWalk, N
<1>2. ASSUME Deadlock(src, dest)
      PROVE  \E n \in 1..N : h[n] = src /\ h[n - 1] # h[n]
  <2> DEFINE S == {h[n] : n \in 0..N}
  <2>1. S \in SUBSET Proc /\ dest \in S
    BY <1>n, <1>1
  <2>2. ASSUME NEW n \in 0..N, SENDING \in p_flags[h[n]] PROVE p_sendto[h[n]] \in S
    <3>1. n # N
      BY <1>0, <2>2
    <3>2. n + 1 \in 1..N /\ (n + 1) - 1 = n /\ n + 1 \in 0..N
      BY <1>n, <3>1
    <3>3. p_sendto[h[n]] = h[n + 1]
      BY <1>1, <2>2, <3>2
    <3>4. QED
      BY <3>2, <3>3
  <2>3. SendClosed(S)
    BY <2>2 DEF SendClosed
  <2>4. src \in S
    <3> HIDE DEF S
    <3>1. QED
      BY <1>2, <2>1, <2>3 DEF Deadlock
  <2> DEFINE At == {n \in 0..N : h[n] = src}
  <2>5. At # {} /\ At \in SUBSET Nat
    BY <1>n, <2>4
  <2>6. PICK m \in At : \A j \in At : m <= j
    <3> HIDE DEF At
    <3>1. QED
      BY <2>5, LeastNatural
  <2>7. m # 0
    BY <1>1, <2>6
  <2>8. m \in 1..N /\ m - 1 \in 0..N /\ m - 1 \notin At
    BY <1>n, <2>6, <2>7
  <2>9. QED
    BY <2>6, <2>8
<1>3. ASSUME NEW n \in 1..N, h[n] = src, NEW S \in SUBSET Proc, dest \in S, SendClosed(S)
      PROVE  src \in S
  <2> DEFINE Out == {j \in 0..N : h[j] \notin S}
  <2>1. Out = {}
    <3>1. SUFFICES ASSUME Out # {} PROVE FALSE
      OBVIOUS
    <3>2. PICK m \in Out : \A j \in Out : m <= j
      <4>1. Out \in SUBSET Nat
        BY <1>n
      <4>2. QED
        BY <3>1, <4>1, LeastNatural
    <3>3. m # 0
      BY <1>1, <1>3, <3>2
    <3>4. m \in 1..N /\ m - 1 \in 0..N /\ m - 1 \notin Out
      BY <1>n, <3>2, <3>3
    <3>5. h[m - 1] \in S
      BY <3>4
    <3>6. h[m] \in S
      BY <1>1, <1>3, <3>4, <3>5 DEF SendClosed
    <3>7. QED
      BY <3>2, <3>6
  <2>2. QED
    BY <1>n, <1>3, <2>1
<1>4. QED
  BY <1>2, <1>3 DEF Deadlock, N

(* deadlock() (proc.c:67-79) comes to an end at every send, and answers as *)
(* the least set says: 1 if the new link would close a circle.             *)
THEOREM WalkCorrect == Spec => []WalkAgrees
<1>1. IpcInv /\ NoSendCycle => WalkAgrees
  <2>1. SUFFICES ASSUME IpcInv, NoSendCycle, NEW dest \in Proc \ {p_proc_ready}
                 PROVE  LET hop == Hops(dest)
                            N == Cardinality(Proc)
                        IN /\ SENDING \notin p_flags[hop[N]]
                           /\ Deadlock(p_proc_ready, dest)
                                <=> \E n \in 1..N : hop[n] = p_proc_ready /\ hop[n - 1] # hop[n]
    BY DEF WalkAgrees
  <2>2. IsWalk(Hops(dest), dest, Cardinality(Proc))
    BY <2>1, HopsIsWalk
  <2>3. p_proc_ready \in Proc
    BY <2>1 DEF IpcInv, TypeOK
  <2>4. QED
    BY <2>1, <2>2, <2>3, WalkEnds, WalkMeets
<1>2. QED
  BY IpcInvInit, IpcInvStep, NoCycle, <1>1, PTL DEF Spec

-----------------------------------------------------------------------------
(* Outside the windows: what a sender saw of its receiver, and what a      *)
(* receiver saw of its notification bit, is still so when it acts on it.   *)
Undisturbed ==
  /\ pc # "assert"
  /\ pc \in {"send_assert", "send_copy", "send_clear"} =>
       p_flags[peer] = {RECEIVING} /\ p_recvfrom[peer] \in {p_proc_ready, ANY}
  /\ pc = "send_wake" => p_flags[peer] = {RECEIVING}
  /\ pc \in RecvSteps /\ peer \in {ANY, INTERRUPT} => ~ has_int_msg[p_proc_ready]
  /\ pc = "recv_block" =>
       p_flags[p_proc_ready] = {RECEIVING} /\ p_recvfrom[p_proc_ready] = peer

(* No step of the undisturbed kernel makes an assert fail.                 *)
LEMMA UndisturbedStep ==
  ASSUME IpcInv, Undisturbed, [QuietNext]_vars
  PROVE  Undisturbed'
<1> USE ProcAssumption DEF IpcInv, Undisturbed, TypeOK, Steps, SendSteps, RecvSteps, BlockSteps,
        StopSteps, procVars, Consistent, CallerShape, ProcShape, SENDING, RECEIVING
<1>1. ASSUME NEW dest \in Proc, SendPanics(dest)
      PROVE  Undisturbed'
  BY <1>1 DEF SendPanics, EnterSend
<1>2. ASSUME NEW dest \in Proc, SendDirect(dest)
      PROVE  Undisturbed'
  BY <1>2 DEF SendDirect, EnterSend, Accepts
<1>3. ASSUME NEW dest \in Proc, SendQueued(dest)
      PROVE  Undisturbed'
  BY <1>3 DEF SendQueued, EnterSend
<1>4. ASSUME NEW src \in Proc \cup {ANY, INTERRUPT}, RecvInterrupt(src)
      PROVE  Undisturbed'
  BY <1>4 DEF RecvInterrupt, EnterReceive
<1>5. ASSUME NEW src \in Proc \cup {ANY, INTERRUPT}, RecvCopy(src)
      PROVE  Undisturbed'
  BY <1>5 DEF RecvCopy, EnterReceive
<1>6. ASSUME NEW src \in Proc \cup {ANY, INTERRUPT}, RecvMustWait(src)
      PROVE  Undisturbed'
  BY <1>6 DEF RecvMustWait, EnterReceive, TakesInterrupt
<1>7. ASSUME SendAssert
      PROVE  Undisturbed'
  BY <1>7 DEF SendAssert
<1>8. ASSUME SendCopy
      PROVE  Undisturbed'
  BY <1>8 DEF SendCopy
<1>9. ASSUME SendClear
      PROVE  Undisturbed'
  BY <1>9 DEF SendClear
<1>10. ASSUME SendWake
      PROVE  Undisturbed'
  <2>1. pc' = "user" /\ UNCHANGED <<peer, p_proc_ready>>
    <3>1. p_flags[peer] = {RECEIVING} /\ ~ p_msg[peer] /\ p_sendto[peer] = NO_TASK
      BY <1>10 DEF SendWake
    <3>2. /\ p_flags[p_proc_ready] = {} /\ ~ p_msg[p_proc_ready]
          /\ p_sendto[p_proc_ready] = NO_TASK /\ p_recvfrom[p_proc_ready] = NO_TASK
          /\ peer # p_proc_ready
      BY <1>10 DEF SendWake
    <3>3. Settled(peer) /\ Settled(p_proc_ready)
      BY <1>10, <3>1, <3>2 DEF SendWake, Settled
    <3>4. QED
      BY <1>10, <3>3 DEF SendWake
  <2>2. QED
    BY <2>1
<1>11. ASSUME RecvSetFlag
      PROVE  Undisturbed'
  BY <1>11 DEF RecvSetFlag
<1>12. ASSUME RecvSetFrom
      PROVE  Undisturbed'
  BY <1>12 DEF RecvSetFrom
<1>13. ASSUME Block
      PROVE  Undisturbed'
  BY <1>13 DEF Block
<1>14. ASSUME BlockAsserts
      PROVE  Undisturbed'
  BY <1>14 DEF BlockAsserts, BlockHolds
<1>15. ASSUME Preempt
      PROVE  Undisturbed'
  BY <1>15 DEF Preempt
<1>16. ASSUME NEW t \in Drivers, ~ InWindow(t), InfoTask(t)
      PROVE  Undisturbed'
  <2>1. t \in Proc /\ UNCHANGED <<p_proc_ready, pc, peer>>
    BY <1>16, RoleAssumption DEF InfoTask
  <2>2. CASE p_flags[t] = {RECEIVING} /\ p_recvfrom[t] \in {INTERRUPT, ANY}
    BY <1>16, <2>1, <2>2 DEF InfoTask, InWindow
  <2>3. CASE ~ (p_flags[t] = {RECEIVING} /\ p_recvfrom[t] \in {INTERRUPT, ANY})
    BY <1>16, <2>1, <2>3 DEF InfoTask, InWindow
  <2>4. QED
    BY <2>2, <2>3
<1>17. CASE UNCHANGED vars
  BY <1>17 DEF vars, procVars
<1>18. QED
  BY <1>1, <1>2, <1>3, <1>4, <1>5, <1>6, <1>7, <1>8, <1>9, <1>10, <1>11, <1>12, <1>13, <1>14, <1>15, <1>16, <1>17
     DEF QuietNext, Sends, Receives, KernelStep

(* Nor does it let a task sleep on a notification it has.                  *)
LEMMA WakeupStep ==
  ASSUME IpcInv, Undisturbed, NoLostWakeup, [QuietNext]_vars
  PROVE  NoLostWakeup'
<1> USE ProcAssumption, RoleAssumption DEF IpcInv, Undisturbed, NoLostWakeup, TypeOK, Steps, SendSteps, RecvSteps,
        BlockSteps, StopSteps, procVars, Consistent, CallerShape, ProcShape, SENDING, RECEIVING
<1>1. ASSUME NEW dest \in Proc, SendPanics(dest)
      PROVE  NoLostWakeup'
  BY <1>1 DEF SendPanics, EnterSend
<1>2. ASSUME NEW dest \in Proc, SendDirect(dest)
      PROVE  NoLostWakeup'
  BY <1>2 DEF SendDirect, EnterSend
<1>3. ASSUME NEW dest \in Proc, SendQueued(dest)
      PROVE  NoLostWakeup'
  BY <1>3 DEF SendQueued, EnterSend
<1>4. ASSUME NEW src \in Proc \cup {ANY, INTERRUPT}, RecvInterrupt(src)
      PROVE  NoLostWakeup'
  BY <1>4 DEF RecvInterrupt, EnterReceive
<1>5. ASSUME NEW src \in Proc \cup {ANY, INTERRUPT}, RecvCopy(src)
      PROVE  NoLostWakeup'
  <2>1. PICK i \in DOMAIN q_sending[p_proc_ready], from \in Proc :
          TakesFrom(i, from)
    BY <1>5, RecvCopyTakes
  <2>2. \A p \in Proc : p_flags'[p] = {RECEIVING} => p_flags[p] = {RECEIVING}
    <3> SUFFICES ASSUME NEW p \in Proc, p_flags'[p] = {RECEIVING}
                 PROVE  p_flags[p] = {RECEIVING}
      OBVIOUS
    <3>1. p # from => p_flags'[p] = p_flags[p]
      BY <2>1 DEF TakesFrom
    <3>2. p = from => p_flags'[p] = p_flags[p] \ {SENDING}
      BY <2>1 DEF TakesFrom
    <3>3. p_flags[p] \in {{}, {SENDING}, {RECEIVING}}
      OBVIOUS
    <3>4. QED
      BY <3>1, <3>2, <3>3
  <2>3. QED
    BY <1>5, <2>2 DEF RecvCopy, EnterReceive
<1>6. ASSUME NEW src \in Proc \cup {ANY, INTERRUPT}, RecvMustWait(src)
      PROVE  NoLostWakeup'
  BY <1>6 DEF RecvMustWait, EnterReceive
<1>7. ASSUME SendAssert
      PROVE  NoLostWakeup'
  BY <1>7 DEF SendAssert
<1>8. ASSUME SendCopy
      PROVE  NoLostWakeup'
  BY <1>8 DEF SendCopy
<1>9. ASSUME SendClear
      PROVE  NoLostWakeup'
  BY <1>9 DEF SendClear
<1>10. ASSUME SendWake
      PROVE  NoLostWakeup'
  <2>1. ASSUME NEW p \in Proc, p_flags'[p] = {RECEIVING}
        PROVE  p # peer /\ p_flags[p] = {RECEIVING}
    <3>1. peer \in Proc /\ p_flags[peer] = {RECEIVING}
      BY <1>10 DEF SendWake
    <3>2. p_flags'[peer] = {}
      BY <1>10, <3>1 DEF SendWake
    <3>3. p # peer => p_flags'[p] = p_flags[p]
      BY <1>10 DEF SendWake
    <3>4. QED
      BY <2>1, <3>2, <3>3
  <2>2. QED
    BY <1>10, <2>1 DEF SendWake
<1>11. ASSUME RecvSetFlag
      PROVE  NoLostWakeup'
  BY <1>11 DEF RecvSetFlag
<1>12. ASSUME RecvSetFrom
      PROVE  NoLostWakeup'
  BY <1>12 DEF RecvSetFrom
<1>13. ASSUME Block
      PROVE  NoLostWakeup'
  BY <1>13 DEF Block
<1>14. ASSUME BlockAsserts
      PROVE  NoLostWakeup'
  BY <1>14 DEF BlockAsserts
<1>15. ASSUME Preempt
      PROVE  NoLostWakeup'
  BY <1>15 DEF Preempt
<1>16. ASSUME NEW t \in Drivers, ~ InWindow(t), InfoTask(t)
      PROVE  NoLostWakeup'
  <2>1. CASE p_flags[t] = {RECEIVING} /\ p_recvfrom[t] \in {INTERRUPT, ANY}
    <3>1. /\ UNCHANGED <<p_proc_ready, pc, peer>>
          /\ has_int_msg' = [has_int_msg EXCEPT ![t] = FALSE]
          /\ \A p \in Proc \ {t} :
               p_flags'[p] = p_flags[p] /\ p_recvfrom'[p] = p_recvfrom[p]
      BY <1>16, <2>1 DEF InfoTask
    <3>2. ASSUME NEW p \in Proc PROVE has_int_msg'[p] => has_int_msg[p]
      BY <3>1
    <3>3. ~ has_int_msg'[t]
      BY <3>1
    <3>4. QED
      BY <3>1, <3>2, <3>3
  <2>2. CASE ~ (p_flags[t] = {RECEIVING} /\ p_recvfrom[t] \in {INTERRUPT, ANY})
    <3>1. /\ UNCHANGED <<p_flags, p_recvfrom, p_proc_ready, pc, peer>>
          /\ \A p \in Proc \ {t} : has_int_msg'[p] = has_int_msg[p]
      BY <1>16, <2>2 DEF InfoTask
    <3>2. QED
      BY <2>2, <3>1
  <2>3. QED
    BY <2>1, <2>2
<1>17. CASE UNCHANGED vars
  BY <1>17 DEF vars, procVars
<1>18. QED
  BY <1>1, <1>2, <1>3, <1>4, <1>5, <1>6, <1>7, <1>8, <1>9, <1>10, <1>11, <1>12, <1>13, <1>14, <1>15, <1>16, <1>17
     DEF QuietNext, Sends, Receives, KernelStep

LEMMA QuietIsNext == [QuietNext]_vars => [Next]_vars
BY DEF QuietNext, Next

LEMMA QuietInvInit == Init => Undisturbed /\ NoLostWakeup
BY RoleAssumption DEF Init, Undisturbed, NoLostWakeup, SendSteps, RecvSteps

LEMMA QuietInvariant == QuietSpec => [](IpcInv /\ Undisturbed /\ NoLostWakeup)
<1>1. IpcInv /\ Undisturbed /\ NoLostWakeup /\ [QuietNext]_vars
        => (IpcInv /\ Undisturbed /\ NoLostWakeup)'
  BY QuietIsNext, IpcInvStep, UndisturbedStep, WakeupStep
<1>2. QED
  BY IpcInvInit, QuietInvInit, <1>1, PTL DEF QuietSpec

(* No kernel assert fails as long as no interrupt falls into a window: the *)
(* windows are the only places where info_task can break one.              *)
THEOREM QuietAsserts == QuietSpec => []NoAssertFails
<1>1. Undisturbed => NoAssertFails
  BY DEF Undisturbed, NoAssertFails
<1>2. QED
  BY QuietInvariant, <1>1, PTL

(* Outside the windows a task never sleeps on a notification it has.       *)
THEOREM QuietWakeups == QuietSpec => []NoLostWakeup
BY QuietInvariant, PTL

-----------------------------------------------------------------------------
(* A receiver that takes no interrupts stays as the sender found it.       *)
ReceiverHeld ==
  peer \notin Drivers =>
    /\ pc \in SendSteps =>
         p_flags[peer] = {RECEIVING} /\ p_recvfrom[peer] \in {p_proc_ready, ANY}
    /\ pc \in {"send_clear", "send_wake"} => mail[peer] = p_proc_ready

(* No step of another process takes it away.                               *)
LEMMA ReceiverHeldStep ==
  ASSUME IpcInv, ReceiverHeld, [Next]_vars
  PROVE  ReceiverHeld'
<1> USE ProcAssumption DEF IpcInv, ReceiverHeld, TypeOK, Steps, SendSteps, RecvSteps, BlockSteps,
        StopSteps, procVars, Consistent, CallerShape, ProcShape, SENDING, RECEIVING
<1>1. ASSUME NEW dest \in Proc, SendPanics(dest)
      PROVE  ReceiverHeld'
  BY <1>1 DEF SendPanics, EnterSend
<1>2. ASSUME NEW dest \in Proc, SendDirect(dest)
      PROVE  ReceiverHeld'
  BY <1>2 DEF SendDirect, EnterSend, Accepts
<1>3. ASSUME NEW dest \in Proc, SendQueued(dest)
      PROVE  ReceiverHeld'
  BY <1>3 DEF SendQueued, EnterSend
<1>4. ASSUME NEW src \in Proc \cup {ANY, INTERRUPT}, RecvInterrupt(src)
      PROVE  ReceiverHeld'
  BY <1>4 DEF RecvInterrupt, EnterReceive
<1>5. ASSUME NEW src \in Proc \cup {ANY, INTERRUPT}, RecvCopy(src)
      PROVE  ReceiverHeld'
  BY <1>5 DEF RecvCopy, EnterReceive
<1>6. ASSUME NEW src \in Proc \cup {ANY, INTERRUPT}, RecvMustWait(src)
      PROVE  ReceiverHeld'
  BY <1>6 DEF RecvMustWait, EnterReceive
<1>7. ASSUME SendAssert
      PROVE  ReceiverHeld'
  BY <1>7 DEF SendAssert
<1>8. ASSUME SendCopy
      PROVE  ReceiverHeld'
  BY <1>8 DEF SendCopy
<1>9. ASSUME SendClear
      PROVE  ReceiverHeld'
  BY <1>9 DEF SendClear
<1>10. ASSUME SendWake
      PROVE  ReceiverHeld'
  BY <1>10 DEF SendWake
<1>11. ASSUME RecvSetFlag
      PROVE  ReceiverHeld'
  BY <1>11 DEF RecvSetFlag
<1>12. ASSUME RecvSetFrom
      PROVE  ReceiverHeld'
  BY <1>12 DEF RecvSetFrom
<1>13. ASSUME Block
      PROVE  ReceiverHeld'
  BY <1>13 DEF Block
<1>14. ASSUME BlockAsserts
      PROVE  ReceiverHeld'
  BY <1>14 DEF BlockAsserts
<1>15. ASSUME Preempt
      PROVE  ReceiverHeld'
  BY <1>15 DEF Preempt
<1>16. ASSUME NEW t \in Drivers, InfoTask(t)
      PROVE  ReceiverHeld'
  <2>1. t \in Proc /\ UNCHANGED <<p_proc_ready, pc, peer>>
    BY <1>16, RoleAssumption DEF InfoTask
  <2>2. CASE t = peer
    BY <2>1, <2>2
  <2>3. CASE t # peer
    <3>1. \A p \in Proc \ {t} : /\ p_flags'[p] = p_flags[p]
                               /\ p_recvfrom'[p] = p_recvfrom[p]
                               /\ mail'[p] = mail[p]
      BY <1>16 DEF InfoTask
    <3>2. QED
      BY <2>1, <2>3, <3>1
  <2>4. QED
    BY <2>2, <2>3
<1>17. CASE UNCHANGED vars
  BY <1>17 DEF vars, procVars
<1>18. QED
  BY <1>1, <1>2, <1>3, <1>4, <1>5, <1>6, <1>7, <1>8, <1>9, <1>10, <1>11, <1>12, <1>13, <1>14, <1>15, <1>16, <1>17
     DEF Next, Sends, Receives, KernelStep

(* Every step delivers what it says it does.                               *)
LEMMA DeliveredStep ==
  ASSUME IpcInv, ReceiverHeld, NEW d \in Proc \ Drivers, [Next]_vars
  PROVE  DeliveredTo(d)
<1> USE ProcAssumption DEF IpcInv, ReceiverHeld, DeliveredTo, TypeOK, Steps, SendSteps, RecvSteps, BlockSteps,
        StopSteps, procVars, Consistent, CallerShape, ProcShape, SENDING, RECEIVING
<1>1. ASSUME NEW dest \in Proc, SendPanics(dest)
      PROVE  DeliveredTo(d)
  BY <1>1 DEF SendPanics, EnterSend
<1>2. ASSUME NEW dest \in Proc, SendDirect(dest)
      PROVE  DeliveredTo(d)
  BY <1>2 DEF SendDirect, EnterSend
<1>3. ASSUME NEW dest \in Proc, SendQueued(dest)
      PROVE  DeliveredTo(d)
  <2>1. /\ pc = "user" /\ RECEIVING \notin p_flags[p_proc_ready]
        /\ p_sendto[p_proc_ready] = NO_TASK
    <3>1. pc = "user"
      BY <1>3 DEF SendQueued, EnterSend
    <3>2. p_flags[p_proc_ready] = {} /\ ProcShape(p_proc_ready)
      BY <3>1
    <3>3. QED
      BY <3>1, <3>2
  <2>2. \A p \in Proc \ {p_proc_ready} : p_flags'[p] = p_flags[p] /\ p_sendto'[p] = p_sendto[p]
    BY <1>3 DEF SendQueued
  <2>3. d # NO_TASK
    OBVIOUS
  <2>4. QED
    BY <2>1, <2>2, <2>3
<1>4. ASSUME NEW src \in Proc \cup {ANY, INTERRUPT}, RecvInterrupt(src)
      PROVE  DeliveredTo(d)
  BY <1>4 DEF RecvInterrupt, EnterReceive
<1>5. ASSUME NEW src \in Proc \cup {ANY, INTERRUPT}, RecvCopy(src)
      PROVE  DeliveredTo(d)
  <2>1. PICK i \in DOMAIN q_sending[p_proc_ready], from \in Proc :
          TakesFrom(i, from)
    BY <1>5, RecvCopyTakes
  <2>2. SENDING \in p_flags[from] /\ p_sendto[from] = p_proc_ready
    BY <2>1 DEF SendQueueExact, TakesFrom, ToSet
  <2>3. /\ \A p \in Proc \ {from} : p_sendto'[p] = p_sendto[p]
        /\ mail'[p_proc_ready] = from
    BY <2>1 DEF TakesFrom
  <2>4. RECEIVING \in p_flags[d] => RECEIVING \in p_flags'[d]
    BY <2>1 DEF TakesFrom
  <2>5. pc = "user"
    BY <1>5 DEF RecvCopy, EnterReceive
  <2>6. QED
    BY <2>2, <2>3, <2>4, <2>5
<1>6. ASSUME NEW src \in Proc \cup {ANY, INTERRUPT}, RecvMustWait(src)
      PROVE  DeliveredTo(d)
  BY <1>6 DEF RecvMustWait, EnterReceive
<1>7. ASSUME SendAssert
      PROVE  DeliveredTo(d)
  BY <1>7 DEF SendAssert
<1>8. ASSUME SendCopy
      PROVE  DeliveredTo(d)
  BY <1>8 DEF SendCopy
<1>9. ASSUME SendClear
      PROVE  DeliveredTo(d)
  BY <1>9 DEF SendClear
<1>10. ASSUME SendWake
      PROVE  DeliveredTo(d)
  BY <1>10 DEF SendWake
<1>11. ASSUME RecvSetFlag
      PROVE  DeliveredTo(d)
  BY <1>11 DEF RecvSetFlag
<1>12. ASSUME RecvSetFrom
      PROVE  DeliveredTo(d)
  BY <1>12 DEF RecvSetFrom
<1>13. ASSUME Block
      PROVE  DeliveredTo(d)
  BY <1>13 DEF Block
<1>14. ASSUME BlockAsserts
      PROVE  DeliveredTo(d)
  BY <1>14 DEF BlockAsserts
<1>15. ASSUME Preempt
      PROVE  DeliveredTo(d)
  BY <1>15 DEF Preempt
<1>16. ASSUME NEW t \in Drivers, InfoTask(t)
      PROVE  DeliveredTo(d)
  <2>1. t \in Proc /\ t # d /\ UNCHANGED pc
    BY <1>16, RoleAssumption DEF InfoTask
  <2>2. p_flags'[d] = p_flags[d]
    BY <1>16, <2>1 DEF InfoTask
  <2>3. \A p \in Proc : p_sendto[p] = d => p_sendto'[p] = d
    <3> SUFFICES ASSUME NEW p \in Proc, p_sendto[p] = d
                 PROVE  p_sendto'[p] = d
      OBVIOUS
    <3>1. d # NO_TASK
      BY ProcAssumption
    <3>2. p_flags[p] # {RECEIVING}
      BY <3>1
    <3>3. QED
      BY <1>16, <3>2 DEF InfoTask
  <2>4. QED
    BY <2>1, <2>2, <2>3
<1>17. CASE UNCHANGED vars
  BY <1>17 DEF vars, procVars
<1>18. QED
  BY <1>1, <1>2, <1>3, <1>4, <1>5, <1>6, <1>7, <1>8, <1>9, <1>10, <1>11, <1>12, <1>13, <1>14, <1>15, <1>16, <1>17
     DEF Next, Sends, Receives, KernelStep

(* Under every placement of the interrupts, a process other than the       *)
(* drivers gets exactly the messages sent to it, and only those it asked   *)
(* for; no sender is released before its message is in place.              *)
THEOREM DeliveryCorrect == Spec => Delivered
<1>1. Init => ReceiverHeld
  BY DEF Init, ReceiverHeld, SendSteps
<1>2. IpcInv /\ ReceiverHeld /\ [Next]_vars => ReceiverHeld'
  BY ReceiverHeldStep
<1>3. IpcInv /\ ReceiverHeld /\ [Next]_vars
        => [\A d \in Proc \ Drivers : DeliveredTo(d)]_vars
  BY DeliveredStep
<1>4. QED
  BY IpcInvInit, IpcInvStep, <1>1, <1>2, <1>3, PTL DEF Spec, Delivered

-----------------------------------------------------------------------------
(* Outside the windows the kernel's message passing implements Rendezvous, *)
(* for every set of processes and drivers.                                 *)

(* A receiver that found no sender still has none when it says for whom it *)
(* waits, and its buffer is as it left it.                                 *)
StillAlone ==
  pc \in RecvSteps => ~ HasSender(peer) /\ mail[p_proc_ready] = p_proc_ready

(* No other process runs in between.                                       *)
LEMMA StillAloneStep ==
  ASSUME IpcInv, Undisturbed, StillAlone, [QuietNext]_vars
  PROVE  StillAlone'
<1> USE ProcAssumption DEF IpcInv, Undisturbed, StillAlone, HasSender, TypeOK, Steps, SendSteps,
        RecvSteps, BlockSteps, StopSteps, procVars, Consistent, CallerShape, ProcShape,
        SENDING, RECEIVING
<1>1. ASSUME NEW dest \in Proc, SendPanics(dest)
      PROVE  StillAlone'
  BY <1>1 DEF SendPanics, EnterSend
<1>2. ASSUME NEW dest \in Proc, SendDirect(dest)
      PROVE  StillAlone'
  BY <1>2 DEF SendDirect, EnterSend
<1>3. ASSUME NEW dest \in Proc, SendQueued(dest)
      PROVE  StillAlone'
  BY <1>3 DEF SendQueued, EnterSend
<1>4. ASSUME NEW src \in Proc \cup {ANY, INTERRUPT}, RecvInterrupt(src)
      PROVE  StillAlone'
  BY <1>4 DEF RecvInterrupt, EnterReceive
<1>5. ASSUME NEW src \in Proc \cup {ANY, INTERRUPT}, RecvCopy(src)
      PROVE  StillAlone'
  BY <1>5 DEF RecvCopy, EnterReceive
<1>6. ASSUME NEW src \in Proc \cup {ANY, INTERRUPT}, RecvMustWait(src)
      PROVE  StillAlone'
  BY <1>6 DEF RecvMustWait, EnterReceive
<1>7. ASSUME SendAssert
      PROVE  StillAlone'
  BY <1>7 DEF SendAssert
<1>8. ASSUME SendCopy
      PROVE  StillAlone'
  BY <1>8 DEF SendCopy
<1>9. ASSUME SendClear
      PROVE  StillAlone'
  BY <1>9 DEF SendClear
<1>10. ASSUME SendWake
      PROVE  StillAlone'
  BY <1>10 DEF SendWake
<1>11. ASSUME RecvSetFlag
      PROVE  StillAlone'
  <2>1. \A p \in Proc \ {p_proc_ready} : p_flags'[p] = p_flags[p]
    BY <1>11 DEF RecvSetFlag
  <2>2. QED
    BY <1>11, <2>1 DEF RecvSetFlag
<1>12. ASSUME RecvSetFrom
      PROVE  StillAlone'
  BY <1>12 DEF RecvSetFrom
<1>13. ASSUME Block
      PROVE  StillAlone'
  BY <1>13 DEF Block
<1>14. ASSUME BlockAsserts
      PROVE  StillAlone'
  BY <1>14 DEF BlockAsserts
<1>15. ASSUME Preempt
      PROVE  StillAlone'
  BY <1>15 DEF Preempt
<1>16. ASSUME NEW t \in Drivers, ~ InWindow(t), InfoTask(t)
      PROVE  StillAlone'
  <2>1. UNCHANGED <<p_proc_ready, pc, peer, q_sending>>
    BY <1>16 DEF InfoTask
  <2>2. SUFFICES ASSUME pc \in RecvSteps
                 PROVE  ~ HasSender(peer)' /\ mail'[p_proc_ready] = p_proc_ready
    BY <2>1
  <2>3. mail'[p_proc_ready] = p_proc_ready
    <3>1. /\ p_proc_ready \in Proc /\ SENDING \notin p_flags[p_proc_ready]
          /\ p_recvfrom[p_proc_ready] = NO_TASK
      BY <2>2
    <3>2. t = p_proc_ready => ~ (p_flags[t] = {RECEIVING} /\ p_recvfrom[t] \in {INTERRUPT, ANY})
      BY <3>1
    <3>3. mail' = mail \/ \E x : mail' = [mail EXCEPT ![t] = x] /\ t # p_proc_ready
      BY <1>16, <3>2 DEF InfoTask
    <3>4. QED
      BY <2>2, <3>1, <3>3
  <2>4. peer \in Proc => p_flags'[peer] = p_flags[peer] \/ SENDING \notin p_flags'[peer]
    BY <1>16, RoleAssumption DEF InfoTask
  <2>5. peer \in Proc => p_sendto'[peer] = p_sendto[peer] \/ SENDING \notin p_flags'[peer]
    BY <1>16, RoleAssumption DEF InfoTask
  <2>6. QED
    BY <2>1, <2>2, <2>3, <2>4, <2>5
<1>17. CASE UNCHANGED vars
  BY <1>17 DEF vars, procVars
<1>18. QED
  BY <1>1, <1>2, <1>3, <1>4, <1>5, <1>6, <1>7, <1>8, <1>9, <1>10, <1>11, <1>12, <1>13, <1>14, <1>15, <1>16, <1>17
     DEF QuietNext, Sends, Receives, KernelStep

(* The message a sender hands over is its own.                             *)
SenderStamped == pc \in SendSteps => mail[p_proc_ready] = p_proc_ready

(* Nothing but a receipt overwrites it.                                    *)
LEMMA SenderStampedStep ==
  ASSUME IpcInv, Undisturbed, SenderStamped, [QuietNext]_vars
  PROVE  SenderStamped'
<1> USE ProcAssumption DEF IpcInv, Undisturbed, SenderStamped, TypeOK, Steps, SendSteps, RecvSteps, BlockSteps,
        StopSteps, procVars, Consistent, CallerShape, ProcShape, SENDING, RECEIVING
<1>1. ASSUME NEW dest \in Proc, SendPanics(dest)
      PROVE  SenderStamped'
  BY <1>1 DEF SendPanics, EnterSend
<1>2. ASSUME NEW dest \in Proc, SendDirect(dest)
      PROVE  SenderStamped'
  BY <1>2 DEF SendDirect, EnterSend
<1>3. ASSUME NEW dest \in Proc, SendQueued(dest)
      PROVE  SenderStamped'
  BY <1>3 DEF SendQueued, EnterSend
<1>4. ASSUME NEW src \in Proc \cup {ANY, INTERRUPT}, RecvInterrupt(src)
      PROVE  SenderStamped'
  BY <1>4 DEF RecvInterrupt, EnterReceive
<1>5. ASSUME NEW src \in Proc \cup {ANY, INTERRUPT}, RecvCopy(src)
      PROVE  SenderStamped'
  BY <1>5 DEF RecvCopy, EnterReceive
<1>6. ASSUME NEW src \in Proc \cup {ANY, INTERRUPT}, RecvMustWait(src)
      PROVE  SenderStamped'
  BY <1>6 DEF RecvMustWait, EnterReceive
<1>7. ASSUME SendAssert
      PROVE  SenderStamped'
  BY <1>7 DEF SendAssert
<1>8. ASSUME SendCopy
      PROVE  SenderStamped'
  BY <1>8 DEF SendCopy
<1>9. ASSUME SendClear
      PROVE  SenderStamped'
  BY <1>9 DEF SendClear
<1>10. ASSUME SendWake
      PROVE  SenderStamped'
  BY <1>10 DEF SendWake
<1>11. ASSUME RecvSetFlag
      PROVE  SenderStamped'
  BY <1>11 DEF RecvSetFlag
<1>12. ASSUME RecvSetFrom
      PROVE  SenderStamped'
  BY <1>12 DEF RecvSetFrom
<1>13. ASSUME Block
      PROVE  SenderStamped'
  BY <1>13 DEF Block
<1>14. ASSUME BlockAsserts
      PROVE  SenderStamped'
  BY <1>14 DEF BlockAsserts
<1>15. ASSUME Preempt
      PROVE  SenderStamped'
  BY <1>15 DEF Preempt
<1>16. ASSUME NEW t \in Drivers, ~ InWindow(t), InfoTask(t)
      PROVE  SenderStamped'
  <2>1. UNCHANGED <<p_proc_ready, pc, peer>>
    BY <1>16 DEF InfoTask
  <2>2. SUFFICES ASSUME pc \in SendSteps
                 PROVE  mail'[p_proc_ready] = p_proc_ready
    BY <2>1
  <2>3. p_flags[p_proc_ready] = {}
    BY <2>2
  <2>4. CASE t = p_proc_ready
    <3>1. mail' = mail
      BY <1>16, <2>3, <2>4 DEF InfoTask
    <3>2. QED
      BY <2>2, <3>1
  <2>5. CASE t # p_proc_ready
    <3>1. mail'[p_proc_ready] = mail[p_proc_ready]
      BY <1>16, <2>5 DEF InfoTask
    <3>2. QED
      BY <2>2, <3>1
  <2>6. QED
    BY <2>4, <2>5
<1>17. CASE UNCHANGED vars
  BY <1>17 DEF vars, procVars
<1>18. QED
  BY <1>1, <1>2, <1>3, <1>4, <1>5, <1>6, <1>7, <1>8, <1>9, <1>10, <1>11, <1>12, <1>13, <1>14, <1>15, <1>16, <1>17
     DEF QuietNext, Sends, Receives, KernelStep

-----------------------------------------------------------------------------
(* The mode of a process is told by its flags, except while its message is *)
(* being handed over or it has not yet said for whom it waits.             *)
LEMMA Modes ==
  ASSUME IpcInv, NEW p \in Proc
  PROVE  /\ ModeOf(p) = "sending" <=> p_flags[p] = {SENDING}
         /\ ModeOf(p) = "receiving" <=> p_flags[p] = {RECEIVING} /\ p_recvfrom[p] # NO_TASK /\ ~ Handed(p)
         /\ ModeOf(p) = "ready" <=> \/ p_flags[p] = {}
                                    \/ p_flags[p] = {RECEIVING} /\ (p_recvfrom[p] = NO_TASK \/ Handed(p))
         /\ ModeOf(p) \in {"sending", "receiving", "ready"}
BY DEF IpcInv, Consistent, ProcShape, ModeOf, SENDING, RECEIVING

(* A step that changes what the rendezvous sees of one process.            *)
LEMMA OneSeen ==
  ASSUME NEW x \in Proc,
         \A p \in Proc \ {x} : ModeOf(p)' = ModeOf(p) /\ PartnerOf(p)' = PartnerOf(p)
  PROVE  /\ [p \in Proc |-> ModeOf(p)]' = [[p \in Proc |-> ModeOf(p)] EXCEPT ![x] = ModeOf(x)']
         /\ [p \in Proc |-> PartnerOf(p)]'
              = [[p \in Proc |-> PartnerOf(p)] EXCEPT ![x] = PartnerOf(x)']
OBVIOUS

(* A step that changes nothing the rendezvous sees.                        *)
LEMMA Unseen ==
  ASSUME UNCHANGED <<q_sending, has_int_msg, mail>>,
         \A p \in Proc : ModeOf(p)' = ModeOf(p) /\ PartnerOf(p)' = PartnerOf(p)
  PROVE  UNCHANGED R!vars
BY DEF R!vars

(* Every step of the undisturbed kernel is a step of the rendezvous or     *)
(* invisible to it.                                                        *)
LEMMA RefineStep ==
  ASSUME IpcInv, Undisturbed, NoLostWakeup, StillAlone, SenderStamped, [QuietNext]_vars
  PROVE  [R!Next]_(R!vars)
<1> USE ProcAssumption DEF IpcInv, Undisturbed, TypeOK, Steps, SendSteps, RecvSteps, BlockSteps,
        StopSteps, procVars, Consistent, CallerShape, ProcShape, SENDING, RECEIVING
<1>1. ASSUME NEW dest \in Proc, SendPanics(dest)
      PROVE  [R!Next]_(R!vars)
  <2>1. \A p \in Proc : ModeOf(p)' = ModeOf(p) /\ PartnerOf(p)' = PartnerOf(p)
    BY <1>1 DEF SendPanics, EnterSend, ModeOf, PartnerOf, Handed
  <2>2. ModeOf(p_proc_ready) = "ready"
    BY <1>1 DEF SendPanics, EnterSend, ModeOf
  <2>3. R!Compose(p_proc_ready)
    BY <1>1, <2>1, <2>2 DEF SendPanics, EnterSend, R!Compose
  <2>4. QED
    BY <2>3 DEF R!Next
<1>2. ASSUME NEW dest \in Proc, SendDirect(dest)
      PROVE  [R!Next]_(R!vars)
  <2>1. \A p \in Proc : ModeOf(p)' = ModeOf(p) /\ PartnerOf(p)' = PartnerOf(p)
    BY <1>2 DEF SendDirect, EnterSend, ModeOf, PartnerOf, Handed
  <2>2. ModeOf(p_proc_ready) = "ready"
    BY <1>2 DEF SendDirect, EnterSend, ModeOf
  <2>3. R!Compose(p_proc_ready)
    BY <1>2, <2>1, <2>2 DEF SendDirect, EnterSend, R!Compose
  <2>4. QED
    BY <2>3 DEF R!Next
<1>3. ASSUME NEW dest \in Proc, SendQueued(dest)
      PROVE  [R!Next]_(R!vars)
  <2>0. PICK me \in Proc : me = p_proc_ready
    OBVIOUS
  <2>1. /\ me \in Proc /\ pc = "user" /\ p_flags[me] = {} /\ dest # me /\ ~ Accepts(dest, me)
        /\ p_flags' = [p_flags EXCEPT ![me] = @ \cup {SENDING}]
        /\ p_sendto' = [p_sendto EXCEPT ![me] = dest]
        /\ p_recvfrom' = p_recvfrom /\ pc' = "send_block"
    BY <2>0, <1>3 DEF SendQueued, EnterSend
  <2>2. ModeOf(me) = "ready" /\ ModeOf(me)' = "sending" /\ PartnerOf(me)' = dest
    <3>1. p_flags'[me] = {SENDING} /\ p_sendto'[me] = dest
      BY <2>0, <2>1
    <3>2. ModeOf(me) = "ready"
      BY <2>0, <2>1 DEF ModeOf
    <3>3. ModeOf(me)' = "sending"
      BY <2>0, <3>1 DEF ModeOf
    <3>4. PartnerOf(me)' = dest
      BY <2>0, <3>1, <3>3 DEF PartnerOf
    <3>5. QED
      BY <2>0, <3>2, <3>3, <3>4
  <2>3. \A p \in Proc \ {me} : ModeOf(p)' = ModeOf(p) /\ PartnerOf(p)' = PartnerOf(p)
    BY <2>0, <2>1 DEF ModeOf, PartnerOf, Handed
  <2>4. ~ R!Listening(dest, me)
    BY <2>0, <2>1 DEF R!Listening, ModeOf, PartnerOf, Accepts
  <2>5. R!Enqueue(me, dest)
    BY <2>0, <1>3, <2>1, <2>2, <2>3, <2>4, OneSeen DEF SendQueued, EnterSend, R!Enqueue
  <2>6. QED
    BY <2>0, <2>5 DEF R!Next
<1>4. ASSUME NEW src \in Proc \cup {ANY, INTERRUPT}, RecvInterrupt(src)
      PROVE  [R!Next]_(R!vars)
  <2>1. \A p \in Proc : ModeOf(p)' = ModeOf(p) /\ PartnerOf(p)' = PartnerOf(p)
    BY <1>4 DEF RecvInterrupt, EnterReceive, ModeOf, PartnerOf, Handed
  <2>2. ModeOf(p_proc_ready) = "ready"
    BY <1>4 DEF RecvInterrupt, EnterReceive, ModeOf
  <2>3. R!TakeNotification(p_proc_ready)
    BY <1>4, <2>1, <2>2 DEF RecvInterrupt, TakesInterrupt, R!TakeNotification
  <2>4. QED
    BY <2>3 DEF R!Next
<1>5. ASSUME NEW src \in Proc \cup {ANY, INTERRUPT}, RecvCopy(src)
      PROVE  [R!Next]_(R!vars)
  <2>0. PICK me \in Proc : me = p_proc_ready
    OBVIOUS
  <2>1. PICK i \in DOMAIN q_sending[me], from \in Proc :
          TakesFrom(i, from) /\ (IF src = ANY THEN i = 1 ELSE from = src)
    BY <2>0, <1>5, RecvCopyTakes
  <2>2. p_flags[from] = {SENDING}
    <3>1. from \in ToSet(q_sending[me])
      BY <2>0, <2>1 DEF TakesFrom, ToSet
    <3>2. SENDING \in p_flags[from]
      BY <2>0, <3>1 DEF SendQueueExact
    <3>3. p_flags[from] \in {{}, {SENDING}, {RECEIVING}}
      OBVIOUS
    <3>4. QED
      BY <2>0, <3>2, <3>3
  <2>3. /\ pc = "user" /\ p_flags[me] = {}
        /\ p_flags' = [p_flags EXCEPT ![from] = @ \ {SENDING}]
        /\ p_sendto' = [p_sendto EXCEPT ![from] = NO_TASK]
        /\ p_recvfrom' = p_recvfrom /\ pc' = pc
    BY <2>0, <1>5, <2>1 DEF RecvCopy, EnterReceive, TakesFrom
  <2>4. ModeOf(me) = "ready"
    BY <2>0, <2>3 DEF ModeOf
  <2>5. ModeOf(from)' = "ready" /\ PartnerOf(from)' = NO_TASK
    BY <2>0, <2>2, <2>3 DEF ModeOf, PartnerOf
  <2>6. \A p \in Proc \ {from} : ModeOf(p)' = ModeOf(p) /\ PartnerOf(p)' = PartnerOf(p)
    BY <2>0, <2>3 DEF ModeOf, PartnerOf, Handed
  <2>7. src = ANY => ~ has_int_msg[me]
    BY <2>0, <1>5 DEF RecvCopy, TakesInterrupt
  <2>8. R!TakeMessage(me, src)
    <3>1. /\ from = q_sending[me][i] /\ UNCHANGED has_int_msg
          /\ q_sending' = [q_sending EXCEPT ![me] = RemoveAt(@, i)]
          /\ mail' = [mail EXCEPT ![me] = from]
      BY <2>0, <1>5, <2>1 DEF RecvCopy, TakesFrom
    <3> HIDE DEF IpcInv, Undisturbed, TypeOK, Consistent, CallerShape, ProcShape
    <3>2. /\ [p \in Proc |-> ModeOf(p)]' = [[p \in Proc |-> ModeOf(p)] EXCEPT ![from] = "ready"]
          /\ [p \in Proc |-> PartnerOf(p)]' = [[p \in Proc |-> PartnerOf(p)] EXCEPT ![from] = NO_TASK]
      BY <2>0, <2>5, <2>6, OneSeen
    <3>3. me \in Proc
      BY <2>0 DEF IpcInv, TypeOK
    <3>4. [p \in Proc |-> ModeOf(p)][me] = "ready"
      BY <2>0, <2>4, <3>3
    <3>5. IF src = ANY THEN i = 1 /\ ~ has_int_msg[me] ELSE from = src
      BY <2>1, <2>7
    <3>6. i \in DOMAIN q_sending[me] /\ from = q_sending[me][i]
      BY <2>0, <3>1
    <3>7. QED
      BY <3>1, <3>2, <3>4, <3>5, <3>6, <2>0 DEF R!TakeMessage, R!RemoveAt, RemoveAt
  <2>9. QED
    BY <2>0, <2>8 DEF R!Next
<1>6. ASSUME NEW src \in Proc \cup {ANY, INTERRUPT}, RecvMustWait(src)
      PROVE  [R!Next]_(R!vars)
  <2>1. \A p \in Proc : ModeOf(p)' = ModeOf(p) /\ PartnerOf(p)' = PartnerOf(p)
    BY <1>6 DEF RecvMustWait, EnterReceive, ModeOf, PartnerOf, Handed
  <2>2. ModeOf(p_proc_ready) = "ready"
    BY <1>6 DEF RecvMustWait, EnterReceive, ModeOf
  <2>3. R!Compose(p_proc_ready)
    BY <1>6, <2>1, <2>2 DEF RecvMustWait, EnterReceive, R!Compose
  <2>4. QED
    BY <2>3 DEF R!Next
<1>7. ASSUME SendAssert
      PROVE  [R!Next]_(R!vars)
  <2>1. \A p \in Proc : ModeOf(p)' = ModeOf(p) /\ PartnerOf(p)' = PartnerOf(p)
    BY <1>7 DEF SendAssert, ModeOf, PartnerOf, Handed
  <2>2. QED
    BY <1>7, <2>1, Unseen DEF SendAssert
<1>8. ASSUME SendCopy
      PROVE  [R!Next]_(R!vars)
  <2>0. PICK me \in Proc : me = p_proc_ready
    OBVIOUS
  <2>00. PICK r \in Proc : r = peer
    BY <1>8 DEF SendCopy
  <2>1. /\ me \in Proc /\ r \in Proc /\ r # me
        /\ p_flags[me] = {} /\ p_flags[r] = {RECEIVING} /\ p_msg[r]
        /\ p_recvfrom[r] \in {me, ANY} /\ mail' = [mail EXCEPT ![r] = me]
    BY <2>0, <2>00, <1>8 DEF SendCopy
  <2>2. /\ ModeOf(me) = "ready" /\ ModeOf(r) = "receiving"
        /\ PartnerOf(r) \in {me, ANY}
    BY <2>0, <2>00, <1>8, <2>1 DEF SendCopy, ModeOf, PartnerOf, Handed
  <2>3. ModeOf(r)' = "ready" /\ PartnerOf(r)' = NO_TASK
    BY <2>0, <2>00, <1>8, <2>1 DEF SendCopy, ModeOf, PartnerOf, Handed
  <2>4. \A p \in Proc \ {r} : ModeOf(p)' = ModeOf(p) /\ PartnerOf(p)' = PartnerOf(p)
    BY <2>0, <2>00, <1>8 DEF SendCopy, ModeOf, PartnerOf, Handed
  <2>5. mail[me] = me
    BY <2>0, <2>00, <1>8 DEF SenderStamped, SendCopy
  <2>6. R!Deliver(me, r)
    <3> HIDE DEF IpcInv, Undisturbed, TypeOK, Consistent, CallerShape, ProcShape
    <3>1. /\ [p \in Proc |-> ModeOf(p)]' = [[p \in Proc |-> ModeOf(p)] EXCEPT ![r] = "ready"]
          /\ [p \in Proc |-> PartnerOf(p)]' = [[p \in Proc |-> PartnerOf(p)] EXCEPT ![r] = NO_TASK]
      BY <2>0, <2>00, <2>1, <2>3, <2>4, OneSeen
    <3>2. mail' = [mail EXCEPT ![me] = me, ![r] = me]
      BY <2>0, <2>00, <2>1, <2>5
    <3>3. UNCHANGED <<q_sending, has_int_msg>>
      BY <2>0, <2>00, <1>8 DEF SendCopy
    <3>4. QED
      BY <2>0, <2>00, <2>1, <2>2, <3>1, <3>2, <3>3 DEF R!Deliver, R!Listening
  <2>7. QED
    BY <2>0, <2>00, <2>1, <2>6 DEF R!Next
<1>9. ASSUME SendClear
      PROVE  [R!Next]_(R!vars)
  <2>1. \A p \in Proc : ModeOf(p)' = ModeOf(p) /\ PartnerOf(p)' = PartnerOf(p)
    BY <1>9 DEF SendClear, ModeOf, PartnerOf, Handed
  <2>2. QED
    BY <1>9, <2>1, Unseen DEF SendClear
<1>10. ASSUME SendWake
      PROVE  [R!Next]_(R!vars)
  <2>1. \A p \in Proc : ModeOf(p)' = ModeOf(p) /\ PartnerOf(p)' = PartnerOf(p)
    BY <1>10 DEF SendWake, ModeOf, PartnerOf, Handed
  <2>2. QED
    BY <1>10, <2>1, Unseen DEF SendWake
<1>11. ASSUME RecvSetFlag
      PROVE  [R!Next]_(R!vars)
  <2>1. \A p \in Proc : ModeOf(p)' = ModeOf(p) /\ PartnerOf(p)' = PartnerOf(p)
    BY <1>11 DEF RecvSetFlag, ModeOf, PartnerOf, Handed
  <2>2. QED
    BY <1>11, <2>1, Unseen DEF RecvSetFlag
<1>12. ASSUME RecvSetFrom
      PROVE  [R!Next]_(R!vars)
  <2>0. PICK me \in Proc : me = p_proc_ready
    OBVIOUS
  <2>1. /\ me \in Proc /\ p_flags[me] = {RECEIVING} /\ p_recvfrom[me] = NO_TASK
        /\ peer \in (Proc \cup {ANY, INTERRUPT}) \ {me}
        /\ p_recvfrom' = [p_recvfrom EXCEPT ![me] = peer]
        /\ pc = "recv_setfrom" /\ pc' = "recv_block" /\ UNCHANGED <<p_flags, p_sendto, peer>>
    BY <2>0, <1>12 DEF RecvSetFrom
  <2>2. ModeOf(me) = "ready"
    BY <2>0, <2>1 DEF ModeOf
  <2>3. ModeOf(me)' = "receiving" /\ PartnerOf(me)' = peer
    <3>1. /\ p_flags'[me] = {RECEIVING} /\ p_recvfrom'[me] = peer
          /\ peer # NO_TASK /\ ~ Handed(me)'
      BY <2>0, <2>1 DEF Handed
    <3>2. ModeOf(me)' = "receiving"
      BY <2>0, <3>1 DEF ModeOf
    <3>3. QED
      BY <2>0, <3>1, <3>2 DEF PartnerOf
  <2>4. \A p \in Proc \ {me} : ModeOf(p)' = ModeOf(p) /\ PartnerOf(p)' = PartnerOf(p)
    BY <2>0, <2>1 DEF ModeOf, PartnerOf, Handed
  <2>5. ~ HasSender(peer) /\ mail[me] = me
    BY <2>0, <2>1 DEF StillAlone
  <2>6. IF peer = ANY THEN q_sending[me] = <<>> ELSE peer \notin ToSet(q_sending[me])
    <3>1. CASE peer = ANY
      BY <2>0, <2>5, <3>1 DEF HasSender
    <3>2. CASE peer = INTERRUPT
      BY <2>0, <3>2 DEF ToSet
    <3>3. CASE peer \in Proc
      BY <2>0, <2>1, <2>5, <3>3 DEF HasSender, SendQueueExact
    <3>4. QED
      BY <2>0, <2>1, <3>1, <3>2, <3>3
  <2>7. peer \in {ANY, INTERRUPT} => ~ has_int_msg[me]
    BY <2>0, <2>1
  <2>8. R!Await(me, peer)
    <3> HIDE DEF IpcInv, Undisturbed, TypeOK, Consistent, CallerShape, ProcShape
    <3>1. /\ [p \in Proc |-> ModeOf(p)]' = [[p \in Proc |-> ModeOf(p)] EXCEPT ![me] = "receiving"]
          /\ [p \in Proc |-> PartnerOf(p)]' = [[p \in Proc |-> PartnerOf(p)] EXCEPT ![me] = peer]
      BY <2>0, <2>1, <2>3, <2>4, OneSeen
    <3>2. UNCHANGED <<q_sending, has_int_msg>> /\ mail' = [mail EXCEPT ![me] = me]
      <4>1. mail = [mail EXCEPT ![me] = me]
        BY <2>0, <2>5 DEF IpcInv, TypeOK
      <4>2. QED
        BY <2>0, <1>12, <4>1 DEF RecvSetFrom
    <3>3. [p \in Proc |-> ModeOf(p)][me] = "ready" /\ peer # me
      BY <2>0, <2>1, <2>2
    <3>4. QED
      BY <2>0, <2>6, <2>7, <3>1, <3>2, <3>3 DEF R!Await, R!ToSet, ToSet
  <2>9. QED
    BY <2>0, <2>1, <2>8 DEF R!Next
<1>13. ASSUME Block
      PROVE  [R!Next]_(R!vars)
  <2>1. \A p \in Proc : ModeOf(p)' = ModeOf(p) /\ PartnerOf(p)' = PartnerOf(p)
    BY <1>13 DEF Block, ModeOf, PartnerOf, Handed
  <2>2. QED
    BY <1>13, <2>1, Unseen DEF Block
<1>14. ASSUME BlockAsserts
      PROVE  [R!Next]_(R!vars)
  <2>1. \A p \in Proc : ModeOf(p)' = ModeOf(p) /\ PartnerOf(p)' = PartnerOf(p)
    BY <1>14 DEF BlockAsserts, ModeOf, PartnerOf, Handed
  <2>2. QED
    BY <1>14, <2>1, Unseen DEF BlockAsserts
<1>15. ASSUME Preempt
      PROVE  [R!Next]_(R!vars)
  <2>1. \A p \in Proc : ModeOf(p)' = ModeOf(p) /\ PartnerOf(p)' = PartnerOf(p)
    BY <1>15 DEF Preempt, ModeOf, PartnerOf, Handed
  <2>2. QED
    BY <1>15, <2>1, Unseen DEF Preempt
<1>16. ASSUME NEW t \in Drivers, ~ InWindow(t), InfoTask(t)
      PROVE  [R!Next]_(R!vars)
  <2>1. t \in Proc /\ UNCHANGED <<q_sending, p_proc_ready, pc, peer>> /\ ~ Handed(t)
    BY <1>16, RoleAssumption DEF InfoTask, InWindow, Handed
  <2>2. ModeOf(t) = "receiving" /\ PartnerOf(t) \in {ANY, INTERRUPT}
          <=> p_flags[t] = {RECEIVING} /\ p_recvfrom[t] \in {INTERRUPT, ANY}
    BY <2>1 DEF ModeOf, PartnerOf
  <2>3. CASE p_flags[t] = {RECEIVING} /\ p_recvfrom[t] \in {INTERRUPT, ANY}
    <3>1. /\ p_flags' = [p_flags EXCEPT ![t] = {}]
          /\ p_recvfrom' = [p_recvfrom EXCEPT ![t] = NO_TASK]
          /\ p_sendto' = [p_sendto EXCEPT ![t] = NO_TASK]
          /\ has_int_msg' = [has_int_msg EXCEPT ![t] = FALSE]
      BY <1>16, <2>3 DEF InfoTask
    <3>2. p_msg[t] /\ mail' = [mail EXCEPT ![t] = INTERRUPT]
      BY <1>16, <2>1, <2>3 DEF InfoTask, InWindow
    <3>3. ModeOf(t)' = "ready" /\ PartnerOf(t)' = NO_TASK
      BY <2>1, <3>1 DEF ModeOf, PartnerOf
    <3>4. \A p \in Proc \ {t} : ModeOf(p)' = ModeOf(p) /\ PartnerOf(p)' = PartnerOf(p)
      BY <2>1, <3>1 DEF ModeOf, PartnerOf, Handed
    <3>5. has_int_msg' = has_int_msg
      <4>1. pc \notin SendSteps \/ t # peer
        BY <1>16 DEF InWindow
      <4>2. ~ has_int_msg[t]
        BY <1>16, <2>3, <4>1 DEF NoLostWakeup
      <4>3. QED
        BY <3>1, <4>2
    <3>6. R!Notify(t)
      <4>1. /\ [p \in Proc |-> ModeOf(p)]' = [[p \in Proc |-> ModeOf(p)] EXCEPT ![t] = "ready"]
            /\ [p \in Proc |-> PartnerOf(p)]' = [[p \in Proc |-> PartnerOf(p)] EXCEPT ![t] = NO_TASK]
        BY <2>1, <3>3, <3>4, OneSeen
      <4>2. /\ [p \in Proc |-> ModeOf(p)][t] = "receiving"
            /\ [p \in Proc |-> PartnerOf(p)][t] \in {ANY, INTERRUPT}
        BY <2>1, <2>2, <2>3
      <4>3. QED
        BY <2>1, <3>2, <3>5, <4>1, <4>2 DEF R!Notify
    <3>7. QED
      BY <3>6 DEF R!Next
  <2>4. CASE ~ (p_flags[t] = {RECEIVING} /\ p_recvfrom[t] \in {INTERRUPT, ANY})
    <3>1. /\ has_int_msg' = [has_int_msg EXCEPT ![t] = TRUE]
          /\ UNCHANGED <<p_flags, mail, p_msg, p_recvfrom, p_sendto>>
      BY <1>16, <2>4 DEF InfoTask
    <3>2. \A p \in Proc : ModeOf(p)' = ModeOf(p) /\ PartnerOf(p)' = PartnerOf(p)
      BY <2>1, <3>1 DEF ModeOf, PartnerOf, Handed
    <3>3. R!Notify(t)
      BY <2>1, <2>2, <2>4, <3>1, <3>2 DEF R!Notify
    <3>4. QED
      BY <3>3 DEF R!Next
  <2>5. QED
    BY <2>3, <2>4
<1>17. CASE UNCHANGED vars
  <2>1. \A p \in Proc : ModeOf(p)' = ModeOf(p) /\ PartnerOf(p)' = PartnerOf(p)
    BY <1>17 DEF vars, ModeOf, PartnerOf, Handed
  <2>2. QED
    BY <1>17, <2>1, Unseen DEF vars
<1>18. QED
  BY <1>1, <1>2, <1>3, <1>4, <1>5, <1>6, <1>7, <1>8, <1>9, <1>10, <1>11, <1>12, <1>13, <1>14, <1>15, <1>16, <1>17
     DEF QuietNext, Sends, Receives, KernelStep

LEMMA RefineInit == Init => R!Init
<1> SUFFICES ASSUME Init PROVE R!Init
  OBVIOUS
<1>1. \A p \in Proc : ModeOf(p) = "ready" /\ PartnerOf(p) = NO_TASK
  BY DEF Init, ModeOf, PartnerOf
<1>2. QED
  BY <1>1 DEF Init, R!Init

(* Outside the windows, message passing as the kernel does it is the       *)
(* atomic rendezvous the tasks are written for.                            *)
THEOREM Refinement == QuietSpec => ImplementsRendezvous
<1>1. Init => StillAlone /\ SenderStamped
  BY DEF Init, StillAlone, SenderStamped, SendSteps, RecvSteps
<1> DEFINE Inv == IpcInv /\ Undisturbed /\ NoLostWakeup
           More == StillAlone /\ SenderStamped
<1>2. Inv /\ More /\ [QuietNext]_vars => More'
  BY StillAloneStep, SenderStampedStep
<1>3. Inv /\ More /\ [QuietNext]_vars => [R!Next]_(R!vars)
  BY RefineStep
<1>4. QED
  BY RefineInit, QuietInvariant, <1>1, <1>2, <1>3, PTL
     DEF QuietSpec, ImplementsRendezvous, R!Spec
=============================================================================
