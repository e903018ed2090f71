----------------------------- MODULE TtyProofs -----------------------------
(***************************************************************************)
(* Proofs about Tty, for any processes and any sizes of the ring and of a  *)
(* line.  The ring's part holds however many processes use the terminal;   *)
(* that nobody is answered twice, and that the machine goes on, needs that *)
(* they take turns.                                                        *)
(***************************************************************************)
EXTENDS Tty, SequenceTheorems, TLAPS

(* FS's queue holds processes and the terminal task.                       *)
TtyTyped == TypeOK /\ q_sending \in Seq(Proc \cup {TASK_TTY})

(* The terminal task owes its reader bytes or the message that the line is *)
(* complete.                                                               *)
Owing == tty_pc \in {"resume", "sending"} \/ (tty_left_cnt > 0 /\ tty_pc # "resumed")

(* With one user at a time: nobody waits, or one process does, and then it *)
(* is queued at FS, or FS is at its call, or it is suspended and the       *)
(* terminal task knows of it.                                              *)
Nobody ==
  /\ \A p \in Proc : at[p] = "user"
  /\ q_sending = <<>> /\ fs_pc \in {"loop", "receiving"} /\ ~ Owing
Queued(p) == q_sending = <<p>> /\ fs_pc = "loop" /\ ~ Owing
Served(p) ==
  /\ q_sending = <<>> /\ fs_src = p /\ ~ Owing
  /\ fs_pc \in {"forward", "sending", "wait", "answer"}
Suspended(p) ==
  /\ at[p] = "read" /\ tty_procnr = p /\ Owing
  /\ IF tty_pc = "sending" THEN fs_pc = "loop" /\ q_sending = <<TASK_TTY>>
     ELSE fs_pc \in {"loop", "receiving"} /\ q_sending = <<>>
Alone(p) == \A q \in Proc : at[q] # "user" <=> q = p
InOnePlace(p) == Alone(p) /\ (Queued(p) \/ Served(p) \/ Suspended(p))

OneUserInv ==
  /\ TtyTyped
  /\ Nobody \/ \E p \in Proc : InOnePlace(p)
  /\ tty_pc = "request" <=> fs_pc = "wait"
  /\ ~ halted

-----------------------------------------------------------------------------
(* Types.                                                                  *)

LEMMA TypedInit ==
  ASSUME Init
  PROVE  TtyTyped
<1>1. Somebody \in Proc
  BY TtyAssumption DEF Somebody
<1>2. QED
  <2> USE TtyAssumption DEF Init
  <2>1. /\ kb_buf \in [0..(KB_SIZE - 1) -> Codes]
        /\ p_tail \in 0..(KB_SIZE - 1) /\ kb_count \in 0..(KB_SIZE + 1)
    BY DEF Codes
  <2>2. at \in [Proc -> Ops \cup {"user"}] /\ q_sending \in Seq(Proc \cup {TASK_TTY})
    OBVIOUS
  <2>3. tty_left_cnt \in 0..LINE /\ tty_trans_cnt \in 0..LINE
    OBVIOUS
  <2>4. tty_pc = "scan" /\ fs_pc = "loop" /\ tty_procnr \in Proc /\ fs_src \in Proc
    BY <1>1
  <2>5. keyboard_pressed = FALSE /\ has_int_msg = FALSE /\ halted = FALSE /\ tty_left_cnt = 0
    OBVIOUS
  <2> HIDE DEF Init
  <2>6. keyboard_pressed \in BOOLEAN /\ has_int_msg \in BOOLEAN /\ halted \in BOOLEAN
    BY <2>5, Zenon
  <2>7. tty_left_cnt > 0 => tty_left_cnt + tty_trans_cnt = LINE
    BY <2>5
  <2>8. tty_pc \in {"scan", "codes", "resume", "sending", "resumed", "loop", "receiving",
                    "interrupted", "request"}
    BY <2>4
  <2>9. fs_pc \in {"loop", "receiving", "forward", "sending", "wait", "answer", "stuck"}
    BY <2>4
  <2>10. QED
    BY <2>1, <2>2, <2>3, <2>4, <2>6, <2>7, <2>8, <2>9, Zenon DEF TtyTyped, TypeOK

LEMMA FirstAndRest ==
  ASSUME NEW S, NEW q \in Seq(S), q # <<>>
  PROVE  Head(q) \in S /\ Tail(q) \in Seq(S)
OBVIOUS

LEMMA Appended ==
  ASSUME NEW S, NEW q \in Seq(S), NEW x \in S
  PROVE  Append(q, x) \in Seq(S)
OBVIOUS

LEMMA DivMod ==
  ASSUME NEW a \in Nat, NEW b \in Nat \ {0}
  PROVE  /\ a \div b \in Nat /\ a % b \in 0..(b - 1)
         /\ a = b * (a \div b) + (a % b)
OBVIOUS

(* A key taken for the reader.                                             *)
LEMMA Taken ==
  ASSUME TtyTyped, NEW x, tty_left_cnt > 0, Typed(x)
  PROVE  /\ tty_left_cnt' \in 0..LINE /\ tty_trans_cnt' \in 0..LINE
         /\ tty_left_cnt' + tty_trans_cnt' = LINE
         /\ tty_pc' \in {"resume", "loop"}
         /\ tty_pc' = "loop" => tty_left_cnt' > 0
<1>1. /\ tty_left_cnt \in 1..LINE /\ tty_trans_cnt \in 0..LINE
      /\ tty_left_cnt + tty_trans_cnt = LINE /\ LINE \in Nat
  BY TtyAssumption DEF TtyTyped, TypeOK
<1>2. \/ x = "char" /\ tty_trans_cnt' = tty_trans_cnt + 1
      \/ tty_trans_cnt > 0 /\ tty_trans_cnt' = tty_trans_cnt - 1
      \/ tty_trans_cnt' = tty_trans_cnt
  BY DEF Typed
<1>3. /\ tty_left_cnt' = tty_left_cnt + tty_trans_cnt - tty_trans_cnt'
      /\ tty_pc' = IF x = "enter" \/ tty_left_cnt' = 0 THEN "resume" ELSE "loop"
  BY DEF Typed
<1>4. QED
  BY <1>1, <1>2, <1>3

LEMMA GivenOn ==
  ASSUME TtyTyped, NEW x, Given(x)
  PROVE  /\ tty_left_cnt' \in 0..LINE /\ tty_trans_cnt' \in 0..LINE
         /\ tty_left_cnt' > 0 => tty_left_cnt' + tty_trans_cnt' = LINE
         /\ IF tty_left_cnt > 0
            THEN tty_pc' \in {"resume", "loop"} /\ (tty_pc' = "loop" => tty_left_cnt' > 0)
            ELSE tty_pc' = "loop" /\ tty_left_cnt' = 0
<1>1. CASE tty_left_cnt > 0 /\ Typed(x)
  BY <1>1, Taken
<1>2. CASE tty_left_cnt = 0 /\ tty_pc' = "loop" /\ UNCHANGED <<tty_left_cnt, tty_trans_cnt>>
  BY <1>2, TtyAssumption DEF TtyTyped, TypeOK
<1>3. QED
  BY <1>1, <1>2 DEF Given

(* A pass over the ring, and the codes that go on after a prefix.          *)
LEMMA Passed ==
  ASSUME TtyTyped, TtyScan \/ TtyCodes
  PROVE  /\ tty_pc \in {"scan", "codes"}
         /\ TakeCode \/ UNCHANGED kb
         /\ tty_left_cnt' \in 0..LINE /\ tty_trans_cnt' \in 0..LINE
         /\ tty_left_cnt' > 0 => tty_left_cnt' + tty_trans_cnt' = LINE
         /\ IF tty_left_cnt > 0
            THEN /\ tty_pc' \in {"resume", "loop", "codes"}
                 /\ tty_pc' # "resume" => tty_left_cnt' > 0
            ELSE tty_pc' \in {"loop", "codes"} /\ tty_left_cnt' = 0
         /\ UNCHANGED <<keyboard_pressed, has_int_msg, tty_procnr, fs, at, halted>>
<1> DEFINE Kept == UNCHANGED <<tty_left_cnt, tty_trans_cnt>> /\ tty_pc' \in {"loop", "codes"}
<1>1. /\ tty_pc \in {"scan", "codes"}
      /\ TakeCode \/ UNCHANGED kb
      /\ Kept \/ \E x : Given(x)
      /\ UNCHANGED <<keyboard_pressed, has_int_msg, tty_procnr, fs, at, halted>>
  BY DEF TtyScan, TtyCodes
<1>2. /\ tty_left_cnt \in 0..LINE /\ tty_trans_cnt \in 0..LINE
      /\ tty_left_cnt > 0 => tty_left_cnt + tty_trans_cnt = LINE
  BY DEF TtyTyped, TypeOK
<1>3. CASE Kept
  BY <1>1, <1>2, <1>3, TtyAssumption
<1>4. CASE \E x : Given(x)
  BY <1>1, <1>4, GivenOn
<1>5. QED
  BY <1>1, <1>3, <1>4

LEMMA TypedStep ==
  ASSUME TtyTyped, [Next]_vars
  PROVE  TtyTyped'
<1> USE TtyAssumption DEF TtyTyped, TypeOK, vars, kb, reader, tty, fs
<1>1. ASSUME NEW x \in Codes, Press(x) PROVE TtyTyped'
  BY <1>1 DEF Press
<1>2. CASE Tick
  BY <1>2 DEF Tick
<1>3. CASE FsReceive
  <2>1. CASE q_sending = <<>>
    BY <1>3, <2>1 DEF FsReceive
  <2>2. CASE q_sending # <<>>
    <3>1. Head(q_sending) \in Proc \cup {TASK_TTY} /\ Tail(q_sending) \in Seq(Proc \cup {TASK_TTY})
      BY <2>2, FirstAndRest
    <3>2. q_sending' = Tail(q_sending) /\ fs_src' \in Proc
      BY <1>3, <2>2, <3>1 DEF FsReceive
    <3>3. tty_pc' \in {tty_pc, "resumed"} /\ fs_pc' \in {"answer", "forward"}
      BY <1>3, <2>2 DEF FsReceive
    <3>4. QED
      BY <1>3, <3>1, <3>2, <3>3 DEF FsReceive
  <2>3. QED
    BY <2>1, <2>2
<1>4. CASE FsForward
  BY <1>4 DEF FsForward
<1>5. CASE FsAnswer
  BY <1>5 DEF FsAnswer, Ops
<1>6. CASE TtyScan \/ TtyCodes
  <2>1. p_tail' \in 0..(KB_SIZE - 1) /\ kb_count' \in 0..(KB_SIZE + 1) /\ UNCHANGED kb_buf
    <3>1. CASE TakeCode
      <4>1. p_tail + 1 \in Nat /\ KB_SIZE \in Nat \ {0}
        OBVIOUS
      <4>2. (p_tail + 1) % KB_SIZE \in 0..(KB_SIZE - 1)
        BY <4>1, DivMod
      <4>3. QED
        BY <3>1, <4>2 DEF TakeCode
    <3>2. CASE UNCHANGED kb
      BY <3>2
    <3>3. QED
      BY <1>6, <3>1, <3>2, Passed
  <2>2. /\ tty_left_cnt' \in 0..LINE /\ tty_trans_cnt' \in 0..LINE
        /\ tty_left_cnt' > 0 => tty_left_cnt' + tty_trans_cnt' = LINE
        /\ tty_pc' \in {"resume", "loop", "codes"}
        /\ UNCHANGED <<keyboard_pressed, has_int_msg, tty_procnr, fs, at, halted>>
    <3> HIDE DEF TtyTyped
    <3>1. QED
      BY <1>6, Passed
  <2>3. QED
    BY <2>1, <2>2
<1>7. CASE TtyResume
  <2>1. q_sending' \in Seq(Proc \cup {TASK_TTY})
    <3>1. q_sending' \in {q_sending, Append(q_sending, TASK_TTY)}
      BY <1>7 DEF TtyResume
    <3>2. Append(q_sending, TASK_TTY) \in Seq(Proc \cup {TASK_TTY})
      BY Appended
    <3>3. QED
      BY <3>1, <3>2
  <2>2. /\ halted' \in BOOLEAN /\ tty_pc' \in {tty_pc, "resumed", "sending"}
        /\ fs_pc' \in {fs_pc, "answer"} /\ fs_src' \in {fs_src, tty_procnr}
    BY <1>7 DEF TtyResume
  <2>3. UNCHANGED <<kb, keyboard_pressed, has_int_msg, reader, at>>
    BY <1>7 DEF TtyResume
  <2>4. QED
    BY <2>1, <2>2, <2>3
<1>8. CASE TtyResumed
  BY <1>8 DEF TtyResumed
<1>9. CASE TtyReceive
  BY <1>9 DEF TtyReceive
<1>10. CASE TtyInterrupted
  BY <1>10 DEF TtyInterrupted
<1>11. CASE TtyRequest
  BY <1>11 DEF TtyRequest
<1>12. ASSUME NEW p \in Proc, NEW op \in Ops, Call(p, op) PROVE TtyTyped'
  <2>1. at' \in [Proc -> Ops \cup {"user"}]
    BY <1>12 DEF Call
  <2>2. q_sending' \in Seq(Proc \cup {TASK_TTY})
    <3>1. q_sending' \in {q_sending, Append(q_sending, p)}
      BY <1>12 DEF Call
    <3>2. Append(q_sending, p) \in Seq(Proc \cup {TASK_TTY})
      BY Appended
    <3>3. QED
      BY <3>1, <3>2
  <2>3. halted' \in BOOLEAN /\ fs_pc' \in {fs_pc, "forward"} /\ fs_src' \in {fs_src, p}
    BY <1>12 DEF Call
  <2>4. QED
    BY <1>12, <2>1, <2>2, <2>3 DEF Call
<1>13. CASE UNCHANGED vars
  BY <1>13
<1>14. QED
  BY <1>1, <1>2, <1>3, <1>4, <1>5, <1>6, <1>7, <1>8, <1>9, <1>10, <1>11, <1>12, <1>13 DEF Next, TtyStep, FsStep

LEMMA TypedInvariant == Spec => []TtyTyped
<1>1. TtyTyped /\ [Next]_vars => TtyTyped'
  BY TypedStep
<1>2. QED
  BY <1>1, TypedInit, PTL DEF Spec

(* The tables of the terminal task, the ring and FS stay well typed, with  *)
(* any number of users at once: what a reader was given and what he still  *)
(* wants add up to what he asked for.                                      *)
THEOREM TypeCorrect == Spec => []TypeOK
<1>1. TtyTyped => TypeOK
  BY DEF TtyTyped
<1>2. QED
  BY <1>1, TypedInvariant, PTL

-----------------------------------------------------------------------------
(* The ring.                                                               *)

(* Cells less than a turn apart are different.                             *)
LEMMA CellsApart ==
  ASSUME NEW n \in Nat \ {0}, NEW a \in Nat, NEW b \in Nat, a < b, b < a + n
  PROVE  a % n # b % n
<1> DEFINE q == a \div n
           r == b \div n
<1>1. q \in Nat /\ a = n * q + (a % n) /\ a % n \in Nat
  BY DivMod
<1>2. r \in Nat /\ b = n * r + (b % n) /\ b % n \in Nat
  BY DivMod
<1> HIDE DEF q, r
<1>3. SUFFICES ASSUME a % n = b % n PROVE FALSE
  OBVIOUS
<1>4. b - a = n * (r - q)
  BY <1>1, <1>2, <1>3
<1>5. CASE r - q <= 0
  <2>1. n * (r - q) <= 0
    BY <1>1, <1>2, <1>5
  <2>2. QED
    BY <1>4, <2>1
<1>6. CASE r - q >= 1
  <2>1. n * (r - q) >= n
    BY <1>1, <1>2, <1>6
  <2>2. QED
    BY <1>4, <2>1
<1>7. QED
  BY <1>1, <1>2, <1>5, <1>6

(* A turn further is the same cell.                                        *)
LEMMA SameCell ==
  ASSUME NEW n \in Nat \ {0}, NEW b \in Nat
  PROVE  (n + b) % n = b % n
<1> DEFINE r == b % n
           t == (n + b) % n
<1>1. b \div n \in Nat /\ b = n * (b \div n) + r /\ r \in 0..(n - 1)
  BY DivMod
<1>2. (n + b) \div n \in Nat /\ n + b = n * ((n + b) \div n) + t /\ t \in 0..(n - 1)
  <2>1. n + b \in Nat
    OBVIOUS
  <2>2. QED
    BY <2>1, DivMod
<1>3. PICK p \in Nat, q \in Nat : b = n * p + r /\ n + b = n * q + t
  BY <1>1, <1>2
<1> HIDE DEF r, t
<1>4. r - t = n * (q - p - 1)
  BY <1>1, <1>2, <1>3
<1>5. CASE q - p - 1 >= 1
  <2>1. n * (q - p - 1) >= n
    BY <1>5
  <2>2. QED
    BY <1>1, <1>2, <1>4, <2>1
<1>6. CASE q - p - 1 <= -1
  <2>1. n * (q - p - 1) <= -n
    BY <1>6
  <2>2. QED
    BY <1>1, <1>2, <1>4, <2>1
<1>7. CASE q - p - 1 = 0
  <2>1. n * (q - p - 1) = 0
    BY <1>7
  <2>2. r = t
    BY <1>1, <1>2, <1>4, <2>1
  <2>3. QED
    BY <2>2 DEF r, t
<1>8. QED
  BY <1>5, <1>6, <1>7

(* Going on from the next cell.                                            *)
LEMMA NextCell ==
  ASSUME NEW n \in Nat \ {0}, NEW a \in 0..(n - 1), NEW b \in Nat
  PROVE  (((a + 1) % n) + b) % n = (a + 1 + b) % n
<1>1. CASE a + 1 < n
  <2>1. (a + 1) % n = a + 1
    BY <1>1
  <2>2. QED
    BY <2>1
<1>2. CASE a + 1 = n
  <2>1. (a + 1) % n = 0
    BY <1>2
  <2>2. (n + b) % n = b % n
    BY SameCell
  <2>3. QED
    BY <1>2, <2>1, <2>2
<1>3. QED
  BY <1>1, <1>2

LEMMA FunctionIsSeq ==
  ASSUME NEW S, NEW n \in Nat, NEW f \in [1..n -> S]
  PROVE  f \in Seq(S) /\ Len(f) = n
OBVIOUS

LEMMA AppendIs ==
  ASSUME NEW S, NEW q \in Seq(S), NEW x \in S
  PROVE  Append(q, x) = [i \in 1..(Len(q) + 1) |-> IF i = Len(q) + 1 THEN x ELSE q[i]]
<1> DEFINE n == Len(q) + 1
           f == [i \in 1..n |-> IF i = n THEN x ELSE q[i]]
<1>1. n \in Nat /\ n = Len(q) + 1 /\ \A i \in 1..Len(q) : q[i] \in S
  OBVIOUS
<1>2. f \in [1..n -> S]
  BY <1>1
<1>3. f \in Seq(S) /\ Len(f) = n
  BY <1>1, <1>2, FunctionIsSeq
<1>4. /\ Append(q, x) \in Seq(S) /\ Len(Append(q, x)) = n
      /\ \A i \in 1..Len(q) : Append(q, x)[i] = q[i]
      /\ Append(q, x)[n] = x
  BY <1>1, AppendProperties
<1>5. \A i \in 1..Len(Append(q, x)) : Append(q, x)[i] = f[i]
  BY <1>1, <1>4
<1> HIDE DEF n, f
<1>6. Append(q, x) = f
  BY <1>3, <1>4, <1>5, SeqEqual
<1>7. QED
  BY <1>6 DEF f, n

LEMMA TailIs ==
  ASSUME NEW S, NEW q \in Seq(S), q # <<>>
  PROVE  Tail(q) = [i \in 1..(Len(q) - 1) |-> q[i + 1]]
<1> DEFINE n == Len(q) - 1
           f == [i \in 1..n |-> q[i + 1]]
<1>1. n \in Nat /\ n = Len(q) - 1 /\ \A i \in 1..n : q[i + 1] \in S
  OBVIOUS
<1>2. f \in [1..n -> S]
  BY <1>1
<1>3. f \in Seq(S) /\ Len(f) = n
  BY <1>1, <1>2, FunctionIsSeq
<1>4. /\ Tail(q) \in Seq(S) /\ Len(Tail(q)) = n
      /\ \A i \in 1..n : Tail(q)[i] = q[i + 1]
  BY <1>1, HeadTailProperties
<1>5. \A i \in 1..Len(Tail(q)) : Tail(q)[i] = f[i]
  BY <1>1, <1>4
<1> HIDE DEF n, f
<1>6. Tail(q) = f
  BY <1>3, <1>4, <1>5, SeqEqual
<1>7. QED
  BY <1>6 DEF f, n

LEMMA WaitingTyped ==
  ASSUME TtyTyped
  PROVE  Waiting \in Seq(Codes) /\ Len(Waiting) = kb_count
<1>1. /\ kb_count \in Nat /\ p_tail \in Nat /\ KB_SIZE \in Nat \ {0}
      /\ kb_buf \in [0..(KB_SIZE - 1) -> Codes]
  BY TtyAssumption DEF TtyTyped, TypeOK
<1>2. ASSUME NEW i \in 1..kb_count
      PROVE  kb_buf[(p_tail + i - 1) % KB_SIZE] \in Codes
  <2>1. p_tail + i - 1 \in Nat
    BY <1>1
  <2>2. (p_tail + i - 1) % KB_SIZE \in 0..(KB_SIZE - 1)
    BY <1>1, <2>1, DivMod
  <2>3. QED
    BY <1>1, <2>2
<1>3. QED
  BY <1>1, <1>2 DEF Waiting

LEMMA Pressed ==
  ASSUME TtyTyped, NEW x \in Codes, Press(x), kb_count' <= KB_SIZE
  PROVE  Waiting' = Append(Waiting, x)
<1> DEFINE c == (p_tail + kb_count) % KB_SIZE
           W == [i \in 1..kb_count + 1 |-> kb_buf'[(p_tail + i - 1) % KB_SIZE]]
<1>1. /\ kb_count \in Nat /\ p_tail \in Nat /\ KB_SIZE \in Nat \ {0}
      /\ kb_buf \in [0..(KB_SIZE - 1) -> Codes]
  BY TtyAssumption DEF TtyTyped, TypeOK
<1>2. /\ kb_buf' = [kb_buf EXCEPT ![c] = x] /\ kb_count' = kb_count + 1 /\ kb_count < KB_SIZE
      /\ p_tail' = p_tail
  BY <1>1 DEF Press
<1>3. c \in 0..(KB_SIZE - 1)
  <2>1. p_tail + kb_count \in Nat
    BY <1>1
  <2>2. QED
    BY <1>1, <2>1, DivMod
<1>4. kb_buf'[c] = x
  BY <1>1, <1>2, <1>3
<1>5. ASSUME NEW i \in 1..kb_count
      PROVE  kb_buf'[(p_tail + i - 1) % KB_SIZE] = Waiting[i]
  <2> DEFINE a == p_tail + i - 1
  <2>1. a \in Nat /\ a < p_tail + kb_count /\ p_tail + kb_count < a + KB_SIZE
    BY <1>1, <1>2
  <2> HIDE DEF a
  <2>2. a % KB_SIZE # c
    <3>1. p_tail + kb_count \in Nat
      BY <1>1
    <3>2. QED
      BY <1>1, <2>1, <3>1, CellsApart
  <2>3. a % KB_SIZE \in 0..(KB_SIZE - 1)
    BY <1>1, <2>1, DivMod
  <2>4. kb_buf'[a % KB_SIZE] = kb_buf[a % KB_SIZE]
    BY <1>1, <1>2, <2>2, <2>3
  <2>5. QED
    BY <2>4 DEF Waiting, a
<1>6. p_tail + (kb_count + 1) - 1 = p_tail + kb_count
  BY <1>1
<1>7. Waiting' = W
  BY <1>2 DEF Waiting
<1>8. W = Append(Waiting, x)
  <2> DEFINE A == Append(Waiting, x)
  <2>1. A = [i \in 1..(kb_count + 1) |-> IF i = kb_count + 1 THEN x ELSE Waiting[i]]
    BY WaitingTyped, AppendIs
  <2>2. ASSUME NEW i \in 1..(kb_count + 1)
        PROVE  W[i] = IF i = kb_count + 1 THEN x ELSE Waiting[i]
    <3>1. CASE i = kb_count + 1
      BY <1>4, <1>6, <3>1
    <3>2. CASE i # kb_count + 1
      <4>1. i \in 1..kb_count
        BY <1>1, <3>2
      <4>2. QED
        BY <1>5, <3>2, <4>1
    <3>3. QED
      BY <3>1, <3>2
  <2>3. QED
    BY <2>1, <2>2
<1>9. QED
  BY <1>7, <1>8

LEMMA Scanned ==
  ASSUME TtyTyped, TakeCode
  PROVE  kb_count > 0 /\ Waiting' = Tail(Waiting)
<1> DEFINE W == [i \in 1..(kb_count - 1) |-> kb_buf[(((p_tail + 1) % KB_SIZE) + i - 1) % KB_SIZE]]
<1>1. kb_count \in Nat \ {0} /\ p_tail \in 0..(KB_SIZE - 1) /\ p_tail \in Nat /\ KB_SIZE \in Nat \ {0}
  BY TtyAssumption DEF TtyTyped, TypeOK, TakeCode
<1>2. p_tail' = (p_tail + 1) % KB_SIZE /\ kb_count' = kb_count - 1 /\ kb_buf' = kb_buf
  BY DEF TakeCode
<1>3. Waiting' = W
  BY <1>2 DEF Waiting
<1>4. ASSUME NEW i \in 1..(kb_count - 1)
      PROVE  W[i] = Waiting[i + 1]
  <2>1. i - 1 \in Nat /\ i + 1 \in 1..kb_count
    BY <1>1
  <2>2. (((p_tail + 1) % KB_SIZE) + (i - 1)) % KB_SIZE = (p_tail + 1 + (i - 1)) % KB_SIZE
    BY <1>1, <2>1, NextCell
  <2>3. /\ ((p_tail + 1) % KB_SIZE) + i - 1 = ((p_tail + 1) % KB_SIZE) + (i - 1)
        /\ p_tail + 1 + (i - 1) = p_tail + (i + 1) - 1
    <3>1. (p_tail + 1) % KB_SIZE \in Int
      <4>1. p_tail + 1 \in Nat
        BY <1>1
      <4>2. QED
        BY <1>1, <4>1, DivMod
    <3>2. QED
      BY <1>1, <3>1
  <2>4. QED
    BY <2>1, <2>2, <2>3 DEF Waiting
<1>5. Tail(Waiting) = [i \in 1..(kb_count - 1) |-> Waiting[i + 1]]
  <2>1. Waiting # <<>>
    BY <1>1, WaitingTyped
  <2>2. QED
    BY <2>1, WaitingTyped, TailIs
<1>6. Waiting' = Tail(Waiting)
  BY <1>3, <1>4, <1>5
<1>7. QED
  BY <1>1, <1>6

LEMMA RingStep ==
  ASSUME TtyTyped, [Next]_vars, kb_count' <= KB_SIZE
  PROVE  \/ Waiting' = Waiting
         \/ kb_count > 0 /\ Waiting' = Tail(Waiting)
         \/ \E k \in Codes : Waiting' = Append(Waiting, k)
<1>1. UNCHANGED kb => Waiting' = Waiting
  BY DEF kb, Waiting
<1>2. CASE \E x \in Codes : Press(x)
  BY <1>2, Pressed
<1>3. CASE TtyScan \/ TtyCodes
  BY <1>1, <1>3, Passed, Scanned
<1>4. CASE ~ (TtyScan \/ TtyCodes) /\ ~ \E x \in Codes : Press(x)
  <2>1. UNCHANGED kb
    BY <1>4 DEF Next, TtyStep, FsStep, Tick, FsReceive, FsForward, FsAnswer, Call, TtyResume, TtyResumed,
       TtyReceive, TtyInterrupted, TtyRequest, vars
  <2>2. QED
    BY <1>1, <2>1
<1>5. QED
  BY <1>2, <1>3, <1>4

(* keyboard_handler and tty_do_read: as long as the ring has not taken     *)
(* more codes than it has cells, they leave it in the order they came, for *)
(* a ring of any size.                                                     *)
THEOREM KeysKept == Spec => KeysInOrder
<1> DEFINE Ordered == kb_count' <= KB_SIZE =>
                        \/ Waiting' = Waiting
                        \/ kb_count > 0 /\ Waiting' = Tail(Waiting)
                        \/ \E k \in Codes : Waiting' = Append(Waiting, k)
<1>1. TtyTyped /\ [Next]_vars => [Ordered]_vars
  BY RingStep
<1>2. QED
  BY <1>1, TypedInvariant, PTL DEF Spec, KeysInOrder

-----------------------------------------------------------------------------
(* One user.                                                               *)

LEMMA OneUserInit ==
  ASSUME Init
  PROVE  OneUserInv
<1>1. Nobody
  BY DEF Init, Nobody, Owing
<1>2. QED
  BY <1>1, TypedInit DEF Init, OneUserInv

(* One lemma for each action; under it, where the user is.                 *)
LEMMA PressKept ==
  ASSUME OneUserInv, TtyTyped', NEW x \in Codes, Press(x)
  PROVE  OneUserInv'
<1> USE TtyAssumption DEF OneUserInv, TtyTyped, TypeOK, kb, reader, tty, fs, Press
<1>1. CASE Nobody
  BY <1>1 DEF Nobody, Owing, InOnePlace, Alone, Queued, Served, Suspended
<1>2. ASSUME NEW u \in Proc, InOnePlace(u) PROVE OneUserInv'
  <2>1. CASE Queued(u)
    BY <1>2, <2>1 DEF Nobody, Owing, InOnePlace, Alone, Queued, Served, Suspended
  <2>2. CASE Served(u)
    BY <1>2, <2>2 DEF Nobody, Owing, InOnePlace, Alone, Queued, Served, Suspended
  <2>3. CASE Suspended(u)
    BY <1>2, <2>3 DEF Nobody, Owing, InOnePlace, Alone, Queued, Served, Suspended
  <2>4. QED
    BY <1>2, <2>1, <2>2, <2>3 DEF InOnePlace
<1>3. QED
  BY <1>1, <1>2

LEMMA TickKept ==
  ASSUME OneUserInv, TtyTyped', Tick
  PROVE  OneUserInv'
<1> USE TtyAssumption DEF OneUserInv, TtyTyped, TypeOK, kb, reader, tty, fs, Tick
<1>1. CASE Nobody
  BY <1>1 DEF Nobody, Owing, InOnePlace, Alone, Queued, Served, Suspended
<1>2. ASSUME NEW u \in Proc, InOnePlace(u) PROVE OneUserInv'
  <2>1. CASE Queued(u)
    BY <1>2, <2>1 DEF Nobody, Owing, InOnePlace, Alone, Queued, Served, Suspended
  <2>2. CASE Served(u)
    BY <1>2, <2>2 DEF Nobody, Owing, InOnePlace, Alone, Queued, Served, Suspended
  <2>3. CASE Suspended(u)
    BY <1>2, <2>3 DEF Nobody, Owing, InOnePlace, Alone, Queued, Served, Suspended
  <2>4. QED
    BY <1>2, <2>1, <2>2, <2>3 DEF InOnePlace
<1>3. QED
  BY <1>1, <1>2

LEMMA FsReceiveKept ==
  ASSUME OneUserInv, TtyTyped', FsReceive
  PROVE  OneUserInv'
<1> USE TtyAssumption DEF OneUserInv, TtyTyped, TypeOK, kb, reader, tty, fs, FsReceive
<1>1. CASE Nobody
  BY <1>1 DEF Nobody, Owing, InOnePlace, Alone, Queued, Served, Suspended
<1>2. ASSUME NEW u \in Proc, InOnePlace(u) PROVE OneUserInv'
  <2>1. CASE Queued(u)
    <3>1. /\ q_sending = <<u>> /\ fs_pc = "loop" /\ u # TASK_TTY
          /\ Head(q_sending) = u /\ Tail(q_sending) = <<>>
      BY <1>2, <2>1 DEF Queued
    <3>2. /\ fs_pc' = "forward" /\ fs_src' = u /\ q_sending' = <<>>
          /\ UNCHANGED <<kb, keyboard_pressed, has_int_msg, tty_pc, reader, at, halted>>
      BY <3>1
    <3> HIDE DEF FsReceive, TtyTyped
    <3>3. QED
      BY <1>2, <2>1, <3>1, <3>2 DEF Nobody, Owing, InOnePlace, Alone, Queued, Served, Suspended
  <2>2. CASE Served(u)
    BY <1>2, <2>2 DEF Nobody, Owing, InOnePlace, Alone, Queued, Served, Suspended
  <2>3. CASE Suspended(u)
    <3>1. CASE q_sending = <<>>
      BY <1>2, <2>3, <3>1 DEF Nobody, Owing, InOnePlace, Alone, Queued, Served, Suspended
    <3>2. CASE q_sending # <<>>
      <4>1. /\ q_sending = <<TASK_TTY>> /\ tty_pc = "sending" /\ tty_procnr = u
            /\ Head(q_sending) = TASK_TTY /\ Tail(q_sending) = <<>>
        BY <2>3, <3>2 DEF Suspended
      <4>2. /\ fs_pc' = "answer" /\ fs_src' = u /\ q_sending' = <<>> /\ tty_pc' = "resumed"
            /\ UNCHANGED <<kb, keyboard_pressed, has_int_msg, reader, at, halted>>
        BY <4>1
      <4> HIDE DEF FsReceive, TtyTyped
      <4>3. QED
        BY <1>2, <2>3, <4>1, <4>2 DEF Nobody, Owing, InOnePlace, Alone, Queued, Served, Suspended
    <3>3. QED
      BY <3>1, <3>2
  <2>4. QED
    BY <1>2, <2>1, <2>2, <2>3 DEF InOnePlace
<1>3. QED
  BY <1>1, <1>2

LEMMA FsForwardKept ==
  ASSUME OneUserInv, TtyTyped', FsForward
  PROVE  OneUserInv'
<1> USE TtyAssumption DEF OneUserInv, TtyTyped, TypeOK, kb, reader, tty, fs, FsForward
<1>1. CASE Nobody
  BY <1>1 DEF Nobody, Owing, InOnePlace, Alone, Queued, Served, Suspended
<1>2. ASSUME NEW u \in Proc, InOnePlace(u) PROVE OneUserInv'
  <2>1. CASE Queued(u)
    BY <1>2, <2>1 DEF Nobody, Owing, InOnePlace, Alone, Queued, Served, Suspended
  <2>2. CASE Served(u)
    BY <1>2, <2>2 DEF Nobody, Owing, InOnePlace, Alone, Queued, Served, Suspended
  <2>3. CASE Suspended(u)
    BY <1>2, <2>3 DEF Nobody, Owing, InOnePlace, Alone, Queued, Served, Suspended
  <2>4. QED
    BY <1>2, <2>1, <2>2, <2>3 DEF InOnePlace
<1>3. QED
  BY <1>1, <1>2

LEMMA FsAnswerKept ==
  ASSUME OneUserInv, TtyTyped', FsAnswer
  PROVE  OneUserInv'
<1> USE TtyAssumption DEF OneUserInv, TtyTyped, TypeOK, kb, reader, tty, fs, FsAnswer
<1>1. CASE Nobody
  BY <1>1 DEF Nobody, Owing, InOnePlace, Alone, Queued, Served, Suspended
<1>2. ASSUME NEW u \in Proc, InOnePlace(u) PROVE OneUserInv'
  <2>1. CASE Queued(u)
    BY <1>2, <2>1 DEF Nobody, Owing, InOnePlace, Alone, Queued, Served, Suspended
  <2>2. CASE Served(u)
    BY <1>2, <2>2 DEF Nobody, Owing, InOnePlace, Alone, Queued, Served, Suspended
  <2>3. CASE Suspended(u)
    BY <1>2, <2>3 DEF Nobody, Owing, InOnePlace, Alone, Queued, Served, Suspended
  <2>4. QED
    BY <1>2, <2>1, <2>2, <2>3 DEF InOnePlace
<1>3. QED
  BY <1>1, <1>2

LEMMA TtyScanKept ==
  ASSUME OneUserInv, TtyTyped', TtyScan \/ TtyCodes
  PROVE  OneUserInv'
<1> USE TtyAssumption, Passed DEF OneUserInv, kb, reader, tty, fs
<1>1. CASE Nobody
  BY <1>1 DEF Nobody, Owing, InOnePlace, Alone, Queued, Served, Suspended
<1>2. ASSUME NEW u \in Proc, InOnePlace(u) PROVE OneUserInv'
  <2>1. CASE Queued(u)
    BY <1>2, <2>1 DEF Nobody, Owing, InOnePlace, Alone, Queued, Served, Suspended
  <2>2. CASE Served(u)
    BY <1>2, <2>2 DEF Nobody, Owing, InOnePlace, Alone, Queued, Served, Suspended
  <2>3. CASE Suspended(u)
    <3>1. /\ tty_left_cnt > 0 /\ fs_pc \in {"loop", "receiving"} /\ q_sending = <<>>
          /\ at[u] = "read" /\ tty_procnr = u
      BY <2>3 DEF Suspended, Owing
    <3>2. tty_pc' \in {"resume", "loop", "codes"} /\ (tty_pc' # "resume" => tty_left_cnt' > 0)
      BY <3>1
    <3>3. Suspended(u)'
      BY <3>1, <3>2 DEF Suspended, Owing
    <3>4. QED
      BY <1>2, <3>1, <3>2, <3>3 DEF InOnePlace, Alone
  <2>4. QED
    BY <1>2, <2>1, <2>2, <2>3 DEF InOnePlace
<1>3. QED
  BY <1>1, <1>2

LEMMA TtyResumeKept ==
  ASSUME OneUserInv, TtyTyped', TtyResume
  PROVE  OneUserInv'
<1> USE TtyAssumption DEF OneUserInv, TtyTyped, TypeOK, kb, reader, tty, fs, TtyResume
<1>1. CASE Nobody
  BY <1>1 DEF Nobody, Owing, InOnePlace, Alone, Queued, Served, Suspended
<1>2. ASSUME NEW u \in Proc, InOnePlace(u) PROVE OneUserInv'
  <2>1. CASE Queued(u)
    BY <1>2, <2>1 DEF Nobody, Owing, InOnePlace, Alone, Queued, Served, Suspended
  <2>2. CASE Served(u)
    BY <1>2, <2>2 DEF Nobody, Owing, InOnePlace, Alone, Queued, Served, Suspended
  <2>3. CASE Suspended(u)
    BY <1>2, <2>3 DEF Nobody, Owing, InOnePlace, Alone, Queued, Served, Suspended
  <2>4. QED
    BY <1>2, <2>1, <2>2, <2>3 DEF InOnePlace
<1>3. QED
  BY <1>1, <1>2

LEMMA TtyResumedKept ==
  ASSUME OneUserInv, TtyTyped', TtyResumed
  PROVE  OneUserInv'
<1> USE TtyAssumption DEF OneUserInv, TtyTyped, TypeOK, kb, reader, tty, fs, TtyResumed
<1>1. CASE Nobody
  BY <1>1 DEF Nobody, Owing, InOnePlace, Alone, Queued, Served, Suspended
<1>2. ASSUME NEW u \in Proc, InOnePlace(u) PROVE OneUserInv'
  <2>1. CASE Queued(u)
    BY <1>2, <2>1 DEF Nobody, Owing, InOnePlace, Alone, Queued, Served, Suspended
  <2>2. CASE Served(u)
    BY <1>2, <2>2 DEF Nobody, Owing, InOnePlace, Alone, Queued, Served, Suspended
  <2>3. CASE Suspended(u)
    BY <1>2, <2>3 DEF Nobody, Owing, InOnePlace, Alone, Queued, Served, Suspended
  <2>4. QED
    BY <1>2, <2>1, <2>2, <2>3 DEF InOnePlace
<1>3. QED
  BY <1>1, <1>2

LEMMA TtyReceiveKept ==
  ASSUME OneUserInv, TtyTyped', TtyReceive
  PROVE  OneUserInv'
<1> USE TtyAssumption DEF OneUserInv, TtyTyped, TypeOK, kb, reader, tty, fs, TtyReceive
<1>1. CASE Nobody
  BY <1>1 DEF Nobody, Owing, InOnePlace, Alone, Queued, Served, Suspended
<1>2. ASSUME NEW u \in Proc, InOnePlace(u) PROVE OneUserInv'
  <2>1. CASE Queued(u)
    BY <1>2, <2>1 DEF Nobody, Owing, InOnePlace, Alone, Queued, Served, Suspended
  <2>2. CASE Served(u)
    BY <1>2, <2>2 DEF Nobody, Owing, InOnePlace, Alone, Queued, Served, Suspended
  <2>3. CASE Suspended(u)
    BY <1>2, <2>3 DEF Nobody, Owing, InOnePlace, Alone, Queued, Served, Suspended
  <2>4. QED
    BY <1>2, <2>1, <2>2, <2>3 DEF InOnePlace
<1>3. QED
  BY <1>1, <1>2

LEMMA TtyInterruptedKept ==
  ASSUME OneUserInv, TtyTyped', TtyInterrupted
  PROVE  OneUserInv'
<1> USE TtyAssumption DEF OneUserInv, TtyTyped, TypeOK, kb, reader, tty, fs, TtyInterrupted
<1>1. CASE Nobody
  BY <1>1 DEF Nobody, Owing, InOnePlace, Alone, Queued, Served, Suspended
<1>2. ASSUME NEW u \in Proc, InOnePlace(u) PROVE OneUserInv'
  <2>1. CASE Queued(u)
    BY <1>2, <2>1 DEF Nobody, Owing, InOnePlace, Alone, Queued, Served, Suspended
  <2>2. CASE Served(u)
    BY <1>2, <2>2 DEF Nobody, Owing, InOnePlace, Alone, Queued, Served, Suspended
  <2>3. CASE Suspended(u)
    BY <1>2, <2>3 DEF Nobody, Owing, InOnePlace, Alone, Queued, Served, Suspended
  <2>4. QED
    BY <1>2, <2>1, <2>2, <2>3 DEF InOnePlace
<1>3. QED
  BY <1>1, <1>2

LEMMA TtyRequestKept ==
  ASSUME OneUserInv, TtyTyped', TtyRequest
  PROVE  OneUserInv'
<1> USE TtyAssumption DEF OneUserInv, TtyTyped, TypeOK, kb, reader, tty, fs, TtyRequest
<1>1. CASE Nobody
  BY <1>1 DEF Nobody, Owing, InOnePlace, Alone, Queued, Served, Suspended
<1>2. ASSUME NEW u \in Proc, InOnePlace(u) PROVE OneUserInv'
  <2>1. CASE Queued(u)
    BY <1>2, <2>1 DEF Nobody, Owing, InOnePlace, Alone, Queued, Served, Suspended
  <2>2. CASE Served(u)
    BY <1>2, <2>2 DEF Nobody, Owing, InOnePlace, Alone, Queued, Served, Suspended
  <2>3. CASE Suspended(u)
    BY <1>2, <2>3 DEF Nobody, Owing, InOnePlace, Alone, Queued, Served, Suspended
  <2>4. QED
    BY <1>2, <2>1, <2>2, <2>3 DEF InOnePlace
<1>3. QED
  BY <1>1, <1>2

LEMMA CallKept ==
  ASSUME OneUserInv, TtyTyped', NEW p \in Proc, NEW op \in Ops,
         \A q \in Proc : at[q] = "user", Call(p, op)
  PROVE  OneUserInv'
<1> USE TtyAssumption DEF OneUserInv, TtyTyped, TypeOK, kb, reader, tty, fs, Call
<1>1. CASE Nobody
  <2>1. Alone(p)' /\ ~ Owing' /\ ~ halted' /\ (tty_pc' = "request" <=> fs_pc' = "wait")
    BY <1>1 DEF Nobody, Owing, Alone
  <2>2. CASE fs_pc = "receiving"
    <3>1. Served(p)'
      BY <1>1, <2>1, <2>2 DEF Nobody, Served
    <3>2. QED
      BY <2>1, <3>1 DEF InOnePlace
  <2>3. CASE fs_pc = "loop"
    <3>1. q_sending' = Append(<<>>, p) /\ fs_pc' = "loop"
      BY <1>1, <2>3 DEF Nobody
    <3>2. Queued(p)'
      BY <2>1, <3>1 DEF Queued
    <3>3. QED
      BY <2>1, <3>2 DEF InOnePlace
  <2>4. QED
    BY <1>1, <2>2, <2>3 DEF Nobody
<1>2. ASSUME NEW u \in Proc, InOnePlace(u) PROVE OneUserInv'
  <2>1. CASE Queued(u)
    BY <1>2, <2>1 DEF Nobody, Owing, InOnePlace, Alone, Queued, Served, Suspended
  <2>2. CASE Served(u)
    BY <1>2, <2>2 DEF Nobody, Owing, InOnePlace, Alone, Queued, Served, Suspended
  <2>3. CASE Suspended(u)
    BY <1>2, <2>3 DEF Nobody, Owing, InOnePlace, Alone, Queued, Served, Suspended
  <2>4. QED
    BY <1>2, <2>1, <2>2, <2>3 DEF InOnePlace
<1>3. QED
  BY <1>1, <1>2

LEMMA OneUserStep ==
  ASSUME OneUserInv, [OneUserNext]_vars
  PROVE  OneUserInv'
<1>1. [Next]_vars
  BY DEF OneUserNext, Next
<1>2. TtyTyped'
  BY <1>1, TypedStep DEF OneUserInv
<1>3. CASE UNCHANGED vars
  BY <1>2, <1>3 DEF OneUserInv, vars, kb, reader, tty, fs, Nobody, Owing, InOnePlace, Alone, Queued, Served, Suspended
<1>4. QED
  BY <1>2, <1>3, PressKept, CallKept, TickKept, FsReceiveKept, FsForwardKept, FsAnswerKept,
     TtyScanKept, TtyResumeKept, TtyResumedKept, TtyReceiveKept, TtyInterruptedKept, TtyRequestKept
     DEF OneUserNext, TtyStep, FsStep

LEMMA OneUserInvariant == OneUserSpec => []OneUserInv
<1>1. OneUserInv /\ [OneUserNext]_vars => OneUserInv'
  BY OneUserStep
<1>2. QED
  BY <1>1, OneUserInit, PTL DEF OneUserSpec

(* FS answers only a process that waits for it, when one process at a time *)
(* uses the terminal.                                                      *)
THEOREM CallersAnswered == OneUserSpec => []AnswersOnlyCallers
<1>1. OneUserInv => AnswersOnlyCallers
  BY DEF OneUserInv, AnswersOnlyCallers, Nobody, InOnePlace, Queued, Served, Suspended
<1>2. QED
  BY <1>1, OneUserInvariant, PTL

(* The messages of FS and the terminal task never cross, so the kernel     *)
(* does not panic, when one process at a time uses the terminal.           *)
THEOREM NoPanicAlone == OneUserSpec => []NoPanic
<1>1. OneUserInv => NoPanic
  BY DEF OneUserInv, NoPanic
<1>2. QED
  BY <1>1, OneUserInvariant, PTL
=============================================================================
