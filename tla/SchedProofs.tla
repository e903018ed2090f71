----------------------------- MODULE SchedProofs -----------------------------
(***************************************************************************)
(* Proofs about Sched, for every table size and every priorities.          *)
(***************************************************************************)
EXTENDS Sched, WellFoundedInduction, TLAPS

(* A set of natural numbers has a least one.                               *)
LEMMA LeastNatural ==
  ASSUME NEW T \in SUBSET Nat, T # {}
  PROVE  \E m \in T : \A n \in T : m <= n
<1> DEFINE R == OpToRel(<, Nat)
<1>1. IsWellFoundedOn(R, Nat)
  BY NatLessThanWellFounded
<1>2. ASSUME NEW j \in Nat, NEW n \in Nat, n < j PROVE <<n, j>> \in R
  BY <1>2 DEF R, OpToRel
<1> HIDE DEF R
<1>3. PICK m \in T : \A n \in T : <<n, m>> \notin R
  BY <1>1, WFMin, Zenon
<1>4. ASSUME NEW n \in T PROVE m <= n
  <2>1. ~ (n < m)
    BY <1>2, <1>3
  <2>2. m \in Nat /\ n \in Nat
    OBVIOUS
  <2>3. QED
    BY <2>1, <2>2
<1>5. QED
  BY <1>4

(* Where a scan is: the entry it has found can run, and those it has passed *)
(* have no more ticks, but for drivers woken behind it.                     *)
ScanInv ==
  /\ pc = "scan" /\ greatest > 0 => p_proc_ready \in runnable
  /\ pc = "scan" => \A q \in runnable \ woken : q < i => ticks[q] <= greatest
  /\ pc = "refill" => greatest = 0

SchedInv == TypeOK /\ RunsRunnable /\ ScanInv /\ RefillOnlyWhenSpent

LEMMA ChargedIs ==
  ASSUME TypeOK, RunsRunnable
  PROVE  /\ Charged \in [Proc -> Int]
         /\ \A q \in Proc : /\ Charged[q] = ticks[q] - (IF q = p_proc_ready THEN 1 ELSE 0)
                            /\ Charged[q] <= priority[q]
  BY SchedAssumption DEF TypeOK, RunsRunnable, Charged

LEMMA TypeStep ==
  ASSUME TypeOK, RunsRunnable, [Next]_vars
  PROVE  TypeOK'
<1> USE DEF TypeOK, table, loop
<1>p. \A q \in Proc : priority[q] \in Int
  BY SchedAssumption
<1>1. CASE TickUser
  <2>1. Passed \in [Watched -> Nat]
    BY DEF Passed
  <2>2. QED
    BY <1>1, <2>1, ChargedIs, SchedAssumption DEF TickUser, StartSchedule
<1>2. CASE TickCall
  BY <1>2, ChargedIs DEF TickCall
<1>3. CASE EnterCall \/ LeaveCall
  BY <1>3 DEF EnterCall, LeaveCall
<1>4. CASE BlockCaller
  BY <1>4, SchedAssumption DEF BlockCaller, StartSchedule
<1>5. CASE ScanEntry
  <2>1. NR \in Nat /\ i \in Nat /\ i < NR
    BY <1>5, SchedAssumption DEF ScanEntry
  <2>2. i \in Proc /\ i + 1 \in 0..NR
    BY <2>1 DEF Proc
  <2>3. greatest' \in Nat /\ p_proc_ready' \in Proc
    BY <1>5, <2>2 DEF ScanEntry
  <2>4. QED
    BY <1>5, <2>2, <2>3 DEF ScanEntry
<1>6. CASE Found \/ NobodyFound \/ ScanAgain
  BY <1>6, SchedAssumption DEF Found, NobodyFound, ScanAgain
<1>7. CASE RefillEntry
  BY <1>7, <1>p, SchedAssumption DEF RefillEntry, Proc
<1>8. CASE \E p \in Proc : Unblock(p) \/ Interrupt(p)
  BY <1>8 DEF Unblock, Interrupt
<1>9. CASE \E p \in Proc : SetFlags(p)
  BY <1>9 DEF SetFlags
<1>10. CASE \E q, c \in Users : Fork(q, c)
  BY <1>10, SchedAssumption DEF Fork
<1>11. CASE UNCHANGED vars
  BY <1>11 DEF vars
<1>12. QED
  BY <1>1, <1>2, <1>3, <1>4, <1>5, <1>6, <1>7, <1>8, <1>9, <1>10, <1>11 DEF Next, Schedule

LEMMA RunsStep ==
  ASSUME SchedInv, TypeOK', [Next]_vars
  PROVE  RunsRunnable'
<1> USE DEF SchedInv, TypeOK, RunsRunnable, table, loop
<1>p. \A q \in Proc : priority[q] \in Int
  BY SchedAssumption
<1>1. CASE TickUser
  BY <1>1, ChargedIs DEF TickUser, StartSchedule
<1>2. CASE TickCall
  BY <1>2, ChargedIs DEF TickCall
<1>3. CASE EnterCall \/ LeaveCall
  BY <1>3 DEF EnterCall, LeaveCall
<1>4. CASE BlockCaller
  BY <1>4 DEF BlockCaller, StartSchedule
<1>5. CASE ScanEntry
  BY <1>5 DEF ScanEntry
<1>6. CASE Found \/ NobodyFound \/ ScanAgain
  BY <1>6 DEF Found, NobodyFound, ScanAgain, ScanInv
<1>7. CASE RefillEntry
  BY <1>7, <1>p DEF RefillEntry
<1>8. CASE \E p \in Proc : Unblock(p) \/ Interrupt(p)
  BY <1>8 DEF Unblock, Interrupt
<1>9. CASE \E p \in Proc : SetFlags(p)
  BY <1>9, SchedAssumption DEF SetFlags, Manages
<1>10. CASE \E q, c \in Users : Fork(q, c)
  BY <1>10, SchedAssumption DEF Fork
<1>11. CASE UNCHANGED vars
  BY <1>11 DEF vars
<1>12. QED
  BY <1>1, <1>2, <1>3, <1>4, <1>5, <1>6, <1>7, <1>8, <1>9, <1>10, <1>11 DEF Next, Schedule

LEMMA ScanStep ==
  ASSUME SchedInv, [Next]_vars
  PROVE  ScanInv' /\ RefillOnlyWhenSpent'
<1> USE DEF SchedInv, TypeOK, ScanInv, RefillOnlyWhenSpent, table, loop
<1>1. CASE TickUser
  BY <1>1 DEF TickUser, StartSchedule, Proc
<1>2. CASE TickCall
  BY <1>2, ChargedIs DEF TickCall
<1>3. CASE EnterCall \/ LeaveCall
  BY <1>3 DEF EnterCall, LeaveCall
<1>4. CASE BlockCaller
  BY <1>4 DEF BlockCaller, StartSchedule, Proc
<1>5. CASE ScanEntry
  <2>1. i \in Proc /\ i' = i + 1 /\ UNCHANGED <<ticks, runnable, woken, pc>> /\ pc = "scan"
    BY <1>5, SchedAssumption DEF ScanEntry, Proc
  <2>2. \A q \in Proc : q < i' => q < i \/ q = i
    BY <2>1, SchedAssumption DEF Proc
  <2>3. CASE i \in runnable /\ ticks[i] > greatest
    <3>1. greatest' = ticks[i] /\ p_proc_ready' = i
      BY <1>5, <2>3 DEF ScanEntry
    <3>2. QED
      BY <2>1, <2>2, <2>3, <3>1
  <2>4. CASE ~ (i \in runnable /\ ticks[i] > greatest)
    <3>1. UNCHANGED <<greatest, p_proc_ready>>
      BY <1>5, <2>4 DEF ScanEntry
    <3>2. QED
      BY <2>1, <2>2, <2>4, <3>1
  <2>5. QED
    BY <2>3, <2>4
<1>6. CASE Found \/ ScanAgain
  <2>1. \A q \in Proc : ~ (q < 0)
    BY SchedAssumption DEF Proc
  <2>2. CASE Found
    BY <2>2 DEF Found
  <2>3. CASE ScanAgain
    BY <2>1, <2>3 DEF ScanAgain
  <2>4. QED
    BY <1>6, <2>2, <2>3
<1>7. CASE NobodyFound
  <2>1. \A q \in Proc : q < NR
    BY SchedAssumption DEF Proc
  <2>2. QED
    BY <1>7, <2>1 DEF NobodyFound
<1>8. CASE RefillEntry
  <2>1. \A q \in Proc : q >= i' => q >= i /\ q # i
    BY <1>8, SchedAssumption DEF RefillEntry, Proc
  <2>2. QED
    BY <1>8, <2>1 DEF RefillEntry
<1>9. CASE \E p \in Proc : Unblock(p) \/ SetFlags(p)
  BY <1>9 DEF Unblock, SetFlags, Manages
<1>10. CASE \E p \in Proc : Interrupt(p)
  BY <1>10 DEF Interrupt
<1>11. CASE \E q, c \in Users : Fork(q, c)
  BY <1>11 DEF Fork, Manages
<1>12. CASE UNCHANGED vars
  BY <1>12 DEF vars
<1>13. QED
  BY <1>1, <1>2, <1>3, <1>4, <1>5, <1>6, <1>7, <1>8, <1>9, <1>10, <1>11, <1>12
     DEF Next, Schedule

LEMMA SchedInvariant == Spec => []SchedInv
<1>1. Init => SchedInv
  <2>1. 0 \in Proc /\ \A p \in Proc : priority[p] \in Nat
    BY SchedAssumption DEF Proc
  <2>2. SUFFICES ASSUME Init PROVE SchedInv
    OBVIOUS
  <2>3. TypeOK
    <3>1. ticks \in [Proc -> Int]
      BY <2>1, <2>2 DEF Init
    <3>2. 0 \in 0..NR
      BY SchedAssumption
    <3>3. QED
      BY <2>1, <2>2, <3>1, <3>2, SchedAssumption DEF Init, TypeOK
  <2>4. RunsRunnable
    BY <2>1, <2>2, SchedAssumption DEF Init, RunsRunnable
  <2>5. QED
    BY <2>2, <2>3, <2>4 DEF SchedInv, Init, ScanInv, RefillOnlyWhenSpent
<1>2. SchedInv /\ [Next]_vars => SchedInv'
  BY TypeStep, RunsStep, ScanStep DEF SchedInv
<1>3. QED
  BY <1>1, <1>2, PTL DEF Spec

(* The process table and the state of schedule() stay well typed.          *)
THEOREM TypeCorrect == Spec => []TypeOK
<1>1. SchedInv => TypeOK
  BY DEF SchedInv
<1>2. QED
  BY <1>1, SchedInvariant, PTL

(* schedule() (proc.c:17-34) always leaves the processor with a runnable   *)
(* process, and nobody ever holds more ticks than its refill, whatever     *)
(* interrupts do to the loop and whoever is forked.                        *)
THEOREM AlwaysRunnable == Spec => []RunsRunnable
<1>1. SchedInv => RunsRunnable
  BY DEF SchedInv
<1>2. QED
  BY <1>1, SchedInvariant, PTL

(* The refill (proc.c:29-32) finds every runnable process out of ticks,    *)
(* but for drivers an interrupt has woken since schedule() began.          *)
THEOREM RefillFair == Spec => []RefillOnlyWhenSpent
<1>1. SchedInv => RefillOnlyWhenSpent
  BY DEF SchedInv
<1>2. QED
  BY <1>1, SchedInvariant, PTL
-----------------------------------------------------------------------------
(* Sums over the table.  Total is defined by recursion on the entries; s   *)
(* below is its table of partial sums.                                     *)
IsSum(f, s, m) == /\ s \in [0..m -> Nat] /\ s[0] = 0
                  /\ \A n \in 1..m : s[n] = s[n - 1] + f[n - 1]

LEMMA SumExists ==
  ASSUME NEW f \in [Proc -> Nat]
  PROVE  \E s : IsSum(f, s, NR)
<1> DEFINE Bad == {m \in 0..NR : ~ (\E s : IsSum(f, s, m))}
<1>n. NR \in Nat
  BY SchedAssumption
<1>1. SUFFICES ASSUME Bad # {} PROVE FALSE
  BY <1>n
<1>2. PICK m \in Bad : \A j \in Bad : m <= j
  <2>1. Bad \in SUBSET Nat
    BY <1>n
  <2>2. QED
    BY <1>1, <2>1, LeastNatural
<1>3. m # 0
  <2>1. IsSum(f, [n \in 0..0 |-> 0], 0)
    BY DEF IsSum
  <2>2. QED
    BY <2>1
<1>4. PICK s : IsSum(f, s, m - 1)
  <2>1. m - 1 \in 0..NR /\ m - 1 \notin Bad
    BY <1>n, <1>2, <1>3
  <2>2. QED
    BY <2>1
<1>5. f[m - 1] \in Nat
  BY <1>n, <1>2, <1>3 DEF Proc
<1> DEFINE t == [n \in 0..m |-> IF n = m THEN s[m - 1] + f[m - 1] ELSE s[n]]
<1>6. IsSum(f, t, m)
  BY <1>n, <1>2, <1>3, <1>4, <1>5 DEF IsSum
<1>7. QED
  BY <1>6

LEMMA TotalIsSum ==
  ASSUME NEW f \in [Proc -> Nat]
  PROVE  \E s : IsSum(f, s, NR) /\ Total(f) = s[NR]
<1> DEFINE Rule(s) == s = [n \in 0..NR |-> IF n = 0 THEN 0 ELSE s[n - 1] + f[n - 1]]
           sum == CHOOSE s : Rule(s)
<1>n. NR \in Nat
  BY SchedAssumption
<1>1. PICK s : IsSum(f, s, NR)
  BY SumExists
<1>2. Rule(s)
  BY <1>n, <1>1 DEF IsSum
<1>3. Rule(sum)
  BY <1>2, Zenon
<1>4. Total(f) = sum[NR]
  BY Zenon DEF Total
<1> HIDE DEF sum
<1>5. sum = s
  <2> DEFINE Bad == {n \in 0..NR : sum[n] # s[n]}
  <2>1. SUFFICES ASSUME Bad # {} PROVE FALSE
    BY <1>2, <1>3
  <2>2. PICK m \in Bad : \A j \in Bad : m <= j
    <3>1. Bad \in SUBSET Nat
      BY <1>n
    <3>2. QED
      BY <2>1, <3>1, LeastNatural
  <2>3. CASE m = 0
    BY <1>n, <1>2, <1>3, <2>2, <2>3
  <2>4. CASE m # 0
    <3>1. sum[m - 1] = s[m - 1]
      BY <1>n, <2>2, <2>4
    <3>2. sum[m] = sum[m - 1] + f[m - 1] /\ s[m] = s[m - 1] + f[m - 1]
      BY <1>n, <1>2, <1>3, <2>2, <2>4
    <3>3. QED
      BY <2>2, <3>1, <3>2
  <2>5. QED
    BY <2>3, <2>4
<1>6. QED
  BY <1>1, <1>4, <1>5

(* Sums are numbers, they grow with their summands, and strictly when one  *)
(* of these does.                                                          *)
LEMMA TotalMonotonic ==
  ASSUME NEW f \in [Proc -> Nat], NEW g \in [Proc -> Nat],
         \A q \in Proc : f[q] <= g[q]
  PROVE  /\ Total(f) \in Nat /\ Total(g) \in Nat
         /\ Total(f) <= Total(g)
         /\ (\E q \in Proc : f[q] < g[q]) => Total(f) < Total(g)
<1>n. NR \in Nat
  BY SchedAssumption
<1>1. PICK s : IsSum(f, s, NR) /\ Total(f) = s[NR]
  BY TotalIsSum
<1>2. PICK t : IsSum(g, t, NR) /\ Total(g) = t[NR]
  BY TotalIsSum
<1>3. \A n \in 0..NR : s[n] \in Nat /\ t[n] \in Nat
  BY <1>1, <1>2 DEF IsSum
<1>4. ASSUME NEW n \in 1..NR
      PROVE  /\ n - 1 \in Proc /\ n - 1 \in 0..NR /\ f[n - 1] \in Nat /\ g[n - 1] \in Nat
             /\ s[n] = s[n - 1] + f[n - 1] /\ t[n] = t[n - 1] + g[n - 1]
  <2>1. n - 1 \in Proc /\ n - 1 \in 0..NR
    BY <1>n DEF Proc
  <2>2. QED
    BY <1>1, <1>2, <2>1 DEF IsSum
<1> DEFINE Below(n) == \E q \in 0..(n - 1) : f[q] < g[q]
           Bad == {n \in 0..NR : ~ (s[n] <= t[n] /\ (Below(n) => s[n] < t[n]))}
<1>5. Bad = {}
  <2>1. SUFFICES ASSUME Bad # {} PROVE FALSE
    OBVIOUS
  <2>2. PICK m \in Bad : \A j \in Bad : m <= j
    <3>1. Bad \in SUBSET Nat
      BY <1>n
    <3>2. QED
      BY <2>1, <3>1, LeastNatural
  <2>3. m # 0
    BY <1>n, <1>1, <1>2 DEF IsSum
  <2>4. m \in 1..NR /\ m - 1 \in 0..NR /\ m - 1 \notin Bad
    BY <1>n, <2>2, <2>3
  <2>5. s[m - 1] <= t[m - 1] /\ (Below(m - 1) => s[m - 1] < t[m - 1])
    BY <2>4
  <2>6. f[m - 1] <= g[m - 1]
    BY <1>4, <2>4
  <2>7. s[m] <= t[m]
    BY <1>3, <1>4, <2>4, <2>5, <2>6
  <2>8. ASSUME NEW q \in 0..(m - 1), f[q] < g[q] PROVE s[m] < t[m]
    <3>1. CASE q = m - 1
      BY <1>3, <1>4, <2>4, <2>5, <2>8, <3>1
    <3>2. CASE q # m - 1
      <4>1. q \in 0..(m - 2)
        BY <1>n, <2>4, <3>2
      <4>2. s[m - 1] < t[m - 1]
        BY <2>5, <2>8, <4>1
      <4>3. QED
        BY <1>3, <1>4, <2>4, <2>6, <4>2
    <3>3. QED
      BY <3>1, <3>2
  <2>9. QED
    BY <2>2, <2>7, <2>8
<1>6. NR \in 0..NR /\ NR \notin Bad
  BY <1>n, <1>5
<1>7. QED
  <2>1. s[NR] <= t[NR] /\ (Below(NR) => s[NR] < t[NR])
    BY <1>6
  <2>2. Below(NR) <=> \E q \in Proc : f[q] < g[q]
    BY DEF Proc
  <2>3. QED
    BY <1>1, <1>2, <1>3, <1>6, <2>1, <2>2

-----------------------------------------------------------------------------
(* A process has the processor, or is the best that a scan has found.      *)
Holds(q) == q = p_proc_ready
            /\ (pc \in {"user", "call", "return"} \/ (pc = "scan" /\ greatest > 0))

(* What everybody but p can still take before the next refill: the ticks   *)
(* they have, and the moment until the one that runs is found out.         *)
Due(p) == [q \in Proc |-> IF q = p THEN 0
                          ELSE IF ticks[q] > 0 THEN ticks[q]
                          ELSE IF Holds(q) THEN 1 ELSE 0]

(* One refill is ahead of those who have no ticks, none of the others.     *)
Bound(p) == waited[p] + Total(Due(p))
              <= (IF ticks[p] > 0 \/ pc = "refill" THEN 2 * Others(p) ELSE Others(p))

(* A refill may find p with ticks, or pass it over, only if p has just     *)
(* been woken.                                                             *)
WaitInv ==
  /\ \A p \in Watched :
       \/ p \notin runnable
       \/ p = p_proc_ready /\ pc \in {"user", "call", "return"}
       => waited[p] = 0
  /\ \A p \in Watched : Bound(p)
  /\ pc = "scan" =>
       \A p \in Watched : p < i /\ p \in runnable => waited[p] = 0 \/ ticks[p] <= greatest
  /\ pc = "refill" => \A p \in Watched : waited[p] <= Others(p)
  /\ pc = "refill" => \A p \in Watched : p < i => waited[p] = 0 \/ ticks[p] > 0

LEMMA DueBounded ==
  ASSUME TypeOK, RunsRunnable, NEW p \in Proc
  PROVE  /\ Due(p) \in [Proc -> Nat] /\ Others(p) \in Nat /\ Total(Due(p)) \in Nat
         /\ Total(Due(p)) <= Others(p)
<1> DEFINE rest == [priority EXCEPT ![p] = 0]
           due == Due(p)
<1>1. \A q \in Proc : priority[q] \in Nat /\ priority[q] >= 1
  BY SchedAssumption
<1>2. /\ rest \in [Proc -> Nat]
      /\ \A q \in Proc : rest[q] = IF q = p THEN 0 ELSE priority[q]
  BY <1>1, SchedAssumption
<1>3. due \in [Proc -> Nat]
  BY DEF Due, TypeOK
<1>4. \A q \in Proc : due[q] <= rest[q]
  BY <1>1, <1>2 DEF Due, TypeOK, RunsRunnable
<1>5. Total(due) \in Nat /\ Total(rest) \in Nat /\ Total(due) <= Total(rest)
  <2> HIDE DEF rest, due
  <2>1. QED
    BY <1>2, <1>3, <1>4, TotalMonotonic
<1>6. QED
  BY <1>3, <1>5 DEF Others

LEMMA DueBoundedNext ==
  ASSUME TypeOK', RunsRunnable', NEW p \in Proc
  PROVE  Total(Due(p)') \in Nat /\ Total(Due(p)') <= Others(p) /\ Due(p)' \in [Proc -> Nat]
<1> DEFINE rest == [priority EXCEPT ![p] = 0]
           due == Due(p)'
<1>1. \A q \in Proc : priority[q] \in Nat /\ priority[q] >= 1
  BY SchedAssumption
<1>2. /\ rest \in [Proc -> Nat]
      /\ \A q \in Proc : rest[q] = IF q = p THEN 0 ELSE priority[q]
  BY <1>1, SchedAssumption
<1>3. due \in [Proc -> Nat]
  BY DEF Due, TypeOK
<1>4. \A q \in Proc : due[q] <= rest[q]
  BY <1>1, <1>2 DEF Due, TypeOK, RunsRunnable
<1>5. Total(due) \in Nat /\ Total(due) <= Total(rest)
  <2> HIDE DEF due, rest
  <2>1. QED
    BY <1>2, <1>3, <1>4, TotalMonotonic
<1>6. QED
  BY <1>3, <1>5 DEF Others

(* From a state to the next, sums of what is due compare as their parts.   *)
LEMMA DueFalls ==
  ASSUME SchedInv, SchedInv', NEW p \in Proc,
         \A q \in Proc : Due(p)'[q] <= Due(p)[q]
  PROVE  /\ Total(Due(p)') \in Nat /\ Total(Due(p)) \in Nat
         /\ Total(Due(p)') <= Total(Due(p))
         /\ (\E q \in Proc : Due(p)'[q] < Due(p)[q]) => Total(Due(p)') < Total(Due(p))
<1> DEFINE f == Due(p)'
           g == Due(p)
<1>1. f \in [Proc -> Nat] /\ g \in [Proc -> Nat] /\ \A q \in Proc : f[q] <= g[q]
  BY DueBounded, DueBoundedNext DEF SchedInv
<1>2. /\ Total(f) \in Nat /\ Total(g) \in Nat /\ Total(f) <= Total(g)
      /\ (\E q \in Proc : f[q] < g[q]) => Total(f) < Total(g)
  <2> HIDE DEF f, g
  <2>1. QED
    BY <1>1, TotalMonotonic
<1>3. QED
  BY <1>2

(* A step that lets nothing more become due, and keeps the wait of p and   *)
(* what p may expect, keeps its bound.                                     *)
LEMMA BoundKept ==
  ASSUME SchedInv, SchedInv', NEW p \in Proc, Bound(p), waited[p] \in Nat,
         waited'[p] = waited[p],
         \A q \in Proc : Due(p)'[q] <= Due(p)[q],
         ticks'[p] > 0 \/ ticks[p] <= 0, ticks[p] \in Int,
         pc # "refill"
  PROVE  Bound(p)'
<1>1. Total(Due(p)') \in Nat /\ Total(Due(p)) \in Nat /\ Total(Due(p)') <= Total(Due(p))
  BY DueFalls
<1>2. Others(p) \in Nat
  BY DueBounded DEF SchedInv
<1>3. QED
  BY <1>1, <1>2 DEF Bound

(* Who has not waited yet is within its bound.                             *)
LEMMA BoundStarts ==
  ASSUME SchedInv, SchedInv', NEW p \in Proc, waited'[p] = 0
  PROVE  Bound(p)'
<1>1. Total(Due(p)') \in Nat /\ Total(Due(p)') <= Others(p) /\ Others(p) \in Nat
  BY DueBounded, DueBoundedNext DEF SchedInv
<1>2. QED
  BY <1>1 DEF Bound

(* A tick at user level: what is due gets less by one at least.            *)
LEMMA TickWait ==
  ASSUME SchedInv, SchedInv', TickUser, NEW p \in Watched, Bound(p)
  PROVE  Bound(p)'
<1>0. /\ p \in Proc /\ p_proc_ready \in Proc /\ ticks \in [Proc -> Int]
      /\ waited \in [Watched -> Nat]
  BY SchedAssumption DEF SchedInv, TypeOK
<1>1. /\ waited'[p] \in Nat /\ waited'[p] <= waited[p] + 1
      /\ p = p_proc_ready => waited'[p] = 0
  BY <1>0 DEF TickUser, Passed
<1>2. CASE p = p_proc_ready
  BY <1>0, <1>1, <1>2, BoundStarts
<1>3. CASE p # p_proc_ready
  <2>1. ticks' = Charged /\ pc = "user" /\ p_proc_ready' = p_proc_ready
    BY DEF TickUser
  <2>2. \A q \in Proc : ticks'[q] = ticks[q] - (IF q = p_proc_ready THEN 1 ELSE 0)
    BY <2>1, ChargedIs DEF SchedInv
  <2>3. IF ticks'[p_proc_ready] > 0 THEN pc' = "user" ELSE pc' = "scan" /\ greatest' = 0
    BY <2>1 DEF TickUser, StartSchedule
  <2>4. \A q \in Proc : Due(p)'[q] <= Due(p)[q]
    BY <1>0, <2>1, <2>2, <2>3 DEF Due, Holds
  <2>5. Due(p)'[p_proc_ready] < Due(p)[p_proc_ready]
    BY <1>0, <1>3, <2>1, <2>2, <2>3 DEF Due, Holds
  <2>6. /\ Total(Due(p)') \in Nat /\ Total(Due(p)) \in Nat
        /\ Total(Due(p)') < Total(Due(p))
    BY <1>0, <2>4, <2>5, DueFalls
  <2>7. Others(p) \in Nat
    BY <1>0, DueBounded DEF SchedInv
  <2>8. ticks'[p] = ticks[p] /\ pc # "refill"
    BY <1>0, <1>3, <2>1, <2>2
  <2>9. QED
    BY <1>0, <1>1, <2>6, <2>7, <2>8 DEF Bound
<1>4. QED
  BY <1>2, <1>3

(* One step of schedule().                                                 *)
LEMMA ScheduleWait ==
  ASSUME SchedInv, SchedInv', WaitInv, Schedule
  PROVE  WaitInv'
<1> USE DEF table, loop
<1>0. /\ Watched \subseteq Proc /\ ticks \in [Proc -> Int] /\ ticks' \in [Proc -> Int]
      /\ waited \in [Watched -> Nat] /\ p_proc_ready \in Proc /\ NR \in Nat
      /\ i \in Nat /\ greatest \in Nat /\ Proc \subseteq Int
      /\ \A p \in Proc : Others(p) \in Nat
  <2>1. NR \in Nat /\ Watched \subseteq Proc
    BY SchedAssumption
  <2>2. \A p \in Proc : Others(p) \in Nat
    BY DueBounded DEF SchedInv
  <2>3. Proc \subseteq Int /\ i \in Nat
    BY <2>1 DEF Proc, SchedInv, TypeOK
  <2>4. QED
    BY <2>1, <2>2, <2>3 DEF SchedInv, TypeOK
<1>1. CASE ScanEntry
  <2>1. pc = "scan" /\ UNCHANGED <<ticks, runnable, waited, pc>> /\ i' = i + 1
    BY <1>1 DEF ScanEntry
  <2>2. \A p, q \in Proc : Due(p)'[q] <= Due(p)[q]
    <3>1. CASE i \in runnable /\ ticks[i] > greatest
      <4>1. greatest' = ticks[i] /\ p_proc_ready' = i
        BY <1>1, <3>1 DEF ScanEntry
      <4>2. QED
        BY <1>0, <2>1, <3>1, <4>1 DEF Due, Holds
    <3>2. CASE ~ (i \in runnable /\ ticks[i] > greatest)
      <4>1. UNCHANGED <<greatest, p_proc_ready>>
        BY <1>1, <3>2 DEF ScanEntry
      <4>2. QED
        BY <1>0, <2>1, <4>1 DEF Due, Holds
    <3>3. QED
      BY <3>1, <3>2
  <2>3. \A p \in Watched : Bound(p)'
    BY <1>0, <2>1, <2>2, BoundKept DEF WaitInv
  <2>4. \A p \in Watched : p < i' /\ p \in runnable => waited[p] = 0 \/ ticks[p] <= greatest'
    <3>1. SUFFICES ASSUME NEW p \in Watched, p < i', p \in runnable, waited[p] # 0
                   PROVE  ticks[p] <= greatest'
      OBVIOUS
    <3>2. p < i \/ p = i
      BY <1>0, <2>1, <3>1
    <3>3. greatest' >= greatest /\ (i \in runnable => ticks[i] <= greatest')
      BY <1>0, <1>1 DEF ScanEntry, SchedInv, TypeOK
    <3>4. greatest' \in Int
      BY DEF SchedInv, TypeOK
    <3>5. QED
      BY <1>0, <2>1, <3>1, <3>2, <3>3, <3>4 DEF WaitInv
  <2>5. QED
    BY <2>1, <2>3, <2>4 DEF WaitInv
<1>2. CASE Found
  <2>1. /\ pc = "scan" /\ greatest > 0 /\ pc' \in {"user", "return"}
        /\ UNCHANGED <<ticks, runnable, p_proc_ready>>
        /\ waited' = [q \in Watched |-> IF q = p_proc_ready THEN 0 ELSE waited[q]]
    BY <1>2 DEF Found
  <2>2. \A p, q \in Proc : Due(p)'[q] <= Due(p)[q]
    BY <1>0, <2>1 DEF Due, Holds
  <2>3. ASSUME NEW p \in Watched PROVE Bound(p)'
    <3>1. CASE p = p_proc_ready
      BY <1>0, <2>1, <3>1, BoundStarts
    <3>2. CASE p # p_proc_ready
      BY <1>0, <2>1, <2>2, <3>2, BoundKept DEF WaitInv
    <3>3. QED
      BY <3>1, <3>2
  <2>4. QED
    BY <2>1, <2>3 DEF WaitInv
<1>3. CASE NobodyFound
  <2>1. /\ pc = "scan" /\ greatest = 0 /\ i = NR /\ pc' = "refill" /\ i' = 0
        /\ UNCHANGED <<ticks, runnable, waited, p_proc_ready>>
    BY <1>3 DEF NobodyFound
  <2>2. ASSUME NEW p \in Watched PROVE waited[p] <= Others(p)
    <3>1. p \in Proc /\ p < i
      BY <1>0, <2>1 DEF Proc
    <3>2. waited[p] = 0 \/ ticks[p] <= 0
      BY <1>0, <2>1, <3>1 DEF WaitInv
    <3>3. CASE ticks[p] <= 0
      <4>1. Total(Due(p)) \in Nat /\ waited[p] + Total(Due(p)) <= Others(p)
        BY <1>0, <2>1, <3>1, <3>3, DueBounded DEF WaitInv, Bound, SchedInv
      <4>2. QED
        BY <1>0, <3>1, <4>1
    <3>4. QED
      BY <1>0, <3>1, <3>2, <3>3
  <2>3. ASSUME NEW p \in Watched PROVE Bound(p)'
    <3>1. Total(Due(p)') \in Nat /\ Total(Due(p)') <= Others(p)
      BY <1>0, DueBoundedNext DEF SchedInv
    <3>2. QED
      BY <1>0, <2>1, <2>2, <3>1 DEF Bound
  <2>4. \A p \in Watched : ~ (p < 0)
    BY <1>0 DEF Proc
  <2>5. QED
    BY <2>1, <2>2, <2>3, <2>4 DEF WaitInv
<1>4. CASE RefillEntry
  <2>1. /\ pc = "refill" /\ UNCHANGED <<runnable, waited, p_proc_ready, pc>> /\ i' = i + 1
        /\ ticks' = [ticks EXCEPT ![i] = IF i \in runnable THEN priority[i] ELSE @]
    BY <1>4 DEF RefillEntry
  <2>2. ASSUME NEW p \in Watched PROVE Bound(p)'
    <3>1. Total(Due(p)') \in Nat /\ Total(Due(p)') <= Others(p)
      BY <1>0, DueBoundedNext DEF SchedInv
    <3>2. QED
      BY <1>0, <2>1, <3>1 DEF Bound, WaitInv
  <2>3. ASSUME NEW p \in Watched, p < i' PROVE waited[p] = 0 \/ ticks'[p] > 0
    <3>1. p < i \/ p = i
      BY <1>0, <2>1, <2>3
    <3>2. p \in runnable => priority[p] > 0
      BY <1>0, SchedAssumption
    <3>3. QED
      BY <1>0, <2>1, <3>1, <3>2 DEF WaitInv
  <2>4. QED
    BY <2>1, <2>2, <2>3 DEF WaitInv
<1>5. CASE ScanAgain
  <2>1. /\ pc = "refill" /\ i = NR /\ pc' = "scan" /\ i' = 0
        /\ UNCHANGED <<ticks, runnable, waited, p_proc_ready>>
    BY <1>5 DEF ScanAgain
  <2>2. ASSUME NEW p \in Watched PROVE Bound(p)'
    <3>1. Total(Due(p)') \in Nat /\ Total(Due(p)') <= Others(p)
      BY <1>0, DueBoundedNext DEF SchedInv
    <3>2. p < i /\ waited[p] <= Others(p)
      BY <1>0, <2>1 DEF WaitInv, Proc
    <3>3. CASE waited[p] = 0
      BY <1>0, <2>1, <3>3, BoundStarts
    <3>4. CASE ticks[p] > 0
      BY <1>0, <2>1, <3>1, <3>2, <3>4 DEF Bound
    <3>5. QED
      BY <2>1, <3>2, <3>3, <3>4 DEF WaitInv
  <2>3. \A p \in Watched : ~ (p < 0)
    BY <1>0 DEF Proc
  <2>4. QED
    BY <2>1, <2>2, <2>3 DEF WaitInv
<1>6. QED
  BY <1>1, <1>2, <1>3, <1>4, <1>5 DEF Schedule

LEMMA WaitInvStep ==
  ASSUME SchedInv, SchedInv', WaitInv, [Next]_vars
  PROVE  WaitInv'
<1> USE DEF table, loop
<1>0. /\ Watched \subseteq Proc /\ ticks \in [Proc -> Int] /\ ticks' \in [Proc -> Int]
      /\ waited \in [Watched -> Nat] /\ p_proc_ready \in Proc /\ p_proc_ready' \in Proc
      /\ \A p \in Watched : ~ (p < 0)
  <2>1. Watched \subseteq Proc /\ \A p \in Proc : ~ (p < 0)
    BY SchedAssumption DEF Proc
  <2>2. QED
    BY <2>1 DEF SchedInv, TypeOK
<1>1. CASE TickUser
  <2>1. /\ pc = "user" /\ waited' = Passed /\ UNCHANGED <<runnable, p_proc_ready>>
        /\ \/ pc' = "user"
           \/ pc' = "scan" /\ i' = 0
    BY <1>1 DEF TickUser, StartSchedule
  <2>2. \A p \in Watched : Bound(p)'
    BY <1>1, TickWait DEF WaitInv
  <2>3. \A p \in Watched : p \notin runnable \/ p = p_proc_ready => waited'[p] = 0
    BY <2>1 DEF Passed
  <2>4. QED
    BY <1>0, <2>1, <2>2, <2>3 DEF WaitInv
<1>2. CASE BlockCaller
  <2>1. /\ pc = "call" /\ pc' = "scan" /\ i' = 0 /\ greatest' = 0
        /\ runnable' = runnable \ {p_proc_ready} /\ UNCHANGED <<ticks, p_proc_ready>>
        /\ waited' = [q \in Watched |-> IF q = p_proc_ready THEN 0 ELSE waited[q]]
    BY <1>2 DEF BlockCaller, StartSchedule
  <2>2. \A p, q \in Proc : Due(p)'[q] <= Due(p)[q]
    BY <1>0, <2>1 DEF Due, Holds
  <2>3. ASSUME NEW p \in Watched PROVE Bound(p)'
    <3>1. CASE p = p_proc_ready
      BY <1>0, <2>1, <3>1, BoundStarts
    <3>2. CASE p # p_proc_ready
      BY <1>0, <2>1, <2>2, <3>2, BoundKept DEF WaitInv
    <3>3. QED
      BY <3>1, <3>2
  <2>4. QED
    BY <1>0, <2>1, <2>3 DEF WaitInv
<1>3. CASE TickCall
  <2>1. /\ UNCHANGED <<runnable, p_proc_ready, pc, i, greatest>> /\ ticks' = Charged
        /\ waited' = [q \in Watched |-> IF q = p_proc_ready THEN 0 ELSE waited[q]]
    BY <1>3 DEF TickCall
  <2>2. \A q \in Proc : ticks'[q] = ticks[q] - (IF q = p_proc_ready THEN 1 ELSE 0)
    BY <2>1, ChargedIs DEF SchedInv
  <2>3. \A p, q \in Proc : Due(p)'[q] <= Due(p)[q]
    BY <1>0, <2>1, <2>2 DEF Due, Holds
  <2>4. ASSUME NEW p \in Watched PROVE Bound(p)'
    <3>1. CASE p = p_proc_ready
      BY <1>0, <2>1, <3>1, BoundStarts
    <3>2. CASE p # p_proc_ready
      <4>1. /\ Total(Due(p)') \in Nat /\ Total(Due(p)) \in Nat
            /\ Total(Due(p)') <= Total(Due(p)) /\ Others(p) \in Nat
        BY <1>0, <2>3, DueFalls, DueBounded DEF SchedInv
      <4>2. ticks'[p] = ticks[p] /\ waited'[p] = waited[p]
        BY <1>0, <2>1, <2>2, <3>2
      <4>3. QED
        BY <1>0, <2>1, <4>1, <4>2 DEF Bound, WaitInv
    <3>3. QED
      BY <3>1, <3>2
  <2>5. ASSUME NEW p \in Watched
        PROVE  /\ waited'[p] = 0 \/ (waited'[p] = waited[p] /\ ticks'[p] = ticks[p])
               /\ Others(p) >= 0
    BY <1>0, <2>1, <2>2, DueBounded DEF SchedInv
  <2>6. QED
    BY <1>0, <2>1, <2>4, <2>5 DEF WaitInv
<1>4. CASE EnterCall \/ LeaveCall
  <2>1. /\ UNCHANGED <<ticks, runnable, p_proc_ready, waited, greatest>>
        /\ pc \in {"user", "call", "return"} /\ pc' \in {"user", "call"}
    BY <1>4 DEF EnterCall, LeaveCall
  <2>2. \A p, q \in Proc : Due(p)'[q] <= Due(p)[q]
    BY <1>0, <2>1 DEF Due, Holds
  <2>3. \A p \in Watched : Bound(p)'
    BY <1>0, <2>1, <2>2, BoundKept DEF WaitInv
  <2>4. QED
    BY <2>1, <2>3 DEF WaitInv
<1>5. CASE \E p \in Proc : Unblock(p) \/ Interrupt(p)
  <2>1. /\ UNCHANGED <<ticks, p_proc_ready, waited, pc, i, greatest>>
        /\ runnable \subseteq runnable'
    BY <1>5 DEF Unblock, Interrupt
  <2>2. \A p \in Watched : Bound(p)'
    <3>1. \A p \in Watched : Due(p)' = Due(p)
      BY <2>1 DEF Due, Holds
    <3>2. QED
      BY <2>1, <3>1 DEF WaitInv, Bound
  <2>3. QED
    BY <2>1, <2>2 DEF WaitInv
<1>6. CASE \E p \in Proc : SetFlags(p)
  <2>1. PICK m \in Proc : SetFlags(m)
    BY <1>6
  <2>2. /\ UNCHANGED <<ticks, p_proc_ready, pc, greatest>> /\ pc = "user"
        /\ \/ /\ runnable' = runnable \ {m}
              /\ waited' = [q \in Watched |-> IF q = m THEN 0 ELSE waited[q]]
           \/ runnable' = runnable \cup {m} /\ waited' = waited
    BY <2>1 DEF SetFlags, Manages
  <2>3. \A p, q \in Proc : Due(p)'[q] <= Due(p)[q]
    BY <1>0, <2>2 DEF Due, Holds
  <2>4. ASSUME NEW p \in Watched PROVE Bound(p)'
    <3>1. CASE waited'[p] = 0
      BY <1>0, <3>1, BoundStarts
    <3>2. CASE waited'[p] = waited[p]
      BY <1>0, <2>2, <2>3, <3>2, BoundKept DEF WaitInv
    <3>3. QED
      BY <2>2, <3>1, <3>2
  <2>5. QED
    BY <2>2, <2>4 DEF WaitInv
<1>7. CASE \E q, c \in Users : Fork(q, c)
  <2>1. (\A p \in Watched : waited'[p] = 0) /\ pc' = "user"
    BY <1>7 DEF Fork, Manages
  <2>2. \A p \in Watched : Bound(p)'
    BY <1>0, <2>1, BoundStarts
  <2>3. QED
    BY <2>1, <2>2 DEF WaitInv
<1>8. CASE UNCHANGED vars
  BY <1>8 DEF vars, WaitInv, Bound, Due, Holds
<1>9. QED
  BY <1>1, <1>2, <1>3, <1>4, <1>5, <1>6, <1>7, <1>8, ScheduleWait DEF Next

(* A runnable process is passed over (proc.c:17-34, clock.c:19-25) for no  *)
(* more ticks than two refills give the others, whoever blocks and wakes   *)
(* in between: one share they may hold already, one they get when p does.  *)
(* The count starts again when a fork copies ticks, and when a tick is     *)
(* charged to the process while schedule() has it as its best so far.      *)
THEOREM WaitBounded == Spec => []BoundedWait
<1>1. Init /\ SchedInv => WaitInv
  <2>1. SUFFICES ASSUME Init, SchedInv PROVE WaitInv
    OBVIOUS
  <2>2. /\ pc = "user" /\ \A p \in Watched : waited[p] = 0
        /\ Watched \subseteq Proc
    BY <2>1, SchedAssumption DEF Init
  <2>3. ASSUME NEW p \in Watched PROVE Bound(p)
    <3>1. Total(Due(p)) \in Nat /\ Total(Due(p)) <= Others(p) /\ Others(p) \in Nat
      BY <2>1, <2>2, DueBounded DEF SchedInv
    <3>2. QED
      BY <2>2, <3>1 DEF Bound
  <2>4. QED
    BY <2>2, <2>3 DEF WaitInv
<1>2. SchedInv /\ SchedInv' /\ WaitInv /\ [Next]_vars => WaitInv'
  BY WaitInvStep
<1>3. SchedInv /\ WaitInv => BoundedWait
  <2>1. SUFFICES ASSUME SchedInv, WaitInv, NEW p \in Watched
                 PROVE  waited[p] <= 2 * Others(p)
    BY DEF BoundedWait
  <2>2. p \in Proc /\ waited[p] \in Nat
    BY <2>1, SchedAssumption DEF SchedInv, TypeOK
  <2>3. Total(Due(p)) \in Nat /\ Others(p) \in Nat
    BY <2>1, <2>2, DueBounded DEF SchedInv
  <2>4. QED
    BY <2>1, <2>2, <2>3 DEF WaitInv, Bound
<1>4. QED
  BY <1>1, <1>2, <1>3, SchedInvariant, PTL DEF Spec
=============================================================================
