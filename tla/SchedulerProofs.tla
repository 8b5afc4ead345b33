-------------------------- MODULE SchedulerProofs --------------------------
(***************************************************************************)
(* For every number of tasks, all their periods, and every width of the    *)
(* millisecond counter: the watchdog trips only on a pass as long as its   *)
(* limit, no task runs early, and none is late by more than a pass.        *)
(***************************************************************************)
EXTENDS Scheduler, TLAPS

(* The longest a pass can be: the watchdog ends it.                        *)
Longest == StallLimit + WwdgTime

(* Every difference of two readings of the counter is the ticks between.   *)
Counted ==
  /\ pc \in {"task", "running"} => (ms - now) % W = passAge
  /\ \A i \in Tasks : (ms - last_run[i]) % W = age[i] /\ passAge <= age[i]

(* What the supervisor has counted is the age of the pass.                 *)
Supervised ==
  /\ progressed /\ ~tripped => passAge = 0
  /\ ~tripped => stall_ms < StallLimit /\ passAge <= stall_ms + 1
                /\ (progressed \/ stall_ms <= passAge)
  /\ tripped => passAge <= StallLimit + wwdg /\ tripAge >= StallLimit
  /\ pc = "reset" => tripped \/ blockedFor = WwdgTime
  /\ blockedFor <= wwdg /\ (~tripped => wwdg = blockedFor)
  /\ lastPass <= Longest

(* A task that this pass has visited is not due.                           *)
Visited(i) == pc \in {"pass", "wait"} \/ i < next
Served ==
  /\ InTime
  /\ pc # "reset" => \A i \in Tasks : Visited(i) => \E p \in Periods[i] : age[i] - passAge < p

IInv == TypeOK /\ Counted /\ Supervised /\ Served

-----------------------------------------------------------------------------
(* Readings of the counter.                                                *)

LEMMA ModInside ==
  ASSUME NEW M \in Nat \ {0}, NEW a \in 0 .. M - 1 PROVE a % M = a
  OBVIOUS

LEMMA ModTurnBefore ==
  ASSUME NEW M \in Nat \ {0}, NEW a \in -M .. -1 PROVE a % M = a + M
  OBVIOUS

LEMMA ModFull ==
  ASSUME NEW M \in Nat \ {0} PROVE M % M = 0
  OBVIOUS

Readings == 0 .. W - 1

(* The difference of two readings, with at most one wrap between them.     *)
LEMMA DifferenceIs ==
  ASSUME NEW a \in Readings, NEW b \in Readings
  PROVE  (a - b) % W = IF a >= b THEN a - b ELSE a - b + W
<1>1. W \in Nat \ {0} /\ a \in Int /\ b \in Int /\ 0 <= a /\ a < W /\ 0 <= b /\ b < W
  BY LoopAssumption DEF Readings
<1>2. CASE a >= b
  <2>1. a - b \in 0 .. W - 1 BY <1>1, <1>2
  <2> QED BY <1>1, <1>2, <2>1, ModInside
<1>3. CASE ~(a >= b)
  <2>1. a - b \in -W .. -1 BY <1>1, <1>3
  <2>2. (a - b) % W = (a - b) + W BY <1>1, <2>1, ModTurnBefore
  <2> QED BY <1>1, <1>3, <2>2
<1> QED BY <1>2, <1>3

(* The reading after a tick.                                               *)
LEMMA NextReading ==
  ASSUME NEW a \in Readings
  PROVE  /\ (a + 1) % W = IF a + 1 < W THEN a + 1 ELSE 0
         /\ (a + 1) % W \in Readings
<1>1. W \in Nat \ {0} /\ a \in Int /\ 0 <= a /\ a < W
  BY LoopAssumption DEF Readings
<1>2. CASE a + 1 < W
  <2>1. a + 1 \in 0 .. W - 1 BY <1>1, <1>2
  <2> QED BY <1>1, <1>2, <2>1, ModInside DEF Readings
<1>3. CASE ~(a + 1 < W)
  <2>1. a + 1 = W BY <1>1, <1>3
  <2> QED BY <1>1, <1>3, <2>1, ModFull DEF Readings
<1> QED BY <1>2, <1>3

(* A tick later, the difference is one more.                               *)
LEMMA TickLater ==
  ASSUME NEW a \in Readings, NEW b \in Readings, ((a - b) % W) < W - 1
  PROVE  (((a + 1) % W) - b) % W = ((a - b) % W) + 1
<1> DEFINE c == (a + 1) % W
<1>1. c \in Readings /\ c = IF a + 1 < W THEN a + 1 ELSE 0
  BY NextReading
<1> HIDE DEF c
<1>2. (c - b) % W = IF c >= b THEN c - b ELSE c - b + W
  BY <1>1, DifferenceIs
<1>3. W \in Nat \ {0} /\ a \in Int /\ b \in Int /\ 0 <= a /\ a < W /\ 0 <= b /\ b < W
  BY LoopAssumption DEF Readings
<1>4. (a - b) % W = IF a >= b THEN a - b ELSE a - b + W
  BY DifferenceIs
<1>5. (c - b) % W = ((a - b) % W) + 1
  BY <1>1, <1>2, <1>3, <1>4
<1> QED BY <1>5 DEF c

(* What lies between a reading and a later one, seen from a third.         *)
LEMMA Between ==
  ASSUME NEW a \in Readings, NEW b \in Readings, NEW c \in Readings,
         (a - b) % W <= (a - c) % W
  PROVE  (b - c) % W = ((a - c) % W) - ((a - b) % W)
<1>1. W \in Nat \ {0} /\ a \in Int /\ b \in Int /\ c \in Int
      /\ 0 <= a /\ a < W /\ 0 <= b /\ b < W /\ 0 <= c /\ c < W
  BY LoopAssumption DEF Readings
<1>2. /\ (a - b) % W = IF a >= b THEN a - b ELSE a - b + W
      /\ (a - c) % W = IF a >= c THEN a - c ELSE a - c + W
      /\ (b - c) % W = IF b >= c THEN b - c ELSE b - c + W
  BY DifferenceIs
<1> QED BY <1>1, <1>2

-----------------------------------------------------------------------------
(* Every age is far from the width of the counter.                         *)
LEMMA AgesFit ==
  ASSUME IInv
  PROVE  /\ passAge \in Nat /\ passAge <= Longest /\ passAge < W - 1
         /\ \A i \in Tasks : age[i] \in Nat /\ age[i] < W - 1
<1>1. /\ passAge \in Nat /\ lastPass \in Nat /\ wwdg \in Nat /\ wwdg <= WwdgTime
      /\ stall_ms \in Nat /\ W \in Nat /\ StallLimit \in Nat /\ WwdgTime \in Nat
      /\ age \in [Tasks -> 0 .. W]
  BY LoopAssumption DEF IInv, TypeOK
<1>2. passAge <= Longest /\ lastPass <= Longest
  BY <1>1 DEF IInv, Supervised, Longest
<1>3. ASSUME NEW i \in Tasks PROVE passAge < W - 1 /\ age[i] \in Nat /\ age[i] < W - 1
  <2>1. PICK p \in Periods[i] : age[i] - passAge < p + lastPass
    BY DEF IInv, Served, InTime
  <2>2. p \in Nat /\ p + 2 * (StallLimit + WwdgTime + 1) < W
    BY CounterAssumption, LoopAssumption
  <2>3. age[i] \in Nat BY <1>1
  <2> QED BY <1>1, <1>2, <2>1, <2>2, <2>3 DEF Longest
<1>4. 1 \in Tasks BY LoopAssumption DEF Tasks
<1> QED BY <1>1, <1>2, <1>3, <1>4

-----------------------------------------------------------------------------
(* The invariant is inductive.                                             *)

LEMMA InitInv == ASSUME Init PROVE IInv
<1>0. /\ W \in Nat \ {0} /\ N \in Nat \ {0} /\ StallLimit \in Nat \ {0} /\ WwdgTime \in Nat \ {0}
      /\ 1 \in Tasks
  BY LoopAssumption DEF Tasks
<1>1. TypeOK
  <2>1. 0 \in 0 .. W - 1 /\ 0 \in 0 .. W BY <1>0
  <2>2. last_run \in [Tasks -> 0 .. W - 1] /\ age \in [Tasks -> 0 .. W]
    BY <2>1 DEF Init
  <2>3. 0 \in 0 .. StallLimit /\ 0 \in 0 .. WwdgTime /\ WwdgTime # 0 BY <1>0
  <2> QED BY <1>0, <2>1, <2>2, <2>3 DEF Init, TypeOK
<1>2. Counted
  <2>1. 0 \in Readings BY <1>0 DEF Readings
  <2>2. (0 - 0) % W = 0 BY <1>0, <2>1, DifferenceIs
  <2> QED BY <1>0, <2>2 DEF Init, Counted
<1>3. Supervised BY <1>0 DEF Init, Supervised, Longest
<1>4. Served
  <2>1. ASSUME NEW i \in Tasks PROVE \E p \in Periods[i] : age[i] - passAge < p /\ age[i] - passAge < p + lastPass
    <3>1. PICK p \in Periods[i] : p \in Nat \ {0} BY LoopAssumption
    <3>2. age[i] = 0 /\ passAge = 0 /\ lastPass = 0 BY DEF Init
    <3> QED BY <3>1, <3>2
  <2> QED BY <2>1 DEF Served, InTime
<1> QED BY <1>1, <1>2, <1>3, <1>4 DEF IInv

(* A boot starts as Init does.                                             *)
LEMMA BootInv == ASSUME Boot PROVE IInv'
<1>0. /\ W \in Nat \ {0} /\ N \in Nat \ {0} /\ StallLimit \in Nat \ {0} /\ WwdgTime \in Nat \ {0}
      /\ 1 \in Tasks
  BY LoopAssumption DEF Tasks
<1>1. TypeOK'
  <2>1. 0 \in 0 .. W - 1 /\ 0 \in 0 .. W BY <1>0
  <2>2. last_run' \in [Tasks -> 0 .. W - 1] /\ age' \in [Tasks -> 0 .. W]
    BY <2>1 DEF Boot
  <2>3. 0 \in 0 .. StallLimit /\ 0 \in 0 .. WwdgTime /\ WwdgTime # 0 BY <1>0
  <2> QED BY <1>0, <2>1, <2>2, <2>3 DEF Boot, TypeOK
<1>2. Counted'
  <2>1. 0 \in Readings BY <1>0 DEF Readings
  <2>2. (0 - 0) % W = 0 BY <1>0, <2>1, DifferenceIs
  <2> QED BY <1>0, <2>2 DEF Boot, Counted
<1>3. Supervised' BY <1>0 DEF Boot, Supervised, Longest
<1>4. Served'
  <2>1. ASSUME NEW i \in Tasks
        PROVE \E p \in Periods[i] : age'[i] - passAge' < p /\ age'[i] - passAge' < p + lastPass'
    <3>1. PICK p \in Periods[i] : p \in Nat \ {0} BY LoopAssumption
    <3>2. age'[i] = 0 /\ passAge' = 0 /\ lastPass' = 0 BY DEF Boot
    <3> QED BY <3>1, <3>2
  <2> QED BY <2>1 DEF Served, InTime
<1> QED BY <1>1, <1>2, <1>3, <1>4 DEF IInv

(* A new pass: every task has been visited in the one before.              *)
LEMMA StartPassInv == ASSUME IInv, StartPass PROVE IInv'
<1>0. /\ passAge \in Nat /\ passAge <= Longest /\ lastPass \in Nat /\ ms \in Readings
      /\ W \in Nat \ {0} /\ 1 \in Tasks /\ passAge < W
      /\ \A i \in Tasks : age[i] \in Nat /\ Periods[i] \subseteq Nat
  <2>1. W \in Nat \ {0} /\ 1 \in Tasks /\ \A i \in Tasks : Periods[i] \subseteq Nat
    BY LoopAssumption DEF Tasks
  <2>2. lastPass \in Nat /\ ms \in Readings
    BY LoopAssumption DEF IInv, TypeOK, Readings
  <2>3. /\ passAge \in Nat /\ passAge <= Longest /\ passAge < W - 1
        /\ \A i \in Tasks : age[i] \in Nat
    BY AgesFit
  <2>4. passAge < W
    BY ONLY <2>1, <2>3
  <2> QED BY <2>1, <2>2, <2>3, <2>4
<1>1. TypeOK' BY <1>0 DEF StartPass, IInv, TypeOK
<1>2. Counted'
  <2>1. (ms - ms) % W = 0 BY <1>0, DifferenceIs DEF Readings
  <2> QED BY <1>0, <2>1 DEF StartPass, IInv, Counted
<1>3. Supervised'
  <2>1. stall_ms \in Nat /\ wwdg \in Nat /\ StallLimit \in Nat
    BY LoopAssumption DEF IInv, TypeOK
  <2> QED BY <1>0, <2>1 DEF StartPass, IInv, Supervised
<1>4. Served'
  <2>1. ASSUME NEW i \in Tasks PROVE \E p \in Periods[i] : age'[i] - passAge' < p + lastPass'
    <3>1. PICK p \in Periods[i] : age[i] - passAge < p
      BY DEF StartPass, IInv, Served, Visited
    <3>2. passAge' = 0 /\ lastPass' = passAge /\ age' = age BY DEF StartPass
    <3>3. p \in Nat BY <1>0
    <3> QED BY <1>0, <3>1, <3>2, <3>3
  <2>2. pc' = "task" /\ next' = 1 BY DEF StartPass
  <2>3. \A i \in Tasks : ~(i < 1) BY DEF Tasks
  <2> QED BY <2>1, <2>2, <2>3 DEF Served, InTime, Visited
<1> QED BY <1>1, <1>2, <1>3, <1>4 DEF IInv

(* Due compares the ages.                                                  *)
LEMMA DueIs ==
  ASSUME IInv, pc \in {"task", "running"}, NEW i \in Tasks
  PROVE  /\ Elapsed(last_run[i]) = age[i] - passAge
         /\ Due(i) <=> age[i] - passAge >= period[i]
<1>1. ms \in Readings /\ now \in Readings /\ last_run[i] \in Readings
  BY DEF IInv, TypeOK, Readings
<1>2. (ms - now) % W = passAge /\ (ms - last_run[i]) % W = age[i] /\ passAge <= age[i]
  BY DEF IInv, Counted
<1>3. (ms - now) % W <= (ms - last_run[i]) % W
  BY <1>2
<1>4. (now - last_run[i]) % W = ((ms - last_run[i]) % W) - ((ms - now) % W)
  BY <1>1, <1>3, Between
<1>5. (now - last_run[i]) % W = age[i] - passAge
  BY <1>2, <1>4
<1> QED BY <1>5 DEF Elapsed, Due

(* Where the pass goes on, the visited tasks are those before and this one. *)
LEMMA GoOnVisits ==
  ASSUME TypeOK, pc \in {"task", "running"}, GoOn
  PROVE  /\ next' \in Tasks /\ pc' \in {"pass", "task", "wait"}
         /\ \A i \in Tasks : Visited(i)' => Visited(i) \/ i = next
<1>1. next \in 1 .. N /\ N \in Nat BY LoopAssumption DEF TypeOK, Tasks
<1>2. CASE next < N
  <2>1. next' = next + 1 /\ pc' = "task" BY <1>2 DEF GoOn
  <2> QED BY <1>1, <1>2, <2>1 DEF Visited, Tasks
<1>3. CASE ~(next < N)
  <2>1. next' = 1 /\ pc' \in {"pass", "wait"} /\ next = N BY <1>1, <1>3 DEF GoOn
  <2> QED BY <1>1, <2>1 DEF Visited, Tasks
<1> QED BY <1>2, <1>3

(* What the invariants of the ages need to know of a task.                 *)
LEMMA TaskParts ==
  ASSUME IInv, NEW i \in Tasks
  PROVE  /\ passAge \in Nat /\ lastPass \in Nat /\ age[i] \in Nat /\ passAge <= age[i]
         /\ period[i] \in Periods[i] /\ Periods[i] \subseteq Nat \ {0}
<1>1. age \in [Tasks -> 0 .. W] /\ passAge \in 0 .. W /\ lastPass \in 0 .. W
  BY DEF IInv, TypeOK
<1>2. W \in Nat BY LoopAssumption
<1> QED BY <1>1, <1>2, LoopAssumption DEF IInv, TypeOK, Counted

(* A task that is not due has been visited.                                *)
LEMMA SkipTaskInv == ASSUME IInv, SkipTask PROVE IInv'
<1>1. pc = "task" /\ ~Due(next) /\ GoOn /\ TypeOK /\ next \in Tasks
      /\ UNCHANGED <<ms, now, last_run, period, hung, stuck, watchdog, ghosts>>
  BY DEF SkipTask, IInv, TypeOK
<1>2. /\ next' \in Tasks /\ pc' \in {"pass", "task", "wait"}
      /\ \A i \in Tasks : Visited(i)' => Visited(i) \/ i = next
  BY <1>1, GoOnVisits
<1>3. TypeOK' BY <1>1, <1>2 DEF TypeOK, watchdog, ghosts
<1>4. Counted' BY <1>1, <1>2 DEF IInv, Counted, watchdog, ghosts
<1>5. Supervised' BY <1>1, <1>2 DEF IInv, Supervised, watchdog, ghosts
<1>6. Served'
  <2>1. InTime' BY <1>1 DEF IInv, Served, InTime, ghosts
  <2>2. age[next] - passAge < period[next] /\ period[next] \in Periods[next]
    BY <1>1, DueIs, TaskParts
  <2>3. ASSUME NEW i \in Tasks, Visited(i)' PROVE \E p \in Periods[i] : age[i] - passAge < p
    <3>1. CASE i = next BY <2>2, <3>1
    <3>2. CASE Visited(i) BY <1>1, <3>2 DEF IInv, Served
    <3> QED BY <1>2, <2>3, <3>1, <3>2
  <2>4. UNCHANGED <<age, passAge>> BY <1>1 DEF ghosts
  <2> QED BY <2>1, <2>3, <2>4 DEF Served
<1> QED BY <1>3, <1>4, <1>5, <1>6 DEF IInv

(* A task that has run was due at the beginning of the pass.               *)
LEMMA TaskEndsInv == ASSUME IInv, TaskEnds PROVE IInv'
<1>1. /\ pc = "running" /\ ~hung /\ GoOn /\ TypeOK /\ next \in Tasks
      /\ last_run' = [last_run EXCEPT ![next] = now] /\ age' = [age EXCEPT ![next] = passAge]
      /\ UNCHANGED <<ms, now, period, hung, stuck, watchdog, passAge, lastPass, tripAge, blockedFor>>
  BY DEF TaskEnds, AfterTask, IInv, TypeOK
<1>2. /\ next' \in Tasks /\ pc' \in {"pass", "task", "wait"}
      /\ \A i \in Tasks : Visited(i)' => Visited(i) \/ i = next
  BY <1>1, GoOnVisits
<1>3. /\ last_run \in [Tasks -> 0 .. W - 1] /\ age \in [Tasks -> 0 .. W]
      /\ now \in 0 .. W - 1 /\ passAge \in 0 .. W
  BY DEF IInv, TypeOK
<1>4. TypeOK'
  <2>1. last_run' \in [Tasks -> 0 .. W - 1] /\ age' \in [Tasks -> 0 .. W]
    BY <1>1, <1>3
  <2> QED BY <1>1, <1>2, <2>1 DEF TypeOK, watchdog
<1>5. Counted'
  <2>1. ASSUME NEW i \in Tasks PROVE (ms - last_run'[i]) % W = age'[i] /\ passAge <= age'[i]
    <3>1. CASE i = next
      <4>1. last_run'[i] = now /\ age'[i] = passAge BY <1>1, <1>3, <3>1
      <4>2. (ms - now) % W = passAge BY <1>1 DEF IInv, Counted
      <4>3. passAge <= passAge BY TaskParts
      <4> QED BY <4>1, <4>2, <4>3
    <3>2. CASE i # next
      <4>1. last_run'[i] = last_run[i] /\ age'[i] = age[i] BY <1>1, <1>3, <3>2
      <4> QED BY <4>1 DEF IInv, Counted
    <3> QED BY <3>1, <3>2
  <2>2. (ms - now) % W = passAge BY <1>1 DEF IInv, Counted
  <2> QED BY <1>1, <2>1, <2>2 DEF Counted
<1>6. Supervised' BY <1>1, <1>2 DEF IInv, Supervised, watchdog
<1>7. Served'
  <2>1. ASSUME NEW i \in Tasks PROVE \E p \in Periods[i] : age'[i] - passAge < p + lastPass
    <3>1. CASE i = next
      <4>1. age'[i] = passAge BY <1>1, <1>3, <3>1
      <4>2. period[i] \in Periods[i] /\ period[i] \in Nat \ {0} /\ passAge \in Nat /\ lastPass \in Nat
        BY TaskParts
      <4>3. passAge - passAge < period[i] + lastPass BY <4>2
      <4> QED BY <4>1, <4>2, <4>3
    <3>2. CASE i # next
      <4>1. age'[i] = age[i] BY <1>1, <1>3, <3>2
      <4> QED BY <4>1 DEF IInv, Served, InTime
    <3> QED BY <3>1, <3>2
  <2>2. ASSUME NEW i \in Tasks, Visited(i)' PROVE \E p \in Periods[i] : age'[i] - passAge < p
    <3>1. CASE i = next
      <4>1. age'[i] = passAge BY <1>1, <1>3, <3>1
      <4>2. period[i] \in Periods[i] /\ period[i] \in Nat \ {0} /\ passAge \in Nat
        BY TaskParts
      <4>3. passAge - passAge < period[i] BY <4>2
      <4> QED BY <4>1, <4>2, <4>3
    <3>2. CASE i # next
      <4>1. age'[i] = age[i] BY <1>1, <1>3, <3>2
      <4>2. Visited(i) BY <1>2, <2>2, <3>2
      <4> QED BY <1>1, <4>1, <4>2 DEF IInv, Served
    <3> QED BY <3>1, <3>2
  <2> QED BY <1>1, <2>1, <2>2 DEF Served, InTime
<1> QED BY <1>4, <1>5, <1>6, <1>7 DEF IInv

(* A task that begins, changes a period, hangs or recovers, and interrupts *)
(* that get stuck or free, change no age.                                  *)
LEMMA QuietInv ==
  ASSUME IInv, RunTask \/ ReloadPeriods \/ TaskHangs \/ TaskRecovers \/ InterruptsChange
  PROVE  IInv'
<1>1. /\ UNCHANGED <<ms, now, next, last_run, watchdog, ghosts>>
      /\ pc' = pc \/ (pc = "task" /\ pc' = "running")
  BY DEF RunTask, ReloadPeriods, StampedAgain, TaskHangs, TaskRecovers, InterruptsChange, loop
<1>2. TypeOK'
  <2>1. CASE ReloadPeriods
    <3>0. PICK i \in Tasks : \E p \in Periods[i] : period' = [period EXCEPT ![i] = p]
      BY <2>1 DEF ReloadPeriods
    <3>1. PICK p \in Periods[i] : period' = [period EXCEPT ![i] = p]
      BY <3>0
    <3>2. p \in AllPeriods BY DEF AllPeriods
    <3>3. period \in [Tasks -> AllPeriods] /\ \A j \in Tasks : period[j] \in Periods[j]
      BY DEF IInv, TypeOK
    <3>4. period' \in [Tasks -> AllPeriods] /\ \A j \in Tasks : period'[j] \in Periods[j]
      BY <3>1, <3>2, <3>3
    <3>5. UNCHANGED <<pc, hung, stuck>> BY <2>1 DEF ReloadPeriods
    <3> QED BY <1>1, <3>4, <3>5 DEF IInv, TypeOK, watchdog, ghosts
  <2>2. CASE RunTask
    BY <1>1, <2>2 DEF RunTask, IInv, TypeOK, watchdog, ghosts
  <2>3. CASE TaskHangs \/ TaskRecovers \/ InterruptsChange
    <3>1. UNCHANGED loop /\ hung' \in BOOLEAN /\ stuck' \in BOOLEAN
      BY <2>3 DEF TaskHangs, TaskRecovers, InterruptsChange, IInv, TypeOK
    <3>2. hung' => pc' \in {"running", "reset"}
      BY <2>3 DEF TaskHangs, TaskRecovers, InterruptsChange, IInv, TypeOK, loop
    <3> QED BY <1>1, <3>1, <3>2 DEF IInv, TypeOK, watchdog, ghosts, loop
  <2> QED BY <2>1, <2>2, <2>3
<1>3. Counted' BY <1>1 DEF IInv, Counted, ghosts
<1>4. Supervised' BY <1>1 DEF IInv, Supervised, watchdog, ghosts
<1>5. Served'
  <2>1. \A i \in Tasks : Visited(i)' => Visited(i) BY <1>1 DEF Visited
  <2>2. pc' # "reset" => pc # "reset" BY <1>1
  <2>3. UNCHANGED <<age, passAge, lastPass>> BY <1>1 DEF ghosts
  <2> QED BY <2>1, <2>2, <2>3 DEF IInv, Served, InTime
<1> QED BY <1>2, <1>3, <1>4, <1>5 DEF IInv

(* A millisecond without SysTick brings the reset nearer.                  *)
LEMMA BlockedInv == ASSUME IInv, Blocked PROVE IInv'
<1>1. /\ stuck /\ pc # "reset" /\ wwdg' = wwdg + 1 /\ blockedFor' = blockedFor + 1
      /\ pc' = IF wwdg' = WwdgTime THEN "reset" ELSE pc
      /\ UNCHANGED <<ms, now, next, last_run, period, hung, stuck, progressed, stall_ms, tripped,
                     passAge, lastPass, age, tripAge>>
  BY DEF Blocked
<1>2. /\ WwdgTime \in Nat \ {0} /\ StallLimit \in Nat \ {0} /\ passAge \in Nat
      /\ wwdg \in Nat /\ wwdg < WwdgTime /\ blockedFor \in Nat /\ blockedFor <= wwdg
  BY <1>1, LoopAssumption, TaskParts, AgesFit DEF IInv, TypeOK, Supervised
<1>3. TypeOK'
  <2>1. wwdg' \in 0 .. WwdgTime /\ blockedFor' \in 0 .. WwdgTime BY <1>1, <1>2
  <2> QED BY <1>1, <1>2, <2>1 DEF IInv, TypeOK
<1>4. Counted' BY <1>1 DEF IInv, Counted
<1>5. Supervised' BY <1>1, <1>2 DEF IInv, Supervised
<1>6. Served'
  <2>1. \A i \in Tasks : pc' # "reset" => (Visited(i)' => Visited(i)) BY <1>1 DEF Visited
  <2> QED BY <1>1, <2>1 DEF IInv, Served, InTime
<1> QED BY <1>3, <1>4, <1>5, <1>6 DEF IInv

(* The supervisor counts with the age of the pass.                         *)
LEMMA SuperviseIs ==
  ASSUME IInv, SysTick
  PROVE  /\ passAge' = passAge + 1 /\ passAge' \in 0 .. W /\ tripAge' \in 0 .. W
         /\ progressed' \in BOOLEAN /\ tripped' \in BOOLEAN /\ stall_ms' \in 0 .. StallLimit
         /\ wwdg' \in 0 .. WwdgTime /\ Supervised'
<1>1. /\ passAge \in Nat /\ passAge < W - 1 /\ W \in Nat
      /\ stall_ms \in Nat /\ stall_ms <= StallLimit /\ tripAge \in 0 .. W
      /\ progressed \in BOOLEAN /\ tripped \in BOOLEAN
      /\ wwdg \in Nat /\ wwdg < WwdgTime /\ StallLimit \in Nat \ {0} /\ WwdgTime \in Nat \ {0}
  BY AgesFit, LoopAssumption DEF IInv, TypeOK, SysTick
<1>2. /\ progressed /\ ~tripped => passAge = 0
      /\ ~tripped => stall_ms < StallLimit /\ passAge <= stall_ms + 1
                     /\ (progressed \/ stall_ms <= passAge)
      /\ tripped => passAge <= StallLimit + wwdg /\ tripAge >= StallLimit
      /\ lastPass <= Longest
  BY DEF IInv, Supervised
<1>3. /\ passAge' = Later(passAge) /\ blockedFor' = 0 /\ lastPass' = lastPass /\ Supervise
      /\ wwdg' = IF Refreshes THEN 0 ELSE wwdg + 1
      /\ pc' = IF wwdg' = WwdgTime THEN "reset" ELSE IF pc = "wait" THEN "pass" ELSE pc
      /\ pc # "reset"
  BY DEF SysTick
<1>4. passAge' = passAge + 1 /\ Later(passAge) = passAge + 1 BY <1>1, <1>3 DEF Later
<1>5. CASE tripped
  <2>1. UNCHANGED <<progressed, stall_ms, tripped, tripAge>> BY <1>3, <1>5 DEF Supervise
  <2>2. wwdg' = wwdg + 1 BY <1>3, <1>5, <2>1 DEF Refreshes
  <2>3. tripped' /\ passAge' <= StallLimit + wwdg' /\ tripAge' >= StallLimit
    BY <1>1, <1>2, <1>4, <1>5, <2>1, <2>2
  <2>4. wwdg' \in 0 .. WwdgTime /\ blockedFor' <= wwdg' BY <1>1, <1>3, <2>2
  <2>5. Supervised' BY <1>2, <1>3, <2>3, <2>4 DEF Supervised, Longest
  <2> QED BY <1>1, <1>4, <2>1, <2>4, <2>5
<1>6. CASE ~tripped
  <2>1. /\ progressed' = FALSE /\ stall_ms' = Stalled /\ tripped' = (Stalled >= StallLimit)
        /\ tripAge' = IF Stalled >= StallLimit THEN passAge + 1 ELSE tripAge
    BY <1>3, <1>4, <1>6 DEF Supervise, Count
  <2>2. /\ Stalled \in 0 .. StallLimit /\ passAge + 1 <= Stalled + 1
        /\ (progressed => Stalled = 0) /\ (~progressed => Stalled = stall_ms + 1)
    BY <1>1, <1>2, <1>6 DEF Stalled
  <2>3. CASE Stalled >= StallLimit
    <3>1. ~progressed /\ stall_ms + 1 = StallLimit BY <1>1, <2>2, <2>3
    <3>2. tripped' /\ wwdg' = wwdg + 1 /\ tripAge' = passAge + 1
      BY <1>3, <2>1, <2>3 DEF Refreshes
    <3>3. passAge' <= StallLimit + wwdg' BY <1>1, <1>2, <1>4, <1>6, <3>1, <3>2
    <3>4. tripAge' >= StallLimit
      BY <1>1, <1>2, <1>6, <3>1, <3>2
    <3>5. wwdg' \in 0 .. WwdgTime /\ blockedFor' <= wwdg' BY <1>1, <1>3, <3>2
    <3>6. Supervised' BY <1>2, <1>3, <3>2, <3>3, <3>4, <3>5 DEF Supervised, Longest
    <3>7. tripAge' \in 0 .. W BY <1>1, <3>2
    <3> QED BY <1>1, <1>4, <2>1, <2>2, <3>2, <3>5, <3>6, <3>7
  <2>4. CASE ~(Stalled >= StallLimit)
    <3>1. ~tripped' /\ wwdg' = 0 /\ tripAge' = tripAge BY <1>3, <2>1, <2>4 DEF Refreshes
    <3>2. stall_ms' < StallLimit /\ passAge' <= stall_ms' + 1 /\ stall_ms' <= passAge'
      BY <1>1, <1>2, <1>4, <1>6, <2>1, <2>2, <2>4
    <3>3. pc' # "reset" BY <1>1, <1>3, <3>1
    <3>4. wwdg' = blockedFor' /\ lastPass' <= Longest /\ progressed' = FALSE BY <1>2, <1>3, <2>1, <3>1
    <3>5. Supervised' BY <1>3, <3>1, <3>2, <3>3, <3>4 DEF Supervised
    <3>6. tripped' \in BOOLEAN /\ progressed' \in BOOLEAN
      <4>1. (Stalled >= StallLimit) \in BOOLEAN OBVIOUS
      <4>2. tripped' = (Stalled >= StallLimit) /\ progressed' = FALSE BY <2>1
      <4> QED BY <4>1, <4>2, Zenon
    <3>7. /\ wwdg' \in 0 .. WwdgTime /\ passAge' \in 0 .. W /\ tripAge' \in 0 .. W
          /\ stall_ms' \in 0 .. StallLimit
      BY <1>1, <1>4, <2>1, <2>2, <3>1
    <3> QED BY <1>4, <3>5, <3>6, <3>7
  <2> QED BY <2>3, <2>4
<1> QED BY <1>5, <1>6

(* A tick makes every age one more.                                        *)
LEMMA SysTickInv == ASSUME IInv, SysTick PROVE IInv'
<1>1. /\ passAge' = passAge + 1 /\ passAge' \in 0 .. W /\ tripAge' \in 0 .. W
      /\ progressed' \in BOOLEAN /\ tripped' \in BOOLEAN /\ stall_ms' \in 0 .. StallLimit
      /\ wwdg' \in 0 .. WwdgTime /\ Supervised'
  BY SuperviseIs
<1>2. /\ ms' = (ms + 1) % W /\ age' = [i \in Tasks |-> Later(age[i])] /\ blockedFor' = 0
      /\ pc' = IF wwdg' = WwdgTime THEN "reset" ELSE IF pc = "wait" THEN "pass" ELSE pc
      /\ pc # "reset"
      /\ UNCHANGED <<now, next, last_run, period, hung, stuck, lastPass>>
  BY DEF SysTick
<1>3. /\ ms \in Readings /\ now \in Readings /\ \A i \in Tasks : last_run[i] \in Readings
      /\ W \in Nat \ {0} /\ passAge \in Nat /\ passAge < W - 1
      /\ \A i \in Tasks : age[i] \in Nat /\ age[i] < W - 1
  BY AgesFit, LoopAssumption DEF IInv, TypeOK, Readings
<1>4. \A i \in Tasks : age'[i] = age[i] + 1
  BY <1>2, <1>3 DEF Later
<1>5. TypeOK'
  <2>1. ms' \in 0 .. W - 1 BY <1>2, <1>3, NextReading DEF Readings
  <2>2. age' \in [Tasks -> 0 .. W]
    <3>1. \A i \in Tasks : Later(age[i]) \in 0 .. W BY <1>3 DEF Later
    <3> QED BY <1>2, <3>1
  <2>3. /\ pc' \in {"pass", "task", "running", "wait", "reset"}
        /\ (hung' => pc' \in {"running", "reset"}) /\ (wwdg' = WwdgTime => pc' = "reset")
    BY <1>2 DEF IInv, TypeOK
  <2>4. 0 \in 0 .. WwdgTime BY LoopAssumption
  <2> QED BY <1>1, <1>2, <2>1, <2>2, <2>3, <2>4 DEF IInv, TypeOK
<1>6. Counted'
  <2>1. ASSUME pc' \in {"task", "running"} PROVE (ms' - now') % W = passAge'
    <3>1. (ms - now) % W = passAge BY <1>2, <2>1 DEF IInv, Counted
    <3>2. (((ms + 1) % W) - now) % W = ((ms - now) % W) + 1
      BY <1>3, <3>1, TickLater
    <3> QED BY <1>1, <1>2, <3>1, <3>2
  <2>2. ASSUME NEW i \in Tasks PROVE (ms' - last_run'[i]) % W = age'[i] /\ passAge' <= age'[i]
    <3>1. (ms - last_run[i]) % W = age[i] /\ passAge <= age[i] BY DEF IInv, Counted
    <3>2. (((ms + 1) % W) - last_run[i]) % W = ((ms - last_run[i]) % W) + 1
      BY <1>3, <3>1, TickLater
    <3> QED BY <1>1, <1>2, <1>3, <1>4, <3>1, <3>2
  <2> QED BY <2>1, <2>2 DEF Counted
<1>7. Served'
  <2>1. ASSUME NEW i \in Tasks PROVE age'[i] - passAge' = age[i] - passAge
    BY <1>1, <1>3, <1>4
  <2>2. ASSUME NEW i \in Tasks, pc' # "reset", Visited(i)' PROVE Visited(i)
    BY <1>2, <2>2 DEF Visited
  <2> QED BY <1>2, <2>1, <2>2 DEF IInv, Served, InTime
<1> QED BY <1>1, <1>5, <1>6, <1>7 DEF IInv

(* Every step keeps the invariant.                                         *)
LEMMA NextInv == ASSUME IInv, [Next]_vars PROVE IInv'
<1>1. CASE UNCHANGED vars
  BY <1>1 DEF vars, loop, watchdog, ghosts, IInv, TypeOK, Counted, Supervised, Served, InTime, Visited
<1> QED BY <1>1, StartPassInv, SkipTaskInv, TaskEndsInv, QuietInv, SysTickInv, BlockedInv, BootInv
        DEF Next

-----------------------------------------------------------------------------
(* The loop keeps its invariant, whatever the tasks do, and through resets. *)
THEOREM LoopInvariant == Spec => []IInv
  BY InitInv, NextInv, PTL DEF Spec

(* Every variable keeps its type: indices, ages and the watchdog's counters *)
(* stay inside their bounds.                                               *)
THEOREM LoopTypes == Spec => []TypeOK
<1>1. IInv => TypeOK BY DEF IInv
<1> QED BY <1>1, LoopInvariant, PTL

(* The watchdog never resets a loop whose passes are shorter than its      *)
(* limit.                                                                  *)
THEOREM WatchdogIsPatient == Spec => []NoFalseReset
<1>1. IInv => NoFalseReset BY DEF IInv, Supervised, NoFalseReset
<1> QED BY <1>1, LoopInvariant, PTL

(* No task is late by more than the pass before, across every wrap of the  *)
(* counter.                                                                *)
THEOREM LoopIsFair == Spec => []InTime
<1>1. IInv => InTime BY DEF IInv, Served
<1> QED BY <1>1, LoopInvariant, PTL

(* No task runs before its period has passed.                              *)
THEOREM LoopIsNeverEarly == Spec => NeverEarly
<1>1. IInv /\ [Next]_vars => [pc = "task" /\ pc' = "running" => age[next] - passAge >= period[next]]_vars
  <2> SUFFICES ASSUME IInv, Next, pc = "task", pc' = "running"
               PROVE  age[next] - passAge >= period[next]
    BY DEF vars
  <2>1. Due(next)
    BY DEF Next, StartPass, SkipTask, GoOn, RunTask, TaskEnds, ReloadPeriods, SysTick, Blocked,
           TaskHangs, TaskRecovers, InterruptsChange, Boot, loop
  <2>2. next \in Tasks BY DEF IInv, TypeOK
  <2> QED BY <2>1, <2>2, DueIs
<1> QED BY <1>1, LoopInvariant, PTL DEF Spec, NeverEarly
=============================================================================
