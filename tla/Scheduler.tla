----------------------------- MODULE Scheduler -----------------------------
(***************************************************************************)
(* The cooperative main loop (App/app_scheduler.c) and the watchdog that   *)
(* supervises it from the SysTick interrupt (HAL_App/hal_wdt.c,            *)
(* Math/math_supervisor.c).  The interrupt comes between any two steps of   *)
(* the loop.  A task is any code that takes its time, may change a period   *)
(* and may hang.                                                           *)
(***************************************************************************)
EXTENDS Integers

CONSTANTS
  N,            (* tasks, in the order of s_tasks                          *)
  Periods,      (* the periods that each may have, one if it is a literal  *)
  W,            (* the millisecond counter counts modulo W: 2^32           *)
  MaxPass,      (* milliseconds of a pass in which nothing hangs           *)
  StallLimit,   (* WDT_STALL_LIMIT_MS                                      *)
  WwdgTime      (* the WWDG resets so long after its last refresh          *)

Tasks == 1 .. N
AllPeriods == UNION {Periods[i] : i \in Tasks}

ASSUME LoopAssumption ==
  /\ N \in Nat \ {0} /\ W \in Nat \ {0}
  /\ Periods \in [Tasks -> SUBSET (Nat \ {0})] /\ \A i \in Tasks : Periods[i] # {}
  /\ MaxPass \in Nat /\ StallLimit \in Nat \ {0} /\ WwdgTime \in Nat \ {0}

(* A period and two passes that the watchdog lets be, in 49.7 days.        *)
ASSUME CounterAssumption ==
  \A i \in Tasks : \A p \in Periods[i] : p + 2 * (StallLimit + WwdgTime + 1) < W

VARIABLES
  ms,             (* HAL_GetTick                                           *)
  period, last_run,
  pc, now, next,  (* of app_scheduler_run                                  *)
  hung,           (* the task does not come back                           *)
  stuck,          (* SysTick is kept from running                          *)
  progressed,     (* s_progress # last_progress: 2^32 passes take longer   *)
                  (* than a millisecond                                    *)
  stall_ms, tripped,
  wwdg,           (* milliseconds since the refresh                        *)
  (* what the properties compare with, in ticks of SysTick                 *)
  passAge,        (* since this pass began                                 *)
  lastPass,       (* length of the pass before                             *)
  age,            (* since the beginning of the pass that ran the task     *)
  tripAge,        (* passAge when the supervisor tripped                   *)
  blockedFor      (* milliseconds without SysTick                          *)

loop == <<pc, now, next, last_run, period>>
watchdog == <<progressed, stall_ms, tripped, wwdg>>
ghosts == <<passAge, lastPass, age, tripAge, blockedFor>>
vars == <<ms, loop, hung, stuck, watchdog, ghosts>>

(* Every value is in its range.                                            *)
TypeOK ==
  /\ ms \in 0 .. W - 1 /\ now \in 0 .. W - 1 /\ last_run \in [Tasks -> 0 .. W - 1]
  /\ period \in [Tasks -> AllPeriods] /\ \A i \in Tasks : period[i] \in Periods[i]
  /\ pc \in {"pass", "task", "running", "wait", "reset"} /\ next \in Tasks
  /\ hung \in BOOLEAN /\ stuck \in BOOLEAN /\ (hung => pc \in {"running", "reset"})
  /\ progressed \in BOOLEAN /\ stall_ms \in 0 .. StallLimit /\ tripped \in BOOLEAN
  /\ wwdg \in 0 .. WwdgTime /\ (wwdg = WwdgTime => pc = "reset")
  /\ passAge \in 0 .. W /\ lastPass \in 0 .. W /\ age \in [Tasks -> 0 .. W]
  /\ tripAge \in 0 .. W /\ blockedFor \in 0 .. WwdgTime

(* app_scheduler_init, the first time, and hal_wdt_start.                  *)
Init ==
  /\ ms = 0 /\ last_run = [i \in Tasks |-> 0] /\ now = 0
  /\ period \in [Tasks -> AllPeriods] /\ \A i \in Tasks : period[i] \in Periods[i]
  /\ pc = "pass" /\ next = 1
  /\ hung = FALSE /\ stuck = FALSE
  /\ progressed = FALSE /\ stall_ms = 0 /\ tripped = FALSE /\ wwdg = 0
  /\ passAge = 0 /\ lastPass = 0 /\ age = [i \in Tasks |-> 0]
  /\ tripAge = 0 /\ blockedFor = 0

-----------------------------------------------------------------------------
(* app_scheduler_run.  Without PWRTEST_CPU_SPIN it waits for an interrupt. *)

StartPass ==
  /\ pc = "pass"
  /\ progressed' = TRUE /\ now' = ms /\ next' = 1 /\ pc' = "task"
  /\ lastPass' = passAge /\ passAge' = 0
  /\ UNCHANGED <<ms, last_run, period, hung, stuck, stall_ms, tripped, wwdg,
                 age, tripAge, blockedFor>>

Elapsed(from) == (now - from) % W

Due_absolute(i) == now >= last_run[i] + period[i]

Due(i) == Elapsed(last_run[i]) >= period[i]

GoOn ==
  IF next < N THEN next' = next + 1 /\ pc' = "task"
  ELSE next' = 1 /\ pc' \in {"pass", "wait"}

SkipTask ==
  /\ pc = "task" /\ ~Due(next)
  /\ GoOn
  /\ UNCHANGED <<ms, now, last_run, period, hung, stuck, watchdog, ghosts>>

RunTask ==
  /\ pc = "task" /\ Due(next)
  /\ pc' = "running"
  /\ UNCHANGED <<ms, now, next, last_run, period, hung, stuck, watchdog, ghosts>>

AfterTask_nextPass == next' = 1 /\ pc' = "pass"

AfterTask == GoOn

TaskEnds ==
  /\ pc = "running" /\ ~hung
  /\ last_run' = [last_run EXCEPT ![next] = now] /\ age' = [age EXCEPT ![next] = passAge]
  /\ AfterTask
  /\ UNCHANGED <<ms, now, period, hung, stuck, watchdog, passAge, lastPass, tripAge, blockedFor>>

(* A task changes a setting and calls app_scheduler_reload_periods, or     *)
(* app_scheduler_init again, which only reloads.                           *)
StampedAgain_now == [i \in Tasks |-> ms]

StampedAgain == last_run

ReloadPeriods ==
  /\ pc = "running" /\ ~hung
  /\ \E i \in Tasks : \E p \in Periods[i] \ {period[i]} : period' = [period EXCEPT ![i] = p]
  /\ last_run' = StampedAgain
  /\ UNCHANGED <<ms, pc, now, next, hung, stuck, watchdog, ghosts>>

-----------------------------------------------------------------------------
(* SysTick_Handler: HAL_IncTick and hal_wdt_tick_isr.                      *)

(* InTime keeps every age below W.                                         *)
Later(a) == IF a < W THEN a + 1 ELSE a

Stalled_total == IF progressed /\ ~tripped THEN stall_ms ELSE stall_ms + 1

Stalled == IF progressed THEN 0 ELSE stall_ms + 1

Count ==
  /\ progressed' = FALSE /\ stall_ms' = Stalled
  /\ tripped' = (Stalled >= StallLimit)
  /\ tripAge' = IF Stalled >= StallLimit THEN Later(passAge) ELSE tripAge

Supervise ==
  \/ tripped /\ UNCHANGED <<progressed, stall_ms, tripped, tripAge>>
  \/ ~tripped /\ Count

Refreshes_always == TRUE

Refreshes == ~tripped'

(* A pass takes its time.                                                  *)
MayTakeLonger == hung \/ pc = "wait" \/ passAge < MaxPass

SysTick ==
  /\ ~stuck /\ MayTakeLonger /\ pc # "reset"
  /\ ms' = (ms + 1) % W
  /\ passAge' = Later(passAge) /\ age' = [i \in Tasks |-> Later(age[i])] /\ blockedFor' = 0
  /\ Supervise
  /\ wwdg' = IF Refreshes THEN 0 ELSE wwdg + 1
  /\ pc' = IF wwdg' = WwdgTime THEN "reset" ELSE IF pc = "wait" THEN "pass" ELSE pc
  /\ UNCHANGED <<now, next, last_run, period, hung, stuck, lastPass>>

(* A millisecond without SysTick.                                          *)
Blocked ==
  /\ stuck /\ pc # "reset"
  /\ wwdg' = wwdg + 1 /\ blockedFor' = blockedFor + 1
  /\ pc' = IF wwdg' = WwdgTime THEN "reset" ELSE pc
  /\ UNCHANGED <<ms, now, next, last_run, period, hung, stuck, progressed, stall_ms, tripped,
                 passAge, lastPass, age, tripAge>>

TaskHangs ==
  /\ pc = "running" /\ ~hung /\ hung' = TRUE
  /\ UNCHANGED <<ms, loop, stuck, watchdog, ghosts>>

(* Late: its wait had a limit that is beyond the watchdog's.               *)
TaskRecovers ==
  /\ pc = "running" /\ hung /\ hung' = FALSE
  /\ UNCHANGED <<ms, loop, stuck, watchdog, ghosts>>

InterruptsChange ==
  /\ pc # "reset" /\ stuck' = ~stuck
  /\ UNCHANGED <<ms, loop, hung, watchdog, ghosts>>

Boot ==
  /\ pc = "reset" /\ pc' = "pass"
  /\ ms' = 0 /\ last_run' = [i \in Tasks |-> 0] /\ now' = 0 /\ next' = 1
  /\ period' \in [Tasks -> AllPeriods] /\ \A i \in Tasks : period'[i] \in Periods[i]
  /\ hung' = FALSE /\ stuck' = FALSE
  /\ progressed' = FALSE /\ stall_ms' = 0 /\ tripped' = FALSE /\ wwdg' = 0
  /\ passAge' = 0 /\ lastPass' = 0 /\ age' = [i \in Tasks |-> 0]
  /\ tripAge' = 0 /\ blockedFor' = 0

Loop == StartPass \/ SkipTask \/ RunTask \/ TaskEnds
Next ==
  \/ StartPass \/ SkipTask \/ RunTask \/ TaskEnds \/ ReloadPeriods
  \/ SysTick \/ Blocked
  \/ TaskHangs \/ TaskRecovers \/ InterruptsChange \/ Boot

Spec == Init /\ [][Next]_vars

(* The processor goes on, and so does time.                                *)
Fairness == WF_vars(Loop) /\ WF_vars(SysTick \/ Blocked) /\ WF_vars(Boot)
FairSpec == Spec /\ Fairness

-----------------------------------------------------------------------------
(* A task runs only when its period has passed since the pass that ran it  *)
(* last, whatever task changes a period meanwhile.                         *)
NeverEarly ==
  [][pc = "task" /\ pc' = "running" => age[next] - passAge >= period[next]]_vars

(* A task is late by at most one pass: when a pass begins, every task's     *)
(* last run is less than a period and the pass before ago.                 *)
InTime ==
  \A i \in Tasks : \E p \in Periods[i] : age[i] - passAge < p + lastPass

(* The watchdog trips only on a pass as long as its limit, and resets only *)
(* then or without interrupts.                                             *)
NoFalseReset ==
  /\ tripped => tripAge >= StallLimit
  /\ pc = "reset" => tripped \/ blockedFor = WwdgTime

(* A task that hangs, and interrupts that are stuck, end in a reset.       *)
HangsEnd == []<>~hung /\ []<>~stuck

(* Every task runs again and again, across the wrap of the counter.        *)
TasksRun ==
  <>[](~hung /\ ~stuck) => \A i \in Tasks : []<>(pc = "running" /\ next = i)
=============================================================================
