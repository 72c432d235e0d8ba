------------------------------ MODULE TaskLoop ------------------------------
(***************************************************************************)
(* The main loop of the micro-controller (run_tasks of src/sched.c), the   *)
(* wake flags of its tasks, and how the timer interrupt leaves it time to  *)
(* run (timer_dispatch_many of src/generic/timer_irq.c).  The timers       *)
(* themselves are those of module Sched: here a dispatch may wake tasks    *)
(* and returns any next time.                                              *)
(***************************************************************************)
EXTENDS Integers

CONSTANTS
    NTasks,      \* tasks of the other modules; timer_task is task 0
    ClockMod,    \* 2^32
    Period,      \* timer_from_us(100000)
    IdleRepeat,  \* TIMER_IDLE_REPEAT_TICKS
    Repeat       \* TIMER_REPEAT_TICKS

Half == ClockMod \div 2
Tasks == 1..NTasks

ASSUME TaskLoopAssumption ==
    /\ {NTasks, Half, Period, IdleRepeat, Repeat} \subseteq Nat
    /\ ClockMod = 2 * Half
    /\ 0 < Repeat /\ Repeat <= IdleRepeat /\ 0 < Period
    /\ Period + 4 * (IdleRepeat + 2) < Half

VARIABLES
    now,                 \* timer_read_time()
    tasks_status, tasks_busy,
    wake,                \* struct task_wake of each task
    pc, task,            \* where run_tasks is, and in which task
    seen,                \* timer_task: the time it has read
    irq,                 \* where the timer interrupt is
    tru,                 \* timer_dispatch_many: its copy of timer_repeat_until
    timer_repeat_until,
    since_periodic,      \* ticks since periodic_event
    stepped,             \* the running code, main loop or interrupt, has made
                         \* a step in this tick
    held,                \* history: ticks of the interrupt while tasks waited
    shutdown_status,
    restarted            \* history: run_tasks was restarted by a shutdown

main == <<pc, task, seen>>
timer == <<irq, tru, timer_repeat_until>>
shut == <<shutdown_status, restarted>>
vars == <<now, tasks_status, tasks_busy, wake, main, timer, since_periodic,
          stepped, held, shut>>

IDLE == -1
REQUESTED == 0
RUNNING == 1

Clock == 0..ClockMod - 1
At(t) == t % ClockMod
timer_is_before(a, b) == At(a - b) >= Half

Init ==
    /\ now = 0 /\ timer_repeat_until = 0 /\ tru = 0 /\ seen = 0
    /\ tasks_status = REQUESTED /\ tasks_busy = REQUESTED
    /\ wake = [i \in Tasks |-> FALSE]
    /\ pc = "check" /\ task = 0 /\ irq = "out"
    /\ since_periodic = 0 /\ stepped = TRUE /\ held = 0
    /\ shutdown_status = 0 /\ restarted = FALSE

\* sched_wake_task for every task of a set; sched_wake_tasks for none.
WakeTasks(woken) ==
    /\ tasks_status' = REQUESTED
    /\ wake' = [i \in Tasks |-> wake[i] \/ i \in woken]

-----------------------------------------------------------------------------
(* run_tasks: one step for each point where an interrupt may come between *)

InMain == irq \in {"out", "left"}
MainRuns == InMain /\ stepped' = TRUE

Check ==
    /\ pc = "check" /\ MainRuns
    /\ pc' = IF tasks_status = REQUESTED THEN "start" ELSE "recheck"
    /\ UNCHANGED <<now, tasks_status, tasks_busy, wake, task, seen, timer,
                   since_periodic, held, shut>>

\* The second test is made with interrupts disabled.
SleepsUntested == TRUE
Sleeps == tasks_status # REQUESTED
Recheck ==
    /\ pc = "recheck" /\ MainRuns
    /\ IF Sleeps THEN pc' = "sleep" /\ tasks_status' = IDLE /\ tasks_busy' = IDLE
                 ELSE pc' = "start" /\ UNCHANGED <<tasks_status, tasks_busy>>
    /\ UNCHANGED <<now, wake, task, seen, timer, since_periodic, held,
                   shut>>

\* irq_wait returns after an interrupt.
Awake ==
    /\ pc = "sleep" /\ MainRuns
    /\ tasks_status = REQUESTED
    /\ pc' = "start"
    /\ UNCHANGED <<now, tasks_status, tasks_busy, wake, task, seen, timer,
                   since_periodic, held, shut>>

Start ==
    /\ pc = "start" /\ MainRuns
    /\ tasks_status' = RUNNING
    /\ pc' = "task" /\ task' = 0 /\ restarted' = FALSE
    /\ UNCHANGED <<now, tasks_busy, wake, seen, timer, since_periodic, held,
                   shutdown_status>>

\* A mutant: the last task is left out.
NextTaskOneShort == pc' = (IF task + 1 >= NTasks THEN "check" ELSE "task")
                    /\ task' = (IF task + 1 >= NTasks THEN 0 ELSE task + 1)
NextTask == pc' = (IF task = NTasks THEN "check" ELSE "task")
            /\ task' = (IF task = NTasks THEN 0 ELSE task + 1)

\* timer_task reads the time before it disables interrupts.
TimerTaskRead ==
    /\ pc = "task" /\ task = 0 /\ MainRuns
    /\ seen' = now /\ pc' = "timer_task"
    /\ UNCHANGED <<now, tasks_status, tasks_busy, wake, task, timer,
                   since_periodic, held, shut>>

CaughtUpNever == timer_repeat_until
CaughtUp == IF timer_is_before(timer_repeat_until, seen) THEN seen
            ELSE timer_repeat_until
TimerTask ==
    /\ pc = "timer_task" /\ MainRuns
    /\ timer_repeat_until' = CaughtUp
    /\ seen' = 0
    /\ NextTask
    /\ UNCHANGED <<now, tasks_status, tasks_busy, wake, irq, tru,
                   since_periodic, held, shut>>

\* sched_check_wake: the flag is read, and cleared before the task works.
TaskSkip ==
    /\ pc = "task" /\ task # 0 /\ MainRuns
    /\ ~wake[task]
    /\ NextTask
    /\ UNCHANGED <<now, tasks_status, tasks_busy, wake, seen, timer,
                   since_periodic, held, shut>>

TaskWoken ==
    /\ pc = "task" /\ task # 0 /\ MainRuns
    /\ wake[task]
    /\ pc' = "clear"
    /\ UNCHANGED <<now, tasks_status, tasks_busy, wake, task, seen, timer,
                   since_periodic, held, shut>>

TaskClear ==
    /\ pc = "clear" /\ MainRuns
    /\ wake' = [wake EXCEPT ![task] = FALSE]
    /\ pc' = "work"
    /\ UNCHANGED <<now, tasks_status, tasks_busy, task, seen, timer,
                   since_periodic, held, shut>>

\* The task works; what it does may wake tasks, and console_task may dispatch
\* clear_shutdown.
TaskWork(woken) ==
    /\ pc = "work" /\ MainRuns
    /\ shutdown_status' \in {0, shutdown_status}
    /\ IF woken = {} THEN UNCHANGED <<tasks_status, wake>> ELSE WakeTasks(woken)
    /\ NextTask
    /\ UNCHANGED <<now, tasks_busy, seen, timer, since_periodic, held,
                   restarted>>

\* shutdown() in a task or in a timer jumps back to sched_main, which kicks the
\* timer and starts run_tasks again.
Restart ==
    /\ pc' = "check" /\ task' = 0 /\ seen' = 0 /\ irq' = "out" /\ tru' = 0
    /\ shutdown_status' = 1 /\ restarted' = TRUE
    /\ stepped' = FALSE /\ held' = 0
    /\ UNCHANGED <<now, tasks_status, tasks_busy, wake, timer_repeat_until,
                   since_periodic>>

TaskShutdown == pc = "work" /\ InMain /\ Restart

-----------------------------------------------------------------------------
(* Interrupts *)

\* A receive or other interrupt wakes tasks.
OtherIrq(woken) ==
    /\ WakeTasks(woken)
    /\ UNCHANGED <<now, tasks_busy, main, timer, since_periodic, stepped, held,
                   shut>>

TimerIrq ==
    /\ irq = "out"
    /\ irq' = "dispatch" /\ tru' = timer_repeat_until
    /\ UNCHANGED <<now, tasks_status, tasks_busy, wake, main,
                   timer_repeat_until, since_periodic, stepped, held, shut>>

\* sched_timer_dispatch: a user timer that wakes tasks or none, or the
\* periodic timer.
Dispatch(woken, periodic) ==
    /\ irq = "dispatch"
    /\ IF woken = {} /\ ~periodic THEN UNCHANGED <<tasks_status, wake>>
                                  ELSE WakeTasks(woken)
    /\ periodic => since_periodic >= Period
    /\ since_periodic > Period => periodic
    /\ since_periodic' = IF periodic THEN 0 ELSE since_periodic
    /\ irq' = "decide" /\ stepped' = TRUE
    /\ UNCHANGED <<now, tasks_busy, main, tru, timer_repeat_until, held,
                   shut>>

\* The next timer is in the future.
DispatchReturn ==
    /\ irq = "decide"
    /\ since_periodic < Period
    /\ irq' = "left" /\ tru' = 0 /\ held' = 0 /\ stepped' = FALSE
    /\ UNCHANGED <<now, tasks_status, tasks_busy, wake, main,
                   timer_repeat_until, since_periodic, shut>>

\* The next timer is due: stay in the interrupt before tru; after it, give way
\* when sched_check_set_tasks_busy says that the tasks have not been idle.
Busy == tasks_busy >= REQUESTED
RepeatUntil(ticks) == At(now + ticks)
DispatchMore ==
    /\ irq = "decide"
    /\ IF ~timer_is_before(tru, now)
       THEN /\ irq' = "dispatch"
            /\ UNCHANGED <<tru, timer_repeat_until, tasks_busy, held, stepped>>
       ELSE IF Busy
       THEN /\ timer_repeat_until' = RepeatUntil(Repeat)
            /\ irq' = "left" /\ tru' = 0 /\ held' = 0 /\ stepped' = FALSE
            /\ UNCHANGED tasks_busy
       ELSE /\ tasks_busy' = tasks_status
            /\ timer_repeat_until' = RepeatUntil(IdleRepeat) /\ tru' = timer_repeat_until'
            /\ irq' = "dispatch"
            /\ UNCHANGED <<held, stepped>>
    /\ UNCHANGED <<now, tasks_status, wake, main, since_periodic, shut>>

\* "Rescheduled timer in the past", tested once tru has passed.
DispatchShutdown ==
    irq = "decide" /\ timer_is_before(tru, now) /\ shutdown_status = 0 /\ Restart

\* The clock.  Each round of the interrupt takes at most a tick, and so does a
\* pass over the tasks apart from the interrupts that break into it; the
\* interrupt comes again a tick or more after it was left, and the periodic
\* timer is at most two ticks late.
Tick ==
    /\ \/ ~InMain /\ stepped
       \/ InMain /\ pc = "check" /\ stepped
       \/ InMain /\ pc = "sleep" /\ tasks_status # REQUESTED
    /\ since_periodic <= Period + 1
    /\ now' = At(now + 1)
    /\ since_periodic' = since_periodic + 1
    /\ stepped' = FALSE
    /\ irq' = IF InMain THEN "out" ELSE irq
    /\ held' = IF ~InMain /\ tasks_status >= REQUESTED THEN held + 1 ELSE held
    /\ UNCHANGED <<tasks_status, tasks_busy, wake, main, tru, timer_repeat_until, shut>>

-----------------------------------------------------------------------------
MainStep ==
    \/ Check \/ Recheck \/ Awake \/ Start \/ TimerTaskRead \/ TimerTask
    \/ TaskSkip \/ TaskWoken \/ TaskClear
    \/ \E woken \in SUBSET Tasks : TaskWork(woken)

TimerStep ==
    \/ \E woken \in SUBSET Tasks : \E periodic \in BOOLEAN : Dispatch(woken, periodic)
    \/ DispatchReturn \/ DispatchMore \/ DispatchShutdown

Next ==
    \/ MainStep \/ TaskShutdown
    \/ \E woken \in SUBSET Tasks : OtherIrq(woken)
    \/ TimerIrq \/ TimerStep
    \/ Tick

Spec == Init /\ [][Next]_vars

\* The processor runs: the timer interrupt ends, and the main loop, which
\* NotStarved shows is let in again and again, takes its steps.
FairSpec == Spec /\ WF_vars(TimerStep) /\ SF_vars(MainStep) /\ WF_vars(Tick)
                 /\ WF_vars(TimerIrq /\ since_periodic >= Period)

-----------------------------------------------------------------------------
(* Properties *)

\* The variables have their types.
TypeOK ==
    /\ now \in Clock /\ tru \in Clock /\ timer_repeat_until \in Clock /\ seen \in Clock
    /\ tasks_status \in {IDLE, REQUESTED, RUNNING}
    /\ tasks_busy \in {IDLE, REQUESTED, RUNNING}
    /\ wake \in [Tasks -> BOOLEAN]
    /\ pc \in {"check", "recheck", "sleep", "start", "task", "timer_task", "clear", "work"}
    /\ task \in 0..NTasks
    /\ irq \in {"out", "dispatch", "decide", "left"}
    /\ since_periodic \in 0..Period + 2 /\ held \in Nat
    /\ shutdown_status \in {0, 1} /\ stepped \in BOOLEAN /\ restarted \in BOOLEAN

\* The processor does not sleep while a task is woken, except for the rest of
\* a pass over the tasks that a shutdown has cut short.
NoSleepOverWake ==
    /\ TypeOK
    /\ pc = "sleep" /\ tasks_status # REQUESTED /\ ~restarted =>
          \A i \in Tasks : ~wake[i]

\* The timer interrupt does not keep tasks that want to run waiting for more
\* than two repeat intervals, each overrun by one dispatch (at most two ticks
\* here), also when timers are always due and after the clock has wrapped
\* around timer_repeat_until.
NotStarved == held <= 2 * (IdleRepeat + 2)

\* A woken task runs, also after a shutdown: the periodic timer wakes the loop.
EveryWakeSeen == \A i \in Tasks : wake[i] ~> ~wake[i]
=============================================================================
