--------------------------- MODULE TaskLoopProofs ---------------------------
(***************************************************************************)
(* Proofs about the tasks of the firmware and its console.  TaskLoop, for  *)
(* every number of tasks, every period and every timing of the interrupts: *)
(* the processor never sleeps over a woken task, and the timer interrupt   *)
(* never keeps the tasks waiting for more than two repeat intervals,       *)
(* although its clock wraps around.  ConsoleTx: the bytes that             *)
(* console_sendf accepts reach the wire once each and in order, for every  *)
(* size of the transmit buffer and of the messages, wherever the transmit  *)
(* interrupt or a shutdown comes.                                          *)
(***************************************************************************)
EXTENDS TaskLoop, ConsoleTx, TLAPS

-----------------------------------------------------------------------------
(* TaskLoop: the woken tasks *)

InPass == {"task", "timer_task", "clear", "work"}

\* A task is woken only if tasks_status tells, or the pass over the tasks that
\* runs has still to come to it.
WakesAhead ==
    tasks_status # REQUESTED /\ ~restarted =>
        \A i \in Tasks : wake[i] => pc \in InPass /\ task <= i /\ (pc = "work" => task < i)

\* run_tasks starts a pass only on request.
StartsOnRequest == pc = "start" => tasks_status = REQUESTED

\* Where run_tasks is, as timer_task and sched_check_wake have it.
PlaceTrue ==
    /\ pc = "timer_task" => task = 0
    /\ pc \in {"clear", "work"} => task # 0

LoopInv == TypeOK /\ WakesAhead /\ StartsOnRequest /\ PlaceTrue

-----------------------------------------------------------------------------
LEMMA ClockClosed ==
    ASSUME NEW t \in Int
    PROVE  At(t) \in Clock
<1>1. ClockMod \in Nat /\ 0 < ClockMod
  BY TaskLoopAssumption, SMTT(30)
<1>2. t % ClockMod \in 0..ClockMod - 1  BY <1>1, Z3
<1>3. QED  BY <1>2, Zenon DEF At, Clock

LEMMA LoopConstants ==
    /\ NTasks \in Nat /\ Period \in Nat /\ IdleRepeat \in Nat /\ Repeat \in Nat
    /\ 0 \in Clock /\ Clock \subseteq Int /\ Tasks = 1..NTasks
    /\ 0 \in 0..NTasks /\ 0 \in Nat /\ 0 \in 0..Period + 2
<1>1. ClockMod \in Nat /\ 0 < ClockMod  BY TaskLoopAssumption, SMTT(30)
<1>2. QED  BY <1>1, TaskLoopAssumption, SMTT(30) DEF Clock, Tasks

LEMMA LoopInitInv == Init => LoopInv
<1> SUFFICES ASSUME Init PROVE LoopInv  BY Zenon
<1>1. TypeOK  BY LoopConstants, ZenonT(30) DEF Init, TypeOK
<1>2. WakesAhead /\ StartsOnRequest /\ PlaceTrue
  BY ZenonT(30) DEF Init, WakesAhead, StartsOnRequest, PlaceTrue
<1>3. QED  BY <1>1, <1>2, Zenon DEF LoopInv

\* A shutdown leaves the pass over the tasks, and says so.
LEMMA RestartKeeps ==
    ASSUME LoopInv, Restart
    PROVE  LoopInv'
<1>1. TypeOK'  BY LoopConstants, ZenonT(30) DEF LoopInv, TypeOK, Restart
<1>2. WakesAhead' /\ StartsOnRequest' /\ PlaceTrue'
  BY ZenonT(30) DEF Restart, WakesAhead, StartsOnRequest, PlaceTrue
<1>3. QED  BY <1>1, <1>2, Zenon DEF LoopInv

\* An interrupt that wakes tasks requests a pass.
LEMMA WakeKeeps ==
    ASSUME LoopInv, NEW woken \in SUBSET Tasks, WakeTasks(woken), pc' = pc, task' = task
    PROVE  /\ WakesAhead' /\ StartsOnRequest' /\ PlaceTrue'
           /\ tasks_status' = REQUESTED /\ wake' \in [Tasks -> BOOLEAN]
<1>1. tasks_status' = REQUESTED  BY Zenon DEF WakeTasks
<1>2. wake' \in [Tasks -> BOOLEAN]  BY Zenon DEF WakeTasks
<1>3. QED  BY <1>1, <1>2, Zenon DEF WakesAhead, StartsOnRequest, PlaceTrue, LoopInv

\* The next task of the pass, or its end.
LEMMA NextTaskKeeps ==
    ASSUME LoopInv, NextTask, pc \in InPass,
           \/ tasks_status' = REQUESTED
           \/ /\ UNCHANGED <<tasks_status, wake, restarted>>
              /\ task # 0 => ~wake[task] \/ pc = "work"
    PROVE  /\ WakesAhead' /\ StartsOnRequest' /\ PlaceTrue'
           /\ pc' \in {"check", "task"} /\ task' \in 0..NTasks
<1>1. task \in 0..NTasks /\ NTasks \in Nat /\ Tasks = 1..NTasks
  BY LoopConstants, Zenon DEF LoopInv, TypeOK
<1>2. pc' \in {"check", "task"} /\ task' \in 0..NTasks
  BY <1>1, SMTT(30) DEF NextTask
<1>3. StartsOnRequest' /\ PlaceTrue'  BY <1>2, Zenon DEF StartsOnRequest, PlaceTrue
<1>4. CASE tasks_status' = REQUESTED  BY <1>2, <1>3, <1>4, Zenon DEF WakesAhead
<1>5. CASE /\ UNCHANGED <<tasks_status, wake, restarted>>
           /\ task # 0 => ~wake[task] \/ pc = "work"
  <2> SUFFICES ASSUME tasks_status # REQUESTED, ~restarted, NEW i \in Tasks, wake[i]
               PROVE  pc' \in InPass /\ task' <= i /\ (pc' = "work" => task' < i)
    BY <1>2, <1>3, <1>5, Zenon DEF WakesAhead
  <2>1. task <= i /\ (pc = "work" => task < i)  BY Zenon DEF LoopInv, WakesAhead
  <2>2. task < i
    <3>1. task # i
      <4>1. CASE task = 0  BY <1>1, <4>1, SMTT(30)
      <4>2. CASE task # 0 /\ pc = "work"  BY <1>1, <2>1, <4>2, SMTT(30)
      <4>3. CASE task # 0 /\ ~wake[task]  BY <4>3, Zenon
      <4>4. QED  BY <1>5, <4>1, <4>2, <4>3, Zenon
    <3>2. QED  BY <1>1, <2>1, <3>1, SMTT(30)
  <2>3. task # NTasks  BY <1>1, <2>2, SMTT(30)
  <2>4. pc' = "task" /\ task' = task + 1  BY <2>3, Zenon DEF NextTask
  <2>5. QED  BY <1>1, <2>2, <2>4, SMTT(30) DEF InPass
<1>6. QED  BY <1>4, <1>5, Zenon

LEMMA MainKeeps ==
    ASSUME LoopInv, MainStep
    PROVE  LoopInv'
<1>0. stepped' = TRUE
  BY ZenonT(30) DEF MainStep, MainRuns, Check, Recheck, Awake, Start, TimerTaskRead, TimerTask,
                    TaskSkip, TaskWoken, TaskClear, TaskWork
<1>1. CASE Check \/ Awake \/ TaskWoken
  <2>1. TypeOK'
    BY <1>0, <1>1, SMTT(30) DEF Check, Awake, TaskWoken, LoopInv, TypeOK, timer, shut
  <2>2. WakesAhead'
    BY <1>1, ZenonT(30) DEF Check, Awake, TaskWoken, LoopInv, WakesAhead, InPass, shut
  <2>3. StartsOnRequest' /\ PlaceTrue'
    BY <1>1, ZenonT(30) DEF Check, Awake, TaskWoken, LoopInv, StartsOnRequest, PlaceTrue
  <2>4. QED  BY <2>1, <2>2, <2>3, Zenon DEF LoopInv
<1>2. CASE Recheck
  <2>1. TypeOK'
    <3>1. /\ tasks_status' \in {IDLE, REQUESTED, RUNNING} /\ (pc' = "sleep" \/ pc' = "start")
          /\ tasks_busy' \in {IDLE, REQUESTED, RUNNING}
      BY <1>2, ZenonT(30) DEF Recheck, LoopInv, TypeOK
    <3>2. UNCHANGED <<now, wake, task, seen, timer, since_periodic, held, shut>>
      BY <1>2, Zenon DEF Recheck
    <3>3. QED  BY <1>0, <3>1, <3>2, ZenonT(30) DEF LoopInv, TypeOK, timer, shut
  <2>2. WakesAhead'
    BY <1>2, ZenonT(30) DEF Recheck, Sleeps, LoopInv, WakesAhead, InPass, shut
  <2>3. StartsOnRequest' /\ PlaceTrue'
    BY <1>2, ZenonT(30) DEF Recheck, Sleeps, StartsOnRequest, PlaceTrue
  <2>4. QED  BY <2>1, <2>2, <2>3, Zenon DEF LoopInv
<1>3. CASE Start
  <2>1. TypeOK'  BY <1>0, <1>3, LoopConstants, ZenonT(30) DEF Start, LoopInv, TypeOK, timer
  <2>2. WakesAhead'
    <3>1. \A i \in Tasks : 0 <= i  BY LoopConstants, SMTT(30)
    <3>2. QED  BY <1>3, <3>1, ZenonT(30) DEF Start, WakesAhead, InPass
  <2>3. StartsOnRequest' /\ PlaceTrue'
    BY <1>3, ZenonT(30) DEF Start, StartsOnRequest, PlaceTrue
  <2>4. QED  BY <2>1, <2>2, <2>3, Zenon DEF LoopInv
<1>4. CASE TimerTaskRead
  <2>1. TypeOK'  BY <1>0, <1>4, Zenon DEF TimerTaskRead, LoopInv, TypeOK, timer, shut
  <2>2. WakesAhead'
    BY <1>4, ZenonT(30) DEF TimerTaskRead, LoopInv, WakesAhead, InPass, shut
  <2>3. StartsOnRequest' /\ PlaceTrue'
    BY <1>4, ZenonT(30) DEF TimerTaskRead, StartsOnRequest, PlaceTrue
  <2>4. QED  BY <2>1, <2>2, <2>3, Zenon DEF LoopInv
<1>5. CASE TimerTask
  <2>1. /\ WakesAhead' /\ StartsOnRequest' /\ PlaceTrue'
        /\ pc' \in {"check", "task"} /\ task' \in 0..NTasks
    BY <1>5, NextTaskKeeps, Zenon DEF TimerTask, LoopInv, PlaceTrue, InPass, shut
  <2>2. timer_repeat_until' \in Clock
    BY <1>5, ZenonT(30) DEF TimerTask, CaughtUp, LoopInv, TypeOK
  <2>3. TypeOK'
    BY <1>0, <1>5, <2>1, <2>2, LoopConstants, Zenon DEF TimerTask, LoopInv, TypeOK, shut
  <2>4. QED  BY <2>1, <2>3, Zenon DEF LoopInv
<1>6. CASE TaskSkip
  <2>1. /\ WakesAhead' /\ StartsOnRequest' /\ PlaceTrue'
        /\ pc' \in {"check", "task"} /\ task' \in 0..NTasks
    BY <1>6, NextTaskKeeps, Zenon DEF TaskSkip, InPass, shut
  <2>2. TypeOK'  BY <1>0, <1>6, <2>1, Zenon DEF TaskSkip, LoopInv, TypeOK, timer, shut
  <2>3. QED  BY <2>1, <2>2, Zenon DEF LoopInv
<1>7. CASE TaskClear
  <2>1. task \in Tasks /\ wake \in [Tasks -> BOOLEAN]
    BY <1>7, LoopConstants, SMTT(30) DEF TaskClear, LoopInv, TypeOK, PlaceTrue
  <2>2. wake' \in [Tasks -> BOOLEAN] /\ ~wake'[task] /\ \A i \in Tasks : wake'[i] => wake[i]
    BY <1>7, <2>1, ZenonT(30) DEF TaskClear
  <2>3. TypeOK'  BY <1>0, <1>7, <2>2, Zenon DEF TaskClear, LoopInv, TypeOK, timer, shut
  <2>4. ASSUME NEW i \in Tasks, wake'[i], task <= i PROVE task < i
    BY <2>1, <2>2, <2>4, LoopConstants, SMTT(30)
  <2>5. WakesAhead'
    BY <1>7, <2>2, <2>4, ZenonT(30) DEF TaskClear, LoopInv, WakesAhead, InPass, shut
  <2>6. StartsOnRequest' /\ PlaceTrue'
    BY <1>7, ZenonT(30) DEF TaskClear, LoopInv, StartsOnRequest, PlaceTrue
  <2>7. QED  BY <2>3, <2>5, <2>6, Zenon DEF LoopInv
<1>8. CASE \E woken \in SUBSET Tasks : TaskWork(woken)
  <2>1. PICK woken \in SUBSET Tasks : TaskWork(woken)  BY <1>8, Zenon
  <2>2. \/ UNCHANGED <<tasks_status, wake, restarted>>
        \/ tasks_status' = REQUESTED /\ WakeTasks(woken)
    BY <2>1, ZenonT(30) DEF TaskWork, WakeTasks
  <2>3. /\ WakesAhead' /\ StartsOnRequest' /\ PlaceTrue'
        /\ pc' \in {"check", "task"} /\ task' \in 0..NTasks
    BY <2>1, <2>2, NextTaskKeeps, Zenon DEF TaskWork, InPass
  <2>4. tasks_status' \in {IDLE, REQUESTED, RUNNING} /\ wake' \in [Tasks -> BOOLEAN]
    BY <2>2, ZenonT(30) DEF LoopInv, TypeOK, WakeTasks
  <2>5. TypeOK'
    BY <1>0, <2>1, <2>3, <2>4, Zenon DEF TaskWork, LoopInv, TypeOK, timer
  <2>6. QED  BY <2>3, <2>5, Zenon DEF LoopInv
<1>9. QED  BY <1>1, <1>2, <1>3, <1>4, <1>5, <1>6, <1>7, <1>8, Zenon DEF MainStep

LEMMA InterruptKeeps ==
    ASSUME LoopInv,
           \/ \E woken \in SUBSET Tasks : OtherIrq(woken)
           \/ TimerIrq
           \/ \E woken \in SUBSET Tasks : \E periodic \in BOOLEAN : Dispatch(woken, periodic)
           \/ DispatchReturn \/ DispatchMore \/ Tick
    PROVE  LoopInv'
<1>1. CASE \E woken \in SUBSET Tasks : OtherIrq(woken)
  <2>1. PICK woken \in SUBSET Tasks : OtherIrq(woken)  BY <1>1, Zenon
  <2>2. /\ WakesAhead' /\ StartsOnRequest' /\ PlaceTrue'
        /\ tasks_status' = REQUESTED /\ wake' \in [Tasks -> BOOLEAN]
    BY <2>1, WakeKeeps, Zenon DEF OtherIrq, main
  <2>3. TypeOK'  BY <2>1, <2>2, ZenonT(30) DEF OtherIrq, LoopInv, TypeOK, main, timer, shut
  <2>4. QED  BY <2>2, <2>3, Zenon DEF LoopInv
<1>2. CASE \E woken \in SUBSET Tasks : \E periodic \in BOOLEAN : Dispatch(woken, periodic)
  <2>1. PICK woken \in SUBSET Tasks, periodic \in BOOLEAN : Dispatch(woken, periodic)  BY <1>2, Zenon
  <2>2. /\ since_periodic' \in 0..Period + 2
        /\ irq' \in {"out", "dispatch", "decide", "left"} /\ stepped' \in BOOLEAN
    BY <2>1, LoopConstants, ZenonT(30) DEF Dispatch, LoopInv, TypeOK
  <2>3. CASE UNCHANGED <<tasks_status, wake>>
    <3>1. TypeOK'  BY <2>1, <2>2, <2>3, ZenonT(30) DEF Dispatch, LoopInv, TypeOK, main, shut
    <3>2. WakesAhead' /\ StartsOnRequest' /\ PlaceTrue'
      BY <2>1, <2>3, ZenonT(30)
         DEF Dispatch, LoopInv, WakesAhead, StartsOnRequest, PlaceTrue, main, shut
    <3>3. QED  BY <3>1, <3>2, Zenon DEF LoopInv
  <2>4. CASE WakeTasks(woken)
    <3>1. /\ WakesAhead' /\ StartsOnRequest' /\ PlaceTrue'
          /\ tasks_status' = REQUESTED /\ wake' \in [Tasks -> BOOLEAN]
      BY <2>1, <2>4, WakeKeeps, Zenon DEF Dispatch, main
    <3>2. TypeOK'  BY <2>1, <2>2, <3>1, ZenonT(30) DEF Dispatch, LoopInv, TypeOK, main, shut
    <3>3. QED  BY <3>1, <3>2, Zenon DEF LoopInv
  <2>5. QED  BY <2>1, <2>3, <2>4, Zenon DEF Dispatch
<1>3. CASE TimerIrq \/ DispatchReturn \/ DispatchMore \/ Tick
  <2>1. UNCHANGED <<tasks_status, wake, main, shut>>
    BY <1>3, ZenonT(30) DEF TimerIrq, DispatchReturn, DispatchMore, Tick
  <2>2. WakesAhead' /\ StartsOnRequest' /\ PlaceTrue'
    BY <2>1, ZenonT(30) DEF LoopInv, WakesAhead, StartsOnRequest, PlaceTrue, main, shut
  <2>3. TypeOK'
    <3>1. CASE TimerIrq
      BY <3>1, ZenonT(30) DEF TimerIrq, LoopInv, TypeOK, main, shut
    <3>2. CASE DispatchReturn
      BY <3>2, LoopConstants, ZenonT(30) DEF DispatchReturn, LoopInv, TypeOK, main, shut
    <3>3. CASE DispatchMore
      <4>1. \A ticks \in Nat : RepeatUntil(ticks) \in Clock
        BY LoopConstants, ClockClosed, SMTT(30) DEF RepeatUntil, LoopInv, TypeOK
      <4>2. /\ tru' \in Clock /\ timer_repeat_until' \in Clock
            /\ tasks_busy' \in {IDLE, REQUESTED, RUNNING}
            /\ irq' \in {"out", "dispatch", "decide", "left"}
            /\ held' \in Nat /\ stepped' \in BOOLEAN
        BY <3>3, <4>1, LoopConstants, ZenonT(30) DEF DispatchMore, LoopInv, TypeOK
      <4>3. QED  BY <3>3, <4>2, ZenonT(30) DEF DispatchMore, LoopInv, TypeOK, main, shut
    <3>4. CASE Tick
      <4>1. now' \in Clock
        <5>1. now + 1 \in Int  BY LoopConstants, SMTT(30) DEF LoopInv, TypeOK
        <5>2. QED  BY <3>4, <5>1, ClockClosed, Zenon DEF Tick
      <4>2. since_periodic' \in 0..Period + 2
        BY <3>4, LoopConstants, SMTT(30) DEF Tick, LoopInv, TypeOK
      <4>3. held' \in Nat
        <5>1. held + 1 \in Nat /\ held \in Nat  BY SMTT(30) DEF LoopInv, TypeOK
        <5>2. QED  BY <3>4, <5>1, ZenonT(30) DEF Tick
      <4>4. irq' \in {"out", "dispatch", "decide", "left"} /\ stepped' \in BOOLEAN
        BY <3>4, ZenonT(30) DEF Tick, LoopInv, TypeOK
      <4>5. QED
        BY <3>4, <4>1, <4>2, <4>3, <4>4, ZenonT(30) DEF Tick, LoopInv, TypeOK, main, shut
    <3>5. QED  BY <1>3, <3>1, <3>2, <3>3, <3>4, Zenon
  <2>4. QED  BY <2>2, <2>3, Zenon DEF LoopInv
<1>4. QED  BY <1>1, <1>2, <1>3, Zenon

LEMMA LoopNextInv == LoopInv /\ [Next]_vars => LoopInv'
<1> SUFFICES ASSUME LoopInv, [Next]_vars PROVE LoopInv'  BY Zenon
<1>1. CASE MainStep  BY <1>1, MainKeeps, Zenon
<1>2. CASE TaskShutdown \/ DispatchShutdown
  BY <1>2, RestartKeeps, Zenon DEF TaskShutdown, DispatchShutdown
<1>3. CASE \/ \E woken \in SUBSET Tasks : OtherIrq(woken)
           \/ TimerIrq
           \/ \E woken \in SUBSET Tasks : \E periodic \in BOOLEAN : Dispatch(woken, periodic)
           \/ DispatchReturn \/ DispatchMore \/ Tick
  BY <1>3, InterruptKeeps, Zenon
<1>4. CASE UNCHANGED vars
  <2>1. TypeOK'  BY <1>4, ZenonT(60) DEF vars, main, timer, shut, LoopInv, TypeOK
  <2>2. WakesAhead'  BY <1>4, ZenonT(30) DEF vars, main, timer, shut, LoopInv, WakesAhead
  <2>3. StartsOnRequest' /\ PlaceTrue'
    BY <1>4, ZenonT(30) DEF vars, main, timer, shut, LoopInv, StartsOnRequest, PlaceTrue
  <2>4. QED  BY <2>1, <2>2, <2>3, Zenon DEF LoopInv
<1>5. QED  BY <1>1, <1>2, <1>3, <1>4, Zenon DEF Next, TimerStep

\* run_tasks, sched_wake_task, sched_check_wake: with any number of tasks and whatever
\* interrupts come between its steps, the processor goes to sleep only when no task
\* is woken, or a shutdown has cut the pass short.
THEOREM NeverSleepsOverWake == Spec => []NoSleepOverWake
<1>1. LoopInv => NoSleepOverWake
  BY ZenonT(30) DEF LoopInv, WakesAhead, NoSleepOverWake, InPass
<1>2. QED  BY <1>1, LoopInitInv, LoopNextInv, PTL DEF Spec

-----------------------------------------------------------------------------
(* The clock *)

LEMMA ClockHalf ==
    /\ ClockMod \in Nat /\ Half \in Nat /\ ClockMod = 2 * Half /\ 0 < Half
    /\ IdleRepeat \in Nat /\ Repeat \in Nat /\ Period \in Nat
    /\ Repeat <= IdleRepeat /\ 0 < Repeat
    /\ Period + 4 * IdleRepeat + 8 < Half
<1>1. {NTasks, Half, Period, IdleRepeat, Repeat} \subseteq Nat  BY TaskLoopAssumption, Zenon
<1>2. Half \in Nat /\ Period \in Nat /\ IdleRepeat \in Nat /\ Repeat \in Nat  BY <1>1, Zenon
<1> HIDE DEF Half
<1>3. ClockMod = 2 * Half /\ 0 < Repeat /\ Repeat <= IdleRepeat /\ Period + 4 * (IdleRepeat + 2) < Half
  BY TaskLoopAssumption, Zenon
<1>4. QED  BY <1>2, <1>3

LEMMA Residue ==
    ASSUME NEW x \in Int
    PROVE  \E q \in Int : x = ClockMod * q + At(x) /\ At(x) \in 0..ClockMod - 1
<1>1. ClockMod \in Nat /\ 0 < ClockMod  BY ClockHalf
<1>2. \A n \in Nat : 0 < n => \E q \in Int : x = n * q + (x % n) /\ x % n \in 0..n - 1  BY Z3
<1>3. QED  BY <1>1, <1>2, Zenon DEF At

LEMMA AtUnique ==
    ASSUME NEW x \in Int, NEW y \in 0..ClockMod - 1, NEW q \in Int, x = ClockMod * q + y
    PROVE  At(x) = y
<1>1. ClockMod \in Nat /\ 0 < ClockMod  BY ClockHalf
<1>2. PICK r \in Int : x = ClockMod * r + At(x) /\ At(x) \in 0..ClockMod - 1  BY Residue, Zenon
<1>3. At(x) - y = ClockMod * (q - r) /\ y - At(x) = ClockMod * (r - q)  BY <1>1, <1>2
<1>4. \A d \in Int, n \in Nat : 0 < d => n <= n * d  BY Z3
<1>5. ~(q - r > 0) /\ ~(r - q > 0)
  <2>1. q - r \in Int /\ r - q \in Int  OBVIOUS
  <2>2. q - r > 0 => ClockMod <= ClockMod * (q - r)  BY <1>1, <1>4, <2>1, Zenon
  <2>3. r - q > 0 => ClockMod <= ClockMod * (r - q)  BY <1>1, <1>4, <2>1, Zenon
  <2> DEFINE u == ClockMod * (q - r)
             v == ClockMod * (r - q)
  <2>4. At(x) - y < ClockMod /\ y - At(x) < ClockMod  BY <1>1, <1>2
  <2>5. u \in Int /\ v \in Int  BY <1>1
  <2> HIDE DEF u, v
  <2>6. At(x) - y = u /\ y - At(x) = v /\ (q - r > 0 => ClockMod <= u) /\ (r - q > 0 => ClockMod <= v)
    BY <1>3, <2>2, <2>3, Zenon DEF u, v
  <2>7. QED  BY <1>1, <1>2, <2>4, <2>5, <2>6
<1>6. q = r  BY <1>5
<1>7. QED  BY <1>1, <1>2, <1>6

\* The clock reads the same after a whole turn.
LEMMA AtTurns ==
    ASSUME NEW x \in Int, NEW y \in Int, NEW q \in Int, x = y + ClockMod * q
    PROVE  At(x) = At(y)
<1>1. ClockMod \in Nat  BY ClockHalf, Zenon
<1>2. PICK r \in Int : y = ClockMod * r + At(y) /\ At(y) \in 0..ClockMod - 1  BY Residue, Zenon
<1>3. x = ClockMod * (r + q) + At(y)  BY <1>1, <1>2
<1>4. r + q \in Int  OBVIOUS
<1>5. QED  BY <1>2, <1>3, <1>4, AtUnique, Zenon

LEMMA AtSum ==
    ASSUME NEW x \in Int, NEW y \in Int
    PROVE  At(At(x) + y) = At(x + y)
<1>1. ClockMod \in Nat  BY ClockHalf, Zenon
<1>2. PICK q \in Int : x = ClockMod * q + At(x) /\ At(x) \in 0..ClockMod - 1  BY Residue, Zenon
<1>3. At(x) \in Int /\ At(x) + y \in Int /\ x + y \in Int  BY <1>1, <1>2
<1>4. x + y = (At(x) + y) + ClockMod * q  BY <1>1, <1>2, <1>3
<1>5. QED  BY <1>3, <1>4, AtTurns, Zenon

LEMMA AtDifference ==
    ASSUME NEW x \in Int, NEW y \in Int
    PROVE  At(At(x) - At(y)) = At(x - y)
<1>1. ClockMod \in Nat  BY ClockHalf, Zenon
<1>2. PICK q \in Int : y = ClockMod * q + At(y) /\ At(y) \in 0..ClockMod - 1  BY Residue, Zenon
<1>3. At(y) \in Int /\ At(x) \in Int  BY <1>1, <1>2, ClockClosed DEF Clock
<1>4. At(At(x) + (-At(y))) = At(x + (-At(y)))  BY <1>3, AtSum
<1>5. x + (-At(y)) = (x - y) + ClockMod * q  BY <1>1, <1>2, <1>3
<1>6. At(x + (-At(y))) = At(x - y)  BY <1>3, <1>5, AtTurns
<1>7. At(x) - At(y) = At(x) + (-At(y))  BY <1>3, Zenon
<1>8. QED  BY <1>4, <1>6, <1>7, Zenon

\* timer_is_before tells the order of two times less than half a turn apart.
LEMMA BeforeIsOlder ==
    ASSUME NEW t \in Int, NEW a \in Int, NEW b \in Int, a - b <= Half, b - a < Half
    PROVE  timer_is_before(At(t - a), At(t - b)) <=> b < a
<1>1. At(At(t - a) - At(t - b)) = At(b - a)
  <2>1. t - a \in Int /\ t - b \in Int /\ (t - a) - (t - b) = b - a  OBVIOUS
  <2>2. At(At(t - a) - At(t - b)) = At((t - a) - (t - b))  BY <2>1, AtDifference, Zenon
  <2>3. QED  BY <2>1, <2>2, Zenon
<1>2. CASE b < a
  <2>1. ClockMod + (b - a) \in 0..ClockMod - 1 /\ ClockMod + (b - a) >= Half /\ b - a \in Int
    BY <1>2, ClockHalf
  <2>2. b - a = ClockMod * (-1) + (ClockMod + (b - a))  BY ClockHalf
  <2>3. At(b - a) = ClockMod + (b - a)  BY <2>1, <2>2, AtUnique
  <2>4. QED  BY <1>1, <1>2, <2>1, <2>3, Zenon DEF timer_is_before
<1>3. CASE ~(b < a)
  <2>1. b - a \in 0..ClockMod - 1 /\ ~(b - a >= Half) /\ b - a \in Int  BY <1>3, ClockHalf
  <2>2. b - a = ClockMod * 0 + (b - a)  BY ClockHalf
  <2>3. At(b - a) = b - a  BY <2>1, <2>2, AtUnique
  <2>4. QED  BY <1>1, <1>3, <2>1, <2>3, Zenon DEF timer_is_before
<1>4. QED  BY <1>2, <1>3, Zenon

LEMMA NowIsNow ==
    ASSUME NEW t \in Clock
    PROVE  At(t - 0) = t
<1>1. t \in 0..ClockMod - 1 /\ t \in Int /\ t - 0 \in Int  BY ClockHalf DEF Clock
<1>2. t - 0 = ClockMod * 0 + t  BY <1>1, ClockHalf
<1>3. QED  BY <1>1, <1>2, AtUnique

\* A time grows older with every tick.
LEMMA OlderByTick ==
    ASSUME NEW t \in Int, NEW a \in Int
    PROVE  At(At(t + 1) - (a + 1)) = At(t - a)
<1>1. t + 1 \in Int /\ -(a + 1) \in Int /\ (t + 1) + (-(a + 1)) = t - a  OBVIOUS
<1>2. At(At(t + 1) + (-(a + 1))) = At((t + 1) + (-(a + 1)))  BY <1>1, AtSum, Zenon
<1>3. At(t + 1) \in Int  BY <1>1, ClockClosed, ClockHalf DEF Clock
<1>4. At(t + 1) - (a + 1) = At(t + 1) + (-(a + 1))  BY <1>3, Zenon
<1>5. QED  BY <1>1, <1>2, <1>4, Zenon

-----------------------------------------------------------------------------
(* How old timer_repeat_until may be.  Were it older than half a turn of the *)
(* clock, the interrupt would take it for a time to come.                    *)

\* Where run_tasks is: before timer_task has caught up in a pass, or after it
BeforeCatch == pc = "timer_task" \/ (pc = "task" /\ task = 0)
AfterCatch == pc \in {"clear", "work"} \/ (pc = "task" /\ task # 0)
Expecting == tasks_status = REQUESTED \/ BeforeCatch

\* The ticks since the interrupt was entered, or since it last found tru to come
Overrun == IF irq = "out" THEN 0 ELSE IF irq = "left" THEN 2
           ELSE IF irq = "dispatch" THEN (IF stepped THEN 0 ELSE 1)
           ELSE (IF stepped THEN 1 ELSE 2)

\* timer_repeat_until is a ticks old: no older than the last periodic event, and
\* while timer_task is expected, by a few ticks older than its period.
AgeBounded(a) ==
    /\ -IdleRepeat <= a
    /\ ~Expecting => a <= since_periodic + 2
    /\ shutdown_status = 0 /\ irq = "out" => a <= since_periodic + 2
    /\ shutdown_status = 0 /\ ~InMain /\ tasks_status = RUNNING /\ BeforeCatch =>
          a <= since_periodic + 2
    /\ Expecting => a <= Period + 4 + 2 * shutdown_status + Overrun
    /\ AfterCatch => a <= Overrun
    /\ InMain /\ pc = "check" /\ stepped => a <= Overrun

\* The time timer_task has read is b ticks old.
SeenBounded(a, b) == pc = "timer_task" =>
    /\ 0 <= b /\ (a <= Overrun \/ b <= Overrun)
    /\ ~InMain => b <= held
    /\ irq = "out" => b = 0
    /\ irq = "left" => b <= 2 * (IdleRepeat + 2)

\* The interrupt keeps the tasks for what is left of tru, and once more.
Extended == IF tasks_busy >= REQUESTED THEN IdleRepeat + 2 ELSE 0
HeldBounded(a) ==
    /\ InMain => held = 0
    /\ ~InMain => /\ tru = timer_repeat_until
                  /\ held # 0 => tasks_status # IDLE
                  /\ a <= Overrun => held <= Extended + IdleRepeat + a
                  /\ Overrun < a => held <= Overrun

Timed(a, b) ==
    /\ timer_repeat_until = At(now - a) /\ (pc = "timer_task" => seen = At(now - b))
    /\ AgeBounded(a) /\ SeenBounded(a, b) /\ HeldBounded(a)

PassRuns == BeforeCatch => tasks_status # IDLE

LEMMA TimedFacts ==
    ASSUME LoopInv, NEW a \in Int, NEW b \in Int, Timed(a, b)
    PROVE  /\ a <= Half /\ -IdleRepeat <= a /\ -Half < a
           /\ Overrun \in 0..2 /\ Extended \in 0..IdleRepeat + 2
           /\ held <= 2 * (IdleRepeat + 2)
<1>1. Overrun \in 0..2  BY DEF LoopInv, TypeOK, Overrun
<1>2. Extended \in 0..IdleRepeat + 2  BY ClockHalf DEF Extended
<1>3. shutdown_status \in {0, 1} /\ since_periodic \in 0..Period + 2  BY Zenon DEF LoopInv, TypeOK
<1> HIDE DEF Overrun, Extended
<1>4. a <= Half /\ -IdleRepeat <= a /\ -Half < a
  BY <1>1, <1>3, ClockHalf DEF Timed, AgeBounded
<1>5. held <= 2 * (IdleRepeat + 2)
  BY <1>1, <1>2, <1>4, ClockHalf DEF Timed, HeldBounded, LoopInv, TypeOK
<1>6. QED  BY <1>1, <1>2, <1>4, <1>5, Zenon

LEMMA NextTaskPlace ==
    ASSUME LoopInv, NextTask
    PROVE  (pc' = "check" \/ (pc' = "task" /\ task' # 0))
BY LoopConstants DEF LoopInv, TypeOK, NextTask

\* A step of run_tasks takes no time, and comes with the interrupt left or out.
LEMMA MainTimed ==
    ASSUME LoopInv, PassRuns, NEW a \in Int, NEW b \in Int, Timed(a, b),
           \/ Check \/ Recheck \/ Awake \/ Start \/ TaskSkip \/ TaskWoken \/ TaskClear
           \/ \E woken \in SUBSET Tasks : TaskWork(woken)
    PROVE  PassRuns' /\ Timed(a, b)'
<1>1. LoopInv /\ shutdown_status \in {0, 1} /\ since_periodic \in Nat /\ stepped \in BOOLEAN
  BY LoopConstants DEF LoopInv, TypeOK
<1>2. CASE Check
  <2>1. PassRuns'  BY <1>2, Zenon DEF Check, PassRuns, BeforeCatch, LoopInv, StartsOnRequest, REQUESTED, RUNNING, IDLE
  <2>2. AgeBounded(a)'
    BY <1>1, <1>2, ClockHalf, Zenon DEF Check, MainRuns, InMain, Timed, AgeBounded, Expecting, BeforeCatch,
       AfterCatch, Overrun, LoopInv, StartsOnRequest, REQUESTED, RUNNING, IDLE, timer, shut
  <2>3. SeenBounded(a, b)' /\ HeldBounded(a)' /\ timer_repeat_until' = At(now - a)' /\ (pc = "timer_task" => seen = At(now - b))'
    BY <1>1, <1>2, ClockHalf, Zenon DEF Check, MainRuns, InMain, Timed, SeenBounded, HeldBounded, Overrun, Extended, timer
  <2>4. QED  BY <2>1, <2>2, <2>3, Zenon DEF Timed
<1>3. CASE Recheck
  <2>1. PassRuns'  BY <1>3, Zenon DEF Recheck, Sleeps, PassRuns, BeforeCatch, LoopInv, StartsOnRequest, REQUESTED, RUNNING, IDLE
  <2>2. AgeBounded(a)'
    BY <1>1, <1>3, ClockHalf DEF Recheck, Sleeps, MainRuns, InMain, Timed, AgeBounded, Expecting, BeforeCatch,
       AfterCatch, Overrun, LoopInv, StartsOnRequest, REQUESTED, RUNNING, IDLE, timer, shut
  <2>3. SeenBounded(a, b)' /\ HeldBounded(a)' /\ timer_repeat_until' = At(now - a)' /\ (pc = "timer_task" => seen = At(now - b))'
    BY <1>1, <1>3, ClockHalf, Zenon DEF Recheck, Sleeps, MainRuns, InMain, Timed, SeenBounded, HeldBounded, Overrun, Extended, timer
  <2>4. QED  BY <2>1, <2>2, <2>3, Zenon DEF Timed
<1>4. CASE Awake
  <2>1. PassRuns'  BY <1>4, Zenon DEF Awake, PassRuns, BeforeCatch, LoopInv, StartsOnRequest, REQUESTED, RUNNING, IDLE
  <2>2. AgeBounded(a)'
    BY <1>1, <1>4, ClockHalf, Zenon DEF Awake, MainRuns, InMain, Timed, AgeBounded, Expecting, BeforeCatch,
       AfterCatch, Overrun, LoopInv, StartsOnRequest, REQUESTED, RUNNING, IDLE, timer, shut
  <2>3. SeenBounded(a, b)' /\ HeldBounded(a)' /\ timer_repeat_until' = At(now - a)' /\ (pc = "timer_task" => seen = At(now - b))'
    BY <1>1, <1>4, ClockHalf, Zenon DEF Awake, MainRuns, InMain, Timed, SeenBounded, HeldBounded, Overrun, Extended, timer
  <2>4. QED  BY <2>1, <2>2, <2>3, Zenon DEF Timed
<1>5. CASE Start
  <2>1. PassRuns'  BY <1>5 DEF Start, PassRuns, BeforeCatch, LoopInv, StartsOnRequest, REQUESTED, RUNNING, IDLE
  <2>2. AgeBounded(a)'
    BY <1>1, <1>5, ClockHalf, Zenon DEF Start, MainRuns, InMain, Timed, AgeBounded, Expecting, BeforeCatch,
       AfterCatch, Overrun, LoopInv, StartsOnRequest, REQUESTED, RUNNING, IDLE, timer, shut
  <2>3. SeenBounded(a, b)' /\ HeldBounded(a)' /\ timer_repeat_until' = At(now - a)' /\ (pc = "timer_task" => seen = At(now - b))'
    BY <1>1, <1>5, ClockHalf, Zenon DEF Start, MainRuns, InMain, Timed, SeenBounded, HeldBounded, Overrun, Extended, timer
  <2>4. QED  BY <2>1, <2>2, <2>3, Zenon DEF Timed
<1>6. CASE TaskSkip
  <2>1. PassRuns'  BY <1>6, NextTaskPlace, Zenon DEF TaskSkip, PassRuns, BeforeCatch
  <2>2. AgeBounded(a)'
    BY <1>1, <1>6, ClockHalf DEF TaskSkip, NextTask, MainRuns, InMain, Timed, AgeBounded, Expecting, BeforeCatch,
       AfterCatch, Overrun, LoopInv, StartsOnRequest, REQUESTED, RUNNING, IDLE, timer, shut
  <2>3. SeenBounded(a, b)' /\ HeldBounded(a)' /\ timer_repeat_until' = At(now - a)' /\ (pc = "timer_task" => seen = At(now - b))'
    BY <1>1, <1>6, ClockHalf, Zenon DEF TaskSkip, NextTask, MainRuns, InMain, Timed, SeenBounded, HeldBounded, Overrun, Extended, timer
  <2>4. QED  BY <2>1, <2>2, <2>3, Zenon DEF Timed
<1>7. CASE TaskWoken
  <2>1. PassRuns'  BY <1>7, Zenon DEF TaskWoken, PassRuns, BeforeCatch, LoopInv, StartsOnRequest, REQUESTED, RUNNING, IDLE
  <2>2. AgeBounded(a)'
    BY <1>1, <1>7, ClockHalf, Zenon DEF TaskWoken, MainRuns, InMain, Timed, AgeBounded, Expecting, BeforeCatch,
       AfterCatch, Overrun, LoopInv, StartsOnRequest, REQUESTED, RUNNING, IDLE, timer, shut
  <2>3. SeenBounded(a, b)' /\ HeldBounded(a)' /\ timer_repeat_until' = At(now - a)' /\ (pc = "timer_task" => seen = At(now - b))'
    BY <1>1, <1>7, ClockHalf, Zenon DEF TaskWoken, MainRuns, InMain, Timed, SeenBounded, HeldBounded, Overrun, Extended, timer
  <2>4. QED  BY <2>1, <2>2, <2>3, Zenon DEF Timed
<1>8. CASE TaskClear
  <2>1. PassRuns'  BY <1>8, Zenon DEF TaskClear, PassRuns, BeforeCatch, LoopInv, StartsOnRequest, REQUESTED, RUNNING, IDLE
  <2>2. AgeBounded(a)'
    BY <1>1, <1>8, ClockHalf, Zenon DEF TaskClear, MainRuns, InMain, Timed, AgeBounded, Expecting, BeforeCatch,
       AfterCatch, Overrun, LoopInv, StartsOnRequest, REQUESTED, RUNNING, IDLE, timer, shut
  <2>3. SeenBounded(a, b)' /\ HeldBounded(a)' /\ timer_repeat_until' = At(now - a)' /\ (pc = "timer_task" => seen = At(now - b))'
    BY <1>1, <1>8, ClockHalf, Zenon DEF TaskClear, MainRuns, InMain, Timed, SeenBounded, HeldBounded, Overrun, Extended, timer
  <2>4. QED  BY <2>1, <2>2, <2>3, Zenon DEF Timed
<1>9. CASE \E woken \in SUBSET Tasks : TaskWork(woken)
  <2>1. PICK woken \in SUBSET Tasks : TaskWork(woken)  BY <1>9, Zenon
  <2>2. pc' = "check" \/ (pc' = "task" /\ task' # 0)  BY <2>1, NextTaskPlace, Zenon DEF TaskWork
  <2>3. PassRuns'  BY <2>2, Zenon DEF PassRuns, BeforeCatch
  <2>4. shutdown_status' \in {0, 1}  BY <1>1, <2>1, Zenon DEF TaskWork
  <2>5. AgeBounded(a)'
    <3>1. /\ irq \in {"out", "left"} /\ irq' = irq /\ stepped' = TRUE /\ pc = "work"
          /\ since_periodic' = since_periodic
      BY <2>1, Zenon DEF TaskWork, MainRuns, InMain, timer
    <3>2. a <= Overrun /\ -IdleRepeat <= a  BY <3>1, Zenon DEF Timed, AgeBounded, AfterCatch
    <3>3. Overrun \in {0, 2} /\ Overrun' = Overrun  BY <3>1, Zenon DEF Overrun
    <3>4. ~BeforeCatch' /\ InMain'  BY <2>2, <3>1, Zenon DEF BeforeCatch, InMain
    <3>5. /\ a <= Overrun' /\ a <= since_periodic' + 2 /\ -IdleRepeat <= a
          /\ a <= Period + 4 + 2 * shutdown_status' + Overrun'
      <4>1. since_periodic' \in Nat /\ a <= Overrun' /\ Overrun' \in {0, 2}
        BY <1>1, <3>1, <3>2, <3>3, Zenon
      <4>2. a <= since_periodic' + 2
        <5>1. \A m \in Nat, n \in {0, 2} : a <= n => a <= m + 2  OBVIOUS
        <5>2. QED  BY <4>1, <5>1, Zenon
      <4>3. 2 * shutdown_status' \in {0, 2}
        <5>1. \A n \in {0, 1} : 2 * n \in {0, 2}  OBVIOUS
        <5>2. QED  BY <2>4, <5>1, Zenon
      <4>4. a <= Period + 4 + 2 * shutdown_status' + Overrun'  BY <4>1, <4>3, ClockHalf
      <4>5. QED  BY <3>2, <4>1, <4>2, <4>4, Zenon
    <3>6. QED  BY <3>4, <3>5, Zenon DEF AgeBounded
  <2>6. /\ SeenBounded(a, b)' /\ HeldBounded(a)' /\ timer_repeat_until' = At(now - a)'
        /\ (pc = "timer_task" => seen = At(now - b))'
    BY <1>1, <2>1, <2>2, Zenon
       DEF TaskWork, MainRuns, InMain, Timed, SeenBounded, HeldBounded, Overrun, Extended, timer
  <2>7. QED  BY <2>3, <2>5, <2>6, Zenon DEF Timed
<1>10. QED  BY <1>2, <1>3, <1>4, <1>5, <1>6, <1>7, <1>8, <1>9, Zenon

\* timer_task reads the time,
LEMMA TimerTaskReadTimed ==
    ASSUME LoopInv, PassRuns, NEW a \in Int, NEW b \in Int, Timed(a, b), TimerTaskRead
    PROVE  PassRuns' /\ Timed(a, 0)'
<1>1. /\ shutdown_status \in {0, 1} /\ since_periodic \in Nat /\ stepped \in BOOLEAN /\ now \in Clock
      /\ irq \in {"out", "left"}
  BY LoopConstants DEF LoopInv, TypeOK, TimerTaskRead, MainRuns, InMain
<1>2. PassRuns'  BY Zenon DEF TimerTaskRead, PassRuns, BeforeCatch
<1>3. AgeBounded(a)'
  BY <1>1, ClockHalf, Zenon
     DEF TimerTaskRead, MainRuns, InMain, Timed, AgeBounded, Expecting, BeforeCatch, AfterCatch, Overrun,
         timer, shut
<1>4. SeenBounded(a, 0)' /\ HeldBounded(a)'
  BY <1>1, ClockHalf
     DEF TimerTaskRead, MainRuns, InMain, Timed, SeenBounded, HeldBounded, Overrun, Extended, timer
<1>5. seen' = At(now' - 0)  BY <1>1, NowIsNow, Zenon DEF TimerTaskRead
<1>6. timer_repeat_until' = At(now' - a)  BY Zenon DEF TimerTaskRead, Timed, timer
<1>7. QED  BY <1>2, <1>3, <1>4, <1>5, <1>6, Zenon DEF Timed

\* and catches up with it.
LEMMA TimerTaskTimed ==
    ASSUME LoopInv, PassRuns, NEW a \in Int, NEW b \in Int, Timed(a, b), TimerTask
    PROVE  PassRuns' /\ Timed(IF b < a THEN b ELSE a, 0)'
<1> DEFINE c == IF b < a THEN b ELSE a
<1>1. /\ shutdown_status \in {0, 1} /\ since_periodic \in Nat /\ stepped \in BOOLEAN /\ now \in Int
      /\ irq \in {"out", "left"} /\ pc = "timer_task"
  BY LoopConstants DEF LoopInv, TypeOK, TimerTask, MainRuns, InMain
<1>2. a - b <= Half /\ b - a < Half /\ 0 <= b /\ -IdleRepeat <= a
  BY <1>1, TimedFacts, ClockHalf DEF Timed, SeenBounded
<1>3. timer_repeat_until' = At(now - c)
  <2>1. timer_is_before(timer_repeat_until, seen) <=> b < a
    BY <1>1, <1>2, BeforeIsOlder, Zenon DEF Timed
  <2>2. CASE b < a  BY <1>1, <2>1, <2>2, Zenon DEF TimerTask, CaughtUp, Timed
  <2>3. CASE ~(b < a)  BY <1>1, <2>1, <2>3, Zenon DEF TimerTask, CaughtUp, Timed
  <2>4. QED  BY <2>2, <2>3, Zenon
<1>4. c \in Int /\ -IdleRepeat <= c /\ c <= Overrun /\ Overrun = (IF irq = "out" THEN 0 ELSE 2)
  BY <1>1, <1>2, ClockHalf DEF Timed, SeenBounded, Overrun
<1> HIDE DEF c
<1>5. pc' = "check" \/ (pc' = "task" /\ task' # 0)  BY NextTaskPlace, Zenon DEF TimerTask
<1>6. PassRuns'  BY <1>5, Zenon DEF PassRuns, BeforeCatch
<1>7. AgeBounded(c)'
  BY <1>1, <1>4, <1>5, ClockHalf
     DEF TimerTask, MainRuns, InMain, AgeBounded, Expecting, BeforeCatch, AfterCatch, Overrun, shut
<1>8. SeenBounded(c, 0)' /\ HeldBounded(c)'
  BY <1>1, <1>5, Zenon DEF TimerTask, MainRuns, InMain, Timed, SeenBounded, HeldBounded
<1>9. timer_repeat_until' = At(now' - c)  BY <1>3, Zenon DEF TimerTask
<1>10. QED  BY <1>5, <1>6, <1>7, <1>8, <1>9, Zenon DEF Timed, c

\* A shutdown cuts a pass short.
LEMMA RestartTimed ==
    ASSUME LoopInv, PassRuns, NEW a \in Int, NEW b \in Int, Timed(a, b), TaskShutdown \/ DispatchShutdown
    PROVE  PassRuns' /\ Timed(a, b)'
<1>1. /\ shutdown_status \in {0, 1} /\ since_periodic \in Nat /\ stepped \in BOOLEAN
      /\ tasks_status \in {IDLE, REQUESTED, RUNNING}
  BY LoopConstants DEF LoopInv, TypeOK
<1>2. Restart  BY Zenon DEF TaskShutdown, DispatchShutdown
<1>3. PassRuns'  BY <1>2, Zenon DEF Restart, PassRuns, BeforeCatch
<1>4. a <= Period + 6 /\ -IdleRepeat <= a /\ (tasks_status # REQUESTED => a <= since_periodic + 2)
  <2>1. CASE TaskShutdown
    <3>1. pc = "work" /\ irq \in {"out", "left"}  BY <2>1, Zenon DEF TaskShutdown, InMain
    <3>2. QED  BY <1>1, <3>1, ClockHalf DEF Timed, AgeBounded, AfterCatch, Overrun
  <2>2. CASE DispatchShutdown
    <3>1. irq = "decide" /\ shutdown_status = 0  BY <2>2, Zenon DEF DispatchShutdown
    <3>2. Overrun \in 0..2  BY DEF Overrun
    <3>3. since_periodic <= Period + 2  BY DEF LoopInv, TypeOK
    <3>4. tasks_status # REQUESTED /\ BeforeCatch => tasks_status = RUNNING  BY <1>1, Zenon DEF PassRuns
    <3>5. ~InMain  BY <3>1, Zenon DEF InMain
    <3>6. QED  BY <1>1, <3>1, <3>2, <3>3, <3>4, <3>5, ClockHalf DEF Timed, AgeBounded, Expecting
  <2>3. QED  BY <2>1, <2>2, Zenon
<1>5. AgeBounded(a)'
  BY <1>1, <1>2, <1>4, ClockHalf
     DEF Restart, InMain, AgeBounded, Expecting, BeforeCatch, AfterCatch, Overrun
<1>6. SeenBounded(a, b)' /\ HeldBounded(a)'  BY <1>2, Zenon DEF Restart, InMain, SeenBounded, HeldBounded
<1>7. timer_repeat_until' = At(now' - a) /\ pc' = "check"  BY <1>2, Zenon DEF Restart, Timed
<1>8. QED  BY <1>3, <1>5, <1>6, <1>7, Zenon DEF Timed

\* An interrupt that wakes tasks, and the timer interrupt's start
LEMMA InterruptTimed ==
    ASSUME LoopInv, PassRuns, NEW a \in Int, NEW b \in Int, Timed(a, b),
           TimerIrq \/ \E woken \in SUBSET Tasks : OtherIrq(woken)
    PROVE  PassRuns' /\ Timed(a, b)'
<1>1. /\ shutdown_status \in {0, 1} /\ since_periodic \in 0..Period + 2 /\ stepped \in BOOLEAN
      /\ tasks_status \in {IDLE, REQUESTED, RUNNING}
  BY LoopConstants, Zenon DEF LoopInv, TypeOK
<1>2. CASE TimerIrq
  <2>1. PassRuns'  BY <1>2, Zenon DEF TimerIrq, PassRuns, BeforeCatch, main
  <2>2. AgeBounded(a)'
    BY <1>1, <1>2, ClockHalf
       DEF TimerIrq, InMain, Timed, AgeBounded, Expecting, BeforeCatch, AfterCatch, Overrun, main, shut
  <2>3. SeenBounded(a, b)' /\ HeldBounded(a)'
    <3>1. Extended' = Extended /\ Extended \in 0..IdleRepeat + 2 /\ -IdleRepeat <= a
      BY <1>2, TimedFacts, Zenon DEF TimerIrq, Extended
    <3>2. Overrun' \in {0, 1} /\ held' = 0 /\ irq' = "dispatch" /\ tru' = timer_repeat_until'
      BY <1>1, <1>2, Zenon DEF TimerIrq, InMain, Timed, HeldBounded, Overrun
    <3>3. HeldBounded(a)'  BY <3>1, <3>2, ClockHalf DEF HeldBounded, InMain
    <3>4. SeenBounded(a, b)'
      BY <1>1, <1>2, <3>2 DEF TimerIrq, InMain, Timed, SeenBounded, Overrun, main
    <3>5. QED  BY <3>3, <3>4, Zenon
  <2>4. QED  BY <1>2, <2>1, <2>2, <2>3, Zenon DEF TimerIrq, Timed, main
<1>3. CASE \E woken \in SUBSET Tasks : OtherIrq(woken)
  <2>1. /\ tasks_status' = REQUESTED
        /\ UNCHANGED <<now, tasks_busy, main, timer, since_periodic, stepped, held, shut>>
    BY <1>3, Zenon DEF OtherIrq, WakeTasks
  <2>2. PassRuns'  BY <2>1 DEF PassRuns, REQUESTED, IDLE
  <2>3. AgeBounded(a)'
    BY <1>1, <2>1, ClockHalf
       DEF InMain, Timed, AgeBounded, Expecting, BeforeCatch, AfterCatch, Overrun, REQUESTED, RUNNING,
           main, timer, shut
  <2>4. SeenBounded(a, b)' /\ HeldBounded(a)'
    BY <1>1, <2>1
       DEF InMain, Timed, SeenBounded, HeldBounded, Overrun, Extended, main, timer, REQUESTED, IDLE
  <2>5. QED  BY <2>1, <2>2, <2>3, <2>4, Zenon DEF Timed, main, timer
<1>4. QED  BY <1>2, <1>3, Zenon

\* The interrupt runs the timers that are due, the periodic one among them,
LEMMA DispatchTimed ==
    ASSUME LoopInv, PassRuns, NEW a \in Int, NEW b \in Int, Timed(a, b),
           NEW woken \in SUBSET Tasks, NEW periodic \in BOOLEAN, Dispatch(woken, periodic)
    PROVE  PassRuns' /\ Timed(a, b)'
<1>1. /\ shutdown_status \in {0, 1} /\ since_periodic \in 0..Period + 2 /\ stepped \in BOOLEAN
      /\ tasks_status \in {IDLE, REQUESTED, RUNNING}
  BY LoopConstants, Zenon DEF LoopInv, TypeOK
<1>2. /\ irq = "dispatch" /\ irq' = "decide" /\ stepped' = TRUE
      /\ UNCHANGED <<now, tasks_busy, main, tru, timer_repeat_until, held, shut>>
  BY Zenon DEF Dispatch
<1>3. \/ tasks_status' = tasks_status /\ since_periodic' = since_periodic
      \/ tasks_status' = REQUESTED /\ since_periodic' \in {0, since_periodic}
  BY Zenon DEF Dispatch, WakeTasks
<1>4. PassRuns'  BY <1>2, <1>3 DEF PassRuns, BeforeCatch, REQUESTED, IDLE, main
<1>5. AgeBounded(a)'
  <2>1. CASE tasks_status' = tasks_status /\ since_periodic' = since_periodic
    BY <1>1, <1>2, <2>1, ClockHalf
       DEF InMain, Timed, AgeBounded, Expecting, BeforeCatch, AfterCatch, Overrun, main, shut
  <2>2. CASE tasks_status' = REQUESTED
    BY <1>1, <1>2, <2>2, ClockHalf
       DEF InMain, Timed, AgeBounded, Expecting, BeforeCatch, AfterCatch, Overrun, REQUESTED, RUNNING,
           main, shut
  <2>3. QED  BY <1>3, <2>1, <2>2, Zenon
<1>6. Overrun \in {0, 1} /\ Overrun' = 1 /\ Extended' = Extended /\ ~InMain /\ ~InMain'
  BY <1>1, <1>2, Zenon DEF Overrun, Extended, InMain
<1>7. SeenBounded(a, b)'  BY <1>2, <1>6 DEF Timed, SeenBounded, main
<1>8. HeldBounded(a)'
  <2>1. held \in Nat /\ -IdleRepeat <= a /\ Extended \in 0..IdleRepeat + 2
    BY TimedFacts, Zenon DEF LoopInv, TypeOK
  <2>2. held' # 0 => tasks_status' # IDLE
    BY <1>2, <1>3, <1>6 DEF Timed, HeldBounded, REQUESTED, IDLE
  <2>3. tru' = timer_repeat_until' /\ held' = held  BY <1>2, <1>6, Zenon DEF Timed, HeldBounded
  <2>4. /\ a <= Overrun => held <= Extended + IdleRepeat + a
        /\ Overrun < a => held <= Overrun
    BY <1>6, Zenon DEF Timed, HeldBounded
  <2>5. /\ a <= Overrun' => held' <= Extended' + IdleRepeat + a
        /\ Overrun' < a => held' <= Overrun'
    BY <1>6, <2>1, <2>3, <2>4, ClockHalf
  <2>6. QED  BY <1>6, <2>2, <2>3, <2>5, Zenon DEF HeldBounded
<1>9. QED  BY <1>2, <1>4, <1>5, <1>7, <1>8, Zenon DEF Timed, main

\* returns when none is,
LEMMA DispatchReturnTimed ==
    ASSUME LoopInv, PassRuns, NEW a \in Int, NEW b \in Int, Timed(a, b), DispatchReturn
    PROVE  PassRuns' /\ Timed(a, b)'
<1>1. shutdown_status \in {0, 1} /\ since_periodic \in 0..Period + 2 /\ stepped \in BOOLEAN
  BY LoopConstants, Zenon DEF LoopInv, TypeOK
<1>2. PassRuns'  BY Zenon DEF DispatchReturn, PassRuns, BeforeCatch, main
<1>3. AgeBounded(a)'
  BY <1>1, ClockHalf
     DEF DispatchReturn, InMain, Timed, AgeBounded, Expecting, BeforeCatch, AfterCatch, Overrun, main, shut
<1>4. held <= 2 * (IdleRepeat + 2) /\ held \in Nat  BY TimedFacts, Zenon DEF LoopInv, TypeOK
<1>5. SeenBounded(a, b)' /\ HeldBounded(a)'
  BY <1>1, <1>4, ClockHalf DEF DispatchReturn, InMain, Timed, SeenBounded, HeldBounded, Overrun, main
<1>6. QED  BY <1>2, <1>3, <1>5, Zenon DEF DispatchReturn, Timed, main

\* and when one is, goes on before tru, gives way after it or extends it.
LEMMA DispatchMoreTimed ==
    ASSUME LoopInv, PassRuns, NEW a \in Int, NEW b \in Int, Timed(a, b), DispatchMore
    PROVE  PassRuns' /\ \E c \in Int : Timed(c, b)'
<1>1. /\ shutdown_status \in {0, 1} /\ since_periodic \in 0..Period + 2 /\ stepped \in BOOLEAN
      /\ now \in Int /\ now \in Clock /\ held \in Nat
      /\ tasks_status \in {IDLE, REQUESTED, RUNNING} /\ tasks_busy \in {IDLE, REQUESTED, RUNNING}
  BY LoopConstants, Zenon DEF LoopInv, TypeOK
<1>2. irq = "decide" /\ UNCHANGED <<now, tasks_status, wake, main, since_periodic, shut>>
  BY Zenon DEF DispatchMore
<1>3. PassRuns'  BY <1>2, Zenon DEF PassRuns, BeforeCatch, main
<1>4. timer_is_before(tru, now) <=> 0 < a
  <2>1. tru = At(now - a)  BY <1>2, Zenon DEF Timed, HeldBounded, InMain
  <2>2. now = At(now - 0)  BY <1>1, NowIsNow, Zenon
  <2>3. a - 0 <= Half /\ 0 - a < Half  BY TimedFacts, ClockHalf
  <2>4. timer_is_before(At(now - a), At(now - 0)) <=> 0 < a
    <3>1. 0 \in Int  OBVIOUS
    <3>2. QED  BY <1>1, <2>3, <3>1, BeforeIsOlder, Zenon
  <2>5. QED  BY <2>1, <2>2, <2>4, Zenon
<1>5. held <= 2 * (IdleRepeat + 2) /\ -IdleRepeat <= a /\ Overrun \in {1, 2}
  BY <1>1, <1>2, TimedFacts, Zenon DEF Overrun
<1>6. CASE ~timer_is_before(tru, now)
  <2>1. /\ irq' = "dispatch" /\ a <= 0
        /\ UNCHANGED <<tru, timer_repeat_until, tasks_busy, held, stepped>>
    BY <1>4, <1>6 DEF DispatchMore
  <2>2. AgeBounded(a)'
    BY <1>1, <1>2, <1>5, <2>1, ClockHalf
       DEF InMain, AgeBounded, Expecting, BeforeCatch, AfterCatch, Overrun, main, shut
  <2>3. Overrun' \in {0, 1} /\ Extended' = Extended /\ ~InMain /\ ~InMain' /\ Overrun' + 1 = Overrun
    BY <1>1, <1>2, <2>1 DEF Overrun, Extended, InMain
  <2>4. SeenBounded(a, b)'  BY <1>2, <2>1, <2>3 DEF Timed, SeenBounded, main
  <2>5. HeldBounded(a)'
    <3>1. /\ tru = timer_repeat_until /\ (held # 0 => tasks_status # IDLE)
          /\ a <= Overrun => held <= Extended + IdleRepeat + a
      BY <2>3, Zenon DEF Timed, HeldBounded
    <3>2. a <= Overrun /\ a <= Overrun'  BY <1>5, <2>1, <2>3
    <3>3. QED  BY <1>2, <2>1, <2>3, <3>1, <3>2 DEF HeldBounded
  <2>6. QED  BY <1>2, <1>3, <2>1, <2>2, <2>4, <2>5, Zenon DEF Timed, main
<1>7. CASE timer_is_before(tru, now) /\ Busy
  <2>1. /\ timer_repeat_until' = At(now + Repeat) /\ irq' = "left" /\ held' = 0 /\ stepped' = FALSE
    BY <1>7, Zenon DEF DispatchMore, RepeatUntil
  <2> DEFINE c == -Repeat
  <2>2. c \in Int /\ c < 0 /\ -IdleRepeat <= c /\ now - c = now + Repeat  BY <1>1, ClockHalf
  <2>3. timer_repeat_until' = At(now' - c)  BY <1>2, <2>1, <2>2, Zenon
  <2> HIDE DEF c
  <2>4. AgeBounded(c)'
    BY <1>1, <1>2, <2>1, <2>2, ClockHalf
       DEF InMain, AgeBounded, Expecting, BeforeCatch, AfterCatch, Overrun, main, shut
  <2>5. SeenBounded(c, b)'
    BY <1>1, <1>2, <1>5, <2>1, <2>2, ClockHalf DEF InMain, Timed, SeenBounded, Overrun, main
  <2>6. HeldBounded(c)'  BY <2>1, Zenon DEF InMain, HeldBounded
  <2>7. QED  BY <1>2, <1>3, <2>2, <2>3, <2>4, <2>5, <2>6, Zenon DEF Timed, main
<1>8. CASE timer_is_before(tru, now) /\ ~Busy
  <2>1. /\ timer_repeat_until' = At(now + IdleRepeat) /\ tru' = timer_repeat_until'
        /\ irq' = "dispatch" /\ held' = held /\ stepped' = stepped /\ tasks_busy' = tasks_status
    BY <1>8, Zenon DEF DispatchMore, RepeatUntil
  <2> DEFINE c == -IdleRepeat
  <2>2. c \in Int /\ c < 0 /\ -IdleRepeat <= c /\ now - c = now + IdleRepeat  BY <1>1, ClockHalf
  <2>3. timer_repeat_until' = At(now' - c)  BY <1>2, <2>1, <2>2, Zenon
  <2>4. c + IdleRepeat = 0  BY ClockHalf
  <2> HIDE DEF c
  <2>5. AgeBounded(c)'
    BY <1>1, <1>2, <2>1, <2>2, ClockHalf
       DEF InMain, AgeBounded, Expecting, BeforeCatch, AfterCatch, Overrun, main, shut
  <2>6. SeenBounded(c, b)'
    BY <1>1, <1>2, <2>1, <2>2, ClockHalf DEF InMain, Timed, SeenBounded, Overrun, main
  <2>7. Overrun' \in {0, 1} /\ Overrun' + 1 = Overrun /\ ~InMain /\ ~InMain' /\ Extended = 0
    BY <1>1, <1>2, <1>8, <2>1 DEF Overrun, InMain, Extended, Busy
  <2>8. /\ held # 0 => tasks_status # IDLE
        /\ held <= Overrun \/ (a <= Overrun /\ held <= Extended + IdleRepeat + a)
    BY <1>1, <1>5, <2>7, ClockHalf DEF Timed, HeldBounded
  <2>9. HeldBounded(c)'
    <3>1. Extended' = IF tasks_status = IDLE THEN 0 ELSE IdleRepeat + 2
      BY <1>1, <2>1 DEF Extended, IDLE, REQUESTED, RUNNING
    <3>2. QED
      BY <1>1, <1>2, <1>5, <2>1, <2>2, <2>4, <2>7, <2>8, <3>1, ClockHalf DEF HeldBounded
  <2>10. QED  BY <1>2, <1>3, <2>2, <2>3, <2>5, <2>6, <2>9, Zenon DEF Timed, main
<1>9. QED  BY <1>6, <1>7, <1>8, Zenon


\* Time passes: every time grows a tick older.
LEMMA TickTimed ==
    ASSUME LoopInv, PassRuns, NEW a \in Int, NEW b \in Int, Timed(a, b), Tick
    PROVE  PassRuns' /\ Timed(a + 1, b + 1)'
<1>1. /\ shutdown_status \in {0, 1} /\ since_periodic \in 0..Period + 2 /\ stepped \in BOOLEAN
      /\ now \in Int /\ held \in Nat /\ tasks_status \in {IDLE, REQUESTED, RUNNING}
  BY LoopConstants, Zenon DEF LoopInv, TypeOK
<1>2. /\ since_periodic' = since_periodic + 1 /\ stepped' = FALSE /\ now' = At(now + 1)
      /\ UNCHANGED <<tasks_status, tasks_busy, main, tru, timer_repeat_until, shut>>
  BY Zenon DEF Tick
<1>3. PassRuns' /\ BeforeCatch' = BeforeCatch /\ AfterCatch' = AfterCatch /\ Expecting' = Expecting
  BY <1>2, Zenon DEF PassRuns, BeforeCatch, AfterCatch, Expecting, main
<1>4. -IdleRepeat <= a  BY TimedFacts, Zenon
<1>5. /\ timer_repeat_until' = At(now' - (a + 1))
      /\ (pc = "timer_task")' => seen' = At(now' - (b + 1))
  BY <1>1, <1>2, OlderByTick, Zenon DEF Timed, main
<1>6. CASE ~InMain /\ stepped
  <2>1. /\ irq \in {"dispatch", "decide"} /\ irq' = irq
        /\ held' = IF tasks_status >= REQUESTED THEN held + 1 ELSE held
    BY <1>6, Zenon DEF Tick, InMain, LoopInv, TypeOK
  <2>2. Overrun \in {0, 1} /\ Overrun' = Overrun + 1 /\ ~InMain' /\ irq' # "out" /\ irq' # "left"
    BY <1>2, <1>6, <2>1 DEF Overrun, InMain
  <2>3. Extended' = Extended /\ Extended \in 0..IdleRepeat + 2  BY <1>2, TimedFacts, Zenon DEF Extended
  <2>4. AgeBounded(a + 1)'
    BY <1>1, <1>2, <1>3, <1>4, <1>6, <2>2, ClockHalf DEF Timed, AgeBounded, main, shut
  <2>5. held' = IF tasks_status = IDLE THEN held ELSE held + 1
    BY <1>1, <2>1 DEF IDLE, REQUESTED, RUNNING
  <2>6. SeenBounded(a + 1, b + 1)'
    <3>1. pc = "timer_task" => held' = held + 1  BY <2>5, Zenon DEF PassRuns, BeforeCatch
    <3>2. QED  BY <1>1, <1>2, <1>6, <2>2, <3>1 DEF Timed, SeenBounded, main
  <2>7. HeldBounded(a + 1)'
    <3>1. /\ tru = timer_repeat_until /\ (held # 0 => tasks_status # IDLE)
          /\ a <= Overrun => held <= Extended + IdleRepeat + a
          /\ Overrun < a => held <= Overrun
      BY <1>6, Zenon DEF Timed, HeldBounded
    <3>2. held' # 0 => tasks_status # IDLE  BY <2>5, <3>1, Zenon
    <3>3. /\ a + 1 <= Overrun' => held' <= Extended' + IdleRepeat + (a + 1)
          /\ Overrun' < a + 1 => held' <= Overrun'
      BY <1>1, <2>2, <2>3, <2>5, <3>1, ClockHalf
    <3>4. QED  BY <1>2, <2>2, <3>1, <3>2, <3>3, Zenon DEF HeldBounded
  <2>8. QED  BY <1>3, <1>5, <2>4, <2>6, <2>7, Zenon DEF Timed
<1>7. CASE InMain
  <2>1. /\ irq' = "out" /\ held' = held /\ pc # "timer_task"
        /\ (pc = "check" /\ stepped) \/ (pc = "sleep" /\ tasks_status # REQUESTED)
    BY <1>7, Zenon DEF Tick, InMain
  <2>2. InMain' /\ Overrun' = 0 /\ Overrun \in {0, 2} /\ ~AfterCatch /\ ~BeforeCatch
    BY <1>7, <2>1, Zenon DEF InMain, Overrun, AfterCatch, BeforeCatch
  <2>3. /\ ~Expecting => a <= since_periodic + 2
        /\ Expecting => a <= 2
        /\ shutdown_status = 0 => a <= since_periodic + 2
    <3>1. CASE pc = "check" /\ stepped
      <4>1. a <= Overrun  BY <1>7, <3>1, Zenon DEF Timed, AgeBounded
      <4>2. QED  BY <1>1, <2>2, <4>1
    <3>2. CASE pc = "sleep" /\ tasks_status # REQUESTED
      <4>1. ~Expecting  BY <2>2, <3>2, Zenon DEF Expecting
      <4>2. QED  BY <4>1, Zenon DEF Timed, AgeBounded
    <3>3. QED  BY <2>1, <3>1, <3>2, Zenon
  <2>4. AgeBounded(a + 1)'
    BY <1>1, <1>2, <1>3, <1>4, <2>2, <2>3, ClockHalf DEF AgeBounded, shut
  <2>5. SeenBounded(a + 1, b + 1)'  BY <1>2, <2>1, Zenon DEF SeenBounded, main
  <2>6. HeldBounded(a + 1)'  BY <1>7, <2>1, <2>2, Zenon DEF Timed, HeldBounded
  <2>7. QED  BY <1>3, <1>5, <2>4, <2>5, <2>6, Zenon DEF Timed
<1>8. QED  BY <1>6, <1>7, Zenon DEF Tick

\* The interrupt is timed: the inductive invariant behind NotStarved.
TimeInv == LoopInv /\ PassRuns /\ \E a, b \in Int : Timed(a, b)

LEMMA InitTimed == Init => TimeInv
<1> SUFFICES ASSUME Init PROVE TimeInv  BY Zenon
<1>1. LoopInv  BY LoopInitInv, Zenon
<1>2. PassRuns  BY Zenon DEF Init, PassRuns, BeforeCatch
<1>3. 0 \in Int /\ 0 \in Clock  BY ClockHalf DEF Clock
<1>4. timer_repeat_until = At(now - 0)  BY <1>3, NowIsNow, Zenon DEF Init
<1>5. AgeBounded(0)
  BY ClockHalf DEF Init, AgeBounded, Expecting, BeforeCatch, AfterCatch, Overrun, InMain, REQUESTED
<1>6. SeenBounded(0, 0) /\ HeldBounded(0)  BY Zenon DEF Init, SeenBounded, HeldBounded, InMain
<1>7. Timed(0, 0)  BY <1>4, <1>5, <1>6, Zenon DEF Init, Timed
<1>8. QED  BY <1>1, <1>2, <1>3, <1>7, Zenon DEF TimeInv

LEMMA NextTimed == TimeInv /\ [Next]_vars => TimeInv'
<1> SUFFICES ASSUME TimeInv, [Next]_vars PROVE TimeInv'  BY Zenon
<1>1. LoopInv /\ PassRuns /\ LoopInv'  BY LoopNextInv, Zenon DEF TimeInv
<1>2. PICK a \in Int, b \in Int : Timed(a, b)  BY Zenon DEF TimeInv
<1> DEFINE Goal == PassRuns' /\ \E c, d \in Int : Timed(c, d)'
<1>3. CASE \/ Check \/ Recheck \/ Awake \/ Start \/ TaskSkip \/ TaskWoken \/ TaskClear
           \/ \E woken \in SUBSET Tasks : TaskWork(woken)
  <2>1. PassRuns' /\ Timed(a, b)'  BY <1>1, <1>2, <1>3, MainTimed, Zenon
  <2>2. Goal  BY <2>1, Zenon
  <2>3. QED  BY <1>1, <2>2, Zenon DEF TimeInv
<1>4. CASE TimerTaskRead
  <2>1. PassRuns' /\ Timed(a, 0)'  BY <1>1, <1>2, <1>4, TimerTaskReadTimed, Zenon
  <2>2. Goal  BY <2>1
  <2>3. QED  BY <1>1, <2>2, Zenon DEF TimeInv
<1>5. CASE TimerTask
  <2>1. PassRuns' /\ Timed(IF b < a THEN b ELSE a, 0)'  BY <1>1, <1>2, <1>5, TimerTaskTimed, Zenon
  <2>2. (IF b < a THEN b ELSE a) \in Int  BY Zenon
  <2>3. Goal  BY <2>1, <2>2
  <2>4. QED  BY <1>1, <2>3, Zenon DEF TimeInv
<1>6. CASE TaskShutdown \/ DispatchShutdown
  <2>1. PassRuns' /\ Timed(a, b)'  BY <1>1, <1>2, <1>6, RestartTimed, Zenon
  <2>2. Goal  BY <2>1, Zenon
  <2>3. QED  BY <1>1, <2>2, Zenon DEF TimeInv
<1>7. CASE TimerIrq \/ \E woken \in SUBSET Tasks : OtherIrq(woken)
  <2>1. PassRuns' /\ Timed(a, b)'  BY <1>1, <1>2, <1>7, InterruptTimed, Zenon
  <2>2. Goal  BY <2>1, Zenon
  <2>3. QED  BY <1>1, <2>2, Zenon DEF TimeInv
<1>8. CASE \E woken \in SUBSET Tasks : \E periodic \in BOOLEAN : Dispatch(woken, periodic)
  <2>1. PassRuns' /\ Timed(a, b)'  BY <1>1, <1>2, <1>8, DispatchTimed, Zenon
  <2>2. Goal  BY <2>1, Zenon
  <2>3. QED  BY <1>1, <2>2, Zenon DEF TimeInv
<1>9. CASE DispatchReturn
  <2>1. PassRuns' /\ Timed(a, b)'  BY <1>1, <1>2, <1>9, DispatchReturnTimed, Zenon
  <2>2. Goal  BY <2>1, Zenon
  <2>3. QED  BY <1>1, <2>2, Zenon DEF TimeInv
<1>10. CASE DispatchMore
  <2>1. PassRuns' /\ \E c \in Int : Timed(c, b)'  BY <1>1, <1>2, <1>10, DispatchMoreTimed, Zenon
  <2>2. Goal  BY <2>1, Zenon
  <2>3. QED  BY <1>1, <2>2, Zenon DEF TimeInv
<1>11. CASE Tick
  <2>1. PassRuns' /\ Timed(a + 1, b + 1)'  BY <1>1, <1>2, <1>11, TickTimed, Zenon
  <2>2. a + 1 \in Int /\ b + 1 \in Int  OBVIOUS
  <2>3. Goal  BY <2>1, <2>2, Zenon
  <2>4. QED  BY <1>1, <2>3, Zenon DEF TimeInv
<1>12. CASE UNCHANGED vars
  <2>1. PassRuns' = PassRuns  BY <1>12, Zenon DEF vars, main, timer, shut, PassRuns, BeforeCatch
  <2>2. AgeBounded(a)' = AgeBounded(a)
    BY <1>12, Zenon DEF vars, main, timer, shut, AgeBounded, Expecting, BeforeCatch, AfterCatch, InMain,
                 Overrun
  <2>3. SeenBounded(a, b)' = SeenBounded(a, b)
    BY <1>12, Zenon DEF vars, main, timer, shut, SeenBounded, InMain, Overrun
  <2>4. HeldBounded(a)' = HeldBounded(a)
    BY <1>12, Zenon DEF vars, main, timer, shut, HeldBounded, InMain, Overrun, Extended
  <2>5. /\ timer_repeat_until' = timer_repeat_until /\ now' = now
        /\ pc' = pc /\ seen' = seen
    BY <1>12, Zenon DEF vars, main, timer, shut
  <2>6. Timed(a, b)'  BY <1>2, <2>2, <2>3, <2>4, <2>5, Zenon DEF Timed
  <2>7. Goal  BY <1>1, <2>1, <2>6, Zenon
  <2>8. QED  BY <1>1, <2>7, Zenon DEF TimeInv
<1>13. QED
  BY <1>3, <1>4, <1>5, <1>6, <1>7, <1>8, <1>9, <1>10, <1>11, <1>12, Zenon
     DEF Next, MainStep, TimerStep

\* The timer interrupt does not keep the tasks waiting for more than two repeat
\* intervals, each overrun by two ticks (timer_dispatch_many, timer_task and
\* sched_check_set_tasks_busy), for every clock that is wide enough for the
\* intervals, and however often the clock has wrapped.
THEOREM TasksNotStarved == Spec => []NotStarved
<1>1. TimeInv => NotStarved  BY TimedFacts, Zenon DEF TimeInv, NotStarved
<1>2. QED  BY <1>1, InitTimed, NextTimed, PTL DEF Spec

-----------------------------------------------------------------------------
(* ConsoleTx: sequences *)

\* Appending an element
LEMMA SeqAppend ==
    ASSUME NEW S, NEW s \in Seq(S), NEW e \in S
    PROVE  /\ Append(s, e) \in Seq(S) /\ Append(s, e) # <<>> /\ Len(Append(s, e)) = Len(s) + 1
           /\ \A i \in 1..Len(s) : Append(s, e)[i] = s[i]
           /\ Append(s, e)[Len(s) + 1] = e
OBVIOUS

\* Concatenation
LEMMA SeqConcat ==
    ASSUME NEW S, NEW s \in Seq(S), NEW t \in Seq(S)
    PROVE  /\ s \o t \in Seq(S) /\ Len(s \o t) = Len(s) + Len(t)
           /\ \A i \in 1..Len(s) + Len(t) :
                 (s \o t)[i] = IF i <= Len(s) THEN s[i] ELSE t[i - Len(s)]
OBVIOUS

\* Two sequences with the same elements
LEMMA SeqSame ==
    ASSUME NEW S, NEW s \in Seq(S), NEW t \in Seq(S), Len(s) = Len(t),
           \A i \in 1..Len(s) : s[i] = t[i]
    PROVE  s = t
OBVIOUS

\* A part of a sequence or of a buffer
LEMMA SeqPart ==
    ASSUME NEW S, NEW s, NEW m \in Int, NEW n \in Int, \A i \in m..n : s[i] \in S
    PROVE  /\ SubSeq(s, m, n) \in Seq(S)
           /\ Len(SubSeq(s, m, n)) = IF m <= n THEN n - m + 1 ELSE 0
           /\ \A i \in 1..n - m + 1 : SubSeq(s, m, n)[i] = s[m + i - 1]
OBVIOUS

-----------------------------------------------------------------------------

Byte == Nat \X Nat
Buffer == [1..TxBufSize -> Byte]

\* The bytes p + 1 to m of a buffer are those accepted and not yet sent.
Held(buf, acc, snt, p, m) ==
    /\ Len(acc) = Len(snt) + (IF p < m THEN m - p ELSE 0)
    /\ \A k \in 1..Len(snt) : acc[k] = snt[k]
    /\ \A k \in p + 1..m : acc[Len(snt) + (k - p)] = buf[k]

\* A message of n bytes is in the buffer behind a position.
Carries(buf, place, msg, n) == \A k \in 1..n : buf[place + k] = msg[k]

\* Which bytes these are, while console_sendf moves them to the front
BytesHeld ==
    /\ tx_pc \notin {"move2", "move3", "move4"} =>
          Held(transmit_buf, accepted, sent, transmit_pos, transmit_max)
    /\ tx_pc = "move2" => Held(transmit_buf, accepted, sent, transmit_pos, tmax)
    /\ tx_pc \in {"move3", "move4"} => Held(transmit_buf, accepted, sent, 0, tmax)

\* What the positions console_sendf has read are to the shared ones
Ordered == tpos <= transmit_pos /\ transmit_pos <= tmax
PositionsRead ==
    /\ tx_pc = "empty" =>
          /\ tmax = transmit_max /\ tpos <= transmit_pos
          /\ tpos < tmax => transmit_pos <= tmax
          /\ tpos >= tmax => transmit_pos >= tmax
    /\ tx_pc = "resetpos" => transmit_max = 0 /\ tpos = 0 /\ tmax = 0
    /\ tx_pc \in {"space", "move"} => Ordered /\ tmax = transmit_max
    /\ tx_pc = "move2" => Ordered
    /\ tx_pc \in {"move2", "move3", "move4"} => transmit_max = 0
    /\ tx_pc = "move4" => transmit_pos = 0
    /\ tx_pc \in {"move5", "encode", "publish"} => transmit_pos <= tmax /\ tmax = transmit_max

\* The room console_sendf has found
RoomFound ==
    /\ tx_pc \in {"move", "move2"} => tmax + max_size - tpos <= TxBufSize
    /\ tx_pc \in {"move3", "move4", "move5", "encode", "publish"} => tmax + max_size <= TxBufSize

\* Bytes to send keep the interrupt enabled, except in the two places where
\* console_sendf is about to enable it.
IrqKept ==
    /\ tx_irq \in BOOLEAN /\ stranded \in BOOLEAN
    /\ tx_pc \notin {"move5", "enable"} /\ transmit_pos < transmit_max => tx_irq \/ stranded

InCall == {"read", "empty", "resetpos", "space", "move", "move2", "move3", "move4", "move5",
           "encode", "publish", "enable", "end"}
CallMarked ==
    /\ tx_pc \in InCall \cup {"idle", "set"}
    /\ in_sendf \in BOOLEAN /\ (in_sendf <=> tx_pc \in InCall)

TxTypes ==
    /\ transmit_buf \in Buffer
    /\ accepted \in Seq(Byte) /\ sent \in Seq(Byte)
    /\ transmit_pos \in 0..TxBufSize /\ transmit_max \in 0..TxBufSize
    /\ tpos \in 0..TxBufSize /\ tmax \in 0..TxBufSize
    /\ max_size \in 0..MaxSize /\ len \in 0..max_size /\ messages \in Nat

TxInv == TxTypes /\ CallMarked /\ BytesHeld /\ PositionsRead /\ RoomFound /\ IrqKept

-----------------------------------------------------------------------------
(* The bytes of the buffer *)

\* The transmit interrupt sends the first byte that is held.
LEMMA HeldSend ==
    ASSUME NEW buf, NEW acc, NEW snt \in Seq(Byte), NEW p \in Nat, NEW m \in Nat,
           p < m, buf[p + 1] \in Byte, Held(buf, acc, snt, p, m)
    PROVE  Held(buf, acc, Append(snt, buf[p + 1]), p + 1, m)
<1> DEFINE snt2 == Append(snt, buf[p + 1])
<1>1. /\ Len(snt) \in Nat /\ Len(snt2) = Len(snt) + 1 /\ snt2[Len(snt) + 1] = buf[p + 1]
      /\ \A k \in 1..Len(snt) : snt2[k] = snt[k]
  BY SeqAppend
<1> HIDE DEF snt2
<1>2. Len(acc) = Len(snt2) + (IF p + 1 < m THEN m - (p + 1) ELSE 0)
  BY <1>1 DEF Held
<1>3. ASSUME NEW k \in p + 2..m PROVE acc[Len(snt2) + (k - (p + 1))] = buf[k]
  <2>1. k \in p + 1..m /\ Len(snt2) + (k - (p + 1)) = Len(snt) + (k - p)  BY <1>1, <1>3
  <2>2. QED  BY <2>1, Zenon DEF Held
<1>4. ASSUME NEW k \in 1..Len(snt2) PROVE acc[k] = snt2[k]
  <2>1. CASE k \in 1..Len(snt)  BY <1>1, <2>1, Zenon DEF Held
  <2>2. CASE k = Len(snt) + 1
    <3>1. p + 1 \in p + 1..m /\ Len(snt) + ((p + 1) - p) = k  BY <1>1, <2>2
    <3>2. QED  BY <1>1, <2>2, <3>1, Zenon DEF Held
  <2>3. QED  BY <1>1, <1>4, <2>1, <2>2
<1>5. (p + 1) + 1 = p + 2  OBVIOUS
<1>6. QED  BY <1>2, <1>3, <1>4, <1>5, Zenon DEF Held, snt2

\* memmove takes them to the front.
LEMMA HeldMoved ==
    ASSUME NEW buf \in Buffer, NEW acc, NEW snt \in Seq(Byte), NEW p \in Nat, NEW m \in Nat,
           p <= m, m <= TxBufSize, Held(buf, acc, snt, p, m)
    PROVE  Held(Moved(buf, p, m), acc, snt, 0, m - p)
<1>1. TxBufSize \in Nat  BY ConsoleTxAssumption, Zenon
<1>2. Len(snt) \in Nat  OBVIOUS
<1>3. Len(acc) = Len(snt) + (IF 0 < m - p THEN m - p ELSE 0)  BY <1>2 DEF Held
<1>4. ASSUME NEW k \in 0 + 1..m - p PROVE acc[Len(snt) + (k - 0)] = Moved(buf, p, m)[k]
  <2>1. k \in 1..TxBufSize /\ k <= m - p /\ k + p \in p + 1..m  BY <1>1, <1>4
  <2>2. Moved(buf, p, m)[k] = buf[k + p]  BY <2>1, Zenon DEF Moved
  <2>3. acc[Len(snt) + ((k + p) - p)] = buf[k + p]  BY <2>1, Zenon DEF Held
  <2>4. (k + p) - p = k - 0  BY <2>1
  <2>5. QED  BY <2>2, <2>3, <2>4, Zenon
<1>5. QED  BY <1>3, <1>4 DEF Held

\* A message encoded behind them leaves them alone.
LEMMA HeldEncoded ==
    ASSUME NEW buf \in Buffer, NEW acc, NEW snt, NEW p \in Nat, NEW m \in Nat,
           NEW id \in Nat, NEW n \in Nat,
           m <= TxBufSize, Held(buf, acc, snt, p, m)
    PROVE  Held(Encoded(buf, m, Message(id, n)), acc, snt, p, m)
<1> DEFINE msg == Message(id, n)
<1>1. TxBufSize \in Nat /\ DOMAIN msg = 1..n  BY ConsoleTxAssumption, Zenon DEF Message
<1> HIDE DEF msg
<1>2. ASSUME NEW k \in p + 1..m PROVE Encoded(buf, m, msg)[k] = buf[k]
  <2>1. k \in 1..TxBufSize /\ k - m \notin 1..n  BY <1>1, <1>2
  <2>2. QED  BY <1>1, <2>1, Zenon DEF Encoded
<1>3. QED  BY <1>2, Zenon DEF Held, msg

\* It is accepted with the position behind it.
LEMMA HeldPublished ==
    ASSUME NEW buf, NEW acc \in Seq(Byte), NEW snt \in Seq(Byte), NEW p \in Nat, NEW m \in Nat,
           NEW add \in Seq(Byte), NEW n \in Nat, Len(add) = n,
           p <= m, Carries(buf, m, add, n),
           Held(buf, acc, snt, p, m)
    PROVE  Held(buf, acc \o add, snt, p, m + n)
<1> DEFINE acc2 == acc \o add
<1>0. /\ Len(acc2) = Len(acc) + n
      /\ \A i \in 1..Len(acc) + n : acc2[i] = IF i <= Len(acc) THEN acc[i] ELSE add[i - Len(acc)]
  BY SeqConcat, Zenon
<1> HIDE DEF acc2
<1>1. /\ Len(acc2) = Len(acc) + n /\ Len(acc) \in Nat /\ Len(snt) \in Nat
      /\ \A i \in 1..Len(acc) + n : acc2[i] = IF i <= Len(acc) THEN acc[i] ELSE add[i - Len(acc)]
  BY <1>0
<1>2. Len(acc) = Len(snt) + (m - p)
  <2>1. Len(acc) = Len(snt) + (IF p < m THEN m - p ELSE 0)  BY Zenon DEF Held
  <2>2. (IF p < m THEN m - p ELSE 0) = m - p  OBVIOUS
  <2>3. QED  BY <2>1, <2>2, Zenon
<1>3. Len(acc2) = Len(snt) + (IF p < m + n THEN (m + n) - p ELSE 0)  BY <1>1, <1>2
<1>4. ASSUME NEW k \in 1..Len(snt) PROVE acc2[k] = snt[k]
  <2>1. k \in 1..Len(acc) + n /\ k <= Len(acc)  BY <1>1, <1>2, <1>4
  <2>2. QED  BY <1>1, <2>1, Zenon DEF Held
<1>5. ASSUME NEW k \in p + 1..m + n PROVE acc2[Len(snt) + (k - p)] = buf[k]
  <2>1. CASE k <= m
    <3>1. k \in p + 1..m /\ Len(snt) + (k - p) \in 1..Len(acc) + n /\ Len(snt) + (k - p) <= Len(acc)
      BY <1>1, <1>2, <1>5, <2>1
    <3>2. QED  BY <1>1, <3>1, Zenon DEF Held
  <2>2. CASE k > m
    <3>1. /\ k - m \in 1..n /\ Len(snt) + (k - p) \in 1..Len(acc) + n
          /\ ~(Len(snt) + (k - p) <= Len(acc)) /\ (Len(snt) + (k - p)) - Len(acc) = k - m
          /\ m + (k - m) = k
      BY <1>1, <1>2, <1>5, <2>2
    <3>2. acc2[Len(snt) + (k - p)] = add[k - m]  BY <1>1, <3>1, Zenon
    <3>3. QED  BY <3>1, <3>2, Zenon DEF Carries
  <2>3. QED  BY <1>5, <2>1, <2>2
<1>6. QED  BY <1>3, <1>4, <1>5, Zenon DEF Held, acc2

\* Positions that hold nothing are as good as others.
LEMMA HeldNothing ==
    ASSUME NEW buf, NEW acc, NEW snt \in Seq(Byte), NEW p \in Nat, NEW m \in Nat, NEW p2 \in Nat,
           NEW m2 \in Nat, m <= p, m2 <= p2, Held(buf, acc, snt, p, m)
    PROVE  Held(buf, acc, snt, p2, m2)
BY DEF Held

\* A part of the buffer
LEMMA BufferPart ==
    ASSUME NEW buf \in Buffer, NEW p \in Nat, NEW n \in Nat, p + n <= TxBufSize
    PROVE  /\ SubSeq(buf, p + 1, p + n) \in Seq(Byte) /\ Len(SubSeq(buf, p + 1, p + n)) = n
           /\ Carries(buf, p, SubSeq(buf, p + 1, p + n), n)
<1> DEFINE part == SubSeq(buf, p + 1, p + n)
<1>1. TxBufSize \in Nat /\ p + 1 \in Int /\ p + n \in Int  BY ConsoleTxAssumption
<1>2. \A i \in p + 1..p + n : buf[i] \in Byte  BY <1>1 DEF Buffer
<1>3. /\ part \in Seq(Byte) /\ Len(part) = IF p + 1 <= p + n THEN (p + n) - (p + 1) + 1 ELSE 0
      /\ \A i \in 1..(p + n) - (p + 1) + 1 : part[i] = buf[(p + 1) + i - 1]
  BY <1>1, <1>2, SeqPart
<1> HIDE DEF part
<1>4. Len(part) = n  BY <1>1, <1>3
<1>5. ASSUME NEW k \in 1..n PROVE buf[p + k] = part[k]
  <2>1. k \in 1..(p + n) - (p + 1) + 1 /\ (p + 1) + k - 1 = p + k  BY <1>1, <1>5
  <2>2. QED  BY <1>3, <2>1, Zenon
<1>6. QED  BY <1>3, <1>4, <1>5, Zenon DEF part, Carries

\* What a shutdown leaves of the accepted bytes, and what Held says of them
LEMMA HeldInFlight ==
    ASSUME NEW buf \in Buffer, NEW snt \in Seq(Byte),
           NEW p \in 0..TxBufSize, NEW m \in 0..TxBufSize
    PROVE  /\ snt \o SubSeq(buf, p + 1, m) \in Seq(Byte)
           /\ Held(buf, snt \o SubSeq(buf, p + 1, m), snt, p, m)
<1> DEFINE rest == SubSeq(buf, p + 1, m)
<1>1. TxBufSize \in Nat /\ p \in Int /\ m \in Int /\ p + 1 \in Int  BY ConsoleTxAssumption
<1>2. \A i \in p + 1..m : buf[i] \in Byte  BY <1>1 DEF Buffer
<1>3. /\ rest \in Seq(Byte) /\ Len(rest) = IF p + 1 <= m THEN m - (p + 1) + 1 ELSE 0
      /\ \A i \in 1..m - (p + 1) + 1 : rest[i] = buf[(p + 1) + i - 1]
  BY <1>1, <1>2, SeqPart
<1> HIDE DEF rest
<1>0. Len(snt) \in Nat  OBVIOUS
<1>4. /\ snt \o rest \in Seq(Byte) /\ Len(snt \o rest) = Len(snt) + Len(rest) /\ Len(snt) \in Nat
      /\ \A i \in 1..Len(snt) + Len(rest) :
            (snt \o rest)[i] = IF i <= Len(snt) THEN snt[i] ELSE rest[i - Len(snt)]
  BY <1>0, <1>3, SeqConcat, Zenon
<1>5. Len(rest) = (IF p < m THEN m - p ELSE 0)  BY <1>1, <1>3
<1>6. ASSUME NEW k \in 1..Len(snt) PROVE (snt \o rest)[k] = snt[k]
  <2>1. k \in 1..Len(snt) + Len(rest) /\ k <= Len(snt)  BY <1>1, <1>4, <1>5, <1>6
  <2>2. QED  BY <1>4, <2>1, Zenon
<1>7. ASSUME NEW k \in p + 1..m PROVE (snt \o rest)[Len(snt) + (k - p)] = buf[k]
  <2>1. /\ Len(snt) + (k - p) \in 1..Len(snt) + Len(rest) /\ ~(Len(snt) + (k - p) <= Len(snt))
        /\ (Len(snt) + (k - p)) - Len(snt) = k - p /\ k - p \in 1..m - (p + 1) + 1
        /\ (p + 1) + (k - p) - 1 = k
    BY <1>1, <1>4, <1>5, <1>7
  <2>2. (snt \o rest)[Len(snt) + (k - p)] = rest[k - p]  BY <1>4, <2>1, Zenon
  <2>3. QED  BY <1>3, <2>1, <2>2, Zenon
<1>8. QED  BY <1>4, <1>5, <1>6, <1>7, Zenon DEF Held, rest


\* The bytes sent and those in flight make up the accepted ones.
Accounted(buf, acc, snt, p, m) == acc = snt \o SubSeq(buf, p + 1, m)

LEMMA HeldAccounts ==
    ASSUME NEW buf \in Buffer, NEW acc \in Seq(Byte), NEW snt \in Seq(Byte),
           NEW p \in 0..TxBufSize, NEW m \in 0..TxBufSize, Held(buf, acc, snt, p, m)
    PROVE  /\ Len(snt) <= Len(acc) /\ snt = SubSeq(acc, 1, Len(snt))
           /\ Accounted(buf, acc, snt, p, m)
<1>1. TxBufSize \in Nat /\ Len(snt) \in Nat /\ Len(acc) \in Nat  BY ConsoleTxAssumption
<1>2. Len(acc) = Len(snt) + (IF p < m THEN m - p ELSE 0)  BY Zenon DEF Held
<1>3. Len(snt) <= Len(acc)  BY <1>1, <1>2
<1>4. snt = SubSeq(acc, 1, Len(snt))
  <2> DEFINE first == SubSeq(acc, 1, Len(snt))
  <2>1. /\ first \in Seq(Byte) /\ Len(first) = Len(snt)
        /\ \A i \in 1..Len(snt) : first[i] = acc[i]
    BY <1>1, <1>3
  <2> HIDE DEF first
  <2>2. \A i \in 1..Len(snt) : first[i] = snt[i]  BY <2>1, Zenon DEF Held
  <2>3. first = snt  BY <2>1, <2>2, SeqSame, Zenon
  <2>4. QED  BY <2>3, Zenon DEF first
<1>5. acc = snt \o SubSeq(buf, p + 1, m)
  <2> DEFINE all == snt \o SubSeq(buf, p + 1, m)
  <2>1. all \in Seq(Byte) /\ Held(buf, all, snt, p, m)  BY HeldInFlight, Zenon
  <2> HIDE DEF all
  <2>2. Len(all) = Len(acc)  BY <1>1, <1>2, <2>1 DEF Held
  <2>3. ASSUME NEW i \in 1..Len(acc) PROVE acc[i] = all[i]
    <3>1. CASE i <= Len(snt)
      <4>1. i \in 1..Len(snt)  BY <1>1, <3>1
      <4>2. QED  BY <2>1, <4>1, Zenon DEF Held
    <3>2. CASE i > Len(snt)
      <4> DEFINE k == i - Len(snt) + p
      <4>1. k \in p + 1..m /\ Len(snt) + (k - p) = i  BY <1>1, <1>2, <3>2
      <4> HIDE DEF k
      <4>2. acc[Len(snt) + (k - p)] = all[Len(snt) + (k - p)]  BY <2>1, <4>1, Zenon DEF Held
      <4>3. QED  BY <4>1, <4>2, Zenon
    <3>3. QED  BY <1>1, <3>1, <3>2
  <2>4. acc = all  BY <2>1, <2>2, <2>3, SeqSame, Zenon
  <2>5. QED  BY <2>4, Zenon DEF all
<1>6. QED  BY <1>3, <1>4, <1>5, Zenon DEF Accounted

LEMMA MessageBytes ==
    ASSUME NEW id \in Nat, NEW n \in Nat
    PROVE  Message(id, n) \in Seq(Byte) /\ Len(Message(id, n)) = n /\ DOMAIN Message(id, n) = 1..n
BY DEF Message, Byte

LEMMA BufferKept ==
    ASSUME NEW buf \in Buffer, NEW id \in Nat, NEW n \in Nat, NEW p \in Nat, NEW m \in Nat,
           NEW place \in Nat
    PROVE  /\ m <= TxBufSize => Moved(buf, p, m) \in Buffer
           /\ Encoded(buf, place, Message(id, n)) \in Buffer
<1>1. TxBufSize \in Nat  BY ConsoleTxAssumption, Zenon
<1>2. ASSUME m <= TxBufSize PROVE Moved(buf, p, m) \in Buffer
  <2>1. ASSUME NEW i \in 1..TxBufSize
        PROVE  (IF i <= m - p THEN buf[i + p] ELSE buf[i]) \in Byte
    <3>1. i <= m - p => i + p \in 1..TxBufSize  BY <1>1, <1>2, <2>1
    <3>2. QED  BY <2>1, <3>1, Zenon DEF Buffer
  <2>2. QED  BY <2>1, Zenon DEF Moved, Buffer
<1>3. Encoded(buf, place, Message(id, n)) \in Buffer
  <2> DEFINE msg == Message(id, n)
  <2>1. msg \in Seq(Byte) /\ DOMAIN msg = 1..n /\ Len(msg) = n  BY MessageBytes, Zenon
  <2> HIDE DEF msg
  <2>2. \A j \in 1..n : msg[j] \in Byte  BY <2>1
  <2>3. ASSUME NEW i \in 1..TxBufSize
        PROVE  (IF i - place \in DOMAIN msg THEN msg[i - place] ELSE buf[i]) \in Byte
    BY <2>1, <2>2, <2>3, Zenon DEF Buffer
  <2>4. Encoded(buf, place, msg) \in Buffer  BY <2>3, Zenon DEF Encoded, Buffer
  <2>5. QED  BY <2>4, Zenon DEF msg
<1>4. QED  BY <1>2, <1>3, Zenon

LEMMA EncodedBytes ==
    ASSUME NEW buf, NEW id \in Nat, NEW n \in Nat, NEW place \in Nat, place + n <= TxBufSize
    PROVE  Carries(Encoded(buf, place, Message(id, n)), place, Message(id, n), n)
<1> DEFINE msg == Message(id, n)
<1>1. DOMAIN msg = 1..n /\ TxBufSize \in Nat  BY MessageBytes, ConsoleTxAssumption, Zenon
<1> HIDE DEF msg
<1>2. ASSUME NEW k \in 1..n PROVE Encoded(buf, place, msg)[place + k] = msg[k]
  <2>1. place + k \in 1..TxBufSize /\ (place + k) - place = k  BY <1>1, <1>2
  <2>2. QED  BY <1>1, <2>1, Zenon DEF Encoded
<1>3. QED  BY <1>2, Zenon DEF msg, Carries


-----------------------------------------------------------------------------
(* The steps of command_sendf in the main loop *)

CallStep ==
    \/ Begin \/ SetInSendf \/ ReadPositions \/ ResetMax \/ ResetPos \/ NotEmpty \/ CheckSpace
    \/ MoveDisable \/ MoveBuffer \/ MovePos \/ MoveMax \/ MoveEnable
    \/ Encode \/ Publish \/ EnableTxIrq \/ End

LEMMA TxConstants == TxBufSize \in Nat /\ MaxSize \in Nat /\ MaxSize <= TxBufSize /\ 0 < TxBufSize
BY ConsoleTxAssumption

LEMMA CallPlaces ==
    ASSUME TxInv, CallStep
    PROVE  CallMarked' /\ PositionsRead' /\ RoomFound' /\ IrqKept'
<1>1. CASE Begin
  <2>1. CallMarked'  BY <1>1, Zenon DEF Begin, TxInv, CallMarked, InCall, shared
  <2>2. PositionsRead'
    BY <1>1, TxConstants, Zenon DEF Begin, TxInv, TxTypes, PositionsRead, Ordered, shared, call
  <2>3. RoomFound'
    BY <1>1, TxConstants, Zenon DEF Begin, TxInv, TxTypes, RoomFound, PositionsRead, Ordered, shared, call
  <2>4. IrqKept'
    BY <1>1, TxConstants, Zenon DEF Begin, TxInv, TxTypes, IrqKept, PositionsRead, shared, call
  <2>5. QED  BY <2>1, <2>2, <2>3, <2>4, Zenon
<1>2. CASE SetInSendf
  <2>1. CallMarked'  BY <1>2, Zenon DEF SetInSendf, TxInv, CallMarked, InCall, shared
  <2>2. PositionsRead'
    BY <1>2, TxConstants, Zenon DEF SetInSendf, TxInv, TxTypes, PositionsRead, Ordered, shared, call
  <2>3. RoomFound'
    BY <1>2, TxConstants, Zenon DEF SetInSendf, TxInv, TxTypes, RoomFound, PositionsRead, Ordered, shared, call
  <2>4. IrqKept'
    BY <1>2, TxConstants, Zenon DEF SetInSendf, TxInv, TxTypes, IrqKept, PositionsRead, shared, call
  <2>5. QED  BY <2>1, <2>2, <2>3, <2>4, Zenon
<1>3. CASE ReadPositions
  <2>1. CallMarked'  BY <1>3, Zenon DEF ReadPositions, TxInv, CallMarked, InCall, shared
  <2>2. PositionsRead'
    BY <1>3, TxConstants DEF ReadPositions, TxInv, TxTypes, PositionsRead, Ordered, shared, call
  <2>3. RoomFound'
    BY <1>3, TxConstants, Zenon DEF ReadPositions, TxInv, TxTypes, RoomFound, PositionsRead, Ordered, shared, call
  <2>4. IrqKept'
    BY <1>3, TxConstants, Zenon DEF ReadPositions, TxInv, TxTypes, IrqKept, PositionsRead, shared, call
  <2>5. QED  BY <2>1, <2>2, <2>3, <2>4, Zenon
<1>4. CASE ResetMax
  <2>1. CallMarked'  BY <1>4, Zenon DEF ResetMax, TxInv, CallMarked, InCall, shared
  <2>2. PositionsRead'
    BY <1>4, TxConstants, Zenon DEF ResetMax, TxInv, TxTypes, PositionsRead, Ordered, shared, call
  <2>3. RoomFound'
    BY <1>4, TxConstants, Zenon DEF ResetMax, TxInv, TxTypes, RoomFound, PositionsRead, Ordered, shared, call
  <2>4. IrqKept'
    BY <1>4, TxConstants DEF ResetMax, TxInv, TxTypes, IrqKept, PositionsRead, shared, call
  <2>5. QED  BY <2>1, <2>2, <2>3, <2>4, Zenon
<1>5. CASE ResetPos
  <2>1. CallMarked'  BY <1>5, Zenon DEF ResetPos, TxInv, CallMarked, InCall, shared
  <2>2. PositionsRead'
    BY <1>5, TxConstants DEF ResetPos, TxInv, TxTypes, PositionsRead, Ordered, shared, call
  <2>3. RoomFound'
    BY <1>5, TxConstants, Zenon DEF ResetPos, TxInv, TxTypes, RoomFound, PositionsRead, Ordered, shared, call
  <2>4. IrqKept'
    BY <1>5, TxConstants DEF ResetPos, TxInv, TxTypes, IrqKept, PositionsRead, shared, call
  <2>5. QED  BY <2>1, <2>2, <2>3, <2>4, Zenon
<1>6. CASE NotEmpty
  <2>1. CallMarked'  BY <1>6, Zenon DEF NotEmpty, TxInv, CallMarked, InCall, shared
  <2>2. PositionsRead'
    BY <1>6, TxConstants, Zenon DEF NotEmpty, TxInv, TxTypes, PositionsRead, Ordered, shared, call
  <2>3. RoomFound'
    BY <1>6, TxConstants, Zenon DEF NotEmpty, TxInv, TxTypes, RoomFound, PositionsRead, Ordered, shared, call
  <2>4. IrqKept'
    BY <1>6, TxConstants, Zenon DEF NotEmpty, TxInv, TxTypes, IrqKept, PositionsRead, shared, call
  <2>5. QED  BY <2>1, <2>2, <2>3, <2>4, Zenon
<1>7. CASE CheckSpace
  <2>1. CallMarked'  BY <1>7, Zenon DEF CheckSpace, TxInv, CallMarked, InCall, shared
  <2>2. PositionsRead'
    BY <1>7, TxConstants, Zenon DEF CheckSpace, TxInv, TxTypes, PositionsRead, Ordered, shared, call
  <2>3. RoomFound'
    BY <1>7, TxConstants DEF CheckSpace, TxInv, TxTypes, RoomFound, PositionsRead, Ordered, shared, call
  <2>4. IrqKept'
    BY <1>7, TxConstants, Zenon DEF CheckSpace, TxInv, TxTypes, IrqKept, PositionsRead, shared, call
  <2>5. QED  BY <2>1, <2>2, <2>3, <2>4, Zenon
<1>8. CASE MoveDisable
  <2>1. CallMarked'  BY <1>8, Zenon DEF MoveDisable, TxInv, CallMarked, InCall, shared
  <2>2. PositionsRead'
    BY <1>8, TxConstants, Zenon DEF MoveDisable, TxInv, TxTypes, PositionsRead, Ordered, shared, call
  <2>3. RoomFound'
    BY <1>8, TxConstants, Zenon DEF MoveDisable, TxInv, TxTypes, RoomFound, PositionsRead, Ordered, shared, call
  <2>4. IrqKept'
    BY <1>8, TxConstants DEF MoveDisable, TxInv, TxTypes, IrqKept, PositionsRead, shared, call
  <2>5. QED  BY <2>1, <2>2, <2>3, <2>4, Zenon
<1>9. CASE MoveBuffer
  <2>1. CallMarked'  BY <1>9, Zenon DEF MoveBuffer, TxInv, CallMarked, InCall, shared
  <2>2. PositionsRead'
    BY <1>9, TxConstants, Zenon DEF MoveBuffer, TxInv, TxTypes, PositionsRead, Ordered, shared, call
  <2>3. RoomFound'
    BY <1>9, TxConstants DEF MoveBuffer, TxInv, TxTypes, RoomFound, PositionsRead, Ordered, shared, call
  <2>4. IrqKept'
    BY <1>9, TxConstants, Zenon DEF MoveBuffer, TxInv, TxTypes, IrqKept, PositionsRead, shared, call
  <2>5. QED  BY <2>1, <2>2, <2>3, <2>4, Zenon
<1>10. CASE MovePos
  <2>1. CallMarked'  BY <1>10, Zenon DEF MovePos, TxInv, CallMarked, InCall, shared
  <2>2. PositionsRead'
    BY <1>10, TxConstants, Zenon DEF MovePos, TxInv, TxTypes, PositionsRead, Ordered, shared, call
  <2>3. RoomFound'
    BY <1>10, TxConstants, Zenon DEF MovePos, TxInv, TxTypes, RoomFound, PositionsRead, Ordered, shared, call
  <2>4. IrqKept'
    BY <1>10, TxConstants DEF MovePos, TxInv, TxTypes, IrqKept, PositionsRead, shared, call
  <2>5. QED  BY <2>1, <2>2, <2>3, <2>4, Zenon
<1>11. CASE MoveMax
  <2>1. CallMarked'  BY <1>11, Zenon DEF MoveMax, TxInv, CallMarked, InCall, shared
  <2>2. PositionsRead'
    BY <1>11, TxConstants DEF MoveMax, TxInv, TxTypes, PositionsRead, Ordered, shared, call
  <2>3. RoomFound'
    BY <1>11, TxConstants, Zenon DEF MoveMax, TxInv, TxTypes, RoomFound, PositionsRead, Ordered, shared, call
  <2>4. IrqKept'
    BY <1>11, TxConstants, Zenon DEF MoveMax, TxInv, TxTypes, IrqKept, PositionsRead, shared, call
  <2>5. QED  BY <2>1, <2>2, <2>3, <2>4, Zenon
<1>12. CASE MoveEnable
  <2>1. CallMarked'  BY <1>12, Zenon DEF MoveEnable, TxInv, CallMarked, InCall, shared
  <2>2. PositionsRead'
    BY <1>12, TxConstants, Zenon DEF MoveEnable, TxInv, TxTypes, PositionsRead, Ordered, shared, call
  <2>3. RoomFound'
    BY <1>12, TxConstants, Zenon DEF MoveEnable, TxInv, TxTypes, RoomFound, PositionsRead, Ordered, shared, call
  <2>4. IrqKept'
    BY <1>12, TxConstants, Zenon DEF MoveEnable, TxInv, TxTypes, IrqKept, PositionsRead, shared, call
  <2>5. QED  BY <2>1, <2>2, <2>3, <2>4, Zenon
<1>13. CASE Encode
  <2>1. CallMarked'  BY <1>13, Zenon DEF Encode, TxInv, CallMarked, InCall, shared
  <2>2. PositionsRead'
    BY <1>13, TxConstants, Zenon DEF Encode, TxInv, TxTypes, PositionsRead, Ordered, shared, call
  <2>3. RoomFound'
    BY <1>13, TxConstants, Zenon DEF Encode, TxInv, TxTypes, RoomFound, PositionsRead, Ordered, shared, call
  <2>4. IrqKept'
    BY <1>13, TxConstants, Zenon DEF Encode, TxInv, TxTypes, IrqKept, PositionsRead, shared, call
  <2>5. QED  BY <2>1, <2>2, <2>3, <2>4, Zenon
<1>14. CASE Publish
  <2>1. CallMarked'  BY <1>14, Zenon DEF Publish, TxInv, CallMarked, InCall, shared
  <2>2. PositionsRead'
    BY <1>14, TxConstants, Zenon DEF Publish, TxInv, TxTypes, PositionsRead, Ordered, shared, call
  <2>3. RoomFound'
    BY <1>14, TxConstants, Zenon DEF Publish, TxInv, TxTypes, RoomFound, PositionsRead, Ordered, shared, call
  <2>4. IrqKept'
    BY <1>14, TxConstants, Zenon DEF Publish, TxInv, TxTypes, IrqKept, PositionsRead, shared, call
  <2>5. QED  BY <2>1, <2>2, <2>3, <2>4, Zenon
<1>15. CASE EnableTxIrq
  <2>1. CallMarked'  BY <1>15, Zenon DEF EnableTxIrq, TxInv, CallMarked, InCall, shared
  <2>2. PositionsRead'
    BY <1>15, TxConstants, Zenon DEF EnableTxIrq, TxInv, TxTypes, PositionsRead, Ordered, shared, call
  <2>3. RoomFound'
    BY <1>15, TxConstants, Zenon DEF EnableTxIrq, TxInv, TxTypes, RoomFound, PositionsRead, Ordered, shared, call
  <2>4. IrqKept'
    BY <1>15, TxConstants, Zenon DEF EnableTxIrq, TxInv, TxTypes, IrqKept, PositionsRead, shared, call
  <2>5. QED  BY <2>1, <2>2, <2>3, <2>4, Zenon
<1>16. CASE End
  <2>1. CallMarked'  BY <1>16, Zenon DEF End, TxInv, CallMarked, InCall, shared
  <2>2. PositionsRead'
    BY <1>16, TxConstants, Zenon DEF End, TxInv, TxTypes, PositionsRead, Ordered, shared, call
  <2>3. RoomFound'
    BY <1>16, TxConstants, Zenon DEF End, TxInv, TxTypes, RoomFound, PositionsRead, Ordered, shared, call
  <2>4. IrqKept'
    BY <1>16, TxConstants, Zenon DEF End, TxInv, TxTypes, IrqKept, PositionsRead, shared, call
  <2>5. QED  BY <2>1, <2>2, <2>3, <2>4, Zenon
<1>17. QED
  BY <1>1, <1>2, <1>3, <1>4, <1>5, <1>6, <1>7, <1>8, <1>9, <1>10, <1>11, <1>12, <1>13, <1>14, <1>15, <1>16, Zenon
     DEF CallStep

\* Of these steps four change the buffer or what is held of it.
LEMMA CallTypes ==
    ASSUME TxInv, CallStep
    PROVE  TxTypes'
<1>1. CASE MoveBuffer
  <2>1. /\ transmit_buf \in Buffer /\ transmit_pos \in Nat /\ tmax \in Nat /\ tmax <= TxBufSize
        /\ transmit_pos <= tmax
    BY <1>1, TxConstants DEF MoveBuffer, TxInv, TxTypes, PositionsRead, Ordered
  <2>2. Moved(transmit_buf, transmit_pos, tmax) \in Buffer  BY <2>1, BufferKept, Zenon
  <2>3. QED  BY <1>1, <2>1, <2>2, TxConstants DEF MoveBuffer, TxInv, TxTypes
<1>2. CASE Encode
  <2>1. transmit_buf \in Buffer /\ tmax \in Nat /\ messages + 1 \in Nat /\ len \in Nat
    BY TxConstants DEF TxInv, TxTypes
  <2>2. Encoded(transmit_buf, tmax, Message(messages + 1, len)) \in Buffer  BY <2>1, BufferKept, Zenon
  <2>3. QED  BY <1>2, <2>1, <2>2, Zenon DEF Encode, TxInv, TxTypes, call
<1>3. CASE Publish
  <2>1. tmax \in Nat /\ len \in Nat /\ tmax + len <= TxBufSize
    BY <1>3, TxConstants DEF Publish, TxInv, TxTypes, RoomFound
  <2>2. SubSeq(transmit_buf, tmax + 1, tmax + len) \in Seq(Byte)
    BY <2>1, BufferPart, Zenon DEF TxInv, TxTypes
  <2>3. accepted' \in Seq(Byte)
    BY <1>3, <2>2, SeqConcat, Zenon DEF Publish, TxInv, TxTypes
  <2>4. QED  BY <1>3, <2>1, <2>3, TxConstants DEF Publish, TxInv, TxTypes, call
<1>4. CASE Begin
  BY <1>4, TxConstants DEF Begin, TxInv, TxTypes, shared, call
<1>5. CASE SetInSendf
  BY <1>5, TxConstants, Zenon DEF SetInSendf, TxInv, TxTypes, shared, call
<1>6. CASE ReadPositions
  BY <1>6, TxConstants, Zenon DEF ReadPositions, TxInv, TxTypes, shared, call
<1>7. CASE ResetMax
  BY <1>7, TxConstants DEF ResetMax, TxInv, TxTypes, shared, call
<1>8. CASE ResetPos
  BY <1>8, TxConstants DEF ResetPos, TxInv, TxTypes, shared, call
<1>9. CASE NotEmpty
  BY <1>9, TxConstants, Zenon DEF NotEmpty, TxInv, TxTypes, shared, call
<1>10. CASE CheckSpace
  BY <1>10, TxConstants, Zenon DEF CheckSpace, TxInv, TxTypes, shared, call
<1>11. CASE MoveDisable
  BY <1>11, TxConstants DEF MoveDisable, TxInv, TxTypes, shared, call
<1>12. CASE MovePos
  BY <1>12, TxConstants DEF MovePos, TxInv, TxTypes, shared, call
<1>13. CASE MoveMax
  BY <1>13, TxConstants, Zenon DEF MoveMax, TxInv, TxTypes, shared, call
<1>14. CASE MoveEnable
  BY <1>14, TxConstants, Zenon DEF MoveEnable, TxInv, TxTypes, shared, call
<1>15. CASE EnableTxIrq
  BY <1>15, TxConstants, Zenon DEF EnableTxIrq, TxInv, TxTypes, shared, call
<1>16. CASE End
  BY <1>16, TxConstants DEF End, TxInv, TxTypes, shared, call
<1>17. QED
  BY <1>1, <1>2, <1>3, <1>4, <1>5, <1>6, <1>7, <1>8, <1>9, <1>10, <1>11, <1>12, <1>13, <1>14, <1>15, <1>16, Zenon
     DEF CallStep

LEMMA CallBytes ==
    ASSUME TxInv, CallStep
    PROVE  BytesHeld'
<1> USE DEF TxInv
<1>1. CASE MoveBuffer
  <2>1. /\ transmit_buf \in Buffer /\ transmit_pos \in Nat /\ tmax \in Nat /\ tmax <= TxBufSize
        /\ transmit_pos <= tmax /\ sent \in Seq(Byte)
    BY <1>1, TxConstants DEF MoveBuffer, TxTypes, PositionsRead, Ordered
  <2>2. Held(transmit_buf, accepted, sent, transmit_pos, tmax)  BY <1>1, Zenon DEF MoveBuffer, BytesHeld
  <2>3. Held(Moved(transmit_buf, transmit_pos, tmax), accepted, sent, 0, tmax - transmit_pos)
    BY <2>1, <2>2, HeldMoved, Zenon
  <2>4. QED  BY <1>1, <2>3, Zenon DEF MoveBuffer, BytesHeld
<1>2. CASE Encode
  <2>1. transmit_buf \in Buffer /\ transmit_pos \in Nat /\ tmax \in Nat /\ tmax <= TxBufSize
    BY TxConstants DEF TxTypes
  <2>2. messages + 1 \in Nat /\ len \in Nat  BY TxConstants DEF TxTypes
  <2>3. Held(transmit_buf, accepted, sent, transmit_pos, tmax)
    BY <1>2, Zenon DEF Encode, BytesHeld, PositionsRead
  <2>4. Held(Encoded(transmit_buf, tmax, Message(messages + 1, len)), accepted, sent, transmit_pos, tmax)
    BY <2>1, <2>2, <2>3, HeldEncoded, Zenon
  <2>5. QED  BY <1>2, <2>4, Zenon DEF Encode, BytesHeld, PositionsRead, call
<1>3. CASE Publish
  <2>1. /\ tmax \in Nat /\ len \in Nat /\ tmax + len <= TxBufSize /\ transmit_pos \in Nat
        /\ transmit_pos <= tmax /\ sent \in Seq(Byte) /\ accepted \in Seq(Byte)
    BY <1>3, TxConstants DEF Publish, TxTypes, RoomFound, PositionsRead
  <2> DEFINE add == SubSeq(transmit_buf, tmax + 1, tmax + len)
  <2>2. /\ add \in Seq(Byte) /\ Len(add) = len
        /\ Carries(transmit_buf, tmax, add, len)
    BY <2>1, BufferPart, Zenon DEF TxTypes
  <2> HIDE DEF add
  <2>3. Held(transmit_buf, accepted, sent, transmit_pos, tmax)
    BY <1>3, Zenon DEF Publish, BytesHeld, PositionsRead
  <2>4. Held(transmit_buf, accepted \o add, sent, transmit_pos, tmax + len)
    BY <2>1, <2>2, <2>3, HeldPublished, Zenon
  <2>5. QED  BY <1>3, <2>4, Zenon DEF Publish, BytesHeld, add
<1>4. CASE ResetMax
  <2>1. /\ sent \in Seq(Byte) /\ transmit_pos \in Nat /\ transmit_max \in Nat /\ 0 \in Nat
        /\ transmit_max <= transmit_pos /\ 0 <= transmit_pos
    BY <1>4, TxConstants DEF ResetMax, TxTypes, PositionsRead
  <2>2. Held(transmit_buf, accepted, sent, transmit_pos, transmit_max)  BY <1>4, Zenon DEF ResetMax, BytesHeld
  <2>3. Held(transmit_buf, accepted, sent, transmit_pos, 0)  BY <2>1, <2>2, HeldNothing, Zenon
  <2>4. QED  BY <1>4, <2>3, Zenon DEF ResetMax, BytesHeld
<1>5. CASE ResetPos
  <2>1. sent \in Seq(Byte) /\ transmit_pos \in Nat /\ transmit_max \in Nat /\ transmit_max = 0
    BY <1>5, TxConstants DEF ResetPos, TxTypes, PositionsRead
  <2>2. transmit_max <= transmit_pos /\ 0 \in Nat /\ transmit_max <= 0  BY <2>1
  <2>3. Held(transmit_buf, accepted, sent, transmit_pos, transmit_max)  BY <1>5, Zenon DEF ResetPos, BytesHeld
  <2>4. Held(transmit_buf, accepted, sent, 0, transmit_max)  BY <2>1, <2>2, <2>3, HeldNothing, Zenon
  <2>5. QED  BY <1>5, <2>4, Zenon DEF ResetPos, BytesHeld
<1>6. CASE Begin
  BY <1>6, Zenon DEF Begin, BytesHeld, PositionsRead, shared, call
<1>7. CASE SetInSendf
  BY <1>7, Zenon DEF SetInSendf, BytesHeld, PositionsRead, shared, call
<1>8. CASE ReadPositions
  BY <1>8, Zenon DEF ReadPositions, BytesHeld, PositionsRead, shared, call
<1>9. CASE NotEmpty
  BY <1>9, Zenon DEF NotEmpty, BytesHeld, PositionsRead, shared, call
<1>10. CASE CheckSpace
  BY <1>10, Zenon DEF CheckSpace, BytesHeld, PositionsRead, shared, call
<1>11. CASE MoveDisable
  BY <1>11, Zenon DEF MoveDisable, BytesHeld, PositionsRead, shared, call
<1>12. CASE MovePos
  BY <1>12, Zenon DEF MovePos, BytesHeld, PositionsRead, shared, call
<1>13. CASE MoveMax
  BY <1>13, Zenon DEF MoveMax, BytesHeld, PositionsRead, shared, call
<1>14. CASE MoveEnable
  BY <1>14, Zenon DEF MoveEnable, BytesHeld, PositionsRead, shared, call
<1>15. CASE EnableTxIrq
  BY <1>15, Zenon DEF EnableTxIrq, BytesHeld, PositionsRead, shared, call
<1>16. CASE End
  BY <1>16, Zenon DEF End, BytesHeld, PositionsRead, shared, call
<1>17. QED
  BY <1>1, <1>2, <1>3, <1>4, <1>5, <1>6, <1>7, <1>8, <1>9, <1>10, <1>11, <1>12, <1>13, <1>14, <1>15, <1>16, Zenon
     DEF CallStep


-----------------------------------------------------------------------------
(* Interrupts and shutdowns *)

LEMMA TxIrqKeeps ==
    ASSUME TxInv, TxIrq
    PROVE  TxInv'
<1> USE DEF TxInv
<1>1. CASE transmit_pos >= transmit_max
  <2>1. TxTypes' /\ CallMarked' /\ BytesHeld' /\ PositionsRead' /\ RoomFound'
    BY <1>1, Zenon DEF TxIrq, TxTypes, CallMarked, BytesHeld, PositionsRead, Ordered, RoomFound, call
  <2>2. ~(transmit_pos < transmit_max)  BY <1>1, TxConstants DEF TxTypes
  <2>3. IrqKept'  BY <1>1, <2>2, Zenon DEF TxIrq, IrqKept
  <2>4. QED  BY <2>1, <2>3, Zenon
<1>2. CASE ~(transmit_pos >= transmit_max)
  <2>1. /\ transmit_pos \in Nat /\ transmit_max \in Nat /\ transmit_pos < transmit_max
        /\ transmit_buf[transmit_pos + 1] \in Byte /\ sent \in Seq(Byte)
    BY <1>2, TxConstants DEF TxTypes, Buffer
  <2>2. tx_pc \notin {"move2", "move3", "move4"}
    BY <2>1 DEF PositionsRead
  <2>3. sent' = Append(sent, transmit_buf[transmit_pos + 1]) /\ transmit_pos' = transmit_pos + 1
    BY <1>2, Zenon DEF TxIrq
  <2>4. Held(transmit_buf, accepted, sent', transmit_pos', transmit_max)
    <3>1. Held(transmit_buf, accepted, sent, transmit_pos, transmit_max)  BY <2>2, Zenon DEF BytesHeld
    <3>2. Held(transmit_buf, accepted, Append(sent, transmit_buf[transmit_pos + 1]),
               transmit_pos + 1, transmit_max)
      BY <2>1, <3>1, HeldSend, Zenon
    <3>3. QED  BY <2>3, <3>2, Zenon
  <2>5. BytesHeld'  BY <2>2, <2>4, Zenon DEF TxIrq, BytesHeld
  <2>6. sent' \in Seq(Byte)  BY <2>1, <2>3, SeqAppend, Zenon
  <2>7. TxTypes'  BY <2>1, <2>3, <2>6, TxConstants DEF TxIrq, TxTypes, call
  <2>8. CallMarked' /\ RoomFound'  BY Zenon DEF TxIrq, CallMarked, RoomFound, call
  <2>9. PositionsRead'
    BY <2>1, <2>2, <2>3, TxConstants DEF TxIrq, TxTypes, PositionsRead, Ordered, call
  <2>10. IrqKept'  BY <1>2, <2>1, <2>3, Zenon DEF TxIrq, IrqKept
  <2>11. QED  BY <2>5, <2>7, <2>8, <2>9, <2>10, Zenon
<1>3. QED  BY <1>1, <1>2, Zenon

\* A handler's command_sendf finds console_sendf outside of a call.
LEMMA IrqSendfKeeps ==
    ASSUME TxInv, IrqSendf
    PROVE  TxInv'
<1> USE DEF TxInv
<1>1. tx_pc \in {"idle", "set"} /\ tx_pc' = tx_pc
  BY Zenon DEF IrqSendf, MayIrqSendf, CallMarked
<1> DEFINE empty == transmit_pos >= transmit_max
           p == IF empty THEN 0 ELSE transmit_pos
           m == IF empty THEN 0 ELSE transmit_max
           id == messages + 1
<1> DEFINE Placed(size, n) ==
             /\ m + size - p <= TxBufSize
             /\ LET move == m + size > TxBufSize
                    start == IF move THEN 0 ELSE p
                    at == IF move THEN m - p ELSE m
                    buf == IF move THEN Moved(transmit_buf, p, m) ELSE transmit_buf
                IN  /\ transmit_buf' = Encoded(buf, at, Message(id, n))
                    /\ transmit_pos' = start /\ transmit_max' = at + n
             /\ accepted' = accepted \o Message(id, n)
<1>0. PICK size \in 1..MaxSize : \E n \in 1..size : Placed(size, n)  BY Zenon DEF IrqSendf
<1>2. PICK n \in 1..size : Placed(size, n)  BY <1>0, Zenon
<1> DEFINE move == m + size > TxBufSize
           start == IF move THEN 0 ELSE p
           at == IF move THEN m - p ELSE m
           buf == IF move THEN Moved(transmit_buf, p, m) ELSE transmit_buf
<1>3. /\ transmit_pos \in Nat /\ transmit_max \in Nat /\ transmit_max <= TxBufSize
      /\ transmit_buf \in Buffer /\ sent \in Seq(Byte) /\ accepted \in Seq(Byte) /\ id \in Nat
      /\ size \in Nat /\ n \in Nat /\ n <= size
  BY <1>2, TxConstants DEF TxTypes
<1>4. p \in Nat /\ m \in Nat /\ p <= m /\ m <= TxBufSize  BY <1>3, TxConstants
<1>5. Held(transmit_buf, accepted, sent, p, m)
  <2>1. Held(transmit_buf, accepted, sent, transmit_pos, transmit_max)  BY <1>1, Zenon DEF BytesHeld
  <2>2. CASE empty
    <3>1. 0 \in Nat /\ 0 <= 0 /\ transmit_max <= transmit_pos  BY <1>3, <2>2
    <3>2. Held(transmit_buf, accepted, sent, 0, 0)  BY <1>3, <2>1, <3>1, HeldNothing, Zenon
    <3>3. QED  BY <2>2, <3>2, Zenon
  <2>3. CASE ~empty  BY <2>1, <2>3, Zenon
  <2>4. QED  BY <2>2, <2>3, Zenon
<1>6. m + size - p <= TxBufSize  BY <1>2, Zenon
<1>7. /\ transmit_buf' = Encoded(buf, at, Message(id, n))
      /\ transmit_pos' = start /\ transmit_max' = at + n
      /\ accepted' = accepted \o Message(id, n)
  BY <1>2, Zenon
<1> HIDE DEF p, m, id
<1>8. at \in Nat /\ start \in Nat /\ start <= at /\ at + n <= TxBufSize /\ at <= TxBufSize
  BY <1>3, <1>4, <1>6, TxConstants
<1>9. buf \in Buffer /\ Held(buf, accepted, sent, start, at)
  <2>1. CASE move
    <3>1. Moved(transmit_buf, p, m) \in Buffer  BY <1>3, <1>4, BufferKept, Zenon
    <3>2. Held(Moved(transmit_buf, p, m), accepted, sent, 0, m - p)
      BY <1>3, <1>4, <1>5, HeldMoved, Zenon
    <3>3. QED  BY <2>1, <3>1, <3>2, Zenon
  <2>2. CASE ~move  BY <1>3, <1>5, <2>2, Zenon
  <2>3. QED  BY <2>1, <2>2, Zenon
<1> HIDE DEF at, buf, start, move
<1> DEFINE buf2 == Encoded(buf, at, Message(id, n))
<1>10. Held(buf2, accepted, sent, start, at)  BY <1>3, <1>8, <1>9, HeldEncoded, Zenon
<1>11. buf2 \in Buffer  BY <1>3, <1>8, <1>9, BufferKept, Zenon
<1>12. Carries(buf2, at, Message(id, n), n)
  <2>1. id \in Nat /\ n \in Nat /\ at \in Nat /\ at + n <= TxBufSize  BY <1>3, <1>8, Zenon
  <2>2. QED  BY <2>1, EncodedBytes, Zenon
<1>13. Message(id, n) \in Seq(Byte) /\ Len(Message(id, n)) = n  BY <1>3, MessageBytes, Zenon
<1> HIDE DEF buf2
<1>14. Held(buf2, accepted \o Message(id, n), sent, start, at + n)
  BY <1>3, <1>8, <1>10, <1>12, <1>13, HeldPublished, Zenon
<1>15. BytesHeld'  BY <1>1, <1>7, <1>14, Zenon DEF IrqSendf, BytesHeld, buf2
<1>16. accepted' \in Seq(Byte)  BY <1>3, <1>7, <1>13, SeqConcat, Zenon
<1>17. TxTypes'
  <2>1. transmit_buf' \in Buffer  BY <1>7, <1>11, Zenon DEF buf2
  <2>2. transmit_pos' \in 0..TxBufSize /\ transmit_max' \in 0..TxBufSize
    BY <1>3, <1>7, <1>8, TxConstants
  <2>3. UNCHANGED <<sent, tpos, tmax, max_size, len>> /\ messages' = messages + 1
    BY Zenon DEF IrqSendf, call
  <2>4. QED  BY <1>16, <2>1, <2>2, <2>3 DEF TxTypes
<1>18. CallMarked' /\ PositionsRead' /\ RoomFound'
  BY <1>1, Zenon DEF IrqSendf, CallMarked, PositionsRead, RoomFound
<1>19. IrqKept'  BY Zenon DEF IrqSendf, IrqKept
<1>20. QED  BY <1>15, <1>17, <1>18, <1>19, Zenon

\* A shutdown leaves what the positions cover.
LEMMA TxShutdownKeeps ==
    ASSUME TxInv, TxShutdown
    PROVE  TxInv'
<1> USE DEF TxInv
<1>1. accepted' \in Seq(Byte) /\ Held(transmit_buf, accepted', sent, transmit_pos, transmit_max)
  BY HeldInFlight, Zenon DEF TxShutdown, InFlight, TxTypes
<1>2. TxTypes'  BY <1>1, TxConstants DEF TxShutdown, TxTypes, shared
<1>3. BytesHeld' /\ CallMarked' /\ PositionsRead' /\ RoomFound'
  BY <1>1, Zenon DEF TxShutdown, BytesHeld, CallMarked, InCall, PositionsRead, RoomFound, shared
<1>4. IrqKept'  BY Zenon DEF TxShutdown, IrqKept, shared
<1>5. QED  BY <1>2, <1>3, <1>4, Zenon

-----------------------------------------------------------------------------
LEMMA TxInitInv == TxInit => TxInv
<1> SUFFICES ASSUME TxInit PROVE TxInv  BY Zenon
<1>1. TxTypes  BY TxConstants DEF TxInit, TxTypes, Buffer, Byte
<1>2. PositionsRead /\ RoomFound  BY Zenon DEF TxInit, PositionsRead, RoomFound
<1>3. CallMarked /\ IrqKept
  <2>1. ~(transmit_pos < transmit_max) /\ tx_pc \notin InCall  BY DEF TxInit, InCall
  <2>2. QED  BY <2>1, Zenon DEF TxInit, CallMarked, IrqKept
<1>4. BytesHeld  BY DEF TxInit, BytesHeld, Held
<1>5. QED  BY <1>1, <1>2, <1>3, <1>4, Zenon DEF TxInv

LEMMA TxNextInv == TxInv /\ [TxNext]_txvars => TxInv'
<1> SUFFICES ASSUME TxInv, [TxNext]_txvars PROVE TxInv'  BY Zenon
<1>1. CASE CallStep  BY <1>1, CallPlaces, CallTypes, CallBytes, Zenon DEF TxInv
<1>2. CASE TxIrq  BY <1>2, TxIrqKeeps, Zenon
<1>3. CASE IrqSendf  BY <1>3, IrqSendfKeeps, Zenon
<1>4. CASE TxShutdown  BY <1>4, TxShutdownKeeps, Zenon
<1>5. CASE UNCHANGED txvars
  <2>1. TxTypes' /\ CallMarked' /\ PositionsRead' /\ RoomFound' /\ IrqKept'
    BY <1>5 DEF txvars, shared, call, TxInv, TxTypes, CallMarked, PositionsRead, Ordered, RoomFound,
                IrqKept
  <2>2. BytesHeld'  BY <1>5, Zenon DEF txvars, shared, call, TxInv, BytesHeld
  <2>3. QED  BY <2>1, <2>2, Zenon DEF TxInv
<1>6. QED  BY <1>1, <1>2, <1>3, <1>4, <1>5, Zenon DEF TxNext, CallStep

\* console_sendf and the transmit interrupt: for every size of the buffer and of the
\* messages and whatever interrupts, handlers' messages and shutdowns come between the
\* steps, the wire carries the accepted bytes in order, and the interrupt is enabled
\* while bytes wait.
THEOREM BytesAlwaysInOrder == TxSpec => []BytesInOrder
<1>1. TxInv => BytesInOrder
  <2> SUFFICES ASSUME TxInv PROVE BytesInOrder  BY Zenon
  <2>1. TxTypeOK  BY Zenon DEF TxInv, TxTypes, CallMarked, IrqKept, RoomFound, TxTypeOK
  <2>0. transmit_buf \in Buffer /\ accepted \in Seq(Byte) /\ sent \in Seq(Byte)  BY Zenon DEF TxInv, TxTypes
  <2>2. ASSUME NEW p \in 0..TxBufSize, NEW m \in 0..TxBufSize,
               Held(transmit_buf, accepted, sent, p, m)
        PROVE  Len(sent) <= Len(accepted) /\ sent = SubSeq(accepted, 1, Len(sent))
    BY <2>0, <2>2, HeldAccounts, Zenon
  <2>3. Len(sent) <= Len(accepted) /\ sent = SubSeq(accepted, 1, Len(sent))
    <3>1. 0 \in 0..TxBufSize  BY TxConstants
    <3>2. QED  BY <2>2, <3>1, Zenon DEF TxInv, TxTypes, BytesHeld
  <2>4. tx_pc = "idle" => accepted = sent \o InFlight
    <3> SUFFICES ASSUME tx_pc = "idle" PROVE accepted = sent \o InFlight  BY Zenon
    <3>1. Held(transmit_buf, accepted, sent, transmit_pos, transmit_max)  BY Zenon DEF TxInv, BytesHeld
    <3>2. transmit_pos \in 0..TxBufSize /\ transmit_max \in 0..TxBufSize  BY Zenon DEF TxInv, TxTypes
    <3>3. Accounted(transmit_buf, accepted, sent, transmit_pos, transmit_max)
      BY <2>0, <3>1, <3>2, HeldAccounts, Zenon
    <3>4. QED  BY <3>3, Zenon DEF Accounted, InFlight
  <2>5. tx_pc = "idle" /\ transmit_pos < transmit_max => tx_irq \/ stranded
    BY Zenon DEF TxInv, IrqKept
  <2>6. QED  BY <2>1, <2>3, <2>4, <2>5, Zenon DEF BytesInOrder
<1>2. QED  BY <1>1, TxInitInv, TxNextInv, PTL DEF TxSpec
=============================================================================
