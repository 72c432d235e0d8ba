------------------------------ MODULE Reactor -------------------------------
(***************************************************************************)
(* The host's event loop (klippy/reactor.py): timers, greenlets that pause *)
(* in the middle of a callback, mutexes, completions, and the queue by     *)
(* which other threads reach the loop.                                     *)
(*                                                                         *)
(* A callback runs on the dispatching greenlet until it first pauses; then *)
(* that greenlet is "detached", with a timer of its own that resumes it,   *)
(* and a new greenlet dispatches.  Which greenlet object that is does not  *)
(* matter, so a greenlet is named by the callback it runs.  Callbacks may  *)
(* call the reactor in any order that its interface allows.                *)
(***************************************************************************)
EXTENDS Integers, Sequences, FiniteSets

CONSTANTS
    Callback,
    MaxTime      \* bound: the clock

NOW == 0
NEVER == MaxTime + 1
Time == NOW..NEVER
None == "none"

ASSUME ReactorAssumption ==
    IsFiniteSet(Callback) /\ None \notin Callback /\ MaxTime \in Nat

VARIABLES
    now,
    at, eventtime, todo,     \* the dispatching greenlet in _dispatch_loop and _check_timers
    next_timer, timers, waketime,
    running,                 \* the callback whose code is running
    act, pc,                 \* per callback: how it runs and where it is
    is_locked, next_pending, queue, holds,   \* a mutex, and who has it
    result, waiting, until,  \* a completion, who waits for it, until when
    async_queue, pipe, thread

timer_vars == <<next_timer, timers, waketime>>
loop == <<at, eventtime, todo>>
mutex == <<is_locked, next_pending, queue, holds>>
completion == <<result, waiting, until>>
async == <<async_queue, pipe, thread>>
vars == <<now, loop, timer_vars, running, act, pc, mutex, completion, async>>

Cb(c) == <<"callback", c>>
Gr(c) == <<"greenlet", c>>
Timer == {Cb(c) : c \in Callback} \cup {Gr(c) : c \in Callback}
Min2(a, b) == IF a < b THEN a ELSE b

Init ==
    /\ now = 0
    /\ at = "top" /\ eventtime = 0 /\ todo = {}
    /\ timers = {Cb(c) : c \in Callback}
    /\ waketime \in {w \in [Timer -> {NOW, NEVER}] : \A c \in Callback : w[Gr(c)] = NEVER}
    /\ next_timer = IF \E t \in Timer : waketime[t] = NOW THEN NOW ELSE NEVER
    /\ running = None
    /\ act = [c \in Callback |-> "none"] /\ pc = [c \in Callback |-> "run"]
    /\ is_locked = FALSE /\ next_pending = FALSE /\ queue = <<>>
    /\ holds = [c \in Callback |-> FALSE]
    /\ result = FALSE /\ waiting = {} /\ until = [c \in Callback |-> NEVER]
    /\ async_queue = <<>> /\ pipe = FALSE /\ thread = "idle"

\* update_timer
UpdateTimer(t, w) ==
    /\ waketime' = [waketime EXCEPT ![t] = w]
    /\ next_timer' = Min2(next_timer, w)

Tick ==
    /\ now < MaxTime
    /\ now' = now + 1
    /\ UNCHANGED <<loop, timer_vars, running, act, pc, mutex, completion, async>>

-----------------------------------------------------------------------------
(* _dispatch_loop and _check_timers *)

CheckTimers ==
    /\ at = "top"
    /\ IF eventtime < next_timer
       THEN at' = "select" /\ UNCHANGED <<todo, next_timer>>
       ELSE at' = "scan" /\ todo' = timers /\ next_timer' = NEVER
    /\ UNCHANGED <<now, eventtime, timers, waketime, running, act, pc, mutex, completion,
                   async>>

SkipTimer(t) ==
    /\ at = "scan" /\ running = None /\ t \in todo
    /\ eventtime < waketime[t]
    /\ next_timer' = Min2(next_timer, waketime[t])
    /\ todo' = todo \ {t}
    /\ UNCHANGED <<now, at, eventtime, timers, waketime, running, act, pc, mutex,
                   completion, async>>

\* The timer's own callback, or the switch to a paused greenlet.
CallTimer(t) ==
    /\ at = "scan" /\ running = None /\ t \in todo
    /\ eventtime >= waketime[t]
    /\ waketime' = [waketime EXCEPT ![t] = NEVER]
    /\ todo' = todo \ {t}
    /\ running' = t[2]
    /\ act' = IF t[1] = "callback" THEN [act EXCEPT ![t[2]] = "direct"] ELSE act
    /\ UNCHANGED <<now, at, eventtime, next_timer, timers, pc, mutex, completion, async>>

ScanEnd ==
    /\ at = "scan" /\ running = None /\ todo = {}
    /\ at' = "select"
    /\ UNCHANGED <<now, eventtime, todo, timer_vars, running, act, pc, mutex, completion,
                   async>>

\* select returns: its timeout is over, or the pipe is readable.
SelectTimeout ==
    /\ at = "select" /\ ~pipe
    /\ eventtime' = now /\ at' = "top"
    /\ UNCHANGED <<now, todo, timer_vars, running, act, pc, mutex, completion, async>>

-----------------------------------------------------------------------------
(* pause: what a running callback does to wait *)

\* On the dispatching greenlet: register a timer for it and start another
\* dispatch loop.  On a greenlet that paused before: the waketime is what its
\* timer's callback returns to _check_timers.
PauseNoRestart(c, w) ==
    /\ running' = None
    /\ IF act[c] = "direct"
       THEN /\ act' = [act EXCEPT ![c] = "detached"]
            /\ timers' = timers \cup {Gr(c)}
            /\ waketime' = [waketime EXCEPT ![Gr(c)] = w]
            /\ next_timer' = Min2(next_timer, w)
            /\ at' = "top" /\ todo' = {} /\ eventtime' = now
       ELSE /\ UpdateTimer(Gr(c), w)
            /\ UNCHANGED <<act, timers, loop>>
Pause(c, w) ==
    /\ running' = None
    /\ IF act[c] = "direct"
       THEN /\ act' = [act EXCEPT ![c] = "detached"]
            /\ timers' = timers \cup {Gr(c)}
            /\ waketime' = [waketime EXCEPT ![Gr(c)] = w]
            /\ next_timer' = NOW
            /\ at' = "top" /\ todo' = {} /\ eventtime' = now
       ELSE /\ UpdateTimer(Gr(c), w)
            /\ UNCHANGED <<act, timers, loop>>

Running(c) == running = c /\ pc[c] = "run"

Sleep(c, w) ==
    /\ Running(c)
    /\ Pause(c, w)
    /\ UNCHANGED <<now, pc, mutex, completion, async>>

\* The callback ends and says when its timer is next due.  A detached
\* greenlet is put away by _end_greenlet.
Return(c, w) ==
    /\ Running(c) /\ ~holds[c]
    /\ running' = None
    /\ act' = [act EXCEPT ![c] = "none"]
    /\ waketime' = [waketime EXCEPT ![Cb(c)] = w, ![Gr(c)] = NEVER]
    /\ next_timer' = Min2(next_timer, w)
    /\ timers' = timers \ {Gr(c)}
    /\ UNCHANGED <<now, loop, pc, mutex, completion, async>>

\* A callback reschedules another timer, one that is not being run.
UpdateOther(c, d, w) ==
    /\ Running(c) /\ act[d] = "none"
    /\ UpdateTimer(Cb(d), w)
    /\ UNCHANGED <<now, loop, timers, running, act, pc, mutex, completion, async>>

-----------------------------------------------------------------------------
(* ReactorMutex *)

Lock(c) ==
    /\ Running(c) /\ ~holds[c]
    /\ IF ~is_locked
       THEN /\ is_locked' = TRUE
            /\ holds' = [holds EXCEPT ![c] = TRUE]
            /\ UNCHANGED <<now, loop, timer_vars, running, act, pc, next_pending, queue>>
       ELSE /\ queue' = Append(queue, c)
            /\ pc' = [pc EXCEPT ![c] = "lock"]
            /\ Pause(c, NEVER)
            /\ UNCHANGED <<now, is_locked, next_pending, holds>>
    /\ UNCHANGED <<completion, async>>

LockResumed(c) ==
    /\ running = c /\ pc[c] = "lock"
    /\ IF next_pending /\ Head(queue) = c
       THEN /\ next_pending' = FALSE
            /\ queue' = Tail(queue)
            /\ holds' = [holds EXCEPT ![c] = TRUE]
            /\ pc' = [pc EXCEPT ![c] = "run"]
            /\ UNCHANGED <<loop, timer_vars, running, act>>
       ELSE /\ Pause(c, NEVER)
            /\ UNCHANGED <<next_pending, queue, holds, pc>>
    /\ UNCHANGED <<now, is_locked, completion, async>>

\* The lock goes to the first in the queue without being released.
UnlockReleases(c) ==
    /\ Running(c) /\ holds[c]
    /\ holds' = [holds EXCEPT ![c] = FALSE]
    /\ is_locked' = FALSE
    /\ IF queue = <<>>
       THEN UNCHANGED <<next_pending, timer_vars>>
       ELSE /\ next_pending' = TRUE
            /\ UpdateTimer(Gr(Head(queue)), NOW)
            /\ UNCHANGED timers
    /\ UNCHANGED <<now, loop, running, act, pc, queue, completion, async>>
Unlock(c) ==
    /\ Running(c) /\ holds[c]
    /\ holds' = [holds EXCEPT ![c] = FALSE]
    /\ IF queue = <<>>
       THEN is_locked' = FALSE /\ UNCHANGED <<next_pending, timer_vars>>
       ELSE /\ next_pending' = TRUE
            /\ UpdateTimer(Gr(Head(queue)), NOW)
            /\ UNCHANGED <<is_locked, timers>>
    /\ UNCHANGED <<now, loop, running, act, pc, queue, completion, async>>

-----------------------------------------------------------------------------
(* ReactorCompletion *)

\* complete, from a callback (or from the async queue, below)
WakeWaiting(S) ==
    /\ waketime' = [t \in Timer |-> IF t \in {Gr(c) : c \in S} THEN NOW ELSE waketime[t]]
    /\ next_timer' = IF S = {} THEN next_timer ELSE NOW

Complete(c) ==
    /\ Running(c) /\ ~result
    /\ result' = TRUE
    /\ WakeWaiting(waiting)
    /\ UNCHANGED <<now, loop, timers, running, act, pc, mutex, waiting, until, async>>

Wait(c, w) ==
    /\ Running(c) /\ ~result
    /\ waiting' = waiting \cup {c}
    /\ until' = [until EXCEPT ![c] = w]
    /\ pc' = [pc EXCEPT ![c] = "wait"]
    /\ Pause(c, w)
    /\ UNCHANGED <<now, mutex, result, async>>

WaitResumed(c) ==
    /\ running = c /\ pc[c] = "wait"
    /\ waiting' = waiting \ {c}
    /\ until' = [until EXCEPT ![c] = NEVER]
    /\ pc' = [pc EXCEPT ![c] = "run"]
    /\ UNCHANGED <<now, loop, timer_vars, running, act, mutex, result, async>>

\* The completion is finished with; the next one is a new object.
NewCompletion ==
    /\ result /\ waiting = {}
    /\ result' = FALSE
    /\ UNCHANGED <<now, loop, timer_vars, running, act, pc, mutex, waiting, until, async>>

-----------------------------------------------------------------------------
(* Other threads *)

\* async_complete and register_async_callback: enqueue, then write the pipe.
AsyncPut ==
    /\ thread = "idle" /\ Len(async_queue) < 2
    /\ \E item \in {"complete", "callback"} : async_queue' = Append(async_queue, item)
    /\ thread' = "write"
    /\ UNCHANGED <<now, loop, timer_vars, running, act, pc, mutex, completion, pipe>>

AsyncWrite ==
    /\ thread = "write"
    /\ pipe' = TRUE /\ thread' = "idle"
    /\ UNCHANGED <<now, loop, timer_vars, running, act, pc, mutex, completion, async_queue>>

\* _got_pipe_signal: empty the pipe first, then the queue.
ReadPipe ==
    /\ at = "select" /\ pipe
    /\ pipe' = FALSE /\ at' = "drain"
    /\ UNCHANGED <<now, eventtime, todo, timer_vars, running, act, pc, mutex, completion,
                   async_queue, thread>>

DrainEmpty ==
    /\ at = "drain" /\ async_queue = <<>>
    /\ at' = "top" /\ eventtime' = now
    /\ UNCHANGED <<now, todo, timer_vars, running, act, pc, mutex, completion, async>>

DrainOneItem ==
    /\ at = "drain" /\ async_queue # <<>>
    /\ async_queue' = Tail(async_queue)
    /\ \/ /\ Head(async_queue) = "complete"
          /\ result' = TRUE
          /\ WakeWaiting(waiting)
       \/ /\ Head(async_queue) = "callback"
          /\ \/ \E c \in Callback : act[c] = "none" /\ UpdateTimer(Cb(c), NOW)
             \/ (\A c \in Callback : act[c] # "none") /\ UNCHANGED <<waketime, next_timer>>
          /\ UNCHANGED result
    /\ at' = "top" /\ eventtime' = now
    /\ UNCHANGED <<now, todo, timers, running, act, pc, mutex, waiting, until, pipe,
                   thread>>
DrainItem ==
    /\ at = "drain" /\ async_queue # <<>>
    /\ async_queue' = Tail(async_queue)
    /\ \/ /\ Head(async_queue) = "complete"
          /\ result' = TRUE
          /\ WakeWaiting(waiting)
       \/ /\ Head(async_queue) = "callback"
          /\ \/ \E c \in Callback : act[c] = "none" /\ UpdateTimer(Cb(c), NOW)
             \/ (\A c \in Callback : act[c] # "none") /\ UNCHANGED <<waketime, next_timer>>
          /\ UNCHANGED result
    /\ UNCHANGED <<now, loop, timers, running, act, pc, mutex, waiting, until, pipe,
                   thread>>

Later == {w \in Time : w > now}

Next ==
    \/ Tick
    \/ CheckTimers
    \/ \E t \in Timer : SkipTimer(t)
    \/ \E t \in Timer : CallTimer(t)
    \/ ScanEnd
    \/ SelectTimeout
    \/ \E c \in Callback, w \in {NOW} \cup Later : Sleep(c, w)
    \/ \E c \in Callback, w \in Later : Return(c, w)
    \/ \E c, d \in Callback, w \in {NOW} \cup Later : UpdateOther(c, d, w)
    \/ \E c \in Callback : Lock(c)
    \/ \E c \in Callback : LockResumed(c)
    \/ \E c \in Callback : Unlock(c)
    \/ \E c \in Callback : Complete(c)
    \/ \E c \in Callback, w \in Later : Wait(c, w)
    \/ \E c \in Callback : WaitResumed(c)
    \/ NewCompletion
    \/ AsyncPut
    \/ AsyncWrite
    \/ ReadPipe
    \/ DrainEmpty
    \/ DrainItem

Spec == Init /\ [][Next]_vars

-----------------------------------------------------------------------------
(* Properties *)

\* Every variable has its type; a greenlet has a timer just when it paused.
TypeOK ==
    /\ now \in 0..MaxTime /\ eventtime \in 0..now
    /\ at \in {"top", "scan", "select", "drain"}
    /\ todo \subseteq Timer /\ next_timer \in Time /\ waketime \in [Timer -> Time]
    /\ running \in Callback \cup {None}
    /\ \A c \in Callback : Gr(c) \in timers <=> act[c] = "detached"
    /\ queue \in Seq(Callback) /\ waiting \subseteq Callback

\* No timer is overlooked: outside a scan _next_timer is not after any
\* waketime, and within one not after those already visited.  It is what makes
\* _check_timers look at the timers at all.
NextTimerSound ==
    \A t \in timers \ todo : next_timer <= waketime[t]

\* One callback at a time has the mutex, and it is locked just when somebody
\* has it or it is being handed over, which reaches the first in the queue: it is
\* due to run, or running.
MutualExclusion ==
    /\ TypeOK
    /\ Cardinality({c \in Callback : holds[c]}) + (IF next_pending THEN 1 ELSE 0) <= 1
    /\ is_locked <=> next_pending \/ \E c \in Callback : holds[c]
    /\ next_pending => /\ queue # <<>>
                       /\ waketime[Gr(Head(queue))] = NOW \/ running = Head(queue)

\* Who waits for a completion is woken by it, and does not report a timeout
\* before its time.  What another thread hands over is not left in the queue: the
\* pipe is readable, unless the thread has yet to write it or the queue is being
\* read.
NothingMissed ==
    /\ \A c \in waiting : result => waketime[Gr(c)] = NOW \/ running = c
    /\ \A c \in waiting : running = c => result \/ eventtime >= until[c]
    /\ async_queue # <<>> /\ at # "drain" => pipe \/ thread = "write"
=============================================================================
