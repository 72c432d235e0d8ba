------------------------------- MODULE Sched --------------------------------
(***************************************************************************)
(* The timer list of the micro-controller (src/sched.c) and the hardware   *)
(* timer that drives it (src/generic/timer_irq.c).  Times are readings of  *)
(* a clock that wraps at ClockMod, compared with timer_is_before.          *)
(***************************************************************************)
EXTENDS Integers, Sequences, SequencesExt, FiniteSets, FiniteSetsExt

CONSTANTS
    User,                         \* timers of the other modules
    Periodic, Sentinel, Deleted,  \* the three static timers of sched.c
    Null,
    ClockMod,     \* 2^32
    Period,       \* timer_from_us(100000)
    MinTry,       \* TIMER_MIN_TRY_TICKS
    Defer,        \* TIMER_DEFER_REPEAT_TICKS
    Repeat, IdleRepeat,  \* TIMER_REPEAT_TICKS, TIMER_IDLE_REPEAT_TICKS
    PastLimit,    \* timer_from_us(1000)
    MaxAhead,     \* bound: how far ahead a timer is scheduled
    MaxRound      \* bound: ticks of one round of the interrupt, latency included

Half == ClockMod \div 2
Timers == User \cup {Periodic, Sentinel, Deleted}

ASSUME SchedAssumption ==
    /\ IsFiniteSet(User)
    /\ Cardinality({Periodic, Sentinel, Deleted, Null}) = 4
    /\ User \cap {Periodic, Sentinel, Deleted, Null} = {}
    /\ {Half, Period, MinTry, Defer, Repeat, IdleRepeat, PastLimit, MaxAhead, MaxRound}
          \subseteq Nat
    /\ ClockMod = 2 * Half /\ 0 < Period
    /\ Defer + MaxRound <= Repeat /\ Repeat <= IdleRepeat /\ Defer + MaxRound <= PastLimit
    /\ Period + PastLimit + IdleRepeat + MaxRound < Half
    /\ MaxAhead + PastLimit + IdleRepeat + MaxRound < Half

VARIABLES
    now,              \* timer_read_time()
    timer_list,       \* the timers linked from SchedStatus.timer_list, in order
    waketime,         \* of each timer
    last_insert,      \* SchedStatus.last_insert
    ran_off,          \* insert_timer went past the end of the list
    alarm,            \* when the hardware timer expires, or the next round begins
    in_irq,           \* timer_dispatch_many has begun and goes on
    unchecked,        \* ticks until timer_repeat_until has passed
    shutdown_status,
    armed             \* history: user timers added and neither done nor deleted

list == <<timer_list, waketime, last_insert, ran_off>>
irq == <<alarm, in_irq, unchecked>>
vars == <<now, list, irq, shutdown_status, armed>>

Clock == 0..ClockMod - 1
At(t) == t % ClockMod

\* timer_is_before: the sign bit of the 32-bit difference.
timer_is_before(a, b) == At(a - b) >= Half

\* (int32_t)(a - b)
Diff(a, b) == LET d == At(a - b) IN IF d >= Half THEN d - ClockMod ELSE d

\* The list as one value, so that a handler may change it several times.
List == [timer_list |-> timer_list, waketime |-> waketime,
         last_insert |-> last_insert, ran_off |-> ran_off]

\* The new list.  The waketime of a timer that is not on it is forgotten: it
\* is written before it is read again.
Becomes(L) ==
    /\ timer_list' = L.timer_list
    /\ waketime' = [t \in Timers |-> IF t \in Range(L.timer_list)
                                     THEN L.waketime[t] ELSE 0]
    /\ last_insert' = L.last_insert
    /\ ran_off' = L.ran_off

Init ==
    /\ now = 0 /\ alarm = 0 /\ in_irq = FALSE /\ unchecked = 1 /\ shutdown_status = 0
    /\ timer_list = <<Periodic, Sentinel>> /\ last_insert = Periodic
    /\ waketime = [t \in Timers |-> IF t = Sentinel THEN Half ELSE 0]
    /\ ran_off = FALSE /\ armed = {}

-----------------------------------------------------------------------------
(* sched.c *)

\* insert_timer: in front of the first timer after the k-th that is later.
InsertTimer(L, k, t, w) ==
    LET later == {i \in k + 1..Len(L.timer_list) :
                      timer_is_before(w, L.waketime[L.timer_list[i]])}
    IN  IF later = {} THEN [L EXCEPT !.ran_off = TRUE]
        ELSE [L EXCEPT !.timer_list = InsertAt(@, Min(later), t)]

\* sched_add_timer puts a timer that is earlier than the head behind
\* deleted_timer, which the kicked interrupt then runs in its place.
IsFirst(L, w) == timer_is_before(w, L.waketime[Head(L.timer_list)])
AddFirst(L, t, w) ==
    [L EXCEPT !.timer_list = <<Deleted, t>> \o (IF Head(@) = Deleted THEN Tail(@) ELSE @),
              !.waketime[Deleted] = w]
AddTimer(L, t, w) ==
    LET set == [L EXCEPT !.waketime[t] = w]
    IN  IF IsFirst(L, w) THEN AddFirst(set, t, w) ELSE InsertTimer(set, 1, t, w)

\* sched_del_timer: a deleted head is replaced by deleted_timer, so that the
\* interrupt already set for it runs no other timer.
DelTimerKeepsLast(L, t) ==
    IF Head(L.timer_list) = t
    THEN [L EXCEPT !.timer_list = <<Deleted>> \o Tail(@),
                   !.waketime[Deleted] = L.waketime[t]]
    ELSE [L EXCEPT !.timer_list = Remove(@, t)]
DelTimer(L, t) ==
    [DelTimerKeepsLast(L, t) EXCEPT !.last_insert = IF @ = t THEN Periodic ELSE @]

\* sched_timer_reset
TimerReset(L) ==
    [L EXCEPT !.timer_list = <<Deleted, Periodic, Sentinel>>,
              !.last_insert = Periodic,
              !.waketime[Deleted] = L.waketime[Periodic]]

\* The tail of sched_timer_dispatch, after the callback of the head.
DispatchedDone(L) ==
    [L EXCEPT !.timer_list = Tail(@),
              !.last_insert = IF @ = Head(L.timer_list) THEN L.timer_list[2] ELSE @]

\* The head goes back on the list, from last_insert on when it is later.
\* last_insert may be the head itself: then the search starts behind it.
KeepsHead(L) ==
    timer_is_before(L.waketime[L.timer_list[1]], L.waketime[L.timer_list[2]])
StartFromLast(L) ==
    IF L.last_insert = Head(L.timer_list) THEN 0
    ELSE IF L.last_insert \notin Range(L.timer_list) THEN Len(L.timer_list)
    ELSE CHOOSE k \in DOMAIN Tail(L.timer_list) : Tail(L.timer_list)[k] = L.last_insert
StartFrom(L) ==
    IF timer_is_before(L.waketime[Head(L.timer_list)], L.waketime[L.last_insert])
    THEN 1 ELSE StartFromLast(L)
DispatchedAgain(L) ==
    LET t == Head(L.timer_list)
    IN  IF KeepsHead(L) THEN L
        ELSE [InsertTimer([L EXCEPT !.timer_list = Tail(@)], StartFrom(L), t, L.waketime[t])
                EXCEPT !.last_insert = t]

\* The hardware timer has expired, or the next round of the interrupt is due;
\* timer_kick makes it expire at once.
IrqDue == ~timer_is_before(now, alarm)
Kicked == IF IrqDue THEN alarm ELSE now

-----------------------------------------------------------------------------
(* Shutdown *)

\* run_shutdown with the list at L; a shutdown handler (analog_in_shutdown) may
\* add timer t again, and a time that has passed is no error then.
RunShutdown(L, t, w) ==
    LET reset == TimerReset(L)
    IN  /\ Becomes(IF t = Null THEN reset ELSE AddTimer(reset, t, w))
        /\ armed' = {t} \ {Null}
        /\ shutdown_status' = 1
        /\ alarm' = Kicked /\ in_irq' = FALSE
        /\ UNCHANGED <<now, unchecked>>

ShutdownFrom(L) ==
    \E t \in User \cup {Null} : \E d \in -1..MaxAhead : RunShutdown(L, t, At(now + d))
ShutdownNow == ShutdownFrom(List)

\* command_emergency_stop, or shutdown() in any other command
Shutdown == ~in_irq /\ ~ran_off /\ shutdown_status = 0 /\ ShutdownNow

\* Assumed while shutdown_status is set and try_shutdown does nothing: the few
\* timers that still run are served in time, and before the host's reset.
Overdue(t) == Diff(now, waketime[t])
Served == \A t \in armed \cup {Periodic} : Overdue(t) < Defer + MaxRound

\* sched_clear_shutdown
ClearShutdown ==
    /\ ~in_irq /\ shutdown_status = 1 /\ Served
    /\ shutdown_status' = 0
    /\ UNCHANGED <<now, list, irq, armed>>

-----------------------------------------------------------------------------
(* Tasks *)

\* A command schedules its timer.  Every caller uses sched_del_timer first
\* or knows its timer is idle, and no command does so during a shutdown.
SchedAddTimer(t, w) ==
    /\ ~in_irq /\ ~ran_off /\ shutdown_status = 0
    /\ t \notin armed
    /\ IF IsFirst(List, w) /\ timer_is_before(w, now)
       THEN ShutdownNow     \* "Timer too close"
       ELSE /\ Becomes(AddTimer(List, t, w))
            /\ alarm' = IF IsFirst(List, w) THEN Kicked ELSE alarm
            /\ armed' = armed \cup {t}
            /\ UNCHANGED <<now, in_irq, unchecked, shutdown_status>>

SchedDelTimer(t) ==
    /\ ~in_irq /\ ~ran_off
    /\ Becomes(DelTimer(List, t))
    /\ armed' = armed \ {t}
    /\ UNCHANGED <<now, irq, shutdown_status>>

\* timer_task: a timer_repeat_until that has passed becomes the current time.
TimerTask ==
    /\ ~in_irq /\ ~ran_off
    /\ unchecked = 0 /\ unchecked' = 1
    /\ UNCHANGED <<now, list, alarm, in_irq, shutdown_status, armed>>

-----------------------------------------------------------------------------
(* The timer interrupt *)

\* timer_dispatch_many after sched_timer_dispatch returned nxt.  Timers that fall
\* too far behind are an error, but only once timer_repeat_until has passed.
FallsBehindNever(nxt) == FALSE
FallsBehind(nxt) ==
    /\ unchecked = 0
    /\ Diff(nxt, now) < -PastLimit
    /\ shutdown_status = 0      \* try_shutdown

\* The next round begins when nxt is due, or at once when it has passed.
NextRound(nxt) ==
    /\ in_irq' = TRUE
    /\ alarm' = IF timer_is_before(nxt, now) THEN now ELSE nxt

\* Leave the interrupt, go on in it, or give busy tasks a moment.  Whether tasks
\* are busy is module TaskLoop.
DispatchMany(nxt) ==
    \/ /\ Diff(nxt, now) > MinTry
       /\ alarm' = nxt /\ in_irq' = FALSE
       /\ UNCHANGED unchecked
    \/ /\ Diff(nxt, now) <= MinTry /\ unchecked > 0
       /\ NextRound(nxt)
       /\ UNCHANGED unchecked
    \/ /\ Diff(nxt, now) <= MinTry /\ unchecked = 0
       /\ \/ NextRound(nxt) /\ unchecked' = IdleRepeat + 1
          \/ alarm' = At(now + Defer) /\ in_irq' = FALSE /\ unchecked' = Repeat + 1

\* One round of the interrupt: the callback of the head has left the list as L
\* and the user timers in left armed.
Dispatched(L, done, left) ==
    LET new == IF done THEN DispatchedDone(L) ELSE DispatchedAgain(L)
        nxt == L.waketime[L.timer_list[IF ~done /\ KeepsHead(L) THEN 1 ELSE 2]]
    IN  IF FallsBehind(nxt) THEN ShutdownFrom(new)   \* "Rescheduled timer in the past"
        ELSE /\ Becomes(new) /\ armed' = left
             /\ DispatchMany(nxt)
             /\ UNCHANGED <<now, shutdown_status>>

head == Head(timer_list)

\* periodic_event and deleted_event; sentinel_event would be a shutdown.
PeriodicWake ==
    LET w == At(waketime[Periodic] + Period)
    IN  [waketime EXCEPT ![Periodic] = w, ![Sentinel] = At(w + Half)]
DispatchStatic ==
    /\ IrqDue /\ ~ran_off /\ head \notin User
    /\ IF head = Sentinel THEN ShutdownNow
       ELSE IF head = Periodic
            THEN Dispatched([List EXCEPT !.waketime = PeriodicWake], FALSE, armed)
            ELSE Dispatched(List, TRUE, armed)

\* The callback of a user timer.  It may delete another timer, as
\* trsync_do_trigger does through stepper_stop.
Stopped(del) == IF del = Null THEN List ELSE DelTimer(List, del)

UserDone(del) ==
    /\ IrqDue /\ ~ran_off /\ head \in User
    /\ del # head
    /\ Dispatched(Stopped(del), TRUE, armed \ {head, del})

UserAgain(del, d) ==
    /\ IrqDue /\ ~ran_off /\ head \in User
    /\ del # head
    /\ Dispatched([Stopped(del) EXCEPT !.waketime[head] = At(@ + d)], FALSE, armed \ {del})

\* shutdown() in a callback
UserShutdown ==
    /\ IrqDue /\ ~ran_off /\ head \in User
    /\ shutdown_status = 0
    /\ ShutdownNow

\* The clock.  A round is over MaxRound ticks after it was due, its callback and
\* the latency of the interrupt included; nothing keeps timers from being overdue
\* by more.  Only the few timers of a shutdown are Served as they come.
Tick ==
    /\ ~ran_off
    /\ Diff(now, alarm) < MaxRound
    /\ shutdown_status = 1 => Served
    /\ now' = At(now + 1)
    /\ unchecked' = IF unchecked > 0 THEN unchecked - 1 ELSE 0
    /\ UNCHANGED <<list, alarm, in_irq, shutdown_status, armed>>

-----------------------------------------------------------------------------
TaskStep ==
    \/ \E t \in User : \E d \in -1..MaxAhead : SchedAddTimer(t, At(now + d))
    \/ \E t \in User : SchedDelTimer(t)
    \/ Shutdown
    \/ ClearShutdown
    \/ TimerTask

IrqStep ==
    \/ DispatchStatic
    \/ \E del \in User \cup {Null} : UserDone(del)
    \/ \E del \in User \cup {Null} : \E d \in 1..MaxAhead : UserAgain(del, d)
    \/ UserShutdown

Next == TaskStep \/ IrqStep \/ Tick

Spec == Init /\ [][Next]_vars

-----------------------------------------------------------------------------
(* Properties *)

\* The variables have their types.
TypeOK ==
    /\ now \in Clock /\ alarm \in Clock
    /\ timer_list \in Seq(Timers)
    /\ waketime \in [Timers -> Clock]
    /\ last_insert \in Timers
    /\ ran_off \in BOOLEAN /\ in_irq \in BOOLEAN
    /\ unchecked \in 0..IdleRepeat + 1
    /\ shutdown_status \in {0, 1}
    /\ armed \subseteq User

\* The list holds exactly the timers that were added and are neither done nor
\* deleted, the periodic timer and, last, the sentinel, each once; last_insert,
\* where an insertion may start, is one of them.  It is in the order of the
\* waketimes, across the wrap of the clock, and all of it is before the sentinel:
\* insert_timer, which has no test for the end of the list, stops before it.
ListExact ==
    /\ TypeOK /\ ~ran_off
    /\ Range(timer_list) \ {Deleted} = armed \cup {Periodic, Sentinel}
    /\ Last(timer_list) = Sentinel
    /\ IsInjective(timer_list)
    /\ last_insert \in armed \cup {Periodic}
    /\ \A i \in 1..Len(timer_list) - 1 :
          IF timer_list[i + 1] = Sentinel
          THEN timer_is_before(waketime[timer_list[i]], waketime[Sentinel])
          ELSE ~timer_is_before(waketime[timer_list[i + 1]], waketime[timer_list[i]])

\* sched_timer_dispatch runs the head without looking at its waketime: when
\* the interrupt comes, that timer is due, or it is the deleted timer.  And however
\* timers crowd the interrupt, none on the list is ever overdue by more than the
\* test of timer_dispatch_many lets pass, the time until it is made again and one
\* more round, unless a shutdown has come.
RunWhenDue ==
    /\ IrqDue => head = Deleted \/ ~timer_is_before(now, waketime[head])
    /\ shutdown_status = 0 =>
          \A t \in armed \cup {Periodic} :
              Overdue(t) <= PastLimit + IdleRepeat + MaxRound
=============================================================================
