---------------------------- MODULE RequestQueue ----------------------------
(***************************************************************************)
(* The path of a pneumatic valve's g-code request: the valve's open and    *)
(* close (pressure_valve.py), the request queue they go through            *)
(* (GCodeRequestQueue in output_pin.py), and the part of the toolhead that *)
(* gives a request its print time and flushes the queue ahead of the       *)
(* machine (toolhead.py).  Times are print times in whole units; a reactor *)
(* timer runs when its time has come, before the clock goes on.            *)
(***************************************************************************)
EXTENDS Integers, Sequences, SequencesExt

CONSTANTS
    MinSched,      \* MIN_SCHEDULE_TIME
    KickTime,      \* kick_start_time of the valve
    BufferLow, BufferHigh, BufferStart,   \* BUFFER_TIME_...
    BgLow, BgBatch, BgExtra,              \* BGFLUSH_..._TIME
    PtDelay,       \* kin_flush_delay + STEPCOMPRESS_FLUSH_TIME
    KinDelay,      \* kin_flush_delay
    DwellTime,     \* the dwell of request_restart
    MaxRequests,   \* bound: requests made
    MaxMoves,      \* bound: moves held in the lookahead queue
    MaxPrintTime        \* bound: the clock

ASSUME RequestQueueAssumption ==
    /\ {MinSched, BufferLow, BufferHigh, BufferStart, BgLow, BgBatch} \subseteq Nat \ {0}
    /\ {KickTime, BgExtra, PtDelay, KinDelay, DwellTime, MaxRequests, MaxMoves, MaxPrintTime}
          \subseteq Nat

VARIABLES
    est_time,                                       \* estimated_print_time
    special,                                        \* special_queuing_state is set
    print_time, last_flush_time, need_flush_time,
    flush_timer,                                    \* when _flush_handler runs
    look,                                           \* the callbacks of each queued move
    rqueue, next_min_flush_time,                    \* GCodeRequestQueue
    kick_start, last_pwm_value,                     \* Valve
    sent,                                           \* the updates the mcu still has to make
    pin,                                            \* the output of the mcu
    restart,                                        \* how far request_restart is
    is_shutdown,                                    \* in_shutdown_state of the host
    requests, want, overtaken                       \* history: requests made, the last one,
                                                    \* and whether a kill passed queued ones

head == <<special, print_time, last_flush_time, need_flush_time, flush_timer, look>>
requestq == <<rqueue, next_min_flush_time>>
valve == <<kick_start, last_pwm_value, sent>>
history == <<restart, is_shutdown, requests, want, overtaken>>
rqvars == <<est_time, head, requestq, valve, pin, history>>

\* Pwm values: closed, hold_value * max_power, and max_power.
Off == 0
Hold == 1
Full == 2

Never == -1

Larger(a, b) == IF a > b THEN a ELSE b
Smaller(a, b) == IF a < b THEN a ELSE b

RQInit ==
    /\ est_time = 0
    /\ special = TRUE /\ print_time = 0 /\ last_flush_time = 0 /\ need_flush_time = 0
    /\ flush_timer = Never /\ look = <<>>
    /\ rqueue = <<>> /\ next_min_flush_time = 0
    /\ kick_start = FALSE /\ last_pwm_value = Off /\ sent = <<>> /\ pin = Off
    /\ restart = "no" /\ is_shutdown = FALSE /\ requests = 0 /\ want = Off /\ overtaken = FALSE

-----------------------------------------------------------------------------
(* The request queue *)

\* The time at which the first queued request is applied.
NextTime == Larger(rqueue[1][1], next_min_flush_time)

\* _flush_notification has a request to apply.
Due == rqueue # <<>> /\ NextTime <= last_flush_time

\* What note_mcu_movequeue_activity makes of need_flush_time and the timer.
NoteActivity(t) ==
    /\ need_flush_time' = Larger(need_flush_time, t)
    /\ flush_timer' = IF flush_timer = Never THEN est_time ELSE flush_timer

\* The last request that is not overridden by one due at the same time.
Position ==
    CHOOSE p \in 1..Len(rqueue) :
        /\ \A i \in 2..p : rqueue[i][1] <= NextTime
        /\ p < Len(rqueue) => rqueue[p + 1][1] > NextTime

\* The callback starts with a kick and asks for the request again.
Kicks(value) == value # Off /\ kick_start /\ KickTime > 0

\* Valve._apply_pwm; a micro-controller that is shut down makes no update.
Output(value) == IF Kicks(value) THEN Full ELSE value
ApplyPwm(t, value) ==
    /\ last_pwm_value' = Output(value)
    /\ kick_start' = (kick_start /\ ~Kicks(value))
    /\ sent' = IF is_shutdown THEN sent ELSE Append(sent, <<t, Output(value)>>)

\* How many requests are done with, and when the next one may be applied.
DoneWhenKicked(value) == Position
Done(value) == IF Kicks(value) THEN Position - 1 ELSE Position
Spacing(value) == Larger(IF Kicks(value) THEN KickTime ELSE 0, MinSched)

\* One turn of the loop of GCodeRequestQueue._flush_notification.
FlushRequest ==
    /\ Due
    /\ LET value == rqueue[Position][2]
       IN  /\ ApplyPwm(NextTime, value)
           /\ rqueue' = SubSeq(rqueue, Done(value) + 1, Len(rqueue))
           /\ next_min_flush_time' = NextTime + Spacing(value)
           /\ NoteActivity(NextTime + Spacing(value))
    /\ UNCHANGED <<est_time, special, print_time, last_flush_time, look, pin, history>>

-----------------------------------------------------------------------------
(* The toolhead *)

\* _calc_print_time; min_restart_time never passes the later of print_time
\* and last_flush_time.
CalcPrintTime ==
    Larger(print_time, Larger(est_time + BufferStart, last_flush_time + KinDelay))

StartTime == IF special THEN CalcPrintTime ELSE print_time

\* The requests the callbacks of the first n moves queue; a move takes one unit.
Callbacks(n) ==
    FlattenSeq([i \in 1..n |-> [j \in 1..Len(look[i]) |-> <<StartTime + i, look[i][j]>>]])

\* _process_lookahead takes n of the moves (n > 0), and _advance_move_time flushes.
ProcessMoves(n, moves) ==
    /\ look' = SubSeq(moves, n + 1, Len(moves))
    /\ rqueue' = rqueue \o Callbacks(n)
    /\ print_time' = StartTime + n
    /\ NoteActivity(StartTime + n + KinDelay)
    /\ last_flush_time' = Larger(last_flush_time, StartTime + n - PtDelay)

\* The reactor is between two callbacks and no command is half done.
TimerDue == ~Due /\ flush_timer # Never /\ flush_timer <= est_time
Quiet == ~Due /\ ~TimerDue /\ restart # "flushed"

\* move: with enough moves queued, the first of them are processed.
Move ==
    /\ Quiet /\ restart = "no"
    /\ Len(look) < MaxMoves /\ print_time - est_time <= BufferHigh /\ print_time < MaxPrintTime
    /\ \/ /\ look' = Append(look, <<>>)
          /\ UNCHANGED <<special, print_time, last_flush_time, need_flush_time, flush_timer,
                         rqueue>>
       \/ /\ \E n \in 1..Len(look) : ProcessMoves(n, Append(look, <<>>))
          /\ special' = FALSE
    /\ UNCHANGED <<est_time, next_min_flush_time, valve, pin, history>>

\* _priming_handler: moves that wait in the special state are flushed.
PrimingHandler ==
    /\ Quiet
    /\ special /\ look # <<>>
    /\ ProcessMoves(Len(look), look)
    /\ UNCHANGED <<est_time, special, next_min_flush_time, valve, pin, history>>

\* _flush_handler, in the main state with enough buffered.
FlushHandlerBuffered ==
    /\ TimerDue
    /\ ~special /\ print_time - est_time > BufferLow
    /\ flush_timer' = print_time - BufferLow
    /\ UNCHANGED <<est_time, special, print_time, last_flush_time, need_flush_time, look, requestq,
                   valve, pin, history>>

\* _flush_handler, in the main state when the buffer runs low.
FlushHandlerLow ==
    /\ TimerDue
    /\ ~special /\ print_time - est_time <= BufferLow
    /\ special' = TRUE
    /\ IF look = <<>>
       THEN UNCHANGED <<print_time, last_flush_time, need_flush_time, flush_timer, look,
                        rqueue>>
       ELSE ProcessMoves(Len(look), look)
    /\ UNCHANGED <<est_time, next_min_flush_time, valve, pin, history>>

\* The loop of _flush_handler in the special state: stop, sleep, or flush.
EndFlushOnce == print_time + BgExtra
EndFlush == need_flush_time + BgExtra
FlushHandlerDone ==
    /\ TimerDue /\ special
    /\ last_flush_time >= EndFlush
    /\ flush_timer' = Never
    /\ UNCHANGED <<est_time, special, print_time, last_flush_time, need_flush_time, look, requestq,
                   valve, pin, history>>
FlushHandlerSleep ==
    /\ TimerDue /\ special
    /\ last_flush_time < EndFlush /\ last_flush_time - est_time > BgLow
    /\ flush_timer' = last_flush_time - BgLow
    /\ UNCHANGED <<est_time, special, print_time, last_flush_time, need_flush_time, look, requestq,
                   valve, pin, history>>
FlushHandlerFlush ==
    /\ TimerDue /\ special
    /\ last_flush_time < EndFlush /\ last_flush_time - est_time <= BgLow
    /\ last_flush_time' =
          Larger(last_flush_time, Smaller(EndFlush, est_time + BgLow + BgBatch))
    /\ UNCHANGED <<est_time, special, print_time, need_flush_time, flush_timer, look, requestq,
                   valve, pin, history>>

-----------------------------------------------------------------------------
(* The valve *)

\* queue_gcode_request: register_lookahead_callback hands the request to the
\* last queued move, or to the queue at once when there is none.
QueueGCodeRequest(value) ==
    /\ IF look = <<>>
       THEN /\ rqueue' = Append(rqueue, <<StartTime, value>>)
            /\ print_time' = StartTime
            /\ NoteActivity(StartTime)
            /\ look' = look
       ELSE /\ look' = [look EXCEPT ![Len(look)] = Append(@, value)]
            /\ UNCHANGED <<rqueue, print_time, need_flush_time, flush_timer>>
    /\ requests' = requests + 1
    /\ want' = value /\ overtaken' = FALSE
    /\ UNCHANGED <<est_time, special, last_flush_time, next_min_flush_time, last_pwm_value, sent,
                   pin, restart, is_shutdown>>

\* open and close
OpenValve == kick_start' = TRUE /\ QueueGCodeRequest(Hold)
CloseValve == kick_start' = kick_start /\ QueueGCodeRequest(Off)

MayRequest == Quiet /\ restart = "no" /\ requests < MaxRequests

\* request_restart: get_last_move_time flushes the lookahead queue,
RequestRestart ==
    /\ Quiet /\ restart = "no"
    /\ IF look = <<>>
       THEN UNCHANGED <<print_time, last_flush_time, need_flush_time, flush_timer, look,
                        rqueue>>
       ELSE ProcessMoves(Len(look), look)
    /\ restart' = "flushed"
    /\ UNCHANGED <<est_time, special, next_min_flush_time, valve, pin, is_shutdown, requests, want,
                   overtaken>>

\* _kill closes the valve by send_async_request, and dwell flushes further.
Kill ==
    /\ ~Due /\ restart = "flushed"
    /\ LET t == Larger(StartTime, next_min_flush_time)
       IN  /\ ApplyPwm(t, Off)
           /\ next_min_flush_time' = t + MinSched
    /\ print_time' = StartTime + DwellTime
    /\ last_flush_time' = Larger(last_flush_time, StartTime + DwellTime - PtDelay)
    /\ special' = TRUE
    /\ restart' = "killed" /\ want' = Off
    /\ overtaken' = (rqueue # <<>>)
    /\ UNCHANGED <<est_time, need_flush_time, flush_timer, look, rqueue, pin, is_shutdown,
                   requests>>

\* invoke_shutdown and its handlers: the micro-controller stops and forgets its
\* updates, the toolhead its moves and their callbacks, and _kill closes the valve
\* past the requests that are still queued.
AsyncTime == Larger(est_time + MinSched, next_min_flush_time)
InvokeShutdown ==
    /\ ~Due /\ restart # "flushed" /\ ~is_shutdown
    /\ is_shutdown' = TRUE
    /\ sent' = <<>> /\ pin' = Off
    /\ look' = <<>>
    /\ last_pwm_value' = Off /\ next_min_flush_time' = AsyncTime + MinSched
    /\ want' = Off /\ overtaken' = (rqueue # <<>>)
    /\ UNCHANGED <<est_time, special, print_time, last_flush_time, need_flush_time, flush_timer,
                   rqueue, kick_start, restart, requests>>

\* The clock goes on and the mcu makes the updates that are due.
TickStep ==
    LET made == SelectSeq(sent, LAMBDA u : u[1] <= est_time + 1)
    IN  /\ est_time' = est_time + 1
        /\ sent' = SelectSeq(sent, LAMBDA u : u[1] > est_time + 1)
        /\ pin' = IF made = <<>> THEN pin ELSE made[Len(made)][2]
        /\ UNCHANGED <<head, requestq, kick_start, last_pwm_value, history>>
RQTick == Quiet /\ est_time < MaxPrintTime /\ TickStep

\* What the reactor does by itself; the commands are added in Valve.
Background ==
    \/ FlushRequest
    \/ PrimingHandler
    \/ FlushHandlerBuffered
    \/ FlushHandlerLow
    \/ FlushHandlerDone
    \/ FlushHandlerSleep
    \/ FlushHandlerFlush

-----------------------------------------------------------------------------
(* Properties *)

\* The variables have their types; requests are queued in the order of their print
\* times.
RQTypeOK ==
    /\ {est_time, print_time, last_flush_time, need_flush_time, next_min_flush_time, requests}
          \subseteq Nat
    /\ flush_timer \in Nat \cup {Never}
    /\ look \in Seq(Seq({Off, Hold}))
    /\ rqueue \in Seq(Nat \X {Off, Hold})
    /\ \A i \in 1..Len(rqueue) - 1 : rqueue[i][1] <= rqueue[i + 1][1]
    /\ rqueue # <<>> => rqueue[Len(rqueue)][1] <= print_time
    /\ sent \in Seq(Nat \X {Off, Hold, Full})
    /\ {last_pwm_value, pin, want} \subseteq {Off, Hold, Full}
    /\ {special, kick_start, is_shutdown, overtaken} \subseteq BOOLEAN
    /\ restart \in {"no", "flushed", "killed"}

\* Every update reaches the mcu before its time: however requests, moves,
\* kicks and flushes interleave, none is scheduled in the past.  They go out in
\* time order and min_schedule_time apart, those of the queue and those sent past
\* it alike.  The background flush never goes to sleep over a request that is
\* still queued, one that a kick delayed included, unless a shutdown has come: its
\* _kill may put requests off past the last flush.
UpdatesInTime ==
    /\ \A i \in 1..Len(sent) : sent[i][1] > est_time
    /\ \A i \in 1..Len(sent) - 1 : sent[i + 1][1] >= sent[i][1] + MinSched
    /\ flush_timer = Never /\ ~is_shutdown => rqueue = <<>>

\* Once no request waits, the valve has the state of the last request, whatever
\* was skipped, delayed or kicked on the way, and is closed after a restart or a
\* shutdown.  A kill that passes requests still queued is the exception: those are
\* applied after it.
LastRequestWins ==
    (rqueue = <<>> /\ (\A i \in 1..Len(look) : look[i] = <<>>) /\ ~overtaken)
        => last_pwm_value = want
=============================================================================
