---------------------------- MODULE SerialQueue -----------------------------
(***************************************************************************)
(* The threads of a serial connection (chelper/serialqueue.c on            *)
(* pollreactor.c): senders queue messages, the background thread decides   *)
(* when to write them and reads what the mcu answers, a receiver pulls     *)
(* that, and the main thread ends it all.  What a thread does under the    *)
(* lock is one step, but for command_event, whose loop is one step per     *)
(* message (`bg' = "check", "build") while nobody else gets the lock.  The *)
(* link loses nothing here: SerialLink models retransmission.              *)
(***************************************************************************)
EXTENDS Integers, Sequences, FiniteSetsExt

CONSTANTS
    CommandQueue,   \* the command queues of the senders
    Requests,       \* the <<min_clock, req_clock>> the messages of each queue have
    PayloadMax,     \* MESSAGE_PAYLOAD_MAX, in messages of one unit
    Overhead,       \* MESSAGE_MIN: header and trailer of a block
    MaxPendingBlocks, \* MAX_PENDING_BLOCKS
    Window,         \* receive_window
    ReqDelta,       \* MIN_REQTIME_DELTA
    BgDelta,        \* MIN_BACKGROUND_DELTA
    EstErr,         \* how far the clock estimate may lag behind the clock
    MaxMessages,    \* bound: messages sent
    LastClock,      \* bound: the clock
    MaxReplies,     \* bound: data messages of the mcu
    MaxBeforeEnd    \* bound: messages sent before the end

Background == 1000  \* BACKGROUND_PRIORITY_CLOCK
MaxClk == 1001      \* MAX_CLOCK, and PR_NEVER
NoEst == -1         \* est_freq is 0
BlockMax == PayloadMax + Overhead

\* serial_irq.c has a window of three blocks of MESSAGE_MAX.
ASSUME SerialQueueAssumption ==
    /\ PayloadMax \in Nat \ {0} /\ Overhead \in Nat /\ MaxPendingBlocks \in Nat \ {0}
    /\ Window \in Nat /\ Window >= 2 * BlockMax
    /\ ReqDelta \in Nat /\ BgDelta \in Nat /\ EstErr \in Nat
    /\ LastClock < Background - ReqDelta - BgDelta

VARIABLES
    clock,                        \* the time, and the mcu's clock
    est,                          \* the lag of the clock estimate
    upcoming_queue, ready_queue, need_kick_clock,
    send_seq, receive_seq, last_ack_seq, sent_queue, last_ack_bytes, idle_time,
    bg, waketime, pending, block, \* the background thread, its timer, blocks to write, and
                                  \* the messages in the block being built
    pipe, kicks,                  \* bytes in the pipe; senders about to write one
    must_exit, puller, receive_queue,
    input, receive_buf, replied,  \* from the mcu; its buffer; it answered its first block
    messages, replies

queues == <<upcoming_queue, ready_queue>>
acks_ == <<send_seq, receive_seq, last_ack_seq, sent_queue, last_ack_bytes>>
wakeup == <<waketime, pipe, kicks, need_kick_clock>>
writing == <<pending, block>>
receiver == <<puller, receive_queue>>
mcu_ == <<receive_buf, replied>>
sqvars == <<clock, est, queues, acks_, idle_time, bg, writing, wakeup, must_exit, receiver,
            input, mcu_, messages, replies>>

SQInit ==
    /\ clock = 0 /\ est = NoEst
    /\ upcoming_queue = [q \in CommandQueue |-> <<>>] /\ ready_queue = upcoming_queue
    /\ need_kick_clock = MaxClk
    /\ send_seq = 1 /\ receive_seq = 1 /\ last_ack_seq = 0
    /\ sent_queue = <<>> /\ last_ack_bytes = 0 /\ idle_time = 0
    /\ bg = "poll" /\ waketime = MaxClk /\ pending = <<>> /\ block = 0
    /\ pipe = FALSE /\ kicks = 0
    /\ must_exit = FALSE /\ puller = "ready" /\ receive_queue = 0
    /\ input = <<>> /\ receive_buf = <<>> /\ replied = FALSE
    /\ messages = 0 /\ replies = 0

Total(s) == FoldFunction(+, 0, s)
\* Bounds: once the end is requested only the threads go on, and it comes early.
Live == ~must_exit
MayEnd == Live /\ messages <= MaxBeforeEnd
Unlocked == bg \notin {"check", "build"}

-----------------------------------------------------------------------------
(* Senders *)

\* serialqueue_send_batch; a message without a clock may come before the first estimate.
SendBatch(q, r) ==
    /\ Live /\ Unlocked /\ messages < MaxMessages
    /\ est = NoEst => r = <<0, 0>>
    /\ messages' = messages + 1
    /\ upcoming_queue' =
          [upcoming_queue EXCEPT ![q] = Append(@, [min_clock |-> r[1], req_clock |-> r[2]])]
    /\ IF r[1] < need_kick_clock THEN need_kick_clock' = 0 /\ kicks' = kicks + 1
       ELSE UNCHANGED <<need_kick_clock, kicks>>
    /\ UNCHANGED <<clock, est, ready_queue, acks_, idle_time, bg, writing, waketime, pipe,
                   must_exit, receiver, input, mcu_, replies>>

\* kick_bg_thread, after the lock was left
KickBgThread ==
    /\ kicks > 0 /\ kicks' = kicks - 1
    /\ pipe' = TRUE
    /\ UNCHANGED <<clock, est, queues, acks_, idle_time, bg, writing, waketime, need_kick_clock,
                   must_exit, receiver, input, mcu_, messages, replies>>

SetClockEst ==
    /\ Live /\ Unlocked
    /\ est' \in 0..EstErr /\ est' # est
    /\ UNCHANGED <<clock, queues, acks_, idle_time, bg, writing, wakeup, must_exit, receiver,
                   input, mcu_, messages, replies>>

-----------------------------------------------------------------------------
(* check_send_command *)

\* The time a block takes on the line (calculate_bittime) is left out: idle_time is never
\* ahead of the clock, and that branch of AckClock with it.  So is the clamp of send_batch,
\* for a req_clock 2^31 after its min_clock.
ClockFromTime(t) == IF est = NoEst THEN 0 ELSE t - est
AckClock == ClockFromTime(clock)

\* A mutant: the block a reply acknowledged counts as taken.
WindowShutForgetful ==
    \/ Len(sent_queue) >= MaxPendingBlocks
    \/ sent_queue # <<>> /\ Total(sent_queue) + BlockMax > Window
WindowShut ==
    \/ Len(sent_queue) >= MaxPendingBlocks
    \/ /\ sent_queue # <<>>
       /\ Total(sent_queue) + BlockMax
            + (IF last_ack_seq < receive_seq THEN last_ack_bytes ELSE 0) > Window

\* The messages whose min_clock is still to come, and those in front of them
Stalled(q) == {i \in DOMAIN upcoming_queue[q] : AckClock < upcoming_queue[q][i].min_clock}
Released(q) == IF Stalled(q) = {} THEN Len(upcoming_queue[q]) ELSE Min(Stalled(q)) - 1
Ready(q) == ready_queue[q] \o SubSeq(upcoming_queue[q], 1, Released(q))
Upcoming(q) == SubSeq(upcoming_queue[q], Released(q) + 1, Len(upcoming_queue[q]))

\* When the first ready message of a queue asks to be sent
ReqClock(m) ==
    IF m.req_clock # Background THEN m.req_clock
    ELSE ClockFromTime(IF pending # <<>> THEN clock ELSE idle_time) + ReqDelta + BgDelta

MinOf(S) == Min(S \cup {MaxClk})
MinReady == MinOf({ReqClock(Ready(q)[1]) : q \in {c \in CommandQueue : Ready(c) # <<>>}})
MinStalled ==
    MinOf({Upcoming(q)[1].min_clock : q \in {c \in CommandQueue : Upcoming(c) # <<>>}})
ReadyBytes == MapThenSumSet(LAMBDA q : Len(Ready(q)), CommandQueue)

SendNow ==
    \/ ReadyBytes >= PayloadMax
    \/ est = NoEst /\ ReadyBytes > 0
    \/ est # NoEst /\ MinReady <= AckClock + ReqDelta

\* A mutant: the messages whose min_clock is still to come are not waited for.
WantClockOfReady == MinReady - ReqDelta
WantClock == MinOf({MinReady - ReqDelta, MinStalled})

-----------------------------------------------------------------------------
(* The background thread: pollreactor_run *)

\* Back in the loop with its timer at w: it ends, or command_event runs, or poll sleeps.
Loop(w) == bg' = IF must_exit THEN "exit" ELSE IF clock >= w THEN "check" ELSE "poll"

\* command_event: check_send_command has a block built
CommandEventSend ==
    /\ bg = "check" /\ ~WindowShut /\ SendNow
    /\ ready_queue' = [q \in CommandQueue |-> Ready(q)]
    /\ upcoming_queue' = [q \in CommandQueue |-> Upcoming(q)]
    /\ bg' = "build" /\ block' = 0
    /\ UNCHANGED <<clock, est, acks_, idle_time, pending, wakeup, must_exit, receiver, input,
                   mcu_, messages, replies>>

\* build_and_send_command: the ready message with the lowest req_clock goes first.
Nonempty == {q \in CommandQueue : ready_queue[q] # <<>>}
BuildTakes(q) ==
    /\ bg = "build" /\ block < PayloadMax
    /\ q \in Nonempty
    /\ \A p \in Nonempty : ready_queue[q][1].req_clock <= ready_queue[p][1].req_clock
    /\ block' = block + 1
    /\ ready_queue' = [ready_queue EXCEPT ![q] = Tail(@)]
    /\ UNCHANGED <<clock, est, upcoming_queue, acks_, idle_time, bg, pending, wakeup, must_exit,
                   receiver, input, mcu_, messages, replies>>
BuildDone ==
    /\ bg = "build" /\ (block = PayloadMax \/ Nonempty = {})
    /\ send_seq' = send_seq + 1
    /\ sent_queue' = Append(sent_queue, block + Overhead)
    /\ pending' = Append(pending, block + Overhead)
    /\ bg' = "check"
    /\ UNCHANGED <<clock, est, queues, receive_seq, last_ack_seq, last_ack_bytes, idle_time,
                   block, wakeup, must_exit, receiver, input, mcu_, messages, replies>>

\* command_event: nothing more to build; the blocks are written and the timer set.
Write ==
    /\ receive_buf' = receive_buf \o pending
    /\ idle_time' = IF pending # <<>> THEN clock ELSE idle_time
    /\ pending' = <<>> /\ bg' = "poll"
CommandEventShut ==
    /\ bg = "check" /\ WindowShut
    /\ Write
    /\ waketime' = MaxClk
    /\ UNCHANGED <<clock, est, queues, acks_, block, pipe, kicks, need_kick_clock, must_exit,
                   receiver, input, replied, messages, replies>>
CommandEventSleep ==
    /\ bg = "check" /\ ~WindowShut /\ ~SendNow
    /\ ready_queue' = [q \in CommandQueue |-> Ready(q)]
    /\ upcoming_queue' = [q \in CommandQueue |-> Upcoming(q)]
    /\ Write
    /\ need_kick_clock' = IF est = NoEst THEN MaxClk ELSE WantClock
    /\ waketime' = IF est = NoEst THEN MaxClk ELSE clock + (WantClock - AckClock)
    /\ UNCHANGED <<clock, est, acks_, block, pipe, kicks, must_exit, receiver, input, replied,
                   messages, replies>>

\* poll returns: the timer is due, or its longest sleep is over.
PollTimeout ==
    /\ bg = "poll" /\ (clock >= waketime \/ must_exit)
    /\ Loop(waketime)
    /\ UNCHANGED <<clock, est, queues, acks_, idle_time, writing, wakeup, must_exit, receiver,
                   input, mcu_, messages, replies>>
KickEvent ==
    /\ bg = "poll" /\ pipe
    /\ pipe' = FALSE /\ waketime' = 0 /\ Loop(0)
    /\ UNCHANGED <<clock, est, queues, acks_, idle_time, writing, kicks, need_kick_clock,
                   must_exit, receiver, input, mcu_, messages, replies>>

WakeReceiver == puller' = IF puller = "waiting" THEN "ready" ELSE puller

\* handle_message; update_receive_seq when the message acknowledges a block
HandleMessage ==
    LET m == Head(input)
        acked == m.seq - receive_seq
    IN
    /\ bg = "poll" /\ input # <<>>
    /\ input' = Tail(input) /\ Loop(IF acked > 0 THEN 0 ELSE waketime)
    /\ IF acked > 0
       THEN /\ last_ack_bytes' = sent_queue[acked]
            /\ sent_queue' = SubSeq(sent_queue, acked + 1, Len(sent_queue))
            /\ receive_seq' = m.seq /\ waketime' = 0
       ELSE UNCHANGED <<last_ack_bytes, sent_queue, receive_seq, waketime>>
    /\ IF m.data THEN receive_queue' = receive_queue + 1 /\ WakeReceiver /\ UNCHANGED last_ack_seq
       ELSE last_ack_seq' = m.seq /\ UNCHANGED receiver
    /\ UNCHANGED <<clock, est, queues, send_seq, idle_time, writing, pipe, kicks, need_kick_clock,
                   must_exit, mcu_, messages, replies>>

\* input_event: an error, or the end of the device
InputFails ==
    /\ bg = "poll" /\ MayEnd
    /\ must_exit' = TRUE /\ bg' = "exit"
    /\ UNCHANGED <<clock, est, queues, acks_, idle_time, writing, wakeup, receiver, input, mcu_,
                   messages, replies>>

\* A mutant: nobody is told of the end.
BackgroundEndsQuietly ==
    /\ bg = "exit" /\ bg' = "ended"
    /\ UNCHANGED <<clock, est, queues, acks_, idle_time, writing, wakeup, must_exit, receiver,
                   input, mcu_, messages, replies>>

\* The end of background_thread
BackgroundEnds ==
    /\ bg = "exit" /\ bg' = "ended"
    /\ WakeReceiver
    /\ UNCHANGED <<clock, est, queues, acks_, idle_time, writing, wakeup, must_exit,
                   receive_queue, input, mcu_, messages, replies>>

-----------------------------------------------------------------------------
(* The receiver and the main thread *)

\* serialqueue_pull: a message, or the end, or a wait
Pull ==
    /\ Unlocked /\ puller = "ready"
    /\ IF receive_queue > 0 THEN receive_queue' = receive_queue - 1 /\ UNCHANGED puller
       ELSE puller' = (IF must_exit THEN "done" ELSE "waiting") /\ UNCHANGED receive_queue
    /\ UNCHANGED <<clock, est, queues, acks_, idle_time, bg, writing, wakeup, must_exit, input,
                   mcu_, messages, replies>>

\* serialqueue_exit: without the lock
SerialqueueExit ==
    /\ MayEnd /\ must_exit' = TRUE
    /\ kicks' = kicks + 1
    /\ UNCHANGED <<clock, est, queues, acks_, idle_time, bg, writing, waketime, pipe,
                   need_kick_clock, receiver, input, mcu_, messages, replies>>

-----------------------------------------------------------------------------
(* The mcu (serial_irq.c) answers while it dispatches its first block, then *)
(* takes it from the buffer and acknowledges it; and the clock.             *)

NextSeq == send_seq - Len(pending) - Len(receive_buf) + 1

McuReply ==
    /\ Live /\ receive_buf # <<>> /\ ~replied /\ replies < MaxReplies
    /\ replied' = TRUE /\ replies' = replies + 1
    /\ input' = Append(input, [seq |-> NextSeq, data |-> TRUE])
    /\ UNCHANGED <<clock, est, queues, acks_, idle_time, bg, writing, wakeup, must_exit, receiver,
                   receive_buf, messages>>
McuPop ==
    /\ Live /\ receive_buf # <<>>
    /\ receive_buf' = Tail(receive_buf) /\ replied' = FALSE
    /\ input' = Append(input, [seq |-> NextSeq, data |-> FALSE])
    /\ UNCHANGED <<clock, est, queues, acks_, idle_time, bg, writing, wakeup, must_exit, receiver,
                   messages, replies>>

\* No thread has anything to do.
Settled == bg = "poll" /\ ~pipe /\ kicks = 0 /\ input = <<>> /\ clock < waketime

SQTick ==
    /\ Live /\ Settled /\ clock < LastClock
    /\ clock' = clock + 1
    /\ UNCHANGED <<est, queues, acks_, idle_time, bg, writing, wakeup, must_exit, receiver, input,
                   mcu_, messages, replies>>

SQNext ==
    \/ \E q \in CommandQueue : BuildTakes(q) \/ (\E r \in Requests[q] : SendBatch(q, r))
    \/ KickBgThread \/ SetClockEst
    \/ CommandEventSend \/ BuildDone \/ CommandEventShut \/ CommandEventSleep
    \/ PollTimeout \/ KickEvent \/ HandleMessage \/ InputFails \/ BackgroundEnds
    \/ Pull \/ SerialqueueExit
    \/ McuReply \/ McuPop \/ SQTick

-----------------------------------------------------------------------------
(* Properties *)

Heads == {q \in CommandQueue : ready_queue[q] \o upcoming_queue[q] # <<>>}
HeadOf(q) == (ready_queue[q] \o upcoming_queue[q])[1]

\* The time by which a message at the head of its queue is written
DueTime(m) ==
    LET req == IF m.req_clock = Background THEN idle_time + BgDelta ELSE m.req_clock - ReqDelta
    IN EstErr + (IF req > m.min_clock THEN req ELSE m.min_clock)

\* serialqueue_send_batch, check_send_command: whatever senders, kicks, answers and changes of
\* the clock estimate interleave, the background thread never sleeps into the time by which
\* the first message of a queue is to be written, unless it waits for the mcu to acknowledge
\* a block.
SentOnTime ==
    Settled /\ ~must_exit =>
        \A q \in Heads :
            \/ clock < DueTime(HeadOf(q))
            \/ Len(sent_queue) >= MaxPendingBlocks
            \/ sent_queue # <<>> /\ Total(sent_queue) + BlockMax + last_ack_bytes > Window

\* check_send_command, update_receive_seq: the blocks the mcu has not taken from its buffer
\* fit in it, also while an answer has acknowledged a block that is still there.
WindowKept == Total(receive_buf) <= Window

\* check_wake_receive, serialqueue_pull: the receiver does not sleep over a message, nor past
\* the end of the background thread, which does not take the lock to be told to end.
ReceiverAwake == puller = "waiting" => receive_queue = 0 /\ bg # "ended"
=============================================================================
