------------------------------ MODULE StepSync ------------------------------
(***************************************************************************)
(* How the host keeps the move queue of a micro-controller from            *)
(* overflowing: the messages of each stepper (klippy/chelper/stepcompress.c*)
(* add_move), their merge and the accounting of the move queue             *)
(* (klippy/chelper/steppersync.c), the serial queue that holds a message   *)
(* back until its min_clock (klippy/chelper/serialqueue.c), and the queue  *)
(* itself (src/stepper.c, src/basecmd.c).  A move is its first and last    *)
(* step clock.  Clocks are exact; a step event runs before a command that  *)
(* arrives in the same tick.                                               *)
(***************************************************************************)
EXTENDS Integers, Sequences, FiniteSets, SequencesExt

CONSTANTS
    Stepper,     \* in the order of sc_list
    MoveNums,    \* the values of move_num: the moves the steppers may use
    FarDiff,     \* CLOCK_DIFF_MAX
    MaxInterval, \* bound: clocks from one move to the next
    MaxSpan,     \* bound: clocks from the first to the last step of a move
    MaxPending,  \* bound: messages waiting in one stepcompress object
    MaxAhead,    \* bound: clocks that the host flushes ahead of time
    MaxClock     \* bound: the last clock

ASSUME StepSyncAssumption ==
    /\ Stepper \in Seq(STRING)
    /\ MoveNums \subseteq Nat \ {0}
    /\ {FarDiff, MaxInterval, MaxSpan, MaxPending, MaxAhead, MaxClock} \subseteq Nat

VARIABLES
    now,
    \* the host
    last_step_clock,  \* of each stepcompress object
    msg_queue,        \* of each stepcompress object
    move_clocks,      \* the heap of steppersync
    flushed,          \* the last move_clock of steppersync_flush
    upcoming,         \* the messages in the command queue of the serial queue
    \* the micro-controller
    active_until,     \* last step clock of the move a stepper makes, or Idle
    mq,               \* moves queued behind it
    free,             \* moves in the free list
    overflow,         \* move_alloc found no move
    late              \* a move came after its first step

host == <<last_step_clock, msg_queue, move_clocks, flushed>>
mcu == <<active_until, mq, free, overflow, late>>
vars == <<now, host, upcoming, mcu>>

Steppers == Range(Stepper)
Idle == -1

Init ==
    /\ now = 0
    /\ last_step_clock = [s \in Steppers |-> 0]
    /\ msg_queue = [s \in Steppers |-> <<>>]
    /\ flushed = 0
    /\ upcoming = <<>>
    /\ active_until = [s \in Steppers |-> Idle]
    /\ mq = [s \in Steppers |-> <<>>]
    /\ \E num \in MoveNums : move_clocks = [i \in 1..num |-> 0] /\ free = num
    /\ overflow = FALSE /\ late = FALSE

-----------------------------------------------------------------------------
(* stepcompress.c *)

\* add_move: steps are only generated after the last flush.  min_clock says
\* when the move is loaded, so that its place in the move queue is free.
MoveClockEarly(s) == IF last_step_clock[s] > 0 THEN last_step_clock[s] - 1 ELSE 0
MoveClock(s) == last_step_clock[s]
AddMove(s, interval, span) ==
    LET first == last_step_clock[s] + interval
        last == first + span
    IN  /\ Len(msg_queue[s]) < MaxPending
        /\ first > flushed /\ first > now /\ last <= MaxClock
        /\ msg_queue' = [msg_queue EXCEPT ![s] = Append(@,
              [move |-> TRUE, of |-> s, min |-> MoveClock(s),
               req |-> IF span = 0 /\ interval >= FarDiff THEN first ELSE last_step_clock[s],
               first |-> first, last |-> last])]
        /\ last_step_clock' = [last_step_clock EXCEPT ![s] = last]
        /\ UNCHANGED <<now, move_clocks, flushed, upcoming, mcu>>

\* set_next_step_dir, and stepcompress_queue_msg: a message that takes no move.
\* At most one is under way here, as a bound.
UnderWay == {upcoming[i] : i \in DOMAIN upcoming}
            \cup UNION {{msg_queue[s][i] : i \in DOMAIN msg_queue[s]} : s \in Steppers}
QueueMsg(s) ==
    /\ Len(msg_queue[s]) < MaxPending
    /\ \A msg \in UnderWay : msg.move
    /\ msg_queue' = [msg_queue EXCEPT ![s] = Append(@,
          [move |-> FALSE, of |-> s, min |-> 0, req |-> last_step_clock[s],
           first |-> MaxClock, last |-> MaxClock])]
    /\ UNCHANGED <<now, last_step_clock, move_clocks, flushed, upcoming, mcu>>

-----------------------------------------------------------------------------
(* steppersync.c *)

\* heap_replace: replace the root of the heap mc by clock, which sinks to its
\* place.  Sink[pos] is the heap with the hole at pos filled.
ChildClock(mc, pos) == IF pos \in DOMAIN mc THEN mc[pos] ELSE MaxClock + 1
SinkTo(mc, pos) ==
    IF ChildClock(mc, 2 * pos) < ChildClock(mc, 2 * pos + 1) THEN 2 * pos ELSE 2 * pos + 1
HeapReplace(mc, clock) ==
    LET Sink[pos \in DOMAIN mc, heap \in [DOMAIN mc -> 0..MaxClock]] ==
          IF clock <= ChildClock(heap, 2 * pos) /\ clock <= ChildClock(heap, 2 * pos + 1)
          THEN [heap EXCEPT ![pos] = clock]
          ELSE LET child == SinkTo(heap, pos)
               IN  Sink[child, [heap EXCEPT ![pos] = heap[child]]]
    IN  Sink[1, mc]

\* The loop of steppersync_flush: its state is the queues, the heap and the
\* batch; one round takes the first message with the lowest req_clock.
NextStepperUnordered(q) == SelectSeq(Stepper, LAMBDA s : q[s] # <<>>)[1]
NextStepper(q) ==
    LET ready == SelectSeq(Stepper, LAMBDA s : q[s] # <<>>)
    IN  ready[CHOOSE i \in DOMAIN ready :
                 /\ \A j \in DOMAIN ready : q[ready[i]][1].req <= q[ready[j]][1].req
                 /\ \A j \in 1..i - 1 : q[ready[i]][1].req < q[ready[j]][1].req]

UsesMoveQueue(msg) == msg.min # 0

FlushRound(st, move_clock) ==
    IF \A s \in Steppers : st.q[s] = <<>> THEN st
    ELSE LET s == NextStepper(st.q)
             qm == Head(st.q[s])
         IN  IF UsesMoveQueue(qm) /\ qm.req > move_clock THEN st
             ELSE [q |-> [st.q EXCEPT ![s] = Tail(@)],
                   heap |-> IF UsesMoveQueue(qm) THEN HeapReplace(st.heap, qm.min) ELSE st.heap,
                   batch |-> Append(st.batch, [qm EXCEPT !.min = st.heap[1]])]

Flush(move_clock) ==
    LET rounds == [i \in 1..Len(Stepper) * MaxPending |-> i]
        st == FoldLeft(LAMBDA a, i : FlushRound(a, move_clock),
                       [q |-> msg_queue, heap |-> move_clocks, batch |-> <<>>], rounds)
    IN  /\ move_clock > flushed /\ move_clock <= now + MaxAhead
        /\ msg_queue' = st.q
        /\ move_clocks' = st.heap
        /\ flushed' = move_clock
        /\ upcoming' = upcoming \o st.batch
        /\ UNCHANGED <<now, last_step_clock, mcu>>

-----------------------------------------------------------------------------
(* The serial queue and the micro-controller *)

StepDue == \E s \in Steppers : active_until[s] # Idle /\ active_until[s] <= now

\* serialqueue.c lets a message through when it will arrive at its min_clock
\* or later; the command that arrives is queue_step or one without a move.
MayArrive(msg) == now >= msg.min

Deliver ==
    /\ ~StepDue /\ ~late
    /\ upcoming # <<>> /\ MayArrive(Head(upcoming))
    /\ upcoming' = Tail(upcoming)
    /\ LET m == Head(upcoming)
           s == m.of
       IN  IF ~m.move
           THEN UNCHANGED mcu
           ELSE /\ overflow' = (overflow \/ free = 0)
                /\ late' = (active_until[s] = Idle /\ now > m.first)
                /\ IF active_until[s] = Idle
                   THEN /\ active_until' = [active_until EXCEPT ![s] = m.last]
                        /\ UNCHANGED <<mq, free>>
                   ELSE /\ mq' = [mq EXCEPT ![s] = Append(@, m.last)]
                        /\ free' = free - 1
                        /\ UNCHANGED active_until
    /\ UNCHANGED <<now, host>>

\* The last step of a move: stepper_load_next
LastStep(s) ==
    /\ active_until[s] # Idle /\ active_until[s] <= now
    /\ IF mq[s] = <<>>
       THEN /\ active_until' = [active_until EXCEPT ![s] = Idle]
            /\ UNCHANGED <<mq, free>>
       ELSE /\ active_until' = [active_until EXCEPT ![s] = Head(mq[s])]
            /\ mq' = [mq EXCEPT ![s] = Tail(@)]
            /\ free' = free + 1
    /\ UNCHANGED <<now, host, upcoming, overflow, late>>

Tick ==
    /\ ~StepDue /\ now < MaxClock
    /\ now' = now + 1
    /\ UNCHANGED <<host, upcoming, mcu>>

Next ==
    \/ \E s \in Steppers :
          \/ \E i \in 1..MaxInterval, d \in 0..MaxSpan : AddMove(s, i, d)
          \/ QueueMsg(s)
          \/ LastStep(s)
    \/ \E c \in 1..MaxClock : Flush(c)
    \/ Deliver
    \/ Tick

Spec == Init /\ [][Next]_vars

-----------------------------------------------------------------------------
(* Properties *)

\* Whatever moves the steppers get and however the messages are delayed,
\* move_alloc never finds the free list empty ("Move queue overflow"), and
\* heap_replace keeps a heap, whose root is the next place to come free.
NoMoveQueueOverflow ==
    /\ ~overflow
    /\ \A i \in 2..Len(move_clocks) : move_clocks[i \div 2] <= move_clocks[i]

\* The accounting never holds a move back beyond its first step: no stepper
\* starves another of space in the move queue.
AvailableInTime == \A i \in DOMAIN upcoming : upcoming[i].min <= upcoming[i].first
=============================================================================
