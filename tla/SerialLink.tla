----------------------------- MODULE SerialLink -----------------------------
(***************************************************************************)
(* The reliable message block protocol between the host                    *)
(* (klippy/chelper/serialqueue.c, one background thread) and the           *)
(* micro-controller (src/command.c, src/generic/serial_irq.c).             *)
(*                                                                         *)
(* A block is represented by the number the host gives it (send_seq when   *)
(* it is built).  The wire carries that number modulo SeqMod only: every   *)
(* receiver below reads a number through WireSeq.                          *)
(***************************************************************************)
EXTENDS Integers, Sequences

CONSTANTS
    SeqMod,       \* MESSAGE_SEQ_MASK + 1
    MaxPending,   \* MAX_PENDING_BLOCKS
    WireCap,      \* bound: blocks, or replies, that fit in one direction
    MaxSeq,       \* bound: the host builds no block numbered above this
    MaxFaults,    \* bound: messages damaged or lost
    MaxReplies    \* bound: data messages the micro-controller sends

ASSUME LinkAssumption ==
    /\ SeqMod \in Nat /\ MaxPending \in Nat
    /\ 0 < MaxPending /\ MaxPending < SeqMod
    /\ WireCap \in Nat /\ MaxSeq \in Nat /\ MaxFaults \in Nat /\ MaxReplies \in Nat

VARIABLES
    \* struct serialqueue
    send_seq, receive_seq, last_ack_seq, ignore_nak_seq, retransmit_seq,
    sent_queue,        \* blocks sent and not acknowledged
    retransmit_timer,  \* the SQPT_RETRANSMIT timer
    notify_queue,      \* messages waiting for their block to be acknowledged
    receive_queue,     \* what serialqueue_pull returns, kept as a history
    \* the wire
    to_mcu, to_host,
    \* the micro-controller
    next_sequence, sync_state,
    dispatching,       \* the block in command_dispatch, or NoBlock
    dispatched,        \* history of dispatched blocks
    \* history and bounds
    first_seq, faults, replies

host == <<send_seq, receive_seq, last_ack_seq, ignore_nak_seq, retransmit_seq,
          sent_queue, retransmit_timer, notify_queue, receive_queue>>
mcu == <<next_sequence, sync_state, dispatching, dispatched>>
vars == <<host, to_mcu, to_host, mcu, first_seq, faults, replies>>

SYNC == 0       \* a lone MESSAGE_SYNC byte on the wire
NoBlock == 0

WireSeq(n) == n % SeqMod

Larger(a, b) == IF a >= b THEN a ELSE b

Ack(seq) == [ack |-> TRUE, seq |-> seq, of |-> NoBlock]
Data(seq, blk) == [ack |-> FALSE, seq |-> seq, of |-> blk]
Notification(blk) == [notify |-> TRUE, of |-> blk]
Response(blk) == [notify |-> FALSE, of |-> blk]

Messages == [ack : BOOLEAN, seq : Nat, of : Nat]
Entries == [notify : BOOLEAN, of : Nat]

(***************************************************************************)
(* serialqueue_alloc.  The micro-controller keeps its counter from the     *)
(* previous session, so the first number it expects is any of 1..SeqMod.   *)
(***************************************************************************)
Init ==
    /\ send_seq = 1 /\ receive_seq = 1
    /\ last_ack_seq = 0 /\ ignore_nak_seq = 0 /\ retransmit_seq = 0
    /\ sent_queue = <<>> /\ retransmit_timer = "never"
    /\ notify_queue = <<>> /\ receive_queue = <<>>
    /\ to_mcu = <<>> /\ to_host = <<>>
    /\ first_seq \in 1..SeqMod /\ next_sequence = first_seq
    /\ sync_state = {} /\ dispatching = NoBlock /\ dispatched = <<>>
    /\ faults = 0 /\ replies = 0

-----------------------------------------------------------------------------
(* The host *)

\* do_write on a non-blocking descriptor: what does not fit is lost.
Write(wire, items) ==
    LET all == wire \o items
    IN  SubSeq(all, 1, IF Len(all) < WireCap THEN Len(all) ELSE WireCap)

\* check_send_command: there is room in the window of unacknowledged blocks.
WindowOpenOneTooMany == send_seq - receive_seq <= MaxPending
WindowOpen == send_seq - receive_seq < MaxPending

\* command_event with one new block; a message in it may ask to be notified.
SendBlock(notify) ==
    /\ send_seq <= MaxSeq
    /\ WindowOpen
    /\ sent_queue' = Append(sent_queue, send_seq)
    /\ notify_queue' = IF notify THEN Append(notify_queue, send_seq)
                                 ELSE notify_queue
    /\ retransmit_timer' = IF sent_queue = <<>> THEN "rto" ELSE retransmit_timer
    /\ send_seq' = send_seq + 1
    /\ to_mcu' = Write(to_mcu, <<send_seq>>)
    /\ UNCHANGED <<receive_seq, last_ack_seq, ignore_nak_seq, retransmit_seq,
                   receive_queue, to_host, mcu, first_seq, faults, replies>>

\* The sequence number a reply stands for, as handle_message rebuilds it.
ReplySeq(m) == receive_seq + ((WireSeq(m.seq) - receive_seq) % SeqMod)

\* handle_message ignores an acknowledgement of a block that was not sent.
Unsent(rseq) == rseq # receive_seq /\ rseq > send_seq /\ receive_seq # 1

\* update_receive_seq: drop the acknowledged blocks; running out of blocks
\* before rseq is reached means connection init.
UpdateReceiveSeqNoInit(rseq) ==
    LET acked == rseq - receive_seq
    IN  /\ sent_queue' = IF acked <= Len(sent_queue)
                         THEN SubSeq(sent_queue, acked + 1, Len(sent_queue))
                         ELSE <<>>
        /\ receive_seq' = rseq
        /\ UNCHANGED send_seq
UpdateReceiveSeq(rseq) ==
    LET acked == rseq - receive_seq
    IN  /\ sent_queue' = IF acked <= Len(sent_queue)
                         THEN SubSeq(sent_queue, acked + 1, Len(sent_queue))
                         ELSE <<>>
        /\ send_seq' = IF acked <= Len(sent_queue) THEN send_seq ELSE rseq
        /\ receive_seq' = rseq

\* The retransmit timer as update_receive_seq leaves it.
TimerAfterNotRearmed(rseq) ==
    IF rseq = receive_seq THEN retransmit_timer ELSE "never"
TimerAfter(rseq) ==
    IF rseq = receive_seq THEN retransmit_timer
    ELSE IF sent_queue' = <<>> THEN "never" ELSE "rto"

\* The newest block whose messages handle_message notifies: the sender of a
\* data message may still be dispatching block rseq - 1.
WakeSeqNotWaiting(m, rseq) == rseq - 1
WakeSeq(m, rseq) == IF m.ack THEN rseq - 1 ELSE rseq - 2

\* Move to receive_queue the leading notify messages of blocks up to wake_seq,
\* then the message itself.
Notify(wake_seq, tail) ==
    \E n \in 0..Len(notify_queue) :
        /\ \A i \in 1..n : notify_queue[i] <= wake_seq
        /\ n < Len(notify_queue) => notify_queue[n + 1] > wake_seq
        /\ notify_queue' = SubSeq(notify_queue, n + 1, Len(notify_queue))
        /\ receive_queue' = receive_queue
               \o [i \in 1..n |-> Notification(notify_queue[i])] \o tail

\* handle_message takes a repeated acknowledgement for a nak.
IsNak(rseq) ==
    last_ack_seq >= rseq /\ rseq > ignore_nak_seq /\ sent_queue' # <<>>

\* handle_message.
HandleMessage ==
    /\ to_host # <<>> /\ to_host' = Tail(to_host)
    /\ LET m == Head(to_host)
           rseq == ReplySeq(m)
       IN  IF Unsent(rseq) THEN UNCHANGED host
           ELSE /\ UpdateReceiveSeq(rseq)
                /\ Notify(WakeSeq(m, rseq),
                          IF m.ack THEN <<>> ELSE <<Response(m.of)>>)
                /\ last_ack_seq' = IF m.ack THEN Larger(last_ack_seq, rseq)
                                            ELSE last_ack_seq
                /\ retransmit_timer' = IF m.ack /\ IsNak(rseq) THEN "now"
                                       ELSE TimerAfter(rseq)
                /\ UNCHANGED <<ignore_nak_seq, retransmit_seq>>
    /\ UNCHANGED <<to_mcu, mcu, first_seq, faults, replies>>

\* retransmit_event.  tcflush drops what the driver has not put on the wire.
RetransmitEvent ==
    /\ retransmit_timer # "never"
    /\ \E kept \in 0..Len(to_mcu) :
           /\ dispatching # NoBlock => kept > 0
           /\ to_mcu' = Write(SubSeq(to_mcu, 1, kept), <<SYNC>> \o sent_queue)
    /\ ignore_nak_seq' =
           IF retransmit_timer = "now" THEN Larger(receive_seq, retransmit_seq)
                                       ELSE send_seq
    /\ retransmit_seq' = send_seq
    /\ retransmit_timer' = "rto"
    /\ UNCHANGED <<send_seq, receive_seq, last_ack_seq, sent_queue,
                   notify_queue, receive_queue, to_host, mcu, first_seq,
                   faults, replies>>

-----------------------------------------------------------------------------
(* The micro-controller *)

\* console_sendf: a message that does not fit in transmit_buf is dropped.
Sendf(m) == to_host' = IF Len(to_host) < WireCap THEN Append(to_host, m)
                                                 ELSE to_host

\* command_find_block accepts the block at the head of the receive buffer.
FindBlock ==
    /\ dispatching = NoBlock
    /\ to_mcu # <<>> /\ Head(to_mcu) # SYNC
    /\ "CF_NEED_SYNC" \notin sync_state
    /\ WireSeq(Head(to_mcu)) = WireSeq(next_sequence)
    /\ sync_state' = sync_state \ {"CF_NEED_VALID"}
    /\ next_sequence' = next_sequence + 1
    /\ dispatching' = Head(to_mcu)
    /\ dispatched' = Append(dispatched, Head(to_mcu))
    /\ UNCHANGED <<host, to_mcu, to_host, first_seq, faults, replies>>

\* command_find_block: a valid block with another number is dropped and nak'ed.
NakBlock ==
    /\ dispatching = NoBlock
    /\ to_mcu # <<>> /\ Head(to_mcu) # SYNC
    /\ "CF_NEED_SYNC" \notin sync_state
    /\ WireSeq(Head(to_mcu)) # WireSeq(next_sequence)
    /\ sync_state' = sync_state \ {"CF_NEED_VALID"}
    /\ to_mcu' = Tail(to_mcu)
    /\ Sendf(Ack(next_sequence))
    /\ UNCHANGED <<host, next_sequence, dispatching, dispatched, first_seq,
                   faults, replies>>

\* A command handler replies while its block is being dispatched.
Reply ==
    /\ dispatching # NoBlock /\ replies < MaxReplies
    /\ Sendf(Data(next_sequence, dispatching))
    /\ replies' = replies + 1
    /\ UNCHANGED <<host, to_mcu, mcu, first_seq, faults>>

\* A task sends a message of its own.
TaskSendf ==
    /\ dispatching = NoBlock /\ replies < MaxReplies
    /\ Sendf(Data(next_sequence, NoBlock))
    /\ replies' = replies + 1
    /\ UNCHANGED <<host, to_mcu, mcu, first_seq, faults>>

\* console_task after command_dispatch: pop the block, then ack it.
PopAndAck ==
    /\ dispatching # NoBlock
    /\ dispatching' = NoBlock
    /\ to_mcu' = Tail(to_mcu)
    /\ Sendf(Ack(next_sequence))
    /\ UNCHANGED <<host, next_sequence, sync_state, dispatched, first_seq,
                   faults, replies>>

\* A handler calls shutdown(): longjmp out of console_task, so the block is
\* neither popped nor acked and console_task meets it again.
ShutdownInDispatch ==
    /\ dispatching # NoBlock /\ faults < MaxFaults
    /\ dispatching' = NoBlock
    /\ faults' = faults + 1
    /\ UNCHANGED <<host, to_mcu, to_host, next_sequence, sync_state,
                   dispatched, first_seq, replies>>

\* command_find_block: a SYNC byte alone is popped without a nak.
SkipSync ==
    /\ dispatching = NoBlock
    /\ to_mcu # <<>> /\ Head(to_mcu) = SYNC
    /\ to_mcu' = Tail(to_mcu)
    /\ sync_state' = sync_state \ {"CF_NEED_SYNC"}
    /\ UNCHANGED <<host, to_host, next_sequence, dispatching, dispatched,
                   first_seq, faults, replies>>

\* command_find_block, from the label need_sync on: drop bytes up to the next
\* SYNC, if it is there, and nak once for a run of invalid bytes.
NeedSync(found) ==
    /\ to_mcu' = Tail(to_mcu)
    /\ sync_state' = {"CF_NEED_VALID"} \cup (IF found THEN {} ELSE {"CF_NEED_SYNC"})
    /\ IF "CF_NEED_VALID" \in sync_state THEN UNCHANGED to_host
                                         ELSE Sendf(Ack(next_sequence))
    /\ UNCHANGED <<host, next_sequence, dispatching, dispatched, first_seq,
                   replies>>

\* Looking for a SYNC byte eats a whole valid block.
Resync ==
    /\ dispatching = NoBlock
    /\ to_mcu # <<>> /\ Head(to_mcu) # SYNC
    /\ "CF_NEED_SYNC" \in sync_state
    /\ NeedSync(TRUE)
    /\ UNCHANGED faults

\* The link damages the block at the head, with or without its SYNC byte.
CorruptBlock(found) ==
    /\ dispatching = NoBlock /\ faults < MaxFaults
    /\ to_mcu # <<>> /\ Head(to_mcu) # SYNC
    /\ NeedSync(found)
    /\ faults' = faults + 1

-----------------------------------------------------------------------------
(* The wire loses a block, or a reply (msgblock_check skips damaged ones). *)

LoseBlock ==
    /\ dispatching = NoBlock /\ to_mcu # <<>> /\ faults < MaxFaults
    /\ to_mcu' = Tail(to_mcu)
    /\ faults' = faults + 1
    /\ UNCHANGED <<host, to_host, mcu, first_seq, replies>>

LoseReply ==
    /\ to_host # <<>> /\ faults < MaxFaults
    /\ to_host' = Tail(to_host)
    /\ faults' = faults + 1
    /\ UNCHANGED <<host, to_mcu, mcu, first_seq, replies>>

-----------------------------------------------------------------------------
HostStep ==
    \/ \E notify \in BOOLEAN : SendBlock(notify)
    \/ HandleMessage \/ RetransmitEvent

McuStep ==
    \/ FindBlock \/ NakBlock \/ Reply \/ TaskSendf \/ PopAndAck
    \/ ShutdownInDispatch \/ SkipSync \/ Resync

Fault ==
    \/ \E found \in BOOLEAN : CorruptBlock(found)
    \/ LoseBlock \/ LoseReply

Next == HostStep \/ McuStep \/ Fault

Spec == Init /\ [][Next]_vars
-----------------------------------------------------------------------------
(* Fairness: both sides run an endless loop over their inputs, and the host *)
(* never stops sending, because clock queries repeat for ever.              *)

McuReceive == FindBlock \/ NakBlock \/ SkipSync \/ Resync

\* The retransmit timeout doubles, up to MAX_RTO, until an acknowledgement
\* comes: from some time on it expires only when nothing is in transit.
Quiet == to_mcu = <<>> /\ to_host = <<>> /\ dispatching = NoBlock
Timeout == RetransmitEvent /\ retransmit_timer = "rto"
Backoff == <>[][Timeout => Quiet]_vars

Fairness ==
    /\ WF_vars(HandleMessage) /\ WF_vars(RetransmitEvent)
    /\ WF_vars(\E notify \in BOOLEAN : SendBlock(notify))
    /\ WF_vars(McuReceive) /\ WF_vars(PopAndAck)
    /\ Backoff

FairSpec == Spec /\ Fairness

-----------------------------------------------------------------------------
(* Properties *)

\* The variables have their types and the wire its capacity.
TypeOK ==
    /\ send_seq \in Nat /\ receive_seq \in Nat /\ last_ack_seq \in Nat
    /\ ignore_nak_seq \in Nat /\ retransmit_seq \in Nat
    /\ sent_queue \in Seq(Nat) /\ notify_queue \in Seq(Nat)
    /\ retransmit_timer \in {"never", "now", "rto"}
    /\ receive_queue \in Seq(Entries)
    /\ to_mcu \in Seq(Nat) /\ Len(to_mcu) <= WireCap
    /\ to_host \in Seq(Messages) /\ Len(to_host) <= WireCap
    /\ next_sequence \in Nat /\ dispatching \in Nat /\ dispatched \in Seq(Nat)
    /\ sync_state \in SUBSET {"CF_NEED_SYNC", "CF_NEED_VALID"}
    /\ first_seq \in 1..SeqMod /\ faults \in Nat /\ replies \in Nat

\* The first block number whose dispatch is not complete.
Done == IF dispatching = NoBlock THEN next_sequence ELSE next_sequence - 1

\* Blocks are dispatched once each, in the order they were sent and without
\* a gap, whatever is lost, damaged or retransmitted: comparing four bits of
\* the number in command_find_block is enough.
DispatchedInOrder ==
    /\ next_sequence = first_seq + Len(dispatched)
    /\ \A i \in 1..Len(dispatched) : dispatched[i] = first_seq + i - 1

\* handle_message never takes a block for acknowledged before command_find_block
\* has accepted it: the number it rebuilds is never ahead of the real one.
AckedWasDispatched == receive_seq <= next_sequence

\* The acknowledgement of a block not sent, which handle_message ignores for
\* good, is never met while both sides stay up: it cannot stall a session.
NoUnsentAck ==
    to_host # <<>> => ~Unsent(ReplySeq(Head(to_host)))

\* sent_queue holds exactly the blocks from receive_seq to send_seq - 1, in
\* order, and never more than MAX_PENDING_BLOCKS: update_receive_seq relies on
\* it to pair a sequence number with a block, retransmit_event to size its buffer.
SentQueueMatches ==
    /\ Len(sent_queue) = send_seq - receive_seq
    /\ Len(sent_queue) <= MaxPending
    /\ \A i \in 1..Len(sent_queue) : sent_queue[i] = receive_seq + i - 1

\* The caller of raw_send_wait_ack is notified only when the dispatch of its
\* block is over, although replies sent during the dispatch already carry the
\* next sequence number.
NotifiedAfterDispatch ==
    \A i \in 1..Len(receive_queue) :
        receive_queue[i].notify => receive_queue[i].of < Done

\* Everything a command replied is in receive_queue before its notification
\* is, so the caller that wakes up has seen the response if it was not lost.
RepliesBeforeNotification ==
    \A i, j \in 1..Len(receive_queue) :
        i < j /\ receive_queue[i].notify /\ ~receive_queue[j].notify
            => receive_queue[j].of # receive_queue[i].of

\* Whatever was lost or damaged, every block the host sends is dispatched in the
\* end, the host learns of it, and delivers its notify message.  (It sends at most
\* MaxSeq blocks.  A data message takes the newest block off sent_queue without
\* notifying it, so if the ack is lost the notification waits for a later block:
\* the newest one needs MaxReplies = 0.)
EveryBlockAcked ==
    <>[](/\ next_sequence = send_seq /\ receive_seq = send_seq
         /\ \A i \in 1..Len(notify_queue) : notify_queue[i] = MaxSeq /\ MaxReplies > 0)

\* The service of CommandStream, blocks below first_seq left out: they are
\* the ones connection init may drop.
Stream == INSTANCE CommandStream WITH
    first <- first_seq,
    issued <- Larger(send_seq, next_sequence),
    delivered <- dispatched,
    confirmed <- Larger(receive_seq, first_seq)

\* The protocol implements that service.
ImplementsStream == Stream!Spec
=============================================================================
