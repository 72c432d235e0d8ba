----------------------------- MODULE ConsoleRx ------------------------------
(***************************************************************************)
(* The receive side of a micro-controller's uart console: the receive      *)
(* interrupt, console_task and console_pop_input (src/generic/serial_irq.c)*)
(* and the parser command_find_block (src/command.c).                      *)
(*                                                                         *)
(* A message block is three bytes here: a header (its length and sequence  *)
(* number), a body whose crc matches, and the sync byte.  The host sends   *)
(* blocks in order within its window and may repeat one of the window; any *)
(* byte may be corrupted on the way.  A shutdown may interrupt the main    *)
(* loop anywhere: its longjmp abandons console_task.                       *)
(***************************************************************************)
EXTENDS Integers, Sequences, FiniteSets

CONSTANTS
    SeqModulus,  \* MESSAGE_SEQ_MASK + 1
    Window,      \* MAX_PENDING_BLOCKS of the host
    BufSize,     \* RX_BUFFER_SIZE
    MaxBlocks,   \* bound: different blocks on the wire
    MaxFaults    \* bound: corrupted bytes, repeated blocks and shutdowns

ASSUME ConsoleRxAssumption ==
    /\ SeqModulus \in Nat /\ Window \in Nat \ {0} /\ Window < SeqModulus
    /\ BufSize \in Nat /\ BufSize >= 3
    /\ MaxBlocks \in Nat /\ MaxFaults \in Nat

VARIABLES
    wire,          \* bytes on their way
    blocks,        \* blocks put on the wire so far
    faults,
    receive_buf, receive_pos,
    wake,          \* tasks_status is TS_REQUESTED
    need_sync, need_valid, next_sequence,
    pc, rpos, pop_count, copied, ret,   \* the main loop in console_task
    pending,       \* history: bytes received and not yet popped
    dispatched,    \* history: blocks dispatched
    cut,           \* history: blocks accepted whose dispatch a shutdown cut off
    restarted      \* history: a shutdown came and console_task has not run since

parser == <<need_sync, need_valid, next_sequence>>
local == <<pc, rpos, pop_count, copied, ret>>
history == <<dispatched, cut, restarted>>
wire_vars == <<wire, blocks, faults>>
rxvars == <<wire_vars, receive_buf, receive_pos, wake, parser, local, pending, history>>

Header(id) == [kind |-> "header", id |-> id]
Body(id) == [kind |-> "body", id |-> id]
SyncByte == [kind |-> "sync", id |-> 0]
Bad == [kind |-> "garbage", id |-> 0]
Block(id) == <<Header(id), Body(id), SyncByte>>
MESSAGE_MIN == 2
msglen == 3
Accepted == Len(dispatched) + Cardinality(cut)

RxInit ==
    /\ wire = <<>> /\ blocks = 0 /\ faults = 0
    /\ receive_buf = [i \in 1..BufSize |-> Bad] /\ receive_pos = 0
    /\ wake = FALSE
    /\ need_sync = FALSE /\ need_valid = FALSE /\ next_sequence = 0
    /\ pc = "idle" /\ rpos = 0 /\ pop_count = 0 /\ copied = 0 /\ ret = 0
    /\ pending = <<>> /\ dispatched = <<>> /\ cut = {} /\ restarted = FALSE

-----------------------------------------------------------------------------
(* The wire *)

SendBlock ==
    /\ wire = <<>> /\ blocks < MaxBlocks /\ blocks - Accepted < Window
    /\ wire' = Block(blocks)
    /\ blocks' = blocks + 1
    /\ UNCHANGED <<faults, receive_buf, receive_pos, wake, parser, local, pending, history>>

RepeatBlock ==
    /\ wire = <<>> /\ faults < MaxFaults
    /\ \E id \in {i \in 0..blocks - 1 : i >= blocks - Window} : wire' = Block(id)
    /\ faults' = faults + 1
    /\ UNCHANGED <<blocks, receive_buf, receive_pos, wake, parser, local, pending, history>>

\* A byte is garbled, perhaps into the sync byte.
Corrupt ==
    /\ wire # <<>> /\ faults < MaxFaults
    /\ \E b \in {Bad, SyncByte} : wire' = <<b>> \o Tail(wire)
    /\ faults' = faults + 1
    /\ UNCHANGED <<blocks, receive_buf, receive_pos, wake, parser, local, pending, history>>

\* serial_rx_byte
RxByte ==
    /\ wire # <<>>
    /\ wire' = Tail(wire)
    /\ wake' = (wake \/ Head(wire) = SyncByte)
    /\ IF receive_pos >= BufSize
       THEN UNCHANGED <<receive_buf, receive_pos, pending>>
       ELSE /\ receive_buf' = [receive_buf EXCEPT ![receive_pos + 1] = Head(wire)]
            /\ receive_pos' = receive_pos + 1
            /\ pending' = Append(pending, Head(wire))
    /\ UNCHANGED <<blocks, faults, parser, local, history>>

-----------------------------------------------------------------------------
(* command_find_block on the first len bytes of buf *)

SyncPositions(buf, len) == {i \in 1..len : buf[i] = SyncByte}
UpToSync(buf, len) ==
    LET S == SyncPositions(buf, len)
    IN  IF S = {} THEN len ELSE CHOOSE i \in S : \A j \in S : i <= j

\* What the parser finds: nothing yet, a block, a stray sync byte, or bytes to skip.
Parsed(buf, len) ==
    IF need_sync /\ len > 0 THEN "skip"
    ELSE IF len < MESSAGE_MIN THEN "more"
    ELSE IF buf[1].kind = "header" /\ len < msglen THEN "more"
    ELSE IF buf[1].kind = "header" /\ buf[2] = Body(buf[1].id) /\ buf[3] = SyncByte THEN "block"
    ELSE IF buf[1] = SyncByte THEN "leading sync"
    ELSE "skip"

NeedMoreData ==
    /\ Parsed(receive_buf, rpos) = "more"
    /\ ret' = 0 /\ pop_count' = 0 /\ pc' = "idle"
    /\ UNCHANGED parser

\* The sequence number decides between a block to dispatch and one to nak.
InSequenceAny(id) == TRUE
InSequence(id) == id % SeqModulus = next_sequence
ValidBlock ==
    /\ Parsed(receive_buf, rpos) = "block"
    /\ need_valid' = FALSE /\ pop_count' = msglen
    /\ IF InSequence(receive_buf[1].id)
       THEN ret' = 1 /\ pc' = "dispatch" /\ next_sequence' = (next_sequence + 1) % SeqModulus
       ELSE ret' = -1 /\ pc' = "nak" /\ UNCHANGED next_sequence
    /\ UNCHANGED need_sync

LeadingSync ==
    /\ Parsed(receive_buf, rpos) = "leading sync"
    /\ ret' = -1 /\ pop_count' = 1 /\ pc' = "pop"
    /\ UNCHANGED parser

SkipToSync ==
    /\ Parsed(receive_buf, rpos) = "skip"
    /\ ret' = -1 /\ pop_count' = UpToSync(receive_buf, rpos)
    /\ need_sync' = (SyncPositions(receive_buf, rpos) = {})
    /\ need_valid' = TRUE
    /\ pc' = IF need_valid THEN "pop" ELSE "nak"
    /\ UNCHANGED <<next_sequence>>

FindBlock ==
    /\ pc = "find"
    /\ NeedMoreData \/ ValidBlock \/ LeadingSync \/ SkipToSync
    /\ copied' = 0
    /\ UNCHANGED <<wire_vars, receive_buf, receive_pos, wake, rpos, pending, dispatched,
                   cut, restarted>>

-----------------------------------------------------------------------------
(* console_task *)

\* run_tasks starts a pass over the tasks.
StartTask ==
    /\ pc = "idle" /\ wake
    /\ wake' = FALSE /\ restarted' = FALSE
    /\ rpos' = receive_pos
    /\ pc' = "find"
    /\ UNCHANGED <<wire_vars, receive_buf, receive_pos, parser, pop_count, copied, ret,
                   pending, dispatched, cut>>

\* command_dispatch
Dispatch ==
    /\ pc = "dispatch"
    /\ dispatched' = Append(dispatched, receive_buf[1].id)
    /\ pc' = "pop"
    /\ UNCHANGED <<wire_vars, receive_buf, receive_pos, wake, parser, rpos, pop_count,
                   copied, ret, pending, cut, restarted>>

\* The nak of command_find_block, or the ack after the block is popped.
SendAckNak ==
    /\ pc \in {"nak", "ack"}
    /\ pc' = IF pc = "nak" THEN "pop" ELSE "idle"
    /\ UNCHANGED <<wire_vars, receive_buf, receive_pos, wake, parser, rpos, pop_count,
                   copied, ret, pending, dispatched, cut, restarted>>

\* console_pop_input: read the position and move what is behind the block ...
WakeIfLeft(needcopy) == wake \/ needcopy > 0
PopCopy ==
    /\ pc = "pop"
    /\ rpos' = receive_pos
    /\ LET needcopy == receive_pos - pop_count
       IN  /\ receive_buf' = [i \in 1..BufSize |->
                 IF i \in copied + 1..needcopy THEN receive_buf[i + pop_count]
                                               ELSE receive_buf[i]]
           /\ copied' = IF needcopy > 0 THEN needcopy ELSE copied
           /\ wake' = WakeIfLeft(needcopy)
    /\ pc' = "commit"
    /\ UNCHANGED <<wire_vars, receive_pos, parser, pop_count, ret, pending, history>>

\* ... and commit with interrupts off, unless a byte has come since.
RacedNever == FALSE
Raced == rpos # receive_pos
PopCommit ==
    /\ pc = "commit"
    /\ IF Raced
       THEN pc' = "pop" /\ UNCHANGED <<receive_pos, pending>>
       ELSE /\ receive_pos' = rpos - pop_count
            /\ pending' = SubSeq(pending, pop_count + 1, Len(pending))
            /\ pc' = IF ret > 0 THEN "ack" ELSE "idle"
    /\ UNCHANGED <<wire_vars, receive_buf, wake, parser, rpos, pop_count, copied, ret,
                   history>>

-----------------------------------------------------------------------------
(* The rest of the system *)

\* sched_shutdown: the main loop is abandoned where it is; run_shutdown sends
\* a message, and what the buffer holds now is what console_task will see.
RxShutdown ==
    /\ faults < MaxFaults
    /\ faults' = faults + 1
    /\ pc' = "idle" /\ restarted' = TRUE
    /\ cut' = IF pc = "dispatch" THEN cut \cup {receive_buf[1].id} ELSE cut
    /\ pending' = SubSeq(receive_buf, 1, receive_pos)
    /\ UNCHANGED <<wire, blocks, receive_buf, receive_pos, wake, parser, rpos, pop_count,
                   copied, ret, dispatched>>

\* periodic_event wakes the tasks now and then.
PeriodicWake ==
    /\ ~wake
    /\ wake' = TRUE
    /\ UNCHANGED <<wire_vars, receive_buf, receive_pos, parser, local, pending, history>>

RxNext ==
    \/ SendBlock \/ RepeatBlock \/ Corrupt \/ RxByte
    \/ StartTask \/ FindBlock \/ Dispatch \/ SendAckNak \/ PopCopy \/ PopCommit
    \/ RxShutdown \/ PeriodicWake

RxSpec == RxInit /\ [][RxNext]_rxvars

-----------------------------------------------------------------------------
(* Properties *)

\* Every variable has its type; no index leaves the receive buffer.
RxTypeOK ==
    /\ receive_pos \in 0..BufSize /\ rpos \in 0..BufSize
    /\ pop_count \in 0..BufSize /\ copied \in 0..BufSize
    /\ ret \in -1..1
    /\ next_sequence \in 0..SeqModulus - 1
    /\ pc \in {"idle", "find", "dispatch", "nak", "pop", "commit", "ack"}
    /\ pc \in {"pop", "commit"} => pop_count <= receive_pos

\* Outside console_pop_input the buffer holds the bytes that have come and
\* have not been consumed: moving the buffer loses and repeats none, whenever
\* the receive interrupt comes.  And no complete block lies in it unnoticed: when
\* console_task is idle and the tasks are not woken the parser would not find one.
\* (After a shutdown the next pass waits for the next wake: run_tasks starts anew.)
NoBlockForgotten ==
    /\ RxTypeOK
    /\ pc \notin {"pop", "commit"} =>
          /\ Len(pending) = receive_pos
          /\ \A i \in 1..receive_pos : receive_buf[i] = pending[i]
    /\ pc = "idle" /\ ~wake /\ ~restarted => Parsed(receive_buf, receive_pos) # "block"

\* Blocks are dispatched in order and once each, and none is missing except
\* one a shutdown cut off: also when the wire repeats blocks, and when a
\* shutdown leaves a dispatched block or a half moved buffer behind.
DispatchedInOrder ==
    /\ \A i, j \in DOMAIN dispatched : i < j => dispatched[i] < dispatched[j]
    /\ \A i \in DOMAIN dispatched : \A id \in 0..dispatched[i] :
          id \in cut \/ \E j \in 1..i : dispatched[j] = id
=============================================================================
