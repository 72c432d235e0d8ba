----------------------------- MODULE ConsoleTx ------------------------------
(***************************************************************************)
(* The transmit side of a micro-controller's uart console: command_sendf   *)
(* (src/command.c), console_sendf and the transmit interrupt               *)
(* (src/generic/serial_irq.c).  The main loop takes console_sendf one      *)
(* access of the shared positions at a time; the transmit interrupt, timer *)
(* handlers that call sendf themselves, and shutdowns come in between.     *)
(***************************************************************************)
EXTENDS Integers, Sequences

CONSTANTS
    TxBufSize,      \* sizeof(transmit_buf)
    MaxSize,      \* the largest max_size of an encoder
    MaxMessages,  \* bound: messages sent
    MaxShutdowns  \* bound: shutdowns

ASSUME ConsoleTxAssumption ==
    /\ TxBufSize \in Nat /\ MaxSize \in 1..TxBufSize
    /\ MaxMessages \in Nat /\ MaxShutdowns \in Nat

VARIABLES
    transmit_buf, transmit_pos, transmit_max,
    tx_irq,        \* the transmit interrupt is enabled
    in_sendf,
    tx_pc, tpos, tmax, max_size, len,   \* the main loop in command_sendf
    shutdowns,
    stranded,      \* history: a shutdown came between a write of transmit_max and the enable
    messages,      \* messages generated so far
    accepted,      \* history: the bytes sendf has put into the buffer
    sent           \* history: the bytes on the wire

shared == <<transmit_buf, transmit_pos, transmit_max, tx_irq>>
call == <<tpos, tmax, max_size, len>>
txvars == <<shared, in_sendf, tx_pc, call, shutdowns, stranded, messages, accepted, sent>>

Message(id, n) == [i \in 1..n |-> <<id, i>>]

TxInit ==
    /\ transmit_buf = [i \in 1..TxBufSize |-> <<0, 0>>]
    /\ transmit_pos = 0 /\ transmit_max = 0 /\ tx_irq = FALSE
    /\ in_sendf = FALSE
    /\ tx_pc = "idle" /\ tpos = 0 /\ tmax = 0 /\ max_size = 0 /\ len = 0
    /\ shutdowns = 0 /\ stranded = FALSE /\ messages = 0 /\ accepted = <<>> /\ sent = <<>>

\* The buffer with the bytes from..to moved to its front.
Moved(buf, from, to) ==
    [i \in 1..TxBufSize |-> IF i <= to - from THEN buf[i + from] ELSE buf[i]]
\* The buffer with a message encoded at a position.
Encoded(buf, at, msg) ==
    [i \in 1..TxBufSize |-> IF i - at \in DOMAIN msg THEN msg[i - at] ELSE buf[i]]

-----------------------------------------------------------------------------
(* command_sendf in the main loop *)

\* The test and the set of in_sendf are two steps.
Begin ==
    /\ tx_pc = "idle" /\ messages < MaxMessages
    /\ \E m \in 1..MaxSize : \E n \in 1..m : max_size' = m /\ len' = n
    /\ ~in_sendf
    /\ tx_pc' = "set"
    /\ UNCHANGED <<shared, in_sendf, tpos, tmax, shutdowns, stranded, messages, accepted,
                   sent>>

SetInSendf ==
    /\ tx_pc = "set"
    /\ in_sendf' = TRUE /\ tx_pc' = "read"
    /\ UNCHANGED <<shared, call, shutdowns, stranded, messages, accepted, sent>>

ReadPositions ==
    /\ tx_pc = "read"
    /\ tpos' = transmit_pos /\ tmax' = transmit_max
    /\ tx_pc' = "empty"
    /\ UNCHANGED <<shared, in_sendf, max_size, len, shutdowns, stranded, messages,
                   accepted, sent>>

\* An empty buffer is used from its start again; the order of the two writes
\* keeps the interrupt from sending old bytes.
ResetPosFirst ==
    /\ tx_pc = "empty" /\ tpos >= tmax
    /\ tpos' = 0 /\ tmax' = 0
    /\ transmit_pos' = 0 /\ tx_pc' = "resetpos"
    /\ UNCHANGED <<transmit_buf, transmit_max, tx_irq, in_sendf, max_size, len, shutdowns,
                   stranded, messages, accepted, sent>>
ResetMax ==
    /\ tx_pc = "empty" /\ tpos >= tmax
    /\ tpos' = 0 /\ tmax' = 0
    /\ transmit_max' = 0 /\ tx_pc' = "resetpos"
    /\ UNCHANGED <<transmit_buf, transmit_pos, tx_irq, in_sendf, max_size, len, shutdowns,
                   stranded, messages, accepted, sent>>

ResetPos ==
    /\ tx_pc = "resetpos"
    /\ transmit_pos' = 0 /\ tx_pc' = "space"
    /\ UNCHANGED <<transmit_buf, transmit_max, tx_irq, in_sendf, call, shutdowns,
                   stranded, messages, accepted, sent>>

NotEmpty ==
    /\ tx_pc = "empty" /\ tpos < tmax
    /\ tx_pc' = "space"
    /\ UNCHANGED <<shared, in_sendf, call, shutdowns, stranded, messages, accepted, sent>>

CheckSpace ==
    /\ tx_pc = "space"
    /\ tx_pc' = IF tmax + max_size <= TxBufSize THEN "encode"
             ELSE IF tmax + max_size - tpos > TxBufSize THEN "end"
             ELSE "move"
    /\ UNCHANGED <<shared, in_sendf, call, shutdowns, stranded, messages, accepted, sent>>

\* "Disable TX irq and move buffer"
MoveDisable ==
    /\ tx_pc = "move"
    /\ transmit_max' = 0 /\ tx_pc' = "move2"
    /\ UNCHANGED <<transmit_buf, transmit_pos, tx_irq, in_sendf, call, shutdowns,
                   stranded, messages, accepted, sent>>

MoveBuffer ==
    /\ tx_pc = "move2"
    /\ tpos' = transmit_pos /\ tmax' = tmax - transmit_pos
    /\ transmit_buf' = Moved(transmit_buf, transmit_pos, tmax)
    /\ tx_pc' = "move3"
    /\ UNCHANGED <<transmit_pos, transmit_max, tx_irq, in_sendf, max_size, len, shutdowns,
                   stranded, messages, accepted, sent>>

MovePos ==
    /\ tx_pc = "move3"
    /\ transmit_pos' = 0 /\ tx_pc' = "move4"
    /\ UNCHANGED <<transmit_buf, transmit_max, tx_irq, in_sendf, call, shutdowns,
                   stranded, messages, accepted, sent>>

MoveMax ==
    /\ tx_pc = "move4"
    /\ transmit_max' = tmax /\ tx_pc' = "move5"
    /\ UNCHANGED <<transmit_buf, transmit_pos, tx_irq, in_sendf, call, shutdowns,
                   stranded, messages, accepted, sent>>

MoveEnable ==
    /\ tx_pc = "move5"
    /\ tx_irq' = TRUE /\ stranded' = FALSE /\ tx_pc' = "encode"
    /\ UNCHANGED <<transmit_buf, transmit_pos, transmit_max, in_sendf, call, shutdowns,
                   messages, accepted, sent>>

\* command_encode_and_frame into the buffer
Encode ==
    /\ tx_pc = "encode"
    /\ transmit_buf' = Encoded(transmit_buf, tmax, Message(messages + 1, len))
    /\ messages' = messages + 1
    /\ tx_pc' = "publish"
    /\ UNCHANGED <<transmit_pos, transmit_max, tx_irq, in_sendf, call, shutdowns,
                   stranded, accepted, sent>>

Publish ==
    /\ tx_pc = "publish"
    /\ transmit_max' = tmax + len
    /\ accepted' = accepted \o SubSeq(transmit_buf, tmax + 1, tmax + len)
    /\ tx_pc' = "enable"
    /\ UNCHANGED <<transmit_buf, transmit_pos, tx_irq, in_sendf, call, shutdowns,
                   stranded, messages, sent>>

EnableTxIrq ==
    /\ tx_pc = "enable"
    /\ tx_irq' = TRUE /\ stranded' = FALSE /\ tx_pc' = "end"
    /\ UNCHANGED <<transmit_buf, transmit_pos, transmit_max, in_sendf, call, shutdowns,
                   messages, accepted, sent>>

\* What a finished call leaves in its locals is never read again.
End ==
    /\ tx_pc = "end"
    /\ in_sendf' = FALSE /\ tx_pc' = "idle"
    /\ tpos' = 0 /\ tmax' = 0 /\ max_size' = 0 /\ len' = 0
    /\ UNCHANGED <<shared, shutdowns, stranded, messages, accepted, sent>>

-----------------------------------------------------------------------------
(* Interrupts *)

\* The uart's handler: it sends the next byte, or disables itself.
TxIrq ==
    /\ tx_irq
    /\ IF transmit_pos >= transmit_max
       THEN tx_irq' = FALSE /\ UNCHANGED <<transmit_pos, sent>>
       ELSE /\ sent' = Append(sent, transmit_buf[transmit_pos + 1])
            /\ transmit_pos' = transmit_pos + 1
            /\ UNCHANGED tx_irq
    /\ UNCHANGED <<transmit_buf, transmit_max, in_sendf, tx_pc, call, shutdowns, stranded,
                   messages, accepted>>

\* A whole command_sendf in a handler: dropped while the main loop is in one.
MayIrqSendf == ~in_sendf
IrqSendf ==
    /\ MayIrqSendf
    /\ messages < MaxMessages
    /\ LET empty == transmit_pos >= transmit_max
           p == IF empty THEN 0 ELSE transmit_pos
           m == IF empty THEN 0 ELSE transmit_max
       IN  \E size \in 1..MaxSize : \E n \in 1..size :
             /\ m + size - p <= TxBufSize
             /\ LET move == m + size > TxBufSize
                    start == IF move THEN 0 ELSE p
                    at == IF move THEN m - p ELSE m
                    buf == IF move THEN Moved(transmit_buf, p, m) ELSE transmit_buf
                IN  /\ transmit_buf' = Encoded(buf, at, Message(messages + 1, n))
                    /\ transmit_pos' = start /\ transmit_max' = at + n
             /\ accepted' = accepted \o Message(messages + 1, n)
    /\ tx_irq' = TRUE /\ stranded' = FALSE
    /\ messages' = messages + 1
    /\ UNCHANGED <<in_sendf, tx_pc, call, shutdowns, sent>>

\* A shutdown abandons the call.  sendf_shutdown clears in_sendf, and
\* run_shutdown goes on to send "shutdown" (of any size here).  The bytes the
\* positions no longer cover are lost.
InFlight == SubSeq(transmit_buf, transmit_pos + 1, transmit_max)
TxShutdown ==
    /\ shutdowns < MaxShutdowns
    /\ shutdowns' = shutdowns + 1
    /\ stranded' = (stranded \/ tx_pc \in {"move5", "enable"})
    /\ in_sendf' = FALSE
    /\ \E m \in 1..MaxSize : \E n \in 1..m : max_size' = m /\ len' = n
    /\ tpos' = 0 /\ tmax' = 0
    /\ tx_pc' = "set"
    /\ accepted' = sent \o InFlight
    /\ UNCHANGED <<shared, messages, sent>>

TxNext ==
    \/ Begin \/ SetInSendf \/ ReadPositions \/ ResetMax \/ ResetPos \/ NotEmpty \/ CheckSpace
    \/ MoveDisable \/ MoveBuffer \/ MovePos \/ MoveMax \/ MoveEnable
    \/ Encode \/ Publish \/ EnableTxIrq \/ End
    \/ TxIrq \/ IrqSendf \/ TxShutdown

TxSpec == TxInit /\ [][TxNext]_txvars

-----------------------------------------------------------------------------
(* Properties *)

\* Every variable has its type; no position leaves the transmit buffer.
TxTypeOK ==
    /\ transmit_pos \in 0..TxBufSize /\ transmit_max \in 0..TxBufSize
    /\ tx_irq \in BOOLEAN /\ in_sendf \in BOOLEAN
    /\ tpos \in 0..TxBufSize /\ tmax \in 0..TxBufSize
    /\ tx_pc = "encode" => tmax + max_size <= TxBufSize

\* The bytes on the wire are the bytes of the accepted messages, in order:
\* the interrupt never repeats, skips or garbles one while console_sendf
\* resets, moves or extends the buffer.  Between calls the buffer holds all that
\* is yet to go, and the transmit interrupt is enabled while there is any: no
\* message waits for the next one.  (The exception: a shutdown between the write of
\* transmit_max and serial_enable_tx_irq, whose own message finds no room.)
BytesInOrder ==
    /\ TxTypeOK
    /\ Len(sent) <= Len(accepted)
    /\ sent = SubSeq(accepted, 1, Len(sent))
    /\ tx_pc = "idle" => accepted = sent \o InFlight
    /\ tx_pc = "idle" /\ transmit_pos < transmit_max => tx_irq \/ stranded
=============================================================================
