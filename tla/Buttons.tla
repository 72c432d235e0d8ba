------------------------------ MODULE Buttons -------------------------------
(***************************************************************************)
(* Reporting buttons: the mcu samples its pins on a timer, debounces them  *)
(* and queues what changed (src/buttons.c); a task sends the queue and     *)
(* sends it again until the host acknowledges it; the host takes what is   *)
(* new and acknowledges that (klippy/extras/buttons.py).  Messages of the  *)
(* mcu arrive in order but may be lost; commands of the host are delivered *)
(* reliably and in order.  An ack count is a byte on both sides.           *)
(***************************************************************************)
EXTENDS Integers, Sequences

CONSTANTS
    Pins,            \* the buttons of one object
    QueueSize,       \* size of reports[]
    AckMod,          \* 2^8
    RetransmitCount, \* timer events between two transmissions
    MaxReports,      \* bound: changes of the pins
    MaxLosses,       \* bound: messages lost
    MaxInFlight      \* bound: messages on their way

Acked == -2          \* BF_ACKED and BF_PENDING, as signed bytes: their bit
Pending == -1        \* BF_NO_RETRANSMIT is the sign, and 0 counts down to BF_PENDING

ASSUME ButtonsAssumption ==
    /\ QueueSize \in Nat \ {0} /\ RetransmitCount \in Nat
    /\ AckMod \in Nat /\ AckMod % 2 = 0 /\ AckMod > 2 * QueueSize
    /\ MaxReports \in Nat /\ MaxLosses \in Nat /\ MaxInFlight \in Nat

VARIABLES
    pressed, last_pressed,      \* the debounced state and the last sample
    reports, ack_count,         \* the queue; reports acknowledged, modulo AckMod
    retransmit_state, buttons_wake,
    states, acks,               \* messages and commands on their way
    host_count, last_button,    \* the host's ack_count and last_button
    losses,
    reported, base, delivered,  \* history: all reports; those acknowledged; those taken
    dropped                     \* history: a change found the queue full

mcuvars == <<pressed, last_pressed, reports, ack_count, retransmit_state, buttons_wake>>
hostvars == <<host_count, last_button>>
btnhistory == <<reported, base, delivered, dropped>>
btnvars == <<mcuvars, states, acks, hostvars, losses, btnhistory>>

ButtonsInit ==
    /\ pressed = {} /\ last_pressed = {}
    /\ reports = <<>> /\ ack_count = 0
    /\ retransmit_state = Acked /\ buttons_wake = FALSE
    /\ states = <<>> /\ acks = <<>>
    /\ host_count = 0 /\ last_button = {}
    /\ losses = 0
    /\ reported = <<>> /\ base = 0 /\ delivered = <<>> /\ dropped = FALSE

-----------------------------------------------------------------------------
(* The mcu *)

SymDiff(S, T) == (S \ T) \cup (T \ S)

\* The new debounced state: a pin counts when two samples in a row agree on it.
Debounce(status) ==
    LET debounced == Pins \ SymDiff(status, last_pressed) IN
    IF SymDiff(status, pressed) \cap debounced = {} THEN pressed
    ELSE (pressed \ debounced) \cup (status \cap debounced)

CountdownStopsAtZero(r) == IF r > 0 THEN r - 1 ELSE r
\* The countdown to the next transmission; it wakes the task when it ends.
Countdown(r) == IF r >= 0 THEN r - 1 ELSE r

ButtonsEvent(status) ==
    LET changed == Debounce(status)
        report == changed # pressed /\ Len(reports) < QueueSize
        retransmit == IF report THEN Pending ELSE retransmit_state
    IN
    /\ changed # pressed => Len(reported) < MaxReports
    /\ pressed' = changed /\ last_pressed' = status
    /\ reports' = IF report THEN Append(reports, changed) ELSE reports
    /\ reported' = IF report THEN Append(reported, changed) ELSE reported
    /\ dropped' = (dropped \/ (changed # pressed /\ ~report))
    /\ retransmit_state' = Countdown(retransmit)
    /\ buttons_wake' = (buttons_wake \/ report \/ retransmit = 0)
    /\ UNCHANGED <<ack_count, states, acks, hostvars, losses, base, delivered>>

ButtonsTask ==
    /\ buttons_wake /\ buttons_wake' = FALSE
    /\ Len(states) < MaxInFlight
    /\ IF retransmit_state = Pending /\ reports # <<>>
       THEN /\ retransmit_state' = RetransmitCount
            /\ states' = Append(states, [ack_count |-> ack_count, state |-> reports, base |-> base])
       ELSE UNCHANGED <<retransmit_state, states>>
    /\ UNCHANGED <<pressed, last_pressed, reports, ack_count, acks, hostvars, losses, btnhistory>>

ButtonsAck ==
    LET count == Head(acks).count IN
    /\ acks # <<>> /\ acks' = Tail(acks)
    /\ ack_count' = (ack_count + count) % AckMod
    /\ base' = base + count
    /\ IF count >= Len(reports) THEN reports' = <<>> /\ retransmit_state' = Acked
       ELSE /\ reports' = SubSeq(reports, count + 1, Len(reports))
            /\ UNCHANGED retransmit_state
    /\ UNCHANGED <<pressed, last_pressed, buttons_wake, states, hostvars, losses,
                   reported, delivered, dropped>>

-----------------------------------------------------------------------------
(* The host *)

SignedDiffAlwaysPositive(a, b) == (a - b) % AckMod
\* The difference of two ack counts, from the byte it is sent as.
SignedDiff(a, b) ==
    LET d == (a - b) % AckMod IN IF d >= AckMod \div 2 THEN d - AckMod ELSE d

HandleButtonsState ==
    LET m == Head(states)
        new_count == SignedDiff(m.ack_count, host_count % AckMod) + Len(m.state)
        new == IF new_count < Len(m.state)    \* buttons[-new_count:]
               THEN SubSeq(m.state, Len(m.state) - new_count + 1, Len(m.state)) ELSE m.state
    IN
    /\ states # <<>> /\ states' = Tail(states)
    /\ IF new_count <= 0 THEN UNCHANGED <<acks, hostvars, delivered>>
       ELSE /\ acks' = Append(acks, [count |-> new_count, upto |-> host_count + new_count])
            /\ host_count' = host_count + new_count
            /\ last_button' = m.state[Len(m.state)]
            /\ delivered' = delivered \o new
    /\ UNCHANGED <<mcuvars, losses, reported, base, dropped>>

LoseState ==
    /\ states # <<>> /\ losses < MaxLosses
    /\ states' = Tail(states) /\ losses' = losses + 1
    /\ UNCHANGED <<mcuvars, acks, hostvars, btnhistory>>

ButtonsNext ==
    \/ \E status \in SUBSET Pins : ButtonsEvent(status)
    \/ ButtonsTask \/ ButtonsAck \/ HandleButtonsState \/ LoseState

\* The timer, the task, the link and the host go on; a pin at rest is sampled again.
ButtonsFair ==
    /\ WF_btnvars(\E status \in SUBSET Pins : ButtonsEvent(status))
    /\ WF_btnvars(ButtonsTask) /\ WF_btnvars(ButtonsAck) /\ WF_btnvars(HandleButtonsState)
ButtonsSpec == ButtonsInit /\ [][ButtonsNext]_btnvars /\ ButtonsFair

-----------------------------------------------------------------------------
(* Properties *)

\* buttons_ack, handle_buttons_state: over losses, retransmissions and wrapped counts the
\* host takes every queued change, once and in order, and both ends count the same ones.
DeliveredInOrder ==
    /\ base <= host_count /\ host_count <= Len(reported)
    /\ delivered = SubSeq(reported, 1, host_count)
    /\ reports = SubSeq(reported, base + 1, Len(reported))

\* buttons_event, buttons_task: when the pins rest and messages stop getting lost, the host
\* ends with the state of the pins, unless a change found the queue full.
HostCatchesUp == <>[](last_button = pressed \/ dropped)
=============================================================================
