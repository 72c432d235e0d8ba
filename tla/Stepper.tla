------------------------------ MODULE Stepper -------------------------------
(***************************************************************************)
(* The steppers of one micro-controller (src/stepper.c) and the pool of    *)
(* moves they share (src/basecmd.c).  Commands run in the main loop, step  *)
(* events and the trigger that stops a stepper in interrupts; each holds   *)
(* the interrupts off while it changes a stepper.  When a step happens is  *)
(* left open: the model follows which steps are made, in which direction,  *)
(* and where the moves are.                                                *)
(***************************************************************************)
EXTENDS Integers, Sequences, FiniteSets

CONSTANTS
    Stepper,
    MoveCount,   \* move_count
    Bias,        \* POSITION_BIAS; positions are integers mod 4 * Bias
    MaxCount,    \* bound: steps in a move
    MaxPos       \* bound: how far the host moves a stepper

ASSUME StepperAssumption ==
    /\ IsFiniteSet(Stepper)
    /\ MoveCount \in Nat \ {0} /\ MaxCount \in Nat \ {0} /\ MaxPos \in Nat
    /\ Bias \in Nat /\ MaxPos < Bias

VARIABLES
    mode,        \* how command_config_stepper set the stepper up
    position, count, last_dir, next_dir, need_reset,
    mq,          \* the moves queued: [count, dir]
    armed,       \* the stepper's timer is on the timer list
    signal,      \* stop_signal is registered with a trsync
    dir_pin,     \* level of the direction pin
    step_pin,    \* the step pin is away from its unstep level
    free,        \* length of move_free_list
    is_shutdown,
    true_pos,    \* history: the position of the motor
    promised     \* history: where the moves the stepper took over will end

stepper == <<position, count, last_dir, next_dir, need_reset, mq, armed, signal, dir_pin,
             step_pin, true_pos, promised>>
vars == <<mode, stepper, free, is_shutdown>>

(***************************************************************************)
(* "full" steps and unsteps in two events (SF_SINGLE_SCHED clear), "both"  *)
(* steps on both edges, also as stepper_event_edge, "avr" steps and        *)
(* unsteps in one event.                                                   *)
(***************************************************************************)
Mode == {"full", "both", "avr"}
SingleSched(s) == mode[s] # "full"

Modulus == 4 * Bias
Neg(p) == (Modulus - p) % Modulus

Init ==
    /\ mode \in [Stepper -> Mode]
    /\ position = [s \in Stepper |-> Neg(Bias)]
    /\ count = [s \in Stepper |-> 0]
    /\ last_dir = [s \in Stepper |-> FALSE] /\ next_dir = [s \in Stepper |-> FALSE]
    /\ need_reset = [s \in Stepper |-> FALSE]
    /\ mq = [s \in Stepper |-> <<>>]
    /\ armed = [s \in Stepper |-> FALSE] /\ signal = [s \in Stepper |-> FALSE]
    /\ dir_pin = [s \in Stepper |-> FALSE] /\ step_pin = [s \in Stepper |-> FALSE]
    /\ free = MoveCount
    /\ is_shutdown = FALSE
    /\ true_pos = [s \in Stepper |-> 0] /\ promised = [s \in Stepper |-> 0]

-----------------------------------------------------------------------------
\* stepper_get_position: the steps not yet taken are subtracted, and the top
\* bit says that the position counts down.
StepsLeftRoundedUp(s) == IF SingleSched(s) THEN count[s] ELSE (count[s] + 1) \div 2
StepsLeft(s) == IF SingleSched(s) THEN count[s] ELSE count[s] \div 2
GetPosition(s) ==
    LET p == (position[s] - StepsLeft(s)) % Modulus
    IN  IF p >= 2 * Bias THEN Neg(p) ELSE p

\* stepper_load_next: the next move of the queue q, if there is one, goes back
\* to the pool of f free moves.
LoadNext(s, q, f) ==
    IF q = <<>>
    THEN /\ count' = [count EXCEPT ![s] = 0]
         /\ armed' = [armed EXCEPT ![s] = FALSE]
         /\ mq' = [mq EXCEPT ![s] = <<>>]
         /\ free' = f
         /\ UNCHANGED <<position, dir_pin>>
    ELSE LET m == Head(q)
             from == IF m.dir THEN Neg(position[s]) ELSE position[s]
         IN  /\ position' = [position EXCEPT ![s] = (from + m.count) % Modulus]
             /\ count' = [count EXCEPT ![s] = IF SingleSched(s) THEN m.count ELSE 2 * m.count]
             /\ dir_pin' = [dir_pin EXCEPT ![s] = IF m.dir THEN ~@ ELSE @]
             /\ armed' = [armed EXCEPT ![s] = TRUE]
             /\ mq' = [mq EXCEPT ![s] = Tail(q)]
             /\ free' = f + 1

\* One pulse of the step pin moves the motor.
StepMotor(s) == true_pos' = [true_pos EXCEPT ![s] = IF dir_pin[s] THEN @ + 1 ELSE @ - 1]

\* stepper_event_full, stepper_event_edge and stepper_event_avr
StepEvent(s) ==
    /\ armed[s] /\ ~is_shutdown
    /\ step_pin' = [step_pin EXCEPT ![s] = IF mode[s] = "avr" THEN @ ELSE ~@]
    /\ IF mode[s] = "full" /\ step_pin[s] THEN UNCHANGED true_pos ELSE StepMotor(s)
    /\ IF count[s] = 1
       THEN LoadNext(s, mq[s], free)
       ELSE /\ count' = [count EXCEPT ![s] = @ - 1]
            /\ UNCHANGED <<position, mq, armed, dir_pin, free>>
    /\ UNCHANGED <<mode, last_dir, next_dir, need_reset, signal, is_shutdown, promised>>

-----------------------------------------------------------------------------
\* stepper_stop returns the step pin to its unstep level.
PinStopped(s) == step_pin[s] /\ mode[s] = "both"

\* stepper_stop for the steppers of S, whose queues are q.
StopSteppers(S, q) ==
    /\ position' = [s \in Stepper |-> IF s \in S THEN Neg(GetPosition(s)) ELSE position[s]]
    /\ count' = [s \in Stepper |-> IF s \in S THEN 0 ELSE count[s]]
    /\ last_dir' = [s \in Stepper |-> s \notin S /\ last_dir[s]]
    /\ next_dir' = [s \in Stepper |-> s \notin S /\ next_dir[s]]
    /\ need_reset' = [s \in Stepper |-> s \in S \/ need_reset[s]]
    /\ dir_pin' = [s \in Stepper |-> s \notin S /\ dir_pin[s]]
    /\ step_pin' = [s \in Stepper |-> IF s \in S THEN PinStopped(s) ELSE step_pin[s]]
    /\ armed' = [s \in Stepper |-> s \notin S /\ armed[s]]
    /\ signal' = [s \in Stepper |-> s \notin S /\ signal[s]]
    /\ mq' = [s \in Stepper |-> IF s \in S THEN <<>> ELSE q[s]]
    /\ promised' = [s \in Stepper |-> IF s \in S THEN true_pos[s] ELSE promised[s]]
    /\ UNCHANGED true_pos

\* The moves in the queues q of the steppers of S
Places(S, q) == UNION {{s} \X (1..Len(q[s])) : s \in S}
Lengths(S, q) == Cardinality(Places(S, q))

\* A trsync triggers and dispatches the signal.
Trigger(s) ==
    /\ signal[s] /\ ~is_shutdown
    /\ StopSteppers({s}, mq)
    /\ free' = free + Lengths({s}, mq)
    /\ UNCHANGED <<mode, is_shutdown>>

\* stepper_shutdown clears the queues first, as move_reset, which may run
\* before or after it, frees every move.
Cleared(q) == [s \in Stepper |-> <<>>]
RunShutdown ==
    /\ is_shutdown' = TRUE
    /\ StopSteppers(Stepper, Cleared(mq))
    /\ free' = MoveCount + Lengths(Stepper, Cleared(mq))
    /\ UNCHANGED mode

Shutdown == ~is_shutdown /\ RunShutdown

\* command_clear_shutdown
ClearShutdown ==
    /\ is_shutdown
    /\ is_shutdown' = FALSE
    /\ UNCHANGED <<mode, stepper, free>>

-----------------------------------------------------------------------------
\* The direction flag of a new move, and SF_LAST_DIR when it is accepted.
DirChange(s) == last_dir[s] # next_dir[s]
LastDirDropped(s, accepted) == next_dir[s]
LastDir(s, accepted) == IF accepted THEN next_dir[s] ELSE last_dir[s]

\* command_queue_step
QueueStep(s, c) ==
    LET m == [count |-> c, dir |-> DirChange(s)]
        accepted == count[s] > 0 \/ ~need_reset[s]
        moved == promised[s] + (IF next_dir[s] THEN c ELSE -c)
    IN  /\ ~is_shutdown
        /\ moved \in -MaxPos..MaxPos
        /\ IF free = 0
           THEN RunShutdown
           ELSE /\ last_dir' = [last_dir EXCEPT ![s] = LastDir(s, accepted)]
                /\ IF count[s] > 0
                   THEN /\ mq' = [mq EXCEPT ![s] = Append(@, m)]
                        /\ free' = free - 1
                        /\ UNCHANGED <<position, count, armed, dir_pin>>
                   ELSE IF need_reset[s]
                   THEN UNCHANGED <<position, count, mq, armed, dir_pin, free>>
                   ELSE LoadNext(s, <<m>>, free - 1)
                /\ promised' = [promised EXCEPT ![s] = IF accepted THEN moved ELSE @]
                /\ UNCHANGED <<mode, next_dir, need_reset, signal, step_pin, true_pos,
                               is_shutdown>>

\* command_set_next_step_dir
SetNextStepDir(s, d) ==
    /\ ~is_shutdown
    /\ next_dir' = [next_dir EXCEPT ![s] = d]
    /\ UNCHANGED <<mode, position, count, last_dir, need_reset, mq, armed, signal, dir_pin,
                   step_pin, true_pos, promised, free, is_shutdown>>

\* command_reset_step_clock
ResetStepClock(s) ==
    /\ ~is_shutdown
    /\ IF count[s] > 0
       THEN RunShutdown
       ELSE /\ need_reset' = [need_reset EXCEPT ![s] = FALSE]
            /\ UNCHANGED <<mode, position, count, last_dir, next_dir, mq, armed, signal,
                           dir_pin, step_pin, true_pos, promised, free, is_shutdown>>

\* command_stepper_stop_on_trigger
StopOnTrigger(s) ==
    /\ ~is_shutdown
    /\ IF signal[s]
       THEN RunShutdown
       ELSE /\ signal' = [signal EXCEPT ![s] = TRUE]
            /\ UNCHANGED <<mode, position, count, last_dir, next_dir, need_reset, mq, armed,
                           dir_pin, step_pin, true_pos, promised, free, is_shutdown>>

Next ==
    \/ Shutdown \/ ClearShutdown
    \/ \E s \in Stepper :
          \/ StepEvent(s) \/ Trigger(s)
          \/ \E c \in 1..MaxCount : QueueStep(s, c)
          \/ \E d \in BOOLEAN : SetNextStepDir(s, d)
          \/ ResetStepClock(s) \/ StopOnTrigger(s)

Spec == Init /\ [][Next]_vars

-----------------------------------------------------------------------------
(* Properties *)

\* Every variable has its type; the position stays in its width.
TypeOK ==
    /\ mode \in [Stepper -> Mode]
    /\ position \in [Stepper -> 0..Modulus - 1]
    /\ count \in [Stepper -> 0..2 * MaxCount]
    /\ last_dir \in [Stepper -> BOOLEAN] /\ next_dir \in [Stepper -> BOOLEAN]
    /\ need_reset \in [Stepper -> BOOLEAN]
    /\ \A s \in Stepper : \A i \in DOMAIN mq[s] : mq[s][i] \in [count : 1..MaxCount, dir : BOOLEAN]
    /\ armed \in [Stepper -> BOOLEAN] /\ signal \in [Stepper -> BOOLEAN]
    /\ dir_pin \in [Stepper -> BOOLEAN] /\ step_pin \in [Stepper -> BOOLEAN]
    /\ free \in 0..MoveCount
    /\ is_shutdown \in BOOLEAN

\* At any moment, also in the middle of a move or of a step pulse and after a
\* trigger or a shutdown, stepper_get_position is where the motor is.
PositionTrue == \A s \in Stepper : GetPosition(s) - Bias = true_pos[s]

\* A stepper that comes to rest has made the steps of every move it took over,
\* in the direction set when the move was queued: directions set for moves
\* that were discarded leave no trace.  Its step pin is at the unstep level, so
\* that the next step is not lost.  Moves are queued only behind one being made,
\* and the timer is on the list just while there is one, so every queued move will
\* be taken over; none is lost from the pool and none is in it twice.
MovesMade ==
    /\ TypeOK
    /\ \A s \in Stepper : count[s] = 0 =>
          /\ true_pos[s] = promised[s]
          /\ mode[s] # "both" => ~step_pin[s]
          /\ mq[s] = <<>>
    /\ \A s \in Stepper : armed[s] <=> count[s] > 0
    /\ free + Lengths(Stepper, mq) = MoveCount
=============================================================================
