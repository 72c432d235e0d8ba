----------------------------- MODULE MCChelper ------------------------------
(* Instances of three parts of chelper for TLC: StepSync with two steppers,  *)
(* SerialQueue with two command queues, FastReader with two mcus.  They share*)
(* no state: a behaviour is one of one part.                                 *)
EXTENDS StepSync, SerialQueue, FastReader

VARIABLE part

all == <<vars, sqvars, frvars, part>>

MCStepper == <<"x", "y">>
MCRequests == [q \in CommandQueue |-> IF q = "a" THEN {<<0, 0>>, <<2, 3>>}
                                      ELSE {<<0, 3>>, <<0, Background>>}]

\* A behaviour of FastReader may also begin where trdispatch_start has returned.
Started ==
    /\ todo = [t \in Threads |-> <<>>] /\ owner = [l \in Locks |-> Nobody]
    /\ fast_readers = Mcus /\ is_active = TRUE /\ can_trigger = TRUE

MCInit ==
    /\ Init /\ SQInit
    /\ \/ part = "steppersync" /\ FRInit
       \/ part = "serialqueue" /\ FRInit /\ Len(move_clocks) = 1
       \/ part = "trdispatch" /\ (FRInit \/ Started) /\ Len(move_clocks) = 1

StepSyncStep == part = "steppersync" /\ Next /\ UNCHANGED <<sqvars, frvars, part>>
SerialQueueStep == part = "serialqueue" /\ SQNext /\ UNCHANGED <<vars, frvars, part>>
FastReaderStep == part = "trdispatch" /\ FRNext /\ UNCHANGED <<vars, sqvars, part>>
\* A part that may stop at its bounds
Rest == part # "trdispatch" /\ UNCHANGED all

MCNext == StepSyncStep \/ SerialQueueStep \/ FastReaderStep \/ Rest
MCSpec == MCInit /\ [][MCNext]_all
=============================================================================
