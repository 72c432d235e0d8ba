----------------------------- MODULE MCFirmware -----------------------------
(* Instances for TLC of four parts of the firmware that share no state: the  *)
(* two sides of the console, the steppers and a digital output.  A behaviour *)
(* is one of one part.                                                       *)
EXTENDS ConsoleRx, ConsoleTx, Stepper, DigitalOut, TLC

VARIABLE part

all == <<rxvars, txvars, vars, pinvars, part>>
StepperSymmetry == Permutations(Stepper)

MCInit ==
    /\ RxInit /\ TxInit /\ Init /\ PinInit
    /\ part \in {"receive", "transmit", "stepper", "digital_out"}
    /\ part # "stepper" => mode = [s \in Stepper |-> "full"]

ReceiveStep == part = "receive" /\ RxNext /\ UNCHANGED <<txvars, vars, pinvars, part>>
TransmitStep == part = "transmit" /\ TxNext /\ UNCHANGED <<rxvars, vars, pinvars, part>>
StepperStep == part = "stepper" /\ Next /\ UNCHANGED <<rxvars, txvars, pinvars, part>>
PinStep == part = "digital_out" /\ PinNext /\ UNCHANGED <<rxvars, txvars, vars, part>>
\* Transmitting and the pin may stop at their bounds.
Rest == part \in {"transmit", "digital_out"} /\ UNCHANGED all

MCNext == ReceiveStep \/ TransmitStep \/ StepperStep \/ PinStep \/ Rest
MCSpec == MCInit /\ [][MCNext]_all
=============================================================================
