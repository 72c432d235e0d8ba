---------------------------- MODULE MCVirtualSD -----------------------------
(* Instances for TLC of VirtualSD and of Buttons, on which filament sensors  *)
(* report.  They share no state: a behaviour is one of one part, and a step  *)
(* of one part is not enabled in a behaviour of the other.                   *)
EXTENDS VirtualSD, Buttons

VARIABLE part

all == <<vars, btnvars, part>>

PrintPart == part = "print" /\ UNCHANGED <<btnvars, part>>
ButtonsPart == part = "buttons" /\ UNCHANGED <<vars, part>>

MCInit == Init /\ ButtonsInit /\ part \in {"print", "buttons"}
MCNext == (PrintPart /\ Next) \/ (ButtonsPart /\ ButtonsNext)

\* The fairness of Spec and of ButtonsSpec
MCSpec ==
    /\ MCInit /\ [][MCNext]_all
    /\ WF_all(PrintPart /\ WorkSteps) /\ WF_all(PrintPart /\ SensorSteps)
    /\ \A g \in Clients : WF_all(PrintPart /\ (DoPause(g) \/ ClientExecutes(g)))
    /\ WF_all(ButtonsPart /\ \E status \in SUBSET Pins : ButtonsEvent(status))
    /\ WF_all(ButtonsPart /\ ButtonsTask) /\ WF_all(ButtonsPart /\ ButtonsAck)
    /\ WF_all(ButtonsPart /\ HandleButtonsState)
=============================================================================
