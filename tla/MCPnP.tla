------------------------------- MODULE MCPnP --------------------------------
(* An instance of PnP for TLC: two nozzles of which one runs against its     *)
(* stepper, one tilted and one with runout, and a tilted camera.             *)
EXTENDS PnP

MCZStepper == [t \in Nozzle |-> IF t = "left" THEN "stepper_z" ELSE "stepper_z1"]
MCZSign == [t \in Nozzle |-> IF t = "left" THEN 1 ELSE -1]
MCRStepper == [t \in Tool |-> t]
MCShift ==
    [t \in Tool |-> [z \in -MaxDepth..0 |-> [r \in 0..MaxR |->
        CASE t = "left" -> z [] t = "right" -> 1 - r [] OTHER -> z + 1]]]
=============================================================================
