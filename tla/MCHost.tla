------------------------------- MODULE MCHost -------------------------------
(* Instances for TLC of three parts of the host that share no state: the     *)
(* reactor, a vacuum valve with its request queue, and the pick-and-place    *)
(* tools.  A behaviour is one of one part.                                   *)
EXTENDS Reactor, Valve, MCPnP, TLC
CONSTANTS a, b

VARIABLE part

all == <<vars, valvevars, pnpvars, part>>
CallbackSymmetry == Permutations(Callback)

MCInit ==
    /\ Init /\ ValveInit /\ PnPInit
    /\ part \in {"reactor", "valve", "pnp"}
    /\ part # "reactor" => \A t \in Timer : waketime[t] = NEVER

ReactorStep == part = "reactor" /\ Next /\ UNCHANGED <<valvevars, pnpvars, part>>
ValveStep == part = "valve" /\ ValveNext /\ UNCHANGED <<vars, pnpvars, part>>
PnPStep == part = "pnp" /\ PnPNext /\ UNCHANGED <<vars, valvevars, part>>
\* The valve and the tools may stop at their bounds.
Rest == part \in {"valve", "pnp"} /\ UNCHANGED all

MCNext == ReactorStep \/ ValveStep \/ PnPStep \/ Rest
MCSpec == MCInit /\ [][MCNext]_all
=============================================================================
