------------------------------- MODULE Valve --------------------------------
(***************************************************************************)
(* The g-code commands of a pneumatic valve (pressure_valve.py): VALVE_SET,*)
(* VALVE_PICK, VALVE_CHECK and VALVE_WAIT, which open the valve through    *)
(* the request queue and then watch the pressure readings that the sensor  *)
(* delivers on its own.  A command holds the g-code mutex until it ends.   *)
(* Pressures are the three a nozzle has: closed valve, open valve with a   *)
(* free nozzle, open valve with a part on the nozzle.                      *)
(***************************************************************************)
EXTENDS RequestQueue

CONSTANT Timeout   \* timeout of the valve

ASSUME ValveAssumption == Timeout \in Nat

VARIABLES
    last_pressure,        \* the last reading
    part_on,
    cmd, start, event,    \* the running command, its start and its last poll
    outcome,              \* how the last command ended
    at_nozzle             \* there is a part on the nozzle

valvecmd == <<part_on, cmd, start, event, outcome>>
valvevars == <<rqvars, last_pressure, at_nozzle, valvecmd>>

\* The readings within part_on_min..part_on_max and part_off_min..part_off_max:
\* the default range of a free nozzle, -20..0, holds that of a closed valve.
OnRange == {"held"}
OffRange == {"closed", "free"}

ValveInit ==
    /\ RQInit
    /\ last_pressure = "closed" /\ part_on = FALSE
    /\ cmd = "none" /\ start = 0 /\ event = 0 /\ outcome = "none"
    /\ at_nozzle = FALSE

-----------------------------------------------------------------------------
(* The nozzle and the sensor *)

Pressure == IF pin = Off THEN "closed" ELSE IF at_nozzle THEN "held" ELSE "free"

\* pressure_callback
PressureCallback ==
    /\ Quiet
    /\ last_pressure' = Pressure
    /\ UNCHANGED <<rqvars, at_nozzle, valvecmd>>

\* A part is picked up while the valve is open; it falls, or sticks, once closed.
TakePart ==
    /\ pin # Off /\ ~at_nozzle
    /\ at_nozzle' = TRUE
    /\ UNCHANGED <<rqvars, last_pressure, valvecmd>>
DropPart ==
    /\ pin = Off /\ at_nozzle
    /\ at_nozzle' = FALSE
    /\ UNCHANGED <<rqvars, last_pressure, valvecmd>>

-----------------------------------------------------------------------------
(* The commands *)

Idle == cmd = "none" /\ ~is_shutdown
MayStart == MayRequest /\ Idle

ValveSetOpen ==
    /\ MayStart /\ OpenValve
    /\ outcome' = "none"
    /\ UNCHANGED <<last_pressure, at_nozzle, part_on, cmd, start, event>>
ValveSetClose ==
    /\ MayStart /\ CloseValve
    /\ outcome' = "none"
    /\ UNCHANGED <<last_pressure, at_nozzle, part_on, cmd, start, event>>

\* VALVE_PICK and VALVE_CHECK open the valve and start to poll at once.
Begin(c) ==
    /\ MayStart /\ OpenValve
    /\ cmd' = c /\ start' = est_time /\ event' = est_time
    /\ outcome' = "none"
    /\ UNCHANGED <<last_pressure, at_nozzle, part_on>>
ValvePick == Begin("pick")
ValveCheck == Begin("check")

\* One turn of wait_for_pressure, whose loop a shutdown ends like a timeout.
Polling(c) == Quiet /\ cmd = c /\ event = est_time
TimedOut == event - start > Timeout
InRange == last_pressure \in (IF cmd = "pick" THEN OnRange ELSE OffRange)
Found == ~is_shutdown /\ InRange
GivesUp == is_shutdown \/ (~InRange /\ TimedOut)

PollAgain ==
    /\ \E c \in {"pick", "check"} : Polling(c)
    /\ ~Found /\ ~GivesUp
    /\ event' = event + 1
    /\ UNCHANGED <<rqvars, last_pressure, at_nozzle, part_on, cmd, start, outcome>>

\* The command ends; the pause of 0.1 s before some of the replies is left out.
EndCommand(result) ==
    /\ cmd' = "none" /\ start' = 0 /\ event' = 0
    /\ outcome' = result
    /\ UNCHANGED <<last_pressure, at_nozzle>>

PickSucceeds ==
    /\ Polling("pick") /\ Found
    /\ part_on' = TRUE
    /\ EndCommand("picked")
    /\ UNCHANGED rqvars
PickFailsStayingOpen ==
    /\ Polling("pick") /\ GivesUp
    /\ part_on' = FALSE
    /\ EndCommand("not picked")
    /\ UNCHANGED rqvars
PickFails ==
    /\ Polling("pick") /\ GivesUp
    /\ CloseValve
    /\ part_on' = FALSE
    /\ EndCommand("not picked")
CheckSucceeds ==
    /\ Polling("check") /\ Found
    /\ CloseValve
    /\ part_on' = FALSE
    /\ EndCommand("clear")
CheckFails ==
    /\ Polling("check") /\ GivesUp
    /\ CloseValve
    /\ part_on' = part_on
    /\ EndCommand("not clear")

\* VALVE_WAIT calls get_boolean, which GCodeCommand does not have: the internal
\* error shuts the machine down.
ValveWait ==
    /\ Quiet /\ restart = "no" /\ Idle
    /\ InvokeShutdown
    /\ outcome' = "none"
    /\ UNCHANGED <<last_pressure, at_nozzle, part_on, cmd, start, event>>

\* M112, a failure of the micro-controller, or an error elsewhere, also in the
\* middle of a command
ValveShutdown ==
    /\ InvokeShutdown
    /\ UNCHANGED <<last_pressure, at_nozzle, valvecmd>>

ValveMove ==
    /\ Idle /\ Move
    /\ UNCHANGED <<last_pressure, at_nozzle, valvecmd>>
ValveBackground ==
    /\ Background
    /\ UNCHANGED <<last_pressure, at_nozzle, valvecmd>>
\* RESTART is a command of its own; what follows it needs no command.
ValveRestart ==
    /\ Idle /\ RequestRestart
    /\ UNCHANGED <<last_pressure, at_nozzle, valvecmd>>
ValveKill ==
    /\ Kill
    /\ UNCHANGED <<last_pressure, at_nozzle, valvecmd>>
ValveTick ==
    /\ RQTick
    /\ cmd # "none" => event > est_time
    /\ UNCHANGED <<last_pressure, at_nozzle, valvecmd>>

ValveNext ==
    \/ PressureCallback
    \/ TakePart
    \/ DropPart
    \/ ValveSetOpen
    \/ ValveSetClose
    \/ ValvePick
    \/ ValveCheck
    \/ PollAgain
    \/ PickSucceeds
    \/ PickFails
    \/ CheckSucceeds
    \/ CheckFails
    \/ ValveWait
    \/ ValveShutdown
    \/ ValveMove
    \/ ValveBackground
    \/ ValveRestart
    \/ ValveKill
    \/ ValveTick

ValveSpec == ValveInit /\ [][ValveNext]_valvevars

-----------------------------------------------------------------------------
(* Properties *)

\* The variables have their types.
ValveTypeOK ==
    /\ RQTypeOK
    /\ last_pressure \in {"closed", "free", "held"}
    /\ {part_on, at_nozzle} \subseteq BOOLEAN
    /\ cmd \in {"none", "pick", "check"} /\ {start, event} \subseteq Nat
    /\ outcome \in {"none", "picked", "not picked", "clear", "not clear"}

\* What a command leaves behind, once its requests have passed the queue: a
\* successful VALVE_PICK holds the vacuum until a restart or a shutdown closes the
\* valve, every other end of VALVE_PICK and VALVE_CHECK has it closed, kicks,
\* overridden requests and a shutdown in the middle of the command included.  The
\* command ends one poll after its timeout, whatever the sensor delivers.
OutcomeSetsValve ==
    /\ ValveTypeOK
    /\ cmd # "none" => event - start <= Timeout + 1
    /\ (rqueue = <<>> /\ (\A i \in 1..Len(look) : look[i] = <<>>) /\ ~overtaken)
        => /\ outcome = "picked" =>
                last_pwm_value = IF restart = "killed" \/ is_shutdown THEN Off ELSE Hold
           /\ outcome \in {"not picked", "clear", "not clear"} => last_pwm_value = Off
=============================================================================
