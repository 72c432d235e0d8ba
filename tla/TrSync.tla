------------------------------- MODULE TrSync -------------------------------
(***************************************************************************)
(* Homing with steppers on several micro-controllers: the trsync object of *)
(* each micro-controller (src/trsync.c), the host code that relays between *)
(* them (klippy/chelper/trdispatch.c), and the homing operation that       *)
(* starts and stops them (MCU_trsync, TriggerDispatch and MCU_endstop of   *)
(* klippy/mcu.py).                                                         *)
(*                                                                         *)
(* Each micro-controller has one trsync with one stepper.  Times are in    *)
(* one common clock, as if the clock estimates were exact.  A link delays  *)
(* messages by any time but keeps their order (module CommandStream); a    *)
(* trsync_state message may be lost, as console_sendf drops it when its    *)
(* buffer is full, and a link may be cut for good.  Interrupts are served  *)
(* without delay; a task takes any time.  The python handler of a message  *)
(* runs in the step of the fast reader; the greenlet it wakes runs later.  *)
(***************************************************************************)
EXTENDS Integers, Sequences, FiniteSets, FiniteSetsExt

CONSTANTS
    Mcus, EndstopMcu,
    Expire,       \* expire_ticks, from TRSYNC_TIMEOUT
    ReportTicks,  \* report_ticks
    Offset,       \* when each micro-controller reports, in its report period
    MinExtend,    \* min_extend_ticks
    Lead,         \* the homing move starts this long after it is sent
    HomeTime,     \* the homing move takes this long
    Never,        \* no time, no value
    MaxTime,      \* bound: the clock stops here
    MaxStarts,    \* bound: homing operations
    MaxFaults,    \* bound: trsync_state messages lost and failures, together
    MaxQueue,     \* bound: messages to the host on a link when a report starts
    MaxFailures   \* bound: links cut and micro-controllers that shut down

ASSUME TrSyncAssumption ==
    /\ IsFiniteSet(Mcus) /\ EndstopMcu \in Mcus
    /\ Offset \in [Mcus -> 0..ReportTicks]
    /\ {Expire, ReportTicks, MinExtend, Lead, HomeTime, MaxTime, MaxStarts,
        MaxFaults, MaxQueue, MaxFailures} \subseteq Nat
    /\ ReportTicks > 0
    /\ Never \notin Nat

NoReason == 0
ENDSTOP_HIT == 1
HOST_REQUEST == 2
PAST_END_TIME == 3
COMMS_TIMEOUT == 4

VARIABLES
    now,
    \* klippy/mcu.py
    host,              \* where the homing operation is
    starts,            \* homing operations so far
    start_clock,       \* clock in MCU_trsync.start
    home_end,          \* _home_end_clock of the endstop's trsync
    completed,         \* the trigger completion is complete
    querying,          \* the micro-controllers whose answer stop() waits for
    last_params,       \* SerialRetryCommand.last_params: its trigger_reason
    result,            \* what stop() returned for each micro-controller
    \* trdispatch.c
    is_active, td_can_trigger, last_status, expire_clock,
    \* the links
    to_mcu, to_host, cut, losses, failures,
    \* trsync.c, endstop.c
    can_trigger, report, trigger_reason, report_at, expire_at,
    signal,            \* stepper_stop is registered: the stepper may move
    homing,            \* the endstop is being sampled
    read_time,         \* timer_read_time() of trsync_task, or Never
    mcu_shutdown,
    \* history
    session,           \* the homing operation of the last trsync_start
    triggered_at,      \* when the trsync triggered in that operation
    stale              \* a message of an earlier homing operation was used

python == <<host, starts, start_clock, home_end, completed, querying, last_params, result>>
trdispatch == <<is_active, td_can_trigger, last_status, expire_clock>>
faults == <<cut, losses, failures>>
trsync == <<can_trigger, report, trigger_reason, report_at, expire_at, signal,
            homing, mcu_shutdown, session, triggered_at>>
vars == <<now, python, trdispatch, to_mcu, to_host, faults, trsync, read_time, stale>>

\* Messages carry the homing operation they belong to, for the history.
Command(op, arg, of) == [op |-> op, arg |-> arg, of |-> of]
\* Nothing reads the clock of a report that a trsync has triggered.
State(m, can, reason, clock) ==
    [op |-> "state", can |-> can, arg |-> reason, clock |-> IF can THEN clock ELSE 0,
     of |-> session[m]]
AckMessage == [op |-> "ack", can |-> FALSE, arg |-> 0, clock |-> 0, of |-> 0]
ShutdownMessage == [AckMessage EXCEPT !.op = "shutdown"]

\* Messages on a link that is cut go nowhere.  In shutdown command_dispatch
\* answers every command with is_shutdown, which changes nothing: the host
\* has the shutdown message before.
SendMcu(m, cmds) == IF m \in cut \cup mcu_shutdown THEN to_mcu[m] ELSE to_mcu[m] \o cmds
SendHost(m, msgs) == IF m \in cut THEN to_host[m] ELSE to_host[m] \o msgs

\* The clocks of trdispatch_mcu are forgotten when no report will use them.
NoStatus == [k \in Mcus |-> 0]

Init ==
    /\ now = 0
    /\ host = "idle" /\ starts = 0 /\ start_clock = 0 /\ home_end = Never
    /\ completed = FALSE /\ querying = {} /\ last_params = Never
    /\ result = [m \in Mcus |-> Never]
    /\ is_active = FALSE /\ td_can_trigger = FALSE
    /\ last_status = [m \in Mcus |-> 0] /\ expire_clock = [m \in Mcus |-> 0]
    /\ to_mcu = [m \in Mcus |-> <<>>] /\ to_host = [m \in Mcus |-> <<>>]
    /\ cut = {} /\ losses = 0 /\ failures = 0
    /\ can_trigger = [m \in Mcus |-> FALSE] /\ report = [m \in Mcus |-> FALSE]
    /\ trigger_reason = [m \in Mcus |-> NoReason]
    /\ report_at = [m \in Mcus |-> Never] /\ expire_at = [m \in Mcus |-> Never]
    /\ signal = [m \in Mcus |-> FALSE] /\ homing = FALSE
    /\ read_time = [m \in Mcus |-> Never] /\ mcu_shutdown = {}
    /\ session = [m \in Mcus |-> 0]
    /\ triggered_at = [m \in Mcus |-> Never]
    /\ stale = FALSE

\* A timer that is due runs before anything else.
TimerDue == \E m \in Mcus : \/ expire_at[m] # Never /\ expire_at[m] <= now
                            \/ report_at[m] # Never /\ report_at[m] <= now

-----------------------------------------------------------------------------
(* klippy/mcu.py *)

\* MCU_trsync.start: the stepper is told to stop on the trsync before the
\* trsync is given its timeout.
StartCommands(m, clock, of) ==
    <<Command("start", clock + Offset[m], of), Command("stop_on", 0, of),
      Command("timeout", clock + Expire, of)>>

\* MCU_endstop.home_start, until the fast readers are registered.
HomeStart ==
    /\ ~TimerDue
    /\ host = "idle" /\ starts < MaxStarts
    /\ host' = "starting" /\ starts' = starts + 1
    /\ start_clock' = now + Lead /\ home_end' = Never
    /\ completed' = FALSE
    /\ result' = [m \in Mcus |-> Never]
    /\ last_status' = [m \in Mcus |-> now + Lead]
    /\ expire_clock' = [m \in Mcus |-> now + Lead + Expire]
    /\ to_mcu' = [m \in Mcus |-> SendMcu(m, StartCommands(m, now + Lead, starts + 1))]
    /\ UNCHANGED <<now, querying, last_params, is_active, td_can_trigger, to_host,
                   faults, trsync, read_time, stale>>

\* trdispatch_start, the endstop_home command, and set_home_end_time.
HomeActivate ==
    /\ ~TimerDue
    /\ host = "starting"
    /\ host' = "homing"
    /\ is_active' = TRUE /\ td_can_trigger' = TRUE
    /\ to_mcu' = [to_mcu EXCEPT ![EndstopMcu] =
                     SendMcu(EndstopMcu, <<Command("home", start_clock, starts)>>)]
    /\ home_end' = start_clock + HomeTime
    /\ UNCHANGED <<now, starts, start_clock, completed, querying, last_params, result,
                   last_status, expire_clock, to_host, faults, trsync, read_time, stale>>

\* The trigger completion is complete: home_wait disables the endstop, stops
\* the relay and unregisters the handlers.
HomeStop ==
    /\ ~TimerDue
    /\ host = "homing" /\ completed
    /\ host' = "stopping"
    /\ is_active' = FALSE /\ last_status' = NoStatus /\ expire_clock' = NoStatus
    /\ home_end' = Never
    /\ to_mcu' = [to_mcu EXCEPT ![EndstopMcu] =
                     SendMcu(EndstopMcu, <<Command("home", Never, starts)>>)]
    /\ UNCHANGED <<now, starts, start_clock, completed, querying, last_params, result,
                   td_can_trigger, to_host, faults, trsync, read_time, stale>>

\* TriggerDispatch.stop stops one trsync after the other, the endstop's first.
MayQuery(m) ==
    /\ querying = {} /\ result[m] = Never
    /\ m = EndstopMcu \/ result[EndstopMcu] # Never

\* MCU_trsync.stop
Query(m) ==
    /\ ~TimerDue
    /\ host = "stopping" /\ MayQuery(m)
    /\ querying' = querying \cup {m} /\ last_params' = Never
    /\ to_mcu' = [to_mcu EXCEPT ![m] = SendMcu(m, <<Command("query", HOST_REQUEST, starts)>>)]
    /\ UNCHANGED <<now, host, starts, start_clock, home_end, completed, result, trdispatch,
                   to_host, faults, trsync, read_time, stale>>

\* The query is acknowledged.  SerialRetryCommand returns the last
\* trsync_state message that came, or asks again if there was none.
HostAck(m) ==
    /\ ~TimerDue
    /\ to_host[m] # <<>> /\ Head(to_host[m]).op = "ack"
    /\ to_host' = [to_host EXCEPT ![m] = Tail(@)]
    /\ IF m \in querying /\ last_params = Never
       THEN /\ to_mcu' = [to_mcu EXCEPT ![m] =
                             SendMcu(m, <<Command("query", HOST_REQUEST, starts)>>)]
            /\ UNCHANGED <<querying, result>>
       ELSE /\ querying' = querying \ {m}
            /\ result' = [result EXCEPT ![m] = IF m \in querying THEN last_params ELSE @]
            /\ UNCHANGED to_mcu
    /\ UNCHANGED <<now, host, starts, start_clock, home_end, completed, last_params,
                   trdispatch, faults, trsync, read_time, stale>>

\* TriggerDispatch.stop returns.
AnsweredEndstop == result[EndstopMcu] # Never
Answered == \A m \in Mcus : result[m] # Never
HomeDone ==
    /\ ~TimerDue
    /\ host = "stopping" /\ querying = {} /\ Answered
    /\ host' = "idle"
    /\ UNCHANGED <<now, starts, start_clock, home_end, completed, querying, last_params,
                   result, trdispatch, to_mcu, to_host, faults, trsync, read_time, stale>>

OutcomeEndstop == result[EndstopMcu]
Outcome == IF \E m \in Mcus : result[m] = COMMS_TIMEOUT THEN COMMS_TIMEOUT
                                                        ELSE result[EndstopMcu]

-----------------------------------------------------------------------------
(* trdispatch.c and the handlers of trsync_state in klippy/mcu.py *)

\* The time up to which every micro-controller but m is known to work.
KnownTimeAny(status, m) == Max({status[k] : k \in Mcus})
KnownTime(status, m) ==
    IF Mcus = {m} THEN status[m] ELSE Min({status[k] : k \in Mcus \ {m}})

\* handle_trsync_state, the fast reader: what it sends to each
\* micro-controller, and the new values of its fields.
Relay(cmds, can, status, expire) ==
    [cmds |-> cmds, can |-> can, status |-> status, expire |-> expire]
FastReader(m, msg) ==
    LET status == [last_status EXCEPT ![m] = msg.clock]
        known == [k \in Mcus |-> KnownTime(status, k) + Expire]
        extend == {k \in Mcus : known[k] - expire_clock[k] >= MinExtend}
    IN  IF ~is_active \/ ~td_can_trigger
        THEN Relay([k \in Mcus |-> <<>>], td_can_trigger, last_status, expire_clock)
        ELSE IF ~msg.can
        THEN Relay([k \in Mcus |-> <<Command("trigger", HOST_REQUEST, starts)>>],
                   FALSE, NoStatus, NoStatus)
        ELSE Relay([k \in Mcus |-> IF k \in extend
                                   THEN <<Command("timeout", known[k], starts)>> ELSE <<>>],
                   TRUE, status,
                   [k \in Mcus |-> IF k \in extend THEN known[k] ELSE expire_clock[k]])

\* MCU_trsync._handle_trsync_state
PastEnd(m, msg) ==
    /\ host \in {"starting", "homing"} /\ m = EndstopMcu
    /\ msg.can /\ home_end # Never /\ msg.clock >= home_end

\* A trsync_state message arrives: the fast reader sees it first, then the
\* handler that is registered.
HostState(m) ==
    /\ ~TimerDue
    /\ to_host[m] # <<>> /\ Head(to_host[m]).op = "state"
    /\ to_host' = [to_host EXCEPT ![m] = Tail(@)]
    /\ LET msg == Head(to_host[m])
           fr == FastReader(m, msg)
           past == IF PastEnd(m, msg) THEN <<Command("trigger", PAST_END_TIME, starts)>> ELSE <<>>
       IN  /\ td_can_trigger' = fr.can
           /\ last_status' = fr.status
           /\ expire_clock' = fr.expire
           /\ to_mcu' = [k \in Mcus |->
                 SendMcu(k, fr.cmds[k] \o IF k = m THEN past ELSE <<>>)]
           /\ home_end' = IF past # <<>> THEN Never ELSE home_end
           /\ completed' = (completed \/ (host \in {"starting", "homing"} /\ ~msg.can))
           /\ last_params' = IF m \in querying THEN msg.arg ELSE last_params
           /\ stale' = (stale \/ msg.of # starts)
    /\ UNCHANGED <<now, host, starts, start_clock, querying, result, is_active, faults,
                   trsync, read_time>>

\* klippy shuts down, on the shutdown message of a micro-controller or when it
\* finds its link dead, and stops every micro-controller.  The homing
\* operation, whose completion is completed, stops the relay and ends.
ShutdownPrinter ==
    /\ host' = "shutdown" /\ completed' = TRUE
    /\ querying' = {} /\ last_params' = Never /\ result' = [m \in Mcus |-> Never]
    /\ home_end' = Never
    /\ is_active' = FALSE /\ last_status' = NoStatus /\ expire_clock' = NoStatus
    /\ to_mcu' = IF host = "shutdown" THEN to_mcu
                 ELSE [k \in Mcus |-> SendMcu(k, <<Command("estop", 0, starts)>>)]
    /\ UNCHANGED <<now, starts, start_clock, td_can_trigger, faults, trsync, read_time, stale>>

HostShutdown(m) ==
    /\ ~TimerDue
    /\ to_host[m] # <<>> /\ Head(to_host[m]).op = "shutdown"
    /\ to_host' = [to_host EXCEPT ![m] = Tail(@)]
    /\ ShutdownPrinter

HostLostMcu ==
    /\ ~TimerDue
    /\ cut # {} /\ host # "shutdown"
    /\ ShutdownPrinter
    /\ UNCHANGED to_host
-----------------------------------------------------------------------------
(* trsync.c, with the endstop and the stepper that use it *)

Running(m) == m \notin mcu_shutdown

\* sendf: the message may be lost
Sendf(m, msg, rest) ==
    \E lost \in BOOLEAN :
        /\ lost => losses + failures < MaxFaults
        /\ losses' = IF lost THEN losses + 1 ELSE losses
        /\ to_host' = [to_host EXCEPT ![m] = SendHost(m, (IF lost THEN <<>> ELSE <<msg>>) \o rest)]
        /\ UNCHANGED <<cut, failures>>

\* trsync_do_trigger: the signals are dispatched, which stops the stepper.
DoTrigger(m, reason) ==
    /\ can_trigger' = [can_trigger EXCEPT ![m] = FALSE]
    /\ trigger_reason' = [trigger_reason EXCEPT ![m] = IF can_trigger[m] THEN reason ELSE @]
    /\ signal' = [signal EXCEPT ![m] = IF can_trigger[m] THEN FALSE ELSE @]
    /\ triggered_at' = [triggered_at EXCEPT ![m] = IF can_trigger[m] THEN now ELSE @]

\* The shutdown handlers trsync_shutdown and stepper_shutdown, and the timers
\* that sched_timer_reset drops.
ShutdownMcu(m) ==
    /\ mcu_shutdown' = mcu_shutdown \cup {m}
    /\ can_trigger' = [can_trigger EXCEPT ![m] = FALSE]
    /\ report' = [report EXCEPT ![m] = FALSE]
    /\ trigger_reason' = [trigger_reason EXCEPT ![m] = NoReason]
    /\ report_at' = [report_at EXCEPT ![m] = Never]
    /\ expire_at' = [expire_at EXCEPT ![m] = Never]
    /\ signal' = [signal EXCEPT ![m] = FALSE]
    /\ homing' = (homing /\ m # EndstopMcu)
    /\ read_time' = [read_time EXCEPT ![m] = Never]
    /\ triggered_at' = [triggered_at EXCEPT ![m] = IF @ = Never THEN now ELSE @]
    /\ to_mcu' = [to_mcu EXCEPT ![m] = <<>>]
    /\ to_host' = [to_host EXCEPT ![m] = SendHost(m, <<ShutdownMessage>>)]
    /\ UNCHANGED <<session, losses, cut>>

\* sched_add_timer shuts down on a time in the past.
TooClose(clock) == clock < now

\* trsync_expire_event
ExpireEvent(m) ==
    /\ expire_at[m] # Never /\ expire_at[m] <= now
    /\ expire_at' = [expire_at EXCEPT ![m] = Never]
    /\ DoTrigger(m, COMMS_TIMEOUT)
    /\ report' = [report EXCEPT ![m] = @ \/ can_trigger[m]]
    /\ UNCHANGED <<now, python, trdispatch, to_mcu, to_host, faults, report_at, homing,
                   mcu_shutdown, session, read_time, stale>>

\* trsync_report_event
ReportEvent(m) ==
    /\ report_at[m] # Never /\ report_at[m] <= now
    /\ report_at' = [report_at EXCEPT ![m] = @ + ReportTicks]
    /\ report' = [report EXCEPT ![m] = TRUE]
    /\ UNCHANGED <<now, python, trdispatch, to_mcu, to_host, faults, can_trigger,
                   trigger_reason, expire_at, signal, homing, mcu_shutdown, session,
                   triggered_at, read_time, stale>>

\* endstop_oversample_event, at its last sample
EndstopHit ==
    /\ ~TimerDue
    /\ homing /\ now >= start_clock
    /\ homing' = FALSE
    /\ DoTrigger(EndstopMcu, ENDSTOP_HIT)
    /\ report' = [report EXCEPT ![EndstopMcu] = @ \/ can_trigger[EndstopMcu]]
    /\ UNCHANGED <<now, python, trdispatch, to_mcu, to_host, faults, report_at, expire_at,
                   mcu_shutdown, session, read_time, stale>>

\* trsync_task reads the time before it reads the flags with interrupts off.
TaskReadTime(m) ==
    /\ ~TimerDue
    /\ Running(m) /\ report[m] /\ read_time[m] = Never
    /\ Len(to_host[m]) < MaxQueue
    /\ read_time' = [read_time EXCEPT ![m] = now]
    /\ UNCHANGED <<now, python, trdispatch, to_mcu, to_host, faults, trsync, stale>>

ReportClock(m) == read_time[m]
TaskReport(m) ==
    /\ ~TimerDue
    /\ read_time[m] # Never
    /\ read_time' = [read_time EXCEPT ![m] = Never]
    /\ report' = [report EXCEPT ![m] = FALSE]
    /\ Sendf(m, State(m, can_trigger[m], trigger_reason[m], ReportClock(m)), <<>>)
    /\ UNCHANGED <<now, python, trdispatch, to_mcu, can_trigger, trigger_reason, report_at,
                   expire_at, signal, homing, mcu_shutdown, session, triggered_at, stale>>

\* The commands run in the main loop, as trsync_task does.
Receives(m, op) ==
    /\ ~TimerDue
    /\ Running(m) /\ read_time[m] = Never
    /\ to_mcu[m] # <<>> /\ Head(to_mcu[m]).op = op
    /\ UNCHANGED <<now, python, trdispatch>>
Taken(m) == to_mcu' = [to_mcu EXCEPT ![m] = Tail(@)]
Arg(m) == Head(to_mcu[m]).arg
Of(m) == Head(to_mcu[m]).of

\* command_trsync_start, with trsync_clear
TrsyncStart(m) ==
    /\ Receives(m, "start")
    /\ IF TooClose(Arg(m))
       THEN ShutdownMcu(m) /\ UNCHANGED <<failures, stale>>
       ELSE /\ Taken(m)
            /\ can_trigger' = [can_trigger EXCEPT ![m] = TRUE]
            /\ report' = [report EXCEPT ![m] = FALSE]
            /\ trigger_reason' = [trigger_reason EXCEPT ![m] = NoReason]
            /\ report_at' = [report_at EXCEPT ![m] = Arg(m)]
            /\ expire_at' = [expire_at EXCEPT ![m] = Never]
            /\ signal' = [signal EXCEPT ![m] = FALSE]
            /\ session' = [session EXCEPT ![m] = Of(m)]
            /\ triggered_at' = [triggered_at EXCEPT ![m] = Never]
            /\ UNCHANGED <<to_host, faults, homing, mcu_shutdown, read_time, stale>>

\* command_stepper_stop_on_trigger, with trsync_add_signal
StopOnTrigger(m) ==
    /\ Receives(m, "stop_on")
    /\ IF signal[m]
       THEN ShutdownMcu(m) /\ UNCHANGED <<failures, stale>>
       ELSE /\ Taken(m)
            /\ signal' = [signal EXCEPT ![m] = TRUE]
            /\ UNCHANGED <<to_host, faults, can_trigger, report, trigger_reason, report_at,
                           expire_at, homing, mcu_shutdown, session, triggered_at,
                           read_time, stale>>

\* command_trsync_set_timeout
SetTimeout(m) ==
    /\ Receives(m, "timeout")
    /\ IF can_trigger[m] /\ TooClose(Arg(m))
       THEN ShutdownMcu(m) /\ UNCHANGED <<failures, stale>>
       ELSE /\ Taken(m)
            /\ expire_at' = [expire_at EXCEPT ![m] = IF can_trigger[m] THEN Arg(m) ELSE @]
            /\ stale' = (stale \/ (can_trigger[m] /\ Of(m) # session[m]))
            /\ UNCHANGED <<to_host, faults, can_trigger, report, trigger_reason, report_at,
                           signal, homing, mcu_shutdown, session, triggered_at, read_time>>

\* command_trsync_trigger, sent by the relay or by MCU_trsync.stop
TrsyncTrigger(m, op, rest) ==
    /\ Receives(m, op) /\ Taken(m)
    /\ DoTrigger(m, Arg(m))
    /\ report_at' = [report_at EXCEPT ![m] = Never]
    /\ expire_at' = [expire_at EXCEPT ![m] = Never]
    /\ report' = [report EXCEPT ![m] = FALSE]
    /\ stale' = (stale \/ (can_trigger[m] /\ Of(m) # session[m]))
    /\ Sendf(m, State(m, FALSE, IF can_trigger[m] THEN Arg(m) ELSE trigger_reason[m], 0), rest)
    /\ UNCHANGED <<homing, mcu_shutdown, session, read_time>>

\* command_endstop_home
EndstopHome ==
    /\ ~TimerDue
    /\ Receives(EndstopMcu, "home")
    /\ LET clock == Arg(EndstopMcu)
       IN  IF clock # Never /\ TooClose(clock)
           THEN ShutdownMcu(EndstopMcu) /\ UNCHANGED <<failures, stale>>
           ELSE /\ Taken(EndstopMcu)
                /\ homing' = (clock # Never)
                /\ UNCHANGED <<to_host, faults, can_trigger, report, trigger_reason,
                               report_at, expire_at, signal, mcu_shutdown, session,
                               triggered_at, read_time, stale>>

\* command_emergency_stop
EmergencyStop(m) ==
    /\ Receives(m, "estop")
    /\ ShutdownMcu(m)
    /\ UNCHANGED <<failures, stale>>

-----------------------------------------------------------------------------
(* The environment *)

MayFail == failures < MaxFailures /\ losses + failures < MaxFaults

\* The micro-controller shuts down for another reason.
OtherShutdown(m) ==
    /\ ~TimerDue
    /\ Running(m) /\ MayFail
    /\ failures' = failures + 1
    /\ ShutdownMcu(m)
    /\ UNCHANGED <<now, python, trdispatch, stale>>

CutLink(m) ==
    /\ ~TimerDue
    /\ m \notin cut /\ MayFail
    /\ failures' = failures + 1
    /\ cut' = cut \cup {m}
    /\ to_mcu' = [to_mcu EXCEPT ![m] = <<>>]
    /\ to_host' = [to_host EXCEPT ![m] = <<>>]
    /\ UNCHANGED <<now, python, trdispatch, losses, trsync, read_time, stale>>

\* Time is counted from the first homing operation.
Tick ==
    /\ ~TimerDue
    /\ starts > 0 /\ now < MaxTime
    /\ now' = now + 1
    /\ UNCHANGED <<python, trdispatch, to_mcu, to_host, faults, trsync, read_time, stale>>

Next ==
    \/ HomeStart \/ HomeActivate \/ HomeStop \/ HomeDone
    \/ HostLostMcu
    \/ EndstopHit \/ EndstopHome
    \/ Tick
    \/ \E m \in Mcus :
          \/ Query(m) \/ HostAck(m) \/ HostState(m) \/ HostShutdown(m)
          \/ ExpireEvent(m) \/ ReportEvent(m) \/ TaskReadTime(m) \/ TaskReport(m)
          \/ TrsyncStart(m) \/ StopOnTrigger(m) \/ SetTimeout(m)
          \/ TrsyncTrigger(m, "trigger", <<>>)
          \/ TrsyncTrigger(m, "query", <<AckMessage>>)
          \/ EmergencyStop(m)
          \/ OtherShutdown(m) \/ CutLink(m)

Spec == Init /\ [][Next]_vars

-----------------------------------------------------------------------------
(* Properties *)

Times == Nat \cup {Never}
CommandType == [op : {"start", "stop_on", "timeout", "trigger", "query", "home", "estop"},
                arg : Times, of : 0..MaxStarts]
MessageType == [op : {"state", "ack", "shutdown"}, can : BOOLEAN, arg : NoReason..COMMS_TIMEOUT,
                clock : Nat, of : 0..MaxStarts]

\* Every variable has its type: the messages on the links are the ones that
\* mcu.py, trdispatch.c and trsync.c exchange.
TypeOK ==
    /\ host \in {"idle", "starting", "homing", "stopping", "shutdown"}
    /\ \A m \in Mcus : /\ \A i \in DOMAIN to_mcu[m] : to_mcu[m][i] \in CommandType
                       /\ \A i \in DOMAIN to_host[m] : to_host[m][i] \in MessageType
                       /\ {report_at[m], expire_at[m], read_time[m]} \subseteq Times
                       /\ {last_status[m], expire_clock[m]} \subseteq Nat
                       /\ result[m] \in NoReason..COMMS_TIMEOUT \cup {Never}
    /\ querying \subseteq Mcus /\ \A a, b \in querying : a = b
    /\ mcu_shutdown \cup cut \subseteq Mcus

Later(a, b) == IF a < b THEN b ELSE a

\* Once one micro-controller has triggered or shut down, a stepper of another
\* one whose timeout is armed stops at most Expire later, whatever the links
\* delay or lose ("designed to limit this delay to no more than 25ms").  And a
\* trsync that can no longer trigger has no stepper left registered: the stepper
\* would move on and nothing would stop it.
StopBound ==
    /\ TypeOK
    /\ \A m \in Mcus : ~can_trigger[m] => ~signal[m]
    /\ \A a, b \in Mcus :
        /\ a # b
        /\ session[a] = starts /\ session[b] = starts
        /\ triggered_at[a] # Never
        /\ signal[b] /\ expire_at[b] # Never
        => now <= Later(triggered_at[a], start_clock) + Expire

\* No message of one homing operation is used in the next one, neither by a
\* trsync nor by the host, although relayed commands and reports are still on
\* their way when the operation ends.
NoStaleMessage == ~stale

\* A homing operation that reports the endstop hit was not cut short: no
\* trsync stopped its stepper because of a communication timeout.
NoSilentTimeout ==
    host = "idle" /\ starts > 0 /\ Outcome = ENDSTOP_HIT
    => \A m \in Mcus : trigger_reason[m] # COMMS_TIMEOUT
=============================================================================
