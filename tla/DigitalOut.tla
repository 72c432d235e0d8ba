----------------------------- MODULE DigitalOut -----------------------------
(***************************************************************************)
(* A digital output pin of a micro-controller (src/gpiocmds.c): queued     *)
(* updates, software pwm, and the max_duration watchdog that shuts the     *)
(* machine down when an output is left away from its default.  A timer     *)
(* event runs when its time has come, before the clock goes on.            *)
(***************************************************************************)
EXTENDS Integers, Sequences

CONSTANTS
    MaxDuration,   \* max_duration; 0: no watchdog
    DefaultOn,     \* default_value of config_digital_out
    Cycles,        \* the pwm cycles the host may set
    MaxOn,         \* bound: on_ticks
    MaxUpdates,    \* bound: queued updates
    Horizon,       \* bound: how far ahead an update is scheduled
    MaxTime        \* bound: the clock

ASSUME DigitalOutAssumption ==
    /\ MaxDuration \in Nat /\ DefaultOn \in BOOLEAN /\ Cycles \subseteq Nat
    /\ MaxOn \in Nat /\ MaxUpdates \in Nat \ {0} /\ Horizon \in Nat /\ MaxTime \in Nat

VARIABLES
    now,
    pin,
    on, toggling, check_end,        \* DF_ON, DF_TOGGLING, DF_CHECK_END
    end_time, on_duration, off_duration, cycle_time,
    updates,                        \* the updates queued: [waketime, on_duration]
    timer_on, func, waketime,       \* the timer
    halted,                         \* sched_is_shutdown
    away_since                      \* history: when an output away from its default was set

flags == <<on, toggling, check_end>>
timer == <<timer_on, func, waketime>>
pinvars == <<now, pin, flags, end_time, on_duration, off_duration, cycle_time, updates, timer,
          halted, away_since>>

Home == -1   \* away_since: the output is at its default

PinInit ==
    /\ now = 0
    /\ pin \in BOOLEAN /\ (MaxDuration > 0 => pin = DefaultOn)
    /\ on = pin /\ toggling = FALSE /\ check_end = FALSE
    /\ end_time = 0 /\ on_duration = 0 /\ off_duration = 0 /\ cycle_time = 0
    /\ updates = <<>>
    /\ timer_on = FALSE /\ func = "load" /\ waketime = 0
    /\ halted = FALSE
    /\ away_since = Home

-----------------------------------------------------------------------------
(* Shutdown and the clock *)

\* run_shutdown: sched_timer_reset, digital_out_shutdown and move_reset.
DigitalOutShutdown ==
    /\ halted' = TRUE
    /\ pin' = DefaultOn /\ on' = DefaultOn /\ toggling' = FALSE /\ check_end' = FALSE
    /\ updates' = <<>> /\ timer_on' = FALSE
    /\ away_since' = Home
    /\ UNCHANGED <<now, end_time, on_duration, off_duration, cycle_time, func, waketime>>

Due == timer_on /\ waketime <= now

Tick ==
    /\ now < MaxTime /\ ~Due
    /\ now' = now + 1
    /\ UNCHANGED <<pin, flags, end_time, on_duration, off_duration, cycle_time, updates, timer,
                   halted, away_since>>

\* Another part of the firmware shuts the machine down.
OtherShutdown == ~halted /\ DigitalOutShutdown

PinClearShutdown ==
    /\ halted
    /\ halted' = FALSE
    /\ UNCHANGED <<now, pin, flags, end_time, on_duration, off_duration, cycle_time, updates,
                   timer, away_since>>

-----------------------------------------------------------------------------
(* Timer events *)

\* digital_toggle_event
AtEndNever(time) == FALSE
AtEnd(time) == check_end /\ time >= end_time
ToggleEvent ==
    /\ Due /\ func = "toggle"
    /\ pin' = ~pin /\ on' = ~on
    /\ LET next == waketime + (IF on' THEN on_duration ELSE off_duration)
       IN  IF AtEnd(next)
           THEN func' = "load" /\ waketime' = end_time
           ELSE waketime' = next /\ UNCHANGED func
    /\ UNCHANGED <<now, toggling, check_end, end_time, on_duration, off_duration,
                   cycle_time, updates, timer_on, halted, away_since>>

\* An update asks for pulses unless it is all on or all off.
Toggles(duration) == 0 < duration /\ duration < cycle_time

\* The watchdog runs for a pulsing output and for one away from its default.
WatchedIfSteady(duration) ==
    MaxDuration > 0 /\ ~Toggles(duration) /\ (duration > 0) # DefaultOn
Watched(duration) == MaxDuration > 0 /\ (Toggles(duration) \/ (duration > 0) # DefaultOn)

\* digital_load_event; an empty queue and a next update past the watchdog's
\* time shut the machine down.
LoadEvent ==
    /\ Due /\ func = "load" /\ updates # <<>>
    /\ LET m == Head(updates)
           rest == Tail(updates)
           toggles == Toggles(m.on_duration)
           limit == waketime + MaxDuration
           next == waketime + m.on_duration
           stop == IF rest # <<>> THEN Head(rest).waketime
                   ELSE IF Watched(m.on_duration) THEN limit ELSE 0
           checked == rest # <<>> \/ Watched(m.on_duration)
       IN  /\ ~(rest # <<>> /\ Watched(m.on_duration) /\ limit < stop)
           /\ updates' = rest
           /\ pin' = (m.on_duration > 0) /\ on' = pin'
           /\ toggling' = toggles /\ check_end' = checked /\ end_time' = stop
           /\ away_since' = IF toggles \/ pin' # DefaultOn THEN now ELSE Home
           /\ \/ /\ ~toggles /\ ~checked
                 /\ timer_on' = FALSE
                 /\ UNCHANGED <<func, waketime, on_duration, off_duration>>
              \/ /\ checked /\ (toggles => next >= stop)
                 /\ waketime' = stop
                 /\ UNCHANGED <<timer_on, func, on_duration, off_duration>>
              \/ /\ toggles /\ (checked => next < stop)
                 /\ func' = "toggle" /\ waketime' = next
                 /\ on_duration' = m.on_duration
                 /\ off_duration' = cycle_time - m.on_duration
                 /\ UNCHANGED timer_on
    /\ UNCHANGED <<now, cycle_time, halted>>

LoadEventMissed ==
    /\ Due /\ func = "load" /\ updates = <<>>
    /\ DigitalOutShutdown

LoadEventTooFar ==
    /\ Due /\ func = "load" /\ Len(updates) > 1
    /\ Watched(Head(updates).on_duration) /\ waketime + MaxDuration < updates[2].waketime
    /\ DigitalOutShutdown

-----------------------------------------------------------------------------
(* Commands, not run while the machine is shut down *)

SetPwmCycle(c) ==
    /\ ~halted
    /\ IF updates # <<>>
       THEN DigitalOutShutdown
       ELSE /\ cycle_time' = c
            /\ UNCHANGED <<now, pin, flags, end_time, on_duration, off_duration, updates,
                           timer, halted, away_since>>

\* command_queue_digital_out; the host schedules in the order of time.  An update
\* that comes too late is not modelled: sched_add_timer answers the first of a
\* queue with a shutdown ("Timer too close", module Sched).
Exceeds(time) == check_end /\ end_time < time
QueueDigitalOut(time, duration) ==
    /\ ~halted /\ Len(updates) < MaxUpdates
    /\ \A i \in DOMAIN updates : updates[i].waketime <= time
    /\ IF updates # <<>>
       THEN /\ updates' = Append(updates, [waketime |-> time, on_duration |-> duration])
            /\ UNCHANGED <<now, pin, flags, end_time, on_duration, off_duration,
                           cycle_time, timer, halted, away_since>>
       ELSE IF Exceeds(time)
       THEN DigitalOutShutdown
       ELSE /\ updates' = <<[waketime |-> time, on_duration |-> duration]>>
            /\ end_time' = time /\ check_end' = TRUE
            /\ IF toggling /\ waketime < time
               THEN UNCHANGED timer
               ELSE timer_on' = TRUE /\ waketime' = time /\ func' = "load"
            /\ UNCHANGED <<now, pin, on, toggling, on_duration, off_duration, cycle_time,
                           halted, away_since>>

UpdateDigitalOut(value) ==
    /\ ~halted
    /\ IF updates # <<>>
       THEN DigitalOutShutdown
       ELSE LET watch == value # DefaultOn /\ MaxDuration > 0
            IN  /\ pin' = value /\ on' = value /\ toggling' = FALSE /\ check_end' = watch
                /\ timer_on' = watch
                /\ IF watch
                   THEN /\ waketime' = now + MaxDuration /\ end_time' = now + MaxDuration
                        /\ func' = "load"
                   ELSE UNCHANGED <<waketime, end_time, func>>
                /\ away_since' = IF value # DefaultOn THEN now ELSE Home
                /\ UNCHANGED <<now, on_duration, off_duration, cycle_time, updates, halted>>

PinNext ==
    \/ Tick
    \/ OtherShutdown
    \/ PinClearShutdown
    \/ ToggleEvent
    \/ LoadEvent
    \/ LoadEventMissed
    \/ LoadEventTooFar
    \/ \E c \in Cycles : SetPwmCycle(c)
    \/ \E time \in now + 1..now + Horizon, duration \in 0..MaxOn : QueueDigitalOut(time, duration)
    \/ \E value \in BOOLEAN : UpdateDigitalOut(value)

PinSpec == PinInit /\ [][PinNext]_pinvars

-----------------------------------------------------------------------------
(* Properties *)

\* Every variable has its type, and DF_ON is the level of the pin: the toggle
\* event, which flips both, relies on it.
PinTypeOK ==
    /\ now \in 0..MaxTime /\ pin \in BOOLEAN /\ on = pin
    /\ toggling \in BOOLEAN /\ check_end \in BOOLEAN /\ timer_on \in BOOLEAN
    /\ func \in {"load", "toggle"}
    /\ Len(updates) <= MaxUpdates

\* The watchdog: an output set away from its default, steady or pulsing, is
\* renewed within max_duration or the machine has shut down.
WatchdogHolds ==
    away_since # Home /\ MaxDuration > 0 => now <= away_since + MaxDuration

\* No queued update is overlooked: it takes effect at its time, whatever the
\* pin was doing (steady, pulsing, waiting for the watchdog), and a pin is pulsed
\* only with a pulse longer than nothing on both sides.
UpdatesOnTime ==
    /\ PinTypeOK
    /\ \A i \in DOMAIN updates : now <= updates[i].waketime
    /\ timer_on /\ func = "toggle" => toggling /\ on_duration > 0 /\ off_duration > 0
=============================================================================
