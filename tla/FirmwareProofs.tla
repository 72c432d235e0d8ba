--------------------------- MODULE FirmwareProofs ---------------------------
(***************************************************************************)
(* Proofs about three parts of the firmware that an interrupt breaks into: *)
(* the watchdog and the update queue of DigitalOut, the receive buffer of  *)
(* ConsoleRx, and the report queue of Buttons with the host that takes     *)
(* every report once and in order.  They hold for every size of the queues,*)
(* the buffer and the counters, every duration and every traffic, and every*)
(* number of lost messages.                                                *)
(***************************************************************************)
EXTENDS DigitalOut, ConsoleRx, Buttons, WellFoundedInduction, TLAPS

-----------------------------------------------------------------------------
(* Sequences *)

\* Appending an element
LEMMA SeqAppend ==
    ASSUME NEW S, NEW s \in Seq(S), NEW e \in S
    PROVE  /\ Append(s, e) \in Seq(S) /\ Append(s, e) # <<>> /\ Len(Append(s, e)) = Len(s) + 1
           /\ \A i \in 1..Len(s) : Append(s, e)[i] = s[i]
           /\ Append(s, e)[Len(s) + 1] = e
OBVIOUS

\* Concatenation
LEMMA SeqConcat ==
    ASSUME NEW S, NEW s \in Seq(S), NEW t \in Seq(S)
    PROVE  /\ s \o t \in Seq(S) /\ Len(s \o t) = Len(s) + Len(t)
           /\ \A i \in 1..Len(s) + Len(t) :
                 (s \o t)[i] = IF i <= Len(s) THEN s[i] ELSE t[i - Len(s)]
OBVIOUS

\* A part of a sequence or of a buffer
LEMMA SeqPart ==
    ASSUME NEW S, NEW s, NEW m \in Int, NEW n \in Int, \A i \in m..n : s[i] \in S
    PROVE  /\ SubSeq(s, m, n) \in Seq(S)
           /\ Len(SubSeq(s, m, n)) = IF m <= n THEN n - m + 1 ELSE 0
           /\ \A i \in 1..n - m + 1 : SubSeq(s, m, n)[i] = s[m + i - 1]
OBVIOUS

\* The first element and the others
LEMMA SeqTail ==
    ASSUME NEW S, NEW s \in Seq(S), s # <<>>
    PROVE  /\ Head(s) \in S /\ Tail(s) \in Seq(S) /\ Len(Tail(s)) = Len(s) - 1
           /\ \A i \in 1..Len(Tail(s)) : Tail(s)[i] = s[i + 1]
OBVIOUS

\* Two sequences with the same elements
LEMMA SeqSame ==
    ASSUME NEW S, NEW s \in Seq(S), NEW t \in Seq(S), Len(s) = Len(t),
           \A i \in 1..Len(s) : s[i] = t[i]
    PROVE  s = t
OBVIOUS

\* The length of a sequence and its domain
LEMMA SeqLength ==
    ASSUME NEW S, NEW s \in Seq(S)
    PROVE  Len(s) \in Nat /\ s \in [1..Len(s) -> S] /\ DOMAIN s = 1..Len(s)
OBVIOUS

-----------------------------------------------------------------------------
(* DigitalOut *)

Update == [waketime : Nat, on_duration : Nat]

PinFlags ==
    /\ pin \in BOOLEAN /\ on = pin
    /\ toggling \in BOOLEAN /\ check_end \in BOOLEAN /\ timer_on \in BOOLEAN
    /\ func \in {"load", "toggle"}

PinTypes ==
    /\ now \in Nat /\ now <= MaxTime
    /\ end_time \in Nat /\ on_duration \in Nat /\ off_duration \in Nat
    /\ cycle_time \in Nat /\ waketime \in Nat
    /\ updates \in Seq(Update) /\ Len(updates) <= MaxUpdates
    /\ away_since \in Nat \cup {Home}

\* The timer of an output is never in the past, and never later than end_time
\* where digital_load_event or digital_toggle_event has to look at it.
TimerAhead ==
    /\ timer_on => now <= waketime
    /\ timer_on /\ check_end => waketime <= end_time
    /\ toggling => timer_on
    /\ timer_on /\ func = "toggle" => toggling /\ on_duration > 0 /\ off_duration > 0

\* What is queued is sorted, and end_time is the time of its first.
QueueWatched ==
    /\ updates # <<>> => timer_on /\ check_end /\ end_time = updates[1].waketime
    /\ \A i, j \in 1..Len(updates) : i < j => updates[i].waketime <= updates[j].waketime

\* Away from the default, the timer runs and ends within max_duration.
AwayWatched ==
    away_since # Home /\ MaxDuration > 0 =>
        timer_on /\ check_end /\ end_time <= away_since + MaxDuration

PinInv == PinFlags /\ PinTypes /\ TimerAhead /\ QueueWatched /\ AwayWatched

-----------------------------------------------------------------------------
(* The invariant *)

LEMMA PinInitInv == PinInit => PinInv
<1> SUFFICES ASSUME PinInit PROVE PinInv  BY Zenon
<1>1. PinFlags /\ TimerAhead /\ AwayWatched
  BY ZenonT(30) DEF PinInit, PinFlags, TimerAhead, AwayWatched
<1>2. PinTypes /\ QueueWatched
  BY DigitalOutAssumption, SMTT(30) DEF PinInit, PinTypes, QueueWatched
<1>3. QED  BY <1>1, <1>2, Zenon DEF PinInv

LEMMA UnchangedKeeps ==
    ASSUME PinInv,
           UNCHANGED <<now, pin, flags, end_time, on_duration, off_duration, cycle_time,
                       updates, timer, away_since>>
    PROVE  PinInv'
<1>1. PinFlags'  BY ZenonT(30) DEF PinInv, PinFlags, flags, timer
<1>2. PinTypes' /\ TimerAhead' /\ QueueWatched' /\ AwayWatched'
  BY Zenon DEF PinInv, PinTypes, TimerAhead, QueueWatched, AwayWatched, flags, timer
<1>3. QED  BY <1>1, <1>2, Zenon DEF PinInv

LEMMA ShutdownKeeps ==
    ASSUME PinInv, DigitalOutShutdown
    PROVE  PinInv'
<1>1. PinFlags' /\ TimerAhead' /\ AwayWatched'
  BY DigitalOutAssumption, ZenonT(30)
     DEF DigitalOutShutdown, PinInv, PinFlags, TimerAhead, AwayWatched
<1>2. PinTypes' /\ QueueWatched'
  BY DigitalOutAssumption, SMTT(30)
     DEF DigitalOutShutdown, PinInv, PinTypes, QueueWatched
<1>3. QED  BY <1>1, <1>2, Zenon DEF PinInv

LEMMA TickKeeps ==
    ASSUME PinInv, Tick
    PROVE  PinInv'
<1>1. PinFlags'  BY ZenonT(30) DEF Tick, PinInv, PinFlags, flags, timer
<1>2. PinTypes' /\ TimerAhead' /\ QueueWatched' /\ AwayWatched'
  BY DigitalOutAssumption, SMTT(30)
     DEF Tick, Due, PinInv, PinTypes, TimerAhead, QueueWatched, AwayWatched, flags, timer
<1>3. QED  BY <1>1, <1>2, Zenon DEF PinInv

\* Half a cycle ends, or the pulses end with end_time.
LEMMA ToggleKeeps ==
    ASSUME PinInv, ToggleEvent
    PROVE  PinInv'
<1>1. now = waketime  BY SMTT(30) DEF ToggleEvent, Due, PinInv, PinTypes, TimerAhead
<1>2. PinTypes' /\ PinFlags'
  <2>1. PinFlags'  BY ZenonT(30) DEF ToggleEvent, PinInv, PinFlags
  <2>2. PinTypes'  BY <1>1, SMTT(30) DEF ToggleEvent, PinInv, PinTypes
  <2>3. QED  BY <2>1, <2>2, Zenon
<1>3. TimerAhead'
  BY <1>1, SMTT(30) DEF ToggleEvent, Due, AtEnd, PinInv, PinTypes, TimerAhead
<1>4. QueueWatched' /\ AwayWatched'
  BY Zenon DEF ToggleEvent, PinInv, PinTypes, QueueWatched, AwayWatched
<1>5. QED  BY <1>2, <1>3, <1>4, Zenon DEF PinInv

\* An update takes effect: the next one, or the watchdog, is then ahead.
LEMMA LoadKeeps ==
    ASSUME PinInv, LoadEvent
    PROVE  PinInv'
<1> DEFINE m == Head(updates)
           rest == Tail(updates)
           limit == waketime + MaxDuration
           stop == IF rest # <<>> THEN Head(rest).waketime
                   ELSE IF Watched(m.on_duration) THEN limit ELSE 0
           checked == rest # <<>> \/ Watched(m.on_duration)
<1>1. now = waketime /\ timer_on /\ updates # <<>>
  BY SMTT(30) DEF LoadEvent, Due, PinInv, PinTypes, TimerAhead
<1>2. /\ m \in Update /\ rest \in Seq(Update) /\ Len(rest) = Len(updates) - 1
      /\ \A i \in 1..Len(rest) : rest[i] = updates[i + 1]
      /\ rest # <<>> => Head(rest) = rest[1] /\ 1 \in 1..Len(rest)
  BY <1>1, SMTT(30) DEF PinInv, PinTypes
<1>3. rest # <<>> => now <= Head(rest).waketime /\ Head(rest) \in Update
  <2> SUFFICES ASSUME rest # <<>>
               PROVE  now <= Head(rest).waketime /\ Head(rest) \in Update
    BY Zenon
  <2>1. rest[1] = updates[2] /\ 1 \in 1..Len(updates) /\ 2 \in 1..Len(updates)
    BY <1>2, SMTT(30) DEF PinInv, PinTypes
  <2>2. updates[1].waketime <= updates[2].waketime
    BY <2>1, SMTT(30) DEF PinInv, QueueWatched
  <2>3. now <= end_time /\ end_time = updates[1].waketime
    BY <1>1, Zenon DEF PinInv, PinTypes, TimerAhead, QueueWatched
  <2>4. updates[1] \in Update /\ updates[2] \in Update
    BY <2>1, SMTT(30) DEF PinInv, PinTypes
  <2>5. now \in Nat /\ end_time \in Nat  BY Zenon DEF PinInv, PinTypes
  <2>6. \A u \in Update : u.waketime \in Nat  BY DEF Update
  <2>7. now <= updates[2].waketime  BY <2>2, <2>3, <2>4, <2>5, <2>6
  <2>8. QED  BY <1>2, <2>1, <2>4, <2>7, Zenon
<1>4. /\ stop \in Nat /\ (checked => now <= stop)
      /\ Watched(m.on_duration) /\ ~(rest # <<>> /\ Watched(m.on_duration) /\ limit < stop)
           => stop <= now + MaxDuration
  <2>1. now \in Nat /\ limit \in Nat /\ now <= limit /\ limit = now + MaxDuration
    <3>1. waketime \in Nat  BY Zenon DEF PinInv, PinTypes
    <3>2. QED  BY <1>1, <3>1, DigitalOutAssumption
  <2>2. rest # <<>> => Head(rest).waketime \in Nat /\ now <= Head(rest).waketime
    <3>1. \A u \in Update : u.waketime \in Nat  BY DEF Update
    <3>2. QED  BY <1>3, <3>1, Zenon
  <2>3. CASE rest # <<>>
    <3>1. stop = Head(rest).waketime  BY <2>3, Zenon
    <3>2. QED  BY <2>1, <2>2, <2>3, <3>1
  <2>4. CASE rest = <<>> /\ Watched(m.on_duration)
    <3>1. stop = limit  BY <2>4, Zenon
    <3>2. QED  BY <2>1, <2>4, <3>1
  <2>5. CASE rest = <<>> /\ ~Watched(m.on_duration)
    <3>1. stop = 0 /\ ~checked  BY <2>5, Zenon
    <3>2. QED  BY <2>5, <3>1
  <2>6. QED  BY <2>3, <2>4, <2>5, Zenon
<1> DEFINE toggles == Toggles(m.on_duration)
           next == waketime + m.on_duration
<1>5. /\ ~(rest # <<>> /\ Watched(m.on_duration) /\ limit < stop)
      /\ updates' = rest
      /\ pin' = (m.on_duration > 0) /\ on' = pin'
      /\ toggling' = toggles /\ check_end' = checked /\ end_time' = stop
      /\ away_since' = IF toggles \/ pin' # DefaultOn THEN now ELSE Home
      /\ \/ /\ ~toggles /\ ~checked
            /\ timer_on' = FALSE
            /\ UNCHANGED <<func, waketime, on_duration, off_duration>>
         \/ /\ checked /\ (toggles => next >= stop)
            /\ waketime' = stop
            /\ UNCHANGED <<timer_on, func, on_duration, off_duration>>
         \/ /\ toggles /\ (checked => next < stop)
            /\ func' = "toggle" /\ waketime' = next
            /\ on_duration' = m.on_duration
            /\ off_duration' = cycle_time - m.on_duration
            /\ UNCHANGED timer_on
      /\ UNCHANGED <<now, cycle_time, halted>> /\ func = "load"
  BY ZenonT(60) DEF LoadEvent
<1>6. m.on_duration \in Nat  BY <1>2, Zenon DEF Update
<1>7. toggles \in BOOLEAN /\ checked \in BOOLEAN  BY Zenon DEF Toggles, Watched
<1>8. Watched(m.on_duration)
        <=> MaxDuration > 0 /\ (toggles \/ (m.on_duration > 0) # DefaultOn)
  BY Zenon DEF Watched
<1>9. toggles => 0 < m.on_duration /\ m.on_duration < cycle_time  BY Zenon DEF Toggles
<1> HIDE DEF m, rest, limit, stop, checked, toggles, next
<1>10. PinTypes' /\ PinFlags'
  <2>1. PinFlags'
    <3>1. pin' \in BOOLEAN /\ on' = pin' /\ toggling' \in BOOLEAN /\ check_end' \in BOOLEAN
      BY <1>5, <1>7
    <3>2. timer_on' \in BOOLEAN /\ func' \in {"load", "toggle"}
      BY <1>5, ZenonT(30) DEF PinInv, PinFlags
    <3>3. QED  BY <3>1, <3>2, Zenon DEF PinFlags
  <2>2. away_since' \in Nat \cup {Home}  BY <1>5, Zenon DEF PinInv, PinTypes
  <2>3. /\ waketime' \in Nat /\ on_duration' \in Nat /\ off_duration' \in Nat
        /\ end_time' \in Nat
    BY <1>4, <1>5, <1>6, <1>9, SMTT(30) DEF PinInv, PinTypes, next
  <2>4. updates' \in Seq(Update) /\ Len(updates') <= MaxUpdates
    BY <1>2, <1>5, DigitalOutAssumption, SMTT(30) DEF PinInv, PinTypes
  <2>5. now' = now /\ cycle_time' = cycle_time  BY <1>5, Zenon
  <2>6. QED  BY <2>1, <2>2, <2>3, <2>4, <2>5, ZenonT(30) DEF PinInv, PinTypes
<1>11. TimerAhead'
  <2>1. /\ timer_on' => (checked /\ waketime' = stop) \/ (toggles /\ waketime' = next)
        /\ timer_on' /\ check_end' =>
              checked /\ (waketime' = stop \/ (next < stop /\ waketime' = next))
        /\ toggling' => timer_on'
        /\ timer_on' /\ func' = "toggle" =>
              toggling' /\ on_duration' = m.on_duration
              /\ off_duration' = cycle_time - m.on_duration
    <3>1. CASE ~toggles /\ ~checked /\ timer_on' = FALSE
      BY <1>5, <3>1, ZenonT(30)
    <3>2. CASE /\ checked /\ waketime' = stop /\ UNCHANGED <<timer_on, func>>
      <4>1. func' # "toggle"  BY <1>5, <3>2, Zenon
      <4>2. QED  BY <1>1, <3>2, <4>1, ZenonT(30)
    <3>3. CASE /\ toggles /\ (checked => next < stop) /\ waketime' = next
               /\ on_duration' = m.on_duration /\ off_duration' = cycle_time - m.on_duration
               /\ UNCHANGED timer_on
      BY <1>1, <1>5, <3>3, ZenonT(30)
    <3>4. QED  BY <1>5, <3>1, <3>2, <3>3, ZenonT(30)
  <2>2. now <= next /\ next \in Nat /\ (toggles => now < next)
    BY <1>1, <1>6, <1>9, SMTT(30) DEF PinInv, PinTypes, next
  <2>3. /\ timer_on' => now' <= waketime'
        /\ timer_on' /\ check_end' => waketime' <= end_time'
    BY <1>4, <1>5, <2>1, <2>2, SMTT(30) DEF PinInv, PinTypes
  <2>4. timer_on' /\ func' = "toggle" => toggling' /\ on_duration' > 0 /\ off_duration' > 0
    BY <1>5, <1>6, <1>9, <2>1, SMTT(30) DEF PinInv, PinTypes
  <2>5. QED  BY <2>1, <2>3, <2>4, Zenon DEF TimerAhead
<1>12. QueueWatched'
  <2>1. updates' # <<>> => timer_on' /\ check_end' /\ end_time' = updates'[1].waketime
    <3>1. SUFFICES ASSUME rest # <<>>
                   PROVE  timer_on' /\ check_end' /\ end_time' = rest[1].waketime
      BY <1>5, Zenon
    <3>2. checked /\ stop = rest[1].waketime  BY <1>2, <3>1, Zenon DEF stop, checked
    <3>3. QED  BY <1>1, <1>5, <3>2, ZenonT(30)
  <2>2. \A i, j \in 1..Len(rest) : i < j => rest[i].waketime <= rest[j].waketime
    <3> TAKE i, j \in 1..Len(rest)
    <3> HAVE i < j
    <3>1. i + 1 \in 1..Len(updates) /\ j + 1 \in 1..Len(updates) /\ i + 1 < j + 1
      BY <1>2, SMTT(30) DEF PinInv, PinTypes
    <3>2. updates[i + 1].waketime <= updates[j + 1].waketime
      BY <3>1, Zenon DEF PinInv, QueueWatched
    <3>3. QED  BY <3>2, <1>2, Zenon
  <2>3. QED  BY <2>1, <2>2, <1>5, Zenon DEF QueueWatched
<1>13. AwayWatched'
  <2>1. away_since' # Home /\ MaxDuration > 0 => Watched(m.on_duration) /\ away_since' = now
    BY <1>5, <1>8, Zenon
  <2>2. Watched(m.on_duration) => checked  BY Zenon DEF checked
  <2>3. checked => timer_on' /\ check_end'  BY <1>1, <1>5, ZenonT(30)
  <2>4. Watched(m.on_duration) => end_time' <= now + MaxDuration  BY <1>4, <1>5, ZenonT(30)
  <2>5. QED  BY <2>1, <2>2, <2>3, <2>4, ZenonT(30) DEF AwayWatched
<1>14. QED  BY <1>10, <1>11, <1>12, <1>13, Zenon DEF PinInv

LEMMA SetPwmCycleKeeps ==
    ASSUME PinInv, NEW c \in Cycles, SetPwmCycle(c)
    PROVE  PinInv'
<1>1. CASE updates # <<>>  BY <1>1, ShutdownKeeps, Zenon DEF SetPwmCycle
<1>2. CASE updates = <<>>
  <2>1. /\ cycle_time' = c
        /\ UNCHANGED <<now, pin, flags, end_time, on_duration, off_duration, updates,
                       timer, halted, away_since>>
    BY <1>2, ZenonT(30) DEF SetPwmCycle
  <2>2. PinFlags'  BY <2>1, ZenonT(30) DEF PinInv, PinFlags, flags, timer
  <2>3. PinTypes' /\ TimerAhead' /\ QueueWatched' /\ AwayWatched'
    BY <2>1, DigitalOutAssumption, Zenon
       DEF PinInv, PinTypes, TimerAhead, QueueWatched, AwayWatched, flags, timer
  <2>4. QED  BY <2>2, <2>3, Zenon DEF PinInv
<1>3. QED  BY <1>1, <1>2, Zenon

\* A new update is the last of the queue, and a first one moves end_time closer
\* or shuts the machine down.
LEMMA QueueKeeps ==
    ASSUME PinInv, NEW time \in now + 1..now + Horizon, NEW duration \in 0..MaxOn,
           QueueDigitalOut(time, duration)
    PROVE  PinInv'
<1> DEFINE u == [waketime |-> time, on_duration |-> duration]
<1>1. u \in Update /\ time \in Nat /\ now < time
  BY DigitalOutAssumption, SMTT(30) DEF PinInv, PinTypes, Update
<1>2. CASE updates # <<>>
  <2>1. /\ updates' = Append(updates, u) /\ Len(updates) < MaxUpdates
        /\ \A i \in DOMAIN updates : updates[i].waketime <= time
        /\ UNCHANGED <<now, pin, on, toggling, check_end, end_time, on_duration,
                       off_duration, cycle_time, timer_on, func, waketime, away_since>>
    BY <1>2, Zenon DEF QueueDigitalOut, flags, timer
  <2>2. /\ updates' \in Seq(Update) /\ Len(updates') = Len(updates) + 1
        /\ \A i \in 1..Len(updates) : updates'[i] = updates[i]
        /\ updates'[Len(updates) + 1] = u
        /\ DOMAIN updates = 1..Len(updates) /\ 1 \in 1..Len(updates)
    BY <1>1, <1>2, <2>1, SMTT(30) DEF PinInv, PinTypes
  <2> HIDE DEF u
  <2>3. PinTypes' /\ TimerAhead' /\ AwayWatched'
    BY <2>1, <2>2, DigitalOutAssumption, SMTT(30)
       DEF PinInv, PinTypes, TimerAhead, AwayWatched
  <2>4. QueueWatched'
    <3>1. ASSUME NEW i \in 1..Len(updates'), NEW j \in 1..Len(updates'), i < j
          PROVE  updates'[i].waketime <= updates'[j].waketime
      <4>1. i \in 1..Len(updates) /\ (j \in 1..Len(updates) \/ j = Len(updates) + 1)
        BY <2>2, <3>1, SMTT(30) DEF PinInv, PinTypes
      <4>2. CASE j \in 1..Len(updates)
        BY <4>1, <4>2, <2>2, <3>1, Zenon DEF PinInv, QueueWatched
      <4>3. CASE j = Len(updates) + 1  BY <4>1, <4>3, <2>1, <2>2 DEF u
      <4>4. QED  BY <4>1, <4>2, <4>3, Zenon
    <3>2. updates' # <<>> => timer_on' /\ check_end' /\ end_time' = updates'[1].waketime
      BY <1>2, <2>1, <2>2, Zenon DEF PinInv, QueueWatched
    <3>3. QED  BY <3>1, <3>2, ZenonT(30) DEF QueueWatched
  <2>5. PinFlags'  BY <2>1, ZenonT(30) DEF PinInv, PinFlags
  <2>6. QED  BY <2>3, <2>4, <2>5, Zenon DEF PinInv
<1>3. CASE updates = <<>> /\ Exceeds(time)
  BY <1>3, ShutdownKeeps, Zenon DEF QueueDigitalOut
<1>4. CASE updates = <<>> /\ ~Exceeds(time)
  <2>1. /\ updates' = <<u>> /\ end_time' = time /\ check_end' = TRUE
        /\ IF toggling /\ waketime < time
           THEN UNCHANGED <<timer_on, func, waketime>>
           ELSE timer_on' = TRUE /\ waketime' = time /\ func' = "load"
        /\ UNCHANGED <<now, pin, on, toggling, on_duration, off_duration, cycle_time,
                       away_since>>
    BY <1>4, Zenon DEF QueueDigitalOut, timer
  <2>2. updates' \in Seq(Update) /\ Len(updates') = 1 /\ updates'[1] = u /\ u.waketime = time
    BY <1>1, <2>1, SMTT(30)
  <2> HIDE DEF u
  <2>3. PinTypes' /\ TimerAhead'
    BY <1>1, <2>1, <2>2, DigitalOutAssumption, SMTT(30) DEF PinInv, PinTypes, TimerAhead
  <2>4. QueueWatched'
    BY <2>1, <2>2, SMTT(30) DEF PinInv, PinTypes, TimerAhead, QueueWatched
  <2>5. AwayWatched'
    <3>1. away_since # Home /\ MaxDuration > 0 => timer_on /\ time <= end_time
      BY <1>1, <1>4, SMTT(30) DEF PinInv, PinTypes, AwayWatched, Exceeds
    <3>2. timer_on => timer_on'  BY <2>1, Zenon
    <3>3. away_since # Home => away_since \in Nat  BY Zenon DEF PinInv, PinTypes
    <3>4. QED
      BY <1>1, <2>1, <3>1, <3>2, <3>3, DigitalOutAssumption, SMTT(30)
         DEF PinInv, PinTypes, AwayWatched
  <2>6. PinFlags'  BY <2>1, ZenonT(30) DEF PinInv, PinFlags
  <2>7. QED  BY <2>3, <2>4, <2>5, <2>6, Zenon DEF PinInv
<1>5. QED  BY <1>2, <1>3, <1>4, Zenon

LEMMA UpdateKeeps ==
    ASSUME PinInv, NEW value \in BOOLEAN, UpdateDigitalOut(value)
    PROVE  PinInv'
<1>1. CASE updates # <<>>  BY <1>1, ShutdownKeeps, Zenon DEF UpdateDigitalOut
<1>2. CASE updates = <<>>
  <2> DEFINE watch == value # DefaultOn /\ MaxDuration > 0
  <2>1. /\ pin' = value /\ on' = value /\ toggling' = FALSE /\ check_end' = watch
        /\ timer_on' = watch
        /\ IF watch
           THEN /\ waketime' = now + MaxDuration /\ end_time' = now + MaxDuration
                /\ func' = "load"
           ELSE UNCHANGED <<waketime, end_time, func>>
        /\ away_since' = IF value # DefaultOn THEN now ELSE Home
        /\ UNCHANGED <<now, on_duration, off_duration, cycle_time, updates>>
    BY <1>2, ZenonT(30) DEF UpdateDigitalOut
  <2>2. watch \in BOOLEAN /\ (value # DefaultOn /\ MaxDuration > 0 => watch)  BY Zenon
  <2> HIDE DEF watch
  <2>3. PinTypes' /\ TimerAhead'
    BY <2>1, <2>2, DigitalOutAssumption, SMTT(30) DEF PinInv, PinTypes, TimerAhead, Home
  <2>4. QueueWatched'  BY <1>2, <2>1, SMTT(30) DEF QueueWatched
  <2>5. AwayWatched'
    BY <2>1, <2>2, DigitalOutAssumption, SMTT(30) DEF PinInv, PinTypes, AwayWatched, Home
  <2>6. PinFlags'  BY <2>1, <2>2, ZenonT(30) DEF PinInv, PinFlags
  <2>7. QED  BY <2>3, <2>4, <2>5, <2>6, Zenon DEF PinInv
<1>3. QED  BY <1>1, <1>2, Zenon

LEMMA PinNextInv == PinInv /\ [PinNext]_pinvars => PinInv'
<1> SUFFICES ASSUME PinInv, [PinNext]_pinvars PROVE PinInv'  BY Zenon
<1>1. CASE Tick  BY <1>1, TickKeeps, Zenon
<1>2. CASE OtherShutdown \/ LoadEventMissed \/ LoadEventTooFar
  BY <1>2, ShutdownKeeps, Zenon DEF OtherShutdown, LoadEventMissed, LoadEventTooFar
<1>3. CASE PinClearShutdown  BY <1>3, UnchangedKeeps, Zenon DEF PinClearShutdown
<1>4. CASE ToggleEvent  BY <1>4, ToggleKeeps, Zenon
<1>5. CASE LoadEvent  BY <1>5, LoadKeeps, Zenon
<1>6. CASE \E c \in Cycles : SetPwmCycle(c)  BY <1>6, SetPwmCycleKeeps, Zenon
<1>7. CASE \E time \in now + 1..now + Horizon, duration \in 0..MaxOn :
              QueueDigitalOut(time, duration)
  BY <1>7, QueueKeeps, Zenon
<1>8. CASE \E value \in BOOLEAN : UpdateDigitalOut(value)  BY <1>8, UpdateKeeps, Zenon
<1>9. CASE UNCHANGED pinvars  BY <1>9, UnchangedKeeps, Zenon DEF pinvars
<1>10. QED
  BY <1>1, <1>2, <1>3, <1>4, <1>5, <1>6, <1>7, <1>8, <1>9, Zenon DEF PinNext

LEMMA PinAlways == PinSpec => []PinInv
  BY PinInitInv, PinNextInv, PTL DEF PinSpec

-----------------------------------------------------------------------------
(* What follows *)

\* digital_load_event, digital_toggle_event, command_update_digital_out: with any
\* max_duration, an output away from its default is renewed in time or the machine
\* has shut down.
THEOREM WatchdogAlwaysHolds == PinSpec => []WatchdogHolds
<1>1. PinInv => WatchdogHolds
  BY DigitalOutAssumption, SMTT(30)
     DEF PinInv, PinTypes, TimerAhead, AwayWatched, WatchdogHolds, Home
<1>2. QED  BY <1>1, PinAlways, PTL

\* command_queue_digital_out: the time of a queued update is never passed over,
\* however many are queued and whatever the output does meanwhile.
THEOREM UpdatesAlwaysOnTime == PinSpec => []UpdatesOnTime
<1>1. PinInv => UpdatesOnTime
  <2> SUFFICES ASSUME PinInv PROVE UpdatesOnTime  BY Zenon
  <2>1. PinTypeOK
    <3>1. now \in 0..MaxTime  BY DigitalOutAssumption, SMTT(30) DEF PinInv, PinTypes
    <3>2. QED  BY <3>1, ZenonT(30) DEF PinInv, PinTypes, PinFlags, PinTypeOK
  <2>2. ASSUME NEW i \in DOMAIN updates PROVE now <= updates[i].waketime
    <3>1. /\ i \in 1..Len(updates) /\ 1 \in 1..Len(updates) /\ updates # <<>>
          /\ updates[i] \in Update /\ updates[1] \in Update /\ i \in Nat
      BY <2>2, SMTT(30) DEF PinInv, PinTypes
    <3>2. now <= updates[1].waketime
      BY <3>1, SMTT(30) DEF PinInv, PinTypes, TimerAhead, QueueWatched
    <3>3. i = 1 \/ updates[1].waketime <= updates[i].waketime
      BY <3>1, SMTT(30) DEF PinInv, QueueWatched
    <3>4. QED  BY <3>1, <3>2, <3>3, SMTT(30) DEF PinInv, PinTypes, Update
  <2>3. QED  BY <2>1, <2>2, ZenonT(30) DEF UpdatesOnTime, PinInv, TimerAhead
<1>2. QED  BY <1>1, PinAlways, PTL

-----------------------------------------------------------------------------
(* ConsoleRx *)

RxBytes == [kind : {"header", "body", "sync", "garbage"}, id : Nat]

\* The buffer holds the bytes received and not yet popped, the first of them
\* already moved to the front.
Shifted(buf, bytes, pos, pop, moved) ==
    /\ Len(bytes) = pos
    /\ \A i \in 1..moved : buf[i] = bytes[i + pop]
    /\ \A i \in moved + 1..pos : buf[i] = bytes[i]

BufferTrue ==
    /\ pc \notin {"pop", "commit"} => Shifted(receive_buf, pending, receive_pos, 0, 0)
    /\ pc \in {"pop", "commit"} => Shifted(receive_buf, pending, receive_pos, pop_count, copied)

\* What console_task has read is at most what the interrupt has written.
PlacesRead ==
    /\ pc = "find" => rpos <= receive_pos
    /\ pc \in {"dispatch", "nak"} => pop_count <= receive_pos /\ copied = 0
    /\ pc \in {"pop", "commit"} => copied + pop_count <= receive_pos
    /\ pc = "commit" => rpos <= receive_pos /\ copied = rpos - pop_count

\* A sync byte that console_task has not seen has woken the tasks.
NoSync(buf, lo, hi) == \A i \in lo + 1..hi : buf[i] # SyncByte
SyncWakes ==
    /\ pc = "find" /\ ~wake => NoSync(receive_buf, rpos, receive_pos)
    /\ pc = "commit" /\ ~wake => copied = 0
    /\ pc = "ack" /\ ~wake => NoSync(receive_buf, 0, receive_pos)
    /\ pc = "idle" /\ ~wake /\ ~restarted => Parsed(receive_buf, receive_pos) # "block"

RxTypes ==
    /\ RxTypeOK
    /\ wire \in Seq(RxBytes) /\ pending \in Seq(RxBytes)
    /\ receive_buf \in [1..BufSize -> RxBytes]
    /\ blocks \in Nat
    /\ wake \in BOOLEAN /\ restarted \in BOOLEAN /\ need_sync \in BOOLEAN

RxInv == RxTypes /\ BufferTrue /\ PlacesRead /\ SyncWakes

-----------------------------------------------------------------------------
LEMMA RxConstants ==
    /\ BufSize \in Nat /\ 3 <= BufSize /\ SeqModulus \in Nat /\ 0 < SeqModulus
BY ConsoleRxAssumption

\* A set of natural numbers has a least element.
LEMMA LeastOf ==
    ASSUME NEW S \in SUBSET Nat, S # {}
    PROVE  \E i \in S : \A j \in S : i <= j
<1> DEFINE R == OpToRel(<, Nat)
<1>1. R = {ss \in Nat \X Nat : ss[1] < ss[2]}  BY Zenon DEF OpToRel
<1>2. IsWellFoundedOn(R, Nat)  BY NatLessThanWellFounded, Zenon
<1> HIDE DEF R
<1>3. PICK i \in S : \A j \in S : ~(<<j, i>> \in R)  BY <1>2, WFMin, Zenon
<1>4. \A j \in S : i <= j
  <2> SUFFICES ASSUME NEW j \in S, ~(i <= j) PROVE FALSE  BY Zenon
  <2>1. j \in Nat /\ i \in Nat  BY Zenon
  <2>2. j < i  BY <2>1
  <2>3. <<j, i>> \in R  BY <1>1, <2>1, <2>2, Zenon
  <2>4. QED  BY <1>3, <2>3, Zenon
<1>5. QED  BY <1>4, Zenon

\* What the parser tells of the bytes
LEMMA SyncFirst ==
    ASSUME NEW buf, NEW n \in Nat, 0 < n
    PROVE  UpToSync(buf, n) \in 1..n
<1> DEFINE S == SyncPositions(buf, n)
<1>1. S \in SUBSET (1..n)  BY Zenon DEF SyncPositions
<1> HIDE DEF S
<1>2. S \in SUBSET Nat  BY <1>1
<1>3. CASE S = {}  BY <1>3 DEF UpToSync, S
<1>4. CASE S # {}
  <2>1. \E i \in S : \A j \in S : i <= j  BY <1>2, <1>4, LeastOf, Zenon
  <2>2. (CHOOSE i \in S : \A j \in S : i <= j) \in S  BY <2>1, Zenon
  <2>3. QED  BY <1>1, <1>4, <2>2, Zenon DEF UpToSync, S
<1>5. QED  BY <1>3, <1>4, Zenon

Places == 0..BufSize

LEMMA ParsedFacts ==
    ASSUME NEW buf \in [1..BufSize -> RxBytes], NEW n \in Places
    PROVE  /\ Parsed(buf, n) = "block" => 3 <= n /\ buf[3] = SyncByte
           /\ Parsed(buf, n) = "more" => n < 3
           /\ Parsed(buf, n) \in {"skip", "leading sync"} => 0 < n
           /\ n = 0 => Parsed(buf, n) = "more"
BY RxConstants DEF Parsed, MESSAGE_MIN, msglen, Places

\* A byte that is no sync byte completes no block.
LEMMA BlockNeedsSync ==
    ASSUME NEW buf \in [1..BufSize -> RxBytes], NEW n \in Places, n < BufSize, NEW x \in RxBytes,
           x # SyncByte, Parsed([buf EXCEPT ![n + 1] = x], n + 1) = "block"
    PROVE  Parsed(buf, n) = "block"
<1> DEFINE new == [buf EXCEPT ![n + 1] = x]
<1>1. /\ n \in 0..BufSize /\ n + 1 \in 1..BufSize /\ new \in [1..BufSize -> RxBytes] /\ new[n + 1] = x
      /\ \A i \in 1..n : new[i] = buf[i]
  BY RxConstants DEF Places
<1>2. 3 <= n + 1 /\ new[3] = SyncByte
  <2>1. n + 1 \in Places  BY <1>1, RxConstants DEF Places
  <2>2. QED  BY <1>1, <2>1, ParsedFacts, Zenon
<1>3. n + 1 # 3  BY <1>1, <1>2, Zenon
<1>4. new[1] = buf[1] /\ new[2] = buf[2] /\ new[3] = buf[3] /\ 3 <= n  BY <1>1, <1>2, <1>3
<1>5. ~need_sync /\ new[1].kind = "header" /\ new[2] = Body(new[1].id)
  BY <1>1, <1>2 DEF Parsed, MESSAGE_MIN, msglen
<1> HIDE DEF new
<1>6. QED  BY <1>1, <1>2, <1>4, <1>5 DEF Parsed, MESSAGE_MIN, msglen

-----------------------------------------------------------------------------
LEMMA RxInitInv == RxInit => RxInv
<1> SUFFICES ASSUME RxInit PROVE RxInv  BY Zenon
<1>1. Bad \in RxBytes  BY Zenon DEF Bad, RxBytes
<1>2. receive_buf \in [1..BufSize -> RxBytes]  BY <1>1, Zenon DEF RxInit
<1>3. RxTypeOK  BY RxConstants DEF RxInit, RxTypeOK
<1>4. RxTypes
  <2>1. wire \in Seq(RxBytes) /\ pending \in Seq(RxBytes) /\ blocks \in Nat  BY DEF RxInit
  <2>2. QED  BY <1>2, <1>3, <2>1, Zenon DEF RxInit, RxTypes
<1>5. BufferTrue /\ PlacesRead  BY DEF RxInit, BufferTrue, PlacesRead, Shifted
<1>6. SyncWakes
  <2>1. Parsed(receive_buf, receive_pos) # "block"  BY DEF RxInit, Parsed, MESSAGE_MIN
  <2>2. QED  BY <2>1, Zenon DEF RxInit, SyncWakes
<1>7. QED  BY <1>4, <1>5, <1>6, Zenon DEF RxInv

\* What the buffer holds, as far as the properties look at it
console == <<receive_buf, receive_pos, wake, need_sync, next_sequence, local, pending, restarted>>

LEMMA ConsoleSame ==
    ASSUME RxInv, UNCHANGED console, wire' \in Seq(RxBytes), blocks' \in Nat
    PROVE  RxInv'
<1>1. RxTypes'  BY Zenon DEF console, local, RxInv, RxTypes, RxTypeOK
<1>2. BufferTrue' /\ PlacesRead'  BY Zenon DEF console, local, RxInv, BufferTrue, PlacesRead
<1>3. SyncWakes'  BY Zenon DEF console, local, RxInv, SyncWakes, Parsed
<1>4. QED  BY <1>1, <1>2, <1>3, Zenon DEF RxInv

LEMMA BlockBytes ==
    ASSUME NEW id \in Nat
    PROVE  Block(id) \in Seq(RxBytes)
<1>1. Header(id) \in RxBytes /\ Body(id) \in RxBytes /\ SyncByte \in RxBytes
  BY Zenon DEF Header, Body, SyncByte, RxBytes
<1>2. QED  BY <1>1 DEF Block

LEMMA WireKeeps ==
    ASSUME RxInv, SendBlock \/ RepeatBlock \/ Corrupt
    PROVE  RxInv'
<1>1. UNCHANGED console
  BY Zenon DEF SendBlock, RepeatBlock, Corrupt, console, parser, local, history
<1>2. wire \in Seq(RxBytes) /\ blocks \in Nat  BY Zenon DEF RxInv, RxTypes
<1>3. wire' \in Seq(RxBytes) /\ blocks' \in Nat
  <2>1. CASE SendBlock  BY <1>2, <2>1, BlockBytes DEF SendBlock
  <2>2. CASE RepeatBlock
    <3>1. PICK id \in {i \in 0..blocks - 1 : i >= blocks - Window} : wire' = Block(id)
      BY <2>2, Zenon DEF RepeatBlock
    <3>2. id \in Nat  BY <1>2, <3>1
    <3>3. QED  BY <1>2, <2>2, <3>1, <3>2, BlockBytes, Zenon DEF RepeatBlock
  <2>3. CASE Corrupt
    <3>1. PICK x \in {Bad, SyncByte} : wire' = <<x>> \o Tail(wire)  BY <2>3, ZenonT(30) DEF Corrupt
    <3>2. x \in RxBytes  BY <3>1 DEF Bad, SyncByte, RxBytes
    <3>3. Tail(wire) \in Seq(RxBytes)  BY <1>2, <2>3, SeqTail, Zenon DEF Corrupt
    <3>4. <<x>> \in Seq(RxBytes)  BY <3>2
    <3>5. wire' \in Seq(RxBytes)  BY <3>1, <3>3, <3>4, SeqConcat, Zenon
    <3>6. QED  BY <1>2, <2>3, <3>5, Zenon DEF Corrupt
  <2>4. QED  BY <2>1, <2>2, <2>3, Zenon
<1>4. QED  BY <1>1, <1>3, ConsoleSame, Zenon

\* A wake alone
LEMMA WakeKeepsRx ==
    ASSUME RxInv, wake' \in BOOLEAN, wake => wake', wire' \in Seq(RxBytes),
           UNCHANGED <<receive_buf, receive_pos, need_sync, next_sequence, local, pending, restarted, blocks>>
    PROVE  RxInv'
<1>1. RxTypes'  BY Zenon DEF local, RxInv, RxTypes, RxTypeOK
<1>2. BufferTrue' /\ PlacesRead'  BY Zenon DEF local, RxInv, BufferTrue, PlacesRead
<1>3. SyncWakes'  BY Zenon DEF local, RxInv, SyncWakes, Parsed
<1>4. QED  BY <1>1, <1>2, <1>3, Zenon DEF RxInv

LEMMA MovedGrows ==
    ASSUME NEW buf \in [1..BufSize -> RxBytes], NEW bytes \in Seq(RxBytes), NEW pos \in Places,
           pos < BufSize, NEW pop \in Nat, NEW moved \in Nat, moved + pop <= pos,
           Shifted(buf, bytes, pos, pop, moved), NEW x \in RxBytes
    PROVE  Shifted([buf EXCEPT ![pos + 1] = x], Append(bytes, x), pos + 1, pop, moved)
<1> DEFINE new == [buf EXCEPT ![pos + 1] = x]
<1> DEFINE more == Append(bytes, x)
<1>1. Len(more) = pos + 1 /\ (\A i \in 1..pos : more[i] = bytes[i]) /\ more[pos + 1] = x
  BY SeqAppend DEF Shifted
<1>2. pos \in Nat /\ pos + 1 \in 1..BufSize  BY RxConstants DEF Places
<1>3. new[pos + 1] = x /\ \A i \in 1..pos : new[i] = buf[i]  BY <1>2
<1> HIDE DEF new, more
<1>4. \A i \in 1..moved : new[i] = more[i + pop]
  BY <1>1, <1>2, <1>3 DEF Shifted
<1>5. \A i \in moved + 1..pos + 1 : new[i] = more[i]
  BY <1>1, <1>2, <1>3 DEF Shifted
<1>6. QED  BY <1>1, <1>4, <1>5, Zenon DEF Shifted, new, more

\* serial_rx_byte
LEMMA RxByteKeeps ==
    ASSUME RxInv, RxByte
    PROVE  RxInv'
<1> DEFINE x == Head(wire)
<1>1. wire \in Seq(RxBytes) /\ wire # <<>> /\ wake \in BOOLEAN  BY Zenon DEF RxInv, RxTypes, RxByte
<1>2. x \in RxBytes /\ wire' \in Seq(RxBytes)  BY <1>1, SeqTail, Zenon DEF RxByte
<1>3. wake' \in BOOLEAN /\ (wake => wake') /\ (x = SyncByte => wake')  BY <1>1, Zenon DEF RxByte
<1>4. UNCHANGED <<need_sync, next_sequence, pc, rpos, pop_count, copied, ret, restarted, blocks>>
  BY Zenon DEF RxByte, parser, local, history
<1>5. CASE receive_pos >= BufSize
  <2>1. UNCHANGED <<receive_buf, receive_pos, pending>>  BY <1>5, Zenon DEF RxByte
  <2>2. QED  BY <1>2, <1>3, <1>4, <2>1, WakeKeepsRx, Zenon DEF local
<1>6. CASE ~(receive_pos >= BufSize)
  <2>1. /\ receive_buf' = [receive_buf EXCEPT ![receive_pos + 1] = x]
        /\ receive_pos' = receive_pos + 1 /\ pending' = Append(pending, x)
    BY <1>6, Zenon DEF RxByte
  <2> HIDE DEF x
  <2>2. /\ receive_buf \in [1..BufSize -> RxBytes] /\ receive_pos \in Places /\ pending \in Seq(RxBytes)
        /\ pop_count \in Nat /\ copied \in Nat /\ rpos \in Nat /\ receive_pos < BufSize
        /\ receive_pos \in Nat
    BY <1>6, RxConstants DEF RxInv, RxTypes, RxTypeOK, Places
  <2>3. RxTypes'
    <3>1. RxTypeOK'  BY <1>4, <2>1, <2>2, RxConstants DEF RxInv, RxTypes, RxTypeOK
    <3>2. receive_buf' \in [1..BufSize -> RxBytes]  BY <1>2, <2>1, <2>2, Zenon
    <3>3. pending' \in Seq(RxBytes)  BY <1>2, <2>1, <2>2, SeqAppend, Zenon
    <3>4. QED  BY <1>2, <1>3, <1>4, <3>1, <3>2, <3>3, Zenon DEF RxInv, RxTypes
  <2>4. BufferTrue'
    <3>1. CASE pc \notin {"pop", "commit"}
      <4>1. Shifted(receive_buf, pending, receive_pos, 0, 0)  BY <3>1, Zenon DEF RxInv, BufferTrue
      <4>2. 0 \in Nat /\ 0 + 0 <= receive_pos  BY <2>2
      <4>3. Shifted(receive_buf', pending', receive_pos', 0, 0)
        BY <1>2, <2>1, <2>2, <4>1, <4>2, MovedGrows, Zenon
      <4>4. QED  BY <1>4, <3>1, <4>3, Zenon DEF BufferTrue
    <3>2. CASE pc \in {"pop", "commit"}
      <4>1. /\ Shifted(receive_buf, pending, receive_pos, pop_count, copied)
            /\ copied + pop_count <= receive_pos
        BY <3>2, Zenon DEF RxInv, BufferTrue, PlacesRead
      <4>2. Shifted(receive_buf', pending', receive_pos', pop_count, copied)
        BY <1>2, <2>1, <2>2, <4>1, MovedGrows, Zenon
      <4>3. QED  BY <1>4, <3>2, <4>2, Zenon DEF BufferTrue
    <3>3. QED  BY <3>1, <3>2, Zenon
  <2>5. PlacesRead'  BY <1>4, <2>1, <2>2 DEF RxInv, PlacesRead
  <2>6. SyncWakes'
    <3> SUFFICES ASSUME ~wake' PROVE SyncWakes'  BY Zenon DEF SyncWakes
    <3>1. ~wake /\ x # SyncByte  BY <1>3, Zenon
    <3>2. /\ receive_buf'[receive_pos + 1] = x
          /\ \A i \in 1..receive_pos : receive_buf'[i] = receive_buf[i]
      <4>1. receive_pos + 1 \in 1..BufSize  BY <2>2, RxConstants
      <4>2. QED  BY <2>1, <2>2, <4>1
    <3>3. \A k \in Nat : NoSync(receive_buf, k, receive_pos) => NoSync(receive_buf', k, receive_pos')
      BY <2>1, <2>2, <3>1, <3>2 DEF NoSync
    <3>4. pc = "find" => NoSync(receive_buf', rpos, receive_pos')
      BY <2>2, <3>1, <3>3, Zenon DEF RxInv, SyncWakes
    <3>5. pc = "ack" => NoSync(receive_buf', 0, receive_pos')
      BY <2>2, <3>1, <3>3, Zenon DEF RxInv, SyncWakes
    <3>6. pc = "idle" /\ ~restarted => Parsed(receive_buf', receive_pos') # "block"
      BY <1>2, <2>1, <2>2, <3>1, BlockNeedsSync, Zenon DEF RxInv, SyncWakes
    <3>7. Parsed(receive_buf', receive_pos') = Parsed(receive_buf, receive_pos)'  BY <1>4, Zenon DEF Parsed
    <3>8. QED  BY <1>4, <3>1, <3>4, <3>5, <3>6, <3>7, Zenon DEF RxInv, SyncWakes
  <2>7. QED  BY <2>3, <2>4, <2>5, <2>6, Zenon DEF RxInv
<1>7. QED  BY <1>5, <1>6, Zenon

LEMMA MovedNone ==
    ASSUME NEW buf, NEW bytes, NEW pos \in Nat, NEW pop, Shifted(buf, bytes, pos, 0, 0)
    PROVE  Shifted(buf, bytes, pos, pop, 0)
BY DEF Shifted

\* command_find_block
LEMMA FindBlockKeeps ==
    ASSUME RxInv, FindBlock
    PROVE  RxInv'
<1>1. /\ pc = "find" /\ copied' = 0
      /\ UNCHANGED <<wire, blocks, receive_buf, receive_pos, wake, rpos, pending, restarted>>
  BY Zenon DEF FindBlock, wire_vars
<1>2. /\ receive_buf \in [1..BufSize -> RxBytes] /\ receive_pos \in Places /\ rpos \in Places
      /\ rpos <= receive_pos /\ receive_pos \in Nat /\ rpos \in Nat /\ receive_pos <= BufSize
      /\ need_sync \in BOOLEAN /\ next_sequence \in 0..SeqModulus - 1
  BY <1>1, RxConstants DEF RxInv, RxTypes, RxTypeOK, PlacesRead, Places
<1>3. Shifted(receive_buf, pending, receive_pos, 0, 0)  BY <1>1, Zenon DEF RxInv, BufferTrue
<1>4. /\ pc' \in {"idle", "dispatch", "nak", "pop"} /\ pop_count' \in 0..rpos /\ ret' \in -1..1
      /\ need_sync' \in BOOLEAN /\ next_sequence' \in 0..SeqModulus - 1
  <2>1. CASE NeedMoreData  BY <1>2, <2>1 DEF NeedMoreData, parser
  <2>2. CASE ValidBlock
    <3>1. 3 <= rpos  BY <1>2, <2>2, ParsedFacts, Zenon DEF ValidBlock
    <3>2. (next_sequence + 1) % SeqModulus \in 0..SeqModulus - 1  BY <1>2, RxConstants
    <3>3. QED  BY <1>2, <2>2, <3>1, <3>2 DEF ValidBlock, msglen
  <2>3. CASE LeadingSync
    <3>1. 0 < rpos  BY <1>2, <2>3, ParsedFacts, Zenon DEF LeadingSync
    <3>2. need_sync' = need_sync /\ next_sequence' = next_sequence  BY <2>3, Zenon DEF LeadingSync, parser
    <3>3. pc' = "pop" /\ pop_count' = 1 /\ ret' = -1  BY <2>3, Zenon DEF LeadingSync
    <3>4. QED  BY <1>2, <3>1, <3>2, <3>3
  <2>4. CASE SkipToSync
    <3>1. 0 < rpos  BY <1>2, <2>4, ParsedFacts, Zenon DEF SkipToSync
    <3>2. UpToSync(receive_buf, rpos) \in 1..rpos  BY <1>2, <3>1, SyncFirst, Zenon
    <3>3. need_sync' \in BOOLEAN  BY <2>4, Zenon DEF SkipToSync
    <3>4. QED  BY <1>2, <2>4, <3>2, <3>3 DEF SkipToSync
  <2>5. QED  BY <2>1, <2>2, <2>3, <2>4, Zenon DEF FindBlock
<1>5. pop_count' \in 0..BufSize /\ pop_count' <= receive_pos  BY <1>2, <1>4, RxConstants
<1>6. RxTypes'
  <2>1. RxTypeOK'  BY <1>1, <1>4, <1>5, RxConstants DEF RxInv, RxTypes, RxTypeOK
  <2>2. QED  BY <1>1, <1>4, <2>1, Zenon DEF RxInv, RxTypes
<1>7. BufferTrue'
  <2>1. Shifted(receive_buf, pending, receive_pos, pop_count', 0)  BY <1>2, <1>3, MovedNone, Zenon
  <2>2. QED  BY <1>1, <1>3, <1>4, <2>1, Zenon DEF BufferTrue
<1>8. PlacesRead'  BY <1>1, <1>4, <1>5 DEF PlacesRead
<1>9. SyncWakes'
  <2>1. CASE pc' = "idle"
    <3>1. Parsed(receive_buf, rpos) = "more" /\ need_sync' = need_sync
      BY <2>1, Zenon DEF FindBlock, NeedMoreData, ValidBlock, LeadingSync, SkipToSync, parser
    <3>2. rpos < 3  BY <1>2, <3>1, ParsedFacts, Zenon
    <3>3. ~wake => Parsed(receive_buf, receive_pos) # "block"
      <4> SUFFICES ASSUME ~wake, Parsed(receive_buf, receive_pos) = "block" PROVE FALSE  BY Zenon
      <4>1. 3 <= receive_pos /\ receive_buf[3] = SyncByte  BY <1>2, ParsedFacts, Zenon
      <4>2. 3 \in rpos + 1..receive_pos  BY <1>2, <3>2, <4>1
      <4>3. NoSync(receive_buf, rpos, receive_pos)  BY <1>1, Zenon DEF RxInv, SyncWakes
      <4>4. QED  BY <4>1, <4>2, <4>3, Zenon DEF NoSync
    <3>4. Parsed(receive_buf, receive_pos)' = Parsed(receive_buf, receive_pos)
      BY <1>1, <3>1, Zenon DEF Parsed
    <3>5. QED  BY <1>1, <2>1, <3>3, <3>4, Zenon DEF SyncWakes
  <2>2. CASE pc' # "idle"  BY <1>4, <2>2, Zenon DEF SyncWakes
  <2>3. QED  BY <2>1, <2>2, Zenon
<1>10. QED  BY <1>6, <1>7, <1>8, <1>9, Zenon DEF RxInv

\* console_task from one step to the next
LEMMA TaskKeepsRx ==
    ASSUME RxInv, StartTask \/ Dispatch \/ SendAckNak
    PROVE  RxInv'
<1>1. /\ UNCHANGED <<wire, blocks, receive_buf, receive_pos, need_sync, next_sequence, pop_count,
                     copied, ret, pending>>
      /\ pc \in {"idle", "dispatch", "nak", "ack"}
  BY Zenon DEF StartTask, Dispatch, SendAckNak, wire_vars, parser
<1>2. /\ receive_pos \in Nat /\ receive_pos \in Places /\ pop_count \in Nat
      /\ receive_buf \in [1..BufSize -> RxBytes]
  BY RxConstants DEF RxInv, RxTypes, RxTypeOK, Places
<1>3. Shifted(receive_buf, pending, receive_pos, 0, 0)  BY <1>1, Zenon DEF RxInv, BufferTrue
<1>4. CASE StartTask
  <2>1. pc' = "find" /\ rpos' = receive_pos /\ wake' = FALSE /\ restarted' = FALSE
    BY <1>4, Zenon DEF StartTask
  <2>2. RxTypes'  BY <1>1, <2>1, Zenon DEF RxInv, RxTypes, RxTypeOK
  <2>3. BufferTrue' /\ PlacesRead'  BY <1>1, <1>2, <1>3, <2>1 DEF BufferTrue, PlacesRead
  <2>4. SyncWakes'  BY <1>1, <1>2, <2>1 DEF SyncWakes, NoSync
  <2>5. QED  BY <2>2, <2>3, <2>4, Zenon DEF RxInv
<1>5. CASE pc \in {"dispatch", "nak"} /\ pc' = "pop" /\ UNCHANGED <<wake, rpos, restarted>>
  <2>1. pop_count <= receive_pos /\ copied = 0  BY <1>5, Zenon DEF RxInv, PlacesRead
  <2>2. RxTypes'  BY <1>1, <1>5, <2>1, Zenon DEF RxInv, RxTypes, RxTypeOK
  <2>3. Shifted(receive_buf, pending, receive_pos, pop_count, 0)  BY <1>2, <1>3, MovedNone, Zenon
  <2>4. BufferTrue' /\ PlacesRead'  BY <1>1, <1>2, <1>5, <2>1, <2>3 DEF BufferTrue, PlacesRead
  <2>5. SyncWakes'  BY <1>5, Zenon DEF SyncWakes
  <2>6. QED  BY <2>2, <2>4, <2>5, Zenon DEF RxInv
<1>6. CASE pc = "ack" /\ pc' = "idle" /\ UNCHANGED <<wake, rpos, restarted>>
  <2>1. RxTypes'  BY <1>1, <1>6, Zenon DEF RxInv, RxTypes, RxTypeOK
  <2>2. BufferTrue' /\ PlacesRead'  BY <1>1, <1>3, <1>6, Zenon DEF BufferTrue, PlacesRead
  <2>3. ~wake => Parsed(receive_buf, receive_pos) # "block"
    <3> SUFFICES ASSUME ~wake, Parsed(receive_buf, receive_pos) = "block" PROVE FALSE  BY Zenon
    <3>1. 3 <= receive_pos /\ receive_buf[3] = SyncByte  BY <1>2, ParsedFacts, Zenon
    <3>2. NoSync(receive_buf, 0, receive_pos)  BY <1>6, Zenon DEF RxInv, SyncWakes
    <3>3. QED  BY <1>2, <3>1, <3>2 DEF NoSync
  <2>4. Parsed(receive_buf, receive_pos)' = Parsed(receive_buf, receive_pos)  BY <1>1, Zenon DEF Parsed
  <2>5. SyncWakes'  BY <1>6, <2>3, <2>4, Zenon DEF SyncWakes
  <2>6. QED  BY <2>1, <2>2, <2>5, Zenon DEF RxInv
<1>7. QED  BY <1>4, <1>5, <1>6, Zenon DEF Dispatch, SendAckNak

\* console_pop_input moves what is behind the block,
MovedBy(buf, pop, moved, n) ==
    [i \in 1..BufSize |-> IF i \in moved + 1..n THEN buf[i + pop] ELSE buf[i]]

LEMMA MovedOn ==
    ASSUME NEW buf \in [1..BufSize -> RxBytes], NEW bytes \in Seq(RxBytes), NEW pos \in Places,
           NEW pop \in Nat, NEW moved \in Nat, NEW n \in Nat, n + pop = pos, moved <= n,
           Shifted(buf, bytes, pos, pop, moved)
    PROVE  Shifted(MovedBy(buf, pop, moved, n), bytes, pos, pop, n)
<1> DEFINE new == MovedBy(buf, pop, moved, n)
<1>1. pos \in Nat /\ pos <= BufSize  BY RxConstants DEF Places
<1>2. \A i \in 1..BufSize : new[i] = IF i \in moved + 1..n THEN buf[i + pop] ELSE buf[i]
  BY Zenon DEF MovedBy
<1> HIDE DEF new
<1>3. \A i \in 1..n : new[i] = bytes[i + pop]
  <2> SUFFICES ASSUME NEW i \in 1..n PROVE new[i] = bytes[i + pop]  BY Zenon
  <2>1. i \in 1..BufSize  BY SMTT(30), <1>1, RxConstants
  <2>2. CASE i <= moved  BY <1>2, <2>1, <2>2 DEF Shifted
  <2>3. CASE ~(i <= moved)
    <3>1. i + pop \in moved + 1..pos /\ i \in moved + 1..n  BY <1>1, <2>3
    <3>2. QED  BY <1>2, <2>1, <3>1, Zenon DEF Shifted
  <2>4. QED  BY <2>2, <2>3, Zenon
<1>4. \A i \in n + 1..pos : new[i] = bytes[i]
  <2> SUFFICES ASSUME NEW i \in n + 1..pos PROVE new[i] = bytes[i]  BY Zenon
  <2>1. i \in 1..BufSize /\ i \notin moved + 1..n /\ i \in moved + 1..pos  BY <1>1, RxConstants, SMTT(30)
  <2>2. QED  BY <1>2, <2>1, Zenon DEF Shifted
<1>5. QED  BY <1>3, <1>4, Zenon DEF Shifted, new

LEMMA PopCopyKeeps ==
    ASSUME RxInv, PopCopy
    PROVE  RxInv'
<1> DEFINE n == receive_pos - pop_count
<1>1. /\ pc = "pop" /\ pc' = "commit" /\ rpos' = receive_pos
      /\ receive_buf' = MovedBy(receive_buf, pop_count, copied, n)
      /\ copied' = (IF n > 0 THEN n ELSE copied) /\ wake' = (wake \/ n > 0)
      /\ UNCHANGED <<wire, blocks, receive_pos, need_sync, next_sequence, pop_count, ret, pending, restarted>>
  BY Zenon DEF PopCopy, MovedBy, WakeIfLeft, wire_vars, parser, history
<1>2. /\ receive_buf \in [1..BufSize -> RxBytes] /\ receive_pos \in Places /\ pending \in Seq(RxBytes)
      /\ receive_pos \in Nat /\ pop_count \in Nat /\ copied \in Nat /\ copied + pop_count <= receive_pos
      /\ receive_pos <= BufSize /\ wake \in BOOLEAN
  BY <1>1, RxConstants DEF RxInv, RxTypes, RxTypeOK, PlacesRead, Places
<1>3. n \in Nat /\ n + pop_count = receive_pos /\ copied <= n /\ n <= BufSize  BY <1>2, RxConstants
<1> HIDE DEF n
<1>4. copied' = n  BY <1>1, <1>2, <1>3
<1>5. Shifted(receive_buf, pending, receive_pos, pop_count, copied)  BY <1>1, Zenon DEF RxInv, BufferTrue
<1>6. Shifted(receive_buf', pending, receive_pos, pop_count, n)
  BY <1>1, <1>2, <1>3, <1>5, MovedOn, Zenon
<1>7. receive_buf' \in [1..BufSize -> RxBytes]
  <2>1. \A i \in 1..BufSize :
          (IF i \in copied + 1..n THEN receive_buf[i + pop_count] ELSE receive_buf[i]) \in RxBytes
    BY <1>2, <1>3, RxConstants
  <2>2. QED  BY <1>1, <2>1, Zenon DEF MovedBy
<1>8. wake' \in BOOLEAN  BY <1>1, Zenon
<1>9. RxTypes'
  <2>1. RxTypeOK'  BY <1>1, <1>2, <1>3, <1>4, RxConstants, SMTT(30) DEF RxInv, RxTypes, RxTypeOK
  <2>2. QED  BY <1>1, <1>7, <1>8, <2>1, Zenon DEF RxInv, RxTypes
<1>10. BufferTrue'  BY <1>1, <1>4, <1>6, Zenon DEF BufferTrue
<1>11. PlacesRead'  BY <1>1, <1>2, <1>3, <1>4 DEF PlacesRead
<1>12. SyncWakes'
  <2>1. ~wake' => ~(n > 0)  BY <1>1, Zenon
  <2>2. ~wake' => n = 0  BY <1>3, <2>1
  <2>3. QED  BY <1>1, <1>4, <2>2, Zenon DEF SyncWakes
<1>13. QED  BY <1>9, <1>10, <1>11, <1>12, Zenon DEF RxInv

\* and commits.
LEMMA PopCommitKeeps ==
    ASSUME RxInv, PopCommit
    PROVE  RxInv'
<1>1. /\ pc = "commit"
      /\ UNCHANGED <<wire, blocks, receive_buf, wake, need_sync, next_sequence, rpos, pop_count, copied,
                     ret, restarted>>
  BY Zenon DEF PopCommit, wire_vars, parser, history
<1>2. /\ receive_buf \in [1..BufSize -> RxBytes] /\ receive_pos \in Places /\ pending \in Seq(RxBytes)
      /\ receive_pos \in Nat /\ rpos \in Nat /\ pop_count \in Nat /\ copied \in Nat
      /\ copied + pop_count <= receive_pos /\ copied = rpos - pop_count /\ receive_pos <= BufSize
  BY <1>1, RxConstants DEF RxInv, RxTypes, RxTypeOK, PlacesRead, Places
<1>3. Shifted(receive_buf, pending, receive_pos, pop_count, copied)  BY <1>1, Zenon DEF RxInv, BufferTrue
<1>4. CASE Raced
  <2>1. pc' = "pop" /\ UNCHANGED <<receive_pos, pending>>  BY <1>4, Zenon DEF PopCommit
  <2>2. RxTypes'  BY <1>1, <2>1, Zenon DEF RxInv, RxTypes, RxTypeOK
  <2>3. BufferTrue' /\ PlacesRead'  BY <1>1, <1>2, <1>3, <2>1, Zenon DEF BufferTrue, PlacesRead
  <2>4. SyncWakes'  BY <2>1, Zenon DEF SyncWakes
  <2>5. QED  BY <2>2, <2>3, <2>4, Zenon DEF RxInv
<1>5. CASE ~Raced
  <2>1. /\ rpos = receive_pos /\ receive_pos' = copied /\ pc' \in {"ack", "idle"}
        /\ pending' = SubSeq(pending, pop_count + 1, Len(pending))
    BY <1>2, <1>5, Zenon DEF PopCommit, Raced
  <2>2. Len(pending) = receive_pos /\ receive_pos = copied + pop_count  BY <1>2, <1>3, <2>1 DEF Shifted
  <2>3. /\ pending' \in Seq(RxBytes) /\ Len(pending') = copied
        /\ \A i \in 1..copied : pending'[i] = pending[i + pop_count]
    <3>1. \A i \in pop_count + 1..Len(pending) : pending[i] \in RxBytes  BY <1>2
    <3>2. pop_count + 1 \in Int /\ Len(pending) \in Int  BY <1>2
    <3> DEFINE rest == SubSeq(pending, pop_count + 1, Len(pending))
    <3>3. /\ rest \in Seq(RxBytes)
          /\ Len(rest) = IF pop_count + 1 <= Len(pending)
                         THEN Len(pending) - (pop_count + 1) + 1 ELSE 0
          /\ \A i \in 1..Len(pending) - (pop_count + 1) + 1 :
                rest[i] = pending[(pop_count + 1) + i - 1]
      BY <3>1, <3>2, SeqPart, SMTT(30)
    <3>4. pending' = rest  BY <2>1, Zenon
    <3> HIDE DEF rest
    <3>5. Len(pending) - (pop_count + 1) + 1 = copied  BY <1>2, <2>2
    <3>6. Len(rest) = copied  BY <1>2, <2>2, <3>3, <3>5
    <3>7. \A i \in 1..copied : (pop_count + 1) + i - 1 = i + pop_count  BY <1>2
    <3>8. QED  BY <3>3, <3>5, <3>6, <3>7, <3>4, Zenon
  <2>4. Shifted(receive_buf, pending', copied, 0, 0)  BY <1>2, <1>3, <2>3, SMTT(30) DEF Shifted
  <2>5. RxTypes'
    <3>1. RxTypeOK'  BY <1>1, <1>2, <2>1, RxConstants, Zenon DEF RxInv, RxTypes, RxTypeOK
    <3>2. QED  BY <1>1, <2>3, <3>1, Zenon DEF RxInv, RxTypes
  <2>6. BufferTrue' /\ PlacesRead'  BY <1>1, <2>1, <2>4, Zenon DEF BufferTrue, PlacesRead
  <2>7. SyncWakes'
    <3> SUFFICES ASSUME ~wake' PROVE SyncWakes'  BY Zenon DEF SyncWakes
    <3>1. receive_pos' = 0  BY <1>1, <2>1, Zenon DEF RxInv, SyncWakes
    <3>2. NoSync(receive_buf, 0, 0)  BY DEF NoSync
    <3>3. Parsed(receive_buf, 0) # "block"  BY DEF Parsed, MESSAGE_MIN
    <3>4. Parsed(receive_buf, receive_pos)' = Parsed(receive_buf, 0)  BY <1>1, <3>1, Zenon DEF Parsed
    <3>5. QED  BY <1>1, <2>1, <3>1, <3>2, <3>3, <3>4, Zenon DEF SyncWakes
  <2>8. QED  BY <2>5, <2>6, <2>7, Zenon DEF RxInv
<1>6. QED  BY <1>4, <1>5, Zenon

\* A shutdown leaves what the buffer holds.
LEMMA RxShutdownKeeps ==
    ASSUME RxInv, RxShutdown
    PROVE  RxInv'
<1>1. /\ pc' = "idle" /\ restarted' = TRUE /\ pending' = SubSeq(receive_buf, 1, receive_pos)
      /\ UNCHANGED <<wire, blocks, receive_buf, receive_pos, wake, need_sync, next_sequence, rpos,
                     pop_count, copied, ret>>
  BY Zenon DEF RxShutdown, parser
<1>2. receive_buf \in [1..BufSize -> RxBytes] /\ receive_pos \in Nat /\ receive_pos <= BufSize
  BY SMTT(30), RxConstants DEF RxInv, RxTypes, RxTypeOK
<1>3. /\ pending' \in Seq(RxBytes) /\ Len(pending') = receive_pos
      /\ \A i \in 1..receive_pos : pending'[i] = receive_buf[i]
  <2>1. \A i \in 1..receive_pos : receive_buf[i] \in RxBytes  BY <1>2, RxConstants
  <2>2. QED  BY <1>1, <1>2, <2>1, SeqPart
<1>4. RxTypes'  BY <1>1, <1>3, Zenon DEF RxInv, RxTypes, RxTypeOK
<1>5. BufferTrue' /\ PlacesRead'  BY <1>1, <1>2, <1>3 DEF BufferTrue, PlacesRead, Shifted
<1>6. SyncWakes'  BY <1>1, Zenon DEF SyncWakes
<1>7. QED  BY <1>4, <1>5, <1>6, Zenon DEF RxInv

LEMMA RxNextInv == RxInv /\ [RxNext]_rxvars => RxInv'
<1> SUFFICES ASSUME RxInv, [RxNext]_rxvars PROVE RxInv'  BY Zenon
<1>1. CASE SendBlock \/ RepeatBlock \/ Corrupt  BY <1>1, WireKeeps, Zenon
<1>2. CASE PeriodicWake
  <2>1. /\ wake' = TRUE /\ UNCHANGED <<receive_buf, receive_pos, need_sync, next_sequence, local, pending,
                                       restarted, wire, blocks>>
    BY <1>2, Zenon DEF PeriodicWake, wire_vars, parser, history
  <2>2. wire' \in Seq(RxBytes) /\ wake' \in BOOLEAN  BY <2>1, Zenon DEF RxInv, RxTypes
  <2>3. QED  BY <2>1, <2>2, WakeKeepsRx, Zenon
<1>3. CASE UNCHANGED rxvars
  <2>1. UNCHANGED <<console, wire, blocks>>  BY <1>3, Zenon DEF rxvars, wire_vars, parser, history, console
  <2>2. QED  BY <2>1, ConsoleSame, Zenon DEF RxInv, RxTypes
<1>4. QED
  BY <1>1, <1>2, <1>3, RxByteKeeps, FindBlockKeeps, TaskKeepsRx, PopCopyKeeps, PopCommitKeeps,
     RxShutdownKeeps, Zenon DEF RxNext

\* The receive interrupt and console_pop_input lose and repeat no byte of the
\* buffer, and no block in it goes unnoticed (serial_rx_byte, console_task,
\* console_pop_input and command_find_block), for every size of the buffer and
\* whatever comes over the wire.
THEOREM BlocksNeverForgotten == RxSpec => []NoBlockForgotten
<1>1. RxInv => NoBlockForgotten
  BY DEF RxInv, RxTypes, BufferTrue, SyncWakes, NoBlockForgotten, Shifted
<1>2. QED  BY <1>1, RxInitInv, RxNextInv, PTL DEF RxSpec

-----------------------------------------------------------------------------
(* Buttons: the invariant *)

Report == SUBSET Pins
Message == [ack_count : Nat, state : Seq(Report), base : Nat]
Ack == [count : Nat, upto : Nat]

ButtonsTypes ==
    /\ pressed \in Report /\ last_pressed \in Report
    /\ reports \in Seq(Report) /\ reported \in Seq(Report) /\ delivered \in Seq(Report)
    /\ base \in Nat /\ host_count \in Nat
    /\ states \in Seq(Message) /\ acks \in Seq(Ack)

\* The mcu holds what is not acknowledged yet, and counts the rest in a byte.
McuHolds ==
    /\ ack_count = base % AckMod
    /\ base <= host_count
    /\ Len(reports) = Len(reported) - base /\ Len(reports) <= QueueSize
    /\ \A k \in 1..Len(reports) : reports[k] = reported[base + k]

HostHas ==
    /\ host_count <= Len(reported) /\ Len(delivered) = host_count
    /\ \A k \in 1..host_count : delivered[k] = reported[k]

\* A message on its way holds reports from its base on; the host is at most a
\* queue ahead of that base, so that a byte tells by how much.
MessageTrue(m, acked, count, all) ==
    /\ m.ack_count = m.base % AckMod
    /\ m.base <= acked /\ count <= m.base + QueueSize
    /\ 1 <= Len(m.state) /\ Len(m.state) <= QueueSize
    /\ m.base + Len(m.state) <= Len(all)
    /\ \A k \in 1..Len(m.state) : m.state[k] = all[m.base + k]
MessagesTrue ==
    /\ \A i \in 1..Len(states) : MessageTrue(states[i], base, host_count, reported)
    /\ \A i, j \in 1..Len(states) : i < j => states[i].base <= states[j].base

\* The acks on their way close the gap between both counts.
AcksTrue ==
    /\ \A i \in 1..Len(acks) : acks[i].upto <= host_count
    /\ acks = <<>> => base = host_count
    /\ acks # <<>> =>
         /\ acks[1].upto = base + acks[1].count
         /\ acks[Len(acks)].upto = host_count
    /\ \A i \in 1..Len(acks) - 1 : acks[i + 1].upto = acks[i].upto + acks[i + 1].count

ButtonsInv == ButtonsTypes /\ McuHolds /\ HostHas /\ MessagesTrue /\ AcksTrue

-----------------------------------------------------------------------------
(* Arithmetic of a count kept in a byte *)

LEMMA QuotientRemainder ==
    ASSUME NEW a \in Int, NEW n \in Nat, 0 < n
    PROVE  \E q \in Int : a = n * q + (a % n) /\ a % n \in 0..n - 1
  BY Z3

LEMMA MultipleBelow ==
    ASSUME NEW k \in Int, NEW n \in Nat, 0 < n, n * k < 2 * n, -n < n * k
    PROVE  k = 0 \/ k = 1
<1>1. ASSUME k >= 2 PROVE FALSE
  <2>1. n * k = 2 * n + n * (k - 2) /\ n * (k - 2) >= 0  BY <1>1, Z3
  <2>2. QED  BY <2>1, SMTT(30)
<1>2. ASSUME k <= -1 PROVE FALSE
  <2>1. n * k = -n - n * (-1 - k) /\ n * (-1 - k) >= 0  BY <1>2, Z3
  <2>2. QED  BY <2>1, SMTT(30)
<1>3. QED  BY <1>1, <1>2, SMTT(30)

\* command_buttons_ack: adding to the byte is adding to the count.
LEMMA ByteAdd ==
    ASSUME NEW b \in Nat, NEW c \in Nat, NEW n \in Nat, 0 < n
    PROVE  ((b % n) + c) % n = (b + c) % n
<1> DEFINE x == ((b % n) + c) % n
           y == (b + c) % n
<1>1. PICK q \in Int : b = n * q + (b % n) /\ b % n \in 0..n - 1  BY QuotientRemainder
<1>2. PICK r \in Int : (b % n) + c = n * r + x /\ x \in 0..n - 1
  BY <1>1, QuotientRemainder
<1>3. PICK s \in Int : b + c = n * s + y /\ y \in 0..n - 1  BY QuotientRemainder
<1> HIDE DEF x, y
<1>4. x - y = n * (s - q - r)
  <2>1. n * (s - q - r) = n * s - n * q - n * r  BY Z3
  <2>2. QED  BY <1>1, <1>2, <1>3, <2>1, SMTT(30)
<1>5. s - q - r = 0 \/ s - q - r = 1
  BY <1>2, <1>3, <1>4, MultipleBelow, SMTT(30)
<1>6. s - q - r # 1  BY <1>2, <1>3, <1>4, SMTT(30)
<1>7. x = y  BY <1>2, <1>3, <1>4, <1>5, <1>6, SMTT(30)
<1>8. QED  BY <1>7, Zenon DEF x, y

\* handle_buttons_state: the difference of two bytes is the difference of the
\* counts while that is less than half the range of a byte.
LEMMA SignedDiffExact ==
    ASSUME NEW a \in Nat, NEW h \in Nat, a <= h, h <= a + QueueSize
    PROVE  SignedDiff(a % AckMod, h % AckMod) = a - h
<1> DEFINE d == ((a % AckMod) - (h % AckMod)) % AckMod
<1>0. AckMod \in Nat /\ 0 < AckMod /\ QueueSize \in Nat /\ 0 < QueueSize /\ 2 * QueueSize < AckMod
  BY ButtonsAssumption, SMTT(30)
<1>1. PICK q \in Int : a = AckMod * q + (a % AckMod) /\ a % AckMod \in 0..AckMod - 1
  <2>1. a \in Int  OBVIOUS
  <2>2. QED  BY <1>0, <2>1, QuotientRemainder, ZenonT(30)
<1>2. PICK r \in Int : h = AckMod * r + (h % AckMod) /\ h % AckMod \in 0..AckMod - 1
  <2>1. h \in Int  OBVIOUS
  <2>2. QED  BY <1>0, <2>1, QuotientRemainder, ZenonT(30)
<1>3. PICK s \in Int :
        (a % AckMod) - (h % AckMod) = AckMod * s + d /\ d \in 0..AckMod - 1
  <2>1. (a % AckMod) - (h % AckMod) \in Int
    <3>1. a % AckMod \in Int /\ h % AckMod \in Int  BY <1>0, <1>1, <1>2, SMTT(30)
    <3>2. QED  BY <3>1, SMTT(30)
  <2>2. QED  BY <1>0, <2>1, QuotientRemainder, ZenonT(30)
<1> HIDE DEF d
<1>4. d - (a - h) = AckMod * (r - q - s)
  <2>1. AckMod * (r - q - s) = AckMod * r - AckMod * q - AckMod * s  BY <1>0, Z3
  <2>2. QED  BY <1>0, <1>1, <1>2, <1>3, <2>1, SMTT(30)
<1>5. r - q - s = 0 \/ r - q - s = 1
  BY <1>0, <1>3, <1>4, MultipleBelow, SMTT(30)
<1>6. d = a - h \/ d = a - h + AckMod  BY <1>0, <1>3, <1>4, <1>5, SMTT(30)
<1>7. AckMod \div 2 > 0 /\ 2 * (AckMod \div 2) <= AckMod /\ AckMod \div 2 \in Int
  BY <1>0, SMTT(30)
<1>8. (IF d >= AckMod \div 2 THEN d - AckMod ELSE d) = a - h
  BY <1>0, <1>3, <1>6, <1>7, SMTT(30)
<1>9. QED  BY <1>8, Zenon DEF SignedDiff, d

\* The last n elements of a sequence.
LEMMA EndOfSeq ==
    ASSUME NEW S, NEW s \in Seq(S), NEW n \in Nat, 1 <= n, n <= Len(s)
    PROVE  LET e == SubSeq(s, Len(s) - n + 1, Len(s))
           IN  e \in Seq(S) /\ Len(e) = n /\ \A k \in 1..n : e[k] = s[Len(s) - n + k]
<1> DEFINE L == Len(s)
           e == SubSeq(s, L - n + 1, L)
<1>1. L \in Nat  BY SeqLength, Zenon
<1>2. /\ L - n + 1 \in Int /\ L \in Int
      /\ \A i \in L - n + 1..L : s[i] \in S
  BY <1>1, SMTT(30)
<1>3. /\ e \in Seq(S)
      /\ Len(e) = IF L - n + 1 <= L THEN L - (L - n + 1) + 1 ELSE 0
      /\ \A i \in 1..L - (L - n + 1) + 1 : e[i] = s[L - n + 1 + i - 1]
  <2> HIDE DEF L
  <2>1. QED  BY <1>2, SeqPart
<1> HIDE DEF L, e
<1>4. /\ L - (L - n + 1) + 1 = n /\ L - n + 1 <= L
      /\ \A k \in 1..n : L - n + 1 + k - 1 = L - n + k
  BY <1>1, SMTT(30)
<1>5. e \in Seq(S) /\ Len(e) = n /\ \A k \in 1..n : e[k] = s[L - n + k]
  BY <1>3, <1>4, ZenonT(30)
<1>6. QED  BY <1>5, Zenon DEF e, L

-----------------------------------------------------------------------------
(* Arithmetic of positions, stated without the sequences they are positions  *)
(* of.                                                                       *)

\* An element of a message that ends within len reports is one of them.
LEMMA WithinReports ==
    ASSUME NEW b \in Nat, NEW l \in Nat, NEW len \in Nat, NEW k \in 1..l, b + l <= len
    PROVE  b + k \in 1..len
  BY SMT

LEMMA BoundGrows ==
    ASSUME NEW b \in Nat, NEW l \in Nat, NEW len \in Nat, NEW more \in Nat,
           b + l <= len, more >= len
    PROVE  b + l <= more
  BY SMT

LEMMA LeqThrough ==
    ASSUME NEW x \in Nat, NEW y \in Nat, NEW z \in Nat, x <= y, y <= z
    PROVE  x <= z
  BY SMT

-----------------------------------------------------------------------------
(* The invariant *)

LEMMA ButtonsInitInv == ButtonsInit => ButtonsInv
  BY ButtonsAssumption, SMTT(30)
     DEF ButtonsInit, ButtonsInv, ButtonsTypes, McuHolds, HostHas, MessagesTrue, AcksTrue,
         Report

\* buttons_event: a report is added behind all others.
LEMMA EventKeeps ==
    ASSUME ButtonsInv, NEW status \in SUBSET Pins, ButtonsEvent(status)
    PROVE  ButtonsInv'
<1> DEFINE changed == Debounce(status)
           report == changed # pressed /\ Len(reports) < QueueSize
<1>1. /\ pressed' = changed /\ last_pressed' = status
      /\ reports' = IF report THEN Append(reports, changed) ELSE reports
      /\ reported' = IF report THEN Append(reported, changed) ELSE reported
      /\ UNCHANGED <<ack_count, states, acks, host_count, base, delivered>>
  BY ZenonT(30) DEF ButtonsEvent, hostvars
<1>2. changed \in Report
  BY Zenon DEF Debounce, SymDiff, Report, ButtonsInv, ButtonsTypes
<1>3. report => Len(reports) < QueueSize  BY Zenon
<1>4. status \in Report  BY Zenon DEF Report
<1> HIDE DEF changed, report
<1>5. ButtonsTypes'
  BY <1>1, <1>2, <1>4, SMTT(30) DEF ButtonsInv, ButtonsTypes
<1>6. /\ Len(reported') >= Len(reported)
      /\ \A k \in 1..Len(reported) : reported'[k] = reported[k]
  BY <1>1, <1>2, SMTT(30) DEF ButtonsInv, ButtonsTypes
<1>7. McuHolds'
  <2>1. CASE report
    <3>1. /\ Len(reports') = Len(reports) + 1 /\ Len(reported') = Len(reported) + 1
          /\ \A k \in 1..Len(reports) : reports'[k] = reports[k]
          /\ reports'[Len(reports) + 1] = changed
          /\ reported'[Len(reported) + 1] = changed
      BY <1>1, <1>2, <2>1, SMTT(30) DEF ButtonsInv, ButtonsTypes
    <3>2. \A k \in 1..Len(reports') : reports'[k] = reported'[base + k]
      <4> TAKE k \in 1..Len(reports')
      <4>1. CASE k = Len(reports) + 1
        <5>1. base + k = Len(reported) + 1
          BY <4>1, SMTT(30) DEF ButtonsInv, ButtonsTypes, McuHolds
        <5>2. QED  BY <3>1, <4>1, <5>1, Zenon
      <4>2. CASE k # Len(reports) + 1
        <5>1. k \in 1..Len(reports) /\ base + k \in 1..Len(reported)
          BY <3>1, <4>2, SMTT(30) DEF ButtonsInv, ButtonsTypes, McuHolds
        <5>2. QED  BY <1>6, <3>1, <5>1, ZenonT(30) DEF ButtonsInv, McuHolds
      <4>3. QED  BY <4>1, <4>2, Zenon
    <3>3. QED
      BY <1>1, <1>3, <2>1, <3>1, <3>2, ButtonsAssumption, SMTT(30)
         DEF ButtonsInv, ButtonsTypes, McuHolds
  <2>2. CASE ~report
    BY <1>1, <2>2, Zenon DEF ButtonsInv, McuHolds
  <2>3. QED  BY <2>1, <2>2, Zenon
<1>8. HostHas'
  BY <1>1, <1>6, SMTT(30) DEF ButtonsInv, ButtonsTypes, HostHas
<1>9. MessagesTrue'
  <2>1. ASSUME NEW i \in 1..Len(states)
        PROVE  MessageTrue(states[i], base, host_count, reported')
    <3>1. states[i] \in Message /\ MessageTrue(states[i], base, host_count, reported)
      BY <2>1, SMTT(30) DEF ButtonsInv, ButtonsTypes, MessagesTrue
    <3>0. /\ states[i].base \in Nat /\ Len(states[i].state) \in Nat
          /\ Len(reported) \in Nat /\ Len(reported') \in Nat
      BY <1>5, <3>1, SeqLength, Zenon DEF Message, ButtonsInv, ButtonsTypes
    <3>2. ASSUME NEW k \in 1..Len(states[i].state)
          PROVE  states[i].state[k] = reported'[states[i].base + k]
      <4>1. states[i].base + k \in 1..Len(reported)
        BY <3>0, <3>1, WithinReports, Zenon DEF MessageTrue
      <4>2. states[i].state[k] = reported[states[i].base + k]
        BY <3>1, ZenonT(30) DEF MessageTrue
      <4>3. QED  BY <1>6, <4>1, <4>2, ZenonT(30)
    <3>3. states[i].base + Len(states[i].state) <= Len(reported')
      BY <1>6, <3>0, <3>1, BoundGrows, ZenonT(30) DEF MessageTrue
    <3>4. QED  BY <3>1, <3>2, <3>3, ZenonT(30) DEF MessageTrue
  <2>2. QED  BY <1>1, <2>1, ZenonT(30) DEF ButtonsInv, MessagesTrue
<1>10. AcksTrue'  BY <1>1, Zenon DEF ButtonsInv, AcksTrue
<1>11. QED  BY <1>5, <1>7, <1>8, <1>9, <1>10, Zenon DEF ButtonsInv

\* What the invariant says of the counts and the lengths
LEMMA ButtonsCounts ==
    ASSUME ButtonsInv
    PROVE  /\ base \in Nat /\ host_count \in Nat /\ Len(reports) \in Nat
           /\ Len(reported) \in Nat /\ reports \in Seq(Report) /\ QueueSize \in Nat
           /\ Len(reports) = Len(reported) - base /\ Len(reports) <= QueueSize
           /\ base <= host_count /\ host_count <= Len(reported)
BY SeqLength, ButtonsAssumption, Zenon DEF ButtonsInv, ButtonsTypes, McuHolds, HostHas

\* buttons_task: a message holds the whole queue.
LEMMA TaskKeeps ==
    ASSUME ButtonsInv, ButtonsTask
    PROVE  ButtonsInv'
<1> DEFINE m == [ack_count |-> ack_count, state |-> reports, base |-> base]
<1>1. /\ \/ states' = states
         \/ states' = Append(states, m) /\ reports # <<>>
      /\ UNCHANGED <<pressed, last_pressed, reports, ack_count, acks, host_count,
                     reported, base, delivered>>
  BY ZenonT(30) DEF ButtonsTask, hostvars, btnhistory
<1>2. m \in Message /\ m.base = base /\ m.state = reports /\ m.ack_count = ack_count
  <2>1. base \in Nat /\ reports \in Seq(Report) /\ ack_count = base % AckMod
    BY Zenon DEF ButtonsInv, ButtonsTypes, McuHolds
  <2>2. ack_count \in Nat  BY <2>1, ButtonsAssumption, SMTT(30)
  <2>3. QED  BY <2>1, <2>2, Zenon DEF Message
<1> HIDE DEF m
<1>3. McuHolds' /\ HostHas' /\ AcksTrue'
  BY <1>1, Zenon DEF ButtonsInv, McuHolds, HostHas, AcksTrue
<1>4. ButtonsTypes'
  <2>1. states' \in Seq(Message)
    <3>1. states \in Seq(Message)  BY Zenon DEF ButtonsInv, ButtonsTypes
    <3>2. Append(states, m) \in Seq(Message)  BY <1>2, <3>1, SeqAppend, Zenon
    <3>3. QED  BY <1>1, <3>1, <3>2, Zenon
  <2>2. QED  BY <1>1, <2>1, ZenonT(30) DEF ButtonsInv, ButtonsTypes
<1>5. MessagesTrue'
  <2>1. CASE states' = states  BY <1>1, <2>1, ZenonT(30) DEF ButtonsInv, MessagesTrue
  <2>2. CASE states' = Append(states, m) /\ reports # <<>>
    <3>1. /\ Len(states') = Len(states) + 1 /\ states'[Len(states) + 1] = m
          /\ \A i \in 1..Len(states) : states'[i] = states[i]
          /\ \A i \in 1..Len(states') : i \in 1..Len(states) \/ i = Len(states) + 1
      BY <1>2, <2>2, SMTT(30) DEF ButtonsInv, ButtonsTypes
    <3>2. 1 <= Len(reports) /\ host_count <= base + QueueSize
      <4>1. Len(reports) # 0
        <5>1. reports \in Seq(Report)  BY ButtonsCounts, Zenon
        <5>2. QED  BY <2>2, <5>1, SMTT(30)
      <4> DEFINE held == Len(reports)
                 all == Len(reported)
      <4>2. /\ base \in Nat /\ host_count \in Nat /\ held \in Nat /\ all \in Nat
            /\ QueueSize \in Nat /\ held = all - base /\ held <= QueueSize
            /\ host_count <= all /\ held # 0
        BY <4>1, ButtonsCounts, Zenon
      <4> HIDE DEF held, all
      <4>3. 1 <= held /\ host_count <= base + QueueSize  BY <4>2, SMTT(30)
      <4>4. QED  BY <4>3, Zenon DEF held
    <3>3. MessageTrue(m, base, host_count, reported)
      <4>1. base <= base /\ base + Len(reports) <= Len(reported)  BY ButtonsCounts, SMTT(30)
      <4>2. QED  BY <1>2, <3>2, <4>1, ZenonT(30) DEF ButtonsInv, McuHolds, MessageTrue
    <3>4. \A i \in 1..Len(states') : MessageTrue(states'[i], base', host_count', reported')
      BY <1>1, <3>1, <3>3, ZenonT(30) DEF ButtonsInv, MessagesTrue
    <3>5. \A i, j \in 1..Len(states') : i < j => states'[i].base <= states'[j].base
      <4> TAKE i, j \in 1..Len(states')
      <4> HAVE i < j
      <4>1. i \in 1..Len(states) /\ (j \in 1..Len(states) \/ j = Len(states) + 1)
        BY <3>1, SMTT(30) DEF ButtonsInv, ButtonsTypes
      <4>2. states'[i] = states[i] /\ states[i].base <= base
        BY <3>1, <4>1, ZenonT(30) DEF ButtonsInv, MessagesTrue, MessageTrue
      <4>3. CASE j \in 1..Len(states)
        BY <3>1, <4>1, <4>3, ZenonT(30) DEF ButtonsInv, MessagesTrue
      <4>4. CASE j = Len(states) + 1  BY <1>2, <3>1, <4>2, <4>4, ZenonT(30)
      <4>5. QED  BY <4>1, <4>3, <4>4, Zenon
    <3>6. QED  BY <3>4, <3>5, ZenonT(30) DEF MessagesTrue
  <2>3. QED  BY <1>1, <2>1, <2>2, Zenon
<1>6. QED  BY <1>3, <1>4, <1>5, Zenon DEF ButtonsInv

\* The head of the wire leaves it.
LEMMA WirePops ==
    ASSUME ButtonsInv, states # <<>>, states' = Tail(states),
           NEW count \in Nat,
           \A i \in 2..Len(states) : count <= states[i].base + QueueSize
    PROVE  /\ states' \in Seq(Message)
           /\ \A i \in 1..Len(states') : MessageTrue(states'[i], base, count, reported)
           /\ \A i, j \in 1..Len(states') : i < j => states'[i].base <= states'[j].base
<1>1. /\ states' \in Seq(Message) /\ Len(states') = Len(states) - 1
      /\ \A i \in 1..Len(states') : states'[i] = states[i + 1]
  BY SMTT(30) DEF ButtonsInv, ButtonsTypes
<1>2. \A i \in 1..Len(states') : i + 1 \in 1..Len(states) /\ i + 1 \in 2..Len(states)
  BY <1>1, SMTT(30) DEF ButtonsInv, ButtonsTypes
<1>3. ASSUME NEW i \in 1..Len(states')
      PROVE  MessageTrue(states'[i], base, count, reported)
  <2>1. PICK m : m = states[i + 1]  BY Zenon
  <2>2. MessageTrue(m, base, host_count, reported) /\ count <= m.base + QueueSize
    BY <1>2, <2>1, ZenonT(30) DEF ButtonsInv, MessagesTrue
  <2>3. MessageTrue(m, base, count, reported)  BY <2>2, Zenon DEF MessageTrue
  <2>4. QED  BY <1>1, <2>1, <2>3, ZenonT(30)
<1>4. ASSUME NEW i \in 1..Len(states'), NEW j \in 1..Len(states'), i < j
      PROVE  states'[i].base <= states'[j].base
  <2>1. i + 1 < j + 1  BY <1>1, <1>4, SMTT(30)
  <2>2. QED  BY <1>1, <1>2, <2>1, ZenonT(30) DEF ButtonsInv, MessagesTrue
<1>5. QED  BY <1>1, <1>3, <1>4, Zenon

\* A message lost is as if it had never been sent.
LEMMA LoseKeeps ==
    ASSUME ButtonsInv, LoseState
    PROVE  ButtonsInv'
<1>1. /\ states # <<>> /\ states' = Tail(states)
      /\ UNCHANGED <<pressed, last_pressed, reports, ack_count, acks, host_count, reported,
                     base, delivered>>
  BY Zenon DEF LoseState, mcuvars, hostvars, btnhistory
<1>2. /\ states' \in Seq(Message)
      /\ \A i \in 1..Len(states') : MessageTrue(states'[i], base, host_count, reported)
      /\ \A i, j \in 1..Len(states') : i < j => states'[i].base <= states'[j].base
  <2>1. \A i \in 2..Len(states) : i \in 1..Len(states)
    BY SMTT(30) DEF ButtonsInv, ButtonsTypes
  <2>2. \A i \in 2..Len(states) : host_count <= states[i].base + QueueSize
    BY <2>1, ZenonT(30) DEF ButtonsInv, MessagesTrue, MessageTrue
  <2>3. host_count \in Nat  BY Zenon DEF ButtonsInv, ButtonsTypes
  <2>4. QED  BY <1>1, <2>2, <2>3, WirePops, Zenon
<1>3. ButtonsTypes'  BY <1>1, <1>2, ZenonT(30) DEF ButtonsInv, ButtonsTypes
<1>4. MessagesTrue'  BY <1>1, <1>2, ZenonT(30) DEF MessagesTrue
<1>5. McuHolds' /\ HostHas' /\ AcksTrue'
  BY <1>1, Zenon DEF ButtonsInv, McuHolds, HostHas, AcksTrue
<1>6. QED  BY <1>3, <1>4, <1>5, Zenon DEF ButtonsInv

\* command_buttons_ack: the reports acknowledged leave the queue.
LEMMA AckKeeps ==
    ASSUME ButtonsInv, ButtonsAck
    PROVE  ButtonsInv'
<1> DEFINE count == Head(acks).count
<1>1. /\ acks # <<>> /\ acks' = Tail(acks)
      /\ ack_count' = (ack_count + count) % AckMod
      /\ base' = base + count
      /\ reports' = IF count >= Len(reports) THEN <<>>
                    ELSE SubSeq(reports, count + 1, Len(reports))
      /\ UNCHANGED <<pressed, last_pressed, states, host_count, reported, delivered>>
  BY ZenonT(30) DEF ButtonsAck, hostvars
<1>2. /\ Head(acks) = acks[1] /\ acks[1] \in Ack /\ 1 \in 1..Len(acks)
      /\ acks' \in Seq(Ack) /\ Len(acks') = Len(acks) - 1 /\ Len(acks) \in Nat
      /\ \A i \in 1..Len(acks') : acks'[i] = acks[i + 1]
  BY <1>1, SMTT(30) DEF ButtonsInv, ButtonsTypes
<1>3. /\ count \in Nat /\ acks[1].upto = base + count /\ base + count <= host_count
      /\ count = acks[1].count
  BY <1>1, <1>2, ZenonT(30) DEF ButtonsInv, AcksTrue, Ack
<1> HIDE DEF count
<1>0. /\ base \in Nat /\ host_count \in Nat /\ Len(reports) \in Nat
      /\ Len(reported) \in Nat /\ reports \in Seq(Report) /\ QueueSize \in Nat
      /\ Len(reports) = Len(reported) - base /\ Len(reports) <= QueueSize
      /\ host_count <= Len(reported)
  BY ButtonsCounts, Zenon
<1>4. /\ base' \in Nat /\ base' <= host_count /\ base <= base'
      /\ count <= Len(reports) /\ Len(reports) = Len(reported) - base
  <2> DEFINE r == Len(reports)
             all == Len(reported)
  <2>1. /\ base \in Nat /\ host_count \in Nat /\ r \in Nat /\ all \in Nat /\ r = all - base
        /\ host_count <= all /\ count \in Nat /\ base + count <= host_count
    BY <1>0, <1>3, Zenon
  <2> HIDE DEF r, all
  <2>2. base + count \in Nat /\ base <= base + count /\ count <= r  BY <2>1, SMTT(30)
  <2>3. QED  BY <1>0, <1>1, <1>3, <2>2, ZenonT(30) DEF r
<1>5. /\ reports' \in Seq(Report) /\ Len(reports') = Len(reports) - count
      /\ \A k \in 1..Len(reports') : reports'[k] = reports[count + k]
  <2>1. CASE count = Len(reports)
    <3>1. reports' = <<>>  BY <1>0, <1>1, <2>1, SMTT(30)
    <3>2. QED  BY <1>0, <2>1, <3>1, SMTT(30)
  <2>2. CASE count < Len(reports)
    <3>1. reports' = SubSeq(reports, count + 1, Len(reports))
      <4>1. ~(count >= Len(reports))  BY <1>0, <1>3, <2>2, SMTT(30)
      <4>2. QED  BY <1>1, <4>1, ZenonT(30)
    <3>2. /\ count + 1 \in Int /\ Len(reports) \in Int /\ count + 1 <= Len(reports)
          /\ \A i \in count + 1..Len(reports) : reports[i] \in Report
      <4> DEFINE held == Len(reports)
      <4>1. held \in Nat /\ count \in Nat /\ count < held  BY <1>0, <1>3, <2>2, Zenon
      <4> HIDE DEF held
      <4>2. /\ count + 1 \in Int /\ held \in Int /\ count + 1 <= held
            /\ \A i \in count + 1..held : i \in 1..held
        BY <4>1, SMTT(30)
      <4>3. \A i \in 1..held : reports[i] \in Report  BY <1>0, SeqLength, ZenonT(30) DEF held
      <4>4. QED  BY <4>2, <4>3, Zenon DEF held
    <3>3. /\ reports' \in Seq(Report)
          /\ Len(reports') = Len(reports) - (count + 1) + 1
          /\ \A i \in 1..Len(reports) - (count + 1) + 1 : reports'[i] = reports[count + 1 + i - 1]
      BY <3>1, <3>2, SeqPart
    <3>4. Len(reports) - (count + 1) + 1 = Len(reports) - count  BY <1>0, <1>3, SMTT(30)
    <3>5. \A k \in 1..Len(reports) - count : count + 1 + k - 1 = count + k
      BY <1>0, <1>3, SMTT(30)
    <3>6. QED  BY <3>3, <3>4, <3>5, ZenonT(30)
  <2>3. QED  BY <1>0, <1>3, <1>4, <2>1, <2>2, SMTT(30)
<1>6. ButtonsTypes'
  BY <1>1, <1>2, <1>4, <1>5, ZenonT(30) DEF ButtonsInv, ButtonsTypes
<1>7. McuHolds'
  <2>1. ack_count' = base' % AckMod
    <3>1. 0 < AckMod /\ AckMod \in Nat  BY ButtonsAssumption, SMTT(30)
    <3>2. ack_count = base % AckMod /\ base \in Nat
      BY Zenon DEF ButtonsInv, ButtonsTypes, McuHolds
    <3>3. ((base % AckMod) + count) % AckMod = (base + count) % AckMod
      BY <1>3, <3>1, <3>2, ByteAdd, Zenon
    <3>4. QED  BY <1>1, <3>2, <3>3, Zenon
  <2>2. \A k \in 1..Len(reports') : reports'[k] = reported[base' + k]
    <3> TAKE k \in 1..Len(reports')
    <3>1. count + k \in 1..Len(reports) /\ base + (count + k) = base' + k
      <4>1. base' = base + count /\ Len(reports') = Len(reports) - count /\ k \in 1..Len(reports')
        BY <1>1, <1>5, ZenonT(30)
      <4> DEFINE r == Len(reports)
                 rest == Len(reports')
      <4>2. /\ r \in Nat /\ base \in Nat /\ count \in Nat /\ rest = r - count
            /\ k \in 1..rest /\ base' = base + count
        BY <1>0, <1>3, <4>1, Zenon
      <4> HIDE DEF r, rest
      <4>3. count + k \in 1..r /\ base + (count + k) = base' + k  BY <4>2, SMT
      <4>4. QED  BY <4>3, Zenon DEF r
    <3>2. reports[count + k] = reported[base + (count + k)]
      BY <3>1, ZenonT(30) DEF ButtonsInv, McuHolds
    <3>3. QED  BY <1>5, <3>1, <3>2, Zenon
  <2>3. Len(reports') = Len(reported) - base' /\ Len(reports') <= QueueSize
    <3>1. Len(reports) - count = Len(reported) - (base + count) /\ Len(reports) - count <= QueueSize
      <4> DEFINE r == Len(reports)
                 all == Len(reported)
      <4>1. /\ base \in Nat /\ r \in Nat /\ all \in Nat /\ r = all - base /\ r <= QueueSize
            /\ QueueSize \in Nat /\ count \in Nat
        BY <1>0, <1>3, Zenon
      <4> HIDE DEF r, all
      <4>2. r - count = all - (base + count) /\ r - count <= QueueSize  BY <4>1, SMT
      <4>3. QED  BY <4>2, Zenon DEF r, all
    <3>2. QED  BY <1>1, <1>4, <1>5, <3>1, ZenonT(30)
  <2>4. QED  BY <1>1, <1>4, <2>1, <2>2, <2>3, ZenonT(30) DEF McuHolds
<1>8. HostHas'  BY <1>1, ZenonT(30) DEF ButtonsInv, HostHas
<1>9. MessagesTrue'
  <2>1. ASSUME NEW i \in 1..Len(states)
        PROVE  MessageTrue(states[i], base', host_count, reported)
    <3>1. states[i] \in Message /\ MessageTrue(states[i], base, host_count, reported)
      BY <2>1, SMTT(30) DEF ButtonsInv, ButtonsTypes, MessagesTrue
    <3>2. states[i].base <= base'
      BY <1>0, <1>4, <3>1, LeqThrough, ZenonT(30) DEF MessageTrue, Message
    <3>3. QED  BY <3>1, <3>2, ZenonT(30) DEF MessageTrue
  <2>2. QED  BY <1>1, <2>1, ZenonT(30) DEF ButtonsInv, MessagesTrue
<1>10. AcksTrue'
  <2>1. \A i \in 1..Len(acks') : i + 1 \in 1..Len(acks)  BY <1>2, SMTT(30)
  <2>2. \A i \in 1..Len(acks') : acks'[i].upto <= host_count
    BY <1>2, <2>1, ZenonT(30) DEF ButtonsInv, AcksTrue
  <2>3. ASSUME acks' = <<>> PROVE base' = host_count
    <3>1. Len(acks) = 1  BY <1>2, <2>3, SMTT(30)
    <3>2. QED  BY <1>1, <1>3, <3>1, ZenonT(30) DEF ButtonsInv, AcksTrue
  <2>4. ASSUME acks' # <<>>
        PROVE  acks'[1].upto = base' + acks'[1].count /\ acks'[Len(acks')].upto = host_count
    <3>1. /\ 1 \in 1..Len(acks') /\ Len(acks') \in 1..Len(acks') /\ 1 \in 1..Len(acks) - 1
          /\ Len(acks') + 1 = Len(acks) /\ 1 + 1 = 2
      BY <1>2, <2>4, SMTT(30)
    <3>2. acks[1 + 1].upto = acks[1].upto + acks[1 + 1].count /\ acks[Len(acks)].upto = host_count
      BY <1>1, <3>1, ZenonT(30) DEF ButtonsInv, AcksTrue
    <3>3. acks'[1] = acks[1 + 1] /\ acks'[Len(acks')] = acks[Len(acks') + 1]
      BY <1>2, <3>1, Zenon
    <3>4. QED  BY <1>1, <1>3, <3>1, <3>2, <3>3, Zenon
  <2>5. ASSUME NEW i \in 1..Len(acks') - 1
        PROVE  acks'[i + 1].upto = acks'[i].upto + acks'[i + 1].count
    <3>1. /\ i \in 1..Len(acks') /\ i + 1 \in 1..Len(acks') /\ i + 1 \in 1..Len(acks) - 1
      BY <1>2, SMTT(30)
    <3>2. acks[(i + 1) + 1].upto = acks[i + 1].upto + acks[(i + 1) + 1].count
      BY <3>1, ZenonT(30) DEF ButtonsInv, AcksTrue
    <3>3. QED  BY <1>2, <3>1, <3>2, ZenonT(30)
  <2>6. QED  BY <1>1, <2>2, <2>3, <2>4, <2>5, ZenonT(30) DEF AcksTrue
<1>11. QED  BY <1>6, <1>7, <1>8, <1>9, <1>10, Zenon DEF ButtonsInv

\* handle_buttons_state: the host takes the end of the message that it does not
\* have yet.
LEMMA HandleKeeps ==
    ASSUME ButtonsInv, HandleButtonsState
    PROVE  ButtonsInv'
<1> DEFINE m == Head(states)
           new_count == SignedDiff(m.ack_count, host_count % AckMod) + Len(m.state)
           new == IF new_count < Len(m.state)
                  THEN SubSeq(m.state, Len(m.state) - new_count + 1, Len(m.state)) ELSE m.state
           ack == [count |-> new_count, upto |-> host_count + new_count]
<1>1. /\ states # <<>> /\ states' = Tail(states)
      /\ \/ new_count <= 0 /\ UNCHANGED <<acks, host_count, delivered>>
         \/ /\ ~(new_count <= 0) /\ acks' = Append(acks, ack)
            /\ host_count' = host_count + new_count /\ delivered' = delivered \o new
      /\ UNCHANGED <<pressed, last_pressed, reports, ack_count, reported, base>>
  BY ZenonT(60) DEF HandleButtonsState, mcuvars, hostvars
<1>2. /\ m = states[1] /\ m \in Message /\ 1 \in 1..Len(states)
  <2>1. states \in Seq(Message) /\ states # <<>>  BY <1>1, Zenon DEF ButtonsInv, ButtonsTypes
  <2>2. QED  BY <2>1, SMTT(30)
<1>3. MessageTrue(m, base, host_count, reported)
  BY <1>2, ZenonT(30) DEF ButtonsInv, MessagesTrue
<1>4. /\ m.base \in Nat /\ m.state \in Seq(Report) /\ Len(m.state) \in Nat
      /\ base \in Nat /\ host_count \in Nat /\ Len(reported) \in Nat /\ QueueSize \in Nat
      /\ base <= host_count
  <2>1. m.base \in Nat /\ m.state \in Seq(Report)  BY <1>2, Zenon DEF Message
  <2> HIDE DEF m
  <2>2. Len(m.state) \in Nat  BY <2>1, SeqLength, Zenon
  <2>3. QED
    BY <2>1, <2>2, SeqLength, ButtonsAssumption, Zenon DEF ButtonsInv, ButtonsTypes, McuHolds
<1>5. new_count = m.base - host_count + Len(m.state)
  <2>1. m.base <= host_count /\ host_count <= m.base + QueueSize
    BY <1>3, <1>4, SMTT(30) DEF MessageTrue
  <2>2. SignedDiff(m.base % AckMod, host_count % AckMod) = m.base - host_count
    BY <1>4, <2>1, SignedDiffExact, Zenon
  <2>3. QED  BY <1>3, <2>2, Zenon DEF MessageTrue
<1> HIDE DEF m, new_count
<1>6. /\ m.base <= base /\ m.base <= host_count /\ host_count <= m.base + QueueSize
      /\ 1 <= Len(m.state) /\ Len(m.state) <= QueueSize
      /\ m.base + Len(m.state) <= Len(reported)
  BY <1>3, <1>4, SMTT(30) DEF MessageTrue
<1>7. /\ host_count' \in Nat /\ host_count <= host_count' /\ host_count' <= Len(reported)
      /\ host_count' <= m.base + QueueSize
  <2>1. new_count \in Int /\ host_count <= Len(reported)
    BY <1>4, <1>5, SMTT(30) DEF ButtonsInv, HostHas
  <2>2. CASE new_count <= 0
    BY <1>1, <1>4, <1>6, <2>1, <2>2, SMTT(30)
  <2>3. CASE ~(new_count <= 0)
    <3> DEFINE L == Len(m.state)
               b == m.base
               len == Len(reported)
    <3>1. /\ L \in Nat /\ b \in Nat /\ host_count \in Nat /\ len \in Nat /\ QueueSize \in Nat
          /\ new_count \in Int /\ new_count = b - host_count + L /\ ~(new_count <= 0)
          /\ L <= QueueSize /\ b + L <= len
      BY <1>4, <1>5, <1>6, <2>1, <2>3, Zenon
    <3>2. host_count' = host_count + new_count  BY <1>1, <2>3, Zenon
    <3> HIDE DEF L, b, len
    <3>3. /\ host_count' \in Nat /\ host_count <= host_count' /\ host_count' <= len
          /\ host_count' <= b + QueueSize
      BY <3>1, <3>2, SMTT(30)
    <3>4. QED  BY <3>3, Zenon DEF b, len
  <2>4. QED  BY <2>2, <2>3, Zenon
<1>8. /\ states' \in Seq(Message)
      /\ \A i \in 1..Len(states') : MessageTrue(states'[i], base, host_count', reported)
      /\ \A i, j \in 1..Len(states') : i < j => states'[i].base <= states'[j].base
  <2>1. ASSUME NEW i \in 2..Len(states)
        PROVE  host_count' <= states[i].base + QueueSize
    <3>1. i \in 1..Len(states) /\ 1 < i
      BY SMTT(30) DEF ButtonsInv, ButtonsTypes
    <3>2. m.base <= states[i].base
      BY <1>2, <3>1, ZenonT(30) DEF ButtonsInv, MessagesTrue
    <3>3. states[i].base \in Nat
      <4>1. states[i] \in Message  BY <3>1, SMTT(30) DEF ButtonsInv, ButtonsTypes
      <4>2. QED  BY <4>1, Zenon DEF Message
    <3>4. QED  BY <1>4, <1>7, <3>2, <3>3, SMTT(30)
  <2>2. QED  BY <1>1, <1>7, <2>1, WirePops, Zenon
<1>9. McuHolds'
  <2>1. base <= host_count'  BY <1>4, <1>7, SMTT(30)
  <2>2. QED  BY <1>1, <2>1, ZenonT(30) DEF ButtonsInv, McuHolds
<1>10. MessagesTrue'  BY <1>1, <1>8, ZenonT(30) DEF MessagesTrue
<1>11. CASE new_count <= 0
  <2>1. UNCHANGED <<acks, host_count, delivered>>  BY <1>1, <1>11, Zenon
  <2>2. ButtonsTypes' /\ HostHas' /\ AcksTrue'
    BY <1>1, <1>8, <2>1, ZenonT(30) DEF ButtonsInv, ButtonsTypes, HostHas, AcksTrue
  <2>3. QED  BY <1>9, <1>10, <2>2, Zenon DEF ButtonsInv
<1>12. CASE ~(new_count <= 0)
  <2>1. /\ acks' = Append(acks, ack) /\ host_count' = host_count + new_count
        /\ delivered' = delivered \o new
    BY <1>1, <1>12, Zenon
  <2>2. new_count \in Nat /\ 1 <= new_count /\ new_count <= Len(m.state)
    BY <1>4, <1>5, <1>6, <1>12, SMTT(30)
  <2>3. /\ new \in Seq(Report) /\ Len(new) = new_count
        /\ \A k \in 1..new_count : new[k] = reported[host_count + k]
    <3> DEFINE L == Len(m.state)
    <3>1. CASE new_count = L
      <4>1. new = m.state  BY <1>4, <3>1, SMTT(30)
      <4>2. m.base = host_count  BY <1>4, <1>5, <1>6, <3>1, SMTT(30)
      <4>3. QED  BY <1>3, <1>4, <3>1, <4>1, <4>2, ZenonT(30) DEF MessageTrue
    <3>2. CASE new_count < L
      <4>1. new = SubSeq(m.state, L - new_count + 1, L)  BY <3>2, Zenon
      <4>2. m.state \in Seq(Report) /\ new_count \in Nat /\ 1 <= new_count /\ new_count <= Len(m.state)
        BY <1>4, <2>2, Zenon
      <4>3. /\ new \in Seq(Report) /\ Len(new) = new_count
            /\ \A k \in 1..new_count : new[k] = m.state[L - new_count + k]
        <5> HIDE DEF new
        <5>1. QED  BY <4>1, <4>2, EndOfSeq, ZenonT(30)
      <4>4. ASSUME NEW k \in 1..new_count PROVE new[k] = reported[host_count + k]
        <5>1. /\ L - new_count + k \in 1..L
              /\ m.base + (L - new_count + k) = host_count + k
          <6> DEFINE b == m.base
          <6> HIDE DEF new, ack
          <6>1. /\ L \in Nat /\ b \in Nat /\ host_count \in Nat /\ new_count \in Nat
                /\ new_count = b - host_count + L /\ new_count <= L /\ k \in 1..new_count
            BY <1>4, <1>5, <2>2, Zenon
          <6> HIDE DEF L, b
          <6>2. L - new_count + k \in 1..L /\ b + (L - new_count + k) = host_count + k
            BY <6>1, SMT
          <6>3. QED  BY <6>2, Zenon DEF b
        <5>2. QED  BY <1>3, <4>3, <5>1, ZenonT(30) DEF MessageTrue
      <4>5. QED  BY <4>3, <4>4, Zenon
    <3>3. new_count = L \/ new_count < L
      <4> HIDE DEF L, new, ack
      <4>1. L \in Nat /\ new_count \in Nat /\ new_count <= L  BY <1>4, <2>2, Zenon DEF L
      <4>2. QED  BY <4>1, SMT
    <3>4. QED  BY <3>1, <3>2, <3>3, ZenonT(30)
  <2> HIDE DEF new
  <2>4. delivered' \in Seq(Report) /\ HostHas'
    <3>1. /\ delivered \in Seq(Report) /\ Len(delivered) = host_count
          /\ \A k \in 1..host_count : delivered[k] = reported[k]
      BY Zenon DEF ButtonsInv, ButtonsTypes, HostHas
    <3>2. /\ delivered' \in Seq(Report) /\ Len(delivered') = host_count + new_count
          /\ \A k \in 1..host_count + new_count :
                delivered'[k] = IF k <= host_count THEN delivered[k] ELSE new[k - host_count]
      <4>1. /\ delivered \o new \in Seq(Report)
            /\ Len(delivered \o new) = Len(delivered) + Len(new)
            /\ \A k \in 1..Len(delivered) + Len(new) : (delivered \o new)[k] =
                  IF k <= Len(delivered) THEN delivered[k] ELSE new[k - Len(delivered)]
        <5>1. delivered \in Seq(Report) /\ new \in Seq(Report)  BY <2>3, <3>1, Zenon
        <5>2. QED  BY <5>1, SeqConcat, ZenonT(30)
      <4>2. QED  BY <2>1, <2>3, <3>1, <4>1, ZenonT(30)
    <3>3. ASSUME NEW k \in 1..host_count' PROVE delivered'[k] = reported[k]
      <4>1. k \in 1..host_count + new_count  BY <2>1, Zenon
      <4>2. CASE k <= host_count
        <5>1. k \in 1..host_count  BY <1>4, <4>1, <4>2, SMTT(30)
        <5>2. QED  BY <3>1, <3>2, <4>1, <4>2, <5>1, ZenonT(30)
      <4>3. CASE ~(k <= host_count)
        <5>1. k - host_count \in 1..new_count /\ host_count + (k - host_count) = k
          BY <1>4, <2>2, <4>1, <4>3, SMTT(30)
        <5>2. QED  BY <2>3, <3>2, <4>1, <4>3, <5>1, ZenonT(30)
      <4>4. QED  BY <4>2, <4>3, Zenon
    <3>4. QED  BY <1>1, <1>7, <2>1, <3>2, <3>3, ZenonT(30) DEF HostHas
  <2>5. acks' \in Seq(Ack) /\ AcksTrue'
    <3> DEFINE n == Len(acks)
    <3>1. ack \in Ack /\ ack.count = new_count /\ ack.upto = host_count'
      BY <1>4, <2>1, <2>2, SMTT(30) DEF Ack
    <3> HIDE DEF ack
    <3>2. acks \in Seq(Ack) /\ n \in Nat  BY SeqLength, ZenonT(30) DEF ButtonsInv, ButtonsTypes
    <3>3. /\ acks' \in Seq(Ack) /\ acks' # <<>> /\ Len(acks') = n + 1
          /\ \A i \in 1..n : acks'[i] = acks[i]
          /\ acks'[n + 1] = ack
      BY <2>1, <3>1, <3>2, SeqAppend
    <3>4. \A i \in 1..n : acks[i] \in Ack  BY <3>2, SMTT(30)
    <3>5. ASSUME NEW i \in 1..Len(acks') PROVE acks'[i].upto <= host_count'
      <4>1. CASE i \in 1..n
        <5>1. acks[i].upto <= host_count /\ acks[i].upto \in Nat
          BY <3>4, <4>1, Zenon DEF ButtonsInv, AcksTrue, Ack
        <5>2. QED  BY <1>4, <1>7, <3>3, <4>1, <5>1, SMTT(30)
      <4>2. CASE i = n + 1  BY <1>7, <3>1, <3>3, <4>2, SMTT(30)
      <4>3. QED  BY <3>2, <3>3, <4>1, <4>2, SMTT(30)
    <3>6. acks'[1].upto = base + acks'[1].count
      <4>1. CASE acks = <<>>
        <5>1. n = 0 /\ base = host_count /\ n + 1 = 1
          BY <4>1, SMTT(30) DEF ButtonsInv, AcksTrue
        <5>2. QED  BY <2>1, <3>1, <3>3, <5>1, ZenonT(30)
      <4>2. CASE acks # <<>>
        <5>1. 1 \in 1..n  BY <3>2, <4>2, SMTT(30)
        <5>2. QED  BY <3>3, <4>2, <5>1, ZenonT(30) DEF ButtonsInv, AcksTrue
      <4>3. QED  BY <4>1, <4>2, Zenon
    <3>7. acks'[Len(acks')].upto = host_count'  BY <3>1, <3>3, ZenonT(30)
    <3>8. ASSUME NEW i \in 1..Len(acks') - 1
          PROVE  acks'[i + 1].upto = acks'[i].upto + acks'[i + 1].count
      <4>1. i \in 1..n  BY <3>2, <3>3, SMTT(30)
      <4>2. CASE i = n
        <5>1. acks # <<>>  BY <3>2, <4>1, <4>2, SMTT(30)
        <5>2. acks[n].upto = host_count  BY <5>1, Zenon DEF ButtonsInv, AcksTrue
        <5>3. QED  BY <2>1, <3>1, <3>3, <4>1, <4>2, <5>2, ZenonT(30)
      <4>3. CASE i # n
        <5>1. i \in 1..n - 1 /\ i + 1 \in 1..n  BY <3>2, <4>1, <4>3, SMTT(30)
        <5>2. QED  BY <3>3, <4>1, <5>1, ZenonT(30) DEF ButtonsInv, AcksTrue
      <4>4. QED  BY <4>2, <4>3, Zenon
    <3>9. QED  BY <1>1, <3>3, <3>5, <3>6, <3>7, <3>8, ZenonT(30) DEF AcksTrue
  <2>6. ButtonsTypes'
    BY <1>1, <1>7, <1>8, <2>4, <2>5, ZenonT(30) DEF ButtonsInv, ButtonsTypes
  <2>7. QED  BY <1>9, <1>10, <2>4, <2>5, <2>6, ZenonT(30) DEF ButtonsInv
<1>13. QED  BY <1>11, <1>12, Zenon

LEMMA ButtonsNextInv == ButtonsInv /\ [ButtonsNext]_btnvars => ButtonsInv'
<1> SUFFICES ASSUME ButtonsInv, [ButtonsNext]_btnvars PROVE ButtonsInv'  BY Zenon
<1>1. CASE \E status \in SUBSET Pins : ButtonsEvent(status)  BY <1>1, EventKeeps, ZenonT(30)
<1>2. CASE ButtonsTask  BY <1>2, TaskKeeps, Zenon
<1>3. CASE ButtonsAck  BY <1>3, AckKeeps, Zenon
<1>4. CASE HandleButtonsState  BY <1>4, HandleKeeps, Zenon
<1>5. CASE LoseState  BY <1>5, LoseKeeps, Zenon
<1>6. CASE UNCHANGED btnvars
  BY <1>6, ZenonT(60) DEF btnvars, mcuvars, hostvars, btnhistory, ButtonsInv, ButtonsTypes,
                         McuHolds, HostHas, MessagesTrue, AcksTrue
<1>7. QED  BY <1>1, <1>2, <1>3, <1>4, <1>5, <1>6, Zenon DEF ButtonsNext

\* command_buttons_ack, handle_buttons_state: every report is taken once and in order,
\* with any queue and with bytes of any range above twice the queue's size.
THEOREM AlwaysDeliveredInOrder == ButtonsSpec => []DeliveredInOrder
<1>1. ButtonsInv => DeliveredInOrder
  <2> SUFFICES ASSUME ButtonsInv PROVE DeliveredInOrder  BY Zenon
  <2>1. /\ base \in Nat /\ host_count \in Nat /\ Len(reported) \in Nat
        /\ reported \in Seq(Report) /\ delivered \in Seq(Report) /\ reports \in Seq(Report)
        /\ base <= host_count /\ host_count <= Len(reported)
        /\ Len(reports) = Len(reported) - base /\ Len(delivered) = host_count
    BY SeqLength, Zenon DEF ButtonsInv, ButtonsTypes, McuHolds, HostHas
  <2>2. delivered = SubSeq(reported, 1, host_count)
    <3> DEFINE s == SubSeq(reported, 1, host_count)
    <3>1. /\ 1 \in Int /\ host_count \in Int
          /\ \A i \in 1..host_count : reported[i] \in Report
          /\ (IF 1 <= host_count THEN host_count - 1 + 1 ELSE 0) = host_count
          /\ \A i \in 1..host_count : i \in 1..host_count - 1 + 1 /\ 1 + i - 1 = i
      BY <2>1, SMTT(30)
    <3>2. /\ s \in Seq(Report) /\ Len(s) = host_count
          /\ \A i \in 1..host_count : s[i] = reported[i]
      BY <3>1, SeqPart
    <3> HIDE DEF s
    <3>3. \A i \in 1..Len(delivered) : delivered[i] = s[i]
      BY <2>1, <3>2, ZenonT(30) DEF ButtonsInv, HostHas
    <3>4. delivered = s  BY <2>1, <3>2, <3>3, SeqSame, Zenon
    <3>5. QED  BY <3>4, Zenon DEF s
  <2>3. reports = SubSeq(reported, base + 1, Len(reported))
    <3> DEFINE L == Len(reported)
               s == SubSeq(reported, base + 1, L)
    <3>1. /\ base + 1 \in Int /\ L \in Int
          /\ \A i \in base + 1..L : reported[i] \in Report
          /\ (IF base + 1 <= L THEN L - (base + 1) + 1 ELSE 0) = L - base
          /\ \A i \in 1..L - base : i \in 1..L - (base + 1) + 1 /\ base + 1 + i - 1 = base + i
      BY <2>1, SMTT(30)
    <3>2. /\ s \in Seq(Report) /\ Len(s) = L - base
          /\ \A i \in 1..L - base : s[i] = reported[base + i]
      BY SMTT(30), <3>1, SeqPart
    <3> HIDE DEF s
    <3>3. \A i \in 1..Len(reports) : reports[i] = s[i]
      BY <2>1, <3>2, ZenonT(30) DEF ButtonsInv, McuHolds
    <3>4. reports = s  BY <2>1, <3>2, <3>3, SeqSame, Zenon
    <3>5. QED  BY <3>4, Zenon DEF s
  <2>4. QED  BY <2>1, <2>2, <2>3, Zenon DEF DeliveredInOrder
<1>2. QED  BY <1>1, ButtonsInitInv, ButtonsNextInv, PTL DEF ButtonsSpec
=============================================================================
