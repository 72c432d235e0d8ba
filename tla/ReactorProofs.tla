---------------------------- MODULE ReactorProofs ----------------------------
(***************************************************************************)
(* Proofs about Reactor, for any finite set of callbacks and any time:     *)
(* no timer is overlooked, the mutex is held by one and handed over, and   *)
(* who waits is woken.                                                     *)
(***************************************************************************)
EXTENDS Reactor, TLAPS, FiniteSetTheorems

LoopTypes ==
    /\ now \in Nat /\ now <= MaxTime /\ eventtime \in Nat /\ eventtime <= now
    /\ at \in {"top", "scan", "select", "drain"}
    /\ timers \subseteq Timer /\ todo \subseteq timers
    /\ next_timer \in Time /\ waketime \in [Timer -> Time]
    /\ running \in Callback \cup {None}
    /\ act \in [Callback -> {"none", "direct", "detached"}]

\* A greenlet has a timer just when it paused.  A callback that runs or has
\* paused is not due again, and nor is the greenlet that runs.
TimersTrue ==
    /\ \A c \in Callback : Gr(c) \in timers <=> act[c] = "detached"
    /\ \A c \in Callback : act[c] # "none" => waketime[Cb(c)] = NEVER
    /\ running # None => at = "scan" /\ act[running] # "none" /\ Gr(running) \notin todo

TimerInv == LoopTypes /\ TimersTrue /\ NextTimerSound

-----------------------------------------------------------------------------
(* Times and timers *)

LEMMA TimeFacts ==
    /\ NOW \in Time /\ NEVER \in Time
    /\ \A w \in Time : w \in Nat /\ NOW <= w /\ w <= NEVER
    /\ \A v, w \in Time : Min2(v, w) \in Time /\ Min2(v, w) <= v /\ Min2(v, w) <= w
    /\ \A u, v, w \in Time : u <= v /\ v <= w => u <= w
    /\ \A v, w \in Time : ~(v < w) => w <= v
    /\ \A e \in Nat : e <= MaxTime => ~(e >= NEVER)
  BY ReactorAssumption, SMTT(30) DEF Time, NOW, NEVER, Min2

LEMMA TimerFacts ==
    /\ \A c \in Callback : Gr(c) \in Timer /\ Cb(c) \in Timer
    /\ \A c, d \in Callback : Gr(c) # Cb(d)
    /\ \A c, d \in Callback : Gr(c) = Gr(d) => c = d
    /\ \A c, d \in Callback : Cb(c) = Cb(d) => c = d
    /\ \A c \in Callback : Gr(c)[1] # "callback" /\ Gr(c)[2] = c
    /\ \A c \in Callback : Cb(c)[1] = "callback" /\ Cb(c)[2] = c
    /\ \A t \in Timer : \E c \in Callback : t = Gr(c) \/ t = Cb(c)
  BY Zenon DEF Timer, Gr, Cb

\* What update_timer does.
LEMMA UpdateFacts ==
    ASSUME TimerInv, NEW t \in Timer, NEW w \in Time, UpdateTimer(t, w)
    PROVE  /\ waketime' \in [Timer -> Time] /\ waketime'[t] = w
           /\ \A u \in Timer : u # t => waketime'[u] = waketime[u]
           /\ next_timer' \in Time /\ next_timer' <= w /\ next_timer' <= next_timer
<1>1. waketime \in [Timer -> Time] /\ next_timer \in Time  BY Zenon DEF TimerInv, LoopTypes
<1>2. waketime' = [waketime EXCEPT ![t] = w] /\ next_timer' = Min2(next_timer, w)
  BY Zenon DEF UpdateTimer
<1>3. next_timer' \in Time /\ next_timer' <= w /\ next_timer' <= next_timer
  BY <1>1, <1>2, TimeFacts, ZenonT(30)
<1>4. QED  BY <1>1, <1>2, <1>3, ZenonT(30)

\* What pause does: the callback that runs is detached, and its greenlet's timer set.
LEMMA PauseFacts ==
    ASSUME TimerInv, NEW c \in Callback, NEW w \in Time, running = c, Pause(c, w)
    PROVE  /\ running' = None
           /\ waketime' \in [Timer -> Time] /\ waketime'[Gr(c)] = w
           /\ \A u \in Timer : u # Gr(c) => waketime'[u] = waketime[u]
           /\ next_timer' \in Time /\ next_timer' <= w /\ next_timer' <= next_timer
           /\ timers' = timers \cup {Gr(c)} /\ todo' \subseteq todo
           /\ act' = [act EXCEPT ![c] = "detached"]
           /\ at' \in {"top", "scan"}
           /\ eventtime' = eventtime \/ eventtime' = now
<1>1. /\ waketime \in [Timer -> Time] /\ next_timer \in Time /\ Gr(c) \in Timer
      /\ act \in [Callback -> {"none", "direct", "detached"}]
  BY TimerFacts, Zenon DEF TimerInv, LoopTypes
<1>2. at = "scan" /\ act[c] # "none" /\ (act[c] = "detached" => Gr(c) \in timers)
  BY ReactorAssumption, Zenon DEF TimerInv, TimersTrue
<1>3. running' = None  BY Zenon DEF Pause
<1>4. CASE act[c] = "direct"
  <2>1. /\ act' = [act EXCEPT ![c] = "detached"]
        /\ timers' = timers \cup {Gr(c)}
        /\ waketime' = [waketime EXCEPT ![Gr(c)] = w]
        /\ next_timer' = NOW
        /\ at' = "top" /\ todo' = {} /\ eventtime' = now
    BY <1>4, Zenon DEF Pause
  <2>2. NOW \in Time /\ NOW <= w /\ NOW <= next_timer  BY <1>1, TimeFacts, ZenonT(30)
  <2>3. QED  BY <1>1, <1>3, <2>1, <2>2, ZenonT(30)
<1>5. CASE act[c] = "detached"
  <2>0. act[c] # "direct"  BY <1>5, Zenon
  <2>1. UpdateTimer(Gr(c), w) /\ UNCHANGED <<act, timers, loop>>
    BY <2>0, ZenonT(30) DEF Pause
  <2>2. /\ waketime' \in [Timer -> Time] /\ waketime'[Gr(c)] = w
        /\ \A u \in Timer : u # Gr(c) => waketime'[u] = waketime[u]
        /\ next_timer' \in Time /\ next_timer' <= w /\ next_timer' <= next_timer
    BY <1>1, <2>1, UpdateFacts, Zenon
  <2>3. act' = [act EXCEPT ![c] = "detached"]  BY <1>1, <1>5, <2>1, Zenon
  <2>4. timers' = timers \cup {Gr(c)}  BY <1>2, <1>5, <2>1, Zenon
  <2>5. QED  BY <1>2, <1>3, <2>1, <2>2, <2>3, <2>4, ZenonT(30) DEF loop
<1>6. QED  BY <1>1, <1>2, <1>4, <1>5, ZenonT(30)

\* What complete does to who waits.
LEMMA WakeFacts ==
    ASSUME TimerInv, NEW S \in SUBSET Callback, WakeWaiting(S)
    PROVE  /\ waketime' \in [Timer -> Time]
           /\ \A c \in S : waketime'[Gr(c)] = NOW
           /\ \A c \in Callback \ S : waketime'[Gr(c)] = waketime[Gr(c)]
           /\ \A c \in Callback : waketime'[Cb(c)] = waketime[Cb(c)]
           /\ next_timer' \in Time /\ next_timer' <= next_timer
           /\ \A t \in Timer : waketime'[t] = waketime[t] \/ next_timer' = NOW
<1>1. waketime \in [Timer -> Time] /\ next_timer \in Time /\ NOW \in Time
  BY TimeFacts, Zenon DEF TimerInv, LoopTypes
<1>2. waketime' = [t \in Timer |-> IF t \in {Gr(c) : c \in S} THEN NOW ELSE waketime[t]]
  BY Zenon DEF WakeWaiting
<1>3. \A t \in Timer :
        waketime'[t] = (IF t \in {Gr(c) : c \in S} THEN NOW ELSE waketime[t])
  BY <1>2, ZenonT(30)
<1>4. next_timer' \in Time /\ next_timer' <= next_timer
  <2>1. NOW <= next_timer /\ next_timer <= next_timer  BY <1>1, TimeFacts, SMTT(30)
  <2>2. QED  BY <1>1, <2>1, ZenonT(30) DEF WakeWaiting
<1>5. \A t \in Timer : waketime'[t] = waketime[t] \/ next_timer' = NOW
  BY <1>3, ZenonT(30) DEF WakeWaiting
<1>6. \A c \in S : waketime'[Gr(c)] = NOW  BY <1>3, TimerFacts, ZenonT(30)
<1>7. ASSUME NEW c \in Callback \ S PROVE waketime'[Gr(c)] = waketime[Gr(c)]
  <2>1. Gr(c) \in Timer /\ \A d \in S : Gr(c) # Gr(d)  BY TimerFacts, ZenonT(30)
  <2>2. Gr(c) \notin {Gr(d) : d \in S}  BY <2>1, ZenonT(30)
  <2>3. QED  BY <1>3, <2>1, <2>2, ZenonT(30)
<1>8. ASSUME NEW c \in Callback PROVE waketime'[Cb(c)] = waketime[Cb(c)]
  <2>1. Cb(c) \in Timer /\ \A d \in S : Cb(c) # Gr(d)  BY TimerFacts, ZenonT(30)
  <2>2. Cb(c) \notin {Gr(d) : d \in S}  BY <2>1, ZenonT(30)
  <2>3. QED  BY <1>3, <2>1, <2>2, ZenonT(30)
<1>9. waketime' \in [Timer -> Time]  BY <1>1, <1>2, ZenonT(30)
<1>10. QED  BY <1>4, <1>5, <1>6, <1>7, <1>8, <1>9, Zenon

-----------------------------------------------------------------------------
(* The timers *)

\* _next_timer stays sound when it only goes down, and below what is set.
LEMMA SoundKeeps ==
    ASSUME TimerInv, waketime' \in [Timer -> Time], next_timer' \in Time,
           next_timer' <= next_timer, timers' \subseteq Timer,
           \A t \in timers' \ todo' :
               \/ next_timer' <= waketime'[t]
               \/ t \in timers \ todo /\ waketime'[t] = waketime[t]
    PROVE  NextTimerSound'
<1> SUFFICES ASSUME NEW t \in timers' \ todo' PROVE next_timer' <= waketime'[t]
  BY Zenon DEF NextTimerSound
<1>1. CASE next_timer' <= waketime'[t]  BY <1>1, Zenon
<1>2. CASE t \in timers \ todo /\ waketime'[t] = waketime[t]
  <2>1. next_timer <= waketime[t]  BY <1>2, Zenon DEF TimerInv, NextTimerSound
  <2>2. t \in Timer /\ waketime \in [Timer -> Time] /\ next_timer \in Time
    BY <1>2, Zenon DEF TimerInv, LoopTypes
  <2>3. waketime[t] \in Time  BY <2>2, Zenon
  <2>4. QED  BY <1>2, <2>1, <2>2, <2>3, TimeFacts, ZenonT(30)
<1>3. QED  BY <1>1, <1>2, Zenon

LEMMA SameTimers ==
    ASSUME TimerInv, UNCHANGED <<timer_vars, running, act, todo>>,
           now' \in Nat, now' <= MaxTime, eventtime' \in Nat, eventtime' <= now',
           at' \in {"top", "scan", "select", "drain"},
           running # None => at' = at
    PROVE  TimerInv'
<1>1. LoopTypes'  BY ZenonT(30) DEF TimerInv, LoopTypes, timer_vars
<1>2. TimersTrue' /\ NextTimerSound'
  BY ZenonT(30) DEF TimerInv, TimersTrue, NextTimerSound, timer_vars
<1>3. QED  BY <1>1, <1>2, Zenon DEF TimerInv

LEMMA PauseKeeps ==
    ASSUME TimerInv, NEW c \in Callback, NEW w \in Time, running = c, Pause(c, w), now' = now
    PROVE  TimerInv'
<1>1. /\ running' = None
      /\ waketime' \in [Timer -> Time] /\ waketime'[Gr(c)] = w
      /\ \A u \in Timer : u # Gr(c) => waketime'[u] = waketime[u]
      /\ next_timer' \in Time /\ next_timer' <= w /\ next_timer' <= next_timer
      /\ timers' = timers \cup {Gr(c)} /\ todo' \subseteq todo
      /\ act' = [act EXCEPT ![c] = "detached"]
      /\ at' \in {"top", "scan"}
      /\ eventtime' = eventtime \/ eventtime' = now
  BY PauseFacts, Zenon
<1>2. /\ act \in [Callback -> {"none", "direct", "detached"}] /\ timers \subseteq Timer
      /\ todo \subseteq timers /\ now \in Nat /\ now <= MaxTime
      /\ eventtime \in Nat /\ eventtime <= now
  BY Zenon DEF TimerInv, LoopTypes
<1>3. act[c] # "none"  BY ReactorAssumption, Zenon DEF TimerInv, TimersTrue
<1>4. /\ act' \in [Callback -> {"none", "direct", "detached"}] /\ act'[c] = "detached"
      /\ \A d \in Callback : d # c => act'[d] = act[d]
  BY <1>1, <1>2, ZenonT(30)
<1>5. LoopTypes'
  <2>1. eventtime' \in Nat /\ eventtime' <= now  BY <1>1, <1>2, SMTT(30)
  <2>2. timers' \subseteq Timer /\ todo' \subseteq timers'  BY <1>1, <1>2, TimerFacts
  <2>3. QED  BY <1>1, <1>2, <1>4, <2>1, <2>2, ZenonT(30) DEF LoopTypes
<1>6. TimersTrue'
  <2>1. ASSUME NEW d \in Callback PROVE Gr(d) \in timers' <=> act'[d] = "detached"
    <3>1. CASE d = c  BY <1>1, <1>4, <3>1, Zenon
    <3>2. CASE d # c
      <4>1. Gr(d) # Gr(c)  BY <3>2, TimerFacts, Zenon
      <4>2. QED  BY <1>1, <1>4, <3>2, <4>1, Zenon DEF TimerInv, TimersTrue
    <3>3. QED  BY <3>1, <3>2, Zenon
  <2>2. ASSUME NEW d \in Callback, act'[d] # "none" PROVE waketime'[Cb(d)] = NEVER
    <3>1. act[d] # "none"  BY <1>3, <1>4, <2>2, Zenon
    <3>2. waketime'[Cb(d)] = waketime[Cb(d)]  BY <1>1, TimerFacts, ZenonT(30)
    <3>3. QED  BY <3>1, <3>2, Zenon DEF TimerInv, TimersTrue
  <2>3. QED  BY <1>1, <2>1, <2>2, Zenon DEF TimersTrue
<1>7. NextTimerSound'
  <2>1. ASSUME NEW t \in timers' \ todo'
        PROVE  next_timer' <= waketime'[t] \/ (t \in timers \ todo /\ waketime'[t] = waketime[t])
    <3>1. CASE t = Gr(c)  BY <1>1, <3>1, Zenon
    <3>2. CASE t # Gr(c) /\ t \in todo
      <4>1. todo' = {} /\ next_timer' = NOW
        <5>1. act[c] = "direct"
          <6>1. act[c] # "direct" => UNCHANGED loop  BY ZenonT(30) DEF Pause
          <6>2. QED  BY <2>1, <3>2, <6>1, Zenon DEF loop
        <5>2. QED  BY <5>1, Zenon DEF Pause
      <4>2. waketime'[t] \in Time  BY <1>1, <1>2, <2>1, <3>2, Zenon
      <4>3. QED  BY <4>1, <4>2, TimeFacts, Zenon
    <3>3. CASE t # Gr(c) /\ t \notin todo
      BY <1>1, <1>2, <2>1, <3>3, ZenonT(30)
    <3>4. QED  BY <3>1, <3>2, <3>3, Zenon
  <2>2. timers' \subseteq Timer  BY <1>5, Zenon DEF LoopTypes
  <2>3. QED  BY <1>1, <2>1, <2>2, SoundKeeps, Zenon
<1>8. QED  BY <1>5, <1>6, <1>7, Zenon DEF TimerInv

LEMMA UpdateKeeps ==
    ASSUME TimerInv, NEW t \in Timer, NEW w \in Time, UpdateTimer(t, w),
           UNCHANGED <<now, loop, timers, running, act>>,
           \A c \in Callback : t = Cb(c) => act[c] = "none"
    PROVE  TimerInv'
<1>1. /\ waketime' \in [Timer -> Time] /\ waketime'[t] = w
      /\ \A u \in Timer : u # t => waketime'[u] = waketime[u]
      /\ next_timer' \in Time /\ next_timer' <= w /\ next_timer' <= next_timer
  BY UpdateFacts, Zenon
<1>2. LoopTypes'  BY <1>1, ZenonT(30) DEF TimerInv, LoopTypes, loop
<1>3. TimersTrue'
  <2>1. ASSUME NEW d \in Callback, act[d] # "none" PROVE waketime'[Cb(d)] = NEVER
    <3>1. waketime'[Cb(d)] = waketime[Cb(d)]  BY <1>1, <2>1, TimerFacts, ZenonT(30)
    <3>2. QED  BY <2>1, <3>1, Zenon DEF TimerInv, TimersTrue
  <2>2. QED  BY <2>1, ZenonT(30) DEF TimerInv, TimersTrue, loop
<1>4. NextTimerSound'
  <2>1. timers' \subseteq Timer  BY <1>2, Zenon DEF LoopTypes
  <2>2. timers' \ todo' = timers \ todo  BY Zenon DEF loop
  <2>3. ASSUME NEW u \in timers' \ todo'
        PROVE  next_timer' <= waketime'[u] \/ (u \in timers \ todo /\ waketime'[u] = waketime[u])
    BY <1>1, <2>1, <2>2, <2>3, ZenonT(30)
  <2>4. QED  BY <1>1, <2>1, <2>3, SoundKeeps, Zenon
<1>5. QED  BY <1>2, <1>3, <1>4, Zenon DEF TimerInv

LEMMA WakeKeeps ==
    ASSUME TimerInv, NEW S \in SUBSET Callback, WakeWaiting(S),
           UNCHANGED <<now, loop, timers, running, act>>
    PROVE  TimerInv'
<1>1. /\ waketime' \in [Timer -> Time]
      /\ \A c \in Callback : waketime'[Cb(c)] = waketime[Cb(c)]
      /\ next_timer' \in Time /\ next_timer' <= next_timer
      /\ \A t \in Timer : waketime'[t] = waketime[t] \/ next_timer' = NOW
  BY WakeFacts, Zenon
<1>2. LoopTypes'  BY <1>1, ZenonT(30) DEF TimerInv, LoopTypes, loop
<1>3. TimersTrue'  BY <1>1, ZenonT(30) DEF TimerInv, TimersTrue, loop
<1>4. NextTimerSound'
  <2>1. timers' \subseteq Timer  BY <1>2, Zenon DEF LoopTypes
  <2>2. timers' \ todo' = timers \ todo  BY Zenon DEF loop
  <2>3. ASSUME NEW u \in timers' \ todo'
        PROVE  next_timer' <= waketime'[u] \/ (u \in timers \ todo /\ waketime'[u] = waketime[u])
    <3>1. u \in Timer /\ waketime'[u] \in Time  BY <1>1, <2>1, <2>3, Zenon
    <3>2. QED  BY <1>1, <2>2, <3>1, TimeFacts, ZenonT(30)
  <2>4. QED  BY <1>1, <2>1, <2>3, SoundKeeps, Zenon
<1>5. QED  BY <1>2, <1>3, <1>4, Zenon DEF TimerInv

\* A callback that runs or has paused is not called.
LEMMA CallFacts ==
    ASSUME TimerInv, NEW c \in Callback, eventtime >= waketime[Cb(c)]
    PROVE  act[c] = "none"
<1>1. now <= MaxTime /\ eventtime <= now /\ now \in Nat /\ eventtime \in Nat
  BY Zenon DEF TimerInv, LoopTypes
<1>2. eventtime <= MaxTime  BY <1>1, ReactorAssumption, SMTT(30)
<1>3. ~(eventtime >= NEVER)  BY <1>1, <1>2, TimeFacts, Zenon
<1>4. QED  BY <1>3, Zenon DEF TimerInv, TimersTrue

\* _check_timers
LEMMA ScanKeeps ==
    ASSUME TimerInv,
           \/ CheckTimers \/ ScanEnd
           \/ \E t \in Timer : SkipTimer(t) \/ CallTimer(t)
    PROVE  TimerInv'
<1>1. CASE CheckTimers
  <2>1. running = None  BY <1>1, Zenon DEF CheckTimers, TimerInv, TimersTrue
  <2>2. CASE eventtime < next_timer
    BY <1>1, <2>1, <2>2, SameTimers, Zenon
       DEF CheckTimers, TimerInv, LoopTypes, timer_vars
  <2>3. CASE ~(eventtime < next_timer)
    <3>1. /\ at' = "scan" /\ todo' = timers /\ next_timer' = NEVER
          /\ UNCHANGED <<now, eventtime, timers, waketime, running, act>>
      BY <1>1, <2>3, Zenon DEF CheckTimers
    <3>2. LoopTypes'  BY <3>1, TimeFacts, ZenonT(30) DEF TimerInv, LoopTypes
    <3>3. TimersTrue'  BY <2>1, <3>1, ZenonT(30) DEF TimerInv, TimersTrue
    <3>4. NextTimerSound'  BY <3>1, Zenon DEF NextTimerSound
    <3>5. QED  BY <3>2, <3>3, <3>4, Zenon DEF TimerInv
  <2>4. QED  BY <2>2, <2>3, Zenon
<1>2. CASE ScanEnd
  BY <1>2, SameTimers, Zenon DEF ScanEnd, TimerInv, LoopTypes, timer_vars
<1>3. CASE \E t \in Timer : SkipTimer(t)
  <2>1. PICK t \in Timer : SkipTimer(t)  BY <1>3, Zenon
  <2>2. /\ running = None /\ next_timer' = Min2(next_timer, waketime[t]) /\ todo' = todo \ {t}
        /\ UNCHANGED <<now, at, eventtime, timers, waketime, running, act>>
    BY <2>1, Zenon DEF SkipTimer
  <2>3. next_timer \in Time /\ waketime \in [Timer -> Time] /\ waketime[t] \in Time
        /\ timers \subseteq Timer
    BY Zenon DEF TimerInv, LoopTypes
  <2>4. next_timer' \in Time /\ next_timer' <= next_timer /\ next_timer' <= waketime[t]
    BY <2>2, <2>3, TimeFacts, ZenonT(30)
  <2>5. LoopTypes'  BY <2>2, <2>4, ZenonT(30) DEF TimerInv, LoopTypes
  <2>6. TimersTrue'  BY <2>2, ZenonT(30) DEF TimerInv, TimersTrue
  <2>7. \A u \in timers' \ todo' :
          next_timer' <= waketime'[u] \/ (u \in timers \ todo /\ waketime'[u] = waketime[u])
    BY <2>2, <2>4, ZenonT(30)
  <2>8. NextTimerSound'  BY <2>2, <2>3, <2>4, <2>7, SoundKeeps, Zenon
  <2>9. QED  BY <2>5, <2>6, <2>8, Zenon DEF TimerInv
<1>4. CASE \E t \in Timer : CallTimer(t)
  <2>1. PICK t \in Timer : CallTimer(t)  BY <1>4, Zenon
  <2>2. /\ at = "scan" /\ running = None /\ t \in todo /\ eventtime >= waketime[t]
        /\ waketime' = [waketime EXCEPT ![t] = NEVER] /\ todo' = todo \ {t}
        /\ running' = t[2]
        /\ act' = IF t[1] = "callback" THEN [act EXCEPT ![t[2]] = "direct"] ELSE act
        /\ UNCHANGED <<now, at, eventtime, next_timer, timers>>
    BY <2>1, Zenon DEF CallTimer
  <2>3. /\ waketime \in [Timer -> Time] /\ next_timer \in Time /\ timers \subseteq Timer
        /\ todo \subseteq timers /\ act \in [Callback -> {"none", "direct", "detached"}]
    BY Zenon DEF TimerInv, LoopTypes
  <2>4. PICK c \in Callback : t = Gr(c) \/ t = Cb(c)  BY TimerFacts, Zenon
  <2>5. waketime' \in [Timer -> Time] /\ waketime'[t] = NEVER
        /\ \A u \in Timer : u # t => waketime'[u] = waketime[u]
    BY <2>2, <2>3, TimeFacts, ZenonT(30)
  <2>6. t[2] = c /\ running' = c /\ c # None  BY <2>2, <2>4, TimerFacts, ReactorAssumption, Zenon
  <2>7. /\ act' \in [Callback -> {"none", "direct", "detached"}]
        /\ \A d \in Callback : d # c => act'[d] = act[d]
        /\ t = Gr(c) => act'[c] = act[c]
        /\ t = Cb(c) => act'[c] = "direct"
    <3>1. CASE t = Gr(c)
      <4>1. t[1] # "callback" /\ t # Cb(c)  BY <3>1, TimerFacts, Zenon
      <4>2. act' = act  BY <2>2, <4>1, Zenon
      <4>3. QED  BY <2>3, <4>1, <4>2, Zenon
    <3>2. CASE t = Cb(c)
      <4>1. t[1] = "callback" /\ t # Gr(c)  BY <3>2, TimerFacts, Zenon
      <4>2. act' = [act EXCEPT ![c] = "direct"]  BY <2>2, <2>6, <4>1, Zenon
      <4>3. QED  BY <2>3, <4>1, <4>2, ZenonT(30)
    <3>3. QED  BY <2>4, <3>1, <3>2, Zenon
  <2>8. /\ t = Cb(c) => act[c] = "none"
        /\ t = Gr(c) => act[c] = "detached"
    BY <2>2, <2>3, CallFacts, Zenon DEF TimerInv, TimersTrue
  <2>9. LoopTypes'
    BY <2>2, <2>3, <2>5, <2>6, <2>7, ZenonT(30) DEF TimerInv, LoopTypes
  <2>10. TimersTrue'
    <3>1. \A d \in Callback : Gr(d) \in timers' <=> act'[d] = "detached"
      BY <2>2, <2>4, <2>7, <2>8, ZenonT(30) DEF TimerInv, TimersTrue
    <3>2. ASSUME NEW d \in Callback, act'[d] # "none" PROVE waketime'[Cb(d)] = NEVER
      <4>1. CASE t = Cb(d)  BY <2>5, <4>1, Zenon
      <4>2. CASE t # Cb(d)
        <5>1. waketime'[Cb(d)] = waketime[Cb(d)]  BY <2>5, <4>2, TimerFacts, Zenon
        <5>2. act[d] # "none"  BY <2>4, <2>7, <3>2, <4>2, Zenon
        <5>3. QED  BY <5>1, <5>2, Zenon DEF TimerInv, TimersTrue
      <4>3. QED  BY <4>1, <4>2, Zenon
    <3>3. act'[c] # "none"  BY <2>4, <2>7, <2>8, Zenon
    <3>4. Gr(c) \notin todo'
      <4>1. CASE t = Gr(c)  BY <2>2, <4>1, Zenon
      <4>2. CASE t = Cb(c)  BY <2>2, <2>3, <2>8, <4>2, Zenon DEF TimerInv, TimersTrue
      <4>3. QED  BY <2>4, <4>1, <4>2, Zenon
    <3>5. QED  BY <2>2, <2>6, <3>1, <3>2, <3>3, <3>4, Zenon DEF TimersTrue
  <2>11. NextTimerSound'
    <3>1. next_timer <= NEVER /\ next_timer <= next_timer  BY <2>3, TimeFacts, SMTT(30)
    <3>2. \A u \in timers' \ todo' :
            next_timer' <= waketime'[u] \/ (u \in timers \ todo /\ waketime'[u] = waketime[u])
      BY <2>2, <2>3, <2>5, <3>1, ZenonT(30)
    <3>3. QED  BY <2>2, <2>3, <2>5, <3>1, <3>2, SoundKeeps, Zenon
  <2>12. QED  BY <2>9, <2>10, <2>11, Zenon DEF TimerInv
<1>5. QED  BY <1>1, <1>2, <1>3, <1>4, Zenon

\* The callback's timer is set anew, and the greenlet it detached goes away.
LEMMA ReturnKeeps ==
    ASSUME TimerInv, NEW c \in Callback, NEW w \in Time, Return(c, w)
    PROVE  TimerInv'
<1>1. /\ running = c /\ running' = None
      /\ act' = [act EXCEPT ![c] = "none"]
      /\ waketime' = [waketime EXCEPT ![Cb(c)] = w, ![Gr(c)] = NEVER]
      /\ next_timer' = Min2(next_timer, w)
      /\ timers' = timers \ {Gr(c)}
      /\ UNCHANGED <<now, loop>>
  BY Zenon DEF Return, Running
<1>2. /\ waketime \in [Timer -> Time] /\ next_timer \in Time /\ timers \subseteq Timer
      /\ todo \subseteq timers /\ act \in [Callback -> {"none", "direct", "detached"}]
      /\ Gr(c) \in Timer /\ Cb(c) \in Timer /\ Gr(c) # Cb(c)
  BY TimerFacts, Zenon DEF TimerInv, LoopTypes
<1>3. /\ waketime' \in [Timer -> Time] /\ waketime'[Cb(c)] = w
      /\ \A u \in Timer : u \notin {Cb(c), Gr(c)} => waketime'[u] = waketime[u]
  BY <1>1, <1>2, TimeFacts, Zenon
<1>4. next_timer' \in Time /\ next_timer' <= w /\ next_timer' <= next_timer
  BY <1>1, <1>2, TimeFacts, ZenonT(30)
<1>5. /\ act' \in [Callback -> {"none", "direct", "detached"}] /\ act'[c] = "none"
      /\ \A d \in Callback : d # c => act'[d] = act[d]
  BY <1>1, <1>2, ZenonT(30)
<1>6. Gr(c) \notin todo  BY <1>1, ReactorAssumption, Zenon DEF TimerInv, TimersTrue
<1>7. LoopTypes'
  <2>1. timers' \subseteq Timer /\ todo' \subseteq timers'  BY <1>1, <1>2, <1>6, Zenon DEF loop
  <2>2. QED  BY <1>1, <1>3, <1>4, <1>5, <2>1, ZenonT(30) DEF TimerInv, LoopTypes, loop
<1>8. TimersTrue'
  <2>1. ASSUME NEW d \in Callback PROVE Gr(d) \in timers' <=> act'[d] = "detached"
    <3>1. CASE d = c  BY <1>1, <1>5, <3>1, Zenon
    <3>2. CASE d # c
      <4>1. Gr(d) # Gr(c)  BY <3>2, TimerFacts, Zenon
      <4>2. QED  BY <1>1, <1>5, <3>2, <4>1, Zenon DEF TimerInv, TimersTrue
    <3>3. QED  BY <3>1, <3>2, Zenon
  <2>2. ASSUME NEW d \in Callback, act'[d] # "none" PROVE waketime'[Cb(d)] = NEVER
    <3>1. d # c /\ act[d] # "none"  BY <1>5, <2>2, Zenon
    <3>2. Cb(d) \notin {Cb(c), Gr(c)} /\ Cb(d) \in Timer  BY <3>1, TimerFacts, Zenon
    <3>3. QED  BY <1>3, <3>1, <3>2, Zenon DEF TimerInv, TimersTrue
  <2>3. QED  BY <1>1, <2>1, <2>2, ZenonT(30) DEF TimersTrue
<1>9. NextTimerSound'
  <2>1. ASSUME NEW u \in timers' \ todo'
        PROVE  next_timer' <= waketime'[u] \/ (u \in timers \ todo /\ waketime'[u] = waketime[u])
    <3>1. u # Gr(c) /\ u \in Timer /\ u \in timers \ todo  BY <1>1, <1>2, <2>1, Zenon DEF loop
    <3>2. QED  BY <1>3, <1>4, <3>1, ZenonT(30)
  <2>2. timers' \subseteq Timer  BY <1>7, Zenon DEF LoopTypes
  <2>3. QED  BY <1>3, <1>4, <2>1, <2>2, SoundKeeps, Zenon
<1>10. QED  BY <1>7, <1>8, <1>9, Zenon DEF TimerInv

-----------------------------------------------------------------------------
(* The mutex and the completion *)

\* Who waits in the queue is stopped in lock, once; one callback at most has the
\* mutex; handing it over makes the first in the queue due.
MutexInv ==
    /\ pc \in [Callback -> {"run", "lock", "wait"}] /\ holds \in [Callback -> BOOLEAN]
    /\ is_locked \in BOOLEAN /\ next_pending \in BOOLEAN
    /\ queue \in Seq(Callback)
    /\ \A c \in Callback : act[c] = "none" => pc[c] = "run"
    /\ \A i \in 1..Len(queue) : pc[queue[i]] = "lock"
    /\ \A i, j \in 1..Len(queue) : queue[i] = queue[j] => i = j
    /\ \A c, d \in Callback : holds[c] /\ holds[d] => c = d
    /\ is_locked <=> next_pending \/ \E c \in Callback : holds[c]
    /\ next_pending => /\ \A c \in Callback : ~holds[c]
                       /\ queue # <<>>
                       /\ waketime[Gr(queue[1])] = NOW \/ running = queue[1]

\* Who waits is stopped in wait, and its greenlet is due when the completion is
\* finished, or else when its time is over.
WaitInv ==
    /\ result \in BOOLEAN /\ waiting \subseteq Callback /\ until \in [Callback -> Time]
    /\ \A c \in waiting :
         /\ pc[c] = "wait"
         /\ running = c => result \/ eventtime >= until[c]
         /\ running # c => waketime[Gr(c)] = IF result THEN NOW ELSE until[c]

AsyncInv ==
    /\ pipe \in BOOLEAN /\ async_queue \in Seq({"complete", "callback"})
    /\ async_queue # <<>> /\ at # "drain" => pipe \/ thread = "write"

ReactorInv == TimerInv /\ MutexInv /\ WaitInv /\ AsyncInv

LEMMA TimersKept ==
    ASSUME ReactorInv, [Next]_vars
    PROVE  TimerInv'
<1> USE DEF ReactorInv
<1>0. /\ now \in Nat /\ now <= MaxTime /\ eventtime \in Nat /\ eventtime <= now
      /\ at \in {"top", "scan", "select", "drain"} /\ waiting \subseteq Callback
      /\ running # None => at = "scan"
      /\ queue \in Seq(Callback)
  BY ZenonT(30) DEF TimerInv, LoopTypes, TimersTrue, MutexInv, WaitInv
<1>l. now <= now  BY <1>0
<1>w. Later \subseteq Time /\ NOW \in Time /\ NEVER \in Time
  BY TimeFacts, ZenonT(30) DEF Later
<1> HIDE DEF ReactorInv
<1>t. TimerInv  BY Zenon DEF ReactorInv
<1>1. CASE Tick
  <2>1. now < MaxTime /\ now' = now + 1  BY <1>1, Zenon DEF Tick
  <2>2. UNCHANGED <<loop, timer_vars, running, act>>  BY <1>1, Zenon DEF Tick
  <2>3. eventtime' = eventtime /\ at' = at /\ todo' = todo  BY <2>2, Zenon DEF loop
  <2>4. now' \in Nat /\ now' <= MaxTime /\ eventtime' <= now' /\ eventtime' \in Nat
    BY <1>0, <2>1, <2>3, ReactorAssumption, SMTT(30)
  <2>5. QED  BY <1>t, <1>0, <2>2, <2>3, <2>4, SameTimers, Zenon
<1>2. CASE CheckTimers \/ ScanEnd \/ \E t \in Timer : SkipTimer(t) \/ CallTimer(t)
  BY <1>t, <1>2, ScanKeeps, Zenon
<1>3. CASE SelectTimeout \/ ReadPipe \/ DrainEmpty
  <2>1. /\ UNCHANGED <<timer_vars, running, act, todo, now>> /\ at # "scan"
        /\ at' \in {"top", "drain"} /\ (eventtime' = now \/ eventtime' = eventtime)
    BY <1>3, ZenonT(30) DEF SelectTimeout, ReadPipe, DrainEmpty
  <2>2. running = None  BY <1>0, <2>1, Zenon
  <2>3. now' = now /\ eventtime' \in Nat /\ eventtime' <= now  BY <1>0, <1>l, <2>1, ZenonT(30)
  <2>4. QED  BY <1>t, <1>0, <2>1, <2>2, <2>3, SameTimers, Zenon
<1>4. CASE \E c \in Callback, w \in {NOW} \cup Later : Sleep(c, w)
  <2>1. PICK c \in Callback, w \in {NOW} \cup Later : Sleep(c, w)  BY <1>4, Zenon
  <2>2. running = c /\ Pause(c, w) /\ now' = now  BY <2>1, Zenon DEF Sleep, Running
  <2>3. w \in Time  BY <1>w, Zenon
  <2>4. QED  BY <1>t, <2>2, <2>3, PauseKeeps, Zenon
<1>5. CASE \E c \in Callback, w \in Later : Return(c, w)
  BY <1>t, <1>w, <1>5, ReturnKeeps, Zenon
<1>6. CASE \E c, d \in Callback, w \in {NOW} \cup Later : UpdateOther(c, d, w)
  <2>1. PICK c \in Callback, d \in Callback, w \in {NOW} \cup Later : UpdateOther(c, d, w)
    BY <1>6, Zenon
  <2>2. act[d] = "none" /\ UpdateTimer(Cb(d), w) /\ UNCHANGED <<now, loop, timers, running, act>>
    BY <2>1, Zenon DEF UpdateOther
  <2>3. \A e \in Callback : Cb(d) = Cb(e) => act[e] = "none"  BY <2>2, TimerFacts, ZenonT(30)
  <2>4. w \in Time /\ Cb(d) \in Timer  BY <1>w, TimerFacts, Zenon
  <2>5. QED  BY <1>t, <2>2, <2>3, <2>4, UpdateKeeps, Zenon
<1>7. CASE \E c \in Callback : Lock(c) \/ LockResumed(c)
  <2>1. PICK c \in Callback : Lock(c) \/ LockResumed(c)  BY <1>7, Zenon
  <2>2. \/ UNCHANGED <<now, loop, timer_vars, running, act>>
        \/ running = c /\ Pause(c, NEVER) /\ now' = now
    <3>1. CASE Lock(c)
      <4>1. CASE is_locked  BY <3>1, <4>1, Zenon DEF Lock, Running
      <4>2. CASE ~is_locked  BY <3>1, <4>2, Zenon DEF Lock
      <4>3. QED  BY <4>1, <4>2, Zenon
    <3>2. CASE LockResumed(c)
      <4>1. CASE next_pending /\ Head(queue) = c  BY <3>2, <4>1, Zenon DEF LockResumed
      <4>2. CASE ~(next_pending /\ Head(queue) = c)  BY <3>2, <4>2, Zenon DEF LockResumed
      <4>3. QED  BY <4>1, <4>2, Zenon
    <3>3. QED  BY <2>1, <3>1, <3>2, Zenon
  <2>3. CASE UNCHANGED <<now, loop, timer_vars, running, act>>
    BY <1>t, <1>0, <2>3, SameTimers, Zenon DEF loop
  <2>4. CASE running = c /\ Pause(c, NEVER) /\ now' = now
    BY <1>t, <1>w, <2>4, PauseKeeps, Zenon
  <2>5. QED  BY <2>2, <2>3, <2>4, Zenon
<1>8. CASE \E c \in Callback : Unlock(c)
  <2>1. PICK c \in Callback : Unlock(c)  BY <1>8, Zenon
  <2>2. CASE queue = <<>>
    <3>1. UNCHANGED <<now, loop, timer_vars, running, act>>  BY <2>1, <2>2, Zenon DEF Unlock
    <3>2. QED  BY <1>t, <1>0, <3>1, SameTimers, Zenon DEF loop
  <2>3. CASE queue # <<>>
    <3>1. UpdateTimer(Gr(Head(queue)), NOW) /\ UNCHANGED <<now, loop, timers, running, act>>
      BY <2>1, <2>3, Zenon DEF Unlock
    <3>2. Head(queue) \in Callback  BY <1>0, <2>3
    <3>3. Gr(Head(queue)) \in Timer /\ \A e \in Callback : Gr(Head(queue)) # Cb(e)
      BY <3>2, TimerFacts, Zenon
    <3>4. QED  BY <1>t, <1>w, <3>1, <3>3, UpdateKeeps, Zenon
  <2>4. QED  BY <2>2, <2>3, Zenon
<1>9. CASE \E c \in Callback : Complete(c)
  <2>1. WakeWaiting(waiting) /\ UNCHANGED <<now, loop, timers, running, act>>
    BY <1>9, Zenon DEF Complete
  <2>2. QED  BY <1>t, <1>0, <2>1, WakeKeeps, Zenon
<1>10. CASE \E c \in Callback, w \in Later : Wait(c, w)
  <2>1. PICK c \in Callback, w \in Later : Wait(c, w)  BY <1>10, Zenon
  <2>2. running = c /\ Pause(c, w) /\ now' = now  BY <2>1, Zenon DEF Wait, Running
  <2>3. QED  BY <1>t, <1>w, <2>2, PauseKeeps, Zenon
<1>11. CASE (\E c \in Callback : WaitResumed(c)) \/ NewCompletion \/ AsyncPut \/ AsyncWrite
            \/ UNCHANGED vars
  <2>1. UNCHANGED <<now, loop, timer_vars, running, act>>
    BY <1>11, ZenonT(30) DEF WaitResumed, NewCompletion, AsyncPut, AsyncWrite, vars
  <2>2. QED  BY <1>t, <1>0, <2>1, SameTimers, Zenon DEF loop
<1>12. CASE DrainItem
  <2>1. /\ UNCHANGED <<now, loop, timers, running, act>>
        /\ \/ WakeWaiting(waiting)
           \/ \E c \in Callback : act[c] = "none" /\ UpdateTimer(Cb(c), NOW)
           \/ UNCHANGED <<waketime, next_timer>>
    BY <1>12, ZenonT(30) DEF DrainItem
  <2>2. CASE WakeWaiting(waiting)  BY <1>t, <1>0, <2>1, <2>2, WakeKeeps, Zenon
  <2>3. CASE \E c \in Callback : act[c] = "none" /\ UpdateTimer(Cb(c), NOW)
    <3>1. PICK d \in Callback : act[d] = "none" /\ UpdateTimer(Cb(d), NOW)  BY <2>3, Zenon
    <3>2. \A e \in Callback : Cb(d) = Cb(e) => act[e] = "none"  BY <3>1, TimerFacts, ZenonT(30)
    <3>3. Cb(d) \in Timer  BY TimerFacts, Zenon
    <3>4. QED  BY <1>t, <1>w, <2>1, <3>1, <3>2, <3>3, UpdateKeeps, Zenon
  <2>4. CASE UNCHANGED <<waketime, next_timer>>
    BY <1>t, <1>0, <2>1, <2>4, SameTimers, Zenon DEF loop, timer_vars
  <2>5. QED  BY <2>1, <2>2, <2>3, <2>4, Zenon
<1>13. QED
  BY <1>1, <1>2, <1>3, <1>4, <1>5, <1>6, <1>7, <1>8, <1>9, <1>10, <1>11, <1>12, ZenonT(30)
     DEF Next

\* Where the mutex itself is left alone: what the other steps have to keep.
LEMMA MutexSame ==
    ASSUME MutexInv, UNCHANGED <<is_locked, next_pending, queue, holds>>,
           pc' \in [Callback -> {"run", "lock", "wait"}],
           \A c \in Callback : act'[c] = "none" => pc'[c] = "run",
           \A i \in 1..Len(queue) : pc'[queue[i]] = "lock",
           next_pending => waketime'[Gr(queue[1])] = NOW \/ running' = queue[1]
    PROVE  MutexInv'
<1>1. /\ holds' \in [Callback -> BOOLEAN] /\ is_locked' \in BOOLEAN /\ next_pending' \in BOOLEAN
      /\ queue' \in Seq(Callback)
      /\ \A i, j \in 1..Len(queue') : queue'[i] = queue'[j] => i = j
      /\ \A c, d \in Callback : holds'[c] /\ holds'[d] => c = d
      /\ is_locked' <=> next_pending' \/ \E c \in Callback : holds'[c]
      /\ next_pending' => queue' # <<>> /\ \A c \in Callback : ~holds'[c]
  BY ZenonT(60) DEF MutexInv
<1>2. \A i \in 1..Len(queue') : pc'[queue'[i]] = "lock"  BY ZenonT(30)
<1>3. next_pending' => waketime'[Gr(queue'[1])] = NOW \/ running' = queue'[1]  BY ZenonT(30)
<1>4. QED  BY <1>1, <1>2, <1>3, ZenonT(30) DEF MutexInv

\* Who waits stays as it was, or is called when it is due.
LEMMA WaitSame ==
    ASSUME WaitInv, UNCHANGED completion,
           \A c \in waiting :
               /\ pc'[c] = pc[c]
               /\ \/ /\ running = c <=> running' = c
                     /\ running = c => eventtime' = eventtime
                     /\ waketime'[Gr(c)] = waketime[Gr(c)]
                  \/ running # c /\ running' = c /\ eventtime' >= waketime[Gr(c)]
    PROVE  WaitInv'
<1>1. result' = result /\ waiting' = waiting /\ until' = until  BY Zenon DEF completion
<1>2. ASSUME NEW c \in waiting
      PROVE  /\ running' = c => result \/ eventtime' >= until[c]
             /\ running' # c => waketime'[Gr(c)] = IF result THEN NOW ELSE until[c]
  <2>1. /\ running = c => result \/ eventtime >= until[c]
        /\ running # c => waketime[Gr(c)] = IF result THEN NOW ELSE until[c]
    BY Zenon DEF WaitInv
  <2>2. CASE /\ running = c <=> running' = c
             /\ running = c => eventtime' = eventtime
             /\ waketime'[Gr(c)] = waketime[Gr(c)]
    BY <2>1, <2>2, ZenonT(30)
  <2>3. CASE running # c /\ running' = c /\ eventtime' >= waketime[Gr(c)]
    BY <2>1, <2>3, ZenonT(30)
  <2>4. QED  BY <2>2, <2>3, ZenonT(30)
<1>3. QED  BY <1>1, <1>2, ZenonT(30) DEF WaitInv

\* Steps of others leave who is stopped in lock or in wait where it is, or
\* call it when it is due.
LEMMA StopsSame ==
    ASSUME ReactorInv, UNCHANGED <<mutex, completion, pc>>,
           \A c \in Callback : act'[c] = "none" => pc[c] = "run",
           \A c \in Callback : pc[c] # "run" =>
               \/ /\ running = c <=> running' = c
                  /\ running = c => eventtime' = eventtime
                  /\ waketime'[Gr(c)] = waketime[Gr(c)]
               \/ running # c /\ running' = c /\ eventtime' >= waketime[Gr(c)]
    PROVE  MutexInv' /\ WaitInv'
<1>1. MutexInv /\ WaitInv  BY Zenon DEF ReactorInv
<1>2. MutexInv'
  <2>1. /\ pc' = pc /\ is_locked' = is_locked /\ next_pending' = next_pending
        /\ queue' = queue /\ holds' = holds
    BY Zenon DEF mutex
  <2>2. ASSUME next_pending PROVE waketime'[Gr(queue[1])] = NOW \/ running' = queue[1]
    <3>1. waketime[Gr(queue[1])] = NOW \/ running = queue[1]  BY <1>1, <2>2, Zenon DEF MutexInv
    <3>2. queue \in Seq(Callback) /\ queue # <<>>  BY <1>1, <2>2, Zenon DEF MutexInv
    <3>3. queue[1] \in Callback /\ 1 \in 1..Len(queue)  BY <3>2
    <3>4. pc[queue[1]] = "lock"  BY <1>1, <3>3, Zenon DEF MutexInv
    <3>5. pc[queue[1]] # "run"  BY <3>4, Zenon
    <3>6. QED  BY <3>1, <3>3, <3>5, ZenonT(30)
  <2>3. QED  BY <1>1, <2>1, <2>2, ZenonT(30) DEF MutexInv
<1>3. WaitInv'
  <2>1. \A c \in waiting : c \in Callback /\ pc[c] # "run"  BY <1>1, Zenon DEF WaitInv
  <2>2. pc' = pc /\ UNCHANGED completion  BY Zenon
  <2>3. QED  BY <1>1, <2>1, <2>2, WaitSame, ZenonT(30)
<1>4. QED  BY <1>2, <1>3, Zenon

\* What the loop, the threads and the callbacks that only sleep do.
LEMMA LoopKeepsStops ==
    ASSUME ReactorInv,
           \/ Tick \/ CheckTimers \/ ScanEnd \/ SelectTimeout
           \/ AsyncPut \/ AsyncWrite \/ ReadPipe \/ DrainEmpty
           \/ \E t \in Timer : SkipTimer(t) \/ CallTimer(t)
           \/ \E c \in Callback, w \in {NOW} \cup Later : Sleep(c, w)
           \/ \E c \in Callback, w \in Later : Return(c, w)
           \/ \E c, d \in Callback, w \in {NOW} \cup Later : UpdateOther(c, d, w)
           \/ UNCHANGED vars
    PROVE  MutexInv' /\ WaitInv'
<1>0. /\ TimerInv /\ \A c \in Callback : act[c] = "none" => pc[c] = "run"
      /\ act \in [Callback -> {"none", "direct", "detached"}]
      /\ waketime \in [Timer -> Time]
      /\ running # None => at = "scan"
      /\ None \notin Callback
  BY ReactorAssumption, ZenonT(30) DEF ReactorInv, TimerInv, LoopTypes, TimersTrue, MutexInv
<1>w. Later \subseteq Time /\ NOW \in Time /\ NEVER \in Time
  BY TimeFacts, ZenonT(30) DEF Later
<1>1. CASE \/ Tick \/ CheckTimers \/ ScanEnd \/ AsyncPut \/ AsyncWrite \/ ReadPipe
           \/ (\E t \in Timer : SkipTimer(t)) \/ UNCHANGED vars
  <2>1. UNCHANGED <<mutex, completion, pc, act, running, eventtime, waketime>>
    BY <1>1, ZenonT(30)
       DEF Tick, CheckTimers, ScanEnd, AsyncPut, AsyncWrite, ReadPipe, SkipTimer, vars,
           loop, timer_vars
  <2>2. QED  BY <1>0, <2>1, StopsSame, ZenonT(30)
<1>2. CASE SelectTimeout \/ DrainEmpty
  <2>1. UNCHANGED <<mutex, completion, pc, act, running, waketime>> /\ at # "scan"
    BY <1>2, ZenonT(30) DEF SelectTimeout, DrainEmpty, timer_vars
  <2>2. running = None  BY <1>0, <2>1, Zenon
  <2>3. \A c \in Callback : running # c  BY <1>0, <2>2, Zenon
  <2>4. QED  BY <1>0, <2>1, <2>3, StopsSame, ZenonT(30)
<1>3. CASE \E t \in Timer : CallTimer(t)
  <2>1. PICK t \in Timer : CallTimer(t)  BY <1>3, Zenon
  <2>2. /\ running = None /\ eventtime >= waketime[t]
        /\ waketime' = [waketime EXCEPT ![t] = NEVER]
        /\ running' = t[2] /\ eventtime' = eventtime
        /\ act' = IF t[1] = "callback" THEN [act EXCEPT ![t[2]] = "direct"] ELSE act
        /\ UNCHANGED <<mutex, completion, pc>>
    BY <2>1, Zenon DEF CallTimer
  <2>3. PICK d \in Callback : t = Gr(d) \/ t = Cb(d)  BY TimerFacts, Zenon
  <2>4. t[2] = d /\ running' = d  BY <2>2, <2>3, TimerFacts, ZenonT(30)
  <2>5. \A c \in Callback : act'[c] = "none" => act[c] = "none"
    <3>1. CASE t[1] = "callback"
      <4>1. act' = [act EXCEPT ![d] = "direct"]  BY <2>2, <2>4, <3>1, Zenon
      <4>2. QED  BY <1>0, <4>1, Zenon
    <3>2. CASE t[1] # "callback"  BY <2>2, <3>2, ZenonT(30)
    <3>3. QED  BY <3>1, <3>2, Zenon
  <2>6. ASSUME NEW c \in Callback, pc[c] # "run"
        PROVE  \/ /\ running = c <=> running' = c
                  /\ running = c => eventtime' = eventtime
                  /\ waketime'[Gr(c)] = waketime[Gr(c)]
               \/ running # c /\ running' = c /\ eventtime' >= waketime[Gr(c)]
    <3>1. running # c  BY <1>0, <2>2, Zenon
    <3>2. CASE c = d
      <4>1. t = Gr(c)
        <5>1. t = Cb(c) => act[c] = "none"  BY <1>0, <2>2, CallFacts, ZenonT(30)
        <5>2. QED  BY <1>0, <2>3, <2>6, <3>2, <5>1, Zenon
      <4>2. QED  BY <2>2, <2>4, <3>1, <3>2, <4>1, Zenon
    <3>3. CASE c # d
      <4>1. Gr(c) # t /\ Gr(c) \in Timer  BY <2>3, <3>3, TimerFacts, ZenonT(30)
      <4>2. waketime'[Gr(c)] = waketime[Gr(c)]  BY <1>0, <2>2, <4>1, ZenonT(30)
      <4>3. QED  BY <2>4, <3>1, <3>3, <4>2, Zenon
    <3>4. QED  BY <3>2, <3>3, Zenon
  <2>7. QED  BY <1>0, <2>2, <2>5, <2>6, StopsSame, ZenonT(30)
<1>4. CASE \E c \in Callback, w \in {NOW} \cup Later : Sleep(c, w)
  <2>1. PICK d \in Callback, w \in {NOW} \cup Later : Sleep(d, w)  BY <1>4, Zenon
  <2>2. running = d /\ pc[d] = "run" /\ Pause(d, w) /\ UNCHANGED <<mutex, completion, pc>>
    BY <2>1, Zenon DEF Sleep, Running
  <2>3. w \in Time  BY <1>w, Zenon
  <2>4. /\ running' = None /\ act' = [act EXCEPT ![d] = "detached"]
        /\ \A u \in Timer : u # Gr(d) => waketime'[u] = waketime[u]
    BY <1>0, <2>2, <2>3, PauseFacts, Zenon
  <2>5. \A c \in Callback : act'[c] = "none" => act[c] = "none"  BY <1>0, <2>4, Zenon
  <2>6. \A c \in Callback : pc[c] # "run" => waketime'[Gr(c)] = waketime[Gr(c)] /\ running # c
    BY <2>2, <2>4, TimerFacts, ZenonT(30)
  <2>7. \A c \in Callback : running' # c  BY <1>0, <2>4, Zenon
  <2>8. QED  BY <1>0, <2>2, <2>5, <2>6, <2>7, StopsSame, ZenonT(30)
<1>5. CASE \E c \in Callback, w \in Later : Return(c, w)
  <2>1. PICK d \in Callback, w \in Later : Return(d, w)  BY <1>5, ZenonT(30)
  <2>2. /\ running = d /\ pc[d] = "run" /\ running' = None
        /\ act' = [act EXCEPT ![d] = "none"]
        /\ waketime' = [waketime EXCEPT ![Cb(d)] = w, ![Gr(d)] = NEVER]
        /\ UNCHANGED <<mutex, completion, pc>>
    BY <2>1, ZenonT(30) DEF Return, Running
  <2>3. \A c \in Callback : act'[c] = "none" => pc[c] = "run"  BY <1>0, <2>2, Zenon
  <2>4. ASSUME NEW c \in Callback, pc[c] # "run"
        PROVE  waketime'[Gr(c)] = waketime[Gr(c)] /\ running # c /\ running' # c
    <3>1. Gr(c) # Gr(d) /\ Gr(c) # Cb(d) /\ Gr(c) \in Timer  BY <2>2, <2>4, TimerFacts, Zenon
    <3>2. waketime'[Gr(c)] = waketime[Gr(c)]  BY <1>0, <2>2, <3>1, Zenon
    <3>3. QED  BY <1>0, <2>2, <2>4, <3>2, Zenon
  <2>5. QED  BY <2>2, <2>3, <2>4, StopsSame, ZenonT(30)
<1>6. CASE \E c, d \in Callback, w \in {NOW} \cup Later : UpdateOther(c, d, w)
  <2>1. PICK d \in Callback, w \in {NOW} \cup Later :
            UpdateTimer(Cb(d), w) /\ UNCHANGED <<mutex, completion, pc, act, running, loop>>
    BY <1>6, Zenon DEF UpdateOther
  <2>2. Cb(d) \in Timer /\ w \in Time  BY <1>w, TimerFacts, Zenon
  <2>3. \A u \in Timer : u # Cb(d) => waketime'[u] = waketime[u]
    BY <1>0, <2>1, <2>2, UpdateFacts, Zenon
  <2>4. \A c \in Callback : waketime'[Gr(c)] = waketime[Gr(c)]
    BY <2>3, TimerFacts, ZenonT(30)
  <2>5. eventtime' = eventtime  BY <2>1, Zenon DEF loop
  <2>6. QED  BY <1>0, <2>1, <2>4, <2>5, StopsSame, ZenonT(30)
<1>7. QED  BY <1>1, <1>2, <1>3, <1>4, <1>5, <1>6, ZenonT(30)

\* A callback that pauses from its own code, and not in wait, disturbs nobody who waits.
LEMMA PauseKeepsWait ==
    ASSUME ReactorInv, NEW d \in Callback, NEW w \in Time, running = d, d \notin waiting,
           Pause(d, w), UNCHANGED completion, \A c \in Callback : c # d => pc'[c] = pc[c]
    PROVE  WaitInv'
<1>1. TimerInv /\ WaitInv  BY Zenon DEF ReactorInv
<1>2. running' = None /\ \A u \in Timer : u # Gr(d) => waketime'[u] = waketime[u]
  BY <1>1, PauseFacts, Zenon
<1>3. ASSUME NEW c \in waiting
      PROVE  /\ pc'[c] = pc[c] /\ running # c /\ running' # c
             /\ waketime'[Gr(c)] = waketime[Gr(c)]
  <2>1. c \in Callback /\ c # d  BY <1>1, ZenonT(30) DEF WaitInv
  <2>2. Gr(c) \in Timer /\ Gr(c) # Gr(d)  BY <2>1, TimerFacts, Zenon
  <2>3. QED  BY <1>2, <2>1, <2>2, ReactorAssumption, Zenon
<1>4. QED  BY <1>1, <1>3, WaitSame, ZenonT(30)

LEMMA LockKeeps ==
    ASSUME ReactorInv, NEW d \in Callback, Lock(d)
    PROVE  MutexInv' /\ WaitInv'
<1>1. TimerInv /\ MutexInv /\ WaitInv  BY Zenon DEF ReactorInv
<1>2. running = d /\ pc[d] = "run" /\ ~holds[d] /\ UNCHANGED completion
  BY Zenon DEF Lock, Running
<1>3. d \notin waiting  BY <1>1, <1>2, Zenon DEF WaitInv
<1>4. CASE ~is_locked
  <2>1. /\ is_locked' = TRUE /\ holds' = [holds EXCEPT ![d] = TRUE]
        /\ UNCHANGED <<now, loop, timer_vars, running, act, pc, next_pending, queue>>
    BY <1>4, Zenon DEF Lock
  <2>2. ~next_pending /\ \A c \in Callback : ~holds[c]  BY <1>1, <1>4, Zenon DEF MutexInv
  <2>3. holds \in [Callback -> BOOLEAN]  BY <1>1, Zenon DEF MutexInv
  <2>4. /\ holds' \in [Callback -> BOOLEAN] /\ holds'[d] = TRUE
        /\ \A c \in Callback : c # d => holds'[c] = holds[c]
    BY <2>1, <2>3, ZenonT(30)
  <2>5. \A b, c \in Callback : holds'[b] /\ holds'[c] => b = c  BY <2>2, <2>4, ZenonT(30)
  <2>6. MutexInv'
    BY <1>1, <2>1, <2>2, <2>4, <2>5, ZenonT(30) DEF MutexInv
  <2>7. WaitInv'
    <3>1. UNCHANGED <<running, pc, waketime, eventtime>>  BY <2>1, Zenon DEF loop, timer_vars
    <3>2. QED  BY <1>1, <1>2, <3>1, WaitSame, ZenonT(30)
  <2>8. QED  BY <2>6, <2>7, Zenon
<1>5. CASE is_locked
  <2>1. /\ queue' = Append(queue, d) /\ pc' = [pc EXCEPT ![d] = "lock"]
        /\ Pause(d, NEVER)
        /\ is_locked' = is_locked /\ next_pending' = next_pending /\ holds' = holds
    BY <1>5, Zenon DEF Lock
  <2>2. /\ queue \in Seq(Callback) /\ pc \in [Callback -> {"run", "lock", "wait"}]
        /\ act \in [Callback -> {"none", "direct", "detached"}]
        /\ \A i \in 1..Len(queue) : pc[queue[i]] = "lock"
        /\ \A i, j \in 1..Len(queue) : queue[i] = queue[j] => i = j
    BY <1>1, Zenon DEF MutexInv, TimerInv, LoopTypes
  <2>3. /\ pc' \in [Callback -> {"run", "lock", "wait"}] /\ pc'[d] = "lock"
        /\ \A c \in Callback : c # d => pc'[c] = pc[c]
    BY <2>1, <2>2, ZenonT(30)
  <2>4. /\ running' = None /\ act' = [act EXCEPT ![d] = "detached"]
        /\ \A u \in Timer : u # Gr(d) => waketime'[u] = waketime[u]
    BY <1>1, <1>2, <2>1, PauseFacts, TimeFacts, ZenonT(30)
  <2>5. /\ queue' \in Seq(Callback) /\ Len(queue') = Len(queue) + 1 /\ Len(queue) \in Nat
        /\ queue'[Len(queue) + 1] = d
        /\ \A i \in 1..Len(queue) : queue'[i] = queue[i]
    BY <2>1, <2>2, SMTT(30)
  <2>6. \A i \in 1..Len(queue') : i \in 1..Len(queue) \/ i = Len(queue) + 1
    BY <2>5, SMTT(30)
  <2>7. \A i \in 1..Len(queue) : queue[i] \in Callback /\ queue[i] # d
    BY <1>2, <2>2
  <2>8. \A i \in 1..Len(queue') : pc'[queue'[i]] = "lock"
    <3>1. ASSUME NEW i \in 1..Len(queue') PROVE pc'[queue'[i]] = "lock"
      <4>1. CASE i \in 1..Len(queue)
        <5>1. queue'[i] = queue[i] /\ queue[i] \in Callback /\ queue[i] # d  BY <2>5, <2>7, <4>1, Zenon
        <5>2. QED  BY <2>2, <2>3, <4>1, <5>1, Zenon
      <4>2. CASE i = Len(queue) + 1  BY <2>3, <2>5, <4>2, Zenon
      <4>3. QED  BY <2>6, <4>1, <4>2, Zenon
    <3>2. QED  BY <3>1, Zenon
  <2>9. \A i, j \in 1..Len(queue') : queue'[i] = queue'[j] => i = j
    <3>1. \A i \in 1..Len(queue') : queue'[i] = d => i = Len(queue) + 1
      BY <2>5, <2>6, <2>7, Zenon
    <3>2. ASSUME NEW i \in 1..Len(queue'), NEW j \in 1..Len(queue'), queue'[i] = queue'[j]
          PROVE  i = j
      <4>1. CASE queue'[i] = d  BY <3>1, <3>2, <4>1, ZenonT(30)
      <4>2. CASE queue'[i] # d
        <5>1. i \in 1..Len(queue) /\ j \in 1..Len(queue)
          <6>1. i # Len(queue) + 1 /\ j # Len(queue) + 1  BY <2>5, <3>2, <4>2, Zenon
          <6>2. QED  BY <2>6, <6>1, Zenon
        <5>2. queue[i] = queue[j]  BY <2>5, <3>2, <5>1, Zenon
        <5>3. QED  BY <2>2, <5>1, <5>2, Zenon
      <4>3. QED  BY <4>1, <4>2, Zenon
    <3>3. QED  BY <3>2, Zenon
  <2>10. \A c \in Callback : act'[c] = "none" => pc'[c] = "run"
    <3>1. \A c \in Callback : act[c] = "none" => pc[c] = "run"  BY <1>1, Zenon DEF MutexInv
    <3>2. act'[d] = "detached" /\ \A c \in Callback : c # d => act'[c] = act[c]
      BY <2>2, <2>4, ZenonT(30)
    <3>3. QED  BY <2>3, <3>1, <3>2, ZenonT(30)
  <2>11. ASSUME next_pending
         PROVE  queue' # <<>> /\ (waketime'[Gr(queue'[1])] = NOW \/ running' = queue'[1])
    <3>1. queue # <<>> /\ (waketime[Gr(queue[1])] = NOW \/ running = queue[1])
      BY <1>1, <2>11, Zenon DEF MutexInv
    <3>2. 1 \in 1..Len(queue) /\ queue' # <<>>  BY <2>2, <2>5, <3>1, SMTT(30)
    <3>3. queue'[1] = queue[1] /\ queue[1] \in Callback /\ queue[1] # d  BY <2>5, <2>7, <3>2, Zenon
    <3>4. Gr(queue[1]) \in Timer /\ Gr(queue[1]) # Gr(d)  BY <3>3, TimerFacts, Zenon
    <3>5. QED  BY <1>2, <2>4, <3>1, <3>2, <3>3, <3>4, ZenonT(30)
  <2>12. MutexInv'
    <3>1. /\ holds \in [Callback -> BOOLEAN] /\ is_locked \in BOOLEAN /\ next_pending \in BOOLEAN
          /\ \A b, c \in Callback : holds[b] /\ holds[c] => b = c
          /\ is_locked <=> next_pending \/ \E c \in Callback : holds[c]
          /\ next_pending => \A c \in Callback : ~holds[c]
      BY <1>1, ZenonT(30) DEF MutexInv
    <3>2. QED
      BY <2>1, <2>3, <2>5, <2>8, <2>9, <2>10, <2>11, <3>1, ZenonT(30) DEF MutexInv
  <2>13. WaitInv'  BY <1>2, <1>3, <2>1, <2>3, TimeFacts, PauseKeepsWait, Zenon
  <2>14. QED  BY <2>12, <2>13, Zenon
<1>6. QED  BY <1>4, <1>5, Zenon

LEMMA LockResumedKeeps ==
    ASSUME ReactorInv, NEW d \in Callback, LockResumed(d)
    PROVE  MutexInv' /\ WaitInv'
<1>1. TimerInv /\ MutexInv /\ WaitInv  BY Zenon DEF ReactorInv
<1>2. running = d /\ pc[d] = "lock" /\ UNCHANGED <<is_locked, completion>>
  BY Zenon DEF LockResumed
<1>3. d \notin waiting  BY <1>1, <1>2, Zenon DEF WaitInv
<1>q. /\ queue \in Seq(Callback) /\ pc \in [Callback -> {"run", "lock", "wait"}]
      /\ holds \in [Callback -> BOOLEAN]
      /\ act \in [Callback -> {"none", "direct", "detached"}]
      /\ \A i \in 1..Len(queue) : pc[queue[i]] = "lock"
      /\ \A i, j \in 1..Len(queue) : queue[i] = queue[j] => i = j
  BY <1>1, Zenon DEF MutexInv, TimerInv, LoopTypes
<1>4. CASE next_pending /\ Head(queue) = d
  <2>1. /\ next_pending' = FALSE /\ queue' = Tail(queue)
        /\ holds' = [holds EXCEPT ![d] = TRUE] /\ pc' = [pc EXCEPT ![d] = "run"]
        /\ UNCHANGED <<loop, timer_vars, running, act>>
    BY <1>4, Zenon DEF LockResumed
  <2>2. queue # <<>> /\ is_locked /\ \A c \in Callback : ~holds[c]
    BY <1>1, <1>4, ZenonT(30) DEF MutexInv
  <2>3. /\ queue' \in Seq(Callback) /\ Len(queue) \in Nat /\ Len(queue') = Len(queue) - 1
        /\ \A i \in 1..Len(queue') : queue'[i] = queue[i + 1] /\ i + 1 \in 1..Len(queue)
        /\ queue[1] = d /\ 1 \in 1..Len(queue)
    BY <1>q, <1>4, <2>1, <2>2, SMTT(30)
  <2>4. \A i \in 1..Len(queue') : queue[i + 1] # d
    <3>1. \A i \in 1..Len(queue') : i + 1 # 1  BY <2>3, SMTT(30)
    <3>2. QED  BY <1>q, <2>3, <3>1, ZenonT(30)
  <2>5. /\ pc' \in [Callback -> {"run", "lock", "wait"}] /\ pc'[d] = "run"
        /\ \A c \in Callback : c # d => pc'[c] = pc[c]
    BY <1>q, <2>1, ZenonT(30)
  <2>6. \A i \in 1..Len(queue') : pc'[queue'[i]] = "lock"
    <3>1. ASSUME NEW i \in 1..Len(queue') PROVE pc'[queue'[i]] = "lock"
      <4>1. queue'[i] = queue[i + 1] /\ i + 1 \in 1..Len(queue) /\ queue[i + 1] # d
        BY <2>3, <2>4, Zenon
      <4>2. queue[i + 1] \in Callback /\ pc[queue[i + 1]] = "lock"  BY <1>q, <4>1
      <4>3. QED  BY <2>5, <4>1, <4>2, ZenonT(30)
    <3>2. QED  BY <3>1, Zenon
  <2>7. \A i, j \in 1..Len(queue') : queue'[i] = queue'[j] => i = j
    <3>1. ASSUME NEW i \in 1..Len(queue'), NEW j \in 1..Len(queue'), queue'[i] = queue'[j]
          PROVE  i = j
      <4>0. /\ queue[i + 1] = queue[j + 1]
            /\ i + 1 \in 1..Len(queue) /\ j + 1 \in 1..Len(queue)
        BY <2>3, <3>1, Zenon
      <4>1. i + 1 = j + 1  BY <1>q, <4>0, Zenon
      <4>2. QED  BY <4>1
    <3>2. QED  BY <3>1, Zenon
  <2>8. /\ holds' \in [Callback -> BOOLEAN] /\ holds'[d] = TRUE
        /\ \A c \in Callback : c # d => holds'[c] = holds[c]
    BY <1>q, <2>1, ZenonT(30)
  <2>9. \A b, c \in Callback : holds'[b] /\ holds'[c] => b = c  BY <2>2, <2>8, ZenonT(30)
  <2>10. \A c \in Callback : act'[c] = "none" => pc'[c] = "run"
    BY <1>1, <2>1, <2>5, ZenonT(30) DEF MutexInv
  <2>11. is_locked' \in BOOLEAN /\ is_locked' /\ \E c \in Callback : holds'[c]
    <3>1. is_locked' = is_locked /\ is_locked \in BOOLEAN  BY <1>1, <1>2, Zenon DEF MutexInv
    <3>2. QED  BY <2>2, <2>8, <3>1, ZenonT(30)
  <2>12. MutexInv'
    BY <2>1, <2>3, <2>5, <2>6, <2>7, <2>8, <2>9, <2>10, <2>11, ZenonT(30) DEF MutexInv
  <2>13. WaitInv'
    <3>1. UNCHANGED <<running, waketime, eventtime>>  BY <2>1, Zenon DEF loop, timer_vars
    <3>2. \A c \in waiting : c \in Callback /\ c # d  BY <1>1, <1>3, Zenon DEF WaitInv
    <3>3. QED  BY <1>1, <1>2, <2>5, <3>1, <3>2, WaitSame, ZenonT(30)
  <2>14. QED  BY <2>12, <2>13, Zenon
<1>5. CASE ~(next_pending /\ Head(queue) = d)
  <2>1. Pause(d, NEVER) /\ UNCHANGED <<next_pending, queue, holds, pc>>
    BY <1>5, ZenonT(30) DEF LockResumed
  <2>2. /\ running' = None /\ act' = [act EXCEPT ![d] = "detached"]
        /\ \A u \in Timer : u # Gr(d) => waketime'[u] = waketime[u]
    BY <1>1, <1>2, <2>1, PauseFacts, TimeFacts, ZenonT(30)
  <2>3. \A c \in Callback : act'[c] = "none" => act[c] = "none"  BY <1>q, <2>2, Zenon
  <2>4. ASSUME next_pending PROVE waketime'[Gr(queue[1])] = NOW
    <3>1. queue # <<>> /\ (waketime[Gr(queue[1])] = NOW \/ running = queue[1])
      BY <1>1, <2>4, Zenon DEF MutexInv
    <3>2. queue[1] \in Callback /\ queue[1] # d  BY <1>q, <1>5, <2>4, <3>1, SMTT(30)
    <3>3. Gr(queue[1]) \in Timer /\ Gr(queue[1]) # Gr(d)  BY <3>2, TimerFacts, Zenon
    <3>4. QED  BY <1>2, <2>2, <3>1, <3>2, <3>3, ZenonT(30)
  <2>5. MutexInv'  BY <1>1, <1>2, <2>1, <2>3, <2>4, ZenonT(30) DEF MutexInv
  <2>6. WaitInv'  BY <1>2, <1>3, <2>1, TimeFacts, PauseKeepsWait, Zenon
  <2>7. QED  BY <2>5, <2>6, Zenon
<1>6. QED  BY <1>4, <1>5, Zenon

LEMMA UnlockKeeps ==
    ASSUME ReactorInv, NEW d \in Callback, Unlock(d)
    PROVE  MutexInv' /\ WaitInv'
<1>1. TimerInv /\ MutexInv /\ WaitInv  BY Zenon DEF ReactorInv
<1>2. /\ holds[d] /\ holds' = [holds EXCEPT ![d] = FALSE]
      /\ UNCHANGED <<loop, running, act, pc, queue, completion>>
  BY Zenon DEF Unlock
<1>3. holds \in [Callback -> BOOLEAN] /\ queue \in Seq(Callback)  BY <1>1, Zenon DEF MutexInv
<1>4. \A c \in Callback : ~holds'[c]
  <2>1. \A c \in Callback : holds[c] => c = d  BY <1>1, <1>2, ZenonT(30) DEF MutexInv
  <2>2. holds'[d] = FALSE /\ \A c \in Callback : c # d => holds'[c] = holds[c]
    BY <1>2, <1>3, ZenonT(30)
  <2>3. QED  BY <2>1, <2>2, ZenonT(30)
<1>5. holds' \in [Callback -> BOOLEAN]  BY <1>2, <1>3, ZenonT(30)
<1>6. ~next_pending /\ is_locked  BY <1>1, <1>2, ZenonT(30) DEF MutexInv
<1>7. CASE queue = <<>>
  <2>1. is_locked' = FALSE /\ next_pending' = next_pending /\ UNCHANGED timer_vars
    BY <1>7, Zenon DEF Unlock
  <2>2. MutexInv'  BY <1>1, <1>2, <1>4, <1>5, <1>6, <2>1, ZenonT(30) DEF MutexInv
  <2>3. UNCHANGED <<running, pc, waketime, eventtime>>  BY <1>2, <2>1, Zenon DEF loop, timer_vars
  <2>4. WaitInv'  BY <1>1, <1>2, <2>3, WaitSame, ZenonT(30)
  <2>5. QED  BY <2>2, <2>4, Zenon
<1>8. CASE queue # <<>>
  <2>1. next_pending' = TRUE /\ UpdateTimer(Gr(Head(queue)), NOW) /\ is_locked' = is_locked
    BY <1>8, Zenon DEF Unlock
  <2>2. Head(queue) = queue[1] /\ queue[1] \in Callback /\ 1 \in 1..Len(queue)
    BY <1>3, <1>8
  <2>3. Gr(queue[1]) \in Timer /\ NOW \in Time  BY <2>2, TimerFacts, TimeFacts, Zenon
  <2>4. /\ waketime'[Gr(queue[1])] = NOW
        /\ \A u \in Timer : u # Gr(queue[1]) => waketime'[u] = waketime[u]
    BY <1>1, <2>1, <2>2, <2>3, UpdateFacts, Zenon
  <2>5. MutexInv'
    BY <1>1, <1>2, <1>4, <1>5, <1>6, <1>8, <2>1, <2>4, ZenonT(30) DEF MutexInv
  <2>6. pc[queue[1]] = "lock"  BY <1>1, <2>2, Zenon DEF MutexInv
  <2>7. \A c \in waiting : waketime'[Gr(c)] = waketime[Gr(c)]
    <3>1. ASSUME NEW c \in waiting PROVE waketime'[Gr(c)] = waketime[Gr(c)]
      <4>1. c \in Callback /\ c # queue[1]  BY <1>1, <2>6, Zenon DEF WaitInv
      <4>2. Gr(c) \in Timer /\ Gr(c) # Gr(queue[1])  BY <2>2, <4>1, TimerFacts, Zenon
      <4>3. QED  BY <2>4, <4>2, Zenon
    <3>2. QED  BY <3>1, Zenon
  <2>8. UNCHANGED <<running, pc, eventtime>>  BY <1>2, Zenon DEF loop
  <2>9. WaitInv'  BY <1>1, <1>2, <2>7, <2>8, WaitSame, ZenonT(30)
  <2>10. QED  BY <2>5, <2>9, Zenon
<1>9. QED  BY <1>7, <1>8, Zenon

\* complete and async_complete
LEMMA CompleteKeeps ==
    ASSUME ReactorInv, result' = TRUE, WakeWaiting(waiting),
           UNCHANGED <<loop, timers, running, act, pc, mutex, waiting, until>>
    PROVE  MutexInv' /\ WaitInv'
<1>1. TimerInv /\ MutexInv /\ WaitInv  BY Zenon DEF ReactorInv
<1>2. waiting \in SUBSET Callback  BY <1>1, ZenonT(30) DEF WaitInv
<1>3. /\ \A c \in waiting : waketime'[Gr(c)] = NOW
      /\ \A c \in Callback \ waiting : waketime'[Gr(c)] = waketime[Gr(c)]
  BY <1>1, <1>2, WakeFacts, Zenon
<1>4. MutexInv'
  <2>1. UNCHANGED <<is_locked, next_pending, queue, holds>>  BY Zenon DEF mutex
  <2>2. ASSUME next_pending PROVE waketime'[Gr(queue[1])] = NOW \/ running = queue[1]
    <3>1. queue # <<>> /\ (waketime[Gr(queue[1])] = NOW \/ running = queue[1])
          /\ queue \in Seq(Callback)
      BY <1>1, <2>2, Zenon DEF MutexInv
    <3>2. queue[1] \in Callback  BY <3>1
    <3>3. QED  BY <1>3, <3>1, <3>2, ZenonT(30)
  <2>3. QED  BY <1>1, <2>1, <2>2, ZenonT(30) DEF MutexInv
<1>5. WaitInv'  BY <1>1, <1>3, ZenonT(30) DEF WaitInv
<1>6. QED  BY <1>4, <1>5, Zenon

LEMMA WaitKeeps ==
    ASSUME ReactorInv, NEW d \in Callback, NEW w \in Time, Wait(d, w)
    PROVE  MutexInv' /\ WaitInv'
<1>1. TimerInv /\ MutexInv /\ WaitInv  BY Zenon DEF ReactorInv
<1>2. /\ running = d /\ pc[d] = "run" /\ ~result /\ waiting' = waiting \cup {d}
      /\ until' = [until EXCEPT ![d] = w] /\ pc' = [pc EXCEPT ![d] = "wait"]
      /\ Pause(d, w) /\ UNCHANGED <<mutex, result>>
  BY Zenon DEF Wait, Running
<1>3. /\ queue \in Seq(Callback) /\ pc \in [Callback -> {"run", "lock", "wait"}]
      /\ act \in [Callback -> {"none", "direct", "detached"}] /\ until \in [Callback -> Time]
      /\ \A i \in 1..Len(queue) : pc[queue[i]] = "lock"
  BY <1>1, Zenon DEF MutexInv, WaitInv, TimerInv, LoopTypes
<1>4. /\ pc' \in [Callback -> {"run", "lock", "wait"}] /\ pc'[d] = "wait"
      /\ \A c \in Callback : c # d => pc'[c] = pc[c]
      /\ until' \in [Callback -> Time] /\ until'[d] = w
      /\ \A c \in Callback : c # d => until'[c] = until[c]
  BY <1>2, <1>3, ZenonT(30)
<1>5. /\ running' = None /\ act' = [act EXCEPT ![d] = "detached"] /\ waketime'[Gr(d)] = w
      /\ \A u \in Timer : u # Gr(d) => waketime'[u] = waketime[u]
  BY <1>1, <1>2, PauseFacts, Zenon
<1>6. \A c \in Callback : running' # c  BY <1>5, ReactorAssumption, Zenon
<1>7. MutexInv'
  <2>1. UNCHANGED <<is_locked, next_pending, queue, holds>>  BY <1>2, Zenon DEF mutex
  <2>2. \A i \in 1..Len(queue) : queue[i] \in Callback /\ queue[i] # d  BY <1>2, <1>3
  <2>3. \A i \in 1..Len(queue) : pc'[queue[i]] = "lock"  BY <1>3, <1>4, <2>2, ZenonT(30)
  <2>4. ASSUME next_pending PROVE waketime'[Gr(queue[1])] = NOW \/ running' = queue[1]
    <3>1. queue # <<>> /\ (waketime[Gr(queue[1])] = NOW \/ running = queue[1])
      BY <1>1, <2>4, Zenon DEF MutexInv
    <3>2. 1 \in 1..Len(queue)  BY <1>3, <3>1
    <3>3. queue[1] \in Callback /\ queue[1] # d  BY <2>2, <3>2, Zenon
    <3>4. Gr(queue[1]) \in Timer /\ Gr(queue[1]) # Gr(d)  BY <3>3, TimerFacts, Zenon
    <3>5. QED  BY <1>2, <1>5, <3>1, <3>3, <3>4, ZenonT(30)
  <2>5. \A c \in Callback : act'[c] = "none" => pc'[c] = "run"
    <3>1. \A c \in Callback : act[c] = "none" => pc[c] = "run"  BY <1>1, Zenon DEF MutexInv
    <3>2. act'[d] = "detached" /\ \A c \in Callback : c # d => act'[c] = act[c]
      BY <1>3, <1>5, ZenonT(30)
    <3>3. QED  BY <1>4, <3>1, <3>2, ZenonT(30)
  <2>6. QED  BY <1>1, <1>4, <2>1, <2>3, <2>4, <2>5, MutexSame, ZenonT(30)
<1>8. WaitInv'
  <2>1. result' = result /\ result \in BOOLEAN  BY <1>1, <1>2, Zenon DEF WaitInv
  <2>2. waiting' \subseteq Callback  BY <1>1, <1>2, ZenonT(30) DEF WaitInv
  <2>3. ASSUME NEW c \in waiting'
        PROVE  pc'[c] = "wait" /\ waketime'[Gr(c)] = IF result' THEN NOW ELSE until'[c]
    <3>1. CASE c = d  BY <1>2, <1>4, <1>5, <2>1, <3>1
    <3>2. CASE c # d
      <4>1. c \in waiting /\ c \in Callback /\ running # c  BY <1>1, <1>2, <2>3, <3>2, ZenonT(30) DEF WaitInv
      <4>2. Gr(c) \in Timer /\ Gr(c) # Gr(d)  BY <3>2, <4>1, TimerFacts, Zenon
      <4>3. pc[c] = "wait" /\ waketime[Gr(c)] = IF result THEN NOW ELSE until[c]
        BY <1>1, <4>1, Zenon DEF WaitInv
      <4>4. QED  BY <1>4, <1>5, <2>1, <3>2, <4>1, <4>2, <4>3, ZenonT(30)
    <3>3. QED  BY <3>1, <3>2, ZenonT(30)
  <2>4. QED  BY <1>4, <1>6, <2>1, <2>2, <2>3, ZenonT(30) DEF WaitInv
<1>9. QED  BY <1>7, <1>8, Zenon

LEMMA WaitResumedKeeps ==
    ASSUME ReactorInv, NEW d \in Callback, WaitResumed(d)
    PROVE  MutexInv' /\ WaitInv'
<1>1. TimerInv /\ MutexInv /\ WaitInv  BY Zenon DEF ReactorInv
<1>2. /\ running = d /\ pc[d] = "wait" /\ waiting' = waiting \ {d}
      /\ until' = [until EXCEPT ![d] = NEVER] /\ pc' = [pc EXCEPT ![d] = "run"]
      /\ UNCHANGED <<loop, timer_vars, running, act, mutex, result>>
  BY ZenonT(30) DEF WaitResumed
<1>3. /\ queue \in Seq(Callback) /\ pc \in [Callback -> {"run", "lock", "wait"}]
      /\ until \in [Callback -> Time] /\ NEVER \in Time
      /\ \A i \in 1..Len(queue) : pc[queue[i]] = "lock"
  BY <1>1, TimeFacts, Zenon DEF MutexInv, WaitInv
<1>4. /\ pc' \in [Callback -> {"run", "lock", "wait"}] /\ pc'[d] = "run"
      /\ \A c \in Callback : c # d => pc'[c] = pc[c]
      /\ until' \in [Callback -> Time]
      /\ \A c \in Callback : c # d => until'[c] = until[c]
  BY <1>2, <1>3, ZenonT(30)
<1>5. UNCHANGED <<is_locked, next_pending, queue, holds, waketime, eventtime, running, act>>
  BY <1>2, Zenon DEF mutex, loop, timer_vars
<1>6. MutexInv'
  <2>1. \A i \in 1..Len(queue) : queue[i] \in Callback /\ queue[i] # d  BY <1>2, <1>3
  <2>2. \A i \in 1..Len(queue) : pc'[queue[i]] = "lock"  BY <1>3, <1>4, <2>1, ZenonT(30)
  <2>3. \A c \in Callback : act[c] = "none" => pc'[c] = "run"
    BY <1>1, <1>4, ZenonT(30) DEF MutexInv
  <2>4. next_pending => waketime'[Gr(queue[1])] = NOW \/ running' = queue[1]
    BY <1>1, <1>5, ZenonT(30) DEF MutexInv
  <2>5. \A c \in Callback : act'[c] = "none" => pc'[c] = "run"  BY <1>5, <2>3, ZenonT(30)
  <2>6. QED  BY <1>1, <1>4, <1>5, <2>2, <2>4, <2>5, MutexSame, ZenonT(30)
<1>7. WaitInv'
  <2>1. waiting \subseteq Callback  BY <1>1, Zenon DEF WaitInv
  <2>2. \A c \in waiting' : c \in waiting /\ c \in Callback /\ c # d  BY <1>2, <2>1, Zenon
  <2>3. waiting' \subseteq Callback  BY <2>2, Zenon
  <2>4. QED  BY <1>1, <1>2, <1>4, <1>5, <2>2, <2>3, ZenonT(30) DEF WaitInv
<1>8. QED  BY <1>6, <1>7, Zenon

LEMMA StopsKept ==
    ASSUME ReactorInv, [Next]_vars
    PROVE  MutexInv' /\ WaitInv'
<1>0. TimerInv /\ MutexInv /\ WaitInv  BY Zenon DEF ReactorInv
<1>1. CASE \/ Tick \/ CheckTimers \/ ScanEnd \/ SelectTimeout
           \/ AsyncPut \/ AsyncWrite \/ ReadPipe \/ DrainEmpty
           \/ \E t \in Timer : SkipTimer(t) \/ CallTimer(t)
           \/ \E c \in Callback, w \in {NOW} \cup Later : Sleep(c, w)
           \/ \E c \in Callback, w \in Later : Return(c, w)
           \/ \E c, d \in Callback, w \in {NOW} \cup Later : UpdateOther(c, d, w)
           \/ UNCHANGED vars
  BY <1>1, LoopKeepsStops, Zenon
<1>2. CASE \E c \in Callback : Lock(c) \/ LockResumed(c) \/ Unlock(c) \/ WaitResumed(c)
  BY <1>2, LockKeeps, LockResumedKeeps, UnlockKeeps, WaitResumedKeeps, ZenonT(30)
<1>3. CASE \E c \in Callback : Complete(c)
  <2>1. /\ result' = TRUE /\ WakeWaiting(waiting)
        /\ UNCHANGED <<loop, timers, running, act, pc, mutex, waiting, until>>
    BY <1>3, Zenon DEF Complete
  <2>2. QED  BY <2>1, CompleteKeeps, Zenon
<1>4. CASE \E c \in Callback, w \in Later : Wait(c, w)
  <2>1. Later \subseteq Time  BY Zenon DEF Later
  <2>2. QED  BY <1>4, <2>1, WaitKeeps, ZenonT(30)
<1>5. CASE NewCompletion
  <2>1. /\ waiting = {} /\ result' = FALSE
        /\ UNCHANGED <<loop, timer_vars, running, act, pc, mutex, waiting, until>>
    BY <1>5, Zenon DEF NewCompletion
  <2>2. MutexInv'  BY <1>0, <2>1, ZenonT(30) DEF MutexInv, mutex, timer_vars
  <2>3. WaitInv'  BY <1>0, <2>1, ZenonT(30) DEF WaitInv
  <2>4. QED  BY <2>2, <2>3, Zenon
<1>6. CASE DrainItem
  <2>1. /\ UNCHANGED <<loop, timers, running, act, pc, mutex, waiting, until>>
        /\ \/ result' = TRUE /\ WakeWaiting(waiting)
           \/ /\ result' = result
              /\ \/ \E c \in Callback : UpdateTimer(Cb(c), NOW)
                 \/ UNCHANGED <<waketime, next_timer>>
    BY <1>6, ZenonT(30) DEF DrainItem
  <2>2. CASE result' = TRUE /\ WakeWaiting(waiting)  BY <2>1, <2>2, CompleteKeeps, Zenon
  <2>3. CASE /\ result' = result
             /\ \/ \E c \in Callback : UpdateTimer(Cb(c), NOW)
                \/ UNCHANGED <<waketime, next_timer>>
    <3>1. \A c \in Callback : waketime'[Gr(c)] = waketime[Gr(c)]
      <4>1. CASE \E d \in Callback : UpdateTimer(Cb(d), NOW)
        <5>1. PICK d \in Callback : UpdateTimer(Cb(d), NOW)  BY <4>1, ZenonT(30)
        <5>2. \A u \in Timer : u # Cb(d) => waketime'[u] = waketime[u]
          BY <1>0, <5>1, UpdateFacts, TimerFacts, TimeFacts, Zenon
        <5>3. QED  BY <5>2, TimerFacts, ZenonT(30)
      <4>2. CASE UNCHANGED <<waketime, next_timer>>  BY <4>2, Zenon
      <4>3. QED  BY <2>3, <4>1, <4>2, Zenon
    <3>2. UNCHANGED <<mutex, completion, pc, act, running, eventtime>>
      BY <2>1, <2>3, Zenon DEF completion, loop
    <3>3. \A c \in Callback : act[c] = "none" => pc[c] = "run"  BY <1>0, Zenon DEF MutexInv
    <3>4. QED  BY <3>1, <3>2, <3>3, StopsSame, ZenonT(30)
  <2>4. QED  BY <2>1, <2>2, <2>3, ZenonT(30)
<1>7. QED  BY <1>1, <1>2, <1>3, <1>4, <1>5, <1>6, ZenonT(30) DEF Next

\* The loop leaves "drain" only when the queue is empty, and enters it only by
\* emptying the pipe.
LEMMA AsyncKept ==
    ASSUME ReactorInv, [Next]_vars
    PROVE  AsyncInv'
<1>0. AsyncInv /\ TimerInv  BY Zenon DEF ReactorInv
<1>1. CASE AsyncPut
  <2>1. /\ thread' = "write" /\ pipe' = pipe
        /\ \E item \in {"complete", "callback"} : async_queue' = Append(async_queue, item)
    BY <1>1, Zenon DEF AsyncPut
  <2>2. async_queue' \in Seq({"complete", "callback"})  BY <1>0, <2>1 DEF AsyncInv
  <2>3. QED  BY <1>0, <2>1, <2>2, ZenonT(30) DEF AsyncInv
<1>2. CASE AsyncWrite  BY <1>0, <1>2, ZenonT(30) DEF AsyncWrite, AsyncInv
<1>3. CASE ReadPipe  BY <1>0, <1>3, ZenonT(30) DEF ReadPipe, AsyncInv
<1>4. CASE DrainEmpty  BY <1>0, <1>4, ZenonT(30) DEF DrainEmpty, AsyncInv, async
<1>5. CASE DrainItem
  <2>1. /\ at = "drain" /\ at' = at /\ pipe' = pipe
        /\ async_queue # <<>> /\ async_queue' = Tail(async_queue)
    BY <1>5, Zenon DEF DrainItem, loop
  <2>2. async_queue' \in Seq({"complete", "callback"})  BY <1>0, <2>1 DEF AsyncInv
  <2>3. QED  BY <1>0, <2>1, <2>2, ZenonT(30) DEF AsyncInv
<1>6. ASSUME UNCHANGED async, at = "drain" => at' = "drain" PROVE AsyncInv'
  BY <1>0, <1>6, ZenonT(30) DEF AsyncInv, async
<1>7. CASE \/ Tick \/ CheckTimers \/ ScanEnd \/ SelectTimeout \/ NewCompletion
           \/ (\E t \in Timer : SkipTimer(t) \/ CallTimer(t))
           \/ (\E c \in Callback : WaitResumed(c) \/ Unlock(c) \/ Complete(c))
           \/ (\E c \in Callback, w \in Later : Return(c, w))
           \/ (\E c, d \in Callback, w \in {NOW} \cup Later : UpdateOther(c, d, w))
           \/ UNCHANGED vars
  <2>1. UNCHANGED async /\ (at' = at \/ at \in {"top", "scan", "select"})
    BY <1>7, ZenonT(30)
       DEF Tick, CheckTimers, ScanEnd, SelectTimeout, NewCompletion, SkipTimer, CallTimer,
           WaitResumed, Unlock, Complete, Return, UpdateOther, vars, loop
  <2>2. QED  BY <1>6, <2>1, Zenon
<1>8. CASE \/ \E c \in Callback, w \in {NOW} \cup Later : Sleep(c, w)
           \/ \E c \in Callback, w \in Later : Wait(c, w)
           \/ \E c \in Callback : Lock(c) \/ LockResumed(c)
  <2>1. PICK c \in Callback : running = c /\ UNCHANGED async
    BY <1>8, ZenonT(30) DEF Sleep, Wait, Lock, LockResumed, Running
  <2>2. at = "scan"  BY <1>0, <2>1, ReactorAssumption, Zenon DEF TimerInv, TimersTrue
  <2>3. QED  BY <1>6, <2>1, <2>2, Zenon
<1>9. QED  BY <1>1, <1>2, <1>3, <1>4, <1>5, <1>7, <1>8, ZenonT(30) DEF Next

LEMMA InitReactor ==
    ASSUME Init
    PROVE  ReactorInv
<1> USE DEF Init
<1>1. waketime \in [Timer -> Time] /\ \A c \in Callback : waketime[Gr(c)] = NEVER
  <2>1. waketime \in [Timer -> {NOW, NEVER}]  BY Zenon
  <2>2. QED  BY <2>1, TimeFacts
<1>2. timers = {Cb(c) : c \in Callback} /\ timers \subseteq Timer  BY Zenon DEF Timer
<1>3. next_timer \in Time /\ \A t \in Timer : next_timer <= waketime[t]
  <2>1. CASE \E t \in Timer : waketime[t] = NOW
    <3>1. next_timer = NOW  BY <2>1, Zenon
    <3>2. QED  BY <1>1, <3>1, TimeFacts, ZenonT(30)
  <2>2. CASE ~ \E t \in Timer : waketime[t] = NOW
    <3>1. next_timer = NEVER  BY <2>2, Zenon
    <3>2. waketime \in [Timer -> {NOW, NEVER}]  BY Zenon
    <3>3. \A t \in Timer : waketime[t] = NEVER  BY <2>2, <3>2, Zenon
    <3>4. NEVER <= NEVER  BY TimeFacts, Zenon
    <3>5. QED  BY <3>1, <3>3, <3>4, TimeFacts, Zenon
  <2>3. QED  BY <2>1, <2>2, Zenon
<1>4. LoopTypes
  <2>1. now \in Nat /\ now <= MaxTime /\ eventtime \in Nat /\ eventtime <= now
    BY ReactorAssumption, SMTT(30)
  <2>2. act \in [Callback -> {"none", "direct", "detached"}]  BY ZenonT(30)
  <2>3. QED  BY <1>1, <1>2, <1>3, <2>1, <2>2, ZenonT(30) DEF LoopTypes
<1>5. TimersTrue
  <2>1. \A c \in Callback : Gr(c) \notin timers  BY <1>2, TimerFacts, ZenonT(30)
  <2>2. \A c \in Callback : act[c] = "none"  BY Zenon
  <2>3. QED  BY <2>1, <2>2, ZenonT(30) DEF TimersTrue
<1>6. NextTimerSound  BY <1>2, <1>3, Zenon DEF NextTimerSound
<1>7. MutexInv
  <2>1. queue \in Seq(Callback) /\ 1..Len(queue) = {}  OBVIOUS
  <2>2. pc \in [Callback -> {"run", "lock", "wait"}] /\ \A c \in Callback : pc[c] = "run"
    BY ZenonT(30)
  <2>3. holds \in [Callback -> BOOLEAN] /\ \A c \in Callback : holds[c] = FALSE
    BY ZenonT(30)
  <2>4. QED  BY <2>1, <2>2, <2>3, ZenonT(30) DEF MutexInv
<1>8. WaitInv
  <2>1. until \in [Callback -> Time]  BY TimeFacts, ZenonT(30)
  <2>2. QED  BY <2>1, ZenonT(30) DEF WaitInv
<1>9. AsyncInv
  <2>1. async_queue \in Seq({"complete", "callback"})  OBVIOUS
  <2>2. QED  BY <2>1, ZenonT(30) DEF AsyncInv
<1>10. QED  BY <1>4, <1>5, <1>6, <1>7, <1>8, <1>9, ZenonT(30) DEF ReactorInv, TimerInv

-----------------------------------------------------------------------------
(* Theorems *)

LEMMA ReactorInvariant == Spec => []ReactorInv
<1>1. Init => ReactorInv  BY InitReactor, Zenon
<1>2. ReactorInv /\ [Next]_vars => ReactorInv'
  BY TimersKept, StopsKept, AsyncKept, Zenon DEF ReactorInv
<1>3. QED  BY <1>1, <1>2, PTL DEF Spec

\* _next_timer is never after a waketime that the scan under way has yet to
\* miss: no timer is overlooked, whoever changes timers during the scan.
THEOREM NoTimerOverlooked == Spec => []NextTimerSound
<1>1. ReactorInv => NextTimerSound  BY Zenon DEF ReactorInv, TimerInv
<1>2. QED  BY <1>1, ReactorInvariant, PTL

\* At most one callback has a ReactorMutex, it is locked just when it is held or
\* handed over, and the callback it is handed to is due or running.
THEOREM MutexIsExclusive == Spec => []MutualExclusion
<1>1. ReactorInv => MutualExclusion
  <2> SUFFICES ASSUME ReactorInv PROVE MutualExclusion
    BY Zenon
  <2>1. TimerInv /\ MutexInv /\ WaitInv  BY Zenon DEF ReactorInv
  <2>2. TypeOK
    <3>1. now \in 0..MaxTime /\ eventtime \in 0..now
      BY <2>1, ReactorAssumption, SMTT(30) DEF TimerInv, LoopTypes
    <3>2. todo \subseteq Timer  BY <2>1, Zenon DEF TimerInv, LoopTypes
    <3>3. QED
      BY <2>1, <3>1, <3>2, ZenonT(30)
         DEF TypeOK, TimerInv, LoopTypes, TimersTrue, MutexInv, WaitInv
  <2>3. Cardinality({c \in Callback : holds[c]}) + (IF next_pending THEN 1 ELSE 0) <= 1
    <3>1. CASE \A c \in Callback : ~holds[c]
      <4>1. {c \in Callback : holds[c]} = {}  BY <3>1, Zenon
      <4>2. Cardinality({c \in Callback : holds[c]}) = 0  BY <4>1, FS_EmptySet, Zenon
      <4>3. QED  BY <4>2, SMTT(30)
    <3>2. CASE \E c \in Callback : holds[c]
      <4>1. PICK c \in Callback : holds[c]  BY <3>2, Zenon
      <4>2. {d \in Callback : holds[d]} = {c}  BY <2>1, <4>1, ZenonT(30) DEF MutexInv
      <4>3. Cardinality({d \in Callback : holds[d]}) = 1  BY <4>2, FS_Singleton, Zenon
      <4>4. ~next_pending  BY <2>1, <4>1, ZenonT(30) DEF MutexInv
      <4>5. QED  BY <4>3, <4>4, SMTT(30)
    <3>3. QED  BY <3>1, <3>2, Zenon
  <2>4. queue # <<>> => Head(queue) = queue[1]  BY <2>1 DEF MutexInv
  <2>5. QED  BY <2>1, <2>2, <2>3, <2>4, ZenonT(30) DEF MutualExclusion, MutexInv
<1>2. QED  BY <1>1, ReactorInvariant, PTL

\* Who waits for a completion is due once it is finished and never times out
\* early; an item another thread put is never left behind with the pipe empty.
THEOREM NobodyMissed == Spec => []NothingMissed
<1>1. ReactorInv => NothingMissed
  <2> SUFFICES ASSUME ReactorInv PROVE NothingMissed
    BY Zenon
  <2>1. WaitInv /\ AsyncInv  BY Zenon DEF ReactorInv
  <2>2. QED  BY <2>1, ZenonT(30) DEF NothingMissed, WaitInv, AsyncInv
<1>2. QED  BY <1>1, ReactorInvariant, PTL
====
