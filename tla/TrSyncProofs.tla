---------------------------- MODULE TrSyncProofs ----------------------------
(***************************************************************************)
(* Proofs about TrSync, for any number of micro-controllers, any timing    *)
(* constants and any faults: no message of one homing operation is used in *)
(* the next one, and the steppers stop in time.                            *)
(***************************************************************************)
EXTENDS TrSyncStepProofs

-----------------------------------------------------------------------------
(* What a step does to the conversation with m *)

\* m and the host are where they were.
SamePlace(m) ==
    /\ starts' = starts /\ session'[m] = session[m]
    /\ (m \in cut <=> m \in cut') /\ (m \in mcu_shutdown <=> m \in mcu_shutdown')

SameHost(m) ==
    /\ host' = host /\ (m \in querying <=> m \in querying') /\ result'[m] = result[m]

\* Nothing is sent, and m stays silent if it is.
LEMMA KeepsTalk ==
    ASSUME NEW m, TalkAt(m), SamePlace(m),
           to_mcu'[m] = to_mcu[m], Shrunk(to_host[m], to_host'[m]), Silent(m) => Silent(m)',
           \/ host' = "shutdown"
           \/ /\ host # "shutdown"
              /\ m \in querying <=> m \in querying'
              /\ result'[m] = result[m]
              /\ host' = "idle" => host = "idle" \/ result[m] # Never
    PROVE  TalkAt(m)'
<1>1. OfNow(m)'
  <2>1. \A i \in Cmds(m)' : to_mcu'[m][i].of = starts'
    BY Zenon DEF TalkAt, OfNow, SamePlace, Cmds
  <2>2. \A i \in Msgs(m)' : to_host'[m][i].op = "state" => to_host'[m][i].of = starts'
    BY Zenon DEF TalkAt, OfNow, SamePlace, Msgs, Shrunk
  <2>3. QED  BY <2>1, <2>2, Zenon DEF OfNow
<1>2. (Off(m) => NoCommand(m))'
  BY Zenon DEF TalkAt, SamePlace, Off, NoCommand, Cmds
<1>3. (session[m] # starts => Unstarted(m))'
  BY Zenon DEF TalkAt, SamePlace, Off, Unstarted, Cmds
<1>4. ASSUME host' # "shutdown" PROVE QueryLast(m)'
  <2>1. QueryLast(m) /\ (m \in querying <=> m \in querying')  BY <1>4, Zenon DEF TalkAt
  <2>2. NoCommand(m) => NoCommand(m)'  BY Zenon DEF NoCommand, Cmds
  <2>3. ASSUME NEW i \in Cmds(m)', to_mcu'[m][i].op = "query"
        PROVE  /\ m \in querying'
               /\ \A j \in Cmds(m)' : j <= i
               /\ \A j \in Msgs(m)' : to_host'[m][j].op # "ack"
    <3>1. i \in Cmds(m) /\ to_mcu[m][i].op = "query"  BY <2>3, Zenon DEF Cmds
    <3>2. QED  BY <2>1, <3>1, Zenon DEF QueryLast, Cmds, Msgs, Shrunk
  <2>4. ASSUME NEW i \in Msgs(m)', to_host'[m][i].op = "ack"
        PROVE  /\ m \in querying' /\ Silent(m)' /\ NoCommand(m)'
               /\ \A j \in Msgs(m)' : i < j => to_host'[m][j].op = "shutdown"
    <3>1. PICK j \in Msgs(m) :
             /\ to_host[m][j].op = "ack"
             /\ \A k \in Msgs(m)' : i < k =>
                   \E l \in Msgs(m) : j < l /\ to_host'[m][k] = to_host[m][l]
      BY <2>4, Zenon DEF Msgs, Shrunk
    <3>2. /\ m \in querying /\ Silent(m) /\ NoCommand(m)
          /\ \A l \in Msgs(m) : j < l => to_host[m][l].op = "shutdown"
      BY <2>1, <3>1, Zenon DEF QueryLast
    <3>3. QED  BY <2>1, <2>2, <3>1, <3>2, Zenon
  <2>5. QED  BY <2>3, <2>4, Zenon DEF QueryLast
<1>5. ASSUME host' # "shutdown", host' = "idle" \/ result'[m] # Never
      PROVE  Drained(m)'
  <2>1. Drained(m)  BY <1>5, Zenon DEF TalkAt
  <2>2. QED  BY <2>1, Zenon DEF Drained, NoCommand, Cmds, Msgs, Shrunk
<1>6. QED  BY <1>1, <1>2, <1>3, <1>4, <1>5, Zenon DEF TalkAt

LEMMA HostFrame ==
    ASSUME HostTypes, UNCHANGED <<python, trdispatch>>, now' \in Nat
    PROVE  HostTypes'
BY Zenon DEF HostTypes, python, trdispatch

LEMMA McuFrame ==
    ASSUME McuTypes, UNCHANGED <<trsync, read_time>>
    PROVE  McuTypes'
BY Zenon DEF McuTypes, trsync

-----------------------------------------------------------------------------
(* The steps of the host *)

\* The conversations stay in the operation when the host takes a step.
LEMMA HostKeeps ==
    /\ SessionInv
    /\ \/ HomeStart \/ HomeActivate \/ HomeStop \/ HomeDone \/ HostLostMcu
       \/ \E m \in Mcus : Query(m) \/ HostAck(m) \/ HostState(m) \/ HostShutdown(m)
    => Types' /\ (\A x \in Mcus : TalkAt(x)') /\ stale' = FALSE
\* The host sends commands, none of them a query, when it has no query to m.
<1>SayTalk. ASSUME NEW m, TalkAt(m), SamePlace(m), Shrunk(to_host[m], to_host'[m]),
                   Silent(m) => Silent(m)',
                   to_mcu'[m] = to_mcu[m] \/ (~Off(m) /\ Extended(to_mcu[m], to_mcu'[m], Orders)),
                   \/ host' = "shutdown"
                   \/ /\ host # "shutdown" /\ host' # "idle"
                      /\ m \notin querying /\ m \notin querying' /\ result'[m] = Never
            PROVE  TalkAt(m)'
  <2> USE <1>SayTalk
  <2>1. CASE to_mcu'[m] = to_mcu[m]
    <3>1. \/ host' = "shutdown"
          \/ host # "shutdown" /\ QueryLast(m)
      BY Zenon DEF TalkAt
    <3>2. OfNow(m)'
      <4>1. \A i \in Cmds(m)' : to_mcu'[m][i].of = starts'
        BY <2>1, Zenon DEF TalkAt, OfNow, SamePlace, Cmds
      <4>2. \A i \in Msgs(m)' : to_host'[m][i].op = "state" => to_host'[m][i].of = starts'
        BY ZenonT(30) DEF TalkAt, OfNow, SamePlace, Msgs, Shrunk
      <4>3. QED  BY <4>1, <4>2, Zenon DEF OfNow
    <3>3. (Off(m) => NoCommand(m))' /\ (session[m] # starts => Unstarted(m))'
      BY <2>1, Zenon DEF TalkAt, SamePlace, Off, NoCommand, Unstarted, Cmds
    <3>4. ASSUME host' # "shutdown" PROVE QueryLast(m)'
      BY <2>1, <3>1, <3>4, Zenon DEF QueryLast, Cmds, Msgs, Shrunk
    <3>5. QED  BY <3>2, <3>3, <3>4, Zenon DEF TalkAt
  <2>2. CASE ~Off(m) /\ Extended(to_mcu[m], to_mcu'[m], Orders)
    <3>1. \A i \in Cmds(m)' : \/ i \in Cmds(m) /\ to_mcu'[m][i] = to_mcu[m][i]
                              \/ to_mcu'[m][i].of = starts /\ to_mcu'[m][i].op # "query"
      BY <2>2, Zenon DEF Extended, Orders, Cmds
    <3>2. OfNow(m)'
      <4>1. \A i \in Cmds(m)' : to_mcu'[m][i].of = starts'
        BY <3>1, Zenon DEF TalkAt, OfNow, SamePlace
      <4>2. \A i \in Msgs(m)' : to_host'[m][i].op = "state" => to_host'[m][i].of = starts'
        BY Zenon DEF TalkAt, OfNow, SamePlace, Msgs, Shrunk
      <4>3. QED  BY <4>1, <4>2, Zenon DEF OfNow
    <3>3. ~Off(m)'  BY <2>2, Zenon DEF Off, SamePlace
    <3>4. (session[m] # starts => Unstarted(m))'
      <4>1. 1 \in Cmds(m) => 1 \in Cmds(m)' /\ to_mcu'[m][1] = to_mcu[m][1]
        BY <2>2, Zenon DEF Extended, Cmds
      <4>2. QED  BY <2>2, <4>1, Zenon DEF TalkAt, SamePlace, Unstarted
    <3>5. ASSUME host' # "shutdown" PROVE QueryLast(m)'
      <4>1. QueryLast(m) /\ m \notin querying  BY <3>5, Zenon DEF TalkAt
      <4>2. \A i \in Cmds(m)' : to_mcu'[m][i].op # "query"  BY <3>1, <4>1, Zenon DEF QueryLast
      <4>3. \A i \in Msgs(m)' : to_host'[m][i].op # "ack"
        BY <4>1, Zenon DEF QueryLast, Msgs, Shrunk
      <4>4. QED  BY <4>2, <4>3, Zenon DEF QueryLast
    <3>6. QED  BY <3>2, <3>3, <3>4, <3>5, Zenon DEF TalkAt
  <2>3. QED  BY <2>1, <2>2, Zenon
\* The host asks m, when it has no answer of m.
<1>AskTalk. ASSUME NEW m, TalkAt(m), SamePlace(m), Shrunk(to_host[m], to_host'[m]),
                   Silent(m) => Silent(m)',
                   \/ to_mcu'[m] = to_mcu[m]
                   \/ /\ ~Off(m) /\ Extended(to_mcu[m], to_mcu'[m], Queries)
                      /\ \A i \in Cmds(m)' : i \notin Cmds(m) => \A j \in Cmds(m)' : j <= i,
                   \A i \in Cmds(m) : to_mcu[m][i].op # "query",
                   \A i \in Msgs(m)' : to_host'[m][i].op # "ack",
                   host' = host, host # "idle", m \in querying', result'[m] = Never
            PROVE  TalkAt(m)'
  <2> USE <1>AskTalk
  <2>1. \A i \in Msgs(m)' : to_host'[m][i].op = "state" => to_host'[m][i].of = starts'
    BY Zenon DEF TalkAt, OfNow, SamePlace, Msgs, Shrunk
  <2>2. CASE to_mcu'[m] = to_mcu[m]
    <3>1. OfNow(m)'  BY <2>1, <2>2, Zenon DEF TalkAt, OfNow, SamePlace, Cmds
    <3>2. (Off(m) => NoCommand(m))' /\ (session[m] # starts => Unstarted(m))'
      BY <2>2, Zenon DEF TalkAt, SamePlace, Off, NoCommand, Unstarted, Cmds
    <3>3. QueryLast(m)'  BY <2>2, Zenon DEF QueryLast, Cmds
    <3>4. QED  BY <3>1, <3>2, <3>3, Zenon DEF TalkAt
  <2>3. CASE /\ ~Off(m) /\ Extended(to_mcu[m], to_mcu'[m], Queries)
             /\ \A i \in Cmds(m)' : i \notin Cmds(m) => \A j \in Cmds(m)' : j <= i
    <3>1. \A i \in Cmds(m)' : \/ i \in Cmds(m) /\ to_mcu'[m][i] = to_mcu[m][i]
                              \/ i \notin Cmds(m) /\ to_mcu'[m][i].of = starts
      BY <2>3, Zenon DEF Extended, Queries, Cmds
    <3>2. OfNow(m)'  BY <2>1, <3>1, Zenon DEF TalkAt, OfNow, SamePlace
    <3>3. ~Off(m)'  BY <2>3, Zenon DEF Off, SamePlace
    <3>4. (session[m] # starts => Unstarted(m))'
      <4>1. 1 \in Cmds(m) => 1 \in Cmds(m)' /\ to_mcu'[m][1] = to_mcu[m][1]
        BY <2>3, Zenon DEF Extended, Cmds
      <4>2. QED  BY <2>3, <4>1, Zenon DEF TalkAt, SamePlace, Unstarted
    <3>5. QueryLast(m)'  BY <2>3, <3>1, Zenon DEF QueryLast
    <3>6. QED  BY <3>2, <3>3, <3>4, <3>5, Zenon DEF TalkAt
  <2>4. QED  BY <2>2, <2>3, Zenon
\* The answer of m is complete: nothing is on its way.
<1>AckTalk. ASSUME NEW m, TalkAt(m), SamePlace(m), host' = host, host # "shutdown",
                   to_mcu'[m] = to_mcu[m], Popped(to_host[m], to_host'[m]),
                   to_host[m][1].op = "ack", Silent(m) => Silent(m)'
            PROVE  TalkAt(m)'
  <2> USE <1>AckTalk
  <2>1. QueryLast(m)  BY Zenon DEF TalkAt
  <2>2. /\ Silent(m) /\ NoCommand(m)
        /\ \A j \in Msgs(m) : 1 < j => to_host[m][j].op = "shutdown"
    BY <2>1, Zenon DEF QueryLast, Popped, Msgs
  <2>3. \A i \in Msgs(m)' : to_host'[m][i].op = "shutdown"
    <3> SUFFICES ASSUME NEW i \in Msgs(m)' PROVE to_host'[m][i].op = "shutdown"  BY Zenon
    <3>1. i + 1 \in Msgs(m) /\ to_host'[m][i] = to_host[m][i + 1]  BY Zenon DEF Popped, Msgs
    <3>2. 1 < i + 1  BY DEF Msgs
    <3>3. QED  BY <2>2, <3>1, <3>2, Zenon
  <2>4. Drained(m)'  BY <2>2, <2>3, Zenon DEF Drained, NoCommand, Cmds
  <2>5. "shutdown" # "ack" /\ "shutdown" # "state"  OBVIOUS
  <2>6. OfNow(m)' /\ QueryLast(m)'
    BY <2>3, <2>4, <2>5, Zenon DEF Drained, OfNow, QueryLast, NoCommand
  <2>7. (session[m] # starts => Unstarted(m))'
    BY <2>2, <2>4, Zenon DEF TalkAt, SamePlace, Off, Unstarted, NoCommand, Drained
  <2>8. QED  BY <2>4, <2>6, <2>7, Zenon DEF TalkAt, Drained
\* A homing operation starts, with nothing on its way.
<1>StartTalk. ASSUME NEW m, Drained(m), Silent(m)', to_host'[m] = to_host[m],
                     Off(m) => Off(m)' /\ to_mcu'[m] = to_mcu[m],
                     ~Off(m) => /\ ~Off(m)' /\ 1 \in Cmds(m)' /\ to_mcu'[m][1].op = "start"
                                /\ \A i \in Cmds(m)' : to_mcu'[m][i].of = starts' /\ to_mcu'[m][i].op # "query",
                     host' = "starting", result'[m] = Never
              PROVE  TalkAt(m)'
  <2> USE <1>StartTalk
  <2>1. "shutdown" # "ack" /\ "shutdown" # "state" /\ "starting" # "idle"  OBVIOUS
  <2>2. Off(m) => NoCommand(m)'  BY Zenon DEF Drained, NoCommand, Cmds
  <2>3. \A i \in Msgs(m)' : to_host'[m][i].op = "shutdown"  BY Zenon DEF Drained, Msgs
  <2>4. \A i \in Cmds(m)' : to_mcu'[m][i].of = starts' /\ to_mcu'[m][i].op # "query"
    BY <2>2, Zenon DEF NoCommand
  <2>5. OfNow(m)' /\ QueryLast(m)'  BY <2>1, <2>3, <2>4, Zenon DEF OfNow, QueryLast
  <2>6. (Off(m) => NoCommand(m))' /\ Unstarted(m)'  BY <2>2, Zenon DEF Unstarted
  <2>7. QED  BY <2>1, <2>5, <2>6, Zenon DEF TalkAt
<1>HostOnlyFacts. ASSUME HostOnly, McuTypes, NEW x
                  PROVE  /\ McuTypes' /\ (Silent(x)' <=> Silent(x)) /\ (Off(x)' <=> Off(x)) /\ cut' = cut
                         /\ starts' = starts => SamePlace(x)
  <2> USE <1>HostOnlyFacts
  <2>1. McuTypes'  BY McuFrame, Zenon DEF HostOnly
  <2>2. (Silent(x)' <=> Silent(x)) /\ (Off(x)' <=> Off(x)) /\ cut' = cut
    BY Zenon DEF HostOnly, Silent, Off, trsync, faults
  <2>3. starts' = starts => SamePlace(x)  BY Zenon DEF HostOnly, SamePlace, trsync, faults
  <2>4. QED  BY <2>1, <2>2, <2>3, Zenon
<1>HomeStartKeeps. ASSUME SessionInv, HomeStart
                   PROVE  Types' /\ \A x \in Mcus : TalkAt(x)'
  <2> USE <1>HomeStartKeeps
  <2>1. Types  BY Zenon DEF SessionInv
  <2>2. HostOnly  BY Zenon DEF HomeStart, HostOnly
  <2>3. ASSUME NEW x \in Mcus PROVE TalkAt(x)'
    <3>1. Drained(x) /\ starts' = starts + 1 /\ starts + 1 \in Session /\ now + Lead \in Nat
      BY <2>3, HomeStartWire, Zenon
    <3>2. /\ Off(x) => to_mcu'[x] = to_mcu[x]
          /\ ~Off(x) => to_mcu'[x] = StartCommands(x, now + Lead, starts + 1)
      BY <2>3, HomeStartWire, Zenon
    <3>3. (Silent(x)' <=> Silent(x)) /\ (Off(x)' <=> Off(x))
      BY <2>1, <2>2, <1>HostOnlyFacts, Zenon DEF Types
    <3>4. ASSUME ~Off(x)
          PROVE  /\ 1 \in Cmds(x)' /\ to_mcu'[x][1].op = "start"
                 /\ \A i \in Cmds(x)' : to_mcu'[x][i].of = starts' /\ to_mcu'[x][i].op # "query"
      <4> DEFINE d == StartCommands(x, now + Lead, starts + 1)
      <4>1. /\ Len(d) = 3 /\ d[1] = Command("start", now + Lead + Offset[x], starts + 1)
            /\ d[2] = Command("stop_on", 0, starts + 1)
            /\ d[3] = Command("timeout", now + Lead + Expire, starts + 1)
        BY <3>1, StartCommandsFacts, Zenon
      <4>2. to_mcu'[x] = d /\ starts' = starts + 1  BY <3>1, <3>2, <3>4, Zenon
      <4> HIDE DEF d
      <4>3. Cmds(x)' = 1..3  BY <4>1, <4>2, Zenon DEF Cmds
      <4>4. /\ d[1].op = "start" /\ d[2].op = "stop_on" /\ d[3].op = "timeout"
            /\ d[1].of = starts + 1 /\ d[2].of = starts + 1 /\ d[3].of = starts + 1
        BY <4>1 DEF Command
      <4>5. QED  BY <4>2, <4>3, <4>4
    <3>5. to_host'[x] = to_host[x] /\ host' = "starting" /\ result'[x] = Never
      BY Zenon DEF HomeStart
    <3>6. QED  BY <3>1, <3>2, <3>3, <3>4, <3>5, <1>StartTalk, Zenon DEF Drained
  <2>4. McuTypes'  BY <2>1, <2>2, <1>HostOnlyFacts, Zenon DEF Types
  <2>5. WireTypes'
    <3>1. \A x \in Mcus : to_mcu'[x] \in Seq(Commands)  BY HomeStartWire, Zenon
    <3>2. to_mcu' = [x \in Mcus |-> SendMcu(x, StartCommands(x, now + Lead, starts + 1))]
          /\ to_host' = to_host /\ cut' = cut
      BY Zenon DEF HomeStart, faults
    <3>3. QED  BY <2>1, <3>1, <3>2, Zenon DEF Types, WireTypes
  <2>6. HostTypes'
    <3>1. starts + 1 \in Session /\ now + Lead \in Nat
      BY TrSyncConstants, HomeStartWire, Zenon
    <3>2. now + Lead + Expire \in Nat  BY <3>1, TrSyncConstants
    <3>3. Never \in Times  BY DEF Times
    <3>4. QED  BY <2>1, <3>1, <3>2, <3>3, Zenon DEF Types, HomeStart, HostTypes
  <2>7. QED  BY <2>3, <2>4, <2>5, <2>6, Zenon DEF Types
\* The host sends one command to m, and nothing to the others.
<1>TellOne. ASSUME WireTypes, NEW m \in Mcus, NEW c \in Commands, NEW D, c \in D,
                   to_mcu' = [to_mcu EXCEPT ![m] = SendMcu(m, <<c>>)]
            PROVE  /\ to_mcu' \in [Mcus -> Seq(Commands)]
                   /\ \A x \in Mcus : x # m => to_mcu'[x] = to_mcu[x]
                   /\ \A x \in Mcus : \/ to_mcu'[x] = to_mcu[x]
                                      \/ /\ ~Off(x) /\ Extended(to_mcu[x], to_mcu'[x], D)
                                         /\ \A i \in Cmds(x)' : i \notin Cmds(x) =>
                                               to_mcu'[x][i] = c /\ \A j \in Cmds(x)' : j <= i
  <2> USE <1>TellOne
  <2>1. to_mcu \in [Mcus -> Seq(Commands)]  BY Zenon DEF WireTypes
  <2>2. to_mcu' \in [Mcus -> Seq(Commands)] /\ to_mcu'[m] = SendMcu(m, <<c>>)
        /\ \A x \in Mcus : x # m => to_mcu'[x] = to_mcu[x]
    <3>1. SendMcu(m, <<c>>) \in Seq(Commands)  BY SendOne, Zenon
    <3>2. QED  BY <2>1, <3>1, Zenon
  <2>3. \/ to_mcu'[m] = to_mcu[m]
        \/ /\ ~Off(m) /\ Extended(to_mcu[m], to_mcu'[m], D)
           /\ Len(to_mcu'[m]) = Len(to_mcu[m]) + 1 /\ to_mcu'[m][Len(to_mcu[m]) + 1] = c
    BY <2>2, SendOne, Zenon
  <2>4. ASSUME Len(to_mcu'[m]) = Len(to_mcu[m]) + 1, to_mcu'[m][Len(to_mcu[m]) + 1] = c
        PROVE  \A i \in Cmds(m)' : i \notin Cmds(m) => to_mcu'[m][i] = c /\ \A j \in Cmds(m)' : j <= i
    <3>1. Len(to_mcu[m]) \in Nat  BY <2>1, SeqLen
    <3>2. QED  BY <2>4, <3>1 DEF Cmds
  <2>5. QED  BY <2>2, <2>3, <2>4, Zenon
<1>HomeActivateKeeps. ASSUME SessionInv, HomeActivate
                      PROVE  Types' /\ \A x \in Mcus : TalkAt(x)'
  <2> USE <1>HomeActivateKeeps
  <2>1. Types /\ HostPlace  BY Zenon DEF SessionInv
  <2>2. HostOnly /\ starts' = starts /\ to_host' = to_host
    BY Zenon DEF HomeActivate, HostOnly
  <2>3. start_clock + HomeTime \in Times /\ start_clock \in Times /\ starts \in Session
    BY <2>1, TrSyncConstants DEF Types, HostTypes, Times
  <2>4. Command("home", start_clock, starts) \in Commands
    BY <2>3, CommandFacts, Zenon
  <2>5. Command("home", start_clock, starts) \in Orders
    BY <2>4 DEF Orders, Command
  <2>6. /\ to_mcu' \in [Mcus -> Seq(Commands)]
        /\ \A x \in Mcus : \/ to_mcu'[x] = to_mcu[x]
                           \/ ~Off(x) /\ Extended(to_mcu[x], to_mcu'[x], Orders)
    <3>1. EndstopMcu \in Mcus /\ WireTypes  BY <2>1, TrSyncConstants, Zenon DEF Types
    <3>2. to_mcu' = [to_mcu EXCEPT ![EndstopMcu] =
                       SendMcu(EndstopMcu, <<Command("home", start_clock, starts)>>)]
      BY Zenon DEF HomeActivate
    <3>3. QED  BY <2>4, <2>5, <3>1, <3>2, <1>TellOne, Zenon
  <2>7. ASSUME NEW x \in Mcus PROVE TalkAt(x)'
    <3>1. TalkAt(x) /\ SamePlace(x) /\ (Silent(x)' <=> Silent(x))
      BY <2>1, <2>2, <1>HostOnlyFacts, Zenon DEF SessionInv, Types
    <3>2. Shrunk(to_host[x], to_host'[x])  BY <2>2, ShrunkSame, Zenon
    <3>3. host = "starting" /\ host' = "homing" /\ querying' = querying /\ result' = result
      BY Zenon DEF HomeActivate
    <3>4. x \notin querying /\ result[x] = Never  BY <2>1, <3>3, AtWork, Zenon
    <3>5. host # "shutdown" /\ host' # "idle"  BY <3>3
    <3>6. QED  BY <2>6, <3>1, <3>2, <3>3, <3>4, <3>5, <1>SayTalk, Zenon
  <2>8. McuTypes' /\ cut' = cut  BY <2>1, <2>2, <1>HostOnlyFacts, Zenon DEF Types
  <2>9. WireTypes'  BY <2>1, <2>2, <2>6, <2>8, Zenon DEF Types, WireTypes
  <2>10. HostTypes'  BY <2>1, <2>3, Zenon DEF Types, HomeActivate, HostTypes
  <2>11. QED  BY <2>7, <2>8, <2>9, <2>10, Zenon DEF Types
<1>HomeStopKeeps. ASSUME SessionInv, HomeStop
                  PROVE  Types' /\ \A x \in Mcus : TalkAt(x)'
  <2> USE <1>HomeStopKeeps
  <2>1. Types /\ HostPlace  BY Zenon DEF SessionInv
  <2>2. HostOnly /\ starts' = starts /\ to_host' = to_host
    BY Zenon DEF HomeStop, HostOnly
  <2>3. Never \in Times /\ starts \in Session
    BY <2>1 DEF Types, HostTypes, Times
  <2>4. Command("home", Never, starts) \in Commands
    BY <2>3, CommandFacts, Zenon
  <2>5. Command("home", Never, starts) \in Orders
    BY <2>4 DEF Orders, Command
  <2>6. /\ to_mcu' \in [Mcus -> Seq(Commands)]
        /\ \A x \in Mcus : \/ to_mcu'[x] = to_mcu[x]
                           \/ ~Off(x) /\ Extended(to_mcu[x], to_mcu'[x], Orders)
    <3>1. EndstopMcu \in Mcus /\ WireTypes  BY <2>1, TrSyncConstants, Zenon DEF Types
    <3>2. to_mcu' = [to_mcu EXCEPT ![EndstopMcu] =
                       SendMcu(EndstopMcu, <<Command("home", Never, starts)>>)]
      BY Zenon DEF HomeStop
    <3>3. QED  BY <2>4, <2>5, <3>1, <3>2, <1>TellOne, Zenon
  <2>7. ASSUME NEW x \in Mcus PROVE TalkAt(x)'
    <3>1. TalkAt(x) /\ SamePlace(x) /\ (Silent(x)' <=> Silent(x))
      BY <2>1, <2>2, <1>HostOnlyFacts, Zenon DEF SessionInv, Types
    <3>2. Shrunk(to_host[x], to_host'[x])  BY <2>2, ShrunkSame, Zenon
    <3>3. host = "homing" /\ host' = "stopping" /\ querying' = querying /\ result' = result
      BY Zenon DEF HomeStop
    <3>4. x \notin querying /\ result[x] = Never  BY <2>1, <3>3, AtWork, Zenon
    <3>5. host # "shutdown" /\ host' # "idle"  BY SMTT(30), <3>3
    <3>6. QED  BY <2>6, <3>1, <3>2, <3>3, <3>4, <3>5, <1>SayTalk, ZenonT(30)
  <2>8. McuTypes' /\ cut' = cut  BY <2>1, <2>2, <1>HostOnlyFacts, Zenon DEF Types
  <2>9. WireTypes'  BY <2>1, <2>2, <2>6, <2>8, Zenon DEF Types, WireTypes
  <2>10. NoStatus \in [Mcus -> Nat]  BY DEF NoStatus
  <2>11. HostTypes'  BY <2>1, <2>3, <2>10, Zenon DEF Types, HomeStop, HostTypes
  <2>12. QED  BY <2>7, <2>8, <2>9, <2>11, Zenon DEF Types
<1>HomeDoneKeeps. ASSUME SessionInv, HomeDone
                  PROVE  Types' /\ \A x \in Mcus : TalkAt(x)'
  <2> USE <1>HomeDoneKeeps
  <2>1. Types  BY Zenon DEF SessionInv
  <2>2. HostOnly /\ starts' = starts /\ to_host' = to_host /\ to_mcu' = to_mcu
    BY Zenon DEF HomeDone, HostOnly
  <2>3. ASSUME NEW x \in Mcus PROVE TalkAt(x)'
    <3>1. TalkAt(x) /\ SamePlace(x) /\ (Silent(x)' <=> Silent(x))
      BY <2>1, <2>2, <1>HostOnlyFacts, Zenon DEF SessionInv, Types
    <3>2. Shrunk(to_host[x], to_host'[x])  BY <2>2, ShrunkSame, Zenon
    <3>3. host = "stopping" /\ querying' = querying /\ result' = result /\ result[x] # Never
      BY Zenon DEF HomeDone, Answered
    <3>4. host # "shutdown"  BY <3>3
    <3>5. QED  BY <2>2, <3>1, <3>2, <3>3, <3>4, KeepsTalk, Zenon
  <2>4. McuTypes' /\ cut' = cut  BY <2>1, <2>2, <1>HostOnlyFacts, Zenon DEF Types
  <2>5. WireTypes'  BY <2>1, <2>2, <2>4, Zenon DEF Types, WireTypes
  <2>6. HostTypes'  BY <2>1, Zenon DEF Types, HomeDone, HostTypes, trdispatch
  <2>7. QED  BY <2>3, <2>4, <2>5, <2>6, Zenon DEF Types
<1>QueryKeeps. ASSUME SessionInv, NEW m \in Mcus, Query(m)
               PROVE  Types' /\ \A x \in Mcus : TalkAt(x)'
  <2> USE <1>QueryKeeps
  <2>1. Types  BY Zenon DEF SessionInv
  <2>2. HostOnly /\ starts' = starts /\ to_host' = to_host /\ starts \in Session
    BY <2>1, Zenon DEF Query, HostOnly, Types, HostTypes
  <2>3. Command("query", HOST_REQUEST, starts) \in Commands
    BY <2>2, CommandFacts, Zenon
  <2>4. Command("query", HOST_REQUEST, starts) \in Queries
    BY <2>3 DEF Queries, Command
  <2>5. /\ to_mcu' \in [Mcus -> Seq(Commands)]
        /\ \A x \in Mcus : x # m => to_mcu'[x] = to_mcu[x]
        /\ \/ to_mcu'[m] = to_mcu[m]
           \/ /\ ~Off(m) /\ Extended(to_mcu[m], to_mcu'[m], Queries)
              /\ \A i \in Cmds(m)' : i \notin Cmds(m) => \A j \in Cmds(m)' : j <= i
    <3>1. to_mcu' = [to_mcu EXCEPT ![m] = SendMcu(m, <<Command("query", HOST_REQUEST, starts)>>)]
      BY Zenon DEF Query
    <3>2. QED  BY <2>1, <2>3, <2>4, <3>1, <1>TellOne, Zenon DEF Types
  <2>6. /\ host = "stopping" /\ host' = host /\ querying = {} /\ querying' = querying \cup {m}
        /\ result' = result /\ result[m] = Never
    BY Zenon DEF Query, MayQuery
  <2>7. host # "shutdown" /\ host # "idle"  BY <2>6
  <2>8. ASSUME NEW x \in Mcus PROVE TalkAt(x)'
    <3>1. TalkAt(x) /\ SamePlace(x) /\ (Silent(x)' <=> Silent(x))
      BY <2>1, <2>2, <1>HostOnlyFacts, Zenon DEF SessionInv, Types
    <3>2. Shrunk(to_host[x], to_host'[x])  BY <2>2, ShrunkSame, Zenon
    <3>3. CASE x # m
      <4>1. to_mcu'[x] = to_mcu[x] /\ (x \in querying <=> x \in querying')
        BY <2>5, <2>6, <3>3, Zenon
      <4>2. QED  BY <2>6, <2>7, <3>1, <3>2, <4>1, KeepsTalk, Zenon
    <3>4. CASE x = m
      <4>1. QueryLast(m)  BY <2>7, <3>1, <3>4, Zenon DEF TalkAt
      <4>2. /\ \A i \in Cmds(m) : to_mcu[m][i].op # "query"
            /\ \A i \in Msgs(m)' : to_host'[m][i].op # "ack"
        BY <2>2, <2>6, <4>1, Zenon DEF QueryLast, Msgs
      <4>3. m \in querying' /\ result'[m] = Never  BY <2>6, Zenon
      <4>4. QED  BY <2>5, <2>6, <2>7, <3>1, <3>2, <3>4, <4>2, <4>3, <1>AskTalk, Zenon
    <3>5. QED  BY <3>3, <3>4, Zenon
  <2>9. McuTypes' /\ cut' = cut  BY <2>1, <2>2, <1>HostOnlyFacts, Zenon DEF Types
  <2>10. WireTypes'  BY <2>1, <2>2, <2>5, <2>9, Zenon DEF Types, WireTypes
  <2>11. HostTypes'
    <3>1. querying' \subseteq Mcus  BY <2>6, Zenon
    <3>2. QED  BY <2>1, <3>1, Zenon DEF Types, Query, HostTypes, trdispatch
  <2>12. QED  BY <2>8, <2>9, <2>10, <2>11, Zenon DEF Types
<1>HostAckKeeps. ASSUME SessionInv, NEW m \in Mcus, HostAck(m)
                 PROVE  Types' /\ \A x \in Mcus : TalkAt(x)'
  <2> USE <1>HostAckKeeps
  <2>1. Types /\ HostPlace /\ TalkAt(m)  BY Zenon DEF SessionInv
  <2>2. HostOnly /\ starts' = starts /\ host' = host /\ starts \in Session
    BY <2>1, Zenon DEF HostAck, HostOnly, Types, HostTypes
  <2>3. /\ to_host' \in [Mcus -> Seq(MessageType)] /\ to_host[m][1].op = "ack" /\ 1 \in Msgs(m)
        /\ Popped(to_host[m], to_host'[m])
        /\ \A x \in Mcus : Shrunk(to_host[x], to_host'[x])
        /\ \A x \in Mcus : x # m => to_host'[x] = to_host[x]
    <3>1. to_host[m] # <<>> /\ to_host' = [to_host EXCEPT ![m] = Tail(to_host[m])]
      BY Zenon DEF HostAck
    <3>2. Head(to_host[m]).op = "ack"  BY Zenon DEF HostAck
    <3>3. QED  BY <2>1, <3>1, <3>2, HearOne, Zenon DEF Types
  <2>4. \A x \in Mcus : TalkAt(x) /\ SamePlace(x) /\ (Silent(x)' <=> Silent(x))
    BY <2>1, <2>2, <1>HostOnlyFacts, Zenon DEF SessionInv, Types
  <2>5. McuTypes' /\ cut' = cut  BY <2>1, <2>2, <1>HostOnlyFacts, Zenon DEF Types
  <2>6. CASE m \in querying /\ last_params = Never
    <3>1. host = "stopping" /\ host # "shutdown" /\ host # "idle"
      <4>1. host = "stopping"  BY <2>1, <2>6, Zenon DEF HostPlace
      <4>2. QED  BY <4>1
    <3>2. querying' = querying /\ result' = result
      BY <2>6, Zenon DEF HostAck
    <3>3. Command("query", HOST_REQUEST, starts) \in Commands
      BY <2>2, CommandFacts, Zenon
    <3>4. Command("query", HOST_REQUEST, starts) \in Queries
      BY <3>3 DEF Queries, Command
    <3>5. /\ to_mcu' \in [Mcus -> Seq(Commands)]
          /\ \A x \in Mcus : x # m => to_mcu'[x] = to_mcu[x]
          /\ \/ to_mcu'[m] = to_mcu[m]
             \/ /\ ~Off(m) /\ Extended(to_mcu[m], to_mcu'[m], Queries)
                /\ \A i \in Cmds(m)' : i \notin Cmds(m) => \A j \in Cmds(m)' : j <= i
      <4>1. to_mcu' = [to_mcu EXCEPT ![m] = SendMcu(m, <<Command("query", HOST_REQUEST, starts)>>)]
        BY <2>6, Zenon DEF HostAck
      <4>2. QED  BY <2>1, <3>3, <3>4, <4>1, <1>TellOne, Zenon DEF Types
    <3>6. ASSUME NEW x \in Mcus, x # m PROVE TalkAt(x)'
      <4>1. to_mcu'[x] = to_mcu[x]  BY <3>5, <3>6, Zenon
      <4>2. QED  BY <2>2, <2>3, <2>4, <3>1, <3>2, <4>1, KeepsTalk, Zenon
    <3>7. TalkAt(m)'
      <4>1. /\ \A i \in Cmds(m) : to_mcu[m][i].op # "query"
            /\ \A j \in Msgs(m) : 1 < j => to_host[m][j].op = "shutdown"
        BY <2>1, <2>3, <3>1, Zenon DEF TalkAt, QueryLast, NoCommand
      <4>2. result[m] = Never
        <5>1. "ack" # "shutdown"  OBVIOUS
        <5>2. QED  BY <2>1, <2>3, <3>1, <5>1, Zenon DEF TalkAt, Drained
      <4>3. ASSUME NEW i \in Msgs(m)' PROVE to_host'[m][i].op # "ack"
        <5>1. i + 1 \in Msgs(m) /\ to_host'[m][i] = to_host[m][i + 1]
          BY <2>3, <4>3, Zenon DEF Popped, Msgs
        <5>2. 1 < i + 1  BY <4>3 DEF Msgs
        <5>3. to_host'[m][i].op = "shutdown"  BY <4>1, <5>1, <5>2, Zenon
        <5>4. QED  BY <5>3
      <4>4. QED
        BY <2>2, <2>3, <2>4, <2>6, <3>1, <3>2, <3>5, <4>1, <4>2, <4>3, <1>AskTalk, ZenonT(30)
    <3>8. WireTypes'  BY <2>1, <2>3, <2>5, <3>5, Zenon DEF Types, WireTypes
    <3>9. HostTypes'  BY <2>1, <3>2, Zenon DEF Types, HostAck, HostTypes, trdispatch
    <3>10. QED  BY <2>5, <3>6, <3>7, <3>8, <3>9, Zenon DEF Types
  <2>7. CASE ~(m \in querying /\ last_params = Never)
    <3>1. /\ querying' = querying \ {m} /\ to_mcu' = to_mcu
          /\ result' = [result EXCEPT ![m] = IF m \in querying THEN last_params ELSE result[m]]
      BY <2>7, Zenon DEF HostAck
    <3>2. ASSUME NEW x \in Mcus, x # m PROVE TalkAt(x)'
      <4>1. /\ to_mcu'[x] = to_mcu[x] /\ result'[x] = result[x]
            /\ x \in querying <=> x \in querying'
        BY <2>1, <3>1, <3>2, Zenon DEF Types, HostTypes
      <4>2. QED  BY <2>2, <2>3, <2>4, <4>1, KeepsTalk, Zenon
    <3>3. TalkAt(m)'
      <4>1. CASE host = "shutdown"  BY <2>2, <2>3, <2>4, <3>1, <4>1, KeepsTalk, Zenon
      <4>2. CASE host # "shutdown"  BY <2>2, <2>3, <2>4, <3>1, <4>2, <1>AckTalk, Zenon
      <4>3. QED  BY <4>1, <4>2, Zenon
    <3>4. WireTypes'  BY <2>1, <2>3, <2>5, <3>1, Zenon DEF Types, WireTypes
    <3>5. HostTypes'
      <4>1. (IF m \in querying THEN last_params ELSE result[m]) \in Reason \cup {Never}
        BY <2>1, Zenon DEF Types, HostTypes
      <4>2. result' \in [Mcus -> Reason \cup {Never}]
        BY <2>1, <3>1, <4>1, ExceptType, Zenon DEF Types, HostTypes
      <4>3. querying' \subseteq Mcus  BY <2>1, <3>1, Zenon DEF Types, HostTypes
      <4>4. QED  BY <2>1, <4>2, <4>3, Zenon DEF Types, HostAck, HostTypes, trdispatch
    <3>6. QED  BY <2>5, <3>2, <3>3, <3>4, <3>5, Zenon DEF Types
  <2>8. QED  BY <2>6, <2>7, Zenon
<1>HostStateKeeps. ASSUME SessionInv, NEW m \in Mcus, HostState(m)
                   PROVE  Types' /\ (\A x \in Mcus : TalkAt(x)') /\ stale' = FALSE
  <2> USE <1>HostStateKeeps
  <2>1. Types /\ HostPlace /\ TalkAt(m) /\ stale = FALSE  BY Zenon DEF SessionInv
  <2> DEFINE msg == Head(to_host[m])
             fr == FastReader(m, msg)
             status == [last_status EXCEPT ![m] = msg.clock]
  <2>2. /\ UNCHANGED <<now, host, starts, querying, result, faults, trsync, read_time>>
        /\ host \in {"idle", "starting", "homing", "stopping", "shutdown"} /\ starts \in Session
    BY <2>1, Zenon DEF HostState, Types, HostTypes
  <2>3. /\ to_host' \in [Mcus -> Seq(MessageType)] /\ msg.op = "state" /\ 1 \in Msgs(m)
        /\ msg = to_host[m][1] /\ msg \in MessageType
        /\ \A x \in Mcus : Shrunk(to_host[x], to_host'[x])
    <3>1. to_host[m] # <<>> /\ to_host' = [to_host EXCEPT ![m] = Tail(to_host[m])]
      BY Zenon DEF HostState
    <3>2. Head(to_host[m]).op = "state"  BY Zenon DEF HostState
    <3>3. QED  BY <2>1, <3>1, <3>2, HearOne, Zenon DEF Types
  <2>4. stale' = FALSE /\ HostOnly
    <3>1. msg.of = starts  BY <2>1, <2>3, Zenon DEF TalkAt, OfNow
    <3>2. stale' = (stale \/ msg.of # starts)  BY Zenon DEF HostState
    <3>3. stale' = FALSE /\ stale' = stale  BY <2>1, <3>1, <3>2, Zenon
    <3>4. QED  BY <2>2, <3>3, Zenon DEF HostOnly
  <2>5. \A x \in Mcus : TalkAt(x) /\ SamePlace(x) /\ (Silent(x)' <=> Silent(x))
    BY <2>1, <2>2, <2>4, <1>HostOnlyFacts, Zenon DEF SessionInv, Types
  <2>6. ASSUME NEW x \in Mcus
        PROVE  /\ to_mcu'[x] \in Seq(Commands)
               /\ to_mcu'[x] = to_mcu[x] \/ (~Off(x) /\ Extended(to_mcu[x], to_mcu'[x], Orders))
               /\ host \notin {"starting", "homing"} => to_mcu'[x] = to_mcu[x]
    <3> DEFINE past == Command("trigger", PAST_END_TIME, starts)
               D == Relayed(x, status) \cup {past}
    <3>1. status = [last_status EXCEPT ![m] = to_host[m][1].clock]  BY <2>3, Zenon
    <3>2. past \in Commands  BY <2>2, CommandFacts, Zenon
    <3>3. past \in Orders  BY <3>2 DEF Orders, Command
    <3>4. D \subseteq Orders  BY <3>3, Zenon DEF Relayed
    <3>5. /\ to_mcu'[x] \in Seq(Commands)
          /\ to_mcu'[x] = to_mcu[x] \/ (~Off(x) /\ Extended(to_mcu[x], to_mcu'[x], D))
          /\ host \notin {"starting", "homing"} => to_mcu'[x] = to_mcu[x]
      <4> HIDE DEF status
      <4>1. QED  BY <3>1, HostStateWire, Zenon
    <3> HIDE DEF D
    <3>6. QED  BY <3>4, <3>5, ExtendedWider, Zenon
  <2>7. ASSUME NEW x \in Mcus PROVE TalkAt(x)'
    <3>1. Shrunk(to_host[x], to_host'[x])  BY <2>3, Zenon
    <3>2. CASE host \in {"starting", "homing"}
      <4>1. x \notin querying /\ result[x] = Never  BY <2>1, <3>2, AtWork, Zenon
      <4>2. host # "shutdown" /\ host' # "idle"  BY <2>2, <3>2
      <4>3. QED  BY <2>2, <2>5, <2>6, <3>1, <4>1, <4>2, <1>SayTalk, Zenon
    <3>3. CASE host \notin {"starting", "homing"}
      <4>1. to_mcu'[x] = to_mcu[x]  BY <2>6, <3>3, Zenon
      <4>2. QED  BY <2>2, <2>5, <3>1, <4>1, KeepsTalk, Zenon
    <3>4. QED  BY <3>2, <3>3, Zenon
  <2>8. McuTypes' /\ cut' = cut  BY <2>1, <2>4, <1>HostOnlyFacts, Zenon DEF Types
  <2>9. WireTypes'
    <3>1. \E f : to_mcu' = [k \in Mcus |-> f[k]]
      <4>1. to_mcu' = [k \in Mcus |-> to_mcu'[k]]  BY Zenon DEF HostState
      <4>2. QED  BY <4>1, Zenon
    <3>2. to_mcu' \in [Mcus -> Seq(Commands)]  BY <2>6, <3>1, Zenon
    <3>3. QED  BY <2>1, <2>3, <2>8, <3>2, Zenon DEF Types, WireTypes
  <2>10. HostTypes'
    <3>1. RelayTyped(fr, status)
      <4> HIDE DEF msg
      <4>1. QED  BY <2>1, <2>3, FastReaderFacts, Zenon DEF Types
    <3>2. status \in [Mcus -> Nat] /\ NoStatus \in [Mcus -> Nat] /\ msg.arg \in Reason
      <4>1. msg.clock \in Nat /\ msg.arg \in Reason  BY <2>3 DEF MessageType, Reason
      <4>2. NoStatus \in [Mcus -> Nat]  BY DEF NoStatus
      <4>3. QED  BY <2>1, <4>1, <4>2, ExceptType, Zenon DEF Types, HostTypes
    <3>3. /\ td_can_trigger' = fr.can /\ last_status' = fr.status /\ expire_clock' = fr.expire
          /\ home_end' = Never \/ home_end' = home_end
          /\ completed' \in BOOLEAN
          /\ last_params' = msg.arg \/ last_params' = last_params
          /\ UNCHANGED <<start_clock, is_active>>
      BY Zenon DEF HostState
    <3> HIDE DEF fr, status, msg
    <3>4. td_can_trigger' \in BOOLEAN /\ last_status' \in [Mcus -> Nat] /\ expire_clock' \in [Mcus -> Nat]
      BY <2>1, <3>1, <3>2, <3>3, Zenon DEF RelayTyped, Types, HostTypes
    <3>5. home_end' \in Times /\ last_params' \in Reason \cup {Never}
      BY <2>1, <3>2, <3>3, Zenon DEF Types, HostTypes, Times
    <3>6. QED  BY <2>1, <2>2, <3>3, <3>4, <3>5, Zenon DEF Types, HostTypes
  <2>11. QED  BY <2>4, <2>7, <2>8, <2>9, <2>10, Zenon DEF Types
<1>ShutdownPrinterKeeps. ASSUME SessionInv, ShutdownPrinter,
                                to_host' \in [Mcus -> Seq(MessageType)],
                                \A x \in Mcus : Shrunk(to_host[x], to_host'[x])
                         PROVE  Types' /\ \A x \in Mcus : TalkAt(x)'
  <2> USE <1>ShutdownPrinterKeeps
  <2>1. Types  BY Zenon DEF SessionInv
  <2>2. HostOnly /\ starts' = starts /\ host' = "shutdown" /\ starts \in Session
    BY <2>1, Zenon DEF ShutdownPrinter, HostOnly, Types, HostTypes
  <2>3. \A x \in Mcus : TalkAt(x) /\ SamePlace(x) /\ (Silent(x)' <=> Silent(x))
    BY <2>1, <2>2, <1>HostOnlyFacts, Zenon DEF SessionInv, Types
  <2>4. /\ to_mcu' \in [Mcus -> Seq(Commands)]
        /\ \A x \in Mcus : \/ to_mcu'[x] = to_mcu[x]
                           \/ ~Off(x) /\ Extended(to_mcu[x], to_mcu'[x], Orders)
    <3> DEFINE c == Command("estop", 0, starts)
    <3>1. c \in Commands  BY <2>2, CommandFacts, Zenon
    <3>2. c \in Orders  BY <3>1 DEF Orders, Command
    <3>3. CASE host = "shutdown"
      BY <2>1, <3>3, Zenon DEF ShutdownPrinter, Types, WireTypes
    <3>4. CASE host # "shutdown"
      <4>1. to_mcu' = [x \in Mcus |-> SendMcu(x, <<c>>)]  BY <3>4, Zenon DEF ShutdownPrinter
      <4> HIDE DEF c
      <4>2. \A x \in Mcus : /\ SendMcu(x, <<c>>) \in Seq(Commands)
                            /\ \/ SendMcu(x, <<c>>) = to_mcu[x]
                               \/ ~Off(x) /\ Extended(to_mcu[x], SendMcu(x, <<c>>), Orders)
        BY <2>1, <3>1, <3>2, SendOne, Zenon DEF Types
      <4>3. QED  BY <4>1, <4>2, Zenon
    <3>5. QED  BY <3>3, <3>4, Zenon
  <2>5. ASSUME NEW x \in Mcus PROVE TalkAt(x)'
    BY <2>2, <2>3, <2>4, <1>SayTalk, Zenon
  <2>6. McuTypes' /\ cut' = cut  BY <2>1, <2>2, <1>HostOnlyFacts, Zenon DEF Types
  <2>7. WireTypes'  BY <2>1, <2>4, <2>6, Zenon DEF Types, WireTypes
  <2>8. HostTypes'
    <3>1. NoStatus \in [Mcus -> Nat]  BY DEF NoStatus
    <3>2. Never \in Times  BY DEF Times
    <3>3. QED  BY <2>1, <3>1, <3>2, Zenon DEF Types, ShutdownPrinter, HostTypes
  <2>9. QED  BY <2>5, <2>6, <2>7, <2>8, Zenon DEF Types
<1>HostShutdownKeeps. ASSUME SessionInv, (\E m \in Mcus : HostShutdown(m)) \/ HostLostMcu
                      PROVE  Types' /\ \A x \in Mcus : TalkAt(x)'
  <2> USE <1>HostShutdownKeeps
  <2>1. WireTypes  BY Zenon DEF SessionInv, Types
  <2>2. ASSUME NEW m \in Mcus, HostShutdown(m) PROVE Types' /\ \A x \in Mcus : TalkAt(x)'
    <3>1. /\ to_host[m] # <<>> /\ to_host' = [to_host EXCEPT ![m] = Tail(to_host[m])]
          /\ ShutdownPrinter
      BY <2>2, Zenon DEF HostShutdown
    <3>2. /\ to_host' \in [Mcus -> Seq(MessageType)]
          /\ \A x \in Mcus : Shrunk(to_host[x], to_host'[x])
      BY <2>1, <3>1, HearOne, Zenon
    <3>3. QED  BY <3>1, <3>2, <1>ShutdownPrinterKeeps, Zenon
  <2>3. ASSUME HostLostMcu PROVE Types' /\ \A x \in Mcus : TalkAt(x)'
    <3>1. to_host' = to_host /\ ShutdownPrinter  BY <2>3, Zenon DEF HostLostMcu
    <3>2. /\ to_host' \in [Mcus -> Seq(MessageType)]
          /\ \A x \in Mcus : Shrunk(to_host[x], to_host'[x])
      BY <2>1, <3>1, ShrunkSame, Zenon DEF WireTypes
    <3>3. QED  BY <3>1, <3>2, <1>ShutdownPrinterKeeps, Zenon
  <2>4. QED  BY <2>2, <2>3, Zenon
<1>1. SessionInv => stale = FALSE  BY Zenon DEF SessionInv
<1>2. ASSUME SessionInv,
             \/ HomeStart \/ HomeActivate \/ HomeStop \/ HomeDone \/ HostLostMcu
             \/ \E m \in Mcus : Query(m) \/ HostAck(m) \/ HostShutdown(m)
      PROVE  stale' = FALSE
  BY <1>1, <1>2, Zenon DEF HomeStart, HomeActivate, HomeStop, HomeDone, HostLostMcu, HostShutdown,
                           ShutdownPrinter, Query, HostAck
<1>3. QED
  BY <1>2, <1>HomeStartKeeps, <1>HomeActivateKeeps, <1>HomeStopKeeps, <1>HomeDoneKeeps,
     <1>HostShutdownKeeps, <1>QueryKeeps, <1>HostAckKeeps, <1>HostStateKeeps, Zenon

-----------------------------------------------------------------------------
(* The steps of the micro-controllers *)

\* The fields of the other micro-controllers keep their values.
OthersSame(m) ==
    /\ m # EndstopMcu => homing' = homing
    /\ \A x \in Mcus : x # m =>
          /\ session'[x] = session[x] /\ to_host'[x] = to_host[x]
          /\ can_trigger'[x] = can_trigger[x] /\ report'[x] = report[x]
          /\ read_time'[x] = read_time[x] /\ report_at'[x] = report_at[x]
          /\ expire_at'[x] = expire_at[x]

\* The conversations stay in the operation when a micro-controller takes a step.
LEMMA McuKeeps ==
    \A m \in Mcus :
       /\ SessionInv
       /\ \/ ExpireEvent(m) \/ ReportEvent(m) \/ TaskReadTime(m) \/ TaskReport(m)
          \/ TrsyncStart(m) \/ StopOnTrigger(m) \/ SetTimeout(m)
          \/ TrsyncTrigger(m, "trigger", <<>>) \/ TrsyncTrigger(m, "query", <<AckMessage>>)
          \/ EmergencyStop(m) \/ OtherShutdown(m) \/ CutLink(m)
          \/ (m = EndstopMcu /\ EndstopHome) \/ (m = EndstopMcu /\ EndstopHit) \/ Tick
       => Types' /\ (\A x \in Mcus : TalkAt(x)') /\ stale' = FALSE
\* m takes a command that is no query, and may report.
<1>TakeTalk. ASSUME NEW m, TalkAt(m), Popped(to_mcu[m], to_mcu'[m]), to_mcu[m][1].op # "query",
                    Extended(to_host[m], to_host'[m], Reports),
                    starts' = starts, session'[m] = starts, ~Off(m)', SameHost(m)
             PROVE  TalkAt(m)'
  <2> USE <1>TakeTalk
  <2>1. 1 \in Cmds(m) /\ ~NoCommand(m)  BY Zenon DEF Popped, Cmds, NoCommand
  <2>2. \A i \in Msgs(m)' : \/ i \in Msgs(m) /\ to_host'[m][i] = to_host[m][i]
                            \/ to_host'[m][i].of = starts /\ to_host'[m][i].op = "state"
    BY Zenon DEF Extended, Reports, Msgs
  <2>3. OfNow(m)'
    <3>1. \A i \in Cmds(m)' : to_mcu'[m][i].of = starts'
      <4>1. \A i \in Cmds(m)' : \E j \in Cmds(m) : to_mcu'[m][i] = to_mcu[m][j]
        BY Zenon DEF Cmds, Popped
      <4>2. \A j \in Cmds(m) : to_mcu[m][j].of = starts  BY Zenon DEF TalkAt, OfNow
      <4>3. QED  BY <4>1, <4>2, Zenon
    <3>2. QED  BY <2>2, <3>1, Zenon DEF TalkAt, OfNow
  <2>4. ASSUME host' # "shutdown" PROVE QueryLast(m)'
    <3>1. QueryLast(m)  BY <2>4, Zenon DEF TalkAt, SameHost
    <3>2. \A i \in Msgs(m) : to_host[m][i].op # "ack"  BY <2>1, <3>1, Zenon DEF QueryLast
    <3>3. \A i \in Msgs(m)' : to_host'[m][i].op # "ack"  BY <2>2, <3>2, Zenon
    <3>4. ASSUME NEW i \in Cmds(m)', to_mcu'[m][i].op = "query"
          PROVE  m \in querying' /\ \A j \in Cmds(m)' : j <= i
      <4>1. i + 1 \in Cmds(m) /\ to_mcu[m][i + 1].op = "query"
        BY <3>4, Zenon DEF Popped, Cmds
      <4>2. m \in querying' /\ \A j \in Cmds(m) : j <= i + 1
        BY <3>1, <4>1, Zenon DEF QueryLast, SameHost
      <4>3. ASSUME NEW j \in Cmds(m)' PROVE j <= i
        <5>1. j + 1 <= i + 1  BY <4>2, Zenon DEF Popped, Cmds
        <5>2. i \in Int /\ j \in Int  BY DEF Cmds
        <5>3. QED  BY <5>1, <5>2
      <4>4. QED  BY <4>2, <4>3, Zenon
    <3>5. QED  BY <3>3, <3>4, Zenon DEF QueryLast
  <2>5. host' # "shutdown" => host' # "idle" /\ result'[m] = Never
    BY <2>1, Zenon DEF TalkAt, Drained, SameHost
  <2>6. QED  BY <2>3, <2>4, <2>5, Zenon DEF TalkAt
\* m, which is not silent, reports.
<1>ReportTalk. ASSUME NEW m, TalkAt(m), ~Silent(m), to_mcu'[m] = to_mcu[m],
                      Extended(to_host[m], to_host'[m], Reports), SamePlace(m), SameHost(m)
               PROVE  TalkAt(m)'
  <2> USE <1>ReportTalk
  <2>1. session'[m] = starts'  BY Zenon DEF TalkAt, Unstarted, SamePlace
  <2>2. \A i \in Msgs(m)' : \/ i \in Msgs(m) /\ to_host'[m][i] = to_host[m][i]
                            \/ to_host'[m][i].of = starts /\ to_host'[m][i].op = "state"
    BY Zenon DEF Extended, Reports, Msgs
  <2>3. OfNow(m)'
    <3>1. \A i \in Cmds(m)' : to_mcu'[m][i].of = starts'  BY Zenon DEF TalkAt, OfNow, SamePlace, Cmds
    <3>2. QED  BY <2>2, <3>1, Zenon DEF TalkAt, OfNow, SamePlace
  <2>4. (Off(m) => NoCommand(m))'  BY Zenon DEF TalkAt, SamePlace, Off, NoCommand, Cmds
  <2>5. ASSUME host' # "shutdown" PROVE QueryLast(m)'
    <3>1. QueryLast(m)  BY <2>5, Zenon DEF TalkAt, SameHost
    <3>2. \A i \in Msgs(m)' : to_host'[m][i].op # "ack"  BY <2>2, <3>1, Zenon DEF QueryLast
    <3>3. QED  BY <3>1, <3>2, Zenon DEF QueryLast, Cmds, SameHost
  <2>6. host' # "shutdown" => host' # "idle" /\ result'[m] = Never
    BY Zenon DEF TalkAt, Drained, SameHost
  <2>7. QED  BY <2>1, <2>3, <2>4, <2>5, <2>6, Zenon DEF TalkAt
\* m takes a query and acknowledges it, after a report if it is not lost.
<1>QueryTalk. ASSUME NEW m, TalkAt(m), Popped(to_mcu[m], to_mcu'[m]), to_mcu[m][1].op = "query",
                     Extended(to_host[m], to_host'[m], Reports \cup {AckMessage}),
                     \A i \in Msgs(m)' : i \notin Msgs(m) /\ to_host'[m][i].op = "ack" =>
                         \A j \in Msgs(m)' : ~(i < j),
                     starts' = starts, session'[m] = starts, ~Off(m)', SameHost(m),
                     host # "shutdown" => Silent(m)'
              PROVE  TalkAt(m)'
  <2> USE <1>QueryTalk
  <2>1. 1 \in Cmds(m) /\ ~NoCommand(m)  BY Zenon DEF Popped, Cmds, NoCommand
  <2>2. \A i \in Msgs(m)' : \/ i \in Msgs(m) /\ to_host'[m][i] = to_host[m][i]
                            \/ to_host'[m][i].of = starts /\ to_host'[m][i].op = "state"
                            \/ i \notin Msgs(m) /\ to_host'[m][i].op = "ack"
    <3>1. AckMessage.op = "ack"  BY DEF AckMessage
    <3>2. \A i \in Msgs(m)' : \/ i \in Msgs(m) /\ to_host'[m][i] = to_host[m][i]
                              \/ i \notin Msgs(m) /\ to_host'[m][i] \in Reports \cup {AckMessage}
      BY Zenon DEF Extended, Msgs
    <3>3. QED  BY <3>1, <3>2, Zenon DEF Reports
  <2>3. OfNow(m)'
    <3>1. \A i \in Cmds(m)' : to_mcu'[m][i].of = starts'
      <4>1. \A i \in Cmds(m)' : \E j \in Cmds(m) : to_mcu'[m][i] = to_mcu[m][j]
        BY Zenon DEF Cmds, Popped
      <4>2. \A j \in Cmds(m) : to_mcu[m][j].of = starts  BY Zenon DEF TalkAt, OfNow
      <4>3. QED  BY <4>1, <4>2, Zenon
    <3>2. "ack" # "state"  OBVIOUS
    <3>3. QED  BY <2>2, <3>1, <3>2, Zenon DEF TalkAt, OfNow
  <2>4. ASSUME host' # "shutdown" PROVE QueryLast(m)'
    <3>1. QueryLast(m)  BY <2>4, Zenon DEF TalkAt, SameHost
    <3>2. /\ m \in querying' /\ \A j \in Cmds(m) : j <= 1
          /\ \A i \in Msgs(m) : to_host[m][i].op # "ack"
      BY <2>1, <3>1, Zenon DEF QueryLast, SameHost
    <3>3. NoCommand(m)'
      <4>1. \A i \in Cmds(m)' : i + 1 <= 1 /\ i \in 1..Len(to_mcu'[m])
        BY <3>2, Zenon DEF Popped, Cmds
      <4>2. QED  BY <4>1 DEF NoCommand
    <3>4. \A i \in Msgs(m)' : to_host'[m][i].op = "ack" => \A j \in Msgs(m)' : ~(i < j)
      <4>1. "ack" # "state"  OBVIOUS
      <4>2. QED  BY <2>2, <3>2, <4>1, Zenon
    <3>5. Silent(m)'  BY <2>4, Zenon DEF SameHost
    <3>6. QED  BY <3>2, <3>3, <3>4, <3>5, Zenon DEF QueryLast, NoCommand
  <2>5. host' # "shutdown" => host' # "idle" /\ result'[m] = Never
    BY <2>1, Zenon DEF TalkAt, Drained, SameHost
  <2>6. QED  BY <2>3, <2>4, <2>5, Zenon DEF TalkAt
\* m shuts down.
<1>ShutTalk. ASSUME NEW m, TalkAt(m), \A i \in Cmds(m)' : FALSE,
                    Extended(to_host[m], to_host'[m], {ShutdownMessage}),
                    starts' = starts, Off(m)', Silent(m)', SameHost(m)
             PROVE  TalkAt(m)'
  <2> USE <1>ShutTalk
  <2>1. \A i \in Msgs(m)' : \/ i \in Msgs(m) /\ to_host'[m][i] = to_host[m][i]
                            \/ to_host'[m][i].op = "shutdown" /\ \A j \in Msgs(m) : j < i
    <3>1. ShutdownMessage.op = "shutdown"  BY DEF ShutdownMessage, AckMessage
    <3>2. QED  BY <3>1, Zenon DEF Extended, Msgs
  <2>2. "shutdown" # "ack" /\ "shutdown" # "state"  OBVIOUS
  <2>3. OfNow(m)'  BY <2>1, <2>2, Zenon DEF TalkAt, OfNow
  <2>4. (Off(m) => NoCommand(m))' /\ Unstarted(m)'  BY Zenon DEF NoCommand, Unstarted
  <2>5. ASSUME host' # "shutdown" PROVE QueryLast(m)'
    <3>1. QueryLast(m)  BY <2>5, Zenon DEF TalkAt, SameHost
    <3>2. ASSUME NEW i \in Msgs(m)', to_host'[m][i].op = "ack"
          PROVE  m \in querying' /\ \A j \in Msgs(m)' : i < j => to_host'[m][j].op = "shutdown"
      <4>1. i \in Msgs(m) /\ to_host[m][i].op = "ack"  BY <2>1, <2>2, <3>2, Zenon
      <4>2. QED  BY <2>1, <3>1, <4>1, Zenon DEF QueryLast, SameHost
    <3>3. QED  BY <2>4, <3>2, Zenon DEF QueryLast
  <2>6. ASSUME host' # "shutdown", host' = "idle" \/ result'[m] # Never PROVE Drained(m)'
    <3>1. Drained(m)  BY <2>6, Zenon DEF TalkAt, SameHost
    <3>2. QED  BY <2>1, <2>4, <3>1, Zenon DEF Drained
  <2>7. QED  BY <2>3, <2>4, <2>5, <2>6, Zenon DEF TalkAt
\* The link to m is cut.
<1>CutTalk. ASSUME NEW m, TalkAt(m), \A i \in Cmds(m)' : FALSE, \A i \in Msgs(m)' : FALSE,
                   starts' = starts, session'[m] = session[m], Off(m)',
                   Silent(m) => Silent(m)', SameHost(m)
            PROVE  TalkAt(m)'
  <2> USE <1>CutTalk
  <2>1. OfNow(m)' /\ NoCommand(m)' /\ QueryLast(m)'  BY Zenon DEF OfNow, NoCommand, QueryLast
  <2>2. (session[m] # starts => Unstarted(m))'  BY Zenon DEF TalkAt, Unstarted
  <2>3. host' # "shutdown" /\ (host' = "idle" \/ result'[m] # Never) => Drained(m)'
    BY <2>1, Zenon DEF TalkAt, Drained, SameHost
  <2>4. QED  BY <2>1, <2>2, <2>3, Zenon DEF TalkAt
\* What every trsync has when only the one of m changes
<1>McuExcept. ASSUME McuTypes, NEW m \in Mcus,
                     NEW v1 \in BOOLEAN, NEW v2 \in BOOLEAN, NEW v3 \in BOOLEAN,
                     NEW v4 \in Reason, NEW v5 \in Times, NEW v6 \in Times,
                     NEW v7 \in Times, NEW v8 \in Times, NEW v9 \in Session,
                     can_trigger' = [can_trigger EXCEPT ![m] = v1], report' = [report EXCEPT ![m] = v2],
                     signal' = [signal EXCEPT ![m] = v3], trigger_reason' = [trigger_reason EXCEPT ![m] = v4],
                     report_at' = [report_at EXCEPT ![m] = v5], expire_at' = [expire_at EXCEPT ![m] = v6],
                     read_time' = [read_time EXCEPT ![m] = v7], triggered_at' = [triggered_at EXCEPT ![m] = v8],
                     session' = [session EXCEPT ![m] = v9],
                     homing' \in BOOLEAN, mcu_shutdown' \subseteq Mcus
              PROVE  McuTypes'
  <2> USE <1>McuExcept
  <2>1. can_trigger' \in [Mcus -> BOOLEAN] /\ report' \in [Mcus -> BOOLEAN] /\ signal' \in [Mcus -> BOOLEAN]
    BY ExceptType, Zenon DEF McuTypes
  <2>2. trigger_reason' \in [Mcus -> Reason] /\ session' \in [Mcus -> Session]
    BY ExceptType, Zenon DEF McuTypes
  <2>3. /\ report_at' \in [Mcus -> Times] /\ expire_at' \in [Mcus -> Times]
        /\ read_time' \in [Mcus -> Times] /\ triggered_at' \in [Mcus -> Times]
    BY ExceptType, Zenon DEF McuTypes
  <2>4. QED  BY <2>1, <2>2, <2>3, Zenon DEF McuTypes
\* A field that keeps its value is one that is set to it.
<1>ExceptSame. ASSUME NEW S, NEW T, NEW f \in [S -> T], NEW m \in S
               PROVE  f = [f EXCEPT ![m] = f[m]] /\ f[m] \in T
  BY <1>ExceptSame, Zenon
<1>ShutdownTypes. ASSUME McuTypes, HostTypes, NEW m \in Mcus, ShutdownMcu(m)
                  PROVE  McuTypes'
  <2> USE <1>ShutdownTypes
  <2>1. NoReason \in Reason /\ Never \in Times /\ now \in Times
    BY DEF Reason, NoReason, COMMS_TIMEOUT, Times, HostTypes
  <2>2. /\ session \in [Mcus -> Session] /\ session' = session
        /\ triggered_at \in [Mcus -> Times] /\ homing \in BOOLEAN /\ mcu_shutdown \subseteq Mcus
    BY Zenon DEF ShutdownMcu, McuTypes
  <2>3. session' = [session EXCEPT ![m] = session[m]] /\ session[m] \in Session
    BY <2>2, <1>ExceptSame, Zenon
  <2>4. (IF triggered_at[m] = Never THEN now ELSE triggered_at[m]) \in Times  BY <2>1, <2>2, Zenon
  <2>5. homing' \in BOOLEAN /\ mcu_shutdown' \subseteq Mcus  BY <2>2, Zenon DEF ShutdownMcu
  <2>6. /\ can_trigger' = [can_trigger EXCEPT ![m] = FALSE] /\ report' = [report EXCEPT ![m] = FALSE]
        /\ signal' = [signal EXCEPT ![m] = FALSE] /\ trigger_reason' = [trigger_reason EXCEPT ![m] = NoReason]
        /\ report_at' = [report_at EXCEPT ![m] = Never] /\ expire_at' = [expire_at EXCEPT ![m] = Never]
        /\ read_time' = [read_time EXCEPT ![m] = Never]
        /\ triggered_at' = [triggered_at EXCEPT
                               ![m] = IF triggered_at[m] = Never THEN now ELSE triggered_at[m]]
    BY Zenon DEF ShutdownMcu
  <2>7. QED  BY <2>1, <2>3, <2>4, <2>5, <2>6, <1>McuExcept, Zenon
\* The steps of a micro-controller keep the types of its fields.
<1>TriggerTypes. ASSUME McuTypes, HostTypes, NEW m \in Mcus, NEW reason \in Reason, DoTrigger(m, reason)
                 PROVE  /\ can_trigger' \in [Mcus -> BOOLEAN] /\ signal' \in [Mcus -> BOOLEAN]
                        /\ trigger_reason' \in [Mcus -> Reason] /\ triggered_at' \in [Mcus -> Times]
  <2> USE <1>TriggerTypes
  <2>1. now \in Times  BY DEF Times, HostTypes
  <2>2. (IF can_trigger[m] THEN reason ELSE trigger_reason[m]) \in Reason  BY Zenon DEF McuTypes
  <2>3. (IF can_trigger[m] THEN FALSE ELSE signal[m]) \in BOOLEAN  BY Zenon DEF McuTypes
  <2>4. (IF can_trigger[m] THEN now ELSE triggered_at[m]) \in Times  BY <2>1, Zenon DEF McuTypes
  <2>5. QED  BY <2>2, <2>3, <2>4, ExceptType, Zenon DEF DoTrigger, McuTypes
<1>McuStepTypes. ASSUME SessionInv, NEW m \in Mcus,
                        \/ ExpireEvent(m) \/ ReportEvent(m) \/ TaskReadTime(m) \/ TaskReport(m)
                        \/ TrsyncStart(m) \/ StopOnTrigger(m) \/ SetTimeout(m)
                        \/ TrsyncTrigger(m, "trigger", <<>>) \/ TrsyncTrigger(m, "query", <<AckMessage>>)
                        \/ EmergencyStop(m) \/ OtherShutdown(m)
                        \/ (m = EndstopMcu /\ (EndstopHit \/ EndstopHome))
                 PROVE  McuTypes'
  <2> USE <1>McuStepTypes
  <2>1. McuTypes /\ HostTypes /\ WireTypes  BY Zenon DEF SessionInv, Types
  <2>2. SUFFICES ASSUME ~ShutdownMcu(m) PROVE McuTypes'  BY <2>1, <1>ShutdownTypes, Zenon
  <2>3. /\ NoReason \in Reason /\ ENDSTOP_HIT \in Reason /\ COMMS_TIMEOUT \in Reason
        /\ HOST_REQUEST \in Reason /\ PAST_END_TIME \in Reason
        /\ Never \in Times /\ Nat \subseteq Times /\ now \in Times
    BY <2>1 DEF Reason, NoReason, ENDSTOP_HIT, HOST_REQUEST, PAST_END_TIME, COMMS_TIMEOUT, Times, HostTypes
  <2>4. ASSUME to_mcu[m] # <<>>
        PROVE  /\ Of(m) \in Session
               /\ Head(to_mcu[m]).op \in {"start", "timeout"} => Arg(m) \in Nat
               /\ Head(to_mcu[m]).op \in {"trigger", "query"} => Arg(m) \in Reason
    <3>1. to_mcu[m] \in Seq(Commands)  BY <2>1, Zenon DEF WireTypes
    <3>2. Head(to_mcu[m]) \in Commands  BY <2>4, <3>1, PoppedTail, Zenon
    <3>3. QED
      BY <2>3, <3>2 DEF Commands, Of, Arg
  <2>5. CASE ExpireEvent(m)
    <3>1. /\ can_trigger' \in [Mcus -> BOOLEAN] /\ signal' \in [Mcus -> BOOLEAN]
          /\ trigger_reason' \in [Mcus -> Reason] /\ triggered_at' \in [Mcus -> Times]
      BY <2>1, <2>3, <2>5, <1>TriggerTypes, Zenon DEF ExpireEvent
    <3>2. report' \in [Mcus -> BOOLEAN] /\ expire_at' \in [Mcus -> Times]
      BY <2>1, <2>3, <2>5, ExceptType, Zenon DEF ExpireEvent, McuTypes
    <3>3. QED  BY <2>1, <2>5, <3>1, <3>2, Zenon DEF ExpireEvent, McuTypes
  <2>6. CASE ReportEvent(m)
    <3>1. report_at[m] + ReportTicks \in Times
      BY <2>1, <2>6, TrSyncConstants DEF ReportEvent, McuTypes, Times
    <3>2. report' \in [Mcus -> BOOLEAN] /\ report_at' \in [Mcus -> Times]
      BY <2>1, <2>6, <3>1, ExceptType, Zenon DEF ReportEvent, McuTypes
    <3>3. QED  BY <2>1, <2>6, <3>2, Zenon DEF ReportEvent, McuTypes
  <2>7. CASE TaskReadTime(m)
    <3>1. read_time' \in [Mcus -> Times]
      BY <2>1, <2>3, <2>7, ExceptType, Zenon DEF TaskReadTime, McuTypes
    <3>2. QED  BY <2>1, <2>7, <3>1, Zenon DEF TaskReadTime, McuTypes, trsync
  <2>8. CASE TaskReport(m)
    <3>1. read_time' \in [Mcus -> Times] /\ report' \in [Mcus -> BOOLEAN]
      BY <2>1, <2>3, <2>8, ExceptType, Zenon DEF TaskReport, McuTypes
    <3>2. QED  BY <2>1, <2>8, <3>1, Zenon DEF TaskReport, McuTypes
  <2>9. CASE TrsyncStart(m)
    <3>1. Of(m) \in Session /\ Arg(m) \in Times
      BY <2>3, <2>4, <2>9, Zenon DEF TrsyncStart, Receives
    <3>2. /\ can_trigger' = [can_trigger EXCEPT ![m] = TRUE] /\ report' = [report EXCEPT ![m] = FALSE]
          /\ trigger_reason' = [trigger_reason EXCEPT ![m] = NoReason]
          /\ report_at' = [report_at EXCEPT ![m] = Arg(m)] /\ expire_at' = [expire_at EXCEPT ![m] = Never]
          /\ signal' = [signal EXCEPT ![m] = FALSE] /\ session' = [session EXCEPT ![m] = Of(m)]
          /\ triggered_at' = [triggered_at EXCEPT ![m] = Never]
          /\ UNCHANGED <<homing, mcu_shutdown, read_time>>
      BY <2>2, <2>9, Zenon DEF TrsyncStart
    <3>3. can_trigger' \in [Mcus -> BOOLEAN] /\ report' \in [Mcus -> BOOLEAN] /\ signal' \in [Mcus -> BOOLEAN]
      BY <2>1, <3>2, ExceptType, Zenon DEF McuTypes
    <3>4. /\ trigger_reason' \in [Mcus -> Reason] /\ session' \in [Mcus -> Session]
          /\ report_at' \in [Mcus -> Times] /\ expire_at' \in [Mcus -> Times]
          /\ triggered_at' \in [Mcus -> Times]
      BY <2>1, <2>3, <3>1, <3>2, ExceptType, Zenon DEF McuTypes
    <3>5. QED  BY <2>1, <3>2, <3>3, <3>4, Zenon DEF McuTypes
  <2>10. CASE StopOnTrigger(m)
    <3>1. signal' \in [Mcus -> BOOLEAN]
      BY <2>1, <2>2, <2>10, ExceptType, Zenon DEF StopOnTrigger, McuTypes
    <3>2. QED  BY <2>1, <2>2, <2>10, <3>1, Zenon DEF StopOnTrigger, McuTypes
  <2>11. CASE SetTimeout(m)
    <3>1. Arg(m) \in Times  BY <2>3, <2>4, <2>11, Zenon DEF SetTimeout, Receives
    <3>2. (IF can_trigger[m] THEN Arg(m) ELSE expire_at[m]) \in Times  BY <2>1, <3>1, Zenon DEF McuTypes
    <3>3. expire_at' \in [Mcus -> Times]
      BY <2>1, <2>2, <2>11, <3>2, ExceptType, Zenon DEF SetTimeout, McuTypes
    <3>4. QED  BY <2>1, <2>2, <2>11, <3>3, Zenon DEF SetTimeout, McuTypes
  <2>12. ASSUME NEW op \in {"trigger", "query"}, NEW rest, TrsyncTrigger(m, op, rest) PROVE McuTypes'
    <3>1. Arg(m) \in Reason  BY <2>4, <2>12, Zenon DEF TrsyncTrigger, Receives
    <3>2. /\ can_trigger' \in [Mcus -> BOOLEAN] /\ signal' \in [Mcus -> BOOLEAN]
          /\ trigger_reason' \in [Mcus -> Reason] /\ triggered_at' \in [Mcus -> Times]
      BY <2>1, <2>12, <3>1, <1>TriggerTypes, Zenon DEF TrsyncTrigger
    <3>3. report_at' \in [Mcus -> Times] /\ expire_at' \in [Mcus -> Times] /\ report' \in [Mcus -> BOOLEAN]
      BY <2>1, <2>3, <2>12, ExceptType, Zenon DEF TrsyncTrigger, McuTypes
    <3>4. QED  BY <2>1, <2>12, <3>2, <3>3, Zenon DEF TrsyncTrigger, McuTypes
  <2>13. CASE m = EndstopMcu /\ EndstopHit
    <3>1. /\ can_trigger' \in [Mcus -> BOOLEAN] /\ signal' \in [Mcus -> BOOLEAN]
          /\ trigger_reason' \in [Mcus -> Reason] /\ triggered_at' \in [Mcus -> Times]
      BY <2>1, <2>3, <2>13, <1>TriggerTypes, Zenon DEF EndstopHit
    <3>2. report' \in [Mcus -> BOOLEAN]
      BY <2>1, <2>13, ExceptType, Zenon DEF EndstopHit, McuTypes
    <3>3. QED  BY <2>1, <2>13, <3>1, <3>2, Zenon DEF EndstopHit, McuTypes
  <2>14. CASE m = EndstopMcu /\ EndstopHome
    BY <2>1, <2>2, <2>14, Zenon DEF EndstopHome, McuTypes
  <2>15. QED
    BY <2>2, <2>5, <2>6, <2>7, <2>8, <2>9, <2>10, <2>11, <2>12, <2>13, <2>14, ZenonT(30)
       DEF EmergencyStop, OtherShutdown
\* The steps of m leave the host and the other micro-controllers alone.
<1>OthersTalk. ASSUME NEW m, NEW x, x # m, TalkAt(x), UNCHANGED python,
                      x \in cut <=> x \in cut', x \in mcu_shutdown <=> x \in mcu_shutdown',
                      to_mcu'[x] = to_mcu[x], to_host'[x] = to_host[x], session'[x] = session[x],
                      can_trigger'[x] = can_trigger[x], report'[x] = report[x], read_time'[x] = read_time[x],
                      report_at'[x] = report_at[x], expire_at'[x] = expire_at[x],
                      m # EndstopMcu => homing' = homing
               PROVE  TalkAt(x)'
  <2> USE <1>OthersTalk
  <2>1. SamePlace(x)  BY Zenon DEF SamePlace, python
  <2>2. CASE x = EndstopMcu /\ m # EndstopMcu
    <3>1. Silent(x) => Silent(x)'  BY <2>2, Zenon DEF Silent
    <3>2. Shrunk(to_host[x], to_host'[x])  BY ShrunkSame, Zenon
    <3>3. QED  BY <2>1, <3>1, <3>2, KeepsTalk, Zenon DEF python
  <2>3. CASE x # EndstopMcu
    <3>1. Silent(x) => Silent(x)'  BY <2>3, Zenon DEF Silent
    <3>2. Shrunk(to_host[x], to_host'[x])  BY ShrunkSame, Zenon
    <3>3. QED  BY <2>1, <3>1, <3>2, KeepsTalk, Zenon DEF python
  <2>4. QED  BY <2>2, <2>3, Zenon
\* m shuts down.
<1>ShutdownMcuKeeps. ASSUME SessionInv, NEW m \in Mcus, ShutdownMcu(m), UNCHANGED <<now, python, trdispatch, stale>>
                     PROVE  Types' /\ (\A x \in Mcus : TalkAt(x)') /\ stale' = FALSE
  <2> USE <1>ShutdownMcuKeeps
  <2>1. Types /\ TalkAt(m) /\ stale' = FALSE  BY Zenon DEF SessionInv
  <2>2. McuTypes' /\ HostTypes'  BY <2>1, <1>ShutdownTypes, HostFrame, Zenon DEF Types, HostTypes
  <2>3. ShutdownMessage \in MessageType /\ <<ShutdownMessage>> \in Seq(MessageType)
        /\ \A i \in 1..Len(<<ShutdownMessage>>) : <<ShutdownMessage>>[i] \in {ShutdownMessage}
    <3>1. ShutdownMessage \in MessageType
      <4>1. 0 \in Nat /\ 0 \in NoReason..COMMS_TIMEOUT /\ 0 \in 0..MaxStarts
        BY TrSyncConstants DEF NoReason, COMMS_TIMEOUT
      <4>2. AckMessage \in MessageType  BY <4>1 DEF MessageType, AckMessage
      <4>3. QED  BY <4>2 DEF MessageType, ShutdownMessage
    <3> HIDE DEF ShutdownMessage
    <3>2. QED  BY <3>1, OneOf, Zenon
  <2>4. to_host[m] \in Seq(MessageType) /\ to_host \in [Mcus -> Seq(MessageType)]
        /\ to_mcu \in [Mcus -> Seq(Commands)] /\ <<>> \in Seq(Commands)
    BY <2>1, SeqEmpty, Zenon DEF Types, WireTypes
  <2>5. /\ SendHost(m, <<ShutdownMessage>>) \in Seq(MessageType)
        /\ Extended(to_host[m], SendHost(m, <<ShutdownMessage>>), {ShutdownMessage})
    <3>1. /\ Extended(to_host[m], to_host[m] \o <<ShutdownMessage>>, {ShutdownMessage})
          /\ to_host[m] \o <<ShutdownMessage>> \in Seq(MessageType)
      BY <2>3, <2>4, ExtendedConcat, Zenon
    <3>2. Extended(to_host[m], to_host[m], {ShutdownMessage})
      <4>1. Len(to_host[m]) \in Nat  BY <2>4, SeqLen, Zenon
      <4>2. QED  BY <4>1, Zenon DEF Extended
    <3>3. QED  BY <2>4, <3>1, <3>2, Zenon DEF SendHost
  <2>6. /\ to_host' \in [Mcus -> Seq(MessageType)] /\ to_mcu' \in [Mcus -> Seq(Commands)]
        /\ to_mcu'[m] = <<>> /\ to_host'[m] = SendHost(m, <<ShutdownMessage>>)
        /\ \A x \in Mcus : x # m => to_mcu'[x] = to_mcu[x] /\ to_host'[x] = to_host[x]
    BY <2>4, <2>5, Zenon DEF ShutdownMcu
  <2>7. WireTypes'  BY <2>1, <2>6, Zenon DEF Types, WireTypes, ShutdownMcu
  <2>8. TalkAt(m)'
    <3>1. \A i \in Cmds(m)' : FALSE
      <4>1. to_mcu'[m] = <<>>  BY <2>6, Zenon
      <4>2. QED  BY <4>1 DEF Cmds
    <3>2. Silent(m)' /\ Off(m)'
      BY <2>1, Zenon DEF ShutdownMcu, Silent, Off, Types, McuTypes
    <3>3. SameHost(m) /\ starts' = starts  BY Zenon DEF SameHost, python
    <3>4. QED  BY <2>1, <2>5, <2>6, <3>1, <3>2, <3>3, <1>ShutTalk, ZenonT(30)
  <2>9. ASSUME NEW x \in Mcus, x # m PROVE TalkAt(x)'
    <3>1. TalkAt(x)  BY Zenon DEF SessionInv
    <3>2. /\ (x \in cut <=> x \in cut') /\ (x \in mcu_shutdown <=> x \in mcu_shutdown')
          /\ session'[x] = session[x]
          /\ can_trigger'[x] = can_trigger[x] /\ report'[x] = report[x] /\ read_time'[x] = read_time[x]
          /\ report_at'[x] = report_at[x] /\ expire_at'[x] = expire_at[x]
          /\ m # EndstopMcu => homing' = homing
      BY <2>1, <2>9, Zenon DEF ShutdownMcu, Types, McuTypes
    <3>3. QED  BY <2>6, <2>9, <3>1, <3>2, <1>OthersTalk, Zenon
  <2>10. QED  BY <2>1, <2>2, <2>7, <2>8, <2>9, Zenon DEF Types
\* What a step of m that keeps the links changes
<1>SilentStep. ASSUME SessionInv, NEW m \in Mcus, HostTypes', McuTypes',
                      UNCHANGED <<python, to_mcu, to_host, faults, mcu_shutdown, session, stale>>,
                      Silent(m) => Silent(m)',
                      \A x \in Mcus : x # m =>
                         /\ can_trigger'[x] = can_trigger[x] /\ report'[x] = report[x]
                         /\ read_time'[x] = read_time[x] /\ report_at'[x] = report_at[x]
                         /\ expire_at'[x] = expire_at[x],
                      m # EndstopMcu => homing' = homing
               PROVE  Types' /\ (\A x \in Mcus : TalkAt(x)') /\ stale' = FALSE
  <2> USE <1>SilentStep
  <2>1. Types /\ TalkAt(m) /\ stale' = FALSE  BY Zenon DEF SessionInv
  <2>2. WireTypes'  BY <2>1, Zenon DEF Types, WireTypes, faults
  <2>3. TalkAt(m)'
    <3>1. SamePlace(m) /\ Shrunk(to_host[m], to_host'[m])
      BY ShrunkSame, Zenon DEF SamePlace, python, faults
    <3>2. host' = host /\ querying' = querying /\ result' = result  BY Zenon DEF python
    <3>3. QED  BY <2>1, <3>1, <3>2, KeepsTalk, Zenon
  <2>4. ASSUME NEW x \in Mcus, x # m PROVE TalkAt(x)'
    <3>1. TalkAt(x) /\ (x \in cut <=> x \in cut')  BY Zenon DEF SessionInv, faults
    <3>2. QED  BY <2>4, <3>1, <1>OthersTalk, Zenon
  <2>5. QED  BY <2>1, <2>2, <2>3, <2>4, Zenon DEF Types
\* A timer of m is due, or its endstop is hit, or its task starts.
<1>EventKeeps. ASSUME SessionInv, NEW m \in Mcus,
                      \/ ExpireEvent(m) \/ ReportEvent(m) \/ TaskReadTime(m) \/ (m = EndstopMcu /\ EndstopHit)
               PROVE  Types' /\ (\A x \in Mcus : TalkAt(x)') /\ stale' = FALSE
  <2> USE <1>EventKeeps
  <2>1. McuTypes /\ HostTypes  BY Zenon DEF SessionInv, Types
  <2>2. McuTypes'  BY <1>McuStepTypes, Zenon
  <2>3. /\ UNCHANGED <<now, python, trdispatch>>
        /\ UNCHANGED <<python, to_mcu, to_host, faults, mcu_shutdown, session, stale>>
    <3>1. CASE ExpireEvent(m)  BY <3>1, Zenon DEF ExpireEvent
    <3>2. CASE ReportEvent(m)  BY <3>2, Zenon DEF ReportEvent
    <3>3. CASE TaskReadTime(m)  BY <3>3, Zenon DEF TaskReadTime, trsync
    <3>4. CASE EndstopHit  BY <3>4, Zenon DEF EndstopHit
    <3>5. QED  BY <3>1, <3>2, <3>3, <3>4, Zenon
  <2>4. HostTypes'  BY <2>1, <2>3, HostFrame, Zenon DEF HostTypes
  <2>5. ~Silent(m)
    <3>1. CASE ExpireEvent(m)  BY <3>1, Zenon DEF ExpireEvent, Silent
    <3>2. CASE ReportEvent(m)  BY <3>2, Zenon DEF ReportEvent, Silent
    <3>3. CASE TaskReadTime(m)  BY <3>3, Zenon DEF TaskReadTime, Silent
    <3>4. CASE m = EndstopMcu /\ EndstopHit  BY <3>4, Zenon DEF EndstopHit, Silent
    <3>5. QED  BY <3>1, <3>2, <3>3, <3>4, Zenon
  <2>6. /\ m # EndstopMcu => homing' = homing
        /\ \A x \in Mcus : x # m =>
                /\ can_trigger'[x] = can_trigger[x] /\ report'[x] = report[x]
                /\ read_time'[x] = read_time[x] /\ report_at'[x] = report_at[x]
                /\ expire_at'[x] = expire_at[x]
    <3>1. CASE ExpireEvent(m)  BY <2>1, <3>1, Zenon DEF ExpireEvent, DoTrigger, McuTypes
    <3>2. CASE ReportEvent(m)  BY <2>1, <3>2, Zenon DEF ReportEvent, McuTypes
    <3>3. CASE TaskReadTime(m)  BY <2>1, <3>3, Zenon DEF TaskReadTime, McuTypes, trsync
    <3>4. CASE m = EndstopMcu /\ EndstopHit  BY <2>1, <3>4, Zenon DEF EndstopHit, DoTrigger, McuTypes
    <3>5. QED  BY <3>1, <3>2, <3>3, <3>4, Zenon
  <2>7. QED  BY <2>2, <2>3, <2>4, <2>5, <2>6, <1>SilentStep, ZenonT(30)
<1>ExtendedSame. ASSUME WireTypes, NEW m \in Mcus, NEW D
                 PROVE  Extended(to_host[m], to_host[m], D)
  <2> USE <1>ExtendedSame
  <2>1. to_host[m] \in Seq(MessageType)  BY Zenon DEF WireTypes
  <2>2. Len(to_host[m]) \in Nat  BY <2>1, SeqLen, Zenon
  <2>3. QED  BY <2>2, Zenon DEF Extended
<1>TakeKeeps. ASSUME SessionInv, NEW m \in Mcus, NEW op, op # "query", Receives(m, op), Taken(m),
                     McuTypes', to_host' \in [Mcus -> Seq(MessageType)],
                     Extended(to_host[m], to_host'[m], Reports),
                     cut' = cut, mcu_shutdown' = mcu_shutdown, session'[m] = starts, stale' = FALSE,
                     OthersSame(m)
              PROVE  Types' /\ (\A x \in Mcus : TalkAt(x)') /\ stale' = FALSE
  <2> USE <1>TakeKeeps
  <2>1. Types  BY Zenon DEF SessionInv
  <2>2. /\ to_mcu' \in [Mcus -> Seq(Commands)] /\ Popped(to_mcu[m], to_mcu'[m])
        /\ to_mcu[m][1].op = op /\ ~Off(m)
        /\ \A x \in Mcus : x # m => to_mcu'[x] = to_mcu[x]
    BY TakenFacts, Zenon
  <2>3. UNCHANGED <<now, python, trdispatch>>  BY Zenon DEF Receives
  <2>4. HostTypes' /\ WireTypes'
    BY <2>1, <2>2, <2>3, HostFrame, Zenon DEF Types, WireTypes, HostTypes
  <2>5. TalkAt(m)'
    <3>1. TalkAt(m) /\ SameHost(m) /\ starts' = starts /\ ~Off(m)'
      BY <2>2, <2>3, Zenon DEF SessionInv, SameHost, python, Off
    <3>2. QED  BY <2>2, <3>1, <1>TakeTalk, Zenon
  <2>6. ASSUME NEW x \in Mcus, x # m PROVE TalkAt(x)'
    <3>1. TalkAt(x) /\ UNCHANGED python  BY <2>3, Zenon DEF SessionInv
    <3>2. QED  BY <2>2, <2>6, <3>1, <1>OthersTalk, Zenon DEF OthersSame
  <2>7. QED  BY <2>4, <2>5, <2>6, Zenon DEF Types
<1>TaskReportKeeps. ASSUME SessionInv, NEW m \in Mcus, TaskReport(m)
                    PROVE  Types' /\ (\A x \in Mcus : TalkAt(x)') /\ stale' = FALSE
  <2> USE <1>TaskReportKeeps
  <2>1. Types /\ TalkAt(m) /\ stale = FALSE  BY Zenon DEF SessionInv
  <2>2. McuTypes'  BY <1>McuStepTypes, Zenon
  <2>3. ~Silent(m) /\ session[m] = starts
    BY <2>1, Zenon DEF TaskReport, Silent, TalkAt, Unstarted
  <2> DEFINE msg == State(m, can_trigger[m], trigger_reason[m], ReportClock(m))
  <2>4. msg \in MessageType /\ msg \in Reports
    <3>1. can_trigger[m] \in BOOLEAN /\ trigger_reason[m] \in Reason
      BY <2>1, Zenon DEF Types, McuTypes
    <3>2. ReportClock(m) \in Nat
      <4>1. read_time[m] # Never /\ read_time[m] \in Times
        BY <2>1, Zenon DEF TaskReport, Types, McuTypes
      <4>2. QED  BY <4>1, Zenon DEF Times, ReportClock
    <3>3. QED  BY <2>1, <2>3, <3>1, <3>2, StateMessage, Zenon
  <2>5. Sendf(m, msg, <<>>)  BY Zenon DEF TaskReport
  <2> HIDE DEF msg
  <2>6. /\ to_host' \in [Mcus -> Seq(MessageType)] /\ cut' = cut
        /\ Extended(to_host[m], to_host'[m], Reports)
        /\ \A x \in Mcus : x # m => to_host'[x] = to_host[x]
    <3>1. <<>> \in Seq(MessageType) /\ \A i \in 1..Len(<<>>) : <<>>[i] \in Reports  OBVIOUS
    <3>2. QED  BY <2>1, <2>4, <2>5, <3>1, SendfFacts, Zenon DEF Types
  <2>7. UNCHANGED <<now, python, trdispatch, to_mcu, mcu_shutdown, session, stale>>
    BY Zenon DEF TaskReport
  <2>8. HostTypes' /\ WireTypes'
    BY <2>1, <2>6, <2>7, HostFrame, Zenon DEF Types, WireTypes, HostTypes
  <2>9. TalkAt(m)'
    <3>1. SamePlace(m) /\ SameHost(m)  BY <2>6, <2>7, Zenon DEF SamePlace, SameHost, python
    <3>2. QED  BY <2>1, <2>3, <2>6, <2>7, <3>1, <1>ReportTalk, Zenon
  <2>10. ASSUME NEW x \in Mcus, x # m PROVE TalkAt(x)'
    <3>1. TalkAt(x)  BY Zenon DEF SessionInv
    <3>2. /\ can_trigger'[x] = can_trigger[x] /\ report'[x] = report[x] /\ read_time'[x] = read_time[x]
          /\ report_at'[x] = report_at[x] /\ expire_at'[x] = expire_at[x] /\ homing' = homing
      BY <2>1, <2>10, Zenon DEF TaskReport, Types, McuTypes
    <3>3. QED  BY <2>6, <2>7, <2>10, <3>1, <3>2, <1>OthersTalk, Zenon
  <2>11. QED  BY <2>1, <2>2, <2>7, <2>8, <2>9, <2>10, ZenonT(30) DEF Types
\* The commands that neither report nor shut down
<1>QuietKeeps. ASSUME SessionInv, NEW m \in Mcus,
                      \/ TrsyncStart(m) \/ StopOnTrigger(m) \/ SetTimeout(m)
                      \/ (m = EndstopMcu /\ EndstopHome)
               PROVE  Types' /\ (\A x \in Mcus : TalkAt(x)') /\ stale' = FALSE
  <2> USE <1>QuietKeeps
  <2>1. McuTypes'  BY <1>McuStepTypes, Zenon
  <2>2. Types /\ stale = FALSE  BY Zenon DEF SessionInv
  <2>3. ASSUME ShutdownMcu(m), UNCHANGED <<now, python, trdispatch, stale>>
        PROVE  Types' /\ (\A x \in Mcus : TalkAt(x)') /\ stale' = FALSE
    BY <2>3, <1>ShutdownMcuKeeps, Zenon
  <2>4. \A D : Extended(to_host[m], to_host[m], D)  BY <2>2, <1>ExtendedSame, Zenon DEF Types
  <2>5. to_host \in [Mcus -> Seq(MessageType)]  BY <2>2, Zenon DEF Types, WireTypes
  <2>6. ASSUME NEW op, op # "query", Receives(m, op), Taken(m), UNCHANGED <<to_host, faults, mcu_shutdown>>,
               session'[m] = starts, stale' = FALSE, OthersSame(m)
        PROVE  Types' /\ (\A x \in Mcus : TalkAt(x)') /\ stale' = FALSE
    <3>1. cut' = cut /\ to_host' = to_host /\ mcu_shutdown' = mcu_shutdown
      BY <2>6, Zenon DEF faults
    <3>2. QED  BY <2>1, <2>4, <2>5, <2>6, <3>1, <1>TakeKeeps, Zenon
  <2>7. CASE TrsyncStart(m)
    <3>1. Receives(m, "start") /\ UNCHANGED <<now, python, trdispatch>>
      BY <2>7, Zenon DEF TrsyncStart, Receives
    <3>2. CASE ShutdownMcu(m) /\ UNCHANGED stale  BY <2>3, <3>1, <3>2, Zenon
    <3>3. CASE ~TooClose(Arg(m))
      <4>1. Taken(m) /\ UNCHANGED <<to_host, faults, mcu_shutdown>> /\ stale' = stale
        BY <2>7, <3>3, Zenon DEF TrsyncStart
      <4>2. Of(m) = starts  BY <3>1, <4>1, TakenFacts, Zenon
      <4>3. session'[m] = starts
        BY <2>2, <2>7, <3>3, <4>2, Zenon DEF TrsyncStart, Types, McuTypes
      <4>5. /\ homing' = homing /\ to_host' = to_host /\ read_time' = read_time
            /\ \A x \in Mcus : x # m =>
                 /\ session'[x] = session[x] /\ can_trigger'[x] = can_trigger[x]
                 /\ report'[x] = report[x] /\ report_at'[x] = report_at[x]
                 /\ expire_at'[x] = expire_at[x]
        <5>1. /\ homing' = homing /\ to_host' = to_host /\ read_time' = read_time
              /\ session' = [session EXCEPT ![m] = Of(m)]
              /\ can_trigger' = [can_trigger EXCEPT ![m] = TRUE]
              /\ report' = [report EXCEPT ![m] = FALSE]
              /\ report_at' = [report_at EXCEPT ![m] = Arg(m)]
              /\ expire_at' = [expire_at EXCEPT ![m] = Never]
          BY <2>7, <3>3, Zenon DEF TrsyncStart
        <5>2. QED  BY <2>2, <5>1, Zenon DEF Types, McuTypes
      <4>6. OthersSame(m)  BY <4>5, Zenon DEF OthersSame
      <4>4. QED  BY <2>2, <2>6, <3>1, <4>1, <4>3, <4>6, Zenon
    <3>4. QED  BY <2>7, <3>2, <3>3, Zenon DEF TrsyncStart
  <2>8. CASE StopOnTrigger(m)
    <3>1. Receives(m, "stop_on") /\ UNCHANGED <<now, python, trdispatch>>
      BY <2>8, Zenon DEF StopOnTrigger, Receives
    <3>2. CASE ShutdownMcu(m) /\ UNCHANGED stale  BY <2>3, <3>1, <3>2, Zenon
    <3>3. CASE ~signal[m]
      <4>1. Taken(m) /\ UNCHANGED <<to_host, faults, mcu_shutdown>> /\ stale' = stale
        BY <2>8, <3>3, Zenon DEF StopOnTrigger
      <4> "stop_on" # "start"  OBVIOUS
      <4>2. session[m] = starts  BY <3>1, <4>1, TakenFacts, Zenon
      <4>3. session'[m] = starts /\ OthersSame(m)
        BY <2>2, <2>8, <3>3, <4>1, <4>2, Zenon DEF StopOnTrigger, OthersSame, Types, McuTypes
      <4>4. QED  BY <2>2, <2>6, <3>1, <4>1, <4>3, Zenon
    <3>4. QED  BY <2>8, <3>2, <3>3, Zenon DEF StopOnTrigger
  <2>9. CASE SetTimeout(m)
    <3>1. Receives(m, "timeout") /\ UNCHANGED <<now, python, trdispatch>>
      BY <2>9, Zenon DEF SetTimeout, Receives
    <3>2. CASE ShutdownMcu(m) /\ UNCHANGED stale  BY <2>3, <3>1, <3>2, Zenon
    <3>3. CASE ~(can_trigger[m] /\ TooClose(Arg(m)))
      <4>1. Taken(m) /\ UNCHANGED <<to_host, faults, mcu_shutdown>>
        BY <2>9, <3>3, Zenon DEF SetTimeout
      <4> "timeout" # "start"  OBVIOUS
      <4>2. session[m] = starts /\ Of(m) = starts  BY <3>1, <4>1, TakenFacts, Zenon
      <4>3. session'[m] = starts /\ OthersSame(m)
        BY <2>2, <2>9, <3>3, <4>1, <4>2, ZenonT(30) DEF SetTimeout, OthersSame, Types, McuTypes
      <4>4. stale' = FALSE  BY <2>2, <2>9, <3>3, <4>2, Zenon DEF SetTimeout
      <4>5. QED  BY <2>6, <3>1, <4>1, <4>3, <4>4, Zenon
    <3>4. QED  BY <2>9, <3>2, <3>3, Zenon DEF SetTimeout
  <2>10. CASE m = EndstopMcu /\ EndstopHome
    <3>1. Receives(m, "home") /\ UNCHANGED <<now, python, trdispatch>>
      BY <2>10, Zenon DEF EndstopHome, Receives
    <3>2. CASE ShutdownMcu(m) /\ UNCHANGED stale  BY <2>3, <3>1, <3>2, Zenon
    <3>3. CASE ~(Arg(m) # Never /\ TooClose(Arg(m)))
      <4>1. Taken(m) /\ UNCHANGED <<to_host, faults, mcu_shutdown>> /\ stale' = stale
        BY <2>10, <3>3, Zenon DEF EndstopHome
      <4> "home" # "start"  OBVIOUS
      <4>2. session[m] = starts  BY <3>1, <4>1, TakenFacts, Zenon
      <4>3. session'[m] = starts /\ OthersSame(m)
        BY <2>2, <2>10, <3>3, <4>1, <4>2, Zenon DEF EndstopHome, OthersSame, Types, McuTypes
      <4>4. QED  BY <2>2, <2>6, <3>1, <4>1, <4>3, Zenon
    <3>4. QED  BY <2>10, <3>2, <3>3, Zenon DEF EndstopHome
  <2>11. QED  BY <2>7, <2>8, <2>9, <2>10, Zenon
<1>OffKeeps. ASSUME SessionInv, NEW m \in Mcus, EmergencyStop(m) \/ OtherShutdown(m)
             PROVE  Types' /\ (\A x \in Mcus : TalkAt(x)') /\ stale' = FALSE
  <2> USE <1>OffKeeps
  <2>1. ShutdownMcu(m) /\ UNCHANGED <<now, python, trdispatch, stale>>
    BY Zenon DEF EmergencyStop, OtherShutdown, Receives
  <2>2. QED  BY <2>1, <1>ShutdownMcuKeeps, Zenon
<1>CutLinkKeeps. ASSUME SessionInv, NEW m \in Mcus, CutLink(m)
                 PROVE  Types' /\ (\A x \in Mcus : TalkAt(x)') /\ stale' = FALSE
  <2> USE <1>CutLinkKeeps
  <2>1. Types /\ (\A x \in Mcus : TalkAt(x)) /\ stale = FALSE  BY Zenon DEF SessionInv
  <2>2. UNCHANGED <<now, python, trdispatch, trsync, read_time, stale>> /\ cut' = cut \cup {m}
    BY Zenon DEF CutLink
  <2>3. <<>> \in Seq(Commands) /\ <<>> \in Seq(MessageType) /\ \A i \in 1..Len(<<>>) : FALSE
    OBVIOUS
  <2>4. to_mcu' = [to_mcu EXCEPT ![m] = <<>>] /\ to_host' = [to_host EXCEPT ![m] = <<>>]
    BY Zenon DEF CutLink
  <2>5. /\ to_mcu' \in [Mcus -> Seq(Commands)] /\ to_host' \in [Mcus -> Seq(MessageType)]
        /\ to_mcu'[m] = <<>> /\ to_host'[m] = <<>>
        /\ \A x \in Mcus : x # m => to_mcu'[x] = to_mcu[x] /\ to_host'[x] = to_host[x]
    BY <2>1, <2>3, <2>4, Zenon DEF Types, WireTypes
  <2>6. HostTypes' /\ McuTypes'
    BY <2>1, <2>2, HostFrame, McuFrame, Zenon DEF Types, HostTypes
  <2>7. WireTypes'  BY <2>1, <2>2, <2>5, Zenon DEF Types, WireTypes
  <2>8. TalkAt(m)'
    <3>1. (\A i \in Cmds(m)' : FALSE) /\ (\A i \in Msgs(m)' : FALSE)
      BY <2>3, <2>5, Zenon DEF Cmds, Msgs
    <3>2. starts' = starts /\ session'[m] = session[m] /\ Off(m)' /\ SameHost(m)
      BY <2>2, Zenon DEF python, trsync, Off, SameHost
    <3>3. Silent(m) => Silent(m)'  BY <2>2, Zenon DEF Silent, trsync
    <3>4. QED  BY <2>1, <3>1, <3>2, <3>3, <1>CutTalk, ZenonT(30)
  <2>9. ASSUME NEW x \in Mcus, x # m PROVE TalkAt(x)'
    <3>1. (x \in cut <=> x \in cut') /\ (x \in mcu_shutdown <=> x \in mcu_shutdown')
      BY <2>2, <2>9, Zenon DEF trsync
    <3>2. /\ session' = session /\ can_trigger' = can_trigger /\ report' = report
          /\ read_time' = read_time /\ report_at' = report_at /\ expire_at' = expire_at
          /\ homing' = homing
      BY <2>2, Zenon DEF trsync
    <3>3. QED  BY <2>1, <2>2, <2>5, <2>9, <3>1, <3>2, <1>OthersTalk, ZenonT(30)
  <2>10. QED  BY <2>1, <2>2, <2>6, <2>7, <2>8, <2>9, ZenonT(30) DEF Types
<1>TickKeeps. ASSUME SessionInv, Tick
              PROVE  Types' /\ (\A x \in Mcus : TalkAt(x)') /\ stale' = FALSE
  <2> USE <1>TickKeeps
  <2>1. /\ UNCHANGED <<python, trdispatch, to_mcu, to_host, faults, trsync, read_time, stale>>
        /\ now' = now + 1
    BY Zenon DEF Tick
  <2>2. Types /\ (\A x \in Mcus : TalkAt(x)) /\ stale = FALSE  BY Zenon DEF SessionInv
  <2>3. now' \in Nat  BY <2>1, <2>2 DEF Types, HostTypes
  <2>4. HostTypes' /\ McuTypes'
    BY <2>1, <2>2, <2>3, HostFrame, McuFrame, Zenon DEF Types
  <2>5. WireTypes'  BY <2>1, <2>2, Zenon DEF Types, WireTypes, faults
  <2>6. ASSUME NEW x \in Mcus PROVE TalkAt(x)'
    <3>1. SamePlace(x) /\ host' = host /\ querying' = querying /\ result' = result
      BY <2>1, Zenon DEF SamePlace, python, faults, trsync
    <3>2. Silent(x) => Silent(x)'  BY <2>1, Zenon DEF Silent, trsync
    <3>3. to_mcu'[x] = to_mcu[x] /\ Shrunk(to_host[x], to_host'[x])
      BY <2>1, ShrunkSame, Zenon
    <3>4. QED  BY <2>2, <3>1, <3>2, <3>3, KeepsTalk, Zenon
  <2>7. QED  BY <2>1, <2>2, <2>4, <2>5, <2>6, Zenon DEF Types
\* command_trsync_trigger
<1>TriggerWire. ASSUME SessionInv, NEW m \in Mcus, NEW op \in {"trigger", "query"},
                       NEW rest \in Seq(MessageType), NEW D, Reports \subseteq D,
                       \A i \in 1..Len(rest) : rest[i] \in D, TrsyncTrigger(m, op, rest)
                PROVE  /\ to_host' \in [Mcus -> Seq(MessageType)] /\ cut' = cut /\ mcu_shutdown' = mcu_shutdown
                       /\ Extended(to_host[m], to_host'[m], D)
                       /\ \E d \in Seq(MessageType) :
                             /\ to_host'[m] = to_host[m] \o (d \o rest)
                             /\ d = <<>> \/ (\E x \in Reports : x.can = FALSE /\ d = <<x>>)
                       /\ session' = session /\ session[m] = starts /\ stale' = FALSE /\ homing' = homing
                       /\ can_trigger'[m] = FALSE /\ report'[m] = FALSE /\ read_time'[m] = Never
                       /\ report_at'[m] = Never /\ expire_at'[m] = Never
                       /\ OthersSame(m)
  <2> USE <1>TriggerWire
  <2>1. Types /\ stale = FALSE  BY Zenon DEF SessionInv
  <2>2. Receives(m, op) /\ Taken(m)  BY Zenon DEF TrsyncTrigger
  <2>3. op # "start"  OBVIOUS
  <2>4. /\ to_mcu[m][1].op = op /\ Arg(m) = to_mcu[m][1].arg /\ Of(m) = starts
        /\ to_mcu[m][1] \in Commands /\ ~Off(m) /\ session[m] = starts
    BY <2>2, <2>3, TakenFacts, Zenon
  <2>5. Arg(m) \in Reason
    <3>1. \A c \in Commands : c.op \in {"trigger", "query"} => c.arg \in Reason
      BY DEF Commands, Reason, NoReason, COMMS_TIMEOUT, HOST_REQUEST, PAST_END_TIME
    <3>2. QED  BY <2>4, <3>1, Zenon
  <2> DEFINE reason == IF can_trigger[m] THEN Arg(m) ELSE trigger_reason[m]
             msg == State(m, FALSE, reason, 0)
  <2>6. reason \in Reason  BY <2>1, <2>5, Zenon DEF Types, McuTypes
  <2> HIDE DEF reason
  <2>7. msg \in MessageType /\ msg \in Reports /\ msg.can = FALSE
    <3>1. msg \in MessageType /\ msg \in Reports  BY <2>1, <2>4, <2>6, StateMessage, ZenonT(30)
    <3>2. msg.can = FALSE  BY DEF State
    <3>3. QED  BY <3>1, <3>2, Zenon
  <2>8. Sendf(m, msg, rest)  BY Zenon DEF TrsyncTrigger, reason
  <2> HIDE DEF msg
  <2>9. msg \in D  BY <2>7, Zenon
  <2>10. /\ to_host' \in [Mcus -> Seq(MessageType)] /\ cut' = cut
         /\ Extended(to_host[m], to_host'[m], D)
         /\ \A x \in Mcus : x # m => to_host'[x] = to_host[x]
         /\ m \notin cut => \E d \in Seq(MessageType) :
               /\ to_host'[m] = to_host[m] \o (d \o rest)
               /\ d = <<>> \/ d = <<msg>>
    BY <2>1, <2>7, <2>8, <2>9, SendfFacts, Zenon DEF Types
  <2>11. /\ stale' = (stale \/ (can_trigger[m] /\ Of(m) # session[m]))
         /\ homing' = homing /\ mcu_shutdown' = mcu_shutdown /\ session' = session
         /\ read_time' = read_time /\ read_time[m] = Never
         /\ can_trigger' = [can_trigger EXCEPT ![m] = FALSE]
         /\ report_at' = [report_at EXCEPT ![m] = Never]
         /\ expire_at' = [expire_at EXCEPT ![m] = Never]
         /\ report' = [report EXCEPT ![m] = FALSE]
    BY Zenon DEF TrsyncTrigger, DoTrigger, Receives
  <2>12. stale' = FALSE  BY <2>1, <2>4, <2>11, Zenon
  <2>13. OthersSame(m)  BY <2>1, <2>10, <2>11, Zenon DEF OthersSame, Types, McuTypes
  <2>14. /\ can_trigger'[m] = FALSE /\ report'[m] = FALSE /\ read_time'[m] = Never
         /\ report_at'[m] = Never /\ expire_at'[m] = Never
    BY <2>1, <2>11, Zenon DEF Types, McuTypes
  <2>15. m \notin cut  BY <2>4, Zenon DEF Off
  <2>16. QED  BY <2>4, <2>7, <2>10, <2>11, <2>12, <2>13, <2>14, <2>15, ZenonT(30)
<1>TriggerKeeps. ASSUME SessionInv, NEW m \in Mcus, TrsyncTrigger(m, "trigger", <<>>)
                 PROVE  Types' /\ (\A x \in Mcus : TalkAt(x)') /\ stale' = FALSE
  <2> USE <1>TriggerKeeps
  <2>1. McuTypes'  BY <1>McuStepTypes, Zenon
  <2>2. /\ <<>> \in Seq(MessageType) /\ \A i \in 1..Len(<<>>) : <<>>[i] \in Reports
        /\ "trigger" # "query"
    OBVIOUS
  <2>3. Receives(m, "trigger") /\ Taken(m)  BY Zenon DEF TrsyncTrigger
  <2>4. /\ to_host' \in [Mcus -> Seq(MessageType)] /\ cut' = cut /\ mcu_shutdown' = mcu_shutdown
        /\ Extended(to_host[m], to_host'[m], Reports)
        /\ session'[m] = starts /\ stale' = FALSE /\ OthersSame(m)
    BY <2>2, <1>TriggerWire, Zenon
  <2>5. QED  BY <2>1, <2>2, <2>3, <2>4, <1>TakeKeeps, Zenon
\* When the query is taken the endstop is no longer sampled.
<1>QueryFindsRest. ASSUME SessionInv, host # "shutdown", NEW m \in Mcus, 1 \in Cmds(m), ~Off(m),
                          to_mcu[m][1].op = "query", m = EndstopMcu
                   PROVE  homing = FALSE
  <2> USE <1>QueryFindsRest
  <2>1. QueryLast(m)  BY Zenon DEF SessionInv, TalkAt
  <2>2. m \in querying /\ \A j \in Cmds(m) : j <= 1  BY <2>1, Zenon DEF QueryLast
  <2>3. \A j \in Cmds(m) : j = 1
    <3>1. \A j \in Cmds(m) : j \in Int /\ 1 <= j  BY DEF Cmds
    <3>2. QED  BY <2>2, <3>1
  <2>4. host = "stopping"  BY <2>2, Zenon DEF SessionInv, HostPlace
  <2>5. "query" # "home"  OBVIOUS
  <2>6. \A i \in Cmds(m) : to_mcu[m][i].op # "home"  BY <2>3, <2>5, Zenon
  <2>7. QED  BY <2>4, <2>6, Zenon DEF SessionInv, EndstopTold, Told, Cmds, Off
<1>LastOne. ASSUME NEW S, NEW c \in Seq(S), NEW d \in Seq(S), NEW x \in S, NEW c2,
                   c2 = c \o (d \o <<x>>), Len(d) \in {0, 1}, Len(d) = 1 => d[1].op # x.op
            PROVE  \A i \in 1..Len(c2) : i \notin 1..Len(c) /\ c2[i].op = x.op =>
                       \A j \in 1..Len(c2) : ~(i < j)
  <2> USE <1>LastOne
  <2>1. <<x>> \in Seq(S) /\ Len(<<x>>) = 1  OBVIOUS
  <2> DEFINE e == d \o <<x>>
  <2>2. e \in Seq(S) /\ Len(e) = Len(d) + 1 /\ \A i \in 1..Len(d) : e[i] = d[i]
    BY <2>1, SeqConcat
  <2> HIDE DEF e
  <2>3. /\ Len(c2) = Len(c) + Len(d) + 1 /\ Len(c) \in Nat
        /\ \A i \in 1..Len(c2) : i \notin 1..Len(c) => c2[i] = e[i - Len(c)]
    <3>1. c2 = c \o e  BY DEF e
    <3>2. QED  BY SMTT(30), <2>2, <3>1, SeqConcat, SeqLen
  <2>4. QED  BY <2>2, <2>3
<1>QueryTakenKeeps. ASSUME SessionInv, NEW m \in Mcus, TrsyncTrigger(m, "query", <<AckMessage>>)
                    PROVE  Types' /\ (\A x \in Mcus : TalkAt(x)') /\ stale' = FALSE
  <2> USE <1>QueryTakenKeeps
  <2>1. Types  BY Zenon DEF SessionInv
  <2>2. McuTypes'  BY <1>McuStepTypes, Zenon
  <2> DEFINE D == Reports \cup {AckMessage}
  <2>3. AckMessage \in MessageType /\ AckMessage.op = "ack"
    <3>1. 0 \in 0..MaxStarts  BY TrSyncConstants
    <3>2. QED  BY <3>1 DEF AckMessage, MessageType, NoReason, COMMS_TIMEOUT
  <2>4. /\ <<AckMessage>> \in Seq(MessageType) /\ Reports \subseteq D
        /\ \A i \in 1..Len(<<AckMessage>>) : <<AckMessage>>[i] \in D
    <3>1. AckMessage \in D /\ Reports \subseteq D  BY Zenon
    <3>2. QED  BY <2>3, <3>1, OneOf, Zenon
  <2> HIDE DEF D
  <2>5. Receives(m, "query") /\ Taken(m)  BY Zenon DEF TrsyncTrigger
  <2>6. /\ to_mcu' \in [Mcus -> Seq(Commands)] /\ Popped(to_mcu[m], to_mcu'[m])
        /\ to_mcu[m][1].op = "query" /\ 1 \in Cmds(m) /\ ~Off(m)
        /\ \A x \in Mcus : x # m => to_mcu'[x] = to_mcu[x]
    BY <2>5, TakenFacts, Zenon
  <2>7. /\ to_host' \in [Mcus -> Seq(MessageType)] /\ cut' = cut /\ mcu_shutdown' = mcu_shutdown
        /\ Extended(to_host[m], to_host'[m], D)
        /\ \E d \in Seq(MessageType) :
              /\ to_host'[m] = to_host[m] \o (d \o <<AckMessage>>)
              /\ d = <<>> \/ (\E x \in Reports : x.can = FALSE /\ d = <<x>>)
        /\ session' = session /\ session[m] = starts /\ stale' = FALSE /\ homing' = homing
        /\ can_trigger'[m] = FALSE /\ report'[m] = FALSE /\ read_time'[m] = Never
        /\ report_at'[m] = Never /\ expire_at'[m] = Never
        /\ OthersSame(m)
    <3>1. "query" \in {"trigger", "query"}  OBVIOUS
    <3>2. QED  BY <2>4, <3>1, <1>TriggerWire, Zenon
  <2>8. UNCHANGED <<now, python, trdispatch>>  BY <2>5, Zenon DEF Receives
  <2>9. HostTypes' /\ WireTypes'
    BY <2>1, <2>6, <2>7, <2>8, HostFrame, Zenon DEF Types, WireTypes, HostTypes
  <2>10. TalkAt(m)'
    <3>1. TalkAt(m) /\ SameHost(m) /\ starts' = starts /\ ~Off(m)' /\ session'[m] = starts
      BY <2>6, <2>7, <2>8, Zenon DEF SessionInv, SameHost, python, Off
    <3>2. host # "shutdown" => Silent(m)'
      BY <2>6, <2>7, <1>QueryFindsRest, Zenon DEF Silent
    <3>3. \A i \in Msgs(m)' : i \notin Msgs(m) /\ to_host'[m][i].op = "ack" =>
              \A j \in Msgs(m)' : ~(i < j)
      <4>1. PICK d \in Seq(MessageType) :
              /\ to_host'[m] = to_host[m] \o (d \o <<AckMessage>>)
              /\ d = <<>> \/ (\E x \in Reports : x.can = FALSE /\ d = <<x>>)
        BY <2>7, Zenon
      <4>2. Len(d) \in {0, 1} /\ (Len(d) = 1 => d[1].op # AckMessage.op)
        <5>1. \A x \in Reports : Len(<<x>>) = 1 /\ <<x>>[1] = x /\ x.op # "ack"  BY DEF Reports
        <5>2. Len(<<>>) = 0 /\ 0 # 1  OBVIOUS
        <5>3. CASE d = <<>>  BY <5>2, <5>3, Zenon
        <5>4. CASE \E x \in Reports : d = <<x>>  BY <2>3, <5>1, <5>4, Zenon
        <5>5. QED  BY <4>1, <5>3, <5>4, Zenon
      <4>3. to_host[m] \in Seq(MessageType)  BY <2>1, Zenon DEF Types, WireTypes
      <4>4. \A i \in 1..Len(to_host'[m]) :
               i \notin 1..Len(to_host[m]) /\ to_host'[m][i].op = AckMessage.op =>
                 \A j \in 1..Len(to_host'[m]) : ~(i < j)
        BY <2>3, <4>1, <4>2, <4>3, <1>LastOne, Zenon
      <4>5. QED  BY <2>3, <4>4, Zenon DEF Msgs
    <3>4. QED  BY <2>6, <2>7, <3>1, <3>2, <3>3, <1>QueryTalk, ZenonT(30) DEF D
  <2>11. ASSUME NEW x \in Mcus, x # m PROVE TalkAt(x)'
    <3>1. TalkAt(x) /\ UNCHANGED python  BY <2>8, Zenon DEF SessionInv
    <3>2. QED  BY <2>6, <2>7, <2>11, <3>1, <1>OthersTalk, Zenon DEF OthersSame
  <2>12. QED  BY <2>2, <2>7, <2>9, <2>10, <2>11, ZenonT(30) DEF Types
<1>1. QED
  BY <1>EventKeeps, <1>QuietKeeps, <1>OffKeeps, <1>TaskReportKeeps, <1>CutLinkKeeps, <1>TickKeeps,
     <1>TriggerKeeps, <1>QueryTakenKeeps, ZenonT(30)

-----------------------------------------------------------------------------
(* The invariants *)

LEMMA SessionInit == Init => SessionInv
<1> SUFFICES ASSUME Init PROVE SessionInv  OBVIOUS
<1>1. \A m \in Mcus : to_mcu[m] = <<>> /\ to_host[m] = <<>>  BY Zenon DEF Init
<1>2. \A m \in Mcus : (\A i \in Cmds(m) : FALSE) /\ (\A i \in Msgs(m) : FALSE)
  BY <1>1 DEF Cmds, Msgs
<1>3. Types
  <2>1. 0 \in Session /\ 0 \in Nat /\ 0 \in Reason
    BY TrSyncConstants DEF Session, Reason, NoReason, COMMS_TIMEOUT
  <2>2. HostTypes
    <3>1. "idle" \in {"idle", "starting", "homing", "stopping", "shutdown"}  OBVIOUS
    <3>2. QED  BY <2>1, <3>1, Zenon DEF Init, HostTypes, Times
  <2>3. WireTypes
    <3>1. <<>> \in Seq(Commands) /\ <<>> \in Seq(MessageType)  BY SeqEmpty, Zenon
    <3>2. QED  BY <3>1, Zenon DEF Init, WireTypes
  <2>4. McuTypes
    <3>1. NoReason \in Reason  BY <2>1, Zenon DEF NoReason
    <3>2. QED  BY <2>1, <3>1, Zenon DEF Init, McuTypes, Times
  <2>5. QED  BY <2>2, <2>3, <2>4, Zenon DEF Types
<1>4. HostPlace
  <2>1. \A m \in Mcus : session[m] <= starts
    <3>1. 0 <= 0  OBVIOUS
    <3>2. QED  BY <3>1, Zenon DEF Init
  <2>2. QED  BY <2>1, Zenon DEF Init, HostPlace
<1>5. EndstopTold
  <2>1. "idle" # "stopping"  OBVIOUS
  <2>2. QED  BY <2>1, Zenon DEF Init, EndstopTold
<1>6. ASSUME NEW m \in Mcus PROVE TalkAt(m)
  <2>1. Silent(m) /\ session[m] = starts  BY Zenon DEF Init, Silent
  <2>2. OfNow(m) /\ NoCommand(m) /\ QueryLast(m) /\ Drained(m)
    BY <1>2, <2>1, Zenon DEF OfNow, NoCommand, QueryLast, Drained
  <2>3. QED  BY <2>1, <2>2, Zenon DEF TalkAt
<1>7. stale = FALSE  BY Zenon DEF Init
<1>8. QED  BY <1>3, <1>4, <1>5, <1>6, <1>7, Zenon DEF SessionInv

LEMMA SessionStutter ==
    ASSUME SessionInv, UNCHANGED vars
    PROVE  SessionInv'
<1>1. /\ UNCHANGED <<now, python, trdispatch, to_mcu, to_host, faults, trsync, read_time, stale>>
      /\ now' = now
  BY Zenon DEF vars
<1>2. Types /\ HostPlace /\ EndstopTold /\ (\A x \in Mcus : TalkAt(x)) /\ stale = FALSE
  BY Zenon DEF SessionInv
<1>3. Types'
  <2>1. HostTypes' /\ McuTypes'
    BY <1>1, <1>2, HostFrame, McuFrame, Zenon DEF Types, HostTypes
  <2>2. WireTypes'  BY <1>1, <1>2, Zenon DEF Types, WireTypes, faults
  <2>3. QED  BY <2>1, <2>2, Zenon DEF Types
<1>4. HostPlace' /\ EndstopTold'
  <2>1. session' = session /\ cut' = cut /\ mcu_shutdown' = mcu_shutdown /\ homing' = homing /\ host' = host
    BY <1>1, Zenon DEF trsync, faults, python
  <2>2. QED  BY <1>1, <1>2, <2>1, PlaceFrame, ToldFrame, Zenon
<1>5. ASSUME NEW x \in Mcus PROVE TalkAt(x)'
  <2>1. SamePlace(x) /\ host' = host /\ querying' = querying /\ result' = result
    BY <1>1, Zenon DEF SamePlace, python, faults, trsync
  <2>2. Silent(x) => Silent(x)'  BY <1>1, Zenon DEF Silent, trsync
  <2>3. to_mcu'[x] = to_mcu[x] /\ Shrunk(to_host[x], to_host'[x])
    BY <1>1, ShrunkSame, Zenon
  <2>4. QED  BY <1>2, <2>1, <2>2, <2>3, KeepsTalk, Zenon
<1>6. QED  BY <1>1, <1>2, <1>3, <1>4, <1>5, Zenon DEF SessionInv

LEMMA SessionNext ==
    ASSUME SessionInv, Next
    PROVE  SessionInv'
<1>1. EndstopMcu \in Mcus  BY TrSyncConstants, Zenon
<1>2. CASE \/ HomeStart \/ HomeActivate \/ HomeStop \/ HomeDone \/ HostLostMcu
           \/ \E m \in Mcus : Query(m) \/ HostAck(m) \/ HostState(m) \/ HostShutdown(m)
  <2>1. HostPlace' /\ EndstopTold'  BY <1>2, HostStepPlace, HostStepTold, Zenon
  <2>2. Types' /\ (\A x \in Mcus : TalkAt(x)') /\ stale' = FALSE  BY <1>2, HostKeeps, Zenon
  <2>3. QED  BY <2>1, <2>2, Zenon DEF SessionInv
<1>3. ASSUME NEW m \in Mcus,
             \/ ExpireEvent(m) \/ ReportEvent(m) \/ TaskReadTime(m) \/ TaskReport(m)
             \/ TrsyncStart(m) \/ StopOnTrigger(m) \/ SetTimeout(m)
             \/ TrsyncTrigger(m, "trigger", <<>>) \/ TrsyncTrigger(m, "query", <<AckMessage>>)
             \/ EmergencyStop(m) \/ OtherShutdown(m) \/ CutLink(m)
             \/ (m = EndstopMcu /\ EndstopHome) \/ (m = EndstopMcu /\ EndstopHit) \/ Tick
      PROVE  SessionInv'
  <2>1. HostPlace' /\ EndstopTold'  BY <1>3, McuStepPlace, McuStepTold, Zenon
  <2>2. Types' /\ (\A x \in Mcus : TalkAt(x)') /\ stale' = FALSE  BY <1>3, McuKeeps, Zenon
  <2>3. QED  BY <2>1, <2>2, Zenon DEF SessionInv
<1>4. QED  BY <1>1, <1>2, <1>3, Zenon DEF Next

LEMMA StopInit == Init => StopInv
<1> SUFFICES ASSUME Init PROVE StopInv  OBVIOUS
<1>1. SessionInv  BY SessionInit, Zenon
<1>2. Types  BY <1>1, Zenon DEF SessionInv
<1>3. \A m \in Mcus : to_mcu[m] = <<>> /\ to_host[m] = <<>>  BY Zenon DEF Init
<1>4. \A m \in Mcus : (\A i \in Cmds(m) : FALSE) /\ (\A i \in Msgs(m) : FALSE)
  BY <1>3 DEF Cmds, Msgs
<1>5. \A m \in Mcus : /\ can_trigger[m] = FALSE /\ signal[m] = FALSE /\ expire_at[m] = Never
                      /\ read_time[m] = Never /\ triggered_at[m] = Never /\ last_status[m] = 0
  BY Zenon DEF Init
<1>6. ASSUME NEW m \in Mcus PROVE ArmedAt(m) /\ ClockAt(m) /\ TimersAt(m)
  <2>1. ArmedAt(m)  BY <1>4, <1>5, Zenon DEF ArmedAt, StartFirst, NoStart
  <2>2. 0 <= Limit(m)
    <3>1. Limit(m) \in Nat  BY <1>2, LimitType, Zenon
    <3>2. QED  BY <3>1
  <2>3. ClockAt(m)  BY <1>4, <1>5, <2>2, Zenon DEF ClockAt
  <2>4. FALSE # TRUE  OBVIOUS
  <2>5. TimersAt(m)  BY <1>5, <2>4, Zenon DEF TimersAt
  <2>6. QED  BY <2>1, <2>3, <2>5, Zenon
<1>7. \A a, b \in Mcus : BoundAt(a, b)  BY <1>4, <1>5, Zenon DEF BoundAt
<1>8. QED  BY <1>1, <1>6, <1>7, Zenon DEF StopInv

LEMMA StopStutter ==
    ASSUME StopInv, UNCHANGED vars
    PROVE  StopInv'
<1>1. SessionInv /\ AllStop  BY Zenon DEF StopInv, AllStop
<1>2. SessionInv'  BY <1>1, SessionStutter, Zenon
<1>3. UNCHANGED <<now, python, trdispatch, to_mcu, to_host, trsync, read_time>>  BY Zenon DEF vars
<1>4. /\ now' = now /\ starts' = starts /\ start_clock' = start_clock /\ last_status' = last_status
      /\ to_mcu' = to_mcu /\ to_host' = to_host /\ homing' = homing /\ read_time' = read_time
      /\ can_trigger' = can_trigger /\ expire_at' = expire_at /\ signal' = signal
      /\ session' = session /\ triggered_at' = triggered_at
  BY <1>3, Zenon DEF python, trdispatch, trsync
<1>5. \A x \in Mcus : Limit(x)' = Limit(x)  BY <1>4, Zenon DEF Limit
<1>6. ASSUME NEW x \in Mcus PROVE ArmedAt(x)' /\ ClockAt(x)' /\ TimersAt(x)'
  <2>1. ArmedAt(x) /\ ClockAt(x) /\ TimersAt(x)  BY <1>1, Zenon DEF AllStop
  <2>2. ArmedAt(x)'  BY <1>4, <2>1, Zenon DEF ArmedAt, StartFirst, NoStart, Registers, Cmds
  <2>3. ClockAt(x)'  BY <1>4, <1>5, <2>1, Zenon DEF ClockAt, Msgs
  <2>4. TimersAt(x)'  BY <1>4, <2>1, Zenon DEF TimersAt
  <2>5. QED  BY <2>2, <2>3, <2>4, Zenon
<1>7. ASSUME NEW a \in Mcus, NEW b \in Mcus PROVE BoundAt(a, b)'
  BY <1>1, <1>4, <1>5, Zenon DEF AllStop, BoundAt, Cmds
<1>8. QED  BY <1>2, <1>6, <1>7, Zenon DEF StopInv

LEMMA StopNext ==
    ASSUME StopInv, Next
    PROVE  StopInv'
<1>1. SessionInv  BY Zenon DEF StopInv
<1>2. SessionInv'  BY <1>1, SessionNext, Zenon
<1>3. Types'  BY <1>2, Zenon DEF SessionInv
<1>4. AllStop'  BY <1>3, HostStops, McuStops, Zenon DEF Next
<1>5. QED  BY <1>2, <1>4, Zenon DEF StopInv, AllStop

\* The conversation with every micro-controller stays in its homing operation.
THEOREM SessionInvariant == Spec => []SessionInv
<1>1. Init => SessionInv  BY SessionInit
<1>2. SessionInv /\ [Next]_vars => SessionInv'  BY SessionNext, SessionStutter, Zenon
<1>3. QED  BY <1>1, <1>2, PTL DEF Spec

\* No message of one homing operation is used in the next one: neither do the
\* trsyncs act on a late command of TriggerDispatch or of trdispatch.c, nor does
\* the host take a late trsync_state for an answer.
THEOREM NoStaleMessageAlways == Spec => []NoStaleMessage
<1>1. SessionInv => NoStaleMessage  BY Zenon DEF SessionInv, NoStaleMessage
<1>2. QED  BY <1>1, SessionInvariant, PTL

\* Once one micro-controller has triggered or shut down, a stepper of another one
\* whose timeout is armed stops at most Expire later, for every number of
\* micro-controllers and whatever trdispatch.c, the links and the host do.
THEOREM StopBoundAlways == Spec => []StopBound
<1>1. Init => StopInv  BY StopInit
<1>2. StopInv /\ [Next]_vars => StopInv'  BY StopNext, StopStutter, Zenon
<1>3. StopInv => StopBound  BY StopInvBound
<1>4. QED  BY <1>1, <1>2, <1>3, PTL DEF Spec
=============================================================================
