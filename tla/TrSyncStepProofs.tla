-------------------------- MODULE TrSyncStepProofs --------------------------
(***************************************************************************)
(* What the steps of TrSync keep, as long as the messages on the links     *)
(* belong to the homing operation (SessionInv): how far the steppers can   *)
(* still move (AllStop, from which StopBound follows), where the operation *)
(* is (HostPlace) and what the endstop is told (EndstopTold).  TrSyncProofs*)
(* shows that SessionInv holds.                                            *)
(***************************************************************************)
EXTENDS TrSync, WellFoundedInduction, TLAPS

Session == 0..MaxStarts
Reason == NoReason..COMMS_TIMEOUT
\* The commands the host sends, with the arguments they have
Commands ==
    [op : {"start", "timeout"}, arg : Nat, of : Session]
        \cup [op : {"trigger", "query"}, arg : {HOST_REQUEST, PAST_END_TIME}, of : Session]
        \cup [op : {"home"}, arg : Times, of : Session]
        \cup [op : {"stop_on", "estop"}, arg : {0}, of : Session]
HostTypes ==
    /\ now \in Nat /\ starts \in Session /\ start_clock \in Nat /\ home_end \in Times
    /\ host \in {"idle", "starting", "homing", "stopping", "shutdown"}
    /\ completed \in BOOLEAN /\ is_active \in BOOLEAN /\ td_can_trigger \in BOOLEAN
    /\ querying \subseteq Mcus /\ last_params \in Reason \cup {Never}
    /\ result \in [Mcus -> Reason \cup {Never}]
    /\ last_status \in [Mcus -> Nat] /\ expire_clock \in [Mcus -> Nat]
WireTypes ==
    /\ to_mcu \in [Mcus -> Seq(Commands)] /\ to_host \in [Mcus -> Seq(MessageType)]
    /\ cut \subseteq Mcus
McuTypes ==
    /\ can_trigger \in [Mcus -> BOOLEAN] /\ report \in [Mcus -> BOOLEAN]
    /\ signal \in [Mcus -> BOOLEAN] /\ homing \in BOOLEAN
    /\ trigger_reason \in [Mcus -> Reason] /\ mcu_shutdown \subseteq Mcus
    /\ report_at \in [Mcus -> Times] /\ expire_at \in [Mcus -> Times]
    /\ read_time \in [Mcus -> Times] /\ triggered_at \in [Mcus -> Times]
    /\ session \in [Mcus -> Session]
Types == HostTypes /\ WireTypes /\ McuTypes
\* A trsync that does nothing until it is started: it has triggered or shut
\* down, has no timers and nothing to report, and its endstop is not sampled.
Silent(m) ==
    /\ can_trigger[m] = FALSE /\ report[m] = FALSE /\ read_time[m] = Never
    /\ report_at[m] = Never /\ expire_at[m] = Never
    /\ m = EndstopMcu => homing = FALSE
Off(m) == m \in cut \/ m \in mcu_shutdown
\* The places of the commands and of the messages on the links of m
Cmds(m) == 1..Len(to_mcu[m])
Msgs(m) == 1..Len(to_host[m])
NoCommand(m) == \A i \in Cmds(m) : FALSE
\* What is on its way belongs to this homing operation.
OfNow(m) ==
    /\ \A i \in Cmds(m) : to_mcu[m][i].of = starts
    /\ \A i \in Msgs(m) : to_host[m][i].op = "state" => to_host[m][i].of = starts
\* A trsync not yet started in it is silent, and its start is the next command.
Unstarted(m) == Silent(m) /\ (Off(m) \/ (1 \in Cmds(m) /\ to_mcu[m][1].op = "start"))
\* A query is the last command, and when it is acknowledged nothing but a
\* shutdown can follow.
QueryLast(m) ==
    /\ \A i \in Cmds(m) : to_mcu[m][i].op = "query" =>
          /\ m \in querying
          /\ \A j \in Cmds(m) : j <= i
          /\ \A j \in Msgs(m) : to_host[m][j].op # "ack"
    /\ \A i \in Msgs(m) : to_host[m][i].op = "ack" =>
          /\ m \in querying /\ Silent(m) /\ NoCommand(m)
          /\ \A j \in Msgs(m) : i < j => to_host[m][j].op = "shutdown"
\* Nothing of the operation is left.
Drained(m) ==
    /\ Silent(m) /\ NoCommand(m)
    /\ \A i \in Msgs(m) : to_host[m][i].op = "shutdown"
\* The conversation with one micro-controller
TalkAt(m) ==
    /\ OfNow(m)
    /\ Off(m) => NoCommand(m)
    /\ session[m] # starts => Unstarted(m)
    /\ host # "shutdown" =>
          /\ QueryLast(m)
          /\ host = "idle" \/ result[m] # Never => Drained(m)
\* Where the homing operation is
HostPlace ==
    /\ is_active => host = "homing"
    /\ querying # {} => host = "stopping"
    /\ \A a, b \in querying : a = b
    /\ \A m \in Mcus : result[m] # Never => host \in {"stopping", "idle"}
    /\ \A m \in Mcus : session[m] <= starts
\* The endstop is told to stop before its trsync is asked for the result: the
\* last home command on the way, if there is one, ends the sampling.
Told(cmds, sampled) ==
    /\ (\A i \in 1..Len(cmds) : cmds[i].op # "home") => sampled = FALSE
    /\ \A i \in 1..Len(cmds) :
          /\ cmds[i].op = "home"
          /\ \A j \in 1..Len(cmds) : i < j => cmds[j].op # "home"
          => cmds[i].arg = Never
EndstopTold ==
    /\ EndstopMcu \in mcu_shutdown => homing = FALSE
    /\ host = "stopping" /\ EndstopMcu \notin cut => Told(to_mcu[EndstopMcu], homing)
SessionInv ==
    /\ Types /\ HostPlace /\ EndstopTold
    /\ \A m \in Mcus : TalkAt(m)
    /\ stale = FALSE

-----------------------------------------------------------------------------
(* Sequences *)

\* c2 is c without its first element.
Popped(c, c2) ==
    /\ Len(c) \in Nat /\ Len(c2) \in Nat /\ 1 \in 1..Len(c)
    /\ \A i \in 1..Len(c2) : i + 1 \in 1..Len(c) /\ c2[i] = c[i + 1]
    /\ \A i \in 1..Len(c) : i # 1 => i - 1 \in 1..Len(c2) /\ c2[i - 1] = c[i]

\* c2 is c and then elements of D.
Extended(c, c2, D) ==
    /\ Len(c) \in Nat /\ Len(c2) \in Nat
    /\ \A i \in 1..Len(c) : i \in 1..Len(c2) /\ c2[i] = c[i]
    /\ \A i \in 1..Len(c2) : i \in 1..Len(c) \/ (c2[i] \in D /\ \A j \in 1..Len(c) : j < i)

\* The elements of c2 are elements of c, in their order.
Shrunk(c, c2) ==
    \A i \in 1..Len(c2) : \E j \in 1..Len(c) :
        /\ c2[i] = c[j]
        /\ \A k \in 1..Len(c2) : i < k => \E l \in 1..Len(c) : j < l /\ c2[k] = c[l]

LEMMA PoppedTail ==
    ASSUME NEW S, NEW c \in Seq(S), c # <<>>
    PROVE  Popped(c, Tail(c)) /\ Tail(c) \in Seq(S) /\ Head(c) = c[1] /\ c[1] \in S
<1>1. Len(c) \in Nat \ {0}  OBVIOUS
<1>2. QED  BY <1>1 DEF Popped

\* The length and the elements of sequences
LEMMA SeqLen ==
    ASSUME NEW S, NEW c \in Seq(S)
    PROVE  Len(c) \in Nat
OBVIOUS

LEMMA SeqEmpty ==
    ASSUME NEW S
    PROVE  <<>> \in Seq(S) /\ \A d \in Seq(S) : <<>> \o d = d
OBVIOUS

LEMMA SeqConcat ==
    ASSUME NEW S, NEW c \in Seq(S), NEW d \in Seq(S)
    PROVE  /\ c \o d \in Seq(S) /\ Len(c \o d) = Len(c) + Len(d)
           /\ \A i \in 1 .. Len(c) + Len(d) :
                 (c \o d)[i] = IF i <= Len(c) THEN c[i] ELSE d[i - Len(c)]
OBVIOUS

LEMMA ExtendedConcat ==
    ASSUME NEW S, NEW c \in Seq(S), NEW d \in Seq(S), NEW D,
           \A i \in 1..Len(d) : d[i] \in D
    PROVE  Extended(c, c \o d, D) /\ c \o d \in Seq(S)
<1>1. Len(c) \in Nat /\ Len(d) \in Nat  BY SeqLen, Zenon
<1>2. QED  BY <1>1, SeqConcat DEF Extended

LEMMA ShrunkSame == ASSUME NEW c PROVE Shrunk(c, c)
BY Zenon DEF Shrunk

LEMMA ShrunkPopped == ASSUME NEW c, NEW c2, Popped(c, c2) PROVE Shrunk(c, c2)
BY DEF Shrunk, Popped

-----------------------------------------------------------------------------
(* What is sent *)

Orders == {c \in Commands : c.of = starts /\ c.op # "query"}

Queries == {c \in Commands : c.of = starts /\ c.op = "query"}

Reports == {x \in MessageType : x.of = starts /\ x.op = "state"}

\* What SendMcu leaves on the link
LEMMA SendMcuFacts ==
    ASSUME WireTypes, NEW m \in Mcus, NEW d \in Seq(Commands), NEW D,
           \A i \in 1..Len(d) : d[i] \in D
    PROVE  /\ SendMcu(m, d) \in Seq(Commands)
           /\ Off(m) => SendMcu(m, d) = to_mcu[m]
           /\ ~Off(m) => SendMcu(m, d) = to_mcu[m] \o d /\ Extended(to_mcu[m], SendMcu(m, d), D)
<1>1. to_mcu[m] \in Seq(Commands)  BY Zenon DEF WireTypes
<1>2. to_mcu[m] \o d \in Seq(Commands) /\ Extended(to_mcu[m], to_mcu[m] \o d, D)
  BY <1>1, ExtendedConcat, Zenon
<1>3. m \in cut \cup mcu_shutdown <=> Off(m)  BY Zenon DEF Off
<1>4. QED  BY <1>1, <1>2, <1>3, Zenon DEF SendMcu

LEMMA OneElement ==
    ASSUME NEW S, NEW x \in S
    PROVE  <<x>> \in Seq(S) /\ Len(<<x>>) = 1 /\ \A i \in 1..Len(<<x>>) : i = 1 /\ <<x>>[i] = x
OBVIOUS

LEMMA OneOf ==
    ASSUME NEW S, NEW x \in S, NEW D, x \in D
    PROVE  <<x>> \in Seq(S) /\ \A i \in 1..Len(<<x>>) : <<x>>[i] \in D
OBVIOUS

\* The commands are what Commands says.
LEMMA CommandFacts ==
    ASSUME NEW s \in Session
    PROVE  /\ \A n \in Nat : Command("start", n, s) \in Commands /\ Command("timeout", n, s) \in Commands
           /\ \A r \in {HOST_REQUEST, PAST_END_TIME} :
                 Command("trigger", r, s) \in Commands /\ Command("query", r, s) \in Commands
           /\ \A t \in Times : Command("home", t, s) \in Commands
           /\ Command("stop_on", 0, s) \in Commands /\ Command("estop", 0, s) \in Commands
           /\ \A op, arg : Command(op, arg, s).op = op /\ Command(op, arg, s).arg = arg
                           /\ Command(op, arg, s).of = s
BY DEF Command, Commands

LEMMA TrSyncConstants ==
    /\ Expire \in Nat /\ ReportTicks \in Nat /\ Lead \in Nat /\ HomeTime \in Nat /\ MaxStarts \in Nat
    /\ MinExtend \in Nat /\ 0 < ReportTicks /\ Never \notin Nat /\ EndstopMcu \in Mcus
    /\ \A m \in Mcus : Offset[m] \in Nat
BY TrSyncAssumption

\* One command, sent to m
LEMMA SendOne ==
    ASSUME WireTypes, NEW m \in Mcus, NEW c \in Commands, NEW D, c \in D
    PROVE  /\ SendMcu(m, <<c>>) \in Seq(Commands)
           /\ \/ SendMcu(m, <<c>>) = to_mcu[m] /\ Off(m)
              \/ /\ ~Off(m) /\ Extended(to_mcu[m], SendMcu(m, <<c>>), D)
                 /\ Len(SendMcu(m, <<c>>)) = Len(to_mcu[m]) + 1
                 /\ SendMcu(m, <<c>>)[Len(to_mcu[m]) + 1] = c
<1>1. <<c>> \in Seq(Commands) /\ Len(<<c>>) = 1 /\ \A i \in 1..Len(<<c>>) : i = 1 /\ <<c>>[i] = c
  BY OneElement, Zenon
<1>2. \A i \in 1..Len(<<c>>) : <<c>>[i] \in D  BY <1>1, Zenon
<1>3. CASE Off(m)  BY <1>1, <1>2, <1>3, SendMcuFacts, Zenon
<1>4. CASE ~Off(m)
  <2>1. SendMcu(m, <<c>>) = to_mcu[m] \o <<c>> /\ Extended(to_mcu[m], SendMcu(m, <<c>>), D)
        /\ SendMcu(m, <<c>>) \in Seq(Commands)
    BY <1>1, <1>2, <1>4, SendMcuFacts, Zenon
  <2>2. to_mcu[m] \in Seq(Commands)  BY Zenon DEF WireTypes
  <2>3. Len(to_mcu[m] \o <<c>>) = Len(to_mcu[m]) + 1 /\ (to_mcu[m] \o <<c>>)[Len(to_mcu[m]) + 1] = c
    BY <2>2
  <2>4. QED  BY <1>4, <2>1, <2>3, Zenon
<1>5. QED  BY <1>3, <1>4, Zenon

LEMMA NothingSent ==
    ASSUME WireTypes, NEW m \in Mcus, NoCommand(m)
    PROVE  to_mcu[m] = <<>>
<1>1. to_mcu[m] \in Seq(Commands)  BY Zenon DEF WireTypes
<1>2. to_mcu[m] # <<>> => 1 \in Cmds(m)  BY <1>1, PoppedTail, Zenon DEF Popped, Cmds
<1>3. QED  BY <1>2, Zenon DEF NoCommand

LEMMA StartCommandsFacts ==
    ASSUME NEW m \in Mcus, NEW clock \in Nat, NEW s \in Session
    PROVE  LET d == StartCommands(m, clock, s)
           IN  /\ d \in Seq(Commands) /\ Len(d) = 3
               /\ d[1] = Command("start", clock + Offset[m], s)
               /\ d[2] = Command("stop_on", 0, s)
               /\ d[3] = Command("timeout", clock + Expire, s)
<1>1. clock + Offset[m] \in Nat /\ clock + Expire \in Nat
  <2>1. Offset[m] \in Nat /\ Expire \in Nat  BY TrSyncConstants, Zenon
  <2>2. QED  BY <2>1
<1>2. /\ Command("start", clock + Offset[m], s) \in Commands /\ Command("stop_on", 0, s) \in Commands
      /\ Command("timeout", clock + Expire, s) \in Commands
  BY <1>1, CommandFacts, Zenon
<1>3. QED  BY <1>2 DEF StartCommands

\* What HomeStart sends to a micro-controller with nothing on its way
LEMMA HomeStartWire ==
    ASSUME SessionInv, HomeStart, NEW x \in Mcus
    PROVE  /\ Drained(x) /\ starts + 1 \in Session /\ starts' = starts + 1
           /\ now + Lead \in Nat
           /\ to_mcu'[x] \in Seq(Commands)
           /\ Off(x) => to_mcu'[x] = to_mcu[x]
           /\ ~Off(x) => to_mcu'[x] = StartCommands(x, now + Lead, starts + 1)
<1>1. Types /\ TalkAt(x)  BY Zenon DEF SessionInv
<1>2. Drained(x)
  <2>1. host = "idle"  BY Zenon DEF HomeStart
  <2>2. "idle" # "shutdown"  OBVIOUS
  <2>3. QED  BY <1>1, <2>1, <2>2, Zenon DEF TalkAt
<1>3. starts + 1 \in Session /\ now + Lead \in Nat /\ starts' = starts + 1
  BY <1>1, TrSyncConstants DEF HomeStart, Types, HostTypes, Session
<1>4. StartCommands(x, now + Lead, starts + 1) \in Seq(Commands)
  BY <1>3, StartCommandsFacts, Zenon
<1>5. to_mcu'[x] = SendMcu(x, StartCommands(x, now + Lead, starts + 1))  BY Zenon DEF HomeStart
<1>6. to_mcu[x] = <<>>  BY <1>1, <1>2, NothingSent, Zenon DEF Types, Drained
<1>7. <<>> \o StartCommands(x, now + Lead, starts + 1) = StartCommands(x, now + Lead, starts + 1)
  BY <1>4, SeqEmpty, Zenon
<1>8. x \in cut \cup mcu_shutdown <=> Off(x)  BY Zenon DEF Off
<1>9. /\ Off(x) => to_mcu'[x] = to_mcu[x]
      /\ ~Off(x) => to_mcu'[x] = StartCommands(x, now + Lead, starts + 1)
  BY <1>5, <1>6, <1>7, <1>8, Zenon DEF SendMcu
<1>10. to_mcu'[x] \in Seq(Commands)  BY <1>1, <1>4, <1>9, Zenon DEF Types, WireTypes
<1>11. QED  BY <1>2, <1>3, <1>9, <1>10, Zenon

-----------------------------------------------------------------------------
(* What the fast reader sends *)

LEMMA ExceptType ==
    ASSUME NEW S, NEW T, NEW f \in [S -> T], NEW m \in S, NEW v \in T
    PROVE  [f EXCEPT ![m] = v] \in [S -> T]
BY Zenon

\* A set of natural numbers has a least element, and Min is one.
LEMMA MinFacts ==
    ASSUME NEW S \in SUBSET Nat, S # {}
    PROVE  Min(S) \in S /\ \A j \in S : Min(S) <= j
<1> DEFINE R == OpToRel(<, Nat)
<1>1. R = {ss \in Nat \X Nat : ss[1] < ss[2]}  BY DEF OpToRel
<1>2. IsWellFoundedOn(R, Nat)  BY NatLessThanWellFounded, Zenon
<1> HIDE DEF R
<1>3. PICK i \in S : \A j \in S : ~(<<j, i>> \in R)  BY <1>2, WFMin, Zenon
<1>4. \A j \in S : i <= j
  <2> SUFFICES ASSUME NEW j \in S, ~(i <= j) PROVE FALSE  BY Zenon
  <2>1. j \in Nat /\ i \in Nat /\ j < i  OBVIOUS
  <2>2. <<j, i>> \in R  BY <1>1, <2>1
  <2>3. QED  BY <1>3, <2>2, Zenon
<1>5. QED  BY <1>4, Zenon DEF Min

\* Every other micro-controller is known to work up to KnownTime.
LEMMA KnownTimeFacts ==
    ASSUME NEW status \in [Mcus -> Nat], NEW k \in Mcus
    PROVE  /\ KnownTime(status, k) \in Nat
           /\ \A a \in Mcus : a # k => KnownTime(status, k) <= status[a]
<1>1. CASE Mcus = {k}  BY <1>1, Zenon DEF KnownTime
<1>2. CASE Mcus # {k}
  <2> DEFINE S == {status[j] : j \in Mcus \ {k}}
  <2>1. S \in SUBSET Nat /\ S # {}  BY <1>2, Zenon
  <2>2. Min(S) \in S /\ \A j \in S : Min(S) <= j
    <3> HIDE DEF S
    <3>1. QED  BY <2>1, MinFacts, Zenon
  <2>3. KnownTime(status, k) = Min(S)  BY <1>2, Zenon DEF KnownTime
  <2>4. QED  BY <2>1, <2>2, <2>3, Zenon
<1>3. QED  BY <1>1, <1>2, Zenon

\* A command that the relay sends to k, when the times of the others are status
Relayed(k, status) ==
    {c \in Orders : /\ c.op \in {"trigger", "timeout"}
                    /\ c.op = "timeout" => \A a \in Mcus : a # k => c.arg <= status[a] + Expire}

RelayTyped(fr, status) ==
    /\ fr.can \in BOOLEAN /\ fr.expire \in [Mcus -> Nat]
    /\ fr.status = last_status \/ fr.status = NoStatus \/ fr.status = status
    /\ \A k \in Mcus : /\ fr.cmds[k] \in Seq(Commands)
                       /\ \A i \in 1..Len(fr.cmds[k]) : fr.cmds[k][i] \in Relayed(k, status)
                       /\ ~is_active => fr.cmds[k] = <<>>

LEMMA FastReaderFacts ==
    ASSUME HostTypes, NEW m \in Mcus, NEW msg \in MessageType, NEW status,
           status = [last_status EXCEPT ![m] = msg.clock]
    PROVE  RelayTyped(FastReader(m, msg), status)
<1> DEFINE known == [k \in Mcus |-> KnownTime(status, k) + Expire]
           extend == {k \in Mcus : known[k] - expire_clock[k] >= MinExtend}
           fr == FastReader(m, msg)
           Good(cmds) ==
             \A k \in Mcus : /\ cmds[k] \in Seq(Commands)
                             /\ \A i \in 1..Len(cmds[k]) : cmds[k][i] \in Relayed(k, status)
<1>1. status \in [Mcus -> Nat]
  <2>1. msg.clock \in Nat  BY DEF MessageType
  <2>2. QED  BY <2>1, ExceptType, Zenon DEF HostTypes
<1>2. NoStatus \in [Mcus -> Nat]  BY DEF NoStatus
<1>3. ASSUME NEW k \in Mcus
      PROVE  /\ known[k] \in Nat
             /\ \A a \in Mcus : a # k => known[k] <= status[a] + Expire
  <2>1. KnownTime(status, k) \in Nat /\ \A a \in Mcus : a # k => KnownTime(status, k) <= status[a]
    BY <1>1, KnownTimeFacts, Zenon
  <2>2. known[k] = KnownTime(status, k) + Expire  BY Zenon
  <2>3. \A a \in Mcus : status[a] \in Nat  BY <1>1, Zenon
  <2>4. Expire \in Nat  BY TrSyncConstants
  <2> DEFINE time == KnownTime(status, k)
  <2>5. time \in Nat /\ known[k] = time + Expire /\ \A a \in Mcus : a # k => time <= status[a]
    BY <2>1, <2>2, Zenon
  <2> HIDE DEF known, time
  <2>6. QED  BY <2>3, <2>4, <2>5
<1>4. Command("trigger", HOST_REQUEST, starts) \in Commands  BY CommandFacts, Zenon DEF HostTypes
<1>5. \A k \in Mcus : Command("timeout", known[k], starts) \in Commands
  <2> HIDE DEF known
  <2>1. QED  BY <1>3, CommandFacts, Zenon DEF HostTypes
<1>6. \A k \in Mcus : Command("trigger", HOST_REQUEST, starts) \in Relayed(k, status)
  BY <1>4 DEF Relayed, Orders, Command
<1>7. \A k \in Mcus : Command("timeout", known[k], starts) \in Relayed(k, status)
  <2> HIDE DEF known
  <2>1. QED  BY <1>3, <1>5 DEF Relayed, Orders, Command
<1>8. Good([k \in Mcus |-> <<>>])  OBVIOUS
<1>9. Good([k \in Mcus |-> <<Command("trigger", HOST_REQUEST, starts)>>])
  <2> DEFINE c == Command("trigger", HOST_REQUEST, starts)
  <2>1. \A k \in Mcus : c \in Commands /\ c \in Relayed(k, status)  BY <1>4, <1>6, Zenon
  <2> HIDE DEF c
  <2>2. \A k \in Mcus : <<c>> \in Seq(Commands) /\ \A i \in 1..Len(<<c>>) : <<c>>[i] \in Relayed(k, status)
    BY <2>1, OneOf, Zenon
  <2>3. QED  BY <2>2, Zenon DEF c
<1>10. Good([k \in Mcus |-> IF k \in extend THEN <<Command("timeout", known[k], starts)>> ELSE <<>>])
  <2> HIDE DEF known, extend
  <2> SUFFICES ASSUME NEW k \in Mcus
               PROVE  LET c == IF k \in extend THEN <<Command("timeout", known[k], starts)>> ELSE <<>>
                      IN  c \in Seq(Commands) /\ \A i \in 1..Len(c) : c[i] \in Relayed(k, status)
    BY Zenon
  <2>1. CASE k \in extend
    <3>1. /\ Command("timeout", known[k], starts) \in Commands
          /\ Command("timeout", known[k], starts) \in Relayed(k, status)
      BY <1>5, <1>7, Zenon
    <3>2. QED  BY <2>1, <3>1, OneOf, Zenon
  <2>2. CASE k \notin extend  BY <2>2
  <2>3. QED  BY <2>1, <2>2, Zenon
<1>11. [k \in Mcus |-> IF k \in extend THEN known[k] ELSE expire_clock[k]] \in [Mcus -> Nat]
  <2> HIDE DEF known, extend
  <2>1. QED  BY <1>3, Zenon DEF HostTypes
<1>12. CASE ~is_active \/ ~td_can_trigger
  <2>1. fr = Relay([k \in Mcus |-> <<>>], td_can_trigger, last_status, expire_clock)
    BY <1>12, Zenon DEF FastReader
  <2>2. QED  BY <1>8, <2>1 DEF Relay, HostTypes, RelayTyped
<1>13. CASE ~(~is_active \/ ~td_can_trigger) /\ ~msg.can
  <2>1. fr = Relay([k \in Mcus |-> <<Command("trigger", HOST_REQUEST, starts)>>], FALSE, NoStatus, NoStatus)
    BY <1>13, Zenon DEF FastReader
  <2> DEFINE cmds == [k \in Mcus |-> <<Command("trigger", HOST_REQUEST, starts)>>]
  <2>2. Good(cmds) /\ fr = Relay(cmds, FALSE, NoStatus, NoStatus) /\ is_active
    BY <1>9, <1>13, <2>1, Zenon
  <2> HIDE DEF fr, Good, cmds
  <2>3. fr.cmds = cmds /\ fr.can = FALSE /\ fr.status = NoStatus /\ fr.expire = NoStatus
    BY <2>2 DEF Relay
  <2>4. QED  BY <1>2, <2>2, <2>3, Zenon DEF Good, fr, RelayTyped
<1>14. CASE ~(~is_active \/ ~td_can_trigger) /\ msg.can
  <2>1. fr = Relay([k \in Mcus |-> IF k \in extend
                                   THEN <<Command("timeout", known[k], starts)>> ELSE <<>>],
                   TRUE, status,
                   [k \in Mcus |-> IF k \in extend THEN known[k] ELSE expire_clock[k]])
    BY <1>14, Zenon DEF FastReader
  <2> HIDE DEF known, extend
  <2> DEFINE cmds == [k \in Mcus |-> IF k \in extend
                                     THEN <<Command("timeout", known[k], starts)>> ELSE <<>>]
             expire == [k \in Mcus |-> IF k \in extend THEN known[k] ELSE expire_clock[k]]
  <2>2. /\ Good(cmds) /\ fr = Relay(cmds, TRUE, status, expire) /\ is_active
        /\ expire \in [Mcus -> Nat]
    BY <1>10, <1>11, <1>14, <2>1, Zenon
  <2> HIDE DEF fr, Good, cmds, expire
  <2>3. fr.cmds = cmds /\ fr.can = TRUE /\ fr.status = status /\ fr.expire = expire
    BY <2>2 DEF Relay
  <2>4. QED  BY <2>2, <2>3, Zenon DEF Good, fr, RelayTyped
<1>15. QED  BY <1>12, <1>13, <1>14, Zenon

\* The host reads the first message of m.
LEMMA HearOne ==
    ASSUME WireTypes, NEW m \in Mcus, to_host[m] # <<>>,
           to_host' = [to_host EXCEPT ![m] = Tail(to_host[m])]
    PROVE  /\ to_host' \in [Mcus -> Seq(MessageType)]
           /\ Head(to_host[m]) = to_host[m][1] /\ Head(to_host[m]) \in MessageType
           /\ 1 \in Msgs(m)
           /\ Popped(to_host[m], to_host'[m])
           /\ \A x \in Mcus : Shrunk(to_host[x], to_host'[x])
           /\ \A x \in Mcus : x # m => to_host'[x] = to_host[x]
<1>1. to_host \in [Mcus -> Seq(MessageType)] /\ to_host[m] \in Seq(MessageType)  BY Zenon DEF WireTypes
<1>2. /\ Popped(to_host[m], Tail(to_host[m])) /\ Tail(to_host[m]) \in Seq(MessageType)
      /\ Head(to_host[m]) = to_host[m][1] /\ to_host[m][1] \in MessageType
  BY <1>1, PoppedTail, Zenon
<1>3. /\ to_host' \in [Mcus -> Seq(MessageType)] /\ to_host'[m] = Tail(to_host[m])
      /\ \A x \in Mcus : x # m => to_host'[x] = to_host[x]
  BY <1>1, <1>2, Zenon
<1>4. \A x \in Mcus : Shrunk(to_host[x], to_host'[x])
  BY <1>2, <1>3, ShrunkSame, ShrunkPopped, Zenon
<1>5. 1 \in Msgs(m)  BY <1>2, Zenon DEF Popped, Msgs
<1>6. QED  BY <1>2, <1>3, <1>4, <1>5, Zenon

\* What the host sends when it reads a trsync_state message
LEMMA HostStateWire ==
    ASSUME SessionInv, NEW m \in Mcus, HostState(m), NEW k \in Mcus,
           NEW status, status = [last_status EXCEPT ![m] = to_host[m][1].clock],
           NEW D, D = Relayed(k, status) \cup {Command("trigger", PAST_END_TIME, starts)}
    PROVE  /\ to_mcu'[k] \in Seq(Commands)
           /\ to_mcu'[k] = to_mcu[k] \/ (~Off(k) /\ Extended(to_mcu[k], to_mcu'[k], D))
           /\ host \notin {"starting", "homing"} => to_mcu'[k] = to_mcu[k]
<1>1. Types /\ HostPlace  BY Zenon DEF SessionInv
<1>2. Head(to_host[m]) \in MessageType /\ Head(to_host[m]) = to_host[m][1]
  <2>1. to_host[m] # <<>> /\ to_host' = [to_host EXCEPT ![m] = Tail(to_host[m])]
    BY Zenon DEF HostState
  <2>2. QED  BY <1>1, <2>1, HearOne, Zenon DEF Types
<1> DEFINE msg == Head(to_host[m])
           fr == FastReader(m, msg)
           past == IF PastEnd(m, msg) THEN <<Command("trigger", PAST_END_TIME, starts)>> ELSE <<>>
           own == IF k = m THEN past ELSE <<>>
<1>3. to_mcu'[k] = SendMcu(k, fr.cmds[k] \o own)  BY Zenon DEF HostState
<1>4. /\ fr.cmds[k] \in Seq(Commands)
      /\ \A i \in 1..Len(fr.cmds[k]) : fr.cmds[k][i] \in Relayed(k, status)
      /\ ~is_active => fr.cmds[k] = <<>>
  <2>1. status = [last_status EXCEPT ![m] = msg.clock] /\ msg \in MessageType  BY <1>2, Zenon
  <2> HIDE DEF msg
  <2>2. RelayTyped(fr, status)  BY <1>1, <2>1, FastReaderFacts, Zenon DEF Types
  <2> HIDE DEF fr
  <2>3. QED  BY <2>2, Zenon DEF RelayTyped
<1>5. /\ own \in Seq(Commands) /\ \A i \in 1..Len(own) : own[i] \in D
      /\ host \notin {"starting", "homing"} => own = <<>>
  <2> DEFINE c == Command("trigger", PAST_END_TIME, starts)
  <2>1. c \in Commands  BY <1>1, CommandFacts, Zenon DEF Types, HostTypes
  <2>2. c \in D  BY Zenon
  <2>3. own = <<>> \/ (own = <<c>> /\ host \in {"starting", "homing"})  BY Zenon DEF PastEnd
  <2> HIDE DEF own, c
  <2>4. <<c>> \in Seq(Commands) /\ \A i \in 1..Len(<<c>>) : <<c>>[i] \in D  BY <2>1, <2>2, OneOf, Zenon
  <2>5. <<>> \in Seq(Commands) /\ \A i \in 1..Len(<<>>) : <<>>[i] \in D  OBVIOUS
  <2>6. QED  BY <2>3, <2>4, <2>5, Zenon
<1> HIDE DEF own, fr
<1>6. /\ fr.cmds[k] \o own \in Seq(Commands)
      /\ \A i \in 1..Len(fr.cmds[k] \o own) : (fr.cmds[k] \o own)[i] \in D
  <2>1. Extended(fr.cmds[k], fr.cmds[k] \o own, D) /\ fr.cmds[k] \o own \in Seq(Commands)
    BY <1>4, <1>5, ExtendedConcat, Zenon
  <2>2. QED  BY <1>4, <2>1, Zenon DEF Extended
<1>7. /\ SendMcu(k, fr.cmds[k] \o own) \in Seq(Commands)
      /\ Off(k) => SendMcu(k, fr.cmds[k] \o own) = to_mcu[k]
      /\ ~Off(k) => /\ SendMcu(k, fr.cmds[k] \o own) = to_mcu[k] \o (fr.cmds[k] \o own)
                    /\ Extended(to_mcu[k], SendMcu(k, fr.cmds[k] \o own), D)
  <2> DEFINE d == fr.cmds[k] \o own
  <2>1. d \in Seq(Commands) /\ \A i \in 1..Len(d) : d[i] \in D  BY <1>6, Zenon
  <2> HIDE DEF d
  <2>2. QED  BY <1>1, <2>1, SendMcuFacts, Zenon DEF d, Types
<1>8. ASSUME host \notin {"starting", "homing"} PROVE to_mcu'[k] = to_mcu[k]
  <2>1. ~is_active  BY <1>1, <1>8, Zenon DEF HostPlace
  <2>2. fr.cmds[k] = <<>> /\ own = <<>>  BY <1>4, <1>5, <1>8, <2>1, Zenon
  <2>3. to_mcu[k] \in Seq(Commands)  BY <1>1, Zenon DEF Types, WireTypes
  <2>4. to_mcu[k] \o (fr.cmds[k] \o own) = to_mcu[k]  BY <2>2, <2>3
  <2>5. QED  BY <1>3, <1>7, <2>4, Zenon
<1>9. QED  BY <1>3, <1>7, <1>8, Zenon

LEMMA ExtendedWider ==
    ASSUME NEW c, NEW c2, NEW D, NEW E, D \subseteq E, Extended(c, c2, D)
    PROVE  Extended(c, c2, E)
BY Zenon DEF Extended

-----------------------------------------------------------------------------
(* What a micro-controller takes and sends *)

\* A trsync that takes a command other than a start has been started.
LEMMA Started ==
    ASSUME NEW m, TalkAt(m), 1 \in Cmds(m), to_mcu[m][1].op # "start"
    PROVE  session[m] = starts /\ to_mcu[m][1].of = starts
BY Zenon DEF TalkAt, Unstarted, NoCommand, OfNow

\* m took a command.
LEMMA TakenFacts ==
    ASSUME SessionInv, NEW m \in Mcus, NEW op, Receives(m, op), Taken(m)
    PROVE  /\ to_mcu' \in [Mcus -> Seq(Commands)] /\ Popped(to_mcu[m], to_mcu'[m])
           /\ to_mcu[m][1].op = op /\ Arg(m) = to_mcu[m][1].arg /\ Of(m) = starts
           /\ to_mcu[m][1] \in Commands /\ 1 \in Cmds(m) /\ ~Off(m)
           /\ op # "start" => session[m] = starts
           /\ \A x \in Mcus : x # m => to_mcu'[x] = to_mcu[x]
<1>1. TalkAt(m) /\ to_mcu \in [Mcus -> Seq(Commands)] /\ to_mcu[m] \in Seq(Commands)
  BY Zenon DEF SessionInv, Types, WireTypes
<1>2. to_mcu[m] # <<>> /\ Head(to_mcu[m]).op = op  BY Zenon DEF Receives
<1>3. /\ Popped(to_mcu[m], Tail(to_mcu[m])) /\ Tail(to_mcu[m]) \in Seq(Commands)
      /\ Head(to_mcu[m]) = to_mcu[m][1] /\ to_mcu[m][1] \in Commands
  BY <1>1, <1>2, PoppedTail, Zenon
<1>4. /\ to_mcu' \in [Mcus -> Seq(Commands)] /\ to_mcu'[m] = Tail(to_mcu[m])
      /\ \A x \in Mcus : x # m => to_mcu'[x] = to_mcu[x]
  BY <1>1, <1>3, Zenon DEF Taken
<1>5. 1 \in Cmds(m)  BY <1>3, Zenon DEF Popped, Cmds
<1>6. ~Off(m) /\ to_mcu[m][1].of = starts  BY <1>1, <1>5, Zenon DEF TalkAt, NoCommand, OfNow
<1>7. op # "start" => session[m] = starts  BY <1>1, <1>2, <1>3, <1>5, Started, Zenon
<1>8. QED  BY <1>2, <1>3, <1>4, <1>5, <1>6, <1>7, Zenon DEF Arg, Of

\* m sends a report of this operation, which may be lost, and then rest.
LEMMA SendfFacts ==
    ASSUME WireTypes, NEW m \in Mcus, NEW msg \in MessageType, NEW rest \in Seq(MessageType), NEW D,
           msg \in D, \A i \in 1..Len(rest) : rest[i] \in D, Sendf(m, msg, rest)
    PROVE  /\ to_host' \in [Mcus -> Seq(MessageType)] /\ cut' = cut
           /\ Extended(to_host[m], to_host'[m], D)
           /\ \A x \in Mcus : x # m => to_host'[x] = to_host[x]
           /\ m \notin cut => \E d \in Seq(MessageType) :
                 /\ to_host'[m] = to_host[m] \o (d \o rest)
                 /\ d = <<>> \/ d = <<msg>>
<1>1. to_host \in [Mcus -> Seq(MessageType)] /\ to_host[m] \in Seq(MessageType)  BY Zenon DEF WireTypes
<1>2. PICK lost \in BOOLEAN :
         to_host' = [to_host EXCEPT ![m] = SendHost(m, (IF lost THEN <<>> ELSE <<msg>>) \o rest)]
  BY Zenon DEF Sendf
<1> DEFINE d == IF lost THEN <<>> ELSE <<msg>>
<1>3. /\ d \in Seq(MessageType) /\ \A i \in 1..Len(d) : d[i] \in D
      /\ d = <<>> \/ d = <<msg>>
  <2>1. <<msg>> \in Seq(MessageType) /\ \A i \in 1..Len(<<msg>>) : <<msg>>[i] \in D  BY OneOf, Zenon
  <2>2. <<>> \in Seq(MessageType) /\ \A i \in 1..Len(<<>>) : <<>>[i] \in D  OBVIOUS
  <2>3. QED  BY <2>1, <2>2, Zenon
<1>4. to_host' = [to_host EXCEPT ![m] = SendHost(m, d \o rest)]  BY <1>2, Zenon
<1> HIDE DEF d
<1>5. d \o rest \in Seq(MessageType) /\ \A i \in 1..Len(d \o rest) : (d \o rest)[i] \in D
  <2>1. Extended(d, d \o rest, D) /\ d \o rest \in Seq(MessageType)  BY <1>3, ExtendedConcat, Zenon
  <2>2. QED  BY <1>3, <2>1, Zenon DEF Extended
<1>6. /\ to_host[m] \o (d \o rest) \in Seq(MessageType)
      /\ Extended(to_host[m], to_host[m] \o (d \o rest), D)
  <2> DEFINE e == d \o rest
  <2>1. e \in Seq(MessageType) /\ \A i \in 1..Len(e) : e[i] \in D  BY <1>5, Zenon
  <2> HIDE DEF e
  <2>2. QED  BY <1>1, <2>1, ExtendedConcat, Zenon DEF e
<1>7. Extended(to_host[m], to_host[m], D)
  <2>1. Len(to_host[m]) \in Nat  BY <1>1, SeqLen, Zenon
  <2>2. QED  BY <2>1, Zenon DEF Extended
<1>8. /\ SendHost(m, d \o rest) \in Seq(MessageType) /\ Extended(to_host[m], SendHost(m, d \o rest), D)
      /\ m \notin cut => SendHost(m, d \o rest) = to_host[m] \o (d \o rest)
  BY <1>1, <1>6, <1>7, Zenon DEF SendHost
<1>9. /\ to_host' \in [Mcus -> Seq(MessageType)] /\ to_host'[m] = SendHost(m, d \o rest)
      /\ \A x \in Mcus : x # m => to_host'[x] = to_host[x]
  BY <1>1, <1>4, <1>8, Zenon
<1>10. cut' = cut  BY Zenon DEF Sendf
<1>11. QED  BY <1>3, <1>8, <1>9, <1>10, Zenon

\* A report of a trsync that was started in this operation
LEMMA StateMessage ==
    ASSUME Types, NEW m \in Mcus, NEW can \in BOOLEAN, NEW reason \in Reason, NEW clock,
           can => clock \in Nat, session[m] = starts
    PROVE  State(m, can, reason, clock) \in MessageType /\ State(m, can, reason, clock) \in Reports
<1>1. (IF can THEN clock ELSE 0) \in Nat  OBVIOUS
<1>2. starts \in 0..MaxStarts  BY Zenon DEF Types, HostTypes, Session
<1>3. State(m, can, reason, clock) \in MessageType
  BY <1>1, <1>2 DEF State, MessageType, Reason
<1>4. State(m, can, reason, clock).op = "state" /\ State(m, can, reason, clock).of = starts
  BY DEF State
<1>5. QED  BY <1>3, <1>4, Zenon DEF Reports

-----------------------------------------------------------------------------
(* The steppers: what is armed, and until when *)

\* A trsync is started first and its stepper registered next, before it can
\* trigger: its timeout is not yet armed and its endstop not sampled.
NoStart(m) == \A i \in Cmds(m) : to_mcu[m][i].op # "start" /\ to_mcu[m][i].op # "stop_on"

StartFirst(m) ==
    /\ \A i \in Cmds(m) : to_mcu[m][i].op = "start" => i = 1
    /\ \A i \in Cmds(m) : to_mcu[m][i].op = "stop_on" =>
          i = 1 \/ (i = 2 /\ 1 \in Cmds(m) /\ to_mcu[m][1].op = "start")

Registers(m) ==
    /\ can_trigger[m] = TRUE /\ expire_at[m] = Never
    /\ m = EndstopMcu => homing = FALSE

ArmedAt(m) ==
    /\ can_trigger[m] = FALSE => signal[m] = FALSE
    /\ StartFirst(m)
    /\ 1 \in Cmds(m) /\ to_mcu[m][1].op = "stop_on" => Registers(m)
    /\ m = EndstopMcu /\ homing = TRUE => NoStart(m)

\* No report of a has a later clock: the trsync of a works until it triggers,
\* and the host takes it to work until the move starts.
Limit(a) ==
    IF session[a] = starts /\ triggered_at[a] # Never
    THEN Later(triggered_at[a], start_clock) ELSE Later(now, start_clock)

ClockAt(a) ==
    /\ last_status[a] <= Limit(a)
    /\ \A i \in Msgs(a) : to_host[a][i].op = "state" => to_host[a][i].clock <= Limit(a)

TimersAt(a) ==
    /\ expire_at[a] # Never => now <= expire_at[a]
    /\ read_time[a] # Never => read_time[a] <= now
    /\ triggered_at[a] # Never => triggered_at[a] <= now
    /\ can_trigger[a] = TRUE => triggered_at[a] = Never

\* The timeouts given to b do not reach further than Expire after that.
BoundAt(a, b) ==
    a # b =>
      /\ \A i \in Cmds(b) : to_mcu[b][i].op = "timeout" => to_mcu[b][i].arg <= Limit(a) + Expire
      /\ expire_at[b] # Never => expire_at[b] <= Limit(a) + Expire

AllStop ==
    /\ \A x \in Mcus : ArmedAt(x) /\ ClockAt(x) /\ TimersAt(x)
    /\ \A a, b \in Mcus : BoundAt(a, b)

StopInv ==
    /\ SessionInv
    /\ \A m \in Mcus : ArmedAt(m) /\ ClockAt(m) /\ TimersAt(m)
    /\ \A a, b \in Mcus : BoundAt(a, b)

\* None of these two commands is left.
LEMMA ArmedRest ==
    ASSUME NEW m, NoStart(m)', (can_trigger[m] = FALSE => signal[m] = FALSE)'
    PROVE  ArmedAt(m)'
BY Zenon DEF ArmedAt, NoStart, StartFirst

LEMMA LimitType ==
    ASSUME Types, NEW a \in Mcus
    PROVE  Limit(a) \in Nat
<1>1. now \in Nat /\ start_clock \in Nat  BY Zenon DEF Types, HostTypes
<1>2. triggered_at[a] # Never => triggered_at[a] \in Nat  BY Zenon DEF Types, McuTypes, Times
<1>3. \A x, y \in Nat : Later(x, y) \in Nat  BY DEF Later
<1>4. QED  BY <1>1, <1>2, <1>3, Zenon DEF Limit

LEMMA LimitTypeNext ==
    ASSUME Types', NEW a \in Mcus
    PROVE  Limit(a)' \in Nat
<1>1. now' \in Nat /\ start_clock' \in Nat  BY Zenon DEF Types, HostTypes
<1>2. triggered_at'[a] # Never => triggered_at'[a] \in Nat  BY Zenon DEF Types, McuTypes, Times
<1>3. \A x, y \in Nat : Later(x, y) \in Nat  BY DEF Later
<1>4. QED  BY <1>1, <1>2, <1>3, Zenon DEF Limit

LEMMA LeqTransitive == \A x, y, z \in Nat : x <= y /\ y <= z => x <= z
OBVIOUS

LEMMA CommandArg ==
    ASSUME NEW c \in Commands, c.op = "timeout"
    PROVE  c.arg \in Nat
BY DEF Commands

-----------------------------------------------------------------------------
(* The steps of the host *)

\* The commands the host sends to k in a homing operation, after its start
Sent(k) ==
    {c \in Commands : /\ c.op # "start" /\ c.op # "stop_on"
                      /\ c.op = "timeout" => \A a \in Mcus : a # k => c.arg <= Limit(a) + Expire}

Sends(k) == to_mcu'[k] = to_mcu[k] \/ Extended(to_mcu[k], to_mcu'[k], Sent(k))

\* The bound holds after a step of the host: what it sends keeps to it.
LEMMA HostStops ==
    /\ StopInv
    /\ \/ HomeStart \/ HomeActivate \/ HomeStop \/ HomeDone \/ HostLostMcu
       \/ \E m \in Mcus : Query(m) \/ HostAck(m) \/ HostState(m) \/ HostShutdown(m)
    => AllStop'
\* Commands other than these two are sent, and the trsync stays as it is.
<1>ArmedSent. ASSUME NEW m, NEW D, ArmedAt(m),
                     to_mcu'[m] = to_mcu[m] \/ Extended(to_mcu[m], to_mcu'[m], D),
                     \A c \in D : c.op # "start" /\ c.op # "stop_on",
                     can_trigger'[m] = can_trigger[m], expire_at'[m] = expire_at[m],
                     signal'[m] = signal[m], homing' = homing
              PROVE  ArmedAt(m)'
  <2> USE <1>ArmedSent
  <2>1. \A i \in Cmds(m)' : to_mcu'[m][i].op = "start" \/ to_mcu'[m][i].op = "stop_on" =>
            i \in Cmds(m) /\ to_mcu'[m][i] = to_mcu[m][i]
    BY Zenon DEF Extended, Cmds
  <2>2. 1 \in Cmds(m) => 1 \in Cmds(m)' /\ to_mcu'[m][1] = to_mcu[m][1]
    BY Zenon DEF Extended, Cmds
  <2>3. StartFirst(m)'
    <3>1. StartFirst(m)  BY Zenon DEF ArmedAt
    <3>2. QED  BY <2>1, <2>2, <3>1, Zenon DEF StartFirst
  <2>4. (1 \in Cmds(m) /\ to_mcu[m][1].op = "stop_on" => Registers(m))'
    BY <2>1, Zenon DEF ArmedAt, Registers
  <2>5. (m = EndstopMcu /\ homing = TRUE => NoStart(m))'
    BY <2>1, Zenon DEF ArmedAt, NoStart
  <2>6. QED  BY <2>3, <2>4, <2>5, Zenon DEF ArmedAt
<1>PlainSent. ASSUME NEW k, NEW c \in Commands, c.op \in {"home", "query", "estop", "trigger"}
              PROVE  c \in Sent(k)
  <2> USE <1>PlainSent
  <2>1. c.op # "start" /\ c.op # "stop_on" /\ c.op # "timeout"  OBVIOUS
  <2>2. QED  BY <2>1, Zenon DEF Sent
<1>OneSent. ASSUME WireTypes, NEW m \in Mcus, NEW k \in Mcus, NEW c \in Commands,
                   c.op \in {"home", "query", "estop", "trigger"},
                   to_mcu' = [to_mcu EXCEPT ![m] = SendMcu(m, <<c>>)]
            PROVE  Sends(k)
  <2> USE <1>OneSent
  <2>1. c \in Sent(m)  BY <1>PlainSent, Zenon
  <2>2. SendMcu(m, <<c>>) = to_mcu[m] \/ Extended(to_mcu[m], SendMcu(m, <<c>>), Sent(m))
    BY <2>1, SendOne, Zenon
  <2>3. to_mcu'[m] = SendMcu(m, <<c>>) /\ (k # m => to_mcu'[k] = to_mcu[k])  BY Zenon DEF WireTypes
  <2>4. QED  BY <2>2, <2>3, Zenon DEF Sends
<1>QuerySent. ASSUME Types, NEW m \in Mcus, NEW k \in Mcus,
                     to_mcu' = [to_mcu EXCEPT ![m] = SendMcu(m, <<Command("query", HOST_REQUEST, starts)>>)]
              PROVE  Sends(k)
  <2> USE <1>QuerySent
  <2> DEFINE c == Command("query", HOST_REQUEST, starts)
  <2>1. c \in Commands  BY CommandFacts, Zenon DEF Types, HostTypes
  <2>2. c.op \in {"home", "query", "estop", "trigger"}  BY DEF Command
  <2>3. to_mcu' = [to_mcu EXCEPT ![m] = SendMcu(m, <<c>>)]  BY Zenon
  <2> HIDE DEF c
  <2>4. QED  BY <2>1, <2>2, <2>3, <1>OneSent, Zenon DEF Types
<1>HomeSent. ASSUME Types, NEW k \in Mcus, NEW clock \in Times,
                    to_mcu' = [to_mcu EXCEPT ![EndstopMcu] =
                                  SendMcu(EndstopMcu, <<Command("home", clock, starts)>>)]
             PROVE  Sends(k)
  <2> USE <1>HomeSent
  <2> DEFINE c == Command("home", clock, starts)
  <2>1. c \in Commands /\ EndstopMcu \in Mcus
    BY CommandFacts, TrSyncConstants, Zenon DEF Types, HostTypes
  <2>2. c.op \in {"home", "query", "estop", "trigger"}  BY DEF Command
  <2>3. to_mcu' = [to_mcu EXCEPT ![EndstopMcu] = SendMcu(EndstopMcu, <<c>>)]  BY Zenon
  <2> HIDE DEF c
  <2>4. QED  BY <2>1, <2>2, <2>3, <1>OneSent, Zenon DEF Types
<1>ShutdownSent. ASSUME Types, ShutdownPrinter, NEW k \in Mcus
                 PROVE  Sends(k)
  <2> USE <1>ShutdownSent
  <2> DEFINE c == Command("estop", 0, starts)
  <2>1. c \in Commands  BY CommandFacts, Zenon DEF Types, HostTypes
  <2>2. c.op \in {"home", "query", "estop", "trigger"}  BY DEF Command
  <2>3. to_mcu'[k] = to_mcu[k] \/ to_mcu'[k] = SendMcu(k, <<c>>)
    BY Zenon DEF ShutdownPrinter
  <2> HIDE DEF c
  <2>4. c \in Sent(k)  BY <2>1, <2>2, <1>PlainSent, Zenon
  <2>5. SendMcu(k, <<c>>) = to_mcu[k] \/ Extended(to_mcu[k], SendMcu(k, <<c>>), Sent(k))
    BY <2>1, <2>4, SendOne, Zenon DEF Types
  <2>6. QED  BY <2>3, <2>5, Zenon DEF Sends
\* The clock of the report that is heard
<1>HeardClock. ASSUME StopInv, NEW m \in Mcus, HostState(m)
               PROVE  /\ 1 \in Msgs(m) /\ to_host[m][1].clock \in Nat /\ to_host[m][1].clock <= Limit(m)
                      /\ Head(to_host[m]) = to_host[m][1]
  <2> USE <1>HeardClock
  <2>1. to_host[m] # <<>> /\ to_host' = [to_host EXCEPT ![m] = Tail(to_host[m])]
    BY Zenon DEF HostState
  <2>2. /\ Head(to_host[m]) = to_host[m][1] /\ Head(to_host[m]) \in MessageType /\ 1 \in Msgs(m)
    BY <2>1, HearOne, Zenon DEF StopInv, SessionInv, Types
  <2>3. to_host[m][1].op = "state"  BY <2>2, Zenon DEF HostState
  <2>4. to_host[m][1].clock <= Limit(m)  BY <2>2, <2>3, Zenon DEF StopInv, ClockAt
  <2>5. \A x \in MessageType : x.clock \in Nat  BY DEF MessageType
  <2>6. QED  BY <2>2, <2>4, <2>5, Zenon
<1>HostStateSent. ASSUME StopInv, NEW m \in Mcus, HostState(m), NEW k \in Mcus
                  PROVE  Sends(k)
  <2> USE <1>HostStateSent
  <2>1. SessionInv /\ Types  BY Zenon DEF StopInv, SessionInv
  <2> DEFINE status == [last_status EXCEPT ![m] = to_host[m][1].clock]
             past == Command("trigger", PAST_END_TIME, starts)
             D == Relayed(k, status) \cup {past}
  <2>2. \A a \in Mcus : status[a] \in Nat /\ status[a] <= Limit(a)
    <3>1. last_status \in [Mcus -> Nat] /\ \A a \in Mcus : last_status[a] <= Limit(a)
      BY <2>1, Zenon DEF StopInv, ClockAt, Types, HostTypes
    <3>2. to_host[m][1].clock \in Nat /\ to_host[m][1].clock <= Limit(m)  BY <1>HeardClock, Zenon
    <3>3. QED  BY <3>1, <3>2, Zenon
  <2>3. past \in Sent(k)
    <3>1. past \in Commands  BY <2>1, CommandFacts, Zenon DEF Types, HostTypes
    <3>2. past.op \in {"home", "query", "estop", "trigger"}  BY DEF Command
    <3> HIDE DEF past
    <3>3. QED  BY <3>1, <3>2, <1>PlainSent, Zenon
  <2>4. to_mcu'[k] = to_mcu[k] \/ Extended(to_mcu[k], to_mcu'[k], D)
    <3>1. D = Relayed(k, status) \cup {Command("trigger", PAST_END_TIME, starts)}
      BY Zenon
    <3>2. status = [last_status EXCEPT ![m] = to_host[m][1].clock]  BY Zenon
    <3> HIDE DEF D, status
    <3>3. QED  BY <2>1, <3>1, <3>2, HostStateWire, Zenon
  <2> HIDE DEF status, past
  <2>5. ASSUME NEW c \in Relayed(k, status) PROVE c \in Sent(k)
    <3>1. /\ c \in Commands /\ c.op \in {"trigger", "timeout"}
          /\ c.op = "timeout" => \A a \in Mcus : a # k => c.arg <= status[a] + Expire
      BY <2>5, Zenon DEF Relayed, Orders
    <3>2. c.op # "start" /\ c.op # "stop_on"  BY <3>1
    <3>3. ASSUME c.op = "timeout", NEW a \in Mcus, a # k PROVE c.arg <= Limit(a) + Expire
      <4>1. c.arg \in Nat  BY <3>1, <3>3 DEF Commands
      <4>2. c.arg <= status[a] + Expire  BY <3>1, <3>3, Zenon
      <4>3. status[a] \in Nat /\ status[a] <= Limit(a) /\ Limit(a) \in Nat /\ Expire \in Nat
        BY <2>1, <2>2, LimitType, TrSyncConstants, Zenon
      <4>4. QED  BY <4>1, <4>2, <4>3
    <3>4. QED  BY <3>1, <3>2, <3>3, Zenon DEF Sent
  <2>6. D \subseteq Sent(k)  BY <2>3, <2>5, Zenon
  <2>7. QED  BY <2>4, <2>6, ExtendedWider, Zenon DEF Sends
<1>HostKeepsStop. ASSUME StopInv, UNCHANGED <<now, starts, start_clock, trsync, read_time>>,
                         \A x \in Mcus : /\ Sends(x) /\ Shrunk(to_host[x], to_host'[x])
                                         /\ last_status'[x] <= Limit(x)
                  PROVE  AllStop'
  <2> USE <1>HostKeepsStop
  <2>1. /\ can_trigger' = can_trigger /\ expire_at' = expire_at /\ signal' = signal
        /\ homing' = homing /\ session' = session /\ triggered_at' = triggered_at
        /\ now' = now /\ read_time' = read_time /\ starts' = starts /\ start_clock' = start_clock
    BY Zenon DEF trsync
  <2>2. \A x : Limit(x)' = Limit(x)  BY <2>1, Zenon DEF Limit
  <2>3. ASSUME NEW x \in Mcus PROVE ArmedAt(x)' /\ ClockAt(x)' /\ TimersAt(x)'
    <3>1. ArmedAt(x) /\ ClockAt(x) /\ TimersAt(x)  BY Zenon DEF StopInv
    <3>2. \A c \in Sent(x) : c.op # "start" /\ c.op # "stop_on"  BY Zenon DEF Sent
    <3>3. ArmedAt(x)'  BY <2>1, <3>1, <3>2, <1>ArmedSent, Zenon DEF Sends
    <3>4. ClockAt(x)'
      <4>1. \A i \in Msgs(x)' : \E j \in Msgs(x) : to_host'[x][i] = to_host[x][j]
        BY Zenon DEF Shrunk, Msgs
      <4>2. \A i \in Msgs(x)' : to_host'[x][i].op = "state" => to_host'[x][i].clock <= Limit(x)
        BY <3>1, <4>1, Zenon DEF ClockAt
      <4>3. QED  BY <2>2, <4>2, Zenon DEF ClockAt
    <3>5. TimersAt(x)'  BY <2>1, <3>1, Zenon DEF TimersAt
    <3>6. QED  BY <3>3, <3>4, <3>5, Zenon
  <2>4. ASSUME NEW a \in Mcus, NEW b \in Mcus, a # b PROVE BoundAt(a, b)'
    <3>1. /\ \A i \in Cmds(b) : to_mcu[b][i].op = "timeout" => to_mcu[b][i].arg <= Limit(a) + Expire
          /\ expire_at[b] # Never => expire_at[b] <= Limit(a) + Expire
      BY <2>4, Zenon DEF StopInv, BoundAt
    <3>2. \A c \in Sent(b) : c.op = "timeout" => c.arg <= Limit(a) + Expire
      BY <2>4, Zenon DEF Sent
    <3>3. \A i \in Cmds(b)' : (i \in Cmds(b) /\ to_mcu'[b][i] = to_mcu[b][i]) \/ to_mcu'[b][i] \in Sent(b)
      BY Zenon DEF Sends, Extended, Cmds
    <3>4. \A i \in Cmds(b)' : to_mcu'[b][i].op = "timeout" => to_mcu'[b][i].arg <= Limit(a) + Expire
      BY <3>1, <3>2, <3>3, Zenon
    <3>5. QED  BY <2>1, <2>2, <3>1, <3>4, Zenon DEF BoundAt
  <2>5. QED  BY <2>3, <2>4, Zenon DEF AllStop, BoundAt
<1>HostStepStop. ASSUME StopInv,
                        \/ HomeActivate \/ HomeStop \/ HomeDone \/ HostLostMcu
                        \/ \E m \in Mcus : Query(m) \/ HostAck(m) \/ HostState(m) \/ HostShutdown(m)
                 PROVE  AllStop'
  <2> USE <1>HostStepStop
  <2>1. Types  BY Zenon DEF StopInv, SessionInv
  <2>2. \A x \in Mcus : /\ last_status[x] <= Limit(x) /\ NoStatus[x] <= Limit(x)
                        /\ Shrunk(to_host[x], to_host[x])
    <3>1. \A x \in Mcus : last_status[x] <= Limit(x)  BY Zenon DEF StopInv, ClockAt
    <3>2. \A x \in Mcus : NoStatus[x] = 0 /\ Limit(x) \in Nat
      BY <2>1, LimitType, Zenon DEF NoStatus
    <3>3. \A x \in Mcus : NoStatus[x] <= Limit(x)  BY <3>2
    <3>4. QED  BY <3>1, <3>3, ShrunkSame, Zenon
  <2>3. Never \in Times  BY Zenon DEF Times
  <2>4. CASE HomeActivate
    <3>1. UNCHANGED <<now, starts, start_clock, trsync, read_time, last_status, to_host>>
      BY <2>4, Zenon DEF HomeActivate
    <3>2. \A x \in Mcus : Sends(x)
      <4>1. start_clock \in Times  BY <2>1, Zenon DEF Types, HostTypes, Times
      <4>2. QED  BY <2>1, <2>4, <4>1, <1>HomeSent, Zenon DEF HomeActivate
    <3>3. QED  BY <2>2, <3>1, <3>2, <1>HostKeepsStop, Zenon
  <2>5. CASE HomeStop
    <3>1. UNCHANGED <<now, starts, start_clock, trsync, read_time, to_host>> /\ last_status' = NoStatus
      BY <2>5, Zenon DEF HomeStop
    <3>2. \A x \in Mcus : Sends(x)  BY <2>1, <2>3, <2>5, <1>HomeSent, Zenon DEF HomeStop
    <3>3. QED  BY <2>2, <3>1, <3>2, <1>HostKeepsStop, Zenon
  <2>6. CASE HomeDone
    <3>1. UNCHANGED <<now, starts, start_clock, trsync, read_time, to_host, to_mcu, last_status>>
      BY <2>6, Zenon DEF HomeDone, trdispatch
    <3>2. \A x \in Mcus : Sends(x)  BY <3>1, Zenon DEF Sends
    <3>3. QED  BY <2>2, <3>1, <3>2, <1>HostKeepsStop, Zenon
  <2>7. ASSUME ShutdownPrinter, \A x \in Mcus : Shrunk(to_host[x], to_host'[x]) PROVE AllStop'
    <3>1. UNCHANGED <<now, starts, start_clock, trsync, read_time>> /\ last_status' = NoStatus
      BY <2>7, Zenon DEF ShutdownPrinter
    <3>2. \A x \in Mcus : Sends(x)  BY <2>1, <2>7, <1>ShutdownSent, Zenon
    <3>3. QED  BY <2>2, <2>7, <3>1, <3>2, <1>HostKeepsStop, Zenon
  <2>8. CASE HostLostMcu
    <3>1. ShutdownPrinter /\ to_host' = to_host  BY <2>8, Zenon DEF HostLostMcu
    <3>2. QED  BY <2>2, <2>7, <3>1, Zenon
  <2>9. ASSUME NEW m \in Mcus, to_host[m] # <<>>, to_host' = [to_host EXCEPT ![m] = Tail(@)]
        PROVE  \A x \in Mcus : Shrunk(to_host[x], to_host'[x])
    BY <2>1, <2>9, HearOne, Zenon DEF Types
  <2>10. ASSUME NEW m \in Mcus, HostShutdown(m) PROVE AllStop'
    BY <2>7, <2>9, <2>10, Zenon DEF HostShutdown
  <2>11. ASSUME NEW m \in Mcus, Query(m) PROVE AllStop'
    <3>1. UNCHANGED <<now, starts, start_clock, trsync, read_time, to_host, last_status>>
      BY <2>11, Zenon DEF Query, trdispatch
    <3>2. \A x \in Mcus : Sends(x)  BY <2>1, <2>11, <1>QuerySent, Zenon DEF Query
    <3>3. QED  BY <2>2, <3>1, <3>2, <1>HostKeepsStop, Zenon
  <2>12. ASSUME NEW m \in Mcus, HostAck(m) PROVE AllStop'
    <3>1. UNCHANGED <<now, starts, start_clock, trsync, read_time, last_status>>
      BY <2>12, Zenon DEF HostAck, trdispatch
    <3>2. \A x \in Mcus : Sends(x)
      <4>1. CASE to_mcu' = to_mcu  BY <4>1, Zenon DEF Sends
      <4>2. CASE to_mcu' = [to_mcu EXCEPT ![m] =
                               SendMcu(m, <<Command("query", HOST_REQUEST, starts)>>)]
        BY <2>1, <4>2, <1>QuerySent, Zenon
      <4>3. QED  BY <2>12, <4>1, <4>2, Zenon DEF HostAck
    <3>3. \A x \in Mcus : Shrunk(to_host[x], to_host'[x])  BY <2>9, <2>12, Zenon DEF HostAck
    <3>4. QED  BY <2>2, <3>1, <3>2, <3>3, <1>HostKeepsStop, Zenon
  <2>13. ASSUME NEW m \in Mcus, HostState(m) PROVE AllStop'
    <3>1. UNCHANGED <<now, starts, start_clock, trsync, read_time>>
      BY <2>13, Zenon DEF HostState
    <3>2. \A x \in Mcus : Sends(x)  BY <2>13, <1>HostStateSent, Zenon
    <3>3. \A x \in Mcus : Shrunk(to_host[x], to_host'[x])  BY <2>9, <2>13, Zenon DEF HostState
    <3> DEFINE msg == Head(to_host[m])
               status == [last_status EXCEPT ![m] = msg.clock]
               fr == FastReader(m, msg)
    <3>4. msg \in MessageType /\ msg.clock \in Nat /\ msg.clock <= Limit(m)
      <4>1. to_host[m] # <<>> /\ to_host' = [to_host EXCEPT ![m] = Tail(to_host[m])]
        BY <2>13, Zenon DEF HostState
      <4>2. msg \in MessageType  BY <2>1, <4>1, HearOne, Zenon DEF Types
      <4>3. QED  BY <2>13, <4>2, <1>HeardClock, Zenon
    <3>5. last_status' = fr.status  BY <2>13, Zenon DEF HostState
    <3>6. status = [last_status EXCEPT ![m] = msg.clock]  OBVIOUS
    <3> HIDE DEF msg, status
    <3>7. RelayTyped(fr, status)  BY <2>1, <3>4, <3>6, FastReaderFacts, Zenon DEF Types
    <3> HIDE DEF fr
    <3>8. last_status' = last_status \/ last_status' = NoStatus \/ last_status' = status
      BY <3>5, <3>7, Zenon DEF RelayTyped
    <3>9. \A x \in Mcus : status[x] <= Limit(x)
      BY <2>1, <2>2, <3>4, <3>6, Zenon DEF Types, HostTypes
    <3>10. QED  BY <2>2, <3>1, <3>2, <3>3, <3>8, <3>9, <1>HostKeepsStop, Zenon
  <2>14. QED  BY <2>4, <2>5, <2>6, <2>8, <2>10, <2>11, <2>12, <2>13, Zenon
<1>StartWire. ASSUME StopInv, HomeStart, NEW x \in Mcus, ~Off(x)
              PROVE  /\ Cmds(x)' = 1..3
                     /\ to_mcu'[x][1].op = "start" /\ to_mcu'[x][2].op = "stop_on"
                     /\ to_mcu'[x][3].op = "timeout" /\ to_mcu'[x][3].arg = now + Lead + Expire
  <2> USE <1>StartWire
  <2>1. SessionInv  BY Zenon DEF StopInv
  <2>2. /\ to_mcu'[x] = StartCommands(x, now + Lead, starts + 1)
        /\ now + Lead \in Nat /\ starts + 1 \in Session
    BY <2>1, HomeStartWire, Zenon
  <2> DEFINE d == StartCommands(x, now + Lead, starts + 1)
  <2>3. /\ Len(d) = 3
        /\ d[1] = Command("start", now + Lead + Offset[x], starts + 1)
        /\ d[2] = Command("stop_on", 0, starts + 1)
        /\ d[3] = Command("timeout", now + Lead + Expire, starts + 1)
    BY <2>2, StartCommandsFacts, Zenon
  <2> HIDE DEF d
  <2>4. to_mcu'[x] = d  BY <2>2, Zenon DEF d
  <2>5. Cmds(x)' = 1..3  BY <2>3, <2>4, Zenon DEF Cmds
  <2>6. /\ d[1].op = "start" /\ d[2].op = "stop_on" /\ d[3].op = "timeout"
        /\ d[3].arg = now + Lead + Expire
    BY <2>3 DEF Command
  <2>7. QED  BY <2>4, <2>5, <2>6, Zenon
<1>HomeStartStop. ASSUME StopInv, HomeStart
                  PROVE  AllStop'
  <2> USE <1>HomeStartStop
  <2>1. SessionInv /\ Types /\ HostPlace  BY Zenon DEF StopInv, SessionInv
  <2>2. /\ UNCHANGED <<now, trsync, read_time, to_host>> /\ starts' = starts + 1
        /\ start_clock' = now + Lead /\ last_status' = [m \in Mcus |-> now + Lead]
    BY Zenon DEF HomeStart
  <2>3. /\ can_trigger' = can_trigger /\ expire_at' = expire_at /\ signal' = signal
        /\ homing' = homing /\ session' = session /\ triggered_at' = triggered_at
        /\ now' = now /\ read_time' = read_time
    BY <2>2, Zenon DEF trsync
  <2>4. now \in Nat /\ Lead \in Nat /\ Expire \in Nat /\ starts \in Nat
    BY <2>1, TrSyncConstants DEF Types, HostTypes, Session
  <2>5. ASSUME NEW x \in Mcus
        PROVE  /\ Drained(x) /\ Silent(x) /\ Limit(x)' = now + Lead /\ last_status'[x] = now + Lead
               /\ Off(x) => NoCommand(x)'
    <3>1. Drained(x) /\ (Off(x) => to_mcu'[x] = to_mcu[x])  BY <2>1, HomeStartWire, Zenon
    <3>2. session'[x] # starts'
      <4>1. session[x] \in Nat /\ session[x] <= starts
        BY <2>1 DEF Types, McuTypes, Session, HostPlace
      <4>2. QED  BY <2>2, <2>3, <2>4, <4>1
    <3>3. Limit(x)' = Later(now, now + Lead)  BY <2>2, <2>3, <3>2, Zenon DEF Limit
    <3>4. Later(now, now + Lead) = now + Lead  BY <2>4 DEF Later
    <3>5. last_status'[x] = now + Lead  BY <2>2, Zenon
    <3>6. Off(x) => NoCommand(x)'  BY <3>1, Zenon DEF Drained, NoCommand, Cmds
    <3>7. QED  BY <3>1, <3>3, <3>4, <3>5, <3>6, Zenon DEF Drained
  <2>6. ASSUME NEW x \in Mcus PROVE ArmedAt(x)' /\ ClockAt(x)' /\ TimersAt(x)'
    <3>1. ArmedAt(x) /\ TimersAt(x) /\ Drained(x) /\ Silent(x)  BY <2>5, Zenon DEF StopInv
    <3>2. ArmedAt(x)'
      <4>1. (can_trigger[x] = FALSE => signal[x] = FALSE)'  BY <2>3, <3>1, Zenon DEF ArmedAt
      <4>2. CASE Off(x)
        <5>1. NoStart(x)'  BY <2>5, <4>2, Zenon DEF NoCommand, NoStart
        <5>2. QED  BY <4>1, <5>1, ArmedRest, Zenon
      <4>3. CASE ~Off(x)
        <5>1. /\ Cmds(x)' = 1..3 /\ to_mcu'[x][1].op = "start" /\ to_mcu'[x][2].op = "stop_on"
              /\ to_mcu'[x][3].op = "timeout"
          BY <4>3, <1>StartWire, Zenon
        <5>2. StartFirst(x)'
          <6>1. 1 \in 1..3 /\ \A i \in 1..3 : i = 1 \/ i = 2 \/ i = 3  OBVIOUS
          <6>2. "stop_on" # "start" /\ "timeout" # "start" /\ "timeout" # "stop_on"  OBVIOUS
          <6>3. QED  BY <5>1, <6>1, <6>2, Zenon DEF StartFirst
        <5>3. to_mcu'[x][1].op # "stop_on"  BY <5>1
        <5>4. x = EndstopMcu => homing' = FALSE  BY <2>3, <3>1, Zenon DEF Silent
        <5>5. TRUE # FALSE  OBVIOUS
        <5>6. QED  BY <4>1, <5>2, <5>3, <5>4, <5>5, Zenon DEF ArmedAt
      <4>4. QED  BY <4>2, <4>3, Zenon
    <3>3. ClockAt(x)'
      <4>1. last_status'[x] <= Limit(x)'
        <5>1. now + Lead <= now + Lead  BY <2>4
        <5>2. QED  BY <2>5, <5>1, Zenon
      <4>2. "shutdown" # "state"  OBVIOUS
      <4>3. \A i \in Msgs(x)' : to_host'[x][i].op # "state"
        BY <2>2, <3>1, <4>2, Zenon DEF Drained, Msgs
      <4>4. QED  BY <4>1, <4>3, Zenon DEF ClockAt
    <3>4. TimersAt(x)'  BY <2>3, <3>1, Zenon DEF TimersAt
    <3>5. QED  BY <3>2, <3>3, <3>4, Zenon
  <2>7. ASSUME NEW a \in Mcus, NEW b \in Mcus PROVE BoundAt(a, b)'
    <3>1. Limit(a)' = now + Lead /\ expire_at'[b] = Never
      BY <2>3, <2>5, Zenon DEF Silent
    <3>2. \A i \in Cmds(b)' : to_mcu'[b][i].op = "timeout" => to_mcu'[b][i].arg <= now + Lead + Expire
      <4>1. CASE Off(b)  BY <2>5, <4>1, Zenon DEF NoCommand
      <4>2. CASE ~Off(b)
        <5>1. /\ Cmds(b)' = 1..3 /\ to_mcu'[b][1].op = "start" /\ to_mcu'[b][2].op = "stop_on"
              /\ to_mcu'[b][3].arg = now + Lead + Expire
          BY <4>2, <1>StartWire, Zenon
        <5>2. /\ "start" # "timeout" /\ "stop_on" # "timeout" /\ now + Lead + Expire <= now + Lead + Expire
              /\ \A i \in 1..3 : i = 1 \/ i = 2 \/ i = 3
          BY <2>4
        <5>3. QED  BY <5>1, <5>2, Zenon
      <4>3. QED  BY <4>1, <4>2, Zenon
    <3>3. QED  BY <3>1, <3>2, Zenon DEF BoundAt
  <2>8. QED  BY <2>6, <2>7, Zenon DEF AllStop
<1>1. QED  BY <1>HomeStartStop, <1>HostStepStop, Zenon

-----------------------------------------------------------------------------
(* The steps of the micro-controllers *)

\* The other micro-controllers are as they were.
OthersKept(m) ==
    /\ m # EndstopMcu => homing' = homing
    /\ \A x \in Mcus : x # m =>
          /\ to_mcu'[x] = to_mcu[x] /\ to_host'[x] = to_host[x] /\ signal'[x] = signal[x]
          /\ session'[x] = session[x] /\ triggered_at'[x] = triggered_at[x]
          /\ can_trigger'[x] = can_trigger[x] /\ expire_at'[x] = expire_at[x]
          /\ read_time'[x] = read_time[x]

\* The timeout is disarmed or left, or was given by a command.
TimeoutGiven(m) ==
    \/ expire_at'[m] = Never \/ expire_at'[m] = expire_at[m]
    \/ \E j \in Cmds(m) : to_mcu[m][j].op = "timeout" /\ expire_at'[m] = to_mcu[m][j].arg

\* Messages whose clock is not after n
Early(n) == {x \in MessageType : x.op = "state" => x.clock <= n}

\* No state report is among them.
Stateless(msgs) == \A i \in 1..Len(msgs) : msgs[i].op # "state"

\* The bound holds after a step of a micro-controller or of time.
LEMMA McuStops ==
    /\ StopInv /\ Types'
    /\ \/ EndstopHit \/ EndstopHome \/ Tick
       \/ \E m \in Mcus :
             \/ ExpireEvent(m) \/ ReportEvent(m) \/ TaskReadTime(m) \/ TaskReport(m)
             \/ TrsyncStart(m) \/ StopOnTrigger(m) \/ SetTimeout(m)
             \/ TrsyncTrigger(m, "trigger", <<>>) \/ TrsyncTrigger(m, "query", <<AckMessage>>)
             \/ EmergencyStop(m) \/ OtherShutdown(m) \/ CutLink(m)
    => AllStop'
<1>HeadElse. ASSUME NEW m, StartFirst(m), 1 \in Cmds(m), to_mcu[m][1].op # "start",
                    NEW i \in Cmds(m), i # 1
             PROVE  to_mcu[m][i].op # "start" /\ to_mcu[m][i].op # "stop_on"
  BY <1>HeadElse, Zenon DEF StartFirst
\* A command that is no start is taken.
<1>NoStartLeft. ASSUME NEW m, ArmedAt(m), Popped(to_mcu[m], to_mcu'[m]), to_mcu[m][1].op # "start"
                PROVE  NoStart(m)'
  <2> USE <1>NoStartLeft
  <2>1. StartFirst(m) /\ 1 \in Cmds(m)  BY Zenon DEF ArmedAt, Popped, Cmds
  <2>2. ASSUME NEW i \in Cmds(m)' PROVE to_mcu'[m][i].op # "start" /\ to_mcu'[m][i].op # "stop_on"
    <3>1. i + 1 \in Cmds(m) /\ to_mcu'[m][i] = to_mcu[m][i + 1]  BY Zenon DEF Popped, Cmds
    <3>2. i + 1 # 1  BY DEF Cmds
    <3>3. QED  BY <2>1, <3>1, <3>2, <1>HeadElse, Zenon
  <2>3. QED  BY <2>2, Zenon DEF NoStart
\* The start is taken.
<1>ArmedStarted. ASSUME NEW m, ArmedAt(m), Popped(to_mcu[m], to_mcu'[m]), to_mcu[m][1].op = "start",
                        can_trigger'[m] = TRUE, expire_at'[m] = Never, homing' = homing, homing \in BOOLEAN
                 PROVE  ArmedAt(m)'
  <2> USE <1>ArmedStarted
  <2>1. StartFirst(m) /\ 1 \in Cmds(m)  BY Zenon DEF ArmedAt, Popped, Cmds
  <2>2. m = EndstopMcu => homing = FALSE
    <3>1. ~NoStart(m)  BY <2>1, Zenon DEF NoStart
    <3>2. QED  BY <3>1, Zenon DEF ArmedAt
  <2>3. ASSUME NEW i \in Cmds(m)'
        PROVE  to_mcu'[m][i].op # "start" /\ (to_mcu'[m][i].op = "stop_on" => i = 1)
    <3>1. i + 1 \in Cmds(m) /\ to_mcu'[m][i] = to_mcu[m][i + 1]  BY Zenon DEF Popped, Cmds
    <3>2. i \in Int /\ i + 1 # 1 /\ (i + 1 = 2 => i = 1)  BY DEF Cmds
    <3>3. QED  BY <2>1, <3>1, <3>2, Zenon DEF StartFirst
  <2>4. StartFirst(m)'  BY <2>3, Zenon DEF StartFirst
  <2>5. TRUE # FALSE  OBVIOUS
  <2>6. QED  BY <2>2, <2>4, <2>5, Zenon DEF ArmedAt, Registers
<1>LimitGrows. ASSUME Types, NEW m \in Mcus, TimersAt(m), now' = now, starts' = starts,
                      start_clock' = start_clock,
                      \/ /\ session'[m] = session[m]
                         /\ \/ triggered_at'[m] = triggered_at[m]
                            \/ triggered_at[m] = Never /\ triggered_at'[m] = now
                      \/ session'[m] = starts /\ triggered_at'[m] = Never
               PROVE  Limit(m) <= Limit(m)'
  <2> USE <1>LimitGrows
  <2>1. now \in Nat /\ start_clock \in Nat /\ Never \notin Nat
    BY TrSyncConstants, Zenon DEF Types, HostTypes
  <2>2. triggered_at[m] # Never => triggered_at[m] \in Nat /\ triggered_at[m] <= now
    BY Zenon DEF Types, McuTypes, Times, TimersAt
  <2>3. /\ \A x, y, z \in Nat : x <= y => Later(x, z) <= Later(y, z)
        /\ \A x, z \in Nat : Later(x, z) <= Later(x, z)
    BY DEF Later
  <2>4. Limit(m) <= Later(now, start_clock)
    <3>1. CASE session[m] = starts /\ triggered_at[m] # Never  BY <2>1, <2>2, <2>3, <3>1, Zenon DEF Limit
    <3>2. CASE ~(session[m] = starts /\ triggered_at[m] # Never)  BY <2>1, <2>3, <3>2, Zenon DEF Limit
    <3>3. QED  BY <3>1, <3>2, Zenon
  <2>5. CASE Limit(m)' = Later(now, start_clock)  BY <2>4, <2>5, Zenon
  <2>6. CASE session'[m] = session[m] /\ triggered_at'[m] = triggered_at[m]
    <3>1. Limit(m)' = Limit(m)  BY <2>6, Zenon DEF Limit
    <3>2. Limit(m) <= Limit(m)  BY LimitType
    <3>3. QED  BY <3>1, <3>2, Zenon
  <2>7. CASE triggered_at'[m] = now \/ triggered_at'[m] = Never
    <3>1. Limit(m)' = Later(now, start_clock)  BY <2>7, Zenon DEF Limit
    <3>2. QED  BY <2>5, <3>1, Zenon
  <2>8. QED  BY <2>6, <2>7, Zenon
<1>McuKeepsStop. ASSUME StopInv, Types', NEW m \in Mcus, UNCHANGED <<now, python, trdispatch>>, OthersKept(m),
                        Limit(m) <= Limit(m)', ArmedAt(m)', TimersAt(m)', TimeoutGiven(m),
                        \A i \in Msgs(m)' : \/ \E j \in Msgs(m) : to_host'[m][i] = to_host[m][j]
                                            \/ to_host'[m][i].op # "state"
                                            \/ to_host'[m][i].clock <= Limit(m)',
                        \A i \in Cmds(m)' : \E j \in Cmds(m) : to_mcu'[m][i] = to_mcu[m][j]
                 PROVE  AllStop'
  <2> USE <1>McuKeepsStop
  <2>1. Types  BY Zenon DEF StopInv, SessionInv
  <2>2. now' = now /\ starts' = starts /\ start_clock' = start_clock /\ last_status' = last_status
    BY Zenon DEF python, trdispatch
  <2>3. \A x \in Mcus : Limit(x) \in Nat /\ Limit(x)' \in Nat
    <3>1. \A x \in Mcus : Limit(x) \in Nat  BY <2>1, LimitType, Zenon
    <3>2. \A x \in Mcus : Limit(x)' \in Nat  BY LimitTypeNext, Zenon
    <3>3. QED  BY <3>1, <3>2, Zenon
  <2>4. \A x \in Mcus : x # m => Limit(x)' = Limit(x)  BY <2>2, Zenon DEF OthersKept, Limit
  <2>5. \A x \in Mcus : Limit(x) <= Limit(x)'
    <3>1. \A x \in Mcus : Limit(x) <= Limit(x)  BY <2>3
    <3>2. QED  BY <2>4, <3>1, Zenon
  <2>6. ASSUME NEW x \in Mcus, x # m PROVE ArmedAt(x)' /\ ClockAt(x)' /\ TimersAt(x)'
    <3>1. ArmedAt(x) /\ ClockAt(x) /\ TimersAt(x)  BY Zenon DEF StopInv
    <3>2. /\ to_mcu'[x] = to_mcu[x] /\ to_host'[x] = to_host[x] /\ signal'[x] = signal[x]
          /\ triggered_at'[x] = triggered_at[x] /\ read_time'[x] = read_time[x]
          /\ can_trigger'[x] = can_trigger[x] /\ expire_at'[x] = expire_at[x]
          /\ x = EndstopMcu => homing' = homing
      BY <2>6, Zenon DEF OthersKept
    <3>3. ArmedAt(x)'  BY <3>1, <3>2, ZenonT(30) DEF ArmedAt, StartFirst, Registers, NoStart, Cmds
    <3>4. ClockAt(x)'  BY <2>2, <2>4, <2>6, <3>1, <3>2, Zenon DEF ClockAt, Msgs
    <3>5. TimersAt(x)'  BY <2>2, <3>1, <3>2, Zenon DEF TimersAt
    <3>6. QED  BY <3>3, <3>4, <3>5, Zenon
  <2>7. ClockAt(m)'
    <3>1. ClockAt(m)  BY Zenon DEF StopInv
    <3>2. last_status'[m] <= Limit(m)'
      <4>1. last_status[m] \in Nat /\ last_status[m] <= Limit(m)
        BY <2>1, <3>1, Zenon DEF Types, HostTypes, ClockAt
      <4>2. QED  BY <2>2, <2>3, <4>1, LeqTransitive, Zenon
    <3>3. ASSUME NEW i \in Msgs(m)', to_host'[m][i].op = "state"
          PROVE  to_host'[m][i].clock <= Limit(m)'
      <4>1. CASE \E j \in Msgs(m) : to_host'[m][i] = to_host[m][j]
        <5>1. PICK j \in Msgs(m) : to_host'[m][i] = to_host[m][j]  BY <4>1, Zenon
        <5>2. to_host[m][j].clock <= Limit(m)  BY <3>1, <3>3, <5>1, Zenon DEF ClockAt
        <5>3. to_host[m][j].clock \in Nat
          <6>1. to_host[m] \in Seq(MessageType)  BY <2>1, Zenon DEF Types, WireTypes
          <6>2. to_host[m][j] \in MessageType  BY <6>1 DEF Msgs
          <6>3. QED  BY <6>2 DEF MessageType
        <5>4. QED  BY <2>3, <5>1, <5>2, <5>3, LeqTransitive, Zenon
      <4>2. QED  BY <3>3, <4>1, Zenon
    <3>4. QED  BY <3>2, <3>3, Zenon DEF ClockAt
  <2>8. ASSUME NEW a \in Mcus, NEW b \in Mcus, a # b PROVE BoundAt(a, b)'
    <3>1. /\ \A i \in Cmds(b) : to_mcu[b][i].op = "timeout" => to_mcu[b][i].arg <= Limit(a) + Expire
          /\ expire_at[b] # Never => expire_at[b] <= Limit(a) + Expire
      BY <2>8, Zenon DEF StopInv, BoundAt
    <3>2. /\ Limit(a) + Expire \in Nat /\ Limit(a)' + Expire \in Nat
          /\ Limit(a) + Expire <= Limit(a)' + Expire
      <4>1. Expire \in Nat  BY TrSyncConstants, Zenon
      <4>2. QED  BY <2>3, <2>5, <4>1
    <3>3. \A x \in Nat : x <= Limit(a) + Expire => x <= Limit(a)' + Expire
      BY <3>2, LeqTransitive, Zenon
    <3>4. \A i \in Cmds(b)' : \E j \in Cmds(b) : to_mcu'[b][i] = to_mcu[b][j]
      <4>1. CASE b = m  BY <4>1, Zenon
      <4>2. CASE b # m
        <5>1. to_mcu'[b] = to_mcu[b]  BY <4>2, Zenon DEF OthersKept
        <5>2. QED  BY <5>1, Zenon DEF Cmds
      <4>3. QED  BY <4>1, <4>2, Zenon
    <3>5. \A j \in Cmds(b) : to_mcu[b][j].op = "timeout" => to_mcu[b][j].arg \in Nat
      <4>1. to_mcu[b] \in Seq(Commands)  BY <2>1, Zenon DEF Types, WireTypes
      <4>2. \A j \in Cmds(b) : to_mcu[b][j] \in Commands  BY <4>1 DEF Cmds
      <4>3. QED  BY <4>2, CommandArg, Zenon
    <3>6. ASSUME NEW i \in Cmds(b)', to_mcu'[b][i].op = "timeout"
          PROVE  to_mcu'[b][i].arg <= Limit(a)' + Expire
      <4>1. PICK j \in Cmds(b) : to_mcu'[b][i] = to_mcu[b][j]  BY <3>4, Zenon
      <4>2. QED  BY <3>1, <3>3, <3>5, <3>6, <4>1, Zenon
    <3>7. expire_at'[b] # Never => expire_at'[b] <= Limit(a)' + Expire
      <4>1. expire_at[b] # Never => expire_at[b] \in Nat  BY <2>1, Zenon DEF Types, McuTypes, Times
      <4>2. CASE expire_at'[b] = expire_at[b]  BY <3>1, <3>3, <4>1, <4>2, Zenon
      <4>3. CASE expire_at'[b] # expire_at[b]
        <5>1. b = m  BY <4>3, Zenon DEF OthersKept
        <5>2. CASE expire_at'[b] = Never  BY <5>2, Zenon
        <5>3. CASE \E j \in Cmds(b) : to_mcu[b][j].op = "timeout" /\ expire_at'[b] = to_mcu[b][j].arg
          BY <3>1, <3>3, <3>5, <5>3, Zenon
        <5>4. QED  BY <4>3, <5>1, <5>2, <5>3, Zenon DEF TimeoutGiven
      <4>4. QED  BY <4>2, <4>3, Zenon
    <3>8. QED  BY <3>6, <3>7, Zenon DEF BoundAt
  <2>9. ASSUME NEW x \in Mcus PROVE ArmedAt(x)' /\ ClockAt(x)' /\ TimersAt(x)'
    BY <2>6, <2>7, Zenon
  <2>10. ASSUME NEW a \in Mcus, NEW b \in Mcus PROVE BoundAt(a, b)'
    BY <2>8, Zenon DEF BoundAt
  <2>11. QED  BY <2>9, <2>10, Zenon DEF AllStop
\* ShutdownMcu
<1>ShutdownStop. ASSUME StopInv, Types', NEW m \in Mcus, ShutdownMcu(m), UNCHANGED <<now, python, trdispatch>>
                 PROVE  AllStop'
  <2> USE <1>ShutdownStop
  <2>1. Types /\ TimersAt(m)  BY Zenon DEF StopInv, SessionInv
  <2>2. /\ can_trigger' = [can_trigger EXCEPT ![m] = FALSE]
        /\ expire_at' = [expire_at EXCEPT ![m] = Never]
        /\ signal' = [signal EXCEPT ![m] = FALSE]
        /\ homing' = (homing /\ m # EndstopMcu)
        /\ read_time' = [read_time EXCEPT ![m] = Never]
        /\ triggered_at' = [triggered_at EXCEPT ![m] = IF @ = Never THEN now ELSE @]
        /\ to_mcu' = [to_mcu EXCEPT ![m] = <<>>]
        /\ to_host' = [to_host EXCEPT ![m] = SendHost(m, <<ShutdownMessage>>)]
        /\ session' = session
    BY Zenon DEF ShutdownMcu
  <2>3. now' = now /\ starts' = starts /\ start_clock' = start_clock  BY Zenon DEF python
  <2>4. /\ can_trigger'[m] = FALSE /\ expire_at'[m] = Never /\ signal'[m] = FALSE
        /\ read_time'[m] = Never /\ to_mcu'[m] = <<>>
        /\ to_host'[m] = SendHost(m, <<ShutdownMessage>>)
        /\ triggered_at'[m] = IF triggered_at[m] = Never THEN now ELSE triggered_at[m]
    <3>1. /\ can_trigger'[m] = FALSE /\ expire_at'[m] = Never /\ signal'[m] = FALSE
          /\ read_time'[m] = Never
      BY <2>1, <2>2, Zenon DEF Types, McuTypes
    <3>2. to_mcu'[m] = <<>> /\ to_host'[m] = SendHost(m, <<ShutdownMessage>>)
      BY <2>1, <2>2, Zenon DEF Types, WireTypes
    <3>3. triggered_at'[m] = IF triggered_at[m] = Never THEN now ELSE triggered_at[m]
      BY <2>1, <2>2, Zenon DEF Types, McuTypes
    <3>4. QED  BY <3>1, <3>2, <3>3, Zenon
  <2>5. homing \in BOOLEAN  BY <2>1, Zenon DEF Types, McuTypes
  <2>6. OthersKept(m)
    <3>1. m # EndstopMcu => homing' = homing  BY <2>2, <2>5, Zenon
    <3>2. QED  BY <2>1, <2>2, <3>1, Zenon DEF OthersKept, Types, WireTypes, McuTypes
  <2>7. Limit(m) <= Limit(m)'  BY <2>1, <2>2, <2>3, <2>4, <1>LimitGrows, Zenon
  <2>8. \A i \in Cmds(m)' : FALSE
    <3>1. \A i \in 1..Len(<<>>) : FALSE  OBVIOUS
    <3>2. QED  BY <2>4, <3>1, Zenon DEF Cmds
  <2>9. ArmedAt(m)'  BY <2>4, <2>8, ArmedRest, Zenon DEF NoStart
  <2>10. TimersAt(m)'
    <3>1. triggered_at'[m] # Never => triggered_at'[m] <= now
      <4>1. now <= now  BY <2>1 DEF Types, HostTypes
      <4>2. QED  BY <2>1, <2>4, <4>1, Zenon DEF TimersAt
    <3>2. QED  BY <2>3, <2>4, <3>1, Zenon DEF TimersAt
  <2>11. ASSUME NEW i \in Msgs(m)'
         PROVE  (\E j \in Msgs(m) : to_host'[m][i] = to_host[m][j]) \/ to_host'[m][i].op # "state"
    <3>1. to_host[m] \in Seq(MessageType)  BY <2>1, Zenon DEF Types, WireTypes
    <3>2. CASE to_host'[m] = to_host[m]  BY <3>2, Zenon DEF Msgs
    <3>3. CASE to_host'[m] = to_host[m] \o <<ShutdownMessage>>
      <4>1. ShutdownMessage.op # "state"  BY DEF ShutdownMessage, AckMessage
      <4>2. CASE i \in 1..Len(to_host[m])
        <5>1. to_host'[m][i] = to_host[m][i]  BY <3>1, <3>3, <4>2
        <5>2. QED  BY <4>2, <5>1, Zenon DEF Msgs
      <4>3. CASE i \notin 1..Len(to_host[m])
        <5>1. to_host'[m][i] = ShutdownMessage  BY <3>1, <3>3, <4>3 DEF Msgs
        <5>2. QED  BY <4>1, <5>1, Zenon
      <4>4. QED  BY <4>2, <4>3, Zenon
    <3>4. QED  BY <2>4, <3>2, <3>3, Zenon DEF SendHost
  <2>12. TimeoutGiven(m)  BY <2>4, Zenon DEF TimeoutGiven
  <2>13. QED  BY <2>6, <2>7, <2>8, <2>9, <2>10, <2>11, <2>12, <1>McuKeepsStop, Zenon
\* trsync_do_trigger stops the stepper.
<1>DoTriggerFacts. ASSUME StopInv, NEW m \in Mcus, NEW reason, DoTrigger(m, reason), now' = now,
                          session' = session, starts' = starts, start_clock' = start_clock
                   PROVE  /\ can_trigger'[m] = FALSE /\ signal'[m] = FALSE /\ Limit(m) <= Limit(m)'
                          /\ triggered_at'[m] # Never => triggered_at'[m] <= now
                          /\ \A x \in Mcus : x # m => /\ can_trigger'[x] = can_trigger[x] /\ signal'[x] = signal[x]
                                                      /\ triggered_at'[x] = triggered_at[x]
  <2> USE <1>DoTriggerFacts
  <2>1. Types /\ ArmedAt(m) /\ TimersAt(m)  BY Zenon DEF StopInv, SessionInv
  <2>2. /\ can_trigger' = [can_trigger EXCEPT ![m] = FALSE]
        /\ signal' = [signal EXCEPT ![m] = IF can_trigger[m] THEN FALSE ELSE @]
        /\ triggered_at' = [triggered_at EXCEPT ![m] = IF can_trigger[m] THEN now ELSE @]
    BY Zenon DEF DoTrigger
  <2>3. /\ can_trigger'[m] = FALSE
        /\ signal'[m] = IF can_trigger[m] THEN FALSE ELSE signal[m]
        /\ triggered_at'[m] = IF can_trigger[m] THEN now ELSE triggered_at[m]
        /\ can_trigger[m] \in BOOLEAN
        /\ \A x \in Mcus : x # m => /\ can_trigger'[x] = can_trigger[x] /\ signal'[x] = signal[x]
                                    /\ triggered_at'[x] = triggered_at[x]
    BY <2>1, <2>2, Zenon DEF Types, McuTypes
  <2>4. signal'[m] = FALSE  BY <2>1, <2>3, Zenon DEF ArmedAt
  <2>5. triggered_at'[m] = triggered_at[m] \/ (triggered_at[m] = Never /\ triggered_at'[m] = now)
    BY <2>1, <2>3, Zenon DEF TimersAt
  <2>6. triggered_at'[m] # Never => triggered_at'[m] <= now
    <3>1. now <= now  BY <2>1 DEF Types, HostTypes
    <3>2. QED  BY <2>1, <2>5, <3>1, Zenon DEF TimersAt
  <2>7. session'[m] = session[m]  BY Zenon
  <2>8. Limit(m) <= Limit(m)'  BY <2>1, <2>5, <2>7, <1>LimitGrows, Zenon
  <2>9. QED  BY <2>3, <2>4, <2>6, <2>8, Zenon
\* The timers and the reading of the time, which use no message
<1>EventStop. ASSUME StopInv, Types', NEW m \in Mcus,
                     \/ ExpireEvent(m) \/ ReportEvent(m) \/ TaskReadTime(m)
                     \/ m = EndstopMcu /\ EndstopHit
              PROVE  AllStop'
  <2> USE <1>EventStop
  <2>1. Types /\ ArmedAt(m) /\ TimersAt(m)  BY Zenon DEF StopInv, SessionInv
  <2>2. UNCHANGED <<now, python, trdispatch, to_mcu, to_host, session>>
    BY Zenon DEF ExpireEvent, ReportEvent, TaskReadTime, EndstopHit, trsync
  <2>3. starts' = starts /\ start_clock' = start_clock  BY <2>2, Zenon DEF python
  <2>4. /\ \A i \in Msgs(m)' : \E j \in Msgs(m) : to_host'[m][i] = to_host[m][j]
        /\ \A i \in Cmds(m)' : \E j \in Cmds(m) : to_mcu'[m][i] = to_mcu[m][j]
    BY <2>2, Zenon DEF Msgs, Cmds
  <2>5. SUFFICES OthersKept(m) /\ Limit(m) <= Limit(m)' /\ ArmedAt(m)' /\ TimersAt(m)' /\ TimeoutGiven(m)
    BY <2>2, <2>4, <1>McuKeepsStop, Zenon
  <2>6. CASE ExpireEvent(m)
    <3>1. /\ expire_at' = [expire_at EXCEPT ![m] = Never] /\ DoTrigger(m, COMMS_TIMEOUT)
          /\ homing' = homing /\ read_time' = read_time /\ expire_at[m] # Never
      BY <2>6, Zenon DEF ExpireEvent
    <3>2. /\ expire_at'[m] = Never
          /\ \A x \in Mcus : x # m => expire_at'[x] = expire_at[x]
      BY <2>1, <3>1, Zenon DEF Types, McuTypes
    <3>3. /\ can_trigger'[m] = FALSE /\ signal'[m] = FALSE /\ Limit(m) <= Limit(m)'
          /\ triggered_at'[m] # Never => triggered_at'[m] <= now
          /\ \A x \in Mcus : x # m => /\ can_trigger'[x] = can_trigger[x] /\ signal'[x] = signal[x]
                                      /\ triggered_at'[x] = triggered_at[x]
      BY <2>2, <2>3, <3>1, <1>DoTriggerFacts, Zenon
    <3>4. OthersKept(m)  BY <2>2, <3>1, <3>2, <3>3, Zenon DEF OthersKept
    <3>5. ArmedAt(m)'
      BY <2>1, <2>2, <3>1, <3>3, Zenon DEF ArmedAt, StartFirst, NoStart, Registers, Cmds
    <3>6. TimersAt(m)'  BY <2>1, <2>2, <3>1, <3>2, <3>3, Zenon DEF TimersAt
    <3>7. QED  BY <3>2, <3>3, <3>4, <3>5, <3>6, Zenon DEF TimeoutGiven
  <2>7. CASE m = EndstopMcu /\ EndstopHit
    <3>1. /\ expire_at' = expire_at /\ DoTrigger(m, ENDSTOP_HIT)
          /\ homing' = FALSE /\ read_time' = read_time /\ homing
      BY <2>7, Zenon DEF EndstopHit
    <3>2. homing = TRUE  BY <2>1, <3>1, Zenon DEF Types, McuTypes
    <3>3. /\ can_trigger'[m] = FALSE /\ signal'[m] = FALSE /\ Limit(m) <= Limit(m)'
          /\ triggered_at'[m] # Never => triggered_at'[m] <= now
          /\ \A x \in Mcus : x # m => /\ can_trigger'[x] = can_trigger[x] /\ signal'[x] = signal[x]
                                      /\ triggered_at'[x] = triggered_at[x]
      BY <2>2, <2>3, <3>1, <1>DoTriggerFacts, Zenon
    <3>4. OthersKept(m)  BY <2>2, <2>7, <3>1, <3>3, Zenon DEF OthersKept
    <3>5. ArmedAt(m)'
      <4>1. NoStart(m)'  BY <2>1, <2>2, <2>7, <3>2, Zenon DEF ArmedAt, NoStart, Cmds
      <4>2. QED  BY <3>3, <4>1, ArmedRest, Zenon
    <3>6. TimersAt(m)'  BY <2>1, <2>2, <3>1, <3>3, Zenon DEF TimersAt
    <3>7. QED  BY <3>1, <3>3, <3>4, <3>5, <3>6, Zenon DEF TimeoutGiven
  <2>8. CASE ReportEvent(m) \/ TaskReadTime(m)
    <3>1. /\ can_trigger' = can_trigger /\ expire_at' = expire_at /\ signal' = signal
          /\ homing' = homing /\ triggered_at' = triggered_at
          /\ read_time' = read_time \/ read_time' = [read_time EXCEPT ![m] = now]
      BY <2>8, Zenon DEF ReportEvent, TaskReadTime, trsync
    <3>2. /\ read_time'[m] = read_time[m] \/ read_time'[m] = now
          /\ \A x \in Mcus : x # m => read_time'[x] = read_time[x]
      BY <2>1, <3>1, Zenon DEF Types, McuTypes
    <3>3. OthersKept(m)  BY <2>2, <3>1, <3>2, Zenon DEF OthersKept
    <3>4. session'[m] = session[m] /\ triggered_at'[m] = triggered_at[m] /\ now' = now
      BY <2>2, <3>1, Zenon
    <3>5. Limit(m) <= Limit(m)'  BY <2>1, <2>3, <3>4, <1>LimitGrows, Zenon
    <3>6. ArmedAt(m)'  BY <2>1, <2>2, <3>1, Zenon DEF ArmedAt, StartFirst, NoStart, Registers, Cmds
    <3>7. TimersAt(m)'
      <4>1. now <= now  BY <2>1 DEF Types, HostTypes
      <4>2. read_time'[m] # Never => read_time'[m] <= now  BY <2>1, <3>2, <4>1, Zenon DEF TimersAt
      <4>3. QED  BY <2>1, <2>2, <3>1, <4>2, Zenon DEF TimersAt
    <3>8. QED  BY <3>1, <3>3, <3>5, <3>6, <3>7, Zenon DEF TimeoutGiven
  <2>9. QED  BY <2>6, <2>7, <2>8, Zenon
<1>EarlyHeard. ASSUME NEW m, NEW n, Extended(to_host[m], to_host'[m], Early(n)), NEW i \in Msgs(m)'
               PROVE  \/ \E j \in Msgs(m) : to_host'[m][i] = to_host[m][j]
                      \/ to_host'[m][i].op # "state"
                      \/ to_host'[m][i].clock <= n
  BY <1>EarlyHeard, Zenon DEF Extended, Msgs, Early
<1>EarlyReport. ASSUME NEW m, NEW can, NEW reason, NEW clock, NEW n, State(m, can, reason, clock) \in MessageType,
                       IF can THEN clock <= n ELSE 0 <= n
                PROVE  State(m, can, reason, clock) \in Early(n)
  <2> USE <1>EarlyReport
  <2>1. State(m, can, reason, clock).clock = IF can THEN clock ELSE 0  BY DEF State
  <2>2. QED  BY <2>1, Zenon DEF Early
<1>TaskReportStop. ASSUME StopInv, Types', NEW m \in Mcus, TaskReport(m)
                   PROVE  AllStop'
  <2> USE <1>TaskReportStop
  <2>1. Types /\ ArmedAt(m) /\ TimersAt(m) /\ TalkAt(m)  BY Zenon DEF StopInv, SessionInv
  <2>2. /\ UNCHANGED <<now, python, trdispatch, to_mcu>> /\ can_trigger' = can_trigger
        /\ expire_at' = expire_at /\ signal' = signal /\ homing' = homing
        /\ session' = session /\ triggered_at' = triggered_at
        /\ read_time' = [read_time EXCEPT ![m] = Never] /\ read_time[m] # Never
    BY Zenon DEF TaskReport
  <2>3. /\ read_time'[m] = Never
        /\ \A x \in Mcus : x # m => read_time'[x] = read_time[x]
    BY <2>1, <2>2, Zenon DEF Types, McuTypes
  <2>4. starts' = starts /\ start_clock' = start_clock /\ now' = now
        /\ session'[m] = session[m] /\ triggered_at'[m] = triggered_at[m]
    BY <2>2, Zenon DEF python
  <2>5. Limit(m) <= Limit(m)'  BY <2>1, <2>4, <1>LimitGrows, Zenon
  <2>6. session[m] = starts  BY <2>1, <2>2, Zenon DEF Silent, TalkAt, Unstarted
  <2> DEFINE msg == State(m, can_trigger[m], trigger_reason[m], ReportClock(m))
  <2>7. msg \in MessageType /\ msg \in Early(Limit(m)')
    <3>1. can_trigger[m] \in BOOLEAN /\ trigger_reason[m] \in Reason
      BY <2>1, Zenon DEF Types, McuTypes
    <3>2. ReportClock(m) \in Nat /\ ReportClock(m) <= now
      <4>1. read_time[m] \in Times /\ read_time[m] <= now
        BY <2>1, <2>2, Zenon DEF Types, McuTypes, TimersAt
      <4>2. QED  BY <2>2, <4>1, Zenon DEF Times, ReportClock
    <3>3. msg \in MessageType  BY <2>1, <2>6, <3>1, <3>2, StateMessage, Zenon
    <3>4. Limit(m)' \in Nat  BY LimitTypeNext, Zenon
    <3>5. can_trigger[m] = TRUE => ReportClock(m) <= Limit(m)'
      <4>1. SUFFICES ASSUME can_trigger[m] = TRUE PROVE ReportClock(m) <= Limit(m)'  BY Zenon
      <4>2. Limit(m)' = Later(now, start_clock)  BY <2>1, <2>4, <4>1, Zenon DEF Limit, TimersAt
      <4>3. now \in Nat /\ start_clock \in Nat  BY <2>1, Zenon DEF Types, HostTypes
      <4>4. \A x, y, z \in Nat : x <= y => x <= Later(y, z)  BY DEF Later
      <4>5. QED  BY <3>2, <4>2, <4>3, <4>4, Zenon
    <3>6. 0 <= Limit(m)'  BY <3>4
    <3>7. QED  BY <3>1, <3>3, <3>5, <3>6, <1>EarlyReport, Zenon
  <2>8. Sendf(m, msg, <<>>)  BY Zenon DEF TaskReport
  <2> HIDE DEF msg
  <2>9. /\ Extended(to_host[m], to_host'[m], Early(Limit(m)'))
        /\ \A x \in Mcus : x # m => to_host'[x] = to_host[x]
    <3>1. <<>> \in Seq(MessageType) /\ \A i \in 1..Len(<<>>) : <<>>[i] \in Early(Limit(m)')  OBVIOUS
    <3>2. QED  BY <2>1, <2>7, <2>8, <3>1, SendfFacts, Zenon DEF Types
  <2>10. OthersKept(m)  BY <2>2, <2>3, <2>9, Zenon DEF OthersKept
  <2>11. ArmedAt(m)'  BY <2>1, <2>2, Zenon DEF ArmedAt, StartFirst, NoStart, Registers, Cmds
  <2>12. TimersAt(m)'  BY <2>1, <2>2, <2>3, Zenon DEF TimersAt
  <2>13. TimeoutGiven(m)  BY <2>2, Zenon DEF TimeoutGiven
  <2>14. \A i \in Cmds(m)' : \E j \in Cmds(m) : to_mcu'[m][i] = to_mcu[m][j]
    BY <2>2, Zenon DEF Cmds
  <2>15. ASSUME NEW i \in Msgs(m)'
         PROVE  \/ \E j \in Msgs(m) : to_host'[m][i] = to_host[m][j]
                \/ to_host'[m][i].op # "state"
                \/ to_host'[m][i].clock <= Limit(m)'
    BY <2>9, <1>EarlyHeard, Zenon
  <2>16. QED  BY <2>2, <2>5, <2>10, <2>11, <2>12, <2>13, <2>14, <2>15, <1>McuKeepsStop, Zenon
\* A command that is no start is taken and the stepper is stopped.
<1>TriggerStop. ASSUME StopInv, Types', NEW m \in Mcus, NEW op \in {"trigger", "query"},
                       NEW rest \in Seq(MessageType), Stateless(rest),
                       TrsyncTrigger(m, op, rest)
                PROVE  AllStop'
  <2> USE <1>TriggerStop
  <2>1. SessionInv /\ Types /\ ArmedAt(m) /\ TimersAt(m)  BY Zenon DEF StopInv, SessionInv
  <2>2. Receives(m, op) /\ Taken(m) /\ DoTrigger(m, Arg(m))  BY Zenon DEF TrsyncTrigger
  <2>3. op # "start"  OBVIOUS
  <2>4. /\ to_mcu[m][1].op = op /\ Arg(m) = to_mcu[m][1].arg /\ to_mcu[m][1] \in Commands
        /\ session[m] = starts /\ Popped(to_mcu[m], to_mcu'[m])
        /\ \A x \in Mcus : x # m => to_mcu'[x] = to_mcu[x]
    BY <2>1, <2>2, <2>3, TakenFacts, Zenon
  <2>5. UNCHANGED <<now, python, trdispatch>>  BY <2>2, Zenon DEF Receives
  <2>6. now' = now /\ starts' = starts /\ start_clock' = start_clock  BY <2>5, Zenon DEF python
  <2>7. /\ homing' = homing /\ session' = session /\ read_time' = read_time
        /\ expire_at' = [expire_at EXCEPT ![m] = Never]
    BY Zenon DEF TrsyncTrigger
  <2>8. /\ expire_at'[m] = Never
        /\ \A x \in Mcus : x # m => expire_at'[x] = expire_at[x]
    BY <2>1, <2>7, Zenon DEF Types, McuTypes
  <2>9. /\ can_trigger'[m] = FALSE /\ signal'[m] = FALSE /\ Limit(m) <= Limit(m)'
        /\ triggered_at'[m] # Never => triggered_at'[m] <= now
        /\ \A x \in Mcus : x # m => /\ can_trigger'[x] = can_trigger[x] /\ signal'[x] = signal[x]
                                    /\ triggered_at'[x] = triggered_at[x]
    BY <2>2, <2>6, <2>7, <1>DoTriggerFacts, Zenon
  <2>10. Arg(m) \in Reason
    <3>1. \A c \in Commands : c.op \in {"trigger", "query"} => c.arg \in Reason
      BY DEF Commands, Reason, NoReason, COMMS_TIMEOUT, HOST_REQUEST, PAST_END_TIME
    <3>2. QED  BY <2>4, <3>1, Zenon
  <2> DEFINE reason == IF can_trigger[m] THEN Arg(m) ELSE trigger_reason[m]
             msg == State(m, FALSE, reason, 0)
  <2>11. reason \in Reason  BY <2>1, <2>10, Zenon DEF Types, McuTypes
  <2> HIDE DEF reason
  <2>12. msg \in MessageType /\ msg \in Early(Limit(m)')
    <3>1. msg \in MessageType  BY <2>1, <2>4, <2>11, StateMessage, Zenon
    <3>2. Limit(m)' \in Nat  BY LimitTypeNext, Zenon
    <3>3. 0 <= Limit(m)'  BY <3>2
    <3>4. QED  BY <3>1, <3>3, <1>EarlyReport, Zenon
  <2>13. Sendf(m, msg, rest)  BY Zenon DEF TrsyncTrigger, reason
  <2> HIDE DEF msg
  <2>14. /\ Extended(to_host[m], to_host'[m], Early(Limit(m)'))
         /\ \A x \in Mcus : x # m => to_host'[x] = to_host[x]
    <3>1. \A i \in 1..Len(rest) : rest[i] \in Early(Limit(m)')
      <4>1. \A i \in 1..Len(rest) : rest[i] \in MessageType  OBVIOUS
      <4>2. QED  BY <4>1, Zenon DEF Early, Stateless
    <3>2. QED  BY <2>1, <2>12, <2>13, <3>1, SendfFacts, Zenon DEF Types
  <2>15. OthersKept(m)  BY <2>4, <2>7, <2>8, <2>9, <2>14, Zenon DEF OthersKept
  <2>16. ArmedAt(m)'
    <3>1. NoStart(m)'  BY <2>1, <2>3, <2>4, <1>NoStartLeft, Zenon
    <3>2. QED  BY <2>9, <3>1, ArmedRest, Zenon
  <2>17. TimersAt(m)'  BY <2>1, <2>6, <2>7, <2>8, <2>9, Zenon DEF TimersAt
  <2>18. TimeoutGiven(m)  BY <2>8, Zenon DEF TimeoutGiven
  <2>19. \A i \in Cmds(m)' : \E j \in Cmds(m) : to_mcu'[m][i] = to_mcu[m][j]
    BY <2>4, Zenon DEF Cmds, Popped
  <2>20. ASSUME NEW i \in Msgs(m)'
         PROVE  \/ \E j \in Msgs(m) : to_host'[m][i] = to_host[m][j]
                \/ to_host'[m][i].op # "state"
                \/ to_host'[m][i].clock <= Limit(m)'
    BY <2>14, <1>EarlyHeard, ZenonT(30)
  <2>21. QED  BY <2>5, <2>9, <2>15, <2>16, <2>17, <2>18, <2>19, <2>20, <1>McuKeepsStop, ZenonT(30)
\* The commands that report nothing
<1>CommandStop. ASSUME StopInv, Types', NEW m \in Mcus,
                       \/ TrsyncStart(m) \/ StopOnTrigger(m) \/ SetTimeout(m)
                       \/ m = EndstopMcu /\ EndstopHome
                       \/ EmergencyStop(m) \/ OtherShutdown(m)
                PROVE  AllStop'
  <2> USE <1>CommandStop
  <2>1. SessionInv /\ Types /\ ArmedAt(m) /\ TimersAt(m)  BY Zenon DEF StopInv, SessionInv
  <2>2. UNCHANGED <<now, python, trdispatch>>
    BY Zenon DEF TrsyncStart, StopOnTrigger, SetTimeout, EndstopHome, EmergencyStop, OtherShutdown,
                 Receives
  <2>3. now' = now /\ starts' = starts /\ start_clock' = start_clock  BY <2>2, Zenon DEF python
  <2>4. CASE ShutdownMcu(m)  BY <2>2, <2>4, <1>ShutdownStop, Zenon
  <2>5. ASSUME NEW op, Receives(m, op), Taken(m), to_host' = to_host, read_time' = read_time,
               Limit(m) <= Limit(m)', ArmedAt(m)', TimersAt(m)', TimeoutGiven(m),
               m # EndstopMcu => homing' = homing,
               \A x \in Mcus : x # m => /\ signal'[x] = signal[x] /\ session'[x] = session[x]
                                        /\ triggered_at'[x] = triggered_at[x]
                                        /\ can_trigger'[x] = can_trigger[x]
                                        /\ expire_at'[x] = expire_at[x]
        PROVE  AllStop'
    <3>1. /\ Popped(to_mcu[m], to_mcu'[m])
          /\ \A x \in Mcus : x # m => to_mcu'[x] = to_mcu[x]
      BY <2>1, <2>5, TakenFacts, Zenon
    <3>2. OthersKept(m)  BY <2>5, <3>1, Zenon DEF OthersKept
    <3>3. \A i \in Cmds(m)' : \E j \in Cmds(m) : to_mcu'[m][i] = to_mcu[m][j]
      BY <3>1, Zenon DEF Cmds, Popped
    <3>4. \A i \in Msgs(m)' : \E j \in Msgs(m) : to_host'[m][i] = to_host[m][j]
      BY <2>5, Zenon DEF Msgs
    <3>5. QED  BY <2>2, <2>5, <3>2, <3>3, <3>4, <1>McuKeepsStop, Zenon
  <2>6. CASE TrsyncStart(m) /\ ~ShutdownMcu(m)
    <3>1. /\ Receives(m, "start") /\ Taken(m) /\ to_host' = to_host /\ read_time' = read_time
          /\ homing' = homing
      BY <2>6, Zenon DEF TrsyncStart
    <3>2. /\ can_trigger' = [can_trigger EXCEPT ![m] = TRUE]
          /\ expire_at' = [expire_at EXCEPT ![m] = Never]
          /\ signal' = [signal EXCEPT ![m] = FALSE]
          /\ session' = [session EXCEPT ![m] = Of(m)]
          /\ triggered_at' = [triggered_at EXCEPT ![m] = Never]
      BY <2>6, Zenon DEF TrsyncStart
    <3>3. /\ can_trigger'[m] = TRUE /\ expire_at'[m] = Never /\ signal'[m] = FALSE
          /\ session'[m] = Of(m) /\ triggered_at'[m] = Never
          /\ \A x \in Mcus : x # m => /\ signal'[x] = signal[x] /\ session'[x] = session[x]
                                      /\ triggered_at'[x] = triggered_at[x]
                                      /\ can_trigger'[x] = can_trigger[x]
                                      /\ expire_at'[x] = expire_at[x]
      BY <2>1, <3>2, Zenon DEF Types, McuTypes
    <3>4. Popped(to_mcu[m], to_mcu'[m]) /\ to_mcu[m][1].op = "start" /\ Of(m) = starts
      BY <2>1, <3>1, TakenFacts, Zenon
    <3>5. Limit(m) <= Limit(m)'  BY <2>1, <2>3, <3>3, <3>4, <1>LimitGrows, Zenon
    <3>6. ArmedAt(m)'
      <4>1. homing \in BOOLEAN  BY <2>1, Zenon DEF Types, McuTypes
      <4>2. QED  BY <2>1, <3>1, <3>3, <3>4, <4>1, <1>ArmedStarted, Zenon
    <3>7. TimersAt(m)'  BY <2>1, <2>3, <3>1, <3>3, Zenon DEF TimersAt
    <3>8. QED  BY <2>5, <3>1, <3>3, <3>5, <3>6, <3>7, Zenon DEF TimeoutGiven
  <2>7. CASE StopOnTrigger(m) /\ ~ShutdownMcu(m)
    <3>1. /\ Receives(m, "stop_on") /\ Taken(m) /\ to_host' = to_host /\ read_time' = read_time
          /\ homing' = homing /\ signal' = [signal EXCEPT ![m] = TRUE]
          /\ can_trigger' = can_trigger /\ expire_at' = expire_at
          /\ session' = session /\ triggered_at' = triggered_at
      BY <2>7, Zenon DEF StopOnTrigger
    <3>2. "stop_on" # "start"  OBVIOUS
    <3>3. Popped(to_mcu[m], to_mcu'[m]) /\ to_mcu[m][1].op = "stop_on" /\ 1 \in Cmds(m)
      BY <2>1, <3>1, TakenFacts, Zenon
    <3>4. session'[m] = session[m] /\ triggered_at'[m] = triggered_at[m]  BY <3>1, Zenon
    <3>5. Limit(m) <= Limit(m)'  BY <2>1, <2>3, <3>4, <1>LimitGrows, Zenon
    <3>6. ArmedAt(m)'
      <4>1. NoStart(m)'  BY <2>1, <3>2, <3>3, <1>NoStartLeft, Zenon
      <4>2. can_trigger'[m] = TRUE  BY <2>1, <3>1, <3>3, Zenon DEF ArmedAt, Registers
      <4>3. can_trigger'[m] # FALSE  BY <4>2, Zenon
      <4>4. QED  BY <4>1, <4>3, ArmedRest, Zenon
    <3>7. TimersAt(m)'  BY <2>1, <2>3, <3>1, Zenon DEF TimersAt
    <3>8. \A x \in Mcus : x # m => signal'[x] = signal[x]  BY <2>1, <3>1, Zenon DEF Types, McuTypes
    <3>9. TimeoutGiven(m)  BY <3>1, Zenon DEF TimeoutGiven
    <3>10. QED  BY <2>5, <3>1, <3>5, <3>6, <3>7, <3>8, <3>9, ZenonT(30)
  <2>8. CASE SetTimeout(m) /\ ~ShutdownMcu(m)
    <3>1. /\ Receives(m, "timeout") /\ Taken(m) /\ to_host' = to_host /\ read_time' = read_time
          /\ homing' = homing /\ signal' = signal /\ can_trigger' = can_trigger
          /\ expire_at' = [expire_at EXCEPT ![m] = IF can_trigger[m] THEN Arg(m) ELSE @]
          /\ session' = session /\ triggered_at' = triggered_at
          /\ can_trigger[m] => ~TooClose(Arg(m))
      BY <2>8, Zenon DEF SetTimeout
    <3>2. "timeout" # "start"  OBVIOUS
    <3>3. /\ Popped(to_mcu[m], to_mcu'[m]) /\ to_mcu[m][1].op = "timeout" /\ 1 \in Cmds(m)
          /\ Arg(m) = to_mcu[m][1].arg /\ to_mcu[m][1] \in Commands
      BY <2>1, <3>1, TakenFacts, Zenon
    <3>4. session'[m] = session[m] /\ triggered_at'[m] = triggered_at[m]  BY <3>1, Zenon
    <3>5. Limit(m) <= Limit(m)'  BY <2>1, <2>3, <3>4, <1>LimitGrows, Zenon
    <3>6. ArmedAt(m)'
      <4>1. NoStart(m)'  BY <2>1, <3>2, <3>3, <1>NoStartLeft, Zenon
      <4>2. QED  BY <2>1, <3>1, <4>1, ArmedRest, Zenon DEF ArmedAt
    <3>7. /\ expire_at'[m] = IF can_trigger[m] THEN Arg(m) ELSE expire_at[m]
          /\ \A x \in Mcus : x # m => expire_at'[x] = expire_at[x]
      BY <2>1, <3>1, Zenon DEF Types, McuTypes
    <3>8. TimersAt(m)'
      <4>1. ~TooClose(Arg(m)) => now <= Arg(m)
        <5>1. Arg(m) \in Nat  BY <3>3, CommandArg, Zenon
        <5>2. now \in Nat  BY <2>1, Zenon DEF Types, HostTypes
        <5>3. QED  BY <5>1, <5>2 DEF TooClose
      <4>2. expire_at'[m] # Never => now <= expire_at'[m]
        BY <2>1, <3>1, <3>7, <4>1, Zenon DEF TimersAt
      <4>3. QED  BY <2>1, <2>3, <3>1, <4>2, Zenon DEF TimersAt
    <3>9. TimeoutGiven(m)  BY <3>3, <3>7, Zenon DEF TimeoutGiven
    <3>10. QED  BY <2>5, <3>1, <3>5, <3>6, <3>7, <3>8, <3>9, Zenon
  <2>9. CASE m = EndstopMcu /\ EndstopHome /\ ~ShutdownMcu(m)
    <3>1. /\ Receives(m, "home") /\ Taken(m) /\ to_host' = to_host /\ read_time' = read_time
          /\ signal' = signal /\ can_trigger' = can_trigger /\ expire_at' = expire_at
          /\ session' = session /\ triggered_at' = triggered_at
      BY <2>9, Zenon DEF EndstopHome
    <3>2. "home" # "start"  OBVIOUS
    <3>3. Popped(to_mcu[m], to_mcu'[m]) /\ to_mcu[m][1].op = "home"
      BY <2>1, <3>1, TakenFacts, Zenon
    <3>4. session'[m] = session[m] /\ triggered_at'[m] = triggered_at[m]  BY <3>1, Zenon
    <3>5. Limit(m) <= Limit(m)'  BY <2>1, <2>3, <3>4, <1>LimitGrows, Zenon
    <3>6. ArmedAt(m)'
      <4>1. NoStart(m)'  BY <2>1, <3>2, <3>3, <1>NoStartLeft, Zenon
      <4>2. QED  BY <2>1, <3>1, <4>1, ArmedRest, Zenon DEF ArmedAt
    <3>7. TimersAt(m)'  BY <2>1, <2>3, <3>1, Zenon DEF TimersAt
    <3>8. TimeoutGiven(m)  BY <3>1, Zenon DEF TimeoutGiven
    <3>9. QED  BY <2>5, <2>9, <3>1, <3>5, <3>6, <3>7, <3>8, Zenon
  <2>10. CASE EmergencyStop(m) \/ OtherShutdown(m)
    BY <2>4, <2>10, Zenon DEF EmergencyStop, OtherShutdown
  <2>11. QED  BY <2>4, <2>6, <2>7, <2>8, <2>9, <2>10, Zenon
<1>CutLinkStop. ASSUME StopInv, Types', NEW m \in Mcus, CutLink(m)
                PROVE  AllStop'
  <2> USE <1>CutLinkStop
  <2>1. Types /\ ArmedAt(m) /\ TimersAt(m)  BY Zenon DEF StopInv, SessionInv
  <2>2. /\ UNCHANGED <<now, python, trdispatch, trsync>> /\ read_time' = read_time
        /\ to_mcu' = [to_mcu EXCEPT ![m] = <<>>] /\ to_host' = [to_host EXCEPT ![m] = <<>>]
    BY Zenon DEF CutLink
  <2>3. /\ now' = now /\ starts' = starts /\ start_clock' = start_clock /\ homing' = homing
        /\ can_trigger' = can_trigger /\ expire_at' = expire_at /\ signal' = signal
        /\ session' = session /\ triggered_at' = triggered_at
    BY <2>2, Zenon DEF python, trsync
  <2>4. /\ to_mcu'[m] = <<>> /\ to_host'[m] = <<>>
        /\ \A x \in Mcus : x # m => to_mcu'[x] = to_mcu[x] /\ to_host'[x] = to_host[x]
    BY <2>1, <2>2, Zenon DEF Types, WireTypes
  <2>5. (\A i \in Cmds(m)' : FALSE) /\ (\A i \in Msgs(m)' : FALSE)
    <3>1. \A i \in 1..Len(<<>>) : FALSE  OBVIOUS
    <3>2. QED  BY <2>4, <3>1, Zenon DEF Cmds, Msgs
  <2>6. OthersKept(m)  BY <2>2, <2>3, <2>4, Zenon DEF OthersKept
  <2>7. session'[m] = session[m] /\ triggered_at'[m] = triggered_at[m]  BY <2>3, Zenon
  <2>8. Limit(m) <= Limit(m)'  BY <2>1, <2>3, <2>7, <1>LimitGrows, Zenon
  <2>9. ArmedAt(m)'  BY <2>1, <2>3, <2>5, ArmedRest, Zenon DEF NoStart, ArmedAt
  <2>10. TimersAt(m)'  BY <2>1, <2>2, <2>3, Zenon DEF TimersAt
  <2>11. TimeoutGiven(m)  BY <2>3, Zenon DEF TimeoutGiven
  <2>12. QED  BY <2>2, <2>5, <2>6, <2>8, <2>9, <2>10, <2>11, <1>McuKeepsStop, Zenon
\* Time does not pass while a timeout is due.
<1>TickStop. ASSUME StopInv, Types', Tick
             PROVE  AllStop'
  <2> USE <1>TickStop
  <2>1. Types  BY Zenon DEF StopInv, SessionInv
  <2>2. /\ UNCHANGED <<python, trdispatch, to_mcu, to_host, trsync>> /\ read_time' = read_time
        /\ now' = now + 1 /\ ~TimerDue
    BY Zenon DEF Tick
  <2>3. /\ starts' = starts /\ start_clock' = start_clock /\ last_status' = last_status
        /\ to_mcu' = to_mcu /\ to_host' = to_host /\ homing' = homing
        /\ can_trigger' = can_trigger /\ expire_at' = expire_at /\ signal' = signal
        /\ session' = session /\ triggered_at' = triggered_at
    BY <2>2, Zenon DEF python, trdispatch, trsync
  <2>4. now \in Nat /\ start_clock \in Nat  BY <2>1, Zenon DEF Types, HostTypes
  <2>5. now \in Nat /\ now' \in Nat /\ now <= now'  BY <2>2, <2>4
  <2>6. \A x \in Mcus : Limit(x) \in Nat /\ Limit(x)' \in Nat
    <3>1. \A x \in Mcus : Limit(x) \in Nat  BY <2>1, LimitType, Zenon
    <3>2. \A x \in Mcus : Limit(x)' \in Nat  BY LimitTypeNext, Zenon
    <3>3. QED  BY <3>1, <3>2, Zenon
  <2>7. ASSUME NEW x \in Mcus PROVE Limit(x) <= Limit(x)'
    <3>1. Later(now, start_clock) <= Later(now', start_clock)  BY <2>4, <2>5 DEF Later
    <3>2. Limit(x) <= Limit(x)  BY <2>6
    <3>3. QED  BY <2>3, <3>1, <3>2, Zenon DEF Limit
  <2>8. ASSUME NEW x \in Mcus PROVE ArmedAt(x)' /\ ClockAt(x)' /\ TimersAt(x)'
    <3>1. ArmedAt(x) /\ ClockAt(x) /\ TimersAt(x)  BY Zenon DEF StopInv
    <3>2. ArmedAt(x)'  BY <2>3, <3>1, Zenon DEF ArmedAt, StartFirst, NoStart, Registers, Cmds
    <3>3. ClockAt(x)'
      <4>1. \A c \in Nat : c <= Limit(x) => c <= Limit(x)'  BY <2>6, <2>7, LeqTransitive, Zenon
      <4>2. last_status[x] \in Nat  BY <2>1, Zenon DEF Types, HostTypes
      <4>3. \A i \in Msgs(x) : to_host[x][i].clock \in Nat
        <5>1. to_host[x] \in Seq(MessageType)  BY <2>1, Zenon DEF Types, WireTypes
        <5>2. \A i \in Msgs(x) : to_host[x][i] \in MessageType  BY <5>1 DEF Msgs
        <5>3. \A y \in MessageType : y.clock \in Nat  BY DEF MessageType
        <5>4. QED  BY <5>2, <5>3, Zenon
      <4>4. last_status'[x] <= Limit(x)'  BY <2>3, <3>1, <4>1, <4>2, Zenon DEF ClockAt
      <4>5. ASSUME NEW i \in Msgs(x)', to_host'[x][i].op = "state"
            PROVE  to_host'[x][i].clock <= Limit(x)'
        BY <2>3, <3>1, <4>1, <4>3, <4>5, Zenon DEF ClockAt, Msgs
      <4>6. QED  BY <4>4, <4>5, Zenon DEF ClockAt
    <3>4. TimersAt(x)'
      <4>1. \A c \in Nat : c <= now => c <= now'  BY <2>5, LeqTransitive, Zenon
      <4>2. /\ read_time[x] # Never => read_time[x] \in Nat
            /\ triggered_at[x] # Never => triggered_at[x] \in Nat
            /\ expire_at[x] # Never => expire_at[x] \in Nat
        BY <2>1, Zenon DEF Types, McuTypes, Times
      <4>3. /\ read_time'[x] # Never => read_time'[x] <= now'
            /\ triggered_at'[x] # Never => triggered_at'[x] <= now'
        BY <2>2, <2>3, <3>1, <4>1, <4>2, Zenon DEF TimersAt
      <4>4. expire_at'[x] # Never => now' <= expire_at'[x]
        <5>1. expire_at[x] # Never => ~(expire_at[x] <= now)  BY <2>2, Zenon DEF TimerDue
        <5>2. \A c \in Nat : ~(c <= now) => now' <= c  BY <2>2, <2>4
        <5>3. QED  BY <2>3, <4>2, <5>1, <5>2, Zenon
      <4>5. QED  BY <2>3, <3>1, <4>3, <4>4, Zenon DEF TimersAt
    <3>5. QED  BY <3>2, <3>3, <3>4, Zenon
  <2>9. ASSUME NEW a \in Mcus, NEW b \in Mcus PROVE BoundAt(a, b)'
    <3>1. BoundAt(a, b)  BY Zenon DEF StopInv
    <3>2. /\ Limit(a) + Expire \in Nat /\ Limit(a)' + Expire \in Nat
          /\ Limit(a) + Expire <= Limit(a)' + Expire
      <4>1. Expire \in Nat  BY TrSyncConstants, Zenon
      <4>2. QED  BY <2>6, <2>7, <4>1
    <3>3. \A x \in Nat : x <= Limit(a) + Expire => x <= Limit(a)' + Expire
      BY <3>2, LeqTransitive, Zenon
    <3>4. \A j \in Cmds(b) : to_mcu[b][j].op = "timeout" => to_mcu[b][j].arg \in Nat
      <4>1. to_mcu[b] \in Seq(Commands)  BY <2>1, Zenon DEF Types, WireTypes
      <4>2. \A j \in Cmds(b) : to_mcu[b][j] \in Commands  BY <4>1 DEF Cmds
      <4>3. QED  BY <4>2, CommandArg, Zenon
    <3>5. expire_at[b] # Never => expire_at[b] \in Nat  BY <2>1, Zenon DEF Types, McuTypes, Times
    <3>6. QED  BY <2>3, <3>1, <3>3, <3>4, <3>5, Zenon DEF BoundAt, Cmds
  <2>10. QED  BY <2>8, <2>9, Zenon DEF AllStop
<1>1. EndstopMcu \in Mcus  BY TrSyncConstants, Zenon
<1>2. ASSUME StopInv, Types', NEW m \in Mcus, TrsyncTrigger(m, "trigger", <<>>) PROVE AllStop'
  <2>1. /\ <<>> \in Seq(MessageType) /\ "trigger" \in {"trigger", "query"}
        /\ Stateless(<<>>)
    BY DEF Stateless
  <2>2. QED  BY <1>2, <2>1, <1>TriggerStop, Zenon
<1>3. ASSUME StopInv, Types', NEW m \in Mcus, TrsyncTrigger(m, "query", <<AckMessage>>) PROVE AllStop'
  <2>1. AckMessage \in MessageType /\ AckMessage.op # "state"
    <3>1. 0 \in 0..MaxStarts  BY TrSyncConstants
    <3>2. 0 \in NoReason..COMMS_TIMEOUT  BY DEF NoReason, COMMS_TIMEOUT
    <3>3. QED  BY <3>1, <3>2 DEF AckMessage, MessageType
  <2>2. /\ <<AckMessage>> \in Seq(MessageType) /\ "query" \in {"trigger", "query"}
        /\ Stateless(<<AckMessage>>)
    BY <2>1 DEF Stateless
  <2>3. QED  BY <1>3, <2>2, <1>TriggerStop, Zenon
<1>4. QED
  BY <1>1, <1>2, <1>3, <1>EventStop, <1>CommandStop, <1>TickStop, <1>TaskReportStop, <1>CutLinkStop,
     Zenon

-----------------------------------------------------------------------------
(* The place of the homing operation, and the endstop *)

\* The host leaves the micro-controllers alone.
HostOnly == UNCHANGED <<now, faults, trsync, read_time, stale>>

\* When the host is at work it has no answers, and asks nobody before it stops.
LEMMA AtWork ==
    ASSUME HostPlace, host \in {"starting", "homing"}, NEW x \in Mcus
    PROVE  x \notin querying /\ result[x] = Never
<1>1. host \notin {"stopping", "idle"} /\ host # "stopping"  OBVIOUS
<1>2. QED  BY <1>1, Zenon DEF HostPlace

LEMMA PlaceFrame ==
    ASSUME HostPlace, UNCHANGED <<python, trdispatch, session>>
    PROVE  HostPlace'
BY Zenon DEF HostPlace, python, trdispatch

LEMMA HostStepPlace ==
    ASSUME SessionInv,
           \/ HomeStart \/ HomeActivate \/ HomeStop \/ HomeDone \/ HostLostMcu
           \/ \E m \in Mcus : Query(m) \/ HostAck(m) \/ HostState(m) \/ HostShutdown(m)
    PROVE  HostPlace'
<1>1. HostPlace /\ Types  BY Zenon DEF SessionInv
<1>2. CASE HomeStart
  <2>1. /\ session' = session /\ starts' = starts + 1 /\ host' = "starting"
        /\ is_active' = is_active /\ querying' = querying /\ result' = [m \in Mcus |-> Never]
        /\ host = "idle"
    BY <1>2, Zenon DEF HomeStart, trsync
  <2>2. is_active = FALSE /\ querying = {}
    <3>1. "idle" # "homing" /\ "idle" # "stopping"  OBVIOUS
    <3>2. is_active \in BOOLEAN  BY <1>1, Zenon DEF Types, HostTypes
    <3>3. QED  BY <1>1, <2>1, <3>1, <3>2, Zenon DEF HostPlace
  <2>3. \A m \in Mcus : session'[m] <= starts'
    <3>1. \A m \in Mcus : session[m] \in Nat /\ session[m] <= starts /\ starts \in Nat
      BY <1>1 DEF Types, McuTypes, HostTypes, Session, HostPlace
    <3>2. QED  BY <2>1, <3>1
  <2>4. QED  BY <2>1, <2>2, <2>3, Zenon DEF HostPlace
<1>3. CASE HomeActivate
  <2>1. /\ session' = session /\ starts' = starts /\ host' = "homing" /\ host = "starting"
        /\ querying' = querying /\ result' = result
    BY <1>3, Zenon DEF HomeActivate, trsync
  <2>2. "starting" \in {"starting", "homing"}  OBVIOUS
  <2>3. \A x \in Mcus : x \notin querying /\ result[x] = Never  BY <1>1, <2>1, <2>2, AtWork, Zenon
  <2>4. querying = {}  BY <1>1, <2>3, Zenon DEF Types, HostTypes
  <2>5. QED  BY <1>1, <2>1, <2>3, <2>4, Zenon DEF HostPlace
<1>4. CASE HomeStop
  <2>1. /\ session' = session /\ starts' = starts /\ host' = "stopping" /\ is_active' = FALSE
        /\ querying' = querying /\ result' = result
    BY <1>4, Zenon DEF HomeStop, trsync
  <2>2. QED  BY <1>1, <2>1, Zenon DEF HostPlace
<1>5. CASE HomeDone
  <2>1. /\ session' = session /\ starts' = starts /\ host' = "idle" /\ is_active' = is_active
        /\ querying' = querying /\ result' = result /\ querying = {} /\ host = "stopping"
    BY <1>5, Zenon DEF HomeDone, trsync, trdispatch
  <2>2. ~is_active
    <3>1. "stopping" # "homing"  OBVIOUS
    <3>2. QED  BY <1>1, <2>1, <3>1, Zenon DEF HostPlace
  <2>3. QED  BY <1>1, <2>1, <2>2, Zenon DEF HostPlace
<1>6. ASSUME ShutdownPrinter PROVE HostPlace'
  <2>1. /\ session' = session /\ starts' = starts /\ is_active' = FALSE
        /\ querying' = {} /\ result' = [m \in Mcus |-> Never]
    BY <1>6, Zenon DEF ShutdownPrinter, trsync
  <2>2. QED  BY <1>1, <2>1, Zenon DEF HostPlace
<1>7. ASSUME NEW m \in Mcus, Query(m) PROVE HostPlace'
  <2>1. /\ session' = session /\ starts' = starts /\ is_active' = is_active /\ host' = host
        /\ querying' = querying \cup {m} /\ querying = {} /\ result' = result
        /\ host = "stopping"
    BY <1>7, Zenon DEF Query, MayQuery, trsync, trdispatch
  <2>2. QED  BY <1>1, <2>1, Zenon DEF HostPlace
<1>8. ASSUME NEW m \in Mcus, HostAck(m) PROVE HostPlace'
  <2>1. session' = session /\ starts' = starts /\ is_active' = is_active /\ host' = host
    BY <1>8, Zenon DEF HostAck, trsync, trdispatch
  <2>2. \/ querying' = querying /\ result' = result
        \/ /\ querying' = querying \ {m}
           /\ result' = [result EXCEPT ![m] = IF m \in querying THEN last_params ELSE @]
    BY <1>8, Zenon DEF HostAck
  <2>3. querying' \subseteq querying  BY <2>2, Zenon
  <2>4. \A x \in Mcus : result'[x] = result[x] \/ x \in querying
    BY <1>1, <2>2, Zenon DEF Types, HostTypes
  <2>5. \A x \in Mcus : result'[x] # Never => host' \in {"stopping", "idle"}
    BY <1>1, <2>1, <2>4, Zenon DEF HostPlace
  <2>6. QED  BY <1>1, <2>1, <2>3, <2>5, Zenon DEF HostPlace
<1>9. ASSUME NEW m \in Mcus, HostState(m) PROVE HostPlace'
  <2>1. /\ session' = session /\ starts' = starts /\ is_active' = is_active /\ host' = host
        /\ querying' = querying /\ result' = result
    BY <1>9, Zenon DEF HostState, trsync
  <2>2. QED  BY <1>1, <2>1, Zenon DEF HostPlace
<1>10. CASE HostLostMcu \/ \E m \in Mcus : HostShutdown(m)
  BY <1>6, <1>10, Zenon DEF HostLostMcu, HostShutdown
<1>11. QED  BY <1>2, <1>3, <1>4, <1>5, <1>7, <1>8, <1>9, <1>10, Zenon

LEMMA McuStepPlace ==
    ASSUME SessionInv, NEW m \in Mcus,
           \/ ExpireEvent(m) \/ ReportEvent(m) \/ TaskReadTime(m) \/ TaskReport(m)
           \/ TrsyncStart(m) \/ StopOnTrigger(m) \/ SetTimeout(m)
           \/ TrsyncTrigger(m, "trigger", <<>>) \/ TrsyncTrigger(m, "query", <<AckMessage>>)
           \/ EmergencyStop(m) \/ OtherShutdown(m) \/ CutLink(m)
           \/ EndstopHit \/ EndstopHome \/ Tick
    PROVE  HostPlace'
<1>1. HostPlace /\ Types  BY Zenon DEF SessionInv
<1>2. UNCHANGED <<python, trdispatch>>
  BY Zenon DEF ExpireEvent, ReportEvent, TaskReadTime, TaskReport, TrsyncStart, StopOnTrigger,
       SetTimeout, TrsyncTrigger, EmergencyStop, OtherShutdown, CutLink, EndstopHit, EndstopHome,
       Tick, Receives
<1>3. CASE session' = session  BY <1>1, <1>2, <1>3, PlaceFrame, Zenon
<1>4. CASE TrsyncStart(m) /\ Taken(m) /\ session' = [session EXCEPT ![m] = Of(m)]
  <2>1. Of(m) = starts  BY <1>4, TakenFacts, Zenon DEF TrsyncStart
  <2>2. \A x \in Mcus : session'[x] = session[x] \/ session'[x] = starts
    BY <1>1, <1>4, <2>1, Zenon DEF Types, McuTypes
  <2>3. starts <= starts  BY <1>1 DEF Types, HostTypes, Session
  <2>4. \A x \in Mcus : session'[x] <= starts  BY <1>1, <2>2, <2>3, Zenon DEF HostPlace
  <2>5. QED  BY <1>1, <1>2, <2>4, Zenon DEF HostPlace, python, trdispatch
<1>5. session' = session \/ (TrsyncStart(m) /\ Taken(m) /\ session' = [session EXCEPT ![m] = Of(m)])
  <2>1. CASE TrsyncStart(m)  BY <2>1, Zenon DEF TrsyncStart, ShutdownMcu
  <2>2. CASE \/ ExpireEvent(m) \/ ReportEvent(m) \/ TaskReadTime(m) \/ TaskReport(m)
             \/ CutLink(m) \/ EndstopHit \/ Tick
    BY <2>2, Zenon DEF ExpireEvent, ReportEvent, TaskReadTime, TaskReport, CutLink, EndstopHit,
         Tick, trsync
  <2>3. CASE StopOnTrigger(m) \/ SetTimeout(m) \/ EndstopHome
    BY <2>3, Zenon DEF StopOnTrigger, SetTimeout, EndstopHome, ShutdownMcu
  <2>4. CASE \/ TrsyncTrigger(m, "trigger", <<>>) \/ TrsyncTrigger(m, "query", <<AckMessage>>)
             \/ EmergencyStop(m) \/ OtherShutdown(m)
    BY <2>4, Zenon DEF TrsyncTrigger, EmergencyStop, OtherShutdown, ShutdownMcu
  <2>5. QED  BY <2>1, <2>2, <2>3, <2>4, Zenon
<1>6. QED  BY <1>3, <1>4, <1>5, Zenon

LEMMA ToldRest ==
    ASSUME NEW c, NEW h, NEW h2, Told(c, h), h2 = h \/ h2 = FALSE
    PROVE  Told(c, h2)
BY Zenon DEF Told

LEMMA ToldExtended ==
    ASSUME NEW c, NEW c2, NEW h, NEW D, Told(c, h), Extended(c, c2, D),
           \A x \in D : x.op # "home"
    PROVE  Told(c2, h)
<1>1. \A i \in 1..Len(c2) : c2[i].op = "home" => i \in 1..Len(c) /\ c2[i] = c[i]
  BY Zenon DEF Extended
<1>2. \A i \in 1..Len(c) : i \in 1..Len(c2) /\ c2[i] = c[i]  BY Zenon DEF Extended
<1>3. QED  BY <1>1, <1>2, Zenon DEF Told

LEMMA ToldPopped ==
    ASSUME NEW c, NEW c2, NEW h, NEW h2, Told(c, h), Popped(c, c2),
           IF c[1].op = "home" THEN h2 = (c[1].arg # Never) ELSE h2 = h
    PROVE  Told(c2, h2)
<1>1. \A i \in 1..Len(c2) : i + 1 \in 1..Len(c) /\ c2[i] = c[i + 1]  BY Zenon DEF Popped
<1>2. \A i \in 1..Len(c) : i # 1 => i - 1 \in 1..Len(c2) /\ c2[i - 1] = c[i]  BY Zenon DEF Popped
<1>3. ASSUME \A i \in 1..Len(c2) : c2[i].op # "home" PROVE h2 = FALSE
  <2>1. \A i \in 1..Len(c) : i # 1 => c[i].op # "home"  BY <1>2, <1>3, Zenon
  <2>2. 1 \in 1..Len(c)  BY Zenon DEF Popped
  <2>3. CASE c[1].op = "home"
    <3>1. \A j \in 1..Len(c) : 1 < j => j # 1  OBVIOUS
    <3>2. c[1].arg = Never  BY <2>1, <2>2, <2>3, <3>1, Zenon DEF Told
    <3>3. QED  BY <2>3, <3>2, Zenon
  <2>4. CASE c[1].op # "home"  BY <2>1, <2>4, Zenon DEF Told
  <2>5. QED  BY <2>3, <2>4, Zenon
<1>4. ASSUME NEW i \in 1..Len(c2), c2[i].op = "home",
             \A j \in 1..Len(c2) : i < j => c2[j].op # "home"
      PROVE  c2[i].arg = Never
  <2>1. i + 1 \in 1..Len(c) /\ c[i + 1] = c2[i]  BY <1>1, Zenon
  <2>2. ASSUME NEW j \in 1..Len(c), i + 1 < j PROVE c[j].op # "home"
    <3>1. j # 1 /\ i < j - 1  BY <2>2
    <3>2. QED  BY <1>2, <1>4, <3>1, Zenon
  <2>3. QED  BY <1>4, <2>1, <2>2, Zenon DEF Told
<1>5. QED  BY <1>3, <1>4, Zenon DEF Told

\* A home command that ends the sampling, sent last
LEMMA ToldLast ==
    ASSUME NEW c, NEW c2, NEW D, NEW x, Extended(c, c2, D), Len(c2) = Len(c) + 1,
           c2[Len(c) + 1] = x, x.op = "home", x.arg = Never, NEW h
    PROVE  Told(c2, h)
<1>1. Len(c) \in Nat  BY Zenon DEF Extended
<1>2. Len(c) + 1 \in 1..Len(c2) /\ \A i \in 1..Len(c2) : i = Len(c) + 1 \/ i < Len(c) + 1
  BY <1>1
<1>3. QED  BY <1>2, Zenon DEF Told

LEMMA ToldNothing ==
    ASSUME NEW c, NEW h, \A i \in 1..Len(c) : FALSE, h = FALSE
    PROVE  Told(c, h)
BY Zenon DEF Told

LEMMA QueryTold ==
    ASSUME SessionInv, NEW m \in Mcus, to_mcu' = [to_mcu EXCEPT ![m] =
               SendMcu(m, <<Command("query", HOST_REQUEST, starts)>>)], HostOnly, host' = host
    PROVE  EndstopTold'
<1>1. Types /\ EndstopTold  BY Zenon DEF SessionInv
<1> DEFINE c == Command("query", HOST_REQUEST, starts)
<1>2. c \in Commands /\ c.op = "query"
  <2>1. starts \in Session /\ HOST_REQUEST \in {HOST_REQUEST, PAST_END_TIME}
    BY <1>1, Zenon DEF Types, HostTypes
  <2>2. c \in Commands  BY <2>1, CommandFacts, Zenon
  <2>3. c.op = "query"  BY DEF Command
  <2>4. QED  BY <2>2, <2>3, Zenon
<1> DEFINE D == {x \in Commands : x.op # "home"}
<1> HIDE DEF c
<1>3. to_mcu' = [to_mcu EXCEPT ![m] = SendMcu(m, <<c>>)]  BY Zenon DEF c
<1>8. c \in D /\ \A x \in D : x.op # "home"
  <2>1. "query" # "home"  OBVIOUS
  <2>2. QED  BY <1>2, <2>1, Zenon
<1> HIDE DEF D
<1>4. \A x \in Mcus : to_mcu'[x] = to_mcu[x] \/ Extended(to_mcu[x], to_mcu'[x], D)
  <2>1. WireTypes  BY <1>1, Zenon DEF Types
  <2>2. SendMcu(m, <<c>>) = to_mcu[m] \/ Extended(to_mcu[m], SendMcu(m, <<c>>), D)
    BY <1>2, <1>8, <2>1, SendOne, Zenon
  <2>3. to_mcu'[m] = SendMcu(m, <<c>>) /\ \A x \in Mcus : x # m => to_mcu'[x] = to_mcu[x]
    BY <1>3, <2>1, Zenon DEF WireTypes
  <2>4. QED  BY <2>2, <2>3, Zenon
<1>5. mcu_shutdown' = mcu_shutdown /\ homing' = homing /\ cut' = cut
  BY Zenon DEF HostOnly, faults, trsync
<1>6. ASSUME host' = "stopping", EndstopMcu \notin cut' PROVE Told(to_mcu'[EndstopMcu], homing')
  <2>1. Told(to_mcu[EndstopMcu], homing)  BY <1>1, <1>5, <1>6, Zenon DEF EndstopTold
  <2>2. EndstopMcu \in Mcus  BY TrSyncConstants, Zenon
  <2>3. CASE to_mcu'[EndstopMcu] = to_mcu[EndstopMcu]  BY <1>5, <2>1, <2>3, Zenon
  <2>4. CASE Extended(to_mcu[EndstopMcu], to_mcu'[EndstopMcu], D)
    <3>1. Told(to_mcu'[EndstopMcu], homing)  BY <1>8, <2>1, <2>4, ToldExtended, Zenon
    <3>2. QED  BY <1>5, <3>1, Zenon
  <2>5. QED  BY <1>4, <2>2, <2>3, <2>4, Zenon
<1>7. QED  BY <1>1, <1>5, <1>6, Zenon DEF EndstopTold

\* Nothing is sent to the endstop's micro-controller.
LEMMA ToldFrame ==
    ASSUME EndstopTold, host' = "stopping" => host = "stopping", cut' = cut,
           mcu_shutdown' = mcu_shutdown, to_mcu'[EndstopMcu] = to_mcu[EndstopMcu],
           homing' = homing \/ homing' = FALSE
    PROVE  EndstopTold'
<1>1. ASSUME host' = "stopping", EndstopMcu \notin cut' PROVE Told(to_mcu'[EndstopMcu], homing')
  <2>1. Told(to_mcu[EndstopMcu], homing)  BY <1>1, Zenon DEF EndstopTold
  <2>2. Told(to_mcu[EndstopMcu], homing')  BY <2>1, ToldRest, Zenon
  <2>3. QED  BY <2>2, Zenon
<1>2. QED  BY <1>1, Zenon DEF EndstopTold

LEMMA HostStepTold ==
    ASSUME SessionInv,
           \/ HomeStart \/ HomeActivate \/ HomeStop \/ HomeDone \/ HostLostMcu
           \/ \E m \in Mcus : Query(m) \/ HostAck(m) \/ HostState(m) \/ HostShutdown(m)
    PROVE  EndstopTold'
<1>1. EndstopTold /\ HostPlace /\ Types /\ EndstopMcu \in Mcus
  BY TrSyncConstants, Zenon DEF SessionInv
<1>2. ASSUME NEW m \in Mcus, Query(m) \/ HostAck(m) PROVE HostOnly
  BY <1>2, Zenon DEF HostOnly, Query, HostAck
<1>3. mcu_shutdown' = mcu_shutdown /\ homing' = homing /\ cut' = cut
  <2>1. CASE HomeStart \/ HomeActivate \/ HomeStop \/ HomeDone
    BY <2>1, Zenon DEF HomeStart, HomeActivate, HomeStop, HomeDone, trsync, faults
  <2>2. CASE HostLostMcu  BY <2>2, Zenon DEF HostLostMcu, ShutdownPrinter, trsync, faults
  <2>3. ASSUME NEW m \in Mcus, Query(m) \/ HostAck(m) \/ HostState(m)
        PROVE  mcu_shutdown' = mcu_shutdown /\ homing' = homing /\ cut' = cut
    BY <2>3, Zenon DEF Query, HostAck, HostState, trsync, faults
  <2>4. ASSUME NEW m \in Mcus, HostShutdown(m)
        PROVE  mcu_shutdown' = mcu_shutdown /\ homing' = homing /\ cut' = cut
    BY <2>4, Zenon DEF HostShutdown, ShutdownPrinter, trsync, faults
  <2>5. QED  BY <2>1, <2>2, <2>3, <2>4, Zenon
<1>4. ASSUME host' # "stopping" PROVE EndstopTold'
  BY <1>1, <1>3, <1>4, Zenon DEF EndstopTold
<1>5. CASE HomeStart \/ HomeActivate \/ HomeDone
  <2>1. host' # "stopping"  BY <1>5 DEF HomeStart, HomeActivate, HomeDone
  <2>2. QED  BY <1>4, <2>1, ZenonT(30)
<1>6. CASE HostLostMcu \/ \E m \in Mcus : HostShutdown(m)
  <2>1. ShutdownPrinter  BY <1>6, Zenon DEF HostLostMcu, HostShutdown
  <2>2. host' # "stopping"  BY <2>1 DEF ShutdownPrinter
  <2>3. QED  BY <1>4, <2>2, Zenon
<1>7. CASE HomeStop
  <2> DEFINE c == Command("home", Never, starts)
  <2>1. c \in Commands
    <3>1. starts \in Session /\ Never \in Times  BY <1>1, Zenon DEF Types, HostTypes, Times
    <3>2. QED  BY <3>1, CommandFacts, Zenon
  <2>2. c.op = "home" /\ c.arg = Never  BY DEF Command
  <2>3. to_mcu' = [to_mcu EXCEPT ![EndstopMcu] = SendMcu(EndstopMcu, <<c>>)]
    BY <1>7, Zenon DEF HomeStop
  <2> HIDE DEF c
  <2>4. to_mcu'[EndstopMcu] = SendMcu(EndstopMcu, <<c>>)
    BY <1>1, <2>3, Zenon DEF Types, WireTypes
  <2>5. WireTypes /\ c \in Commands  BY <1>1, <2>1, Zenon DEF Types
  <2>6. \/ to_mcu'[EndstopMcu] = to_mcu[EndstopMcu] /\ Off(EndstopMcu)
        \/ /\ ~Off(EndstopMcu) /\ Extended(to_mcu[EndstopMcu], to_mcu'[EndstopMcu], Commands)
           /\ Len(to_mcu'[EndstopMcu]) = Len(to_mcu[EndstopMcu]) + 1
           /\ to_mcu'[EndstopMcu][Len(to_mcu[EndstopMcu]) + 1] = c
    BY <1>1, <2>4, <2>5, SendOne, ZenonT(30)
  <2>7. ASSUME EndstopMcu \notin cut' PROVE Told(to_mcu'[EndstopMcu], homing')
    <3>1. CASE to_mcu'[EndstopMcu] = to_mcu[EndstopMcu] /\ Off(EndstopMcu)
      <4>1. homing' = FALSE  BY <1>1, <1>3, <2>7, <3>1, Zenon DEF EndstopTold, Off
      <4>2. \A i \in 1..Len(to_mcu'[EndstopMcu]) : FALSE
        BY <1>1, <3>1, Zenon DEF SessionInv, TalkAt, NoCommand, Cmds
      <4>3. QED  BY <4>1, <4>2, ToldNothing, Zenon
    <3>2. CASE /\ Extended(to_mcu[EndstopMcu], to_mcu'[EndstopMcu], Commands)
               /\ Len(to_mcu'[EndstopMcu]) = Len(to_mcu[EndstopMcu]) + 1
               /\ to_mcu'[EndstopMcu][Len(to_mcu[EndstopMcu]) + 1] = c
      BY <2>2, <3>2, ToldLast, Zenon
    <3>3. QED  BY <2>6, <3>1, <3>2, Zenon
  <2>8. QED  BY <1>1, <1>3, <2>7, Zenon DEF EndstopTold
<1>8. ASSUME NEW m \in Mcus, Query(m) PROVE EndstopTold'
  BY <1>2, <1>8, QueryTold, Zenon DEF Query
<1>9. ASSUME NEW m \in Mcus, HostAck(m) PROVE EndstopTold'
  <2>1. host' = host  BY <1>9, Zenon DEF HostAck
  <2>2. CASE to_mcu' = [to_mcu EXCEPT ![m] = SendMcu(m, <<Command("query", HOST_REQUEST, starts)>>)]
    BY <1>2, <1>9, <2>1, <2>2, QueryTold, Zenon
  <2>3. CASE to_mcu' = to_mcu  BY <1>1, <1>3, <2>1, <2>3, ToldFrame, Zenon
  <2>4. QED  BY <1>9, <2>2, <2>3, Zenon DEF HostAck
<1>10. ASSUME NEW m \in Mcus, HostState(m) PROVE EndstopTold'
  <2>1. host' = host  BY <1>10, Zenon DEF HostState
  <2>2. CASE host = "stopping"
    <3>1. host \notin {"starting", "homing"}  BY <2>2
    <3>2. to_mcu'[EndstopMcu] = to_mcu[EndstopMcu]
      BY <1>1, <1>10, <3>1, HostStateWire, Zenon
    <3>3. QED  BY <1>1, <1>3, <2>1, <3>2, ToldFrame, Zenon
  <2>3. QED  BY <1>4, <2>1, <2>2, Zenon
<1>11. QED  BY <1>5, <1>6, <1>7, <1>8, <1>9, <1>10, Zenon

LEMMA McuStepTold ==
    ASSUME SessionInv, NEW m \in Mcus,
           \/ ExpireEvent(m) \/ ReportEvent(m) \/ TaskReadTime(m) \/ TaskReport(m)
           \/ TrsyncStart(m) \/ StopOnTrigger(m) \/ SetTimeout(m)
           \/ TrsyncTrigger(m, "trigger", <<>>) \/ TrsyncTrigger(m, "query", <<AckMessage>>)
           \/ EmergencyStop(m) \/ OtherShutdown(m) \/ CutLink(m)
           \/ (m = EndstopMcu /\ EndstopHome) \/ EndstopHit \/ Tick
    PROVE  EndstopTold'
<1>1. EndstopTold /\ Types /\ EndstopMcu \in Mcus  BY TrSyncConstants, Zenon DEF SessionInv
<1>2. UNCHANGED python
  BY Zenon DEF ExpireEvent, ReportEvent, TaskReadTime, TaskReport, TrsyncStart, StopOnTrigger,
       SetTimeout, TrsyncTrigger, EmergencyStop, OtherShutdown, CutLink, EndstopHit, EndstopHome,
       Tick, Receives
<1>3. host' = host  BY <1>2, Zenon DEF python
<1>4. CASE \/ ExpireEvent(m) \/ ReportEvent(m) \/ TaskReadTime(m) \/ EndstopHit \/ Tick
  <2>1. /\ cut' = cut /\ mcu_shutdown' = mcu_shutdown /\ to_mcu' = to_mcu
        /\ homing' = homing \/ homing' = FALSE
    BY <1>4, Zenon DEF ExpireEvent, ReportEvent, TaskReadTime, EndstopHit, Tick, faults, trsync
  <2>2. QED  BY <1>1, <1>3, <2>1, ToldFrame, Zenon
<1>5. CASE TaskReport(m)
  <2>1. /\ cut' = cut /\ mcu_shutdown' = mcu_shutdown /\ to_mcu' = to_mcu /\ homing' = homing
    BY <1>5, Zenon DEF TaskReport, Sendf
  <2>2. QED  BY <1>1, <1>3, <2>1, ToldFrame, Zenon
<1>6. ASSUME ShutdownMcu(m) PROVE EndstopTold'
  <2>1. /\ mcu_shutdown' = mcu_shutdown \cup {m} /\ homing' = (homing /\ m # EndstopMcu)
        /\ to_mcu' = [to_mcu EXCEPT ![m] = <<>>] /\ cut' = cut
    BY <1>6, Zenon DEF ShutdownMcu
  <2>2. homing \in BOOLEAN  BY <1>1, Zenon DEF Types, McuTypes
  <2>3. CASE m = EndstopMcu
    <3>1. homing' = FALSE  BY <2>1, <2>3, Zenon
    <3>2. to_mcu'[EndstopMcu] = <<>>
      <4>1. to_mcu \in [Mcus -> Seq(Commands)]  BY <1>1, ZenonT(30) DEF Types, WireTypes
      <4>2. QED  BY <2>1, <2>3, <4>1, Zenon
    <3>3. \A i \in 1..Len(to_mcu'[EndstopMcu]) : FALSE  BY <3>2
    <3>4. Told(to_mcu'[EndstopMcu], homing')  BY <3>1, <3>3, ToldNothing, Zenon
    <3>5. QED  BY <3>1, <3>4, Zenon DEF EndstopTold
  <2>4. CASE m # EndstopMcu
    <3>1. homing' = homing /\ (EndstopMcu \in mcu_shutdown' <=> EndstopMcu \in mcu_shutdown)
      BY <2>1, <2>2, <2>4, Zenon
    <3>2. to_mcu'[EndstopMcu] = to_mcu[EndstopMcu]
      BY <1>1, <2>1, <2>4, Zenon DEF Types, WireTypes
    <3>3. QED  BY <1>1, <1>3, <2>1, <3>1, <3>2, Zenon DEF EndstopTold
  <2>5. QED  BY <2>3, <2>4, Zenon
<1>7. ASSUME NEW op, Receives(m, op), Taken(m), cut' = cut, mcu_shutdown' = mcu_shutdown,
             IF op = "home" THEN m = EndstopMcu /\ homing' = (Arg(m) # Never) ELSE homing' = homing
      PROVE  EndstopTold'
  <2>1. /\ Popped(to_mcu[m], to_mcu'[m]) /\ to_mcu[m][1].op = op /\ Arg(m) = to_mcu[m][1].arg
        /\ \A x \in Mcus : x # m => to_mcu'[x] = to_mcu[x]
        /\ ~Off(m)
    BY <1>7, TakenFacts, Zenon
  <2>2. CASE m = EndstopMcu
    <3>1. EndstopMcu \notin mcu_shutdown'  BY <1>7, <2>1, <2>2, Zenon DEF Off
    <3>2. ASSUME Told(to_mcu[m], homing) PROVE Told(to_mcu'[m], homing')
      <4>1. IF to_mcu[m][1].op = "home" THEN homing' = (to_mcu[m][1].arg # Never)
                                        ELSE homing' = homing
        BY <1>7, <2>1, Zenon
      <4>2. QED  BY <2>1, <3>2, <4>1, ToldPopped, Zenon
    <3>3. QED  BY <1>1, <1>3, <1>7, <2>2, <3>1, <3>2, Zenon DEF EndstopTold
  <2>3. CASE m # EndstopMcu
    <3>1. to_mcu'[EndstopMcu] = to_mcu[EndstopMcu] /\ homing' = homing
      BY <1>1, <1>7, <2>1, <2>3, Zenon
    <3>2. QED  BY <1>1, <1>3, <1>7, <3>1, ToldFrame, Zenon
  <2>4. QED  BY <2>2, <2>3, Zenon
<1>8. CASE TrsyncStart(m) \/ StopOnTrigger(m) \/ SetTimeout(m)
  <2>1. CASE ShutdownMcu(m)  BY <1>6, <2>1, Zenon
  <2>2. CASE /\ Receives(m, "start") \/ Receives(m, "stop_on") \/ Receives(m, "timeout")
             /\ Taken(m) /\ cut' = cut /\ mcu_shutdown' = mcu_shutdown /\ homing' = homing
    <3>1. "start" # "home" /\ "stop_on" # "home" /\ "timeout" # "home"  OBVIOUS
    <3>2. QED  BY <1>7, <2>2, <3>1, Zenon
  <2>3. QED  BY <1>8, <2>1, <2>2, Zenon DEF TrsyncStart, StopOnTrigger, SetTimeout, faults
<1>9. CASE TrsyncTrigger(m, "trigger", <<>>) \/ TrsyncTrigger(m, "query", <<AckMessage>>)
  <2>1. /\ Receives(m, "trigger") \/ Receives(m, "query")
        /\ Taken(m) /\ cut' = cut /\ mcu_shutdown' = mcu_shutdown /\ homing' = homing
    BY <1>9, Zenon DEF TrsyncTrigger, Sendf
  <2>2. "trigger" # "home" /\ "query" # "home"  OBVIOUS
  <2>3. QED  BY <1>7, <2>1, <2>2, Zenon
<1>10. CASE EmergencyStop(m) \/ OtherShutdown(m)
  BY <1>6, <1>10, Zenon DEF EmergencyStop, OtherShutdown
<1>11. CASE CutLink(m)
  <2>1. /\ to_mcu' = [to_mcu EXCEPT ![m] = <<>>] /\ cut' = cut \cup {m}
        /\ mcu_shutdown' = mcu_shutdown /\ homing' = homing
    BY <1>11, Zenon DEF CutLink, trsync
  <2>2. EndstopMcu \notin cut' => EndstopMcu # m /\ EndstopMcu \notin cut  BY <2>1, Zenon
  <2>3. EndstopMcu # m => to_mcu'[EndstopMcu] = to_mcu[EndstopMcu]
    BY <1>1, <2>1, Zenon DEF Types, WireTypes
  <2>4. QED  BY <1>1, <1>3, <2>1, <2>2, <2>3, Zenon DEF EndstopTold
<1>12. CASE m = EndstopMcu /\ EndstopHome
  <2>1. CASE ShutdownMcu(m)  BY <1>6, <2>1, Zenon
  <2>2. CASE /\ Receives(m, "home") /\ Taken(m) /\ cut' = cut /\ mcu_shutdown' = mcu_shutdown
             /\ homing' = (Arg(m) # Never)
    BY <1>7, <1>12, <2>2, Zenon
  <2>3. QED  BY <1>12, <2>1, <2>2, Zenon DEF EndstopHome, faults
<1>13. QED  BY <1>4, <1>5, <1>8, <1>9, <1>10, <1>11, <1>12, Zenon

-----------------------------------------------------------------------------
(* What follows for the steppers *)

LEMMA TypesOK ==
    ASSUME SessionInv
    PROVE  TypeOK
<1>1. Types /\ HostPlace  BY Zenon DEF SessionInv
<1>2. ASSUME NEW m \in Mcus
      PROVE  /\ \A i \in DOMAIN to_mcu[m] : to_mcu[m][i] \in CommandType
             /\ \A i \in DOMAIN to_host[m] : to_host[m][i] \in MessageType
  <2>1. to_mcu[m] \in Seq(Commands) /\ to_host[m] \in Seq(MessageType)
    BY <1>1, Zenon DEF Types, WireTypes
  <2>2. \A c \in Commands : c \in CommandType
    BY DEF Commands, CommandType, Times, Session, HOST_REQUEST, PAST_END_TIME
  <2>3. \A i \in DOMAIN to_mcu[m] : to_mcu[m][i] \in Commands  BY <2>1
  <2>4. \A i \in DOMAIN to_host[m] : to_host[m][i] \in MessageType  BY <2>1
  <2>5. QED  BY <2>2, <2>3, <2>4, Zenon
<1>3. ASSUME NEW m \in Mcus
      PROVE  /\ {report_at[m], expire_at[m], read_time[m]} \subseteq Times
             /\ {last_status[m], expire_clock[m]} \subseteq Nat
             /\ result[m] \in NoReason..COMMS_TIMEOUT \cup {Never}
  <2>1. report_at[m] \in Times /\ expire_at[m] \in Times /\ read_time[m] \in Times
    BY <1>1, Zenon DEF Types, McuTypes
  <2>2. last_status[m] \in Nat /\ expire_clock[m] \in Nat /\ result[m] \in Reason \cup {Never}
    BY <1>1, Zenon DEF Types, HostTypes
  <2>3. QED  BY <2>1, <2>2, Zenon DEF Reason
<1>4. /\ host \in {"idle", "starting", "homing", "stopping", "shutdown"}
      /\ querying \subseteq Mcus /\ \A a, b \in querying : a = b
  BY <1>1, Zenon DEF Types, HostTypes, HostPlace
<1>5. mcu_shutdown \cup cut \subseteq Mcus  BY <1>1, Zenon DEF Types, WireTypes, McuTypes
<1>6. QED  BY <1>2, <1>3, <1>4, <1>5, Zenon DEF TypeOK

LEMMA StopInvBound == StopInv => StopBound
<1> SUFFICES ASSUME StopInv PROVE StopBound  OBVIOUS
<1>1. SessionInv /\ Types  BY Zenon DEF StopInv, SessionInv
<1>2. TypeOK  BY <1>1, TypesOK, Zenon
<1>3. \A m \in Mcus : ~can_trigger[m] => ~signal[m]
  <2>1. \A m \in Mcus : can_trigger[m] \in BOOLEAN  BY <1>1, Zenon DEF Types, McuTypes
  <2>2. \A m \in Mcus : can_trigger[m] = FALSE => signal[m] = FALSE  BY Zenon DEF StopInv, ArmedAt
  <2>3. QED  BY <2>1, <2>2, Zenon
<1>4. ASSUME NEW a \in Mcus, NEW b \in Mcus, a # b, session[a] = starts, triggered_at[a] # Never,
             expire_at[b] # Never
      PROVE  now <= Later(triggered_at[a], start_clock) + Expire
  <2>1. Limit(a) = Later(triggered_at[a], start_clock)  BY <1>4, Zenon DEF Limit
  <2>2. now <= expire_at[b] /\ expire_at[b] <= Limit(a) + Expire
    BY <1>4, Zenon DEF StopInv, TimersAt, BoundAt
  <2>3. now \in Nat /\ expire_at[b] \in Nat  BY <1>1, <1>4, Zenon DEF Types, HostTypes, McuTypes, Times
  <2>4. Limit(a) + Expire \in Nat
    <3>1. Limit(a) \in Nat /\ Expire \in Nat  BY <1>1, LimitType, TrSyncConstants, Zenon
    <3>2. QED  BY <3>1
  <2>5. now <= Limit(a) + Expire  BY <2>2, <2>3, <2>4, LeqTransitive, Zenon
  <2>6. QED  BY <2>1, <2>5, Zenon
<1>5. QED  BY <1>2, <1>3, <1>4, Zenon DEF StopBound
=============================================================================
