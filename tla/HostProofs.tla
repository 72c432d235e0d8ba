----------------------------- MODULE HostProofs -----------------------------
(***************************************************************************)
(* Proofs about three parts of the host that share nothing.  PnP, for any  *)
(* tools, Z steppers, transforms and any number of web requests: the axes  *)
(* belong to the active tool at every pause, and as long as commands do not*)
(* overlap Z is the stroke of the actuator.  SerialQueue: the receiver of a*)
(* connection is never left asleep, for any number of queues, messages and *)
(* threads that end it.  VirtualSD: the file stays open and at its place   *)
(* while commands of the clients, of the file and of the sensor interleave,*)
(* for every file and chunk and every number of clients and events.        *)
(***************************************************************************)
EXTENDS PnP, SerialQueue, VirtualSD, TLAPS

-----------------------------------------------------------------------------
(* Sequences *)

\* All of a sequence
LEMMA SeqWhole ==
    ASSUME NEW S, NEW s \in Seq(S)
    PROVE  SubSeq(s, 1, Len(s)) = s
OBVIOUS

\* Appending an element
LEMMA SeqAppend ==
    ASSUME NEW S, NEW s \in Seq(S), NEW e \in S
    PROVE  /\ Append(s, e) \in Seq(S) /\ Append(s, e) # <<>> /\ Len(Append(s, e)) = Len(s) + 1
           /\ \A i \in 1..Len(s) : Append(s, e)[i] = s[i]
           /\ Append(s, e)[Len(s) + 1] = e
OBVIOUS

\* The first element and the others
LEMMA SeqTail ==
    ASSUME NEW S, NEW s \in Seq(S), s # <<>>
    PROVE  /\ Head(s) \in S /\ Tail(s) \in Seq(S) /\ Len(Tail(s)) = Len(s) - 1
           /\ \A i \in 1..Len(Tail(s)) : Tail(s)[i] = s[i + 1]
OBVIOUS

\* The empty sequence
LEMMA SeqEmpty ==
    ASSUME NEW S
    PROVE  /\ <<>> \in Seq(S) /\ Len(<<>>) = 0
           /\ \A s \in Seq(S) : s # <<>> => Len(s) \in Nat \ {0}
OBVIOUS

-----------------------------------------------------------------------------
(* PnP: the axes of the tools *)

\* The bookkeeping of the R axes: what is asked of an axis is on it, or is queued for it.
AxesInv ==
    /\ active_tool \in Selectable
    /\ axis_pos = [a \in RAxis |-> axis_pos[a]] /\ asked = [a \in RAxis |-> asked[a]]
    /\ task = [c \in Actor |-> task[c]] /\ \A c \in Actor : task[c].tool \in Selectable
    /\ ToolAxesTrue

\* A tool that can be selected has its axes.
LEMMA ToolFacts ==
    ASSUME NEW t \in Selectable
    PROVE  ROf(t) \in RAxis /\ ZOf(t).stepper \in ZPool /\ ZOf(t).az \in Int
BY PnPAssumption DEF ROf, ZOf, RAxis, Selectable, Tool

\* After the queue is processed every axis is where it was asked to be.
LEMMA FlushedFacts ==
    ASSUME AxesInv
    PROVE  /\ FlushedAxes = [a \in RAxis |-> FlushedAxes[a]]
           /\ \A a \in RAxis : FlushedAxes[a] = asked[a]
<1>1. bound_r \in RAxis
  BY ToolFacts, Zenon DEF AxesInv, ToolAxesTrue
<1>2. QED
  BY <1>1, Zenon DEF AxesInv, ToolAxesTrue, FlushedAxes

\* Up to its next pause a command asks only the bound axis to turn.
LEMMA RunAxes ==
    ASSUME NEW c \in Actor, NEW job, NEW path, NEW m, NEW p,
           Run(c, job, path, m, p),
           bound_r' \in RAxis, asked = [a \in RAxis |-> asked[a]],
           asked[bound_r'] = m.r, job.tool \in Selectable,
           task = [d \in Actor |-> task[d]], \A d \in Actor : task[d].tool \in Selectable
    PROVE  /\ asked' = [a \in RAxis |-> asked'[a]]
           /\ asked'[bound_r'] = commanded'.r
           /\ \A a \in RAxis \ {bound_r'} : asked'[a] = asked[a]
           /\ task' = [d \in Actor |-> task'[d]]
           /\ \A d \in Actor : task'[d].tool \in Selectable
<1>1. CASE asked' = asked /\ commanded' = m /\ task' = [task EXCEPT ![c] = NoTask]
  BY <1>1, Zenon DEF NoTask, Selectable
<1>2. ASSUME NEW q, asked' = [asked EXCEPT ![bound_r'] = q.r], commanded' = q,
             NEW rest, task' = [task EXCEPT ![c] = Paused(job, rest)]
      PROVE  /\ asked' = [a \in RAxis |-> asked'[a]]
             /\ asked'[bound_r'] = commanded'.r
             /\ \A a \in RAxis \ {bound_r'} : asked'[a] = asked[a]
             /\ task' = [d \in Actor |-> task'[d]]
             /\ \A d \in Actor : task'[d].tool \in Selectable
  BY <1>2, Zenon DEF Paused
<1>3. QED
  BY <1>1, <1>2, Zenon DEF Run

\* A command that leaves the tools and the queue alone keeps the bookkeeping.
LEMMA MoveAxes ==
    ASSUME AxesInv, NEW c \in Actor, NEW job, NEW path, NEW p,
           UNCHANGED <<tools, motion>>, job.tool \in Selectable,
           Run(c, job, path, commanded, p)
    PROVE  AxesInv'
<1>1. UNCHANGED <<active_tool, active_z, bound_r, axis_pos>>
  BY Zenon DEF tools, motion
<1>2. bound_r \in RAxis
  BY ToolFacts, Zenon DEF AxesInv, ToolAxesTrue
<1>3. /\ asked' = [a \in RAxis |-> asked'[a]]
      /\ asked'[bound_r'] = commanded'.r
      /\ \A a \in RAxis \ {bound_r'} : asked'[a] = asked[a]
      /\ task' = [d \in Actor |-> task'[d]]
      /\ \A d \in Actor : task'[d].tool \in Selectable
  <2>1. bound_r' \in RAxis /\ asked[bound_r'] = commanded.r
    BY <1>1, <1>2, Zenon DEF AxesInv, ToolAxesTrue
  <2>2. /\ asked = [a \in RAxis |-> asked[a]] /\ task = [d \in Actor |-> task[d]]
        /\ \A d \in Actor : task[d].tool \in Selectable
    BY Zenon DEF AxesInv
  <2>3. QED
    BY <2>1, <2>2, RunAxes, Zenon
<1>4. QED
  BY <1>1, <1>3, Zenon DEF AxesInv, ToolAxesTrue

\* Changing the tool moves every axis to where it was asked to be and reads R from the new one.
LEMMA RebindAxes ==
    ASSUME AxesInv, NEW c \in Actor, NEW t \in Selectable, NEW want, NEW g,
           Rebind(c, t, want, g)
    PROVE  AxesInv'
<1> DEFINE m == [x |-> commanded.x, z |-> commanded.z, r |-> RemoveExtraAxis[ROf(t)]]
<1>1. /\ axis_pos' = FlushedAxes /\ active_z' = ZOf(t) /\ bound_r' = ROf(t) /\ active_tool' = t
      /\ Run(c, Job("safe", t, g, want, TRUE), IF want THEN SafePath(t, m, g) ELSE <<>>,
             m, ToGcode(active_tool, view, m))
  BY Zenon DEF Rebind, RemoveExtraAxis
<1>2. ROf(t) \in RAxis
  BY ToolFacts, Zenon
<1>3. m.r = asked[ROf(t)]
  BY <1>2, FlushedFacts, Zenon DEF RemoveExtraAxis
<1>4. Job("safe", t, g, want, TRUE).tool \in Selectable
  BY Zenon DEF Job
<1> HIDE DEF m
<1>5. /\ asked' = [a \in RAxis |-> asked'[a]]
      /\ asked'[bound_r'] = commanded'.r
      /\ \A a \in RAxis \ {bound_r'} : asked'[a] = asked[a]
      /\ task' = [d \in Actor |-> task'[d]]
      /\ \A d \in Actor : task'[d].tool \in Selectable
  <2>1. bound_r' \in RAxis /\ asked[bound_r'] = m.r
    BY <1>1, <1>2, <1>3, Zenon
  <2>2. /\ asked = [a \in RAxis |-> asked[a]] /\ task = [d \in Actor |-> task[d]]
        /\ \A d \in Actor : task[d].tool \in Selectable
    BY Zenon DEF AxesInv
  <2>3. QED
    BY <1>1, <1>4, <2>1, <2>2, RunAxes, Zenon
<1>6. axis_pos' = [a \in RAxis |-> axis_pos'[a]] /\ \A a \in RAxis : axis_pos'[a] = asked[a]
  BY <1>1, FlushedFacts, Zenon
<1>7. QED
  BY <1>1, <1>5, <1>6, ZenonT(30) DEF AxesInv, ToolAxesTrue

\* Parking asks the bound axis for the R it has.
LEMMA ParkAxes ==
    ASSUME AxesInv, NEW c \in Actor, NEW t \in Selectable, NEW want, Park(c, t, want)
    PROVE  AxesInv'
<1>1. UNCHANGED <<active_tool, active_z, bound_r, axis_pos>>
  BY Zenon DEF Park, tools, motion
<1>2. bound_r \in RAxis
  BY ToolFacts, Zenon DEF AxesInv, ToolAxesTrue
<1>3. CASE UNCHANGED <<commanded, task, asked>>
  BY <1>1, <1>3, Zenon DEF AxesInv, ToolAxesTrue
<1>4. ASSUME NEW m, commanded' = m, asked' = [asked EXCEPT ![bound_r] = m.r],
             NEW g, task' = [task EXCEPT ![c] = Job("park", t, g, want, TRUE)]
      PROVE  AxesInv'
  <2>1. task' = [d \in Actor |-> task'[d]] /\ \A d \in Actor : task'[d].tool \in Selectable
    BY <1>4, Zenon DEF AxesInv, Job
  <2>2. QED
    BY <1>1, <1>2, <1>4, <2>1, Zenon DEF AxesInv, ToolAxesTrue
<1>5. QED
  BY <1>3, <1>4, Zenon DEF Park

\* Init establishes the bookkeeping and every step keeps it.
LEMMA AxesInvariant == PnPSpec => []AxesInv
<1>1. PnPInit => AxesInv
  BY PnPAssumption DEF PnPInit, AxesInv, ToolAxesTrue, Selectable, ROf, RAxis, NoTask
<1>2. AxesInv /\ [PnPNext]_pnpvars => AxesInv'
  <2> SUFFICES ASSUME AxesInv, [PnPNext]_pnpvars PROVE AxesInv'
    BY Zenon
  <2>1. CASE G1
    <3>1. PICK g : MoveTo(Gcode, g, g)
      BY <2>1, Zenon DEF G1
    <3>2. QED
      BY <3>1, MoveAxes, Zenon DEF MoveTo, Job, Actor, AxesInv
  <2>2. CASE PnPGoto
    <3>1. PICK g : SafeMove(Gcode, g)
      BY <2>2, Zenon DEF PnPGoto
    <3>2. QED
      BY <3>1, MoveAxes, Zenon DEF SafeMove, Job, Actor, AxesInv
  <2>3. ASSUME NEW c \in Web, WebMove(c) PROVE AxesInv'
    <3>1. PICK g : SafeMove(c, g) \/ MoveTo(c, g, last_position)
      BY <2>3, Zenon DEF WebMove
    <3>2. QED
      BY <3>1, MoveAxes, ZenonT(30) DEF SafeMove, MoveTo, Job, Actor, AxesInv
  <2>4. ASSUME NEW c \in Actor, Continue(c) PROVE AxesInv'
    BY <2>4, MoveAxes, Zenon DEF Continue, AxesInv
  <2>5. ASSUME NEW c \in Actor, SelectTool(c) PROVE AxesInv'
    BY <2>5, ParkAxes, RebindAxes, Zenon DEF SelectTool
  <2>6. ASSUME NEW c \in Actor, Parked(c) PROVE AxesInv'
    BY <2>6, RebindAxes, Zenon DEF Parked, AxesInv
  <2>7. CASE Flush
    <3>1. axis_pos' = FlushedAxes /\ UNCHANGED <<active_tool, active_z, bound_r, commanded, task, asked>>
      BY <2>7, Zenon DEF Flush, tools
    <3>2. QED
      BY <3>1, FlushedFacts, Zenon DEF AxesInv, ToolAxesTrue
  <2>8. CASE UNCHANGED pnpvars
    BY <2>8, Zenon DEF pnpvars, tools, motion, AxesInv, ToolAxesTrue
  <2>9. QED
    BY <2>1, <2>2, <2>3, <2>4, <2>5, <2>6, <2>7, <2>8, Zenon DEF PnPNext
<1>3. QED
  BY <1>1, <1>2, PTL DEF PnPSpec

\* Whatever commands run at the pauses of others, the Z stepper, the R axis and the active tool
\* belong together and no tool's rotation is forgotten (select_tool, bind_gcode_axis).
THEOREM AxesFollowTool == PnPSpec => []ToolAxesTrue
<1>1. AxesInv => ToolAxesTrue
  BY Zenon DEF AxesInv
<1>2. QED
  BY <1>1, AxesInvariant, PTL

-----------------------------------------------------------------------------
(* The Z actuators.                                                        *)

\* While no command has run at the pause of another: Z is the stroke of the actuator, the
\* head is still at Z = 0 when a wait for parking ends, and with a camera it always is.
AloneInv ==
    /\ StrokeFromPark
    /\ \A c \in Actor : task[c].op = "park" => commanded.z = 0
    /\ active_tool \in Camera => commanded.z = 0 /\ \A c \in Actor : task[c].path = <<>>

StrokeInv ==
    /\ stepper_pos \in [ZPool -> Int] /\ actuator \in [ZPool -> Int] /\ commanded.z \in Int
    /\ disturbed \/ AloneInv

\* A step of c that disturbs nobody finds every other actor without a command.
LEMMA AloneFacts ==
    ASSUME NEW c \in Actor, Disturbs(c), ~disturbed', disturbed \/ AloneInv
    PROVE  AloneInv /\ \A d \in Actor \ {c} : task[d] = NoTask
BY ZenonT(30) DEF Disturbs

LEMMA IdleFacts == NoTask.op # "park" /\ NoTask.path = <<>>
BY Zenon DEF NoTask

\* A path of at most one move is done when the command pauses.
LEMMA ShortPath ==
    ASSUME NEW path, NEW m, NEW q, path = <<>> \/ path = <<q>>
    PROVE  AfterNulls(path, m) = <<>> \/ AfterNulls(path, m) = <<q>>
<1>1. CASE path = <<>>
  BY <1>1 DEF AfterNulls
<1>2. CASE path = <<q>>
  <2> DEFINE moves == {i \in 1..Len(path) : path[i] # m}
             first == CHOOSE i \in moves : \A j \in moves : i <= j
  <2>1. CASE moves = {}
    BY <2>1, Zenon DEF AfterNulls
  <2>2. CASE moves # {}
    <3>1. Len(path) = 1
      BY <1>2, Zenon
    <3>2. moves = {1}
      BY <2>2, <3>1
    <3>3. first = 1
      BY <3>2, SMTT(30)
    <3>4. AfterNulls(path, m) = SubSeq(path, 1, 1)
      BY <2>2, <3>1, <3>3, ZenonT(30) DEF AfterNulls
    <3>5. SubSeq(<<q>>, 1, 1) = <<q>>
      <4>1. <<q>> \in Seq({q})
        OBVIOUS
      <4>2. QED
        BY <4>1, SeqWhole, ZenonT(30)
    <3>6. QED
      BY <1>2, <3>4, <3>5, Zenon
  <2>3. QED
    BY <2>1, <2>2, Zenon
<1>3. QED
  BY <1>1, <1>2, Zenon

\* Up to its next pause a command moves to a Z in range, and does not begin to park; with one
\* move to Z = 0, or none, it stays there and has no move left.
LEMMA RunZ ==
    ASSUME NEW c \in Actor, NEW job, NEW path, NEW m, NEW p,
           Run(c, job, path, m, p), m.z \in Int, task = [d \in Actor |-> task[d]]
    PROVE  /\ commanded'.z \in Int
           /\ job.op # "park" => task'[c].op # "park"
           /\ \A d \in Actor \ {c} : task'[d] = task[d]
           /\ \A q : m.z = 0 /\ (path = <<>> \/ (path = <<q>> /\ q.z = 0))
                 => commanded'.z = 0 /\ task'[c].path = <<>>
<1> DEFINE rest == AfterNulls(path, m)
<1>1. CASE commanded' = m /\ task' = [task EXCEPT ![c] = NoTask]
  BY <1>1, Zenon DEF NoTask
<1>2. CASE /\ rest # <<>> /\ Reachable(Head(rest)) /\ commanded' = Head(rest)
           /\ task' = [task EXCEPT ![c] = Paused(job, Tail(rest))]
  <2>1. commanded'.z \in Int
    BY <1>2, PnPAssumption DEF Reachable, ZRange
  <2>2. task'[c] = Paused(job, Tail(rest)) /\ \A d \in Actor \ {c} : task'[d] = task[d]
    BY <1>2, Zenon
  <2>3. ASSUME NEW q, m.z = 0, path = <<>> \/ (path = <<q>> /\ q.z = 0)
        PROVE  commanded'.z = 0 /\ task'[c].path = <<>>
    <3>1. rest = <<q>>
      BY <1>2, <2>3, ShortPath, ZenonT(30)
    <3>2. path # <<>>
      BY <1>2 DEF AfterNulls
    <3>3. Head(rest) = q /\ Tail(rest) = <<>>
      BY <3>1
    <3>4. QED
      BY <1>2, <2>2, <2>3, <3>2, <3>3, Zenon DEF Paused
  <2>4. QED
    BY <2>1, <2>2, <2>3 DEF Paused
<1>3. QED
  BY <1>1, <1>2, Zenon DEF Run

\* A command that leaves the tools and the queue alone keeps the stroke; with a camera it makes
\* at most one move, to Z = 0.
LEMMA MoveStroke ==
    ASSUME AxesInv, StrokeInv, NEW c \in Actor, NEW job, NEW path, NEW p, NEW q,
           UNCHANGED <<tools, motion>>, Disturbs(c), job.op # "park",
           Run(c, job, path, commanded, p),
           active_tool \in Camera /\ ~disturbed' =>
               path = <<>> \/ (path = <<q>> /\ q.z = 0)
    PROVE  StrokeInv'
<1>1. UNCHANGED <<active_tool, active_z, stepper_pos, actuator>>
  BY Zenon DEF tools, motion
<1>2. /\ commanded'.z \in Int
      /\ task'[c].op # "park"
      /\ \A d \in Actor \ {c} : task'[d] = task[d]
      /\ \A r : commanded.z = 0 /\ (path = <<>> \/ (path = <<r>> /\ r.z = 0))
            => commanded'.z = 0 /\ task'[c].path = <<>>
  BY RunZ DEF StrokeInv, AxesInv
<1>3. ASSUME ~disturbed' PROVE AloneInv'
  <2>1. AloneInv /\ \A d \in Actor \ {c} : task'[d] = NoTask
    BY <1>2, <1>3, AloneFacts, ZenonT(30) DEF StrokeInv
  <2>2. StrokeFromPark'
    BY <1>1, <2>1, ZenonT(30) DEF AloneInv, StrokeFromPark
  <2>3. \A d \in Actor : task'[d].op = "park" => commanded'.z = 0
    BY <1>2, <2>1, IdleFacts, ZenonT(30)
  <2>4. ASSUME active_tool' \in Camera
        PROVE  commanded'.z = 0 /\ \A d \in Actor : task'[d].path = <<>>
    BY <1>1, <1>2, <1>3, <2>1, <2>4, IdleFacts, ZenonT(30) DEF AloneInv
  <2>5. QED
    BY <2>2, <2>3, <2>4, ZenonT(30) DEF AloneInv
<1>4. QED
  BY <1>1, <1>2, <1>3, Zenon DEF StrokeInv

\* Processing the queue brings the actuator to where the toolhead has it.
LEMMA FlushedStroke ==
    ASSUME AxesInv, StrokeInv
    PROVE  /\ active_z.stepper \in ZPool /\ FlushedStepper \in Int
           /\ FlushedActuator \in [ZPool -> Int]
           /\ StrokeFromPark => /\ FlushedActuator[active_z.stepper] = FlushedStepper
                                /\ \A s \in ZPool \ {active_z.stepper} : FlushedActuator[s] = 0
           /\ commanded.z = 0 => FlushedStepper = 0
<1>1. active_z.stepper \in ZPool /\ active_z.az \in Int
  BY ToolFacts, Zenon DEF AxesInv, ToolAxesTrue
<1>2. FlushedStepper \in Int /\ (commanded.z = 0 => FlushedStepper = 0)
  BY <1>1, SMTT(30) DEF FlushedStepper, StrokeInv
<1>3. /\ FlushedActuator \in [ZPool -> Int]
      /\ FlushedActuator[active_z.stepper] =
            actuator[active_z.stepper] + FlushedStepper - stepper_pos[active_z.stepper]
      /\ \A s \in ZPool \ {active_z.stepper} : FlushedActuator[s] = actuator[s]
  BY <1>1, <1>2, SMTT(30) DEF FlushedActuator, StrokeInv
<1>4. QED
  BY <1>1, <1>2, <1>3, SMTT(30) DEF StrokeInv, StrokeFromPark

\* A tool change from Z = 0 leaves every actuator parked.
LEMMA RebindStroke ==
    ASSUME AxesInv, StrokeInv, NEW c \in Actor, NEW t \in Selectable, NEW want, NEW g,
           Rebind(c, t, want, g), Disturbs(c), ~disturbed' => commanded.z = 0
    PROVE  StrokeInv'
<1> DEFINE m == [x |-> commanded.x, z |-> commanded.z, r |-> RemoveExtraAxis[ROf(t)]]
           path == IF want THEN SafePath(t, m, g) ELSE <<>>
           job == Job("safe", t, g, want, TRUE)
           p == ToGcode(active_tool, view, m)
<1>1. /\ actuator' = FlushedActuator /\ stepper_pos' = [s \in ZPool |-> 0]
      /\ active_z' = ZOf(t) /\ active_tool' = t
      /\ Run(c, job, path, m, p)
  BY Zenon DEF Rebind
<1>2. m.z = commanded.z /\ job.op # "park"
  BY Zenon DEF Job
<1>3. ASSUME t \in Camera
      PROVE  path = <<>> \/ (path = <<ToMachine(t, g)>> /\ ToMachine(t, g).z = 0)
  BY <1>3, PnPAssumption, Zenon DEF SafePath, ToMachine
<1> HIDE DEF m, path, job, p
<1>4. /\ commanded'.z \in Int
      /\ task'[c].op # "park"
      /\ \A d \in Actor \ {c} : task'[d] = task[d]
      /\ \A q : m.z = 0 /\ (path = <<>> \/ (path = <<q>> /\ q.z = 0))
            => commanded'.z = 0 /\ task'[c].path = <<>>
  <2>1. m.z \in Int /\ task = [d \in Actor |-> task[d]]
    BY <1>2, Zenon DEF StrokeInv, AxesInv
  <2>2. Run(c, job, path, m, p)
    BY <1>1, ZenonT(30)
  <2>3. /\ commanded'.z \in Int
        /\ job.op # "park" => task'[c].op # "park"
        /\ \A d \in Actor \ {c} : task'[d] = task[d]
        /\ \A q : m.z = 0 /\ (path = <<>> \/ (path = <<q>> /\ q.z = 0))
              => commanded'.z = 0 /\ task'[c].path = <<>>
    BY <2>1, <2>2, RunZ, SMTT(30)
  <2>4. QED
    BY <1>2, <2>3, Zenon
<1>5. ASSUME ~disturbed' PROVE AloneInv'
  <2>1. AloneInv /\ \A d \in Actor \ {c} : task'[d] = NoTask
    BY <1>4, <1>5, AloneFacts, ZenonT(30) DEF StrokeInv
  <2>2. \A s \in ZPool : actuator'[s] = 0 /\ stepper_pos'[s] = 0
    BY <1>1, <1>5, <2>1, FlushedStroke, ZenonT(30) DEF AloneInv
  <2>3. StrokeFromPark'
    <3>1. active_z'.stepper \in ZPool
      BY <1>1, ToolFacts, Zenon
    <3>2. QED
      BY <2>2, <3>1, SMTT(30) DEF StrokeFromPark
  <2>4. \A d \in Actor : task'[d].op = "park" => commanded'.z = 0
    BY <1>4, <2>1, IdleFacts, ZenonT(30)
  <2>5. ASSUME active_tool' \in Camera
        PROVE  commanded'.z = 0 /\ \A d \in Actor : task'[d].path = <<>>
    <3>1. t \in Camera /\ m.z = 0
      BY <1>1, <1>2, <1>5, <2>5, ZenonT(30)
    <3>2. commanded'.z = 0 /\ task'[c].path = <<>>
      BY <1>3, <1>4, <3>1, ZenonT(30)
    <3>3. QED
      BY <2>1, <3>2, IdleFacts, ZenonT(30)
  <2>6. QED
    BY <2>3, <2>4, <2>5, ZenonT(30) DEF AloneInv
<1>6. stepper_pos' \in [ZPool -> Int] /\ actuator' \in [ZPool -> Int]
  BY <1>1, FlushedStroke, SMTT(30)
<1>7. QED
  BY <1>4, <1>5, <1>6, ZenonT(30) DEF StrokeInv

\* Parking moves the head to Z = 0, or fails and moves nothing.
LEMMA ParkStroke ==
    ASSUME AxesInv, StrokeInv, NEW c \in Actor, NEW t \in Selectable, NEW want,
           Park(c, t, want), task[c] = NoTask, Disturbs(c)
    PROVE  StrokeInv'
<1> DEFINE m == ToMachine(active_tool, Lifted(GetPosition))
<1>1. UNCHANGED <<active_tool, active_z, stepper_pos, actuator>>
  BY Zenon DEF Park, tools, motion
<1>2. m.z = 0
  BY Zenon DEF ToMachine, Lifted
<1>3. \/ UNCHANGED <<commanded, task>>
      \/ commanded' = m /\ task' = [task EXCEPT ![c] = Job("park", t, GetPosition, want, TRUE)]
  BY Zenon DEF Park
<1> HIDE DEF m
<1>4. commanded'.z \in Int
  <2>1. commanded' = commanded \/ commanded' = m
    BY <1>3, Zenon
  <2>2. QED
    BY <1>2, <2>1 DEF StrokeInv
<1>5. ASSUME ~disturbed' PROVE AloneInv'
  <2>1. AloneInv
    BY <1>5, AloneFacts, Zenon DEF StrokeInv
  <2>2. StrokeFromPark'
    BY <1>1, <2>1, Zenon DEF AloneInv, StrokeFromPark
  <2>3. CASE UNCHANGED <<commanded, task>>
    BY <1>1, <2>1, <2>2, <2>3, Zenon DEF AloneInv
  <2>4. CASE /\ commanded' = m
             /\ task' = [task EXCEPT ![c] = Job("park", t, GetPosition, want, TRUE)]
    <3>1. \A d \in Actor : task'[d].path = task[d].path
      BY <2>4 DEF AxesInv, Job, NoTask
    <3>2. QED
      BY <1>1, <1>2, <2>1, <2>2, <2>4, <3>1, Zenon DEF AloneInv
  <2>5. QED
    BY <1>3, <2>3, <2>4, ZenonT(30)
<1>6. QED
  BY <1>1, <1>4, <1>5, ZenonT(30) DEF StrokeInv

\* A move with a camera as active tool is one move to Z = 0.
LEMMA CameraMoves ==
    ASSUME NEW t \in Camera, NEW m, NEW g
    PROVE  SafePath(t, m, g) = <<ToMachine(t, g)>> /\ ToMachine(t, g).z = 0
BY PnPAssumption, Zenon DEF SafePath, ToMachine

\* Without a park the head is at Z = 0 already.
LEMMA NoParkAtZero ==
    ASSUME AloneInv, ~NeedsPark
    PROVE  commanded.z = 0
<1>1. CASE active_tool \in Camera
  BY <1>1, ZenonT(30) DEF AloneInv
<1>2. CASE active_tool \notin Camera
  BY <1>2, Zenon DEF NeedsPark, GetPosition, ToGcode
<1>3. QED
  BY <1>1, <1>2, Zenon

\* Init establishes the invariant and every step keeps it.
LEMMA StrokeInvariant == PnPSpec => []StrokeInv
<1>1. PnPInit => StrokeInv
  <2> SUFFICES ASSUME PnPInit PROVE StrokeInv
    BY Zenon
  <2>1. stepper_pos = [s \in ZPool |-> 0] /\ actuator = stepper_pos /\ commanded.z = 0
    BY Zenon DEF PnPInit
  <2>2. active_z.stepper \in ZPool /\ active_tool \notin Camera
    BY ToolFacts, PnPAssumption, ZenonT(30) DEF PnPInit, Selectable, Tool
  <2>3. StrokeFromPark
    BY <2>1, <2>2, ZenonT(30) DEF StrokeFromPark
  <2>4. stepper_pos \in [ZPool -> Int] /\ commanded.z \in Int
    BY <2>1
  <2>5. QED
    BY <2>1, <2>2, <2>3, <2>4, ZenonT(30) DEF StrokeInv, AloneInv
<1>2. AxesInv /\ StrokeInv /\ [PnPNext]_pnpvars => StrokeInv'
  <2> SUFFICES ASSUME AxesInv, StrokeInv, [PnPNext]_pnpvars PROVE StrokeInv'
    BY Zenon
  <2>1. ASSUME NEW c \in Actor, NEW g, NEW p, MoveTo(c, g, p), Disturbs(c) PROVE StrokeInv'
    <3> DEFINE job == Job("move", active_tool, g, FALSE, TRUE)
               q == ToMachine(active_tool, g)
    <3>1. UNCHANGED <<tools, motion>> /\ Run(c, job, <<q>>, commanded, p)
      BY <2>1, Zenon DEF MoveTo
    <3>2. job.op # "park" /\ (active_tool \in Camera => q.z = 0)
      BY CameraMoves, Zenon DEF Job
    <3> HIDE DEF job, q
    <3>3. QED
      BY <2>1, <3>1, <3>2, MoveStroke, ZenonT(30)
  <2>2. ASSUME NEW c \in Actor, NEW g, SafeMove(c, g), Disturbs(c) PROVE StrokeInv'
    <3> DEFINE job == Job("safe", active_tool, g, FALSE, active_tool # NoTool)
               path == SafePath(active_tool, commanded, g)
               q == ToMachine(active_tool, g)
    <3>1. UNCHANGED <<tools, motion>> /\ Run(c, job, path, commanded, last_position)
      BY <2>2, Zenon DEF SafeMove
    <3>2. job.op # "park" /\ (active_tool \in Camera => path = <<q>> /\ q.z = 0)
      BY CameraMoves, Zenon DEF Job
    <3> HIDE DEF job, path, q
    <3>3. QED
      BY <2>2, <3>1, <3>2, MoveStroke, Zenon
  <2>3. CASE G1
    BY <2>3, <2>1, Zenon DEF G1, Starts, Actor
  <2>4. CASE PnPGoto
    BY <2>4, <2>2, ZenonT(30) DEF PnPGoto, Starts, Actor
  <2>5. ASSUME NEW c \in Web, WebMove(c) PROVE StrokeInv'
    BY <2>5, <2>1, <2>2, ZenonT(30) DEF WebMove, Starts, Actor
  <2>6. ASSUME NEW c \in Actor, Continue(c) PROVE StrokeInv'
    <3> DEFINE p == IF task[c].tool = NoTool THEN last_position ELSE GetPosition
    <3>1. /\ UNCHANGED <<tools, motion>> /\ Disturbs(c) /\ task[c].op # "park"
          /\ Run(c, task[c], task[c].path, commanded, p)
      BY <2>6, Zenon DEF Continue
    <3>2. active_tool \in Camera /\ ~disturbed' => task[c].path = <<>>
      BY <3>1, AloneFacts, ZenonT(30) DEF StrokeInv, AloneInv
    <3> HIDE DEF p
    <3>3. QED
      BY <3>1, <3>2, MoveStroke, ZenonT(30)
  <2>7. ASSUME NEW c \in Actor, SelectTool(c) PROVE StrokeInv'
    <3>1. PICK t \in Selectable, want \in BOOLEAN :
             IF NeedsPark THEN Park(c, t, want) ELSE Rebind(c, t, want, GetPosition)
      BY <2>7, Zenon DEF SelectTool
    <3>2. Disturbs(c) /\ task[c] = NoTask
      BY <2>7, Zenon DEF SelectTool, Starts
    <3>3. CASE NeedsPark
      BY <3>1, <3>2, <3>3, ParkStroke, ZenonT(30)
    <3>4. CASE ~NeedsPark
      <4>1. ~disturbed' => commanded.z = 0
        BY <3>2, <3>4, AloneFacts, NoParkAtZero, ZenonT(30) DEF StrokeInv
      <4>2. QED
        BY <3>1, <3>2, <3>4, <4>1, RebindStroke, ZenonT(30)
    <3>5. QED
      BY <3>3, <3>4, ZenonT(30)
  <2>8. ASSUME NEW c \in Actor, Parked(c) PROVE StrokeInv'
    <3>1. /\ task[c].op = "park" /\ Disturbs(c) /\ task[c].tool \in Selectable
          /\ Rebind(c, task[c].tool, task[c].want_move, task[c].dest)
      BY <2>8, Zenon DEF Parked, AxesInv
    <3>2. ~disturbed' => commanded.z = 0
      BY <3>1, AloneFacts, Zenon DEF StrokeInv, AloneInv
    <3>3. QED
      BY <3>1, <3>2, RebindStroke, ZenonT(30)
  <2>9. CASE Flush
    <3>1. /\ stepper_pos' = [stepper_pos EXCEPT ![active_z.stepper] = FlushedStepper]
          /\ actuator' = FlushedActuator
          /\ UNCHANGED <<active_tool, active_z, commanded, task, disturbed>>
      BY <2>9, Zenon DEF Flush, tools
    <3>2. /\ stepper_pos' \in [ZPool -> Int]
          /\ stepper_pos'[active_z.stepper] = FlushedStepper
      BY <3>1, FlushedStroke, Zenon DEF StrokeInv
    <3>3. StrokeFromPark => StrokeFromPark'
      BY <3>1, <3>2, FlushedStroke, ZenonT(30) DEF StrokeFromPark
    <3>4. QED
      BY <3>1, <3>2, <3>3, FlushedStroke, ZenonT(30) DEF StrokeInv, AloneInv
  <2>10. CASE UNCHANGED pnpvars
    BY <2>10, ZenonT(30) DEF pnpvars, tools, motion, StrokeInv, AloneInv, StrokeFromPark
  <2>11. QED
    BY <2>3, <2>4, <2>5, <2>6, <2>7, <2>8, <2>9, <2>10, ZenonT(30) DEF PnPNext
<1>3. QED
  BY <1>1, <1>2, AxesInvariant, PTL DEF PnPSpec

\* As long as no command has run at a pause of another, a nozzle's Z is the stroke of its
\* actuator and every other actuator is parked (_park_z_actuator, _rebind_z).
THEOREM StrokeAlwaysTrueAlone == PnPSpec => []StrokeTrueAlone
<1>1. StrokeInv => StrokeTrueAlone
  BY Zenon DEF StrokeInv, AloneInv, StrokeTrueAlone
<1>2. QED
  BY <1>1, StrokeInvariant, PTL

-----------------------------------------------------------------------------
(* SerialQueue *)

\* The background thread leaves its loop only when it is told to.
EndIsTold == must_exit \in BOOLEAN /\ (bg \in {"exit", "ended"} => must_exit = TRUE)

ReceiverInv == receive_queue \in Nat /\ ReceiverAwake /\ EndIsTold

LEMMA ReceiverInitInv == SQInit => ReceiverInv
<1>1. SQInit => /\ receive_queue = 0 /\ puller = "ready" /\ bg = "poll" /\ must_exit = FALSE
  BY Zenon DEF SQInit
<1>2. 0 \in Nat  BY Zenon
<1>3. QED  BY <1>1, <1>2, ZenonT(30) DEF ReceiverInv, ReceiverAwake, EndIsTold

\* What neither the receiver nor the background thread's end sees.
LEMMA OthersKeep ==
    ASSUME ReceiverInv, UNCHANGED receiver,
           must_exit' = must_exit \/ must_exit' = TRUE,
           \/ bg' = bg \/ bg' \in {"check", "build", "poll"}
           \/ must_exit' = TRUE /\ bg' = "exit"
    PROVE  ReceiverInv'
  BY ZenonT(30) DEF ReceiverInv, ReceiverAwake, EndIsTold, receiver

LEMMA ReceiverNextInv == ReceiverInv /\ [SQNext]_sqvars => ReceiverInv'
<1> SUFFICES ASSUME ReceiverInv, [SQNext]_sqvars PROVE ReceiverInv'  BY Zenon
<1>1. must_exit \in BOOLEAN  BY Zenon DEF ReceiverInv, EndIsTold
<1>2. CASE /\ UNCHANGED <<receiver, must_exit>>
           /\ bg' = bg \/ bg' \in {"check", "build", "poll"}
  BY <1>2, OthersKeep, Zenon
<1>3. CASE \E q \in CommandQueue : BuildTakes(q) \/ (\E r \in Requests[q] : SendBatch(q, r))
  BY <1>2, <1>3, ZenonT(30) DEF BuildTakes, SendBatch
<1>4. CASE KickBgThread \/ SetClockEst \/ McuReply \/ McuPop \/ SQTick
  BY <1>2, <1>4, ZenonT(30) DEF KickBgThread, SetClockEst, McuReply, McuPop, SQTick
<1>5. CASE CommandEventSend \/ BuildDone \/ CommandEventShut \/ CommandEventSleep
  BY <1>2, <1>5, ZenonT(30)
     DEF CommandEventSend, BuildDone, CommandEventShut, CommandEventSleep, Write
<1>6. CASE PollTimeout \/ KickEvent
  <2>1. UNCHANGED <<receiver, must_exit>>  BY <1>6, ZenonT(30) DEF PollTimeout, KickEvent
  <2>2. bg' \in {"check", "build", "poll"} \/ (must_exit' = TRUE /\ bg' = "exit")
    BY <1>1, <1>6, <2>1, ZenonT(30) DEF PollTimeout, KickEvent, Loop
  <2>3. QED  BY <2>1, <2>2, OthersKeep, Zenon
<1>7. CASE HandleMessage
  <2>1. must_exit' = must_exit  BY <1>7, Zenon DEF HandleMessage
  <2>2. bg' \in {"check", "build", "poll"} \/ (must_exit' = TRUE /\ bg' = "exit")
    BY <1>1, <1>7, <2>1, ZenonT(30) DEF HandleMessage, Loop
  <2>3. UNCHANGED receiver \/ (receive_queue' = receive_queue + 1 /\ puller' # "waiting")
    <3>1. WakeReceiver => puller' # "waiting"  BY Zenon DEF WakeReceiver
    <3>2. QED  BY <1>7, <3>1, ZenonT(30) DEF HandleMessage
  <2>4. CASE UNCHANGED receiver  BY <2>1, <2>2, <2>4, OthersKeep, ZenonT(30)
  <2>5. CASE receive_queue' = receive_queue + 1 /\ puller' # "waiting"
    <3>1. receive_queue' \in Nat  BY <2>5, SMTT(30) DEF ReceiverInv
    <3>2. EndIsTold'  BY <1>1, <2>1, <2>2, ZenonT(30) DEF EndIsTold
    <3>3. QED  BY <2>5, <3>1, <3>2, Zenon DEF ReceiverInv, ReceiverAwake
  <2>6. QED  BY <2>3, <2>4, <2>5, ZenonT(30)
<1>8. CASE InputFails \/ SerialqueueExit
  BY <1>8, OthersKeep, ZenonT(30) DEF InputFails, SerialqueueExit
<1>9. CASE BackgroundEnds
  <2>1. puller' # "waiting" /\ receive_queue' = receive_queue /\ must_exit' = must_exit
    BY <1>9, ZenonT(30) DEF BackgroundEnds, WakeReceiver
  <2>2. must_exit = TRUE  BY <1>9, ZenonT(30) DEF BackgroundEnds, ReceiverInv, EndIsTold
  <2>3. QED  BY <2>1, <2>2, ZenonT(30) DEF ReceiverInv, ReceiverAwake, EndIsTold
<1>10. CASE Pull
  <2>1. receive_queue' \in Nat /\ bg' = bg /\ must_exit' = must_exit
    BY <1>10, SMTT(30) DEF Pull, ReceiverInv
  <2>2. puller' = "waiting" => receive_queue' = 0 /\ must_exit = FALSE
    <3>1. ~(receive_queue > 0) => receive_queue = 0  BY SMTT(30) DEF ReceiverInv
    <3>2. QED  BY <1>1, <1>10, <3>1, ZenonT(30) DEF Pull
  <2>3. QED  BY <2>1, <2>2, ZenonT(30) DEF ReceiverInv, ReceiverAwake, EndIsTold
<1>11. CASE UNCHANGED sqvars  BY <1>2, <1>11, ZenonT(30) DEF sqvars
<1>12. QED
  BY <1>3, <1>4, <1>5, <1>6, <1>7, <1>8, <1>9, <1>10, <1>11, ZenonT(30) DEF SQNext

\* check_wake_receive, serialqueue_pull, background_thread: whatever order the threads take
\* the lock in, a receiver that waits has nothing to pull and somebody left to wake it.
THEOREM ReceiverAlwaysAwake == SQInit /\ [][SQNext]_sqvars => []ReceiverAwake
<1>1. ReceiverInv => ReceiverAwake  BY Zenon DEF ReceiverInv
<1>2. QED  BY <1>1, ReceiverInitInv, ReceiverNextInv, PTL

-----------------------------------------------------------------------------
(* VirtualSD: the invariant *)

States == {"standby", "printing", "paused", "cancelled", "error", "complete"}

\* The types, kept by every step by itself
SDTypes ==
    /\ running \in Greenlets \cup {None} /\ holder \in Greenlets \cup {None}
    /\ queue \in Seq(Greenlets) /\ waits \subseteq Greenlets
    /\ cmd \in [Greenlets -> GCodes \cup {"send_pause", None}]
    /\ work \in {"off", "loop", "line", "raised", "error"}
    /\ current_file \in BOOLEAN /\ work_timer \in BOOLEAN /\ must_pause_work \in BOOLEAN
    /\ cmd_from_sd \in BOOLEAN /\ state \in States

\* Who executes a command has the mutex: the sensor's first command alone does not ask for it.
MutexHeld ==
    /\ \A g \in Greenlets : cmd[g] = "send_pause" => g = Sensor
    /\ \A g \in waits : cmd[g] # None /\ (cmd[g] # "send_pause" => holder = g)
    /\ work \in {"line", "raised"} => holder = Work

\* What a command that waits in do_pause relies on
Closing(g) == cmd[g] \in {"CANCEL_PRINT", "SDCARD_RESET_FILE"}
HandlerHeld ==
    /\ work # "off" => work_timer
    /\ cmd_from_sd => work \in {"line", "raised", "error"}
    /\ work \in {"loop", "line"} /\ ~must_pause_work => current_file
    /\ \A g \in waits : Closing(g) => current_file /\ must_pause_work

\* Where the print is in the file
FileFollowed ==
    /\ lines \in 0..Chunk /\ file_position \in 0..Lines /\ next_file_position \in 0..Lines
    /\ ran \in Nat
    /\ work = "off" => lines = 0
    /\ work = "loop" => file_position + lines <= Lines
    /\ work = "line" => next_file_position + lines <= Lines /\ next_file_position = ran + 1
    /\ current_file => file_position = ran

SDInv == SDTypes /\ MutexHeld /\ HandlerHeld /\ FileFollowed

-----------------------------------------------------------------------------
(* Commands *)

\* What every command keeps, whoever executes it and whatever it finds
CommandKept(g) ==
    /\ current_file' \in BOOLEAN /\ work_timer' \in BOOLEAN /\ must_pause_work' \in BOOLEAN
    /\ cmd_from_sd' = cmd_from_sd /\ state' \in States /\ (work_timer => work_timer')
    /\ work \in {"loop", "line"} /\ ~must_pause_work' => current_file'
    /\ \A h \in waits : h # g /\ Closing(h) => current_file' /\ must_pause_work'
    /\ file_position' \in 0..Lines /\ ran' \in Nat /\ (current_file' => file_position' = ran')
    /\ work = "loop" => file_position' = 0 \/ file_position' = file_position
    /\ work = "line" => ran' = ran

\* The mutex lets one command at a time near the file.
LEMMA OneCommand ==
    ASSUME SDInv, NEW g \in Greenlets, cmd[g] # "send_pause",
           (Executes(g) \/ g \in waits)
    PROVE  /\ holder = g /\ cmd[g] # None
           /\ \A h \in waits : h # g => ~Closing(h)
<1>1. holder = g /\ cmd[g] # None  BY Zenon DEF SDInv, MutexHeld, Executes
<1>2. "CANCEL_PRINT" # "send_pause" /\ "SDCARD_RESET_FILE" # "send_pause"  BY Zenon
<1>3. ASSUME NEW h \in waits, h # g, Closing(h) PROVE FALSE
  BY <1>1, <1>2, <1>3, Zenon DEF SDInv, MutexHeld, Closing
<1>4. QED  BY <1>1, <1>3, Zenon

\* A command that leaves the file alone
LEMMA FileUntouched ==
    ASSUME SDInv, NEW g \in Greenlets, UNCHANGED sd, state' \in States, ran' = ran
    PROVE  CommandKept(g)
  BY Zenon DEF SDInv, SDTypes, HandlerHeld, FileFollowed, CommandKept, sd

\* A command that found no handler
LEMMA HandlerOff ==
    ASSUME SDInv, NEW g \in Greenlets, cmd[g] # "send_pause", (Executes(g) \/ g \in waits),
           ~work_timer, current_file' \in BOOLEAN, work_timer' \in BOOLEAN,
           must_pause_work' \in BOOLEAN, cmd_from_sd' = cmd_from_sd, state' \in States,
           file_position' \in 0..Lines, ran' \in Nat, current_file' => file_position' = ran'
    PROVE  CommandKept(g)
<1>1. \A h \in waits : h # g => ~Closing(h)  BY OneCommand, Zenon
<1>2. work = "off"  BY Zenon DEF SDInv, HandlerHeld
<1>3. "off" # "loop" /\ "off" # "line"  BY Zenon
<1>4. QED  BY <1>1, <1>2, <1>3, Zenon DEF CommandKept

\* A command that closes the file
LEMMA FileClosed ==
    ASSUME SDInv, NEW g \in Greenlets, cmd[g] # "send_pause", (Executes(g) \/ g \in waits),
           work \in {"loop", "line"} => must_pause_work \/ ~current_file,
           current_file' = FALSE, file_position' = 0, state' \in States, ran' = ran,
           UNCHANGED <<work_timer, must_pause_work, cmd_from_sd>>
    PROVE  CommandKept(g)
<1>1. \A h \in waits : h # g => ~Closing(h)  BY OneCommand, Zenon
<1>2. 0 \in 0..Lines  BY SDAssumption
<1>3. work \in {"loop", "line"} => must_pause_work  BY Zenon DEF SDInv, HandlerHeld
<1>4. QED  BY <1>1, <1>2, <1>3, Zenon DEF SDInv, SDTypes, FileFollowed, CommandKept

LEMMA NoteTypes ==
    ASSUME state \in States
    PROVE  /\ StatsReset => state' \in States
           /\ NoteStart => state' \in States
           /\ NotePause => state' \in States
           /\ \A s \in States : NoteFinish(s) => state' \in States
  BY Zenon DEF StatsReset, NoteStart, NotePause, NoteFinish, States


\* ran follows the commands that set the position of an open file.
Seeks(c) == c \in {"M23", "M26", "SDCARD_PRINT_FILE"}

LEMMA ExecuteKeeps ==
    ASSUME SDInv, NEW g \in Greenlets, Execute(g)
    PROVE  /\ CommandKept(g) /\ waits' = waits \ {g} /\ running' = None
           /\ lines' = lines /\ next_file_position' = next_file_position
           /\ cmd[g] # None /\ (cmd[g] # "send_pause" => holder = g)
<1>1. /\ Executes(g) \/ g \in waits
      /\ g \in waits => PauseDone
      /\ g \notin waits => ~Pauses(cmd[g])
      /\ Effect(g) /\ waits' = waits \ {g} /\ running' = None
      /\ lines' = lines /\ next_file_position' = next_file_position
      /\ ran' = IF Seeks(cmd[g]) /\ ~work_timer /\ current_file' THEN file_position' ELSE ran
  BY Zenon DEF Execute, Executes, Seeks
<1>2. cmd[g] # None /\ (cmd[g] # "send_pause" => holder = g)
  BY <1>1, Zenon DEF SDInv, MutexHeld, Executes
<1>3. /\ state \in States /\ file_position \in 0..Lines /\ ran \in Nat
      /\ current_file \in BOOLEAN /\ work_timer \in BOOLEAN /\ must_pause_work \in BOOLEAN
      /\ cmd_from_sd \in BOOLEAN /\ (current_file => file_position = ran)
      /\ (cmd_from_sd => work \in {"line", "raised", "error"})
      /\ (work # "off" => work_timer)
  BY Zenon DEF SDInv, SDTypes, FileFollowed, HandlerHeld
<1>4. 0 \in 0..Lines /\ 0 \in Nat /\ \A p \in 0..Lines : p \in Nat  BY SDAssumption
<1>5. CommandKept(g)
  <2>1. CASE UNCHANGED <<sd, stats>>
    <3>1. state' \in States /\ current_file' = current_file /\ file_position' = file_position
      BY <1>3, <2>1, Zenon DEF stats, sd
    <3>2. CASE ran' = ran  BY <2>1, <3>1, <3>2, FileUntouched, Zenon
    <3>3. CASE ran' # ran
      <4>1. ran' = file_position' /\ current_file'  BY <1>1, <3>3, Zenon
      <4>2. QED  BY <1>3, <3>1, <3>3, <4>1, Zenon
    <3>4. QED  BY <3>2, <3>3, Zenon
  <2>2. CASE cmd[g] = "M23" /\ M23
    <3>1. CASE work_timer  BY <2>1, <2>2, <3>1, Zenon DEF M23
    <3>2. CASE ~work_timer
      <4>1. /\ current_file' \in BOOLEAN /\ file_position' = 0 /\ StatsReset
            /\ UNCHANGED <<work_timer, must_pause_work, cmd_from_sd>>
        BY <2>2, <3>2, Zenon DEF M23
      <4>2. Seeks(cmd[g]) /\ cmd[g] # "send_pause"  BY <2>2, Zenon DEF Seeks
      <4>3. ran' \in Nat /\ (current_file' => file_position' = ran')
        BY <1>1, <1>3, <1>4, <3>2, <4>1, <4>2, Zenon
      <4>4. state' \in States  BY <1>3, <4>1, NoteTypes, Zenon
      <4>5. QED  BY <1>1, <1>3, <1>4, <3>2, <4>1, <4>2, <4>3, <4>4, HandlerOff, Zenon
    <3>3. QED  BY <3>1, <3>2, Zenon
  <2>3. CASE cmd[g] = "M24" /\ M24
    <3>1. CASE work_timer  BY <2>1, <2>3, <3>1, Zenon DEF M24, stats
    <3>2. CASE ~work_timer
      <4>1. DoResume /\ state' = state  BY <2>3, <3>2, Zenon DEF M24, stats
      <4>2. ~Seeks(cmd[g]) /\ cmd[g] # "send_pause"  BY <2>3, Zenon DEF Seeks
      <4>3. QED  BY <1>1, <1>3, <3>2, <4>1, <4>2, HandlerOff, Zenon DEF DoResume
    <3>3. QED  BY <3>1, <3>2, Zenon
  <2>4. CASE cmd[g] = "M26" /\ M26
    <3>1. CASE work_timer  BY <2>1, <2>4, <3>1, Zenon DEF M26, sd
    <3>2. CASE ~work_timer
      <4>1. /\ file_position' \in 0..Lines /\ state' = state
            /\ UNCHANGED <<current_file, work_timer, must_pause_work, cmd_from_sd>>
        BY <2>4, <3>2, Zenon DEF M26, stats
      <4>2. Seeks(cmd[g]) /\ cmd[g] # "send_pause"  BY <2>4, Zenon DEF Seeks
      <4>3. ran' \in Nat /\ (current_file' => file_position' = ran')
        BY <1>1, <1>3, <1>4, <3>2, <4>1, <4>2, Zenon
      <4>4. QED  BY <1>1, <1>3, <3>2, <4>1, <4>2, <4>3, HandlerOff, Zenon
    <3>3. QED  BY <3>1, <3>2, Zenon
  <2>5. CASE cmd[g] = "SDCARD_PRINT_FILE" /\ PrintFile
    <3>1. CASE work_timer  BY <2>1, <2>5, <3>1, Zenon DEF PrintFile
    <3>2. CASE ~work_timer
      <4>1. /\ current_file' \in BOOLEAN /\ file_position' = 0 /\ StatsReset
            /\ work_timer' = current_file' /\ cmd_from_sd' = cmd_from_sd
            /\ must_pause_work' = IF current_file' THEN FALSE ELSE must_pause_work
        BY <2>5, <3>2, Zenon DEF PrintFile
      <4>2. Seeks(cmd[g]) /\ cmd[g] # "send_pause"  BY <2>5, Zenon DEF Seeks
      <4>3. ran' \in Nat /\ (current_file' => file_position' = ran')
        BY <1>1, <1>3, <1>4, <3>2, <4>1, <4>2, Zenon
      <4>4. state' \in States  BY <1>3, <4>1, NoteTypes, Zenon
      <4>5. must_pause_work' \in BOOLEAN  BY <1>3, <4>1, Zenon
      <4>6. QED  BY <1>1, <1>4, <3>2, <4>1, <4>2, <4>3, <4>4, <4>5, HandlerOff, Zenon
    <3>3. QED  BY <3>1, <3>2, Zenon
  <2>6. CASE cmd[g] = "SDCARD_RESET_FILE" /\ ResetFile
    <3>1. CASE cmd_from_sd  BY <2>1, <2>6, <3>1, Zenon DEF ResetFile
    <3>2. CASE ~cmd_from_sd
      <4>1. /\ current_file' = FALSE /\ file_position' = 0 /\ StatsReset
            /\ UNCHANGED <<work_timer, must_pause_work, cmd_from_sd>>
        BY <2>6, <3>2, Zenon DEF ResetFile
      <4>2. ~Seeks(cmd[g]) /\ cmd[g] # "send_pause"  BY <2>6, Zenon DEF Seeks
      <4>3. state' \in States /\ ran' = ran  BY <1>1, <1>3, <4>1, <4>2, NoteTypes, Zenon
      <4>4. work \in {"loop", "line"} => ~current_file
        <5>1. ~work_timer \/ ~current_file  BY <1>1, <2>6, <3>2, Zenon DEF Pauses, PauseDone
        <5>2. "off" # "loop" /\ "off" # "line"  BY Zenon
        <5>3. QED  BY <1>3, <5>1, <5>2, Zenon
      <4>5. QED  BY <1>1, <4>1, <4>2, <4>3, <4>4, FileClosed, Zenon
    <3>3. QED  BY <3>1, <3>2, Zenon
  <2>7. CASE cmd[g] = "CANCEL_PRINT" /\ CancelPrint(g)
    <3>1. CASE ~(work_timer \/ sd_paused \/ g \in waits)
      BY <2>1, <2>7, <3>1, Zenon DEF CancelPrint
    <3>2. CASE work_timer \/ sd_paused \/ g \in waits
      <4>1. DoCancel  BY <2>7, <3>2, Zenon DEF CancelPrint
      <4>2. /\ current_file' = FALSE /\ file_position' = 0
            /\ UNCHANGED <<work_timer, must_pause_work, cmd_from_sd>>
        BY <4>1, Zenon DEF DoCancel
      <4>3. ~Seeks(cmd[g]) /\ cmd[g] # "send_pause"  BY <2>7, Zenon DEF Seeks
      <4>4. state' \in States
        <5>1. NoteFinish("cancelled") \/ state' = state  BY <4>1, Zenon DEF DoCancel, stats
        <5>2. "cancelled" \in States  BY Zenon DEF States
        <5>3. QED  BY <1>3, <5>1, <5>2, NoteTypes, Zenon
      <4>5. work \in {"loop", "line"} => must_pause_work \/ ~current_file
        <5>1. CASE g \in waits
          BY <2>7, <5>1, Zenon DEF SDInv, HandlerHeld, Closing
        <5>2. CASE g \notin waits
          <6>1. ~work_timer \/ ~current_file  BY <1>1, <2>7, <5>2, Zenon DEF Pauses
          <6>2. "off" # "loop" /\ "off" # "line"  BY Zenon
          <6>3. QED  BY <1>3, <6>1, <6>2, Zenon
        <5>3. QED  BY <5>1, <5>2, Zenon
      <4>6. ran' = ran  BY <1>1, <4>3, Zenon
      <4>7. QED  BY <1>1, <4>2, <4>3, <4>4, <4>5, <4>6, FileClosed, Zenon
    <3>3. QED  BY <3>1, <3>2, Zenon
  <2>8. CASE cmd[g] = "RESUME" /\ Resume
    <3>1. CASE UNCHANGED sd  BY <2>1, <2>8, <3>1, Zenon DEF Resume
    <3>2. CASE ~UNCHANGED sd
      <4>1. DoResume /\ state' = state /\ ~work_timer  BY <2>8, <3>2, Zenon DEF Resume, stats
      <4>2. ~Seeks(cmd[g]) /\ cmd[g] # "send_pause"  BY <2>8, Zenon DEF Seeks
      <4>3. QED  BY <1>1, <1>3, <4>1, <4>2, HandlerOff, Zenon DEF DoResume
    <3>3. QED  BY <3>1, <3>2, Zenon
  <2>9. QED
    BY <1>1, <2>1, <2>2, <2>3, <2>4, <2>5, <2>6, <2>7, <2>8, Zenon
       DEF Effect, Pause, stats, sd
<1>6. QED  BY <1>1, <1>2, <1>5, Zenon


-----------------------------------------------------------------------------
(* Steps *)

LEMMA Names ==
    /\ Work \in Greenlets /\ Sensor \in Greenlets /\ Clients \subseteq Greenlets
    /\ Work # Sensor /\ None \notin Greenlets /\ Work \notin Clients /\ Sensor \notin Clients
    /\ "send_pause" \notin GCodes /\ None \notin GCodes /\ None # "send_pause"
    /\ "PAUSE" \in GCodes /\ Commands \subseteq GCodes
  BY SDAssumption, Zenon DEF Greenlets, Work, Sensor, None, GCodes

LEMMA LockTypes ==
    ASSUME SDTypes, NEW g \in Greenlets, Lock(g)
    PROVE  /\ holder' \in Greenlets \cup {None} /\ queue' \in Seq(Greenlets)
           /\ holder # None => holder' = holder
<1>1. Append(queue, g) \in Seq(Greenlets)  BY SeqAppend, Zenon DEF SDTypes
<1>2. QED  BY <1>1, Zenon DEF Lock, SDTypes

LEMMA UnlockTypes ==
    ASSUME SDTypes, Unlock
    PROVE  holder' \in Greenlets \cup {None} /\ queue' \in Seq(Greenlets)
<1>1. queue # <<>> => Head(queue) \in Greenlets /\ Tail(queue) \in Seq(Greenlets)
  BY SeqTail, Zenon DEF SDTypes
<1>2. QED  BY <1>1, Zenon DEF Unlock, SDTypes

\* A command that was executed, after which cmd[g] is c
LEMMA AfterCommand ==
    ASSUME SDInv, NEW g \in Greenlets, Execute(g),
           NEW c \in GCodes \cup {None}, cmd' = [cmd EXCEPT ![g] = c],
           holder' \in Greenlets \cup {None}, queue' \in Seq(Greenlets),
           work' = work \/ (work = "line" /\ work' = "raised"),
           work' \in {"line", "raised"} => holder' = Work,
           \A h \in waits : h # g /\ holder = h => holder' = h
    PROVE  SDInv'
<1>1. /\ CommandKept(g) /\ waits' = waits \ {g} /\ running' = None
      /\ lines' = lines /\ next_file_position' = next_file_position
      /\ cmd[g] # None /\ (cmd[g] # "send_pause" => holder = g)
  BY ExecuteKeeps, Zenon
<1>2. /\ cmd \in [Greenlets -> GCodes \cup {"send_pause", None}]
      /\ waits \subseteq Greenlets /\ work \in {"off", "loop", "line", "raised", "error"}
      /\ cmd_from_sd \in BOOLEAN
  BY Zenon DEF SDInv, SDTypes
<1>3. /\ cmd'[g] = c /\ \A h \in Greenlets : h # g => cmd'[h] = cmd[h]
      /\ cmd' \in [Greenlets -> GCodes \cup {"send_pause", None}]
  BY <1>2, Zenon
<1>4. \A h \in waits' : h \in waits /\ h # g /\ h \in Greenlets /\ cmd'[h] = cmd[h]
  BY <1>1, <1>2, <1>3, Zenon
<1>5. work' \in {"off", "loop", "line", "raised", "error"} /\ "raised" # "off" /\ "raised" # "loop"
      /\ "raised" # "line"
  BY <1>2, Zenon
<1>6. SDTypes'
  BY <1>1, <1>2, <1>3, <1>5, Zenon DEF SDTypes, CommandKept
<1>7. MutexHeld'
  <2>1. c # "send_pause"  BY Names, Zenon
  <2>2. \A h \in Greenlets : cmd'[h] = "send_pause" => h = Sensor
    BY <1>3, <2>1, Zenon DEF SDInv, MutexHeld
  <2>3. \A h \in waits' : cmd'[h] # None /\ (cmd'[h] # "send_pause" => holder' = h)
    BY <1>4, Zenon DEF SDInv, MutexHeld
  <2>4. QED  BY <2>2, <2>3, Zenon DEF MutexHeld
<1>8. HandlerHeld'
  <2>0. "line" # "off"  BY Zenon
  <2>1. \A h \in waits' : Closing(h)' => current_file' /\ must_pause_work'
    BY <1>1, <1>4, Zenon DEF CommandKept, Closing
  <2>2. work' # "off" => work_timer'
    BY <1>1, <1>5, <2>0, Zenon DEF SDInv, HandlerHeld, CommandKept
  <2>3. cmd_from_sd' => work' \in {"line", "raised", "error"}
    BY <1>1, Zenon DEF SDInv, HandlerHeld, CommandKept
  <2>4. work' \in {"loop", "line"} /\ ~must_pause_work' => current_file'
    BY <1>1, <1>5, Zenon DEF CommandKept
  <2>5. QED  BY <2>1, <2>2, <2>3, <2>4, Zenon DEF HandlerHeld
<1>9. FileFollowed'
  <2>1. work' = "loop" => file_position' + lines' <= Lines
    <3>1. ASSUME work' = "loop" PROVE file_position' + lines' <= Lines
      <4>1. work = "loop"  BY <1>5, <3>1, Zenon
      <4>2. file_position + lines <= Lines /\ file_position \in 0..Lines /\ lines \in 0..Chunk
        BY <4>1, Zenon DEF SDInv, FileFollowed
      <4>3. file_position' = 0 \/ file_position' = file_position
        BY <1>1, <4>1, Zenon DEF CommandKept
      <4>4. QED  BY <1>1, <4>2, <4>3, SDAssumption
    <3>2. QED  BY <3>1, Zenon
  <2>2. QED  BY <1>1, <1>5, <2>1, Zenon DEF SDInv, FileFollowed, CommandKept
<1>10. QED  BY <1>6, <1>7, <1>8, <1>9, Zenon DEF SDInv

LEMMA ClientExecutesKeeps ==
    ASSUME SDInv, NEW g \in Greenlets, g # Work, cmd[g] # "send_pause", ClientExecutes(g)
    PROVE  SDInv'
<1>1. Execute(g) /\ cmd' = [cmd EXCEPT ![g] = None] /\ Unlock /\ work' = work
  BY Zenon DEF ClientExecutes
<1>2. holder = g  BY <1>1, ExecuteKeeps, Zenon
<1>3. holder' \in Greenlets \cup {None} /\ queue' \in Seq(Greenlets)
  BY <1>1, UnlockTypes, Zenon DEF SDInv
<1>4. ~(work \in {"line", "raised"})  BY <1>2, Zenon DEF SDInv, MutexHeld
<1>5. QED  BY <1>1, <1>2, <1>3, <1>4, AfterCommand, Zenon

LEMMA RunoutPausedKeeps ==
    ASSUME SDInv, RunoutPaused
    PROVE  SDInv'
<1>1. /\ Execute(Sensor) /\ cmd' = [cmd EXCEPT ![Sensor] = "PAUSE"]
      /\ holder' = holder /\ queue' = queue /\ work' = work
  BY Zenon DEF RunoutPaused, mutex
<1>2. /\ holder \in Greenlets \cup {None} /\ queue \in Seq(Greenlets)
      /\ (work \in {"line", "raised"} => holder = Work)
      /\ (work = "raised" => holder = Work)
  BY Zenon DEF SDInv, SDTypes, MutexHeld
<1>3. QED  BY <1>1, <1>2, Names, AfterCommand, Zenon

LEMMA LineExecutesKeeps ==
    ASSUME SDInv, LineExecutes
    PROVE  SDInv'
<1>1. /\ Execute(Work) /\ cmd' = [cmd EXCEPT ![Work] = None]
      /\ holder' = holder /\ queue' = queue
      /\ work' = IF work = "line" /\ Raises(cmd[Work]) THEN "raised" ELSE work
  BY Zenon DEF LineExecutes, mutex
<1>2. /\ holder \in Greenlets \cup {None} /\ queue \in Seq(Greenlets)
      /\ (work \in {"line", "raised"} => holder = Work)
  BY Zenon DEF SDInv, SDTypes, MutexHeld
<1>3. work' \in {"line", "raised"} => holder' = Work  BY <1>1, <1>2, Zenon
<1>4. QED  BY <1>1, <1>2, <1>3, Names, AfterCommand, Zenon


\* Steps that leave the command of everyone who waits, and the file, as they are
LEMMA DoPauseKeeps ==
    ASSUME SDInv, NEW g \in Greenlets, DoPause(g)
    PROVE  SDInv'
<1>1. /\ Executes(g) /\ Pauses(cmd[g]) /\ must_pause_work' = TRUE /\ waits' = waits \cup {g}
      /\ running' = IF cmd_from_sd THEN g ELSE None
      /\ UNCHANGED <<mutex, cmd, handler, current_file, file_position, work_timer,
                     cmd_from_sd, stats, ran>>
  BY Zenon DEF DoPause
<1>2. /\ holder' = holder /\ queue' = queue /\ work' = work /\ lines' = lines
      /\ next_file_position' = next_file_position /\ state' = state
  BY <1>1, Zenon DEF mutex, handler, stats
<1>3. Closing(g) => current_file
  <2>1. /\ "CANCEL_PRINT" \notin {"M25", "PAUSE", "send_pause", "SDCARD_RESET_FILE"}
        /\ "SDCARD_RESET_FILE" \notin {"M25", "PAUSE", "send_pause", "CANCEL_PRINT"}
    BY Zenon
  <2>2. QED  BY <1>1, <2>1, Zenon DEF Pauses, Closing
<1>4. SDTypes'  BY <1>1, <1>2, Zenon DEF SDInv, SDTypes
<1>5. MutexHeld'  BY <1>1, <1>2, Zenon DEF SDInv, MutexHeld, Executes
<1>6. HandlerHeld'
  BY <1>1, <1>2, <1>3, Zenon DEF SDInv, HandlerHeld, Closing
<1>7. FileFollowed'  BY <1>1, <1>2, Zenon DEF SDInv, FileFollowed
<1>8. QED  BY <1>4, <1>5, <1>6, <1>7, Zenon DEF SDInv

\* g begins command c, and may ask for the mutex.
LEMMA BeginKeeps ==
    ASSUME SDInv, NEW g \in Greenlets, NEW c, cmd[g] = None \/ cmd[g] = c,
           c \in GCodes \cup {"send_pause"}, c = "send_pause" => g = Sensor,
           cmd' = [cmd EXCEPT ![g] = c],
           holder' \in Greenlets \cup {None}, queue' \in Seq(Greenlets),
           holder # None => holder' = holder, running' \in Greenlets \cup {None},
           UNCHANGED <<waits, handler, sd, stats, ran>>
    PROVE  SDInv'
<1>1. /\ waits' = waits /\ work' = work /\ lines' = lines
      /\ next_file_position' = next_file_position /\ state' = state /\ ran' = ran
      /\ current_file' = current_file /\ file_position' = file_position
      /\ work_timer' = work_timer /\ must_pause_work' = must_pause_work
      /\ cmd_from_sd' = cmd_from_sd
  BY Zenon DEF handler, sd, stats
<1>2. /\ cmd \in [Greenlets -> GCodes \cup {"send_pause", None}] /\ waits \subseteq Greenlets
  BY Zenon DEF SDInv, SDTypes
<1>3. /\ cmd'[g] = c /\ \A h \in Greenlets : h # g => cmd'[h] = cmd[h]
      /\ cmd' \in [Greenlets -> GCodes \cup {"send_pause", None}]
  BY <1>2, Zenon
<1>4. \A h \in waits : cmd'[h] = cmd[h]
  BY <1>2, <1>3, Zenon DEF SDInv, MutexHeld
<1>5. SDTypes'  BY <1>1, <1>3, Zenon DEF SDInv, SDTypes
<1>6. MutexHeld'
  <2>1. \A h \in Greenlets : h # None  BY Names, Zenon
  <2>2. \A h \in waits' : cmd'[h] # None /\ (cmd'[h] # "send_pause" => holder' = h)
    BY <1>1, <1>2, <1>4, <2>1, Zenon DEF SDInv, MutexHeld
  <2>3. work' \in {"line", "raised"} => holder' = Work
    BY <1>1, <2>1, Names, Zenon DEF SDInv, MutexHeld
  <2>4. \A h \in Greenlets : cmd'[h] = "send_pause" => h = Sensor
    BY <1>3, Zenon DEF SDInv, MutexHeld
  <2>5. QED  BY <2>2, <2>3, <2>4, Zenon DEF MutexHeld
<1>7. HandlerHeld'  BY <1>1, <1>4, Zenon DEF SDInv, HandlerHeld, Closing
<1>8. FileFollowed'  BY <1>1, Zenon DEF SDInv, FileFollowed
<1>9. QED  BY <1>5, <1>6, <1>7, <1>8, Zenon DEF SDInv

LEMMA RequestKeeps ==
    ASSUME SDInv, NEW g \in Clients, NEW c \in Commands, Request(g, c)
    PROVE  SDInv'
<1>1. g \in Greenlets /\ c \in GCodes /\ c # "send_pause"  BY Names, Zenon
<1>2. /\ cmd[g] = None /\ cmd' = [cmd EXCEPT ![g] = c] /\ Lock(g)
      /\ running' = (IF holder = None THEN g ELSE None)
      /\ UNCHANGED <<waits, handler, sd, stats, ran>>
  BY Zenon DEF Request
<1>3. /\ holder' \in Greenlets \cup {None} /\ queue' \in Seq(Greenlets)
      /\ holder # None => holder' = holder
  BY <1>1, <1>2, LockTypes, Zenon DEF SDInv
<1>4. running' \in Greenlets \cup {None}  BY <1>1, <1>2, Zenon
<1>5. QED  BY <1>1, <1>2, <1>3, <1>4, BeginKeeps, Zenon

LEMMA RunoutEventKeeps ==
    ASSUME SDInv, RunoutEvent
    PROVE  SDInv'
<1>1. /\ cmd[Sensor] = None /\ cmd' = [cmd EXCEPT ![Sensor] = "send_pause"]
      /\ running' = Sensor /\ holder' = holder /\ queue' = queue
      /\ UNCHANGED <<waits, handler, sd, stats, ran>>
  BY Zenon DEF RunoutEvent, mutex
<1>2. holder \in Greenlets \cup {None} /\ queue \in Seq(Greenlets)
  BY Zenon DEF SDInv, SDTypes
<1>3. QED  BY <1>1, <1>2, Names, BeginKeeps, Zenon

LEMMA RunoutScriptKeeps ==
    ASSUME SDInv, RunoutScript
    PROVE  SDInv'
<1>1. /\ cmd[Sensor] = "PAUSE" /\ cmd' = cmd /\ Lock(Sensor)
      /\ running' = (IF holder = None THEN Sensor ELSE None)
      /\ UNCHANGED <<waits, handler, sd, stats, ran>>
  BY Zenon DEF RunoutScript
<1>2. cmd' = [cmd EXCEPT ![Sensor] = "PAUSE"]
  <2>1. cmd \in [Greenlets -> GCodes \cup {"send_pause", None}]  BY Zenon DEF SDInv, SDTypes
  <2>2. QED  BY <1>1, <2>1, Zenon
<1>3. /\ holder' \in Greenlets \cup {None} /\ queue' \in Seq(Greenlets)
      /\ holder # None => holder' = holder
  BY <1>1, Names, LockTypes, Zenon DEF SDInv
<1>4. running' \in Greenlets \cup {None}  BY <1>1, Names, Zenon
<1>5. "PAUSE" # "send_pause"  BY Zenon
<1>6. QED  BY <1>1, <1>2, <1>3, <1>4, <1>5, Names, BeginKeeps, Zenon

LEMMA LineCommandKeeps ==
    ASSUME SDInv, NEW c \in Commands, LineCommand(c)
    PROVE  SDInv'
<1>1. /\ cmd[Work] = None /\ cmd' = [cmd EXCEPT ![Work] = c]
      /\ running' = Work /\ holder' = holder /\ queue' = queue
      /\ UNCHANGED <<waits, handler, sd, stats, ran>>
  BY Zenon DEF LineCommand, mutex
<1>2. holder \in Greenlets \cup {None} /\ queue \in Seq(Greenlets)
  BY Zenon DEF SDInv, SDTypes
<1>3. c \in GCodes /\ c # "send_pause"  BY Names, Zenon
<1>4. QED  BY <1>1, <1>2, <1>3, Names, BeginKeeps, Zenon


-----------------------------------------------------------------------------
(* The work handler *)

LEMMA WorkNames ==
    /\ "off" \notin {"loop", "line", "raised", "error"} /\ "loop" \notin {"line", "raised", "error"}
    /\ "line" \notin {"raised", "error"} /\ "raised" # "error"
  BY Zenon

\* While no one else has the mutex, only the sensor may wait.
LEMMA NobodyWaits ==
    ASSUME SDInv, holder = None \/ (holder = Work /\ cmd[Work] = None)
    PROVE  \A h \in waits : cmd[h] = "send_pause" /\ ~Closing(h)
<1>1. ASSUME NEW h \in waits, cmd[h] # "send_pause" PROVE FALSE
  <2>1. h \in Greenlets /\ holder = h /\ cmd[h] # None
    BY <1>1, Zenon DEF SDInv, SDTypes, MutexHeld
  <2>2. QED  BY <2>1, Names, Zenon
<1>2. "CANCEL_PRINT" # "send_pause" /\ "SDCARD_RESET_FILE" # "send_pause"  BY Zenon
<1>3. QED  BY <1>1, <1>2, Zenon DEF Closing

\* The handler hands the mutex on, or takes it.
LEMMA MutexMoves ==
    ASSUME SDInv, UNCHANGED <<cmd, waits>>,
           holder' = holder \/ holder = None \/ (holder = Work /\ cmd[Work] = None),
           work' \in {"line", "raised"} => holder' = Work
    PROVE  MutexHeld'
<1>1. CASE holder' = holder  BY <1>1, Zenon DEF SDInv, MutexHeld
<1>2. CASE holder' # holder
  <2>1. \A h \in waits : cmd[h] = "send_pause"  BY <1>2, NobodyWaits, Zenon
  <2>2. None # "send_pause"  BY Names, Zenon
  <2>3. QED  BY <2>1, <2>2, Zenon DEF SDInv, MutexHeld
<1>3. QED  BY <1>1, <1>2, Zenon

LEMMA ExitKeeps ==
    ASSUME SDInv, NEW error \in BOOLEAN, Exit(error), UNCHANGED <<cmd, waits, ran>>,
           current_file' = current_file \/ (current_file' = FALSE /\ ~must_pause_work),
           holder' \in Greenlets \cup {None}, queue' \in Seq(Greenlets),
           holder' = holder \/ (holder = Work /\ cmd[Work] = None)
    PROVE  SDInv'
<1>1. /\ work' = "off" /\ lines' = 0 /\ work_timer' = FALSE /\ cmd_from_sd' = FALSE
      /\ running' = None /\ must_pause_work' = must_pause_work
      /\ file_position' = file_position /\ next_file_position' = next_file_position
  BY Zenon DEF Exit
<1>2. state' \in States
  <2>1. NoteFinish("error") \/ NotePause \/ NoteFinish("complete")  BY Zenon DEF Exit
  <2>2. "error" \in States /\ "complete" \in States  BY Zenon DEF States
  <2>3. state \in States  BY Zenon DEF SDInv, SDTypes
  <2>4. QED  BY <2>1, <2>2, <2>3, NoteTypes, Zenon
<1>3. SDTypes'  BY <1>1, <1>2, Zenon DEF SDInv, SDTypes
<1>4. MutexHeld'  BY <1>1, WorkNames, MutexMoves, Zenon
<1>5. HandlerHeld'  BY <1>1, WorkNames, Zenon DEF SDInv, HandlerHeld, Closing
<1>6. FileFollowed'
  <2>1. 0 \in 0..Chunk  BY SDAssumption
  <2>2. current_file' => file_position' = ran'  BY <1>1, Zenon DEF SDInv, FileFollowed
  <2>3. work' # "loop" /\ work' # "line"  BY <1>1, WorkNames, Zenon
  <2>4. QED  BY <1>1, <2>1, <2>2, <2>3, Zenon DEF SDInv, FileFollowed
<1>7. QED  BY <1>3, <1>4, <1>5, <1>6, Zenon DEF SDInv

LEMMA WorkStartKeeps ==
    ASSUME SDInv, WorkStart
    PROVE  SDInv'
<1>1. /\ work = "off" /\ work_timer
      /\ holder' = holder /\ queue' = queue
      /\ UNCHANGED <<cmd, waits, lines, next_file_position, current_file, file_position,
                     must_pause_work, cmd_from_sd, ran>>
  BY Zenon DEF WorkStart, mutex
<1>2. \/ current_file /\ work' = "loop" /\ running' = Work /\ NoteStart /\ work_timer' = work_timer
      \/ ~current_file /\ work_timer' = FALSE /\ running' = None /\ work' = work /\ state' = state
  BY Zenon DEF WorkStart, stats
<1>3. work' \in {"off", "loop"} /\ state' \in States /\ work_timer' \in BOOLEAN
      /\ running' \in Greenlets \cup {None}
  <2>1. state \in States /\ work_timer \in BOOLEAN  BY Zenon DEF SDInv, SDTypes
  <2>2. QED  BY <1>1, <1>2, <2>1, NoteTypes, Names, Zenon
<1>4. SDTypes'  BY <1>1, <1>3, Zenon DEF SDInv, SDTypes
<1>5. MutexHeld'  BY <1>1, <1>3, WorkNames, MutexMoves, Zenon
<1>6. HandlerHeld'
  <2>1. ~cmd_from_sd  BY <1>1, WorkNames, Zenon DEF SDInv, HandlerHeld
  <2>2. \A h \in waits' : Closing(h)' => current_file' /\ must_pause_work'
    BY <1>1, Zenon DEF SDInv, HandlerHeld, Closing
  <2>3. QED  BY <1>1, <1>2, <1>3, <2>1, <2>2, WorkNames, Zenon DEF HandlerHeld
<1>7. FileFollowed'
  <2>1. lines = 0 /\ file_position \in 0..Lines  BY <1>1, Zenon DEF SDInv, FileFollowed
  <2>2. file_position' + lines' <= Lines  BY <1>1, <2>1, SDAssumption
  <2>3. QED  BY <1>1, <1>3, <2>1, <2>2, WorkNames, Zenon DEF SDInv, FileFollowed
<1>8. QED  BY <1>4, <1>5, <1>6, <1>7, Zenon DEF SDInv

LEMMA LoopExitKeeps ==
    ASSUME SDInv, LoopPaused \/ LoopReadFails \/ LoopEndOfFile
    PROVE  SDInv'
<1>1. /\ Exit(FALSE) /\ UNCHANGED <<cmd, waits, ran>> /\ holder' = holder /\ queue' = queue
      /\ current_file' = current_file \/ (current_file' = FALSE /\ ~must_pause_work)
  BY Zenon DEF LoopPaused, LoopReadFails, LoopEndOfFile, AtLoop, mutex
<1>2. holder \in Greenlets \cup {None} /\ queue \in Seq(Greenlets)
  BY Zenon DEF SDInv, SDTypes
<1>3. QED  BY <1>1, <1>2, ExitKeeps, Zenon

LEMMA LoopReadKeeps ==
    ASSUME SDInv, LoopRead \/ LoopYields
    PROVE  SDInv'
<1>1. /\ work = "loop" /\ work' = work /\ holder' = holder /\ queue' = queue /\ running' = None
      /\ UNCHANGED <<cmd, waits, next_file_position, ran>>
      /\ current_file' = current_file /\ file_position' = file_position
      /\ work_timer' = work_timer /\ must_pause_work' = must_pause_work
      /\ cmd_from_sd' = cmd_from_sd /\ state' = state
  BY Zenon DEF LoopRead, LoopYields, AtLoop, mutex, handler, sd, stats
<1>2. \/ lines' = lines
      \/ lines' = IF Lines - file_position < Chunk THEN Lines - file_position ELSE Chunk
  BY Zenon DEF LoopRead, LoopYields, handler
<1>3. SDTypes'  BY <1>1, Zenon DEF SDInv, SDTypes
<1>4. MutexHeld'  BY <1>1, Zenon DEF SDInv, MutexHeld
<1>5. HandlerHeld'  BY <1>1, Zenon DEF SDInv, HandlerHeld, Closing
<1>6. FileFollowed'
  <2>1. /\ lines \in 0..Chunk /\ file_position \in 0..Lines /\ file_position + lines <= Lines
    BY <1>1, Zenon DEF SDInv, FileFollowed
  <2>2. lines' \in 0..Chunk /\ file_position + lines' <= Lines
    BY <1>2, <2>1, SDAssumption
  <2>3. QED  BY <1>1, <2>2, WorkNames, Zenon DEF SDInv, FileFollowed
<1>7. QED  BY <1>3, <1>4, <1>5, <1>6, Zenon DEF SDInv

LEMMA LoopDispatchKeeps ==
    ASSUME SDInv, LoopDispatch
    PROVE  SDInv'
<1>1. /\ work = "loop" /\ ~must_pause_work /\ lines > 0 /\ holder = None
      /\ cmd_from_sd' = TRUE /\ lines' = lines - 1 /\ next_file_position' = file_position + 1
      /\ holder' = Work /\ work' = "line" /\ running' = None /\ queue' = queue
      /\ UNCHANGED <<cmd, waits, current_file, file_position, work_timer, must_pause_work, ran>>
      /\ state' = state
  BY Zenon DEF LoopDispatch, AtLoop, stats
<1>2. current_file  BY <1>1, Zenon DEF SDInv, HandlerHeld
<1>3. /\ lines \in 0..Chunk /\ file_position \in 0..Lines /\ file_position + lines <= Lines
      /\ file_position = ran
  BY <1>1, <1>2, Zenon DEF SDInv, FileFollowed
<1>4. SDTypes'  BY <1>1, Names, Zenon DEF SDInv, SDTypes
<1>5. MutexHeld'  BY <1>1, MutexMoves, Zenon
<1>6. HandlerHeld'  BY <1>1, WorkNames, Zenon DEF SDInv, HandlerHeld, Closing
<1>7. FileFollowed'
  <2>1. lines' \in 0..Chunk /\ next_file_position' \in 0..Lines
        /\ next_file_position' + lines' <= Lines
    BY <1>1, <1>3, SDAssumption
  <2>2. QED  BY <1>1, <1>3, <2>1, WorkNames, Zenon DEF SDInv, FileFollowed
<1>8. QED  BY <1>4, <1>5, <1>6, <1>7, Zenon DEF SDInv

LEMMA LineDoneKeeps ==
    ASSUME SDInv, LineDone
    PROVE  SDInv'
<1>1. /\ work = "line" /\ cmd[Work] = None /\ Unlock /\ cmd_from_sd' = FALSE
      /\ file_position' = next_file_position /\ ran' = next_file_position
      /\ work' = "loop" /\ running' = Work
      /\ UNCHANGED <<cmd, waits, lines, next_file_position, current_file, work_timer,
                     must_pause_work>>
      /\ state' = state
  BY Zenon DEF LineDone, stats
<1>2. holder = Work  BY <1>1, Zenon DEF SDInv, MutexHeld
<1>3. holder' \in Greenlets \cup {None} /\ queue' \in Seq(Greenlets)
  BY <1>1, UnlockTypes, Zenon DEF SDInv
<1>4. SDTypes'  BY <1>1, <1>3, Names, Zenon DEF SDInv, SDTypes
<1>5. MutexHeld'  BY <1>1, <1>2, WorkNames, MutexMoves, Zenon
<1>6. HandlerHeld'  BY <1>1, WorkNames, Zenon DEF SDInv, HandlerHeld, Closing
<1>7. FileFollowed'
  <2>1. next_file_position \in 0..Lines /\ next_file_position + lines <= Lines
    BY <1>1, Zenon DEF SDInv, FileFollowed
  <2>2. next_file_position \in Nat  BY <2>1, SDAssumption
  <2>3. QED  BY <1>1, <2>1, <2>2, WorkNames, Zenon DEF SDInv, FileFollowed
<1>8. QED  BY <1>4, <1>5, <1>6, <1>7, Zenon DEF SDInv

LEMMA LineFailsKeeps ==
    ASSUME SDInv, LineFails
    PROVE  SDInv'
<1>1. /\ work \in {"line", "raised"} /\ cmd[Work] = None /\ work' = "error"
      /\ IF queue = <<>> THEN holder' = holder /\ queue' = queue
         ELSE holder' = Head(queue) /\ queue' = Append(Tail(queue), Work)
      /\ UNCHANGED <<running, cmd, waits, lines, next_file_position, ran>>
      /\ current_file' = current_file /\ file_position' = file_position
      /\ work_timer' = work_timer /\ must_pause_work' = must_pause_work
      /\ cmd_from_sd' = cmd_from_sd /\ state' = state
  BY Zenon DEF LineFails, mutex, sd, stats
<1>2. holder = Work  BY <1>1, Zenon DEF SDInv, MutexHeld
<1>3. holder' \in Greenlets \cup {None} /\ queue' \in Seq(Greenlets)
  <2>1. holder \in Greenlets \cup {None} /\ queue \in Seq(Greenlets)
    BY Zenon DEF SDInv, SDTypes
  <2>2. queue # <<>> => Head(queue) \in Greenlets /\ Tail(queue) \in Seq(Greenlets)
    BY <2>1, SeqTail, Zenon
  <2>3. queue # <<>> => Append(Tail(queue), Work) \in Seq(Greenlets)
    BY <2>2, Names, SeqAppend, Zenon
  <2>4. QED  BY <1>1, <2>1, <2>2, <2>3, Zenon
<1>4. SDTypes'  BY <1>1, <1>3, Zenon DEF SDInv, SDTypes
<1>5. MutexHeld'  BY <1>1, <1>2, WorkNames, MutexMoves, Zenon
<1>6. HandlerHeld'  BY <1>1, WorkNames, Zenon DEF SDInv, HandlerHeld, Closing
<1>7. FileFollowed'  BY <1>1, WorkNames, Zenon DEF SDInv, FileFollowed
<1>8. QED  BY <1>4, <1>5, <1>6, <1>7, Zenon DEF SDInv

LEMMA OnErrorDoneKeeps ==
    ASSUME SDInv, OnErrorDone
    PROVE  SDInv'
<1>1. /\ holder = Work /\ cmd[Work] = None /\ Unlock /\ current_file' = current_file /\ Exit(TRUE)
      /\ UNCHANGED <<cmd, waits, ran>>
  BY Zenon DEF OnErrorDone
<1>2. holder' \in Greenlets \cup {None} /\ queue' \in Seq(Greenlets)
  BY <1>1, UnlockTypes, Zenon DEF SDInv
<1>3. QED  BY <1>1, <1>2, ExitKeeps, Zenon


LEMMA SDInit == Init => SDInv
<1> SUFFICES ASSUME Init PROVE SDInv  BY Zenon
<1>1. <<>> \in Seq(Greenlets) /\ "standby" \in States  BY SeqEmpty, Zenon DEF States
<1>2. 0 \in 0..Chunk /\ 0 \in 0..Lines /\ 0 \in Nat  BY SDAssumption
<1>3. SDTypes  BY <1>1, Zenon DEF Init, SDTypes
<1>4. MutexHeld /\ HandlerHeld /\ FileFollowed
  BY <1>2, WorkNames, Names, Zenon DEF Init, MutexHeld, HandlerHeld, FileFollowed
<1>5. QED  BY <1>3, <1>4, Zenon DEF SDInv

LEMMA SDStep == SDInv /\ [Next]_vars => SDInv'
<1> SUFFICES ASSUME SDInv, [Next]_vars PROVE SDInv'  BY Zenon
<1>1. CASE UNCHANGED vars
  <2>1. SDTypes'
    BY <1>1, Zenon DEF vars, mutex, handler, sd, stats, SDInv, SDTypes
  <2>2. MutexHeld'
    BY <1>1, Zenon DEF vars, mutex, handler, SDInv, MutexHeld
  <2>3. HandlerHeld' /\ FileFollowed'
    BY <1>1, Zenon DEF vars, handler, sd, SDInv, HandlerHeld, FileFollowed, Closing
  <2>4. QED  BY <2>1, <2>2, <2>3, Zenon DEF SDInv
<1>2. ASSUME NEW g \in Clients, DoPause(g) \/ ClientExecutes(g) \/ (\E c \in Commands : Request(g, c))
      PROVE  SDInv'
  <2>1. g \in Greenlets /\ g # Work /\ g # Sensor  BY Names, Zenon
  <2>2. cmd[g] # "send_pause"  BY <2>1, Zenon DEF SDInv, MutexHeld
  <2>3. QED  BY <1>2, <2>1, <2>2, DoPauseKeeps, ClientExecutesKeeps, RequestKeeps, Zenon
<1>3. CASE RunoutEvent \/ SensorSteps
  <2>1. RunoutEnds => cmd[Sensor] # "send_pause" /\ ClientExecutes(Sensor)
    <3>1. "PAUSE" # "send_pause"  BY Zenon
    <3>2. QED  BY <3>1, Zenon DEF RunoutEnds
  <2>2. QED
    BY <1>3, <2>1, Names, RunoutEventKeeps, DoPauseKeeps, RunoutPausedKeeps, RunoutScriptKeeps,
       ClientExecutesKeeps, Zenon DEF SensorSteps
<1>4. CASE WorkSteps
  BY <1>4, Names, WorkStartKeeps, LoopExitKeeps, LoopReadKeeps, LoopDispatchKeeps, DoPauseKeeps,
     LineExecutesKeeps, LineDoneKeeps, LineFailsKeeps, OnErrorDoneKeeps, ZenonT(30) DEF WorkSteps
<1>5. CASE \E c \in Commands : LineCommand(c)  BY <1>5, LineCommandKeeps, Zenon
<1>6. QED  BY <1>1, <1>2, <1>3, <1>4, <1>5, Zenon DEF Next

LEMMA SDInvariant == Spec => []SDInv
  BY SDInit, SDStep, PTL DEF Spec

\* do_cancel, _reset_file and work_handler, for any number of clients and lines: the file
\* stays open under a handler that reads on, and for a command that waits to close it.
THEOREM FileAlwaysHeld == Spec => []FileHeld
<1>1. SDInv => FileHeld
  BY Zenon DEF SDInv, SDTypes, HandlerHeld, FileFollowed, Closing, States, FileHeld, TypeOK
<1>2. QED  BY <1>1, SDInvariant, PTL

\* work_handler, for any number of clients, lines, pauses and errors: the line dispatched is
\* the one after the last that ran to its end.
THEOREM LinesAlwaysInOrder == Spec => []LinesInOrder
<1>1. SDInv => LinesInOrder  BY Zenon DEF SDInv, FileFollowed, LinesInOrder
<1>2. QED  BY <1>1, SDInvariant, PTL
=============================================================================
