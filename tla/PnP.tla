-------------------------------- MODULE PnP ---------------------------------
(***************************************************************************)
(* Tool selection on a pick and place head (klippy/extras/pnp.py,          *)
(* pnp_tool.py and camera_v4l.py) and the parts of gcode_move.py,          *)
(* toolhead.py and manual_stepper.py that it changes under way: which      *)
(* stepper moves Z and in which direction, which one is the R axis, and    *)
(* the transform between g-code and machine positions.                     *)
(*                                                                         *)
(* G-code commands run one after the other under the g-code mutex; the     *)
(* web requests pnp/jog, pnp/move and pnp/tool each run in a greenlet of   *)
(* their own.  A command runs alone until toolhead.move or wait_moves      *)
(* pauses the greenlet, so one action is what a command does up to its     *)
(* next pause.  X stands for X and Y, and a tool's offset, tilt and runout *)
(* are together a shift of X that depends on Z and R.                      *)
(***************************************************************************)
EXTENDS Integers, Sequences

CONSTANTS
    Nozzle, Camera, NoTool,
    Gcode, Web,                \* who runs commands: the g-code mutex, web requests
    ZPool, FallbackZ,          \* the Z steppers, and the one used without a nozzle
    z_stepper, z_sign,         \* of each nozzle
    r_stepper, VirtualR,       \* the R axis of each tool, and the one of no tool
    Shift,                     \* Shift[t][z][r]: what t adds to X
    MaxX, MaxDepth, MaxR,      \* the range of the axes: 0..MaxX, -MaxDepth..0, 0..MaxR
    MaxCommands                \* bound: commands started

Tool == Nozzle \cup Camera
Selectable == Tool \cup {NoTool}
Actor == {Gcode} \cup Web
RAxis == {r_stepper[t] : t \in Tool} \cup {VirtualR}
ZRange == -MaxDepth..0
RRange == 0..MaxR

ASSUME PnPAssumption ==
    /\ NoTool \notin Tool /\ Nozzle \cap Camera = {} /\ Gcode \notin Web /\ FallbackZ \in ZPool
    /\ z_stepper \in [Nozzle -> ZPool] /\ z_sign \in [Nozzle -> {-1, 1}]
    /\ DOMAIN r_stepper = Tool
    /\ Shift \in [Tool -> [ZRange -> [RRange -> Int]]]
    /\ {MaxX, MaxDepth, MaxR, MaxCommands} \subseteq Nat

VARIABLES
    active_tool, active_z, bound_r,      \* PnPManager
    view,                                \* z_plane and rot of each camera
    commanded,                           \* commanded_pos of the toolhead
    axis_pos,                            \* commanded_pos of each R axis
    stepper_pos,                         \* where the step generation has each Z stepper
    last_position,                       \* GCodeMove
    task,                                \* per actor: the command under way
    actuator,                            \* where each Z actuator really is
    asked, disturbed, commands           \* history: the last R asked of each axis, whether
                                         \* a command ran while another was paused, and how
                                         \* many were started

tools == <<active_tool, active_z, bound_r>>
motion == <<axis_pos, stepper_pos, actuator>>
pnpvars == <<tools, view, commanded, motion, last_position, task, asked, disturbed, commands>>

ZOf(t) == IF t \in Nozzle THEN [stepper |-> z_stepper[t], az |-> z_sign[t]]
                          ELSE [stepper |-> FallbackZ, az |-> 1]
ROf(t) == IF t = NoTool THEN VirtualR ELSE r_stepper[t]

NoTask == [op |-> "idle", tool |-> NoTool, want_move |-> FALSE,
           dest |-> [x |-> 0, z |-> 0, r |-> 0], path |-> <<>>, resets |-> FALSE]

PnPInit ==
    /\ active_tool = NoTool /\ active_z = ZOf(NoTool) /\ bound_r = VirtualR
    /\ view = [t \in Camera |-> [z |-> 0, r |-> 0]]
    /\ commanded = [x |-> 0, z |-> 0, r |-> 0] /\ last_position = commanded
    /\ axis_pos = [a \in RAxis |-> 0] /\ asked = axis_pos
    /\ stepper_pos = [s \in ZPool |-> 0] /\ actuator = stepper_pos
    /\ task = [c \in Actor |-> NoTask] /\ disturbed = FALSE /\ commands = 0

-----------------------------------------------------------------------------
(* The transforms: get_position and the first half of move.                *)

\* The g-code position that tool t, a camera with view v, has at machine position m
ToGcode(t, v, m) ==
    IF t \in Nozzle THEN [x |-> m.x + Shift[t][m.z][m.r], z |-> m.z, r |-> m.r]
    ELSE IF t \in Camera THEN [x |-> m.x + Shift[t][v[t].z][v[t].r], z |-> v[t].z, r |-> v[t].r]
    ELSE m

ToMachine(t, g) ==
    IF t \in Nozzle THEN [x |-> g.x - Shift[t][g.z][g.r], z |-> g.z, r |-> g.r]
    ELSE IF t \in Camera THEN [x |-> g.x - Shift[t][g.z][g.r], z |-> 0, r |-> g.r]
    ELSE g

\* A camera keeps the Z and R it is asked for to itself
Viewed(t, g) ==
    IF t \in Camera THEN [view EXCEPT ![t] = [z |-> g.z, r |-> g.r]] ELSE view

GetPosition == ToGcode(active_tool, view, commanded)

Reachable(m) == m.x \in 0..MaxX /\ m.z \in ZRange /\ m.r \in RRange

Lifted(g) == [x |-> g.x, z |-> 0, r |-> g.r]

\* The moves of safe_move, as machine positions
SafePathDirect(t, m, g) == <<ToMachine(t, g)>>
SafePath(t, m, g) ==
    IF t \in Nozzle
    THEN <<ToMachine(t, Lifted(ToGcode(t, view, m))), ToMachine(t, Lifted(g)),
           ToMachine(t, g)>>
    ELSE <<ToMachine(t, g)>>

-----------------------------------------------------------------------------
(* What a command does up to its next pause.                               *)

\* A command as its task, and the task with the moves that are left
Job(op, t, g, want, resets) ==
    [op |-> op, tool |-> t, want_move |-> want, dest |-> g, path |-> <<>>, resets |-> resets]
Paused(job, path) ==
    [op |-> job.op, tool |-> job.tool, want_move |-> job.want_move, dest |-> job.dest,
     path |-> path, resets |-> job.resets]

\* A move to where the head is returns at once: it is never the one that pauses
AfterNulls(path, m) ==
    LET moves == {i \in 1..Len(path) : path[i] # m}
        first == CHOOSE i \in moves : \A j \in moves : i <= j
    IN  IF moves = {} THEN <<>> ELSE SubSeq(path, first, Len(path))

\* Command job of c makes the moves of path from machine position m, with p as the last
\* position.  A move of a tool refreshes the last position when it returns.  A move out of
\* range raises an error, after which only g-code refreshes it.
Run(c, job, path, m, p) ==
    LET rest == AfterNulls(path, m)
        here == ToGcode(active_tool', view', m)
        seen == IF Len(rest) < Len(path) /\ job.tool # NoTool THEN here ELSE p
    IN  \/ /\ rest = <<>>
           /\ commanded' = m
           /\ last_position' = IF job.resets THEN here ELSE p
           /\ task' = [task EXCEPT ![c] = NoTask]
           /\ UNCHANGED asked
        \/ /\ rest # <<>> /\ Reachable(Head(rest))
           /\ commanded' = Head(rest)
           /\ last_position' = seen
           /\ task' = [task EXCEPT ![c] = Paused(job, Tail(rest))]
           /\ asked' = [asked EXCEPT ![bound_r'] = Head(rest).r]
        \/ /\ rest # <<>> /\ ~Reachable(Head(rest))
           /\ commanded' = m
           /\ last_position' = IF c = Gcode THEN here ELSE seen
           /\ task' = [task EXCEPT ![c] = NoTask]
           /\ UNCHANGED asked

\* A command begins, or goes on after its pause
Disturbs(c) == disturbed' = (disturbed \/ \E d \in Actor \ {c} : task[d] # NoTask)

Starts(c) ==
    /\ task[c] = NoTask /\ commands < MaxCommands
    /\ commands' = commands + 1
    /\ Disturbs(c)

\* PnPManager.move, with p as the last position
MoveTo(c, g, p) ==
    /\ view' = Viewed(active_tool, g)
    /\ UNCHANGED <<tools, motion>>
    /\ Run(c, Job("move", active_tool, g, FALSE, TRUE), <<ToMachine(active_tool, g)>>,
           commanded, p)

\* PnPManager.safe_move: without a tool nothing refreshes the last position
SafeMove(c, g) ==
    /\ view' = Viewed(active_tool, g)
    /\ UNCHANGED <<tools, motion>>
    /\ Run(c, Job("safe", active_tool, g, FALSE, active_tool # NoTool),
           SafePath(active_tool, commanded, g), commanded, last_position)

\* The values an axis may be asked for: one beyond each end of X is out of range
Asked(axis) == CASE axis = "x" -> -1..MaxX + 1 [] axis = "z" -> ZRange [] axis = "r" -> RRange

\* G0 and G1: the last position is changed first and then moved to
G1 ==
    /\ Starts(Gcode)
    /\ \E axis \in {"x", "z", "r"} : \E v \in Asked(axis) :
          LET g == [last_position EXCEPT ![axis] = v] IN MoveTo(Gcode, g, g)

\* PNP_GOTO
PnPGoto ==
    /\ Starts(Gcode)
    /\ \E x \in 0..MaxX, z \in ZRange :
          SafeMove(Gcode, [GetPosition EXCEPT !.x = x, !.z = z])

\* pnp/jog and pnp/move: safe unless told otherwise, or if X stays
WebMove(c) ==
    /\ Starts(c)
    /\ \E axis \in {"x", "z", "r"}, safe \in BOOLEAN : \E v \in Asked(axis) :
          LET g == [GetPosition EXCEPT ![axis] = v]
          IN  IF safe /\ axis = "x" THEN SafeMove(c, g) ELSE MoveTo(c, g, last_position)

\* A paused move goes on
Continue(c) ==
    /\ task[c].op \in {"move", "safe"}
    /\ Disturbs(c)
    /\ UNCHANGED <<tools, view, motion, commands>>
    /\ Run(c, task[c], task[c].path, commanded,
           IF task[c].tool = NoTool THEN last_position ELSE GetPosition)

-----------------------------------------------------------------------------
(* The queued moves: an R axis, and the Z stepper by its coefficient,      *)
(* follow when the lookahead queue is processed.                           *)

FlushedAxes == [axis_pos EXCEPT ![bound_r] = commanded.r]
FlushedStepper == active_z.az * commanded.z
FlushedActuator ==
    [actuator EXCEPT ![active_z.stepper] =
        @ + FlushedStepper - stepper_pos[active_z.stepper]]

\* remove_extra_axis processes the queue before the axis leaves
RemoveExtraAxisUnflushed == axis_pos
RemoveExtraAxis == FlushedAxes

\* The flush and priming timers of the toolhead
Flush ==
    /\ axis_pos' = FlushedAxes
    /\ stepper_pos' = [stepper_pos EXCEPT ![active_z.stepper] = FlushedStepper]
    /\ actuator' = FlushedActuator
    /\ motion' # motion
    /\ UNCHANGED <<tools, view, commanded, last_position, task, asked, disturbed, commands>>

-----------------------------------------------------------------------------
(* select_tool.                                                            *)

\* _rebind_z, _rebind_r and the rest, without a pause before the safe_move.  The Z steppers
\* are declared to be at 0, the toolhead is not; R becomes the position of the new axis.
Rebind(c, t, want, g) ==
    LET m == [x |-> commanded.x, z |-> commanded.z, r |-> RemoveExtraAxis[ROf(t)]]
    IN  /\ axis_pos' = RemoveExtraAxis
        /\ actuator' = FlushedActuator
        /\ stepper_pos' = [s \in ZPool |-> 0]
        /\ active_z' = ZOf(t) /\ bound_r' = ROf(t) /\ active_tool' = t
        /\ view' = IF want THEN Viewed(t, g) ELSE view
        /\ Run(c, Job("safe", t, g, want, TRUE),
               IF want THEN SafePath(t, m, g) ELSE <<>>,
               m, ToGcode(active_tool, view, m))

\* _park_z_actuator and the wait for its move.  The position to return to is read first.
Park(c, t, want) ==
    LET g == Lifted(GetPosition)
        m == ToMachine(active_tool, g)
    IN  /\ view' = Viewed(active_tool, g)
        /\ UNCHANGED <<tools, motion>>
        /\ \/ /\ Reachable(m)
              /\ commanded' = m
              /\ task' = [task EXCEPT ![c] = Job("park", t, GetPosition, want, TRUE)]
              /\ last_position' = IF m = commanded THEN g ELSE last_position
              /\ asked' = [asked EXCEPT ![bound_r] = m.r]
           \/ /\ ~Reachable(m)
              /\ last_position' = IF c = Gcode THEN ToGcode(active_tool, view', commanded)
                                               ELSE last_position
              /\ UNCHANGED <<commanded, task, asked>>

NeedsParkNever == FALSE
NeedsPark == GetPosition.z # 0

\* PNP_TOOL, which may also select no tool, and pnp/tool
SelectTool(c) ==
    /\ Starts(c)
    /\ \E t \in Selectable, want \in BOOLEAN :
          /\ t = NoTool => c = Gcode
          /\ t = active_tool => t = NoTool
          /\ IF NeedsPark THEN Park(c, t, want) ELSE Rebind(c, t, want, GetPosition)

\* The wait is over
Parked(c) ==
    /\ task[c].op = "park"
    /\ Disturbs(c)
    /\ UNCHANGED commands
    /\ Rebind(c, task[c].tool, task[c].want_move, task[c].dest)

PnPNext ==
    \/ G1 \/ PnPGoto \/ Flush
    \/ \E c \in Web : WebMove(c)
    \/ \E c \in Actor : SelectTool(c) \/ Parked(c) \/ Continue(c)

PnPSpec == PnPInit /\ [][PnPNext]_pnpvars

-----------------------------------------------------------------------------
(* Properties.                                                             *)

\* The Z stepper and its sign, the R axis and the active tool belong together whenever
\* another command can run, whatever commands have run at the pauses of others; and the
\* R of the head is the last rotation asked of the bound axis, an unselected tool's axis
\* being where it was left (select_tool, bind_gcode_axis).
ToolAxesTrue ==
    /\ active_z = ZOf(active_tool) /\ bound_r = ROf(active_tool)
    /\ asked[bound_r] = commanded.r
    /\ \A a \in RAxis \ {bound_r} : axis_pos[a] = asked[a]

\* A selected nozzle's Z is the stroke of its actuator from its park position, and every
\* other actuator is parked (_park_z_actuator before _rebind_z).  The docs: "Nozzle Z is
\* actuator stroke from park", "retracted to "safe position" of 0 on toolchange".
StrokeFromPark ==
    /\ \A s \in ZPool \ {active_z.stepper} : actuator[s] = 0
    /\ actuator[active_z.stepper] = stepper_pos[active_z.stepper]

\* The same as long as no command has run during a pause of another one.
StrokeTrueAlone == disturbed \/ StrokeFromPark

\* Where a nozzle's safe_move changes X it does so at Z = 0, also when it is the move at the
\* end of a tool change (PnPTool.safe_move).  A tool change with MOVE=1 that makes all its
\* moves leaves the new tool where the old one was, in g-code coordinates (select_tool).
TravelsParked(c) ==
    \/ active_tool' \notin Nozzle \/ "safe" \notin {task[c].op, task'[c].op}
    \/ ToGcode(active_tool', view, commanded).x = GetPosition'.x
    \/ commanded.z = 0 /\ commanded'.z = 0
LandsOnSamePoint(c) ==
    \/ task[c].op # "safe" \/ ~task[c].want_move \/ task'[c] # NoTask
    \/ AfterNulls(task[c].path, commanded) # <<>>
    \/ GetPosition' = task[c].dest
SafeMoveTrue ==
    [][disturbed' \/ \A c \in Actor : TravelsParked(c) /\ LandsOnSamePoint(c)]_pnpvars

\* Between commands the position that gcode_move reports, and starts its next move from, is
\* that of the head: "The last commanded position of the toolhead" (reset_last_position).
PositionReported ==
    disturbed \/ (\E c \in Actor : task[c] # NoTask) \/ last_position = GetPosition
=============================================================================
