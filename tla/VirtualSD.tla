----------------------------- MODULE VirtualSD ------------------------------
(***************************************************************************)
(* Printing from a file (virtual_sdcard.py), pausing and resuming it       *)
(* (pause_resume.py), what is reported of it (print_stats.py), and the     *)
(* g-code mutex all of it runs under (gcode.py, reactor.py).  The greenlets*)
(* are the work handler, the clients that send commands, and the filament  *)
(* sensor, which pauses from an event, without the mutex.  Only one runs at*)
(* a time, until it pauses: `running' is the one that has not.             *)
(***************************************************************************)
EXTENDS Naturals, Sequences, FiniteSets

CONSTANTS
    Clients,     \* greenlets that send commands
    Commands,    \* the commands they send
    Lines,       \* lines of the file
    Chunk,       \* lines that one read returns
    MaxRequests, \* bound: commands sent
    MaxEvents    \* bound: events of the filament sensor

Work == "work_handler"
Sensor == "sensor"
None == "none"
Greenlets == Clients \cup {Work, Sensor}

\* The g-code commands about the print
GCodes == {"M23", "M24", "M25", "M26", "SDCARD_PRINT_FILE", "SDCARD_RESET_FILE", "PAUSE",
           "RESUME", "CLEAR_PAUSE", "CANCEL_PRINT"}

ASSUME SDAssumption ==
    /\ IsFiniteSet(Clients) /\ Work \notin Clients /\ Sensor \notin Clients
    /\ None \notin Clients /\ Commands \subseteq GCodes
    /\ Lines \in Nat \ {0} /\ Chunk \in Nat \ {0}
    /\ MaxRequests \in Nat /\ MaxEvents \in Nat

VARIABLES
    running,             \* the greenlet that runs
    holder, queue,       \* the g-code mutex: its owner, and who waits for it
    cmd,                 \* the command each greenlet executes
    waits,               \* who waits in do_pause
    work,                \* where the work handler is
    lines,               \* its lines, read and not dispatched
    current_file, file_position, next_file_position,
    work_timer, must_pause_work, cmd_from_sd,
    is_paused, sd_paused, pause_command_sent,
    state, started,      \* print_stats: state, and print_start_time is set
    requests, events,
    ran                  \* history: the last line that ran to its end

mutex == <<holder, queue>>
handler == <<work, lines, next_file_position>>
sd == <<current_file, file_position, work_timer, must_pause_work, cmd_from_sd>>
pause == <<is_paused, sd_paused, pause_command_sent>>
stats == <<state, started>>
bounds == <<requests, events>>
vars == <<running, mutex, cmd, waits, handler, sd, pause, stats, bounds, ran>>

Init ==
    /\ running = None /\ holder = None /\ queue = <<>>
    /\ cmd = [g \in Greenlets |-> None] /\ waits = {}
    /\ work = "off" /\ lines = 0
    /\ current_file = FALSE /\ file_position = 0 /\ next_file_position = 0
    /\ work_timer = FALSE /\ must_pause_work = FALSE /\ cmd_from_sd = FALSE
    /\ is_paused = FALSE /\ sd_paused = FALSE /\ pause_command_sent = FALSE
    /\ state = "standby" /\ started = FALSE
    /\ requests = 0 /\ events = 0
    /\ ran = 0

Runs(g) == running \in {None, g}

-----------------------------------------------------------------------------
(* The mutex: an owner that leaves hands it to the first who waits *)

Lock(g) ==
    IF holder = None THEN holder' = g /\ UNCHANGED queue
    ELSE queue' = Append(queue, g) /\ UNCHANGED holder
Unlock ==
    IF queue = <<>> THEN holder' = None /\ UNCHANGED queue
    ELSE holder' = Head(queue) /\ queue' = Tail(queue)

-----------------------------------------------------------------------------
(* print_stats *)

NoteStart == state' = "printing" /\ started' = TRUE
NotePause ==
    /\ state' = IF state # "error" THEN "paused" ELSE state
    /\ UNCHANGED started
NoteFinish(s) ==
    /\ state' = IF started THEN s ELSE state
    /\ started' = FALSE
StatsReset == state' = "standby" /\ started' = FALSE

-----------------------------------------------------------------------------
(* Commands.  One that has to pause the work handler waits in do_pause until *)
(* the handler ended, or at once goes on when the handler runs a line.       *)

\* The commands that call do_pause on an active handler, given the state.
Pauses(c) ==
    /\ work_timer
    /\ \/ c = "M25"
       \/ c = "PAUSE" /\ ~is_paused /\ ~pause_command_sent
       \/ c = "send_pause" /\ ~pause_command_sent
       \/ c = "CANCEL_PRINT" /\ current_file
       \/ c = "SDCARD_RESET_FILE" /\ current_file /\ ~cmd_from_sd

PauseDone == ~work_timer \/ cmd_from_sd

M23WhileBusy ==
    /\ current_file' \in BOOLEAN /\ file_position' = 0
    /\ StatsReset
    /\ UNCHANGED <<work_timer, must_pause_work, cmd_from_sd, pause>>
M23 ==
    /\ IF work_timer THEN UNCHANGED <<sd, stats>>
       ELSE /\ current_file' \in BOOLEAN    \* the file may not open
            /\ file_position' = 0
            /\ StatsReset
            /\ UNCHANGED <<work_timer, must_pause_work, cmd_from_sd>>
    /\ UNCHANGED pause
DoResume ==
    /\ must_pause_work' = FALSE /\ work_timer' = TRUE
    /\ UNCHANGED <<current_file, file_position, cmd_from_sd>>
M24 ==
    /\ IF work_timer THEN UNCHANGED sd ELSE DoResume
    /\ UNCHANGED <<pause, stats>>
PrintFile ==
    /\ IF work_timer THEN UNCHANGED <<sd, stats>>
       ELSE /\ current_file' \in BOOLEAN
            /\ file_position' = 0
            /\ StatsReset
            /\ work_timer' = current_file'
            /\ must_pause_work' = IF current_file' THEN FALSE ELSE must_pause_work
            /\ UNCHANGED cmd_from_sd
    /\ UNCHANGED pause
ResetFile ==
    /\ IF cmd_from_sd THEN UNCHANGED <<sd, stats>>
       ELSE /\ current_file' = FALSE /\ file_position' = 0
            /\ StatsReset
            /\ UNCHANGED <<work_timer, must_pause_work, cmd_from_sd>>
    /\ UNCHANGED pause
DoCancel ==
    /\ current_file' = FALSE /\ file_position' = 0
    /\ IF current_file THEN NoteFinish("cancelled") ELSE UNCHANGED stats
    /\ UNCHANGED <<work_timer, must_pause_work, cmd_from_sd>>
ClearPause ==
    /\ is_paused' = FALSE /\ pause_command_sent' = FALSE
    /\ UNCHANGED sd_paused

\* g sent CANCEL_PRINT: one that waited in do_pause found the handler active.
CancelPrint(g) ==
    /\ IF work_timer \/ sd_paused \/ g \in waits THEN DoCancel
       ELSE UNCHANGED <<sd, stats>>
    /\ ClearPause
SendPauseCommand(g) ==
    /\ pause_command_sent' = TRUE
    /\ sd_paused' = IF pause_command_sent \/ g \in waits THEN sd_paused ELSE FALSE
Pause(g) ==
    /\ IF is_paused /\ g \notin waits THEN UNCHANGED pause
       ELSE SendPauseCommand(g) /\ is_paused' = TRUE
    /\ UNCHANGED <<sd, stats>>
Resume ==
    /\ IF ~is_paused \/ (sd_paused /\ work_timer) THEN UNCHANGED <<sd, pause>>
       ELSE /\ IF sd_paused THEN DoResume ELSE UNCHANGED sd
            /\ is_paused' = FALSE /\ sd_paused' = FALSE
            /\ pause_command_sent' = FALSE
    /\ UNCHANGED stats

\* M26: the next line to run is the one it names.
M26 ==
    /\ IF work_timer THEN UNCHANGED file_position
       ELSE file_position' \in 0..Lines
    /\ UNCHANGED <<current_file, work_timer, must_pause_work, cmd_from_sd, pause, stats>>

\* The commands that end in an error, given the state.
Raises(c) ==
    \/ c \in {"M23", "M24", "M26", "SDCARD_PRINT_FILE"} /\ work_timer
    \/ c = "SDCARD_RESET_FILE" /\ cmd_from_sd
    \/ c = "RESUME" /\ is_paused /\ sd_paused /\ work_timer

Effect(g) ==
    \/ cmd[g] = "M23" /\ M23
    \/ cmd[g] = "M24" /\ M24
    \/ cmd[g] = "M25" /\ UNCHANGED <<sd, pause, stats>>
    \/ cmd[g] = "M26" /\ M26
    \/ cmd[g] = "SDCARD_PRINT_FILE" /\ PrintFile
    \/ cmd[g] = "SDCARD_RESET_FILE" /\ ResetFile
    \/ cmd[g] = "PAUSE" /\ Pause(g)
    \/ cmd[g] = "RESUME" /\ Resume
    \/ cmd[g] = "CLEAR_PAUSE" /\ ClearPause /\ UNCHANGED <<sd, stats>>
    \/ cmd[g] = "CANCEL_PRINT" /\ CancelPrint(g)
    \/ cmd[g] = "send_pause" /\ SendPauseCommand(g) /\ UNCHANGED <<is_paused, sd, stats>>

\* g may go on with its command, which pauses the handler or takes effect.
Executes(g) ==
    Runs(g) /\ cmd[g] # None /\ g \notin waits /\ (holder = g \/ cmd[g] = "send_pause")

DoPause(g) ==
    /\ Executes(g) /\ Pauses(cmd[g])
    /\ must_pause_work' = TRUE
    /\ waits' = waits \cup {g}
    /\ sd_paused' = (sd_paused \/ cmd[g] \in {"PAUSE", "send_pause"})
    /\ running' = IF cmd_from_sd THEN g ELSE None
    /\ UNCHANGED <<mutex, cmd, handler, current_file, file_position, work_timer, cmd_from_sd,
                   is_paused, pause_command_sent, stats, bounds, ran>>

Execute(g) ==
    /\ \/ Executes(g) /\ ~Pauses(cmd[g])
       \/ Runs(g) /\ g \in waits /\ PauseDone
    /\ Effect(g)
    /\ waits' = waits \ {g}
    /\ running' = None
    /\ ran' = IF cmd[g] \in {"M23", "M26", "SDCARD_PRINT_FILE"} /\ ~work_timer
                 /\ current_file' THEN file_position' ELSE ran
    /\ UNCHANGED <<lines, next_file_position, bounds>>

\* run_script and run_command of a client
Request(g, c) ==
    /\ running = None /\ cmd[g] = None /\ requests < MaxRequests
    /\ requests' = requests + 1
    /\ cmd' = [cmd EXCEPT ![g] = c]
    /\ Lock(g)
    /\ running' = IF holder = None THEN g ELSE None
    /\ UNCHANGED <<waits, handler, sd, pause, stats, events, ran>>

ClientExecutes(g) ==
    /\ Execute(g)
    /\ cmd' = [cmd EXCEPT ![g] = None]
    /\ Unlock
    /\ UNCHANGED work

-----------------------------------------------------------------------------
(* The filament sensor: send_pause_command, then PAUSE under the mutex *)

RunoutEvent ==
    /\ running = None /\ cmd[Sensor] = None /\ events < MaxEvents
    /\ events' = events + 1
    /\ cmd' = [cmd EXCEPT ![Sensor] = "send_pause"]
    /\ running' = Sensor
    /\ UNCHANGED <<mutex, waits, handler, sd, pause, stats, requests, ran>>
RunoutPaused ==
    /\ cmd[Sensor] = "send_pause" /\ Execute(Sensor)
    /\ cmd' = [cmd EXCEPT ![Sensor] = "PAUSE"]
    /\ UNCHANGED <<mutex, work>>
RunoutScript ==
    /\ running = None /\ cmd[Sensor] = "PAUSE"
    /\ holder # Sensor /\ \A i \in 1..Len(queue) : queue[i] # Sensor
    /\ Lock(Sensor)
    /\ running' = IF holder = None THEN Sensor ELSE None
    /\ UNCHANGED <<cmd, waits, handler, sd, pause, stats, bounds, ran>>
RunoutEnds ==
    /\ cmd[Sensor] = "PAUSE" /\ ClientExecutes(Sensor)

-----------------------------------------------------------------------------
(* work_handler *)

Exit(error) ==
    /\ work' = "off" /\ lines' = 0
    /\ work_timer' = FALSE /\ cmd_from_sd' = FALSE
    /\ running' = None
    /\ IF error THEN NoteFinish("error")
       ELSE IF current_file' THEN NotePause ELSE NoteFinish("complete")
    /\ UNCHANGED <<must_pause_work, file_position, next_file_position>>

WorkStart ==
    /\ Runs(Work) /\ work = "off" /\ work_timer
    /\ IF current_file
       THEN work' = "loop" /\ running' = Work /\ NoteStart /\ UNCHANGED work_timer
       ELSE work_timer' = FALSE /\ running' = None /\ UNCHANGED <<work, stats>>
    /\ UNCHANGED <<mutex, cmd, waits, lines, next_file_position, current_file, file_position,
                   must_pause_work, cmd_from_sd, pause, bounds, ran>>

AtLoop == Runs(Work) /\ work = "loop" /\ ~must_pause_work
LoopPaused ==
    /\ Runs(Work) /\ work = "loop" /\ must_pause_work
    /\ UNCHANGED current_file /\ Exit(FALSE)
    /\ UNCHANGED <<mutex, cmd, waits, pause, bounds, ran>>
LoopRead ==
    /\ AtLoop /\ lines = 0 /\ current_file /\ file_position < Lines
    /\ lines' = IF Lines - file_position < Chunk THEN Lines - file_position ELSE Chunk
    /\ running' = None
    /\ UNCHANGED <<mutex, cmd, waits, work, next_file_position, sd, pause, stats, bounds, ran>>
LoopReadFails ==
    /\ AtLoop /\ lines = 0
    /\ UNCHANGED current_file /\ Exit(FALSE)
    /\ UNCHANGED <<mutex, cmd, waits, pause, bounds, ran>>
LoopEndOfFile ==
    /\ AtLoop /\ lines = 0 /\ current_file /\ file_position = Lines
    /\ current_file' = FALSE /\ Exit(FALSE)
    /\ UNCHANGED <<mutex, cmd, waits, pause, bounds, ran>>
LoopYields ==
    /\ AtLoop /\ lines > 0 /\ holder # None /\ running = Work
    /\ running' = None
    /\ UNCHANGED <<mutex, cmd, waits, handler, sd, pause, stats, bounds, ran>>
LoopDispatchAdvancing ==
    /\ AtLoop /\ lines > 0 /\ holder = None
    /\ cmd_from_sd' = TRUE /\ file_position' = file_position + 1
    /\ lines' = lines - 1 /\ next_file_position' = file_position + 1
    /\ holder' = Work /\ work' = "line" /\ running' = None
    /\ UNCHANGED <<queue, cmd, waits, current_file, work_timer, must_pause_work,
                   pause, stats, bounds, ran>>
LoopDispatch ==
    /\ AtLoop /\ lines > 0 /\ holder = None
    /\ cmd_from_sd' = TRUE
    /\ lines' = lines - 1 /\ next_file_position' = file_position + 1
    /\ holder' = Work /\ work' = "line" /\ running' = None
    /\ UNCHANGED <<queue, cmd, waits, current_file, file_position, work_timer, must_pause_work,
                   pause, stats, bounds, ran>>

\* A line, or the on_error script, runs commands.
LineCommand(c) ==
    /\ running = None /\ work \in {"line", "error"} /\ holder = Work /\ cmd[Work] = None
    /\ requests < MaxRequests /\ requests' = requests + 1
    /\ cmd' = [cmd EXCEPT ![Work] = c] /\ running' = Work
    /\ UNCHANGED <<mutex, waits, handler, sd, pause, stats, events, ran>>
LineExecutes ==
    /\ Execute(Work)
    /\ cmd' = [cmd EXCEPT ![Work] = None]
    /\ work' = IF work = "line" /\ Raises(cmd[Work]) THEN "raised" ELSE work
    /\ UNCHANGED mutex
LineDone ==
    /\ running = None /\ work = "line" /\ cmd[Work] = None
    /\ Unlock
    /\ cmd_from_sd' = FALSE
    /\ file_position' = next_file_position /\ ran' = next_file_position
    /\ work' = "loop" /\ running' = Work
    /\ UNCHANGED <<cmd, waits, lines, next_file_position, current_file, work_timer,
                   must_pause_work, pause, stats, bounds>>

LineFailsAndResets ==
    /\ running = None /\ work \in {"line", "raised"} /\ cmd[Work] = None
    /\ work' = "error" /\ cmd_from_sd' = FALSE
    /\ IF queue = <<>> THEN UNCHANGED mutex
       ELSE holder' = Head(queue) /\ queue' = Append(Tail(queue), Work)
    /\ UNCHANGED <<running, cmd, waits, lines, next_file_position, current_file, file_position,
                   work_timer, must_pause_work, pause, stats, bounds, ran>>
\* The line failed with a gcode.error: its run_script leaves the mutex, that of
\* on_error takes it again.  Any other exception is left out: gcode has then shut
\* the host down, and the handler ends without on_error.
LineFails ==
    /\ running = None /\ work \in {"line", "raised"} /\ cmd[Work] = None
    /\ work' = "error"
    /\ IF queue = <<>> THEN UNCHANGED mutex
       ELSE holder' = Head(queue) /\ queue' = Append(Tail(queue), Work)
    /\ UNCHANGED <<running, cmd, waits, lines, next_file_position, sd, pause, stats, bounds, ran>>
OnErrorDone ==
    /\ running = None /\ work = "error" /\ holder = Work /\ cmd[Work] = None
    /\ Unlock
    /\ UNCHANGED current_file /\ Exit(TRUE)
    /\ UNCHANGED <<cmd, waits, pause, bounds, ran>>

WorkSteps ==
    \/ WorkStart \/ LoopPaused \/ LoopRead \/ LoopReadFails \/ LoopEndOfFile
    \/ LoopYields \/ LoopDispatch \/ DoPause(Work) \/ LineExecutes
    \/ LineDone \/ LineFails \/ OnErrorDone
SensorSteps == DoPause(Sensor) \/ RunoutPaused \/ RunoutScript \/ RunoutEnds

Next ==
    \/ \E g \in Clients : DoPause(g) \/ ClientExecutes(g) \/ (\E c \in Commands : Request(g, c))
    \/ RunoutEvent \/ SensorSteps
    \/ WorkSteps \/ (\E c \in Commands : LineCommand(c))

\* The reactor runs every greenlet that is due, and every line ends.
Spec ==
    /\ Init /\ [][Next]_vars
    /\ WF_vars(WorkSteps) /\ WF_vars(SensorSteps)
    /\ \A g \in Clients : WF_vars(DoPause(g) \/ ClientExecutes(g))

-----------------------------------------------------------------------------
(* Properties *)

TypeOK ==
    /\ running \in Greenlets \cup {None} /\ holder \in Greenlets \cup {None}
    /\ queue \in Seq(Greenlets) /\ waits \subseteq Greenlets
    /\ work \in {"off", "loop", "line", "raised", "error"} /\ lines \in 0..Chunk
    /\ file_position \in 0..Lines /\ next_file_position \in 0..Lines
    /\ state \in {"standby", "printing", "paused", "cancelled", "error", "complete"}

\* do_cancel, _reset_file, work_handler: no command closes the file under a handler that
\* will read on, and a command that waited in do_pause to close it finds it still open.
FileHeld ==
    /\ TypeOK
    /\ work \in {"loop", "line"} /\ ~must_pause_work => current_file
    /\ \A g \in waits : cmd[g] \in {"CANCEL_PRINT", "SDCARD_RESET_FILE"} => current_file

\* work_handler: through any number of pauses, resumes and errors, the line that is
\* dispatched is the one after the last that ran to its end.
LinesInOrder == work = "line" => next_file_position = ran + 1

\* do_pause, ReactorMutex: every command ends; in particular the handler never waits for the
\* mutex of a command that waits for the handler.
CommandsEnd == \A g \in Clients \cup {Sensor} : cmd[g] # None ~> cmd[g] = None

\* cmd_RESUME, which the docs say "Resumes the print from a pause": when the handler stopped
\* because it was told to pause, a RESUME that ends the pause starts it again.
ResumeRestarts ==
    [][\A g \in Clients :
        /\ cmd[g] = "RESUME" /\ is_paused /\ ~is_paused'
        /\ current_file /\ must_pause_work
        => work_timer']_vars
=============================================================================
