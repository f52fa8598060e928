---------------------------- MODULE AudioElement ----------------------------
(***************************************************************************)
(* An audio element (lib/audio_pipeline/audio_element.c): a task that      *)
(* takes one command at a time from a queue and, while it runs, calls its  *)
(* process function between commands; and the functions other tasks call   *)
(* to steer it, which test its fields without a lock, send a command and   *)
(* wait for an event bit.                                                  *)
(*                                                                         *)
(* The fields that both sides read are kept one by one: state, is_open,    *)
(* is_running, task_run, the wait time of the command queue, the event     *)
(* bits.  A handler is cut where it publishes something before it is done: *)
(* STOPPED_BIT before is_running is cleared, PAUSED before the device is   *)
(* closed, RUNNING before STOPPED_BIT is cleared.  open and process may    *)
(* take any time, and end in any way their callers distinguish.            *)
(*                                                                         *)
(* Not here: the status reports, which are sent without waiting and whose  *)
(* result is ignored, and the rings an element aborts or marks done, which *)
(* it meets again only as an outcome of process.                           *)
(***************************************************************************)
EXTENDS Integers, Sequences, FiniteSets

CONSTANTS
  Elements,     \* the elements
  Tasks,        \* the tasks audio_element_run may have created for one element
  Callers,      \* the tasks that call the functions of audio_element.h
  QueueLen,     \* places in the command queue
  Timed,        \* TRUE: the waits of 2000 ms may run out
  OpenFails,    \* TRUE: open may fail
  BufferFails,  \* TRUE: the task may not get its buffer
  Outcomes,     \* the ways process may end
  Ops,          \* the functions the callers use
  MaxCalls      \* bound: calls made

States == {"INIT", "RUNNING", "PAUSED", "STOPPED", "FINISHED", "ERROR"}

\* state >= AEL_STATE_RUNNING and state >= AEL_STATE_PAUSED, as declared.
Started == States \ {"INIT"}
Resting == States \ {"INIT", "RUNNING"}

Cmds == {"ERROR", "FINISH", "STOP", "PAUSE", "RESUME", "DESTROY"}
Bits == {"STOPPED", "STARTED", "CREATED", "DESTROYED", "PAUSED"}
AllOutcomes == {"ok", "done", "abort", "input fails", "process fails",
                "input timeout", "output timeout", "next track"}
AllOps == {"run", "resume", "pause", "stop", "wait", "terminate", "deinit"}

ASSUME SetsAssumption  == IsFiniteSet(Elements) /\ IsFiniteSet(Tasks) /\ Elements # {}
ASSUME QueueAssumption == QueueLen \in Nat \ {0}
ASSUME KindsAssumption == Outcomes \subseteq AllOutcomes /\ Ops \subseteq AllOps

VARIABLES
  el,      \* the elements' fields, their tasks, and the device open and close act on
  api,     \* each caller: the function it is in, on which element; the last result
  calls    \* calls made, for the bound

vars == <<el, api, calls>>

Nowhere == [t \in Tasks |-> "none"]

\* audio_element_init.
NewElement ==
  [state |-> "INIT", isOpen |-> FALSE, isRunning |-> FALSE, taskRun |-> FALSE,
   wait |-> "none", queue |-> <<>>, bits |-> {}, task |-> Nowhere,
   device |-> "closed", freed |-> FALSE]

Init ==
  /\ el = [x \in Elements |-> NewElement]
  /\ api = [c \in Callers |-> [in |-> "nothing", on |-> CHOOSE x \in Elements : TRUE,
                             op |-> "none", ret |-> "none"]]
  /\ calls = 0

-----------------------------------------------------------------------------
(* Pieces of the handlers, on one element's record.                        *)

\* audio_element_cmd_send: a full queue drops the command.
HasRoom(e) == Len(e.queue) < QueueLen
Send(e, cmd) == IF HasRoom(e) THEN [e EXCEPT !.queue = Append(@, cmd)] ELSE e

\* xQueueReset and xEventGroupClearBits.
Emptied(e) == [e EXCEPT !.queue = <<>>]
Cleared(e, bits) == [e EXCEPT !.bits = @ \ bits]

\* if (el->is_open && el->close) ...
Closed(e) == IF e.isOpen THEN [e EXCEPT !.isOpen = FALSE, !.device = "closed"] ELSE e

Goto(e, t, place) == [e EXCEPT !.task[t] = place]

\* audio_element_stop, as the element's own task calls it too.
StopRequest(e) == IF e.taskRun /\ e.state # "STOPPED" THEN Send(e, "STOP") ELSE e

\* audio_element_resume with no threshold, likewise.
ResumeRequest(e) ==
  IF \/ ~e.taskRun \/ e.isRunning
     \/ e.state \in {"RUNNING", "ERROR", "FINISHED"}
  THEN e ELSE Send(e, "RESUME")

-----------------------------------------------------------------------------
(* The task: audio_element_task, audio_event_iface_waiting_cmd_msg and     *)
(* audio_element_on_cmd.                                                   *)

At(x, t, place) == el[x].task[t] = place

Become(x, e) == el' = [el EXCEPT ![x] = e] /\ UNCHANGED <<api, calls>>

TaskCreated(x, t) ==
  /\ At(x, t, "new")
  /\ Become(x, Goto([el[x] EXCEPT !.taskRun = TRUE, !.bits = @ \cup {"CREATED"}], t, "boot"))

TaskBoots(x, t) ==
  /\ At(x, t, "boot")
  /\ \E gotBuffer \in {TRUE} \cup (IF BufferFails THEN {FALSE} ELSE {}) :
       Become(x, Goto([el[x] EXCEPT !.state = "INIT", !.wait = "forever",
                                    !.taskRun = gotBuffer,
                                    !.bits = @ \ {"STOPPED"}], t, "loop"))

\* Nothing in the queue and a wait time of 0.
Poll(x, t) ==
  /\ At(x, t, "loop") /\ el[x].taskRun
  /\ el[x].queue = <<>> /\ el[x].wait = "none"
  /\ Become(x, Goto(el[x], t, "process"))

Receives(x, t, cmd) ==
  /\ At(x, t, "loop") /\ el[x].taskRun
  /\ el[x].queue # <<>> /\ Head(el[x].queue) = cmd

Received(x) == [el[x] EXCEPT !.queue = Tail(@)]

OnError(x, t) ==
  /\ Receives(x, t, "ERROR")
  /\ Become(x, Goto([Closed(Received(x)) EXCEPT
                       !.state = "ERROR", !.wait = "forever", !.isRunning = FALSE,
                       !.bits = @ \cup {"STOPPED"}], t, "process"))

\* Fault: a finished element goes on polling its queue.
OnFinishPolls(x, t) ==
  /\ Receives(x, t, "FINISH")
  /\ Become(x, Goto([Closed(Received(x)) EXCEPT
                       !.state = "FINISHED", !.bits = @ \cup {"STOPPED"}], t, "halt"))

OnFinish(x, t) ==
  /\ Receives(x, t, "FINISH")
  /\ Become(x, Goto([Closed(Received(x)) EXCEPT
                       !.state = "FINISHED", !.wait = "forever",
                       !.bits = @ \cup {"STOPPED"}], t, "halt"))

OnStop(x, t) ==
  /\ Receives(x, t, "STOP") /\ el[x].state # "FINISHED"
  /\ Become(x, Goto([Closed(Received(x)) EXCEPT
                       !.state = "STOPPED", !.wait = "forever",
                       !.bits = @ \cup {"STOPPED"}], t, "halt"))

\* What FINISH and STOP do after they have set STOPPED_BIT.
Halts(x, t) ==
  /\ At(x, t, "halt")
  /\ Become(x, Goto([el[x] EXCEPT !.isRunning = FALSE], t, "process"))

OnStopFinished(x, t) ==
  /\ Receives(x, t, "STOP") /\ el[x].state = "FINISHED"
  /\ Become(x, Goto([Received(x) EXCEPT !.state = "STOPPED",
                                        !.bits = @ \cup {"STOPPED"}], t, "process"))

OnPause(x, t) ==
  /\ Receives(x, t, "PAUSE")
  /\ Become(x, Goto([Received(x) EXCEPT !.state = "PAUSED"], t, "pausing"))

\* Fault: a paused element keeps its device.
PausesOpen(x, t) ==
  /\ At(x, t, "pausing")
  /\ Become(x, Goto([el[x] EXCEPT
                       !.wait = "forever", !.isRunning = FALSE,
                       !.bits = @ \cup {"PAUSED"}], t, "process"))

Pauses(x, t) ==
  /\ At(x, t, "pausing")
  /\ Become(x, Goto([Closed(el[x]) EXCEPT
                       !.wait = "forever", !.isRunning = FALSE,
                       !.bits = @ \cup {"PAUSED"}], t, "process"))

OnResumeRunning(x, t) ==
  /\ Receives(x, t, "RESUME") /\ el[x].state = "RUNNING"
  /\ Become(x, Goto([Received(x) EXCEPT !.isRunning = TRUE], t, "process"))

OnResume(x, t) ==
  /\ Receives(x, t, "RESUME") /\ el[x].state # "RUNNING"
  /\ Become(x, Goto([Received(x) EXCEPT !.isOpen = TRUE], t, "open"))

OpenSucceeds(x, t) ==
  /\ At(x, t, "open")
  /\ Become(x, Goto([el[x] EXCEPT !.device = "open", !.state = "RUNNING",
                                  !.bits = @ \cup {"STARTED"}], t, "opened"))

Starts(x, t) ==
  /\ At(x, t, "opened")
  /\ Become(x, Goto([el[x] EXCEPT !.wait = "none", !.isRunning = TRUE,
                                  !.bits = @ \ {"STOPPED"}], t, "process"))

OpenRefused(x, t) ==
  /\ OpenFails /\ At(x, t, "open")
  /\ Become(x, Goto(Send(el[x], "ERROR"), t, "process"))

OnDestroy(x, t) ==
  /\ Receives(x, t, "DESTROY")
  /\ Become(x, Goto([Received(x) EXCEPT !.taskRun = FALSE, !.isRunning = FALSE],
                    t, "closing"))

\* audio_element_process_state_running: its guard ...
SkipsProcess(x, t) ==
  /\ At(x, t, "process")
  /\ el[x].state = "INIT" \/ ~el[x].isOpen
  /\ Become(x, Goto(el[x], t, "loop"))

EntersProcess(x, t) ==
  /\ At(x, t, "process")
  /\ el[x].state \in Started /\ el[x].isOpen
  /\ Become(x, Goto(el[x], t, "work"))

\* ... and what it and audio_element_input or _output make of the outcome.
\* A failing input or output sends ERROR, and process then returns the
\* failure, which sends it again.
AfterProcess(e, outcome) ==
  CASE outcome \in {"ok", "input timeout"} -> e
    [] outcome = "done" /\ e.state = "INIT" ->
         ResumeRequest([e EXCEPT !.isOpen = FALSE, !.isRunning = FALSE])
    [] outcome = "done" /\ e.state # "INIT" -> Send(e, "FINISH")
    [] outcome = "abort"           -> StopRequest(e)
    [] outcome = "output timeout"  -> Send(e, "PAUSE")
    [] outcome = "process fails"   -> Send(e, "ERROR")
    [] outcome = "input fails"     -> Send(Send(e, "ERROR"), "ERROR")

\* audio_element_reset_state, as http_stream_next_track calls it inside
\* process, with its stream marked closed; process then says it is done.
ResetState(x, t) ==
  /\ "next track" \in Outcomes /\ At(x, t, "work")
  /\ Become(x, Goto([el[x] EXCEPT !.state = "INIT", !.device = "closed"], t, "reset"))

Works(x, t, outcome) ==
  /\ \/ At(x, t, "work")
     \/ At(x, t, "reset") /\ outcome = "done"
  /\ Become(x, Goto(AfterProcess(el[x], outcome), t, "loop"))

LeavesLoop(x, t) ==
  /\ At(x, t, "loop") /\ ~el[x].taskRun
  /\ Become(x, Goto(el[x], t, "closing"))

Ends(x, t) ==
  /\ At(x, t, "closing")
  /\ Become(x, Goto([Closed(el[x]) EXCEPT !.bits = @ \cup {"DESTROYED"}], t, "none"))

-----------------------------------------------------------------------------
(* The callers.                                                            *)

Begins(c, x, op) ==
  /\ op \in Ops /\ calls < MaxCalls
  /\ api[c].in = "nothing" /\ ~el[x].freed
  /\ calls' = calls + 1

\* A wait_for_stop that follows a successful stop is remembered as such.
Returns(c, x, op, ret) ==
  api' = [api EXCEPT ![c] = [in |-> "nothing", on |-> x, ret |-> ret,
            op |-> IF op = "wait" /\ @.on = x /\ @.op = "stop" /\ @.ret = "OK"
                   THEN "stopped" ELSE op]]

Waits(c, x, op) == api' = [api EXCEPT ![c] = [@ EXCEPT !.in = op, !.on = x]]

In(c, x, op) == api[c].in = op /\ api[c].on = x

Answers(c, x, op, ret) == Begins(c, x, op) /\ Returns(c, x, op, ret) /\ UNCHANGED el

RunsAlready(c, x) == el[x].taskRun /\ Answers(c, x, "run", "OK")

\* audio_element_run tests task_run ...
Run(c, x) ==
  /\ Begins(c, x, "run") /\ ~el[x].taskRun
  /\ Waits(c, x, "create")
  /\ UNCHANGED el

\* ... and creates the task, its queue emptied and its bits cleared.
CreateTask(c, x) ==
  /\ In(c, x, "create")
  /\ \E t \in Tasks :
       /\ At(x, t, "none")
       /\ el' = [el EXCEPT ![x] = Goto(Cleared(Emptied(@), {"CREATED", "STOPPED"}), t, "new")]
  /\ Waits(c, x, "run")
  /\ UNCHANGED calls

\* Fault: PAUSED_BIT of the last pause is not cleared.
PauseNoClear(c, x) ==
  /\ Begins(c, x, "pause") /\ el[x].taskRun /\ el[x].state \notin Resting
  /\ el' = [el EXCEPT ![x] = Send(@, "PAUSE")]
  /\ IF HasRoom(el[x]) THEN Waits(c, x, "pause") ELSE Returns(c, x, "pause", "FAIL")

PauseNotRun(c, x) == ~el[x].taskRun /\ Answers(c, x, "pause", "FAIL")
PauseResting(c, x) ==
  el[x].taskRun /\ el[x].state \in Resting /\ Answers(c, x, "pause", "OK")
Pause(c, x) ==
  /\ Begins(c, x, "pause") /\ el[x].taskRun /\ el[x].state \notin Resting
  /\ el' = [el EXCEPT ![x] = Send(Cleared(@, {"PAUSED"}), "PAUSE")]
  /\ IF HasRoom(el[x]) THEN Waits(c, x, "pause") ELSE Returns(c, x, "pause", "FAIL")

ResumeNotRun(c, x) == ~el[x].taskRun /\ Answers(c, x, "resume", "FAIL")
ResumeRunning(c, x) ==
  /\ el[x].taskRun /\ (el[x].isRunning \/ el[x].state = "RUNNING")
  /\ Answers(c, x, "resume", "OK")
ResumeError(c, x) ==
  /\ el[x].taskRun /\ ~el[x].isRunning /\ el[x].state = "ERROR"
  /\ Answers(c, x, "resume", "FAIL")
ResumeFinished(c, x) ==
  /\ el[x].taskRun /\ ~el[x].isRunning /\ el[x].state = "FINISHED"
  /\ Answers(c, x, "resume", "OK")
\* The result of the send is not looked at.
Resume(c, x) ==
  /\ Begins(c, x, "resume") /\ el[x].taskRun /\ ~el[x].isRunning
  /\ el[x].state \in {"INIT", "PAUSED", "STOPPED"}
  /\ el' = [el EXCEPT ![x] = Send(@, "RESUME")]
  /\ Returns(c, x, "resume", "OK")

StopNotRun(c, x) == ~el[x].taskRun /\ Answers(c, x, "stop", "FAIL")
StopStopped(c, x) ==
  el[x].taskRun /\ el[x].state = "STOPPED" /\ Answers(c, x, "stop", "OK")
Stop(c, x) ==
  /\ Begins(c, x, "stop") /\ el[x].taskRun /\ el[x].state # "STOPPED"
  /\ el' = [el EXCEPT ![x] = Send(@, "STOP")]
  /\ Returns(c, x, "stop", IF HasRoom(el[x]) THEN "OK" ELSE "FAIL")

WaitForStop(c, x) == Begins(c, x, "wait") /\ Waits(c, x, "wait") /\ UNCHANGED el

\* Fault: TASK_DESTROYED_BIT of the last task is not cleared.
TerminateNoClear(c, x) ==
  /\ Begins(c, x, "terminate") /\ el[x].taskRun
  /\ el' = [el EXCEPT ![x] = Send(@, "DESTROY")]
  /\ IF HasRoom(el[x]) THEN Waits(c, x, "terminate") ELSE Returns(c, x, "terminate", "FAIL")

TerminateNotRun(c, x) == ~el[x].taskRun /\ Answers(c, x, "terminate", "OK")
Terminate(c, x) ==
  /\ Begins(c, x, "terminate") /\ el[x].taskRun
  /\ el' = [el EXCEPT ![x] = Send(Cleared(@, {"DESTROYED"}), "DESTROY")]
  /\ IF HasRoom(el[x]) THEN Waits(c, x, "terminate") ELSE Returns(c, x, "terminate", "FAIL")

\* audio_element_deinit: stop, wait_for_stop, terminate, free.  No result is
\* looked at.
Deinit(c, x) ==
  /\ Begins(c, x, "deinit")
  /\ el' = [el EXCEPT ![x] = StopRequest(@)]
  /\ Waits(c, x, "deinit stops")

DeinitTerminates(c, x) ==
  /\ In(c, x, "deinit stops")
  /\ "STOPPED" \in el[x].bits \/ Timed
  /\ IF el[x].taskRun /\ HasRoom(el[x])
     THEN /\ el' = [el EXCEPT ![x] = Send(Cleared(@, {"DESTROYED"}), "DESTROY")]
          /\ Waits(c, x, "deinit waits")
     ELSE /\ Waits(c, x, "deinit frees")
          /\ UNCHANGED el
  /\ UNCHANGED calls

DeinitWaits(c, x) ==
  /\ In(c, x, "deinit waits")
  /\ "DESTROYED" \in el[x].bits \/ Timed
  /\ Waits(c, x, "deinit frees")
  /\ UNCHANGED <<el, calls>>

DeinitFrees(c, x) ==
  /\ In(c, x, "deinit frees")
  /\ el' = [el EXCEPT ![x].freed = TRUE]
  /\ Returns(c, x, "deinit", "OK")
  /\ UNCHANGED calls

AwaitedBit == [run |-> "CREATED", pause |-> "PAUSED", wait |-> "STOPPED",
               terminate |-> "DESTROYED"]

BitSeen(c, x) ==
  /\ api[c].in \in DOMAIN AwaitedBit /\ api[c].on = x
  /\ AwaitedBit[api[c].in] \in el[x].bits
  /\ Returns(c, x, api[c].in, "OK")
  /\ UNCHANGED <<el, calls>>

TimesOut(c, x) ==
  /\ Timed /\ api[c].in \in DOMAIN AwaitedBit /\ api[c].on = x
  /\ AwaitedBit[api[c].in] \notin el[x].bits
  /\ Returns(c, x, api[c].in, "FAIL")
  /\ UNCHANGED <<el, calls>>

-----------------------------------------------------------------------------
Handlers(x, t) ==
  \/ OnError(x, t) \/ OnFinish(x, t) \/ OnStop(x, t) \/ Halts(x, t)
  \/ OnStopFinished(x, t) \/ OnPause(x, t) \/ Pauses(x, t)
  \/ OnResumeRunning(x, t) \/ OnResume(x, t)
  \/ OpenSucceeds(x, t) \/ Starts(x, t) \/ OpenRefused(x, t) \/ OnDestroy(x, t)

Task(x, t) ==
  \/ TaskCreated(x, t) \/ TaskBoots(x, t) \/ Poll(x, t) \/ Handlers(x, t)
  \/ SkipsProcess(x, t) \/ EntersProcess(x, t)
  \/ ResetState(x, t)
  \/ \E outcome \in Outcomes \ {"next track"} : Works(x, t, outcome)
  \/ LeavesLoop(x, t) \/ Ends(x, t)

AskRun(c, x) == RunsAlready(c, x) \/ Run(c, x)
AskPause(c, x) == PauseNotRun(c, x) \/ PauseResting(c, x) \/ Pause(c, x)
AskResume(c, x) ==
  \/ ResumeNotRun(c, x) \/ ResumeRunning(c, x) \/ ResumeError(c, x)
  \/ ResumeFinished(c, x) \/ Resume(c, x)
AskStop(c, x) == StopNotRun(c, x) \/ StopStopped(c, x) \/ Stop(c, x)
AskTerminate(c, x) == TerminateNotRun(c, x) \/ Terminate(c, x)

Request(c, x) ==
  \/ AskRun(c, x) \/ AskPause(c, x) \/ AskResume(c, x) \/ AskStop(c, x)
  \/ WaitForStop(c, x) \/ AskTerminate(c, x) \/ Deinit(c, x)

Completion(c, x) ==
  \/ CreateTask(c, x) \/ BitSeen(c, x) \/ TimesOut(c, x)
  \/ DeinitTerminates(c, x) \/ DeinitWaits(c, x) \/ DeinitFrees(c, x)

Next ==
  \E x \in Elements :
    \/ \E t \in Tasks : Task(x, t)
    \/ \E c \in Callers : Request(c, x) \/ Completion(c, x)

Spec == Init /\ [][Next]_vars

\* The scheduler serves the element's task and whoever can go on; open,
\* close and process return.
Fairness ==
  \A x \in Elements :
    /\ \A t \in Tasks : WF_vars(Task(x, t))
    /\ \A c \in Callers : WF_vars(Completion(c, x))

FairSpec == Spec /\ Fairness

-----------------------------------------------------------------------------
(* Properties.                                                             *)

Places == {"none", "new", "boot", "loop", "halt", "pausing", "open", "opened",
           "process", "work", "reset", "closing"}

ElementType ==
  [state : States, isOpen : BOOLEAN, isRunning : BOOLEAN, taskRun : BOOLEAN,
   wait : {"none", "forever"}, queue : Seq(Cmds), bits : SUBSET Bits,
   task : [Tasks -> Places], device : {"closed", "open"}, freed : BOOLEAN]

CallType ==
  [in : {"nothing", "create", "run", "pause", "wait", "terminate",
         "deinit stops", "deinit waits", "deinit frees"},
   on : Elements,
   op : AllOps \cup {"none", "stopped"}, ret : {"none", "OK", "FAIL"}]

TypeOK ==
  /\ el \in [Elements -> ElementType]
  /\ \A x \in Elements : Len(el[x].queue) <= QueueLen
  /\ api \in [Callers -> CallType]
  /\ calls \in Nat

Alive(x) == {t \in Tasks : el[x].task[t] # "none"}
Waiting(x, t) == At(x, t, "loop") /\ el[x].taskRun

\* audio_element_run never starts a second task on an element whose first
\* one is still there, whatever the calls before it.
OneTask == \A x \in Elements : Cardinality(Alive(x)) <= 1

\* open is never called on a device that is open already: every way out of
\* RUNNING closes it.
OpensClosed ==
  \A x \in Elements, t \in Tasks : At(x, t, "open") => el[x].device = "closed"

\* A running element processes a device that open has opened.  (One that has
\* failed to open, and is not running, may process once more: is_open is
\* raised before open is called and the state of its last run is kept.)
ProcessesOpen ==
  \A x \in Elements, t \in Tasks :
    At(x, t, "work") /\ el[x].state = "RUNNING" => el[x].device = "open"

\* An element without a task holds no device.
ClosedAtEnd == \A x \in Elements : Alive(x) = {} => el[x].device = "closed"

\* open and close go with the life of the element on every way through its
\* states, the failed ones included.
DeviceInStep == OpensClosed /\ ProcessesOpen /\ ClosedAtEnd

\* A task polls an empty queue only while it runs an open device; otherwise it
\* sleeps until a command comes.
NoSpin ==
  \A x \in Elements, t \in Tasks :
    Waiting(x, t) /\ el[x].queue = <<>> /\ el[x].wait = "none"
      => el[x].state = "RUNNING" /\ el[x].isOpen

\* Between commands is_running says what state says.
FlagsAgree ==
  \A x \in Elements, t \in Tasks :
    Waiting(x, t) => (el[x].isRunning <=> el[x].state = "RUNNING")

\* Between commands STOPPED_BIT is set only on an element that does not run.
StoppedBitHolds ==
  \A x \in Elements, t \in Tasks :
    Waiting(x, t) /\ "STOPPED" \in el[x].bits => el[x].state # "RUNNING"

\* The flags, bits and wait time of an element go with its state, in any
\* order of commands.
FlagsInStep == TypeOK /\ NoSpin /\ FlagsAgree /\ StoppedBitHolds

\* When audio_element_pause says OK because PAUSED_BIT is set, the element does
\* not run: the bit is that of this pause.
PauseHolds ==
  [][\A c \in Callers, x \in Elements :
       In(c, x, "pause") /\ api'[c].in = "nothing" /\ api'[c].ret = "OK"
         => el[x].state # "RUNNING"]_vars

\* A run, a pause and a terminate get their answer however slow the element
\* is: the 2000 ms are there for slowness only, no bit is missed.
Answered ==
  \A c \in Callers :
    api[c].in \in {"run", "pause", "terminate"} ~> api[c].in = "nothing"

\* An element whose process has nothing more to give comes to rest, although
\* the command it sends itself may find the queue full: process ends the same
\* way again, and it is sent again.  (A destroyed one keeps its state and
\* loses its task.)
ComesToRest ==
  \A x \in Elements :
    el[x].state = "RUNNING" ~> el[x].state # "RUNNING" \/ Alive(x) = {}

\* What the callers of an element ask for comes about.
Obeyed == PauseHolds /\ Answered /\ ComesToRest
=============================================================================
