--------------------------- MODULE AudioPipeline ---------------------------
(***************************************************************************)
(* An audio pipeline (lib/audio_pipeline/audio_pipeline.c): a chain of     *)
(* elements joined by rings, and the functions that go through the chain   *)
(* and call the elements' own.  The elements are those of AudioElement,    *)
(* with what they do to their rings added: STOP and ERROR abort both,      *)
(* RESUME after a stop resets the output, the end of the input marks the   *)
(* output done.  Element i writes ring i and reads ring i - 1; the first   *)
(* reads a source of TrackLen blocks, the last one plays them.             *)
(*                                                                         *)
(* A ring is what RingBuf and its proofs say of it, cut down to blocks:    *)
(* data in order, the done flag, and an abort left for either side.  What  *)
(* its reader does outside the mutex is kept: it finds the ring empty, and *)
(* looks at the done flag later.  A pipeline function is the list of calls *)
(* it makes, one after the other, while the elements' tasks run.           *)
(***************************************************************************)
EXTENDS Integers, Sequences, SequencesExt

CONSTANTS
  N,            \* elements in the chain
  RingCap,      \* blocks a ring holds
  TrackLen,     \* blocks the source has
  Impatient,    \* elements with a finite input_wait_time
  OpenFails,    \* TRUE: open may fail
  QueueLen,     \* places in a command queue
  PipeOps,      \* the functions the application calls
  Patient,      \* TRUE: it calls the next one when the last has taken effect
  MaxOps        \* bound: functions called

ASSUME ChainAssumption == N \in Nat \ {0} /\ Impatient \subseteq 1 .. N
ASSUME SizesAssumption ==
  /\ RingCap \in Nat \ {0} /\ TrackLen \in Nat
  /\ QueueLen \in Nat \ {0} /\ MaxOps \in Nat
ASSUME CallsAssumption ==
  /\ PipeOps \subseteq {"run", "pause", "resume", "stop", "wait", "terminate"}
  /\ OpenFails \in BOOLEAN /\ Patient \in BOOLEAN

Chain == 1 .. N
Rings == 1 .. N - 1

VARIABLES
  el, api, calls,   \* the elements and the caller, see AudioElement
  ring,             \* the rings
  src,              \* the position of the source
  hold,             \* the block an element's process function has in hand, or 0
  starved,          \* elements that have found the ring they read empty
  played,           \* history: the blocks played
  late,             \* history: starved elements that were written a block since
  pipe              \* the pipeline, and the function it is in

elements == <<el, api, calls>>
flow == <<ring, src, hold, starved, played, late>>
vars == <<elements, flow, pipe>>

\* One task per element, AudioElement!OneTask; one caller; waits of 2000 ms
\* are long enough; a buffer is always found.
Task == 1
Caller == "application"
E == INSTANCE AudioElement
       WITH Elements <- Chain, Tasks <- {Task}, Callers <- {Caller}, Timed <- FALSE,
            BufferFails <- FALSE,
            Outcomes <- {"ok", "done", "abort", "input timeout"},
            Ops <- {"run", "resume", "pause", "stop", "wait", "terminate"},
            MaxCalls <- 10 * N * MaxOps

EmptyRing == [data |-> <<>>, done |-> FALSE, abort |-> {}]

Init ==
  /\ E!Init
  /\ ring = [i \in Rings |-> EmptyRing]
  /\ src = 0 /\ hold = [x \in Chain |-> 0] /\ starved = {}
  /\ played = <<>> /\ late = {}
  /\ pipe = [state |-> "INIT", todo |-> <<>>, op |-> "none", past |-> {},
             restarted |-> FALSE, failed |-> FALSE, ops |-> 0]

-----------------------------------------------------------------------------
(* What the elements do to their rings.                                    *)

\* audio_element_abort_input_ringbuf and _output_ringbuf.
Aborted(x) ==
  [i \in Rings |-> IF i \in {x - 1, x}
                   THEN [ring[i] EXCEPT !.abort = {"read", "write"}] ELSE ring[i]]

Reset(which) == [i \in Rings |-> IF i \in which THEN EmptyRing ELSE ring[i]]

HasPlace(i) == Len(ring[i].data) < RingCap
\* rb_read waits, or reports the end, when there is nothing left to read.
Drained(i) == ring[i].data = <<>>

\* Fault: the end of the stream is not passed on.
EndedNot(x, rings) == rings

\* audio_element_set_ringbuf_done.
Ended(x, rings) ==
  [i \in Rings |-> IF i = x THEN [rings[i] EXCEPT !.done = TRUE] ELSE rings[i]]

AbortTaken(i, side) == [ring EXCEPT ![i].abort = @ \ {side}]

\* process ends: the element's part, and an empty hand.
Ends(x, outcome) == E!Works(x, Task, outcome) /\ hold' = [hold EXCEPT ![x] = 0]

Working(x) == E!At(x, Task, "work")
Reads(x) == Working(x) /\ hold[x] = 0
Writes(x) == Working(x) /\ hold[x] # 0

\* audio_element_input of the first element: the source.
ReadSource(x) ==
  /\ Reads(x) /\ x = 1
  /\ IF src < TrackLen
     THEN /\ src' = src + 1 /\ hold' = [hold EXCEPT ![x] = src + 1]
          /\ UNCHANGED <<elements, ring>>
     ELSE /\ Ends(x, "done") /\ ring' = Ended(x, ring)
          /\ UNCHANGED src
  /\ UNCHANGED <<starved, played, late, pipe>>

\* audio_element_input of the others: rb_read takes a block, or finds none and
\* releases the mutex.
ReadRing(x) ==
  /\ Reads(x) /\ x > 1 /\ x \notin starved
  /\ IF Drained(x - 1)
     THEN /\ starved' = starved \cup {x} /\ late' = late \ {x}
          /\ UNCHANGED <<ring, hold>>
     ELSE /\ hold' = [hold EXCEPT ![x] = Head(ring[x - 1].data)]
          /\ ring' = [ring EXCEPT ![x - 1].data = Tail(@)]
          /\ UNCHANGED <<starved, late>>
  /\ UNCHANGED <<elements, src, played, pipe>>

\* It then looks at the done flag, and waits for data or an abort.
StarvedGoesOn(x) ==
  /\ Reads(x) /\ x \in starved
  /\ LET in == ring[x - 1] IN
       \/ /\ in.done
          /\ Ends(x, "done") /\ ring' = Ended(x, ring)
       \/ /\ "read" \in in.abort
          /\ Ends(x, "abort") /\ ring' = Ended(x, AbortTaken(x - 1, "read"))
       \/ /\ in.data # <<>>
          /\ UNCHANGED <<elements, ring, hold>>
       \/ /\ ~in.done /\ in.data = <<>> /\ in.abort = {} /\ x \in Impatient
          /\ Ends(x, "input timeout")
          /\ UNCHANGED ring
  /\ starved' = starved \ {x}
  /\ UNCHANGED <<src, played, late, pipe>>

\* audio_element_output of the last element: the codec.
Play(x) ==
  /\ Writes(x) /\ x = N
  /\ played' = Append(played, hold[x])
  /\ Ends(x, "ok")
  /\ UNCHANGED <<ring, src, starved, late, pipe>>

\* audio_element_output of the others: rb_write.
WriteRing(x) ==
  /\ Writes(x) /\ x < N
  /\ \/ /\ HasPlace(x)
        /\ ring' = [ring EXCEPT ![x].data = Append(@, hold[x])]
        /\ late' = late \cup (starved \cap {x + 1})
        /\ Ends(x, "ok")
     \/ /\ ~HasPlace(x) /\ ring[x].done
        /\ Ends(x, "done") /\ ring' = Ended(x, ring)
        /\ UNCHANGED late
     \/ /\ ~HasPlace(x) /\ ~ring[x].done /\ "write" \in ring[x].abort
        /\ Ends(x, "abort") /\ ring' = Ended(x, AbortTaken(x, "write"))
        /\ UNCHANGED late
  /\ UNCHANGED <<src, starved, played, pipe>>

OnError(x) ==
  /\ E!OnError(x, Task) /\ ring' = Aborted(x)
  /\ UNCHANGED <<src, hold, starved, played, late, pipe>>

OnStop(x) ==
  /\ E!OnStop(x, Task) /\ ring' = Aborted(x)
  /\ UNCHANGED <<src, hold, starved, played, late, pipe>>

\* Fault: whatever its state, the element resets the ring it reads.
ResumeResetsInput(x) == {x - 1}
ResumeResets(x) == IF el[x].state \in {"INIT", "PAUSED"} THEN {} ELSE {x}

OnResume(x) ==
  /\ E!OnResume(x, Task) /\ ring' = Reset(ResumeResets(x))
  /\ UNCHANGED <<src, hold, starved, played, late, pipe>>

\* The steps of an element that touch no ring.
Quiet(x) ==
  /\ \/ E!TaskCreated(x, Task) \/ E!TaskBoots(x, Task) \/ E!Poll(x, Task)
     \/ E!OnFinish(x, Task) \/ E!Halts(x, Task) \/ E!OnStopFinished(x, Task)
     \/ E!OnPause(x, Task) \/ E!Pauses(x, Task) \/ E!OnResumeRunning(x, Task)
     \/ E!OpenSucceeds(x, Task) \/ E!Starts(x, Task) \/ E!OpenRefused(x, Task)
     \/ E!OnDestroy(x, Task) \/ E!LeavesLoop(x, Task) \/ E!Ends(x, Task)
     \/ E!SkipsProcess(x, Task) \/ E!EntersProcess(x, Task)
  /\ UNCHANGED <<flow, pipe>>

Element(x) ==
  \/ ReadSource(x) \/ ReadRing(x) \/ StarvedGoesOn(x) \/ Play(x) \/ WriteRing(x)
  \/ OnError(x) \/ OnStop(x) \/ OnResume(x) \/ Quiet(x)

-----------------------------------------------------------------------------
(* The functions of the pipeline, as the calls they make.                  *)

\* FOREACH over the list of elements.
Each(what) == [x \in Chain |-> <<what, x>>]

Pause == Each("pause")
Resume == Each("resume")
Stop == Each("stop")

WaitForStop(state) ==
  IF state # "RUNNING" THEN <<>>
  ELSE FlattenSeq([x \in Chain |-> << <<"wait", x>>, <<"reset", x>> >>])
         \o << <<"stopped", 0>> >>

Terminate(state) == Stop \o WaitForStop(state) \o Each("terminate")

Run(state) ==
  IF state # "INIT" THEN <<>> ELSE Each("run") \o Resume \o << <<"started", 0>> >>

Program(op, state) ==
  CASE op = "run" -> Run(state)
    [] op = "pause" -> Pause
    [] op = "resume" -> Resume
    [] op = "stop" -> Stop
    [] op = "wait" -> WaitForStop(state)
    [] op = "terminate" -> Terminate(state)

Calls == {"run", "pause", "resume", "stop", "wait", "terminate"} \X Chain
           \cup {"reset"} \X Chain \cup {"started", "stopped"} \X {0}

NotInCall == api[Caller].in = "nothing"
Idle == pipe.todo = <<>> /\ NotInCall

\* What was asked of the elements has been carried out.
Settled ==
  \A x \in Chain : /\ el[x].queue = <<>>
                  /\ el[x].task[Task] \in {"none", "loop", "process", "work"}

May == Idle /\ pipe.ops < MaxOps

\* A second run, and a wait on a pipeline that is not RUNNING, do nothing.
BeginsNothing(op) ==
  /\ May /\ Program(op, pipe.state) = <<>>
  /\ pipe' = [pipe EXCEPT !.ops = @ + 1]
  /\ UNCHANGED <<elements, flow>>

\* Whoever waits for the elements to stop has asked them to.
Begin(op) ==
  /\ May /\ Program(op, pipe.state) # <<>>
  /\ IF op = "wait" THEN pipe.op = "stop" ELSE Patient => Settled
  /\ pipe' = [pipe EXCEPT !.todo = Program(op, pipe.state), !.failed = FALSE,
                          !.op = op, !.past = @ \cup {op}, !.ops = @ + 1,
                          !.restarted = @ \/ /\ op \in {"run", "resume"}
                                             /\ pipe.past \cap {"stop", "terminate"} # {}]
  /\ UNCHANGED <<elements, flow>>

\* The next call the function makes; and it has been made.
Due(what, x) == NotInCall /\ pipe.todo # <<>> /\ Head(pipe.todo) = <<what, x>>
Gone(p) == [p EXCEPT !.todo = Tail(@)]

CallRun(x) ==
  /\ Due("run", x)
  /\ IF el[x].state \in {"INIT", "STOPPED", "FINISHED", "ERROR"}
     THEN E!AskRun(Caller, x)
     ELSE UNCHANGED elements
  /\ pipe' = [Gone(pipe) EXCEPT !.failed = FALSE]
  /\ UNCHANGED flow

CallResume(x) ==
  /\ Due("resume", x)
  /\ E!AskResume(Caller, x)
  /\ pipe' = [Gone(pipe) EXCEPT !.failed = @ \/ api'[Caller].ret = "FAIL"]
  /\ UNCHANGED flow

Call(x) ==
  /\ \/ Due("pause", x) /\ E!AskPause(Caller, x)
     \/ Due("stop", x) /\ E!AskStop(Caller, x)
     \/ Due("wait", x) /\ E!WaitForStop(Caller, x)
     \/ Due("terminate", x) /\ E!AskTerminate(Caller, x)
  /\ pipe' = Gone(pipe)
  /\ UNCHANGED flow

\* The call returns.
Answer(x) ==
  /\ E!CreateTask(Caller, x) \/ E!BitSeen(Caller, x)
  /\ UNCHANGED <<flow, pipe>>

ResetRings(x) ==
  /\ Due("reset", x)
  /\ ring' = Reset({x - 1, x})
  /\ pipe' = Gone(pipe)
  /\ UNCHANGED <<elements, src, hold, starved, played, late>>

\* The end of audio_pipeline_run: what resume returned decides.
Started ==
  /\ Due("started", 0)
  /\ pipe' = IF pipe.failed
             THEN [pipe EXCEPT !.state = "ERROR", !.todo = Terminate("ERROR")]
             ELSE [Gone(pipe) EXCEPT !.state = "RUNNING"]
  /\ UNCHANGED <<elements, flow>>

Stopped ==
  /\ Due("stopped", 0)
  /\ pipe' = [Gone(pipe) EXCEPT !.state = "INIT"]
  /\ UNCHANGED <<elements, flow>>

Going ==
  \/ Started \/ Stopped
  \/ \E x \in Chain : CallRun(x) \/ CallResume(x) \/ Call(x) \/ Answer(x) \/ ResetRings(x)

Next ==
  \/ \E op \in PipeOps : BeginsNothing(op) \/ Begin(op)
  \/ Going
  \/ \E x \in Chain : Element(x)

Spec == Init /\ [][Next]_vars

\* The application's task and the elements' tasks are all served.
FairSpec == Spec /\ WF_vars(Going) /\ \A x \in Chain : WF_vars(Element(x))

-----------------------------------------------------------------------------
(* Properties.                                                             *)

TypeOK ==
  /\ E!TypeOK
  /\ ring \in [Rings -> [data : Seq(1 .. TrackLen), done : BOOLEAN,
                         abort : SUBSET {"read", "write"}]]
  /\ \A i \in Rings : Len(ring[i].data) <= RingCap
  /\ src \in 0 .. TrackLen /\ hold \in [Chain -> 0 .. TrackLen]
  /\ played \in Seq(1 .. TrackLen)
  /\ late \subseteq Chain /\ \A x \in starved : Reads(x)
  /\ pipe.state \in {"INIT", "RUNNING", "ERROR"} /\ pipe.ops \in 0 .. MaxOps
  /\ pipe.todo \in Seq(Calls)

InHand(x) == IF hold[x] = 0 THEN <<>> ELSE <<hold[x]>>
InFlight[x \in Chain] ==
  InHand(x) \o IF x = 1 THEN <<>> ELSE ring[x - 1].data \o InFlight[x - 1]
Blocks(n) == [b \in 1 .. n |-> b]

Healthy == \A x \in Chain : el[x].state # "ERROR" /\ "ERROR" \notin Range(el[x].queue)

\* While a pipeline that was run, and neither paused nor stopped, works, what
\* was played, what the elements hold and what the rings hold is together what
\* was read from the source, in order: no block is lost, repeated or overtaken
\* at a ring, an element or the start of an element.
Conserved == pipe.past = {"run"} /\ Healthy => played \o InFlight[N] = Blocks(src)

\* When the last element of such a pipeline is FINISHED and none has failed, the
\* whole source has been played: the end of the stream does not overtake the
\* data.  (An element that fails aborts its rings, and the next one marks its
\* output done before it stops, so the one after that takes it for the end of
\* the stream.)  The one exception is rb_read's: a block that is written, and
\* the ring made done, after the reader has found it empty and before it looks
\* at the done flag (README, Faults).
Whole ==
  pipe.past = {"run"} /\ Healthy /\ el[N].state = "FINISHED" /\ late = {}
    => played = Blocks(TrackLen)

\* When audio_pipeline_terminate has returned no element has a task left.
Torn == pipe.op = "terminate" /\ Idle => \A x \in Chain : E!Alive(x) = {}

\* Through every order of the pipeline's functions the stream stays whole and
\* the tasks go with their elements.
StreamKept == TypeOK /\ Conserved /\ Whole /\ Torn

\* audio_pipeline.h:169: wait_for_stop "will wait until all the Elements in the
\* pipeline actually stop".  Every function of the pipeline returns, and none
\* needs its waits of 2000 ms to run out: what it waits for comes.  (Not
\* claimed of a pipeline started again after a stop: README, Faults.)
OpsReturn == pipe.todo # <<>> /\ ~pipe.restarted ~> Idle

Asked ==
  /\ Idle /\ Settled /\ Healthy
  /\ pipe.state = "RUNNING" /\ pipe.op \in {"run", "resume"}
Unbroken == \A i \in Rings : ring[i].abort = {}
NoLonger == pipe.op \notin {"run", "resume"}

\* A pipeline that was run, or paused and resumed, and none of whose elements
\* has failed and aborted its rings, comes to its end: no wake-up, end mark or
\* command is lost on the way through the chain.
ComesToEnd ==
  Asked /\ pipe.past \subseteq {"run", "pause", "resume"} /\ Unbroken
    ~> el[N].state = "FINISHED" \/ NoLonger

\* When an element of a running pipeline fails, its neighbours learn of it: all
\* leave RUNNING.
Failed == pipe.past = {"run"} /\ \E x \in Chain : el[x].state = "ERROR"
ErrorSpreads == Failed ~> ~Failed \/ \A x \in Chain : el[x].state # "RUNNING"

\* A pipeline answers its callers, and comes to its end or to the news of an
\* error.
Completes == OpsReturn /\ ComesToEnd /\ ErrorSpreads
=============================================================================
