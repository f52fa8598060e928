------------------------ MODULE AudioElementProofs -------------------------
(***************************************************************************)
(* Proofs about AudioElement, for any elements, callers, queue length and  *)
(* outcomes of process.                                                    *)
(*                                                                         *)
(* EInv ties the fields of an element to the place its task is at (Shape); *)
(* it is inductive as long as an element has one task.  LInv adds the life *)
(* of that task as its callers see it (Life), which is inductive as long   *)
(* as nobody gives up waiting; it gives the one task.                      *)
(***************************************************************************)
EXTENDS AudioElement, FiniteSetTheorems, TLAPS

\* Places of a task: between commands, alive, and without any of its state.
Idling == {"loop", "process", "work"}
Living == Idling \cup {"halt", "open", "opened", "reset"}
Gone   == {"none", "new", "boot"}

\* What an element's fields are while its task is at place p.
Shape(e, p) ==
  /\ e.device = "open" => e.isOpen
  /\ p \in Gone => e.device = "closed"
  /\ p \in Living => (e.device = "open" <=> e.state = "RUNNING")
  /\ p = "pausing" => e.state = "PAUSED"
  /\ p = "halt" => e.state \in {"FINISHED", "STOPPED"} /\ e.wait = "forever"
  /\ p = "open" => /\ e.state # "RUNNING" /\ e.isOpen
                   /\ e.wait = "none" => e.state = "INIT"
  /\ p = "opened" => e.state = "RUNNING"
  /\ p = "reset" => e.state = "INIT"
  /\ p = "work" => e.state # "INIT"
  /\ p \in Gone \cup {"closing", "open"} => ~e.isRunning
  /\ p \in Idling =>
       /\ e.isRunning <=> e.state = "RUNNING"
       /\ e.state = "RUNNING" => "STOPPED" \notin e.bits
       /\ e.wait = "none" /\ e.state # "RUNNING" => e.state = "INIT" /\ e.queue # <<>>
  /\ p \in (Living \ {"loop"}) \cup {"boot", "pausing"} => e.taskRun
  /\ p = "loop" /\ ~e.taskRun => ~e.isRunning

\* One element's part of TypeOK.
Sound(e) == e \in ElementType /\ Len(e.queue) <= QueueLen

\* Task t of x goes to place q and leaves the element in shape for it.
Moves(x, t, q) ==
  /\ el' = [el EXCEPT ![x] = el'[x]] /\ UNCHANGED <<api, calls>>
  /\ Sound(el'[x])
  /\ el'[x].task = [el[x].task EXCEPT ![t] = q]
  /\ Shape(el'[x], q)

\* A shape speaks of these fields only, of a queue that stays non-empty and of STOPPED.
LEMMA ShapeKept ==
  ASSUME NEW e \in ElementType, NEW f \in ElementType, NEW p, Shape(e, p),
         f.device = e.device, f.state = e.state, f.wait = e.wait,
         f.isOpen = e.isOpen, f.isRunning = e.isRunning, f.taskRun = e.taskRun,
         e.queue # <<>> => f.queue # <<>>,
         "STOPPED" \in f.bits => "STOPPED" \in e.bits
  PROVE  Shape(f, p)
  BY DEF Shape, ElementType

\* A step of a task that only changes its element's record is a move.
LEMMA BecomeLemma ==
  ASSUME NEW x \in Elements, NEW t \in Tasks, NEW q \in Places, NEW f,
         el \in [Elements -> ElementType], Sound(f),
         Become(x, Goto(f, t, q)), f.task = el[x].task, Shape(f, q)
  PROVE  Moves(x, t, q)
<1> DEFINE k == [el[x].task EXCEPT ![t] = q]
           g == [f EXCEPT !.task = k]
<1>1. f \in ElementType /\ k \in [Tasks -> Places]
  BY DEF Sound, ElementType
<1>2. el' = [el EXCEPT ![x] = g] /\ el'[x] = g /\ UNCHANGED <<api, calls>>
  BY DEF Become, Goto
<1> HIDE DEF k
<1>3. /\ g \in ElementType /\ g.task = k /\ g.queue = f.queue /\ g.bits = f.bits
      /\ g.device = f.device /\ g.state = f.state /\ g.wait = f.wait
      /\ g.isOpen = f.isOpen /\ g.isRunning = f.isRunning /\ g.taskRun = f.taskRun
  BY <1>1 DEF ElementType
<1> HIDE DEF g
<1>4. Shape(g, q)
  BY <1>1, <1>3, ShapeKept
<1>5. QED  BY <1>2, <1>3, <1>4 DEF Moves, Sound, k

\* Closing (audio_element_process_deinit) closes the device and leaves the rest.
LEMMA ClosedLemma ==
  ASSUME NEW e \in ElementType, e.device = "open" => e.isOpen
  PROVE  /\ Closed(e) \in ElementType /\ Closed(e).device = "closed"
         /\ Closed(e).state = e.state /\ Closed(e).wait = e.wait
         /\ Closed(e).isRunning = e.isRunning /\ Closed(e).taskRun = e.taskRun
         /\ Closed(e).bits = e.bits /\ Closed(e).queue = e.queue /\ Closed(e).task = e.task
  BY DEF Closed, ElementType

\* Taking a command from the queue changes nothing else.
LEMMA ReceivedLemma ==
  ASSUME NEW x \in Elements, Sound(el[x]), el[x].queue # <<>>
  PROVE  /\ Sound(Received(x)) /\ Received(x) = [el[x] EXCEPT !.queue = Tail(el[x].queue)]
         /\ Received(x).device = el[x].device /\ Received(x).isOpen = el[x].isOpen
         /\ Received(x).state = el[x].state /\ Received(x).wait = el[x].wait
         /\ Received(x).isRunning = el[x].isRunning /\ Received(x).taskRun = el[x].taskRun
         /\ Received(x).bits = el[x].bits /\ Received(x).task = el[x].task
<1>1. Tail(el[x].queue) \in Seq(Cmds) /\ Len(Tail(el[x].queue)) <= QueueLen
  BY QueueAssumption DEF Sound, ElementType
<1>2. QED  BY <1>1 DEF Received, Sound, ElementType

\* What a caller, or the element itself, may do to an element without being
\* its task in a handler: commands are added, bits taken away.
Steered(e, f) ==
  /\ f.device = e.device /\ f.state = e.state /\ f.wait = e.wait /\ f.task = e.task
  /\ f.isOpen = e.isOpen /\ f.isRunning = e.isRunning /\ f.taskRun = e.taskRun
  /\ e.queue # <<>> => f.queue # <<>>
  /\ f.bits \subseteq e.bits

\* Sending a command, received or dropped, steers the element and leaves a command
\* waiting.
LEMMA SendLemma ==
  ASSUME NEW e, Sound(e), NEW cmd \in Cmds
  PROVE  Sound(Send(e, cmd)) /\ Steered(e, Send(e, cmd)) /\ Send(e, cmd).queue # <<>>
<1>1. e \in ElementType /\ Len(e.queue) <= QueueLen /\ e.queue \in Seq(Cmds) /\ Len(e.queue) \in Nat
  BY DEF Sound, ElementType
<1>2. CASE HasRoom(e)
  <2> DEFINE k == Append(e.queue, cmd)
  <2>1. k \in Seq(Cmds) /\ Len(k) <= QueueLen /\ k # <<>> /\ Send(e, cmd) = [e EXCEPT !.queue = k]
    BY <1>1, <1>2, QueueAssumption DEF HasRoom, Send
  <2> HIDE DEF k
  <2>2. QED  BY <1>1, <2>1 DEF Sound, Steered, ElementType
<1>3. CASE ~HasRoom(e)
  <2>1. Send(e, cmd) = e /\ e.queue # <<>>
    BY <1>1, <1>3, QueueAssumption DEF HasRoom, Send
  <2>2. QED  BY <1>1, <2>1 DEF Sound, Steered
<1>4. QED  BY <1>2, <1>3

\* What callers do to an element they steer keeps the shape of its task.
LEMMA SteeredShape ==
  ASSUME NEW e \in ElementType, NEW f \in ElementType, NEW p, Shape(e, p), Steered(e, f)
  PROVE  Shape(f, p)
  BY ShapeKept DEF Steered

\* Steering an element twice is steering it.
LEMMA SteeredTwice ==
  ASSUME NEW e, NEW f, NEW g, Steered(e, f), Steered(f, g)
  PROVE  Steered(e, g)
  BY DEF Steered

\* The stop and the resume an element sends itself steer it.
LEMMA RequestsLemma ==
  ASSUME NEW e, Sound(e)
  PROVE  /\ Sound(StopRequest(e)) /\ Steered(e, StopRequest(e))
         /\ Sound(ResumeRequest(e)) /\ Steered(e, ResumeRequest(e))
<1>1. Steered(e, e)
  BY DEF Steered
<1>2. QED  BY <1>1, SendLemma DEF StopRequest, ResumeRequest, Cmds

-----------------------------------------------------------------------------
(* The steps of the task.                                                  *)

\* The element is in shape for the place task t is at.
Placed(x, t) ==
  /\ el \in [Elements -> ElementType] /\ Sound(el[x])
  /\ Shape(el[x], el[x].task[t])

\* From here on one lemma per step of the task: it is a move.
LEMMA OnErrorStep ==
  ASSUME NEW x \in Elements, NEW t \in Tasks, Placed(x, t), OnError(x, t)
  PROVE  Moves(x, t, "process")
<1> DEFINE r == Received(x)
           d == Closed(r)
           f == [d EXCEPT !.state = "ERROR", !.wait = "forever", !.isRunning = FALSE,
                          !.bits = @ \cup {"STOPPED"}]
<1>1. /\ Become(x, Goto(f, t, "process")) /\ el[x].taskRun /\ Shape(el[x], "loop")
      /\ Sound(r) /\ r.isOpen = el[x].isOpen /\ r.device = el[x].device
      /\ r.task = el[x].task /\ r.taskRun = el[x].taskRun
  BY ReceivedLemma DEF OnError, Receives, At, Placed
<1>2. /\ d \in ElementType /\ d.queue = r.queue /\ d.task = r.task /\ d.device = "closed"
      /\ d.taskRun = r.taskRun
  BY <1>1, ClosedLemma DEF Shape, Sound
<1> HIDE DEF r, d
<1>3. /\ f \in ElementType /\ f.queue = r.queue /\ f.task = el[x].task /\ f.device = "closed"
      /\ f.taskRun /\ f.state = "ERROR" /\ f.wait = "forever" /\ ~f.isRunning
  BY <1>1, <1>2 DEF ElementType, Bits, States
<1> HIDE DEF f
<1>4. Sound(f) /\ Shape(f, "process")
  BY <1>1, <1>3 DEF Sound, Shape, Gone, Living, Idling
<1>5. QED  BY <1>1, <1>3, <1>4, BecomeLemma DEF Placed, Places

(* FINISH, and STOP of an element that has not finished.                   *)
LEMMA OnHaltStep ==
  ASSUME NEW x \in Elements, NEW t \in Tasks, Placed(x, t), OnFinish(x, t) \/ OnStop(x, t)
  PROVE  Moves(x, t, "halt")
<1> DEFINE r == Received(x)
           d == Closed(r)
           f(s) == [d EXCEPT !.state = s, !.wait = "forever", !.bits = @ \cup {"STOPPED"}]
<1>1. PICK s \in {"FINISHED", "STOPPED"} : Become(x, Goto(f(s), t, "halt"))
  BY DEF OnFinish, OnStop
<1>2. /\ el[x].taskRun /\ Shape(el[x], "loop")
      /\ Sound(r) /\ r.isOpen = el[x].isOpen /\ r.device = el[x].device
      /\ r.task = el[x].task /\ r.taskRun = el[x].taskRun
  BY ReceivedLemma DEF OnFinish, OnStop, Receives, At, Placed
<1>3. /\ d \in ElementType /\ d.queue = r.queue /\ d.task = r.task /\ d.device = "closed"
      /\ d.taskRun = r.taskRun
  BY <1>2, ClosedLemma DEF Shape, Sound
<1> HIDE DEF r, d
<1>4. /\ f(s) \in ElementType /\ f(s).queue = r.queue /\ f(s).task = el[x].task
      /\ f(s).device = "closed" /\ f(s).taskRun /\ f(s).state = s /\ f(s).wait = "forever"
  BY <1>2, <1>3 DEF ElementType, Bits, States
<1> HIDE DEF f
<1>5. Sound(f(s)) /\ Shape(f(s), "halt")
  BY <1>2, <1>4 DEF Sound, Shape, Gone, Living, Idling
<1>6. QED  BY <1>1, <1>4, <1>5, BecomeLemma DEF Placed, Places

LEMMA HaltsStep ==
  ASSUME NEW x \in Elements, NEW t \in Tasks, Placed(x, t), Halts(x, t)
  PROVE  Moves(x, t, "process")
<1> DEFINE e == el[x]
           f == [e EXCEPT !.isRunning = FALSE]
<1>1. Become(x, Goto(f, t, "process")) /\ Shape(e, "halt") /\ Sound(e)
  BY DEF Halts, At, Placed
<1>2. e \in ElementType
  BY <1>1 DEF Sound
<1> HIDE DEF e
<1>3. /\ f \in ElementType /\ f.queue = e.queue /\ f.task = e.task /\ f.device = e.device
      /\ f.isOpen = e.isOpen /\ f.taskRun = e.taskRun /\ f.state = e.state
      /\ f.wait = e.wait /\ ~f.isRunning
  BY <1>2 DEF ElementType
<1> HIDE DEF f
<1>4. Sound(f) /\ Shape(f, "process")
  BY <1>1, <1>3 DEF Sound, Shape, Gone, Living, Idling
<1>5. QED  BY <1>1, <1>3, <1>4, BecomeLemma DEF Placed, Places, e

LEMMA OnStopFinishedStep ==
  ASSUME NEW x \in Elements, NEW t \in Tasks, Placed(x, t), OnStopFinished(x, t)
  PROVE  Moves(x, t, "process")
<1> DEFINE r == Received(x)
           f == [r EXCEPT !.state = "STOPPED", !.bits = @ \cup {"STOPPED"}]
<1>1. /\ Become(x, Goto(f, t, "process")) /\ Shape(el[x], "loop") /\ el[x].state = "FINISHED"
      /\ el[x].taskRun /\ el[x].queue # <<>>
  BY DEF OnStopFinished, Receives, At, Placed
<1>2. /\ Sound(r) /\ r.isOpen = el[x].isOpen /\ r.device = el[x].device /\ r.wait = el[x].wait
      /\ r.task = el[x].task /\ r.taskRun = el[x].taskRun /\ r.isRunning = el[x].isRunning
  BY <1>1, ReceivedLemma DEF Placed
<1> HIDE DEF r
<1>3. /\ f \in ElementType /\ f.queue = r.queue /\ f.task = el[x].task /\ f.device = el[x].device
      /\ f.isOpen = el[x].isOpen /\ f.taskRun /\ f.state = "STOPPED"
      /\ f.wait = el[x].wait /\ f.isRunning = el[x].isRunning
  BY <1>1, <1>2 DEF Sound, ElementType, Bits, States
<1>4. el[x].wait # "none" /\ el[x].device # "open" /\ ~el[x].isRunning
  BY <1>1 DEF Shape, Living, Idling
<1> HIDE DEF f
<1>5. Sound(f) /\ Shape(f, "process")
  BY <1>2, <1>3, <1>4 DEF Sound, Shape, Gone, Living, Idling
<1>6. QED  BY <1>1, <1>3, <1>5, BecomeLemma DEF Placed, Places

LEMMA OnPauseStep ==
  ASSUME NEW x \in Elements, NEW t \in Tasks, Placed(x, t), OnPause(x, t)
  PROVE  Moves(x, t, "pausing")
<1> DEFINE r == Received(x)
           f == [r EXCEPT !.state = "PAUSED"]
<1>1. /\ Become(x, Goto(f, t, "pausing")) /\ Shape(el[x], "loop") /\ el[x].taskRun
      /\ el[x].queue # <<>>
  BY DEF OnPause, Receives, At, Placed
<1>2. /\ Sound(r) /\ r.isOpen = el[x].isOpen /\ r.device = el[x].device
      /\ r.task = el[x].task /\ r.taskRun = el[x].taskRun
  BY <1>1, ReceivedLemma DEF Placed
<1> HIDE DEF r
<1>3. /\ f \in ElementType /\ f.queue = r.queue /\ f.task = el[x].task /\ f.device = el[x].device
      /\ f.isOpen = el[x].isOpen /\ f.taskRun /\ f.state = "PAUSED"
  BY <1>1, <1>2 DEF Sound, ElementType, States
<1> HIDE DEF f
<1>4. Sound(f) /\ Shape(f, "pausing")
  BY <1>1, <1>2, <1>3 DEF Sound, Shape, Gone, Living, Idling
<1>5. QED  BY <1>1, <1>3, <1>4, BecomeLemma DEF Placed, Places

LEMMA PausesStep ==
  ASSUME NEW x \in Elements, NEW t \in Tasks, Placed(x, t), Pauses(x, t)
  PROVE  Moves(x, t, "process")
<1> DEFINE e == el[x]
           d == Closed(e)
           f == [d EXCEPT !.wait = "forever", !.isRunning = FALSE, !.bits = @ \cup {"PAUSED"}]
<1>1. Become(x, Goto(f, t, "process")) /\ Shape(e, "pausing") /\ Sound(e)
  BY DEF Pauses, At, Placed
<1>2. /\ d \in ElementType /\ d.queue = e.queue /\ d.task = e.task /\ d.device = "closed"
      /\ d.taskRun = e.taskRun /\ d.state = e.state
  BY <1>1, ClosedLemma DEF Shape, Sound
<1> HIDE DEF e, d
<1>3. /\ f \in ElementType /\ f.queue = e.queue /\ f.task = e.task /\ f.device = "closed"
      /\ f.taskRun = e.taskRun /\ f.state = e.state /\ f.wait = "forever" /\ ~f.isRunning
  BY <1>2 DEF ElementType, Bits
<1> HIDE DEF f
<1>4. Sound(f) /\ Shape(f, "process")
  BY <1>1, <1>3 DEF Sound, Shape, Gone, Living, Idling
<1>5. QED  BY <1>1, <1>3, <1>4, BecomeLemma DEF Placed, Places, e

LEMMA OnResumeRunningStep ==
  ASSUME NEW x \in Elements, NEW t \in Tasks, Placed(x, t), OnResumeRunning(x, t)
  PROVE  Moves(x, t, "process")
<1> DEFINE r == Received(x)
           f == [r EXCEPT !.isRunning = TRUE]
<1>1. /\ Become(x, Goto(f, t, "process")) /\ Shape(el[x], "loop") /\ el[x].taskRun
      /\ el[x].queue # <<>> /\ el[x].state = "RUNNING"
  BY DEF OnResumeRunning, Receives, At, Placed
<1>2. /\ Sound(r) /\ r.isOpen = el[x].isOpen /\ r.device = el[x].device /\ r.state = el[x].state
      /\ r.task = el[x].task /\ r.taskRun = el[x].taskRun /\ r.bits = el[x].bits
  BY <1>1, ReceivedLemma DEF Placed
<1> HIDE DEF r
<1>3. /\ f \in ElementType /\ f.queue = r.queue /\ f.task = el[x].task /\ f.device = el[x].device
      /\ f.isOpen = el[x].isOpen /\ f.taskRun /\ f.state = "RUNNING" /\ f.isRunning
      /\ f.bits = el[x].bits
  BY <1>1, <1>2 DEF Sound, ElementType
<1> HIDE DEF f
<1>4. Sound(f) /\ Shape(f, "process")
  BY <1>1, <1>2, <1>3 DEF Sound, Shape, Gone, Living, Idling
<1>5. QED  BY <1>1, <1>3, <1>4, BecomeLemma DEF Placed, Places

LEMMA OnResumeStep ==
  ASSUME NEW x \in Elements, NEW t \in Tasks, Placed(x, t), OnResume(x, t)
  PROVE  Moves(x, t, "open")
<1> DEFINE r == Received(x)
           f == [r EXCEPT !.isOpen = TRUE]
<1>1. /\ Become(x, Goto(f, t, "open")) /\ Shape(el[x], "loop") /\ el[x].taskRun
      /\ el[x].queue # <<>> /\ el[x].state # "RUNNING"
  BY DEF OnResume, Receives, At, Placed
<1>2. /\ Sound(r) /\ r.device = el[x].device /\ r.state = el[x].state
      /\ r.task = el[x].task /\ r.taskRun = el[x].taskRun
      /\ r.isRunning = el[x].isRunning /\ r.wait = el[x].wait
  BY <1>1, ReceivedLemma DEF Placed
<1> HIDE DEF r
<1>3. /\ f \in ElementType /\ f.queue = r.queue /\ f.task = el[x].task /\ f.device = el[x].device
      /\ f.isOpen /\ f.taskRun /\ f.state = el[x].state /\ f.isRunning = el[x].isRunning
      /\ f.wait = el[x].wait
  BY <1>1, <1>2 DEF Sound, ElementType
<1>4. el[x].device # "open" /\ ~el[x].isRunning /\ (el[x].wait = "none" => el[x].state = "INIT")
  BY <1>1 DEF Shape, Living, Idling
<1> HIDE DEF f
<1>5. Sound(f) /\ Shape(f, "open")
  BY <1>1, <1>2, <1>3, <1>4 DEF Sound, Shape, Gone, Living, Idling
<1>6. QED  BY <1>1, <1>3, <1>5, BecomeLemma DEF Placed, Places

LEMMA OpenSucceedsStep ==
  ASSUME NEW x \in Elements, NEW t \in Tasks, Placed(x, t), OpenSucceeds(x, t)
  PROVE  Moves(x, t, "opened")
<1> DEFINE e == el[x]
           f == [e EXCEPT !.device = "open", !.state = "RUNNING", !.bits = @ \cup {"STARTED"}]
<1>1. Become(x, Goto(f, t, "opened")) /\ Shape(e, "open") /\ Sound(e)
  BY DEF OpenSucceeds, At, Placed
<1>2. e \in ElementType /\ e.taskRun
  BY <1>1 DEF Sound, Shape, Living, Idling
<1> HIDE DEF e
<1>3. /\ f \in ElementType /\ f.queue = e.queue /\ f.task = e.task /\ f.device = "open"
      /\ f.isOpen = e.isOpen /\ f.taskRun = e.taskRun /\ f.state = "RUNNING"
  BY <1>2 DEF ElementType, Bits, States
<1> HIDE DEF f
<1>4. Sound(f) /\ Shape(f, "opened")
  BY <1>1, <1>2, <1>3 DEF Sound, Shape, Gone, Living, Idling
<1>5. QED  BY <1>1, <1>3, <1>4, BecomeLemma DEF Placed, Places, e

LEMMA StartsStep ==
  ASSUME NEW x \in Elements, NEW t \in Tasks, Placed(x, t), Starts(x, t)
  PROVE  Moves(x, t, "process")
<1> DEFINE e == el[x]
           f == [e EXCEPT !.wait = "none", !.isRunning = TRUE, !.bits = @ \ {"STOPPED"}]
<1>1. Become(x, Goto(f, t, "process")) /\ Shape(e, "opened") /\ Sound(e)
  BY DEF Starts, At, Placed
<1>2. e \in ElementType
  BY <1>1 DEF Sound
<1> HIDE DEF e
<1>3. /\ f \in ElementType /\ f.queue = e.queue /\ f.task = e.task /\ f.device = e.device
      /\ f.isOpen = e.isOpen /\ f.taskRun = e.taskRun /\ f.state = e.state
      /\ f.isRunning /\ "STOPPED" \notin f.bits
  BY <1>2 DEF ElementType, Bits
<1> HIDE DEF f
<1>4. Sound(f) /\ Shape(f, "process")
  BY <1>1, <1>3 DEF Sound, Shape, Gone, Living, Idling
<1>5. QED  BY <1>1, <1>3, <1>4, BecomeLemma DEF Placed, Places, e

LEMMA OpenRefusedStep ==
  ASSUME NEW x \in Elements, NEW t \in Tasks, Placed(x, t), OpenRefused(x, t)
  PROVE  Moves(x, t, "process")
<1> DEFINE e == el[x]
           f == Send(e, "ERROR")
<1>1. Become(x, Goto(f, t, "process")) /\ Shape(e, "open") /\ Sound(e)
  BY DEF OpenRefused, At, Placed
<1>2. e \in ElementType /\ Sound(f) /\ f \in ElementType /\ Steered(e, f) /\ f.queue # <<>>
  BY <1>1, SendLemma DEF Sound, Cmds
<1> HIDE DEF f
<1>3. Shape(f, "open") /\ f.task = e.task
  BY <1>1, <1>2, SteeredShape DEF Steered
<1>4. Shape(f, "process")
  BY <1>2, <1>3 DEF Shape, Gone, Living, Idling
<1>5. QED  BY <1>1, <1>2, <1>3, <1>4, BecomeLemma DEF Placed, Places

LEMMA OnDestroyStep ==
  ASSUME NEW x \in Elements, NEW t \in Tasks, Placed(x, t), OnDestroy(x, t)
  PROVE  Moves(x, t, "closing")
<1> DEFINE r == Received(x)
           f == [r EXCEPT !.taskRun = FALSE, !.isRunning = FALSE]
<1>1. Become(x, Goto(f, t, "closing")) /\ Shape(el[x], "loop") /\ el[x].queue # <<>>
  BY DEF OnDestroy, Receives, At, Placed
<1>2. /\ Sound(r) /\ r.isOpen = el[x].isOpen /\ r.device = el[x].device /\ r.task = el[x].task
  BY <1>1, ReceivedLemma DEF Placed
<1> HIDE DEF r
<1>3. /\ f \in ElementType /\ f.queue = r.queue /\ f.task = el[x].task /\ f.device = el[x].device
      /\ f.isOpen = el[x].isOpen /\ ~f.isRunning
  BY <1>2 DEF Sound, ElementType
<1> HIDE DEF f
<1>4. Sound(f) /\ Shape(f, "closing")
  BY <1>1, <1>2, <1>3 DEF Sound, Shape, Gone, Living, Idling
<1>5. QED  BY <1>1, <1>3, <1>4, BecomeLemma DEF Placed, Places

LEMMA TaskCreatedStep ==
  ASSUME NEW x \in Elements, NEW t \in Tasks, Placed(x, t), TaskCreated(x, t)
  PROVE  Moves(x, t, "boot")
<1> DEFINE e == el[x]
           f == [e EXCEPT !.taskRun = TRUE, !.bits = @ \cup {"CREATED"}]
<1>1. Become(x, Goto(f, t, "boot")) /\ Shape(e, "new") /\ Sound(e)
  BY DEF TaskCreated, At, Placed
<1>2. e \in ElementType
  BY <1>1 DEF Sound
<1> HIDE DEF e
<1>3. /\ f \in ElementType /\ f.queue = e.queue /\ f.task = e.task /\ f.device = e.device
      /\ f.isOpen = e.isOpen /\ f.taskRun /\ f.isRunning = e.isRunning
  BY <1>2 DEF ElementType, Bits
<1> HIDE DEF f
<1>4. Sound(f) /\ Shape(f, "boot")
  BY <1>1, <1>3 DEF Sound, Shape, Gone, Living, Idling
<1>5. QED  BY <1>1, <1>3, <1>4, BecomeLemma DEF Placed, Places, e

LEMMA TaskBootsStep ==
  ASSUME NEW x \in Elements, NEW t \in Tasks, Placed(x, t), TaskBoots(x, t)
  PROVE  Moves(x, t, "loop")
<1> DEFINE e == el[x]
           f(b) == [e EXCEPT !.state = "INIT", !.wait = "forever", !.taskRun = b,
                             !.bits = @ \ {"STOPPED"}]
<1>1. PICK b \in BOOLEAN : Become(x, Goto(f(b), t, "loop"))
  BY DEF TaskBoots
<1>2. e \in ElementType /\ Shape(e, "boot") /\ Sound(e)
  BY DEF TaskBoots, At, Placed, Sound
<1> HIDE DEF e
<1>3. /\ f(b) \in ElementType /\ f(b).queue = e.queue /\ f(b).task = e.task
      /\ f(b).device = e.device /\ f(b).isOpen = e.isOpen /\ f(b).isRunning = e.isRunning
      /\ f(b).state = "INIT" /\ f(b).wait = "forever"
  BY <1>2 DEF ElementType, Bits, States
<1> HIDE DEF f
<1>4. Sound(f(b)) /\ Shape(f(b), "loop")
  BY <1>2, <1>3 DEF Sound, Shape, Gone, Living, Idling
<1>5. QED  BY <1>1, <1>3, <1>4, BecomeLemma DEF Placed, Places, e

(* The steps of the loop that change nothing but the place.                *)
LEMMA PollStep ==
  ASSUME NEW x \in Elements, NEW t \in Tasks, Placed(x, t), Poll(x, t)
  PROVE  Moves(x, t, "process")
<1>1. Become(x, Goto(el[x], t, "process")) /\ Shape(el[x], "loop") /\ Sound(el[x]) /\ el[x].taskRun
  BY DEF Poll, At, Placed
<1>2. Shape(el[x], "process")
  BY <1>1 DEF Shape, Gone, Living, Idling
<1>3. QED  BY <1>1, <1>2, BecomeLemma DEF Placed, Places

LEMMA SkipsProcessStep ==
  ASSUME NEW x \in Elements, NEW t \in Tasks, Placed(x, t), SkipsProcess(x, t)
  PROVE  Moves(x, t, "loop")
<1>1. Become(x, Goto(el[x], t, "loop")) /\ Shape(el[x], "process") /\ Sound(el[x])
  BY DEF SkipsProcess, At, Placed
<1>2. Shape(el[x], "loop")
  BY <1>1 DEF Shape, Gone, Living, Idling
<1>3. QED  BY <1>1, <1>2, BecomeLemma DEF Placed, Places

LEMMA EntersProcessStep ==
  ASSUME NEW x \in Elements, NEW t \in Tasks, Placed(x, t), EntersProcess(x, t)
  PROVE  Moves(x, t, "work")
<1>1. /\ Become(x, Goto(el[x], t, "work")) /\ Shape(el[x], "process") /\ Sound(el[x])
      /\ el[x].state # "INIT"
  BY DEF EntersProcess, At, Placed, Started
<1>2. Shape(el[x], "work")
  BY <1>1 DEF Shape, Gone, Living, Idling
<1>3. QED  BY <1>1, <1>2, BecomeLemma DEF Placed, Places

LEMMA LeavesLoopStep ==
  ASSUME NEW x \in Elements, NEW t \in Tasks, Placed(x, t), LeavesLoop(x, t)
  PROVE  Moves(x, t, "closing")
<1>1. /\ Become(x, Goto(el[x], t, "closing")) /\ Shape(el[x], "loop") /\ Sound(el[x])
      /\ ~el[x].taskRun
  BY DEF LeavesLoop, At, Placed
<1>2. Shape(el[x], "closing")
  BY <1>1 DEF Shape, Gone, Living, Idling
<1>3. QED  BY <1>1, <1>2, BecomeLemma DEF Placed, Places

LEMMA EndsStep ==
  ASSUME NEW x \in Elements, NEW t \in Tasks, Placed(x, t), Ends(x, t)
  PROVE  Moves(x, t, "none")
<1> DEFINE e == el[x]
           d == Closed(e)
           f == [d EXCEPT !.bits = @ \cup {"DESTROYED"}]
<1>1. Become(x, Goto(f, t, "none")) /\ Shape(e, "closing") /\ Sound(e)
  BY DEF Ends, At, Placed
<1>2. /\ d \in ElementType /\ d.queue = e.queue /\ d.task = e.task /\ d.device = "closed"
      /\ d.isRunning = e.isRunning
  BY <1>1, ClosedLemma DEF Shape, Sound
<1> HIDE DEF e, d
<1>3. /\ f \in ElementType /\ f.queue = e.queue /\ f.task = e.task /\ f.device = "closed"
      /\ f.isRunning = e.isRunning
  BY <1>2 DEF ElementType, Bits
<1> HIDE DEF f
<1>4. Sound(f) /\ Shape(f, "none")
  BY <1>1, <1>3 DEF Sound, Shape, Gone, Living, Idling
<1>5. QED  BY <1>1, <1>3, <1>4, BecomeLemma DEF Placed, Places, e

-----------------------------------------------------------------------------
(* process.                                                                *)
LEMMA ResetStateStep ==
  ASSUME NEW x \in Elements, NEW t \in Tasks, Placed(x, t), ResetState(x, t)
  PROVE  Moves(x, t, "reset")
<1> DEFINE e == el[x]
           f == [e EXCEPT !.state = "INIT", !.device = "closed"]
<1>1. Become(x, Goto(f, t, "reset")) /\ Shape(e, "work") /\ Sound(e)
  BY DEF ResetState, At, Placed
<1>2. e \in ElementType
  BY <1>1 DEF Sound
<1> HIDE DEF e
<1>3. /\ f \in ElementType /\ f.queue = e.queue /\ f.task = e.task /\ f.device = "closed"
      /\ f.isOpen = e.isOpen /\ f.taskRun = e.taskRun /\ f.state = "INIT"
  BY <1>2 DEF ElementType, States
<1> HIDE DEF f
<1>4. Sound(f) /\ Shape(f, "reset")
  BY <1>1, <1>3 DEF Sound, Shape, Gone, Living, Idling
<1>5. QED  BY <1>1, <1>3, <1>4, BecomeLemma DEF Placed, Places, e

(* An element that was reset inside process starts again, or has another   *)
(* command waiting.                                                        *)
LEMMA RestartLemma ==
  ASSUME NEW e, Sound(e), Shape(e, "reset")
  PROVE  /\ Sound(AfterProcess(e, "done")) /\ Shape(AfterProcess(e, "done"), "loop")
         /\ AfterProcess(e, "done").task = e.task /\ AfterProcess(e, "done").taskRun
<1> DEFINE f == [e EXCEPT !.isOpen = FALSE, !.isRunning = FALSE]
<1>1. e \in ElementType /\ e.state = "INIT" /\ e.device = "closed" /\ e.taskRun
  BY DEF Sound, Shape, Living, Idling, ElementType
<1>2. /\ f \in ElementType /\ f.queue = e.queue /\ f.task = e.task /\ f.device = "closed"
      /\ f.state = "INIT" /\ f.taskRun /\ ~f.isRunning
  BY <1>1 DEF ElementType
<1>3. AfterProcess(e, "done") = ResumeRequest(f)
  BY <1>1 DEF AfterProcess
<1> HIDE DEF f
<1>4. Sound(f) /\ ResumeRequest(f) = Send(f, "RESUME")
  BY <1>2 DEF Sound, ResumeRequest
<1> DEFINE g == Send(f, "RESUME")
<1>5. Sound(g) /\ g \in ElementType /\ Steered(f, g) /\ g.queue # <<>>
  BY <1>4, SendLemma DEF Cmds, Sound
<1> HIDE DEF g
<1>6. /\ g.device = "closed" /\ g.state = "INIT" /\ g.taskRun /\ ~g.isRunning /\ g.task = e.task
  BY <1>2, <1>5 DEF Steered
<1>7. Shape(g, "loop")
  BY <1>5, <1>6 DEF Shape, Gone, Living, Idling
<1>8. QED  BY <1>3, <1>4, <1>5, <1>6, <1>7 DEF g

\* What process answers steers the element of a task at work.
LEMMA OutcomeLemma ==
  ASSUME NEW e, Sound(e), Shape(e, "work"), NEW o \in AllOutcomes \ {"next track"}
  PROVE  Sound(AfterProcess(e, o)) /\ Steered(e, AfterProcess(e, o))
<1>1. Steered(e, e) /\ e.state # "INIT"
  BY DEF Steered, Shape
<1>2. CASE o \in {"ok", "input timeout"}
  BY <1>1, <1>2 DEF AfterProcess
<1>3. CASE o = "done"
  BY <1>1, <1>3, SendLemma DEF AfterProcess, Cmds
<1>4. CASE o = "abort"
  BY <1>4, RequestsLemma DEF AfterProcess
<1>5. CASE o = "output timeout"
  BY <1>5, SendLemma DEF AfterProcess, Cmds
<1>6. CASE o = "process fails"
  BY <1>6, SendLemma DEF AfterProcess, Cmds
<1>7. CASE o = "input fails"
  <2> DEFINE f == Send(e, "ERROR")
  <2>1. Sound(f) /\ Steered(e, f) /\ Sound(Send(f, "ERROR")) /\ Steered(f, Send(f, "ERROR"))
    BY SendLemma DEF Cmds
  <2>2. AfterProcess(e, o) = Send(f, "ERROR")
    BY <1>7 DEF AfterProcess
  <2>3. QED  BY <2>1, <2>2, SteeredTwice
<1>8. QED  BY <1>2, <1>3, <1>4, <1>5, <1>6, <1>7 DEF AllOutcomes

LEMMA WorksStep ==
  ASSUME NEW x \in Elements, NEW t \in Tasks, Placed(x, t),
         NEW o \in Outcomes \ {"next track"}, Works(x, t, o)
  PROVE  Moves(x, t, "loop")
<1> DEFINE e == el[x]
           f == AfterProcess(e, o)
<1>1. Become(x, Goto(f, t, "loop")) /\ Sound(e) /\ e \in ElementType
  BY DEF Works, Placed, Sound
<1>2. Sound(f) /\ f \in ElementType /\ Shape(f, "loop") /\ f.task = e.task
  <2>1. CASE At(x, t, "reset") /\ o = "done"
    <3>1. Shape(e, "reset")
      BY <2>1 DEF At, Placed
    <3>2. QED  BY <1>1, <2>1, <3>1, RestartLemma DEF Sound
  <2>2. CASE At(x, t, "work")
    <3>1. Shape(e, "work")
      BY <2>2 DEF At, Placed
    <3>2. Sound(f) /\ f \in ElementType /\ Steered(e, f)
      BY <1>1, <3>1, OutcomeLemma, KindsAssumption DEF Sound
    <3> HIDE DEF e, f
    <3>3. Shape(f, "work") /\ f.task = e.task
      BY <1>1, <3>1, <3>2, SteeredShape DEF Steered
    <3>4. Shape(f, "loop")
      BY <3>3 DEF Shape, Gone, Living, Idling
    <3>5. QED  BY <3>2, <3>3, <3>4
  <2>3. QED  BY <2>1, <2>2 DEF Works
<1> HIDE DEF f
<1>3. QED  BY <1>1, <1>2, BecomeLemma DEF Placed, Places

-----------------------------------------------------------------------------
(* The invariant of all elements.                                          *)
\* An element is in shape for the place of its task, or for having none.
Formed(x) ==
  /\ \A t \in Tasks : el[x].task[t] # "none" => Shape(el[x], el[x].task[t])
  /\ (\A t \in Tasks : el[x].task[t] = "none") => Shape(el[x], "none")

\* The inductive invariant behind DeviceKept and FlagsKept.
EInv ==
  /\ el \in [Elements -> ElementType] /\ api \in [Callers -> CallType] /\ calls \in Nat
  /\ \A x \in Elements : Sound(el[x]) /\ Formed(x)

\* OneTask for one element, without counting.
Lone(x) == \A t, u \in Tasks : el[x].task[t] # "none" /\ el[x].task[u] # "none" => t = u

\* At most one member, without counting.
LEMMA AtMostOne ==
  ASSUME NEW S, IsFiniteSet(S)
  PROVE  Cardinality(S) <= 1 <=> \A t, u \in S : t = u
<1>1. ASSUME Cardinality(S) <= 1, NEW t \in S, NEW u \in S, t # u
      PROVE  FALSE
  <2>1. IsFiniteSet({t}) /\ Cardinality({t}) = 1
    BY FS_Singleton
  <2>2. Cardinality({t} \cup {u}) = 2
    BY <1>1, <2>1, FS_AddElement
  <2>3. Cardinality({t} \cup {u}) <= Cardinality(S) /\ Cardinality(S) \in Nat
    <3>1. {t} \cup {u} \subseteq S
      OBVIOUS
    <3>2. QED  BY <3>1, FS_Subset, FS_CardinalityType
  <2>4. QED  BY <1>1, <2>2, <2>3
<1>2. ASSUME \A t, u \in S : t = u PROVE Cardinality(S) <= 1
  <2>1. CASE S = {}
    BY <2>1, FS_EmptySet
  <2>2. CASE S # {}
    <3>1. PICK t \in S : TRUE
      BY <2>2
    <3>2. S = {t}
      BY <1>2, <3>1
    <3>3. QED  BY <3>2, FS_Singleton
  <2>3. QED  BY <2>1, <2>2
<1>3. QED  BY <1>1, <1>2

\* OneTask, element by element.
LEMMA LoneLemma == OneTask <=> \A x \in Elements : Lone(x)
<1>1. ASSUME NEW x \in Elements PROVE Cardinality(Alive(x)) <= 1 <=> Lone(x)
  <2>1. IsFiniteSet(Alive(x))
    BY SetsAssumption, FS_Subset DEF Alive
  <2>2. Cardinality(Alive(x)) <= 1 <=> \A t, u \in Alive(x) : t = u
    BY <2>1, AtMostOne
  <2>3. QED  BY <2>2 DEF Lone, Alive
<1>2. QED  BY <1>1 DEF OneTask

\* A move of the one task of an element keeps the invariant of all elements.
LEMMA MovesLemma ==
  ASSUME EInv, NEW x \in Elements, NEW t \in Tasks, NEW q \in Places, Lone(x),
         el[x].task[t] # "none", Moves(x, t, q)
  PROVE  EInv'
<1>1. /\ el' = [el EXCEPT ![x] = el'[x]] /\ UNCHANGED <<api, calls>> /\ Sound(el'[x])
      /\ el'[x].task = [el[x].task EXCEPT ![t] = q] /\ Shape(el'[x], q)
  BY DEF Moves
<1>2. el[x].task \in [Tasks -> Places]
  BY DEF EInv, ElementType
<1>3. el'[x].task[t] = q /\ \A u \in Tasks : u # t => el'[x].task[u] = "none"
  BY <1>1, <1>2 DEF Lone
<1>4. Formed(x)'
  BY <1>1, <1>3 DEF Formed
<1>5. \A y \in Elements : y # x => el'[y] = el[y]
  BY <1>1 DEF EInv
<1>6. \A y \in Elements : Sound(el'[y]) /\ Formed(y)'
  BY <1>1, <1>4, <1>5 DEF EInv, Formed
<1>7. el' \in [Elements -> ElementType]
  BY <1>1 DEF EInv, Sound
<1>8. QED  BY <1>1, <1>6, <1>7 DEF EInv

\* So does every step of a task.
LEMMA TaskStep ==
  ASSUME EInv, NEW x \in Elements, NEW t \in Tasks, Lone(x), Task(x, t)
  PROVE  EInv'
<1>1. el[x].task[t] # "none"
  BY DEF Task, Handlers, TaskCreated, TaskBoots, Poll, OnError, OnFinish, OnStop, Halts,
         OnStopFinished, OnPause, Pauses, OnResumeRunning, OnResume, OpenSucceeds, Starts,
         OpenRefused, OnDestroy, SkipsProcess, EntersProcess, ResetState, Works, LeavesLoop,
         Ends, Receives, At
<1>2. Placed(x, t)
  BY <1>1 DEF EInv, Formed, Placed
<1>3. \E q \in Places : Moves(x, t, q)
  <2>1. CASE Handlers(x, t)
    BY <1>2, <2>1, OnErrorStep, OnHaltStep, HaltsStep, OnStopFinishedStep, OnPauseStep,
       PausesStep, OnResumeRunningStep, OnResumeStep, OpenSucceedsStep, StartsStep,
       OpenRefusedStep, OnDestroyStep DEF Handlers, Places
  <2>2. CASE ~Handlers(x, t)
    BY <1>2, <2>2, TaskCreatedStep, TaskBootsStep, PollStep, SkipsProcessStep,
       EntersProcessStep, ResetStateStep, WorksStep, LeavesLoopStep, EndsStep
       DEF Task, Places
  <2>3. QED  BY <2>1, <2>2
<1>4. QED  BY <1>1, <1>3, MovesLemma

-----------------------------------------------------------------------------
(* The callers.                                                            *)
LEMMA ClearLemma ==
  ASSUME NEW e, Sound(e), NEW bits, NEW cmd \in Cmds
  PROVE  /\ Sound(Cleared(e, bits)) /\ Steered(e, Cleared(e, bits))
         /\ Sound(Send(Cleared(e, bits), cmd)) /\ Steered(e, Send(Cleared(e, bits), cmd))
<1>1. Sound(Cleared(e, bits)) /\ Steered(e, Cleared(e, bits))
  BY DEF Cleared, Sound, Steered, ElementType
<1>2. /\ Sound(Send(Cleared(e, bits), cmd))
      /\ Steered(Cleared(e, bits), Send(Cleared(e, bits), cmd))
  BY <1>1, SendLemma
<1>3. QED  BY <1>1, <1>2, SteeredTwice

\* Deinit marking an element freed steers it.
LEMMA FreedLemma ==
  ASSUME NEW e, Sound(e)
  PROVE  Sound([e EXCEPT !.freed = TRUE]) /\ Steered(e, [e EXCEPT !.freed = TRUE])
  BY DEF Sound, Steered, ElementType

\* A call that returns leaves a record of calls,
LEMMA ReturnsType ==
  ASSUME api \in [Callers -> CallType], NEW c \in Callers, NEW x \in Elements, NEW op \in AllOps,
         NEW ret \in {"none", "OK", "FAIL"}, Returns(c, x, op, ret)
  PROVE  api' \in [Callers -> CallType]
<1>1. api' = [api EXCEPT ![c] = [in |-> "nothing", on |-> x, ret |-> ret,
            op |-> IF op = "wait" /\ api[c].on = x /\ api[c].op = "stop" /\ api[c].ret = "OK"
                   THEN "stopped" ELSE op]]
  BY DEF Returns
<1> DEFINE o == IF op = "wait" /\ api[c].on = x /\ api[c].op = "stop" /\ api[c].ret = "OK"
                THEN "stopped" ELSE op
<1>2. o \in AllOps \cup {"none", "stopped"}
  OBVIOUS
<1> HIDE DEF o
<1>3. [in |-> "nothing", on |-> x, ret |-> ret, op |-> o] \in CallType
  BY <1>2 DEF CallType
<1>4. QED  BY <1>1, <1>3 DEF o

\* Where a caller may be inside a function.
Ways == {"create", "run", "pause", "wait", "terminate",
         "deinit stops", "deinit waits", "deinit frees"}

\* And so does one that begins to wait.
LEMMA WaitsType ==
  ASSUME api \in [Callers -> CallType], NEW c \in Callers, NEW x \in Elements, NEW op,
         op \in Ways, Waits(c, x, op)
  PROVE  api' \in [Callers -> CallType]
<1>1. api' = [api EXCEPT ![c] = [api[c] EXCEPT !.in = op, !.on = x]]
  BY DEF Waits
<1>2. [api[c] EXCEPT !.in = op, !.on = x] \in CallType
  BY DEF CallType, Ways
<1>3. QED  BY <1>1, <1>2

\* Either keeps the type of the calls.
LEMMA ApiMoves ==
  ASSUME api \in [Callers -> CallType], NEW c \in Callers, NEW x \in Elements,
         \/ \E op \in AllOps, ret \in {"OK", "FAIL"} : Returns(c, x, op, ret)
         \/ \E op \in Ways : Waits(c, x, op)
  PROVE  api' \in [Callers -> CallType]
<1>1. ASSUME NEW op \in AllOps, NEW ret \in {"OK", "FAIL"}, Returns(c, x, op, ret)
      PROVE  api' \in [Callers -> CallType]
  <2>1. ret \in {"none", "OK", "FAIL"}
    OBVIOUS
  <2>2. QED  BY <1>1, <2>1, ReturnsType
<1>2. QED  BY <1>1, WaitsType

\* The bits the functions wait for.
LEMMA BitsAwaited ==
  /\ DOMAIN AwaitedBit = {"run", "pause", "wait", "terminate"}
  /\ AwaitedBit["run"] = "CREATED" /\ AwaitedBit["pause"] = "PAUSED"
  /\ AwaitedBit["wait"] = "STOPPED" /\ AwaitedBit["terminate"] = "DESTROYED"
  BY DEF AwaitedBit

\* Every step of a caller keeps the type of the calls.
LEMMA ApiStep ==
  ASSUME api \in [Callers -> CallType], calls \in Nat, NEW x \in Elements, NEW c \in Callers,
         Request(c, x) \/ Completion(c, x)
  PROVE  api' \in [Callers -> CallType] /\ calls' \in Nat
<1>1. CASE AskRun(c, x) \/ AskPause(c, x) \/ AskResume(c, x)
  <2>1. calls' = calls + 1
    BY <1>1 DEF AskRun, RunsAlready, Run, AskPause, PauseNotRun, PauseResting, Pause, AskResume,
                ResumeNotRun, ResumeRunning, ResumeError, ResumeFinished, Resume, Answers, Begins
  <2>2. \/ \E op \in AllOps, ret \in {"OK", "FAIL"} : Returns(c, x, op, ret)
        \/ Waits(c, x, "create") \/ Waits(c, x, "pause")
    BY <1>1 DEF AskRun, RunsAlready, Run, AskPause, PauseNotRun, PauseResting, Pause, AskResume,
                ResumeNotRun, ResumeRunning, ResumeError, ResumeFinished, Resume, Answers, AllOps
  <2>3. \/ \E op \in AllOps, ret \in {"OK", "FAIL"} : Returns(c, x, op, ret)
        \/ \E op \in Ways : Waits(c, x, op)
    BY <2>2 DEF Ways
  <2>4. api' \in [Callers -> CallType]
    BY <2>3, ApiMoves
  <2>5. QED  BY <2>1, <2>4
<1>2. CASE AskStop(c, x) \/ WaitForStop(c, x) \/ AskTerminate(c, x) \/ Deinit(c, x)
  <2>1. calls' = calls + 1
    BY <1>2 DEF AskStop, StopNotRun, StopStopped, Stop, WaitForStop, AskTerminate, TerminateNotRun,
                Terminate, Deinit, Answers, Begins
  <2>2. \/ \E op \in AllOps, ret \in {"OK", "FAIL"} : Returns(c, x, op, ret)
        \/ Waits(c, x, "wait") \/ Waits(c, x, "terminate") \/ Waits(c, x, "deinit stops")
    BY <1>2 DEF AskStop, StopNotRun, StopStopped, Stop, WaitForStop, AskTerminate, TerminateNotRun,
                Terminate, Deinit, Answers, AllOps
  <2>3. \/ \E op \in AllOps, ret \in {"OK", "FAIL"} : Returns(c, x, op, ret)
        \/ \E op \in Ways : Waits(c, x, op)
    BY <2>2 DEF Ways
  <2>4. api' \in [Callers -> CallType]
    BY <2>3, ApiMoves
  <2>5. QED  BY <2>1, <2>4
<1>3. CASE Completion(c, x)
  <2>1. calls' = calls
    BY <1>3 DEF Completion, CreateTask, BitSeen, TimesOut, DeinitTerminates, DeinitWaits,
                DeinitFrees
  <2>2. \/ \E op \in AllOps, ret \in {"OK", "FAIL"} : Returns(c, x, op, ret)
        \/ Waits(c, x, "run") \/ Waits(c, x, "deinit waits") \/ Waits(c, x, "deinit frees")
    BY <1>3, BitsAwaited DEF Completion, CreateTask, BitSeen, TimesOut, DeinitTerminates,
                DeinitWaits, DeinitFrees, AllOps
  <2>3. \/ \E op \in AllOps, ret \in {"OK", "FAIL"} : Returns(c, x, op, ret)
        \/ \E op \in Ways : Waits(c, x, op)
    BY <2>2 DEF Ways
  <2>4. api' \in [Callers -> CallType]
    BY <2>3, ApiMoves
  <2>5. QED  BY <2>1, <2>4
<1>4. QED  BY <1>1, <1>2, <1>3 DEF Request

(* What a call does to its element, apart from creating the task.          *)
Steers(x) ==
  \E f : Sound(f) /\ Steered(el[x], f) /\ el' = [el EXCEPT ![x] = f]

\* Whatever a caller does but creating the task steers the element.
LEMMA CallStep ==
  ASSUME EInv, NEW x \in Elements, NEW c \in Callers,
         Request(c, x) \/ Completion(c, x), ~CreateTask(c, x)
  PROVE  Steers(x)
<1> DEFINE e == el[x]
<1>1. Sound(e) /\ el \in [Elements -> ElementType]
  BY DEF EInv
<1>2. CASE UNCHANGED el
  <2>1. Steered(e, e) /\ el' = [el EXCEPT ![x] = e]
    BY <1>1, <1>2 DEF Steered
  <2>2. QED  BY <1>1, <2>1 DEF Steers
<1>3. CASE \/ el' = [el EXCEPT ![x] = Send(Cleared(@, {"PAUSED"}), "PAUSE")]
           \/ el' = [el EXCEPT ![x] = Send(Cleared(@, {"DESTROYED"}), "DESTROY")]
  BY <1>1, <1>3, ClearLemma DEF Steers, Cmds
<1>4. CASE \/ el' = [el EXCEPT ![x] = Send(@, "RESUME")]
           \/ el' = [el EXCEPT ![x] = Send(@, "STOP")]
           \/ el' = [el EXCEPT ![x] = StopRequest(@)]
  BY <1>1, <1>4, SendLemma, RequestsLemma DEF Steers, Cmds
<1>5. CASE DeinitFrees(c, x)
  <2>1. el' = [el EXCEPT ![x] = [e EXCEPT !.freed = TRUE]]
    BY <1>5 DEF DeinitFrees
  <2>2. QED  BY <1>1, <2>1, FreedLemma DEF Steers
<1>6. \/ UNCHANGED el
      \/ el' = [el EXCEPT ![x] = Send(Cleared(@, {"PAUSED"}), "PAUSE")]
      \/ el' = [el EXCEPT ![x] = Send(Cleared(@, {"DESTROYED"}), "DESTROY")]
      \/ el' = [el EXCEPT ![x] = Send(@, "RESUME")]
      \/ el' = [el EXCEPT ![x] = Send(@, "STOP")]
      \/ el' = [el EXCEPT ![x] = StopRequest(@)]
      \/ DeinitFrees(c, x)
  <2>1. CASE Request(c, x)
    BY <2>1 DEF Request, AskRun, RunsAlready, Run, AskPause, PauseNotRun, PauseResting, Pause,
                AskResume, ResumeNotRun, ResumeRunning, ResumeError, ResumeFinished, Resume,
                AskStop, StopNotRun, StopStopped, Stop, WaitForStop, AskTerminate,
                TerminateNotRun, Terminate, Deinit, Answers
  <2>2. CASE Completion(c, x)
    BY <2>2 DEF Completion, BitSeen, TimesOut, DeinitTerminates, DeinitWaits
  <2>3. QED  BY <2>1, <2>2
<1>7. QED  BY <1>2, <1>3, <1>4, <1>5, <1>6

\* Steering keeps the invariant.
LEMMA SteersStep ==
  ASSUME EInv, NEW x \in Elements, Steers(x), api' \in [Callers -> CallType], calls' \in Nat
  PROVE  EInv'
<1>1. PICK f : Sound(f) /\ Steered(el[x], f) /\ el' = [el EXCEPT ![x] = f]
  BY DEF Steers
<1>2. f \in ElementType /\ el[x] \in ElementType /\ f.task = el[x].task
  BY <1>1 DEF Sound, EInv, Steered
<1>3. \A p : Shape(el[x], p) => Shape(f, p)
  BY <1>1, <1>2, SteeredShape
<1>4. el'[x] = f /\ \A y \in Elements : y # x => el'[y] = el[y]
  BY <1>1 DEF EInv
<1>5. Formed(x)'
  <2>1. Formed(x)
    BY DEF EInv
  <2>2. QED  BY <1>2, <1>3, <1>4, <2>1 DEF Formed
<1>6. \A y \in Elements : Sound(el'[y]) /\ Formed(y)'
  BY <1>1, <1>4, <1>5 DEF EInv, Formed
<1>7. el' \in [Elements -> ElementType]
  BY <1>1, <1>2 DEF EInv
<1>8. QED  BY <1>6, <1>7 DEF EInv

(* A task is created where there was none.                                 *)
LEMMA CreateStep ==
  ASSUME EInv, NEW x \in Elements, NEW c \in Callers, CreateTask(c, x), Lone(x)',
         api' \in [Callers -> CallType], calls' \in Nat
  PROVE  EInv'
<1> DEFINE e == el[x]
<1>1. PICK t \in Tasks :
        /\ At(x, t, "none")
        /\ el' = [el EXCEPT ![x] = Goto(Cleared(Emptied(@), {"CREATED", "STOPPED"}), t, "new")]
  BY DEF CreateTask
<1>2. Sound(e) /\ Formed(x) /\ e \in ElementType /\ el \in [Elements -> ElementType]
  BY DEF EInv, Sound
<1> DEFINE d == Cleared(Emptied(e), {"CREATED", "STOPPED"})
           k == [e.task EXCEPT ![t] = "new"]
           f == [d EXCEPT !.task = k]
<1>3. k \in [Tasks -> Places] /\ k[t] = "new" /\ \A u \in Tasks : u # t => k[u] = e.task[u]
  BY <1>2 DEF ElementType, Places
<1>4. e.task[t] = "none" /\ el[x] = e
  BY <1>1 DEF At
<1> HIDE DEF e, k
<1>5. /\ d \in ElementType /\ d.queue = <<>> /\ d.task = e.task /\ d.device = e.device
      /\ d.isOpen = e.isOpen /\ d.isRunning = e.isRunning
  <2>1. /\ Emptied(e) \in ElementType /\ Emptied(e).queue = <<>> /\ Emptied(e).task = e.task
        /\ Emptied(e).device = e.device /\ Emptied(e).isOpen = e.isOpen
        /\ Emptied(e).isRunning = e.isRunning
    <3>1. <<>> \in Seq(Cmds)
      OBVIOUS
    <3>2. QED  BY <1>2, <3>1 DEF Emptied, ElementType
  <2>2. QED  BY <2>1 DEF Cleared, ElementType
<1>6. Goto(d, t, "new") = f
  BY <1>5 DEF Goto, k
<1>7. el' = [el EXCEPT ![x] = f] /\ el'[x] = f
  BY <1>1, <1>2, <1>4, <1>6
<1> HIDE DEF d
<1>8. /\ f \in ElementType /\ f.queue = <<>> /\ f.task = k /\ f.device = e.device
       /\ f.isOpen = e.isOpen /\ f.isRunning = e.isRunning
  BY <1>3, <1>5 DEF ElementType
<1> HIDE DEF f
<1>9. Sound(f)
  BY <1>8, QueueAssumption DEF Sound
<1>10. \A u \in Tasks : u # t => k[u] = "none"
  BY <1>3, <1>7, <1>8 DEF Lone
<1>11. Shape(e, "none")
  <2>1. \A u \in Tasks : e.task[u] = "none"
    BY <1>3, <1>4, <1>10
  <2>2. QED  BY <1>2, <1>4, <2>1 DEF Formed
<1>12. Shape(f, "new")
  BY <1>8, <1>11 DEF Shape, Gone, Living, Idling
<1>13. Formed(x)'
  BY <1>3, <1>7, <1>8, <1>10, <1>12 DEF Formed
<1>14. \A y \in Elements : y # x => el'[y] = el[y]
  BY <1>2, <1>7
<1>15. \A y \in Elements : Sound(el'[y]) /\ Formed(y)'
  BY <1>7, <1>9, <1>13, <1>14 DEF EInv, Formed
<1>16. el' \in [Elements -> ElementType]
  BY <1>2, <1>7, <1>8
<1>17. QED  BY <1>15, <1>16 DEF EInv

-----------------------------------------------------------------------------
\* No element has a task at first.
LEMMA InitEInv == Init => EInv
<1> SUFFICES ASSUME Init PROVE EInv
  OBVIOUS
<1>1. NewElement \in ElementType /\ Sound(NewElement) /\ Shape(NewElement, "none")
      /\ \A t \in Tasks : NewElement.task[t] = "none"
  BY QueueAssumption
     DEF NewElement, Nowhere, ElementType, Sound, Shape, States, Places, Gone, Living, Idling
<1>2. api \in [Callers -> CallType]
  <2>1. (CHOOSE x \in Elements : TRUE) \in Elements
    BY SetsAssumption
  <2>2. QED  BY <2>1 DEF Init, CallType
<1>3. QED  BY <1>1, <1>2 DEF Init, EInv, Formed

\* As long as there is one task to an element, every step keeps the invariant.
LEMMA StepEInv == EInv /\ OneTask /\ OneTask' /\ [Next]_vars => EInv'
<1> SUFFICES ASSUME EInv, OneTask, OneTask', [Next]_vars PROVE EInv'
  OBVIOUS
<1>1. \A x \in Elements : Lone(x) /\ Lone(x)'
  <2>1. (OneTask <=> \A x \in Elements : Lone(x))'
    BY LoneLemma, PTL
  <2>2. QED  BY <2>1, LoneLemma
<1>2. CASE UNCHANGED vars
  BY <1>2 DEF vars, EInv, Formed
<1>3. ASSUME NEW x \in Elements, NEW t \in Tasks, Task(x, t) PROVE EInv'
  BY <1>1, <1>3, TaskStep
<1>4. ASSUME NEW x \in Elements, NEW c \in Callers, Request(c, x) \/ Completion(c, x)
      PROVE  EInv'
  <2>1. api' \in [Callers -> CallType] /\ calls' \in Nat
    BY <1>4, ApiStep DEF EInv
  <2>2. CASE CreateTask(c, x)
    BY <1>1, <2>1, <2>2, CreateStep
  <2>3. CASE ~CreateTask(c, x)
    BY <1>4, <2>1, <2>3, CallStep, SteersStep
  <2>4. QED  BY <2>2, <2>3
<1>5. QED  BY <1>2, <1>3, <1>4 DEF Next

-----------------------------------------------------------------------------
(* The life of the task, when nobody gives up waiting.                     *)
\* A DESTROY is in the queue.
Pending(e) == \E i \in 1..Len(e.queue) : e.queue[i] = "DESTROY"

\* Somebody waits for the task to end, and its end has not been signalled.
Dying(x) ==
  /\ "DESTROYED" \notin el[x].bits
  /\ \E c \in Callers : In(c, x, "terminate") \/ In(c, x, "deinit waits")

\* Where the task is inside its loop.
Busy == Places \ {"none", "new", "closing"}

\* task_run is set while the task is in its loop.  A new task has a caller
\* waiting for CREATED_BIT, an ending one a caller waiting for DESTROYED_BIT, as
\* has one with a DESTROY to come; and nobody is about to create a second one.
Life(x) ==
  /\ el[x].taskRun => \E t \in Tasks : ~At(x, t, "none")
  /\ \A t \in Tasks :
       /\ At(x, t, "new") => /\ ~el[x].taskRun /\ "CREATED" \notin el[x].bits
                             /\ ~Pending(el[x])
                             /\ \E c \in Callers : In(c, x, "run")
       /\ At(x, t, "closing") => ~el[x].taskRun /\ Dying(x)
       /\ el[x].task[t] \in Busy => el[x].taskRun
       /\ ~At(x, t, "none") => \A c \in Callers : ~In(c, x, "create")
       /\ ~At(x, t, "none") /\ Pending(el[x]) => Dying(x)

\* The inductive invariant behind NoSecondTask.
LInv == EInv /\ \A x \in Elements : Lone(x) /\ Life(x)

\* No two callers are inside functions of the same element at once.
TakeTurns ==
  \A c, d \in Callers :
    api[c].in # "nothing" /\ api[d].in # "nothing" /\ api[c].on = api[d].on => c = d

(* Life needs little of a record: its place, task_run, bits and commands.  *)
Calmer(e, f) ==
  /\ Pending(f) => Pending(e)
  /\ "DESTROYED" \in f.bits => "DESTROYED" \in e.bits

\* Twice calmer is calmer.
LEMMA CalmerTwice ==
  ASSUME NEW e, NEW f, NEW g, Calmer(e, f), Calmer(f, g)
  PROVE  Calmer(e, g)
  BY DEF Calmer

\* No other command is a DESTROY,
LEMMA SendCalm ==
  ASSUME NEW e, Sound(e), NEW cmd \in Cmds \ {"DESTROY"}
  PROVE  Calmer(e, Send(e, cmd))
<1>1. e.queue \in Seq(Cmds) /\ e \in ElementType
  BY DEF Sound, ElementType
<1>2. CASE HasRoom(e)
  <2> DEFINE k == Append(e.queue, cmd)
  <2>1. Send(e, cmd) = [e EXCEPT !.queue = k]
    BY <1>2 DEF Send
  <2>2. ASSUME NEW i \in 1..Len(k), k[i] = "DESTROY"
        PROVE  i \in 1..Len(e.queue) /\ e.queue[i] = "DESTROY"
    BY <1>1, <2>2
  <2> HIDE DEF k
  <2>3. Send(e, cmd).queue = k /\ Send(e, cmd).bits = e.bits
    BY <1>1, <2>1 DEF ElementType
  <2>4. QED  BY <2>2, <2>3 DEF Calmer, Pending
<1>3. CASE ~HasRoom(e)
  BY <1>3 DEF Send, Calmer
<1>4. QED  BY <1>2, <1>3

\* So that what an element sends itself brings none,
LEMMA RequestsCalm ==
  ASSUME NEW e, Sound(e)
  PROVE  Calmer(e, StopRequest(e)) /\ Calmer(e, ResumeRequest(e))
<1>1. Calmer(e, e)
  BY DEF Calmer
<1>2. QED  BY <1>1, SendCalm DEF StopRequest, ResumeRequest, Cmds

\* And taking a command brings none either.
LEMMA TailCalm ==
  ASSUME NEW x \in Elements, Sound(el[x]), el[x].queue # <<>>
  PROVE  Calmer(el[x], Received(x))
<1>1. el[x].queue \in Seq(Cmds)
  BY DEF Sound, ElementType
<1>2. ASSUME NEW i \in 1..Len(Tail(el[x].queue)), Tail(el[x].queue)[i] = "DESTROY"
      PROVE  i + 1 \in 1..Len(el[x].queue) /\ el[x].queue[i + 1] = "DESTROY"
  BY <1>1, <1>2
<1>3. Received(x) = [el[x] EXCEPT !.queue = Tail(el[x].queue)] /\ Sound(Received(x))
  BY ReceivedLemma
<1>4. Received(x).queue = Tail(el[x].queue) /\ Received(x).bits = el[x].bits
  BY <1>3, ReceivedLemma DEF Sound, ElementType
<1>5. QED  BY <1>2, <1>4 DEF Calmer, Pending

(* A step of the task between two busy places.                             *)
Goes(x, t, q) ==
  /\ el' = [el EXCEPT ![x] = el'[x]] /\ UNCHANGED api
  /\ el'[x].task = [el[x].task EXCEPT ![t] = q]
  /\ el[x].task[t] \in Busy \cup {"new"} /\ q \in Busy
  /\ el'[x].taskRun
  /\ Calmer(el[x], el'[x])

\* A task that goes on in its loop, calmer, keeps its life.
LEMMA GoesLemma ==
  ASSUME el \in [Elements -> ElementType], NEW x \in Elements, NEW t \in Tasks, Lone(x), Life(x),
         NEW q, Goes(x, t, q)
  PROVE  Lone(x)' /\ Life(x)'
<1>1. el[x].task \in [Tasks -> Places]
  BY DEF ElementType
<1>2. el'[x].task[t] = q /\ \A u \in Tasks : u # t => el'[x].task[u] = "none"
  BY <1>1 DEF Goes, Lone, Busy
<1>3. Lone(x)'
  BY <1>2 DEF Lone
<1>4. ~At(x, t, "none") /\ \A c \in Callers : ~In(c, x, "create")
  BY DEF Goes, At, Life, Busy
<1>5. Pending(el'[x]) => Dying(x)'
  BY <1>4 DEF Goes, Life, Calmer, Dying, In
<1>6. Life(x)'
  BY <1>2, <1>4, <1>5 DEF Goes, Life, At, In, Busy
<1>7. QED  BY <1>3, <1>6

\* A step that only changes the element's record goes on.
LEMMA BecomeGoes ==
  ASSUME NEW x \in Elements, NEW t \in Tasks, NEW q \in Busy, NEW f,
         el \in [Elements -> ElementType], f \in ElementType, f.task = el[x].task,
         Become(x, Goto(f, t, q)), f.taskRun, Calmer(el[x], f),
         el[x].task[t] \in Busy \cup {"new"}
  PROVE  Goes(x, t, q)
<1> DEFINE k == [el[x].task EXCEPT ![t] = q]
           g == [f EXCEPT !.task = k]
<1>1. k \in [Tasks -> Places]
  BY DEF ElementType, Busy
<1>2. el' = [el EXCEPT ![x] = g] /\ el'[x] = g /\ UNCHANGED api
  BY DEF Become, Goto
<1> HIDE DEF k
<1>3. g.task = k /\ g.queue = f.queue /\ g.bits = f.bits /\ g.taskRun = f.taskRun
  BY <1>1 DEF ElementType
<1>4. Calmer(el[x], g)
  BY <1>3 DEF Calmer, Pending
<1> HIDE DEF g
<1>5. QED  BY <1>2, <1>3, <1>4 DEF Goes, k

\* Bits other than DESTROYED do not matter.
LEMMA FieldsCalm ==
  ASSUME NEW e, NEW f, f.queue = e.queue,
         f.bits \subseteq e.bits \cup {"STOPPED", "STARTED", "CREATED", "PAUSED"}
  PROVE  Calmer(e, f)
  BY DEF Calmer, Pending

(* The steps of the task that leave it busy.                               *)
LEMMA BusySteps ==
  ASSUME NEW x \in Elements, NEW t \in Tasks, Life(x), ~BufferFails,
         el \in [Elements -> ElementType], Sound(el[x]),
         \/ TaskCreated(x, t) \/ TaskBoots(x, t) \/ Poll(x, t) \/ Halts(x, t) \/ Pauses(x, t)
         \/ OpenSucceeds(x, t) \/ Starts(x, t) \/ SkipsProcess(x, t) \/ EntersProcess(x, t)
         \/ ResetState(x, t)
  PROVE  \E q : Goes(x, t, q)
<1> DEFINE e == el[x]
<1>1. e.task[t] \in Busy \cup {"new"} /\ (e.task[t] \in Busy => e.taskRun)
  BY DEF TaskCreated, TaskBoots, Poll, Halts, Pauses, OpenSucceeds, Starts, SkipsProcess,
         EntersProcess, ResetState, At, Life, Busy, Places
<1>2. ASSUME NEW f, NEW q \in Busy, f \in ElementType, f.task = e.task, f.queue = e.queue,
             f.bits \subseteq e.bits \cup {"STOPPED", "STARTED", "CREATED", "PAUSED"},
             f.taskRun, Become(x, Goto(f, t, q))
      PROVE  Goes(x, t, q)
  BY <1>1, <1>2, FieldsCalm, BecomeGoes
<1>3. e \in ElementType
  BY DEF Sound
<1>4. CASE TaskCreated(x, t)
  <2> DEFINE f == [e EXCEPT !.taskRun = TRUE, !.bits = @ \cup {"CREATED"}]
  <2>1. Become(x, Goto(f, t, "boot")) /\ "boot" \in Busy
    BY <1>4 DEF TaskCreated, Busy, Places
  <2>2. f \in ElementType /\ f.task = e.task /\ f.queue = e.queue /\ f.taskRun
        /\ f.bits = e.bits \cup {"CREATED"}
    BY <1>3 DEF ElementType, Bits
  <2> HIDE DEF f, e
  <2>3. QED  BY <1>2, <2>1, <2>2
<1>5. CASE TaskBoots(x, t)
  <2> DEFINE f == [e EXCEPT !.state = "INIT", !.wait = "forever", !.taskRun = TRUE,
                            !.bits = @ \ {"STOPPED"}]
  <2>1. Become(x, Goto(f, t, "loop")) /\ "loop" \in Busy
    BY <1>5 DEF TaskBoots, Busy, Places
  <2>2. f \in ElementType /\ f.task = e.task /\ f.queue = e.queue /\ f.taskRun
        /\ f.bits = e.bits \ {"STOPPED"}
    BY <1>3 DEF ElementType, Bits, States
  <2> HIDE DEF f, e
  <2>3. QED  BY <1>2, <2>1, <2>2
<1>6. CASE Poll(x, t) \/ SkipsProcess(x, t) \/ EntersProcess(x, t)
  <2>1. PICK q \in Busy : Become(x, Goto(e, t, q))
    BY <1>6 DEF Poll, SkipsProcess, EntersProcess, Busy, Places
  <2>2. e.taskRun
    BY <1>1, <1>6 DEF Poll, SkipsProcess, EntersProcess, At, Busy, Places
  <2> HIDE DEF e
  <2>3. QED  BY <1>2, <1>3, <2>1, <2>2
<1>7. CASE Halts(x, t)
  <2> DEFINE f == [e EXCEPT !.isRunning = FALSE]
  <2>1. Become(x, Goto(f, t, "process")) /\ "process" \in Busy /\ e.taskRun
    BY <1>1, <1>7 DEF Halts, Busy, Places, At
  <2>2. f \in ElementType /\ f.task = e.task /\ f.queue = e.queue /\ f.taskRun = e.taskRun
        /\ f.bits = e.bits
    BY <1>3 DEF ElementType
  <2> HIDE DEF f, e
  <2>3. QED  BY <1>2, <2>1, <2>2
<1>8. CASE Pauses(x, t)
  <2> DEFINE d == Closed(e)
             f == [d EXCEPT !.wait = "forever", !.isRunning = FALSE, !.bits = @ \cup {"PAUSED"}]
  <2>1. Become(x, Goto(f, t, "process")) /\ "process" \in Busy /\ e.taskRun
    BY <1>1, <1>8 DEF Pauses, Busy, Places, At
  <2>2. d \in ElementType /\ d.bits = e.bits /\ d.queue = e.queue /\ d.task = e.task
        /\ d.taskRun = e.taskRun
    BY <1>3 DEF Closed, ElementType
  <2> HIDE DEF d
  <2>3. f \in ElementType /\ f.task = e.task /\ f.queue = e.queue /\ f.taskRun = e.taskRun
        /\ f.bits = e.bits \cup {"PAUSED"}
    BY <2>2 DEF ElementType, Bits
  <2> HIDE DEF f, e
  <2>4. QED  BY <1>2, <2>1, <2>3
<1>9. CASE OpenSucceeds(x, t)
  <2> DEFINE f == [e EXCEPT !.device = "open", !.state = "RUNNING", !.bits = @ \cup {"STARTED"}]
  <2>1. Become(x, Goto(f, t, "opened")) /\ "opened" \in Busy /\ e.taskRun
    BY <1>1, <1>9 DEF OpenSucceeds, Busy, Places, At
  <2>2. f \in ElementType /\ f.task = e.task /\ f.queue = e.queue /\ f.taskRun = e.taskRun
        /\ f.bits = e.bits \cup {"STARTED"}
    BY <1>3 DEF ElementType, Bits, States
  <2> HIDE DEF f, e
  <2>3. QED  BY <1>2, <2>1, <2>2
<1>10. CASE Starts(x, t)
  <2> DEFINE f == [e EXCEPT !.wait = "none", !.isRunning = TRUE, !.bits = @ \ {"STOPPED"}]
  <2>1. Become(x, Goto(f, t, "process")) /\ "process" \in Busy /\ e.taskRun
    BY <1>1, <1>10 DEF Starts, Busy, Places, At
  <2>2. f \in ElementType /\ f.task = e.task /\ f.queue = e.queue /\ f.taskRun = e.taskRun
        /\ f.bits = e.bits \ {"STOPPED"}
    BY <1>3 DEF ElementType, Bits
  <2> HIDE DEF f, e
  <2>3. QED  BY <1>2, <2>1, <2>2
<1>11. CASE ResetState(x, t)
  <2> DEFINE f == [e EXCEPT !.state = "INIT", !.device = "closed"]
  <2>1. Become(x, Goto(f, t, "reset")) /\ "reset" \in Busy /\ e.taskRun
    BY <1>1, <1>11 DEF ResetState, Busy, Places, At
  <2>2. f \in ElementType /\ f.task = e.task /\ f.queue = e.queue /\ f.taskRun = e.taskRun
        /\ f.bits = e.bits
    BY <1>3 DEF ElementType, States
  <2> HIDE DEF f, e
  <2>3. QED  BY <1>2, <2>1, <2>2
<1>12. QED  BY <1>4, <1>5, <1>6, <1>7, <1>8, <1>9, <1>10, <1>11

(* The commands, DESTROY apart.                                            *)
LEMMA CommandSteps ==
  ASSUME NEW x \in Elements, NEW t \in Tasks, Life(x),
         el \in [Elements -> ElementType], Sound(el[x]),
         \/ OnError(x, t) \/ OnFinish(x, t) \/ OnStop(x, t) \/ OnStopFinished(x, t)
         \/ OnPause(x, t) \/ OnResumeRunning(x, t) \/ OnResume(x, t)
  PROVE  \E q : Goes(x, t, q)
<1> DEFINE r == Received(x)
           d == Closed(r)
<1>1. /\ el[x].task[t] \in Busy /\ el[x].taskRun /\ el[x].queue # <<>>
      /\ {"loop", "process", "halt", "pausing", "open"} \subseteq Busy
  BY DEF OnError, OnFinish, OnStop, OnStopFinished, OnPause, OnResumeRunning, OnResume, Receives,
         At, Busy, Places
<1>2. /\ r \in ElementType /\ r.task = el[x].task /\ r.taskRun /\ Calmer(el[x], r)
  BY <1>1, ReceivedLemma, TailCalm DEF Sound
<1>3. ASSUME NEW f, NEW q \in Busy, f \in ElementType, f.task = r.task, f.queue = r.queue,
             f.taskRun = r.taskRun, f.bits \subseteq r.bits \cup {"STOPPED"},
             Become(x, Goto(f, t, q))
      PROVE  Goes(x, t, q)
  <2>1. Calmer(r, f)
    BY <1>3, FieldsCalm
  <2>2. Calmer(el[x], f) /\ f.task = el[x].task /\ f.taskRun
    BY <1>2, <1>3, <2>1, CalmerTwice
  <2> HIDE DEF r
  <2>3. QED  BY <1>1, <1>3, <2>2, BecomeGoes
<1>4. /\ d \in ElementType /\ d.task = r.task /\ d.taskRun = r.taskRun /\ d.queue = r.queue
      /\ d.bits = r.bits
  <2> HIDE DEF r
  <2>1. QED  BY <1>2 DEF Closed, ElementType
<1>5. CASE OnError(x, t)
  <2> DEFINE f == [d EXCEPT !.state = "ERROR", !.wait = "forever", !.isRunning = FALSE,
                            !.bits = @ \cup {"STOPPED"}]
  <2>1. Become(x, Goto(f, t, "process"))
    BY <1>5 DEF OnError
  <2> HIDE DEF d
  <2>2. /\ f \in ElementType /\ f.task = d.task /\ f.taskRun = d.taskRun /\ f.queue = d.queue
        /\ f.bits = d.bits \cup {"STOPPED"}
    BY <1>4 DEF ElementType, Bits, States
  <2> HIDE DEF f, r
  <2>3. QED  BY <1>1, <1>3, <1>4, <2>1, <2>2
<1>6. CASE OnFinish(x, t)
  <2> DEFINE f == [d EXCEPT !.state = "FINISHED", !.wait = "forever", !.bits = @ \cup {"STOPPED"}]
  <2>1. Become(x, Goto(f, t, "halt"))
    BY <1>6 DEF OnFinish
  <2> HIDE DEF d
  <2>2. /\ f \in ElementType /\ f.task = d.task /\ f.taskRun = d.taskRun /\ f.queue = d.queue
        /\ f.bits = d.bits \cup {"STOPPED"}
    BY <1>4 DEF ElementType, Bits, States
  <2> HIDE DEF f, r
  <2>3. QED  BY <1>1, <1>3, <1>4, <2>1, <2>2
<1>7. CASE OnStop(x, t)
  <2> DEFINE f == [d EXCEPT !.state = "STOPPED", !.wait = "forever", !.bits = @ \cup {"STOPPED"}]
  <2>1. Become(x, Goto(f, t, "halt"))
    BY <1>7 DEF OnStop
  <2> HIDE DEF d
  <2>2. /\ f \in ElementType /\ f.task = d.task /\ f.taskRun = d.taskRun /\ f.queue = d.queue
        /\ f.bits = d.bits \cup {"STOPPED"}
    BY <1>4 DEF ElementType, Bits, States
  <2> HIDE DEF f, r
  <2>3. QED  BY <1>1, <1>3, <1>4, <2>1, <2>2
<1>8. CASE OnStopFinished(x, t)
  <2> DEFINE f == [r EXCEPT !.state = "STOPPED", !.bits = @ \cup {"STOPPED"}]
  <2>1. Become(x, Goto(f, t, "process"))
    BY <1>8 DEF OnStopFinished
  <2> HIDE DEF r
  <2>2. /\ f \in ElementType /\ f.task = r.task /\ f.taskRun = r.taskRun /\ f.queue = r.queue
        /\ f.bits = r.bits \cup {"STOPPED"}
    BY <1>2 DEF ElementType, Bits, States
  <2> HIDE DEF f
  <2>3. QED  BY <1>1, <1>3, <2>1, <2>2
<1>9. CASE OnPause(x, t)
  <2> DEFINE f == [r EXCEPT !.state = "PAUSED"]
  <2>1. Become(x, Goto(f, t, "pausing"))
    BY <1>9 DEF OnPause
  <2> HIDE DEF r
  <2>2. /\ f \in ElementType /\ f.task = r.task /\ f.taskRun = r.taskRun /\ f.queue = r.queue
        /\ f.bits = r.bits
    BY <1>2 DEF ElementType, States
  <2> HIDE DEF f
  <2>3. QED  BY <1>1, <1>3, <2>1, <2>2
<1>10. CASE OnResumeRunning(x, t)
  <2> DEFINE f == [r EXCEPT !.isRunning = TRUE]
  <2>1. Become(x, Goto(f, t, "process"))
    BY <1>10 DEF OnResumeRunning
  <2> HIDE DEF r
  <2>2. /\ f \in ElementType /\ f.task = r.task /\ f.taskRun = r.taskRun /\ f.queue = r.queue
        /\ f.bits = r.bits
    BY <1>2 DEF ElementType
  <2> HIDE DEF f
  <2>3. QED  BY <1>1, <1>3, <2>1, <2>2
<1>11. CASE OnResume(x, t)
  <2> DEFINE f == [r EXCEPT !.isOpen = TRUE]
  <2>1. Become(x, Goto(f, t, "open"))
    BY <1>11 DEF OnResume
  <2> HIDE DEF r
  <2>2. /\ f \in ElementType /\ f.task = r.task /\ f.taskRun = r.taskRun /\ f.queue = r.queue
        /\ f.bits = r.bits
    BY <1>2 DEF ElementType
  <2> HIDE DEF f
  <2>3. QED  BY <1>1, <1>3, <2>1, <2>2
<1>12. QED  BY <1>5, <1>6, <1>7, <1>8, <1>9, <1>10, <1>11

(* What the task sends itself is never DESTROY.                            *)
LEMMA OutcomeCalm ==
  ASSUME NEW e, Sound(e), NEW outcome \in AllOutcomes \ {"next track"}
  PROVE  Calmer(e, AfterProcess(e, outcome))
<1>1. Calmer(e, e) /\ e \in ElementType
  BY DEF Calmer, Sound
<1>2. \A cmd \in {"ERROR", "FINISH", "PAUSE"} : Sound(Send(e, cmd)) /\ Calmer(e, Send(e, cmd))
  BY SendCalm, SendLemma DEF Cmds
<1>3. Calmer(e, Send(Send(e, "ERROR"), "ERROR"))
  <2>1. Calmer(Send(e, "ERROR"), Send(Send(e, "ERROR"), "ERROR"))
    BY <1>2, SendCalm DEF Cmds
  <2>2. QED  BY <1>2, <2>1, CalmerTwice
<1>4. Calmer(e, ResumeRequest([e EXCEPT !.isOpen = FALSE, !.isRunning = FALSE]))
  <2> DEFINE g == [e EXCEPT !.isOpen = FALSE, !.isRunning = FALSE]
  <2>1. Sound(g) /\ Calmer(e, g)
    BY <1>1 DEF Sound, Calmer, Pending, ElementType
  <2> HIDE DEF g
  <2>2. Calmer(g, ResumeRequest(g))
    BY <2>1, RequestsCalm
  <2>3. QED  BY <2>1, <2>2, CalmerTwice DEF g
<1>5. Calmer(e, StopRequest(e))
  BY RequestsCalm
<1>6. QED  BY <1>1, <1>2, <1>3, <1>4, <1>5 DEF AfterProcess, AllOutcomes

\* The steps in which an element sends itself a command go on.
LEMMA SendingSteps ==
  ASSUME NEW x \in Elements, NEW t \in Tasks, Life(x), Placed(x, t),
         \/ OpenRefused(x, t)
         \/ \E outcome \in Outcomes \ {"next track"} : Works(x, t, outcome)
  PROVE  \E q : Goes(x, t, q)
<1> DEFINE e == el[x]
<1>1. /\ el \in [Elements -> ElementType] /\ Sound(e) /\ Shape(e, e.task[t])
      /\ e.task[t] \in Busy /\ e.taskRun
  BY DEF Placed, OpenRefused, Works, At, Life, Busy, Places
<1>2. ASSUME NEW f, NEW q \in Busy, Sound(f), f.task = e.task, f.taskRun, Calmer(e, f),
             Become(x, Goto(f, t, q))
      PROVE  Goes(x, t, q)
  BY <1>1, <1>2, BecomeGoes DEF Sound
<1>3. "loop" \in Busy /\ "process" \in Busy
  BY DEF Busy, Places
<1>4. CASE OpenRefused(x, t)
  <2> DEFINE f == Send(e, "ERROR")
  <2>1. Become(x, Goto(f, t, "process"))
    BY <1>4 DEF OpenRefused
  <2> HIDE DEF e
  <2>2. Sound(f) /\ Steered(e, f) /\ Calmer(e, f)
    BY <1>1, SendLemma, SendCalm DEF Cmds
  <2> HIDE DEF f
  <2>3. QED  BY <1>1, <1>2, <1>3, <2>1, <2>2 DEF Steered
<1>5. ASSUME NEW outcome \in Outcomes \ {"next track"}, Works(x, t, outcome)
      PROVE  Goes(x, t, "loop")
  <2> DEFINE f == AfterProcess(e, outcome)
  <2>1. Become(x, Goto(f, t, "loop")) /\ outcome \in AllOutcomes \ {"next track"}
    BY <1>5, KindsAssumption DEF Works
  <2>2. \/ Shape(e, "work")
        \/ Shape(e, "reset") /\ outcome = "done"
    BY <1>1, <1>5 DEF Works, At
  <2> HIDE DEF e
  <2>3. Calmer(e, f)
    BY <1>1, <2>1, OutcomeCalm
  <2>4. Sound(f) /\ f.task = e.task /\ f.taskRun
    BY <1>1, <2>1, <2>2, OutcomeLemma, RestartLemma DEF Steered
  <2> HIDE DEF f
  <2>5. QED  BY <1>2, <1>3, <2>1, <2>3, <2>4
<1>6. QED  BY <1>4, <1>5

\* A DESTROY ends the loop with somebody waiting for the end.
LEMMA DestroyLife ==
  ASSUME el \in [Elements -> ElementType], NEW x \in Elements, NEW t \in Tasks,
         Sound(el[x]), Lone(x), Life(x), OnDestroy(x, t)
  PROVE  Lone(x)' /\ Life(x)'
<1> DEFINE e == el[x]
           r == Received(x)
           f == [r EXCEPT !.taskRun = FALSE, !.isRunning = FALSE]
           k == [e.task EXCEPT ![t] = "closing"]
           g == [f EXCEPT !.task = k]
<1>1. /\ Become(x, Goto(f, t, "closing")) /\ e.task[t] = "loop" /\ e.queue # <<>>
      /\ Head(e.queue) = "DESTROY"
  BY DEF OnDestroy, Receives, At
<1>2. e.queue \in Seq(Cmds) /\ e \in ElementType /\ e.task \in [Tasks -> Places]
  BY DEF Sound, ElementType
<1>3. Dying(x) /\ \A c \in Callers : ~In(c, x, "create")
  <2>1. Pending(e)
    <3>1. 1 \in 1..Len(e.queue) /\ e.queue[1] = "DESTROY"
      BY <1>1, <1>2
    <3>2. QED  BY <3>1 DEF Pending
  <2>2. QED  BY <1>1, <2>1 DEF Life, At
<1>4. r \in ElementType /\ r.task = e.task /\ r.bits = e.bits
  BY <1>1, ReceivedLemma DEF Sound
<1>5. k \in [Tasks -> Places] /\ k[t] = "closing" /\ \A u \in Tasks : u # t => k[u] = "none"
  BY <1>1, <1>2 DEF Lone, Places
<1> HIDE DEF r
<1>6. f \in ElementType /\ f.task = e.task /\ f.bits = e.bits /\ ~f.taskRun
  BY <1>4 DEF ElementType
<1>7. el' = [el EXCEPT ![x] = g] /\ el'[x] = g /\ UNCHANGED api
  BY <1>1, <1>6 DEF Become, Goto
<1> HIDE DEF f, k
<1>8. g.task = k /\ g.bits = e.bits /\ ~g.taskRun
  BY <1>5, <1>6 DEF ElementType
<1> HIDE DEF g
<1>9. Dying(x)'
  BY <1>3, <1>7, <1>8 DEF Dying, In
<1>10. QED  BY <1>3, <1>5, <1>7, <1>8, <1>9 DEF Lone, Life, At, In, Busy

\* The end of the task is signalled, and nobody has created another.
LEMMA EndsLife ==
  ASSUME el \in [Elements -> ElementType], NEW x \in Elements, NEW t \in Tasks,
         Sound(el[x]), Lone(x), Life(x), Ends(x, t)
  PROVE  Lone(x)' /\ Life(x)'
<1> DEFINE e == el[x]
           d == Closed(e)
           f == [d EXCEPT !.bits = @ \cup {"DESTROYED"}]
           k == [e.task EXCEPT ![t] = "none"]
           g == [f EXCEPT !.task = k]
<1>1. Become(x, Goto(f, t, "none")) /\ e.task[t] = "closing" /\ ~e.taskRun
  BY DEF Ends, At, Life
<1>2. e \in ElementType /\ e.task \in [Tasks -> Places]
  BY DEF Sound, ElementType
<1>3. k \in [Tasks -> Places] /\ \A u \in Tasks : k[u] = "none"
  BY <1>1, <1>2 DEF Lone, Places
<1>4. d \in ElementType /\ d.task = e.task /\ d.taskRun = e.taskRun
  BY <1>2 DEF Closed, ElementType
<1> HIDE DEF d
<1>5. f \in ElementType /\ f.task = e.task /\ ~f.taskRun
  BY <1>1, <1>4 DEF ElementType, Bits
<1>6. el' = [el EXCEPT ![x] = g] /\ el'[x] = g
  BY <1>1, <1>5 DEF Become, Goto
<1> HIDE DEF f, k
<1>7. g.task = k /\ ~g.taskRun
  BY <1>3, <1>5 DEF ElementType
<1> HIDE DEF g
<1>8. QED  BY <1>3, <1>6, <1>7 DEF Lone, Life, At, Busy

\* Every step of a task keeps its life when its buffer is there.
LEMMA TaskLife ==
  ASSUME EInv, NEW x \in Elements, NEW t \in Tasks, Lone(x), Life(x), Task(x, t), ~BufferFails
  PROVE  Lone(x)' /\ Life(x)'
<1>1. el[x].task[t] # "none"
  BY DEF Task, Handlers, TaskCreated, TaskBoots, Poll, OnError, OnFinish, OnStop, Halts,
         OnStopFinished, OnPause, Pauses, OnResumeRunning, OnResume, OpenSucceeds, Starts,
         OpenRefused, OnDestroy, SkipsProcess, EntersProcess, ResetState, Works, LeavesLoop,
         Ends, Receives, At
<1>2. Placed(x, t) /\ Sound(el[x]) /\ el \in [Elements -> ElementType]
  BY <1>1 DEF EInv, Formed, Placed
<1>3. ~LeavesLoop(x, t)
  BY DEF LeavesLoop, Life, At, Busy, Places
<1>4. CASE OnDestroy(x, t)
  BY <1>2, <1>4, DestroyLife
<1>5. CASE Ends(x, t)
  BY <1>2, <1>5, EndsLife
<1>6. CASE ~OnDestroy(x, t) /\ ~Ends(x, t)
  <2>1. \E q : Goes(x, t, q)
    BY <1>2, <1>3, <1>6, BusySteps, CommandSteps, SendingSteps DEF Task, Handlers
  <2>2. QED  BY <1>2, <2>1, GoesLemma
<1>7. QED  BY <1>4, <1>5, <1>6

\* Only a step that leaves no task signals the end of one.
LEMMA EndSignalled ==
  ASSUME EInv, NEW x \in Elements, NEW t \in Tasks, Lone(x), Life(x), Task(x, t), ~BufferFails,
         "DESTROYED" \in el'[x].bits, "DESTROYED" \notin el[x].bits
  PROVE  el'[x].task[t] = "none"
<1>1. el[x].task[t] # "none"
  BY DEF Task, Handlers, TaskCreated, TaskBoots, Poll, OnError, OnFinish, OnStop, Halts,
         OnStopFinished, OnPause, Pauses, OnResumeRunning, OnResume, OpenSucceeds, Starts,
         OpenRefused, OnDestroy, SkipsProcess, EntersProcess, ResetState, Works, LeavesLoop,
         Ends, Receives, At
<1>2. Placed(x, t) /\ Sound(el[x]) /\ el \in [Elements -> ElementType]
  BY <1>1 DEF EInv, Formed, Placed
<1>3. ~LeavesLoop(x, t)
  BY DEF LeavesLoop, Life, At, Busy, Places
<1>4. CASE OnDestroy(x, t)
  <2> DEFINE r == Received(x)
             f == [r EXCEPT !.taskRun = FALSE, !.isRunning = FALSE]
  <2>1. Become(x, Goto(f, t, "closing")) /\ el[x].queue # <<>>
    BY <1>4 DEF OnDestroy, Receives
  <2>2. r \in ElementType /\ r.bits = el[x].bits
    BY <1>2, <2>1, ReceivedLemma DEF Sound
  <2> HIDE DEF r
  <2>3. Goto(f, t, "closing").bits = el[x].bits
    BY <2>2 DEF Goto, ElementType
  <2> HIDE DEF f
  <2>4. el'[x] = Goto(f, t, "closing")
    BY <1>2, <2>1 DEF Become
  <2>5. QED  BY <2>3, <2>4
<1>5. CASE Ends(x, t)
  <2> DEFINE f == [Closed(el[x]) EXCEPT !.bits = @ \cup {"DESTROYED"}]
  <2>1. Become(x, Goto(f, t, "none"))
    BY <1>5 DEF Ends
  <2>2. f.task = el[x].task /\ f \in ElementType
    <3>1. Closed(el[x]) \in ElementType /\ Closed(el[x]).task = el[x].task
      BY <1>2 DEF Closed, ElementType, Sound
    <3> DEFINE d == Closed(el[x])
    <3>2. d.bits \cup {"DESTROYED"} \in SUBSET Bits
      BY <3>1 DEF ElementType, Bits
    <3>3. d \in ElementType /\ d.task = el[x].task
      BY <3>1
    <3> HIDE DEF d
    <3>4. QED  BY <3>2, <3>3 DEF ElementType, d
  <2> HIDE DEF f
  <2>3. Goto(f, t, "none").task[t] = "none"
    BY <2>2 DEF Goto, ElementType
  <2>4. el'[x] = Goto(f, t, "none")
    BY <1>2, <2>1 DEF Become
  <2>5. QED  BY <2>3, <2>4
<1>6. CASE ~OnDestroy(x, t) /\ ~Ends(x, t)
  <2>1. PICK q : Goes(x, t, q)
    BY <1>2, <1>3, <1>6, BusySteps, CommandSteps, SendingSteps DEF Task, Handlers
  <2>2. QED  BY <2>1 DEF Goes, Calmer
<1>7. QED  BY <1>4, <1>5, <1>6

-----------------------------------------------------------------------------
(* The callers, and the life of the task.                                  *)
LEMMA CallFrame ==
  ASSUME EInv, NEW x \in Elements, NEW c \in Callers, Request(c, x) \/ Completion(c, x)
  PROVE  /\ api' = [api EXCEPT ![c] = api'[c]] /\ api'[c].on = x
         /\ api[c].in = "nothing" \/ api[c].on = x
         /\ \A y \in Elements : y # x => el'[y] = el[y]
<1>1. api \in [Callers -> CallType] /\ el \in [Elements -> ElementType]
  BY DEF EInv
<1>2. ASSUME NEW op, NEW ret, Returns(c, x, op, ret)
      PROVE  api' = [api EXCEPT ![c] = api'[c]] /\ api'[c].on = x
  BY <1>1, <1>2 DEF Returns
<1>3. ASSUME NEW op, Waits(c, x, op)
      PROVE  api' = [api EXCEPT ![c] = api'[c]] /\ api'[c].on = x
  BY <1>1, <1>3 DEF Waits, CallType
<1>4. CASE Request(c, x)
  <2>1. api[c].in = "nothing" /\ (\/ \E op, ret : Returns(c, x, op, ret)
                                  \/ \E op : Waits(c, x, op))
    BY <1>4 DEF Request, AskRun, RunsAlready, Run, AskPause, PauseNotRun, PauseResting, Pause,
                AskResume, ResumeNotRun, ResumeRunning, ResumeError, ResumeFinished, Resume,
                AskStop, StopNotRun, StopStopped, Stop, WaitForStop, AskTerminate,
                TerminateNotRun, Terminate, Deinit, Answers, Begins
  <2>2. ~CreateTask(c, x)
    BY <2>1 DEF CreateTask, In
  <2>3. Steers(x)
    BY <1>4, <2>2, CallStep
  <2>4. QED  BY <1>1, <1>2, <1>3, <2>1, <2>3 DEF Steers
<1>5. CASE Completion(c, x)
  <2>1. api[c].on = x /\ (\/ \E op, ret : Returns(c, x, op, ret)
                          \/ \E op : Waits(c, x, op))
    BY <1>5 DEF Completion, CreateTask, BitSeen, TimesOut, DeinitTerminates, DeinitWaits,
                DeinitFrees, In
  <2>2. CASE CreateTask(c, x)
    BY <1>1, <1>2, <1>3, <2>1, <2>2 DEF CreateTask
  <2>3. CASE ~CreateTask(c, x)
    BY <1>1, <1>2, <1>3, <1>5, <2>1, <2>3, CallStep DEF Steers
  <2>4. QED  BY <2>2, <2>3
<1>6. QED  BY <1>4, <1>5

\* What touches neither element nor calls keeps a life,
LEMMA SameLife ==
  ASSUME NEW y \in Elements, el'[y] = el[y], api' = api, Lone(y), Life(y)
  PROVE  Lone(y)' /\ Life(y)'
<1>1. \A d \in Callers : \A op : In(d, y, op)' <=> In(d, y, op)
  BY DEF In
<1>2. Dying(y)' <=> Dying(y)
  BY <1>1 DEF Dying
<1>3. \A t \in Tasks : \A p : At(y, t, p)' <=> At(y, t, p)
  BY DEF At
<1>4. QED  BY <1>1, <1>2, <1>3 DEF Lone, Life

\* So the calls on one element keep the lives of the others.
LEMMA OtherLife ==
  ASSUME EInv, NEW x \in Elements, NEW c \in Callers, Request(c, x) \/ Completion(c, x),
         NEW y \in Elements, y # x, Lone(y), Life(y)
  PROVE  Lone(y)' /\ Life(y)'
<1>1. el'[y] = el[y] /\ api \in [Callers -> CallType]
  BY CallFrame DEF EInv
<1>2. ASSUME NEW d \in Callers, NEW op, op # "nothing"
      PROVE  In(d, y, op)' <=> In(d, y, op)
  <2>1. CASE d = c
    BY <1>2, <2>1, CallFrame DEF In
  <2>2. CASE d # c
    BY <1>1, <1>2, <2>2, CallFrame DEF In
  <2>3. QED  BY <2>1, <2>2
<1>3. Dying(y)' <=> Dying(y)
  BY <1>1, <1>2 DEF Dying
<1>4. \A t \in Tasks : \A p : At(y, t, p)' <=> At(y, t, p)
  BY <1>1 DEF At
<1>5. QED  BY <1>1, <1>2, <1>3, <1>4 DEF Lone, Life

(* A call that creates no task, and begins to create none.                 *)
LEMMA CalmCall ==
  ASSUME NEW x \in Elements, NEW c \in Callers, Lone(x), Life(x),
         el'[x].task = el[x].task, el'[x].taskRun = el[x].taskRun,
         el'[x].bits \subseteq el[x].bits,
         api' = [api EXCEPT ![c] = api'[c]], api \in [Callers -> CallType],
         api'[c].in # "create",
         api[c].in = "run" => "CREATED" \in el[x].bits,
         api[c].in \in {"terminate", "deinit waits"} => "DESTROYED" \in el[x].bits,
         Pending(el'[x]) => Pending(el[x]) \/ (el[x].taskRun /\ Dying(x)')
  PROVE  Lone(x)' /\ Life(x)'
<1>1. \A d \in Callers : d # c => api'[d] = api[d]
  OBVIOUS
<1>2. \A d \in Callers : In(d, x, "create")' => In(d, x, "create")
  BY <1>1 DEF In
<1>3. Dying(x) => Dying(x)'
  BY <1>1 DEF Dying, In
<1>4. "CREATED" \notin el[x].bits /\ (\E d \in Callers : In(d, x, "run"))
        => \E d \in Callers : In(d, x, "run")'
  BY <1>1 DEF In
<1>5. \A t \in Tasks : \A p : At(x, t, p)' <=> At(x, t, p)
  BY DEF At
<1>6. QED  BY <1>2, <1>3, <1>4, <1>5 DEF Lone, Life

\* Run tests for a task while nobody else is about to create one,
LEMMA RunLife ==
  ASSUME EInv, NEW x \in Elements, NEW c \in Callers, Life(x), Run(c, x), TakeTurns'
  PROVE  Lone(x)' /\ Life(x)'
<1>1. /\ el' = el /\ ~el[x].taskRun /\ api[c].in = "nothing" /\ Waits(c, x, "create")
      /\ api \in [Callers -> CallType] /\ el[x].task \in [Tasks -> Places]
  BY DEF Run, Begins, EInv, ElementType
<1>2. api' = [api EXCEPT ![c] = api'[c]] /\ api'[c].in = "create" /\ api'[c].on = x
  BY <1>1 DEF Waits, CallType
<1>3. ASSUME NEW d \in Callers, NEW op, op # "nothing", In(d, x, op)
      PROVE  FALSE
  <2>1. d # c /\ api'[d] = api[d] /\ api[d].in = op /\ api[d].on = x
    BY <1>1, <1>2, <1>3 DEF In
  <2>2. d = c
    BY <1>2, <1>3, <2>1 DEF TakeTurns
  <2>3. QED  BY <2>1, <2>2
<1>4. ASSUME NEW t \in Tasks
      PROVE  el[x].task[t] = "none"
  <2>1. el[x].task[t] \notin Busy /\ ~At(x, t, "new") /\ ~At(x, t, "closing")
    BY <1>1, <1>3 DEF Life, Dying
  <2>2. QED  BY <1>1, <2>1 DEF Busy, At
<1>5. QED  BY <1>1, <1>4 DEF Lone, Life, At, Busy

\* So that it creates the only one.
LEMMA CreateLife ==
  ASSUME EInv, NEW x \in Elements, NEW c \in Callers, Life(x), CreateTask(c, x), TakeTurns
  PROVE  Lone(x)' /\ Life(x)'
<1> DEFINE e == el[x]
<1>1. PICK t \in Tasks :
        el' = [el EXCEPT ![x] = Goto(Cleared(Emptied(@), {"CREATED", "STOPPED"}), t, "new")]
  BY DEF CreateTask
<1>2. /\ e \in ElementType /\ e.task \in [Tasks -> Places] /\ el \in [Elements -> ElementType]
      /\ api \in [Callers -> CallType] /\ In(c, x, "create") /\ Waits(c, x, "run")
  BY DEF EInv, ElementType, CreateTask
<1>3. \A u \in Tasks : e.task[u] = "none"
  BY <1>2 DEF Life, At
<1>4. ~e.taskRun
  BY <1>3 DEF Life, At
<1> DEFINE d == Cleared(Emptied(e), {"CREATED", "STOPPED"})
           k == [e.task EXCEPT ![t] = "new"]
           f == [d EXCEPT !.task = k]
<1>5. k \in [Tasks -> Places] /\ k[t] = "new" /\ \A u \in Tasks : u # t => k[u] = "none"
  BY <1>2, <1>3 DEF Places
<1>6. e = el[x]
  OBVIOUS
<1> HIDE DEF e, k
<1>7. /\ d \in ElementType /\ d.queue = <<>> /\ d.task = e.task /\ ~d.taskRun
      /\ "CREATED" \notin d.bits
  <2>1. /\ Emptied(e) \in ElementType /\ Emptied(e).queue = <<>> /\ Emptied(e).task = e.task
        /\ ~Emptied(e).taskRun
    <3>1. <<>> \in Seq(Cmds)
      OBVIOUS
    <3>2. QED  BY <1>2, <1>4, <3>1 DEF Emptied, ElementType
  <2>2. QED  BY <2>1 DEF Cleared, ElementType
<1>8. Goto(d, t, "new") = f
  BY <1>7 DEF Goto, k
<1>9. el'[x] = f
  BY <1>1, <1>2, <1>6, <1>8
<1> HIDE DEF d
<1>10. f.queue = <<>> /\ f.task = k /\ ~f.taskRun /\ "CREATED" \notin f.bits
  BY <1>5, <1>7 DEF ElementType
<1> HIDE DEF f
<1>11. ~Pending(f)
  BY <1>10 DEF Pending
<1>12. In(c, x, "run")' /\ \A b \in Callers : ~In(b, x, "create")'
  <2>1. api' = [api EXCEPT ![c] = api'[c]] /\ api'[c].in = "run" /\ api'[c].on = x
    BY <1>2 DEF Waits, CallType
  <2>2. \A b \in Callers : b # c => ~In(b, x, "create")
    BY <1>2 DEF In, TakeTurns
  <2>3. QED  BY <1>2, <2>1, <2>2 DEF In
<1>13. QED  BY <1>5, <1>9, <1>10, <1>11, <1>12 DEF Lone, Life, At, Busy

\* Clearing bits is calm, with a command sent or without.
LEMMA ClearCalm ==
  ASSUME NEW e, Sound(e), NEW bits
  PROVE  /\ Calmer(e, Cleared(e, bits))
         /\ \A cmd \in Cmds \ {"DESTROY"} : Calmer(e, Send(Cleared(e, bits), cmd))
         /\ ~HasRoom(e) => Send(Cleared(e, bits), "DESTROY") = Cleared(e, bits)
<1>1. Sound(Cleared(e, bits)) /\ e \in ElementType
  BY ClearLemma DEF Sound, Cmds
<1>2. Cleared(e, bits).queue = e.queue /\ Cleared(e, bits).bits \subseteq e.bits
  BY <1>1 DEF Cleared, ElementType
<1>3. Calmer(e, Cleared(e, bits))
  BY <1>2, FieldsCalm
<1>4. \A cmd \in Cmds \ {"DESTROY"} : Calmer(e, Send(Cleared(e, bits), cmd))
  BY <1>1, <1>3, SendCalm, CalmerTwice
<1>5. ~HasRoom(e) => Send(Cleared(e, bits), "DESTROY") = Cleared(e, bits)
  BY <1>2 DEF Send, HasRoom
<1>6. QED  BY <1>3, <1>4, <1>5

\* DESTROY is sent by a caller that goes on to wait for its answer.
LEMMA DestroySent ==
  ASSUME EInv, NEW x \in Elements, NEW c \in Callers, NEW op \in {"terminate", "deinit waits"},
         el' = [el EXCEPT ![x] = Send(Cleared(@, {"DESTROYED"}), "DESTROY")],
         HasRoom(el[x]), Waits(c, x, op)
  PROVE  Dying(x)'
<1> DEFINE e == el[x]
           d == Cleared(e, {"DESTROYED"})
<1>1. e \in ElementType /\ Sound(e) /\ el \in [Elements -> ElementType]
      /\ api \in [Callers -> CallType]
  BY DEF EInv
<1>2. el'[x] = Send(d, "DESTROY")
  BY <1>1
<1>3. Sound(d) /\ "DESTROYED" \notin d.bits
  <2>1. Sound(d)
    BY <1>1, ClearLemma DEF Cmds
  <2>2. "DESTROYED" \notin d.bits
    BY <1>1 DEF Cleared, ElementType
  <2>3. QED  BY <2>1, <2>2
<1> HIDE DEF d
<1>4. Steered(d, Send(d, "DESTROY"))
  BY <1>3, SendLemma DEF Cmds
<1>5. "DESTROYED" \notin el'[x].bits
  BY <1>2, <1>3, <1>4 DEF Steered
<1>6. In(c, x, op)'
  BY <1>1 DEF Waits, In, CallType
<1>7. QED  BY <1>5, <1>6 DEF Dying

\* A caller that brings a DESTROY waits for the end.
LEMMA CallPending ==
  ASSUME EInv, NEW x \in Elements, NEW c \in Callers, Request(c, x) \/ Completion(c, x),
         ~CreateTask(c, x)
  PROVE  Pending(el'[x]) => Pending(el[x]) \/ (el[x].taskRun /\ Dying(x)')
<1> DEFINE e == el[x]
<1>1. Sound(e) /\ e \in ElementType /\ el \in [Elements -> ElementType]
  BY DEF EInv, Sound
<1>2. CASE UNCHANGED el
  BY <1>2
<1>3. CASE \/ el' = [el EXCEPT ![x] = Send(Cleared(@, {"PAUSED"}), "PAUSE")]
           \/ el' = [el EXCEPT ![x] = Send(@, "RESUME")]
           \/ el' = [el EXCEPT ![x] = Send(@, "STOP")]
           \/ el' = [el EXCEPT ![x] = StopRequest(@)]
  <2>1. Calmer(e, el'[x])
    BY <1>1, <1>3, ClearCalm, SendCalm, RequestsCalm DEF Cmds
  <2>2. QED  BY <2>1 DEF Calmer
<1>4. CASE DeinitFrees(c, x)
  <2>1. el'[x] = [e EXCEPT !.freed = TRUE]
    BY <1>1, <1>4 DEF DeinitFrees
  <2>2. QED  BY <1>1, <2>1 DEF ElementType, Pending
<1>5. CASE Terminate(c, x)
  <2>1. /\ el' = [el EXCEPT ![x] = Send(Cleared(@, {"DESTROYED"}), "DESTROY")]
        /\ e.taskRun /\ (HasRoom(e) => Waits(c, x, "terminate"))
    BY <1>5 DEF Terminate
  <2>2. CASE HasRoom(e)
    BY <2>1, <2>2, DestroySent
  <2>3. CASE ~HasRoom(e)
    <3>1. el'[x] = Cleared(e, {"DESTROYED"})
      BY <1>1, <2>1, <2>3, ClearCalm
    <3>2. QED  BY <1>1, <3>1, ClearCalm DEF Calmer
  <2>4. QED  BY <2>2, <2>3
<1>6. CASE DeinitTerminates(c, x) /\ ~UNCHANGED el
  <2>1. /\ el' = [el EXCEPT ![x] = Send(Cleared(@, {"DESTROYED"}), "DESTROY")]
        /\ e.taskRun /\ HasRoom(e) /\ Waits(c, x, "deinit waits")
    BY <1>6 DEF DeinitTerminates
  <2>2. QED  BY <2>1, DestroySent
<1>7. \/ UNCHANGED el
      \/ el' = [el EXCEPT ![x] = Send(Cleared(@, {"PAUSED"}), "PAUSE")]
      \/ el' = [el EXCEPT ![x] = Send(@, "RESUME")]
      \/ el' = [el EXCEPT ![x] = Send(@, "STOP")]
      \/ el' = [el EXCEPT ![x] = StopRequest(@)]
      \/ DeinitFrees(c, x) \/ Terminate(c, x) \/ DeinitTerminates(c, x)
  <2>1. CASE Request(c, x)
    BY <2>1 DEF Request, AskRun, RunsAlready, Run, AskPause, PauseNotRun, PauseResting, Pause,
                AskResume, ResumeNotRun, ResumeRunning, ResumeError, ResumeFinished, Resume,
                AskStop, StopNotRun, StopStopped, Stop, WaitForStop, AskTerminate,
                TerminateNotRun, Deinit, Answers
  <2>2. CASE Completion(c, x)
    BY <2>2 DEF Completion, BitSeen, TimesOut, DeinitWaits
  <2>3. QED  BY <2>1, <2>2
<1>8. QED  BY <1>2, <1>3, <1>4, <1>5, <1>6, <1>7

\* Every step of a caller keeps the life of the task, when callers take turns.
LEMMA CallLife ==
  ASSUME EInv, NEW x \in Elements, NEW c \in Callers, Request(c, x) \/ Completion(c, x),
         Lone(x), Life(x), ~Timed, TakeTurns, TakeTurns'
  PROVE  Lone(x)' /\ Life(x)'
<1>1. CASE Run(c, x)
  BY <1>1, RunLife
<1>2. CASE CreateTask(c, x)
  BY <1>2, CreateLife
<1>3. CASE ~Run(c, x) /\ ~CreateTask(c, x)
  <2>1. PICK f : Sound(f) /\ Steered(el[x], f) /\ el' = [el EXCEPT ![x] = f]
    BY <1>3, CallStep DEF Steers
  <2>2. /\ el'[x].task = el[x].task /\ el'[x].taskRun = el[x].taskRun
        /\ el'[x].bits \subseteq el[x].bits
    BY <2>1 DEF EInv, Steered
  <2>3. api' = [api EXCEPT ![c] = api'[c]] /\ api \in [Callers -> CallType]
    BY CallFrame DEF EInv
  <2>4. api'[c].in # "create"
    <3> api \in [Callers -> CallType]
      BY DEF EInv
    <3>1. ASSUME NEW op, NEW ret, Returns(c, x, op, ret) PROVE api'[c].in = "nothing"
      BY <3>1 DEF Returns
    <3>2. ASSUME NEW op, Waits(c, x, op) PROVE api'[c].in = op
      BY <3>2 DEF Waits, CallType
    <3>3. CASE Request(c, x)
      <4>1. \/ \E op, ret : Returns(c, x, op, ret)
            \/ \E op \in {"pause", "wait", "terminate", "deinit stops"} : Waits(c, x, op)
        BY <1>3, <3>3
           DEF Request, AskRun, RunsAlready, AskPause, PauseNotRun, PauseResting, Pause,
               AskResume, ResumeNotRun, ResumeRunning, ResumeError, ResumeFinished, Resume,
               AskStop, StopNotRun, StopStopped, Stop, WaitForStop, AskTerminate,
               TerminateNotRun, Terminate, Deinit, Answers
      <4>2. QED  BY <3>1, <3>2, <4>1
    <3>4. CASE Completion(c, x)
      <4>1. \/ \E op, ret : Returns(c, x, op, ret)
            \/ \E op \in {"deinit waits", "deinit frees"} : Waits(c, x, op)
        BY <1>3, <3>4
           DEF Completion, BitSeen, TimesOut, DeinitTerminates, DeinitWaits, DeinitFrees
      <4>2. QED  BY <3>1, <3>2, <4>1
    <3>5. QED  BY <3>3, <3>4
  <2>5. /\ api[c].in = "run" => "CREATED" \in el[x].bits
        /\ api[c].in \in {"terminate", "deinit waits"} => "DESTROYED" \in el[x].bits
    <3>1. CASE Request(c, x)
      <4>1. api[c].in = "nothing"
        BY <3>1 DEF Request, AskRun, RunsAlready, Run, AskPause, PauseNotRun, PauseResting, Pause,
                    AskResume, ResumeNotRun, ResumeRunning, ResumeError, ResumeFinished, Resume,
                    AskStop, StopNotRun, StopStopped, Stop, WaitForStop, AskTerminate,
                    TerminateNotRun, Terminate, Deinit, Answers, Begins
      <4>2. QED  BY <4>1
    <3>2. CASE BitSeen(c, x)
      <4>1. AwaitedBit[api[c].in] \in el[x].bits
            /\ api[c].in \in {"run", "pause", "wait", "terminate"}
        BY <3>2, BitsAwaited DEF BitSeen
      <4>2. QED  BY <4>1, BitsAwaited
    <3>3. CASE DeinitTerminates(c, x) \/ DeinitWaits(c, x) \/ DeinitFrees(c, x)
      BY <3>3 DEF DeinitTerminates, DeinitWaits, DeinitFrees, In
    <3>4. QED  BY <1>3, <3>1, <3>2, <3>3 DEF Completion, TimesOut
  <2>6. Pending(el'[x]) => Pending(el[x]) \/ (el[x].taskRun /\ Dying(x)')
    BY <1>3, CallPending
  <2>7. QED  BY <2>2, <2>3, <2>4, <2>5, <2>6, CalmCall
<1>4. QED  BY <1>1, <1>2, <1>3

-----------------------------------------------------------------------------
\* No element has a task at first.
LEMMA InitLife == Init => \A x \in Elements : Lone(x) /\ Life(x)
<1> SUFFICES ASSUME Init, NEW x \in Elements PROVE Lone(x) /\ Life(x)
  OBVIOUS
<1>1. \A t \in Tasks : el[x].task[t] = "none"
  BY DEF Init, NewElement, Nowhere
<1>2. ~el[x].taskRun
  BY DEF Init, NewElement
<1>3. QED  BY <1>1, <1>2 DEF Lone, Life, At, Busy

\* Every step keeps the lives of the tasks.
LEMMA StepLife ==
  ASSUME ~Timed, ~BufferFails, LInv, TakeTurns, TakeTurns', [Next]_vars
  PROVE  LInv'
<1>1. CASE UNCHANGED vars
  <2>1. EInv'
    BY <1>1 DEF vars, LInv, EInv, Formed
  <2>2. \A x \in Elements : Lone(x)' /\ Life(x)'
    BY <1>1, SameLife DEF vars, LInv
  <2>3. QED  BY <2>1, <2>2 DEF LInv
<1>2. ASSUME Next PROVE \A y \in Elements : Lone(y)' /\ Life(y)'
  <2> SUFFICES ASSUME NEW y \in Elements PROVE Lone(y)' /\ Life(y)'
    OBVIOUS
  <2>1. ASSUME NEW x \in Elements, NEW t \in Tasks, Task(x, t)
        PROVE  Lone(y)' /\ Life(y)'
    <3>1. CASE y = x
      BY <2>1, <3>1, TaskLife DEF LInv
    <3>2. CASE y # x
      <4>1. UNCHANGED api /\ \A z \in Elements : z # x => el'[z] = el[z]
        BY <2>1 DEF Task, Handlers, TaskCreated, TaskBoots, Poll, OnError, OnFinish, OnStop, Halts,
             OnStopFinished, OnPause, Pauses, OnResumeRunning, OnResume, OpenSucceeds, Starts,
             OpenRefused, OnDestroy, SkipsProcess, EntersProcess, ResetState, Works, LeavesLoop,
             Ends, Become, LInv, EInv
      <4>2. QED  BY <3>2, <4>1, SameLife DEF LInv
    <3>3. QED  BY <3>1, <3>2
  <2>2. ASSUME NEW x \in Elements, NEW c \in Callers, Request(c, x) \/ Completion(c, x)
        PROVE  Lone(y)' /\ Life(y)'
    <3>1. CASE y = x
      BY <2>2, <3>1, CallLife DEF LInv
    <3>2. CASE y # x
      BY <2>2, <3>2, OtherLife DEF LInv
    <3>3. QED  BY <3>1, <3>2
  <2>3. QED  BY <1>2, <2>1, <2>2 DEF Next
<1>3. ASSUME Next PROVE LInv'
  <2>1. OneTask /\ OneTask'
    <3>1. (OneTask <=> \A x \in Elements : Lone(x))'
      BY LoneLemma, PTL
    <3>2. QED  BY <1>2, <1>3, <3>1, LoneLemma DEF LInv
  <2>2. EInv'
    BY <1>3, <2>1, StepEInv DEF LInv
  <2>3. QED  BY <1>2, <1>3, <2>2 DEF LInv
<1>4. QED  BY <1>1, <1>3

-----------------------------------------------------------------------------
(* What the invariant says of the element.                                 *)
LEMMA EInvDevice == EInv => DeviceInStep
<1> SUFFICES ASSUME EInv PROVE DeviceInStep
  OBVIOUS
<1>1. ASSUME NEW x \in Elements, NEW t \in Tasks, At(x, t, "open")
      PROVE  el[x].device = "closed"
  <2>1. Shape(el[x], "open") /\ el[x] \in ElementType
    BY <1>1 DEF At, EInv, Formed
  <2>2. QED  BY <2>1 DEF Shape, Living, Idling, ElementType
<1>2. ASSUME NEW x \in Elements, NEW t \in Tasks, At(x, t, "work"), el[x].state = "RUNNING"
      PROVE  el[x].device = "open"
  <2>1. Shape(el[x], "work")
    BY <1>2 DEF At, EInv, Formed
  <2>2. QED  BY <1>2, <2>1 DEF Shape, Living, Idling
<1>3. ASSUME NEW x \in Elements, Alive(x) = {}
      PROVE  el[x].device = "closed"
  <2>1. Shape(el[x], "none")
    BY <1>3 DEF Alive, EInv, Formed
  <2>2. QED  BY <2>1 DEF Shape, Gone
<1>4. QED  BY <1>1, <1>2, <1>3 DEF DeviceInStep, OpensClosed, ProcessesOpen, ClosedAtEnd

\* The invariant says what is checked of the flags.
LEMMA EInvFlags == EInv => FlagsInStep
<1> SUFFICES ASSUME EInv PROVE FlagsInStep
  OBVIOUS
<1>1. TypeOK
  BY DEF EInv, Sound, TypeOK
<1>2. ASSUME NEW x \in Elements, NEW t \in Tasks, Waiting(x, t)
      PROVE  /\ el[x].queue = <<>> /\ el[x].wait = "none"
                  => el[x].state = "RUNNING" /\ el[x].isOpen
             /\ el[x].isRunning <=> el[x].state = "RUNNING"
             /\ "STOPPED" \in el[x].bits => el[x].state # "RUNNING"
  <2>1. Shape(el[x], "loop")
    BY <1>2 DEF Waiting, At, EInv, Formed
  <2>2. QED  BY <2>1 DEF Shape, Living, Idling
<1>3. QED  BY <1>1, <1>2 DEF FlagsInStep, NoSpin, FlagsAgree, StoppedBitHolds

(* While an element has one task, open and close go with its life:         *)
(* audio_element_process_init never opens a device that is open, a running *)
(* element processes an open one, and a task leaves none open.  Any number *)
(* of callers, waits that run out, opens and buffers that fail.            *)
THEOREM DeviceKept == Spec /\ []OneTask => []DeviceInStep
<1>1. EInv /\ OneTask /\ OneTask' /\ [Next]_vars => EInv'
  BY StepEInv
<1>2. QED  BY InitEInv, <1>1, EInvDevice, PTL DEF Spec

(* While an element has one task, it polls its queue only over an open     *)
(* device, and between two commands is_running and STOPPED_BIT say what    *)
(* its state says, in any order of commands of any number of callers.      *)
THEOREM FlagsKept == Spec /\ []OneTask => []FlagsInStep
<1>1. EInv /\ OneTask /\ OneTask' /\ [Next]_vars => EInv'
  BY StepEInv
<1>2. QED  BY InitEInv, <1>1, EInvFlags, PTL DEF Spec

(* Where no wait runs out, the task gets its buffer and the callers of an  *)
(* element take turns, audio_element_run never starts a second task on an  *)
(* element that has one.                                                   *)
THEOREM NoSecondTask ==
  ASSUME ~Timed, ~BufferFails
  PROVE  Spec /\ []TakeTurns => []OneTask
<1>1. Init => LInv
  BY InitEInv, InitLife DEF LInv
<1>2. LInv /\ TakeTurns /\ TakeTurns' /\ [Next]_vars => LInv'
  BY StepLife
<1>3. LInv => OneTask
  BY LoneLemma DEF LInv
<1>4. QED  BY <1>1, <1>2, <1>3, PTL DEF Spec

(* So there its device and its flags stay in step without any assumption   *)
(* on its tasks.                                                           *)
THEOREM ElementInStep ==
  ASSUME ~Timed, ~BufferFails
  PROVE  Spec /\ []TakeTurns => [](OneTask /\ DeviceInStep /\ FlagsInStep)
  BY NoSecondTask, DeviceKept, FlagsKept, PTL
=============================================================================
