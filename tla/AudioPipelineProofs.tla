------------------------ MODULE AudioPipelineProofs ------------------------
(***************************************************************************)
(* Proofs about AudioPipeline, for a chain of any length, rings and a      *)
(* track of any size, and any functions called in any order.               *)
(*                                                                         *)
(* The elements of a pipeline are those of AudioElement, so that what is   *)
(* proved of those holds here (PipelineImplementsElements).  GInv is what  *)
(* always holds: the lives of the tasks, and the types of the flow.        *)
(*                                                                         *)
(* FirstInv is about a pipeline that was run and nothing else.  Launching  *)
(* says where audio_pipeline_run has come to and in which phase of its     *)
(* life that finds every element; Streaming says that the end of the       *)
(* stream goes down the chain element by element, behind the data, and     *)
(* what the chain holds is what was read.  What it holds is a function     *)
(* defined along the chain: its steps are found by induction on the        *)
(* numbers of the elements.                                                *)
(*                                                                         *)
(* QuitInv is about audio_pipeline_terminate: what it has left to ask, and *)
(* how many commands each element may hold by then, so that DESTROY finds  *)
(* room in every queue.                                                    *)
(***************************************************************************)
EXTENDS AudioPipeline, FiniteSetTheorems, SequenceTheorems, WellFoundedInduction, TLAPS

EP == INSTANCE AudioElementProofs
       WITH Elements <- Chain, Tasks <- {Task}, Callers <- {Caller}, Timed <- FALSE,
            BufferFails <- FALSE,
            Outcomes <- {"ok", "done", "abort", "input timeout"},
            Ops <- {"run", "resume", "pause", "stop", "wait", "terminate"},
            MaxCalls <- 10 * N * MaxOps

Place(e) == e.task[Task]

Absent(e) ==
  /\ Place(e) = "none" /\ ~e.taskRun /\ e.state = "INIT" /\ e.queue = <<>>
  /\ ~e.isOpen /\ ~e.isRunning

Coming(e) ==
  /\ Place(e) = "new" /\ ~e.taskRun /\ e.state = "INIT" /\ e.queue = <<>>
  /\ ~e.isOpen /\ ~e.isRunning /\ "CREATED" \notin e.bits

Ready(e, queue) ==
  /\ Place(e) \in {"boot", "loop"} /\ e.taskRun /\ e.state = "INIT" /\ e.queue = queue
  /\ ~e.isOpen /\ ~e.isRunning
  /\ Place(e) = "loop" => e.wait = "forever"

Opening(e) == Place(e) = "open" /\ e.state = "INIT" /\ e.queue = <<>> /\ e.isOpen
Running(e) ==
  /\ e.state = "RUNNING" /\ e.queue = <<>> /\ e.isOpen
  /\ \/ Place(e) = "opened"
     \/ Place(e) \in {"process", "work", "loop"} /\ e.wait = "none"
Leaving(e) ==
  /\ Place(e) = "loop" /\ e.state = "RUNNING"
  /\ e.queue = <<"FINISH">> \/ e.queue = <<"STOP">>
Resting(e) ==
  /\ Place(e) \in {"halt", "process", "loop"} /\ e.state \in {"FINISHED", "STOPPED"}
  /\ e.queue = <<>> /\ ~e.isOpen /\ e.wait = "forever"
Failing(e) ==
  Place(e) \in {"process", "loop"} /\ e.state = "INIT" /\ e.queue = <<"ERROR">>
Broken(e) ==
  /\ Place(e) \in {"process", "loop"} /\ e.state = "ERROR"
  /\ e.queue = <<>> /\ ~e.isOpen /\ e.wait = "forever"

Launched(e) ==
  /\ e.taskRun
  /\ Opening(e) \/ Running(e) \/ Leaving(e) \/ Resting(e) \/ Failing(e) \/ Broken(e)

Over(e) == e.queue = <<"FINISH">> \/ e.state = "FINISHED"
Stops(e) == e.queue = <<"STOP">> \/ e.state = "STOPPED"
Sick(e) == e.queue = <<"ERROR">> \/ e.state = "ERROR"
Same(e, f) == (Over(e) <=> Over(f)) /\ (Stops(e) <=> Stops(f)) /\ (Sick(e) <=> Sick(f))

LEMMA OneTail ==
  /\ \A c : <<c>> # <<>> /\ Head(<<c>>) = c /\ Tail(<<c>>) = <<>>
  /\ \A c, d : <<c>> = <<d>> => c = d
  OBVIOUS

\* Becoming a record at a place.
LEMMA BecomeAt ==
  ASSUME NEW x \in Chain, NEW f \in E!ElementType, NEW q, q \in E!Places,
         el \in [Chain -> E!ElementType], E!Become(x, E!Goto(f, Task, q))
  PROVE  /\ Place(el'[x]) = q
         /\ el'[x].state = f.state /\ el'[x].isOpen = f.isOpen
         /\ el'[x].isRunning = f.isRunning /\ el'[x].taskRun = f.taskRun
         /\ el'[x].wait = f.wait /\ el'[x].queue = f.queue /\ el'[x].bits = f.bits
         /\ el'[x] \in E!ElementType
         /\ \A y \in Chain : y # x => el'[y] = el[y]
         /\ el' \in [Chain -> E!ElementType]
         /\ UNCHANGED <<api, calls>>
<1> DEFINE k == [f.task EXCEPT ![Task] = q]
           g == [f EXCEPT !.task = k]
<1>1. k \in [{Task} -> E!Places] /\ k[Task] = q
  BY DEF E!ElementType
<1>2. el' = [el EXCEPT ![x] = g] /\ UNCHANGED <<api, calls>>
  BY DEF E!Become, E!Goto
<1> HIDE DEF k
<1>3. /\ g.task = k /\ g.queue = f.queue /\ g.bits = f.bits /\ g.taskRun = f.taskRun
      /\ g.state = f.state /\ g.isOpen = f.isOpen /\ g.isRunning = f.isRunning
      /\ g.wait = f.wait /\ g \in E!ElementType
  BY <1>1 DEF E!ElementType
<1> HIDE DEF g
<1>4. el'[x] = g /\ \A y \in Chain : y # x => el'[y] = el[y]
  BY <1>2
<1>5. el' \in [Chain -> E!ElementType]
  BY <1>2, <1>3
<1>6. QED  BY <1>1, <1>2, <1>3, <1>4, <1>5 DEF Place

LEMMA TaskCreatedAt ==
  ASSUME NEW x \in Chain, el \in [Chain -> E!ElementType], E!TaskCreated(x, Task), Coming(el[x])
  PROVE  Ready(el'[x], <<>>)
<1> DEFINE f == [el[x] EXCEPT !.taskRun = TRUE, !.bits = @ \cup {"CREATED"}]
<1>1. E!Become(x, E!Goto(f, Task, "boot"))
  BY DEF E!TaskCreated
<1>2. f \in E!ElementType /\ f.taskRun /\ f.state = el[x].state /\ f.queue = el[x].queue
      /\ f.isOpen = el[x].isOpen /\ f.isRunning = el[x].isRunning
  BY ZenonT(40) DEF E!ElementType, E!Bits
<1> HIDE DEF f
<1>3. QED  BY <1>1, <1>2, BecomeAt DEF Ready, Coming, E!Places

LEMMA TaskBootsAt ==
  ASSUME NEW x \in Chain, el \in [Chain -> E!ElementType], E!TaskBoots(x, Task),
         NEW q, Ready(el[x], q)
  PROVE  Ready(el'[x], q)
<1> DEFINE f == [el[x] EXCEPT !.state = "INIT", !.wait = "forever", !.taskRun = TRUE,
                              !.bits = @ \ {"STOPPED"}]
<1>1. E!Become(x, E!Goto(f, Task, "loop"))
  BY DEF E!TaskBoots
<1>2. f \in E!ElementType
  <2>1. el[x] \in E!ElementType /\ el[x].bits \ {"STOPPED"} \in SUBSET E!Bits
    BY DEF E!ElementType
  <2>2. QED  BY <2>1 DEF E!ElementType, E!States
<1>4. f.taskRun /\ f.state = "INIT" /\ f.queue = el[x].queue
      /\ f.isOpen = el[x].isOpen /\ f.isRunning = el[x].isRunning /\ f.wait = "forever"
  BY DEF E!ElementType
<1> HIDE DEF f
<1>3. QED  BY <1>1, <1>2, <1>4, BecomeAt DEF Ready, E!Places

\* The command an element receives when its queue holds one.
LEMMA ReceivedAt ==
  ASSUME NEW x \in Chain, el \in [Chain -> E!ElementType], NEW cmd, E!Receives(x, Task, cmd),
         NEW c, el[x].queue = <<c>>
  PROVE  LET r == E!Received(x) IN
         /\ c = cmd /\ Place(el[x]) = "loop" /\ el[x].taskRun
         /\ r \in E!ElementType /\ r.queue = <<>> /\ r.taskRun = el[x].taskRun
         /\ r.state = el[x].state /\ r.wait = el[x].wait /\ r.isOpen = el[x].isOpen
         /\ r.isRunning = el[x].isRunning /\ r.bits = el[x].bits
<1> DEFINE e == el[x]
           r == E!Received(x)
<1>1. e \in E!ElementType
  OBVIOUS
<1>2. Tail(e.queue) = <<>> /\ Head(e.queue) = c
  BY OneTail
<1>3. c = cmd /\ Place(e) = "loop" /\ e.taskRun
  BY <1>2 DEF E!Receives, E!At, Place
<1>4. r = [e EXCEPT !.queue = <<>>]
  BY <1>2 DEF E!Received
<1> HIDE DEF r, e
<1>5. /\ r \in E!ElementType /\ r.queue = <<>> /\ r.taskRun = e.taskRun
      /\ r.state = e.state /\ r.wait = e.wait /\ r.isOpen = e.isOpen
      /\ r.isRunning = e.isRunning /\ r.bits = e.bits
  <2>1. <<>> \in Seq(E!Cmds)
    OBVIOUS
  <2>2. QED  BY <1>1, <1>4, <2>1 DEF E!ElementType
<1>6. QED  BY <1>3, <1>5 DEF r, e

LEMMA ClosedAt ==
  ASSUME NEW e \in E!ElementType
  PROVE  LET d == E!Closed(e) IN
         /\ d \in E!ElementType /\ ~d.isOpen /\ d.queue = e.queue /\ d.taskRun = e.taskRun
         /\ d.state = e.state /\ d.wait = e.wait /\ d.isRunning = e.isRunning /\ d.bits = e.bits
  BY DEF E!Closed, E!ElementType

LEMMA SendAt ==
  ASSUME NEW e \in E!ElementType, NEW cmd \in E!Cmds, e.queue = <<>>
  PROVE  LET s == E!Send(e, cmd) IN
         /\ s \in E!ElementType /\ s.queue = <<cmd>> /\ s.taskRun = e.taskRun
         /\ s.state = e.state /\ s.wait = e.wait /\ s.isOpen = e.isOpen
         /\ s.isRunning = e.isRunning /\ s.bits = e.bits
<1>1. E!HasRoom(e)
  BY SizesAssumption DEF E!HasRoom
<1>2. Append(e.queue, cmd) = <<cmd>> /\ <<cmd>> \in Seq(E!Cmds)
  OBVIOUS
<1>3. E!Send(e, cmd) = [e EXCEPT !.queue = <<cmd>>]
  BY <1>1, <1>2 DEF E!Send
<1>4. QED  BY <1>2, <1>3 DEF E!ElementType

LEMMA OnErrorAt ==
  ASSUME NEW x \in Chain, el \in [Chain -> E!ElementType], E!OnError(x, Task),
         Ready(el[x], <<>>) \/ Ready(el[x], <<"RESUME">>) \/ Launched(el[x])
  PROVE  Failing(el[x]) /\ Launched(el'[x]) /\ Same(el[x], el'[x])
<1> DEFINE e == el[x]
           r == E!Received(x)
           d == E!Closed(r)
           f == [d EXCEPT !.state = "ERROR", !.wait = "forever", !.isRunning = FALSE,
                          !.bits = @ \cup {"STOPPED"}]
<1>1. E!Receives(x, Task, "ERROR") /\ E!Become(x, E!Goto(f, Task, "process"))
  BY DEF E!OnError
<1>2. e.queue # <<>> /\ Head(e.queue) = "ERROR" /\ e.taskRun
  BY <1>1 DEF E!Receives
<1>3. Failing(e)
  BY <1>2, OneTail DEF Ready, Launched, Opening, Running, Leaving, Resting, Failing, Broken
<1>4. /\ r \in E!ElementType /\ r.queue = <<>> /\ r.taskRun = e.taskRun
      /\ r.state = e.state /\ r.bits = e.bits
  BY <1>1, <1>3, ReceivedAt DEF Failing
<1>5. d \in E!ElementType /\ ~d.isOpen /\ d.queue = <<>> /\ d.taskRun = e.taskRun
  BY <1>4, ClosedAt
<1> HIDE DEF r, d
<1>6. f \in E!ElementType
  <2>1. d.bits \cup {"STOPPED"} \in SUBSET E!Bits
    BY <1>5 DEF E!ElementType, E!Bits
  <2>2. QED  BY <1>5, <2>1 DEF E!ElementType, E!States
<1>7. f.taskRun = e.taskRun /\ f.state = "ERROR" /\ f.queue = <<>> /\ ~f.isOpen
      /\ f.wait = "forever"
  BY <1>5 DEF E!ElementType
<1> HIDE DEF f, e
<1>8. Broken(el'[x]) /\ el'[x].taskRun /\ el'[x].state = "ERROR"
  BY <1>1, <1>2, <1>6, <1>7, BecomeAt DEF Broken, E!Places
<1>9. QED  BY <1>2, <1>3, <1>8, OneTail DEF Failing, Broken, Launched, Same, Over, Stops, Sick, e

\* Where an element of the first run is.
FirstRun(e) == Ready(e, <<>>) \/ Ready(e, <<"RESUME">>) \/ Launched(e)

LEMMA OnHaltAt ==
  ASSUME NEW x \in Chain, el \in [Chain -> E!ElementType], FirstRun(el[x]),
         E!OnFinish(x, Task) \/ E!OnStop(x, Task)
  PROVE  Leaving(el[x]) /\ Launched(el'[x]) /\ Same(el[x], el'[x])
<1> DEFINE e == el[x]
           r == E!Received(x)
           d == E!Closed(r)
           f(s) == [d EXCEPT !.state = s, !.wait = "forever", !.bits = @ \cup {"STOPPED"}]
<1>1. PICK s \in {"FINISHED", "STOPPED"}, cmd \in {"FINISH", "STOP"} :
        /\ E!Receives(x, Task, cmd) /\ E!Become(x, E!Goto(f(s), Task, "halt"))
        /\ s = "FINISHED" <=> cmd = "FINISH"
        /\ cmd = "STOP" => e.state # "FINISHED"
  BY DEF E!OnFinish, E!OnStop
<1>2. e.queue # <<>> /\ Head(e.queue) = cmd /\ e.taskRun
  BY <1>1 DEF E!Receives
<1>3. Leaving(e) /\ e.queue = <<cmd>>
  BY <1>2, OneTail
     DEF FirstRun, Ready, Launched, Opening, Running, Leaving, Resting, Failing, Broken
<1>4. /\ r \in E!ElementType /\ r.queue = <<>> /\ r.taskRun = e.taskRun
      /\ r.state = e.state /\ r.bits = e.bits
  BY <1>1, <1>3, ReceivedAt
<1>5. d \in E!ElementType /\ ~d.isOpen /\ d.queue = <<>> /\ d.taskRun = e.taskRun
  BY <1>4, ClosedAt
<1> HIDE DEF r, d
<1>6. f(s) \in E!ElementType
  <2>1. d.bits \cup {"STOPPED"} \in SUBSET E!Bits
    BY <1>5 DEF E!ElementType, E!Bits
  <2>2. QED  BY <1>5, <2>1 DEF E!ElementType, E!States
<1>7. f(s).taskRun = e.taskRun /\ f(s).state = s /\ f(s).queue = <<>> /\ ~f(s).isOpen
      /\ f(s).wait = "forever"
  BY <1>5 DEF E!ElementType
<1> HIDE DEF f, e
<1>8. Resting(el'[x]) /\ el'[x].taskRun /\ el'[x].state = s /\ el'[x].queue = <<>>
  BY <1>1, <1>2, <1>6, <1>7, BecomeAt DEF Resting, E!Places
<1>9. Launched(el'[x])
  BY <1>8 DEF Launched
<1>10. Same(e, el'[x])
  BY <1>1, <1>3, <1>8, OneTail DEF Leaving, Same, Over, Stops, Sick
<1>11. QED  BY <1>3, <1>9, <1>10 DEF e

LEMMA OnResumeAt ==
  ASSUME NEW x \in Chain, el \in [Chain -> E!ElementType], FirstRun(el[x]), E!OnResume(x, Task)
  PROVE  /\ Ready(el[x], <<"RESUME">>) /\ Opening(el'[x]) /\ el'[x].taskRun
         /\ Same(el[x], el'[x])
<1> DEFINE e == el[x]
           r == E!Received(x)
           f == [r EXCEPT !.isOpen = TRUE]
<1>1. E!Receives(x, Task, "RESUME") /\ E!Become(x, E!Goto(f, Task, "open"))
  BY DEF E!OnResume
<1>2. e.queue # <<>> /\ Head(e.queue) = "RESUME" /\ e.taskRun
  BY <1>1 DEF E!Receives
<1>3. Ready(e, <<"RESUME">>)
  BY <1>2, OneTail
     DEF FirstRun, Ready, Launched, Opening, Running, Leaving, Resting, Failing, Broken
<1>4. /\ r \in E!ElementType /\ r.queue = <<>> /\ r.taskRun = e.taskRun /\ r.state = e.state
  BY <1>1, <1>3, ReceivedAt DEF Ready
<1> HIDE DEF r
<1>5. f \in E!ElementType
  BY <1>4 DEF E!ElementType
<1>6. f.taskRun = e.taskRun /\ f.state = "INIT" /\ f.queue = <<>> /\ f.isOpen
  BY <1>3, <1>4 DEF E!ElementType, Ready
<1> HIDE DEF f, e
<1>7. Opening(el'[x]) /\ el'[x].taskRun
  BY <1>1, <1>2, <1>5, <1>6, BecomeAt DEF Opening, E!Places
<1>8. Same(e, el'[x])
  BY <1>3, <1>7, OneTail DEF Opening, Ready, Same, Over, Stops, Sick
<1>9. QED  BY <1>3, <1>7, <1>8 DEF e

LEMMA OpenSucceedsAt ==
  ASSUME NEW x \in Chain, el \in [Chain -> E!ElementType], FirstRun(el[x]),
         E!OpenSucceeds(x, Task)
  PROVE  Launched(el[x]) /\ Launched(el'[x]) /\ Same(el[x], el'[x])
<1> DEFINE e == el[x]
           f == [e EXCEPT !.device = "open", !.state = "RUNNING", !.bits = @ \cup {"STARTED"}]
<1>1. Place(e) = "open" /\ E!Become(x, E!Goto(f, Task, "opened")) /\ e \in E!ElementType
  BY DEF E!OpenSucceeds, E!At, Place
<1>2. Opening(e) /\ e.taskRun
  BY <1>1 DEF FirstRun, Ready, Launched, Opening, Running, Leaving, Resting, Failing, Broken
<1> HIDE DEF e
<1>3. f \in E!ElementType
  <2>1. e.bits \cup {"STARTED"} \in SUBSET E!Bits
    BY <1>1 DEF E!ElementType, E!Bits
  <2>2. QED  BY <1>1, <2>1 DEF E!ElementType, E!States
<1>4. f.taskRun = e.taskRun /\ f.state = "RUNNING" /\ f.queue = e.queue /\ f.isOpen = e.isOpen
  BY <1>1 DEF E!ElementType
<1> HIDE DEF f
<1>5. Running(el'[x]) /\ el'[x].taskRun
  BY <1>1, <1>2, <1>3, <1>4, BecomeAt DEF Opening, Running, E!Places
<1>6. Same(e, el'[x])
  BY <1>2, <1>5, OneTail DEF Opening, Running, Same, Over, Stops, Sick
<1>7. QED  BY <1>2, <1>5, <1>6 DEF Launched, e

LEMMA StartsAt ==
  ASSUME NEW x \in Chain, el \in [Chain -> E!ElementType], FirstRun(el[x]), E!Starts(x, Task)
  PROVE  Launched(el[x]) /\ Launched(el'[x]) /\ Same(el[x], el'[x])
<1> DEFINE e == el[x]
           f == [e EXCEPT !.wait = "none", !.isRunning = TRUE, !.bits = @ \ {"STOPPED"}]
<1>1. Place(e) = "opened" /\ E!Become(x, E!Goto(f, Task, "process")) /\ e \in E!ElementType
  BY DEF E!Starts, E!At, Place
<1>2. Running(e) /\ e.taskRun
  BY <1>1 DEF FirstRun, Ready, Launched, Opening, Running, Leaving, Resting, Failing, Broken
<1> HIDE DEF e
<1>3. f \in E!ElementType
  <2>1. e.bits \ {"STOPPED"} \in SUBSET E!Bits
    BY <1>1 DEF E!ElementType
  <2>2. QED  BY <1>1, <2>1 DEF E!ElementType
<1>4. f.taskRun = e.taskRun /\ f.state = e.state /\ f.queue = e.queue /\ f.isOpen = e.isOpen
      /\ f.wait = "none"
  BY <1>1 DEF E!ElementType
<1> HIDE DEF f
<1>5. Running(el'[x]) /\ el'[x].taskRun
  BY <1>1, <1>2, <1>3, <1>4, BecomeAt DEF Running, E!Places
<1>6. Same(e, el'[x])
  BY <1>2, <1>5, OneTail DEF Running, Same, Over, Stops, Sick
<1>7. QED  BY <1>2, <1>5, <1>6 DEF Launched, e

LEMMA OpenRefusedAt ==
  ASSUME NEW x \in Chain, el \in [Chain -> E!ElementType], FirstRun(el[x]),
         E!OpenRefused(x, Task)
  PROVE  /\ Launched(el[x]) /\ Launched(el'[x])
         /\ (Over(el[x]) <=> Over(el'[x])) /\ (Stops(el[x]) <=> Stops(el'[x]))
         /\ ~Sick(el[x]) /\ Sick(el'[x])
<1> DEFINE e == el[x]
           f == E!Send(e, "ERROR")
<1>1. Place(e) = "open" /\ E!Become(x, E!Goto(f, Task, "process")) /\ e \in E!ElementType
  BY DEF E!OpenRefused, E!At, Place
<1>2. Opening(e) /\ e.taskRun
  BY <1>1 DEF FirstRun, Ready, Launched, Opening, Running, Leaving, Resting, Failing, Broken
<1> HIDE DEF e
<1>3. /\ f \in E!ElementType /\ f.queue = <<"ERROR">> /\ f.taskRun = e.taskRun
      /\ f.state = e.state
  BY <1>1, <1>2, SendAt DEF Opening, E!Cmds
<1> HIDE DEF f
<1>4. Failing(el'[x]) /\ el'[x].taskRun
  BY <1>1, <1>2, <1>3, BecomeAt, ZenonT(40) DEF Opening, Failing, E!Places
<1>5. QED  BY <1>2, <1>4, OneTail DEF Launched, e, Opening, Failing, Over, Stops, Sick

\* The steps that change its place and nothing the phases look at.
LEMMA QuietAt ==
  ASSUME NEW x \in Chain, el \in [Chain -> E!ElementType], FirstRun(el[x]),
         \/ E!Poll(x, Task) \/ E!Halts(x, Task) \/ E!SkipsProcess(x, Task)
         \/ E!EntersProcess(x, Task)
  PROVE  /\ Launched(el[x]) /\ Launched(el'[x]) /\ Same(el[x], el'[x])
         /\ E!EntersProcess(x, Task) => Running(el[x])
<1> DEFINE e == el[x]
           h == [e EXCEPT !.isRunning = FALSE]
<1>1. PICK f \in {e, h}, q \in {"process", "loop", "work"} : E!Become(x, E!Goto(f, Task, q))
  BY DEF E!Poll, E!Halts, E!SkipsProcess, E!EntersProcess
<1>2. /\ f \in E!ElementType /\ f.taskRun = e.taskRun /\ f.state = e.state /\ f.queue = e.queue
      /\ f.isOpen = e.isOpen /\ f.wait = e.wait
  <2>1. e \in E!ElementType
    OBVIOUS
  <2> HIDE DEF e
  <2>2. /\ h \in E!ElementType /\ h.taskRun = e.taskRun /\ h.state = e.state
        /\ h.queue = e.queue /\ h.isOpen = e.isOpen /\ h.wait = e.wait
    BY <2>1 DEF E!ElementType
  <2> HIDE DEF h
  <2>3. QED  BY <1>1, <2>1, <2>2
<1> HIDE DEF h
<1>3. /\ Place(el'[x]) = q /\ el'[x].state = e.state /\ el'[x].isOpen = e.isOpen
      /\ el'[x].taskRun = e.taskRun /\ el'[x].wait = e.wait /\ el'[x].queue = e.queue
  <2>1. q \in E!Places
    BY <1>1 DEF E!Places
  <2>2. QED  BY <1>1, <1>2, <2>1, BecomeAt
<1>4. Same(e, el'[x])
  BY <1>3 DEF Same, Over, Stops, Sick
<1>5. CASE E!Poll(x, Task)
  <2>1. Place(e) = "loop" /\ e.queue = <<>> /\ e.wait = "none" /\ Place(el'[x]) = "process"
    <3>1. E!Become(x, E!Goto(e, Task, "process"))
      BY <1>5 DEF E!Poll
    <3>2. "process" \in E!Places /\ e \in E!ElementType
      BY DEF E!Places
    <3>3. QED  BY <1>5, <3>1, <3>2, BecomeAt DEF E!Poll, E!At, Place
  <2>2. Running(e) /\ e.taskRun
    BY <2>1, OneTail DEF FirstRun, Ready, Launched, Opening, Running, Leaving, Resting, Failing, Broken
  <2>3. Running(el'[x]) /\ el'[x].taskRun
    BY <1>3, <2>1, <2>2 DEF Running
  <2>4. QED  BY <1>4, <2>1, <2>2, <2>3 DEF Launched, E!EntersProcess, E!At, Place
<1>6. CASE E!Halts(x, Task)
  <2>1. Place(e) = "halt" /\ Place(el'[x]) = "process"
    <3>1. E!Become(x, E!Goto(h, Task, "process"))
      BY <1>6 DEF E!Halts, h
    <3>2. "process" \in E!Places /\ h \in E!ElementType
      <4>1. e \in E!ElementType
        OBVIOUS
      <4> HIDE DEF e
      <4>2. QED  BY <4>1 DEF h, E!ElementType, E!Places
    <3>3. QED  BY <1>6, <3>1, <3>2, BecomeAt DEF E!Halts, E!At, Place
  <2>2. Resting(e) /\ e.taskRun
    BY <2>1 DEF FirstRun, Ready, Launched, Opening, Running, Leaving, Resting, Failing, Broken
  <2>3. Resting(el'[x]) /\ el'[x].taskRun
    BY <1>3, <2>1, <2>2 DEF Resting
  <2>4. QED  BY <1>4, <2>1, <2>2, <2>3 DEF Launched, E!EntersProcess, E!At, Place
<1>7. CASE E!SkipsProcess(x, Task)
  <2>1. /\ Place(e) = "process" /\ Place(el'[x]) = "loop"
        /\ e.state = "INIT" \/ ~e.isOpen
    <3>1. E!Become(x, E!Goto(e, Task, "loop"))
      BY <1>7 DEF E!SkipsProcess
    <3>2. "loop" \in E!Places /\ e \in E!ElementType
      BY DEF E!Places
    <3>3. QED  BY <1>7, <3>1, <3>2, BecomeAt DEF E!SkipsProcess, E!At, Place
  <2>2. (Resting(e) \/ Failing(e) \/ Broken(e)) /\ e.taskRun
    BY <2>1 DEF FirstRun, Ready, Launched, Opening, Running, Leaving, Resting, Failing, Broken
  <2>3. (Resting(el'[x]) \/ Failing(el'[x]) \/ Broken(el'[x])) /\ el'[x].taskRun
    BY <1>3, <2>1, <2>2 DEF Resting, Failing, Broken
  <2>4. ~E!EntersProcess(x, Task)
    BY <2>1 DEF E!EntersProcess, E!Started
  <2>5. QED  BY <1>4, <2>2, <2>3, <2>4 DEF Launched
<1>8. CASE E!EntersProcess(x, Task)
  <2>1. /\ Place(e) = "process" /\ Place(el'[x]) = "work"
        /\ e.state # "INIT" /\ e.isOpen
    <3>1. E!Become(x, E!Goto(e, Task, "work"))
      BY <1>8 DEF E!EntersProcess
    <3>2. "work" \in E!Places /\ e \in E!ElementType
      BY DEF E!Places
    <3>3. QED  BY <1>8, <3>1, <3>2, BecomeAt DEF E!EntersProcess, E!At, Place, E!Started
  <2>2. Running(e) /\ e.taskRun
    BY <2>1 DEF FirstRun, Ready, Launched, Opening, Running, Leaving, Resting, Failing, Broken
  <2>3. Running(el'[x]) /\ el'[x].taskRun
    BY <1>3, <2>1, <2>2 DEF Running
  <2>4. QED  BY <1>4, <2>2, <2>3 DEF Launched
<1>9. QED  BY <1>5, <1>6, <1>7, <1>8

Outs == {"ok", "done", "abort", "input timeout"}

LEMMA WorksAt ==
  ASSUME NEW x \in Chain, el \in [Chain -> E!ElementType], FirstRun(el[x]),
         NEW o \in Outs, E!Works(x, Task, o)
  PROVE  /\ Running(el[x]) /\ el[x].taskRun /\ Place(el[x]) = "work"
         /\ Launched(el'[x]) /\ Place(el'[x]) = "loop" /\ ~Sick(el'[x])
         /\ Over(el'[x]) <=> o = "done"
         /\ Stops(el'[x]) <=> o = "abort"
<1> DEFINE e == el[x]
           f == E!AfterProcess(e, o)
<1>1. Place(e) \in {"work", "reset"} /\ E!Become(x, E!Goto(f, Task, "loop")) /\ e \in E!ElementType
  BY DEF E!Works, E!At, Place
<1>2. Running(e) /\ e.taskRun /\ Place(e) = "work"
  BY <1>1 DEF FirstRun, Ready, Launched, Opening, Running, Leaving, Resting, Failing, Broken
<1> HIDE DEF e
<1>3. e.state = "RUNNING" /\ e.queue = <<>> /\ e.isOpen /\ e.wait = "none"
  BY <1>2 DEF Running
<1>4. CASE o \in {"ok", "input timeout"}
  <2>1. f = e
    BY <1>4 DEF E!AfterProcess
  <2>2. Running(el'[x]) /\ el'[x].taskRun /\ Place(el'[x]) = "loop"
    BY <1>1, <1>2, <1>3, <2>1, BecomeAt DEF Running, E!Places
  <2>3. QED  BY <1>2, <1>4, <2>2, OneTail DEF Launched, Running, Over, Stops, Sick, e
<1>5. CASE o = "done"
  <2>1. f = E!Send(e, "FINISH")
    BY <1>3, <1>5 DEF E!AfterProcess
  <2>2. f \in E!ElementType /\ f.queue = <<"FINISH">> /\ f.state = "RUNNING" /\ f.taskRun
    BY <1>1, <1>2, <1>3, <2>1, SendAt DEF E!Cmds
  <2> HIDE DEF f
  <2>3. Leaving(el'[x]) /\ el'[x].taskRun /\ el'[x].queue = <<"FINISH">>
    BY <1>1, <2>2, BecomeAt DEF Leaving, E!Places
  <2>4. QED  BY <1>2, <1>5, <2>3, OneTail DEF Launched, Leaving, Over, Stops, Sick, e
<1>6. CASE o = "abort"
  <2>1. f = E!Send(e, "STOP")
    BY <1>2, <1>3, <1>6 DEF E!AfterProcess, E!StopRequest
  <2>2. f \in E!ElementType /\ f.queue = <<"STOP">> /\ f.state = "RUNNING" /\ f.taskRun
    BY <1>1, <1>2, <1>3, <2>1, SendAt DEF E!Cmds
  <2> HIDE DEF f
  <2>3. Leaving(el'[x]) /\ el'[x].taskRun /\ el'[x].queue = <<"STOP">>
    BY <1>1, <2>2, BecomeAt DEF Leaving, E!Places
  <2>4. QED  BY <1>2, <1>6, <2>3, OneTail DEF Launched, Leaving, Over, Stops, Sick, e
<1>7. QED  BY <1>4, <1>5, <1>6 DEF Outs

\* The steps an element of the first run never takes.
Foreign(x) ==
  \/ E!OnStopFinished(x, Task) \/ E!OnPause(x, Task) \/ E!Pauses(x, Task)
  \/ E!OnResumeRunning(x, Task) \/ E!OnDestroy(x, Task) \/ E!LeavesLoop(x, Task)
  \/ E!Ends(x, Task)

LEMMA NotForeign ==
  ASSUME NEW x \in Chain, FirstRun(el[x]) \/ Absent(el[x]) \/ Coming(el[x]), Foreign(x)
  PROVE  FALSE
<1> DEFINE e == el[x]
<1>1. CASE E!OnStopFinished(x, Task) \/ E!OnPause(x, Task) \/ E!OnResumeRunning(x, Task)
           \/ E!OnDestroy(x, Task)
  <2>1. /\ Place(e) = "loop" /\ e.queue # <<>>
        /\ \/ Head(e.queue) = "STOP" /\ e.state = "FINISHED"
           \/ Head(e.queue) = "PAUSE" \/ Head(e.queue) = "DESTROY"
           \/ Head(e.queue) = "RESUME" /\ e.state = "RUNNING"
    BY <1>1 DEF E!OnStopFinished, E!OnPause, E!OnResumeRunning, E!OnDestroy, E!Receives, E!At, Place
  <2>2. QED  BY <2>1, OneTail DEF FirstRun, Ready, Launched, Opening, Running, Leaving, Resting,
                               Failing, Broken, Absent, Coming
<1>2. CASE E!Pauses(x, Task) \/ E!Ends(x, Task) \/ E!LeavesLoop(x, Task)
  <2>1. Place(e) \in {"pausing", "closing"} \/ (Place(e) = "loop" /\ ~e.taskRun)
    BY <1>2 DEF E!Pauses, E!Ends, E!LeavesLoop, E!At, Place
  <2>2. QED  BY <2>1 DEF FirstRun, Ready, Launched, Opening, Running, Leaving, Resting,
                               Failing, Broken, Absent, Coming
<1>3. QED  BY <1>1, <1>2 DEF Foreign

\* An element without a task takes no step, a new one only its first.
LEMMA NoTaskNoStep ==
  ASSUME NEW x \in Chain, Place(el[x]) \in {"none", "new"}
  PROVE  /\ ~ReadSource(x) /\ ~ReadRing(x) /\ ~StarvedGoesOn(x) /\ ~Play(x) /\ ~WriteRing(x)
         /\ ~OnError(x) /\ ~OnStop(x) /\ ~OnResume(x)
         /\ Quiet(x) => E!TaskCreated(x, Task) /\ Place(el[x]) = "new"
  BY DEF ReadSource, ReadRing, StarvedGoesOn, Play, WriteRing, OnError, OnStop, OnResume, Quiet,
         Reads, Writes, Working, E!At, Place, E!OnError, E!OnStop, E!OnResume, E!Receives,
         E!TaskCreated, E!TaskBoots, E!Poll, E!OnFinish, E!Halts, E!OnStopFinished,
         E!OnPause, E!Pauses, E!OnResumeRunning, E!OpenSucceeds, E!Starts, E!OpenRefused,
         E!OnDestroy, E!LeavesLoop, E!Ends, E!SkipsProcess, E!EntersProcess

(* The elements of a pipeline are those of AudioElement and of its proofs. *)
LEMMA Assumptions ==
  EP!SetsAssumption /\ EP!QueueAssumption /\ EP!KindsAssumption
<1>1. IsFiniteSet(Chain) /\ IsFiniteSet({Task}) /\ Chain # {}
  <2>1. N \in Int /\ 1 \in Int /\ 1 \in Chain
    BY ChainAssumption DEF Chain
  <2>2. IsFiniteSet(1 .. N)
    BY <2>1, FS_Interval
  <2>3. QED  BY <2>1, <2>2, FS_Singleton DEF Chain
<1>2. EP!SetsAssumption
  BY <1>1 DEF EP!IsFiniteSet, IsFiniteSet
<1>3. EP!QueueAssumption
  BY SizesAssumption
<1>4. EP!KindsAssumption
  BY DEF EP!AllOutcomes, EP!AllOps
<1>5. QED  BY <1>2, <1>3, <1>4

LEMMA SameNext == E!Next => EP!Next
  BY DEF E!Next, EP!Next,
         E!States, EP!States, E!Started, EP!Started, E!Resting, EP!Resting, E!HasRoom, EP!HasRoom, E!Send, EP!Send, E!Emptied, EP!Emptied,
         E!Cleared, EP!Cleared, E!Closed, EP!Closed, E!Goto, EP!Goto, E!StopRequest,
         EP!StopRequest, E!ResumeRequest, EP!ResumeRequest, E!At, EP!At, E!Become, EP!Become,
         E!TaskCreated, EP!TaskCreated, E!TaskBoots, EP!TaskBoots, E!Poll, EP!Poll,
         E!Receives, EP!Receives, E!Received, EP!Received, E!OnError, EP!OnError, E!OnFinish,
         EP!OnFinish, E!OnStop, EP!OnStop, E!Halts, EP!Halts, E!OnStopFinished,
         EP!OnStopFinished, E!OnPause, EP!OnPause, E!Pauses, EP!Pauses, E!OnResumeRunning,
         EP!OnResumeRunning, E!OnResume, EP!OnResume, E!OpenSucceeds, EP!OpenSucceeds,
         E!Starts, EP!Starts, E!OpenRefused, EP!OpenRefused, E!OnDestroy, EP!OnDestroy,
         E!SkipsProcess, EP!SkipsProcess, E!EntersProcess, EP!EntersProcess, E!AfterProcess,
         EP!AfterProcess, E!ResetState, EP!ResetState, E!Works, EP!Works, E!LeavesLoop,
         EP!LeavesLoop, E!Ends, EP!Ends, E!Begins, EP!Begins, E!Returns, EP!Returns, E!Waits,
         EP!Waits, E!In, EP!In, E!Answers, EP!Answers, E!RunsAlready, EP!RunsAlready, E!Run,
         EP!Run, E!CreateTask, EP!CreateTask, E!PauseNotRun, EP!PauseNotRun, E!PauseResting,
         EP!PauseResting, E!Pause, EP!Pause, E!ResumeNotRun, EP!ResumeNotRun, E!ResumeRunning,
         EP!ResumeRunning, E!ResumeError, EP!ResumeError, E!ResumeFinished, EP!ResumeFinished,
         E!Resume, EP!Resume, E!StopNotRun, EP!StopNotRun, E!StopStopped, EP!StopStopped,
         E!Stop, EP!Stop, E!WaitForStop, EP!WaitForStop, E!TerminateNotRun,
         EP!TerminateNotRun, E!Terminate, EP!Terminate, E!Deinit, EP!Deinit,
         E!DeinitTerminates, EP!DeinitTerminates, E!DeinitWaits, EP!DeinitWaits,
         E!DeinitFrees, EP!DeinitFrees, E!AwaitedBit, EP!AwaitedBit, E!BitSeen, EP!BitSeen,
         E!TimesOut, EP!TimesOut, E!Handlers, EP!Handlers, E!Task, EP!Task, E!AskRun,
         EP!AskRun, E!AskPause, EP!AskPause, E!AskResume, EP!AskResume, E!AskStop, EP!AskStop,
         E!AskTerminate, EP!AskTerminate, E!Request, EP!Request, E!Completion, EP!Completion

LEMMA SameInit == E!Init => EP!Init
  BY DEF E!Init, EP!Init, E!NewElement, EP!NewElement, E!Nowhere, EP!Nowhere

LEMMA SameTypes ==
  /\ E!TypeOK <=> EP!TypeOK
  /\ E!ElementType = EP!ElementType /\ E!CallType = EP!CallType
  BY DEF E!TypeOK, EP!TypeOK, E!ElementType, EP!ElementType, E!States, EP!States, E!Places,
         EP!Places, E!Cmds, EP!Cmds, E!Bits, EP!Bits, E!CallType, EP!CallType, E!AllOps, EP!AllOps

\* A step of an element's task, or of the caller in its functions.
LEMMA TaskRefines ==
  ASSUME NEW x \in Chain, E!Task(x, Task)
  PROVE  E!Next
  BY DEF E!Next

LEMMA CallRefines ==
  ASSUME NEW x \in Chain, E!Request(Caller, x) \/ E!Completion(Caller, x)
  PROVE  E!Next
  BY DEF E!Next

LEMMA WorksRefines ==
  ASSUME NEW x \in Chain, NEW o \in {"ok", "done", "abort", "input timeout"}, E!Works(x, Task, o)
  PROVE  E!Next
<1>1. E!Task(x, Task)
  BY DEF E!Task
<1>2. QED  BY <1>1, TaskRefines

LEMMA ElementRefines ==
  ASSUME NEW x \in Chain, Element(x)
  PROVE  E!Next \/ UNCHANGED elements
<1>1. CASE Quiet(x) \/ OnError(x) \/ OnStop(x) \/ OnResume(x)
  <2>1. E!Task(x, Task)
    BY <1>1 DEF Quiet, OnError, OnStop, OnResume, E!Task, E!Handlers
  <2>2. QED  BY <2>1, TaskRefines
<1>2. CASE ReadSource(x)
  BY <1>2, WorksRefines DEF ReadSource, Ends
<1>3. CASE ReadRing(x)
  BY <1>3, WorksRefines DEF ReadRing, StarvedGoesOn, Ends, elements
<1>4. CASE StarvedGoesOn(x)
  BY <1>4, WorksRefines DEF StarvedGoesOn, Ends
<1>5. CASE Play(x)
  BY <1>5, WorksRefines DEF Play, Ends
<1>6. CASE WriteRing(x)
  BY <1>6, WorksRefines DEF WriteRing, Ends
<1>7. QED  BY <1>1, <1>2, <1>3, <1>4, <1>5, <1>6 DEF Element

LEMMA GoingRefines ==
  ASSUME Going
  PROVE  E!Next \/ UNCHANGED elements
<1>1. CASE Started \/ Stopped
  BY <1>1 DEF Started, Stopped
<1>2. ASSUME NEW x \in Chain, CallRun(x) \/ CallResume(x) \/ Call(x) \/ Answer(x) \/ ResetRings(x)
      PROVE  E!Next \/ UNCHANGED elements
  <2>1. CASE CallRun(x)
    BY <2>1, CallRefines DEF CallRun, E!Request
  <2>2. CASE CallResume(x)
    BY <2>2, CallRefines DEF CallResume, E!Request
  <2>3. CASE Call(x)
    BY <2>3, CallRefines DEF Call, E!Request
  <2>4. CASE Answer(x)
    BY <2>4, CallRefines DEF Answer, E!Completion
  <2>5. CASE ResetRings(x)
    BY <2>5 DEF ResetRings
  <2>6. QED  BY <1>2, <2>1, <2>2, <2>3, <2>4, <2>5
<1>3. QED  BY <1>1, <1>2 DEF Going

LEMMA StepRefines == [Next]_vars => [E!Next]_(E!vars)
<1> SUFFICES ASSUME [Next]_vars PROVE E!Next \/ UNCHANGED elements
  BY DEF elements, E!vars
<1>1. CASE UNCHANGED vars
  BY <1>1 DEF vars
<1>2. ASSUME NEW op \in PipeOps, BeginsNothing(op) \/ Begin(op)
      PROVE  UNCHANGED elements
  BY <1>2 DEF BeginsNothing, Begin
<1>3. QED  BY <1>1, <1>2, ElementRefines, GoingRefines DEF Next

(* Every element of a pipeline behaves as an element does.                 *)
THEOREM PipelineImplementsElements == Spec => E!Spec
<1>1. Init => E!Init
  BY DEF Init
<1>2. QED  BY <1>1, StepRefines, PTL DEF Spec, E!Spec

\* The invariant of the lives of the elements' tasks, for the one caller a pipeline has.
LEMMA LivesBegin == Init => EP!LInv
<1>1. EP!SetsAssumption /\ EP!QueueAssumption /\ EP!KindsAssumption
  BY Assumptions
<1>2. EP!Init => EP!EInv /\ \A x \in Chain : EP!Lone(x) /\ EP!Life(x)
  BY <1>1, EP!InitEInv, EP!InitLife
<1>3. QED  BY <1>2, SameInit DEF Init, EP!LInv

LEMMA LivesStep == EP!LInv /\ [Next]_vars => EP!LInv'
<1> SUFFICES ASSUME EP!LInv, [Next]_vars PROVE EP!LInv'
  OBVIOUS
<1>1. EP!SetsAssumption /\ EP!QueueAssumption /\ EP!KindsAssumption
  BY Assumptions
<1>2. [EP!Next]_(EP!vars)
  BY StepRefines, SameNext DEF E!vars, EP!vars
<1>3. EP!TakeTurns /\ EP!TakeTurns'
  BY DEF EP!TakeTurns
<1>4. QED  BY <1>1, <1>2, <1>3, EP!StepLife

LEMMA LivesTyped ==
  ASSUME EP!LInv
  PROVE  /\ el \in [Chain -> E!ElementType] /\ api \in [{Caller} -> E!CallType] /\ calls \in Nat
         /\ \A x \in Chain : Len(el[x].queue) <= QueueLen
         /\ E!TypeOK
  BY SameTypes DEF EP!LInv, EP!EInv, EP!Sound, E!TypeOK

-----------------------------------------------------------------------------
(* What the steps do to the rings.                                         *)
RingType == [data : Seq(1 .. TrackLen), done : BOOLEAN, abort : SUBSET {"read", "write"}]
RingsTyped(rr) == rr \in [Rings -> RingType] /\ \A i \in Rings : Len(rr[i].data) <= RingCap

LEMMA ChainNumbers ==
  /\ N \in Nat \ {0} /\ 1 \in Chain /\ N \in Chain
  /\ \A x \in Chain : x \in Nat \ {0} /\ x <= N
  /\ \A x \in Chain : x < N => x \in Rings /\ x + 1 \in Chain
  /\ \A x \in Chain : x > 1 => x - 1 \in Rings /\ x - 1 \in Chain /\ x - 1 < N
  /\ \A i \in Rings : i \in Chain /\ i + 1 \in Chain /\ i \in Nat \ {0} /\ i < N
  BY ChainAssumption DEF Chain, Rings

LEMMA EndedRings ==
  ASSUME NEW rr, RingsTyped(rr), NEW x \in Chain
  PROVE  /\ RingsTyped(Ended(x, rr))
         /\ \A i \in Rings : /\ Ended(x, rr)[i].data = rr[i].data
                            /\ Ended(x, rr)[i].abort = rr[i].abort
                            /\ Ended(x, rr)[i].done = (rr[i].done \/ i = x)
<1> DEFINE r(i) == [rr[i] EXCEPT !.done = TRUE]
<1>1. \A i \in Rings : r(i) \in RingType /\ r(i).data = rr[i].data /\ r(i).abort = rr[i].abort
                      /\ r(i).done = TRUE /\ rr[i] \in RingType
  BY DEF RingsTyped, RingType
<1>2. Ended(x, rr) = [i \in Rings |-> IF i = x THEN r(i) ELSE rr[i]]
  BY DEF Ended
<1>3. \A i \in Rings : rr[i].done \in BOOLEAN
  BY DEF RingsTyped, RingType
<1> HIDE DEF r
<1>4. \A i \in Rings : Ended(x, rr)[i] = IF i = x THEN r(i) ELSE rr[i]
  BY <1>2
<1>5. Ended(x, rr) \in [Rings -> RingType]
  BY <1>1, <1>2
<1>6. QED  BY <1>1, <1>3, <1>4, <1>5 DEF RingsTyped

LEMMA ResetRingsAt ==
  ASSUME RingsTyped(ring), NEW S
  PROVE  /\ RingsTyped(Reset(S))
         /\ \A i \in Rings : Reset(S)[i] = IF i \in S THEN EmptyRing ELSE ring[i]
<1>1. EmptyRing \in RingType /\ Len(EmptyRing.data) = 0 /\ RingCap \in Nat
  <2>1. <<>> \in Seq(1 .. TrackLen) /\ Len(<<>>) = 0
    OBVIOUS
  <2>2. QED  BY <2>1, SizesAssumption DEF EmptyRing, RingType
<1>2. \A i \in Rings : ring[i] \in RingType
  BY DEF RingsTyped
<1> HIDE DEF EmptyRing
<1>3. QED  BY <1>1, <1>2 DEF RingsTyped, Reset

LEMMA AbortedRings ==
  ASSUME RingsTyped(ring), NEW x \in Chain
  PROVE  /\ RingsTyped(Aborted(x))
         /\ \A i \in Rings : Aborted(x)[i].data = ring[i].data /\ Aborted(x)[i].done = ring[i].done
<1> DEFINE r(i) == [ring[i] EXCEPT !.abort = {"read", "write"}]
<1>1. \A i \in Rings : r(i) \in RingType /\ r(i).data = ring[i].data /\ r(i).done = ring[i].done
                      /\ ring[i] \in RingType
  BY DEF RingsTyped, RingType
<1>2. Aborted(x) = [i \in Rings |-> IF i \in {x - 1, x} THEN r(i) ELSE ring[i]]
  BY DEF Aborted
<1> HIDE DEF r
<1>3. \A i \in Rings : Aborted(x)[i] = IF i \in {x - 1, x} THEN r(i) ELSE ring[i]
  BY <1>2
<1>4. Aborted(x) \in [Rings -> RingType]
  BY <1>1, <1>2
<1>5. QED  BY <1>1, <1>3, <1>4 DEF RingsTyped

LEMMA AbortTakenRings ==
  ASSUME RingsTyped(ring), NEW i \in Rings, NEW side
  PROVE  /\ RingsTyped(AbortTaken(i, side))
         /\ \A j \in Rings : /\ AbortTaken(i, side)[j].data = ring[j].data
                            /\ AbortTaken(i, side)[j].done = ring[j].done
<1> DEFINE r == [ring[i] EXCEPT !.abort = @ \ {side}]
<1>1. /\ r \in RingType /\ r.data = ring[i].data /\ r.done = ring[i].done
  <2>1. ring[i].abort \ {side} \in SUBSET {"read", "write"}
    BY DEF RingsTyped, RingType
  <2>2. ring[i] \in RingType
    BY DEF RingsTyped
  <2>3. QED  BY <2>1, <2>2 DEF RingType
<1>2. AbortTaken(i, side) = [ring EXCEPT ![i] = r]
  BY DEF AbortTaken
<1> HIDE DEF r
<1>3. QED  BY <1>1, <1>2 DEF RingsTyped

\* A ring is given other blocks.
LEMMA DataRings ==
  ASSUME RingsTyped(ring), NEW i \in Rings, NEW d \in Seq(1 .. TrackLen), Len(d) <= RingCap,
         NEW rr, rr = [ring EXCEPT ![i].data = d]
  PROVE  /\ RingsTyped(rr) /\ rr[i].data = d
         /\ \A j \in Rings : rr[j].done = ring[j].done /\ rr[j].abort = ring[j].abort
         /\ \A j \in Rings : j # i => rr[j] = ring[j]
<1> DEFINE r == [ring[i] EXCEPT !.data = d]
<1>1. /\ r \in RingType /\ r.data = d /\ r.done = ring[i].done /\ r.abort = ring[i].abort
  <2>2. ring[i] \in RingType
    BY DEF RingsTyped
  <2>3. QED  BY <2>2 DEF RingType
<1>2. rr = [ring EXCEPT ![i] = r]
  OBVIOUS
<1> HIDE DEF r
<1>3. QED  BY <1>1, <1>2 DEF RingsTyped

-----------------------------------------------------------------------------
(* Induction over the naturals, as a fact about sets of them.              *)
LEMMA LeastOf ==
  ASSUME NEW T, T \subseteq Nat, T # {}
  PROVE  \E m \in T : \A k \in T : m <= k
<1>1. PICK m \in T : \A k \in T : ~ (<<k, m>> \in OpToRel(<, Nat))
  BY NatLessThanWellFounded, WFMin
<1>2. ASSUME NEW k \in T PROVE m <= k
  <2>1. k \in Nat /\ m \in Nat
    OBVIOUS
  <2>2. k < m => <<k, m>> \in OpToRel(<, Nat)
    BY <2>1 DEF OpToRel
  <2>3. ~(k < m)
    BY <1>1, <2>2
  <2>4. QED  BY <2>1, <2>3
<1>3. QED  BY <1>2

LEMMA Induction ==
  ASSUME NEW T, 0 \in T, \A n \in Nat : n \in T => n + 1 \in T
  PROVE  Nat \subseteq T
<1>1. SUFFICES ASSUME Nat \ T # {} PROVE FALSE
  OBVIOUS
<1>2. PICK m \in Nat \ T : \A k \in Nat \ T : m <= k
  BY <1>1, LeastOf
<1>3. m - 1 \in Nat /\ m - 1 + 1 = m
  BY <1>2
<1>4. m - 1 \notin Nat \ T
  BY <1>2, <1>3
<1>5. QED  BY <1>2, <1>3, <1>4

\* From 1 to n.
LEMMA UpTo ==
  ASSUME NEW n \in Nat, NEW T, 1 <= n => 1 \in T,
         \A i \in 1 .. n - 1 : i \in T => i + 1 \in T
  PROVE  1 .. n \subseteq T
<1> DEFINE U == {i \in Nat : i + 1 <= n => i + 1 \in T}
<1>1. 0 \in U
  OBVIOUS
<1>2. ASSUME NEW i \in Nat, i \in U PROVE i + 1 \in U
  <2>1. SUFFICES ASSUME i + 1 + 1 <= n PROVE i + 1 + 1 \in T
    OBVIOUS
  <2>2. i + 1 \in T
    BY <1>2, <2>1
  <2>3. i + 1 \in 1 .. n - 1
    BY <2>1
  <2>4. QED  BY <2>2, <2>3
<1> HIDE DEF U
<1>3. Nat \subseteq U
  BY <1>1, <1>2, Induction
<1>4. ASSUME NEW i \in 1 .. n PROVE i \in T
  <2>1. i - 1 \in Nat /\ i - 1 + 1 = i
    OBVIOUS
  <2>2. QED  BY <1>3, <2>1 DEF U
<1>5. QED  BY <1>4

\* From m down to 1.
LEMMA DownFrom ==
  ASSUME NEW m \in Nat, NEW T, m \in T, \A i \in 2 .. m : i \in T => i - 1 \in T
  PROVE  1 .. m \subseteq T
<1> DEFINE U == {i \in Nat : i < m => m - i \in T}
<1>1. 0 \in U
  OBVIOUS
<1>2. ASSUME NEW i \in Nat, i \in U PROVE i + 1 \in U
  <2>1. SUFFICES ASSUME i + 1 < m PROVE m - (i + 1) \in T
    OBVIOUS
  <2>2. m - i \in T /\ m - i \in 2 .. m /\ m - (i + 1) = m - i - 1
    BY <1>2, <2>1
  <2>3. QED  BY <2>2
<1> HIDE DEF U
<1>3. Nat \subseteq U
  BY <1>1, <1>2, Induction
<1>4. ASSUME NEW i \in 1 .. m PROVE i \in T
  <2>1. m - i \in Nat /\ m - i < m /\ m - (m - i) = i
    OBVIOUS
  <2>2. QED  BY <1>3, <2>1 DEF U
<1>5. QED  BY <1>4

-----------------------------------------------------------------------------
(* The functions that are defined by recursion along a chain.              *)
LEMMA FlatExists ==
  ASSUME NEW n \in Nat, NEW s
  PROVE  \E f : f = [i \in 1 .. n |-> IF i = 1 THEN s[i] ELSE f[i - 1] \o s[i]]
<1> DEFINE P(k) == \E f : f = [i \in 1 .. k |-> IF i = 1 THEN s[i] ELSE f[i - 1] \o s[i]]
           T == {k \in Nat : P(k)}
<1>1. 0 \in T
  <2>1. 1 .. 0 = {}
    OBVIOUS
  <2> DEFINE f == [i \in 1 .. 0 |-> i]
  <2>2. f = [i \in 1 .. 0 |-> IF i = 1 THEN s[i] ELSE f[i - 1] \o s[i]]
    BY <2>1
  <2>3. QED  BY <2>2
<1>2. ASSUME NEW k \in Nat, k \in T PROVE k + 1 \in T
  <2>1. PICK f : f = [i \in 1 .. k |-> IF i = 1 THEN s[i] ELSE f[i - 1] \o s[i]]
    BY <1>2
  <2> DEFINE F(i) == IF i = 1 THEN s[i] ELSE f[i - 1] \o s[i]
             g == [i \in 1 .. k + 1 |-> F(i)]
             G(i) == IF i = 1 THEN s[i] ELSE g[i - 1] \o s[i]
  <2>2. f = [i \in 1 .. k |-> F(i)]
    BY <2>1
  <2>3. \A i \in 1 .. k + 1 : G(i) = F(i)
    <3> HIDE DEF F
    <3>1. \A i \in 1 .. k : g[i] = f[i]
      BY <2>2
    <3>2. ASSUME NEW i \in 1 .. k + 1, i # 1 PROVE g[i - 1] = f[i - 1]
      <4>1. i - 1 \in 1 .. k
        BY <3>2
      <4>2. QED  BY <3>1, <4>1
    <3> HIDE DEF g
    <3>3. QED  BY <3>2 DEF F
  <2>4. g = [i \in 1 .. k + 1 |-> G(i)]
    <3> HIDE DEF F, G
    <3>1. QED  BY <2>3
  <2>5. P(k + 1)
    <3> HIDE DEF g
    <3>1. QED  BY <2>4
  <2> HIDE DEF P
  <2>6. QED  BY <2>5
<1> HIDE DEF T
<1>3. n \in T
  BY <1>1, <1>2, Induction
<1>4. QED  BY <1>3 DEF T

Flattens(n, s, f) ==
  /\ FlattenSeq(s) = f[n] /\ f[1] = s[1]
  /\ \A i \in 2 .. n : f[i] = f[i - 1] \o s[i]

LEMMA FlatSteps ==
  ASSUME NEW n \in Nat \ {0}, NEW s, Len(s) = n
  PROVE  \E f : Flattens(n, s, f)
<1> DEFINE f == CHOOSE g : g = [i \in 1 .. n |-> IF i = 1 THEN s[i] ELSE g[i - 1] \o s[i]]
<1>1. f = [i \in 1 .. n |-> IF i = 1 THEN s[i] ELSE f[i - 1] \o s[i]]
  BY FlatExists
<1>2. FlattenSeq(s) = f[n]
  BY DEF FlattenSeq
<1> HIDE DEF f
<1> DEFINE F(i) == IF i = 1 THEN s[i] ELSE f[i - 1] \o s[i]
<1>3. \A i \in 1 .. n : f[i] = F(i)
  <2>1. f = [i \in 1 .. n |-> F(i)]
    BY <1>1
  <2> HIDE DEF F
  <2>2. QED  BY <2>1
<1>4. f[1] = s[1]
  <2>1. 1 \in 1 .. n /\ F(1) = s[1]
    OBVIOUS
  <2> HIDE DEF F
  <2>2. QED  BY <1>3, <2>1
<1>5. ASSUME NEW i \in 2 .. n PROVE f[i] = f[i - 1] \o s[i]
  <2>1. i \in 1 .. n /\ i # 1
    OBVIOUS
  <2>2. F(i) = f[i - 1] \o s[i]
    BY <2>1
  <2> HIDE DEF F
  <2>3. QED  BY <1>3, <2>1, <2>2
<1> HIDE DEF F
<1>6. Flattens(n, s, f)
  BY <1>2, <1>4, <1>5 DEF Flattens
<1>7. QED  BY <1>6

-----------------------------------------------------------------------------
(* The programs of the pipeline's functions.                               *)
Once(s) == \A a, b \in 1 .. Len(s) : s[a] = s[b] => a = b

IsJoin(S, u, v, m, n) ==
  /\ u \o v \in Seq(S) /\ Len(u \o v) = m + n /\ m \in Nat /\ n \in Nat
  /\ \A a \in 1 .. m + n : (u \o v)[a] = IF a <= m THEN u[a] ELSE v[a - m]

LEMMA JoinAt ==
  ASSUME NEW S, NEW u \in Seq(S), NEW v \in Seq(S)
  PROVE  IsJoin(S, u, v, Len(u), Len(v))
  BY ConcatProperties DEF IsJoin

LEMMA OnceJoined ==
  ASSUME NEW S, NEW u \in Seq(S), NEW v \in Seq(S), Once(u), Once(v),
         \A a \in 1 .. Len(u), b \in 1 .. Len(v) : u[a] # v[b]
  PROVE  u \o v \in Seq(S) /\ Once(u \o v)
<1> DEFINE w == u \o v
<1>1. w \in Seq(S) /\ Len(w) = Len(u) + Len(v) /\ Len(u) \in Nat /\ Len(v) \in Nat
  BY ConcatProperties
<1>2. \A a \in 1 .. Len(w) : w[a] = IF a <= Len(u) THEN u[a] ELSE v[a - Len(u)]
  BY ConcatProperties
<1> HIDE DEF w
<1>3. ASSUME NEW a \in 1 .. Len(w), NEW b \in 1 .. Len(w), w[a] = w[b] PROVE a = b
  <2>1. CASE a <= Len(u) /\ b <= Len(u)
    <3>1. a \in 1 .. Len(u) /\ b \in 1 .. Len(u) /\ u[a] = u[b]
      BY <1>1, <1>2, <1>3, <2>1
    <3>2. QED  BY <3>1 DEF Once
  <2>2. CASE a > Len(u) /\ b > Len(u)
    <3>1. /\ a - Len(u) \in 1 .. Len(v) /\ b - Len(u) \in 1 .. Len(v)
          /\ v[a - Len(u)] = v[b - Len(u)]
      BY <1>1, <1>2, <1>3, <2>2
    <3>2. a - Len(u) = b - Len(u)
      BY <3>1 DEF Once
    <3>3. QED  BY <1>1, <3>2
  <2>3. CASE a <= Len(u) /\ b > Len(u)
    <3>1. a \in 1 .. Len(u) /\ b - Len(u) \in 1 .. Len(v) /\ u[a] = v[b - Len(u)]
      BY <1>1, <1>2, <1>3, <2>3
    <3>2. QED  BY <3>1
  <2>4. CASE a > Len(u) /\ b <= Len(u)
    <3>1. b \in 1 .. Len(u) /\ a - Len(u) \in 1 .. Len(v) /\ u[b] = v[a - Len(u)]
      BY <1>1, <1>2, <1>3, <2>4
    <3>2. QED  BY <3>1
  <2>5. QED  BY <1>1, <2>1, <2>2, <2>3, <2>4
<1>4. QED  BY <1>1, <1>3 DEF Once, w

\* The members of a concatenation.
LEMMA Joined ==
  ASSUME NEW S, NEW u \in Seq(S), NEW v \in Seq(S), NEW P, NEW Q,
         \A a \in 1 .. Len(u) : u[a] \in P, \A b \in 1 .. Len(v) : v[b] \in Q
  PROVE  \A a \in 1 .. Len(u \o v) : (u \o v)[a] \in P \cup Q
<1> DEFINE w == u \o v
<1>1. Len(w) = Len(u) + Len(v) /\ Len(u) \in Nat /\ Len(v) \in Nat
  BY ConcatProperties
<1>2. \A a \in 1 .. Len(w) : w[a] = IF a <= Len(u) THEN u[a] ELSE v[a - Len(u)]
  BY ConcatProperties
<1> HIDE DEF w
<1>3. ASSUME NEW a \in 1 .. Len(w) PROVE w[a] \in P \cup Q
  <2>1. a <= Len(u) => a \in 1 .. Len(u)
    BY <1>1
  <2>2. a > Len(u) => a - Len(u) \in 1 .. Len(v)
    BY <1>1
  <2>3. QED  BY <1>1, <1>2, <2>1, <2>2
<1>4. QED  BY <1>3 DEF w

LEMMA EachLemma ==
  ASSUME NEW what, what \in {"run", "pause", "resume", "stop", "wait", "terminate", "reset"}
  PROVE  /\ Each(what) \in Seq(Calls) /\ Len(Each(what)) = N /\ Once(Each(what))
         /\ \A x \in 1 .. N : Each(what)[x] = <<what, x>>
         /\ \A x \in 1 .. N : Each(what)[x] \in {what} \X Chain
<1>1. N \in Nat /\ \A x \in Chain : <<what, x>> \in Calls
  BY ChainAssumption DEF Calls
<1>2. Each(what) \in Seq(Calls)
  BY <1>1 DEF Each, Chain
<1>3. Len(Each(what)) = N /\ \A x \in 1 .. N : Each(what)[x] = <<what, x>>
  BY <1>1 DEF Each, Chain
<1>4. Once(Each(what))
  <2>1. ASSUME NEW a \in 1 .. N, NEW b \in 1 .. N, Each(what)[a] = Each(what)[b] PROVE a = b
    <3>1. <<what, a>> = <<what, b>>
      BY <1>3, <2>1
    <3>2. QED  BY <3>1
  <2>2. QED  BY <1>3, <2>1 DEF Once
<1>5. \A x \in 1 .. N : Each(what)[x] \in {what} \X Chain
  <2>1. \A x \in 1 .. N : <<what, x>> \in {what} \X Chain
    BY DEF Chain
  <2>2. QED  BY <1>3, <2>1
<1>6. QED  BY <1>2, <1>3, <1>4, <1>5

\* Where wait and reset come from.
Waits == {"wait", "reset"} \X Chain

LEMMA WaitsFlat ==
  LET s == [x \in Chain |-> << <<"wait", x>>, <<"reset", x>> >>]
      w == FlattenSeq(s) IN
  w \in Seq(Calls) /\ Once(w) /\ \A a \in 1 .. Len(w) : w[a] \in Waits
<1> DEFINE s == [x \in Chain |-> << <<"wait", x>>, <<"reset", x>> >>]
<1>1. N \in Nat \ {0} /\ Len(s) = N
  BY ChainAssumption DEF Chain
<1>2. PICK f : Flattens(N, s, f)
  <2> HIDE DEF s
  <2>1. QED  BY <1>1, FlatSteps
<1>2a. /\ FlattenSeq(s) = f[N] /\ f[1] = s[1]
       /\ \A i \in 2 .. N : f[i] = f[i - 1] \o s[i]
  BY <1>2 DEF Flattens
<1> DEFINE P(i) == /\ f[i] \in Seq(Calls) /\ Once(f[i])
                   /\ \A a \in 1 .. Len(f[i]) : f[i][a] \in {"wait", "reset"} \X (1 .. i)
           T == {i \in 1 .. N : P(i)}
<1>3. ASSUME NEW i \in 1 .. N
      PROVE  /\ s[i] \in Seq(Calls) /\ Once(s[i])
             /\ \A a \in 1 .. Len(s[i]) : s[i][a] \in {"wait", "reset"} \X {i}
  <2>1. s[i] = << <<"wait", i>>, <<"reset", i>> >>
    BY DEF Chain
  <2>2. <<"wait", i>> \in Calls /\ <<"reset", i>> \in Calls
    BY DEF Calls, Chain
  <2> HIDE DEF s
  <2>3. s[i] \in Seq(Calls) /\ Len(s[i]) = 2 /\ s[i][1] = <<"wait", i>> /\ s[i][2] = <<"reset", i>>
    BY <2>1, <2>2
  <2>4. \A a \in 1 .. 2 : a = 1 \/ a = 2
    OBVIOUS
  <2>5. QED  BY <2>3, <2>4 DEF Once
<1> HIDE DEF s
<1>4. 1 \in T
  <2>1. P(1)
    BY <1>1, <1>2a, <1>3
  <2>2. QED  BY <1>1, <2>1
<1>5. ASSUME NEW i \in 1 .. N - 1, i \in T PROVE i + 1 \in T
  <2>1. P(i) /\ i + 1 \in 2 .. N /\ i + 1 \in 1 .. N /\ i + 1 - 1 = i
    BY <1>1, <1>5
  <2>2. f[i + 1] = f[i] \o s[i + 1]
    <3> DEFINE j == i + 1
    <3>1. j \in 2 .. N /\ j - 1 = i
      BY <2>1
    <3> HIDE DEF j
    <3>2. f[j] = f[j - 1] \o s[j]
      BY <1>2a, <3>1
    <3>3. QED  BY <3>1, <3>2 DEF j
  <2> DEFINE u == f[i]
             v == s[i + 1]
  <2>3. /\ u \in Seq(Calls) /\ Once(u) /\ v \in Seq(Calls) /\ Once(v)
        /\ \A a \in 1 .. Len(u) : u[a] \in {"wait", "reset"} \X (1 .. i)
        /\ \A a \in 1 .. Len(v) : v[a] \in {"wait", "reset"} \X {i + 1}
    BY <1>3, <2>1
  <2>4. f[i + 1] = u \o v
    BY <2>2
  <2> HIDE DEF u, v
  <2>5. \A a \in 1 .. Len(u), b \in 1 .. Len(v) : u[a] # v[b]
    <3>1. \A p \in {"wait", "reset"} \X (1 .. i), q \in {"wait", "reset"} \X {i + 1} : p # q
      OBVIOUS
    <3>2. QED  BY <2>3, <3>1
  <2>6. u \o v \in Seq(Calls) /\ Once(u \o v)
    BY <2>3, <2>5, OnceJoined
  <2>7. \A a \in 1 .. Len(u \o v) : (u \o v)[a] \in {"wait", "reset"} \X (1 .. i + 1)
    <3>1. \A a \in 1 .. Len(u \o v) : (u \o v)[a] \in
             ({"wait", "reset"} \X (1 .. i)) \cup ({"wait", "reset"} \X {i + 1})
      BY <2>3, Joined
    <3>2. ({"wait", "reset"} \X (1 .. i)) \cup ({"wait", "reset"} \X {i + 1})
             \subseteq {"wait", "reset"} \X (1 .. i + 1)
      OBVIOUS
    <3>3. QED  BY <3>1, <3>2
  <2>8. P(i + 1)
    BY <2>4, <2>6, <2>7
  <2>9. QED  BY <2>1, <2>8
<1> HIDE DEF T
<1>6. N \in T
  <2>1. 1 .. N \subseteq T
    BY <1>1, <1>4, <1>5, UpTo
  <2>2. QED  BY <1>1, <2>1
<1>7. P(N)
  BY <1>6 DEF T
<1>8. QED  BY <1>2a, <1>7 DEF Waits, Chain, s

LEMMA RunProgram ==
  LET p == Run("INIT") IN
  /\ p \in Seq(Calls) /\ Len(p) = 2 * N + 1
  /\ \A x \in Chain : p[x] = <<"run", x>> /\ p[N + x] = <<"resume", x>>
  /\ p[2 * N + 1] = <<"started", 0>>
<1> DEFINE u == Each("run")
           v == Each("resume")
           s == << <<"started", 0>> >>
<1>1. /\ u \in Seq(Calls) /\ v \in Seq(Calls) /\ Len(u) = N /\ Len(v) = N
      /\ \A x \in Chain : u[x] = <<"run", x>> /\ v[x] = <<"resume", x>>
      /\ N \in Nat \ {0}
  BY EachLemma, ChainNumbers DEF Chain
<1>2. s \in Seq(Calls) /\ Len(s) = 1 /\ s[1] = <<"started", 0>>
  BY DEF Calls
<1>3. Run("INIT") = u \o v \o s
  BY DEF Run, Resume
<1> HIDE DEF u, v, s
<1>4. u \o v \in Seq(Calls) /\ Len(u \o v) = 2 * N
  BY <1>1, ConcatProperties
<1>5. \A x \in Chain : (u \o v)[x] = <<"run", x>> /\ (u \o v)[N + x] = <<"resume", x>>
  <2>1. \A a \in 1 .. 2 * N : (u \o v)[a] = IF a <= N THEN u[a] ELSE v[a - N]
    BY <1>1, ConcatProperties
  <2>2. ASSUME NEW x \in Chain
        PROVE  x \in 1 .. 2 * N /\ x <= N /\ N + x \in 1 .. 2 * N /\ ~(N + x <= N) /\ N + x - N = x
    BY <1>1 DEF Chain
  <2>3. QED  BY <1>1, <2>1, <2>2
<1> DEFINE h == u \o v
           k == 2 * N
<1>6. /\ h \in Seq(Calls) /\ Len(h) = k
      /\ \A x \in Chain : h[x] = <<"run", x>> /\ h[N + x] = <<"resume", x>>
  BY <1>4, <1>5
<1>6a. k \in Nat /\ N + N = k
  BY <1>1
<1>7. Run("INIT") = h \o s
  BY <1>3
<1> HIDE DEF h, k
<1>8. /\ h \o s \in Seq(Calls) /\ Len(h \o s) = k + 1
      /\ \A a \in 1 .. k + 1 : (h \o s)[a] = IF a <= k THEN h[a] ELSE s[a - k]
  <2>1. IsJoin(Calls, h, s, k, 1)
    BY <1>2, <1>6, JoinAt
  <2>2. QED  BY <2>1 DEF IsJoin
<1>10. (h \o s)[k + 1] = <<"started", 0>>
  <2>1. k + 1 \in 1 .. k + 1 /\ ~(k + 1 <= k) /\ k + 1 - k = 1
    BY <1>6a
  <2> DEFINE a == k + 1
  <2>2. (h \o s)[a] = IF a <= k THEN h[a] ELSE s[a - k]
    <3>1. a \in 1 .. k + 1
      BY <2>1
    <3> HIDE DEF a
    <3>2. QED  BY <1>8, <3>1
  <2>3. (h \o s)[a] = s[1]
    <3>1. ~(a <= k) /\ a - k = 1
      BY <1>6a
    <3> HIDE DEF a
    <3>2. QED  BY <2>2, <3>1
  <2>4. QED  BY <1>2, <2>3
<1>11. ASSUME NEW x \in Chain
      PROVE  (h \o s)[x] = <<"run", x>> /\ (h \o s)[N + x] = <<"resume", x>>
  <2>1. x \in 1 .. k + 1 /\ x <= k /\ N + x \in 1 .. k + 1 /\ N + x <= k
    BY <1>1, <1>6a DEF Chain
  <2>2. QED  BY <1>6, <1>8, <2>1
<1>12. QED  BY <1>7, <1>8, <1>10, <1>11 DEF k

LEMMA WaitProgram ==
  ASSUME NEW state
  PROVE  LET w == WaitForStop(state) IN
         /\ w \in Seq(Calls) /\ Once(w)
         /\ \A a \in 1 .. Len(w) : w[a] \in Waits \cup {<<"stopped", 0>>}
<1> DEFINE w == FlattenSeq([x \in Chain |-> << <<"wait", x>>, <<"reset", x>> >>])
           s == << <<"stopped", 0>> >>
<1>1. w \in Seq(Calls) /\ Once(w) /\ \A a \in 1 .. Len(w) : w[a] \in Waits
  BY WaitsFlat
<1>2. s \in Seq(Calls) /\ Len(s) = 1 /\ s[1] = <<"stopped", 0>> /\ Once(s)
  BY DEF Calls, Once
<1>3. CASE state = "RUNNING"
  <2>1. WaitForStop(state) = w \o s
    BY <1>3 DEF WaitForStop
  <2> HIDE DEF w, s
  <2>1a. \A b \in 1 .. Len(s) : b = 1
    BY <1>2
  <2>2. \A a \in 1 .. Len(w), b \in 1 .. Len(s) : w[a] # s[b]
    <3>1. \A p \in Waits : p # <<"stopped", 0>>
      BY DEF Waits
    <3>2. \A b \in 1 .. Len(s) : s[b] = <<"stopped", 0>>
      BY <1>2, <2>1a
    <3>3. QED  BY <1>1, <3>1, <3>2
  <2>3. w \o s \in Seq(Calls) /\ Once(w \o s)
    BY <1>1, <1>2, <2>2, OnceJoined
  <2>4. \A b \in 1 .. Len(s) : s[b] \in {<<"stopped", 0>>}
    BY <1>2, <2>1a
  <2>5. \A a \in 1 .. Len(w \o s) : (w \o s)[a] \in Waits \cup {<<"stopped", 0>>}
    BY <1>1, <1>2, <2>4, Joined
  <2>6. QED  BY <2>1, <2>3, <2>5
<1>4. CASE state # "RUNNING"
  <2>1. WaitForStop(state) = <<>>
    BY <1>4 DEF WaitForStop
  <2>2. QED  BY <2>1 DEF Once
<1>5. QED  BY <1>3, <1>4

\* Everything a terminate asks is asked once, and the end of every element's task last.
LEMMA TerminateProgram ==
  ASSUME NEW state
  PROVE  LET p == Terminate(state) IN
         /\ p \in Seq(Calls) /\ Once(p)
         /\ \A a \in 1 .. Len(p) :
              p[a] \in ({"stop", "wait", "reset", "terminate"} \X Chain) \cup {<<"stopped", 0>>}
         /\ \A x \in Chain : \E a \in 1 .. Len(p) : p[a] = <<"terminate", x>>
<1> DEFINE u == Each("stop")
           v == WaitForStop(state)
           t == Each("terminate")
           U == {"stop"} \X Chain
           V == Waits \cup {<<"stopped", 0>>}
           W == {"terminate"} \X Chain
<1>1. /\ u \in Seq(Calls) /\ Once(u) /\ t \in Seq(Calls) /\ Once(t) /\ Len(t) = N /\ N \in Nat \ {0}
      /\ \A a \in 1 .. Len(u) : u[a] \in U
      /\ \A a \in 1 .. Len(t) : t[a] \in W
      /\ \A x \in Chain : t[x] = <<"terminate", x>>
  BY EachLemma, ChainNumbers DEF Chain
<1>2. v \in Seq(Calls) /\ Once(v) /\ \A a \in 1 .. Len(v) : v[a] \in V
  BY WaitProgram
<1>3. Terminate(state) = u \o v \o t
  BY DEF Terminate, Stop
<1>4. /\ \A p \in U, q \in V : p # q
      /\ \A p \in U \cup V, q \in W : p # q
      /\ U \cup V \cup W \subseteq ({"stop", "wait", "reset", "terminate"} \X Chain) \cup {<<"stopped", 0>>}
  BY DEF Waits
<1> HIDE DEF u, v, t, U, V, W
<1>5. u \o v \in Seq(Calls) /\ Once(u \o v)
  BY <1>1, <1>2, <1>4, OnceJoined
<1>6. \A a \in 1 .. Len(u \o v) : (u \o v)[a] \in U \cup V
  BY <1>1, <1>2, Joined
<1> DEFINE h == u \o v
<1>7. h \in Seq(Calls) /\ Once(h) /\ \A a \in 1 .. Len(h) : h[a] \in U \cup V
  BY <1>5, <1>6
<1> HIDE DEF h
<1>8. h \o t \in Seq(Calls) /\ Once(h \o t)
  BY <1>1, <1>4, <1>7, OnceJoined
<1>9. \A a \in 1 .. Len(h \o t) : (h \o t)[a] \in (U \cup V) \cup W
  BY <1>1, <1>7, Joined
<1>10. ASSUME NEW x \in Chain PROVE \E a \in 1 .. Len(h \o t) : (h \o t)[a] = <<"terminate", x>>
  <2>1. /\ Len(h \o t) = Len(h) + N /\ Len(h) \in Nat
        /\ \A a \in 1 .. Len(h) + N : (h \o t)[a] = IF a <= Len(h) THEN h[a] ELSE t[a - Len(h)]
    <3>1. IsJoin(Calls, h, t, Len(h), N)
      BY <1>1, <1>7, JoinAt
    <3>2. QED  BY <1>1, <3>1 DEF IsJoin
  <2>2. /\ Len(h) + x \in 1 .. Len(h) + N /\ ~(Len(h) + x <= Len(h)) /\ Len(h) + x - Len(h) = x
    BY <1>1, <2>1 DEF Chain
  <2>3. (h \o t)[Len(h) + x] = t[x]
    <3> DEFINE a == Len(h) + x
    <3>1. a \in 1 .. Len(h) + N /\ ~(a <= Len(h)) /\ a - Len(h) = x
      BY <1>1, <2>1 DEF Chain
    <3> HIDE DEF a
    <3>2. (h \o t)[a] = t[x]
      BY <2>1, <3>1
    <3>3. QED  BY <3>2 DEF a
  <2>4. QED  BY <1>1, <2>1, <2>2, <2>3
<1>11. Terminate(state) = h \o t
  BY <1>3 DEF h
<1>12. QED  BY <1>4, <1>8, <1>9, <1>10, <1>11

LEMMA ProgramTyped ==
  ASSUME NEW op \in PipeOps, NEW state
  PROVE  Program(op, state) \in Seq(Calls)
<1>1. op \in {"run", "pause", "resume", "stop", "wait", "terminate"}
  BY CallsAssumption
<1>2. <<>> \in Seq(Calls) /\ Run("INIT") \in Seq(Calls)
  BY RunProgram
<1>3. Run(state) \in Seq(Calls)
  BY <1>2 DEF Run
<1>4. Pause \in Seq(Calls) /\ Resume \in Seq(Calls) /\ Stop \in Seq(Calls)
  BY EachLemma DEF Pause, Resume, Stop
<1>5. WaitForStop(state) \in Seq(Calls) /\ Terminate(state) \in Seq(Calls)
  BY WaitProgram, TerminateProgram
<1>6. QED  BY <1>1, <1>3, <1>4, <1>5 DEF Program

-----------------------------------------------------------------------------
(* What holds however the functions of the pipeline are called.            *)
FlowOK ==
  /\ RingsTyped(ring)
  /\ src \in 0 .. TrackLen /\ hold \in [Chain -> 0 .. TrackLen]
  /\ played \in Seq(1 .. TrackLen)
  /\ late \subseteq Chain /\ starved \subseteq Chain \ {1}

\* A block is in hand, and a ring found empty, only in process.
HandOK(x) == (hold[x] # 0 => Working(x)) /\ (x \in starved => Reads(x))

PipeType ==
  [state : {"INIT", "RUNNING", "ERROR"}, todo : Seq(Calls), op : PipeOps \cup {"none"},
   past : SUBSET PipeOps, restarted : BOOLEAN, failed : BOOLEAN, ops : 0 .. MaxOps]

GInv == EP!LInv /\ FlowOK /\ (\A x \in Chain : HandOK(x)) /\ pipe \in PipeType

LEMMA TaskElsewhere ==
  ASSUME NEW x \in Chain, el \in [Chain -> E!ElementType], E!Task(x, Task)
  PROVE  (\A y \in Chain : y # x => el'[y] = el[y]) /\ UNCHANGED <<api, calls>>
<1>1. \A e : E!Become(x, e) => (\A y \in Chain : y # x => el'[y] = el[y]) /\ UNCHANGED <<api, calls>>
  BY DEF E!Become
<1>2. \E e : E!Become(x, e)
  BY DEF E!Task, E!Handlers, E!TaskCreated, E!TaskBoots, E!Poll, E!OnError, E!OnFinish,
         E!OnStop, E!Halts, E!OnStopFinished, E!OnPause, E!Pauses, E!OnResumeRunning,
         E!OnResume, E!OpenSucceeds, E!Starts, E!OpenRefused, E!OnDestroy, E!SkipsProcess,
         E!EntersProcess, E!ResetState, E!Works, E!LeavesLoop, E!Ends
<1>3. QED  BY <1>1, <1>2

LEMMA ElementElsewhere ==
  ASSUME NEW x \in Chain, el \in [Chain -> E!ElementType], Element(x)
  PROVE  (\A y \in Chain : y # x => el'[y] = el[y]) /\ UNCHANGED <<api, calls, pipe>>
<1>1. ASSUME NEW o, Ends(x, o), o \in Outs PROVE E!Task(x, Task)
  BY <1>1 DEF Ends, E!Task, Outs
<1>2. CASE Quiet(x) \/ OnError(x) \/ OnStop(x) \/ OnResume(x)
  <2>1. E!Task(x, Task) /\ UNCHANGED pipe
    BY <1>2 DEF Quiet, OnError, OnStop, OnResume, E!Task, E!Handlers, flow
  <2>2. QED  BY <2>1, TaskElsewhere
<1>3. CASE ReadSource(x) \/ ReadRing(x) \/ StarvedGoesOn(x) \/ Play(x) \/ WriteRing(x)
  <2>1. (\E o \in Outs : Ends(x, o)) \/ UNCHANGED elements
    BY <1>3 DEF ReadSource, ReadRing, StarvedGoesOn, Play, WriteRing, Outs
  <2>2. UNCHANGED pipe
    BY <1>3 DEF ReadSource, ReadRing, StarvedGoesOn, Play, WriteRing
  <2>3. CASE UNCHANGED elements
    BY <2>2, <2>3 DEF elements
  <2>4. CASE \E o \in Outs : Ends(x, o)
    BY <1>1, <2>2, <2>4, TaskElsewhere
  <2>5. QED  BY <2>1, <2>3, <2>4
<1>4. QED  BY <1>2, <1>3 DEF Element

\* Process ends where it was entered, with the next command to come.
LEMMA EndsAt ==
  ASSUME NEW x \in Chain, el \in [Chain -> E!ElementType], NEW o, Ends(x, o), FlowOK
  PROVE  hold' \in [Chain -> 0 .. TrackLen] /\ hold'[x] = 0
         /\ \A y \in Chain : y # x => hold'[y] = hold[y]
<1>1. hold \in [Chain -> 0 .. TrackLen] /\ 0 \in 0 .. TrackLen /\ hold' = [hold EXCEPT ![x] = 0]
  BY SizesAssumption DEF Ends, FlowOK
<1>2. QED  BY <1>1

LEMMA QuietFromElsewhere ==
  ASSUME NEW x \in Chain, Quiet(x) \/ OnError(x) \/ OnStop(x) \/ OnResume(x)
  PROVE  ~Working(x)
  BY DEF Quiet, OnError, OnStop, OnResume, Working, E!At, E!OnError, E!OnStop, E!OnResume,
         E!Receives,
         E!TaskCreated, E!TaskBoots, E!Poll, E!OnFinish, E!Halts, E!OnStopFinished,
         E!OnPause, E!Pauses, E!OnResumeRunning, E!OpenSucceeds, E!Starts, E!OpenRefused,
         E!OnDestroy, E!LeavesLoop, E!Ends, E!SkipsProcess, E!EntersProcess

\* The steps of an element and the flow.
LEMMA ElementFlow ==
  ASSUME GInv, NEW x \in Chain, Element(x)
  PROVE  FlowOK' /\ \A y \in Chain : HandOK(y)'
<1>1. /\ el \in [Chain -> E!ElementType] /\ FlowOK /\ \A y \in Chain : HandOK(y)
  BY LivesTyped DEF GInv
<1>2. /\ RingsTyped(ring) /\ src \in 0 .. TrackLen /\ hold \in [Chain -> 0 .. TrackLen]
      /\ played \in Seq(1 .. TrackLen) /\ late \subseteq Chain /\ starved \subseteq Chain \ {1}
      /\ TrackLen \in Nat /\ RingCap \in Nat
  BY <1>1, SizesAssumption DEF FlowOK
<1>3. \A y \in Chain : y # x => (Working(y)' <=> Working(y))
  BY <1>1, ElementElsewhere DEF Working, E!At
<1>4. ASSUME /\ hold' \in [Chain -> 0 .. TrackLen] /\ starved' \subseteq starved
             /\ \A y \in Chain : y # x => hold'[y] = hold[y]
             /\ HandOK(x)'
      PROVE  \A y \in Chain : HandOK(y)'
  <2>1. ASSUME NEW y \in Chain, y # x PROVE HandOK(y)'
    BY <1>1, <1>3, <1>4, <2>1 DEF HandOK, Reads, Working
  <2>2. QED  BY <1>4, <2>1
<1>5. CASE Quiet(x) \/ OnError(x) \/ OnStop(x) \/ OnResume(x)
  <2>1. UNCHANGED <<src, hold, starved, played, late>> /\ ~Working(x)
    BY <1>5, QuietFromElsewhere DEF Quiet, OnError, OnStop, OnResume, flow
  <2>2. RingsTyped(ring')
    BY <1>2, <1>5, AbortedRings, ResetRingsAt DEF Quiet, OnError, OnStop, OnResume, flow
  <2>3. hold[x] = 0 /\ x \notin starved
    BY <1>1, <2>1 DEF HandOK, Reads
  <2>4. HandOK(x)'
    BY <2>1, <2>3 DEF HandOK
  <2>5. FlowOK'
    BY <1>2, <2>1, <2>2 DEF FlowOK
  <2>6. QED  BY <1>2, <1>4, <2>1, <2>4, <2>5
<1>6. CASE ReadSource(x)
  <2>1. Reads(x) /\ UNCHANGED <<starved, played, late, pipe>> /\ x = 1 /\ x \notin starved
    BY <1>2, <1>6 DEF ReadSource
  <2>2. CASE src < TrackLen
    <3>1. src' = src + 1 /\ hold' = [hold EXCEPT ![x] = src + 1] /\ UNCHANGED <<elements, ring>>
      BY <1>6, <2>2 DEF ReadSource
    <3>2. src + 1 \in 0 .. TrackLen
      BY <1>2, <2>2
    <3>3. HandOK(x)'
      BY <2>1, <3>1 DEF HandOK, Reads, Working, elements, E!At
    <3>4. FlowOK'
      BY <1>2, <2>1, <3>1, <3>2 DEF FlowOK
    <3>5. hold' \in [Chain -> 0 .. TrackLen] /\ \A y \in Chain : y # x => hold'[y] = hold[y]
      BY <1>2, <3>1, <3>2
    <3>6. QED  BY <1>4, <2>1, <3>3, <3>4, <3>5
  <2>3. CASE ~(src < TrackLen)
    <3>1. Ends(x, "done") /\ ring' = Ended(x, ring) /\ UNCHANGED src
      BY <1>6, <2>3 DEF ReadSource
    <3>2. RingsTyped(ring')
      BY <1>2, <3>1, EndedRings
    <3>3. hold' \in [Chain -> 0 .. TrackLen] /\ hold'[x] = 0 /\ \A y \in Chain : y # x => hold'[y] = hold[y]
      BY <1>1, <3>1, EndsAt
    <3>4. HandOK(x)'
      BY <2>1, <3>3 DEF HandOK
    <3>5. FlowOK'
      BY <1>2, <2>1, <3>1, <3>2, <3>3 DEF FlowOK
    <3>6. QED  BY <1>4, <2>1, <3>3, <3>4, <3>5
  <2>4. QED  BY <2>2, <2>3
<1>7. CASE ReadRing(x)
  <2>1. /\ Reads(x) /\ x > 1 /\ x \notin starved /\ UNCHANGED <<elements, src, played, pipe>>
        /\ x - 1 \in Rings /\ x # 1
    BY <1>7, ChainNumbers DEF ReadRing
  <2>2. Reads(x) <=> Working(x)' /\ hold[x] = 0
    BY <2>1 DEF Reads, Working, elements, E!At
  <2>3. CASE Drained(x - 1)
    <3>1. starved' = starved \cup {x} /\ late' = late \ {x} /\ UNCHANGED <<ring, hold>>
      BY <1>7, <2>3 DEF ReadRing
    <3>2. FlowOK'
      BY <1>2, <2>1, <3>1 DEF FlowOK
    <3>3. \A y \in Chain : Working(y)' <=> Working(y)
      BY <2>1 DEF Working, elements, E!At
    <3>4. QED  BY <1>1, <2>1, <3>1, <3>2, <3>3 DEF HandOK, Reads
  <2>4. CASE ~Drained(x - 1)
    <3> DEFINE d == ring[x - 1].data
    <3>1. /\ hold' = [hold EXCEPT ![x] = Head(d)]
          /\ ring' = [ring EXCEPT ![x - 1].data = Tail(d)]
          /\ UNCHANGED <<starved, late>>
      BY <1>7, <2>4 DEF ReadRing
    <3>2. d \in Seq(1 .. TrackLen) /\ d # <<>> /\ Len(d) <= RingCap
      BY <1>2, <2>1, <2>4 DEF RingsTyped, RingType, Drained
    <3> HIDE DEF d
    <3>3. Head(d) \in 1 .. TrackLen /\ Tail(d) \in Seq(1 .. TrackLen) /\ Len(Tail(d)) <= RingCap
      BY <1>2, <3>2, HeadTailProperties
    <3>4. RingsTyped(ring')
      BY <1>2, <2>1, <3>1, <3>3, DataRings
    <3>5. hold' \in [Chain -> 0 .. TrackLen] /\ \A y \in Chain : y # x => hold'[y] = hold[y]
      BY <1>2, <3>1, <3>3
    <3>6. HandOK(x)'
      BY <2>1, <2>2, <3>1 DEF HandOK
    <3>7. FlowOK'
      BY <1>2, <2>1, <3>1, <3>4, <3>5 DEF FlowOK
    <3>8. QED  BY <1>4, <3>1, <3>5, <3>6, <3>7
  <2>5. QED  BY <2>3, <2>4
<1>8. CASE StarvedGoesOn(x)
  <2>1. /\ Reads(x) /\ x \in starved /\ starved' = starved \ {x} /\ UNCHANGED <<src, played, late, pipe>>
        /\ x - 1 \in Rings
    <3>1. /\ Reads(x) /\ x \in starved /\ starved' = starved \ {x}
          /\ UNCHANGED <<src, played, late, pipe>>
      BY <1>8 DEF StarvedGoesOn
    <3>2. x # 1 /\ x \in Nat \ {0}
      BY <1>2, <3>1, ChainNumbers
    <3>3. x > 1
      BY <3>2
    <3>4. QED  BY <3>1, <3>3, ChainNumbers
  <2>2. RingsTyped(ring')
    <3>1. RingsTyped(AbortTaken(x - 1, "read"))
      BY <1>2, <2>1, AbortTakenRings
    <3>2. RingsTyped(Ended(x, ring)) /\ RingsTyped(Ended(x, AbortTaken(x - 1, "read")))
      BY <1>2, <3>1, EndedRings
    <3>3. QED  BY <1>2, <1>8, <3>2 DEF StarvedGoesOn
  <2>3. (\E o : Ends(x, o)) \/ UNCHANGED hold
    BY <1>8 DEF StarvedGoesOn
  <2>4. /\ hold' \in [Chain -> 0 .. TrackLen] /\ hold'[x] = 0
        /\ \A y \in Chain : y # x => hold'[y] = hold[y]
    BY <1>1, <1>2, <2>1, <2>3, EndsAt DEF Reads
  <2>5. HandOK(x)'
    BY <2>1, <2>4 DEF HandOK
  <2>6. FlowOK'
    BY <1>2, <2>1, <2>2, <2>4 DEF FlowOK
  <2>7. QED  BY <1>4, <2>1, <2>4, <2>5, <2>6
<1>9. CASE Play(x)
  <2>1. Writes(x) /\ Ends(x, "ok") /\ played' = Append(played, hold[x])
        /\ UNCHANGED <<ring, src, starved, late, pipe>>
    BY <1>9 DEF Play
  <2>2. hold[x] \in 1 .. TrackLen /\ x \notin starved
    BY <1>1, <1>2, <2>1 DEF Writes, HandOK, Reads
  <2>3. played' \in Seq(1 .. TrackLen)
    BY <1>2, <2>1, <2>2
  <2>4. hold' \in [Chain -> 0 .. TrackLen] /\ hold'[x] = 0 /\ \A y \in Chain : y # x => hold'[y] = hold[y]
    BY <1>1, <2>1, EndsAt
  <2>5. HandOK(x)'
    BY <2>1, <2>2, <2>4 DEF HandOK
  <2>6. FlowOK'
    BY <1>2, <2>1, <2>3, <2>4 DEF FlowOK
  <2>7. QED  BY <1>4, <2>1, <2>4, <2>5, <2>6
<1>10. CASE WriteRing(x)
  <2>1. /\ Writes(x) /\ x < N /\ UNCHANGED <<src, starved, played, pipe>> /\ x \in Rings
        /\ hold[x] \in 1 .. TrackLen /\ x \notin starved
    <3>1. Writes(x) /\ x < N /\ UNCHANGED <<src, starved, played, pipe>>
      BY <1>10 DEF WriteRing
    <3>2. QED  BY <1>1, <1>2, <3>1, ChainNumbers DEF Writes, HandOK, Reads
  <2>2. RingsTyped(ring') /\ late' \subseteq Chain
    <3>1. CASE HasPlace(x) /\ ring' = [ring EXCEPT ![x].data = Append(@, hold[x])]
               /\ late' = late \cup (starved \cap {x + 1})
      <4> DEFINE d == ring[x].data
      <4>1. d \in Seq(1 .. TrackLen) /\ Len(d) < RingCap
        BY <1>2, <2>1, <3>1 DEF RingsTyped, RingType, HasPlace
      <4>2. ring' = [ring EXCEPT ![x].data = Append(d, hold[x])]
        BY <3>1
      <4> HIDE DEF d
      <4>3. Append(d, hold[x]) \in Seq(1 .. TrackLen) /\ Len(Append(d, hold[x])) <= RingCap
        BY <1>2, <2>1, <4>1, AppendProperties
      <4>4. RingsTyped(ring')
        BY <1>2, <2>1, <4>2, <4>3, DataRings
      <4>5. QED  BY <1>2, <3>1, <4>4
    <3>2. CASE /\ ring' = Ended(x, ring) \/ ring' = Ended(x, AbortTaken(x, "write"))
               /\ UNCHANGED late
      <4>1. RingsTyped(AbortTaken(x, "write"))
        BY <1>2, <2>1, AbortTakenRings
      <4>2. QED  BY <1>2, <3>2, <4>1, EndedRings
    <3>3. QED  BY <1>10, <3>1, <3>2 DEF WriteRing
  <2>3. \E o : Ends(x, o)
    BY <1>10 DEF WriteRing
  <2>4. /\ hold' \in [Chain -> 0 .. TrackLen] /\ hold'[x] = 0
        /\ \A y \in Chain : y # x => hold'[y] = hold[y]
    BY <1>1, <2>3, EndsAt
  <2>5. HandOK(x)'
    BY <2>1, <2>4 DEF HandOK
  <2>6. FlowOK'
    BY <1>2, <2>1, <2>2, <2>4 DEF FlowOK
  <2>7. QED  BY <1>4, <2>1, <2>4, <2>5, <2>6
<1>11. QED  BY <1>5, <1>6, <1>7, <1>8, <1>9, <1>10 DEF Element

\* A call leaves the tasks where they work.
LEMMA SendTask ==
  ASSUME NEW e \in E!ElementType, NEW cmd, NEW b
  PROVE  /\ E!Send(e, cmd).task = e.task
         /\ E!Send(E!Cleared(e, b), cmd).task = e.task
  BY DEF E!ElementType, E!Send, E!HasRoom, E!Cleared

LEMMA CallKeepsWork ==
  ASSUME NEW x \in Chain, el \in [Chain -> E!ElementType],
         \/ E!AskRun(Caller, x) \/ E!AskPause(Caller, x) \/ E!AskResume(Caller, x)
         \/ E!AskStop(Caller, x) \/ E!WaitForStop(Caller, x) \/ E!AskTerminate(Caller, x)
         \/ E!CreateTask(Caller, x) \/ E!BitSeen(Caller, x)
  PROVE  \A y \in Chain : Working(y)' <=> Working(y)
<1>1. CASE UNCHANGED el
  BY <1>1 DEF Working, E!At
<1>2. CASE \E e \in E!ElementType : el' = [el EXCEPT ![x] = e] /\ e.task = el[x].task
  <2>1. PICK e \in E!ElementType : el' = [el EXCEPT ![x] = e] /\ e.task = el[x].task
    BY <1>2
  <2>2. \A y \in Chain : el'[y].task = el[y].task
    BY <2>1
  <2>3. QED  BY <2>2 DEF Working, E!At
<1>3. CASE E!CreateTask(Caller, x)
  <2> DEFINE c == E!Cleared(E!Emptied(el[x]), {"CREATED", "STOPPED"})
             k == [c.task EXCEPT ![Task] = "new"]
  <2>1. el' = [el EXCEPT ![x] = E!Goto(c, Task, "new")] /\ el[x].task[Task] = "none"
    <3>1. PICK t \in {Task} : /\ E!At(x, t, "none")
                              /\ el' = [el EXCEPT ![x] = E!Goto(c, t, "new")]
      BY <1>3 DEF E!CreateTask
    <3>2. QED  BY <3>1 DEF E!At
  <2>2. c.task = el[x].task /\ c.task \in [{Task} -> E!Places]
    BY DEF E!ElementType, E!Cleared, E!Emptied
  <2>3. k[Task] = "new"
    BY <2>2
  <2>4. E!Goto(c, Task, "new").task = k
    BY DEF E!Goto, E!Cleared, E!Emptied, E!ElementType
  <2> HIDE DEF c, k
  <2>5. el'[x].task[Task] = "new" /\ \A y \in Chain : y # x => el'[y] = el[y]
    BY <2>1, <2>3, <2>4
  <2>6. QED  BY <2>1, <2>5 DEF Working, E!At
<1>4. CASE E!Pause(Caller, x) \/ E!Resume(Caller, x) \/ E!Stop(Caller, x) \/ E!Terminate(Caller, x)
  <2>1. \E e : el' = [el EXCEPT ![x] = e] /\ e.task = el[x].task
    <3>1. el[x] \in E!ElementType
      OBVIOUS
    <3>2. \E cmd, b : \/ el' = [el EXCEPT ![x] = E!Send(el[x], cmd)]
                      \/ el' = [el EXCEPT ![x] = E!Send(E!Cleared(el[x], b), cmd)]
      BY <1>4 DEF E!Pause, E!Resume, E!Stop, E!Terminate
    <3>3. QED  BY <3>1, <3>2, SendTask
  <2>2. \A y \in Chain : el'[y].task = el[y].task
    BY <2>1
  <2>3. QED  BY <2>2 DEF Working, E!At
<1>5. QED  BY <1>1, <1>3, <1>4 DEF E!AskRun, E!AskPause, E!AskResume, E!AskStop, E!AskTerminate,
     E!RunsAlready, E!Run, E!PauseNotRun, E!PauseResting, E!ResumeNotRun, E!ResumeRunning,
     E!ResumeError, E!ResumeFinished, E!StopNotRun, E!StopStopped, E!WaitForStop,
     E!TerminateNotRun, E!BitSeen, E!Answers

LEMMA HandKept ==
  ASSUME \A y \in Chain : HandOK(y), \A y \in Chain : Working(y)' <=> Working(y),
         UNCHANGED <<hold, starved>>
  PROVE  \A y \in Chain : HandOK(y)'
  BY DEF HandOK, Reads

\* What a function of the pipeline leaves to do.
LEMMA GoneTyped ==
  ASSUME pipe \in PipeType, pipe.todo # <<>>
  PROVE  /\ Gone(pipe) \in PipeType /\ Gone(pipe).todo = Tail(pipe.todo)
         /\ Gone(pipe).state = pipe.state /\ Gone(pipe).op = pipe.op
         /\ Gone(pipe).past = pipe.past /\ Gone(pipe).failed = pipe.failed
         /\ Gone(pipe).ops = pipe.ops /\ Gone(pipe).restarted = pipe.restarted
<1>1. Tail(pipe.todo) \in Seq(Calls)
  BY HeadTailProperties DEF PipeType
<1>2. QED  BY <1>1 DEF Gone, PipeType

LEMMA FailedTyped ==
  ASSUME NEW p \in PipeType, NEW b \in BOOLEAN
  PROVE  /\ [p EXCEPT !.failed = b] \in PipeType /\ [p EXCEPT !.failed = b].todo = p.todo
         /\ [p EXCEPT !.failed = b].state = p.state /\ [p EXCEPT !.failed = b].op = p.op
         /\ [p EXCEPT !.failed = b].past = p.past /\ [p EXCEPT !.failed = b].failed = b
  BY DEF PipeType

\* The calls a function makes, on what it has left to do and on the elements.
LEMMA GoingSteps ==
  ASSUME Going
  PROVE  \/ Started \/ Stopped
         \/ \E x \in Chain : \/ CallRun(x) \/ CallResume(x) \/ Call(x) \/ Answer(x)
                             \/ ResetRings(x)
  BY DEF Going

LEMMA CalledAt ==
  ASSUME GInv, NEW x \in Chain, CallRun(x) \/ CallResume(x) \/ Call(x)
  PROVE  /\ pipe' \in PipeType /\ pipe'.todo = Tail(pipe.todo) /\ pipe.todo # <<>>
         /\ pipe'.state = pipe.state /\ pipe'.op = pipe.op /\ pipe'.past = pipe.past
         /\ UNCHANGED flow /\ NotInCall
         /\ CallRun(x) => pipe'.failed = FALSE
         /\ Call(x) => pipe'.failed = pipe.failed
         /\ CallResume(x) => pipe'.failed = (pipe.failed \/ api'[Caller].ret = "FAIL")
<1>1. pipe \in PipeType
  BY DEF GInv
<1>2. /\ pipe.todo # <<>> /\ UNCHANGED flow /\ NotInCall
      /\ \/ CallRun(x) /\ pipe' = [Gone(pipe) EXCEPT !.failed = FALSE]
         \/ Call(x) /\ pipe' = Gone(pipe)
         \/ CallResume(x) /\ pipe' = [Gone(pipe) EXCEPT !.failed = (Gone(pipe).failed \/ api'[Caller].ret = "FAIL")]
  BY DEF CallRun, CallResume, Call, Due
<1>2a. Call(x) => pipe' = Gone(pipe)
  BY DEF Call
<1>2b. CallRun(x) => pipe' = [Gone(pipe) EXCEPT !.failed = FALSE]
  BY DEF CallRun
<1>2c. CallResume(x) => pipe' = [Gone(pipe) EXCEPT !.failed = (Gone(pipe).failed \/ api'[Caller].ret = "FAIL")]
  BY DEF CallResume
<1> DEFINE g == Gone(pipe)
           b == g.failed \/ api'[Caller].ret = "FAIL"
<1>3. /\ g \in PipeType /\ g.todo = Tail(pipe.todo) /\ g.state = pipe.state /\ g.op = pipe.op
      /\ g.past = pipe.past /\ g.failed = pipe.failed /\ b \in BOOLEAN
  <2>1. g.failed \in BOOLEAN /\ g \in PipeType
    BY <1>1, <1>2, GoneTyped DEF PipeType
  <2>2. QED  BY <1>1, <1>2, <2>1, GoneTyped
<1>3a. b = (pipe.failed \/ api'[Caller].ret = "FAIL")
  BY <1>3
<1> HIDE DEF b
<1>4. /\ CallRun(x) => pipe' = [g EXCEPT !.failed = FALSE]
      /\ CallResume(x) => pipe' = [g EXCEPT !.failed = b]
      /\ Call(x) => pipe' = g
  BY <1>2a, <1>2b, <1>2c DEF b
<1> HIDE DEF g
<1>5. CASE CallRun(x)
  BY <1>2, <1>2c, <1>3, <1>3a, <1>4, <1>5, FailedTyped, ZenonT(40) DEF CallRun, CallResume, Call, Due
<1>6. CASE CallResume(x)
  <2>1. ~CallRun(x) /\ ~Call(x)
    BY <1>6 DEF CallRun, CallResume, Call, Due
  <2>2. QED  BY <1>2, <1>3, <1>3a, <1>4, <1>6, <2>1, FailedTyped, ZenonT(40)
<1>7. CASE Call(x)
  <2>1. ~CallRun(x) /\ ~CallResume(x)
    BY <1>7 DEF CallRun, CallResume, Call, Due
  <2>2. QED  BY <1>2, <1>3, <1>4, <1>7, <2>1
<1>8. QED  BY <1>5, <1>6, <1>7

LEMMA BegunAt ==
  ASSUME pipe \in PipeType, NEW op \in PipeOps, Begin(op)
  PROVE  /\ pipe' \in PipeType /\ pipe'.todo = Program(op, pipe.state) /\ ~pipe'.failed
         /\ pipe'.op = op /\ pipe'.past = pipe.past \cup {op} /\ pipe'.state = pipe.state
         /\ Program(op, pipe.state) # <<>>
         /\ Idle /\ UNCHANGED <<elements, flow>>
         /\ IF op = "wait" THEN pipe.op = "stop" ELSE Patient => Settled
<1> DEFINE r == pipe.restarted \/ /\ op \in {"run", "resume"}
                                  /\ pipe.past \cap {"stop", "terminate"} # {}
           t == Program(op, pipe.state)
<1>1. r \in BOOLEAN /\ t \in Seq(Calls) /\ pipe.ops + 1 \in 0 .. MaxOps
      /\ pipe.past \cup {op} \in SUBSET PipeOps /\ op \in PipeOps \cup {"none"}
  <2>1. r \in BOOLEAN
    BY DEF PipeType
  <2>2. pipe.ops + 1 \in 0 .. MaxOps
    BY SizesAssumption DEF Begin, May, PipeType
  <2>3. pipe.past \cup {op} \in SUBSET PipeOps
    BY DEF PipeType
  <2>4. QED  BY <2>1, <2>2, <2>3, ProgramTyped
<1>2. pipe' = [pipe EXCEPT !.todo = t, !.failed = FALSE, !.op = op,
                           !.past = pipe.past \cup {op}, !.ops = pipe.ops + 1, !.restarted = r]
  BY DEF Begin
<1>3. t # <<>> /\ Idle /\ UNCHANGED <<elements, flow>>
      /\ IF op = "wait" THEN pipe.op = "stop" ELSE Patient => Settled
  BY DEF Begin, May
<1> HIDE DEF r, t
<1>4. /\ pipe' \in PipeType /\ pipe'.todo = t /\ ~pipe'.failed
      /\ pipe'.op = op /\ pipe'.past = pipe.past \cup {op} /\ pipe'.state = pipe.state
  BY <1>1, <1>2 DEF PipeType
<1>5. QED  BY <1>3, <1>4 DEF t

LEMMA BegunNothingAt ==
  ASSUME pipe \in PipeType, NEW op \in PipeOps, BeginsNothing(op)
  PROVE  /\ pipe' \in PipeType /\ pipe'.todo = pipe.todo /\ pipe'.failed = pipe.failed
         /\ pipe'.op = pipe.op /\ pipe'.past = pipe.past /\ pipe'.state = pipe.state
         /\ Idle /\ UNCHANGED <<elements, flow>>
<1>1. pipe.ops + 1 \in 0 .. MaxOps
  BY SizesAssumption DEF BeginsNothing, May, PipeType
<1>2. pipe' = [pipe EXCEPT !.ops = pipe.ops + 1] /\ Idle /\ UNCHANGED <<elements, flow>>
  BY DEF BeginsNothing, May
<1>3. QED  BY <1>1, <1>2 DEF PipeType

LEMMA EndedAt ==
  ASSUME pipe \in PipeType, Started \/ Stopped
  PROVE  /\ pipe' \in PipeType /\ pipe'.op = pipe.op /\ pipe'.past = pipe.past
         /\ UNCHANGED <<elements, flow>> /\ NotInCall /\ pipe.todo # <<>>
         /\ Stopped => pipe'.todo = Tail(pipe.todo) /\ Head(pipe.todo) = <<"stopped", 0>>
         /\ Started => /\ Head(pipe.todo) = <<"started", 0>> /\ pipe'.failed = pipe.failed
                       /\ IF pipe.failed
                          THEN pipe'.state = "ERROR" /\ pipe'.todo = Terminate("ERROR")
                          ELSE pipe'.state = "RUNNING" /\ pipe'.todo = Tail(pipe.todo)
<1>1. UNCHANGED <<elements, flow>> /\ NotInCall /\ pipe.todo # <<>>
  BY DEF Started, Stopped, Due
<1>2. Started => Head(pipe.todo) = <<"started", 0>>
  BY DEF Started, Due
<1>3. Stopped => Head(pipe.todo) = <<"stopped", 0>> /\ pipe' = [Gone(pipe) EXCEPT !.state = "INIT"]
  BY DEF Stopped, Due
<1>4. Started => pipe' = IF pipe.failed
                         THEN [pipe EXCEPT !.state = "ERROR", !.todo = Terminate("ERROR")]
                         ELSE [Gone(pipe) EXCEPT !.state = "RUNNING"]
  BY DEF Started
<1>5. Terminate("ERROR") \in Seq(Calls)
  BY TerminateProgram
<1> DEFINE g == Gone(pipe)
           t == Terminate("ERROR")
<1>6. /\ g \in PipeType /\ g.todo = Tail(pipe.todo) /\ g.op = pipe.op /\ g.past = pipe.past
      /\ g.failed = pipe.failed
  BY <1>1, GoneTyped
<1>7. /\ Stopped => pipe' = [g EXCEPT !.state = "INIT"]
      /\ Started => pipe' = IF pipe.failed
                            THEN [pipe EXCEPT !.state = "ERROR", !.todo = t]
                            ELSE [g EXCEPT !.state = "RUNNING"]
      /\ t \in Seq(Calls)
  BY <1>3, <1>4, <1>5
<1> HIDE DEF g, t
<1>8. CASE Stopped
  <2>1. ~Started
    BY <1>2, <1>3, <1>8
  <2>2. pipe' \in PipeType /\ pipe'.op = pipe.op /\ pipe'.past = pipe.past /\ pipe'.todo = Tail(pipe.todo)
    BY <1>6, <1>7, <1>8 DEF PipeType
  <2>3. QED  BY <1>1, <1>3, <1>8, <2>1, <2>2
<1>9. CASE Started
  <2>1. ~Stopped
    BY <1>2, <1>3, <1>9
  <2>2. CASE pipe.failed
    <3>1. pipe' = [pipe EXCEPT !.state = "ERROR", !.todo = t]
      BY <1>7, <1>9, <2>2
    <3>2. /\ pipe' \in PipeType /\ pipe'.op = pipe.op /\ pipe'.past = pipe.past /\ pipe'.todo = t
          /\ pipe'.state = "ERROR" /\ pipe'.failed = pipe.failed
      BY <1>7, <3>1 DEF PipeType
    <3>3. QED  BY <1>1, <1>2, <1>9, <2>1, <2>2, <3>2 DEF t
  <2>3. CASE ~pipe.failed
    <3>1. pipe' = [g EXCEPT !.state = "RUNNING"]
      BY <1>7, <1>9, <2>3
    <3>2. /\ pipe' \in PipeType /\ pipe'.op = pipe.op /\ pipe'.past = pipe.past
          /\ pipe'.todo = Tail(pipe.todo)
          /\ pipe'.state = "RUNNING" /\ pipe'.failed = pipe.failed
      BY <1>6, <3>1 DEF PipeType
    <3>3. QED  BY <1>1, <1>2, <1>9, <2>1, <2>3, <3>2
  <2>4. QED  BY <2>2, <2>3
<1>10. QED  BY <1>8, <1>9

LEMMA ResetAt ==
  ASSUME GInv, NEW x \in Chain, ResetRings(x)
  PROVE  /\ pipe' \in PipeType /\ pipe'.todo = Tail(pipe.todo) /\ pipe.todo # <<>>
         /\ Head(pipe.todo) = <<"reset", x>> /\ NotInCall
         /\ pipe'.state = pipe.state /\ pipe'.op = pipe.op /\ pipe'.past = pipe.past
         /\ UNCHANGED <<elements, src, hold, starved, played, late>>
         /\ RingsTyped(ring')
<1>1. /\ pipe.todo # <<>> /\ Head(pipe.todo) = <<"reset", x>> /\ NotInCall
      /\ UNCHANGED <<elements, src, hold, starved, played, late>>
      /\ pipe' = Gone(pipe) /\ ring' = Reset({x - 1, x})
  BY DEF ResetRings, Due
<1>2. RingsTyped(ring')
  BY <1>1, ResetRingsAt DEF GInv, FlowOK
<1>3. QED  BY <1>1, <1>2, GoneTyped DEF GInv

LEMMA GInvBegins == Init => GInv
<1> SUFFICES ASSUME Init PROVE GInv
  OBVIOUS
<1>1. EP!LInv
  BY LivesBegin
<1>2. FlowOK
  <2>1. EmptyRing \in RingType /\ Len(EmptyRing.data) = 0 /\ RingCap \in Nat /\ TrackLen \in Nat
    <3>1. <<>> \in Seq(1 .. TrackLen) /\ Len(<<>>) = 0
      OBVIOUS
    <3>2. QED  BY <3>1, SizesAssumption DEF EmptyRing, RingType
  <2> HIDE DEF EmptyRing
  <2>2. ring = [i \in Rings |-> EmptyRing] /\ src = 0 /\ hold = [x \in Chain |-> 0]
        /\ starved = {} /\ played = <<>> /\ late = {}
    BY DEF Init
  <2>3. RingsTyped(ring)
    BY <2>1, <2>2 DEF RingsTyped
  <2>4. QED  BY <2>1, <2>2, <2>3 DEF FlowOK
<1>3. \A x \in Chain : HandOK(x)
  BY DEF Init, HandOK
<1>4. pipe \in PipeType
  <2>1. <<>> \in Seq(Calls) /\ {} \in SUBSET PipeOps /\ 0 \in 0 .. MaxOps
    BY SizesAssumption
  <2>2. QED  BY <2>1 DEF Init, PipeType
<1>5. QED  BY <1>1, <1>2, <1>3, <1>4 DEF GInv

LEMMA GInvStep == GInv /\ [Next]_vars => GInv'
<1> SUFFICES ASSUME GInv, [Next]_vars PROVE GInv'
  OBVIOUS
<1>1. EP!LInv' /\ el \in [Chain -> E!ElementType] /\ FlowOK /\ (\A y \in Chain : HandOK(y))
      /\ pipe \in PipeType
  BY LivesStep, LivesTyped DEF GInv
<1>2. ASSUME UNCHANGED <<elements, flow>> PROVE FlowOK' /\ \A y \in Chain : HandOK(y)'
  <2>1. UNCHANGED <<el, ring, src, hold, starved, played, late>>
    BY <1>2 DEF elements, flow
  <2>2. FlowOK'
    BY <1>1, <2>1 DEF FlowOK
  <2>3. \A y \in Chain : Working(y)' <=> Working(y)
    BY <2>1 DEF Working, E!At
  <2>4. QED  BY <1>1, <2>1, <2>2, <2>3, HandKept
<1>3. CASE UNCHANGED vars
  <2>1. UNCHANGED <<elements, flow>> /\ UNCHANGED pipe
    BY <1>3 DEF vars
  <2>2. QED  BY <1>1, <1>2, <2>1 DEF GInv
<1>4. ASSUME NEW x \in Chain, Element(x) PROVE GInv'
  <2>1. UNCHANGED pipe
    BY <1>1, <1>4, ElementElsewhere
  <2>2. QED  BY <1>1, <1>4, <2>1, ElementFlow DEF GInv
<1>5. ASSUME NEW op \in PipeOps, BeginsNothing(op) \/ Begin(op) PROVE GInv'
  <2>1. pipe' \in PipeType /\ UNCHANGED <<elements, flow>>
    BY <1>1, <1>5, BegunAt, BegunNothingAt
  <2>2. QED  BY <1>1, <1>2, <2>1 DEF GInv
<1>6. CASE Started \/ Stopped
  <2>1. pipe' \in PipeType /\ UNCHANGED <<elements, flow>>
    BY <1>1, <1>6, EndedAt
  <2>2. QED  BY <1>1, <1>2, <2>1 DEF GInv
<1>7. ASSUME NEW x \in Chain, CallRun(x) \/ CallResume(x) \/ Call(x) \/ Answer(x) PROVE GInv'
  <2>1. UNCHANGED flow /\ pipe' \in PipeType
    <3>1. CASE Answer(x)
      BY <1>1, <3>1 DEF Answer
    <3>2. CASE CallRun(x) \/ CallResume(x) \/ Call(x)
      BY <3>2, CalledAt
    <3>3. QED  BY <1>7, <3>1, <3>2
  <2>2. UNCHANGED <<ring, src, hold, starved, played, late>>
    BY <2>1 DEF flow
  <2>3. \A y \in Chain : Working(y)' <=> Working(y)
    <3>1. CASE UNCHANGED elements
      BY <3>1 DEF elements, Working, E!At
    <3>2. CASE ~UNCHANGED elements
      <4>1. \/ E!AskRun(Caller, x) \/ E!AskPause(Caller, x) \/ E!AskResume(Caller, x)
            \/ E!AskStop(Caller, x) \/ E!WaitForStop(Caller, x) \/ E!AskTerminate(Caller, x)
            \/ E!CreateTask(Caller, x) \/ E!BitSeen(Caller, x)
        BY <1>7, <3>2 DEF CallRun, CallResume, Call, Answer
      <4>2. QED  BY <1>1, <4>1, CallKeepsWork
    <3>3. QED  BY <3>1, <3>2
  <2>4. FlowOK'
    BY <1>1, <2>2 DEF FlowOK
  <2>5. QED  BY <1>1, <2>1, <2>2, <2>3, <2>4, HandKept DEF GInv
<1>8. ASSUME NEW x \in Chain, ResetRings(x) PROVE GInv'
  <2>1. UNCHANGED <<elements, src, hold, starved, played, late>> /\ RingsTyped(ring') /\ pipe' \in PipeType
    BY <1>8, ResetAt
  <2>2. FlowOK'
    BY <1>1, <2>1 DEF FlowOK
  <2>3. \A y \in Chain : Working(y)' <=> Working(y)
    BY <2>1 DEF Working, E!At, elements
  <2>4. QED  BY <1>1, <2>1, <2>2, <2>3, HandKept DEF GInv
<1>9. QED  BY <1>3, <1>4, <1>5, <1>6, <1>7, <1>8, GoingSteps DEF Next

LEMMA GInvTyped == GInv => TypeOK
<1> SUFFICES ASSUME GInv PROVE TypeOK
  OBVIOUS
<1>1. E!TypeOK /\ FlowOK /\ (\A y \in Chain : HandOK(y)) /\ pipe \in PipeType
  BY LivesTyped DEF GInv
<1>2. \A x \in starved : Reads(x)
  BY <1>1 DEF FlowOK, HandOK
<1>3. /\ pipe.state \in {"INIT", "RUNNING", "ERROR"} /\ pipe.ops \in 0 .. MaxOps
      /\ pipe.todo \in Seq(Calls)
  BY <1>1 DEF PipeType
<1>4. QED  BY <1>1, <1>2, <1>3 DEF TypeOK, FlowOK, RingsTyped, RingType

-----------------------------------------------------------------------------
(* The blocks under way, for any rings and hands.                          *)
Carried(h, x) == IF h[x] = 0 THEN <<>> ELSE <<h[x]>>
Flight(r, h) ==
  CHOOSE f : f = [x \in Chain |->
                    Carried(h, x) \o IF x = 1 THEN <<>> ELSE r[x - 1].data \o f[x - 1]]

LEMMA InFlightIs == InFlight = Flight(ring, hold) /\ InFlight' = Flight(ring', hold')
  BY DEF InFlight, Flight, InHand, Carried

IsFlight(r, h, n, f) ==
  f = [x \in 1 .. n |->
         Carried(h, x) \o IF x = 1 THEN <<>> ELSE r[x - 1].data \o f[x - 1]]

LEMMA FlightExists ==
  ASSUME NEW n \in Nat, NEW r, NEW h
  PROVE  \E f : IsFlight(r, h, n, f)
<1> DEFINE B(g, x) == Carried(h, x) \o IF x = 1 THEN <<>> ELSE r[x - 1].data \o g[x - 1]
           P(k) == \E f : f = [x \in 1 .. k |-> B(f, x)]
           T == {k \in Nat : P(k)}
<1>1. 0 \in T
  <2>1. 1 .. 0 = {}
    OBVIOUS
  <2> DEFINE f == [i \in 1 .. 0 |-> i]
  <2>2. f = [x \in 1 .. 0 |-> B(f, x)]
    BY <2>1
  <2>3. QED  BY <2>2
<1>2. ASSUME NEW k \in Nat, k \in T PROVE k + 1 \in T
  <2>1. PICK f : f = [x \in 1 .. k |-> B(f, x)]
    BY <1>2
  <2> DEFINE F(x) == B(f, x)
             g == [x \in 1 .. k + 1 |-> F(x)]
             G(x) == B(g, x)
  <2>2. f = [x \in 1 .. k |-> F(x)]
    BY <2>1
  <2>3. \A x \in 1 .. k + 1 : G(x) = F(x)
    <3>1. \A x \in 1 .. k : g[x] = f[x]
      <4> HIDE DEF F
      <4>1. QED  BY <2>2
    <3>2. ASSUME NEW x \in 1 .. k + 1, x # 1 PROVE g[x - 1] = f[x - 1]
      <4>1. x - 1 \in 1 .. k
        BY <3>2
      <4> HIDE DEF g
      <4>2. QED  BY <3>1, <4>1
    <3> HIDE DEF g
    <3>3. QED  BY <3>2
  <2>4. g = [x \in 1 .. k + 1 |-> G(x)]
    <3> HIDE DEF F, G
    <3>1. QED  BY <2>3
  <2>5. P(k + 1)
    <3> HIDE DEF g
    <3>1. QED  BY <2>4
  <2> HIDE DEF P
  <2>6. QED  BY <2>5
<1> HIDE DEF T
<1>3. n \in T
  BY <1>1, <1>2, Induction
<1> HIDE DEF P
<1>4. P(n)
  BY <1>3 DEF T
<1>5. QED  BY <1>4 DEF P, IsFlight

LEMMA FlightSteps ==
  ASSUME NEW r, NEW h
  PROVE  /\ Flight(r, h)[1] = Carried(h, 1) \o <<>>
         /\ \A x \in 2 .. N : Flight(r, h)[x] = Carried(h, x) \o (r[x - 1].data \o Flight(r, h)[x - 1])
<1> DEFINE f == Flight(r, h)
           B(x) == Carried(h, x) \o IF x = 1 THEN <<>> ELSE r[x - 1].data \o f[x - 1]
<1>1. f = [x \in Chain |-> B(x)]
  <2>1. N \in Nat
    BY ChainNumbers
  <2>2. \E g : IsFlight(r, h, N, g)
    BY <2>1, FlightExists
  <2>3. PICK g : g = [x \in Chain |-> Carried(h, x) \o IF x = 1 THEN <<>> ELSE r[x - 1].data \o g[x - 1]]
    BY <2>2 DEF IsFlight, Chain
  <2>4. QED  BY <2>3 DEF Flight
<1> HIDE DEF f
<1>2. \A x \in Chain : f[x] = B(x)
  <2> HIDE DEF B
  <2>1. QED  BY <1>1
<1>3. 1 \in Chain /\ B(1) = Carried(h, 1) \o <<>>
  BY ChainNumbers
<1>4. ASSUME NEW x \in 2 .. N PROVE f[x] = Carried(h, x) \o (r[x - 1].data \o f[x - 1])
  <2>1. x \in Chain /\ x # 1
    BY ChainNumbers DEF Chain
  <2>2. B(x) = Carried(h, x) \o (r[x - 1].data \o f[x - 1])
    BY <2>1
  <2> HIDE DEF B
  <2>3. QED  BY <1>2, <2>1, <2>2
<1> HIDE DEF B
<1>5. f[1] = Carried(h, 1) \o <<>>
  BY <1>2, <1>3
<1>6. QED  BY <1>4, <1>5 DEF f

HoldTyped(h) == h \in [Chain -> 0 .. TrackLen]

LEMMA CarriedTyped ==
  ASSUME NEW h, HoldTyped(h), NEW x \in Chain
  PROVE  /\ Carried(h, x) \in Seq(1 .. TrackLen)
         /\ h[x] = 0 => Carried(h, x) = <<>>
         /\ h[x] # 0 => Carried(h, x) = <<h[x]>> /\ h[x] \in 1 .. TrackLen
<1>1. h[x] \in 0 .. TrackLen /\ TrackLen \in Nat
  BY SizesAssumption DEF HoldTyped
<1> DEFINE v == h[x]
<1>2. v \in 0 .. TrackLen /\ TrackLen \in Nat
  BY <1>1
<1>3. v # 0 => Carried(h, x) = <<v>>
  BY DEF Carried
<1>4. v = 0 => Carried(h, x) = <<>>
  BY DEF Carried
<1>5. SUFFICES Carried(h, x) \in Seq(1 .. TrackLen) /\ (v # 0 => v \in 1 .. TrackLen)
  BY <1>3, <1>4
<1> HIDE DEF v
<1>6. v # 0 => v \in 1 .. TrackLen
  BY <1>2
<1>7. <<>> \in Seq(1 .. TrackLen)
  OBVIOUS
<1>8. v \in 1 .. TrackLen => <<v>> \in Seq(1 .. TrackLen)
  OBVIOUS
<1>9. QED  BY <1>3, <1>4, <1>6, <1>7, <1>8

LEMMA FlightTyped ==
  ASSUME NEW r, NEW h, RingsTyped(r), HoldTyped(h)
  PROVE  \A x \in Chain : Flight(r, h)[x] \in Seq(1 .. TrackLen)
<1> DEFINE f == Flight(r, h)
           T == {x \in Chain : f[x] \in Seq(1 .. TrackLen)}
<1>1. /\ f[1] = Carried(h, 1) \o <<>>
      /\ \A x \in 2 .. N : f[x] = Carried(h, x) \o (r[x - 1].data \o f[x - 1])
  BY FlightSteps
<1> HIDE DEF f
<1>2. 1 \in T
  <2>1. Carried(h, 1) \in Seq(1 .. TrackLen) /\ 1 \in Chain
    BY ChainNumbers, CarriedTyped
  <2>2. Carried(h, 1) \o <<>> \in Seq(1 .. TrackLen)
    BY <2>1
  <2>3. QED  BY <1>1, <2>1, <2>2
<1>3. ASSUME NEW i \in 1 .. N - 1, i \in T PROVE i + 1 \in T
  <2> DEFINE j == i + 1
  <2>1. j \in 2 .. N /\ j - 1 = i /\ j \in Chain /\ i \in Rings
    BY ChainNumbers DEF Chain, Rings
  <2> HIDE DEF j
  <2>2. f[j] = Carried(h, j) \o (r[i].data \o f[i])
    BY <1>1, <2>1
  <2>3. Carried(h, j) \in Seq(1 .. TrackLen) /\ r[i].data \in Seq(1 .. TrackLen)
    BY <2>1, CarriedTyped DEF RingsTyped, RingType
  <2>4. f[i] \in Seq(1 .. TrackLen)
    BY <1>3
  <2>5. r[i].data \o f[i] \in Seq(1 .. TrackLen)
    BY <2>3, <2>4
  <2>6. f[j] \in Seq(1 .. TrackLen)
    BY <2>2, <2>3, <2>5
  <2>7. QED  BY <2>1, <2>6 DEF j
<1> HIDE DEF T
<1>4. 1 .. N \subseteq T
  BY <1>2, <1>3, ChainNumbers, UpTo
<1>5. QED  BY <1>4 DEF T, Chain, f

\* What is alike up to an element is alike there.
LEMMA FlightBelow ==
  ASSUME NEW r, NEW h, NEW rr, NEW hh, NEW m \in Chain,
         \A x \in 1 .. m : hh[x] = h[x], \A x \in 2 .. m : rr[x - 1].data = r[x - 1].data
  PROVE  Flight(rr, hh)[m] = Flight(r, h)[m]
<1> DEFINE f == Flight(r, h)
           g == Flight(rr, hh)
           T == {x \in 1 .. m : g[x] = f[x]}
<1>1. /\ f[1] = Carried(h, 1) \o <<>> /\ g[1] = Carried(hh, 1) \o <<>>
      /\ \A x \in 2 .. N : f[x] = Carried(h, x) \o (r[x - 1].data \o f[x - 1])
      /\ \A x \in 2 .. N : g[x] = Carried(hh, x) \o (rr[x - 1].data \o g[x - 1])
  BY FlightSteps, ZenonT(40)
<1> HIDE DEF f, g
<1>2. m \in Nat \ {0} /\ m <= N /\ N \in Nat
  BY ChainNumbers
<1>3. \A x \in 1 .. m : Carried(hh, x) = Carried(h, x)
  BY DEF Carried
<1>4. 1 \in T
  <2>1. 1 \in 1 .. m
    BY <1>2
  <2>2. QED  BY <1>1, <1>3, <2>1
<1>5. ASSUME NEW i \in 1 .. m - 1, i \in T PROVE i + 1 \in T
  <2> DEFINE j == i + 1
  <2>1. j \in 2 .. N /\ j - 1 = i /\ j \in 2 .. m /\ j \in 1 .. m
    BY <1>2
  <2> HIDE DEF j
  <2>2. f[j] = Carried(h, j) \o (r[i].data \o f[i]) /\ g[j] = Carried(hh, j) \o (rr[i].data \o g[i])
    BY <1>1, <2>1
  <2>3. Carried(hh, j) = Carried(h, j) /\ rr[i].data = r[i].data /\ g[i] = f[i]
    BY <1>3, <1>5, <2>1
  <2>4. g[j] = f[j]
    BY <2>2, <2>3
  <2>5. QED  BY <2>1, <2>4 DEF j
<1> HIDE DEF T
<1>6. 1 .. m \subseteq T
  BY <1>2, <1>4, <1>5, UpTo
<1>7. m \in T
  BY <1>2, <1>6
<1>8. QED  BY <1>7 DEF T, f, g

Rebracketed(a, b, c) == (a \o b) \o c = a \o (b \o c)

LEMMA Rebracket ==
  ASSUME NEW S, NEW a \in Seq(S), NEW b \in Seq(S), NEW c \in Seq(S)
  PROVE  Rebracketed(a, b, c) /\ a \o b \in Seq(S)
  BY ConcatAssociative DEF Rebracketed

FlowsAt(r, h, x) ==
  Flight(r, h)[x] = Carried(h, x) \o (r[x - 1].data \o Flight(r, h)[x - 1])
Alike(r, h, rr, hh, a, b) ==
  \A x \in a .. b : hh[x] = h[x] /\ (x > 1 => rr[x - 1].data = r[x - 1].data)
Longer(r, h, rr, hh, m, t) == Flight(rr, hh)[m] = Flight(r, h)[m] \o t

\* What is longer by t at an element, and alike above it, is longer by t at the end.
LEMMA AlikeAbove ==
  ASSUME NEW r, NEW h, NEW rr, NEW hh, NEW m \in Chain, NEW t \in Seq(1 .. TrackLen),
         RingsTyped(r), HoldTyped(h),
         Longer(r, h, rr, hh, m, t), Alike(r, h, rr, hh, m + 1, N)
  PROVE  Longer(r, h, rr, hh, N, t)
<1> DEFINE f == Flight(r, h)
           g == Flight(rr, hh)
           T == {x \in Nat : m + x <= N => g[m + x] = f[m + x] \o t}
<1>1. /\ \A x \in 2 .. N : f[x] = Carried(h, x) \o (r[x - 1].data \o f[x - 1])
      /\ \A x \in 2 .. N : g[x] = Carried(hh, x) \o (rr[x - 1].data \o g[x - 1])
      /\ \A x \in Chain : f[x] \in Seq(1 .. TrackLen)
      /\ g[m] = f[m] \o t
  BY FlightSteps, FlightTyped DEF Longer
<1> HIDE DEF f, g
<1>2. m \in Nat \ {0} /\ m <= N /\ N \in Nat
  BY ChainNumbers
<1>9. \A x \in m + 1 .. N : hh[x] = h[x] /\ rr[x - 1].data = r[x - 1].data
  BY <1>2 DEF Alike
<1>3. \A x \in m + 1 .. N : Carried(hh, x) = Carried(h, x)
  BY <1>9 DEF Carried
<1>4. 0 \in T
  <2>1. m + 0 = m
    BY <1>2
  <2>2. QED  BY <1>1, <2>1
<1>5. ASSUME NEW i \in Nat, i \in T PROVE i + 1 \in T
  <2> DEFINE j == m + (i + 1)
             k == m + i
  <2>1. SUFFICES ASSUME j <= N PROVE g[j] = f[j] \o t
    OBVIOUS
  <2>2. j \in 2 .. N /\ j - 1 = k /\ j \in m + 1 .. N /\ j \in Chain /\ k \in Rings /\ k \in Chain /\ k <= N
    BY <1>2, <2>1 DEF Chain, Rings
  <2>2a. g[k] = f[k] \o t
    BY <1>5, <2>2
  <2> HIDE DEF j, k
  <2>3. f[j] = Carried(h, j) \o (r[k].data \o f[k]) /\ g[j] = Carried(hh, j) \o (rr[k].data \o g[k])
    BY <1>1, <2>2
  <2>4. Carried(hh, j) = Carried(h, j) /\ rr[k].data = r[k].data
    <3>1. rr[j - 1].data = r[j - 1].data
      BY <1>9, <2>2
    <3>2. QED  BY <1>3, <2>2, <3>1
  <2> DEFINE a == Carried(h, j)
             b == r[k].data
             c == f[k]
  <2>5. a \in Seq(1 .. TrackLen) /\ b \in Seq(1 .. TrackLen) /\ c \in Seq(1 .. TrackLen)
    BY <1>1, <2>2, CarriedTyped DEF RingsTyped, RingType
  <2>6. f[j] = a \o (b \o c) /\ g[j] = a \o (b \o (c \o t))
    BY <2>2a, <2>3, <2>4
  <2> HIDE DEF a, b, c
  <2>7. Rebracketed(b, c, t) /\ b \o c \in Seq(1 .. TrackLen)
    BY <2>5, Rebracket
  <2>8. Rebracketed(a, b \o c, t)
    BY <2>5, <2>7, Rebracket
  <2>9. QED  BY <2>6, <2>7, <2>8 DEF Rebracketed
<1> HIDE DEF T
<1>6. Nat \subseteq T
  BY <1>4, <1>5, Induction
<1>7. N - m \in T /\ m + (N - m) = N /\ m + (N - m) <= N
  BY <1>2, <1>6
<1>8. QED  BY <1>7 DEF T, f, g, Longer

LEMMA FlowsOn ==
  ASSUME NEW r, NEW h, NEW x \in 2 .. N
  PROVE  FlowsAt(r, h, x)
  BY FlightSteps DEF FlowsAt

LEMMA AlikeBelow ==
  ASSUME NEW r, NEW h, NEW rr, NEW hh, NEW m \in Chain, Alike(r, h, rr, hh, 1, m)
  PROVE  Flight(rr, hh)[m] = Flight(r, h)[m]
<1>1. m \in Nat
  BY ChainNumbers
<1>2. (\A x \in 1 .. m : hh[x] = h[x]) /\ \A x \in 2 .. m : rr[x - 1].data = r[x - 1].data
  BY <1>1 DEF Alike
<1>3. QED  BY <1>2, FlightBelow

-----------------------------------------------------------------------------
(* A pipeline nothing was asked of, and the one run of a pipeline that was  *)
(* only run.                                                                *)
Fresh ==
  /\ pipe.todo = <<>> /\ pipe.state = "INIT" /\ NotInCall
  /\ \A x \in Chain : Absent(el[x])
  /\ ring = [i \in Rings |-> EmptyRing] /\ src = 0 /\ hold = [x \in Chain |-> 0]
  /\ starved = {} /\ played = <<>> /\ late = {}

\* The calls audio_pipeline_run has made.
Made == 2 * N + 1 - Len(pipe.todo)

CallsInOrder ==
  /\ Len(pipe.todo) <= 2 * N + 1
  /\ \A i \in 1 .. Len(pipe.todo) : pipe.todo[i] = Run("INIT")[Made + i]
  /\ pipe.state = IF pipe.todo = <<>> THEN "RUNNING" ELSE "INIT"
  /\ ~pipe.failed

CallerInOrder ==
  /\ api[Caller].in \in {"nothing", "create", "run"}
  /\ api[Caller].in # "nothing" => api[Caller].on = Made /\ Made \in Chain

\* Where its calls have brought an element.
PhaseOK(x) ==
  /\ x > Made \/ (x = Made /\ api[Caller].in = "create") => Absent(el[x])
  /\ x = Made /\ api[Caller].in = "run" => Coming(el[x]) \/ Ready(el[x], <<>>)
  /\ x < Made \/ (x = Made /\ NotInCall) =>
       IF Made < N + x THEN Ready(el[x], <<>>)
       ELSE Ready(el[x], <<"RESUME">>) \/ Launched(el[x])

Launching == CallsInOrder /\ CallerInOrder /\ \A x \in Chain : PhaseOK(x)

Well == \A x \in Chain : ~Sick(el[x])

\* The end of the stream goes down the chain element by element, behind the data.
EndsInOrder ==
  /\ Unbroken /\ \A x \in Chain : ~Stops(el[x])
  /\ \A i \in Rings : ring[i].done => Over(el[i])
  /\ Over(el[1]) => src = TrackLen
  /\ \A i \in Rings : Over(el[i + 1]) => ring[i].done
  /\ \A i \in Rings : i + 1 \notin late /\ (i + 1 \in starved \/ Over(el[i + 1]))
                        => ring[i].data = <<>>

Streaming == EndsInOrder /\ played \o InFlight[N] = Blocks(src)

FirstInv ==
  /\ pipe.past = {} => Fresh
  /\ pipe.past = {"run"} => Launching /\ (Well => Streaming)

-----------------------------------------------------------------------------
(* The first run: where the calls of audio_pipeline_run have come to.      *)
LEMMA NextCall ==
  ASSUME pipe \in PipeType, CallsInOrder, pipe.todo # <<>>
  PROVE  /\ Made \in 0 .. 2 * N
         /\ \/ Made < N /\ Head(pipe.todo) = <<"run", Made + 1>>
            \/ Made >= N /\ Made < 2 * N /\ Head(pipe.todo) = <<"resume", Made + 1 - N>>
            \/ Made = 2 * N /\ Head(pipe.todo) = <<"started", 0>>
         /\ pipe.state = "INIT"
<1> DEFINE s == pipe.todo
           m == Made
<1>1. s \in Seq(Calls) /\ s # <<>> /\ Len(s) \in Nat /\ Len(s) >= 1 /\ Head(s) = s[1]
      /\ Len(s) <= 2 * N + 1
  <2>1. pipe.todo \in Seq(Calls)
    BY DEF PipeType
  <2>2. QED  BY <2>1 DEF CallsInOrder
<1>2. m = 2 * N + 1 - Len(s) /\ N \in Nat \ {0}
  BY ChainNumbers DEF Made
<1> DEFINE p == Run("INIT")
<1>3. s[1] = p[m + 1]
  BY <1>1 DEF CallsInOrder
<1>4. /\ \A x \in 1 .. N : p[x] = <<"run", x>> /\ p[N + x] = <<"resume", x>>
      /\ p[2 * N + 1] = <<"started", 0>>
  BY RunProgram DEF Chain
<1>5. pipe.state = "INIT"
  BY DEF CallsInOrder
<1> HIDE DEF s, m, p
<1>6. m \in 0 .. 2 * N
  BY <1>1, <1>2
<1>7. CASE m < N
  <2>1. m + 1 \in 1 .. N
    BY <1>2, <1>6, <1>7
  <2>2. Head(s) = <<"run", m + 1>>
    BY <1>1, <1>3, <1>4, <2>1
  <2>3. QED  BY <1>5, <1>6, <1>7, <2>2 DEF m, s
<1>8. CASE m >= N /\ m < 2 * N
  <2> DEFINE y == m + 1 - N
  <2>1. y \in 1 .. N /\ N + y = m + 1
    BY <1>2, <1>6, <1>8
  <2> HIDE DEF y
  <2>2. Head(s) = <<"resume", y>>
    BY <1>1, <1>3, <1>4, <2>1
  <2>3. QED  BY <1>5, <1>6, <1>8, <2>2 DEF m, s, y
<1>9. CASE m = 2 * N
  <2>2. Head(s) = <<"started", 0>>
    BY <1>1, <1>3, <1>4, <1>9
  <2>3. QED  BY <1>5, <1>6, <1>9, <2>2 DEF m, s
<1>10. QED  BY <1>2, <1>6, <1>7, <1>8, <1>9

LEMMA MadeRange ==
  ASSUME pipe \in PipeType, CallsInOrder
  PROVE  Made \in 0 .. 2 * N + 1 /\ N \in Nat \ {0} /\ (pipe.todo = <<>> => Made = 2 * N + 1)
<1>1. pipe.todo \in Seq(Calls) /\ Len(pipe.todo) <= 2 * N + 1 /\ N \in Nat \ {0}
  BY ChainNumbers DEF PipeType, CallsInOrder
<1>2. QED  BY <1>1 DEF Made

LEMMA EmptyLen ==
  ASSUME NEW S, NEW s \in Seq(S)
  PROVE  Len(s) \in Nat /\ (s = <<>> <=> Len(s) = 0)
  BY EmptySeq, LenProperties

\* One call fewer.
LEMMA OneLess ==
  ASSUME pipe \in PipeType, CallsInOrder, pipe.todo # <<>>, pipe'.todo = Tail(pipe.todo),
         ~pipe'.failed, pipe'.state = IF Made = 2 * N THEN "RUNNING" ELSE pipe.state
  PROVE  CallsInOrder' /\ Made' = Made + 1
<1> DEFINE s == pipe.todo
           t == pipe'.todo
           p == Run("INIT")
<1>1. /\ s \in Seq(Calls) /\ s # <<>> /\ Len(s) <= 2 * N + 1 /\ t = Tail(s) /\ N \in Nat
      /\ \A i \in 1 .. Len(s) : s[i] = p[2 * N + 1 - Len(s) + i]
  BY ChainNumbers DEF PipeType, CallsInOrder, Made
<1>2. pipe.state = "INIT"
  BY DEF CallsInOrder
<1>3. p = Run("INIT")'
  BY DEF Run, Each, Resume
<1> HIDE DEF s, t, p
<1>4. /\ Len(s) \in Nat \ {0} /\ t \in Seq(Calls) /\ Len(t) = Len(s) - 1
      /\ \A i \in 1 .. Len(t) : t[i] = s[i + 1]
  BY <1>1, HeadTailProperties
<1>6. t = <<>> <=> Len(t) = 0
  BY <1>4, EmptyLen
<1> DEFINE k == Len(s)
           l == Len(t)
<1>7. k \in Nat \ {0} /\ l = k - 1 /\ k <= 2 * N + 1 /\ N \in Nat
  BY <1>1, <1>4
<1>8. Made = 2 * N + 1 - k /\ Made' = 2 * N + 1 - l
  BY DEF Made, s, t
<1>5. ASSUME NEW i \in 1 .. l PROVE t[i] = p[2 * N + 1 - l + i]
  <2> DEFINE j == i + 1
  <2>0. i \in 1 .. Len(t)
    OBVIOUS
  <2>1. j \in 1 .. k /\ 2 * N + 1 - k + j = 2 * N + 1 - l + i
    <3> HIDE DEF k, l
    <3>1. QED  BY <1>7
  <2>2. t[i] = s[j] /\ s[j] = p[2 * N + 1 - k + j]
    BY <1>1, <1>4, <2>0, <2>1
  <2> HIDE DEF j, k, l
  <2>3. QED  BY <2>1, <2>2
<1>9. /\ Made' = Made + 1 /\ (Made = 2 * N <=> k = 1) /\ (l = 0 <=> k = 1) /\ l <= 2 * N + 1
  <2> HIDE DEF k, l
  <2>1. QED  BY <1>7, <1>8
<1>11. pipe'.state = IF t = <<>> THEN "RUNNING" ELSE "INIT"
  BY <1>2, <1>6, <1>9
<1>12. \A i \in 1 .. Len(t) : t[i] = p[Made' + i]
  BY <1>5, <1>8
<1>10. CallsInOrder'
  BY <1>3, <1>9, <1>11, <1>12 DEF CallsInOrder, t
<1>13. QED  BY <1>9, <1>10

\* The run begins.
LEMMA RunBegins ==
  ASSUME pipe' \in PipeType, pipe'.todo = Run("INIT"), ~pipe'.failed, pipe'.state = "INIT"
  PROVE  CallsInOrder' /\ Made' = 0
<1> DEFINE p == Run("INIT")
<1>1. Len(p) = 2 * N + 1 /\ N \in Nat \ {0}
  BY RunProgram, ChainNumbers
<1>2. p = Run("INIT")'
  BY DEF Run, Each, Resume
<1>3. pipe'.todo = p /\ p \in Seq(Calls)
  BY RunProgram
<1> HIDE DEF p
<1>4. p # <<>>
  BY <1>1, <1>3, EmptyLen
<1>5. Made' = 0
  BY <1>1, <1>3 DEF Made
<1>6. \A i \in 1 .. Len(p) : p[i] = p[0 + i]
  BY <1>1
<1>7. QED  BY <1>1, <1>2, <1>3, <1>4, <1>5, <1>6 DEF CallsInOrder

\* The steps of an element of the first run.
Onward(e, f) ==
  /\ ~Absent(e)
  /\ Coming(e) => Ready(f, <<>>)
  /\ Ready(e, <<>>) => Ready(f, <<>>)
  /\ Ready(e, <<"RESUME">>) \/ Launched(e) => Ready(f, <<"RESUME">>) \/ Launched(f)

AsBefore(e, f) == (Over(e) <=> Over(f)) /\ (Stops(e) <=> Stops(f)) /\ (Sick(e) => Sick(f))

InRun(e) == Absent(e) \/ Coming(e) \/ FirstRun(e)

\* The phases exclude each other.
LEMMA OnePhase ==
  /\ \A e : Absent(e) => ~Coming(e) /\ ~FirstRun(e)
  /\ \A e : Coming(e) => ~FirstRun(e)
  /\ \A e : Ready(e, <<>>) => ~Ready(e, <<"RESUME">>) /\ ~Launched(e)
  /\ \A e : Ready(e, <<"RESUME">>) => ~Launched(e)
<1>1. \A e : Absent(e) => ~Coming(e) /\ ~FirstRun(e)
  BY DEF Absent, Coming, FirstRun, Ready, Launched, Opening, Running, Leaving, Resting, Failing,
         Broken
<1>2. \A e : Coming(e) => ~FirstRun(e)
  BY DEF Coming, FirstRun, Ready, Launched, Opening, Running, Leaving, Resting, Failing, Broken
<1>3. \A e : Ready(e, <<>>) => ~Ready(e, <<"RESUME">>) /\ ~Launched(e)
  BY OneTail DEF Ready, Launched, Opening, Running, Leaving, Resting, Failing, Broken
<1>4. \A e : Ready(e, <<"RESUME">>) => ~Launched(e)
  BY OneTail DEF Ready, Launched, Opening, Running, Leaving, Resting, Failing, Broken
<1>5. QED  BY <1>1, <1>2, <1>3, <1>4

\* An element that waits for its run has nothing to say.
LEMMA QuietPhases ==
  \A e : Absent(e) \/ Coming(e) \/ Ready(e, <<>>) \/ Ready(e, <<"RESUME">>) \/ Opening(e)
           \/ Running(e)
         => ~Over(e) /\ ~Stops(e) /\ ~Sick(e)
  BY OneTail DEF Absent, Coming, Ready, Opening, Running, Over, Stops, Sick

\* What is over, or has stopped, is not at work.
LEMMA OverRests ==
  ASSUME NEW x \in Chain, InRun(el[x]), Working(x)
  PROVE  Running(el[x]) /\ ~Over(el[x])
<1>1. Place(el[x]) = "work"
  BY DEF Working, E!At, Place
<1>2. Running(el[x])
  BY <1>1 DEF InRun, Absent, Coming, FirstRun, Ready, Launched, Opening, Running, Leaving, Resting,
             Failing, Broken
<1>3. QED  BY <1>2, QuietPhases

LEMMA QuietAlone ==
  ASSUME NEW x \in Chain, Quiet(x), ~Foreign(x)
  PROVE  ~OnError(x) /\ ~OnStop(x) /\ ~OnResume(x)
<1>1. ~Place(el[x]) = "loop" \/ el[x].queue = <<>> \/ Head(el[x].queue) = "FINISH"
  BY DEF Quiet, Foreign, E!TaskCreated, E!TaskBoots, E!Poll, E!OnFinish, E!Halts, E!OpenSucceeds,
         E!Starts, E!OpenRefused, E!SkipsProcess, E!EntersProcess, E!Receives, E!At, Place
<1>2. QED  BY <1>1 DEF OnError, OnStop, OnResume, E!OnError, E!OnStop, E!OnResume, E!Receives,
                       E!At, Place

LEMMA HandlersOnward ==
  ASSUME NEW x \in Chain, el \in [Chain -> E!ElementType], InRun(el[x]),
         Quiet(x) \/ OnError(x) \/ OnStop(x) \/ OnResume(x)
  PROVE  /\ Onward(el[x], el'[x]) /\ AsBefore(el[x], el'[x])
         /\ OnError(x) => Sick(el[x])
         /\ OnStop(x) => Stops(el[x])
         /\ OnResume(x) => el[x].state = "INIT"
<1> DEFINE e == el[x]
           f == el'[x]
<1>1. CASE Absent(e) \/ Coming(e)
  <2>1. Place(e) \in {"none", "new"}
    BY <1>1 DEF Absent, Coming
  <2>2. Quiet(x) /\ ~OnError(x) /\ ~OnStop(x) /\ ~OnResume(x)
    BY <2>1, NoTaskNoStep
  <2>3. E!TaskCreated(x, Task) /\ Place(e) = "new"
    BY <2>1, <2>2, NoTaskNoStep
  <2>4. Coming(e) /\ ~Absent(e)
    BY <1>1, <2>3 DEF Absent
  <2>5. Ready(f, <<>>)
    BY <2>3, <2>4, TaskCreatedAt
  <2>6. ~FirstRun(e)
    BY <2>4, OnePhase
  <2>7. AsBefore(e, f)
    BY <2>4, <2>5, QuietPhases DEF AsBefore
  <2>8. Onward(e, f)
    BY <2>4, <2>5, <2>6 DEF Onward, FirstRun
  <2>9. QED  BY <2>2, <2>7, <2>8
<1>2. CASE FirstRun(e)
  <2>0. ~Absent(e) /\ ~Coming(e)
    BY <1>2, OnePhase
  <2>1. ASSUME Launched(e), Launched(f) PROVE Onward(e, f)
    BY <2>0, <2>1, OnePhase DEF Onward
  <2>2. CASE OnError(x)
    <3>1. E!OnError(x, Task)
      BY <2>2 DEF OnError
    <3>2. Failing(e) /\ Launched(f) /\ Same(e, f)
      BY <1>2, <3>1, OnErrorAt DEF FirstRun
    <3>3. Launched(e) /\ Sick(e)
      BY <1>2, <3>2, OneTail DEF FirstRun, Ready, Launched, Failing, Sick
    <3>4. ~OnStop(x) /\ ~OnResume(x)
      BY <3>2, OneTail DEF Failing, OnStop, OnResume, E!OnStop, E!OnResume, E!Receives
    <3>5. QED  BY <2>1, <3>2, <3>3, <3>4 DEF AsBefore, Same
  <2>3. CASE OnStop(x)
    <3>1. E!OnStop(x, Task)
      BY <2>3 DEF OnStop
    <3>2. Leaving(e) /\ Launched(f) /\ Same(e, f)
      BY <1>2, <3>1, OnHaltAt
    <3>3. Head(e.queue) = "STOP"
      BY <3>1 DEF E!OnStop, E!Receives
    <3>4. e.queue = <<"STOP">>
      BY <3>2, <3>3, OneTail DEF Leaving
    <3>5. Launched(e) /\ Stops(e)
      BY <1>2, <3>2, <3>4, OneTail DEF FirstRun, Ready, Launched, Leaving, Stops
    <3>6. ~OnError(x) /\ ~OnResume(x)
      BY <3>3 DEF OnError, OnResume, E!OnError, E!OnResume, E!Receives
    <3>7. QED  BY <2>1, <3>2, <3>5, <3>6 DEF AsBefore, Same
  <2>4. CASE OnResume(x)
    <3>1. E!OnResume(x, Task)
      BY <2>4 DEF OnResume
    <3>2. Ready(e, <<"RESUME">>) /\ Opening(f) /\ f.taskRun /\ Same(e, f)
      BY <1>2, <3>1, OnResumeAt
    <3>3. Launched(f) /\ e.state = "INIT"
      BY <3>2 DEF Launched, Ready
    <3>4. ~OnError(x) /\ ~OnStop(x)
      BY <3>1 DEF OnError, OnStop, E!OnError, E!OnStop, E!OnResume, E!Receives
    <3>5. Onward(e, f)
      BY <2>0, <3>2, <3>3, OnePhase DEF Onward
    <3>6. QED  BY <3>2, <3>3, <3>4, <3>5 DEF AsBefore, Same
  <2>5. CASE Quiet(x)
    <3>1. ~OnError(x) /\ ~OnStop(x) /\ ~OnResume(x)
      BY <1>2, <2>5, NotForeign, QuietAlone
    <3>2. Onward(e, f) /\ AsBefore(e, f)
      <4>1. \/ E!TaskBoots(x, Task) \/ E!OnFinish(x, Task) \/ E!OpenSucceeds(x, Task)
            \/ E!Starts(x, Task) \/ E!OpenRefused(x, Task)
            \/ E!Poll(x, Task) \/ E!Halts(x, Task) \/ E!SkipsProcess(x, Task)
            \/ E!EntersProcess(x, Task)
        <5>1. ~Foreign(x)
          BY <1>2, NotForeign
        <5>2. ~E!TaskCreated(x, Task)
          BY <1>2 DEF E!TaskCreated, E!At, FirstRun, Ready, Launched, Opening, Running, Leaving,
                      Resting, Failing, Broken, Place
        <5>3. QED  BY <2>5, <5>1, <5>2 DEF Quiet, Foreign
      <4>2. CASE E!TaskBoots(x, Task)
        <5>1. Place(e) = "boot"
          BY <4>2 DEF E!TaskBoots, E!At, Place
        <5>2. Ready(e, <<>>) \/ Ready(e, <<"RESUME">>)
          BY <1>2, <5>1 DEF FirstRun, Launched, Opening, Running, Leaving, Resting, Failing, Broken
        <5>3. /\ Ready(e, <<>>) => Ready(f, <<>>)
              /\ Ready(e, <<"RESUME">>) => Ready(f, <<"RESUME">>)
          BY <4>2, TaskBootsAt
        <5>4. ~Launched(e)
          BY <5>2, OnePhase
        <5>5. AsBefore(e, f)
          BY <5>2, <5>3, QuietPhases DEF AsBefore
        <5>6. QED  BY <2>0, <5>3, <5>4, <5>5 DEF Onward
      <4>3. CASE E!OnFinish(x, Task)
        <5>1. Leaving(e) /\ Launched(f) /\ Same(e, f)
          BY <1>2, <4>3, OnHaltAt
        <5>2. Launched(e)
          BY <1>2, <5>1, OneTail DEF FirstRun, Ready, Launched, Leaving
        <5>3. QED  BY <2>1, <5>1, <5>2 DEF AsBefore, Same
      <4>4. CASE E!OpenSucceeds(x, Task)
        BY <1>2, <2>1, <4>4, OpenSucceedsAt DEF AsBefore, Same
      <4>5. CASE E!Starts(x, Task)
        BY <1>2, <2>1, <4>5, StartsAt DEF AsBefore, Same
      <4>6. CASE E!OpenRefused(x, Task)
        BY <1>2, <2>1, <4>6, OpenRefusedAt DEF AsBefore
      <4>7. CASE E!Poll(x, Task) \/ E!Halts(x, Task) \/ E!SkipsProcess(x, Task) \/ E!EntersProcess(x, Task)
        BY <1>2, <2>1, <4>7, QuietAt DEF AsBefore, Same
      <4>8. QED  BY <4>1, <4>2, <4>3, <4>4, <4>5, <4>6, <4>7
    <3>3. QED  BY <3>1, <3>2
  <2>6. QED  BY <2>2, <2>3, <2>4, <2>5
<1>3. QED  BY <1>1, <1>2 DEF InRun

LEMMA WorkOnward ==
  ASSUME NEW x \in Chain, el \in [Chain -> E!ElementType], InRun(el[x]), NEW o \in Outs, Ends(x, o)
  PROVE  /\ Onward(el[x], el'[x])
         /\ ~Over(el[x]) /\ ~Stops(el[x]) /\ ~Sick(el[x]) /\ ~Sick(el'[x])
         /\ (Over(el'[x]) <=> o = "done") /\ (Stops(el'[x]) <=> o = "abort")
<1>1. E!Works(x, Task, o)
  BY DEF Ends
<1>2. ~Absent(el[x]) /\ ~Coming(el[x])
  BY <1>1 DEF E!Works, E!At, Absent, Coming, Place
<1>3. FirstRun(el[x])
  BY <1>2 DEF InRun
<1>4. /\ Running(el[x]) /\ el[x].taskRun /\ Launched(el'[x]) /\ ~Sick(el'[x])
      /\ (Over(el'[x]) <=> o = "done") /\ (Stops(el'[x]) <=> o = "abort")
  BY <1>1, <1>3, WorksAt
<1>5. ~Over(el[x]) /\ ~Stops(el[x]) /\ ~Sick(el[x])
  BY <1>4, QuietPhases
<1>6. Launched(el[x])
  BY <1>4 DEF Launched
<1>7. QED  BY <1>2, <1>4, <1>5, <1>6, OnePhase DEF Onward

\* Any step of an element takes it onward, and what has failed has failed.
LEMMA ElementOnward ==
  ASSUME NEW x \in Chain, el \in [Chain -> E!ElementType], InRun(el[x]), Element(x)
  PROVE  Onward(el[x], el'[x]) /\ (Sick(el[x]) => Sick(el'[x]))
<1>1. CASE Quiet(x) \/ OnError(x) \/ OnStop(x) \/ OnResume(x)
  BY <1>1, HandlersOnward DEF AsBefore
<1>2. CASE ReadSource(x) \/ ReadRing(x) \/ StarvedGoesOn(x) \/ Play(x) \/ WriteRing(x)
  <2>1. (\E o \in Outs : Ends(x, o)) \/ (UNCHANGED elements /\ Working(x))
    BY <1>2 DEF ReadSource, ReadRing, StarvedGoesOn, Play, WriteRing, Outs, Reads, Writes
  <2>2. CASE UNCHANGED elements /\ Working(x)
    <3>1. el' = el
      BY <2>2 DEF elements
    <3>2. ~Absent(el[x]) /\ ~Coming(el[x])
      BY <2>2 DEF Working, E!At, Absent, Coming, Place
    <3>3. QED  BY <3>1, <3>2 DEF Onward
  <2>3. QED  BY <2>1, <2>2, WorkOnward
<1>3. QED  BY <1>1, <1>2 DEF Element

\* Every element is in one of the phases.
LEMMA PhaseInRun ==
  ASSUME pipe \in PipeType, Launching, NEW x \in Chain
  PROVE  InRun(el[x])
<1>1. Made \in Int /\ x \in Int /\ N \in Int
  BY MadeRange, ChainNumbers DEF Launching
<1>2. /\ PhaseOK(x)
      /\ NotInCall \/ (api[Caller].in \in {"create", "run"} /\ api[Caller].on = Made)
  BY DEF Launching, CallerInOrder, NotInCall
<1>3. x > Made \/ x < Made \/ x = Made
  BY <1>1
<1>4. QED  BY <1>2, <1>3 DEF PhaseOK, InRun, FirstRun

\* The tasks of the elements keep the phases.
LEMMA ElementLaunching ==
  ASSUME GInv, Launching, NEW x \in Chain, Element(x)
  PROVE  Launching'
<1>1. el \in [Chain -> E!ElementType] /\ pipe \in PipeType
  BY LivesTyped DEF GInv
<1>2. (\A y \in Chain : y # x => el'[y] = el[y]) /\ UNCHANGED <<api, pipe>>
  BY <1>1, ElementElsewhere
<1>3. InRun(el[x])
  BY <1>1, PhaseInRun
<1>4. Onward(el[x], el'[x])
  BY <1>1, <1>3, ElementOnward
<1>5. Made' = Made /\ CallsInOrder' /\ CallerInOrder' /\ (NotInCall' <=> NotInCall)
  <2>1. Run("INIT")' = Run("INIT")
    BY DEF Run, Each, Resume
  <2>2. Made' = Made
    BY <1>2 DEF Made
  <2>3. QED  BY <1>2, <2>1, <2>2 DEF Launching, CallsInOrder, CallerInOrder, NotInCall
<1>6. ASSUME NEW y \in Chain PROVE PhaseOK(y)'
  <2>1. PhaseOK(y)
    BY DEF Launching
  <2>2. CASE y # x
    <3>1. el'[y] = el[y]
      BY <1>2, <2>2
    <3>2. QED  BY <1>2, <1>5, <2>1, <3>1 DEF PhaseOK
  <2>3. CASE y = x
    BY <1>2, <1>4, <1>5, <2>1, <2>3 DEF PhaseOK, Onward
  <2>4. QED  BY <2>2, <2>3
<1>7. QED  BY <1>5, <1>6 DEF Launching

LEMMA ApiAt ==
  ASSUME GInv, NEW c, api' = [api EXCEPT ![Caller] = c]
  PROVE  api'[Caller] = c
<1>1. Caller \in DOMAIN api
  BY LivesTyped DEF GInv
<1>2. QED  BY <1>1

\* The next call of audio_pipeline_run: audio_element_run.
LEMMA CallRunLaunching ==
  ASSUME GInv, Launching, NEW x \in Chain, CallRun(x)
  PROVE  Launching' /\ UNCHANGED el
<1>1. el \in [Chain -> E!ElementType] /\ pipe \in PipeType /\ CallsInOrder
  BY LivesTyped DEF GInv, Launching
<1>2. /\ pipe'.todo = Tail(pipe.todo) /\ pipe.todo # <<>> /\ pipe'.state = pipe.state
      /\ ~pipe'.failed /\ Head(pipe.todo) = <<"run", x>> /\ NotInCall
  BY CalledAt DEF CallRun, Due
<1>3. Made \in 0 .. 2 * N /\ Made < N /\ x = Made + 1
  <2>1. \A a, b, c, d : <<a, b>> = <<c, d>> => a = c /\ b = d
    OBVIOUS
  <2>2. QED  BY <1>1, <1>2, <2>1, NextCall
<1>4. N \in Nat \ {0} /\ N # 0
  BY ChainNumbers
<1>5. CallsInOrder' /\ Made' = Made + 1
  <2>1. Made # 2 * N
    BY <1>3, <1>4
  <2>2. QED  BY <1>1, <1>2, <2>1, OneLess
<1>6. Absent(el[x])
  <2>1. x > Made
    BY <1>3
  <2>2. QED  BY <2>1 DEF Launching, PhaseOK
<1>7. E!Run(Caller, x)
  <2>1. el[x].state = "INIT" /\ ~el[x].taskRun
    BY <1>6 DEF Absent
  <2>2. E!AskRun(Caller, x)
    BY <2>1 DEF CallRun
  <2>3. QED  BY <2>1, <2>2 DEF E!AskRun, E!RunsAlready
<1>8. UNCHANGED el /\ api'[Caller].in = "create" /\ api'[Caller].on = x
  <2>1. UNCHANGED el /\ api' = [api EXCEPT ![Caller] = [api[Caller] EXCEPT !.in = "create", !.on = x]]
    BY <1>7 DEF E!Run, E!Waits
  <2>2. api[Caller] \in E!CallType
    BY LivesTyped DEF GInv
  <2> DEFINE c == [api[Caller] EXCEPT !.in = "create", !.on = x]
  <2>3. c.in = "create" /\ c.on = x
    BY <2>2 DEF E!CallType
  <2> HIDE DEF c
  <2>4. api'[Caller] = c
    BY <2>1, ApiAt DEF c
  <2>5. QED  BY <2>1, <2>3, <2>4
<1>9. CallerInOrder'
  BY <1>3, <1>5, <1>8 DEF CallerInOrder
<1>10. ASSUME NEW y \in Chain PROVE PhaseOK(y)'
  <2>1. PhaseOK(y) /\ y \in Nat \ {0}
    BY ChainNumbers DEF Launching
  <2>2. /\ y > Made' => y > Made
        /\ y = Made' => y > Made
        /\ y < Made' => y < Made \/ y = Made
        /\ Made' < N + y /\ Made < N + y
    BY <1>3, <1>4, <1>5, <2>1
  <2>3. ~NotInCall' /\ api'[Caller].in # "run"
    BY <1>8 DEF NotInCall
  <2>4. QED  BY <1>2, <1>8, <2>1, <2>2, <2>3 DEF PhaseOK
<1>11. QED  BY <1>5, <1>8, <1>9, <1>10 DEF Launching

\* ... and its two halves: the task is made, and says that it is there.
LEMMA AnswerLaunching ==
  ASSUME GInv, Launching, NEW x \in Chain, Answer(x)
  PROVE  /\ Launching' /\ \A y \in Chain : y # x => el'[y] = el[y]
         /\ el'[x] = el[x] \/ (Absent(el[x]) /\ Coming(el'[x]))
<1>1. el \in [Chain -> E!ElementType] /\ pipe \in PipeType /\ CallsInOrder /\ UNCHANGED pipe
      /\ api[Caller] \in E!CallType
  BY LivesTyped DEF GInv, Launching, Answer
<1>2. Made' = Made /\ CallsInOrder'
  <2>1. Run("INIT")' = Run("INIT")
    BY DEF Run, Each, Resume
  <2>2. Made' = Made
    BY <1>1 DEF Made
  <2>3. QED  BY <1>1, <2>1, <2>2 DEF CallsInOrder
<1>3. Made \in Nat /\ N \in Nat \ {0}
  BY <1>1, MadeRange
<1>4. CASE E!CreateTask(Caller, x)
  <2>1. api[Caller].in = "create" /\ x = Made
    BY <1>4 DEF E!CreateTask, E!In, Launching, CallerInOrder
  <2>2. Absent(el[x])
    BY <2>1 DEF Launching, PhaseOK
  <2> DEFINE e == el[x]
             d == E!Cleared(E!Emptied(e), {"CREATED", "STOPPED"})
             k == [d.task EXCEPT ![Task] = "new"]
             g == [d EXCEPT !.task = k]
  <2>3. el' = [el EXCEPT ![x] = g]
    <3>1. \E t \in {Task} : el' = [el EXCEPT ![x] = E!Goto(E!Cleared(E!Emptied(el[x]), {"CREATED", "STOPPED"}), t, "new")]
      BY <1>4 DEF E!CreateTask
    <3>2. QED  BY <3>1 DEF E!Goto
  <2>4. /\ d \in E!ElementType /\ d.queue = <<>> /\ d.taskRun = e.taskRun /\ d.state = e.state
        /\ d.isOpen = e.isOpen /\ d.isRunning = e.isRunning /\ "CREATED" \notin d.bits
    <3>1. e \in E!ElementType
      BY <1>1
    <3> HIDE DEF e
    <3>2. <<>> \in Seq(E!Cmds) /\ e.bits \ {"CREATED", "STOPPED"} \in SUBSET E!Bits
      BY <3>1 DEF E!ElementType
    <3>3. QED  BY <3>1, <3>2 DEF E!Cleared, E!Emptied, E!ElementType
  <2> HIDE DEF d
  <2>5. k[Task] = "new"
    BY <2>4 DEF E!ElementType
  <2> HIDE DEF k
  <2>6. /\ g.task = k /\ g.queue = <<>> /\ g.taskRun = e.taskRun /\ g.state = e.state
        /\ g.isOpen = e.isOpen /\ g.isRunning = e.isRunning /\ "CREATED" \notin g.bits
    BY <2>4 DEF E!ElementType
  <2> HIDE DEF g
  <2>7. el'[x] = g /\ \A y \in Chain : y # x => el'[y] = el[y]
    BY <1>1, <2>3
  <2>8. Coming(el'[x])
    BY <2>2, <2>5, <2>6, <2>7 DEF Absent, Coming, Place
  <2>9. api'[Caller].in = "run" /\ api'[Caller].on = x
    <3>1. api' = [api EXCEPT ![Caller] = [api[Caller] EXCEPT !.in = "run", !.on = x]]
      BY <1>4 DEF E!CreateTask, E!Waits
    <3> DEFINE c == [api[Caller] EXCEPT !.in = "run", !.on = x]
    <3>2. c.in = "run" /\ c.on = x
      BY <1>1 DEF E!CallType
    <3> HIDE DEF c
    <3>3. api'[Caller] = c
      BY <3>1, ApiAt DEF c
    <3>4. QED  BY <3>2, <3>3
  <2>10. CallerInOrder'
    BY <1>2, <2>1, <2>9 DEF CallerInOrder
  <2>11. ASSUME NEW y \in Chain PROVE PhaseOK(y)'
    <3>1. PhaseOK(y) /\ y \in Nat
      BY ChainNumbers DEF Launching
    <3>2. CASE y = x
      <4>1. ~(y > Made') /\ ~(y < Made') /\ ~NotInCall' /\ api'[Caller].in # "create"
        BY <1>2, <1>3, <2>1, <2>9, <3>1, <3>2 DEF NotInCall
      <4>2. QED  BY <2>8, <3>2, <4>1 DEF PhaseOK
    <3>3. CASE y # x
      <4>1. el'[y] = el[y] /\ y # Made
        BY <2>1, <2>7, <3>3
      <4>2. QED  BY <1>2, <3>1, <4>1 DEF PhaseOK
    <3>4. QED  BY <3>2, <3>3
  <2>12. QED  BY <1>2, <2>2, <2>7, <2>8, <2>10, <2>11 DEF Launching
<1>5. CASE E!BitSeen(Caller, x)
  <2>1. UNCHANGED el /\ api[Caller].in \in DOMAIN E!AwaitedBit /\ api[Caller].on = x
        /\ E!AwaitedBit[api[Caller].in] \in el[x].bits
    BY <1>5 DEF E!BitSeen
  <2>2. api[Caller].in = "run" /\ x = Made
    BY <2>1 DEF E!AwaitedBit, Launching, CallerInOrder
  <2>3. "CREATED" \in el[x].bits
    BY <2>1, <2>2 DEF E!AwaitedBit
  <2>4. Ready(el[x], <<>>)
    BY <2>2, <2>3 DEF Launching, PhaseOK, Coming
  <2>5. api'[Caller].in = "nothing"
    <3>1. \E op : api' = [api EXCEPT ![Caller] = [in |-> "nothing", on |-> x, ret |-> "OK", op |-> op]]
      BY <1>5 DEF E!BitSeen, E!Returns
    <3>2. PICK op : api' = [api EXCEPT ![Caller] = [in |-> "nothing", on |-> x, ret |-> "OK", op |-> op]]
      BY <3>1
    <3> DEFINE c == [in |-> "nothing", on |-> x, ret |-> "OK", op |-> op]
    <3>3. c.in = "nothing"
      OBVIOUS
    <3> HIDE DEF c
    <3>4. api'[Caller] = c
      BY <3>2, ApiAt DEF c
    <3>5. QED  BY <3>3, <3>4
  <2>6. CallerInOrder'
    BY <2>5 DEF CallerInOrder
  <2>7. ASSUME NEW y \in Chain PROVE PhaseOK(y)'
    <3>1. PhaseOK(y) /\ y \in Nat
      BY ChainNumbers DEF Launching
    <3>2. CASE y = x
      <4>1. ~(y > Made') /\ ~(y < Made') /\ Made' < N + y /\ api'[Caller].in \notin {"create", "run"}
        BY <1>2, <1>3, <2>2, <2>5, <3>1, <3>2
      <4>2. QED  BY <2>1, <2>4, <3>2, <4>1 DEF PhaseOK
    <3>3. CASE y # x
      BY <1>2, <2>1, <2>2, <2>5, <3>1, <3>3 DEF PhaseOK
    <3>4. QED  BY <3>2, <3>3
  <2>8. QED  BY <1>2, <2>1, <2>6, <2>7 DEF Launching
<1>6. QED  BY <1>4, <1>5 DEF Answer

\* audio_element_resume.
LEMMA CallResumeLaunching ==
  ASSUME GInv, Launching, NEW x \in Chain, CallResume(x)
  PROVE  /\ Launching' /\ \A y \in Chain : y # x => el'[y] = el[y]
         /\ Ready(el[x], <<>>) /\ Ready(el'[x], <<"RESUME">>)
<1>1. el \in [Chain -> E!ElementType] /\ pipe \in PipeType /\ CallsInOrder
  BY LivesTyped DEF GInv, Launching
<1>2. /\ pipe'.todo = Tail(pipe.todo) /\ pipe.todo # <<>> /\ pipe'.state = pipe.state
      /\ pipe'.failed = (pipe.failed \/ api'[Caller].ret = "FAIL")
      /\ Head(pipe.todo) = <<"resume", x>> /\ NotInCall /\ ~pipe.failed
  BY CalledAt DEF CallResume, Due, Launching, CallsInOrder
<1>3. Made \in 0 .. 2 * N /\ Made >= N /\ Made < 2 * N /\ x = Made + 1 - N
  <2>1. \A a, b, c, d : <<a, b>> = <<c, d>> => a = c /\ b = d
    OBVIOUS
  <2>2. QED  BY <1>1, <1>2, <2>1, NextCall
<1>4. N \in Nat \ {0}
  BY ChainNumbers
<1>5. Ready(el[x], <<>>)
  <2>1. (x < Made \/ x = Made) /\ Made < N + x
    BY <1>3, <1>4
  <2>2. QED  BY <1>2, <2>1 DEF Launching, PhaseOK
<1>6. E!Resume(Caller, x)
  <2>1. el[x].taskRun /\ el[x].state = "INIT" /\ ~el[x].isRunning
    BY <1>5 DEF Ready
  <2>2. E!AskResume(Caller, x)
    BY DEF CallResume
  <2>3. QED  BY <2>1, <2>2 DEF E!AskResume, E!ResumeNotRun, E!ResumeRunning, E!ResumeError,
                               E!ResumeFinished
<1>7. api'[Caller].in = "nothing" /\ api'[Caller].ret = "OK"
  <2>1. \E op : api' = [api EXCEPT ![Caller] = [in |-> "nothing", on |-> x, ret |-> "OK", op |-> op]]
    BY <1>6 DEF E!Resume, E!Returns
  <2>2. PICK op : api' = [api EXCEPT ![Caller] = [in |-> "nothing", on |-> x, ret |-> "OK", op |-> op]]
    BY <2>1
  <2> DEFINE c == [in |-> "nothing", on |-> x, ret |-> "OK", op |-> op]
  <2>3. c.in = "nothing" /\ c.ret = "OK"
    OBVIOUS
  <2> HIDE DEF c
  <2>4. api'[Caller] = c
    BY <2>2, ApiAt DEF c
  <2>5. QED  BY <2>3, <2>4
<1>8. CallsInOrder' /\ Made' = Made + 1
  <2>1. ~pipe'.failed
    BY <1>2, <1>7
  <2>2. Made # 2 * N
    BY <1>3, <1>4
  <2>3. QED  BY <1>1, <1>2, <2>1, <2>2, OneLess
<1>9. Ready(el'[x], <<"RESUME">>) /\ \A y \in Chain : y # x => el'[y] = el[y]
  <2> DEFINE s == E!Send(el[x], "RESUME")
  <2>1. el' = [el EXCEPT ![x] = s]
    BY <1>6 DEF E!Resume
  <2>2. el[x] \in E!ElementType /\ el[x].queue = <<>> /\ "RESUME" \in E!Cmds
    BY <1>1, <1>5 DEF Ready, E!Cmds
  <2>3. /\ s.queue = <<"RESUME">> /\ s.taskRun = el[x].taskRun /\ s.state = el[x].state
        /\ s.wait = el[x].wait /\ s.isOpen = el[x].isOpen /\ s.isRunning = el[x].isRunning
        /\ s.task = el[x].task
    BY <2>2, SendAt, SendTask
  <2> HIDE DEF s
  <2>4. el'[x] = s /\ \A y \in Chain : y # x => el'[y] = el[y]
    BY <1>1, <2>1
  <2>5. QED  BY <1>5, <2>3, <2>4 DEF Ready, Place
<1>10. CallerInOrder'
  BY <1>7 DEF CallerInOrder
<1>11. ASSUME NEW y \in Chain PROVE PhaseOK(y)'
  <2>1. PhaseOK(y) /\ y \in Nat /\ y <= N
    BY ChainNumbers DEF Launching
  <2>2. ~(y > Made') /\ api'[Caller].in \notin {"create", "run"} /\ (y < Made \/ y = Made)
    BY <1>3, <1>4, <1>7, <1>8, <2>1
  <2>3. CASE y = x
    <3>1. ~(Made' < N + y)
      BY <1>3, <1>4, <1>8, <2>1, <2>3
    <3>2. QED  BY <1>9, <2>2, <2>3, <3>1 DEF PhaseOK
  <2>4. CASE y # x
    <3>1. Made' < N + y <=> Made < N + y
      BY <1>3, <1>4, <1>8, <2>1, <2>4
    <3>2. el'[y] = el[y]
      BY <1>9, <2>4
    <3>3. QED  BY <1>2, <2>1, <2>2, <3>1, <3>2 DEF PhaseOK
  <2>5. QED  BY <2>3, <2>4
<1>12. QED  BY <1>5, <1>8, <1>9, <1>10, <1>11 DEF Launching

\* The end of audio_pipeline_run.
LEMMA EndLaunching ==
  ASSUME GInv, Launching, Started \/ Stopped
  PROVE  Launching' /\ UNCHANGED <<elements, flow>>
<1>1. el \in [Chain -> E!ElementType] /\ pipe \in PipeType /\ CallsInOrder /\ ~pipe.failed
  BY LivesTyped DEF GInv, Launching, CallsInOrder
<1>2. UNCHANGED <<elements, flow>> /\ NotInCall /\ pipe.todo # <<>>
      /\ Head(pipe.todo) \in {<<"started", 0>>, <<"stopped", 0>>}
  BY <1>1, EndedAt
<1>3. Head(pipe.todo) = <<"started", 0>> /\ Made = 2 * N
  <2>1. \A a, b, c, d : <<a, b>> = <<c, d>> => a = c /\ b = d
    OBVIOUS
  <2>2. QED  BY <1>1, <1>2, <2>1, NextCall
<1>4. Started
  <2>1. ~Stopped
    BY <1>1, <1>3, EndedAt
  <2>2. QED  BY <2>1
<1>5. pipe'.state = "RUNNING" /\ pipe'.todo = Tail(pipe.todo) /\ ~pipe'.failed
  BY <1>1, <1>4, EndedAt
<1>6. CallsInOrder' /\ Made' = Made + 1
  BY <1>1, <1>2, <1>3, <1>5, OneLess
<1>7. UNCHANGED <<el, api>>
  BY <1>2 DEF elements
<1>8. CallerInOrder'
  BY <1>2, <1>7 DEF CallerInOrder, NotInCall
<1>9. ASSUME NEW y \in Chain PROVE PhaseOK(y)'
  <2>1. PhaseOK(y) /\ y \in Nat /\ y <= N /\ N \in Nat \ {0}
    BY ChainNumbers DEF Launching
  <2>2. ~(y > Made') /\ api'[Caller].in \notin {"create", "run"} /\ (y < Made \/ y = Made)
        /\ ~(Made' < N + y) /\ ~(Made < N + y)
    BY <1>2, <1>3, <1>6, <1>7, <2>1 DEF NotInCall
  <2>3. QED  BY <1>2, <1>7, <2>1, <2>2 DEF PhaseOK
<1>10. QED  BY <1>2, <1>6, <1>8, <1>9 DEF Launching

\* audio_pipeline_run makes no other call.
LEMMA NoOtherCall ==
  ASSUME GInv, Launching, NEW x \in Chain
  PROVE  ~Call(x) /\ ~ResetRings(x)
<1>1. pipe \in PipeType /\ CallsInOrder
  BY DEF GInv, Launching
<1>2. ASSUME Call(x) \/ ResetRings(x) PROVE FALSE
  <2>1. pipe.todo # <<>> /\ \E what \in {"pause", "stop", "wait", "terminate", "reset"} : Head(pipe.todo) = <<what, x>>
    BY <1>2 DEF Call, ResetRings, Due
  <2>2. \A a, b, c, d : <<a, b>> = <<c, d>> => a = c /\ b = d
    OBVIOUS
  <2>3. QED  BY <1>1, <2>1, <2>2, NextCall
<1>3. QED  BY <1>2

-----------------------------------------------------------------------------
(* The stream of the first run.                                            *)
LEMMA EndsStep ==
  ASSUME EndsInOrder, NEW x \in Chain, \A y \in Chain : y # x => el'[y] = el[y],
         ~Stops(el'[x]), Over(el[x]) => Over(el'[x]),
         \A i \in Rings : /\ ring'[i].abort = ring[i].abort
                          /\ ring[i].done => ring'[i].done
                          /\ ring'[i].done => ring[i].done \/ (i = x /\ Over(el'[x])),
         Over(el'[1]) => src' = TrackLen,
         x > 1 /\ Over(el'[x]) => ring[x - 1].done,
         \A i \in Rings : i + 1 \notin late' /\ (i + 1 \in starved' \/ Over(el'[i + 1]))
                            => ring'[i].data = <<>>
  PROVE  EndsInOrder'
<1>1. Unbroken'
  BY DEF EndsInOrder, Unbroken
<1>2. \A y \in Chain : ~Stops(el'[y])
  BY DEF EndsInOrder
<1>3. ASSUME NEW i \in Rings, ring'[i].done PROVE Over(el'[i])
  <2>1. i \in Chain
    BY ChainNumbers
  <2>2. CASE i = x
    BY <1>3, <2>2 DEF EndsInOrder
  <2>3. CASE i # x
    BY <1>3, <2>1, <2>3 DEF EndsInOrder
  <2>4. QED  BY <2>2, <2>3
<1>4. ASSUME NEW i \in Rings, Over(el'[i + 1]) PROVE ring'[i].done
  <2> DEFINE j == i + 1
  <2>1. j \in Chain /\ j > 1 /\ j - 1 = i /\ Over(el'[j])
    BY <1>4, ChainNumbers, SMTT(30)
  <2>2. Over(el[j]) => ring[i].done
    BY DEF EndsInOrder
  <2> HIDE DEF j
  <2>3. CASE j = x
    BY <2>1, <2>3
  <2>4. CASE j # x
    BY <2>1, <2>2, <2>4
  <2>5. QED  BY <2>3, <2>4
<1>5. QED  BY <1>1, <1>2, <1>3, <1>4 DEF EndsInOrder

\* Conserved, as a step keeps it: what is read is added at the end, what is played is taken
\* from the front.
LEMMA BlocksAppend ==
  ASSUME NEW n \in Nat
  PROVE  Blocks(n) \o <<n + 1>> = Blocks(n + 1) /\ Blocks(n) \in Seq(Nat)
<1> DEFINE s == Blocks(n)
           t == <<n + 1>>
           w == s \o t
<1>1. s \in Seq(Nat) /\ Len(s) = n /\ \A i \in 1 .. n : s[i] = i
  BY DEF Blocks
<1>2. t \in Seq(Nat) /\ Len(t) = 1 /\ t[1] = n + 1
  OBVIOUS
<1>3. Blocks(n + 1) \in Seq(Nat) /\ Len(Blocks(n + 1)) = n + 1
      /\ \A i \in 1 .. n + 1 : Blocks(n + 1)[i] = i
  BY DEF Blocks
<1> HIDE DEF s, t
<1>4. IsJoin(Nat, s, t, Len(s), Len(t))
  BY <1>1, <1>2, JoinAt
<1>5. w \in Seq(Nat) /\ Len(w) = n + 1 /\ \A i \in 1 .. n + 1 : w[i] = IF i <= n THEN s[i] ELSE t[i - n]
  BY <1>1, <1>2, <1>4 DEF IsJoin
<1> HIDE DEF w
<1>6. ASSUME NEW i \in 1 .. n + 1 PROVE w[i] = i
  <2>1. CASE i <= n
    BY <1>1, <1>5, <2>1
  <2>2. CASE ~(i <= n)
    <3>1. i = n + 1 /\ i - n = 1
      BY <2>2
    <3>2. w[i] = t[i - n]
      BY <1>5, <2>2
    <3>3. QED  BY <1>2, <3>1, <3>2
  <2>3. QED  BY <2>1, <2>2
<1>7. w = Blocks(n + 1)
  BY <1>3, <1>5, <1>6, SeqEqual
<1>8. QED  BY <1>1, <1>7 DEF w, s, t

Empties(s) == s \o <<>> = s /\ <<>> \o s = s
LEMMA EmptyConcat ==
  ASSUME NEW S, NEW s \in Seq(S)
  PROVE  Empties(s)
  BY ConcatEmptySeq DEF Empties

\* What flows through a chain whose steps change neither hands nor rings.
LEMMA SameFlight ==
  ASSUME \A y \in Chain : hold'[y] = hold[y], \A i \in Rings : ring'[i].data = ring[i].data
  PROVE  InFlight'[N] = InFlight[N]
<1>1. (\A y \in 1 .. N : hold'[y] = hold[y]) /\ \A y \in 2 .. N : ring'[y - 1].data = ring[y - 1].data
  BY ChainNumbers DEF Chain, Rings
<1>2. N \in Chain
  BY ChainNumbers
<1>3. Flight(ring', hold')[N] = Flight(ring, hold)[N]
  BY <1>1, <1>2, FlightBelow
<1>4. QED  BY <1>3, InFlightIs

\* Nothing in the hands, nothing in the rings.
LEMMA EmptyFlight ==
  ASSUME NEW r, NEW h, \A y \in Chain : h[y] = 0, \A i \in Rings : r[i].data = <<>>
  PROVE  Flight(r, h)[N] = <<>>
<1> DEFINE f == Flight(r, h)
           T == {x \in Chain : f[x] = <<>>}
<1>1. /\ f[1] = Carried(h, 1) \o <<>>
      /\ \A x \in 2 .. N : f[x] = Carried(h, x) \o (r[x - 1].data \o f[x - 1])
  BY FlightSteps
<1>2. (\A x \in Chain : Carried(h, x) = <<>>) /\ <<>> \o <<>> = <<>>
  <2>1. <<>> \in Seq(Nat)
    OBVIOUS
  <2>2. QED  BY <2>1, EmptyConcat DEF Carried, Empties
<1> HIDE DEF f
<1>3. 1 \in T
  BY <1>1, <1>2, ChainNumbers
<1>4. ASSUME NEW i \in 1 .. N - 1, i \in T PROVE i + 1 \in T
  <2> DEFINE j == i + 1
  <2>1. j \in 2 .. N /\ j - 1 = i /\ j \in Chain /\ i \in Rings
    BY ChainNumbers DEF Chain, Rings
  <2> HIDE DEF j
  <2>2. f[j] = Carried(h, j) \o (r[i].data \o f[i])
    BY <1>1, <2>1
  <2>3. f[j] = <<>>
    BY <1>2, <1>4, <2>1, <2>2
  <2>4. QED  BY <2>1, <2>3 DEF j
<1> HIDE DEF T
<1>5. 1 .. N \subseteq T
  BY <1>3, <1>4, ChainNumbers, UpTo
<1>6. QED  BY <1>5, ChainNumbers DEF T, Chain, f

LEMMA HeadAndTail ==
  ASSUME NEW S, NEW d \in Seq(S), d # <<>>
  PROVE  Head(d) \in S /\ Tail(d) \in Seq(S) /\ <<Head(d)>> \o Tail(d) = d /\ <<Head(d)>> \in Seq(S)
<1> DEFINE v == Head(d)
           u == Tail(d)
           o == <<v>>
           w == o \o u
<1>1. v \in S /\ u \in Seq(S) /\ Len(u) = Len(d) - 1 /\ Len(d) \in Nat \ {0} /\ v = d[1]
      /\ \A i \in 1 .. Len(u) : u[i] = d[i + 1]
  BY HeadTailProperties
<1> HIDE DEF v, u
<1>2. o \in Seq(S) /\ Len(o) = 1 /\ o[1] = v
  BY <1>1
<1> HIDE DEF o
<1>3. IsJoin(S, o, u, Len(o), Len(u))
  BY <1>1, <1>2, JoinAt
<1> DEFINE n == Len(d)
           m == Len(u)
<1>4. n \in Nat \ {0} /\ m = n - 1 /\ m \in Nat
  BY <1>1
<1>5. w \in Seq(S) /\ Len(w) = 1 + m /\ \A i \in 1 .. 1 + m : w[i] = IF i <= 1 THEN o[i] ELSE u[i - 1]
  BY <1>2, <1>3 DEF IsJoin
<1> HIDE DEF w
<1>6. ASSUME NEW i \in 1 .. n PROVE w[i] = d[i]
  <2>1. CASE i = 1
    <3>1. 1 \in 1 .. 1 + m /\ i <= 1
      BY <1>4, <2>1
    <3>2. QED  BY <1>1, <1>2, <1>5, <2>1, <3>1
  <2>2. CASE i # 1
    <3> DEFINE j == i - 1
    <3>1. j \in 1 .. m /\ j + 1 = i /\ ~(i <= 1) /\ i \in 1 .. 1 + m
      BY <1>4, <2>2
    <3>2. u[j] = d[j + 1]
      BY <1>1, <3>1
    <3>3. w[i] = u[j]
      BY <1>5, <3>1
    <3>4. QED  BY <3>1, <3>2, <3>3
  <2>3. QED  BY <2>1, <2>2
<1>7. Len(w) = n /\ d \in Seq(S)
  BY <1>4, <1>5
<1>8. w = d
  <2>1. n = Len(d)
    OBVIOUS
  <2> HIDE DEF n
  <2>2. QED  BY <1>5, <1>6, <1>7, <2>1, SeqEqual
<1>9. QED  BY <1>1, <1>2, <1>8 DEF w, o, u, v

\* The first element has read a block.
LEMMA SourceFlight ==
  ASSUME FlowOK, NEW v \in 1 .. TrackLen, hold[1] = 0, hold'[1] = v,
         \A y \in Chain : y # 1 => hold'[y] = hold[y], \A i \in Rings : ring'[i].data = ring[i].data
  PROVE  InFlight'[N] = InFlight[N] \o <<v>>
<1> DEFINE f == Flight(ring, hold)
           g == Flight(ring', hold')
           t == <<v>>
<1>1. RingsTyped(ring) /\ HoldTyped(hold) /\ TrackLen \in Nat
  BY SizesAssumption DEF FlowOK, HoldTyped
<1>2. t \in Seq(1 .. TrackLen)
  OBVIOUS
<1>3. f[1] = Carried(hold, 1) \o <<>> /\ g[1] = Carried(hold', 1) \o <<>>
  BY FlightSteps
<1>4. Carried(hold, 1) = <<>> /\ Carried(hold', 1) = t
  BY <1>1 DEF Carried
<1>5. <<>> \in Seq(1 .. TrackLen)
  OBVIOUS
<1>6. Empties(t) /\ Empties(<<>>)
  <2> HIDE DEF t
  <2>1. QED  BY <1>2, <1>5, EmptyConcat
<1>7. g[1] = f[1] \o t
  BY <1>3, <1>4, <1>6 DEF Empties
<1>8. Alike(ring, hold, ring', hold', 1 + 1, N)
  BY ChainNumbers DEF Alike, Chain, Rings
<1>9. 1 \in Chain
  BY ChainNumbers
<1>10. Longer(ring, hold, ring', hold', 1, t)
  BY <1>7 DEF Longer
<1> HIDE DEF t
<1>11. Longer(ring, hold, ring', hold', N, t)
  BY <1>1, <1>2, <1>8, <1>9, <1>10, AlikeAbove
<1>12. QED  BY <1>11, InFlightIs DEF Longer, t

\* An element other than the first has taken a block from its ring.
LEMMA TakenFlight ==
  ASSUME FlowOK, NEW x \in Chain, x > 1, hold[x] = 0, ring[x - 1].data # <<>>,
         hold'[x] = Head(ring[x - 1].data), ring'[x - 1].data = Tail(ring[x - 1].data),
         \A y \in Chain : y # x => hold'[y] = hold[y],
         \A i \in Rings : i # x - 1 => ring'[i].data = ring[i].data
  PROVE  InFlight'[N] = InFlight[N]
<1> DEFINE f == Flight(ring, hold)
           g == Flight(ring', hold')
           k == x - 1
           d == ring[k].data
           S == 1 .. TrackLen
<1>1. RingsTyped(ring) /\ HoldTyped(hold) /\ TrackLen \in Nat
  BY SizesAssumption DEF FlowOK, HoldTyped
<1>2. x \in 2 .. N /\ k \in Chain /\ k \in Rings /\ N \in Nat /\ x \in Nat /\ k + 1 = x
  BY ChainNumbers DEF Chain
<1>3. d \in Seq(S) /\ d # <<>>
  BY <1>1, <1>2 DEF RingsTyped, RingType
<1>4. hold'[x] = Head(d) /\ ring'[k].data = Tail(d)
  OBVIOUS
<1>5. g[k] = f[k]
  <2>1. Alike(ring, hold, ring', hold', 1, k)
    <3>1. ASSUME NEW y \in 1 .. k
          PROVE  hold'[y] = hold[y] /\ (y > 1 => ring'[y - 1].data = ring[y - 1].data)
      <4>1. y \in Chain /\ y # x /\ (y > 1 => y - 1 \in Rings /\ y - 1 # x - 1)
        BY <1>2 DEF Chain, Rings
      <4>2. QED  BY <4>1
    <3>2. QED  BY <3>1 DEF Alike
  <2> HIDE DEF k
  <2>2. QED  BY <1>2, <2>1, AlikeBelow
<1>6. /\ f[x] = Carried(hold, x) \o (d \o f[k])
      /\ g[x] = Carried(hold', x) \o (Tail(d) \o g[k])
  <2>1. FlowsAt(ring, hold, x) /\ FlowsAt(ring', hold', x)
    BY <1>2, FlowsOn
  <2>2. QED  BY <1>4, <2>1 DEF FlowsAt
<1>7. f[k] \in Seq(S) /\ f[x] \in Seq(S)
  BY <1>1, <1>2, FlightTyped
<1>8. Alike(ring, hold, ring', hold', x + 1, N)
  <2>1. ASSUME NEW y \in x + 1 .. N
        PROVE  y \in Chain /\ y # x /\ y - 1 \in Rings /\ y - 1 # x - 1
    BY <1>2 DEF Chain, Rings
  <2>2. QED  BY <2>1 DEF Alike
<1> HIDE DEF f, g, k, d
<1> DEFINE v == Head(d)
           u == Tail(d)
           one == <<v>>
<1>9. v \in S /\ u \in Seq(S) /\ one \o u = d /\ one \in Seq(S)
  <2> HIDE DEF S
  <2>1. QED  BY <1>3, HeadAndTail
<1>10. Carried(hold, x) = <<>> /\ Carried(hold', x) = one
  BY <1>1, <1>4, <1>9 DEF Carried
<1> HIDE DEF u, v
<1>11. Rebracketed(one, u, f[k]) /\ d \o f[k] \in Seq(S)
  <2> HIDE DEF one
  <2>1. QED  BY <1>3, <1>7, <1>9, Rebracket
<1>12. Empties(d \o f[k]) /\ Empties(f[x])
  BY <1>7, <1>11, EmptyConcat
<1>13. g[x] = f[x]
  <2>1. f[x] = d \o f[k]
    BY <1>6, <1>10, <1>12 DEF Empties
  <2>2. g[x] = one \o (u \o f[k])
    BY <1>5, <1>6, <1>10 DEF u
  <2> HIDE DEF one
  <2>3. one \o (u \o f[k]) = d \o f[k]
    BY <1>9, <1>11 DEF Rebracketed
  <2>4. QED  BY <2>1, <2>2, <2>3
<1>14. g[x] = f[x] \o <<>>
  BY <1>12, <1>13 DEF Empties
<1>15. <<>> \in Seq(S)
  OBVIOUS
<1>16. Longer(ring, hold, ring', hold', x, <<>>)
  BY <1>14 DEF Longer, f, g
<1>20. Longer(ring, hold, ring', hold', N, <<>>)
  <2>1. <<>> \in Seq(1 .. TrackLen)
    OBVIOUS
  <2>2. QED  BY <1>1, <1>8, <1>16, <2>1, AlikeAbove
<1>17. f[N] \in Seq(S)
  BY <1>1, FlightTyped, ChainNumbers DEF f
<1>18. Empties(f[N])
  BY <1>17, EmptyConcat
<1>19. QED  BY <1>18, <1>20, InFlightIs DEF Longer, Empties, f

\* The block in hand comes before everything else at an element.
HeldFirst(r, h, rr, hh, x, rest) ==
  /\ rest \in Seq(1 .. TrackLen)
  /\ Flight(r, h)[x] = Carried(h, x) \o rest /\ Flight(rr, hh)[x] = Carried(hh, x) \o rest

LEMMA HandFlight ==
  ASSUME NEW r, NEW h, NEW rr, NEW hh, RingsTyped(r), HoldTyped(h), NEW x \in Chain,
         \A y \in Chain : y # x => hh[y] = h[y],
         \A i \in Rings : i < x => rr[i].data = r[i].data
  PROVE  \E rest : HeldFirst(r, h, rr, hh, x, rest)
<1> DEFINE f == Flight(r, h)
           g == Flight(rr, hh)
<1>1. CASE x = 1
  <2>1. f[1] = Carried(h, 1) \o <<>> /\ g[1] = Carried(hh, 1) \o <<>>
    BY FlightSteps
  <2>2. <<>> \in Seq(1 .. TrackLen)
    OBVIOUS
  <2>3. HeldFirst(r, h, rr, hh, x, <<>>)
    BY <1>1, <2>1, <2>2 DEF HeldFirst
  <2>4. QED  BY <2>3
<1>2. CASE x # 1
  <2> DEFINE k == x - 1
             rest == r[k].data \o f[k]
  <2>1. x \in 2 .. N /\ k \in Chain /\ k \in Rings /\ k < x /\ k \in Nat /\ N \in Nat /\ x <= N /\ x \in Nat /\ k = x - 1
    BY <1>2, ChainNumbers DEF Chain
  <2>2. FlowsAt(r, h, x) /\ FlowsAt(rr, hh, x)
    BY <2>1, FlowsOn
  <2>3. g[k] = f[k]
    <3>1. ASSUME NEW y \in 1 .. k
          PROVE  hh[y] = h[y] /\ (y > 1 => rr[y - 1].data = r[y - 1].data)
      <4>1. y \in Chain /\ y # x /\ (y > 1 => y - 1 \in Rings /\ y - 1 < x)
        BY <2>1 DEF Chain, Rings
      <4>2. QED  BY <4>1
    <3>2. Alike(r, h, rr, hh, 1, k)
      BY <3>1 DEF Alike
    <3> HIDE DEF k
    <3>3. QED  BY <2>1, <3>2, AlikeBelow
  <2>4. rest \in Seq(1 .. TrackLen)
    <3>1. f[k] \in Seq(1 .. TrackLen) /\ r[k].data \in Seq(1 .. TrackLen)
      BY <2>1, FlightTyped DEF RingsTyped, RingType
    <3> DEFINE u == f[k]
               v == r[k].data
    <3>2. u \in Seq(1 .. TrackLen) /\ v \in Seq(1 .. TrackLen)
      BY <3>1
    <3> HIDE DEF u, v
    <3>3. v \o u \in Seq(1 .. TrackLen)
      BY <3>2
    <3>4. QED  BY <3>3 DEF u, v
  <2>5. rr[k].data = r[k].data
    BY <2>1
  <2>6. f[x] = Carried(h, x) \o rest /\ g[x] = Carried(hh, x) \o rest
    BY <2>2, <2>3, <2>5 DEF FlowsAt
  <2>7. HeldFirst(r, h, rr, hh, x, rest)
    BY <2>4, <2>6 DEF HeldFirst
  <2>8. QED  BY <2>7
<1>3. QED  BY <1>1, <1>2

LEMMA AppendOne ==
  ASSUME NEW S, NEW s \in Seq(S), NEW v \in S
  PROVE  Append(s, v) = s \o <<v>> /\ <<v>> \in Seq(S)
<1> DEFINE o == <<v>>
           w == s \o o
           a == Append(s, v)
           n == Len(s)
<1>1. o \in Seq(S) /\ Len(o) = 1 /\ o[1] = v
  OBVIOUS
<1>2. a \in Seq(S) /\ Len(a) = n + 1 /\ n \in Nat /\ a[n + 1] = v /\ \A i \in 1 .. n : a[i] = s[i]
  BY AppendProperties
<1> HIDE DEF o, a
<1>3. IsJoin(S, s, o, n, 1)
  <2>1. IsJoin(S, s, o, Len(s), Len(o))
    BY <1>1, JoinAt
  <2>2. QED  BY <1>1, <2>1
<1>4. w \in Seq(S) /\ Len(w) = n + 1 /\ \A i \in 1 .. n + 1 : w[i] = IF i <= n THEN s[i] ELSE o[i - n]
  BY <1>3 DEF IsJoin
<1> HIDE DEF n, w
<1>5. ASSUME NEW i \in 1 .. n + 1 PROVE w[i] = a[i]
  <2>1. CASE i <= n
    <3>1. i \in 1 .. n
      BY <1>2, <2>1
    <3>2. QED  BY <1>2, <1>4, <2>1, <3>1
  <2>2. CASE ~(i <= n)
    <3>1. i = n + 1 /\ i - n = 1
      BY <1>2, <2>2
    <3>2. w[i] = o[i - n]
      BY <1>4, <2>2
    <3>3. QED  BY <1>1, <1>2, <3>1, <3>2
  <2>3. QED  BY <2>1, <2>2
<1>6. w = a
  BY <1>2, <1>4, <1>5, SeqEqual
<1>7. QED  BY <1>1, <1>6 DEF w, a, o

\* The last element has played its block.
LEMMA PlayedFlight ==
  ASSUME FlowOK, hold[N] \in 1 .. TrackLen, hold'[N] = 0,
         \A y \in Chain : y # N => hold'[y] = hold[y],
         \A i \in Rings : ring'[i].data = ring[i].data
  PROVE  Append(played, hold[N]) \o InFlight'[N] = played \o InFlight[N]
<1> DEFINE v == hold[N]
           S == 1 .. TrackLen
           one == <<v>>
<1>1. RingsTyped(ring) /\ HoldTyped(hold) /\ N \in Chain /\ played \in Seq(S) /\ TrackLen \in Nat
  BY ChainNumbers, SizesAssumption DEF FlowOK, HoldTyped
<1>2. PICK rest : HeldFirst(ring, hold, ring', hold', N, rest)
  BY <1>1, HandFlight
<1>3. v \in S /\ v # 0
  BY <1>1
<1>4. Carried(hold, N) = one /\ Carried(hold', N) = <<>>
  BY <1>3 DEF Carried
<1> HIDE DEF v, S
<1>5. one \in Seq(S) /\ Append(played, v) = played \o one
  BY <1>1, <1>3, AppendOne
<1> HIDE DEF one
<1>6. rest \in Seq(S) /\ InFlight[N] = one \o rest /\ InFlight'[N] = <<>> \o rest
  BY <1>2, <1>4, InFlightIs DEF HeldFirst, S
<1>7. Empties(rest) /\ Rebracketed(played, one, rest)
  BY <1>1, <1>5, <1>6, EmptyConcat, Rebracket
<1>8. Append(played, v) \o InFlight'[N] = (played \o one) \o rest
  BY <1>5, <1>6, <1>7 DEF Empties
<1>9. QED  BY <1>6, <1>7, <1>8 DEF Rebracketed, v

\* An element other than the last has written its block.
LEMMA WrittenFlight ==
  ASSUME FlowOK, NEW x \in Chain, x < N, hold[x] \in 1 .. TrackLen, hold'[x] = 0,
         ring'[x].data = Append(ring[x].data, hold[x]),
         \A y \in Chain : y # x => hold'[y] = hold[y],
         \A i \in Rings : i # x => ring'[i].data = ring[i].data
  PROVE  InFlight'[N] = InFlight[N]
<1> DEFINE f == Flight(ring, hold)
           g == Flight(ring', hold')
           v == hold[x]
           S == 1 .. TrackLen
           one == <<v>>
           j == x + 1
           d == ring[x].data
           c == Carried(hold, j)
<1>1. RingsTyped(ring) /\ HoldTyped(hold) /\ TrackLen \in Nat
  BY SizesAssumption DEF FlowOK, HoldTyped
<1>2. x \in Rings /\ j \in 2 .. N /\ j \in Chain /\ j # x /\ j - 1 = x /\ x \in Nat /\ N \in Nat
  BY ChainNumbers DEF Chain
<1>3. \A i \in Rings : i < x => ring'[i].data = ring[i].data
  BY ChainNumbers
<1>4. PICK rest : HeldFirst(ring, hold, ring', hold', x, rest)
  BY <1>1, <1>3, HandFlight
<1>5. v \in S /\ v # 0
  BY <1>1
<1>6. Carried(hold, x) = one /\ Carried(hold', x) = <<>>
  BY <1>5 DEF Carried
<1>7. d \in Seq(S)
  BY <1>1, <1>2 DEF RingsTyped, RingType
<1>8. c \in Seq(S) /\ Carried(hold', j) = c
  <2>1. hold'[j] = hold[j]
    BY <1>2
  <2>2. Carried(hold', j) = c
    BY <2>1 DEF Carried
  <2> HIDE DEF j
  <2>3. QED  BY <1>1, <1>2, <2>2, CarriedTyped
<1>9. FlowsAt(ring, hold, j) /\ FlowsAt(ring', hold', j)
  <2> HIDE DEF j
  <2>1. QED  BY <1>2, FlowsOn
<1>10. f[j] = c \o (d \o f[x]) /\ g[j] = c \o (Append(d, v) \o g[x])
  BY <1>2, <1>8, <1>9 DEF FlowsAt
<1> HIDE DEF v, S, d, c
<1>11. one \in Seq(S) /\ Append(d, v) = d \o one
  BY <1>5, <1>7, AppendOne
<1> HIDE DEF one
<1>12. rest \in Seq(S) /\ f[x] = one \o rest /\ g[x] = <<>> \o rest
  BY <1>4, <1>6 DEF HeldFirst, S
<1>13. Empties(rest) /\ Rebracketed(d, one, rest)
  BY <1>7, <1>11, <1>12, EmptyConcat, Rebracket
<1>14. g[j] = f[j]
  <2>1. g[x] = rest
    BY <1>12, <1>13 DEF Empties
  <2>2. Append(d, v) \o g[x] = d \o f[x]
    BY <1>11, <1>12, <1>13, <2>1 DEF Rebracketed
  <2>3. QED  BY <1>10, <2>2
<1>15. f[j] \in Seq(S) /\ f[N] \in Seq(S)
  <2> HIDE DEF j
  <2>1. QED  BY <1>1, <1>2, FlightTyped, ChainNumbers DEF S
<1> HIDE DEF f, g
<1>16. Empties(f[j]) /\ Empties(f[N])
  BY <1>15, EmptyConcat
<1>17. Longer(ring, hold, ring', hold', j, <<>>)
  BY <1>14, <1>16 DEF Longer, Empties, f, g
<1>18. Alike(ring, hold, ring', hold', j + 1, N)
  <2>1. ASSUME NEW y \in j + 1 .. N
        PROVE  y \in Chain /\ y # x /\ y - 1 \in Rings /\ y - 1 # x
    BY <1>2 DEF Chain, Rings
  <2>2. QED  BY <2>1 DEF Alike
<1>19. Longer(ring, hold, ring', hold', N, <<>>)
  <2>1. <<>> \in Seq(1 .. TrackLen)
    OBVIOUS
  <2> HIDE DEF j
  <2>2. QED  BY <1>1, <1>2, <1>17, <1>18, <2>1, AlikeAbove
<1>20. QED  BY <1>16, <1>19, InFlightIs DEF Longer, Empties, f

GivenBlocks(i, d) ==
  /\ ring'[i].data = d
  /\ \A j \in Rings : ring'[j].done = ring[j].done /\ ring'[j].abort = ring[j].abort
  /\ \A j \in Rings : j # i => ring'[j] = ring[j]

LEMMA GivenRings ==
  ASSUME RingsTyped(ring), NEW i \in Rings, NEW d \in Seq(1 .. TrackLen),
         ring' = [ring EXCEPT ![i].data = d]
  PROVE  GivenBlocks(i, d)
<1> DEFINE r == [ring[i] EXCEPT !.data = d]
<1>1. r.data = d /\ r.done = ring[i].done /\ r.abort = ring[i].abort
  <2>1. ring[i] \in RingType
    BY DEF RingsTyped
  <2>2. QED  BY <2>1 DEF RingType
<1>2. ring' = [ring EXCEPT ![i] = r]
  OBVIOUS
<1>3. ring \in [Rings -> RingType]
  BY DEF RingsTyped
<1> HIDE DEF r
<1>4. ring'[i] = r /\ \A j \in Rings : j # i => ring'[j] = ring[j]
  BY <1>2, <1>3
<1>5. \A j \in Rings : ring'[j].done = ring[j].done /\ ring'[j].abort = ring[j].abort
  <2>1. ASSUME NEW j \in Rings PROVE ring'[j].done = ring[j].done /\ ring'[j].abort = ring[j].abort
    <3>1. CASE j = i
      BY <1>1, <1>4, <3>1
    <3>2. CASE j # i
      BY <1>4, <3>2
    <3>3. QED  BY <3>1, <3>2
  <2>2. QED  BY <2>1
<1>6. QED  BY <1>1, <1>4, <1>5 DEF GivenBlocks

\* The data an element may be given, as EndsStep asks for it.
NothingLeft(lt, st, e, r) ==
  \A i \in Rings : i + 1 \notin lt /\ (i + 1 \in st \/ Over(e[i + 1])) => r[i].data = <<>>

\* A step that leaves the stream as it is.
LEMMA StillStreams ==
  ASSUME EndsInOrder, NEW x \in Chain, \A y \in Chain : y # x => el'[y] = el[y],
         Over(el'[x]) <=> Over(el[x]), ~Stops(el'[x]),
         \A i \in Rings : ring'[i] = ring[i],
         src' = src, late' = late, starved' \subseteq starved
  PROVE  EndsInOrder'
<1>1. \A y \in Chain : Over(el'[y]) <=> Over(el[y])
  <2>1. ASSUME NEW y \in Chain, y # x PROVE Over(el'[y]) <=> Over(el[y])
    <3>1. el'[y] = el[y]
      BY <2>1
    <3>2. QED  BY <3>1
  <2>2. QED  BY <2>1
<1>2. Over(el'[1]) => src' = TrackLen
  BY <1>1, ChainNumbers DEF EndsInOrder
<1>3. NothingLeft(late', starved', el', ring')
  <2>1. ASSUME NEW i \in Rings, i + 1 \notin late', i + 1 \in starved' \/ Over(el'[i + 1])
        PROVE  ring'[i].data = <<>>
    <3> DEFINE j == i + 1
    <3>1. j \in Chain
      BY ChainNumbers
    <3>2. j \in starved \/ Over(el[j])
      BY <1>1, <2>1, <3>1
    <3>3. ring[i].data = <<>>
      BY <2>1, <3>2 DEF EndsInOrder
    <3>4. QED  BY <3>3
  <2>2. QED  BY <2>1 DEF NothingLeft
<1>4. x > 1 /\ Over(el'[x]) => ring[x - 1].done
  <2>1. ASSUME x > 1, Over(el[x]) PROVE ring[x - 1].done
    <3> DEFINE i == x - 1
    <3>1. i \in Rings /\ i + 1 = x
      BY <2>1, ChainNumbers
    <3>2. Over(el[i + 1]) => ring[i].done
      BY <3>1 DEF EndsInOrder
    <3>3. Over(el[i + 1])
      BY <2>1, <3>1
    <3>4. QED  BY <3>2, <3>3
  <2>2. QED  BY <1>1, <2>1
<1>5. QED  BY <1>1, <1>2, <1>3, <1>4, EndsStep DEF NothingLeft

LEMMA StillStreaming ==
  ASSUME Streaming, EndsInOrder', src' = src, played' = played,
         \A y \in Chain : hold'[y] = hold[y], \A i \in Rings : ring'[i].data = ring[i].data
  PROVE  Streaming'
<1>1. InFlight'[N] = InFlight[N]
  BY SameFlight
<1>2. Blocks(src') = Blocks(src)
  OBVIOUS
<1>3. played' \o InFlight'[N] = Blocks(src')
  BY <1>1, <1>2 DEF Streaming
<1>4. QED  BY <1>3 DEF Streaming, Blocks

\* What is at work in a well run is not over, and its output is open.
LEMMA AtWork ==
  ASSUME GInv, Launching, Streaming, NEW x \in Chain, Working(x)
  PROVE  /\ ~Over(el[x]) /\ ~Stops(el[x])
         /\ x < N => ~ring[x].done /\ ~Over(el[x + 1]) /\ ring[x].abort = {}
         /\ x > 1 => ring[x - 1].abort = {}
<1>1. InRun(el[x])
  BY PhaseInRun DEF GInv
<1>2. ~Over(el[x]) /\ ~Stops(el[x])
  BY <1>1, OverRests DEF Streaming, EndsInOrder
<1>3. ASSUME x < N PROVE ~ring[x].done /\ ~Over(el[x + 1]) /\ ring[x].abort = {}
  <2>1. x \in Rings
    BY <1>3, ChainNumbers
  <2>2. QED  BY <1>2, <2>1 DEF Streaming, EndsInOrder, Unbroken
<1>4. ASSUME x > 1 PROVE ring[x - 1].abort = {}
  BY <1>4, ChainNumbers DEF Streaming, EndsInOrder, Unbroken
<1>5. QED  BY <1>2, <1>3, <1>4

\* The commands of a well run.
LEMMA HandlersStreaming ==
  ASSUME GInv, Launching, Streaming, Well, Well', NEW x \in Chain, Element(x),
         Quiet(x) \/ OnError(x) \/ OnStop(x) \/ OnResume(x)
  PROVE  Streaming'
<1>1. el \in [Chain -> E!ElementType] /\ FlowOK /\ InRun(el[x])
  BY LivesTyped, PhaseInRun DEF GInv
<1>2. (\A y \in Chain : y # x => el'[y] = el[y])
  BY <1>1, ElementElsewhere
<1>3. /\ AsBefore(el[x], el'[x]) /\ ~OnError(x) /\ ~OnStop(x)
      /\ OnResume(x) => el[x].state = "INIT"
  BY <1>1, HandlersOnward DEF Well, Streaming, EndsInOrder
<1>4. \A i \in Rings : ring'[i] = ring[i]
  <2>1. CASE Quiet(x)
    BY <2>1 DEF Quiet, flow
  <2>2. CASE OnResume(x)
    <3>1. ring' = Reset({})
      BY <1>3, <2>2 DEF OnResume, ResumeResets
    <3>2. RingsTyped(ring)
      BY <1>1 DEF FlowOK
    <3>3. QED  BY <3>1, <3>2, ResetRingsAt
  <2>3. QED  BY <1>3, <2>1, <2>2
<1>5. UNCHANGED <<src, hold, starved, played, late>>
  BY <1>3 DEF Quiet, OnError, OnStop, OnResume, flow
<1>6. EndsInOrder'
  <2>1. (Over(el'[x]) <=> Over(el[x])) /\ ~Stops(el'[x])
    BY <1>3 DEF AsBefore, Streaming, EndsInOrder
  <2>2. QED  BY <1>2, <1>4, <1>5, <2>1, StillStreams DEF Streaming
<1>7. QED  BY <1>4, <1>5, <1>6, StillStreaming

LEMMA SourceStreaming ==
  ASSUME GInv, Launching, Streaming, NEW x \in Chain, ReadSource(x),
         \A y \in Chain : y # x => el'[y] = el[y]
  PROVE  Streaming'
<1>1. el \in [Chain -> E!ElementType] /\ FlowOK /\ InRun(el[x]) /\ pipe \in PipeType
  BY LivesTyped, PhaseInRun DEF GInv
<1>2. Working(x) /\ hold[x] = 0 /\ x = 1 /\ UNCHANGED <<starved, played, late>>
  BY DEF ReadSource, Reads
<1>3. /\ RingsTyped(ring) /\ src \in 0 .. TrackLen /\ hold \in [Chain -> 0 .. TrackLen]
      /\ played \in Seq(1 .. TrackLen) /\ starved \subseteq Chain \ {1} /\ TrackLen \in Nat
  BY <1>1, SizesAssumption DEF FlowOK
<1>4. ~Over(el[x]) /\ ~Stops(el[x]) /\ EndsInOrder /\ x \notin starved
  BY <1>2, <1>3, AtWork DEF Streaming
<1>5. CASE src < TrackLen
  <2>1. src' = src + 1 /\ hold' = [hold EXCEPT ![1] = src + 1] /\ UNCHANGED <<el, ring>>
    BY <1>2, <1>5 DEF ReadSource, elements
  <2> DEFINE v == src + 1
  <2>2. v \in 1 .. TrackLen /\ v \in 0 .. TrackLen
    BY <1>3, <1>5
  <2>3. hold'[1] = v /\ \A y \in Chain : y # 1 => hold'[y] = hold[y]
    BY <1>2, <1>3, <2>1, <2>2
  <2>4. InFlight'[N] = InFlight[N] \o <<v>>
    <3> HIDE DEF v
    <3>1. QED  BY <1>1, <1>2, <2>1, <2>2, <2>3, SourceFlight
  <2>5. EndsInOrder'
    <3>1. ~Over(el'[1]) /\ ~Stops(el'[x])
      BY <1>2, <1>4, <2>1
    <3>2. NothingLeft(late', starved', el', ring')
      BY <1>2, <1>4, <2>1 DEF NothingLeft, EndsInOrder
    <3>3. QED  BY <1>2, <1>4, <2>1, <3>1, <3>2, EndsStep DEF NothingLeft
  <2>6. InFlight[N] \in Seq(1 .. TrackLen)
    <3>1. HoldTyped(hold) /\ N \in Chain
      BY <1>3, ChainNumbers DEF HoldTyped
    <3>2. Flight(ring, hold)[N] \in Seq(1 .. TrackLen)
      BY <1>3, <3>1, FlightTyped
    <3>3. QED  BY <3>2, InFlightIs
  <2>7. Rebracketed(played, InFlight[N], <<v>>)
    <3>1. <<v>> \in Seq(1 .. TrackLen)
      BY <2>2
    <3>2. QED  BY <1>3, <2>6, <3>1, Rebracket
  <2>8. Blocks(src) \o <<v>> = Blocks(src') /\ Blocks(src)' = Blocks(src')
    <3>1. Blocks(src) \o <<src + 1>> = Blocks(src + 1)
      BY <1>3, BlocksAppend
    <3>2. QED  BY <2>1, <3>1 DEF Blocks
  <2>9. played' \o InFlight'[N] = Blocks(src')
    <3>1. played \o InFlight[N] = Blocks(src)
      BY DEF Streaming
    <3>2. QED  BY <1>2, <2>4, <2>7, <2>8, <3>1 DEF Rebracketed
  <2>10. QED  BY <2>5, <2>8, <2>9 DEF Streaming
<1>6. CASE ~(src < TrackLen)
  <2>1. Ends(x, "done") /\ ring' = Ended(x, ring) /\ src' = src /\ src = TrackLen
    <3>1. Ends(x, "done") /\ ring' = Ended(x, ring) /\ src' = src
      BY <1>6 DEF ReadSource
    <3>2. src = TrackLen
      BY <1>3, <1>6
    <3>3. QED  BY <3>1, <3>2
  <2>2. /\ Over(el'[x]) /\ ~Stops(el'[x])
    BY <1>1, <2>1, WorkOnward DEF Outs
  <2>3. hold'[x] = 0 /\ \A y \in Chain : y # x => hold'[y] = hold[y]
    BY <1>1, <2>1, EndsAt
  <2>4. \A i \in Rings : /\ ring'[i].data = ring[i].data /\ ring'[i].abort = ring[i].abort
                         /\ ring'[i].done = (ring[i].done \/ i = x)
    BY <1>3, <2>1, EndedRings
  <2>5. EndsInOrder'
    <3>1. NothingLeft(late', starved', el', ring')
      <4>1. ASSUME NEW i \in Rings, i + 1 \notin late', i + 1 \in starved' \/ Over(el'[i + 1])
            PROVE  ring'[i].data = <<>>
        <5> DEFINE j == i + 1
        <5>1. j \in Chain /\ j # x
          BY <1>2, ChainNumbers
        <5>2. j \in starved \/ Over(el[j])
          BY <1>2, <4>1, <5>1
        <5>3. ring[i].data = <<>>
          BY <1>2, <1>4, <4>1, <5>2 DEF EndsInOrder
        <5>4. QED  BY <2>4, <5>3
      <4>2. QED  BY <4>1 DEF NothingLeft
    <3>2. Over(el'[1]) => src' = TrackLen
      BY <2>1
    <3>3. ~(x > 1)
      BY <1>2
    <3>4. QED  BY <1>4, <2>2, <2>4, <3>1, <3>2, <3>3, EndsStep DEF NothingLeft
  <2>6. \A y \in Chain : hold'[y] = hold[y]
    BY <1>2, <2>3
  <2>7. QED  BY <1>2, <2>1, <2>4, <2>5, <2>6, StillStreaming
<1>7. QED  BY <1>5, <1>6

LEMMA ReadStreaming ==
  ASSUME GInv, Launching, Streaming, NEW x \in Chain, ReadRing(x)
  PROVE  Streaming'
<1>1. el \in [Chain -> E!ElementType] /\ FlowOK /\ InRun(el[x]) /\ pipe \in PipeType
  BY LivesTyped, PhaseInRun DEF GInv
<1>2. /\ Working(x) /\ hold[x] = 0 /\ x > 1 /\ x \notin starved /\ UNCHANGED <<el, src, played>>
  BY DEF ReadRing, Reads, elements
<1>3. /\ RingsTyped(ring) /\ hold \in [Chain -> 0 .. TrackLen]
  BY <1>1 DEF FlowOK
<1>4. ~Over(el[x]) /\ ~Stops(el[x]) /\ EndsInOrder
  BY <1>2, AtWork DEF Streaming
<1> DEFINE k == x - 1
<1>5. k \in Rings /\ k + 1 = x
  BY <1>2, ChainNumbers
<1>6. CASE Drained(x - 1)
  <2>1. starved' = starved \cup {x} /\ late' = late \ {x} /\ UNCHANGED <<ring, hold>>
    BY <1>6 DEF ReadRing
  <2>2. NothingLeft(late', starved', el', ring')
    <3>1. ASSUME NEW i \in Rings, i + 1 \notin late', i + 1 \in starved' \/ Over(el'[i + 1])
          PROVE  ring'[i].data = <<>>
      <4>1. CASE i = k
        BY <1>6, <2>1, <4>1 DEF Drained
      <4>2. CASE i # k
        <5>1. i + 1 # x
          BY <1>5, <4>2, ChainNumbers
        <5>2. QED  BY <1>2, <1>4, <2>1, <3>1, <5>1 DEF EndsInOrder
      <4>3. QED  BY <4>1, <4>2
    <3>2. QED  BY <3>1 DEF NothingLeft
  <2>3. EndsInOrder'
    BY <1>2, <1>4, <2>1, <2>2 DEF EndsInOrder, NothingLeft, Unbroken
  <2>4. QED  BY <1>2, <2>1, <2>3, StillStreaming
<1>7. CASE ~Drained(x - 1)
  <2> DEFINE d == ring[x - 1].data
  <2>1. /\ hold' = [hold EXCEPT ![x] = Head(d)]
        /\ ring' = [ring EXCEPT ![x - 1].data = Tail(d)]
        /\ UNCHANGED <<starved, late>>
    BY <1>7 DEF ReadRing
  <2>2. d \in Seq(1 .. TrackLen) /\ d # <<>> /\ Len(d) <= RingCap /\ RingCap \in Nat
    BY <1>3, <1>5, <1>7, SizesAssumption DEF RingsTyped, RingType, Drained
  <2>3. Head(d) \in 1 .. TrackLen /\ Tail(d) \in Seq(1 .. TrackLen)
    <3> DEFINE S == 1 .. TrackLen
    <3>1. d \in Seq(S) /\ d # <<>>
      BY <2>2
    <3> HIDE DEF d, S
    <3>2. Head(d) \in S /\ Tail(d) \in Seq(S)
      BY <3>1, HeadAndTail
    <3>3. QED  BY <3>2 DEF S
  <2>4. /\ ring'[k].data = Tail(d)
        /\ \A i \in Rings : ring'[i].done = ring[i].done /\ ring'[i].abort = ring[i].abort
        /\ \A i \in Rings : i # k => ring'[i] = ring[i]
    <3> DEFINE u == Tail(d)
    <3>1. u \in Seq(1 .. TrackLen) /\ ring' = [ring EXCEPT ![k].data = u]
      BY <2>1, <2>3
    <3> HIDE DEF u, k
    <3>2. GivenBlocks(k, u)
      BY <1>3, <1>5, <3>1, GivenRings
    <3>3. QED  BY <3>2 DEF GivenBlocks, u
  <2>5. hold'[x] = Head(d) /\ \A y \in Chain : y # x => hold'[y] = hold[y]
    BY <1>3, <2>1
  <2>6. NothingLeft(late', starved', el', ring')
    <3>1. ASSUME NEW i \in Rings, i + 1 \notin late', i + 1 \in starved' \/ Over(el'[i + 1])
          PROVE  ring'[i].data = <<>>
      <4>1. i # k
        BY <1>2, <1>4, <1>5, <2>1, <3>1
      <4>2. ring[i].data = <<>>
        BY <1>2, <1>4, <2>1, <3>1 DEF EndsInOrder
      <4>3. QED  BY <2>4, <4>1, <4>2
    <3>2. QED  BY <3>1 DEF NothingLeft
  <2>7. EndsInOrder'
    BY <1>2, <1>4, <2>1, <2>4, <2>6 DEF EndsInOrder, NothingLeft, Unbroken
  <2>8. InFlight'[N] = InFlight[N]
    BY <1>1, <1>2, <2>2, <2>4, <2>5, TakenFlight
  <2>9. played' \o InFlight'[N] = Blocks(src') /\ Blocks(src)' = Blocks(src')
    BY <1>2, <2>8 DEF Streaming, Blocks
  <2>10. QED  BY <2>7, <2>9 DEF Streaming
<1>8. QED  BY <1>6, <1>7

LEMMA StarvedStreaming ==
  ASSUME GInv, Launching, Streaming, NEW x \in Chain, StarvedGoesOn(x),
         \A y \in Chain : y # x => el'[y] = el[y]
  PROVE  Streaming'
<1>1. el \in [Chain -> E!ElementType] /\ FlowOK /\ InRun(el[x]) /\ pipe \in PipeType
  BY LivesTyped, PhaseInRun DEF GInv
<1>2. /\ Working(x) /\ hold[x] = 0 /\ x \in starved /\ UNCHANGED <<src, played, late>>
      /\ starved' = starved \ {x}
  BY DEF StarvedGoesOn, Reads
<1>3. /\ RingsTyped(ring) /\ hold \in [Chain -> 0 .. TrackLen] /\ x \in Chain \ {1}
  BY <1>1, <1>2 DEF FlowOK
<1> DEFINE k == x - 1
<1>4. k \in Rings /\ k + 1 = x /\ x > 1
  <2>1. x \in Nat \ {0}
    BY ChainNumbers
  <2>2. x > 1
    BY <1>3, <2>1
  <2>3. QED  BY <2>2, ChainNumbers
<1>5. ~Over(el[x]) /\ ~Stops(el[x]) /\ EndsInOrder /\ ring[x - 1].abort = {}
  BY <1>2, <1>4, AtWork DEF Streaming
<1>6. CASE ring[x - 1].done /\ Ends(x, "done") /\ ring' = Ended(x, ring)
  <2>2. Over(el'[x]) /\ ~Stops(el'[x])
    BY <1>1, <1>6, WorkOnward DEF Outs
  <2>3. \A y \in Chain : hold'[y] = hold[y]
    BY <1>1, <1>2, <1>6, EndsAt
  <2>4. \A i \in Rings : /\ ring'[i].data = ring[i].data /\ ring'[i].abort = ring[i].abort
                         /\ ring'[i].done = (ring[i].done \/ i = x)
    BY <1>3, <1>6, EndedRings
  <2>5. NothingLeft(late', starved', el', ring')
    <3>1. ASSUME NEW i \in Rings, i + 1 \notin late', i + 1 \in starved' \/ Over(el'[i + 1])
          PROVE  ring'[i].data = <<>>
      <4> DEFINE j == i + 1
      <4>1. j \in Chain
        BY ChainNumbers
      <4>2. j \in starved \/ Over(el[j])
        <5>1. CASE j = x
          BY <1>2, <5>1
        <5>2. CASE j # x
          BY <1>2, <3>1, <4>1, <5>2
        <5>3. QED  BY <5>1, <5>2
      <4>3. ring[i].data = <<>>
        BY <1>2, <1>5, <3>1, <4>2 DEF EndsInOrder
      <4>4. QED  BY <2>4, <4>3
    <3>2. QED  BY <3>1 DEF NothingLeft
  <2>6. EndsInOrder'
    <3>1. Over(el'[1]) => src' = TrackLen
      <4>1. el'[1] = el[1]
        BY <1>3, ChainNumbers
      <4>2. QED  BY <1>2, <1>5, <4>1 DEF EndsInOrder
    <3>2. QED  BY <1>5, <1>6, <2>2, <2>4, <2>5, <3>1, EndsStep DEF NothingLeft
  <2>7. QED  BY <1>2, <2>3, <2>4, <2>6, StillStreaming
<1>7. CASE UNCHANGED ring /\ ((UNCHANGED elements /\ UNCHANGED hold) \/ Ends(x, "input timeout"))
  <2>1. \A y \in Chain : hold'[y] = hold[y]
    BY <1>1, <1>2, <1>7, EndsAt
  <2>2. (Over(el'[x]) <=> Over(el[x])) /\ ~Stops(el'[x])
    <3>1. CASE UNCHANGED elements
      BY <1>5, <3>1 DEF elements
    <3>2. CASE Ends(x, "input timeout")
      BY <1>1, <3>2, WorkOnward DEF Outs
    <3>3. QED  BY <1>7, <3>1, <3>2
  <2>3. EndsInOrder'
    BY <1>2, <1>5, <1>7, <2>2, StillStreams
  <2>4. QED  BY <1>2, <1>7, <2>1, <2>3, StillStreaming
<1>8. QED  BY <1>5, <1>6, <1>7 DEF StarvedGoesOn

LEMMA PlayStreaming ==
  ASSUME GInv, Launching, Streaming, NEW x \in Chain, Play(x),
         \A y \in Chain : y # x => el'[y] = el[y]
  PROVE  Streaming'
<1>1. el \in [Chain -> E!ElementType] /\ FlowOK /\ InRun(el[x]) /\ pipe \in PipeType
  BY LivesTyped, PhaseInRun DEF GInv
<1>2. /\ Working(x) /\ hold[x] # 0 /\ x = N /\ Ends(x, "ok")
      /\ played' = Append(played, hold[x]) /\ UNCHANGED <<ring, src, starved, late>>
  BY DEF Play, Writes
<1>3. EndsInOrder /\ ~Over(el[x])
  BY <1>2, AtWork DEF Streaming
<1>4. ~Stops(el'[x]) /\ (Over(el'[x]) <=> Over(el[x]))
  BY <1>1, <1>2, WorkOnward DEF Outs
<1>5. hold[N] \in 1 .. TrackLen /\ hold'[N] = 0 /\ \A y \in Chain : y # N => hold'[y] = hold[y]
  <2>1. hold'[x] = 0 /\ \A y \in Chain : y # x => hold'[y] = hold[y]
    BY <1>1, <1>2, EndsAt
  <2>2. hold[x] \in 0 .. TrackLen /\ TrackLen \in Nat
    BY <1>1, SizesAssumption DEF FlowOK
  <2>3. QED  BY <1>2, <2>1, <2>2
<1>6. EndsInOrder'
  BY <1>2, <1>4, StillStreams DEF Streaming
<1>7. Append(played, hold[N]) \o InFlight'[N] = played \o InFlight[N]
  BY <1>1, <1>2, <1>5, PlayedFlight
<1>8. played' \o InFlight'[N] = Blocks(src') /\ Blocks(src)' = Blocks(src')
  BY <1>2, <1>7 DEF Streaming, Blocks
<1>9. QED  BY <1>6, <1>8 DEF Streaming

LEMMA WriteStreaming ==
  ASSUME GInv, Launching, Streaming, NEW x \in Chain, WriteRing(x),
         \A y \in Chain : y # x => el'[y] = el[y]
  PROVE  Streaming'
<1>1. el \in [Chain -> E!ElementType] /\ FlowOK /\ InRun(el[x]) /\ pipe \in PipeType
  BY LivesTyped, PhaseInRun DEF GInv
<1>2. /\ Working(x) /\ hold[x] # 0 /\ x < N /\ UNCHANGED <<src, starved, played>>
  BY DEF WriteRing, Writes
<1>3. /\ ~Over(el[x]) /\ EndsInOrder /\ ~ring[x].done /\ ~Over(el[x + 1]) /\ ring[x].abort = {}
  BY <1>2, AtWork DEF Streaming
<1>4. /\ HasPlace(x) /\ ring' = [ring EXCEPT ![x].data = Append(@, hold[x])]
      /\ late' = late \cup (starved \cap {x + 1}) /\ Ends(x, "ok")
  BY <1>3 DEF WriteRing
<1>5. ~Stops(el'[x]) /\ ~Over(el'[x])
  BY <1>1, <1>4, WorkOnward DEF Outs
<1>6. hold[x] \in 1 .. TrackLen /\ hold'[x] = 0 /\ \A y \in Chain : y # x => hold'[y] = hold[y]
  <2>1. hold'[x] = 0 /\ \A y \in Chain : y # x => hold'[y] = hold[y]
    BY <1>1, <1>4, EndsAt
  <2>2. hold[x] \in 0 .. TrackLen /\ TrackLen \in Nat
    BY <1>1, SizesAssumption DEF FlowOK
  <2>3. QED  BY <1>2, <2>1, <2>2
<1> DEFINE d == ring[x].data
           a == Append(d, hold[x])
<1>7. x \in Rings /\ RingsTyped(ring) /\ RingCap \in Nat
  BY <1>1, <1>2, ChainNumbers, SizesAssumption DEF FlowOK
<1>8. d \in Seq(1 .. TrackLen) /\ Len(d) < RingCap
  BY <1>4, <1>7 DEF RingsTyped, RingType, HasPlace
<1>9. a \in Seq(1 .. TrackLen)
  <2> HIDE DEF d
  <2>1. QED  BY <1>6, <1>8, AppendProperties
<1>10. /\ ring'[x].data = a
       /\ \A i \in Rings : ring'[i].done = ring[i].done /\ ring'[i].abort = ring[i].abort
       /\ \A i \in Rings : i # x => ring'[i] = ring[i]
  <2>1. ring' = [ring EXCEPT ![x].data = a]
    BY <1>4
  <2> HIDE DEF a
  <2>2. GivenBlocks(x, a)
    BY <1>7, <1>9, <2>1, GivenRings
  <2>3. QED  BY <2>2 DEF GivenBlocks
<1>11. NothingLeft(late', starved', el', ring')
  <2>1. ASSUME NEW i \in Rings, i + 1 \notin late', i + 1 \in starved' \/ Over(el'[i + 1])
        PROVE  ring'[i].data = <<>>
    <3> DEFINE j == i + 1
    <3>0. j \in Chain /\ i \in Nat /\ x \in Nat
      BY <1>7, ChainNumbers
    <3>1. j # x => el'[j] = el[j]
      BY <3>0
    <3>2. j \in starved \/ Over(el[j])
      BY <1>2, <1>5, <2>1, <3>1
    <3>3. j \notin late
      BY <1>4, <2>1
    <3>4. i # x
      <4>1. ASSUME i = x PROVE FALSE
        <5>1. x + 1 \in starved
          BY <1>3, <3>2, <4>1
        <5>2. x + 1 \in late'
          BY <1>4, <5>1
        <5>3. QED  BY <2>1, <4>1, <5>2
      <4>2. QED  BY <4>1
    <3>5. ring[i].data = <<>>
      BY <1>3, <3>2, <3>3 DEF EndsInOrder
    <3>6. QED  BY <1>10, <3>4, <3>5
  <2>2. QED  BY <2>1 DEF NothingLeft
<1>12. EndsInOrder'
  <2>1. Over(el'[1]) => src' = TrackLen
    <3>1. CASE x = 1
      BY <1>5, <3>1
    <3>2. CASE x # 1
      <4>1. el'[1] = el[1]
        BY <3>2, ChainNumbers
      <4>2. QED  BY <1>2, <1>3, <4>1 DEF EndsInOrder
    <3>3. QED  BY <3>1, <3>2
  <2>2. QED  BY <1>3, <1>5, <1>10, <1>11, <2>1, EndsStep DEF NothingLeft
<1>13. InFlight'[N] = InFlight[N]
  BY <1>1, <1>2, <1>6, <1>10, WrittenFlight
<1>14. played' \o InFlight'[N] = Blocks(src') /\ Blocks(src)' = Blocks(src')
  BY <1>2, <1>13 DEF Streaming, Blocks
<1>15. QED  BY <1>12, <1>14 DEF Streaming

LEMMA ElementStreaming ==
  ASSUME GInv, Launching, Streaming, Well, Well', NEW x \in Chain, Element(x)
  PROVE  Streaming'
<1>1. \A y \in Chain : y # x => el'[y] = el[y]
  BY LivesTyped, ElementElsewhere DEF GInv
<1>2. CASE Quiet(x) \/ OnError(x) \/ OnStop(x) \/ OnResume(x)
  BY <1>2, HandlersStreaming
<1>3. CASE ReadSource(x)
  BY <1>1, <1>3, SourceStreaming
<1>4. CASE ReadRing(x)
  BY <1>4, ReadStreaming
<1>5. CASE StarvedGoesOn(x)
  BY <1>1, <1>5, StarvedStreaming
<1>6. CASE Play(x)
  BY <1>1, <1>6, PlayStreaming
<1>7. CASE WriteRing(x)
  BY <1>1, <1>7, WriteStreaming
<1>8. QED  BY <1>2, <1>3, <1>4, <1>5, <1>6, <1>7 DEF Element

-----------------------------------------------------------------------------
(* The invariant of the first run.                                         *)
LEMMA CallStreaming ==
  ASSUME Streaming, UNCHANGED flow,
         \A y \in Chain : (Over(el'[y]) <=> Over(el[y])) /\ (Stops(el'[y]) <=> Stops(el[y]))
  PROVE  Streaming'
<1>1. UNCHANGED <<ring, src, hold, starved, played, late>>
  BY DEF flow
<1>2. \A i \in Rings : i \in Chain /\ i + 1 \in Chain
  BY ChainNumbers
<1>3. EndsInOrder'
  BY <1>1, <1>2, ChainNumbers DEF Streaming, EndsInOrder, Unbroken
<1>4. QED  BY <1>1, <1>3, StillStreaming

\* An element without a task takes no step.
LEMMA AbsentRests ==
  ASSUME NEW x \in Chain, el \in [Chain -> E!ElementType], Absent(el[x])
  PROVE  ~Element(x)
<1>1. ASSUME Element(x) PROVE FALSE
  BY <1>1, ElementOnward DEF InRun, Onward
<1>2. QED  BY <1>1

LEMMA FreshKept ==
  ASSUME GInv, Fresh, [Next]_vars, pipe'.past = {}
  PROVE  Fresh'
<1>1. pipe \in PipeType /\ el \in [Chain -> E!ElementType]
  BY LivesTyped DEF GInv
<1>2. CASE UNCHANGED vars
  <2>1. UNCHANGED <<el, api, ring, src, hold, starved, played, late, pipe>>
    BY <1>2 DEF vars, elements, flow
  <2>2. QED  BY <2>1 DEF Fresh, NotInCall
<1>3. ASSUME NEW op \in PipeOps, BeginsNothing(op) PROVE Fresh'
  <2>1. pipe'.todo = pipe.todo /\ pipe'.state = pipe.state /\ UNCHANGED <<elements, flow>>
    BY <1>1, <1>3, BegunNothingAt
  <2>2. UNCHANGED <<el, api, ring, src, hold, starved, played, late>>
    BY <2>1 DEF elements, flow
  <2>3. QED  BY <2>1, <2>2 DEF Fresh, NotInCall
<1>4. ASSUME NEW op \in PipeOps, Begin(op) PROVE FALSE
  BY <1>1, <1>4, BegunAt
<1>5. ASSUME Going PROVE FALSE
  <2>1. pipe.todo = <<>> /\ api[Caller].in = "nothing"
    BY DEF Fresh, NotInCall
  <2>2. ~Started /\ ~Stopped
    BY <2>1 DEF Started, Stopped, Due
  <2>3. ASSUME NEW x \in Chain PROVE ~CallRun(x) /\ ~CallResume(x) /\ ~Call(x) /\ ~ResetRings(x)
    BY <2>1 DEF CallRun, CallResume, Call, ResetRings, Due
  <2>4. ASSUME NEW x \in Chain PROVE ~Answer(x)
    BY <2>1 DEF Answer, E!CreateTask, E!BitSeen, E!In, E!AwaitedBit
  <2>5. QED  BY <1>5, <2>2, <2>3, <2>4, GoingSteps
<1>6. ASSUME NEW x \in Chain, Element(x) PROVE FALSE
  BY <1>1, <1>6, AbsentRests DEF Fresh
<1>7. QED  BY <1>2, <1>3, <1>4, <1>5, <1>6 DEF Next

\* The run of a fresh pipeline begins.
LEMMA FreshRuns ==
  ASSUME GInv, Fresh, Begin("run"), "run" \in PipeOps
  PROVE  Launching' /\ Streaming'
<1>1. pipe \in PipeType /\ pipe.state = "INIT" /\ NotInCall
  BY DEF GInv, Fresh
<1>2. /\ pipe' \in PipeType /\ pipe'.todo = Program("run", pipe.state) /\ ~pipe'.failed
      /\ pipe'.state = pipe.state /\ UNCHANGED <<elements, flow>>
  BY <1>1, BegunAt
<1>3. pipe'.todo = Run("INIT")
  BY <1>1, <1>2 DEF Program
<1>4. CallsInOrder' /\ Made' = 0
  BY <1>1, <1>2, <1>3, RunBegins
<1>5. UNCHANGED <<el, api>> /\ UNCHANGED flow
  BY <1>2 DEF elements
<1>6. CallerInOrder'
  BY <1>1, <1>5 DEF CallerInOrder, NotInCall
<1>7. ASSUME NEW y \in Chain PROVE PhaseOK(y)'
  <2>1. Absent(el'[y]) /\ y > Made' /\ ~(y = Made') /\ ~(y < Made')
    BY <1>4, <1>5, ChainNumbers DEF Fresh
  <2>2. QED  BY <2>1 DEF PhaseOK
<1>8. Streaming
  <2>1. \A y \in Chain : ~Over(el[y]) /\ ~Stops(el[y])
    BY QuietPhases DEF Fresh
  <2>2. \A i \in Rings : ring[i].data = <<>> /\ ~ring[i].done /\ ring[i].abort = {}
    BY DEF Fresh, EmptyRing
  <2>3. src = 0 /\ played = <<>> /\ starved = {} /\ \A y \in Chain : hold[y] = 0
    BY DEF Fresh
  <2>4. EndsInOrder
    BY <2>1, <2>2, <2>3, ChainNumbers DEF EndsInOrder, Unbroken
  <2>5. InFlight[N] = <<>>
    BY <2>2, <2>3, EmptyFlight, InFlightIs
  <2>6. played \o InFlight[N] = Blocks(src)
    <3>1. Blocks(0) = <<>>
      BY DEF Blocks
    <3>2. <<>> \in Seq(Nat)
      OBVIOUS
    <3>3. <<>> \o <<>> = <<>>
      BY <3>2, EmptyConcat DEF Empties
    <3>4. QED  BY <2>3, <2>5, <3>1, <3>3
  <2>7. QED  BY <2>4, <2>6 DEF Streaming
<1>9. Streaming'
  BY <1>5, <1>8, CallStreaming
<1>10. QED  BY <1>4, <1>6, <1>7, <1>9 DEF Launching

\* Nothing new is begun by a second run, and what else is begun is no first run.
LEMMA SecondRun ==
  ASSUME GInv, Launching, NEW op \in PipeOps, Begin(op)
  PROVE  op # "run"
<1>1. pipe \in PipeType /\ CallsInOrder
  BY DEF GInv, Launching
<1>2. pipe.todo = <<>> /\ Program(op, pipe.state) # <<>>
  BY <1>1, BegunAt DEF Idle
<1>3. pipe.state = "RUNNING"
  BY <1>1, <1>2 DEF CallsInOrder
<1>4. Program("run", "RUNNING") = <<>>
  BY DEF Program, Run
<1>5. QED  BY <1>2, <1>3, <1>4

\* A step of a pipeline that is in its first run.
LEMMA FirstStep ==
  ASSUME GInv, Launching, Well => Streaming, [Next]_vars, pipe.past = {"run"}, pipe'.past = {"run"}
  PROVE  Launching' /\ (Well' => Streaming')
<1>1. pipe \in PipeType /\ el \in [Chain -> E!ElementType] /\ \A x \in Chain : InRun(el[x])
  BY LivesTyped, PhaseInRun DEF GInv
<1>2. ASSUME UNCHANGED <<elements, flow>>, pipe'.todo = pipe.todo, pipe'.state = pipe.state,
             pipe'.failed = pipe.failed
      PROVE  Launching' /\ (Well' => Streaming')
  <2>1. UNCHANGED <<el, api>> /\ UNCHANGED flow
    BY <1>2 DEF elements
  <2>2. Made' = Made /\ Run("INIT")' = Run("INIT")
    BY <1>2 DEF Made, Run, Each, Resume
  <2>3. CallsInOrder' /\ CallerInOrder'
    BY <1>2, <2>1, <2>2 DEF Launching, CallsInOrder, CallerInOrder
  <2>4. ASSUME NEW y \in Chain PROVE PhaseOK(y)'
    <3>1. PhaseOK(y)
      BY DEF Launching
    <3>2. QED  BY <2>1, <2>2, <3>1 DEF PhaseOK, NotInCall
  <2>5. Well' => Well
    BY <2>1 DEF Well
  <2>6. QED  BY <2>1, <2>3, <2>4, <2>5, CallStreaming DEF Launching
<1>3. CASE UNCHANGED vars
  <2>1. UNCHANGED <<elements, flow>> /\ UNCHANGED pipe
    BY <1>3 DEF vars
  <2>2. QED  BY <1>2, <2>1
<1>4. ASSUME NEW op \in PipeOps, BeginsNothing(op) PROVE Launching' /\ (Well' => Streaming')
  <2>1. /\ pipe'.todo = pipe.todo /\ pipe'.failed = pipe.failed /\ pipe'.state = pipe.state
        /\ UNCHANGED <<elements, flow>>
    BY <1>1, <1>4, BegunNothingAt
  <2>2. QED  BY <1>2, <2>1
<1>5. ASSUME NEW op \in PipeOps, Begin(op) PROVE FALSE
  <2>1. op # "run" /\ pipe'.past = pipe.past \cup {op}
    BY <1>1, <1>5, SecondRun, BegunAt
  <2>2. QED  BY <2>1
<1>6. CASE Started \/ Stopped
  <2>1. Launching' /\ UNCHANGED <<elements, flow>>
    BY <1>6, EndLaunching
  <2>2. UNCHANGED el /\ UNCHANGED flow
    BY <2>1 DEF elements
  <2>3. Well' => Well
    BY <2>2 DEF Well
  <2>4. QED  BY <2>1, <2>2, <2>3, CallStreaming
<1>7. ASSUME NEW x \in Chain, CallRun(x) PROVE Launching' /\ (Well' => Streaming')
  <2>1. Launching' /\ UNCHANGED el /\ UNCHANGED flow
    BY <1>7, CallRunLaunching, CalledAt
  <2>2. Well' => Well
    BY <2>1 DEF Well
  <2>3. QED  BY <2>1, <2>2, CallStreaming
<1>8. ASSUME NEW x \in Chain, CallResume(x) PROVE Launching' /\ (Well' => Streaming')
  <2>1. /\ Launching' /\ (\A y \in Chain : y # x => el'[y] = el[y]) /\ UNCHANGED flow
        /\ Ready(el[x], <<>>) /\ Ready(el'[x], <<"RESUME">>)
    BY <1>8, CallResumeLaunching, CalledAt
  <2>2. \A y \in Chain : /\ Over(el'[y]) <=> Over(el[y])
                         /\ Stops(el'[y]) <=> Stops(el[y])
                         /\ Sick(el'[y]) <=> Sick(el[y])
    <3>1. ~Over(el[x]) /\ ~Stops(el[x]) /\ ~Sick(el[x])
          /\ ~Over(el'[x]) /\ ~Stops(el'[x]) /\ ~Sick(el'[x])
      BY <2>1, QuietPhases
    <3>2. ASSUME NEW y \in Chain, y # x
          PROVE  /\ Over(el'[y]) <=> Over(el[y])
                 /\ Stops(el'[y]) <=> Stops(el[y])
                 /\ Sick(el'[y]) <=> Sick(el[y])
      <4>1. el'[y] = el[y]
        BY <2>1, <3>2
      <4>2. QED  BY <4>1
    <3>3. QED  BY <3>1, <3>2
  <2>3. Well' => Well
    BY <2>2 DEF Well
  <2>4. QED  BY <2>1, <2>2, <2>3, CallStreaming
<1>9. ASSUME NEW x \in Chain, Answer(x) PROVE Launching' /\ (Well' => Streaming')
  <2>1. /\ Launching' /\ (\A y \in Chain : y # x => el'[y] = el[y]) /\ UNCHANGED flow
        /\ el'[x] = el[x] \/ (Absent(el[x]) /\ Coming(el'[x]))
    BY <1>9, AnswerLaunching DEF Answer
  <2>2. \A y \in Chain : /\ Over(el'[y]) <=> Over(el[y])
                         /\ Stops(el'[y]) <=> Stops(el[y])
                         /\ Sick(el'[y]) <=> Sick(el[y])
    <3>1. CASE Absent(el[x]) /\ Coming(el'[x])
      <4>1. ~Over(el[x]) /\ ~Stops(el[x]) /\ ~Sick(el[x])
            /\ ~Over(el'[x]) /\ ~Stops(el'[x]) /\ ~Sick(el'[x])
        BY <3>1, QuietPhases
      <4>2. ASSUME NEW y \in Chain, y # x
            PROVE  /\ Over(el'[y]) <=> Over(el[y])
                   /\ Stops(el'[y]) <=> Stops(el[y])
                   /\ Sick(el'[y]) <=> Sick(el[y])
        <5>1. el'[y] = el[y]
          BY <2>1, <4>2
        <5>2. QED  BY <5>1
      <4>3. QED  BY <4>1, <4>2
    <3>2. CASE el'[x] = el[x]
      <4>1. \A y \in Chain : el'[y] = el[y]
        BY <2>1, <3>2
      <4>2. QED  BY <4>1
    <3>3. QED  BY <2>1, <3>1, <3>2
  <2>3. Well' => Well
    BY <2>2 DEF Well
  <2>4. QED  BY <2>1, <2>2, <2>3, CallStreaming
<1>10. ASSUME NEW x \in Chain, Element(x) PROVE Launching' /\ (Well' => Streaming')
  <2>1. Launching'
    BY <1>10, ElementLaunching
  <2>2. ASSUME Well' PROVE Well
    <3>1. ASSUME NEW y \in Chain, Sick(el[y]) PROVE FALSE
      <4>1. CASE y = x
        BY <1>1, <1>10, <2>2, <3>1, <4>1, ElementOnward DEF Well
      <4>2. CASE y # x
        <5>1. el'[y] = el[y]
          BY <1>1, <1>10, <4>2, ElementElsewhere
        <5>2. QED  BY <2>2, <3>1, <5>1 DEF Well
      <4>3. QED  BY <4>1, <4>2
    <3>2. QED  BY <3>1 DEF Well
  <2>3. QED  BY <1>10, <2>1, <2>2, ElementStreaming
<1>11. ASSUME Going PROVE Launching' /\ (Well' => Streaming')
  BY <1>6, <1>7, <1>8, <1>9, <1>11, GoingSteps, NoOtherCall
<1>12. QED  BY <1>3, <1>4, <1>5, <1>10, <1>11 DEF Next

\* What a step adds to the functions called.
LEMMA PastGrows ==
  ASSUME GInv, [Next]_vars
  PROVE  pipe'.past = pipe.past \/ \E op \in PipeOps : Begin(op) /\ pipe'.past = pipe.past \cup {op}
<1>1. pipe \in PipeType /\ el \in [Chain -> E!ElementType]
  BY LivesTyped DEF GInv
<1>2. CASE UNCHANGED vars
  BY <1>2 DEF vars
<1>3. ASSUME NEW op \in PipeOps, BeginsNothing(op) PROVE pipe'.past = pipe.past
  BY <1>1, <1>3, BegunNothingAt
<1>4. ASSUME NEW op \in PipeOps, Begin(op) PROVE pipe'.past = pipe.past \cup {op}
  BY <1>1, <1>4, BegunAt
<1>5. ASSUME NEW x \in Chain, Element(x) PROVE pipe'.past = pipe.past
  BY <1>1, <1>5, ElementElsewhere
<1>6. CASE Started \/ Stopped
  BY <1>1, <1>6, EndedAt
<1>7. ASSUME NEW x \in Chain, CallRun(x) \/ CallResume(x) \/ Call(x) PROVE pipe'.past = pipe.past
  BY <1>7, CalledAt
<1>8. ASSUME NEW x \in Chain, Answer(x) PROVE pipe'.past = pipe.past
  BY <1>8 DEF Answer
<1>9. ASSUME NEW x \in Chain, ResetRings(x) PROVE pipe'.past = pipe.past
  BY <1>9, ResetAt
<1>10. QED  BY <1>2, <1>3, <1>4, <1>5, <1>6, <1>7, <1>8, <1>9, GoingSteps DEF Next

LEMMA FirstBegins == Init => FirstInv
<1> SUFFICES ASSUME Init PROVE FirstInv
  OBVIOUS
<1>1. /\ pipe.past = {} /\ pipe.todo = <<>> /\ pipe.state = "INIT"
      /\ ring = [i \in Rings |-> EmptyRing] /\ src = 0 /\ hold = [x \in Chain |-> 0]
      /\ starved = {} /\ played = <<>> /\ late = {}
  BY DEF Init
<1>2. NotInCall
  BY DEF Init, E!Init, NotInCall
<1>3. ASSUME NEW x \in Chain PROVE Absent(el[x])
  <2>1. el[x] = E!NewElement
    BY DEF Init, E!Init
  <2>2. QED  BY <2>1 DEF E!NewElement, E!Nowhere, Absent, Place
<1>4. QED  BY <1>1, <1>2, <1>3 DEF FirstInv, Fresh

LEMMA FirstInvStep == GInv /\ FirstInv /\ [Next]_vars => FirstInv'
<1> SUFFICES ASSUME GInv, FirstInv, [Next]_vars PROVE FirstInv'
  OBVIOUS
<1>1. ASSUME pipe'.past = {} PROVE Fresh'
  <2>1. pipe.past = {}
    BY <1>1, PastGrows
  <2>2. QED  BY <1>1, <2>1, FreshKept DEF FirstInv
<1>2. ASSUME pipe'.past = {"run"} PROVE Launching' /\ (Well' => Streaming')
  <2>1. CASE pipe'.past = pipe.past
    BY <1>2, <2>1, FirstStep DEF FirstInv
  <2>2. CASE \E op \in PipeOps : Begin(op) /\ pipe'.past = pipe.past \cup {op}
    <3>1. PICK op \in PipeOps : Begin(op) /\ pipe'.past = pipe.past \cup {op}
      BY <2>2
    <3>2. op = "run" /\ (pipe.past = {} \/ pipe.past = {"run"})
      BY <1>2, <3>1
    <3>3. CASE pipe.past = {}
      BY <3>1, <3>2, <3>3, FreshRuns DEF FirstInv
    <3>4. CASE pipe.past = {"run"}
      BY <1>2, <3>4, FirstStep DEF FirstInv
    <3>5. QED  BY <3>2, <3>3, <3>4
  <2>3. QED  BY <2>1, <2>2, PastGrows
<1>3. QED  BY <1>1, <1>2 DEF FirstInv

LEMMA HealthyWell == Healthy => Well
<1> SUFFICES ASSUME Healthy, NEW x \in Chain, Sick(el[x]) PROVE FALSE
  BY DEF Well
<1>1. el[x].state # "ERROR" /\ "ERROR" \notin Range(el[x].queue)
  BY DEF Healthy
<1>2. el[x].queue = <<"ERROR">>
  BY <1>1 DEF Sick
<1>3. 1 \in DOMAIN <<"ERROR">> /\ <<"ERROR">>[1] = "ERROR"
  OBVIOUS
<1>4. "ERROR" \in Range(<<"ERROR">>)
  BY <1>3 DEF Range
<1>5. QED  BY <1>1, <1>2, <1>4

LEMMA FirstConserved == FirstInv => Conserved
  BY HealthyWell DEF FirstInv, Streaming, Conserved

LEMMA FirstWhole == GInv /\ FirstInv => Whole
<1> SUFFICES ASSUME GInv, FirstInv, pipe.past = {"run"}, Healthy, el[N].state = "FINISHED", late = {}
             PROVE  played = Blocks(TrackLen)
  BY DEF Whole
<1>1. Launching /\ Streaming /\ EndsInOrder
  BY HealthyWell DEF FirstInv, Streaming
<1>2. \A x \in Chain : Over(el[x])
  <2> DEFINE T == {x \in Chain : Over(el[x])}
  <2>1. N \in T /\ N \in Nat
    BY ChainNumbers DEF Over
  <2>2. ASSUME NEW i \in 2 .. N, i \in T PROVE i - 1 \in T
    <3> DEFINE k == i - 1
    <3>1. k \in Rings /\ k + 1 = i /\ k \in Chain /\ Over(el[k + 1])
      BY <2>1, <2>2 DEF Chain, Rings
    <3>2. ring[k].done
      BY <1>1, <3>1 DEF EndsInOrder
    <3>3. Over(el[k])
      BY <1>1, <3>1, <3>2 DEF EndsInOrder
    <3>4. QED  BY <3>1, <3>3
  <2> HIDE DEF T
  <2>3. 1 .. N \subseteq T
    BY <2>1, <2>2, DownFrom
  <2>4. QED  BY <2>3 DEF T, Chain
<1>3. \A x \in Chain : hold[x] = 0
  <2>1. ASSUME NEW x \in Chain, hold[x] # 0 PROVE FALSE
    <3>1. Working(x)
      BY <2>1 DEF GInv, HandOK
    <3>2. InRun(el[x])
      BY <1>1, PhaseInRun DEF GInv
    <3>3. QED  BY <1>2, <3>1, <3>2, OverRests
  <2>2. QED  BY <2>1
<1>4. \A i \in Rings : ring[i].data = <<>>
  <2>1. ASSUME NEW i \in Rings PROVE ring[i].data = <<>>
    <3>1. Over(el[i + 1]) /\ i + 1 \notin late
      BY <1>2, ChainNumbers
    <3>2. QED  BY <1>1, <3>1 DEF EndsInOrder
  <2>2. QED  BY <2>1
<1>5. InFlight[N] = <<>>
  BY <1>3, <1>4, EmptyFlight, InFlightIs
<1>6. src = TrackLen
  BY <1>1, <1>2, ChainNumbers DEF EndsInOrder
<1>7. played \o <<>> = Blocks(TrackLen)
  BY <1>1, <1>5, <1>6 DEF Streaming
<1>8. played \in Seq(1 .. TrackLen)
  BY DEF GInv, FlowOK
<1>9. Empties(played)
  BY <1>8, EmptyConcat
<1>10. QED  BY <1>7, <1>9 DEF Empties

-----------------------------------------------------------------------------
(* The end of the tasks: audio_pipeline_terminate.                         *)
Left(what, x) == \E i \in 1 .. Len(pipe.todo) : pipe.todo[i] = <<what, x>>

\* Commands in the queue, with room for the one its task may yet send itself.
Fits(e, k) == Len(e.queue) < k \/ (Place(e) = "loop" /\ Len(e.queue) <= k)

\* An element that is neither being started nor told to start or to end.
Obedient(e, k) ==
  /\ Place(e) \in {"none", "loop", "halt", "pausing", "process", "work"}
  /\ \A i \in 1 .. Len(e.queue) : e.queue[i] \notin {"RESUME", "DESTROY"}
  /\ Fits(e, k)

\* What is left of a terminate, and the call it is in.
TerminateCalls ==
  ({"stop", "wait", "reset", "terminate"} \X Chain) \cup {<<"stopped", 0>>}

\* Its task is gone, or terminate waits for its end.
Ending(x) ==
  \/ Place(el[x]) = "none"
  \/ E!In(Caller, x, "terminate") /\ "DESTROYED" \notin el[x].bits

Quitting ==
  /\ Once(pipe.todo) /\ \A i \in 1 .. Len(pipe.todo) : pipe.todo[i] \in TerminateCalls
  /\ api[Caller].in \in {"nothing", "wait", "terminate"}
  /\ \A x \in Chain :
       IF Left("terminate", x) THEN Obedient(el[x], IF Left("stop", x) THEN 1 ELSE 2)
       ELSE Ending(x)

QuitInv == pipe.op = "terminate" => Quitting

\* The steps of the tasks are those the proofs about elements speak of.
LEMMA SameTask ==
  ASSUME NEW x \in Chain, E!Task(x, Task)
  PROVE  EP!Task(x, Task)
  BY DEF E!States, EP!States, E!Started, EP!Started, E!Resting, EP!Resting, E!HasRoom,
         EP!HasRoom, E!Send, EP!Send, E!Cleared, EP!Cleared, E!Closed, EP!Closed,
         E!Goto, EP!Goto, E!StopRequest,
         EP!StopRequest, E!ResumeRequest, EP!ResumeRequest, E!At, EP!At, E!Become, EP!Become,
         E!TaskCreated, EP!TaskCreated, E!TaskBoots, EP!TaskBoots, E!Poll, EP!Poll,
         E!Receives, EP!Receives, E!Received, EP!Received, E!OnError, EP!OnError, E!OnFinish,
         EP!OnFinish, E!OnStop, EP!OnStop, E!Halts, EP!Halts, E!OnStopFinished,
         EP!OnStopFinished, E!OnPause, EP!OnPause, E!Pauses, EP!Pauses, E!OnResumeRunning,
         EP!OnResumeRunning, E!OnResume, EP!OnResume, E!OpenSucceeds, EP!OpenSucceeds,
         E!Starts, EP!Starts, E!OpenRefused, EP!OpenRefused, E!OnDestroy, EP!OnDestroy,
         E!SkipsProcess, EP!SkipsProcess, E!EntersProcess, EP!EntersProcess, E!AfterProcess,
         EP!AfterProcess, E!ResetState, EP!ResetState, E!Works, EP!Works, E!LeavesLoop,
         EP!LeavesLoop, E!Ends, EP!Ends, E!Handlers, EP!Handlers, E!Task, EP!Task

\* Where the task of an obedient element may be, and what its life says of it there.
Attending == {"none", "loop", "halt", "pausing", "process", "work"}

LEMMA TaskLives ==
  ASSUME GInv, NEW x \in Chain
  PROVE  /\ Place(el[x]) = "work" => el[x].state # "INIT"
         /\ Place(el[x]) \in Attending \ {"none"} => el[x].taskRun
         /\ el[x].taskRun => Place(el[x]) # "none"
<1>1. EP!EInv /\ EP!Life(x) /\ EP!Formed(x)
  BY DEF GInv, EP!LInv, EP!EInv
<1>2. Place(el[x]) = "work" => EP!Shape(el[x], "work")
  BY <1>1 DEF EP!Formed, Place
<1>3. Place(el[x]) \in EP!Busy => el[x].taskRun
  BY <1>1 DEF EP!Life, Place
<1>4. Attending \ {"none"} \subseteq EP!Busy
  BY DEF Attending, EP!Busy, EP!Places
<1>5. el[x].taskRun => Place(el[x]) # "none"
  BY <1>1 DEF EP!Life, EP!At, Place
<1>6. QED  BY <1>2, <1>3, <1>4, <1>5 DEF EP!Shape

\* Sending, in general.
LEMMA SendQueue ==
  ASSUME NEW e \in E!ElementType, NEW cmd \in E!Cmds
  PROVE  LET s == E!Send(e, cmd) IN
         /\ s \in E!ElementType /\ s.task = e.task /\ s.bits = e.bits
         /\ Len(s.queue) \in Nat /\ Len(s.queue) <= Len(e.queue) + 1
         /\ \A i \in 1 .. Len(s.queue) :
              s.queue[i] = cmd \/ (i \in 1 .. Len(e.queue) /\ s.queue[i] = e.queue[i])
<1>1. e.queue \in Seq(E!Cmds) /\ Len(e.queue) \in Nat
  BY DEF E!ElementType
<1>2. CASE E!HasRoom(e)
  <2> DEFINE q == Append(e.queue, cmd)
  <2>1. E!Send(e, cmd) = [e EXCEPT !.queue = q]
    BY <1>2 DEF E!Send
  <2>2. /\ q \in Seq(E!Cmds) /\ Len(q) = Len(e.queue) + 1
        /\ \A i \in 1 .. Len(q) : q[i] = cmd \/ (i \in 1 .. Len(e.queue) /\ q[i] = e.queue[i])
    BY <1>1
  <2> HIDE DEF q
  <2>3. LET s == E!Send(e, cmd) IN
        s \in E!ElementType /\ s.task = e.task /\ s.bits = e.bits /\ s.queue = q
    BY <2>1, <2>2 DEF E!ElementType
  <2>4. QED  BY <1>1, <2>2, <2>3
<1>3. CASE ~E!HasRoom(e)
  BY <1>1, <1>3 DEF E!Send
<1>4. QED  BY <1>2, <1>3

\* Taking a command, leaving the queue alone and adding to it.
LEMMA ObedientTakes ==
  ASSUME NEW e \in E!ElementType, NEW k \in Nat, Obedient(e, k), Place(e) = "loop", e.queue # <<>>,
         NEW f, f.queue = Tail(e.queue), Place(f) \in Attending
  PROVE  Obedient(f, k)
<1> DEFINE q == e.queue
<1>1. q \in Seq(E!Cmds) /\ q # <<>>
  BY DEF E!ElementType
<1>2. Len(q) <= k
  BY <1>1 DEF Obedient, Fits
<1> HIDE DEF q
<1>3. Len(Tail(q)) < k
  BY <1>1, <1>2
<1>4. \A i \in 1 .. Len(Tail(q)) : i + 1 \in 1 .. Len(q) /\ Tail(q)[i] = q[i + 1]
  BY <1>1
<1>5. QED  BY <1>3, <1>4 DEF Obedient, Fits, Attending, q

LEMMA ObedientStays ==
  ASSUME NEW e \in E!ElementType, NEW k \in Nat \ {0}, Obedient(e, k),
         Place(e) # "loop" \/ e.queue = <<>>,
         NEW f, f.queue = e.queue, Place(f) \in Attending
  PROVE  Obedient(f, k)
<1>1. e.queue \in Seq(E!Cmds) /\ Len(<<>>) = 0
  BY DEF E!ElementType
<1>2. Len(e.queue) < k
  BY <1>1 DEF Obedient, Fits
<1>3. QED  BY <1>2 DEF Obedient, Fits, Attending

LEMMA ObedientSends ==
  ASSUME NEW e \in E!ElementType, NEW k \in Nat \ {0}, Obedient(e, k),
         NEW cmd \in E!Cmds \ {"RESUME", "DESTROY"},
         NEW f, f.queue = E!Send(e, cmd).queue,
         Place(e) = "work", Place(f) = "loop"
  PROVE  Obedient(f, k)
<1> DEFINE s == E!Send(e, cmd)
<1>1. /\ Len(s.queue) \in Nat /\ Len(s.queue) <= Len(e.queue) + 1
      /\ \A i \in 1 .. Len(s.queue) :
           s.queue[i] = cmd \/ (i \in 1 .. Len(e.queue) /\ s.queue[i] = e.queue[i])
  BY SendQueue
<1>2. Len(e.queue) < k /\ Len(e.queue) \in Nat
  BY DEF Obedient, Fits, E!ElementType
<1> HIDE DEF s
<1>3. Len(s.queue) <= k
  BY <1>1, <1>2
<1>4. f.queue = s.queue
  BY DEF s
<1>5. QED  BY <1>1, <1>3, <1>4 DEF Obedient, Fits

\* The element after a command is taken, and after its device is closed.
LEMMA TakenAt ==
  ASSUME NEW x \in Chain, el \in [Chain -> E!ElementType], NEW cmd, E!Receives(x, Task, cmd)
  PROVE  LET r == E!Received(x)
             d == E!Closed(r) IN
         /\ Place(el[x]) = "loop" /\ el[x].queue # <<>> /\ Head(el[x].queue) = cmd
         /\ r \in E!ElementType /\ r.queue = Tail(el[x].queue)
         /\ d \in E!ElementType /\ d.queue = Tail(el[x].queue)
<1> DEFINE e == el[x]
           r == E!Received(x)
<1>1. Place(e) = "loop" /\ e.queue # <<>> /\ Head(e.queue) = cmd
  BY DEF E!Receives, E!At, Place
<1>2. e \in E!ElementType /\ Tail(e.queue) \in Seq(E!Cmds)
  BY <1>1, HeadTailProperties DEF E!ElementType
<1>3. r \in E!ElementType /\ r.queue = Tail(e.queue)
  BY <1>2 DEF E!Received, E!ElementType
<1> HIDE DEF r
<1>4. E!Closed(r) \in E!ElementType /\ E!Closed(r).queue = r.queue
  BY <1>3, ClosedAt
<1>5. QED  BY <1>1, <1>3, <1>4 DEF r

\* The commands an obedient element may find in its queue.
LEMMA ObedientHandles ==
  ASSUME GInv, NEW x \in Chain, NEW k \in Nat \ {0}, Obedient(el[x], k),
         E!Handlers(x, Task)
  PROVE  Obedient(el'[x], k)
<1> DEFINE e == el[x]
           r == E!Received(x)
           d == E!Closed(r)
<1>1. /\ e \in E!ElementType /\ el \in [Chain -> E!ElementType] /\ k \in Nat
      /\ {"process", "halt", "pausing"} \subseteq Attending \cap E!Places
  BY LivesTyped DEF GInv, Attending, E!Places
<1>2. ASSUME NEW cmd, E!Receives(x, Task, cmd), NEW f, f \in E!ElementType,
             f.queue = Tail(e.queue), NEW q \in {"process", "halt", "pausing"},
             E!Become(x, E!Goto(f, Task, q))
      PROVE  Obedient(el'[x], k)
  <2>1. el'[x].queue = Tail(e.queue) /\ Place(el'[x]) = q
    BY <1>1, <1>2, BecomeAt
  <2>2. Place(e) = "loop" /\ e.queue # <<>>
    BY <1>1, <1>2, TakenAt
  <2> HIDE DEF e
  <2>3. QED  BY <1>1, <2>1, <2>2, ObedientTakes DEF e
<1>3. ASSUME NEW cmd, E!Receives(x, Task, cmd)
      PROVE  /\ r \in E!ElementType /\ r.queue = Tail(e.queue)
             /\ d \in E!ElementType /\ d.queue = Tail(e.queue)
             /\ cmd \notin {"RESUME", "DESTROY"}
  <2>1. e.queue # <<>> /\ Head(e.queue) = cmd
    BY <1>1, <1>3, TakenAt
  <2>2. e.queue \in Seq(E!Cmds)
    BY <1>1 DEF E!ElementType
  <2> DEFINE q == e.queue
  <2>3. 1 \in 1 .. Len(q) /\ q[1] = cmd
    BY <2>1, <2>2
  <2>4. cmd \notin {"RESUME", "DESTROY"}
    BY <2>3 DEF Obedient
  <2>5. QED  BY <1>1, <1>3, <2>4, TakenAt
<1>4. ASSUME NEW f, f \in E!ElementType, f.queue = e.queue, Place(e) \in {"halt", "pausing"},
             E!Become(x, E!Goto(f, Task, "process"))
      PROVE  Obedient(el'[x], k)
  <2>1. el'[x].queue = e.queue /\ Place(el'[x]) = "process"
    BY <1>1, <1>4, BecomeAt
  <2> HIDE DEF e
  <2>2. QED  BY <1>1, <1>4, <2>1, ObedientStays DEF e
<1>5. ASSUME NEW b \in SUBSET E!Bits
      PROVE  b \cup {"STOPPED"} \in SUBSET E!Bits /\ b \cup {"PAUSED"} \in SUBSET E!Bits
  BY <1>5 DEF E!Bits
<1>6. CASE E!OnError(x, Task)
  <2> DEFINE f == [d EXCEPT !.state = "ERROR", !.wait = "forever", !.isRunning = FALSE,
                            !.bits = @ \cup {"STOPPED"}]
  <2>1. E!Receives(x, Task, "ERROR") /\ E!Become(x, E!Goto(f, Task, "process"))
    BY <1>6 DEF E!OnError
  <2>2. d \in E!ElementType /\ d.queue = Tail(e.queue)
    BY <1>3, <2>1
  <2> HIDE DEF d, r, e
  <2>3. f \in E!ElementType /\ f.queue = Tail(e.queue)
    BY <1>5, <2>2 DEF E!ElementType, E!States
  <2> HIDE DEF f
  <2>4. QED  BY <1>2, <2>1, <2>3
<1>7. CASE E!OnFinish(x, Task) \/ E!OnStop(x, Task)
  <2> DEFINE f(s) == [d EXCEPT !.state = s, !.wait = "forever", !.bits = @ \cup {"STOPPED"}]
  <2>1. PICK s \in {"FINISHED", "STOPPED"}, cmd \in {"FINISH", "STOP"} :
          E!Receives(x, Task, cmd) /\ E!Become(x, E!Goto(f(s), Task, "halt"))
    BY <1>7 DEF E!OnFinish, E!OnStop
  <2>2. d \in E!ElementType /\ d.queue = Tail(e.queue)
    BY <1>3, <2>1
  <2> HIDE DEF d, r, e
  <2>3. f(s) \in E!ElementType /\ f(s).queue = Tail(e.queue)
    BY <1>5, <2>2 DEF E!ElementType, E!States
  <2> HIDE DEF f
  <2>4. QED  BY <1>2, <2>1, <2>3
<1>8. CASE E!OnStopFinished(x, Task)
  <2> DEFINE f == [r EXCEPT !.state = "STOPPED", !.bits = @ \cup {"STOPPED"}]
  <2>1. E!Receives(x, Task, "STOP") /\ E!Become(x, E!Goto(f, Task, "process"))
    BY <1>8 DEF E!OnStopFinished
  <2>2. r \in E!ElementType /\ r.queue = Tail(e.queue)
    BY <1>3, <2>1
  <2> HIDE DEF d, r, e
  <2>3. f \in E!ElementType /\ f.queue = Tail(e.queue)
    BY <1>5, <2>2 DEF E!ElementType, E!States
  <2> HIDE DEF f
  <2>4. QED  BY <1>2, <2>1, <2>3
<1>9. CASE E!OnPause(x, Task)
  <2> DEFINE f == [r EXCEPT !.state = "PAUSED"]
  <2>1. E!Receives(x, Task, "PAUSE") /\ E!Become(x, E!Goto(f, Task, "pausing"))
    BY <1>9 DEF E!OnPause
  <2>2. r \in E!ElementType /\ r.queue = Tail(e.queue)
    BY <1>3, <2>1
  <2> HIDE DEF d, r, e
  <2>3. f \in E!ElementType /\ f.queue = Tail(e.queue)
    BY <2>2 DEF E!ElementType, E!States
  <2> HIDE DEF f
  <2>4. QED  BY <1>2, <2>1, <2>3
<1>10. CASE E!Halts(x, Task)
  <2> DEFINE f == [e EXCEPT !.isRunning = FALSE]
  <2>1. Place(e) = "halt" /\ E!Become(x, E!Goto(f, Task, "process"))
    BY <1>10 DEF E!Halts, E!At, Place
  <2>2. f \in E!ElementType /\ f.queue = e.queue
    BY <1>1 DEF E!ElementType
  <2> HIDE DEF f, e
  <2>3. QED  BY <1>4, <2>1, <2>2
<1>11. CASE E!Pauses(x, Task)
  <2> DEFINE c == E!Closed(e)
             f == [c EXCEPT !.wait = "forever", !.isRunning = FALSE, !.bits = @ \cup {"PAUSED"}]
  <2>1. Place(e) = "pausing" /\ E!Become(x, E!Goto(f, Task, "process"))
    BY <1>11 DEF E!Pauses, E!At, Place
  <2>2. c \in E!ElementType /\ c.queue = e.queue
    BY <1>1, ClosedAt
  <2> HIDE DEF c, e
  <2>3. f \in E!ElementType /\ f.queue = e.queue
    BY <1>5, <2>2 DEF E!ElementType
  <2> HIDE DEF f
  <2>4. QED  BY <1>4, <2>1, <2>3
<1>12. ~E!OnResumeRunning(x, Task) /\ ~E!OnResume(x, Task) /\ ~E!OnDestroy(x, Task)
  BY <1>3 DEF E!OnResumeRunning, E!OnResume, E!OnDestroy
<1>13. ~E!OpenSucceeds(x, Task) /\ ~E!Starts(x, Task) /\ ~E!OpenRefused(x, Task)
  BY DEF E!OpenSucceeds, E!Starts, E!OpenRefused, E!At, Obedient, Place
<1>14. QED  BY <1>6, <1>7, <1>8, <1>9, <1>10, <1>11, <1>12, <1>13 DEF E!Handlers

\* What process comes to, for an obedient element.
LEMMA ObedientWorks ==
  ASSUME GInv, NEW x \in Chain, NEW k \in Nat \ {0}, Obedient(el[x], k),
         NEW o \in Outs, E!Works(x, Task, o)
  PROVE  Obedient(el'[x], k)
<1> DEFINE e == el[x]
           f == E!AfterProcess(e, o)
<1>1. e \in E!ElementType /\ el \in [Chain -> E!ElementType]
  BY LivesTyped DEF GInv
<1>2. Place(e) = "work" /\ E!Become(x, E!Goto(f, Task, "loop")) /\ e.state # "INIT"
  <2>1. Place(e) \in {"work", "reset"} /\ E!Become(x, E!Goto(f, Task, "loop"))
    BY DEF E!Works, E!At, Place
  <2>2. QED  BY <2>1, TaskLives DEF Obedient
<1>3. \/ f = e
      \/ \E cmd \in E!Cmds \ {"RESUME", "DESTROY"} : f = E!Send(e, cmd)
  BY <1>2 DEF E!AfterProcess, Outs, E!Cmds, E!StopRequest
<1> HIDE DEF f
<1>4. f \in E!ElementType
  BY <1>1, <1>3, SendQueue
<1>5. el'[x].queue = f.queue /\ Place(el'[x]) = "loop" /\ "loop" \in Attending
  BY <1>1, <1>2, <1>4, BecomeAt DEF Attending, E!Places
<1> HIDE DEF e
<1>6. CASE f = e
  BY <1>1, <1>2, <1>5, <1>6, ObedientStays DEF e
<1>7. CASE \E cmd \in E!Cmds \ {"RESUME", "DESTROY"} : f = E!Send(e, cmd)
  BY <1>1, <1>2, <1>5, <1>7, ObedientSends DEF e
<1>8. QED  BY <1>3, <1>6, <1>7

\* An obedient element stays one until it is told something.
LEMMA ObedientTask ==
  ASSUME GInv, NEW x \in Chain, NEW k \in Nat \ {0}, Obedient(el[x], k), E!Task(x, Task)
  PROVE  Obedient(el'[x], k)
<1> DEFINE e == el[x]
<1>1. e \in E!ElementType /\ el \in [Chain -> E!ElementType]
  BY LivesTyped DEF GInv
<1>2. ~E!TaskCreated(x, Task) /\ ~E!TaskBoots(x, Task) /\ ~E!Ends(x, Task)
  BY DEF E!TaskCreated, E!TaskBoots, E!Ends, E!At, Obedient, Place
<1>3. ~E!LeavesLoop(x, Task)
  BY TaskLives DEF E!LeavesLoop, E!At, Place, Attending
<1>4. ~E!ResetState(x, Task)
  BY DEF E!ResetState
<1>5. ASSUME NEW q \in {"process", "loop", "work"}, E!Become(x, E!Goto(e, Task, q)),
             Place(e) # "loop" \/ e.queue = <<>>
      PROVE  Obedient(el'[x], k)
  <2>1. el'[x].queue = e.queue /\ Place(el'[x]) = q /\ q \in Attending
    BY <1>1, <1>5, BecomeAt DEF Attending, E!Places
  <2> HIDE DEF e
  <2>2. QED  BY <1>1, <1>5, <2>1, ObedientStays DEF e
<1>6. CASE E!Poll(x, Task)
  BY <1>5, <1>6 DEF E!Poll
<1>7. CASE E!SkipsProcess(x, Task) \/ E!EntersProcess(x, Task)
  <2>1. Place(e) = "process"
    BY <1>7 DEF E!SkipsProcess, E!EntersProcess, E!At, Place
  <2>2. QED  BY <1>5, <1>7, <2>1 DEF E!SkipsProcess, E!EntersProcess
<1>8. CASE E!Handlers(x, Task)
  BY <1>8, ObedientHandles
<1>9. CASE \E o \in Outs : E!Works(x, Task, o)
  BY <1>9, ObedientWorks
<1>10. QED  BY <1>2, <1>3, <1>4, <1>6, <1>7, <1>8, <1>9 DEF E!Task, Outs

LEMMA ElementTask ==
  ASSUME NEW x \in Chain, Element(x)
  PROVE  E!Task(x, Task) \/ UNCHANGED elements
<1>1. ASSUME NEW o \in Outs, Ends(x, o) PROVE E!Task(x, Task)
  BY <1>1 DEF Ends, E!Task, Outs
<1>2. CASE Quiet(x) \/ OnError(x) \/ OnStop(x) \/ OnResume(x)
  BY <1>2 DEF Quiet, OnError, OnStop, OnResume, E!Task, E!Handlers
<1>3. CASE ReadSource(x) \/ ReadRing(x) \/ StarvedGoesOn(x) \/ Play(x) \/ WriteRing(x)
  <2>1. (\E o \in Outs : Ends(x, o)) \/ UNCHANGED elements
    BY <1>3 DEF ReadSource, ReadRing, StarvedGoesOn, Play, WriteRing, Outs
  <2>2. QED  BY <1>1, <2>1
<1>4. QED  BY <1>2, <1>3 DEF Element

\* A task steps where there is one.
LEMMA TaskAlive ==
  ASSUME NEW x \in Chain, E!Task(x, Task)
  PROVE  Place(el[x]) # "none"
  BY DEF E!Task, E!Handlers, E!TaskCreated, E!TaskBoots, E!Poll, E!OnError, E!OnFinish,
         E!OnStop, E!Halts, E!OnStopFinished, E!OnPause, E!Pauses, E!OnResumeRunning,
         E!OnResume, E!OpenSucceeds, E!Starts, E!OpenRefused, E!OnDestroy, E!SkipsProcess,
         E!EntersProcess, E!ResetState, E!Works, E!LeavesLoop, E!Ends, E!Receives, E!At, Place

\* Only a task that has ended signals its end.
LEMMA TaskEnds ==
  ASSUME GInv, NEW x \in Chain, E!Task(x, Task),
         "DESTROYED" \in el'[x].bits, "DESTROYED" \notin el[x].bits
  PROVE  Place(el'[x]) = "none"
<1>1. EP!EInv /\ EP!Lone(x) /\ EP!Life(x) /\ EP!Task(x, Task)
  BY SameTask DEF GInv, EP!LInv
<1>2. QED  BY <1>1, Assumptions, EP!EndSignalled DEF Place

-----------------------------------------------------------------------------
(* The steps of a terminate.                                               *)
\* The tasks go on as they are asked.
LEMMA ElementQuits ==
  ASSUME GInv, Quitting, NEW x \in Chain, Element(x)
  PROVE  Quitting'
<1>1. /\ el \in [Chain -> E!ElementType]
      /\ (\A y \in Chain : y # x => el'[y] = el[y]) /\ UNCHANGED <<api, calls, pipe>>
  BY LivesTyped, ElementElsewhere DEF GInv
<1>2. \A w, y : Left(w, y)' <=> Left(w, y)
  BY <1>1 DEF Left
<1>3. CASE UNCHANGED elements
  <2>1. el' = el
    BY <1>3 DEF elements
  <2>2. \A y \in Chain : Ending(y)' <=> Ending(y)
    BY <1>1, <2>1 DEF Ending, E!In
  <2>3. QED  BY <1>1, <1>2, <2>1, <2>2 DEF Quitting
<1>4. CASE E!Task(x, Task)
  <2>1. \A k \in {1, 2} : Obedient(el[x], k) => Obedient(el'[x], k)
    BY <1>4, ObedientTask
  <2>2. Ending(x) => Ending(x)'
    BY <1>1, <1>4, TaskAlive, TaskEnds DEF Ending, E!In
  <2>3. \A y \in Chain : y # x => (Ending(y)' <=> Ending(y))
    BY <1>1 DEF Ending, E!In
  <2>4. QED  BY <1>1, <1>2, <2>1, <2>2, <2>3 DEF Quitting
<1>5. QED  BY <1>3, <1>4, ElementTask

\* The last function has taken effect when a patient caller begins.
LEMMA TerminateBegins ==
  ASSUME GInv, Patient, "terminate" \in PipeOps, Begin("terminate")
  PROVE  Quitting'
<1>1. /\ pipe'.todo = Terminate(pipe.state) /\ Idle /\ UNCHANGED <<elements, flow>> /\ Settled
  BY BegunAt DEF GInv, Program
<1>2. UNCHANGED <<el, api>> /\ el \in [Chain -> E!ElementType]
  BY <1>1, LivesTyped DEF GInv, elements
<1>3. /\ Once(pipe'.todo) /\ \A i \in 1 .. Len(pipe'.todo) : pipe'.todo[i] \in TerminateCalls
      /\ \A x \in Chain : Left("terminate", x)'
  BY <1>1, TerminateProgram DEF TerminateCalls, Left
<1>4. ASSUME NEW x \in Chain, NEW k \in {1, 2} PROVE Obedient(el[x], k)
  <2>1. el[x].queue = <<>> /\ Place(el[x]) \in {"none", "loop", "process", "work"}
    BY <1>1 DEF Settled, Place
  <2>2. Len(<<>>) = 0 /\ 0 < k
    OBVIOUS
  <2>3. QED  BY <2>1, <2>2 DEF Obedient, Fits
<1>5. api'[Caller].in = "nothing"
  BY <1>1, <1>2 DEF Idle, NotInCall
<1>6. QED  BY <1>2, <1>3, <1>4, <1>5 DEF Quitting

\* One call fewer is left.
LEMMA OneLeft ==
  ASSUME pipe \in PipeType, pipe.todo # <<>>, pipe'.todo = Tail(pipe.todo), Once(pipe.todo),
         \A i \in 1 .. Len(pipe.todo) : pipe.todo[i] \in TerminateCalls
  PROVE  /\ Once(pipe'.todo) /\ \A i \in 1 .. Len(pipe'.todo) : pipe'.todo[i] \in TerminateCalls
         /\ \A w, y : Left(w, y)' <=> Left(w, y) /\ Head(pipe.todo) # <<w, y>>
         /\ Head(pipe.todo) \in TerminateCalls
<1> DEFINE s == pipe.todo
           t == Tail(s)
<1>1. s \in Seq(Calls) /\ s # <<>>
  BY DEF PipeType
<1>2. /\ Len(s) \in Nat \ {0} /\ Len(t) = Len(s) - 1 /\ Head(s) = s[1] /\ t \in Seq(Calls)
      /\ \A i \in 1 .. Len(t) : i + 1 \in 1 .. Len(s) /\ t[i] = s[i + 1]
      /\ \A j \in 2 .. Len(s) : j - 1 \in 1 .. Len(t) /\ t[j - 1] = s[j]
  BY <1>1
<1>3. Once(s) /\ \A i \in 1 .. Len(s) : s[i] \in TerminateCalls
  OBVIOUS
<1>4. pipe'.todo = t
  OBVIOUS
<1>5. \A w, y : Left(w, y) <=> \E i \in 1 .. Len(s) : s[i] = <<w, y>>
  BY DEF Left
<1>6. \A w, y : Left(w, y)' <=> \E i \in 1 .. Len(t) : t[i] = <<w, y>>
  BY <1>4 DEF Left
<1> HIDE DEF s, t
<1>7. Once(t)
  BY <1>2, <1>3 DEF Once
<1>8. ASSUME NEW p PROVE (\E i \in 1 .. Len(t) : t[i] = p)
                           <=> (\E i \in 1 .. Len(s) : s[i] = p) /\ Head(s) # p
  <2>1. ASSUME NEW i \in 1 .. Len(t), t[i] = p PROVE (\E j \in 1 .. Len(s) : s[j] = p) /\ Head(s) # p
    <3>1. i + 1 \in 1 .. Len(s) /\ s[i + 1] = p /\ 1 \in 1 .. Len(s) /\ i + 1 # 1
      BY <1>2, <2>1
    <3>2. s[1] # p
      BY <1>3, <3>1 DEF Once
    <3>3. QED  BY <1>2, <3>1, <3>2
  <2>2. ASSUME NEW j \in 1 .. Len(s), s[j] = p, Head(s) # p PROVE \E i \in 1 .. Len(t) : t[i] = p
    <3>1. j \in 2 .. Len(s)
      BY <1>2, <2>2
    <3>2. QED  BY <1>2, <2>2, <3>1
  <2>3. QED  BY <2>1, <2>2
<1>9. \A i \in 1 .. Len(t) : t[i] \in TerminateCalls
  BY <1>2, <1>3
<1>10. 1 \in 1 .. Len(s) /\ s[1] \in TerminateCalls
  BY <1>2, <1>3
<1>11. QED  BY <1>2, <1>4, <1>5, <1>6, <1>7, <1>8, <1>9, <1>10 DEF s

\* What is not a call of a terminate.
LEMMA TerminateHead ==
  ASSUME pipe \in PipeType, Quitting, NEW w, NEW x, Due(w, x)
  PROVE  w \in {"stop", "wait", "reset", "terminate", "stopped"}
<1>1. pipe.todo # <<>> /\ Head(pipe.todo) = <<w, x>> /\ pipe.todo \in Seq(Calls)
  BY DEF Due, PipeType
<1>2. 1 \in 1 .. Len(pipe.todo) /\ pipe.todo[1] = <<w, x>>
  BY <1>1
<1>3. <<w, x>> \in TerminateCalls
  BY <1>2 DEF Quitting
<1>4. QED  BY <1>3 DEF TerminateCalls

\* More commands fit where fewer do.
LEMMA ObedientMore ==
  ASSUME GInv, NEW y \in Chain, Obedient(el[y], 1)
  PROVE  Obedient(el[y], 2)
<1>1. Len(el[y].queue) \in Nat
  BY LivesTyped DEF GInv, E!ElementType
<1>2. QED  BY <1>1 DEF Obedient, Fits

\* One call fewer is left, and the elements and their ends are as before.
LEMMA LessLeft ==
  ASSUME GInv, Quitting, NotInCall, pipe.todo # <<>>, pipe'.todo = Tail(pipe.todo),
         UNCHANGED el, api'[Caller].in \in {"nothing", "wait"},
         \A y \in Chain : Head(pipe.todo) = <<"terminate", y>> => Place(el[y]) = "none"
  PROVE  Quitting'
<1>1. /\ Once(pipe'.todo) /\ \A i \in 1 .. Len(pipe'.todo) : pipe'.todo[i] \in TerminateCalls
      /\ \A w, y : Left(w, y)' <=> Left(w, y) /\ Head(pipe.todo) # <<w, y>>
  BY OneLeft DEF Quitting, GInv
<1>2. \A y \in Chain : Ending(y) => Place(el[y]) = "none"
  BY DEF Ending, NotInCall, E!In
<1>3. \A y \in Chain : Place(el[y]) = "none" => Ending(y)'
  BY DEF Ending
<1>4. \A y \in Chain : IF Left("terminate", y)'
                      THEN Obedient(el'[y], IF Left("stop", y)' THEN 1 ELSE 2) ELSE Ending(y)'
  <2> SUFFICES ASSUME NEW y \in Chain
               PROVE  IF Left("terminate", y)'
                      THEN Obedient(el'[y], IF Left("stop", y)' THEN 1 ELSE 2) ELSE Ending(y)'
    OBVIOUS
  <2>1. CASE Left("terminate", y)'
    <3>1. Left("terminate", y) /\ (Left("stop", y)' => Left("stop", y))
      BY <1>1, <2>1
    <3>2. Obedient(el[y], IF Left("stop", y) THEN 1 ELSE 2)
      BY <3>1 DEF Quitting
    <3>3. QED  BY <2>1, <3>1, <3>2, ObedientMore
  <2>2. CASE ~Left("terminate", y)'
    <3>1. Place(el[y]) = "none"
      BY <1>1, <1>2, <2>2 DEF Quitting
    <3>2. QED  BY <1>3, <2>2, <3>1
  <2>3. QED  BY <2>1, <2>2
<1>5. QED  BY <1>1, <1>4 DEF Quitting

\* audio_element_stop finds the element stopped, or leaves it a STOP.
LEMMA StopQuits ==
  ASSUME GInv, Quitting, NEW x \in Chain, Due("stop", x), pipe' = Gone(pipe),
         E!Stop(Caller, x)
  PROVE  Quitting'
<1>1. /\ pipe.todo # <<>> /\ Head(pipe.todo) = <<"stop", x>> /\ NotInCall
      /\ pipe \in PipeType /\ el \in [Chain -> E!ElementType]
  BY LivesTyped DEF Due, GInv
<1>2. pipe'.todo = Tail(pipe.todo)
  BY <1>1, GoneTyped
<1>3. /\ Once(pipe'.todo) /\ \A i \in 1 .. Len(pipe'.todo) : pipe'.todo[i] \in TerminateCalls
      /\ \A w, y : Left(w, y)' <=> Left(w, y) /\ Head(pipe.todo) # <<w, y>>
  BY <1>1, <1>2, OneLeft DEF Quitting
<1> DEFINE e == el[x]
           s == E!Send(e, "STOP")
<1>4. el' = [el EXCEPT ![x] = s] /\ e \in E!ElementType
  BY <1>1 DEF E!Stop
<1>5. api'[Caller].in = "nothing"
  BY ApiAt, ZenonT(40) DEF E!Stop, E!Returns
<1>6. /\ s \in E!ElementType /\ s.task = e.task /\ s.bits = e.bits
      /\ Len(s.queue) \in Nat /\ Len(s.queue) <= Len(e.queue) + 1
      /\ \A i \in 1 .. Len(s.queue) :
           s.queue[i] = "STOP" \/ (i \in 1 .. Len(e.queue) /\ s.queue[i] = e.queue[i])
  BY <1>4, SendQueue DEF E!Cmds
<1> HIDE DEF s
<1>7. el'[x] = s /\ \A y \in Chain : y # x => el'[y] = el[y]
  BY <1>1, <1>4
<1>8. \A y \in Chain : Ending(y) => Place(el[y]) = "none"
  BY <1>1 DEF Ending, NotInCall, E!In
<1>9. \A y \in Chain : Place(el'[y]) = Place(el[y])
  BY <1>6, <1>7 DEF Place
<1>10. Obedient(e, 1) => Obedient(s, 2)
  <2>1. Len(e.queue) \in Nat /\ Place(s) = Place(e)
    BY <1>4, <1>6 DEF E!ElementType, Place
  <2>2. QED  BY <1>6, <2>1 DEF Obedient, Fits
<1>11. /\ Left("stop", x) /\ ~Left("stop", x)'
       /\ \A y \in Chain : /\ Left("terminate", y)' <=> Left("terminate", y)
                           /\ y # x => (Left("stop", y)' <=> Left("stop", y))
  <2>1. pipe.todo \in Seq(Calls)
    BY <1>1 DEF PipeType
  <2>2. 1 \in 1 .. Len(pipe.todo) /\ pipe.todo[1] = <<"stop", x>>
    BY <1>1, <2>1
  <2>3. Left("stop", x)
    BY <2>2 DEF Left
  <2>4. QED  BY <1>1, <1>3, <2>3
<1>12. ASSUME NEW y \in Chain
       PROVE  IF Left("terminate", y)'
              THEN Obedient(el'[y], IF Left("stop", y)' THEN 1 ELSE 2) ELSE Ending(y)'
  <2>1. CASE ~Left("terminate", y)
    <3>1. Place(el'[y]) = "none"
      BY <1>8, <1>9, <2>1 DEF Quitting
    <3>2. QED  BY <1>11, <2>1, <3>1 DEF Ending
  <2>2. CASE Left("terminate", y) /\ y = x
    <3>1. Obedient(e, 1)
      BY <1>11, <2>2 DEF Quitting
    <3>2. QED  BY <1>7, <1>10, <1>11, <2>2, <3>1
  <2>3. CASE Left("terminate", y) /\ y # x
    <3>1. Obedient(el[y], IF Left("stop", y) THEN 1 ELSE 2)
      BY <2>3 DEF Quitting
    <3>2. QED  BY <1>7, <1>11, <2>3, <3>1
  <2>4. QED  BY <2>1, <2>2, <2>3
<1>13. QED  BY <1>3, <1>5, <1>12 DEF Quitting

\* A call that is due is among what is left.
LEMMA DueLeft ==
  ASSUME GInv, NEW w, NEW x, Due(w, x)
  PROVE  /\ Left(w, x) /\ pipe.todo # <<>> /\ Head(pipe.todo) = <<w, x>> /\ NotInCall
         /\ \A y : Head(pipe.todo) = <<w, y>> => y = x
<1>1. pipe.todo \in Seq(Calls) /\ pipe.todo # <<>> /\ Head(pipe.todo) = <<w, x>> /\ NotInCall
  BY DEF Due, GInv, PipeType
<1>2. 1 \in 1 .. Len(pipe.todo) /\ pipe.todo[1] = <<w, x>>
  BY <1>1
<1>3. QED  BY <1>1, <1>2 DEF Left

\* audio_element_terminate finds room for its DESTROY, and waits.
LEMMA TerminateQuits ==
  ASSUME GInv, QueueLen >= 3, Quitting, NEW x \in Chain, Due("terminate", x), pipe' = Gone(pipe),
         E!Terminate(Caller, x)
  PROVE  Quitting'
<1>1. /\ pipe.todo # <<>> /\ Head(pipe.todo) = <<"terminate", x>> /\ NotInCall /\ Left("terminate", x)
      /\ pipe \in PipeType /\ el \in [Chain -> E!ElementType] /\ api \in [{Caller} -> E!CallType]
  BY DueLeft, LivesTyped DEF GInv
<1>2. pipe'.todo = Tail(pipe.todo)
  BY <1>1, GoneTyped
<1>3. /\ Once(pipe'.todo) /\ \A i \in 1 .. Len(pipe'.todo) : pipe'.todo[i] \in TerminateCalls
      /\ \A w, y : Left(w, y)' <=> Left(w, y) /\ Head(pipe.todo) # <<w, y>>
  BY <1>1, <1>2, OneLeft DEF Quitting
<1> DEFINE e == el[x]
           c == E!Cleared(e, {"DESTROYED"})
           s == E!Send(c, "DESTROY")
<1>4. el' = [el EXCEPT ![x] = s] /\ e \in E!ElementType
  BY <1>1 DEF E!Terminate
<1>5. E!HasRoom(e)
  <2>1. Obedient(e, IF Left("stop", x) THEN 1 ELSE 2)
    BY <1>1 DEF Quitting
  <2>2. Len(e.queue) \in Nat /\ QueueLen \in Nat
    BY <1>4, SizesAssumption DEF E!ElementType
  <2>3. QED  BY <2>1, <2>2 DEF Obedient, Fits, E!HasRoom
<1>6. E!Waits(Caller, x, "terminate")
  BY <1>5 DEF E!Terminate
<1>7. api'[Caller].in = "terminate" /\ api'[Caller].on = x
  <2> DEFINE a == [api[Caller] EXCEPT !.in = "terminate", !.on = x]
  <2>1. api[Caller] \in E!CallType
    BY <1>1
  <2>2. a.in = "terminate" /\ a.on = x
    BY <2>1 DEF E!CallType
  <2>3. api' = [api EXCEPT ![Caller] = a]
    BY <1>6 DEF E!Waits
  <2> HIDE DEF a
  <2>4. QED  BY <2>2, <2>3, ApiAt
<1>8. s.task = e.task /\ "DESTROYED" \notin s.bits
  <2>1. c \in E!ElementType /\ c.task = e.task /\ "DESTROYED" \notin c.bits
    BY <1>4 DEF E!Cleared, E!ElementType
  <2> HIDE DEF c
  <2>2. QED  BY <2>1, SendQueue DEF E!Cmds
<1> HIDE DEF s
<1>9. el'[x] = s /\ \A y \in Chain : y # x => el'[y] = el[y]
  BY <1>1, <1>4
<1>10. Ending(x)' /\ ~Left("terminate", x)'
  BY <1>1, <1>3, <1>7, <1>8, <1>9 DEF Ending, E!In
<1>11. \A y \in Chain : Ending(y) => Place(el[y]) = "none"
  BY <1>1 DEF Ending, NotInCall, E!In
<1>12. ASSUME NEW y \in Chain, y # x
       PROVE  IF Left("terminate", y)'
              THEN Obedient(el'[y], IF Left("stop", y)' THEN 1 ELSE 2) ELSE Ending(y)'
  <2>1. /\ Left("terminate", y)' <=> Left("terminate", y)
        /\ Left("stop", y)' <=> Left("stop", y)
    BY <1>1, <1>3, <1>12
  <2>2. CASE Left("terminate", y)
    <3>1. Obedient(el[y], IF Left("stop", y) THEN 1 ELSE 2)
      BY <2>2 DEF Quitting
    <3>2. QED  BY <1>9, <1>12, <2>1, <2>2, <3>1
  <2>3. CASE ~Left("terminate", y)
    <3>1. Place(el[y]) = "none"
      BY <1>11, <2>3 DEF Quitting
    <3>2. QED  BY <1>9, <1>12, <2>1, <2>3, <3>1 DEF Ending
  <2>4. QED  BY <2>2, <2>3
<1>13. \A y \in Chain : IF Left("terminate", y)'
                       THEN Obedient(el'[y], IF Left("stop", y)' THEN 1 ELSE 2) ELSE Ending(y)'
  BY <1>10, <1>12
<1>14. QED  BY <1>3, <1>7, <1>13 DEF Quitting

\* A call, its answer and the rest of a terminate.
LEMMA CallQuits ==
  ASSUME GInv, QueueLen >= 3, Quitting, NEW x \in Chain, Call(x)
  PROVE  Quitting'
<1>1. pipe \in PipeType /\ pipe' = Gone(pipe) /\ ~Due("pause", x)
  BY TerminateHead DEF GInv, Call
<1>2. ASSUME NEW w, Due(w, x) PROVE pipe.todo # <<>> /\ pipe'.todo = Tail(pipe.todo) /\ NotInCall
  BY <1>1, <1>2, DueLeft, GoneTyped
<1>3. CASE Due("stop", x) /\ E!AskStop(Caller, x)
  <2>1. CASE E!Stop(Caller, x)
    BY <1>1, <1>3, <2>1, StopQuits
  <2>2. CASE E!StopNotRun(Caller, x) \/ E!StopStopped(Caller, x)
    <3>1. UNCHANGED el
      BY <2>2 DEF E!StopNotRun, E!StopStopped, E!Answers
    <3>2. api'[Caller].in = "nothing"
      BY <2>2, ApiAt DEF E!StopNotRun, E!StopStopped, E!Answers, E!Returns
    <3>3. \A y \in Chain : Head(pipe.todo) # <<"terminate", y>>
      BY <1>3, DueLeft
    <3>4. QED  BY <1>2, <1>3, <3>1, <3>2, <3>3, LessLeft
  <2>3. QED  BY <1>3, <2>1, <2>2 DEF E!AskStop
<1>4. CASE Due("wait", x) /\ E!WaitForStop(Caller, x)
  <2>1. api'[Caller].in = "wait"
    <3> DEFINE a == [api[Caller] EXCEPT !.in = "wait", !.on = x]
    <3>1. api[Caller] \in E!CallType
      BY LivesTyped DEF GInv
    <3>2. a.in = "wait"
      BY <3>1 DEF E!CallType
    <3>3. api' = [api EXCEPT ![Caller] = a]
      BY <1>4 DEF E!WaitForStop, E!Waits
    <3> HIDE DEF a
    <3>4. QED  BY <3>2, <3>3, ApiAt
  <2>2. UNCHANGED el
    BY <1>4 DEF E!WaitForStop
  <2>3. \A y \in Chain : Head(pipe.todo) # <<"terminate", y>>
    BY <1>4, DueLeft
  <2>4. QED  BY <1>2, <1>4, <2>1, <2>2, <2>3, LessLeft
<1>5. CASE Due("terminate", x) /\ E!AskTerminate(Caller, x)
  <2>1. CASE E!Terminate(Caller, x)
    BY <1>1, <1>5, <2>1, TerminateQuits
  <2>2. CASE E!TerminateNotRun(Caller, x)
    <3>1. UNCHANGED el /\ ~el[x].taskRun
      BY <2>2 DEF E!TerminateNotRun, E!Answers
    <3>2. api'[Caller].in = "nothing"
      BY <2>2, ApiAt DEF E!TerminateNotRun, E!Answers, E!Returns
    <3>3. Place(el[x]) = "none"
      <4>1. Obedient(el[x], IF Left("stop", x) THEN 1 ELSE 2)
        BY <1>5, DueLeft DEF Quitting
      <4>2. QED  BY <3>1, <4>1, TaskLives DEF Obedient, Attending
    <3>4. \A y \in Chain : Head(pipe.todo) = <<"terminate", y>> => Place(el[y]) = "none"
      BY <1>5, <3>3, DueLeft
    <3>5. QED  BY <1>2, <1>5, <3>1, <3>2, <3>4, LessLeft
  <2>3. QED  BY <1>5, <2>1, <2>2 DEF E!AskTerminate
<1>6. QED  BY <1>1, <1>3, <1>4, <1>5 DEF Call

LEMMA AnswerQuits ==
  ASSUME GInv, Quitting, NEW x \in Chain, Answer(x)
  PROVE  Quitting'
<1>1. ~E!CreateTask(Caller, x)
  BY DEF Quitting, E!CreateTask, E!In
<1>2. /\ api[Caller].on = x /\ E!AwaitedBit[api[Caller].in] \in el[x].bits
      /\ UNCHANGED el /\ pipe' = pipe
      /\ \E op, ret : E!Returns(Caller, x, op, ret)
  BY <1>1 DEF Answer, E!BitSeen
<1>3. api'[Caller].in = "nothing"
  <2>1. PICK op, ret : E!Returns(Caller, x, op, ret)
    BY <1>2
  <2> DEFINE o == IF op = "wait" /\ api[Caller].on = x /\ api[Caller].op = "stop"
                        /\ api[Caller].ret = "OK" THEN "stopped" ELSE op
             a == [in |-> "nothing", on |-> x, ret |-> ret, op |-> o]
  <2>2. api' = [api EXCEPT ![Caller] = a]
    BY <2>1 DEF E!Returns
  <2>3. a.in = "nothing"
    OBVIOUS
  <2> HIDE DEF a
  <2>4. QED  BY <2>2, <2>3, ApiAt
<1>4. \A w, y : Left(w, y)' <=> Left(w, y)
  BY <1>2 DEF Left
<1>5. ASSUME NEW y \in Chain, Ending(y) PROVE Ending(y)'
  <2>1. Place(el[y]) = "none"
    <3>1. E!AwaitedBit["terminate"] = "DESTROYED"
      BY DEF E!AwaitedBit
    <3>2. QED  BY <1>2, <1>5, <3>1 DEF Ending, E!In
  <2>2. QED  BY <1>2, <2>1 DEF Ending
<1>6. QED  BY <1>2, <1>3, <1>4, <1>5 DEF Quitting

LEMMA RestQuits ==
  ASSUME GInv, Quitting, Stopped \/ \E x \in Chain : ResetRings(x)
  PROVE  Quitting'
<1>1. pipe.todo # <<>> /\ pipe'.todo = Tail(pipe.todo) /\ UNCHANGED elements /\ NotInCall
      /\ \A y \in Chain : Head(pipe.todo) # <<"terminate", y>>
  BY EndedAt, ResetAt DEF GInv
<1>2. UNCHANGED <<el, api>> /\ api'[Caller].in = "nothing"
  BY <1>1 DEF elements, NotInCall
<1>3. QED  BY <1>1, <1>2, LessLeft

\* A call of no other function is due in a terminate.
LEMMA NoneElse ==
  ASSUME GInv, Quitting, NEW x \in Chain
  PROVE  ~CallRun(x) /\ ~CallResume(x) /\ ~Started
  BY TerminateHead DEF GInv, CallRun, CallResume, Started

LEMMA QuitBegins == Init => QuitInv
  BY DEF Init, QuitInv

LEMMA QuitStep ==
  ASSUME Patient, QueueLen >= 3, GInv, QuitInv, [Next]_vars
  PROVE  QuitInv'
<1> SUFFICES ASSUME pipe'.op = "terminate" PROVE Quitting'
  BY DEF QuitInv
<1>1. pipe \in PipeType
  BY DEF GInv
<1>2. ASSUME UNCHANGED elements, pipe'.todo = pipe.todo, Quitting PROVE Quitting'
  <2>1. UNCHANGED <<el, api>>
    BY <1>2 DEF elements
  <2>2. /\ \A w, y : Left(w, y)' <=> Left(w, y)
        /\ \A y \in Chain : Ending(y)' <=> Ending(y)
    BY <1>2, <2>1 DEF Left, Ending, E!In
  <2>3. QED  BY <1>2, <2>1, <2>2 DEF Quitting
<1>3. CASE UNCHANGED vars
  <2>1. UNCHANGED <<elements, pipe>>
    BY <1>3 DEF vars
  <2>2. QED  BY <1>2, <2>1 DEF QuitInv
<1>4. ASSUME NEW x \in Chain, Element(x) PROVE Quitting'
  <2>1. el \in [Chain -> E!ElementType]
    BY LivesTyped DEF GInv
  <2>2. UNCHANGED pipe
    BY <1>4, <2>1, ElementElsewhere
  <2>3. QED  BY <1>4, <2>2, ElementQuits DEF QuitInv
<1>5. ASSUME NEW op \in PipeOps, BeginsNothing(op) PROVE Quitting'
  BY <1>1, <1>2, <1>5, BegunNothingAt DEF QuitInv
<1>6. ASSUME NEW op \in PipeOps, Begin(op) PROVE Quitting'
  <2>1. op = "terminate"
    BY <1>1, <1>6, BegunAt
  <2>2. QED  BY <1>6, <2>1, TerminateBegins
<1>7. ASSUME Going PROVE Quitting'
  <2>1. pipe'.op = pipe.op
    <3>1. CASE Started \/ Stopped
      BY <1>1, <3>1, EndedAt
    <3>2. ASSUME NEW x \in Chain, CallRun(x) \/ CallResume(x) \/ Call(x) PROVE pipe'.op = pipe.op
      BY <3>2, CalledAt
    <3>3. ASSUME NEW x \in Chain, ResetRings(x) PROVE pipe'.op = pipe.op
      BY <3>3, ResetAt
    <3>4. ASSUME NEW x \in Chain, Answer(x) PROVE pipe'.op = pipe.op
      BY <3>4 DEF Answer
    <3>5. QED  BY <1>7, <3>1, <3>2, <3>3, <3>4, GoingSteps
  <2>2. Quitting
    BY <2>1 DEF QuitInv
  <2>3. 1 \in Chain /\ ~Started
    BY <2>2, ChainNumbers, NoneElse
  <2>4. ASSUME NEW x \in Chain, CallRun(x) \/ CallResume(x) \/ Call(x) \/ Answer(x) PROVE Quitting'
    BY <2>2, <2>4, NoneElse, CallQuits, AnswerQuits
  <2>5. QED  BY <1>7, <2>2, <2>3, <2>4, GoingSteps, RestQuits
<1>8. QED  BY <1>3, <1>4, <1>5, <1>6, <1>7 DEF Next

LEMMA QuitTorn ==
  ASSUME GInv, QuitInv
  PROVE  Torn
<1> SUFFICES ASSUME pipe.op = "terminate", Idle, NEW x \in Chain PROVE E!Alive(x) = {}
  BY DEF Torn
<1>1. Quitting /\ pipe.todo = <<>> /\ NotInCall
  BY DEF QuitInv, Idle
<1>2. ~Left("terminate", x)
  <2>1. Len(pipe.todo) = 0
    BY <1>1
  <2>2. QED  BY <2>1 DEF Left
<1>3. Place(el[x]) = "none"
  BY <1>1, <1>2 DEF Quitting, Ending, NotInCall, E!In
<1>4. QED  BY <1>3 DEF E!Alive, Place

-----------------------------------------------------------------------------
(* The theorems.                                                           *)

\* Whatever the application calls, patient or not, and whatever fails: the stream
\* of a pipeline that was run and neither paused nor stopped is whole.
THEOREM StreamWhole == Spec => [](TypeOK /\ Conserved /\ Whole)
<1>1. GInv /\ FirstInv /\ [Next]_vars => (GInv /\ FirstInv)'
  BY GInvStep, FirstInvStep
<1>2. GInv /\ FirstInv => TypeOK /\ Conserved /\ Whole
  BY GInvTyped, FirstConserved, FirstWhole
<1>3. QED  BY <1>1, <1>2, GInvBegins, FirstBegins, PTL DEF Spec

\* And when it calls the next function once the last has taken effect, and a
\* queue has room for the two commands an element may hold by then and for one
\* more, audio_pipeline_terminate leaves no task: StreamKept, through every
\* order of the pipeline's functions.
THEOREM StreamAlwaysKept ==
  ASSUME Patient, QueueLen >= 3
  PROVE  Spec => []StreamKept
<1>1. GInv /\ QuitInv /\ [Next]_vars => (GInv /\ QuitInv)'
  BY GInvStep, QuitStep
<1>2. GInv /\ QuitInv => Torn
  BY QuitTorn
<1>3. Spec => [](GInv /\ QuitInv)
  BY <1>1, GInvBegins, QuitBegins, PTL DEF Spec
<1>4. Spec => []Torn
  BY <1>2, <1>3, PTL
<1>5. TypeOK /\ Conserved /\ Whole /\ Torn => StreamKept
  BY DEF StreamKept
<1>6. QED  BY <1>4, <1>5, StreamWhole, PTL
=============================================================================
