-------------------------- MODULE PeripheralsProofs --------------------------
(***************************************************************************)
(* The peripherals of a board, proved for every set of them, every queue   *)
(* length and every number of pins, keys and calls: the service is freed   *)
(* only when it is over, what is pressed is told, blinks are whole, the    *)
(* bits of the station are true and the phone holds at most one key.       *)
(*                                                                         *)
(* Each peripheral has an invariant of its own. What they share is in two  *)
(* notions: a peripheral is Placed while it is in the list of a task that  *)
(* serves, and a step with peripheral x leaves every other one Apart: it   *)
(* stays placed and up, its timer is not started, and the task does not    *)
(* take it out of its own hands. So there is, for each peripheral, one     *)
(* lemma for its own steps and one frame lemma for the steps of the rest.  *)
(***************************************************************************)
EXTENDS Peripherals, WellFoundedInduction, SequenceTheorems, TLAPS

-----------------------------------------------------------------------------
(* Numbers.                                                                *)

\* A set of naturals that is not empty has a least one.
LEMMA Least ==
  ASSUME NEW S \in SUBSET Nat, S # {}
  PROVE  \E m \in S : \A x \in S : m <= x
<1> DEFINE R == OpToRel(<, Nat)
<1>1. \A x, y \in Nat : x < y => <<x, y>> \in R
  BY DEF OpToRel
<1>2. IsWellFoundedOn(R, Nat)
  BY NatLessThanWellFounded
<1> HIDE DEF R
<1>3. PICK m \in S : \A x \in S : ~(<<x, m>> \in R)
  BY <1>2, WFMin
<1>4. ASSUME NEW x \in S PROVE m <= x
  <2>1. ~(x < m)
    BY <1>1, <1>3
  <2> QED BY <2>1
<1> QED
  BY <1>4

\* Max and Min of a bounded one are in it.
LEMMA Extremes ==
  ASSUME NEW n \in Nat, NEW S \in SUBSET (0 .. n), S # {}
  PROVE  Max(S) \in S /\ Min(S) \in S
<1> DEFINE T == {n - x : x \in S}
<1>1. T \in SUBSET Nat /\ T # {}
  <2>1. \A x \in S : n - x \in Nat
    OBVIOUS
  <2> QED BY <2>1
<1>2. PICK m \in T : \A x \in T : m <= x
  <2> HIDE DEF T
  <2> QED BY <1>1, Least
<1>3. PICK k \in S : m = n - k
  OBVIOUS
<1>4. ASSUME NEW x \in S PROVE k >= x
  <2>1. m <= n - x
    BY <1>2
  <2>2. x \in Int /\ k \in Int
    OBVIOUS
  <2> QED BY ONLY <2>1, <2>2, <1>3, n \in Nat
<1>5. Max(S) \in S
  BY <1>4 DEF Max
<1>6. PICK j \in S : \A x \in S : j <= x
  <2>1. S \in SUBSET Nat
    OBVIOUS
  <2> QED BY <2>1, Least
<1> QED
  BY <1>5, <1>6 DEF Min

-----------------------------------------------------------------------------
(* The list and the queue of the service.                                  *)

Distinct(s) == \A i, j \in 1 .. Len(s) : s[i] = s[j] => i = j

\* What is in a sequence that was extended.
LEMMA Appended ==
  ASSUME NEW S, NEW s \in Seq(S), NEW e \in S
  PROVE  /\ Append(s, e) \in Seq(S)
         /\ \A x : Contains(Append(s, e), x) <=> Contains(s, x) \/ x = e
         /\ Distinct(s) /\ ~Contains(s, e) => Distinct(Append(s, e))
<1>1. /\ Append(s, e) \in Seq(S) /\ Len(Append(s, e)) = Len(s) + 1 /\ Len(s) \in Nat
      /\ Append(s, e)[Len(s) + 1] = e /\ \A i \in 1 .. Len(s) : Append(s, e)[i] = s[i]
  OBVIOUS
<1> DEFINE t == Append(s, e)
<1> HIDE DEF t
<1>2. /\ Len(t) = Len(s) + 1 /\ t[Len(s) + 1] = e /\ \A i \in 1 .. Len(s) : t[i] = s[i]
  BY <1>1 DEF t
<1>3. \A i \in 1 .. Len(t) : i \in 1 .. Len(s) \/ i = Len(s) + 1
  BY <1>1, <1>2
<1>4. ASSUME NEW x PROVE Contains(t, x) <=> Contains(s, x) \/ x = e
  <2>1. Contains(t, x) => Contains(s, x) \/ x = e
    BY <1>2, <1>3 DEF Contains
  <2>2. Contains(s, x) => Contains(t, x)
    <3>1. 1 .. Len(s) \subseteq 1 .. Len(t)
      BY <1>1, <1>2
    <3> QED BY <1>2, <3>1 DEF Contains
  <2>3. x = e => Contains(t, x)
    <3>1. Len(s) + 1 \in 1 .. Len(t)
      BY <1>1, <1>2
    <3> QED BY <1>2, <3>1 DEF Contains
  <2> QED BY <2>1, <2>2, <2>3
<1>5. ASSUME Distinct(s), ~Contains(s, e) PROVE Distinct(t)
  <2> SUFFICES ASSUME NEW i \in 1 .. Len(t), NEW j \in 1 .. Len(t), t[i] = t[j] PROVE i = j
    BY DEF Distinct
  <2>1. CASE i \in 1 .. Len(s) /\ j \in 1 .. Len(s)
    BY <1>2, <1>5, <2>1 DEF Distinct
  <2>2. CASE ~(i \in 1 .. Len(s)) /\ ~(j \in 1 .. Len(s))
    BY <1>3, <2>2
  <2>3. CASE i \in 1 .. Len(s) /\ ~(j \in 1 .. Len(s))
    BY <1>2, <1>3, <1>5, <2>3 DEF Contains
  <2>4. CASE ~(i \in 1 .. Len(s)) /\ j \in 1 .. Len(s)
    BY <1>2, <1>3, <1>5, <2>4 DEF Contains
  <2> QED BY <2>1, <2>2, <2>3, <2>4
<1> QED
  BY <1>1, <1>4, <1>5 DEF t

\* What is left in a sequence without its head.
LEMMA Dropped ==
  ASSUME NEW S, NEW s \in Seq(S), s # <<>>
  PROVE  /\ Tail(s) \in Seq(S) /\ Head(s) \in S /\ Contains(s, Head(s)) /\ Len(Tail(s)) = Len(s) - 1
         /\ \A x : Contains(Tail(s), x) => Contains(s, x)
         /\ \A x : Contains(s, x) /\ x # Head(s) => Contains(Tail(s), x)
         /\ Distinct(s) => Distinct(Tail(s)) /\ ~Contains(Tail(s), Head(s))
<1> DEFINE t == Tail(s)
           n == Len(s)
<1>1. /\ t \in Seq(S) /\ Head(s) \in S /\ Head(s) = s[1] /\ n \in Nat /\ n # 0
      /\ Len(t) = n - 1 /\ \A i \in 1 .. Len(t) : t[i] = s[i + 1]
  OBVIOUS
<1> HIDE DEF t, n
<1>2. /\ 1 \in 1 .. n /\ \A i \in 1 .. Len(t) : i + 1 \in 1 .. n /\ i + 1 # 1
      /\ \A i \in 1 .. n : i # 1 => i - 1 \in 1 .. Len(t) /\ (i - 1) + 1 = i
  BY <1>1
<1>3. Contains(s, Head(s))
  BY <1>1, <1>2 DEF Contains, n
<1>4. ASSUME NEW x, Contains(t, x) PROVE Contains(s, x)
  BY <1>1, <1>2, <1>4 DEF Contains, n
<1>5. ASSUME NEW x, Contains(s, x), x # Head(s) PROVE Contains(t, x)
  <2>1. PICK i \in 1 .. n : s[i] = x
    BY <1>5 DEF Contains, n
  <2>2. i - 1 \in 1 .. Len(t) /\ t[i - 1] = x
    BY <1>1, <1>2, <1>5, <2>1
  <2> QED BY <2>2 DEF Contains
<1>6. ASSUME Distinct(s) PROVE Distinct(t) /\ ~Contains(t, Head(s))
  <2>1. \A i, j \in 1 .. n : s[i] = s[j] => i = j
    BY <1>6 DEF Distinct, n
  <2>2. ASSUME NEW i \in 1 .. Len(t), NEW j \in 1 .. Len(t), t[i] = t[j] PROVE i = j
    <3>1. i + 1 = j + 1
      BY <1>1, <1>2, <2>1, <2>2
    <3> QED BY <1>1, <3>1
  <2>3. ~Contains(t, Head(s))
    BY <1>1, <1>2, <2>1 DEF Contains
  <2> QED BY <2>2, <2>3 DEF Distinct
<1> QED
  BY <1>1, <1>3, <1>4, <1>5, <1>6 DEF t, n

-----------------------------------------------------------------------------
(* The service: its task, its list, its timers.                            *)

PeriphType == [state : {"INIT", "RUNNING", "ERROR"}, disabled : BOOLEAN, timer : BOOLEAN]
ServiceType ==
  /\ obj \in [live : BOOLEAN, run : BOOLEAN, bits : SUBSET {"STOPPED", "STARTED"},
              list : Seq(board), queue : Seq(board)]
  /\ periph \in [board -> PeriphType]
  /\ task \in [pc : {"none", "boots", "loop", "scan", "init", "waits", "run", "closes", "destroy"},
               at : board \cup {1}]
  /\ caller \in [pc : {"idle", "insert", "enable", "spawn", "awaits", "blink", "config"},
                 p : board \cup {"nobody", "led", "bt", "wifi"}, calls : Nat, early : BOOLEAN]

\* The task does not serve: it is not there, or not in its loop yet.
Resting == task.pc \in {"none", "boots"}

\* The bit and the flag say how far the task is, and who waits for it.
Tasked ==
  /\ "STOPPED" \in obj.bits <=> Resting
  /\ ~obj.live => Resting /\ obj.list = <<>> /\ caller.pc = "idle"
  /\ caller.pc = "awaits" => ~obj.run
  /\ obj.live /\ caller.pc # "awaits" => (obj.run <=> task.pc # "none")
  /\ task.pc \in {"closes", "destroy"} => caller.pc = "awaits"
  /\ ~caller.early /\ (caller.pc = "awaits" \/ ~obj.live) => task.pc # "boots"

\* A peripheral that is in the list of a task that serves.
Placed(p) == p \in board /\ Listed(p) /\ ~Resting

\* Only a peripheral in its place has come up, has a timer, is in the hands of the task.
Kept ==
  /\ Distinct(obj.list)
  /\ \A p \in board : Up(p) /\ obj.live /\ caller.pc # "awaits" => Placed(p)
  /\ \A p \in board : periph[p].timer => Placed(p)
  /\ task.pc = "destroy" =>
       obj.list # <<>> /\ Head(obj.list) = task.at /\ (task.at # "wifi" => ~periph[task.at].timer)
  /\ task.pc = "init" => Placed(task.at) /\ ~Up(task.at)
  /\ task.pc = "run" => Placed(task.at)
  /\ caller.pc = "insert" => caller.p \in board /\ ~Listed(caller.p)
  /\ caller.pc = "enable" => caller.p \in board
  /\ caller.pc = "blink" => Placed("led")

ServiceInv == ServiceType /\ Tasked /\ Kept

\* What a step with peripheral x leaves as it is to another peripheral.
Apart(x) ==
  \A p \in board \ {x} :
    /\ Placed(p) => Placed(p)'
    /\ Up(p)' <=> Up(p)
    /\ periph'[p].timer => periph[p].timer
    /\ task.pc \in {"init", "run", "destroy"} /\ task.at = p => task' = task

\* The application stays where only the lights and the station bring it on.
Calling ==
  /\ caller'.pc = "blink" <=> caller.pc = "blink"
  /\ caller.pc = "config" => caller'.pc = "config"

\* The service begins in its invariant.
LEMMA ServiceBegins == ServiceInit => ServiceInv
<1> SUFFICES ASSUME ServiceInit PROVE ServiceInv
  OBVIOUS
<1>1. ServiceType
  <2>1. NewPeriph \in PeriphType
    BY DEF NewPeriph, PeriphType
  <2>2. NewObj \in [live : BOOLEAN, run : BOOLEAN, bits : SUBSET {"STOPPED", "STARTED"},
                    list : Seq(board), queue : Seq(board)]
    BY DEF NewObj
  <2> QED BY <2>1, <2>2 DEF ServiceInit, ServiceType
<1>2. /\ obj.live = TRUE /\ obj.run = FALSE /\ obj.bits = {"STOPPED"} /\ obj.list = <<>>
      /\ task.pc = "none" /\ caller.pc = "idle"
  BY DEF ServiceInit, NewObj
<1>3. \A p \in board : periph[p].state = "INIT" /\ periph[p].timer = FALSE
  BY DEF ServiceInit, NewPeriph
<1>4. Distinct(obj.list)
  BY <1>2 DEF Distinct
<1> QED
  BY <1>1, <1>2, <1>3, <1>4 DEF ServiceInv, Tasked, Kept, Resting, Up

\* A step that leaves the list, the task, the states and the timers alone, and the
\* application where it is: a command that is sent, or nothing at all.
LEMMA SendStep ==
  ASSUME ServiceInv, UNCHANGED board,
         UNCHANGED service \/ \E p \in board : SendCmd(p)
  PROVE  /\ ServiceInv' /\ UNCHANGED <<periph, task, caller>>
         /\ obj'.list = obj.list /\ obj'.live = obj.live
         /\ \A p : Placed(p)' <=> Placed(p)
<1> USE DEF ServiceInv
<1>1. UNCHANGED <<periph, task, caller>>
  BY DEF service, SendCmd
<1>2. /\ obj' \in [live : BOOLEAN, run : BOOLEAN, bits : SUBSET {"STOPPED", "STARTED"},
                   list : Seq(board), queue : Seq(board)]
      /\ obj'.list = obj.list /\ obj'.live = obj.live /\ obj'.run = obj.run /\ obj'.bits = obj.bits
  <2>1. CASE UNCHANGED service
    BY <2>1 DEF service, ServiceType
  <2>2. CASE \E p \in board : SendCmd(p)
    <3>1. PICK p \in board : obj' = IF Len(obj.queue) < CmdLen
                                    THEN [obj EXCEPT !.queue = Append(@, p)] ELSE obj
      BY <2>2 DEF SendCmd, Sent
    <3>2. Append(obj.queue, p) \in Seq(board)
      BY DEF ServiceType
    <3> DEFINE q == Append(obj.queue, p)
    <3> HIDE DEF q
    <3>3. obj' = [obj EXCEPT !.queue = q] \/ obj' = obj
      BY <3>1 DEF q
    <3> QED BY <3>2, <3>3 DEF ServiceType, q
  <2> QED BY <2>1, <2>2
<1>3. ServiceType'
  BY <1>1, <1>2 DEF ServiceType
<1>5. \A p : Placed(p)' <=> Placed(p)
  BY <1>1, <1>2 DEF Placed, Listed, Resting
<1>6. Tasked'
  BY <1>1, <1>2 DEF Tasked, Resting
<1>7. Kept'
  <2>1. Distinct(obj.list)'
    BY <1>2 DEF Kept, Distinct
  <2>2. \A p \in board : (Up(p) /\ obj.live /\ caller.pc # "awaits" => Placed(p))'
    BY <1>1, <1>2, <1>5 DEF Kept, Up
  <2>3. \A p \in board : (periph[p].timer => Placed(p))'
    BY <1>1, <1>5 DEF Kept
  <2>4. ~Up(task.at)' <=> ~Up(task.at)
    BY <1>1 DEF Up
  <2>5. Listed(caller.p)' <=> Listed(caller.p)
    BY <1>1, <1>2 DEF Listed
  <2>6. Placed(task.at)' <=> Placed(task.at)
    BY <1>1, <1>2 DEF Placed, Listed, Resting
  <2>7. /\ (task.pc = "destroy")' => (obj.list # <<>> /\ Head(obj.list) = task.at)'
        /\ (task.pc = "destroy")' => (task.at # "wifi" => ~periph[task.at].timer)'
        /\ (task.pc = "init")' => Placed(task.at)' /\ ~Up(task.at)'
        /\ (task.pc = "run")' => Placed(task.at)'
        /\ (caller.pc = "insert")' => (caller.p \in board)' /\ ~Listed(caller.p)'
        /\ (caller.pc = "enable")' => (caller.p \in board)'
        /\ (caller.pc = "blink")' => Placed("led")'
    BY <1>1, <1>2, <1>5, <2>4, <2>5, <2>6 DEF Kept
  <2> QED BY <2>1, <2>2, <2>3, <2>7 DEF Kept
<1> QED
  BY <1>1, <1>2, <1>3, <1>5, <1>6, <1>7

\* A step that leaves the service and the peripherals as they are to one another.
LEMMA SendApart ==
  ASSUME ServiceInv, UNCHANGED board,
         UNCHANGED service \/ \E p \in board : SendCmd(p)
  PROVE  ServiceInv' /\ Calling /\ \A x : Apart(x)
BY SendStep DEF Apart, Calling, Up

\* The task goes on, and takes a peripheral of the list into its hands or gives it back.
LEMMA TaskMoves ==
  ASSUME ServiceInv, UNCHANGED <<board, periph, caller>>, obj.live, task.pc # "none", NEW x,
         obj' \in [live : {obj.live}, run : {obj.run}, bits : SUBSET {"STOPPED", "STARTED"},
                   list : {obj.list}, queue : Seq(board)],
         task' \in [pc : {"loop", "scan", "init", "waits", "run", "closes"}, at : board \cup {1}],
         "STOPPED" \notin obj'.bits,
         task'.pc = "closes" => caller.pc = "awaits",
         task'.pc = "init" => task'.at \in board /\ Listed(task'.at) /\ ~Up(task'.at),
         task'.pc = "run" => task'.at \in board /\ Listed(task'.at),
         task.pc \in {"init", "run", "destroy"} => task.at = x
  PROVE  ServiceInv' /\ Calling /\ Apart(x)
<1> USE DEF ServiceInv
<1>1. ServiceType'
  BY DEF ServiceType
<1>2. /\ obj'.live = obj.live /\ obj'.run = obj.run /\ obj'.list = obj.list
      /\ task'.pc \notin {"none", "boots", "destroy"}
  OBVIOUS
<1>3. \A p : Placed(p) => Placed(p)'
  BY <1>2 DEF Placed, Listed, Resting
<1>4. \A p \in board : Listed(p) => Placed(p)'
  BY <1>2 DEF Placed, Listed, Resting
<1>5. Tasked'
  BY <1>2 DEF Tasked, Resting
<1>6. Kept'
  <2>1. Distinct(obj.list)'
    BY <1>2 DEF Kept, Distinct
  <2>2. \A p \in board : (Up(p) /\ obj.live /\ caller.pc # "awaits" => Placed(p))'
    BY <1>2, <1>3 DEF Kept, Up
  <2>3. \A p \in board : (periph[p].timer => Placed(p))'
    BY <1>3 DEF Kept
  <2>4. /\ (task.pc = "init")' => Placed(task.at)' /\ ~Up(task.at)'
        /\ (task.pc = "run")' => Placed(task.at)'
    BY <1>2 DEF Placed, Listed, Resting, Up
  <2>5. /\ (caller.pc = "insert")' => (caller.p \in board)' /\ ~Listed(caller.p)'
        /\ (caller.pc = "enable")' => (caller.p \in board)'
    BY <1>2 DEF Kept, Listed
  <2>6. (caller.pc = "blink")' => Placed("led")'
    BY <1>3 DEF Kept
  <2> QED BY <1>2, <2>1, <2>2, <2>3, <2>4, <2>5, <2>6 DEF Kept
<1>7. Apart(x)
  BY <1>3 DEF Apart, Up
<1> QED
  BY <1>1, <1>5, <1>6, <1>7 DEF Calling

\* Goes moves the task and leaves what is in its hands.
LEMMA GoesIs ==
  ASSUME ServiceType, NEW pc, pc \in {"loop", "scan", "init", "waits", "run", "closes"}, Goes(pc)
  PROVE  /\ task' \in [pc : {"loop", "scan", "init", "waits", "run", "closes"}, at : board \cup {1}]
         /\ task'.pc = pc /\ task'.at = task.at
BY DEF ServiceType, Goes

\* The object of the service as it is, in the form in which TaskMoves asks for it.
LEMMA SameObj ==
  ASSUME ServiceType
  PROVE  obj \in [live : {obj.live}, run : {obj.run}, bits : SUBSET {"STOPPED", "STARTED"},
                  list : {obj.list}, queue : Seq(board)]
BY DEF ServiceType

\* The run function of a peripheral returns.
LEMMA RunReturnsStep ==
  ASSUME ServiceInv, UNCHANGED board, NEW p \in board, Held("run", p), RunReturns
  PROVE  ServiceInv' /\ Calling /\ Apart(p)
<1>1. /\ task'.pc = "loop" /\ obj' = obj /\ UNCHANGED <<periph, caller>>
      /\ task' \in [pc : {"loop", "scan", "init", "waits", "run", "closes"}, at : board \cup {1}]
  BY GoesIs DEF RunReturns, ServiceInv
<1>2. obj.live /\ task.pc = "run" /\ task.at = p
  BY DEF Held, At
<1>3. "STOPPED" \notin obj.bits
  BY <1>2 DEF ServiceInv, Tasked, Resting
<1> QED
  BY <1>1, <1>2, <1>3, SameObj, TaskMoves DEF ServiceInv

\* The task boots, loops, scans and waits.
LEMMA LoopStep ==
  ASSUME ServiceInv, UNCHANGED board, Boots \/ Loops \/ Scans \/ Takes \/ TimesOut, NEW x
  PROVE  ServiceInv' /\ Calling /\ Apart(x)
<1> USE DEF ServiceInv
<1>1. /\ obj.live /\ task.pc \in {"boots", "loop", "scan", "waits"} /\ UNCHANGED <<periph, caller>>
  BY DEF Boots, Loops, Scans, Takes, TimesOut, At
<1>2. task.pc # "boots" => "STOPPED" \notin obj.bits
  BY <1>1 DEF Tasked, Resting
<1>3. CASE Boots
  <2>1. obj' = [obj EXCEPT !.bits = {"STARTED"}] /\ Goes("loop")
    BY <1>3 DEF Boots
  <2>2. obj' \in [live : {obj.live}, run : {obj.run}, bits : SUBSET {"STOPPED", "STARTED"},
                  list : {obj.list}, queue : Seq(board)]
        /\ "STOPPED" \notin obj'.bits
    BY <2>1 DEF ServiceType
  <2> QED BY <1>1, <2>1, <2>2, GoesIs, TaskMoves
<1>4. CASE Loops
  <2>1. obj' = obj /\ task.pc = "loop" /\ Goes(IF obj.run THEN "scan" ELSE "closes")
    BY <1>4 DEF Loops, At
  <2>2. CASE obj.run
    <3>1. Goes("scan")
      BY <2>1, <2>2
    <3> QED BY <1>1, <1>2, <2>1, <3>1, GoesIs, SameObj, TaskMoves
  <2>3. CASE ~obj.run
    <3>1. Goes("closes") /\ caller.pc = "awaits"
      BY <1>1, <2>1, <2>3 DEF Tasked
    <3> QED BY <1>1, <1>2, <2>1, <3>1, GoesIs, SameObj, TaskMoves
  <2> QED BY <2>2, <2>3
<1>5. CASE Scans
  <2>1. obj' = obj /\ task.pc = "scan"
    BY <1>5 DEF Scans, At
  <2>2. CASE Uninitialised = {}
    <3>1. Goes("waits")
      BY <1>5, <2>2 DEF Scans
    <3> QED BY <1>1, <1>2, <2>1, <3>1, GoesIs, SameObj, TaskMoves
  <2>3. CASE Uninitialised # {}
    <3> DEFINE i == CHOOSE i \in Uninitialised : \A j \in Uninitialised : i <= j
    <3>1. task' = [pc |-> "init", at |-> obj.list[i]]
      BY <1>5, <2>3 DEF Scans
    <3>2. i \in Uninitialised
      <4>1. /\ Uninitialised \in SUBSET (0 .. Len(obj.list)) /\ Len(obj.list) \in Nat
        BY DEF Uninitialised, ServiceType
      <4>2. \E k \in Uninitialised : \A j \in Uninitialised : k <= j
        BY <2>3, <4>1, Least
      <4> QED BY <4>2
    <3> HIDE DEF i
    <3>3. i \in 1 .. Len(obj.list) /\ obj.list[i] \in board /\ periph[obj.list[i]].state = "INIT"
      BY <3>2 DEF Uninitialised, ServiceType
    <3> DEFINE p == obj.list[i]
    <3>4. p \in board /\ Listed(p) /\ ~Up(p)
      BY <3>3 DEF Listed, Contains, Up
    <3> HIDE DEF p
    <3>5. task' = [pc |-> "init", at |-> p]
      BY <3>1 DEF p
    <3>6. task' \in [pc : {"loop", "scan", "init", "waits", "run", "closes"}, at : board \cup {1}]
          /\ task'.pc = "init" /\ task'.at = p
      BY <3>4, <3>5
    <3> QED BY <1>1, <1>2, <2>1, <3>4, <3>6, SameObj, TaskMoves
  <2> QED BY <2>2, <2>3
<1>6. CASE Takes
  <2> DEFINE q == Head(obj.queue)
             t == Tail(obj.queue)
  <2>1. q \in board /\ t \in Seq(board) /\ task.pc = "waits"
    <3>1. obj.queue \in Seq(board) /\ obj.queue # <<>>
      BY <1>6 DEF Takes, ServiceType
    <3> QED BY <1>6, <3>1 DEF Takes, At
  <2>2. obj' = [obj EXCEPT !.queue = t]
    BY <1>6 DEF Takes
  <2>3. task' = IF Serves(q) THEN [pc |-> "run", at |-> q] ELSE [task EXCEPT !.pc = "loop"]
    BY <1>6 DEF Takes
  <2> HIDE DEF q, t
  <2>4. obj' \in [live : {obj.live}, run : {obj.run}, bits : SUBSET {"STOPPED", "STARTED"},
                  list : {obj.list}, queue : Seq(board)] /\ obj'.bits = obj.bits
    BY <2>1, <2>2 DEF ServiceType
  <2>5. CASE Serves(q)
    <3>1. task' \in [pc : {"loop", "scan", "init", "waits", "run", "closes"}, at : board \cup {1}]
          /\ task'.pc = "run" /\ task'.at = q /\ Listed(q)
      BY <2>1, <2>3, <2>5 DEF Serves
    <3> QED BY <1>1, <1>2, <2>1, <2>4, <3>1, TaskMoves
  <2>6. CASE ~Serves(q)
    <3>1. Goes("loop")
      BY <2>3, <2>6 DEF Goes
    <3> QED BY <1>1, <1>2, <2>1, <2>4, <3>1, GoesIs, TaskMoves
  <2> QED BY <2>5, <2>6
<1>7. CASE TimesOut
  <2>1. obj' = obj /\ task.pc = "waits" /\ Goes("loop")
    BY <1>7 DEF TimesOut, At
  <2> QED BY <1>1, <1>2, <2>1, GoesIs, SameObj, TaskMoves
<1> QED
  BY <1>3, <1>4, <1>5, <1>6, <1>7

\* The init function of a peripheral returns: it is up, in its place, and may have a timer.
LEMMA InitReturnsStep ==
  ASSUME ServiceInv, UNCHANGED board, NEW p \in board, Held("init", p), NEW timer \in BOOLEAN,
         NEW state \in {"RUNNING", "ERROR"}, InitReturns(p, timer, state)
  PROVE  /\ ServiceInv' /\ Calling /\ Apart(p)
         /\ Placed(p)' /\ Up(p)' /\ caller' = caller
         /\ periph'[p].timer = (periph[p].timer \/ timer)
         /\ \A q : Placed(q) => Placed(q)'
<1> USE DEF ServiceInv
<1>1. obj.live /\ task.pc = "init" /\ task.at = p /\ Placed(p)
  BY DEF Held, At, Kept
<1>2. /\ UNCHANGED <<obj, caller>> /\ Goes("scan")
      /\ periph' = [periph EXCEPT ![p].state = state, ![p].timer = @ \/ timer]
  BY DEF InitReturns
<1>3. task' \in [pc : {"loop", "scan", "init", "waits", "run", "closes"}, at : board \cup {1}]
      /\ task'.pc = "scan"
  BY <1>2, GoesIs
<1> DEFINE o == periph[p]
           c == [o EXCEPT !.state = state, !.timer = o.timer \/ timer]
<1>4. o \in PeriphType
  BY DEF ServiceType
<1>5. c \in PeriphType /\ c.state = state /\ c.timer = (o.timer \/ timer) /\ c.disabled = o.disabled
  <2> HIDE DEF o
  <2>1. o.timer \in BOOLEAN
    BY <1>4 DEF PeriphType
  <2> QED BY <1>4, <2>1 DEF PeriphType
<1>6. periph' = [periph EXCEPT ![p] = c]
  BY <1>2 DEF ServiceType
<1> HIDE DEF c, o
<1>7. /\ periph' \in [board -> PeriphType] /\ periph'[p] = c
      /\ \A q \in board : q # p => periph'[q] = periph[q]
  BY <1>5, <1>6 DEF ServiceType
<1>8. ServiceType'
  BY <1>2, <1>3, <1>7 DEF ServiceType
<1>9. \A q : Placed(q) => Placed(q)'
  BY <1>2, <1>3 DEF Placed, Listed, Resting
<1>10. Placed(p)' /\ Up(p)'
  BY <1>1, <1>5, <1>7, <1>9 DEF Up
<1>11. Tasked'
  BY <1>1, <1>2, <1>3 DEF Tasked, Resting
<1>12. Kept'
  <2>1. Distinct(obj.list)'
    BY <1>2 DEF Kept, Distinct
  <2>2. \A q \in board : (Up(q) /\ obj.live /\ caller.pc # "awaits" => Placed(q))'
    <3> SUFFICES ASSUME NEW q \in board, (Up(q) /\ obj.live /\ caller.pc # "awaits")' PROVE Placed(q)'
      OBVIOUS
    <3>1. CASE q = p
      BY <1>10, <3>1
    <3>2. CASE q # p
      BY <1>2, <1>7, <1>9, <3>2 DEF Kept, Up
    <3> QED BY <3>1, <3>2
  <2>3. \A q \in board : (periph[q].timer => Placed(q))'
    <3> SUFFICES ASSUME NEW q \in board, periph'[q].timer PROVE Placed(q)'
      OBVIOUS
    <3>1. CASE q = p
      BY <1>10, <3>1
    <3>2. CASE q # p
      BY <1>2, <1>7, <1>9, <3>2 DEF Kept, Up
    <3> QED BY <3>1, <3>2
  <2>4. /\ (caller.pc = "insert")' => (caller.p \in board)' /\ ~Listed(caller.p)'
        /\ (caller.pc = "enable")' => (caller.p \in board)'
    BY <1>2 DEF Kept, Listed
  <2>5. (caller.pc = "blink")' => Placed("led")'
    BY <1>2, <1>9 DEF Kept
  <2> QED BY <1>3, <2>1, <2>2, <2>3, <2>4, <2>5 DEF Kept
<1>13. Apart(p)
  <2> SUFFICES ASSUME NEW q \in board \ {p}
               PROVE  /\ Placed(q) => Placed(q)'
                      /\ Up(q)' <=> Up(q)
                      /\ periph'[q].timer => periph[q].timer
                      /\ task.pc \in {"init", "run", "destroy"} /\ task.at = q => task' = task
    BY DEF Apart
  <2> QED BY <1>1, <1>7, <1>9 DEF Up
<1> QED
  BY <1>2, <1>5, <1>7, <1>8, <1>9, <1>10, <1>11, <1>12, <1>13 DEF Calling, o

\* The destroy function of a peripheral returns: it is out of the list, the others are not.
LEMMA DestroyReturnsStep ==
  ASSUME ServiceInv, UNCHANGED board, NEW p \in board, Held("destroy", p), ~periph[p].timer,
         DestroyReturns(p)
  PROVE  ServiceInv' /\ Calling /\ Apart(p) /\ UNCHANGED <<periph, caller>>
<1> USE DEF ServiceInv
<1>1. /\ obj.live /\ task.pc = "destroy" /\ task.at = p /\ obj.list # <<>> /\ Head(obj.list) = p
      /\ caller.pc = "awaits"
  BY DEF Held, At, Kept, Tasked
<1> DEFINE t == Tail(obj.list)
<1>2. /\ UNCHANGED <<periph, caller>> /\ Goes("closes") /\ obj' = [obj EXCEPT !.list = t]
  BY DEF DestroyReturns
<1>3. /\ t \in Seq(board) /\ Distinct(t)
      /\ \A q : Listed(q) /\ q # p => Contains(t, q)
  <2>1. obj.list \in Seq(board) /\ Distinct(obj.list)
    BY DEF ServiceType, Kept
  <2> QED BY <1>1, <2>1, Dropped DEF Listed
<1> HIDE DEF t
<1>4. /\ task' \in [pc : {"loop", "scan", "init", "waits", "run", "closes"}, at : board \cup {1}]
      /\ task'.pc = "closes"
  BY <1>2, GoesIs
<1>5. /\ obj' \in [live : BOOLEAN, run : BOOLEAN, bits : SUBSET {"STOPPED", "STARTED"},
                   list : Seq(board), queue : Seq(board)]
      /\ obj'.list = t /\ obj'.live = obj.live /\ obj'.run = obj.run /\ obj'.bits = obj.bits
  BY <1>2, <1>3 DEF ServiceType
<1>6. ServiceType'
  BY <1>2, <1>4, <1>5 DEF ServiceType
<1>7. \A q : Placed(q) /\ q # p => Placed(q)'
  BY <1>3, <1>4, <1>5 DEF Placed, Listed, Resting
<1>8. Tasked'
  BY <1>1, <1>2, <1>4, <1>5 DEF Tasked, Resting
<1>9. Kept'
  <2>1. Distinct(obj.list)'
    BY <1>3, <1>5 DEF Distinct
  <2>2. \A q \in board : (periph[q].timer => Placed(q))'
    BY <1>2, <1>7 DEF Kept
  <2> QED BY <1>1, <1>2, <1>4, <2>1, <2>2 DEF Kept
<1>10. Apart(p)
  BY <1>1, <1>2, <1>7 DEF Apart, Up
<1> QED
  BY <1>2, <1>6, <1>8, <1>9, <1>10 DEF Calling

\* The task takes the next peripheral to destroy, without its timer.
LEMMA ClosesStep ==
  ASSUME ServiceInv, UNCHANGED board, Closes, NEW x
  PROVE  ServiceInv' /\ Calling /\ Apart(x)
<1> USE DEF ServiceInv
<1> DEFINE p == Head(obj.list)
<1>1. /\ obj.live /\ task.pc = "closes" /\ obj.list # <<>> /\ caller.pc = "awaits"
  BY DEF Closes, At, Tasked
<1>2. /\ UNCHANGED <<obj, caller>> /\ task' = [pc |-> "destroy", at |-> p]
      /\ periph' = [periph EXCEPT ![p].timer = FALSE]
  BY DEF Closes
<1>3. p \in board
  BY <1>1 DEF ServiceType
<1> DEFINE o == periph[p]
           c == [o EXCEPT !.timer = FALSE]
<1>4. o \in PeriphType
  BY <1>3 DEF ServiceType
<1>5. c \in PeriphType /\ c.state = o.state /\ c.timer = FALSE
  <2> HIDE DEF o
  <2> QED BY <1>4 DEF PeriphType
<1>6. periph' = [periph EXCEPT ![p] = c]
  BY <1>2, <1>3 DEF ServiceType
<1>p. Head(obj.list) = p
  OBVIOUS
<1> HIDE DEF c, o, p
<1>7. /\ periph' \in [board -> PeriphType] /\ periph'[p] = c
      /\ \A q \in board : q # p => periph'[q] = periph[q]
  BY <1>3, <1>5, <1>6 DEF ServiceType
<1>8. ServiceType'
  BY <1>2, <1>3, <1>7 DEF ServiceType
<1>9. \A q : Placed(q) => Placed(q)'
  BY <1>2 DEF Placed, Listed, Resting
<1>10. \A q \in board : /\ Up(q)' <=> Up(q)
                        /\ periph'[q].timer => periph[q].timer
  BY <1>5, <1>7 DEF Up, o
<1>11. Tasked'
  BY <1>1, <1>2 DEF Tasked, Resting
<1>12. Kept'
  <2>1. Distinct(obj.list)'
    BY <1>2 DEF Kept, Distinct
  <2>2. \A q \in board : (periph[q].timer => Placed(q))'
    BY <1>9, <1>10 DEF Kept
  <2>3. (obj.list # <<>> /\ Head(obj.list) = task.at /\ ~periph[task.at].timer)'
    BY <1>1, <1>2, <1>5, <1>7, <1>p
  <2> QED BY <1>1, <1>2, <2>1, <2>2, <2>3 DEF Kept
<1>13. Apart(x)
  BY <1>1, <1>9, <1>10 DEF Apart
<1> QED
  BY <1>2, <1>8, <1>11, <1>12, <1>13 DEF Calling

\* The task ends when nothing is left in the list, so that no timer is left either.
LEMMA EndsStep ==
  ASSUME ServiceInv, UNCHANGED board, Ends, NEW x
  PROVE  ServiceInv' /\ Calling /\ Apart(x)
<1> USE DEF ServiceInv
<1>1. /\ obj.live /\ task.pc = "closes" /\ obj.list = <<>> /\ caller.pc = "awaits"
      /\ UNCHANGED <<periph, caller>> /\ obj' = [obj EXCEPT !.bits = {"STOPPED"}]
      /\ task' = [task EXCEPT !.pc = "none"]
  BY DEF Ends, At, Tasked, Goes
<1>2. /\ obj' \in [live : BOOLEAN, run : BOOLEAN, bits : SUBSET {"STOPPED", "STARTED"},
                   list : Seq(board), queue : Seq(board)]
      /\ obj'.list = <<>> /\ obj'.live = obj.live /\ obj'.run = obj.run /\ obj'.bits = {"STOPPED"}
  BY <1>1 DEF ServiceType
<1>3. task'.pc = "none" /\ ServiceType'
  BY <1>1, <1>2 DEF ServiceType
<1>4. \A q : ~Placed(q)
  BY <1>1 DEF Placed, Listed, Contains
<1>5. Tasked'
  BY <1>1, <1>2, <1>3 DEF Tasked, Resting
<1>6. Kept'
  <2>1. Distinct(obj.list)'
    BY <1>2 DEF Distinct
  <2>2. \A q \in board : ~periph'[q].timer
    BY <1>1, <1>4 DEF Kept
  <2> QED BY <1>1, <1>3, <2>1, <2>2 DEF Kept
<1>7. Apart(x)
  BY <1>1, <1>4 DEF Apart, Up
<1> QED
  BY <1>1, <1>3, <1>5, <1>6, <1>7 DEF Calling

Names == board \cup {"nobody", "led", "bt", "wifi"}

\* The application goes on alone.
LEMMA CallerMoves ==
  ASSUME ServiceInv, UNCHANGED <<board, obj, periph, task>>, obj.live, caller.pc # "awaits",
         caller' \in [pc : {"idle", "insert", "enable", "spawn", "blink", "config"}, p : Names,
                      calls : Nat, early : {caller.early}],
         caller'.pc = "insert" => caller'.p \in board /\ ~Listed(caller'.p),
         caller'.pc = "enable" => caller'.p \in board,
         caller'.pc = "blink" => Placed("led")
  PROVE  ServiceInv' /\ \A x : Apart(x)
<1> USE DEF ServiceInv
<1>1. ServiceType'
  BY DEF ServiceType, Names
<1>2. \A q : Placed(q) <=> Placed(q)'
  BY DEF Placed, Listed, Resting
<1>3. Tasked'
  BY DEF Tasked, Resting
<1>4. Kept'
  <2>1. Distinct(obj.list)'
    BY DEF Kept, Distinct
  <2>2. \A q \in board : (Up(q) /\ obj.live /\ caller.pc # "awaits" => Placed(q))'
    BY <1>2 DEF Kept, Up
  <2>3. \A q \in board : (periph[q].timer => Placed(q))'
    BY <1>2 DEF Kept
  <2>4. task.pc \notin {"destroy", "closes"}
    BY DEF Tasked
  <2>5. /\ (task.pc = "init")' => Placed(task.at)' /\ ~Up(task.at)'
        /\ (task.pc = "run")' => Placed(task.at)'
    BY DEF Kept, Placed, Listed, Resting, Up
  <2>6. /\ (caller.pc = "insert")' => (caller.p \in board)' /\ ~Listed(caller.p)'
        /\ (caller.pc = "enable")' => (caller.p \in board)'
    BY DEF Listed
  <2>7. (caller.pc = "blink")' => Placed("led")'
    BY <1>2
  <2> QED BY <2>1, <2>2, <2>3, <2>4, <2>5, <2>6, <2>7 DEF Kept
<1>5. \A x : Apart(x)
  BY <1>2 DEF Apart, Up
<1> QED
  BY <1>1, <1>3, <1>4, <1>5

\* A call that is over at once, or goes on where it says.
LEMMA CallsStep ==
  ASSUME ServiceInv, UNCHANGED <<board, obj, periph, task>>,
         NEW pc \in {"idle", "insert", "enable", "blink", "config"}, NEW p \in Names, Calls(pc, p),
         pc = "insert" => p \in board /\ ~Listed(p), pc = "enable" => p \in board,
         pc = "blink" => Placed("led")
  PROVE  /\ ServiceInv' /\ caller.pc = "idle" /\ caller'.pc = pc
         /\ \A x : Apart(x)
<1>1. /\ caller.pc = "idle" /\ obj.live
      /\ caller' = [pc |-> pc, p |-> p, calls |-> caller.calls + 1, early |-> caller.early]
  BY DEF Calls
<1>2. caller.calls + 1 \in Nat
  BY DEF ServiceInv, ServiceType
<1>3. caller' \in [pc : {"idle", "insert", "enable", "spawn", "blink", "config"}, p : Names,
                   calls : Nat, early : {caller.early}]
      /\ caller'.pc = pc /\ caller'.p = p
  BY <1>1, <1>2
<1> QED
  BY <1>1, <1>3, CallerMoves

\* Moving the application on changes nothing else of it.
LEMMA PcIs ==
  ASSUME ServiceInv, NEW pc \in {"idle", "spawn"}, caller' = [caller EXCEPT !.pc = pc]
  PROVE  caller' \in [pc : {"idle", "insert", "enable", "spawn", "blink", "config"}, p : Names,
                      calls : Nat, early : {caller.early}]
         /\ caller'.pc = pc
BY DEF ServiceInv, ServiceType, Names

\* The application comes back from a call it was in.
LEMMA BackStep ==
  ASSUME ServiceInv, UNCHANGED <<board, obj, periph, task>>, caller.pc \notin {"idle", "awaits"},
         NEW pc \in {"idle", "spawn"}, caller' = [caller EXCEPT !.pc = pc]
  PROVE  ServiceInv' /\ caller'.pc = pc /\ \A x : Apart(x)
<1>1. obj.live
  BY DEF ServiceInv, Tasked
<1> QED
  BY <1>1, PcIs, CallerMoves

\* esp_periph_start, up to where it leaves the lock.
LEMMA StartStep ==
  ASSUME ServiceInv, UNCHANGED board, NEW p \in board, Start(p)
  PROVE  ServiceInv' /\ Calling /\ \A x : Apart(x)
<1>1. UNCHANGED <<obj, periph, task>> /\ p \in Names
  BY DEF Start, Names
<1>2. CASE Listed(p)
  <2>1. Calls("enable", p)
    BY <1>2 DEF Start
  <2> QED BY <1>1, <2>1, CallsStep DEF Calling
<1>3. CASE ~Listed(p)
  <2>1. Calls("insert", p)
    BY <1>3 DEF Start
  <2> QED BY <1>1, <1>3, <2>1, CallsStep DEF Calling
<1> QED
  BY <1>2, <1>3

\* A peripheral that is not in the list is put at its end.
LEMMA InsertStep ==
  ASSUME ServiceInv, UNCHANGED board, Insert
  PROVE  ServiceInv' /\ Calling /\ \A x : Apart(x)
<1> USE DEF ServiceInv
<1> DEFINE p == caller.p
           t == Append(obj.list, p)
<1>1. /\ caller.pc = "insert" /\ obj.live /\ p \in board /\ ~Listed(p) /\ UNCHANGED <<periph, task>>
      /\ caller' = [caller EXCEPT !.pc = "spawn"] /\ obj' = [obj EXCEPT !.list = t]
      /\ task.pc \notin {"closes", "destroy"}
  BY DEF Insert, Kept, Tasked
<1>2. /\ t \in Seq(board) /\ Distinct(t)
      /\ \A q : Listed(q) => Contains(t, q)
  <2>1. obj.list \in Seq(board) /\ Distinct(obj.list)
    BY DEF ServiceType, Kept
  <2> QED BY <1>1, <2>1, Appended DEF Listed
<1> HIDE DEF p, t
<1>3. /\ obj' \in [live : BOOLEAN, run : BOOLEAN, bits : SUBSET {"STOPPED", "STARTED"},
                   list : Seq(board), queue : Seq(board)]
      /\ obj'.list = t /\ obj'.live = obj.live /\ obj'.run = obj.run /\ obj'.bits = obj.bits
  BY <1>1, <1>2 DEF ServiceType
<1>4. ServiceType' /\ caller'.pc = "spawn" /\ caller'.early = caller.early
  BY <1>1, <1>3 DEF ServiceType
<1>5. \A q : Placed(q) => Placed(q)'
  BY <1>1, <1>2, <1>3 DEF Placed, Listed, Resting
<1>6. Tasked'
  BY <1>1, <1>3, <1>4 DEF Tasked, Resting
<1>7. Kept'
  <2>1. Distinct(obj.list)'
    BY <1>2, <1>3 DEF Distinct
  <2>2. \A q \in board : (Up(q) /\ obj.live /\ caller.pc # "awaits" => Placed(q))'
    BY <1>1, <1>5 DEF Kept, Up
  <2>3. \A q \in board : (periph[q].timer => Placed(q))'
    BY <1>1, <1>5 DEF Kept
  <2>5. /\ (task.pc = "init")' => Placed(task.at)' /\ ~Up(task.at)'
        /\ (task.pc = "run")' => Placed(task.at)'
    <3>1. task.pc \in {"init", "run"} => Placed(task.at) /\ (task.pc = "init" => ~Up(task.at))
      BY DEF Kept
    <3>2. Placed(task.at) => Placed(task.at)'
      BY <1>1, <1>2, <1>3 DEF Placed, Listed, Resting
    <3> QED BY <1>1, <3>1, <3>2 DEF Up
  <2> QED BY <1>1, <1>4, <2>1, <2>2, <2>3, <2>5 DEF Kept
<1>8. \A x : Apart(x)
  BY <1>1, <1>5 DEF Apart, Up
<1> QED
  BY <1>1, <1>4, <1>6, <1>7, <1>8 DEF Calling

\* What is said of every peripheral when only "disabled" changes.
LEMMA DisabledStep ==
  ASSUME ServiceInv, UNCHANGED <<board, obj, task>>, obj.live, caller.pc # "awaits",
         caller' \in [pc : {"idle", "spawn"}, p : Names, calls : Nat, early : {caller.early}],
         periph' \in [board -> PeriphType],
         \A q \in board : periph'[q].state = periph[q].state /\ periph'[q].timer = periph[q].timer
  PROVE  ServiceInv' /\ \A x : Apart(x)
<1> USE DEF ServiceInv
<1>1. ServiceType'
  BY DEF ServiceType, Names
<1>2. \A q : Placed(q) <=> Placed(q)'
  BY DEF Placed, Listed, Resting
<1>3. Tasked'
  BY DEF Tasked, Resting
<1>4. Kept'
  <2>1. Distinct(obj.list)'
    BY DEF Kept, Distinct
  <2>2. \A q \in board : (Up(q) /\ obj.live /\ caller.pc # "awaits" => Placed(q))'
    BY <1>2 DEF Kept, Up
  <2>3. \A q \in board : (periph[q].timer => Placed(q))'
    BY <1>2 DEF Kept
  <2>4. task.pc \notin {"destroy", "closes"}
    BY DEF Tasked
  <2>5. /\ (task.pc = "init")' => Placed(task.at)' /\ ~Up(task.at)'
        /\ (task.pc = "run")' => Placed(task.at)'
    BY DEF Kept, Placed, Listed, Resting, Up
  <2> QED BY <2>1, <2>2, <2>3, <2>4, <2>5 DEF Kept
<1>5. \A x : Apart(x)
  BY <1>2 DEF Apart, Up
<1> QED
  BY <1>1, <1>3, <1>4, <1>5

\* Disabling or enabling one peripheral touches no state and no timer.
LEMMA OneDisabled ==
  ASSUME ServiceType, NEW p \in board, NEW d \in BOOLEAN, periph' = [periph EXCEPT ![p].disabled = d]
  PROVE  /\ periph' \in [board -> PeriphType]
         /\ \A q \in board : periph'[q].state = periph[q].state /\ periph'[q].timer = periph[q].timer
<1> DEFINE o == periph[p]
           c == [o EXCEPT !.disabled = d]
<1>4. o \in PeriphType
  BY DEF ServiceType
<1>5. c \in PeriphType /\ c.state = o.state /\ c.timer = o.timer
  <2> HIDE DEF o
  <2> QED BY <1>4 DEF PeriphType
<1>6. periph' = [periph EXCEPT ![p] = c]
  BY DEF ServiceType
<1> HIDE DEF c
<1>7. /\ periph' \in [board -> PeriphType] /\ periph'[p] = c
      /\ \A q \in board : q # p => periph'[q] = periph[q]
  BY <1>5, <1>6 DEF ServiceType
<1> QED
  BY <1>5, <1>7

\* A peripheral that is in the list is enabled again.
LEMMA EnableStep ==
  ASSUME ServiceInv, UNCHANGED board, Enable
  PROVE  ServiceInv' /\ Calling /\ \A x : Apart(x)
<1>1. /\ caller.pc = "enable" /\ obj.live /\ caller.p \in board /\ UNCHANGED <<obj, task>>
      /\ caller' = [caller EXCEPT !.pc = "spawn"]
      /\ periph' = [periph EXCEPT ![caller.p].disabled = FALSE]
  BY DEF Enable, ServiceInv, Kept, Tasked
<1>2. caller' \in [pc : {"idle", "spawn"}, p : Names, calls : Nat, early : {caller.early}]
      /\ caller'.pc = "spawn"
  BY <1>1 DEF ServiceInv, ServiceType, Names
<1> QED
  BY <1>1, <1>2, OneDisabled, DisabledStep DEF Calling, ServiceInv

\* esp_periph_stop and esp_periph_stop_all.
LEMMA StopStep ==
  ASSUME ServiceInv, UNCHANGED board, StopAll \/ \E p \in board : Stop(p)
  PROVE  ServiceInv' /\ Calling /\ \A x : Apart(x)
<1>1. PICK n \in Names : Calls("idle", n)
  BY DEF Stop, StopAll, Names
<1>2. /\ caller.pc = "idle" /\ obj.live /\ UNCHANGED <<obj, task>>
      /\ caller' = [pc |-> "idle", p |-> n, calls |-> caller.calls + 1, early |-> caller.early]
  BY <1>1 DEF Calls, Stop, StopAll
<1>3. caller.calls + 1 \in Nat
  BY DEF ServiceInv, ServiceType
<1>4. caller' \in [pc : {"idle", "spawn"}, p : Names, calls : Nat, early : {caller.early}]
      /\ caller'.pc = "idle"
  BY <1>2, <1>3
<1>5. CASE StopAll
  <2>1. periph' = [p \in board |-> [periph[p] EXCEPT !.disabled = @ \/ Listed(p)]]
    BY <1>5 DEF StopAll
  <2>2. ASSUME NEW p \in board
        PROVE  periph'[p] \in PeriphType /\ periph'[p].state = periph[p].state
               /\ periph'[p].timer = periph[p].timer
    <3> DEFINE o == periph[p]
               d == o.disabled \/ Listed(p)
    <3>1. o \in PeriphType /\ periph'[p] = [o EXCEPT !.disabled = d]
      BY <2>1 DEF ServiceInv, ServiceType
    <3>2. d \in BOOLEAN
      <4> HIDE DEF o
      <4> QED BY <3>1 DEF PeriphType
    <3> HIDE DEF o, d
    <3>3. periph'[p] \in PeriphType /\ periph'[p].state = o.state /\ periph'[p].timer = o.timer
      BY <3>1, <3>2 DEF PeriphType
    <3> QED BY <3>3 DEF o
  <2>3. periph' \in [board -> PeriphType]
    BY <2>1, <2>2
  <2> QED BY <1>2, <1>4, <2>2, <2>3, DisabledStep DEF Calling
<1>6. CASE \E p \in board : Stop(p)
  <2>1. PICK p \in board : periph' = [periph EXCEPT ![p].disabled = TRUE]
    BY <1>6 DEF Stop
  <2> QED BY <1>2, <1>4, <2>1, OneDisabled, DisabledStep DEF Calling, ServiceInv
<1> QED
  BY <1>5, <1>6

\* The task is created, or it is there already, or it could not be.
LEMMA SpawnStep ==
  ASSUME ServiceInv, UNCHANGED board, Spawn \/ SpawnNot
  PROVE  ServiceInv' /\ Calling /\ \A x : Apart(x)
<1> USE DEF ServiceInv
<1>1. /\ caller.pc = "spawn" /\ obj.live /\ UNCHANGED periph /\ caller' = [caller EXCEPT !.pc = "idle"]
  BY DEF Spawn, SpawnNot, Spawned, Tasked
<1>2. CASE UNCHANGED <<obj, task>>
  BY <1>1, <1>2, BackStep DEF Calling
<1>3. CASE ~obj.run /\ obj' = [obj EXCEPT !.run = TRUE] /\ Goes("boots")
  <2>1. task.pc = "none"
    BY <1>1, <1>3 DEF Tasked
  <2>2. /\ obj' \in [live : BOOLEAN, run : BOOLEAN, bits : SUBSET {"STOPPED", "STARTED"},
                     list : Seq(board), queue : Seq(board)]
        /\ obj'.list = obj.list /\ obj'.live = obj.live /\ obj'.run = TRUE /\ obj'.bits = obj.bits
    BY <1>3 DEF ServiceType
  <2>3. ServiceType' /\ caller'.pc = "idle" /\ caller'.early = caller.early /\ task'.pc = "boots"
    BY <1>1, <1>3, <2>2 DEF ServiceType, Goes
  <2>4. \A q : ~Placed(q)
    BY <2>1 DEF Placed, Resting
  <2>5. Tasked'
    BY <1>1, <2>1, <2>2, <2>3 DEF Tasked, Resting
  <2>6. Kept'
    <3>1. Distinct(obj.list)'
      BY <2>2 DEF Kept, Distinct
    <3>2. \A q \in board : ~Up(q)' /\ ~periph'[q].timer
      BY <1>1, <2>4 DEF Kept, Up
    <3> QED BY <2>3, <3>1, <3>2 DEF Kept
  <2>7. \A x : Apart(x)
    BY <1>1, <2>1, <2>4 DEF Apart, Up
  <2> QED BY <1>1, <2>3, <2>5, <2>6, <2>7 DEF Calling
<1> QED
  BY <1>2, <1>3 DEF Spawn, SpawnNot

\* esp_periph_destroy, up to its wait.
LEMMA DestroyStep ==
  ASSUME ServiceInv, UNCHANGED board, Destroy
  PROVE  ServiceInv' /\ Calling /\ \A x : Apart(x)
<1> USE DEF ServiceInv
<1> DEFINE e == At("boots") \/ \E p \in board : Listed(p) /\ ~Up(p)
<1>1. /\ caller.pc = "idle" /\ obj.live /\ UNCHANGED <<periph, task>>
      /\ caller' = [caller EXCEPT !.pc = "awaits", !.calls = @ + 1, !.early = e]
      /\ obj' = [obj EXCEPT !.run = FALSE]
  BY DEF Destroy
<1>2. task.pc = "boots" => e
  BY <1>1 DEF At
<1>3. e \in BOOLEAN
  OBVIOUS
<1> HIDE DEF e
<1>4. /\ obj' \in [live : BOOLEAN, run : BOOLEAN, bits : SUBSET {"STOPPED", "STARTED"},
                   list : Seq(board), queue : Seq(board)]
      /\ obj'.list = obj.list /\ obj'.live = obj.live /\ obj'.run = FALSE /\ obj'.bits = obj.bits
  BY <1>1 DEF ServiceType
<1> DEFINE n == caller.calls + 1
<1>5. ServiceType' /\ caller'.pc = "awaits" /\ caller'.early = e
  <2>1. n \in Nat /\ caller' = [caller EXCEPT !.pc = "awaits", !.calls = n, !.early = e]
    BY <1>1 DEF ServiceType
  <2> HIDE DEF n
  <2> QED BY <1>1, <1>3, <1>4, <2>1 DEF ServiceType
<1>6. \A q : Placed(q) <=> Placed(q)'
  BY <1>1, <1>4 DEF Placed, Listed, Resting
<1>7. Tasked'
  BY <1>1, <1>2, <1>4, <1>5 DEF Tasked, Resting
<1>8. Kept'
  <2>1. Distinct(obj.list)'
    BY <1>4 DEF Kept, Distinct
  <2>2. \A q \in board : (periph[q].timer => Placed(q))'
    BY <1>1, <1>6 DEF Kept
  <2>3. task.pc \notin {"destroy", "closes"}
    BY <1>1 DEF Tasked
  <2>4. /\ (task.pc = "init")' => Placed(task.at)' /\ ~Up(task.at)'
        /\ (task.pc = "run")' => Placed(task.at)'
    BY <1>1, <1>4 DEF Kept, Placed, Listed, Resting, Up
  <2> QED BY <1>1, <1>5, <2>1, <2>2, <2>3, <2>4 DEF Kept
<1>9. \A x : Apart(x)
  BY <1>1, <1>6 DEF Apart, Up
<1> QED
  BY <1>1, <1>5, <1>7, <1>8, <1>9 DEF Calling

\* ... and from there: the service is freed when the task is no more, and no timer is left.
LEMMA FreesStep ==
  ASSUME ServiceInv, UNCHANGED board, DestroyWaits
  PROVE  ServiceInv' /\ Calling /\ \A x : Apart(x)
<1> USE DEF ServiceInv
<1>1. /\ caller.pc = "awaits" /\ "STOPPED" \in obj.bits /\ UNCHANGED <<periph, task>>
      /\ caller' = [caller EXCEPT !.pc = "idle"] /\ obj' = [NewObj EXCEPT !.live = FALSE]
  BY DEF DestroyWaits, Freed
<1>2. /\ obj' = [live |-> FALSE, run |-> FALSE, bits |-> {"STOPPED"}, list |-> <<>>, queue |-> <<>>]
  BY <1>1 DEF NewObj
<1>3. obj' \in [live : BOOLEAN, run : BOOLEAN, bits : SUBSET {"STOPPED", "STARTED"},
                list : Seq(board), queue : Seq(board)]
  BY <1>2
<1>4. ServiceType' /\ caller'.pc = "idle" /\ caller'.early = caller.early
  BY <1>1, <1>3 DEF ServiceType
<1>5. Resting /\ \A q : ~Placed(q)
  BY <1>1 DEF Tasked, Placed
<1>6. Tasked'
  BY <1>1, <1>2, <1>4, <1>5 DEF Tasked, Resting
<1>7. Kept'
  <2>1. Distinct(obj.list)'
    BY <1>2 DEF Distinct
  <2>2. \A q \in board : ~periph'[q].timer
    BY <1>1, <1>5 DEF Kept
  <2> QED BY <1>1, <1>2, <1>4, <1>5, <2>1, <2>2 DEF Kept, Resting
<1>8. \A x : Apart(x)
  BY <1>1, <1>5 DEF Apart, Up
<1> QED
  BY <1>1, <1>4, <1>6, <1>7, <1>8 DEF Calling

\* Every step of the service itself.
LEMMA OwnStep ==
  ASSUME ServiceInv, UNCHANGED board, ServiceNext
  PROVE  ServiceInv' /\ Calling /\ \A x : Apart(x)
<1>1. CASE \E p \in board : Start(p)
  BY <1>1, StartStep
<1>2. CASE StopAll \/ \E p \in board : Stop(p)
  BY <1>2, StopStep
<1>3. CASE Destroy
  BY <1>3, DestroyStep
<1>4. CASE Proceed
  BY <1>4, InsertStep, EnableStep, SpawnStep, FreesStep DEF Proceed
<1>5. CASE Serve
  BY <1>5, LoopStep, ClosesStep, EndsStep DEF Serve
<1> QED
  BY <1>1, <1>2, <1>3, <1>4, <1>5 DEF ServiceNext

\* The timer of a peripheral is started in its place, or stopped, between the calls of the task.
Timed(p, on) == periph' = [periph EXCEPT ![p].timer = on]
Lit == caller.pc = "blink" /\ caller' = [caller EXCEPT !.pc = "idle"]

\* Nothing but that timer changes for the service.
LEMMA TimerStep ==
  ASSUME ServiceInv, UNCHANGED <<board, obj, task>>, NEW p \in board, NEW on \in BOOLEAN,
         Timed(p, on),
         on => Placed(p) /\ (p = "wifi" \/ task.pc # "destroy"),
         UNCHANGED caller \/ Lit
  PROVE  /\ ServiceInv' /\ Apart(p) /\ periph'[p].timer = on /\ (Up(p)' <=> Up(p))
         /\ caller.pc = "blink" => caller'.pc \in {"blink", "idle"}
         /\ \A q : Placed(q) <=> Placed(q)'
<1> USE DEF ServiceInv
<1> DEFINE o == periph[p]
           c == [o EXCEPT !.timer = on]
<1>1. o \in PeriphType
  BY DEF ServiceType
<1>2. c \in PeriphType /\ c.state = o.state /\ c.timer = on
  <2> HIDE DEF o
  <2> QED BY <1>1 DEF PeriphType
<1>3. periph' = [periph EXCEPT ![p] = c]
  BY DEF ServiceType, Timed
<1> HIDE DEF c
<1>4. /\ periph' \in [board -> PeriphType] /\ periph'[p] = c
      /\ \A q \in board : q # p => periph'[q] = periph[q]
  BY <1>2, <1>3 DEF ServiceType
<1>5. /\ \A q \in board : periph'[q].state = periph[q].state
      /\ \A q \in board : q # p => periph'[q].timer = periph[q].timer
      /\ periph'[p].timer = on
  BY <1>2, <1>4
<1>6. /\ ServiceType' /\ caller'.pc \in {caller.pc, "idle"} /\ caller'.p = caller.p
      /\ caller'.early = caller.early /\ (caller.pc # "blink" => caller' = caller)
  BY <1>4 DEF ServiceType, Lit
<1>7. \A q : Placed(q) <=> Placed(q)'
  BY DEF Placed, Listed, Resting
<1>8. Tasked'
  <2>1. caller.pc # "blink" \/ caller.pc # "awaits"
    OBVIOUS
  <2> QED BY <1>6 DEF Tasked, Resting
<1>9. Kept'
  <2>1. Distinct(obj.list)'
    BY DEF Kept, Distinct
  <2>2. \A q \in board : (Up(q) /\ obj.live /\ caller.pc # "awaits" => Placed(q))'
    BY <1>5, <1>6, <1>7 DEF Kept, Up
  <2>3. \A q \in board : (periph[q].timer => Placed(q))'
    BY <1>5, <1>7 DEF Kept
  <2>4. (task.pc = "destroy")' => (task.at # "wifi" => ~periph[task.at].timer)'
    <3> SUFFICES ASSUME task.pc = "destroy", task.at # "wifi" PROVE ~periph'[task.at].timer
      OBVIOUS
    <3>1. ~periph[task.at].timer /\ task.at \in board
      <4>1. ~periph[task.at].timer /\ obj.list # <<>> /\ task.at = Head(obj.list)
        BY DEF Kept
      <4> QED BY <4>1 DEF ServiceType
    <3> QED BY <1>5, <3>1
  <2>5. /\ (task.pc = "destroy")' => (obj.list # <<>> /\ Head(obj.list) = task.at)'
        /\ (task.pc = "run")' => Placed(task.at)'
    BY <1>7 DEF Kept
  <2>6. (task.pc = "init")' => Placed(task.at)' /\ ~Up(task.at)'
    <3> SUFFICES ASSUME task.pc = "init" PROVE Placed(task.at)' /\ ~Up(task.at)'
      OBVIOUS
    <3>1. Placed(task.at) /\ ~Up(task.at)
      BY DEF Kept
    <3> QED BY <1>5, <1>7, <3>1 DEF Up, Placed
  <2>7. /\ (caller.pc = "insert")' => (caller.p \in board)' /\ ~Listed(caller.p)'
        /\ (caller.pc = "enable")' => (caller.p \in board)'
        /\ (caller.pc = "blink")' => Placed("led")'
    BY <1>6, <1>7 DEF Kept, Listed
  <2> QED BY <2>1, <2>2, <2>3, <2>4, <2>5, <2>6, <2>7 DEF Kept
<1>10. Apart(p)
  BY <1>5, <1>7 DEF Apart, Up
<1> QED
  BY <1>5, <1>6, <1>7, <1>8, <1>9, <1>10 DEF Up

\* What the task has in its hands is a peripheral of the board, without its timer when it
\* is destroyed, unless the station's event task starts that one again.
LEMMA HeldIs ==
  ASSUME ServiceInv
  PROVE  /\ task.pc \in {"init", "run"} => Placed(task.at)
         /\ task.pc = "init" => ~Up(task.at)
         /\ task.pc = "destroy" =>
              task.at \in board /\ Placed(task.at) /\ (task.at # "wifi" => ~periph[task.at].timer)
<1>1. ASSUME task.pc = "destroy"
      PROVE  task.at \in board /\ Placed(task.at)
  <2>1. obj.list # <<>> /\ task.at = Head(obj.list) /\ obj.list \in Seq(board)
    BY <1>1 DEF ServiceInv, ServiceType, Kept
  <2>2. Contains(obj.list, task.at) /\ task.at \in board
    BY <2>1, Dropped
  <2> QED BY <1>1, <2>2 DEF Placed, Listed, Resting
<1> QED
  BY <1>1 DEF ServiceInv, Kept

-----------------------------------------------------------------------------
(* Keys and pads: what is told of a press.                                 *)

Words == {"press", "release", "long release", "long press"}

\* How far the telling of a press is shows in what is measured of it: until it is released
\* it was pressed, a long one for longer than the limit.
Story(since, long, told, limit) ==
  /\ since = 0 => told \in {<<>>, <<"press", "release">>, <<"press", "long release">>,
                            <<"press", "long press", "long release">>}
  /\ since # 0 /\ ~long => told = <<"press">>
  /\ since # 0 /\ long => told = <<"press", "long press">> /\ since - 1 > limit

\* What is told is the story of a press, or of none.
LEMMA StoryIsPress ==
  ASSUME NEW since, NEW long, NEW told, NEW limit, Story(since, long, told, limit)
  PROVE  PressStory(told)
BY DEF Story, PressStory

\* A word after one word.
LEMMA OneAndOne == ASSUME NEW a, NEW b PROVE Append(<<a>>, b) = <<a, b>>
<1> DEFINE S == {a, b}
           t == Append(<<a>>, b)
           u == <<a, b>>
<1>1. t \in Seq(S) /\ Len(t) = 2 /\ t[1] = a /\ t[2] = b
  OBVIOUS
<1>2. u \in Seq(S) /\ Len(u) = 2 /\ u[1] = a /\ u[2] = b
  OBVIOUS
<1> HIDE DEF t, u
<1>3. \A i \in 1 .. Len(t) : t[i] = u[i]
  BY <1>1, <1>2
<1>4. t = u
  BY <1>1, <1>2, <1>3, SeqEqual
<1> QED
  BY <1>4 DEF t, u

\* A word after two words.
LEMMA TwoAndOne == ASSUME NEW a, NEW b, NEW c PROVE Append(<<a, b>>, c) = <<a, b, c>>
<1> DEFINE S == {a, b, c}
           t == Append(<<a, b>>, c)
           u == <<a, b, c>>
<1>1. t \in Seq(S) /\ Len(t) = 3 /\ t[1] = a /\ t[2] = b /\ t[3] = c
  OBVIOUS
<1>2. u \in Seq(S) /\ Len(u) = 3 /\ u[1] = a /\ u[2] = b /\ u[3] = c
  OBVIOUS
<1> HIDE DEF t, u
<1>3. \A i \in 1 .. Len(t) : t[i] = u[i]
  BY <1>1, <1>2
<1>4. t = u
  BY <1>1, <1>2, <1>3, SeqEqual
<1> QED
  BY <1>4 DEF t, u

\* A press begins its story.
LEMMA StoryBegins == ASSUME NEW limit \in Nat PROVE Story(1, FALSE, <<"press">>, limit)
<1> DEFINE t == <<"press">>
<1> HIDE DEF t
<1>1. Story(1, FALSE, t, limit)
  BY DEF t, Story
<1> QED
  BY <1>1 DEF t

\* A story that goes on: its next word is the one for what is measured.
LEMMA StoryGoesOn ==
  ASSUME NEW since \in Nat, NEW long \in BOOLEAN, NEW told, NEW limit \in Nat,
         Story(since, long, told, limit)
  PROVE  /\ Story(1, FALSE, <<"press">>, limit)
         /\ since # 0 /\ since - 1 > limit => Story(0, FALSE, Append(told, "long release"), limit)
         /\ since # 0 /\ ~(since - 1 > limit) => Story(0, FALSE, Append(told, "release"), limit)
         /\ since # 0 /\ ~long /\ since - 1 > limit => Story(since, TRUE, Append(told, "long press"), limit)
         /\ since # 0 => Story(since + 1, long, told, limit)
<1>1. /\ Append(<<"press">>, "release") = <<"press", "release">>
      /\ Append(<<"press">>, "long release") = <<"press", "long release">>
      /\ Append(<<"press">>, "long press") = <<"press", "long press">>
      /\ Append(<<"press", "long press">>, "long release") = <<"press", "long press", "long release">>
  BY OneAndOne, TwoAndOne
<1>2. Story(1, FALSE, <<"press">>, limit)
  BY StoryBegins
<1>3. since # 0 /\ since - 1 > limit => Story(0, FALSE, Append(told, "long release"), limit)
  BY <1>1 DEF Story
<1>4. since # 0 /\ ~(since - 1 > limit) => Story(0, FALSE, Append(told, "release"), limit)
  BY <1>1 DEF Story
<1>5. since # 0 /\ ~long /\ since - 1 > limit => Story(since, TRUE, Append(told, "long press"), limit)
  BY <1>1 DEF Story
<1>6. ASSUME since # 0 PROVE Story(since + 1, long, told, limit)
  <2> DEFINE n == since + 1
  <2>1. n # 0 /\ (since - 1 > limit => n - 1 > limit)
    OBVIOUS
  <2> HIDE DEF n
  <2>2. Story(n, long, told, limit)
    BY <1>6, <2>1 DEF Story
  <2> QED BY <2>2 DEF n
<1> QED
  BY <1>2, <1>3, <1>4, <1>5, <1>6

ButtonType ==
  button \in [isr : BOOLEAN, down : BOOLEAN, since : Nat, long : BOOLEAN, told : Seq(Words), edges : Nat]

\* The interrupt is installed while the button is in its place; its story is in order.
ButtonInv ==
  /\ ButtonType
  /\ button.isr => Placed("button")
  /\ Story(button.since, button.long, button.told, LongPress)

\* The button begins in its invariant.
LEMMA ButtonBegins == ButtonInit => ButtonInv
  BY DEF ButtonInit, ButtonInv, ButtonType, Story

\* The button keeps its invariant while the others take steps.
LEMMA ButtonFrame ==
  ASSUME ButtonInv, UNCHANGED <<board, button>>, NEW x, x # "button", Apart(x)
  PROVE  ButtonInv'
<1>1. ButtonType' /\ Story(button.since, button.long, button.told, LongPress)'
  BY DEF ButtonInv, ButtonType, Story
<1>2. button.isr => Placed("button")'
  BY DEF ButtonInv, Apart, Placed
<1> QED
  BY <1>1, <1>2 DEF ButtonInv

\* What _button_run makes of the pin and the clock.
LEMMA ButtonTells ==
  ASSUME ButtonInv, ButtonRun
  PROVE  ButtonType' /\ button'.isr = button.isr
         /\ Story(button.since, button.long, button.told, LongPress)'
<1> USE ButtonAssumption
<1> DEFINE b == button
           told == b.told
           longer == b.since - 1 > LongPress
<1>1. b.since \in Nat /\ b.long \in BOOLEAN /\ told \in Seq(Words) /\ b.down \in BOOLEAN
      /\ Story(b.since, b.long, told, LongPress)
  BY DEF ButtonInv, ButtonType
<1>2. \A w \in Words : Append(told, w) \in Seq(Words)
  BY <1>1
<1>3. <<"press">> \in Seq(Words)
  BY DEF Words
<1>4. CASE ButtonStatus = "press"
  <2>1. button' = [button EXCEPT !.since = 1, !.long = FALSE, !.told = <<"press">>]
    BY <1>4 DEF ButtonRun
  <2>2. ButtonType' /\ button'.isr = button.isr /\ button'.since = 1 /\ button'.long = FALSE
        /\ button'.told = <<"press">>
    BY <1>3, <2>1 DEF ButtonInv, ButtonType
  <2> QED BY <1>1, <2>2, StoryGoesOn
<1>5. CASE ButtonStatus \in {"release", "long release"}
  <2> DEFINE s == ButtonStatus
             t == Append(told, s)
  <2>1. button' = [button EXCEPT !.since = 0, !.long = FALSE, !.told = t]
    BY <1>5 DEF ButtonRun
  <2>2. t \in Seq(Words)
    BY <1>2, <1>5 DEF Words
  <2>3. b.since # 0 /\ (s = "long release" => longer) /\ (s = "release" => ~longer)
    BY <1>1, <1>5 DEF ButtonStatus
  <2>4. Story(0, FALSE, t, LongPress)
    BY <1>1, <1>5, <2>3, StoryGoesOn
  <2> HIDE DEF t, told, b
  <2>5. ButtonType' /\ button'.isr = button.isr /\ button'.since = 0 /\ button'.long = FALSE
        /\ button'.told = t
    BY <2>1, <2>2 DEF ButtonInv, ButtonType
  <2> QED BY <2>4, <2>5
<1>6. CASE ButtonStatus = "long press"
  <2> DEFINE t == Append(told, "long press")
  <2>1. button' = [button EXCEPT !.long = TRUE, !.told = t]
    BY <1>6 DEF ButtonRun
  <2>2. t \in Seq(Words)
    BY <1>2 DEF Words
  <2>3. b.since # 0 /\ ~b.long /\ longer
    BY <1>1, <1>6 DEF ButtonStatus
  <2>4. Story(b.since, TRUE, t, LongPress)
    BY <1>1, <2>3, StoryGoesOn
  <2> HIDE DEF t, told
  <2>5. ButtonType' /\ button'.isr = button.isr /\ button'.since = b.since /\ button'.long = TRUE
        /\ button'.told = t
    BY <2>1, <2>2 DEF ButtonInv, ButtonType
  <2> QED BY <2>4, <2>5
<1>7. CASE ButtonStatus \notin {"press", "release", "long release", "long press"}
  <2>1. button' = button
    BY <1>7 DEF ButtonRun
  <2> QED BY <1>1, <2>1 DEF ButtonInv, ButtonType, Story
<1> QED
  BY <1>4, <1>5, <1>6, <1>7

\* Every step of the button.
LEMMA ButtonStep ==
  ASSUME ServiceInv, ButtonInv, UNCHANGED board, ButtonNext
  PROVE  ServiceInv' /\ ButtonInv' /\ Calling /\ Apart("button")
<1> USE DEF ButtonInv
<1>1. CASE ButtonStarts
  <2>1. Held("init", "button") /\ InitReturns("button", TRUE, "RUNNING")
        /\ button' = [button EXCEPT !.isr = TRUE]
    BY <1>1 DEF ButtonStarts
  <2>2. "button" \in board
    BY <2>1, HeldIs DEF Held, At, Placed
  <2>3. ServiceInv' /\ Calling /\ Apart("button") /\ Placed("button")'
    BY <2>1, <2>2, InitReturnsStep
  <2>4. ButtonType' /\ button'.since = button.since /\ button'.long = button.long
        /\ button'.told = button.told
    BY <2>1 DEF ButtonType
  <2> QED BY <2>3, <2>4 DEF Story
<1>2. CASE ButtonRun
  <2>1. Held("run", "button") /\ RunReturns
    BY <1>2 DEF ButtonRun
  <2>2. "button" \in board
    BY <2>1, HeldIs DEF Held, At, Placed
  <2>3. ServiceInv' /\ Calling /\ Apart("button")
    BY <2>1, <2>2, RunReturnsStep
  <2>4. Placed("button") => Placed("button")'
    BY <2>1, GoesIs DEF RunReturns, Placed, Listed, Resting, ServiceInv
  <2> QED BY <1>2, <2>3, <2>4, ButtonTells
<1>3. CASE ButtonDestroy
  <2>1. Held("destroy", "button") /\ DestroyReturns("button")
        /\ button' = [button EXCEPT !.isr = FALSE]
    BY <1>3 DEF ButtonDestroy
  <2>2. "button" \in board /\ ~periph["button"].timer
    BY <2>1, HeldIs DEF Held, At
  <2>3. ServiceInv' /\ Calling /\ Apart("button")
    BY <2>1, <2>2, DestroyReturnsStep
  <2>4. ButtonType' /\ button'.since = button.since /\ button'.long = button.long
        /\ button'.told = button.told /\ button'.isr = FALSE
    BY <2>1 DEF ButtonType
  <2> QED BY <2>3, <2>4 DEF Story
<1>4. CASE ButtonEdge \/ ButtonTimer \/ ButtonTime
  <2>1. UNCHANGED service \/ \E p \in board : SendCmd(p)
    BY <1>4 DEF ButtonEdge, ButtonTimer, ButtonTime, Fires
  <2>2. ServiceInv' /\ Calling /\ Apart("button")
    BY <2>1, SendApart
  <2>3. Placed("button") => Placed("button")'
    BY <2>1, SendStep
  <2>4. ButtonType' /\ button'.isr = button.isr /\ Story(button.since, button.long, button.told, LongPress)'
    <3>1. CASE ButtonEdge
      <4>1. button' = [button EXCEPT !.down = ~@, !.edges = @ + 1]
        BY <3>1 DEF ButtonEdge
      <4>2. (~button.down) \in BOOLEAN /\ button.edges + 1 \in Nat
        <5>1. button.edges \in Nat
          BY DEF ButtonType
        <5>2. button.edges + 1 \in Nat
          BY <5>1
        <5>3. (~button.down) \in BOOLEAN
          OBVIOUS
        <5> QED BY <5>2, <5>3
      <4> DEFINE d == ~button.down
                 e == button.edges + 1
      <4>3. button' = [button EXCEPT !.down = d, !.edges = e]
        BY <4>1 DEF ButtonType
      <4> HIDE DEF d, e
      <4>4. ButtonType' /\ button'.isr = button.isr /\ button'.since = button.since
            /\ button'.long = button.long /\ button'.told = button.told
        BY <4>2, <4>3 DEF ButtonType, d, e
      <4> QED BY <4>4
    <3>2. CASE ButtonTimer
      BY <3>2 DEF ButtonTimer, ButtonType, Story
    <3>3. CASE ButtonTime
      <4>1. button' = [button EXCEPT !.since = @ + 1] /\ button.since # 0 /\ button.since \in Nat
        BY <3>3 DEF ButtonTime, ButtonType
      <4>2. ButtonType' /\ button'.isr = button.isr /\ button'.since = button.since + 1
            /\ button'.long = button.long /\ button'.told = button.told
        BY <4>1 DEF ButtonType
      <4>3. Story(button.since + 1, button.long, button.told, LongPress)
        BY <4>1, StoryGoesOn, ButtonAssumption DEF ButtonType
      <4> QED BY <4>2, <4>3
    <3> QED BY <1>4, <3>1, <3>2, <3>3
  <2> QED BY <2>2, <2>3, <2>4
<1> QED
  BY <1>1, <1>2, <1>3, <1>4 DEF ButtonNext, ButtonServe

-----------------------------------------------------------------------------
(* The touch pad: one result for what was recognised, one command for it.  *)

Once(s, x) == \A i, j \in 1 .. Len(s) : s[i] = x /\ s[j] = x => i = j

\* Appending: a value that is not there yet is there once.
LEMMA OnceAppended ==
  ASSUME NEW S, NEW s \in Seq(S), NEW e \in S, NEW x, Once(s, x)
  PROVE  /\ e # x => Once(Append(s, e), x) /\ (Contains(Append(s, e), x) <=> Contains(s, x))
         /\ e = x /\ ~Contains(s, x) => Once(Append(s, e), x) /\ Contains(Append(s, e), x)
<1> DEFINE t == Append(s, e)
<1>1. /\ Len(t) = Len(s) + 1 /\ Len(s) \in Nat
      /\ t[Len(s) + 1] = e /\ \A i \in 1 .. Len(s) : t[i] = s[i]
  OBVIOUS
<1>2. Contains(t, x) <=> Contains(s, x) \/ x = e
  BY Appended
<1> HIDE DEF t
<1>3. \A i \in 1 .. Len(t) : i \in 1 .. Len(s) \/ i = Len(s) + 1
  BY <1>1
<1>4. e # x => Once(t, x)
  BY <1>1, <1>3 DEF Once
<1>5. ~Contains(s, x) => Once(t, x)
  BY <1>1, <1>3 DEF Once, Contains
<1> QED
  BY <1>2, <1>4, <1>5 DEF t

\* Dropping the head: a value that was there once is gone when it was the head.
LEMMA OnceDropped ==
  ASSUME NEW S, NEW s \in Seq(S), s # <<>>, NEW x, Once(s, x)
  PROVE  /\ Once(Tail(s), x)
         /\ Head(s) = x => ~Contains(Tail(s), x)
         /\ Head(s) # x => (Contains(Tail(s), x) <=> Contains(s, x))
<1> DEFINE t == Tail(s)
<1>1. /\ t \in Seq(S) /\ Head(s) = s[1] /\ Len(s) \in Nat /\ Len(s) # 0
      /\ Len(t) = Len(s) - 1 /\ \A i \in 1 .. Len(t) : t[i] = s[i + 1]
  OBVIOUS
<1>0. Head(s) # x => (Contains(t, x) <=> Contains(s, x))
  BY Dropped
<1> HIDE DEF t
<1>2. 1 \in 1 .. Len(s) /\ \A i \in 1 .. Len(t) : i + 1 \in 1 .. Len(s) /\ i + 1 # 1
  BY <1>1
<1>3. Once(t, x)
  <2> SUFFICES ASSUME NEW i \in 1 .. Len(t), NEW j \in 1 .. Len(t), t[i] = x, t[j] = x PROVE i = j
    BY DEF Once
  <2>1. i + 1 = j + 1
    BY <1>1, <1>2 DEF Once
  <2> QED BY <1>1, <2>1
<1>4. Head(s) = x => ~Contains(t, x)
  BY <1>1, <1>2 DEF Once, Contains
<1> QED
  BY <1>0, <1>3, <1>4 DEF t

Events == Words \cup {NoEvent}
TouchRecord ==
  [untouch : Nat, threshold : Nat, tapped : BOOLEAN, since : Nat, long : BOOLEAN, value : Nat,
   changes : Nat, result : Events, seen : Seq(Words), untold : Events, wrong : BOOLEAN, late : BOOLEAN]

\* Unless the task was late: what is recognised and not told has its one command, in the
\* queue or in the hands of the task, and the result is what it was.
Awaited ==
  ~touch.late =>
    /\ ~touch.wrong
    /\ touch.untold # NoEvent => Unserved \/ ~obj.live
    /\ Unserved => touch.result = touch.untold
    /\ Once(obj.queue, "touch")
    /\ Held("run", "touch") => ~Contains(obj.queue, "touch")

TouchInv ==
  /\ touch \in TouchRecord /\ Len(obj.queue) <= CmdLen
  /\ Story(touch.since, touch.long, touch.seen, LongTap)
  /\ Awaited

\* The pad begins in its invariant.
LEMMA TouchBegins == TouchInit /\ ServiceInit => TouchInv
<1> SUFFICES ASSUME TouchInit, ServiceInit PROVE TouchInv
  OBVIOUS
<1>1. obj.queue = <<>> /\ task.pc = "none"
  BY DEF ServiceInit, NewObj
<1>2. touch \in TouchRecord
  BY DEF TouchInit, TouchRecord, Events
<1>3. /\ touch.since = 0 /\ touch.seen = <<>> /\ touch.untold = NoEvent /\ touch.result = NoEvent
      /\ ~touch.wrong
  BY DEF TouchInit
<1>4. Story(touch.since, touch.long, touch.seen, LongTap)
  BY <1>3 DEF Story
<1>5. Once(obj.queue, "touch") /\ Len(obj.queue) = 0
  BY <1>1 DEF Once
<1>6. Awaited
  BY <1>1, <1>3, <1>5 DEF Awaited, Held, At
<1> QED
  BY <1>2, <1>4, <1>5, <1>6, QueueAssumption DEF TouchInv

\* A step that sends no command but for p, and has the task take none.
Quiet(p) ==
  /\ obj'.live = obj.live
  /\ \/ obj'.queue = obj.queue
     \/ p \in board /\ Len(obj.queue) < CmdLen /\ obj'.queue = Append(obj.queue, p)
  /\ task' = task \/ task'.pc # "run"

\* The kinds of steps that are quiet.
LEMMA QuietKinds ==
  ASSUME ServiceInv, NEW p
  PROVE  /\ UNCHANGED service => Quiet(p)
         /\ p \in board /\ SendCmd(p) => Quiet(p)
         /\ UNCHANGED <<obj, task>> => Quiet(p)
         /\ \A timer, state : InitReturns(p, timer, state) => Quiet(p)
         /\ RunReturns => Quiet(p)
         /\ DestroyReturns(p) => Quiet(p)
<1> USE DEF ServiceInv, ServiceType
<1>1. UNCHANGED service => Quiet(p)
  BY DEF service, Quiet
<1>6. UNCHANGED <<obj, task>> => Quiet(p)
  BY DEF Quiet
<1>2. ASSUME p \in board, SendCmd(p) PROVE Quiet(p)
  BY <1>2 DEF SendCmd, Sent, Quiet
<1>3. ASSUME NEW timer, NEW state, InitReturns(p, timer, state) PROVE Quiet(p)
  BY <1>3 DEF InitReturns, Goes, Quiet
<1>4. ASSUME RunReturns PROVE Quiet(p)
  BY <1>4 DEF RunReturns, Goes, Quiet
<1>5. ASSUME DestroyReturns(p) PROVE Quiet(p)
  BY <1>5 DEF DestroyReturns, Goes, Quiet
<1> QED
  BY <1>1, <1>2, <1>3, <1>4, <1>5, <1>6

\* The pad keeps its invariant while the others take such steps.
LEMMA TouchFrame ==
  ASSUME ServiceInv, TouchInv, UNCHANGED <<board, touch>>, NEW p, p # "touch", Quiet(p), Apart(p)
  PROVE  TouchInv'
<1> USE DEF TouchInv
<1>1. touch' \in TouchRecord /\ Story(touch.since, touch.long, touch.seen, LongTap)'
  BY DEF Story
<1>2. obj.queue \in Seq(board)
  BY DEF ServiceInv, ServiceType
<1>3. Len(obj'.queue) <= CmdLen
  BY <1>2, QueueAssumption DEF Quiet
<1>4. ~touch.late => Once(obj'.queue, "touch")
                     /\ (Contains(obj'.queue, "touch") <=> Contains(obj.queue, "touch"))
  <2>1. CASE obj'.queue = obj.queue
    BY <2>1 DEF Awaited
  <2>2. CASE p \in board /\ obj'.queue = Append(obj.queue, p)
    <3>1. ~touch.late => Once(obj.queue, "touch")
      BY DEF Awaited
    <3>2. Once(obj.queue, "touch") => Once(Append(obj.queue, p), "touch")
                       /\ (Contains(Append(obj.queue, p), "touch") <=> Contains(obj.queue, "touch"))
      BY <1>2, <2>2, OnceAppended
    <3> QED BY <2>2, <3>1, <3>2
  <2> QED BY <2>1, <2>2 DEF Quiet
<1>5. Held("run", "touch")' <=> Held("run", "touch")
  <2>1. Held("run", "touch") => task' = task
    <3>1. Held("run", "touch") => task.pc = "run" /\ task.at = "touch" /\ "touch" \in board
      BY HeldIs DEF Held, At, Placed
    <3> QED BY <3>1 DEF Apart
  <2>2. Held("run", "touch")' => task' = task
    BY DEF Held, At, Quiet
  <2> QED BY <2>1, <2>2 DEF Held, At, Quiet
<1>6. Awaited'
  BY <1>4, <1>5 DEF Awaited, Unserved, Quiet
<1> QED
  BY <1>1, <1>3, <1>6

\* The records that touch_get_state goes through differ in what it measured only.
Measures(pad) ==
  /\ pad \in TouchRecord
  /\ pad.result = touch.result /\ pad.untold = touch.untold /\ pad.wrong = touch.wrong
  /\ pad.late = touch.late /\ Story(pad.since, pad.long, pad.seen, LongTap)

\* Calibrating touches nothing that is told.
LEMMA CalibratedIs ==
  ASSUME NEW pad, Measures(pad), NEW n \in Nat
  PROVE  Measures(Calibrated(pad, n))
<1> DEFINE t == (n * TapPercent) \div 100
           r == [pad EXCEPT !.untouch = n, !.threshold = t]
<1>1. t \in Nat
  <2>1. n * TapPercent \in Nat
    BY TouchAssumption
  <2> DEFINE m == n * TapPercent
  <2> HIDE DEF m
  <2>2. m \div 100 \in Nat
    BY <2>1 DEF m
  <2> QED BY <2>2 DEF m
<1> HIDE DEF t
<1>2. r \in TouchRecord /\ r.result = pad.result /\ r.untold = pad.untold /\ r.wrong = pad.wrong
      /\ r.late = pad.late /\ r.since = pad.since /\ r.long = pad.long /\ r.seen = pad.seen
  BY <1>1 DEF Measures, TouchRecord
<1>3. Calibrated(pad, n) = r
  BY DEF Calibrated, t
<1> HIDE DEF r
<1> QED
  BY <1>2, <1>3 DEF Measures

\* Nor does measuring.
LEMMA MeasuredIs ==
  ASSUME TouchInv, NEW v \in Readings, NEW due \in BOOLEAN
  PROVE  Measures(Measured(v, due))
<1>0. v \in Nat
  BY TouchAssumption
<1> DEFINE pad == IF touch.untouch = 0 THEN Calibrated(touch, v) ELSE touch
           taps == IF pad.tapped THEN v <= pad.threshold ELSE v < pad.threshold
           read == [pad EXCEPT !.tapped = taps, !.value = v]
           mean == (read.untouch + v) \div 2
<1>1. Measures(pad)
  <2>1. Measures(touch)
    BY DEF TouchInv, Measures
  <2>2. Measures(Calibrated(touch, v))
    BY <1>0, <2>1, CalibratedIs
  <2> QED BY <2>1, <2>2
<1>2. Measured(v, due) = IF due /\ ~taps THEN Calibrated(read, mean) ELSE read
  BY DEF Measured
<1> HIDE DEF pad
<1>3. taps \in BOOLEAN
  <2>1. CASE pad.tapped
    BY <2>1
  <2>2. CASE ~pad.tapped
    BY <2>2
  <2> QED BY <2>1, <2>2
<1> HIDE DEF taps
<1>4. read \in TouchRecord /\ read.result = pad.result /\ read.untold = pad.untold /\ read.wrong = pad.wrong
      /\ read.late = pad.late /\ read.since = pad.since /\ read.long = pad.long /\ read.seen = pad.seen
  BY <1>0, <1>1, <1>3 DEF Measures, TouchRecord
<1> HIDE DEF read
<1>5. Measures(read)
  BY <1>1, <1>4 DEF Measures
<1>6. mean \in Nat
  <2>1. read.untouch \in Nat
    BY <1>4 DEF TouchRecord
  <2> QED BY <1>0, <2>1
<1> HIDE DEF mean
<1>7. Measures(Calibrated(read, mean))
  BY <1>5, <1>6, CalibratedIs
<1> QED
  BY <1>2, <1>5, <1>7

\* touch_get_state answers with one of its events.
LEMMA StatusIs ==
  ASSUME NEW since, NEW tapped, NEW long, NEW longer, NEW status,
         status = CASE since = 0 /\ tapped -> "press"
                    [] since > 0 /\ ~tapped /\ longer -> "long release"
                    [] since > 0 /\ ~tapped /\ ~longer -> "release"
                    [] since > 0 /\ tapped /\ ~long /\ longer -> "long press"
                    [] OTHER -> "unchange",
         since \in Nat
  PROVE  /\ status \in {"press", "long release", "release", "long press", "unchange"}
         /\ status \in {"release", "long release"} =>
              since # 0 /\ (status = "long release" => longer) /\ (status = "release" => ~longer)
         /\ status = "long press" => since # 0 /\ ~long /\ longer
<1>1. CASE since = 0
  BY <1>1
<1>2. CASE since # 0
  <2>1. since > 0
    BY ONLY <1>2, since \in Nat
  <2>2. CASE ~tapped
    BY <1>2, <2>1, <2>2
  <2>3. CASE tapped
    BY <1>2, <2>1, <2>3
  <2> QED BY <2>2, <2>3
<1> QED
  BY <1>1, <1>2

\* What is recognised goes on with the story.
LEMMA RecognisedIs ==
  ASSUME NEW pad, Measures(pad), NEW status, status = TouchStatus(pad)
  PROVE  status \in Events /\ Measures(Recognised(pad, status))
<1> USE TouchAssumption
<1> DEFINE longer == pad.since - 1 > LongTap
<1>1. pad.since \in Nat /\ pad.long \in BOOLEAN /\ pad.seen \in Seq(Words) /\ pad.tapped \in BOOLEAN
      /\ Story(pad.since, pad.long, pad.seen, LongTap)
  BY DEF Measures, TouchRecord
<1>9. /\ status \in {"press", "long release", "release", "long press", "unchange"}
      /\ status \in {"release", "long release"} =>
           pad.since # 0 /\ (status = "long release" => longer) /\ (status = "release" => ~longer)
      /\ status = "long press" => pad.since # 0 /\ ~pad.long /\ longer
  <2>1. status = CASE pad.since = 0 /\ pad.tapped -> "press"
                    [] pad.since > 0 /\ ~pad.tapped /\ longer -> "long release"
                    [] pad.since > 0 /\ ~pad.tapped /\ ~longer -> "release"
                    [] pad.since > 0 /\ pad.tapped /\ ~pad.long /\ longer -> "long press"
                    [] OTHER -> "unchange"
    BY DEF TouchStatus, NoEvent
  <2> HIDE DEF longer
  <2> QED BY <1>1, <2>1, StatusIs
<1>2. \A w \in Words : Append(pad.seen, w) \in Seq(Words)
  BY <1>1
<1>3. <<"press">> \in Seq(Words)
  BY DEF Words
<1>4. CASE status = "press"
  <2> DEFINE t == <<"press">>
             r == [pad EXCEPT !.since = 1, !.long = FALSE, !.seen = t]
  <2>1. Recognised(pad, status) = r
    BY <1>4 DEF Recognised
  <2>2. Story(1, FALSE, t, LongTap)
    BY StoryBegins
  <2>3. t \in Seq(Words)
    BY <1>3
  <2> HIDE DEF t
  <2>4. Measures(r)
    BY <2>2, <2>3 DEF Measures, TouchRecord
  <2> QED BY <1>4, <2>1, <2>4 DEF Events, Words
<1>5. CASE status \in {"release", "long release"}
  <2> DEFINE t == Append(pad.seen, status)
             r == [pad EXCEPT !.since = 0, !.long = FALSE, !.seen = t]
  <2>1. Recognised(pad, status) = r
    BY <1>5 DEF Recognised
  <2>2. pad.since # 0 /\ (status = "long release" => longer) /\ (status = "release" => ~longer)
    BY <1>5, <1>9
  <2>3. Story(0, FALSE, t, LongTap)
    BY <1>1, <1>5, <2>2, StoryGoesOn
  <2>4. t \in Seq(Words)
    BY <1>2, <1>5 DEF Words
  <2> HIDE DEF t
  <2>5. Measures(r)
    BY <2>3, <2>4 DEF Measures, TouchRecord
  <2> QED BY <1>5, <2>1, <2>5 DEF Events, Words
<1>6. CASE status = "long press"
  <2> DEFINE t == Append(pad.seen, "long press")
             r == [pad EXCEPT !.long = TRUE, !.seen = t]
  <2>1. Recognised(pad, status) = r
    BY <1>6 DEF Recognised
  <2>2. pad.since # 0 /\ ~pad.long /\ longer
    BY <1>6, <1>9
  <2>3. Story(pad.since, TRUE, t, LongTap)
    BY <1>1, <2>2, StoryGoesOn
  <2>4. t \in Seq(Words)
    BY <1>2 DEF Words
  <2> HIDE DEF t
  <2>5. Measures(r)
    BY <2>3, <2>4 DEF Measures, TouchRecord
  <2> QED BY <1>6, <2>1, <2>5 DEF Events, Words
<1>7. CASE status \notin {"press", "release", "long release", "long press"}
  <2>1. Recognised(pad, status) = pad
    BY <1>7 DEF Recognised
  <2>2. status = NoEvent
    BY <1>7, <1>9 DEF NoEvent
  <2> QED BY <2>1, <2>2 DEF Events
<1> QED
  BY <1>4, <1>5, <1>6, <1>7

\* What esp_touch_read leaves in the result.
LEMMA ReadIs ==
  ASSUME TouchInv, NEW pad, NEW status \in Events, Measures(Recognised(pad, status)), Read(pad, status)
  PROVE  /\ touch' \in TouchRecord /\ Story(touch'.since, touch'.long, touch'.seen, LongTap)
         /\ touch'.result = status
         /\ touch'.wrong = (touch.wrong \/ (touch.untold # NoEvent /\ status # NoEvent))
         /\ touch'.untold = IF status = NoEvent THEN touch.untold ELSE status
         /\ touch'.late = (touch.late \/ Unserved \/ (status # NoEvent /\ Len(obj.queue) = CmdLen))
<1> DEFINE r == Recognised(pad, status)
           wrong == r.wrong \/ (touch.untold # NoEvent /\ status # NoEvent)
           untold == IF status = NoEvent THEN r.untold ELSE status
           late == r.late \/ Unserved \/ (status # NoEvent /\ Len(obj.queue) = CmdLen)
<1>1. touch' = [r EXCEPT !.result = status, !.wrong = wrong, !.untold = untold, !.late = late]
  BY DEF Read
<1>2. r \in TouchRecord /\ r.untold = touch.untold /\ r.wrong = touch.wrong /\ r.late = touch.late
      /\ Story(r.since, r.long, r.seen, LongTap)
  BY DEF Measures
<1>3. r.wrong \in BOOLEAN /\ r.late \in BOOLEAN /\ r.untold \in Events
  <2> HIDE DEF r
  <2> QED BY <1>2 DEF TouchRecord
<1>4. wrong \in BOOLEAN /\ late \in BOOLEAN /\ untold \in Events
  <2> HIDE DEF r
  <2> QED BY <1>3
<1>5. /\ wrong = (touch.wrong \/ (touch.untold # NoEvent /\ status # NoEvent))
      /\ untold = IF status = NoEvent THEN touch.untold ELSE status
      /\ late = (touch.late \/ Unserved \/ (status # NoEvent /\ Len(obj.queue) = CmdLen))
  BY <1>2
<1> HIDE DEF wrong, untold, late, r
<1>6. /\ touch' \in TouchRecord /\ touch'.result = status /\ touch'.wrong = wrong /\ touch'.untold = untold
      /\ touch'.late = late /\ touch'.since = r.since /\ touch'.long = r.long /\ touch'.seen = r.seen
  BY <1>1, <1>2, <1>4 DEF TouchRecord
<1> QED
  BY <1>2, <1>5, <1>6

\* The timer reads the pad: what it recognises while nothing waits to be told has its command.
LEMMA ReadStep ==
  ASSUME ServiceInv, TouchInv, UNCHANGED board, "touch" \in board, obj.live,
         NEW pad, NEW status \in Events, Measures(Recognised(pad, status)), Read(pad, status),
         IF status = NoEvent THEN UNCHANGED service ELSE SendCmd("touch")
  PROVE  TouchInv'
<1> USE DEF TouchInv
<1>1. /\ touch' \in TouchRecord /\ Story(touch'.since, touch'.long, touch'.seen, LongTap)
      /\ touch'.result = status
      /\ touch'.wrong = (touch.wrong \/ (touch.untold # NoEvent /\ status # NoEvent))
      /\ touch'.untold = IF status = NoEvent THEN touch.untold ELSE status
      /\ touch'.late = (touch.late \/ Unserved \/ (status # NoEvent /\ Len(obj.queue) = CmdLen))
  BY ReadIs
<1>2. obj.queue \in Seq(board) /\ Len(obj.queue) \in Nat
  BY DEF ServiceInv, ServiceType
<1>3. task' = task /\ obj'.live = obj.live
  BY SendStep
<1>4. CASE status = NoEvent
  <2>1. obj' = obj
    BY <1>4 DEF service
  <2>2. Awaited'
    BY <1>1, <1>3, <1>4, <2>1 DEF Awaited, Unserved, Held, At
  <2> QED BY <1>1, <2>1, <2>2
<1>5. CASE status # NoEvent
  <2>1. obj' = IF Len(obj.queue) < CmdLen THEN [obj EXCEPT !.queue = Append(obj.queue, "touch")] ELSE obj
    BY <1>5 DEF SendCmd, Sent
  <2>2. CASE Len(obj.queue) < CmdLen
    <3>1. obj'.queue = Append(obj.queue, "touch")
      BY <2>1, <2>2 DEF ServiceInv, ServiceType
    <3>2. Len(obj'.queue) <= CmdLen
      BY <1>2, <2>2, <3>1, QueueAssumption
    <3>3. ASSUME ~touch'.late PROVE Awaited'
      <4>1. ~touch.late /\ ~Unserved
        BY <1>1, <3>3
      <4>2. touch.untold = NoEvent /\ ~touch.wrong /\ Once(obj.queue, "touch")
        BY <4>1 DEF Awaited
      <4>3. ~Contains(obj.queue, "touch") /\ ~Held("run", "touch")
        BY <4>1 DEF Unserved
      <4>4. Once(obj'.queue, "touch") /\ Contains(obj'.queue, "touch")
        BY <1>2, <3>1, <4>2, <4>3, OnceAppended
      <4>5. ~Held("run", "touch")'
        BY <1>3, <4>3 DEF Held, At
      <4> QED BY <1>1, <1>5, <4>2, <4>4, <4>5 DEF Awaited, Unserved
    <3> QED BY <1>1, <3>2, <3>3 DEF Awaited
  <2>3. CASE ~(Len(obj.queue) < CmdLen)
    <3>1. obj' = obj /\ Len(obj.queue) = CmdLen
      BY <1>2, <2>1, <2>3, QueueAssumption
    <3> QED BY <1>1, <1>5, <3>1 DEF Awaited
  <2> QED BY <2>2, <2>3
<1> QED
  BY <1>4, <1>5

\* The timer of the pad, with a new reading or in vain.
LEMMA TouchTimerStep ==
  ASSUME ServiceInv, TouchInv, UNCHANGED board, TouchTimer \/ TouchTimerInVain
  PROVE  ServiceInv' /\ TouchInv' /\ Calling /\ \A x : Apart(x)
<1>1. "touch" \in board /\ obj.live
  <2>1. "touch" \in board /\ Placed("touch")
    BY DEF TouchTimer, TouchTimerInVain, Fires, ServiceInv, Kept
  <2> QED BY <2>1 DEF Placed, ServiceInv, Tasked
<1>2. CASE TouchTimer
  <2>1. PICK v \in Readings, due \in BOOLEAN :
       LET pad    == Measured(v, due)
           aged   == [pad EXCEPT !.since = IF @ = 0 THEN 0 ELSE IF @ > LongTap + 1 THEN @ ELSE @ + 1]
           status == TouchStatus(aged)
       IN  /\ v # touch.value => touch.changes < MaxReadings
           /\ Read([aged EXCEPT !.changes = @ + (IF v # touch.value THEN 1 ELSE 0)], status)
           /\ IF status = NoEvent THEN UNCHANGED service ELSE SendCmd("touch")
    BY <1>2 DEF TouchTimer
  <2> DEFINE pad == Measured(v, due)
             since == IF pad.since = 0 THEN 0 ELSE IF pad.since > LongTap + 1 THEN pad.since ELSE pad.since + 1
             aged == [pad EXCEPT !.since = since]
             status == TouchStatus(aged)
             changes == aged.changes + (IF v # touch.value THEN 1 ELSE 0)
             last == [aged EXCEPT !.changes = changes]
  <2>2. /\ Read(last, status)
        /\ IF status = NoEvent THEN UNCHANGED service ELSE SendCmd("touch")
    BY <2>1
  <2>3. Measures(pad)
    BY MeasuredIs
  <2> HIDE DEF pad
  <2>4. pad \in TouchRecord /\ pad.since \in Nat /\ pad.long \in BOOLEAN
        /\ Story(pad.since, pad.long, pad.seen, LongTap)
    BY <2>3 DEF Measures, TouchRecord
  <2>5. since \in Nat
    BY <2>4, TouchAssumption
  <2>6. Story(since, pad.long, pad.seen, LongTap)
    <3>1. CASE pad.since = 0
      BY <2>4, <3>1
    <3>2. CASE pad.since # 0 /\ pad.since > LongTap + 1
      BY <2>4, <3>2
    <3>3. CASE pad.since # 0 /\ ~(pad.since > LongTap + 1)
      BY <2>4, <3>3, StoryGoesOn, TouchAssumption
    <3> QED BY <3>1, <3>2, <3>3
  <2> HIDE DEF since
  <2>7. /\ aged \in TouchRecord /\ aged.since = since /\ aged.long = pad.long /\ aged.seen = pad.seen
        /\ aged.tapped = pad.tapped /\ aged.result = pad.result /\ aged.untold = pad.untold
        /\ aged.wrong = pad.wrong /\ aged.late = pad.late
    BY <2>4, <2>5 DEF TouchRecord
  <2> HIDE DEF aged
  <2>8. changes \in Nat
    <3>1. aged.changes \in Nat
      BY <2>7 DEF TouchRecord
    <3> QED BY <3>1
  <2> HIDE DEF changes
  <2>9. /\ last \in TouchRecord /\ last.since = aged.since /\ last.long = aged.long /\ last.seen = aged.seen
        /\ last.tapped = aged.tapped /\ last.result = aged.result /\ last.untold = aged.untold
        /\ last.wrong = aged.wrong /\ last.late = aged.late
    BY <2>7, <2>8 DEF TouchRecord
  <2> HIDE DEF last
  <2>10. status = TouchStatus(last)
    BY <2>9 DEF TouchStatus
  <2>11. Measures(last)
    BY <2>3, <2>6, <2>7, <2>9 DEF Measures
  <2>12. status \in Events /\ Measures(Recognised(last, status))
    BY <2>10, <2>11, RecognisedIs
  <2> HIDE DEF status
  <2>13. TouchInv'
    BY <1>1, <2>2, <2>12, ReadStep
  <2>14. UNCHANGED service \/ \E p \in board : SendCmd(p)
    BY <1>1, <2>2
  <2> QED BY <2>13, <2>14, SendApart
<1>3. CASE TouchTimerInVain
  <2>1. Read(touch, NoEvent) /\ UNCHANGED service
    BY <1>3 DEF TouchTimerInVain
  <2>2. Recognised(touch, NoEvent) = touch /\ NoEvent \in Events
    BY DEF Recognised, NoEvent, Events
  <2>3. Measures(touch)
    BY DEF TouchInv, Measures
  <2>4. TouchInv'
    BY <1>1, <2>1, <2>2, <2>3, ReadStep
  <2> QED BY <2>1, <2>4, SendApart
<1> QED
  BY <1>2, <1>3

\* Every step of the pad.
LEMMA TouchStep ==
  ASSUME ServiceInv, TouchInv, UNCHANGED board, TouchNext
  PROVE  ServiceInv' /\ TouchInv' /\ Calling /\ Apart("touch")
<1>1. CASE TouchTimer \/ TouchTimerInVain
  BY <1>1, TouchTimerStep
<1>2. CASE TouchStarts
  <2>1. Held("init", "touch") /\ InitReturns("touch", TRUE, "RUNNING") /\ UNCHANGED touch
    BY <1>2 DEF TouchStarts
  <2>2. "touch" \in board
    BY <2>1, HeldIs DEF Held, At, Placed
  <2>3. ServiceInv' /\ Calling /\ Apart("touch")
    BY <2>1, <2>2, InitReturnsStep
  <2>4. obj' = obj /\ ~Held("run", "touch") /\ ~Held("run", "touch")'
    BY <2>1, GoesIs DEF InitReturns, Held, At, ServiceInv
  <2>5. TouchInv'
    BY <2>1, <2>4 DEF TouchInv, Story, Awaited, Unserved
  <2> QED BY <2>3, <2>5
<1>3. CASE TouchRun
  <2>1. Held("run", "touch") /\ RunReturns
        /\ touch' = [touch EXCEPT !.wrong = @ \/ touch.result # touch.untold, !.untold = NoEvent]
    BY <1>3 DEF TouchRun
  <2>2. "touch" \in board
    BY <2>1, HeldIs DEF Held, At, Placed
  <2>3. ServiceInv' /\ Calling /\ Apart("touch")
    BY <2>1, <2>2, RunReturnsStep
  <2>4. obj' = obj /\ ~Held("run", "touch")'
    BY <2>1, GoesIs DEF RunReturns, Held, At, ServiceInv
  <2> DEFINE wrong == touch.wrong \/ touch.result # touch.untold
  <2>5. wrong \in BOOLEAN /\ NoEvent \in Events
    BY DEF Events
  <2> HIDE DEF wrong
  <2>6. /\ touch' \in TouchRecord /\ touch'.wrong = wrong /\ touch'.untold = NoEvent
        /\ touch'.late = touch.late /\ touch'.since = touch.since /\ touch'.long = touch.long
        /\ touch'.seen = touch.seen
    <3>1. touch' = [touch EXCEPT !.wrong = wrong, !.untold = NoEvent] /\ touch \in TouchRecord
      BY <2>1 DEF TouchInv, wrong
    <3> QED BY <2>5, <3>1 DEF TouchRecord
  <2>7. Awaited'
    <3>1. ASSUME ~touch.late
          PROVE  ~wrong /\ Once(obj.queue, "touch") /\ ~Contains(obj.queue, "touch")
      <4>1. Unserved
        BY <2>1 DEF Unserved
      <4> QED BY <2>1, <3>1, <4>1 DEF TouchInv, Awaited, wrong
    <3> QED BY <2>4, <2>6, <3>1 DEF Awaited, Unserved
  <2> QED BY <2>3, <2>4, <2>6, <2>7 DEF TouchInv
<1>4. CASE TouchDestroy
  <2>1. Held("destroy", "touch") /\ DestroyReturns("touch") /\ UNCHANGED touch
    BY <1>4 DEF TouchDestroy
  <2>2. "touch" \in board /\ ~periph["touch"].timer
    BY <2>1, HeldIs DEF Held, At
  <2>3. ServiceInv' /\ Calling /\ Apart("touch")
    BY <2>1, <2>2, DestroyReturnsStep
  <2>4. obj'.queue = obj.queue /\ obj'.live = obj.live /\ ~Held("run", "touch") /\ ~Held("run", "touch")'
    BY <2>1, GoesIs DEF DestroyReturns, Held, At, ServiceInv, ServiceType
  <2>5. TouchInv'
    BY <2>1, <2>4 DEF TouchInv, Story, Awaited, Unserved
  <2> QED BY <2>3, <2>5
<1> QED
  BY <1>1, <1>2, <1>3, <1>4 DEF TouchNext, TouchServe

\* The service's own steps: a command for the pad is taken to its run function, or the task
\* is late.
LEMMA TouchOwn ==
  ASSUME ServiceInv, TouchInv, UNCHANGED board, ServiceNext, TouchSkipped
  PROVE  TouchInv'
<1> USE DEF TouchInv
<1> DEFINE late == touch.late \/ (/\ At("waits") /\ obj.queue # <<>> /\ Head(obj.queue) = "touch"
                                  /\ ~Serves("touch"))
<1>1. /\ touch' \in TouchRecord /\ touch'.late = late /\ touch'.since = touch.since
      /\ touch'.long = touch.long /\ touch'.seen = touch.seen /\ touch'.untold = touch.untold
      /\ touch'.result = touch.result /\ touch'.wrong = touch.wrong
  <2>1. touch' = [touch EXCEPT !.late = late]
    BY DEF TouchSkipped
  <2>2. late \in BOOLEAN
    OBVIOUS
  <2> HIDE DEF late
  <2> QED BY <2>1, <2>2 DEF TouchRecord
<1>2. obj.queue \in Seq(board)
  BY DEF ServiceInv, ServiceType
<1>3. CASE Takes
  <2> DEFINE q == Head(obj.queue)
  <2>1. /\ At("waits") /\ obj.queue # <<>> /\ obj' = [obj EXCEPT !.queue = Tail(obj.queue)]
        /\ task' = IF Serves(q) THEN [pc |-> "run", at |-> q] ELSE [task EXCEPT !.pc = "loop"]
    BY <1>3 DEF Takes
  <2>2. obj'.queue = Tail(obj.queue) /\ obj'.live = obj.live /\ obj.live
    BY <2>1 DEF ServiceInv, ServiceType, At
  <2>3. Len(obj'.queue) <= CmdLen
    <3>1. Len(Tail(obj.queue)) = Len(obj.queue) - 1 /\ Len(obj.queue) \in Nat
      BY <1>2, <2>1, Dropped
    <3> QED BY <2>2, <3>1, QueueAssumption
  <2>4. ASSUME ~late PROVE Awaited'
    <3>1. ~touch.late /\ Once(obj.queue, "touch") /\ (q = "touch" => Serves("touch"))
      BY <2>1, <2>4 DEF Awaited
    <3>2. /\ Once(obj'.queue, "touch")
          /\ q = "touch" => ~Contains(obj'.queue, "touch") /\ Contains(obj.queue, "touch")
          /\ q # "touch" => (Contains(obj'.queue, "touch") <=> Contains(obj.queue, "touch"))
      BY <1>2, <2>1, <2>2, <3>1, OnceDropped, Dropped
    <3>3. ~Held("run", "touch")
      BY <2>1 DEF At, Held
    <3>4. CASE q = "touch"
      <4>1. task'.pc = "run" /\ task'.at = "touch"
        BY <2>1, <3>1, <3>4
      <4>2. Unserved /\ Unserved' /\ Held("run", "touch")'
        BY <2>2, <3>2, <3>4, <4>1 DEF Unserved, Held, At
      <4> QED BY <1>1, <3>1, <3>2, <3>4, <4>2 DEF Awaited
    <3>5. CASE q # "touch"
      <4>1. ~Held("run", "touch")'
        <5>1. task'.at = q \/ task'.pc = "loop"
          BY <2>1 DEF ServiceInv, ServiceType
        <5> QED BY <3>5, <5>1 DEF Held, At
      <4>2. Unserved' <=> Unserved
        BY <3>2, <3>3, <3>5, <4>1 DEF Unserved
      <4> QED BY <1>1, <2>2, <3>1, <3>2, <4>1, <4>2 DEF Awaited
    <3> QED BY <3>4, <3>5
  <2> QED BY <1>1, <2>3, <2>4 DEF Awaited
<1>4. CASE DestroyWaits
  <2>1. obj'.queue = <<>> /\ obj'.live = FALSE
    BY <1>4 DEF DestroyWaits, Freed, NewObj
  <2>2. Len(obj'.queue) <= CmdLen /\ Once(obj'.queue, "touch")
    BY <2>1, QueueAssumption DEF Once
  <2>3. ~Unserved'
    BY <2>1 DEF Unserved, Held, At, Contains
  <2>4. ~late => ~touch.wrong
    BY DEF Awaited
  <2>5. Awaited'
    BY <1>1, <2>1, <2>2, <2>3, <2>4 DEF Awaited, Unserved
  <2> QED BY <1>1, <2>2, <2>5
<1>5. CASE ~Takes /\ ~DestroyWaits
  <2>1. obj'.queue = obj.queue /\ obj'.live = obj.live /\ (task' = task \/ task'.pc # "run")
        /\ (task' = task \/ task.pc # "run")
    <3>1. CASE \E p \in board : Start(p)
      BY <3>1 DEF Start, Spawned, Calls, At, Goes, ServiceInv, ServiceType
    <3>2. CASE \E p \in board : Stop(p)
      BY <3>2 DEF Stop, Spawned, Calls, At, Goes, ServiceInv, ServiceType
    <3>3. CASE StopAll
      BY <3>3 DEF StopAll, Spawned, Calls, At, Goes, ServiceInv, ServiceType
    <3>4. CASE Destroy
      BY <3>4 DEF Destroy, Spawned, Calls, At, Goes, ServiceInv, ServiceType
    <3>5. CASE Insert
      BY <3>5 DEF Insert, Spawned, Calls, At, Goes, ServiceInv, ServiceType
    <3>6. CASE Enable
      BY <3>6 DEF Enable, Spawned, Calls, At, Goes, ServiceInv, ServiceType
    <3>7. CASE Spawn
      <4>1. obj.live /\ caller.pc = "spawn" /\ ~obj.run
        BY <3>7 DEF Spawn, ServiceInv, Tasked
      <4>2. task.pc = "none"
        BY <4>1 DEF ServiceInv, Tasked
      <4>3. task' = task \/ task'.pc = "boots"
        BY <3>7 DEF Spawn, Goes, ServiceInv, ServiceType
      <4>4. obj'.queue = obj.queue /\ obj'.live = obj.live
        BY <3>7 DEF Spawn, ServiceInv, ServiceType
      <4> QED BY <4>2, <4>3, <4>4
    <3>8. CASE SpawnNot
      BY <3>8 DEF SpawnNot, Spawned, Calls, At, Goes, ServiceInv, ServiceType
    <3>9. CASE Boots
      BY <3>9 DEF Boots, Spawned, Calls, At, Goes, ServiceInv, ServiceType
    <3>10. CASE Loops
      BY <3>10 DEF Loops, Spawned, Calls, At, Goes, ServiceInv, ServiceType
    <3>11. CASE Scans
      <4>1. task.pc = "scan" /\ obj' = obj
        BY <3>11 DEF Scans, At
      <4>2. task'.pc \in {"waits", "init"}
        <5>1. task' = [task EXCEPT !.pc = "waits"]
              \/ task' = [pc |-> "init", at |-> obj.list[CHOOSE i \in Uninitialised : \A j \in Uninitialised : i <= j]]
          BY <3>11 DEF Scans, Goes
        <5> QED BY <5>1 DEF ServiceInv, ServiceType
      <4> QED BY <4>1, <4>2
    <3>12. CASE TimesOut
      BY <3>12 DEF TimesOut, Spawned, Calls, At, Goes, ServiceInv, ServiceType
    <3>13. CASE Closes
      BY <3>13 DEF Closes, Spawned, Calls, At, Goes, ServiceInv, ServiceType
    <3>14. CASE Ends
      BY <3>14 DEF Ends, Spawned, Calls, At, Goes, ServiceInv, ServiceType
    <3> QED BY <1>5, <3>1, <3>2, <3>3, <3>4, <3>5, <3>6, <3>7, <3>8, <3>9, <3>10, <3>11, <3>12, <3>13, <3>14 DEF ServiceNext, Proceed, Serve
  <2>2. Held("run", "touch")' <=> Held("run", "touch")
    BY <2>1 DEF Held, At
  <2>3. Awaited'
    BY <1>1, <2>1, <2>2 DEF Awaited, Unserved
  <2> QED BY <1>1, <2>1, <2>3
<1> QED
  BY <1>3, <1>4, <1>5

-----------------------------------------------------------------------------
(* The card and the console.                                               *)

SdCardType ==
  sdcard \in [present : BOOLEAN, fs : BOOLEAN, mounted : BOOLEAN, isr : BOOLEAN,
              will : {"look", "mount", "unmount", "return"}, flips : Nat, fails : Nat]

\* The interrupt is installed while the card is in its place; what the task is about to
\* do with it, it does in init or in run.
SdCardInv ==
  /\ SdCardType
  /\ sdcard.isr => Placed("sdcard")
  /\ sdcard.will # "look" => task.pc \in {"init", "run"} /\ task.at = "sdcard"

\* The card begins in its invariant.
LEMMA SdCardBegins == SdCardInit => SdCardInv
<1> SUFFICES ASSUME SdCardInit PROVE SdCardInv
  OBVIOUS
<1>1. PICK present \in BOOLEAN :
        sdcard = [present |-> present, fs |-> FALSE, mounted |-> FALSE, isr |-> FALSE,
                  will |-> "look", flips |-> 0, fails |-> 0]
  BY DEF SdCardInit
<1> QED
  BY <1>1 DEF SdCardInv, SdCardType

\* The card keeps its invariant while the others take steps.
LEMMA SdCardFrame ==
  ASSUME ServiceInv, SdCardInv, UNCHANGED <<board, sdcard>>, NEW x, x # "sdcard", Apart(x)
  PROVE  SdCardInv'
<1>1. SdCardType'
  BY DEF SdCardInv, SdCardType
<1>2. sdcard.isr => Placed("sdcard")'
  BY DEF SdCardInv, Apart, Placed
<1>3. sdcard.will # "look" => task' = task
  <2>1. sdcard.will # "look" => task.pc \in {"init", "run"} /\ task.at = "sdcard" /\ "sdcard" \in board
    BY HeldIs DEF SdCardInv, Placed
  <2> QED BY <2>1 DEF Apart
<1> QED
  BY <1>1, <1>2, <1>3 DEF SdCardInv

\* What the task does with the card on its way.
LEMMA SdCardWorks ==
  ASSUME SdCardInv, SdCardLooks \/ SdCardMounts \/ SdCardUnmounts
  PROVE  /\ SdCardType' /\ UNCHANGED service
         /\ sdcard'.isr => sdcard.isr \/ Held("init", "sdcard")
         /\ sdcard'.will # "look" => sdcard.will # "look" \/ InTask
<1> USE DEF SdCardInv
<1>1. CASE SdCardLooks
  <2> DEFINE isr == sdcard.isr \/ At("init")
             will == IF sdcard.present /\ ~sdcard.mounted THEN "mount"
                     ELSE IF ~sdcard.present /\ sdcard.mounted /\ At("run") THEN "unmount"
                     ELSE "return"
  <2>1. sdcard' = [sdcard EXCEPT !.isr = isr, !.will = will] /\ UNCHANGED service /\ InTask
    BY <1>1 DEF SdCardLooks
  <2>2. isr \in BOOLEAN /\ will \in {"mount", "unmount", "return"}
    BY DEF SdCardType
  <2>3. isr => sdcard.isr \/ Held("init", "sdcard")
    BY <2>1 DEF InTask, Held, At
  <2> HIDE DEF isr, will
  <2>4. SdCardType' /\ sdcard'.isr = isr
    BY <2>1, <2>2 DEF SdCardType
  <2> QED BY <2>1, <2>3, <2>4
<1>2. CASE SdCardMounts
  <2>1. PICK ok \in BOOLEAN : sdcard' = IF sdcard.fs THEN [sdcard EXCEPT !.will = "return"]
                    ELSE [sdcard EXCEPT !.fs = ok, !.mounted = ok, !.will = "return",
                                        !.fails = @ + (IF ~ok /\ sdcard.present THEN 1 ELSE 0)]
    BY <1>2 DEF SdCardMounts
  <2>2. sdcard.will = "mount" /\ UNCHANGED service
    BY <1>2 DEF SdCardMounts
  <2>3. SdCardType' /\ sdcard'.isr = sdcard.isr
    <3>1. CASE sdcard.fs
      BY <2>1, <3>1 DEF SdCardType
    <3>2. CASE ~sdcard.fs
      <4> DEFINE n == sdcard.fails + (IF ~ok /\ sdcard.present THEN 1 ELSE 0)
      <4>1. n \in Nat
        <5>1. sdcard.fails \in Nat
          BY DEF SdCardType
        <5> QED BY <5>1
      <4>2. sdcard' = [sdcard EXCEPT !.fs = ok, !.mounted = ok, !.will = "return", !.fails = n]
        BY <2>1, <3>2
      <4> HIDE DEF n
      <4> QED BY <4>1, <4>2 DEF SdCardType
    <3> QED BY <3>1, <3>2
  <2> QED BY <2>2, <2>3
<1>3. CASE SdCardUnmounts
  BY <1>3 DEF SdCardUnmounts, SdCardType
<1> QED
  BY <1>1, <1>2, <1>3

\* Every step of the card.
LEMMA SdCardStep ==
  ASSUME ServiceInv, SdCardInv, UNCHANGED board, SdCardNext
  PROVE  ServiceInv' /\ SdCardInv' /\ Calling /\ Apart("sdcard")
<1> USE DEF SdCardInv
<1>1. CASE SdCardLooks \/ SdCardMounts \/ SdCardUnmounts
  <2>1. /\ SdCardType' /\ UNCHANGED service
        /\ sdcard'.isr => sdcard.isr \/ Held("init", "sdcard")
        /\ sdcard'.will # "look" => sdcard.will # "look" \/ InTask
    BY <1>1, SdCardWorks
  <2>2. ServiceInv' /\ Calling /\ Apart("sdcard")
    BY <2>1, SendApart
  <2>3. Placed("sdcard") => Placed("sdcard")'
    BY <2>1, SendStep
  <2>4. Held("init", "sdcard") => Placed("sdcard")
    BY HeldIs DEF Held, At
  <2>5. InTask => task.pc \in {"init", "run"} /\ task.at = "sdcard"
    BY DEF InTask, Held, At
  <2>6. task' = task
    BY <2>1 DEF service
  <2> QED BY <2>1, <2>2, <2>3, <2>4, <2>5, <2>6
<1>2. CASE SdCardReturns
  <2>1. /\ task.pc \in {"init", "run"} /\ task.at = "sdcard" /\ obj.live
        /\ IF At("init") THEN InitReturns("sdcard", TRUE, "RUNNING") ELSE RunReturns
        /\ sdcard' = [sdcard EXCEPT !.will = "look"]
    BY <1>2 DEF SdCardReturns, ServiceInv, Tasked, Resting
  <2>2. "sdcard" \in board
    BY <2>1, HeldIs DEF Placed
  <2>3. SdCardType' /\ sdcard'.isr = sdcard.isr /\ sdcard'.will = "look"
    BY <2>1 DEF SdCardType
  <2>4. CASE task.pc = "init"
    <3>1. Held("init", "sdcard") /\ InitReturns("sdcard", TRUE, "RUNNING")
      BY <2>1, <2>4 DEF Held, At
    <3>2. ServiceInv' /\ Calling /\ Apart("sdcard") /\ Placed("sdcard")'
      BY <2>2, <3>1, InitReturnsStep
    <3> QED BY <2>3, <3>2
  <2>5. CASE task.pc = "run"
    <3>1. Held("run", "sdcard") /\ RunReturns
      BY <2>1, <2>5 DEF Held, At
    <3>2. ServiceInv' /\ Calling /\ Apart("sdcard")
      BY <2>2, <3>1, RunReturnsStep
    <3>3. Placed("sdcard") => Placed("sdcard")'
      BY <3>1, GoesIs DEF RunReturns, Placed, Listed, Resting, ServiceInv
    <3> QED BY <2>3, <3>2, <3>3
  <2> QED BY <2>1, <2>4, <2>5
<1>3. CASE SdCardDestroy
  <2>1. Held("destroy", "sdcard") /\ DestroyReturns("sdcard")
        /\ sdcard' = [sdcard EXCEPT !.fs = FALSE, !.isr = FALSE]
    BY <1>3 DEF SdCardDestroy
  <2>2. "sdcard" \in board /\ ~periph["sdcard"].timer /\ sdcard.will = "look"
    BY <2>1, HeldIs DEF Held, At
  <2>3. ServiceInv' /\ Calling /\ Apart("sdcard")
    BY <2>1, <2>2, DestroyReturnsStep
  <2>4. SdCardType' /\ sdcard'.isr = FALSE /\ sdcard'.will = "look"
    BY <2>1, <2>2 DEF SdCardType
  <2> QED BY <2>3, <2>4
<1>4. CASE SdCardEdge \/ SdCardTimer
  <2>1. UNCHANGED service \/ \E p \in board : SendCmd(p)
    BY <1>4 DEF SdCardEdge, SdCardTimer, Fires
  <2>2. ServiceInv' /\ Calling /\ Apart("sdcard") /\ task' = task
    BY <2>1, SendApart, SendStep
  <2>3. Placed("sdcard") => Placed("sdcard")'
    BY <2>1, SendStep
  <2>4. SdCardType' /\ sdcard'.isr = sdcard.isr /\ sdcard'.will = sdcard.will
    <3>1. CASE SdCardEdge
      <4> DEFINE d == ~sdcard.present
                 e == sdcard.flips + 1
      <4>1. sdcard' = [sdcard EXCEPT !.present = d, !.flips = e]
        BY <3>1 DEF SdCardEdge, SdCardType
      <4>2. d \in BOOLEAN
        OBVIOUS
      <4>3. e \in Nat
        <5>1. sdcard.flips \in Nat
          BY DEF SdCardType
        <5> QED BY <5>1
      <4> HIDE DEF d, e
      <4> QED BY <4>1, <4>2, <4>3 DEF SdCardType
    <3>2. CASE SdCardTimer
      BY <3>2 DEF SdCardTimer, SdCardType
    <3> QED BY <1>4, <3>1, <3>2
  <2> QED BY <2>2, <2>3, <2>4
<1> QED
  BY <1>1, <1>2, <1>3, <1>4 DEF SdCardNext, SdCardServe

\* Every step of the console, as the service sees it.
LEMMA ConsoleStep ==
  ASSUME ServiceInv, UNCHANGED board, ConsoleNext
  PROVE  ServiceInv' /\ Calling /\ Apart("console")
<1>1. CASE UNCHANGED service
  BY <1>1, SendApart
<1>2. CASE ConsoleStarts
  <2>1. PICK state \in {"RUNNING", "ERROR"} : InitReturns("console", FALSE, state)
    BY <1>2 DEF ConsoleStarts
  <2>2. Held("init", "console") /\ "console" \in board
    BY <1>2, HeldIs DEF ConsoleStarts, Held, At, Placed
  <2> QED BY <2>1, <2>2, InitReturnsStep
<1>3. CASE ConsoleDestroyed
  <2>1. Held("destroy", "console") /\ DestroyReturns("console")
    BY <1>3 DEF ConsoleDestroyed
  <2>2. "console" \in board /\ ~periph["console"].timer
    BY <2>1, HeldIs DEF Held, At
  <2> QED BY <2>1, <2>2, DestroyReturnsStep
<1> QED
  BY <1>1, <1>2, <1>3 DEF ConsoleNext, ConsoleServe, ConsoleTask, ConsoleDestroy, ConsoleBoots,
     ConsoleTakes, ConsoleRuns, ConsoleEnds

\* Every step of the bluetooth, as the service sees it.
LEMMA BtApart ==
  ASSUME ServiceInv, UNCHANGED board, BluetoothNext
  PROVE  ServiceInv' /\ Calling /\ Apart("bt")
<1>1. CASE UNCHANGED service
  BY <1>1, SendApart
<1>2. CASE Calls("idle", "bt") /\ UNCHANGED <<obj, periph, task>>
  BY <1>2, CallsStep DEF Calling, Names
<1>3. CASE BtStarts
  <2>1. Held("init", "bt") /\ InitReturns("bt", FALSE, "RUNNING")
    BY <1>3 DEF BtStarts
  <2>2. "bt" \in board
    BY <2>1, HeldIs DEF Held, At, Placed
  <2> QED BY <2>1, <2>2, InitReturnsStep
<1>4. CASE BtPeriphDestroy
  <2>1. Held("destroy", "bt") /\ DestroyReturns("bt")
    BY <1>4 DEF BtPeriphDestroy
  <2>2. "bt" \in board /\ ~periph["bt"].timer
    BY <2>1, HeldIs DEF Held, At
  <2> QED BY <2>1, <2>2, DestroyReturnsStep
<1>5. CASE BtStart \/ BtDestroy \/ BtCreate \/ BtStreamDestroy
  BY <1>2, <1>5 DEF BtStart, BtDestroy, BtCreate, BtStreamDestroy
<1> QED
  BY <1>1, <1>3, <1>4, <1>5 DEF BluetoothNext, BtServe, KeyMachine, KeySmInit, KeySmDeinit, KeyPressed,
     KeyReleased, KeyForgotten, KeyUnanswered, KeyTimesOut, AvrcConnects, AvrcDisconnects, BtKey,
     A2dConnected, A2dDisconnected

-----------------------------------------------------------------------------
(* The lights.                                                             *)

ChannelType == [pin : Pins \cup {Free}, loop : Int, off : BOOLEAN]
LedType ==
  led \in [ch : [1 .. Channels -> ChannelType], at : 0 .. Channels, finishing : BOOLEAN,
           entry : [ch : 0 .. Channels, loop : Int], open : [Pins -> Int],
           early : BOOLEAN, met : BOOLEAN]

\* A channel is being entered as long as the application is in periph_led_blink.
Entering == led.entry.ch # 0 <=> caller.pc = "blink"

OnePin == \A i, j \in 1 .. Channels : led.ch[i].pin = led.ch[j].pin => i = j \/ led.ch[i].pin = Free

\* The half periods that channel i has left, or is about to have.
Left(i) == IF led.entry.ch = i THEN led.entry.loop ELSE led.ch[i].loop

\* While the tasks do not meet, the table has just the half periods that were asked
\* for, and the channel the handler finishes has none left.
Counted ==
  ~led.met =>
    /\ ~led.early
    /\ \A i \in 1 .. Channels : led.ch[i].pin # Free => led.open[led.ch[i].pin] = Left(i)
    /\ \A p \in Pins : led.open[p] # 0 => \E i \in 1 .. Channels : led.ch[i].pin = p
    /\ led.finishing => led.entry.ch # led.at /\ led.ch[led.at].pin # Free /\ led.ch[led.at].loop = 0

LedInv == LedType /\ Entering /\ (led.finishing => led.at # 0) /\ OnePin /\ Counted

\* Pins are positive and no channel number is; a free channel has none of them.
LEMMA PinsAre == Channels \in Nat \ {0} /\ Pins \subseteq Nat \ {0} /\ Free = -1 /\ Free \notin Pins
                 /\ Counts \cup {-1} \subseteq Int
  BY LedAssumption DEF Free

\* _find_led_channel finds the channel of the pin, or a free one when it has none.
LEMMA FoundIs ==
  ASSUME LedType, NEW pin \in Pins
  PROVE  LET i == FindLedChannel(pin) IN
         \/ i = 0
         \/ i \in 1 .. Channels /\ led.ch[i].pin = pin
         \/ i \in 1 .. Channels /\ led.ch[i].pin = Free /\ \A j \in 1 .. Channels : led.ch[j].pin # pin
<1> DEFINE mine == {i \in 1 .. Channels : led.ch[i].pin = pin}
           free == {i \in 1 .. Channels : led.ch[i].pin = Free}
<1>1. FindLedChannel(pin) = IF mine # {} THEN Min(mine) ELSE IF free # {} THEN Max(free) ELSE 0
  BY DEF FindLedChannel
<1>2. mine \in SUBSET (0 .. Channels) /\ free \in SUBSET (0 .. Channels) /\ Channels \in Nat
  BY PinsAre
<1>3. /\ \A i \in mine : i \in 1 .. Channels /\ led.ch[i].pin = pin
      /\ \A i \in free : i \in 1 .. Channels /\ led.ch[i].pin = Free
      /\ mine = {} => \A j \in 1 .. Channels : led.ch[j].pin # pin
  OBVIOUS
<1> HIDE DEF mine, free
<1>4. CASE mine # {}
  <2>1. Min(mine) \in mine
    BY <1>2, <1>4, Extremes
  <2> QED BY <1>1, <1>3, <1>4, <2>1
<1>5. CASE mine = {} /\ free # {}
  <2>1. Max(free) \in free
    BY <1>2, <1>5, Extremes
  <2> QED BY <1>1, <1>3, <1>5, <2>1
<1>6. CASE mine = {} /\ free = {}
  BY <1>1, <1>6
<1> QED
  BY <1>4, <1>5, <1>6

\* The lights begin in their invariant.
LEMMA LedBegins == LedInit /\ caller.pc = "idle" => LedInv
<1> SUFFICES ASSUME LedInit, caller.pc = "idle" PROVE LedInv
  OBVIOUS
<1>1. /\ led.ch = [i \in 1 .. Channels |-> NoChannel] /\ led.at = 0 /\ led.finishing = FALSE
      /\ led.entry.ch = 0 /\ led.open = [p \in Pins |-> 0] /\ led.early = FALSE
  BY DEF LedInit
<1>2. LedType
  <2>1. NoChannel \in ChannelType /\ 0 \in 0 .. Channels
    BY PinsAre DEF NoChannel, ChannelType
  <2> QED BY <2>1 DEF LedInit, LedType
<1>3. \A i \in 1 .. Channels : led.ch[i].pin = Free
  BY <1>1 DEF NoChannel
<1>4. \A p \in Pins : led.open[p] = 0
  BY <1>1
<1> QED
  BY <1>1, <1>2, <1>3, <1>4 DEF LedInv, Entering, OnePin, Counted

\* periph_led_blink, up to where the table is entered.
LEMMA LedBlinkStep ==
  ASSUME LedInv, NEW pin \in Pins, NEW loop \in Int, LedBlink(pin, loop)
  PROVE  LedInv'
<1> USE DEF LedInv
<1> DEFINE i == FindLedChannel(pin)
<1>1. /\ caller.pc = "idle" /\ caller'.pc = IF i = 0 THEN "idle" ELSE "blink"
      /\ led.entry.ch = 0
  BY DEF LedBlink, Calls, Entering
<1>2. CASE i = 0
  <2>1. led' = led
    BY <1>2 DEF LedBlink
  <2> QED BY <1>1, <1>2, <2>1 DEF LedType, Entering, OnePin, Counted, Left
<1>3. CASE i # 0
  <2>1. led' = [led EXCEPT !.ch[i].pin = pin, !.entry = [ch |-> i, loop |-> loop],
                           !.open[pin] = loop, !.met = @ \/ led.at = i]
    BY <1>3 DEF LedBlink
  <2>2. /\ i \in 1 .. Channels
        /\ \/ led.ch[i].pin = pin
           \/ led.ch[i].pin = Free /\ \A j \in 1 .. Channels : led.ch[j].pin # pin
    BY <1>3, FoundIs
  <2> HIDE DEF i
  <2>3. /\ led'.ch = [led.ch EXCEPT ![i].pin = pin] /\ led'.entry = [ch |-> i, loop |-> loop]
        /\ led'.open = [led.open EXCEPT ![pin] = loop] /\ led'.met = (led.met \/ led.at = i)
        /\ led'.at = led.at /\ led'.finishing = led.finishing /\ led'.early = led.early
    BY <2>1 DEF LedType
  <2> DEFINE c == [led.ch[i] EXCEPT !.pin = pin]
  <2>c. led.ch[i] \in ChannelType /\ c \in ChannelType /\ c.pin = pin /\ c.loop = led.ch[i].loop
    BY <2>2 DEF LedType, ChannelType
  <2>d. led'.ch = [led.ch EXCEPT ![i] = c]
    BY <2>3
  <2> HIDE DEF c
  <2>e. led' = [led EXCEPT !.ch = [led.ch EXCEPT ![i] = c], !.entry = [ch |-> i, loop |-> loop],
                           !.open = [led.open EXCEPT ![pin] = loop], !.met = led.met \/ led.at = i]
    BY <2>1 DEF c
  <2>f. [led.ch EXCEPT ![i] = c] \in [1 .. Channels -> ChannelType]
        /\ [led.open EXCEPT ![pin] = loop] \in [Pins -> Int]
        /\ [ch |-> i, loop |-> loop] \in [ch : 0 .. Channels, loop : Int]
        /\ (led.met \/ led.at = i) \in BOOLEAN
    BY <2>2, <2>c DEF LedType
  <2>4. LedType'
    BY <2>e, <2>f DEF LedType
  <2>5. \A j \in 1 .. Channels : j # i => led'.ch[j] = led.ch[j]
    BY <2>d DEF LedType
  <2>6. led'.ch[i] = c
    BY <2>2, <2>d DEF LedType
  <2>7. \A j \in 1 .. Channels : j # i => led.ch[j].pin # pin
    BY <2>2, PinsAre DEF OnePin
  <2>8. OnePin'
    BY <2>5, <2>6, <2>7, <2>c DEF OnePin
  <2>9. Counted'
    <3>1. SUFFICES ASSUME ~led'.met PROVE Counted'
      BY DEF Counted
    <3>2. ~led.met /\ led.at # i /\ ~led'.early
      BY <2>3, <3>1 DEF Counted
    <3>3. led'.open[pin] = loop /\ \A p \in Pins : p # pin => led'.open[p] = led.open[p]
      BY <2>3 DEF LedType
    <3>4. ASSUME NEW j \in 1 .. Channels, led'.ch[j].pin # Free
          PROVE  led'.open[led'.ch[j].pin] = Left(j)'
      <4>1. CASE j = i
        BY <2>3, <2>6, <2>c, <3>3, <4>1 DEF Left
      <4>2. CASE j # i
        <5>1. led'.ch[j] = led.ch[j] /\ led.ch[j].pin \in Pins /\ led.ch[j].pin # pin
          BY <2>5, <2>7, <3>4, <4>2 DEF LedType, ChannelType
        <5>2. led.open[led.ch[j].pin] = led.ch[j].loop
          BY <1>1, <3>2, <3>4, <5>1, PinsAre DEF Counted, Left
        <5> QED BY <2>3, <3>3, <4>2, <5>1, <5>2 DEF Left
      <4> QED BY <4>1, <4>2
    <3>5. ASSUME NEW p \in Pins, led'.open[p] # 0 PROVE \E j \in 1 .. Channels : led'.ch[j].pin = p
      <4>1. CASE p = pin
        BY <2>2, <2>6, <2>c, <4>1
      <4>2. CASE p # pin
        <5>1. PICK j \in 1 .. Channels : led.ch[j].pin = p
          BY <3>2, <3>3, <3>5, <4>2 DEF Counted
        <5>2. j # i
          BY <2>2, <4>2, <5>1, PinsAre
        <5> QED BY <2>5, <5>1, <5>2
      <4> QED BY <4>1, <4>2
    <3>6. led'.finishing => led'.entry.ch # led'.at /\ led'.ch[led'.at].pin # Free /\ led'.ch[led'.at].loop = 0
      <4>1. SUFFICES ASSUME led.finishing
            PROVE led'.entry.ch # led.at /\ led'.ch[led.at].pin # Free /\ led'.ch[led.at].loop = 0
        BY <2>3
      <4>2. led.at \in 1 .. Channels /\ led.ch[led.at].pin # Free /\ led.ch[led.at].loop = 0
        BY <3>2, <4>1 DEF Counted, LedType
      <4> QED BY <2>3, <2>5, <3>2, <4>2
    <3> QED BY <3>2, <3>4, <3>5, <3>6 DEF Counted
  <2> QED BY <1>1, <1>3, <2>2, <2>3, <2>4, <2>8, <2>9 DEF Entering, i
<1> QED
  BY <1>2, <1>3

\* The rest of periph_led_blink: the count is entered.
LEMMA LedBlinkSetsStep == ASSUME LedInv, LedBlinkSets PROVE LedInv'
<1> USE DEF LedInv
<1> DEFINE i == led.entry.ch
           c == [led.ch[i] EXCEPT !.loop = led.entry.loop, !.off = TRUE]
<1>1. caller.pc = "blink" /\ caller' = [caller EXCEPT !.pc = "idle"] /\ i # 0
  BY DEF LedBlinkSets, Entering
<1>2. i \in 1 .. Channels /\ led.ch[i] \in ChannelType /\ led.entry.loop \in Int
  BY <1>1, PinsAre DEF LedType
<1>3. led' = [led EXCEPT !.ch[led.entry.ch].loop = led.entry.loop, !.ch[led.entry.ch].off = TRUE,
                         !.entry.ch = 0]
  BY DEF LedBlinkSets
<1>4. c \in ChannelType /\ c.pin = led.ch[i].pin /\ c.loop = led.entry.loop
  BY <1>2 DEF ChannelType
<1> HIDE DEF i, c
<1>5. /\ led'.ch = [led.ch EXCEPT ![i] = c]
      /\ led'.entry = [ch |-> 0, loop |-> led.entry.loop]
      /\ led' = [led EXCEPT !.ch = led'.ch, !.entry = led'.entry]
  BY <1>2, <1>3 DEF LedType, i, c
<1>6. /\ led'.open = led.open /\ led'.met = led.met /\ led'.at = led.at /\ led'.finishing = led.finishing
      /\ led'.early = led.early
  BY <1>5 DEF LedType
<1>7. led'.ch[i] = c /\ \A j \in 1 .. Channels : j # i => led'.ch[j] = led.ch[j]
  BY <1>2, <1>5 DEF LedType
<1>8. led'.ch \in [1 .. Channels -> ChannelType] /\ led'.entry \in [ch : 0 .. Channels, loop : Int]
  BY <1>2, <1>4, <1>5, PinsAre DEF LedType
<1>9. LedType'
  BY <1>5, <1>8 DEF LedType
<1>10. \A j \in 1 .. Channels : led'.ch[j].pin = led.ch[j].pin /\ Left(j)' = Left(j)
  <2> SUFFICES ASSUME NEW j \in 1 .. Channels PROVE led'.ch[j].pin = led.ch[j].pin /\ Left(j)' = Left(j)
    OBVIOUS
  <2>1. CASE j = i
    BY <1>2, <1>4, <1>5, <1>7, <2>1 DEF Left, i
  <2>2. CASE j # i
    BY <1>2, <1>5, <1>7, <2>2 DEF Left, i
  <2> QED BY <2>1, <2>2
<1>11. OnePin'
  BY <1>10 DEF OnePin
<1>12. Counted'
  <2>1. CASE led.met
    BY <1>6, <2>1 DEF Counted
  <2>2. CASE ~led.met
    <3>1. led.finishing => led'.entry.ch # led.at /\ led'.ch[led.at].pin # Free /\ led'.ch[led.at].loop = 0
      <4>1. SUFFICES ASSUME led.finishing
            PROVE led'.entry.ch # led.at /\ led'.ch[led.at].pin # Free /\ led'.ch[led.at].loop = 0
        OBVIOUS
      <4>2. led.at \in 1 .. Channels /\ led.at # i
        BY <2>2, <4>1 DEF Counted, LedType, i
      <4> QED BY <1>5, <1>7, <2>2, <4>1, <4>2 DEF Counted
    <3>2. \A j \in 1 .. Channels : led'.ch[j].pin # Free => led'.open[led'.ch[j].pin] = Left(j)'
      BY <1>6, <1>10, <2>2 DEF Counted
    <3>3. \A p \in Pins : led'.open[p] # 0 => \E j \in 1 .. Channels : led'.ch[j].pin = p
      BY <1>6, <1>10, <2>2 DEF Counted
    <3> QED BY <1>6, <2>2, <3>1, <3>2, <3>3 DEF Counted
  <2> QED BY <2>1, <2>2
<1> QED
  BY <1>1, <1>5, <1>6, <1>9, <1>11, <1>12 DEF Entering

\* A channel that is taken out of the table with nothing left to ask of its pin.
LEMMA FreedStep ==
  ASSUME LedInv, NEW i \in 1 .. Channels, led.ch[i].pin # Free,
         led'.ch = [led.ch EXCEPT ![i].pin = Free], led' \in [ch : {led'.ch}, at : 0 .. Channels,
           finishing : BOOLEAN, entry : {led.entry}, open : [Pins -> Int], early : {led.early}, met : BOOLEAN],
         led'.finishing => led'.at # 0,
         caller'.pc = "blink" <=> caller.pc = "blink",
         \A p \in Pins : p # led.ch[i].pin => led'.open[p] = led.open[p],
         ~led'.met => /\ ~led.met /\ led'.open[led.ch[i].pin] = 0
                      /\ led'.finishing => led.finishing /\ led'.at = led.at /\ led.at # i
  PROVE  LedInv'
<1> USE DEF LedInv
<1> DEFINE c == [led.ch[i] EXCEPT !.pin = Free]
<1>0. led.ch \in [1 .. Channels -> ChannelType] /\ led.ch[i] \in ChannelType
  BY DEF LedType
<1>1. c \in ChannelType /\ c.pin = Free
  BY ONLY <1>0 DEF ChannelType
<1>2. led'.ch = [led.ch EXCEPT ![i] = c]
  OBVIOUS
<1> HIDE DEF c
<1>3. led'.ch \in [1 .. Channels -> ChannelType] /\ led'.ch[i] = c
      /\ \A j \in 1 .. Channels : j # i => led'.ch[j] = led.ch[j]
  BY ONLY <1>0, <1>1, <1>2, i \in 1 .. Channels
<1>4. LedType'
  BY <1>3 DEF LedType
<1>5. OnePin'
  BY <1>1, <1>3 DEF OnePin
<1>6. Counted'
  <2>1. SUFFICES ASSUME ~led'.met PROVE Counted'
    BY DEF Counted
  <2>2. ~led.met /\ led'.open[led.ch[i].pin] = 0 /\ ~led'.early /\ led'.entry = led.entry
    BY <2>1 DEF Counted
  <2>3. ASSUME NEW j \in 1 .. Channels, led'.ch[j].pin # Free
        PROVE  led'.open[led'.ch[j].pin] = Left(j)'
    <3>1. j # i
      BY <1>1, <1>3, <2>3
    <3>2. led'.ch[j] = led.ch[j] /\ led.ch[j].pin \in Pins /\ led.ch[j].pin # led.ch[i].pin
      BY <1>3, <2>3, <3>1 DEF LedType, ChannelType, OnePin
    <3>3. led.open[led.ch[j].pin] = Left(j) /\ Left(j)' = Left(j)
      BY <2>2, <2>3, <3>2 DEF Counted, Left
    <3> QED BY <3>2, <3>3
  <2>4. ASSUME NEW p \in Pins, led'.open[p] # 0 PROVE \E j \in 1 .. Channels : led'.ch[j].pin = p
    <3>1. p # led.ch[i].pin
      BY <2>2, <2>4
    <3>2. PICK j \in 1 .. Channels : led.ch[j].pin = p
      BY <2>2, <2>4, <3>1 DEF Counted
    <3> QED BY <1>3, <3>1, <3>2
  <2>5. led'.finishing => led'.entry.ch # led'.at /\ led'.ch[led'.at].pin # Free /\ led'.ch[led'.at].loop = 0
    <3>1. SUFFICES ASSUME led'.finishing
          PROVE led'.entry.ch # led'.at /\ led'.ch[led'.at].pin # Free /\ led'.ch[led'.at].loop = 0
      OBVIOUS
    <3>2. led.finishing /\ led'.at = led.at /\ led.at # i /\ led.at \in 1 .. Channels
      BY <2>1, <3>1 DEF LedType
    <3> QED BY <1>3, <2>2, <3>2 DEF Counted
  <2> QED BY <2>2, <2>3, <2>4, <2>5 DEF Counted
<1> QED
  BY <1>4, <1>5, <1>6 DEF Entering

\* periph_led_stop frees the channel of the pin, if it has one.
LEMMA LedStopStep == ASSUME LedInv, NEW pin \in Pins, LedStop(pin) PROVE LedInv'
<1> USE DEF LedInv
<1> DEFINE i == FindLedChannel(pin)
<1>1. caller.pc = "idle" /\ caller'.pc = "idle" /\ i # 0
  BY DEF LedStop, Calls
<1>2. /\ i \in 1 .. Channels
      /\ led.ch[i].pin = pin \/ led.ch[i].pin = Free
  BY <1>1, FoundIs
<1>3. led' = IF led.ch[i].pin = Free THEN led
             ELSE [led EXCEPT !.ch[i].pin = Free, !.open[pin] = 0, !.met = @ \/ led.at = i]
  BY DEF LedStop
<1> HIDE DEF i
<1>4. CASE led.ch[i].pin = Free
  BY <1>1, <1>3, <1>4 DEF LedType, Entering, OnePin, Counted, Left
<1>5. CASE led.ch[i].pin # Free
  <2>1. led' = [led EXCEPT !.ch = [led.ch EXCEPT ![i].pin = Free], !.open = [led.open EXCEPT ![pin] = 0],
                           !.met = led.met \/ led.at = i]
    BY <1>3, <1>5
  <2>2. led.ch[i].pin = pin
    BY <1>2, <1>5
  <2>3. /\ led'.ch = [led.ch EXCEPT ![i].pin = Free] /\ led'.open = [led.open EXCEPT ![pin] = 0]
        /\ led'.met = (led.met \/ led.at = i) /\ led'.at = led.at /\ led'.finishing = led.finishing
    BY <2>1 DEF LedType
  <2>4. led'.open \in [Pins -> Int] /\ led'.open[pin] = 0 /\ \A p \in Pins : p # pin => led'.open[p] = led.open[p]
    BY <2>3 DEF LedType
  <2>5. led' \in [ch : {led'.ch}, at : 0 .. Channels, finishing : BOOLEAN, entry : {led.entry},
                  open : [Pins -> Int], early : {led.early}, met : BOOLEAN]
    BY <2>1, <2>3, <2>4 DEF LedType
  <2> QED BY <1>1, <1>2, <1>5, <2>2, <2>3, <2>4, <2>5, FreedStep
<1> QED
  BY <1>4, <1>5

\* The handler walks on.
LEMMA WalkIs == LedType /\ led.at # 0 => Next1 \in 0 .. Channels
  BY PinsAre DEF LedType, Next1

\* A step of the handler that leaves the table alone.
LEMMA LedWalks ==
  ASSUME LedInv, UNCHANGED caller, LedTimer \/ LedSkips \/ LedFinishes
  PROVE  LedInv'
<1> USE DEF LedInv
<1>1. CASE LedTimer
  <2>1. led' = [led EXCEPT !.at = 1] /\ led.at = 0
    BY <1>1 DEF LedTimer
  <2>2. 1 \in 0 .. Channels
    BY PinsAre
  <2>3. /\ LedType' /\ led'.ch = led.ch /\ led'.entry = led.entry /\ led'.open = led.open
        /\ led'.met = led.met /\ led'.early = led.early /\ ~led'.finishing /\ ~led.finishing
    BY <2>1, <2>2 DEF LedType
  <2> QED BY <2>3 DEF Entering, OnePin, Counted, Left
<1>2. CASE LedSkips
  <2>1. led' = [led EXCEPT !.at = Next1] /\ ~led.finishing /\ Next1 \in 0 .. Channels
    BY <1>2, WalkIs DEF LedSkips
  <2>2. /\ LedType' /\ led'.ch = led.ch /\ led'.entry = led.entry /\ led'.open = led.open
        /\ led'.met = led.met /\ led'.early = led.early /\ ~led'.finishing
    BY <2>1 DEF LedType
  <2> QED BY <2>2 DEF Entering, OnePin, Counted, Left
<1>3. CASE LedFinishes
  <2> DEFINE m == led.met \/ led.entry.ch = led.at
             e == led.early \/ led.open[Here.pin] # 0
  <2>1. /\ led' = [led EXCEPT !.finishing = TRUE, !.met = m, !.early = e]
        /\ led.at # 0 /\ ~led.finishing /\ Here.pin # Free /\ Here.loop = 0
    BY <1>3 DEF LedFinishes
  <2>2. m \in BOOLEAN /\ e \in BOOLEAN
    BY DEF LedType
  <2>3. led.at \in 1 .. Channels /\ Here = led.ch[led.at]
    BY <2>1 DEF LedType, Here
  <2>4. ~m => ~e /\ ~led.met /\ led.entry.ch # led.at
    <3>1. SUFFICES ASSUME ~m PROVE ~led.early /\ led.open[Here.pin] = 0 /\ ~led.met /\ led.entry.ch # led.at
      OBVIOUS
    <3>2. led.open[Here.pin] = Left(led.at)
      BY <2>1, <2>3, <3>1 DEF Counted
    <3> QED BY <2>1, <2>3, <3>1, <3>2 DEF Counted, Left
  <2> HIDE DEF m, e
  <2>5. /\ LedType' /\ led'.ch = led.ch /\ led'.entry = led.entry /\ led'.open = led.open
        /\ led'.met = m /\ led'.early = e /\ led'.at = led.at /\ led'.finishing
    BY <2>1, <2>2 DEF LedType
  <2>6. Counted'
    <3>1. SUFFICES ASSUME ~m PROVE Counted'
      BY <2>5 DEF Counted
    <3>2. \A i \in 1 .. Channels : Left(i)' = Left(i)
      BY <2>5 DEF Left
    <3> QED BY <2>1, <2>3, <2>4, <2>5, <3>1, <3>2 DEF Counted
  <2> QED BY <2>1, <2>5, <2>6 DEF Entering, OnePin
<1> QED
  BY <1>1, <1>2, <1>3

\* The channel that was finished is freed.
LEMMA LedFreesStep == ASSUME LedInv, UNCHANGED caller, LedFrees PROVE LedInv'
<1> USE DEF LedInv
<1> DEFINE i == led.at
<1>1. /\ led.finishing /\ led' = [led EXCEPT !.ch[led.at].pin = Free, !.finishing = FALSE, !.at = Next1]
      /\ i \in 1 .. Channels /\ Next1 \in 0 .. Channels
  BY WalkIs DEF LedFrees, LedType
<1>2. led' = [led EXCEPT !.ch = [led.ch EXCEPT ![i].pin = Free], !.finishing = FALSE, !.at = Next1]
  BY <1>1
<1> HIDE DEF i
<1>3. /\ led'.ch = [led.ch EXCEPT ![i].pin = Free] /\ led'.open = led.open /\ led'.met = led.met
      /\ led'.at = Next1 /\ led'.finishing = FALSE
  BY <1>2 DEF LedType
<1>4. led' \in [ch : {led'.ch}, at : 0 .. Channels, finishing : BOOLEAN, entry : {led.entry},
                open : [Pins -> Int], early : {led.early}, met : BOOLEAN]
  BY <1>1, <1>2, <1>3 DEF LedType
<1>5. CASE led.ch[i].pin # Free
  <2>1. ~led.met => led.open[led.ch[i].pin] = 0
    <3>1. ~led.met => Left(i) = 0
      BY <1>1 DEF Counted, Left, i
    <3> QED BY <1>1, <1>5, <3>1 DEF Counted
  <2> QED BY <1>1, <1>3, <1>4, <1>5, <2>1, FreedStep
<1>6. CASE led.ch[i].pin = Free
  <2>1. led.met
    BY <1>1, <1>6 DEF Counted, i
  <2>2. led'.ch = led.ch
    BY <1>1, <1>3, <1>6 DEF LedType, ChannelType
  <2>3. LedType' /\ led'.entry = led.entry
    BY <1>4, <2>2 DEF LedType
  <2> QED BY <1>3, <2>1, <2>2, <2>3 DEF Entering, OnePin, Counted
<1> QED
  BY <1>5, <1>6


\* A light is switched, or not yet: the table and what was asked for count on together.
LEMMA LedCounts ==
  ASSUME LedInv, NEW i \in 1 .. Channels, i = led.at, ~led.finishing, UNCHANGED caller,
         NEW pin \in Pins, led.ch[i].pin = pin, NEW c \in ChannelType, c.pin = pin,
         NEW open \in Int, NEW next \in 0 .. Channels,
         led' = [led EXCEPT !.ch = [led.ch EXCEPT ![i] = c], !.open = [led.open EXCEPT ![pin] = open],
                            !.met = led.met \/ led.entry.ch = i, !.at = next],
         led.open[pin] = led.ch[i].loop => open = c.loop
  PROVE  LedInv'
<1> USE DEF LedInv
<1>1. /\ led'.ch = [led.ch EXCEPT ![i] = c] /\ led'.open = [led.open EXCEPT ![pin] = open]
      /\ led'.met = (led.met \/ led.entry.ch = i) /\ led'.at = next /\ led'.entry = led.entry
      /\ led'.early = led.early /\ led'.finishing = FALSE
  BY DEF LedType
<1>2. /\ led'.ch \in [1 .. Channels -> ChannelType] /\ led'.ch[i] = c
      /\ \A j \in 1 .. Channels : j # i => led'.ch[j] = led.ch[j]
  BY <1>1 DEF LedType
<1>3. /\ led'.open \in [Pins -> Int] /\ led'.open[pin] = open
      /\ \A p \in Pins : p # pin => led'.open[p] = led.open[p]
  BY <1>1 DEF LedType
<1>4. LedType'
  BY <1>1, <1>2, <1>3 DEF LedType
<1>5. \A j \in 1 .. Channels : led'.ch[j].pin = led.ch[j].pin
  BY <1>2
<1>6. OnePin'
  BY <1>5 DEF OnePin
<1>7. Counted'
  <2>1. SUFFICES ASSUME ~led'.met PROVE Counted'
    BY DEF Counted
  <2>2. ~led.met /\ led.entry.ch # i /\ ~led'.early
    BY <1>1, <2>1 DEF Counted
  <2>3. ASSUME NEW j \in 1 .. Channels, led'.ch[j].pin # Free
        PROVE  led'.open[led'.ch[j].pin] = Left(j)'
    <3>1. led.ch[j].pin \in Pins /\ led.ch[j].pin # Free /\ led.open[led.ch[j].pin] = Left(j)
      <4>1. led.ch[j] \in ChannelType /\ led.ch[j].pin # Free
        BY <1>5, <2>3 DEF LedType
      <4> QED BY <2>2, <4>1 DEF Counted, ChannelType
    <3>2. CASE j = i
      BY <1>1, <1>2, <1>3, <2>2, <3>1, <3>2 DEF Left
    <3>3. CASE j # i
      <4>1. led.ch[j].pin # pin
        BY <3>1, <3>3 DEF OnePin
      <4> QED BY <1>1, <1>2, <1>3, <3>1, <3>3, <4>1 DEF Left
    <3> QED BY <3>2, <3>3
  <2>4. ASSUME NEW p \in Pins, led'.open[p] # 0 PROVE \E j \in 1 .. Channels : led'.ch[j].pin = p
    <3>1. CASE p = pin
      BY <1>5, <3>1
    <3>2. CASE p # pin
      BY <1>3, <1>5, <2>2, <2>4, <3>2 DEF Counted
    <3> QED BY <3>1, <3>2
  <2> QED BY <1>1, <2>2, <2>3, <2>4 DEF Counted
<1> QED
  BY <1>1, <1>4, <1>6, <1>7 DEF Entering

\* A half period of a channel ends, or not yet.
LEMMA LedTogglesStep == ASSUME LedInv, UNCHANGED caller, LedToggles PROVE LedInv'
<1> DEFINE i == led.at
           o == led.ch[i]
           pin == o.pin
<1>1. PICK due \in BOOLEAN :
        LET counts == due /\ Here.loop > 0
            lit == [Here EXCEPT !.off = IF due THEN ~@ ELSE @, !.loop = IF counts THEN @ - 1 ELSE @]
        IN  led' = [led EXCEPT
             !.ch[led.at] = lit,
             !.open[Here.pin] = IF counts /\ @ > 0 THEN @ - 1 ELSE @,
             !.met = @ \/ led.entry.ch = led.at,
             !.at = Next1]
  BY DEF LedToggles
<1>2. /\ i \in 1 .. Channels /\ ~led.finishing /\ pin # Free /\ Next1 \in 0 .. Channels
      /\ o \in ChannelType /\ led.open \in [Pins -> Int] /\ led.ch \in [1 .. Channels -> ChannelType]
      /\ Here = o
  <2>1. led.at # 0 /\ ~led.finishing /\ Here.pin # Free
    BY DEF LedToggles
  <2>2. i \in 1 .. Channels /\ led.ch \in [1 .. Channels -> ChannelType] /\ led.open \in [Pins -> Int]
    BY <2>1, PinsAre DEF LedType, LedInv
  <2>3. o \in ChannelType /\ Here = o
    BY <2>2 DEF Here
  <2> QED BY <2>1, <2>2, <2>3, WalkIs DEF LedInv
<1>3. o.pin \in Pins /\ o.loop \in Int /\ o.off \in BOOLEAN
  <2> HIDE DEF o
  <2> QED BY <1>2 DEF ChannelType
<1> DEFINE counts == due /\ o.loop > 0
           loop == IF counts THEN o.loop - 1 ELSE o.loop
           off == IF due THEN ~o.off ELSE o.off
           c == [o EXCEPT !.off = off, !.loop = loop]
           open == IF counts /\ led.open[pin] > 0 THEN led.open[pin] - 1 ELSE led.open[pin]
<1>4. loop \in Int /\ off \in BOOLEAN /\ open \in Int /\ pin \in Pins
  <2>1. pin \in Pins /\ led.open[pin] \in Int
    BY <1>2, <1>3
  <2>2. off \in BOOLEAN
    BY <1>3
  <2>4. loop \in Int
    <3> HIDE DEF o
    <3>1. o.loop - 1 \in Int
      BY <1>3
    <3>2. CASE counts
      BY <3>1, <3>2
    <3>3. CASE ~counts
      BY <1>3, <3>3
    <3> QED BY <3>2, <3>3
  <2>3. open \in Int
    <3> HIDE DEF o, pin
    <3> QED BY <2>1
  <2> QED BY <2>1, <2>2, <2>3, <2>4
<1>5. c \in ChannelType /\ c.pin = pin /\ c.loop = loop
  <2> HIDE DEF o, off, loop
  <2> QED BY <1>2, <1>4 DEF ChannelType
<1>6. led' = [led EXCEPT !.ch[i] = c, !.open[pin] = open,
                         !.met = led.met \/ led.entry.ch = i, !.at = Next1]
  <2>1. c = [Here EXCEPT !.off = IF due THEN ~@ ELSE @, !.loop = IF counts THEN @ - 1 ELSE @]
    BY <1>2
  <2> HIDE DEF c
  <2> QED BY <1>1, <1>2, <2>1
<1>7. led.open[pin] = o.loop => open = loop
  BY <1>3, <1>4
<1> HIDE DEF o, pin, off, loop, open, c
<1>8. led' = [led EXCEPT !.ch = [led.ch EXCEPT ![i] = c], !.open = [led.open EXCEPT ![pin] = open],
                         !.met = led.met \/ led.entry.ch = i, !.at = Next1]
  BY <1>6
<1>9. led.ch[i].pin = pin /\ (led.open[pin] = led.ch[i].loop => open = c.loop)
  BY <1>5, <1>7 DEF o, pin
<1> HIDE DEF i
<1> QED
  BY <1>2, <1>4, <1>5, <1>8, <1>9, LedCounts DEF i

\* The lights keep their invariant while others take steps.
LEMMA LedFrame ==
  ASSUME LedInv, UNCHANGED led, caller'.pc = "blink" <=> caller.pc = "blink"
  PROVE  LedInv'
BY DEF LedInv, LedType, Entering, OnePin, Counted, Left

\* Every step of the lights.
LEMMA LedStep ==
  ASSUME ServiceInv, LedInv, UNCHANGED board, LedNext
  PROVE  /\ ServiceInv' /\ LedInv' /\ Apart("led")
         /\ caller.pc = "config" => caller'.pc = "config"
<1> USE DEF LedInv
<1>0. "led" \in Names
  BY DEF Names
<1>1. CASE \E pin \in Pins : LedStop(pin) \/ \E loop \in Counts \cup {-1} : LedBlink(pin, loop)
  <2>1. PICK pin \in Pins : LedStop(pin) \/ \E loop \in Counts \cup {-1} : LedBlink(pin, loop)
    BY <1>1
  <2>2. /\ UNCHANGED <<obj, periph, task>> /\ "led" \in board
        /\ periph["led"].state = "RUNNING"
    BY <2>1 DEF LedStop, LedBlink, Usable
  <2>3. CASE LedStop(pin)
    <3>1. Calls("idle", "led")
      BY <2>3 DEF LedStop
    <3> QED BY <1>0, <2>2, <2>3, <3>1, LedStopStep, CallsStep
  <2>4. CASE \E loop \in Counts \cup {-1} : LedBlink(pin, loop)
    <3>1. PICK loop \in Int : LedBlink(pin, loop)
      BY <2>4, PinsAre
    <3>2. LedInv'
      BY <3>1, LedBlinkStep
    <3>3. Placed("led")
      <4>1. caller.pc = "idle" /\ obj.live
        BY <3>1 DEF LedBlink, Calls
      <4> QED BY <2>2, <4>1 DEF ServiceInv, Kept, Up
    <3>4. PICK pc \in {"idle", "blink"} : Calls(pc, "led")
      BY <3>1 DEF LedBlink
    <3> QED BY <1>0, <2>2, <3>2, <3>3, <3>4, CallsStep
  <2> QED BY <2>1, <2>3, <2>4
<1>2. CASE LedBlinkSets
  <2>1. /\ caller.pc = "blink" /\ UNCHANGED <<obj, task>> /\ caller' = [caller EXCEPT !.pc = "idle"]
        /\ periph' = [periph EXCEPT !["led"].timer = TRUE]
    BY <1>2 DEF LedBlinkSets
  <2>2. "led" \in board /\ Placed("led") /\ task.pc # "destroy"
    BY <2>1 DEF ServiceInv, Kept, Tasked, Placed
  <2>3. ServiceInv' /\ Apart("led")
    BY <2>1, <2>2, TimerStep DEF Timed, Lit
  <2> QED BY <1>2, <2>1, <2>3, LedBlinkSetsStep
<1>3. CASE LedTimer \/ LedHandler
  <2>1. UNCHANGED service
    BY <1>3 DEF LedTimer, LedHandler, LedSkips, LedFinishes, LedFrees, LedToggles
  <2>2. LedInv'
    BY <1>3, <2>1, LedWalks, LedFreesStep, LedTogglesStep DEF LedHandler, service
  <2> QED BY <2>1, <2>2, SendApart DEF Calling
<1>4. CASE LedServe
  <2>1. CASE LedStarts
    <3>1. Held("init", "led") /\ InitReturns("led", FALSE, "RUNNING") /\ UNCHANGED led
      BY <2>1 DEF LedStarts
    <3>2. "led" \in board
      BY <3>1 DEF Held, At, ServiceInv, Kept, Placed
    <3>3. ServiceInv' /\ Calling /\ Apart("led")
      BY <3>1, <3>2, InitReturnsStep
    <3> QED BY <3>1, <3>3, LedFrame DEF Calling
  <2>2. CASE LedDestroy
    <3>1. Held("destroy", "led") /\ DestroyReturns("led") /\ UNCHANGED led
      BY <2>2 DEF LedDestroy
    <3>2. "led" \in board /\ ~periph["led"].timer
      <4>1. task.pc = "destroy" /\ task.at = "led"
        BY <3>1 DEF Held, At
      <4> QED BY <4>1, HeldIs DEF ServiceInv
    <3>3. ServiceInv' /\ Calling /\ Apart("led")
      BY <3>1, <3>2, DestroyReturnsStep
    <3> QED BY <3>1, <3>3, LedFrame DEF Calling
  <2> QED BY <1>4, <2>1, <2>2 DEF LedServe
<1> QED
  BY <1>1, <1>2, <1>3, <1>4 DEF LedNext

-----------------------------------------------------------------------------
(* The bluetooth service and the machine of its keys.                      *)

Codes == Keys \cup {NoKey}
HeldType == [code : Codes, tl : Nat]
AskType == [tl : Nat, code : Codes, way : {"pressed", "released"}]

BluetoothType ==
  /\ bt \in [live : BOOLEAN, up : BOOLEAN, stream : BOOLEAN, periph : BOOLEAN,
             remote : Phones \cup {"none"}, avrc : BOOLEAN, tl : Nat]
  /\ key \in [state : {"idle", "press", "release"}, tl : Nat, code : Codes,
              tmr : BOOLEAN, runs : BOOLEAN, zeroes : BOOLEAN]
  /\ phone \in [asked : Seq(AskType), held : HeldType, keys : Nat, raced : BOOLEAN]

\* While no two tasks met in the machine, the phone holds nothing before there is
\* a machine, and a code is forgotten only when no key is pressed.
Unraced ==
  ~phone.raced =>
    /\ bt.avrc /\ ~key.tmr => phone.held = NothingHeld
    /\ key.zeroes => key.state # "press"

BluetoothInv == BluetoothType /\ Unraced /\ PhoneHoldsOne

\* Transaction labels stay numbers.
LEMMA LabelsAre == \A n \in Nat : (n + 1) % Labels \in Nat /\ (n + 2) % Labels \in Nat
  BY BluetoothAssumption

\* The bluetooth begins in its invariant.
LEMMA BluetoothBegins == BluetoothInit => BluetoothInv
  BY DEF BluetoothInit, BluetoothInv, BluetoothType, Unraced, PhoneHoldsOne, ZeroKey, NothingHeld,
         HeldType, Codes

\* What is asked of the phone is in order.
LEMMA AskedIs ==
  ASSUME BluetoothType
  PROVE  /\ \A tl \in Nat, code \in Codes, way \in {"pressed", "released"} :
              Asks(tl, code, way) \in Seq(AskType) /\ Asks(tl, code, way) # <<>>
         /\ phone.asked # <<>> => Head(phone.asked) \in AskType /\ Tail(phone.asked) \in Seq(AskType)
<1>1. phone.asked \in Seq(AskType)
  BY DEF BluetoothType
<1>2. ASSUME NEW tl \in Nat, NEW code \in Codes, NEW way \in {"pressed", "released"}
      PROVE  Asks(tl, code, way) \in Seq(AskType) /\ Asks(tl, code, way) # <<>>
  <2>1. [tl |-> tl, code |-> code, way |-> way] \in AskType
    BY DEF AskType
  <2> QED BY <1>1, <2>1 DEF Asks
<1> QED
  BY <1>1, <1>2

\* The service and its peripheral: only a peripheral that is destroyed takes the
\* connection with it.
LEMMA BtServiceStep ==
  ASSUME BluetoothInv,
         BtStart \/ BtDestroy \/ BtCreate \/ BtStreamDestroy \/ BtServe
         \/ \E p \in Phones : A2dConnected(p) \/ A2dDisconnected(p)
  PROVE  BluetoothInv'
<1>0. UNCHANGED <<key, phone>>
  BY DEF BtStart, BtDestroy, BtCreate, BtStreamDestroy, BtServe, BtStarts, BtPeriphDestroy,
         A2dConnected, A2dDisconnected, bluetooths
<1>1. /\ bt' \in [live : BOOLEAN, up : BOOLEAN, stream : BOOLEAN, periph : BOOLEAN,
                  remote : Phones \cup {"none"}, avrc : BOOLEAN, tl : Nat]
      /\ bt'.avrc => bt.avrc
  <2>0. bt \in [live : BOOLEAN, up : BOOLEAN, stream : BOOLEAN, periph : BOOLEAN,
                 remote : Phones \cup {"none"}, avrc : BOOLEAN, tl : Nat]
    BY DEF BluetoothInv, BluetoothType
  <2>1. CASE BtStart
    BY <2>0, <2>1 DEF BtStart
  <2>2. CASE BtDestroy
    BY <2>0, <2>2 DEF BtDestroy
  <2>3. CASE BtCreate \/ BtStreamDestroy
    BY <2>0, <2>3 DEF BtCreate, BtStreamDestroy
  <2>4. CASE BtServe
    BY <2>0, <2>4 DEF BtServe, BtStarts, BtPeriphDestroy, bluetooths
  <2>5. CASE \E p \in Phones : A2dConnected(p) \/ A2dDisconnected(p)
    BY <2>0, <2>5 DEF A2dConnected, A2dDisconnected
  <2> QED BY <2>1, <2>2, <2>3, <2>4, <2>5
<1> QED
  BY <1>0, <1>1 DEF BluetoothInv, BluetoothType, Unraced, PhoneHoldsOne

\* The machine is set up and taken down.
LEMMA AvrcStep ==
  ASSUME BluetoothInv, AvrcConnects \/ KeySmInit \/ AvrcDisconnects \/ KeySmDeinit
  PROVE  BluetoothInv'
<1> USE DEF BluetoothInv
<1>1. <<>> \in Seq(AskType) /\ NothingHeld \in HeldType /\ ZeroKey.zeroes = FALSE /\ ZeroKey.state = "idle"
      /\ ZeroKey.tmr = FALSE
      /\ ZeroKey \in [state : {"idle", "press", "release"}, tl : Nat, code : Codes,
                      tmr : BOOLEAN, runs : BOOLEAN, zeroes : BOOLEAN]
  BY DEF NothingHeld, HeldType, Codes, ZeroKey
<1>2. CASE AvrcConnects
  BY <1>1, <1>2 DEF AvrcConnects, BluetoothType, Unraced, PhoneHoldsOne
<1>3. CASE KeySmInit
  <2>1. key' = [ZeroKey EXCEPT !.tmr = TRUE] /\ UNCHANGED <<bt, phone>> /\ bt.avrc /\ ~key.tmr
    BY <1>3 DEF KeySmInit
  <2>2. key' \in [state : {"idle", "press", "release"}, tl : Nat, code : Codes,
                  tmr : BOOLEAN, runs : BOOLEAN, zeroes : BOOLEAN]
        /\ key'.state = "idle" /\ ~key'.zeroes
    BY <1>1, <2>1
  <2> QED BY <2>1, <2>2 DEF BluetoothType, Unraced, PhoneHoldsOne
<1>4. CASE AvrcDisconnects
  BY <1>4 DEF AvrcDisconnects, BluetoothType, Unraced, PhoneHoldsOne
<1>5. CASE KeySmDeinit
  BY <1>1, <1>5 DEF KeySmDeinit, BluetoothType, Unraced, PhoneHoldsOne
<1> QED
  BY <1>2, <1>3, <1>4, <1>5

\* A key of the application: the machine was idle, or the key is dropped.
LEMMA BtKeyStep ==
  ASSUME BluetoothInv, NEW code \in Keys, BtKey(code) PROVE BluetoothInv'
<1> USE DEF BluetoothInv
<1>1. bt.avrc /\ bt' = [bt EXCEPT !.tl = (@ + 2) % Labels] /\ bt.tl \in Nat /\ code \in Codes
  BY DEF BtKey, BluetoothType, Codes
<1>2. bt' \in [live : BOOLEAN, up : BOOLEAN, stream : BOOLEAN, periph : BOOLEAN,
               remote : Phones \cup {"none"}, avrc : BOOLEAN, tl : Nat]
      /\ bt'.avrc = bt.avrc
  <2> DEFINE n == (bt.tl + 2) % Labels
  <2>1. n \in Nat
    BY <1>1, LabelsAre
  <2>2. bt' = [bt EXCEPT !.tl = n]
    BY <1>1
  <2> HIDE DEF n
  <2> QED BY <2>1, <2>2 DEF BluetoothType
<1>3. CASE key.state = "idle"
  <2> DEFINE h == [code |-> code, tl |-> bt.tl]
             r == phone.raced \/ key.zeroes \/ ~key.tmr
             q == Asks(bt.tl, code, "pressed")
  <2>1. key' = [key EXCEPT !.state = "press", !.tl = bt.tl, !.code = code, !.runs = key.tmr]
    BY <1>3 DEF BtKey
  <2>2. phone' = [asked |-> q, held |-> h, keys |-> phone.keys + 1, raced |-> r]
    BY <1>3 DEF BtKey
  <2>3. /\ key' \in [state : {"idle", "press", "release"}, tl : Nat, code : Codes,
                     tmr : BOOLEAN, runs : BOOLEAN, zeroes : BOOLEAN]
        /\ key'.state = "press" /\ key'.tl = bt.tl /\ key'.code = code
        /\ key'.zeroes = key.zeroes /\ key'.tmr = key.tmr
    BY <1>1, <2>1 DEF BluetoothType
  <2>4. q \in Seq(AskType) /\ h \in HeldType /\ phone.keys + 1 \in Nat /\ r \in BOOLEAN
    <3>1. q \in Seq(AskType)
      BY <1>1, AskedIs
    <3>2. h \in HeldType
      BY <1>1 DEF HeldType
    <3>3. phone.keys + 1 \in Nat /\ r \in BOOLEAN
      BY DEF BluetoothType
    <3> QED BY <3>1, <3>2, <3>3
  <2>5. phone'.held = h /\ phone'.raced = r
    BY <2>2
  <2>6. phone' \in [asked : Seq(AskType), held : HeldType, keys : Nat, raced : BOOLEAN]
    <3> HIDE DEF q, h, r
    <3> QED BY <2>2, <2>4
  <2> QED BY <1>2, <2>3, <2>5, <2>6 DEF BluetoothType, Unraced, PhoneHoldsOne
<1>4. CASE key.state # "idle"
  <2>1. key' = key /\ phone' = [phone EXCEPT !.keys = @ + 1]
    BY <1>4 DEF BtKey
  <2>2. phone' \in [asked : Seq(AskType), held : HeldType, keys : Nat, raced : BOOLEAN]
        /\ phone'.held = phone.held /\ phone'.raced = phone.raced
    BY <2>1 DEF BluetoothType
  <2> QED BY <1>2, <2>1, <2>2 DEF BluetoothType, Unraced, PhoneHoldsOne
<1> QED
  BY <1>3, <1>4

\* The answers of the phone and the time-out.
LEMMA AnswerStep ==
  ASSUME BluetoothInv, KeyPressed \/ KeyReleased \/ KeyForgotten \/ KeyUnanswered \/ KeyTimesOut
  PROVE  BluetoothInv'
<1> USE DEF BluetoothInv
<1>1. CASE KeyPressed
  <2> DEFINE a == Head(phone.asked)
             tl == (key.tl + 1) % Labels
             h == IF phone.held = [code |-> a.code, tl |-> a.tl] THEN NothingHeld ELSE phone.held
             q == Tail(Asks(tl, a.code, "released"))
  <2>1. /\ phone.asked # <<>> /\ ~key.zeroes /\ key.state = "press" /\ a.tl = key.tl /\ a.code = key.code
        /\ bt' = bt
    BY <1>1 DEF KeyPressed, Answers
  <2>2. key' = [key EXCEPT !.state = "release", !.tl = tl]
    BY <1>1 DEF KeyPressed
  <2>3. phone' = [phone EXCEPT !.asked = q, !.held = h]
    BY <1>1 DEF KeyPressed
  <2>4. a \in AskType /\ tl \in Nat
    BY <2>1, AskedIs, LabelsAre DEF BluetoothType
  <2>5. h \in HeldType /\ q \in Seq(AskType)
    <3>1. a.code \in Codes
      BY <2>4 DEF AskType
    <3> HIDE DEF a, tl
    <3>2. Asks(tl, a.code, "released") \in Seq(AskType) /\ Asks(tl, a.code, "released") # <<>>
      BY <2>4, <3>1, AskedIs
    <3>3. q \in Seq(AskType)
      BY <3>2
    <3>4. h \in HeldType
      BY DEF BluetoothType, HeldType, NothingHeld, Codes
    <3> QED BY <3>3, <3>4
  <2>6. ~phone.raced /\ bt.avrc /\ key.tmr => h = NothingHeld
    BY <2>1 DEF PhoneHoldsOne
  <2>7. ~phone.raced /\ bt.avrc /\ ~key.tmr => h = NothingHeld
    BY DEF Unraced
  <2> HIDE DEF a, tl, h, q
  <2>8. /\ key' \in [state : {"idle", "press", "release"}, tl : Nat, code : Codes,
                     tmr : BOOLEAN, runs : BOOLEAN, zeroes : BOOLEAN]
        /\ key'.state = "release" /\ key'.zeroes = key.zeroes /\ key'.tmr = key.tmr
    BY <2>2, <2>4 DEF BluetoothType
  <2>9. phone' \in [asked : Seq(AskType), held : HeldType, keys : Nat, raced : BOOLEAN]
        /\ phone'.held = h /\ phone'.raced = phone.raced
    BY <2>3, <2>5 DEF BluetoothType
  <2> QED BY <2>1, <2>6, <2>7, <2>8, <2>9 DEF BluetoothType, Unraced, PhoneHoldsOne
<1>2. CASE KeyReleased
  <2> DEFINE q == Tail(phone.asked)
  <2>1. /\ bt' = bt /\ key.state = "release" /\ phone' = [phone EXCEPT !.asked = q]
        /\ key' = [key EXCEPT !.state = "idle", !.runs = FALSE, !.zeroes = TRUE]
    BY <1>2 DEF KeyReleased
  <2>2. q \in Seq(AskType)
    BY <1>2, AskedIs DEF KeyReleased
  <2> HIDE DEF q
  <2>3. phone' \in [asked : Seq(AskType), held : HeldType, keys : Nat, raced : BOOLEAN]
        /\ phone'.held = phone.held /\ phone'.raced = phone.raced
    BY <2>1, <2>2 DEF BluetoothType
  <2>4. /\ key' \in [state : {"idle", "press", "release"}, tl : Nat, code : Codes,
                     tmr : BOOLEAN, runs : BOOLEAN, zeroes : BOOLEAN]
        /\ key'.state = "idle" /\ key'.tmr = key.tmr
    BY <2>1 DEF BluetoothType
  <2> QED BY <2>1, <2>3, <2>4 DEF BluetoothType, Unraced, PhoneHoldsOne
<1>3. CASE KeyForgotten
  <2>1. UNCHANGED <<bt, phone>> /\ key' = [key EXCEPT !.code = NoKey, !.zeroes = FALSE] /\ key.zeroes
    BY <1>3 DEF KeyForgotten
  <2>2. /\ key' \in [state : {"idle", "press", "release"}, tl : Nat, code : Codes,
                     tmr : BOOLEAN, runs : BOOLEAN, zeroes : BOOLEAN]
        /\ key'.state = key.state /\ key'.tmr = key.tmr /\ ~key'.zeroes
    BY <2>1 DEF BluetoothType, Codes
  <2> QED BY <2>1, <2>2 DEF BluetoothType, Unraced, PhoneHoldsOne
<1>4. CASE KeyUnanswered
  <2> DEFINE q == Tail(phone.asked)
  <2>1. UNCHANGED <<bt, key>> /\ phone' = [phone EXCEPT !.asked = q]
    BY <1>4 DEF KeyUnanswered
  <2>2. q \in Seq(AskType)
    BY <1>4, AskedIs DEF KeyUnanswered
  <2> HIDE DEF q
  <2>3. phone' \in [asked : Seq(AskType), held : HeldType, keys : Nat, raced : BOOLEAN]
        /\ phone'.held = phone.held /\ phone'.raced = phone.raced
    BY <2>1, <2>2 DEF BluetoothType
  <2> QED BY <2>1, <2>3 DEF BluetoothType, Unraced, PhoneHoldsOne
<1>5. CASE KeyTimesOut
  <2>1. /\ bt' = bt /\ phone' = [phone EXCEPT !.held = NothingHeld, !.asked = <<>>]
        /\ key' = [key EXCEPT !.state = "idle", !.tl = 0, !.code = NoKey, !.runs = FALSE]
    BY <1>5 DEF KeyTimesOut
  <2>2. NothingHeld \in HeldType /\ <<>> \in Seq(AskType)
    BY DEF NothingHeld, HeldType, Codes
  <2>3. phone' \in [asked : Seq(AskType), held : HeldType, keys : Nat, raced : BOOLEAN]
        /\ phone'.held = NothingHeld /\ phone'.raced = phone.raced
    BY <2>1, <2>2 DEF BluetoothType
  <2>4. /\ key' \in [state : {"idle", "press", "release"}, tl : Nat, code : Codes,
                     tmr : BOOLEAN, runs : BOOLEAN, zeroes : BOOLEAN]
        /\ key'.state = "idle" /\ key'.tmr = key.tmr /\ key'.zeroes = key.zeroes
    BY <2>1 DEF BluetoothType, Codes
  <2> QED BY <2>1, <2>3, <2>4 DEF BluetoothType, Unraced, PhoneHoldsOne
<1> QED
  BY <1>1, <1>2, <1>3, <1>4, <1>5

\* The invariant of the bluetooth is inductive.
LEMMA BluetoothStep == BluetoothInv /\ [BluetoothNext]_bluetooths => BluetoothInv'
<1> SUFFICES ASSUME BluetoothInv, [BluetoothNext]_bluetooths PROVE BluetoothInv'
  OBVIOUS
<1>1. CASE UNCHANGED bluetooths
  BY <1>1 DEF bluetooths, BluetoothInv, BluetoothType, Unraced, PhoneHoldsOne
<1> QED
  BY <1>1, BtServiceStep, AvrcStep, BtKeyStep, AnswerStep DEF BluetoothNext, KeyMachine

-----------------------------------------------------------------------------
(* The station: its link, the events under way and the bits.               *)

Joining == {"idle", "trying", "up"}
Links == Joining \cup {"off", "leaving", "gone"}
StackEvents == {"START", "GOT_IP", "DISCONNECTED"}
StackType == [link : Links, events : Seq(StackEvents), ap : BOOLEAN, drops : Nat]
WifiStates == {"DISCONNECTED", "CONNECTING", "CONNECTED", "SETTING", "CONFIG_ERROR"}
                \cup {"CONFIG_" \o r : r \in {"DONE", "ERROR"}}

WifiType ==
  /\ wifi \in [state : WifiStates, bits : SUBSET {"CONNECTED", "DISCONNECTED", "DONE", "ERROR"},
               manual : BOOLEAN, timer : {"idle", "connects"}, early : BOOLEAN]
  /\ stack \in StackType
  /\ setup \in [pc : {"idle", "disconnects", "clears", "waits", "done"},
                sc : {"off", "listens", "linked", "over"}, early : BOOLEAN]

\* The last event says how the link is, and once none is under way the bits do.
Heard(link, events, bits, early) ==
  /\ link = "off" => events = <<>> /\ "CONNECTED" \notin bits
  /\ ~("CONNECTED" \in bits /\ "DISCONNECTED" \in bits)
  /\ \A i \in 2 .. Len(events) : events[i] # "START"
  /\ events # <<>> =>
       /\ Head(events) = "START" => "CONNECTED" \notin bits
       /\ link \in Joining => (events[Len(events)] = "GOT_IP" <=> link = "up")
  /\ events = <<>> /\ ~early /\ link \in Joining => ("CONNECTED" \in bits <=> link = "up")

\* The station is there while the peripheral is in its place, and before that one is up
\* only in its init function.
Stationed ==
  /\ stack.link \notin {"off", "gone"} => Placed("wifi")
  /\ stack.link = "leaving" => wifi.manual /\ ~periph["wifi"].timer
  /\ "wifi" \in board /\ ~Up("wifi") =>
       /\ stack.link \in Joining \/ stack.events # <<>> => task.pc = "init" /\ task.at = "wifi"
       /\ ~wifi.early => "CONNECTED" \notin wifi.bits

\* Who sets up waits in its call, for a result that is left there.
SettingUp ==
  /\ setup.pc \in {"disconnects", "clears", "waits"} => caller.pc = "config"
  /\ setup.pc = "waits" /\ setup.sc = "over" /\ ~setup.early => wifi.bits \cap {"DONE", "ERROR"} # {}

WifiInv ==
  /\ WifiType /\ Heard(stack.link, stack.events, wifi.bits, wifi.early)
  /\ Stationed /\ SettingUp

\* The station begins in its invariant.
LEMMA WifiBegins == WifiInit /\ ServiceInit => WifiInv
<1> SUFFICES ASSUME WifiInit, ServiceInit PROVE WifiInv
  OBVIOUS
<1>1. /\ wifi = [state |-> "DISCONNECTED", bits |-> {}, manual |-> FALSE, timer |-> "idle", early |-> FALSE]
      /\ stack = [link |-> "off", events |-> <<>>, ap |-> TRUE, drops |-> 0]
      /\ setup = [pc |-> "idle", sc |-> "off", early |-> FALSE]
  BY DEF WifiInit
<1>2. WifiType
  BY <1>1 DEF WifiType, StackType, Links, StackEvents, WifiStates, Joining
<1>3. Heard(stack.link, stack.events, wifi.bits, wifi.early)
  BY <1>1 DEF Heard, Joining
<1> QED
  BY <1>1, <1>2, <1>3 DEF WifiInv, Stationed, SettingUp, Joining

\* An event is posted, that says how the link is from now on.
LEMMA HeardPosts ==
  ASSUME NEW link, NEW events \in Seq(StackEvents), NEW bits, NEW early, Heard(link, events, bits, early),
         NEW e \in {"GOT_IP", "DISCONNECTED"}, NEW to, to # "off",
         to \in Joining => (e = "GOT_IP" <=> to = "up")
  PROVE  /\ Heard(to, Append(events, e), bits, early)
         /\ Append(events, e) \in Seq(StackEvents)
<1> DEFINE t == Append(events, e)
<1>1. /\ t \in Seq(StackEvents) /\ Len(t) = Len(events) + 1 /\ Len(events) \in Nat
      /\ t[Len(events) + 1] = e /\ \A i \in 1 .. Len(events) : t[i] = events[i]
  BY DEF StackEvents
<1>2. Head(t) = t[1] /\ t # <<>> /\ (events # <<>> => Head(events) = events[1] /\ Len(events) # 0)
      /\ (events = <<>> => Len(events) = 0)
  OBVIOUS
<1> HIDE DEF t
<1>3. \A i \in 2 .. Len(t) : t[i] # "START"
  <2> TAKE i \in 2 .. Len(t)
  <2>1. CASE i = Len(events) + 1
    BY <1>1, <2>1
  <2>2. CASE i # Len(events) + 1
    <3>1. i \in 2 .. Len(events) /\ i \in 1 .. Len(events)
      BY <1>1, <2>2
    <3> QED BY <1>1, <3>1 DEF Heard
  <2> QED BY <2>1, <2>2
<1>4. Head(t) = "START" => "CONNECTED" \notin bits
  <2>1. CASE events = <<>>
    BY <1>1, <1>2, <2>1
  <2>2. CASE events # <<>>
    <3>1. 1 \in 1 .. Len(events)
      BY <1>1, <1>2, <2>2
    <3> QED BY <1>1, <1>2, <2>2, <3>1 DEF Heard
  <2> QED BY <2>1, <2>2
<1>5. t[Len(t)] = e
  BY <1>1
<1>6. Heard(to, t, bits, early)
  BY <1>2, <1>3, <1>4, <1>5 DEF Heard
<1> QED
  BY <1>1, <1>6 DEF t

\* The link changes where no event tells.
LEMMA HeardGoes ==
  ASSUME NEW link, NEW events, NEW bits, NEW early, Heard(link, events, bits, early),
         NEW to, to # "off", to \in Joining => link \in Joining /\ (to = "up" <=> link = "up")
  PROVE  Heard(to, events, bits, early)
BY DEF Heard

\* An event is handled.
LEMMA HeardTells ==
  ASSUME NEW link, NEW events \in Seq(StackEvents), NEW bits, NEW early, Heard(link, events, bits, early),
         events # <<>>, NEW b, NEW f, ~f => ~early,
         \/ Head(events) = "START" /\ b = bits
         \/ Head(events) = "GOT_IP" /\ b = (bits \ {"DISCONNECTED"}) \cup {"CONNECTED"}
         \/ Head(events) = "DISCONNECTED" /\ b = (bits \ {"CONNECTED"}) \cup {"DISCONNECTED"}
  PROVE  Heard(link, Tail(events), b, f) /\ Tail(events) \in Seq(StackEvents)
<1> DEFINE t == Tail(events)
<1>1. /\ t \in Seq(StackEvents) /\ Len(t) = Len(events) - 1 /\ Len(events) \in Nat /\ Len(events) # 0
      /\ \A i \in 1 .. Len(t) : t[i] = events[i + 1]
      /\ Head(events) = events[1]
  OBVIOUS
<1> HIDE DEF t
<1>2. t # <<>> => Head(t) = t[1] /\ Len(t) # 0
  BY <1>1
<1>3. t = <<>> => Len(t) = 0
  OBVIOUS
<1>4. \A i \in 1 .. Len(t) : t[i] # "START"
  <2> TAKE i \in 1 .. Len(t)
  <2>1. i + 1 \in 2 .. Len(events)
    BY <1>1
  <2> QED BY <1>1, <2>1 DEF Heard
<1>5. \A i \in 2 .. Len(t) : t[i] # "START"
  <2> TAKE i \in 2 .. Len(t)
  <2>1. i \in 1 .. Len(t)
    BY <1>1
  <2> QED BY <1>4, <2>1
<1>6. t # <<>> => Head(t) # "START" /\ t[Len(t)] = events[Len(events)]
  <2> SUFFICES ASSUME t # <<>> PROVE Head(t) # "START" /\ t[Len(t)] = events[Len(events)]
    OBVIOUS
  <2>1. 1 \in 1 .. Len(t) /\ Len(t) \in 1 .. Len(t) /\ Len(t) + 1 = Len(events)
    BY <1>1, <1>2
  <2> QED BY <1>1, <1>2, <1>4, <2>1
<1>7. t = <<>> => events[Len(events)] = Head(events)
  <2>1. t = <<>> => Len(events) = 1
    BY <1>1, <1>3
  <2> QED BY <1>1, <2>1
<1>8. link # "off" /\ ~("CONNECTED" \in b /\ "DISCONNECTED" \in b)
  BY DEF Heard
<1>9. t = <<>> /\ ~f /\ link \in Joining => ("CONNECTED" \in b <=> link = "up")
  BY <1>7 DEF Heard
<1>10. t # <<>> /\ link \in Joining => (t[Len(t)] = "GOT_IP" <=> link = "up")
  BY <1>6 DEF Heard
<1>11. Heard(link, t, b, f)
  BY <1>5, <1>6, <1>8, <1>9, <1>10 DEF Heard
<1> QED
  BY <1>1, <1>11 DEF t

\* Other bits are set or cleared.
LEMMA HeardElse ==
  ASSUME NEW link, NEW events, NEW bits, NEW early, Heard(link, events, bits, early), NEW b,
         "CONNECTED" \in b <=> "CONNECTED" \in bits, "DISCONNECTED" \in b <=> "DISCONNECTED" \in bits
  PROVE  Heard(link, events, b, early)
BY DEF Heard

\* What esp_wifi_connect and esp_wifi_disconnect leave.
LEMMA LinkIs ==
  ASSUME WifiInv
  PROVE  /\ Connecting \in StackType /\ Connecting.events = stack.events
         /\ Connecting.link = IF stack.link = "idle" THEN "trying" ELSE stack.link
         /\ Heard(Connecting.link, stack.events, wifi.bits, wifi.early)
         /\ Disconnecting \in StackType
         /\ Disconnecting.link = IF stack.link \in {"trying", "up"} THEN "idle" ELSE stack.link
         /\ stack.link \notin {"trying", "up"} => Disconnecting = stack
         /\ Heard(Disconnecting.link, Disconnecting.events, wifi.bits, wifi.early)
<1> USE DEF WifiInv, WifiType
<1> DEFINE c == Connecting
           d == Disconnecting
<1>1. /\ c = IF stack.link = "idle" THEN [stack EXCEPT !.link = "trying"] ELSE stack
      /\ stack.link \notin {"trying", "up"} => d = stack
      /\ stack.link \in {"trying", "up"} =>
           d = [stack EXCEPT !.link = "idle", !.events = Append(stack.events, "DISCONNECTED")]
  BY DEF Connecting, Disconnecting, Posted
<1> HIDE DEF c, d
<1>2. /\ c \in StackType /\ c.events = stack.events
      /\ c.link = IF stack.link = "idle" THEN "trying" ELSE stack.link
  BY <1>1 DEF StackType, Links, Joining
<1>3. Heard(c.link, stack.events, wifi.bits, wifi.early)
  BY <1>2, HeardGoes DEF Joining
<1>4. CASE stack.link \notin {"trying", "up"}
  BY <1>1, <1>2, <1>3, <1>4 DEF c, d
<1>5. CASE stack.link \in {"trying", "up"}
  <2> DEFINE ev == Append(stack.events, "DISCONNECTED")
  <2>1. /\ Heard("idle", ev, wifi.bits, wifi.early)
        /\ ev \in Seq(StackEvents)
    BY HeardPosts DEF StackType, Joining
  <2>2. d = [stack EXCEPT !.link = "idle", !.events = ev]
    BY <1>1, <1>5
  <2> HIDE DEF ev
  <2>3. d \in StackType /\ d.link = "idle" /\ d.events = ev
    BY <2>1, <2>2 DEF StackType, Links, Joining
  <2> QED BY <1>2, <1>3, <1>5, <2>1, <2>3 DEF c, d
<1> QED
  BY <1>4, <1>5

\* The timer of the station, as the others see it.
LEMMA StationTimer ==
  ASSUME ServiceInv, UNCHANGED <<board, obj, task, caller>>, NEW p \in board, p = "wifi",
         NEW on \in BOOLEAN, Timed(p, on), on => Placed(p)
  PROVE  /\ ServiceInv' /\ Apart(p) /\ Calling /\ Quiet(p)
         /\ periph'[p].timer = on /\ (Up(p)' <=> Up(p))
         /\ Placed(p) => Placed(p)'
<1>1. /\ UNCHANGED caller \/ Lit
      /\ p = "wifi" \/ task.pc # "destroy"
      /\ UNCHANGED <<board, obj, task>>
  OBVIOUS
<1>2. ServiceInv'
  BY <1>1, TimerStep
<1>3. Apart(p)
  BY <1>1, TimerStep
<1>4. Up(p)' <=> Up(p)
  BY <1>1, TimerStep
<1>5. periph'[p].timer = on
  BY <1>1, TimerStep
<1>6. Placed(p) => Placed(p)'
  BY DEF Placed, Listed, Resting
<1>7. Calling /\ Quiet(p)
  BY QuietKinds DEF Calling
<1> QED
  BY <1>2, <1>3, <1>4, <1>5, <1>6, <1>7

\* Any other step than those of init and destroy brings the station up or down by itself.
LEMMA StationKeeps ==
  ASSUME WifiInv, UNCHANGED board, WifiType', SettingUp',
         Heard(stack'.link, stack'.events, wifi'.bits, wifi'.early),
         stack'.link \in Joining \/ stack'.events # <<>> => stack.link \in Joining \/ stack.events # <<>>,
         stack'.link \notin {"off", "gone"} => stack.link \notin {"off", "gone"},
         stack'.link = "leaving" =>
           /\ stack.link = "leaving" /\ (wifi.manual => wifi'.manual)
           /\ periph'["wifi"].timer => periph["wifi"].timer,
         Placed("wifi") => Placed("wifi")',
         "wifi" \in board => (Up("wifi")' <=> Up("wifi")),
         "wifi" \in board /\ task.pc = "init" /\ task.at = "wifi" => task' = task,
         "wifi" \in board /\ ~Up("wifi") /\ ~wifi'.early =>
           ~wifi.early /\ ("CONNECTED" \in wifi'.bits => "CONNECTED" \in wifi.bits)
  PROVE  WifiInv'
<1>1. Heard(stack.link, stack.events, wifi.bits, wifi.early)'
  BY DEF Heard, Joining
<1>2. /\ stack'.link \notin {"off", "gone"} => Placed("wifi")'
      /\ stack'.link = "leaving" => wifi'.manual /\ ~periph'["wifi"].timer
  BY DEF WifiInv, Stationed
<1>3. ASSUME "wifi" \in board, ~Up("wifi")'
      PROVE  /\ stack'.link \in Joining \/ stack'.events # <<>> => task'.pc = "init" /\ task'.at = "wifi"
             /\ ~wifi'.early => "CONNECTED" \notin wifi'.bits
  <2>1. ~Up("wifi")
    BY <1>3
  <2> QED BY <1>3, <2>1 DEF WifiInv, Stationed
<1>4. Stationed'
  BY <1>2, <1>3 DEF Stationed, Joining
<1> QED
  BY <1>1, <1>4 DEF WifiInv

\* The others leave the station alone.
LEMMA WifiFrame ==
  ASSUME ServiceInv, WifiInv, UNCHANGED <<board, wifis>>, NEW x, x # "wifi", Apart(x),
         caller.pc = "config" => caller'.pc = "config"
  PROVE  WifiInv'
<1>1. UNCHANGED <<wifi, stack, setup>>
  BY DEF wifis
<1>2. WifiType' /\ SettingUp'
  BY <1>1 DEF WifiInv, WifiType, SettingUp, StackType, Links, StackEvents, WifiStates, Joining
<1>3. /\ Placed("wifi") => Placed("wifi")'
      /\ "wifi" \in board => (Up("wifi")' <=> Up("wifi"))
      /\ "wifi" \in board /\ task.pc = "init" /\ task.at = "wifi" => task' = task
      /\ "wifi" \in board => (periph'["wifi"].timer => periph["wifi"].timer)
  BY DEF Apart, Placed
<1>4. stack.link = "leaving" => "wifi" \in board
  BY DEF WifiInv, Stationed, Placed
<1> QED
  BY <1>1, <1>2, <1>3, <1>4, StationKeeps DEF WifiInv

\* What the stack does by itself, and what its events tell the station.
LEMMA StackMoves ==
  ASSUME WifiInv, LinkUp \/ LinkFails \/ ApGoes \/ ApComes \/ ReconnectConnects
  PROVE  /\ WifiType' /\ Heard(stack'.link, stack'.events, wifi'.bits, wifi'.early)
         /\ stack'.link \in Joining \/ stack'.events # <<>> => stack.link \in Joining \/ stack.events # <<>>
         /\ stack'.link \notin {"off", "gone"} => stack.link \notin {"off", "gone"}
         /\ stack'.link = "leaving" => stack.link = "leaving"
         /\ wifi'.manual = wifi.manual /\ wifi'.early = wifi.early /\ wifi'.bits = wifi.bits
         /\ UNCHANGED <<service, setup>>
<1> USE DEF WifiInv
<1>1. /\ stack \in StackType /\ wifi \in [state : WifiStates,
               bits : SUBSET {"CONNECTED", "DISCONNECTED", "DONE", "ERROR"},
               manual : BOOLEAN, timer : {"idle", "connects"}, early : BOOLEAN]
      /\ setup \in [pc : {"idle", "disconnects", "clears", "waits", "done"},
                sc : {"off", "listens", "linked", "over"}, early : BOOLEAN]
  BY DEF WifiType
<1>2. ASSUME NEW to \in Joining, NEW e \in {"GOT_IP", "DISCONNECTED"}, e = "GOT_IP" <=> to = "up",
             NEW ap \in BOOLEAN, NEW drops \in Nat, stack.link \in {"trying", "up"},
             UNCHANGED <<service, wifi, setup>>,
             stack' = [link |-> to, events |-> Append(stack.events, e), ap |-> ap, drops |-> drops]
      PROVE  /\ WifiType' /\ Heard(stack'.link, stack'.events, wifi'.bits, wifi'.early)
             /\ stack'.link \in Joining /\ stack.link \in Joining
  <2> DEFINE ev == Append(stack.events, e)
  <2>1. ev \in Seq(StackEvents) /\ Heard(to, ev, wifi.bits, wifi.early)
    BY <1>1, <1>2, HeardPosts DEF StackType, Joining
  <2>2. stack' = [link |-> to, events |-> ev, ap |-> ap, drops |-> drops]
    BY <1>2
  <2> HIDE DEF ev
  <2>3. stack' \in StackType /\ stack'.link = to /\ stack'.events = ev
    BY <2>1, <2>2 DEF StackType, Links
  <2> QED BY <1>1, <1>2, <2>1, <2>3 DEF WifiType, Joining
<1>3. stack = [link |-> stack.link, events |-> stack.events, ap |-> stack.ap, drops |-> stack.drops]
      /\ stack.drops \in Nat /\ stack.ap \in BOOLEAN
  BY <1>1 DEF StackType
<1>4. ASSUME NEW s \in StackType, s.events = stack.events, UNCHANGED <<service, setup>>, stack' = s,
             Heard(s.link, s.events, wifi.bits, wifi.early), s.link # stack.link => s.link \in Joining /\ stack.link \in Joining,
             wifi' = wifi \/ wifi' = [wifi EXCEPT !.timer = "idle"]
      PROVE  /\ WifiType' /\ Heard(stack'.link, stack'.events, wifi'.bits, wifi'.early)
             /\ stack'.link \in Joining \/ stack'.events # <<>> => stack.link \in Joining \/ stack.events # <<>>
             /\ stack'.link \notin {"off", "gone"} => stack.link \notin {"off", "gone"}
             /\ stack'.link = "leaving" => stack.link = "leaving"
             /\ wifi'.manual = wifi.manual /\ wifi'.early = wifi.early /\ wifi'.bits = wifi.bits
  BY <1>1, <1>4 DEF WifiType, Joining
<1>5. CASE LinkUp
  <2>1. stack' = [link |-> "up", events |-> Append(stack.events, "GOT_IP"), ap |-> stack.ap, drops |-> stack.drops]
    BY <1>1, <1>5 DEF LinkUp, Posted, StackType
  <2> QED BY <1>2, <1>3, <1>5, <2>1 DEF LinkUp, Joining
<1>6. CASE LinkFails
  <2>1. stack' = [link |-> "idle", events |-> Append(stack.events, "DISCONNECTED"), ap |-> stack.ap, drops |-> stack.drops]
    BY <1>1, <1>6 DEF LinkFails, Posted, StackType
  <2> QED BY <1>2, <1>3, <1>6, <2>1 DEF LinkFails, Joining
<1>7. CASE ApGoes
  <2> DEFINE n == stack.drops + 1
  <2>1. n \in Nat
    BY <1>3
  <2>2. CASE stack.link = "up"
    <3>1. stack' = [link |-> "idle", events |-> Append(stack.events, "DISCONNECTED"), ap |-> FALSE, drops |-> n]
      BY <1>1, <1>7, <2>2 DEF ApGoes, Posted, StackType
    <3> HIDE DEF n
    <3> QED BY <1>2, <1>7, <2>1, <2>2, <3>1 DEF ApGoes, Joining
  <2>3. CASE stack.link # "up"
    <3>1. stack' = [stack EXCEPT !.ap = FALSE, !.drops = n]
      BY <1>7, <2>3 DEF ApGoes
    <3> HIDE DEF n
    <3>2. stack' \in StackType /\ stack'.link = stack.link /\ stack'.events = stack.events
      BY <1>1, <2>1, <3>1 DEF StackType
    <3> QED BY <1>4, <1>7, <3>2 DEF ApGoes
  <2> QED BY <2>2, <2>3
<1>8. CASE ApComes
  <2>1. stack' \in StackType /\ stack'.link = stack.link /\ stack'.events = stack.events
    BY <1>1, <1>8 DEF ApComes, StackType
  <2> QED BY <1>4, <1>8, <2>1 DEF ApComes
<1>9. CASE ReconnectConnects
  <2>1. /\ Connecting \in StackType /\ Connecting.events = stack.events
        /\ Connecting.link = IF stack.link = "idle" THEN "trying" ELSE stack.link
        /\ Heard(Connecting.link, stack.events, wifi.bits, wifi.early)
    BY LinkIs
  <2> QED BY <1>4, <1>9, <2>1 DEF ReconnectConnects, Joining
<1> QED
  BY <1>5, <1>6, <1>7, <1>8, <1>9

\* An event tells the station.
LEMMA EventsStep ==
  ASSUME ServiceInv, WifiInv, UNCHANGED board, WifiEvents
  PROVE  ServiceInv' /\ WifiInv' /\ Calling /\ Apart("wifi") /\ Quiet("wifi")
<1> USE DEF WifiInv
<1>1. /\ stack \in StackType /\ wifi \in [state : WifiStates,
               bits : SUBSET {"CONNECTED", "DISCONNECTED", "DONE", "ERROR"},
               manual : BOOLEAN, timer : {"idle", "connects"}, early : BOOLEAN]
      /\ setup \in [pc : {"idle", "disconnects", "clears", "waits", "done"},
                sc : {"off", "listens", "linked", "over"}, early : BOOLEAN]
  BY DEF WifiType
<1> DEFINE t == Tail(stack.events)
<1>2. /\ stack.events # <<>> /\ stack.link \notin {"off", "gone"} /\ UNCHANGED setup
      /\ stack'.events = t /\ stack' \in StackType
      /\ stack'.link = stack.link \/ (stack.link = "idle" /\ stack'.link = "trying")
  <2>1. /\ stack.events # <<>> /\ stack.link \notin {"off", "gone"} /\ UNCHANGED setup
    BY DEF WifiEvents, StaStart, StaGotIp, StaDisconnected, Handles, Heard
  <2>2. t \in Seq(StackEvents)
    BY <1>1, <2>1 DEF StackType
  <2>3. stack' = [stack EXCEPT !.events = t] \/ stack' = [Connecting EXCEPT !.events = t]
    BY DEF WifiEvents, StaStart, StaGotIp, StaDisconnected, Handled, Connecting
  <2> HIDE DEF t
  <2>4. /\ Connecting \in StackType
        /\ Connecting.link = IF stack.link = "idle" THEN "trying" ELSE stack.link
    BY LinkIs
  <2>5. CASE stack' = [stack EXCEPT !.events = t]
    BY <1>1, <2>1, <2>2, <2>5 DEF StackType
  <2>6. CASE stack' = [Connecting EXCEPT !.events = t]
    <3> DEFINE c == Connecting
    <3>1. c \in StackType /\ c.link = (IF stack.link = "idle" THEN "trying" ELSE stack.link)
          /\ stack' = [c EXCEPT !.events = t]
      BY <2>4, <2>6
    <3> HIDE DEF c
    <3>2. stack' \in StackType /\ stack'.events = t /\ stack'.link = c.link
      BY <2>2, <3>1 DEF StackType
    <3> QED BY <2>1, <3>1, <3>2
  <2> QED BY <2>3, <2>5, <2>6
<1>3. Placed("wifi") /\ "wifi" \in board
  BY <1>2 DEF Stationed, Placed
<1>4. WifiType' /\ (wifi.early => wifi'.early) /\ wifi'.manual = wifi.manual
      /\ \/ Head(stack.events) = "START" /\ wifi'.bits = wifi.bits
         \/ /\ Head(stack.events) = "GOT_IP" /\ (wifi'.early <=> wifi.early \/ InInit)
            /\ wifi'.bits = (wifi.bits \ {"DISCONNECTED"}) \cup {"CONNECTED"}
         \/ Head(stack.events) = "DISCONNECTED" /\ wifi'.bits = (wifi.bits \ {"CONNECTED"}) \cup {"DISCONNECTED"}
  <2>1. CASE StaStart
    <3>1. wifi' = [wifi EXCEPT !.state = "CONNECTING"] /\ Head(stack.events) = "START"
      BY <2>1 DEF StaStart, Handles
    <3> QED BY <1>1, <1>2, <3>1 DEF WifiType, WifiStates
  <2>2. CASE StaGotIp
    <3> DEFINE b == (wifi.bits \ {"DISCONNECTED"}) \cup {"CONNECTED"}
               f == wifi.early \/ InInit
    <3>1. wifi' = [wifi EXCEPT !.state = "CONNECTED", !.bits = b, !.early = f] /\ Head(stack.events) = "GOT_IP"
      BY <2>2 DEF StaGotIp, Handles
    <3>2. b \in SUBSET {"CONNECTED", "DISCONNECTED", "DONE", "ERROR"} /\ f \in BOOLEAN
      BY <1>1
    <3>3. wifi.early => f
      OBVIOUS
    <3>4. /\ wifi'.bits = b /\ wifi'.early = f /\ wifi'.manual = wifi.manual /\ WifiType'
      <4> HIDE DEF b, f
      <4> QED BY <1>1, <1>2, <3>1, <3>2 DEF WifiType, WifiStates
    <3> QED BY <3>1, <3>3, <3>4
  <2>3. CASE StaDisconnected
    <3> DEFINE b == (wifi.bits \ {"CONNECTED"}) \cup {"DISCONNECTED"}
    <3>1. wifi' = [wifi EXCEPT !.state = "DISCONNECTED", !.bits = b] /\ Head(stack.events) = "DISCONNECTED"
      BY <2>3 DEF StaDisconnected, Handles
    <3>2. b \in SUBSET {"CONNECTED", "DISCONNECTED", "DONE", "ERROR"}
      BY <1>1
    <3>3. wifi'.bits = b /\ wifi'.early = wifi.early /\ wifi'.manual = wifi.manual /\ WifiType'
      <4> HIDE DEF b
      <4> QED BY <1>1, <1>2, <3>1, <3>2 DEF WifiType, WifiStates
    <3> QED BY <3>1, <3>3
  <2> QED BY <2>1, <2>2, <2>3 DEF WifiEvents
<1>5. Heard(stack'.link, stack'.events, wifi'.bits, wifi'.early)
  <2>1. Heard(stack.link, t, wifi'.bits, wifi'.early)
    <3>1. stack.events \in Seq(StackEvents)
      BY <1>1 DEF StackType
    <3> HIDE DEF t
    <3> QED BY <1>2, <1>4, <3>1, HeardTells DEF t
  <2> HIDE DEF t
  <2> QED BY <1>2, <2>1, HeardGoes DEF Joining
<1>6. /\ ServiceInv' /\ Calling /\ Apart("wifi") /\ Quiet("wifi") /\ UNCHANGED <<task, caller>>
      /\ periph'["wifi"].timer => periph["wifi"].timer \/ ~wifi.manual
      /\ (Up("wifi")' <=> Up("wifi")) /\ (Placed("wifi") => Placed("wifi")')
  <2>1. CASE UNCHANGED service
    <3>1. UNCHANGED <<obj, periph, task, caller>>
      BY <2>1 DEF service
    <3>2. ServiceInv' /\ Calling /\ Apart("wifi") /\ Quiet("wifi")
      BY <2>1, SendApart, QuietKinds
    <3>3. Placed("wifi") => Placed("wifi")'
      BY <3>1 DEF Placed, Listed, Resting
    <3> QED BY <3>1, <3>2, <3>3 DEF Up
  <2>2. CASE ~UNCHANGED service
    <3>1. periph' = [periph EXCEPT !["wifi"].timer = TRUE] /\ UNCHANGED <<obj, task, caller>> /\ ~wifi.manual
      BY <2>2 DEF WifiEvents, StaStart, StaGotIp, StaDisconnected
    <3>0. Timed("wifi", TRUE)
      BY <3>1 DEF Timed
    <3>2. UNCHANGED <<board, obj, task, caller>>
      BY <3>1
    <3>3. /\ ServiceInv' /\ Apart("wifi") /\ Calling /\ Quiet("wifi")
          /\ (Up("wifi")' <=> Up("wifi")) /\ (Placed("wifi") => Placed("wifi")')
      BY <1>3, <3>0, <3>2, StationTimer
    <3> QED BY <3>1, <3>3
  <2> QED BY <2>1, <2>2
<1>7. ~Up("wifi") /\ ~wifi'.early => ~wifi.early /\ ("CONNECTED" \in wifi'.bits => "CONNECTED" \in wifi.bits)
  <2>1. ~Up("wifi") => InInit
    <3>1. ~Up("wifi") => task.pc = "init" /\ task.at = "wifi"
      BY <1>2, <1>3 DEF Stationed
    <3>2. task.pc = "init" => obj.live
      BY DEF ServiceInv, Tasked, Resting
    <3> QED BY <3>1, <3>2 DEF InInit, At
  <2> QED BY <1>4, <2>1
<1>8. SettingUp'
  <2>1. wifi'.bits \cap {"DONE", "ERROR"} = wifi.bits \cap {"DONE", "ERROR"}
    BY <1>4
  <2> QED BY <1>2, <1>6, <2>1 DEF SettingUp
<1>9. /\ stack'.link \in Joining \/ stack'.events # <<>> => stack.link \in Joining \/ stack.events # <<>>
      /\ stack'.link \notin {"off", "gone"} => stack.link \notin {"off", "gone"}
      /\ stack'.link = "leaving" => stack.link = "leaving"
  <2> HIDE DEF t
  <2> QED BY <1>2
<1>10. stack.link = "leaving" => wifi.manual
  BY DEF Stationed
<1>11. WifiInv'
  <2> HIDE DEF t
  <2> QED BY <1>3, <1>4, <1>5, <1>6, <1>7, <1>8, <1>9, <1>10, StationKeeps
<1> QED
  BY <1>6, <1>11

\* The stack answers, the access point comes and goes, the timer fires and connects.
LEMMA StackStep ==
  ASSUME ServiceInv, WifiInv, UNCHANGED board, Stack \/ ApGoes \/ ReconnectFires \/ ReconnectConnects
  PROVE  ServiceInv' /\ WifiInv' /\ Calling /\ Apart("wifi") /\ Quiet("wifi")
<1>1. CASE Stack \/ ApGoes \/ ReconnectConnects
  <2>1. /\ WifiType' /\ Heard(stack'.link, stack'.events, wifi'.bits, wifi'.early)
        /\ stack'.link \in Joining \/ stack'.events # <<>> => stack.link \in Joining \/ stack.events # <<>>
        /\ stack'.link \notin {"off", "gone"} => stack.link \notin {"off", "gone"}
        /\ stack'.link = "leaving" => stack.link = "leaving"
        /\ wifi'.manual = wifi.manual /\ wifi'.early = wifi.early /\ wifi'.bits = wifi.bits
        /\ UNCHANGED <<service, setup>>
    BY <1>1, StackMoves DEF Stack
  <2>2. UNCHANGED <<obj, periph, task, caller>>
    BY <2>1 DEF service
  <2>3. ServiceInv' /\ Calling /\ Apart("wifi") /\ Quiet("wifi")
    BY <2>1, SendApart, QuietKinds
  <2>4. (Placed("wifi") => Placed("wifi")') /\ (Up("wifi")' <=> Up("wifi"))
    BY <2>2 DEF Placed, Listed, Resting, Up
  <2>5. SettingUp'
    BY <2>1, <2>2 DEF WifiInv, SettingUp
  <2>6. WifiInv'
    BY <2>1, <2>2, <2>4, <2>5, StationKeeps
  <2> QED BY <2>3, <2>6
<1>2. CASE ReconnectFires
  <2>1. /\ "wifi" \in board /\ wifi' = [wifi EXCEPT !.timer = "connects"]
        /\ periph' = [periph EXCEPT !["wifi"].timer = FALSE]
        /\ UNCHANGED <<obj, task, caller, stack, setup>>
    BY <1>2 DEF ReconnectFires, Fires
  <2>0. Timed("wifi", FALSE)
    BY <2>1 DEF Timed
  <2>3. UNCHANGED <<board, obj, task, caller>>
    BY <2>1
  <2>2. /\ ServiceInv' /\ Apart("wifi") /\ periph'["wifi"].timer = FALSE /\ (Up("wifi")' <=> Up("wifi"))
        /\ (Placed("wifi") => Placed("wifi")') /\ Calling /\ Quiet("wifi")
    BY <2>0, <2>1, <2>3, StationTimer
  <2>4. /\ WifiType' /\ wifi'.manual = wifi.manual /\ wifi'.early = wifi.early /\ wifi'.bits = wifi.bits
    BY <2>1 DEF WifiInv, WifiType
  <2>5. SettingUp'
    BY <2>1, <2>4 DEF WifiInv, SettingUp
  <2>6. WifiInv'
    BY <2>1, <2>2, <2>4, <2>5, StationKeeps DEF WifiInv
  <2> QED BY <2>2, <2>6
<1> QED
  BY <1>1, <1>2

\* _wifi_init and _wifi_destroy.
LEMMA WifiServeStep ==
  ASSUME ServiceInv, WifiInv, UNCHANGED board, WifiServe
  PROVE  ServiceInv' /\ WifiInv' /\ Calling /\ Apart("wifi") /\ Quiet("wifi")
<1> USE DEF WifiInv
<1>1. /\ stack \in StackType /\ wifi \in [state : WifiStates,
               bits : SUBSET {"CONNECTED", "DISCONNECTED", "DONE", "ERROR"},
               manual : BOOLEAN, timer : {"idle", "connects"}, early : BOOLEAN]
      /\ setup \in [pc : {"idle", "disconnects", "clears", "waits", "done"},
                sc : {"off", "listens", "linked", "over"}, early : BOOLEAN]
  BY DEF WifiType
<1>2. UNCHANGED setup
  BY DEF WifiServe, WifiStarts, WifiStarted, WifiDestroy, WifiDestroyed
<1>3. CASE WifiStarts
  <2> DEFINE ev == Append(stack.events, "START")
  <2>1. /\ task.pc = "init" /\ task.at = "wifi" /\ stack.link = "off" /\ stack.events = <<>>
        /\ stack' = [stack EXCEPT !.link = "idle", !.events = ev]
        /\ UNCHANGED service /\ wifi' = wifi
    BY <1>3 DEF WifiStarts, Held, At, Posted, Heard
  <2>2. ev \in Seq(StackEvents) /\ ev # <<>> /\ Len(ev) = 1 /\ ev[1] = "START" /\ Head(ev) = "START"
    BY <1>1, <2>1 DEF StackType, StackEvents
  <2> HIDE DEF ev
  <2>3. stack' \in StackType /\ stack'.link = "idle" /\ stack'.events = ev
    BY <1>1, <2>1, <2>2 DEF StackType, Links, Joining
  <2>4. "CONNECTED" \notin wifi.bits
    BY <2>1 DEF Heard
  <2>5. \A i \in 2 .. Len(ev) : ev[i] # "START"
    BY <2>2
  <2>6. Heard("idle", ev, wifi.bits, wifi.early)
    BY <2>2, <2>4, <2>5 DEF Heard
  <2>7. Heard(stack.link, stack.events, wifi.bits, wifi.early)'
    BY <2>1, <2>3, <2>6 DEF Heard
  <2>8. UNCHANGED <<obj, periph, task, caller>>
    BY <2>1 DEF service
  <2>9. Placed("wifi")'
    BY <2>1, <2>8, HeldIs DEF Placed, Listed, Resting
  <2>10. Stationed' /\ SettingUp' /\ WifiType'
    BY <1>1, <1>2, <2>1, <2>3, <2>4, <2>8, <2>9 DEF Stationed, SettingUp, WifiType, WifiStates
  <2>11. ServiceInv' /\ Calling /\ Apart("wifi") /\ Quiet("wifi")
    BY <2>1, SendApart, QuietKinds
  <2> QED BY <2>7, <2>10, <2>11
<1>4. CASE WifiStarted
  <2> DEFINE b == (wifi.bits \ {"CONNECTED"}) \cup {"DISCONNECTED"}
  <2>1. /\ Held("init", "wifi") /\ stack.link # "off" /\ UNCHANGED stack
        /\ wifi' = [wifi EXCEPT !.state = "DISCONNECTED", !.bits = b]
        /\ InitReturns("wifi", FALSE, "RUNNING")
    BY <1>4 DEF WifiStarted
  <2>2. "wifi" \in board /\ ~Up("wifi")
    BY <2>1, HeldIs DEF Held, At, Placed
  <2>3. /\ ServiceInv' /\ Calling /\ Apart("wifi") /\ Placed("wifi")' /\ Up("wifi")' /\ caller' = caller
        /\ periph'["wifi"].timer = (periph["wifi"].timer \/ FALSE)
    BY <2>1, <2>2, InitReturnsStep
  <2>4. Quiet("wifi")
    BY <2>1, QuietKinds
  <2>5. b \in SUBSET {"CONNECTED", "DISCONNECTED", "DONE", "ERROR"} /\ "CONNECTED" \notin b
        /\ b \cap {"DONE", "ERROR"} = wifi.bits \cap {"DONE", "ERROR"}
    BY <1>1
  <2> HIDE DEF b
  <2>6. /\ wifi'.bits = b /\ wifi'.manual = wifi.manual /\ wifi'.early = wifi.early /\ WifiType'
    BY <1>1, <1>2, <2>1, <2>5 DEF WifiType, WifiStates, StackType, Links, Joining, StackEvents
  <2>7. ~wifi.early => "CONNECTED" \notin wifi.bits
    BY <2>2 DEF Stationed
  <2>8. Heard(stack.link, stack.events, b, wifi.early)
    BY <2>1, <2>5, <2>7 DEF Heard
  <2>9. Heard(stack.link, stack.events, wifi.bits, wifi.early)'
    BY <2>1, <2>6, <2>8 DEF Heard, Joining
  <2>10. Stationed' /\ SettingUp'
    BY <1>2, <2>1, <2>3, <2>5, <2>6 DEF Stationed, SettingUp
  <2> QED BY <2>3, <2>4, <2>6, <2>9, <2>10
<1>5. CASE WifiDestroy
  <2> DEFINE d == Disconnecting
  <2>1. /\ task.pc = "destroy" /\ task.at = "wifi"
        /\ wifi' = [wifi EXCEPT !.manual = TRUE] /\ stack' = [d EXCEPT !.link = "leaving"]
        /\ Timed("wifi", FALSE) /\ UNCHANGED <<board, obj, task, caller>>
    BY <1>5 DEF WifiDestroy, Held, At, Timed
  <2>2. "wifi" \in board /\ Placed("wifi")
    BY <2>1, HeldIs
  <2>3. /\ ServiceInv' /\ Apart("wifi") /\ Calling /\ Quiet("wifi")
        /\ ~periph'["wifi"].timer /\ (Up("wifi")' <=> Up("wifi")) /\ Placed("wifi")'
    BY <2>1, <2>2, StationTimer
  <2>4. /\ d \in StackType /\ Heard(d.link, d.events, wifi.bits, wifi.early)
        /\ stack.link \notin {"trying", "up"} => d = stack
    BY LinkIs
  <2> HIDE DEF d
  <2>5. stack' \in StackType /\ stack'.link = "leaving" /\ stack'.events = d.events
    BY <2>1, <2>4 DEF StackType, Links
  <2>6. WifiType' /\ wifi'.manual /\ wifi'.bits = wifi.bits /\ wifi'.early = wifi.early
    BY <1>1, <1>2, <2>1, <2>5 DEF WifiType, WifiStates
  <2>7. Heard("leaving", d.events, wifi.bits, wifi.early)
    BY <2>4, HeardGoes DEF Joining
  <2>8. Heard(stack.link, stack.events, wifi.bits, wifi.early)'
    BY <2>5, <2>6, <2>7 DEF Heard, Joining
  <2>9. ~Up("wifi") => stack'.events = <<>> /\ (~wifi.early => "CONNECTED" \notin wifi.bits)
    BY <2>1, <2>2, <2>4, <2>5 DEF Stationed, Joining
  <2>10. Stationed' /\ SettingUp'
    BY <1>2, <2>1, <2>3, <2>5, <2>6, <2>9 DEF Stationed, SettingUp, Joining
  <2> QED BY <2>3, <2>6, <2>8, <2>10
<1>6. CASE WifiDestroyed
  <2>1. /\ Held("destroy", "wifi") /\ task.pc = "destroy" /\ task.at = "wifi" /\ stack.link = "leaving"
        /\ stack' = [stack EXCEPT !.link = "gone"] /\ DestroyReturns("wifi") /\ UNCHANGED wifi
    BY <1>6 DEF WifiDestroyed, Held, At
  <2>2. "wifi" \in board /\ ~periph["wifi"].timer
    BY <2>1, HeldIs DEF Stationed
  <2>3. ServiceInv' /\ Calling /\ Apart("wifi") /\ UNCHANGED <<periph, caller>>
    BY <2>1, <2>2, DestroyReturnsStep
  <2>4. Quiet("wifi")
    BY <2>1, QuietKinds
  <2>5. stack' \in StackType /\ stack'.link = "gone" /\ stack'.events = stack.events
    BY <1>1, <2>1 DEF StackType, Links
  <2>6. WifiType'
    BY <1>1, <1>2, <2>1, <2>5 DEF WifiType, WifiStates
  <2>7. Heard("gone", stack.events, wifi.bits, wifi.early)
    BY HeardGoes DEF Joining
  <2>8. Heard(stack.link, stack.events, wifi.bits, wifi.early)'
    BY <2>1, <2>5, <2>7 DEF Heard, Joining
  <2>9. ~Up("wifi") => stack.events = <<>> /\ (~wifi.early => "CONNECTED" \notin wifi.bits)
    BY <2>1, <2>2 DEF Stationed
  <2>10. Stationed' /\ SettingUp'
    BY <1>2, <2>1, <2>3, <2>5, <2>9 DEF Stationed, SettingUp, Joining, Up
  <2> QED BY <2>3, <2>4, <2>6, <2>8, <2>10
<1> QED
  BY <1>3, <1>4, <1>5, <1>6 DEF WifiServe

\* Setting up, while the service looks on.
LEMMA SetupMoves ==
  ASSUME WifiInv, ConfigDisconnected \/ ConfigClears \/ ScLink \/ ScLinkOver
  PROVE  /\ WifiType' /\ Heard(stack'.link, stack'.events, wifi'.bits, wifi'.early)
         /\ stack'.link \in Joining \/ stack'.events # <<>> => stack.link \in Joining \/ stack.events # <<>>
         /\ stack'.link \notin {"off", "gone"} => stack.link \notin {"off", "gone"}
         /\ stack'.link = "leaving" => stack.link = "leaving"
         /\ wifi'.manual = wifi.manual /\ wifi'.early = wifi.early
         /\ "CONNECTED" \in wifi'.bits <=> "CONNECTED" \in wifi.bits
         /\ setup'.pc \in {"disconnects", "clears", "waits"} => setup.pc \in {"disconnects", "clears", "waits"}
         /\ setup'.pc = "waits" /\ setup'.sc = "over" /\ ~setup'.early => wifi'.bits \cap {"DONE", "ERROR"} # {}
         /\ UNCHANGED service
<1> USE DEF WifiInv
<1>1. /\ stack \in StackType /\ wifi \in [state : WifiStates,
               bits : SUBSET {"CONNECTED", "DISCONNECTED", "DONE", "ERROR"},
               manual : BOOLEAN, timer : {"idle", "connects"}, early : BOOLEAN]
      /\ setup \in [pc : {"idle", "disconnects", "clears", "waits", "done"},
                sc : {"off", "listens", "linked", "over"}, early : BOOLEAN]
  BY DEF WifiType
<1>2. UNCHANGED service
  BY DEF ConfigDisconnected, ConfigClears, ScLink, ScLinkOver
\* wifi: other bits, and another state.
<1>3. ASSUME NEW st \in WifiStates, NEW b \in SUBSET {"CONNECTED", "DISCONNECTED", "DONE", "ERROR"},
             wifi' = [wifi EXCEPT !.state = st, !.bits = b]
      PROVE  /\ wifi'.manual = wifi.manual /\ wifi'.early = wifi.early /\ wifi'.bits = b
             /\ wifi' \in [state : WifiStates, bits : SUBSET {"CONNECTED", "DISCONNECTED", "DONE", "ERROR"},
               manual : BOOLEAN, timer : {"idle", "connects"}, early : BOOLEAN]
  BY <1>1, <1>3
<1>4. CASE ConfigDisconnected
  <2>1. /\ wifi' = [wifi EXCEPT !.state = "SETTING"] /\ setup.pc = "disconnects" /\ UNCHANGED stack
        /\ setup' = [setup EXCEPT !.pc = "clears", !.sc = "listens"]
    BY <1>4 DEF ConfigDisconnected
  <2>2. "SETTING" \in WifiStates
    BY DEF WifiStates
  <2>3. /\ wifi'.bits = wifi.bits /\ wifi'.manual = wifi.manual /\ wifi'.early = wifi.early
        /\ setup'.pc = "clears" /\ WifiType'
    BY <1>1, <2>1, <2>2 DEF WifiType, WifiStates, StackType, Links, Joining, StackEvents
  <2> QED BY <1>2, <2>1, <2>3
<1>5. CASE ConfigClears
  <2> DEFINE b == wifi.bits \ {"DONE", "ERROR"}
             e == setup.early \/ setup.sc = "over"
  <2>1. /\ wifi' = [wifi EXCEPT !.bits = b] /\ setup.pc = "clears" /\ UNCHANGED stack
        /\ setup' = [setup EXCEPT !.pc = "waits", !.early = e]
    BY <1>5 DEF ConfigClears
  <2>2. /\ b \in SUBSET {"CONNECTED", "DISCONNECTED", "DONE", "ERROR"} /\ e \in BOOLEAN
        /\ "CONNECTED" \in b <=> "CONNECTED" \in wifi.bits
        /\ "DISCONNECTED" \in b <=> "DISCONNECTED" \in wifi.bits
    BY <1>1
  <2>3. setup.sc = "over" => e
    OBVIOUS
  <2> HIDE DEF b, e
  <2>4. /\ wifi'.bits = b /\ wifi'.manual = wifi.manual /\ wifi'.early = wifi.early
        /\ setup'.pc = "waits" /\ setup'.sc = setup.sc /\ setup'.early = e
    BY <1>1, <2>1, <2>2
  <2>5. WifiType'
    BY <1>1, <2>1, <2>2 DEF WifiType, WifiStates, StackType, Links, Joining, StackEvents
  <2>6. Heard(stack.link, stack.events, b, wifi.early)
    BY <2>2, HeardElse
  <2> QED BY <1>2, <2>1, <2>2, <2>3, <2>4, <2>5, <2>6
<1>6. CASE ScLink
  <2> DEFINE d == Disconnecting
  <2>1. PICK set \in BOOLEAN, connects \in BOOLEAN :
       /\ wifi' = IF set /\ connects THEN wifi
                  ELSE [wifi EXCEPT !.state = "CONFIG_ERROR", !.bits = wifi.bits \cup {"ERROR"}]
       /\ stack' = IF connects /\ d.link = "idle" THEN [d EXCEPT !.link = "trying"] ELSE d
    BY <1>6 DEF ScLink
  <2>2. setup' = [setup EXCEPT !.sc = "linked"]
    BY <1>6 DEF ScLink
  <2>3. /\ d \in StackType /\ d.link = (IF stack.link \in {"trying", "up"} THEN "idle" ELSE stack.link)
        /\ stack.link \notin {"trying", "up"} => d = stack
        /\ Heard(d.link, d.events, wifi.bits, wifi.early)
    BY LinkIs
  <2> HIDE DEF d
  <2>4. /\ stack' \in StackType /\ stack'.events = d.events
        /\ stack'.link = d.link \/ (d.link = "idle" /\ stack'.link = "trying")
    BY <2>1, <2>3 DEF StackType, Links, Joining
  <2>5. Heard(stack'.link, stack'.events, wifi.bits, wifi.early)
    BY <2>3, <2>4, HeardGoes DEF Joining
  <2>6. setup'.sc = "linked" /\ setup'.pc = setup.pc
        /\ setup' \in [pc : {"idle", "disconnects", "clears", "waits", "done"},
                sc : {"off", "listens", "linked", "over"}, early : BOOLEAN]
    BY <1>1, <2>2
  <2> DEFINE b == wifi.bits \cup {"ERROR"}
  <2>7. /\ b \in SUBSET {"CONNECTED", "DISCONNECTED", "DONE", "ERROR"}
        /\ "CONNECTED" \in b <=> "CONNECTED" \in wifi.bits
        /\ "DISCONNECTED" \in b <=> "DISCONNECTED" \in wifi.bits
    BY <1>1
  <2>8. wifi' = wifi \/ wifi' = [wifi EXCEPT !.state = "CONFIG_ERROR", !.bits = b]
    BY <2>1
  <2>9. Heard(stack'.link, stack'.events, b, wifi.early)
    <3> HIDE DEF b
    <3> QED BY <2>5, <2>7, HeardElse
  <2> HIDE DEF b
  <2>10. "CONFIG_ERROR" \in WifiStates
    BY DEF WifiStates
  <2>11. /\ wifi' \in [state : WifiStates, bits : SUBSET {"CONNECTED", "DISCONNECTED", "DONE", "ERROR"},
               manual : BOOLEAN, timer : {"idle", "connects"}, early : BOOLEAN]
         /\ wifi'.manual = wifi.manual /\ wifi'.early = wifi.early /\ wifi'.bits \in {wifi.bits, b}
    BY <1>1, <1>3, <2>7, <2>8, <2>10
  <2>12. WifiType'
    BY <2>4, <2>6, <2>11 DEF WifiType, WifiStates, StackType, Links, Joining, StackEvents
  <2>13. Heard(stack'.link, stack'.events, wifi'.bits, wifi'.early)
    BY <2>5, <2>9, <2>11
  <2>14. "CONNECTED" \in wifi'.bits <=> "CONNECTED" \in wifi.bits
    BY <2>7, <2>11
  <2>15. stack'.link \in Joining \/ stack'.events # <<>> => stack.link \in Joining \/ stack.events # <<>>
    BY <2>3, <2>4 DEF Joining
  <2>16. /\ stack'.link \notin {"off", "gone"} => stack.link \notin {"off", "gone"}
         /\ stack'.link = "leaving" => stack.link = "leaving"
    BY <2>3, <2>4
  <2> QED BY <1>2, <2>6, <2>11, <2>12, <2>13, <2>14, <2>15, <2>16
<1>7. CASE ScLinkOver
  <2>1. PICK r \in {"DONE", "ERROR"} :
          wifi' = [wifi EXCEPT !.state = "CONFIG_" \o r, !.bits = wifi.bits \cup {r}]
    BY <1>7 DEF ScLinkOver
  <2>2. setup' = [setup EXCEPT !.sc = "over"] /\ UNCHANGED stack
    BY <1>7 DEF ScLinkOver
  <2> DEFINE b == wifi.bits \cup {r}
             st == "CONFIG_" \o r
  <2>3. /\ b \in SUBSET {"CONNECTED", "DISCONNECTED", "DONE", "ERROR"} /\ b \cap {"DONE", "ERROR"} # {}
        /\ "CONNECTED" \in b <=> "CONNECTED" \in wifi.bits
        /\ "DISCONNECTED" \in b <=> "DISCONNECTED" \in wifi.bits
    BY <1>1
  <2>4. st \in WifiStates
    BY DEF WifiStates
  <2>5. wifi' = [wifi EXCEPT !.state = st, !.bits = b]
    BY <2>1
  <2> HIDE DEF b, st
  <2>6. /\ wifi'.manual = wifi.manual /\ wifi'.early = wifi.early /\ wifi'.bits = b
        /\ wifi' \in [state : WifiStates, bits : SUBSET {"CONNECTED", "DISCONNECTED", "DONE", "ERROR"},
               manual : BOOLEAN, timer : {"idle", "connects"}, early : BOOLEAN]
    BY <1>3, <2>3, <2>4, <2>5
  <2>7. setup'.pc = setup.pc /\ setup' \in [pc : {"idle", "disconnects", "clears", "waits", "done"},
                sc : {"off", "listens", "linked", "over"}, early : BOOLEAN]
    BY <1>1, <2>2
  <2>8. WifiType'
    BY <1>1, <2>2, <2>6, <2>7 DEF WifiType, WifiStates, StackType, Links, Joining, StackEvents
  <2>9. Heard(stack.link, stack.events, b, wifi.early)
    BY <2>3, HeardElse
  <2> QED BY <1>2, <2>2, <2>3, <2>6, <2>7, <2>8, <2>9
<1> QED
  BY <1>4, <1>5, <1>6, <1>7

\* periph_wifi_config_start and _wait_done.
LEMMA SetupStep ==
  ASSUME ServiceInv, WifiInv, UNCHANGED board, Setup
  PROVE  /\ ServiceInv' /\ WifiInv' /\ Apart("wifi") /\ Quiet("wifi")
         /\ caller'.pc = "blink" <=> caller.pc = "blink"
<1>1. CASE ConfigDisconnected \/ ConfigClears \/ ScLink \/ ScLinkOver
  <2>1. /\ WifiType' /\ Heard(stack'.link, stack'.events, wifi'.bits, wifi'.early)
        /\ stack'.link \in Joining \/ stack'.events # <<>> => stack.link \in Joining \/ stack.events # <<>>
        /\ stack'.link \notin {"off", "gone"} => stack.link \notin {"off", "gone"}
        /\ stack'.link = "leaving" => stack.link = "leaving"
        /\ wifi'.manual = wifi.manual /\ wifi'.early = wifi.early
        /\ "CONNECTED" \in wifi'.bits <=> "CONNECTED" \in wifi.bits
        /\ setup'.pc \in {"disconnects", "clears", "waits"} => setup.pc \in {"disconnects", "clears", "waits"}
        /\ setup'.pc = "waits" /\ setup'.sc = "over" /\ ~setup'.early => wifi'.bits \cap {"DONE", "ERROR"} # {}
        /\ UNCHANGED service
    BY <1>1, SetupMoves
  <2>2. UNCHANGED <<obj, periph, task, caller>>
    BY <2>1 DEF service
  <2>3. ServiceInv' /\ Calling /\ Apart("wifi") /\ Quiet("wifi")
    BY <2>1, SendApart, QuietKinds
  <2>4. (Placed("wifi") => Placed("wifi")') /\ (Up("wifi")' <=> Up("wifi"))
    BY <2>2 DEF Placed, Listed, Resting, Up
  <2>5. SettingUp'
    BY <2>1, <2>2 DEF WifiInv, SettingUp
  <2>6. WifiInv'
    BY <2>1, <2>2, <2>4, <2>5, StationKeeps
  <2> QED BY <2>3, <2>6 DEF Calling
<1>2. CASE ConfigStart
  <2>1. /\ "wifi" \in board /\ Up("wifi") /\ Calls("config", "wifi") /\ UNCHANGED <<board, obj, periph, task>>
        /\ wifi' = [wifi EXCEPT !.manual = TRUE] /\ stack' = Disconnecting
        /\ setup' = [setup EXCEPT !.pc = "disconnects"]
    BY <1>2 DEF ConfigStart, Up
  <2>2. "wifi" \in Names
    BY DEF Names
  <2>3. ServiceInv' /\ caller.pc = "idle" /\ caller'.pc = "config" /\ Apart("wifi")
    BY <2>1, <2>2, CallsStep
  <2>4. Quiet("wifi")
    BY <2>1, QuietKinds
  <2>5. /\ Disconnecting \in StackType
        /\ Disconnecting.link = IF stack.link \in {"trying", "up"} THEN "idle" ELSE stack.link
        /\ stack.link \notin {"trying", "up"} => Disconnecting = stack
        /\ Heard(Disconnecting.link, Disconnecting.events, wifi.bits, wifi.early)
    BY LinkIs
  <2>6. /\ WifiType' /\ setup'.pc = "disconnects" /\ wifi'.manual /\ wifi'.bits = wifi.bits
        /\ wifi'.early = wifi.early
    BY <2>1, <2>5 DEF WifiInv, WifiType
  <2>7. SettingUp'
    BY <2>3, <2>6 DEF SettingUp
  <2>8. (Placed("wifi") => Placed("wifi")') /\ (Up("wifi")' <=> Up("wifi"))
    BY <2>1 DEF Placed, Listed, Resting, Up
  <2>9. /\ stack'.link \in Joining \/ stack'.events # <<>> => stack.link \in Joining \/ stack.events # <<>>
        /\ stack'.link \notin {"off", "gone"} => stack.link \notin {"off", "gone"}
        /\ stack'.link = "leaving" => stack.link = "leaving"
        /\ Heard(stack'.link, stack'.events, wifi'.bits, wifi'.early)
    BY <2>1, <2>5, <2>6 DEF Joining
  <2>10. WifiInv'
    BY <2>1, <2>6, <2>7, <2>8, <2>9, StationKeeps
  <2> QED BY <2>3, <2>4, <2>10
<1>3. CASE ConfigDone \/ ConfigTimesOut
  <2>1. /\ setup.pc = "waits" /\ caller' = [caller EXCEPT !.pc = "idle"]
        /\ UNCHANGED <<board, obj, periph, task>> /\ UNCHANGED <<wifi, stack>>
    BY <1>3 DEF ConfigDone, ConfigTimesOut
  <2>2. caller.pc = "config"
    BY <2>1 DEF WifiInv, SettingUp
  <2>3. ServiceInv' /\ caller'.pc = "idle" /\ Apart("wifi")
    BY <2>1, <2>2, BackStep
  <2>4. Quiet("wifi")
    BY <2>1, QuietKinds
  <2>5. /\ setup'.pc = "done"
        /\ setup' \in [pc : {"idle", "disconnects", "clears", "waits", "done"},
                sc : {"off", "listens", "linked", "over"}, early : BOOLEAN]
    <3>1. setup \in [pc : {"idle", "disconnects", "clears", "waits", "done"},
                sc : {"off", "listens", "linked", "over"}, early : BOOLEAN]
      BY DEF WifiInv, WifiType
    <3>2. CASE ConfigDone
      BY <3>1, <3>2 DEF ConfigDone
    <3>3. CASE ConfigTimesOut
      <4> DEFINE s == IF wifi.bits \cap {"DONE", "ERROR"} = {} THEN "over" ELSE setup.sc
      <4>1. s \in {"off", "listens", "linked", "over"}
        BY <3>1
      <4>2. setup' = [setup EXCEPT !.pc = "done", !.sc = s]
        BY <3>3 DEF ConfigTimesOut
      <4> HIDE DEF s
      <4> QED BY <3>1, <4>1, <4>2
    <3> QED BY <1>3, <3>2, <3>3
  <2>6. WifiType' /\ SettingUp'
    BY <2>1, <2>5 DEF WifiInv, WifiType, WifiStates, StackType, Links, Joining, StackEvents, SettingUp
  <2>7. (Placed("wifi") => Placed("wifi")') /\ (Up("wifi")' <=> Up("wifi"))
    BY <2>1 DEF Placed, Listed, Resting, Up
  <2>8. WifiInv'
    BY <2>1, <2>6, <2>7, StationKeeps DEF WifiInv
  <2> QED BY <2>2, <2>3, <2>4, <2>8
<1> QED
  BY <1>1, <1>2, <1>3 DEF Setup

\* Every step of the station.
LEMMA WifiStep ==
  ASSUME ServiceInv, WifiInv, UNCHANGED board, WifiNext
  PROVE  /\ ServiceInv' /\ WifiInv' /\ Apart("wifi") /\ Quiet("wifi")
         /\ caller'.pc = "blink" <=> caller.pc = "blink"
BY StackStep, EventsStep, WifiServeStep, SetupStep DEF WifiNext, Calling

-----------------------------------------------------------------------------
(* The whole board.                                                        *)

\* What the others do takes no command, and sends none for the pad.
LEMMA AllQuiet ==
  ASSUME ServiceInv
  PROVE  /\ ButtonNext => Quiet("button")
         /\ SdCardNext => Quiet("sdcard")
         /\ LedNext => Quiet("led")
         /\ ConsoleNext => Quiet("console")
         /\ BluetoothNext => Quiet("bt")
<1>1. ASSUME ButtonNext PROVE Quiet("button")
  BY <1>1, QuietKinds DEF ButtonNext, ButtonServe, ButtonStarts, ButtonRun, ButtonDestroy, ButtonEdge,
     ButtonTimer, ButtonTime, Fires
<1>2. ASSUME SdCardNext PROVE Quiet("sdcard")
  <2>1. CASE SdCardServe
    BY <2>1, QuietKinds DEF SdCardServe, SdCardLooks, SdCardMounts, SdCardUnmounts, SdCardReturns, SdCardDestroy
  <2>2. CASE SdCardEdge \/ SdCardTimer
    BY <2>2, QuietKinds DEF SdCardEdge, SdCardTimer, Fires
  <2> QED BY <1>2, <2>1, <2>2 DEF SdCardNext
<1>3. ASSUME LedNext PROVE Quiet("led")
  <2>1. CASE \E pin \in Pins : LedStop(pin) \/ \E loop \in Counts \cup {-1} : LedBlink(pin, loop)
    <3>1. UNCHANGED <<obj, periph, task>>
      BY <2>1 DEF LedStop, LedBlink
    <3> QED BY <3>1, QuietKinds
  <2>2. CASE LedBlinkSets
    BY <2>2, QuietKinds DEF LedBlinkSets
  <2>3. CASE LedTimer \/ LedHandler
    BY <2>3, QuietKinds DEF LedTimer, LedHandler, LedSkips, LedFinishes, LedFrees, LedToggles
  <2>4. CASE LedServe
    BY <2>4, QuietKinds DEF LedServe, LedStarts, LedDestroy
  <2> QED BY <1>3, <2>1, <2>2, <2>3, <2>4 DEF LedNext
<1>4. ASSUME ConsoleNext PROVE Quiet("console")
  BY <1>4, QuietKinds DEF ConsoleNext, ConsoleServe, ConsoleStarts, ConsoleDestroy, ConsoleDestroyed,
     ConsoleTask, ConsoleBoots, ConsoleEnds, ConsoleTakes, ConsoleRuns
<1>5. ASSUME BluetoothNext PROVE Quiet("bt")
  <2>1. CASE BtServe
    BY <2>1, QuietKinds DEF BtServe, BtStarts, BtPeriphDestroy
  <2>2. CASE BtStart \/ BtDestroy \/ BtCreate \/ BtStreamDestroy
    <3>1. UNCHANGED <<obj, task>>
      BY <2>2 DEF BtStart, BtDestroy, BtCreate, BtStreamDestroy
    <3> QED BY <3>1, QuietKinds
  <2>3. CASE ~BtServe /\ ~(BtStart \/ BtDestroy \/ BtCreate \/ BtStreamDestroy)
    <3>1. UNCHANGED service
      BY <1>5, <2>3 DEF BluetoothNext, KeyMachine, KeySmInit, KeySmDeinit, KeyPressed, KeyReleased,
         KeyForgotten, KeyUnanswered, KeyTimesOut, AvrcConnects, AvrcDisconnects, BtKey,
         A2dConnected, A2dDisconnected
    <3> QED BY <3>1, QuietKinds
  <2> QED BY <2>1, <2>2, <2>3
<1> QED
  BY <1>1, <1>2, <1>3, <1>4, <1>5

\* The bluetooth's own invariant speaks of nothing else.
LEMMA BluetoothFrame == ASSUME BluetoothInv, UNCHANGED bluetooths PROVE BluetoothInv'
  BY BluetoothStep

\* The inductive invariant of the service and its peripherals.
IInv == ServiceInv /\ ButtonInv /\ TouchInv /\ SdCardInv /\ LedInv /\ WifiInv /\ BluetoothInv

\* Every initial state satisfies it.
LEMMA Begins == Init => IInv
<1> SUFFICES ASSUME Init PROVE IInv
  OBVIOUS
<1>1. caller.pc = "idle"
  BY DEF Init, ServiceInit
<1> QED
  BY <1>1, ServiceBegins, ButtonBegins, TouchBegins, SdCardBegins, LedBegins, WifiBegins, BluetoothBegins
     DEF Init, IInv

\* What a step with one of them leaves of the others' invariants.
LEMMA OthersKept ==
  ASSUME IInv, UNCHANGED board, NEW x, Apart(x), caller.pc = "config" => caller'.pc = "config"
  PROVE  /\ x # "button" /\ UNCHANGED button => ButtonInv'
         /\ x # "touch" /\ UNCHANGED touch /\ Quiet(x) => TouchInv'
         /\ x # "sdcard" /\ UNCHANGED sdcard => SdCardInv'
         /\ x # "wifi" /\ UNCHANGED wifis => WifiInv'
         /\ UNCHANGED bluetooths => BluetoothInv'
<1> USE DEF IInv
<1>1. ASSUME x # "button", UNCHANGED button PROVE ButtonInv'
  <2>1. UNCHANGED <<board, button>>
    BY <1>1
  <2> QED BY <1>1, <2>1, ButtonFrame
<1>2. ASSUME x # "touch", UNCHANGED touch, Quiet(x) PROVE TouchInv'
  <2>1. UNCHANGED <<board, touch>>
    BY <1>2
  <2> QED BY <1>2, <2>1, TouchFrame
<1>3. ASSUME x # "sdcard", UNCHANGED sdcard PROVE SdCardInv'
  <2>1. UNCHANGED <<board, sdcard>>
    BY <1>3
  <2> QED BY <1>3, <2>1, SdCardFrame
<1>4. ASSUME x # "wifi", UNCHANGED wifis PROVE WifiInv'
  <2>1. UNCHANGED <<board, wifis>>
    BY <1>4
  <2> QED BY <1>4, <2>1, WifiFrame
<1>5. ASSUME UNCHANGED bluetooths PROVE BluetoothInv'
  BY <1>5, BluetoothFrame
<1> QED
  BY <1>1, <1>2, <1>3, <1>4, <1>5

\* Every step keeps all of it.
LEMMA Keeps == IInv /\ [Next]_vars => IInv'
<1> SUFFICES ASSUME IInv, [Next]_vars PROVE IInv'
  OBVIOUS
<1>0. ServiceInv /\ ButtonInv /\ TouchInv /\ SdCardInv /\ LedInv /\ WifiInv /\ BluetoothInv
  BY DEF IInv
<1>1. CASE UNCHANGED vars
  <2>1. UNCHANGED board /\ UNCHANGED service /\ UNCHANGED button /\ UNCHANGED touch /\ UNCHANGED sdcard
        /\ UNCHANGED led /\ UNCHANGED wifis /\ UNCHANGED bluetooths
    BY <1>1 DEF vars, pads, others
  <2>2. ServiceInv' /\ Calling /\ Apart("nobody") /\ Quiet("nobody")
    BY <1>0, <2>1, SendApart, QuietKinds
  <2>3. ButtonInv' /\ TouchInv' /\ SdCardInv' /\ WifiInv' /\ BluetoothInv'
    BY <2>1, <2>2, OthersKept DEF Calling
  <2>4. LedInv'
    BY <1>0, <2>1, <2>2, LedFrame DEF Calling
  <2> QED BY <2>2, <2>3, <2>4 DEF IInv
<1>2. CASE Next
  <2>0. UNCHANGED board
    BY <1>2 DEF Next
  <2>1. CASE ServiceStep
    <3>1. ServiceNext /\ TouchSkipped /\ UNCHANGED button /\ UNCHANGED sdcard /\ UNCHANGED led
          /\ UNCHANGED wifis /\ UNCHANGED bluetooths
      BY <2>1 DEF ServiceStep, others
    <3>2. ServiceInv' /\ TouchInv' /\ Calling /\ Apart("nobody")
      BY <1>0, <2>0, <3>1, OwnStep, TouchOwn
    <3>3. ButtonInv' /\ SdCardInv' /\ WifiInv' /\ BluetoothInv'
      BY <2>0, <3>1, <3>2, OthersKept DEF Calling
    <3>4. LedInv'
      BY <1>0, <3>1, <3>2, LedFrame DEF Calling
    <3> QED BY <3>2, <3>3, <3>4 DEF IInv
  <2>2. CASE WithButton(ButtonNext)
    <3>1. ButtonNext /\ UNCHANGED touch /\ UNCHANGED sdcard /\ UNCHANGED led
          /\ UNCHANGED wifis /\ UNCHANGED bluetooths
      BY <2>2 DEF WithButton, others
    <3>2. ServiceInv' /\ ButtonInv' /\ Calling /\ Apart("button") /\ Quiet("button")
      BY <1>0, <2>0, <3>1, ButtonStep, AllQuiet
    <3>3. TouchInv' /\ SdCardInv' /\ WifiInv' /\ BluetoothInv'
      BY <2>0, <3>1, <3>2, OthersKept DEF Calling
    <3>4. LedInv'
      BY <1>0, <3>1, <3>2, LedFrame DEF Calling
    <3> QED BY <3>2, <3>3, <3>4 DEF IInv
  <2>3. CASE WithTouch(TouchNext)
    <3>1. TouchNext /\ UNCHANGED button /\ UNCHANGED sdcard /\ UNCHANGED led
          /\ UNCHANGED wifis /\ UNCHANGED bluetooths
      BY <2>3 DEF WithTouch, others
    <3>2. ServiceInv' /\ TouchInv' /\ Calling /\ Apart("touch")
      BY <1>0, <2>0, <3>1, TouchStep
    <3>3. ButtonInv' /\ SdCardInv' /\ WifiInv' /\ BluetoothInv'
      BY <2>0, <3>1, <3>2, OthersKept DEF Calling
    <3>4. LedInv'
      BY <1>0, <3>1, <3>2, LedFrame DEF Calling
    <3> QED BY <3>2, <3>3, <3>4 DEF IInv
  <2>4. CASE WithSdCard(SdCardNext)
    <3>1. SdCardNext /\ UNCHANGED button /\ UNCHANGED touch /\ UNCHANGED led
          /\ UNCHANGED wifis /\ UNCHANGED bluetooths
      BY <2>4 DEF WithSdCard, pads
    <3>2. ServiceInv' /\ SdCardInv' /\ Calling /\ Apart("sdcard") /\ Quiet("sdcard")
      BY <1>0, <2>0, <3>1, SdCardStep, AllQuiet
    <3>3. ButtonInv' /\ TouchInv' /\ WifiInv' /\ BluetoothInv'
      BY <2>0, <3>1, <3>2, OthersKept DEF Calling
    <3>4. LedInv'
      BY <1>0, <3>1, <3>2, LedFrame DEF Calling
    <3> QED BY <3>2, <3>3, <3>4 DEF IInv
  <2>5. CASE WithLed(LedNext)
    <3>1. LedNext /\ UNCHANGED button /\ UNCHANGED touch /\ UNCHANGED sdcard
          /\ UNCHANGED wifis /\ UNCHANGED bluetooths
      BY <2>5 DEF WithLed, pads
    <3>2. ServiceInv' /\ LedInv' /\ Apart("led") /\ Quiet("led")
          /\ (caller.pc = "config" => caller'.pc = "config")
      BY <1>0, <2>0, <3>1, LedStep, AllQuiet
    <3>3. ButtonInv' /\ TouchInv' /\ SdCardInv' /\ WifiInv' /\ BluetoothInv'
      BY <2>0, <3>1, <3>2, OthersKept
    <3> QED BY <3>2, <3>3 DEF IInv
  <2>6. CASE WithConsole(ConsoleNext)
    <3>1. ConsoleNext /\ UNCHANGED button /\ UNCHANGED touch /\ UNCHANGED sdcard /\ UNCHANGED led
          /\ UNCHANGED wifis /\ UNCHANGED bluetooths
      BY <2>6 DEF WithConsole, pads
    <3>2. ServiceInv' /\ Calling /\ Apart("console") /\ Quiet("console")
      BY <1>0, <2>0, <3>1, ConsoleStep, AllQuiet
    <3>3. ButtonInv' /\ TouchInv' /\ SdCardInv' /\ WifiInv' /\ BluetoothInv'
      BY <2>0, <3>1, <3>2, OthersKept DEF Calling
    <3>4. LedInv'
      BY <1>0, <3>1, <3>2, LedFrame DEF Calling
    <3> QED BY <3>2, <3>3, <3>4 DEF IInv
  <2>7. CASE WithWifi(WifiNext)
    <3>1. WifiNext /\ UNCHANGED button /\ UNCHANGED touch /\ UNCHANGED sdcard /\ UNCHANGED led
          /\ UNCHANGED bluetooths
      BY <2>7 DEF WithWifi, pads, others
    <3>2. ServiceInv' /\ WifiInv' /\ Apart("wifi") /\ Quiet("wifi")
          /\ (caller'.pc = "blink" <=> caller.pc = "blink")
      BY <1>0, <2>0, <3>1, WifiStep
    <3>3. ButtonInv' /\ TouchInv' /\ SdCardInv' /\ BluetoothInv'
      <4>1. UNCHANGED <<board, button>> /\ UNCHANGED <<board, touch>> /\ UNCHANGED <<board, sdcard>>
        BY <2>0, <3>1
      <4> QED BY <1>0, <3>1, <3>2, <4>1, ButtonFrame, TouchFrame, SdCardFrame, BluetoothFrame
    <3>4. LedInv'
      BY <1>0, <3>1, <3>2, LedFrame
    <3> QED BY <3>2, <3>3, <3>4 DEF IInv
  <2>8. CASE WithBluetooth(BluetoothNext)
    <3>1. BluetoothNext /\ UNCHANGED button /\ UNCHANGED touch /\ UNCHANGED sdcard /\ UNCHANGED led
          /\ UNCHANGED wifis
      BY <2>8 DEF WithBluetooth, pads, others
    <3>2. ServiceInv' /\ Calling /\ Apart("bt") /\ Quiet("bt") /\ BluetoothInv'
      BY <1>0, <2>0, <3>1, BtApart, AllQuiet, BluetoothStep
    <3>3. ButtonInv' /\ TouchInv' /\ SdCardInv' /\ WifiInv'
      BY <2>0, <3>1, <3>2, OthersKept DEF Calling
    <3>4. LedInv'
      BY <1>0, <3>1, <3>2, LedFrame DEF Calling
    <3> QED BY <3>2, <3>3, <3>4 DEF IInv
  <2> QED
    BY <1>2, <2>1, <2>2, <2>3, <2>4, <2>5, <2>6, <2>7, <2>8 DEF Next
<1> QED
  BY <1>1, <1>2

\* So it holds in every reachable state.
LEMMA Always == Spec => []IInv
  BY Begins, Keeps, PTL DEF Spec

\* esp_periph_destroy frees the service only when nothing can call into it any more.
THEOREM FreedServiceIsOver == Spec => []FreedIsOver
<1>1. IInv => FreedIsOver
  <2> SUFFICES ASSUME IInv, ~obj.live, ~caller.early PROVE FreedIsOver
    BY DEF FreedIsOver
  <2>1. task.pc = "none" /\ obj.list = <<>>
    BY DEF IInv, ServiceInv, Tasked, Resting
  <2>2. \A p \in board : ~Placed(p)
    BY <2>1 DEF Placed, Resting
  <2>3. \A p \in board : ~periph[p].timer
    BY <2>2 DEF IInv, ServiceInv, Kept
  <2>4. ~button.isr /\ ~sdcard.isr
    BY <2>1 DEF IInv, ButtonInv, ButtonType, SdCardInv, SdCardType, Placed, Resting
  <2> QED BY <2>1, <2>3, <2>4 DEF FreedIsOver
<1> QED
  BY <1>1, Always, PTL

\* What a key or a pad does reaches the application as it was done.
THEOREM InputsAreTold == Spec => []InputsTold
<1>1. IInv => InputsTold
  <2> SUFFICES ASSUME IInv PROVE InputsTold
    OBVIOUS
  <2>1. PressStory(button.told) /\ PressStory(touch.seen)
    BY StoryIsPress DEF IInv, ButtonInv, TouchInv
  <2>2. ~touch.late => ~touch.wrong
    BY DEF IInv, TouchInv, Awaited
  <2> QED BY <2>1, <2>2 DEF InputsTold, KeysTellStories, TouchTold
<1> QED
  BY <1>1, Always, PTL

\* A blink that was asked for stays until it is finished or stopped.
THEOREM BlinksAreWhole == Spec => []BlinksWhole
<1>1. IInv => BlinksWhole
  BY DEF IInv, LedInv, OnePin, Counted, BlinksWhole
<1> QED
  BY <1>1, Always, PTL

\* The bits of the event group say how the link is, and how the setting up ended.
THEOREM BitsAreTrue == Spec => []BitsTell
<1>1. IInv => BitsTell
  <2> SUFFICES ASSUME IInv PROVE BitsTell
    OBVIOUS
  <2>1. Heard(stack.link, stack.events, wifi.bits, wifi.early)
    BY DEF IInv, WifiInv
  <2>2. setup.pc = "waits" /\ setup.sc = "over" /\ ~setup.early => wifi.bits \cap {"DONE", "ERROR"} # {}
    BY DEF IInv, WifiInv, SettingUp
  <2> QED BY <2>1, <2>2 DEF BitsTell, Heard, Linked, Joining
<1> QED
  BY <1>1, Always, PTL

\* The phone holds down the key the machine waits to release, or none.
THEOREM PhoneHoldsAtMostOne == Spec => []PhoneHoldsOne
<1>1. IInv => PhoneHoldsOne
  BY DEF IInv, BluetoothInv
<1> QED
  BY <1>1, Always, PTL
=============================================================================
