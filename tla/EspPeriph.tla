------------------------------ MODULE EspPeriph ------------------------------
(***************************************************************************)
(* The peripheral service (lib/esp_peripherals/esp_peripherals.c): a list  *)
(* of peripherals, one task that initialises, serves and destroys them,    *)
(* and one queue of commands filled by their timers and interrupts.        *)
(*                                                                         *)
(* What a peripheral does when the task calls its init, run and destroy    *)
(* functions is in the modules that extend this one: the task waits in     *)
(* "init", "run" or "destroy" with the peripheral in its hands until one   *)
(* of InitReturns, RunReturns and DestroyReturns is taken.                 *)
(***************************************************************************)
EXTENDS Integers, Sequences, FiniteSets, SequencesExt

CONSTANTS
  Boards,       \* the sets of peripherals an application may use
  CmdLen,       \* places in the queue of commands
  MaxCalls      \* bound: calls of the application

ASSUME BoardsAssumption ==
  \A b \in Boards : b \subseteq {"button", "touch", "sdcard", "led", "wifi", "bt", "console"}
ASSUME QueueAssumption == CmdLen \in Nat

VARIABLES
  board,        \* the peripherals of this application
  obj,          \* g_esp_periph_obj
  periph,       \* each esp_periph
  task,         \* esp_periph_task: where it is, and with which peripheral
  caller        \* the application's task: where it is, calls made; early: it
                \* destroys a service whose task or whose peripherals are not up

service == <<obj, periph, task, caller>>

NewObj == [live |-> TRUE, run |-> FALSE, bits |-> {"STOPPED"}, list |-> <<>>, queue |-> <<>>]
NewPeriph == [state |-> "INIT", disabled |-> FALSE, timer |-> FALSE]

ServiceInit ==
  /\ board \in Boards
  /\ obj = NewObj
  /\ periph = [p \in board |-> NewPeriph]
  /\ task = [pc |-> "none", at |-> 1]
  /\ caller = [pc |-> "idle", p |-> "nobody", calls |-> 0, early |-> FALSE]

\* What the task does once its service is freed is undefined: it is not followed.
At(pc) == obj.live /\ task.pc = pc
Goes(pc) == task' = [task EXCEPT !.pc = pc]

\* The peripheral in the hands of the task.
Held(pc, p) == At(pc) /\ task.at = p

Locked == task.pc \in {"scan", "init"}
Listed(p) == Contains(obj.list, p)
Serves(p) == Listed(p) /\ periph[p].state = "RUNNING" /\ ~periph[p].disabled

-----------------------------------------------------------------------------
(* The application.                                                        *)

Calls(pc, p) ==
  /\ caller.pc = "idle" /\ caller.calls < MaxCalls /\ obj.live
  /\ caller' = [pc |-> pc, p |-> p, calls |-> caller.calls + 1, early |-> caller.early]

\* esp_periph_start: the list is looked at under the lock, and extended without.
Start(p) ==
  /\ ~Locked /\ Calls(IF Listed(p) THEN "enable" ELSE "insert", p)
  /\ UNCHANGED <<obj, periph, task>>

Insert ==
  /\ caller.pc = "insert"
  /\ obj' = [obj EXCEPT !.list = Append(@, caller.p)]
  /\ caller' = [caller EXCEPT !.pc = "spawn"]
  /\ UNCHANGED <<periph, task>>

Enable ==
  /\ caller.pc = "enable"
  /\ periph' = [periph EXCEPT ![caller.p].disabled = FALSE]
  /\ caller' = [caller EXCEPT !.pc = "spawn"]
  /\ UNCHANGED <<obj, task>>

Spawned == caller' = [caller EXCEPT !.pc = "idle"] /\ UNCHANGED periph

Spawn ==
  /\ caller.pc = "spawn" /\ ~obj.run
  /\ \/ obj' = [obj EXCEPT !.run = TRUE] /\ Goes("boots")
     \/ UNCHANGED <<obj, task>>             \* the task could not be created
  /\ Spawned

SpawnNot ==
  /\ caller.pc = "spawn" /\ obj.run
  /\ Spawned /\ UNCHANGED <<obj, task>>

\* esp_periph_stop.
Stop(p) ==
  /\ Calls("idle", p)
  /\ periph' = [periph EXCEPT ![p].disabled = TRUE]
  /\ UNCHANGED <<obj, task>>

\* esp_periph_stop_all.
StopAll ==
  /\ Calls("idle", "nobody")
  /\ periph' = [p \in board |-> [periph[p] EXCEPT !.disabled = @ \/ Listed(p)]]
  /\ UNCHANGED <<obj, task>>

Up(p) == periph[p].state # "INIT"

\* esp_periph_destroy.
Destroy ==
  /\ caller.pc = "idle" /\ caller.calls < MaxCalls /\ obj.live
  /\ caller' = [caller EXCEPT !.pc = "awaits", !.calls = @ + 1,
                              !.early = At("boots") \/ \E p \in board : Listed(p) /\ ~Up(p)]
  /\ obj' = [obj EXCEPT !.run = FALSE]
  /\ UNCHANGED <<periph, task>>

Freed == [NewObj EXCEPT !.live = FALSE]

\* Fault: the peripherals are freed without waiting for the task.
DestroyWaitsNot ==
  /\ caller.pc = "awaits"
  /\ obj' = Freed
  /\ caller' = [caller EXCEPT !.pc = "idle"]
  /\ UNCHANGED <<periph, task>>

DestroyWaits ==
  /\ caller.pc = "awaits" /\ "STOPPED" \in obj.bits
  /\ obj' = Freed
  /\ caller' = [caller EXCEPT !.pc = "idle"]
  /\ UNCHANGED <<periph, task>>

-----------------------------------------------------------------------------
(* The task.                                                               *)

Boots ==
  /\ At("boots") /\ Goes("loop")
  /\ obj' = [obj EXCEPT !.bits = {"STARTED"}]
  /\ UNCHANGED <<periph, caller>>

Loops ==
  /\ At("loop") /\ Goes(IF obj.run THEN "scan" ELSE "closes")
  /\ UNCHANGED <<obj, periph, caller>>

\* The first peripheral of the list, from the one after the last, to initialise.
Uninitialised ==
  {i \in DOMAIN obj.list : ~periph[obj.list[i]].disabled /\ periph[obj.list[i]].state = "INIT"}

Scans ==
  /\ At("scan")
  /\ IF Uninitialised = {}
     THEN Goes("waits")
     ELSE task' = [pc |-> "init", at |-> obj.list[CHOOSE i \in Uninitialised : \A j \in Uninitialised : i <= j]]
  /\ UNCHANGED <<obj, periph, caller>>

\* The init function of p returns, having started its timer or not.
InitReturns(p, timer, state) ==
  /\ periph' = [periph EXCEPT ![p].state = state, ![p].timer = @ \/ timer]
  /\ Goes("scan")
  /\ UNCHANGED <<obj, caller>>

\* audio_event_iface_waiting_cmd_msg and process_peripheral_event.
Takes ==
  /\ At("waits") /\ obj.queue # <<>>
  /\ obj' = [obj EXCEPT !.queue = Tail(@)]
  /\ task' = IF Serves(Head(obj.queue))
             THEN [pc |-> "run", at |-> Head(obj.queue)]
             ELSE [task EXCEPT !.pc = "loop"]
  /\ UNCHANGED <<periph, caller>>

TimesOut ==
  /\ At("waits") /\ obj.queue = <<>>
  /\ Goes("loop")
  /\ UNCHANGED <<obj, periph, caller>>

RunReturns == Goes("loop") /\ UNCHANGED <<obj, periph, caller>>

\* The timer of every peripheral is stopped before it is destroyed.
Closes ==
  /\ At("closes") /\ obj.list # <<>>
  /\ task' = [pc |-> "destroy", at |-> Head(obj.list)]
  /\ periph' = [periph EXCEPT ![Head(obj.list)].timer = FALSE]
  /\ UNCHANGED <<obj, caller>>

\* Walking on is dropping the head: nobody else reads the list any more.
DestroyReturns(p) ==
  /\ Goes("closes")
  /\ obj' = [obj EXCEPT !.list = Tail(@)]
  /\ UNCHANGED <<periph, caller>>

Ends ==
  /\ At("closes") /\ obj.list = <<>>
  /\ Goes("none")
  /\ obj' = [obj EXCEPT !.bits = {"STOPPED"}]
  /\ UNCHANGED <<periph, caller>>

-----------------------------------------------------------------------------
(* What peripherals call.                                                  *)

\* esp_periph_send_cmd and _from_isr: a command that finds no room is dropped.
Sent(p) == IF Len(obj.queue) < CmdLen THEN [obj EXCEPT !.queue = Append(@, p)] ELSE obj

SendCmd(p) == obj' = Sent(p) /\ UNCHANGED <<periph, task, caller>>

\* The callback of the timer of p is due.
Fires(p) == p \in board /\ periph[p].timer

Serve == Boots \/ Loops \/ Scans \/ Takes \/ TimesOut \/ Closes \/ Ends
Proceed == Insert \/ Enable \/ Spawn \/ SpawnNot \/ DestroyWaits

ServiceNext ==
  \/ \E p \in board : Start(p) \/ Stop(p)
  \/ StopAll \/ Destroy \/ Proceed \/ Serve
=============================================================================
