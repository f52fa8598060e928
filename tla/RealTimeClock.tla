----------------------------- MODULE RealTimeClock -----------------------------
(***************************************************************************)
(* The time of day, kept by the PCF8563 and copied into the system when it *)
(* starts and whenever it is set (src/PCF8563.c; sync_time and             *)
(* set_local_time, src/aroma_view.c). A chip that cannot be read or has    *)
(* lost its time is written with the system's and the program restarts.    *)
(* Two tasks do so: the one that shows the time, which also starts the     *)
(* program, and the one that calls the keys. Any transfer may fail and the *)
(* chip may lose its power. Of a clock the model keeps whether it is       *)
(* right, that is, shows the time that was set last and has passed since.  *)
(***************************************************************************)
EXTENDS Naturals

CONSTANT MaxFailures  \* bound: transfers that fail and times that the chip loses its power

ASSUME ClockBounds == MaxFailures \in Nat

Tasks == {"view", "keys"}

VARIABLES
  chip,    \* [right, lost]: the counters of the PCF8563, its low-voltage flag
  system,  \* [right, init]: the system's clock, PCF_Init's static init
  pc,      \* by task: where it is in set_local_time and sync_time
  failures, \* how many there were
  unknown  \* the time may be lost: see Failure

clocks == <<chip, system, pc, failures, unknown>>

\* aroma_view begins with sync_time; the system's clock begins with 1970.
Started == [view |-> "init", keys |-> "idle"]
ClockInit ==
  /\ chip \in {[right |-> ~lost, lost |-> lost] : lost \in BOOLEAN}
  /\ system = [right |-> FALSE, init |-> FALSE]
  /\ pc = Started
  /\ failures = 0
  /\ unknown = chip.lost

Goto(t, place) == pc' = [pc EXCEPT ![t] = place]

\* Something fails; it may cost the time unless both clocks are right and no restart is due.
Failure ==
  /\ failures < MaxFailures
  /\ failures' = failures + 1
  /\ unknown' = (unknown \/ ~chip.right \/ ~system.right \/ \E t \in Tasks : pc[t] = "restart")
Works == UNCHANGED <<failures, unknown>>

-----------------------------------------------------------------------------
(* set_local_time: the date is written once PCF_Init has been through; sync_time follows whatever came *)
(* of it. The view sets the system's clock by the chip's from time to time as well.                    *)
SetTime(t) ==
  /\ pc[t] = "idle"
  /\ Goto(t, "prepare")
  /\ UNCHANGED <<chip, system>> /\ Works
SyncTime ==
  /\ pc["view"] = "idle"
  /\ Goto("view", "init")
  /\ UNCHANGED <<chip, system>> /\ Works

\* PCF_Init: two control registers, written once until the next start.
PcfInit(t, from, ok, failed) ==
  /\ pc[t] = from
  /\ \/ Goto(t, ok) /\ system' = [system EXCEPT !.init = TRUE] /\ Works
     \/ ~system.init /\ Failure /\ Goto(t, failed) /\ UNCHANGED system
  /\ UNCHANGED chip

\* PCF_SetDateTime: seven registers in one transfer; writing the seconds clears the flag. A time set while
\* the other task is about to write the system's may be overwritten by it.
WriteTime(t) ==
  /\ pc[t] = "write"
  /\ \/ /\ chip' = [right |-> TRUE, lost |-> FALSE]
        /\ system' = [system EXCEPT !.right = FALSE]
        /\ unknown' = (\E u \in Tasks \ {t} : pc[u] \in {"reinit", "back"})
        /\ UNCHANGED failures
     \/ Failure /\ UNCHANGED <<chip, system>>
  /\ Goto(t, "init")

\* Fault: the low-voltage flag not looked at.
ReadTimeTrusting(t) ==
  /\ pc[t] = "read"
  /\ \/ system' = [system EXCEPT !.right = chip.right] /\ Goto(t, "idle") /\ Works
     \/ Failure /\ Goto(t, "reinit") /\ UNCHANGED system
  /\ UNCHANGED chip
\* PCF_hctosys: the chip's time becomes the system's, unless it cannot be read or is not to be trusted.
ReadTime(t) ==
  /\ pc[t] = "read"
  /\ \/ ~chip.lost /\ system' = [system EXCEPT !.right = chip.right] /\ Goto(t, "idle") /\ Works
     \/ chip.lost /\ Goto(t, "reinit") /\ UNCHANGED system /\ Works
     \/ Failure /\ Goto(t, "reinit") /\ UNCHANGED system
  /\ UNCHANGED chip

\* Fault: the seconds not written, so that the flag stays.
WriteBackFlagged(t) ==
  /\ pc[t] = "back"
  /\ \/ chip' = [right |-> system.right, lost |-> chip.lost] /\ Works
     \/ Failure /\ UNCHANGED chip
  /\ Goto(t, "restart")
  /\ UNCHANGED system
\* PCF_systohc: the system's time is written to the chip.
WriteBack(t) ==
  /\ pc[t] = "back"
  /\ \/ chip' = [right |-> system.right, lost |-> FALSE] /\ Works
     \/ Failure /\ UNCHANGED chip
  /\ Goto(t, "restart")
  /\ UNCHANGED system

\* esp_restart: every task starts over and so does the system's clock.
Restart(t) ==
  /\ pc[t] = "restart"
  /\ system' = [right |-> FALSE, init |-> FALSE]
  /\ pc' = Started
  /\ UNCHANGED chip /\ Works

\* The chip's battery is taken out or runs down.
PowerLoss ==
  /\ Failure
  /\ chip' = [right |-> FALSE, lost |-> TRUE]
  /\ UNCHANGED <<system, pc>>

-----------------------------------------------------------------------------
ClockTask(t) ==
  \/ PcfInit(t, "prepare", "write", "init")
  \/ WriteTime(t)
  \/ PcfInit(t, "init", "read", "reinit")
  \/ ReadTime(t)
  \/ PcfInit(t, "reinit", "back", "restart")
  \/ WriteBack(t)
  \/ Restart(t)
ClockNext == \/ \E t \in Tasks : SetTime(t) \/ ClockTask(t)
             \/ SyncTime \/ PowerLoss

-----------------------------------------------------------------------------
\* A failed transfer or a chip without power costs nothing while both clocks are right and stay up: when the tasks are
\* through, the system's clock is right again, and a chip that is wrong says so.
TimeKept ==
  ~unknown => /\ (\A t \in Tasks : pc[t] = "idle") => system.right
              /\ chip.right \/ chip.lost \/ system.right
=============================================================================
