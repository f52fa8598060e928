------------------------------ MODULE AromaSpray ------------------------------
(***************************************************************************)
(* The spray (src/aroma_spray.c): a task of low priority that every five   *)
(* seconds turns a nozzle on or off while a spell lasts, and the tasks     *)
(* that set and end spells on the same variables, without a lock and       *)
(* between any two of its steps.                                           *)
(*                                                                         *)
(* Time is counted in steps of five seconds.                               *)
(***************************************************************************)
EXTENDS Integers

CONSTANTS
  SpellTime,            \* how long set_spray makes a spell
  MaxSteps5, MaxSets    \* bounds: steps of time, commands

ASSUME SprayAssumption == SpellTime \in Nat \ {0}

VARIABLES spray, nozzles, sprayer, told

sprays == <<spray, nozzles, sprayer, told>>

SprayInit ==
  /\ spray = [state |-> 0, time |-> 0, mode |-> "b"]
  /\ nozzles = {}                                       \* the ones that are on
  /\ sprayer = [pc |-> "delays", now |-> 0, last |-> 0, interval |-> 0, run |-> FALSE, began |-> 0]
  /\ told = [commands |-> 0, quiet |-> TRUE, met |-> FALSE, held |-> FALSE]

\* task_spray after its delay: interval is from the last spell's begin, also when one begins now.
SprayWakes ==
  /\ sprayer.pc = "delays" /\ sprayer.now < MaxSteps5
  /\ sprayer' = [sprayer EXCEPT !.pc = "sees", !.now = @ + 1, !.interval = sprayer.now + 1 - sprayer.last]
  /\ UNCHANGED <<spray, nozzles, told>>

\* A new spell is seen, then made the one that runs.
SpraySees ==
  /\ sprayer.pc = "sees"
  /\ sprayer' = [sprayer EXCEPT !.pc = IF spray.state = 1 /\ spray.time # 0 THEN "begins" ELSE "toggles"]
  /\ UNCHANGED <<spray, nozzles, told>>

SprayBegins ==
  /\ sprayer.pc = "begins"
  /\ spray' = [spray EXCEPT !.state = 2]
  /\ sprayer' = [sprayer EXCEPT !.pc = "toggles", !.last = sprayer.now, !.began = sprayer.last]
  /\ UNCHANGED <<nozzles, told>>

SprayToggles ==
  /\ sprayer.pc = "toggles"
  /\ IF spray.state = 2
     THEN sprayer' = [sprayer EXCEPT !.pc = "turns"]
     ELSE sprayer' = [sprayer EXCEPT !.pc = "clears"]
  /\ UNCHANGED <<spray, nozzles, told>>

\* start_spray and close_spray.
SprayTurns ==
  /\ sprayer.pc = "turns"
  /\ nozzles' = IF sprayer.run THEN nozzles \ {spray.mode} ELSE nozzles \cup {spray.mode}
  /\ sprayer' = [sprayer EXCEPT !.pc = "ends", !.run = ~@]
  /\ UNCHANGED <<spray, told>>

Over5 == sprayer.interval >= spray.time
\* Fault: the spell's own length is not looked at.
SprayEndsEarly ==
  /\ sprayer.pc = "ends"
  /\ spray' = [spray EXCEPT !.state = 0]
  /\ sprayer' = [sprayer EXCEPT !.pc = "clears"]
  /\ UNCHANGED <<nozzles, told>>

SprayEnds ==
  /\ sprayer.pc = "ends"
  /\ spray' = IF Over5 THEN [spray EXCEPT !.state = 0] ELSE spray
  /\ sprayer' = [sprayer EXCEPT !.pc = "clears"]
  /\ UNCHANGED <<nozzles, told>>

\* Fault: the nozzle is left as the last toggle left it.
SprayClearsOnly ==
  /\ sprayer.pc = "clears"
  /\ spray' = IF spray.state = 0 THEN [spray EXCEPT !.time = 0] ELSE spray
  /\ sprayer' = [sprayer EXCEPT !.pc = "delays"]
  /\ UNCHANGED <<nozzles, told>>

SprayClears ==
  /\ sprayer.pc = "clears"
  /\ IF spray.state = 0 /\ spray.time # 0
     THEN spray' = [spray EXCEPT !.time = 0] /\ nozzles' = nozzles \ {spray.mode}
     ELSE UNCHANGED <<spray, nozzles>>
  /\ sprayer' = [sprayer EXCEPT !.pc = "delays"]
  /\ UNCHANGED told

\* set_spray(60 * 60, 100, true, mode) when a program begins: while none runs, so state is 0.
SprayIsSet(mode) ==
  /\ told.commands < MaxSets /\ told.quiet /\ ~told.held
  /\ spray' = [state |-> 1, time |-> SpellTime, mode |-> mode]
  /\ told' = [told EXCEPT !.commands = @ + 1, !.quiet = FALSE]
  /\ UNCHANGED <<nozzles, sprayer>>

\* control_close: spray_state = 0, all_spray_off().
SprayIsClosed ==
  /\ told.commands < MaxSets
  /\ spray' = [spray EXCEPT !.state = 0] /\ nozzles' = {}
  /\ told' = [told EXCEPT !.commands = @ + 1, !.quiet = TRUE, !.met = sprayer.pc = "begins"]
  /\ UNCHANGED sprayer

\* button_33_LONG_PRESSED and button_33_LONG_RELEASE: all_spray_on while the key is held.
SprayByHand ==
  /\ told.held \/ told.commands < MaxSets
  /\ nozzles' = IF told.held THEN {} ELSE {"a", "b"}
  /\ told' = [told EXCEPT !.held = ~@, !.commands = IF told.held THEN @ ELSE @ + 1]
  /\ UNCHANGED <<spray, sprayer>>

SprayNext ==
  \/ SprayWakes \/ SpraySees \/ SprayBegins \/ SprayToggles \/ SprayTurns \/ SprayEnds \/ SprayClears
  \/ SprayIsSet("a") \/ SprayIsSet("b") \/ SprayIsClosed \/ SprayByHand

-----------------------------------------------------------------------------
\* Once everything was closed, whatever step the task was in, nothing sprays when it is back in its
\* delay, unless it had just seen a new spell and was about to make it the one that runs.
SprayStops == told.quiet /\ ~told.met /\ ~told.held /\ sprayer.pc = "delays" => nozzles = {}

\* A spell the task ends by itself has lasted its time, or it is in its first step and ends at once
\* because the spell before it began that long ago.
SpellWhole ==
  sprayer.pc = "ends" /\ sprayer'.pc = "clears" /\ spray.state = 2 /\ spray'.state = 0 =>
    \/ sprayer.now - sprayer.last >= spray.time
    \/ sprayer.now = sprayer.last /\ sprayer.now - sprayer.began >= spray.time
\* A spell goes on for its time, and no step leaves a nozzle on beyond a close.
SpraysAsTold == [][SpellWhole /\ SprayStops']_sprays
=============================================================================
