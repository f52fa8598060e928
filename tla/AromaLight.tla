------------------------------ MODULE AromaLight ------------------------------
(***************************************************************************)
(* The lamp (src/aroma_ledc.c): two colours, "during" and "nightly", that  *)
(* the task of the fades, the main task and the task of the view all raise *)
(* and turn off, step by step and without a lock.                          *)
(***************************************************************************)
EXTENDS Integers, FiniteSets

CONSTANTS
  Top,                  \* steps to full brightness
  MaxLamps              \* bounds the commands

ASSUME LightAssumption == Top \in Nat \ {0}

VARIABLES
  light,                \* ledc_fade_enable, ledc_fade_pause, nightly_mode
  duty, flag,           \* the channels, and During and Nightly
  fader, lamp,          \* task_ledc_fade, all_ledc_on in the main task
  asked                 \* what the properties are about

lights == <<light, duty, flag, fader, lamp, asked>>

Colours == {"during", "nightly"}
Other(c) == IF c = "during" THEN "nightly" ELSE "during"
\* nightly_mode chooses the white colour.
Colour == IF light.nightly THEN "during" ELSE "nightly"

LightInit ==
  /\ light = [fade |-> FALSE, hold |-> FALSE, nightly |-> FALSE]
  /\ duty = [c \in Colours |-> 0] /\ flag = [c \in Colours |-> FALSE]
  /\ fader = [pc |-> "looks", of |-> "during", i |-> 0]
  /\ lamp = [pc |-> "idle", of |-> "during", i |-> 0]
  /\ asked = [commands |-> 0, off |-> FALSE, met |-> FALSE]

Stopped(c) == duty' = [duty EXCEPT ![c] = 0] /\ flag' = [flag EXCEPT ![c] = FALSE]
Busy == fader.pc \in {"opens", "rises", "falls"}

-----------------------------------------------------------------------------
(* task_ledc_fade.                                                         *)

\* start_ledc_fade: the other colour is stopped if it is flagged.
FadeStarts ==
  /\ fader.pc = "looks" /\ light.fade
  /\ fader' = [pc |-> "opens", of |-> Colour, i |-> 0]
  /\ IF flag[Other(Colour)] THEN Stopped(Other(Colour)) ELSE UNCHANGED <<duty, flag>>
  /\ asked' = [asked EXCEPT !.met = @ \/ lamp.pc = "rises"]
  /\ UNCHANGED <<light, lamp>>

\* open_during_led and open_nightly_led.
FadeOpens ==
  /\ fader.pc = "opens"
  /\ flag' = [flag EXCEPT ![fader.of] = TRUE]
  /\ fader' = [fader EXCEPT !.pc = "rises"]
  /\ UNCHANGED <<light, duty, lamp, asked>>

FadeRises ==
  /\ fader.pc = "rises"
  /\ fader' = [fader EXCEPT !.pc = IF fader.i + 1 = Top THEN "falls" ELSE @, !.i = @ + 1]
  /\ duty' = [duty EXCEPT ![fader.of] = fader.i + 1]
  /\ UNCHANGED <<light, flag, lamp, asked>>

FadeFalls ==
  /\ fader.pc = "falls"
  /\ fader' = [fader EXCEPT !.pc = IF fader.i = 1 THEN "closes" ELSE @, !.i = @ - 1]
  /\ duty' = [duty EXCEPT ![fader.of] = fader.i - 1]
  /\ UNCHANGED <<light, flag, lamp, asked>>

\* A fade to be held ends the fading; otherwise close_ledc_fade, by the mode of now.
FadeCloses ==
  /\ fader.pc = "closes"
  /\ IF light.hold THEN light' = [light EXCEPT !.fade = FALSE] /\ UNCHANGED <<duty, flag>>
     ELSE Stopped(Other(Colour)) /\ UNCHANGED light
  /\ fader' = [fader EXCEPT !.pc = "looks"]
  /\ UNCHANGED <<lamp, asked>>

-----------------------------------------------------------------------------
(* The other tasks.                                                        *)

Command == asked.commands < MaxLamps

\* set_ledc by a program.
ProgramFades(hold, nightly) ==
  /\ Command
  /\ light' = [fade |-> TRUE, hold |-> hold, nightly |-> nightly]
  /\ asked' = [asked EXCEPT !.commands = @ + 1, !.off = FALSE]
  /\ UNCHANGED <<duty, flag, fader, lamp>>

\* The middle of the sleep program: set_ledc and close_ledc_fade, whatever goes on.
ProgramDims ==
  /\ Command
  /\ light' = [fade |-> FALSE, hold |-> FALSE, nightly |-> FALSE]
  /\ asked' = [asked EXCEPT !.commands = @ + 1]
  /\ Stopped("during")
  /\ UNCHANGED <<fader, lamp>>

\* all_ledc_off, by the main task or the view's; it leaves the flags.
TurnsOff(nightly) ==
  /\ light' = [fade |-> FALSE, hold |-> FALSE, nightly |-> nightly]
  /\ duty' = [c \in Colours |-> 0]
  /\ asked' = [commands |-> asked.commands + 1, off |-> TRUE,
               met |-> (Busy /\ asked.met) \/ lamp.pc = "rises"]
  /\ UNCHANGED <<flag, fader, lamp>>

KeyTurnsOff == Command /\ lamp.pc = "idle" /\ TurnsOff(light.nightly)
ProgramCloses == Command /\ TurnsOff(TRUE)

\* Fault: the lamp's other colour is not looked at.
LampStartsAnyway(nightly) ==
  /\ Command /\ lamp.pc = "idle"
  /\ light' = [light EXCEPT !.nightly = nightly]
  /\ lamp' = [pc |-> "rises", of |-> IF nightly THEN "during" ELSE "nightly", i |-> 0]
  /\ asked' = [commands |-> asked.commands + 1, off |-> FALSE, met |-> asked.met \/ Busy]
  /\ UNCHANGED <<duty, flag, fader>>

\* all_ledc_on: the main task raises a colour and flags it at the end.
LampStarts(nightly) ==
  /\ Command /\ lamp.pc = "idle"
  /\ light' = [light EXCEPT !.nightly = nightly]
  /\ lamp' = [pc |-> "rises", of |-> IF nightly THEN "during" ELSE "nightly", i |-> 0]
  /\ IF flag[Other(lamp'.of)] THEN Stopped(Other(lamp'.of)) ELSE UNCHANGED <<duty, flag>>
  /\ asked' = [commands |-> asked.commands + 1, off |-> FALSE, met |-> asked.met \/ Busy]
  /\ UNCHANGED fader

LampRises ==
  /\ lamp.pc = "rises"
  /\ lamp' = [lamp EXCEPT !.pc = IF lamp.i + 1 = Top THEN "idle" ELSE @, !.i = @ + 1]
  /\ duty' = [duty EXCEPT ![lamp.of] = lamp.i + 1]
  /\ flag' = [flag EXCEPT ![lamp.of] = @ \/ lamp.i + 1 = Top]
  /\ UNCHANGED <<light, fader, asked>>

LightNext ==
  \/ FadeStarts \/ FadeOpens \/ FadeRises \/ FadeFalls \/ FadeCloses
  \/ ProgramFades(FALSE, TRUE) \/ ProgramFades(FALSE, FALSE) \/ ProgramFades(TRUE, TRUE)
  \/ ProgramDims
  \/ KeyTurnsOff \/ ProgramCloses
  \/ LampStarts(TRUE) \/ LampStarts(FALSE) \/ LampRises

-----------------------------------------------------------------------------
\* Only one colour shines at a time, and after everything was turned off the lamp is dark once the
\* fade that was going on is over, unless the lamp key was pressed in a fade, a fade began while the
\* lamp was being raised, or a program turned it off just then.
LampObeys ==
  ~asked.met =>
    /\ duty["during"] = 0 \/ duty["nightly"] = 0
    /\ asked.off /\ ~Busy /\ lamp.pc = "idle" => \A c \in Colours : duty[c] = 0
=============================================================================
