----------------------------- MODULE AromaControl -----------------------------
(***************************************************************************)
(* The alarm clock (src/aroma_view.c): the task of the view runs the       *)
(* get-up and the sleep program, the main task handles the keys, both on   *)
(* the same variables and without a lock; the times are kept in a file     *)
(* that is truncated before it is written (src/aroma_config.h).            *)
(*                                                                         *)
(* A step of a task goes on to where the task waits: for a delay, for the  *)
(* elements of the player to pause (aroma_music) or for their tasks to be  *)
(* made (aroma_play). Meanwhile the other task runs.                       *)
(*                                                                         *)
(* Time is counted in half minutes: an even instant is second 0 of a       *)
(* minute, an odd one stands for the rest of it.                           *)
(***************************************************************************)
EXTENDS Integers

CONSTANTS
  PerHour, HoursPerDay,                 \* minutes, hours
  Window, Back,                         \* how near the alarm, how far it is set back
  LightAt, MusicAt, RepeatAt, HoldAt,       \* the get-up program, in minutes
  SleepMid,      \* the sleep program
  Over,                                 \* both end after this
  GetupLead, SleepLead, PauseTime, ConfigTime, Stride, ClockSlack,
  Starts, MaxTicks, MaxPresses, MaxSteps, MaxCrashes              \* when the clock starts; bounds

ASSUME ControlAssumption ==
  /\ {PerHour, HoursPerDay, Window, Over} \subseteq Nat \ {0} /\ Back \in 0 .. Over
  /\ {LightAt, MusicAt, RepeatAt, HoldAt, SleepMid, GetupLead, SleepLead, PauseTime, ConfigTime,
      Stride, ClockSlack, MaxTicks, MaxPresses, MaxSteps, MaxCrashes} \cup Starts \subseteq Nat
  /\ LightAt <= MusicAt /\ MusicAt < RepeatAt /\ HoldAt <= Over /\ SleepMid <= Over

VARIABLES
  aroma,        \* the variables the tasks share
  view,         \* task_view: where it is, in which program, the instant its iteration is about
  main,         \* the main task: the key it handles, where it waits
  file,         \* aroma.cfg: unreadable or three times
  clock,        \* time(NULL), ticks gone, whether the view has run since the last one
  seen          \* what the properties are about

control == <<aroma, view, main, file, clock, seen>>

Min2(m) == 2 * m
Hours(m) == m * PerHour
Day == Min2(Hours(HoursPerDay))
Hour(t) == (t \div Min2(PerHour)) % HoursPerDay
Minute(t) == (t \div 2) % PerHour
Distance(x, y) == IF x < y THEN y - x ELSE x - y
Now == clock.now

NoFile == [getup |-> -1, sleep |-> -1, local |-> -1]
Default == [getup |-> Day \div 2, sleep |-> Day, local |-> Day \div 4]

\* play is music_is_play, sounds what the elements of the player were told last, and made that they
\* have their tasks.
Booted ==
  [mode |-> "none", paused |-> FALSE, until |-> 0, getup |-> 0, sleep |-> 0, local |-> 0,
   play |-> FALSE, sounds |-> FALSE, made |-> FALSE, fade |-> FALSE, hold |-> FALSE,
   spray |-> FALSE, view |-> "idle", config |-> "idle", edits |-> "local", timeout |-> 0, change |-> 0]

\* The stop key was held last (while the view was about to start the music), the age of the program (and
\* whether the times were set meanwhile), the ticks since the get-up alarm began, the time of getting
\* up that was asked for and kept.
Rested == Min2(PerHour)
Calm == [quiet |-> FALSE, met |-> FALSE, age |-> 0, set |-> FALSE, rang |-> Rested, want |-> Default.getup]

At(pc, of, n) == [pc |-> pc, of |-> of, now |-> n]

ControlInit ==
  /\ aroma = Booted
  /\ view = At("boots", "none", 0)
  /\ main = [pc |-> "idle", held |-> "none", long |-> FALSE, presses |-> 0, steps |-> 0]
  /\ file \in {NoFile, Default}
  /\ clock \in [now : Starts, ticks : {0}, ran : {TRUE}, crashes : {0}]
  /\ seen = Calm

-----------------------------------------------------------------------------
(* What the tasks do to the variables.                                     *)

SetSpray(a) == [a EXCEPT !.spray = TRUE]
\* The colour is left to AromaLight.
SetLedc(a, enable, pause) == [a EXCEPT !.fade = enable, !.hold = pause]

\* aroma_stop and aroma_resume; the volume is left out. Elements without a task are told nothing.
StopMusic(a) == [a EXCEPT !.play = FALSE, !.sounds = FALSE]
Resume(a) == [a EXCEPT !.play = TRUE, !.sounds = a.made]

\* aroma_music first waits for the elements to pause, if there are any. aroma_play resumes them, and
\* the first time waits for them to be made and resumes them again, play or not.
PlayWaits(a) == IF a.made THEN "pauses" ELSE "runs"
PlayBegins(a) == IF a.made THEN [a EXCEPT !.sounds = FALSE] ELSE Resume(StopMusic(a))
PlayEnds(a, pc) ==
  IF pc = "runs" THEN [a EXCEPT !.sounds = TRUE, !.made = TRUE] ELSE Resume(StopMusic(a))

\* Fault: closing forgets the spray.
CloseSprays(a) == [SetLedc(a, FALSE, FALSE) EXCEPT !.view = "idle"]

\* control_close leaves the music as it is.
Close(a) == [SetLedc(a, FALSE, FALSE) EXCEPT !.spray = FALSE, !.view = "idle"]
Ended(a) == Close([a EXCEPT !.mode = "none"])

\* Fault: the alarm is moved to when the program begins.
GetupBeginsNow(a, n) == [SetSpray(a) EXCEPT !.getup = n, !.mode = "getup", !.paused = FALSE]

\* The time of the alarm is moved to when the program begins, or somewhat before it.
GetupBegins(a, n) ==
  [SetSpray(a) EXCEPT !.getup = n - Min2(Back), !.mode = "getup", !.paused = FALSE]
SleepBegins(a, n) ==
  SetLedc(SetSpray([a EXCEPT !.sleep = n - Min2(Back), !.mode = "sleep"]), TRUE, FALSE)

\* *time_data += by minutes.
Edited(a, by) ==
  CASE a.edits = "local" -> [a EXCEPT !.local = @ + Min2(by)]
    [] a.edits = "getup" -> [a EXCEPT !.getup = @ + Min2(by)]
    [] a.edits = "sleep" -> [a EXCEPT !.sleep = @ + Min2(by)]

-----------------------------------------------------------------------------
(* control_task.                                                           *)

Due(a, alarm, n) ==
  a.mode = "none" /\ Hour(n) = Hour(alarm) /\ Distance(Minute(n), Minute(alarm)) < Window

\* Fault: the end of the sleep program is measured from the time of getting up.
SleepExitsLate(a, n) == IF n - a.getup > Min2(Over) THEN Ended(a) ELSE a

\* Both programs are left after Over minutes.
GetupExits(a, n) == IF n - a.getup > Min2(Over) THEN Ended(a) ELSE a
SleepExits(a, n) == IF n - a.sleep > Min2(Over) THEN Ended(a) ELSE a

\* The view goes on to its next place, or is done.
ViewGoes(a, pc, of, n) == aroma' = a /\ view' = At(pc, of, n)
Done(a) == ViewGoes(a, "loops", "none", 0)
StartsMusic(a, of, n) == ViewGoes(PlayBegins(a), PlayWaits(a), of, n)

\* The rest of the sleep program, once its music was repeated or was not to be.
SleepSteps(a, n) ==
  LET mid == a.fade /\ n - a.sleep > Min2(SleepMid)
  IN  Done(SleepExits(IF mid THEN StopMusic(SetLedc(a, FALSE, FALSE)) ELSE a, n))
SleepRuns(a, n) ==
  CASE a.mode # "sleep" -> Done(a)
    [] a.mode = "sleep" /\ n % 2 = 0 /\ n - a.sleep < Min2(SleepMid) -> ViewGoes(a, "delays", "sleep", n)
    [] OTHER -> SleepSteps(a, n)
SleepBlock(a, n) ==
  IF Due(a, a.sleep, n) THEN StartsMusic(SleepBegins(a, n), "sleep", n) ELSE SleepRuns(a, n)

\* The rest of the get-up program: after its music, and before.
GetupLeaves(a, n) ==
  LET held == IF ~a.hold /\ n > a.getup + Min2(HoldAt) THEN SetLedc(a, TRUE, TRUE) ELSE a
  IN  SleepBlock(GetupExits(held, n), n)
GetupSteps(a, n) ==
  LET lit == IF ~a.fade /\ n > a.getup + Min2(LightAt) THEN SetLedc(a, TRUE, FALSE) ELSE a
  IN  IF ~lit.play /\ n > a.getup + Min2(MusicAt) THEN StartsMusic(lit, "getup", n) ELSE GetupLeaves(lit, n)
GetupRuns(a, n) ==
  CASE a.mode # "getup" -> SleepBlock(a, n)
    [] a.mode = "getup" /\ a.paused -> SleepBlock(GetupExits([a EXCEPT !.paused = n <= a.until], n), n)
    [] a.mode = "getup" /\ ~a.paused /\ n % 2 = 0 /\ n - a.getup >= Min2(RepeatAt) ->
         ViewGoes(a, "delays", "getup", n)
    [] OTHER -> GetupSteps(a, n)

Begun(a, n) == IF Due(a, a.getup, n) THEN GetupBegins(a, n) ELSE a

RingsGetup == aroma.mode = "none" /\ aroma'.mode = "getup"
Noted ==
  seen' = [seen EXCEPT !.quiet = @ /\ aroma'.mode = "none",
                       !.age = IF aroma'.mode = "none" \/ aroma'.mode # aroma.mode THEN 0 ELSE @,
                       !.rang = IF RingsGetup THEN 0 ELSE @]

\* One iteration of the view, when the times are not being set, up to where it first waits.
Iterate ==
  /\ view.pc = "loops" /\ aroma.view = "idle" /\ ~clock.ran
  /\ GetupRuns(Begun(aroma, Now), Now)
  /\ clock' = [clock EXCEPT !.ran = TRUE]
  /\ Noted /\ UNCHANGED <<main, file>>

\* After a wait the program goes on from where it was, whatever became of it meanwhile. A repeat stops
\* the music after 900 ms and then waits for the elements that have a task; it never makes them.
Repeated(a) ==
  IF view.of = "getup" THEN GetupSteps(Resume(StopMusic(a)), view.now)
  ELSE SleepSteps(Resume(StopMusic(a)), view.now)
DelayEnds ==
  /\ view.pc = "delays"
  /\ IF aroma.made THEN ViewGoes(StopMusic(aroma), "repeats", view.of, view.now) ELSE Repeated(aroma)
  /\ Noted /\ UNCHANGED <<main, file, clock>>

RepeatEnds ==
  /\ view.pc = "repeats" /\ Repeated(aroma)
  /\ Noted /\ UNCHANGED <<main, file, clock>>

StartEnds ==
  /\ view.pc \in {"pauses", "runs"}
  /\ LET a == PlayEnds(aroma, view.pc)
     IN  IF view.of = "getup" THEN GetupLeaves(a, view.now) ELSE SleepRuns(a, view.now)
  /\ Noted /\ UNCHANGED <<main, file, clock>>

\* The view while the times are being set: a held key moves the time on, and it gives up in the end.
ConfigSteps ==
  /\ view.pc = "loops" /\ aroma.view = "config" /\ ~clock.ran /\ aroma.change # 0
  /\ main.steps < MaxSteps /\ main' = [main EXCEPT !.steps = @ + 1]
  /\ aroma' = Edited(aroma, aroma.change * Stride)
  /\ clock' = [clock EXCEPT !.ran = TRUE]
  /\ seen' = [seen EXCEPT !.rang = Rested] /\ UNCHANGED <<view, file>>

ConfigTimesOut ==
  /\ view.pc = "loops" /\ aroma.view = "config" /\ Now > aroma.timeout
  /\ aroma' = [aroma EXCEPT !.view = "idle"]
  /\ UNCHANGED <<view, main, file, clock, seen>>

\* The light task ends a fade that is to be held (aroma_ledc.c).
LightHolds ==
  /\ aroma.fade /\ aroma.hold
  /\ aroma' = [aroma EXCEPT !.fade = FALSE]
  /\ UNCHANGED <<view, main, file, clock, seen>>

-----------------------------------------------------------------------------
(* The keys.                                                               *)

Met == view.pc \in {"delays", "repeats", "pauses", "runs"}
\* One key at a time, pressed after the view ran or while it waits.
Handles == main.pc = "idle" /\ main.held = "none"
           /\ ((view.pc = "loops" /\ clock.ran) \/ Met)
\* Going through the times is one of MaxPresses.
Pressed(b) ==
  /\ main.presses < MaxPresses \/ (b = "set" /\ aroma.view = "config")
  /\ main' = [main EXCEPT !.held = b, !.long = FALSE,
                          !.presses = IF b = "set" /\ aroma.view = "config" THEN @ ELSE @ + 1,
                          !.pc = IF b # "set" THEN @
                                 ELSE IF aroma.view = "config" /\ aroma.config = "idle" THEN "opens"
                                 ELSE "shows"]
HeldLong(b) == main.pc = "idle" /\ main.held = b /\ ~main.long /\ main' = [main EXCEPT !.long = TRUE]

\* button_13_PRESSED: the light off, or a pause of the get-up program.
StopPressed ==
  /\ Handles /\ Pressed("stop")
  /\ aroma' = IF aroma.mode # "getup" THEN SetLedc(aroma, FALSE, FALSE)
              ELSE IF aroma.paused THEN aroma
              ELSE [StopMusic(SetLedc(aroma, FALSE, FALSE))
                      EXCEPT !.paused = TRUE, !.until = Now + Min2(PauseTime)]
  /\ UNCHANGED <<view, file, clock, seen>>

\* button_13_LONG_PRESSED and, on the release, button_13_LONG_RELEASE.
StopHeld ==
  /\ main.pc = "idle" /\ main.held = "stop"
  /\ main' = IF main.long THEN [main EXCEPT !.held = "none"] ELSE [main EXCEPT !.long = TRUE]
  /\ aroma' = StopMusic(Ended(aroma))
  /\ seen' = [seen EXCEPT !.quiet = TRUE, !.met = Met]
  /\ UNCHANGED <<view, file, clock>>

\* button_32_PRESSED and button_27_PRESSED: later or earlier, or the lamp.
LampPressed(b, by) ==
  /\ Handles /\ Pressed(b)
  /\ IF aroma.view = "config"
     THEN aroma' = Edited(aroma, by) /\ seen' = [seen EXCEPT !.rang = Rested]
     ELSE UNCHANGED <<aroma, seen>>
  /\ UNCHANGED <<view, file, clock>>

\* Their long presses make the time run, or start a program by hand, up to where its music waits.
LampHeld(b, by) ==
  /\ main.pc = "idle" /\ main.held = b /\ ~main.long
  /\ IF aroma.view = "config"
     THEN aroma' = [aroma EXCEPT !.change = by] /\ main' = [main EXCEPT !.long = TRUE] /\ UNCHANGED seen
     ELSE IF aroma.mode # "none" THEN main' = [main EXCEPT !.long = TRUE] /\ UNCHANGED <<aroma, seen>>
     ELSE LET a == IF b = "sun" THEN SetLedc(GetupBegins(aroma, Now), TRUE, FALSE)
                   ELSE SleepBegins(aroma, Now)
          IN  /\ aroma' = PlayBegins(a)
              /\ main' = [main EXCEPT !.long = TRUE, !.pc = PlayWaits(a)]
              /\ seen' = [seen EXCEPT !.quiet = FALSE, !.age = 0, !.rang = Rested, !.want = -1]
  /\ UNCHANGED <<view, file, clock>>

HeldStarts ==
  /\ main.pc \in {"pauses", "runs"}
  /\ aroma' = PlayEnds(aroma, main.pc) /\ main' = [main EXCEPT !.pc = "idle"]
  /\ UNCHANGED <<view, file, clock, seen>>

\* The releases; the time only stops running when it is still being set.
Released ==
  /\ main.held # "none" /\ main.pc = "idle" /\ ~(main.held = "stop" /\ main.long)
  /\ main' = [main EXCEPT !.held = "none", !.long = FALSE]
  /\ aroma' = IF main.held \in {"sun", "moon"} /\ main.long /\ aroma.view = "config"
              THEN [aroma EXCEPT !.change = 0] ELSE aroma
  /\ UNCHANGED <<view, file, clock, seen>>

\* button_33_PRESSED, step by step through the times; the last one saves them.
SetPressed ==
  /\ Handles /\ Pressed("set")
  /\ LET a == IF aroma.view # "idle" THEN aroma
              ELSE LET opened == [aroma EXCEPT !.view = "config", !.config = "local",
                                               !.timeout = Now + Min2(ConfigTime)]
                   IN  IF file = NoFile THEN opened
                       ELSE [opened EXCEPT !.getup = file.getup + Min2(GetupLead),
                                           !.sleep = file.sleep + Min2(SleepLead),
                                           !.local = IF Now < file.local THEN file.local ELSE Now]
     IN  aroma' = IF a.config # "idle" THEN a
                  ELSE [a EXCEPT !.view = "idle", !.getup = @ - Min2(GetupLead),
                                 !.sleep = @ - Min2(SleepLead)]
  /\ seen' = [seen EXCEPT !.rang = Rested, !.set = TRUE,
                          !.want = IF aroma.view = "config" THEN @ ELSE -1]
  /\ UNCHANGED <<view, file, clock>>

\* The name of the time is shown for a second, then the keys are for it.
SetShows ==
  /\ main.pc = "shows" /\ main' = [main EXCEPT !.pc = "idle"]
  /\ \E c \in {<<"local", "getup">>, <<"getup", "sleep">>, <<"sleep", "idle">>} :
       /\ aroma.config = c[1]
       /\ aroma' = [aroma EXCEPT !.edits = c[1], !.config = c[2]]
  /\ UNCHANGED <<view, file, clock, seen>>

\* button_33_LONG_PRESSED: the times stay as they were shown.
SetHeld ==
  /\ HeldLong("set")
  /\ aroma' = [aroma EXCEPT !.view = "idle"]
  /\ UNCHANGED <<view, file, clock, seen>>

-----------------------------------------------------------------------------
(* The file, the clock and restarts.                                       *)

InDay(t) == IF t < 0 THEN t + Day ELSE t
Times == [getup |-> InDay(aroma.getup), sleep |-> InDay(aroma.sleep), local |-> InDay(aroma.local)]

\* aroma_config_write: fopen with "wb", which truncates or fails, then fwrite, which may fail.
SaveOpens ==
  /\ main.pc = "opens"
  /\ \/ file' = NoFile /\ main' = [main EXCEPT !.pc = "writes"]
     \/ file' = file /\ main' = [main EXCEPT !.pc = "sets"]
  /\ UNCHANGED <<aroma, view, clock, seen>>

SaveWrites ==
  /\ main.pc = "writes" /\ main' = [main EXCEPT !.pc = "sets"]
  /\ \/ file' = Times /\ seen' = [seen EXCEPT !.want = (aroma.getup + Min2(GetupLead)) % Day]
     \/ file' = file /\ seen' = seen
  /\ UNCHANGED <<aroma, view, clock>>

\* Then set_local_time and sync_time.
SaveSets ==
  /\ main.pc = "sets" /\ main' = [main EXCEPT !.pc = "idle"]
  /\ clock' = [clock EXCEPT !.now = InDay(aroma.local)]
  /\ seen' = [seen EXCEPT !.set = TRUE, !.rang = Rested]
  /\ UNCHANGED <<aroma, view, file>>

Restarts(file1) ==
  /\ aroma' = Booted /\ file' = file1
  /\ view' = At("boots", "none", 0)
  /\ main' = [main EXCEPT !.pc = "idle", !.held = "none", !.long = FALSE]
  /\ seen' = [Calm EXCEPT !.want = seen.want]

\* The power goes at any step; the clock has a battery.
Crashes ==
  /\ clock.crashes < MaxCrashes
  /\ Restarts(file)
  /\ clock' = [clock EXCEPT !.crashes = @ + 1]

\* task_view up to its loop: with a file, the times are taken from it.
Boots ==
  /\ view.pc = "boots" /\ file # NoFile
  /\ aroma' = [aroma EXCEPT !.getup = file.getup - Min2(GetupLead),
                            !.sleep = file.sleep - Min2(SleepLead), !.local = file.local]
  /\ clock' = [clock EXCEPT !.now = IF file.local - @ > Min2(ClockSlack) THEN file.local ELSE @]
  /\ view' = [view EXCEPT !.pc = "loops"]
  /\ UNCHANGED <<main, file, seen>>

\* Without one the default is written, which may fail, and the program restarts.
BootsFirst ==
  /\ view.pc = "boots" /\ file = NoFile
  /\ \/ view' = [view EXCEPT !.pc = "writes"] /\ UNCHANGED seen
     \/ view' = [view EXCEPT !.pc = "loops"] /\ seen' = [seen EXCEPT !.want = -1]
  /\ UNCHANGED <<aroma, main, file, clock>>

BootsWrites ==
  /\ view.pc = "writes"
  /\ Restarts(Default)
  /\ UNCHANGED clock

\* The view runs at least once in two instants, and waits in one iteration for less than one; only a
\* key that makes the time run or that is to end everything is held for longer than it is handled.
Tick ==
  /\ clock.ticks < MaxTicks /\ (view.pc = "loops" \/ Met)
  /\ \/ main.pc \in {"pauses", "runs", "shows"}
     \/ main.pc = "idle" /\ (main.held = "none" \/ (main.long /\ (main.held = "stop" \/ aroma.change # 0)))
  /\ IF view.pc = "loops" /\ aroma.view = "config" /\ (aroma.change = 0 \/ main.steps = MaxSteps)
     THEN Now <= aroma.timeout ELSE clock.ran
  /\ \E skip \in IF view.pc = "loops" THEN {1, 2} ELSE {1} :
       /\ clock' = [clock EXCEPT !.now = @ + skip, !.ticks = @ + skip, !.ran = FALSE]
       /\ seen' = [seen EXCEPT !.age = IF aroma.mode = "none" THEN 0 ELSE @ + skip,
                               !.set = (@ /\ (aroma.mode # "none" \/ Met)) \/ aroma.view = "config",
                               !.rang = IF @ + skip > Rested THEN Rested ELSE @ + skip]
  /\ UNCHANGED <<aroma, view, main, file>>

ViewTask ==
  \/ Iterate \/ DelayEnds \/ RepeatEnds \/ StartEnds \/ ConfigSteps \/ ConfigTimesOut
  \/ Boots \/ BootsFirst \/ BootsWrites
MainTask ==
  \/ StopPressed \/ StopHeld
  \/ LampPressed("sun", 1) \/ LampPressed("moon", -1) \/ LampHeld("sun", 1) \/ LampHeld("moon", -1)
  \/ HeldStarts \/ Released \/ SetPressed \/ SetShows \/ SetHeld \/ SaveOpens \/ SaveWrites \/ SaveSets
ControlNext == ViewTask \/ MainTask \/ LightHolds \/ Tick \/ Crashes

-----------------------------------------------------------------------------
\* Holding the stop key ends the program and the spray until somebody or an alarm starts a program
\* again. The lamp and the music stay off as long, too, unless the view was about to start the music:
\* in the delay of a repeat, in aroma_music or in aroma_play. Then it goes on, in no program, and what
\* it starts no program ends (aroma_view.c:190, 220, 258).
StopIsKept ==
  seen.quiet =>
    /\ aroma.mode = "none" /\ ~aroma.spray
    /\ ~seen.met => ~aroma.fade /\ ~aroma.play /\ ~aroma.sounds

\* A program, whatever is pressed during it, lasts no longer than an hour less the three minutes it
\* is set back by, in ticks that went by and not on the clock, unless the times were set meanwhile
\* or in the wait at whose end it began.
ProgramEnds == aroma.mode # "none" /\ ~seen.set => seen.age <= Min2(Over - Back) + 3

\* An alarm that was stopped does not begin again within the hour: setting it back when it begins
\* takes it out of its own window, unless the times were set or the program restarted.
AlarmRingsOnce == [][RingsGetup /\ UNCHANGED main => seen.rang >= Min2(PerHour)]_control

\* What the comment on the offset says: the get-up program begins half an hour before getting up.
HalfHourBefore ==
  [][RingsGetup /\ UNCHANGED main /\ seen.want >= 0 =>
       LET late == (Now + Min2(GetupLead) - seen.want) % Day
       IN  late <= Min2(Window) \/ late >= Day - Min2(Window)]_control
=============================================================================
