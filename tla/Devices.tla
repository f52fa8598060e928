-------------------------------- MODULE Devices --------------------------------
(***************************************************************************)
(* The drivers of the devices on the board, checked part by part: each has *)
(* a chip of its own, and the tasks that share one are in its part. The    *)
(* dates of the clock are a part of their own.                             *)
(***************************************************************************)
EXTENDS Calendar, RealTimeClock, SegmentDisplay, AudioHal, Zl38063

VARIABLE part

vars == <<part, day, clocks, display, hal, voice, hbi>>

YearsMC == 1970..2099
\* Records in two pages of the memory, at their beginnings and ends.
TargetsMC == {<<0, 256>>, <<111, 256>>, <<111, 508>>, <<111, 510>>}

Init ==
  /\ part \in {"dates", "clock", "display", "codec", "voice", "bus"}
  /\ CalendarInit /\ ClockInit /\ DisplayInit /\ HalInit /\ VoiceInit /\ HbiBegins
  \* A part that does not run begins in one way.
  /\ part # "dates" => day.y = 2020
  /\ part # "clock" => ~chip.lost
  /\ part # "codec" => codec.chip = "es8388" /\ regs[ChipPower] = 255

Next ==
  /\ UNCHANGED part
  /\ \/ part = "dates" /\ Tomorrow /\ UNCHANGED <<clocks, display, hal, voice, hbi>>
     \/ part = "clock" /\ ClockNext /\ UNCHANGED <<day, display, hal, voice, hbi>>
     \/ part = "display" /\ DisplayNext /\ UNCHANGED <<day, clocks, hal, voice, hbi>>
     \/ part = "codec" /\ HalNext /\ UNCHANGED <<day, clocks, display, voice, hbi>>
     \/ part = "voice" /\ VoiceNext /\ UNCHANGED <<day, clocks, display, hal, hbi>>
     \/ part = "bus" /\ HbiNext /\ UNCHANGED <<day, clocks, display, hal, voice>>

\* Each task goes on with a time it sets or syncs.
Syncs(t) == part = "clock" /\ ClockTask(t) /\ UNCHANGED <<part, day, display, hal, voice, hbi>>
Spec == Init /\ [][Next]_vars /\ \A t \in Tasks : WF_vars(Syncs(t))

\* The dates agree (see Calendar) on every day that is walked through.
DatesKept == part = "dates" => DatesAgree

\* An upload leaves the processor with the whole firmware (see Zl38063), and each of its words gets to its
\* place (see Zl38063).
UploadIsWhole == StepsAreWhole /\ WordsLand

\* A task that sets the time or syncs it gets through, over however many restarts (sync_time,
\* src/aroma_view.c).
SyncEnds == \A t \in Tasks : part = "clock" /\ pc[t] # "idle" ~> pc[t] = "idle"
=============================================================================
