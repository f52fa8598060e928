----------------------------- MODULE PeriphTouch -----------------------------
(***************************************************************************)
(* One touch pad of lib/esp_peripherals/periph_touch.c and lib/touch: the  *)
(* timer task reads the pad every 150 ms into the one result, the task of  *)
(* the service sends as events what it finds there when it comes to it.    *)
(***************************************************************************)
EXTENDS EspPeriph

CONSTANTS
  Readings,     \* filtered values of the pad
  TapPercent,   \* tap_threshold_percent
  LongTap,      \* long_tap_time_ms, in periods of the timer
  MaxReadings   \* bound: readings that differ from the one before

ASSUME TouchAssumption == Readings \subseteq Nat \ {0} /\ TapPercent \in 1 .. 100 /\ LongTap \in Nat

VARIABLE touch  \* the touch_item and the result; what was recognised since the
                \* last tap, what is not told yet, whether some of it was lost or
                \* told twice, and whether the task was ever late

NoEvent == "unchange"

TouchInit ==
  touch = [untouch |-> 0, threshold |-> 0, tapped |-> FALSE, since |-> 0, long |-> FALSE,
           value |-> 0, changes |-> 0, result |-> NoEvent,
           seen |-> <<>>, untold |-> NoEvent, wrong |-> FALSE, late |-> FALSE]

Calibrated(pad, untouch) ==
  [pad EXCEPT !.untouch = untouch, !.threshold = (untouch * TapPercent) \div 100]

\* touch_get_state up to the new threshold; due: more than 200 ms since the last one.
Measured(v, due) ==
  LET pad   == IF touch.untouch = 0 THEN Calibrated(touch, v) ELSE touch
      taps  == IF pad.tapped THEN v <= pad.threshold ELSE v < pad.threshold
      read  == [pad EXCEPT !.tapped = taps, !.value = v]
  IN  IF due /\ ~taps THEN Calibrated(read, (read.untouch + v) \div 2) ELSE read

\* The rest of touch_get_state.
TouchStatus(pad) ==
  LET longer == pad.since - 1 > LongTap
  IN  CASE pad.since = 0 /\ pad.tapped -> "press"
        [] pad.since > 0 /\ ~pad.tapped /\ longer -> "long release"
        [] pad.since > 0 /\ ~pad.tapped /\ ~longer -> "release"
        [] pad.since > 0 /\ pad.tapped /\ ~pad.long /\ longer -> "long press"
        [] OTHER -> NoEvent

Recognised(pad, status) ==
  CASE status = "press" -> [pad EXCEPT !.since = 1, !.long = FALSE, !.seen = <<status>>]
    [] status \in {"release", "long release"} ->
         [pad EXCEPT !.since = 0, !.long = FALSE, !.seen = Append(@, status)]
    [] status = "long press" -> [pad EXCEPT !.long = TRUE, !.seen = Append(@, status)]
    [] OTHER -> pad

Unserved == Contains(obj.queue, "touch") \/ Held("run", "touch")

\* esp_touch_read: the result is cleared first.
Read(pad, status) ==
  touch' = [Recognised(pad, status) EXCEPT
              !.result = status,
              !.wrong = @ \/ (touch.untold # NoEvent /\ status # NoEvent),
              !.untold = IF status = NoEvent THEN @ ELSE status,
              !.late = @ \/ Unserved \/ (status # NoEvent /\ Len(obj.queue) = CmdLen)]

\* Fault: only the end of a tap wakes the task.
TouchTimerReleases ==
  /\ Fires("touch")
  /\ \E v \in Readings, due \in BOOLEAN :
       LET pad    == Measured(v, due)
           status == TouchStatus(pad)
       IN  /\ v # touch.value => touch.changes < MaxReadings
           /\ Read([pad EXCEPT !.changes = @ + (IF v # touch.value THEN 1 ELSE 0)], status)
           /\ IF status = "release" THEN SendCmd("touch") ELSE UNCHANGED service

\* touch_timer_handler with a new value.
TouchTimer ==
  /\ Fires("touch")
  /\ \E v \in Readings, due \in BOOLEAN :
       LET pad    == Measured(v, due)
           aged   == [pad EXCEPT !.since = IF @ = 0 THEN 0 ELSE IF @ > LongTap + 1 THEN @ ELSE @ + 1]
           status == TouchStatus(aged)
       IN  /\ v # touch.value => touch.changes < MaxReadings
           /\ Read([aged EXCEPT !.changes = @ + (IF v # touch.value THEN 1 ELSE 0)], status)
           /\ IF status = NoEvent THEN UNCHANGED service ELSE SendCmd("touch")

\* It comes less than 120 ms after the last one, or the pad could not be read.
TouchTimerInVain ==
  /\ Fires("touch")
  /\ Read(touch, NoEvent)
  /\ UNCHANGED service

TouchStarts ==
  /\ Held("init", "touch")
  /\ InitReturns("touch", TRUE, "RUNNING")
  /\ UNCHANGED touch

\* _touch_run: whatever the result is by now.
TouchRun ==
  /\ Held("run", "touch")
  /\ touch' = [touch EXCEPT !.wrong = @ \/ touch.result # touch.untold, !.untold = NoEvent]
  /\ RunReturns

TouchDestroy ==
  /\ Held("destroy", "touch")
  /\ DestroyReturns("touch")
  /\ UNCHANGED touch

\* A command that is taken from the queue while the peripheral is stopped.
TouchSkipped ==
  touch' = [touch EXCEPT !.late = @ \/ (/\ At("waits") /\ obj.queue # <<>> /\ Head(obj.queue) = "touch"
                                        /\ ~Serves("touch"))]

TouchServe == TouchStarts \/ TouchRun \/ TouchDestroy
TouchNext == TouchServe \/ TouchTimer \/ TouchTimerInVain
=============================================================================
