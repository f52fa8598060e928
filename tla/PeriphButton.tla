---------------------------- MODULE PeriphButton ----------------------------
(***************************************************************************)
(* One button of lib/esp_peripherals/periph_button.c and lib/button: its   *)
(* interrupt and its 50 ms timer both only wake the task of the service,   *)
(* which reads the pin and decides what to tell.                           *)
(***************************************************************************)
EXTENDS EspPeriph

CONSTANTS
  LongPress,    \* long_press_time_ms, in steps of the clock
  MaxEdges      \* bound: times the button changes

ASSUME ButtonAssumption == LongPress \in Nat

VARIABLE button \* the pin, the btn_item (since: steps since last_press_tick,
                \* 0 for none) and what was told since the last press

ButtonInit ==
  button = [isr |-> FALSE, down |-> FALSE, since |-> 0, long |-> FALSE,
            told |-> <<>>, edges |-> 0]

ButtonStatus ==
  LET longer == button.since - 1 > LongPress
  IN  CASE button.since = 0 /\ button.down -> "press"
        [] button.since > 0 /\ ~button.down /\ longer -> "long release"
        [] button.since > 0 /\ ~button.down /\ ~longer -> "release"
        [] button.since > 0 /\ button.down /\ ~button.long /\ longer -> "long press"
        [] OTHER -> "unchange"

\* button_init and the timer; _button_init always succeeds.
ButtonStarts ==
  /\ Held("init", "button")
  /\ button' = [button EXCEPT !.isr = TRUE]
  /\ InitReturns("button", TRUE, "RUNNING")

ButtonRun ==
  /\ Held("run", "button")
  /\ button' =
       CASE ButtonStatus = "press" ->
              [button EXCEPT !.since = 1, !.long = FALSE, !.told = <<"press">>]
         [] ButtonStatus \in {"release", "long release"} ->
              [button EXCEPT !.since = 0, !.long = FALSE, !.told = Append(@, ButtonStatus)]
         [] ButtonStatus = "long press" ->
              [button EXCEPT !.long = TRUE, !.told = Append(@, ButtonStatus)]
         [] OTHER -> button
  /\ RunReturns

ButtonDestroy ==
  /\ Held("destroy", "button")
  /\ button' = [button EXCEPT !.isr = FALSE]
  /\ DestroyReturns("button")

\* The pin changes; button_intr_handler.
ButtonEdge ==
  /\ "button" \in board /\ button.edges < MaxEdges
  /\ button' = [button EXCEPT !.down = ~@, !.edges = @ + 1]
  /\ IF button.isr THEN SendCmd("button") ELSE UNCHANGED service

\* button_timer_handler.
ButtonTimer == Fires("button") /\ SendCmd("button") /\ UNCHANGED button

\* Time passes while a press is being measured.
ButtonTime ==
  /\ button.since \in 1 .. LongPress + 1
  /\ button' = [button EXCEPT !.since = @ + 1]
  /\ UNCHANGED service

ButtonServe == ButtonStarts \/ ButtonRun \/ ButtonDestroy
ButtonNext == ButtonServe \/ ButtonEdge \/ ButtonTimer \/ ButtonTime
=============================================================================
