------------------------------ MODULE PeriphLed ------------------------------
(***************************************************************************)
(* The blinking lights of lib/esp_peripherals/periph_led.c: a table of     *)
(* channels that the application fills and the handler of the one timer    *)
(* walks, in two tasks and without a lock.                                 *)
(***************************************************************************)
EXTENDS EspPeriph

CONSTANTS
  Channels,     \* MAX_LED_CHANNEL
  Pins,         \* the pins lights are on
  Counts        \* half periods an application asks for, if not for ever (-1)

ASSUME LedAssumption ==
  Channels \in Nat \ {0} /\ Pins \subseteq Nat \ {0} /\ Counts \subseteq Nat

VARIABLE led    \* the channels; the one the handler is at (0: it does not run) and
                \* whether it is finishing it; the blink being entered; what was
                \* asked of each pin and not done yet, whether a FINISH came with
                \* some of it open, whether both tasks were at one channel

Free == -1
NoChannel == [pin |-> Free, loop |-> -1, off |-> FALSE]

LedInit ==
  led = [ch |-> [i \in 1 .. Channels |-> NoChannel], at |-> 0, finishing |-> FALSE,
         entry |-> [ch |-> 0, loop |-> 0], open |-> [p \in Pins |-> 0],
         early |-> FALSE, met |-> FALSE]

\* Fault: the first channel that will do is taken, before the rest is looked at.
FindLedChannelFirst(pin) ==
  LET fit == {i \in 1 .. Channels : led.ch[i].pin \in {pin, Free}}
  IN  IF fit # {} THEN Min(fit) ELSE 0

\* _find_led_channel: the channel of the pin, else the last free one, else 0.
FindLedChannel(pin) ==
  LET mine == {i \in 1 .. Channels : led.ch[i].pin = pin}
      free == {i \in 1 .. Channels : led.ch[i].pin = Free}
  IN  IF mine # {} THEN Min(mine) ELSE IF free # {} THEN Max(free) ELSE 0

Usable == "led" \in board /\ periph["led"].state = "RUNNING" /\ obj.run

\* periph_led_blink: the pin is in the table before the rest is.
LedBlink(pin, loop) ==
  LET i == FindLedChannel(pin)
  IN  /\ Usable /\ Calls(IF i = 0 THEN "idle" ELSE "blink", "led")
      /\ IF i = 0 THEN UNCHANGED led
         ELSE led' = [led EXCEPT !.ch[i].pin = pin, !.entry = [ch |-> i, loop |-> loop],
                                 !.open[pin] = loop, !.met = @ \/ led.at = i]
      /\ UNCHANGED <<obj, periph, task>>

LedBlinkSets ==
  /\ caller.pc = "blink"
  /\ led' = [led EXCEPT !.ch[led.entry.ch].loop = led.entry.loop, !.ch[led.entry.ch].off = TRUE,
                        !.entry.ch = 0]
  /\ periph' = [periph EXCEPT !["led"].timer = TRUE]
  /\ caller' = [caller EXCEPT !.pc = "idle"]
  /\ UNCHANGED <<obj, task>>

\* periph_led_stop of a pin that has, or can have, a channel.
LedStop(pin) ==
  LET i == FindLedChannel(pin)
  IN  /\ Usable /\ i # 0 /\ Calls("idle", "led")
      /\ led' = IF led.ch[i].pin = Free THEN led
                ELSE [led EXCEPT !.ch[i].pin = Free, !.open[pin] = 0, !.met = @ \/ led.at = i]
      /\ UNCHANGED <<obj, periph, task>>

-----------------------------------------------------------------------------
(* led_timer_handler.                                                      *)

LedTimer ==
  /\ Fires("led") /\ led.at = 0
  /\ led' = [led EXCEPT !.at = 1]
  /\ UNCHANGED service

Next1 == IF led.at = Channels THEN 0 ELSE led.at + 1
Here == led.ch[led.at]

LedSkips ==
  /\ led.at # 0 /\ ~led.finishing /\ Here.pin = Free
  /\ led' = [led EXCEPT !.at = Next1]
  /\ UNCHANGED service

\* The count is through: ledc_stop and the FINISH event, then the channel is freed.
LedFinishes ==
  /\ led.at # 0 /\ ~led.finishing /\ Here.pin # Free /\ Here.loop = 0
  /\ led' = [led EXCEPT !.finishing = TRUE, !.met = @ \/ led.entry.ch = led.at,
                        !.early = @ \/ led.open[Here.pin] # 0]
  /\ UNCHANGED service

LedFrees ==
  /\ led.finishing
  /\ led' = [led EXCEPT !.ch[led.at].pin = Free, !.finishing = FALSE, !.at = Next1]
  /\ UNCHANGED service

\* The light is switched if its time has come.
LedToggles ==
  /\ led.at # 0 /\ ~led.finishing /\ Here.pin # Free /\ Here.loop # 0
  /\ \E due \in BOOLEAN :
       LET counts == due /\ Here.loop > 0
           lit == [Here EXCEPT !.off = IF due THEN ~@ ELSE @, !.loop = IF counts THEN @ - 1 ELSE @]
       IN  led' = [led EXCEPT
             !.ch[led.at] = lit,
             !.open[Here.pin] = IF counts /\ @ > 0 THEN @ - 1 ELSE @,
             !.met = @ \/ led.entry.ch = led.at,
             !.at = Next1]
  /\ UNCHANGED service

\* _led_init starts no timer, the first blink does; _led_run does nothing.
LedStarts == Held("init", "led") /\ InitReturns("led", FALSE, "RUNNING") /\ UNCHANGED led

\* The timer was stopped: the handler is not running any more.
LedDestroy ==
  /\ Held("destroy", "led") /\ led.at = 0
  /\ DestroyReturns("led") /\ UNCHANGED led

LedServe == LedStarts \/ LedDestroy
LedHandler == LedSkips \/ LedFinishes \/ LedFrees \/ LedToggles
LedNext ==
  \/ \E pin \in Pins : LedStop(pin) \/ \E loop \in Counts \cup {-1} : LedBlink(pin, loop)
  \/ LedBlinkSets \/ LedTimer \/ LedHandler \/ LedServe
=============================================================================
