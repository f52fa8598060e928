----------------------------- MODULE Peripherals -----------------------------
(***************************************************************************)
(* The peripheral service with the peripherals of one board: the task, the *)
(* timers, the interrupts, the application and the stacks interleave.      *)
(***************************************************************************)
EXTENDS PeriphButton, PeriphTouch, PeriphSdCard, PeriphLed, PeriphWifi, PeriphBluetooth, PeriphConsole

pads == <<button, touch>>
others == <<sdcard, led, console>>
vars == <<board, service, pads, others, wifis, bluetooths>>

Init ==
  /\ ServiceInit /\ ButtonInit /\ TouchInit /\ SdCardInit /\ LedInit
  /\ WifiInit /\ BluetoothInit /\ ConsoleInit

ServiceStep == ServiceNext /\ TouchSkipped /\ UNCHANGED <<button, others, wifis, bluetooths>>

WithButton(A) == A /\ UNCHANGED <<touch, others, wifis, bluetooths>>
WithTouch(A) == A /\ UNCHANGED <<button, others, wifis, bluetooths>>
WithSdCard(A) == A /\ UNCHANGED <<pads, led, console, wifis, bluetooths>>
WithLed(A) == A /\ UNCHANGED <<pads, sdcard, console, wifis, bluetooths>>
WithConsole(A) == A /\ UNCHANGED <<pads, sdcard, led, wifis, bluetooths>>
WithWifi(A) == A /\ UNCHANGED <<pads, others, bluetooths>>
WithBluetooth(A) == A /\ UNCHANGED <<pads, others, wifis>>

Next ==
  /\ UNCHANGED board
  /\ \/ ServiceStep
     \/ WithButton(ButtonNext) \/ WithTouch(TouchNext) \/ WithSdCard(SdCardNext)
     \/ WithLed(LedNext) \/ WithConsole(ConsoleNext)
     \/ WithWifi(WifiNext) \/ WithBluetooth(BluetoothNext)

\* What the task of the service does, in its own functions and in those of a peripheral.
TaskStep ==
  /\ UNCHANGED board
  /\ \/ Serve /\ TouchSkipped /\ UNCHANGED <<button, others, wifis, bluetooths>>
     \/ WithButton(ButtonServe) \/ WithTouch(TouchServe) \/ WithSdCard(SdCardServe)
     \/ WithLed(LedServe) \/ WithConsole(ConsoleServe)
     \/ WithWifi(WifiServe) \/ WithBluetooth(BtServe)

\* The scheduler runs every task that can run, the timers fire, the stack answers;
\* nothing makes the user, the phones or the application act.
Fairness ==
  /\ WF_vars(TaskStep)
  /\ WF_vars(UNCHANGED board /\ Proceed /\ TouchSkipped /\ UNCHANGED <<button, others, wifis, bluetooths>>)
  /\ WF_vars(UNCHANGED board /\ WithButton(ButtonTimer))
  /\ WF_vars(UNCHANGED board /\ WithSdCard(SdCardTimer))
  /\ WF_vars(UNCHANGED board /\ WithLed(LedHandler \/ LedBlinkSets))
  /\ WF_vars(UNCHANGED board /\ WithConsole(ConsoleTask))
  /\ WF_vars(UNCHANGED board /\ WithWifi(WifiEvents))
  /\ WF_vars(UNCHANGED board /\ WithWifi(Stack))
  /\ WF_vars(UNCHANGED board /\ WithWifi(ReconnectFires))
  /\ WF_vars(UNCHANGED board /\ WithWifi(ReconnectConnects))

Spec == Init /\ [][Next]_vars /\ Fairness

-----------------------------------------------------------------------------
(* Properties.                                                             *)

\* esp_periph_destroy frees the service only when nothing can call into it any more:
\* the task is over, no timer runs and no interrupt is installed, unless it was called
\* before the task or a peripheral had come up.
FreedIsOver ==
  ~obj.live =>
    \/ caller.early
    \/ /\ task.pc = "none"
       /\ \A p \in board : ~periph[p].timer
       /\ ~button.isr /\ ~sdcard.isr

PressStory(told) ==
  \/ told \in {<<>>, <<"press">>, <<"press", "release">>, <<"press", "long release">>}
  \/ told \in {<<"press", "long press">>, <<"press", "long press", "long release">>}

\* Whatever commands are dropped or come twice, a key tells each press once, a long one
\* at most once, and one release of the right length (button_get_state, touch_get_state).
KeysTellStories == PressStory(button.told) /\ PressStory(touch.seen)

\* What the pad recognises is told once and in order, as long as the task of the service
\* serves a command before the timer reads the pad again (periph_touch.c shares one result).
TouchTold == ~touch.late => ~touch.wrong

\* What a key or a pad does reaches the application as it was done.
InputsTold == KeysTellStories /\ TouchTold

\* Unless the handler and the application meet at one channel, a blink that was asked for
\* stays in the table until it is finished or stopped, its FINISH comes after all its half
\* periods, and no pin has two channels.
BlinksWhole ==
  /\ ~led.met =>
       /\ ~led.early
       /\ \A p \in Pins : led.open[p] # 0 => \E i \in 1 .. Channels : led.ch[i].pin = p
  /\ \A i, j \in 1 .. Channels : led.ch[i].pin = led.ch[j].pin => i = j \/ led.ch[i].pin = Free

Linked == "CONNECTED" \in wifi.bits

\* Once the events under way are handled, the bit the players wait for says how the link is,
\* and a setting up that has ended has left its result, unless the stack answered while
\* _wifi_init or periph_wifi_config_start had still to clear the bits.
BitsTell ==
  /\ ~("CONNECTED" \in wifi.bits /\ "DISCONNECTED" \in wifi.bits)
  /\ stack.events = <<>> /\ ~wifi.early /\ stack.link \in {"idle", "trying", "up"}
     /\ wifi.bits # {} => (Linked <=> stack.link = "up")
  /\ setup.pc = "waits" /\ setup.sc = "over" /\ ~setup.early => wifi.bits \cap {"DONE", "ERROR"} # {}

\* Unless two tasks met in the machine of the keys, the key the phone holds down is the one
\* the machine waits to release, under its label; idle, it holds none.
PhoneHoldsOne ==
  ~phone.raced /\ bt.avrc /\ key.tmr =>
    phone.held = IF key.state = "press" THEN [code |-> key.code, tl |-> key.tl] ELSE NothingHeld

-----------------------------------------------------------------------------

\* A peripheral that is served comes to agree with the world although commands are dropped
\* and mounts fail: the button with its pin, the card with its slot.
FollowsTheWorld ==
  /\ <>[]Serves("button") => []<>(button.down <=> button.since > 0)
  /\ <>[]Serves("sdcard") => <>[](sdcard.mounted <=> sdcard.present)

\* As long as nobody sets up the network and the access point is there, the station gets
\* connected, however often it was not (wifi_reconnect_timer); an address that came
\* before _wifi_init was through is forgotten for good.
Reconnects == <>[](stack.ap /\ ~wifi.manual /\ ~wifi.early /\ Serves("wifi")) => []<>Linked
\* Both: what a peripheral stands for is reached in the end, however often it failed.
Settles == FollowsTheWorld /\ Reconnects

Stuck == caller.early \/ console.late \/ \E p \in board : periph[p].state = "ERROR"

\* esp_periph_destroy returns, unless a peripheral was never up or the console's task came
\* up after it had been told to stop.
DestroyEnds == caller.pc = "awaits" ~> (caller.pc = "idle" \/ Stuck)
=============================================================================
