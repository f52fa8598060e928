--------------------------- MODULE PeriphBluetooth ---------------------------
(***************************************************************************)
(* lib/audio_service: the bluetooth service with its stream, its remote    *)
(* control peripheral, and the machine of bt_keycontrol.c that turns a     *)
(* key into a press and a release. The machine is run by the application   *)
(* (a key) and by the task of the stack (an answer) without a lock.        *)
(* The phone is external: it answers what is sent to it, or does not.      *)
(***************************************************************************)
EXTENDS EspPeriph

CONSTANTS
  Phones,       \* the phones that may connect
  Keys,         \* ESP_AVRC_PT_CMD_*
  Labels,       \* transaction labels: 16 in the source
  MaxKeys       \* bound: keys pressed

ASSUME BluetoothAssumption == Labels \in Nat \ {0} /\ Labels % 2 = 0

VARIABLES
  bt,           \* g_bt_service; up: the stack under it came up
  key,          \* key_cb
  phone         \* commands it has not answered, the key it holds down with the
                \* label of the press; raced: two tasks met in the machine

bluetooths == <<bt, key, phone>>
NoKey == "none"
ZeroKey == [state |-> "idle", tl |-> 0, code |-> NoKey, tmr |-> FALSE, runs |-> FALSE, zeroes |-> FALSE]
NothingHeld == [code |-> NoKey, tl |-> 0]

BluetoothInit ==
  /\ bt = [live |-> FALSE, up |-> FALSE, stream |-> FALSE, periph |-> FALSE, remote |-> "none",
           avrc |-> FALSE, tl |-> 0]
  /\ key = ZeroKey
  /\ phone = [asked |-> <<>>, held |-> NothingHeld, keys |-> 0, raced |-> FALSE]

-----------------------------------------------------------------------------
(* bluetooth_service_start, _destroy, _create_stream and _create_periph.   *)

\* A start that fails leaves the service behind.
BtStart ==
  /\ "bt" \in board /\ ~bt.live /\ Calls("idle", "bt")
  /\ \E ok \in BOOLEAN : bt' = [bt EXCEPT !.live = TRUE, !.up = ok]
  /\ UNCHANGED <<obj, periph, task, key, phone>>

BtDestroy ==
  /\ bt.live /\ ~bt.stream /\ ~bt.periph /\ Calls("idle", "bt")
  /\ bt' = [bt EXCEPT !.live = FALSE, !.up = FALSE, !.remote = "none"]
  /\ UNCHANGED <<obj, periph, task, key, phone>>

BtCreate ==
  /\ bt.live /\ Calls("idle", "bt")
  /\ \/ ~bt.stream /\ bt' = [bt EXCEPT !.stream = TRUE]
     \/ ~bt.periph /\ periph["bt"].state = "INIT" /\ bt' = [bt EXCEPT !.periph = TRUE]
  /\ UNCHANGED <<obj, periph, task, key, phone>>

\* The element is deinitialised.
BtStreamDestroy ==
  /\ bt.stream /\ Calls("idle", "bt")
  /\ bt' = [bt EXCEPT !.stream = FALSE]
  /\ UNCHANGED <<obj, periph, task, key, phone>>

BtStarts ==
  /\ Held("init", "bt") /\ InitReturns("bt", FALSE, "RUNNING")
  /\ UNCHANGED bluetooths

BtPeriphDestroy ==
  /\ Held("destroy", "bt") /\ DestroyReturns("bt")
  /\ bt' = [bt EXCEPT !.periph = FALSE, !.avrc = FALSE]
  /\ UNCHANGED <<key, phone>>

-----------------------------------------------------------------------------
(* bt_a2d_cb: the first phone is the one, until it leaves.                 *)

A2dConnected(p) ==
  /\ bt.up /\ bt.remote = "none"
  /\ bt' = [bt EXCEPT !.remote = p]
  /\ UNCHANGED <<service, key, phone>>

A2dDisconnected(p) ==
  /\ bt.up /\ bt.remote = p
  /\ bt' = [bt EXCEPT !.remote = "none"]
  /\ UNCHANGED <<service, key, phone>>

-----------------------------------------------------------------------------
(* bt_avrc_ct_cb: the connection, in two steps each way.                   *)

Controlled == bt.up /\ bt.periph /\ Up("bt")

AvrcConnects ==
  /\ "bt" \in board /\ Controlled /\ ~bt.avrc /\ ~key.tmr
  /\ bt' = [bt EXCEPT !.avrc = TRUE]
  /\ phone' = [phone EXCEPT !.asked = <<>>, !.held = NothingHeld]
  /\ UNCHANGED <<service, key>>

\* bt_key_act_sm_init.
KeySmInit ==
  /\ bt.avrc /\ ~key.tmr
  /\ key' = [ZeroKey EXCEPT !.tmr = TRUE]
  /\ UNCHANGED <<service, bt, phone>>

AvrcDisconnects ==
  /\ bt.avrc /\ key.tmr /\ ~key.zeroes
  /\ bt' = [bt EXCEPT !.avrc = FALSE]
  /\ UNCHANGED <<service, key, phone>>

\* bt_key_act_sm_deinit.
KeySmDeinit ==
  /\ ~bt.avrc /\ key.tmr /\ ~key.zeroes
  /\ key' = ZeroKey
  /\ phone' = [phone EXCEPT !.asked = <<>>, !.held = NothingHeld]
  /\ UNCHANGED <<service, bt>>

-----------------------------------------------------------------------------
(* bt_key_act_state_machine.                                               *)

Asks(tl, code, way) == Append(phone.asked, [tl |-> tl, code |-> code, way |-> way])

\* Fault: a key is pressed although another is under way.
BtKeyAlways(code) ==
  /\ bt.avrc /\ phone.keys < MaxKeys /\ caller.pc = "idle"
  /\ bt' = [bt EXCEPT !.tl = (@ + 2) % Labels]
  /\ key' = [key EXCEPT !.state = "press", !.tl = bt.tl, !.code = code, !.runs = key.tmr]
  /\ phone' = [asked |-> Asks(bt.tl, code, "pressed"),
               held |-> IF phone.held = NothingHeld THEN [code |-> code, tl |-> bt.tl] ELSE phone.held,
               keys |-> phone.keys + 1, raced |-> phone.raced \/ key.zeroes \/ ~key.tmr]
  /\ UNCHANGED service

\* periph_bluetooth_passthrough_cmd: a key while another is under way is dropped,
\* its label is used up.
BtKey(code) ==
  /\ bt.avrc /\ phone.keys < MaxKeys /\ caller.pc = "idle"
  /\ bt' = [bt EXCEPT !.tl = (@ + 2) % Labels]
  /\ IF key.state = "idle"
     THEN /\ key' = [key EXCEPT !.state = "press", !.tl = bt.tl, !.code = code, !.runs = key.tmr]
          /\ phone' = [asked |-> Asks(bt.tl, code, "pressed"), held |-> [code |-> code, tl |-> bt.tl],
                       keys |-> phone.keys + 1, raced |-> phone.raced \/ key.zeroes \/ ~key.tmr]
     ELSE key' = key /\ phone' = [phone EXCEPT !.keys = @ + 1]
  /\ UNCHANGED service

Answers(a) == a.tl = key.tl /\ a.code = key.code

\* The answer to a press is a reason to release.
KeyPressed ==
  /\ bt.avrc /\ phone.asked # <<>> /\ ~key.zeroes
  /\ LET a == Head(phone.asked)
         tl == (key.tl + 1) % Labels
     IN  /\ key.state = "press" /\ Answers(a) /\ a.way = "pressed"
         /\ key' = [key EXCEPT !.state = "release", !.tl = tl]
         /\ phone' = [phone EXCEPT !.asked = Tail(Asks(tl, a.code, "released")),
                                   !.held = IF @ = [code |-> a.code, tl |-> a.tl] THEN NothingHeld ELSE @]
  /\ UNCHANGED <<service, bt>>

\* The answer to a release: idle first, the code is forgotten after.
KeyReleased ==
  /\ bt.avrc /\ phone.asked # <<>> /\ ~key.zeroes
  /\ LET a == Head(phone.asked)
     IN  key.state = "release" /\ Answers(a) /\ a.way = "released"
  /\ key' = [key EXCEPT !.state = "idle", !.runs = FALSE, !.zeroes = TRUE]
  /\ phone' = [phone EXCEPT !.asked = Tail(@)]
  /\ UNCHANGED <<service, bt>>

KeyForgotten ==
  /\ key.zeroes
  /\ key' = [key EXCEPT !.code = NoKey, !.zeroes = FALSE]
  /\ UNCHANGED <<service, bt, phone>>

\* An answer nobody waits for, or one the phone does not give.
KeyUnanswered ==
  /\ phone.asked # <<>> /\ ~key.zeroes
  /\ phone' = [phone EXCEPT !.asked = Tail(@)]
  /\ UNCHANGED <<service, bt, key>>

\* key_act_time_out, after a period of portMAX_DELAY.
KeyTimesOut ==
  /\ key.tmr /\ key.runs /\ key.state # "idle"
  /\ key' = [key EXCEPT !.state = "idle", !.tl = 0, !.code = NoKey, !.runs = FALSE]
  /\ phone' = [phone EXCEPT !.held = NothingHeld, !.asked = <<>>]
  /\ UNCHANGED <<service, bt>>

BtServe == BtStarts \/ BtPeriphDestroy
KeyMachine == KeySmInit \/ KeySmDeinit \/ KeyPressed \/ KeyReleased \/ KeyForgotten
BluetoothNext ==
  \/ BtStart \/ BtDestroy \/ BtCreate \/ BtStreamDestroy \/ BtServe
  \/ \E p \in Phones : A2dConnected(p) \/ A2dDisconnected(p)
  \/ AvrcConnects \/ AvrcDisconnects \/ \E code \in Keys : BtKey(code)
  \/ KeyMachine \/ KeyUnanswered \/ KeyTimesOut
=============================================================================
