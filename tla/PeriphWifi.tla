----------------------------- MODULE PeriphWifi -----------------------------
(***************************************************************************)
(* The station of lib/esp_peripherals/periph_wifi.c: its event group, the  *)
(* timer that connects again, and the setting up over smart configuration. *)
(* The stack (link, events, the access point) is external: it answers a    *)
(* connect or a disconnect later, by an event to its own task.             *)
(***************************************************************************)
EXTENDS EspPeriph

CONSTANTS
  MaxDrops      \* bound: times the access point goes away

VARIABLES
  wifi,         \* periph_wifi: wifi_state, the event group, disable_auto_reconnect
  stack,        \* the station: link, events under way, the access point
  setup         \* periph_wifi_config_start and smart configuration

wifis == <<wifi, stack, setup>>

WifiInit ==
  /\ wifi = [state |-> "DISCONNECTED", bits |-> {}, manual |-> FALSE, timer |-> "idle", early |-> FALSE]
  /\ stack = [link |-> "off", events |-> <<>>, ap |-> TRUE, drops |-> 0]
  /\ setup = [pc |-> "idle", sc |-> "off", early |-> FALSE]

Posted(event) == Append(stack.events, event)

\* esp_wifi_connect and esp_wifi_disconnect.
Connecting == IF stack.link = "idle" THEN [stack EXCEPT !.link = "trying"] ELSE stack
Disconnecting ==
  IF stack.link \in {"trying", "up"}
  THEN [stack EXCEPT !.link = "idle", !.events = Posted("DISCONNECTED")]
  ELSE stack

-----------------------------------------------------------------------------
(* The stack.                                                              *)

LinkUp ==
  /\ stack.link = "trying" /\ stack.ap
  /\ stack' = [stack EXCEPT !.link = "up", !.events = Posted("GOT_IP")]
  /\ UNCHANGED <<service, wifi, setup>>

LinkFails ==
  /\ stack.link = "trying" /\ ~stack.ap
  /\ stack' = [stack EXCEPT !.link = "idle", !.events = Posted("DISCONNECTED")]
  /\ UNCHANGED <<service, wifi, setup>>

ApGoes ==
  /\ "wifi" \in board /\ stack.ap /\ stack.drops < MaxDrops
  /\ stack' = IF stack.link = "up"
              THEN [stack EXCEPT !.ap = FALSE, !.drops = @ + 1, !.link = "idle", !.events = Posted("DISCONNECTED")]
              ELSE [stack EXCEPT !.ap = FALSE, !.drops = @ + 1]
  /\ UNCHANGED <<service, wifi, setup>>

ApComes ==
  /\ ~stack.ap
  /\ stack' = [stack EXCEPT !.ap = TRUE]
  /\ UNCHANGED <<service, wifi, setup>>

-----------------------------------------------------------------------------
(* _wifi_event_callback, in the task of the event loop.                    *)

Handles(event) ==
  /\ stack.events # <<>> /\ Head(stack.events) = event
  /\ stack.link # "gone"

Handled == [stack EXCEPT !.events = Tail(@)]
InInit == At("init") /\ task.at = "wifi"

StaStart ==
  /\ Handles("START")
  /\ wifi' = [wifi EXCEPT !.state = "CONNECTING"]
  /\ stack' = [Connecting EXCEPT !.events = Tail(@)]
  /\ UNCHANGED <<service, setup>>

\* Fault: an address is only believed while the state is that of a first attempt.
StaGotIpUnless ==
  /\ Handles("GOT_IP")
  /\ wifi' = IF wifi.state = "DISCONNECTED" THEN wifi
             ELSE [wifi EXCEPT !.state = "CONNECTED", !.bits = (@ \ {"DISCONNECTED"}) \cup {"CONNECTED"}]
  /\ stack' = Handled
  /\ UNCHANGED <<service, setup>>

StaGotIp ==
  /\ Handles("GOT_IP")
  /\ wifi' = [wifi EXCEPT !.state = "CONNECTED", !.bits = (@ \ {"DISCONNECTED"}) \cup {"CONNECTED"},
                          !.early = @ \/ InInit]
  /\ stack' = Handled
  /\ UNCHANGED <<service, setup>>

\* Fault: only a connection that was there is made again.
StaDisconnectedOnce ==
  /\ Handles("DISCONNECTED")
  /\ wifi' = [wifi EXCEPT !.state = "DISCONNECTED",
                          !.bits = (@ \ {"CONNECTED"}) \cup {"DISCONNECTED"}]
  /\ stack' = Handled
  /\ IF wifi.manual \/ wifi.state # "CONNECTED" THEN UNCHANGED service
     ELSE periph' = [periph EXCEPT !["wifi"].timer = TRUE] /\ UNCHANGED <<obj, task, caller>>
  /\ UNCHANGED setup

StaDisconnected ==
  /\ Handles("DISCONNECTED")
  /\ wifi' = [wifi EXCEPT !.state = "DISCONNECTED",
                          !.bits = (@ \ {"CONNECTED"}) \cup {"DISCONNECTED"}]
  /\ stack' = Handled
  /\ IF wifi.manual THEN UNCHANGED service
     ELSE periph' = [periph EXCEPT !["wifi"].timer = TRUE] /\ UNCHANGED <<obj, task, caller>>
  /\ UNCHANGED setup

\* wifi_reconnect_timer: the timer is deleted, then the station connects.
ReconnectFires ==
  /\ Fires("wifi") /\ wifi.timer = "idle"
  /\ wifi' = [wifi EXCEPT !.timer = "connects"]
  /\ periph' = [periph EXCEPT !["wifi"].timer = FALSE]
  /\ UNCHANGED <<obj, task, caller, stack, setup>>

ReconnectConnects ==
  /\ wifi.timer = "connects"
  /\ wifi' = [wifi EXCEPT !.timer = "idle"]
  /\ stack' = Connecting
  /\ UNCHANGED <<service, setup>>

-----------------------------------------------------------------------------
(* The task of the service.                                                *)

\* _wifi_init: the station is started before the state and the bits are set.
WifiStarts ==
  /\ Held("init", "wifi") /\ stack.link = "off"
  /\ stack' = [stack EXCEPT !.link = "idle", !.events = Posted("START")]
  /\ UNCHANGED <<service, wifi, setup>>

WifiStarted ==
  /\ Held("init", "wifi") /\ stack.link # "off"
  /\ wifi' = [wifi EXCEPT !.state = "DISCONNECTED",
                          !.bits = (@ \ {"CONNECTED"}) \cup {"DISCONNECTED"}]
  /\ InitReturns("wifi", FALSE, "RUNNING")
  /\ UNCHANGED <<stack, setup>>

\* Fault: the link is not taken down before it is waited for.
WifiDestroyLinked ==
  /\ Held("destroy", "wifi") /\ stack.link # "leaving"
  /\ wifi' = [wifi EXCEPT !.manual = TRUE]
  /\ stack' = [stack EXCEPT !.link = "leaving"]
  /\ periph' = [periph EXCEPT !["wifi"].timer = FALSE]
  /\ UNCHANGED <<obj, task, caller, setup>>

\* _wifi_destroy, up to its wait and from there.
WifiDestroy ==
  /\ Held("destroy", "wifi") /\ stack.link # "leaving"
  /\ wifi' = [wifi EXCEPT !.manual = TRUE]
  /\ stack' = [Disconnecting EXCEPT !.link = "leaving"]
  /\ periph' = [periph EXCEPT !["wifi"].timer = FALSE]
  /\ UNCHANGED <<obj, task, caller, setup>>

WifiDestroyed ==
  /\ Held("destroy", "wifi") /\ stack.link = "leaving"
  /\ "DISCONNECTED" \in wifi.bits
  /\ stack' = [stack EXCEPT !.link = "gone"]
  /\ DestroyReturns("wifi")
  /\ UNCHANGED <<wifi, setup>>

-----------------------------------------------------------------------------
(* Smart configuration.                                                    *)

\* periph_wifi_config_start, once.
ConfigStart ==
  /\ "wifi" \in board /\ setup.pc = "idle" /\ obj.run /\ periph["wifi"].state = "RUNNING"
  /\ Calls("config", "wifi")
  /\ wifi' = [wifi EXCEPT !.manual = TRUE]
  /\ stack' = Disconnecting
  /\ setup' = [setup EXCEPT !.pc = "disconnects"]
  /\ UNCHANGED <<obj, periph, task>>

ConfigDisconnected ==
  /\ setup.pc = "disconnects" /\ "DISCONNECTED" \in wifi.bits
  /\ wifi' = [wifi EXCEPT !.state = "SETTING"]
  /\ setup' = [setup EXCEPT !.pc = "clears", !.sc = "listens"]
  /\ UNCHANGED <<service, stack>>

ConfigClears ==
  /\ setup.pc = "clears"
  /\ wifi' = [wifi EXCEPT !.bits = @ \ {"DONE", "ERROR"}]
  /\ setup' = [setup EXCEPT !.pc = "waits", !.early = @ \/ setup.sc = "over"]
  /\ UNCHANGED <<service, stack>>

\* periph_wifi_config_wait_done: for both bits, or until the time is over.
ConfigDone ==
  /\ setup.pc = "waits" /\ {"DONE", "ERROR"} \subseteq wifi.bits
  /\ setup' = [setup EXCEPT !.pc = "done"]
  /\ caller' = [caller EXCEPT !.pc = "idle"]
  /\ UNCHANGED <<obj, periph, task, wifi, stack>>

ConfigTimesOut ==
  /\ setup.pc = "waits" /\ ~({"DONE", "ERROR"} \subseteq wifi.bits)
  /\ setup' = [setup EXCEPT !.pc = "done", !.sc = IF wifi.bits \cap {"DONE", "ERROR"} = {} THEN "over" ELSE @]
  /\ caller' = [caller EXCEPT !.pc = "idle"]
  /\ UNCHANGED <<obj, periph, task, wifi, stack>>

\* _wifi_smartconfig_event_callback: the phone has told the network, to which the
\* station connects even when it could not be set.
ScLink ==
  /\ setup.sc = "listens" /\ stack.link # "gone"
  /\ setup' = [setup EXCEPT !.sc = "linked"]
  /\ \E set, connects \in BOOLEAN :
       /\ wifi' = IF set /\ connects THEN wifi
                  ELSE [wifi EXCEPT !.state = "CONFIG_ERROR", !.bits = @ \cup {"ERROR"}]
       /\ stack' = IF connects /\ Disconnecting.link = "idle"
                   THEN [Disconnecting EXCEPT !.link = "trying"] ELSE Disconnecting
  /\ UNCHANGED service

ScLinkOver ==
  /\ setup.sc = "linked" /\ stack.link # "gone"
  /\ setup' = [setup EXCEPT !.sc = "over"]
  /\ \E r \in {"DONE", "ERROR"} :
       wifi' = [wifi EXCEPT !.state = "CONFIG_" \o r, !.bits = @ \cup {r}]
  /\ UNCHANGED <<service, stack>>

Stack == LinkUp \/ LinkFails \/ ApComes
WifiEvents == StaStart \/ StaGotIp \/ StaDisconnected
WifiServe == WifiStarts \/ WifiStarted \/ WifiDestroy \/ WifiDestroyed
Setup == ConfigStart \/ ConfigDisconnected \/ ConfigClears \/ ConfigDone \/ ConfigTimesOut \/ ScLink \/ ScLinkOver
WifiNext ==
  Stack \/ ApGoes \/ WifiEvents \/ ReconnectFires \/ ReconnectConnects \/ WifiServe \/ Setup
=============================================================================
