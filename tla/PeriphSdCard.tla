---------------------------- MODULE PeriphSdCard ----------------------------
(***************************************************************************)
(* The card of lib/esp_peripherals/periph_sdcard.c and lib/sdcard: an      *)
(* interrupt of the detect pin and a timer of one second send the same     *)
(* command, the task mounts or unmounts. The card comes and goes between   *)
(* its looking and its doing.                                              *)
(***************************************************************************)
EXTENDS EspPeriph

CONSTANTS
  MaxFlips,     \* bound: times the card is put in or taken out
  MaxFails      \* bound: mounts that fail with the card there

VARIABLE sdcard \* the detect pin, the file system, is_mounted, the interrupt and
                \* what the task is about to do

SdCardInit ==
  \E present \in IF "sdcard" \in board THEN BOOLEAN ELSE {FALSE} :
    sdcard = [present |-> present, fs |-> FALSE, mounted |-> FALSE, isr |-> FALSE,
              will |-> "look", flips |-> 0, fails |-> 0]

InTask == Held("init", "sdcard") \/ Held("run", "sdcard")

\* _sdcard_init sets up the interrupt before it looks, _sdcard_run only looks.
SdCardLooks ==
  /\ InTask /\ sdcard.will = "look"
  /\ sdcard' = [sdcard EXCEPT
       !.isr = @ \/ At("init"),
       !.will = IF sdcard.present /\ ~sdcard.mounted THEN "mount"
                ELSE IF ~sdcard.present /\ sdcard.mounted /\ At("run") THEN "unmount"
                ELSE "return"]
  /\ UNCHANGED service

\* periph_sdcard_mount: a file system that is already mounted leaves all as it is.
SdCardMounts ==
  /\ sdcard.will = "mount"
  /\ \E ok \in BOOLEAN :
       /\ ok => sdcard.present
       /\ ~ok /\ sdcard.present => sdcard.fails < MaxFails
       /\ sdcard' = IF sdcard.fs THEN [sdcard EXCEPT !.will = "return"]
                    ELSE [sdcard EXCEPT !.fs = ok, !.mounted = ok, !.will = "return",
                                        !.fails = @ + (IF ~ok /\ sdcard.present THEN 1 ELSE 0)]
  /\ UNCHANGED service

\* periph_sdcard_unmount: is_mounted is cleared whatever comes of it.
SdCardUnmounts ==
  /\ sdcard.will = "unmount"
  /\ sdcard' = [sdcard EXCEPT !.fs = FALSE, !.mounted = FALSE, !.will = "return"]
  /\ UNCHANGED service

\* Fault: the detect pin alone wakes the task, no timer.
SdCardReturnsUntimed ==
  /\ sdcard.will = "return"
  /\ IF At("init") THEN InitReturns("sdcard", FALSE, "RUNNING") ELSE RunReturns
  /\ sdcard' = [sdcard EXCEPT !.will = "look"]

SdCardReturns ==
  /\ sdcard.will = "return"
  /\ IF At("init") THEN InitReturns("sdcard", TRUE, "RUNNING") ELSE RunReturns
  /\ sdcard' = [sdcard EXCEPT !.will = "look"]

SdCardDestroy ==
  /\ Held("destroy", "sdcard")
  /\ sdcard' = [sdcard EXCEPT !.fs = FALSE, !.isr = FALSE]
  /\ DestroyReturns("sdcard")

\* The pin changes; sdcard_gpio_intr_handler.
SdCardEdge ==
  /\ "sdcard" \in board /\ sdcard.flips < MaxFlips
  /\ sdcard' = [sdcard EXCEPT !.present = ~@, !.flips = @ + 1]
  /\ IF sdcard.isr /\ sdcard.mounted = sdcard.present
     THEN SendCmd("sdcard")
     ELSE UNCHANGED service

\* sdcard_timer_handler.
SdCardTimer == Fires("sdcard") /\ SendCmd("sdcard") /\ UNCHANGED sdcard

SdCardServe == SdCardLooks \/ SdCardMounts \/ SdCardUnmounts \/ SdCardReturns \/ SdCardDestroy
SdCardNext == SdCardServe \/ SdCardEdge \/ SdCardTimer
=============================================================================
