---------------------------- MODULE SegmentDisplay ----------------------------
(***************************************************************************)
(* The segment display (src/tm1620.c): a TM1620 written bit by bit over    *)
(* three pins, without a lock, by every task that has something to show;   *)
(* the task that shows the time also sets the pins up again every now and  *)
(* then. A byte goes out in two halves here, and between any two steps of  *)
(* a task another may run: TM1620_Write_8bit calls vTaskDelay for each bit.*)
(***************************************************************************)
EXTENDS Naturals, Sequences, SequencesExt

CONSTANTS Tubes,     \* the tubes printed to, MAX_TUBE_NUM in the code
          MaxPrints  \* bound: how many prints there are

ASSUME DisplayBounds == Tubes \in Nat \ {0} /\ MaxPrints \in Nat

Printers == {"view", "keys"}
Text == [view |-> "time", keys |-> "mode"]   \* what each has to show
Other(p) == IF p = "view" THEN "keys" ELSE "view"

VARIABLES
  tm1620,  \* listens, half and commanded: what came in since the strobe fell; auto, addr, lit, tubes
  printer, \* by task: out, the pin changes to be made; text; alone, nobody else has touched the pins
  shown,   \* the text that the last print should have left, if it was alone with the pins
  prints

display == <<tm1620, printer, shown, prints>>

Resting == [out |-> <<>>, text |-> "none", alone |-> FALSE]
DisplayInit ==
  /\ tm1620 = [listens |-> FALSE, half |-> "none", commanded |-> FALSE,
               auto |-> FALSE, addr |-> 0, lit |-> FALSE, tubes |-> [i \in 0..(Tubes - 1) |-> "noise"]]
  /\ printer = [p \in Printers |-> Resting]
  /\ shown = "none"
  /\ prints = 0

-----------------------------------------------------------------------------
(* The TM1620. The first byte after the strobe fell is a command, bytes after an address are data, each *)
(* for the next address if that was chosen; the tubes are at the even addresses. Noise may be any byte. *)
Commanded(byte) ==
  {[tm1620 EXCEPT !.half = "none", !.commanded = TRUE,
                  !.addr = IF byte = "addr" THEN 0 ELSE IF byte = "noise" THEN 1 ELSE @,
                  !.auto = IF byte = "auto" THEN TRUE ELSE @ /\ (byte = "noise" => kept),
                  !.lit = IF byte = "bright" THEN TRUE ELSE @ /\ (byte = "noise" => kept)] : kept \in BOOLEAN}
Written(byte) ==
  [tm1620 EXCEPT !.half = "none",
                 !.addr = IF tm1620.auto /\ @ < 2 * Tubes THEN @ + 1 ELSE @,
                 !.tubes = [i \in DOMAIN @ |-> IF tm1620.addr # 2 * i THEN @[i]
                                               ELSE IF byte \in {"time", "mode"} THEN byte ELSE "noise"]]
\* Half a byte: two that do not belong together make noise, and so does a bit while another sends its own,
\* if it is seen at all.
Clocked(byte, first, clash) ==
  LET whole == IF tm1620.half = byte /\ ~first /\ ~clash THEN byte ELSE "noise"
  IN (IF ~tm1620.listens THEN {tm1620}
      ELSE IF tm1620.half = "none" THEN {[tm1620 EXCEPT !.half = IF first /\ ~clash THEN byte ELSE "noise"]}
      ELSE IF ~tm1620.commanded THEN Commanded(whole) ELSE {Written(whole)})
     \union (IF clash THEN {tm1620} ELSE {})
Strobe(low) ==
  IF low /\ tm1620.listens THEN tm1620
  ELSE [tm1620 EXCEPT !.listens = low, !.half = "none", !.commanded = FALSE]

-----------------------------------------------------------------------------
(* TM1620_Print: mode, automatic addresses, the address, a byte for every tube and one for the address  *)
(* between, and the brightness.                                                                         *)
Byte(b) == <<<<b, "first">>, <<b, "second">>>>
Command(b) == <<<<"strobe", "low">>>> \o Byte(b)
High == <<<<"strobe", "high">>>>
\* Fault: the addresses between the tubes forgotten.
DataUnpadded(text) == FlattenSeq([i \in 1..Tubes |-> Byte(text)])
Data(text) == FlattenSeq([i \in 1..Tubes |-> Byte(text) \o Byte("pad")])
Frames(text) ==
  Command("setup") \o High \o Command("auto") \o High \o Command("addr") \o Data(text) \o High
    \o Command("bright") \o High

BeginFrames(p, out, text) ==
  /\ printer[p].out = <<>>
  /\ printer' = [printer EXCEPT ![p] = [out |-> out, text |-> text, alone |-> printer[Other(p)].out = <<>>],
                                ![Other(p)].alone = FALSE]
  /\ shown' = "none"
BeginPrint(p) ==
  /\ prints < MaxPrints
  /\ prints' = prints + 1
  /\ BeginFrames(p, Frames(Text[p]), Text[p])
  /\ UNCHANGED tm1620

\* TM1620_Init sets the three pins high.
InitPins ==
  /\ prints < MaxPrints
  /\ BeginFrames("view", High, "none")
  /\ UNCHANGED <<tm1620, prints>>

\* The next change of the pins.
Sends(p) ==
  LET next == Head(printer[p].out)
      rest == Tail(printer[p].out)
      others == printer[Other(p)].out
      clash == others # <<>> /\ Head(others)[2] = "second"
  IN /\ printer[p].out # <<>>
     /\ printer' = [printer EXCEPT ![p] = IF rest = <<>> THEN Resting ELSE [@ EXCEPT !.out = rest]]
     /\ IF next[1] = "strobe" THEN tm1620' = Strobe(next[2] = "low")
        ELSE tm1620' \in Clocked(next[1], next[2] = "first", clash)
     /\ shown' = IF rest = <<>> /\ printer[p].alone THEN printer[p].text ELSE shown
     /\ UNCHANGED prints

DisplayNext == InitPins \/ \E p \in Printers : BeginPrint(p) \/ Sends(p)

-----------------------------------------------------------------------------
\* A print that has the pins to itself shows its text on every tube, whatever prints that got into each
\* other's way have left in the chip.
PrintShows ==
  shown # "none" => tm1620.lit /\ ~tm1620.listens /\ \A i \in DOMAIN tm1620.tubes : tm1620.tubes[i] = shown
=============================================================================
