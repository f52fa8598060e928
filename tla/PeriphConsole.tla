---------------------------- MODULE PeriphConsole ----------------------------
(***************************************************************************)
(* lib/esp_peripherals/periph_console.c: a task of its own that collects   *)
(* characters into a line and runs the command in it, until the service    *)
(* destroys the peripheral and waits for the task to have stopped.         *)
(***************************************************************************)
EXTENDS EspPeriph

CONSTANTS
  LineSize,     \* CONSOLE_BUFFER_SIZE
  MaxArguments, \* CONSOLE_MAX_ARGUMENTS
  MaxLines      \* bound: lines typed

VARIABLE console \* run, STOPPED_BIT, the task; the words of the line so far and
                 \* its length; what a line did; late: the task came up after
                 \* the destroying had begun

ConsoleInit ==
  console = [run |-> FALSE, stopped |-> FALSE, pc |-> "none", bytes |-> 0, words |-> 0,
             ran |-> "nothing", lines |-> 0, closing |-> FALSE, late |-> FALSE]

\* _console_init: out of memory, or without a task, it fails.
ConsoleStarts ==
  /\ Held("init", "console")
  /\ \/ console' = [console EXCEPT !.pc = "boots"] /\ InitReturns("console", FALSE, "RUNNING")
     \/ console' = console /\ InitReturns("console", FALSE, "ERROR")

\* _console_destroy, up to its wait and from there.
ConsoleDestroy ==
  /\ Held("destroy", "console") /\ ~console.closing
  /\ console' = [console EXCEPT !.run = FALSE, !.closing = TRUE]
  /\ UNCHANGED service

ConsoleDestroyed ==
  /\ Held("destroy", "console") /\ console.closing /\ console.stopped
  /\ console' = [console EXCEPT !.closing = FALSE]
  /\ DestroyReturns("console")

\* _console_task: it sets run itself.
ConsoleBoots ==
  /\ console.pc = "boots"
  /\ console' = [console EXCEPT !.pc = "loops", !.run = TRUE, !.stopped = FALSE, !.late = console.closing]
  /\ UNCHANGED service

\* console_get_line: a character, of a new word or of the last one.
ConsoleTakes ==
  /\ console.pc = "loops" /\ console.run /\ console.lines < MaxLines
  /\ \E new \in BOOLEAN :
       /\ console.bytes = 0 => new
       /\ console' = IF console.bytes = LineSize
                     THEN [console EXCEPT !.bytes = 0, !.words = 0]
                     ELSE [console EXCEPT !.bytes = @ + 1, !.words = IF new THEN @ + 1 ELSE @]
  /\ UNCHANGED service

\* The line is taken apart: with too many arguments there is no command in it.
ConsoleRuns ==
  /\ console.pc = "loops" /\ console.run /\ console.lines < MaxLines
  /\ console' = [console EXCEPT
       !.ran = IF console.bytes = 0 THEN "nothing"
               ELSE IF console.words - 1 > MaxArguments THEN "no command" ELSE "command",
       !.bytes = 0, !.words = 0, !.lines = @ + 1]
  /\ UNCHANGED service

ConsoleEnds ==
  /\ console.pc = "loops" /\ ~console.run
  /\ console' = [console EXCEPT !.pc = "none", !.stopped = TRUE]
  /\ UNCHANGED service

ConsoleServe == ConsoleStarts \/ ConsoleDestroy \/ ConsoleDestroyed
ConsoleTask == ConsoleBoots \/ ConsoleEnds
ConsoleNext == ConsoleServe \/ ConsoleTask \/ ConsoleTakes \/ ConsoleRuns
=============================================================================
