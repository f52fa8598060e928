------------------------------- MODULE CodecBus -------------------------------
(***************************************************************************)
(* How the codec drivers talk to their chips: functions that read and      *)
(* write registers over I2C one transfer at a time and gather the errors   *)
(* in res. A function of a driver is a sequence of steps, carried out one  *)
(* by one on the chip's registers; one transfer may fail.                  *)
(***************************************************************************)
EXTENDS Naturals, Sequences, SequencesExt, Bitwise

VARIABLES
  regs,  \* the chip's registers
  run    \* the function under way: todo, the steps left; reg and fine (res is 0), its locals; outer, those of
         \* its callers; seen, the registers peeked at; wrote, what it wrote; failed, a transfer has failed

\* The steps: read a register into reg; write (reg & keep) | set, which stays in reg; write a value; go on
\* with some steps only if res is 0; call a function, which has a res and a reg of its own; forget res, as
\* "res =" does; read a register into another place, whatever comes of it; and go on with some steps if two
\* such places differ.
Rd(r) == [op |-> "read", r |-> r]
Wr(r, keep, set) == [op |-> "write", r |-> r, keep |-> keep, set |-> set]
Put(r, v) == [op |-> "write", r |-> r, keep |-> 0, set |-> v]
IfFine(steps) == [op |-> "fine", steps |-> steps]
Call(steps) == [op |-> "call", steps |-> steps]
Forget == [op |-> "forget"]
Peek(r, place) == [op |-> "peek", r |-> r, place |-> place]
IfDiffer(steps) == [op |-> "differ", steps |-> steps]
When(cond, steps) == IF cond THEN steps ELSE <<>>
Calls(functions) == [i \in DOMAIN functions |-> Call(functions[i])]

Modes == {"adc", "dac", "both"}
ForAdc(mode) == mode \in {"adc", "both"}
ForDac(mode) == mode \in {"dac", "both"}

Quiet == [todo |-> <<>>, reg |-> 0, fine |-> TRUE, outer |-> <<>>, seen |-> [prev |-> 0, now |-> 0], wrote |-> {},
          failed |-> FALSE]
Begin(steps) == run' = [Quiet EXCEPT !.todo = steps, !.failed = run.failed]
Running == run.todo # <<>>

-----------------------------------------------------------------------------
Now == run.todo[1]
Rest == Tail(run.todo)

\* A transfer: as it should be, or without effect on reg and the chip. An error that is returned stays in res.
Transfers ==
  /\ Running /\ Now.op \in {"read", "write", "peek"}
  /\ LET v == IF Now.op = "write" THEN (run.reg & Now.keep) | Now.set ELSE regs[Now.r]
         kept == IF Now.op = "write" THEN [run EXCEPT !.reg = v] ELSE run
     IN \/ /\ regs' = [regs EXCEPT ![Now.r] = v]
           /\ run' = [kept EXCEPT !.todo = Rest, !.reg = IF Now.op = "peek" THEN @ ELSE v,
                                  !.seen = IF Now.op = "peek" THEN [@ EXCEPT ![Now.place] = v] ELSE @,
                                  !.wrote = IF Now.op = "write" THEN @ \union {<<Now.r, v>>} ELSE @]
        \/ /\ ~run.failed
           /\ run' = [kept EXCEPT !.todo = Rest, !.failed = TRUE, !.fine = @ /\ Now.op = "peek"]
           /\ UNCHANGED regs

Forgets == Running /\ Now.op = "forget" /\ run' = [run EXCEPT !.todo = Rest, !.fine = TRUE] /\ UNCHANGED regs

Branches ==
  /\ Running /\ Now.op \in {"fine", "differ"}
  /\ LET go == IF Now.op = "fine" THEN run.fine ELSE run.seen.prev # run.seen.now
     IN run' = [run EXCEPT !.todo = When(go, Now.steps) \o Rest]
  /\ UNCHANGED regs

\* A function begins with locals of its own, and its error joins that of its caller.
Leave == [op |-> "leave"]
CallsIn ==
  /\ Running /\ Now.op = "call"
  /\ run' = [run EXCEPT !.todo = Append(Now.steps, Leave) \o Rest, !.reg = 0, !.fine = TRUE,
                        !.outer = Append(@, [reg |-> run.reg, fine |-> run.fine])]
  /\ UNCHANGED regs
Leaves ==
  /\ Running /\ Now.op = "leave"
  /\ LET caller == Last(run.outer)
     IN run' = [run EXCEPT !.todo = Rest, !.reg = caller.reg, !.fine = @ /\ caller.fine, !.outer = Front(@)]
  /\ UNCHANGED regs

BusNext == Transfers \/ Forgets \/ Branches \/ CallsIn \/ Leaves
=============================================================================
