------------------------------ MODULE RingBuf ------------------------------
(***************************************************************************)
(* The byte ring that joins two audio elements (lib/audio_pipeline/        *)
(* ringbuf.c): one task reads, one task writes, and any task may abort the *)
(* waits of both or reset the ring.                                        *)
(*                                                                         *)
(* What the processes share is kept as the code keeps it: p_r and p_w      *)
(* (offsets from p_o, which may both rest at p_o + size), fill_cnt, the    *)
(* done flag, one mutex, and for each side a binary semaphore and a        *)
(* one-place abort queue joined in a two-place queue set.  A call of       *)
(* rb_read or rb_write is cut where another task can observe it: at the    *)
(* mutex, at the done flag that is tested after the mutex is released, at  *)
(* the queue set, and between selecting a member of the set and taking it. *)
(*                                                                         *)
(* A byte is its position in the stream the writer has produced since the  *)
(* ring was last reset, so a lost, repeated or reordered byte is visible.  *)
(*                                                                         *)
(* A definition commented as a fault is a slip this code could contain; it *)
(* takes no part in the specification, and README.md names the property    *)
(* that fails when it replaces the definition after it.                    *)
(***************************************************************************)
EXTENDS Integers, Sequences

CONSTANTS
  Size,        \* capacity in bytes (rb->size)
  Align,       \* granule of a partial read: the 4 of fill_cnt % 4
  Word,        \* number of values of fill_cnt, a uint32_t
  ReadLens,    \* the lengths a reader asks for
  WriteLens,   \* the lengths a writer offers
  Timed,       \* TRUE: ticks_to_wait is finite, FALSE: portMAX_DELAY
  MaxBytes,    \* bound: bytes written between two resets
  MaxAborts,   \* bound: calls of rb_abort
  MaxResets    \* bound: calls of rb_reset

ASSUME SizeAssumption    == Size \in Nat /\ Size >= 2
ASSUME AlignAssumption   == Align \in Nat \ {0}
ASSUME WordAssumption    == Word \in Nat /\ Word > Size
ASSUME LengthsAssumption == ReadLens \subseteq Nat \ {0} /\ WriteLens \subseteq Nat \ {0}
ASSUME BoundAssumption   ==
  Timed \in BOOLEAN /\ MaxBytes \in Nat /\ MaxAborts \in Nat /\ MaxResets \in Nat

VARIABLES
  rp, wp,          \* p_r - p_o and p_w - p_o
  fill,            \* fill_cnt
  done,            \* is_done_write
  mem,             \* the bytes at p_o .. p_o + size - 1
  mutex,           \* task_block: who holds it
  readQ, writeQ,   \* can_read with abort_read in read_set; can_write with abort_write
  rd, wr,          \* the reader's and the writer's call in progress
  ctl,             \* the call in progress of a third task: rb_abort or rb_reset
  sent, recv,      \* history: bytes accepted; bytes delivered, in order
  aborts, resets   \* calls made so far, for the bounds

ring  == <<rp, wp, fill, mem>>
hist  == <<sent, recv>>
count == <<aborts, resets>>
vars  == <<rp, wp, fill, done, mem, mutex, readQ, writeQ, rd, wr, ctl,
           sent, recv, aborts, resets>>

-----------------------------------------------------------------------------
(* One side's semaphore and abort queue, with the set that joins them.     *)
(* A member is entered in the set when it goes from empty to full; giving  *)
(* a full semaphore, or sending to a full abort queue, fails and changes   *)
(* nothing.                                                                *)

Members == {"sem", "abort"}

Wait(s, a, q) == [sem |-> s, abort |-> a, set |-> q]

EmptyQ == Wait(FALSE, FALSE, <<>>)

Give(q) == IF q.sem THEN q ELSE Wait(TRUE, q.abort, Append(q.set, "sem"))

SendAbort(q) == IF q.abort THEN q ELSE Wait(q.sem, TRUE, Append(q.set, "abort"))

Select(q) == Wait(q.sem, q.abort, Tail(q.set))

Take(q, m) == IF m = "sem" THEN Wait(FALSE, q.abort, q.set)
                           ELSE Wait(q.sem, FALSE, q.set)

-----------------------------------------------------------------------------
(* Arithmetic of the ring.                                                 *)

Slots == 0 .. Size - 1

\* The slot an offset falls on: p_o + size is followed by p_o.
Slot(x) == IF x >= Size THEN x - Size ELSE x

\* How far slot k lies after offset x, going round.
Offset(k, x) == IF k >= x THEN k - x ELSE k + Size - x

\* Fault: the part after the wrap is not counted.
AdvanceToStart(p, n) == IF p + n > Size THEN 0 ELSE p + n

\* p + n, unless that is beyond p_o + size.
Advance(p, n) == IF p + n > Size THEN p + n - Size ELSE p + n

\* fill_cnt - n in an unsigned word.
Minus(f, n) == IF f >= n THEN f - n ELSE f - n + Word

\* The whole granules among f bytes.
Granules(f) == f - (f % Align)

\* Fault: the length asked for is taken whenever there is anything at all.
ReadSizeAny == IF fill = 0 THEN 0 ELSE rd.need

\* What rb_read takes in one pass: all it still needs, or the whole granules
\* there are, or after the end of the stream whatever is left.
ReadSize ==
  IF fill >= rd.need THEN rd.need
  ELSE IF Granules(fill) = 0 /\ done THEN fill
  ELSE Granules(fill)

\* Fault: the room is not looked at.
WriteSizeAny == IF fill = Size THEN 0 ELSE wr.need

\* What rb_write stores in one pass: what it still has, or as much as fits.
WriteSize == IF wr.need < Size - fill THEN wr.need ELSE Size - fill

-----------------------------------------------------------------------------
Results == {"none", "bytes", "DONE", "ABORT", "TIMEOUT"}

Idle(res) == [pc |-> "idle", need |-> 0, size |-> 0, total |-> 0, ret |-> res]

Init ==
  /\ rp = 0 /\ wp = 0 /\ fill = 0
  /\ done = FALSE
  /\ mem = [k \in Slots |-> 0]
  /\ mutex = "none"
  /\ readQ = EmptyQ /\ writeQ = EmptyQ
  /\ rd = Idle("none") /\ wr = Idle("none")
  /\ ctl = "idle"
  /\ sent = 0 /\ recv = <<>>
  /\ aborts = 0 /\ resets = 0

Resetting == ctl \in {"fields", "drain", "give"}

-----------------------------------------------------------------------------
(* rb_read.                                                                *)

RBegin ==
  /\ rd.pc = "idle" /\ ~Resetting
  /\ \E n \in ReadLens :
       rd' = [pc |-> "lock", need |-> n, size |-> 0, total |-> 0, ret |-> "none"]
  /\ UNCHANGED <<ring, done, mutex, readQ, writeQ, wr, ctl, hist, count>>

\* Take the mutex and size the pass.  With nothing to take the mutex is
\* released again, and the done flag is looked at only afterwards.
RLock ==
  /\ rd.pc = "lock" /\ mutex = "none"
  /\ IF ReadSize = 0
     THEN /\ rd' = [rd EXCEPT !.pc = "check"]
          /\ UNCHANGED mutex
     ELSE /\ rd' = [rd EXCEPT !.pc = "copy", !.size = ReadSize]
          /\ mutex' = "R"
  /\ UNCHANGED <<ring, done, readQ, writeQ, wr, ctl, hist, count>>

\* Copy out, advance p_r, lower fill_cnt, release the mutex.
RCopy ==
  /\ rd.pc = "copy"
  /\ recv' = recv \o [i \in 1 .. rd.size |-> mem[Slot(rp + i - 1)]]
  /\ rp' = Advance(rp, rd.size)
  /\ fill' = Minus(fill, rd.size)
  /\ rd' = [rd EXCEPT !.pc    = IF rd.size = rd.need THEN "exit" ELSE "lock",
                      !.need  = rd.need - rd.size,
                      !.total = rd.total + rd.size,
                      !.size  = 0]
  /\ mutex' = "none"
  /\ UNCHANGED <<wp, mem, done, readQ, writeQ, wr, ctl, sent, count>>

RCheck ==
  /\ rd.pc = "check"
  /\ rd' = IF done THEN [rd EXCEPT !.pc = "exit", !.ret = "DONE"]
                   ELSE [rd EXCEPT !.pc = "claim"]
  /\ UNCHANGED <<ring, done, mutex, readQ, writeQ, wr, ctl, hist, count>>

\* rb_claim_read: xQueueSelectFromSet.
RSelect ==
  /\ rd.pc = "claim" /\ readQ.set # <<>>
  /\ rd' = [rd EXCEPT !.pc = Head(readQ.set)]
  /\ readQ' = Select(readQ)
  /\ UNCHANGED <<ring, done, mutex, writeQ, wr, ctl, hist, count>>

\* rb_claim_read: take the semaphore and look again, or receive the abort.
RTake ==
  /\ rd.pc \in Members
  /\ readQ' = Take(readQ, rd.pc)
  /\ rd' = IF rd.pc = "sem" THEN [rd EXCEPT !.pc = "lock"]
                            ELSE [rd EXCEPT !.pc = "exit", !.ret = "ABORT"]
  /\ UNCHANGED <<ring, done, mutex, writeQ, wr, ctl, hist, count>>

\* ticks_to_wait runs out, waiting for the mutex or for the set.
RTimeout ==
  /\ Timed
  /\ \/ rd.pc = "lock" /\ mutex # "none"
     \/ rd.pc = "claim" /\ readQ.set = <<>>
  /\ rd' = [rd EXCEPT !.pc = "exit", !.ret = "TIMEOUT"]
  /\ UNCHANGED <<ring, done, mutex, readQ, writeQ, wr, ctl, hist, count>>

\* Fault: the reader leaves without waking the writer.
RExitNoWake ==
  /\ rd.pc = "exit"
  /\ rd' = Idle(IF rd.total > 0 THEN "bytes" ELSE rd.ret)
  /\ UNCHANGED <<ring, done, mutex, readQ, writeQ, wr, ctl, hist, count>>

\* read_err: a call that moved bytes wakes the writer and reports them,
\* whatever made it stop.
RExit ==
  /\ rd.pc = "exit"
  /\ writeQ' = IF rd.total > 0 THEN Give(writeQ) ELSE writeQ
  /\ rd' = Idle(IF rd.total > 0 THEN "bytes" ELSE rd.ret)
  /\ UNCHANGED <<ring, done, mutex, readQ, wr, ctl, hist, count>>

-----------------------------------------------------------------------------
(* rb_write, and rb_done_write, which the writing task calls.              *)

WBegin ==
  /\ wr.pc = "idle" /\ ~Resetting
  /\ \E n \in WriteLens :
       /\ sent + n <= MaxBytes
       /\ wr' = [pc |-> "lock", need |-> n, size |-> 0, total |-> 0, ret |-> "none"]
  /\ UNCHANGED <<ring, done, mutex, readQ, writeQ, rd, ctl, hist, count>>

\* Take the mutex and size the pass.  With no room the mutex is released,
\* after waking the reader if this call has stored anything.
WLock ==
  /\ wr.pc = "lock" /\ mutex = "none"
  /\ IF WriteSize = 0
     THEN /\ wr' = [wr EXCEPT !.pc = "check"]
          /\ readQ' = IF wr.total > 0 THEN Give(readQ) ELSE readQ
          /\ UNCHANGED mutex
     ELSE /\ wr' = [wr EXCEPT !.pc = "copy", !.size = WriteSize]
          /\ mutex' = "W"
          /\ UNCHANGED readQ
  /\ UNCHANGED <<ring, done, writeQ, rd, ctl, hist, count>>

\* Copy in, advance p_w, raise fill_cnt, wake the reader, release the mutex.
WCopy ==
  /\ wr.pc = "copy"
  /\ mem' = [k \in Slots |-> IF Offset(k, wp) < wr.size THEN sent + Offset(k, wp)
                                                        ELSE mem[k]]
  /\ wp' = Advance(wp, wr.size)
  /\ fill' = fill + wr.size
  /\ sent' = sent + wr.size
  /\ wr' = [wr EXCEPT !.pc    = IF wr.size = wr.need THEN "exit" ELSE "lock",
                      !.need  = wr.need - wr.size,
                      !.total = wr.total + wr.size,
                      !.size  = 0]
  /\ readQ' = Give(readQ)
  /\ mutex' = "none"
  /\ UNCHANGED <<rp, done, writeQ, rd, ctl, recv, count>>

WCheck ==
  /\ wr.pc = "check"
  /\ wr' = IF done THEN [wr EXCEPT !.pc = "exit", !.ret = "DONE"]
                   ELSE [wr EXCEPT !.pc = "claim"]
  /\ UNCHANGED <<ring, done, mutex, readQ, writeQ, rd, ctl, hist, count>>

WSelect ==
  /\ wr.pc = "claim" /\ writeQ.set # <<>>
  /\ wr' = [wr EXCEPT !.pc = Head(writeQ.set)]
  /\ writeQ' = Select(writeQ)
  /\ UNCHANGED <<ring, done, mutex, readQ, rd, ctl, hist, count>>

WTake ==
  /\ wr.pc \in Members
  /\ writeQ' = Take(writeQ, wr.pc)
  /\ wr' = IF wr.pc = "sem" THEN [wr EXCEPT !.pc = "lock"]
                            ELSE [wr EXCEPT !.pc = "exit", !.ret = "ABORT"]
  /\ UNCHANGED <<ring, done, mutex, readQ, rd, ctl, hist, count>>

WTimeout ==
  /\ Timed
  /\ \/ wr.pc = "lock" /\ mutex # "none"
     \/ wr.pc = "claim" /\ writeQ.set = <<>>
  /\ wr' = [wr EXCEPT !.pc = "exit", !.ret = "TIMEOUT"]
  /\ UNCHANGED <<ring, done, mutex, readQ, writeQ, rd, ctl, hist, count>>

WExit ==
  /\ wr.pc = "exit"
  /\ readQ' = IF wr.total > 0 THEN Give(readQ) ELSE readQ
  /\ wr' = Idle(IF wr.total > 0 THEN "bytes" ELSE wr.ret)
  /\ UNCHANGED <<ring, done, mutex, writeQ, rd, ctl, hist, count>>

\* rb_done_write: raise the flag ...
WDone ==
  /\ wr.pc = "idle" /\ ~Resetting
  /\ done' = TRUE
  /\ wr' = [wr EXCEPT !.pc = "done"]
  /\ UNCHANGED <<ring, mutex, readQ, writeQ, rd, ctl, hist, count>>

\* Fault: the end of the stream wakes nobody.
WDoneNoWake ==
  /\ wr.pc = "done"
  /\ wr' = [wr EXCEPT !.pc = "idle"]
  /\ UNCHANGED <<ring, done, mutex, readQ, writeQ, rd, ctl, hist, count>>

\* ... then wake the reader.
WDoneGive ==
  /\ wr.pc = "done"
  /\ readQ' = Give(readQ)
  /\ wr' = [wr EXCEPT !.pc = "idle"]
  /\ UNCHANGED <<ring, done, mutex, writeQ, rd, ctl, hist, count>>

-----------------------------------------------------------------------------
(* rb_abort: the readers' side first, then the writers'.                   *)

AbortRead ==
  /\ ctl = "idle" /\ aborts < MaxAborts
  /\ readQ' = SendAbort(readQ)
  /\ ctl' = "abort"
  /\ aborts' = aborts + 1
  /\ UNCHANGED <<ring, done, mutex, writeQ, rd, wr, hist, resets>>

AbortWrite ==
  /\ ctl = "abort"
  /\ writeQ' = SendAbort(writeQ)
  /\ ctl' = "idle"
  /\ UNCHANGED <<ring, done, mutex, readQ, rd, wr, hist, count>>

(* rb_reset.  It takes no mutex.  Called between uses of the ring, as      *)
(* audio_pipeline_wait_for_stop calls it, nobody is in a call.             *)

ResetCall ==
  /\ ctl = "idle" /\ resets < MaxResets
  /\ ctl' = "fields"
  /\ resets' = resets + 1
  /\ UNCHANGED <<ring, done, mutex, readQ, writeQ, rd, wr, hist, aborts>>

ResetBegin == rd.pc = "idle" /\ wr.pc = "idle" /\ ResetCall

ResetFields ==
  /\ ctl = "fields"
  /\ rp' = 0 /\ wp' = 0 /\ fill' = 0 /\ done' = FALSE
  /\ sent' = 0 /\ recv' = <<>>
  /\ ctl' = "drain"
  /\ UNCHANGED <<mem, mutex, readQ, writeQ, rd, wr, count>>

\* Both loops over the queue sets: whatever is entered there is taken.
Drained(q) == Wait(q.sem /\ \A i \in 1 .. Len(q.set) : q.set[i] # "sem",
                   q.abort /\ \A i \in 1 .. Len(q.set) : q.set[i] # "abort",
                   <<>>)

ResetDrain ==
  /\ ctl = "drain"
  /\ readQ' = Drained(readQ)
  /\ writeQ' = Drained(writeQ)
  /\ ctl' = "give"
  /\ UNCHANGED <<ring, done, mutex, rd, wr, hist, count>>

ResetGive ==
  /\ ctl = "give"
  /\ writeQ' = Give(writeQ)
  /\ ctl' = "idle"
  /\ UNCHANGED <<ring, done, mutex, readQ, rd, wr, hist, count>>

-----------------------------------------------------------------------------
ReaderGoes == RBegin \/ RLock \/ RCopy \/ RCheck \/ RSelect \/ RTake \/ RExit
Reader == ReaderGoes \/ RTimeout

WriterGoes == WLock \/ WCopy \/ WCheck \/ WSelect \/ WTake \/ WExit \/ WDoneGive
Writer == WBegin \/ WriterGoes \/ WTimeout \/ WDone

Third == AbortRead \/ AbortWrite \/ ResetBegin \/ ResetFields \/ ResetDrain \/ ResetGive

Next == Reader \/ Writer \/ Third

Spec == Init /\ [][Next]_vars

\* Both element tasks keep running and the scheduler serves both: the reader
\* calls rb_read again and again, a call in progress goes on, and the writer
\* ends its stream some day (it need not write anything).  No wait need run out.
Fairness ==
  /\ WF_vars(ReaderGoes)
  /\ WF_vars(WriterGoes)
  /\ WF_vars(WDone)
  /\ WF_vars(AbortWrite) /\ WF_vars(ResetFields) /\ WF_vars(ResetDrain) /\ WF_vars(ResetGive)

FairSpec == Spec /\ Fairness

-----------------------------------------------------------------------------
(* Properties.                                                             *)

Call == [pc : {"idle", "lock", "copy", "check", "claim", "exit", "done"} \cup Members,
         need : Nat, size : Nat, total : Nat, ret : Results]

WaitQ == [sem : BOOLEAN, abort : BOOLEAN, set : Seq(Members)]

TypeOK ==
  /\ rp \in 0 .. Size /\ wp \in 0 .. Size
  /\ fill \in 0 .. Word - 1
  /\ done \in BOOLEAN
  /\ mem \in [Slots -> Nat]
  /\ mutex \in {"none", "R", "W"}
  /\ readQ \in WaitQ /\ writeQ \in WaitQ
  /\ rd \in Call /\ wr \in Call
  /\ ctl \in {"idle", "abort", "fields", "drain", "give"}
  /\ sent \in Nat /\ recv \in Seq(Nat)
  /\ aborts \in Nat /\ resets \in Nat

\* ringbuf.c:42 calls fill_cnt the "Number of filled slots": it never exceeds
\* the size of the ring and is what was accepted less what was delivered.
FilledSlots == fill <= Size /\ fill = sent - Len(recv)

\* The filled slots, from the read pointer on and round the end of the
\* memory, hold exactly the bytes not yet delivered, oldest first.
Contents == \A i \in 0 .. fill - 1 : mem[Slot(rp + i)] = Len(recv) + i

\* The ring implements the stream: every step accepts, delivers in order
\* within the capacity, restarts, or changes nothing the elements can see.
Stream == INSTANCE ByteStream WITH Capacity <- Size
Implements == Stream!Spec

ReaderAsleep == rd.pc = "claim" /\ readQ.set = <<>>
WriterAsleep == wr.pc = "claim" /\ writeQ.set = <<>>

\* A reader that waits has nothing it could take and the stream has not
\* ended, or the wake-up is on its way: no wake-up is lost between the look
\* at fill_cnt under the mutex and the wait outside it.
ReaderWaitsForCause ==
  ReaderAsleep => \/ ReadSize = 0 /\ ~done
                  \/ wr.pc = "done"

\* A writer that waits faces a full ring, or a reader that has made room and
\* will wake it when its call returns.
WriterWaitsForCause ==
  WriterAsleep => fill = Size \/ rd.total > 0

\* The two sides never wait for each other with no wake-up under way.
NoJointSleep == ~(ReaderAsleep /\ WriterAsleep)

\* A queue set lists each full member once, except the one a task has
\* selected and is about to take, and nothing else.
SetLists(q, pc) ==
  /\ \A m \in Members :
       (\E i \in 1 .. Len(q.set) : q.set[i] = m)
         <=> pc # m /\ (IF m = "sem" THEN q.sem ELSE q.abort)
  /\ \A i, j \in 1 .. Len(q.set) : i # j => q.set[i] # q.set[j]
  /\ pc = "sem" => q.sem
  /\ pc = "abort" => q.abort
SetsMatch == SetLists(readQ, rd.pc) /\ SetLists(writeQ, wr.pc)

\* No wake-up of rb_read or rb_write is lost, whatever the order of their
\* steps, of time-outs and aborts.
NoWakeUpLost == TypeOK /\ ReaderWaitsForCause /\ WriterWaitsForCause /\ NoJointSleep /\ SetsMatch

\* Every rb_read returns, and every rb_write returns, while both tasks run
\* and the stream ends some day; no reader is left waiting at the end.
ReadReturns  == rd.pc = "lock" ~> rd.pc = "idle"
WriteReturns == wr.pc = "lock" ~> wr.pc = "idle"

\* Bytes in the ring do not stay there: a reader that keeps reading gets the
\* tail of the stream too, whatever was left over from a partial granule.
Drains == fill > 0 ~> fill = 0

\* The stream through rb_read and rb_write goes on to its end.
GoesOn == ReadReturns /\ WriteReturns /\ Drains
=============================================================================
