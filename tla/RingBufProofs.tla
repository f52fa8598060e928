--------------------------- MODULE RingBufProofs ---------------------------
(***************************************************************************)
(* The ring delivers, for every capacity, granule, set of lengths and      *)
(* number of calls, exactly the stream that was written, and implements    *)
(* ByteStream; and neither side is left asleep by a wake-up that was lost. *)
(***************************************************************************)
EXTENDS RingBuf, TLAPS

USE SizeAssumption, AlignAssumption, WordAssumption

-----------------------------------------------------------------------------
(* The two pointers are fill_cnt bytes apart, going round.                 *)
Pointers == rp + fill = wp \/ rp + fill = wp + Size

(* The mutex is held exactly by the side that is copying, and what it has  *)
(* sized the copy to is still there: only the holder changes fill_cnt.     *)
Held ==
  /\ mutex = "R" <=> rd.pc = "copy"
  /\ mutex = "W" <=> wr.pc = "copy"
  /\ rd.pc = "copy" => rd.size \in 1 .. fill /\ rd.size <= rd.need
  /\ wr.pc = "copy" => wr.size \in 1 .. Size - fill /\ wr.size <= wr.need

(* A reset finds nobody in a call, and keeps everybody out until it ends.  *)
Quiet == Resetting => rd.pc = "idle" /\ wr.pc = "idle"

IInv == TypeOK /\ FilledSlots /\ Pointers /\ Held /\ Quiet /\ Contents

-----------------------------------------------------------------------------
(* What type correctness says of the numbers.                              *)
LEMMA Numbers ==
  TypeOK => /\ rp \in 0 .. Size /\ wp \in 0 .. Size /\ fill \in Nat
            /\ rd.need \in Nat /\ rd.size \in Nat /\ rd.total \in Nat
            /\ wr.need \in Nat /\ wr.size \in Nat /\ wr.total \in Nat
            /\ sent \in Nat /\ recv \in Seq(Nat) /\ Len(recv) \in Nat
  BY DEF TypeOK, Call

(* The whole granules among f bytes are some of them.                      *)
LEMMA GranuleLemma ==
  ASSUME NEW f \in Nat
  PROVE  Granules(f) \in 0 .. f
<1>1. f % Align \in 0 .. Align - 1
  OBVIOUS
<1>2. f % Align <= f
  OBVIOUS
<1>3. QED  BY <1>1, <1>2 DEF Granules

(* A pass of rb_read takes no more than is filled and no more than is      *)
(* still needed.                                                           *)
LEMMA ReadSizeLemma ==
  ASSUME TypeOK
  PROVE  ReadSize \in 0 .. fill /\ ReadSize <= rd.need
<1>1. fill \in Nat /\ rd.need \in Nat /\ Granules(fill) \in 0 .. fill
  BY GranuleLemma, Numbers
<1>2. QED  BY <1>1 DEF ReadSize

(* A pass of rb_write stores no more than there is room for and no more    *)
(* than is still offered.                                                  *)
LEMMA WriteSizeLemma ==
  ASSUME TypeOK, fill <= Size
  PROVE  WriteSize \in 0 .. Size - fill /\ WriteSize <= wr.need
  BY Numbers DEF WriteSize

(* Moving the read pointer over n filled bytes moves every later byte n    *)
(* places nearer to it, on the same slot.                                  *)
LEMMA AdvanceSlotLemma ==
  ASSUME NEW p \in 0 .. Size, NEW n \in 1 .. Size, NEW i \in Nat, n + i < Size
  PROVE  /\ Advance(p, n) \in 0 .. Size
         /\ Slot(Advance(p, n) + i) = Slot(p + (n + i))
         /\ Slot(p + i) \in Slots
  BY DEF Advance, Slot, Slots

(* The same for the write pointer and the slots it leaves behind: a byte   *)
(* already in the ring is not overwritten, and the j-th byte of the pass   *)
(* lands j places after those already there.                               *)
LEMMA StoreSlotLemma ==
  ASSUME NEW r \in 0 .. Size, NEW w \in 0 .. Size, NEW f \in 0 .. Size,
         NEW n \in 1 .. Size - f, r + f = w \/ r + f = w + Size,
         NEW i \in 0 .. f + n - 1
  PROVE  /\ Slot(r + i) \in Slots
         /\ i < f => Offset(Slot(r + i), w) >= n
         /\ i >= f => Offset(Slot(r + i), w) = i - f
  BY DEF Slot, Slots, Offset

(* Bytes copied out are appended to those already delivered.               *)
LEMMA AppendedLemma ==
  ASSUME NEW s \in Seq(Nat), NEW t \in Seq(Nat)
  PROVE  s \o t \in Seq(Nat) /\ Len(s \o t) = Len(s) + Len(t)
  OBVIOUS

(* What giving, sending, selecting and taking do to one side's semaphore,  *)
(* abort queue and set keeps them well typed.                              *)
LEMMA WaitQLemma ==
  ASSUME NEW q \in WaitQ
  PROVE  /\ Give(q) \in WaitQ /\ SendAbort(q) \in WaitQ /\ Drained(q) \in WaitQ
         /\ \A m \in Members : Take(q, m) \in WaitQ
         /\ q.set # <<>> => Select(q) \in WaitQ /\ Head(q.set) \in Members
  BY DEF WaitQ, Give, SendAbort, Drained, Take, Select, Wait, Members

-----------------------------------------------------------------------------
(* What FilledSlots, Pointers and Contents speak of.                       *)
LEMMA RingUntouched ==
  ASSUME FilledSlots, Pointers, Contents, UNCHANGED <<ring, hist>>
  PROVE  (FilledSlots /\ Pointers /\ Contents)'
  BY DEF FilledSlots, Pointers, Contents, ring, hist

(* An empty ring meets all three.                                          *)
LEMMA EmptyRing ==
  ASSUME rp = 0, wp = 0, fill = 0, sent = 0, Len(recv) = 0
  PROVE  FilledSlots /\ Pointers /\ Contents
  BY DEF FilledSlots, Pointers, Contents

\* The ring begins in its invariant; below, one lemma per action keeps it.
LEMMA InitIInv == Init => IInv
<1> SUFFICES ASSUME Init PROVE IInv
  OBVIOUS
<1>1. rp = 0 /\ wp = 0 /\ fill = 0 /\ sent = 0 /\ recv = <<>> /\ Len(recv) = 0
  BY DEF Init
<1>2. /\ rp \in 0 .. Size /\ wp \in 0 .. Size /\ fill \in 0 .. Word - 1
      /\ sent \in Nat /\ recv \in Seq(Nat)
  BY <1>1
<1>3. /\ done \in BOOLEAN /\ mutex \in {"none", "R", "W"}
      /\ ctl \in {"idle", "abort", "fields", "drain", "give"}
      /\ aborts \in Nat /\ resets \in Nat
  BY DEF Init
<1>4. mem \in [Slots -> Nat]
  BY DEF Init, Slots
<1>5. readQ \in WaitQ /\ writeQ \in WaitQ
  BY DEF Init, EmptyQ, Wait, WaitQ, Members
<1>6. rd \in Call /\ wr \in Call
  BY DEF Init, Idle, Call, Members, Results
<1>7. FilledSlots /\ Pointers /\ Contents
  BY <1>1, EmptyRing
<1>8. Held /\ Quiet
  BY DEF Init, Held, Quiet, Idle, Resetting
<1>9. QED  BY <1>2, <1>3, <1>4, <1>5, <1>6, <1>7, <1>8 DEF IInv, TypeOK

(* The inductive step, for the actions that leave the ring alone: it is    *)
(* enough to look at the calls, the queues and the mutex.                  *)
LEMMA CallStep ==
  ASSUME IInv, UNCHANGED <<ring, hist>>,
         done' \in BOOLEAN, mutex' \in {"none", "R", "W"},
         readQ' \in WaitQ, writeQ' \in WaitQ, rd' \in Call, wr' \in Call,
         ctl' \in {"idle", "abort", "fields", "drain", "give"},
         aborts' \in Nat, resets' \in Nat, Held', Quiet'
  PROVE  IInv'
<1>1. TypeOK'
  BY DEF IInv, TypeOK, ring, hist
<1>2. FilledSlots' /\ Pointers' /\ Contents'
  BY RingUntouched DEF IInv
<1>3. QED  BY <1>1, <1>2 DEF IInv

(* What the invariant says of the calls, apart from the ring.              *)
LEMMA Calls ==
  ASSUME IInv
  PROVE  /\ rd \in Call /\ wr \in Call /\ readQ \in WaitQ /\ writeQ \in WaitQ
         /\ done \in BOOLEAN /\ mutex \in {"none", "R", "W"}
         /\ ctl \in {"idle", "abort", "fields", "drain", "give"}
         /\ aborts \in Nat /\ resets \in Nat /\ Held /\ Quiet
  BY DEF IInv, TypeOK

(* A reader outside its critical section moves, and nothing else it could  *)
(* disturb does.                                                           *)
LEMMA ReaderStep ==
  ASSUME IInv, UNCHANGED <<ring, hist, done, mutex, wr, ctl, count>>,
         rd' \in Call, readQ' \in WaitQ, writeQ' \in WaitQ,
         rd.pc # "copy", rd'.pc # "copy", Resetting => rd'.pc = "idle"
  PROVE  IInv'
<1>1. Held' /\ Quiet'
  BY Calls DEF Held, Quiet, Resetting, ring
<1>2. QED  BY <1>1, Calls, CallStep DEF count

(* The same for the writer, which may raise the done flag.                 *)
LEMMA WriterStep ==
  ASSUME IInv, UNCHANGED <<ring, hist, mutex, rd, ctl, count>>, done' \in BOOLEAN,
         wr' \in Call, readQ' \in WaitQ, writeQ' \in WaitQ,
         wr.pc # "copy", wr'.pc # "copy", Resetting => wr'.pc = "idle"
  PROVE  IInv'
<1>1. Held' /\ Quiet'
  BY Calls DEF Held, Quiet, Resetting, ring
<1>2. QED  BY <1>1, Calls, CallStep DEF count

-----------------------------------------------------------------------------
(* The inductive step, one lemma to an action of rb_read.                  *)
LEMMA RBeginStep == ASSUME IInv, RBegin PROVE IInv'
<1>1. /\ rd' \in Call /\ rd'.pc = "lock" /\ rd.pc = "idle" /\ ~Resetting
      /\ UNCHANGED <<ring, hist, done, mutex, wr, ctl, count, readQ, writeQ>>
  BY LengthsAssumption DEF RBegin, Call, Results
<1>2. QED  BY <1>1, Calls, ReaderStep

\* The size a reader chooses under the mutex is that of its copy.
LEMMA RLockCopies ==
  ASSUME RLock, rd \in Call, NEW n \in Nat, n = ReadSize, n # 0
  PROVE  rd' \in Call /\ rd'.pc = "copy" /\ rd'.size = n /\ rd'.need = rd.need
  BY DEF RLock, Call

LEMMA RLockStep == ASSUME IInv, RLock PROVE IInv'
<1>1. rd \in Call /\ rd.pc = "lock" /\ mutex = "none" /\ wr.pc # "copy" /\ ~Resetting
  BY Calls DEF RLock, Held, Quiet
<1>2. UNCHANGED <<ring, hist, done, wr, ctl, count, readQ, writeQ>>
  BY DEF RLock
<1>3. ReadSize \in 0 .. fill /\ ReadSize <= rd.need /\ fill \in Nat
  BY ReadSizeLemma, Numbers DEF IInv
<1>4. CASE ReadSize = 0
  <2>1. rd' \in Call /\ rd'.pc = "check" /\ mutex' = mutex
    BY <1>1, <1>4 DEF RLock, Call
  <2>2. QED  BY <1>1, <1>2, <2>1, Calls, ReaderStep
<1>5. CASE ReadSize # 0
  <2>1. rd' \in Call /\ rd'.pc = "copy" /\ rd'.size = ReadSize /\ rd'.need = rd.need
    <3>1. ReadSize \in Nat
      BY <1>3
    <3>2. QED  BY <1>1, <1>5, <3>1, RLockCopies
  <2>2. mutex' = "R" /\ ReadSize \in 1 .. fill
    BY <1>3, <1>5 DEF RLock
  <2>3. Held' /\ Quiet'
    BY <1>1, <1>2, <1>3, <2>1, <2>2 DEF Held, Quiet, Resetting, ring
  <2>4. QED  BY <1>2, <2>1, <2>2, <2>3, Calls, CallStep DEF count
<1>6. QED  BY <1>4, <1>5

LEMMA RCheckStep == ASSUME IInv, RCheck \/ RTimeout PROVE IInv'
<1>1. rd \in Call
  BY Calls
<1>2. rd' \in Call /\ rd'.pc \in {"exit", "claim"}
  BY <1>1 DEF RCheck, RTimeout, Call, Results
<1>3. rd.pc # "idle" /\ rd.pc # "copy"
  BY DEF RCheck, RTimeout
<1>4. UNCHANGED <<ring, hist, done, mutex, readQ, writeQ, wr, ctl, count>>
  BY DEF RCheck, RTimeout
<1>5. ~Resetting
  BY <1>3, Calls DEF Quiet
<1>6. QED  BY <1>2, <1>3, <1>4, <1>5, Calls, ReaderStep

LEMMA RSelectStep == ASSUME IInv, RSelect PROVE IInv'
<1>1. rd \in Call /\ readQ' \in WaitQ /\ Head(readQ.set) \in Members
  BY Calls, WaitQLemma DEF RSelect
<1>2. rd' \in Call /\ rd'.pc = Head(readQ.set)
  BY <1>1 DEF RSelect, Call
<1>3. rd.pc = "claim" /\ rd'.pc # "copy"
  BY <1>1, <1>2 DEF RSelect, Members
<1>4. UNCHANGED <<ring, hist, done, mutex, writeQ, wr, ctl, count>>
  BY DEF RSelect
<1>5. ~Resetting
  BY <1>3, Calls DEF Quiet
<1>6. QED  BY <1>1, <1>2, <1>3, <1>4, <1>5, Calls, ReaderStep

LEMMA RTakeStep == ASSUME IInv, RTake PROVE IInv'
<1>1. rd \in Call /\ readQ' \in WaitQ
  BY Calls, WaitQLemma DEF RTake
<1>2. rd' \in Call /\ rd'.pc \in {"lock", "exit"}
  BY <1>1 DEF RTake, Call, Results
<1>3. rd.pc # "idle" /\ rd.pc # "copy"
  BY DEF RTake, Members
<1>4. UNCHANGED <<ring, hist, done, mutex, writeQ, wr, ctl, count>>
  BY DEF RTake
<1>5. ~Resetting
  BY <1>3, Calls DEF Quiet
<1>6. QED  BY <1>1, <1>2, <1>3, <1>4, <1>5, Calls, ReaderStep

LEMMA RExitStep == ASSUME IInv, RExit PROVE IInv'
<1>1. rd \in Call /\ writeQ' \in WaitQ
  BY Calls, WaitQLemma DEF RExit
<1>2. rd' \in Call /\ rd'.pc = "idle"
  BY <1>1 DEF RExit, Call, Idle, Results
<1>3. rd.pc = "exit"
  BY DEF RExit
<1>4. UNCHANGED <<ring, hist, done, mutex, readQ, wr, ctl, count>>
  BY DEF RExit
<1>5. QED  BY <1>1, <1>2, <1>3, <1>4, Calls, ReaderStep

LEMMA RCopyStep == ASSUME IInv, RCopy PROVE IInv'
<1>1. TypeOK /\ FilledSlots /\ Pointers /\ Held /\ Quiet /\ Contents
  BY DEF IInv
<1>2. rd.pc = "copy" /\ wr.pc # "copy" /\ ~Resetting /\ rd \in Call
  BY <1>1, Calls DEF RCopy, Held, Quiet
<1>3. PICK n \in Nat : n = rd.size /\ n \in 1 .. fill /\ n <= rd.need
  BY <1>1, <1>2, Numbers DEF Held
<1> DEFINE got == [i \in 1 .. n |-> mem[Slot(rp + i - 1)]]
<1>4. /\ rp \in 0 .. Size /\ wp \in 0 .. Size /\ fill \in 0 .. Size /\ sent \in Nat
      /\ Len(recv) \in Nat /\ fill = sent - Len(recv)
  BY <1>1, Numbers DEF FilledSlots
<1>5. rp' = Advance(rp, n) /\ fill' = Minus(fill, n)
  BY <1>3 DEF RCopy
<1>6. recv' = recv \o got
  BY <1>3 DEF RCopy
<1>7. /\ mutex' = "none"
      /\ UNCHANGED <<wp, mem, done, readQ, writeQ, wr, ctl, sent, aborts, resets>>
  BY DEF RCopy, count
<1>8. /\ rp' \in 0 .. Size /\ fill' = fill - n /\ fill' \in 0 .. Size
      /\ rp' + fill' = wp \/ rp' + fill' = wp + Size
  <2>1. rp + fill = wp \/ rp + fill = wp + Size
    BY <1>1 DEF Pointers
  <2>2. /\ Advance(rp, n) \in 0 .. Size
        /\ Minus(fill, n) = fill - n /\ fill - n \in 0 .. Size
        /\ Advance(rp, n) + (fill - n) = wp \/ Advance(rp, n) + (fill - n) = wp + Size
    <3>1. n \in 1 .. fill
      BY <1>3
    <3>2. rp \in 0 .. Size /\ wp \in 0 .. Size /\ fill \in 0 .. Size
      BY <1>4
    <3>3. QED  BY <2>1, <3>1, <3>2 DEF Advance, Minus
  <2>3. QED  BY <1>5, <2>2
<1>9. recv' \in Seq(Nat) /\ Len(recv') = Len(recv) + n
  <2>1. ASSUME NEW i \in 1 .. n PROVE mem[Slot(rp + i - 1)] \in Nat
    <3>1. i - 1 \in 0 .. fill - 1 /\ rp + i - 1 = rp + (i - 1) /\ Len(recv) + (i - 1) \in Nat
      BY <1>3, <1>4
    <3>2. QED  BY <1>1, <3>1 DEF Contents
  <2>2. got \in Seq(Nat) /\ Len(got) = n
    BY <2>1
  <2>3. recv \in Seq(Nat)
    BY <1>1, Numbers
  <2> HIDE DEF got
  <2>4. QED  BY <1>6, <2>2, <2>3, AppendedLemma
<1>10. rd' \in Call /\ rd'.pc \in {"exit", "lock"}
  <2>1. rd.need - n \in Nat /\ rd.total + n \in Nat
    <3>1. rd.need \in Nat /\ rd.total \in Nat
      BY <1>1, Numbers
    <3>2. QED  BY <1>3, <3>1
  <2>2. QED  BY <1>2, <1>3, <2>1 DEF RCopy, Call
<1>11. TypeOK'
  <2>1. rp' \in 0 .. Size /\ fill' \in 0 .. Word - 1
    BY <1>8
  <2>2. QED  BY <1>1, <1>7, <1>9, <1>10, <2>1 DEF TypeOK
<1>12. FilledSlots'
  <2>1. fill' <= Size /\ fill' = sent' - Len(recv')
    BY <1>3, <1>4, <1>7, <1>8, <1>9
  <2>2. QED  BY <2>1 DEF FilledSlots
<1>13. Pointers'
  BY <1>7, <1>8 DEF Pointers
<1>14. Contents'
  <2> SUFFICES ASSUME NEW i \in 0 .. fill' - 1
               PROVE  mem'[Slot(rp' + i)] = Len(recv') + i
    BY DEF Contents
  <2>1. i \in Nat /\ n + i \in 0 .. fill - 1 /\ n + i < Size /\ n \in 1 .. Size
    <3>1. n \in 1 .. fill /\ fill \in 0 .. Size
      BY <1>3, <1>4
    <3>2. fill' = fill - n /\ fill' \in 0 .. Size
      BY <1>8
    <3>3. QED  BY <3>1, <3>2
  <2>2. Slot(rp' + i) = Slot(rp + (n + i))
    BY <1>4, <1>5, <2>1, AdvanceSlotLemma
  <2>3. mem[Slot(rp + (n + i))] = Len(recv) + (n + i)
    BY <1>1, <2>1 DEF Contents
  <2>4. Len(recv') + i = Len(recv) + (n + i)
    BY <1>3, <1>4, <1>9, <2>1
  <2>5. QED  BY <1>7, <2>2, <2>3, <2>4
<1>15. Held' /\ Quiet'
  BY <1>1, <1>2, <1>7, <1>10 DEF Held, Quiet, Resetting
<1>16. QED  BY <1>11, <1>12, <1>13, <1>14, <1>15 DEF IInv

-----------------------------------------------------------------------------
(* The same for rb_write and rb_done_write.                                *)
LEMMA WBeginStep == ASSUME IInv, WBegin PROVE IInv'
<1>1. /\ wr' \in Call /\ wr'.pc = "lock" /\ wr.pc = "idle" /\ ~Resetting
      /\ UNCHANGED <<ring, hist, done, mutex, rd, ctl, count, readQ, writeQ>>
  BY LengthsAssumption DEF WBegin, Call, Results
<1>2. QED  BY <1>1, Calls, WriterStep

\* The size a writer chooses under the mutex is that of its copy.
LEMMA WLockCopies ==
  ASSUME WLock, wr \in Call, NEW n \in Nat, n = WriteSize, n # 0
  PROVE  wr' \in Call /\ wr'.pc = "copy" /\ wr'.size = n /\ wr'.need = wr.need
  BY DEF WLock, Call

LEMMA WLockStep == ASSUME IInv, WLock PROVE IInv'
<1>1. wr \in Call /\ wr.pc = "lock" /\ mutex = "none" /\ rd.pc # "copy" /\ ~Resetting
  BY Calls DEF WLock, Held, Quiet
<1>2. UNCHANGED <<ring, hist, done, rd, ctl, count, writeQ>>
  BY DEF WLock
<1>3. WriteSize \in 0 .. Size - fill /\ WriteSize <= wr.need /\ fill \in Nat /\ fill <= Size
  BY WriteSizeLemma, Numbers DEF IInv, FilledSlots
<1>4. readQ' \in WaitQ
  BY Calls, WaitQLemma DEF WLock
<1>5. CASE WriteSize = 0
  <2>1. wr' \in Call /\ wr'.pc = "check" /\ mutex' = mutex
    BY <1>1, <1>5 DEF WLock, Call
  <2>2. QED  BY <1>1, <1>2, <1>4, <2>1, Calls, WriterStep
<1>6. CASE WriteSize # 0
  <2>1. wr' \in Call /\ wr'.pc = "copy" /\ wr'.size = WriteSize /\ wr'.need = wr.need
    <3>1. WriteSize \in Nat
      BY <1>3
    <3>2. QED  BY <1>1, <1>6, <3>1, WLockCopies
  <2>2. mutex' = "W" /\ WriteSize \in 1 .. Size - fill
    BY <1>3, <1>6 DEF WLock
  <2>3. Held' /\ Quiet'
    BY <1>1, <1>2, <1>3, <2>1, <2>2 DEF Held, Quiet, Resetting, ring
  <2>4. QED  BY <1>2, <1>4, <2>1, <2>2, <2>3, Calls, CallStep DEF count
<1>7. QED  BY <1>5, <1>6

LEMMA WCheckStep == ASSUME IInv, WCheck \/ WTimeout PROVE IInv'
<1>1. wr \in Call
  BY Calls
<1>2. wr' \in Call /\ wr'.pc \in {"exit", "claim"}
  BY <1>1 DEF WCheck, WTimeout, Call, Results
<1>3. wr.pc # "idle" /\ wr.pc # "copy"
  BY DEF WCheck, WTimeout
<1>4. UNCHANGED <<ring, hist, done, mutex, readQ, writeQ, rd, ctl, count>>
  BY DEF WCheck, WTimeout
<1>5. ~Resetting
  BY <1>3, Calls DEF Quiet
<1>6. QED  BY <1>2, <1>3, <1>4, <1>5, Calls, WriterStep

LEMMA WSelectStep == ASSUME IInv, WSelect PROVE IInv'
<1>1. wr \in Call /\ writeQ' \in WaitQ /\ Head(writeQ.set) \in Members
  BY Calls, WaitQLemma DEF WSelect
<1>2. wr' \in Call /\ wr'.pc = Head(writeQ.set)
  BY <1>1 DEF WSelect, Call
<1>3. wr.pc = "claim" /\ wr'.pc # "copy"
  BY <1>1, <1>2 DEF WSelect, Members
<1>4. UNCHANGED <<ring, hist, done, mutex, readQ, rd, ctl, count>>
  BY DEF WSelect
<1>5. ~Resetting
  BY <1>3, Calls DEF Quiet
<1>6. QED  BY <1>1, <1>2, <1>3, <1>4, <1>5, Calls, WriterStep

LEMMA WTakeStep == ASSUME IInv, WTake PROVE IInv'
<1>1. wr \in Call /\ writeQ' \in WaitQ
  BY Calls, WaitQLemma DEF WTake
<1>2. wr' \in Call /\ wr'.pc \in {"lock", "exit"}
  BY <1>1 DEF WTake, Call, Results
<1>3. wr.pc # "idle" /\ wr.pc # "copy"
  BY DEF WTake, Members
<1>4. UNCHANGED <<ring, hist, done, mutex, readQ, rd, ctl, count>>
  BY DEF WTake
<1>5. ~Resetting
  BY <1>3, Calls DEF Quiet
<1>6. QED  BY <1>1, <1>2, <1>3, <1>4, <1>5, Calls, WriterStep

LEMMA WExitStep == ASSUME IInv, WExit PROVE IInv'
<1>1. wr \in Call /\ readQ' \in WaitQ
  BY Calls, WaitQLemma DEF WExit
<1>2. wr' \in Call /\ wr'.pc = "idle"
  BY <1>1 DEF WExit, Call, Idle, Results
<1>3. wr.pc = "exit"
  BY DEF WExit
<1>4. UNCHANGED <<ring, hist, done, mutex, writeQ, rd, ctl, count>>
  BY DEF WExit
<1>5. QED  BY <1>1, <1>2, <1>3, <1>4, Calls, WriterStep

LEMMA WDoneStep == ASSUME IInv, WDone PROVE IInv'
<1>1. wr \in Call
  BY Calls
<1>2. wr' \in Call /\ wr'.pc = "done" /\ wr.pc = "idle" /\ ~Resetting /\ done' = TRUE
  BY <1>1 DEF WDone, Call
<1>3. UNCHANGED <<ring, hist, mutex, readQ, writeQ, rd, ctl, count>>
  BY DEF WDone
<1>4. QED  BY <1>2, <1>3, Calls, WriterStep

LEMMA WDoneGiveStep == ASSUME IInv, WDoneGive PROVE IInv'
<1>1. wr \in Call /\ readQ' \in WaitQ
  BY Calls, WaitQLemma DEF WDoneGive
<1>2. wr' \in Call /\ wr'.pc = "idle" /\ wr.pc = "done"
  BY <1>1 DEF WDoneGive, Call
<1>3. UNCHANGED <<ring, hist, done, mutex, writeQ, rd, ctl, count>>
  BY DEF WDoneGive
<1>4. QED  BY <1>1, <1>2, <1>3, Calls, WriterStep

LEMMA WCopyStep == ASSUME IInv, WCopy PROVE IInv'
<1>1. TypeOK /\ FilledSlots /\ Pointers /\ Held /\ Quiet /\ Contents
  BY DEF IInv
<1>2. wr.pc = "copy" /\ rd.pc # "copy" /\ ~Resetting /\ wr \in Call
  BY <1>1, Calls DEF WCopy, Held, Quiet
<1>3. PICK n \in Nat : n = wr.size /\ n \in 1 .. Size - fill /\ n <= wr.need
  BY <1>1, <1>2, Numbers DEF Held
<1>4. /\ rp \in 0 .. Size /\ wp \in 0 .. Size /\ fill \in 0 .. Size /\ sent \in Nat
      /\ Len(recv) \in Nat /\ fill = sent - Len(recv)
  BY <1>1, Numbers DEF FilledSlots
<1>5. rp + fill = wp \/ rp + fill = wp + Size
  BY <1>1 DEF Pointers
<1>6. wp' = Advance(wp, n) /\ fill' = fill + n /\ sent' = sent + n
  BY <1>3 DEF WCopy
<1>7. mem' = [k \in Slots |-> IF Offset(k, wp) < n THEN sent + Offset(k, wp) ELSE mem[k]]
  BY <1>3 DEF WCopy
<1>8. /\ mutex' = "none" /\ readQ' = Give(readQ)
      /\ UNCHANGED <<rp, done, writeQ, rd, ctl, recv, aborts, resets>>
  BY DEF WCopy, count
<1>9. /\ wp' \in 0 .. Size /\ fill' \in 0 .. Size
      /\ rp + fill' = wp' \/ rp + fill' = wp' + Size
  <2>1. /\ Advance(wp, n) \in 0 .. Size /\ fill + n \in 0 .. Size
        /\ rp + (fill + n) = Advance(wp, n) \/ rp + (fill + n) = Advance(wp, n) + Size
    <3>1. n \in 1 .. Size - fill
      BY <1>3
    <3>2. rp \in 0 .. Size /\ wp \in 0 .. Size /\ fill \in 0 .. Size
      BY <1>4
    <3>3. QED  BY <1>5, <3>1, <3>2 DEF Advance
  <2>2. QED  BY <1>6, <2>1
<1>10. mem' \in [Slots -> Nat]
  <2>1. ASSUME NEW k \in Slots PROVE Offset(k, wp) \in Nat /\ sent + Offset(k, wp) \in Nat
    BY <1>4 DEF Offset, Slots
  <2>2. ASSUME NEW k \in Slots PROVE mem[k] \in Nat
    BY <1>1 DEF TypeOK
  <2>3. QED  BY <1>7, <2>1, <2>2
<1>11. wr' \in Call /\ wr'.pc \in {"exit", "lock"}
  <2>1. wr.need - n \in Nat /\ wr.total + n \in Nat
    <3>1. wr.need \in Nat /\ wr.total \in Nat
      BY <1>1, Numbers
    <3>2. QED  BY <1>3, <3>1
  <2>2. QED  BY <1>2, <1>3, <2>1 DEF WCopy, Call
<1>12. TypeOK'
  <2>1. wp' \in 0 .. Size /\ fill' \in 0 .. Word - 1 /\ sent' \in Nat
    <3>1. sent' \in Nat
      BY <1>4, <1>6
    <3>2. QED  BY <1>9, <3>1
  <2>2. readQ' \in WaitQ
    BY <1>8, Calls, WaitQLemma
  <2>3. QED  BY <1>1, <1>8, <1>10, <1>11, <2>1, <2>2 DEF TypeOK
<1>13. FilledSlots'
  <2>1. Len(recv') = Len(recv)
    BY <1>8
  <2>2. fill' <= Size /\ fill' = sent' - Len(recv')
    <3>1. fill' = fill + n /\ sent' = sent + n
      BY <1>6
    <3>2. QED  BY <1>4, <1>9, <2>1, <3>1
  <2>3. QED  BY <2>2 DEF FilledSlots
<1>14. Pointers'
  BY <1>8, <1>9 DEF Pointers
<1>15. Contents'
  <2> SUFFICES ASSUME NEW i \in 0 .. fill' - 1
               PROVE  mem'[Slot(rp' + i)] = Len(recv') + i
    BY DEF Contents
  <2>1. i \in 0 .. fill + n - 1
    <3>1. fill' = fill + n /\ fill \in 0 .. Size
      BY <1>4, <1>6
    <3>2. QED  BY <3>1
  <2>2. /\ Slot(rp + i) \in Slots
        /\ i < fill => Offset(Slot(rp + i), wp) >= n
        /\ i >= fill => Offset(Slot(rp + i), wp) = i - fill
    <3>1. n \in 1 .. Size - fill
      BY <1>3
    <3>2. rp \in 0 .. Size /\ wp \in 0 .. Size /\ fill \in 0 .. Size
      BY <1>4
    <3>3. QED  BY <1>5, <2>1, <3>1, <3>2, StoreSlotLemma
  <2>3. mem'[Slot(rp + i)] = IF Offset(Slot(rp + i), wp) < n
                             THEN sent + Offset(Slot(rp + i), wp)
                             ELSE mem[Slot(rp + i)]
    BY <1>7, <2>2
  <2>4. CASE i < fill
    <3>1. i \in 0 .. fill - 1
      BY <1>4, <2>1, <2>4
    <3>2. mem[Slot(rp + i)] = Len(recv) + i
      BY <1>1, <3>1 DEF Contents
    <3>3. Offset(Slot(rp + i), wp) \in Nat
      BY <1>4, <2>2 DEF Offset, Slots
    <3>4. ~(Offset(Slot(rp + i), wp) < n)
      BY <1>3, <2>2, <2>4, <3>3
    <3>5. QED  BY <1>8, <2>3, <3>2, <3>4
  <2>5. CASE i >= fill
    <3>1. i - fill < n /\ sent + (i - fill) = Len(recv) + i
      BY <1>3, <1>4, <2>1
    <3>2. QED  BY <1>8, <2>2, <2>3, <2>5, <3>1
  <2>6. QED  BY <1>4, <2>1, <2>4, <2>5
<1>16. Held' /\ Quiet'
  BY <1>1, <1>2, <1>8, <1>11 DEF Held, Quiet, Resetting
<1>17. QED  BY <1>12, <1>13, <1>14, <1>15, <1>16 DEF IInv

-----------------------------------------------------------------------------
(* The same for rb_abort and rb_reset.                                     *)
LEMMA ThirdStep ==
  ASSUME IInv, AbortRead \/ AbortWrite \/ ResetBegin \/ ResetDrain \/ ResetGive
  PROVE  IInv'
<1>1. UNCHANGED <<ring, hist, done, mutex, rd, wr>>
  BY DEF AbortRead, AbortWrite, ResetBegin, ResetCall, ResetDrain, ResetGive
<1>2. readQ' \in WaitQ /\ writeQ' \in WaitQ
  BY Calls, WaitQLemma
     DEF AbortRead, AbortWrite, ResetBegin, ResetCall, ResetDrain, ResetGive
<1>3. aborts' \in Nat /\ resets' \in Nat
  BY Calls DEF AbortRead, AbortWrite, ResetBegin, ResetCall, ResetDrain, ResetGive, count
<1>4. ctl' \in {"idle", "abort", "fields", "drain", "give"}
  BY DEF AbortRead, AbortWrite, ResetBegin, ResetCall, ResetDrain, ResetGive
<1>5. Quiet'
  BY <1>1, Calls
     DEF AbortRead, AbortWrite, ResetBegin, ResetCall, ResetDrain, ResetGive, Quiet, Resetting
<1>6. Held'
  BY <1>1, Calls DEF Held, ring
<1>7. QED  BY <1>1, <1>2, <1>3, <1>4, <1>5, <1>6, Calls, CallStep

LEMMA ResetFieldsStep == ASSUME IInv, ResetFields PROVE IInv'
<1>0. rp' = 0 /\ wp' = 0 /\ fill' = 0 /\ sent' = 0 /\ recv' = <<>> /\ Len(recv') = 0
  BY DEF ResetFields
<1>1. /\ UNCHANGED <<mem, mutex, readQ, writeQ, rd, wr, aborts, resets>>
      /\ done' = FALSE /\ ctl' = "drain" /\ ctl = "fields"
  BY DEF ResetFields, count
<1>2. TypeOK
  BY DEF IInv
<1>3. /\ rp' \in 0 .. Size /\ wp' \in 0 .. Size /\ fill' \in 0 .. Word - 1
      /\ sent' \in Nat /\ recv' \in Seq(Nat)
  BY <1>0
<1>4. TypeOK'
  BY <1>1, <1>2, <1>3 DEF TypeOK
<1>5. FilledSlots'
  <2>1. fill' = 0 /\ sent' = 0 /\ Len(recv') = 0
    BY <1>0
  <2>2. QED  BY <2>1 DEF FilledSlots
<1>6. Pointers'
  BY <1>0 DEF Pointers
<1>7. Contents'
  BY <1>0 DEF Contents
<1>8. Held' /\ Quiet'
  BY <1>1, Calls DEF Held, Quiet, Resetting
<1>9. QED  BY <1>4, <1>5, <1>6, <1>7, <1>8 DEF IInv

LEMMA StutterStep == ASSUME IInv, UNCHANGED vars PROVE IInv'
<1>1. /\ UNCHANGED <<ring, hist>>
      /\ UNCHANGED <<done, mutex, readQ, writeQ, rd, wr, ctl, aborts, resets>>
  BY DEF vars, ring, hist
<1>2. Held' /\ Quiet'
  BY <1>1, Calls DEF Held, Quiet, Resetting, ring
<1>3. QED  BY <1>1, <1>2, Calls, CallStep

(* Every step preserves the invariant.                                     *)
LEMMA StepIInv == IInv /\ [Next]_vars => IInv'
  BY RBeginStep, RLockStep, RCopyStep, RCheckStep, RSelectStep, RTakeStep, RExitStep,
     WBeginStep, WLockStep, WCopyStep, WCheckStep, WSelectStep, WTakeStep, WExitStep,
     WDoneStep, WDoneGiveStep, ThirdStep, ResetFieldsStep, StutterStep
     DEF Next, Reader, ReaderGoes, Writer, WriterGoes, Third

(* The inductive invariant holds in every reachable state.                 *)
THEOREM Invariance == Spec => []IInv
  BY InitIInv, StepIInv, PTL DEF Spec

(* Type correctness: pointers stay inside the buffer, fill_cnt never wraps *)
(* below zero, the queue sets hold only their members (ringbuf.c:38-53).   *)
THEOREM TypeCorrect == Spec => []TypeOK
<1>1. IInv => TypeOK
  BY DEF IInv
<1>2. QED  BY <1>1, Invariance, PTL

(* fill_cnt is the number of filled slots and never exceeds the capacity,  *)
(* whatever the interleaving of rb_read, rb_write, rb_done_write, rb_abort *)
(* and a reset made between calls.                                         *)
THEOREM FillCounts == Spec => []FilledSlots
<1>1. IInv => FilledSlots
  BY DEF IInv
<1>2. QED  BY <1>1, Invariance, PTL

(* The filled slots hold the undelivered bytes in order, wrap included.    *)
THEOREM ContentsInOrder == Spec => []Contents
<1>1. IInv => Contents
  BY DEF IInv
<1>2. QED  BY <1>1, Invariance, PTL

-----------------------------------------------------------------------------
(* The ring implements ByteStream: what rb_read hands out is what rb_write *)
(* took in, in order, with no byte lost, repeated or invented, and never   *)
(* more than the capacity in flight.                                       *)
THEOREM RingImplementsStream == Spec => Implements
<1>1. Init => Stream!Init
  BY DEF Init, Stream!Init
<1>2. IInv /\ [Next]_vars => [Stream!Next]_Stream!stream
  <2> SUFFICES ASSUME IInv, [Next]_vars PROVE [Stream!Next]_Stream!stream
    OBVIOUS
  <2>1. CASE RCopy
    <3>1. /\ rd.size \in 1 .. Size /\ rd.size <= fill
          /\ fill = sent - Len(recv)
      BY <2>1 DEF RCopy, IInv, Held, FilledSlots, TypeOK, Call
    <3>2. \A i \in 1 .. rd.size : mem[Slot(rp + i - 1)] = Len(recv) + i - 1
      <4> SUFFICES ASSUME NEW i \in 1 .. rd.size
                   PROVE  mem[Slot(rp + i - 1)] = Len(recv) + i - 1
        OBVIOUS
      <4>1. i - 1 \in 0 .. fill - 1 /\ rp + i - 1 = rp + (i - 1)
        BY <3>1 DEF IInv, TypeOK
      <4>2. mem[Slot(rp + (i - 1))] = Len(recv) + (i - 1)
        BY <4>1 DEF IInv, Contents
      <4>3. QED  BY <4>1, <4>2 DEF IInv, TypeOK
    <3>3. [i \in 1 .. rd.size |-> mem[Slot(rp + i - 1)]]
            = [i \in 1 .. rd.size |-> Len(recv) + i - 1]
      BY <3>2
    <3>4. Stream!Get(rd.size)
      BY <2>1, <3>1, <3>3 DEF RCopy, Stream!Get, Stream!InFlight
    <3>5. QED  BY <3>1, <3>4 DEF Stream!Next
  <2>2. CASE WCopy
    <3>0. wr.size \in 1 .. Size - fill /\ fill = sent - Len(recv) /\ fill \in Nat
      BY <2>2, Numbers DEF WCopy, IInv, Held, FilledSlots
    <3>1. /\ wr.size \in 1 .. Size /\ wr.size <= Size - fill
          /\ fill = sent - Len(recv)
      BY <3>0
    <3>2. Stream!Put(wr.size)
      BY <2>2, <3>1 DEF WCopy, Stream!Put, Stream!InFlight, IInv, TypeOK
    <3>3. QED  BY <3>1, <3>2 DEF Stream!Next
  <2>3. CASE ResetFields
    BY <2>3 DEF ResetFields, Stream!Next, Stream!Restart
  <2>4. CASE \/ RBegin \/ RLock \/ RCheck \/ RSelect \/ RTake \/ RTimeout \/ RExit
             \/ WBegin \/ WLock \/ WCheck \/ WSelect \/ WTake \/ WTimeout \/ WExit
             \/ WDone \/ WDoneGive
             \/ AbortRead \/ AbortWrite \/ ResetBegin \/ ResetDrain \/ ResetGive
             \/ UNCHANGED vars
    <3>1. UNCHANGED hist
      BY <2>4 DEF RBegin, RLock, RCheck, RSelect, RTake, RTimeout, RExit, WBegin, WLock,
                  WCheck, WSelect, WTake, WTimeout, WExit, WDone, WDoneGive, AbortRead,
                  AbortWrite, ResetBegin, ResetCall, ResetDrain, ResetGive, vars, hist
    <3>2. QED  BY <3>1 DEF hist, Stream!stream
  <2>5. QED
    BY <2>1, <2>2, <2>3, <2>4 DEF Next, Reader, ReaderGoes, Writer, WriterGoes, Third
<1>3. QED
  BY <1>1, <1>2, Invariance, PTL DEF Spec, Implements, Stream!Spec
-----------------------------------------------------------------------------
(* No wake-up is lost.                                                     *)

(* A call that has not got all it came for still needs something.          *)
NeedsMore(c) == c.pc \in {"lock", "copy", "check", "claim", "sem"} => c.need > 0

(* Between the look at fill_cnt, under the mutex, and the wait outside it. *)
Looking(c) == c.pc \in {"check", "claim"}

(* A reader on its way to wait has a semaphore to find or a waker to come, *)
(* unless there is nothing for it.                                         *)
ReaderCause ==
  Looking(rd) => \/ readQ.sem
                 \/ wr.pc = "done"
                 \/ ReadSize = 0 /\ (rd.pc = "claim" => ~done)

WriterCause == Looking(wr) => writeQ.sem \/ fill = Size \/ rd.total > 0

Fresh == rd.pc = "idle" => rd.total = 0

WInv == SetsMatch /\ NeedsMore(wr) /\ Fresh /\ ReaderCause /\ WriterCause

(* The set of one side goes on listing its full members when the semaphore *)
(* is given, an abort is sent, or the side goes on without selecting.      *)
LEMMA ListsGive ==
  ASSUME NEW q \in WaitQ, NEW p, SetLists(q, p)
  PROVE  SetLists(Give(q), p) /\ Give(q).sem
<1>1. CASE q.sem
  BY <1>1 DEF Give
<1>2. CASE ~q.sem
  <2>1. /\ Give(q).sem = TRUE /\ Give(q).abort = q.abort /\ Give(q).set = Append(q.set, "sem")
        /\ p # "sem"
    BY <1>2 DEF Give, Wait, SetLists
  <2>2. \A i \in 1 .. Len(q.set) : q.set[i] # "sem"
    BY <1>2 DEF SetLists, Members
  <2>3. /\ Len(Append(q.set, "sem")) = Len(q.set) + 1
        /\ \A i \in 1 .. Len(q.set) : Append(q.set, "sem")[i] = q.set[i]
        /\ Append(q.set, "sem")[Len(q.set) + 1] = "sem"
        /\ Len(q.set) \in Nat
    BY DEF WaitQ
  <2> HIDE DEF Give
  <2>4. QED  BY <2>1, <2>2, <2>3 DEF SetLists, Members
<1>3. QED  BY <1>1, <1>2 DEF WaitQ

\* Sending an abort,
LEMMA ListsAbort ==
  ASSUME NEW q \in WaitQ, NEW p, SetLists(q, p)
  PROVE  SetLists(SendAbort(q), p) /\ SendAbort(q).sem = q.sem
<1>1. CASE q.abort
  BY <1>1 DEF SendAbort
<1>2. CASE ~q.abort
  <2>1. /\ SendAbort(q).sem = q.sem /\ SendAbort(q).abort = TRUE
        /\ SendAbort(q).set = Append(q.set, "abort") /\ p # "abort"
    BY <1>2 DEF SendAbort, Wait, SetLists
  <2>2. \A i \in 1 .. Len(q.set) : q.set[i] # "abort"
    BY <1>2 DEF SetLists, Members
  <2>3. /\ Len(Append(q.set, "abort")) = Len(q.set) + 1
        /\ \A i \in 1 .. Len(q.set) : Append(q.set, "abort")[i] = q.set[i]
        /\ Append(q.set, "abort")[Len(q.set) + 1] = "abort"
        /\ Len(q.set) \in Nat
    BY DEF WaitQ
  <2>4. QED  BY <2>1, <2>2, <2>3 DEF SetLists, Members
<1>3. QED  BY <1>1, <1>2 DEF WaitQ

\* Or going on without a selection,
LEMMA ListsKept ==
  ASSUME NEW q \in WaitQ, NEW p, NEW p2, NEW q2, SetLists(q, p),
         p2 = p \/ (p \notin Members /\ p2 \notin Members),
         q2 \in {q, Give(q), SendAbort(q)}
  PROVE  SetLists(q2, p2)
<1>1. SetLists(q2, p)
  BY ListsGive, ListsAbort
<1>2. QED  BY <1>1 DEF SetLists, Members

(* Selecting takes the first member off the list; taking it empties it.    *)
LEMMA ListsSelect ==
  ASSUME NEW q \in WaitQ, NEW p, SetLists(q, p), p \notin Members, q.set # <<>>
  PROVE  SetLists(Select(q), Head(q.set)) /\ Select(q).sem = q.sem
<1>1. /\ Select(q).sem = q.sem /\ Select(q).abort = q.abort /\ Select(q).set = Tail(q.set)
  BY DEF Select, Wait
<1>2. /\ Len(q.set) \in Nat \ {0} /\ Len(Tail(q.set)) = Len(q.set) - 1
      /\ \A i \in 1 .. Len(Tail(q.set)) : Tail(q.set)[i] = q.set[i + 1]
      /\ Head(q.set) = q.set[1] /\ Head(q.set) \in Members
  BY DEF WaitQ
<1>3. \A m \in Members :
        (\E i \in 1 .. Len(Tail(q.set)) : Tail(q.set)[i] = m)
          <=> Head(q.set) # m /\ (IF m = "sem" THEN q.sem ELSE q.abort)
  <2> SUFFICES ASSUME NEW m \in Members
               PROVE  (\E i \in 1 .. Len(Tail(q.set)) : Tail(q.set)[i] = m)
                        <=> Head(q.set) # m /\ (IF m = "sem" THEN q.sem ELSE q.abort)
    OBVIOUS
  <2>1. (\E i \in 1 .. Len(q.set) : q.set[i] = m) <=> (IF m = "sem" THEN q.sem ELSE q.abort)
    BY DEF SetLists
  <2>2. ASSUME NEW i \in 1 .. Len(Tail(q.set)), Tail(q.set)[i] = m
        PROVE  Head(q.set) # m /\ \E j \in 1 .. Len(q.set) : q.set[j] = m
    <3>1. i + 1 \in 1 .. Len(q.set) /\ 1 \in 1 .. Len(q.set) /\ 1 # i + 1 /\ q.set[i + 1] = m
      BY <1>2, <2>2
    <3>2. q.set[1] # q.set[i + 1]
      BY <3>1 DEF SetLists
    <3>3. QED  BY <1>2, <3>1, <3>2
  <2>3. ASSUME NEW j \in 1 .. Len(q.set), q.set[j] = m, Head(q.set) # m
        PROVE  \E i \in 1 .. Len(Tail(q.set)) : Tail(q.set)[i] = m
    <3>1. j # 1
      BY <1>2, <2>3
    <3>2. j - 1 \in 1 .. Len(Tail(q.set)) /\ (j - 1) + 1 = j
      BY <1>2, <3>1
    <3>3. Tail(q.set)[j - 1] = m
      BY <1>2, <2>3, <3>2
    <3>4. QED  BY <3>2, <3>3
  <2>4. QED  BY <2>1, <2>2, <2>3
<1>4. \A i, j \in 1 .. Len(Tail(q.set)) : i # j => Tail(q.set)[i] # Tail(q.set)[j]
  <2> SUFFICES ASSUME NEW i \in 1 .. Len(Tail(q.set)), NEW j \in 1 .. Len(Tail(q.set)), i # j
               PROVE  Tail(q.set)[i] # Tail(q.set)[j]
    OBVIOUS
  <2>1. i + 1 \in 1 .. Len(q.set) /\ j + 1 \in 1 .. Len(q.set) /\ i + 1 # j + 1
    BY <1>2
  <2>2. QED  BY <1>2, <2>1 DEF SetLists
<1>5. /\ Head(q.set) = "sem" => q.sem
      /\ Head(q.set) = "abort" => q.abort
  <2>1. 1 \in 1 .. Len(q.set) /\ q.set[1] = Head(q.set) /\ Head(q.set) \in Members
    BY <1>2
  <2>2. IF Head(q.set) = "sem" THEN q.sem ELSE q.abort
    BY <2>1 DEF SetLists
  <2>3. QED  BY <2>2
<1>6. QED  BY <1>1, <1>3, <1>4, <1>5 DEF SetLists

\* Taking the selected member,
LEMMA ListsTake ==
  ASSUME NEW q \in WaitQ, NEW m \in Members, NEW p2 , SetLists(q, m), p2 \notin Members
  PROVE  SetLists(Take(q, m), p2)
  BY DEF SetLists, Take, Wait, Members, WaitQ

\* Or draining both (rb_reset) keep the set in step with its members.
LEMMA ListsDrained ==
  ASSUME NEW q \in WaitQ, NEW p, SetLists(q, p), p \notin Members
  PROVE  SetLists(Drained(q), p)
<1>1. Drained(q).sem = FALSE /\ Drained(q).abort = FALSE /\ Drained(q).set = <<>>
  BY DEF SetLists, Drained, Wait, Members, WaitQ
<1>2. QED  BY <1>1 DEF SetLists, Members
-----------------------------------------------------------------------------
(* What each step of a call does to where it is and to what it counts.     *)
LEMMA ReaderMoves ==
  ASSUME rd \in Call
  PROVE  /\ RBegin => rd'.pc = "lock" /\ rd'.total = 0 /\ rd'.need \in ReadLens
         /\ RLock => /\ rd'.pc = IF ReadSize = 0 THEN "check" ELSE "copy"
                     /\ rd'.size = IF ReadSize = 0 THEN rd.size ELSE ReadSize
                     /\ rd'.need = rd.need /\ rd'.total = rd.total
         /\ RCopy => /\ rd'.pc = IF rd.size = rd.need THEN "exit" ELSE "lock"
                     /\ rd'.need = rd.need - rd.size /\ rd'.total = rd.total + rd.size
         /\ RCheck => /\ rd'.pc = IF done THEN "exit" ELSE "claim"
                      /\ rd'.need = rd.need /\ rd'.total = rd.total
         /\ RSelect => /\ rd'.pc = Head(readQ.set)
                       /\ rd'.need = rd.need /\ rd'.total = rd.total
         /\ RTake => /\ rd'.pc = IF rd.pc = "sem" THEN "lock" ELSE "exit"
                     /\ rd'.need = rd.need /\ rd'.total = rd.total
         /\ RTimeout => /\ rd'.pc = "exit"
                        /\ rd'.need = rd.need /\ rd'.total = rd.total
         /\ RExit => rd'.pc = "idle" /\ rd'.total = 0 /\ rd'.need = 0
<1> DEFINE n == ReadSize
           s == rd.need - rd.size
           t == rd.total + rd.size
<1>1. RBegin => rd'.pc = "lock" /\ rd'.total = 0 /\ rd'.need \in ReadLens
  BY DEF RBegin
<1>2. RLock => /\ rd'.pc = IF n = 0 THEN "check" ELSE "copy"
               /\ rd'.size = IF n = 0 THEN rd.size ELSE n
               /\ rd'.need = rd.need /\ rd'.total = rd.total
  <2>1. RLock => rd' = IF n = 0 THEN [rd EXCEPT !.pc = "check"]
                                ELSE [rd EXCEPT !.pc = "copy", !.size = n]
    BY DEF RLock
  <2> HIDE DEF n
  <2>2. QED  BY <2>1 DEF Call
<1>3. RCopy => /\ rd'.pc = IF rd.size = rd.need THEN "exit" ELSE "lock"
               /\ rd'.need = s /\ rd'.total = t
  <2>1. RCopy => rd' = [rd EXCEPT !.pc = IF rd.size = rd.need THEN "exit" ELSE "lock",
                                  !.need = s, !.total = t, !.size = 0]
    BY DEF RCopy
  <2> HIDE DEF s, t
  <2>2. QED  BY <2>1 DEF Call
<1>4. RCheck => /\ rd'.pc = IF done THEN "exit" ELSE "claim"
                /\ rd'.need = rd.need /\ rd'.total = rd.total
  BY DEF RCheck, Call
<1>5. RSelect => /\ rd'.pc = Head(readQ.set)
                 /\ rd'.need = rd.need /\ rd'.total = rd.total
  BY DEF RSelect, Call
<1>6. RTake => /\ rd'.pc = IF rd.pc = "sem" THEN "lock" ELSE "exit"
               /\ rd'.need = rd.need /\ rd'.total = rd.total
  BY DEF RTake, Call
<1>7. RTimeout => rd'.pc = "exit" /\ rd'.need = rd.need /\ rd'.total = rd.total
  BY DEF RTimeout, Call
<1>8. RExit => rd'.pc = "idle" /\ rd'.total = 0 /\ rd'.need = 0
  BY DEF RExit, Idle
<1>9. QED  BY <1>1, <1>2, <1>3, <1>4, <1>5, <1>6, <1>7, <1>8

\* Where the writer's steps lead, and what it needs there.
LEMMA WriterMoves ==
  ASSUME wr \in Call
  PROVE  /\ WBegin => wr'.pc = "lock" /\ wr'.need \in WriteLens
         /\ WLock => /\ wr'.pc = IF WriteSize = 0 THEN "check" ELSE "copy"
                     /\ wr'.need = wr.need
         /\ WCopy => /\ wr'.pc = IF wr.size = wr.need THEN "exit" ELSE "lock"
                     /\ wr'.need = wr.need - wr.size
         /\ WCheck => wr'.pc = (IF done THEN "exit" ELSE "claim") /\ wr'.need = wr.need
         /\ WSelect => wr'.pc = Head(writeQ.set) /\ wr'.need = wr.need
         /\ WTake => wr'.pc = (IF wr.pc = "sem" THEN "lock" ELSE "exit") /\ wr'.need = wr.need
         /\ WTimeout => wr'.pc = "exit"
         /\ WExit => wr'.pc = "idle"
         /\ WDone => wr'.pc = "done"
         /\ WDoneGive => wr'.pc = "idle"
<1> DEFINE n == WriteSize
           s == wr.need - wr.size
           t == wr.total + wr.size
<1>1. WBegin => wr'.pc = "lock" /\ wr'.need \in WriteLens
  BY DEF WBegin
<1>2. WLock => wr'.pc = (IF n = 0 THEN "check" ELSE "copy") /\ wr'.need = wr.need
  <2>1. WLock => wr' = IF n = 0 THEN [wr EXCEPT !.pc = "check"]
                                ELSE [wr EXCEPT !.pc = "copy", !.size = n]
    BY DEF WLock
  <2> HIDE DEF n
  <2>2. QED  BY <2>1 DEF Call
<1>3. WCopy => wr'.pc = (IF wr.size = wr.need THEN "exit" ELSE "lock") /\ wr'.need = s
  <2>1. WCopy => wr' = [wr EXCEPT !.pc = IF wr.size = wr.need THEN "exit" ELSE "lock",
                                  !.need = s, !.total = t, !.size = 0]
    BY DEF WCopy
  <2> HIDE DEF s, t
  <2>2. QED  BY <2>1 DEF Call
<1>4. WCheck => wr'.pc = (IF done THEN "exit" ELSE "claim") /\ wr'.need = wr.need
  BY DEF WCheck, Call
<1>5. WSelect => wr'.pc = Head(writeQ.set) /\ wr'.need = wr.need
  BY DEF WSelect, Call
<1>6. WTake => wr'.pc = (IF wr.pc = "sem" THEN "lock" ELSE "exit") /\ wr'.need = wr.need
  BY DEF WTake, Call
<1>7. WTimeout => wr'.pc = "exit"
  BY DEF WTimeout, Call
<1>9. WExit => wr'.pc = "idle"
  BY DEF WExit, Idle
<1>8. (WDone => wr'.pc = "done") /\ (WDoneGive => wr'.pc = "idle")
  BY DEF WDone, WDoneGive, Call
<1>10. QED  BY <1>1, <1>2, <1>3, <1>4, <1>5, <1>6, <1>7, <1>8, <1>9

(* The queue sets, whatever the step.                                      *)
LEMMA ReaderSide ==
  ASSUME IInv, SetsMatch, [Next]_vars
  PROVE  SetLists(readQ', rd'.pc)
<1>1. rd \in Call /\ readQ \in WaitQ /\ SetLists(readQ, rd.pc)
  BY Calls DEF SetsMatch
<1>2. CASE RSelect
  <2>1. rd.pc \notin Members /\ readQ.set # <<>> /\ readQ' = Select(readQ)
    BY <1>2 DEF RSelect, Members
  <2>2. rd'.pc = Head(readQ.set)
    BY <1>1, <1>2 DEF RSelect, Call
  <2>3. QED  BY <1>1, <2>1, <2>2, ListsSelect
<1>3. CASE RTake
  <2>1. rd.pc \in Members /\ readQ' = Take(readQ, rd.pc)
    BY <1>3 DEF RTake
  <2>2. rd'.pc \notin Members
    BY <1>1, <1>3 DEF RTake, Call, Members
  <2>3. QED  BY <1>1, <2>1, <2>2, ListsTake
<1>4. CASE ResetDrain
  <2>1. rd' = rd /\ rd.pc = "idle" /\ readQ' = Drained(readQ)
    BY <1>4, Calls DEF ResetDrain, Quiet, Resetting
  <2>2. QED  BY <1>1, <2>1, ListsDrained DEF Members
<1>5. CASE RBegin \/ RLock \/ RCopy \/ RCheck \/ RTimeout \/ RExit
  <2>1. readQ' = readQ /\ rd.pc \notin Members
    BY <1>5 DEF RBegin, RLock, RCopy, RCheck, RTimeout, RExit, Members
  <2>2. rd'.pc \notin Members
    BY <1>1, <1>5, ReaderMoves DEF Members
  <2>3. QED  BY <1>1, <2>1, <2>2, ListsKept
<1>6. CASE \/ WBegin \/ WLock \/ WCopy \/ WCheck \/ WSelect \/ WTake \/ WTimeout \/ WExit
           \/ WDone \/ WDoneGive
           \/ AbortRead \/ AbortWrite \/ ResetBegin \/ ResetFields \/ ResetGive
           \/ UNCHANGED vars
  <2>1. rd' = rd /\ readQ' \in {readQ, Give(readQ), SendAbort(readQ)}
    BY <1>6 DEF WBegin, WLock, WCopy, WCheck, WSelect, WTake, WTimeout, WExit, WDone, WDoneGive,
                AbortRead, AbortWrite, ResetBegin, ResetCall, ResetFields, ResetGive, vars
  <2>2. QED  BY <1>1, <2>1, ListsKept
<1>7. QED  BY <1>2, <1>3, <1>4, <1>5, <1>6
               DEF Next, Reader, ReaderGoes, Writer, WriterGoes, Third

\* The writer's set stays in step, whoever moves,
LEMMA WriterSide ==
  ASSUME IInv, SetsMatch, [Next]_vars
  PROVE  SetLists(writeQ', wr'.pc)
<1>1. wr \in Call /\ writeQ \in WaitQ /\ SetLists(writeQ, wr.pc)
  BY Calls DEF SetsMatch
<1>2. CASE WSelect
  <2>1. wr.pc \notin Members /\ writeQ.set # <<>> /\ writeQ' = Select(writeQ)
    BY <1>2 DEF WSelect, Members
  <2>2. wr'.pc = Head(writeQ.set)
    BY <1>1, <1>2 DEF WSelect, Call
  <2>3. QED  BY <1>1, <2>1, <2>2, ListsSelect
<1>3. CASE WTake
  <2>1. wr.pc \in Members /\ writeQ' = Take(writeQ, wr.pc)
    BY <1>3 DEF WTake
  <2>2. wr'.pc \notin Members
    BY <1>1, <1>3 DEF WTake, Call, Members
  <2>3. QED  BY <1>1, <2>1, <2>2, ListsTake
<1>4. CASE ResetDrain
  <2>1. wr' = wr /\ wr.pc = "idle" /\ writeQ' = Drained(writeQ)
    BY <1>4, Calls DEF ResetDrain, Quiet, Resetting
  <2>2. QED  BY <1>1, <2>1, ListsDrained DEF Members
<1>5. CASE \/ WBegin \/ WLock \/ WCopy \/ WCheck \/ WTimeout \/ WExit \/ WDone \/ WDoneGive
  <2>1. writeQ' = writeQ /\ wr.pc \notin Members
    BY <1>5 DEF WBegin, WLock, WCopy, WCheck, WTimeout, WExit, WDone, WDoneGive, Members
  <2>2. wr'.pc \notin Members
    BY <1>1, <1>5, WriterMoves DEF Members
  <2>3. QED  BY <1>1, <2>1, <2>2, ListsKept
<1>6. CASE \/ RBegin \/ RLock \/ RCopy \/ RCheck \/ RSelect \/ RTake \/ RTimeout \/ RExit
           \/ AbortRead \/ AbortWrite \/ ResetBegin \/ ResetFields \/ ResetGive
           \/ UNCHANGED vars
  <2>1. wr' = wr /\ writeQ' \in {writeQ, Give(writeQ), SendAbort(writeQ)}
    BY <1>6 DEF RBegin, RLock, RCopy, RCheck, RSelect, RTake, RTimeout, RExit,
                AbortRead, AbortWrite, ResetBegin, ResetCall, ResetFields, ResetGive, vars
  <2>2. QED  BY <1>1, <2>1, ListsKept
<1>7. QED  BY <1>2, <1>3, <1>4, <1>5, <1>6
               DEF Next, Reader, ReaderGoes, Writer, WriterGoes, Third

(* rb_write finds no room only in a full ring.                             *)
LEMMA NoRoom ==
  ASSUME NEW n \in Nat, n > 0, NEW f \in 0 .. Size, wr.need = n, fill = f, WriteSize = 0
  PROVE  fill = Size
  BY DEF WriteSize

\* A write that is not over needs more,
LEMMA NeedsMoreStep ==
  ASSUME IInv, NeedsMore(wr), [Next]_vars
  PROVE  NeedsMore(wr)'
<1>1. wr \in Call /\ wr.need \in Nat /\ wr.size \in Nat
  BY Calls DEF Call
<1>2. CASE WBegin
  <2>1. wr'.need \in WriteLens
    BY <1>1, <1>2, WriterMoves
  <2>2. wr'.need \in Nat \ {0}
    BY <2>1, LengthsAssumption
  <2>3. QED  BY <2>2 DEF NeedsMore
<1>3. CASE WCopy
  <2>1. wr.size <= wr.need /\ wr.pc = "copy"
    BY <1>3, Calls DEF WCopy, Held
  <2>2. wr'.pc = "lock" => wr'.need = wr.need - wr.size /\ wr.size # wr.need
    BY <1>1, <1>3, WriterMoves
  <2>3. wr'.pc \in {"exit", "lock"}
    BY <1>1, <1>3, WriterMoves
  <2>4. QED  BY <1>1, <2>1, <2>2, <2>3 DEF NeedsMore
<1>4. CASE WLock \/ WCheck \/ WTake
  <2>1. wr.pc \in {"lock", "check", "sem"} \/ wr'.pc = "exit"
    BY <1>1, <1>4, WriterMoves DEF WLock, WCheck, WTake, Members
  <2>2. QED  BY <1>1, <1>4, <2>1, WriterMoves DEF NeedsMore
<1>5. CASE WSelect
  <2>1. wr.pc = "claim"
    BY <1>5 DEF WSelect
  <2>2. QED  BY <1>1, <1>5, <2>1, WriterMoves DEF NeedsMore
<1>6. CASE WTimeout \/ WExit \/ WDone \/ WDoneGive
  BY <1>1, <1>6, WriterMoves DEF NeedsMore
<1>7. CASE Reader \/ Third \/ UNCHANGED vars
  <2>1. wr' = wr
    BY <1>7 DEF Reader, ReaderGoes, RBegin, RLock, RCopy, RCheck, RSelect, RTake, RTimeout, RExit,
                Third, AbortRead, AbortWrite, ResetBegin, ResetCall, ResetFields, ResetDrain,
                ResetGive, vars
  <2>2. QED  BY <2>1 DEF NeedsMore
<1>8. QED  BY <1>2, <1>3, <1>4, <1>5, <1>6, <1>7 DEF Next, Writer, WriterGoes

\* A read that begins has nothing yet,
LEMMA FreshStep ==
  ASSUME IInv, Fresh, [Next]_vars
  PROVE  Fresh'
<1>1. rd \in Call
  BY Calls
<1>2. CASE RExit
  BY <1>1, <1>2, ReaderMoves DEF Fresh
<1>3. CASE RBegin \/ RLock \/ RCopy \/ RCheck \/ RSelect \/ RTake \/ RTimeout
  <2>1. RSelect => Head(readQ.set) \in Members
    BY Calls, WaitQLemma DEF RSelect
  <2>2. rd'.pc # "idle"
    BY <1>1, <1>3, <2>1, ReaderMoves DEF Members
  <2>3. QED  BY <2>2 DEF Fresh
<1>4. CASE Writer \/ Third \/ UNCHANGED vars
  <2>1. rd' = rd
    BY <1>4 DEF Writer, WriterGoes, WBegin, WLock, WCopy, WCheck, WSelect, WTake, WTimeout, WExit,
                WDone, WDoneGive,
                Third, AbortRead, AbortWrite, ResetBegin, ResetCall, ResetFields, ResetDrain,
                ResetGive, vars
  <2>2. QED  BY <2>1 DEF Fresh
<1>5. QED  BY <1>2, <1>3, <1>4 DEF Next, Reader, ReaderGoes

(* The semaphore the reader will find is taken by nobody but the reader.   *)
LEMMA SemKept ==
  ASSUME NEW q \in WaitQ, q.sem, NEW q2 \in {q, Give(q), SendAbort(q), Select(q)}
  PROVE  q2.sem
  BY DEF Give, SendAbort, Select, Wait

\* And a reader on its way to wait keeps its cause,
LEMMA ReaderCauseStep ==
  ASSUME IInv, SetsMatch, ReaderCause, [Next]_vars
  PROVE  ReaderCause'
<1>1. rd \in Call /\ wr \in Call /\ readQ \in WaitQ /\ SetLists(readQ, rd.pc)
  BY Calls DEF SetsMatch
<1>2. CASE RLock
  <2>1. ReadSize' = ReadSize \/ ReadSize # 0
    BY <1>1, <1>2, ReaderMoves DEF RLock, ReadSize, ring
  <2>2. QED  BY <1>1, <1>2, <2>1, ReaderMoves DEF ReaderCause, Looking
<1>3. CASE RCheck
  <2>1. /\ rd.pc = "check" /\ rd'.need = rd.need /\ rd'.pc = IF done THEN "exit" ELSE "claim"
        /\ UNCHANGED <<fill, done, wr, readQ>>
    BY <1>1, <1>3, ReaderMoves DEF RCheck, ring
  <2>2. ReadSize' = ReadSize
    BY <2>1 DEF ReadSize
  <2>3. QED  BY <2>1, <2>2 DEF ReaderCause, Looking
<1>4. CASE RBegin \/ RCopy \/ RSelect \/ RTake \/ RTimeout \/ RExit
  <2>1. RSelect => Head(readQ.set) \in Members
    BY <1>1, WaitQLemma DEF RSelect
  <2>2. rd'.pc \notin {"check", "claim"}
    BY <1>1, <1>4, <2>1, ReaderMoves DEF Members
  <2>3. QED  BY <2>2 DEF ReaderCause, Looking
<1>5. CASE WCopy \/ WDoneGive
  <2>1. readQ' = Give(readQ)
    BY <1>5 DEF WCopy, WDoneGive
  <2>2. QED  BY <1>1, <2>1, ListsGive DEF ReaderCause
<1>6. CASE WDone
  BY <1>1, <1>6, WriterMoves DEF ReaderCause
<1>7. CASE ResetFields \/ ResetDrain
  <2>1. rd' = rd /\ rd.pc = "idle"
    BY <1>7, Calls DEF ResetFields, ResetDrain, Quiet, Resetting
  <2>2. QED  BY <2>1 DEF ReaderCause, Looking
<1>8. CASE \/ WBegin \/ WLock \/ WCheck \/ WSelect \/ WTake \/ WTimeout \/ WExit
           \/ AbortRead \/ AbortWrite \/ ResetBegin \/ ResetGive \/ UNCHANGED vars
  <2>1. UNCHANGED <<fill, done, rd>>
    BY <1>8 DEF WBegin, WLock, WCheck, WSelect, WTake, WTimeout, WExit,
                AbortRead, AbortWrite, ResetBegin, ResetCall, ResetGive, vars, ring
  <2>2. readQ' \in {readQ, Give(readQ), SendAbort(readQ)}
    BY <1>8 DEF WBegin, WLock, WCheck, WSelect, WTake, WTimeout, WExit,
                AbortRead, AbortWrite, ResetBegin, ResetCall, ResetGive, vars
  <2>3. wr.pc # "done" \/ wr' = wr
    BY <1>8 DEF WBegin, WLock, WCheck, WSelect, WTake, WTimeout, WExit, Members,
                AbortRead, AbortWrite, ResetBegin, ResetCall, ResetGive, vars
  <2>4. ReadSize' = ReadSize
    BY <2>1 DEF ReadSize
  <2>5. readQ.sem => readQ'.sem
    BY <1>1, <2>2, SemKept
  <2>6. QED  BY <2>1, <2>3, <2>4, <2>5 DEF ReaderCause, Looking
<1>9. QED  BY <1>2, <1>3, <1>4, <1>5, <1>6, <1>7, <1>8
               DEF Next, Reader, ReaderGoes, Writer, WriterGoes, Third

\* As does a writer.
LEMMA WriterCauseStep ==
  ASSUME IInv, SetsMatch, NeedsMore(wr), Fresh, WriterCause, [Next]_vars
  PROVE  WriterCause'
<1>1. rd \in Call /\ wr \in Call /\ writeQ \in WaitQ /\ SetLists(writeQ, wr.pc)
  BY Calls DEF SetsMatch
<1>2. /\ fill \in 0 .. Size /\ rd.total \in Nat /\ rd.size \in Nat
  BY Numbers DEF IInv, FilledSlots
<1>3. CASE WLock
  <2>1. WriteSize = 0 => fill = Size
    <3>1. wr.need > 0 /\ wr.need \in Nat
      BY <1>1, <1>3 DEF WLock, NeedsMore, Call
    <3>2. QED  BY <1>2, <3>1, NoRoom
  <2>2. fill' = fill
    BY <1>3 DEF WLock, ring
  <2>3. QED  BY <1>1, <1>3, <2>1, <2>2, WriterMoves DEF WriterCause, Looking
<1>4. CASE WCheck
  <2>1. UNCHANGED <<fill, writeQ, rd>> /\ wr.pc = "check"
    BY <1>4 DEF WCheck, ring
  <2>2. QED  BY <2>1 DEF WriterCause, Looking
<1>5. CASE WBegin \/ WCopy \/ WSelect \/ WTake \/ WTimeout \/ WExit \/ WDone \/ WDoneGive
  <2>1. WSelect => Head(writeQ.set) \in Members
    BY <1>1, WaitQLemma DEF WSelect
  <2>2. wr'.pc \notin {"check", "claim"}
    BY <1>1, <1>5, <2>1, WriterMoves DEF Members
  <2>3. QED  BY <2>2 DEF WriterCause, Looking
<1>6. CASE RCopy
  <2>1. rd.size \in 1 .. fill
    BY <1>6, Calls DEF RCopy, Held
  <2>2. rd'.total = rd.total + rd.size
    BY <1>1, <1>6, ReaderMoves
  <2>3. QED  BY <1>2, <2>1, <2>2 DEF WriterCause
<1>7. CASE RExit
  <2>1. UNCHANGED <<fill, wr>> /\ (IF rd.total > 0 THEN writeQ' = Give(writeQ) ELSE writeQ' = writeQ)
    BY <1>7 DEF RExit, ring
  <2>2. QED  BY <1>1, <2>1, ListsGive DEF WriterCause, Looking
<1>8. CASE RBegin
  <2>1. UNCHANGED <<fill, wr, writeQ>> /\ rd.total = 0
    BY <1>8 DEF RBegin, ring, Fresh
  <2>2. QED  BY <2>1 DEF WriterCause, Looking
<1>9. CASE RLock \/ RCheck \/ RSelect \/ RTake \/ RTimeout
  <2>1. UNCHANGED <<fill, wr, writeQ>>
    BY <1>9 DEF RLock, RCheck, RSelect, RTake, RTimeout, ring
  <2>2. rd'.total = rd.total
    BY <1>1, <1>9, ReaderMoves
  <2>3. QED  BY <2>1, <2>2 DEF WriterCause, Looking
<1>10. CASE ResetFields \/ ResetDrain
  <2>1. wr' = wr /\ wr.pc = "idle"
    BY <1>10, Calls DEF ResetFields, ResetDrain, Quiet, Resetting
  <2>2. QED  BY <2>1 DEF WriterCause, Looking
<1>11. CASE AbortRead \/ AbortWrite \/ ResetBegin \/ ResetGive \/ UNCHANGED vars
  <2>1. UNCHANGED <<fill, rd, wr>> /\ writeQ' \in {writeQ, Give(writeQ), SendAbort(writeQ)}
    BY <1>11 DEF AbortRead, AbortWrite, ResetBegin, ResetCall, ResetGive, vars, ring
  <2>2. writeQ.sem => writeQ'.sem
    BY <1>1, <2>1, SemKept
  <2>3. QED  BY <2>1, <2>2 DEF WriterCause, Looking
<1>12. QED  BY <1>3, <1>4, <1>5, <1>6, <1>7, <1>8, <1>9, <1>10, <1>11
                DEF Next, Reader, ReaderGoes, Writer, WriterGoes, Third

\* Nobody waits at first.
LEMMA InitWInv == Init => WInv
<1> SUFFICES ASSUME Init PROVE WInv
  OBVIOUS
<1>1. SetsMatch
  BY DEF Init, Idle, EmptyQ, Wait, SetsMatch, SetLists, Members
<1>2. QED  BY <1>1 DEF Init, Idle, WInv, NeedsMore, Fresh, ReaderCause, WriterCause, Looking

\* Every step keeps the causes,
LEMMA StepWInv == IInv /\ WInv /\ [Next]_vars => WInv'
  BY ReaderSide, WriterSide, NeedsMoreStep, FreshStep, ReaderCauseStep, WriterCauseStep
     DEF WInv, SetsMatch

\* So that they hold in every reachable state.
LEMMA Wakes == Spec => []WInv
  BY InitWInv, StepWInv, Invariance, PTL DEF Spec

(* Whoever sleeps has its semaphore empty.                                 *)
LEMMA SleepersWait ==
  ASSUME NEW q \in WaitQ, SetLists(q, "claim"), q.set = <<>>
  PROVE  ~q.sem
<1>1. ~ \E i \in 1 .. Len(q.set) : q.set[i] = "sem"
  OBVIOUS
<1>2. QED  BY <1>1 DEF SetLists, Members

(* Each side waits only for a cause the other has not yet removed, and the *)
(* queue sets list what is there to be taken, for every capacity, granule  *)
(* and set of lengths, whatever the order of rb_read, rb_write,            *)
(* rb_done_write, rb_abort, a reset between calls, and time-outs.          *)
THEOREM WaitsHaveCause == Spec => [](ReaderWaitsForCause /\ WriterWaitsForCause /\ SetsMatch)
<1>1. IInv /\ WInv => ReaderWaitsForCause /\ WriterWaitsForCause /\ SetsMatch
  <2> SUFFICES ASSUME IInv, WInv PROVE ReaderWaitsForCause /\ WriterWaitsForCause /\ SetsMatch
    OBVIOUS
  <2>1. ReaderAsleep => ~readQ.sem
    BY Calls, SleepersWait DEF WInv, SetsMatch, ReaderAsleep
  <2>2. WriterAsleep => ~writeQ.sem
    BY Calls, SleepersWait DEF WInv, SetsMatch, WriterAsleep
  <2>3. ReaderWaitsForCause
    BY <2>1 DEF WInv, ReaderCause, Looking, ReaderWaitsForCause, ReaderAsleep
  <2>4. WriterWaitsForCause
    BY <2>2 DEF WInv, WriterCause, Looking, WriterWaitsForCause, WriterAsleep
  <2>5. QED  BY <2>3, <2>4 DEF WInv
<1>2. QED  BY <1>1, Invariance, Wakes, PTL

-----------------------------------------------------------------------------
(* The two sides asleep at once.  A reader may ask for more than the ring  *)
(* holds; it then takes a part and goes to wait without having woken the   *)
(* writer.  With reads that fit, a pass over a full ring ends the call.    *)
ReadsFit == \A n \in ReadLens : n <= Size

WriterStuck == Looking(wr) => \/ writeQ.sem
                              \/ fill = Size
                              \/ rd.pc = "exit" /\ rd.total > 0

WholePass == rd.pc = "copy" /\ fill >= rd.need => rd.size = rd.need

JInv == rd.need <= Size /\ NeedsMore(rd) /\ WholePass /\ WriterStuck

\* With reads that fit, a pass over enough bytes ends the call.
LEMMA ReadNeedsStep ==
  ASSUME ReadsFit, IInv, rd.need <= Size, NeedsMore(rd), WholePass, [Next]_vars
  PROVE  (rd.need <= Size /\ NeedsMore(rd) /\ WholePass)'
<1>1. /\ rd \in Call /\ rd.need \in Nat /\ rd.size \in Nat /\ fill \in 0 .. Size
  BY Calls, Numbers DEF Call, IInv, FilledSlots
<1>2. CASE RBegin
  <2>1. rd'.need \in ReadLens /\ rd'.pc = "lock"
    BY <1>1, <1>2, ReaderMoves
  <2>2. rd'.need \in Nat \ {0} /\ rd'.need <= Size
    BY <2>1, LengthsAssumption DEF ReadsFit
  <2>3. QED  BY <2>1, <2>2 DEF NeedsMore, WholePass
<1>3. CASE RCopy
  <2>1. rd.size <= rd.need /\ rd.pc = "copy"
    BY <1>3, Calls DEF RCopy, Held
  <2>2. rd'.need = rd.need - rd.size /\ (rd'.pc = "lock" => rd.size # rd.need)
    BY <1>1, <1>3, ReaderMoves
  <2>3. rd'.pc \in {"exit", "lock"}
    BY <1>1, <1>3, ReaderMoves
  <2>4. rd.need - rd.size <= Size /\ (rd.size # rd.need => rd.need - rd.size > 0)
    BY <1>1, <2>1
  <2>5. rd'.need <= Size
    BY <2>2, <2>4
  <2>6. rd'.pc = "lock" => rd'.need > 0
    BY <2>2, <2>4
  <2>7. QED  BY <2>3, <2>5, <2>6 DEF NeedsMore, WholePass
<1>4. CASE RLock
  <2>1. rd.need > 0 /\ rd'.need = rd.need
    BY <1>1, <1>4, ReaderMoves DEF RLock, NeedsMore
  <2>2. rd'.pc = "copy" => rd'.size = ReadSize
    BY <1>1, <1>4, ReaderMoves
  <2>3. fill' = fill
    BY <1>4 DEF RLock, ring
  <2>4. fill >= rd.need => ReadSize = rd.need
    BY DEF ReadSize
  <2>5. QED  BY <2>1, <2>2, <2>3, <2>4 DEF NeedsMore, WholePass
<1>5. CASE RCheck \/ RTake
  <2>1. rd.pc \in {"check", "sem"} \/ rd'.pc = "exit"
    BY <1>1, <1>5, ReaderMoves DEF RCheck, RTake, Members
  <2>2. rd'.need = rd.need /\ rd'.pc # "copy"
    BY <1>1, <1>5, ReaderMoves
  <2>3. QED  BY <2>1, <2>2 DEF NeedsMore, WholePass
<1>6. CASE RSelect
  <2>1. rd.pc = "claim" /\ rd'.need = rd.need /\ rd'.pc \in Members
    BY <1>1, <1>6, ReaderMoves, Calls, WaitQLemma DEF RSelect
  <2>2. QED  BY <2>1 DEF NeedsMore, WholePass, Members
<1>7. CASE RTimeout \/ RExit
  <2>1. rd'.pc \in {"exit", "idle"} /\ (rd'.need = rd.need \/ rd'.need = 0)
    BY <1>1, <1>7, ReaderMoves
  <2>2. rd'.need <= Size
    BY <2>1
  <2>3. QED  BY <2>1, <2>2 DEF NeedsMore, WholePass
<1>8. CASE WCopy
  <2>1. rd' = rd /\ rd.pc # "copy"
    BY <1>8, Calls DEF WCopy, Held
  <2>2. QED  BY <2>1 DEF NeedsMore, WholePass
<1>9. CASE ResetFields
  <2>1. rd' = rd /\ rd.pc = "idle"
    BY <1>9, Calls DEF ResetFields, Quiet, Resetting
  <2>2. QED  BY <2>1 DEF NeedsMore, WholePass
<1>10. CASE \/ WBegin \/ WLock \/ WCheck \/ WSelect \/ WTake \/ WTimeout \/ WExit
            \/ WDone \/ WDoneGive
            \/ AbortRead \/ AbortWrite \/ ResetBegin \/ ResetDrain \/ ResetGive
            \/ UNCHANGED vars
  <2>1. UNCHANGED <<fill, rd>>
    BY <1>10 DEF WBegin, WLock, WCheck, WSelect, WTake, WTimeout, WExit, WDone, WDoneGive,
                 AbortRead, AbortWrite, ResetBegin, ResetCall, ResetDrain, ResetGive, vars, ring
  <2>2. QED  BY <2>1 DEF NeedsMore, WholePass
<1>11. QED  BY <1>2, <1>3, <1>4, <1>5, <1>6, <1>7, <1>8, <1>9, <1>10
                DEF Next, Reader, ReaderGoes, Writer, WriterGoes, Third

\* A writer on its way to wait finds the ring full or a reader on its way out.
LEMMA WriterStuckStep ==
  ASSUME IInv, WInv, rd.need <= Size, WholePass, WriterStuck, [Next]_vars
  PROVE  WriterStuck'
<1>1. /\ rd \in Call /\ wr \in Call /\ writeQ \in WaitQ /\ SetLists(writeQ, wr.pc)
      /\ NeedsMore(wr)
  BY Calls DEF WInv, SetsMatch
<1>2. fill \in 0 .. Size /\ rd.total \in Nat /\ rd.size \in Nat /\ rd.need \in Nat
  BY Numbers DEF IInv, FilledSlots
<1>3. CASE WLock
  <2>1. WriteSize = 0 => fill = Size
    <3>1. wr.need > 0 /\ wr.need \in Nat
      BY <1>1, <1>3 DEF WLock, NeedsMore, Call
    <3>2. QED  BY <1>2, <3>1, NoRoom
  <2>2. fill' = fill
    BY <1>3 DEF WLock, ring
  <2>3. QED  BY <1>1, <1>3, <2>1, <2>2, WriterMoves DEF WriterStuck, Looking
<1>4. CASE WCheck
  <2>1. UNCHANGED <<fill, writeQ, rd>> /\ wr.pc = "check"
    BY <1>4 DEF WCheck, ring
  <2>2. QED  BY <2>1 DEF WriterStuck, Looking
<1>5. CASE WBegin \/ WCopy \/ WSelect \/ WTake \/ WTimeout \/ WExit \/ WDone \/ WDoneGive
  <2>1. WSelect => Head(writeQ.set) \in Members
    BY <1>1, WaitQLemma DEF WSelect
  <2>2. wr'.pc \notin {"check", "claim"}
    BY <1>1, <1>5, <2>1, WriterMoves DEF Members
  <2>3. QED  BY <2>2 DEF WriterStuck, Looking
<1>6. CASE RCopy
  <2>1. rd.pc = "copy" /\ rd.size \in 1 .. fill /\ UNCHANGED <<wr, writeQ>>
    BY <1>6, Calls DEF RCopy, Held
  <2>2. /\ rd'.total = rd.total + rd.size
        /\ rd'.pc = IF rd.size = rd.need THEN "exit" ELSE "lock"
    BY <1>1, <1>6, ReaderMoves
  <2>3. fill = Size => rd'.pc = "exit" /\ rd'.total > 0
    BY <1>2, <2>1, <2>2 DEF WholePass
  <2>4. QED  BY <2>1, <2>3 DEF WriterStuck, Looking
<1>7. CASE RExit
  <2>1. UNCHANGED <<fill, wr>> /\ (IF rd.total > 0 THEN writeQ' = Give(writeQ) ELSE writeQ' = writeQ)
    BY <1>7 DEF RExit, ring
  <2>2. QED  BY <1>1, <2>1, ListsGive DEF WriterStuck, Looking
<1>8. CASE RBegin \/ RLock \/ RCheck \/ RSelect \/ RTake \/ RTimeout
  <2>1. UNCHANGED <<fill, wr, writeQ>> /\ rd.pc # "exit"
    BY <1>8 DEF RBegin, RLock, RCheck, RSelect, RTake, RTimeout, ring, Members
  <2>2. QED  BY <2>1 DEF WriterStuck, Looking
<1>9. CASE ResetFields \/ ResetDrain
  <2>1. wr' = wr /\ wr.pc = "idle"
    BY <1>9, Calls DEF ResetFields, ResetDrain, Quiet, Resetting
  <2>2. QED  BY <2>1 DEF WriterStuck, Looking
<1>10. CASE AbortRead \/ AbortWrite \/ ResetBegin \/ ResetGive \/ UNCHANGED vars
  <2>1. UNCHANGED <<fill, rd, wr>> /\ writeQ' \in {writeQ, Give(writeQ), SendAbort(writeQ)}
    BY <1>10 DEF AbortRead, AbortWrite, ResetBegin, ResetCall, ResetGive, vars, ring
  <2>2. writeQ.sem => writeQ'.sem
    BY <1>1, <2>1, SemKept
  <2>3. QED  BY <2>1, <2>2 DEF WriterStuck, Looking
<1>11. QED  BY <1>3, <1>4, <1>5, <1>6, <1>7, <1>8, <1>9, <1>10
                DEF Next, Reader, ReaderGoes, Writer, WriterGoes, Third

\* So the joint invariant holds where reads fit.
LEMMA JointInvariance == ASSUME ReadsFit PROVE Spec => []JInv
<1>1. Init => JInv
  <2> SUFFICES ASSUME Init PROVE JInv
    OBVIOUS
  <2>1. rd.need = 0 /\ rd.pc = "idle" /\ wr.pc = "idle"
    BY DEF Init, Idle
  <2>2. rd.need <= Size
    BY <2>1
  <2>3. QED  BY <2>1, <2>2 DEF JInv, NeedsMore, WholePass, WriterStuck, Looking
<1>2. IInv /\ WInv /\ JInv /\ [Next]_vars => JInv'
  BY ReadNeedsStep, WriterStuckStep DEF JInv
<1>3. QED  BY <1>1, <1>2, Invariance, Wakes, PTL DEF Spec

(* No wake-up of rb_read or rb_write is lost, and the two sides never wait *)
(* for each other with none under way, as long as no reader asks for more  *)
(* at a time than the ring holds.                                          *)
THEOREM NoWakeUpIsLost == ASSUME ReadsFit PROVE Spec => []NoWakeUpLost
<1>1. IInv /\ WInv /\ JInv => NoJointSleep
  <2> SUFFICES ASSUME IInv, WInv, JInv, ReaderAsleep, WriterAsleep PROVE FALSE
    BY DEF NoJointSleep
  <2>1. ~readQ.sem /\ ~writeQ.sem
    BY Calls, SleepersWait DEF WInv, SetsMatch, ReaderAsleep, WriterAsleep
  <2>2. fill = Size /\ ReadSize = 0 /\ rd.need > 0
    BY <2>1 DEF WInv, JInv, ReaderCause, WriterStuck, NeedsMore, Looking,
                ReaderAsleep, WriterAsleep
  <2>3. ReadSize = rd.need
    BY <2>2, Numbers DEF JInv, ReadSize, IInv
  <2>4. QED  BY <2>2, <2>3
<1>2. QED
  BY <1>1, WaitsHaveCause, TypeCorrect, Invariance, Wakes, JointInvariance, PTL DEF NoWakeUpLost
=============================================================================
