------------------------------ MODULE DeviceProofs ------------------------------
(***************************************************************************)
(* The two clocks of the application, for any number of failures: which of *)
(* them is right at each place of the two tasks; and the display, for any  *)
(* number of tubes and prints: what the chip has made of a print so far,   *)
(* change by change of the pins. Devices takes its time part and its       *)
(* display part as they are here, ClockInit and ClockNext, DisplayInit and *)
(* DisplayNext.                                                            *)
(***************************************************************************)
EXTENDS RealTimeClock, SegmentDisplay, SequenceTheorems, WellFoundedInduction, TLAPS

Places == {"idle", "prepare", "write", "init", "read", "reinit", "back", "restart"}
Chips == [right : BOOLEAN, lost : BOOLEAN]
Systems == [right : BOOLEAN, init : BOOLEAN]
ClockTypes ==
  chip \in Chips /\ system \in Systems /\ pc \in [Tasks -> Places] /\ failures \in Nat /\ unknown \in BOOLEAN
\* The system's clock has been set by the chip's, which a task that got so far has initialised.
Initialised ==
  /\ system.right => system.init
  /\ \A t \in Tasks : pc[t] \in {"write", "read", "back"} => system.init
\* While the time is known, a clock is right that makes the other right: the chip's while the system's is to be set
\* or about to start, and the system's while the chip's is to be written.
Known ==
  /\ chip.right \/ chip.lost
  /\ ~system.right => chip.right /\ \E t \in Tasks : pc[t] \in {"init", "read"}
  /\ \A t \in Tasks : pc[t] \in {"reinit", "back"} => system.right
  /\ \A t \in Tasks : pc[t] = "restart" => chip.right
ClockInv ==
  /\ ClockTypes /\ Initialised
  /\ chip.right => ~chip.lost
  /\ ~unknown => Known

LEMMA StartedIs == Started \in [Tasks -> Places] /\ Started["view"] = "init" /\ Started["keys"] = "idle"
<1>1. /\ \A t \in Tasks : t = "view" \/ t = "keys"
      /\ Started = [t \in Tasks |-> IF t = "view" THEN "init" ELSE "idle"]
  BY DEF Started, Tasks
<1> QED
  BY <1>1 DEF Places, Tasks
LEMMA ClockInitInv == ClockInit => ClockInv
<1> SUFFICES ASSUME ClockInit PROVE ClockInv
  OBVIOUS
<1>1. PICK l \in BOOLEAN : chip = [right |-> ~l, lost |-> l]
  BY DEF ClockInit
<1>2. chip \in Chips /\ chip.right = ~l /\ chip.lost = l
  BY <1>1 DEF Chips
<1>3. system \in Systems /\ system.right = FALSE /\ pc = Started /\ failures = 0 /\ unknown = l
  BY <1>2 DEF ClockInit, Systems
<1>4. pc \in [Tasks -> Places] /\ pc["view"] = "init" /\ \A t \in Tasks : pc[t] \in {"init", "idle"}
  BY <1>3, StartedIs DEF Tasks
<1>5. "view" \in Tasks
  BY DEF Tasks
<1>6. ClockTypes /\ Initialised
  BY <1>2, <1>3, <1>4 DEF ClockTypes, Initialised
<1>7. ~unknown => Known
  BY <1>2, <1>3, <1>4, <1>5 DEF Known
<1> QED
  BY <1>2, <1>6, <1>7 DEF ClockInv

\* A task goes from one place to another.
LEMMA GotoIs ==
  ASSUME ClockTypes, NEW t \in Tasks, NEW p \in Places, Goto(t, p)
  PROVE  pc' \in [Tasks -> Places] /\ pc'[t] = p /\ \A u \in Tasks : u # t => pc'[u] = pc[u]
  BY DEF ClockTypes, Goto
\* A failure that leaves the time known finds both clocks right, and no restart due.
LEMMA FailureIs ==
  ASSUME ClockTypes, Failure
  PROVE  /\ failures' \in Nat /\ unknown' \in BOOLEAN
         /\ ~unknown' => ~unknown /\ chip.right /\ system.right /\ \A t \in Tasks : pc[t] # "restart"
<1> DEFINE bad == unknown \/ ~chip.right \/ ~system.right \/ \E t \in Tasks : pc[t] = "restart"
<1>1. bad \in BOOLEAN /\ failures + 1 \in Nat
  BY DEF ClockTypes
<1>2. unknown' = bad /\ failures' = failures + 1
  BY DEF Failure
<1> QED
  BY <1>1, <1>2

\* What a step has to keep, when it takes a task from one place to another.
LEMMA Keeps ==
  ASSUME ClockInv, chip' \in Chips, system' \in Systems, failures' \in Nat, unknown' \in BOOLEAN,
         NEW t \in Tasks, NEW p \in Places, Goto(t, p),
         system'.right => system'.init, system.init => system'.init, p \in {"write", "read", "back"} => system'.init,
         chip'.right => ~chip'.lost,
         ~unknown' => /\ ~unknown /\ chip'.right = chip.right /\ chip'.lost = chip.lost /\ system'.right = system.right
                      /\ p \in {"reinit", "back"} => system.right
                      /\ p = "restart" => chip.right
                      /\ ~system.right => p \in {"init", "read"} \/ pc[t] \notin {"init", "read"}
  PROVE  ClockInv'
<1>0. ClockTypes /\ Initialised
  BY DEF ClockInv
<1>1. pc' \in [Tasks -> Places] /\ pc'[t] = p /\ \A u \in Tasks : u # t => pc'[u] = pc[u]
  BY <1>0, GotoIs
<1>2. ClockTypes'
  BY <1>1 DEF ClockTypes
<1>3. Initialised'
  BY <1>0, <1>1 DEF Initialised
<1>4. ~unknown' => Known'
  <2> SUFFICES ASSUME ~unknown' PROVE Known'
    OBVIOUS
  <2>1. Known /\ chip'.right = chip.right /\ chip'.lost = chip.lost /\ system'.right = system.right
    BY DEF ClockInv
  <2>2. ~system.right => \E u \in Tasks : pc'[u] \in {"init", "read"}
    <3> SUFFICES ASSUME ~system.right PROVE \E u \in Tasks : pc'[u] \in {"init", "read"}
      OBVIOUS
    <3>1. CASE p \in {"init", "read"}
      BY <1>1, <3>1
    <3>2. CASE p \notin {"init", "read"}
      <4>1. PICK u \in Tasks : pc[u] \in {"init", "read"}
        BY <2>1 DEF Known
      <4>2. u # t
        BY <3>2, <4>1
      <4> QED
        BY <1>1, <4>1, <4>2
    <3> QED
      BY <3>1, <3>2
  <2>3. \A u \in Tasks : (pc'[u] \in {"reinit", "back"} => system.right) /\ (pc'[u] = "restart" => chip.right)
    <3>1. ASSUME NEW u \in Tasks
          PROVE  (pc'[u] \in {"reinit", "back"} => system.right) /\ (pc'[u] = "restart" => chip.right)
      <4>1. CASE u = t
        BY <1>1, <4>1
      <4>2. CASE u # t
        BY <1>1, <2>1, <4>2 DEF Known
      <4> QED
        BY <4>1, <4>2
    <3> QED
      BY <3>1
  <2> QED
    BY <2>1, <2>2, <2>3 DEF Known
<1> QED
  BY <1>2, <1>3, <1>4 DEF ClockInv

LEMMA SetTimeInv == ASSUME ClockInv, NEW t \in Tasks, SetTime(t) PROVE ClockInv'
<1>1. /\ ClockTypes /\ Initialised /\ Goto(t, "prepare") /\ chip' = chip /\ system' = system /\ failures' = failures
      /\ unknown' = unknown /\ pc[t] = "idle" /\ "prepare" \in Places
  BY DEF ClockInv, SetTime, Works, Places
<1>2. chip' \in Chips /\ system' \in Systems /\ failures' \in Nat /\ unknown' \in BOOLEAN
  BY <1>1 DEF ClockTypes
<1> QED
  BY <1>1, <1>2, Keeps DEF ClockInv, Initialised
LEMMA SyncTimeInv == ClockInv /\ SyncTime => ClockInv'
<1> SUFFICES ASSUME ClockInv, SyncTime PROVE ClockInv'
  OBVIOUS
<1>1. /\ ClockTypes /\ Initialised /\ Goto("view", "init") /\ chip' = chip /\ system' = system /\ failures' = failures
      /\ unknown' = unknown /\ pc["view"] = "idle" /\ "init" \in Places /\ "view" \in Tasks
  BY DEF ClockInv, SyncTime, Works, Places, Tasks
<1>2. chip' \in Chips /\ system' \in Systems /\ failures' \in Nat /\ unknown' \in BOOLEAN
  BY <1>1 DEF ClockTypes
<1> QED
  BY <1>1, <1>2, Keeps DEF ClockInv, Initialised

\* PCF_Init: it fails only before it was through once, and then the system's clock is not right yet.
LEMMA PcfInitInv ==
  ASSUME ClockInv, NEW t \in Tasks, NEW from, NEW ok, NEW failed,
         \/ from = "prepare" /\ ok = "write" /\ failed = "init"
         \/ from = "init" /\ ok = "read" /\ failed = "reinit"
         \/ from = "reinit" /\ ok = "back" /\ failed = "restart",
         PcfInit(t, from, ok, failed)
  PROVE  ClockInv'
<1>0. ClockTypes /\ Initialised /\ pc[t] = from /\ chip' = chip /\ ok \in Places /\ failed \in Places /\ chip \in Chips
      /\ system \in Systems
  BY DEF ClockInv, PcfInit, Places, ClockTypes
<1>1. CASE Goto(t, ok) /\ system' = [system EXCEPT !.init = TRUE] /\ Works
  <2>1. /\ system' \in Systems /\ system'.init = TRUE /\ system'.right = system.right
        /\ failures' \in Nat /\ unknown' \in BOOLEAN /\ unknown' = unknown
    BY <1>0, <1>1 DEF Systems, Works, ClockTypes
  <2>2. ~unknown' => /\ ~unknown
                     /\ ok \in {"reinit", "back"} => system.right
                     /\ ok = "restart" => chip.right
                     /\ ~system.right => ok \in {"init", "read"} \/ pc[t] \notin {"init", "read"}
    <3>1. ~unknown => (pc[t] \in {"reinit", "back"} => system.right)
      BY DEF ClockInv, Known
    <3> QED
      BY <1>0, <2>1, <3>1
  <2> QED
    BY <1>0, <1>1, <2>1, <2>2, Keeps DEF ClockInv
<1>2. CASE ~system.init /\ Failure /\ Goto(t, failed) /\ system' = system
  <2>1. ~system.right
    BY <1>0, <1>2 DEF Initialised
  <2>2. failures' \in Nat /\ unknown' \in BOOLEAN /\ unknown'
    BY <1>0, <1>2, <2>1, FailureIs
  <2>3. failed \notin {"write", "read", "back"}
    OBVIOUS
  <2> QED
    BY <1>0, <1>2, <2>1, <2>2, <2>3, Keeps DEF ClockInv
<1> QED
  BY <1>1, <1>2 DEF PcfInit

\* The chip's time is right, unless the other task is about to write the system's over it.
LEMMA WriteTimeInv == ASSUME ClockInv, NEW t \in Tasks, WriteTime(t) PROVE ClockInv'
<1>0. /\ ClockTypes /\ Initialised /\ pc[t] = "write" /\ Goto(t, "init") /\ "init" \in Places /\ chip \in Chips
      /\ system \in Systems
  BY DEF ClockInv, WriteTime, Places, ClockTypes
<1>1. CASE /\ chip' = [right |-> TRUE, lost |-> FALSE]
           /\ system' = [system EXCEPT !.right = FALSE]
           /\ unknown' = (\E u \in Tasks \ {t} : pc[u] \in {"reinit", "back"})
           /\ UNCHANGED failures
  <2>1. chip' \in Chips /\ chip'.right = TRUE /\ chip'.lost = FALSE
    BY <1>1 DEF Chips
  <2>2. system' \in Systems /\ system'.right = FALSE /\ system'.init = system.init
    BY <1>0, <1>1 DEF Systems
  <2>3. pc' \in [Tasks -> Places] /\ pc'[t] = "init" /\ \A u \in Tasks : u # t => pc'[u] = pc[u]
    BY <1>0, GotoIs
  <2>4. ClockTypes'
    BY <1>0, <1>1, <2>1, <2>2, <2>3 DEF ClockTypes
  <2>5. Initialised'
    BY <1>0, <2>2, <2>3 DEF Initialised
  <2>6. ~unknown' => Known'
    <3> SUFFICES ASSUME ~unknown' PROVE Known'
      OBVIOUS
    <3>1. \A u \in Tasks : u # t => pc[u] \notin {"reinit", "back"}
      BY <1>1
    <3>2. \A u \in Tasks : pc'[u] \notin {"reinit", "back"}
      BY <2>3, <3>1
    <3> QED
      BY <2>1, <2>3, <3>2 DEF Known
  <2> QED
    BY <2>1, <2>4, <2>5, <2>6 DEF ClockInv
<1>2. CASE Failure /\ UNCHANGED <<chip, system>>
  <2>1. failures' \in Nat /\ unknown' \in BOOLEAN /\ (~unknown' => ~unknown)
    BY <1>0, <1>2, FailureIs
  <2> QED
    BY <1>0, <1>2, <2>1, Keeps DEF ClockInv, Initialised
<1> QED
  BY <1>1, <1>2 DEF WriteTime

\* A chip that does not say that its time is lost has it right.
LEMMA ReadTimeInv == ASSUME ClockInv, NEW t \in Tasks, ReadTime(t) PROVE ClockInv'
<1>0. /\ ClockTypes /\ Initialised /\ pc[t] = "read" /\ chip' = chip /\ chip \in Chips /\ system \in Systems
      /\ "reinit" \in Places /\ "idle" \in Places
  BY DEF ClockInv, ReadTime, Places, ClockTypes
<1>1. CASE ~chip.lost /\ system' = [system EXCEPT !.right = chip.right] /\ Goto(t, "idle") /\ Works
  <2>0. chip.right \in BOOLEAN
    BY <1>0 DEF Chips
  <2>1. system' \in Systems /\ system'.right = chip.right /\ system'.init = system.init /\ system.init
    BY <1>0, <1>1, <2>0 DEF Systems, Initialised
  <2>2. pc' \in [Tasks -> Places] /\ pc'[t] = "idle" /\ \A u \in Tasks : u # t => pc'[u] = pc[u]
    BY <1>0, <1>1, GotoIs
  <2>3. ClockTypes' /\ unknown' = unknown
    BY <1>0, <1>1, <2>1, <2>2 DEF ClockTypes, Works
  <2>4. Initialised'
    BY <2>1 DEF Initialised
  <2>5. ~unknown' => Known'
    <3> SUFFICES ASSUME ~unknown' PROVE Known'
      OBVIOUS
    <3>1. Known /\ chip.right
      BY <1>1, <2>3 DEF ClockInv, Known
    <3>2. system'.right
      BY <2>1, <3>1
    <3>3. \A u \in Tasks : pc'[u] = "restart" => chip.right
      BY <3>1
    <3> QED
      BY <1>0, <3>1, <3>2, <3>3 DEF Known
  <2> QED
    BY <1>0, <2>3, <2>4, <2>5 DEF ClockInv
<1>2. CASE chip.lost /\ Goto(t, "reinit") /\ UNCHANGED system /\ Works
  <2>1. failures' \in Nat /\ unknown' \in BOOLEAN /\ unknown' = unknown
    BY <1>0, <1>2 DEF Works, ClockTypes
  <2>2. ~unknown => system.right
    BY <1>2 DEF ClockInv, Known
  <2> QED
    BY <1>0, <1>2, <2>1, <2>2, Keeps DEF ClockInv, Initialised
<1>3. CASE Failure /\ Goto(t, "reinit") /\ UNCHANGED system
  <2>1. failures' \in Nat /\ unknown' \in BOOLEAN /\ (~unknown' => ~unknown /\ system.right)
    BY <1>0, <1>3, FailureIs
  <2> QED
    BY <1>0, <1>3, <2>1, Keeps DEF ClockInv, Initialised
<1> QED
  BY <1>1, <1>2, <1>3 DEF ReadTime

\* The system's time is only written back while it is right.
LEMMA WriteBackInv == ASSUME ClockInv, NEW t \in Tasks, WriteBack(t) PROVE ClockInv'
<1>0. /\ ClockTypes /\ Initialised /\ pc[t] = "back" /\ Goto(t, "restart") /\ "restart" \in Places /\ chip \in Chips
      /\ system \in Systems /\ system' = system /\ system.right \in BOOLEAN
  BY DEF ClockInv, WriteBack, Places, ClockTypes, Systems
<1>1. CASE chip' = [right |-> system.right, lost |-> FALSE] /\ Works
  <2>1. chip' \in Chips /\ chip'.right = system.right /\ chip'.lost = FALSE
    BY <1>0, <1>1 DEF Chips
  <2>2. pc' \in [Tasks -> Places] /\ pc'[t] = "restart" /\ \A u \in Tasks : u # t => pc'[u] = pc[u]
    BY <1>0, GotoIs
  <2>3. ClockTypes' /\ unknown' = unknown
    BY <1>0, <1>1, <2>1, <2>2 DEF ClockTypes, Works
  <2>4. Initialised'
    BY <1>0, <2>2 DEF Initialised
  <2>5. ~unknown' => Known'
    <3> SUFFICES ASSUME ~unknown' PROVE Known'
      OBVIOUS
    <3>1. system.right
      BY <1>0, <2>3 DEF ClockInv, Known
    <3> QED
      BY <1>0, <2>1, <3>1 DEF Known
  <2> QED
    BY <2>1, <2>3, <2>4, <2>5 DEF ClockInv
<1>2. CASE Failure /\ UNCHANGED chip
  <2>1. failures' \in Nat /\ unknown' \in BOOLEAN /\ (~unknown' => ~unknown /\ chip.right /\ system.right)
    BY <1>0, <1>2, FailureIs
  <2> QED
    BY <1>0, <1>2, <2>1, Keeps DEF ClockInv, Initialised
<1> QED
  BY <1>1, <1>2 DEF WriteBack

\* Who starts over sets the system's clock by the chip's first.
LEMMA RestartInv == ASSUME ClockInv, NEW t \in Tasks, Restart(t) PROVE ClockInv'
<1>0. /\ ClockTypes /\ pc[t] = "restart" /\ system' = [right |-> FALSE, init |-> FALSE] /\ pc' = Started /\ chip' = chip
      /\ failures' = failures /\ unknown' = unknown
  BY DEF ClockInv, Restart, Works
<1>1. system' \in Systems /\ system'.right = FALSE
  BY <1>0 DEF Systems
<1>2. pc' \in [Tasks -> Places] /\ "view" \in Tasks /\ pc'["view"] = "init" /\ \A u \in Tasks : pc'[u] \in {"init", "idle"}
  BY <1>0, StartedIs DEF Tasks
<1>3. ClockTypes'
  BY <1>0, <1>1, <1>2 DEF ClockTypes
<1>4. Initialised'
  BY <1>1, <1>2 DEF Initialised
<1>5. ~unknown' => Known'
  <2> SUFFICES ASSUME ~unknown' PROVE Known'
    OBVIOUS
  <2>1. chip.right
    BY <1>0 DEF ClockInv, Known
  <2> QED
    BY <1>0, <1>2, <2>1 DEF Known
<1> QED
  BY <1>0, <1>3, <1>4, <1>5 DEF ClockInv

LEMMA PowerLossInv == ClockInv /\ PowerLoss => ClockInv'
<1> SUFFICES ASSUME ClockInv, PowerLoss PROVE ClockInv'
  OBVIOUS
<1>0. /\ ClockTypes /\ Failure /\ chip' = [right |-> FALSE, lost |-> TRUE] /\ system' = system /\ pc' = pc /\ Initialised
  BY DEF ClockInv, PowerLoss
<1>1. chip' \in Chips /\ chip'.right = FALSE /\ chip'.lost = TRUE
  BY <1>0 DEF Chips
<1>2. /\ failures' \in Nat /\ unknown' \in BOOLEAN
      /\ ~unknown' => ~unknown /\ system.right /\ \A t \in Tasks : pc[t] # "restart"
  BY <1>0, FailureIs
<1>3. ClockTypes' /\ Initialised'
  BY <1>0, <1>1, <1>2 DEF ClockTypes, Initialised
<1>4. ~unknown' => Known'
  BY <1>0, <1>1, <1>2 DEF Known
<1> QED
  BY <1>1, <1>3, <1>4 DEF ClockInv

LEMMA ClockStep == ClockInv /\ [ClockNext]_clocks => ClockInv'
<1> SUFFICES ASSUME ClockInv, [ClockNext]_clocks PROVE ClockInv'
  OBVIOUS
<1>1. CASE UNCHANGED clocks
  BY <1>1 DEF clocks, ClockInv, ClockTypes, Initialised, Known
<1>2. ASSUME NEW t \in Tasks, ClockTask(t) PROVE ClockInv'
  <2>1. PcfInit(t, "prepare", "write", "init") => ClockInv'
    BY PcfInitInv
  <2>2. PcfInit(t, "init", "read", "reinit") => ClockInv'
    BY PcfInitInv
  <2>3. PcfInit(t, "reinit", "back", "restart") => ClockInv'
    BY PcfInitInv
  <2> QED
    BY <1>2, <2>1, <2>2, <2>3, WriteTimeInv, ReadTimeInv, WriteBackInv, RestartInv DEF ClockTask
<1> QED
  BY <1>1, <1>2, SetTimeInv, SyncTimeInv, PowerLossInv DEF ClockNext

LEMMA ClockInvKept == ClockInv => TimeKept
<1> SUFFICES ASSUME ClockInv, ~unknown PROVE TimeKept
  BY DEF TimeKept
<1>1. Known
  BY DEF ClockInv
<1>2. (\A t \in Tasks : pc[t] = "idle") => system.right
  BY <1>1 DEF Known
<1> QED
  BY <1>1, <1>2 DEF Known, TimeKept

\* Whatever transfers fail and however often the tasks start over: a failure costs nothing while both clocks are
\* right and stay up, and a chip that has lost the time says so (PCF8563.c, app_main.c).
THEOREM TimeAlwaysKept == ClockInit /\ [][ClockNext]_clocks => []TimeKept
<1>1. ClockInv => TimeKept
  BY ClockInvKept
<1> QED
  BY ClockInitInv, ClockStep, <1>1, PTL

-----------------------------------------------------------------------------
(* The display. First, numbers and sequences.                             *)

\* A set of naturals that is not empty has a least one.
LEMMA LeastNumber ==
  ASSUME NEW S \in SUBSET Nat, S # {}
  PROVE  \E m \in S : \A x \in S : m <= x
<1> DEFINE R == OpToRel(<, Nat)
<1>1. \A x, y \in Nat : x < y => <<x, y>> \in R
  BY DEF OpToRel
<1>2. IsWellFoundedOn(R, Nat)
  BY NatLessThanWellFounded
<1> HIDE DEF R
<1>3. PICK m \in S : \A x \in S : ~(<<x, m>> \in R)
  BY <1>2, WFMin
<1>4. ASSUME NEW x \in S PROVE m <= x
  <2>1. ~(x < m)
    BY <1>1, <1>3
  <2> QED BY <2>1
<1> QED
  BY <1>4

\* What holds of 0, and of n + 1 with n, holds of all.
LEMMA Induction ==
  ASSUME NEW T, 0 \in T, \A n \in Nat : n \in T => n + 1 \in T
  PROVE  Nat \subseteq T
<1> SUFFICES ASSUME Nat \ T # {} PROVE FALSE
  OBVIOUS
<1>1. PICK m \in Nat \ T : \A k \in Nat \ T : m <= k
  BY LeastNumber
<1>2. m - 1 \in Nat /\ m - 1 + 1 = m /\ m - 1 \notin Nat \ T
  BY <1>1
<1> QED
  BY <1>1, <1>2

-----------------------------------------------------------------------------
(* What a print sends.                                                     *)

\* A concatenation of sequences, step by step.
LEMMA FlatExists ==
  ASSUME NEW n \in Nat, NEW s
  PROVE  \E f : f = [i \in 1 .. n |-> IF i = 1 THEN s[i] ELSE f[i - 1] \o s[i]]
<1> DEFINE P(k) == \E f : f = [i \in 1 .. k |-> IF i = 1 THEN s[i] ELSE f[i - 1] \o s[i]]
           T == {k \in Nat : P(k)}
<1>1. 0 \in T
  <2>1. 1 .. 0 = {}
    OBVIOUS
  <2> DEFINE f == [i \in 1 .. 0 |-> i]
  <2>2. f = [i \in 1 .. 0 |-> IF i = 1 THEN s[i] ELSE f[i - 1] \o s[i]]
    BY <2>1
  <2>3. QED  BY <2>2
<1>2. ASSUME NEW k \in Nat, k \in T PROVE k + 1 \in T
  <2>1. PICK f : f = [i \in 1 .. k |-> IF i = 1 THEN s[i] ELSE f[i - 1] \o s[i]]
    BY <1>2
  <2> DEFINE F(i) == IF i = 1 THEN s[i] ELSE f[i - 1] \o s[i]
             g == [i \in 1 .. k + 1 |-> F(i)]
             G(i) == IF i = 1 THEN s[i] ELSE g[i - 1] \o s[i]
  <2>2. f = [i \in 1 .. k |-> F(i)]
    BY <2>1
  <2>3. \A i \in 1 .. k + 1 : G(i) = F(i)
    <3> HIDE DEF F
    <3>1. \A i \in 1 .. k : g[i] = f[i]
      BY <2>2
    <3>2. ASSUME NEW i \in 1 .. k + 1, i # 1 PROVE g[i - 1] = f[i - 1]
      <4>1. i - 1 \in 1 .. k
        BY <3>2
      <4>2. QED  BY <3>1, <4>1
    <3> HIDE DEF g
    <3>3. QED  BY <3>2 DEF F
  <2>4. g = [i \in 1 .. k + 1 |-> G(i)]
    <3> HIDE DEF F, G
    <3>1. QED  BY <2>3
  <2>5. P(k + 1)
    <3> HIDE DEF g
    <3>1. QED  BY <2>4
  <2> HIDE DEF P
  <2>6. QED  BY <2>5
<1> HIDE DEF T
<1>3. n \in T
  BY <1>1, <1>2, Induction
<1>4. QED  BY <1>3 DEF T

Flattens(n, s, f) ==
  /\ FlattenSeq(s) = f[n] /\ f[1] = s[1]
  /\ \A i \in 2 .. n : f[i] = f[i - 1] \o s[i]

LEMMA FlatSteps ==
  ASSUME NEW n \in Nat \ {0}, NEW s, Len(s) = n
  PROVE  \E f : Flattens(n, s, f)
<1> DEFINE f == CHOOSE g : g = [i \in 1 .. n |-> IF i = 1 THEN s[i] ELSE g[i - 1] \o s[i]]
<1>1. f = [i \in 1 .. n |-> IF i = 1 THEN s[i] ELSE f[i - 1] \o s[i]]
  BY FlatExists
<1>2. FlattenSeq(s) = f[n]
  BY DEF FlattenSeq
<1> HIDE DEF f
<1> DEFINE F(i) == IF i = 1 THEN s[i] ELSE f[i - 1] \o s[i]
<1>3. \A i \in 1 .. n : f[i] = F(i)
  <2>1. f = [i \in 1 .. n |-> F(i)]
    BY <1>1
  <2> HIDE DEF F
  <2>2. QED  BY <2>1
<1>4. f[1] = s[1]
  <2>1. 1 \in 1 .. n /\ F(1) = s[1]
    OBVIOUS
  <2> HIDE DEF F
  <2>2. QED  BY <1>3, <2>1
<1>5. ASSUME NEW i \in 2 .. n PROVE f[i] = f[i - 1] \o s[i]
  <2>1. i \in 1 .. n /\ i # 1
    OBVIOUS
  <2>2. F(i) = f[i - 1] \o s[i]
    BY <2>1
  <2> HIDE DEF F
  <2>3. QED  BY <1>3, <2>1, <2>2
<1> HIDE DEF F
<1>6. Flattens(n, s, f)
  BY <1>2, <1>4, <1>5 DEF Flattens
<1>7. QED  BY <1>6

\* The changes of the pins a print is made of.
Names == {"strobe", "setup", "auto", "addr", "bright", "pad", "time", "mode"}
Changes == Names \X {"low", "high", "first", "second"}
Low == <<"strobe", "low">>
Up == <<"strobe", "high">>
First(b) == <<b, "first">>
Second(b) == <<b, "second">>

\* A sequence that ends with another: where its places are.
IsJoin(u, v, m, n) ==
  /\ u \o v \in Seq(Changes) /\ Len(u \o v) = m + n
  /\ \A a \in 1 .. m : (u \o v)[a] = u[a]
  /\ \A a \in 1 .. n : (u \o v)[m + a] = v[a]

LEMMA JoinAt ==
  ASSUME NEW u \in Seq(Changes), NEW v \in Seq(Changes), NEW m \in Nat, NEW n \in Nat, Len(u) = m, Len(v) = n
  PROVE  IsJoin(u, v, m, n)
<1>1. /\ u \o v \in Seq(Changes) /\ Len(u \o v) = m + n
      /\ \A a \in 1 .. m + n : (u \o v)[a] = IF a <= m THEN u[a] ELSE v[a - m]
  BY ConcatProperties
<1> DEFINE w == u \o v
<1> HIDE DEF w
<1>2. ASSUME NEW a \in 1 .. m PROVE w[a] = u[a]
  BY <1>1 DEF w
<1>3. ASSUME NEW a \in 1 .. n PROVE w[m + a] = v[a]
  <2>1. m + a \in 1 .. m + n /\ ~(m + a <= m) /\ m + a - m = a
    OBVIOUS
  <2> QED BY <1>1, <2>1 DEF w
<1> QED
  BY <1>1, <1>2, <1>3 DEF IsJoin, w

\* The bytes of the tubes up to the n-th, each followed by one for the address between.
IsData(text, s, n) ==
  /\ s \in Seq(Changes) /\ Len(s) = 4 * n
  /\ \A i \in 0 .. n - 1 :
       /\ s[4 * i + 1] = First(text) /\ s[4 * i + 2] = Second(text)
       /\ s[4 * i + 3] = First("pad") /\ s[4 * i + 4] = Second("pad")

LEMMA ByteIs ==
  ASSUME NEW b \in Names
  PROVE  Byte(b) \in Seq(Changes) /\ Len(Byte(b)) = 2 /\ Byte(b)[1] = First(b) /\ Byte(b)[2] = Second(b)
  BY DEF Byte, Changes, First, Second

LEMMA MoreData ==
  ASSUME NEW text, NEW m \in Nat, NEW u, IsData(text, u, m), NEW block \in Seq(Changes), Len(block) = 4,
         block[1] = First(text), block[2] = Second(text), block[3] = First("pad"), block[4] = Second("pad")
  PROVE  IsData(text, u \o block, m + 1)
<1> DEFINE w == u \o block
           M == 4 * m
<1>1. u \in Seq(Changes) /\ Len(u) = M /\ M \in Nat /\ 4 * (m + 1) = M + 4
  BY DEF IsData
<1>2. IsJoin(u, block, M, 4)
  <2> HIDE DEF M
  <2> QED BY <1>1, JoinAt
<1>3. /\ w \in Seq(Changes) /\ Len(w) = M + 4
      /\ \A a \in 1 .. M : w[a] = u[a]
      /\ \A a \in 1 .. 4 : w[M + a] = block[a]
  BY <1>2 DEF IsJoin
<1> HIDE DEF w
<1>4. ASSUME NEW i \in 0 .. m
      PROVE  /\ w[4 * i + 1] = First(text) /\ w[4 * i + 2] = Second(text)
             /\ w[4 * i + 3] = First("pad") /\ w[4 * i + 4] = Second("pad")
  <2>1. CASE i \in 0 .. m - 1
    <3>1. {4 * i + 1, 4 * i + 2, 4 * i + 3, 4 * i + 4} \subseteq 1 .. M
      BY <2>1
    <3>2. /\ u[4 * i + 1] = First(text) /\ u[4 * i + 2] = Second(text)
          /\ u[4 * i + 3] = First("pad") /\ u[4 * i + 4] = Second("pad")
      BY <2>1 DEF IsData
    <3> HIDE DEF M
    <3> QED BY <1>3, <3>1, <3>2
  <2>2. CASE i = m
    <3>1. 4 * i = M
      BY <2>2
    <3>2. /\ w[M + 1] = First(text) /\ w[M + 2] = Second(text)
          /\ w[M + 3] = First("pad") /\ w[M + 4] = Second("pad")
      <4> HIDE DEF M
      <4> QED BY <1>3
    <3> QED BY <3>1, <3>2
  <2> QED BY <2>1, <2>2
<1>5. m + 1 - 1 = m
  OBVIOUS
<1>6. IsData(text, w, m + 1)
  <2> HIDE DEF M
  <2> QED BY <1>1, <1>3, <1>4, <1>5 DEF IsData
<1> QED
  BY <1>6 DEF w

LEMMA DataIs == ASSUME NEW text \in {"time", "mode"} PROVE IsData(text, Data(text), Tubes)
<1> DEFINE block == Byte(text) \o Byte("pad")
           s == [i \in 1 .. Tubes |-> block]
<1>1. /\ block \in Seq(Changes) /\ Len(block) = 4 /\ block[1] = First(text) /\ block[2] = Second(text)
      /\ block[3] = First("pad") /\ block[4] = Second("pad")
  <2>1. text \in Names /\ "pad" \in Names
    BY DEF Names
  <2>2. IsJoin(Byte(text), Byte("pad"), 2, 2)
    BY <2>1, ByteIs, JoinAt
  <2>3. block \in Seq(Changes) /\ Len(block) = 4
    BY <2>2 DEF IsJoin
  <2>4. block[1] = Byte(text)[1] /\ block[2] = Byte(text)[2]
    BY <2>2 DEF IsJoin
  <2>5. block[2 + 1] = Byte("pad")[1] /\ block[2 + 2] = Byte("pad")[2]
    BY <2>2 DEF IsJoin
  <2> HIDE DEF block
  <2> QED BY <2>1, <2>3, <2>4, <2>5, ByteIs
<1>2. Tubes \in Nat \ {0}
  BY DisplayBounds
<1> HIDE DEF block
<1>3. Len(s) = Tubes /\ \A i \in 1 .. Tubes : s[i] = block
  BY <1>2
<1>4. Data(text) = FlattenSeq(s)
  BY DEF Data, block
<1> HIDE DEF s
<1>5. PICK f : Flattens(Tubes, s, f)
  BY <1>2, <1>3, FlatSteps
<1>6. IsData(text, f[1], 1)
  <2>1. f[1] = block
    BY <1>2, <1>3, <1>5 DEF Flattens
  <2> QED BY <1>1, <2>1 DEF IsData
<1>7. ASSUME NEW j \in 2 .. Tubes, IsData(text, f[j - 1], j - 1) PROVE IsData(text, f[j], j)
  <2>1. j \in 1 .. Tubes /\ j - 1 \in Nat /\ j - 1 + 1 = j
    BY <1>2
  <2>2. f[j] = f[j - 1] \o s[j]
    BY <1>5 DEF Flattens
  <2>3. s[j] = block
    BY <1>3, <2>1
  <2> DEFINE u == f[j - 1]
             w == f[j]
  <2>4. w = u \o block
    BY <2>2, <2>3
  <2>5. IsData(text, u, j - 1)
    BY <1>7
  <2> HIDE DEF u, w
  <2>6. IsData(text, u \o block, j - 1 + 1)
    BY <1>1, <2>1, <2>5, MoreData
  <2>7. IsData(text, w, j)
    BY <2>1, <2>4, <2>6
  <2> QED BY <2>7 DEF w
<1> DEFINE D(k) == k + 1 <= Tubes => IsData(text, f[k + 1], k + 1)
           T == {k \in Nat : D(k)}
<1>8. Tubes - 1 \in T
  <2>1. 0 \in T
    <3>1. f[0 + 1] = f[1] /\ 0 + 1 = 1
      OBVIOUS
    <3> QED BY <1>6, <3>1
  <2>2. ASSUME NEW k \in Nat, k \in T PROVE k + 1 \in T
    <3>1. k + 1 + 1 = k + 2 /\ (k + 2 <= Tubes => k + 1 <= Tubes)
      BY <1>2
    <3>2. D(k)
      BY <2>2
    <3>3. D(k + 1)
      <4>1. SUFFICES ASSUME k + 2 <= Tubes PROVE IsData(text, f[k + 1 + 1], k + 1 + 1)
        BY <3>1
      <4>2. k + 2 \in 2 .. Tubes /\ k + 2 - 1 = k + 1
        BY <1>2, <4>1
      <4>3. IsData(text, f[k + 2 - 1], k + 2 - 1)
        BY <3>1, <3>2, <4>1, <4>2
      <4>4. IsData(text, f[k + 2], k + 2)
        BY <1>7, <4>2, <4>3
      <4> QED BY <3>1, <4>4
    <3> HIDE DEF D
    <3> QED BY <3>3
  <2>3. Tubes - 1 \in Nat
    BY <1>2
  <2> HIDE DEF T
  <2> QED BY <2>1, <2>2, <2>3, Induction
<1>9. IsData(text, f[Tubes], Tubes)
  <2>1. D(Tubes - 1) /\ Tubes - 1 + 1 = Tubes
    BY <1>2, <1>8
  <2> QED BY <1>2, <2>1
<1> QED
  BY <1>4, <1>5, <1>9 DEF Flattens

\* A print, change by change: last is the place of the one that ends it.
Last1 == 16 + 4 * Tubes
IsFrames(text, s) ==
  /\ s \in Seq(Changes) /\ Len(s) = Last1
  /\ s[1] = Low /\ s[2] = First("setup") /\ s[3] = Second("setup") /\ s[4] = Up
  /\ s[5] = Low /\ s[6] = First("auto") /\ s[7] = Second("auto") /\ s[8] = Up
  /\ s[9] = Low /\ s[10] = First("addr") /\ s[11] = Second("addr")
  /\ \A i \in 0 .. Tubes - 1 :
       /\ s[4 * i + 12] = First(text) /\ s[4 * i + 13] = Second(text)
       /\ s[4 * i + 14] = First("pad") /\ s[4 * i + 15] = Second("pad")
  /\ s[Last1 - 4] = Up /\ s[Last1 - 3] = Low /\ s[Last1 - 2] = First("bright")
  /\ s[Last1 - 1] = Second("bright") /\ s[Last1] = Up

LEMMA CommandIs ==
  ASSUME NEW b \in Names
  PROVE  /\ Command(b) \in Seq(Changes) /\ Len(Command(b)) = 3
         /\ Command(b)[1] = Low /\ Command(b)[2] = First(b) /\ Command(b)[3] = Second(b)
<1> DEFINE low == <<<<"strobe", "low">>>>
<1>1. low \in Seq(Changes) /\ Len(low) = 1 /\ low[1] = Low
  BY DEF Changes, Names, Low
<1> HIDE DEF low
<1>2. IsJoin(low, Byte(b), 1, 2)
  BY <1>1, ByteIs, JoinAt
<1>3. Command(b) = low \o Byte(b)
  BY DEF Command, low
<1> DEFINE c == Command(b)
<1>4. /\ c \in Seq(Changes) /\ Len(c) = 3 /\ c[1] = low[1] /\ c[1 + 1] = Byte(b)[1] /\ c[1 + 2] = Byte(b)[2]
  BY <1>2, <1>3 DEF IsJoin
<1> HIDE DEF c
<1>5. c[2] = Byte(b)[1] /\ c[3] = Byte(b)[2]
  BY <1>4
<1> QED
  BY <1>1, <1>4, <1>5, ByteIs DEF c

LEMMA HighIs == High \in Seq(Changes) /\ Len(High) = 1 /\ High[1] = Up
  BY DEF High, Changes, Names, Up

LEMMA FramesAre == ASSUME NEW text \in {"time", "mode"} PROVE IsFrames(text, Frames(text))
<1> DEFINE T == 4 * Tubes
           s1 == Command("setup") \o High
           s2 == s1 \o Command("auto")
           s3 == s2 \o High
           s4 == s3 \o Command("addr")
           s5 == s4 \o Data(text)
           s6 == s5 \o High
           s7 == s6 \o Command("bright")
           s8 == s7 \o High
<1>0. {"setup", "auto", "addr", "bright"} \subseteq Names /\ Tubes \in Nat /\ T \in Nat
  BY DisplayBounds DEF Names
<1>1. IsJoin(Command("setup"), High, 3, 1)
  BY <1>0, CommandIs, HighIs, JoinAt
<1>2. IsJoin(s1, Command("auto"), 4, 3)
  <2>1. s1 \in Seq(Changes) /\ Len(s1) = 4
    BY <1>1 DEF IsJoin
  <2> HIDE DEF s1
  <2> QED BY <1>0, <2>1, CommandIs, JoinAt
<1>3. IsJoin(s2, High, 7, 1)
  <2>1. s2 \in Seq(Changes) /\ Len(s2) = 7
    BY <1>2 DEF IsJoin
  <2> HIDE DEF s2
  <2> QED BY <2>1, HighIs, JoinAt
<1>4. IsJoin(s3, Command("addr"), 8, 3)
  <2>1. s3 \in Seq(Changes) /\ Len(s3) = 8
    BY <1>3 DEF IsJoin
  <2> HIDE DEF s3
  <2> QED BY <1>0, <2>1, CommandIs, JoinAt
<1>5. IsJoin(s4, Data(text), 11, T)
  <2>1. s4 \in Seq(Changes) /\ Len(s4) = 11
    BY <1>4 DEF IsJoin
  <2> HIDE DEF s4
  <2>2. Data(text) \in Seq(Changes) /\ Len(Data(text)) = T
    BY DataIs DEF IsData
  <2> HIDE DEF T
  <2> QED BY <1>0, <2>1, <2>2, JoinAt
<1>6. IsJoin(s5, High, 11 + T, 1)
  <2>1. s5 \in Seq(Changes) /\ Len(s5) = 11 + T
    BY <1>5 DEF IsJoin
  <2> HIDE DEF s5, T
  <2>2. 11 + T \in Nat
    BY <1>0
  <2> QED BY <2>1, <2>2, HighIs, JoinAt
<1>7. IsJoin(s6, Command("bright"), 12 + T, 3)
  <2>1. s6 \in Seq(Changes) /\ Len(s6) = 11 + T + 1
    BY <1>6 DEF IsJoin
  <2> HIDE DEF s6, T
  <2>2. 12 + T \in Nat /\ 11 + T + 1 = 12 + T
    BY <1>0
  <2> QED BY <1>0, <2>1, <2>2, CommandIs, JoinAt
<1>8. IsJoin(s7, High, 15 + T, 1)
  <2>1. s7 \in Seq(Changes) /\ Len(s7) = 12 + T + 3
    BY <1>7 DEF IsJoin
  <2> HIDE DEF s7, T
  <2>2. 15 + T \in Nat /\ 12 + T + 3 = 15 + T
    BY <1>0
  <2> QED BY <2>1, <2>2, HighIs, JoinAt
<1>9. Frames(text) = s8
  BY DEF Frames
<1>10. /\ s8 \in Seq(Changes) /\ Len(s8) = 15 + T + 1
       /\ \A a \in 1 .. 15 + T : s8[a] = s7[a]
       /\ \A a \in 1 .. 1 : s8[15 + T + a] = High[a]
  BY <1>8 DEF IsJoin
<1>11. /\ \A a \in 1 .. 12 + T : s7[a] = s6[a]
       /\ \A a \in 1 .. 3 : s7[12 + T + a] = Command("bright")[a]
  BY <1>7 DEF IsJoin
<1>12. /\ \A a \in 1 .. 11 + T : s6[a] = s5[a]
       /\ \A a \in 1 .. 1 : s6[11 + T + a] = High[a]
  BY <1>6 DEF IsJoin
<1>13. /\ \A a \in 1 .. 11 : s5[a] = s4[a]
       /\ \A a \in 1 .. T : s5[11 + a] = Data(text)[a]
  BY <1>5 DEF IsJoin
<1>14. /\ \A a \in 1 .. 8 : s4[a] = s3[a]
       /\ \A a \in 1 .. 3 : s4[8 + a] = Command("addr")[a]
  BY <1>4 DEF IsJoin
<1>15. /\ \A a \in 1 .. 7 : s3[a] = s2[a]
       /\ \A a \in 1 .. 1 : s3[7 + a] = High[a]
  BY <1>3 DEF IsJoin
<1>16. /\ \A a \in 1 .. 4 : s2[a] = s1[a]
       /\ \A a \in 1 .. 3 : s2[4 + a] = Command("auto")[a]
  BY <1>2 DEF IsJoin
<1>17. /\ \A a \in 1 .. 3 : s1[a] = Command("setup")[a]
       /\ \A a \in 1 .. 1 : s1[3 + a] = High[a]
  BY <1>1 DEF IsJoin
<1> HIDE DEF s1, s2, s3, s4, s5, s6, s7, s8
<1>18. /\ s1[1] = Low /\ s1[2] = First("setup") /\ s1[3] = Second("setup") /\ s1[3 + 1] = Up
  BY <1>0, <1>17, CommandIs, HighIs
<1>19. /\ s2[1] = Low /\ s2[2] = First("setup") /\ s2[3] = Second("setup") /\ s2[4] = Up
       /\ s2[4 + 1] = Low /\ s2[4 + 2] = First("auto") /\ s2[4 + 3] = Second("auto")
  <2>1. /\ s2[1] = s1[1] /\ s2[2] = s1[2] /\ s2[3] = s1[3] /\ s2[4] = s1[3 + 1]
    BY <1>16
  <2>2. s2[4 + 1] = Command("auto")[1] /\ s2[4 + 2] = Command("auto")[2] /\ s2[4 + 3] = Command("auto")[3]
    BY <1>16
  <2> QED BY <1>0, <1>18, <2>1, <2>2, CommandIs
<1>20. /\ s4[1] = Low /\ s4[2] = First("setup") /\ s4[3] = Second("setup") /\ s4[4] = Up
       /\ s4[5] = Low /\ s4[6] = First("auto") /\ s4[7] = Second("auto") /\ s4[8] = Up
       /\ s4[9] = Low /\ s4[10] = First("addr") /\ s4[11] = Second("addr")
  <2>1. \A a \in 1 .. 7 : s4[a] = s2[a]
    BY <1>14, <1>15
  <2>2. s4[8] = High[1]
    BY <1>14, <1>15
  <2>3. s4[9] = Command("addr")[1] /\ s4[10] = Command("addr")[2] /\ s4[11] = Command("addr")[3]
    <3>1. s4[8 + 1] = Command("addr")[1] /\ s4[8 + 2] = Command("addr")[2] /\ s4[8 + 3] = Command("addr")[3]
      BY <1>14
    <3> QED BY <3>1
  <2>4. s4[1] = s2[1] /\ s4[2] = s2[2] /\ s4[3] = s2[3] /\ s4[4] = s2[4] /\ s4[5] = s2[4 + 1]
        /\ s4[6] = s2[4 + 2] /\ s4[7] = s2[4 + 3]
    BY <2>1
  <2> QED BY <1>0, <1>19, <2>2, <2>3, <2>4, CommandIs, HighIs
\* What comes before the last commands is where it was.
<1> HIDE DEF T
<1>21. \A a \in 1 .. 11 + T : s8[a] = s5[a]
  <2>1. 1 .. 11 + T \subseteq 1 .. 12 + T /\ 1 .. 11 + T \subseteq 1 .. 15 + T
    BY <1>0
  <2> QED BY <1>10, <1>11, <1>12, <2>1
<1>22. (\A a \in 1 .. 11 : s8[a] = s4[a]) /\ \A a \in 1 .. T : s8[11 + a] = Data(text)[a]
  <2>1. 1 .. 11 \subseteq 1 .. 11 + T /\ \A a \in 1 .. T : 11 + a \in 1 .. 11 + T
    BY <1>0
  <2> QED BY <1>13, <1>21, <2>1
<1>23. s8[12 + T] = Up
  <2>1. 12 + T \in 1 .. 12 + T /\ 12 + T \in 1 .. 15 + T /\ 11 + T + 1 = 12 + T
    BY <1>0
  <2>2. s8[12 + T] = s6[12 + T] /\ s6[11 + T + 1] = High[1]
    BY <1>10, <1>11, <1>12, <2>1
  <2> QED BY <2>1, <2>2, HighIs
<1>24. s8[13 + T] = Low /\ s8[14 + T] = First("bright") /\ s8[15 + T] = Second("bright")
  <2>1. s7[12 + T + 1] = Command("bright")[1] /\ s7[12 + T + 2] = Command("bright")[2]
        /\ s7[12 + T + 3] = Command("bright")[3]
    BY <1>11
  <2>2. s8[12 + T + 1] = s7[12 + T + 1] /\ s8[12 + T + 2] = s7[12 + T + 2] /\ s8[12 + T + 3] = s7[12 + T + 3]
    BY <1>0, <1>10
  <2>3. 12 + T + 1 = 13 + T /\ 12 + T + 2 = 14 + T /\ 12 + T + 3 = 15 + T
    BY <1>0
  <2> QED BY <1>0, <2>1, <2>2, <2>3, CommandIs
<1>25. s8[16 + T] = Up
  <2>1. s8[15 + T + 1] = High[1] /\ 15 + T + 1 = 16 + T
    BY <1>0, <1>10
  <2> QED BY <2>1, HighIs
<1>26. ASSUME NEW i \in 0 .. Tubes - 1
       PROVE  /\ s8[4 * i + 12] = First(text) /\ s8[4 * i + 13] = Second(text)
              /\ s8[4 * i + 14] = First("pad") /\ s8[4 * i + 15] = Second("pad")
  <2> DEFINE d == Data(text)
  <2>1. /\ d[4 * i + 1] = First(text) /\ d[4 * i + 2] = Second(text)
        /\ d[4 * i + 3] = First("pad") /\ d[4 * i + 4] = Second("pad")
    BY DataIs DEF IsData
  <2> HIDE DEF d
  <2>2. {4 * i + 1, 4 * i + 2, 4 * i + 3, 4 * i + 4} \subseteq 1 .. T
    BY <1>0 DEF T
  <2>3. /\ s8[11 + (4 * i + 1)] = d[4 * i + 1] /\ s8[11 + (4 * i + 2)] = d[4 * i + 2]
        /\ s8[11 + (4 * i + 3)] = d[4 * i + 3] /\ s8[11 + (4 * i + 4)] = d[4 * i + 4]
    BY <1>22, <2>2 DEF d
  <2>4. /\ 11 + (4 * i + 1) = 4 * i + 12 /\ 11 + (4 * i + 2) = 4 * i + 13 /\ 11 + (4 * i + 3) = 4 * i + 14
        /\ 11 + (4 * i + 4) = 4 * i + 15
    OBVIOUS
  <2> QED BY <2>1, <2>3, <2>4
<1>27. /\ s8[1] = Low /\ s8[2] = First("setup") /\ s8[3] = Second("setup") /\ s8[4] = Up
       /\ s8[5] = Low /\ s8[6] = First("auto") /\ s8[7] = Second("auto") /\ s8[8] = Up
       /\ s8[9] = Low /\ s8[10] = First("addr") /\ s8[11] = Second("addr")
  BY <1>20, <1>22
<1>28. Last1 = 16 + T /\ Last1 - 4 = 12 + T /\ Last1 - 3 = 13 + T /\ Last1 - 2 = 14 + T /\ Last1 - 1 = 15 + T
       /\ 15 + T + 1 = 16 + T
  BY <1>0 DEF Last1, T
<1>29. s8 \in Seq(Changes) /\ Len(s8) = Last1
  BY <1>10, <1>28
<1> DEFINE s == s8
<1> HIDE DEF s
<1>30. /\ s[Last1 - 4] = Up /\ s[Last1 - 3] = Low /\ s[Last1 - 2] = First("bright")
       /\ s[Last1 - 1] = Second("bright") /\ s[Last1] = Up
  BY <1>23, <1>24, <1>25, <1>28 DEF s
<1>31. /\ s \in Seq(Changes) /\ Len(s) = Last1
       /\ s[1] = Low /\ s[2] = First("setup") /\ s[3] = Second("setup") /\ s[4] = Up
       /\ s[5] = Low /\ s[6] = First("auto") /\ s[7] = Second("auto") /\ s[8] = Up
       /\ s[9] = Low /\ s[10] = First("addr") /\ s[11] = Second("addr")
  BY <1>27, <1>29 DEF s
<1>32. \A i \in 0 .. Tubes - 1 :
     /\ s[4 * i + 12] = First(text) /\ s[4 * i + 13] = Second(text)
     /\ s[4 * i + 14] = First("pad") /\ s[4 * i + 15] = Second("pad")
  BY <1>26 DEF s
<1>33. IsFrames(text, s)
  BY <1>30, <1>31, <1>32 DEF IsFrames
<1> QED
  BY <1>9, <1>33 DEF s

-----------------------------------------------------------------------------
(* What the chip makes of it.                                              *)

Chip == [listens : BOOLEAN, half : Names \union {"none", "noise"}, commanded : BOOLEAN, auto : BOOLEAN,
         addr : Nat, lit : BOOLEAN, tubes : [0 .. Tubes - 1 -> {"noise", "time", "mode"}]]

\* A command of two halves leaves the rest as it was.
Obeyed(b, n) ==
  /\ n \in Chip /\ n.listens = tm1620.listens /\ n.half = "none" /\ n.commanded = TRUE /\ n.tubes = tm1620.tubes
  /\ b # "noise" => /\ n.addr = IF b = "addr" THEN 0 ELSE tm1620.addr
                    /\ (b = "auto" \/ tm1620.auto) => n.auto
                    /\ (b = "bright" \/ tm1620.lit) => n.lit

LEMMA CommandedIs ==
  ASSUME tm1620 \in Chip, NEW b \in Names \union {"noise"}, NEW n \in Commanded(b)
  PROVE  Obeyed(b, n)
<1>1. PICK kept \in BOOLEAN :
        n = [tm1620 EXCEPT !.half = "none", !.commanded = TRUE,
                  !.addr = IF b = "addr" THEN 0 ELSE IF b = "noise" THEN 1 ELSE @,
                  !.auto = IF b = "auto" THEN TRUE ELSE @ /\ (b = "noise" => kept),
                  !.lit = IF b = "bright" THEN TRUE ELSE @ /\ (b = "noise" => kept)]
  BY DEF Commanded
<1> DEFINE A == IF b = "addr" THEN 0 ELSE IF b = "noise" THEN 1 ELSE tm1620.addr
           U == IF b = "auto" THEN TRUE ELSE tm1620.auto /\ (b = "noise" => kept)
           L == IF b = "bright" THEN TRUE ELSE tm1620.lit /\ (b = "noise" => kept)
<1>2. n = [tm1620 EXCEPT !.half = "none", !.commanded = TRUE, !.addr = A, !.auto = U, !.lit = L]
  BY <1>1
<1>3. A \in Nat /\ U \in BOOLEAN /\ L \in BOOLEAN
  BY DEF Chip
<1>4. b # "noise" => /\ A = IF b = "addr" THEN 0 ELSE tm1620.addr
                     /\ (b = "auto" \/ tm1620.auto) => U
                     /\ (b = "bright" \/ tm1620.lit) => L
  OBVIOUS
<1> HIDE DEF A, U, L
<1>5. n \in Chip
  BY <1>2, <1>3 DEF Chip
<1>6. /\ n.listens = tm1620.listens /\ n.half = "none" /\ n.commanded = TRUE /\ n.tubes = tm1620.tubes
      /\ n.addr = A
  BY <1>2 DEF Chip
<1>7. n.auto = U /\ n.lit = L
  BY <1>2 DEF Chip
<1> QED
  BY <1>4, <1>5, <1>6, <1>7 DEF Obeyed

\* A byte of data is written at the address, and the address moves on if it should.
Stored(b, n) ==
  /\ n \in Chip /\ n.listens = tm1620.listens /\ n.half = "none" /\ n.commanded = tm1620.commanded
  /\ n.auto = tm1620.auto /\ n.lit = tm1620.lit
  /\ n.addr = IF tm1620.auto /\ tm1620.addr < 2 * Tubes THEN tm1620.addr + 1 ELSE tm1620.addr
  /\ \A i \in 0 .. Tubes - 1 : n.tubes[i] = IF tm1620.addr # 2 * i THEN tm1620.tubes[i]
                                            ELSE IF b \in {"time", "mode"} THEN b ELSE "noise"

LEMMA WrittenIs ==
  ASSUME tm1620 \in Chip, NEW b \in Names \union {"noise"}
  PROVE  Stored(b, Written(b))
<1> DEFINE n == Written(b)
           A == IF tm1620.auto /\ tm1620.addr < 2 * Tubes THEN tm1620.addr + 1 ELSE tm1620.addr
           W(i) == IF tm1620.addr # 2 * i THEN tm1620.tubes[i]
                   ELSE IF b \in {"time", "mode"} THEN b ELSE "noise"
           T == [i \in 0 .. Tubes - 1 |-> W(i)]
<1>1. DOMAIN tm1620.tubes = 0 .. Tubes - 1
  BY DEF Chip
<1>2. n = [tm1620 EXCEPT !.half = "none", !.addr = A, !.tubes = T]
  BY <1>1 DEF Written
<1>3. A \in Nat
  BY DEF Chip
<1>4. \A i \in 0 .. Tubes - 1 : W(i) \in {"noise", "time", "mode"}
  BY DEF Chip
<1>5. T \in [0 .. Tubes - 1 -> {"noise", "time", "mode"}] /\ \A i \in 0 .. Tubes - 1 : T[i] = W(i)
  <2> HIDE DEF W
  <2> QED BY <1>4
<1> HIDE DEF n, A, T
<1>6. n \in Chip
  BY <1>2, <1>3, <1>5 DEF Chip
<1>7. /\ n.listens = tm1620.listens /\ n.half = "none" /\ n.commanded = tm1620.commanded
      /\ n.auto = tm1620.auto /\ n.lit = tm1620.lit /\ n.addr = A /\ n.tubes = T
  BY <1>2 DEF Chip
<1>8. Stored(b, n)
  BY <1>5, <1>6, <1>7 DEF Stored, A
<1> QED
  BY <1>8 DEF n

\* Only half has changed.
Halved(h, n) ==
  /\ n \in Chip /\ n.listens = tm1620.listens /\ n.half = h /\ n.commanded = tm1620.commanded
  /\ n.auto = tm1620.auto /\ n.addr = tm1620.addr /\ n.lit = tm1620.lit /\ n.tubes = tm1620.tubes

LEMMA HalvedIs ==
  ASSUME tm1620 \in Chip, NEW h \in Names \union {"none", "noise"}
  PROVE  Halved(h, [tm1620 EXCEPT !.half = h])
<1> DEFINE n == [tm1620 EXCEPT !.half = h]
<1>1. n \in Chip
  BY DEF Chip
<1>2. /\ n.listens = tm1620.listens /\ n.half = h /\ n.commanded = tm1620.commanded
      /\ n.auto = tm1620.auto /\ n.addr = tm1620.addr /\ n.lit = tm1620.lit /\ n.tubes = tm1620.tubes
  BY DEF Chip
<1> HIDE DEF n
<1>3. Halved(h, n)
  BY <1>1, <1>2 DEF Halved
<1> QED
  BY <1>3 DEF n

\* The strobe moves.
Strobed(low, n) ==
  /\ n \in Chip /\ n.listens = low
  /\ n.auto = tm1620.auto /\ n.addr = tm1620.addr /\ n.lit = tm1620.lit /\ n.tubes = tm1620.tubes
  /\ ~tm1620.listens => n.half = "none" /\ n.commanded = FALSE

LEMMA StrobedIs ==
  ASSUME tm1620 \in Chip, NEW low \in BOOLEAN
  PROVE  Strobed(low, Strobe(low))
<1>1. CASE low /\ tm1620.listens
  <2>1. Strobe(low) = tm1620
    BY <1>1 DEF Strobe
  <2> QED BY <1>1, <2>1 DEF Strobed, Chip
<1>2. CASE ~(low /\ tm1620.listens)
  <2> DEFINE n == [tm1620 EXCEPT !.listens = low, !.half = "none", !.commanded = FALSE]
  <2>1. Strobe(low) = n
    BY <1>2 DEF Strobe
  <2>2. n \in Chip
    BY DEF Chip
  <2>3. /\ n.listens = low /\ n.half = "none" /\ n.commanded = FALSE
        /\ n.auto = tm1620.auto /\ n.addr = tm1620.addr /\ n.lit = tm1620.lit /\ n.tubes = tm1620.tubes
    BY DEF Chip
  <2> HIDE DEF n
  <2>4. Strobed(low, n)
    BY <2>2, <2>3 DEF Strobed
  <2> QED BY <2>1, <2>4
<1> QED
  BY <1>1, <1>2

\* Whatever comes in, the chip stays one.
LEMMA ClockedIsChip ==
  ASSUME tm1620 \in Chip, NEW b \in Names, NEW first \in BOOLEAN, NEW clash \in BOOLEAN,
         NEW n \in Clocked(b, first, clash)
  PROVE  n \in Chip
<1> DEFINE whole == IF tm1620.half = b /\ ~first /\ ~clash THEN b ELSE "noise"
           h == IF first /\ ~clash THEN b ELSE "noise"
<1>1. whole \in Names \union {"noise"} /\ h \in Names \union {"none", "noise"}
  OBVIOUS
<1>2. \/ n = tm1620
      \/ n = [tm1620 EXCEPT !.half = h]
      \/ n \in Commanded(whole)
      \/ n = Written(whole)
  BY DEF Clocked
<1> HIDE DEF whole, h
<1>3. [tm1620 EXCEPT !.half = h] \in Chip
  BY <1>1, HalvedIs DEF Halved
<1>4. n \in Commanded(whole) => n \in Chip
  BY <1>1, CommandedIs DEF Obeyed
<1>5. Written(whole) \in Chip
  BY <1>1, WrittenIs DEF Stored
<1> QED
  BY <1>2, <1>3, <1>4, <1>5

\* Of two halves that belong together, with nobody else on the pins, the first is kept and the second makes
\* a command or a byte of data.
LEMMA FirstHalf ==
  ASSUME tm1620 \in Chip, NEW b \in Names, tm1620.listens, tm1620.half = "none", NEW n \in Clocked(b, TRUE, FALSE)
  PROVE  Halved(b, n)
<1>1. n = [tm1620 EXCEPT !.half = b]
  BY DEF Clocked
<1> QED
  BY <1>1, HalvedIs

LEMMA SecondHalf ==
  ASSUME tm1620 \in Chip, NEW b \in Names, tm1620.listens, tm1620.half = b, NEW n \in Clocked(b, FALSE, FALSE)
  PROVE  IF tm1620.commanded THEN Stored(b, n) ELSE Obeyed(b, n)
<1>1. b # "none"
  BY DEF Names
<1>2. CASE tm1620.commanded
  <2>1. n = Written(b)
    BY <1>1, <1>2 DEF Clocked
  <2> QED BY <1>2, <2>1, WrittenIs
<1>3. CASE ~tm1620.commanded
  <2>1. n \in Commanded(b)
    BY <1>1, <1>3 DEF Clocked
  <2> QED BY <1>3, <2>1, CommandedIs
<1> QED
  BY <1>2, <1>3

\* The place m, after k, in a byte of the tubes: the a of the j-th, and of no other.
Place(m, k, T, a, j) ==
  /\ \A x \in 0 .. T : m = 4 * x + 11 => a = "start" /\ x = j
  /\ \A x \in 0 .. T - 1 :
       /\ m = 4 * x + 12 => a = "half" /\ x = j
       /\ m = 4 * x + 13 => a = "written" /\ x = j
       /\ m = 4 * x + 14 => a = "pad" /\ x = j
       /\ m >= 4 * x + 13 => k >= 4 * x + 13 \/ (a = "written" /\ x = j)

LEMMA CommandPlace ==
  ASSUME NEW T \in Nat \ {0}, NEW k \in 0 .. 15 + 4 * T
  PROVE  /\ (k <= 9 \/ k >= 4 * T + 11) => Place(k + 1, k, T, "none", 0)
         /\ k = 10 => Place(k + 1, k, T, "start", 0)
<1>1. ASSUME k <= 9 \/ k >= 4 * T + 11 PROVE Place(k + 1, k, T, "none", 0)
  <2>1. ASSUME NEW x \in 0 .. T PROVE k + 1 # 4 * x + 11
    BY <1>1
  <2>2. ASSUME NEW x \in 0 .. T - 1
        PROVE  /\ k + 1 # 4 * x + 12 /\ k + 1 # 4 * x + 13 /\ k + 1 # 4 * x + 14
               /\ k + 1 >= 4 * x + 13 => k >= 4 * x + 13
    BY <1>1
  <2> QED BY <2>1, <2>2 DEF Place
<1>2. ASSUME k = 10 PROVE Place(k + 1, k, T, "start", 0)
  <2>1. ASSUME NEW x \in 0 .. T, k + 1 = 4 * x + 11 PROVE x = 0
    BY <1>2, <2>1
  <2>2. ASSUME NEW x \in 0 .. T - 1
        PROVE  /\ k + 1 # 4 * x + 12 /\ k + 1 # 4 * x + 13 /\ k + 1 # 4 * x + 14
               /\ ~(k + 1 >= 4 * x + 13)
    BY <1>2
  <2> QED BY <2>1, <2>2 DEF Place
<1> QED
  BY <1>1, <1>2

LEMMA DataPlace ==
  ASSUME NEW T \in Nat \ {0}, NEW i \in 0 .. T - 1, NEW k \in Nat
  PROVE  /\ k = 4 * i + 11 => Place(k + 1, k, T, "half", i)
         /\ k = 4 * i + 12 => Place(k + 1, k, T, "written", i)
         /\ k = 4 * i + 13 => Place(k + 1, k, T, "pad", i)
         /\ k = 4 * i + 14 => Place(k + 1, k, T, "start", i + 1)
<1>1. ASSUME k = 4 * i + 11 PROVE Place(k + 1, k, T, "half", i)
  BY <1>1 DEF Place
<1>2. ASSUME k = 4 * i + 12 PROVE Place(k + 1, k, T, "written", i)
  BY <1>2 DEF Place
<1>3. ASSUME k = 4 * i + 13 PROVE Place(k + 1, k, T, "pad", i)
  BY <1>3 DEF Place
<1>4. ASSUME k = 4 * i + 14 PROVE Place(k + 1, k, T, "start", i + 1)
  BY <1>4 DEF Place
<1> QED
  BY <1>1, <1>2, <1>3, <1>4

\* The place m, after k, in a command.
Beyond(m, k, L, a) ==
  /\ m \in {0, 4, 8, L - 4} => a = "over"
  /\ m \in {1, 5, 9, L - 3} => a = "open"
  /\ m \in {2, 6, 10, L - 2} => a = "half"
  /\ m >= 7 => k >= 7 \/ a = "obeyed"
  /\ m >= L - 1 => k >= L - 1 \/ a = "obeyed"

LEMMA Following ==
  ASSUME NEW T \in Nat \ {0}, NEW L \in Nat, L = 16 + 4 * T, NEW k \in 0 .. L - 1
  PROVE  /\ k \in {3, 7, L - 5, L - 1} => Beyond(k + 1, k, L, "over")
         /\ k \in {0, 4, 8, L - 4} => Beyond(k + 1, k, L, "open")
         /\ k \in {1, 5, 9, L - 3} => Beyond(k + 1, k, L, "half")
         /\ k \in {2, 6, 10, L - 2} => Beyond(k + 1, k, L, "obeyed")
         /\ k \in 11 .. 4 * T + 10 => Beyond(k + 1, k, L, "none")
<1>1. ASSUME k \in {3, 7, L - 5, L - 1} PROVE Beyond(k + 1, k, L, "over")
  BY <1>1 DEF Beyond
<1>2. ASSUME k \in {0, 4, 8, L - 4} PROVE Beyond(k + 1, k, L, "open")
  BY <1>2 DEF Beyond
<1>3. ASSUME k \in {1, 5, 9, L - 3} PROVE Beyond(k + 1, k, L, "half")
  BY <1>3 DEF Beyond
<1>4. ASSUME k \in {2, 6, 10, L - 2} PROVE Beyond(k + 1, k, L, "obeyed")
  BY <1>4 DEF Beyond
<1>5. ASSUME k \in 11 .. 4 * T + 10 PROVE Beyond(k + 1, k, L, "none")
  BY <1>5 DEF Beyond
<1> QED
  BY <1>1, <1>2, <1>3, <1>4, <1>5

\* What the chip has made of the first k changes of a print that has the pins to itself.
Listening(c, half, commanded) == c.listens /\ c.half = half /\ c.commanded = commanded
HeardCommands(c, k) ==
  /\ k \in {0, 4, 8, Last1 - 4} => ~c.listens
  /\ k \in {1, 5, 9, Last1 - 3} => Listening(c, "none", FALSE)
  /\ k = 2 => Listening(c, "setup", FALSE)
  /\ k = 6 => Listening(c, "auto", FALSE)
  /\ k = 10 => Listening(c, "addr", FALSE)
  /\ k = Last1 - 2 => Listening(c, "bright", FALSE)
  /\ k >= 7 => c.auto
  /\ k >= Last1 - 1 => c.lit
HeardData(c, text, k) ==
  /\ \A i \in 0 .. Tubes : k = 4 * i + 11 => Listening(c, "none", TRUE) /\ c.addr = 2 * i
  /\ \A i \in 0 .. Tubes - 1 :
       /\ k = 4 * i + 12 => Listening(c, text, TRUE) /\ c.addr = 2 * i
       /\ k = 4 * i + 13 => Listening(c, "none", TRUE) /\ c.addr = 2 * i + 1
       /\ k = 4 * i + 14 => Listening(c, "pad", TRUE) /\ c.addr = 2 * i + 1
       /\ k >= 4 * i + 13 => c.tubes[i] = text
Heard(c, text, k) == HeardCommands(c, k) /\ HeardData(c, text, k)

\* The change that comes next, if the pins are only its own.
Changed(change, n) ==
  IF change[1] = "strobe" THEN n = Strobe(change[2] = "low") ELSE n \in Clocked(change[1], change[2] = "first", FALSE)

LEMMA ChangedStrobe ==
  ASSUME tm1620 \in Chip, NEW n
  PROVE  (Changed(Low, n) => Strobed(TRUE, n)) /\ (Changed(Up, n) => Strobed(FALSE, n))
<1>1. Changed(Low, n) => n = Strobe(TRUE)
  BY DEF Changed, Low
<1>2. Changed(Up, n) => n = Strobe(FALSE)
  <2>1. Up[1] = "strobe" /\ (Up[2] = "low") = FALSE
    BY DEF Up
  <2> QED BY <2>1 DEF Changed
<1> QED
  BY <1>1, <1>2, StrobedIs

LEMMA ChangedHalf ==
  ASSUME tm1620 \in Chip, NEW b \in Names \ {"strobe"}, NEW n, tm1620.listens
  PROVE  /\ tm1620.half = "none" /\ Changed(First(b), n) => Halved(b, n)
         /\ tm1620.half = b /\ Changed(Second(b), n) => IF tm1620.commanded THEN Stored(b, n) ELSE Obeyed(b, n)
<1>1. Changed(First(b), n) => n \in Clocked(b, TRUE, FALSE)
  <2>1. First(b)[1] = b /\ (First(b)[2] = "first") = TRUE
    BY DEF First
  <2> QED BY <2>1 DEF Changed
<1>2. Changed(Second(b), n) => n \in Clocked(b, FALSE, FALSE)
  <2>1. Second(b)[1] = b /\ (Second(b)[2] = "first") = FALSE
    BY DEF Second
  <2> QED BY <2>1 DEF Changed
<1> QED
  BY <1>1, <1>2, FirstHalf, SecondHalf

LEMMA HeardNext ==
  ASSUME tm1620 \in Chip, NEW text \in {"time", "mode"}, NEW s, IsFrames(text, s), NEW k \in 0 .. Last1 - 1,
         Heard(tm1620, text, k), NEW n, Changed(s[k + 1], n)
  PROVE  n \in Chip /\ Heard(n, text, k + 1)
<1> DEFINE c == tm1620
<1>0. Tubes \in Nat \ {0} /\ Last1 = 16 + 4 * Tubes
  BY DisplayBounds DEF Last1
<1>1. HeardCommands(c, k) /\ HeardData(c, text, k)
  BY DEF Heard
\* Changes other than a byte of data leave the tubes alone.
<1> DEFINE Kept == n.tubes = c.tubes /\ (c.auto => n.auto) /\ (c.lit => n.lit)
<1> HIDE DEF c, Kept
<1> DEFINE m == k + 1
<1>2. Last1 \in Nat /\ k \in 0 .. 15 + 4 * Tubes /\ k \in Nat
  BY <1>0
<1>3. /\ (k <= 9 \/ k >= 4 * Tubes + 11) => Place(m, k, Tubes, "none", 0)
      /\ k = 10 => Place(m, k, Tubes, "start", 0)
  BY <1>0, <1>2, CommandPlace
<1>4. /\ k \in {3, 7, Last1 - 5, Last1 - 1} => Beyond(m, k, Last1, "over")
      /\ k \in {0, 4, 8, Last1 - 4} => Beyond(m, k, Last1, "open")
      /\ k \in {1, 5, 9, Last1 - 3} => Beyond(m, k, Last1, "half")
      /\ k \in {2, 6, 10, Last1 - 2} => Beyond(m, k, Last1, "obeyed")
      /\ k \in 11 .. 4 * Tubes + 10 => Beyond(m, k, Last1, "none")
  BY <1>0, <1>2, Following
\* What is heard if the chip goes on in step.
<1>5. ASSUME NEW a \in {"over", "open", "half", "none"}, Beyond(m, k, Last1, a), c.auto => n.auto, c.lit => n.lit,
             a = "over" => ~n.listens, a = "open" => Listening(n, "none", FALSE),
             a = "half" => /\ m = 2 => Listening(n, "setup", FALSE)
                           /\ m = 6 => Listening(n, "auto", FALSE)
                           /\ m = 10 => Listening(n, "addr", FALSE)
                           /\ m = Last1 - 2 => Listening(n, "bright", FALSE)
      PROVE  HeardCommands(n, m)
  <2>1. /\ m \in {0, 4, 8, Last1 - 4} => ~n.listens
        /\ m \in {1, 5, 9, Last1 - 3} => Listening(n, "none", FALSE)
    BY <1>5 DEF Beyond
  <2>2. m \in {2, 6, 10, Last1 - 2} => a = "half"
    BY <1>5 DEF Beyond
  <2>3. (m >= 7 => n.auto) /\ (m >= Last1 - 1 => n.lit)
    BY <1>1, <1>5 DEF Beyond, HeardCommands
  <2> HIDE DEF m
  <2> QED BY <1>5, <2>1, <2>2, <2>3 DEF HeardCommands
<1>6. ASSUME NEW a \in {"start", "half", "pad", "none"}, NEW j \in Nat, Place(m, k, Tubes, a, j),
             n.tubes = c.tubes,
             a = "start" => Listening(n, "none", TRUE) /\ n.addr = 2 * j,
             a = "half" => Listening(n, text, TRUE) /\ n.addr = 2 * j,
             a = "pad" => Listening(n, "pad", TRUE) /\ n.addr = 2 * j + 1
      PROVE  HeardData(n, text, m)
  <2> HIDE DEF m
  <2> QED BY <1>1, <1>6 DEF HeardData, Place
<1>a. CASE k \in {0, 4, 8, Last1 - 4}
  <2>1. s[m] = Low /\ ~c.listens
    BY <1>0, <1>1, <1>a DEF IsFrames, HeardCommands
  <2>2. Strobed(TRUE, n)
    BY <2>1, ChangedStrobe
  <2>3. n \in Chip /\ Listening(n, "none", FALSE) /\ Kept
    BY <2>1, <2>2 DEF Strobed, Listening, c, Kept
  <2>4. Beyond(m, k, Last1, "open") /\ Place(m, k, Tubes, "none", 0)
    BY <1>0, <1>3, <1>4, <1>a
  <2> HIDE DEF m
  <2>5. HeardCommands(n, m)
    BY <1>5, <2>3, <2>4 DEF Kept
  <2>6. HeardData(n, text, m)
    BY <1>6, <2>3, <2>4 DEF Kept
  <2> QED BY <2>3, <2>5, <2>6 DEF Heard, m
<1>b. CASE k \in {3, 7, Last1 - 5, Last1 - 1}
  <2>1. s[m] = Up
    BY <1>0, <1>b DEF IsFrames
  <2>2. Strobed(FALSE, n)
    BY <2>1, ChangedStrobe
  <2>3. n \in Chip /\ ~n.listens /\ Kept
    BY <2>2 DEF Strobed, c, Kept
  <2>4. Beyond(m, k, Last1, "over") /\ Place(m, k, Tubes, "none", 0)
    BY <1>0, <1>3, <1>4, <1>b
  <2> HIDE DEF m
  <2>5. HeardCommands(n, m)
    BY <1>5, <2>3, <2>4 DEF Kept
  <2>6. HeardData(n, text, m)
    BY <1>6, <2>3, <2>4 DEF Kept
  <2> QED BY <2>3, <2>5, <2>6 DEF Heard, m
<1>c. CASE k \in {1, 5, 9, Last1 - 3}
  <2>1. \/ k = 1 /\ s[m] = First("setup")
        \/ k = 5 /\ s[m] = First("auto")
        \/ k = 9 /\ s[m] = First("addr")
        \/ k = Last1 - 3 /\ s[m] = First("bright")
    BY <1>0, <1>c DEF IsFrames
  <2>2. PICK b \in {"setup", "auto", "addr", "bright"} :
          /\ s[m] = First(b)
          /\ \/ k = 1 /\ b = "setup"
             \/ k = 5 /\ b = "auto"
             \/ k = 9 /\ b = "addr"
             \/ k = Last1 - 3 /\ b = "bright"
    <3> HIDE DEF m
    <3> QED BY <2>1
  <2>3. b \in Names \ {"strobe"}
    BY DEF Names
  <2>4. Listening(c, "none", FALSE)
    BY <1>1, <1>c DEF HeardCommands
  <2>5. Halved(b, n)
    BY <2>2, <2>3, <2>4, ChangedHalf DEF Listening, c
  <2>6. n \in Chip /\ Listening(n, b, FALSE) /\ Kept
    BY <2>4, <2>5 DEF Halved, Listening, c, Kept
  <2>7. Beyond(m, k, Last1, "half") /\ Place(m, k, Tubes, "none", 0)
    BY <1>0, <1>3, <1>4, <1>c
  <2>8. /\ m = 2 => b = "setup"
        /\ m = 6 => b = "auto"
        /\ m = 10 => b = "addr"
        /\ m = Last1 - 2 => b = "bright"
    BY <1>0, <2>2
  <2> HIDE DEF m
  <2>9. HeardCommands(n, m)
    BY <1>5, <2>6, <2>7, <2>8 DEF Kept
  <2>10. HeardData(n, text, m)
    BY <1>6, <2>6, <2>7 DEF Kept
  <2> QED BY <2>6, <2>9, <2>10 DEF Heard, m
<1>d. CASE k \in {2, 6, 10, Last1 - 2}
  <2>1. \/ k = 2 /\ s[m] = Second("setup") /\ Listening(c, "setup", FALSE)
        \/ k = 6 /\ s[m] = Second("auto") /\ Listening(c, "auto", FALSE)
        \/ k = 10 /\ s[m] = Second("addr") /\ Listening(c, "addr", FALSE)
        \/ k = Last1 - 2 /\ s[m] = Second("bright") /\ Listening(c, "bright", FALSE)
    <3>1. /\ k = 2 => s[m] = Second("setup")
          /\ k = 6 => s[m] = Second("auto")
          /\ k = 10 => s[m] = Second("addr")
          /\ k = Last1 - 2 => s[m] = Second("bright")
      BY <1>0 DEF IsFrames
    <3>2. /\ k = 2 => Listening(c, "setup", FALSE)
          /\ k = 6 => Listening(c, "auto", FALSE)
          /\ k = 10 => Listening(c, "addr", FALSE)
          /\ k = Last1 - 2 => Listening(c, "bright", FALSE)
      BY <1>1 DEF HeardCommands
    <3> HIDE DEF m
    <3> QED BY <1>d, <3>1, <3>2
  <2>2. PICK b \in {"setup", "auto", "addr", "bright"} :
          /\ s[m] = Second(b) /\ Listening(c, b, FALSE)
          /\ \/ k = 2 /\ b = "setup"
             \/ k = 6 /\ b = "auto"
             \/ k = 10 /\ b = "addr"
             \/ k = Last1 - 2 /\ b = "bright"
    <3> HIDE DEF m
    <3> QED BY <2>1
  <2>3. b \in Names \ {"strobe"}
    BY DEF Names
  <2>4. Obeyed(b, n)
    BY <2>2, <2>3, ChangedHalf DEF Listening, c
  <2>5. n \in Chip /\ Listening(n, "none", TRUE) /\ Kept
    BY <2>2, <2>4 DEF Obeyed, Listening, c, Kept
  <2>6. (b = "auto" => n.auto) /\ (b = "bright" => n.lit) /\ (b = "addr" => n.addr = 0)
    BY <2>2, <2>4 DEF Obeyed
  <2>7. Beyond(m, k, Last1, "obeyed")
    BY <1>4, <1>d
  <2>8. /\ m >= 7 => k >= 7 \/ b = "auto"
        /\ m >= Last1 - 1 => k >= Last1 - 1 \/ b = "bright"
    BY <1>0, <2>2
  <2>9. HeardCommands(n, m)
    <3> HIDE DEF m
    <3>1. m \notin {0, 4, 8, Last1 - 4} /\ m \notin {1, 5, 9, Last1 - 3} /\ m \notin {2, 6, 10, Last1 - 2}
      BY <2>7 DEF Beyond
    <3>2. (m >= 7 => n.auto) /\ (m >= Last1 - 1 => n.lit)
      BY <1>1, <2>5, <2>6, <2>8 DEF HeardCommands, Kept
    <3> QED BY <3>1, <3>2 DEF HeardCommands
  <2>10. HeardData(n, text, m)
    <3>1. CASE k = 10
      <4>1. b = "addr" /\ 2 * 0 = 0 /\ Place(m, k, Tubes, "start", 0)
        BY <1>0, <1>3, <2>2, <3>1
      <4> HIDE DEF m
      <4>2. Listening(n, "none", TRUE) /\ n.addr = 2 * 0
        BY <2>5, <2>6, <4>1
      <4> QED BY <1>6, <2>5, <4>1, <4>2 DEF Kept
    <3>2. CASE k # 10
      <4>1. Place(m, k, Tubes, "none", 0)
        BY <1>0, <1>3, <1>d, <3>2
      <4> HIDE DEF m
      <4> QED BY <1>6, <2>5, <4>1 DEF Kept
    <3> QED BY <3>1, <3>2
  <2> QED BY <2>5, <2>9, <2>10 DEF Heard
\* The bytes of the tubes.
<1>e. ASSUME NEW i \in 0 .. Tubes - 1, k = 4 * i + 11 PROVE n \in Chip /\ Heard(n, text, k + 1)
  <2>1. m = 4 * i + 12 /\ k \in 11 .. 4 * Tubes + 10
    BY <1>0, <1>e
  <2>2. s[m] = First(text) /\ text \in Names \ {"strobe"}
    BY <2>1 DEF IsFrames, Names
  <2>3. Listening(c, "none", TRUE) /\ c.addr = 2 * i
    <3>1. i \in 0 .. Tubes
      BY <1>0
    <3> QED BY <1>1, <1>e, <3>1 DEF HeardData
  <2>4. Halved(text, n)
    BY <2>2, <2>3, ChangedHalf DEF Listening, c
  <2>5. n \in Chip /\ Listening(n, text, TRUE) /\ Kept /\ n.addr = 2 * i
    BY <2>3, <2>4 DEF Halved, Listening, c, Kept
  <2>6. Beyond(m, k, Last1, "none")
    BY <1>4, <2>1
  <2>7. Place(m, k, Tubes, "half", i)
    BY <1>0, <1>2, <1>e, DataPlace
  <2> HIDE DEF m
  <2>8. HeardCommands(n, m)
    BY <1>5, <2>5, <2>6 DEF Kept
  <2>9. HeardData(n, text, m)
    <3>1. i \in Nat
      BY <1>0
    <3> QED BY <1>6, <2>5, <2>7, <3>1 DEF Kept
  <2> QED BY <2>5, <2>8, <2>9 DEF Heard, m
<1>f. ASSUME NEW i \in 0 .. Tubes - 1, k = 4 * i + 12 PROVE n \in Chip /\ Heard(n, text, k + 1)
  <2>1. m = 4 * i + 13 /\ k \in 11 .. 4 * Tubes + 10 /\ k >= 7
    BY <1>0, <1>f
  <2>2. s[m] = Second(text) /\ text \in Names \ {"strobe"}
    BY <2>1 DEF IsFrames, Names
  <2>3. Listening(c, text, TRUE) /\ c.addr = 2 * i /\ c.auto
    BY <1>1, <1>f, <2>1 DEF HeardData, HeardCommands
  <2>4. Stored(text, n)
    BY <2>2, <2>3, ChangedHalf DEF Listening, c
  <2>5. n \in Chip /\ Listening(n, "none", TRUE) /\ n.auto = c.auto /\ n.lit = c.lit
    BY <2>3, <2>4 DEF Stored, Listening, c
  <2>6. n.addr = 2 * i + 1
    <3>1. tm1620.auto /\ tm1620.addr = 2 * i
      BY <2>3 DEF c
    <3>2. 2 * i < 2 * Tubes
      BY <1>0
    <3> QED BY <2>4, <3>1, <3>2 DEF Stored
  <2>7. \A j \in 0 .. Tubes - 1 : n.tubes[j] = IF j = i THEN text ELSE c.tubes[j]
    <3>1. \A j \in 0 .. Tubes - 1 : tm1620.addr # 2 * j <=> j # i
      BY <1>0, <2>3 DEF c
    <3> QED BY <2>4, <3>1 DEF Stored, c
  <2>8. Beyond(m, k, Last1, "none")
    BY <1>4, <2>1
  <2>9. Place(m, k, Tubes, "written", i)
    BY <1>0, <1>2, <1>f, DataPlace
  <2> HIDE DEF m
  <2>10. HeardCommands(n, m)
    BY <1>5, <2>5, <2>8
  <2>11. HeardData(n, text, m)
    BY <1>1, <2>5, <2>6, <2>7, <2>9 DEF HeardData, Place
  <2> QED BY <2>5, <2>10, <2>11 DEF Heard, m
<1>g. ASSUME NEW i \in 0 .. Tubes - 1, k = 4 * i + 13 PROVE n \in Chip /\ Heard(n, text, k + 1)
  <2>1. m = 4 * i + 14 /\ k \in 11 .. 4 * Tubes + 10
    BY <1>0, <1>g
  <2>2. s[m] = First("pad") /\ "pad" \in Names \ {"strobe"}
    BY <2>1 DEF IsFrames, Names
  <2>3. Listening(c, "none", TRUE) /\ c.addr = 2 * i + 1
    BY <1>0, <1>1, <1>g DEF HeardData
  <2>4. Halved("pad", n)
    BY <2>2, <2>3, ChangedHalf DEF Listening, c
  <2>5. n \in Chip /\ Listening(n, "pad", TRUE) /\ Kept /\ n.addr = 2 * i + 1
    BY <2>3, <2>4 DEF Halved, Listening, c, Kept
  <2>6. Beyond(m, k, Last1, "none")
    BY <1>4, <2>1
  <2>7. Place(m, k, Tubes, "pad", i)
    BY <1>0, <1>2, <1>g, DataPlace
  <2> HIDE DEF m
  <2>8. HeardCommands(n, m)
    BY <1>5, <2>5, <2>6 DEF Kept
  <2>9. HeardData(n, text, m)
    <3>1. i \in Nat
      BY <1>0
    <3> QED BY <1>6, <2>5, <2>7, <3>1 DEF Kept
  <2> QED BY <2>5, <2>8, <2>9 DEF Heard, m
<1>h. ASSUME NEW i \in 0 .. Tubes - 1, k = 4 * i + 14 PROVE n \in Chip /\ Heard(n, text, k + 1)
  <2>1. m = 4 * i + 15 /\ k \in 11 .. 4 * Tubes + 10 /\ k >= 7 /\ 2 * (i + 1) = 2 * i + 2
    BY <1>0, <1>h
  <2>2. s[m] = Second("pad") /\ "pad" \in Names \ {"strobe"}
    BY <2>1 DEF IsFrames, Names
  <2>3. Listening(c, "pad", TRUE) /\ c.addr = 2 * i + 1 /\ c.auto
    BY <1>1, <1>h, <2>1 DEF HeardData, HeardCommands
  <2>4. Stored("pad", n)
    BY <2>2, <2>3, ChangedHalf DEF Listening, c
  <2>5. n \in Chip /\ Listening(n, "none", TRUE) /\ n.auto = c.auto /\ n.lit = c.lit
    BY <2>3, <2>4 DEF Stored, Listening, c
  <2>6. n.addr = 2 * (i + 1)
    <3>1. tm1620.auto /\ tm1620.addr = 2 * i + 1
      BY <2>3 DEF c
    <3>2. 2 * i + 1 < 2 * Tubes /\ 2 * i + 1 + 1 = 2 * (i + 1)
      BY <1>0
    <3> QED BY <2>4, <3>1, <3>2 DEF Stored
  <2>7. \A j \in 0 .. Tubes - 1 : n.tubes[j] = c.tubes[j]
    <3>1. \A j \in 0 .. Tubes - 1 : tm1620.addr # 2 * j
      BY <1>0, <2>3 DEF c
    <3> QED BY <2>4, <3>1 DEF Stored, c
  <2>8. Beyond(m, k, Last1, "none")
    BY <1>4, <2>1
  <2>9. Place(m, k, Tubes, "start", i + 1)
    BY <1>0, <1>2, <1>h, DataPlace
  <2> HIDE DEF m
  <2>10. HeardCommands(n, m)
    BY <1>5, <2>5, <2>8
  <2>11. HeardData(n, text, m)
    BY <1>1, <2>5, <2>6, <2>7, <2>9 DEF HeardData, Place
  <2> QED BY <2>5, <2>10, <2>11 DEF Heard, m
<1>i. \/ k \in {0, 4, 8, Last1 - 4} \/ k \in {3, 7, Last1 - 5, Last1 - 1} \/ k \in {1, 5, 9, Last1 - 3}
      \/ k \in {2, 6, 10, Last1 - 2} \/ k \in 11 .. 4 * Tubes + 10
  BY <1>0
<1>j. ASSUME k \in 11 .. 4 * Tubes + 10
      PROVE  \E i \in 0 .. Tubes - 1 : k = 4 * i + 11 \/ k = 4 * i + 12 \/ k = 4 * i + 13 \/ k = 4 * i + 14
  <2>1. (k - 11) \div 4 \in 0 .. Tubes - 1
    BY <1>0, <1>j
  <2>2. LET i == (k - 11) \div 4 IN k = 4 * i + 11 \/ k = 4 * i + 12 \/ k = 4 * i + 13 \/ k = 4 * i + 14
    BY <1>0, <1>j
  <2> QED BY <2>1, <2>2
<1> QED
  BY <1>a, <1>b, <1>c, <1>d, <1>e, <1>f, <1>g, <1>h, <1>i, <1>j

-----------------------------------------------------------------------------
(* Who is printing.                                                        *)

Words == {"none", "time", "mode"}
Printing == [out : Seq(Changes), text : Words, alone : BOOLEAN]

\* What is left of a print after its first k changes.
Left(out, text, k) ==
  /\ Len(out) = Last1 - k
  /\ \A a \in 1 .. Last1 - k : out[a] = Frames(text)[k + a]

\* A task that has the pins to itself: the chip has made of its print what it should.
Alone(c, w, p) ==
  /\ w[p].out # <<>> /\ w[Other(p)].out = <<>>
  /\ w[p].text # "none" => \E k \in 0 .. Last1 - 1 : Left(w[p].out, w[p].text, k) /\ Heard(c, w[p].text, k)

Silent(w) == \A p \in Printers : w[p].out = <<>>
DisplayTypes == tm1620 \in Chip /\ printer \in [Printers -> Printing] /\ shown \in Words
Ending(w) == \A p \in Printers : w[p].out # <<>> => w[p].out[Len(w[p].out)] = Up
DisplayInv ==
  /\ DisplayTypes
  /\ Ending(printer)
  /\ Silent(printer) => ~tm1620.listens
  /\ shown # "none" => PrintShows /\ Silent(printer)
  /\ \A p \in Printers : printer[p].alone => Alone(tm1620, printer, p)

LEMMA DisplayStarts == DisplayInit => DisplayInv
<1> SUFFICES ASSUME DisplayInit PROVE DisplayInv
  OBVIOUS
<1>1. tm1620 \in Chip /\ ~tm1620.listens
  <2> DEFINE tubes == [i \in 0 .. Tubes - 1 |-> "noise"]
  <2>1. tubes \in [0 .. Tubes - 1 -> {"noise", "time", "mode"}]
    OBVIOUS
  <2>2. tm1620 = [listens |-> FALSE, half |-> "none", commanded |-> FALSE, auto |-> FALSE, addr |-> 0,
                  lit |-> FALSE, tubes |-> tubes]
    BY DEF DisplayInit
  <2> HIDE DEF tubes
  <2> QED BY <2>1, <2>2 DEF Chip
<1>2. \A p \in Printers : printer[p] = Resting
  BY DEF DisplayInit
<1>3. Resting \in Printing /\ Resting.out = <<>> /\ Resting.alone = FALSE
  BY DEF Resting, Printing, Words
<1>4. printer \in [Printers -> Printing]
  <2>1. printer = [p \in Printers |-> Resting]
    BY DEF DisplayInit
  <2> QED BY <1>3, <2>1
<1>5. shown = "none"
  BY DEF DisplayInit
<1> QED
  BY <1>1, <1>2, <1>3, <1>4, <1>5 DEF DisplayInv, DisplayTypes, Ending, Words

\* A task sets out: the other is no longer alone with the pins.
Begun(p, out, text) ==
  /\ printer' \in [Printers -> Printing]
  /\ printer'[p] = [out |-> out, text |-> text, alone |-> printer[Other(p)].out = <<>>]
  /\ printer'[Other(p)].out = printer[Other(p)].out /\ printer'[Other(p)].alone = FALSE

LEMMA OtherIs ==
  ASSUME NEW p \in Printers
  PROVE  Other(p) \in Printers /\ Other(p) # p /\ Printers = {p, Other(p)} /\ Other(Other(p)) = p
  BY DEF Printers, Other

LEMMA BegunIs ==
  ASSUME DisplayTypes, NEW p \in Printers, NEW out \in Seq(Changes), NEW text \in Words, BeginFrames(p, out, text)
  PROVE  Begun(p, out, text)
<1> DEFINE q == Other(p)
           mine == [out |-> out, text |-> text, alone |-> printer[q].out = <<>>]
           others == [printer[q] EXCEPT !.alone = FALSE]
<1>1. q \in Printers /\ q # p /\ Printers = {p, q}
  BY OtherIs
<1>2. printer[q] \in Printing
  BY <1>1 DEF DisplayTypes
<1>3. mine \in Printing
  BY DEF Printing
<1>4. others \in Printing /\ others.out = printer[q].out /\ others.alone = FALSE
  BY <1>2 DEF Printing
<1>5. printer' = [printer EXCEPT ![p] = mine, ![q].alone = FALSE]
  BY DEF BeginFrames
<1>6. printer'[p] = mine /\ printer'[q] = others /\ printer' \in [Printers -> Printing]
  <2> HIDE DEF mine, q
  <2>1. printer' = [printer EXCEPT ![p] = mine, ![q] = [printer[q] EXCEPT !.alone = FALSE]]
    BY <1>1, <1>5 DEF DisplayTypes
  <2>2. printer' = [printer EXCEPT ![p] = mine, ![q] = others]
    BY <2>1
  <2> HIDE DEF others
  <2> QED BY <1>1, <1>3, <1>4, <2>2 DEF DisplayTypes
<1> HIDE DEF others
<1> QED
  BY <1>4, <1>6 DEF Begun

\* A task that sets out with the pins to itself finds the chip at rest.
LEMMA BeginKeeps ==
  ASSUME DisplayInv, NEW p \in Printers, NEW out, NEW text \in Words, BeginFrames(p, out, text),
         \/ text = "none" /\ out = High
         \/ text # "none" /\ out = Frames(text),
         tm1620' = tm1620
  PROVE  DisplayInv'
<1> DEFINE q == Other(p)
<1>0. q \in Printers /\ q # p /\ Printers = {p, q}
  BY OtherIs
<1>1. Last1 \in Nat /\ Last1 > 16
  BY DisplayBounds DEF Last1
<1>2. out \in Seq(Changes) /\ Len(out) \in Nat \ {0} /\ out[Len(out)] = Up
  <2>1. CASE text = "none"
    <3>1. out = High
      BY <2>1
    <3> QED BY <3>1, HighIs
  <2>2. CASE text # "none"
    <3>1. IsFrames(text, out)
      BY <2>2, FramesAre DEF Words
    <3> QED BY <1>1, <3>1 DEF IsFrames
  <2> QED BY <2>1, <2>2
<1>3. out # <<>>
  BY <1>2
<1>4. Begun(p, out, text)
  BY <1>2, BegunIs DEF DisplayInv
<1>5. /\ printer'[p].out = out /\ printer'[p].text = text /\ printer'[p].alone = (printer[q].out = <<>>)
      /\ printer'[q].out = printer[q].out /\ printer'[q].alone = FALSE
  BY <1>4 DEF Begun
<1>6. shown' = "none" /\ printer[p].out = <<>>
  BY DEF BeginFrames
<1> HIDE DEF q
<1>7. Ending(printer')
  BY <1>0, <1>2, <1>5 DEF DisplayInv, Ending
<1>8. ~Silent(printer')
  BY <1>3, <1>5 DEF Silent
<1>9. ASSUME printer[q].out = <<>> PROVE Alone(tm1620, printer', p)
  <2>1. Silent(printer)
    BY <1>0, <1>6, <1>9 DEF Silent
  <2>2. ~tm1620.listens
    BY <2>1 DEF DisplayInv
  <2>3. ASSUME text # "none" PROVE Left(out, text, 0) /\ Heard(tm1620, text, 0)
    <3>1. IsFrames(text, out) /\ out = Frames(text)
      BY <2>3, FramesAre DEF Words
    <3>2. Left(out, text, 0)
      BY <1>1, <3>1 DEF Left, IsFrames
    <3>3. Heard(tm1620, text, 0)
      <4>1. Tubes \in Nat
        BY DisplayBounds
      <4>2. HeardCommands(tm1620, 0)
        <5>1. /\ 0 \notin {1, 5, 9, Last1 - 3} /\ 0 # 2 /\ 0 # 6 /\ 0 # 10 /\ 0 # Last1 - 2
              /\ ~(0 >= 7) /\ ~(0 >= Last1 - 1)
          BY ONLY <1>1
        <5> QED BY ONLY <2>2, <5>1 DEF HeardCommands
      <4>3. \A i \in Nat : /\ 0 # 4 * i + 11 /\ 0 # 4 * i + 12 /\ 0 # 4 * i + 13 /\ 0 # 4 * i + 14
                          /\ ~(0 >= 4 * i + 13)
        OBVIOUS
      <4>4. 0 .. Tubes \subseteq Nat /\ 0 .. Tubes - 1 \subseteq Nat
        BY <4>1
      <4>5. HeardData(tm1620, text, 0)
        BY <4>3, <4>4 DEF HeardData
      <4> QED BY <4>2, <4>5 DEF Heard
    <3> QED BY <3>2, <3>3
  <2>4. 0 \in 0 .. Last1 - 1
    BY <1>1
  <2> QED BY <1>3, <1>5, <1>9, <2>3, <2>4 DEF Alone, q
<1>10. \A r \in Printers : printer'[r].alone => Alone(tm1620, printer', r)
  BY <1>0, <1>5, <1>9
<1>11. DisplayTypes'
  BY <1>4, <1>6 DEF Begun, DisplayInv, DisplayTypes, Words
<1> QED
  BY <1>6, <1>7, <1>8, <1>10, <1>11 DEF DisplayInv, Ending, Silent, Alone

\* The next change of the pins.
LEMMA SendsKeeps == ASSUME DisplayInv, NEW p \in Printers, Sends(p) PROVE DisplayInv'
<1> DEFINE q == Other(p)
           out == printer[p].out
           next == Head(out)
           rest == Tail(out)
           text == printer[p].text
           others == printer[q].out
           clash == others # <<>> /\ Head(others)[2] = "second"
<1>0. q \in Printers /\ q # p /\ Printers = {p, q}
  BY OtherIs
<1>1. Last1 \in Nat /\ Last1 > 16
  BY DisplayBounds DEF Last1
<1>2. /\ tm1620 \in Chip /\ printer \in [Printers -> Printing] /\ shown \in Words
      /\ printer[p] \in Printing /\ printer[q] \in Printing
  BY <1>0 DEF DisplayInv, DisplayTypes
<1>3. out \in Seq(Changes) /\ out # <<>> /\ text \in Words
  BY <1>2 DEF Printing, Sends
<1> DEFINE w == IF rest = <<>> THEN Resting ELSE [printer[p] EXCEPT !.out = rest]
<1>4. /\ printer' = [printer EXCEPT ![p] = w]
      /\ shown' = IF rest = <<>> /\ printer[p].alone THEN text ELSE shown
      /\ IF next[1] = "strobe" THEN tm1620' = Strobe(next[2] = "low")
         ELSE tm1620' \in Clocked(next[1], next[2] = "first", clash)
  BY DEF Sends
<1>5. PICK l \in Nat : Len(out) = l
  BY <1>3
<1>6. /\ l > 0 /\ next = out[1] /\ rest \in Seq(Changes) /\ Len(rest) = l - 1
      /\ \A a \in 1 .. l - 1 : rest[a] = out[a + 1]
  <2> HIDE DEF out
  <2>1. l > 0
    BY <1>3, <1>5
  <2> QED BY <1>3, <1>5, <2>1
<1>7. out[l] = Up
  BY <1>3, <1>5 DEF DisplayInv, Ending
<1>8. next \in Changes
  BY <1>3, <1>5, <1>6
<1> HIDE DEF next, rest
<1>9. rest = <<>> <=> l = 1
  BY <1>6
<1>10. /\ w \in Printing /\ w.out = rest /\ (w.alone <=> rest # <<>> /\ printer[p].alone)
       /\ rest # <<>> => w.text = text
  <2>1. CASE rest = <<>>
    BY <2>1 DEF Resting, Printing, Words
  <2>2. CASE rest # <<>>
    <3>1. w = [printer[p] EXCEPT !.out = rest]
      BY <2>2
    <3>2. w \in Printing /\ w.out = rest /\ w.alone = printer[p].alone /\ w.text = text
      BY <1>2, <1>6, <3>1 DEF Printing
    <3> QED BY <2>2, <3>2
  <2> QED BY <2>1, <2>2
<1> HIDE DEF w
<1>11. printer'[p] = w /\ printer'[q] = printer[q] /\ printer' \in [Printers -> Printing]
  BY <1>0, <1>2, <1>4, <1>10
<1>12. tm1620' \in Chip
  <2> DEFINE low == next[2] = "low"
             first == next[2] = "first"
  <2>1. low \in BOOLEAN /\ first \in BOOLEAN /\ clash \in BOOLEAN /\ next[1] \in Names
    BY <1>8 DEF Changes
  <2>2. \/ tm1620' = Strobe(low)
        \/ tm1620' \in Clocked(next[1], first, clash)
    BY <1>4
  <2> HIDE DEF low, first, clash
  <2> QED BY <1>2, <2>1, <2>2, StrobedIs, ClockedIsChip DEF Strobed
<1>13. Ending(printer')
  <2>1. rest # <<>> => rest[Len(rest)] = Up
    <3>1. ASSUME l # 1 PROVE rest[l - 1] = Up
      <4>1. l - 1 \in 1 .. l - 1 /\ l - 1 + 1 = l
        BY <1>6, <3>1
      <4> QED BY <1>6, <1>7, <4>1
    <3> QED BY <1>6, <1>9, <3>1
  <2> QED BY <1>0, <1>10, <1>11, <2>1 DEF DisplayInv, Ending
\* The last change leaves the chip deaf.
<1>14. rest = <<>> => Strobed(FALSE, tm1620')
  <2>1. ASSUME rest = <<>> PROVE next = Up
    BY <1>6, <1>7, <1>9, <2>1
  <2>2. next = Up => tm1620' = Strobe(FALSE)
    <3>1. Up[1] = "strobe" /\ (Up[2] = "low") = FALSE
      BY DEF Up
    <3> QED BY <1>4, <3>1
  <2> QED BY <1>2, <2>1, <2>2, StrobedIs
<1>15. Silent(printer') => ~tm1620'.listens
  <2>1. Silent(printer') => rest = <<>>
    BY <1>10, <1>11 DEF Silent
  <2> QED BY <1>14, <2>1 DEF Strobed
\* A print alone with the pins goes on as it should.
<1>16. ASSUME printer[p].alone PROVE others = <<>>
  BY <1>16 DEF DisplayInv, Alone
<1>17. ASSUME printer[p].alone, text # "none"
       PROVE  \E k \in 0 .. Last1 - 1 : /\ l = Last1 - k /\ Heard(tm1620', text, k + 1)
                                        /\ \A a \in 1 .. l : out[a] = Frames(text)[k + a]
  <2>1. PICK k \in 0 .. Last1 - 1 : Left(out, text, k) /\ Heard(tm1620, text, k)
    BY <1>17 DEF DisplayInv, Alone
  <2>2. l = Last1 - k /\ \A a \in 1 .. l : out[a] = Frames(text)[k + a]
    BY <1>5, <2>1 DEF Left
  <2>3. next = Frames(text)[k + 1]
    BY <1>6, <2>2
  <2>4. text \in {"time", "mode"} /\ IsFrames(text, Frames(text))
    BY <1>3, <1>17, FramesAre DEF Words
  <2>5. clash = FALSE
    BY <1>16, <1>17
  <2>6. Changed(next, tm1620')
    <3> HIDE DEF clash
    <3> QED BY <1>4, <2>5 DEF Changed
  <2>7. Heard(tm1620', text, k + 1)
    BY <1>2, <2>1, <2>3, <2>4, <2>6, HeardNext
  <2> QED BY <2>2, <2>7
<1>18. ASSUME printer'[p].alone PROVE Alone(tm1620', printer', p)
  <2>1. rest # <<>> /\ printer[p].alone
    BY <1>10, <1>11, <1>18
  <2>2. ASSUME text # "none" PROVE \E k \in 0 .. Last1 - 1 : Left(rest, text, k) /\ Heard(tm1620', text, k)
    <3>1. PICK k \in 0 .. Last1 - 1 : /\ l = Last1 - k /\ Heard(tm1620', text, k + 1)
                                      /\ \A a \in 1 .. l : out[a] = Frames(text)[k + a]
      BY <1>17, <2>1, <2>2
    <3>2. k + 1 \in 0 .. Last1 - 1 /\ Last1 - (k + 1) = l - 1
      BY <1>1, <1>6, <1>9, <2>1, <3>1
    <3>3. ASSUME NEW a \in 1 .. l - 1 PROVE rest[a] = Frames(text)[k + 1 + a]
      <4>1. a + 1 \in 1 .. l /\ k + (a + 1) = k + 1 + a
        OBVIOUS
      <4> QED BY <1>6, <3>1, <4>1
    <3>4. Left(rest, text, k + 1)
      BY <1>6, <3>2, <3>3 DEF Left
    <3> QED BY <3>1, <3>2, <3>4
  <2>3. printer'[q].out = <<>>
    BY <1>11, <1>16, <2>1
  <2> QED BY <1>10, <1>11, <2>1, <2>2, <2>3 DEF Alone
<1>19. ~printer'[q].alone
  <2>1. printer[q].alone => printer[p].out = <<>>
    BY <1>0, OtherIs DEF DisplayInv, Alone
  <2> QED BY <1>3, <1>11, <2>1
<1>20. \A r \in Printers : printer'[r].alone => Alone(tm1620', printer', r)
  BY <1>0, <1>18, <1>19
<1>21. ASSUME shown' # "none" PROVE PrintShows' /\ Silent(printer')
  <2>1. shown = "none"
    <3>1. ~Silent(printer)
      BY <1>3 DEF Silent
    <3> QED BY <3>1 DEF DisplayInv
  <2>2. rest = <<>> /\ printer[p].alone /\ shown' = text /\ text # "none"
    BY <1>4, <1>21, <2>1
  <2>3. Silent(printer')
    BY <1>0, <1>10, <1>11, <1>16, <2>2 DEF Silent
  <2>4. PICK k \in 0 .. Last1 - 1 : l = Last1 - k /\ Heard(tm1620', text, k + 1)
    BY <1>17, <2>2
  <2>5. k + 1 = Last1
    BY <1>1, <1>9, <2>2, <2>4
  <2>6. tm1620'.lit /\ \A i \in 0 .. Tubes - 1 : tm1620'.tubes[i] = text
    <3>1. HeardCommands(tm1620', Last1) /\ HeardData(tm1620', text, Last1)
      BY <2>4, <2>5 DEF Heard
    <3>2. \A i \in 0 .. Tubes - 1 : Last1 >= 4 * i + 13
      BY DisplayBounds DEF Last1
    <3>3. Last1 >= Last1 - 1
      BY <1>1
    <3> QED BY <3>1, <3>2, <3>3 DEF HeardCommands, HeardData
  <2>7. DOMAIN tm1620'.tubes = 0 .. Tubes - 1
    BY <1>12 DEF Chip
  <2>8. ~tm1620'.listens
    BY <1>15, <2>3
  <2> QED BY <2>2, <2>3, <2>6, <2>7, <2>8 DEF PrintShows
<1>22. shown' \in Words
  BY <1>2, <1>3, <1>4
<1>23. DisplayTypes'
  BY <1>11, <1>12, <1>22 DEF DisplayTypes
<1> QED
  BY <1>13, <1>15, <1>20, <1>21, <1>23 DEF DisplayInv, Ending, Silent, Alone

\* A print that has the pins to itself shows its text on every tube (TM1620_Print in src/tm1620.c), for every
\* number of tubes and whatever prints that got into each other's way have left in the chip.
THEOREM DisplayShows == DisplayInit /\ [][DisplayNext]_display => []PrintShows
<1>1. DisplayInv => PrintShows
  BY DEF DisplayInv, PrintShows
<1>2. DisplayInv /\ [DisplayNext]_display => DisplayInv'
  <2> SUFFICES ASSUME DisplayInv, [DisplayNext]_display PROVE DisplayInv'
    OBVIOUS
  <2>1. CASE InitPins
    <3>1. BeginFrames("view", High, "none") /\ tm1620' = tm1620
      BY <2>1 DEF InitPins
    <3> QED BY <3>1, BeginKeeps DEF Printers, Words
  <2>2. ASSUME NEW p \in Printers, BeginPrint(p) PROVE DisplayInv'
    <3>1. BeginFrames(p, Frames(Text[p]), Text[p]) /\ tm1620' = tm1620
      BY <2>2 DEF BeginPrint
    <3>2. Text[p] \in Words /\ Text[p] # "none"
      BY DEF Printers, Text, Words
    <3> QED BY <3>1, <3>2, BeginKeeps
  <2>3. ASSUME NEW p \in Printers, Sends(p) PROVE DisplayInv'
    BY <2>3, SendsKeeps
  <2>4. CASE UNCHANGED display
    <3>1. tm1620' = tm1620 /\ printer' = printer /\ shown' = shown
      BY <2>4 DEF display
    <3> QED BY <3>1 DEF DisplayInv, DisplayTypes, PrintShows, Ending, Silent, Alone
  <2> QED BY <2>1, <2>2, <2>3, <2>4 DEF DisplayNext
<1> QED
  BY <1>1, <1>2, DisplayStarts, PTL
=============================================================================
