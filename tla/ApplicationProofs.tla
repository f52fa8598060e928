-------------------------- MODULE ApplicationProofs --------------------------
(***************************************************************************)
(* What is proved of the alarm clock: the reader of the music stays in the *)
(* buffer, the lamp shines as it was told last, a spell of the spray is    *)
(* kept and no nozzle stays on, the stop key ends the programs, both       *)
(* end in time and an alarm rings once, for every value of the constants   *)
(* the modules assume.                                                     *)
(*                                                                         *)
(* Each part has an inductive invariant of its own; the theorems at the    *)
(* end put them together.                                                  *)
(***************************************************************************)
EXTENDS Application, TLAPS
-----------------------------------------------------------------------------
(* The music.                                                              *)

MusicType ==
  /\ music \in [head : Int, tail : Int, pos : Int, runs : BOOLEAN]
  /\ reader \in [pc : {"idle", "copies", "loads", "stores"}, size : Int, load : Int,
                 outside : BOOLEAN]
  /\ orders \in [Callers -> [pc : {"idle", "rewinds", "heads", "tails", "resumes"},
                             track : Tracks, stop : BOOLEAN, n : Nat]]
  /\ heard \in [bytes : Int, met : BOOLEAN]

\* The head and the tail are those of track t.
On(t) == music.head = Start[t] /\ music.tail = Tail[t]

\* A read at its place of track t.
ReadsOn(t) ==
  /\ On(t) /\ 0 <= music.pos
  /\ reader.pc = "idle" => music.pos <= Length[t] /\ heard.bytes = music.pos
  /\ reader.pc # "idle" => reader.size >= 0 /\ music.pos + reader.size <= Length[t]
  /\ reader.pc = "copies" => heard.bytes = music.pos
  /\ reader.pc \in {"loads", "stores"} => heard.bytes = music.pos + reader.size
  /\ reader.pc = "stores" => reader.load = music.pos

\* An order on its way to track t, which it has to itself.
Ordering(c) ==
  /\ reader.pc = "idle" /\ ~music.runs /\ \A d \in Callers \ {c} : orders[d].pc = "idle"
  /\ orders[c].pc \in {"heads", "tails", "resumes"} => music.pos = 0 /\ heard.bytes = 0
  /\ orders[c].pc \in {"tails", "resumes"} => music.head = Start[orders[c].track]
  /\ orders[c].pc = "resumes" => music.tail = Tail[orders[c].track]

MusicInv ==
  /\ MusicType
  /\ reader.pc \in {"idle", "copies"} => ~reader.outside
  /\ ~heard.met =>
       /\ ~reader.outside
       /\ reader.pc # "idle" => music.runs
       /\ \A c \in Callers : orders[c].pc # "idle" => Ordering(c)
       /\ music.runs => \E t \in Tracks : ReadsOn(t)

\* The tracks in numbers.
LEMMA TrackPlaces ==
  /\ Chunk \in Nat /\ Chunk > 0
  /\ \A t \in Tracks : /\ Start[t] \in Nat /\ Length[t] \in Nat /\ Tail[t] \in Nat
                       /\ Tail[t] = Start[t] + Length[t]
  BY MusicAssumption DEF Tracks, Start, Tail, Length

\* The music begins in its invariant.
LEMMA MusicBegins == MusicInit => MusicInv
<1> SUFFICES ASSUME MusicInit PROVE MusicInv
  OBVIOUS
<1>1. "getup" \in Tracks
  BY DEF Tracks
<1>2. MusicType
  BY <1>1, TrackPlaces DEF MusicInit, MusicType
<1>3. QED  BY <1>2 DEF MusicInit, MusicInv

\* A step of the reader keeps the music in step with what the decoder was handed.
LEMMA ReaderSteps ==
  ASSUME MusicInv, ReadSizes \/ ReadCopies \/ ReadLoads \/ ReadStores
  PROVE  MusicInv'
<1> USE TrackPlaces
<1>1. CASE ReadSizes
  <2> DEFINE left == music.tail - music.head - music.pos
             size == IF Chunk < left THEN Chunk ELSE left
  <2>1. /\ reader.pc = "idle" /\ music.runs /\ UNCHANGED <<orders, heard>>
        /\ left \in Int /\ size \in Int
        /\ left >= 0 => size >= 0 /\ size <= left
    BY <1>1 DEF ReadSizes, MusicInv, MusicType
  <2>2. CASE left = 0
    <3>1. music' = [music EXCEPT !.runs = FALSE] /\ reader' = reader
      BY <1>1, <2>2 DEF ReadSizes
    <3>2. MusicType'
      BY <2>1, <3>1 DEF MusicInv, MusicType
    <3>3. /\ music'.head = music.head /\ music'.tail = music.tail /\ music'.pos = music.pos
          /\ ~music'.runs
      BY <3>1 DEF MusicInv, MusicType
    <3>4. ASSUME NEW c \in Callers, ~heard.met, orders[c].pc # "idle" PROVE FALSE
      BY <2>1, <3>4 DEF MusicInv, Ordering
    <3>5. QED  BY <2>1, <3>1, <3>2, <3>3, <3>4 DEF MusicInv
  <2>3. CASE left # 0
    <3>1. reader' = [reader EXCEPT !.pc = "copies", !.size = size] /\ music' = music
      BY <1>1, <2>3 DEF ReadSizes
    <3> HIDE DEF size
    <3>2. MusicType'
      BY <2>1, <3>1 DEF MusicInv, MusicType
    <3>3. reader'.pc = "copies" /\ reader'.size = size /\ reader'.outside = reader.outside
      BY <3>1 DEF MusicInv, MusicType
    <3>4. ASSUME NEW t \in Tracks, ReadsOn(t) PROVE ReadsOn(t)'
      <4>1. left = Length[t] - music.pos /\ left >= 0 /\ music.pos \in Int
        BY <2>1, <3>4 DEF ReadsOn, On, MusicInv, MusicType
      <4>2. music.pos + size <= Length[t] /\ size >= 0
        BY <2>1, <4>1
      <4>3. QED  BY <2>1, <3>1, <3>3, <3>4, <4>2 DEF ReadsOn, On
    <3>5. ASSUME NEW c \in Callers, ~heard.met, orders[c].pc # "idle" PROVE FALSE
      BY <2>1, <3>5 DEF MusicInv, Ordering
    <3>6. QED  BY <2>1, <3>1, <3>2, <3>3, <3>4, <3>5 DEF MusicInv
  <2>4. QED  BY <2>2, <2>3
<1>2. CASE ReadCopies
  <2> DEFINE far == ~Inside(music.head + music.pos, reader.size)
             b == heard.bytes + reader.size
  <2>1. /\ reader.pc = "copies" /\ UNCHANGED <<music, orders>>
        /\ reader' = [reader EXCEPT !.pc = "loads", !.outside = far]
        /\ heard' = [heard EXCEPT !.bytes = b]
        /\ far \in BOOLEAN /\ b \in Int
    BY <1>2 DEF ReadCopies, MusicInv, MusicType
  <2>2. ASSUME NEW t \in Tracks, ReadsOn(t) PROVE ~far
    <3>1. /\ music.head + music.pos >= Start[t] /\ reader.size >= 0
          /\ music.head + music.pos + reader.size <= Tail[t]
      BY <2>1, <2>2 DEF ReadsOn, On, MusicInv, MusicType
    <3>2. QED  BY <3>1 DEF Inside
  <2> HIDE DEF far, b
  <2>3. /\ MusicType' /\ reader'.pc = "loads" /\ reader'.outside = far
        /\ reader'.size = reader.size /\ heard'.met = heard.met /\ heard'.bytes = b
    BY <2>1 DEF MusicInv, MusicType
  <2>4. ASSUME NEW t \in Tracks, ReadsOn(t) PROVE ReadsOn(t)'
    BY <2>1, <2>3, <2>4 DEF ReadsOn, On, b
  <2>5. ASSUME NEW c \in Callers, ~heard.met, orders[c].pc # "idle" PROVE FALSE
    BY <2>1, <2>5 DEF MusicInv, Ordering
  <2>6. ~heard.met => music.runs /\ \E t \in Tracks : ReadsOn(t)
    BY <2>1 DEF MusicInv
  <2>7. QED  BY <2>1, <2>2, <2>3, <2>4, <2>5, <2>6 DEF MusicInv
<1>3. CASE ReadLoads
  <2>1. /\ reader.pc = "loads" /\ UNCHANGED <<music, orders, heard>>
        /\ reader' = [reader EXCEPT !.pc = "stores", !.load = music.pos]
    BY <1>3 DEF ReadLoads
  <2>2. /\ MusicType' /\ reader'.pc = "stores" /\ reader'.outside = reader.outside
        /\ reader'.size = reader.size /\ reader'.load = music.pos
    BY <2>1 DEF MusicInv, MusicType
  <2>3. ASSUME NEW t \in Tracks, ReadsOn(t) PROVE ReadsOn(t)'
    BY <2>1, <2>2, <2>3 DEF ReadsOn, On
  <2>4. ASSUME NEW c \in Callers, ~heard.met, orders[c].pc # "idle" PROVE FALSE
    BY <2>1, <2>4 DEF MusicInv, Ordering
  <2>5. ~heard.met => music.runs /\ \E t \in Tracks : ReadsOn(t)
    BY <2>1 DEF MusicInv
  <2>6. QED  BY <2>1, <2>2, <2>3, <2>4, <2>5 DEF MusicInv
<1>4. CASE ReadStores
  <2> DEFINE p == reader.load + reader.size
  <2>1. /\ reader.pc = "stores" /\ UNCHANGED <<orders, heard>>
        /\ music' = [music EXCEPT !.pos = p]
        /\ reader' = [reader EXCEPT !.pc = "idle", !.outside = FALSE]
        /\ p \in Int
    BY <1>4 DEF ReadStores, MusicInv, MusicType
  <2> HIDE DEF p
  <2>2. /\ MusicType' /\ reader'.pc = "idle" /\ ~reader'.outside
        /\ music'.head = music.head /\ music'.tail = music.tail /\ music'.pos = p
        /\ music'.runs = music.runs
    BY <2>1 DEF MusicInv, MusicType
  <2>3. ASSUME NEW t \in Tracks, ReadsOn(t) PROVE ReadsOn(t)'
    <3>1. /\ p = music.pos + reader.size /\ 0 <= p /\ p <= Length[t] /\ heard.bytes = p
      BY <2>1, <2>3 DEF ReadsOn, MusicInv, MusicType, p
    <3>2. QED  BY <2>1, <2>2, <2>3, <3>1 DEF ReadsOn, On
  <2>4. ASSUME NEW c \in Callers, ~heard.met, orders[c].pc # "idle" PROVE FALSE
    BY <2>1, <2>4 DEF MusicInv, Ordering
  <2>5. ~heard.met => music.runs /\ \E t \in Tracks : ReadsOn(t)
    BY <2>1 DEF MusicInv
  <2>6. QED  BY <2>1, <2>2, <2>3, <2>4, <2>5 DEF MusicInv
<1>5. QED  BY <1>1, <1>2, <1>3, <1>4

\* Once something met, nothing is asked of the position.
LEMMA MetStep ==
  ASSUME MusicInv, MusicType', reader' = reader, heard'.met
  PROVE  MusicInv'
  BY DEF MusicInv

\* A step of c that is not alone, or that comes after one which was not.
LEMMA OrderStep ==
  ASSUME MusicInv, MusicType', NEW c \in Callers, reader' = reader,
         orders' = [orders EXCEPT ![c] = orders'[c]],
         ~music'.runs \/ orders'[c].pc = "idle",
         ~heard'.met => Alone(c),
         ~heard'.met /\ music'.runs => \E t \in Tracks : ReadsOn(t)',
         ~heard'.met /\ orders'[c].pc # "idle" =>
           /\ ~music'.runs
           /\ orders'[c].pc \in {"heads", "tails", "resumes"} => music'.pos = 0 /\ heard'.bytes = 0
           /\ orders'[c].pc \in {"tails", "resumes"} => music'.head = Start[orders'[c].track]
           /\ orders'[c].pc = "resumes" => music'.tail = Tail[orders'[c].track]
  PROVE  MusicInv'
<1>1. \A d \in Callers : d # c => orders'[d] = orders[d]
  BY DEF MusicInv, MusicType
<1>2. reader'.pc \in {"idle", "copies"} => ~reader'.outside
  BY DEF MusicInv
<1>3. CASE heard'.met
  BY <1>2, <1>3 DEF MusicInv
<1>4. CASE ~heard'.met
  <2>1. reader.pc = "idle" /\ \A d \in Callers \ {c} : orders'[d].pc = "idle"
    BY <1>1, <1>4 DEF Alone
  <2>2. ASSUME NEW d \in Callers, orders'[d].pc # "idle" PROVE Ordering(d)'
    <3>1. d = c
      BY <2>1, <2>2
    <3>2. QED  BY <1>4, <2>1, <2>2, <3>1 DEF Ordering
  <2>3. QED  BY <1>2, <1>4, <2>1, <2>2 DEF MusicInv
<1>5. QED  BY <1>3, <1>4

\* Each step of a change of the track keeps the invariant.
LEMMA OrderSteps ==
  ASSUME MusicInv, NEW c \in Callers,
         OrderBegins(c) \/ OrderRewinds(c) \/ OrderHeads(c) \/ OrderTails(c) \/ OrderResumes(c)
  PROVE  MusicInv'
<1> USE TrackPlaces
<1>1. /\ MusicType /\ orders[c].track \in Tracks /\ orders[c].n \in Nat
      /\ Alone(c) \in BOOLEAN
  BY DEF MusicInv, MusicType, Alone
<1>2. CASE OrderBegins(c)
  <2>1. PICK t \in Tracks, stop \in BOOLEAN :
          orders' = [orders EXCEPT ![c] = [pc |-> "rewinds", track |-> t, stop |-> stop, n |-> @.n + 1]]
    BY <1>2 DEF OrderBegins
  <2> DEFINE o == [pc |-> "rewinds", track |-> t, stop |-> stop, n |-> orders[c].n + 1]
             m == ~Alone(c)
  <2>2. /\ music' = [music EXCEPT !.runs = FALSE] /\ heard' = [heard EXCEPT !.met = m]
        /\ reader' = reader /\ orders' = [orders EXCEPT ![c] = o] /\ o.pc = "rewinds"
        /\ o \in [pc : {"idle", "rewinds", "heads", "tails", "resumes"},
                   track : Tracks, stop : BOOLEAN, n : Nat]
    <3>1. orders' = [orders EXCEPT ![c] = o]
      BY <2>1
    <3>2. orders[c].n + 1 \in Nat
      BY <1>1
    <3>3. QED  BY <1>2, <3>1, <3>2 DEF OrderBegins
  <2> HIDE DEF o, m
  <2>3. m \in BOOLEAN
    BY <1>1 DEF m
  <2>4. MusicType' /\ orders'[c] = o /\ ~music'.runs /\ heard'.met = m
    BY <1>1, <2>2, <2>3 DEF MusicType
  <2>5. ~heard'.met => Alone(c)
    BY <2>4 DEF m
  <2>6. QED  BY <2>2, <2>4, <2>5, OrderStep
<1>3. ASSUME ~OrderBegins(c) PROVE MusicInv'
  <2> DEFINE m == heard.met \/ ~Alone(c)
             q == orders'[c].pc
             o == [orders[c] EXCEPT !.pc = q]
  <2>1. /\ reader' = reader /\ orders' = [orders EXCEPT ![c].pc = q] /\ orders[c].pc # "idle"
        /\ q \in {"idle", "heads", "tails", "resumes"}
    BY <1>1, <1>3 DEF OrderRewinds, OrderHeads, OrderTails, OrderResumes, Goes, MusicType
  <2>2. /\ orders' = [orders EXCEPT ![c] = o] /\ orders'[c] = o /\ o.pc = q
        /\ o.track = orders[c].track
        /\ o \in [pc : {"idle", "rewinds", "heads", "tails", "resumes"},
                   track : Tracks, stop : BOOLEAN, n : Nat]
    BY <1>1, <2>1 DEF MusicType
  <2>3. m \in BOOLEAN
    BY <1>1 DEF MusicType
  <2>4. ~m => Alone(c) /\ Ordering(c)
    BY <2>1 DEF MusicInv
  <2> HIDE DEF m, o
  <2>5. CASE OrderRewinds(c)
    <3>1. /\ music' = [music EXCEPT !.pos = 0] /\ heard' = [bytes |-> 0, met |-> m]
          /\ orders[c].pc = "rewinds"
      BY <2>5 DEF OrderRewinds, m
    <3>2. q \in {"idle", "heads"}
      BY <1>1, <2>5 DEF OrderRewinds, Goes, MusicType
    <3> HIDE DEF q
    <3>3. /\ MusicType' /\ music'.pos = 0 /\ heard'.bytes = 0 /\ heard'.met = m
          /\ music'.runs = music.runs
      BY <1>1, <2>1, <2>2, <2>3, <3>1 DEF MusicType
    <3>4. ~m => ~music.runs
      BY <2>4 DEF Ordering
    <3>5. CASE m
      BY <2>1, <2>2, <3>3, <3>5, <1>1, MetStep
    <3>6. CASE ~m
      BY <2>1, <2>2, <2>4, <3>2, <3>3, <3>4, <3>6, OrderStep
    <3>7. QED  BY <3>5, <3>6
  <2>6. CASE OrderHeads(c)
    <3>1. /\ music' = [music EXCEPT !.head = Start[orders[c].track]]
          /\ heard' = [heard EXCEPT !.met = m] /\ orders[c].pc = "heads"
      BY <2>6 DEF OrderHeads, Meets, m
    <3>2. q = "tails"
      BY <1>1, <2>6 DEF OrderHeads, Goes, MusicType
    <3> HIDE DEF q
    <3>3. /\ MusicType' /\ music'.pos = music.pos /\ heard'.bytes = heard.bytes /\ heard'.met = m
          /\ music'.runs = music.runs /\ music'.head = Start[orders[c].track]
      BY <1>1, <2>1, <2>2, <2>3, <3>1 DEF MusicType
    <3>4. ~m => ~music.runs /\ music.pos = 0 /\ heard.bytes = 0
      BY <2>4, <3>1 DEF Ordering
    <3>5. CASE m
      BY <2>1, <2>2, <3>3, <3>5, <1>1, MetStep
    <3>6. CASE ~m
      BY <2>1, <2>2, <2>4, <3>2, <3>3, <3>4, <3>6, OrderStep
    <3>7. QED  BY <3>5, <3>6
  <2>7. CASE OrderTails(c)
    <3>1. /\ music' = [music EXCEPT !.tail = Tail[orders[c].track]]
          /\ heard' = [heard EXCEPT !.met = m] /\ orders[c].pc = "tails"
      BY <2>7 DEF OrderTails, Meets, m
    <3>2. q = "resumes"
      BY <1>1, <2>7 DEF OrderTails, Goes, MusicType
    <3> HIDE DEF q
    <3>3. /\ MusicType' /\ music'.pos = music.pos /\ heard'.bytes = heard.bytes /\ heard'.met = m
          /\ music'.runs = music.runs /\ music'.head = music.head
          /\ music'.tail = Tail[orders[c].track]
      BY <1>1, <2>1, <2>2, <2>3, <3>1 DEF MusicType
    <3>4. ~m => /\ ~music.runs /\ music.pos = 0 /\ heard.bytes = 0
                /\ music.head = Start[orders[c].track]
      BY <2>4, <3>1 DEF Ordering
    <3>5. CASE m
      BY <2>1, <2>2, <3>3, <3>5, <1>1, MetStep
    <3>6. CASE ~m
      BY <2>1, <2>2, <2>4, <3>2, <3>3, <3>4, <3>6, OrderStep
    <3>7. QED  BY <3>5, <3>6
  <2>8. CASE OrderResumes(c)
    <3>1. /\ music' = [music EXCEPT !.runs = TRUE]
          /\ heard' = [heard EXCEPT !.met = m] /\ orders[c].pc = "resumes"
      BY <2>8 DEF OrderResumes, Meets, m
    <3>2. q = "idle"
      BY <1>1, <2>8 DEF OrderResumes, Goes, MusicType
    <3> HIDE DEF q
    <3>3. /\ MusicType' /\ music'.pos = music.pos /\ heard'.bytes = heard.bytes /\ heard'.met = m
          /\ music'.head = music.head /\ music'.tail = music.tail
      BY <1>1, <2>1, <2>2, <2>3, <3>1 DEF MusicType
    <3>4. CASE m
      BY <2>1, <2>2, <3>3, <3>4, <1>1, MetStep
    <3>5. CASE ~m
      <4>1. ReadsOn(orders[c].track)'
        <5>1. /\ music.pos = 0 /\ heard.bytes = 0 /\ music.head = Start[orders[c].track]
              /\ music.tail = Tail[orders[c].track] /\ reader.pc = "idle"
          BY <2>4, <3>1, <3>5 DEF Ordering
        <5>2. music'.pos <= Length[orders[c].track] /\ 0 <= music'.pos
          BY <1>1, <3>3, <5>1
        <5>3. orders'[c].track = orders[c].track
          BY <2>2
        <5>4. QED  BY <2>1, <3>3, <5>1, <5>2, <5>3 DEF ReadsOn, On
      <4>2. QED  BY <2>1, <2>2, <2>4, <3>2, <3>3, <3>5, <4>1, <1>1, OrderStep
    <3>6. QED  BY <3>4, <3>5
  <2>9. QED  BY <1>3, <2>5, <2>6, <2>7, <2>8
<1>4. QED  BY <1>2, <1>3

\* The invariant of the music is inductive, and ReadsInside follows from it.
LEMMA MusicStep == MusicInv /\ [MusicNext]_musics => MusicInv'
<1> SUFFICES ASSUME MusicInv, [MusicNext]_musics PROVE MusicInv'
  OBVIOUS
<1>1. CASE UNCHANGED musics
  <2>1. UNCHANGED <<music, reader, orders, heard>>
    BY <1>1 DEF musics
  <2>2. MusicType'
    BY <2>1 DEF MusicInv, MusicType
  <2>3. \A t \in Tracks : ReadsOn(t)' <=> ReadsOn(t)
    BY <2>1 DEF ReadsOn, On
  <2>4. \A c \in Callers : Ordering(c)' <=> Ordering(c)
    BY <2>1 DEF Ordering
  <2>5. QED  BY <2>1, <2>2, <2>3, <2>4 DEF MusicInv
<1>2. QED  BY <1>1, ReaderSteps, OrderSteps DEF MusicNext

LEMMA MusicReads == MusicInv => ReadsInside
<1> SUFFICES ASSUME MusicInv, ~heard.met
             PROVE  /\ ~reader.outside
                    /\ music.runs =>
                         /\ reader.pc = "idle" => heard.bytes = music.pos
                         /\ Inside(music.head, music.pos)
                         /\ Inside(music.head, music.tail - music.head)
  BY DEF ReadsInside
<1>1. ~reader.outside
  BY DEF MusicInv
<1>2. ASSUME NEW t \in Tracks, ReadsOn(t)
      PROVE  /\ reader.pc = "idle" => heard.bytes = music.pos
             /\ Inside(music.head, music.pos)
             /\ Inside(music.head, music.tail - music.head)
  <2>1. /\ Start[t] \in Nat /\ Length[t] \in Nat /\ Tail[t] = Start[t] + Length[t]
        /\ music.head = Start[t] /\ music.tail = Tail[t] /\ 0 <= music.pos /\ music.pos \in Int
    BY <1>2, TrackPlaces DEF ReadsOn, On, MusicInv, MusicType
  <2>2. music.pos <= Length[t]
    <3>1. reader.size \in Int /\ (reader.pc # "idle" => reader.size >= 0 /\ music.pos + reader.size <= Length[t])
          /\ (reader.pc = "idle" => music.pos <= Length[t])
      BY <1>2 DEF ReadsOn, MusicInv, MusicType
    <3>2. QED  BY <2>1, <3>1
  <2>3. music.head >= Start[t] /\ music.head + music.pos <= Tail[t]
    BY <2>1, <2>2
  <2>4. music.tail - music.head >= 0 /\ music.head + (music.tail - music.head) <= Tail[t]
    BY <2>1
  <2>5. Inside(music.head, music.pos)
    BY <2>1, <2>3 DEF Inside
  <2>6. Inside(music.head, music.tail - music.head)
    BY <2>3, <2>4 DEF Inside
  <2>7. QED  BY <1>2, <2>5, <2>6 DEF ReadsOn
<1>3. QED  BY <1>1, <1>2 DEF MusicInv

-----------------------------------------------------------------------------
(* The spray.                                                              *)

SprayType ==
  /\ spray \in [state : {0, 1, 2}, time : Nat, mode : {"a", "b"}]
  /\ sprayer \in [pc : {"delays", "sees", "begins", "toggles", "turns", "ends", "clears"},
                  now : Nat, last : Nat, interval : Int, run : BOOLEAN, began : Nat]
  /\ told \in [commands : Nat, quiet : BOOLEAN, met : BOOLEAN, held : BOOLEAN]

\* A spell that is set or runs has a length, which only SprayClears takes away.
SpellHasTime == spray.state # 0 \/ sprayer.pc \in {"begins", "turns", "ends"} => spray.time # 0

\* interval is measured from the begin of this spell, or of the one before when
\* this one begins now.
Measured ==
  /\ sprayer.pc \in {"sees", "begins"} => sprayer.interval = sprayer.now - sprayer.last
  /\ sprayer.pc \in {"toggles", "turns", "ends"} =>
       \/ sprayer.interval = sprayer.now - sprayer.last
       \/ sprayer.now = sprayer.last /\ sprayer.interval = sprayer.now - sprayer.began

\* After a close, a step of the task that was on its way turns on one nozzle at
\* most, and the same round turns it off.
Closing ==
  told.quiet /\ ~told.met =>
    /\ spray.state = 0 /\ sprayer.pc # "begins"
    /\ ~told.held =>
         /\ nozzles \subseteq {spray.mode}
         /\ sprayer.pc \notin {"ends", "clears"} => nozzles = {}
         /\ sprayer.pc = "clears" /\ nozzles # {} => spray.time # 0

SprayInv == SprayType /\ SpellHasTime /\ Measured /\ Closing

\* The spray begins in its invariant.
LEMMA SprayBeginsSo == SprayInit => SprayInv
  BY DEF SprayInit, SprayInv, SprayType, SpellHasTime, Measured, Closing

\* The invariant of the spray is inductive, and no step ends a spell before its time.
LEMMA SprayStep == SprayInv /\ [SprayNext]_sprays => SprayInv' /\ SpellWhole
<1> SUFFICES ASSUME SprayInv, [SprayNext]_sprays PROVE SprayInv' /\ SpellWhole
  OBVIOUS
<1> USE DEF SprayInv, SprayType
<1>1. CASE SprayWakes
  <2> DEFINE n == sprayer.now + 1
             i == n - sprayer.last
  <2>1. /\ sprayer' = [sprayer EXCEPT !.pc = "sees", !.now = n, !.interval = i]
        /\ UNCHANGED <<spray, nozzles, told>> /\ sprayer.pc = "delays"
        /\ n \in Nat /\ i \in Int
    <3>1. n \in Nat /\ i \in Int
      OBVIOUS
    <3> DEFINE r == [sprayer EXCEPT !.pc = "sees"]
    <3>2. r.now = sprayer.now
      OBVIOUS
    <3> HIDE DEF r
    <3>3. sprayer' = [sprayer EXCEPT !.pc = "sees", !.now = n, !.interval = i]
      <4>1. [r EXCEPT !.now = @ + 1] = [r EXCEPT !.now = n]
        BY <3>2
      <4>2. i = sprayer.now + 1 - sprayer.last
        OBVIOUS
      <4> HIDE DEF n, i
      <4>3. QED  BY <1>1, <4>1, <4>2 DEF SprayWakes, r
    <3>4. QED  BY <1>1, <3>1, <3>3 DEF SprayWakes
  <2>2. i = n - sprayer.last
    OBVIOUS
  <2> HIDE DEF n, i
  <2>3. /\ SprayType' /\ sprayer'.pc = "sees" /\ sprayer'.now = n /\ sprayer'.interval = i
        /\ sprayer'.last = sprayer.last
    BY <2>1
  <2>4. QED  BY <2>1, <2>2, <2>3 DEF SpellHasTime, Measured, Closing, SpellWhole
<1>2. CASE SpraySees
  <2> DEFINE p == IF spray.state = 1 /\ spray.time # 0 THEN "begins" ELSE "toggles"
  <2>1. /\ sprayer' = [sprayer EXCEPT !.pc = p] /\ UNCHANGED <<spray, nozzles, told>>
        /\ sprayer.pc = "sees" /\ p \in {"begins", "toggles"}
        /\ (p = "begins" => spray.state = 1 /\ spray.time # 0)
    BY <1>2 DEF SpraySees
  <2> HIDE DEF p
  <2>2. /\ SprayType' /\ sprayer'.pc = p /\ sprayer'.now = sprayer.now
        /\ sprayer'.interval = sprayer.interval /\ sprayer'.last = sprayer.last
        /\ sprayer'.began = sprayer.began
    BY <2>1
  <2>3. QED  BY <2>1, <2>2 DEF SpellHasTime, Measured, Closing, SpellWhole
<1>3. CASE SprayBegins
  <2>1. /\ spray' = [spray EXCEPT !.state = 2] /\ UNCHANGED <<nozzles, told>>
        /\ sprayer' = [sprayer EXCEPT !.pc = "toggles", !.last = sprayer.now, !.began = sprayer.last]
        /\ sprayer.pc = "begins"
    BY <1>3 DEF SprayBegins
  <2>2. /\ SprayType' /\ sprayer'.pc = "toggles" /\ sprayer'.now = sprayer.now
        /\ sprayer'.interval = sprayer.interval /\ sprayer'.last = sprayer.now
        /\ sprayer'.began = sprayer.last /\ spray'.state = 2 /\ spray'.time = spray.time
    BY <2>1
  <2>3. QED  BY <2>1, <2>2 DEF SpellHasTime, Measured, Closing, SpellWhole
<1>4. CASE SprayToggles
  <2>1. /\ UNCHANGED <<spray, nozzles, told>> /\ sprayer.pc = "toggles"
        /\ \E p \in {"turns", "clears"} :
             sprayer' = [sprayer EXCEPT !.pc = p] /\ (p = "turns" <=> spray.state = 2)
    BY <1>4 DEF SprayToggles
  <2>2. PICK p \in {"turns", "clears"} :
          sprayer' = [sprayer EXCEPT !.pc = p] /\ (p = "turns" <=> spray.state = 2)
    BY <2>1
  <2>3. /\ SprayType' /\ sprayer'.pc = p /\ sprayer'.now = sprayer.now
        /\ sprayer'.interval = sprayer.interval /\ sprayer'.last = sprayer.last
        /\ sprayer'.began = sprayer.began
    BY <2>1, <2>2
  <2>4. QED  BY <2>1, <2>2, <2>3 DEF SpellHasTime, Measured, Closing, SpellWhole
<1>5. CASE SprayTurns
  <2>1. /\ UNCHANGED <<spray, told>> /\ sprayer.pc = "turns"
        /\ sprayer' = [sprayer EXCEPT !.pc = "ends", !.run = ~@]
        /\ nozzles' = IF sprayer.run THEN nozzles \ {spray.mode} ELSE nozzles \cup {spray.mode}
    BY <1>5 DEF SprayTurns
  <2>2. /\ SprayType' /\ sprayer'.pc = "ends" /\ sprayer'.now = sprayer.now
        /\ sprayer'.interval = sprayer.interval /\ sprayer'.last = sprayer.last
        /\ sprayer'.began = sprayer.began
    BY <2>1
  <2>3. nozzles = {} => nozzles' \subseteq {spray.mode}
    BY <2>1
  <2>4. QED  BY <2>1, <2>2, <2>3 DEF SpellHasTime, Measured, Closing, SpellWhole
<1>6. CASE SprayEnds
  <2>1. /\ UNCHANGED <<nozzles, told>> /\ sprayer.pc = "ends"
        /\ sprayer' = [sprayer EXCEPT !.pc = "clears"]
        /\ spray' = IF Over5 THEN [spray EXCEPT !.state = 0] ELSE spray
    BY <1>6 DEF SprayEnds
  <2>2. /\ SprayType' /\ sprayer'.pc = "clears" /\ spray'.time = spray.time /\ spray'.mode = spray.mode
        /\ spray'.state \in {0, spray.state}
        /\ spray'.state # spray.state => sprayer.interval >= spray.time
    BY <2>1 DEF Over5
  <2>3. SpellHasTime' /\ Measured' /\ Closing'
    BY <2>1, <2>2 DEF SpellHasTime, Measured, Closing
  <2>4. SpellWhole
    BY <2>1, <2>2 DEF Measured, SpellWhole
  <2>5. QED  BY <2>2, <2>3, <2>4
<1>7. CASE SprayClears
  <2>1. /\ UNCHANGED told /\ sprayer.pc = "clears" /\ sprayer' = [sprayer EXCEPT !.pc = "delays"]
        /\ IF spray.state = 0 /\ spray.time # 0
           THEN spray' = [spray EXCEPT !.time = 0] /\ nozzles' = nozzles \ {spray.mode}
           ELSE UNCHANGED <<spray, nozzles>>
    BY <1>7 DEF SprayClears
  <2>2. /\ SprayType' /\ sprayer'.pc = "delays" /\ spray'.state = spray.state /\ spray'.mode = spray.mode
        /\ spray'.time # spray.time => spray.state = 0
    BY <2>1
  <2>3. SpellHasTime' /\ Measured' /\ SpellWhole
    BY <2>1, <2>2 DEF SpellHasTime, Measured, SpellWhole
  <2>4. Closing'
    <3> SUFFICES ASSUME told.quiet, ~told.met
                 PROVE  spray.state = 0 /\ (~told.held => nozzles' = {})
      BY <2>1, <2>2 DEF Closing
    <3>1. spray.state = 0
      BY DEF Closing
    <3>2. ASSUME ~told.held PROVE nozzles' = {}
      <4>1. nozzles \subseteq {spray.mode} /\ (nozzles # {} => spray.time # 0)
        BY <2>1, <3>2 DEF Closing
      <4>2. QED  BY <2>1, <3>1, <4>1
    <3>3. QED  BY <3>1, <3>2
  <2>5. QED  BY <2>2, <2>3, <2>4
<1>8. ASSUME NEW mode \in {"a", "b"}, SprayIsSet(mode) PROVE SprayInv' /\ SpellWhole
  <2> DEFINE k == told.commands + 1
  <2>1. /\ spray' = [state |-> 1, time |-> SpellTime, mode |-> mode] /\ UNCHANGED <<nozzles, sprayer>>
        /\ told' = [told EXCEPT !.commands = k, !.quiet = FALSE]
        /\ k \in Nat /\ SpellTime \in Nat /\ SpellTime # 0
    BY <1>8, SprayAssumption DEF SprayIsSet
  <2> HIDE DEF k
  <2>2. SprayType' /\ ~told'.quiet /\ spray'.time # 0
    BY <2>1
  <2>3. QED  BY <2>1, <2>2 DEF SpellHasTime, Measured, Closing, SpellWhole
<1>9. CASE SprayIsClosed
  <2> DEFINE k == told.commands + 1
             m == sprayer.pc = "begins"
  <2>1. /\ spray' = [spray EXCEPT !.state = 0] /\ nozzles' = {} /\ UNCHANGED sprayer
        /\ told' = [told EXCEPT !.commands = k, !.quiet = TRUE, !.met = m]
        /\ k \in Nat /\ m \in BOOLEAN
    BY <1>9 DEF SprayIsClosed
  <2>2. ~m => sprayer.pc # "begins"
    OBVIOUS
  <2> HIDE DEF k, m
  <2>3. /\ SprayType' /\ told'.met = m /\ spray'.state = 0 /\ spray'.time = spray.time
        /\ spray'.mode = spray.mode
    BY <2>1
  <2>4. QED  BY <2>1, <2>2, <2>3 DEF SpellHasTime, Measured, Closing, SpellWhole
<1>10. CASE SprayByHand
  <2> DEFINE k == IF told.held THEN told.commands ELSE told.commands + 1
             h == ~told.held
  <2>1. /\ UNCHANGED <<spray, sprayer>> /\ nozzles' = IF told.held THEN {} ELSE {"a", "b"}
        /\ told' = [told EXCEPT !.held = h, !.commands = k]
        /\ k \in Nat /\ h \in BOOLEAN
    BY <1>10 DEF SprayByHand
  <2>2. ~h => nozzles' = {}
    BY <2>1
  <2> HIDE DEF k, h
  <2>3. SprayType' /\ told'.held = h /\ told'.quiet = told.quiet /\ told'.met = told.met
    BY <2>1
  <2>4. QED  BY <2>1, <2>2, <2>3 DEF SpellHasTime, Measured, Closing, SpellWhole
<1>11. CASE UNCHANGED sprays
  BY <1>11 DEF sprays, SpellHasTime, Measured, Closing, SpellWhole
<1>12. QED
  BY <1>1, <1>2, <1>3, <1>4, <1>5, <1>6, <1>7, <1>8, <1>9, <1>10, <1>11 DEF SprayNext

\* After a close nothing sprays once the task is back in its delay.
LEMMA SprayQuiet == SprayInv => SprayStops
  BY DEF SprayInv, SprayType, Closing, SprayStops

-----------------------------------------------------------------------------
(* The lamp.                                                               *)

LightType ==
  /\ light \in [fade : BOOLEAN, hold : BOOLEAN, nightly : BOOLEAN]
  /\ duty \in [Colours -> Nat] /\ flag \in [Colours -> BOOLEAN]
  /\ fader \in [pc : {"looks", "opens", "rises", "falls", "closes"}, of : Colours, i : Nat]
  /\ lamp \in [pc : {"idle", "rises"}, of : Colours, i : Nat]
  /\ asked \in [commands : Nat, off : BOOLEAN, met : BOOLEAN]

\* A fade goes up to Top and down to 0.
FadeAt ==
  /\ fader.pc \in {"opens", "rises"} => fader.i < Top
  /\ fader.pc = "falls" => fader.i > 0

\* Somebody is at the brightness of c.
Raised(c) ==
  \/ lamp.pc = "rises" /\ lamp.of = c
  \/ fader.pc \in {"rises", "falls"} /\ fader.of = c

\* One colour at a time is raised, and a colour that shines is flagged or being
\* raised, so that the next to raise the other one stops it.
OneShines ==
  ~asked.met =>
    /\ lamp.pc = "rises" => ~Busy /\ duty[Other(lamp.of)] = 0
    /\ Busy => duty[Other(fader.of)] = 0
    /\ \A c \in Colours : duty[c] # 0 => flag[c] \/ Raised(c)
    /\ \E c \in Colours : duty[c] = 0
    /\ asked.off => /\ lamp.pc = "idle"
                    /\ \A c \in Colours : duty[c] # 0 => Busy /\ fader.of = c

LightInv == LightType /\ FadeAt /\ OneShines

\* There are two colours, each the other of the other.
LEMMA Two ==
  \A c \in Colours : /\ Other(c) \in Colours /\ Other(c) # c /\ Other(Other(c)) = c
                     /\ \A d \in Colours : d = c \/ d = Other(c)
  BY DEF Colours, Other

\* The lamp begins in its invariant.
LEMMA LightBegins == LightInit => LightInv
<1> SUFFICES ASSUME LightInit PROVE LightInv
  OBVIOUS
<1>1. "during" \in Colours /\ Top \in Nat /\ Top > 0
  BY LightAssumption DEF Colours
<1>2. LightType
  BY <1>1 DEF LightInit, LightType
<1>3. FadeAt
  BY DEF LightInit, FadeAt
<1>4. OneShines
  BY <1>1 DEF LightInit, OneShines, Busy
<1>5. QED  BY <1>2, <1>3, <1>4 DEF LightInv

\* A colour that is stopped.
LEMMA StoppedIs ==
  ASSUME LightType, NEW c \in Colours, Stopped(c)
  PROVE  /\ duty' \in [Colours -> Nat] /\ flag' \in [Colours -> BOOLEAN]
         /\ duty'[c] = 0
         /\ \A d \in Colours : d # c => duty'[d] = duty[d] /\ flag'[d] = flag[d]
  BY DEF LightType, Stopped

\* Turning one colour off keeps what holds of the other.
LEMMA StopKeeps ==
  ASSUME LightInv, LightType', NEW c \in Colours, Stopped(c),
         asked'.met = asked.met, asked'.off = asked.off,
         lamp'.pc = lamp.pc, lamp'.of = lamp.of, fader'.of = fader.of,
         fader'.pc = fader.pc \/ (fader.pc = "closes" /\ fader'.pc = "looks"),
         fader'.i = fader.i
  PROVE  LightInv'
<1>1. /\ duty'[c] = 0
      /\ \A d \in Colours : d # c => duty'[d] = duty[d] /\ flag'[d] = flag[d]
  BY StoppedIs DEF LightInv
<1>2. (Busy' <=> Busy) /\ \A d \in Colours : Raised(d)' <=> Raised(d)
  BY DEF Busy, Raised
<1>3. FadeAt'
  BY DEF LightInv, FadeAt
<1>4. \A d \in Colours : duty'[d] # 0 => duty[d] # 0 /\ flag'[d] = flag[d]
  BY <1>1
<1>5. lamp.of \in Colours /\ fader.of \in Colours
  BY DEF LightInv, LightType
<1>6. OneShines'
  <2> SUFFICES ASSUME ~asked.met
               PROVE  /\ lamp'.pc = "rises" => ~Busy' /\ duty'[Other(lamp'.of)] = 0
                      /\ Busy' => duty'[Other(fader'.of)] = 0
                      /\ \A d \in Colours : duty'[d] # 0 => flag'[d] \/ Raised(d)'
                      /\ \E d \in Colours : duty'[d] = 0
                      /\ asked'.off => /\ lamp'.pc = "idle"
                                       /\ \A d \in Colours : duty'[d] # 0 => Busy' /\ fader'.of = d
    BY DEF OneShines
  <2>1. lamp'.pc = "rises" => ~Busy' /\ duty'[Other(lamp'.of)] = 0
    BY <1>2, <1>4, <1>5, Two DEF LightInv, OneShines
  <2>2. Busy' => duty'[Other(fader'.of)] = 0
    BY <1>2, <1>4, <1>5, Two DEF LightInv, OneShines
  <2>3. \A d \in Colours : duty'[d] # 0 => flag'[d] \/ Raised(d)'
    BY <1>2, <1>4 DEF LightInv, OneShines
  <2>4. \E d \in Colours : duty'[d] = 0
    BY <1>1
  <2>5. asked'.off => /\ lamp'.pc = "idle"
                      /\ \A d \in Colours : duty'[d] # 0 => Busy' /\ fader'.of = d
    BY <1>2, <1>4 DEF LightInv, OneShines
  <2>6. QED  BY <2>1, <2>2, <2>3, <2>4, <2>5
<1>7. QED  BY <1>3, <1>6 DEF LightInv

\* A fade that starts leaves the brightness as it is.
LEMMA FadeStartsStep == ASSUME LightInv, FadeStarts PROVE LightInv'
<1> DEFINE m == asked.met \/ lamp.pc = "rises"
           k == Colour
<1>1. /\ fader.pc = "looks" /\ fader' = [pc |-> "opens", of |-> k, i |-> 0]
      /\ IF flag[Other(k)] THEN Stopped(Other(k)) ELSE UNCHANGED <<duty, flag>>
      /\ asked' = [asked EXCEPT !.met = m] /\ UNCHANGED <<light, lamp>>
      /\ m \in BOOLEAN /\ k \in Colours /\ LightType /\ Top \in Nat /\ Top > 0
  BY LightAssumption DEF FadeStarts, LightInv, LightType, Colour, Colours
<1>2. ~m => ~asked.met /\ lamp.pc = "idle"
  BY <1>1 DEF LightType
<1> HIDE DEF m, k
<1>3. /\ fader'.pc = "opens" /\ fader'.of = k /\ fader'.i = 0 /\ asked'.met = m /\ asked'.off = asked.off
  BY <1>1 DEF LightType
<1>4. /\ duty' \in [Colours -> Nat] /\ flag' \in [Colours -> BOOLEAN]
      /\ \A d \in Colours : duty'[d] # 0 => duty'[d] = duty[d] /\ flag'[d] = flag[d]
      /\ flag[Other(k)] => duty'[Other(k)] = 0
  <2>1. Other(k) \in Colours
    BY <1>1, Two
  <2>2. CASE flag[Other(k)]
    BY <1>1, <2>1, <2>2, StoppedIs
  <2>3. CASE ~flag[Other(k)]
    BY <1>1, <2>3 DEF LightType
  <2>4. QED  BY <2>2, <2>3
<1>5. LightType'
  BY <1>1, <1>4 DEF LightType
<1>6. FadeAt'
  BY <1>1, <1>3 DEF FadeAt
<1>7. CASE m
  BY <1>3, <1>5, <1>6, <1>7 DEF LightInv, OneShines
<1>8. CASE ~m
  <2>1. \A d \in Colours : duty[d] # 0 => flag[d]
    BY <1>1, <1>2, <1>8 DEF LightInv, OneShines, Raised
  <2>2. duty'[Other(k)] = 0 /\ Other(k) \in Colours
    BY <1>1, <1>4, <2>1, Two
  <2>3. \A d \in Colours : duty'[d] # 0 => flag'[d]
    BY <1>4, <2>1
  <2>4. asked.off => \A d \in Colours : duty'[d] = 0
    BY <1>1, <1>2, <1>4, <1>8 DEF LightInv, OneShines, Busy
  <2>5. QED  BY <1>1, <1>2, <1>3, <1>5, <1>6, <1>8, <2>2, <2>3, <2>4 DEF LightInv, OneShines
<1>9. QED  BY <1>7, <1>8

\* A fade is opened for the colour that is not flagged.
LEMMA FadeOpensStep == ASSUME LightInv, FadeOpens PROVE LightInv'
<1>1. /\ fader.pc = "opens" /\ flag' = [flag EXCEPT ![fader.of] = TRUE]
      /\ fader' = [fader EXCEPT !.pc = "rises"] /\ UNCHANGED <<light, duty, lamp, asked>>
      /\ LightType
  BY DEF FadeOpens, LightInv
<1>2. /\ LightType' /\ fader'.pc = "rises" /\ fader'.of = fader.of /\ fader'.i = fader.i
      /\ \A d \in Colours : flag[d] => flag'[d]
  BY <1>1 DEF LightType
<1>3. Busy' /\ Busy /\ \A d \in Colours : Raised(d) => Raised(d)'
  BY <1>1, <1>2 DEF Busy, Raised
<1>4. FadeAt'
  BY <1>1, <1>2 DEF LightInv, FadeAt
<1>5. OneShines'
  BY <1>1, <1>2, <1>3 DEF LightInv, OneShines
<1>6. QED  BY <1>2, <1>4, <1>5 DEF LightInv

\* The fade sets its colour to n.
LEMMA FadeSets ==
  ASSUME LightInv, LightType', fader.pc \in {"rises", "falls"}, NEW n \in Nat,
         duty' = [duty EXCEPT ![fader.of] = n], UNCHANGED <<flag, lamp, asked>>,
         fader'.of = fader.of, fader'.pc \in {"rises", "falls"} \/ n = 0, FadeAt'
  PROVE  LightInv'
<1>1. fader.of \in Colours /\ duty \in [Colours -> Nat] /\ Other(fader.of) \in Colours
      /\ Other(fader.of) # fader.of
  BY Two DEF LightInv, LightType
<1>2. duty'[fader.of] = n /\ \A d \in Colours : d # fader.of => duty'[d] = duty[d]
  BY <1>1
<1> SUFFICES ASSUME ~asked.met PROVE OneShines'
  BY DEF LightInv, OneShines
<1>3. Busy /\ lamp.pc = "idle" /\ duty[Other(fader.of)] = 0
  BY DEF LightInv, OneShines, Busy, LightType
<1>4. duty'[Other(fader.of)] = 0 /\ \A d \in Colours : duty'[d] # 0 => d = fader.of /\ n # 0
  BY <1>1, <1>2, <1>3, Two
<1>5. n # 0 => Raised(fader.of)' /\ Busy'
  BY DEF Raised, Busy
<1>6. QED  BY <1>1, <1>3, <1>4, <1>5 DEF OneShines

\* A fade goes up or down by one.
LEMMA FadeMovesStep == ASSUME LightInv, FadeRises \/ FadeFalls PROVE LightInv'
<1>0. LightType /\ FadeAt /\ Top \in Nat
  BY LightAssumption DEF LightInv
<1>1. CASE FadeRises
  <2> DEFINE n == fader.i + 1
             p == IF n = Top THEN "falls" ELSE "rises"
  <2>1. /\ fader' = [fader EXCEPT !.pc = p, !.i = @ + 1] /\ fader.pc = "rises"
        /\ duty' = [duty EXCEPT ![fader.of] = n] /\ UNCHANGED <<light, flag, lamp, asked>>
    BY <1>1 DEF FadeRises
  <2>2. /\ n \in Nat /\ p \in {"rises", "falls"} /\ n > 0 /\ (p = "rises" => n < Top)
    BY <1>0, <2>1 DEF LightType, FadeAt
  <2>3. fader' \in [pc : {"rises", "falls"}, of : Colours, i : Nat]
        /\ fader'.pc = p /\ fader'.i = n /\ fader'.of = fader.of
    BY <1>0, <2>1, <2>2 DEF LightType
  <2> HIDE DEF n, p
  <2>4. LightType' /\ FadeAt'
    BY <1>0, <2>1, <2>2, <2>3 DEF LightType, FadeAt
  <2>5. QED  BY <2>1, <2>2, <2>3, <2>4, FadeSets
<1>2. CASE FadeFalls
  <2> DEFINE n == fader.i - 1
             p == IF fader.i = 1 THEN "closes" ELSE "falls"
  <2>1. /\ fader' = [fader EXCEPT !.pc = p, !.i = @ - 1] /\ fader.pc = "falls"
        /\ duty' = [duty EXCEPT ![fader.of] = n] /\ UNCHANGED <<light, flag, lamp, asked>>
    BY <1>2 DEF FadeFalls
  <2>2. /\ n \in Nat /\ p \in {"closes", "falls"} /\ (p = "falls" => n > 0) /\ (p = "closes" => n = 0)
    BY <1>0, <2>1 DEF LightType, FadeAt
  <2>3. fader' \in [pc : {"closes", "falls"}, of : Colours, i : Nat]
        /\ fader'.pc = p /\ fader'.i = n /\ fader'.of = fader.of
    BY <1>0, <2>1, <2>2 DEF LightType
  <2> HIDE DEF n, p
  <2>4. LightType' /\ FadeAt'
    BY <1>0, <2>1, <2>2, <2>3 DEF LightType, FadeAt
  <2>5. QED  BY <2>1, <2>2, <2>3, <2>4, FadeSets
<1>3. QED  BY <1>1, <1>2

\* A fade that closes turns its colour off.
LEMMA FadeClosesStep == ASSUME LightInv, FadeCloses PROVE LightInv'
<1>1. /\ fader.pc = "closes" /\ fader' = [fader EXCEPT !.pc = "looks"] /\ UNCHANGED <<lamp, asked>>
      /\ LightType
      /\ \/ light' = [light EXCEPT !.fade = FALSE] /\ UNCHANGED <<duty, flag>>
         \/ Stopped(Other(Colour)) /\ UNCHANGED light
  BY DEF FadeCloses, LightInv
<1>2. fader' \in [pc : {"looks"}, of : Colours, i : Nat] /\ fader'.pc = "looks"
      /\ fader'.of = fader.of /\ fader'.i = fader.i
  BY <1>1 DEF LightType
<1>3. CASE light' = [light EXCEPT !.fade = FALSE] /\ UNCHANGED <<duty, flag>>
  <2>1. LightType'
    BY <1>1, <1>2, <1>3 DEF LightType
  <2>2. ~Busy /\ ~Busy' /\ FadeAt' /\ \A d \in Colours : Raised(d)' <=> Raised(d)
    BY <1>1, <1>2 DEF Busy, FadeAt, Raised
  <2>3. OneShines'
    BY <1>1, <1>2, <1>3, <2>2 DEF LightInv, OneShines
  <2>4. QED  BY <2>1, <2>2, <2>3 DEF LightInv
<1>4. CASE Stopped(Other(Colour)) /\ UNCHANGED light
  <2> DEFINE c == Other(Colour)
  <2>1. c \in Colours
    BY DEF Colour, Colours, Other
  <2> HIDE DEF c
  <2>2. Stopped(c)
    BY <1>4 DEF c
  <2>3. LightType'
    BY <1>1, <1>2, <1>4, <2>1, <2>2, StoppedIs DEF LightType
  <2>4. QED  BY <1>1, <1>2, <2>1, <2>2, <2>3, StopKeeps
<1>5. QED  BY <1>1, <1>3, <1>4

\* A program that tells the lamp to fade or to hold leaves the colours alone.
LEMMA ProgramStep ==
  ASSUME LightInv,
         ProgramDims \/ \E hold, nightly \in BOOLEAN : ProgramFades(hold, nightly)
  PROVE  LightInv'
<1> DEFINE k == asked.commands + 1
<1>0. LightType /\ k \in Nat
  BY DEF LightInv, LightType
<1>1. ASSUME NEW hold \in BOOLEAN, NEW nightly \in BOOLEAN, ProgramFades(hold, nightly)
      PROVE  LightInv'
  <2>1. /\ light' = [fade |-> TRUE, hold |-> hold, nightly |-> nightly]
        /\ asked' = [asked EXCEPT !.commands = k, !.off = FALSE]
        /\ UNCHANGED <<duty, flag, fader, lamp>>
    BY <1>1 DEF ProgramFades
  <2> HIDE DEF k
  <2>2. LightType' /\ ~asked'.off /\ asked'.met = asked.met
    BY <1>0, <2>1 DEF LightType
  <2>3. FadeAt' /\ OneShines'
    BY <2>1, <2>2 DEF LightInv, FadeAt, OneShines, Busy, Raised
  <2>4. QED  BY <2>2, <2>3 DEF LightInv
<1>2. CASE ProgramDims
  <2>1. /\ light' = [fade |-> FALSE, hold |-> FALSE, nightly |-> FALSE]
        /\ asked' = [asked EXCEPT !.commands = k] /\ Stopped("during") /\ UNCHANGED <<fader, lamp>>
        /\ "during" \in Colours
    BY <1>2 DEF ProgramDims, Colours
  <2> HIDE DEF k
  <2>2. LightType' /\ asked'.off = asked.off /\ asked'.met = asked.met
    BY <1>0, <2>1, StoppedIs DEF LightType
  <2>3. QED  BY <2>1, <2>2, StopKeeps
<1>3. QED  BY <1>1, <1>2

\* Turning everything off while nobody raises a colour.
LEMMA TurnsOffStep ==
  ASSUME LightInv, NEW nightly \in BOOLEAN, TurnsOff(nightly)
  PROVE  LightInv'
<1> DEFINE k == asked.commands + 1
           m == (Busy /\ asked.met) \/ lamp.pc = "rises"
<1>1. /\ light' = [fade |-> FALSE, hold |-> FALSE, nightly |-> nightly]
      /\ duty' = [c \in Colours |-> 0] /\ asked' = [commands |-> k, off |-> TRUE, met |-> m]
      /\ UNCHANGED <<flag, fader, lamp>> /\ LightType /\ k \in Nat /\ m \in BOOLEAN
  BY DEF TurnsOff, LightInv, LightType
<1>2. ~m => lamp.pc = "idle"
  BY <1>1 DEF LightType
<1> HIDE DEF k, m
<1>3. LightType' /\ asked'.met = m /\ \A c \in Colours : duty'[c] = 0
  BY <1>1 DEF LightType
<1>4. FadeAt'
  BY <1>1 DEF LightInv, FadeAt
<1>5. "during" \in Colours /\ Other(fader.of) \in Colours
  BY <1>1, Two DEF Colours, LightType
<1>6. OneShines'
  BY <1>1, <1>2, <1>3, <1>5 DEF OneShines
<1>7. QED  BY <1>3, <1>4, <1>6 DEF LightInv

\* The lamp key stops the other colour before it raises its own.
LEMMA LampStartsStep ==
  ASSUME LightInv, NEW nightly \in BOOLEAN, LampStarts(nightly)
  PROVE  LightInv'
<1> DEFINE k == asked.commands + 1
           m == asked.met \/ Busy
           c == IF nightly THEN "during" ELSE "nightly"
<1>1. /\ light' = [light EXCEPT !.nightly = nightly]
      /\ lamp' = [pc |-> "rises", of |-> c, i |-> 0]
      /\ IF flag[Other(c)] THEN Stopped(Other(c)) ELSE UNCHANGED <<duty, flag>>
      /\ asked' = [commands |-> k, off |-> FALSE, met |-> m] /\ fader' = fader
      /\ lamp.pc = "idle" /\ LightType /\ k \in Nat /\ m \in BOOLEAN /\ c \in Colours
  BY DEF LampStarts, LightInv, LightType, Colours
<1>2. ~m => ~asked.met /\ ~Busy
  OBVIOUS
<1> HIDE DEF k, m, c
<1>3. /\ duty' \in [Colours -> Nat] /\ flag' \in [Colours -> BOOLEAN]
      /\ \A d \in Colours : duty'[d] # 0 => duty'[d] = duty[d] /\ flag'[d] = flag[d]
      /\ flag[Other(c)] => duty'[Other(c)] = 0
  <2>1. Other(c) \in Colours
    BY <1>1, Two
  <2>2. CASE flag[Other(c)]
    BY <1>1, <2>1, <2>2, StoppedIs
  <2>3. CASE ~flag[Other(c)]
    BY <1>1, <2>3 DEF LightType
  <2>4. QED  BY <2>2, <2>3
<1>4. LightType' /\ lamp'.pc = "rises" /\ lamp'.of = c /\ ~asked'.off /\ asked'.met = m
  BY <1>1, <1>3 DEF LightType
<1>5. FadeAt'
  BY <1>1 DEF LightInv, FadeAt
<1>6. CASE m
  BY <1>4, <1>5, <1>6 DEF LightInv, OneShines
<1>7. CASE ~m
  <2>1. \A d \in Colours : duty[d] # 0 => flag[d]
    BY <1>1, <1>2, <1>7 DEF LightInv, OneShines, Raised, Busy
  <2>2. duty'[Other(c)] = 0 /\ Other(c) \in Colours
    BY <1>1, <1>3, <2>1, Two
  <2>3. \A d \in Colours : duty'[d] # 0 => flag'[d]
    BY <1>3, <2>1
  <2>4. ~Busy'
    BY <1>1, <1>2, <1>7 DEF Busy
  <2>5. QED  BY <1>4, <1>5, <1>7, <2>2, <2>3, <2>4 DEF LightInv, OneShines
<1>8. QED  BY <1>6, <1>7

\* The lamp key raises its colour by one.
LEMMA LampRisesStep == ASSUME LightInv, LampRises PROVE LightInv'
<1> DEFINE n == lamp.i + 1
           p == IF n = Top THEN "idle" ELSE "rises"
           c == lamp.of
           f == flag[c] \/ n = Top
<1>1. /\ lamp' = [lamp EXCEPT !.pc = p, !.i = @ + 1] /\ lamp.pc = "rises"
      /\ duty' = [duty EXCEPT ![c] = n] /\ flag' = [flag EXCEPT ![c] = f]
      /\ UNCHANGED <<light, fader, asked>>
  BY DEF LampRises
<1>2. /\ LightType /\ n \in Nat /\ n > 0 /\ p \in {"idle", "rises"} /\ f \in BOOLEAN /\ c \in Colours
      /\ (p = "idle" => f) /\ (flag[c] => f)
  BY DEF LightInv, LightType
<1>3. /\ lamp' \in [pc : {"idle", "rises"}, of : Colours, i : Nat] /\ lamp'.pc = p
      /\ lamp'.of = c
  BY <1>1, <1>2 DEF LightType
<1> HIDE DEF n, p, c, f
<1>4. /\ LightType' /\ duty'[c] = n /\ flag'[c] = f
      /\ \A d \in Colours : d # c => duty'[d] = duty[d] /\ flag'[d] = flag[d]
  BY <1>1, <1>2, <1>3 DEF LightType
<1>5. FadeAt'
  BY <1>1 DEF LightInv, FadeAt
<1>6. ASSUME ~asked.met
      PROVE  /\ ~Busy' /\ duty'[Other(c)] = 0 /\ ~asked.off
             /\ \A d \in Colours : duty'[d] # 0 => flag'[d] \/ Raised(d)'
  <2>1. ~Busy /\ duty[Other(c)] = 0 /\ ~asked.off
    BY <1>1, <1>2, <1>6 DEF LightInv, OneShines, c
  <2>2. ~Busy' /\ Other(c) \in Colours /\ Other(c) # c
    BY <1>1, <1>2, <2>1, Two DEF Busy
  <2>3. duty'[Other(c)] = 0
    BY <1>4, <2>1, <2>2
  <2>4. ASSUME NEW d \in Colours, duty'[d] # 0 PROVE flag'[d] \/ Raised(d)'
    <3>1. d = c
      BY <1>2, <2>3, <2>4, Two
    <3>2. QED  BY <1>2, <1>3, <1>4, <3>1 DEF Raised
  <2>5. QED  BY <2>1, <2>2, <2>3, <2>4
<1>7. Other(c) \in Colours
  BY <1>2, Two
<1>8. OneShines'
  BY <1>1, <1>3, <1>6, <1>7 DEF OneShines
<1>9. QED  BY <1>4, <1>5, <1>8 DEF LightInv

\* The invariant of the lamp is inductive.
LEMMA LightStep == LightInv /\ [LightNext]_lights => LightInv'
<1> SUFFICES ASSUME LightInv, [LightNext]_lights PROVE LightInv'
  OBVIOUS
<1>1. CASE UNCHANGED lights
  BY <1>1 DEF lights, LightInv, LightType, FadeAt, OneShines, Busy, Raised
<1>2. CASE KeyTurnsOff \/ ProgramCloses
  <2>1. light.nightly \in BOOLEAN
    BY DEF LightInv, LightType
  <2>2. QED  BY <1>2, <2>1, TurnsOffStep DEF KeyTurnsOff, ProgramCloses
<1>3. CASE LampStarts(TRUE) \/ LampStarts(FALSE)
  BY <1>3, LampStartsStep
<1>4. CASE ProgramFades(FALSE, TRUE) \/ ProgramFades(FALSE, FALSE) \/ ProgramFades(TRUE, TRUE) \/ ProgramDims
  BY <1>4, ProgramStep
<1>5. QED
  BY <1>1, <1>2, <1>3, <1>4, FadeStartsStep, FadeOpensStep, FadeMovesStep, FadeClosesStep,
     LampRisesStep DEF LightNext

\* LampObeys follows from it.
LEMMA LampKeeps == LightInv => LampObeys
<1> SUFFICES ASSUME LightInv, ~asked.met
             PROVE  /\ duty["during"] = 0 \/ duty["nightly"] = 0
                    /\ asked.off /\ ~Busy /\ lamp.pc = "idle" => \A c \in Colours : duty[c] = 0
  BY DEF LampObeys
<1>1. QED  BY DEF LightInv, OneShines, Colours

-----------------------------------------------------------------------------
(* The programs.                                                           *)

AromaType ==
  [mode : {"none", "getup", "sleep"}, paused : BOOLEAN, until : Int, getup : Int, sleep : Int,
   local : Int, play : BOOLEAN, sounds : BOOLEAN, made : BOOLEAN, fade : BOOLEAN, hold : BOOLEAN,
   spray : BOOLEAN, view : {"idle", "config"}, config : {"idle", "local", "getup", "sleep"},
   edits : {"local", "getup", "sleep"}, timeout : Int, change : Int]
TimesType == [getup : Int, sleep : Int, local : Int]
Waiting == {"delays", "repeats", "pauses", "runs"}
ViewType ==
  [pc : {"boots", "writes", "loops"} \cup Waiting, of : {"none", "getup", "sleep"}, now : Int]
MainType ==
  [pc : {"idle", "shows", "pauses", "runs", "opens", "writes", "sets"},
   held : {"none", "stop", "sun", "moon", "set"}, long : BOOLEAN, presses : Nat, steps : Nat]
SeenType == [quiet : BOOLEAN, met : BOOLEAN, age : Int, set : BOOLEAN, rang : Int, want : Int]

ControlType ==
  /\ aroma \in AromaType /\ file \in TimesType
  /\ view \in ViewType
  /\ main \in MainType
  /\ clock \in [now : Int, ticks : Nat, ran : BOOLEAN, crashes : Nat]
  /\ seen \in SeenType

\* How far the clock is ahead of an iteration that waits, and how far a program may be over its
\* time until the view has looked at it again: in a wait of the get-up program it has not yet.
Late == IF clock.ran THEN 0 ELSE 1
Slack ==
  CASE Met /\ view.of = "getup" -> 2 + Late
    [] Met /\ view.of # "getup" -> Late
    [] OTHER -> 2 * Late

\* The time since the alarm of the program that runs.
Since == Now - (IF aroma.mode = "getup" THEN aroma.getup ELSE aroma.sleep)

\* As long as nobody set the times, the age of a program is no more than the
\* time since its alarm less what the alarm was set back by, and the view ends
\* the program by that time. A sleep program found after a wait of the other
\* one was started in it.
Timely == ~seen.set =>
  /\ aroma.view # "config"
  /\ Met => view.now <= Now /\ Now <= view.now + Late
  /\ aroma.mode # "none" => seen.age + Min2(Back) <= Since /\ Since <= Min2(Over) + Slack
  /\ Met /\ view.of = "getup" /\ aroma.mode = "sleep" => seen.age <= Now - view.now

\* No program runs and no key is handled before the loop of the view.
Booting == view.pc \in {"boots", "writes"} =>
  aroma.mode = "none" /\ main.held = "none" /\ main.pc = "idle"

\* StopIsKept, and that nobody is about to start the music.
Hushed == seen.quiet =>
  /\ aroma.mode = "none" /\ ~aroma.spray /\ main.pc \notin {"pauses", "runs"}
  /\ ~seen.met => ~aroma.fade /\ ~aroma.play /\ ~aroma.sounds /\ ~Met

ControlInv == ControlType /\ Timely /\ Booting /\ Hushed

\* What the module assumes of the constants, one by one.
LEMMA Bounds ==
  /\ Over \in Nat /\ Back \in Nat /\ Back <= Over /\ SleepMid \in Nat /\ SleepMid <= Over
  /\ {LightAt, MusicAt, RepeatAt, HoldAt, GetupLead, SleepLead, PauseTime, ConfigTime,
      Stride, ClockSlack} \subseteq Nat
  /\ Starts \subseteq Nat
  /\ PerHour \in Nat \ {0} /\ HoursPerDay \in Nat \ {0}
  BY ControlAssumption

\* A day is a whole number of instants, and not none.
LEMMA DayIs == Day \in Int /\ Day > 0 /\ Day \div 2 \in Int /\ Day \div 4 \in Int
<1>1. PerHour \in Nat \ {0} /\ HoursPerDay \in Nat \ {0}
  BY Bounds
<1>2. HoursPerDay * PerHour \in Int /\ HoursPerDay * PerHour > 0
  BY ONLY <1>1
<1>3. Day \in Int /\ Day > 0
  BY <1>2 DEF Day, Hours, Min2
<1> QED
  BY <1>3

\* An hour is a whole number of instants.
LEMMA RestedIs == Rested \in Int
  BY Bounds DEF Rested, Min2

\* What the tasks do to the lamp and the music leaves the program and the spray as they are.
Alike(a, b) ==
  /\ b \in AromaType /\ b.mode = a.mode /\ b.getup = a.getup /\ b.sleep = a.sleep /\ b.view = a.view
  /\ b.spray = a.spray

LEMMA LedcAlike ==
  ASSUME NEW a \in AromaType, NEW e \in BOOLEAN, NEW p \in BOOLEAN PROVE Alike(a, SetLedc(a, e, p))
  BY DEF AromaType, Alike, SetLedc
LEMMA StopAlike == ASSUME NEW a \in AromaType PROVE Alike(a, StopMusic(a))
  BY DEF AromaType, Alike, StopMusic
LEMMA ResumeAlike == ASSUME NEW a \in AromaType PROVE Alike(a, Resume(a))
  BY DEF AromaType, Alike, Resume
LEMMA AlikeAlike ==
  ASSUME NEW a, NEW b, NEW c, Alike(a, b), Alike(b, c) PROVE Alike(a, c)
  BY DEF Alike
LEMMA RepeatAlike == ASSUME NEW a \in AromaType PROVE Alike(a, Resume(StopMusic(a)))
<1> DEFINE b == StopMusic(a)
<1>1. b \in AromaType /\ Alike(a, b)
  BY StopAlike DEF Alike
<1> HIDE DEF b
<1> QED
  BY <1>1, ResumeAlike, AlikeAlike DEF b
LEMMA PlayBeginsAlike == ASSUME NEW a \in AromaType PROVE Alike(a, PlayBegins(a))
<1>1. Alike(a, [a EXCEPT !.sounds = FALSE])
  BY DEF AromaType, Alike
<1> QED
  BY <1>1, RepeatAlike DEF PlayBegins
LEMMA PlayEndsAlike == ASSUME NEW a \in AromaType, NEW pc PROVE Alike(a, PlayEnds(a, pc))
<1>1. Alike(a, [a EXCEPT !.sounds = TRUE, !.made = TRUE])
  BY DEF AromaType, Alike
<1>2. CASE pc = "runs"
  BY <1>1, <1>2 DEF PlayEnds
<1>3. CASE pc # "runs"
  BY <1>3, RepeatAlike DEF PlayEnds
<1> QED
  BY <1>2, <1>3

\* Both programs end with the light and the spray off and the times shown.
LEMMA EndedIs ==
  ASSUME NEW a \in AromaType
  PROVE  /\ Ended(a) \in AromaType /\ Ended(a).mode = "none" /\ Ended(a).view = "idle"
         /\ Ended(a).getup = a.getup /\ Ended(a).sleep = a.sleep
         /\ ~Ended(a).fade /\ ~Ended(a).spray
<1>1. [a EXCEPT !.mode = "none"] \in AromaType
  BY DEF AromaType
<1> DEFINE b == [a EXCEPT !.mode = "none"]
<1>2. b.mode = "none" /\ b.getup = a.getup /\ b.sleep = a.sleep
  BY DEF AromaType
<1>3. SetLedc(b, FALSE, FALSE) \in AromaType /\ ~SetLedc(b, FALSE, FALSE).fade
      /\ Alike(b, SetLedc(b, FALSE, FALSE))
  <2> HIDE DEF b
  <2>1. b \in AromaType
    BY <1>1 DEF b
  <2>2. ~SetLedc(b, FALSE, FALSE).fade
    BY <2>1 DEF SetLedc, AromaType
  <2> QED BY <2>1, <2>2, LedcAlike DEF Alike
<1> DEFINE c == SetLedc(b, FALSE, FALSE)
<1>4. Ended(a) = [c EXCEPT !.spray = FALSE, !.view = "idle"]
  BY DEF Ended, Close
<1> HIDE DEF c, b
<1> QED
  BY <1>2, <1>3, <1>4, ZenonT(40) DEF c, AromaType, Alike

\* The get-up program begins with its alarm set back.
LEMMA GetupBeginsIs ==
  ASSUME NEW a \in AromaType, NEW n \in Int
  PROVE  /\ GetupBegins(a, n) \in AromaType /\ GetupBegins(a, n).mode = "getup"
         /\ GetupBegins(a, n).getup = n - Min2(Back) /\ GetupBegins(a, n).sleep = a.sleep
         /\ GetupBegins(a, n).view = a.view /\ ~GetupBegins(a, n).paused
<1> DEFINE b == SetSpray(a)
<1>1. b \in AromaType /\ b.sleep = a.sleep /\ b.view = a.view
  BY DEF AromaType, SetSpray
<1>2. n - Min2(Back) \in Int
  BY Bounds DEF Min2
<1> HIDE DEF b
<1>3. GetupBegins(a, n) = [b EXCEPT !.getup = n - Min2(Back), !.mode = "getup", !.paused = FALSE]
  BY DEF GetupBegins, b
<1> QED
  BY <1>1, <1>2, <1>3, ZenonT(40) DEF AromaType

\* So does the sleep program.
LEMMA SleepBeginsIs ==
  ASSUME NEW a \in AromaType, NEW n \in Int
  PROVE  /\ SleepBegins(a, n) \in AromaType /\ SleepBegins(a, n).mode = "sleep"
         /\ SleepBegins(a, n).sleep = n - Min2(Back) /\ SleepBegins(a, n).getup = a.getup
         /\ SleepBegins(a, n).view = a.view
<1> DEFINE b == [a EXCEPT !.sleep = n - Min2(Back), !.mode = "sleep"]
           c == SetSpray(b)
<1>1. n - Min2(Back) \in Int
  BY Bounds DEF Min2
<1>2. b \in AromaType /\ b.mode = "sleep" /\ b.sleep = n - Min2(Back) /\ b.getup = a.getup /\ b.view = a.view
  BY <1>1 DEF AromaType
<1> HIDE DEF b
<1>3. c \in AromaType /\ c.mode = b.mode /\ c.sleep = b.sleep /\ c.getup = b.getup /\ c.view = b.view
  BY <1>2 DEF AromaType, SetSpray
<1> HIDE DEF c
<1>4. Alike(c, SetLedc(c, TRUE, FALSE))
  BY <1>3, LedcAlike
<1>5. SleepBegins(a, n) = SetLedc(c, TRUE, FALSE)
  BY DEF SleepBegins, b, c
<1> QED
  BY <1>2, <1>3, <1>4, <1>5 DEF Alike

\* Moving a time that is being set changes no program.
LEMMA EditedIs ==
  ASSUME NEW a \in AromaType, NEW by \in Int
  PROVE  /\ Edited(a, by) \in AromaType /\ Edited(a, by).mode = a.mode /\ Edited(a, by).view = a.view
         /\ Edited(a, by).fade = a.fade /\ Edited(a, by).spray = a.spray /\ Edited(a, by).play = a.play
         /\ Edited(a, by).sounds = a.sounds
<1>1. a.edits \in {"local", "getup", "sleep"} /\ a.local + Min2(by) \in Int
      /\ a.getup + Min2(by) \in Int /\ a.sleep + Min2(by) \in Int
  BY DEF AromaType, Min2
<1>2. CASE a.edits = "local"
  <2>1. Edited(a, by) = [a EXCEPT !.local = @ + Min2(by)]
    BY <1>2 DEF Edited
  <2> QED BY <1>1, <2>1 DEF AromaType
<1>3. CASE a.edits = "getup"
  <2>1. Edited(a, by) = [a EXCEPT !.getup = @ + Min2(by)]
    BY <1>3 DEF Edited
  <2> QED BY <1>1, <2>1 DEF AromaType
<1>4. CASE a.edits = "sleep"
  <2>1. Edited(a, by) = [a EXCEPT !.sleep = @ + Min2(by)]
    BY <1>4 DEF Edited
  <2> QED BY <1>1, <2>1 DEF AromaType
<1> QED
  BY <1>1, <1>2, <1>3, <1>4

\* The get-up program ends, or it goes on within its time.
LEMMA GetupExitsIs ==
  ASSUME NEW a \in AromaType, NEW n \in Int
  PROVE  LET g == GetupExits(a, n) IN
         \/ Alike(a, g) /\ n - a.getup <= Min2(Over)
         \/ /\ g \in AromaType /\ g.mode = "none" /\ g.view = "idle" /\ g.getup = a.getup /\ ~g.spray
            /\ n - a.getup > Min2(Over)
<1>1. CASE n - a.getup > Min2(Over)
  BY <1>1, EndedIs DEF GetupExits
<1>2. CASE ~(n - a.getup > Min2(Over))
  <2>1. a.getup \in Int /\ Min2(Over) \in Int
    BY Bounds DEF AromaType, Min2
  <2>2. n - a.getup <= Min2(Over)
    BY ONLY <1>2, <2>1, n \in Int
  <2> QED BY <1>2, <2>2 DEF GetupExits, Alike
<1> QED
  BY <1>1, <1>2

\* So does the sleep program, whose steps are the last of an iteration.
LEMMA SleepStepsGo ==
  ASSUME NEW a \in AromaType, NEW n \in Int, SleepSteps(a, n)
  PROVE  /\ view' = At("loops", "none", 0)
         /\ \/ Alike(a, aroma') /\ n - a.sleep <= Min2(Over)
            \/ /\ aroma' \in AromaType /\ aroma'.mode = "none" /\ aroma'.view = "idle"
               /\ aroma'.getup = a.getup /\ ~aroma'.spray
<1> DEFINE mid == a.fade /\ n - a.sleep > Min2(SleepMid)
           b == IF mid THEN StopMusic(SetLedc(a, FALSE, FALSE)) ELSE a
<1>1. aroma' = SleepExits(b, n) /\ view' = At("loops", "none", 0)
  BY DEF SleepSteps, Done, ViewGoes
<1>2. Alike(a, b)
  <2> DEFINE c == SetLedc(a, FALSE, FALSE)
  <2>1. c \in AromaType /\ Alike(a, c)
    BY LedcAlike DEF Alike
  <2> HIDE DEF c
  <2>2. Alike(a, StopMusic(c))
    BY <2>1, StopAlike, AlikeAlike
  <2>3. Alike(a, a)
    BY DEF Alike
  <2> HIDE DEF mid
  <2> QED BY <2>2, <2>3 DEF c
<1> HIDE DEF b
<1>3. b \in AromaType /\ b.sleep = a.sleep /\ b.getup = a.getup /\ a.sleep \in Int /\ Min2(Over) \in Int
  BY <1>2, Bounds DEF AromaType, Min2, Alike
<1>4. CASE n - b.sleep > Min2(Over)
  BY <1>1, <1>3, <1>4, EndedIs DEF SleepExits
<1>5. CASE ~(n - b.sleep > Min2(Over))
  <2>1. n - a.sleep <= Min2(Over)
    BY ONLY <1>5, <1>3, n \in Int
  <2> QED BY <1>1, <1>2, <1>5, <2>1 DEF SleepExits
<1> QED
  BY <1>4, <1>5

\* The ways an iteration goes on in its half of the sleep program: nothing runs in it; it runs,
\* within its time, or ends. It waits with the instant the iteration is about.
LEMMA SleepRunsGo ==
  ASSUME NEW a \in AromaType, NEW n \in Int, SleepRuns(a, n)
  PROVE  /\ view' \in {At("loops", "none", 0), At("delays", "sleep", n)}
         /\ \/ /\ Alike(a, aroma')
               /\ a.mode = "sleep" => n - a.sleep <= Min2(Over)
               /\ a.mode # "sleep" => aroma' = a /\ view'.pc = "loops"
            \/ /\ aroma' \in AromaType /\ aroma'.mode = "none" /\ aroma'.view = "idle"
               /\ aroma'.getup = a.getup /\ ~aroma'.spray /\ a.mode = "sleep"
<1>1. CASE a.mode # "sleep"
  BY <1>1 DEF SleepRuns, Done, ViewGoes, At, Alike
<1>2. CASE a.mode = "sleep" /\ n % 2 = 0 /\ n - a.sleep < Min2(SleepMid)
  <2>1. aroma' = a /\ view' = At("delays", "sleep", n)
    BY <1>2 DEF SleepRuns, ViewGoes
  <2>2. a.sleep \in Int /\ Min2(SleepMid) \in Int /\ Min2(Over) \in Int /\ Min2(SleepMid) <= Min2(Over)
    BY Bounds DEF AromaType, Min2
  <2>3. n - a.sleep <= Min2(Over)
    BY ONLY <1>2, <2>2, n \in Int
  <2> QED BY <1>2, <2>1, <2>3 DEF Alike
<1>3. CASE a.mode = "sleep" /\ ~(n % 2 = 0 /\ n - a.sleep < Min2(SleepMid))
  <2>1. SleepSteps(a, n)
    BY <1>3 DEF SleepRuns
  <2> QED BY <1>3, <2>1, SleepStepsGo
<1> QED
  BY <1>1, <1>2, <1>3

\* What the iteration about instant n leaves of the program it found, once it has looked at the end
\* of the get-up program: it ended, or runs within its time, or the sleep program began at n.
Left(a, n) ==
  /\ aroma' \in AromaType /\ aroma'.getup = a.getup /\ aroma'.view \in {a.view, "idle"}
  /\ view' \in {At("loops", "none", 0)} \cup {At(pc, "sleep", n) : pc \in Waiting}
  /\ aroma'.mode = "none" /\ aroma'.spray => a.spray
  /\ aroma'.mode = "getup" => a.mode = "getup" /\ n - a.getup <= Min2(Over)
  /\ a.mode = "getup" /\ n - a.getup <= Min2(Over) => aroma'.mode = "getup"
  /\ aroma'.mode = "sleep" =>
       \/ aroma'.sleep = n - Min2(Back)
       \/ a.mode = "sleep" /\ aroma'.sleep = a.sleep /\ n - a.sleep <= Min2(Over)

\* Or it waits for the music of the get-up program first.
Waits(a, n) == Alike(a, aroma') /\ view' \in {At(pc, "getup", n) : pc \in Waiting}

\* Left for what comes after the look.
LEMMA SleepBlockGoes ==
  ASSUME NEW a \in AromaType, NEW n \in Int, SleepBlock(a, n),
         a.mode = "getup" => n - a.getup <= Min2(Over)
  PROVE  /\ Left(a, n)
         /\ a.mode = "none" /\ aroma'.mode = "none" => aroma' = a /\ view'.pc = "loops"
         /\ a.mode = "sleep" /\ aroma'.mode = "sleep" => aroma'.sleep = a.sleep
<1>1. CASE Due(a, a.sleep, n)
  <2> DEFINE b == SleepBegins(a, n)
  <2>1. aroma' = PlayBegins(b) /\ view' = At(PlayWaits(b), "sleep", n) /\ a.mode = "none"
    BY <1>1 DEF SleepBlock, StartsMusic, ViewGoes, Due
  <2>2. /\ b \in AromaType /\ b.mode = "sleep" /\ b.sleep = n - Min2(Back) /\ b.getup = a.getup
        /\ b.view = a.view
    BY SleepBeginsIs
  <2> HIDE DEF b
  <2>3. Alike(b, aroma')
    BY <2>1, <2>2, PlayBeginsAlike
  <2>4. PlayWaits(b) \in Waiting
    BY DEF PlayWaits, Waiting
  <2> QED BY <2>1, <2>2, <2>3, <2>4 DEF Left, Alike
<1>2. CASE ~Due(a, a.sleep, n)
  <2>1. SleepRuns(a, n)
    BY <1>2 DEF SleepBlock
  <2>2. view' \in {At("loops", "none", 0)} \cup {At(pc, "sleep", n) : pc \in Waiting}
    BY <2>1, SleepRunsGo DEF Waiting
  <2>3. CASE /\ Alike(a, aroma')
             /\ a.mode = "sleep" => n - a.sleep <= Min2(Over)
             /\ a.mode # "sleep" => aroma' = a /\ view'.pc = "loops"
    BY <2>2, <2>3 DEF Left, Alike
  <2>4. CASE /\ aroma' \in AromaType /\ aroma'.mode = "none" /\ aroma'.view = "idle"
             /\ aroma'.getup = a.getup /\ ~aroma'.spray /\ a.mode = "sleep"
    BY <2>2, <2>4 DEF Left
  <2> QED BY <2>1, <2>3, <2>4, SleepRunsGo
<1> QED
  BY <1>1, <1>2

\* The look, and what comes after it.
LEMMA LooksAndGoes ==
  ASSUME NEW a \in AromaType, NEW n \in Int, SleepBlock(GetupExits(a, n), n) PROVE Left(a, n)
<1> DEFINE g == GetupExits(a, n)
<1>1. \/ Alike(a, g) /\ n - a.getup <= Min2(Over)
      \/ /\ g \in AromaType /\ g.mode = "none" /\ g.view = "idle" /\ g.getup = a.getup /\ ~g.spray
         /\ n - a.getup > Min2(Over)
  BY GetupExitsIs
<1> HIDE DEF g
<1>2. g \in AromaType /\ (g.mode = "getup" => n - g.getup <= Min2(Over))
  BY <1>1 DEF Alike
<1>3. Left(g, n)
  BY <1>2, SleepBlockGoes DEF g
<1>4. CASE Alike(a, g) /\ n - a.getup <= Min2(Over)
  BY <1>3, <1>4 DEF Left, Alike
<1>5. CASE /\ g \in AromaType /\ g.mode = "none" /\ g.view = "idle" /\ g.getup = a.getup /\ ~g.spray
           /\ n - a.getup > Min2(Over)
  <2>1. ~(n - a.getup <= Min2(Over))
    <3>1. a.getup \in Int /\ Min2(Over) \in Int
      BY Bounds DEF AromaType, Min2
    <3> QED BY ONLY <1>5, <3>1, n \in Int
  <2> QED BY <1>3, <1>5, <2>1 DEF Left
<1> QED
  BY <1>1, <1>4, <1>5

\* What is left of one is left of the other.
LEMMA LeftAlike == ASSUME NEW a, NEW b, NEW n, Alike(a, b), Left(b, n) PROVE Left(a, n)
  BY DEF Alike, Left

\* The end of the get-up program, and what comes after it.
LEMMA LeavesGo ==
  ASSUME NEW a \in AromaType, NEW n \in Int, GetupLeaves(a, n) PROVE Left(a, n)
<1> DEFINE held == IF ~a.hold /\ n > a.getup + Min2(HoldAt) THEN SetLedc(a, TRUE, TRUE) ELSE a
<1>1. SleepBlock(GetupExits(held, n), n)
  BY DEF GetupLeaves
<1>2. held \in AromaType /\ Alike(a, held)
  <2>1. Alike(a, a)
    BY DEF Alike
  <2> QED BY <2>1, LedcAlike DEF Alike
<1> HIDE DEF held
<1> QED
  BY <1>1, <1>2, LooksAndGoes, LeftAlike

\* The lamp of the get-up program and the start of its music, and what comes after them.
LEMMA GetupStepsGo ==
  ASSUME NEW a \in AromaType, NEW n \in Int, GetupSteps(a, n) PROVE Left(a, n) \/ Waits(a, n)
<1> DEFINE lit == IF ~a.fade /\ n > a.getup + Min2(LightAt) THEN SetLedc(a, TRUE, FALSE) ELSE a
<1>1. IF ~lit.play /\ n > a.getup + Min2(MusicAt)
      THEN aroma' = PlayBegins(lit) /\ view' = At(PlayWaits(lit), "getup", n) ELSE GetupLeaves(lit, n)
  BY DEF GetupSteps, StartsMusic, ViewGoes
<1>2. lit \in AromaType /\ Alike(a, lit)
  <2>1. Alike(a, a)
    BY DEF Alike
  <2> QED BY <2>1, LedcAlike DEF Alike
<1> HIDE DEF lit
<1>3. CASE GetupLeaves(lit, n)
  BY <1>2, <1>3, LeavesGo, LeftAlike
<1>4. CASE aroma' = PlayBegins(lit) /\ view' = At(PlayWaits(lit), "getup", n)
  <2>1. Alike(lit, aroma')
    BY <1>2, <1>4, PlayBeginsAlike
  <2>2. PlayWaits(lit) \in Waiting
    BY DEF PlayWaits, Waiting
  <2> QED BY <1>2, <1>4, <2>1, <2>2, AlikeAlike DEF Waits
<1> QED
  BY <1>1, <1>3, <1>4

\* All of an iteration after the alarm of getting up; without a program nothing happens until the
\* alarm of the other, and a sleep program is not begun again.
LEMMA GetupRunsGo ==
  ASSUME NEW a \in AromaType, NEW n \in Int, GetupRuns(a, n)
  PROVE  /\ Left(a, n) \/ (Waits(a, n) /\ a.mode = "getup")
         /\ a.mode = "none" /\ aroma'.mode = "none" => aroma' = a /\ view'.pc = "loops"
         /\ a.mode = "sleep" /\ aroma'.mode = "sleep" => aroma'.sleep = a.sleep
<1>1. CASE a.mode # "getup"
  <2>1. SleepBlock(a, n)
    BY <1>1 DEF GetupRuns
  <2> QED BY <1>1, <2>1, SleepBlockGoes
<1>2. CASE a.mode = "getup" /\ a.paused
  <2> DEFINE b == [a EXCEPT !.paused = n <= a.until]
  <2>0. (n <= a.until) \in BOOLEAN
    BY DEF AromaType
  <2>1. b \in AromaType /\ Alike(a, b)
    BY <2>0 DEF AromaType, Alike
  <2>2. SleepBlock(GetupExits(b, n), n)
    BY <1>2 DEF GetupRuns
  <2> HIDE DEF b
  <2> QED BY <1>2, <2>1, <2>2, LooksAndGoes, LeftAlike
<1>3. CASE a.mode = "getup" /\ ~a.paused /\ n % 2 = 0 /\ n - a.getup >= Min2(RepeatAt)
  <2>1. aroma' = a /\ view' = At("delays", "getup", n)
    BY <1>3 DEF GetupRuns, ViewGoes
  <2> QED BY <1>3, <2>1 DEF Waits, Alike, Waiting
<1>4. CASE a.mode = "getup" /\ ~a.paused /\ ~(n % 2 = 0 /\ n - a.getup >= Min2(RepeatAt))
  <2>1. GetupSteps(a, n)
    BY <1>4 DEF GetupRuns
  <2> QED BY <1>4, <2>1, GetupStepsGo
<1> QED
  BY <1>1, <1>2, <1>3, <1>4

\* The alarm the time of a program is measured from.
LEMMA SinceIs ==
  ASSUME ControlType
  PROVE  /\ Now \in Int /\ Since \in Int /\ Min2(Back) \in Int /\ Min2(Over) \in Int
         /\ Late \in 0 .. 1 /\ Slack \in 0 .. 3
         /\ 0 <= Min2(Back) /\ Min2(Back) <= Min2(Over)
<1>1. Late \in 0 .. 1 /\ Slack \in 0 .. 3
  BY DEF Late, Slack
<1> QED
  BY <1>1, Bounds DEF ControlType, Now, Since, AromaType, Min2

\* A step of the view keeps the invariant when the program that is left runs
\* within its time and nothing is begun that was to be kept off.
LEMMA ViewKeeps ==
  ASSUME ControlInv, view.pc \notin {"boots", "writes"}, Noted, UNCHANGED <<main, file>>,
         clock' \in [now : {Now}, ticks : Nat, ran : BOOLEAN, crashes : Nat],
         aroma' \in AromaType, aroma'.view \in {aroma.view, "idle"},
         view' \in ViewType, view'.pc \notin {"boots", "writes"},
         ~seen.set =>
           /\ Met' => view'.now <= Now /\ Now <= view'.now + Late'
           /\ Met' /\ view'.of = "getup" /\ aroma'.mode = "sleep" =>
                aroma.mode = "sleep" /\ seen.age <= Now - view'.now
           /\ aroma'.mode # "none" =>
                /\ Since' <= Min2(Over) + Slack'
                /\ aroma'.mode = aroma.mode => seen.age + Min2(Back) <= Since'
                /\ aroma'.mode # aroma.mode => Min2(Back) <= Since',
         seen.quiet /\ aroma'.mode = "none" =>
           /\ ~aroma'.spray
           /\ ~seen.met => aroma' = aroma /\ view'.pc = "loops"
  PROVE  ControlInv'
<1> USE DEF ControlInv
<1>1. seen' \in SeenType
      /\ seen'.quiet = (seen.quiet /\ aroma'.mode = "none") /\ seen'.met = seen.met
      /\ seen'.set = seen.set
      /\ seen'.age = IF aroma'.mode = "none" \/ aroma'.mode # aroma.mode THEN 0 ELSE seen.age
  <2> DEFINE q == seen.quiet /\ aroma'.mode = "none"
             age == IF aroma'.mode = "none" \/ aroma'.mode # aroma.mode THEN 0 ELSE seen.age
             rang == IF RingsGetup THEN 0 ELSE seen.rang
  <2>1. seen \in SeenType
    BY DEF ControlType
  <2>2. q \in BOOLEAN /\ age \in Int /\ rang \in Int
    BY <2>1 DEF SeenType
  <2>3. seen' = [seen EXCEPT !.quiet = q, !.age = age, !.rang = rang]
    BY DEF Noted
  <2> HIDE DEF q, age, rang
  <2>4. seen' \in SeenType
        /\ seen'.quiet = q /\ seen'.met = seen.met /\ seen'.set = seen.set /\ seen'.age = age
    BY <2>1, <2>2, <2>3 DEF SeenType
  <2> QED BY <2>4 DEF q, age
<1>2. ControlType'
  BY <1>1 DEF ControlType, Now
<1>3. Timely'
  <2>1. SUFFICES ASSUME ~seen.set
        PROVE /\ aroma'.view # "config"
              /\ Met' => view'.now <= Now' /\ Now' <= view'.now + Late'
              /\ aroma'.mode # "none" =>
                   seen'.age + Min2(Back) <= Since' /\ Since' <= Min2(Over) + Slack'
              /\ Met' /\ view'.of = "getup" /\ aroma'.mode = "sleep" => seen'.age <= Now' - view'.now
    BY <1>1 DEF Timely, Min2
  <2>2. aroma'.view # "config"
    BY <2>1 DEF Timely
  <2>3. Now' = Now
    BY DEF Now
  <2>4. Met' => view'.now <= Now' /\ Now' <= view'.now + Late'
    BY <2>1, <2>3
  <2>5. ASSUME aroma'.mode # "none" PROVE seen'.age + Min2(Back) <= Since'
    <3>1. CASE aroma'.mode # aroma.mode
      <4>1. seen'.age = 0 /\ Min2(Back) <= Since'
        BY <1>1, <2>1, <2>5, <3>1
      <4>2. Min2(Back) \in Int
        BY <1>2, SinceIs
      <4> QED BY ONLY <4>1, <4>2
    <3>2. CASE aroma'.mode = aroma.mode
      <4>1. seen'.age = seen.age /\ seen.age + Min2(Back) <= Since'
        BY <1>1, <2>1, <2>5, <3>2
      <4> QED BY <4>1
    <3> QED BY <3>1, <3>2
  <2>6. ASSUME Met', view'.of = "getup", aroma'.mode = "sleep" PROVE seen'.age <= Now' - view'.now
    <3>1. aroma.mode = "sleep" /\ seen.age <= Now - view'.now
      BY <2>1, <2>6
    <3>2. seen'.age = seen.age
      BY <1>1, <2>6, <3>1
    <3> QED BY <2>3, <3>1, <3>2
  <2> QED BY <2>1, <2>2, <2>4, <2>5, <2>6
<1>4. Booting'
  BY DEF Booting
<1>5. Hushed'
  <2>1. SUFFICES ASSUME seen.quiet, aroma'.mode = "none"
        PROVE /\ ~aroma'.spray /\ main.pc \notin {"pauses", "runs"}
              /\ ~seen.met => ~aroma'.fade /\ ~aroma'.play /\ ~aroma'.sounds /\ ~Met'
    BY <1>1 DEF Hushed
  <2> QED BY <2>1 DEF Hushed, Met
<1> QED
  BY <1>2, <1>3, <1>4, <1>5

\* A program looked at a little late, at now for n, is over by no more than that, nor is one begun.
LEMMA Lags ==
  ASSUME NEW n \in Int, NEW now \in Int, NEW late \in Int, NEW slack \in Int, NEW over \in Int,
         now <= n + late, late <= slack
  PROVE  /\ \A alarm \in Int : n - alarm <= over => now - alarm <= over + slack
         /\ \A back \in Int : n <= now /\ back <= over =>
              back <= now - (n - back) /\ now - (n - back) <= over + slack
OBVIOUS

\* So does an iteration about n, from the program it found or has begun.
LEMMA WentKeeps ==
  ASSUME ControlInv, view.pc \notin {"boots", "writes"}, Noted, UNCHANGED <<main, file>>,
         clock' \in [now : {Now}, ticks : Nat, ran : BOOLEAN, crashes : Nat],
         NEW a \in AromaType, NEW n \in Int, Left(a, n) \/ Waits(a, n),
         \/ Alike(aroma, a)
         \/ /\ aroma.mode = "none" /\ a.mode = "getup" /\ a.view = aroma.view
            /\ a.getup = n - Min2(Back) /\ n = Now,
         Slack = 2 + Late',
         ~seen.set =>
           /\ n <= Now /\ Now <= n + Late'
           /\ aroma.mode = "sleep" =>
                \/ seen.age <= Now - n
                \/ Left(a, n) /\ (aroma'.mode = "sleep" => aroma'.sleep = a.sleep),
         seen.quiet /\ ~seen.met /\ aroma'.mode = "none" => aroma' = aroma /\ view'.pc = "loops"
  PROVE  ControlInv'
<1> USE DEF ControlInv
<1>1. ControlType /\ aroma \in AromaType /\ Now \in Int /\ Now' = Now /\ seen.age \in Int
  BY DEF ControlType, Now, SeenType
<1>2. /\ Min2(Back) \in Int /\ Min2(Over) \in Int /\ 0 <= Min2(Back) /\ Min2(Back) <= Min2(Over)
      /\ Late' \in 0 .. 1 /\ Since \in Int
  BY <1>1, SinceIs DEF Late
<1>3. aroma' \in AromaType /\ aroma'.view \in {aroma.view, "idle"}
  BY DEF Left, Waits, Alike
<1>4. /\ view' \in ViewType /\ view'.pc \notin {"boots", "writes"}
      /\ Met' => view'.now = n
      /\ Left(a, n) => ~(Met' /\ view'.of = "getup")
  <2>1. view' \in {At("loops", "none", 0)} \cup {At(pc, of, n) : pc \in Waiting, of \in {"getup", "sleep"}}
    BY DEF Left, Waits
  <2>2. Left(a, n) => view' \in {At("loops", "none", 0)} \cup {At(pc, "sleep", n) : pc \in Waiting}
    BY DEF Left
  <2>3. view' \in ViewType /\ view'.pc \notin {"boots", "writes"} /\ (Met' => view'.now = n)
    BY <2>1 DEF At, ViewType, Waiting, Met
  <2>4. Left(a, n) => ~(Met' /\ view'.of = "getup")
    BY <2>2 DEF At, Waiting, Met
  <2> QED BY <2>3, <2>4
<1>5. Left(a, n) => Slack' \in Int /\ Late' <= Slack'
  <2>1. Left(a, n) => Slack' = Late' \/ Slack' = 2 * Late'
    BY <1>4 DEF Slack
  <2> QED BY ONLY <1>2, <2>1
<1>6. Waits(a, n) => Slack' = 2 + Late'
  BY DEF Slack, Waits, At, Waiting, Met
<1>7. seen.quiet /\ aroma'.mode = "none" => ~aroma'.spray
  <2>1. SUFFICES ASSUME seen.quiet, aroma'.mode = "none" PROVE ~aroma'.spray
    OBVIOUS
  <2>2. aroma.mode = "none" /\ ~aroma.spray
    BY <2>1 DEF Hushed
  <2>3. CASE Alike(aroma, a)
    BY <2>1, <2>2, <2>3 DEF Alike, Left, Waits
  <2>4. CASE a.mode = "getup" /\ a.getup = n - Min2(Back)
    <3>1. n - a.getup <= Min2(Over)
      BY ONLY <1>2, <2>4, n \in Int
    <3> QED BY <2>1, <2>4, <3>1 DEF Left, Waits, Alike
  <2> QED BY <2>3, <2>4
<1>8. ASSUME ~seen.set, aroma'.mode # "none"
      PROVE /\ Since' <= Min2(Over) + Slack'
            /\ aroma'.mode = aroma.mode => seen.age + Min2(Back) <= Since'
            /\ aroma'.mode # aroma.mode => Min2(Back) <= Since'
  <2>0. n <= Now /\ Now <= n + Late' /\ aroma'.mode \in {"getup", "sleep"} /\ a.getup \in Int
        /\ a.sleep \in Int
    BY <1>3, <1>8 DEF AromaType
  <2>1. CASE a.mode = "getup" /\ aroma.mode = "none" /\ a.getup = n - Min2(Back) /\ n = Now
    <3>1. n - a.getup <= Min2(Over)
      BY ONLY <1>2, <2>1, n \in Int
    <3>2. aroma'.mode = "getup" /\ aroma'.getup = a.getup
      BY <2>1, <3>1 DEF Left, Waits, Alike
    <3>3. Since' = Min2(Back)
      <4>1. Since' = Now - (Now - Min2(Back))
        BY <1>1, <2>1, <3>2 DEF Since
      <4> QED BY ONLY <1>1, <1>2, <4>1
    <3>4. Slack' \in Int /\ Slack' >= 0
      <4>1. Slack' = Late' \/ Slack' = 2 * Late' \/ Slack' = 2 + Late'
        BY DEF Slack
      <4> QED BY ONLY <1>2, <4>1
    <3> QED BY <1>2, <2>1, <3>2, <3>3, <3>4
  <2>2. Left(a, n) => Late' \in Int /\ Slack' \in Int /\ Late' <= Slack'
    BY <1>2, <1>5
  <2>3. CASE Alike(aroma, a)
    <3>1. aroma.mode # "none" => seen.age + Min2(Back) <= Since /\ Since <= Min2(Over) + Slack
      BY <1>8 DEF Timely
    <3>2. CASE Waits(a, n)
      <4>1. Since' = Since /\ aroma'.mode = aroma.mode
        BY <1>1, <2>3, <3>2 DEF Waits, Alike, Since
      <4> QED BY <1>6, <1>8, <3>1, <3>2, <4>1
    <3>3. CASE Left(a, n) /\ aroma'.mode = "getup"
      <4>1. /\ aroma.mode = "getup" /\ aroma'.getup = aroma.getup /\ aroma.getup = a.getup
            /\ n - a.getup <= Min2(Over)
        BY <2>3, <3>3 DEF Left, Alike
      <4>2. Since' = Since /\ Since = Now - a.getup
        BY <1>1, <3>3, <4>1 DEF Since
      <4>3. Since' <= Min2(Over) + Slack'
        BY <1>1, <1>2, <2>0, <2>2, <3>3, <4>1, <4>2, Lags
      <4> QED BY <3>1, <3>3, <4>1, <4>2, <4>3
    <3>4. CASE Left(a, n) /\ aroma'.mode = "sleep" /\ a.mode = "sleep" /\ aroma'.sleep = a.sleep
               /\ n - a.sleep <= Min2(Over)
      <4>1. aroma.mode = "sleep" /\ aroma.sleep = a.sleep
        BY <2>3, <3>4 DEF Alike
      <4>2. Since' = Since /\ Since = Now - a.sleep
        BY <1>1, <3>4, <4>1 DEF Since
      <4>3. Since' <= Min2(Over) + Slack'
        BY <1>1, <1>2, <2>0, <2>2, <3>4, <4>1, <4>2, Lags
      <4> QED BY <3>1, <3>4, <4>1, <4>2, <4>3
    <3>5. CASE Left(a, n) /\ aroma'.mode = "sleep" /\ aroma'.sleep = n - Min2(Back)
      <4>1. Since' = Now - (n - Min2(Back))
        BY <1>1, <3>5 DEF Since
      <4>2. Min2(Back) <= Since' /\ Since' <= Min2(Over) + Slack'
        BY <1>1, <1>2, <2>0, <2>2, <3>5, <4>1, Lags
      <4>3. ASSUME aroma.mode = "sleep" PROVE seen.age + Min2(Back) <= Since'
        <5>1. CASE seen.age <= Now - n
          BY ONLY <1>1, <1>2, <4>1, <5>1, n \in Int
        <5>2. CASE aroma'.sleep = a.sleep
          <6>1. Since' = Since
            BY <1>1, <2>3, <3>5, <4>3, <5>2 DEF Since, Alike
          <6> QED BY <3>1, <4>3, <6>1
        <5> QED BY <1>8, <3>5, <4>3, <5>1, <5>2
      <4> QED BY <3>5, <4>2, <4>3
    <3> QED BY <2>0, <3>2, <3>3, <3>4, <3>5 DEF Left
  <2> QED BY <2>1, <2>3
<1>9. ASSUME ~seen.set, Met', view'.of = "getup", aroma'.mode = "sleep"
      PROVE  aroma.mode = "sleep" /\ seen.age <= Now - view'.now
  <2>1. Waits(a, n) /\ ~Left(a, n) /\ view'.now = n
    BY <1>4, <1>9
  <2>2. aroma.mode = "sleep"
    BY <1>9, <2>1 DEF Waits, Alike
  <2> QED BY <1>9, <2>1, <2>2
<1>10. ~seen.set /\ Met' => view'.now <= Now /\ Now <= view'.now + Late'
  BY <1>4
<1> QED
  BY <1>3, <1>4, <1>7, <1>8, <1>9, <1>10, ViewKeeps

\* What an iteration begins with.
LEMMA BegunIs ==
  ASSUME ControlType
  PROVE  /\ Begun(aroma, Now) \in AromaType
         /\ \/ /\ aroma.mode = "none" /\ Due(aroma, aroma.getup, Now) /\ Begun(aroma, Now).mode = "getup"
               /\ Begun(aroma, Now).view = aroma.view
               /\ Begun(aroma, Now).getup = Now - Min2(Back)
            \/ Begun(aroma, Now) = aroma /\ Alike(aroma, Begun(aroma, Now))
<1>1. aroma \in AromaType /\ Now \in Int
  BY DEF ControlType, Now
<1>2. CASE Due(aroma, aroma.getup, Now)
  <2>1. aroma.mode = "none"
    BY <1>2 DEF Due
  <2>2. Begun(aroma, Now) = GetupBegins(aroma, Now)
    BY <1>2 DEF Begun
  <2> QED BY <1>1, <1>2, <2>1, <2>2, GetupBeginsIs
<1>3. CASE ~Due(aroma, aroma.getup, Now)
  BY <1>1, <1>3 DEF Begun, Alike
<1> QED
  BY <1>2, <1>3

\* One iteration of the view: a program begins, goes on, ends, or waits.
LEMMA IterateKeeps == ASSUME ControlInv, Iterate PROVE ControlInv'
<1> USE DEF ControlInv
<1> DEFINE a == Begun(aroma, Now)
<1>1. /\ view.pc = "loops" /\ ~clock.ran /\ Noted /\ UNCHANGED <<main, file>>
      /\ clock' = [clock EXCEPT !.ran = TRUE] /\ GetupRuns(a, Now)
      /\ ControlType /\ Now \in Int
  BY DEF Iterate, ControlType, Now
<1>2. clock' \in [now : {Now}, ticks : Nat, ran : BOOLEAN, crashes : Nat] /\ clock'.ran
  BY <1>1 DEF ControlType, Now
<1>3. /\ a \in AromaType
      /\ \/ aroma.mode = "none" /\ a.mode = "getup" /\ a.getup = Now - Min2(Back) /\ a.view = aroma.view
         \/ a = aroma /\ Alike(aroma, a)
  BY <1>1, BegunIs
<1> HIDE DEF a
<1>4. /\ Left(a, Now) \/ (Waits(a, Now) /\ a.mode = "getup")
      /\ a.mode = "none" /\ aroma'.mode = "none" => aroma' = a /\ view'.pc = "loops"
      /\ a.mode = "sleep" /\ aroma'.mode = "sleep" => aroma'.sleep = a.sleep
  BY <1>1, <1>3, GetupRunsGo
<1>5. Slack = 2 + Late' /\ Late' = 0
  BY <1>1, <1>2 DEF Slack, Late, Met
<1>6. Now <= Now /\ Now <= Now + Late'
  BY ONLY <1>1, <1>5
<1>7. aroma.mode = "sleep" => Left(a, Now) /\ (aroma'.mode = "sleep" => aroma'.sleep = a.sleep)
  BY <1>3, <1>4
<1>8. ASSUME seen.quiet, ~seen.met, aroma'.mode = "none" PROVE aroma' = aroma /\ view'.pc = "loops"
  <2>1. aroma.mode = "none"
    BY <1>8 DEF Hushed
  <2>2. CASE a = aroma
    BY <1>4, <1>8, <2>1, <2>2
  <2>3. CASE a.mode = "getup" /\ a.getup = Now - Min2(Back)
    <3>1. Min2(Back) \in Int /\ Min2(Over) \in Int /\ Min2(Back) <= Min2(Over)
      BY <1>1, SinceIs
    <3>2. Now - a.getup <= Min2(Over)
      BY ONLY <1>1, <2>3, <3>1
    <3> QED BY <1>4, <1>8, <2>3, <3>2 DEF Left, Waits, Alike
  <2> QED BY <1>3, <2>2, <2>3
<1>9. \/ Alike(aroma, a)
      \/ /\ aroma.mode = "none" /\ a.mode = "getup" /\ a.view = aroma.view
         /\ a.getup = Now - Min2(Back) /\ Now = Now
  BY <1>3
<1>10. view.pc \notin {"boots", "writes"} /\ (Left(a, Now) \/ Waits(a, Now))
  BY <1>1, <1>4
<1> QED
  BY <1>1, <1>2, <1>3, <1>5, <1>6, <1>7, <1>8, <1>9, <1>10, WentKeeps

\* The view after a wait.
WaitEnds == DelayEnds \/ RepeatEnds \/ StartEnds

LEMMA WaitEndsIs ==
  ASSUME ControlInv, WaitEnds
  PROVE  /\ Met /\ Noted /\ UNCHANGED <<main, file, clock>> /\ view.now \in Int
         /\ view.of = "getup" => Left(aroma, view.now) \/ Waits(aroma, view.now)
         /\ view.of # "getup" =>
              /\ view' \in {At("loops", "none", 0), At("delays", "sleep", view.now),
                            At("repeats", view.of, view.now)}
              /\ \/ Alike(aroma, aroma')
                 \/ /\ aroma' \in AromaType /\ aroma'.mode = "none" /\ aroma'.view = "idle"
                    /\ aroma'.getup = aroma.getup /\ ~aroma'.spray
<1> USE DEF ControlInv
<1> DEFINE n == view.now
           b == Resume(StopMusic(aroma))
           c == PlayEnds(aroma, view.pc)
<1>1. Met /\ Noted /\ UNCHANGED <<main, file, clock>> /\ n \in Int /\ aroma \in AromaType
  BY DEF WaitEnds, DelayEnds, RepeatEnds, StartEnds, Met, ControlType, ViewType
<1>2. b \in AromaType /\ Alike(aroma, b)
  BY <1>1, RepeatAlike DEF Alike
<1>3. c \in AromaType /\ Alike(aroma, c)
  BY <1>1, PlayEndsAlike DEF Alike
<1>4. \/ aroma' = StopMusic(aroma) /\ view' = At("repeats", view.of, n)
      \/ IF view.of = "getup" THEN GetupSteps(b, n) ELSE SleepSteps(b, n)
      \/ IF view.of = "getup" THEN GetupLeaves(c, n) ELSE SleepRuns(c, n)
  BY DEF WaitEnds, DelayEnds, RepeatEnds, StartEnds, Repeated, ViewGoes
<1> HIDE DEF b, c, n
<1>5. CASE aroma' = StopMusic(aroma) /\ view' = At("repeats", view.of, n)
  <2>1. Alike(aroma, aroma')
    BY <1>1, <1>5, StopAlike
  <2> QED BY <1>1, <1>5, <2>1 DEF Waits, Waiting, n
<1>6. CASE view.of = "getup" /\ GetupSteps(b, n)
  <2>1. Left(b, n) \/ Waits(b, n)
    BY <1>1, <1>2, <1>6, GetupStepsGo
  <2>2. Left(aroma, n) \/ Waits(aroma, n)
    BY <1>2, <2>1, LeftAlike, AlikeAlike DEF Waits
  <2> QED BY <1>1, <1>6, <2>2 DEF n
<1>7. CASE view.of = "getup" /\ GetupLeaves(c, n)
  <2>1. Left(aroma, n)
    BY <1>1, <1>3, <1>7, LeavesGo, LeftAlike
  <2> QED BY <1>1, <1>7, <2>1 DEF n
<1>8. CASE view.of # "getup" /\ SleepSteps(b, n)
  <2>1. /\ view' = At("loops", "none", 0)
        /\ \/ Alike(b, aroma')
           \/ /\ aroma' \in AromaType /\ aroma'.mode = "none" /\ aroma'.view = "idle"
              /\ aroma'.getup = b.getup /\ ~aroma'.spray
    BY <1>1, <1>2, <1>8, SleepStepsGo
  <2>2. b.getup = aroma.getup /\ (Alike(b, aroma') => Alike(aroma, aroma'))
    BY <1>2 DEF Alike
  <2> QED BY <1>1, <1>8, <2>1, <2>2 DEF n
<1>9. CASE view.of # "getup" /\ SleepRuns(c, n)
  <2>1. /\ view' \in {At("loops", "none", 0), At("delays", "sleep", n)}
        /\ \/ Alike(c, aroma')
           \/ /\ aroma' \in AromaType /\ aroma'.mode = "none" /\ aroma'.view = "idle"
              /\ aroma'.getup = c.getup /\ ~aroma'.spray
    BY <1>1, <1>3, <1>9, SleepRunsGo
  <2>2. c.getup = aroma.getup /\ (Alike(c, aroma') => Alike(aroma, aroma'))
    BY <1>3 DEF Alike
  <2> QED BY <1>1, <1>9, <2>1, <2>2 DEF n
<1> QED
  BY <1>4, <1>5, <1>6, <1>7, <1>8, <1>9

\* After a wait the program goes on, whatever became of it meanwhile: from the half of the get-up
\* program it is looked at, from the half of the sleep program it was.
LEMMA WaitEndsKeeps == ASSUME ControlInv, WaitEnds PROVE ControlInv'
<1> USE DEF ControlInv
<1>1. /\ Met /\ Noted /\ UNCHANGED <<main, file, clock>> /\ view.now \in Int
      /\ view.pc \notin {"boots", "writes"}
      /\ aroma \in AromaType /\ Now' = Now /\ Late' = Late /\ ControlType /\ view \in ViewType
  BY WaitEndsIs DEF Met, ControlType, Now, Late
<1>2. clock' \in [now : {Now}, ticks : Nat, ran : BOOLEAN, crashes : Nat]
  BY <1>1 DEF ControlType, Now
<1>3. ~(seen.quiet /\ ~seen.met)
  BY <1>1 DEF Hushed
<1>4. CASE view.of = "getup"
  <2>1. Left(aroma, view.now) \/ Waits(aroma, view.now)
    BY <1>4, WaitEndsIs
  <2>2. Slack = 2 + Late'
    BY <1>1, <1>4 DEF Slack
  <2>3. ~seen.set =>
          /\ view.now <= Now /\ Now <= view.now + Late'
          /\ aroma.mode = "sleep" => seen.age <= Now - view.now
    BY <1>1, <1>4 DEF Timely
  <2>4. Alike(aroma, aroma)
    BY <1>1 DEF Alike
  <2> QED BY <1>1, <1>2, <1>3, <2>1, <2>2, <2>3, <2>4, WentKeeps
<1>5. CASE view.of # "getup"
  <2>1. /\ view' \in {At("loops", "none", 0), At("delays", "sleep", view.now),
                      At("repeats", view.of, view.now)}
        /\ \/ Alike(aroma, aroma')
           \/ aroma' \in AromaType /\ aroma'.mode = "none" /\ aroma'.view = "idle" /\ ~aroma'.spray
    BY <1>5, WaitEndsIs
  <2>2. aroma' \in AromaType /\ aroma'.view \in {aroma.view, "idle"}
    BY <1>1, <2>1 DEF Alike
  <2>3. /\ view' \in ViewType /\ view'.pc \notin {"boots", "writes"}
        /\ view'.of # "getup" /\ (Met' => view'.now = view.now)
    BY <1>1, <1>5, <2>1 DEF At, ViewType, Waiting, Met
  <2>4. Slack' >= Slack /\ Slack \in Int /\ Slack' \in Int
    <3>1. Slack = Late /\ Slack' \in {Late, 2 * Late} /\ Late \in 0 .. 1
      BY <1>1, <1>5, <2>3, SinceIs DEF Slack
    <3> QED BY ONLY <3>1
  <2>5. ASSUME ~seen.set, aroma'.mode # "none"
        PROVE /\ Since' <= Min2(Over) + Slack'
              /\ aroma'.mode = aroma.mode => seen.age + Min2(Back) <= Since'
              /\ aroma'.mode # aroma.mode => Min2(Back) <= Since'
    <3>1. Alike(aroma, aroma')
      BY <2>1, <2>5
    <3>2. Since' = Since /\ aroma'.mode = aroma.mode
      BY <1>1, <3>1 DEF Since, Alike
    <3>3. seen.age + Min2(Back) <= Since /\ Since <= Min2(Over) + Slack
      BY <2>5, <3>2 DEF Timely
    <3>4. Since \in Int /\ Min2(Over) \in Int
      BY <1>1, SinceIs
    <3>5. Since' <= Min2(Over) + Slack'
      BY ONLY <2>4, <3>2, <3>3, <3>4
    <3> QED BY <3>2, <3>3, <3>5
  <2>6. ~seen.set /\ Met' => view'.now <= Now /\ Now <= view'.now + Late'
    BY <1>1, <2>3 DEF Timely
  <2>7. seen.quiet /\ aroma'.mode = "none" => ~aroma'.spray
    BY <2>1 DEF Hushed, Alike
  <2> QED BY <1>1, <1>2, <1>3, <2>2, <2>3, <2>5, <2>6, <2>7, ViewKeeps
<1> QED
  BY <1>4, <1>5


\* A step that leaves the view and the clock alone keeps the invariant when it
\* leaves the program as it is, ends it, starts one now, or sets the times.
Unhurried ==
  \/ seen'.set
  \/ /\ seen'.set = seen.set /\ aroma'.view \in {aroma.view, "idle"}
     /\ \/ aroma'.mode = "none"
        \/ /\ seen'.age = seen.age
           /\ aroma'.mode = aroma.mode /\ aroma'.getup = aroma.getup /\ aroma'.sleep = aroma.sleep
        \/ seen'.age = 0 /\ Since' = Min2(Back)

LEMMA KeyKeeps ==
  ASSUME ControlInv, UNCHANGED <<view, clock>>,
         view.pc \notin {"boots", "writes"} \/ (aroma'.mode = aroma.mode /\ main' = main),
         aroma' \in AromaType, main' \in MainType, file' \in TimesType, seen' \in SeenType, Unhurried,
         Hushed'
  PROVE  ControlInv'
<1> USE DEF ControlInv
<1>1. ControlType'
  BY DEF ControlType
<1>2. Booting'
  BY DEF Booting
<1>3. Timely'
  <2>1. CASE seen'.set
    BY <2>1 DEF Timely
  <2>2. CASE ~seen'.set
    <3>1. /\ ~seen.set /\ aroma.view # "config" /\ aroma'.view # "config"
          /\ Met => view.now <= Now /\ Now <= view.now + Late
      BY <2>2 DEF Unhurried, Timely
    <3>2. Now' = Now /\ Late' = Late /\ Slack' = Slack /\ view' = view /\ Met' = Met
      BY DEF Now, Late, Slack, Met
    <3>3. aroma'.view # "config" /\ (Met' => view'.now <= Now' /\ Now' <= view'.now + Late')
      BY <3>1, <3>2
    <3>4. CASE aroma'.mode = "none"
      BY <3>3, <3>4 DEF Timely
    <3>5. CASE /\ seen'.age = seen.age
               /\ aroma'.mode = aroma.mode /\ aroma'.getup = aroma.getup /\ aroma'.sleep = aroma.sleep
      <4>1. Since' = Since
        BY <3>2, <3>5 DEF Since
      <4>2. aroma'.mode # "none" => seen'.age + Min2(Back) <= Since' /\ Since' <= Min2(Over) + Slack'
        BY <3>1, <3>2, <3>5, <4>1 DEF Timely
      <4>3. Met' /\ view'.of = "getup" /\ aroma'.mode = "sleep" => seen'.age <= Now' - view'.now
        BY <3>1, <3>2, <3>5 DEF Timely
      <4> QED BY <3>3, <4>2, <4>3 DEF Timely
    <3>6. CASE seen'.age = 0 /\ Since' = Min2(Back)
      <4>1. /\ Min2(Back) \in Int /\ Min2(Over) \in Int /\ Min2(Back) <= Min2(Over)
            /\ Slack \in 0 .. 3 /\ Now \in Int /\ view.now \in Int
        BY SinceIs DEF ControlType, ViewType
      <4>2. seen'.age + Min2(Back) <= Since' /\ Since' <= Min2(Over) + Slack'
        BY ONLY <3>2, <3>6, <4>1
      <4>3. Met' => seen'.age <= Now' - view'.now
        <5>1. Met => view.now <= Now
          BY <3>1
        <5> QED BY ONLY <3>2, <3>6, <4>1, <5>1
      <4> QED BY <3>3, <4>2, <4>3 DEF Timely
    <3> QED BY <2>2, <3>4, <3>5, <3>6 DEF Unhurried
  <2> QED BY <2>1, <2>2
<1> QED
  BY <1>1, <1>2, <1>3

\* A key is handled once the view has begun its loop.
LEMMA Loops ==
  ASSUME ControlInv, main.held # "none" \/ main.pc # "idle" \/ Handles
  PROVE  view.pc \notin {"boots", "writes"}
  BY DEF ControlInv, Booting, Handles, Met

\* A press is noted.
LEMMA PressedIs ==
  ASSUME ControlType, NEW b \in {"stop", "sun", "moon", "set"}, Pressed(b)
  PROVE  main' \in MainType /\ main'.held = b /\ main'.pc \in {main.pc, "opens", "shows"}
<1> DEFINE p == IF b = "set" /\ aroma.view = "config" THEN main.presses ELSE main.presses + 1
           q == IF b # "set" THEN main.pc
                ELSE IF aroma.view = "config" /\ aroma.config = "idle" THEN "opens" ELSE "shows"
<1>1. main \in MainType
  BY DEF ControlType
<1>2. p \in Nat /\ q \in {main.pc, "opens", "shows"}
  BY <1>1 DEF MainType
<1>3. main' = [main EXCEPT !.held = b, !.long = FALSE, !.presses = p, !.pc = q]
  BY DEF Pressed
<1> HIDE DEF p, q
<1>4. main'.held = b /\ main'.pc = q
  BY <1>1, <1>3 DEF MainType
<1> QED
  BY <1>1, <1>2, <1>3, <1>4 DEF MainType

\* The stop key puts the lamp out or pauses the get-up program.
LEMMA StopPressedKeeps == ASSUME ControlInv, StopPressed PROVE ControlInv'
<1> USE DEF ControlInv
<1>1. /\ Handles /\ UNCHANGED <<view, file, clock, seen>> /\ main' \in MainType
      /\ main'.pc \in {main.pc, "opens", "shows"}
      /\ aroma \in AromaType /\ file' \in TimesType /\ seen' \in SeenType /\ Now \in Int
  BY PressedIs DEF StopPressed, ControlType, Now
<1>2. aroma' \in AromaType /\ aroma'.mode = aroma.mode /\ aroma'.getup = aroma.getup
      /\ aroma'.sleep = aroma.sleep /\ aroma'.view = aroma.view
  <2>1. CASE aroma.mode # "getup"
    BY <1>1, <2>1, LedcAlike DEF StopPressed, Alike
  <2>2. CASE aroma.mode = "getup" /\ aroma.paused
    BY <1>1, <2>2 DEF StopPressed
  <2>3. CASE aroma.mode = "getup" /\ ~aroma.paused
    <3> DEFINE b == SetLedc(aroma, FALSE, FALSE)
               c == StopMusic(b)
               u == Now + Min2(PauseTime)
    <3>1. b \in AromaType /\ Alike(aroma, b)
      BY <1>1, LedcAlike DEF Alike
    <3>2. u \in Int
      BY <1>1, Bounds DEF Min2
    <3> HIDE DEF b
    <3>3. c \in AromaType /\ Alike(aroma, c)
      BY <3>1, StopAlike DEF Alike
    <3> HIDE DEF c, u
    <3>4. aroma' = [c EXCEPT !.paused = TRUE, !.until = u]
      BY <2>3 DEF StopPressed, b, c, u
    <3> QED BY <3>2, <3>3, <3>4 DEF Alike, AromaType
  <2> QED BY <2>1, <2>2, <2>3
<1>3. Hushed'
  <2>1. SUFFICES ASSUME seen.quiet
        PROVE  ~aroma'.spray /\ ~aroma'.fade /\ aroma'.play = aroma.play /\ aroma'.sounds = aroma.sounds
    BY <1>1, <1>2 DEF Hushed, Met
  <2>2. aroma.mode = "none" /\ ~aroma.spray
    BY <2>1 DEF Hushed
  <2>3. aroma' = SetLedc(aroma, FALSE, FALSE)
    BY <2>2 DEF StopPressed
  <2> QED BY <1>1, <2>2, <2>3 DEF SetLedc, AromaType
<1>4. Unhurried
  BY <1>1, <1>2 DEF Unhurried
<1> QED
  BY <1>1, <1>2, <1>3, <1>4, Loops, KeyKeeps

\* Held, it ends everything.
LEMMA StopHeldKeeps == ASSUME ControlInv, StopHeld PROVE ControlInv'
<1> USE DEF ControlInv
<1>1. /\ main.held = "stop" /\ UNCHANGED <<view, file, clock>> /\ main' \in MainType /\ main'.pc = "idle"
      /\ aroma \in AromaType /\ file' \in TimesType
      /\ seen' \in SeenType /\ seen'.quiet /\ seen'.met = Met /\ seen'.set = seen.set
  <2>1. main.held = "stop" /\ UNCHANGED <<view, file, clock>>
        /\ aroma \in AromaType /\ file' \in TimesType
    BY DEF StopHeld, ControlType
  <2>2. main' \in MainType /\ main'.pc = "idle"
    BY DEF StopHeld, ControlType, MainType
  <2>3. Met \in BOOLEAN
    BY DEF Met
  <2>4. seen' = [seen EXCEPT !.quiet = TRUE, !.met = Met] /\ seen \in SeenType
    BY DEF StopHeld, ControlType
  <2>5. seen' \in SeenType /\ seen'.quiet /\ seen'.met = Met /\ seen'.set = seen.set
    BY <2>3, <2>4 DEF SeenType
  <2> QED BY <2>1, <2>2, <2>5
<1> DEFINE e == Ended(aroma)
<1>2. e \in AromaType /\ e.mode = "none" /\ e.view = "idle" /\ ~e.fade /\ ~e.spray
  BY <1>1, EndedIs
<1> HIDE DEF e
<1>3. aroma' = [e EXCEPT !.play = FALSE, !.sounds = FALSE]
  BY DEF StopHeld, StopMusic, e
<1>4. aroma' \in AromaType /\ aroma'.mode = "none" /\ aroma'.view = "idle"
      /\ ~aroma'.fade /\ ~aroma'.spray /\ ~aroma'.play /\ ~aroma'.sounds
  BY <1>2, <1>3 DEF AromaType
<1>5. Unhurried
  BY <1>1, <1>4 DEF Unhurried
<1>6. Hushed'
  BY <1>1, <1>4 DEF Hushed, Met
<1> QED
  BY <1>1, <1>4, <1>5, <1>6, Loops, KeyKeeps

\* The lamp keys move a time only when the times are being set.
LEMMA LampPressedKeeps ==
  ASSUME ControlInv, NEW b \in {"sun", "moon"}, NEW by \in {1, -1}, LampPressed(b, by)
  PROVE  ControlInv'
<1> USE DEF ControlInv
<1>1. /\ Handles /\ UNCHANGED <<view, file, clock>> /\ main' \in MainType
      /\ main'.pc \in {main.pc, "opens", "shows"}
      /\ aroma \in AromaType /\ file' \in TimesType /\ seen \in SeenType /\ by \in Int
  BY PressedIs DEF LampPressed, ControlType
<1>2. CASE aroma.view = "config"
  <2>1. aroma' = Edited(aroma, by) /\ seen' = [seen EXCEPT !.rang = Rested]
    BY <1>2 DEF LampPressed
  <2>2. /\ aroma' \in AromaType /\ aroma'.mode = aroma.mode /\ aroma'.view = aroma.view
        /\ aroma'.fade = aroma.fade /\ aroma'.spray = aroma.spray /\ aroma'.play = aroma.play
        /\ aroma'.sounds = aroma.sounds
    BY <1>1, <2>1, EditedIs
  <2>3. seen' \in SeenType /\ seen'.quiet = seen.quiet /\ seen'.met = seen.met /\ seen'.set = seen.set
    BY <1>1, <2>1, RestedIs DEF SeenType
  <2>4. Unhurried
    BY <1>2, <2>3 DEF Timely, Unhurried
  <2>5. Hushed'
    BY <1>1, <2>2, <2>3 DEF Hushed, Met
  <2> QED BY <1>1, <2>2, <2>3, <2>4, <2>5, Loops, KeyKeeps
<1>3. CASE aroma.view # "config"
  <2>1. UNCHANGED <<aroma, seen>>
    BY <1>3 DEF LampPressed
  <2>2. Unhurried
    BY <2>1 DEF Unhurried
  <2>3. Hushed'
    BY <1>1, <2>1 DEF Hushed, Met
  <2> QED BY <1>1, <2>1, <2>2, <2>3, Loops, KeyKeeps
<1> QED
  BY <1>2, <1>3

\* Held, they start a program now, or make the time run.
LEMMA LampHeldKeeps ==
  ASSUME ControlInv, NEW b \in {"sun", "moon"}, NEW by \in {1, -1}, LampHeld(b, by)
  PROVE  ControlInv'
<1> USE DEF ControlInv
<1>1. /\ main.held = b /\ UNCHANGED <<view, file, clock>> /\ main' \in MainType
      /\ aroma.view = "config" \/ aroma.mode # "none" => main'.pc = "idle"
      /\ aroma \in AromaType /\ file' \in TimesType /\ seen \in SeenType /\ by \in Int /\ Now \in Int
      /\ Now' = Now
  <2>0. main \in MainType
    BY DEF ControlType
  <2>1. main.held = b /\ main.pc = "idle" /\ UNCHANGED <<view, file, clock>>
    BY DEF LampHeld
  <2>2. /\ main' \in MainType
        /\ aroma.view = "config" \/ aroma.mode # "none" => main'.pc = "idle"
    <3>1. CASE aroma.view = "config" \/ aroma.mode # "none"
      <4>1. main' = [main EXCEPT !.long = TRUE]
        BY <3>1 DEF LampHeld
      <4> QED BY <2>0, <2>1, <4>1 DEF MainType
    <3>2. CASE aroma.view # "config" /\ aroma.mode = "none"
      <4>1. PICK pc \in {"pauses", "runs"} : main' = [main EXCEPT !.long = TRUE, !.pc = pc]
        BY <3>2 DEF LampHeld, PlayWaits
      <4> QED BY <2>0, <3>2, <4>1 DEF MainType
    <3> QED BY <3>1, <3>2
  <2>3. aroma \in AromaType /\ file' \in TimesType /\ seen \in SeenType /\ Now \in Int /\ Now' = Now
    BY <2>1 DEF ControlType, Now
  <2> QED BY <2>1, <2>2, <2>3
<1>2. CASE aroma.view = "config"
  <2>1. aroma' = [aroma EXCEPT !.change = by] /\ UNCHANGED seen
    BY <1>2 DEF LampHeld
  <2>2. /\ aroma' \in AromaType /\ aroma'.mode = aroma.mode /\ aroma'.view = aroma.view
        /\ aroma'.getup = aroma.getup /\ aroma'.sleep = aroma.sleep
        /\ aroma'.fade = aroma.fade /\ aroma'.spray = aroma.spray /\ aroma'.play = aroma.play
        /\ aroma'.sounds = aroma.sounds
    BY <1>1, <2>1 DEF AromaType
  <2>3. Unhurried
    BY <2>1, <2>2 DEF Unhurried
  <2>4. Hushed'
    BY <1>1, <1>2, <2>1, <2>2 DEF Hushed, Met
  <2> QED BY <1>1, <2>1, <2>2, <2>3, <2>4, Loops, KeyKeeps
<1>3. CASE aroma.view # "config" /\ aroma.mode # "none"
  <2>1. UNCHANGED <<aroma, seen>>
    BY <1>3 DEF LampHeld
  <2>2. Unhurried
    BY <2>1 DEF Unhurried
  <2>3. Hushed'
    BY <1>3, <2>1 DEF Hushed
  <2> QED BY <1>1, <2>1, <2>2, <2>3, Loops, KeyKeeps
<1>4. CASE aroma.view # "config" /\ aroma.mode = "none"
  <2>1. aroma' = PlayBegins(IF b = "sun" THEN SetLedc(GetupBegins(aroma, Now), TRUE, FALSE)
                                         ELSE SleepBegins(aroma, Now))
    BY <1>4 DEF LampHeld
  <2>2. seen' = [seen EXCEPT !.quiet = FALSE, !.age = 0, !.rang = Rested, !.want = -1]
    BY <1>4 DEF LampHeld
  <2>3. seen' \in SeenType /\ ~seen'.quiet /\ seen'.set = seen.set /\ seen'.age = 0
    <3> DEFINE w == -1
    <3>1. w \in Int
      OBVIOUS
    <3>2. seen' = [seen EXCEPT !.quiet = FALSE, !.age = 0, !.rang = Rested, !.want = w]
      BY <2>2
    <3> HIDE DEF w
    <3>3. seen' \in SeenType
      <4>1. seen \in SeenType /\ Rested \in Int /\ 0 \in Int
        BY <1>1, RestedIs
      <4> QED BY ONLY <4>1, <3>1, <3>2 DEF SeenType
    <3>4. ~seen'.quiet /\ seen'.set = seen.set
      BY <1>1, <3>2 DEF SeenType
    <3>5. seen'.age = 0
      BY <1>1, <3>2 DEF SeenType
    <3> QED BY <3>3, <3>4, <3>5
  <2>4. /\ aroma' \in AromaType /\ aroma'.view = aroma.view
        /\ \/ aroma'.mode = "getup" /\ aroma'.getup = Now - Min2(Back)
           \/ aroma'.mode = "sleep" /\ aroma'.sleep = Now - Min2(Back)
    <3>1. CASE b = "sun"
      <4> DEFINE g == GetupBegins(aroma, Now)
                 l == SetLedc(g, TRUE, FALSE)
      <4>1. g \in AromaType /\ g.mode = "getup" /\ g.getup = Now - Min2(Back) /\ g.view = aroma.view
        BY <1>1, GetupBeginsIs
      <4> HIDE DEF g
      <4>2. l \in AromaType /\ Alike(g, l)
        BY <4>1, LedcAlike DEF Alike
      <4> HIDE DEF l
      <4>3. aroma' = PlayBegins(l)
        BY <2>1, <3>1 DEF l, g
      <4> QED BY <4>1, <4>2, <4>3, PlayBeginsAlike DEF Alike
    <3>2. CASE b # "sun"
      <4> DEFINE m == SleepBegins(aroma, Now)
      <4>1. m \in AromaType /\ m.mode = "sleep" /\ m.sleep = Now - Min2(Back) /\ m.view = aroma.view
        BY <1>1, SleepBeginsIs
      <4>2. aroma' = PlayBegins(m)
        BY <2>1, <3>2
      <4> HIDE DEF m
      <4> QED BY <4>1, <4>2, PlayBeginsAlike DEF Alike
    <3> QED BY <3>1, <3>2
  <2>5. Since' = Min2(Back)
    <3>1. Min2(Back) \in Int
      BY Bounds DEF Min2
    <3>2. Since' = Now - (Now - Min2(Back))
      BY <1>1, <2>4 DEF Since
    <3> QED BY ONLY <3>1, <3>2, <1>1
  <2>6. Unhurried
    BY <2>3, <2>4, <2>5 DEF Unhurried
  <2>7. Hushed'
    BY <2>3 DEF Hushed
  <2> QED BY <1>1, <2>3, <2>4, <2>6, <2>7, Loops, KeyKeeps
<1> QED
  BY <1>2, <1>3, <1>4

\* The music they start begins when the player is ready; a stop cannot be held meanwhile.
LEMMA HeldStartsKeeps == ASSUME ControlInv, HeldStarts PROVE ControlInv'
<1> USE DEF ControlInv
<1>1. /\ main.pc \in {"pauses", "runs"} /\ UNCHANGED <<view, file, clock, seen>> /\ main' \in MainType
      /\ aroma \in AromaType /\ file' \in TimesType /\ seen' \in SeenType
  BY DEF HeldStarts, ControlType, MainType
<1>2. Alike(aroma, aroma')
  BY <1>1, PlayEndsAlike DEF HeldStarts
<1>3. Unhurried
  BY <1>1, <1>2 DEF Unhurried, Alike
<1>4. Hushed'
  BY <1>1 DEF Hushed
<1> QED
  BY <1>1, <1>2, <1>3, <1>4, Loops, KeyKeeps DEF Alike

\* A release changes no program.
LEMMA ReleasedKeeps == ASSUME ControlInv, Released PROVE ControlInv'
<1> USE DEF ControlInv
<1>1. /\ main.held # "none" /\ UNCHANGED <<view, file, clock, seen>> /\ main' \in MainType
      /\ aroma \in AromaType /\ file' \in TimesType /\ seen' \in SeenType
      /\ main'.pc = "idle"
      /\ aroma' = [aroma EXCEPT !.change = 0] \/ aroma' = aroma
  BY DEF Released, ControlType, MainType
<1>2. /\ aroma' \in AromaType /\ aroma'.mode = aroma.mode /\ aroma'.view = aroma.view
      /\ aroma'.getup = aroma.getup /\ aroma'.sleep = aroma.sleep
      /\ aroma'.fade = aroma.fade /\ aroma'.spray = aroma.spray /\ aroma'.play = aroma.play
        /\ aroma'.sounds = aroma.sounds
  BY <1>1 DEF AromaType
<1>3. Unhurried
  BY <1>1, <1>2 DEF Unhurried
<1>4. Hushed'
  BY <1>1, <1>2 DEF Hushed, Met
<1> QED
  BY <1>1, <1>2, <1>3, <1>4, Loops, KeyKeeps

\* The set key held shows the times again.
LEMMA SetHeldKeeps == ASSUME ControlInv, SetHeld PROVE ControlInv'
<1> USE DEF ControlInv
<1>1. /\ main.held # "none" /\ UNCHANGED <<view, file, clock, seen>> /\ main' \in MainType
      /\ aroma \in AromaType /\ file' \in TimesType /\ seen' \in SeenType
      /\ main'.pc = "idle" /\ aroma' = [aroma EXCEPT !.view = "idle"]
  BY DEF SetHeld, HeldLong, ControlType, MainType
<1>2. /\ aroma' \in AromaType /\ aroma'.mode = aroma.mode /\ aroma'.view = "idle"
      /\ aroma'.getup = aroma.getup /\ aroma'.sleep = aroma.sleep
      /\ aroma'.fade = aroma.fade /\ aroma'.spray = aroma.spray /\ aroma'.play = aroma.play
        /\ aroma'.sounds = aroma.sounds
  BY <1>1 DEF AromaType
<1>3. Unhurried
  BY <1>1, <1>2 DEF Unhurried
<1>4. Hushed'
  BY <1>1, <1>2 DEF Hushed, Met
<1> QED
  BY <1>1, <1>2, <1>3, <1>4, Loops, KeyKeeps

\* The set key takes the times out of their programs, and says so.
LEMMA SetPressedKeeps == ASSUME ControlInv, SetPressed PROVE ControlInv'
<1> USE DEF ControlInv
<1> DEFINE o == [aroma EXCEPT !.view = "config", !.config = "local", !.timeout = Now + Min2(ConfigTime)]
           l == IF Now < file.local THEN file.local ELSE Now
           f == [o EXCEPT !.getup = file.getup + Min2(GetupLead),
                          !.sleep = file.sleep + Min2(SleepLead), !.local = l]
           a == IF aroma.view # "idle" THEN aroma ELSE IF file = NoFile THEN o ELSE f
           want == IF aroma.view = "config" THEN seen.want ELSE -1
           Same(b) == /\ b \in AromaType /\ b.mode = aroma.mode /\ b.fade = aroma.fade
                      /\ b.spray = aroma.spray /\ b.play = aroma.play /\ b.sounds = aroma.sounds
<1>1. /\ Handles /\ UNCHANGED <<view, file, clock>> /\ main' \in MainType
      /\ main'.pc \in {main.pc, "opens", "shows"}
      /\ aroma \in AromaType /\ file \in TimesType /\ file' \in TimesType /\ seen \in SeenType
      /\ Now \in Int
  BY PressedIs DEF SetPressed, ControlType, Now
<1>2. /\ Now + Min2(ConfigTime) \in Int /\ file.getup + Min2(GetupLead) \in Int
      /\ file.sleep + Min2(SleepLead) \in Int /\ l \in Int
  BY <1>1, Bounds DEF TimesType, Min2
<1>3. Same(o)
  BY <1>1, <1>2 DEF AromaType
<1>4. Same(f)
  <2> HIDE DEF o, l
  <2> QED BY <1>2, <1>3 DEF AromaType
<1>5. Same(a)
  <2> HIDE DEF o, f
  <2> QED BY <1>1, <1>3, <1>4
<1>6. aroma' = IF a.config # "idle" THEN a
               ELSE [a EXCEPT !.view = "idle", !.getup = @ - Min2(GetupLead), !.sleep = @ - Min2(SleepLead)]
  BY DEF SetPressed
<1> HIDE DEF a
<1>7. Same(aroma')
  <2>1. a.config \in {"local", "getup", "sleep", "idle"} /\ a.getup - Min2(GetupLead) \in Int
        /\ a.sleep - Min2(SleepLead) \in Int
    BY <1>5, Bounds DEF AromaType, Min2
  <2>2. CASE a.config # "idle"
    BY <1>5, <1>6, <2>1, <2>2 DEF AromaType
  <2>3. CASE a.config = "idle"
    BY <1>5, <1>6, <2>1, <2>3 DEF AromaType
  <2> QED BY <2>2, <2>3
<1>8. seen' \in SeenType /\ seen'.set /\ seen'.quiet = seen.quiet /\ seen'.met = seen.met
  <2>1. want \in Int
    BY <1>1 DEF SeenType
  <2>2. seen' = [seen EXCEPT !.rang = Rested, !.set = TRUE, !.want = want]
    BY DEF SetPressed
  <2> HIDE DEF want
  <2> QED BY <1>1, <2>1, <2>2, RestedIs DEF SeenType
<1>9. Unhurried
  BY <1>8 DEF Unhurried
<1>10. Hushed'
  BY <1>1, <1>7, <1>8 DEF Hushed, Met
<1> QED
  BY <1>1, <1>7, <1>8, <1>9, <1>10, Loops, KeyKeeps

\* What is shown for a second changes no program.
LEMMA SetShowsKeeps == ASSUME ControlInv, SetShows PROVE ControlInv'
<1> USE DEF ControlInv
<1>1. /\ main.pc = "shows" /\ UNCHANGED <<view, file, clock, seen>> /\ main' \in MainType
      /\ main'.pc = "idle" /\ aroma \in AromaType /\ file' \in TimesType /\ seen' \in SeenType
  BY DEF SetShows, ControlType, MainType
<1> DEFINE Shown == {<<"local", "getup">>, <<"getup", "sleep">>, <<"sleep", "idle">>}
<1>0. \A c \in Shown : c[1] \in {"local", "getup", "sleep"} /\ c[2] \in {"idle", "local", "getup", "sleep"}
  OBVIOUS
<1>2. PICK c \in Shown : aroma' = [aroma EXCEPT !.edits = c[1], !.config = c[2]]
  BY DEF SetShows
<1> HIDE DEF Shown
<1>3. /\ aroma' \in AromaType /\ aroma'.mode = aroma.mode /\ aroma'.view = aroma.view
      /\ aroma'.getup = aroma.getup /\ aroma'.sleep = aroma.sleep
      /\ aroma'.fade = aroma.fade /\ aroma'.spray = aroma.spray /\ aroma'.play = aroma.play
      /\ aroma'.sounds = aroma.sounds
  BY <1>0, <1>1, <1>2 DEF AromaType
<1>4. Unhurried
  BY <1>1, <1>3 DEF Unhurried
<1>5. Hushed'
  BY <1>1, <1>3 DEF Hushed, Met
<1> QED
  BY <1>1, <1>3, <1>4, <1>5, Loops, KeyKeeps

\* Writing the file changes no program.
LEMMA SavesKeep == ASSUME ControlInv, SaveOpens \/ SaveWrites PROVE ControlInv'
<1> USE DEF ControlInv
<1>1. /\ main.pc # "idle" /\ UNCHANGED <<view, aroma, clock>> /\ main' \in MainType
      /\ main'.pc \in {"writes", "sets"} /\ aroma \in AromaType /\ seen \in SeenType
  BY DEF SaveOpens, SaveWrites, ControlType, MainType
<1>2. file' \in TimesType
  <2>1. InDay(aroma.getup) \in Int /\ InDay(aroma.sleep) \in Int /\ InDay(aroma.local) \in Int
    BY <1>1, DayIs DEF AromaType, InDay
  <2>2. file \in TimesType /\ NoFile \in TimesType /\ Times \in TimesType
    BY <2>1 DEF ControlType, TimesType, NoFile, Times
  <2> QED BY <2>2 DEF SaveOpens, SaveWrites
<1>3. /\ seen' \in SeenType /\ seen'.set = seen.set /\ seen'.age = seen.age
      /\ seen'.quiet = seen.quiet /\ seen'.met = seen.met
  <2> DEFINE w == (aroma.getup + Min2(GetupLead)) % Day
  <2>1. w \in Int
    <3>1. aroma.getup + Min2(GetupLead) \in Int
      BY <1>1, Bounds DEF AromaType, Min2
    <3> QED BY ONLY <3>1, DayIs
  <2>2. seen' = seen \/ seen' = [seen EXCEPT !.want = w]
    BY DEF SaveOpens, SaveWrites
  <2> HIDE DEF w
  <2> QED BY <1>1, <2>1, <2>2 DEF SeenType
<1>4. Unhurried
  BY <1>1, <1>3 DEF Unhurried
<1>5. Hushed'
  BY <1>1, <1>3 DEF Hushed, Met
<1> QED
  BY <1>1, <1>2, <1>3, <1>4, <1>5, Loops, KeyKeeps

\* The lamp that is held and the view that gives up change no program.
LEMMA LampsKeep == ASSUME ControlInv, LightHolds \/ ConfigTimesOut PROVE ControlInv'
<1> USE DEF ControlInv
<1>1. /\ UNCHANGED <<view, main, file, clock, seen>>
      /\ aroma \in AromaType /\ main' \in MainType /\ file' \in TimesType /\ seen' \in SeenType
      /\ aroma' = [aroma EXCEPT !.fade = FALSE] \/ aroma' = [aroma EXCEPT !.view = "idle"]
  BY DEF LightHolds, ConfigTimesOut, ControlType
<1>2. /\ aroma' \in AromaType /\ aroma'.mode = aroma.mode /\ aroma'.view \in {aroma.view, "idle"}
      /\ aroma'.getup = aroma.getup /\ aroma'.sleep = aroma.sleep
      /\ aroma'.fade \in {aroma.fade, FALSE} /\ aroma'.spray = aroma.spray /\ aroma'.play = aroma.play
        /\ aroma'.sounds = aroma.sounds
  BY <1>1 DEF AromaType
<1>3. Unhurried
  BY <1>1, <1>2 DEF Unhurried
<1>4. Hushed'
  BY <1>1, <1>2 DEF Hushed, Met
<1> QED
  BY <1>1, <1>2, <1>3, <1>4, KeyKeeps

\* The time that runs is one that is being set.
LEMMA ConfigStepsKeeps == ASSUME ControlInv, ConfigSteps PROVE ControlInv'
<1> USE DEF ControlInv
<1>1. /\ view.pc = "loops" /\ aroma.view = "config" /\ UNCHANGED <<view, file>>
      /\ aroma \in AromaType /\ file' \in TimesType /\ seen \in SeenType
      /\ aroma' = Edited(aroma, aroma.change * Stride) /\ seen' = [seen EXCEPT !.rang = Rested]
  BY DEF ConfigSteps, ControlType
<1>2. aroma.change * Stride \in Int
  <2>1. aroma.change \in Int /\ Stride \in Int
    BY <1>1, Bounds DEF AromaType
  <2> QED BY ONLY <2>1
<1>3. /\ aroma' \in AromaType /\ aroma'.mode = aroma.mode /\ aroma'.view = aroma.view
      /\ aroma'.fade = aroma.fade /\ aroma'.spray = aroma.spray /\ aroma'.play = aroma.play
        /\ aroma'.sounds = aroma.sounds
  BY <1>1, <1>2, EditedIs
<1>4. seen' \in SeenType /\ seen'.quiet = seen.quiet /\ seen'.met = seen.met /\ seen'.set = seen.set
  BY <1>1, RestedIs DEF SeenType
<1>5. main' \in MainType /\ main'.pc = main.pc
  BY DEF ConfigSteps, ControlType, MainType
<1>6. clock' \in [now : Int, ticks : Nat, ran : BOOLEAN, crashes : Nat]
  BY DEF ConfigSteps, ControlType
<1>7. ControlType'
  BY <1>1, <1>3, <1>4, <1>5, <1>6 DEF ControlType
<1>8. Timely'
  BY <1>1, <1>3, <1>4 DEF Timely
<1>9. Booting' /\ Hushed'
  BY <1>1, <1>3, <1>4, <1>5 DEF Booting, Hushed, Met
<1> QED
  BY <1>7, <1>8, <1>9

\* Setting the clock is setting the times.
LEMMA SaveSetsKeeps == ASSUME ControlInv, SaveSets PROVE ControlInv'
<1> USE DEF ControlInv
<1>1. /\ main.pc = "sets" /\ UNCHANGED <<aroma, view, file>> /\ seen \in SeenType /\ aroma \in AromaType
      /\ seen' = [seen EXCEPT !.set = TRUE, !.rang = Rested]
      /\ clock' = [clock EXCEPT !.now = InDay(aroma.local)]
  BY DEF SaveSets, ControlType
<1>2. seen' \in SeenType /\ seen'.quiet = seen.quiet /\ seen'.met = seen.met /\ seen'.set
  BY <1>1, RestedIs DEF SeenType
<1>3. InDay(aroma.local) \in Int
  BY <1>1, DayIs DEF AromaType, InDay
<1>4. clock' \in [now : Int, ticks : Nat, ran : BOOLEAN, crashes : Nat]
  BY <1>1, <1>3 DEF ControlType
<1>5. main' \in MainType /\ main'.pc = "idle"
  BY DEF SaveSets, ControlType, MainType
<1>6. ControlType'
  BY <1>1, <1>2, <1>4, <1>5 DEF ControlType
<1>7. Timely'
  BY <1>2 DEF Timely
<1>8. Booting' /\ Hushed'
  BY <1>1, <1>2, <1>5 DEF Booting, Hushed, Met
<1> QED
  BY <1>6, <1>7, <1>8

\* A step in which no program runs, outside the waits, and nothing is to be kept off.
LEMMA RestKeeps ==
  ASSUME ControlType', aroma'.mode = "none", aroma'.view # "config" \/ seen'.set,
         view'.pc \in {"boots", "writes", "loops"}, main'.held = "none" /\ main'.pc = "idle",
         seen'.quiet =>
           ~aroma'.spray /\ (~seen'.met => ~aroma'.fade /\ ~aroma'.play /\ ~aroma'.sounds)
  PROVE  ControlInv'
  BY DEF ControlInv, Timely, Booting, Hushed, Met

\* A restart forgets everything but the file.
LEMMA RestartsKeep ==
  ASSUME ControlInv, NEW f \in TimesType, Restarts(f),
         clock' \in [now : Int, ticks : Nat, ran : BOOLEAN, crashes : Nat]
  PROVE  ControlInv'
<1> USE DEF ControlInv
<1>1. /\ aroma' = Booted /\ file' = f /\ view' = At("boots", "none", 0)
      /\ main' = [main EXCEPT !.pc = "idle", !.held = "none", !.long = FALSE]
      /\ seen' = [Calm EXCEPT !.want = seen.want] /\ main \in MainType /\ seen \in SeenType
  BY DEF Restarts, ControlType
<1>2. Booted \in AromaType /\ Booted.mode = "none" /\ Booted.view = "idle"
  BY DEF Booted, AromaType
<1>3. main' \in MainType /\ main'.held = "none" /\ main'.pc = "idle"
  BY <1>1 DEF MainType
<1>4. seen' \in SeenType /\ ~seen'.quiet
  <2>1. Default.getup \in Int /\ seen.want \in Int
    BY <1>1, DayIs DEF Default, SeenType
  <2>2. Calm \in SeenType /\ ~Calm.quiet
    BY <2>1, RestedIs DEF Calm, SeenType
  <2> QED BY <1>1, <2>1, <2>2 DEF SeenType
<1>5. ControlType'
  BY <1>1, <1>2, <1>3, <1>4 DEF ControlType, ViewType, At
<1> QED
  BY <1>1, <1>2, <1>3, <1>4, <1>5, RestKeeps DEF At

\* The default and the unreadable file are files.
LEMMA FilesAre == NoFile \in TimesType /\ Default \in TimesType
  BY DayIs DEF NoFile, Default, TimesType

\* No program runs before the loop of the view.
LEMMA BootsKeep == ASSUME ControlInv, Crashes \/ BootsWrites \/ Boots \/ BootsFirst PROVE ControlInv'
<1> USE DEF ControlInv
<1>1. CASE Crashes
  <2>1. clock' \in [now : Int, ticks : Nat, ran : BOOLEAN, crashes : Nat] /\ Restarts(file)
        /\ file \in TimesType
    BY <1>1 DEF Crashes, ControlType
  <2> QED BY <2>1, RestartsKeep
<1>2. CASE BootsWrites
  <2>1. clock' \in [now : Int, ticks : Nat, ran : BOOLEAN, crashes : Nat] /\ Restarts(Default)
    BY <1>2 DEF BootsWrites, ControlType
  <2> QED BY <2>1, FilesAre, RestartsKeep
<1>3. CASE Boots
  <2>1. /\ view.pc = "boots" /\ UNCHANGED <<main, file, seen>> /\ aroma \in AromaType
        /\ file \in TimesType /\ main' \in MainType /\ file' \in TimesType /\ seen' \in SeenType
        /\ view' = [view EXCEPT !.pc = "loops"]
    BY <1>3 DEF Boots, ControlType
  <2>2. file.getup - Min2(GetupLead) \in Int /\ file.sleep - Min2(SleepLead) \in Int /\ file.local \in Int
    BY <2>1, Bounds DEF TimesType, Min2
  <2>3. aroma' = [aroma EXCEPT !.getup = file.getup - Min2(GetupLead),
                               !.sleep = file.sleep - Min2(SleepLead), !.local = file.local]
    BY <1>3 DEF Boots
  <2>4. /\ aroma' \in AromaType /\ aroma'.mode = aroma.mode /\ aroma'.view = aroma.view
        /\ aroma'.fade = aroma.fade /\ aroma'.spray = aroma.spray /\ aroma'.play = aroma.play
        /\ aroma'.sounds = aroma.sounds
    BY <2>1, <2>2, <2>3 DEF AromaType
  <2>5. clock' \in [now : Int, ticks : Nat, ran : BOOLEAN, crashes : Nat]
    <3> DEFINE t == IF file.local - clock.now > Min2(ClockSlack) THEN file.local ELSE clock.now
    <3>1. t \in Int
      BY <2>2 DEF ControlType
    <3>2. clock' = [clock EXCEPT !.now = t]
      BY <1>3 DEF Boots
    <3> HIDE DEF t
    <3> QED BY <3>1, <3>2 DEF ControlType
  <2>6. view' \in ViewType /\ view'.pc = "loops"
    BY <2>1 DEF ControlType, ViewType
  <2>7. ControlType'
    BY <2>1, <2>4, <2>5, <2>6 DEF ControlType
  <2>8. aroma.mode = "none" /\ main.held = "none" /\ main.pc = "idle" /\ (aroma.view # "config" \/ seen.set)
    BY <2>1 DEF Booting, Timely
  <2> QED BY <2>1, <2>4, <2>6, <2>7, <2>8, RestKeeps DEF Hushed
<1>4. CASE BootsFirst
  <2>1. /\ view.pc = "boots" /\ UNCHANGED <<aroma, main, file, clock>>
        /\ view' \in {[view EXCEPT !.pc = "writes"], [view EXCEPT !.pc = "loops"]}
        /\ seen' = seen \/ seen' = [seen EXCEPT !.want = -1]
    BY <1>4 DEF BootsFirst
  <2>2. view' \in ViewType /\ view'.pc \in {"writes", "loops"}
    BY <2>1 DEF ControlType, ViewType
  <2>3. seen' \in SeenType /\ seen'.quiet = seen.quiet /\ seen'.met = seen.met /\ seen'.set = seen.set
    BY <2>1 DEF ControlType, SeenType
  <2>4. ControlType'
    BY <2>1, <2>2, <2>3 DEF ControlType
  <2>5. aroma.mode = "none" /\ main.held = "none" /\ main.pc = "idle" /\ (aroma.view # "config" \/ seen.set)
    BY <2>1 DEF Booting, Timely
  <2> QED BY <2>1, <2>2, <2>3, <2>4, <2>5, RestKeeps DEF Hushed
<1> QED
  BY <1>1, <1>2, <1>3, <1>4

\* A tick makes the program and the time since its alarm older by the same, and leaves the view
\* within one look of its end.
LEMMA TickKeeps == ASSUME ControlInv, Tick PROVE ControlInv'
<1> USE DEF ControlInv
<1>1. /\ view.pc = "loops" \/ Met
      /\ UNCHANGED <<aroma, view, main, file>>
      /\ aroma \in AromaType /\ view \in ViewType /\ seen \in SeenType /\ Now \in Int /\ view.now \in Int
      /\ aroma.view # "config" => clock.ran
      /\ clock \in [now : Int, ticks : Nat, ran : BOOLEAN, crashes : Nat]
  BY DEF Tick, ControlType, Now, ViewType
<1>2. PICK skip \in {1, 2} :
        /\ view.pc # "loops" => skip = 1
        /\ clock' = [clock EXCEPT !.now = @ + skip, !.ticks = @ + skip, !.ran = FALSE]
        /\ seen' = [seen EXCEPT !.age = IF aroma.mode = "none" THEN 0 ELSE @ + skip,
                                !.set = (@ /\ (aroma.mode # "none" \/ Met)) \/ aroma.view = "config",
                                !.rang = IF @ + skip > Rested THEN Rested ELSE @ + skip]
  BY DEF Tick
<1>3. clock' \in [now : Int, ticks : Nat, ran : BOOLEAN, crashes : Nat] /\ ~clock'.ran /\ Now' = Now + skip
  <2> DEFINE t == clock.now + skip
             k == clock.ticks + skip
  <2>1. t \in Int /\ k \in Nat
    BY <1>1
  <2>2. clock' = [clock EXCEPT !.now = t, !.ticks = k, !.ran = FALSE]
    BY <1>2
  <2>3. t = Now + skip
    BY DEF Now
  <2> HIDE DEF t, k
  <2> QED BY <1>1, <2>1, <2>2, <2>3 DEF Now
<1>4. /\ seen' \in SeenType /\ seen'.quiet = seen.quiet /\ seen'.met = seen.met
      /\ seen'.age = IF aroma.mode = "none" THEN 0 ELSE seen.age + skip
      /\ seen'.set = ((seen.set /\ (aroma.mode # "none" \/ Met)) \/ aroma.view = "config")
  <2> DEFINE age == IF aroma.mode = "none" THEN 0 ELSE seen.age + skip
             set == (seen.set /\ (aroma.mode # "none" \/ Met)) \/ aroma.view = "config"
             rang == IF seen.rang + skip > Rested THEN Rested ELSE seen.rang + skip
  <2>1. age \in Int /\ rang \in Int
    BY <1>1, RestedIs DEF SeenType
  <2>2. set \in BOOLEAN
    BY <1>1 DEF SeenType
  <2>3. seen' = [seen EXCEPT !.age = age, !.set = set, !.rang = rang]
    BY <1>2
  <2> HIDE DEF age, set, rang
  <2>4. seen' \in SeenType /\ seen'.quiet = seen.quiet /\ seen'.met = seen.met
        /\ seen'.age = age /\ seen'.set = set
    BY <1>1, <2>1, <2>2, <2>3 DEF SeenType
  <2> QED BY <2>4 DEF age, set
<1>5. ControlType'
  BY <1>1, <1>3, <1>4 DEF ControlType
<1>6. Booting' /\ Hushed'
  BY <1>1, <1>4 DEF Booting, Hushed, Met
<1>7. Timely'
  <2>1. SUFFICES ASSUME ~seen'.set PROVE Timely'
    BY DEF Timely
  <2>2. aroma.view # "config" /\ clock.ran
    BY <1>1, <1>4, <2>1
  <2>3. CASE aroma.mode = "none" /\ ~Met
    BY <1>1, <2>2, <2>3 DEF Timely, Met
  <2>4. CASE ~seen.set
    <3>1. /\ Met => view.now <= Now /\ Now <= view.now
          /\ aroma.mode # "none" => seen.age + Min2(Back) <= Since /\ Since <= Min2(Over) + Slack
          /\ Met /\ view.of = "getup" /\ aroma.mode = "sleep" => seen.age <= Now - view.now
      <4>1. Late = 0
        BY <2>2 DEF Late
      <4> QED BY <1>1, <2>4, <4>1 DEF Timely
    <3>2. Late' = 1
      BY <1>3 DEF Late
    <3>3. Met' => view'.now <= Now' /\ Now' <= view'.now + Late'
      BY <1>1, <1>2, <1>3, <3>1, <3>2 DEF Met
    <3>4. ASSUME aroma.mode # "none"
          PROVE seen'.age + Min2(Back) <= Since' /\ Since' <= Min2(Over) + Slack'
      <4>1. Since' = Since + skip
        BY <1>1, <1>3 DEF Since, AromaType
      <4>2. Slack' >= Slack + skip
        <5>1. Late = 0 /\ Met' = Met /\ view' = view /\ (Met => skip = 1)
          BY <1>1, <1>2, <2>2 DEF Late, Met
        <5>2. CASE Met
          BY <3>2, <5>1, <5>2 DEF Slack
        <5>3. CASE ~Met
          <6>1. Slack = 0 /\ Slack' = 2
            BY <3>2, <5>1, <5>3 DEF Slack
          <6> QED BY <6>1, skip \in {1, 2}
        <5> QED BY <5>2, <5>3
      <4>3. seen'.age = seen.age + skip /\ seen.age \in Int
        BY <1>1, <1>4, <3>4 DEF SeenType
      <4>4. Since \in Int /\ Min2(Back) \in Int /\ Min2(Over) \in Int /\ Slack \in Int /\ Slack' \in Int
        <5>1. ControlType
          OBVIOUS
        <5>2. Slack' \in {Late', 2 + Late', 2 * Late'}
          BY DEF Slack
        <5>3. Slack' \in Int
          BY ONLY <3>2, <5>2
        <5> QED BY <5>1, <5>3, SinceIs
      <4>5. seen.age + Min2(Back) <= Since /\ Since <= Min2(Over) + Slack
        BY <3>1, <3>4
      <4> QED BY ONLY <4>1, <4>2, <4>3, <4>4, <4>5, skip \in {1, 2}
    <3>5. ASSUME Met, view.of = "getup", aroma.mode = "sleep" PROVE seen'.age <= Now' - view'.now
      <4>1. seen'.age = seen.age + skip /\ seen.age \in Int /\ seen.age <= Now - view.now
        BY <1>1, <1>4, <3>1, <3>5 DEF SeenType
      <4> QED BY <1>1, <1>3, <4>1
    <3> QED BY <1>1, <2>2, <3>3, <3>4, <3>5 DEF Timely, Met
  <2> QED BY <1>4, <2>1, <2>3, <2>4
<1> QED
  BY <1>5, <1>6, <1>7

\* The invariant of the programs is inductive.
LEMMA ControlStep == ControlInv /\ [ControlNext]_control => ControlInv'
<1> SUFFICES ASSUME ControlInv, [ControlNext]_control PROVE ControlInv'
  OBVIOUS
<1>1. CASE UNCHANGED control
  BY <1>1 DEF control, ControlInv, ControlType, Timely, Booting, Hushed, Met, Now, Late, Slack, Since
<1>2. ASSUME LampPressed("sun", 1) \/ LampPressed("moon", -1) PROVE ControlInv'
  <2>1. 1 \in {1, -1} /\ -1 \in {1, -1}
    OBVIOUS
  <2> QED BY <1>2, <2>1, LampPressedKeeps
<1>3. ASSUME LampHeld("sun", 1) \/ LampHeld("moon", -1) PROVE ControlInv'
  <2>1. 1 \in {1, -1} /\ -1 \in {1, -1}
    OBVIOUS
  <2> QED BY <1>3, <2>1, LampHeldKeeps
<1> QED
  BY <1>1, <1>2, <1>3, IterateKeeps, WaitEndsKeeps, ConfigStepsKeeps, LampsKeep, BootsKeep,
     StopPressedKeeps, StopHeldKeeps, HeldStartsKeeps, ReleasedKeeps, SetPressedKeeps, SetShowsKeeps,
     SetHeldKeeps, SavesKeep, SaveSetsKeeps, TickKeeps
     DEF ControlNext, ViewTask, MainTask, WaitEnds

\* They begin in it.
LEMMA ControlBegins == ControlInit => ControlInv
<1> SUFFICES ASSUME ControlInit PROVE ControlInv
  OBVIOUS
<1>1. Booted \in AromaType /\ Booted.mode = "none" /\ Booted.view = "idle"
  BY DEF Booted, AromaType
<1>2. file \in TimesType
  BY FilesAre DEF ControlInit
<1>3. seen \in SeenType /\ ~seen.quiet
  <2>1. Default.getup \in Int
    BY DayIs DEF Default
  <2> QED BY <2>1, RestedIs DEF ControlInit, Calm, SeenType
<1>4. clock \in [now : Int, ticks : Nat, ran : BOOLEAN, crashes : Nat]
  <2>1. clock \in [now : Starts, ticks : {0}, ran : {TRUE}, crashes : {0}]
    BY DEF ControlInit
  <2>2. PICK n \in Starts : clock = [now |-> n, ticks |-> 0, ran |-> TRUE, crashes |-> 0]
    BY <2>1
  <2>3. Starts \subseteq Nat
    BY Bounds
  <2>4. n \in Int
    BY <2>3
  <2> QED BY ONLY <2>2, <2>4
<1>5. main \in MainType /\ main.held = "none" /\ main.pc = "idle"
  BY DEF ControlInit, MainType
<1>6. view \in ViewType /\ view.pc = "boots"
  BY DEF ControlInit, ViewType, At
<1>7. ControlType
  BY <1>1, <1>2, <1>3, <1>4, <1>5, <1>6 DEF ControlInit, ControlType
<1> QED
  BY <1>1, <1>3, <1>5, <1>6, <1>7 DEF ControlInit, ControlInv, Timely, Booting, Hushed, Met

\* StopIsKept follows from it.
LEMMA ControlStops == ControlInv => StopIsKept
  BY DEF ControlInv, Hushed, StopIsKept

\* ProgramEnds follows from it.
LEMMA ControlEnds == ControlInv => ProgramEnds
<1> SUFFICES ASSUME ControlInv, aroma.mode # "none", ~seen.set PROVE seen.age <= Min2(Over - Back) + 3
  BY DEF ProgramEnds
<1>1. seen.age + Min2(Back) <= Since /\ Since <= Min2(Over) + Slack
  BY DEF ControlInv, Timely
<1>2. Since \in Int /\ Slack \in 0 .. 3 /\ seen.age \in Int
  BY SinceIs DEF ControlInv, ControlType, SeenType
<1>3. Over \in Int /\ Back \in Int
  BY Bounds
<1> QED
  BY ONLY <1>1, <1>2, <1>3 DEF Min2

-----------------------------------------------------------------------------
(* The alarm that does not repeat itself.                                  *)

\* As long as the hour since the alarm began is not over, its time is the one it was set back
\* to: nothing moved it or the clock meanwhile.
RungInv ==
  /\ seen.rang >= 0
  /\ view.pc \in {"boots", "writes"} => seen.rang = Rested
  /\ seen.rang < Rested => aroma.getup = Now - seen.rang - Min2(Back)

\* A step that leaves the alarm, the clock and the time since it began alone, or that takes the hour
\* for over.
RungSame ==
  \/ seen'.rang = Rested
  \/ /\ seen'.rang = seen.rang /\ aroma'.getup = aroma.getup /\ Now' = Now
     /\ view'.pc \in {"boots", "writes"} => view.pc \in {"boots", "writes"}

LEMMA RungKeeps == ASSUME RungInv, RungSame PROVE RungInv'
<1>1. Rested \in Int /\ Rested >= 0
  BY Bounds DEF Rested, Min2
<1>2. CASE seen'.rang = Rested
  BY <1>1, <1>2 DEF RungInv
<1>3. CASE /\ seen'.rang = seen.rang /\ aroma'.getup = aroma.getup /\ Now' = Now
           /\ view'.pc \in {"boots", "writes"} => view.pc \in {"boots", "writes"}
  BY <1>3 DEF RungInv
<1> QED
  BY <1>2, <1>3 DEF RungSame

\* What the programs do leaves the time of the alarm alone, and none of it begins the get-up program.
SameAlarm(a, b) ==
  b \in AromaType /\ b.getup = a.getup /\ (b.mode = "getup" => a.mode = "getup")

LEMMA AlikeSame == ASSUME NEW a, NEW b, Alike(a, b) PROVE SameAlarm(a, b)
  BY DEF Alike, SameAlarm

LEMMA WentSame ==
  ASSUME NEW a, NEW n, Left(a, n) \/ Waits(a, n)
  PROVE  SameAlarm(a, aroma') /\ view'.pc \notin {"boots", "writes"}
<1>1. SameAlarm(a, aroma')
  BY AlikeSame DEF Left, Waits, SameAlarm
<1>2. view' \in {At("loops", "none", 0)} \cup {At(pc, of, n) : pc \in Waiting, of \in {"getup", "sleep"}}
  BY DEF Left, Waits
<1> QED
  BY <1>1, <1>2 DEF At, Waiting

\* What the view notes of the alarm.
LEMMA RangIs ==
  ASSUME ControlType, Noted PROVE seen'.rang = IF RingsGetup THEN 0 ELSE seen.rang
<1> DEFINE q == seen.quiet /\ aroma'.mode = "none"
           age == IF aroma'.mode = "none" \/ aroma'.mode # aroma.mode THEN 0 ELSE seen.age
           rang == IF RingsGetup THEN 0 ELSE seen.rang
<1>1. seen \in SeenType
  BY DEF ControlType
<1>2. seen' = [seen EXCEPT !.quiet = q, !.age = age, !.rang = rang]
  BY DEF Noted
<1> HIDE DEF q, age, rang
<1>3. seen'.rang = rang
  BY <1>1, <1>2 DEF SeenType
<1> QED
  BY <1>3 DEF rang

\* A number is its quotient and its rest.
LEMMA Divided ==
  ASSUME NEW x \in Int, NEW m \in Int, m > 0
  PROVE  /\ x \div m \in Int /\ x % m \in 0 .. m - 1
         /\ x = m * (x \div m) + (x % m)
  OBVIOUS

LEMMA Multiples ==
  ASSUME NEW m \in Int, m > 0, NEW k \in Int
  PROVE  (k >= 1 => m * k >= m) /\ (k >= 3 => m * k >= 3 * m) /\ (k <= -1 => m * k <= -m)
  OBVIOUS

\* And has only one of each.
LEMMA RestOf ==
  ASSUME NEW m \in Int, m > 0, NEW q \in Int, NEW r \in Int, 0 <= r, r < m
  PROVE  (m * q + r) % m = r
<1> DEFINE x == m * q + r
<1>1. x \in Int
  OBVIOUS
<1>2. PICK p \in Int, s \in 0 .. m - 1 : x = m * p + s /\ x % m = s
  <2> HIDE DEF x
  <2> QED BY <1>1, Divided
<1>3. m * (p - q) = r - s /\ p - q \in Int
  BY <1>2
<1>4. ~(p - q >= 1) /\ ~(p - q <= -1)
  BY <1>2, <1>3, Multiples
<1>5. r = s
  <2>1. p - q = 0
    BY <1>3, <1>4
  <2> QED BY <1>2, <1>3, <2>1
<1> QED
  BY <1>2, <1>5

\* Of two instants in the same hour of some day, the later one at least what the alarm is set back by
\* after the other, and less than an hour more, are in the same hour of the same day: the next day
\* is too far. So their minutes are that far apart.
LEMMA SetBackIsFar ==
  ASSUME Back <= PerHour, HoursPerDay > 2, NEW a \in Int, NEW n \in Int,
         Min2(Back) <= n - a, n - a < Rested + Min2(Back), Hour(n) = Hour(a)
  PROVE  Distance(Minute(n), Minute(a)) >= Back
<1> DEFINE P == PerHour
           H == HoursPerDay
           B == Back
<1>1. P \in Int /\ P > 0 /\ H \in Int /\ H > 2 /\ B \in Int /\ 0 <= B /\ B <= P
  BY Bounds
<1>2. 2 * B <= n - a /\ n - a < 2 * P + 2 * B
  BY DEF Min2, Rested
<1>3. (n \div (2 * P)) % H = (a \div (2 * P)) % H
  BY DEF Hour, Min2
<1>4. Minute(n) = (n \div 2) % P /\ Minute(a) = (a \div 2) % P
  BY DEF Minute
<1> HIDE DEF P, H
<1>5. 2 * P \in Int /\ 2 * P > 0
  BY ONLY <1>1
<1>6. PICK p \in Int, r \in 0 .. 2 * P - 1 : n = (2 * P) * p + r /\ n \div (2 * P) = p
  BY ONLY <1>5, Divided, n \in Int
<1>7. PICK q \in Int, s \in 0 .. 2 * P - 1 : a = (2 * P) * q + s /\ a \div (2 * P) = q
  BY ONLY <1>5, Divided, a \in Int
<1>8. p - q \in 0 .. 2
  <2>1. (2 * P) * (p - q) = (n - a) - (r - s) /\ p - q \in Int
    BY ONLY <1>1, <1>6, <1>7, p \in Int, q \in Int, r \in 0 .. 2 * P - 1, s \in 0 .. 2 * P - 1
  <2>2. ~(p - q >= 3) /\ ~(p - q <= -1)
    BY <1>1, <1>2, <1>5, <2>1, Multiples
  <2> QED BY <2>1, <2>2
<1>9. p = q
  <2>1. p % H = q % H /\ H \in Int /\ H > 0
    BY <1>1, <1>3, <1>6, <1>7
  <2>2. PICK u \in Int, w \in Int : p = H * u + w /\ w = p % H
    BY ONLY <2>1, Divided, p \in Int
  <2>3. PICK v \in Int : q = H * v + w
    BY ONLY <2>1, <2>2, Divided, q \in Int
  <2>4. H * (u - v) = p - q /\ u - v \in Int
    BY ONLY <2>1, <2>2, <2>3, u \in Int, v \in Int, w \in Int, p \in Int, q \in Int
  <2>5. ~(u - v >= 1) /\ ~(u - v <= -1)
    BY <1>1, <1>8, <2>4, Multiples
  <2>6. u - v = 0
    BY ONLY <2>4, <2>5
  <2>7. H * (u - v) = 0
    BY ONLY <2>1, <2>6
  <2> QED BY ONLY <2>4, <2>7, p \in Int, q \in Int
<1> DEFINE k == r \div 2
           l == s \div 2
<1>10. k \in Int /\ l \in Int /\ 0 <= k /\ k < P /\ 0 <= l /\ l < P /\ k - l >= B
  BY ONLY <1>1, <1>2, <1>6, <1>7, <1>9, r \in 0 .. 2 * P - 1, s \in 0 .. 2 * P - 1, p \in Int
<1>11. n \div 2 = P * p + k /\ a \div 2 = P * p + l
  <2>1. n = 2 * (P * p) + r /\ a = 2 * (P * p) + s /\ P * p \in Int
    BY ONLY <1>1, <1>6, <1>7, <1>9, p \in Int, r \in 0 .. 2 * P - 1, s \in 0 .. 2 * P - 1
  <2> QED BY ONLY <2>1, r \in 0 .. 2 * P - 1, s \in 0 .. 2 * P - 1
<1> HIDE DEF k, l
<1>12. (P * p + k) % P = k /\ (P * p + l) % P = l
  <2>1. (P * p + k) % P = k
    BY ONLY <1>1, <1>10, RestOf, p \in Int
  <2>2. (P * p + l) % P = l
    BY ONLY <1>1, <1>10, RestOf, p \in Int
  <2> QED BY <2>1, <2>2
<1>13. Minute(n) = k /\ Minute(a) = l
  BY <1>4, <1>11, <1>12
<1> QED
  BY <1>1, <1>10, <1>13 DEF Distance

\* So the alarm that was set back is not due within the hour.
LEMMA SetBackIsQuiet ==
  ASSUME Window <= Back, Back <= PerHour, HoursPerDay > 2, ControlInv, RungInv, seen.rang < Rested
  PROVE  ~Due(aroma, aroma.getup, Now)
<1>1. /\ Now \in Int /\ aroma.getup \in Int /\ seen.rang \in Int /\ 0 <= seen.rang
      /\ Min2(Back) \in Int /\ Rested \in Int
      /\ aroma.getup = Now - seen.rang - Min2(Back)
  BY Bounds, RestedIs DEF ControlInv, ControlType, RungInv, AromaType, SeenType, Now, Min2
<1>2. Min2(Back) <= Now - aroma.getup /\ Now - aroma.getup < Rested + Min2(Back)
  BY ONLY <1>1, seen.rang < Rested
<1>3. SUFFICES ASSUME Hour(Now) = Hour(aroma.getup)
      PROVE  ~(Distance(Minute(Now), Minute(aroma.getup)) < Window)
  BY DEF Due
<1>4. Distance(Minute(Now), Minute(aroma.getup)) >= Back
  BY <1>1, <1>2, <1>3, SetBackIsFar
<1>5. Minute(Now) \in Int /\ Minute(aroma.getup) \in Int
  <2>1. PerHour \in Int /\ PerHour > 0
    BY Bounds
  <2>2. Now \div 2 \in Int /\ aroma.getup \div 2 \in Int
    BY <1>1
  <2> QED BY <2>1, <2>2, Divided DEF Minute
<1>6. Distance(Minute(Now), Minute(aroma.getup)) \in Int
  BY <1>5 DEF Distance
<1>7. Window \in Int /\ Back \in Int
  BY ControlAssumption
<1> QED
  BY ONLY <1>4, <1>6, <1>7, Window <= Back

\* One iteration of the view: a program that begins sets its alarm back, whatever it then does.
LEMMA IterateRung ==
  ASSUME ControlInv, RungInv, Iterate
  PROVE  RungInv' /\ (RingsGetup => Due(aroma, aroma.getup, Now))
<1> DEFINE a == Begun(aroma, Now)
<1>1. /\ view.pc = "loops" /\ Noted /\ ControlType /\ GetupRuns(a, Now)
      /\ aroma \in AromaType /\ Now \in Int /\ Now' = Now
  BY DEF Iterate, ControlInv, ControlType, Now
<1>2. /\ a \in AromaType
      /\ \/ /\ aroma.mode = "none" /\ Due(aroma, aroma.getup, Now)
            /\ a.mode = "getup" /\ a.getup = Now - Min2(Back)
         \/ a = aroma
  BY <1>1, BegunIs
<1> HIDE DEF a
<1>3. Left(a, Now) \/ Waits(a, Now)
  BY <1>1, <1>2, GetupRunsGo
<1>4. SameAlarm(a, aroma') /\ view'.pc \notin {"boots", "writes"}
  BY <1>3, WentSame
<1>5. seen'.rang = IF RingsGetup THEN 0 ELSE seen.rang
  BY <1>1, RangIs
<1>6. CASE a = aroma
  <2>1. ~RingsGetup
    BY <1>4, <1>6 DEF RingsGetup, SameAlarm
  <2>2. RungSame
    BY <1>1, <1>4, <1>5, <1>6, <2>1 DEF RungSame, SameAlarm
  <2> QED BY <2>1, <2>2, RungKeeps
<1>7. CASE aroma.mode = "none" /\ Due(aroma, aroma.getup, Now) /\ a.mode = "getup" /\ a.getup = Now - Min2(Back)
  <2>1. /\ Min2(Back) \in Int /\ Min2(Over) \in Int /\ Min2(Back) <= Min2(Over)
    BY Bounds DEF Min2
  <2>2. Now - a.getup <= Min2(Over)
    BY ONLY <1>1, <1>7, <2>1
  <2>3. aroma'.mode = "getup"
    BY <1>3, <1>7, <2>2 DEF Left, Waits, Alike
  <2>4. seen'.rang = 0
    BY <1>5, <1>7, <2>3 DEF RingsGetup
  <2>5. aroma'.getup = Now' - seen'.rang - Min2(Back)
    <3>1. aroma'.getup = Now - Min2(Back)
      BY <1>4, <1>7 DEF SameAlarm
    <3> QED BY ONLY <1>1, <2>1, <2>4, <3>1
  <2> QED BY <1>4, <1>7, <2>4, <2>5 DEF RungInv
<1> QED
  BY <1>2, <1>6, <1>7

\* After the waits the get-up program is not begun.
LEMMA RepeatsRung ==
  ASSUME ControlInv, RungInv, WaitEnds PROVE RungInv' /\ ~RingsGetup
<1>1. /\ Met /\ Noted /\ ControlType /\ Now' = Now /\ aroma \in AromaType
  BY WaitEndsIs DEF ControlInv, ControlType, Now
<1>3. SameAlarm(aroma, aroma') /\ view'.pc \notin {"boots", "writes"}
  <2>1. CASE view.of = "getup"
    BY <2>1, WaitEndsIs, WentSame
  <2>2. CASE view.of # "getup"
    <3>1. SameAlarm(aroma, aroma')
      BY <2>2, WaitEndsIs, AlikeSame DEF SameAlarm
    <3>2. view'.pc \in {"loops", "delays", "repeats"}
      BY <2>2, WaitEndsIs DEF At
    <3> QED BY <3>1, <3>2
  <2> QED BY <2>1, <2>2
<1>5. ~RingsGetup
  BY <1>3 DEF RingsGetup, SameAlarm
<1>6. seen'.rang = seen.rang
  BY <1>1, <1>5, RangIs
<1>7. RungSame
  BY <1>1, <1>3, <1>6 DEF RungSame, SameAlarm
<1> QED
  BY <1>5, <1>7, RungKeeps

\* Whoever sets the times or starts a program by hand lets the alarm ring again.
LEMMA SetsRung ==
  ASSUME ControlInv, RungInv,
         \/ ConfigSteps \/ SetPressed \/ SaveSets
         \/ (\E b \in {"sun", "moon"}, by \in {1, -1} : LampPressed(b, by) \/ LampHeld(b, by))
  PROVE  RungInv'
<1>1. seen \in SeenType /\ aroma \in AromaType
  BY DEF ControlInv, ControlType
<1>2. \/ seen'.rang = Rested
      \/ /\ UNCHANGED <<view, clock, seen>>
         /\ aroma' = aroma \/ \E by \in {1, -1} : aroma' = [aroma EXCEPT !.change = by]
  <2>1. CASE ConfigSteps
    BY <1>1, <2>1 DEF ConfigSteps, SeenType
  <2>2. CASE SetPressed
    <3> DEFINE want == IF aroma.view = "config" THEN seen.want ELSE -1
    <3>1. seen' = [seen EXCEPT !.rang = Rested, !.set = TRUE, !.want = want]
      BY <2>2 DEF SetPressed
    <3> HIDE DEF want
    <3> QED BY <1>1, <3>1 DEF SeenType
  <2>3. CASE SaveSets
    BY <1>1, <2>3 DEF SaveSets, SeenType
  <2>4. ASSUME NEW b \in {"sun", "moon"}, NEW by \in {1, -1}, LampPressed(b, by)
        PROVE  seen'.rang = Rested \/ UNCHANGED <<aroma, view, clock, seen>>
    BY <1>1, <2>4 DEF LampPressed, SeenType
  <2>5. ASSUME NEW b \in {"sun", "moon"}, NEW by \in {1, -1}, LampHeld(b, by)
        PROVE  \/ seen'.rang = Rested
               \/ /\ UNCHANGED <<view, clock, seen>>
                  /\ aroma' = aroma \/ aroma' = [aroma EXCEPT !.change = by]
    <3> DEFINE w == -1
    <3>1. CASE seen' = [seen EXCEPT !.quiet = FALSE, !.age = 0, !.rang = Rested, !.want = w]
      <4>1. seen'.rang = Rested
        <5> HIDE DEF w
        <5> QED BY <1>1, <3>1 DEF SeenType
      <4> QED BY <4>1
    <3>2. CASE ~(seen' = [seen EXCEPT !.quiet = FALSE, !.age = 0, !.rang = Rested, !.want = w])
      <4>1. UNCHANGED <<view, clock>>
        BY <2>5 DEF LampHeld
      <4>2. CASE aroma.view = "config"
        BY <2>5, <4>1, <4>2 DEF LampHeld
      <4>3. CASE aroma.view # "config"
        BY <2>5, <3>2, <4>1, <4>3 DEF LampHeld
      <4> QED BY <4>2, <4>3
    <3> QED BY <3>1, <3>2
  <2> QED BY <2>1, <2>2, <2>3, <2>4, <2>5
<1>3. RungSame
  <2>1. CASE seen'.rang = Rested
    BY <2>1 DEF RungSame
  <2>2. CASE /\ UNCHANGED <<view, clock, seen>>
             /\ aroma' = aroma \/ \E by \in {1, -1} : aroma' = [aroma EXCEPT !.change = by]
    <3>1. aroma'.getup = aroma.getup
      BY <1>1, <2>2 DEF AromaType
    <3> QED BY <2>2, <3>1 DEF RungSame, Now
  <2> QED BY <1>2, <2>1, <2>2
<1> QED
  BY <1>3, RungKeeps

\* The other keys, the lamp and the file leave the alarm alone.
LEMMA RestRung ==
  ASSUME ControlInv, RungInv,
         \/ ConfigTimesOut \/ LightHolds \/ StopPressed \/ StopHeld \/ HeldStarts \/ Released
         \/ SetShows \/ SetHeld \/ SaveOpens \/ SaveWrites
  PROVE  RungInv'
<1>1. /\ seen \in SeenType /\ aroma \in AromaType /\ UNCHANGED <<view, clock>> /\ Now' = Now /\ Now \in Int
  BY DEF ControlInv, ControlType, ConfigTimesOut, LightHolds, StopPressed, StopHeld, HeldStarts, Released,
         SetShows, SetHeld, SaveOpens, SaveWrites, Now
<1>2. seen'.rang = seen.rang
  <2>1. CASE StopHeld
    <3>1. seen' = [seen EXCEPT !.quiet = TRUE, !.met = Met]
      BY <2>1 DEF StopHeld
    <3> QED BY <1>1, <3>1 DEF SeenType
  <2>2. CASE SaveWrites
    <3> DEFINE w == (aroma.getup + Min2(GetupLead)) % Day
    <3>1. seen' = seen \/ seen' = [seen EXCEPT !.want = w]
      BY <2>2 DEF SaveWrites
    <3> HIDE DEF w
    <3> QED BY <1>1, <3>1 DEF SeenType
  <2>3. CASE \/ ConfigTimesOut \/ LightHolds \/ StopPressed \/ HeldStarts \/ Released \/ SetShows
             \/ SetHeld \/ SaveOpens
    BY <2>3 DEF ConfigTimesOut, LightHolds, StopPressed, HeldStarts, Released, SetShows, SetHeld, SaveOpens
  <2> QED BY <2>1, <2>2, <2>3
<1>3. aroma'.getup = aroma.getup
  <2>1. CASE StopPressed
    <3>1. CASE aroma.mode # "getup"
      BY <1>1, <2>1, <3>1, LedcAlike DEF StopPressed, Alike
    <3>2. CASE aroma.mode = "getup" /\ aroma.paused
      BY <2>1, <3>2 DEF StopPressed
    <3>3. CASE aroma.mode = "getup" /\ ~aroma.paused
      <4> DEFINE b == SetLedc(aroma, FALSE, FALSE)
                 c == StopMusic(b)
                 u == Now + Min2(PauseTime)
      <4>1. b \in AromaType /\ Alike(aroma, b)
        BY <1>1, LedcAlike DEF Alike
      <4> HIDE DEF b
      <4>2. c \in AromaType /\ Alike(b, c)
        BY <4>1, StopAlike DEF Alike
      <4> HIDE DEF c, u
      <4>3. aroma' = [c EXCEPT !.paused = TRUE, !.until = u]
        BY <2>1, <3>3 DEF StopPressed, b, c, u
      <4> QED BY <4>1, <4>2, <4>3 DEF Alike, AromaType
    <3> QED BY <3>1, <3>2, <3>3
  <2>2. CASE StopHeld
    <3> DEFINE e == Ended(aroma)
    <3>1. e \in AromaType /\ e.getup = aroma.getup
      BY <1>1, EndedIs
    <3> HIDE DEF e
    <3>2. aroma' = [e EXCEPT !.play = FALSE, !.sounds = FALSE]
      BY <2>2 DEF StopHeld, StopMusic, e
    <3> QED BY <3>1, <3>2 DEF AromaType
  <2>3. CASE \/ ConfigTimesOut \/ LightHolds \/ Released \/ SetHeld \/ SaveOpens \/ SaveWrites
    BY <1>1, <2>3 DEF ConfigTimesOut, LightHolds, Released, SetHeld, SaveOpens, SaveWrites, AromaType
  <2>4. CASE HeldStarts
    BY <1>1, <2>4, PlayEndsAlike DEF HeldStarts, Alike
  <2>5. CASE SetShows
    <3>1. PICK c : aroma' = [aroma EXCEPT !.edits = c[1], !.config = c[2]]
      BY <2>5 DEF SetShows
    <3> QED BY <1>1, <3>1 DEF AromaType
  <2> QED BY <2>1, <2>2, <2>3, <2>4, <2>5
<1>4. RungSame
  BY <1>1, <1>2, <1>3 DEF RungSame
<1> QED
  BY <1>4, RungKeeps

\* A restart begins with the hour over; a first boot does nothing to it.
LEMMA BootsRung ==
  ASSUME ControlInv, RungInv, Crashes \/ BootsWrites \/ Boots \/ BootsFirst PROVE RungInv'
<1>1. seen \in SeenType
  BY DEF ControlInv, ControlType
<1>2. CASE Crashes \/ BootsWrites
  <2>1. seen' = [Calm EXCEPT !.want = seen.want]
    BY <1>2 DEF Crashes, BootsWrites, Restarts
  <2>2. seen'.rang = Rested
    BY <2>1 DEF Calm
  <2> QED BY <2>2, RungKeeps DEF RungSame
<1>3. CASE Boots \/ BootsFirst
  <2>1. seen.rang = Rested
    BY <1>3 DEF Boots, BootsFirst, RungInv
  <2>2. seen' = seen \/ seen' = [seen EXCEPT !.want = -1]
    BY <1>3 DEF Boots, BootsFirst
  <2>3. seen'.rang = Rested
    BY <1>1, <2>1, <2>2 DEF SeenType
  <2> QED BY <2>3, RungKeeps DEF RungSame
<1> QED
  BY <1>2, <1>3

\* A tick makes the clock later by what it adds to the time since the alarm began.
LEMMA TickRung == ASSUME ControlInv, RungInv, Tick PROVE RungInv'
<1>1. /\ view.pc \notin {"boots", "writes"} /\ UNCHANGED <<aroma, view>>
      /\ seen \in SeenType /\ seen.rang \in Int /\ Now \in Int /\ aroma.getup \in Int
      /\ clock \in [now : Int, ticks : Nat, ran : BOOLEAN, crashes : Nat]
  BY DEF Tick, Met, ControlInv, ControlType, Now, SeenType, AromaType
<1>2. PICK skip \in {1, 2} :
        /\ clock' = [clock EXCEPT !.now = @ + skip, !.ticks = @ + skip, !.ran = FALSE]
        /\ seen' = [seen EXCEPT !.age = IF aroma.mode = "none" THEN 0 ELSE @ + skip,
                                !.set = (@ /\ (aroma.mode # "none" \/ Met)) \/ aroma.view = "config",
                                !.rang = IF @ + skip > Rested THEN Rested ELSE @ + skip]
  BY DEF Tick
<1>3. Now' = Now + skip
  <2> DEFINE t == clock.now + skip
             k == clock.ticks + skip
  <2>1. clock' = [clock EXCEPT !.now = t, !.ticks = k, !.ran = FALSE]
    BY <1>2
  <2>2. t = Now + skip
    BY DEF Now
  <2> HIDE DEF t, k
  <2> QED BY <1>1, <2>1, <2>2 DEF Now
<1>4. seen'.rang = IF seen.rang + skip > Rested THEN Rested ELSE seen.rang + skip
  <2> DEFINE age == IF aroma.mode = "none" THEN 0 ELSE seen.age + skip
             set == (seen.set /\ (aroma.mode # "none" \/ Met)) \/ aroma.view = "config"
             rang == IF seen.rang + skip > Rested THEN Rested ELSE seen.rang + skip
  <2>1. seen' = [seen EXCEPT !.age = age, !.set = set, !.rang = rang]
    BY <1>2
  <2> HIDE DEF age, set, rang
  <2>2. seen'.rang = rang
    BY <1>1, <2>1 DEF SeenType
  <2> QED BY <2>2 DEF rang
<1>5. Rested \in Int /\ Rested >= 0 /\ Min2(Back) \in Int
  BY Bounds DEF Rested, Min2
<1>6. seen.rang >= 0 /\ (seen.rang < Rested => aroma.getup = Now - seen.rang - Min2(Back))
  BY DEF RungInv
<1>7. seen'.rang >= 0 /\ (seen'.rang < Rested => aroma.getup = Now' - seen'.rang - Min2(Back))
  BY ONLY <1>1, <1>3, <1>4, <1>5, <1>6, skip \in {1, 2}
<1> QED
  BY <1>1, <1>7 DEF RungInv

\* The keys begin the get-up program only in a step of the main task.
LEMMA RingsBy ==
  ASSUME ControlInv, ControlNext, RingsGetup, UNCHANGED main PROVE Iterate \/ WaitEnds
<1>1. aroma \in AromaType /\ main \in MainType /\ aroma.mode = "none" /\ aroma'.mode = "getup"
  BY DEF ControlInv, ControlType, RingsGetup
<1>2. ~ConfigSteps
  <2>1. SUFFICES ASSUME ConfigSteps PROVE FALSE
    OBVIOUS
  <2> DEFINE m == main.steps + 1
  <2>2. main' = [main EXCEPT !.steps = m]
    BY <2>1 DEF ConfigSteps
  <2>3. main'.steps = m
    <3> HIDE DEF m
    <3> QED BY <1>1, <2>2 DEF MainType
  <2>4. main.steps \in Int
    BY <1>1 DEF MainType
  <2> QED BY <2>3, <2>4
<1>3. ~(ConfigTimesOut \/ LightHolds)
  BY <1>1 DEF ConfigTimesOut, LightHolds, AromaType
<1>4. ~(Boots \/ BootsFirst)
  <2>1. CASE Boots
    <3> DEFINE g == file.getup - Min2(GetupLead)
               s == file.sleep - Min2(SleepLead)
               l == file.local
    <3>1. aroma' = [aroma EXCEPT !.getup = g, !.sleep = s, !.local = l]
      BY <2>1 DEF Boots
    <3> HIDE DEF g, s, l
    <3> QED BY <1>1, <3>1 DEF AromaType
  <2>2. CASE BootsFirst
    BY <1>1, <2>2 DEF BootsFirst
  <2> QED BY <2>1, <2>2
<1>5. ~(BootsWrites \/ Crashes)
  BY <1>1 DEF BootsWrites, Crashes, Restarts, Booted
<1>6. ASSUME NEW b \in {"sun", "moon", "stop", "set"}, Handles, Pressed(b) PROVE FALSE
  <2>1. main.held = "none"
    BY <1>6 DEF Handles
  <2>2. main'.held = b
    BY <1>6, PressedIs DEF ControlInv
  <2> QED BY <2>1, <2>2
<1>7. ASSUME NEW b, HeldLong(b) PROVE FALSE
  BY <1>1, <1>7 DEF HeldLong, MainType
<1>8. ~(StopPressed \/ SetPressed \/ LampPressed("sun", 1) \/ LampPressed("moon", -1))
  BY <1>6 DEF StopPressed, SetPressed, LampPressed
<1>9. ~(LampHeld("sun", 1) \/ LampHeld("moon", -1) \/ SetHeld)
  <2>1. ASSUME NEW b, NEW by, LampHeld(b, by) PROVE FALSE
    <3>1. \/ main' = [main EXCEPT !.long = TRUE]
          \/ \E pc \in {"pauses", "runs"} : main' = [main EXCEPT !.long = TRUE, !.pc = pc]
      BY <2>1 DEF LampHeld, PlayWaits
    <3>2. ~main.long
      BY <2>1 DEF LampHeld
    <3> QED BY <1>1, <3>1, <3>2 DEF MainType
  <2> QED BY <1>7, <2>1 DEF SetHeld
<1>10. ~(StopHeld \/ HeldStarts \/ SetShows)
  BY <1>1 DEF StopHeld, HeldStarts, SetShows, MainType
<1>11. ~(Released \/ SaveOpens \/ SaveWrites \/ SaveSets \/ Tick)
  <2>1. ~Released
    BY <1>1 DEF Released, MainType
  <2>2. ~(SaveOpens \/ SaveWrites \/ SaveSets)
    BY <1>1 DEF SaveOpens, SaveWrites, SaveSets, MainType
  <2>3. ~Tick
    BY <1>1 DEF Tick
  <2> QED BY <2>1, <2>2, <2>3
<1> QED
  BY <1>2, <1>3, <1>4, <1>5, <1>8, <1>9, <1>10, <1>11 DEF ControlNext, ViewTask, MainTask, WaitEnds

\* The invariant is inductive, and an alarm begins only once the hour is over.
LEMMA RungStep ==
  ASSUME Window <= Back, Back <= PerHour, HoursPerDay > 2,
         ControlInv, RungInv, [ControlNext]_control
  PROVE  RungInv' /\ (RingsGetup /\ UNCHANGED main => seen.rang >= Min2(PerHour))
<1>1. RungInv'
  <2>1. CASE UNCHANGED control
    BY <2>1 DEF control, RungInv, Now
  <2>2. ASSUME \/ LampPressed("sun", 1) \/ LampPressed("moon", -1)
               \/ LampHeld("sun", 1) \/ LampHeld("moon", -1)
        PROVE  RungInv'
    <3>1. 1 \in {1, -1} /\ -1 \in {1, -1}
      OBVIOUS
    <3> QED BY <2>2, <3>1, SetsRung
  <2> QED
    BY <2>1, <2>2, IterateRung, RepeatsRung, SetsRung, RestRung, BootsRung, TickRung
       DEF ControlNext, ViewTask, MainTask, WaitEnds
<1>2. ASSUME RingsGetup, UNCHANGED main PROVE seen.rang >= Min2(PerHour)
  <2>1. ControlNext
    BY <1>2 DEF RingsGetup, control
  <2>2. Iterate
    BY <1>2, <2>1, RingsBy, RepeatsRung
  <2>3. Due(aroma, aroma.getup, Now)
    BY <1>2, <2>2, IterateRung
  <2>4. ~(seen.rang < Rested)
    BY <2>3, SetBackIsQuiet
  <2>5. seen.rang \in Int /\ Rested \in Int
    BY RestedIs DEF ControlInv, ControlType, SeenType
  <2> QED BY <2>4, <2>5 DEF Rested
<1> QED
  BY <1>1, <1>2

\* The hour is over when the clock is switched on.
LEMMA RungBegins == ControlInit => RungInv
  BY Bounds DEF ControlInit, RungInv, Calm, Rested, Min2

-----------------------------------------------------------------------------
(* The parts together.                                                     *)

\* A step of the application is a step of each part or leaves it alone.
LEMMA Parts ==
  [Next]_<<part, control, sprays, lights, musics>> =>
    /\ [ControlNext]_control /\ [SprayNext]_sprays /\ [LightNext]_lights /\ [MusicNext]_musics
  BY DEF Next

\* Between changes of the track that met neither a read nor each other, every read
\* stays inside one track, and the decoder is handed that track from its first byte
\* on (ReadsInside).
THEOREM ReadsStayInside == Spec => []ReadsInside
<1>1. Init => MusicInv
  BY MusicBegins DEF Init
<1>2. MusicInv /\ [Next]_<<part, control, sprays, lights, musics>> => MusicInv'
  BY Parts, MusicStep
<1> QED
  BY <1>1, <1>2, MusicReads, PTL DEF Spec

\* Only one colour shines at a time, and a lamp that was turned off is dark once its
\* fade is over, unless keys, fades and programs met as LampObeys says.
THEOREM LampKeepsOrders == Spec => []LampObeys
<1>1. Init => LightInv
  BY LightBegins DEF Init
<1>2. LightInv /\ [Next]_<<part, control, sprays, lights, musics>> => LightInv'
  BY Parts, LightStep
<1> QED
  BY <1>1, <1>2, LampKeeps, PTL DEF Spec

\* A spell the task ends by itself has lasted its time, and once everything was
\* closed nothing sprays when the task is back in its delay (SpraysAsTold).
THEOREM SpellsAreKept == Spec => SpraysAsTold
<1>1. Init => SprayInv
  BY SprayBeginsSo DEF Init
<1>2. SprayInv /\ [Next]_<<part, control, sprays, lights, musics>> =>
        SprayInv' /\ [SpellWhole /\ SprayStops']_sprays
  <2>1. SprayInv' => SprayStops'
    BY SprayQuiet, PTL
  <2> QED BY Parts, SprayStep, <2>1
<1> QED
  BY <1>1, <1>2, PTL DEF Spec, SpraysAsTold

\* Holding the stop key keeps the programs and the spray off until somebody or an alarm
\* starts a program, and the lamp and the music, too, unless the view was about to start
\* the music: in the delay of a repeat, or waiting for the player (StopIsKept).
THEOREM StopHolds == Spec => []StopIsKept
<1>1. Init => ControlInv
  BY ControlBegins DEF Init
<1>2. ControlInv /\ [Next]_<<part, control, sprays, lights, musics>> => ControlInv'
  BY Parts, ControlStep
<1> QED
  BY <1>1, <1>2, ControlStops, PTL DEF Spec

\* A program lasts no longer than its time, however the keys are pressed in it and
\* however its steps fall between the ticks of the clock (ProgramEnds).
THEOREM ProgramsEnd == Spec => []ProgramEnds
<1>1. Init => ControlInv
  BY ControlBegins DEF Init
<1>2. ControlInv /\ [Next]_<<part, control, sprays, lights, musics>> => ControlInv'
  BY Parts, ControlStep
<1> QED
  BY <1>1, <1>2, ControlEnds, PTL DEF Spec

\* An alarm that began does not begin again within the hour, unless the times were set, a program was
\* started by hand or the clock restarted (AlarmRingsOnce): it is set back by at least its own window,
\* by no more than an hour, and a day has more than two hours, as 3, 3, 60 and 24 are.
THEOREM AlarmNeverRepeats ==
  ASSUME Window <= Back, Back <= PerHour, HoursPerDay > 2 PROVE Spec => AlarmRingsOnce
<1>1. Init => ControlInv /\ RungInv
  BY ControlBegins, RungBegins DEF Init
<1>2. ControlInv /\ RungInv /\ [Next]_<<part, control, sprays, lights, musics>> =>
        /\ ControlInv' /\ RungInv'
        /\ [RingsGetup /\ UNCHANGED main => seen.rang >= Min2(PerHour)]_control
  BY Parts, ControlStep, RungStep
<1> QED
  BY <1>1, <1>2, PTL DEF Spec, AlarmRingsOnce
=============================================================================
