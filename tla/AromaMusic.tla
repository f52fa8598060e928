------------------------------ MODULE AromaMusic ------------------------------
(***************************************************************************)
(* What the player reads (src/aroma.c): the decoder's read callback takes  *)
(* a track from memory, while the task of the view and the main task       *)
(* change the track and the position under it. Stopping the pipeline only  *)
(* tells the decoder to stop: a read that has begun goes on.               *)
(***************************************************************************)
EXTENDS Integers

CONSTANTS
  GetupLength, SleepLength,     \* the tracks, in bytes
  Chunk,                        \* the buffer of one read
  MaxOrders                     \* bounds the commands of a task

ASSUME MusicAssumption == {GetupLength, SleepLength, Chunk} \subseteq Nat \ {0}

VARIABLES
  music,        \* music_head, music_tail, music_pos, whether the decoder runs
  reader,       \* music_read_cb
  orders,       \* the tasks that change the track
  heard         \* bytes of the track that were handed over, whether a task and a read or two tasks met

musics == <<music, reader, orders, heard>>

Tracks == {"getup", "sleep"}
Length == [getup |-> GetupLength, sleep |-> SleepLength]
\* The tracks lie apart in flash.
Start == [getup |-> 0, sleep |-> GetupLength + Chunk + SleepLength]
Tail == [t \in Tracks |-> Start[t] + Length[t]]
Callers == {"view", "main"}

MusicInit ==
  /\ music = [head |-> Start["getup"], tail |-> Tail["getup"], pos |-> 0, runs |-> FALSE]
  /\ reader = [pc |-> "idle", size |-> 0, load |-> 0, outside |-> FALSE]
  /\ orders = [c \in Callers |-> [pc |-> "idle", track |-> "getup", stop |-> FALSE, n |-> 0]]
  /\ heard = [bytes |-> 0, met |-> FALSE]

Inside(first, size) ==
  size >= 0 /\ \E t \in Tracks : first >= Start[t] /\ first + size <= Tail[t]

-----------------------------------------------------------------------------
(* music_read_cb.                                                          *)

\* Nothing left is the end, and the decoder finishes; what is left may also be negative.
ReadSizes ==
  /\ reader.pc = "idle" /\ music.runs
  /\ LET left == music.tail - music.head - music.pos
     IN  IF left = 0 THEN music' = [music EXCEPT !.runs = FALSE] /\ UNCHANGED reader
         ELSE /\ reader' = [reader EXCEPT !.pc = "copies", !.size = IF Chunk < left THEN Chunk ELSE left]
              /\ UNCHANGED music
  /\ UNCHANGED <<orders, heard>>

ReadCopies ==
  /\ reader.pc = "copies"
  /\ reader' = [reader EXCEPT !.pc = "loads",
                              !.outside = ~Inside(music.head + music.pos, reader.size)]
  /\ heard' = [heard EXCEPT !.bytes = @ + reader.size]
  /\ UNCHANGED <<music, orders>>

\* music_pos += read_size is a load and a store.
ReadLoads ==
  /\ reader.pc = "loads"
  /\ reader' = [reader EXCEPT !.pc = "stores", !.load = music.pos]
  /\ UNCHANGED <<music, orders, heard>>

ReadStores ==
  /\ reader.pc = "stores"
  /\ music' = [music EXCEPT !.pos = reader.load + reader.size]
  /\ reader' = [reader EXCEPT !.pc = "idle", !.outside = FALSE]
  /\ UNCHANGED <<orders, heard>>

-----------------------------------------------------------------------------
(* aroma_stop, and aroma_music with aroma_play or aroma_resume.            *)

Alone(c) == reader.pc = "idle" /\ \A d \in Callers \ {c} : orders[d].pc = "idle"
Goes(c, pc) == orders' = [orders EXCEPT ![c].pc = pc]
Meets(c) == heard' = [heard EXCEPT !.met = @ \/ ~Alone(c)]

\* What met before an order is forgotten.
OrderBegins(c) ==
  /\ orders[c].pc = "idle" /\ orders[c].n < MaxOrders
  /\ \E t \in Tracks, stop \in BOOLEAN :
       orders' = [orders EXCEPT ![c] = [pc |-> "rewinds", track |-> t, stop |-> stop, n |-> @.n + 1]]
  /\ music' = [music EXCEPT !.runs = FALSE]
  /\ heard' = [heard EXCEPT !.met = ~Alone(c)]
  /\ UNCHANGED reader

\* Fault: the position is left where the last track was stopped.
OrderRewindsNot(c) ==
  /\ orders[c].pc = "rewinds"
  /\ Goes(c, IF orders[c].stop THEN "idle" ELSE "heads")
  /\ heard' = [bytes |-> 0, met |-> heard.met \/ ~Alone(c)]
  /\ UNCHANGED <<music, reader>>

OrderRewinds(c) ==
  /\ orders[c].pc = "rewinds"
  /\ music' = [music EXCEPT !.pos = 0]
  /\ Goes(c, IF orders[c].stop THEN "idle" ELSE "heads")
  /\ heard' = [bytes |-> 0, met |-> heard.met \/ ~Alone(c)]
  /\ UNCHANGED reader

OrderHeads(c) ==
  /\ orders[c].pc = "heads"
  /\ music' = [music EXCEPT !.head = Start[orders[c].track]]
  /\ Goes(c, "tails") /\ Meets(c) /\ UNCHANGED reader

OrderTails(c) ==
  /\ orders[c].pc = "tails"
  /\ music' = [music EXCEPT !.tail = Tail[orders[c].track]]
  /\ Goes(c, "resumes") /\ Meets(c) /\ UNCHANGED reader

OrderResumes(c) ==
  /\ orders[c].pc = "resumes"
  /\ music' = [music EXCEPT !.runs = TRUE]
  /\ Goes(c, "idle") /\ Meets(c) /\ UNCHANGED reader

MusicNext ==
  \/ ReadSizes \/ ReadCopies \/ ReadLoads \/ ReadStores
  \/ \E c \in Callers :
       OrderBegins(c) \/ OrderRewinds(c) \/ OrderHeads(c) \/ OrderTails(c) \/ OrderResumes(c)

-----------------------------------------------------------------------------
\* Between changes of the track that met neither a read nor each other, every read stays inside one
\* track, and what the decoder was handed is the track from its first byte to the position.
ReadsInside ==
  ~heard.met =>
    /\ ~reader.outside
    /\ music.runs =>
         /\ reader.pc = "idle" => heard.bytes = music.pos
         /\ Inside(music.head, music.pos) /\ Inside(music.head, music.tail - music.head)
=============================================================================
