------------------------------ MODULE FatfsStream ------------------------------
(***************************************************************************)
(* The stream that plays a file from the card or records one               *)
(* (lib/audio_stream/fatfs_stream.c), driven by the commands its element   *)
(* handles (audio_element_on_cmd). Bytes are counted in units; a header    *)
(* takes one. The audio of a recording is numbered in the order it comes.  *)
(***************************************************************************)
EXTENDS Integers, Sequences

CONSTANTS
  FileSize,  \* units in the file that is played
  Space,     \* units the card has room for
  MaxOrders  \* bound: the commands of the application

ASSUME FileBounds == {FileSize, Space, MaxOrders} \subseteq Nat

VARIABLES
  fatfs,   \* type; is_open; w_type; file, the FILE: "none" (NULL), "open" or "closed"; at, its position
  card,    \* the file that is recorded
  player,  \* the element: state, is_open, uri; pos, byte_pos of its info
  story    \* history: got, the audio handed on or written since the start; odd, byte_pos is of another playback, or
           \* the recording was paused; orders, for the bound

files == <<fatfs, card, player, story>>

Wav(n) == [tells |-> n]
Empty == Wav(0)
Hole == [tells |-> -1]
Audio(n) == [unit |-> n]
FileUris == {"wav", "amr", "raw", "gone", "pathless"}

FileInit ==
  /\ \E t \in {"reader", "writer"} :
       fatfs = [type |-> t, isOpen |-> FALSE, wType |-> "unknown", file |-> "none", at |-> 0]
  /\ \E u \in {"wav", "amr", "raw"} : player = [state |-> "INIT", isOpen |-> FALSE, uri |-> u, pos |-> 0]
  /\ card = <<>>
  /\ story = [got |-> <<>>, odd |-> FALSE, orders |-> 0]

Reader == fatfs.type = "reader"
Orders == story.orders < MaxOrders
Ordered(t) == [t EXCEPT !.orders = @ + 1]

-----------------------------------------------------------------------------
\* What a write at the position of the FILE makes of the file; what a seek has skipped has no contents.
Put(c, at, unit) == [i \in 1..(IF at < Len(c) THEN Len(c) ELSE at + 1) |->
                      IF i = at + 1 THEN unit ELSE IF i <= Len(c) THEN c[i] ELSE Hole]
\* fopen with "w+" and the header of the format.
Created == IF player.uri \in {"wav", "amr"} THEN <<Empty>> ELSE <<>>

\* audio_element_process_state_init with _fatfs_open; what is played or recorded begins where byte_pos is.
OpenSucceeds ==
  /\ player.uri \notin {"gone", "pathless"}
  /\ fatfs' = [fatfs EXCEPT !.isOpen = TRUE, !.file = "open", !.wType = IF Reader THEN @ ELSE player.uri,
                            !.at = IF player.pos > 0 \/ Reader THEN player.pos ELSE Len(Created)]
  /\ card' = IF Reader THEN card ELSE Created
  /\ player' = [player EXCEPT !.state = "RUNNING", !.isOpen = TRUE]
  /\ story' = IF player.state = "PAUSED" THEN Ordered(story)
              ELSE [Ordered(story) EXCEPT !.got = <<>>, !.odd = player.pos > 0]
\* There is no path, or no file, or one that cannot be sought in: a reader that fails at its first seek keeps
\* the FILE. Then the element closes what it may not have opened.
OpenFails ==
  /\ \/ player.uri = "pathless" /\ UNCHANGED <<fatfs, card>>
     \/ /\ player.uri = "gone"
        /\ fatfs' = [fatfs EXCEPT !.file = "none", !.wType = IF Reader THEN @ ELSE "unknown"]
        /\ UNCHANGED card
     \/ /\ player.uri \in {"wav", "amr", "raw"} /\ player.pos > 0
        /\ \E late \in {~Reader, TRUE} :
             fatfs' = [fatfs EXCEPT !.file = "open", !.isOpen = late, !.wType = IF Reader THEN @ ELSE player.uri]
        /\ card' = IF Reader THEN card ELSE Created
  /\ player' = [player EXCEPT !.isOpen = TRUE]
  /\ story' = Ordered(story)
\* An element that has finished or failed is stopped, or run anew, before it is resumed.
Resume ==
  /\ Orders /\ ~player.isOpen
  /\ OpenSucceeds \/ OpenFails

-----------------------------------------------------------------------------
\* _fatfs_close in a state of the element: a wav header tells the audio there is; byte_pos stays as it is only
\* in a pause. A FILE that was closed before is written to as well, to no effect here.
Tells == ~Reader /\ fatfs.file # "none" /\ fatfs.wType = "wav"
ClosedCard == IF Tells /\ fatfs.file = "open" THEN Put(card, 0, Wav(player.pos)) ELSE card
ClosedFatfs == [fatfs EXCEPT !.isOpen = FALSE, !.file = IF fatfs.isOpen THEN "closed" ELSE @]
\* Fault: each close begins anew.
ClosedPosAlways(state) == 0
ClosedPos(state) == IF state = "PAUSED" THEN player.pos ELSE 0
\* The element closes what is open, and then is in the state.
FileCloses(while, state) ==
  IF player.isOpen
  THEN /\ fatfs' = ClosedFatfs /\ card' = ClosedCard
       /\ player' = [player EXCEPT !.state = state, !.isOpen = FALSE, !.pos = ClosedPos(while)]
  ELSE /\ player' = [player EXCEPT !.state = state]
       /\ UNCHANGED <<fatfs, card>>

\* AEL_MSG_CMD_ERROR, which the element has sent itself.
FailsOpen ==
  /\ player.isOpen /\ player.state # "RUNNING"
  /\ FileCloses(player.state, "ERROR") /\ UNCHANGED story

Pause ==
  /\ Orders /\ player.state = "RUNNING"
  /\ FileCloses("PAUSED", "PAUSED")
  /\ story' = [Ordered(story) EXCEPT !.odd = @ \/ ~Reader]
\* A stop finds a paused stream closed, and leaves byte_pos where it is.
Stop ==
  /\ Orders /\ \/ player.state = "RUNNING"
               \/ player.state = "PAUSED" /\ ~player.isOpen
  /\ FileCloses(player.state, "STOPPED")
  /\ story' = Ordered(story)
SetUri(u) ==
  /\ Orders /\ ~player.isOpen /\ player.uri # u
  /\ player' = [player EXCEPT !.uri = u]
  /\ story' = [Ordered(story) EXCEPT !.odd = @ \/ player.pos > 0]
  /\ UNCHANGED <<fatfs, card>>

-----------------------------------------------------------------------------
\* _fatfs_read: a unit of the file.
FileReads ==
  /\ player.state = "RUNNING" /\ Reader /\ fatfs.at < FileSize
  /\ fatfs' = [fatfs EXCEPT !.at = @ + 1]
  /\ player' = [player EXCEPT !.pos = @ + 1]
  /\ story' = [story EXCEPT !.got = Append(@, fatfs.at + 1)]
  /\ UNCHANGED card
\* _fatfs_write: the next unit of the audio.
FileWrites ==
  /\ player.state = "RUNNING" /\ ~Reader /\ fatfs.at < Space
  /\ card' = Put(card, fatfs.at, Audio(Len(story.got) + 1))
  /\ fatfs' = [fatfs EXCEPT !.at = @ + 1]
  /\ player' = [player EXCEPT !.pos = @ + 1]
  /\ story' = [story EXCEPT !.got = Append(@, Len(@) + 1)]
\* The file is at its end, the card is full or the audio is over: AEL_MSG_CMD_FINISH.
FileFinishes ==
  /\ player.state = "RUNNING"
  /\ Reader => fatfs.at >= FileSize
  /\ FileCloses("RUNNING", "FINISHED") /\ UNCHANGED story

FileSteps == FileReads \/ FileWrites \/ FileFinishes \/ FailsOpen
FileNext == FileSteps \/ Resume \/ Pause \/ Stop \/ \E u \in FileUris : SetUri(u)

-----------------------------------------------------------------------------
\* Over however many pauses, what is played is the file from its first unit on, unless byte_pos was left by a
\* playback that was stopped, failed or given another file in a pause. A recording that was closed and never paused has
\* in it what was recorded, under a wav header that tells how much that is, full card or not.
FileKept ==
  /\ Reader /\ ~story.odd => story.got = [i \in 1..Len(story.got) |-> i]
  /\ Reader /\ ~story.odd /\ player.state = "FINISHED" => Len(story.got) = FileSize
  /\ ~Reader /\ fatfs.file = "closed" /\ ~story.odd /\ story.got # <<>> =>
       LET audio == [i \in DOMAIN story.got |-> Audio(story.got[i])]
       IN  card = CASE fatfs.wType = "wav" -> <<Wav(Len(audio))>> \o audio
                    [] fatfs.wType = "amr" -> <<Empty>> \o audio
                    [] OTHER -> audio
=============================================================================
