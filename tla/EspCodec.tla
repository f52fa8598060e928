------------------------------- MODULE EspCodec -------------------------------
(***************************************************************************)
(* The elements between a stream and the port (lib/esp_codec): the WAV     *)
(* decoder, which takes the header of a song for itself, the WAV encoder,  *)
(* which only counts, and the resample filter, which converts whole        *)
(* buffers (as a decoder) or as much of one as it needs (as an encoder).   *)
(* Music is numbered; Head is the header of a song, Junk is memory nobody  *)
(* wrote. Of a conversion only what it takes matters, not what it makes.   *)
(***************************************************************************)
EXTENDS Integers, Sequences, FiniteSets

CONSTANTS
  Kinds,     \* of wav_decoder, wav_encoder, rsp_decoder, rsp_encoder
  PointNum,  \* the units in a buffer
  SongLen,   \* bound: the units of a song
  MaxTurns   \* bound: the songs begun, paused and stopped

ASSUME CodecBounds == PointNum \in Nat \ {0} /\ {SongLen, MaxTurns} \subseteq Nat

VARIABLES
  codec,  \* kind; state, of the element; parsed, parsed_header; buf, in_buf; offset, in_offset; pos, byte_pos of its info
  song    \* left, what is still to come; came, the music that has; out, what the codec took, in order; ends, whether
          \* a read was short; spoilt and turns: history

codecs == <<codec, song>>

Head1 == -1
Junk == 0
Fresh == [i \in 1..PointNum |-> Junk]
\* A song, its header first; or something that is none.
Songs == {[i \in 1..n |-> i] : n \in 0..SongLen} \cup {<<Head1>> \o [i \in 1..n |-> i] : n \in 0..SongLen}
CodecInit ==
  /\ codec \in [kind : Kinds, state : {"INIT"}, parsed : {FALSE}, buf : {Fresh}, offset : {0}, pos : {0}]
  /\ song = [left |-> <<>>, came |-> 0, out |-> <<>>, ends |-> FALSE, spoilt |-> FALSE, turns |-> 0]

Resamples == codec.kind \in {"rsp_decoder", "rsp_encoder"}
Running == codec.state = "RUNNING"

-----------------------------------------------------------------------------
\* rsp_filter_open gets its buffer from malloc, and in_offset stays; the open of the others does nothing.
CodecOpened == [codec EXCEPT !.state = "RUNNING", !.buf = IF Resamples THEN Fresh ELSE @]
SongBegins ==
  /\ codec.state \in {"INIT", "STOPPED"} /\ song.turns < MaxTurns
  /\ codec' = CodecOpened
  /\ \E s \in Songs :
       /\ (Head(s \o <<0>>) = Head1) => codec.kind = "wav_decoder"
       /\ song' = [left |-> s, came |-> 0, out |-> <<>>, ends |-> FALSE, turns |-> song.turns + 1,
                   spoilt |-> codec.parsed \/ codec.offset > 0 \/ codec.pos > 0]
Resumed ==
  /\ codec.state = "PAUSED"
  /\ codec' = CodecOpened
  /\ song' = [song EXCEPT !.spoilt = @ \/ codec.offset > 0]

\* Fault: each close is the end of a song.
ClosedPausedReset == [codec EXCEPT !.state = "PAUSED", !.pos = 0, !.parsed = FALSE]
\* _wav_decoder_close and _wav_encoder_close; a codec that is closed in a pause goes on where it was.
ClosedPaused == [codec EXCEPT !.state = "PAUSED"]
Closed2(state) == [codec EXCEPT !.state = state, !.pos = 0, !.parsed = FALSE]
Pauses2 ==
  /\ Running /\ song.turns < MaxTurns
  /\ codec' = ClosedPaused
  /\ song' = [song EXCEPT !.turns = @ + 1]
\* A codec that is not open is not closed, and so keeps what it has from the pause.
Stops2 ==
  /\ codec.state \in {"RUNNING", "PAUSED", "FINISHED", "ERROR"}
  /\ codec' = IF Running THEN Closed2("STOPPED") ELSE [codec EXCEPT !.state = "STOPPED"]
  /\ UNCHANGED song

-----------------------------------------------------------------------------
\* What rb_read returns: as much as is wanted, but at the end of the song.
InputOf(wanted) == SubSeq(song.left, 1, IF wanted < Len(song.left) THEN wanted ELSE Len(song.left))
MusicIn(units) == {i \in DOMAIN units : units[i] # Head1}
Given(read, out) ==
  [song EXCEPT !.left = SubSeq(@, Len(read) + 1, Len(@)), !.came = @ + Cardinality(MusicIn(read)), !.out = @ \o out]

\* The input has ended: the element tells itself to finish.
Finishes ==
  /\ Running /\ song.left = <<>>
  /\ codec' = Closed2("FINISHED")
  /\ UNCHANGED song

\* _wav_decoder_process: the header comes first and is whole, or the element fails.
Parses ==
  /\ codec.kind = "wav_decoder" /\ Running /\ ~codec.parsed /\ song.left # <<>>
  /\ LET read == InputOf(PointNum)
         ok == Head(read) = Head1
         rest == Tail(read)
     IN /\ codec' = IF ok THEN [codec EXCEPT !.parsed = TRUE, !.pos = Len(rest)] ELSE Closed2("ERROR")
        /\ song' = IF ok THEN Given(read, rest) ELSE [song EXCEPT !.left = <<>>]
\* The rest of _wav_decoder_process, and _wav_encoder_process.
Passes ==
  /\ codec.kind = "wav_encoder" \/ (codec.kind = "wav_decoder" /\ codec.parsed)
  /\ Running /\ song.left # <<>>
  /\ LET read == InputOf(PointNum)
     IN /\ codec' = [codec EXCEPT !.pos = @ + Len(read)]
        /\ song' = Given(read, read)

\* rsp_filter_process: what is read goes behind what was left, and the buffer is converted whole however little came.
BufferOf(read) == [i \in 1..PointNum |-> IF i - codec.offset \in DOMAIN read THEN read[i - codec.offset] ELSE codec.buf[i]]
Short(read) == Len(read) < PointNum - codec.offset
Converts ==
  /\ codec.kind = "rsp_decoder" /\ Running /\ song.left # <<>>
  /\ LET read == InputOf(PointNum)
     IN /\ codec' = [codec EXCEPT !.buf = BufferOf(read)]
        /\ song' = [Given(read, BufferOf(read)) EXCEPT !.ends = @ \/ Short(read)]
\* The encoder needs a part of it, and moves what is left to the front; the rest of the buffer stays as it was.
MovedUp(buf, used) == [i \in 1..PointNum |-> IF i <= PointNum - used THEN buf[i + used] ELSE buf[i]]
ConvertsPart ==
  /\ codec.kind = "rsp_encoder" /\ Running /\ song.left # <<>>
  /\ LET read == InputOf(PointNum - codec.offset)
     IN \E used \in 1..PointNum :
          /\ codec' = [codec EXCEPT !.buf = MovedUp(BufferOf(read), used), !.offset = PointNum - used]
          /\ song' = [Given(read, SubSeq(BufferOf(read), 1, used)) EXCEPT !.ends = @ \/ Short(read)]

CodecNext == SongBegins \/ Resumed \/ Pauses2 \/ Stops2 \/ Finishes \/ Parses \/ Passes \/ Converts \/ ConvertsPart

-----------------------------------------------------------------------------
\* What a codec gives on is the music it was given, each unit once and in its order, over any pauses, and never a
\* header; what it has not given on waits at the front of its buffer. The encoder forgets it in a pause and when a
\* song ends, and the buffer of a filter that came up short is converted with what lay behind (spoilt and ends); a
\* codec that was stopped in a pause begins the next song with what it kept.
SamplesInOrder ==
  ~song.spoilt /\ ~song.ends =>
    /\ song.out \o SubSeq(codec.buf, 1, codec.offset) = [i \in 1..song.came |-> i]
    /\ ~Resamples /\ codec.state \in {"RUNNING", "PAUSED"} => codec.pos = Len(song.out)
=============================================================================
