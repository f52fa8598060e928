----------------------------- MODULE PlaylistLines -----------------------------
(***************************************************************************)
(* How http_stream cuts a playlist into lines (_get_line_in_buffer and     *)
(* _client_read_line, lib/audio_stream/http_stream.c): a buffer of LineMax *)
(* characters that is refilled when it holds no whole line, with the       *)
(* position and the count of what is left kept from call to call.          *)
(*                                                                         *)
(* Characters are "x", "y", the end of line Eol and the terminator Nul.    *)
(***************************************************************************)
EXTENDS Integers, Sequences, SequencesExt

CONSTANTS
  LineMax,    \* MAX_PLAYLIST_LINE_SIZE
  TextMax     \* bound: characters of a playlist

ASSUME LineAssumption == LineMax \in Nat \ {0} /\ TextMax \in Nat

Eol == "n"
Nul == "0"

VARIABLE playlist

\* _resolve_playlist starts on a buffer that holds what it held.
LinesInit ==
  playlist \in [text : UNION {[1..n -> {"x", "y", Eol}] : n \in 0..TextMax},
                data : {[i \in 0..LineMax |-> Nul]},
                index : {0}, remain : {0}, total_read : {0},
                lines : {<<>>}, reading : {TRUE}, lost : {FALSE}, edge : {FALSE}]

\* The characters of data from i up to the terminator.
StringAt(data, i) ==
  LET end == CHOOSE e \in i..LineMax : data[e] = Nul /\ \A k \in i..(e - 1) : data[k] # Nul
  IN [k \in 1..(end - i) |-> data[i + k - 1]]

PastLine(index, next) == index + next - 1

\* _get_line_in_buffer: the ends of line it passes become terminators, and a line counts
\* only when a character follows its end.
GetLine(p) ==
  LET rest == StringAt(p.data, p.index)
      ends == {k \in 1..Len(rest) : rest[k] = Eol}
      first == CHOOSE k \in ends : \A j \in ends : k <= j
      after == {k \in 1..Len(rest) : ends # {} /\ k > first /\ rest[k] # Eol}
      next == CHOOSE k \in after : \A j \in after : k <= j
      passed == {p.index + k - 1 : k \in IF after = {} THEN ends ELSE first..(next - 1)}
      zeroed == [i \in 0..LineMax |-> IF i \in passed THEN Nul ELSE p.data[i]]
  IN IF p.remain = 0 THEN [ok |-> FALSE, p |-> p]
     ELSE IF after = {} THEN [ok |-> FALSE, p |-> [p EXCEPT !.data = zeroed]]
     ELSE [ok |-> TRUE, p |-> [p EXCEPT !.data = zeroed, !.index = PastLine(p.index, next),
                                        !.remain = LineMax - PastLine(p.index, next)]]

\* memmove of what is left to the front of the buffer.
Moved(p) ==
  IF p.remain = 0 THEN p
  ELSE [p EXCEPT !.data = [i \in 0..LineMax |-> IF i < p.remain /\ p.index + i <= LineMax
                                                THEN p.data[p.index + i] ELSE p.data[i]],
                 !.index = 0]

\* esp_http_client_read puts n characters behind it.
Filled(p, n) ==
  [p EXCEPT !.data = [i \in 0..LineMax |-> IF i \in p.remain..(p.remain + n - 1)
                                           THEN p.text[p.total_read + 1 + i - p.remain] ELSE p.data[i]],
            !.remain = @ + n, !.total_read = @ + n]

Hand(p, line) == [p EXCEPT !.lines = Append(@, line)]

CallReads == playlist.reading /\ playlist.total_read < Len(playlist.text)
Need(p) == LineMax - p.remain
Left(p) == Len(p.text) - p.total_read

\* _client_read_line hands out a whole line of the buffer,
ReadsBuffered ==
  /\ CallReads
  /\ GetLine(playlist).ok
  /\ playlist' = Hand(GetLine(playlist).p, StringAt(GetLine(playlist).p.data, playlist.index))

\* or the first one after a refill, whole or not: when not, index and remain stay where they are.
\* A read is short only at the end of the text, or where the connection breaks.
ReadsRefilled ==
  /\ CallReads /\ ~GetLine(playlist).ok /\ Need(playlist) > 0 /\ ~playlist.lost
  /\ LET p == GetLine(playlist).p
         all == IF Left(p) < Need(p) THEN Left(p) ELSE Need(p)
     IN \E n \in 1..all :
          LET q == Filled(Moved(p), n)  got == GetLine(q)
          IN playlist' = [Hand(got.p, StringAt(got.p.data, q.index)) EXCEPT
                            !.lost = n < all,
                            !.edge = @ \/ p.data # playlist.data \/ (~got.ok /\ got.p.data # q.data)]

\* The connection is gone: what there is, at the place it had before the move, then nothing.
ReadsLost ==
  /\ CallReads /\ ~GetLine(playlist).ok /\ Need(playlist) > 0 /\ playlist.lost
  /\ LET p == GetLine(playlist).p
     IN playlist' = [Hand(Moved(p), StringAt(Moved(p).data, p.index)) EXCEPT !.remain = 0, !.reading = FALSE]

\* A full buffer without a whole line: nothing is read, nothing moves on, and the caller is
\* handed the same line again, for ever.
ReadsAgain ==
  /\ CallReads /\ ~GetLine(playlist).ok /\ Need(playlist) <= 0
  /\ playlist' = GetLine(playlist).p

\* The end comes as soon as the last character was read from the connection.
ReadsEnd ==
  /\ playlist.reading /\ ~CallReads
  /\ playlist' = [playlist EXCEPT !.reading = FALSE]

LinesNext == ReadsBuffered \/ ReadsRefilled \/ ReadsLost \/ ReadsAgain \/ ReadsEnd

\* The lines of a text: each ends with a run of ends of line.
LinesOf(text) ==
  LET step(acc, c) == IF c = Eol THEN [acc EXCEPT !.ended = TRUE]
                      ELSE IF acc.ended THEN [lines |-> Append(acc.lines, acc.line), line |-> <<c>>, ended |-> FALSE]
                      ELSE [acc EXCEPT !.line = Append(@, c)]
      all == FoldLeft(step, [lines |-> <<>>, line |-> <<>>, ended |-> FALSE], text)
  IN IF all.ended \/ all.line # <<>> THEN Append(all.lines, all.line) ELSE all.lines

\* What is handed out are the lines of the playlist, in their order and without a gap, from the
\* first one on, as long as the connection holds, no line is as long as the buffer and the text
\* ends with an end of line: then never a piece, nor what an earlier refill left (http_stream.c:165).
LinesInOrder ==
  \/ playlist.lost
  \/ playlist.text # <<>> /\ Last(playlist.text) # Eol
  \/ \E k \in 1..Len(LinesOf(playlist.text)) : Len(LinesOf(playlist.text)[k]) >= LineMax
  \/ IsPrefix(playlist.lines, LinesOf(playlist.text))

\* The caller is handed the same line for ever only where one of these happened: a line as long as
\* the buffer, or an end of line that was the last character of a refill (http_stream.c:190).
StuckAtAnEdge ==
  CallReads /\ ~GetLine(playlist).ok /\ Need(playlist) <= 0 =>
    playlist.edge \/ \E k \in 1..Len(LinesOf(playlist.text)) : Len(LinesOf(playlist.text)[k]) >= LineMax - 1
\* Both: what the reader of a playlist may rely on.
LinesWhole == LinesInOrder /\ StuckAtAnEdge
=============================================================================
