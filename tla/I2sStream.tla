------------------------------- MODULE I2sStream -------------------------------
(***************************************************************************)
(* The stream that plays through the I2S port (lib/audio_stream/           *)
(* i2s_stream.c): the element's task takes music from its ring and writes  *)
(* it into the DMA buffers of the driver, which the port plays one by one; *)
(* meanwhile another task sets the clock for the music that comes.         *)
(* A unit fills one DMA buffer. Music is numbered, Silent is silence. Of   *)
(* the info only the rate is kept here, which it shares with byte_pos.     *)
(*                                                                         *)
(* A part of its own is what is done to the samples of a buffer on their   *)
(* way to the port and from it: the DMA takes the samples of one channel   *)
(* in swapped pairs (i2s_mono_fix), and the built-in converter takes the   *)
(* highest byte of a sample, without a sign (i2s_dac_data_scale). A sample *)
(* stands for its highest byte, signed; positions count from 0, and the    *)
(* one past the buffer belongs to somebody else.                           *)
(***************************************************************************)
EXTENDS Integers, Sequences, FiniteSets, SequencesExt

CONSTANTS
  DmaBufCount,  \* dma_buf_count
  Music,        \* bound: the units of music that come
  Rates,        \* the rates the clock is set to
  MaxClocks,    \* bound: the calls of i2s_stream_set_clk
  MaxHolds,     \* bound: the pauses and stops
  Widths,       \* of 16, 24 and 32: the bits of a sample
  Levels,       \* bound: the values of its highest byte
  MaxSamples    \* bound: the samples in a buffer

ASSUME I2sBounds == DmaBufCount \in Nat \ {0} /\ {Music, MaxClocks, MaxHolds} \subseteq Nat
ASSUME SampleBounds == Levels \subseteq -128..127 /\ MaxSamples \in Nat

VARIABLES
  i2s,     \* the element: state; cmds, its command queue; rate, of its info
  writer,  \* its task: pc; unit, what it writes; info, its copy; flush, the silent buffers left to write; then, the
           \* state it goes to after them
  port,    \* dma, the filled buffers; rate; played, the music heard; came, the music written
  setter,  \* i2s_stream_set_clk: pc; rate, asked for; paused, whether it pauses the element
  fate,    \* history: met, a clock was set while the task ran; calls, holds: for the bounds
  pcm      \* a buffer: bits, channels, dac: of the stream; given, the samples; buf, the buffer and what is behind it; todo

i2ss == <<i2s, writer, port, setter, fate>>

Silent == 0
Fastest == CHOOSE r \in Rates : \A s \in Rates : s <= r
I2sInit ==
  /\ i2s = [state |-> "INIT", cmds |-> <<>>, rate |-> Fastest]
  /\ writer = [pc |-> "waits", unit |-> Silent, info |-> 0, flush |-> 0, then |-> "none"]
  /\ port = [dma |-> <<>>, rate |-> Fastest, played |-> 0, came |-> 0]
  /\ setter = [pc |-> "none", rate |-> 0, paused |-> FALSE]
  /\ fate = [met |-> FALSE, calls |-> 0, holds |-> 0]

Runs == i2s.state = "RUNNING"
Send(cmd) == [i2s EXCEPT !.cmds = Append(@, cmd)]

-----------------------------------------------------------------------------
(* The task. *)

\* _i2s_process: music, silence after 10 ms without any, or the end of the ring; it is then flushed.
Inputs ==
  /\ writer.pc = "waits" /\ Runs /\ i2s.cmds = <<>>
  /\ \/ port.came < Music /\ writer' = [writer EXCEPT !.pc = "copies", !.unit = port.came + 1]
     \/ writer' = [writer EXCEPT !.pc = "copies", !.unit = Silent]
     \/ \E end \in {"FINISH", "STOP"} : writer' = [writer EXCEPT !.pc = "flushes", !.flush = DmaBufCount, !.then = end]
  /\ UNCHANGED <<i2s, port, setter, fate>>
\* _i2s_write: the info is copied, and stored when i2s_write has found a buffer.
Copies ==
  /\ writer.pc = "copies"
  /\ writer' = [writer EXCEPT !.pc = "writes", !.info = i2s.rate]
  /\ UNCHANGED <<i2s, port, setter, fate>>
Writes16 ==
  /\ writer.pc = "writes" /\ Len(port.dma) < DmaBufCount
  /\ port' = [port EXCEPT !.dma = Append(@, writer.unit), !.came = IF writer.unit = Silent THEN @ ELSE @ + 1]
  /\ writer' = [writer EXCEPT !.pc = "stores"]
  /\ UNCHANGED <<i2s, setter, fate>>
Stores ==
  /\ writer.pc = "stores"
  /\ i2s' = [i2s EXCEPT !.rate = writer.info]
  /\ writer' = [writer EXCEPT !.pc = "waits"]
  /\ UNCHANGED <<port, setter, fate>>

\* The silent buffers of _i2s_process and of _i2s_close.
Flushes ==
  /\ writer.pc = "flushes" /\ writer.flush > 0 /\ Len(port.dma) < DmaBufCount
  /\ port' = [port EXCEPT !.dma = Append(@, Silent)]
  /\ writer' = [writer EXCEPT !.flush = @ - 1]
  /\ UNCHANGED <<i2s, setter, fate>>
\* The element tells itself how the input ended.
Ends ==
  /\ writer.pc = "flushes" /\ writer.flush = 0 /\ writer.then \in {"FINISH", "STOP"}
  /\ i2s' = Send(writer.then)
  /\ writer' = [writer EXCEPT !.pc = "waits", !.then = "none"]
  /\ UNCHANGED <<port, setter, fate>>

\* audio_element_on_cmd. A stream that is open is closed, and so flushed.
Wide == writer.pc = "waits" /\ i2s.cmds # <<>>
TookCmd == [i2s EXCEPT !.cmds = Tail(@)]
\* Fault: a buffer short.
FlushLengthShort == DmaBufCount - 1
FlushLength == DmaBufCount
StateOf == [PAUSE |-> "PAUSED", STOP |-> "STOPPED", FINISH |-> "FINISHED"]
Handles ==
  /\ Wide
  /\ LET cmd == Head(i2s.cmds)
     IN CASE cmd = "RESUME" -> i2s' = [TookCmd EXCEPT !.state = "RUNNING"] /\ UNCHANGED writer
          [] cmd # "RESUME" /\ Runs ->
               /\ i2s' = [TookCmd EXCEPT !.state = IF cmd = "PAUSE" THEN "PAUSED" ELSE @]
               /\ writer' = [writer EXCEPT !.pc = "flushes", !.flush = FlushLength, !.then = StateOf[cmd]]
          [] OTHER -> i2s' = [TookCmd EXCEPT !.state = StateOf[cmd]] /\ UNCHANGED writer
  /\ UNCHANGED <<port, setter, fate>>
Closed16 ==
  /\ writer.pc = "flushes" /\ writer.flush = 0 /\ writer.then \in {"PAUSED", "STOPPED", "FINISHED"}
  /\ i2s' = [i2s EXCEPT !.state = writer.then]
  /\ writer' = [writer EXCEPT !.pc = "waits", !.then = "none"]
  /\ UNCHANGED <<port, setter, fate>>

\* The port plays a buffer.
Plays ==
  /\ port.dma # <<>>
  /\ port' = [port EXCEPT !.dma = Tail(@), !.played = IF Head(port.dma) = Silent THEN @ ELSE @ + 1]
  /\ UNCHANGED <<i2s, writer, setter, fate>>

-----------------------------------------------------------------------------
(* Other tasks. *)
Resumes ==
  /\ ~Runs /\ i2s.cmds = <<>> /\ i2s.state \in {"INIT", "PAUSED", "STOPPED"}
  /\ fate.holds < MaxHolds
  /\ i2s' = Send("RESUME")
  /\ UNCHANGED <<writer, port, setter, fate>>
Holds ==
  /\ Runs /\ fate.holds < MaxHolds
  /\ fate' = [fate EXCEPT !.holds = @ + 1]
  /\ \E cmd \in {"PAUSE", "STOP"} : i2s' = Send(cmd)
  /\ UNCHANGED <<writer, port, setter>>

\* i2s_stream_set_clk pauses a stream that runs, and resumes it.
SetClk ==
  /\ setter.pc = "none" /\ fate.calls < MaxClocks
  /\ \E r \in Rates : setter' = [setter EXCEPT !.pc = IF Runs THEN "awaits" ELSE "copies", !.rate = r, !.paused = Runs]
  /\ i2s' = IF Runs THEN Send("PAUSE") ELSE i2s
  /\ fate' = [fate EXCEPT !.calls = @ + 1]
  /\ UNCHANGED <<writer, port>>
Paused16 ==
  /\ setter.pc = "awaits" /\ ~Contains(i2s.cmds, "PAUSE") /\ writer.pc = "waits"
  /\ setter' = [setter EXCEPT !.pc = "copies"]
  /\ UNCHANGED <<i2s, writer, port, fate>>
Active == Runs \/ writer.pc # "waits"
Sets(next) ==
  /\ setter' = next
  /\ fate' = [fate EXCEPT !.met = @ \/ Active]
SetCopies ==
  /\ setter.pc = "copies"
  /\ Sets([setter EXCEPT !.pc = "stores"])
  /\ UNCHANGED <<i2s, writer, port>>
SetStores ==
  /\ setter.pc = "stores"
  /\ i2s' = [i2s EXCEPT !.rate = setter.rate]
  /\ Sets([setter EXCEPT !.pc = "clocks"])
  /\ UNCHANGED <<writer, port>>
\* i2s_set_clk of the driver begins with empty buffers.
SetClocks ==
  /\ setter.pc = "clocks"
  /\ port' = [port EXCEPT !.rate = setter.rate, !.dma = <<>>]
  /\ i2s' = IF setter.paused /\ i2s.state \notin {"RUNNING", "FINISHED"} THEN Send("RESUME") ELSE i2s
  /\ Sets([setter EXCEPT !.pc = "none"])
  /\ UNCHANGED writer

I2sTask == Inputs \/ Copies \/ Writes16 \/ Stores \/ Flushes \/ Ends \/ Handles \/ Closed16
I2sNext == I2sTask \/ Plays \/ Resumes \/ Holds \/ SetClk \/ Paused16 \/ SetCopies \/ SetStores \/ SetClocks

-----------------------------------------------------------------------------
\* Unless a clock was set while the task ran, all music that was written is heard or still in the buffers, in
\* its order; a stream that has paused, stopped or finished has none left there, however few the buffers that
\* were filled; and the info agrees with the port on the rate.
BuffersPlayed ==
  ~fate.met =>
    /\ LET music == {i \in DOMAIN port.dma : port.dma[i] # Silent}
       IN /\ {port.dma[i] : i \in music} = (port.played + 1)..port.came
          /\ \A i, j \in music : i < j => port.dma[i] < port.dma[j]
    /\ ~Active => port.played = port.came
    /\ setter.pc \in {"none", "awaits"} => i2s.rate = port.rate

-----------------------------------------------------------------------------
(* The samples of a buffer. *)
Behind == 99
PcmInit ==
  \E bits \in Widths, channels \in {1, 2}, dac \in BOOLEAN, n \in 1..MaxSamples : \E s \in [0..(n - 1) -> Levels] :
    pcm = [bits |-> bits, channels |-> channels, dac |-> dac, given |-> s, todo |-> "writes",
           buf |-> [i \in 0..n |-> IF i = n THEN Behind ELSE s[i]]]

Samples == Cardinality(DOMAIN pcm.given)
\* The loop goes on by two samples of 16 bits, and by four of 32 (i2s_stream.c:64).
Stride == IF pcm.bits = 16 THEN 2 ELSE 4
\* Fault: the samples taken one by one.
SwapsEach == 0..(Samples - 1)
Swaps == {i \in 0..(Samples - 1) : i % Stride = 0}
MonoFix ==
  [i \in DOMAIN pcm.buf |-> IF i \in Swaps THEN pcm.buf[i + 1] ELSE IF i - 1 \in Swaps THEN pcm.buf[i - 1] ELSE pcm.buf[i]]

\* Half of the range is added, and wraps.
DacScale(s) == (s + 128) % 256

Converted == pcm.bits \in {16, 32}
\* _i2s_write; samples of another width stay as they are, whatever these functions return.
PcmWrites ==
  /\ pcm.todo = "writes"
  /\ LET fixed == IF pcm.channels = 1 /\ Converted THEN MonoFix ELSE pcm.buf
         mine == 0..(Samples - 1)
     IN pcm' = [pcm EXCEPT !.todo = "reads",
                  !.buf = [i \in DOMAIN fixed |-> IF pcm.dac /\ Converted /\ i \in mine THEN DacScale(fixed[i]) ELSE fixed[i]]]
\* _i2s_read gets what was written back.
PcmReads ==
  /\ pcm.todo = "reads" /\ ~pcm.dac
  /\ pcm' = [pcm EXCEPT !.todo = "done", !.buf = IF pcm.channels = 1 /\ Converted THEN MonoFix ELSE @]

PcmNext == PcmWrites \/ PcmReads

-----------------------------------------------------------------------------
\* A buffer of whole pairs reaches the port with each sample in it once, where the port takes it (of 32 bits, every other
\* pair only), and comes back as it was; what is behind it is not touched; a louder sample drives the converter higher.
PairsKept ==
  LET mine == DOMAIN pcm.given
      other(i) == IF i % 2 = 0 THEN i + 1 ELSE i - 1
      place(i) == IF pcm.channels = 1 /\ Converted /\ (pcm.bits = 16 \/ i % 4 < 2) THEN other(i) ELSE i
  IN Samples % 2 = 0 =>
       /\ pcm.buf[Samples] = Behind
       /\ pcm.todo = "done" => \A i \in mine : pcm.buf[i] = pcm.given[i]
       /\ pcm.todo = "reads" =>
            IF pcm.dac /\ Converted
            THEN \A i, j \in mine : pcm.given[i] <= pcm.given[j] => pcm.buf[place(i)] <= pcm.buf[place(j)]
            ELSE \A i \in mine : pcm.buf[place(i)] = pcm.given[i]
=============================================================================
