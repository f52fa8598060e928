------------------------------- MODULE AudioHal -------------------------------
(***************************************************************************)
(* The codec as the application sees it (src/lib/audio_hal/audio_hal.c):   *)
(* a table of drivers, one of which is opened and then called, each call   *)
(* under the handle's lock; and the functions of the drivers that the      *)
(* table has no place for. A transfer of a call may fail.                  *)
(***************************************************************************)
EXTENDS Es8388, Es8374, TLC

CONSTANTS PowerUp,   \* what a register may hold when the codec is switched on
          MaxCalls   \* bound: the calls made to the codec; a transfer that fails takes the place of one

ASSUME HalBounds == PowerUp \subseteq 0..255 /\ MaxCalls \in Nat

VARIABLES
  codec,  \* chip, the driver; handle, whether it is open; calls, how many were made
  last    \* the call made last: kind and args; before, the settings it found

hal == <<regs, run, codec, last>>

Fmts == {0, 2}        \* I2S and right justified
Lengths == {3, 4}     \* BIT_LENGTH_16BITS and 32BITS; 24BITS is 0
Levels == {-1, 50, 99, 101}
HalCfg == [in |-> "line1", out |-> "all", mode |-> "both", fmt |-> 0, bits |-> 3]

RegistersOf(chip) == IF chip = "es8388" THEN Es8388Registers ELSE Es8374Registers
Settings == IF codec.chip = "es8388" THEN Es8388Settings ELSE Es8374Settings

HalInit ==
  /\ codec \in [chip : {"es8388", "es8374"}, handle : {FALSE}, calls : {0}]
  /\ \E v \in PowerUp : regs = [r \in RegistersOf(codec.chip) |-> v]
  /\ run = Quiet
  /\ last = [kind |-> "none", args |-> <<>>, before |-> Settings]

\* A call holds the lock to its end.
Made(kind, args, handle, steps) ==
  /\ ~Running /\ codec.calls + (IF run.failed THEN 1 ELSE 0) < MaxCalls
  /\ Begin(steps)
  /\ codec' = [codec EXCEPT !.handle = handle, !.calls = @ + 1]
  /\ last' = [kind |-> kind, args |-> args, before |-> Settings]
  /\ UNCHANGED regs
Does(kind, args, on8388, on8374) ==
  /\ codec.handle
  /\ Made(kind, args, TRUE, IF codec.chip = "es8388" THEN on8388 ELSE on8374)

-----------------------------------------------------------------------------
(* audio_hal_init makes three calls of the driver and keeps their result to itself; a second one answers *)
(* with the handle there is.                                                                             *)
AudioHalInit ==
  LET c == HalCfg
  IN IF codec.handle THEN Made("again", <<>>, TRUE, <<>>)
     ELSE Made("init", c, TRUE,
               Calls(IF codec.chip = "es8388"
                     THEN <<Es8388Init(c), Es8388ConfigI2s(c.fmt, c.bits), Es8388SetVolume(70)>>
                     ELSE <<Es8374Init(c), Es8374ConfigI2s(c.fmt, c.bits), Es8374SetVolume(70)>>))
AudioHalDeinit ==
  /\ codec.handle
  /\ Made("deinit", <<>>, FALSE, IF codec.chip = "es8388" THEN Es8388Deinit ELSE Es8374Deinit)

CtrlCodec ==
  \E mode \in Modes \union {"line"}, ctrl \in {"start", "stop"} :
    Does(ctrl, mode, Es8388CtrlState(mode, ctrl), Es8374CtrlState(mode, ctrl))
ConfigIface ==
  \E fmt \in Fmts, bits \in Lengths :
    Does("iface", <<fmt, bits>>, Es8388ConfigI2s(fmt, bits), Es8374ConfigI2s(fmt, bits))
SetVolume == \E v \in Levels : Does("volume", v, Es8388SetVolume(v), Es8374SetVolume(v))

\* What the drivers offer besides.
ConfigFmt == \E mode \in Modes, fmt \in Fmts : Does("fmt", <<mode, fmt>>, Es8388Fmt(mode, fmt), Es8374Fmt(mode, fmt, 0))
SetBits == \E mode \in Modes, bits \in Lengths : Does("bits", <<mode, bits>>, Es8388Bits(mode, bits), Es8374Bits(mode, bits))
SetMute == \E on \in BOOLEAN : Does("mute", on, Es8388Mute(on), Es8374Mute(on))
SetOutput == Does("output", \h28, Es8388DacOutput(\h28), Es8374DacOutput)
SetInput == Does("input", \h50, Es8388AdcInput(\h50), Es8374AdcInput)
SetGain == Does("gain", 21, Es8388MicGain(21), Es8374MicGain(21))
SetClock == Does("clock", <<6, 512>>, Es8388Clock(4, 4), Es8374Clock(6, 512))

HalNext ==
  \/ AudioHalInit \/ AudioHalDeinit \/ CtrlCodec \/ ConfigIface \/ SetVolume
  \/ ConfigFmt \/ SetBits \/ SetMute \/ SetOutput \/ SetInput \/ SetGain \/ SetClock
  \/ BusNext /\ UNCHANGED <<codec, last>>

-----------------------------------------------------------------------------
(* What a call is for, in terms of the settings. *)
Level(chip, v) ==
  IF chip = "es8388" THEN (IF v < 0 THEN 0 ELSE IF v >= 99 THEN 100 ELSE 3 * (v \div 3))
  ELSE (IF v < 0 THEN 0 ELSE IF v > 96 THEN 96 ELSE v)
Formats(mode, fmt, bits) ==
  LET half(name, on, v) == IF on /\ v # -1 THEN name :> v ELSE <<>>
  IN half("adcFmt", ForAdc(mode), fmt) @@ half("dacFmt", ForDac(mode), fmt)
       @@ half("adcBits", ForAdc(mode), bits) @@ half("dacBits", ForDac(mode), bits)

Asked(chip, kind, a) ==
  CASE kind = "volume" -> "volume" :> Level(chip, a)
    [] kind = "mute" -> "mute" :> (IF a THEN 1 ELSE 0)
    [] kind \in {"start", "stop"} ->
         IF a = "adc" \/ (kind = "stop" /\ a = "line") THEN <<>> ELSE "mute" :> (IF kind = "stop" THEN 1 ELSE 0)
    \* On the ES8374 a format alone also sets the length to that of 24 bits.
    [] kind = "fmt" -> Formats(a[1], a[2], IF chip = "es8374" THEN 0 ELSE -1)
    [] kind = "bits" -> Formats(a[1], -1, a[2])
    [] kind = "iface" -> Formats("both", a[1], a[2])
    [] kind = "init" -> Formats("both", a.fmt, a.bits) @@ "volume" :> Level(chip, 70)
    [] OTHER -> <<>>
\* The settings that are none of the call's business.
Kept(chip, kind) ==
  LET sound == {"adcFmt", "dacFmt", "adcBits", "dacBits", "volume", "in", "gain"}
  IN CASE kind \in {"start", "stop"} -> sound
       [] kind \in {"init", "deinit"} -> {}
       [] kind = "output" -> DOMAIN Settings \ {"out", "speaker"}
       [] kind = "input" -> DOMAIN Settings \ {"in"}
       [] kind = "gain" -> DOMAIN Settings \ {"gain"}
       [] OTHER -> DOMAIN Settings
\* What a failed transfer may have spoilt unseen: the ADC's half of the ES8388's formats, whose error is
\* overwritten by the result of the DAC's.
Unseen(chip, kind) ==
  IF chip = "es8388" /\ kind \in {"fmt", "bits", "iface", "init"} THEN {"adcFmt", "adcBits", "rest"} ELSE {}

\* A call of the codec that says it went well has set what it is for and left every other setting as it
\* was, whichever transfer failed before; and the ES8388 is started again whenever its clock was changed.
\* What a look at a setting answers is not asked about: es8374_get_voice_mute looks at bit 0x40 of a
\* register whose bit 0x20 is what muting sets (es8374.c:153, 140).
DoneAsAsked ==
  last.kind # "none" /\ ~Running /\ run.fine =>
    LET asked == Asked(codec.chip, last.kind, last.args)
        seen == IF run.failed THEN Unseen(codec.chip, last.kind) ELSE {}
    IN /\ \A f \in DOMAIN asked \ seen : Settings[f] = asked[f]
       /\ \A f \in Kept(codec.chip, last.kind) \ (DOMAIN asked \union seen) : Settings[f] = last.before[f]
       /\ codec.chip = "es8388" /\ last.kind = "start" /\ Settings.clock # last.before.clock =>
            {<<ChipPower, \hF0>>, <<ChipPower, 0>>} \subseteq run.wrote
=============================================================================
