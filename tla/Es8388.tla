-------------------------------- MODULE Es8388 --------------------------------
(***************************************************************************)
(* The driver of the ES8388 (src/lib/audio_hal/driver/es8388/es8388.c),    *)
(* the codec of the application's board: its functions as the transfers    *)
(* they make, by the registers' names.                                     *)
(***************************************************************************)
EXTENDS CodecBus

Control(n) == n - 1
ChipPower == 2
AdcPower == 3
DacPower == 4
MasterMode == 8
AdcControl(n) == 8 + n
DacControl(n) == 22 + n

-----------------------------------------------------------------------------
(* The settings. *)
Es8388Mute(on) == <<Rd(DacControl(3)), Wr(DacControl(3), \hFB, IF on THEN 4 ELSE 0)>>
Es8388GetMute == (regs[DacControl(3)] & 4) \div 4

Es8388Clip(volume) == IF volume < 0 THEN 0 ELSE IF volume > 100 THEN 100 ELSE volume
Es8388SetVolume(volume) ==
  LET v == Es8388Clip(volume) \div 3
  IN <<Put(DacControl(24), v), Put(DacControl(25), v), Put(DacControl(26), 0), Put(DacControl(27), 0)>>
Es8388GetVolume == LET v == regs[DacControl(24)] * 3 IN IF v = 99 THEN 100 ELSE v

\* The error of the ADC's half is overwritten by that of the DAC's read.
Es8388Fmt(mode, fmt) ==
  When(ForAdc(mode), <<Forget, Rd(AdcControl(4)), Wr(AdcControl(4), \hFC, fmt)>>)
    \o When(ForDac(mode), <<Forget, Rd(DacControl(1)), Wr(DacControl(1), \hF9, fmt * 2)>>)
Es8388Bits(mode, bits) ==
  When(ForAdc(mode), <<Forget, Rd(AdcControl(4)), Wr(AdcControl(4), \hE3, bits * 4)>>)
    \o When(ForDac(mode), <<Forget, Rd(DacControl(1)), Wr(DacControl(1), \hC7, bits * 8)>>)
Es8388ConfigI2s(fmt, bits) == <<Call(Es8388Fmt("both", fmt)), Call(Es8388Bits("both", bits))>>

Es8388DacOutput(output) == <<Rd(DacPower), Wr(DacPower, \hC3, output)>>
Es8388AdcInput(input) == <<Rd(AdcControl(2)), Wr(AdcControl(2), \h0F, input)>>
Es8388MicGain(gain) == <<Put(AdcControl(1), gain \div 3)>>
Es8388Clock(sclk, lclk) == <<Put(MasterMode, sclk), Put(AdcControl(5), lclk), Put(DacControl(2), lclk)>>
\* es8388_set_adc_dac_volume, which is only asked for 0 dB.
Es8388Gain(mode) ==
  When(ForAdc(mode), <<Put(AdcControl(8), 0), Put(AdcControl(9), 0)>>)
    \o When(ForDac(mode), <<Put(DacControl(5), 0), Put(DacControl(4), 0)>>)

-----------------------------------------------------------------------------
(* Power. When the clock register has changed, the chip's state machine is started again. *)
Es8388Start(mode) ==
  <<Peek(DacControl(21), "prev")>>
    \o (IF mode = "line"
        THEN <<Put(DacControl(16), \h09), Put(DacControl(17), \h50), Put(DacControl(20), \h50), Put(DacControl(21), \hC0)>>
        ELSE <<Put(DacControl(21), \h80)>>)
    \o <<Peek(DacControl(21), "now"), IfDiffer(<<Put(ChipPower, \hF0), Put(ChipPower, 0)>>)>>
    \o When(mode # "dac", <<Put(AdcPower, 0)>>)
    \o When(mode # "adc", <<Put(DacPower, \h3C), Call(Es8388Mute(FALSE))>>)

Es8388Stop(mode) ==
  IF mode = "line"
  THEN <<Put(DacControl(21), \h80), Put(DacControl(16), 0), Put(DacControl(17), \h90), Put(DacControl(20), \h90)>>
  ELSE When(ForDac(mode), <<Put(DacPower, 0), Call(Es8388Mute(TRUE))>>)
         \o When(ForAdc(mode), <<Put(AdcPower, \hFF)>>)
         \o When(mode = "both", <<Put(DacControl(21), \h9C)>>)

\* es8388_ctrl_state: whatever is not a stop is a start.
Es8388CtrlState(mode, ctrl) == IF ctrl = "stop" THEN Es8388Stop(mode) ELSE Es8388Start(mode)

Es8388Deinit == <<Put(ChipPower, \hFF)>>

Es8388Init(cfg) ==
  <<Put(DacControl(3), \h04), Put(Control(2), \h50), Put(ChipPower, 0), Put(MasterMode, 0),
    Put(DacPower, \hC0), Put(Control(1), \h12), Put(DacControl(1), \h18), Put(DacControl(2), \h02),
    Put(DacControl(16), 0), Put(DacControl(17), \h90), Put(DacControl(20), \h90), Put(DacControl(21), \h80),
    Put(DacControl(23), 0), Call(Es8388Gain("dac")),
    Put(DacPower, CASE cfg.out = "line2" -> \h14 [] cfg.out = "line1" -> \h28 [] OTHER -> \h3C),
    Put(AdcPower, \hFF), Put(AdcControl(1), \hBB),
    Put(AdcControl(2), CASE cfg.in = "line1" -> 0 [] cfg.in = "line2" -> \h50 [] OTHER -> \hF0),
    Put(AdcControl(3), \h02), Put(AdcControl(4), \h0D), Put(AdcControl(5), \h02),
    Call(Es8388Gain("adc")), Put(AdcPower, \h09)>>

-----------------------------------------------------------------------------
(* What the registers mean. *)
Es8388Registers == {Control(n) : n \in 1..2} \union {ChipPower, AdcPower, DacPower, MasterMode}
  \union {AdcControl(n) : n \in {1, 2, 3, 4, 5, 8, 9}} \union {DacControl(n) : n \in {1, 2, 3, 4, 5, 16, 17, 20, 21} \union 23..27}
Es8388Settings ==
  [adcFmt |-> regs[AdcControl(4)] & 3, dacFmt |-> (regs[DacControl(1)] & 6) \div 2,
   adcBits |-> (regs[AdcControl(4)] & 28) \div 4, dacBits |-> (regs[DacControl(1)] & 56) \div 8,
   mute |-> Es8388GetMute, volume |-> Es8388GetVolume, rest |-> <<regs[AdcControl(4)] & 224, regs[DacControl(1)] & 193>>,
   out |-> regs[DacPower], in |-> regs[AdcControl(2)], gain |-> regs[AdcControl(1)],
   adcPower |-> regs[AdcPower], clock |-> regs[DacControl(21)], chipPower |-> regs[ChipPower],
   mixer |-> <<regs[DacControl(16)], regs[DacControl(17)], regs[DacControl(20)]>>]
=============================================================================
