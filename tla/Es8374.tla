-------------------------------- MODULE Es8374 --------------------------------
(***************************************************************************)
(* The driver of the ES8374 (src/lib/audio_hal/driver/es8374/es8374.c):    *)
(* its functions as the transfers they make, by register number.           *)
(***************************************************************************)
EXTENDS Integers, CodecBus

-----------------------------------------------------------------------------
(* The settings: here what follows a read is left out when the read has failed. *)
Es8374Mute(on) == <<Rd(\h36), IfFine(<<Wr(\h36, \hDF, IF on THEN 32 ELSE 0)>>)>>

\* Each register for itself: \h10 belongs to the ADC, \h11 to the DAC.
Halves(mode) == When(ForAdc(mode), <<\h10>>) \o When(ForDac(mode), <<\h11>>)
Es8374Bits(mode, bits) ==
  FlattenSeq([i \in DOMAIN Halves(mode) |-> <<Rd(Halves(mode)[i]), IfFine(<<Wr(Halves(mode)[i], \hE3, bits * 4)>>)>>])
\* The format carries a length in its upper half, that of 24 bits when it has none.
Es8374Fmt(mode, fmt, bits) ==
  FlattenSeq([i \in DOMAIN Halves(mode) |->
    <<Rd(Halves(mode)[i]), IfFine(<<Wr(Halves(mode)[i], \hFC, fmt), Call(Es8374Bits(mode, bits))>>)>>])
\* Fault: the length first, which the format then sets to its own.
Es8374ConfigI2sLengthFirst(fmt, bits) == <<Call(Es8374Bits("both", bits)), Call(Es8374Fmt("both", fmt, 0))>>
Es8374ConfigI2s(fmt, bits) == <<Call(Es8374Fmt("both", fmt, 0)), Call(Es8374Bits("both", bits))>>

\* The output and input asked for are not looked at.
Es8374DacOutput == <<Put(\h1D, \h02), Rd(\h1C), Wr(\h1C, \hFF, \h80), Put(\h1D, \h02), Put(\h1F, 0), Put(\h1E, \hA0)>>
Es8374AdcInput == <<Rd(\h21), IfFine(<<Wr(\h21, \hCF, \h14)>>)>>
\* es8374_set_mic_gain refuses a gain outside its range.
Es8374MicGain(gain) == <<Put(\h22, (gain \div 3) * 17)>>

Es8374SetVolume(volume) == <<Put(\h38, IF volume < 0 THEN 192 ELSE IF volume > 96 THEN 0 ELSE 192 - volume * 2)>>
Es8374GetVolume == IF regs[\h38] > 192 THEN -((regs[\h38] - 192) \div 2) ELSE (192 - regs[\h38]) \div 2

\* es8374_set_d2se_pga: the write's error takes the place of the read's.
Es8374D2se == <<Rd(\h21), Forget, Wr(\h21, \hFB, 4)>>

\* es8374_i2s_config_clock: the place of the divider in the list, and the ratio in two registers.
Dividers == <<1, 2, 3, 4, 5, 6, 7, 8, 9, 10, 11, 12, 13, 14, 15, 16, 17, 18,
              20, 22, 24, 25, 30, 32, 33, 34, 36, 44, 48, 66, 72>>
Es8374Clock(sclk, lclk) ==
  <<Rd(\h0F), Wr(\h0F, \hE0, CHOOSE i \in DOMAIN Dividers : Dividers[i] = sclk),
    Put(\h06, lclk \div 256), Put(\h07, lclk % 256)>>

-----------------------------------------------------------------------------
(* Power. *)
SpeakerOff == <<Put(\h1D, \h12), Put(\h1E, \h20)>>
SpeakerOn == <<Put(\h1D, \h02), Put(\h1E, \hA0)>>
\* A read that fails leaves what was last in reg.
Es8374Start(mode) ==
  When(mode = "line",
       <<Rd(\h1A), Wr(\h1A, \hF7, \h60), Rd(\h1C), Wr(\h1C, \hFF, \h40), Put(\h1D, \h02), Put(\h1F, 0), Put(\h1E, \hA0)>>)
    \o When(mode # "dac", <<Rd(\h21), Wr(\h21, \h3F, 0), Rd(\h10), Wr(\h10, \h3F, 0)>>)
    \o When(mode # "adc",
            <<Rd(\h1A), Wr(\h1A, \hFF, \h08), Wr(\h1A, \hDF, 0)>> \o SpeakerOff
              \o <<Rd(\h15), Wr(\h15, \hDF, 0), Rd(\h1A), Wr(\h1A, \hFF, \h20), Wr(\h1A, \hF7, 0)>> \o SpeakerOn
              \o <<Call(Es8374Mute(FALSE))>>)

Es8374Stop(mode) ==
  When(mode = "line",
       <<Rd(\h1A), Wr(\h1A, \hFF, \h08), Wr(\h1A, \h9F, 0)>> \o SpeakerOff \o <<Rd(\h1C), Wr(\h1C, \hBF, 0), Put(\h1F, 0)>>)
    \o When(ForDac(mode),
            <<Call(Es8374Mute(TRUE)), Rd(\h1A), Wr(\h1A, \hFF, \h08), Wr(\h1A, \hDF, 0)>> \o SpeakerOff
              \o <<Rd(\h15), Wr(\h15, \hFF, \h20)>>)
    \o When(ForAdc(mode), <<Rd(\h10), Wr(\h10, \hFF, \hC0), Rd(\h21), Wr(\h21, \hFF, \hC0)>>)

\* es8374_ctrl_state: whatever is not a stop is a start.
Es8374CtrlState(mode, ctrl) == IF ctrl = "stop" THEN Es8374Stop(mode) ELSE Es8374Start(mode)

Es8374Deinit == <<Put(0, \h7F)>>

\* es8374_init: the chip is stopped, then reset and set up from the start.
Puts(pairs) == [i \in DOMAIN pairs |-> Put(pairs[i][1], pairs[i][2])]
Es8374InitReg(cfg) ==
  Puts(<<<<0, \h3F>>, <<0, 3>>, <<1, \h7F>>>>)
    \o <<Rd(\h0F), Wr(\h0F, \h7F, 0)>>
    \o Puts(<<<<\h6F, \hA0>>, <<\h72, \h41>>, <<9, 1>>, <<\h0C, \h22>>, <<\h0D, \h2E>>, <<\h0E, \hC6>>, <<\h0A, \h3A>>,
              <<\h0B, 7>>, <<9, \h41>>>>)
    \o <<Call(Es8374Clock(4, 256))>>
    \o Puts(<<<<\h24, 8>>, <<\h36, 0>>, <<\h12, \h30>>, <<\h13, \h20>>>>)
    \o <<Call(Es8374Fmt("adc", cfg.fmt, 3)), Call(Es8374Fmt("dac", cfg.fmt, 3))>>
    \o Puts(<<<<\h21, \h50>>, <<\h22, \hFF>>, <<\h21, \h14>>, <<\h22, \h55>>, <<8, \h21>>, <<0, \h80>>, <<\h25, 0>>, <<\h38, 0>>,
              <<\h14, \h8A>>, <<\h15, \h40>>, <<\h1A, \hA0>>, <<\h1B, \h19>>, <<\h1C, \h90>>, <<\h1D, 1>>, <<\h1F, 0>>,
              <<\h1E, \h20>>, <<\h28, 0>>, <<\h25, 0>>, <<\h38, 0>>, <<\h37, \h30>>, <<\h6D, \h60>>, <<\h71, 5>>, <<\h73, \h70>>>>)
    \o <<Call(Es8374DacOutput), Call(Es8374AdcInput), Call(Es8374SetVolume(0)), Put(\h37, 0)>>
Es8374Init(cfg) ==
  <<Call(Es8374Stop(cfg.mode)), Call(Es8374InitReg(cfg)), Call(Es8374MicGain(15)), Call(Es8374D2se),
    Call(Es8374Fmt(cfg.mode, cfg.fmt, 0)), Call(Es8374ConfigI2s(cfg.fmt, cfg.bits))>>

-----------------------------------------------------------------------------
(* What the registers mean. *)
Es8374Registers ==
  {0, 1} \union 6..\h15 \union {\h1A, \h1B, \h1C, \h1D, \h1E, \h1F, \h21, \h22, \h24, \h25, \h28, \h36, \h37, \h38, \h6D, \h6F}
    \union \h71..\h73
Es8374Settings ==
  [adcFmt |-> regs[\h10] & 3, dacFmt |-> regs[\h11] & 3,
   adcBits |-> (regs[\h10] & 28) \div 4, dacBits |-> (regs[\h11] & 28) \div 4,
   mute |-> (regs[\h36] & 32) \div 32, volume |-> Es8374GetVolume,
   adcPower |-> <<regs[\h10] & \hC0, regs[\h21] & \hC0>>, dacPower |-> regs[\h15] & 32,
   speaker |-> <<regs[\h1D], regs[\h1E]>>, in |-> regs[\h21] & \h3F, gain |-> regs[\h22],
   line |-> <<regs[\h1A] & 64, regs[\h1C] & 64>>, output |-> regs[\h1A] & 40]
=============================================================================
