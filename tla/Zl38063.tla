-------------------------------- MODULE Zl38063 --------------------------------
(***************************************************************************)
(* The host's side of the voice processor (zl38063.c, tw_spi_access.c and  *)
(* vprocTwolf_access.c under src/lib/audio_hal/driver/zl38063): unless a   *)
(* firmware runs already it is loaded record by record, saved to the       *)
(* processor's flash, started, configured and restarted. A function is a   *)
(* sequence of steps on the processor's registers and gives up at its      *)
(* first error. The processor works in its own time, commands fail, and    *)
(* the host may restart between any two steps.                             *)
(*                                                                         *)
(* Below the registers is the host bus interface (vproc_common.c): a       *)
(* register's address becomes command words of 16 bits, which are sent one *)
(* by one and followed by the data; a firmware gets into the memory        *)
(* through the registers of page 255, a window on it that is moved, record *)
(* by record or by the lines of a file of S-records.                       *)
(***************************************************************************)
EXTENDS Integers, Sequences, TLC

CONSTANTS Records,     \* bound: the records of the firmware
          Settings63,  \* bound: the settings of the configuration
          MaxPolls,    \* bound for TWOLF_MAILBOX_SPINWAIT
          MaxStarts,   \* bound: the initialisations and restarts of the host
          Registers,   \* the registers that are accessed
          WordCounts,  \* in how many words at a time
          Targets,     \* where the words of a firmware go: the upper and lower 16 bits of an address
          MaxAccesses  \* bound: the accesses

ASSUME ProcessorBounds == {Records, Settings63, MaxPolls, MaxStarts} \subseteq Nat \ {0}
ASSUME HbiAssumption ==
  /\ Registers \subseteq 0..65535 /\ WordCounts \subseteq 0..128 /\ MaxAccesses \in Nat
  /\ \A t \in Targets : t[1] \in 0..65535 /\ t[2] \in 0..65535

VARIABLES
  dsp,   \* the processor: held, its reset line; mode, what it runs; ram, the records it has in order; entry, the
         \* start address; loaded, it accepted them; config, the settings it has; active, they are in effect;
         \* flash, what is saved there; ready, its flash was found; cmd, flag, param, the registers of the host's
         \* commands; works, it carries out cmd; gain, a byte
  host,  \* todo, the steps left; polls of the one under way; answer of tw_upload_dsp_firmware; level, the
         \* volume set last in a processor that has not been reset since
  starts,  \* how many there were
  twolf,  \* the processor: page; dir, at, left: the access under way; mem, what was written where
  sender  \* todo, the words to send, a ToRead for one to receive; got, the words received; wants, what got must be;
          \* placed, what should be where; calls, for the bound

voice == <<dsp, host, starts>>
hbi == <<twolf, sender>>

\* A processor in its boot ROM.
Booted(flash) ==
  [held |-> FALSE, mode |-> "rom", ram |-> 0, entry |-> FALSE, loaded |-> FALSE, config |-> 0, active |-> FALSE,
   flash |-> flash, ready |-> FALSE, cmd |-> "idle", flag |-> FALSE, param |-> "D3D3", works |-> FALSE,
   gain |-> 0]
\* Out of reset it starts what its flash holds.
Powered(flash) ==
  IF flash.image THEN [Booted(flash) EXCEPT !.mode = "runs", !.ram = Records, !.entry = TRUE, !.loaded = TRUE,
                                            !.config = flash.config, !.active = flash.config = Settings63]
  ELSE Booted(flash)

NoLevel == 1000
Off == [todo |-> <<>>, polls |-> 0, answer |-> "none", level |-> NoLevel]
VoiceInit ==
  /\ dsp = Booted([image |-> FALSE, config |-> 0])
  /\ host = Off
  /\ starts = 0

-----------------------------------------------------------------------------
(* The steps of the host: write a register, wait for one to have a value, or check it once. *)
Put63(reg, v) == [op |-> "put", reg |-> reg, v |-> v]
Await(reg, v) == [op |-> "await", reg |-> reg, v |-> v]
Check(reg, v) == [op |-> "check", reg |-> reg, v |-> v]
Tell(op) == [op |-> op, reg |-> "none", v |-> "none"]

\* Fault: no wait for the command to complete.
CmdRegWrUnawaited(cmd) == <<Await("flag", FALSE), Put63("cmd", cmd), Put63("flag", TRUE)>>
\* VprocTwolfMailboxAcquire, the command, its flag and VprocTwolfcmdRegAcquire.
CmdRegWr(cmd) == <<Await("flag", FALSE), Put63("cmd", cmd), Put63("flag", TRUE), Await("cmd", "idle")>>
CheckCmdResult == Check("param", "good")

\* The same steps whether the records come from a table or, for VprocTwolfHbiBootMoreData, as lines of a file.
BootPrepare == <<Put63("clock", "boot"), Check("param", "D3D3")>>
BootConclude == CmdRegWr("load_cmp") \o <<CheckCmdResult>>
HbiBoot == BootPrepare \o [i \in 1..Records |-> Put63("ram", i)] \o <<Put63("entry", TRUE)>> \o BootConclude
SaveImgToFlash ==
  CmdRegWr("flash_init") \o <<Put63("param", "AA55")>> \o CmdRegWr("erase") \o CmdRegWr("img_save") \o <<CheckCmdResult>>
FirmwareStart == CmdRegWr("go")
LoadConfig == [i \in 1..Settings63 |-> Put63("config", i)]
\* Only where the flash holds an image; the command is flagged without a wait for the mailbox.
SaveCfgToFlash == CmdRegWr("flash_init") \o <<Tell("flashed")>>
SaveCfg == <<Put63("param", "one"), Put63("cmd", "cfg_save"), Put63("flag", TRUE), Await("cmd", "idle"), CheckCmdResult>>
Reset == <<Put63("soft", TRUE)>>

UploadDspFirmware == HbiBoot \o SaveImgToFlash \o FirmwareStart \o LoadConfig \o SaveCfgToFlash \o Reset

\* zl38063_init: an answer of the upload is not looked at; the reset line goes low at the end.
\* AppStatus stands for VprocTwolfGetAppStatus and the return it may lead to.
CodecInit == <<Tell("status")>> \o UploadDspFirmware \o <<Tell("done"), Tell("release")>>
Start63 ==
  /\ host.todo = <<>> /\ starts < MaxStarts
  /\ starts' = starts + 1
  /\ host' = [Off EXCEPT !.todo = CodecInit]
  /\ UNCHANGED dsp
CodecDeinit ==
  /\ host.todo = <<>> /\ host.answer # "none"
  /\ host' = Off
  /\ dsp' = [Booted(dsp.flash) EXCEPT !.held = TRUE, !.param = "dead"]
  /\ UNCHANGED starts
TwVol == <<-90, -45, -30, -23, -16, -10, -4, -1, 0, 1, 2, 3, 4, 5, 6>>
Clipped(volume) == IF volume < 0 THEN 0 ELSE IF volume > 100 THEN 100 ELSE volume
\* VprocTwolfSetVolume and VprocTwolfGetVolume: a byte, in both gains, that is read as a signed one.
ByteOf(vol) == vol % 256
SignedOf(gain) == IF gain > 127 THEN gain - 256 ELSE gain
\* zl38063_set_voice_volume sets an entry of the table.
SetVoiceVolume ==
  \E volume \in {-1, 0, 6, 50, 100, 101} :
    /\ host.todo = <<>> /\ host.answer # "none" /\ ~dsp.held /\ dsp.mode = "runs"
    /\ host' = [host EXCEPT !.level = volume]
    /\ dsp' = [dsp EXCEPT !.gain = ByteOf(TwVol[Clipped(volume) \div 7 + 1])]
    /\ UNCHANGED starts
\* zl38063_get_voice_volume finds its place in the table.
GetVoiceVolume == 7 * ((CHOOSE i \in DOMAIN TwVol : TwVol[i] = SignedOf(dsp.gain)) - 1)

HostRestarts ==
  /\ host.todo # <<>> /\ starts < MaxStarts
  /\ starts' = starts + 1
  /\ host' = Off
  /\ UNCHANGED dsp

-----------------------------------------------------------------------------
Op == host.todo[1]
Goes == host' = [host EXCEPT !.todo = Tail(@), !.polls = 0]
\* Whatever the upload returns, zl38063_init releases the reset line.
Answers(answer) == host' = [host EXCEPT !.todo = <<Tell("release")>>, !.polls = 0, !.answer = answer]
Busy(op) == host.todo # <<>> /\ Op.op = op /\ UNCHANGED starts

\* What a write of the host does to the processor. One that is held in reset or has not come back from a
\* reset takes no notice; a reset into the boot ROM may take too long.
Dead == dsp.held \/ dsp.mode = "dead"
Wrote(reg, v) ==
  IF Dead THEN {dsp}
  ELSE CASE reg = "clock" -> {Booted(dsp.flash), [Booted(dsp.flash) EXCEPT !.mode = "dead", !.param = "dead"]}
         [] reg = "ram" -> {[dsp EXCEPT !.ram = IF @ = v - 1 THEN v ELSE @]}
         [] reg = "entry" -> {[dsp EXCEPT !.entry = TRUE]}
         [] reg = "config" -> {[dsp EXCEPT !.config = IF @ = v - 1 \/ v = 1 THEN v ELSE @, !.active = FALSE]}
         [] reg = "soft" -> {[dsp EXCEPT !.active = dsp.mode = "runs" /\ dsp.config = Settings63]}
         [] reg = "cmd" -> {[dsp EXCEPT !.cmd = v]}
         [] reg = "flag" -> {[dsp EXCEPT !.flag = TRUE]}
         [] reg = "param" -> {[dsp EXCEPT !.param = v]}
Writes == Busy("put") /\ dsp' \in Wrote(Op.reg, Op.v) /\ Goes

Polls ==
  /\ Busy("await")
  /\ \/ dsp[Op.reg] = Op.v /\ Goes
     \/ dsp[Op.reg] # Op.v /\ host.polls < MaxPolls /\ host' = [host EXCEPT !.polls = @ + 1]
     \/ dsp[Op.reg] # Op.v /\ host.polls = MaxPolls /\ Answers("failed")
  /\ UNCHANGED dsp
Checks ==
  /\ Busy("check")
  /\ IF dsp[Op.reg] = Op.v THEN Goes ELSE Answers("failed")
  /\ UNCHANGED dsp

\* VprocTwolfGetAppStatus: nothing is loaded where something runs. A dead line reads as anything.
AppStatus ==
  /\ Busy("status")
  /\ \/ (Dead \/ dsp.mode = "rom") /\ Goes
     \/ (Dead \/ dsp.mode = "runs") /\ Answers("skipped")
  /\ UNCHANGED dsp
Flashed ==
  /\ Busy("flashed")
  /\ host' = [host EXCEPT !.todo = IF dsp.ready /\ dsp.flash.image THEN SaveCfg \o Tail(@) ELSE Tail(@)]
  /\ UNCHANGED dsp
UploadDone == Busy("done") /\ Answers("done") /\ UNCHANGED dsp
Releases ==
  /\ Busy("release")
  /\ Goes
  /\ dsp' = IF dsp.held THEN Powered(dsp.flash) ELSE dsp

-----------------------------------------------------------------------------
(* The processor. *)
TakesCommand ==
  /\ ~Dead /\ dsp.flag /\ ~dsp.works
  /\ dsp' = [dsp EXCEPT !.flag = FALSE, !.works = TRUE]
  /\ UNCHANGED <<host, starts>>

\* What the command does, or does not; only what a later one needs is looked at.
Effect(fine) ==
  CASE dsp.cmd = "load_cmp" -> [dsp EXCEPT !.loaded = fine, !.param = IF fine THEN "good" ELSE "bad"]
    [] dsp.cmd = "flash_init" -> [dsp EXCEPT !.ready = fine, !.param = IF fine THEN "good" ELSE "bad"]
    [] dsp.cmd = "erase" ->
         IF fine THEN [dsp EXCEPT !.flash = [image |-> FALSE, config |-> 0], !.param = "good"] ELSE [dsp EXCEPT !.param = "bad"]
    [] dsp.cmd = "img_save" ->
         IF fine THEN [dsp EXCEPT !.flash.image = TRUE, !.param = "good"] ELSE [dsp EXCEPT !.param = "bad"]
    [] dsp.cmd = "go" -> [dsp EXCEPT !.mode = IF fine THEN "runs" ELSE @, !.param = "good"]
    [] dsp.cmd = "cfg_save" ->
         IF fine THEN [dsp EXCEPT !.flash.config = dsp.config, !.param = "good"] ELSE [dsp EXCEPT !.param = "bad"]
    [] OTHER -> dsp
Able ==
  CASE dsp.cmd = "load_cmp" -> dsp.ram = Records /\ dsp.entry
    [] dsp.cmd = "erase" -> dsp.ready /\ dsp.param = "AA55"
    [] dsp.cmd = "img_save" -> dsp.ready /\ dsp.loaded /\ ~dsp.flash.image
    [] dsp.cmd = "go" -> dsp.loaded
    [] dsp.cmd = "cfg_save" -> dsp.ready /\ dsp.flash.image /\ dsp.param = "one"
    [] OTHER -> TRUE
FinishesCommand ==
  /\ ~Dead /\ dsp.works
  /\ \E fine \in {Able} \union (IF dsp.cmd = "go" THEN {} ELSE {FALSE}) :
       dsp' = [Effect(fine) EXCEPT !.cmd = "idle", !.works = FALSE]
  /\ UNCHANGED <<host, starts>>
Recovers ==
  /\ dsp.mode = "dead" /\ ~dsp.held
  /\ dsp' = Booted(dsp.flash)
  /\ UNCHANGED <<host, starts>>

VoiceNext ==
  \/ Start63 \/ CodecDeinit \/ HostRestarts \/ SetVoiceVolume
  \/ Writes \/ Polls \/ Checks \/ AppStatus \/ Flashed \/ UploadDone \/ Releases
  \/ TakesCommand \/ FinishesCommand \/ Recovers

-----------------------------------------------------------------------------
\* An upload that reports success leaves the processor running the whole firmware with the whole configuration
\* in effect and both in its flash, whatever was cut short, timed out or failed before it; only the failure of
\* the second search for the flash goes unseen, and costs the copy of the configuration. The volume of a
\* processor that runs reads back as it was set, to the steps of the table.
StepsAreWhole ==
  /\ host.answer = "done" =>
       /\ dsp.mode = "runs" /\ dsp.ram = Records /\ dsp.entry /\ dsp.config = Settings63 /\ dsp.active
       /\ dsp.flash.image /\ (dsp.ready => dsp.flash.config = Settings63)
  /\ host.level # NoLevel => GetVoiceVolume = 7 * (Clipped(host.level) \div 7)

-----------------------------------------------------------------------------
(* The host bus interface. *)
ToRead == -1
Nothing == [place \in {} |-> 0]
HbiBegins ==
  /\ twolf = [page |-> 0, dir |-> "none", at |-> 0, left |-> 0, direct |-> TRUE, mem |-> Nothing]
  /\ sender = [todo |-> <<>>, got |-> <<>>, wants |-> <<>>, placed |-> Nothing, calls |-> 0]

-----------------------------------------------------------------------------
(* The processor, which knows its registers by page and offset. *)
Reg(addr) == <<"reg", 0, addr>>
BaseHi == 12
BaseLo == 14
Held(place) == IF place \in DOMAIN twolf.mem THEN twolf.mem[place] ELSE 0
\* Page 255 shows the 256 bytes of the memory its base is in.
Place(c) ==
  CASE c.direct -> Reg(2 * c.at)
    [] ~c.direct /\ c.page = 255 -> <<"ram", Held(Reg(BaseHi)), (Held(Reg(BaseLo)) \div 256) * 256 + 2 * c.at>>
    [] OTHER -> Reg(256 * (c.page + 1) + 2 * c.at)
Receives(word) ==
  IF twolf.left > 0
  THEN [twolf EXCEPT !.mem = Place(twolf) :> word @@ @, !.at = @ + 1, !.left = @ - 1]
  ELSE CASE word >= 65024 -> [twolf EXCEPT !.page = word % 256]
         [] word \in 64768..65023 -> twolf
         [] OTHER -> [twolf EXCEPT !.direct = word >= 32768, !.at = (word \div 256) % 128, !.left = (word % 128) + 1,
                                   !.dir = IF (word \div 128) % 2 = 1 THEN "write" ELSE "read"]

-----------------------------------------------------------------------------
(* The host's words. *)
DirectRead == 32768
SelectPage == 65024
Write1 == 128
\* Fault: no page is exempt.
HbiPageAll(page) == page - 1
HbiPage(page) == IF page = 255 THEN page ELSE page - 1
\* spis_tw_hbi_wr16_cmd (access: Write1) and spis_tw_hbi_rd16_cmd (0).
HbiCmd(addr, n, access) ==
  LET page == addr \div 256
      offset == (addr % 256) \div 2
      cmd == offset * 256 + access + n - 1
  IN IF page = 0 THEN <<DirectRead + cmd>> ELSE <<SelectPage + HbiPage(page), cmd>>
\* VprocTwolfHbiWrite refuses what is too long for it, VprocTwolfHbiRead does not.
HbiWrite(addr, words) ==
  IF Len(words) \in 1..126 THEN HbiCmd(addr, Len(words), Write1) \o words ELSE <<>>
HbiRead(addr, n) == HbiCmd(addr, n, 0) \o [i \in 1..n |-> ToRead]
\* HbiSrecBoot_alt for a record.
WindowAt(to) == HbiWrite(BaseHi, <<to[1], to[2]>>)
Record63(to, words, useTarget) ==
  IF words = <<>> THEN <<>>
  ELSE (IF useTarget THEN WindowAt(to) ELSE <<>>) \o HbiWrite(65280 + (to[2] % 256), words)
\* spisTwBootWrite for a line: its type, address and number of bytes.
Line63(type, to, words) ==
  CASE type \in {0, 4, 5, 6} -> <<>>
    [] type \in {7, 8, 9} -> HbiWrite(300, <<to[1], to[2]>>)
    [] OTHER -> WindowAt(to) \o HbiWrite(65280 + (to[2] % 256), words)

-----------------------------------------------------------------------------
Idle63 == sender.todo = <<>> /\ sender.calls < MaxAccesses
Words(n) == [i \in 1..n |-> 1000 * (sender.calls + 1) + i]
PutsAt(addr, words) == [place \in {Reg(addr + 2 * i) : i \in 0..(Len(words) - 1)} |-> words[(place[3] - addr) \div 2 + 1]]
Loads(to, words) ==
  [place \in {<<"ram", to[1], to[2] + 2 * i>> : i \in 0..(Len(words) - 1)} |-> words[(place[3] - to[2]) \div 2 + 1]]
Starts63(todo, wants, places) ==
  /\ sender' = [todo |-> todo, got |-> <<>>, wants |-> wants, placed |-> places @@ sender.placed, calls |-> sender.calls + 1]
  /\ UNCHANGED twolf
\* An access stays in its page.
Fits(addr, n) == (addr % 256) + 2 * n <= 256
WritesRegisters(addr, n) ==
  /\ Idle63 /\ Fits(addr, n)
  /\ Starts63(HbiWrite(addr, Words(n)), <<>>, IF n \in 1..126 THEN PutsAt(addr, Words(n)) ELSE Nothing)
Wanted(addr) == IF Reg(addr) \in DOMAIN sender.placed THEN sender.placed[Reg(addr)] ELSE 0
ReadsRegisters(addr, n) ==
  /\ Idle63 /\ n > 0 /\ Fits(addr, n)
  /\ Starts63(HbiRead(addr, n), [i \in 1..n |-> Wanted(addr + 2 * (i - 1))], Nothing)
\* A record that gives no address goes on in the 256 bytes of the last.
LoadsRecord(to, n, useTarget) ==
  /\ Idle63 /\ n \in 1..126 /\ Fits(to[2], n)
  /\ ~useTarget => <<to[1], to[2] \div 256>> = <<Held(Reg(BaseHi)), Held(Reg(BaseLo)) \div 256>>
  /\ Starts63(Record63(to, Words(n), useTarget), <<>>, Loads(to, Words(n)))
LoadsLine(type, to, n) ==
  /\ Idle63 /\ n \in 1..126 /\ Fits(to[2], n)
  /\ Starts63(Line63(type, to, Words(n)), <<>>,
              CASE type = 3 -> Loads(to, Words(n)) [] type = 7 -> PutsAt(300, to) [] OTHER -> Nothing)
\* VprocTwolfHbiInit: the bus is set up but for the first time only, and configured.
HbiInit == Idle63 /\ Starts63(<<64768 + 128>>, <<>>, Nothing)

\* VprocHALWrite and VprocHALRead.
HALWrite ==
  /\ sender.todo # <<>> /\ Head(sender.todo) # ToRead
  /\ twolf' = Receives(Head(sender.todo))
  /\ sender' = [sender EXCEPT !.todo = Tail(@)]
HALRead ==
  /\ sender.todo # <<>> /\ Head(sender.todo) = ToRead
  /\ sender' = [sender EXCEPT !.todo = Tail(@),
                              !.got = Append(@, IF twolf.dir = "read" /\ twolf.left > 0 THEN Held(Place(twolf)) ELSE 0)]
  /\ twolf' = [twolf EXCEPT !.at = @ + 1, !.left = @ - 1]

HbiNext ==
  \/ \E addr \in Registers, n \in WordCounts : WritesRegisters(addr, n) \/ ReadsRegisters(addr, n)
  \/ \E to \in Targets, n \in WordCounts : LoadsLine(0, to, n) \/ LoadsLine(3, to, n) \/ LoadsLine(7, to, n)
  \/ \E to \in Targets, n \in WordCounts, useTarget \in BOOLEAN : LoadsRecord(to, n, useTarget)
  \/ HbiInit \/ HALWrite \/ HALRead

-----------------------------------------------------------------------------
\* Whatever pages and windows the accesses before it have left chosen, each word that was written stands in the
\* register it was meant for, each word of a record or a line at its address in the memory, and nothing else
\* was touched but the base of the window; what is read is what was written.
WordsLand ==
  sender.todo = <<>> =>
    /\ twolf.left = 0 /\ sender.got = sender.wants
    /\ \A place \in DOMAIN sender.placed \cup DOMAIN twolf.mem :
         place \notin {Reg(BaseHi), Reg(BaseLo)} =>
           place \in DOMAIN sender.placed \cap DOMAIN twolf.mem /\ twolf.mem[place] = sender.placed[place]
=============================================================================
