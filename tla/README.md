# A verification project for esp-adf-aroma

esp-adf-aroma is the firmware of an aroma diffuser with an alarm clock: an
ESP32 application (`src/src/`) on top of the audio development framework it
carries along (`src/lib/`). This directory holds TLA+ models of its parts, the
TLC configurations that check them on small instances, and proofs, checked by
TLAPS, of what holds for every instance.

    tlc -workers 2 -config RingBuf.cfg RingBuf.tla     # one run
    tlapm RingBufProofs.tla                            # the proofs of one module

`PROJECT.json` lists the components, the runs with the properties each checks,
the source lines every definition models, a faulty form of a definition that
breaks each property, the disagreements found between code and documentation,
the hazards of the code and the theorems. Paths below are relative to `src/`.

Contents: 1 Inventory; 2 Plan; 3 The modules and the code; 4 Runs, bounds and
what they show; 5 Faults; 6 Proofs; 7 Not modelled.

## 1. Inventory

### The framework's core: `lib/audio_pipeline`

**Byte ring** (`ringbuf.c`). State: memory and two offsets into it, a fill
count, the done flag, a mutex, and on each side a binary semaphore and a
one-place abort queue joined in a queue set. Operations: `rb_read`, `rb_write`,
`rb_done_write` by the two elements it joins; `rb_abort`, `rb_reset` by anybody.
Hard: everything the two sides look at outside the mutex; wake-ups; partial
reads; the wrap; a reset while somebody is inside. Correct when no byte is lost,
repeated or reordered and nobody sleeps for ever for nothing.

**Audio element** (`audio_element.c`). State: `state`, `is_open`, `is_running`,
`task_run`, the wait time of the command queue, the queue, an event group, the
task itself. Operations: `run`, `resume`, `pause`, `stop`, `wait_for_stop`,
`terminate`, `deinit` by other tasks; command handlers and the process step in
the element's own. Hard: callers test the element's fields without a lock while
its task changes them, bits outlive what they announce, waits run out after
2000 ms, a full queue drops commands, the task sends commands to itself. Correct
when the device is opened and closed in turn, a task polls only while it has
work, and an answer is about the call that was made.

**Event interface** (`audio_event_iface.c`). State: a command queue, an internal
and an external queue, and a queue set that joins the queues of everything
listened to. Operations: `cmd`, `sendout`, `discard`, `listen`, `set_listener`,
`remove_listener`. Hard: membership of a set and content of the queues are
changed separately; a full external queue loses the event; an owner that
discards its external queue while it is a member leaves stale entries in the
set. Correct when a listener gets every event that was accepted, in order, and
`listen` returns when there is one.

**Audio pipeline** (`audio_pipeline.c`). State: lists of elements and of rings,
the linked flag, the listener, the state of its first element. Operations:
`register`, `unregister`, `link`, `link_more`, `link_insert`, `unlink`, `deinit`;
`run`, `pause`, `resume`, `stop`, `wait_for_stop`, `terminate`. Hard: each of the
latter goes through the elements one by one while their tasks run; a late STOP of
one element aborts a ring its neighbour has already been resumed on; rings freed
by `unlink` stay referenced; a link that fails half-way leaves what it has done.
Correct when a stopped pipeline can be run again and plays all its input, and
when the elements of a chain share just the rings between them.

### Streams and codecs: `lib/audio_stream`, `lib/esp_codec`, `lib/esp_http_client`

**HTTP stream** (`http_stream.c`): an element that plays what a url answers; a
playlist of at most 20 tracks, read line by line through a small buffer, whose
element starts itself again for the next track. **HTTP client**
(`esp_http_client.c`, `http_header.c`): a connection kept from request to
request, redirections, authentication, `perform`, a list of headers written
in parts. **Transports** (`transport*.c`): a socket and, for ssl, contexts that
must be given back on every way. **File stream** (`fatfs_stream.c`): position
kept over pauses, the header of a recording written when it closes. **I2S
stream** (`i2s_stream.c`): DMA buffers that another task's `set_clk` may empty.
**Codecs** (`wav_*.c`, `filter_resample.c`): a header kept for itself, a buffer
with a rest in it. Hard: what a pause keeps and a stop forgets; answers left
over from the request before; cuts at the end of a buffer; sockets closed twice.
Correct when what is handed on is what came, once and in order.

### Peripherals: `lib/esp_peripherals`, `lib/audio_service`

**Peripheral service** (`esp_peripherals.c`). State: a list of peripherals, an
event group each, one task, one command queue. Hard: the list is changed by
callers while the task walks it; STOPPED is cleared when the task first runs, so
a destroy can overtake a start. **Buttons and touch keys** (`button.c`,
`touch.c`): debounce machines driven by timers and by interrupts, both
through a queue of 5. **Wi-Fi** (`periph_wifi.c`): connection and smart
configuration, event bits set by the system's event task and awaited by callers.
**LED, SD card, console**: a blink table changed by timer and callers; mount and
unmount on card detection; a task of its own. **Bluetooth service**
(`bluetooth_service.c`, `bt_keycontrol.c`): keys sent as press and release with
a timer, in two tasks. Correct when what is freed is over, what is told is what
happened, and what is retried succeeds in the end.

### The application: `src/`

**Control** (`aroma_view.c`, `main.c`): two programs (sleep, get-up) started by
the clock, three keys per page, the view task, saving the configuration
(`aroma_config.h`: one file, truncated and rewritten). **Player** (`aroma.c`): a
pipeline from a file in flash to i2s, with a position shared by the reading
callback and the controlling tasks. **Spray and light** (`aroma_spray.c`,
`aroma_ledc.c`): tasks that count intervals which other tasks change. Hard: all of it
shares variables without a lock, sleeps in the middle of a step, and measures
time from an instant that it moves. Correct when stop means stop, an alarm comes
once, a program and a spell last as long as they should.

### The devices: `src/`, `lib/audio_hal`

**Clock** (`PCF8563.c`, `timegm.c`): BCD registers, calendar arithmetic, a
restart when the chip cannot be trusted. **Display** (`tm1620.c`): frames
written bit by bit by several tasks. **Codec HAL and drivers** (`audio_hal.c`,
`es8388.c`, `es8374.c`): fields of shared registers read, changed and written
back. **Voice processor** (`zl38063/`): firmware loaded record by record through a
paged interface, saved to flash. Correct when a call that says OK has done what it
is for and nothing else, and an interrupted upload is begun again rightly.

### How they meet

- element - ring - element: a byte ring joins neighbours; `stop`, `reset` and
  `finish` of an element abort, reset or end its rings.
- element - event interface: commands in, status reports out; the pipeline makes
  every element's external queue a member of its listener's set.
- pipeline - elements: the pipeline calls the elements' functions in list order.
- streams, codecs - element: they are the `open`, `process`, `close` and
  `destroy` an element calls; the http stream calls the client, the client a
  transport.
- application - pipeline: the player waits for `FINISHED` reports and calls
  stop, wait and run in reply to keys and to the alarm programs.
- timers, interrupts, system events - peripherals: commands to one queue, served
  by one task, which sends events out to the application's view task.
- view task, main task - spray, light, player, display, clock: commands through
  shared variables, no locks.

## 2. Plan

| # | modules | what | state |
|---|---|---|---|
| 1 | `RingBuf`, `ByteStream`, `RingBufProofs` | the ring, its abstract stream, proofs | done |
| 2 | `AudioElement` | the element and its callers | done |
| 3 | `AudioPipeline` | elements and rings composed, the functions of the pipeline | done |
| 4 | `EventIface` | queue sets, listening, adding, removing | done |
| 5 | `EspPeriph`, `Periph*`, `Peripherals` | the service and one peripheral of each kind | done |
| 6 | `Aroma*`, `Application` | programs, keys, saved times, spray, lamp, music | done |
| 7 | `HttpClient`, `HttpStream`, `HttpHeader`, `PlaylistLines`, `Transport` | http, from the playlist to the socket | done |
| 8 | `FatfsStream`, `I2sStream`, `EspCodec`, `PipelineLink`, `Streams` | the other streams, codecs, putting a pipeline together | done |
| 9 | `Calendar`, `RealTimeClock`, `SegmentDisplay`, `CodecBus`, `Es8388`, `Es8374`, `AudioHal`, `Zl38063`, `Devices` | the drivers | done |
| 10 | `AudioElementProofs`, `EventIfaceProofs`, `ApplicationProofs`, `PeripheralsProofs`, the wake-ups in `RingBufProofs` | proofs of 1, 2, 4, 5, 6 | done |
| 11 | `AudioPipelineProofs`, `StreamsProofs`, `DeviceProofs` | proofs of 3, 8, of the transports, the track list, the clock and the display | done |

Theorems that would be worth having next, each of which a run checks today:

1. `BodiesInOrder` for any web: the body is parsed with a fold over the sequence that
   came, which first has to be stated as a recursive function of the place;
2. `UploadIsWhole` and `DoneAsAsked`, whose actions compute long sequences of transfers.

## 3. The modules and the code

A module has the name of the file or of the part it models, its definitions
those of the functions where there is one function to an action; where a
function is several actions, their names tell what each does. `PROJECT.json`,
"map", has the lines of each.

### RingBuf - `ringbuf.c`

| state | code |
|---|---|
| `rp`, `wp` | `p_r - p_o`, `p_w - p_o`; both may rest at `Size`, as the code's `>` lets them |
| `fill`, `done`, `mem` | `fill_cnt` (modulo `Word`), `is_done_write`, the memory |
| `mutex` | `task_block` |
| `readQ`, `writeQ` | `can_read` and `abort_read` with `read_set`; `can_write` and `abort_write` with `write_set` |
| `rd`, `wr` | the locals of the `rb_read` and `rb_write` in progress: place, bytes still needed, size of this pass, total so far, result |
| `ctl` | a third task in `rb_abort` or `rb_reset` |
| `sent`, `recv` | history: bytes accepted and delivered since the last reset |

A call is cut where somebody else can see it: taking the mutex and sizing the
pass (`RLock`, `WLock`), copying and releasing (`RCopy`, `WCopy`), testing the
done flag after the release (`RCheck`, `WCheck`), selecting from the set
(`RSelect`, `WSelect`), taking the member (`RTake`, `WTake`), running out of time
(`RTimeout`, `WTimeout`) and the common exit with its wake-up (`RExit`, `WExit`).
`rb_abort` is two steps, one per side; `rb_reset` three: the fields, the two
draining loops, the give. `ResetBegin` is the reset of `wait_for_stop`, with
nobody inside.

`ByteStream` is what the ring promises: accept within the capacity, deliver in
order, start afresh. `Implements` maps `sent` and `recv` to its variables.

### AudioElement - `audio_element.c`

`el[x]` is the element: `state`, `isOpen`, `isRunning`, `taskRun` are the fields
of the code; `wait` the time-out of the command queue (`"none"` is 0); `queue` the
queue, dropped into when full (`audio_event_iface_cmd` does not wait); `bits` the
event group; `task[t]` the place of a task; `device` what the `open` and `close`
callbacks act on; `freed` is set by `deinit`. `api[c]` is the function a caller is
blocked in and the last result it was given.

| actions | code |
|---|---|
| `TaskCreated` `TaskBoots` `Poll` `LeavesLoop` `Ends` | `audio_element_task` and its loop |
| `OnError` `OnFinish` `OnStop` `OnStopFinished` `Halts` `OnPause` `Pauses` `OnResumeRunning` `OnResume` `OpenSucceeds` `OpenRefused` `Starts` `OnDestroy` | `audio_element_on_cmd`, cut where it publishes a field or a bit before it is done |
| `SkipsProcess` `EntersProcess` `ResetState` `Works` | `audio_element_process_state_running`; `AfterProcess` is what it and `audio_element_input`/`_output` do with each result |
| `Run` `CreateTask` `RunsAlready` | `audio_element_run`, test and creation apart |
| `Pause*` `Resume*` `Stop*` `WaitForStop` `Terminate*` | the functions of those names, one action per return |
| `Deinit` `DeinitTerminates` `DeinitWaits` `DeinitFrees` | `audio_element_deinit` |
| `BitSeen` `TimesOut` | a wait on an event bit is answered, or its 2000 ms run out |

### AudioPipeline - `audio_pipeline.c`, while it runs

The elements are an `INSTANCE` of `AudioElement` (`E`); every step of theirs is a
step of `E` together with what it does to the rings, which `AudioElement` leaves
out. Element `i` writes ring `i` and reads ring `i - 1`.

| actions | code |
|---|---|
| `ReadSource` `ReadRing` `StarvedGoesOn` | `audio_element_input` from a callback; `rb_read` up to the release of the mutex; the test of the done flag and the wait |
| `WriteRing` `Play` | `audio_element_output` into a ring (`rb_write`), into the codec |
| `OnError` `OnStop` `OnResume` | the handlers with their `abort_*_ringbuf`, `reset_output_ringbuf` |
| `Quiet` | the handlers that touch no ring |
| `Begin` `BeginsNothing` | the application calls a function of the pipeline |
| `CallRun` `CallResume` `Call` `Answer` `ResetRings` | the next call of that function, on the next element; it returns |
| `Started` `Stopped` | the ends of `audio_pipeline_run` and `_wait_for_stop` |

`Program` gives each function as the sequence of its calls, `pipe.todo` is what is
left of it. A ring holds blocks and not bytes: that it is a faithful queue at
that grain is what `RingBuf` shows. Kept from `RingBuf` is what its proofs do
*not* exclude: the reader decides that the ring is empty and looks at the done
flag later. A reset of a ring with somebody in the middle of a copy is not kept;
the properties that would meet it are claimed only of pipelines that were never
stopped.

### EventIface - `audio_event_iface.c`

| state | code |
|---|---|
| `queue` | the `external_queue` of each source |
| `member`, `set`, `cap` | which queues are in the listener's `queue_set`, what it lists, its length (0: no set) |
| `list` | `listening_queues` |
| `task` | the listener's task: where in a change it is, what is left of the list, the last result |
| `sent`, `since`, `heard` | history: events accepted, the number of them when the source was added, events heard since |

A change (`Change`, then `Drain`, `Detach`, `Rebuild`, `Empty`, `Add`, `Changed`) is
`audio_event_iface_set_listener` or `_remove_listener`: drain, take every queue
out, make a new set, empty and put in every queue. It is cut wherever a source can
send in between. What a queue set does is external, from FreeRTOS: a queue in a set
is entered in it with every message, receiving from the queue takes no entry away,
and only an empty queue can be added or removed. A source is added when it is not
in the list and removed when it is.

### EspPeriph, Periph*, Peripherals - `lib/esp_peripherals`, `lib/audio_service`

`EspPeriph` is the service: `obj` is `g_esp_periph_obj`, `periph[p]` an
`esp_periph`, `task` the place of `esp_periph_task` and the peripheral in its
hands, `caller` the application. The task waits in `"init"`, `"run"` or
`"destroy"` until the peripheral's own module takes `InitReturns`, `RunReturns`
or `DestroyReturns`. Each of those modules extends it by one peripheral:

| module | code | tasks that meet in it |
|---|---|---|
| `PeriphButton` | `periph_button.c`, `button.c` | interrupt, 50 ms timer, service |
| `PeriphTouch` | `periph_touch.c`, `touch.c` | 150 ms timer that writes the one result, service that reads it |
| `PeriphWifi` | `periph_wifi.c` | event task, reconnect timer, a caller in `config_start`, service; the station's stack is external |
| `PeriphLed` | `periph_led.c` | handler of the timer, callers of `blink` and `stop` |
| `PeriphSdCard` | `periph_sdcard.c`, `sdcard.c` | interrupt, timer, service; the card itself |
| `PeriphConsole` | `periph_console.c` | its task, service |
| `PeriphBluetooth` | `bluetooth_service.c`, `bt_keycontrol.c` | application (keys), stack (answers), timer; the phone is external |

`Peripherals` composes the service with the peripherals of the board chosen at
the start.

### Aroma*, Application - `src/`

`AromaControl` is `aroma_view.c` with `aroma_config.h`: `aroma` has the variables
the tasks share, by their names; `view` and `main` are where the two tasks are;
`file` is the file of the saved times, unreadable after a truncation that a crash
left; `clock` counts half minutes. A task goes on in one step to where it next waits:
`Iterate` is an iteration of the view up to its first wait, which is the 900 ms delay
of a repeat (`"delays"`, then `"repeats"` in the `aroma_music` after it), or
`aroma_music` waiting for the elements to pause (`"pauses"`) or `aroma_play` waiting for
their tasks to be made (`"runs"`) where the music starts; `DelayEnds`, `RepeatEnds` and
`StartEnds` go on from there with the variables the other task left behind. A key that
starts a program waits in the same two places (`HeldStarts`) and the menu shows each
time for a second (`SetShows`). The keys, saving (open, write, set) and booting are
actions; `Noted` keeps in `seen` what the properties need.
`AromaSpray` is the spray task cut at every look at a shared variable and every
caller of its mode functions; `AromaLight` the fade task, the lamp key and the
commands of the programs; `AromaMusic` the reading callback cut around its load and
store of `music_pos` and the functions that exchange the track under it.
`Application` checks the four side by side.

### Http*, PlaylistLines, Transport - `http_stream.c`, `lib/esp_http_client`

`HttpClient` is one client: `client` has its fields and those of its response,
`wire` what the connection has brought, `call` the call in progress, which is cut
wherever it waits for the connection. A body is the sequence of its units, a web
(`WebMC`) says what each url answers. `HttpStream` is the element above it (open
with the hook's answers, read, write, next_track, close and the list of tracks, and
the four places from which open does not come back, which `Endless` names),
the end of `HttpClient` has the other user, `esp_http_client_perform` with redirections
and authentication; a behaviour has one of them. `HttpHeader` is the list of
headers: every edit, every split over buffers. `PlaylistLines` is
`_get_line_in_buffer` and `_client_read_line`, on every text up to a length.
`Transport` has the sockets: who holds each number, which contexts of mbedtls are
set up, over connects that fail at each of their steps, polls, reads, closes and
the cleaning up of the list, while other tasks use the same numbers.

### FatfsStream, I2sStream, EspCodec, PipelineLink, Streams

`FatfsStream` is driven by the commands of its element, on a card that may be
full. `I2sStream` has the writing task, the port and the task that sets the clock,
cut where each copies or stores the info; a part of its own is what is done to
the samples of one buffer. `EspCodec` has the WAV decoder, the WAV encoder and the
resample filter in both directions. `PipelineLink` is the other half of
`audio_pipeline.c`: every order of calls that set a pipeline up, each of which may
fail half-way. `Streams` chooses a part at the start and steps that one.

### Calendar ... Zl38063, Devices - the drivers

`Calendar` walks every day of a year and compares `timegm` and the conversions to
and from the registers of the PCF8563 with the walk. `RealTimeClock` has the chip,
the system's clock and two tasks in `sync_time` and `set_local_time`.
`SegmentDisplay` sends the frames of `tm1620.c` half byte by half byte to a chip.
`CodecBus` turns a driver's function into a sequence of register transfers, one of
which may fail, `Es8388` and `Es8374` give those sequences and `AudioHal` calls
them. `Zl38063` is the upload of firmware and configuration against a processor
that works in its own time; the end of it packs registers and records into words
(`vprocTwolf_access.c`).
`Devices` chooses a part at the start.

## 4. Runs, bounds and what they show

`PROJECT.json` has a sentence on each run. Only `ring` claims absence of
deadlock: every other model may stop legitimately (bounds reached, everything at
rest), and what must still happen is stated as liveness. Parts that share nothing
in the code (the drivers, the streams, the four tasks of the application) are
chosen at the start of a behaviour and checked in one run, each with its own
properties.

| run | instance | distinct states |
|---|---|---|
| `ring` | 5 bytes, granule 4, reads of 1 and 5, writes of 2 and 5, 7 bytes between resets, one abort, one reset, waits may run out | 330 000 |
| `element` | two callers, queue of 2, every outcome, 4 calls | 660 000 |
| `element_live` | one caller, two tasks, queue of 2, no time-outs, 5 calls | 47 000 |
| `event` | two sources, queues of 2, a first set of 2, 4 events of each, 3 changes | 230 000 |
| `pipeline` | two elements, ring of 1 block, track of 2, second element impatient, open may fail, 3 functions | 165 000 |
| `peripherals` | seven boards, queue of 2, 4 calls of the application | 330 000 |
| `application` | a day of three hours of 8 minutes, 9 ticks, 2 keys, a power loss | 3 700 000 |
| `streams` | twelve urls, files of 3 units, songs of 4, 2 DMA buffers, 3 elements | 688 000 |
| `devices` | 1970 to 2099, two tubes, 3 calls of a codec, 3 records | 590 000 |
| `pipeline_wait`, `alarm`, `http_host` | the disagreements below | |

Why these bounds are enough for what is asked:

- **Ring**: 5 is not a multiple of the granule, so both a full ring with a partial
  granule and a wrapped copy occur; 7 bytes make both pointers wrap; two write
  lengths and two read lengths give partial passes on both sides. One abort and
  one reset meet every place of the other two tasks. `Word` = 64 is enough to see
  `fill_cnt` go below zero. What depends on the size is proved for every size.
- **Element**: a queue of 2 stands for the 5 of the code, so that a full queue comes
  within 4 calls; `pipeline` uses 5. With one task, a second one could not be seen;
  `element_live` has room for two and shows that there is never more than one
  while no wait runs out.
- **Pipeline**: one block of room and a track of two make the writer block with a
  block in hand. The second element's finite `input_wait_time` is that of the
  i2s stream (`i2s_stream.c:122`); every other element has the infinite one of
  `audio_element.c:790`, the subject of `pipeline_wait`. `Patient`: the application
  calls the next function when the elements have carried out the last. Without it,
  a stop that finds an element STOPPED with RESUME in its queue is answered OK and
  dropped (`audio_element_stop`, line 969), and the terminate after it waits for an
  element that runs. `wait_for_stop` is only called after `stop`.
- **Event interface**: two sources, so that one can send while the other is taken
  out; queues of 2, so that a set as large as the list before the change is too
  small; 3 changes: add, add and remove, or a change after one that has failed.
- **Peripherals**: `CmdLen` = 2 makes the queue of 5 overflow; `MaxCalls` = 4 is start,
  stop, start, destroy. Pads have readings on both sides of the threshold and on
  it; a long press and a long tap take two intervals; the card flips twice, the
  station fails twice to connect and is dropped once; two channels and three pins make a
  light find the table full; two phones and four labels make a label wrap.
- **Application**: a model hour has 8 minutes, a day three such hours, so that
  windows, leads and lengths of a program keep their order within an hour while
  two hours go by; ticks are half minutes, as the code distinguishes second 0 of a
  minute; a clock that is behind the saved time by more than `ClockSlack` is set to it at
  boot. Behaviours start shortly before either program. Two keys are enough for one to be
  handled in each of the places where the view waits, with a tick between them. One power loss at any step shows the truncated file. Spells are
  of two intervals, the ladder of the lamp of two steps.
- **Streams**: tracks kept (`KeepTrack` = 1, `MaxTrack` = 2) are fewer than those of the longest
  playlist, which lists them in an order of its own, so that a list that is fetched again
  meets tracks that were purged; one url redirects to itself, and one playlist has it as a track
  and may jam the reader of its lines; buffers of two units make bodies come in parts; the connection
  breaks once, at any place; every text of up to 6 characters with lines of up to 4
  meets the end of a buffer with the end of a line and in its middle; headers of sizes 1,
  4 and 6 fill a buffer of 12 exactly, not quite and too much; two sockets and six
  calls bring a number back to another task; a file of 3 units with a card of 4 fills
  up; two DMA buffers with two pieces of music, one pause or stop beside one change of the
  clock; three elements in two chains, four calls.
- **Devices**: the whole range of the chip's years, so that day, month and leap-year
  boundaries and the end of a 32-bit `time_t` are met. Three failing transfers make the
  clock give up twice; two tubes suffice for an overrun of the address; three calls of a codec
  set two things and look at a third. The registers of a codec
  begin all clear or all set, so that a bit left as it was shows. `Zl38063` starts four times, once more
  than is needed to lose firmware, configuration and flash. The packing of words takes
  registers at both edges of a page and counts on both sides of what a command word can say.

### Fairness

- **Ring, elements, pipeline**: element tasks and the caller's are FreeRTOS tasks that
  are always served, so every task that can go on does: weak fairness of each task's
  steps. Waits of 2000 ms and finite `ticks_to_wait` never *need* to run out:
  `RTimeout`, `WTimeout` and `TimesOut` are outside the fairness, so liveness shows
  that what is waited for comes. In the ring, that the reader calls again and again is
  the loop of an element's process function, and that the writer ends its stream some
  day (`WF(WDone)`) is what `finish` does; it need not write. `open`, `close` and
  `process` are assumed to return. Liveness of the ring is about reads no longer than it.
- **Events**: the task of a listener listens again and again (`aroma_idle` in a loop)
  and ends the change it is in; sources need not send.
- **Peripherals**: the service task, the timers that are started, the tasks of the console
  and of system events run; the station's stack answers each connect and disconnect.
  Nobody presses a key, no card comes and no access point is there by fairness; `Reconnects` says
  the station is linked again if the access point stays.
- **Streams**: the task goes on with the call it makes. The connection need neither
  break nor be fast. Where the code itself can go round for ever (`Endless`), nothing is claimed.
- **Devices**: each task goes on in `sync_time`; failing transfers are bounded
  (`MaxFailures`), so the restarts end. With transfers that failed for ever the program would restart for ever.
- **Application**: safety only; lengths are counted in ticks.

### Faulty forms

Each property is broken by at least one plausible slip, kept next to the
definition it would replace and commented as a fault:

| module | slip | property it breaks |
|---|---|---|
| RingBuf | `WriteSizeAny`: the room is not looked at | `FilledSlots` |
| RingBuf | `AdvanceToStart`: the part after the wrap is not counted | `Contents` |
| RingBuf | `RExitNoWake`: the reader leaves without waking the writer | `NoWakeUpLost` |
| RingBuf | `ReadSizeAny`: the length asked for is taken whenever there is anything at all | `Implements` |
| RingBuf | `WDoneNoWake`: the end of the stream wakes nobody | `GoesOn` |
| AudioElement | `PausesOpen`: a paused element keeps its device | `DeviceInStep` |
| AudioElement | `OnFinishPolls`: a finished element goes on polling its queue | `FlagsInStep` |
| AudioElement | `TerminateNoClear`: TASK_DESTROYED_BIT of the last task is not cleared | `OneTask` |
| AudioElement | `PauseNoClear`: PAUSED_BIT of the last pause is not cleared | `Obeyed` |
| EventIface | `NewSetStale`: the set has room for the sources there were | `InStep` |
| EventIface | `DrainNot`: nothing is drained | `HeardUnlessRaced` |
| AudioPipeline | `ResumeResetsInput`: whatever its state, the element resets the ring it reads | `StreamKept` |
| AudioPipeline | `EndedNot`: the end of the stream is not passed on | `Completes` |
| EspPeriph | `DestroyWaitsNot`: the peripherals are freed without waiting for the task | `FreedIsOver` |
| PeriphTouch | `TouchTimerReleases`: only the end of a tap wakes the task | `InputsTold` |
| PeriphLed | `FindLedChannelFirst`: the first channel that will do is taken, before the rest is looked at | `BlinksWhole` |
| PeriphWifi | `StaGotIpUnless`: an address is only believed while the state is that of a first attempt | `BitsTell` |
| PeriphBluetooth | `BtKeyAlways`: a key is pressed although another is under way | `PhoneHoldsOne` |
| PeriphWifi | `StaDisconnectedOnce`: only a connection that was there is made again | `Settles` |
| PeriphWifi | `WifiDestroyLinked`: the link is not taken down before it is waited for | `DestroyEnds` |
| AromaControl | `CloseSprays`: closing forgets the spray | `StopIsKept` |
| AromaControl | `SleepExitsLate`: the end of the sleep program is measured from the time of getting up | `ProgramEnds` |
| AromaControl | `GetupBeginsNow`: the alarm is moved to when the program begins | `AlarmRingsOnce` |
| AromaSpray | `SprayEndsEarly`: the spell's own length is not looked at | `SpraysAsTold` |
| AromaLight | `LampStartsAnyway`: the lamp's other colour is not looked at | `LampObeys` |
| AromaMusic | `OrderRewindsNot`: the position is left where the last track was stopped | `ReadsInside` |
| HttpStream | `RangeNone`: a stream that is resumed does not say from where | `BodiesInOrder` |
| HttpStream | `NextTrackUnmarked`: the track that was finished is not marked | `PlaysOnce` |
| HttpHeader | `NextIndexAll`: the header that did not fit is taken for written | `CutsWhole` |
| HttpStream | `TakesUnmarked`: the playlist is not marked as resolved | `CallsEnd` |
| HttpClient | `JobChecksUncounted`: a redirection is not counted | `CallsEnd` |
| Transport | `TcpClosedStale`: the number is not forgotten | `TransportKept` |
| FatfsStream | `ClosedPosAlways`: each close begins anew | `FileKept` |
| I2sStream | `FlushLengthShort`: a buffer short | `PlayedOut` |
| PipelineLink | `JoinedShort`: an element without a ring to write gets none to read | `LinkKept` |
| Calendar | `SubMkgmtJanuary`: the leap day of a year counted from its January | `DatesKept` |
| RealTimeClock | `ReadTimeTrusting`: the low-voltage flag not looked at | `TimeKept` |
| RealTimeClock | `WriteBackFlagged`: the seconds not written, so that the flag stays | `SyncEnds` |
| SegmentDisplay | `DataUnpadded`: the addresses between the tubes forgotten | `PrintShows` |
| Es8374 | `Es8374ConfigI2sLengthFirst`: the length first, which the format then sets to its own | `DoneAsAsked` |
| Zl38063 | `CmdRegWrUnawaited`: no wait for the command to complete | `UploadIsWhole` |
| EspCodec | `ClosedPausedReset`: each close is the end of a song | `PlayedOut` |
| I2sStream | `SwapsEach`: the samples taken one by one | `PlayedOut` |
| Transport | `SslPollsAlways`: it always polls first | `TransportKept` |
| Zl38063 | `HbiPageAll`: no page is exempt | `UploadIsWhole` |
| AromaSpray | `SprayClearsOnly`: the nozzle is left as the last toggle left it | `SpraysAsTold` |
| HttpClient | `DrainsLength`: the chunked body is not read to its end | `BodiesInOrder` |
| PeriphSdCard | `SdCardReturnsUntimed`: the detect pin alone wakes the task, no timer | `Settles` |

### Disagreements

Three runs end in a counterexample; each is a sentence of a header or a comment
that the code does not keep. `PROJECT.json` quotes it.

- `pipeline_wait`: resetting the rings of the first element that has stopped takes
  away the abort its neighbour was to be woken by, so that `wait_for_stop` does not
  wait until all elements have stopped.
- `alarm`: the half hour by which the alarm comes before the time of getting up is
  taken off when the times are saved and once more when they are read at boot.
- `http_host`: the host a client is connected to is compared with itself, so that a
  redirection to another host is asked for on the old connection.

## 5. Faults

What was met while modelling. None of it is claimed by a property, because the
property would be false of the code as it stands: where a property excepts one of
these cases, its comment says so. "Kept" marks what the model contains, and the
checks so go through; the rest is outside the modelled part, or in a function
nothing calls.

### Core

- The end of the stream is reported with bytes in the ring when the writer
  finishes between the reader's look at the fill count and its look at the done
  flag (`ringbuf.c:258`, against `ringbuf.h:117`). In a pipeline this loses the end
  of a track: `Whole` excepts exactly this case. Kept.
- `rb_reset` takes no lock (`ringbuf.c:149`), and an element that resumes calls it
  while its neighbour may read (`audio_element.c:243`): `fill_cnt` can wrap. A read
  longer than the ring takes what there is without telling the writer, and both
  sleep: `NoJointSleep` and `GoesOn` are about reads no longer than the ring.
- `wait_for_stop` is answered by the bit of an earlier stop (`audio_element.c:715`,
  against `audio_element.h:328`). Kept. A resume right after a stop is dropped as "already
  running" (`audio_element.c:213`, `:932`). Kept.
- A stop that was answered OK before may abort rings that were reset
  since: a restarted pipeline stops itself (`audio_element.c:206`, `:331`, against
  `audio_pipeline.h:156`). `OpsReturn` is not claimed of a pipeline started again
  after a stop. Kept.
- A pause that is carried out before the FINISH an element has sent itself makes
  the next resume find it FINISHED, and reset its output ring with blocks in it
  (`audio_element.c:242`, against `audio_pipeline.h:142`): `Conserved` and `Whole`
  speak of pipelines that were only run. Kept.
- `audio_element_deinit` looks at no result of stop, wait and terminate
  (`audio_element.c:827`): when one runs out it frees an element whose task goes on.
  Kept.
- An element without a task runs although `audio_element_run` returns ESP_FAIL
  (`audio_element.c:845-870`), and the commands it sends itself pile up.
- A source that is run again empties its external queue behind the set
  (`audio_event_iface.c:282`, against `audio_event_iface.h:226`): a listener that
  waits without a time-out is given ESP_FAIL. `Listed` is about sources that do not.
- A full external queue drops the FINISHED report a player waits for
  (`audio_event_iface.c:270`). Kept. A change of listeners that fails half-way because a
  source sends in the middle of it is not mended by the next: `Attached` and
  `Complete` end with the first failure, and `FailsInRace` says what it takes. Kept.
- Setting a pipeline up: `unlink` leaves the pointers to the rings it frees
  (`audio_pipeline.c:387`); a failed link leaves items linked, and rings that go
  only at the next unlink and are lost at deinit; `unregister` leaves the element's queue with
  the listener (`audio_pipeline.c:196`, against `audio_pipeline.h:75`); `link_more` on linked
  elements appends duplicates, with which `set_listener` fails half-way; deinit of
  an unlinked pipeline leaves the listener's queues. All kept (`LinkKept` says what still
  holds). `register_more` links items to nothing; `check_items_state` dereferences NULL for an unknown
  tag, counts stale states, and is never OK with duplicates.

### Streams

- Playlist reader: of the last refill every line but the first is dropped; a line
  as long as the buffer, or an end of line at the end of a refill, gives the same
  line for ever; a short refill leaves old characters behind it. Kept
  (`StuckAtAnEdge` is the exception of `LinesWhole`).
- Playlist: `total_tracks` survives a clearing; a track dropped from the list is
  played again when a live list is fetched again; a resumed playlist is asked for
  with a Range and its text played. Kept. `user_data` points to a dead local.
- The open of the stream does not end: redirections are followed without a limit
  (`http_stream.c:455`; `redirect_counter` is never reset either), the reader of the lines
  gives the same line for ever (`:190`), a hook that does nothing at the end of a list, or is
  missing, is asked again at once (`:373`), and a playlist url without a parser is read
  through NULL (`:294`). Kept: `CallsEnd` excepts these four (`Endless`) and no other.
- Client: a redirect with a body leaves `raw_len` for the next read; chunks that
  come with the headers make `raw_data` and `raw_len` disagree; `perform` returns
  ESP_OK for a body cut short; a url of another scheme with the same explicit port
  keeps the old connection. Kept.
- Headers: a key given with blanks is not found and added twice
  (`http_header.c:116`, `:55-67`); generating overruns a buffer the request line fills. Kept.
  Content-Length and Transfer-Encoding both stay once a client was opened with -1 and
  then with a length (`esp_http_client.c:880-885`).
- Transports: the ssl time-out is set on fd -1; `ssl_close` always returns -1; a failed
  verification returns 0 (not reachable while verification is required).
- Files: a paused reader that is stopped keeps `byte_pos`, so that the next play
  starts in the middle; so does a uri changed in a pause; a paused recording is
  truncated by "w+" and goes on behind a hole; a reader that fails at its first
  seek leaks the FILE; a path-less uri makes close write to a closed FILE; the
  wav header is written only at close. Kept (`story.odd` is the exception of `FileKept`).
- I2S: `i2s_mono_fix` takes every other pair of 32-bit samples
  (`i2s_stream.c:64`) and touches what is behind an odd buffer; a clock set while the
  state is not yet RUNNING races the task's copy of the info and the driver's buffers,
  and resumes a stream that was stopped meanwhile. Kept.
- Codecs: `in_offset` of the resample filter is not reset when it opens, so that after
  a pause the encoder reads behind junk; a short read is converted with the stale
  rest; what is left over is never flushed; a WAV decoder stopped in a pause takes
  the next song's header for music. Kept.
- `raw_stream`: its globals dangle after deinit and a second one overrides them.

### Peripherals

- A destroy right after a start does not wait and frees what the task is about to
  use (`esp_peripherals.c:264`); the list is extended without the lock (`:306`). Kept.
- `periph_wifi_config_wait_done` waits for both bits and so hangs; early
  results and addresses are erased by the bits being cleared late (`periph_wifi.c:183`). Kept.
- A console whose init failed makes its destroy wait for ever; a line with too
  many arguments runs the NULL command. A bluetooth start that fails leaves the
  service set. Kept. `periph_led_stop` without a channel dereferences NULL
  (`periph_led.c:234`); the model does not call it so.

### Application

- The file of the times is truncated before it is written (`aroma_config.h:49`): a
  reset in between loses them. Kept.
- The alarm is set back by three minutes each time it goes off; starting a
  program by hand moves the next day's alarm; a configuration that was cancelled or
  timed out leaves the times shifted by 30 and 60 minutes; `time_change` stays set
  when its key is released after the menu closed. Kept.
- The view waits in the middle of a program: 900 ms in a repeat (`aroma_view.c:189`), for
  the elements to pause in `aroma_music` (`aroma.c:58`, `audio_element.c:917`), for their tasks
  in `aroma_play` (`aroma.c:31`, `audio_element.c:860`). A stop key held then ends the program
  and the spray, but the view goes on with what it was about: it starts the music, and may fade
  the lamp, in no program, so that nothing but a key ends them. Kept: `StopIsKept`
  claims the lamp and the music only of a stop held at any other time (`met`).
- A spell of the spray ends in its first step when the one before began more than an
  hour ago. Kept.

### Devices

- A single failing read at boot makes `systohc` write 1970 into the clock and
  restart; a time set while another task writes back is overwritten;
  the 32-bit `time_t` turns -1 on 2038-01-19 03:14:08 while the clock goes to 2099. Kept.
  The day of a date is checked with `> 32`; `set_local_time` is void and returns a
  value; the display's pins GPIO 21 and 22 are those of I2C.
- Two prints that meet on the TM1620's pins garble the display until the next
  print that is alone. Kept.
- ES8388: `config_fmt` and `set_bits` discard the ADC's error, `start` those of its
  two reads and always enables all outputs. ES8374: `get_voice_mute` tests 0x40, `set` uses 0x20 (`DoneAsAsked` does not ask what a look answers);
  `read_reg` keeps ESP_FAIL in eight bits and never sees it; `start` uses a
  stale register when a read fails; `set_d2se_pga` forgets the read's error; `config_fmt` alone
  sets the length to 24 bits. Kept (`Unseen` and `Kept` of `AudioHal` are the exceptions).
  `audio_hal_init` ignores its driver's result, is not protected against
  a second one, and deinit destroys the mutex first; codec and clock both install
  the I2C driver.
- ZL38063: a failing SPI transfer returns 0; `VprocTwolfHbiRead` documents 254 words
  but from 129 on the length sets the write bit (`vprocTwolf_access.c:376-384`);
  S-records with short addresses are read with eight digits, more than 64 words overrun the
  buffer and a line without data fails; the results of `zl38063_init`'s upload, the
  flash's commands and `FirmwareStart` are not looked at; `VprocHALcleanup` leaves
  `g_spi` set; a restart between `FirmwareStart` and `LoadConfig` makes the next boot
  skip the configuration (kept).

## 6. Proofs

Eight modules hold the theorems; each extends the component it is about and uses
nothing but the assumptions the component names. What they show holds for every
value of the constants, so for every bound of section 4 too. TLC checks the same
properties on the instances of the runs.

| module | theorem | states |
|---|---|---|
| `RingBufProofs` | `TypeCorrect`, `FillCounts`, `ContentsInOrder` | `Spec => []TypeOK`, `[]FilledSlots`, `[]Contents` |
| | `RingImplementsStream` | `Spec => Implements` |
| | `WaitsHaveCause` | `Spec => [](ReaderWaitsForCause /\ WriterWaitsForCause /\ SetsMatch)` |
| | `NoWakeUpIsLost` | `Spec => []NoWakeUpLost`, where no read is longer than the ring |
| `AudioElementProofs` | `DeviceKept`, `FlagsKept` | `Spec /\ []OneTask => []DeviceInStep`, `[]FlagsInStep` |
| | `NoSecondTask`, `ElementInStep` | `[]OneTask` and the two above without it, under three conditions |
| `EventIfaceProofs` | `InStepKept` | `Spec => []InStep` |
| | `OnlyRacesFail` | `Spec => FailsInRace`, for a listener created with a set |
| `ApplicationProofs` | `ReadsStayInside`, `LampKeepsOrders`, `SpellsAreKept`, `StopHolds`, `ProgramsEnd` | `Spec =>` `[]ReadsInside`, `[]LampObeys`, `SpraysAsTold`, `[]StopIsKept`, `[]ProgramEnds` |
| | `AlarmNeverRepeats` | `Spec => AlarmRingsOnce`, where the alarm is set back by at least its window and at most an hour, and a day has more than two hours |
| `AudioPipelineProofs` | `PipelineImplementsElements` | `Spec => E!Spec`: a pipeline's elements are those of `AudioElement` |
| | `StreamWhole` | `Spec => [](TypeOK /\ Conserved /\ Whole)` |
| | `StreamAlwaysKept` | `Spec => []StreamKept`, which adds `Torn`, when the application is `Patient` and a queue has three places |
| `StreamsProofs` | `TransportAlwaysKept`, `FileAlwaysKept`, `AlwaysPlayedOut`, `PlaysOnlyOnce`, `LinkAlwaysKept` | `Spec =>` `[]TransportKept`, `[]FileKept`, `[]PlayedOut`, `[]PlaysOnce`, `[]LinkKept` |
| `DeviceProofs` | `TimeAlwaysKept` | `ClockInit /\ [][ClockNext]_clocks => []TimeKept`: the part of `Devices` that has the clocks |
| | `DisplayShows` | `DisplayInit /\ [][DisplayNext]_display => []PrintShows`: the part that has the display |
| `PeripheralsProofs` | `FreedServiceIsOver`, `InputsAreTold`, `BlinksAreWhole`, `BitsAreTrue`, `PhoneHoldsAtMostOne` | `Spec =>` `[]FreedIsOver`, `[]InputsTold`, `[]BlinksWhole`, `[]BitsTell`, `[]PhoneHoldsOne` |

Each argument is the same: an inductive invariant, one lemma per action (or per
group of actions that change the same thing) that shows the action keeps it, and a
theorem that reads the property off it. What the invariants say, and why the
property alone would not do:

**Ring.** `FilledSlots` and `Contents` are not inductive: what a copy does depends on
a size chosen in an earlier step. The invariant is

    IInv == TypeOK /\ FilledSlots /\ Pointers /\ Held /\ Quiet /\ Contents

with `Pointers` (the two offsets lie `fill` apart, going round), `Held` (the mutex
is held by the side that copies, and the size it chose is still there, because
only the holder of the mutex changes `fill`) and `Quiet` (a reset finds nobody in
a call, which a reset under a reader would break). The arithmetic of a wrapped
copy is in `AdvanceSlotLemma`, `StoreSlotLemma` and `AppendedLemma`. Refinement
follows from `IInv`: `WCopy` is a `Put` of the size, `RCopy` a `Get` because
`Contents` says which bytes the slots hold, `ResetFields` a `Restart`, every other
step stutters.

That no wake-up is lost takes `WInv` on top: between the look at the fill count,
under the mutex, and the wait outside it (`Looking`), a side has a semaphore to find,
a waker on its way, or a cause that has not gone. Two sides asleep at once takes
`JInv`, and `ReadsFit`: a pass over a ring that holds enough ends the read
(`WholePass`), so that a writer on its way to wait finds the ring full or a reader that is
on its way to wake it. The code does not enforce `ReadsFit`, but its defaults meet it:
rings are of 8 KB (`audio_element.h:164`, `audio_pipeline.h:45`), the buffers that are
filled from them of 1 or 2 KB (`audio_element.h:165`, `fatfs_stream.h:49`, `i2s_stream.h:53`).
With a longer read the theorem is false: the reader takes what there is without telling the
writer, and both sleep.

**Element.** `EInv` ties the fields of an element to the place its task is at
(`Shape`): a device is open only under `is_open`, a task that is alive has it open just when the
state is RUNNING, between two commands `is_running` and STOPPED_BIT say what the state
says, and a task that polls with time-out 0 has a command waiting or runs. A caller only
*steers* an element: it adds commands and clears bits, which no shape minds. The
invariant is inductive for any callers, outcomes and time-outs as long as an element
has one task; hence `Spec /\ []OneTask`. `NoSecondTask` proves the hypothesis where no wait
runs out (`~Timed`), the task's buffer is there (`~BufferFails`) and no two callers are in
functions of one element at once (`TakeTurns`), with `Life`: a new task has a caller waiting for
CREATED_BIT, an ending one a caller waiting for DESTROYED_BIT, and nobody is about to
create another. Each condition is needed: a `terminate` that gives up lets `run` create a
second task (`audio_element.c:827`, section 5), two callers both pass the test of `task_run`.

**Pipeline.** Each element of a pipeline is one of `AudioElement` with the outcomes, callers and
functions a pipeline gives it, which `PipelineImplementsElements` shows step by step; so `EInv` and `Life`
hold of it without being proved again. `GInv` adds the types of rings and hands. Then two arguments:

- *The stream* (`StreamWhole`). Nothing is claimed after a pause or a stop, so `FirstInv` speaks of a pipeline
  nothing was asked of (`Fresh`) and of its first run. `Launching` says where `audio_pipeline_run` has
  come to: its calls are made in the order of the chain, first every task, then every `resume`, and each element is
  in the phase those calls brought it to (`CallsInOrder`, `CallerInOrder`, `PhaseOK`); without
  it, an element could be opened a second time over data in flight. `Streaming`
  says that the end of the stream goes down the chain behind the data (`EndsInOrder`: a ring is done when its writer is
  over, an element is over when the ring before it is done, and a reader that is over or has found its ring empty left nothing in it,
  but for the late block of section 5) and that what is played, in hand and in rings is what was read.
  What is in flight is a function defined along the chain, so what one step does to it
  downstream of the element that took it is found by induction on the numbers of the elements.
  `Whole` needs `Healthy`, and not only of the last element: with three elements, the middle one of which fails to open, that one
  aborts, its output is marked done (`audio_element.c:328-331`), and the last one finishes
  with nothing played. With two elements no run could show this; the proof did.
- *The tasks* (`StreamAlwaysKept`). `QuitInv` says what `audio_pipeline_terminate` has left to
  ask of each element and how much an element may then hold: an element that is still to be terminated has no RESUME
  and no DESTROY in its queue, and at most a command it sent itself and the STOP, so that
  DESTROY finds room and is not dropped. Hence the two hypotheses: the code's queues have five
  places, three are needed; and an application that does not wait until a function has
  taken effect can have a stop dropped and terminate wait for an element that runs
  (bounds of `pipeline`, section 4).

**Event interface.** The set lists each of its members as often as its queue has events
(`Counted`), and every queue ends with the last event accepted from its source
(`Accounted`); with `Typed` and `Ordered` (nothing is twice in a list) they are
inductive. That the set has room for the next event is the pigeon hole principle (`PigeonHoles`):
it has `QueueLen` places per member, and the member that sends has fewer. `FailsInRace` takes
`Calm`: a change that no source meets finds queues empty as it left them. A listener
created without a set (`FirstSet = 0`) never drains the one it is given later, so that its next
change fails when an event waits, race or not; hence the hypothesis.

**Application.** The four tasks share nothing in the model, and have an invariant each:
`MusicInv` (an order to change the track that met nobody has the reader to itself; a read
in progress ends within the track), `LightInv` (`OneShines`: a colour that shines is flagged
or being raised, so that whoever raises the other one stops it), `SprayInv` (`Measured`:
the interval is counted from the begin of this spell or, in its first round, of the one before;
`Closing`: after a close at most the nozzle that was being turned on is, and the same round turns
it off), `ControlInv` (`Timely`: the age of a program is at most the time since its alarm
less what the alarm was set back by; `Hushed`: once the stop key was held neither task is about to start the
music, unless the view was in a wait at that moment; `Booting`). `ProgramEnds` did not hold as it
stood: the model forgot a clock that was set in the 900 ms of a repeat before a program which
begins at their end. The bound excepts a program whose times were set, and the history now
keeps this one.

`AlarmNeverRepeats` takes `RungInv` on top of `ControlInv`: until the hour since the alarm began is
over, its time is still the one it was set back to, because whoever moves it or the clock
takes the hour for over. The rest is arithmetic (`SetBackIsFar`): an alarm that lies between what it is
set back by and an hour more in the past is in the same hour of the day only when it is in the same hour,
and then its minute is at least as far away as it was set back. Each of the three hypotheses is
what the code has (`aroma_view.c:146-153`: a window of 3 minutes, set back 3 minutes, 60 minutes,
24 hours); with a window wider than that, the alarm would be due again at once.

**Streams.** The parts share nothing, and have an invariant each:

- `TransportInv` ties the place and the transport of a client to the sockets and contexts (`NetInv`), which
  every outcome of a connect, a poll, a read or a close gives back (`ConnectsInv`, `GetsInv`, ...).
- `FileInv`: what was read or recorded is the file up to the position (`PlayInv`, `RecordInv`), and an element that runs
  has it open (`RunInv`).
- `CodecInv` (what has come is what has gone on and what waits in the buffer, in order), `I2sInv` (what lies in the
  DMA buffers is the music between what was heard and what came; a flush in progress
  has pushed it as far as it has got; the port has the element's rate unless the setter is just
  about to give it) and `PcmInv` (each sample is where the fix moves it).
- `StreamInv`: what was played is the text of a playlist, was taken off the list, is marked in the list, or is being played
  now (`Remembered`), and the track that is being played is the first one not marked (`OnTrack`). The first attempt at
  the proof failed, rightly: the model had forgotten that `_insert_to_playlist` purges tracks from the head of the
  list when there are too many (`http_stream.c:214`), so that one of them may come again with the
  next fetch. TLC found the same with a list in another order, and the model and the
  list of the run were corrected.
- `LinkInv`: what makes each step of a link, unlink or insert hold is that a chain that is linked is joined by
  rings no two of which are the same (`ChainJoined`), that without a failed call it is all that is
  linked (`OnlyChain`), that each ring has one owner, the pipeline once or nobody any more (`RingsOwned`), and
  that the listener hears elements that are registered or were (`Heard`). A new ring has a number
  above those there are, which is where the rings must be bounded. Elements are any finite set, chains any set of
  sequences of them without repetitions.

**Clock.** `ClockInv`: as long as the time is known, at least one of the two clocks has it and the task that will
carry it to the other is at the place where it does.

**Display.** A print is computed whole, by `FlattenSeq` over the tubes; `FramesAre` says what its
`16 + 4 * Tubes` changes of the pins are, by induction on the tubes. `DisplayInv` says for a task that has
the pins to itself what is left of its print after the first `k` changes (`Left`) and what the chip has made of those `k`
(`Heard`): which half or command it holds, that it counts the addresses by itself, and that the tubes it has passed show the text.
Nothing is said of a print that another got in the way of: the chip may then hold anything, but whoever
makes the last change leaves the strobe high, so that the next print finds a chip that does not listen (`Silent`).
That is all a print needs, since it sets up the chip again itself.

**Peripherals.** `IInv` joins an invariant of the service (`Tasked`: STOPPED_BIT and `run`
say how far the task is and who waits for it; `Kept`: only a peripheral in the list of a
task that serves has come up, has a timer or is in its hands) with one of each peripheral:
`Story` (what a button told so far fits how long it is down), `Awaited` (a touch key whose
event is still to be told), `OnePin` and `Counted` (the table of blinks against what was asked),
`Heard`, `Stationed` and `SettingUp` (the bits against the station, the events under way
and the caller of `config_start`), and `PhoneHoldsOne` with what the machine of the keys waits
for. The run has boards of one peripheral, the theorems any set of them on one board. What makes
that possible is that a step with one peripheral leaves the others `Apart`: it takes
none out of the list, starts no timer of theirs and leaves them in the
hands of the task. So each peripheral has a lemma for its own steps and one for everybody
else's.

**Induction.** The library's induction theorems take an operator, which the provers cannot
instantiate. Where an induction is needed (`InFlight` along a chain, the steps of a list that is linked or purged,
the heads of a sequence), the module proves it over *sets* of numbers, from
the fact that `<` on the naturals is well founded: a set of naturals that is not empty has a least element (`LeastNumber`), so a
set that has 0 and, with each `n`, `n + 1` has them all (`Induction`). Recursive functions are used, `RECURSIVE` operators
are not.

Only model-checked:

- all liveness (fairness and ENABLED are out of the prover's reach): `GoesOn`,
  `Obeyed`, `HeardUnlessRaced`, `Completes`, `Settles`, `DestroyEnds`, `CallsEnd`, `SyncEnds`;
- `BodiesInOrder` and `CutsWhole`: what is read is computed by folds over the units that came and over the
  characters of a text, which no prover here unfolds;
- `DatesKept` reaches the operators on bits, from which nothing can be proved here; its run
  walks every day from 1970 to 2099, all the years the chip has;
- `DoneAsAsked`, `UploadIsWhole`: actions of the drivers compute whole sequences
  of transfers, and what those do is a fold over them (`FoldLeft`).

## 7. Not modelled

- `lib/clouds/dueros`, the recorder and the speech engines: headers of binary
  libraries and glue. Decoders other than WAV are binary as well; of the conversion
  inside the resample filter only what it takes is modelled.
- Memory wrappers, request signing, digests, url and string helpers: they compute
  and keep nothing. What parses an answer's bytes is external.
- Of the element: status reports, `wait_for_buffer`, elements without a task, the
  setters other than those of the rings. Of the ring: creation and destruction. Of
  the event interface: internal queues of others, `cmd_from_isr`, destroy. Of the
  pipeline: what nothing calls.
- Allocation that fails, except where `OpenFails` and `BufferFails` stand for it.
- Wi-Fi enterprise, A2DP events that are only forwarded, the splitting of a command
  line, fonts of the display, pins and clocks of the board, register dumps, the shell of the
  voice processor.
- Two tasks inside `audio_hal_init`, and the loop of the i2s reader.

The components that stay `partly` in `PROJECT.json` name what is left of them.
