# Formal models of the MuSiP data acquisition

TLA+ models of the parts of this repository where programs and firmware work on
shared memory, registers and links at the same time, TLC configurations that check
them on small instances, and proofs, checked by TLAPS, for the slow-control path and SC main,
the hit multiplexer, the run transitions, the kernel driver and the low voltage supplies.
Paths below are relative to `src/`.

## The system

A switching board (SWB, an Arria 10 PCIe card, `firmware/a10_board/a10`) sits between
up to a dozen front-end boards (FEBs, optical links) and a PC. Three things pass it.

| Component | Source | State | Operations |
|---|---|---|---|
| **Slow control, software** | `midas_fe/libmudaq/FEBSlowcontrolInterface.cpp` | `sc_mutex`, `sc_packet_deque`, read pointer `m_FEBsc_rmem_addr` | `FEB_write`, `FEB_read`, `FEB_broadcast`, `FEBsc_read_packets`, resets, `FEBsc_NiosRPC` |
| **SC main** | `swb/swb_sc_main.vhd` | write process, FIFO, read process, done flag | take a command from the RW memory, send it on the addressed links |
| **SC secondary** | `swb/swb_sc_secondary.vhd` | FIFO per link, copy state machine, published address | copy whole answers into the RO memory ring |
| **Hit multiplexer** | `swb/musip_mux_4_1.vhd`, `swb/mux_4_1_256.vhd` | parser and group per link, one word buffer per link | parse packages, group four hits, merge four links |
| **Event builder** | `swb/musip_event_builder.vhd` | FIFO, state machine, `word_counter`, `done`, drop counter | on request: words, then padding to a 4 kB block |
| **DMA engine** | `pcieapp/dma_engine.vhd` | memory ring, block flags, PCIe state machine, host address | collect blocks, send them, hold up the builder |
| **Readout frontend** | `midas_fe/readout_fe.cpp` | `dma_buf`, `maxwords`, thread position | fill, enable, poll done, disable, copy, make events; begin of run |
| **Reset link** | `a10_reset_link.vhd` | state machine, last command | turn commands in a register into words all FEBs hear |
| **Run control** | `run_control.vhd`, `run_control_link_listener.vhd` | acknowledge and run end per link, run numbers, time | collect what FEBs send about the run |
| **Quads frontend** | `midas_fe/quads_config_fe.cpp` | transition in progress, run number | `begin_of_run`, `end_of_run`, run cycle, start-up |
| **Kernel driver** | `midas_fe/mudaq-dkms/` (`kerneldriver/` is a near copy) | DMA table, interrupt counter, devices | probe, remove, open, read, ioctl, mmap |
| **Low voltage supplies** | `midas_fe/power/` (`PowerDriver`, `HMP4040Driver`, `TCPClient`) | book keeping of the outputs, `power_mutex`, read flags, socket | read thread with passes over the channels; callbacks of the ODB |
| **Demerger** | `swb/swb_data_demerger.vhd` | three states per link | split a link into data, slow control, run control |

Around it: the ASIC configuration (`asic_config_base.cpp`, `Mutrig3Config.cpp`), the ODB
set-up, the slow-control frontends of high voltage, temperatures, pumps and magnets,
the analyzer, web pages, tools, farm and DDR firmware, other mergers and the
transceivers. `PROJECT.json` lists each with the reason it is not modelled.

How they interact, and what makes them hard:

- *Slow control* is a request and an answer over two memories without any identifier in
  the answer. Calls time out while their command is still under way, answers come late,
  packets are lost or damaged, resets hit a packet in the middle, the program is
  restarted. What must hold: a call gets its own answer, nothing is consumed twice, a
  call always returns, a broken situation does not last for ever.
- *Readout* is a pipeline with one flag (`done`) between a thread and two state machines.
  Late back pressure, dropped hits, timeouts, run stops and a thread that does not wait meet.
  What must hold: no loss without a count, events whole and in order, no overrun, no stall.
- *Run transitions* are commands in a register that is written and cleared, heard by all
  boards at once and acknowledged per link; a start may be denied, a board be dead, the
  frontend be restarted. What must hold: boards and frontend agree on the run.
- *The kernel driver* hands memory to a device that goes on writing by itself, and files to
  programs that may be open while everything is taken down. What must hold: memory is
  given back only when neither the engine nor a file can reach it, each failure of
  `probe` gives back what was acquired, no reader sleeps over an interrupt.
- *The low voltage supplies* have two threads on one socket, an instrument that works on
  the channel selected last, and replies without any mark of the question. What must hold:
  a command goes to its channel, a late reply does not disturb for ever, what the
  program shows follows the outputs.

## Modules

| Module | Models | Notes |
|---|---|---|
| `FebTransaction` | what `FEB_write`, `FEB_read`, `FEB_broadcast` promise | abstract: one atomic operation per board and call |
| `SlowControl` | the whole slow-control path, packet by packet | refines `FebTransaction` |
| `SlowControlProofs` | theorems about `SlowControl`, and that it implements `FebTransaction` | TLAPS |
| `ScMain` | command into RW memory, SC main, FIFO, links, word by word | `Send` of `SlowControl` in detail |
| `ScMainProofs` | theorems about `ScMain` | TLAPS |
| `ReplyChannel` | what SC secondary and the parser promise | abstract: queues |
| `ReplyRing` | link FIFOs, SC secondary, RO memory, `FEBsc_read_packets`, word by word | refines `ReplyChannel`; `Receive` and the parse of `SlowControl` in detail |
| `ReplyRingProofs` | theorems about `ReplyRing`, and that it implements `ReplyChannel` | TLAPS |
| `HitMux` | package parser, grouping, 4-to-1 multiplexer, cycle by cycle | |
| `HitMuxProofs` | theorems about `HitMux` | TLAPS |
| `Readout` | event builder, DMA engine, readout thread, begin and end of run | |
| `ReadoutProofs` | theorems about `Readout` | TLAPS |
| `RunControl` | transitions, reset link, boards, listeners | |
| `RunControlProofs` | theorems about `RunControl` | TLAPS |
| `MudaqDriver` | `probe`, `remove`, files and the DMA table, with the programs and the engine's walk through the table | |
| `PowerSupply` | read thread, callbacks, instrument and socket of one supply | |
| `PowerSupplyProofs` | theorems about `PowerSupply` | TLAPS |
| `MudaqDriverProofs` | theorems about `MudaqDriver` | TLAPS |
| `MC*` | instances for TLC | |

Definitions whose comment starts with "Mutant" are deliberately wrong variants of the
definition named next to them; no specification uses them. They show that a property
notices the mistake (the list is in `PROJECT.json`).

### SlowControl

`pc[c]` is the place of caller `c` in `FEB_write` or `FEB_read`: `done` is the poll of
SC_MAIN_DONE, `ack` the acknowledge loop, `reply` the loop of `FEB_read`. `Start` is all
of a call up to SC_MAIN_ENABLE, under `sc_mutex`; `Busy` is the early return; `PollDone`,
`PollAck`, `PollReply` are one iteration each with the parse that belongs to it and, in the last
iteration, the timeout or the reset. `Send` is SC main putting its command on the
links, `Receive` SC secondary publishing one packet. `Execute`, `LoseDown`, `LoseUp`, `Damage`
are the boards and the links, which are outside the repository: a board answers
commands in order; a fault loses, cuts or changes a packet. `Restart` is a new process:
the constructor resets both firmware parts, and the deque is gone.

`id` numbers commands and travels with their answers for the properties only. `upset` is a
history variable: it becomes TRUE with a fault or a call that gives up and FALSE when a
call starts while nothing is on its way ("a quiet moment").

Left out: checks of arguments, the recursion that halves reads of more than 96
words, and the `exit` of a reset that does not finish in 100 ms.

### ScMain and ReplyRing

Both resolve one arrow of `SlowControl` to words. `ScMain` keeps the RAM behind a pipeline of
`RamStages` registers, so that a word latched in the wrong state is a wrong word; its `Issue`
writes trailer, length and enable as `FEB_write` does, and `Restart` is the reset
at any state. `ReplyRing` has FIFOs whose reset can hit a packet in the middle, the copy
state machine with its fixed priority of links, and a parser that samples the
published address and walks to it.

### HitMux

All processes run on one clock: `Clock` is one cycle of `Parse`, `Group` and `Mux`. Hits are
their number in the run; the times of a package are its number. `BeginRun` is the data path
reset of `begin_of_run` with the new link mask, which is written inside the reset.

### Readout

Event builder and the memory side of the engine run on one clock, which is a step (`Clock`): `Builder` puts a word
into the registers of `pcie_block` (`Put`), `Store` writes the word of the clock before into the memory, signals
the block that was completed the clock before (`start_dma`) and registers the back pressure. `memhalffull` stops the
builder, so a clock after the difference is known; in between one more word leaves the builder, and one waits
in the register. `Reset` is the same clock of a disabled engine. `Receive` and `DropHit` are the input of the FIFO.
`Disabled`, `TakeBlock`, `SendBlock`, `SendControl` are the PCIe side at the level of blocks; it takes any number of
clocks. A complete block has priority over being disabled (`dma_engine.vhd:350-363` overrides 327-329), so
the engine sends all of them first. `Fill`, `EnableReadout`, `Disable`, `Copy` are the loop of
`read_stream_thread`; `EndRun`, `BeginRun` the main thread.

Two history variables name what the code does not exclude and what breaks it:

- `early` counts steps of the thread that come before the engine has done its part: nothing in the code
  makes the thread wait. It may copy, fill or enable before the engine is at rest, or disable while the
  last word is still in the register. `done` only says that the builder is finished. `HostInOrder`,
  `NothingLost` and `CopiedIsEvent` speak of behaviours with `early = 0`; each fails without that.
- `slip` becomes TRUE when the write address goes round to 0 while the last packet sent ends exactly at the half of
  the memory. At 0 the difference is the half; the words that still come move the address on to 1 or 2, where the
  difference is below the half again, and back pressure drops. All but `TypeOK` speak of behaviours
  without it; `RingInOrder` and `EventCompletes` fail with it (see "Disagreements").

### RunControl

`todo` is what is left of a transition, each command a `WriteCommand` and a `ClearCommand`
(`write_command_by_id`, with its waits). `Clock` is `a10_reset_link` with everything the boards
hear, `Listen` one listener, `Tick` the time counter. `Processed` says what the waits between
write and clear are there for: the slow clock domain has taken the command.

### MudaqDriver

`mode` and `k` are the place of the driver in `Steps` (`mudaq_pci_probe` with `mudaq_register` spelt
out) or `Labels` (`mudaq_free_dma`, `mudaq_clear_msi`, `mudaq_unregister`, `mudaq_clear_dma` and the rest, in
the order of `remove`); `held` is what it has acquired. A failing step enters `Labels` where its `goto`
does, and labels whose resource is not held do nothing, which is what `IS_ERR_OR_NULL` and
`MISC_DYNAMIC_MINOR` are for. `mudaq_register` without a number or a name returns 0: `mode = "lost"` tears
down, and `setup_msi` ends in "oops". `file[u]` is a program inside `read` (`Mark`, `Look`, `Sleep` are
`set_current_state`, the look at the counter and `schedule`), between two calls, or in a failing ioctl.

`EngineOn`, `EngineOff`, `StartBlock`, `FinishBlock` are the engine: a block goes to page
`table[addr].handle + count`, which is latched when it starts. The engine looks at its enabling bit in
"waiting", and only with no complete block: after `mudaq_deactivate` it goes on sending the blocks it
has. Memory is counted in pages, page 0 is the address of a cleared entry, and the RAM of the table
starts with anything an earlier host wrote. Clearing the table is one step that waits for a block on its
way, because it is 4096 writes with a read back each.

`misc_register` makes the file visible in the middle of `probe` (`mudaq.c:437`), so `Open` needs no more than that. A
later step may fail (445-451, 518-524) and take registers and buffers from under the file: it is then "stale",
and what the program does with it next ends in "oops" (`Crash`). `FilesHaveMemory` says what does hold: as long as
a file *can be opened* everything is there; as long as one *is open* it is there unless its probe fails.
`Open` is a little too liberal: the kernel refuses files of a module that rmmod is removing, which the model
does not tell from the undoing of a failed probe.

`moved` records that the table was filled while the engine was not disabled: if blocks are left from `remove` to
the next `probe`, the engine goes on at its old place in the new table. `NeverIntoFreed` and `FirstLap` except
that case, in which both fail.

### PowerSupply

`pc[t]`, `job[t]`, `ch[t]` are the place of a thread, its transaction and its loop index. Every
transaction is `Begin` (lock, select the channel, ask `*OPC?`), `Command` (read that reply, send the
command) and `Finish` (read the reply, unlock); `replies` is what the instrument has sent and
nobody has read. `ReadReply` takes all that has arrived, or less after its time-out; its result
is always TRUE, so a missing reply is an empty one. `Load` and `Store` are one assignment to a bit of
`state`, a `vector<bool>`: a data race with the same assignment in the other thread, of which the model
keeps the outcome that a read and a write of the shared word can have. `err` of `SetStateChanged` is
not initialised: with no channel to switch, its second loop runs or not.

The reader makes the passes (`Top`, `Second`, `Channel`, `Proceed`, `PassEnds`), the main thread one
callback or `read_power` at a time. `Request` is the user in the ODB, `Trip` the instrument's protection.

## Runs

| Run | Instance and bounds | Shows |
|---|---|---|
| `sc` | 2 callers, 2 FEBs, 2 calls, 1 fault, 2 polls per loop, reads of 1 or 2 words | `AnswerOnce`, `IInv`, `OwnAnswer`, `CleanOutcome`, `ImplementsTransaction`, `EveryCallReturns` |
| `scmain` | 2 links in both halves of the mask, memory of 8 words, commands of the shortest and the longest size that fits, 2 commands, 1 restart, FIFO of 3 words | `WellFormed`, `NothingDropped`, `BecomesIdle` |
| `ring` | 2 links, 2 answers each, memory of 11 words (an answer has 5, so packets wrap at different words), 1 reset | `NeverBroken`, `ImplementsChannel`, `EveryAnswerFetched` |
| `ring_reset` | 1 link, 1 reset | violation of `ServesAfterReset` |
| `mux` | 2 links, words of 2 hits, 4 hits a run, 1 package on link 0 and 2 on link 1 (so it can be cut off), all links or link 0 alone enabled, 1 begin of run that may change that | `OwnTimes`, `NothingLost`, `InOrder` |
| `mux_rate` | 4 links, words of 4 hits, the generator on all links | violation of `AllHitsOut` |
| `readout` | events of 11 words and padding, blocks of 3 words, ring of 12 words, `dma_buf` of 15, 12 hits, 4-bit `word_counter`, 1 timeout or stop or early step of the thread | `NothingLost`, `CopiedIsEvent`, `RingInOrder`, `HostInOrder`, `EventCompletes` |
| `run_control` | 2 boards, both active, 2 runs, 1 run cycle, 1 restart, 1 power cut | `NoneLeftBehind`, `StoppedMeansStopped`, `AckMeansPrepared` |
| `run_mask` | 2 boards, both active, 1 power cut | violation of `AllPrepared` |
| `power` | 2 channels, both on at first, 2 readings in a pass, 2 events out of 2 requests, 1 trip, 1 late reply | `OwnChannel`, `InStep`, `StateFollows`, `CallbackReturns` |
| `driver` | 2 programs, 4 pages (two of them side by side) of which the buffer takes 3 in entries of 1 or 2 and the control buffer 1, table of 5 locations, interrupt every 2 blocks, 2 probes, 1 interrupt, 4 blocks since the engine was disabled | `NoLeak`, `FilesHaveMemory`, `NeverIntoFreed`, `FirstLap`, `NoSleepOverEvent` |
| `driver_lap` | the same | violation of `OwnPages` |

Each passing run has the `TypeOK` of its module as well.

Why the bounds are enough to be interesting:

- `sc`: the second call can meet every left-over of the first (command in SC main, on a
  link, answer on a link, in the ring, in the deque), by the same or another caller.
  `OwnAnswer` and `CleanOutcome` are proved for any number of calls and callers.
- `scmain`: the short command leaves words of the long one behind in memory, the FIFO stops
  a command at every word. `ring`: four packets go round the ring and wrap inside a packet.
- `mux`: with N links the critical distance of two words is N cycles; words of two hits with
  and without idle words between them give distances of 2 (lost) and more (never lost).
- `readout`: an event with its padding is longer than the ring, let alone the half where
  back pressure begins; blocks of 3 words are longer than back pressure is late; 12 hits against a FIFO of 4
  are one more than an event and give drops before it and while the builder is held up in it. One
  disturbance at any place; with two of them the run takes too long. The write address goes round, also with
  the last packet at the half: then the ring has slipped.
- `run_control`: two runs give every pair of success, denial, cycle and restart.
- `power`: two channels are the least where a command can go to the wrong one and two bits share a
  word; two events give a request against a trip, a late reply in either's transaction, and two requests
  in one callback. Which of the readings comes does not matter for the socket but for
  `readVoltage`, which is skipped for a channel that is off; `Readings` has it and another one.
- `driver`: 3 pages in entries of 2 and 1 give up to three entries, a longer one before or after a shorter
  one, with holes; 4 blocks are one more than a lap; a second probe meets what the first one
  left in registers, table and engine, a file opened in mid-probe among it.

Deadlock is not checked where the bounded number of calls, hits or runs lets the
system stop (`CHECK_DEADLOCK FALSE`); `scmain`, `mux`, `mux_rate` and `power` check it.

### Fairness

`SlowControl` assumes only that a caller in a polling loop goes on polling. That is what
makes `EveryCallReturns` worth something: SC main, the links and the boards may do nothing at
all. `ScMain`, `ReplyRing` and `Readout` assume weak fairness of the clocked
processes and of the software loops; `ReplyRing` also that a board finishes an answer it has
begun. No fairness is assumed for boards starting anything, for faults, resets, timeouts
or stops. `PowerSupply` assumes that both threads run and that `read_power` is called (the
equipment is periodic), and strong fairness of the main thread's `Begin`: the mutex is free for the 10 ms
and more that the read thread sleeps before each pass, so the main thread gets it although it is
not free all the time. Nothing is assumed of requests, trips and late replies but their bounds:
`StateFollows` says that the book keeping is right in the end once they stop. `HitMux`, `RunControl` and
`MudaqDriver` have safety properties only.

## What is proved

`SlowControlProofs`, for any set of callers and boards, any lengths and any bounds,
from the assumptions on constants in `SlowControl`:

- `TypeCorrect`: `Spec => []TypeOK`.
- `Invariance`: `Spec => []IInv`.
- `OwnAnswerHolds`, `CleanOutcomeHolds`: a call that starts in a quiet moment and meets no fault
  and no timeout gets its own answer, and it gets no error code.

`OwnAnswer` is not inductive: an answer carries no caller, so one has to know that there is
no other answer anywhere. `IInv` adds three parts. `Mutex`: a caller is inside a call iff it
holds `sc_mutex`. `Waiting`: the loop a call is in fits its command, and in the acknowledge
loop SC main is done. `OnePlace`: while not upset, the deque is empty and the one command
of the lock's owner is in exactly one place - in SC main, on the link, or as its answer on a
link or in the ring - with only broadcasts beside it. The proof goes through the actions of `Next`;
the callers' steps use that a place of the command determines what the parse can find, the
links' and boards' steps move it from one place to the next, and faults, timeouts and
restarts make the premise false. `sc` checks `IInv` on its instance first.

`AnswerOnceHolds` needs no quiet moment, and therefore another invariant (`OneHome`): each link, the
ring and the deque hold no command twice, any two of them have none in common, and no caller has taken
what is still in one of them. A step moves an answer from one of these places to the next.

The same module proves the refinement: `TransactionImplemented` is `Spec => ImplementsTransaction`.
Beside `IInv` it needs that a call that is not over has returned nothing yet (`Fresh`) and that an
acknowledge carries no value while the promise holds (`Acknowledges`). While not upset, the start of a
call is `Call`, the execution by a board `Execute` or `ExecuteBroadcast`, a return is `Return`, with the
result that `OnePlace` leaves as the only one, and all else stutters.

`ScMainProofs`, for any links, any sizes of memory, commands and FIFO, a RAM with one or two registers and
any number of commands and restarts:

- `TypeCorrect`: `Spec => []TypeOK`; the FIFO never gets a word it has no room for.
- `WellFormedHolds`: `Spec => []WellFormed`.
- `NothingDroppedHolds`: `(\A s \in Size : s + 3 < MemLen) => (Spec => []NothingDropped)`. The hypothesis is
  that each command fits the memory; `FEB_write` does not check it, and with one word more the trailer
  overwrites the preamble (see below). The first two theorems do without it.

`SInv` has three groups. `Stored`, `Addressed` and `Latched` say what the write process has of its command: which
words are in memory, which addresses are in the pipeline of the RAM in each of its states, and that what it
has latched is the word `tx_word_idx` stands for. `Streams` ties the FIFO to both ends: each entry has a place in
the commands - a half of the mask or a word -, the places follow each other from where the links are
(`Reads`: the mask is that of the command and the last word on each of its links the one before)
to where the write process is (`Writes`), passing over commands that do not fit only. `InOrder`: the
words of a link are words of its commands, each later than the ones before, so that a link
that has the trailer of a command has had it as its last word; a restart makes all others `cut`.

`ReplyRingProofs`, for any number of links, any lengths of the answers, of the memory and of the FIFOs, and any
number of answers and resets, from the assumptions in `ReplyRing`:

- `TypeCorrect`: `Spec => []TypeOK`.
- `NeverBrokenHolds`: `Room => (Spec => []NeverBroken)`.
- `ChannelImplemented`: `Room => (Spec => ImplementsChannel)`.

`Room` is `\A n \in DataLen : MaxUnread * (n + 4) <= FifoDepth`: all answers that may be under way fit one link
FIFO. No word is then lost at the input. Nothing in the firmware ensures that: `wrfull` of the FIFOs is not read, a
word that meets a full FIFO is gone, and the parse with it. `MemAssumption` is the same for the RO memory: SC
secondary does not know where the software reads. A FIFO has 256 words and a read answers with at most
`MAX_SLOWCONTROL_MESSAGE_SIZE` = 96 of data, so that callers who fetch what they have asked for keep both; after many
timeouts in a row they need not. In the run both bounds are tight.

That the parser never breaks is not inductive, it depends on every word between the link and the memory.
`RInv` puts the answers of a link, `out[l]`, behind each other (`Starts`: where each begins). `Clean`: the
FIFO of the link holds exactly the words from the one SC secondary is at to the last one sent. A reset may
clear the FIFO under an answer that is arriving; then `Stuck`: the FIFO begins with a word that is no start of a
packet, `waiting` never takes the link up, and what follows is kept out of the memory. `Copying`: SC
secondary is at the front answer of its link, and the word it has captured is the word of that number.
`RingOk`: from the pointer of the software to the published end the memory has the words of `ring`, modulo its
length, then the words written of the answer that is being copied; the end the parser has
sampled is the beginning of an answer or the published end. `Counted` bounds all this by `MaxUnread` answers,
so that with `MemAssumption` two different words of `ring` and of the next answer have different addresses
(`Apart`): what is written is never in front of the parser. For the refinement each step is then a `Send`
(`Begin`), a `Publish` (`WaitWord` at the last word, of an answer that is whole in the memory), a `Fetch`
(`ReadPacket`, which returns the oldest answer of `ring`), a `Reset`, or a stutter.

`PowerSupplyProofs`, for any number of channels and any sequence of readings:

- `TypeCorrect`: `Spec => []TypeOK`.
- `OwnChannelHolds`, `InStepHolds`: a command is sent to the channel it is for, and the reply waited for
  is the last one on the way.

Here `IInv` adds to the two properties and `TypeOK` two parts. `InRange`: a thread that is to begin a
transaction has a channel in its index, which needs that `ReadErrorQueue`, alone, runs with the index past
the last one. `Exclusive`: a thread is inside a transaction iff it holds `power_mutex`. The proof
separates the steps of a transaction, which are the only ones to touch socket, selection and lock,
from all others, which a lemma (`Outside`) deals with at once.

`HitMuxProofs`, for any number of links, any length of a word, any packages and runs:

- `TypeCorrect`: `Spec => []TypeOK`.
- `OwnTimesHolds`: `Spec => []OwnTimes`.
- `NothingLostHolds`: `Spec => []NothingLost`.
- `InOrderHolds`: `Spec => InOrder`, an action property.

`HInv` says of the parser that its stage is the place of the link in its package (`InStep`) and that what
it has stored of the times is of this package. `Numbered`: the hits a link has had are numbered, and the
number gives the place: sent, in the word that waits, in the word behind, in the group that is being
filled. For `NothingLost` a word must have been sent when the next one comes. `Served` is the counting
behind that: of the links up to l, k cycles after the mux was last done with them, those which got a word
since are k-1 and those that wait more; each cycle sends one word of them. As each link has at most one
of them, k is at most the number of links, and a word cannot wait for N cycles, whatever links there are
below its own.

`RunControlProofs`, for any number of boards, any set of active ones and any bounds:

- `RunTypes`: `Spec => []TypeOK`.
- `NoBoardBehind`: `Spec => []NoneLeftBehind`.
- `AllStopped`: `Spec => []StoppedMeansStopped`.
- `AcknowledgesAreNew`: `Spec => []AckMeansPrepared`.

`a10_reset_link` ignores a command that is not the next one of a run, and nothing tells the frontend. What
has to be shown is that this never happens to a command that matters, whatever was denied, cycled or
broken off by a restart before. `Rest` is the part of `todo` that the link has not taken yet (`Written`: the
register holds the head of `todo` or nothing, so a command is taken once). `Way` ties `pc`, `Rest`,
`reset_state` and the state all boards share: after "Abort Run" everything is idle from anywhere, and from
there each command finds the link and the boards where the one before has left them. A board that
has lost its power since is idle or off and knows no run number (`OffKnowsNothing`). `NumberFirst`: the link
sends the number before it can take anything else. `Told`: a number in a link or a listener has been
told to that board. `Numbers`: RUN_NR is the number of the run the frontend starts, and once it has seen all
acknowledges each board it waits for has been told that number. `run_control` checks the same properties.

`MudaqDriverProofs`, for any number of programs, any memory, buffer and table size and any bounds, with
programs that open the file at any time from `misc_register` on:

- `DriverTypes`: `Spec => []TypeOK`. It needs that a walk through the table stays in it and that `Fill`
  writes nothing but entries, also when the list is longer than the table.
- `NothingLeaks`: `Spec => []NoLeak`.
- `MemoryForFiles`: `Spec => []FilesHaveMemory`; a file that is open in a probe that then fails is excepted in the
  property itself.
- `SleepersInformed`: `Spec => []NoSleepOverEvent`.
- `NothingIntoFreed`: `Spec => []NeverIntoFreed`, with an engine that sends its complete blocks after it has
  been switched off; a table that is filled under a running engine is excepted in the property.
- `FirstLapInOrder`: `Spec => [](TableFits => FirstLap)`. `TableFits`: the list has fewer entries than the
  table has locations. It always holds in `driver` (at most 3 entries, 5 locations); in the code the buffer
  has 8192 pages and the table 4096 locations, and nothing excludes a longer list when memory is
  fragmented. The table then wraps over its first locations.

`IInv` ties `held` to the place of the driver: on the way up (`Probing`) what is held is exactly what the
steps before `k` acquire, on the way down (`Releasing`) it is at most what the labels from `k` on give
back, so that a failing step has to jump no later than to the label of its last acquisition. `Unheld`:
what is not held is not set. `Using`: a file is open only from `misc_register` until the registers are
unmapped, then it is stale; nobody reads during `probe`; the engine is switched on only while a file is
not closed. `Seen`: a program about to sleep has seen all interrupts, because an interrupt takes every
marked program out of that place. `driver` checks the same properties on its instance.

`NothingIntoFreed` needs more about the engine (`EInv`), in whatever state it is left. `Filled`: while it
is or is about to become bus master (`Armed`), the table is cleared or its locations before the end of
the list hold entries of the list, also when the list is longer than the table (`LastEntry` finds the one
that stays). `Resting`: a disabled engine is at the start of the table. `Walk`: otherwise it is there, in
a cleared location, behind the last entry, or inside an entry. `Aimed`: the page of the block under way
is one of these, or 0. `Removing`: once `remove` has cleared the table, it stays so, and no block is on
its way but to page 0, until bus mastering is given up; what the engine sends in between because blocks
are left cannot hurt. These survive clearing, refilling and disabling at any place of the walk.

`FirstLapInOrder` adds `LapInv`. `Full`: the entries cover the whole buffer. `InTurn`: a filled table
holds the list, entry by entry, and its length and one more in `n`. `Numbered`: there is a number of
addresses only between filling and clearing. `Parked`: a disabled engine counts from zero. `OnLap`:
before the end of the first lap the number of blocks is the offset of the present entry plus the pages
used of it (`Aiming`: the latched page is that of the mapping); the offsets are those of `dmabuf_mmap`,
which lays the entries one behind the other. A lap thus ends no sooner than the mapping (`PagesTotal`,
`OffsetsGrow`). `Mapped` is defined by recursion over the entries; the lemmas about it (`MappedIs`) take
the least index where the claim would fail.

`ReadoutProofs`, for any length of events, blocks, memory ring and `dma_buf` that `SizeAssumption` allows (an
event with its padding fits `dma_buf`), and any number of hits, timeouts and stops:

- `TypeCorrect`: `Spec => []TypeOK`.
- `RingInOrderHolds`: `Spec => []RingInOrder`; the property is conditional on `~slip` alone and holds with
  timeouts, stops and a thread that is early.
- `HostInOrderHolds`: `Spec => []HostInOrder`; conditional on `early = 0 /\ ~slip`, it holds with timeouts and stops.
- `NothingLostHolds`, `CopiedIsEventHolds`: `Spec => []NothingLost` and `Spec => []CopiedIsEvent`; both
  are conditional on `Undisturbed`: no timeout, no stop, no early step, no slip.

The conditions are part of the properties, the theorems have no further hypotheses. `early = 0` is a matter of
timing that nothing in the code ensures, and `slip` one that nothing in it excludes.

The addresses of the model go round; the proofs count from when the engine was enabled: `Made` words are
in the memory, `k` blocks were sent (`After(k)` after a step). `Ring(k)` has four parts. `Span` gives the
two addresses by these numbers. `Room` is why late back pressure is early enough: the words not yet sent,
with the one in the register, are at most half of the memory and two, one less while the builder is not
held; and if the write address is below the last packet, that packet ends at least a block past the half.
Then the difference is at least the half for the addresses 0, 1 and 2 which the late words can reach - if
a block has more than two words, `SizeAssumption` - and the builder is held until all is sent. The one
case left out, a packet that ends at the half itself, is `slip`. `Signalled`: what is set in `enoughdata`
are the blocks from `k` on that are complete, no two of them the same, but the last while it is still in
`start_dma`. `Noted`: the address on the host is that of block `k`.

For `HostInOrder`, `InRam(k)` adds what the words not yet sent are, `Sync` that enabling bit and thread
agree, `Clean` that `dma_buf` is clean when the first word is written; with them `OnTheHost` is
inductive.

While nothing is disturbed there is more to say (`Quiet(k)`). `Phase`: the builder has put out nothing of
the event (`Unasked`), or all of it (`Full`), or the number of words that its state and counters tell
(`Building`); the word in the register counts (`Written`). `FifoOrder`, `StreamOrder`: what waits is
later than what has left, and the event is hits in their order with padding behind. `OnHost(k)`:
`dma_buf` holds the first `k` blocks and is clean behind; as the padding is a whole block, and the last
word is in the memory and signalled when the thread disables, the engine comes to rest with all hits on
the host only. `Account(k)`: `NothingLost` by these numbers. TLC has checked the parts on small instances
with rings of different lengths first.

Only model-checked: all liveness, that is `EveryCallReturns`, `BecomesIdle`, `EveryAnswerFetched`,
`EventCompletes`, `StateFollows` and `CallbackReturns`. Liveness under fairness is out of reach of the prover.
All safety properties of the passing runs are theorems.

## Disagreements found

By a run (`PROJECT.json`, "findings"):

- `ring_reset`: a reset while an answer arrives leaves a rest without a start of packet in the link
  FIFO; `waiting` does not pop it and the link is dead until the next reset.
- `mux_rate`: a word that arrives in the cycle in which its predecessor is sent is lost. With
  words in step every fourth cycle, which the header allows, link 3 loses every second word.
- `run_mask`: `||` for `|`: only board 0 is waited for.
- `driver_lap`: `mudaq_set_dma_n_buffers(mu, i + 1)` after `i` entries (`mudaq.c:465`), while the engine goes back
  when the next location reaches that number (`dma_engine.vhd:595`): each lap sends one block to a
  location that was not written.

Met while modelling, without a run (those of `Readout` and `MudaqDriver` are behaviours of the models; TLC
shows them when the condition is taken out of the property that excepts them):

- Back pressure comes late and can drop at the turn of the ring. `memhalffull` is a register
  (`dma_engine.vhd:707`) and the words pass another one (`pcie_block.vhd:377-388`). If the write address
  goes round while the last packet ended at the half, it goes on to 1 or 2, where the plain difference is
  below the half: the builder goes on until the ring is overrun (`overflow` is set, but read by nobody
  who would stop), and after an overrun the addresses can stand so that the builder is held for ever.
  Needed is that the engine is held up by the PCIe core for half of the memory at that point; with `slip`
  taken out, `RingInOrder` and `EventCompletes` are violated on an instance with a ring of 12 words and
  events of 24.
- `done` is the builder's flag, not the engine's, and nothing waits for the engine
  (`readout_fe.cpp:405-424`): a thread that is early copies a buffer without its last block, or has a
  late block written into the buffer it has filled for the next event. `NothingLost`, `CopiedIsEvent` and
  `HostInOrder` are violated when `early` is taken out.
- `mudaq_deactivate` "deactivate any readout activity before removing the dma memory" (`mudaq.c:263`),
  and before setting it up "to always start in a consistent state" (`mudaq.c:311-312`): it clears a bit
  that the engine looks at only when no complete block is left. If bus mastering is switched off with
  blocks left, the engine is never disabled and goes on in the middle of the table that the next `probe`
  fills: `NeverIntoFreed` is violated without `moved`, by a walk past the end of a new entry.
- A program that opens the file between `misc_register` and the end of a probe that then fails has its buffers and
  registers taken away while the file is open (`mudaq.c:437`, `445-451`, `518-524`).

- "One transaction at a time" (`FEBSlowcontrolInterface.cpp:68`) ends with a timeout, not with the
  transaction: a call that gives up releases `sc_mutex` with its command under way. The next call runs
  beside it, and since no reply is compared with what was asked, it may take the late answer
  as its own. `OwnAnswer` therefore speaks of calls from a quiet moment on.
- `create_midas_events` takes `maxwords * 4` 32-bit words of the `maxwords * 8` that were requested
  and copied (`readout_fe.cpp:279`, against lines 445 and 459): half of each event is left.
- "dont read from the buffer if the status is not done" (`readout_fe.cpp:418`): the `continue` is commented
  out.
- `ReadAll` writes State to the ODB after its book keeping and only if that has changed
  (`HMP4040Driver.cpp:159`): a push of `SetStateChanged` in between is overwritten with the older value, and
  nothing repairs it; the ODB goes on showing a channel on that is off.
- `SetStateChanged` compares all channels with their demand (`PowerDriver.cpp:794`): a change of one channel
  switches another on again that its protection had switched off.
- `read_power` never gives up on a supply: `GetNReadFaults() >= 3` is looked at only where the count has
  just been reset (`power_testbench.cpp:592-604`).
- A failing ioctl clears the table of the engine (`mudaq_fops.h:252`), for all programs; closing the
  file stops the DMA (`mudaq_fops.h:184`), for all programs.
- `mudaq_register` returns 0 when it gets no number or no name (`mudaq.c:424`, `434`, `445`).
- `FEBsc_resetSecondary` leaves `sc_packet_deque` as it is, so packets parsed with a broken one
  survive "communication error, resetting" (`FEBSlowcontrolInterface.cpp:290-294`).
- `FEB_write` accepts 2^16-1 words (`midas_fe/constants.h:73`), four more than the RW memory has room
  for; with 65533 the masked trailer index overwrites the preamble.
- After a timeout the builder is in the middle of an event with `word_counter` cleared
  (`musip_event_builder.vhd:135`): it counts through its whole width before the next `done`.
- RUN_END_ACK resets nothing as long as RUN_START_ACK is reset with it
  (`run_control_link_listener.vhd:41`, register text in `firmware/registers/a10_pcie_registers.vhd:26`).
- The time counter is held at zero while a run is acknowledged (`run_control.vhd:89`, comment at 81-82).
- The reset link's payload of Stop Reset is never sent (`a10_reset_link.vhd`, direct commands).

## Plan

Done in this order: `FebTransaction` and `SlowControl` with proofs, `ScMain`, `ReplyChannel` and
`ReplyRing`, `Readout`, `RunControl`, `HitMux`; then `PowerSupply` and `MudaqDriver` with proofs, and the
proofs about `RunControl`. Not yet:

1. `NiosRpc`: `FEBsc_NiosRPC` over the actions of `FebTransaction`, two callers on one board; the
   split of oversized reads goes with it.
2. `Demerger` in front of `HitMux`, `ReplyRing` and `RunControl`.
3. `Acquisition`: `RunControl` and `Readout` composed, for the order of transitions (stop: 600
   quads, 700 readout) and hits of the last run in the FIFO; the MIDAS ring buffer in `Copy`.
4. `AsicConfig`: packing of configuration bits against a reference definition.

The safety properties checked so far are theorems; the ones to prove next are those of these modules.

## Not modelled

Large parts of the sources hold no state that is shared or survives a call: the analyzer, web
pages, tools, header tables (`json.h`, `mask_edge.h`) and the set-up of the ODB. The other
frontends of the environment (high voltage, temperatures, pumps, magnets) are one thread each that asks
its instrument and writes the answer to the ODB. PCIe transactions, transceivers and clocks are below
what the modules speak about, a register or memory access is one step.

Hazards without a property, beside those of `PROJECT.json`:

- A link FIFO of SC secondary drops words when it is full (`swb_sc_secondary.vhd:68`); `rearm_wait`
  then waits for an end of packet that never comes. The boards of the model send one answer each.
- `FEB_read` of more than 96 words ignores the status of its halves (`FEBSlowcontrolInterface.cpp:206`).
- With the MIDAS ring buffer full the readout thread spins with the DMA stopped (`readout_fe.cpp:302`).
- The reader of a supply starts at the end of `Connect` (`PowerDriver.cpp:87`), before `Init` has set the
  channels up: `PowerSupply` begins after `Init`.
- A package of another data type than MUPIX, SCIFI or TILE (`musip_mux_4_1.vhd:156-194`) counts its hits
  and sends for each a word with the bits of the hit before: `HitMux` sends no such packages.
- `memwriteaddreoe_long` keeps the end of an earlier event over a timeout (`dma_engine.vhd:680`).
- A request of one word runs through 2^32 words (`musip_event_builder.vhd:152`); `SizeAssumption` excludes it.
- A slow control packet without trailer leaves the demerger in STATE_SC (`swb_data_demerger.vhd:71`).
- A buffer of 4096 or more fragments wraps the table of the engine (12 bits); `Fill` has the wrap,
  the instance of `driver` has fewer fragments than locations.

## Running

    tlc -config SlowControl.cfg MCSlowControl
    tlapm SlowControlProofs.tla
