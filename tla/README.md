# A TLA+ development of Silice and its wave player

Silice is a hardware description language and its compiler. This repository is
a fork of it whose own program is a music player on an FPGA, in
`src/learn-silice/classroom/soc_wave_player/`: a system on chip written in
Silice (`cabillot.si`) and the firmware that runs on its RISC-V processor
(`firmware/step9_cabillot.c`, `my_utils.c`, `music.c`, `sdcard.c`, ...).

Two things are modelled: that player, a small real-time system in which a
processor without interrupts keeps a free-running audio circuit fed, only by
polling; and the two transformations of the compiler on which every design
written in Silice depends, algorithms into state machines and pipelines into
stages. The SDRAM controller, the largest piece of concurrent hardware of the
common library of the repository, is modelled with the chip that it drives, and the
processor of the player is modelled cycle by cycle.

In the tables below, paths are relative to `soc_wave_player/` unless they start with
`src/`.

## 1. The system

### Components, state, operations

| component | where | state | operations |
|---|---|---|---|
| audio streaming circuit | `cabillot.si:118-129, 161-179, 248-263` | `audio_buffer_select`, `audio_buffer_sample`, `audio_counter`, 2x512 samples, the read port, the recorded access of the processor | one clock cycle, with or without a store of the processor |
| playback | `firmware/my_utils.c:53-116`, `step9_cabillot.c:248-285` | `addr`, `loop`, `pause`, `output_signal`, the file position | `clear_audio`, `read_audio_file`, `play_music_callback` |
| menus | `step9_cabillot.c:112-246` | `selected_playlist`, `menu_start_pl_item`, `current_music`, `menu_start_item` | one iteration of each loop, what follows a music |
| library | `firmware/music.c`, `step9_cabillot.c:65-93` | `musics[32]`, `playlists[32]`, `img_names`, `buffer` | `list_music`, `check_image`, `create_playlist`, `list_playlist` |
| SD card driver | `firmware/sdcard.c` | pins, `answer`, the destination; the card's own state | `sdcard_init`, `sdcard_readsector` and what they call |
| OLED unit | `src/projects/ice-v/SOCs/ice-v-oled.si`, `firmware/oled.h` | `osc`, `dc`, `sending`, `busy`, pins | cycle with or without `enable` |
| state machines | `src/src/Algorithm.cpp` | graph of blocks, states, `_q_index`, caller ids | `gather`, `generateStates`, `writeStatelessBlockGraph`, a cycle of what is written |
| pipelines | `src/src/Algorithm.cpp` | per stage: index, `full`, trickling variables | a cycle: triggers, code of each stage, stall |
| SDRAM | `src/projects/common/sdram_arbitrers.si`, `sdram_controller_autoprecharge_r16_w16.si` | buffered requests, `working`; `refresh_count`, `work_todo`, pins; the banks of the chip | one clock cycle |
| peripheral decoding, PWM units | `cabillot.si:35-52, 180-246` | `prev_*`, `led0..7`, pins | load, store |
| processor | `src/projects/ice-v/CPUs/ice-v.si` | registers, `pc`, `instr`, outputs of `execute`, shifter | fetch, read, execute, access, one clock cycle each |
| text and images | `firmware/display.c`, `oled.c` | frame buffer, cursor | `display_putchar`, `display_refresh`, ... |
| FAT library | submodule `fat_io_lib`, absent from the tree | - | `fl_fopen`, `fl_fread`, `fl_readdir`, ... |

### How they interact

* The processor and the audio circuit share the audio memory. The circuit plays
  one bank while the processor may write the other one; it swaps them by itself,
  every 512 samples (64 ms). The processor cannot stop it and gets no interrupt:
  it reads `*AUDIO`, the address of the bank to which it may write, and a change
  of that address is the only sign of a swap.
* A store of the processor goes to the bank that is not played *when the store
  reaches the memory*: the bank bit of its address is ignored
  (`cabillot.si:254-256`). A pointer read before a swap therefore does not go on
  designating the same bank.
* `read_audio_file` calls `play_music_callback` while it waits for a swap. The
  callback changes the caller's locals through pointers, may call `clear_audio`
  itself, and may block until a button is released. It returns a signal to the
  menu, which decides what to play.
* The FAT library calls `sdcard_readsector`; the driver moves the pins of the card
  by stores, and samples its answer by loads.
* `oled_pix` stores a byte in the OLED unit and counts on a fixed number of
  instructions before the next one: nothing tells it that the unit is free.
* The compiler turns algorithms into graphs of blocks, chooses the blocks that
  are states, and writes the code of each state. A pipeline becomes one machine per
  stage, started by triggers that all stages compute in the same cycle.
* Users of the SDRAM pulse `in_valid` and wait for `done`; the arbiter buffers one
  request per user and gives them one by one to the controller, which sequences
  the commands of the chip and inserts refreshes.

### What is hard

1. *Polling against a circuit that never waits.* A load that is not finished at
   the swap is torn between the banks; a poll that comes late replays a bank.
2. *State read before a wait and used after it.* `addr` across the callback,
   which may last several swaps; `pause` and `loop`, changed by successive calls
   of the callback.
3. *Draining.* What is in the two banks when a music ends, stops or pauses must
   be played or cleared, in the right order.
4. *Levels, not edges.* Every read of `*BUTTONS` sees a level; one press may be
   seen by several loops.
5. *Two variables for one position.* `current_music` and `menu_start_item` are
   updated by separate code in five places.
6. *Cycle accuracy.* The counters of the audio circuit, the clock of the OLED, the
   delays of the SDRAM and the phases of the processor are sequences of registers one
   cycle apart.
7. *A bare protocol.* The answers of the SD card all come on the same pin, and the
   driver leaves some of them unread.
8. *Arrays and codes.* Names, lines and playlists that just fit, or do not; errors
   returned as -1 in an unsigned `char`.
9. *A graph that changes under its flags.* Blocks become states after decisions
   taken on the assumption that they were not; the last index assigned in a state
   wins.
10. *Triggers of a pipeline.* Idle, busy, full and stalled stages decide together,
    while the algorithm may leave in any cycle.

`PROJECT.json` lists each hazard at its line.

### What makes each component correct

* audio circuit: plays every sample of a bank once, in order, at a constant
  rate, swaps take no time, and the bank being played is out of reach;
* playback: the samples of the file are heard in order, each once, without a
  gap; silence when nothing is played; LEDs off; returns when it should;
* menus: the selected item exists and is on the screen; one press, one action;
* library: indexes and names fit their arrays, a playlist is what its file says, and the menu
  has the playlists that were made;
* SD card driver: a sector read is the bytes that the card gave for it, whole and in its
  place, and an answer is that of the command just sent;
* OLED: bytes arrive in order and whole, none overwritten while being shifted;
* state machines: the circuit does what the program says, in the cycles its
  control flow calls for;
* pipelines: every token goes through every stage, once and in order;
* SDRAM: a memory, to each of its users, and a chip whose delays are respected;
* processor: RV32I, one instruction at a time, in the announced number of cycles.

## 2. The modules

```
DoubleBuffer          what the audio hardware promises (abstract)
   ^ implemented by        ^ used by (INSTANCE)
AudioBuffer           StreamPlayer --implements--> PlayContract      PlayerMenu
   ^ EXTENDS             ^ EXTENDS                                      ^ EXTENDS
AudioBufferProofs     StreamPlayerProofs                             PlayerMenuProofs
MCAudioBuffer                                                        MCPlayerMenu

Library <--EXTENDS-- CardProofs --EXTENDS--> SdCard
   ^ EXTENDS
MCLibrary                                             Oled   MCOled, OledProofs

FsmCompiler            graph, states and code of an algorithm (operators)
   ^ EXTENDS
FsmExec  --INSTANCE--> FsmSource   the circuit beside the meaning of the program
   ^ EXTENDS
MCFsm                  the programs

Pipeline    PipelineProofs    MCPipeline

SdramArbiter           users and arbiter
   ^ EXTENDS      ^ EXTENDS
SdramMemory  <--implements--  Sdram     the controller and the chip
                                 ^ EXTENDS
                              MCSdram, SdramControllerProofs

Rv32                   words and instructions
   ^ EXTENDS    ^ EXTENDS
RiscV  <--implements--  IceV       the processor and its bus
                           ^ EXTENDS
                        MCIceV, IceVProofs
```

### `DoubleBuffer` - the contract between circuit and firmware

Variables `wbank` (the bank the processor writes), `pos` (the sample being
played in the other one) and `bank`. `Put` stores a sample in the bank not
played; `Advance` and `Swap` (together `Tick`) move the player. `FairBuffers`
adds that the player never stops.

### `AudioBuffer` - the circuit, cycle by cycle

One action, `Cycle(access)`: the always block of `cabillot.si` for one clock,
with the access that the processor issues in that cycle. Every right-hand side
of the always block reads the registers of the cycle, so primed variables are
computed from unprimed ones only. `NextSelect`, `NextSample`, `NextCounter`,
`ReadAddr`, `Which`, `LowWord`, `WriteAddr` and `NextMem` are the source's
expressions, one operator each. Two delays matter and are kept: a store takes
effect one cycle after it is issued (`prev`), and the BRAM answers one cycle
after it is addressed (`rdata0`). A load only changes `prev` and is the same
access as a fetch (`NoStore`). `rdata0` has no reset value, so any sample is a
possible initial one.

`DB` is the refinement mapping: `select` is `wbank`; `sample` is `pos`, except in
the single cycle where it is N, which still counts as the last sample.

### `StreamPlayer` - reading a file into the double buffer

`read_audio_file`, `clear_audio` and `play_music_callback`, one action per
statement that reads or writes something shared: each read of `*AUDIO`, each
byte stored, each poll, each `fl_fread`. `pc` names the statement. `PlaySample`
is one sample of the hardware and interleaves with everything. The buttons are
not a variable: the callback reads them once (`*BUTTONS & ~1`) and each outcome
is an action - `Stop` (LEFT, DOWN or UP alone), `Pause` and `Resume` (RIGHT
alone), `NoButton` (anything else) - so a press may come and go at any time.

A sample is the number of its block (0 is silence) and its index is its place in
the bank, because byte k of a block is always stored at index k. `heard`,
`quiet` and `risky` are history variables: the furthest sample played, whether
the last one was silence, and the blocks whose load was started by something
else than a swap (the first block after `fl_fopen`, the first one after a pause).

The file is B full blocks and a shorter rest, which `read_audio_file` does not
play. `fl_fopen` may fail at each try; `fl_fread` fails only at the end, since
`sdcard_readsector` reports no error (`sdcard.c:206-209`). The audible level of
the LEDs is not modelled, only whether some are on. `run_callback` is only used by
the intro's callback, which does nothing to the playback.

### `PlayContract` - what a call of `play_music` is

What a call may do, without samples or banks: opened or not, stopped, paused and resumed,
and it returns, never while paused. `StreamPlayer` implements it (`ImplementsPlay`; `phase`
tells where its statements are in the call, and a music is paused once both banks are clear).
The contract ends an error only when the user does, as `WAIT_INPUT()` does in `my_utils.c:93`.

### `PlayerMenu` - the two menus

The endless loop of `main`, one action per `if` or `while` that reads
`*BUTTONS`; the buttons held are a variable and the user may press or release
one between any two steps. `play_music` is reduced to its effect on `loop`,
`pause` and `signal`: its actions are those of `PlayContract`, with the buttons, so that nothing
is asked of the menu about them. BTN_ZERO, which only leaves an error, is not
one of the buttons. `Shown` stands for the two loops that print the items
`start .. start + MAX_LISTED_ITEMS - 1`. The locals of the music menu, which do
not exist outside its block, are 0 there. History: `used` are the buttons whose
current press has been acted upon; `auto` tells that a music followed another
one since `menu_start_item` last changed.

Playlists have at least one music here (`MenuAssumption`): `list_playlist` ignores the empty
ones and `main` returns when there is no music. What `Library` gives to the menu is
`MenuReady`: that, but for a playlist that did not open, which has no music, and for a
directory of playlists that did not open, which makes 256 playlists of which one exists.

### `Library` - musics, images and playlists

`list_music`, `check_image`, `list_playlist` and `create_playlist`, one action per
directory entry and per character of a playlist, with the arrays they write to:
`img_names` is one run of cells, row after row, so that a terminator may land in
the next row, as it does in C. A write out of an array sets `stray`, and nothing is
modelled after it. `failed` and `unopened` record what could not be opened; an error is 255
(`Failed`), as -1 in a `char` of RISC-V is, so that main goes on with 255 musics or with 256
playlists (`n_playlists`).

`Fitting` is the hypothesis of the theorems on the card, and the cards of `MCLibrary` have it,
which TLC evaluates. Names may have any length; those of the lines of a playlist have the
lengths that `README.md:69` allows, up to 25 characters (`NameLen`, `MAX_MUSIC_NAME_LENGTH`), and
there are no more files, nor musics in a playlist, than the arrays hold. What 25 characters do
is part of the properties: `NoStray` has the writes that go out of an array then, and
`ImagesFound` the names that lose their terminator (`Ended`). What a playlist should hold is
defined apart from the buffer, by cutting its text at the newlines (`Listed`, `Expected`).
What is behind the first dot of a file name never matters and is left out.

### `SdCard` - the driver and the card

Each call of `sdcard_cmd`, `sdcard_get` and the loops of `sdcard_init` and
`sdcard_readsector` is a value of `call`; `Clock` is one turn of the loop of `sdcard_read`.
`sdcard_send` is computed pin by pin (`Shifted` is its shift, by `clk`). The card is
external: it answers after any of `Waits` bits, with any of `Statuses` to a read, gives a block
or one of the tokens of `Errors` to a read that it accepts, and keeps in `out` the bits that the
driver has not clocked out. That queue is what makes the unread half of the CRC
(`sdcard.c:145`) a question. Cards are of version 1 or 2 and of standard capacity, or of high
capacity (`Models`): the driver sends the number of the sector to all of them
(`sdcard.c:125-128`), and `From` is the byte from which the card reads then, 512 times that
number (`Bytes`) for a card of high capacity, and that number for the others.
`SdCardAssumption` says that a sector and a read are not empty, that sector numbers have 32
bits, and, with the SD specification, that a status and an error token start with a zero: it
is this bit that ends the wait.

### `Oled` - a byte, bit by bit

The unit, in its two versions (2 or 4 cycles a bit), with a processor that sends a
byte `Gap` cycles after the previous one at the earliest, and a screen that takes a
bit at each rising edge of the clock. `Gap` is what `oled_wait` and a store
take, counted in instructions of 3 and 4 cycles. `GapAssumption` asks for less: seven bits
and two cycles (16 and 30), the time to raise the clock for the last bit.

### `FsmCompiler`, `FsmSource`, `FsmExec` - state machines

`FsmCompiler` is the compiler: a chain of operators from a syntax tree to the code of
each state, with the functions of `Algorithm.cpp` by their names. `gather...` build the
graph, `Resolve` the forward jumps, `fastForward`, `preventIfElseCodeDup`,
`renumberStates` and `generateStates` choose the states, and
`writeStatelessBlockGraph` writes them. An instruction or a test is its place in the
source; expressions and text are left out. `FsmSource` says what a program means:
the next event after each event, and the cycles between them. `FsmExec` executes
both: a cycle runs the code of the state, the last index assigned is the next
state, and calls save and restore the caller ids as the registers of the
subroutines do. Tests may have any outcome.

These modules use RECURSIVE operators on trees, and nothing is proved about them.

### `Pipeline` - stages

One action, `Cycle`: the triggers of all stages (`Triggers`), the code of each stage
for its state, and the flip-flops. A token is the number of an execution of
stage 0. `waits` is the set of the stages that stay in their state (a loop in a
stage), `asks` those whose stall condition holds. The algorithm (`root`) may feed
the pipeline, do something else or end in any cycle. `Regular` excludes the case of
the finding `pipeline_first` below.

### `SdramArbiter`, `SdramMemory`, `Sdram`

`SdramArbiter` has the users (a pulse of `in_valid`, then wait for `done`) and the
arbiter, one disjunct per branch of its switch. `SdramMemory` adds what the users are
promised: a memory that takes any number of cycles to read or write, and answers
once. `Sdram` replaces it by the controller - one action per state that the compiler
makes of the source - and by the chip: commands act at the next edge, words come out
`CAS` cycles after a read, banks are opened, closed by themselves and precharged in
their delays. The map `memBar`, `todoBar` shows `Sdram` to implement `SdramMemory`:
a write takes effect when its command is on the pins.

### `Rv32`, `RiscV`, `IceV` - the processor

`RiscV` is what a program expects: one instruction at a time, as the RV32I
specification tells it. `IceV` is the circuit, one action per state of the algorithm of
`rv32i_cpu` (`Fetch`, `Read`, `Access`, `Transaction`, `Commit`), and in each of them one
cycle of `execute`, whose outputs are registers (`Execute`, `Outputs`), of the register
banks, that answer one cycle late with what was there before a write (`Registers`), and
of the bus, on which peripherals see everything one cycle after the memory (`Bus`). The
adder of `execute`, its comparisons from one subtraction with one more bit, its
bit-by-bit shifter and its byte lanes are those of the code; `RiscV` uses signed
integers and powers of two.

Words are small: four bytes of `BYTE` bits. `Decode` gives the instruction that a word
encodes, so that a program is in the memory, may be read as data and may write over
itself; the formats of immediates are left out with it. `ImplementsRiscV` maps the
circuit to `RiscV`: an instruction that computes is done as soon as the ALU was
triggered, its register then holding, whatever partial shift is committed to it, the
shift still to come (`AllBits`); a load or a store is done when the memory was
accessed. Programs are assumed to keep their code in `CODE` words and to align their
accesses (`Legal`), where `CODE` is half of the RAM: see `MCIceVHighCode` below.

## 3. The runs

| run | question | bounds |
|---|---|---|
| `audio` | is the circuit the double buffer, for every mask of a store, both words of a bank and every interleaving with the cadence? | 8 samples a bank (2 words), period 1, two sample values, 3 masks (a byte, a half, a word) |
| `stream_player` | playback, with pauses, stops, resumes and failed opens at any moment | 4 blocks of 4 samples, 2 samples played between two polls |
| `stream_in_order` (violation) | is a file played once, in order? | 3 blocks of 4 samples |
| `menu` | both menus, playing, skipping, pausing, with any presses | 2 lines on the screen, playlists of 4, 3 and 1 musics |
| `library` | are arrays respected and lists complete, whatever fails to open? | cards of up to 2 musics, images and playlists, names of 1 to 4 characters for a maximum of 3, texts of 4 characters and lines of up to 3, each directory and playlist opened or not |
| `sdcard` | are answers told apart and sectors put in place? | 2 sectors of 2 bytes from block 255 on, bytes 0 and 254, waits of 0 and 5 bits, the three kinds of card, a read refused, given a block or given an error |
| `oled` | do bytes arrive whole, in both versions? | 3 bytes among 1, 150 and 255 |
| `fsm` | does the circuit do what the program says, in its cycles? | every body of up to 4 statements with conditionals, loops, breaks, switches; with labels and jumps, subroutines that call each other, returns and joins, of up to 3 or 4 |
| `fsm_return` (violation) | the same for a return in the loop of an algorithm | the program of `src/tests/return_in_algorithm.si` |
| `pipeline` | do tokens pass, in order, once, in the end? | 3 stages of 1, 3 and 2 states, the last two may stall, in a conditional, 4 tokens |
| `sdram` | is the memory a memory? are the delays kept? | 2 users, two rows of one bank, 2 words, a refresh after 2 turns |
| `icev` | does every program see RV32I, in the announced cycles? | words of 8 bits, 8 words of RAM and 8 of peripherals, 3 registers; any 3 of 35 instructions, then a jump back; 6 instructions run |

*Why the bounds are enough.* The audio circuit compares `sample` with N and `counter`
with PERIOD, and both comparisons meet every phase of a store already with two
words and a short period; the data path moves one byte, so two values that differ
on neighbouring lanes show any byte taken from or put in the wrong place; and
the theorems below hold for every size. For the player, a block is affected by
the one before and the one after, and a swap can only fall before, inside or
after a load: four blocks have an inner one whose neighbours are inner on one
side, and Budget = 2, N = 4 lets a swap fall between any two stores of a load.
`Budget` is as large as its assumption allows (2 * Budget <= N); with
2 * Budget = N + 1 the player does lose blocks. Menus of 4, 3 and 1 items with two
lines have a full last page, a partial last page and no second page. Names and
lines shorter than, equal to and longer than their arrays are all there. Block 255
and the next one differ in two bytes of the address; the byte 254 ends with a 0, which
is what a wait looks for. A conditional in a conditional in a loop takes four
statements, and every decision of the compiler looks at one conditional and what
follows it. Three stages have a first, an inner and a last one. Two rows of one bank
with different columns are the worst case of the SDRAM, an access that must wait
for the precharge of the previous one, and the delays of the chip are its real
ones; the power-up and the refresh interval are shortened. For the processor, what an
instruction leaves to the next one is in registers that the next one rewrites, so that
pairs matter; three instructions have every pair, with a producer before it, and twice
when the jump back is taken. Bytes of two bits have a sign and lanes that differ, and a
shift by 0 to 7.

*Deadlock* is checked in every run but `icev`, where a program ends at `MAX_RETIRED`
instructions or where it leaves what is assumed of it (`Legal`).

### What they show

`AudioBuffer`: `ImplementsDoubleBuffer` (the circuit is `DoubleBuffer!FairBuffers` under
the mapping), `DacPlaysBank` (what goes to the output is what the bank being played
still holds), `Isochronous` (the banks are swapped every N*(PERIOD+1) cycles
exactly), `TypeOK`.

`StreamPlayer`: `Seamless` (no sample skipped and no silence between samples, except
around a risky block), `NoReplayWhileLoading` (nothing is heard twice, except inside
`clear_audio`), `PlayedToTheEnd`, `SilentWhenStopped`, `LedsOffWhenStopped`,
`CopiesInOneBank`, and `ImplementsPlay`, with its liveness: a music that is not paused ends,
and one that is stopped returns.

`PlayerMenu`: `SelectionShown`, `MenusDebounced`, `PlaylistEnds` (an untouched playlist ends,
or stops at the message of a music that cannot be opened), and `TypeOK`, which includes that
the selected items exist.

`Library`: `NoStray` (which writes go out of an array, and that no other does), `ImagesFound`
(and which images are lost), `PlaylistsComplete`, and `MenuReady`, what the menu is given when
things do not open. `SdCard`: `OwnStatus`, `SectorsPacked` and `ReadEnds`. `SectorsPacked` says
what the buffer has, which is what the card gave: a refused read leaves no gap, so that the
next sectors are in its place; an error token is stored with the ones behind it; and the block
is the one at the number that was sent, which is the sector for a card of high capacity only
(`SectorsWanted`, proved for these cards and violated with the others). `Oled`:
`BytesIntact`, `AllArrive`.

`FsmExec`: `SameEvents`, `CyclesPredicted` and `NoCodeDup` (no instruction is written
twice in the circuit).

`Pipeline`: `EveryTokenPasses`, `InOrder`, `Drained` (`done` means that nothing is
left inside), `TokensExit`, `TypeOK`.

`Sdram`: `ImplementsMemory`, `NoneLost`, `TimingsKept`, `Served` (for the two users of
highest priority: the third one may starve) and `Refreshes`.

`IceV`: `ImplementsRiscV` and `Timed` (every instruction takes the cycles of
`src/projects/ice-v/README.md:29-30`, so that each one ends).

The other modules have a `TypeOK` as well, which says what their variables hold.

### What the code does otherwise than its documentation

Shown by runs:

* `stream_in_order`: when a music ends, the block *before* the last one is
  played again (64 ms). After the last swap the bank being filled still holds the
  penultimate block; the final `clear_audio` (`my_utils.c:113`) first waits for a
  swap without touching it (lines 55-57), so it is played once more.
  The same happens when a music is stopped.
* `fsm_return`: a `return` of an algorithm assigns the index of the end, and the code of the
  same state goes on: at the end of a loop's body the index is assigned again, and the
  algorithm never ends.

Reproduced by further configurations, one property each; the property that a row names, and one
after "also", takes the place of the one in the file, and constants the values named, if any:

| configuration | property | what happens |
|---|---|---|
| `MCAudioBufferGlitch` | `DacCurrent` | for one cycle after each swap the output gets sample 0 of the bank just finished: the address has the old bank and the new index (`cabillot.si:170-171`) |
| `StreamPlayerLeftReturns` | `LeftReturns`, also `NothingSkipped` | LEFT followed by RIGHT before the next swap leaves `loop = 0` and `pause = 1`: the menu does not come back until another button is pressed; a swap inside the first load of a music, or the first one after a pause, tears the block; the loop `while (addr == *AUDIO)` ends at once and the next block overwrites what was stored |
| `MCPlayerMenuScrolled` | `MenuScrolled`; in its place `SkipDebounced`, `PauseDebounced` | a music that follows another one changes `current_music` but not `menu_start_item`: the selected item may be on another page; the callback reads levels: a button held skips a music per file opened, RIGHT held from the menu pauses the music it starts |
| `MCLibrarySeparated` | `PlaylistsSeparated` | a last line without a newline is dropped |
| `MCLibrarySeparated` | `NothingStray`, with `Cards <- MCLongLine` | the newline of a line of 25 characters, which `README.md:69` allows, is written at `buffer[25]` (`music.c:99, 114`) |
| `MCLibrarySeparated` | `ImagesShown`, also `NamesEnded`, with `Cards <- MCLongName` | the row of `img_names` for a name of 25 characters has no room for its terminator (`music.c:41, 47`) and its music no image; `strncpy` ends no name of a playlist of 25 characters, which `README.md:83` allows (`music.c:91`) |
| `MCLibrarySeparated` | `PlaylistFits`, with `Cards <- MCRepeated` | a playlist of more than `MAX_MUSICS` lines goes past its array (`music.c:110`) |
| `MCLibraryError` | `ErrorShown` | -1 in an unsigned `char` is 255: when the directory of musics does not open, the player goes on with 255 musics |
| `MCLibraryError` | `OnlyMade`, with `MayFail = {"playlists"}` | when the directory of playlists does not open, `list_playlist` returns 255 (`music.c:124-125`), `n_playlists` is 256 (`step9_cabillot.c:87`), "SD_CARD ERROR" is not shown (line 89) and the menu has 255 playlists that nobody made |
| `MCLibraryError` | `NoneEmpty`, with `MayFail = {"playlist"}` | a playlist that does not open is offered, without musics (`music.c:97, 131`) |
| `SdCardBytes` | `SectorsWanted` | a card of standard capacity takes the number of a sector for that of a byte (`sdcard.c:121-132`): another block is read, with status 0 |
| `MCFsmLabel` | `SameEvents`, also `DeadendNotStateless` with `Programs <- MCDead` | a label in a branch, jumped to from further on, becomes a state after `if_stateless` was computed (`Algorithm.cpp:3106`) |
| `MCFsmSwitch` | `SameEvents`, also `OnlyWrittenStates` with `Programs <- MCNoReturn` | a switch without default, with a state in a case, repeats the state for the other values; the call of a subroutine that never returns queues a state without a number |
| `MCFsmOneSide` | `CyclesDocumented`, also with `Programs <- MCExit` | one more cycle than `Documentation.md:1371` and `1338` say |
| `MCPipelineFirst` | `EveryTokenPasses` | in a conditional, a first stage of two states keeps its token when the algorithm leaves (`Algorithm.cpp:8798`) |
| `MCSdramRefresh` | `RefreshedInTime` | `refresh_count` counts turns of the main loop, not cycles: a turn that serves a request takes 8 to 11 cycles, and under load the chip is refreshed up to ten times later than `refresh_cycles` |
| `MCIceVHighCode` | `ImplementsRiscV` | the adder of addresses takes `pc[0,addrW-2]` (`ice-v.si:61`), two bits less than `pc` and one less than the RAM has: code in the upper half of the RAM, which `firmware/config_c.ld:3` allows (64 KB, the half is 32 KB), branches to the lower half |

## 4. Fairness

* `AudioBuffer`, `Sdram`, `Oled`: weak fairness of the clock cycle. The circuits are
  synchronous. No request and no byte is ever assumed.
* `StreamPlayer`: weak fairness of `PlaySample` (the circuit), of `Firmware` (the
  processor executes its only program, without interrupts) and of the *release*
  of a button. No press is ever assumed.
* `PlayerMenu`: weak fairness of the firmware, of the end of a music that is not
  paused (`ImplementsPlay` of `StreamPlayer` has it), and of the release
  of each button. No press is assumed.
* `SdCard`: the driver does not stop, and a card asked again and again whether it is ready
  is ready some time (strong fairness: it is asked in one phase of a loop). This is
  what the SD specification requires, and the driver has no other way out of the loop.
* `Pipeline`: weak fairness of the clock; strong fairness of `Calm` and `Flow`, which say that
  stalls and waits do not last for ever and that the algorithm comes back to the
  pipeline. A stage whose stall condition never ends keeps its token, as documented.

*Time.* `StreamPlayer` has one assumption about speed, `BudgetAssumption`: between
two polls of `*AUDIO` the firmware never takes more than half the time of a bank
(32 ms). It stands for what the design relies on - reading and copying a block of
512 bytes, or the work of one callback, is short - and is enforced by the guard of
`PlaySample`. Waiting for the user or for `fl_fopen` is not bounded. `Oled` has the
same kind of assumption, `GapAssumption`. With one cycle less TLC finds a byte that loses its
last bit.

## 5. Proofs

`AudioBufferProofs` proves, for every W, PERIOD, set of samples and set of stores
allowed by the assumptions of `AudioBuffer`:

* `Invariance`: TypeOK, DoneForOneCycle and DacPlaysBank always hold (`TypeCorrect` says
  it of the first one alone). The inductive invariant `IInv` is their conjunction. DacPlaysBank is preserved because
  the sample just read came from the bank at `StartR`, and a store in the same
  cycle goes to the bank at `StartW` (`MemStep`, from `WriteAddrInBank`: word and
  lane stay inside a bank). TypeOK needs DoneForOneCycle's companion fact
  that `sample = N` leads back to 0.
* `Cadence`: the circuit is isochronous. `PhaseStep` follows the time of the bank
  through the two counters; `PhaseBound` is the arithmetic that excludes a swap
  before the last sample has had its time.
* `Refinement`: every behaviour of the circuit is one of `DoubleBuffer!Buffers`.
  `StepRefines` maps a cycle to a store or no store, together with an advance, a
  swap or neither.

`StreamPlayerProofs` proves, for every N, B and Budget with 2 * Budget <= N:

* `TypeCorrect`: `TypeOK` always holds;
* `StoppedIsSilent`, `StoppedIsDark`, `BlockInOneBank`: `SilentWhenStopped`,
  `LedsOffWhenStopped` and `CopiesInOneBank`. Three properties, one argument, which is
  about time: `work` counts the samples played since the last poll and `pos` those played
  since the last exchange, so that `Fresh` (pos < work) says that the banks were exchanged
  since the poll, and `Early` that the next exchange cannot come before the next poll. The
  inductive invariant `IInv` says at which statements an address that was read is still that
  of the bank not played (`AddrInv`), and which banks are clean in each of the two rounds of
  `clear_audio` (`ClearInv`), from which the silence follows (`StopInv`). It is here that
  `BudgetAssumption` is used: `Early` after a poll is 2 * Budget <= N.
* `KeepsContract`: the safety half of `ImplementsPlay`. It needs `StopInv`: a paused music is
  in the inner loop of `read_audio_file` and nowhere else, so that `pause = 0` at line 100
  never ends a pause, and no return happens during one.
* `PlaysSeamlessly`, `NothingReplayed`, `HeardToTheEnd`: `Seamless`,
  `NoReplayWhileLoading` and `PlayedToTheEnd`, what is heard. A sample of the file has a place, `At(d, i)`,
  and places are ordered as pairs of a block and an index (`AtOrder`), which is all the
  nonlinear arithmetic there is. The invariant `SInv` says of each bank which block it holds,
  and of the file how far it was heard: `Loaded(d)` until the exchange, `Started(d)` after
  it, `Finished` when a music is over, `LastPlays` inside `clear_audio`, where the block before
  the last is heard once more (the finding `stream_in_order`). None of the three properties
  is inductive, nor are they together: whether the next sample is the next one of the file
  depends on what the bank not played holds when the swap comes.

`PipelineProofs` proves, for every number of stages, of states in each stage, every set
of stages that stall and every bound on tokens:

* `TypeCorrect`: `TypeOK` always holds.
* `TokensPass` and `TokensInOrder`: `Regular` implies that `EveryTokenPasses` and `InOrder`
  always hold. The inductive invariant adds two facts to them: a stage that is at its end
  and stalls is full (`StalledAtEnd`), and what stage 0 has reached (`Reached`), without
  which its code might begin a token twice. `StartStep` and `TakenStep` say what a trigger
  means for a stage and for the one before it, and the step is proved stage by stage.
* `AllDrained`: `Regular` implies that `Drained` always holds. It comes from the same
  invariant (`Emptied`), by induction on the stages from the last one back: between two
  stages that are empty no token is left.

`SdramControllerProofs` proves of `Sdram`, for every number of users and banks, every set
of addresses and words, and every `refresh_cycles`:

* `Implements`: `ImplementsMemory`. The invariant says where the one request is
  (`OneRequest`), that the state
  fixes the command on the pins (`ControlOK`), and that the row of the request is open and
  its read is at the place of the pipe that the state tells (`OnItsWay`). `MemStep` and
  `WordRead` are the two ends: the only write on the pins is that of the request, and the
  word taken from the bus is that of its cell;
* `RequestsKept`: `NoneLost`. With the refinement at hand (`CycleIs`) this is an argument
  about the arbiter and any memory: the inductive invariant `MemoryInv` adds who is working
  and where its request is (in `sd`, in the memory or on its way back), so that `done` can
  only be for the user being served;
* `AnswersOwned`: `OwnAnswer` of `SdramMemory`, that `done` comes with the word of the user's
  own address; and `TypeCorrect`, the `TypeOK` of that module;
* `KeepsTimings`: `TimingsKept`. The invariant gives the age of every bank in every state
  (`BanksOK`) and the cycles since the mode was loaded and since the refresh (`AgesOK`).

They assume what `Sdram` names: an address is a bank, a row and a column
(`AddrAssumption`), and `refresh_wait` is at least 7 (`RefreshAssumption`), the cycles the
chip needs: the mutant `RefreshDelayShort`, one cycle less, breaks `TimingsKept`.

`PlayerMenuProofs` proves, for any playlists and any number of lines on the screen:

* `TypeCorrect`: `TypeOK`, so that no wrap, skip or change of playlist selects an item
  that does not exist;
* `SelectionOnScreen`: `SelectionShown`. The inductive invariant says more than the
  property: the first line shown is the first of the *page* of the selected item
  (`Pages`), and the locals of the music menu are 0 outside it (`Closed`). `AboveShown`
  and `BelowShown` prove that each press keeps the page, from the uniqueness of quotient
  and remainder (`Quotient`); the code only corrects the first line where a page begins or
  ends, and `NextPage` is why this is enough.
* `OnePressOneAction`: `MenusDebounced`, from where in the loop a press may still be held
  after it was acted upon (`Fresh`).

`IceVProofs` proves of the processor, for every program, every width of a byte, of the bus
and of the memory, every number of registers, every `Decode` and every answer of the
peripherals (`Rv32Assumption`, `IceVAssumption`):

* `TypeCorrect`: signals keep their widths (`Types`);
* `EveryInstructionTimed`: `Timed`. The inductive invariant `IInv` tells what is left of an
  instruction in each phase (`TimeLeft`): it depends on `shamt`, hence `Shifter`, by which
  the shifter works for a shift only and is at rest at the next trigger;
* `ImplementsRv32`: `ImplementsRiscV`, under `LowCode`: `CODE <= 2^(addrW-2)`, the half of
  the RAM that the adder of addresses can name. `MCIceVHighCode` shows that more is too
  much. The invariant adds that the registers read are still those of the bank
  (`Operands`), what the bus holds between an access and its answer (`OnBus`), that `x0` is 0
  (`ZeroRegister`: its writes are disabled, its reads are ordinary ones)
  and, for the refinement, that the instruction in progress is still the one that the memory
  holds at `pc` (`Straight`): stores are taken before the next fetch, also when they write
  over the code.

The refinement has one lemma per phase (`FetchSeen` ... `StoreSeen`). Those that compute rest on
lemmas about words, for every width: the bit-by-bit shifter gives the quotient or the product
(`ManyRight`, `ManyLeft`, `DoubleWrap`), one subtraction with a bit more decides both
comparisons (`Borrow`, `SignedLess`, `ComparedIs`), lanes are the bytes of a word
(`StoreLane`, `LoadIs`, `Reassembled`). Powers, gates and shifts are recursive functions;
`Recursion` shows that such a definition has a solution, by gluing its solutions on
prefixes, and `Induction` is the least element of a set of naturals (`Least`, from the
well-founded order of the library), since the induction theorems of the library, which take
an operator, are out of the provers' reach.

`OledProofs` proves of the OLED unit, for any bytes and commands, sent at any times that
`GapAssumption` allows, in both versions:

* `BytesArriveIntact`: `BytesIntact`. The invariant places the byte on its way (`Shifting`):
  what `busy` and `sending` still hold (`Busy`, `Rest`), which bits the screen has
  (`Clocked`), and that the time since the byte was sent is bounded by its place, from which
  a new byte can only come at the last bit, when its clock is up or rises in the same cycle
  (`SendAllTaken`): the unit raises it although the byte is being replaced. `RestNext`
  and `Whole` are the arithmetic of the eight bits, there and back;
* `TypeCorrect`: `TypeOK`, which says that `busy` is a run of ones.

`CardProofs` proves of the start of the player (`Library`), for every set of characters, every
`MAX_MUSIC_NAME_LENGTH`, `MAX_MUSICS` and `MAX_FILES`, all cards that are `Fitting` (names
of the maximal length are), and whatever fails to open:

* `WritesStayInside`: `NoStray`. Every write is in its array but the three that the property
  names. What `create_playlist` writes follows from `LineRead`: the buffer holds the text since
  the last newline, so that only the newline of a line as long as the buffer is outside;
* `EveryImageFound`: `ImagesFound`. `RowsWritten` says that writing a row of `img_names` leaves
  the rows before it alone (`Rows`) but for the terminator of a full row, which is the first
  cell of the next one (`Ended`), and `Compared` that `strequ` finds a name in cells
  exactly when they hold that name and its terminator;
* `EveryPlaylistListed`: `PlaylistsComplete`. `ListsMade` and `LineRead` say that the playlists
  so far are those of the files so far, and the one being read what its text names so far
  (`ListedIs`, `ExpectedIs`); at a newline `strequ` on the buffer is equality with the line
  (`LastEndIs`);
* `MenuGetsPlaylists`: `MenuReady`, the number of playlists included when their directory does
  not open.

The hypothesis is on the card only. `Cards <- MCRepeated` shows that playlists must fit their
array.

`CardProofs` proves of the driver below it (`SdCard`), for every number of sectors and of
bytes, all contents, any waits of the card, either capacity of it and any statuses and error
tokens:

* `StatusesOwned`: `OwnStatus`. The inductive invariant `CardInv` says in its part `Talk` what
  `out` and `answer` hold in each call. What is left in the card is always the end of what it
  owes, with ones in front (`Ends`), so that the driver is waiting for the first byte `r` of it
  (`Heard`): the low byte of `answer` is made of ones and then of as many bits of `r` as came
  (`Low`), its top bit is set until the last of them (`LowStill`) and is that of `r` then
  (`HeardEnd`). A command takes 48 clocks, in which the card ends what it was sending: between
  two commands at most 48 bits are left (16 of a CRC, 32 of the answer to `cmd8`), and nothing
  old is in front of the answer (`HeardStart`);
* `SectorsArrive`: `SectorsPacked`. `Sent` places the data: the card has `8 * Bytes + 16` bits
  less those of the bytes that came, which is why byte follows byte without a wait, and `Packed`
  that the buffer has what the reads before this one gave (`Upto`) and the bytes of this one;
  after an error token the bytes are the end of it and ones (`Noise`);
* `SectorsRight`: `Models = {"SDHC"}` implies `SectorsWanted`: with a card of high capacity and no
  refusal or error, the block is that of the sector that was asked for. `AddressIs` is the way
  of its number through `sdcard_send`, pin by pin (`Sending`), and back. The hypothesis is
  needed (`SdCardBytes`);
* `CardTypes`: `SdTypeOK`.

Only model-checked: liveness, which is out of the prover's reach (it includes the liveness
half of `ImplementsDoubleBuffer` and of `ImplementsPlay`, and `ReadEnds`), and the
properties of the state machines, which are trees handled by RECURSIVE operators.

## 6. Plan

Done: the player from the card to the output, the state machines and pipelines of the
compiler, the SDRAM, the processor. What would come next:

1. The devices behind the bus (`cabillot.si:205-246`), the PWM counters.
2. Of the compiler: bindings of instances (`<:`, `<::`) and the order of always blocks.

## 7. Not modelled

* The rest of the Silice compiler: types, instantiation, the Lua preprocessor, the text
  of the Verilog. Conversions of trees and strings that keep no state; the vendored
  libraries and the generated parser.
* Text and images on the screen (`display.c`, `oled.c`): writes into an array in program
  order.
* The other projects, boards, Python bindings, tools and tests of the repository:
  examples and build material, not part of the player.
* `hardware/main.si`, `step0.si`-`step5.si` and the other `step*.c`: earlier stages of
  the same player, superseded by `cabillot.si` and `step9_cabillot.c`.
* The FAT library: an empty submodule; `fl_fopen`, `fl_fread` and `fl_readdir` are modelled
  from how the firmware uses them.
