# A verification of saugns

TLA+ modules that model saugns (src/) from the script's characters to the
outputs, save for the signal processing; TLC runs that check them on small
instances, and theorems about the audio generator, parse conversion, lines, the memory
pool and the player that TLAPS checks for every value of the constants. saugns reads a script in the SAU
language, parses it to a tree of script events, converts that to a flat audio
program, and runs the program through a generator to an audio device, a file,
or both. Nearly all of it is sequential C; what is hard in it is time. The same
durations and waits are kept in several places and several units, rewritten in
several passes, and have to agree in the end.

## Inventory

| part | source | state it keeps | operations |
|---|---|---|---|
| audio program | `program.h` | events with wait, voice, carrier, operator data | none: passed from parser to generator |
| generator | `generator.c` | position in the event list, voices and operators with time left, mix buffers, end flags | `sau_create_Generator`, `sauGenerator_run` |
| parse conversion | `parser/parseconv.h` | voice and operator allocation, lists, nesting depth, duration | `sauVoAlloc_update`, `ParseConv_convert_event`, `_end_dur_ms`, `_create_program` |
| event timing | `parser.c` | event tree of a time group, flags, carry to the next group | `begin_event`, `begin_operator`, `finish_durgroup`, `time_event`, `flatten_events` |
| script parser | `parser.c` | nested parse levels, scopes, options, labels | `parse_level` and a handler for each letter, `enter_level`, `leave_level`, `begin_event`, `begin_operator` |
| scanner | `scanner.c` | position frames, filters for comments and space | `sauScanner_getc`, `_ungetc`, numbers, names |
| text file buffer | `file.c` | two areas of a circular buffer, read/fill position, end marker | `sauFile_update`, `_getc`, `_ungetc` |
| lexer | `lexer.c` | tokens | used by `test-scan.c` only |
| memory pool | `mempool.c` | sorted block array, search start, sizes, destructors | `sau_mpalloc`, `sau_mpregdtor`, create, destroy |
| symbol table | `symtab.c` | hash table of strings, items in lists | get, add, find |
| dynamic arrays | `arrtype.c` | count, capacity | add, memdup |
| lines | `line.c` | value, goal, position and end of a sweep, what of these is set | `sauLine_copy`, `_get`, `_run`, `_skip` |
| oscillators | `generator/*.h`, `wave.c`, `math.c` | phase, seeds | sample loops, floating point |
| player | `saugns.c` | one or two generators, sinks, error state | `init_Player`, `Player_run`, `play` |
| sound files | `sndfile.c` | samples written, byte order | create, write, close |
| audio devices | `player/audiodev*` | device handle | open, write, close |
| command line | `saugns.c`, `help.c`, `error.c` | options | parsing, messages |

How they interact. The parser pulls characters through scanner and file buffer,
and keeps all its nodes in memory pools. Steps become event nodes; at each `|`
and at the end `time_durgroup()` times the group, merges forked events into the
main sequence, and hands each event in order to parse conversion, which picks a
voice for it. The result is a `sauProgram`. The player calls
`sauGenerator_run()` in a loop with a buffer, once per generator, and hands each
buffer to the sinks until no generator says there is more. There are no threads
or callbacks; nothing is persisted, so there is nothing to recover.

What is hard, and what makes each part correct:

* **Generator.** A call's buffer is cut up by events, each part by blocks, each
  block into voices with times left of their own. The voice loop skips ended
  voices; buffers are cleared only as far as they were used; the end is found by
  three conditions. Correct: what comes out is the signal the program means, no
  sample lost, repeated, early, or twice; and it ends.
* **Parse conversion.** Voices are reused by ms; the generator counts samples.
  Objects and voices refer to each other by numbers that must be changed
  together. Correct: each event goes to the voice of its carrier, and no voice
  is taken from a carrier that sounds.
* **Event timing.** Waits are differences, rewritten while sequences merge;
  default times depend on what comes later. Correct: each event comes when the
  tree says, connected steps stay connected, the next group follows this one.
* **Memory pool.** Sorted by rotation after each allocation. Correct: no memory
  given out twice, no block lost, best fit found.
* **Text buffer and scanner.** What filters made of the text is written back into
  the buffer, so that a comment is not met again when characters are taken back;
  positions are kept in a ring of frames beside it. Correct: the user is given the
  text with comments left out, whatever is looked at, tried, or taken back, each
  character at its place, wherever it lies in the two areas.
* **Script parser.** Levels are C stack frames which inherit the step of the level
  around them; lists have places of their own on another stack, that keep what was
  in them. Correct: each object is linked in one place, each operator is ended once
  by the level that began it, and options are those of the list.
* **Lines.** A parameter is set by updates that come at any time within a sweep, and
  is run in blocks of any length, or skipped. Correct: neither matters; the values
  are those of one sweep.
* **Player**. Outputs share one buffer, which the AU writer converts in place; the
  device may have a rate of its own, and then a generator of its own; any write may
  fail while the others go on. Correct: every output gets all sound of all programs
  at its rate and in its byte order whatever the others do, and status 0 means so.

`PROJECT.json` lists the hazards of the code, each at its line with the
properties that cover it.

## Modules

| module | is |
|---|---|
| `SauProgram` | the audio program, what makes one valid, and the sound it denotes |
| `AudioStream` | abstract specification: what `sauGenerator_run()` promises its caller |
| `Generator` | the generator, and its refinement of `AudioStream` |
| `MCGenerator` | instances: all valid programs over small sets |
| `ParseConv`, `MCParseConv` | parse conversion; extends `SauProgram`, whose `ValidProgram` it has to establish |
| `EventTiming` | from steps of a script to the timed, flat event sequence |
| `Mempool` | the memory pool |
| `CharStream` | abstract specification: what the scanner promises the parser |
| `FileBuffer` | the text buffer, as operators from file to file |
| `Scanner`, `MCScanner` | the scanner over the buffer, and its refinement of `CharStream` |
| `Parser` | the structure the parser makes of a script |
| `Sweep` | abstract specification: what a parameter does |
| `Line` | a parameter's line from the parser's settings to its values, and its refinement of `Sweep` |
| `Player`, `MCPlayer` | options, `main()`, `play()`, player, sound file writer; composes up to two `AudioStream`s with the outputs |
| `GeneratorProofs` | proofs of the invariants of `Generator`, and that it refines `AudioStream` |
| `ParseConvProofs`, `ParserProofs`, `LineProofs`, `MempoolProofs`, `PlayerProofs` | proofs about these |
| `ParserPlainProofs` | proofs about `Parser` for scripts without `{...}` |
| `Numbers` | what the proofs share: lemmas about rounding, and the least element of a set |

`SauProgram` is what joins the two sides: `Generator` assumes `ValidProgram`,
`ParseConv` is checked to make only such (`MakesValidPrograms`).

### Generator

Sequential code, so `pc` says where it is, and each loop iteration or handler is
one action:

| action | code |
|---|---|
| `ConvertEvent`, `Created` | `convert_program()`, one event a step, with the carry of ms remainders |
| `Call` | `sauGenerator_run()` to the label PROCESS: clear the buffer unless `GEN_OUT_CLEAR` |
| `HandleEvent` | `handle_event()` with `prepare_op()`, `update_op()`, `set_voice_duration()` |
| `BeginRun`, `EndRun` | how far to the next event, the call to `run_for_time()`, the jump back |
| `BeginBlock`, `SkipVoice`, `RunVoice`, `EndBlock` | `run_for_time()`, `run_voice()`, `run_block()`, `mix_write_*()` |
| `AdvanceVoice`, `ReturnMore`, `ReturnEnd` | the part after the loop, the end test, `*out_len` |
| `CallAgain` | the player calling a generator that has already ended |

A sample is the set of what has been mixed into it, each item a carrier and how
much of its time was left. That tells a sample lost, doubled, shifted or stale
from a right one, which is all the control decides; values, panning, channels
and modulators are left out. `prog`, `timeline`, `carry`, `gen`, `voices`,
`operators`, `mix`, `buf` are the program, the `EventNode` waits, `ev_time_carry`,
the fields of `sauGenerator`, its arrays and buffers, and the caller's buffer;
`call` and `run` hold the locals of `sauGenerator_run()` and `run_for_time()`.
`pos` and `out` are history, and with `prog` they are the state of `AudioStream`.

The model keeps the time of an event from the start of the program where the code
keeps the wait before it; the wait is defined as the difference. Event numbers
count from 1, voices and samples from 0.

### ParseConv

One script event at a time: `NewCarrier` and `Update` choose what the parser may
hand over, `PreserveVoice`, `RecycleVoice` and `AddVoice` are the cases of
`sauVoAlloc_update()`, `ConvertEvent` is `ParseConv_convert_event()` with the
lists and the depth measured, and `EndScript` adds the last duration. `root_op` is
the parser's `root_op_obj`, and operators nested by an event belong to it as in
`begin_operator()`.

### EventTiming

`NewCarrier`, `Refer` (`@`), `Split` (`/`), `SubStep` (`;`), `OpenList`, `CloseList`
build the tree; `EndGroup` is `finish_durgroup()`, `ScanEvent` an iteration of the
first loop of `time_durgroup()` with all of `time_event()`, `FlattenEvents` one
`flatten_events()`, and `PlaceEvent` an iteration of the second loop. `wait_sum`,
`carry` and times are modulo `Wrap`, which stands for 2^32. `plan` records, when
the tree is timed and before it is flattened, when each event is due by the waits
along its branch; `placed` records when it does come.

### Mempool

`UseBlock` and `AddBlock` are the two ways of `sau_mpalloc()`, `AddFails` its
failure after the array has grown, and `SortBlocks` its end; then `Destroy`, `RunDtor`
and `FreeBlock`. Arrays are functions from 0 as in the code. Searching is the code's
own binary search, round by round (`Search`), with the first index it looks
at when there is nothing to search. `copy_up_one()` calls itself for the next larger
size; `CopyUp` is the function from the entry it starts at to what becomes of the array.

### FileBuffer, Scanner and CharStream

`FileBuffer` is the buffer as a record, with an operator for each macro and function
of `file.h` and `file.c`. A scanner holds one (`s.f`), with the frame `sf`, the ring
`undo`, and what is pending of ungets. Its operators (`Getc`, `Retc`, `Tryc`, `Ungetc`,
`Skipws`, `GetSymstr`, ...) are the functions, filters included, and each action
calls one of them. `items` is the text read in one piece (`ItemsFrom`), with no buffer
and no frames; `had` and `told` are the rest of the state of `CharStream`: which items
can be had again, and what the caller was told. An action says which of these follow
from the call; `GivesTheText` says that this is a step of `CharStream`, so that what the
scanner returns is the item that was next. Areas are of 3 characters.

### Parser

`o` is the `sauParser`, and the functions of the code are operators on it
(`BeginEvent`, `LinkObj`, `BeginOperator`, `FinishDurgroup`, `EnterLevel`, `LeaveLevel`).
An action is what `parse_level()` or `parse_in_op_step()` does with one token. `o.levels` is
the chain of `ParseLevel`s, `o.slots` the `NestArr`: popping it leaves a place as it
was, and the next list finds it so. Where the list of a parameter is given back its
place, `sweep`, `last_mods` and `last_item` decide what becomes of the next one. What of
an event's time matters here is whether it has a wait, and how often it is converted.

### Line and Sweep

`Update` is the whole way of one parameter of an update: `Source` is the `sauLine` the
parser makes (`create_line()`, `parse_in_par_sweep()`, `time_line()`), and `Copied` is
`sauLine_copy()`, by what it sets. `Run` and `Skip` are what the generator calls for each
block. Values are integers scaled so that the divisions the model does are exact, and
`Wrap` stands for 2^32. `FollowsSweep` maps the line to a `Sweep`, whose state is how
far of the way is passed and how much time is left, in place of position, end and
flags. `given` tells what was set in a step, so that a step of `Sweep` is one that was
set the same things.

### Player

`Option` is a turn of the loop of `parse_args()`; `ReadScripts`, `InitPlayer` and
`InitFails`, `SkipProgram`, `CreateGenerators` and `CreateFails`, `EndRun`, `EndPlay`,
`Fini` and `Exit` are `main()`, `play()` and what they call, and `Generate`, `WriteDev`,
`Underrun`, `WriteRaw`, `WriteFile` (or `NoWrite`, when an output is not open) the body
of the loop in `Player_run()`, in the order that `Following` gives. A generator is
three instances of `AudioStream`: `Gen` and `DevGen` for `gen` at either rate, `AdGen`
for `ad_gen`; so what `Generator` is shown to refine is all that the player uses.
`buf` is the shared buffer with the byte order it has; `sinks` what arrived at each
output, `due` what should have, from the meaning of the programs and not from the
generators. A failure leaves any part of a write undone. `StdioBuf` is what stdio may
hold back, of which the flush at exit or in `fclose()` may lose some.

## Runs

| run | instance | shows |
|---|---|---|
| `generator` | all programs of up to 3 events, 2 carriers, 2 voices; 823k states | seven invariants, the inductive invariant of the proofs, drift-free events, no cut-off voice, the refinement of `AudioStream`, and termination |
| `parse_conv` | no sub-steps; up to 4 events without lists, 3 with | valid programs, voice reuse only after expiry, duration covers the sound |
| `nest_depth` | 4 events at one time, lists, sub-steps | finding: depth measured along the wrong carrier |
| `voice_reuse` | as `parse_conv` with sub-steps | finding: a voice reused while it sounds |
| `timing` | up to 4 steps in any arrangement, 3 with lists; 2.9M states | each event on time, groups joined, steps connected, times filled in |
| `mempool` | up to 6 allocations, destructors, failure; 1.4M states | memory not shared, sorted, best fit |
| `scanner` | 16 texts, calls within the guards below; 885k states | the refinement of `CharStream` |
| `parser` | up to 9 tokens, 4 nodes, 3 events; 2.9M states | levels and places match, options restored, objects linked once, amplitude multiplied once |
| `line` | 4 updates with blocks of 1 to 3 samples; 63k states | the refinement of `Sweep` |
| `sweep_time` | as `line`, with no care when to update | finding: the remaining time goes wrong |
| `player` | 3 options, 4 lists of scripts, 2 failures; 184k states | outputs independent of each other, right rate and byte order, status, end |
| `exit_status` | as `player`, 1 failure | finding: audio lost at exit with status 0 |

Further configurations, each of which ends with the counterexample told of under
Findings unless it says otherwise:

| configuration | of | property |
|---|---|---|
| `MCFreqBuf.cfg` | `MCGenerator` | `FreqBufMatchesCarrier` |
| `MCNesting.cfg` | `MCParseConv` | passes: valid programs, voices held by one, with lists and sub-steps together |
| `MCDefaultTime.cfg` | `EventTiming` | `SensibleDefaultTime` |
| `MCQuitFile.cfg` | `MCScanner` | `NothingAfterTheEnd` |
| `MCUngetPlace.cfg` | `MCScanner` | `ToldAsWritten`, without two of the guards below |
| `MCLostLine.cfg` | `MCScanner` | `ToldAsWritten`, of a text with CR CR |
| `MCPoolFreed.cfg` | `Mempool` | `FreesAll` |
| `MCFileSize.cfg` | `MCPlayer` | `SizeIsTotal`, with 4 bits for a file's size |
| `MCAmpMult.cfg`, `MCTimeSeparator.cfg`, `MCSubScope.cfg`, `MCTwice.cfg`, `MCOwnLists.cfg` | `Parser` | `MultiplierApplies`, `DelaysWhatFollows`, `EventsKept`, `ConvertedOnce`, `ListOfItsOperator` |
| `MCStreamInv.cfg`, `MCConvInv.cfg`, `MCLineInv.cfg`, `MCPoolInv.cfg`, `MCPlayerInv.cfg` | `MCGenerator`, `MCParseConv`, `Line`, `Mempool`, `MCPlayer` | pass: the inductive invariants of the proofs |
| `MCParserInv.cfg` | `ParserProofs` | passes: `IInv`, in the 2.9 million states of the bounds of `parser` |
| `MCParserPlain.cfg` | `ParserPlainProofs` | passes: `PlainInv`, in the same states |
| `MCSweepLoose.cfg` | `Line` | `FollowsSweep`, with no care when to update |

Bounds, and why they are enough:

* Generator: 3 samples per 2 ms make some ms times fall between samples, so that
  rounding and the carry matter; blocks of 2 in calls of 3 give whole and short
  blocks in one call, and waits of 0, 1 and 3 ms put events at the same time, inside
  a call, at its edge, and beyond. Three events are what it takes to start two
  carriers and return to the first, or for one voice to have three carriers.
  All programs that `ValidProgram` allows are tried, not only those from scripts.
* ParseConv: four events are two carriers, the expiry of one, and a return to
  it; waits and times of 0 to 2 ms put expiry before, at, and after the next
  event. `Longer` lets an event outlast its operator, as sub-steps make it.
* EventTiming: four steps are a fork of two between main events, or one that
  passes two main events. Waits of 0 and 3, times of 2 and the default 4 give
  events before, at and between each other. `Wrap` is far above any sum.
* Scanner: 8 texts, each alone and after 2 letters, put every kind of item at and
  across the boundary of the areas of 3; with 2 characters to take back of a ring of 3.
  They end at boundaries, within comments, with an error, and hold characters
  that look like the end marker; one has CR LF, twice. `MaxChar` bounds the place in a line, which grows
  with each get of the end.
* Parser: 9 tokens make three levels with what is between, or a step with sub-steps and
  a list each; 4 nodes are an operator, a list, and two more in it or after it. Scripts with
  `{...}` are kept to `MaxGrouped` tokens. `MaxInLists` of `EventTiming` and `ParseConv`
  is the same for their scripts with lists.
* Line: 4 updates are a value, a time and two goals, in any order; times of 0, 1 and 4 end
  within a block of 3, at its end, or after it. `MaxLen` bounds the block, `Wrap` is far
  above any sum of times.
* Mempool: a start size of 2 and sizes from 1 to 16 in units of alignment fill
  blocks, pass them, outgrow them, and raise `skip_size` until all blocks are
  skipped; six allocations make the array grow three times.
* Player: three options reach every combination of outputs that matters (`-o`,
  `--stdout` and `-a`, or one of them twice). At rates 2 and 3 one program ends a call
  later in the second generator than in the first; the lists have failed scripts
  before and between programs, and two programs, so that a failure in one is followed
  by a good one. Two failures hit two outputs, two programs, or one output twice.
  `SizeWrap` is far above any size, but in `MCFileSize.cfg`.

What the passing runs leave out, by name. Most of it scripts do get to, and it is told of
under Findings:

* `MayTakeBack` and `MayRead` of `Scanner`, where `Loose` is FALSE: taking back right after
  a name or number that was not there, and looking for one with more than one character
  taken back. The parser does both. `scan_num_r()` takes the sign back after it has looked
  in vain for a number (parser.c:312, 320-324, 427), and looks for one with two characters
  taken back when `sauScanner_get_suffc()` has met a letter and a blank (parser.c:1775,
  1792). Then the frame is not that of the position: places
  are one off, and what is taken back is overwritten with another character
  (`MCUngetPlace.cfg`). Getting on after a name or number that was not there is
  in the run.
* `MayTakeBack` of `Scanner` in any case: what was read as a name or number can not be taken
  back (`CharStream` forgets what came before; advance_frame() has a TODO for it,
  scanner.c:546). `scan_num_r()` does it after a name that is unknown or without a
  number: in `Wsin t+foo ?` and `Wsin t+$foo ?` the last `o` is got a second time, and
  warned of as "invalid or misplaced subname 'o'". There is no run with that.
* `MayLeaveOut` of `Scanner`: blanks left out while others than the last character taken
  back are blanks. The parser is not seen to do that.
* Texts of `Scanner` in which a linebreak is followed by a CR, outside of comments, but for LF
  CR. A CR LF counts for two lines in the model as in the code; CR CR is `MCLostLine.cfg`.
* Sub-steps (`SubSteps` FALSE) in `parse_conv`: with them voices are reused early
  (`voice_reuse`) and the duration may be too short. `MCNesting.cfg` has what holds with them.
* `Loose` of `Line`: FALSE leaves out updates in the three states where the code loses
  track, `StalePosition`, `GoalNotRun` and `KindUnsettled`. Scripts do get there.
* `HoldWithoutGroups` of `Parser`: four properties that hold of all scripts without `{...}`;
  with it there are counterexamples.

`CHECK_DEADLOCK FALSE` is set where the system does stop: a script ends
(`ParseConv`, `Parser`, and `EventTiming` at its bound), a pool is destroyed.
The generator never stops: it may always be called again.

Fairness. `FairSpec` has weak fairness of the generator's own steps: the code of a
call runs to its end, and `Player_run()` calls again while any call returned TRUE
(saugns.c:589-618). Only `Terminates` uses it. `CallAgain`, the call after the end,
is not fair: the player makes it only while another generator goes on. `Player` has
weak fairness of its steps: it is one sequential program, whose calls return.

## What is proved

For all values of the constants within the assumptions, which TLC evaluates on each run:

| module | theorem | says | hypotheses |
|---|---|---|---|
| `GeneratorProofs` | `Invariance` | the inductive invariant `IInv` always holds | |
| | `TypeCorrect` | no index leaves its array, no time goes below zero | |
| | `NoVoiceSkipped` | `o->voice` never passes a voice with time left | |
| | `CountDownTogether` | a playing voice has its carrier's time left | |
| | `CarriersNotShared` | no carrier is played by two voices | |
| | `NoOverrun` | a block's writes lie in the caller's buffer | |
| | `NothingWrittenEarly` | after a short block nothing is left to write in the run | |
| | `ClearingSuffices` | partial clearing of buffers leaves no old samples | |
| | `NoDrift` | each event is handled at its time in ms rounded down once | |
| | `InStream` | `StreamInv`: what is mixed is the signal at those samples | `ReuseExpired` |
| | `PlayedToTheEnd` | `NeverCutOff`: no carrier loses its voice early | `ReuseExpired` |
| | `DeliversStream` | the generator refines `AudioStream` | `ReuseExpired` |
| `ParseConvProofs` | `ConvInvariant` | the inductive invariant `ConvInv` always holds | |
| | `Typing` | references are in use, durations not below zero | |
| | `HeldByOne` | `VoiceHeldByOne`: objects and voices refer to each other | |
| | `ProgramsValid` | `MakesValidPrograms` | |
| | `ReusedWhenExpired` | `VoiceReuseAfterExpiry` | `~SubSteps` |
| | `DurationCovers` | `DurationCoversSound` | `~SubSteps` |
| `LineProofs` | `LineInvariant`, `LineTyping` | `LineInv` and types | `~Loose` |
| | `SweepsAsPromised` | `FollowsSweep`: a line refines `Sweep` | `~Loose`, `Exact` |
| `MempoolProofs` | `PoolInvariant`, `PoolTyping` | `PoolInv` and types | |
| | `NotShared` | `MemoryNotShared` | |
| | `SortedAgain` | `SortedWhereSearched` | |
| | `FitsBest` | `BestFit` | |
| `PlayerProofs` | `PlayerInvariant`, `PlayerTypes` | `PlayerInv` and types | |
| | `OutputsInOrder` | `InOrder` | |
| | `OutputsGoOn` | `OthersGoOn` | |
| | `OkStatus` | `OkMeansAll` | a WAV file's size fits its header |
| `ParserProofs` | `ParserInvariant`, `ParserTypes` | `IInv` and types | |
| | `ScaledWhenEnded` | `AmpScaledOnce` | |
| | `LinkedFromOne` | `LinkedOnce` | |
| | `OptionsOfScope` | `OptionsRestored` | |
| `ParserPlainProofs` | `PlainInvariant` | the inductive invariant `PlainInv` always holds | |
| | `HoldsWithoutGroups` | `HoldWithoutGroups`: `EventsKept`, `ConvertedOnce`, `DelaysWhatFollows`, `ListOfItsOperator` in scripts without `{...}` | |

The hypotheses. Each is needed, and each is a question of its own:

* `ReuseExpired` says that in each program a voice is reused only after its carrier's
  time in ms is over. `ReusedWhenExpired` proves that of parse conversion for scripts
  with no sub-steps (`~SubSteps`), and `voice_reuse` is the counterexample with them.
  The first nine theorems do without, and hold for these programs too.
* `ProgramsAssumption`, the generator's assumption that programs are `ValidProgram`,
  is what `ProgramsValid` proves, sub-steps and lists included. So the two sides
  meet: for scripts without sub-steps, what is played is what the events say.
* `~Loose` leaves out updates in the three states where the code loses track (see below).
  `sweep_time` and `MCSweepLoose.cfg` are the counterexamples.
* `Exact` says that ratios make no difference to the arithmetic (no ratios, or a
  multiplier of 1): a state value divided by the multiplier and multiplied again is
  itself in the reals, but not in integers. The run `line` has ratios and a multiplier of 2.
* The size of a WAV file is counted modulo 2^32 (`SizeWrap`), with no test: `OkStatus` says
  what holds in each state where the size is below that, or the file is AU.
* `OpAssumption`, `RateAssumption`, `LengthAssumption`, `SizeAssumption` and others of the
  kind: there are operators, rates, lengths and sizes are positive. `IdAssumption` of
  `ParseConv`: there are as many operator ids as a script can have operators.

### The generator

None of the properties is inductive as it stands, and `IInv` adds what they rest on:

* `NoOverrun` needs `CallAccounting`: position, rest and skipped part add up to
  the buffer, in each phase of a call.
* `NothingWrittenEarly` needs `BlockProgress`, what is known halfway through the
  voice loop: voices passed that did not fill the block are done. It also needs
  `SkippedVoicesSilent`, as voices the loop does not visit must be silent too.
* `CountDownTogether` needs to know that no other voice counts the same carrier
  down; that is `Ownership`, which ties the voice array to the latest event for each
  voice. Here `ValidProgram` comes in: an event whose carrier owns a voice is for
  that voice. An event that takes a voice moves its owner in the same step
  (`OwnershipStep`, from `LatestUnique` and `OtherVoices`).
* `NoDrift` needs `TimelineExact` and `EventClock`: the sum of the converted waits is
  the rounded time of the last event, and the carry is the remainder. Its
  arithmetic is `CarryExact`: rounding a wait with the carry of the remainder is
  the difference of two roundings.

`GeneratorProofs` starts with the type part, one step per action, and facts about the
bounds of each field that later proofs cite; then it has one lemma for each other
part of the invariant, again one step per action, and the theorems.

The refinement adds `StreamInv`, an invariant of what time it is. `Now` is the sample
that has been reached. `CarrierClock`: each carrier has left what the latest event that
set its time gives it, less what has passed since. So what `RunVoice` mixes of a voice is
its part of the program's signal at those samples (`MixExact`), and as every carrier with
time left has a voice (its owner has not been taken from it, `ExpiredHasEnded`), the
block is the whole signal (`BlockMixed`, `BufferExact`). `ExpiredHasEnded` is where
milliseconds meet samples: a time that is over in ms is over in samples, since two parts
rounded down are no longer than the whole rounded down (`RoundedParts`). `LengthExact`
ties the reported length to the end. With these, `StepDelivers` maps each step to
one of `AudioStream`, or to none.

### Parse conversion

`ConvInv` ties three views of the same thing together: what objects and voices say of
each other (`VoicesHeld`, `VoiceHeldByOne`), what the events made so far say (`VoicesOwned`,
with `Owns` of `SauProgram`), and, without sub-steps, what time is left (`TimesCounted`).
Between choosing the voice and converting the event they disagree in a known way, which
`Pending` tells: the voice is its new holder's already, and in the events still the
old one's. `IdsInOrder` has operators numbered in the order of their objects,
which is why a voice's `carr_op_id` is that of its holder and why modulators have higher
numbers than what they modulate: the nesting depth is then well defined (`HeightsExist`).
`ReusedWhenExpired` follows, because a voice that has counted to zero had no less to
count than its carrier (`LeftOver`); `DurationCovers`, because the end adds the most that is left.

### Lines

`LineInv` is small: a line never stands past its end, a goal has a time, a kind of goal has
a goal. That it survives `sauLine_copy()` rests on the three exclusions of `Loose`. For the
refinement, `Passes` states what running or skipping n samples has in common, and
`CopiedSets` what an update sets, field by field, in place of the nine cases of
`sauLine_copy()`; `UpdateSweeps` and `PassSweeps` show that this is what `Sweep` does.

### Memory pool

`Narrowing` is the invariant of the binary search, with the rounds that are left for its
variant, so that it is done after as many rounds as there are blocks; `SmallestFound` says
what it finds where the array is in order. `copy_up_one()` moves only the first block
of each size: by induction on where it starts, the array is then, in free space, the same as
with all blocks moved up (`CopyShifts`), since blocks of one size differ in nothing but
their memory. That is why `SortedSound` speaks of the free space at each place, and apart
from it of each memory block being in one place. `MemoryNotShared` follows from
`FreeIsFree` of the entries that can still be taken from (`Open`): below its free space
nothing of an entry's memory is given out. The invariant says nothing of entries
before `first_i`, and may not: where nothing is left to search the array does lose a block,
which is how the finding of `MCPoolFreed.cfg` came up. `NotShared` holds then, too.

### Player

`PlayerInv` says of each output without a failed write where it is (`HasReached`): it has
all of the programs before, and of the sound of this one as much as the generator that
feeds it has given, but for the buffer while its turn to be written is still to come
(`Waiting`). `StreamSound` has what that buffer is: that part of the output's own sound,
at its rate, and in its byte order. So converting the buffer in place is right because the
file comes last, and a round moves every output on by the same step. `AllGiven` is the
end: when the loop stops no stream has more, and then each has given its whole length. `Told` keeps a
failure from being forgotten; `Counted` ties the size in the header to what arrived.

What a generator gives is by the definitions of `AudioStream`, so the proof needs where a
signal ends: `LengthFacts` (it becomes silent at some event or time, for good) and
`DeliveryFacts` (each delivery is the next part, and the last one ends with it). They are
stated once for any rate, and the lemmas `GenDelivers`, `DevGenDelivers` and
`AdGenDelivers` bring the three instances to that form.

### Script parser

`IInv` of `ParserProofs` is what holds between one token and the next. It is one predicate,
`Sound(p, more, e, new)`, of a parser in the middle of a token as well: with `more` places
in the NestArr than there are lists, an event `e` still without an object, and a node `new` that
nothing leads to yet. So each function of the code has one lemma that says from what
to what it leads (`NextEventSound`, `LinkObjSound`, `EnterListSound` and the like), and a token is
their sequence. The parts, and who needs them:

* `NodesRefer`, `EventsRefer`, `LabelsRefer`, `LevelsRefer`: references are to what there is.
  `HasEvent` (with `Settled`) says where there must be an event already, with no wait
  before it: within a step, and within lists.
* `Nested`: a level's place in the NestArr is the number of lists it is in (`Place`), and
  the place has the options from around the list. `OptionsRestored` follows, and
  that no place is popped which another level still uses.
* `SlotsRefer`, `SlotsUsed`, `Ends`, `ModsEnd`: places popped keep their old contents, so a link
  could be overwritten through a stale `last_item` or `last_mods`. It is not: every such node
  has nothing after it, it is the last of one place only, and an operator that has lists has
  the last of its own, or of another operator, in the next place. (That it may be another's is the
  finding of `MCOwnLists.cfg`; what is proved is that no link is lost by it.)
* `Once`: each node is led to from one place, but for the new one. `LinkedOnce` is this.
* `Scaled`: an operator whose multiplier is still to be applied belongs to one level.
* `UsesNested`: a level with another use than carriers is within a list. It came up in
  the proof: `S` in a list changes the place's multiplier, which has to be there.

The assumption is `ParserAssumption`: bounds are numbers, there is room for one level, and
multipliers are positive.

`PlainInv` of `ParserPlainProofs` is about scripts without `{...}`, in which every level but
the first is that of a list. (With them each of the four properties has a counterexample, see
Findings.) It is checked by TLC on top of `IInv`, and in the proof it builds on it:

* `Events`: the events of the group at hand (`Group`) form a tree (`Tree`): each but the first is
  led to, as `next` or as a fork, by exactly one before it. None of them is converted, all before
  them are, once. So a group that is ended ends for good; nothing may be added to it after.
* `StepsHold`: a level that may go on with a sub-step has its event within the group, and where
  the sub-step goes to the end of a chain (`Follows`) that end has no `next`, is not the last main event,
  and is that of no other level. This is what keeps a link from being overwritten; in groups,
  which share the step of the level around them, it is false.
* `LevelHolds`: events that levels within lists use are of the group at hand: a time
  separator is not read in lists. `OwedHolds`: a delay stays at the first level until an
  event takes it.
* `ListsHold`, `LastsHold`: lists are linked to lists with the same `Parent`, and where an
  operator has lists, `last_mods` in the next place of the NestArr is one of them.

`NextEventMakes` and `NextOperatorHolds` take a step apart into its event, the end of the step
before, and its node; the lemmas of tokens are named for those of `ParserProofs`
(`WaitHolds` for `WaitStep`). `FinishDurgroupHolds` is `time_durgroup()`: `Walked` is the invariant of
the walk over the tree (what is done and what is to do are disjoint, without repetition, and
closed under what is led to, but for what is yet to do), from which the walk reaches all of the group, and
nothing twice (`FlattenedWhole`), in no more steps than there are events (`DistinctBound`).
`ReachedFor` follows an operator's lists along their links to the last one.

### Induction

The library's induction theorems take a predicate for a parameter, which the provers
here cannot give them. The least element of the set of counterexamples (`LeastNatural` in
`Numbers`, from the well-foundedness of the naturals) does the same: it is used for where
a signal ends, nesting heights, the rounds of the search, `copy_up_one()`, chains of nested operators, the
walk over a group's events, and for times that are set one after the other.

### Only model-checked

`Terminates` of both `Generator` and `Player`, being liveness; `EventTiming`, `Scanner` and
`FileBuffer`, whose recursion (RECURSIVE, folds over items) is out of the prover's reach;
`FollowsSweep` with ratios to be converted; the four parts of `HoldWithoutGroups` for those scripts
with `{...}` that do not run into a finding; and what has a counterexample.

## Findings

Runs of their own:

1. `nest_depth`: an operator nested by an update is given the last new carrier for
   its root, and nesting depth is then measured in the wrong voice (parser.c:1180).
2. `voice_reuse`: sub-events set a time but no voice duration, and their voice is
   reused early (parser.c:2154).
3. `exit_status`: up to a stdio buffer of samples can be lost when stdout is flushed
   at exit, or a file by `fclose()`, with exit status 0 (saugns.c:566).
4. `sweep_time`: a goal that takes the remaining time takes the wrong one, after a time
   was set with no goal; it may wrap to 2^32 samples (line.c:313, 326).

Each was also seen in the built program, with the script given in `PROJECT.json`.
So were these, which further configurations show:

* Scanner: after a name or number looked for in vain the frame of positions has moved on and the
  position in the text has not. What is taken back next gets the place of another character, and
  what is before it in the buffer is overwritten (parser.c:312, 320-324, 427; scanner.c:494-507),
  against "The next get will jump back and begin with the last character got."
  (scanner.c:709). `Wsin t+?` reports the `+` at 1:8, one too far, and with a linebreak before the `?`
  at 2:0; of `Wsin t-+?` the parser is given `++?` (`ToldAsWritten`, `MCUngetPlace.cfg`).
* Scanner: a CR that was looked at is kept as LF, and swallows the CR after it when it is
  got, although looking is "without advancing the position" (scanner.c:601; scanner.c:186).
  The `?` of `Wsin`, CR, CR, `?` is reported at 2:1, and at 3:1 with two LF
  (`ToldAsWritten`, `MCLostLine.cfg`).
* Generator: a voice that returns to a prepared carrier keeps the frequency buffer of
  another, `'a Wsin t1 /1 'b Nwh t3 /1 @a t2 c0[Wsin r0.5]` (generator.c:363;
  `FreqBufMatchesCarrier`).
* Memory pool: when all blocks are skipped, the search still looks at the first entry, and
  sorting overwrites it: that block is never freed, and the newest, which is then in two
  entries, is freed twice, against "Frees all memory blocks." (mempool.c:200;
  mempool.c:125, 143-167; `FreesAll`). Allocations of 8, 16, 128, 16 and 128 bytes from
  a pool with a start size of 16 do it: "free(): double free detected". It came up in
  the proof of `PoolInv`: the array may not be taken for a permutation of the blocks made.
* Event timing: `wait_sum` wraps when sub-events come after the last main event, and a
  sub-step's default time becomes some 49 days, against "fill in sensible default time",
  `Wsin t1 p[Wsin r2 t2; r4]` (parser.c:2185-2186, 2199; `SensibleDefaultTime`). `FilledToTheEnd`
  says what is filled in, this case included.
* Amplitude: in `S a0.5 Wsin a[S a0.5 Wsin]` the multiplier of the inner list is not
  applied to that of the outer, against README.SAU:80-83 (parser.c:1305 multiplies with
  `ampmult`, the script's gain, in place of `def_ampmult`; `MultiplierApplies`).
* Time separators in a group carry the wait to the level of the group, not to what
  follows: in `Wsin t1 | { Wtri t1 }` both play at once, against README.SAU:768
  (parser.c:1200; `DelaysWhatFollows`).
* Groups: a group's sub-step overwrites the link to a step that is there, and the step is
  lost, as in devtests/subscope3.sau (parser.c:1030; `EventsKept`). In
  `Wsin t1 { | } ;1 a0.5 t1` a step is converted twice (`ConvertedOnce`).
* Lists: `last_mods` in the place of the NestArr is that of whoever had the place before,
  so in `Wsin p[Wsin] {Wsin p[Wsin]} a[Wsin]` a list goes to the wrong operator
  (parser.c:1119-1122; `ListOfItsOperator`).
* `#Q` in a nested scope does not end the file: the end is reported for that scope, and
  the rest is read, against README.SAU:490 (parser.c:210-224; `NothingAfterTheEnd`).
* Lines: besides `sweep_time`, a goal set in the same instant as one of time 0 starts from
  a float that was never set (line.c:301-305); a state value is flagged as a ratio with
  no conversion when there is no mulbuf (line.c:359-362); and the stale position goes on
  moving with each block when no time is set, so that what a later update does
  depends on how samples were asked for (line.c:385-398). `FollowsSweep` under
  `MCSweepLoose.cfg`.

Lesser ones, met while modelling:

* The size in a WAV header wraps at 4 GiB, with no test like that for AU, against "total
  length/size of audio data written" (player/sndfile.c:103, 193; `SizeIsTotal`). Not tried
  with the program.
* After `-o -` a second `-o` with a path does not take back AU over stdout, and no WAV
  file is written (saugns.c:375).
* The place of a removed parameter's sweep is stale: `Wsin a[Wsin] [Wsin]` is refused, and
  `Wsin a[Wsin] | [Rlin]` ends with a segmentation fault (parser.c:1990-1994); so do
  `@[Wsin Wtri] a0.5`, and `'=5` (parser.c:1919-1926). `{ /1 } Wsin` loses the wait.
* Blanks after a comment are not all skipped by `sauScanner_skipws()` (scanner.c:885-902);
  CR LF counts for two lines (scanner.c:186).
* `sauFile_geti()` takes some wrapped numbers for good ones (file.c:318-374).

## Not modelled

Sample values and oscillators (floating point), and so the shapes of lines and noise;
modulators within the generator, channels and panning; the parser's numeric
expressions, most options and values, and object groups (`@[...]`); allocation
failures other than `AddFails` and the player's; audio devices beyond the outcome of a
call; help, messages, and of the command line all but the output options. The lexer is
not used by the program. The symbol table and the arrays are sequential lookups and
appends, which the models take for what they return. Numbers are unbounded except in
`EventTiming`, `Line` and the WAV header.

## Plan

Done, in the order of what sound depends on: program, generator, parse conversion; event
timing, the pool, the player; text buffer and scanner, the parser's structure, lines. What
is left to model is small against what is left to prove. Proved so far: generator and its
refinement, parse conversion, lines and their refinement, the pool, the player, the
parser's structure, and what of it groups can disturb for scripts without them. A theorem
that is left is `FollowsSweep` where ratios divide the values, in place of `Exact`.

To model: `EventTiming` composed with `ParseConv` by its placed events, in place of the
choice of any event there; the generator's use of buffers (`run_block_*`, nesting depth),
and widths: uint8 depth, uint32 waits in samples.
