# Verification of grbl_lathe_UI_threading

TLA+ models of the lathe firmware in `src/src/`: a Grbl 1.1 controller for an
ATmega2560 (RAMPS board) with threading (G33), a keypad and display, and lines
from an SD card. There is one processor, one main program and a handful of
interrupts; nothing is blocked, everything is shared. What can go wrong is an
interrupt between two statements of the main program, a handler that is called
again from a wait of its own, a reset anywhere, and state that several parts keep
of the same thing: the parser, the planner, the EEPROM, the outputs and the display.

The build that is modelled is the one of `config.h`: RAMPS board, AMASS on,
`BLOCK_BUFFER_SIZE` 34, `SEGMENT_BUFFER_SIZE` 10, serial rings of 255 + 1 bytes,
SD and user interface on, software debounce on; parking, the sleep timer, CoreXY,
hardware limits and `DEBUG` are off.

- [The system](#the-system)
- [Modules](#modules)
- [Runs, bounds and fairness](#runs-bounds-and-fairness)
- [What the checks show](#what-the-checks-show)
- [Divergences](#divergences)
- [Proofs](#proofs)
- [Mutants](#mutants)
- [Not modelled](#not-modelled)
- [Plan](#plan)

## The system

### How the parts interact

```
 host --UART--> RX ISR --ring--+
   ^              |            |            +-- EEPROM: settings, offsets, tools
   |              |  realtime  v            v
   |   SD card ---|-flags--> main loop --> g-code parser --> motion control
   |   panel -----|---------->  |  ^          |  spindle, coolant   |
   |  (keys, line)v             |  | polls    v                    v
  TX ISR <-ring- reports     protocol_exec_rt_system()       planner ring, look-ahead
                  ^  ^          |         ^                        | st_prep_buffer()
        pins, door|  | cycle    |         | spindle pulses         v
                  |  +- stop -- stepper ISR <---------------- segment ring
                  +-- probe monitor (in the stepper ISR)
```

The main program reads a line from the serial ring, the panel's buffer or an SD
file, executes it to the end and polls the realtime flags at every wait
(`protocol_execute_realtime()`). Every poll also calls `UITask()`, which polls the
keys, pots and control pins and draws the display: the handler of a key may run in the
middle of a line, and may wait, and so poll, itself. Interrupts never call into the main
program: they set flags, fill the receive ring, empty the transmit ring and the
segment ring. The exception is a reset: `mc_reset()` runs in the serial interrupt
and stops the steppers and the spindle by itself; the rest of a reset is done by
`main()` after every caller of a poll has seen `sys.abort` and returned.

### Components

| Component (files) | State | Operations | Hard behaviour | What makes it correct |
|---|---|---|---|---|
| Stepper driver, segment preparation (`stepper.c`) | segment ring, block data ring, `prep`, `pl_block`, the interrupt's `st`, timer enable | `st_prep_buffer()`, timer interrupt, `st_wake_up()`, `st_go_idle()`, `st_reset()`, `st_update_plan_block_parameters()` | two rings shared with an interrupt without locks; slots reused without a check; holds that stop in the middle of a block | what the interrupt reads is never overwritten; every move makes its steps, once, in order; a stopped machine has nothing left to do |
| Planner (`planner.c`) | block ring with head, tail, planned pointer, speeds | `plan_buffer_line()`, discard, recalculation, override update, reset | only the blocks behind the planned pointer are computed again, while the first block is being executed | the plan ends at rest and keeps every limit; it is the fastest one until an override slows it |
| Realtime protocol and main loop (`protocol.c`, `main.c`, `system.c`) | `sys.state`, `sys.suspend`, `step_control`, the flags, alarm, overrides | the flag handler, the suspend loop, auto cycle start, buffer synchronisation, `$` commands | flags set by interrupts between their copy and their clearing; nested polls; resets at every poll | every request is served, or superseded by a stronger one; the alarm lock holds those it is asked about; the spindle is off behind an open door and on in a cycle |
| Motion control (`motion_control.c`) | none of its own | `mc_line()`, arcs, dwell, `mc_probe_cycle()`, `mc_homing_cycle()`, `mc_reset()` | waits that poll; a reset from an interrupt | a wait ends; a reset keeps the machine still |
| Jogging (`jog.c`) | `STATE_JOG` | `jog_execute()` | starts the stepper itself; cancelled while it decelerates | a cancelled jog leaves nothing queued |
| Probing (`probe.c`) | `sys_probe_state` | the monitor in the stepper interrupt, the probe cycle | a flag set by read-modify-write in an interrupt that can be interrupted | contact stops the motion; the monitor is on in a probing cycle only |
| Homing, limits (`limitswitches.c`) | axis lock, phase | homing cycle, soft limits | its own motion loop with resets, door and switches that are released late | a homed axis is where it says; failure leaves an alarm |
| Serial port (`serial.c`) | two rings, UDRIE | `serial_write()`, `serial_read()`, two interrupts, realtime commands | lock-free rings; flush on reset; flow control by counting | no byte lost, invented or reordered between a ring's ends |
| Spindle, coolant, overrides | output pins, override values, report counters | set, stop, synchronise, override | set by lines, commands, pots, segments and resets; added up in 8 bits | outputs as programmed, planned with the override in force, changes reported |
| Threading, clock (`threading.c`, `timekeeper.c`) | tick counter with overflow, pulse counts and times, planner target | index and sync pulses, feed update | 16 bit counter against its overflow interrupt; pulses arriving during their processing | measured intervals are exact; a thread starts on a measured spindle; no pulse moves the target twice |
| G-code parser (`gcode.c`) | modal state, position, offsets | words, checks, execution of a block, program end, jog | copies of the position in parser and planner, of offsets in parser, EEPROM and report; aborts in the middle of a block | all agree between two lines; a line does what it says |
| Settings, EEPROM (`settings.c`, `eeprom.c`) | records with checksum | `$` commands, restore, panel forms | power loss inside a record, records that overlap | what is read is what was stored |
| User interface (`UISupport.cpp`, `UIMenus.cpp`) | page, selection, edit buffer, `UILineBuffer` | keys on pages, jog counts, forms, tool table, calculator, drawing | runs nested in the main loop's own line; one line buffer; texts drawn one call after they were rendered | a line is executed once, as entered; what was typed is stored; no text in a wrong place |
| Inputs (`Keypad_grbl.cpp`, `UITask()`, `system.c`) | key list, debounce, encoder, previous pins | scan, report, edge detection | a handler of a key scans again | every key, turn and edge counts once |
| SD card (`SDSupport.cpp`, `SdFile_grbl.cpp`) | open file, `SD_state`, block cache | mount, open, next line, close | a card removed between any two accesses, resets, end of file | the lines of the file, in order and to the end |
| Reports, helpers, pin tables, sleep timer | - | formatting, arithmetic, constants | - | - |

`PROJECT.json` lists every component with its files and how far it is modelled, and
every hazard with its line and the properties that would notice it.

## Modules

| Module | Models | State and actions in the code |
|---|---|---|
| `MotionQueue` | what planner, segment buffer and interrupt promise: a queue of moves that emits step events | abstract |
| `StepPipeline` | planner ring, `st_prep_buffer()`, segment ring, stepper interrupt, and the hold, start, stop and reset that drive them | variables have the names of the code; `pc` is the place in `st_prep_buffer()`; one action per exit or segment kind of its loop (`PrepReturn`, `PrepBlock`, `SegmentInBlock`, `SegmentEndsBlock`, `HoldWithoutStep`, `Release`), per branch of the interrupt (`StepperTick`, `StepperShutdown`) and per branch of the protocol |
| `StepPipelineInv` | its inductive invariant | - |
| `StepPipelineQueue` | the refinement mapping to `MotionQueue`, and the order of the moves that it rests on (`OrderInv`) | - |
| `StepPipelineProofs` | theorems about the rings and the rest of the machine, and that it implements `MotionQueue` | - |
| `ByteFifo` | what a serial ring promises | abstract |
| `SerialTx` | `serial_write()` and the Data Register Empty interrupt | one action per access the interrupt can tell apart; `Udre` is the interrupt |
| `SerialRx` | the Receive interrupt, `serial_read()`, the main loop's end of line and its answer to a line of the panel, the flush by `main()`, and a streaming host | the host is external; it counts characters as `config.h` describes, or it does not (`counts`): `sent` is the number of its last character, `unanswered` the last characters of its lines without an answer, `heard` that of the last line answered; `rx_extra` counts the panel's answers that it has not passed over, `rx_misled` says that it has taken one for its own |
| `Serial` | both rings side by side, and what holds of them | - |
| `Realtime` | the realtime state machine: `protocol_exec_rt_system()`, `protocol_exec_rt_suspend()`, the main loop, probe cycle, jog, soft limit, `$X`, `$SLP`, M3, the interrupts' flags, the door | `pc` is the place in the handler, `caller` who polled, `task` what the main program is doing; one action per section of the handler (`ServeAlarm`, `CopyFlags`, `ServeHold`, `ServeStart`, `ServeStop`, `Finish`, `Abort`) and per wait of the main program |
| `RealtimeProofs` | its theorems; the inductive invariant `RtInv` is in `Realtime`, where TLC checks it too | - |
| `Clock` | the tick counter of `timekeeper.c`: 16 bit hardware counter, overflow flag, `overflow_offset`, the two readings of `get_timer_ticks()` | operators and clock steps for `Threading`; `Count` is the hardware |
| `Threading` | spindle pulses from their interrupts to the planner target, and G33 with its waits | `pc` is the place in the pulse part of `protocol_exec_rt_system()`, `task` what the main program is doing, one action per wait of G33; `since_index`, `turns` and `pulses` are histories that the properties compare with |
| `ThreadingProofs` | its inductive invariants and theorems | - |
| `SerialProofs` | theorems about both serial rings, with their invariants | - |
| `Stepping` | the interrupt as it makes steps: Bresenham counters with AMASS, pulses, directions, drivers, homing lock | `Tick` is the interrupt with a segment, `TickWithoutSegment` without one, `PulseEnds` the pulse reset interrupt; `sp_motor` is where the pulses drive the machine |
| `Planner` | `plan_buffer_line()`, `planner_recalculate()`, the override update, and how `st_prep_buffer()` uses the plan | a queue of blocks; `BufferLine`, `ChangeOverride`, `StartHold` are the main program's, `LoadBlock`, `PrepCell`, `PrepLastCell` those of `st_prep_buffer()`, cell by cell of the first block |
| `SteppingProofs` | theorems about `Stepping` and `Planner`; their inductive invariants are in the modules, where TLC checks them too | - |
| `Gcode` | `gc_execute_line()`, `jog_execute()`, `system_flag_wco_change()`, `gc_sync_position()` | `StartLine`, `ParseWord` per word, then `Reject`, `ExecuteJog` or `Execute` by the checks in `BlockStatus`; `Abort` is a reset in one of the waits of the execution, `PulseTimeout` a G33 that gives up, `GcRestart` main() |
| `GcodeProofs` | its theorems; the inductive invariant `GcInv` is in `Gcode`, where TLC checks it too | - |
| `Overrides` | realtime overrides, pots, spindle and coolant | flags are set by commands and served together by `MotionOverrides` and `AccessoryOverrides` |
| `UserInterface` | pages, locks, `UILineBuffer` and the main loop that takes its line | one action per key, knob or page change, `TakeLine`, `LineExecuted` |
| `Editors`, `RpnStack` | lists, forms, tool table, files and calculator; `RpnStack` is what a calculator promises (abstract) | one page per behaviour, one action per key |
| `PanelProofs` | theorems about `UserInterface`, `Editors`, `Input` and `Display`; their inductive invariants `UiInv`, `EdInv`, `InInv` and `TextsInTheirPlaces` are in the modules, where TLC checks them too | - |
| `Input` | `UITask()`'s polls: encoder, keypad, buttons, control pins | `UITask` does the phase of `UITaskPhase`; `HandlerReturns` ends a handler that waits |
| `Display` | status and jog page, `DROTextBuffer`, display memory | one call of `update()` per action |
| `Homing` | `$H`, `limits_go_home()` under `mc_homing_cycle()` | `hm_at` is the place in it; `HomingOfOneAxis` is `$HX`, refused after the state was changed; `Step` and `BufferEmpty` are the stepper interrupt |
| `MachineProofs` | theorems about `Overrides` and `Homing`; their inductive invariants `OvInv` and `HmInv` are in the modules | - |
| `Settings` | EEPROM records, `$` commands, forms, restore, power loss | `EepromPutChar` is one byte; `se_kept` is the history that reads are compared with |
| `SdCard` | a card, its cache, mounting, opening, reading, closing, the main loop's part of it | `sd_main` is the place in the main loop; any access may fail when the card is out |
| `MCStepPipeline`, `MCRealtime`, `MCGcode`, `MCPlanner`, `MCHoming`, `MCSdCard`, `MCSettings` | constants for TLC | - |
| `MCProgram`, `MCDevices`, `MCLiveness` | several components side by side, with the constants of those without a module of their own | `part` says which one moves |

### Abstractions

**StepPipeline.** A move is its identity and its number of step events; speeds, ramps
and AMASS levels are left out, so a segment ends wherever the profile could end it. A
place along a move is counted in parts of a step (`StepParts`), since segments do not end
at whole steps: `prep.part` is by how much less than the rounded up steps is left. Outside of
a hold a segment is released whatever its `n_step`, as in the code; that it has a step follows
from `FarEnough`, the distance of 1.25 steps (`stepper.c:28`, `1159`) that a segment is
continued to unless its block or its hold ends before. This is exact arithmetic: a
distance in single precision on a move of millions of steps is not. `st.counters` names the
move that the Bresenham counters were initialised for: that the interrupt steps the
right move is `st.counters = ` the move of the executing segment. The interrupt is
atomic with respect to the main program (it cannot be interrupted by it) and comes
between any two of its steps; a tick is one step event. `McReset` runs in the serial
interrupt and may come anywhere. `PlanBufferLine` may happen whenever the main program
is not suspended. `Abort` goes to IDLE; the alarm lock is `Realtime`'s.

**Serial.** A byte is its number; stores of the main program happen in program order.
`LateInterrupts = FALSE` says that at most one byte leaves the UART between the store
of the head and the write to `UCSRXB` a few instructions later: a byte takes at least
86 us (at 115200 baud) and the window is below 1 us. `TRUE` drops the
assumption: other interrupts may hold up the main program there. A `$` line of the panel
is answered on the serial port like one of the host's (`protocol.c:168-169`), and comes
whenever `serial_read()` has found nothing; the host cannot tell, and takes any answer for
that of its oldest line.

**Realtime.** Motion is what the state machine sees of it: the kinds of the blocks
queued (`queue`), the kinds of motion in the segment ring (`segs`), and whether the
stepper interrupt is on (`timer`). Preparing segments puts some or all of the block at
the tail into `segs`; a deceleration may end in any of them. An interrupt may come
between any two actions, and also inside `probe_state_monitor()`, which runs with
interrupts enabled: while `isr_copy` holds the flags it has read, the main program
does not run. The spindle state that a door or a hold restores is that of the block
being executed; M3 and M5 synchronise first, so it equals the modal state. A `SdFile`
replaces the serial port as the source of lines until a reset closes it; beside it the
panel may send lines (`panel`), which no lock is asked about. Lines are of a
few kinds: motion, jog, probe cycle, M3, motion beyond a soft limit, `$SLP`, `$X`.

**Threading.** Distances are counted in feeds per synchronisation pulse, so that the
target is the number of pulses that the thread has left; speeds and position errors are
left out, and `threading_index_timer_tics_passed` is the step of
`threading_index_Last_timer_tics`. The debouncing delay is only a delay of the pulse,
and a pin that is looked at again has any value. `Clock` scales the 16 and 32 bit
widths down; both wrap. Interrupts are assumed to be off for less than one period of
the counter (262 ms), and at most one tick (4 us) to fall between two consecutive
readings of it. `timekeeper_reset()` writes to the bit of another flag of `TIFR5` than
its comment says (`timekeeper.c:60`); whether the pending overflow is then cleared
depends on the instruction that the compiler chooses, and is left open. Pulse counters
are followed up to the number that is waited for. Of the realtime flags only a reset
and the start and end of a cycle are there; `Realtime` has the others.

**Stepping.** A segment carries its block, from how many events before its end it starts
and to how many it goes, and its AMASS level, all free. `StepPipeline` shows that the
slot is the right one, `Stepping` what the interrupt makes of it. Factor 8 stands for
`1 << MAX_AMASS_LEVEL`.

**Planner.** The squared speed changes by one per cell, so that a block of `2*a*mm` = n
is n cells long; speeds that the code compares are then integers. Junction limits and
nominal speeds, and the override in force, are inputs. The planned pointer, the early
returns of the recalculation and the block being executed are the code's. Overrides are
raised and lowered at any time; `pn_lowered` remembers that one has slowed a block that was
planned, until the machine stands with an empty queue. A changed override over an empty queue
runs the passes over stale slots (`planner.c:126-196`): the planned pointer is then on any of
them, and the next line brings it back.

**Gcode.** A word is its letter and the integer and mantissa parts of its value, as the
parser splits it. The checks of the words are those of the code, in its order; only the
geometry of an arc is reduced to a comparison of radii. Distances are whole millimetres and an inch is 25 of them. Each setup
enables a family of words that interact; a line has any of them in any order, also
words that are an error. Motion is where `mc_line()` and the others were told to go.

**Overrides.** 8 bits are scaled to 4 (`OvModulus` 16; 10 to 200 % is 3 to 10, with a
coarse step of 3). Nominal speeds and the PWM are products of an override and are
represented by it.

**User interface.** `ui_entered` is the line that was made ready last. The machine's state
is free within what the checks of the keys read. `Editors` shortens menus and texts;
entries carry the kinds (entry, separator, number, checkbox) that the code tells apart.
In `Display` a text is the name of its field and the version of its value. The members
`DROUpdatePhase` and `DROTextBuffer` may or may not lie one behind the other
(`dp_adjacent`): the override texts overrun the buffer by one.

**Input.** The inputs are independent except through `UITask()`'s phases: a behaviour uses
keys, or buttons, or the encoder, or the pins (`in_use`). `HandlerReturns` allows that a
handler waits, and so polls, as long as it likes.

**Homing.** One direction per axis with its place relative to the switch; both switches of
an axis share an input. At most one step falls between two polls.

**Settings.** Addresses keep the order, the gaps and the overlaps of `settings.h`, with
records scaled down. The floats and 16 bit numbers have two bytes, so that a power loss can
tear one; the settings are a rate, the step pulse, the idle lock time, the flags and the two
debounce delays, in the order of `settings_t`. A power loss comes between two bytes of a write, and
the start that follows reads everything. Start-up lines are stored under numbers that there
are and that there are not, the latter anywhere the address of the code leads; `stray` remembers
where. No loss comes in the very first start (see Divergences).

**SdCard.** A file is a sequence of characters out of the classes that `readGCodeLine()`
tells apart; clusters of two characters make every position a border of clusters. A
card is a name; a block read from it is a pair of the two, since blocks are never
written.

## Runs, bounds and fairness

Every bound is a constant of a cfg. Deadlock is checked in the pipeline runs; in the
others the bounded number of bytes, lines, commands and moves lets the system come to
rest (`CHECK_DEADLOCK FALSE`).

Components that meet only through calls which the other one abstracts are checked side
by side in one run: a variable `part` says which one moves, the others stay in one
initial state, so the states of the run are the sum and not the product, and each is
checked as if it were alone. Their modules share no variable, and a property of one is
untouched by the steps of another.

| Run | Checks | Bounds, and why they are enough |
|---|---|---|
| `pipeline` | `IInv` and what follows from it, `OrderInv`, `StoppedMeansStopped`, `QueuedDataStable`, `CallbackAfterLastStep`, the refinement `ImplementsMotionQueue`, and `HoldCompletes`, `PlannerDrains` | 3 planner slots, 4 segment slots, hence 3 block slots; 3 moves of 1 or 3 step events, each with a callback. Every ring wraps, the segment ring more than twice; a move is cut into up to 3 segments, which end at whole or half steps, so that a hold can end inside, at the end, or without a step. 134 000 states |
| `realtime` | `RtInv`, `NoStartWithDoorAjar`, `AlarmStays`, `AlarmLocksSenders`, `ResetNeverLost` | six kinds of session: 5 commands of hold, resume and spindle stop with 3 lines; 5 of door and resume with 3 lines (door, close, resume, door again during the restore, close fit in); 4 of hold, resume, door and spindle stop with 2 lines; 3 of reset, hold and resume with 3 lines (motion, jog, soft limit, sleep, unlock), from an SD file until a reset closes it; 2 of reset and resume with 3 lines (motion, spindle, jog, sleep, unlock), each the host's or the panel's; 2 of hold and door with 2 lines (probe, motion). A planner of 2 blocks. 1.7 million states |
| `realtime_live` | `MotionEnds`, `JogCancelEnds`, `ProbeEnds` | 3 commands (jog cancel, hold, resume, door) with 2 lines (motion, jog); 2 commands (hold, door) with 2 lines (probe, motion). 206 000 states |
| `threading` | `ThSafe`, `ThreadIsCurrent`, `IntervalsExact`, `ThreadMeasured` | a counter of 2 values and an offset of 2 periods: the counter overflows in every way, the 32 bits wrap; 2 index pulses asked for (1 is not enough for an interval); 2 lines of any kind from the serial port or elsewhere, a planner of 2 blocks; 2 synchronisation pulses per thread, one and more per revolution; a reset. 4.9 million states |
| `program` | parser: `GcInv`, `LineActsAsProgrammed`; overrides: `OvInv` | two lines of up to four words out of seven to nine, in seven families: offsets; G10 with a record that fails its checksum; spindle in laser mode, program end; spindle, coolant, dwell; feed modes, units and threads; arcs; stored positions and probes. Two lines are enough for one to see what the other has left; four words hold a command, two values and a second command. Overrides: four uses (feed from the host and its potentiometer, rapids likewise, spindle down, spindle up with coolant), two commands between two polls, so that two are added up, a refresh after 2 reports. 1.5 million states |
| `devices` | `UiSafe`, `EdSafe`, `InSafe`, `TextsInTheirPlaces`, `SeSafe`, `HmSafe`, `SdSafe`, `PnInv`, `SpInv` | user interface: 2 lines of up to 3 characters on every page; editors: menu and form of 8 and 6 entries with separators first and last, 5 files (more than the 3 that the display shows), a calculator of 3; input: 3 keys, one of them shift, a list of 2, 3 pins; display: 3 inputs, one change of the values; EEPROM: one tool's length and two coordinate systems, start-up lines 0 and 1 and those 2 and 8 that there are not (8 reaches the settings), numbers of two bytes, 2 stored records and one power loss between any two of their bytes; homing: 4 places of an axis, at and around the switch and beyond reach, 2 commands, 2 cycles; SD: every text of 3 characters and nine longer ones, lines of up to 6, clusters of 2, a card exchanged once; planner: 5 lines of 4 kinds, 1 event, a hold or an override raised or lowered; steps: 2 moves, 2 segments queued at once, a reset. 1.1 million states |
| `liveness` | `PanelServed`, `WaitsEnd`; serial rings: `SerialInv`, `AnswersAddUp`, `TxImplementsFifo`, `RxImplementsFifo` | as `devices`, with fewer lines, places and texts; rings of 3 + 1 and 4 + 1 bytes that wrap twice, lines of 1 and 3 characters, a line of the panel, a reset; a host that counts, and one that does not and overflows the ring. 269 000 states |
| `pipeline_sync`, `realtime_probe_resume`, `settings_lines`, `homing_unlock`, `planner_lower` | one divergence each, see below | the smallest instances that show them |

Some invariants and action properties are conjunctions, defined at the end of their
modules: `GcInv` is `ParserFollowsPlanner`, `ActiveSystemIsStored`, `OutputsFollowModes`,
`OffsetsReported`, `FeedMotionsHaveFeed`, and so on. Each part has a comment with the code
behaviour it is about and a mutant of its own (see Mutants).

The sessions of `realtime`, and those of the other runs of `Realtime`,
differ because some properties hold only without others (see Divergences): the sessions
with a reset have no probe cycle, since a probe monitor interrupted by a reset character
loses it, and a probe that fails in a hold loses its alarm.

### Fairness

- `StepPipeline!FairSpec`: weak fairness of the main program's steps (it never blocks)
  and of the interrupt's (the timer keeps running while enabled). Strong fairness of
  `CycleStop`, `StepperTick` and `CycleStart`: the first two are enabled again and
  again, with polls and segments between them, and the code does not skip them for
  ever; the last is auto cycle start in IDLE and, in HOLD, an operator who resumes
  some day, without whom a hold lasts.
- `Realtime!Spec`: weak fairness of the main program, the stepper interrupt and the
  polling of the pins, which the user interface does after every poll; strong fairness
  that a block is used up at last, that a deceleration comes to its end and that the
  spin-up delay is over, all three loops whose bounds (steps, speed, milliseconds) are
  abstracted. No fairness of the operator, the host or the door.
- `LivenessSpec`: weak fairness of the main program in every part (`SerialWrite`,
  `TakeLine`, `LineExecuted`, `UITask`, `Update`, `HmMain`, `SdMain`), of the end of a
  handler that waits (`HandlerReturns`, `Homed`: it waits for a motion, which
  `realtime_live` and homing's own part show to end) and of the interrupts it waits
  for (`Udre`; `Step` or `BufferEmpty`). No fairness of keys, pins, cards or the host.

## What the checks show

The runs marked "pass" in `PROJECT.json` hold. The two rings and the reuse of block
slots are sound; holds and resumes neither lose nor repeat a step; every hold stops; a
cancelled jog is flushed in every interleaving with holds and the door; the spindle is
off behind the door and restored before a cycle runs. A move makes exactly its steps on
every axis, whatever its segments and their AMASS levels, with one pulse for each step
counted, and no segment is without one. The plan is the fastest that its limits allow, although only a
part of it is computed again for each line, until an override slows a block of it; even then it ends at
rest and keeps its limits, but not the deceleration (`planner_lower`). Parser, planner, EEPROM, outputs and reports agree between
two lines, also after aborts, jogs and program ends; overrides from the host and the
pots, and the plan, do not come apart. The panel's line is executed once and as entered;
keys, turns and edges are taken once although handlers poll again; no text appears in the
place of another. Stored settings survive restarts, as far as their records do not overlap and no
line is stored under a number that there is none of; after a power loss each is an old, a new or a default
one, or one number was torn; a homed axis is where it says; a file's lines are executed in
order and to the end, or not at all. The serial rings are queues. Character counting never overflows the
receive ring, unless the host takes the answer to a line of the panel for one to its own; then it
is ahead by one line for each. The time between two index pulses is measured to the
tick whatever overflows; a thread starts only on a measured spindle, is always the
current block, and no synchronisation pulse moves its target twice.

## Divergences

Runs marked "violation" show where the code does not do what a comment of its own
says. Each is listed in `PROJECT.json` under "findings" with its line and the comment:

| Run | What happens |
|---|---|
| `pipeline_sync` | a buffer synchronisation trusts the planner ring and `STATE_CYCLE`; after a feed hold it can return with steps still in the segment buffer |
| `realtime_probe_resume` | a probe's contact during the handling of a feed hold is cleared with it; the resume drives on into the probe |
| `settings_lines` | start-up lines and build info take 256 bytes at addresses 80 bytes apart, and overwrite one another |
| `homing_unlock` | `$HX` (or anything else behind `$H`) is refused after the state was set to HOMING: the alarm lock is gone, G-code is taken again, and `$H` and `$X` have no effect until a reset |
| `planner_lower` | an override that lowers the speed in the middle of a block makes it jump: the next block's entry is cut to its new maximum at once (`planner.c:302`), however fast the block before it is and however short its rest |

Five more have a property and a configuration, which TLC violates with `tlc -config <cfg>
<module>`, but are no registered runs:

| Configuration | What happens |
|---|---|
| `StepPipelineReset.cfg`, `MCStepPipeline` | a reset between the cycle start's `STATE_CYCLE` and its `st_wake_up()` does not keep the steppers off (`protocol.c:445`) |
| `RealtimePosition.cfg`, `MCRealtime` | a reset between the alarm check (`protocol.c:272`) and the copy of the flags cuts a motion short without the alarm lock |
| `HomingDoor.cfg`, `MCHoming` | a door that opens after the last pass suspends the machine without `HOLD_COMPLETE`; only a reset ends it (`limitswitches.c:247`) |
| `GcodeJog.cfg`, `MCGcode` | a jog with a feed rate and no axis words, as `$J=G91F50`, moves every axis to machine zero: without axis words no target is computed (`gcode.c:594`), and nothing checks that there are any. The panel sends this line when its knob is turned on the jog page before an axis is selected (`UISupport.cpp:1866`, `1928`) |
| `SdRefused.cfg`, `MCSdCard` | a card is refused because block 0 of the one before is still in the cache (`SdVolume_grbl.cpp:117`) |

The same mechanisms have other consequences, which bound what the passing runs may
include; they were met while modelling and are not runs.

Realtime and motion:

- Flags set between the copy (`protocol.c:327`) and the clearing (`protocol.c:413`) are
  lost: also a safety door command (0x84) during the handling of a hold. The probe
  monitor's read-modify-write (`probe.c:64`) can undo a reset set by a nested serial
  interrupt.
- `SUSPEND_HOLD_COMPLETE` is set at the end of a deceleration only: until then the main
  program plans further lines (against `protocol.c:341-342`), and a soft limit found
  meanwhile kills the steppers (`limitswitches.c:661` waits in CYCLE only).
- A segment ring that runs dry while the next segment is prepared ends the cycle with
  segments left; in a jog the rest then runs as an ordinary cycle.
- A cycle stop overwrites ALARM (`protocol.c:484`), for instance when a probe cycle
  that was let through during a deceleration raises its alarm.
- `STEP_CONTROL_END_MOTION` survives a motion cancel (`protocol.c:472`): a jog sent after a
  probe cycle prepares nothing, ends at once and is auto-started as a cycle that 0x85
  does not cancel.
- A jog cancel received in JOG but served in IDLE suspends the idle machine
  (`serial.c:165`).
- A feed hold served together with the automatic cycle start that ends a door's restore undoes
  that start, and the restore is done again. The operator's cycle start may now resume within
  its delay, whose end leaves `SUSPEND_RESTORE_COMPLETE` in an otherwise empty `sys.suspend`
  (`protocol.c:418`, `784-789`); the next time the door is opened and closed, a cycle start
  resumes with the spindle off. `SpindleRunsInCycle` holds of sessions in which holds and the
  door do not meet (`HoldBehindDoor`).
- A probe cycle that fails during the deceleration of a hold raises its alarm while the machine
  still moves; `$SLP` or `$X` then find it so. What rests on the alarm lock is stated of
  sessions without probing (`NoProbing`).
- A cycle start served by the last poll of a probe cycle leaves CYCLE with the rings
  emptied (`motion_control.c:304`).
- SD and panel lines bypass the lock of `protocol.c:108` (against `main.c:65`, "Alarm locks out all
  g-code commands"; `AlarmLocksMotion` fails in the session `McPanel`): G-code of the panel
  (`protocol.c:164-171`) that is executed in ALARM queues its motion, which starts when `$X` has
  unlocked the machine, and its M3 switches the spindle on at once. After a failed probe, an SD file
  goes on in ALARM, and a second probe cycle then waits for IDLE for ever. Beside `$X`,
  `$H` and the panel's "Clear Alarm" (`UIMenus.cpp:238-249`) take the lock away; homing is `Homing`'s.
- A kill while segments are executed loses one counted step per axis (its pulse).

Serial and threading:

- `serial_write()` may switch the transmit interrupt on over an empty ring if two bytes
  leave between `serial.c:104` and `serial.c:107` (`LateInterrupts = TRUE`).
- A `$` line of the panel, a jog for instance (`UISupport.cpp:1908-1938`), is answered on the serial port
  (`protocol.c:168-169`). A host that counts characters takes the answer for that of its oldest line, and
  may then send a line too early and overflow the ring, until it has waited for all answers
  (`AnswersAddUp`; `NothingDropped` needs `CountsRight`).
- The comment at `stepper.c:514`, that a segment's `n_step` "Can sometimes be zero when moving slow", is
  out of date: a segment goes on for at least a step since `REQ_MM_INCREMENT_SCALAR` (`SegmentsHaveSteps`,
  in exact arithmetic). A zero would count `step_count` down from zero.
- `serial_get_rx_buffer_count()` is one short after a wrap (`serial.c:51`).
- A reused segment slot keeps its old callback (`stepper.c:1357`), which is then called
  again (latent: nothing in `gcode.c` sets one).
- A G33 does not keep the planner to itself: the test at `protocol.c:86` is outside of the
  loop that reads lines, which goes on after the thread is planned, and SD and panel
  lines are not tested at all (against `protocol.c:82-85`, "only 1 command will be in the
  planner buffer").
- A synchronisation pulse between the planner's clearing of its flag (`planner.c:265`) and
  the handler's (`protocol.c:321`) is lost; the target then stays one pulse behind.
- A pulse flagged between the last poll of `mc_line()` and `planner.c:467` makes the
  thread's first speed the rapid rate, up to the next pulse: the target is still zero.
- The wait for a synchronisation pulse (`gcode.c:1078`) reads the clock that was started
  before the wait for index pulses (limits 3.0 and 4.5 million ticks): a spindle of 10 to
  15 rpm passes the first and always fails the second.
- The waits of G33 do not look at `sys.abort`: a reset is served when they are over, after
  18 seconds at most.

Parser and outputs:

- Two decrements of an override served in one poll at the minimum wrap below zero and end at
  the maximum (`protocol.c:501`).
- A G33 with K0 or a negative K is accepted and planned without a feed (`gcode.c:676`).
- A feed rate in inches after a change from G93 to G94 is not converted (`gcode.c:427`); G10
  with L and no P is taken for P0; P256 and L258 wrap to P0 and L2; every line without a
  T selects tool 0; a G33 that times out fails after the modes of its line were changed.
- M2 in check mode selects G54 without loading its offsets; G10 and G28.1 write the EEPROM in
  check mode, and G33 waits in it. G28 under G1 keeps the laser's power on.
- A spindle override that comes when the last segment is prepared takes effect with the
  next motion; a coolant toggle during a wait of a line is undone by the line's own
  coolant step (`gcode.c:971`). A report of work coordinates sets the
  overrides' counter to one, for the next report (`report.c:592`), and counts it down in the same report (`599`). `KilledStaysOff` fails: a line that waits as the reset comes sets
  the spindle again before `main()` is reached.

Panel and display:

- Leaving the MDI page marks a line free that is being executed (`BusyWhileExecuted`,
  `UISupport.h:23`), and a line made ready then is dropped. `homeAllAxis` executes the
  start-up lines in the main loop's half received serial line.
- A line that is ready survives a reset. "Cancel File?" answered after the file has
  ended resets all the same. The calculator's buffer reaches a length that the line
  states use, after which keys are refused until the page is left; an operation with one
  number uses an old second one. The last tool's diameter cannot be selected. A tool length of
  six digits is written anew whenever its entry is passed, against the comment at
  `UISupport.cpp:3239`.
- The override texts are eleven characters in a buffer of ten (`UISupport.cpp:1264`): if
  `DROUpdatePhase` lies behind it, overrides are not drawn again. `SDParseError()` changes
  the SD state without a redraw. The page's first text after an alarm may stay. The coolant
  sign follows the M word, not the output. Row 0 erases the shift indicator.

Storage, homing, SD:

- The checksum is a truth value, since `||` stands for `|` (`eeprom.c:134`, `148`): a record torn inside a
  number of several bytes is usually accepted, with a number that nobody gave (`SettingsAreGiven` bounds how many).
  At the very first start the version byte is written first, and an erased record passes. `$N` takes any
  number (`system.c:327`): `$N5=` writes into the tool data, and larger ones wrap round to the settings.
  `eeprom_put_char()` switches interrupts on. Panel forms bypass the checks of `$` commands.
- A reset in the debounce delay of homing starts the next pass; a feed hold pending at
  its end is overwritten by IDLE; a `CYCLE_STOP` after the last check gives a false
  alarm; control pins are not polled while homing.
- In a file whose lines end with CR alone, the text after a comment is executed, and a
  cluster is skipped (`LinesInOrder` of texts with CR only).
- Comment and blank lines add up to a "line too long"; a line of 256 characters is ended
  one byte behind its buffer; a directory `*.NC` can be "run"; a reset with no file open
  leaves the SD state in error.

## Proofs

Every theorem below is proved from the assumptions on the constants, which are as weak as
the code's configuration allows and which TLC evaluates in the runs of the module; where the statement has a
hypothesis on them in addition (`LateInterrupts`), TLC has a counterexample without it. It holds
for every value of the constants and behaviours of any length: rings and planners of any size, any
number of moves, lines, commands, pulses and resets. The runs show the same on their small instances; a
`...Proofs` module also proves what the run of its component assumes only by its bounds.

| Module | Theorem | Statement |
|---|---|---|
| `StepPipelineProofs` | `Invariance` | `Spec => []IInv` |
| | `TypeCorrect` | `Spec => []TypeOK` |
| | `CountersAlwaysMatch` | `Spec => []CountersMatch` |
| | `SegmentsAlwaysHaveSteps` | `Spec => []SegmentsHaveSteps` |
| | `QueuedDataIsStable` | `Spec => QueuedDataStable` |
| | `RestIsRest` | `Spec => []StoppedMeansStopped` |
| | `MovesStayInOrder` | `Spec => []OrderInv` |
| | `PipelineIsAQueue` | `Spec => ImplementsMotionQueue`, the refinement of `MotionQueue` |
| | `CallbacksComeLast` | `Spec => CallbackAfterLastStep` |
| `RealtimeProofs` | `Invariance` | `Spec => []RtInv` |
| | `DoorHoldsStart` | `Spec => NoStartWithDoorAjar` |
| | `LockStays` | `Spec => AlarmStays` |
| | `LockHoldsMotion` | `Spec => AlarmLocksSenders` |
| | `ResetStays` | `Spec => ResetNeverLost` |
| `ThreadingProofs` | `ThreadAlwaysCurrent` | `Spec => []ThreadIsCurrent` |
| | `ThreadAlwaysMeasured` | `Spec => ThreadMeasured` |
| | `TargetFollowsSpindle` | `Spec => []ThSafe`, with `NeverAheadOfSpindle` |
| | `IntervalsAlwaysExact` | `Spec => IntervalsExact` |
| `SteppingProofs` | `SteppingIsExact` | `SpSpec => []SpInv`, with `StepsExact`, `RestsOnTarget`, `PulsesAsCounted` |
| | `PlanIsKept` | `PnSpec => []PnInv`, with `PlanEndsInStop`, and until a block is slowed `PlanIsOptimal` and `AccelerationKept` |
| `SerialProofs` | `TransmitIsAQueue` | `~LateInterrupts`: `TxSpec => TxImplementsFifo` |
| | `TransmitStreamsOnlyQueued` | `~LateInterrupts`: `TxSpec => [](TxTypeOK /\ StreamsOnlyQueued)` |
| | `ReceiveIsAQueue` | `RxSpec => RxImplementsFifo` |
| | `CountedCharactersArrive` | `~LateInterrupts`: `SerialSpec => []SerialInv`, with `NothingDropped` of a host that `CountsRight` |
| `MachineProofs` | `OutputsAsParsed` | `OvSpec => []OvInv` |
| | `HomedIsLocated` | `HmSpec => []HmInv`, with `HomedMeansLocated` |
| | `FailedHomingStaysLocked` | `HmSpec => FailedHomingLocks` |
| | `HomingIsSafe` | `HmSpec => HmSafe`, the two together |
| `GcodeProofs` | `ParserAgrees` | `GcSpec => []GcInv` |
| | `LinesActAsProgrammed` | `GcSpec => LineActsAsProgrammed` |
| `PanelProofs` | `LineKeepsBounds` | `UiSpec => []UiInv` |
| | `LineTakenAsEntered` | `UiSpec => TakenAsEntered` |
| | `ProbedStaysLocked` | `UiSpec => ProbedDirectionLocked` |
| | `LinesAreSafe` | `UiSpec => UiSafe`, the three together |
| | `SelectedIsVisible` | `EdSpec => []EdInv`, with `SelectionVisible` and `ToolDataAsTyped` |
| | `FormSavesWhatWasTyped` | `EdSpec => TypedIsSaved` |
| | `CalculatorIsStack` | `EdSpec => CalculatorIsAStack`, the refinement of `RpnStack` |
| | `EditorsAreSafe` | `EdSpec => EdSafe`, the three together |
| | `InputsTakenOnce` | `InSpec => []InputsTaken`, with `KeyReportedOnce`, `LoneKeyReported`, `ShiftedOnce`, `PressHandledOnce` |
| | `StepsAreTheTurned` | `InSpec => EncoderCounts` |
| | `InputsAreSafe` | `InSpec => InSafe`, the two together |
| | `EveryTextInItsPlace` | `DpSpec => []TextsInTheirPlaces` |

### Pipeline

From `SizeAssumption` (`BLOCK_BUFFER_SIZE >= 2`, `SEGMENT_BUFFER_SIZE >= 3`) and
`ValueAssumption` (step counts are positive).

The question is why the interrupt may recognise a new move by a changed block index
(`stepper.c`, "If the new segment starts a new planner block, initialize stepper
variables and counters") although block slots are reused round robin without a check.
`CountersMatch` is not inductive; `StepPipelineInv` strengthens it:

- `WindowInv`: a queued segment's block slot lies no further behind the slot in `prep`
  than the segments queued after it account for. As a block ends with a segment of its
  own, and the block ring is one shorter than the segment ring, no slot comes round
  while a segment refers to it.
- `CountersInv`: an index equal to the interrupt's means that the counters are of that
  move; with an empty ring, that the interrupt's block is the one in `prep` or the one
  before it.
- `HeadInv`, `ExecInv`: there is room for the segment being filled; the executing
  segment is the oldest.
- `PrepInv`, `StepsInv`: the block in `prep` is the oldest of the planner and
  unfinished; nothing without steps is queued. The code releases segments without looking;
  `FarIsAStep` shows that a segment which goes on for 1.25 steps, from any place within a step to any
  other, crosses a whole one, and `InBlockTakesSteps` that the others are a hold's or a block's last.

Each action is first reduced to its effect on the rings (`StepEffect`: load a block,
release a segment, a step, an abort, or nothing), and each part of the invariant is
proved once per effect. `Back` and `Pos` replace modular arithmetic by case distinctions
that linear arithmetic decides (`BackAdvance`, `TailAdvance`, `HeadAdvance`).
`StopInv` adds to `StoppedMeansStopped` that a stop waits to be served only while the timer is
off, and that a start which has not switched it on yet begins with none.

The refinement needs the moves to be in order (`OrderInv`): the planner ring holds the moves
planned last, `prep` the one before them, the segment ring the ones before that, each without a
gap. Steps left to make are `Left(id)`, a sum over segments, `prep` and planner ring,
counted as the size of a set of pairs, so that adding or removing a part is a fact about
cardinalities (`TotalAdd`, `TotalRemove`). Every step is of one of six kinds
(`StepKinds`): a move is planned, loaded, cut into a segment, a step is made (with the next
segment loaded or not), everything is discarded, or nothing that counts changes. For each kind one lemma says what becomes
of `Left`, one that the order stays, and one that the callbacks do. With the moves in order, the queue
of `MotionQueue` is the moves from the oldest with a step left (`OldestIs`, `QueueIs`), and each
kind is one of its actions or a stutter.

### Realtime

From `RealtimeAssumption`: sessions are of the commands and lines that the module knows. `RtInv`
(in `Realtime`, so that TLC checks it) is inductive. Beside the types and the properties
it consists of what the handler relies on without saying so:

- `SuspendInv`: which bits of `sys.suspend` belong to which state, and that the main program never
  goes on while one is set.
- `RestInv`: the end of a motion is flagged only when the timer is off; whatever leaves
  IDLE or a completed hold goes through a wake-up; a locked machine does nothing.
- `RestoreInv`, `DoorInv`, `OverrideInv`: from the restore of the spindle to the cycle start that it flags
  nothing comes in between, unless a hold does (`HoldBehindDoor`).
- `CancelInv`, `SleepInv`, `SoftLimitInv`, `ResetInv`, `LockInv`: a request is served in the
  state it was accepted in, and an alarm comes with its reset. A line of the panel may queue
  motion in ALARM, but nothing of it moves (`RestInv`).
- `ProbingInv`: the monitor, its copy of the flags and its alarms belong to a probing cycle.

`Served(f, places)` stands for a flag that is no longer pending but in the handler's copy, and still to
be looked at. The properties that rest on the alarm lock are stated of sessions without
probing, `SpindleRunsInCycle` of those in which holds and the door do not meet: the code does
not keep them otherwise (Divergences), and TLC found the counterexamples when the
conditions were dropped.

### Threading

From `ClockAssumption` and `ThreadingAssumption`, for every number of index pulses asked for,
all timeouts, periods and widths of the clock, and any planner.

`ThInv`: from `threading_init()` to the plan of the thread the planner is empty unless a reset is being
served (`PlannerEmptied`); a pulse is counted at most once, so that the count and a pulse
still pending are never more than what arrived (`CountsArrived`); and what was counted was
measured on a clock not reset since (`CountsMeasured`, `ReadyMeasured`).

`TargetInv`, for the target: a synchronisation pulse that is flagged and not yet used counts as used
(`TargetBehind`), so that the pulse's arrival, not its handling, is what the target can never
overtake; with one pulse per revolution, an index pulse is a synchronisation pulse to come
(`PulseToCome`).

`ClockInv`, for the intervals: the time measured and the time that counter, overflow flag and offset show
agree modulo the width of the clock (`SinceLast`), also while an overflow is pending, and
between the two readings of `get_timer_ticks()` (`FirstReadingGood`).

### Stepping

From `SteppingAssumption`: each move has an axis with the most steps, which is what
`plan_buffer_line()` computes as `step_event_count`; for every set of axes, all moves, every cut of a
move into segments and every AMASS level of each of them. That every segment ends on the step
that its profile asks for is not obvious: with AMASS the counters are advanced by shifted
step counts, and the level changes from segment to segment. The invariant `MovesInv`
measures in eighths of an event, which are whole at every level, and keeps a ledger for
each axis with `left` eighths to go:

    counter + made * event_count + steps * left = event_count / 2 + steps * event_count

where `event_count` and the counter are the scaled ones of the block, `steps` the axis's
unscaled ones. `LedgerKept` shows that a tick keeps it whether or not the counter overflows,
and `LedgerClosed` that `made = steps` at its end, since the counter is bounded by the
event count. `QueueInv` and `PreparedInv` carry the ledger from one segment to the next:
each begins where the one before ended, or with the next block. The pulse invariant
`PulsesInv` ties the position that is counted to the pulses that are on the pins.

### Serial

From `TxAssumption` and `RxAssumption`. `HeadAdvances`, `TailAdvances`, `TailMoves` and
`StoreKeepsQueue` say once what the accesses to a ring buffer do to the queue in it; modular
arithmetic is confined to `CountFacts` and `SlotFacts`. `TxPlace` is what `serial_write()` knows at each of
its steps although the interrupt may come before the next: between the store of the head and the
write to `UCSRXB` the interrupt, if it is on, has more than the new byte to send, so that
one byte may leave there and the ring is still not empty when the interrupt is switched on.
A second one is what `LateInterrupts` rules out; with it, TLC finds the ring sent
again. `RxPlace` is the same for `serial_read()` and the flush.

`RxFull` proves the host's character counting. What it has sent is numbered. The ring and the
wire hold the characters after `Taken`; the lines that are owed an answer, or have one under
way, are the oldest unanswered ones and were taken whole (`AnswersTellLines`). So an
answer heard moves `heard` to the end of a line that was taken, and `sent - heard`, which the host keeps
within `RX_BUFFER_SIZE`, bounds what is on the wire and in the ring. The panel's answers are `rx_extra`
of those under way. As long as the host has heard each of them when it awaited none, it passes over them
(`PassesOverFull`), and the lines owed an answer are the `Due` ones, without those; once it has taken
one for its own (`rx_misled`), nothing is claimed, and `AnswersAddUp` is left to TLC. A reset flushes the ring, after which
the host's numbers say nothing; until it sees the reset it sends nothing that does not fit.

### Planner

From `PnAssumption` (lines are at least a cell long, nominal speeds are positive, every rate has one for
every override), with overrides raised and lowered at any time. The inductive invariant is `PlanHolds`, `PlanRuns`
and, until a block of the queue is slowed, `PlanSound`.

`PlanRuns` is what no override takes away: no entry is above its maximum, which belongs to the override in
force; each can be reached from the one before, so that the speed never rises by more than a cell allows; and none is too fast to
stop on what is left of the plan (`StopsInTime`), so that the plan ends in a stop even where the speed
drops at a border (`planner_lower`). It is also what a stop begins from: with an empty queue the machine
stands, and `PlanSound` holds again from there.

`PlanSound` is about the rest. `PlanIsOptimal` compares each entry speed with every limit before and behind it, but the code never looks in
front of the planned pointer again. What it keeps, and what is inductive (`PlanKept`), is local. `CanStop`: each
entry is within its maximum and brakes to the next one. `FullyUsed`: each entry is at its maximum, or all that can be
reached from the one before, or, unless it is the planned one, all from which the next one can be reached. Two things
make the second survive a line that is added: the reverse pass leaves a plan whose entries can only have grown,
and `NextPlanned` stops at a block that the first two reasons hold for, so that nothing planned later can raise it.
A hold suspends `FullyUsed` and keeps `CanStop`; the plan made anew from the stop restores it.
`MaximaAreCurrent` and `SpeedsAreCurrent` tie the maxima and `pl.previous_nominal_speed` to the override, and
`ProfileJoins` the profile in `prep` to the plan at both ends of its block: from these each cell is shown to stay in
reach of both ends (`NextSpeedIs`, `Executed`), which is why the last one meets the entry of the next block.

That the local conditions give the global optimum is `UsedPlanIsOptimal`. With `s` the cells before a block and `E` its
entry, neither `s - E` nor `s + E` falls along the queue; an entry below its maximum leaves the first as it was or the
second as it will be; such ties end at a maximum, at the speed of now or at the stop, and there is the
limit that the entry equals.

The passes are recursive functions. That they have values and satisfy their equations (`ReverseIs`, `ForwardIs`,
`CellsBetweenIs`) is shown for every length of the queue by well-founded induction in the form that needs no operator as
a parameter: a nonempty set of counterexamples would have a least one (`LeastOf`).

### Overrides

From `OvAssumption`: the values of `config.h` are ordered as there and add up within eight
bits. `SpindleFollows` makes `OvInv` inductive: whether the spindle turns, and which way, is as parsed at every
step, since a line sets the pins and the mode in one wait; its level follows unless
an update is pending, in a cycle with the last prepared segment and in a hold at once. `ReportsOrAsks`
shows that each step reports, asks for a report or changes nothing that is reported.

### Parser

From `GcAssumption`: a stored record has a whole number per axis, the values of words are whole
numbers, and the record of G54 can be read, since `gc_init()` has read it before the first line. The
setups may offer any set of words, lines may be of any length and number, and the
EEPROM may have any other record broken.

A check of the code returns from `gc_execute_line()`, so each phase is a list of them, and a status
is that of the first that fails (`FailIf`, `FirstFailure`). A block that passes has every
check of every list behind it (`NoneFails`, `BothFine`, `EachListFine`): `BlockAccepted` names what its
execution takes for granted without looking again. The records it reads can be read, a feed motion has a feed,
a jog has no other command than G53, G90, G91, G20 and G21.

`GcInv` is inductive with `BlockInv`, which says what the words have made of a block while it is
read: a command that uses the axis words (`axis_command`) is the only one of its line that does, and the coordinate
system of the block differs from the state's only by a command. Each word keeps it
(`WordKeepsBlock`), whichever words came before. It is what keeps G10, G92, a tool length and a motion from
meeting in one line, without which no two of the copies of an offset would agree. For each way a block can leave the
parser (`Execute`, `Abort`, `PulseTimeout`, `ExecuteJog`, `Reject`) one lemma then shows that all copies are changed alike:
`LastTargetIs` for the position, `SystemStored` for the coordinate system, `OutputsFollow` for
the pins, `UnflaggedKeepsWco` for the report. `NewOffsets` and `LineMovesAsProgrammed` are the algebra of
the offsets behind `LineActsAsProgrammed`.

`FeedMotionsHaveFeed` leaves out G33, whose feed is its K (Divergences): TLC found a thread
with K0.

### Homing

From `HmAssumption`: a pull-off of at least two steps, less than the travel between the
switches of an axis, and the realtime commands that a homing cycle looks at. For every
search distance, every place where the axes stand at the start, and any number of commands and of cycles.

That a homed axis is where its position says follows from where each pass ends, and so
`HmInv` follows the axis through its four passes. `BetweenPasses`: the first two leave it off its
switch and within reach, the third on it, the fourth homed. `InPass` is the pass itself, in
which the main program polls the switch while the interrupt steps: the slow approach goes no further than the
one step that may fall between two polls, and when it pulls off, place and steps left add up to the
pull-off. `InTheCycle`: only the axis that is being homed moves, so that Z cannot undo what is said of X. Every failure
leaves the cycle by way of a reset, which `FailedHomingStaysLocked` reads off the actions.

### Panel

`UserInterface`, from `UiAssumption`: the size of the line buffer leaves room for the two marks `READY` and
`BUSY`, which share a byte with the length of a text. `UiInv` says that on the MDI page that byte is the length of
the text and never reaches a mark, and that a ready line is the one that was
entered: each of the handlers either finds the line free or leaves it alone.

`Editors`, from `EdAssumption`: menus and forms are built like those of `UIMenus.cpp`, where no
two separators follow each other, none comes first, and only a menu has a title. Then a step over a separator
never ends on another or behind the list, and the display follows by at most two (`GoUpKeeps`, `GoDownKeeps`).
`EdInv` adds what the edit buffer holds (`BufferIsTyped`): the text that was typed last for
the selected entry, or what is shown of its value. So accepting it makes every value the typed one (`ValueAccepted`, `ToolAccepted`;
`ToolTexts` says that what a line of the tool page cuts off is cut off once), and a form is saved with
its end selected, which has no text to lose.

The calculator is shown to implement `RpnStack` by the mapping that reads the cells below `ed_top` as a sequence
(`Shown`). `PushIsPush`, `DropIsRemoval` and `OperationIsOperation` say of each loop over the array
what it does to that sequence, compared element by element.

`Input`, from `InAssumption`: key codes are numbers and the list has room for at least one key. A list of keys that
is scanned in place has no order of its own, so that which key is reported depends on who came first. `InInv` says
what is enough: a key that was reported stays the first of the list while it is held
(`ToldIsFirst`), every scan without a key moves all listed ones on, so that three of them leave the list
empty (`ListEmpties`, `FirstOfEmptyList`), a shift that is on was used by no key yet, and a button that was handled is kept as pressed or
its handler has waited.

`Display`, from nothing but its table of fields: there are as many inputs, changes of the values and periods of the
indicator as one likes. The first half of the proof is about the table. `PageIsCovered` says that every place below the
status line has a text of the page or is cleared when the page is entered, so that `FreshPageShows`: what the page
before has left there is gone. The second half is about the shared buffer. `NextIsRendered`, a part of
`TextsInTheirPlaces` since it is not inductive without it, says that a step that draws from the buffer finds the text of
its own field there. A round renders each value in the step before it is drawn (`StepsAre`), and whoever else writes into the
buffer either sets the counter to zero, where a round renders first (`RoundsBegin`), or has left the page. In a
build that lets the eleventh character of an override run into the counter, what it leaves there is beyond the end of
every round, so that nothing is drawn at a wrong place either (`FreshRound`); that overrides are then never drawn
again is for the liveness property to say.

### What is only model-checked

- Every liveness property: liveness under fairness and `ENABLED` are beyond the prover.
- `SeSafe`: the checksum is a fold over the bytes of a record; that a record that was written
  passes its check is a statement about that fold for every length.
- `SdSafe`: the lines of a text and the scan for a character are recursive as well.
- `AnswersAddUp`: by how much a host that was misled is ahead.

## Mutants

Every property of a passing run has a mutant in `PROJECT.json`: a definition of the
module changed the way a plausible bug would change it, for which TLC finds the property
violated. The mutated forms stand just before the definition they resemble; nothing else
uses them.

The parts of a conjunction have further ones, each found under the same run's bounds:

| Property | Part | Definition | Mutated form |
|---|---|---|---|
| `OvInv` | `OvTypeOK` | `Adjusted` | `AdjustedBoundedAbove` |
| `OvInv` | `CoolantAsParsed` | `CoolantSet` | `CoolantSetPinsOnly` |
| `OvInv` | `ReportedSoon` | `CoolantSet` | `CoolantSetUnreported` |
| `OvInv` | `PlannedWithOverrides` | `MotionOverrides` | `MotionOverridesFeedOnly` |
| `LineActsAsProgrammed` | `JogKeepsModes` | `ExecuteJog` | `ExecuteJogWithModes` |
| `GcInv` | `OffsetsReported` | `FlagsWco` | `FlagsWcoButNotG92` |
| `GcInv` | `ParserFollowsPlanner` | `GcJogCancelled` | `GcJogCancelledUnsynced` |
| `GcInv` | `OutputsFollowModes` | `OutputsAfter` | `OutputsAfterWithoutEnd` |
| `GcInv` | `FeedMotionsHaveFeed` | `MotionChecks` | `MotionChecksWithoutFeed` |
| `RtInv` | `RetractedMeansOff` | `Deenergize` | `DeenergizeNot` |
| `RtInv` | `RtTypeOK` | `QueueLine` | `QueueLineAnyway` |
| `RtInv` | `RestMeansStopped` | `Shutdown` | `ShutdownStaysOn` |
| `WaitsEnd` | `WriteReturns` | `EnableUdrie` | `EnableUdrieForgotten` |
| `WaitsEnd` | `FileRunEnds` | `EndOfFile` | `EndOfFileLeftOpen` |
| `HmSafe` | `HomedMeansLocated` | `Failure` | `FailureButPulloff` |
| `HmSafe` | `HmTypeOK` | `PassesLeft` | `PassesLeftOneMore` |
| `EdSafe` | `SelectionVisible` | `IsSeparator` | `IsSeparatorOfMenu` |
| `EdSafe` | `ToolDataAsTyped` | `TextOf` | `TextOfLength` |
| `EdSafe` | `CalculatorIsAStack` | `PushedCells` | `PushedCellsUpwards` |
| `PanelServed` | `LinesLeaveTheBuffer` | `LineExecuted` | `LineExecutedKept` |
| `PanelServed` | `ScreenSettles` | `RestOfStatusLine` | `RestOfStatusLineClearsFlag` |
| `SdSafe` | `LinesInOrder` | `LineFails` | `LineFailsOnlyLost` |
| `SdSafe` | `OpenMeansOpen` | `ParseError` | `ParseErrorKeepsFile` |
| `UiSafe` | `UiTypeOK` | `MdiKeyPressed` | `MdiKeyPressedUnbounded` |
| `UiSafe` | `TakenAsEntered` | `TakeLine` | `TakeLineOfAnyLength` |
| `InSafe` | `LoneKeyReported` | `NextKeyState` | `NextKeyStateHeldStays` |
| `InSafe` | `ShiftedOnce` | `PollKeypad` | `PollKeypadShiftStays` |
| `InSafe` | `PressHandledOnce` | `PollButton` | `PollButtonLevel` |
| `InSafe` | `EncoderCounts` | `Steps` | `StepsMistaken` |
| `SeSafe` | `SoftLimitsNeedHoming` | `Refused` | `RefusedButSoft` |
| `SeSafe` | `SettingsAreStored` | `Restored` | `RestoredButSettings` |
| `SeSafe` | `NumbersReadBack` | `Stored` | `StoredUnspaced` |
| `PnInv` | `AccelerationKept` | `Updated` | `UpdatedNever` |
| `PnInv` | `PlanEndsInStop` | `ReversePass` | `ReversePassFromMaximum` |
| `SerialInv` | `RxTypeOK` | `rx_next` | `rx_next_no_wrap` |
| `SerialInv` | `NothingDropped` | `rx_next` | `rx_next_early_wrap` |
| `SerialInv` | `TxTypeOK` | `tx_next` | `tx_next_no_wrap` |
| `SpInv` | `StepsExact` | `Counters` | `CountersKept` |
| `SpInv` | `PulsesAsCounted` | `OutbitsAtWakeUp` | `OutbitsKept` |

## Not modelled

- Arithmetic on speeds and distances: ramps inside a segment, junction angles, the
  geometry of arcs, AMASS timing, the PWM curve. Floats are out of TLC's reach, and the
  control around them is what is modelled.
- Formatting: reports, numbers, layout of the pages without a state of their own.
- The directory walk of the vendored SD library, and its write path, which nothing calls;
  `TWI_Master.c`, likewise.
- Pin tables and build configuration.
- Sleep timer, parking, CoreXY, hardware limits, second motors, `UIConversational.cpp`,
  `spindle_tachometer.cpp`: compiled out, switched off or commented out.

## Plan

Done: all components of the first table that are modelled; proofs of the pipeline with its refinement, of the
realtime state machine, threading, stepping, the look-ahead of the planner, both serial rings with the host's counting, the overrides, homing,
the G-code parser, and the pages, lists, calculator, inputs and display of the panel.

What is left, in order of importance:

1. Proofs for the parts of `SeSafe` and `SdSafe` that do not rest on the fold of the checksum or the scan of a text.
2. Homing below `Realtime`'s suspend loop, with the suspend states it leaves behind.
