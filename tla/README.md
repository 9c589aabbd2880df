# A verification of the PDP-8 simulator

The repository holds a PDP-8 written three times: the SystemVerilog design
(`src/src`), the VHDL design it grew out of (`src/VHDL`) and a simulator in C
(`src/good_models/C_PDP8`), called the golden model because a script compares
the files the testbenches write of the design with those it writes. These TLA+
modules model the SystemVerilog design clock by clock, with its front panel and
the testbenches that work it; the C program with its threads; the program that
generates the decoder's test vectors; and the VHDL group 3 sequence as what the
design promises there. TLC checks each against the others on small instances,
and TLAPS proves for every program, input and reset that the machines of the
design answer each other rightly, that a press of a button is one operation,
that the clocked design implements the programmer's machine wherever it does
not depart from it by design, and that the traces the testbenches write of it
are then the golden model's; and, for every build of the generator, that its
vectors are what the decoder and the C simulator compute.

## Inventory

| Part | State | Operations | Talks to |
|---|---|---|---|
| Controller (`Controller.sv`) | `Curr_State`; the latches `Inst_State`, `EA_Flag` | a next-state and an output arm per state; asynchronous reset to `REG_INIT` | everything, over `main_bus` |
| Datapath (`CPU.sv`) | registers `curr_reg`; registered `address`, `write_data`, `dispout`; `swreg_temp`, `srchange` | a multiplexer per register, selected by the controller; the change detector | controller, memory, EAE, decoder |
| Memory controller (`memory_controller.sv`) | four states, the array with valid flags, the latch `read_data` | serve a read or a write in three clocks, answer with `mem_finished` for one | controller (enables, `mem_finished`), datapath (address, data) |
| EAE (`EAE.sv`, `Multiply.sv`, `Divide.sv`) | two four-state machines with a counter and two registers each; the result registers | load, 12 iterations, finish | controller (`eae_start`, `eae_fin`), datapath (operands, results) |
| Decoder (`micro_instruction_decoder.sv`) | none, but for a latch on the link of the byte swap | combinational | controller (groups, skip), datapath (`ac_micro`, `l_micro`) |
| Front panel (`Front_Panel.sv`) | `run`; button one-shot; display selector; a divider | turn switches and buttons into `run` and one-clock strobes | controller, on the same bus |
| `Top.sv` | none | wires the five on one clock and one reset | |
| `simulation_tb.sv`, `veloce_top.sv` | the place in their script; `pc_temp`, `cond_skip_flag` | load an object file through the switches, raise the run switch; write three traces and memory | the panel's switches and buttons, the lamps, the wires of the bus |
| `PDP8_hvl.cxx` | `temp_memory`, `max_index`, `mem_index` | read the object file, hand out its words, write trace lines | `veloce_top`, by DPI calls |
| IOT distributor | not in the repository | `skip_flag`, `clearacc`, `datain` | controller |
| C simulator, program (`cpu.c`, `memory.c`, `main.c`) | registers, memory, print flag | one turn of the loop per instruction; trace lines | the keyboard thread, through `struct keyboard` and its mutex |
| C simulator, keyboard (`kb_input.c`) | `input_char`, `input_flag`, `quit`; the terminal's mode | poll, read, store, clear | the program; the terminal, through stdio |
| C simulator, process (`main.c`, `debugger.c`, `branch_trace.c`) | open files, threads, the debugger's state | open, create, join, print, close; prompt | both threads; stdin |
| Generator (`micro_instruction_generator.c`) | one register structure, kept from test to test | a line for every test | the decoder's testbench, by a file |
| VHDL design | as the SystemVerilog one, other states | | |

What is hard here. The controller speaks to two machines, memory and the EAE,
by request and strobe, and **a reset reaches the controller only**: memory
goes on with the write it was doing, the multiplier with the product of the
old operands. Nothing but the number of clocks before the next request keeps
the old answer from being taken for the new one. `read_data`, `EA_Flag`,
`Inst_State`, the divider's `link_out` and the decoder's link are values kept
from some earlier clock. The EAE reports the multiplier's finish for both of
its machines. Six panel requests compete for one state. A reset in the middle
of an instruction with two writes leaves some of them done. The address
arithmetic wraps, and the page comes from an already incremented counter.

The testbenches act on the panel by counting clocks and never look at
the answer: each press must be long enough for the one-shot's divider, and the
controller back in `CPU_IDLE` before the next. They infer accesses and
branches from the controller's states and a few wires.

The C program has two threads that clear the same flag, a reader that waits
in `fgetc` and so cannot see `quit`, a poll (`select`) that asks about the
descriptor while stdio has a buffer of its own, and, with the debugger, a second
reader of stdin.

What makes each part correct. Memory: an answer belongs to the request it is
taken for, with that request's address and data. EAE: both machines in step,
products and quotients of the operands loaded. Decoder and controller: an
instruction, over its 7 to 40 clocks, does to the programmer's state what the
golden model does in one step, and leaves the same trace. Controller: no wait is
for ever. Panel: each operation is whole, each press counts once. Testbenches: the
program in memory is that of the file, and what it ends with is what the golden
model ends with. C simulator: characters reach the program in order, no thread
waits where it should not, the process ends and ends in order. Generator: every
vector is right whatever tests a build leaves out. `PROJECT.json` lists the hazards
line by line with the properties for each.

## Modules

Abstract:

- `Golden`: `Execute(s)`, one turn of `run_program`, from the functions of
  `cpu.c`, `memory.c` and `main.c`, with the C program's 16-bit program counter.
- `PDP8`: the programmer's machine, a step per instruction or panel operation.
  Opcodes 0 to 5 and groups 1 and 2 are `Golden!Execute`; group 3 is the
  VHDL order: clear, exchange, arithmetic on the word after the instruction.
  `Reset` says what an interrupted operation may leave in memory. `event`
  says what the step claims to be and what it took in, so a step cannot be
  excused as some other operation. It extends `GoldenTraces`: a step also has lines.

The design:

- `Words`: 12-bit words as numbers, bits and fields of an instruction.
- `MicroDecoder`: the decoder as operators, one per block of the pipeline.
- `MemoryController`: `MemIdle`, `MemRead`, `MemWrite`, `MemDone`, one per state.
  `memory` is a function whose domain is the set of valid locations.
- `EAE`: `EaeClock`, with the word width `W` a parameter.
- `CPU`: one action per controller state. `Go(s, t)` is a state of one clock,
  `Await(s, t)` one that waits for `mem_finished`; the rest of an action is what
  the output arm selects in the datapath. `Clock(i)` is a rising edge with the
  inputs `i`, at which controller, datapath, detector, decoder latch, memory and
  EAE move together. `PressReset` moves the state register between two
  edges and nothing else. The inputs are any member of `Inputs` at any clock.
- `CPUSafety`: the properties of the clocked machine.
- `CPUHistory`: history variables that mark where an operation begins and ends,
  and `ImplementsPDP8`, the refinement: `PDP8!Spec` with `arch` the visible
  registers and memory when the controller was last idle after an operation.
  `Alike(w)` lists the words that mean the same to the design and to the
  programmer's machine, `Regular` what a behaviour meets that meets no departure.
- `EAEResults`: the EAE alone, any use of its inputs, and what it was asked.
  Powers of two are a constant, `Weight`, with what is used of them assumed.
- `FrontPanel`: `PanelClock` is an edge of the clock; `RaiseRun`, `LowerRun`,
  `Press`, `Release`, `SetSwitches` are what a hand does between two edges. `run`
  changes at the edge of its switch and at that of `halt`.
- `Board`: `FrontPanel` and `CPU` on one clock and one reset (`BoardClock`), and
  three users: an operator (`Operate`), and the scripts of `simulation_tb` and
  `veloce_top` (`Follow`), sequences of what to do after how many clocks. `simulation_tb`
  starts with the switches down; those of `veloce_top` are undriven until its first
  Load PC, and may read as any member of `Undriven`.
- `BoardPromises`: what the board promises to each of them.
- `BoardHistory`: the board with the history of `CPUHistory`, so that what its
  users do can be compared with `PDP8`. `HBoardSpec`, its specification, is what
  the run checks.

Traces:

- `GoldenTraces`: the lines the golden model writes for an instruction.
- `CPUTraces`: the lines the testbenches write of the design, clock by clock,
  on top of `CPUHistory`, and their comparison at the end of every operation. A
  history variable, `begun`, keeps MB and the effective address from where the
  operation began: the opcode line prints them, and an instruction that does not
  load them prints those of an earlier one. An answer of memory to a request
  a reset has taken away writes no line.

The C programs:

- `ObjectFile`: the two C readers of the object file format.
- `Simulator`: the process. A program counter for each of its threads, `kb` with
  its mutex, stdin as the terminal (`tty`) and stdio (`buffer`) hold it.
  `CurrentInstruction` and `Execute` are `Golden`'s, so the programs in memory
  really run. A turn of the loop is one action up to the mutex; taking it,
  and what is done under it, are two more: the other thread can act between any two.
  `printed` is the last character the program printed, `shown` the last that has left
  stdio's buffer for certain: TPC, `exit` and the end of `main` write the buffer out,
  TLS does not (`cpu.c:188`), and stdio may at any time (`Flush`). A missing
  `opcodes_golden.txt` ends the process at the end of the first turn, which writes to it.
- `SimulatorProperties`: what must hold of it.
- `MicroGenerator`: the output file is opened, or `main` exits; then one action per
  line, for any set of compilation flags; then the file is closed.
- `DecoderTest`: its lines against `MicroDecoder` and against `Golden`.

To check: `MCInstructions` (one instruction from many states), `MCPrograms`
(programs, resets, devices, panel), `MCBoard` (object files, operator),
`MCSimulator` (programs, what is typed), `MCEae` (words of three bits),
`DecoderTest`, `MCDivergences` (what does not hold).

To prove: `WordLemmas` (bits, fields and rotations of words), `EAEProofs` (the
EAE alone, every width), `CPUProofs` (the processor: types, memory, the EAE in
it), `CPURefinement` (the processor and the programmer's machine), `TraceProofs`
(the traces), `BoardProofs` (the panel and its users), `SimulatorProofs` (the C
simulator's threads), `DecoderProofs` (the generator's vectors).

An operator marked "A mutant" is a plausible slip in the definition that
follows it. It is used by nothing; put in that definition's place, it makes
the property named in `PROJECT.json` fail.

### How the code is rendered

Non-blocking assignments of one edge commit together, so an edge is one step.
`always_comb` latches are variables (`instState`, `eaFlag`, `readLatch`,
`heldLink`). Power-up: the controller and memory have initial values; the
registers have none and start with any value of `PowerUpRegs`; the EAE's machines
start in S0 (the first value of a two-state type), its data registers are zero
since they are loaded before they are read, except the divider's link. The
comparisons with `?` digits under `==` (MIC_2, MIC_4) are never true in
simulation and have no disjunct. `read_type` does not change what is read. Left
out: the seven-segment output, `linkout`, `dataout`, the names of instructions in
the traces (the code's own `NO_OPCODE_TEXT`).

In the C program `char` is signed, `uint16_t` registers are cut where the code cuts
them, an uninitialised `input_char` is a character of its own (place 0), and a
character is the place it has in what the user types, so that order can be
stated; `Byte` gives its code. The structure of the generator is uninitialised
too: it starts with any member of `Garbage`. A failing `fopen` or
`pthread_create` is a disjunct of its action.

## Runs

| Run | Question | Bounds | Distinct states |
|---|---|---|---|
| `instructions` | does each instruction do what the golden model says, and do the testbench's traces say so? | memory reference: 6 opcodes, 4 modes, offsets 0007, 0010, 0017, 0020 (both ends of the auto-index range, inside and outside), pointers 1, 0300, 7777, at 0200 and at 7777, AC 1, 5252, 7777; groups 1 and 2: every word the two designs define alike; group 3: all combinations without the exchange, divisors 0, 3, 4001, 7777; AC 0, 2, 2525, 4000, 7777, both links, MQ 0, 1, 4000, 7777 | 2 767 864 |
| `resets` | does a reset at any clock leave every later answer right, and does every operation end? | ten looping programs: `Loop` with every kind of memory and EAE access, `Tight` with MUY at location 0, as soon after a reset as can be, `Device(k)` for 6030 to 6037 with every answer of a device and three data values | 94 954 |
| `panel` | do panel operations in any order stay whole, whatever the panel's wires do? | five button settings, two switch settings, PC 7777, 0, 1, AC 0 and 1 (`NearSwitches`) | 492 612 |
| `eae` | are products and quotients right, whatever start and the operands do? | W = 3, all operands | 3 026 |
| `board` | do the scripts load and run what the golden model runs; is each press one operation, and one of `PDP8`? | divider 5 as in the code, two object files under two testbenches, an operator with four buttons, two switch settings, run and reset, the switches `veloce_top` leaves undriven as 0, 0200 or 7777, five moves | 1 043 220 |
| `keyboard` | what can the threads of the C program do to each other, and does the process end? | four programs, with and without the debugger, up to four characters (one above 127, one newline) typed at any time or not, end of input at any time | 159 167 |
| `generator` | is every vector right in every build? | the full build and all 32 builds without exhaustive tests, two contents of the structure, an output file that opens or not | 131 884 |

Why the bounds are enough. The refinement relates the state
before an operation to the state after it, so one operation from many states
(`OneOperation`) covers sequences, as the state an operation leaves is a state
to start in; the sequences that matter, where a reset or a button falls inside
one, are in `resets`, `panel` and `board`. `resets` closes:
its programs return to their start, so every clock of every round is reached
with every pending answer. `Tight` matters: after a reset the EAE needs at most
14 clocks to come to rest and the earliest MUY starts it after 16; one
iteration count too many and `EaeFresh` fails. In `eae`, three bits reach every
path of the loops, carry, borrow, quotient overflow and division by zero;
`ZeroBefore` of `MCEae` starts a new job only after results of zero. `instructions` runs
the same machines with 12 bits. Words that are data take the values where
carries, wraps and sign bits show. In `board` the object files hold data before
the program, the last word of memory, a word stored twice, an odd byte at the end,
an auto-index pointer, a subroutine with a loop, and skips over halts; the
testbenches' part of it closes, from power-up to the halt. Five moves let the operator hold
a button while he presses another, let go, reset and turn in every order.
`NearProgram` only keeps the operator's machine near its two words; it cuts
none of the testbenches' behaviours, the only ones `RunsToHalt` is about, and an
operator's press is answered within the clocks it leaves. In `keyboard`
four characters fill and empty the buffer, cross a newline and end the
program.

Not compared in `instructions`, since the designs differ or do not
define them: JMP direct to page zero, BSW, OSR, the exchange, CLA in group 2 with a bit the group 1
pipeline acts on, OR-group skips with a low bit set (the C program then does
not skip), and the link after a quotient of 7777. The operand of group 3 stands in
both words after the instruction. The traces are compared for
opcodes 0 to 5 and groups 1 and 2, but not for a group 2 instruction that tests or
clears and halts: the skip line is written or not as the simulator orders the
branch block and the run latch at the edge of `halt`. Addresses are compared
modulo 4096: after 7777 `simulation_tb` hands `write_branch_trace` `ea + 1` uncut and
prints 10000, where `veloce_top` hands it a word; the `write_branch_trace` of
`CPUTraces` cuts what it is given.

What the deeper properties say. `MemoryTraceAgrees`, `BranchTraceAgrees`,
`OpcodeTraceAgrees`: the testbench's inference from states and wires yields the golden
model's lines, each access once and in order. `LoadedImage`: at the moment the run
switch goes up, memory with its valid flags is what `fill_memory` makes of the
file, after a blind sequence of presses, each of which starts an examine of its own
by turning the switches first. `SameResult` then compares memory and
registers at the end, as the script's `diff` does. `AtMostOnce`: between two moments with all
buttons up at most one operation begins, however long they are held and
whatever the machine is doing; `CalmPressAnswered`: a press on a machine at rest
is not lost. `ReadInOrder`: a program that tests the flag before it reads never gets a
character twice, whichever of the three writers clears the flag. `OrderlyEnd`: when the
process has ended in order the listing is the memory the program left, and all it
printed is out. The debugger's `gets` and the keyboard thread's `fgetc` compete for stdin, and
`FgetcReturns` and `Ends` excuse a process that is debugged; what holds of it is
`OneMoreKey` (after the halt one more key, or the end of input, ends the process) and
`EnterIsTaken` (an Enter typed for the prompt lets the debugger go on, unless the keyboard
thread takes and stores it, which it may: then the user must press Enter again).

Two assumptions on the surroundings. `Steady` in `CPUHistory`: a device holds
its wires from `IOT_1` to the end of the transfer. The controller samples them
in up to three states and ORs the data in twice; without the assumption the
transfer is not that of any one device answer. So no property here speaks of a device
that changes its wires in the middle of a transfer: what `ImplementsPDP8` says of devices
is said of steady ones. The repository has no device, and on the board, where none is
connected, `Steady` is proved (`NoDevice`). In `send_word_to_hdl`: the
arguments of a call that does not write them keep their values; `veloce_top` deposits the last
word a second time from them.

### Fairness

`resets` and `board` assume weak fairness of a clock edge and nothing of the
reset button, in `resets` only that it is eventually let go for good: a free-running clock
is all the design has for a scheduler. In `board` a testbench gets on with its script
(weak fairness of `Follow`); the operator need not do anything. In the C simulator a thread
that can run runs (weak fairness of its moves) and one that keeps asking for the
mutex gets it (strong fairness of taking it: the keyboard thread gives it up and takes
it again all the time, so weak fairness would say nothing). A write to the file that is
not open does crash (weak fairness of `WithoutOpcodeFile`). Nothing is assumed of
`Flush`. Nobody has to type, and input may end.

### Where the code departs from its documents

| Run | What the code does |
|---|---|
| `jmp_zero_page` | JMP direct to page zero jumps to the word last read, the JMP itself |
| `group2_cla` | CLA in group 2 runs the group 1 pipeline with the skip bits: 7640 leaves 7777 |
| `eae_operand` | MUY and DVI take the second word after the instruction |
| `unseen_key` | a character typed together with the one before it is not stored until another is typed |
| `echo` | TSF waits for a flag nothing raises: echo.pal stops after its first key |

Each run has one program that shows it; `PROJECT.json` quotes the line it
contradicts. They also hold the other way round: the passing runs leave out just
these cases. Departures the model has, without a run of their own:

- OSR does nothing (`Controller.sv:366` compares with a value that never occurs),
  and MQA with MQL does not exchange (`:371` compares with an unknown bit).
- The link after DVI is the last bit shifted out, by this division or an earlier
  one (`Divide.sv:42`), no overflow indicator. Of a division that fits it is zero,
  unless the quotient is all ones and nothing was shifted: `DivideLoop` and
  `EaeAnswers` say so, and `Division` and `EaeCorrect` prove it.
- `CPU_Definitions.pkg:216` lets `clearacc` clear AC "if bit 1 of IR set"; `IOT_2`
  (`Controller.sv:339`) does it for every instruction. `PDP8` follows the code.
- Lowering the run switch does not stop the machine (`Front_Panel.sv:54` has its
  rising edge only), raising it during HALT does not start it, and a reset leaves
  `run` as it is.
- `veloce_top.sv:212` clears the skip flag for every instruction with bit 2, "for OSR
  instruction", and so leaves an ISZ of 0004 to 0007 and the like out of the branch trace;
  `CPUTraces` follows `simulation_tb` there, which looks for OSR itself.
- After 7777 the C program prints a PC or CPMA of 10000; `simulation_tb` prints 10000
  for a call to 7777, whose target wraps.
- The generator's makefile gives the flags to the linking step only (line 10), so
  the program it builds writes no test; the run checks the builds it means.
- A program that reads before it has seen the flag, the debugger's `gets`, and a
  character above 127 do what `Simulator` says (`debugger.c:43`, `cpu.c:129`);
  with the debugger the process may wait for one more key at the end, and `Ends` says when
  (`OneMoreKey` that one is enough).
- TLS prints without the `fflush` of TPC (`cpu.c:188`): what it prints may stay in stdio's
  buffer while the program runs, and is lost if the process crashes.

## Proofs

What is assumed: of the processor, that inputs, power-up registers and programs
are of their types (`InputsAssumption`, `PowerUpAssumption`,
`ProgramsAssumption` of `CPU`; nothing bounds their number or memory's contents);
of the EAE, `WidthAssumption` and the four facts `WeightAssumption` states of powers of two; of the
board, `BoardAssumption`, `DividerAssumption` and `ScriptsAssumption`. The last one
says that a testbench's script is made of turns, presses and resets with words and
buttons for values; scripts are folds over the bytes of a file, which the
prover cannot run, so TLC evaluates it for the files of the run. Of
the C simulator, that keys are bytes and addresses words (`KeysAssumption`, `ImagesAssumption`).

The inductive invariants below were first given to TLC, on the run of their component, and
then proved (but `NoDevice`: no run of the board transfers to a device). All theorems are about specifications without fairness, or do not use it.

### Memory and the controller (`CPUProofs`)

- `TypeCorrect`: `Spec => []TypeOK`. Inductive as it stands, once `EaeTypeOK`
  says that an iterating machine has not counted to `W`. What is not
  immediate is arithmetic: the words the decoder and the bit operations build
  (`WordLemmas`), and that an iteration of the multiplier or divider stays
  within 24 bits.
- `HandshakeHolds`: `Spec => []Handshake`. Inductive given the types. The
  argument (`Waits`): a state that waits for memory is left only under
  `mem_finished`, and for a state that does not wait; REG_INIT and CPU_IDLE
  take the clocks memory needs to finish what a reset interrupted.
- `AnswersAreFresh`: `Spec => NoStaleAnswer`, from `Handshake`: the state
  before a wait is none that `Handshake` allows memory to be busy in.
- `ReadsAnswered`, `WritesLand`, `FetchesInOrder`: `ReadAnswers`, `WriteLands` and
  `FetchedInOrder` always hold. `ReadAnswers` is about `read_data`, which is a latch
  behind memory's state, so the inductive invariant (`Answered`) speaks of the latch:
  `Latched` says what it holds while memory is done and one clock later. The
  argument (`Serves`): while a state waits, address and data on the wires do not
  move, and the two states that use an answer late are entered only under it.

### The EAE (`EAEProofs`, `CPUProofs`)

- `ResultsTyped`, `InLockStep`, `Multiplication`, `Division`, `ResultsAnswer`: the EAE
  alone, for every width of the word, operands and use of `start`. The loop
  invariants are inductive with the types, the lock step, and the bound on the
  counters (`Counted`): an iteration adds a bit's weight of the product, or takes the
  divisor at its place off the dividend. The steps are lemmas of arithmetic
  (`ProductSoFar`, `QuotientSoFar`, `DivideUniquely`).
- `EaeRests`: `Spec => EaeFresh`. A race, since no reset stops the EAE. The inductive
  invariant `Race` is that the clocks it still needs (`Remaining`, at most 14) are no more than
  those the controller needs to its next MIC_8 (`ClocksBefore`, counted along the shortest
  path from each state, waits for memory included). From `FETCH_1` to a MUY these are
  just 14; REG_INIT and CPU_IDLE before it are all there is to spare.
- `EaeCorrect`: `Spec => []EaeAnswers`: the results the controller reads in MIC_9 are
  those of its own registers. The processor's EAE is the EAE alone at 12 bits
  (`SameWords`, `SameClock`), and while MIC_8 holds `start` the registers do not
  move (`Computes`).

### The processor implements the programmer's machine (`CPURefinement`)

`ProcessorImplements`: `HSpec /\ []Regular => ImplementsPDP8`. For every program,
every input at every clock and a reset at any of them, the last clock of each
operation makes of the programmer's state what one step of `PDP8` makes of it, and a reset
leaves memory as that step may be left.

The hypothesis is needed: the theorem is false without it, as the violation runs
show. `Regular` names the departures and nothing else: the word decoded is one
of `Alike`; the operand of the EAE stands in both words after the instruction; a
quotient of all ones finds the link clear. It is not a strengthening of convenience: TLC finds
it true in every state of `resets`, `panel`, `instructions` and `board` that
the table counts, so those runs are instances of the theorem. The first two conjuncts
are the three departures with a run (`jmp_zero_page`, `group2_cla`, `eae_operand`) and what
is listed under "Not compared".

The inductive invariant `Doing` has a part for each group of states and says how far the
operation under way has come, from the state it started in (`arch`): in
the fetch nothing is done; while the address is made the pointer may have been stepped
(`Indexed`), and memory may hold the write already though it has not yet answered (`Storing`);
then which operand is in which register. `Resetting` is what makes resets go through:
memory, and what a write still under way will make of it, is one of the memories
a reset may leave (`Leavable`). It rests on all of the above: that answers are those
asked for, that memory is idle when a request begins, that the EAE's results are right.

The other half are lemmas that a case of the golden model's `Execute` means what the
controller does: `Gold...` for the C functions, `Performs...` for a step of `PDP8`.
The hardest are group 1, where a sequence of C statements meets the decoder's
pipeline (rotations by shifts and masks against rotations by wires, `RightWires`
and `LeftWires`), and group 2, whose skips the two take in different forms.

### The traces (`TraceProofs`)

`MemoryTracesAgree`, `BranchTracesAgree`, `OpcodeTracesAgree`: `TraceSpec /\ []Regular
/\ LampLit` implies `MemoryTraceAgrees`, `BranchTraceAgrees` and `OpcodeTraceAgrees`. For
every program, every state an instruction may start in and a reset at any clock, what the
testbench infers from the controller's states, `mem_finished` and the wires is what the golden
model writes.

`Regular` is as above. `LampLit` says that the run lamp is lit while an instruction is under
way, since the testbench writes nothing with the lamp out. It asks nothing of the panel's
operations, nor of HALT's own edge, which puts the lamp out, but does of a skip not yet
reported: `cond_skip_flag` stays when the lamp goes out, and a skip a reset has cut off
would then be reported in the middle of a later instruction. On the board `run` has two
writers, the switch's rising edge and `halt`, and nothing starts the fetching of a program but
`run`; only the single step, which the testbenches do not use, runs an instruction in the dark.

The inductive invariants say for each state of the controller what is already written,
in terms of the state the operation started in: `MemoryTraced` (while memory is
awaited the line appears with the answer, a clock before the controller goes on),
`BranchTraced` (in which states a skip waits to be reported, and the address it is
compared with), `OpcodeTraced` (until when MB and the effective address are those of
`begun`). The registers at the end come from the refinement (`Doing`): the opcode line
needs nothing else. Which instructions are compared is `Comparable`, and follows
"Not compared" above.

### The board (`BoardProofs`)

- `OneOperation`: `BoardSpec => AtMostOnce`, for every program, divider, object
  file and user. Inductive invariant `Released`: once a button has been answered,
  some button is down and the one-shot waits for it, unless a reset holds the
  controller where no button is heard.
- `BoardIsProcessor`: the board's behaviours are behaviours of `CPU`, if that is given
  all inputs the wires can carry (`Inputs = InputWires`). So `ProcessorOnBoard`: all
  of the theorems about `Spec` above hold on the board under every user. The
  run gives `Inputs` one quiet member, which `Board` never takes: it takes the panel's wires.
- `BoardWatched`, `BoardImplements`: the same with the history, `HBoardSpec => HSpec` and so
  `HBoardSpec /\ []Regular => ImplementsPDP8`: what any user does on the board are operations of the
  programmer's machine. `Steady`, the assumption on devices, is proved here: the board
  has none, and no wire of theirs moves (`NoDevice`).

### The C simulator (`SimulatorProofs`)

- `EndsOrderly`: `SimulatorSpec => []OrderlyEnd`. Inductive invariant `Orderly`: which
  threads exist and have ended, and which files are open, by where `main` is. That
  `shown` is what was `printed` needs no more: the last action of `main` writes it out.
- `FgetcGets`: `SimulatorSpec => []FgetcReturns`. Inductive invariant `OneReader`: without
  the debugger, what `select` saw is still in the terminal or in stdio's buffer when
  `fgetc` comes for it, since nobody else reads.

### The generator's vectors (`DecoderProofs`)

`VectorsAreTheDecoders`, `VectorsAreTheSimulators`: `GenSpec => []DecoderAgrees` and
`GenSpec => []SimulatorAgrees`, for every set of flags, the exhaustive tests of every opcode
included, and whatever the structure holds before the first test. What is assumed is
`BuildsAssumption` and `GarbageAssumption`: flags are flags, fields have their C types.

Two arguments. A line is right: an instruction is a set of bits (`HasBits`), and for
group 1 words without the byte swap the decoder's pipeline and the C simulator's sequence of
functions do the same to every AC and link (`Group1Alike`; a word with both rotations is left
alone by the decoder's select and turned right and back by the simulator, `LeftOfRight`);
group 2 words skip alike (`SkipLine`). And a test finds what it needs: most directed tests set only
some fields, so the inductive invariant is that the structure is `Ready` for the test that
runs. That every test leaves it so for the next is `Chained`, a property of a list that
joining two lists keeps (`ChainsJoin`); since the first test of each list needs nothing, leaving
lists out of a build breaks no chain.

### Only model-checked, and why

- `ImplementsPDP8` without `Regular`: not true.
- `LoadedImage`, `SameResult`: both speak of folds and recursive functions over a file or a run; no
  induction theorem can be used by the installed provers.
- `ReadInOrder`: false of a program that reads before it tests the flag; the runs' programs test.
- `ReturnsToIdle`, `RunsToHalt`, `CalmPressAnswered`, `Ends`, `OneMoreKey`, `EnterIsTaken`: liveness under fairness; the
  prover has no ENABLED.

## Not modelled, and the plan

Modelled now: the whole SystemVerilog design, its panel and its two system testbenches, the C
simulator's process, the generator. What is left, in order:

1. `ReadInOrder` of programs that test the flag before they read, as a theorem:
   it needs an invariant that ties the place of the simulator thread to the
   program in memory, so a hypothesis on programs as `Regular` is one.
2. A byte swap property for the decoder's latch.
3. The VHDL design (`State_Machine.vhd`, `CPU.vhd`, `Memory.vhd`) as a second
   implementation of `PDP8`, in a module of its own: its states do not
   correspond to the controller's, its group 3 is the promise `PDP8` states.

Not to be modelled: what is never called (breakpoints, `print_stats` and the
counters only it reads, `MQL` of the generator, `write_valid_memory`); the testbenches that
only drive waveforms to look at; `kb_test.c`, a separate test program; `synth_tb.sv`;
scripts and make files; opening and closing of the emulator's files; the seven-segment decoding
and the lamps that only show.
