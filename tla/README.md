# gcc-6502-bits: a TLA+ model of the simulator, its C library and its test tools

The repository holds what surrounds a GCC port to the 6502: a simulator of the
6502 and 65C02 (`semi65x`), a small C library (`libtinyc`), experiments with
software floating point, linker configurations, and scripts and two OCaml programs
(`failproc`, `resultdb`) that build the compiler, run its test suite and collect the
results. The compiler is a submodule, its sources are not here. Everything
that computes is modelled; what only starts other programs is not.

## Inventory

| part | state | operations | what makes it correct |
|---|---|---|---|
| CPU core, `semi65x/6502core.cpp` | `ProgramCounter`, `Accumulator`, `XReg`, `YReg`, `StackReg`, `PSR` | `Init6502core`, `Exec6502Instruction` and its handlers | registers keep their width, flags follow from operands, calls return, memory accesses stay in memory |
| its interrupts, same file | `intStatus`, `NMIStatus`, `OldNMIStatus`, `NMILock`, `CyclesToInt`, `IntDue`, `iFlagJustSet`, `iFlagJustCleared` | `DoIntCheck`, `DoInterrupt`, `DoNMI`, the tests behind each instruction | a handler returns to what it interrupted, masks are respected, requests are served |
| memory and main, `semi65x/semi65x.cpp` | `WholeRam[65536]`, `MachineType`, `load_addr`, `exec_addr`, watchpoints | parse the command line, load files, reset vector, the endless loop, the output port at `$fff0` | memory and start are as the arguments ask, in their order; the trace tells each change once; a program can leave |
| disassembler, `disas.cpp` | none (constant tables) | `disassemble_insn` | agrees with the core on each instruction's length and target |
| map file, `mapfile.cpp` | `exports` | `parse_map`, `find_symbol` | names are those of the exports list; the nearest symbol at or below an address |
| allocator, `libtinyc/alloc.c` | `freelist`, `initialized`, block headers in memory | `malloc`, `calloc`, `realloc`, `free` | blocks are disjoint and stay, client data stays, failure only without a block |
| `memset.S`, `strlen.S` | soft registers `_r0`..`_r5` | called with arguments in them | the C functions' contracts |
| C string functions | none | `memmove`, `memcpy`, `memset`, `memcmp`, `strcpy`, `strncpy`, `strcmp`, `strncmp`, `strchr`, `strrchr`, `strlen` | the C functions' contracts where sizes and chars have the range of their types |
| formatted output, `vfprintf.c`, `sprintf.c` and others | global `__m65x_char_to_file` | `vfprintf`, `fprintf`, `printf`, `sprintf`, `print_float` | characters reach one destination, in order |
| `ftoa.S` | mantissa, exponents, buffer in zero page | `__m65x_ftoa` | the numeral of the value, in the buffer |
| `experimental/fpmath.c` | none | `fp_add`, `fp_sub`, `fp_mul`, `fp_div`, `fp_print` | results within the last place, the scaling loops end |
| `rand.c` | `state` | `srand`, `rand` | never stuck at 0 |
| `failproc` | hash table of listed tests, counters | copy a `.sum` file, change listed failures | only listed lines change, the counts are those of the output |
| `resultdb` | tables of a PostgreSQL database | import a `.sum` file | a row for each name, each run holds its own file, whole when the import is done |
| build scripts, boards, notes, compiler tests | | | not a program to verify |

**How they interact.** `main` loads files into `WholeRam`, points the reset vector to
the execution address, calls `Init6502core` and then `Exec6502Instruction` for ever;
with `-t` it first hands the address of the instruction at `ProgramCounter` to
`disassemble_insn`, which asks `find_symbol` for names, and behind it looks at the
watchpoints. The core reaches memory
through `BeebReadMem` and `BeebWriteMem`, and in places directly. A program in
that memory is code of the compiler, the linker's layout (`ldscripts`) and
`libtinyc`; it prints by storing to `$fff0` and leaves by `JMP 0`. The allocator calls
`memset` and `memcpy`, `vfprintf` calls `__m65x_ftoa`. DejaGnu runs compiled
tests in the simulator and writes `.sum` files; `failproc` rewrites them and
`resultdb` imports them, perhaps several at once.

**What is hard.** In the simulator, what interleaves is a program with the `BRK`
handlers that interrupt it, all through one stack. The core also has the code for IRQs and NMIs between
any two instructions, but nothing in the repository raises one. Nothing masks the program counter
or `(zp),Y`; flags are right for most operands and wrong for few. The library
counts with integers as narrow as its addresses, keeps the heap's list in the memory it hands
out, prints through a global, and does multi-byte arithmetic by hand. The importers share a
database without transactions. `PROJECT.json` lists the hazards at their lines with
the properties that would catch them going wrong.

## Modules

| module | models | builds on |
|---|---|---|
| `Bytes6502` | 8 and 16 bit operations, the flags and the status register as a byte | |
| `Alu6502` | the arithmetic and logic handlers as functions of flags, register, operand | `Bytes6502` |
| `Decode6502` | the three opcode switches of `Exec6502Instruction`: handler and addressing mode of each opcode | |
| `Core6502` | the core, memory, I/O port and main loop, one step an instruction | `Alu6502`, `Decode6502` |
| `CallNesting` | the core with a history of what each pending call must get back | `Core6502` |
| `Interrupts` | the countdown, IRQ and NMI around an instruction, with devices | `CallNesting` |
| `Disas65x`, `Trace65x` | the disassembler's classification; its agreement with the core | `Core6502` |
| `AsmRoutines`, `Routines` | `memset.S`, `strlen.S` and `test.s` as bytes; the programs calling them, executed | `Core6502` |
| `MultiByte` | chains of `ADC` or `SBC` on long numbers, as compiled code has them | `Alu6502` |
| `Loader` | `main`: arguments, files, reset vector, loop, watchpoints | |
| `MapFile` | `mapfile.cpp`, line by line | |
| `Semi65x` | `main` with the map file that its command line may name | `Loader`, `MapFile` |
| `Heap` | the abstract allocator: a heap cut into free and handed-out blocks | |
| `Alloc` | `alloc.c` on bytes of memory, with a client; implements `Heap` | `Heap` |
| `AllocRequests` | the heaps and request sizes for which `alloc.c` keeps its promises | `Alloc` |
| `Strings` | the string and memory functions in C, turn by turn of their loops | |
| `Printf` | `vfprintf` and its callers, with the destination and the nested call | |
| `Libtinyc` | a program that uses libtinyc: a string function, or formatted output call after call | `Strings`, `Printf` |
| `Ftoa` | `ftoa.S` and `fp_print`, turn by turn | |
| `FpMath` | `fp_add`, `fp_sub`, `fp_mul`, `fp_div` | |
| `Rand` | `rand.c` on 32 bits | |
| `LogLines` | a line of a `.sum` file and its class, as both OCaml programs read it | |
| `FailProc` | `failproc`, line by line, run once and again on its own output | `LogLines` |
| `ResultDb` | importers on one database, query by query, killed and run again | `LogLines` |
| `TestLogs` | the test tools, `resultdb` or `failproc` | `ResultDb`, `FailProc` |
| `Arithmetic` | the five arithmetic programs, one at a time | `MultiByte`, `Ftoa`, `FpMath`, `Rand` |
| `Processor_proofs`, `Semi65x_proofs`, `Heap_proofs`, `Alloc_proofs`, `TestLogs_proofs`, `Arithmetic_proofs`, `Libtinyc_proofs` | the theorems | |
| `Induction` | induction over the naturals as a lemma about sets, for the proofs | |
| `MC*` | values of the constants for TLC | |

Four modules put several components in one run, one program of the
repository at a time: `Semi65x` (`main`, and `parse_map` where the command line asks for a map
file), `TestLogs` (`resultdb` or `failproc`), `Libtinyc` (a string function or
a sequence of printing calls), `Arithmetic` (five). They extend one component, take the
others by `INSTANCE`, and hold the components that do not run at rest, so that the state
space is the sum of the components' and not their product. The assumptions of an
instanced module are stated again there as `ASSUME`s, so that TLC evaluates them.

### The core

`Core6502`'s variables have the names of the source or their lower-case initial
(`pc` is `ProgramCounter`, `s` is `StackReg`). `ram` is the function of
the cells written so far; `Rd` reads the rest of `WholeRam` as 0, as a static
array is. `Decode` is a table with a row for each opcode, one table for
each machine type and `OpCodes` level; the guard of an action is a set of
handlers (`Executes`), its operand comes from `EffectiveAddress` by the row's
mode. An action is a handler or a family of handlers that differ in one operator. What
`BadInstrHandler` and the 65C02's opcodes on a 6502 do, stepping over some
bytes, is the handler `SKIP`.

Reading or writing outside `WholeRam` is undefined behaviour in C. The model
follows the program to the instruction that does it and stops with status
`"wild"` (`LeaveMemory`): nothing is said of what follows. `exit (Accumulator)`
is status `"exit"`. Both end the program, so the runs of programs do not check
for deadlock (`CHECK_DEADLOCK FALSE`).

### Interrupts

An instruction is up to six steps, one for each point where the code polls devices or
tests for a request: `Fetch`, `Execute`, `TakeIrq` or `PassIrq`, `TakeNmi`, `EndInstruction`.
The `SEMI65X` build compiles these tests but has none of the devices
(`PollVIAs`, `PollHardware`, the VIAs are those of the emulator the core was taken
from): nothing in the repository ever sets `intStatus` or `NMIStatus`, so the simulator as
it is built takes no interrupt. The module models the core's code for them, and
its properties are about that code with devices assumed as the environment, not about a
program in the simulator; no hazard of the list rests on them. Devices are external here: `RaiseIrq` and `RaiseNmi` may raise a request at every poll,
a device with a timer together with a countdown. The cycles between two
polls are members of `CyclesPerPoll`; the cycle counts of the single opcodes only space
interrupts and are left out. `DoInterrupt` and `DoNMI` enter through the
vectors with `frames` recording what was interrupted. `OldNMIStatus` is a static
that `Init6502core` does not reset, which matters only if it is called twice, and `main` calls it
once.

### The main program

A step of `Loader` is one argument, then the reset vector, then an instruction, which is what it
stores; `Core6502` says what instructions do. Memory is scaled to the square of
`ByteSize`. `shown` is the set of the changes on the trace's last line, and `told` a history of
what the trace has last said of each watchpoint. A file's content is a size and a byte. In `MapFile` a line is its kind and the entries
the regular expressions find in it.

### The allocator

`Alloc` keeps the headers as bytes in `mem`, the memory the client writes to as
well. A call begins (`Malloc`, `Calloc`, `Realloc`: `init_heap` and the
first look at the list), walks the list one block a step (`Skip`), takes a block
(`Split`, `ExactFit`) or fails (`Exhausted`), and returns, with what `calloc` and
`realloc` do to the block. `free` is one step. The client is external: it
holds each pointer at most once, frees what it holds, and may fill a
block with its own byte (`Use`). After a `realloc` a block counts as filled only
if it was and did not grow, because the rest of a grown block is whatever
followed the old one. `AllocRequests` says which heaps and requests the
promises are for, and `alloc` runs with its assumption; `alloc_remainder` runs on `Alloc` alone. Memory outside the heap is the one cell
`NULL`: whether it was written is recorded, what is written there is not.

`RamSizeWord` is the 16 bit word in memory at the address `__RAM_SIZE__`. The
source declares that linker symbol as a variable, so its value in
`init_heap` is what lies there, not the symbol's value. The runs give the
word the value that makes a heap of 20 bytes.

### The library

`Strings` has one action for each loop's turn; the address space is as large as the range of an
unsigned int, as on the 6502 (`N` is 2^16 there), so a counter can pass through all of it.
`CharSigned` says how the compiler takes a plain `char`. In `Printf` a format is a sequence of
pieces: a character, or a conversion with its argument. What a piece must print is
said apart from the routines that print it: `PiecesAssumption` asks of its text that it be the
argument's numeral (digits without a leading 0 that have the value, `IsNumeral`), or the characters as
they are. A step is a turn of `vfprintf`'s loop, and `frames` is the stack of its calls:
`print_float` pushes one for the exponent. A conversion that the format does not finish is its last
piece: behind it, `vfprintf` reads what lies in memory, and the model stops (`RunPast`). `Ftoa`
is one module for `ftoa.S` and the C routine it was written from: `Routine`
selects the differences (bytes for exponents, the division by ten, the stripping of
zeros). A mantissa is a pair of numbers below 2^31 for TLC's sake, at full width.
`FpMath` scales the widths: fraction, exponent and `uint32_t` are `F`, `ExpBits` and `W` bits, 23, 8 and 32
in the code and constants of `Arithmetic`. As in the code, `W` exceeds the fraction by more than the two bits a
sum needs, and exponents differ by more than `W`, so that the shift at `fpmath.c:184` can be by a word's width or
more (`Aligned`); what such a shift gives is taken as a machine does that counts modulo the width.

### The test tools

In `ResultDb` each query is a transaction, because `resultdb.ml` begins none: a
get-or-create is a select and, in another step, an insert. OCaml evaluates the arguments of the
calls from the right, which is the order of `Setup`. `Kill` stops an importer anywhere
and loses its local state; its rows stay; `Rerun` starts it again. A serial id is
the position of the row. `FailProc` reads the output of its first run in a second one.
`String.sub`'s exception is taken as the source matches it; newer OCaml versions name it otherwise.

## Runs

| run | question | states | time |
|---|---|---|---|
| `core_ops` | does any opcode break a register's width, leave memory unannounced, or execute other than the trace says? | 250 390 | 165 s |
| `calls` | do calls and breaks return wherever the stack wraps; do `memset.S`, `strlen.S`, `test.s` do what they are for; do programs end? | 69 002 | 146 s |
| `interrupts` | do handlers return to what they interrupted, under the mask, and is each request served? | 230 513 | 170 s |
| `alloc` | does `alloc.c` implement the heap and keep the client's data? | 61 433 | 22 s |
| `heap` | is the abstract heap what a client needs? | 1 006 | 1 s |
| `semi65x` | do memory, start and trace follow the command line, symbols the map file? | 943 993 | 68 s |
| `test_logs` | are runs their files, whatever is killed or runs at once; are failproc's counts those of its output? | 632 322 | 136 s |
| `libtinyc` | do the string functions and formatted output keep their contracts and return? | 72 867 | 110 s |
| `arithmetic` | are chains of `ADC`/`SBC`, float results and numerals exact, random numbers never stuck? | 1 141 707 | 150 s |

Times are with two workers and coverage. A composite property is a conjunction of parts
that have names and comments of their own in the component's module:
`RoutinesCompute`, `SymbolsFollowMap`, `RunsAreTheirFiles`, `ReportFollowsLogs`, `StringsCompute`,
`TextIsWritten`, `ChainsExact`, `ConversionsExact`, `ResultsNear`.

Bounds and why they are enough:

* `core_ops`: all 256 opcodes, inline and at `$ffff`, where operands are behind
  the end; four settings of the registers that make indexing wrap in the zero
  page, in the stack page and at the end of memory; four pairs of machine
  type and level, so that every switch is active in one of them and not in another; a
  branch below address 0; branches taken and not taken, forwards and backwards.
* `calls`: 32 stack pointers around 0, so that each push and each pull
  wraps in one of them, with sixteen combinations of pushes and pulls
  in routine and handler, one of which changes the flags; the lengths 0, 1, 2 and the
  neighbours of one and two pages, pointers at the
  start, inside and at the end of a page, both machine types.
* `interrupts`: three programs that open a window of one instruction in a loop, each by another
  instruction (`PLP`, `RTI`, `CLI`), and a handler that opens one itself.
  Before the loop is a stretch with I set that is longer than the countdown to the
  sentinel, which is -20 instead of -1000000: a countdown passes it or stops on it. An NMI of
  either device at any poll, any number of IRQs of both.
* `alloc`: with a heap of 20 bytes, sizes 4 and 8 and two pointers, the heap
  fills, fragments, fits exactly and splits, and the list gets three
  blocks long. All sizes are multiples of the header's size here: `alloc_remainder`
  shows that the allocator does not do what it promises for others.
* `heap`: every request size on a heap of five headers.
* `semi65x`: a memory of 16 bytes of four values; every command line of up to three arguments out
  of 22, and those of four that matter (two files at two addresses, two watchpoints with a
  file between them and `-t`); files that end below, at and behind the end; map files of up
  to six lines, with headers in and out of order, two names for an address and an address beyond the last.
* `test_logs`: two importers, files that share an expect file and a test in different order,
  an empty database and one as `db.sql` leaves it, one rerun. More importers meet in
  no new way at a get-or-create, and `SomeoneImports` is proved for any number.
  For `failproc` all bodies of up to three lines of nine kinds behind two headers, with all lists of up
  to two: a duplicate, a conflict and a summary in each position.
* `libtinyc`: eight addresses and byte values; every move between areas that do not wrap,
  strings of up to two characters over four values, 0 and both signs among them, lengths around
  the strings' own. Two pieces from every conversion in each format, `%lf`, which the code
  skips, among them, an int of 8 and a long of 12
  bits with the values at their ends, to a stream and to a string, call after call.
* `arithmetic`: all pairs of bytes, both operations, decimal mode on and off:
  every input the handlers can get with the first carry; the other carry
  comes from the second byte of words of boundary bytes. Seeds at the ends, thirty draws. Floats
  of 15 exponents from 0 to 255 with the extreme mantissas, and 37 integers with up to three binary places,
  whose numeral is known exactly. All pairs of floats of three bits of fraction and
  eight of the sixteen exponents of 4 bits, with words of 6 bits: every alignment, carry, cancellation and
  wrap of the exponent occurs, and exponents that differ by less than the word's width, by the width and by more.

**Fairness.** `main` calls `Exec6502Instruction` in an endless loop, which is weak
fairness of the whole next-state relation of a program (`CallsSpec`); with devices, of the
processor's steps alone (`FairIntSpec`), because no device has to raise anything. In
`Alloc`, `Printf` and the arithmetic a call that has begun runs on, while the
client need not call anything. Each importer that runs goes on with its queries (`WF` of
`Query(i)`), and nobody has to kill or rerun it. `RequestsAreServed` needs no more than this in the
three programs; a loop whose period is an exact multiple of the sentinel's cycles could, in principle,
always be found on the sentinel.

`CHECK_DEADLOCK FALSE` is in the runs where a program, a call or an import comes to
its end. `interrupts`, `alloc` and `heap` check for deadlock.

Runs that are expected to find a violation show where the code is not what
the repository says of it:

| run | what is said | what the code does |
|---|---|---|
| `decimal_zero` | `6502core.cpp:400`: Z comes from the binary result | Z is overwritten from the decimal one (line 421): `1 + $99` sets it |
| `alloc_remainder` | `alloc.c:33`: a block's size includes its header | a rest of 1 to 3 bytes becomes a block (line 106), its header over the next one |
| `ftoa_ten` | `ftoa.S:221`: divide until the value is below 10 | the last sum of `div10` loses a carry into the fourth byte (line 214): 100.0 is written `000` |

### Observations without a run

Met while modelling. The modules keep the behaviour; where a property meets it, the property says what the code
does, or its precondition leaves the case open.

* `disas.cpp:403`: an unknown opcode is one byte long for the disassembler, whatever the core steps over;
  line 101 says it returns the number of bytes consumed. `TraceFollowsExecution` is therefore about the 65C02.
* `disas.cpp:315`: the `c_str()` of `find_symbol`'s temporary is used after it is destroyed.
* `6502core.cpp:1128`: `DoNMI` sets `NMILock` and nothing tests it, so an NMI interrupts another's handler,
  which the comment at line 94 means to stop.
* `6502core.cpp:2340`: a request that the poll behind an NMI's entry raises counts as old and gives no NMI.
* `6502core.cpp:624`, `:2231`, `:2223`: read-modify-write instructions store twice, so they print twice at
  the port; `SAX` does not print at all; `ANC` never clears the carry. A pointer at `$ff` takes
  its high byte from `$100`; a `JMP` to 0 leaves the simulator only in absolute mode.
* `semi65x.cpp:242`: a file that would end with the last byte of memory is refused as not fitting.
* `semi65x.cpp:273`: without `-e`, execution starts at the last `-l`, also where it stands behind the file; line 270 says at the
  beginning of the loaded executable. The run has such command lines; `MemoryAsAsked` says nothing of their start.
* `alloc.c:100`: `size + 4` wraps for the four largest sizes; line 94 promises a block big enough.
* `alloc.c:156`: after a `malloc` that fails, `calloc` clears memory at `NULL` and `realloc` copies to it; `realloc` has
  freed the old block by then. `alloc.c:164`: `realloc` copies the new size, so that a block that grows is read beyond its end.
* `memmove.c:17`: the counter is an int, so that for `n` above 32768 nothing is moved.
* `vfprintf.c:121`: a `%` as the last character of a format lets the scan run past the NUL.
* `alloc.c:52`: the heap's size comes from a word of memory at the address `__RAM_SIZE__`, not from the symbol
  that `ldscripts/semi65x.cfg:3` defines.
* `vfprintf.c:106`: to a string, the call for the exponent writes a NUL of its own, at a place where
  the outer call writes on; line 219 zero-terminates once, at the end.
* `ftoa.S:434`: the exponent form is chosen for decimal exponents below -4 and from 8 on; line 430 says below -3 or above 8.
  The properties leave the form open.
* `ftoa.S:568`: signed exponents are compared as unsigned bytes, so that nothing is stripped from numbers below 1
  (`0.50000000`), where line 557 says to strip zeros, nor would be from powers of ten from 100 on, which the carry
  of `ftoa_ten` spoils first. `WritesNumeral` is about numbers from 1 on.
* `fpmath.c:194`: `fp_sub (x, x)` does not return; `ArithEnds` excludes numbers that cancel.
* `fpmath.c:184`: the mantissa is shifted by the difference of the exponents, which may be the word's width or more and is
  then undefined. On a machine that counts modulo the width, `fp_add` of 1 and -2^40 subtracts a number that
  should vanish, and equal mantissas 32 apart cancel, so that the call does not return. The run has such pairs; the
  model takes either outcome, and `SumNear` and `ArithEnds` exclude them (`ShiftsTooFar`).
* `resultdb.ml:176`: `test_collate` counts every line behind the header, so that it starts at 1 or later where the
  first result is not the first line; `db.sql:33` expects it to start from zero. `RunsAreTheirFiles` asks that
  it order a run's rows as the file does, and not where it starts.

## Proofs

The proofs hold for every value of the constants that meets the modules' assumptions; TLC
evaluates these in the runs. They are laid out alike: an invariant that holds at first, a
lemma that each step keeps it with a step for each action, and the theorem from both.

`Processor_proofs`, for every set of loaded programs and every choice of machine type and level:

* `RegistersKeepTheirWidth`: `Spec => []TypeOK`. The program counter is the
  interesting conjunct. It is never masked, and 65790 is what the largest address
  gives after a branch; that no step leaves the range rests on the guard:
  an instruction executes only when its bytes are in memory, so the counter
  starts each step below 65536. The handlers' results are bounded by lemmas
  about the byte operators and `Adc`, `Sbc`, `Modify` and so on. Nothing is used
  of the decoder: this theorem holds whatever opcode means what.
* `OnlyIndirectionLeaves`: `Spec => []OnlyIndirectionLeavesMemory`. It follows
  from `TypeOK` in each state, mode by mode. A zero page or absolute address,
  indexed or not, is in `Addr`; the others are the exceptions the property names.
* `CallThenReturn`: `Spec => EntryCanBeUndone`, for every stack pointer, by the fact
  that the two or three cells of a return address in the stack page are different.
* `TraceFollows`: `Spec => TraceFollowsExecution`. The documented rows of the decoder are compared with the
  columns and exceptions of `disassemble_insn`, group by group (`Quarter00Agrees` and three more): the
  modes agree, but for `JMP ($xxxx)`, where the lengths do. `DocumentedAgrees` carries this to the
  tables the core executes from, whatever rows the level of opcodes adds; that it adds none for a documented
  opcode is the assumption `RowsAreUnambiguous`, which has no parameter, so that TLC's evaluation
  settles it. `GoesOn` says of all handlers where the program counter goes.

The same module, about `Interrupts`, for every program, any devices and any cycles between polls:

* `IrqsSeeTheOldMask`: `IntSpec => IrqSeesOldMask`. The invariant `MaskInv` says what the test for
  IRQ knows of the instruction before it; it is kept because only `CLI`, `PLP` and `RTI` clear I
  (`WhoClearsI`, over all handlers) and the first two note it.
* `InterruptsKeepTypes`: `IntSpec => []IntTypeOK`, from the core's lemmas and an entry's
  three pushes, wherever in its page the stack is.
* `HandlersTellBreaks`: `IntSpec => BreakToldFromIrq`: what a `BRK` pushes has B set and what an IRQ pushes has it
  clear, though a `BRK` leaves it set in the live flags; an NMI, which has a vector of its own, pushes the live B. The byte on the
  stack decodes to the flags that were pushed.
* `IrqsDoNotNest`: `IntSpec /\ HandlersReturn /\ HandlersKeepMask => []IrqHandlersDoNotNest`. It depends on the
  program, which can clear I in a handler or leave it by a jump, so the theorem has two hypotheses on
  it: `HandlersReturn`, which the run checks of its programs, and `HandlersKeepMask`, that while an IRQ is served
  no instruction but `RTI` leaves I clear. `RTI` can: that the flags it restores have I set as long
  as an IRQ is below it is the invariant `ServedMasked`, which says of every frame above an IRQ's that it
  holds I. An instruction that sets I leaves a window of one instruction in which an IRQ is still taken; that no
  window is open while one is served is its part about `iFlagJustSet`.

`Semi65x_proofs`, for every command line, size of memory and map file:

* `MemoryIsAsAsked`: `MainSpec => []MemoryAsAsked`. The property speaks of the state in which the core starts and looks
  back at the whole command line. The invariant (`Parsed`) says the same of the arguments before the next one, so
  that an address holds the byte of the last of these files that covers it, `load_addr` is the last `-l` and `exec_addr` the
  last `-e` so far; a step moves it one argument on (`LastOfNext`, `CoverNext`). The start is the last `-e`; without one it is where the
  last file lies, as long as no `-l` stands behind that file, because then the last `-l` is the one the file was loaded at. The reset
  vector's two bytes give the start address by `TwoBytes`, also for a negative one.
* `TraceIsComplete`: `MainSpec => TraceTellsChanges`. While the trace is on, what the watchpoints remember is what
  the trace has told of them (`Runs`); it holds at the first instruction because `main` updates the
  watchpoints behind the reset vector, whatever they read when they were made.
* `NamesAreTheMaps`: `MainSpec => []SymbolsFollowMap`. `HeadersRead` ties the part that `parse_map` is in to where the first
  headers in their order are in the file so far (`After`), `NamesOf` has each address named by its last
  label in the list so far. A line behind the list, a header or a line that does not match adds no place to it (`PlacesAfter`).
* `MainKeepsTypes`: `MainSpec => []MainTypeOK`.

  `ArgumentsAssumption` leaves out what uses memory outside `WholeRam`: a negative `-l` and a watchpoint
  over the end. `StoresAssumption` has the instructions store bytes; `LinesAssumption` says what the regular expressions
  accept.

`Heap_proofs`, for every heap and header size:

* `HeapIsTiled`: `Spec => []HeapInv`, which is `TypeOK /\ Disjoint /\ Tiled`. The conjunction is
  inductive, no conjunct is alone: that cutting a block loses no byte needs the
  block to be inside the heap, and that the two halves meet no other block
  needs the blocks to be disjoint before.

`Alloc_proofs`, for every heap and all requests that `RequestsAssumption` allows, any number of
pointers and any order of calls:

* `ListIsHeap`: `Spec => ImplementsHeap`; `BlocksTileHeap`: `Spec => [](Abstract!HeapInv)`, which is
  `HeapIsTiled` carried down the refinement: the blocks that the bytes of the headers describe cover the heap
  and no two overlap.
* `DataIntact`: `Spec => []ClientDataIntact`. `FailsWhenFull`: `Spec => FailsOnlyWhenFull`. `AllocTypes`:
  `Spec => []TypeOK`.

  All five come from one invariant, `IInv` (`ListAndHolders`), which TLC checks as well. None of them is
  inductive: a write to memory keeps a list only if it does not reach a header, and whether it does depends on where all
  blocks are. `ListInMemory` gives the list as a sequence `L` of addresses, each read from the bytes of the one
  before, without repetition, with blocks that tile the heap together with the handed-out ones (`Listed`), and says where in it
  a walk has come and that no block before would do. `HoldersApart` says that
  each holder's data lies inside a block of its own, `CallInProgress` what a call owns between
  two steps, `ClientDataIntact` what is in the blocks. The proof goes up from bytes (what `PutBytes` leaves alone) to headers, to
  lists (a block taken out, cut, put in front) and then to the actions. `Induction` gives that the list read by `ListFrom` is `L`.

  `RequestsAssumption` is what the code needs: the heap and the sizes are multiples of the header's size, because a
  remainder of 1 to 3 bytes becomes a block that is shorter than its header (`alloc_remainder` shows
  it); no size is so large that adding the header wraps; a request ends below the heap, because a failed `calloc`
  or `realloc` writes that many bytes at address 0; and the heap ends below the last byte of memory. The
  abstract `Heap` needs none of this.

`TestLogs_proofs`, for any number of importers, any files and any tables:

* `SomeoneAlwaysImports`: `Spec => []SomeoneImports`. That someone has not failed is not inductive: the
  last one could fail next. The invariant (`Survival`) names a survivor: one that is not between a
  select and its insert with the row already there. Whoever inserts last is one, because
  its row is its own.
* `RunsStayApart`: `Spec => []RunsAreTheirFiles`. The property compares sets of names, the steps move ids. The
  invariant `RInv` says of the rows of a run that they are the results of the lines before some line, one for each and in the lines'
  order (`RunsHold`; `HeldIsRecorded` finds the row of a line by its `test_collate`), and
  of an importer that its run holds the lines up to where it stands, and that its ids are those of
  the rows of the exp file and test it is at (`Importing`). It survives the steps of others because rows are only
  appended, and a row that refers to another refers to one that exists (`RowsRefer`). `TablesAssumption` says
  that the database's columns have the types of `db.sql`.
* `LogsKeepTypes`: `LogSpec => []LogTypeOK`. That no table gets a key twice is the unique index of `db.sql`, which an
  insert obeys or fails; that an importer's ids are those of rows that are there (`Known`) needs that
  the select finds at most one.

The same module, for logs of any length and lists of any number of tests:

* `ReportsFollowLogs`: `LogSpec => []ReportFollowsLogs`. The invariant `FailInv` has a part for each phase of `failproc`:
  the table holds the tests of the lines of the list read so far, the output is the input with just the
  failures of listed tests changed, and each counter is the number of such lines in the output (`TallyGrows`).
  `SecondRun` says what the output of a first run is, as the input of the next: it has the same header and
  body (`HeadStays`), nothing left to change, and its summary's numbers are counted again.

`Arithmetic_proofs`, for all seeds and any number of calls, on all 32 bits:

* `RandKeepsTypes`: `Spec => []TypeOK`.
* `RandNeverSticks`: `Spec => []NeverSticks`. Each of the three shifts of a word can be undone by
  applying it again often enough (`XorshiftUndone`, bit by bit), and zero comes only from zero. That no seed
  gives zero rests on `HasBit`: a number from 1 to `2^17 - 1` has one of its first 17 bits set.
* `RandReversible`: `Spec => Reversible`.

The same module, for numbers of any length, in binary or decimal:

* `ChainsCompute`: `ArithSpec => []ChainsExact`. The invariant (`ChainInv`) says of the bytes done so far that the
  result and the carry, with the weight of the next byte, are the sum of the operands so far
  (`Linked`; of a difference, the borrow is what the carry lacks), and that N and V give the sign of the
  exact sum of the bytes as signed numbers (`Signs`). One byte is done by four lemmas on the handlers, binary and decimal,
  nibble by nibble (`AdcBinaryIs` to `SbcDecimalIs`); the weights and the values of prefixes are recursive
  functions, whose equations come from `Induction`. In decimal mode the operands are decimal digits
  (`AllDecimal`), and nothing is said of N and V, as in the property.

`Libtinyc_proofs`, for memories, areas and strings of any size, signed and unsigned chars and
every overlap, and for formats of any pieces and any widths of int and long:

* `StringsAlwaysCompute`: `Spec => []StringsCompute`. Each of the eleven functions returns what the
  C library says and leaves memory as it says. The invariant `Inv` tells how far a call has come,
  with one part for each kind of loop. `FillInv`, for the functions that write upwards: the first
  `i` places of the destination hold the text and the rest of memory is as it was (`strncpy` may
  have one place more when its padding begins). `DownInv`, for `memmove` on its way down: the places
  from `i + 1` on hold the text, and a counter that starts at half its range or above ends the loop
  before its first turn. `CompareInv`: the first `i` characters agree and none is a NUL.
  `SearchInv`: no NUL, and no match (or the last one, for `strrchr`) among the first `i`. The lemmas
  say how a memory with part of the text in it (`Put`) grows by one place at either end, and what
  `LengthIn`, `Min` and `Max` return. What the theorem rests on is
  `CallsAssumption`, the C library's own terms: areas lie in memory, strings end in it, and areas
  are apart where the standard asks for it.
* `LibraryTyped`: `LibSpec => []LibTypeOK`, of everything above and of the frames: positions lie in
  their format or on its NUL, and there are never more than two calls of `vfprintf`. It needs
  a byte to be an address (`Bytes <= N` in `SizesAssumption`), since `strlen` and `strchr` return either.
* `TextsAreWritten`: `LibSpec => []TextIsWritten`. The numerals first: the quotients that are left when
  digits are divided off (`Rests`) are the values of the numeral's beginnings, counted from the end
  (`BeginningsAreRests`), so that `print_udec`, `print_hex` and `print_sdec` print the one numeral
  that has the value (`UdecPrints`, `HexPrints`, `SdecPrints`). Then the loop: a format is its
  pieces joined (`FlattenIsJoined`), and the scan, when it stands in front of a piece, finds that piece's
  code and argument and no other (`NextPiece`, `PieceTurn`). The invariant `PrintInv` says behind
  how many pieces `vfprintf` stands, that the texts of just those are written, and where they
  went. `Outer` is this for the caller's format; `Nested`, while the inner call prints an exponent,
  also that the outer frame has passed its `%f` and has written all but the exponent.
  In `sprintf` the inner call ends the string with a NUL in the middle, so that nothing is
  claimed there behind an exponent, as in the property. The assumptions are `WidthsAssumption`
  and `PiecesAssumption`; an int argument lies in the range of an int.

`Induction` proves, from the fact that a non-empty set of naturals has a least element, induction over a set
of naturals and the definition of functions step by step. The library's induction theorems take an
operator as a parameter, which the provers cannot instantiate; a set they can.

Only model-checked: everything under fairness (`ProgramExits`, `CallsReturn`,
`RequestsAreServed`, `ImportsEnd`, `LibReturns`, `ArithEnds`), because liveness and `ENABLED` are beyond
the prover; whole executions (`RoutinesCompute`, `CallsReturn` of `CallNesting`, `HandlersReturn`), which need the
programs' own text; and numerals and results of floats (`ConversionsExact`, `ResultsNear`). The numerals are exact for
the inputs of the runs and not for all. The results of `fp_add` and `fp_sub` are near where no shift is by a word's
width or more (`ShiftsTooFar`) The type invariant of the run `arithmetic`, which is that of five
programs at once, is checked only; `Rand` has a theorem for its own. There is no `RECURSIVE` operator
in the project.

## Not modelled

* In modelled parts: the cycle counts of the single opcodes, which only space interrupts; saving and
  loading the core's state in UEF files, which the `SEMI65X` build leaves out; the text that the
  disassembler and `-v` print; a watchpoint of a word at the last address and a negative `-l`, which use memory
  outside `WholeRam`; what follows `parse_map` on a command line with `-m` (it is the same as without);
  addresses in map files that do not fit an int; functions under `DEBUG` in `alloc.c`; what a scan past the
  end of a format finds; areas that wrap around the address space and strings without an end;
  the numerals of floats with more than seven digits, which the format does not hold exactly; bundles and the
  tables `resultdb` never reads, and `expfile_strip`, which shortens paths.
* `libtinyc`'s platform stubs: wrappers of one line around the output character and `JMP 0`, which
  `Core6502` models. The linker configurations other than `semi65x.cfg` differ in addresses only.
* Build and check scripts, DejaGnu boards, notes, the compiler's tests: they start other programs or are their input.
