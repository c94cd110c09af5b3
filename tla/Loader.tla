------------------------------ MODULE Loader ------------------------------
(***************************************************************************)
(* main of the simulator: the command line, argument by argument, what it  *)
(* loads where, the reset vector, and the loop with the watchpoints of the *)
(* trace.  An instruction is what it stores; Core6502 says which.          *)
(***************************************************************************)
EXTENDS Integers, Sequences, SequencesExt

CONSTANTS
    ByteSize,       \* values of a byte, 256 in the code; memory has its square
    CommandLines,   \* sequences of records: opt, num (a number or size), byte
                    \* (what a file is filled with)
    Stores,         \* what an instruction may store: functions on a few addresses
    MaxInstructions \* bound

ASSUME ByteSizeAssumption == ByteSize \in Nat /\ ByteSize > 3
ASSUME CommandLinesAssumption == CommandLines \subseteq Seq([opt : STRING, num : Int, byte : Int])

VARIABLES
    argv, arg,                      \* the arguments and the next one's index
    phase,                          \* "parse", "run", or why main left by exit (1)
    WholeRam, MachineType, load_addr, exec_addr, trace, watchpoints,
    shown,                          \* the changes on the last line of the trace
    told,                           \* for each watchpoint, its value as the trace has it
    instructions
vars == <<argv, arg, phase, WholeRam, MachineType, load_addr, exec_addr, trace, watchpoints,
          shown, told, instructions>>
memory == <<WholeRam, MachineType, load_addr, exec_addr, trace, watchpoints>>

RAMSIZE == ByteSize * ByteSize
Reset == RAMSIZE - 4                \* $fffc

Sizes == [opt \in {"-wb", "-ww", "-wh", "-wl", "-wd"} |->
             IF opt = "-wb" THEN 1 ELSE IF opt \in {"-ww", "-wh"} THEN 2 ELSE 4]
mem(ram, size, addr) ==
    FoldLeft(LAMBDA value, k : value * ByteSize + ram[addr + size - k], 0, [k \in 1..size |-> k])
getmem(size, addr) == mem(WholeRam, size, addr)

(* A file is loaded into memory and a watchpoint lies in it. *)
ASSUME ArgumentsAssumption ==
    \A line \in CommandLines : \A k \in DOMAIN line :
        LET a == line[k]
        IN  /\ a.opt = "-l" => a.num \in Nat
            /\ a.opt = "file" => a.num \in Nat /\ a.byte \in 0 .. ByteSize - 1
            /\ a.opt \in DOMAIN Sizes => a.num \in 0 .. RAMSIZE - Sizes[a.opt]
ASSUME StoresAssumption ==
    \A store \in Stores : store \in [DOMAIN store -> 0 .. ByteSize - 1]

-----------------------------------------------------------------------------
Init ==
    /\ argv \in CommandLines /\ arg = 1 /\ phase = "parse"
    /\ WholeRam = [a \in 0 .. RAMSIZE - 1 |-> 0] /\ MachineType = 1
    /\ load_addr = 0 /\ exec_addr = -1 /\ trace = FALSE /\ watchpoints = <<>>
    /\ shown = {} /\ told = <<>> /\ instructions = 0

Parsing(opt) == phase = "parse" /\ arg <= Len(argv) /\ argv[arg].opt = opt
Accept == arg' = arg + 1 /\ UNCHANGED <<argv, phase, shown, told, instructions>>
Refuse(why) == phase' = why /\ UNCHANGED <<argv, arg, memory, shown, told, instructions>>

Nmos == {6502, 6512}
Cpu ==
    /\ Parsing("-c")
    /\ IF argv[arg].num \in Nmos
       THEN /\ MachineType' = 1 /\ Accept
            /\ UNCHANGED <<WholeRam, load_addr, exec_addr, trace, watchpoints>>
       ELSE Refuse("Unknown CPU")
CpuCmos ==
    /\ Parsing("-c 65C02") /\ MachineType' = 3 /\ Accept
    /\ UNCHANGED <<WholeRam, load_addr, exec_addr, trace, watchpoints>>

LoadAddr ==
    /\ Parsing("-l") /\ load_addr' = argv[arg].num /\ Accept
    /\ UNCHANGED <<WholeRam, MachineType, exec_addr, trace, watchpoints>>
ExecAddr ==
    /\ Parsing("-e") /\ exec_addr' = argv[arg].num /\ Accept
    /\ UNCHANGED <<WholeRam, MachineType, load_addr, trace, watchpoints>>
(* mapfile is the name behind the last -m. *)
MapArg == Parsing("-m") /\ Accept /\ UNCHANGED memory
Trace ==
    /\ Parsing("-t") /\ trace' = TRUE /\ Accept
    /\ UNCHANGED <<WholeRam, MachineType, load_addr, exec_addr, watchpoints>>

(* A watchpoint reads its memory when it is made, before the files behind  *)
(* it on the command line are loaded.                                      *)
Watch(opt) ==
    /\ Parsing(opt)
    /\ LET size == Sizes[opt]
       IN  watchpoints' = Append(watchpoints, [size |-> size, addr |-> argv[arg].num,
                                               prev |-> getmem(size, argv[arg].num)])
    /\ Accept /\ UNCHANGED <<WholeRam, MachineType, load_addr, exec_addr, trace>>
WatchWhat == Parsing("-w?") /\ Refuse("Watch what?")

Fits(size) == size + load_addr < RAMSIZE
(* Mutant: a file does not replace what another put there. *)
LoadedOver(size, byte) ==
    [a \in DOMAIN WholeRam |-> IF a \in load_addr .. load_addr + size - 1 /\ WholeRam[a] = 0
                               THEN byte ELSE WholeRam[a]]
Loaded(size, byte) ==
    [a \in DOMAIN WholeRam |-> IF a \in load_addr .. load_addr + size - 1
                               THEN byte ELSE WholeRam[a]]
File ==
    /\ Parsing("file")
    /\ IF Fits(argv[arg].num)
       THEN /\ WholeRam' = Loaded(argv[arg].num, argv[arg].byte) /\ Accept
            /\ UNCHANGED <<MachineType, load_addr, exec_addr, trace, watchpoints>>
       ELSE Refuse("Program doesn't fit")
MissingFile == Parsing("missing") /\ Refuse("perror")

Updated(ram) ==
    [k \in DOMAIN watchpoints |->
        [watchpoints[k] EXCEPT !.prev = mem(ram, watchpoints[k].size, watchpoints[k].addr)]]

ResetVector(exec) == <<exec % ByteSize, (exec \div ByteSize) % ByteSize>>
(* Mutant: the watchpoints are not updated before the core starts. *)
UpdatedAtStartNot(ram) == watchpoints
UpdatedAtStart(ram) == Updated(ram)
Start ==
    /\ phase = "parse" /\ arg > Len(argv)
    /\ LET exec == IF exec_addr = -1 THEN load_addr ELSE exec_addr
           ram == [WholeRam EXCEPT ![Reset] = ResetVector(exec)[1],
                                   ![Reset + 1] = ResetVector(exec)[2]]
       IN  /\ exec_addr' = exec /\ WholeRam' = ram /\ watchpoints' = UpdatedAtStart(ram)
           /\ told' = [k \in DOMAIN watchpoints |-> Updated(ram)[k].prev]
    /\ phase' = "run"
    /\ UNCHANGED <<argv, arg, MachineType, load_addr, trace, shown, instructions>>

(* show_diff of each watchpoint in turn, with -t and -w. *)
Changes(now) ==
    {d \in {[watch |-> k, from |-> watchpoints[k].prev, to |-> now[k].prev] :
                k \in DOMAIN watchpoints} : d.from # d.to}
Instruction ==
    /\ phase = "run" /\ instructions < MaxInstructions
    /\ \E store \in Stores :
         LET ram == [a \in DOMAIN WholeRam |-> IF a \in DOMAIN store THEN store[a] ELSE WholeRam[a]]
         IN  /\ WholeRam' = ram
             /\ IF trace
                THEN /\ shown' = Changes(Updated(ram))
                     /\ watchpoints' = Updated(ram)
                     /\ told' = [k \in DOMAIN told |->
                          IF \E d \in shown' : d.watch = k
                          THEN Updated(ram)[k].prev ELSE told[k]]
                ELSE UNCHANGED <<shown, told, watchpoints>>
    /\ instructions' = instructions + 1
    /\ UNCHANGED <<argv, arg, phase, MachineType, load_addr, exec_addr, trace>>

Next ==
    \/ Cpu \/ CpuCmos \/ LoadAddr \/ ExecAddr \/ MapArg \/ Trace
    \/ \E opt \in DOMAIN Sizes : Watch(opt)
    \/ WatchWhat \/ File \/ MissingFile \/ Start \/ Instruction
Spec == Init /\ [][Next]_vars

-----------------------------------------------------------------------------
(* What a command line asks for, from the argument list as a whole.        *)
LastOf(opt, k) ==
    LET at == {n \in 1 .. k - 1 : argv[n].opt = opt}
    IN  IF at = {} THEN 0 ELSE CHOOSE n \in at : \A l \in at : l <= n
LoadedAt(k) == IF LastOf("-l", k) = 0 THEN 0 ELSE argv[LastOf("-l", k)].num
Files == {k \in DOMAIN argv : argv[k].opt = "file"}
Covering(a) == {k \in Files : a \in LoadedAt(k) .. LoadedAt(k) + argv[k].num - 1}
StartAddress == WholeRam[Reset] + ByteSize * WholeRam[Reset + 1]

TypeOK ==
    /\ WholeRam \in [0 .. RAMSIZE - 1 -> 0 .. ByteSize - 1]
    /\ MachineType \in {1, 3} /\ arg \in 1 .. Len(argv) + 1
    /\ trace \in BOOLEAN /\ DOMAIN told \in {{}, DOMAIN watchpoints}

(* When the core starts, an address holds the byte of the last file that   *)
(* covers it, wherever -l stood, and no byte of a file is lost behind the  *)
(* end of memory.  The reset vector holds the last -e, or else the address *)
(* of the last file.  An -l behind that file moves the start in the code   *)
(* but not in its comment: nothing is said of the start then.              *)
MemoryAsAsked ==
    phase = "run" /\ instructions = 0 =>
        /\ \A a \in DOMAIN WholeRam \ {Reset, Reset + 1} :
             WholeRam[a] = IF Covering(a) = {} THEN 0
                           ELSE argv[CHOOSE k \in Covering(a) : \A l \in Covering(a) : l <= k].byte
        /\ LET e == LastOf("-e", arg)
           IN  IF e # 0 /\ argv[e].num # -1
               THEN StartAddress = argv[e].num % RAMSIZE
               ELSE \A f \in Files :
                      (\A k \in f + 1 .. Len(argv) : argv[k].opt \notin {"file", "-l"})
                          => StartAddress = LoadedAt(f) % RAMSIZE
        /\ \A k \in Files : LoadedAt(k) + argv[k].num <= RAMSIZE

(* Every change of watched memory is on the line of the trace for its      *)
(* instruction, once for each watchpoint, with the value that the lines    *)
(* before gave: a reader of the trace always knows the watched memory.     *)
ReaderKnows ==
    phase = "run" /\ trace =>
        \A k \in DOMAIN watchpoints : told[k] = getmem(watchpoints[k].size, watchpoints[k].addr)
TraceTellsChanges ==
    [][/\ ReaderKnows'
       /\ \A d \in shown' : phase = "run" =>
            /\ d.from = getmem(watchpoints[d.watch].size, watchpoints[d.watch].addr)
            /\ d.to # d.from]_vars
=============================================================================
