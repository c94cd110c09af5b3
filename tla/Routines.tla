------------------------------ MODULE Routines ------------------------------
(***************************************************************************)
(* The machine code of AsmRoutines executed by the core, each from a       *)
(* program that calls it and leaves through JMP 0, with what its C         *)
(* prototype or its source promises of the result.                         *)
(***************************************************************************)
EXTENDS Core6502, AsmRoutines, TLC

CONSTANT Jobs           \* the calls: what to run, on which arguments

VARIABLE job            \* the call this run makes; never changes
jobVars == <<vars, job>>

CallAt == \h0400                        \* where the routines are placed
Caller == <<\h20, \h00, \h04, \h4c, 0, 0>>        \* JSR CallAt, JMP 0
Argument(lo, hi, byte, n) ==
    Loaded(R0, <<lo, hi, byte, \h55, Lo(n), Hi(n)>>)
StringBytes(n) == [i \in 1..n + 1 |-> IF i <= n THEN 1 + (i % 255) ELSE 0]

BootOf(j, cmos) ==
    CASE j.call = "memset" ->
           [cells |-> Loaded(\h0300, Caller) @@ Loaded(CallAt, MemsetCode)
                        @@ Argument(Lo(j.ptr), Hi(j.ptr), j.byte, j.n),
            exec |-> \h0300]
      [] j.call = "strlen" ->
           [cells |-> Loaded(\h0300, Caller) @@ Loaded(CallAt, StrlenCode(CallAt, cmos))
                        @@ Argument(Lo(j.ptr), Hi(j.ptr), \h77, \h3333)
                        @@ Loaded(j.ptr, StringBytes(j.n)),
            exec |-> \h0300]
      [] j.call = "test" ->
           [cells |-> Loaded(\h0e00, TestCode(j.message)), exec |-> \h0e00]

JobInit == \E m \in Models, j \in Jobs :
    /\ job = j
    /\ InitFrom(BootOf(j, m[1] = 3))
    /\ MachineType = m[1] /\ OpCodes = m[2]
JobNext == Next /\ UNCHANGED job
JobSpec == JobInit /\ [][JobNext]_jobVars /\ WF_jobVars(JobNext)

-----------------------------------------------------------------------------
Finished(call) == status = "exit" /\ job.call = call
ReturnedWord == Pointer(R0)

(* memset fills exactly n bytes, whole pages and the rest, and returns its *)
(* first argument.                                                         *)
MemsetFills == Finished("memset") =>
    /\ \A i \in 0..job.n - 1 : Rd(job.ptr + i) = job.byte
    /\ ReturnedWord = job.ptr

(* Nothing outside the n bytes, the soft registers _r1 and _r3 it uses and *)
(* the stack changes, at any step of the call.                             *)
MemsetFrame == job.call = "memset" =>
    LET boot == InitialCells(BootOf(job, MachineType = 3))
    IN  \A c \in DOMAIN ram :
            \/ c \in job.ptr .. job.ptr + job.n - 1
            \/ c \in {R0 + 1, R0 + 3} \cup 256..511
            \/ c \in DOMAIN boot /\ ram[c] = boot[c]

(* strlen returns the number of bytes before the terminating 0, whatever   *)
(* page boundaries the string crosses.                                     *)
StrlenCounts == Finished("strlen") => ReturnedWord = job.n

(* The test program prints its message up to and with the 0, in order, and *)
(* exits with the last byte it loaded.                                     *)
TestPrints == Finished("test") => out = job.message \o <<0>> /\ a = 0

(* What the assembler routines promise their callers. *)
RoutinesCompute == MemsetFills /\ MemsetFrame /\ StrlenCounts /\ TestPrints

(* Every routine returns and its program leaves the simulator.             *)
ProgramExits == <>(status = "exit")
=============================================================================
