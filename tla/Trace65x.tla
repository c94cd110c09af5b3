------------------------------ MODULE Trace65x ------------------------------
(***************************************************************************)
(* semi65x -t: main disassembles the instruction at ProgramCounter before  *)
(* every call of Exec6502Instruction.  The disassembler knows no machine   *)
(* type, it lists the 65C02's instructions; its idea of an instruction and *)
(* the core's must be the same or the trace shows another program.         *)
(***************************************************************************)
EXTENDS Core6502, Disas65x

Documented65C02 == {r[1] : r \in Documented(3)}
Executing == status = "run" /\ status' # "wild"
Transfers == {"BRK", "JMP", "JSR", "RTS", "RTI"}

(* On a 65C02 a documented instruction that does not jump moves the        *)
(* program counter over exactly the bytes the disassembler counts, and a   *)
(* branch ends behind them or at the target the disassembler prints.       *)
TraceFollowsExecution ==
    [][Executing /\ MachineType = 3 /\ Rd(pc) \in Documented65C02 /\ Op \notin Transfers =>
         \/ pc' = pc + InsnLength(Rd(pc))
         \/ InsnMode(Rd(pc)) = "rel" /\ pc' = PrintedTarget(pc, B1)]_vars
=============================================================================
