------------------------------ MODULE Core6502 ------------------------------
(***************************************************************************)
(* The semi65x simulator: Exec6502Instruction (semi65x/6502core.cpp, built *)
(* with SEMI65X) called in a loop by main (semi65x/semi65x.cpp) on a       *)
(* 64K memory holding a loaded program.  A step of this specification is   *)
(* one instruction.                                                        *)
(*                                                                         *)
(* The program counter is a C int that nothing masks, and effective        *)
(* addresses of (zp),Y and of the indirect jumps are not masked either: an *)
(* access outside WholeRam[65536] is undefined behaviour in C.  The model  *)
(* follows the program up to that access and stops, with status "wild".    *)
(*                                                                         *)
(* Cycle counts are left out: the simulator never shows them, and with no  *)
(* device to raise intStatus or NMIStatus no interrupt is ever taken.      *)
(***************************************************************************)
EXTENDS Alu6502, Decode6502, Sequences

CONSTANTS
    Boots,      \* loaded programs: cells, the memory the files fill (a function
                \* from addresses to bytes), and exec, the execution address
    Models      \* the pairs <<MachineType, OpCodes>> a run starts with

ASSUME BootsAssumption ==
    \A b \in Boots : /\ b.exec \in Nat
                     /\ DOMAIN b.cells \subseteq Addr \ {65535}     \* main refuses the last
                     /\ \A c \in DOMAIN b.cells : b.cells[c] \in Byte
ASSUME ModelsAssumption == Models \subseteq Machines \X Levels

VARIABLES
    MachineType, OpCodes,
    pc,         \* ProgramCounter, an int
    a, x, y,    \* Accumulator, XReg, YReg
    s, psr,     \* StackReg, PSR
    ram,        \* WholeRam: the cells written so far, all others are 0
    out,        \* what the program wrote to standard output
    status      \* "run"; "exit", exit (Accumulator) was called; "wild"

regs == <<a, x, y, s, psr>>
vars == <<MachineType, OpCodes, pc, a, x, y, s, psr, ram, out, status>>

-----------------------------------------------------------------------------
(* Memory and stack.                                                       *)
IOPort == \hfff0
Rd(c) == IF c \in DOMAIN ram THEN ram[c] ELSE 0
Put(m, c, v) == [d \in DOMAIN m \cup {c} |-> IF d = c THEN v ELSE m[d]]
BeebWriteMem(c, v) ==
    /\ ram' = Put(ram, c, v)
    /\ out' = IF c = IOPort THEN Append(out, v) ELSE out

(* Mutant: a stack pointer that runs out of its page. *)
SlotUnwrapped(sp) == 256 + sp
Slot(sp) == 256 + (sp % 256)                 \* where StackReg = sp points
PushWord(m, sp, w) == Put(Put(m, Slot(sp), Hi(w)), Slot(sp - 1), Lo(w))
Popped(k) == Rd(Slot(s + k))                 \* the k-th byte popped
PoppedWord(k) == Word(Popped(k), Popped(k + 1))

-----------------------------------------------------------------------------
(* Fetch, decode and the addressing modes.                                 *)
Ins == Decode[MachineType][OpCodes][Rd(pc)]
Op == Ins.op
Mode == Ins.mode
B1 == Rd(pc + 1)
Operand == Word(B1, Rd(pc + 2))
Pointer(z) == Word(Rd(z), Rd(z + 1))

(* JMP (abs): the carry into the vector's high byte is lost on a 6502.     *)
VectorHigh == IF Lo(Operand) = 255 /\ MachineType # 3 THEN Operand - 255 ELSE Operand + 1

(* Mutant: an indexed address is not masked. *)
IndexedUnmasked(c, r) == c + r
Indexed(c, r) == (c + r) % 65536

AddressIn(mode) ==
    CASE mode = "imm"   -> pc + 1
      [] mode = "zp"    -> B1
      [] mode = "zpx"   -> Lo(B1 + x)
      [] mode = "zpy"   -> Lo(B1 + y)
      [] mode = "abs"   -> Operand
      [] mode = "absx"  -> Indexed(Operand, x)
      [] mode = "absy"  -> Indexed(Operand, y)
      [] mode = "indx"  -> Pointer(Lo(B1 + x))
      [] mode = "indy"  -> Pointer(B1) + y
      [] mode = "zpind" -> Pointer(B1)
      [] mode = "ind"   -> Word(Rd(Operand), Rd(VectorHigh))
      [] mode = "indax" -> Pointer(Operand + x)
      [] OTHER          -> pc
EffectiveAddress == AddressIn(Mode)
Data == Rd(EffectiveAddress)

TakenBy(op) ==
    \/ op = "BRA"
    \/ (op = "BCC" /\ "C" \notin psr) \/ (op = "BCS" /\ "C" \in psr)
    \/ (op = "BNE" /\ "Z" \notin psr) \/ (op = "BEQ" /\ "Z" \in psr)
    \/ (op = "BPL" /\ "N" \notin psr) \/ (op = "BMI" /\ "N" \in psr)
    \/ (op = "BVC" /\ "V" \notin psr) \/ (op = "BVS" /\ "V" \in psr)
Taken == TakenBy(Op)

(* Every index of WholeRam the instruction uses, but for the stack page    *)
(* and the zero page pointers, which cannot be outside it.                 *)
OperandBytes ==
    CASE Mode = "rel" -> IF Taken THEN {pc + 1} ELSE {}
      [] Mode \in {"skip1", "skip2", "skip3"} -> {}
      [] OTHER -> pc + 1 .. pc + Length(Mode) - 1
Vector ==
    CASE Mode = "ind"   -> {Operand, VectorHigh}
      [] Mode = "indax" -> {Operand + x, Operand + x + 1}
      [] OTHER          -> {}
Target ==
    IF Op \in {"JMP", "JSR"} \/ Mode \in {"impl", "acc", "rel", "skip1", "skip2", "skip3"}
    THEN {} ELSE {EffectiveAddress}
Accessed == {pc} \cup OperandBytes \cup Vector \cup Target
Wild == ~(Accessed \subseteq Addr)

-----------------------------------------------------------------------------
Executes(ops) == status = "run" /\ ~Wild /\ Op \in ops
FallThrough == pc' = pc + Length(Mode)
Same(vs) == UNCHANGED <<MachineType, OpCodes, vs>>

Load ==
    /\ Executes({"LDA", "LDX", "LDY", "LAX"})
    /\ a' = IF Op \in {"LDA", "LAX"} THEN Data ELSE a
    /\ x' = IF Op \in {"LDX", "LAX"} THEN Data ELSE x
    /\ y' = IF Op = "LDY" THEN Data ELSE y
    /\ psr' = SetZN(psr, Data)
    /\ FallThrough
    /\ Same(<<s, ram, out, status>>)

StoredValue ==
    CASE Op = "STA" -> a [] Op = "STX" -> x [] Op = "STY" -> y
      [] Op = "STZ" -> 0 [] OTHER -> And8(a, x)
(* SAX stores into WholeRam directly, the others through BeebWriteMem, or  *)
(* directly where the address is in the zero page, which has no port.      *)
Store ==
    /\ Executes({"STA", "STX", "STY", "STZ", "SHX", "SAX"})
    /\ IF Op = "SAX" THEN ram' = Put(ram, EffectiveAddress, StoredValue) /\ out' = out
                     ELSE BeebWriteMem(EffectiveAddress, StoredValue)
    /\ FallThrough
    /\ Same(<<regs, status>>)

AccumulatorOp ==
    /\ Executes({"ORA", "AND", "EOR", "ADC", "SBC"})
    /\ LET r == Accumulate(Op, psr, a, Data) IN a' = r.val /\ psr' = r.psr
    /\ FallThrough
    /\ Same(<<x, y, s, ram, out, status>>)

CompareOp ==
    /\ Executes({"CMP", "CPX", "CPY"})
    /\ psr' = Compare(psr, CASE Op = "CMP" -> a [] Op = "CPX" -> x [] OTHER -> y, Data)
    /\ FallThrough
    /\ Same(<<a, x, y, s, ram, out, status>>)

Bit ==
    /\ Executes({"BIT", "BITI"})
    /\ psr' = IF Op = "BIT" THEN BitTest(psr, a, Data) ELSE TestZ(psr, a, Data)
    /\ FallThrough
    /\ Same(<<a, x, y, s, ram, out, status>>)

(* The old value is written back before the new one: both reach the port.  *)
ReadModifyWrite(val) ==
    /\ ram' = Put(ram, EffectiveAddress, val)
    /\ out' = IF EffectiveAddress = IOPort THEN out \o <<Data, val>> ELSE out

ModifyMemory ==
    /\ Executes({"ASL", "ROL", "LSR", "ROR", "DEC", "INC"})
    /\ Mode # "acc"
    /\ LET r == Modify(Op, psr, Data) IN ReadModifyWrite(r.val) /\ psr' = r.psr
    /\ FallThrough
    /\ Same(<<a, x, y, s, status>>)

ModifyAccumulator ==
    /\ Executes({"ASL", "ROL", "LSR", "ROR"})
    /\ Mode = "acc"
    /\ LET r == Modify(Op, psr, a) IN a' = r.val /\ psr' = r.psr
    /\ FallThrough
    /\ Same(<<x, y, s, ram, out, status>>)

TestAndSet ==
    /\ Executes({"TSB", "TRB"})
    /\ BeebWriteMem(EffectiveAddress,
                    IF Op = "TSB" THEN Or8(a, Data) ELSE And8(Xor8(a, 255), Data))
    /\ psr' = TestZ(psr, a, Data)
    /\ FallThrough
    /\ Same(<<a, x, y, s, status>>)

(* SLO, RLA, SRE, RRA, DCP, ISC: modify memory, then use the new value.    *)
Pair(op) ==
    CASE op = "SLO" -> <<"ASL", "ORA">> [] op = "RLA" -> <<"ROL", "AND">>
      [] op = "SRE" -> <<"LSR", "EOR">> [] op = "RRA" -> <<"ROR", "ADC">>
      [] op = "DCP" -> <<"DEC", "CMP">> [] OTHER      -> <<"INC", "SBC">>
ModifyAndUse ==
    /\ Executes({"SLO", "RLA", "SRE", "RRA", "DCP", "ISC"})
    /\ LET r == Modify(Pair(Op)[1], psr, Data)
           u == IF Op = "DCP" THEN Result(a, Compare(r.psr, a, r.val))
                              ELSE Accumulate(Pair(Op)[2], r.psr, a, r.val)
       IN  ReadModifyWrite(r.val) /\ a' = u.val /\ psr' = u.psr
    /\ FallThrough
    /\ Same(<<x, y, s, status>>)

(* ANC adds bit 7 to the carry but never clears it.                        *)
UndocumentedImmediate ==
    /\ Executes({"ANC", "ALR", "ARR", "XAA", "SBX"})
    /\ LET m == And8(a, Data)
           r == CASE Op = "ANC" -> Result(m, SetZN(psr, m) \cup When("C", m >= 128))
                  [] Op = "ALR" -> Modify("LSR", SetZN(psr, m), m)
                  [] Op = "ARR" -> Modify("ROR", SetZN(psr, m), m)
                  [] Op = "XAA" -> Logic(psr, And8(x, Data))
                  [] OTHER      -> Sbc(psr, x, Data)
       IN  /\ a' = IF Op = "SBX" THEN a ELSE r.val
           /\ x' = IF Op = "SBX" THEN r.val ELSE x
           /\ psr' = r.psr
    /\ FallThrough
    /\ Same(<<y, s, ram, out, status>>)

StepRegister ==
    /\ Executes({"INX", "DEX", "INY", "DEY", "INA", "DEA"})
    /\ LET r == CASE Op = "INX" -> Lo(x + 1) [] Op = "DEX" -> Lo(x - 1)
                  [] Op = "INY" -> Lo(y + 1) [] Op = "DEY" -> Lo(y - 1)
                  [] Op = "INA" -> Lo(a + 1) [] OTHER -> Lo(a - 1)
       IN  /\ x' = IF Op \in {"INX", "DEX"} THEN r ELSE x
           /\ y' = IF Op \in {"INY", "DEY"} THEN r ELSE y
           /\ a' = IF Op \in {"INA", "DEA"} THEN r ELSE a
           /\ psr' = SetZN(psr, r)
    /\ FallThrough
    /\ Same(<<s, ram, out, status>>)

Transfer ==
    /\ Executes({"TAX", "TXA", "TAY", "TYA", "TSX", "TXS"})
    /\ LET r == CASE Op \in {"TAX", "TAY"} -> a [] Op \in {"TXA", "TXS"} -> x
                  [] Op = "TYA" -> y [] OTHER -> s
       IN  /\ a' = IF Op \in {"TXA", "TYA"} THEN r ELSE a
           /\ x' = IF Op \in {"TAX", "TSX"} THEN r ELSE x
           /\ y' = IF Op = "TAY" THEN r ELSE y
           /\ s' = IF Op = "TXS" THEN r ELSE s
           /\ psr' = IF Op = "TXS" THEN psr ELSE SetZN(psr, r)
    /\ FallThrough
    /\ Same(<<ram, out, status>>)

SetFlag ==
    /\ Executes({"CLC", "SEC", "CLI", "SEI", "CLV", "CLD", "SED"})
    /\ psr' = CASE Op = "CLC" -> psr \ {"C"} [] Op = "SEC" -> psr \cup {"C"}
                [] Op = "CLI" -> psr \ {"I"} [] Op = "SEI" -> psr \cup {"I"}
                [] Op = "CLD" -> psr \ {"D"} [] Op = "SED" -> psr \cup {"D"}
                [] OTHER -> psr \ {"V"}
    /\ FallThrough
    /\ Same(<<a, x, y, s, ram, out, status>>)

Push ==
    /\ Executes({"PHA", "PHX", "PHY", "PHP"})
    /\ ram' = Put(ram, Slot(s), CASE Op = "PHA" -> a [] Op = "PHX" -> x [] Op = "PHY" -> y
                                  [] OTHER -> PsrByte(psr \cup {"B", "U"}))
    /\ s' = Lo(s - 1)
    /\ FallThrough
    /\ Same(<<a, x, y, psr, out, status>>)

Pull ==
    /\ Executes({"PLA", "PLX", "PLY", "PLP"})
    /\ a' = IF Op = "PLA" THEN Popped(1) ELSE a
    /\ x' = IF Op = "PLX" THEN Popped(1) ELSE x
    /\ y' = IF Op = "PLY" THEN Popped(1) ELSE y
    /\ psr' = IF Op = "PLP" THEN BytePsr(Popped(1)) ELSE SetZN(psr, Popped(1))
    /\ s' = Lo(s + 1)
    /\ FallThrough
    /\ Same(<<ram, out, status>>)

Branch ==
    /\ Executes({"BRA", "BCC", "BCS", "BNE", "BEQ", "BPL", "BMI", "BVC", "BVS"})
    /\ pc' = IF Taken THEN pc + 2 + Signed(B1) ELSE pc + 2
    /\ Same(<<regs, ram, out, status>>)

(* JMP abs to address 0 is how a program leaves the simulator; the         *)
(* indirect jumps have no such test.                                       *)
Jump ==
    /\ Executes({"JMP"})
    /\ pc' = EffectiveAddress
    /\ status' = IF Mode = "abs" /\ EffectiveAddress = 0 THEN "exit" ELSE status
    /\ Same(<<regs, ram, out>>)

JumpSubroutine ==
    /\ Executes({"JSR"})
    /\ ram' = PushWord(ram, s, pc + 2)
    /\ s' = Lo(s - 2)
    /\ pc' = EffectiveAddress
    /\ Same(<<a, x, y, psr, out, status>>)

ReturnSubroutine ==
    /\ Executes({"RTS"})
    /\ pc' = PoppedWord(1) + 1
    /\ s' = Lo(s + 2)
    /\ Same(<<a, x, y, psr, ram, out, status>>)

(* BRK sets B in the live status register, not only in the pushed copy.    *)
Break ==
    /\ Executes({"BRK"})
    /\ ram' = Put(PushWord(ram, s, pc + 2), Slot(s - 2), PsrByte(psr \cup {"B"}))
    /\ s' = Lo(s - 3)
    /\ psr' = psr \cup {"B", "I"}
    /\ pc' = Word(Rd(\hfffe), Rd(\hffff))
    /\ Same(<<a, x, y, out, status>>)

ReturnInterrupt ==
    /\ Executes({"RTI"})
    /\ psr' = BytePsr(Popped(1))
    /\ pc' = PoppedWord(2)
    /\ s' = Lo(s + 3)
    /\ Same(<<a, x, y, ram, out, status>>)

Skip ==
    /\ Executes({"NOP", "SKIP"})
    /\ FallThrough
    /\ Same(<<regs, ram, out, status>>)

LeaveMemory ==
    /\ status = "run" /\ Wild
    /\ status' = "wild"
    /\ Same(<<pc, regs, ram, out>>)

-----------------------------------------------------------------------------
(* What main's fread of a file at load address base puts into WholeRam.    *)
Loaded(base, bytes) == [c \in base .. base + Len(bytes) - 1 |-> bytes[c - base + 1]]

(* main points the reset vector to the execution address, Init6502core     *)
(* reads it back.                                                          *)
InitialCells(boot) == Put(Put(boot.cells, \hfffc, Lo(boot.exec)), \hfffd, Hi(boot.exec))
InitFrom(boot) ==
    /\ \E m \in Models : MachineType = m[1] /\ OpCodes = m[2]
    /\ ram = InitialCells(boot)
    /\ pc = Pointer(\hfffc)
    /\ a = 0 /\ x = 0 /\ y = 0 /\ s = 255 /\ psr = {"I"}
    /\ out = <<>> /\ status = "run"

Init == \E boot \in Boots : InitFrom(boot)

Next ==
    \/ Load \/ Store \/ AccumulatorOp \/ CompareOp \/ Bit
    \/ ModifyMemory \/ ModifyAccumulator \/ TestAndSet
    \/ ModifyAndUse \/ UndocumentedImmediate
    \/ StepRegister \/ Transfer \/ SetFlag \/ Push \/ Pull
    \/ Branch \/ Jump \/ JumpSubroutine \/ ReturnSubroutine \/ Break \/ ReturnInterrupt
    \/ Skip \/ LeaveMemory

Spec == Init /\ [][Next]_vars
(* main calls Exec6502Instruction for ever.                                *)
FairSpec == Spec /\ WF_vars(Next)

-----------------------------------------------------------------------------
IsMemory(m) == DOMAIN m \subseteq Addr /\ \A c \in DOMAIN m : m[c] \in Byte

TypeOK ==
    /\ MachineType \in Machines /\ OpCodes \in Levels
    /\ pc \in Int /\ -126 <= pc /\ pc <= 65790
    /\ a \in Byte /\ x \in Byte /\ y \in Byte /\ s \in Byte
    /\ psr \subseteq Flags
    /\ IsMemory(ram)
    /\ out \in Seq(Byte)
    /\ status \in {"run", "exit", "wild"}

(* Absolute, zero page and pre-indexed addressing wrap inside WholeRam;    *)
(* what can run off its end is the program counter, the operand bytes      *)
(* behind it, (zp),Y, and the vector of an indirect jump.  Nothing else    *)
(* makes the simulator access memory it does not have.                     *)
OnlyIndirectionLeavesMemory ==
    status = "run" /\ Wild =>
        \/ pc \notin Addr
        \/ pc + Length(Mode) > 65536
        \/ Mode = "indy" /\ Rd(B1 + 1) = 255
        \/ Mode = "ind" /\ Operand = 65535
        \/ Mode = "indax" /\ Operand + x >= 65535

(* Right after a JSR the stack holds what an RTS takes back, and right     *)
(* after a BRK what an RTI does: the return address, the flags with B set, *)
(* and the old stack pointer, wherever the stack wraps in its page         *)
(* (PushWord and PopWord).                                                 *)
EntryCanBeUndone ==
    [][/\ JumpSubroutine => PoppedWord(1)' = (pc + 2) % 65536 /\ Lo(s' + 2) = s
       /\ Break => /\ PoppedWord(2)' = (pc + 2) % 65536 /\ Lo(s' + 3) = s
                   /\ BytePsr(Popped(1)') = psr \cup {"B"}]_vars
=============================================================================
