-------------------------- MODULE Processor_proofs --------------------------
(***************************************************************************)
(* Theorems about Core6502 and, behind them, Interrupts, for every program *)
(* and machine, and for any devices and cycles between their requests: the *)
(* registers keep their widths, what can take them out of WholeRam, what   *)
(* an interrupt pushes, and that an IRQ is taken only where I was clear    *)
(* before the last instruction.                                            *)
(***************************************************************************)
EXTENDS Interrupts, Trace65x, TLAPS

-----------------------------------------------------------------------------
(* Bytes: what the operators of Bytes6502 and Alu6502 return.              *)
LEMMA ByteRange == \A v : v \in Byte <=> v \in Int /\ 0 <= v /\ v <= 255
BY DEF Byte

LEMMA AddrRange == \A v : v \in Addr <=> v \in Int /\ 0 <= v /\ v <= 65535
BY DEF Addr

LEMMA LogicalByte == \A u, v : And8(u, v) \in Byte /\ Or8(u, v) \in Byte /\ Xor8(u, v) \in Byte
BY DEF And8, Or8, Xor8, OfBits, Sel, Byte

LEMMA PsrByteByte == \A p : PsrByte(p) \in Byte
BY DEF PsrByte, OfBits, Sel, Byte

LEMMA BytePsrFlags == \A v : BytePsr(v) \subseteq Flags
BY DEF BytePsr, FlagOf, Weights, Flags

LEMMA LoByte == \A v \in Int : Lo(v) \in Byte
BY DEF Lo, Byte

LEMMA SetFlags ==
    ASSUME NEW p \in SUBSET Flags
    PROVE  /\ \A v : SetZN(p, v) \in SUBSET Flags
           /\ \A c, v : SetCZN(p, c, v) \in SUBSET Flags
           /\ \A c, o, z, n : SetArith(p, c, o, z, n) \in SUBSET Flags
           /\ \A r, v : Compare(p, r, v) \in SUBSET Flags
           /\ \A r, v : BitTest(p, r, v) \in SUBSET Flags
           /\ \A r, v : TestZ(p, r, v) \in SUBSET Flags
BY DEF SetZN, SetCZN, SetArith, Compare, BitTest, TestZ, When, CVZN, Flags

ResultType == [val : Byte, psr : SUBSET Flags]

LEMMA AdcResult ==
    ASSUME NEW p \in SUBSET Flags, NEW u \in Byte, NEW v \in Byte
    PROVE  Adc(p, u, v) \in ResultType
<1>1. AdcBinary(p, u, v) \in ResultType
  BY SetFlags DEF AdcBinary, Result, ResultType, Byte, Lo, Carry
<1>2. AdcDecimal(p, u, v) \in ResultType
  <2> DEFINE ln == (u % 16) + (v % 16) + Carry(p)
             low == IF ln > 9 THEN (ln + 6) % 16 ELSE ln
             hn == 16 * (u \div 16) + 16 * (v \div 16) + (IF ln > 9 THEN 16 ELSE 0)
             high == IF hn > 144 THEN Lo(hn + 96) ELSE hn
  <2>1. Carry(p) \in 0..1
    BY DEF Carry
  <2>2. u \div 16 \in 0..15 /\ v \div 16 \in 0..15 /\ u % 16 \in 0..15 /\ v % 16 \in 0..15
    BY DEF Byte
  <2>3. low \in 0..15
    BY <2>1, <2>2
  <2>4. \E k \in 0..31 : hn = 16 * k
    <3>1. CASE ln > 9
      BY <3>1, <2>2
    <3>2. CASE ~(ln > 9)
      BY <3>2, <2>2
    <3> QED BY <3>1, <3>2
  <2>5. high \in 0..240
    BY <2>4 DEF Lo
  <2>6. high + low \in Byte
    <3> HIDE DEF low, high
    <3> QED BY <2>3, <2>5 DEF Byte
  <2> DEFINE flags == SetArith(p, hn > 144,
                        BitSet(hn, 128) # BitSet(u, 128) /\ BitSet(u, 128) = BitSet(v, 128),
                        high + low = 0, high + low >= 128)
  <2>7. flags \in SUBSET Flags
    <3> HIDE DEF low, high, hn
    <3> QED BY DEF SetArith, When, CVZN, Flags
  <2>8. AdcDecimal(p, u, v) = Result(high + low, flags)
    BY DEF AdcDecimal
  <2> HIDE DEF low, high, flags
  <2> QED BY <2>6, <2>7, <2>8 DEF Result, ResultType
<1> QED BY <1>1, <1>2 DEF Adc

LEMMA SbcResult ==
    ASSUME NEW p \in SUBSET Flags, NEW u \in Byte, NEW v \in Byte
    PROVE  Sbc(p, u, v) \in ResultType
<1>1. SbcBinary(p, u, v) \in ResultType
  BY SetFlags DEF SbcBinary, Result, ResultType, Byte, Lo, Carry
<1>2. SbcDecimal(p, u, v) \in ResultType
  <2> DEFINE borrow == 1 - Carry(p)
             over == v % 16 > 9 /\ u % 16 < 10
             oln == (v % 16) - (IF over THEN 10 ELSE 0)
             ohn == 16 * (v \div 16) + (IF over THEN 16 ELSE 0)
             ln == (u % 16) - oln - borrow
             low == IF ln >= 0 THEN ln ELSE (IF u % 16 < 10 THEN ln - 6 ELSE ln) % 16
             hn == 16 * (u \div 16) - ohn - (IF ln < 0 THEN 16 ELSE 0)
             high == IF hn < 0 THEN Lo(hn - 96) ELSE hn
  <2>1. borrow \in 0..1
    BY DEF Carry
  <2>2. u \div 16 \in 0..15 /\ v \div 16 \in 0..15 /\ u % 16 \in 0..15 /\ v % 16 \in 0..15
    BY DEF Byte
  <2>3. oln \in 0..15 /\ ln \in -16..15
    BY <2>1, <2>2
  <2>4. low \in 0..15
    BY <2>3
  <2>5. \E k \in -17..15 : hn = 16 * k
    <3>1. CASE over
      BY <3>1, <2>2, <2>3
    <3>2. CASE ~over
      BY <3>2, <2>2, <2>3
    <3> QED BY <3>1, <3>2
  <2>6. high \in 0..240
    BY <2>5 DEF Lo
  <2>7. high + low \in Byte
    <3> HIDE DEF low, high
    <3> QED BY <2>4, <2>6 DEF Byte
  <2> QED BY <2>7, SetFlags DEF SbcDecimal, Result, ResultType
<1> QED BY <1>1, <1>2 DEF Sbc

LEMMA LogicResult ==
    ASSUME NEW p \in SUBSET Flags, NEW v \in Byte
    PROVE  Logic(p, v) \in ResultType
BY SetFlags DEF Logic, Result, ResultType

LEMMA ModifyResult ==
    ASSUME NEW p \in SUBSET Flags, NEW v \in Byte,
           NEW op \in {"ASL", "ROL", "LSR", "ROR", "DEC", "INC"}
    PROVE  Modify(op, p, v) \in ResultType
<1>1. \A o : \A r \in Byte : Shift(p, o, r) \in ResultType
  BY SetFlags DEF Shift, Result, ResultType
<1>2. /\ Lo(2 * v) \in Byte /\ Lo(2 * v) + Carry(p) \in Byte
      /\ v \div 2 \in Byte /\ (v \div 2) + 128 * Carry(p) \in Byte
      /\ Lo(v - 1) \in Byte /\ Lo(v + 1) \in Byte
  BY DEF Byte, Lo, Carry
<1> QED BY <1>1, <1>2, LogicResult DEF Modify

LEMMA AccumulateResult ==
    ASSUME NEW p \in SUBSET Flags, NEW u \in Byte, NEW v \in Byte,
           NEW op \in {"ORA", "AND", "EOR", "ADC", "SBC"}
    PROVE  Accumulate(op, p, u, v) \in ResultType
BY LogicalByte, LogicResult, AdcResult, SbcResult DEF Accumulate

-----------------------------------------------------------------------------
(* Memory, the stack and effective addresses.                              *)
LEMMA PutMemory ==
    ASSUME NEW m, IsMemory(m), NEW c \in Addr, NEW v \in Byte
    PROVE  IsMemory(Put(m, c, v))
BY DEF IsMemory, Put

LEMMA RdByte == IsMemory(ram) => \A c : Rd(c) \in Byte
BY ByteRange DEF IsMemory, Rd

LEMMA WordAddr == \A u, v \in Byte : Word(u, v) \in Addr
BY ByteRange, AddrRange DEF Word

LEMMA PointerAddr == IsMemory(ram) => \A z : Pointer(z) \in Addr
BY RdByte, WordAddr DEF Pointer

LEMMA SlotAddr == \A sp \in Int : Slot(sp) \in Addr
BY AddrRange DEF Slot

LEMMA HalvesBytes == \A w \in Int : Hi(w) \in Byte /\ Lo(w) \in Byte
BY ByteRange DEF Hi, Lo

LEMMA PushWordMemory ==
    ASSUME NEW m, IsMemory(m), NEW sp \in Int, NEW w \in Int
    PROVE  IsMemory(PushWord(m, sp, w))
<1>1. sp - 1 \in Int
  OBVIOUS
<1>2. IsMemory(Put(m, Slot(sp), Hi(w)))
  BY SlotAddr, HalvesBytes, PutMemory
<1> QED BY <1>1, <1>2, SlotAddr, HalvesBytes, PutMemory DEF PushWord

LEMMA EmittedBytes ==
    ASSUME NEW o \in Seq(Byte), NEW u \in Byte, NEW v \in Byte
    PROVE  Append(o, v) \in Seq(Byte) /\ o \o <<u, v>> \in Seq(Byte)
<1>1. <<u, v>> \in Seq(Byte)
  OBVIOUS
<1> QED BY <1>1

LEMMA WrittenMemory ==
    ASSUME TypeOK, NEW c \in Addr, NEW v \in Byte, BeebWriteMem(c, v)
    PROVE  IsMemory(ram') /\ out' \in Seq(Byte)
<1>1. IsMemory(ram') 
  BY PutMemory DEF BeebWriteMem, TypeOK
<1>2. out' \in Seq(Byte)
  BY EmittedBytes DEF BeebWriteMem, TypeOK
<1> QED BY <1>1, <1>2

LEMMA LengthRange == \A mode : Length(mode) \in 1..3
BY DEF Length

LEMMA EffectiveRange ==
    ASSUME TypeOK, pc \in Addr
    PROVE  EffectiveAddress \in Int /\ 0 <= EffectiveAddress /\ EffectiveAddress <= 65790
<1>1. x \in Int /\ 0 <= x /\ x <= 255 /\ y \in Int /\ 0 <= y /\ y <= 255
  BY ByteRange DEF TypeOK
<1>2. pc \in Int /\ 0 <= pc /\ pc <= 65535
  BY AddrRange
<1>3. B1 \in Int /\ 0 <= B1 /\ B1 <= 255
  BY RdByte, ByteRange DEF B1, TypeOK
<1>4. Operand \in Int /\ 0 <= Operand /\ Operand <= 65535
  <2>1. IsMemory(ram)
    BY DEF TypeOK
  <2>2. Rd(pc + 1) \in Byte /\ Rd(pc + 2) \in Byte
    BY <2>1, RdByte
  <2>3. Operand \in Addr
    BY <2>2, WordAddr DEF Operand, B1
  <2> QED BY <2>3, AddrRange
<1>5. \A z : Pointer(z) \in Int /\ 0 <= Pointer(z) /\ Pointer(z) <= 65535
  BY PointerAddr, AddrRange DEF TypeOK
<1>6. \A c, d : Word(Rd(c), Rd(d)) \in Addr
  BY RdByte, WordAddr DEF TypeOK
<1> DEFINE InRange(v) == v \in Int /\ 0 <= v /\ v <= 65790
<1>7. /\ InRange(pc + 1) /\ InRange(pc) /\ InRange(B1) /\ InRange(Operand)
      /\ InRange(Pointer(Lo(B1 + x))) /\ InRange(Pointer(B1) + y)
      /\ InRange(Pointer(B1)) /\ InRange(Pointer(Operand + x))
      /\ InRange(Word(Rd(Operand), Rd(VectorHigh)))
  BY <1>1, <1>2, <1>3, <1>4, <1>5, <1>6, AddrRange
<1>8. InRange(Lo(B1 + x)) /\ InRange(Lo(B1 + y))
  BY <1>1, <1>3 DEF Lo
<1>9. InRange(Indexed(Operand, x)) /\ InRange(Indexed(Operand, y))
  BY <1>1, <1>4 DEF Indexed
<1> HIDE DEF InRange
<1>10. InRange(EffectiveAddress)
  BY <1>7, <1>8, <1>9 DEF EffectiveAddress, AddressIn
<1> QED BY <1>10 DEF InRange

(* An instruction that runs has its opcode in memory, and its target too   *)
(* unless it is a jump there.                                              *)
LEMMA ExecutesInMemory ==
    ASSUME NEW ops, Executes(ops)
    PROVE  /\ pc \in Addr /\ Op \in ops /\ status = "run"
           /\ Op \notin {"JMP", "JSR"} => EffectiveAddress \in Addr
<1>1. Accessed \subseteq Addr /\ pc \in Addr
  BY DEF Executes, Wild, Accessed
<1>2. ASSUME Op \notin {"JMP", "JSR"} PROVE EffectiveAddress \in Addr
  <2>1. CASE Mode \in {"impl", "acc", "rel", "skip1", "skip2", "skip3"}
    BY <1>1, <2>1 DEF EffectiveAddress, AddressIn
  <2>2. CASE Mode \notin {"impl", "acc", "rel", "skip1", "skip2", "skip3"}
    BY <1>1, <1>2, <2>2 DEF Accessed, Target
  <2> QED BY <2>1, <2>2
<1> QED BY <1>1, <1>2 DEF Executes

LEMMA FallThroughRange ==
    ASSUME pc \in Addr, FallThrough
    PROVE  pc' \in Int /\ -126 <= pc' /\ pc' <= 65790
BY LengthRange, AddrRange DEF FallThrough

LEMMA OperandBytesTyped ==
    ASSUME TypeOK
    PROVE  /\ Data \in Byte /\ B1 \in Byte /\ Operand \in Addr
           /\ \A k : Popped(k) \in Byte /\ PoppedWord(k) \in Addr
BY RdByte, WordAddr DEF TypeOK, Data, B1, Operand, Popped, PoppedWord

-----------------------------------------------------------------------------
(* Init and Next keep the types, action by action.                         *)
LEMMA InitTypeOK == Init => TypeOK
<1> SUFFICES ASSUME Init PROVE TypeOK
  OBVIOUS
<1>1. PICK boot \in Boots : InitFrom(boot)
  BY DEF Init
<1>2. PICK m \in Models : MachineType = m[1] /\ OpCodes = m[2]
  BY <1>1 DEF InitFrom
<1>3. MachineType \in Machines /\ OpCodes \in Levels
  BY <1>2, ModelsAssumption
<1>4. IsMemory(boot.cells)
  BY BootsAssumption DEF IsMemory
<1>5. \hfffc \in Addr /\ \hfffd \in Addr /\ boot.exec \in Int
  BY BootsAssumption, AddrRange
<1>6. IsMemory(ram)
  <2>1. IsMemory(Put(boot.cells, \hfffc, Lo(boot.exec)))
    BY <1>4, <1>5, HalvesBytes, PutMemory
  <2>2. IsMemory(InitialCells(boot))
    BY <1>5, <2>1, HalvesBytes, PutMemory DEF InitialCells
  <2> QED BY <1>1, <2>2 DEF InitFrom
<1>7. pc \in Int /\ -126 <= pc /\ pc <= 65790
  BY <1>1, <1>6, PointerAddr, AddrRange DEF InitFrom
<1>8. a \in Byte /\ x \in Byte /\ y \in Byte /\ s \in Byte
  BY <1>1, ByteRange DEF InitFrom
<1>9. psr \subseteq Flags /\ out \in Seq(Byte) /\ status \in {"run", "exit", "wild"}
  BY <1>1 DEF InitFrom, Flags
<1> QED BY <1>3, <1>6, <1>7, <1>8, <1>9 DEF TypeOK

LEMMA LoadTypeOK == TypeOK /\ Load => TypeOK'
<1> SUFFICES ASSUME TypeOK, Load PROVE TypeOK'
  OBVIOUS
<1>1. pc' \in Int /\ -126 <= pc' /\ pc' <= 65790
  BY ExecutesInMemory, FallThroughRange DEF Load
<1>2. Data \in Byte /\ SetZN(psr, Data) \in SUBSET Flags
  BY OperandBytesTyped, SetFlags DEF TypeOK
<1> QED BY <1>1, <1>2 DEF Load, Same, TypeOK

LEMMA StoreTypeOK == TypeOK /\ Store => TypeOK'
<1> SUFFICES ASSUME TypeOK, Store PROVE TypeOK'
  OBVIOUS
<1>1. pc' \in Int /\ -126 <= pc' /\ pc' <= 65790
  BY ExecutesInMemory, FallThroughRange DEF Store
<1>2. EffectiveAddress \in Addr
  BY ExecutesInMemory DEF Store
<1>3. StoredValue \in Byte
  BY LogicalByte, ByteRange DEF StoredValue, TypeOK
<1>4. IsMemory(ram') /\ out' \in Seq(Byte)
  BY <1>2, <1>3, PutMemory, WrittenMemory DEF Store, TypeOK
<1> QED BY <1>1, <1>4 DEF Store, Same, TypeOK, regs

LEMMA AccumulatorOpTypeOK == TypeOK /\ AccumulatorOp => TypeOK'
<1> SUFFICES ASSUME TypeOK, AccumulatorOp PROVE TypeOK'
  OBVIOUS
<1>1. pc' \in Int /\ -126 <= pc' /\ pc' <= 65790
  BY ExecutesInMemory, FallThroughRange DEF AccumulatorOp
<1>2. Accumulate(Op, psr, a, Data) \in ResultType
  BY ExecutesInMemory, OperandBytesTyped, AccumulateResult DEF AccumulatorOp, TypeOK
<1> QED BY <1>1, <1>2 DEF AccumulatorOp, Same, TypeOK, ResultType

LEMMA FlagOpsTypeOK == TypeOK /\ (CompareOp \/ Bit) => TypeOK'
<1> SUFFICES ASSUME TypeOK, CompareOp \/ Bit PROVE TypeOK'
  OBVIOUS
<1>1. pc' \in Int /\ -126 <= pc' /\ pc' <= 65790
  BY ExecutesInMemory, FallThroughRange DEF CompareOp, Bit
<1>2. psr' \in SUBSET Flags
  <2>1. psr \in SUBSET Flags
    BY DEF TypeOK
  <2>2. /\ \A r, v : Compare(psr, r, v) \in SUBSET Flags
        /\ \A r, v : BitTest(psr, r, v) \in SUBSET Flags
        /\ \A r, v : TestZ(psr, r, v) \in SUBSET Flags
    BY <2>1, SetFlags
  <2>3. CASE CompareOp
    BY <2>2, <2>3 DEF CompareOp
  <2>4. CASE Bit
    BY <2>2, <2>4 DEF Bit
  <2> QED BY <2>3, <2>4
<1> QED BY <1>1, <1>2 DEF CompareOp, Bit, Same, TypeOK

LEMMA ReadModifyWriteMemory ==
    ASSUME TypeOK, EffectiveAddress \in Addr, NEW v \in Byte, ReadModifyWrite(v)
    PROVE  IsMemory(ram') /\ out' \in Seq(Byte)
<1>1. IsMemory(ram')
  BY PutMemory DEF ReadModifyWrite, TypeOK
<1>2. out' \in Seq(Byte)
  BY OperandBytesTyped, EmittedBytes DEF ReadModifyWrite, TypeOK
<1> QED BY <1>1, <1>2

LEMMA ModifyMemoryTypeOK == TypeOK /\ ModifyMemory => TypeOK'
<1> SUFFICES ASSUME TypeOK, ModifyMemory PROVE TypeOK'
  OBVIOUS
<1>1. pc' \in Int /\ -126 <= pc' /\ pc' <= 65790
  BY ExecutesInMemory, FallThroughRange DEF ModifyMemory
<1>2. Op \in {"ASL", "ROL", "LSR", "ROR", "DEC", "INC"} /\ EffectiveAddress \in Addr
  BY ExecutesInMemory DEF ModifyMemory
<1>3. Modify(Op, psr, Data) \in ResultType
  BY <1>2, OperandBytesTyped, ModifyResult DEF TypeOK
<1>4. IsMemory(ram') /\ out' \in Seq(Byte)
  BY <1>2, <1>3, ReadModifyWriteMemory DEF ModifyMemory, ResultType
<1> QED BY <1>1, <1>3, <1>4 DEF ModifyMemory, Same, TypeOK, ResultType

LEMMA ModifyAccumulatorTypeOK == TypeOK /\ ModifyAccumulator => TypeOK'
<1> SUFFICES ASSUME TypeOK, ModifyAccumulator PROVE TypeOK'
  OBVIOUS
<1>1. pc' \in Int /\ -126 <= pc' /\ pc' <= 65790
  BY ExecutesInMemory, FallThroughRange DEF ModifyAccumulator
<1>2. Op \in {"ASL", "ROL", "LSR", "ROR"}
  BY ExecutesInMemory DEF ModifyAccumulator
<1>3. Modify(Op, psr, a) \in ResultType
  BY <1>2, ModifyResult DEF TypeOK
<1> QED BY <1>1, <1>3 DEF ModifyAccumulator, Same, TypeOK, ResultType

LEMMA TestAndSetTypeOK == TypeOK /\ TestAndSet => TypeOK'
<1> SUFFICES ASSUME TypeOK, TestAndSet PROVE TypeOK'
  OBVIOUS
<1>1. pc' \in Int /\ -126 <= pc' /\ pc' <= 65790
  BY ExecutesInMemory, FallThroughRange DEF TestAndSet
<1>2. EffectiveAddress \in Addr
  BY ExecutesInMemory DEF TestAndSet
<1>3. IsMemory(ram') /\ out' \in Seq(Byte)
  <2> DEFINE v == IF Op = "TSB" THEN Or8(a, Data) ELSE And8(Xor8(a, 255), Data)
  <2>1. v \in Byte
    BY LogicalByte
  <2>2. BeebWriteMem(EffectiveAddress, v)
    BY DEF TestAndSet
  <2> HIDE DEF v
  <2> QED BY <1>2, <2>1, <2>2, WrittenMemory
<1>4. psr' \in SUBSET Flags
  <2>1. \A r, v : TestZ(psr, r, v) \in SUBSET Flags
    BY SetFlags DEF TypeOK
  <2> QED BY <2>1 DEF TestAndSet
<1> QED BY <1>1, <1>3, <1>4 DEF TestAndSet, Same, TypeOK

LEMMA ModifyAndUseTypeOK == TypeOK /\ ModifyAndUse => TypeOK'
<1> SUFFICES ASSUME TypeOK, ModifyAndUse PROVE TypeOK'
  OBVIOUS
<1>1. pc' \in Int /\ -126 <= pc' /\ pc' <= 65790
  BY ExecutesInMemory, FallThroughRange DEF ModifyAndUse
<1>2. Op \in {"SLO", "RLA", "SRE", "RRA", "DCP", "ISC"} /\ EffectiveAddress \in Addr
  BY ExecutesInMemory DEF ModifyAndUse
<1> DEFINE r == Modify(Pair(Op)[1], psr, Data)
           u == IF Op = "DCP" THEN Result(a, Compare(r.psr, a, r.val))
                              ELSE Accumulate(Pair(Op)[2], r.psr, a, r.val)
<1>3. r \in ResultType
  <2>1. Pair(Op)[1] \in {"ASL", "ROL", "LSR", "ROR", "DEC", "INC"}
    BY <1>2 DEF Pair
  <2> QED BY <2>1, OperandBytesTyped, ModifyResult DEF TypeOK
<1>4. ReadModifyWrite(r.val) /\ a' = u.val /\ psr' = u.psr
  BY DEF ModifyAndUse
<1>5. u \in ResultType
  <2> HIDE DEF r
  <2>1. CASE Op = "DCP"
    BY <1>3, <2>1, SetFlags DEF Result, ResultType, TypeOK
  <2>2. CASE Op # "DCP"
    <3>1. Pair(Op)[2] \in {"ORA", "AND", "EOR", "ADC", "SBC"}
      BY <1>2, <2>2 DEF Pair
    <3>2. r.psr \in SUBSET Flags /\ r.val \in Byte /\ a \in Byte
      BY <1>3 DEF ResultType, TypeOK
    <3>3. Accumulate(Pair(Op)[2], r.psr, a, r.val) \in ResultType
      BY <3>1, <3>2, AccumulateResult
    <3> QED BY <2>2, <3>3
  <2> QED BY <2>1, <2>2
<1> HIDE DEF r, u
<1>6. IsMemory(ram') /\ out' \in Seq(Byte)
  BY <1>2, <1>3, <1>4, ReadModifyWriteMemory DEF ResultType
<1> QED BY <1>1, <1>4, <1>5, <1>6 DEF ModifyAndUse, Same, TypeOK, ResultType

LEMMA UndocumentedTypeOK == TypeOK /\ UndocumentedImmediate => TypeOK'
<1> SUFFICES ASSUME TypeOK, UndocumentedImmediate PROVE TypeOK'
  OBVIOUS
<1>1. pc' \in Int /\ -126 <= pc' /\ pc' <= 65790
  BY ExecutesInMemory, FallThroughRange DEF UndocumentedImmediate
<1> DEFINE m == And8(a, Data)
           r == CASE Op = "ANC" -> Result(m, SetZN(psr, m) \cup When("C", m >= 128))
                  [] Op = "ALR" -> Modify("LSR", SetZN(psr, m), m)
                  [] Op = "ARR" -> Modify("ROR", SetZN(psr, m), m)
                  [] Op = "XAA" -> Logic(psr, And8(x, Data))
                  [] OTHER      -> Sbc(psr, x, Data)
<1>2. m \in Byte /\ And8(x, Data) \in Byte
  BY LogicalByte
<1>3. SetZN(psr, m) \in SUBSET Flags
  BY SetFlags DEF TypeOK
<1>4. r \in ResultType
  <2> HIDE DEF m
  <2>1. Result(m, SetZN(psr, m) \cup When("C", m >= 128)) \in ResultType
    BY <1>2, <1>3 DEF Result, ResultType, When, Flags
  <2>2. Modify("LSR", SetZN(psr, m), m) \in ResultType
    BY <1>2, <1>3, ModifyResult
  <2>3. Modify("ROR", SetZN(psr, m), m) \in ResultType
    BY <1>2, <1>3, ModifyResult
  <2>4. Logic(psr, And8(x, Data)) \in ResultType
    BY <1>2, LogicResult DEF TypeOK
  <2>5. Sbc(psr, x, Data) \in ResultType
    BY OperandBytesTyped, SbcResult DEF TypeOK
  <2> QED BY <2>1, <2>2, <2>3, <2>4, <2>5
<1>5. /\ a' = IF Op = "SBX" THEN a ELSE r.val
      /\ x' = IF Op = "SBX" THEN r.val ELSE x
      /\ psr' = r.psr
  BY DEF UndocumentedImmediate
<1> HIDE DEF r
<1>6. UNCHANGED <<MachineType, OpCodes, y, s, ram, out, status>>
  BY DEF UndocumentedImmediate, Same
<1>7. r.val \in Byte /\ r.psr \in SUBSET Flags
  BY <1>4 DEF ResultType
<1> QED BY <1>1, <1>5, <1>6, <1>7 DEF TypeOK

LEMMA StepRegisterTypeOK == TypeOK /\ StepRegister => TypeOK'
<1> SUFFICES ASSUME TypeOK, StepRegister PROVE TypeOK'
  OBVIOUS
<1>1. pc' \in Int /\ -126 <= pc' /\ pc' <= 65790
  BY ExecutesInMemory, FallThroughRange DEF StepRegister
<1>2. \A v \in Byte : Lo(v + 1) \in Byte /\ Lo(v - 1) \in Byte
  BY ByteRange, LoByte
<1>3. \A v : SetZN(psr, v) \in SUBSET Flags
  BY SetFlags DEF TypeOK
<1> DEFINE r == CASE Op = "INX" -> Lo(x + 1) [] Op = "DEX" -> Lo(x - 1)
                  [] Op = "INY" -> Lo(y + 1) [] Op = "DEY" -> Lo(y - 1)
                  [] Op = "INA" -> Lo(a + 1) [] OTHER -> Lo(a - 1)
<1>4. r \in Byte
  BY <1>2 DEF TypeOK
<1>5. /\ x' = IF Op \in {"INX", "DEX"} THEN r ELSE x
      /\ y' = IF Op \in {"INY", "DEY"} THEN r ELSE y
      /\ a' = IF Op \in {"INA", "DEA"} THEN r ELSE a
      /\ psr' = SetZN(psr, r)
  BY DEF StepRegister
<1> HIDE DEF r
<1> QED BY <1>1, <1>3, <1>4, <1>5 DEF StepRegister, Same, TypeOK

LEMMA TransferTypeOK == TypeOK /\ Transfer => TypeOK'
<1> SUFFICES ASSUME TypeOK, Transfer PROVE TypeOK'
  OBVIOUS
<1>1. pc' \in Int /\ -126 <= pc' /\ pc' <= 65790
  BY ExecutesInMemory, FallThroughRange DEF Transfer
<1>2. \A v : SetZN(psr, v) \in SUBSET Flags
  BY SetFlags DEF TypeOK
<1> QED BY <1>1, <1>2 DEF Transfer, Same, TypeOK

LEMMA SetFlagTypeOK == TypeOK /\ SetFlag => TypeOK'
<1> SUFFICES ASSUME TypeOK, SetFlag PROVE TypeOK'
  OBVIOUS
<1>1. pc' \in Int /\ -126 <= pc' /\ pc' <= 65790
  BY ExecutesInMemory, FallThroughRange DEF SetFlag
<1>2. psr' \in SUBSET Flags
  BY DEF SetFlag, TypeOK, Flags
<1> QED BY <1>1, <1>2 DEF SetFlag, Same, TypeOK

LEMMA StackByte == TypeOK => \A k \in Int : Lo(s + k) \in Byte /\ s + k \in Int
<1> SUFFICES ASSUME TypeOK, NEW k \in Int PROVE Lo(s + k) \in Byte /\ s + k \in Int
  OBVIOUS
<1>1. s \in Int
  BY ByteRange DEF TypeOK
<1>2. s + k \in Int
  BY <1>1
<1> QED BY <1>2, LoByte

LEMMA PushTypeOK == TypeOK /\ Push => TypeOK'
<1> SUFFICES ASSUME TypeOK, Push PROVE TypeOK'
  OBVIOUS
<1>1. pc' \in Int /\ -126 <= pc' /\ pc' <= 65790
  BY ExecutesInMemory, FallThroughRange DEF Push
<1> DEFINE v == CASE Op = "PHA" -> a [] Op = "PHX" -> x [] Op = "PHY" -> y
                  [] OTHER -> PsrByte(psr \cup {"B", "U"})
<1>2. v \in Byte
  BY PsrByteByte DEF TypeOK
<1>3. ram' = Put(ram, Slot(s), v)
  BY DEF Push
<1> HIDE DEF v
<1>4. IsMemory(ram')
  BY <1>2, <1>3, SlotAddr, PutMemory, ByteRange DEF TypeOK
<1>5. s' \in Byte
  BY LoByte, ByteRange DEF Push, TypeOK
<1> QED BY <1>1, <1>4, <1>5 DEF Push, Same, TypeOK

LEMMA PullTypeOK == TypeOK /\ Pull => TypeOK'
<1> SUFFICES ASSUME TypeOK, Pull PROVE TypeOK'
  OBVIOUS
<1>1. pc' \in Int /\ -126 <= pc' /\ pc' <= 65790
  BY ExecutesInMemory, FallThroughRange DEF Pull
<1>2. Popped(1) \in Byte /\ BytePsr(Popped(1)) \in SUBSET Flags
  BY OperandBytesTyped, BytePsrFlags
<1>3. SetZN(psr, Popped(1)) \in SUBSET Flags
  BY SetFlags DEF TypeOK
<1>4. s' \in Byte
  BY LoByte, ByteRange DEF Pull, TypeOK
<1> QED BY <1>1, <1>2, <1>3, <1>4 DEF Pull, Same, TypeOK

-----------------------------------------------------------------------------
LEMMA BranchTypeOK == TypeOK /\ Branch => TypeOK'
<1> SUFFICES ASSUME TypeOK, Branch PROVE TypeOK'
  OBVIOUS
<1>1. pc \in Addr /\ B1 \in Byte
  BY ExecutesInMemory, OperandBytesTyped DEF Branch
<1>2. pc' \in Int /\ -126 <= pc' /\ pc' <= 65790
  BY <1>1, ByteRange, AddrRange DEF Branch, Signed
<1> QED BY <1>2 DEF Branch, Same, regs, TypeOK

LEMMA JumpTypeOK == TypeOK /\ Jump => TypeOK'
<1> SUFFICES ASSUME TypeOK, Jump PROVE TypeOK'
  OBVIOUS
<1>1. pc' \in Int /\ -126 <= pc' /\ pc' <= 65790
  BY ExecutesInMemory, EffectiveRange DEF Jump
<1>2. status' \in {"run", "exit", "wild"}
  BY DEF Jump, TypeOK
<1> QED BY <1>1, <1>2 DEF Jump, Same, regs, TypeOK

LEMMA JumpSubroutineTypeOK == TypeOK /\ JumpSubroutine => TypeOK'
<1> SUFFICES ASSUME TypeOK, JumpSubroutine PROVE TypeOK'
  OBVIOUS
<1>1. pc' \in Int /\ -126 <= pc' /\ pc' <= 65790
  BY ExecutesInMemory, EffectiveRange DEF JumpSubroutine
<1>2. IsMemory(ram') /\ s' \in Byte
  BY PushWordMemory, LoByte, ByteRange DEF JumpSubroutine, TypeOK
<1> QED BY <1>1, <1>2 DEF JumpSubroutine, Same, TypeOK

LEMMA ReturnsTypeOK == TypeOK /\ (ReturnSubroutine \/ ReturnInterrupt) => TypeOK'
<1> SUFFICES ASSUME TypeOK, ReturnSubroutine \/ ReturnInterrupt PROVE TypeOK'
  OBVIOUS
<1>1. pc' \in Int /\ -126 <= pc' /\ pc' <= 65790
  BY OperandBytesTyped, AddrRange DEF ReturnSubroutine, ReturnInterrupt
<1>2. s' \in Byte
  <2>1. Lo(s + 2) \in Byte /\ Lo(s + 3) \in Byte
    BY StackByte
  <2> QED BY <2>1 DEF ReturnSubroutine, ReturnInterrupt
<1>3. psr' \in SUBSET Flags
  BY BytePsrFlags DEF ReturnSubroutine, ReturnInterrupt, Same, TypeOK
<1> QED BY <1>1, <1>2, <1>3 DEF ReturnSubroutine, ReturnInterrupt, Same, TypeOK

LEMMA BreakTypeOK == TypeOK /\ Break => TypeOK'
<1> SUFFICES ASSUME TypeOK, Break PROVE TypeOK'
  OBVIOUS
<1>1. pc' \in Int /\ -126 <= pc' /\ pc' <= 65790
  <2>1. Word(Rd(\hfffe), Rd(\hffff)) \in Addr
    BY RdByte, WordAddr DEF TypeOK
  <2> QED BY <2>1, AddrRange DEF Break
<1>2. s \in Int /\ s - 2 \in Int /\ s - 3 \in Int /\ pc + 2 \in Int
  BY ByteRange DEF TypeOK
<1>3. IsMemory(PushWord(ram, s, pc + 2))
  BY <1>2, PushWordMemory DEF TypeOK
<1>4. IsMemory(ram')
  BY <1>2, <1>3, PutMemory, SlotAddr, PsrByteByte DEF Break
<1>5. s' \in Byte /\ psr' \in SUBSET Flags
  BY <1>2, LoByte DEF Break, TypeOK, Flags
<1> QED BY <1>1, <1>4, <1>5 DEF Break, Same, TypeOK

LEMMA QuietTypeOK == TypeOK /\ (Skip \/ LeaveMemory) => TypeOK'
<1> SUFFICES ASSUME TypeOK, Skip \/ LeaveMemory PROVE TypeOK'
  OBVIOUS
<1>1. pc' \in Int /\ -126 <= pc' /\ pc' <= 65790
  <2>1. CASE Skip
    BY <2>1, ExecutesInMemory, FallThroughRange DEF Skip
  <2>2. CASE LeaveMemory
    BY <2>2 DEF LeaveMemory, Same, TypeOK
  <2> QED BY <2>1, <2>2
<1> QED BY <1>1 DEF Skip, LeaveMemory, Same, regs, TypeOK

LEMMA NextTypeOK == TypeOK /\ [Next]_vars => TypeOK'
<1>1. TypeOK /\ UNCHANGED vars => TypeOK'
  BY DEF vars, regs, TypeOK
<1> QED BY <1>1, LoadTypeOK, StoreTypeOK, AccumulatorOpTypeOK, FlagOpsTypeOK,
           ModifyMemoryTypeOK, ModifyAccumulatorTypeOK, TestAndSetTypeOK,
           ModifyAndUseTypeOK, UndocumentedTypeOK, StepRegisterTypeOK, TransferTypeOK,
           SetFlagTypeOK, PushTypeOK, PullTypeOK, BranchTypeOK, JumpTypeOK,
           JumpSubroutineTypeOK, ReturnsTypeOK, BreakTypeOK, QuietTypeOK
        DEF Next

(* Every register keeps its width, every byte written is a byte, memory    *)
(* grows no cell outside WholeRam, and the program counter, which nothing  *)
(* masks, strays at most 126 below address 0 or 255 above the last.        *)
THEOREM RegistersKeepTheirWidth == Spec => []TypeOK
BY InitTypeOK, NextTypeOK, PTL DEF Spec

-----------------------------------------------------------------------------
(* The instructions that can make the simulator use an index outside       *)
(* WholeRam are those fetched at its end, (zp),Y with a pointer into the   *)
(* last page, and the indirect jumps whose vector ends past it.            *)
THEOREM OnlyIndirectionLeaves == Spec => []OnlyIndirectionLeavesMemory
<1>1. TypeOK => OnlyIndirectionLeavesMemory
  <2> SUFFICES ASSUME TypeOK, pc \in Addr, pc + Length(Mode) <= 65536,
                      ~(Mode = "indy" /\ Rd(B1 + 1) = 255),
                      ~(Mode = "ind" /\ Operand = 65535),
                      ~(Mode = "indax" /\ Operand + x >= 65535)
               PROVE  Accessed \subseteq Addr
    <3>1. Length(Mode) \in Int /\ (pc \in Addr => pc \in Int)
      BY LengthRange, AddrRange
    <3> QED BY <3>1 DEF OnlyIndirectionLeavesMemory, Wild, TypeOK
  <2>1. pc \in Int /\ 0 <= pc /\ pc <= 65535 /\ Length(Mode) \in 1..3
    BY LengthRange, AddrRange
  <2>2. x \in Int /\ 0 <= x /\ x <= 255 /\ y \in Int /\ 0 <= y /\ y <= 255
    BY ByteRange DEF TypeOK
  <2>3. B1 \in Byte /\ B1 \in Int /\ 0 <= B1 /\ B1 <= 255
    BY OperandBytesTyped, ByteRange
  <2>4. Operand \in Addr /\ Operand \in Int /\ 0 <= Operand /\ Operand <= 65535
    BY OperandBytesTyped, AddrRange
  <2>5. OperandBytes \subseteq Addr
    <3>1. CASE Mode = "rel"
      <4>1. Length(Mode) = 2
        BY <3>1 DEF Length
      <4> QED BY <3>1, <4>1, <2>1, AddrRange DEF OperandBytes
    <3>2. CASE Mode # "rel"
      <4>1. \A c \in pc + 1 .. pc + Length(Mode) - 1 : c \in Addr
        BY <2>1, AddrRange
      <4> QED BY <3>2, <4>1 DEF OperandBytes
    <3> QED BY <3>1, <3>2
  <2>6. Vector \subseteq Addr
    <3>1. CASE Mode = "ind"
      <4>1. VectorHigh \in Addr
        BY <3>1, <2>4, AddrRange DEF VectorHigh, Lo
      <4> QED BY <3>1, <4>1, <2>4 DEF Vector
    <3>2. CASE Mode = "indax"
      BY <3>2, <2>2, <2>4, AddrRange DEF Vector
    <3>3. CASE Mode \notin {"ind", "indax"}
      BY <3>3 DEF Vector
    <3> QED BY <3>1, <3>2, <3>3
  <2>7. \A z : Pointer(z) \in Addr
    BY PointerAddr DEF TypeOK
  <2>8. EffectiveAddress \in Addr
    <3>1. CASE Mode = "imm"
      <4>1. Length(Mode) = 2
        BY <3>1 DEF Length
      <4> QED BY <3>1, <4>1, <2>1, AddrRange DEF EffectiveAddress, AddressIn
    <3>2. CASE Mode = "indy"
      <4>1. Rd(B1) \in Int /\ Rd(B1) <= 255 /\ Rd(B1 + 1) \in Int /\ 0 <= Rd(B1 + 1) /\ Rd(B1 + 1) <= 254 /\ 0 <= Rd(B1)
        BY <3>2, RdByte, ByteRange DEF TypeOK
      <4>2. Pointer(B1) + y \in Addr
        BY <4>1, <2>2, AddrRange DEF Pointer, Word
      <4> QED BY <3>2, <4>2 DEF EffectiveAddress, AddressIn
    <3>3. CASE Mode \notin {"imm", "indy"}
      <4>1. /\ Lo(B1 + x) \in Addr /\ Lo(B1 + y) \in Addr /\ B1 \in Addr
            /\ Indexed(Operand, x) \in Addr /\ Indexed(Operand, y) \in Addr
        BY <2>2, <2>3, <2>4, AddrRange DEF Lo, Indexed
      <4>2. Word(Rd(Operand), Rd(VectorHigh)) \in Addr
        BY RdByte, WordAddr DEF TypeOK
      <4> QED BY <3>3, <4>1, <4>2, <2>4, <2>7 DEF EffectiveAddress, AddressIn
    <3> QED BY <3>1, <3>2, <3>3
  <2> QED BY <2>5, <2>6, <2>8 DEF Accessed, Target
<1> QED BY <1>1, RegistersKeepTheirWidth, PTL

-----------------------------------------------------------------------------
(* A flag set survives being pushed as a byte and pulled back.             *)
LEMMA FlagBits ==
    ASSUME NEW p \in SUBSET Flags, NEW w \in Weights
    PROVE  BitSet(PsrByte(p), w) <=> FlagOf(w) \in p
<1> DEFINE b(k) == IF FlagOf(k) \in p THEN 1 ELSE 0
<1>1. PsrByte(p) = b(1) + 2 * b(2) + 4 * b(4) + 8 * b(8) + 16 * b(16)
                     + 32 * b(32) + 64 * b(64) + 128 * b(128)
  BY DEF PsrByte, OfBits, Sel
<1>2. \A k : b(k) \in {0, 1}
  OBVIOUS
<1>3. b(w) = 1 <=> FlagOf(w) \in p
  OBVIOUS
<1> HIDE DEF b
<1>4. BitSet(PsrByte(p), w) <=> b(w) = 1
  <2>1. CASE w = 1
    BY <2>1, <1>1, <1>2 DEF BitSet
  <2>2. CASE w = 2
    BY <2>2, <1>1, <1>2 DEF BitSet
  <2>3. CASE w = 4
    BY <2>3, <1>1, <1>2 DEF BitSet
  <2>4. CASE w = 8
    BY <2>4, <1>1, <1>2 DEF BitSet
  <2>5. CASE w = 16
    BY <2>5, <1>1, <1>2 DEF BitSet
  <2>6. CASE w = 32
    BY <2>6, <1>1, <1>2 DEF BitSet
  <2>7. CASE w = 64
    BY <2>7, <1>1, <1>2 DEF BitSet
  <2>8. CASE w = 128
    BY <2>8, <1>1, <1>2 DEF BitSet
  <2> QED BY <2>1, <2>2, <2>3, <2>4, <2>5, <2>6, <2>7, <2>8 DEF Weights
<1> QED BY <1>3, <1>4

LEMMA PsrRoundTrip == \A p \in SUBSET Flags : BytePsr(PsrByte(p)) = p
<1> SUFFICES ASSUME NEW p \in SUBSET Flags PROVE BytePsr(PsrByte(p)) = p
  OBVIOUS
<1>1. BytePsr(PsrByte(p)) = {FlagOf(w) : w \in {k \in Weights : FlagOf(k) \in p}}
  BY FlagBits DEF BytePsr
<1>2. \A f \in Flags : \E w \in Weights : f = FlagOf(w)
  BY DEF Flags, FlagOf, Weights
<1> QED BY <1>1, <1>2

(* What PushWord writes is what PopWord reads.                             *)
LEMMA PushedWord ==
    ASSUME NEW m, NEW sp \in Byte, NEW w \in Int
    PROVE  LET n == PushWord(m, sp, w)
           IN  /\ Slot(sp) \in DOMAIN n /\ n[Slot(sp)] = Hi(w)
               /\ Slot(sp - 1) \in DOMAIN n /\ n[Slot(sp - 1)] = Lo(w)
               /\ Slot(sp - 2) # Slot(sp) /\ Slot(sp - 2) # Slot(sp - 1)
<1>1. /\ Slot(sp) # Slot(sp - 1) /\ Slot(sp - 2) # Slot(sp)
      /\ Slot(sp - 2) # Slot(sp - 1)
  BY ByteRange DEF Slot
<1> QED BY <1>1 DEF PushWord, Put

LEMMA HalvesMakeWord == \A w \in Int : Word(Lo(w), Hi(w)) = w % 65536
BY DEF Word, Lo, Hi

(* What a call or a break pushes is what the return pops, for every stack  *)
(* pointer: nothing a program sets it to makes the two disagree.           *)
THEOREM CallThenReturn == Spec => EntryCanBeUndone
<1>1. ASSUME TypeOK, JumpSubroutine
      PROVE  PoppedWord(1)' = (pc + 2) % 65536 /\ Lo(s' + 2) = s
  <2>1. s \in Byte /\ s \in Int /\ pc + 2 \in Int
    BY <1>1, ByteRange DEF TypeOK
  <2>2. ram' = PushWord(ram, s, pc + 2) /\ s' = Lo(s - 2)
    BY <1>1 DEF JumpSubroutine
  <2>3. Slot(s' + 1) = Slot(s - 1) /\ Slot(s' + 2) = Slot(s) /\ Lo(s' + 2) = s
    BY <2>1, <2>2, ByteRange DEF Slot, Lo
  <2>4. Popped(1)' = Lo(pc + 2) /\ Popped(2)' = Hi(pc + 2)
    BY <2>1, <2>2, <2>3, PushedWord DEF Popped, Rd
  <2> QED BY <2>1, <2>3, <2>4, HalvesMakeWord DEF PoppedWord
<1>2. ASSUME TypeOK, Break
      PROVE  /\ PoppedWord(2)' = (pc + 2) % 65536 /\ Lo(s' + 3) = s
             /\ BytePsr(Popped(1)') = psr \cup {"B"}
  <2>1. s \in Byte /\ s \in Int /\ pc + 2 \in Int
    BY <1>2, ByteRange DEF TypeOK
  <2>2. /\ ram' = Put(PushWord(ram, s, pc + 2), Slot(s - 2), PsrByte(psr \cup {"B"}))
        /\ s' = Lo(s - 3)
    BY <1>2 DEF Break
  <2>3. /\ Slot(s' + 1) = Slot(s - 2) /\ Slot(s' + 2) = Slot(s - 1)
        /\ Slot(s' + 3) = Slot(s) /\ Lo(s' + 3) = s
    BY <2>1, <2>2, ByteRange DEF Slot, Lo
  <2>4. Popped(2)' = Lo(pc + 2) /\ Popped(3)' = Hi(pc + 2)
    BY <2>1, <2>2, <2>3, PushedWord DEF Popped, Rd, Put
  <2>5. Popped(1)' = PsrByte(psr \cup {"B"})
    BY <2>2, <2>3 DEF Popped, Rd, Put
  <2>6. psr \cup {"B"} \in SUBSET Flags
    BY <1>2 DEF TypeOK, Flags
  <2> QED BY <2>1, <2>3, <2>4, <2>5, <2>6, HalvesMakeWord, PsrRoundTrip DEF PoppedWord
<1> QED BY <1>1, <1>2, RegistersKeepTheirWidth, PTL DEF Spec, EntryCanBeUndone

-----------------------------------------------------------------------------
(* Which instructions change I.                                            *)
LEMMA FlagsKeepI ==
    \A p : "I" \in p =>
        /\ \A v : "I" \in SetZN(p, v)
        /\ \A c, v : "I" \in SetCZN(p, c, v)
        /\ \A c, o, z, n : "I" \in SetArith(p, c, o, z, n)
        /\ \A r, v : "I" \in Compare(p, r, v)
        /\ \A r, v : "I" \in BitTest(p, r, v)
        /\ \A r, v : "I" \in TestZ(p, r, v)
BY DEF SetZN, SetCZN, SetArith, CVZN, Compare, BitTest, TestZ, When

LEMMA AccumulateKeepsI ==
    ASSUME NEW op, NEW p, NEW r, NEW v, "I" \in p
    PROVE  "I" \in Accumulate(op, p, r, v).psr
<1>1. "I" \in Adc(p, r, v).psr
  BY FlagsKeepI DEF Adc, AdcBinary, AdcDecimal, Result
<1>2. "I" \in Sbc(p, r, v).psr
  BY FlagsKeepI DEF Sbc, SbcBinary, SbcDecimal, Result
<1>3. \A w : "I" \in Logic(p, w).psr
  BY FlagsKeepI DEF Logic, Result
<1> QED BY <1>1, <1>2, <1>3 DEF Accumulate

LEMMA ModifyKeepsI ==
    ASSUME NEW op, NEW p, NEW v, "I" \in p
    PROVE  "I" \in Modify(op, p, v).psr
<1>1. \A c, w : "I" \in Shift(p, c, w).psr
  BY FlagsKeepI DEF Shift, Result
<1>2. \A w : "I" \in Logic(p, w).psr
  BY FlagsKeepI DEF Logic, Result
<1> QED BY <1>1, <1>2 DEF Modify

(* Only CLI, PLP and RTI clear I.                                          *)
LEMMA WhoClearsI ==
    ASSUME Next, "I" \in psr, "I" \notin psr'
    PROVE  Op \in {"CLI", "PLP", "RTI"}
<1>1. CASE Load \/ StepRegister \/ Transfer \/ CompareOp \/ Bit \/ TestAndSet
  BY <1>1, FlagsKeepI DEF Load, StepRegister, Transfer, CompareOp, Bit, TestAndSet
<1>2. CASE AccumulatorOp
  BY <1>2, AccumulateKeepsI DEF AccumulatorOp
<1>3. CASE ModifyMemory \/ ModifyAccumulator
  BY <1>3, ModifyKeepsI DEF ModifyMemory, ModifyAccumulator
<1>4. CASE ModifyAndUse
  <2>1. "I" \in Modify(Pair(Op)[1], psr, Data).psr
    BY ModifyKeepsI
  <2> DEFINE r == Modify(Pair(Op)[1], psr, Data)
  <2>2. "I" \in Accumulate(Pair(Op)[2], r.psr, a, r.val).psr
    BY <2>1, AccumulateKeepsI
  <2>3. "I" \in Result(a, Compare(r.psr, a, r.val)).psr
    BY <2>1, FlagsKeepI DEF Result
  <2> QED BY <1>4, <2>2, <2>3 DEF ModifyAndUse
<1>5. CASE UndocumentedImmediate
  <2>1. \A m : "I" \in SetZN(psr, m) /\ "I" \in SetZN(psr, m) \cup When("C", m >= 128)
    BY FlagsKeepI
  <2>2. /\ \A op, m : "I" \in Modify(op, SetZN(psr, m), m).psr
        /\ \A m : "I" \in Logic(psr, m).psr
        /\ \A u, v : "I" \in Sbc(psr, u, v).psr
    <3>1. \A op, m : "I" \in Modify(op, SetZN(psr, m), m).psr
      BY <2>1, ModifyKeepsI
    <3>2. \A u, v : "I" \in Accumulate("SBC", psr, u, v).psr
      BY AccumulateKeepsI
    <3> QED BY <3>1, <3>2, FlagsKeepI DEF Accumulate, Logic, Result
  <2> QED BY <1>5, <2>1, <2>2 DEF UndocumentedImmediate, Result
<1>6. CASE SetFlag
  BY <1>6 DEF SetFlag, Executes
<1>7. CASE Pull
  BY <1>7, FlagsKeepI DEF Pull, Executes
<1>8. CASE ReturnInterrupt
  BY <1>8 DEF ReturnInterrupt, Executes
<1>9. CASE Break
  BY <1>9 DEF Break
<1>10. CASE Store \/ Push \/ Branch \/ Jump \/ JumpSubroutine \/ ReturnSubroutine
              \/ Skip \/ LeaveMemory
  BY <1>10 DEF Store, Push, Branch, Jump, JumpSubroutine, ReturnSubroutine, Skip,
               LeaveMemory, Same, regs
<1> QED BY <1>1, <1>2, <1>3, <1>4, <1>5, <1>6, <1>7, <1>8, <1>9, <1>10 DEF Next

-----------------------------------------------------------------------------
(* What the test for IRQ knows of the instruction before it.               *)
MaskInv ==
    phase = "irq" /\ wasMasked => ~iFlagJustSet /\ ("I" \notin psr => iFlagJustCleared)

LEMMA MaskInvKept == MaskInv /\ [IntNext]_ivars => MaskInv'
<1> SUFFICES ASSUME MaskInv, [IntNext]_ivars PROVE MaskInv'
  OBVIOUS
<1>1. CASE Execute
  <2>1. CASE wasMasked'
    <3>1. "I" \in psr /\ Op # "RTI"
      BY <1>1, <2>1 DEF Execute
    <3>2. "I" \notin psr' => Op \in {"CLI", "PLP"}
      BY <1>1, <3>1, WhoClearsI DEF Execute
    <3>3. ~iFlagJustSet' /\ ("I" \notin psr' => iFlagJustCleared')
      BY <1>1, <3>1, <3>2 DEF Execute, NotesMask
    <3> QED BY <3>3 DEF MaskInv
  <2>2. CASE ~wasMasked'
    BY <2>2 DEF MaskInv
  <2> QED BY <2>1, <2>2
<1>2. CASE Fetch \/ TakeIrq \/ PassIrq \/ TakeNmi \/ EndInstruction
  <2>1. phase' # "irq"
    BY <1>2 DEF Fetch, TakeIrq, PassIrq, TakeNmi, EndInstruction
  <2> QED BY <2>1 DEF MaskInv
<1>3. CASE RaiseIrq \/ RaiseNmi
  BY <1>3 DEF RaiseIrq, RaiseNmi, MaskInv, nestVars, vars, regs, justs
<1>4. CASE UNCHANGED ivars
  BY <1>4 DEF MaskInv, ivars, nestVars, vars, regs, justs
<1> QED BY <1>1, <1>2, <1>3, <1>4 DEF IntNext, Run

(* No IRQ interrupts a program before the instruction behind the one that  *)
(* cleared I, unless that was an RTI.                                      *)
THEOREM IrqsSeeTheOldMask == IntSpec => IrqSeesOldMask
<1>1. IntInit => MaskInv
  BY DEF IntInit, MaskInv
<1>2. MaskInv /\ TakeIrq => ~wasMasked
  BY DEF MaskInv, TakeIrq, IrqOpen
<1> QED BY <1>1, <1>2, MaskInvKept, PTL DEF IntSpec, IrqSeesOldMask

-----------------------------------------------------------------------------
(* Types.  The core's own steps keep TypeOK; the entry into a handler is   *)
(* one more step that moves registers and memory.                          *)
LEMMA EnterTypeOK ==
    ASSUME TypeOK, NEW kind, NEW flags, NEW vector, Enter(kind, flags, vector)
    PROVE  TypeOK'
<1>1. s \in Int /\ s - 2 \in Int /\ s - 3 \in Int /\ pc \in Int
  BY ByteRange DEF TypeOK
<1>2. pc' \in Int /\ -126 <= pc' /\ pc' <= 65790
  <2>1. Pointer(vector) \in Addr
    BY PointerAddr DEF TypeOK
  <2> QED BY <2>1, AddrRange DEF Enter
<1>3. IsMemory(ram')
  <2>1. IsMemory(PushWord(ram, s, pc))
    BY <1>1, PushWordMemory DEF TypeOK
  <2>2. Slot(s - 2) \in Addr /\ PsrByte(flags) \in Byte
    BY <1>1, SlotAddr, PsrByteByte
  <2>3. ram' = Put(PushWord(ram, s, pc), Slot(s - 2), PsrByte(flags))
    BY DEF Enter, Interrupted
  <2> QED BY <2>1, <2>2, <2>3, PutMemory
<1>4. s' \in Byte /\ psr' \subseteq Flags
  BY <1>1, LoByte DEF Enter, Masking, TypeOK, Flags
<1> QED BY <1>2, <1>3, <1>4 DEF Enter, Same, TypeOK

LEMMA CountdownValues ==
    /\ NO_TIMER_INT_DUE \in Int /\ 0 \in 0..MaxNmis
    /\ \A d \in Delays : d \in Int
BY CountdownAssumption

LEMMA IntNextTypeOK == IntTypeOK /\ [IntNext]_ivars => IntTypeOK'
<1> SUFFICES ASSUME IntTypeOK, [IntNext]_ivars PROVE IntTypeOK'
  OBVIOUS
<1>1. TypeOK'
  <2>1. CASE Execute
    BY <2>1, NextTypeOK DEF Execute, IntTypeOK
  <2>2. CASE TakeIrq \/ TakeNmi
    BY <2>2, EnterTypeOK DEF TakeIrq, TakeNmi, DoInterrupt, DoNMI, IntTypeOK
  <2>3. CASE Fetch \/ PassIrq \/ EndInstruction \/ RaiseIrq \/ RaiseNmi \/ UNCHANGED ivars
    <3>1. UNCHANGED vars
      BY <2>3 DEF Fetch, PassIrq, EndInstruction, RaiseIrq, RaiseNmi, ivars, nestVars
    <3> QED BY <3>1, NextTypeOK DEF IntTypeOK
  <2> QED BY <2>1, <2>2, <2>3 DEF IntNext, Run
<1>2. \A n \in CyclesPerPoll : Elapsed(n) \in Int
  BY CountdownAssumption DEF Elapsed, IntTypeOK
<1>3. \A due \in BOOLEAN, c \in Int : /\ DoIntCheck(due, c).due \in BOOLEAN
                                      /\ DoIntCheck(due, c).cycles \in Int
  BY CountdownAssumption DEF DoIntCheck
<1> USE DEF IntTypeOK, lines, nmi, countdown, justs
<1>4. CASE Fetch
  BY <1>1, <1>2, <1>3, <1>4 DEF Fetch, Phases
<1>5. CASE Execute
  <2>1. CyclesToInt' \in Int
    BY <1>2, <1>5 DEF Execute
  <2>2. iFlagJustSet' \in BOOLEAN /\ iFlagJustCleared' \in BOOLEAN /\ wasMasked' \in BOOLEAN
    BY <1>5, Zenon DEF Execute
  <2>3. intStatus' \subseteq IRQ_Nums /\ NMIStatus' \subseteq NMI_Nums /\ NMILock' \in {0, 1}
    BY <1>5 DEF Execute
  <2> QED BY <1>1, <1>5, <2>1, <2>2, <2>3 DEF Execute, Phases
<1>6. CASE TakeIrq
  <2>1. CyclesToInt' \in Int /\ IntDue' \in BOOLEAN
    BY <1>3, <1>6, CountdownValues, Zenon DEF TakeIrq
  <2> QED BY <1>1, <1>6, <2>1 DEF TakeIrq, Phases
<1>7. CASE PassIrq
  BY <1>1, <1>3, <1>7 DEF PassIrq, Phases
<1>8. CASE TakeNmi
  BY <1>1, <1>2, <1>8 DEF TakeNmi, DoNMI, Phases
<1>9. CASE EndInstruction
  BY <1>1, <1>9 DEF EndInstruction, Phases
<1>10. CASE RaiseIrq
  <2>1. CyclesToInt' \in Int
    BY <1>10, CountdownValues DEF RaiseIrq
  <2> QED BY <1>1, <1>10, <2>1 DEF RaiseIrq
<1>11. CASE RaiseNmi
  BY <1>1, <1>11, CountdownAssumption DEF RaiseNmi
<1>12. CASE UNCHANGED ivars
  BY <1>1, <1>12 DEF ivars
<1> QED BY <1>4, <1>5, <1>6, <1>7, <1>8, <1>9, <1>10, <1>11, <1>12 DEF IntNext, Run

(* With interrupts too registers keep their width, wherever in its page    *)
(* the stack is when a handler is entered.                                 *)
THEOREM InterruptsKeepTypes == IntSpec => []IntTypeOK
<1>1. IntInit => IntTypeOK
  <2> SUFFICES ASSUME IntInit PROVE IntTypeOK
    OBVIOUS
  <2>1. TypeOK
    BY InitTypeOK DEF IntInit, NestInit
  <2> QED BY <2>1, CountdownValues DEF IntInit, IntTypeOK, Phases
<1> QED BY <1>1, IntNextTypeOK, PTL DEF IntSpec

-----------------------------------------------------------------------------
(* The flags that an entry leaves on top of the stack.                     *)
LEMMA EnteredFlags ==
    ASSUME TypeOK, NEW kind, NEW flags \in SUBSET Flags, NEW vector, Enter(kind, flags, vector)
    PROVE  BytePsr(Popped(1)') = flags
<1>1. s \in Byte /\ s \in Int
  BY ByteRange DEF TypeOK
<1>2. Slot(s' + 1) = Slot(s - 2)
  BY <1>1, ByteRange DEF Enter, Slot, Lo
<1>3. ram' = Put(PushWord(ram, s, pc), Slot(s - 2), PsrByte(flags))
  BY DEF Enter, Interrupted
<1>4. Popped(1)' = PsrByte(flags)
  BY <1>2, <1>3 DEF Popped, Rd, Put
<1> QED BY <1>4, PsrRoundTrip

LEMMA OnlyBreakBreaks ==
    ASSUME TypeOK, Next, Op = "BRK", status' = "run"
    PROVE  Break
<1>1. ~LeaveMemory
  BY DEF LeaveMemory
<1>2. ~(Load \/ Store \/ AccumulatorOp \/ CompareOp \/ Bit \/ ModifyMemory \/ ModifyAccumulator)
  BY DEF Load, Store, AccumulatorOp, CompareOp, Bit, ModifyMemory, ModifyAccumulator, Executes
<1>3. ~(TestAndSet \/ ModifyAndUse \/ UndocumentedImmediate \/ StepRegister \/ Transfer)
  BY DEF TestAndSet, ModifyAndUse, UndocumentedImmediate, StepRegister, Transfer, Executes
<1>4. ~(SetFlag \/ Push \/ Pull \/ Branch \/ Jump \/ JumpSubroutine)
  BY DEF SetFlag, Push, Pull, Branch, Jump, JumpSubroutine, Executes
<1>5. ~(ReturnSubroutine \/ ReturnInterrupt \/ Skip)
  BY DEF ReturnSubroutine, ReturnInterrupt, Skip, Executes
<1> QED BY <1>1, <1>2, <1>3, <1>4, <1>5 DEF Next

(* B in the flags on the stack tells a break from an IRQ, whatever B is in *)
(* the live flags and wherever the stack is in its page; an NMI, which     *)
(* does not share their handler, leaves there what is in the live flags.   *)
THEOREM HandlersTellBreaks == IntSpec => BreakToldFromIrq
<1>1. IntTypeOK /\ TakeIrq => "B" \notin BytePsr(Popped(1)')
  <2> SUFFICES ASSUME IntTypeOK, TakeIrq PROVE "B" \notin BytePsr(Popped(1)')
    OBVIOUS
  <2>1. psr \ {"B"} \in SUBSET Flags
    BY DEF IntTypeOK, TypeOK
  <2>2. BytePsr(Popped(1)') = psr \ {"B"}
    BY <2>1, EnteredFlags DEF TakeIrq, DoInterrupt, IntTypeOK
  <2> QED BY <2>2
<1>2. IntTypeOK /\ Execute /\ Op = "BRK" /\ status' = "run" => "B" \in BytePsr(Popped(1)')
  <2> SUFFICES ASSUME IntTypeOK, Execute, Op = "BRK", status' = "run"
               PROVE  "B" \in BytePsr(Popped(1)')
    OBVIOUS
  <2>1. Break
    BY OnlyBreakBreaks DEF Execute, IntTypeOK
  <2>2. s \in Byte /\ s \in Int
    BY ByteRange DEF IntTypeOK, TypeOK
  <2>3. Slot(s' + 1) = Slot(s - 2)
    BY <2>1, <2>2, ByteRange DEF Break, Slot, Lo
  <2>4. Popped(1)' = PsrByte(psr \cup {"B"})
    BY <2>1, <2>3 DEF Break, Popped, Rd, Put
  <2>5. psr \cup {"B"} \in SUBSET Flags
    BY DEF IntTypeOK, TypeOK, Flags
  <2> QED BY <2>4, <2>5, PsrRoundTrip
<1>3. IntTypeOK /\ TakeNmi => ("B" \in BytePsr(Popped(1)') <=> "B" \in psr)
  <2> SUFFICES ASSUME IntTypeOK, TakeNmi
               PROVE  "B" \in BytePsr(Popped(1)') <=> "B" \in psr
    OBVIOUS
  <2>1. psr \in SUBSET Flags
    BY DEF IntTypeOK, TypeOK
  <2>2. BytePsr(Popped(1)') = psr
    BY <2>1, EnteredFlags DEF TakeNmi, DoNMI, IntTypeOK
  <2> QED BY <2>2
<1> QED BY <1>1, <1>2, <1>3, InterruptsKeepTypes, PTL DEF IntSpec, BreakToldFromIrq
-----------------------------------------------------------------------------
(* IRQ handlers in handlers.  What nests is up to the program: the theorem *)
(* is about one whose handlers return to what they interrupted             *)
(* (HandlersReturn) and leave I set while an IRQ is being served.          *)
IrqPending == \E k \in DOMAIN frames : frames[k].kind = "IRQ"
HandlersKeepMask == [][Execute /\ Op # "RTI" /\ IrqPending => "I" \in psr']_ivars

(* While an IRQ is served I is set, and so it is in the flags that every   *)
(* handler above will restore.                                             *)
FrameType == [kind : {"BRK", "IRQ", "NMI"}, ret : Int, s : Int, psr : SUBSET Flags,
              serves : SUBSET NMI_Nums]
AboveIrqs ==
    \A k, l \in DOMAIN frames : frames[k].kind = "IRQ" /\ k < l =>
        frames[l].kind # "IRQ" /\ "I" \in frames[l].psr
ServedMasked ==
    /\ frames \in Seq(FrameType)
    /\ AboveIrqs
    /\ IrqPending => "I" \in psr
    /\ phase = "irq" /\ IrqPending => ~iFlagJustSet

LEMMA Entered ==
    ASSUME ServedMasked, NEW f \in FrameType, frames' = Append(frames, f),
           IrqPending => f.kind # "IRQ" /\ "I" \in f.psr
    PROVE  frames' \in Seq(FrameType) /\ AboveIrqs' /\ (f.kind # "IRQ" => (IrqPending' <=> IrqPending))
<1>1. frames \in Seq(FrameType) /\ Len(frames) \in Nat /\ DOMAIN frames = 1 .. Len(frames)
  BY DEF ServedMasked
<1>2. /\ frames' \in Seq(FrameType) /\ DOMAIN frames' = 1 .. Len(frames) + 1
      /\ frames'[Len(frames) + 1] = f
      /\ \A k \in 1 .. Len(frames) : frames'[k] = frames[k]
  BY <1>1
<1>3. AboveIrqs'
  <2> SUFFICES ASSUME NEW k \in DOMAIN frames', NEW l \in DOMAIN frames',
                      frames'[k].kind = "IRQ", k < l
               PROVE  frames'[l].kind # "IRQ" /\ "I" \in frames'[l].psr
    BY DEF AboveIrqs
  <2>1. k \in DOMAIN frames /\ frames[k].kind = "IRQ" BY <1>1, <1>2
  <2>2. CASE l \in DOMAIN frames
    BY <1>1, <1>2, <2>1, <2>2 DEF ServedMasked, AboveIrqs
  <2>3. CASE l = Len(frames) + 1
    BY <1>2, <2>1, <2>3 DEF IrqPending
  <2> QED BY <1>1, <1>2, <2>2, <2>3
<1>4. ASSUME f.kind # "IRQ" PROVE IrqPending' <=> IrqPending
  BY <1>1, <1>2, <1>4 DEF IrqPending
<1> QED BY <1>2, <1>3, <1>4

LEMMA Left ==
    ASSUME ServedMasked, frames # <<>>, frames' = SubSeq(frames, 1, Len(frames) - 1)
    PROVE  frames' \in Seq(FrameType) /\ AboveIrqs' /\ (IrqPending' => "I" \in Pending.psr /\ IrqPending)
<1>1. frames \in Seq(FrameType) /\ Len(frames) \in Nat \ {0} /\ DOMAIN frames = 1 .. Len(frames)
  BY DEF ServedMasked
<1>2. /\ frames' \in Seq(FrameType) /\ DOMAIN frames' = 1 .. Len(frames) - 1
      /\ \A k \in 1 .. Len(frames) - 1 : frames'[k] = frames[k]
  BY <1>1
<1>3. AboveIrqs'
  BY <1>1, <1>2 DEF ServedMasked, AboveIrqs
<1>4. ASSUME IrqPending' PROVE "I" \in Pending.psr /\ IrqPending
  <2>1. PICK k \in DOMAIN frames' : frames'[k].kind = "IRQ" BY <1>4 DEF IrqPending
  <2>2. /\ k \in DOMAIN frames /\ frames[k].kind = "IRQ" /\ k < Len(frames)
        /\ Len(frames) \in DOMAIN frames
    BY <1>1, <1>2, <2>1
  <2> QED BY <2>2 DEF ServedMasked, AboveIrqs, IrqPending, Pending
<1> QED BY <1>2, <1>3, <1>4

LEMMA OnlyRtiReturns ==
    ASSUME Next, Op = "RTI"
    PROVE  ReturnInterrupt \/ LeaveMemory
<1>1. ~(Load \/ Store \/ AccumulatorOp \/ CompareOp \/ Bit \/ ModifyMemory \/ ModifyAccumulator)
  BY DEF Load, Store, AccumulatorOp, CompareOp, Bit, ModifyMemory, ModifyAccumulator, Executes
<1>2. ~(TestAndSet \/ ModifyAndUse \/ UndocumentedImmediate \/ StepRegister \/ Transfer)
  BY DEF TestAndSet, ModifyAndUse, UndocumentedImmediate, StepRegister, Transfer, Executes
<1>3. ~(SetFlag \/ Push \/ Pull \/ Branch \/ Jump \/ JumpSubroutine)
  BY DEF SetFlag, Push, Pull, Branch, Jump, JumpSubroutine, Executes
<1>4. ~(ReturnSubroutine \/ Break \/ Skip)
  BY DEF ReturnSubroutine, Break, Skip, Executes
<1> QED BY <1>1, <1>2, <1>3, <1>4 DEF Next

(* What the program is asked to do, of one step. *)
KeepsMask == Execute /\ Op # "RTI" /\ IrqPending => "I" \in psr'
Restores == Execute /\ Op = "RTI" /\ status' = "run" => frames # <<>> /\ psr' = Pending.psr

LEMMA ServedMaskedKept ==
    ASSUME IntTypeOK, ServedMasked, [IntNext]_ivars, KeepsMask, Restores
    PROVE  ServedMasked'
<1>1. CASE Execute
  <2>0. phase = "execute" BY <1>1 DEF Execute
  <2>1. CASE Op = "RTI" /\ status' # "wild" /\ frames # <<>>
    <3>1. frames' = SubSeq(frames, 1, Len(frames) - 1) BY <1>1, <2>1 DEF Execute
    <3>2. ReturnInterrupt BY <1>1, <2>1, OnlyRtiReturns DEF Execute, LeaveMemory
    <3>3. status' = "run" BY <3>2 DEF ReturnInterrupt, Executes, Same
    <3>4. psr' = Pending.psr BY <1>1, <2>1, <3>3 DEF Restores
    <3>5. ~iFlagJustSet' BY <1>1, <2>1 DEF Execute, NotesMask
    <3> QED BY <2>1, <3>1, <3>4, <3>5, Left DEF ServedMasked
  <2>2. CASE Op = "BRK" /\ status' # "wild"
    <3> DEFINE f == [kind |-> "BRK", ret |-> pc + 2, s |-> s, psr |-> psr \cup {"B"}, serves |-> {}]
    <3>1. frames' = Append(frames, f) BY <1>1, <2>2 DEF Execute
    <3>2. f \in FrameType BY ByteRange DEF FrameType, IntTypeOK, TypeOK, Flags
    <3>3. f.kind = "BRK" /\ (IrqPending => "I" \in f.psr) BY DEF ServedMasked
    <3> HIDE DEF f
    <3>4. frames' \in Seq(FrameType) /\ AboveIrqs' /\ (IrqPending' <=> IrqPending)
      BY <3>1, <3>2, <3>3, Entered
    <3>5. IrqPending => "I" \in psr' BY <1>1, <2>2 DEF KeepsMask
    <3>6. ~iFlagJustSet' BY <1>1, <2>2 DEF Execute, NotesMask
    <3> QED BY <3>4, <3>5, <3>6 DEF ServedMasked
  <2>3. CASE ~(Op = "RTI" /\ status' # "wild" /\ frames # <<>>) /\ ~(Op = "BRK" /\ status' # "wild")
    <3>1. frames' = frames
      <4>1. CASE status' = "wild" BY <1>1, <4>1 DEF Execute
      <4>2. CASE status' # "wild" /\ Op # "BRK" /\ Op # "RTI" BY <1>1, <4>2 DEF Execute
      <4>3. CASE status' # "wild" /\ Op # "BRK" /\ frames = <<>> BY <1>1, <4>3 DEF Execute
      <4> QED BY <2>3, <4>1, <4>2, <4>3
    <3>2. ASSUME IrqPending PROVE "I" \in psr' /\ ~iFlagJustSet'
      <4>1. "I" \in psr BY <3>2 DEF ServedMasked
      <4>2. ~iFlagJustSet' BY <1>1, <4>1 DEF Execute
      <4>3. CASE Op # "RTI" BY <1>1, <3>2, <4>2, <4>3 DEF KeepsMask
      <4>4. CASE Op = "RTI"
        <5>1. frames # <<>> BY <3>2 DEF IrqPending
        <5>2. status' = "wild" BY <2>3, <4>4, <5>1
        <5>3. LeaveMemory
          BY <1>1, <4>4, <5>2, OnlyRtiReturns DEF Execute, ReturnInterrupt, Executes, Same
        <5> QED BY <4>1, <4>2, <5>3 DEF LeaveMemory, Same, regs
      <4> QED BY <4>2, <4>3, <4>4
    <3> QED BY <3>1, <3>2 DEF ServedMasked, AboveIrqs, IrqPending
  <2> QED BY <2>1, <2>2, <2>3
<1>2. CASE TakeIrq
  <2>1. ~IrqPending BY <1>2 DEF ServedMasked, TakeIrq, IrqOpen
  <2> DEFINE f == [kind |-> "IRQ", ret |-> pc, s |-> s, psr |-> psr \ {"B"}, serves |-> {}]
  <2>2. frames' = Append(frames, f) BY <1>2 DEF TakeIrq, DoInterrupt, Enter
  <2>3. f \in FrameType BY ByteRange DEF FrameType, IntTypeOK, TypeOK, Flags
  <2> HIDE DEF f
  <2>4. frames' \in Seq(FrameType) /\ AboveIrqs' BY <2>1, <2>2, <2>3, Entered
  <2>5. "I" \in psr' /\ phase' # "irq" BY <1>2 DEF TakeIrq, DoInterrupt, Enter, Masking
  <2> QED BY <2>4, <2>5 DEF ServedMasked
<1>3. CASE TakeNmi
  <2> DEFINE f == [kind |-> "NMI", ret |-> pc, s |-> s, psr |-> psr, serves |-> NMIStatus]
  <2>1. frames' = Append(frames, f) BY <1>3 DEF TakeNmi, DoNMI, Enter
  <2>2. f \in FrameType BY ByteRange DEF FrameType, IntTypeOK, TypeOK, Flags
  <2>3. f.kind = "NMI" /\ (IrqPending => "I" \in f.psr) BY DEF ServedMasked
  <2> HIDE DEF f
  <2>4. frames' \in Seq(FrameType) /\ AboveIrqs' BY <2>1, <2>2, <2>3, Entered
  <2>5. "I" \in psr' /\ phase' # "irq" BY <1>3 DEF TakeNmi, DoNMI, Enter, Masking
  <2> QED BY <2>4, <2>5 DEF ServedMasked
<1>4. CASE Fetch \/ PassIrq \/ EndInstruction
  <2>1. frames' = frames /\ psr' = psr /\ phase' # "irq"
    BY <1>4 DEF Fetch, PassIrq, EndInstruction, nestVars, vars, regs
  <2> QED BY <2>1 DEF ServedMasked, AboveIrqs, IrqPending
<1>5. CASE RaiseIrq \/ RaiseNmi \/ UNCHANGED ivars
  <2>1. UNCHANGED <<frames, psr, phase, iFlagJustSet>>
    BY <1>5 DEF RaiseIrq, RaiseNmi, ivars, nestVars, vars, regs, justs
  <2> QED BY <2>1 DEF ServedMasked, AboveIrqs, IrqPending
<1> QED BY <1>1, <1>2, <1>3, <1>4, <1>5 DEF IntNext, Run

(* An IRQ handler that does not clear I is never interrupted by an IRQ,    *)
(* whatever NMIs and breaks come between: for every program whose handlers *)
(* return to what they interrupted and do not clear I under an IRQ.        *)
THEOREM IrqsDoNotNest ==
    IntSpec /\ HandlersReturn /\ HandlersKeepMask => []IrqHandlersDoNotNest
<1>1. IntInit => ServedMasked
  BY DEF IntInit, NestInit, ServedMasked, AboveIrqs, IrqPending
<1>2. [Execute /\ Op # "RTI" /\ IrqPending => "I" \in psr']_ivars => KeepsMask
  <2>1. ASSUME UNCHANGED ivars PROVE ~Execute
    BY <2>1 DEF Execute, ivars
  <2> QED BY <2>1 DEF KeepsMask
<1>3. [Execute /\ Op = "RTI" /\ status' = "run" =>
         /\ frames # <<>> /\ pc' = Pending.ret /\ s' = Pending.s
         /\ psr' = Pending.psr]_ivars => Restores
  <2>1. ASSUME UNCHANGED ivars PROVE ~Execute
    BY <2>1 DEF Execute, ivars
  <2> QED BY <2>1 DEF Restores
<1>4. IntTypeOK /\ ServedMasked /\ [IntNext]_ivars /\ KeepsMask /\ Restores => ServedMasked'
  BY ServedMaskedKept
<1>5. ServedMasked => IrqHandlersDoNotNest
  BY DEF ServedMasked, AboveIrqs, IrqHandlersDoNotNest
<1> QED BY <1>1, <1>2, <1>3, <1>4, <1>5, InterruptsKeepTypes, PTL
        DEF IntSpec, HandlersReturn, HandlersKeepMask

-----------------------------------------------------------------------------
(* The decoder's rows and the disassembler's columns.  Of each row of the  *)
(* documented switch: the disassembler has the core's addressing mode (it  *)
(* takes JMP (abs) for an absolute one), and relative is what branches     *)
(* are.                                                                    *)
BranchOps == {"BRA", "BCC", "BCS", "BNE", "BEQ", "BPL", "BMI", "BVC", "BVS"}
Agrees(r) ==
    /\ r[1] # \h6c => InsnMode(r[1]) = r[3]
    /\ r[2] \in BranchOps <=> r[3] = "rel"
    /\ r[3] \notin {"skip1", "skip2", "skip3", "unknown"} /\ (r[3] = "ind" => r[1] = \h6c)

LEMMA AluAgrees ==
  ASSUME NEW base \in {\h01, \h21, \h41, \h61, \ha1, \hc1, \he1}, NEW op, op \notin BranchOps
  PROVE  \A r \in Group(op, base, AluModes) : Agrees(r)
BY DEF Group, AluModes, Agrees, InsnMode, Override, ByColumn, Column1

LEMMA RmwAgrees ==
  ASSUME NEW base \in {\h06, \h26, \h46, \h66, \hc6, \he6}, NEW op, op \notin BranchOps
  PROVE  \A r \in Group(op, base, RmwModes) : Agrees(r)
BY DEF Group, RmwModes, Agrees, InsnMode, Override, ByColumn, Column2

LEMMA Quarter00Agrees == \A r \in Documented00(3) : Agrees(r)
<1> SUFFICES ASSUME NEW r \in Documented00(3) PROVE Agrees(r) OBVIOUS
<1>1. CASE r \in Group("ORA", \h01, AluModes) \cup Group("AND", \h21, AluModes)
  BY <1>1, AluAgrees DEF BranchOps
<1>2. CASE r \in Group("ASL", \h06, RmwModes) \cup Group("ROL", \h26, RmwModes)
  BY <1>2, RmwAgrees DEF BranchOps
<1>3. CASE r \in Group("BIT", \h24, {<<0, "zp">>, <<8, "abs">>})
                   \cup Single("acc", {<<\h0a, "ASL">>, <<\h2a, "ROL">>})
                   \cup Single("rel", {<<\h10, "BPL">>, <<\h30, "BMI">>})
                   \cup Single("abs", {<<\h20, "JSR">>})
  BY <1>3 DEF Group, Single, Agrees, InsnMode, Override, ByColumn, Column0, Column2, BranchOps
<1>4. CASE r \in Single("impl", {<<\h00, "BRK">>, <<\h08, "PHP">>, <<\h28, "PLP">>,
                                 <<\h18, "CLC">>, <<\h38, "SEC">>})
                   \cup Single("impl", {<<\h1a, "INA">>, <<\h3a, "DEA">>})
  BY <1>4 DEF Single, Agrees, InsnMode, Override, BranchOps
<1>5. CASE r \in Group("TSB", \h04, {<<0, "zp">>, <<8, "abs">>})
                   \cup Group("TRB", \h14, {<<0, "zp">>, <<8, "abs">>})
                   \cup Group("BIT", \h34, {<<0, "zpx">>, <<8, "absx">>})
                   \cup Single("zpind", {<<\h12, "ORA">>, <<\h32, "AND">>})
  BY <1>5 DEF Group, Single, Agrees, InsnMode, Override, BranchOps
<1> QED BY <1>1, <1>2, <1>3, <1>4, <1>5 DEF Documented00, Cmos, Nmos

LEMMA Quarter40Agrees == \A r \in Documented40(3) : Agrees(r)
<1> SUFFICES ASSUME NEW r \in Documented40(3) PROVE Agrees(r) OBVIOUS
<1>1. CASE r \in Group("EOR", \h41, AluModes) \cup Group("ADC", \h61, AluModes)
  BY <1>1, AluAgrees DEF BranchOps
<1>2. CASE r \in Group("LSR", \h46, RmwModes) \cup Group("ROR", \h66, RmwModes)
  BY <1>2, RmwAgrees DEF BranchOps
<1>3. CASE r \in Single("acc", {<<\h4a, "LSR">>, <<\h6a, "ROR">>})
                   \cup Single("rel", {<<\h50, "BVC">>, <<\h70, "BVS">>})
                   \cup Single("abs", {<<\h4c, "JMP">>}) \cup Single("ind", {<<\h6c, "JMP">>})
  BY <1>3 DEF Single, Agrees, InsnMode, Override, ByColumn, Column0, Column2, BranchOps
<1>4. CASE r \in Single("impl", {<<\h40, "RTI">>, <<\h60, "RTS">>, <<\h48, "PHA">>, <<\h68, "PLA">>,
                                 <<\h58, "CLI">>, <<\h78, "SEI">>})
                   \cup Single("impl", {<<\h5a, "PHY">>, <<\h7a, "PLY">>})
  BY <1>4 DEF Single, Agrees, InsnMode, Override, BranchOps
<1>5. CASE r \in Group("STZ", \h64, {<<0, "zp">>, <<16, "zpx">>})
                   \cup Single("zpind", {<<\h52, "EOR">>, <<\h72, "ADC">>})
                   \cup Single("indax", {<<\h7c, "JMP">>})
  BY <1>5 DEF Group, Single, Agrees, InsnMode, Override, BranchOps
<1> QED BY <1>1, <1>2, <1>3, <1>4, <1>5 DEF Documented40, Cmos, Nmos

LEMMA Quarter80Agrees == \A r \in Documented80(3) : Agrees(r)
<1> SUFFICES ASSUME NEW r \in Documented80(3) PROVE Agrees(r) OBVIOUS
<1>1. CASE r \in Group("LDA", \ha1, AluModes) BY <1>1, AluAgrees DEF BranchOps
<1>2. CASE r \in Group("STA", \h81, RmwAluModes)
  BY <1>2 DEF Group, RmwAluModes, AluModes, Agrees, InsnMode, Override, ByColumn, Column1, BranchOps
<1>3. CASE r \in Group("STX", \h86, {<<0, "zp">>, <<8, "abs">>, <<16, "zpy">>})
                   \cup Group("LDX", \ha2, {<<0, "imm">>, <<4, "zp">>, <<12, "abs">>, <<20, "zpy">>,
                                            <<28, "absy">>})
  BY <1>3 DEF Group, Agrees, InsnMode, Override, ByColumn, Column2, BranchOps
<1>4. CASE r \in Group("STY", \h84, {<<0, "zp">>, <<8, "abs">>, <<16, "zpx">>})
                   \cup Group("LDY", \ha0, {<<0, "imm">>, <<4, "zp">>, <<12, "abs">>, <<20, "zpx">>,
                                            <<28, "absx">>})
  BY <1>4 DEF Group, Agrees, InsnMode, Override, ByColumn, Column0, BranchOps
<1>5. CASE r \in Single("rel", {<<\h80, "BRA">>, <<\h90, "BCC">>, <<\hb0, "BCS">>})
                   \cup Single("abs", {<<\h9c, "STZ">>}) \cup Single("absx", {<<\h9e, "STZ">>})
                   \cup Single("imm", {<<\h89, "BITI">>})
                   \cup Single("zpind", {<<\h92, "STA">>, <<\hb2, "LDA">>})
  BY <1>5 DEF Single, Agrees, InsnMode, Override, BranchOps
<1>6. CASE r \in Single("impl", {<<\h88, "DEY">>, <<\h8a, "TXA">>, <<\h98, "TYA">>, <<\h9a, "TXS">>,
                                 <<\ha8, "TAY">>, <<\haa, "TAX">>, <<\hb8, "CLV">>, <<\hba, "TSX">>})
  BY <1>6 DEF Single, Agrees, InsnMode, Override, BranchOps
<1> QED BY <1>1, <1>2, <1>3, <1>4, <1>5, <1>6 DEF Documented80, Cmos, Nmos

LEMMA QuarterC0Agrees == \A r \in DocumentedC0(3) : Agrees(r)
<1> SUFFICES ASSUME NEW r \in DocumentedC0(3) PROVE Agrees(r) OBVIOUS
<1>1. CASE r \in Group("CMP", \hc1, AluModes) \cup Group("SBC", \he1, AluModes)
  BY <1>1, AluAgrees DEF BranchOps
<1>2. CASE r \in Group("DEC", \hc6, RmwModes) \cup Group("INC", \he6, RmwModes)
  BY <1>2, RmwAgrees DEF BranchOps
<1>3. CASE r \in Group("CPY", \hc0, {<<0, "imm">>, <<4, "zp">>, <<12, "abs">>})
                   \cup Group("CPX", \he0, {<<0, "imm">>, <<4, "zp">>, <<12, "abs">>})
  BY <1>3 DEF Group, Agrees, InsnMode, Override, ByColumn, Column0, BranchOps
<1>4. CASE r \in Single("rel", {<<\hd0, "BNE">>, <<\hf0, "BEQ">>})
                   \cup Single("zpind", {<<\hd2, "CMP">>, <<\hf2, "SBC">>})
                   \cup Single("impl", {<<\hda, "PHX">>, <<\hfa, "PLX">>})
  BY <1>4 DEF Single, Agrees, InsnMode, Override, BranchOps
<1>5. CASE r \in Single("impl", {<<\hc8, "INY">>, <<\hca, "DEX">>, <<\he8, "INX">>, <<\hea, "NOP">>,
                                 <<\hd8, "CLD">>, <<\hf8, "SED">>})
  BY <1>5 DEF Single, Agrees, InsnMode, Override, BranchOps
<1> QED BY <1>1, <1>2, <1>3, <1>4, <1>5 DEF DocumentedC0, Cmos, Nmos

(* So the disassembler counts the bytes that the core steps over.          *)
LEMMA DocumentedAgrees ==
  ASSUME NEW l \in Levels, NEW code \in Documented65C02, code \in Byte
  PROVE  /\ InsnLength(code) = Length(Decode[3][l][code].mode)
         /\ Decode[3][l][code].op \in BranchOps => InsnMode(code) = "rel" /\ InsnLength(code) = 2
<1>1. PICK r \in Documented(3) : r[1] = code BY DEF Documented65C02
<1>2. Agrees(r)
  BY <1>1, Quarter00Agrees, Quarter40Agrees, Quarter80Agrees, QuarterC0Agrees DEF Documented
<1>3. r \in Rows(3, l) BY <1>1 DEF Rows
<1>4. \A q \in Rows(3, l) : q[1] = code => q = r
  BY <1>1, <1>3, RowsAreUnambiguous DEF Machines
<1>5. {q \in Rows(3, l) : q[1] = code} = {r} BY <1>1, <1>3, <1>4
<1>6. Decode[3][l] = Decoded(3, l) BY DEF Decode, Machines
<1>7. Decoded(3, l)[code] = Meaning({r}, code) BY <1>5 DEF Decoded, Byte
<1>8. Meaning({r}, code) = [op |-> r[2], mode |-> r[3]] BY DEF Meaning
<1>9. Decode[3][l][code].op = r[2] /\ Decode[3][l][code].mode = r[3]
  <2> HIDE DEF Decode, Decoded, Meaning
  <2> QED BY <1>6, <1>7, <1>8
<1>10. CASE code = \h6c
  <2>1. InsnMode(code) = "abs" BY <1>10 DEF InsnMode, Override, ByColumn, Column0
  <2>2. r[2] = "JMP" /\ r[3] = "ind"
    <3>1. <<\h6c, "JMP", "ind">> \in Documented40(3) BY DEF Documented40, Single
    <3>2. <<\h6c, "JMP", "ind">> \in Rows(3, l) BY <3>1 DEF Rows, Documented
    <3>3. <<\h6c, "JMP", "ind">> = r BY <1>4, <1>10, <3>2
    <3> QED BY <3>3
  <2> QED BY <2>1, <2>2, <1>9 DEF InsnLength, Length, BranchOps
<1>11. CASE code # \h6c
  <2>1. InsnMode(code) = r[3] BY <1>1, <1>2, <1>11 DEF Agrees
  <2>2. r[3] \notin {"skip1", "skip2", "skip3", "unknown", "ind"} BY <1>1, <1>2, <1>11 DEF Agrees
  <2> QED BY <2>1, <2>2, <1>2, <1>9 DEF InsnLength, Length, Agrees
<1> QED BY <1>10, <1>11

(* What does not jump goes on behind its bytes or, as a branch, to its     *)
(* target.                                                                 *)
LEMMA GoesOn ==
  ASSUME Next, Executing, Op \notin Transfers
  PROVE  \/ pc' = pc + Length(Mode)
         \/ Op \in BranchOps /\ (pc' = pc + 2 \/ pc' = pc + 2 + Signed(B1))
<1>1. CASE Load \/ Store \/ AccumulatorOp \/ CompareOp \/ Bit
  BY <1>1 DEF Load, Store, AccumulatorOp, CompareOp, Bit, FallThrough
<1>2. CASE ModifyMemory \/ ModifyAccumulator \/ TestAndSet \/ ModifyAndUse \/ UndocumentedImmediate
  BY <1>2 DEF ModifyMemory, ModifyAccumulator, TestAndSet, ModifyAndUse, UndocumentedImmediate,
              FallThrough
<1>3. CASE StepRegister \/ Transfer \/ SetFlag \/ Push \/ Pull \/ Skip
  BY <1>3 DEF StepRegister, Transfer, SetFlag, Push, Pull, Skip, FallThrough
<1>4. CASE Branch BY <1>4 DEF Branch, Executes, BranchOps
<1>5. CASE Jump \/ JumpSubroutine \/ ReturnSubroutine \/ Break \/ ReturnInterrupt
  BY <1>5 DEF Jump, JumpSubroutine, ReturnSubroutine, Break, ReturnInterrupt, Executes, Transfers
<1>6. CASE LeaveMemory BY <1>6 DEF LeaveMemory, Executing
<1> QED BY <1>1, <1>2, <1>3, <1>4, <1>5, <1>6 DEF Next

(* On a 65C02 the trace follows the execution, for every program and       *)
(* whatever the levels of opcodes: what the disassembler lists is what the *)
(* core executes (disassemble_insn, Exec6502Instruction).                  *)
THEOREM TraceFollows == Spec => TraceFollowsExecution
<1> DEFINE Follows ==
      Executing /\ MachineType = 3 /\ Rd(pc) \in Documented65C02 /\ Op \notin Transfers =>
         \/ pc' = pc + InsnLength(Rd(pc))
         \/ InsnMode(Rd(pc)) = "rel" /\ pc' = PrintedTarget(pc, B1)
<1>1. TypeOK /\ [Next]_vars => [Follows]_vars
  <2> SUFFICES ASSUME TypeOK, Next, Executing, MachineType = 3, Rd(pc) \in Documented65C02,
                      Op \notin Transfers
               PROVE  \/ pc' = pc + InsnLength(Rd(pc))
                      \/ InsnMode(Rd(pc)) = "rel" /\ pc' = PrintedTarget(pc, B1)
    OBVIOUS
  <2>1. Rd(pc) \in Byte /\ B1 \in Byte /\ OpCodes \in Levels /\ pc \in Int
    BY RdByte DEF TypeOK, B1
  <2>2. /\ InsnLength(Rd(pc)) = Length(Mode)
        /\ Op \in BranchOps => InsnMode(Rd(pc)) = "rel" /\ InsnLength(Rd(pc)) = 2
    BY <2>1, DocumentedAgrees DEF Op, Mode, Ins
  <2>3. CASE pc' = pc + Length(Mode) BY <2>2, <2>3
  <2>4. CASE Op \in BranchOps /\ pc' = pc + 2 BY <2>2, <2>4
  <2>5. CASE Op \in BranchOps /\ pc' = pc + 2 + Signed(B1)
    <3>1. PrintedTarget(pc, B1) = pc + 2 + Signed(B1)
      BY <2>1, ByteRange DEF PrintedTarget, Signed
    <3> QED BY <3>1, <2>2, <2>5
  <2> QED BY <2>3, <2>4, <2>5, GoesOn
<1> QED BY <1>1, RegistersKeepTheirWidth, PTL DEF Spec, TraceFollowsExecution
=============================================================================
