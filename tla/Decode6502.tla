----------------------------- MODULE Decode6502 -----------------------------
(***************************************************************************)
(* What each opcode means to Exec6502Instruction: the handler it calls and *)
(* the addressing mode it hands to it.  The documented switch is written   *)
(* quarter by quarter as the source lists it; a group of opcodes that only *)
(* differ in their addressing mode is one Group.  machine is MachineType   *)
(* (1 = 6502, 3 = 65C02), level is OpCodes (1 = documented only, 2 = the   *)
(* commonly used undocumented ones too, 3 = full set).                     *)
(***************************************************************************)
EXTENDS Integers

(* A row is <<opcode, handler, mode>>; a group's modes come with what      *)
(* their opcodes are above the first one.                                  *)
Group(op, base, modes) == {<<base + m[1], op, m[2]>> : m \in modes}
Single(mode, ops) == {<<o[1], o[2], mode>> : o \in ops}

AluModes == {<<0, "indx">>, <<4, "zp">>, <<8, "imm">>, <<12, "abs">>,
             <<16, "indy">>, <<20, "zpx">>, <<24, "absy">>, <<28, "absx">>}
RmwModes == {<<0, "zp">>, <<8, "abs">>, <<16, "zpx">>, <<24, "absx">>}
RmwAluModes == {m \in AluModes : m[2] # "imm"}

(* On a 6502 the 65C02's opcodes fall through: nothing but the operand     *)
(* bytes, of which the code may skip none, one or two, is stepped over.    *)
Cmos(machine, rows) == IF machine = 3 THEN rows ELSE {}
Nmos(machine, ones, twos, threes) ==
    IF machine = 3 THEN {}
    ELSE ({<<k, "SKIP", "skip1">> : k \in ones} \cup {<<k, "SKIP", "skip2">> : k \in twos}
            \cup {<<k, "SKIP", "skip3">> : k \in threes})

Documented00(machine) ==
    Group("ORA", \h01, AluModes) \cup Group("AND", \h21, AluModes)
      \cup Group("ASL", \h06, RmwModes) \cup Group("ROL", \h26, RmwModes)
      \cup Group("BIT", \h24, {<<0, "zp">>, <<8, "abs">>})
      \cup Single("acc", {<<\h0a, "ASL">>, <<\h2a, "ROL">>})
      \cup Single("rel", {<<\h10, "BPL">>, <<\h30, "BMI">>})
      \cup Single("impl", {<<\h00, "BRK">>, <<\h08, "PHP">>, <<\h28, "PLP">>,
                           <<\h18, "CLC">>, <<\h38, "SEC">>})
      \cup Single("abs", {<<\h20, "JSR">>})
      \cup Cmos(machine,
             Group("TSB", \h04, {<<0, "zp">>, <<8, "abs">>})
               \cup Group("TRB", \h14, {<<0, "zp">>, <<8, "abs">>})
               \cup Group("BIT", \h34, {<<0, "zpx">>, <<8, "absx">>})
               \cup Single("zpind", {<<\h12, "ORA">>, <<\h32, "AND">>})
               \cup Single("impl", {<<\h1a, "INA">>, <<\h3a, "DEA">>}))
      \cup Nmos(machine, {\h12, \h1a, \h32, \h3a}, {\h04, \h14, \h34}, {\h0c, \h1c, \h3c})

Documented40(machine) ==
    Group("EOR", \h41, AluModes) \cup Group("ADC", \h61, AluModes)
      \cup Group("LSR", \h46, RmwModes) \cup Group("ROR", \h66, RmwModes)
      \cup Single("acc", {<<\h4a, "LSR">>, <<\h6a, "ROR">>})
      \cup Single("rel", {<<\h50, "BVC">>, <<\h70, "BVS">>})
      \cup Single("impl", {<<\h40, "RTI">>, <<\h60, "RTS">>, <<\h48, "PHA">>, <<\h68, "PLA">>,
                           <<\h58, "CLI">>, <<\h78, "SEI">>})
      \cup Single("abs", {<<\h4c, "JMP">>}) \cup Single("ind", {<<\h6c, "JMP">>})
      \cup Cmos(machine,
             Group("STZ", \h64, {<<0, "zp">>, <<16, "zpx">>})
               \cup Single("zpind", {<<\h52, "EOR">>, <<\h72, "ADC">>})
               \cup Single("impl", {<<\h5a, "PHY">>, <<\h7a, "PLY">>})
               \cup Single("indax", {<<\h7c, "JMP">>}))
      \cup Nmos(machine, {\h52, \h5a, \h64, \h72, \h7a}, {\h74}, {\h7c})

Documented80(machine) ==
    Group("STA", \h81, RmwAluModes) \cup Group("LDA", \ha1, AluModes)
      \cup Group("STX", \h86, {<<0, "zp">>, <<8, "abs">>, <<16, "zpy">>})
      \cup Group("STY", \h84, {<<0, "zp">>, <<8, "abs">>, <<16, "zpx">>})
      \cup Group("LDX", \ha2, {<<0, "imm">>, <<4, "zp">>, <<12, "abs">>, <<20, "zpy">>, <<28, "absy">>})
      \cup Group("LDY", \ha0, {<<0, "imm">>, <<4, "zp">>, <<12, "abs">>, <<20, "zpx">>, <<28, "absx">>})
      \cup Single("rel", {<<\h80, "BRA">>, <<\h90, "BCC">>, <<\hb0, "BCS">>})
      \cup Single("impl", {<<\h88, "DEY">>, <<\h8a, "TXA">>, <<\h98, "TYA">>, <<\h9a, "TXS">>,
                           <<\ha8, "TAY">>, <<\haa, "TAX">>, <<\hb8, "CLV">>, <<\hba, "TSX">>})
      \cup Single("abs", {<<\h9c, "STZ">>})
      \cup Single("absx", {<<\h9e, IF machine = 3 THEN "STZ" ELSE "SHX">>})
      \cup Cmos(machine, Single("imm", {<<\h89, "BITI">>})
                           \cup Single("zpind", {<<\h92, "STA">>, <<\hb2, "LDA">>}))
      \cup Nmos(machine, {\h89, \h92, \hb2}, {}, {})

DocumentedC0(machine) ==
    Group("CMP", \hc1, AluModes) \cup Group("SBC", \he1, AluModes)
      \cup Group("DEC", \hc6, RmwModes) \cup Group("INC", \he6, RmwModes)
      \cup Group("CPY", \hc0, {<<0, "imm">>, <<4, "zp">>, <<12, "abs">>})
      \cup Group("CPX", \he0, {<<0, "imm">>, <<4, "zp">>, <<12, "abs">>})
      \cup Single("rel", {<<\hd0, "BNE">>, <<\hf0, "BEQ">>})
      \cup Single("impl", {<<\hc8, "INY">>, <<\hca, "DEX">>, <<\he8, "INX">>, <<\hea, "NOP">>,
                           <<\hd8, "CLD">>, <<\hf8, "SED">>})
      \cup Cmos(machine, Single("zpind", {<<\hd2, "CMP">>, <<\hf2, "SBC">>})
                           \cup Single("impl", {<<\hda, "PHX">>, <<\hfa, "PLX">>}))
      \cup Nmos(machine, {\hd2, \hda, \hf2, \hfa}, {}, {})

Documented(machine) ==
    Documented00(machine) \cup Documented40(machine)
      \cup Documented80(machine) \cup DocumentedC0(machine)

(* The second switch, OpCodes == 3: read-modify-write and accumulate.      *)
FullSetLogic ==
    Group("SLO", \h03, RmwAluModes) \cup Group("RLA", \h23, RmwAluModes)
      \cup Group("SRE", \h43, RmwAluModes)
      \cup Single("skip2", {<<\h44, "SKIP">>, <<\h54, "SKIP">>}) \cup Single("skip3", {<<\h5c, "SKIP">>})
FullSetArithmetic ==
    Group("RRA", \h63, RmwAluModes)
      \cup Group("DCP", \hc3, RmwAluModes) \cup Group("ISC", \he3, RmwAluModes)
      \cup Single("skip2", {<<\hd4, "SKIP">>, <<\hf4, "SKIP">>})
      \cup Single("skip3", {<<\hdc, "SKIP">>, <<\hfc, "SKIP">>})
      \cup Single("imm", {<<\h6b, "ARR">>, <<\h8b, "XAA">>, <<\hcb, "SBX">>})

(* The third switch, OpCodes >= 2.                                         *)
CommonlyUsed ==
    Single("imm", {<<\h0b, "ANC">>, <<\h2b, "ANC">>, <<\h4b, "ALR">>, <<\hab, "LAX">>})
      \cup Group("SAX", \h83, {<<0, "indx">>, <<4, "zp">>, <<12, "abs">>, <<16, "indy">>,
                               <<20, "zpy">>, <<24, "absy">>, <<28, "absx">>})
      \cup Group("LAX", \ha3, {<<0, "indx">>, <<4, "zp">>, <<12, "abs">>, <<16, "indy">>,
                               <<20, "zpy">>, <<24, "absy">>, <<28, "absy">>})

(* BadInstrHandler: an opcode of none of the switches is skipped, with a   *)
(* guess at its length.                                                    *)
BadLength(code) ==
    CASE code % 16 \in {0, 2, 3, 4, 7, 9, 11} -> "skip2"
      [] code % 16 \in {12, 14, 15} -> "skip3"
      [] OTHER -> "skip1"

Rows(machine, level) ==
    Documented(machine) \cup (IF level = 3 THEN FullSetLogic \cup FullSetArithmetic ELSE {})
      \cup (IF level >= 2 THEN CommonlyUsed ELSE {})

Meaning(found, code) ==
    IF found = {} THEN [op |-> "SKIP", mode |-> BadLength(code)]
    ELSE LET r == CHOOSE r \in found : TRUE IN [op |-> r[2], mode |-> r[3]]
Decoded(machine, level) ==
    [code \in 0..255 |-> Meaning({r \in Rows(machine, level) : r[1] = code}, code)]

Machines == {1, 3}
Levels == 1..3
Decode == [m \in Machines |-> [l \in Levels |-> Decoded(m, l)]]

(* No opcode is claimed twice by the switches that are active together.    *)
ASSUME RowsAreUnambiguous ==
    \A m \in Machines, l \in Levels : \A r, q \in Rows(m, l) : r[1] = q[1] => r = q

(* How many bytes the program counter moves over, opcode included.         *)
Length(mode) ==
    CASE mode \in {"impl", "acc", "skip1"} -> 1
      [] mode \in {"abs", "absx", "absy", "ind", "indax", "skip3"} -> 3
      [] OTHER -> 2
=============================================================================
