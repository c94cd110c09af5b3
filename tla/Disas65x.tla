------------------------------ MODULE Disas65x ------------------------------
(***************************************************************************)
(* disassemble_insn (semi65x/disas.cpp): how it classifies an opcode and   *)
(* what it returns, the number of bytes of the instruction.  The text it   *)
(* prints is left out, but for the branch target in it.                    *)
(***************************************************************************)
EXTENDS Integers

(* The columns of the opcode table, by opcode & 3 (first switch).          *)
Column1(code) ==
    CASE code % 32 = 1 -> "indx" [] code % 32 = 5 -> "zp" [] code % 32 = 9 -> "imm"
      [] code % 32 = 13 -> "abs" [] code % 32 = 17 -> "indy" [] code % 32 = 21 -> "zpx"
      [] code % 32 = 25 -> "absy" [] OTHER -> "absx"
Column2(code) ==
    CASE code = \ha2 -> "imm"
      [] code % 32 = 6 -> "zp"
      [] code \in {\h0a, \h2a, \h4a, \h6a} -> "acc"
      [] code % 32 = 14 -> "abs"
      [] code % 32 = 22 /\ code \notin {\h96, \hb6} -> "zpx"
      [] code \in {\h96, \hb6} -> "zpy"
      [] code % 32 = 30 /\ code \notin {\h9e, \hbe} -> "absx"
      [] code = \hbe -> "absy"
      [] OTHER -> "unknown"
Column0(code) ==
    CASE code \in {\ha0, \hc0, \he0} -> "imm"
      [] code \in {\h24, \h84, \ha4, \hc4, \he4} -> "zp"
      [] code \in {\h2c, \h4c, \h6c, \h8c, \hac, \hcc, \hec} -> "abs"
      [] code \in {\h94, \hb4} -> "zpx"
      [] code = \hbc -> "absx"
      [] OTHER -> "unknown"
ByColumn(code) ==
    CASE code % 4 = 1 /\ code # \h89 -> Column1(code)
      [] code % 4 = 2 -> Column2(code)
      [] code % 4 = 0 -> Column0(code)
      [] OTHER -> "unknown"

(* The second switch, which overrides the columns and the branch test.     *)
Override(code) ==
    CASE code \in {\h00, \h40, \h60, \h08, \h28, \h48, \h68, \h88, \ha8, \hc8, \he8, \h18,
                  \h38, \h58, \h78, \h98, \hb8, \hd8, \hf8, \h8a, \h9a, \haa, \hba, \hca,
                  \hea, \h1a, \h3a, \h5a, \h7a, \hda, \hfa} -> "impl"
      [] code \in {\h12, \h32, \h52, \h72, \h92, \hb2, \hd2, \hf2} -> "zpind"
      [] code \in {\h04, \h14, \h64} \/ code % 16 = 7 -> "zp"
      [] code \in {\h20, \h0c, \h1c, \h9c} -> "abs"
      [] code \in {\h34, \h74} -> "zpx"
      [] code \in {\h3c, \h9e} -> "absx"
      [] code = \h7c -> "indax"
      [] code = \h89 -> "imm"
      [] code = \h80 -> "rel"
      [] OTHER -> "none"

InsnMode(code) ==
    IF Override(code) # "none" THEN Override(code)
    ELSE IF code % 32 = 16 THEN "rel" ELSE ByColumn(code)

InsnLength(code) ==
    CASE InsnMode(code) \in {"impl", "acc", "unknown"} -> 1
      [] InsnMode(code) \in {"abs", "absx", "absy", "indax"} -> 3
      [] OTHER -> 2

(* The address printed for a branch, with its displacement as a signed     *)
(* char.  As the counter in the core it is an int, and not masked.         *)
PrintedTarget(at, byte) == at + (IF byte >= 128 THEN byte - 256 ELSE byte) + 2
=============================================================================
