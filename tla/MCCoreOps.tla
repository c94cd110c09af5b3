----------------------------- MODULE MCCoreOps -----------------------------
(***************************************************************************)
(* Every opcode once: a loaded program sets the registers up, executes the *)
(* opcode and leaves through JMP 0.  Whatever the opcode jumps to is zeros *)
(* (BRK), and the BRK vector points to another JMP 0 at $00f0.  main       *)
(* traces every instruction.                                               *)
(***************************************************************************)
EXTENDS Trace65x, TLC

(* LDX #s, TXS, LDA #p, PHA, LDA #a, LDX #x, LDY #y, PLP                   *)
Setup(r) == <<\ha2, r.s, \h9a, \ha9, r.p, \h48, \ha9, r.a, \ha2, r.x, \ha0, r.y, \h28>>

Registers == {
    [a |-> \h40, x |-> 3, y |-> 2, s |-> \hf0, p |-> 0, lo |-> \h10, hi |-> \h04],
    [a |-> \hff, x |-> \hff, y |-> \hff, s |-> 0, p |-> \hff, lo |-> \hff, hi |-> \hff],
    [a |-> \h99, x |-> 0, y |-> 0, s |-> \hff, p |-> 9, lo |-> \hf0, hi |-> \hff],
    [a |-> \h80, x |-> \h10, y |-> 1, s |-> \h80, p |-> \h41, lo |-> \h20, hi |-> \h80]}

Vectors == Loaded(\hfffe, <<\hf0>>) @@ Loaded(\h00f0, <<\h4c, 0, 0>>)
Pointers == Loaded(\h10, <<\h20, \h04>>) @@ Loaded(\h13, <<\h99, \h09>>)
              @@ Loaded(\h20, <<\hf0, \hff>>) @@ Loaded(\hfe, <<\hff, \hff, \hff>>)
              @@ Loaded(\h01f1, <<\h30, \h03, \h02>>)

Program(code) == [cells |-> Loaded(\h0300, code) @@ Vectors @@ Pointers, exec |-> \h0300]

(* The opcode in the middle of memory, and at $ffff, where only a program  *)
(* can put it: LDA #code, STA $ffff, ..., JMP $ffff.                       *)
Inline == {Program(Setup(r) \o <<code, r.lo, r.hi, \h4c, 0, 0>>) : code \in Byte, r \in Registers}
AtTop == {Program(<<\ha9, code, \h8d, \hff, \hff>> \o Setup(r) \o <<\h4c, \hff, \hff>>) :
              code \in Byte, r \in Registers}
(* BRA at address 0, reached by JMP ($0400), backwards out of memory.      *)
BelowZero == {[cells |-> Loaded(\h0300, <<\h6c, 0, \h04>>) @@ Loaded(0, <<\h80, off>>) @@ Vectors,
               exec |-> \h0300] : off \in {\h80, \hfd, \hfe, \h7f}}
(* Branches forwards and backwards, with no branch flag set and with all.  *)
(* LDX #$f0, TXS, LDA #p, PHA, PLP, the opcode, JMP 0                      *)
Branching ==
    {[cells |-> Loaded(\h0300, <<\ha2, \hf0, \h9a, \ha9, p, \h48, \h28, code, off, 5, \h4c, 0, 0>>)
                 @@ Vectors,
      exec |-> \h0300] : code \in Byte, p \in {0, \hc3}, off \in {\h10, \hc0}}

MCBoots == Inline \cup AtTop \cup BelowZero \cup Branching
MCModels == {<<1, 2>>, <<3, 2>>, <<3, 3>>, <<1, 1>>}
=============================================================================
