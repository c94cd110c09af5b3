---------------------------- MODULE AsmRoutines ----------------------------
(***************************************************************************)
(* Hand-written machine code of the repository, as the assembler would     *)
(* place it: libtinyc's memset.S and strlen.S and semi65x/test/test.s.     *)
(* The soft registers _r0.._r5 are zero page locations R0..R0+5.           *)
(***************************************************************************)
EXTENDS Integers, Sequences

CONSTANT R0
ASSUME R0Assumption == R0 \in 0..250

(* Mutant: the count is not stepped. *)
LastPageForever == <<\hea, \h91, R0, \hd0, 251>>
LastPage == <<\h88, \h91, R0, \hd0, 251>>     \* lploop: dey, sta (_r0),y, bne

(* memset: dst in _r1:_r0, the byte in _r2, the count in _r5:_r4.          *)
MemsetCode == <<
    \ha5, R0 + 1, \h85, R0 + 3, \ha5, R0 + 2,   \* lda _r1, sta _r3, lda _r2
    \ha0, 0, \ha6, R0 + 5, \hf0, 10,            \* ldy #0, ldx _r5, beq lastpage
    \h91, R0, \hc8, \hd0, 251,                  \* fullpage: sta (_r0),y, iny, bne
    \he6, R0 + 1, \hca, \hd0, 246,              \* inc _r1, dex, bne fullpage
    \ha4, R0 + 4, \hf0, 5>>                     \* lastpage: ldy _r4, beq done
    \o LastPage
    \o <<\ha5, R0 + 3, \h85, R0 + 1, \h60>>     \* done: lda _r3, sta _r1, rts

(* Mutant: the pages passed are not counted. *)
NextPageUncounted == <<\he6, R0 + 1, \hea, \hea>>
NextPage == <<\he6, R0 + 1, \he6, R0 + 2>>     \* inc _r1, inc _r2

(* strlen: the string in _r1:_r0, its length returned there.  The loop     *)
(* jumps back with BRA on a 65C02, with JMP to page_loop on a 6502.        *)
StrlenCode(base, cmos) ==
    LET back == IF cmos THEN <<\h80, 243>> ELSE <<\h4c, (base + 4) % 256, (base + 4) \div 256>>
    IN  <<\ha0, 0, \h84, R0 + 2,                              \* ldy #0, sty _r2
          \hb1, R0, \hf0, IF cmos THEN 9 ELSE 10, \hc8, \hd0, 249>>  \* page_loop: lda (_r0),y, beq done, iny, bne
          \o NextPage \o back
          \o <<\h84, R0, \ha5, R0 + 2, \h85, R0 + 1, \h60>>   \* done: sty _r0, lda _r2, sta _r1, rts

(* test.s at $0e00: print a message up to and with its 0, then JMP 0.      *)
TestCode(message) ==
    <<\ha2, 0, \hbd, \h11, \h0e,                \* ldx #0, loop: lda message,x
      \h8d, \hf0, \hff, \hf0, 4,                \* sta $fff0, beq done
      \he8, \h4c, \h02, \h0e,                   \* inx, jmp loop
      \h4c, 0, 0>> \o message \o <<0>>          \* done: jmp 0
=============================================================================
