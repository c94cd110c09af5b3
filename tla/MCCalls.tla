------------------------------ MODULE MCCalls ------------------------------
(***************************************************************************)
(* Programs with calls.  In the first main calls f and then breaks, f      *)
(* calls g, g breaks, and the handler of BRK has a push and a pull of its  *)
(* own; from stack pointers around 0, so that every push and pull         *)
(* wraps in some run.  The others call the assembler routines.             *)
(***************************************************************************)
EXTENDS CallNesting, Routines

(* PHA PLA; PHP PLP; PHA PLP, which changes the flags; nothing (NOP NOP)   *)
Brackets == {<<\h48, \h68>>, <<\h08, \h28>>, <<\h48, \h28>>, <<\hea, \hea>>}

Main(sp) == <<\ha2, sp, \h9a, \ha9, \h83, \h20, \h40, \h03, 0, \hff, \h4c, 0, 0>>
F(b) == <<b[1], \h20, \h60, \h03, b[2], \h60>>
G == <<\h38, 0, \hff, \h60>>
Handler(b) == <<b[1], \hd8, b[2], \h40>>

MCBoots ==
    {[cells |-> Loaded(\h0300, Main(sp)) @@ Loaded(\h0340, F(b)) @@ Loaded(\h0360, G)
                  @@ Loaded(\h0080, Handler(c)) @@ Loaded(\hfffe, <<\h80>>),
      exec |-> \h0300] : sp \in (0..15) \cup (240..255), b \in Brackets, c \in Brackets}

(* Lengths around 0, one page and two pages, and pointers that make the    *)
(* routines cross pages inside a (zp),Y access or not.                     *)
Lengths == {0, 1, 2, 255, 256, 257, 513}
Pointers == {\h1000, \h10f3, \h0fff}
MCJobs ==
    [call : {"memset"}, ptr : Pointers, byte : {\haa}, n : Lengths]
      \cup [call : {"strlen"}, ptr : Pointers, n : Lengths]
      \cup [call : {"test"}, message : {<<>>, <<\h48, \h69, \h0a>>, [i \in 1..255 |-> 1 + (i % 3)]}]
MCModels == {<<1, 2>>, <<3, 2>>}

-----------------------------------------------------------------------------
Nested == [call |-> "nested"]
CallsInit == frames = <<>> /\ (JobInit \/ (Init /\ MachineType = 1 /\ job = Nested))
CallsNext == NestNext /\ UNCHANGED job
callsVars == <<nestVars, job>>
CallsSpec == CallsInit /\ [][CallsNext]_callsVars /\ WF_callsVars(CallsNext)
=============================================================================
