--------------------------- MODULE MCInterrupts ---------------------------
(***************************************************************************)
(* Programs that open a window for interrupts, each in another way, in a   *)
(* loop, after a stretch with interrupts masked that is longer than the    *)
(* countdown to its sentinel.  One handler serves BRK and IRQ and opens a  *)
(* window of its own after a BRK.                                          *)
(***************************************************************************)
EXTENDS Interrupts, TLC

(* LDX #2; DEX; BNE, and then the loop. *)
Delay == <<\ha2, 2, \hca, \hd0, \hfd>>
Looping(body) == Delay \o body \o <<\h4c, 5, 3>>
ClearByPull == <<\h08, \h58, \h28>>             \* PHP CLI PLP
ClearByBreak == <<\h00, \hff>>                 \* BRK, whose handler has CLI SEI
ClearOnly == <<\h58, \h78>>                     \* CLI SEI
(* PLA PHA AND #$10 BNE brk; STA AckPort; RTI; brk: CLI SEI RTI *)
Handler == <<\h68, \h48, \h29, \h10, \hd0, 4, \h8d, 0, 2, \h40, \h58, \h78, \h40>>

MCBoots ==
    {[cells |-> Loaded(\h0300, Looping(w)) @@ Loaded(\h0080, Handler) @@ Loaded(\h00a0, <<\h40>>)
                  @@ Loaded(\hfffa, <<\ha0>>) @@ Loaded(\hfffe, <<\h80>>),
      exec |-> \h0300] : w \in {ClearByPull, ClearByBreak, ClearOnly}}
MCModels == {<<1, 2>>}
MCSentinel == -20
MCFloor == -23
MCCycles == {2}
MCDelays == {0, 3}
MCAckPort == 512
=============================================================================
