---------------------------- MODULE CallNesting ----------------------------
(***************************************************************************)
(* Calls and interrupts through the stack page.  frames is a history       *)
(* variable: what each JSR and BRK that has not returned yet must get back *)
(* from its RTS or RTI.                                                    *)
(***************************************************************************)
EXTENDS Core6502

VARIABLE frames
nestVars == <<vars, frames>>

Frame(kind, ret) == [kind |-> kind, ret |-> ret, s |-> s,
                     psr |-> IF kind = "BRK" THEN psr \cup {"B"} ELSE {}]

NestInit == Init /\ frames = <<>>
NestNext ==
    /\ Next
    /\ frames' = IF status' = "wild" THEN frames
                 ELSE CASE Op = "JSR" -> Append(frames, Frame("JSR", pc + 3))
                        [] Op = "BRK" -> Append(frames, Frame("BRK", pc + 2))
                        [] Op \in {"RTS", "RTI"} /\ frames # <<>> ->
                               SubSeq(frames, 1, Len(frames) - 1)
                        [] OTHER -> frames
NestSpec == NestInit /\ [][NestNext]_nestVars

-----------------------------------------------------------------------------
Pending == frames[Len(frames)]

(* A routine that pulls what it pushed returns to the instruction behind   *)
(* its JSR, or behind the BRK and its padding byte, with the stack pointer *)
(* of the call, however many calls lie between and wherever in its page    *)
(* the stack wraps (PushWord, PopWord).  RTI gives back the flags of the   *)
(* interrupted program too, with B set.                                    *)
CallsReturn ==
    [][status' # "wild" /\ Op \in {"RTS", "RTI"} =>
         /\ frames # <<>> /\ pc' = Pending.ret /\ s' = Pending.s
         /\ Op = "RTI" => Pending.kind = "BRK" /\ psr' = Pending.psr]_nestVars
=============================================================================
