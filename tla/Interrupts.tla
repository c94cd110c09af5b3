---------------------------- MODULE Interrupts ----------------------------
(***************************************************************************)
(* What Exec6502Instruction does around an instruction (6502core.cpp): the *)
(* countdown to an interrupt, the tests for IRQ and NMI behind the         *)
(* instruction, and the entry into their handlers.  The SEMI65X build      *)
(* compiles these tests but none of the devices: the devices here, and     *)
(* PollVIAs, are those of the emulator the core comes from, reduced to     *)
(* when they may raise a request.                                          *)
(*                                                                         *)
(* An instruction is a step for each point where a device is polled: phase *)
(* says what is done next.  Cycle counts are any of CyclesPerPoll.         *)
(***************************************************************************)
EXTENDS CallNesting

CONSTANTS
    NO_TIMER_INT_DUE,   \* the value of CyclesToInt that means no interrupt (-1000000)
    Floor,              \* bound: CyclesToInt is not counted further down than this
    CyclesPerPoll,      \* cycles between two polls of the devices
    Delays,             \* cycles to go when a timer raises its request
    AckPort,            \* a store here makes the devices drop their requests
    MaxNmis             \* bound: how often a device raises an NMI

ASSUME CountdownAssumption ==
    /\ Floor \in Int /\ NO_TIMER_INT_DUE \in Floor .. -3
    /\ CyclesPerPoll \subseteq Nat \ {0} /\ Delays \subseteq Nat
    /\ AckPort \in Addr /\ MaxNmis \in Nat

IRQ_Nums == {"sysVia", "serial"}            \* a device with a timer, one without
NMI_Nums == {"nmi_floppy", "nmi_econet"}

VARIABLES
    intStatus, NMIStatus,       \* the requests, sets of IRQ_Nums and NMI_Nums
    OldNMIStatus, NMILock,
    IntDue, CyclesToInt,
    iFlagJustSet, iFlagJustCleared,
    phase,
    wasMasked,  \* history: whether I was set before the instruction, or it is an RTI
    nmis        \* history: how many NMIs were raised

lines == <<intStatus, NMIStatus>>
nmi == <<OldNMIStatus, NMILock>>
countdown == <<IntDue, CyclesToInt>>
justs == <<iFlagJustSet, iFlagJustCleared, wasMasked>>
ivars == <<nestVars, lines, nmi, countdown, justs, phase, nmis>>

Phases == {"fetch", "execute", "irq", "irqTaken", "nmi", "nmiTaken"}

-----------------------------------------------------------------------------
(* PollVIAs: the countdown runs while one is due.                          *)
Elapsed(n) ==
    IF CyclesToInt = NO_TIMER_INT_DUE THEN CyclesToInt
    ELSE IF CyclesToInt - n < Floor THEN Floor ELSE CyclesToInt - n

(* A request without a countdown starts one, so that the handler is not    *)
(* entered behind the instruction in which the request came.               *)
DoIntCheck(due, c) ==
    [due |-> due \/ intStatus # {},
     cycles |-> CASE due -> c
                  [] ~due /\ intStatus = {} -> NO_TIMER_INT_DUE
                  [] OTHER -> IF c = NO_TIMER_INT_DUE THEN 0 ELSE c]

(* The fetch, up to AdvanceCyclesForMemRead, which checks only for some    *)
(* opcodes; the mask is still that of the instruction before.              *)
Fetch ==
    /\ phase = "fetch" /\ status = "run"
    /\ \E n \in CyclesPerPoll, checks \in BOOLEAN :
           LET r == DoIntCheck(FALSE, Elapsed(n))
           IN  /\ IntDue' = (checks /\ r.due)
               /\ CyclesToInt' = IF checks THEN r.cycles ELSE Elapsed(n)
    /\ iFlagJustSet' = FALSE /\ iFlagJustCleared' = FALSE /\ wasMasked' = FALSE
    /\ phase' = "execute"
    /\ UNCHANGED <<nestVars, lines, nmi, nmis>>

(* CLI, SEI and PLP note a change of I, RTI does not.                      *)
NotesMask == Op \in {"CLI", "SEI", "PLP"}
(* A handler drops the requests it was entered for: a store to AckPort for *)
(* the IRQs, its RTI for NMIs.                                             *)
Acknowledges == Op = "STA" /\ EffectiveAddress = AckPort
Served == IF Op = "RTI" /\ frames # <<>> THEN Pending.serves ELSE {}

Execute ==
    /\ phase = "execute" /\ phase' = "irq"
    /\ Next
    /\ frames' = IF status' = "wild" THEN frames
                 ELSE CASE Op = "BRK" -> Append(frames, [kind |-> "BRK", ret |-> pc + 2, s |-> s,
                                                         psr |-> psr \cup {"B"}, serves |-> {}])
                        [] Op = "RTI" /\ frames # <<>> -> SubSeq(frames, 1, Len(frames) - 1)
                        [] OTHER -> frames
    /\ iFlagJustSet' = (NotesMask /\ "I" \notin psr /\ "I" \in psr')
    /\ iFlagJustCleared' = (NotesMask /\ "I" \in psr /\ "I" \notin psr')
    /\ wasMasked' = ("I" \in psr /\ Op # "RTI")
    /\ intStatus' = IF Acknowledges THEN {} ELSE intStatus
    /\ NMIStatus' = NMIStatus \ Served
    /\ NMILock' = IF Op = "RTI" THEN 0 ELSE NMILock
    /\ \E n \in CyclesPerPoll : CyclesToInt' = Elapsed(n)
    /\ UNCHANGED <<IntDue, OldNMIStatus, nmis>>

-----------------------------------------------------------------------------
(* Mutant: an entry that leaves I as it is. *)
MaskingLater == psr
Masking == psr \cup {"I"}
(* Mutant: the address behind the next byte, as a BRK pushes it. *)
InterruptedNext == pc + 1
Interrupted == pc
(* PushWord (ProgramCounter), Push (flags), the vector, and I.             *)
Enter(kind, flags, vector) ==
    /\ ram' = Put(PushWord(ram, s, Interrupted), Slot(s - 2), PsrByte(flags))
    /\ s' = Lo(s - 3)
    /\ psr' = Masking
    /\ pc' = Pointer(vector)
    /\ frames' = Append(frames, [kind |-> kind, ret |-> pc, s |-> s, psr |-> flags,
                                 serves |-> IF kind = "NMI" THEN NMIStatus ELSE {}])
    /\ Same(<<a, x, y, out, status>>)

(* Mutant: B is pushed as it is. *)
DoInterruptKeepsB == Enter("IRQ", psr, \hfffe)
DoInterrupt == Enter("IRQ", psr \ {"B"}, \hfffe)
DoNMI == Enter("NMI", psr, \hfffa) /\ NMILock' = 1

(* Mutant: the instruction behind a CLI is not waited for. *)
IrqOpenAtOnce(io, c) ==
    /\ "I" \notin psr \/ iFlagJustSet
    /\ c <= -2 - io
(* Mutant: an SEI closes the window at once. *)
IrqOpenUntilSei(io, c) ==
    /\ "I" \notin psr
    /\ c <= -2 - io /\ ~iFlagJustCleared
(* The test behind an instruction, io of whose cycles were I/O.            *)
IrqOpen(io, c) ==
    /\ "I" \notin psr \/ iFlagJustSet
    /\ c <= -2 - io /\ ~iFlagJustCleared

TakeIrq ==
    /\ phase = "irq" /\ phase' = "irqTaken"
    /\ LET r == DoIntCheck(IntDue, CyclesToInt)
       IN  r.due /\ (\E io \in {0, 1} : IrqOpen(io, r.cycles)) /\ IntDue' = r.due
    /\ CyclesToInt' = NO_TIMER_INT_DUE
    /\ DoInterrupt
    /\ UNCHANGED <<lines, nmi, justs, nmis>>

PassIrq ==
    /\ phase = "irq" /\ phase' = "nmi"
    /\ LET r == DoIntCheck(IntDue, CyclesToInt)
       IN  /\ ~(r.due /\ \A io \in {0, 1} : IrqOpen(io, r.cycles))
           /\ IntDue' = r.due /\ CyclesToInt' = r.cycles
    /\ UNCHANGED <<nestVars, lines, nmi, justs, nmis>>

NmiPending == (NMIStatus # {} /\ OldNMIStatus = {}) \/ "nmi_econet" \in NMIStatus

TakeNmi ==
    /\ phase \in {"irqTaken", "nmi"} /\ phase' = "nmiTaken"
    /\ NmiPending
    /\ NMIStatus' = NMIStatus \ {"nmi_econet"}
    /\ DoNMI
    /\ \E n \in CyclesPerPoll : CyclesToInt' = Elapsed(n)
    /\ UNCHANGED <<intStatus, OldNMIStatus, IntDue, justs, nmis>>

(* OldNMIStatus takes the requests as they are now: behind DoNMI that is   *)
(* after another poll of the hardware.                                     *)
EndInstruction ==
    /\ \/ phase \in {"irqTaken", "nmi"} /\ ~NmiPending
       \/ phase = "nmiTaken"
    /\ phase' = "fetch"
    /\ OldNMIStatus' = NMIStatus
    /\ UNCHANGED <<nestVars, lines, NMILock, countdown, justs, nmis>>

-----------------------------------------------------------------------------
(* The devices raise requests when they are polled: while the memory       *)
(* access is timed, behind the instruction, and behind an entry.           *)
Polled == phase \in {"execute", "irq", "irqTaken", "nmiTaken"} /\ status = "run"

RaiseIrq ==
    /\ Polled
    /\ \E d \in IRQ_Nums \ intStatus :
           /\ intStatus' = intStatus \cup {d}
           /\ IF d = "sysVia" /\ CyclesToInt = NO_TIMER_INT_DUE
              THEN CyclesToInt' \in Delays ELSE CyclesToInt' = CyclesToInt
    /\ UNCHANGED <<nestVars, NMIStatus, nmi, IntDue, justs, phase, nmis>>

RaiseNmi ==
    /\ Polled /\ nmis < MaxNmis
    /\ \E d \in NMI_Nums \ NMIStatus : NMIStatus' = NMIStatus \cup {d}
    /\ nmis' = nmis + 1
    /\ UNCHANGED <<nestVars, intStatus, nmi, countdown, justs, phase>>

IntInit ==
    /\ NestInit
    /\ intStatus = {} /\ NMIStatus = {} /\ OldNMIStatus = {} /\ NMILock = 0
    /\ IntDue = FALSE /\ CyclesToInt = NO_TIMER_INT_DUE
    /\ iFlagJustSet = FALSE /\ iFlagJustCleared = FALSE /\ wasMasked = FALSE
    /\ phase = "fetch" /\ nmis = 0

Run == Fetch \/ Execute \/ TakeIrq \/ PassIrq \/ TakeNmi \/ EndInstruction
IntNext == Run \/ RaiseIrq \/ RaiseNmi
IntSpec == IntInit /\ [][IntNext]_ivars
(* The loop runs on; no device has to raise anything.                      *)
FairIntSpec == IntSpec /\ WF_ivars(Run)

-----------------------------------------------------------------------------
IntTypeOK ==
    /\ TypeOK
    /\ intStatus \subseteq IRQ_Nums /\ NMIStatus \subseteq NMI_Nums
    /\ OldNMIStatus \subseteq NMI_Nums /\ NMILock \in {0, 1}
    /\ IntDue \in BOOLEAN /\ CyclesToInt \in Int
    /\ iFlagJustSet \in BOOLEAN /\ iFlagJustCleared \in BOOLEAN
    /\ wasMasked \in BOOLEAN /\ phase \in Phases /\ nmis \in 0..MaxNmis

(* Nothing is interrupted with IRQs masked: I was clear before the last    *)
(* instruction too, even where that instruction set it, and an instruction *)
(* that clears it is followed by one more.  An RTI clears it at once.      *)
IrqSeesOldMask == [][TakeIrq => ~wasMasked]_ivars

(* A handler returns to what it interrupted: the address, the stack        *)
(* pointer and the flags, but for B, however interrupts and breaks nest.   *)
HandlersReturn ==
    [][Execute /\ Op = "RTI" /\ status' = "run" =>
         /\ frames # <<>> /\ pc' = Pending.ret /\ s' = Pending.s
         /\ psr' = Pending.psr]_ivars

(* The handler at $fffe serves BRK and IRQ and tells them apart by B in    *)
(* the flags on the stack: set by a BRK, clear for an IRQ, though a BRK    *)
(* leaves B set in the live flags.  An NMI has a vector of its own: it     *)
(* pushes B as the live flags have it.                                     *)
BreakToldFromIrq ==
    [][/\ TakeIrq => "B" \notin BytePsr(Popped(1)')
       /\ TakeNmi => ("B" \in BytePsr(Popped(1)') <=> "B" \in psr)
       /\ Execute /\ Op = "BRK" /\ status' = "run" => "B" \in BytePsr(Popped(1)')]_ivars

(* An IRQ handler that does not clear I is never interrupted by an IRQ.    *)
IrqHandlersDoNotNest ==
    \A k \in DOMAIN frames : frames[k].kind = "IRQ" =>
        \A l \in k + 1 .. Len(frames) : frames[l].kind # "IRQ"

(* A program that clears I again and again, if only for an instruction,    *)
(* serves each request, also one that waited until the countdown passed    *)
(* the value that means none is due.                                       *)
RequestsAreServed == intStatus # {} ~> intStatus = {}
=============================================================================
