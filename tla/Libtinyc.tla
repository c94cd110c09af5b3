------------------------------ MODULE Libtinyc ------------------------------
(***************************************************************************)
(* A program that uses libtinyc: one of its string functions on a memory,  *)
(* or its formatted output, again and again.                               *)
(***************************************************************************)
EXTENDS Strings

CONSTANTS IntBits, LongBits, Pieces, MaxPieces
VARIABLES __m65x_char_to_file, printing, frames, out, str, printed
P == INSTANCE Printf WITH call <- printing, ret <- printed
ASSUME PrintfWidths == P!WidthsAssumption
ASSUME PrintfPieces == P!PiecesAssumption

-----------------------------------------------------------------------------
(* A program that only prints has no string function to wait for.          *)
printVars == <<__m65x_char_to_file, printing, frames, out, str, printed>>
libVars == <<vars, printVars>>
Blank == [a \in 0 .. N - 1 |-> 0]
NoCall == [fn |-> "none", p |-> 0, q |-> 0, n |-> 0, mem |-> Blank]
Prints == call = NoCall
LibInit ==
    /\ P!Init
    /\ \/ Init
       \/ call = NoCall /\ mem = Blank /\ pc = "done" /\ i = 0 /\ last = NULL /\ ret = NULL
UsesString == Next /\ UNCHANGED printVars
UsesPrintf(A) == Prints /\ A /\ UNCHANGED vars
LibNext == UsesString \/ UsesPrintf(P!Next)
LibSpec == LibInit /\ [][LibNext]_libVars /\ WF_libVars(UsesString) /\ WF_libVars(UsesPrintf(P!Turn))

-----------------------------------------------------------------------------
(* Memory, calls and the frames of formatted output have their types. *)
LibTypeOK == TypeOK /\ P!TypeOK
(* Formatted output is complete, wherever it goes. *)
TextIsWritten == P!TextIsWritten
(* Every call of a string function or of printf comes to its end. *)
LibReturns == Returns /\ P!CallsReturn
=============================================================================
