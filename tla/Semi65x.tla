------------------------------ MODULE Semi65x ------------------------------
(***************************************************************************)
(* main of the simulator with the map file that its command line may name: *)
(* parse_map runs behind the arguments, before the first instruction.      *)
(***************************************************************************)
EXTENDS Loader

CONSTANTS A, MapLines, MaxLines
VARIABLES part, exports, read
Map == INSTANCE MapFile WITH Lines <- MapLines
ASSUME MapLinesAssumption == Map!LinesAssumption

mapVars == <<part, exports, read>>
mainVars == <<vars, mapVars>>
MainInit == Init /\ Map!Init

(* What follows parse_map is as without a map file, and is left to the     *)
(* command lines that have none.                                           *)
Mapped == \E k \in 1 .. arg - 1 : argv[k].opt = "-m"
ParseMap == Mapped /\ phase = "parse" /\ arg > Len(argv) /\ Map!Next /\ UNCHANGED vars
Main == Next /\ (Mapped => phase' # "run") /\ UNCHANGED mapVars
MainNext == Main \/ ParseMap
MainSpec == MainInit /\ [][MainNext]_mainVars

-----------------------------------------------------------------------------
(* Memory, arguments and exports have their types. *)
MainTypeOK == TypeOK /\ Map!TypeOK
(* Names of addresses are those that the map file gives to them last. *)
SymbolsFollowMap == Map!SymbolsFollowMap
=============================================================================
