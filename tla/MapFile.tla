----------------------------- MODULE MapFile -----------------------------
(***************************************************************************)
(* mapfile.cpp: the symbols that traces print, read from the linker's map  *)
(* file line by line.  The sections of the file follow each other; the     *)
(* lists of modules and segments are skipped, and only lines of one or two *)
(* labels count among the exports.                                         *)
(***************************************************************************)
EXTENDS Integers, Sequences, FiniteSetsExt

CONSTANTS
    A,              \* addresses, 2^16 in the program
    Lines,          \* the lines of map files: kind, and for an "entry" the number
                    \* of its entries and those that are labels
    MaxLines        \* bound on the lines of a file

Headers == {"Modules list", "Segment list", "Exports list by name", "Imports list"}
(* A label begins with a letter or underscore; addresses fit in an int. *)
LabelType == [name : STRING \ {"$"}, addr : Int]
LinesAssumption ==
    /\ A \in Nat \ {0}
    /\ \A l \in Lines :
         /\ l.kind \in Headers \/ (l.kind = "entry" /\ l.entries \in {1, 2})
         /\ l.labels \in Seq(LabelType)

VARIABLES
    part, exports,
    read        \* the lines so far
vars == <<part, exports, read>>

Parts == {"UNKNOWN", "MODULES_LIST", "SEGMENT_LIST", "EXPORTS_LIST", "IMPORTS_LIST"}
Empty == [a \in {} |-> ""]
Init == part = "UNKNOWN" /\ exports = Empty /\ read = <<>>

(* The header that ends a part, and the part it begins. *)
Follows ==
    [UNKNOWN      |-> <<"Modules list", "MODULES_LIST">>,
     MODULES_LIST |-> <<"Segment list", "SEGMENT_LIST">>,
     SEGMENT_LIST |-> <<"Exports list by name", "EXPORTS_LIST">>,
     EXPORTS_LIST |-> <<"Imports list", "IMPORTS_LIST">>,
     IMPORTS_LIST |-> <<"", "">>]

(* Mutant: the address is not cut to 16 bits. *)
add_symbolWide(ex, label) ==
    [a \in DOMAIN ex \cup {label.addr} |-> IF a = label.addr THEN label.name ELSE ex[a]]
add_symbol(ex, label) ==
    [a \in DOMAIN ex \cup {label.addr % A} |-> IF a = label.addr % A THEN label.name ELSE ex[a]]

Getline(line) == Len(read) < MaxLines /\ read' = Append(read, line)

(* Mutant: a header begins its part wherever it stands. *)
BeginsPartAny(line) == \E p \in Parts : line.kind = Follows[p][1] /\ part' = Follows[p][2]
BeginsPart(line) == line.kind = Follows[part][1] /\ part' = Follows[part][2]
ReadHeader ==
    \E line \in Lines : Getline(line) /\ BeginsPart(line) /\ UNCHANGED exports

(* A line that one of the regular expressions matches: one or two labels, nothing else. *)
Matches(line) == line.kind = "entry" /\ Len(line.labels) = line.entries
ReadExports ==
    \E line \in Lines :
        /\ part = "EXPORTS_LIST" /\ Matches(line) /\ Getline(line)
        /\ exports' = IF Len(line.labels) = 1 THEN add_symbol(exports, line.labels[1])
                      ELSE add_symbol(add_symbol(exports, line.labels[1]), line.labels[2])
        /\ UNCHANGED part

SkipLine ==
    \E line \in Lines :
        /\ line.kind # Follows[part][1] /\ ~(part = "EXPORTS_LIST" /\ Matches(line))
        /\ Getline(line)
        /\ UNCHANGED <<part, exports>>

Next == ReadHeader \/ ReadExports \/ SkipLine
Spec == Init /\ [][Next]_vars

(* upper_bound converts the int to the 16 bits of a key. *)
Below(addr) == {a \in DOMAIN exports : a <= addr % A}
find_symbol(addr) ==
    IF Below(addr) = {} THEN [name |-> "$", plus |-> addr]
    ELSE [name |-> exports[Max(Below(addr))], plus |-> addr - Max(Below(addr))]

-----------------------------------------------------------------------------
TypeOK == part \in Parts /\ DOMAIN exports \subseteq 0 .. A - 1

(* The exports are those of the part of the file between the headers, each *)
(* in its order; the last name of an address counts.                       *)
After(kind, k) == Min({j \in k + 1 .. Len(read) : read[j].kind = kind} \cup {Len(read) + 1})
ExportsBegin == After("Exports list by name", After("Segment list", After("Modules list", 0)))
Section == ExportsBegin + 1 .. After("Imports list", ExportsBegin) - 1
Places == {p \in Section \X {1, 2} : Matches(read[p[1]]) /\ p[2] <= Len(read[p[1]].labels)}
Label(p) == read[p[1]].labels[p[2]]
Named(addr) == {p \in Places : Label(p).addr % A = addr}
IsLast(p, S) == \A q \in S : q[1] < p[1] \/ (q[1] = p[1] /\ q[2] <= p[2])
LastNamesOfSection ==
    /\ DOMAIN exports = {Label(p).addr % A : p \in Places}
    /\ \A a \in DOMAIN exports :
         \E p \in Named(a) : IsLast(p, Named(a)) /\ exports[a] = Label(p).name

(* What find_symbol returns denotes the address that it was asked for,     *)
(* those outside of memory included; within memory, by the nearest label   *)
(* at or below it, and by number only when there is none.                  *)
FindsNearest ==
    /\ \A addr \in -A .. 2 * A - 1 :
         LET s == find_symbol(addr)
         IN  s.name # "$" => \E a \in DOMAIN exports : exports[a] = s.name /\ a + s.plus = addr
    /\ \A addr \in 0 .. A - 1 :
         LET s == find_symbol(addr)
         IN  IF s.name = "$" THEN DOMAIN exports \cap 0..addr = {}
             ELSE s.plus >= 0 /\ DOMAIN exports \cap (addr - s.plus + 1) .. addr = {}

(* Names of addresses are those that the map file gives to them last. *)
SymbolsFollowMap == LastNamesOfSection /\ FindsNearest
=============================================================================
