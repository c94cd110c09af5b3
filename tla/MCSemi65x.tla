----------------------------- MODULE MCSemi65x -----------------------------
(***************************************************************************)
(* main of the simulator and the map file it reads.  A memory of 16 bytes  *)
(* of four values: command lines of up to four arguments, with files that  *)
(* end below, at and behind its end.  Map files over four addresses, with  *)
(* labels that share one, that share a line with an entry that is no       *)
(* label, and beyond the last address.                                     *)
(***************************************************************************)
EXTENDS Semi65x

Arg(opt, num, byte) == [opt |-> opt, num |-> num, byte |-> byte]
Exec == {Arg("-e", a, 0) : a \in {-2, -1, 6, 20}}
Load == {Arg("-l", a, 0) : a \in {4, 11, 15, 20}}
Binaries == {Arg("file", n, 2 + (n % 2)) : n \in {0, 1, 4, 5, 15, 16}}
Options ==
    {Arg("-c", 6502, 0), Arg("-c", 68000, 0), Arg("-c 65C02", 0, 0), Arg("-t", 0, 0),
     Arg("-w?", 0, 0), Arg("missing", 0, 0), Arg("-wb", 5, 0), Arg("-wh", 4, 0),
     Arg("-wl", 4, 0)}
      \cup Exec \cup Load \cup Binaries
MCStores == {[a \in {5} |-> v] : v \in 0..3} \cup {[a \in {4, 7} |-> v] : v \in {0, 1}}

(* Two watchpoints, a file, -t; two files; a map file. *)
MCCommandLines ==
    UNION {[1..n -> Options] : n \in 0..3}
      \cup {<<l, f, k, g>> : l, k \in Load, f, g \in Binaries}
      \cup {<<x, y, z, Arg("-t", 0, 0)>> : x \in Options, y \in Options, z \in Options}
      \cup {<<Arg("-m", 0, 0)>>, <<Arg("-m", 0, 0), Arg("missing", 0, 0)>>,
            <<Arg("-e", 6, 0), Arg("-m", 0, 0)>>}

L(n, a) == [name |-> n, addr |-> a]
Entry(e, ls) == [kind |-> "entry", entries |-> e, labels |-> ls]
MCMapLines ==
    {[kind |-> h, entries |-> 0, labels |-> <<>>] :
        h \in {"Modules list", "Segment list", "Exports list by name", "Imports list"}}
      \cup {Entry(1, <<L("main", 1)>>), Entry(2, <<L("puts", 1), L("exit", 3)>>),
            Entry(2, <<L("exit", 0)>>),
            Entry(1, <<L("rom", 6)>>)}
=============================================================================
