----------------------------- MODULE MCTestLogs -----------------------------
(***************************************************************************)
(* The two readers of test logs.  resultdb: two importers whose files      *)
(* share exp files and tests in different orders, on the database as       *)
(* db.sql leaves it and on its tables alone.  failproc: files of up to     *)
(* three lines behind an optional header.                                  *)
(***************************************************************************)
EXTENDS TestLogs, TLC

CONSTANTS a, b

L(kind, word, test) == [kind |-> kind, word |-> word, test |-> test]
Target == L("running", "Running", "target")
Exp(e) == L("running", "Running", e)
R(res, t) == L("colon", res, t)
Text == L("text", "", "")

MCSumFiles ==
    (a :> <<Target, R("PASS", "t"), Text, Exp("x.exp"), R("gdb compile failed", "t")>>)
      @@ (b :> <<Text, Target, Exp("x.exp"), R("XFAIL", "t")>>)

Sanity == [targets |-> <<"6502">>, configs |-> <<"build.sh">>, multilibs |-> <<".;">>,
           components |-> <<"gcc">>, expfiles |-> <<"compile.exp">>,
           tests |-> <<<<1, 1, "Check for foos and bars">>, <<1, 1, "Check for foos and bazzes">>>>]
MCInitialTables == {Sanity, Bare}

(* Lines of failproc, which may have been written by failproc. *)
Read(lines) == {[kind |-> l.kind, word |-> l.word, test |-> l.test, counts |-> <<>>] : l \in lines}
Files(lines, n) == UNION {[1..k -> Read(lines)] : k \in 0..n}
Headers == {<<>>} \cup {<<f, g>> : f \in Read({R("FAIL", "s")}), g \in Read({Exp("x.exp")})}
MCFailSumFiles ==
    {h \o body : h \in Headers,
              body \in Files({R("FAIL", "s"), R("FAIL", "t"), R("PASS", "s"), R("KFAIL", "s"), R("XFAIL", "t"),
                           R("note", "t"), Text, Exp("x.exp"), L("summary", "===", "gcc")}, 3)}
MCFailXfailFiles == Files({R("FAIL", "s"), R("FAIL", "t"), R("PASS", "s"), R("note", "t"), Text}, 2)
=============================================================================
