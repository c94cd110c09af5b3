-------------------------- MODULE TestLogs_proofs --------------------------
(***************************************************************************)
(* What holds of imports that run at once, and of failproc on any files.   *)
(*                                                                         *)
(* They cannot all fail.  An importer is doomed between its select, which  *)
(* found no row, and its insert, if another has inserted the row since.    *)
(* There is always one that has not failed and is not doomed: whoever      *)
(* dooms others has just inserted, and looks on with a select.             *)
(*                                                                         *)
(* They do not mix their runs.  A run holds the results of its importer's  *)
(* file up to some line, in rows that refer to rows of the other tables;   *)
(* an importer in the file knows how far its run holds it, and the id of   *)
(* the exp file that it stands in.                                         *)
(*                                                                         *)
(* failproc writes what its files say.  Its invariant follows the phases:  *)
(* the tests of the lines read so far are those of the table, the output   *)
(* is the input, line by line, with the listed failures changed, and the   *)
(* counters are the numbers of result lines in it.  Of a second run it     *)
(* also says what the first has written: no failure is left in it that     *)
(* the second would change, and its last line counts what it contains.     *)
(***************************************************************************)
EXTENDS TestLogs, Induction

Doomed(i) == status[i] = "running" /\ phase[i] = "insert" /\ ~Unique(Asks(i), Key(i))
Survivor(i) == status[i] # "failed" /\ ~Doomed(i)
SomeoneSurvives == \E i \in Importers : Survivor(i)

Domains ==
    /\ status = [i \in Importers |-> status[i]] /\ phase = [i \in Importers |-> phase[i]]
    /\ step = [i \in Importers |-> step[i]] /\ line = [i \in Importers |-> line[i]]
    /\ id = [i \in Importers |-> id[i]]
Survival == Domains /\ SomeoneSurvives

(* At the start nobody is between a select and an insert. *)
LEMMA StartsSurviving == Init => Survival
<1>1. PICK i \in Importers : TRUE BY ImportersAssumption
<1>2. Init => Survivor(i) BY <1>1 DEF Init, Survivor, Doomed
<1>3. Init => Domains BY DEF Init, Domains
<1> QED BY <1>1, <1>2, <1>3 DEF Survival, SomeoneSurvives

(* A query that leaves the tables alone changes only its own importer.     *)
LEMMA OthersUntouched ==
    ASSUME Domains, NEW i \in Importers, NEW j \in Importers, i # j, Survivor(j),
           UNCHANGED table,
           status'[j] = status[j], phase'[j] = phase[j], step'[j] = step[j],
           line'[j] = line[j], id'[j] = id[j]
    PROVE  Survivor(j)'
<1>1. Asks(j)' = Asks(j) BY DEF Asks, InFile, AtEnd, Class, Lines
<1>2. Key(j)' = Key(j) BY <1>1 DEF Key, InFile, Lines
<1>3. (~Unique(Asks(j), Key(j)))' <=> ~Unique(Asks(j), Key(j))
  BY <1>1, <1>2 DEF Unique, Rows
<1> QED BY <1>3 DEF Survivor, Doomed

(* Every step keeps a survivor: the importer that moves, unless its insert *)
(* was refused, when the survivor is another.                              *)
LEMMA StepDomains == Domains /\ [Next]_vars => Domains'
<1> SUFFICES ASSUME Domains, [Next]_vars PROVE Domains' OBVIOUS
<1> USE DEF Domains
<1>1. ASSUME NEW i \in Importers, Query(i) PROVE Domains'
  <2>1. CASE Found(i) BY <2>1 DEF Found, Proceed
  <2>2. CASE NotFound(i) BY <2>2 DEF NotFound
  <2>3. CASE Insert(i) BY <2>3 DEF Insert, Proceed
  <2>4. CASE InsertRefused(i) BY <2>4 DEF InsertRefused, Fail
  <2>5. CASE CreateBundle(i) BY <2>5 DEF CreateBundle
  <2>6. CASE CreateTestrun(i) BY <2>6 DEF CreateTestrun
  <2>7. CASE SkipHeader(i) BY <2>7 DEF SkipHeader
  <2>8. CASE SkipLine(i) BY <2>8 DEF SkipLine
  <2>9. CASE AddResult(i) BY <2>9 DEF AddResult
  <2>10. CASE End(i) BY <2>10 DEF End
  <2> QED BY <1>1, <2>1, <2>2, <2>3, <2>4, <2>5, <2>6, <2>7, <2>8, <2>9, <2>10 DEF Query
<1>2. ASSUME NEW i \in Importers, Kill(i) PROVE Domains' BY <1>2 DEF Kill
<1>3. ASSUME NEW i \in Importers, Rerun(i) PROVE Domains' BY <1>3 DEF Rerun
<1>4. CASE UNCHANGED vars BY <1>4 DEF vars
<1> QED BY <1>1, <1>2, <1>3, <1>4 DEF Next

LEMMA StepSurvives == Survival /\ [Next]_vars => SomeoneSurvives'
<1> SUFFICES ASSUME Domains, SomeoneSurvives, [Next]_vars PROVE SomeoneSurvives'
  BY DEF Survival
<1>1. ASSUME NEW i \in Importers, Query(i), ~InsertRefused(i) PROVE Survivor(i)'
  <2> USE DEF Domains, Survivor, Doomed, Running
  <2>1. CASE Found(i) BY <2>1 DEF Found, Proceed
  <2>2. CASE NotFound(i)
    <3>1. UNCHANGED <<table, status, step, id, line>> BY <2>2 DEF NotFound, db
    <3>2. Asks(i)' = Asks(i) BY <3>1 DEF Asks, InFile, AtEnd, Class, Lines
    <3>3. Key(i)' = Key(i) BY <3>1, <3>2 DEF Key, InFile, Lines
    <3>4. Unique(Asks(i), Key(i)) BY <2>2 DEF NotFound, Missing, Unique
    <3> QED BY <2>2, <3>1, <3>2, <3>3, <3>4 DEF Unique, Rows, NotFound
  <2>3. CASE Insert(i) BY <2>3 DEF Insert, Proceed
  <2>5. CASE CreateBundle(i) BY <2>5 DEF CreateBundle
  <2>6. CASE CreateTestrun(i) BY <2>6 DEF CreateTestrun
  <2>7. CASE SkipHeader(i) BY <2>7 DEF SkipHeader
  <2>8. CASE SkipLine(i) BY <2>8 DEF SkipLine
  <2>9. CASE AddResult(i) BY <2>9 DEF AddResult
  <2>10. CASE End(i) BY <2>10 DEF End
  <2> QED BY <1>1, <2>1, <2>2, <2>3, <2>5, <2>6, <2>7, <2>8, <2>9, <2>10 DEF Query
<1>2. ASSUME NEW i \in Importers, InsertRefused(i) PROVE SomeoneSurvives'
  <2>1. Doomed(i) BY <1>2 DEF InsertRefused, Running, Doomed
  <2>2. PICK j \in Importers : Survivor(j) BY DEF SomeoneSurvives
  <2>3. i # j BY <2>1, <2>2 DEF Survivor
  <2>4. UNCHANGED <<table, phase, step, line, id>> BY <1>2 DEF InsertRefused, Fail, db
  <2>5. status'[j] = status[j] BY <1>2, <2>3 DEF InsertRefused, Fail, Domains
  <2>6. Survivor(j)' BY <2>2, <2>3, <2>4, <2>5, OthersUntouched
  <2> QED BY <2>6 DEF SomeoneSurvives
<1>3. ASSUME NEW i \in Importers, Kill(i) PROVE Survivor(i)'
  BY <1>3 DEF Kill, Survivor, Doomed, Domains
<1>4. ASSUME NEW i \in Importers, Rerun(i) PROVE Survivor(i)'
  BY <1>4 DEF Rerun, Survivor, Doomed, Domains
<1>5. ASSUME UNCHANGED vars PROVE SomeoneSurvives'
  <2>1. PICK j \in Importers : Survivor(j) BY DEF SomeoneSurvives
  <2>2. UNCHANGED <<table, status, phase, step, line, id>> BY <1>5 DEF vars
  <2>3. Asks(j)' = Asks(j) BY <2>2 DEF Asks, InFile, AtEnd, Class, Lines
  <2>4. Key(j)' = Key(j) BY <2>2, <2>3 DEF Key, InFile, Lines
  <2>5. Survivor(j)' BY <2>1, <2>2, <2>3, <2>4 DEF Survivor, Doomed, Unique, Rows
  <2> QED BY <2>5 DEF SomeoneSurvives
<1>6. CASE Next
  <2>1. PICK i \in Importers : Query(i) \/ Kill(i) \/ Rerun(i) BY <1>6 DEF Next
  <2> QED BY <2>1, <1>1, <1>2, <1>3, <1>4 DEF SomeoneSurvives
<1> QED BY <1>5, <1>6

(* Of any number of imports at once, some have not failed: between select  *)
(* and insert only another's insert can make one fail.                     *)
THEOREM SomeoneAlwaysImports == Spec => []SomeoneImports
<1>1. Survival => SomeoneImports BY DEF Survival, SomeoneSurvives, Survivor, SomeoneImports
<1>2. Survival /\ [Next]_vars => Survival' BY StepDomains, StepSurvives DEF Survival
<1> QED BY <1>1, <1>2, StartsSurviving, PTL DEF Spec

-----------------------------------------------------------------------------
(* A run holds a prefix of its importer's file.  Said of the rows: each    *)
(* stands for a result line before line n, each of these lines has a row,  *)
(* and no line has two.                                                    *)
Collate(i, l) == l - Header[i] - 1
Fact(i, l) == [exp |-> ExpAt(i, l), test |-> Lines(i)[l].test, result |-> result(Lines(i)[l]),
               at |-> Collate(i, l)]
Shown(r) == [exp |-> table.expfiles[table.tests[r.test][2]], test |-> table.tests[r.test][3],
             result |-> r.result, at |-> r.test_collate]

Holds(run, i, n) ==
    /\ \A k \in Of(run) : \E l \in ResultLines(i) : l < n /\ Shown(results[k]) = Fact(i, l)
    /\ \A l \in ResultLines(i) : l < n => \E k \in Of(run) : results[k].test_collate = Collate(i, l)
    /\ \A k, m \in Of(run) : results[k].test_collate = results[m].test_collate => k = m

(* The line an importer has come to. *)
Reached(i) == IF InFile(i) THEN line[i] ELSE Header[i] + 1

(* What an importer knows by where it is: its run, the id of the exp file  *)
(* that its file is at, the id of the test whose result it will add.       *)
HasRun(i) ==
    step[i] > 5 =>
        /\ id[i].run \in DOMAIN testrun /\ testrun[id[i].run].importer = i
        /\ Holds(id[i].run, i, Reached(i))
HasExp(i) ==
    step[i] > 7 =>
        /\ id[i].expfiles \in DOMAIN table.expfiles
        /\ table.expfiles[id[i].expfiles] = ExpAt(i, Reached(i) - 1)
HasTest(i) ==
    phase[i] = "add" =>
        /\ InFile(i) /\ line[i] \in ResultLines(i) /\ id[i].tests \in DOMAIN table.tests
        /\ table.tests[id[i].tests] = <<id[i].components, id[i].expfiles, Lines(i)[line[i]].test>>
Stands(i) ==
    /\ step[i] \in 1 .. 9
    /\ InFile(i) => line[i] \in Header[i] + 1 .. Len(Lines(i)) + 1
    /\ phase[i] = "insert" => Asks(i) \in Tables
    /\ status[i] = "done" => InFile(i) /\ AtEnd(i)
Importing(i) == Stands(i) /\ HasRun(i) /\ HasExp(i) /\ HasTest(i)

ResultNames == Results \cup {"GDB_compile_failed", "Misc_error"}
Names == STRING \cup {Fixed[t] : t \in Tables \ {"tests"}}
RowIn(t) == IF t = "tests" THEN Nat \X Nat \X STRING ELSE Names
RunType == [importer : Importers, mlib : Nat]
ResultType == [run : Nat, test : Nat, test_collate : Int, result : ResultNames]
IdType == [Tables \cup {"run"} -> Nat]
RowsRefer ==
    \A k \in DOMAIN results :
        /\ results[k].run \in DOMAIN testrun
        /\ results[k].test \in DOMAIN table.tests
        /\ table.tests[results[k].test][2] \in DOMAIN table.expfiles
Typed ==
    /\ table = [t \in Tables |-> table[t]] /\ \A t \in Tables : table[t] \in Seq(RowIn(t))
    /\ testrun \in Seq(RunType) /\ results \in Seq(ResultType)
    /\ status \in [Importers -> {"running", "done", "failed", "killed"}]
    /\ phase \in [Importers -> {"select", "insert", "add"}]
    /\ step \in [Importers -> Nat] /\ line \in [Importers -> Nat]
    /\ id \in [Importers -> IdType]
HoldsSome(run, i) == \E n \in Header[i] + 1 .. Len(Lines(i)) + 1 : Holds(run, i, n)
RunsHold == \A run \in DOMAIN testrun : HoldsSome(run, testrun[run].importer)
RInv == Typed /\ RowsRefer /\ RunsHold /\ \A i \in Importers : Importing(i)

-----------------------------------------------------------------------------
(* Lines of the files.                                                     *)
LEMMA ElementOf ==
  ASSUME NEW S, NEW seq \in Seq(S), NEW n \in DOMAIN seq
  PROVE  seq[n] \in S
OBVIOUS

LineType == [kind : STRING, word : STRING, test : STRING]
LEMMA ResultIsName == \A l \in LineType : l.test \in STRING /\ result(l) \in ResultNames
BY DEF LineType, result, ResultNames

LEMMA LinesAre ==
  ASSUME NEW i \in Importers
  PROVE  /\ Lines(i) \in Seq(LineType)
         /\ Len(Lines(i)) \in Nat /\ DOMAIN Lines(i) = 1 .. Len(Lines(i))
         /\ \A n \in 1 .. Len(Lines(i)) :
                Lines(i)[n].test \in STRING /\ result(Lines(i)[n]) \in ResultNames
<1>1. Lines(i) \in Seq(LineType)
  BY SumFilesAssumption DEF Lines, LineType
<1>2. Len(Lines(i)) \in Nat /\ DOMAIN Lines(i) = 1 .. Len(Lines(i)) BY <1>1
<1>3. ASSUME NEW n \in 1 .. Len(Lines(i))
      PROVE  Lines(i)[n].test \in STRING /\ result(Lines(i)[n]) \in ResultNames
  <2>1. Lines(i)[n] \in LineType BY <1>1, <1>2, <1>3, ElementOf
  <2> QED BY <2>1, ResultIsName
<1> QED BY <1>1, <1>2, <1>3

LEMMA HeaderIs ==
  ASSUME NEW i \in Importers
  PROVE  Header[i] \in 0 .. Len(Lines(i))
<1> DEFINE starts == {n \in DOMAIN Lines(i) : Lines(i)[n].kind = "running"}
<1>1. starts \in SUBSET (1 .. Len(Lines(i))) BY LinesAre
<1>2. Header[i] = IF starts = {} THEN Len(Lines(i)) ELSE CHOOSE n \in starts : \A k \in starts : n <= k
  BY DEF Header
<1> HIDE DEF starts
<1>3. CASE starts = {} BY <1>2, <1>3, LinesAre
<1>4. CASE starts # {}
  <2>1. starts \in SUBSET Nat BY <1>1
  <2>2. \E n \in starts : \A k \in starts : n <= k BY <1>4, <2>1, LeastNatural
  <2>3. Header[i] \in starts BY <1>2, <1>4, <2>2
  <2>4. Len(Lines(i)) \in Nat BY LinesAre
  <2>5. Header[i] \in 1 .. Len(Lines(i)) BY <1>1, <2>3
  <2> QED BY <2>4, <2>5
<1> QED BY <1>3, <1>4

Begun(i, n) == {k \in Header[i] + 1 .. n : Lines(i)[k].kind = "running"}
ExpOf(i, begun) ==
    IF begun = {} THEN Fixed.expfiles
    ELSE Lines(i)[CHOOSE k \in begun : \A m \in begun : m <= k].test
LEMMA ExpIs ==
  ASSUME NEW i, NEW n
  PROVE  ExpAt(i, n) = ExpOf(i, Begun(i, n))
BY Zenon DEF ExpAt, Begun, ExpOf

LEMMA ExpOfNone ==
  ASSUME NEW i \in Importers
  PROVE  ExpAt(i, Header[i]) = Fixed.expfiles
<1>1. Begun(i, Header[i]) = {} BY HeaderIs DEF Begun
<1> QED BY <1>1, ExpIs DEF ExpOf

LEMMA ExpStays ==
  ASSUME NEW i \in Importers, NEW n \in Header[i] + 1 .. Len(Lines(i)), Lines(i)[n].kind # "running"
  PROVE  ExpAt(i, n) = ExpAt(i, n - 1)
<1>1. n \in Int /\ Header[i] \in Int BY HeaderIs
<1>2. Begun(i, n) = Begun(i, n - 1) BY <1>1 DEF Begun
<1> QED BY <1>2, ExpIs

LEMMA ExpBegins ==
  ASSUME NEW i \in Importers, NEW n \in Header[i] + 1 .. Len(Lines(i)), Lines(i)[n].kind = "running"
  PROVE  ExpAt(i, n) = Lines(i)[n].test
<1>1. n \in Int /\ Header[i] \in Int BY HeaderIs
<1>2. n \in Begun(i, n) /\ \A m \in Begun(i, n) : m \in Int /\ m <= n BY <1>1 DEF Begun
<1>3. \A k \in Begun(i, n) : (\A m \in Begun(i, n) : m <= k) => k = n BY <1>1, <1>2
<1>4. (CHOOSE k \in Begun(i, n) : \A m \in Begun(i, n) : m <= k) = n BY <1>2, <1>3
<1>5. Begun(i, n) # {} BY <1>2
<1> QED BY <1>4, <1>5, ExpIs DEF ExpOf

LEMMA ResultLine ==
  ASSUME NEW i \in Importers, NEW l \in ResultLines(i)
  PROVE  /\ l \in Header[i] + 1 .. Len(Lines(i)) /\ l \in 1 .. Len(Lines(i)) /\ l \in Int
         /\ Lines(i)[l].kind # "running" /\ ExpAt(i, l) = ExpAt(i, l - 1)
         /\ Collate(i, l) \in Int /\ Fact(i, l).at = Collate(i, l)
<1>1. l \in Header[i] + 1 .. Len(Lines(i)) /\ IsResult(Lines(i)[l]) BY DEF ResultLines
<1>2. l \in Int /\ Header[i] \in Int /\ l \in 1 .. Len(Lines(i)) /\ Collate(i, l) \in Int
  BY <1>1, HeaderIs, LinesAre DEF Collate
<1>3. Lines(i)[l].kind # "running" BY <1>1 DEF IsResult, classify
<1>4. Fact(i, l).at = Collate(i, l) BY DEF Fact
<1> QED BY <1>1, <1>2, <1>3, <1>4, ExpStays

LEMMA CollateTells ==
  ASSUME NEW i \in Importers, NEW l \in Int, NEW k \in Int, Collate(i, l) = Collate(i, k)
  PROVE  l = k
BY HeaderIs DEF Collate

-----------------------------------------------------------------------------
(* What a run holds under the steps: rows of the tables stay where they    *)
(* are, and only add_result adds to a run.                                 *)
Grown ==
    \A t \in Tables : \A r \in DOMAIN table[t] :
        r \in DOMAIN table'[t] /\ table'[t][r] = table[t][r]

LEMMA SameIsGrown == ASSUME UNCHANGED table PROVE Grown
BY DEF Grown

LEMMA ShownKept ==
  ASSUME Grown, NEW r, r.test \in DOMAIN table.tests,
         table.tests[r.test][2] \in DOMAIN table.expfiles
  PROVE  Shown(r)' = Shown(r)
BY DEF Grown, Shown, Tables

LEMMA HoldsKept ==
  ASSUME RowsRefer, Grown, results' = results, NEW run, NEW i, NEW n, Holds(run, i, n)
  PROVE  Holds(run, i, n)'
<1>1. Of(run)' = Of(run) BY DEF Of
<1>2. \A k \in Of(run) : Shown(results[k])' = Shown(results[k])
  <2> TAKE k \in Of(run)
  <2>1. k \in DOMAIN results BY DEF Of
  <2> QED BY <2>1, ShownKept DEF RowsRefer
<1> QED BY <1>1, <1>2 DEF Holds

LEMMA Appended ==
  ASSUME results \in Seq(ResultType), NEW r \in ResultType, results' = Append(results, r)
  PROVE  /\ results' \in Seq(ResultType) /\ Len(results) + 1 \notin DOMAIN results
         /\ DOMAIN results' = DOMAIN results \cup {Len(results) + 1}
         /\ results'[Len(results) + 1] = r
         /\ \A k \in DOMAIN results : results'[k] = results[k]
<1>1. /\ results' \in Seq(ResultType)
      /\ results'[Len(results) + 1] = r
      /\ \A k \in DOMAIN results : results'[k] = results[k]
  OBVIOUS
<1>2. DOMAIN results = 1 .. Len(results) /\ DOMAIN results' = 1 .. Len(results) + 1 /\ Len(results) \in Nat
  OBVIOUS
<1> QED BY <1>1, <1>2

LEMMA HoldsOfOthers ==
  ASSUME results \in Seq(ResultType), NEW r \in ResultType, results' = Append(results, r),
         UNCHANGED table, NEW run, r.run # run, NEW i, NEW n, Holds(run, i, n)
  PROVE  Holds(run, i, n)'
<1>1. Of(run)' = Of(run) BY Appended DEF Of
<1>2. \A k \in Of(run) : results'[k] = results[k] BY Appended DEF Of
<1>3. \A k \in Of(run) : Shown(results[k])' = Shown(results[k]) BY <1>2 DEF Shown
<1>4. \A k \in Of(run)' : \E l \in ResultLines(i) : l < n /\ Shown(results[k])' = Fact(i, l)
  BY <1>1, <1>3 DEF Holds
<1>5. \A l \in ResultLines(i) : l < n => \E k \in Of(run)' : results'[k].test_collate = Collate(i, l)
  BY <1>1, <1>2 DEF Holds
<1>6. \A k, m \in Of(run)' : results'[k].test_collate = results'[m].test_collate => k = m
  BY <1>1, <1>2 DEF Holds
<1> QED BY <1>4, <1>5, <1>6 DEF Holds

LEMMA HoldsOneMore ==
  ASSUME results \in Seq(ResultType), NEW r \in ResultType, results' = Append(results, r),
         UNCHANGED table, NEW run, r.run = run, NEW i \in Importers, NEW l \in ResultLines(i),
         Holds(run, i, l), r.test_collate = Collate(i, l), Shown(r) = Fact(i, l)
  PROVE  Holds(run, i, l + 1)'
<1>0. PICK last : last = Len(results) + 1 OBVIOUS
<1>1. Of(run)' = Of(run) \cup {last} /\ last \notin Of(run) BY <1>0, Appended DEF Of
<1>2. \A k \in Of(run) : results'[k] = results[k] BY Appended DEF Of
<1>3. results'[last] = r BY <1>0, Appended
<1>4. \A k : k = last => Shown(results[k])' = Fact(i, l) BY <1>3 DEF Shown
<1>5. \A k \in Of(run) : Shown(results[k])' = Shown(results[k]) BY <1>2 DEF Shown
<1>6. l \in Int /\ \A k \in ResultLines(i) : k \in Int BY ResultLine
<1>7. ASSUME NEW k \in Of(run)'
      PROVE  \E m \in ResultLines(i) : m < l + 1 /\ Shown(results[k])' = Fact(i, m)
  <2>1. CASE k = last
    <3>1. l < l + 1 BY <1>6
    <3>2. Shown(results[k])' = Fact(i, l) BY <1>4, <2>1
    <3> QED BY <3>1, <3>2
  <2>2. CASE k \in Of(run)
    <3>1. PICK m \in ResultLines(i) : m < l /\ Shown(results[k]) = Fact(i, m)
      BY <2>2 DEF Holds
    <3>2. m < l + 1 BY <1>6, <3>1
    <3>3. Shown(results[k])' = Fact(i, m) BY <1>5, <2>2, <3>1
    <3> QED BY <3>2, <3>3
  <2> QED BY <1>1, <2>1, <2>2
<1>8. ASSUME NEW m \in ResultLines(i), m < l + 1
      PROVE  \E k \in Of(run)' : results'[k].test_collate = Collate(i, m)
  <2>1. CASE m = l BY <1>1, <1>3, <2>1
  <2>2. CASE m < l
    <3>1. PICK k \in Of(run) : results[k].test_collate = Collate(i, m) BY <2>2 DEF Holds
    <3> QED BY <1>1, <1>2, <3>1
  <2>3. m = l \/ m < l BY <1>6, <1>8
  <2> QED BY <2>1, <2>2, <2>3
<1>9. ASSUME NEW k \in Of(run)
      PROVE  results[k].test_collate # Collate(i, l)
  <2>1. PICK m \in ResultLines(i) : m < l /\ Shown(results[k]) = Fact(i, m) BY DEF Holds
  <2>2. results[k].test_collate = Shown(results[k]).at BY DEF Shown
  <2>3. results[k].test_collate = Collate(i, m) BY <2>1, <2>2, ResultLine
  <2> QED BY <1>6, <2>1, <2>3, CollateTells
<1>10. ASSUME NEW k \in Of(run)', NEW m \in Of(run)',
              results'[k].test_collate = results'[m].test_collate
       PROVE  k = m
  <2>1. CASE k \in Of(run) /\ m \in Of(run) BY <1>2, <1>10, <2>1 DEF Holds
  <2>2. CASE k = last \/ m = last BY <1>1, <1>2, <1>3, <1>9, <1>10, <2>2
  <2> QED BY <1>1, <2>1, <2>2
<1> QED BY <1>7, <1>8, <1>10 DEF Holds

LEMMA HoldsSkipped ==
  ASSUME NEW run, NEW i \in Importers, NEW n \in Int, n \notin ResultLines(i), Holds(run, i, n)
  PROVE  Holds(run, i, n + 1)
<1>1. \A l \in ResultLines(i) : l \in Int /\ (l < n + 1 <=> l < n) BY ResultLine
<1> QED BY <1>1 DEF Holds

LEMMA HoldsNothing ==
  ASSUME NEW run, NEW i \in Importers, Of(run) = {}
  PROVE  Holds(run, i, Header[i] + 1)
<1>1. \A l \in ResultLines(i) : ~(l < Header[i] + 1) BY ResultLine, HeaderIs
<1> QED BY <1>1 DEF Holds

-----------------------------------------------------------------------------
(* What an importer asks for, by where it stands.                          *)
LEMMA Classes ==
  ASSUME NEW l
  PROVE  /\ classify(l) = "Begin_exp" <=> l.kind = "running"
         /\ l.kind = "running" => ~IsResult(l)
<1>1. CASE l.kind = "running" BY <1>1 DEF classify, IsResult
<1>2. CASE l.kind = "summary" BY <1>2 DEF classify
<1>3. CASE l.kind = "text" BY <1>3 DEF classify
<1>4. CASE l.kind = "colon" /\ l.word \in Results BY <1>4 DEF classify
<1>5. CASE /\ l.kind # "running" /\ l.kind # "summary" /\ l.kind # "text"
           /\ ~(l.kind = "colon" /\ l.word \in Results)
  BY <1>5 DEF classify
<1> QED BY <1>1, <1>2, <1>3, <1>4, <1>5

LEMMA AsksInFile ==
  ASSUME NEW i \in Importers, Typed, Stands(i), InFile(i), ~AtEnd(i)
  PROVE  /\ line[i] \in Header[i] + 1 .. Len(Lines(i)) /\ line[i] \in 1 .. Len(Lines(i))
         /\ line[i] \in Int
         /\ Asks(i) = "expfiles" =>
                Lines(i)[line[i]].kind = "running" /\ line[i] \notin ResultLines(i)
         /\ Asks(i) = "tests" => line[i] \in ResultLines(i)
         /\ Asks(i) = "nothing" =>
                Lines(i)[line[i]].kind # "running" /\ line[i] \notin ResultLines(i)
         /\ Asks(i) \in {"expfiles", "tests", "nothing"}
<1>1. line[i] \in Header[i] + 1 .. Len(Lines(i)) + 1 /\ ~(line[i] > Len(Lines(i)))
  BY DEF Stands, AtEnd
<1>2. /\ line[i] \in Header[i] + 1 .. Len(Lines(i)) /\ line[i] \in 1 .. Len(Lines(i))
      /\ line[i] \in Int
  BY <1>1, HeaderIs, LinesAre
<1>3. line[i] \in ResultLines(i) <=> IsResult(Lines(i)[line[i]])
  BY <1>2 DEF ResultLines
<1>4. Class(i) = "Begin_exp" <=> Lines(i)[line[i]].kind = "running"
  BY Classes DEF Class
<1>5. Lines(i)[line[i]].kind = "running" => ~IsResult(Lines(i)[line[i]])
  BY Classes
<1> QED BY <1>2, <1>3, <1>4, <1>5 DEF Asks

LEMMA AsksBefore ==
  ASSUME NEW i \in Importers, Typed, Stands(i), ~InFile(i)
  PROVE  /\ step[i] \in 1 .. 8 /\ Asks(i) = Setup[step[i]]
         /\ Asks(i) \in Tables => step[i] \in {1, 2, 4, 6, 7} /\ Asks(i) # "tests"
         /\ Asks(i) = "expfiles" <=> step[i] = 7
         /\ Asks(i) = "create_bundle" <=> step[i] = 3
         /\ Asks(i) = "create_testrun" <=> step[i] = 5
         /\ Asks(i) = "skip_header" <=> step[i] = 8
<1>1. step[i] \in 1 .. 8 BY DEF Stands, InFile, Setup
<1>2. Asks(i) = Setup[step[i]] BY DEF Asks
<1> QED BY <1>1, <1>2 DEF Setup, Tables

LEMMA KeyIsRow ==
  ASSUME NEW i \in Importers, Typed, Stands(i), Asks(i) \in Tables
  PROVE  Key(i) \in RowIn(Asks(i))
<1>1. CASE ~InFile(i)
  <2>1. Key(i) = Fixed[Asks(i)] BY <1>1 DEF Key
  <2>2. Asks(i) \in Tables \ {"tests"} BY <1>1, AsksBefore
  <2> QED BY <2>1, <2>2 DEF RowIn, Names
<1>2. CASE InFile(i) /\ ~AtEnd(i)
  <2>1. Lines(i)[line[i]].test \in STRING BY <1>2, AsksInFile, LinesAre
  <2>2. CASE Asks(i) = "expfiles"
    BY <1>2, <2>1, <2>2 DEF Key, RowIn, Names
  <2>3. CASE Asks(i) = "tests"
    <3>1. id[i].components \in Nat /\ id[i].expfiles \in Nat
      BY DEF Typed, IdType, Tables
    <3> QED BY <1>2, <2>1, <2>3, <3>1 DEF Key, RowIn
  <2>4. Asks(i) # "nothing" BY DEF Tables
  <2> QED BY <1>2, <2>2, <2>3, <2>4, AsksInFile
<1>3. CASE InFile(i) /\ AtEnd(i)
  BY <1>3 DEF Asks, Tables
<1> QED BY <1>1, <1>2, <1>3

(* The local state of an importer behind a get-or-create.                  *)
LEMMA Proceeds ==
  ASSUME NEW i \in Importers, Typed, NEW row \in Nat, Asks(i) \in Tables, Proceed(i, row)
  PROVE  /\ id' \in [Importers -> IdType]
         /\ phase' \in [Importers -> {"select", "insert", "add"}]
         /\ step' \in [Importers -> Nat] /\ line' \in [Importers -> Nat]
         /\ \A j \in Importers : j # i => id'[j] = id[j] /\ phase'[j] = phase[j]
                                          /\ step'[j] = step[j] /\ line'[j] = line[j]
         /\ id'[i][Asks(i)] = row
         /\ \A t \in Tables \cup {"run"} : t # Asks(i) => id'[i][t] = id[i][t]
         /\ phase'[i] = IF Asks(i) = "tests" THEN "add" ELSE "select"
         /\ step'[i] = IF InFile(i) THEN step[i] ELSE step[i] + 1
         /\ line'[i] = IF InFile(i) /\ Asks(i) = "expfiles" THEN line[i] + 1 ELSE line[i]
<1>1. id \in [Importers -> IdType] /\ id[i] \in IdType BY DEF Typed
<1>2. [id[i] EXCEPT ![Asks(i)] = row] \in IdType BY <1>1 DEF IdType
<1>3. id' = [id EXCEPT ![i] = [id[i] EXCEPT ![Asks(i)] = row]] BY DEF Proceed
<1>4. id' \in [Importers -> IdType] /\ id'[i] = [id[i] EXCEPT ![Asks(i)] = row] BY <1>1, <1>2, <1>3
<1>5. id'[i][Asks(i)] = row /\ \A t \in Tables \cup {"run"} : t # Asks(i) => id'[i][t] = id[i][t]
  BY <1>1, <1>4 DEF IdType
<1>6. \A j \in Importers : j # i => id'[j] = id[j] BY <1>1, <1>3
<1>7. /\ phase' \in [Importers -> {"select", "insert", "add"}]
      /\ \A j \in Importers : j # i => phase'[j] = phase[j]
      /\ phase'[i] = IF Asks(i) = "tests" THEN "add" ELSE "select"
  BY DEF Proceed, Typed
<1>8. /\ step' \in [Importers -> Nat] /\ \A j \in Importers : j # i => step'[j] = step[j]
      /\ step'[i] = IF InFile(i) THEN step[i] ELSE step[i] + 1
  BY DEF Proceed, Typed
<1>9. /\ line' \in [Importers -> Nat] /\ \A j \in Importers : j # i => line'[j] = line[j]
      /\ line'[i] = IF InFile(i) /\ Asks(i) = "expfiles" THEN line[i] + 1 ELSE line[i]
  BY DEF Proceed, Typed
<1> QED BY <1>4, <1>5, <1>6, <1>7, <1>8, <1>9

-----------------------------------------------------------------------------
(* An importer that does not move knows on what it knew.                   *)
RunsStay ==
    \A run \in DOMAIN testrun : run \in DOMAIN testrun' /\ testrun'[run] = testrun[run]
Waits(j) ==
    /\ status'[j] = status[j] /\ phase'[j] = phase[j] /\ step'[j] = step[j]
    /\ line'[j] = line[j] /\ id'[j] = id[j]

LEMMA SamePlace ==
  ASSUME NEW j, step'[j] = step[j], line'[j] = line[j]
  PROVE  /\ Asks(j)' = Asks(j) /\ Reached(j)' = Reached(j)
         /\ InFile(j)' = InFile(j) /\ AtEnd(j)' = AtEnd(j)
BY DEF Asks, Reached, InFile, AtEnd, Class, Lines

LEMMA ReachedInt ==
  ASSUME NEW i \in Importers, Typed
  PROVE  Reached(i) \in Int /\ Header[i] \in Int
BY HeaderIs DEF Typed, Reached

LEMMA HasTestStays ==
  ASSUME NEW j \in Importers, HasTest(j), Grown, step'[j] = step[j], line'[j] = line[j],
         id'[j] = id[j], phase'[j] = phase[j]
  PROVE  HasTest(j)'
<1> SUFFICES ASSUME phase[j] = "add"
             PROVE  /\ InFile(j)' /\ line'[j] \in ResultLines(j) /\ id'[j].tests \in DOMAIN table'.tests
                    /\ table'.tests[id'[j].tests]
                           = <<id'[j].components, id'[j].expfiles, Lines(j)[line'[j]].test>>
  BY DEF HasTest
<1>1. /\ InFile(j) /\ line[j] \in ResultLines(j) /\ id[j].tests \in DOMAIN table.tests
      /\ table.tests[id[j].tests] = <<id[j].components, id[j].expfiles, Lines(j)[line[j]].test>>
  BY DEF HasTest
<1>2. id[j].tests \in DOMAIN table'.tests /\ table'.tests[id[j].tests] = table.tests[id[j].tests]
  BY <1>1 DEF Grown, Tables
<1> QED BY <1>1, <1>2, SamePlace

LEMMA HasExpStays ==
  ASSUME NEW j \in Importers, HasExp(j), Grown, step'[j] = step[j], Reached(j)' = Reached(j),
         id'[j].expfiles = id[j].expfiles
  PROVE  HasExp(j)'
<1>1. ASSUME step[j] > 7
      PROVE  /\ id[j].expfiles \in DOMAIN table'.expfiles
             /\ table'.expfiles[id[j].expfiles] = ExpAt(j, Reached(j) - 1)
  BY <1>1 DEF HasExp, Grown, Tables
<1> QED BY <1>1 DEF HasExp

LEMMA HasRunStays ==
  ASSUME NEW j \in Importers, HasRun(j), RunsStay, step[j] > 5, Reached(j)' = Reached(j),
         id'[j].run = id[j].run,
         \A run, n : run = id[j].run /\ Holds(run, j, n) => Holds(run, j, n)'
  PROVE  HasRun(j)'
<1>1. PICK run, n : run = id[j].run /\ n = Reached(j) OBVIOUS
<1>2. run \in DOMAIN testrun /\ testrun[run].importer = j /\ Holds(run, j, n) BY <1>1 DEF HasRun
<1>3. Holds(run, j, n)' BY <1>1, <1>2
<1>4. run \in DOMAIN testrun' /\ testrun'[run].importer = j BY <1>2 DEF RunsStay
<1>5. run = id'[j].run /\ n = Reached(j)' BY <1>1
<1>6. Holds(id[j].run, j, Reached(j))' BY <1>3, <1>5
<1> QED BY <1>4, <1>5, <1>6 DEF HasRun

LEMMA Untouched ==
  ASSUME NEW j \in Importers, Importing(j), Waits(j), Grown, RunsStay,
         \A run, n : step[j] > 5 /\ run = id[j].run /\ Holds(run, j, n) => Holds(run, j, n)'
  PROVE  Importing(j)'
<1>1. /\ Asks(j)' = Asks(j) /\ Reached(j)' = Reached(j)
      /\ InFile(j)' = InFile(j) /\ AtEnd(j)' = AtEnd(j)
  BY SamePlace DEF Waits
<1>2. Stands(j)' BY <1>1 DEF Importing, Stands, Waits
<1>3. HasTest(j)' BY HasTestStays DEF Importing, Waits
<1>4. HasExp(j)' BY <1>1, HasExpStays DEF Importing, Waits
<1>5. HasRun(j)'
  <2>1. CASE step[j] > 5 BY <1>1, <2>1, HasRunStays DEF Importing, Waits
  <2>2. CASE ~(step[j] > 5) BY <2>2 DEF HasRun, Waits
  <2> QED BY <2>1, <2>2
<1> QED BY <1>2, <1>3, <1>4, <1>5 DEF Importing

-----------------------------------------------------------------------------
(* The importer that moves.  First behind a get-or-create, found or        *)
(* inserted.                                                               *)
LEMMA Arrives ==
  ASSUME RInv, NEW i \in Importers, Asks(i) \in Tables, NEW row \in Nat, Proceed(i, row),
         Grown, row \in DOMAIN table'[Asks(i)], table'[Asks(i)][row] = Key(i),
         UNCHANGED <<testrun, results, status>>, status[i] = "running"
  PROVE  Importing(i)'
<1>1. Typed /\ RowsRefer /\ Stands(i) /\ HasRun(i) /\ HasExp(i) BY DEF RInv, Importing
<1>2. \A run, n : Holds(run, i, n) => Holds(run, i, n)' BY <1>1, HoldsKept
<1>3. /\ id'[i][Asks(i)] = row
      /\ \A t \in Tables \cup {"run"} : t # Asks(i) => id'[i][t] = id[i][t]
      /\ phase'[i] = IF Asks(i) = "tests" THEN "add" ELSE "select"
      /\ step'[i] = IF InFile(i) THEN step[i] ELSE step[i] + 1
      /\ line'[i] = IF InFile(i) /\ Asks(i) = "expfiles" THEN line[i] + 1 ELSE line[i]
  BY <1>1, Proceeds
<1>4. RunsStay BY DEF RunsStay
<1>5. id'[i].run = id[i].run BY <1>3 DEF Tables
<1>6. CASE ~InFile(i)
  <2>1. step[i] \in {1, 2, 4, 6, 7} /\ Asks(i) # "tests" /\ (Asks(i) = "expfiles" <=> step[i] = 7)
    BY <1>1, <1>6, AsksBefore
  <2>2. step'[i] = step[i] + 1 /\ phase'[i] = "select" BY <1>3, <1>6, <2>1
  <2>3. ~InFile(i)' BY <2>1, <2>2 DEF InFile, Setup
  <2>4. Reached(i)' = Header[i] + 1 /\ Reached(i) = Header[i] + 1 BY <1>6, <2>3 DEF Reached
  <2>5. Stands(i)' BY <2>1, <2>2, <2>3 DEF Stands
  <2>6. HasTest(i)' BY <2>2 DEF HasTest
  <2>7. HasExp(i)'
    <3>1. CASE step[i] = 7
      <4>1. Asks(i) = "expfiles" /\ Key(i) = Fixed.expfiles BY <1>6, <2>1, <3>1 DEF Key
      <4>2. /\ id'[i].expfiles \in DOMAIN table'.expfiles
            /\ table'.expfiles[id'[i].expfiles] = Fixed.expfiles
        BY <1>3, <4>1
      <4>3. (Header[i] + 1) - 1 = Header[i] BY <1>1, ReachedInt
      <4> QED BY <2>4, <4>2, <4>3, ExpOfNone DEF HasExp
    <3>2. CASE step[i] # 7 BY <2>1, <2>2, <3>2 DEF HasExp
    <3> QED BY <3>1, <3>2
  <2>8. HasRun(i)'
    <3>1. CASE step[i] > 5
      <4>1. PICK run : run = id[i].run OBVIOUS
      <4>2. run \in DOMAIN testrun /\ testrun[run].importer = i /\ Holds(run, i, Header[i] + 1)
        BY <1>1, <2>4, <3>1, <4>1 DEF HasRun
      <4>3. Holds(run, i, Header[i] + 1)' BY <1>2, <4>2
      <4>4. run = id'[i].run BY <1>5, <4>1
      <4>5. Holds(id[i].run, i, Reached(i))' BY <2>4, <4>3, <4>4
      <4> QED BY <4>2, <4>4, <4>5 DEF HasRun
    <3>2. CASE ~(step[i] > 5) BY <2>1, <2>2, <3>2 DEF HasRun
    <3> QED BY <3>1, <3>2
  <2> QED BY <2>5, <2>6, <2>7, <2>8 DEF Importing
<1>7. CASE InFile(i)
  <2>0. ~AtEnd(i) BY <1>7 DEF Asks, Tables
  <2>1. /\ line[i] \in Header[i] + 1 .. Len(Lines(i)) /\ line[i] \in Int
        /\ Asks(i) = "expfiles" => Lines(i)[line[i]].kind = "running" /\ line[i] \notin ResultLines(i)
        /\ Asks(i) = "tests" => line[i] \in ResultLines(i)
        /\ Asks(i) \in {"expfiles", "tests"}
    BY <1>1, <1>7, <2>0, AsksInFile DEF Tables
  <2>2. step'[i] = step[i] /\ step[i] = 9 BY <1>1, <1>3, <1>7 DEF InFile, Setup, Stands
  <2>3. InFile(i)' BY <1>7, <2>2 DEF InFile
  <2>4. Reached(i)' = line'[i] /\ Reached(i) = line[i] BY <1>7, <2>3 DEF Reached
  <2>5. PICK run, n : run = id[i].run /\ n = line[i] OBVIOUS
  <2>6. run \in DOMAIN testrun /\ testrun[run].importer = i /\ Holds(run, i, n)
    BY <1>1, <2>2, <2>4, <2>5 DEF HasRun
  <2>7. run = id'[i].run /\ run \in DOMAIN testrun' /\ testrun'[run].importer = i
    BY <1>5, <2>5, <2>6
  <2>8. CASE Asks(i) = "expfiles"
    <3>1. line'[i] = n + 1 /\ phase'[i] = "select" BY <1>3, <1>7, <2>5, <2>8
    <3>2. Holds(run, i, n + 1) BY <2>1, <2>5, <2>6, <2>8, HoldsSkipped
    <3>3. Holds(run, i, n + 1)' BY <1>2, <3>2
    <3>4. HasRun(i)'
      <4>1. Holds(id[i].run, i, Reached(i))' BY <2>4, <2>7, <3>1, <3>3
      <4> QED BY <2>7, <4>1 DEF HasRun
    <3>5. Key(i) = Lines(i)[line[i]].test BY <1>7, <2>8 DEF Key
    <3>6. ExpAt(i, n) = Key(i) BY <2>1, <2>5, <2>8, <3>5, ExpBegins
    <3>7. HasExp(i)'
      <4>1. (n + 1) - 1 = n BY <2>1, <2>5
      <4>2. /\ id'[i].expfiles \in DOMAIN table'.expfiles
            /\ table'.expfiles[id'[i].expfiles] = ExpAt(i, Reached(i)' - 1)
        BY <1>3, <2>4, <2>8, <3>1, <3>6, <4>1
      <4> QED BY <4>2 DEF HasExp
    <3>8. HasTest(i)' BY <3>1 DEF HasTest
    <3>9. Stands(i)'
      <4>1. line'[i] \in Header[i] + 1 .. Len(Lines(i)) + 1
        BY <2>1, <2>5, <3>1, HeaderIs, LinesAre
      <4> QED BY <2>2, <3>1, <4>1 DEF Stands, Lines
    <3> QED BY <3>4, <3>7, <3>8, <3>9 DEF Importing
  <2>9. CASE Asks(i) = "tests"
    <3>1. line'[i] = n /\ line'[i] = line[i] /\ phase'[i] = "add" BY <1>3, <2>5, <2>9
    <3>2. Holds(run, i, n)' BY <1>2, <2>6
    <3>3. HasRun(i)'
      <4>1. Holds(id[i].run, i, Reached(i))' BY <2>4, <2>7, <3>1, <3>2
      <4> QED BY <2>7, <4>1 DEF HasRun
    <3>4. HasExp(i)'
      <4>1. Reached(i)' = Reached(i) BY <2>4, <3>1
      <4>2. id'[i].expfiles = id[i].expfiles BY <1>3, <2>9 DEF Tables
      <4> QED BY <1>1, <2>2, <4>1, <4>2, HasExpStays
    <3>5. HasTest(i)'
      <4>1. Key(i) = <<id[i].components, id[i].expfiles, Lines(i)[line[i]].test>>
        BY <1>7, <2>9 DEF Key
      <4>2. id'[i].components = id[i].components /\ id'[i].expfiles = id[i].expfiles
        BY <1>3, <2>9 DEF Tables
      <4>3. line[i] \in ResultLines(i) BY <2>1, <2>9
      <4>4. id'[i].tests \in DOMAIN table'.tests /\ table'.tests[id'[i].tests] = Key(i)
        BY <1>3, <2>9
      <4> QED BY <2>3, <3>1, <4>1, <4>2, <4>3, <4>4 DEF HasTest, Lines
    <3>6. Stands(i)' BY <1>1, <1>7, <2>2, <2>3, <3>1 DEF Stands, Lines
    <3> QED BY <3>3, <3>4, <3>5, <3>6 DEF Importing
  <2> QED BY <2>1, <2>8, <2>9
<1> QED BY <1>6, <1>7

(* The same of the other steps.                                            *)
LEMMA OwnLocal ==
  ASSUME RInv, NEW i \in Importers, UNCHANGED db,
         NotFound(i) \/ InsertRefused(i) \/ End(i) \/ Kill(i)
  PROVE  Importing(i)'
<1>1. Typed /\ RowsRefer /\ Stands(i) /\ HasRun(i) /\ HasExp(i) /\ HasTest(i)
  BY DEF RInv, Importing
<1>2. step'[i] = step[i] /\ line'[i] = line[i] /\ id'[i] = id[i]
  BY DEF NotFound, InsertRefused, Fail, End, Kill
<1>3. /\ Asks(i)' = Asks(i) /\ Reached(i)' = Reached(i)
      /\ InFile(i)' = InFile(i) /\ AtEnd(i)' = AtEnd(i)
  BY <1>2, SamePlace
<1>4. Grown /\ RunsStay BY SameIsGrown DEF db, RunsStay
<1>5. \A run, n : Holds(run, i, n) => Holds(run, i, n)' BY <1>1, <1>4, HoldsKept DEF db
<1>6. HasExp(i)' BY <1>1, <1>2, <1>3, <1>4, HasExpStays
<1>7. HasRun(i)'
  <2>1. CASE step[i] > 5 BY <1>1, <1>2, <1>3, <1>4, <1>5, <2>1, HasRunStays
  <2>2. CASE ~(step[i] > 5) BY <1>2, <2>2 DEF HasRun
  <2> QED BY <2>1, <2>2
<1>8. Stands(i)' /\ HasTest(i)'
  <2>1. CASE NotFound(i)
    <3>1. phase'[i] = "insert" /\ Asks(i) \in Tables /\ status' = status
      BY <1>1, <2>1 DEF NotFound, Typed
    <3> QED BY <1>1, <1>2, <1>3, <3>1 DEF Stands, HasTest
  <2>2. CASE InsertRefused(i) \/ Kill(i)
    <3>1. status'[i] # "done" /\ phase' = phase
      BY <1>1, <2>2 DEF InsertRefused, Fail, Kill, Typed
    <3>2. Stands(i)' BY <1>1, <1>2, <1>3, <3>1 DEF Stands
    <3> QED BY <1>1, <1>2, <1>4, <3>1, <3>2, HasTestStays
  <2>3. CASE End(i)
    <3>1. phase' = phase /\ phase[i] = "select" /\ InFile(i) /\ AtEnd(i)
      BY <2>3 DEF End, Running
    <3> QED BY <1>1, <1>2, <1>3, <3>1 DEF Stands, HasTest
  <2> QED BY <2>1, <2>2, <2>3
<1> QED BY <1>6, <1>7, <1>8 DEF Importing

LEMMA OwnRerun ==
  ASSUME RInv, NEW i \in Importers, Rerun(i)
  PROVE  Importing(i)'
<1>1. step'[i] = 1 /\ phase'[i] = "select" /\ status'[i] = "running"
  BY DEF Rerun, RInv, Typed
<1>2. ~InFile(i)' BY <1>1 DEF InFile, Setup
<1> QED BY <1>1, <1>2 DEF Importing, Stands, HasRun, HasExp, HasTest

LEMMA OwnBundle ==
  ASSUME RInv, NEW i \in Importers, CreateBundle(i)
  PROVE  Importing(i)'
<1>1. Typed /\ Stands(i) BY DEF RInv, Importing
<1>2. ~InFile(i)
  BY DEF CreateBundle, Asks, Tables
<1>3. step[i] = 3 BY <1>1, <1>2, AsksBefore DEF CreateBundle
<1>4. step'[i] = 4 /\ phase'[i] = "select" /\ status'[i] = "running"
  BY <1>1, <1>3 DEF CreateBundle, Running, Typed
<1>5. ~InFile(i)' BY <1>4 DEF InFile, Setup
<1> QED BY <1>4, <1>5 DEF Importing, Stands, HasRun, HasExp, HasTest

LEMMA OwnHeader ==
  ASSUME RInv, NEW i \in Importers, SkipHeader(i)
  PROVE  Importing(i)'
<1>1. Typed /\ RowsRefer /\ Stands(i) /\ HasRun(i) /\ HasExp(i) BY DEF RInv, Importing
<1>2. ~InFile(i)
  BY DEF SkipHeader, Asks, Tables
<1>3. step[i] = 8 BY <1>1, <1>2, AsksBefore DEF SkipHeader
<1>4. step'[i] = 9 /\ phase'[i] = "select" /\ status'[i] = "running"
  BY <1>1, <1>3 DEF SkipHeader, Running, Typed
<1>5. line'[i] = Header[i] + 1 /\ id' = id BY <1>1 DEF SkipHeader, Typed
<1>6. InFile(i)' BY <1>4 DEF InFile, Setup
<1>7. Reached(i)' = Header[i] + 1 /\ Reached(i) = Header[i] + 1 BY <1>2, <1>5, <1>6 DEF Reached
<1>8. UNCHANGED <<table, testrun, results>> BY DEF SkipHeader, db
<1>9. line'[i] \in Header[i] + 1 .. Len(Lines(i)) + 1 BY <1>5, HeaderIs, LinesAre
<1>10. Stands(i)' BY <1>4, <1>9 DEF Stands, Lines
<1>11. HasTest(i)' BY <1>4 DEF HasTest
<1>12. HasExp(i)' BY <1>1, <1>3, <1>5, <1>7, <1>8 DEF HasExp
<1>13. HasRun(i)'
  <2>1. PICK run, n : run = id[i].run /\ n = Reached(i) OBVIOUS
  <2>2. run \in DOMAIN testrun /\ testrun[run].importer = i /\ Holds(run, i, n)
    BY <1>1, <1>3, <2>1 DEF HasRun
  <2>3. Grown BY <1>8, SameIsGrown
  <2>4. Holds(run, i, n)' BY <1>1, <1>8, <2>2, <2>3, HoldsKept
  <2>5. Holds(id[i].run, i, Reached(i))' BY <1>5, <1>7, <2>1, <2>4
  <2> QED BY <1>5, <1>8, <2>1, <2>2, <2>5 DEF HasRun
<1> QED BY <1>10, <1>11, <1>12, <1>13 DEF Importing

(* A run that is created has no rows yet.                                  *)
LEMMA OwnTestrun ==
  ASSUME RInv, NEW i \in Importers, CreateTestrun(i)
  PROVE  Importing(i)' /\ testrun' \in Seq(RunType) /\ RunsStay /\ RunsHold'
<1>1. Typed /\ RowsRefer /\ Stands(i) BY DEF RInv, Importing
<1>2. ~InFile(i)
  BY DEF CreateTestrun, Asks, Tables
<1>3. step[i] = 5 BY <1>1, <1>2, AsksBefore DEF CreateTestrun
<1>4. step'[i] = 6 /\ phase'[i] = "select" /\ status'[i] = "running"
  BY <1>1, <1>3 DEF CreateTestrun, Running, Typed
<1>5. ~InFile(i)' BY <1>4 DEF InFile, Setup
<1>6. UNCHANGED <<table, results>> BY DEF CreateTestrun
<1>7. PICK new : new = Len(testrun) + 1 OBVIOUS
<1>8. id'[i].run = new
  <2>1. id[i] \in IdType BY <1>1 DEF Typed
  <2>2. id'[i] = [id[i] EXCEPT !.run = new] BY <1>1, <1>7 DEF CreateTestrun, Typed
  <2> QED BY <2>1, <2>2 DEF IdType
<1>9. /\ testrun' \in Seq(RunType) /\ testrun'[new].importer = i
      /\ DOMAIN testrun' = DOMAIN testrun \cup {new} /\ new \notin DOMAIN testrun
      /\ RunsStay
  <2> DEFINE r == [importer |-> i, mlib |-> id[i].multilibs]
  <2>1. id[i].multilibs \in Nat BY <1>1 DEF Typed, IdType, Tables
  <2>2. r \in RunType /\ r.importer = i BY <2>1 DEF RunType
  <2>3. testrun' = Append(testrun, r) /\ testrun \in Seq(RunType)
    BY <1>1 DEF CreateTestrun, Typed
  <2> HIDE DEF r
  <2>4. /\ testrun' \in Seq(RunType) /\ testrun'[Len(testrun) + 1] = r
        /\ \A k \in DOMAIN testrun : testrun'[k] = testrun[k]
    BY <2>2, <2>3
  <2>5. /\ DOMAIN testrun = 1 .. Len(testrun) /\ DOMAIN testrun' = 1 .. Len(testrun) + 1
        /\ Len(testrun) \in Nat
    BY <2>2, <2>3
  <2> QED BY <1>7, <2>2, <2>4, <2>5 DEF RunsStay
<1>10. Holds(new, i, Header[i] + 1)'
  <2>1. Of(new) = {} BY <1>1, <1>9 DEF RowsRefer, Of
  <2>2. Holds(new, i, Header[i] + 1) BY <2>1, HoldsNothing
  <2> QED BY <1>1, <1>6, <2>2, HoldsKept, SameIsGrown
<1>11. HasRun(i)'
  <2>1. Reached(i)' = Header[i] + 1 BY <1>5 DEF Reached
  <2>2. Holds(id[i].run, i, Reached(i))' BY <1>8, <1>10, <2>1
  <2> QED BY <1>8, <1>9, <2>2 DEF HasRun
<1>12. RunsHold'
  <2> SUFFICES ASSUME NEW run \in DOMAIN testrun'
               PROVE  HoldsSome(run, testrun[run].importer)'
    BY DEF RunsHold
  <2>1. CASE run \in DOMAIN testrun
    <3>1. PICK j : j = testrun[run].importer OBVIOUS
    <3>2. PICK n \in Header[j] + 1 .. Len(Lines(j)) + 1 : Holds(run, j, n)
      BY <2>1, <3>1 DEF RInv, RunsHold, HoldsSome
    <3>3. Holds(run, j, n)' BY <1>1, <1>6, <3>2, HoldsKept, SameIsGrown
    <3>4. HoldsSome(run, j)' BY <3>2, <3>3 DEF HoldsSome, Lines
    <3>5. testrun'[run].importer = j BY <1>9, <2>1, <3>1 DEF RunsStay
    <3> QED BY <3>4, <3>5
  <2>2. CASE run = new
    <3>1. Header[i] + 1 \in Header[i] + 1 .. Len(Lines(i)) + 1 BY HeaderIs, LinesAre
    <3>2. HoldsSome(new, i)' BY <1>10, <3>1 DEF HoldsSome, Lines
    <3> QED BY <1>9, <2>2, <3>2
  <2> QED BY <1>9, <2>1, <2>2
<1>13. Stands(i)' /\ HasExp(i)' /\ HasTest(i)'
  BY <1>4, <1>5 DEF Stands, HasExp, HasTest
<1> QED BY <1>9, <1>11, <1>12, <1>13 DEF Importing

LEMMA OwnSkip ==
  ASSUME RInv, NEW i \in Importers, SkipLine(i)
  PROVE  Importing(i)'
<1>1. Typed /\ RowsRefer /\ Stands(i) /\ HasRun(i) /\ HasExp(i) BY DEF RInv, Importing
<1>2. InFile(i) /\ ~AtEnd(i) /\ Asks(i) = "nothing" /\ phase[i] = "select" /\ status[i] = "running"
  BY DEF SkipLine, Running
<1>3. PICK run, n : run = id[i].run /\ n = line[i] OBVIOUS
<1>4. /\ n \in Header[i] + 1 .. Len(Lines(i)) /\ n \in Int
      /\ Lines(i)[n].kind # "running" /\ n \notin ResultLines(i)
  BY <1>1, <1>2, <1>3, AsksInFile
<1>5. /\ line'[i] = n + 1 /\ step'[i] = step[i] /\ id' = id /\ phase' = phase /\ status' = status
      /\ UNCHANGED <<table, testrun, results>>
  BY <1>1, <1>3 DEF SkipLine, Behind, Typed, db
<1>6. InFile(i)' BY <1>2, <1>5 DEF InFile
<1>7. Reached(i)' = n + 1 /\ Reached(i) = n BY <1>2, <1>3, <1>5, <1>6 DEF Reached
<1>8. step[i] = 9 BY <1>1, <1>2 DEF InFile, Setup, Stands
<1>9. Stands(i)'
  <2>1. line'[i] \in Header[i] + 1 .. Len(Lines(i)) + 1 BY <1>4, <1>5, HeaderIs, LinesAre
  <2> QED BY <1>2, <1>5, <1>8, <2>1 DEF Stands, Lines
<1>10. HasTest(i)' BY <1>2, <1>5 DEF HasTest
<1>11. HasExp(i)'
  <2>1. table.expfiles[id[i].expfiles] = ExpAt(i, n - 1) /\ id[i].expfiles \in DOMAIN table.expfiles
    BY <1>1, <1>7, <1>8 DEF HasExp
  <2>2. ExpAt(i, n) = ExpAt(i, n - 1) BY <1>4, ExpStays
  <2>3. (n + 1) - 1 = n BY <1>4
  <2> QED BY <1>5, <1>7, <2>1, <2>2, <2>3 DEF HasExp
<1>12. HasRun(i)'
  <2>1. run \in DOMAIN testrun /\ testrun[run].importer = i /\ Holds(run, i, n)
    BY <1>1, <1>3, <1>7, <1>8 DEF HasRun
  <2>2. Holds(run, i, n + 1) BY <1>4, <2>1, HoldsSkipped
  <2>3. Holds(run, i, n + 1)' BY <1>1, <1>5, <2>2, HoldsKept, SameIsGrown
  <2>4. Holds(id[i].run, i, Reached(i))' BY <1>3, <1>5, <1>7, <2>3
  <2> QED BY <1>3, <1>5, <2>1, <2>4 DEF HasRun
<1> QED BY <1>9, <1>10, <1>11, <1>12 DEF Importing

(* add_result: a row for the line, in the importer's own run.              *)
LEMMA OwnResult ==
  ASSUME RInv, NEW i \in Importers, AddResult(i)
  PROVE  /\ Importing(i)' /\ results' \in Seq(ResultType) /\ RowsRefer' /\ RunsHold'
         /\ \A j \in Importers : \A run, n :
                j # i /\ step[j] > 5 /\ run = id[j].run /\ Holds(run, j, n) => Holds(run, j, n)'
<1>1. /\ Typed /\ RowsRefer /\ RunsHold /\ Stands(i) /\ HasRun(i) /\ HasExp(i) /\ HasTest(i)
  BY DEF RInv, Importing
<1>2. phase[i] = "add" /\ status[i] = "running" BY DEF AddResult, Running
<1>3. PICK run, l : run = id[i].run /\ l = line[i] OBVIOUS
<1>4. /\ InFile(i) /\ l \in ResultLines(i) /\ id[i].tests \in DOMAIN table.tests
      /\ table.tests[id[i].tests] = <<id[i].components, id[i].expfiles, Lines(i)[l].test>>
  BY <1>1, <1>2, <1>3 DEF HasTest
<1>5. Reached(i) = l /\ step[i] = 9 BY <1>1, <1>3, <1>4 DEF Reached, InFile, Setup, Stands
<1>6. /\ l \in Header[i] + 1 .. Len(Lines(i)) /\ l \in 1 .. Len(Lines(i)) /\ l \in Int
      /\ ExpAt(i, l) = ExpAt(i, l - 1) /\ Collate(i, l) \in Int
  BY <1>4, ResultLine
<1>7. /\ id[i].expfiles \in DOMAIN table.expfiles /\ table.expfiles[id[i].expfiles] = ExpAt(i, l)
  BY <1>1, <1>5, <1>6 DEF HasExp
<1>8. run \in DOMAIN testrun /\ testrun[run].importer = i /\ Holds(run, i, l)
  BY <1>1, <1>3, <1>5 DEF HasRun
<1>9. PICK r : r = [run |-> run, test |-> id[i].tests, test_collate |-> Collate(i, l),
                    result |-> result(Lines(i)[l])]
  OBVIOUS
<1>10. r \in ResultType
  <2>1. id[i] \in IdType /\ result(Lines(i)[l]) \in ResultNames BY <1>1, <1>6, LinesAre DEF Typed
  <2>2. run \in Nat /\ id[i].tests \in Nat BY <1>3, <2>1 DEF IdType, Tables
  <2> QED BY <1>6, <1>9, <2>1, <2>2 DEF ResultType
<1>11. r.run = run /\ r.test = id[i].tests /\ r.test_collate = Collate(i, l)
       /\ r.result = result(Lines(i)[l])
  BY <1>9
<1>12. Shown(r) = Fact(i, l)
  <2>1. table.tests[r.test][2] = id[i].expfiles /\ table.tests[r.test][3] = Lines(i)[l].test
    BY <1>4, <1>11
  <2> QED BY <1>7, <1>11, <2>1 DEF Shown, Fact
<1>13. /\ results' = Append(results, r) /\ line'[i] = l + 1 /\ phase'[i] = "select"
       /\ step' = step /\ id' = id /\ status' = status
       /\ UNCHANGED <<table, testrun>> /\ results \in Seq(ResultType)
  BY <1>1, <1>3, <1>9 DEF AddResult, RunId, Behind, Collate, Typed
<1>14. Holds(run, i, l + 1)' BY <1>4, <1>8, <1>10, <1>11, <1>12, <1>13, HoldsOneMore
<1>15. \A q, j, n : q # run /\ Holds(q, j, n) => Holds(q, j, n)'
  BY <1>10, <1>11, <1>13, HoldsOfOthers
<1>16. l + 1 \in Header[i] + 1 .. Len(Lines(i)) + 1 BY <1>6, HeaderIs, LinesAre
<1>17. Importing(i)'
  <2>1. InFile(i)' BY <1>4, <1>13 DEF InFile
  <2>2. Reached(i)' = l + 1 BY <1>13, <2>1 DEF Reached
  <2>3. Stands(i)' BY <1>2, <1>5, <1>13, <1>16 DEF Stands, Lines
  <2>4. HasTest(i)' BY <1>13 DEF HasTest
  <2>5. (l + 1) - 1 = l BY <1>6
  <2>6. HasExp(i)' BY <1>7, <1>13, <2>2, <2>5 DEF HasExp
  <2>7. Holds(id[i].run, i, Reached(i))' BY <1>3, <1>13, <1>14, <2>2
  <2>8. HasRun(i)' BY <1>3, <1>8, <1>13, <2>7 DEF HasRun
  <2> QED BY <2>3, <2>4, <2>6, <2>8 DEF Importing
<1>18. results' \in Seq(ResultType) BY <1>10, <1>13, Appended
<1>19. RowsRefer'
  <2>1. /\ DOMAIN results' = DOMAIN results \cup {Len(results) + 1}
        /\ results'[Len(results) + 1] = r
        /\ \A k \in DOMAIN results : results'[k] = results[k]
    BY <1>10, <1>13, Appended
  <2>2. r.run \in DOMAIN testrun /\ r.test \in DOMAIN table.tests
        /\ table.tests[r.test][2] \in DOMAIN table.expfiles
    BY <1>4, <1>7, <1>8, <1>11
  <2> QED BY <1>1, <1>13, <2>1, <2>2 DEF RowsRefer
<1>20. RunsHold'
  <2> SUFFICES ASSUME NEW q \in DOMAIN testrun PROVE HoldsSome(q, testrun[q].importer)'
    BY <1>13 DEF RunsHold
  <2>1. CASE q # run
    <3>1. PICK j : j = testrun[q].importer OBVIOUS
    <3>2. PICK n \in Header[j] + 1 .. Len(Lines(j)) + 1 : Holds(q, j, n)
      BY <1>1, <3>1 DEF RunsHold, HoldsSome
    <3>3. Holds(q, j, n)' BY <1>15, <2>1, <3>2
    <3>4. HoldsSome(q, j)' BY <3>2, <3>3 DEF HoldsSome, Lines
    <3> QED BY <1>13, <3>1, <3>4
  <2>2. CASE q = run
    <3>1. HoldsSome(run, i)' BY <1>14, <1>16 DEF HoldsSome, Lines
    <3> QED BY <1>8, <1>13, <2>2, <3>1
  <2> QED BY <2>1, <2>2
<1>21. ASSUME NEW j \in Importers, NEW q, NEW n, j # i, step[j] > 5, q = id[j].run, Holds(q, j, n)
       PROVE  Holds(q, j, n)'
  <2>1. q # run BY <1>8, <1>21 DEF RInv, Importing, HasRun
  <2> QED BY <1>15, <1>21, <2>1
<1> QED BY <1>17, <1>18, <1>19, <1>20, <1>21

-----------------------------------------------------------------------------
(* The steps together.                                                     *)
LEMMA QuietRest ==
  ASSUME RInv, NEW i \in Importers, UNCHANGED <<testrun, results>>, Grown,
         \A j \in Importers : j # i => Waits(j)
  PROVE  /\ RowsRefer' /\ RunsHold'
         /\ \A j \in Importers : j # i => Importing(j)'
<1>1. Typed /\ RowsRefer /\ RunsHold BY DEF RInv
<1>2. \A run, j, n : Holds(run, j, n) => Holds(run, j, n)' BY <1>1, HoldsKept
<1>3. RowsRefer'
  <2> SUFFICES ASSUME NEW k \in DOMAIN results
               PROVE  /\ results[k].run \in DOMAIN testrun
                      /\ results[k].test \in DOMAIN table'.tests
                      /\ table'.tests[results[k].test][2] \in DOMAIN table'.expfiles
    BY DEF RowsRefer
  <2>1. /\ results[k].run \in DOMAIN testrun
        /\ results[k].test \in DOMAIN table.tests
        /\ table.tests[results[k].test][2] \in DOMAIN table.expfiles
    BY <1>1 DEF RowsRefer
  <2> QED BY <2>1 DEF Grown, Tables
<1>4. RunsHold'
  <2> SUFFICES ASSUME NEW run \in DOMAIN testrun PROVE HoldsSome(run, testrun[run].importer)'
    BY DEF RunsHold
  <2>1. PICK j : j = testrun[run].importer OBVIOUS
  <2>2. PICK n \in Header[j] + 1 .. Len(Lines(j)) + 1 : Holds(run, j, n)
    BY <1>1, <2>1 DEF RunsHold, HoldsSome
  <2>3. Holds(run, j, n)' BY <1>2, <2>2
  <2>4. HoldsSome(run, j)' BY <2>2, <2>3 DEF HoldsSome, Lines
  <2> QED BY <2>1, <2>4
<1>5. ASSUME NEW j \in Importers, j # i PROVE Importing(j)'
  <2>1. Importing(j) /\ Waits(j) /\ RunsStay BY <1>5 DEF RInv, RunsStay
  <2> QED BY <1>2, <2>1, Untouched
<1> QED BY <1>3, <1>4, <1>5

LEMMA Inserted ==
  ASSUME RInv, NEW i \in Importers, Asks(i) \in Tables,
         table' = [table EXCEPT ![Asks(i)] = Append(@, Key(i))]
  PROVE  /\ table' = [t \in Tables |-> table'[t]] /\ \A t \in Tables : table'[t] \in Seq(RowIn(t))
         /\ Grown /\ Len(table[Asks(i)]) + 1 \in Nat
         /\ Len(table[Asks(i)]) + 1 \in DOMAIN table'[Asks(i)]
         /\ table'[Asks(i)][Len(table[Asks(i)]) + 1] = Key(i)
<1>1. Typed /\ Stands(i) BY DEF RInv, Importing
<1>2. PICK t, key : t = Asks(i) /\ key = Key(i) OBVIOUS
<1>3. t \in Tables /\ key \in RowIn(t) /\ table[t] \in Seq(RowIn(t))
  BY <1>1, <1>2, KeyIsRow DEF Typed
<1>4. /\ table' = [u \in Tables |-> IF u = t THEN Append(table[t], key) ELSE table[u]]
  BY <1>1, <1>2, <1>3 DEF Typed
<1>5. /\ Append(table[t], key) \in Seq(RowIn(t)) /\ Len(table[t]) \in Nat
      /\ DOMAIN Append(table[t], key) = 1 .. Len(table[t]) + 1
      /\ Append(table[t], key)[Len(table[t]) + 1] = key
      /\ \A r \in DOMAIN table[t] :
             r \in 1 .. Len(table[t]) + 1 /\ Append(table[t], key)[r] = table[t][r]
  BY <1>3
<1>6. table'[t] = Append(table[t], key) /\ \A u \in Tables : u # t => table'[u] = table[u]
  BY <1>3, <1>4
<1>7. Grown BY <1>3, <1>5, <1>6 DEF Grown
<1>8. Len(table[t]) + 1 \in Nat /\ Len(table[t]) + 1 \in DOMAIN table'[t]
      /\ table'[t][Len(table[t]) + 1] = key
  BY <1>5, <1>6
<1>9. \A u \in Tables : table'[u] \in Seq(RowIn(u)) BY <1>1, <1>5, <1>6 DEF Typed
<1> QED BY <1>2, <1>4, <1>7, <1>8, <1>9

LEMMA StepRInv == RInv /\ [Next]_vars => RInv'
<1> SUFFICES ASSUME RInv, [Next]_vars PROVE RInv'
  OBVIOUS
<1>0. Typed BY DEF RInv
<1>1. ASSUME NEW i \in Importers,
             Importing(i)', Typed', RowsRefer', RunsHold',
             \A j \in Importers : j # i => Importing(j)'
      PROVE  RInv'
  BY <1>1 DEF RInv
<1>2. ASSUME NEW i \in Importers, Query(i) \/ Kill(i) \/ Rerun(i) PROVE RInv'
  <2>1. CASE Found(i)
    <3>1. Asks(i) \in Tables /\ status[i] = "running" /\ UNCHANGED <<table, testrun, results, status>>
      BY <2>1 DEF Found, Running, db
    <3>2. PICK row \in Rows(Asks(i), Key(i)) : Proceed(i, row) BY <2>1 DEF Found
    <3>3. row \in DOMAIN table[Asks(i)] /\ table[Asks(i)][row] = Key(i) BY <3>2 DEF Rows
    <3>4. row \in Nat
      <4>1. table[Asks(i)] \in Seq(RowIn(Asks(i))) BY <1>0, <3>1 DEF Typed
      <4> QED BY <3>3, <4>1
    <3>5. Grown BY <3>1, SameIsGrown
    <3>6. Importing(i)' BY <3>1, <3>2, <3>3, <3>4, <3>5, Arrives
    <3>7. Typed' BY <1>0, <3>1, <3>2, <3>4, Proceeds DEF Typed
    <3>8. \A j \in Importers : j # i => Waits(j) BY <1>0, <3>1, <3>2, <3>4, Proceeds DEF Waits
    <3> QED BY <1>1, <3>1, <3>5, <3>6, <3>7, <3>8, QuietRest
  <2>2. CASE Insert(i)
    <3>1. Asks(i) \in Tables
      BY <2>2 DEF Insert, Running, RInv, Importing, Stands
    <3>2. /\ status[i] = "running" /\ UNCHANGED <<testrun, results, status>>
          /\ table' = [table EXCEPT ![Asks(i)] = Append(@, Key(i))]
          /\ Proceed(i, Len(table[Asks(i)]) + 1)
      BY <2>2 DEF Insert, Running
    <3>3. /\ table' = [t \in Tables |-> table'[t]] /\ \A t \in Tables : table'[t] \in Seq(RowIn(t))
          /\ Grown /\ Len(table[Asks(i)]) + 1 \in Nat
          /\ Len(table[Asks(i)]) + 1 \in DOMAIN table'[Asks(i)]
          /\ table'[Asks(i)][Len(table[Asks(i)]) + 1] = Key(i)
      BY <3>1, <3>2, Inserted
    <3>4. PICK row : row = Len(table[Asks(i)]) + 1 OBVIOUS
    <3>5. row \in Nat /\ Proceed(i, row) /\ row \in DOMAIN table'[Asks(i)]
          /\ table'[Asks(i)][row] = Key(i)
      BY <3>2, <3>3, <3>4
    <3>6. Importing(i)' BY <3>1, <3>2, <3>3, <3>5, Arrives
    <3>7. Typed' BY <1>0, <3>1, <3>2, <3>3, <3>5, Proceeds DEF Typed
    <3>8. \A j \in Importers : j # i => Waits(j) BY <1>0, <3>1, <3>2, <3>5, Proceeds DEF Waits
    <3> QED BY <1>1, <3>2, <3>3, <3>6, <3>7, <3>8, QuietRest
  <2>3. CASE NotFound(i) \/ InsertRefused(i) \/ End(i) \/ Kill(i)
    <3>1. UNCHANGED db /\ UNCHANGED <<table, testrun, results>>
      BY <2>3 DEF NotFound, InsertRefused, Fail, End, Kill, db
    <3>2. Importing(i)' BY <2>3, <3>1, OwnLocal
    <3>3. Typed'
      BY <1>0, <2>3, <3>1 DEF NotFound, InsertRefused, Fail, End, Kill, Typed
    <3>4. \A j \in Importers : j # i => Waits(j)
      BY <1>0, <2>3 DEF NotFound, InsertRefused, Fail, End, Kill, Typed, Waits
    <3> QED BY <1>1, <3>1, <3>2, <3>3, <3>4, QuietRest, SameIsGrown
  <2>4. CASE CreateBundle(i) \/ SkipHeader(i) \/ SkipLine(i) \/ Rerun(i)
    <3>1. UNCHANGED <<table, testrun, results>>
      BY <2>4 DEF CreateBundle, SkipHeader, SkipLine, Rerun, db
    <3>2. Importing(i)' BY <2>4, OwnBundle, OwnHeader, OwnSkip, OwnRerun
    <3>3. Typed'
      <4>1. Header[i] + 1 \in Nat BY HeaderIs, LinesAre
      <4>2. line[i] + 1 \in Nat /\ Fresh \in IdType BY <1>0 DEF Typed, Fresh, IdType
      <4>3. CASE CreateBundle(i) BY <1>0, <3>1, <4>3 DEF CreateBundle, Typed
      <4>4. CASE SkipHeader(i) BY <1>0, <3>1, <4>1, <4>4 DEF SkipHeader, Typed
      <4>5. CASE SkipLine(i) BY <1>0, <3>1, <4>2, <4>5 DEF SkipLine, Behind, Typed
      <4>6. CASE Rerun(i) BY <1>0, <3>1, <4>2, <4>6 DEF Rerun, Typed
      <4> QED BY <2>4, <4>3, <4>4, <4>5, <4>6
    <3>4. \A j \in Importers : j # i => Waits(j)
      BY <1>0, <2>4 DEF CreateBundle, SkipHeader, SkipLine, Rerun, Typed, Waits
    <3> QED BY <1>1, <3>1, <3>2, <3>3, <3>4, QuietRest, SameIsGrown
  <2>5. CASE CreateTestrun(i)
    <3>1. Importing(i)' /\ testrun' \in Seq(RunType) /\ RunsStay /\ RunsHold'
      BY <2>5, OwnTestrun
    <3>2. UNCHANGED <<table, results>> BY <2>5 DEF CreateTestrun
    <3>3. Typed'
      <4>1. [id[i] EXCEPT !.run = Len(testrun) + 1] \in IdType BY <1>0 DEF Typed, IdType
      <4>2. id' = [id EXCEPT ![i] = [id[i] EXCEPT !.run = Len(testrun) + 1]]
        BY <2>5 DEF CreateTestrun
      <4>3. id' \in [Importers -> IdType] BY <1>0, <4>1, <4>2 DEF Typed
      <4> QED BY <1>0, <2>5, <3>1, <3>2, <4>3 DEF CreateTestrun, Typed
    <3>4. RowsRefer' BY <3>1, <3>2 DEF RInv, RowsRefer, RunsStay
    <3>5. ASSUME NEW j \in Importers, j # i PROVE Importing(j)'
      <4>1. Waits(j) BY <1>0, <2>5, <3>5 DEF CreateTestrun, Typed, Waits
      <4>2. \A run, n : Holds(run, j, n) => Holds(run, j, n)'
        BY <3>2, HoldsKept, SameIsGrown DEF RInv
      <4>3. Importing(j) /\ Grown BY <3>2, SameIsGrown DEF RInv
      <4> QED BY <3>1, <4>1, <4>2, <4>3, Untouched
    <3> QED BY <1>1, <3>1, <3>3, <3>4, <3>5
  <2>6. CASE AddResult(i)
    <3>1. /\ Importing(i)' /\ results' \in Seq(ResultType) /\ RowsRefer' /\ RunsHold'
          /\ \A j \in Importers : \A run, n :
                 j # i /\ step[j] > 5 /\ run = id[j].run /\ Holds(run, j, n) => Holds(run, j, n)'
      BY <2>6, OwnResult
    <3>2. UNCHANGED <<table, testrun>> BY <2>6 DEF AddResult
    <3>3. Typed'
      <4>1. line[i] + 1 \in Nat BY <1>0 DEF Typed
      <4> QED BY <1>0, <2>6, <3>1, <3>2, <4>1 DEF AddResult, Behind, Typed
    <3>4. ASSUME NEW j \in Importers, j # i PROVE Importing(j)'
      <4>1. Waits(j) BY <1>0, <2>6, <3>4 DEF AddResult, Typed, Waits
      <4>2. Importing(j) /\ Grown /\ RunsStay BY <3>2, SameIsGrown DEF RInv, RunsStay
      <4> QED BY <3>1, <3>4, <4>1, <4>2, Untouched
    <3> QED BY <1>1, <3>1, <3>3, <3>4
  <2> QED BY <1>2, <2>1, <2>2, <2>3, <2>4, <2>5, <2>6 DEF Query
<1>3. CASE UNCHANGED vars
  <2>1. /\ UNCHANGED <<testrun, results, table>> /\ Grown /\ RunsStay
        /\ \A j \in Importers : Waits(j)
    BY <1>3, SameIsGrown DEF vars, RunsStay, Waits
  <2>2. PICK i \in Importers : TRUE BY ImportersAssumption
  <2>3. RowsRefer' /\ RunsHold' BY <2>1, <2>2, QuietRest
  <2>4. ASSUME NEW j \in Importers PROVE Importing(j)'
    <3>1. \A run, n : Holds(run, j, n) => Holds(run, j, n)' BY <2>1, HoldsKept DEF RInv
    <3> QED BY <2>1, <3>1, Untouched DEF RInv
  <2>5. Typed' BY <1>0, <1>3 DEF vars, Typed
  <2> QED BY <2>3, <2>4, <2>5 DEF RInv
<1>4. CASE Next
  <2>1. PICK i \in Importers : Query(i) \/ Kill(i) \/ Rerun(i) BY <1>4 DEF Next
  <2> QED BY <1>2, <2>1
<1> QED BY <1>3, <1>4

LEMMA InitRInv == Init => RInv
<1> SUFFICES ASSUME Init PROVE RInv
  OBVIOUS
<1>1. table = [t \in Tables |-> table[t]] /\ \A t \in Tables : table[t] \in Seq(RowOf(t))
  BY TablesAssumption DEF Init
<1>2. ASSUME NEW t \in Tables PROVE table[t] \in Seq(RowIn(t))
  <2>1. \A row \in RowOf(t) : row \in RowIn(t) BY DEF RowOf, RowIn, Names
  <2>2. \A n \in DOMAIN table[t] : table[t][n] \in RowIn(t) BY <1>1, <2>1, ElementOf
  <2>3. table[t] = [n \in 1 .. Len(table[t]) |-> table[t][n]] /\ Len(table[t]) \in Nat
        /\ DOMAIN table[t] = 1 .. Len(table[t])
    BY <1>1
  <2> QED BY <2>2, <2>3
<1>3. Fresh \in IdType BY DEF Fresh, IdType
<1>4. testrun = <<>> /\ results = <<>> BY DEF Init
<1>5. Typed BY <1>1, <1>2, <1>3, <1>4 DEF Init, Typed
<1>6. RowsRefer /\ RunsHold BY <1>4 DEF RowsRefer, RunsHold
<1>7. ASSUME NEW i \in Importers PROVE Importing(i)
  <2>1. step[i] = 1 /\ phase[i] = "select" /\ status[i] = "running" BY DEF Init
  <2>2. ~InFile(i) BY <2>1 DEF InFile, Setup
  <2> QED BY <2>1, <2>2 DEF Importing, Stands, HasRun, HasExp, HasTest
<1> QED BY <1>5, <1>6, <1>7 DEF RInv

(* From rows to what they say: each row stands for the line that its       *)
(* test_collate gives.                                                     *)
LineOf(i, k) == results[k].test_collate + Header[i] + 1

LEMMA HeldLines ==
  ASSUME Typed, NEW i \in Importers, NEW run, NEW n \in Int, Holds(run, i, n), NEW k \in Of(run)
  PROVE  /\ LineOf(i, k) \in ResultLines(i) /\ LineOf(i, k) < n /\ LineOf(i, k) \in Int
         /\ results[k].test_collate = Collate(i, LineOf(i, k))
         /\ Row(k) = Says(i, LineOf(i, k))
<1>1. PICK l \in ResultLines(i) : l < n /\ Shown(results[k]) = Fact(i, l) BY DEF Holds
<1>2. results[k].test_collate = Collate(i, l) /\ Row(k) = Says(i, l)
  BY <1>1 DEF Shown, Fact, Row, Says
<1>3. LineOf(i, k) = l BY <1>2, ResultLine, HeaderIs DEF LineOf, Collate
<1> QED BY <1>1, <1>2, <1>3, ResultLine

LEMMA HeldIsRecorded ==
  ASSUME Typed, NEW i \in Importers, NEW run, NEW n \in Int, Holds(run, i, n)
  PROVE  Records(run, i, {l \in ResultLines(i) : l < n})
<1> DEFINE ls == {l \in ResultLines(i) : l < n}
           f == [k \in Of(run) |-> LineOf(i, k)]
<1>0. Header[i] \in Int BY HeaderIs
<1>1. ASSUME NEW k \in Of(run)
      PROVE  /\ f[k] = LineOf(i, k) /\ f[k] \in ls /\ f[k] \in Int /\ Row(k) = Says(i, f[k])
             /\ results[k].test_collate = f[k] - Header[i] - 1
  BY HeldLines DEF Collate
<1>2. f \in [Of(run) -> ls] /\ DOMAIN f = Of(run) BY <1>1
<1>3. ASSUME NEW j \in Of(run), NEW k \in Of(run)
      PROVE  /\ results[j].test_collate < results[k].test_collate <=> f[j] < f[k]
             /\ f[j] = f[k] => j = k
  <2>1. /\ f[j] \in Int /\ results[j].test_collate = f[j] - Header[i] - 1
        /\ f[k] \in Int /\ results[k].test_collate = f[k] - Header[i] - 1
    BY <1>1
  <2> HIDE DEF f
  <2>2. results[j].test_collate < results[k].test_collate <=> f[j] < f[k] BY <1>0, <2>1
  <2>3. f[j] = f[k] => results[j].test_collate = results[k].test_collate BY <2>1
  <2>4. results[j].test_collate = results[k].test_collate => j = k BY DEF Holds
  <2> QED BY <2>2, <2>3, <2>4
<1>4. ASSUME NEW l \in ls PROVE \E k \in Of(run) : f[k] = l
  <2>1. PICK k \in Of(run) : results[k].test_collate = Collate(i, l) BY DEF Holds
  <2>2. f[k] \in Int /\ l \in Int /\ Collate(i, l) = f[k] - Header[i] - 1
    BY <1>1, <2>1, ResultLine
  <2> HIDE DEF f
  <2> QED BY <1>0, <2>2 DEF Collate
<1> HIDE DEF f
<1>5. f \in Bijection(Of(run), ls)
  <2>1. f \in Injection(Of(run), ls) BY <1>2, <1>3 DEF Injection, IsInjective
  <2>2. f \in Surjection(Of(run), ls) BY <1>2, <1>4 DEF Surjection
  <2> QED BY <2>1, <2>2 DEF Bijection
<1>6. /\ \A k \in Of(run) : Row(k) = Says(i, f[k])
      /\ \A j, k \in Of(run) : results[j].test_collate < results[k].test_collate <=> f[j] < f[k]
  BY <1>1, <1>3
<1> HIDE DEF ls
<1>7. Records(run, i, ls) BY <1>5, <1>6 DEF Records
<1> QED BY <1>7 DEF ls

LEMMA RInvSays == RInv => RunsAreTheirFiles
<1> SUFFICES ASSUME RInv PROVE RunsAreTheirFiles
  OBVIOUS
<1>0. Typed BY DEF RInv
<1>1. ASSUME NEW run \in DOMAIN testrun, NEW i, i = testrun[run].importer
      PROVE  \E n \in 1 .. Len(Lines(i)) + 1 : Records(run, i, {l \in ResultLines(i) : l < n})
  <2>1. testrun[run] \in RunType BY <1>0, <1>1, ElementOf DEF Typed
  <2>2. i \in Importers BY <1>1, <2>1 DEF RunType
  <2>3. PICK n \in Header[i] + 1 .. Len(Lines(i)) + 1 : Holds(run, i, n)
    BY <1>1, <2>2 DEF RInv, RunsHold, HoldsSome
  <2>4. n \in 1 .. Len(Lines(i)) + 1 /\ n \in Int BY <2>2, <2>3, HeaderIs, LinesAre
  <2> QED BY <1>0, <2>2, <2>3, <2>4, HeldIsRecorded
<1>2. ASSUME NEW i \in Importers, status[i] = "done"
      PROVE  testrun[id[i].run].importer = i /\ Records(id[i].run, i, ResultLines(i))
  <2>1. Stands(i) /\ HasRun(i) BY DEF RInv, Importing
  <2>2. InFile(i) /\ AtEnd(i) /\ step[i] = 9 BY <1>2, <2>1 DEF Stands, InFile, Setup
  <2>3. PICK run, n : run = id[i].run /\ n = line[i] OBVIOUS
  <2>4. n = Len(Lines(i)) + 1 /\ n \in Int
    BY <2>1, <2>2, <2>3, HeaderIs, LinesAre DEF Stands, AtEnd
  <2>5. testrun[run].importer = i /\ Holds(run, i, n)
    BY <2>1, <2>2, <2>3 DEF HasRun, Reached
  <2>6. ASSUME NEW l \in ResultLines(i) PROVE l < n
    <3>1. l \in 1 .. Len(Lines(i)) BY ResultLine
    <3> QED BY <2>4, <3>1, LinesAre
  <2>7. {l \in ResultLines(i) : l < n} = ResultLines(i) BY <2>6
  <2>8. Records(run, i, {l \in ResultLines(i) : l < n}) BY <1>0, <2>4, <2>5, HeldIsRecorded
  <2> QED BY <2>3, <2>5, <2>7, <2>8
<1>3. RunsHoldTheirFile BY <1>1 DEF RunsHoldTheirFile
<1>4. DoneIsComplete BY <1>2 DEF DoneIsComplete
<1> QED BY <1>3, <1>4 DEF RunsAreTheirFiles

(* Importers do not disturb each other's runs: whatever they import at     *)
(* once, on whatever tables, killed, failed or run again, each run holds   *)
(* the results of its importer's file from the first on, in the order of   *)
(* the file, and all of them, once, when the import ended (resultdb.ml's   *)
(* read_sum_file).                                                         *)
THEOREM RunsStayApart == Spec => []RunsAreTheirFiles
BY InitRInv, StepRInv, RInvSays, PTL DEF Spec

-----------------------------------------------------------------------------
(* What the types of the importers' state say beyond RInv: no key comes    *)
(* twice, an id is that of a row or unset, and the file is read behind its *)
(* header only.                                                            *)
KeysUnique == \A t \in Tables : \A r, q \in DOMAIN table[t] : table[t][r] = table[t][q] => r = q
IdsKnown == \A i \in Importers, t \in Tables : id[i][t] \in 0 .. Len(table[t])
LinesWait == \A i \in Importers : ~InFile(i) => line[i] = 1
Known == KeysUnique /\ IdsKnown /\ LinesWait

LEMMA KnownIsTyped == RInv /\ Known => TypeOK
<1> SUFFICES ASSUME RInv, Known PROVE TypeOK OBVIOUS
<1>1. ASSUME NEW i \in Importers
      PROVE  step[i] \in 1 .. Len(Setup) + 1 /\ line[i] \in 1 .. Len(Lines(i)) + 1
  <2>1. Stands(i) BY DEF RInv, Importing
  <2>2. step[i] \in 1 .. Len(Setup) + 1 BY <2>1 DEF Stands, Setup
  <2>3. line[i] \in 1 .. Len(Lines(i)) + 1
    <3>1. Len(Lines(i)) \in Nat /\ Header[i] \in 0 .. Len(Lines(i)) BY HeaderIs, LinesAre
    <3>2. CASE InFile(i) BY <2>1, <3>1, <3>2 DEF Stands
    <3>3. CASE ~InFile(i) BY <3>1, <3>3 DEF Known, LinesWait
    <3> QED BY <3>2, <3>3
  <2> QED BY <2>2, <2>3
<1>2. Typed BY DEF RInv
<1> QED BY <1>1, <1>2 DEF TypeOK, Typed, Known, KeysUnique, IdsKnown

LEMMA KnownLocal ==
  ASSUME Known, NEW i \in Importers, UNCHANGED table,
         \A t \in Tables : id'[i][t] \in 0 .. Len(table[t]),
         (~InFile(i) => line[i] = 1)',
         \A j \in Importers : j # i => id'[j] = id[j] /\ step'[j] = step[j] /\ line'[j] = line[j]
  PROVE  Known'
<1>1. KeysUnique' BY DEF Known, KeysUnique
<1>2. IdsKnown' BY DEF Known, IdsKnown
<1>3. ASSUME NEW j \in Importers PROVE (~InFile(j) => line[j] = 1)'
  <2>1. CASE j = i BY <2>1
  <2>2. CASE j # i BY <2>2 DEF Known, LinesWait, InFile
  <2> QED BY <2>1, <2>2
<1> QED BY <1>1, <1>2, <1>3 DEF Known, LinesWait

LEMMA StepKnown == RInv /\ Known /\ [Next]_vars => Known'
<1> SUFFICES ASSUME RInv, Known, [Next]_vars PROVE Known' OBVIOUS
<1>0. Typed BY DEF RInv
<1>1. ASSUME NEW i \in Importers, Query(i) \/ Kill(i) \/ Rerun(i) PROVE Known'
  <2>0. Stands(i) /\ (~InFile(i) => line[i] = 1) /\ \A t \in Tables : id[i][t] \in 0 .. Len(table[t])
    BY DEF RInv, Importing, Known, LinesWait, IdsKnown
  <2>1. CASE Found(i)
    <3>1. PICK row : row \in Rows(Asks(i), Key(i)) /\ Proceed(i, row) BY <2>1 DEF Found
    <3>2. Asks(i) \in Tables /\ UNCHANGED table BY <2>1 DEF Found, db
    <3>3. PICK t : t = Asks(i) OBVIOUS
    <3>4. row \in 1 .. Len(table[t]) /\ Len(table[t]) \in Nat
      BY <1>0, <3>1, <3>2, <3>3 DEF Rows, Typed
    <3>5. row \in Nat BY <3>4
    <3>6. \A u \in Tables : id'[i][u] \in 0 .. Len(table[u])
      <4>1. id'[i][t] = row /\ \A u \in Tables : u # t => id'[i][u] = id[i][u]
        BY <1>0, <3>1, <3>2, <3>3, <3>5, Proceeds
      <4> QED BY <2>0, <3>4, <4>1
    <3>7. /\ step'[i] = IF InFile(i) THEN step[i] ELSE step[i] + 1
          /\ line'[i] = IF InFile(i) /\ Asks(i) = "expfiles" THEN line[i] + 1 ELSE line[i]
          /\ \A j \in Importers : j # i => id'[j] = id[j] /\ step'[j] = step[j] /\ line'[j] = line[j]
      BY <1>0, <3>1, <3>2, <3>5, Proceeds
    <3>8. (~InFile(i) => line[i] = 1)' BY <1>0, <2>0, <3>7 DEF InFile, Stands
    <3> QED BY <3>2, <3>6, <3>7, <3>8, KnownLocal
  <2>2. CASE NotFound(i)
    BY <2>0, <2>2, KnownLocal DEF NotFound, db, InFile
  <2>3. CASE Insert(i)
    <3>1. Asks(i) \in Tables /\ Unique(Asks(i), Key(i))
      BY <2>0, <2>3 DEF Insert, Running, Stands
    <3>2. PICK t, key : t = Asks(i) /\ key = Key(i) OBVIOUS
    <3>3. PICK n : n = Len(table[t]) OBVIOUS
    <3>4. t \in Tables /\ n \in Nat /\ table[t] \in Seq(RowIn(t)) /\ DOMAIN table[t] = 1 .. n
      BY <1>0, <3>1, <3>2, <3>3 DEF Typed
    <3>5. table' = [table EXCEPT ![t] = Append(table[t], key)] /\ Proceed(i, n + 1)
      BY <2>3, <3>2, <3>3 DEF Insert
    <3>6. table'[t] = Append(table[t], key) /\ \A u \in Tables : u # t => table'[u] = table[u]
      BY <1>0, <3>4, <3>5 DEF Typed
    <3>7. key \in RowIn(t) BY <1>0, <2>0, <3>1, <3>2, KeyIsRow
    <3>8. Len(table'[t]) = n + 1 /\ table'[t][n + 1] = key /\ DOMAIN table'[t] = 1 .. n + 1
          /\ \A r \in 1 .. n : table'[t][r] = table[t][r]
      BY <3>3, <3>4, <3>6, <3>7
    <3>9. \A r \in 1 .. n : table[t][r] # key BY <3>1, <3>2, <3>4 DEF Unique, Rows
    <3>10. KeysUnique'
      <4>1. \A r, q \in 1 .. n : table[t][r] = table[t][q] => r = q
        BY <3>4 DEF Known, KeysUnique
      <4>2. \A r, q \in DOMAIN table'[t] : table'[t][r] = table'[t][q] => r = q
        BY <3>4, <3>8, <3>9, <4>1
      <4>3. \A u \in Tables : u # t => \A r, q \in DOMAIN table'[u] : table'[u][r] = table'[u][q] => r = q
        BY <3>6 DEF Known, KeysUnique
      <4> QED BY <4>2, <4>3 DEF KeysUnique
    <3>11. n + 1 \in Nat BY <3>4
    <3>12. /\ id'[i][t] = n + 1 /\ \A u \in Tables : u # t => id'[i][u] = id[i][u]
           /\ step'[i] = IF InFile(i) THEN step[i] ELSE step[i] + 1
           /\ line'[i] = IF InFile(i) /\ Asks(i) = "expfiles" THEN line[i] + 1 ELSE line[i]
           /\ \A j \in Importers : j # i => id'[j] = id[j] /\ step'[j] = step[j] /\ line'[j] = line[j]
      BY <1>0, <3>1, <3>2, <3>5, <3>11, Proceeds
    <3>13. \A u \in Tables : Len(table[u]) \in Nat BY <1>0 DEF Typed
    <3>14. ASSUME NEW j \in Importers, NEW u \in Tables PROVE id'[j][u] \in 0 .. Len(table'[u])
      <4>1. id[j][u] \in 0 .. Len(table[u]) BY DEF Known, IdsKnown
      <4>2. CASE u # t
        <5>1. Len(table'[u]) = Len(table[u]) BY <3>6, <4>2
        <5>2. id'[j][u] = id[j][u] BY <3>12, <4>2
        <5> QED BY <4>1, <5>1, <5>2
      <4>3. CASE u = t /\ j = i BY <3>4, <3>8, <3>12, <4>3
      <4>4. CASE u = t /\ j # i BY <3>3, <3>4, <3>8, <3>12, <4>1, <4>4
      <4> QED BY <4>2, <4>3, <4>4
    <3>15. IdsKnown' BY <3>14 DEF IdsKnown
    <3>16. (~InFile(i) => line[i] = 1)' BY <1>0, <2>0, <3>12 DEF InFile, Stands
    <3>17. ASSUME NEW j \in Importers PROVE (~InFile(j) => line[j] = 1)'
      <4>1. CASE j = i BY <3>16, <4>1
      <4>2. CASE j # i BY <3>12, <4>2 DEF Known, LinesWait, InFile
      <4> QED BY <4>1, <4>2
    <3> QED BY <3>10, <3>15, <3>17 DEF Known, LinesWait
  <2>4. CASE InsertRefused(i) \/ End(i) \/ Kill(i)
    BY <2>0, <2>4, KnownLocal DEF InsertRefused, Fail, End, Kill, db, InFile
  <2>5. CASE CreateBundle(i)
    <3>1. step' = [step EXCEPT ![i] = @ + 1] /\ UNCHANGED <<table, id, line>>
      BY <2>5 DEF CreateBundle, db
    <3>2. step'[i] = step[i] + 1 /\ \A j \in Importers : j # i => step'[j] = step[j]
      BY <1>0, <3>1 DEF Typed
    <3>3. (~InFile(i) => line[i] = 1)' BY <2>0, <3>1, <3>2 DEF InFile, Stands
    <3> QED BY <2>0, <3>1, <3>2, <3>3, KnownLocal
  <2>6. CASE CreateTestrun(i)
    <3>1. /\ step' = [step EXCEPT ![i] = @ + 1] /\ UNCHANGED <<table, line>>
          /\ id' = [id EXCEPT ![i].run = Len(testrun) + 1]
      BY <2>6 DEF CreateTestrun
    <3>2. step'[i] = step[i] + 1 /\ \A j \in Importers : j # i => step'[j] = step[j] /\ id'[j] = id[j]
      BY <1>0, <3>1 DEF Typed
    <3>3. (~InFile(i) => line[i] = 1)' BY <2>0, <3>1, <3>2 DEF InFile, Stands
    <3>4. \A t \in Tables : id'[i][t] = id[i][t] BY <1>0, <3>1 DEF Typed, IdType, Tables
    <3> QED BY <2>0, <3>1, <3>2, <3>3, <3>4, KnownLocal
  <2>7. CASE SkipHeader(i)
    <3>1. ~InFile(i)
      <4>1. Asks(i) = "skip_header" BY <2>7 DEF SkipHeader
      <4> QED BY <4>1 DEF Asks
    <3>2. step[i] = 8 BY <1>0, <2>0, <2>7, <3>1, AsksBefore DEF SkipHeader
    <3>3. /\ UNCHANGED <<table, id>> /\ step'[i] = 9
          /\ \A j \in Importers : j # i => step'[j] = step[j] /\ line'[j] = line[j]
      BY <1>0, <2>7, <3>2 DEF SkipHeader, db, Typed
    <3>4. InFile(i)' BY <3>3 DEF InFile, Setup
    <3> QED BY <2>0, <3>3, <3>4, KnownLocal
  <2>8. CASE SkipLine(i)
    <3>1. InFile(i) /\ UNCHANGED <<table, id, step>>
          /\ \A j \in Importers : j # i => line'[j] = line[j]
      BY <1>0, <2>8 DEF SkipLine, db, Typed
    <3>2. InFile(i)' BY <3>1 DEF InFile
    <3> QED BY <2>0, <3>1, <3>2, KnownLocal
  <2>9. CASE AddResult(i)
    <3>1. InFile(i) BY <2>9 DEF RInv, Importing, HasTest, AddResult, Running
    <3>2. UNCHANGED <<table, id, step>> /\ \A j \in Importers : j # i => line'[j] = line[j]
      BY <1>0, <2>9 DEF AddResult, Typed
    <3>3. InFile(i)' BY <3>1, <3>2 DEF InFile
    <3> QED BY <2>0, <3>2, <3>3, KnownLocal
  <2>10. CASE Rerun(i)
    <3>1. /\ UNCHANGED table /\ id'[i] = Fresh /\ line'[i] = 1
          /\ \A j \in Importers : j # i => id'[j] = id[j] /\ step'[j] = step[j] /\ line'[j] = line[j]
      BY <1>0, <2>10 DEF Rerun, db, Typed
    <3>2. \A t \in Tables : Fresh[t] \in 0 .. Len(table[t]) BY <1>0 DEF Fresh, Typed
    <3> QED BY <3>1, <3>2, KnownLocal
  <2> QED BY <1>1, <2>1, <2>2, <2>3, <2>4, <2>5, <2>6, <2>7, <2>8, <2>9, <2>10 DEF Query
<1>2. CASE Next
  <2>1. PICK i \in Importers : Query(i) \/ Kill(i) \/ Rerun(i) BY <1>2 DEF Next
  <2> QED BY <1>1, <2>1
<1>3. CASE UNCHANGED vars
  <2>1. PICK i \in Importers : TRUE BY ImportersAssumption
  <2>2. UNCHANGED <<table, id, step, line>> BY <1>3 DEF vars, db
  <2> QED BY <2>2 DEF Known, KeysUnique, IdsKnown, LinesWait, InFile
<1> QED BY <1>2, <1>3

(* Importers begin so, also those that are as if killed.                   *)
LEMMA InitKnown == Init \/ FailInit => RInv /\ Known
<1>1. Init => Known
  <2> SUFFICES ASSUME Init PROVE Known OBVIOUS
  <2>1. \A t \in Tables : table[t] \in Seq(RowOf(t)) BY TablesAssumption DEF Init
  <2>2. KeysUnique BY TablesAssumption DEF Init, KeysUnique
  <2>3. IdsKnown BY <2>1 DEF Init, IdsKnown, Fresh
  <2>4. LinesWait BY DEF Init, LinesWait
  <2> QED BY <2>2, <2>3, <2>4 DEF Known
<1>2. FailInit => RInv /\ Known
  <2> SUFFICES ASSUME FailInit PROVE RInv /\ Known OBVIOUS
  <2>1. \A t \in Tables : table[t] = <<>> BY DEF FailInit, Bare
  <2>2. Fresh \in IdType BY DEF Fresh, IdType
  <2>3. testrun = <<>> /\ results = <<>> BY DEF FailInit
  <2>4. table = [t \in Tables |-> table[t]] BY DEF FailInit, Bare
  <2>5. Typed
    <3>1. ASSUME NEW t \in Tables PROVE table[t] \in Seq(RowIn(t))
      <4>1. \A S : <<>> \in Seq(S) OBVIOUS
      <4> QED BY <4>1, <2>1
    <3> QED BY <2>2, <2>3, <2>4, <3>1 DEF FailInit, Typed
  <2>6. RowsRefer /\ RunsHold BY <2>3 DEF RowsRefer, RunsHold
  <2>7. ASSUME NEW i \in Importers PROVE Importing(i)
    <3>1. step[i] = 1 /\ phase[i] = "select" /\ status[i] = "killed" BY DEF FailInit
    <3>2. ~InFile(i) BY <3>1 DEF InFile, Setup
    <3> QED BY <3>1, <3>2 DEF Importing, Stands, HasRun, HasExp, HasTest
  <2>8. KeysUnique BY <2>1 DEF KeysUnique
  <2>9. IdsKnown BY <2>1 DEF FailInit, IdsKnown, Fresh
  <2>10. LinesWait BY DEF FailInit, LinesWait
  <2> QED BY <2>5, <2>6, <2>7, <2>8, <2>9, <2>10 DEF RInv, Known
<1> QED BY <1>1, <1>2, InitRInv

-----------------------------------------------------------------------------
(* failproc, on files of any lines.                                        *)
KindNames == STRING \cup {"text"}
WordNames == STRING \cup {"XFAIL", "counts"}
TestNames == STRING \cup {""}
SumLine == [kind : KindNames, word : WordNames, test : TestNames, counts : Seq(Int)]

(* Where header and body of a log end, without CHOOSE. *)
IsHead(s, h) ==
    /\ \A k \in 1 .. Len(s) : k < h => s[k].kind # "running"
    /\ \/ h \in 1 .. Len(s) /\ s[h].kind = "running"
       \/ h = Len(s) /\ \A k \in 1 .. Len(s) : s[k].kind # "running"
IsBody(s, h, b) ==
    /\ \A k \in h + 1 .. Len(s) : k < b => s[k].kind # "summary"
    /\ \/ b \in h + 1 .. Len(s) /\ s[b].kind = "summary"
       \/ b = Len(s) /\ \A k \in h + 1 .. Len(s) : s[k].kind # "summary"

LEMMA HeaderEndIs ==
  ASSUME NEW s \in Seq(SumLine)
  PROVE  IsHead(s, FP!HeaderEnd(s)) /\ FP!HeaderEnd(s) \in 0 .. Len(s)
<1> DEFINE starts == {n \in DOMAIN s : s[n].kind = "running"}
<1>1. DOMAIN s = 1 .. Len(s) /\ Len(s) \in Nat OBVIOUS
<1>2. CASE starts = {}
  <2>1. FP!HeaderEnd(s) = Len(s) BY <1>2 DEF FP!HeaderEnd
  <2> QED BY <1>1, <1>2, <2>1 DEF IsHead
<1>3. CASE starts # {}
  <2>1. starts \in SUBSET Nat BY <1>1
  <2>2. PICK n \in starts : \A k \in starts : n <= k BY <1>3, <2>1, LeastNatural
  <2>3. FP!HeaderEnd(s) = CHOOSE m \in starts : \A k \in starts : m <= k
    BY <1>3 DEF FP!HeaderEnd
  <2>4. FP!HeaderEnd(s) \in starts /\ \A k \in starts : FP!HeaderEnd(s) <= k
    BY <2>2, <2>3
  <2>5. PICK h : h = FP!HeaderEnd(s) OBVIOUS
  <2>6. h \in starts /\ \A k \in starts : h <= k BY <2>4, <2>5
  <2>7. IsHead(s, h) BY <1>1, <2>6 DEF IsHead
  <2> QED BY <1>1, <2>5, <2>6, <2>7
<1> QED BY <1>2, <1>3

LEMMA HeadUnique ==
  ASSUME NEW s \in Seq(SumLine), NEW h \in Int, IsHead(s, h)
  PROVE  FP!HeaderEnd(s) = h
<1>1. PICK g : g = FP!HeaderEnd(s) OBVIOUS
<1>2. IsHead(s, g) /\ g \in Int /\ Len(s) \in Nat BY <1>1, HeaderEndIs
<1>3. ~(g < h) BY <1>2 DEF IsHead
<1>4. ~(h < g) BY <1>2 DEF IsHead
<1> QED BY <1>1, <1>2, <1>3, <1>4

LEMMA BodyEndIs ==
  ASSUME NEW s \in Seq(SumLine), NEW h \in Int, h = FP!HeaderEnd(s)
  PROVE  IsBody(s, h, FP!BodyEnd(s)) /\ FP!BodyEnd(s) \in h .. Len(s)
<1> DEFINE ends == {n \in h + 1 .. Len(s) : s[n].kind = "summary"}
<1>1. Len(s) \in Nat /\ h \in 0 .. Len(s) BY HeaderEndIs
<1>0. FP!BodyEnd(s) = IF ends = {} THEN Len(s) ELSE CHOOSE n \in ends : \A k \in ends : n <= k
  BY DEF FP!BodyEnd
<1>2. CASE ends = {}
  <2>1. FP!BodyEnd(s) = Len(s) BY <1>0, <1>2
  <2> QED BY <1>1, <1>2, <2>1 DEF IsBody
<1>3. CASE ends # {}
  <2>1. ends \in SUBSET Nat BY <1>1
  <2>2. PICK n \in ends : \A k \in ends : n <= k BY <1>3, <2>1, LeastNatural
  <2>4. FP!BodyEnd(s) \in ends /\ \A k \in ends : FP!BodyEnd(s) <= k
    BY <1>0, <1>3, <2>2
  <2>5. PICK b : b = FP!BodyEnd(s) OBVIOUS
  <2>6. b \in ends /\ \A k \in ends : b <= k BY <2>4, <2>5
  <2>7. IsBody(s, h, b) BY <1>1, <2>6 DEF IsBody
  <2> QED BY <1>1, <2>5, <2>6, <2>7
<1> QED BY <1>2, <1>3

LEMMA BodyUnique ==
  ASSUME NEW s \in Seq(SumLine), NEW h \in Int, h = FP!HeaderEnd(s),
         NEW b \in Int, IsBody(s, h, b)
  PROVE  FP!BodyEnd(s) = b
<1>1. PICK g : g = FP!BodyEnd(s) OBVIOUS
<1>2. IsBody(s, h, g) /\ g \in Int /\ Len(s) \in Nat BY <1>1, BodyEndIs
<1>5. h \in 0 .. Len(s) BY HeaderEndIs
<1>3. ~(g < b) BY <1>2, <1>5 DEF IsBody
<1>4. ~(b < g) BY <1>2, <1>5 DEF IsBody
<1> QED BY <1>1, <1>2, <1>3, <1>4

(* The result lines of a log behind its header, and how many say r. *)
ResultsSaying(s, h, r) == {k \in h + 1 .. Len(s) : FP!classify(s[k]) = "Result" /\ s[k].word = r}
Tally(s, r) ==
    Cardinality({k \in DOMAIN s : k > FP!HeaderEnd(s) /\ FP!classify(s[k]) = "Result" /\ s[k].word = r})

LEMMA TallyIs ==
  ASSUME NEW s \in Seq(SumLine), NEW h \in Int, IsHead(s, h), NEW r
  PROVE  Tally(s, r) = Cardinality(ResultsSaying(s, h, r)) /\ IsFiniteSet(ResultsSaying(s, h, r))
<1>1. h = FP!HeaderEnd(s) /\ h \in 0 .. Len(s) BY HeadUnique, HeaderEndIs
<1>2. DOMAIN s = 1 .. Len(s) /\ Len(s) \in Nat OBVIOUS
<1>3. ResultsSaying(s, h, r) = {k \in DOMAIN s : k > h /\ FP!classify(s[k]) = "Result" /\ s[k].word = r}
  BY <1>1, <1>2 DEF ResultsSaying
<1>4. IsFiniteSet(h + 1 .. Len(s)) BY <1>1, FS_Interval
<1>5. IsFiniteSet(ResultsSaying(s, h, r)) BY <1>4, FS_Subset DEF ResultsSaying
<1> QED BY <1>1, <1>3, <1>5 DEF Tally

LEMMA TallyGrows ==
  ASSUME NEW s \in Seq(SumLine), NEW h \in Int, IsHead(s, h), NEW l \in SumLine,
         IsHead(Append(s, l), h), NEW r
  PROVE  /\ Tally(s, r) \in Nat
         /\ FP!classify(l) = "Result" /\ l.word = r => Tally(Append(s, l), r) = Tally(s, r) + 1
         /\ ~(FP!classify(l) = "Result" /\ l.word = r) => Tally(Append(s, l), r) = Tally(s, r)
<1> DEFINE t == Append(s, l)
<1>1. PICK n : n = Len(s) OBVIOUS
<1>2. n \in Nat /\ h \in 0 .. n /\ t \in Seq(SumLine) /\ Len(t) = n + 1 /\ t[n + 1] = l
  BY <1>1, HeadUnique, HeaderEndIs
<1>3. \A k \in h + 1 .. n : t[k] = s[k] BY <1>1, <1>2
<1>4. n + 1 \notin ResultsSaying(s, h, r) BY <1>1, <1>2 DEF ResultsSaying
<1>5. CASE FP!classify(l) = "Result" /\ l.word = r
  <2>1. ResultsSaying(t, h, r) = ResultsSaying(s, h, r) \cup {n + 1}
    BY <1>1, <1>2, <1>3, <1>5 DEF ResultsSaying
  <2>2. Cardinality(ResultsSaying(t, h, r)) = Cardinality(ResultsSaying(s, h, r)) + 1
    BY <2>1, <1>4, TallyIs, FS_AddElement
  <2> QED BY <1>2, <1>5, <2>2, TallyIs, FS_CardinalityType
<1>6. CASE ~(FP!classify(l) = "Result" /\ l.word = r)
  <2>1. ResultsSaying(t, h, r) = ResultsSaying(s, h, r)
    BY <1>1, <1>2, <1>3, <1>6 DEF ResultsSaying
  <2> QED BY <1>2, <1>6, <2>1, TallyIs, FS_CardinalityType
<1> QED BY <1>5, <1>6

-----------------------------------------------------------------------------
(* The invariant of failproc.  What is read of the listed failures, what   *)
(* is copied and counted, and, of a second run, what its input is.         *)
TestsOf(n) == {xfailfile[k].test : k \in {j \in 1 .. n : FP!classify(xfailfile[j]) = "Result"}}
Fails(l) == l.kind = "colon" /\ l.word = "FAIL" /\ FP!Listed(l.test)
OutLine(k) == IF k > FP!HeaderEnd(sum) /\ Fails(sum[k]) THEN [sum[k] EXCEPT !.word = "XFAIL"] ELSE sum[k]
CountsLine(s) ==
    [kind |-> "text", word |-> "counts", test |-> "",
     counts |-> <<Tally(s, "PASS"), Tally(s, "FAIL"), Tally(s, "XPASS"), Tally(s, "XFAIL"),
                  Tally(s, "UNRESOLVED"), Tally(s, "UNSUPPORTED")>>]
Tallied == \A r \in FP!Counted : count[r] = Tally(out, r)
(* A log that has a summary, as failproc writes it. *)
Reported(s) ==
    (\E k \in FP!HeaderEnd(s) + 1 .. Len(s) : s[k].kind = "summary") =>
        /\ FP!BodyEnd(s) = Len(s) - 1 /\ s[Len(s)] = CountsLine(s)
        /\ \A k \in FP!HeaderEnd(s) + 1 .. Len(s) : ~Fails(s[k])

ReadsXfails ==
    failPhase = "xfails" =>
        /\ failLine \in 1 .. Len(xfailfile) + 1 /\ out = <<>> /\ count = FP!NoCount
        /\ DOMAIN xfails = TestsOf(failLine - 1)
KnowsXfails == failPhase \in {"header", "body", "done"} => DOMAIN xfails = TestsOf(Len(xfailfile))
InHeader ==
    failPhase = "header" =>
        /\ failLine \in 1 .. Len(sum) + 1 /\ Len(out) = failLine - 1 /\ count = FP!NoCount
        /\ \A k \in 1 .. failLine - 1 : out[k] = sum[k] /\ sum[k].kind # "running"
InBody ==
    failPhase = "body" =>
        /\ failLine \in FP!HeaderEnd(sum) + 1 .. Len(sum) + 1 /\ Len(out) = failLine - 1
        /\ \A k \in 1 .. failLine - 1 : out[k] = OutLine(k)
        /\ \A k \in FP!HeaderEnd(sum) + 1 .. failLine - 1 : sum[k].kind # "summary"
        /\ Tallied
AtDone == failPhase = "done" => Tallied /\ FP!OnlyListedChange /\ Reported(out) /\ out # <<>>
         /\ out[Len(out)] = FP!Counts
SecondRun == first # <<>> => sum = first /\ Reported(first)
FailTyped ==
    /\ sum \in Seq(SumLine) /\ xfailfile \in Seq(SumLine) /\ out \in Seq(SumLine)
    /\ FP!TypeOK
FailInv == FailTyped /\ ReadsXfails /\ KnowsXfails /\ InHeader /\ InBody /\ AtDone /\ SecondRun

(* The listed tests are those of the table. *)
LEMMA ListedAre == DOMAIN xfails = TestsOf(Len(xfailfile)) /\ xfailfile \in Seq(SumLine) =>
                     \A t : FP!Listed(t) <=> t \in DOMAIN xfails
BY DEF TestsOf, FP!Listed

LEMMA Reworded ==
  ASSUME NEW l \in SumLine, NEW m, m = [l EXCEPT !.word = "XFAIL"]
  PROVE  /\ m \in SumLine /\ m.kind = l.kind /\ m.word = "XFAIL" /\ m.test = l.test
<1>1. l = [kind |-> l.kind, word |-> l.word, test |-> l.test, counts |-> l.counts]
  BY DEF SumLine
<1>2. m = [kind |-> l.kind, word |-> "XFAIL", test |-> l.test, counts |-> l.counts]
  BY <1>1
<1> QED BY <1>1, <1>2 DEF SumLine, WordNames

LEMMA OutLineIs ==
  ASSUME sum \in Seq(SumLine), NEW k \in 1 .. Len(sum)
  PROVE  /\ OutLine(k) \in SumLine /\ OutLine(k).kind = sum[k].kind
         /\ k > FP!HeaderEnd(sum) => ~Fails(OutLine(k))
<1>1. PICK l \in SumLine : l = sum[k] BY ElementOf
<1> QED BY <1>1, Reworded DEF OutLine, Fails

(* The output has its header where the input has it. *)
LEMMA HeadOfOutput ==
  ASSUME NEW s \in Seq(SumLine), NEW t \in Seq(SumLine), NEW h \in Int, IsHead(s, h),
         NEW n \in Int, h <= n, n <= Len(s), n = Len(t), \A k \in 1 .. n : t[k].kind = s[k].kind
  PROVE  IsHead(t, h)
BY DEF IsHead

LEMMA HeadStays ==
  ASSUME NEW s \in Seq(SumLine), NEW h \in Int, IsHead(s, h), h \in 1 .. Len(s), s[h].kind = "running",
         NEW l \in SumLine
  PROVE  IsHead(Append(s, l), h)
BY DEF IsHead

LEMMA CountsTyped == FP!TypeOK => FP!Counts \in SumLine
<1> SUFFICES ASSUME count \in [FP!Counted -> Nat] PROVE FP!Counts \in SumLine BY DEF FP!TypeOK
<1>1. /\ count["PASS"] \in Int /\ count["FAIL"] \in Int /\ count["XPASS"] \in Int
      /\ count["XFAIL"] \in Int /\ count["UNRESOLVED"] \in Int /\ count["UNSUPPORTED"] \in Int
  BY DEF FP!Counted
<1> QED BY <1>1 DEF FP!Counts, SumLine, KindNames, WordNames, TestNames

LEMMA CountsAreTallies == Tallied => FP!Counts = CountsLine(out)
BY DEF Tallied, FP!Counts, CountsLine, FP!Counted

LEMMA SeqOfMore ==
  ASSUME NEW S, NEW T, S \subseteq T, NEW s \in Seq(S)
  PROVE  s \in Seq(T)
<1>1. Len(s) \in Nat /\ s = [k \in 1 .. Len(s) |-> s[k]] OBVIOUS
<1>2. \A k \in 1 .. Len(s) : s[k] \in T OBVIOUS
<1> QED BY <1>1, <1>2

LEMMA InitFailInv == FP!Init \/ (sum = <<>> /\ xfailfile = <<>> /\ first = <<>> /\ FP!Start) => FailInv
<1> SUFFICES ASSUME FP!Start, first = <<>>, sum \in Seq(SumLine), xfailfile \in Seq(SumLine)
             PROVE  FailInv
  <2>1. FP!Init => sum \in Seq(SumLine) /\ xfailfile \in Seq(SumLine)
    <3> DEFINE L == [kind : STRING, word : STRING, test : STRING, counts : Seq(Int)]
    <3>1. L \subseteq SumLine BY DEF SumLine, KindNames, WordNames, TestNames
    <3>2. ASSUME NEW s \in Seq(L) PROVE s \in Seq(SumLine)
      BY <3>1, SeqOfMore
    <3> QED BY <3>2, FailFilesAssumption DEF FP!Init, FP!FilesAssumption
  <2>2. <<>> \in Seq(SumLine) OBVIOUS
  <2>3. CASE FP!Init BY <2>1, <2>3 DEF FP!Init
  <2>4. CASE sum = <<>> /\ xfailfile = <<>> /\ first = <<>> /\ FP!Start BY <2>2, <2>4
  <2> QED BY <2>3, <2>4
<1>1. TestsOf(0) = {} BY DEF TestsOf
<1>2. FP!NoCount \in [FP!Counted -> Nat] BY DEF FP!NoCount
<1>3. DOMAIN xfails = {} BY DEF FP!Start
<1>4. failLine = 1 /\ failPhase = "xfails" /\ out = <<>> /\ count = FP!NoCount BY DEF FP!Start
<1>5. FailTyped BY <1>2, <1>3, <1>4 DEF FailTyped, FP!TypeOK
<1>6. ReadsXfails BY <1>1, <1>3, <1>4 DEF ReadsXfails
<1> QED BY <1>4, <1>5, <1>6 DEF FailInv, KnowsXfails, InHeader, InBody, AtDone, SecondRun

-----------------------------------------------------------------------------
(* One line of the body. *)
LEMMA Classified ==
  \A l : /\ FP!classify(l) = "Summary" => l.kind = "summary"
         /\ l.kind = "summary" => FP!classify(l) = "Summary"
         /\ FP!classify(l) = "Result" <=> l.kind = "colon" /\ l.word \in FP!Results
BY DEF FP!classify

LEMMA CountedAsIs ==
  ASSUME count \in [FP!Counted -> Nat], NEW w
  PROVE  /\ FP!CountedAs(w) \in [FP!Counted -> Nat]
         /\ \A r \in FP!Counted : FP!CountedAs(w)[r] = IF r = w THEN count[r] + 1 ELSE count[r]
BY DEF FP!CountedAs

LEMMA OutputHead ==
  ASSUME FailTyped, InBody, failPhase = "body", NEW h \in Int, h = FP!HeaderEnd(sum)
  PROVE  IsHead(out, h) /\ (failLine <= Len(sum) => h \in 1 .. Len(out) /\ out[h].kind = "running")
<1>1. sum \in Seq(SumLine) /\ out \in Seq(SumLine) /\ Len(sum) \in Nat BY DEF FailTyped
<1>2. IsHead(sum, h) /\ h \in 0 .. Len(sum) BY <1>1, HeaderEndIs
<1>3. PICK n : n = failLine - 1 OBVIOUS
<1>4. n \in h .. Len(sum) /\ n = Len(out) /\ n \in Int /\ n + 1 = failLine
  BY <1>1, <1>2, <1>3 DEF InBody
<1>5. \A k \in 1 .. n : out[k] = OutLine(k) BY <1>3 DEF InBody
<1>6. \A k \in 1 .. n : out[k].kind = sum[k].kind BY <1>1, <1>4, <1>5, OutLineIs
<1>7. IsHead(out, h) BY <1>1, <1>2, <1>4, <1>6, HeadOfOutput
<1>8. ASSUME failLine <= Len(sum) PROVE h \in 1 .. Len(sum) /\ sum[h].kind = "running"
  BY <1>1, <1>2, <1>4, <1>8 DEF IsHead
<1> QED BY <1>4, <1>6, <1>7, <1>8

LEMMA SecondRunStays ==
  ASSUME SecondRun, UNCHANGED <<sum, xfailfile, first>>
  PROVE  SecondRun'
<1>1. CountsLine(first)' = CountsLine(first) BY DEF CountsLine, Tally
<1>2. \A l : Fails(l)' <=> Fails(l) BY DEF Fails, FP!Listed
<1>3. FP!HeaderEnd(first)' = FP!HeaderEnd(first) /\ FP!BodyEnd(first)' = FP!BodyEnd(first) OBVIOUS
<1>4. Reported(first)' <=> Reported(first) BY <1>1, <1>2, <1>3 DEF Reported
<1> QED BY <1>4 DEF SecondRun

LEMMA BodyLine ==
  ASSUME FailInv, failPhase = "body", failLine <= Len(sum), sum[failLine].kind # "summary",
         NEW l, l = OutLine(failLine),
         out' = Append(out, l), failLine' = failLine + 1, failPhase' = failPhase,
         FP!classify(l) = "Result" => count' = FP!CountedAs(l.word),
         FP!classify(l) # "Result" => count' = count,
         UNCHANGED <<sum, xfailfile, first, xfails>>
  PROVE  FailInv'
<1>1. sum \in Seq(SumLine) /\ out \in Seq(SumLine) /\ Len(sum) \in Nat /\ FP!TypeOK
  BY DEF FailInv, FailTyped
<1>2. PICK h : h = FP!HeaderEnd(sum) OBVIOUS
<1>3. h \in 0 .. Len(sum) /\ h \in Int BY <1>1, <1>2, HeaderEndIs
<1>4. PICK n : n = failLine OBVIOUS
<1>5. n \in h + 1 .. Len(sum) /\ Len(out) = n - 1 /\ n \in 1 .. Len(sum)
  BY <1>1, <1>2, <1>3, <1>4 DEF FailInv, InBody
<1>6. l \in SumLine /\ l.kind = sum[n].kind BY <1>1, <1>4, <1>5, OutLineIs
<1>7. out' \in Seq(SumLine) /\ Len(out') = n /\ out'[n] = l /\ \A k \in 1 .. n - 1 : out'[k] = out[k]
  BY <1>1, <1>5, <1>6
<1>8. count \in [FP!Counted -> Nat] BY <1>1 DEF FP!TypeOK
<1>9. IsHead(out, h) /\ h \in 1 .. Len(out) /\ out[h].kind = "running"
  BY <1>2, <1>3, OutputHead DEF FailInv
<1>10. IsHead(Append(out, l), h) BY <1>1, <1>3, <1>6, <1>9, HeadStays
<1>11. ASSUME NEW r \in FP!Counted PROVE count'[r] = Tally(out', r)
  <2>1. count[r] = Tally(out, r) BY <1>11 DEF FailInv, InBody, Tallied
  <2>2. /\ FP!classify(l) = "Result" /\ l.word = r => Tally(out', r) = Tally(out, r) + 1
        /\ ~(FP!classify(l) = "Result" /\ l.word = r) => Tally(out', r) = Tally(out, r)
    BY <1>1, <1>3, <1>6, <1>9, <1>10, TallyGrows
  <2> QED BY <2>1, <2>2, <1>8, CountedAsIs
<1>12. Tallied' BY <1>11 DEF Tallied, Tally
<1>13. count' \in [FP!Counted -> Nat] BY <1>8, CountedAsIs
<1>14. FP!TypeOK' BY <1>1, <1>13, <1>4, <1>5 DEF FP!TypeOK
<1>15. FailTyped' BY <1>1, <1>7, <1>14 DEF FailTyped, FailInv
<1>16. \A k \in 1 .. n : out'[k] = OutLine(k)
  <2>1. \A k \in 1 .. n - 1 : out[k] = OutLine(k) BY <1>4 DEF FailInv, InBody
  <2> QED BY <2>1, <1>4, <1>5, <1>7
<1>17. \A k \in h + 1 .. n : sum[k].kind # "summary"
  <2>1. \A k \in h + 1 .. n - 1 : sum[k].kind # "summary" BY <1>2, <1>4 DEF FailInv, InBody
  <2> QED BY <2>1, <1>4, <1>5
<1>18. InBody'
  <2>1. failLine' = n + 1 /\ sum' = sum BY <1>4
  <2>2. \A k \in 1 .. n : OutLine(k)' = OutLine(k) BY DEF OutLine, Fails, FP!Listed
  <2>3. FP!HeaderEnd(sum)' = h BY <1>2
  <2> QED BY <2>1, <2>2, <2>3, <1>1, <1>3, <1>5, <1>7, <1>12, <1>16, <1>17 DEF InBody
<1>19. KnowsXfails' BY DEF FailInv, KnowsXfails, TestsOf
<1>20. SecondRun' BY SecondRunStays DEF FailInv
<1> QED BY <1>15, <1>18, <1>19, <1>20 DEF FailInv, ReadsXfails, InHeader, AtDone

LEMMA StepCopy == FailInv /\ FP!Copy => FailInv'
<1> SUFFICES ASSUME FailInv, FP!Copy PROVE FailInv' OBVIOUS
<1>1. PICK type \in {"Unknown", "Begin_exp", "Test_error"} : FP!Reading(type) BY DEF FP!Copy
<1>2. failPhase = "body" /\ failLine <= Len(sum) /\ FP!classify(sum[failLine]) = type
  BY <1>1 DEF FP!Reading
<1>3. sum[failLine].kind # "summary" /\ FP!classify(sum[failLine]) # "Result"
  BY <1>1, <1>2, Classified
<1>4. ~Fails(sum[failLine]) BY <1>3, Classified DEF Fails, FP!Results
<1> QED BY <1>2, <1>3, <1>4, BodyLine DEF OutLine, FP!Copy, FP!Written, FP!files

LEMMA ListedIsTable ==
  FailInv /\ failPhase = "body" => \A t : FP!Listed(t) <=> FP!ExpectedToFail(t)
BY ListedAre DEF FailInv, FailTyped, KnowsXfails, FP!ExpectedToFail

LEMMA StepCopyResult == FailInv /\ FP!CopyResult => FailInv'
<1> SUFFICES ASSUME FailInv, FP!CopyResult PROVE FailInv' OBVIOUS
<1>1. failPhase = "body" /\ failLine <= Len(sum) /\ FP!classify(sum[failLine]) = "Result"
  BY DEF FP!CopyResult, FP!Reading
<1>2. sum[failLine].kind # "summary" BY <1>1, Classified
<1>3. ~Fails(sum[failLine]) BY <1>1, ListedIsTable DEF Fails, FP!CopyResult
<1>4. OutLine(failLine) = sum[failLine] BY <1>3 DEF OutLine
<1> QED BY <1>1, <1>2, <1>4, BodyLine DEF FP!CopyResult, FP!Written, FP!files

LEMMA StepChangeResult == FailInv /\ FP!ChangeResult => FailInv'
<1> SUFFICES ASSUME FailInv, FP!ChangeResult PROVE FailInv' OBVIOUS
<1>1. failPhase = "body" /\ failLine <= Len(sum) /\ FP!classify(sum[failLine]) = "Result"
      /\ sum[failLine].word = "FAIL"
  BY DEF FP!ChangeResult, FP!Reading
<1>2. sum[failLine].kind = "colon" BY <1>1, Classified
<1>3. Fails(sum[failLine]) BY <1>1, <1>2, ListedIsTable DEF Fails, FP!ChangeResult
<1>4. CASE xfails[sum[failLine].test] = "FAIL"
  <2>1. FailTyped /\ InBody BY DEF FailInv
  <2>2. PICK h : h = FP!HeaderEnd(sum) OBVIOUS
  <2>3. failLine > h /\ failLine \in 1 .. Len(sum)
    BY <1>1, <2>1, <2>2, HeaderEndIs DEF FailTyped, InBody
  <2>4. PICK l : l = [sum[failLine] EXCEPT !.word = "XFAIL"] OBVIOUS
  <2>5. l = OutLine(failLine) BY <1>3, <2>2, <2>3, <2>4 DEF OutLine
  <2>6. sum[failLine] \in SumLine BY <2>1, <2>3, ElementOf DEF FailTyped
  <2>7. l.kind = "colon" /\ l.word = "XFAIL" BY <1>2, <2>4, <2>6, Reworded
  <2>8. FP!classify(l) = "Result" BY <2>7, Classified DEF FP!Results
  <2>9. out' = Append(out, l) /\ failLine' = failLine + 1 /\ count' = FP!CountedAs("XFAIL")
        /\ failPhase' = failPhase
    BY <1>4, <2>4 DEF FP!ChangeResult, FP!Changed
  <2> QED BY <1>1, <1>2, <2>5, <2>7, <2>8, <2>9, BodyLine DEF FP!ChangeResult, FP!files
<1>5. CASE xfails[sum[failLine].test] # "FAIL"
  <2>1. failPhase' = "failed" /\ UNCHANGED <<failLine, out, count, sum, xfailfile, first, xfails>>
    BY <1>5 DEF FP!ChangeResult, FP!files
  <2>2. FailTyped' BY <2>1 DEF FailInv, FailTyped, FP!TypeOK
  <2>3. SecondRun' BY <2>1, SecondRunStays DEF FailInv
  <2> QED BY <2>1, <2>2, <2>3
    DEF FailInv, ReadsXfails, KnowsXfails, InHeader, InBody, AtDone
<1> QED BY <1>4, <1>5

LEMMA TestsOfMore ==
  ASSUME xfailfile \in Seq(SumLine), NEW n \in 1 .. Len(xfailfile), NEW l, l = xfailfile[n]
  PROVE  TestsOf(n) = IF FP!classify(l) = "Result" THEN TestsOf(n - 1) \cup {l.test} ELSE TestsOf(n - 1)
<1>1. {j \in 1 .. n : FP!classify(xfailfile[j]) = "Result"}
        = {j \in 1 .. n - 1 : FP!classify(xfailfile[j]) = "Result"}
            \cup (IF FP!classify(l) = "Result" THEN {n} ELSE {})
  OBVIOUS
<1> QED BY <1>1 DEF TestsOf

LEMMA StepReadXfail == FailInv /\ FP!ReadXfail => FailInv'
<1> SUFFICES ASSUME FailInv, FP!ReadXfail PROVE FailInv' OBVIOUS
<1>1. failPhase = "xfails" /\ failLine <= Len(xfailfile)
      /\ UNCHANGED <<sum, xfailfile, first, out, count>>
  BY DEF FP!ReadXfail, FP!files
<1>2. SecondRun' BY <1>1, SecondRunStays DEF FailInv
<1>3. FailTyped /\ FP!TypeOK /\ ReadsXfails BY DEF FailInv, FailTyped
<1>4. PICK n : n = failLine OBVIOUS
<1>5. PICK l : l = xfailfile[n] OBVIOUS
<1>6. n \in 1 .. Len(xfailfile) /\ n \in Nat /\ DOMAIN xfails = TestsOf(n - 1)
      /\ out = <<>> /\ count = FP!NoCount
  BY <1>1, <1>3, <1>4 DEF ReadsXfails, FP!TypeOK
<1>7. FP!Xfail = l BY <1>4, <1>5 DEF FP!Xfail
<1>8. CASE FP!classify(l) = "Test_error"
  <2>1. failPhase' = "failed" /\ UNCHANGED <<xfails, failLine>>
    BY <1>7, <1>8 DEF FP!ReadXfail
  <2>2. FailTyped' BY <1>1, <1>3, <2>1 DEF FailTyped, FP!TypeOK
  <2> QED BY <1>2, <2>1, <2>2 DEF FailInv, ReadsXfails, KnowsXfails, InHeader, InBody, AtDone
<1>9. CASE FP!classify(l) = "Result"
  <2>1. xfails' = FP!Recorded /\ failLine' = n + 1 /\ failPhase' = "xfails"
    BY <1>1, <1>4, <1>7, <1>9 DEF FP!ReadXfail
  <2>2. DOMAIN xfails' = TestsOf(n) BY <1>3, <1>5, <1>6, <1>7, <1>9, <2>1, TestsOfMore
    DEF FP!Recorded, FailTyped
  <2>3. FP!result(l) \in FP!Results BY <1>9, Classified DEF FP!result, FP!Results
  <2>4. \A t \in DOMAIN xfails' : xfails'[t] \in FP!Results
    BY <1>3, <1>7, <2>1, <2>3 DEF FP!Recorded, FP!TypeOK
  <2>5. FailTyped' BY <1>1, <1>3, <1>6, <2>1, <2>4 DEF FailTyped, FP!TypeOK
  <2>6. TestsOf(failLine - 1)' = TestsOf(n) BY <1>1, <1>6, <2>1 DEF TestsOf
  <2>7. ReadsXfails' BY <1>1, <1>6, <2>1, <2>2, <2>6 DEF ReadsXfails
  <2> QED BY <1>2, <2>1, <2>5, <2>7 DEF FailInv, KnowsXfails, InHeader, InBody, AtDone
<1>10. CASE FP!classify(l) \notin {"Test_error", "Result"}
  <2>1. failLine' = n + 1 /\ failPhase' = "xfails" /\ xfails' = xfails
    BY <1>1, <1>4, <1>7, <1>10 DEF FP!ReadXfail
  <2>2. DOMAIN xfails' = TestsOf(n) BY <1>3, <1>5, <1>6, <1>10, <2>1, TestsOfMore DEF FailTyped
  <2>5. FailTyped' BY <1>1, <1>3, <1>6, <2>1 DEF FailTyped, FP!TypeOK
  <2>6. TestsOf(failLine - 1)' = TestsOf(n) BY <1>1, <1>6, <2>1 DEF TestsOf
  <2>7. ReadsXfails' BY <1>1, <1>6, <2>1, <2>2, <2>6 DEF ReadsXfails
  <2> QED BY <1>2, <2>1, <2>5, <2>7 DEF FailInv, KnowsXfails, InHeader, InBody, AtDone
<1> QED BY <1>8, <1>9, <1>10

LEMMA StepXfailsRead == FailInv /\ FP!XfailsRead => FailInv'
<1> SUFFICES ASSUME FailInv, FP!XfailsRead PROVE FailInv' OBVIOUS
<1>1. failPhase = "xfails" /\ failLine > Len(xfailfile) /\ failPhase' = "header" /\ failLine' = 1
      /\ UNCHANGED <<sum, xfailfile, first, out, count, xfails>>
  BY DEF FP!XfailsRead, FP!files
<1>2. SecondRun' BY <1>1, SecondRunStays DEF FailInv
<1>3. FailTyped /\ FP!TypeOK /\ ReadsXfails BY DEF FailInv, FailTyped
<1>4. failLine - 1 = Len(xfailfile) BY <1>1, <1>3 DEF ReadsXfails, FailTyped
<1>5. DOMAIN xfails = TestsOf(Len(xfailfile)) BY <1>1, <1>3, <1>4 DEF ReadsXfails
<1>6. KnowsXfails' BY <1>1, <1>5 DEF KnowsXfails, TestsOf
<1>7. FailTyped' BY <1>1, <1>3 DEF FailTyped, FP!TypeOK
<1>8. InHeader' BY <1>1, <1>3 DEF InHeader, ReadsXfails, FailTyped
<1> QED BY <1>1, <1>2, <1>6, <1>7, <1>8 DEF FailInv, ReadsXfails, InBody, AtDone

LEMMA StepHeader == FailInv /\ FP!Header => FailInv'
<1> SUFFICES ASSUME FailInv, FP!Header PROVE FailInv' OBVIOUS
<1>1. failPhase = "header" /\ failLine <= Len(sum) /\ out' = Append(out, sum[failLine])
      /\ failLine' = failLine + 1 /\ UNCHANGED <<sum, xfailfile, first, count, xfails>>
      /\ failPhase' = IF sum[failLine].kind = "running" THEN "body" ELSE "header"
  BY DEF FP!Header, FP!files
<1>2. SecondRun' BY <1>1, SecondRunStays DEF FailInv
<1>3. FailTyped /\ FP!TypeOK /\ InHeader BY DEF FailInv, FailTyped
<1>4. PICK n : n = failLine OBVIOUS
<1>5. n \in 1 .. Len(sum) /\ sum \in Seq(SumLine) /\ out \in Seq(SumLine) /\ Len(out) = n - 1
      /\ count = FP!NoCount /\ \A k \in 1 .. n - 1 : out[k] = sum[k] /\ sum[k].kind # "running"
  BY <1>1, <1>3, <1>4 DEF FailTyped, InHeader
<1>6. sum[n] \in SumLine BY <1>5, ElementOf
<1>7. out' \in Seq(SumLine) /\ Len(out') = n /\ \A k \in 1 .. n : out'[k] = sum[k]
  BY <1>1, <1>4, <1>5, <1>6
<1>8. FailTyped' BY <1>1, <1>3, <1>7 DEF FailTyped, FP!TypeOK
<1>9. KnowsXfails' BY <1>1 DEF FailInv, KnowsXfails, TestsOf
<1>10. CASE sum[n].kind = "running"
  <2>1. IsHead(sum, n) /\ IsHead(out', n) BY <1>5, <1>7, <1>10 DEF IsHead
  <2>2. FP!HeaderEnd(sum) = n BY <1>5, <2>1, HeadUnique
  <2>3. Tallied'
    <3>1. ASSUME NEW r \in FP!Counted PROVE Tally(out', r) = 0
      <4>1. ResultsSaying(out', n, r) = {} BY <1>5, <1>7 DEF ResultsSaying
      <4> QED BY <1>5, <1>7, <2>1, <4>1, TallyIs, FS_EmptySet
    <3>2. count' = FP!NoCount BY <1>1, <1>5
    <3> QED BY <3>1, <3>2 DEF Tallied, FP!NoCount, Tally
  <2>4. \A k \in 1 .. n : out'[k] = OutLine(k) BY <1>5, <1>7, <2>2 DEF OutLine
  <2>5. \A k \in 1 .. n : OutLine(k)' = OutLine(k) BY <1>1 DEF OutLine, Fails, FP!Listed
  <2>6. failLine' = n + 1 /\ FP!HeaderEnd(sum)' = n /\ failPhase' = "body" BY <1>1, <1>4, <1>10, <2>2
  <2>7. InBody' BY <1>1, <1>5, <1>7, <2>3, <2>4, <2>5, <2>6 DEF InBody
  <2> QED BY <1>2, <1>8, <1>9, <2>6, <2>7 DEF FailInv, ReadsXfails, InHeader, AtDone
<1>11. CASE sum[n].kind # "running"
  <2>1. failLine' = n + 1 /\ failPhase' = "header" BY <1>1, <1>4, <1>11
  <2>2. InHeader' BY <1>1, <1>5, <1>7, <1>11, <2>1 DEF InHeader
  <2> QED BY <1>2, <1>8, <1>9, <2>1, <2>2 DEF FailInv, ReadsXfails, InBody, AtDone
<1> QED BY <1>10, <1>11

LEMMA StepNoBody == FailInv /\ FP!NoBody => FailInv'
<1> SUFFICES ASSUME FailInv, FP!NoBody PROVE FailInv' OBVIOUS
<1>1. failPhase = "header" /\ failLine > Len(sum) /\ failPhase' = "body"
      /\ UNCHANGED <<sum, xfailfile, first, count, xfails, failLine, out>>
  BY DEF FP!NoBody, FP!files
<1>2. SecondRun' BY <1>1, SecondRunStays DEF FailInv
<1>3. FailTyped /\ FP!TypeOK /\ InHeader BY DEF FailInv, FailTyped
<1>4. PICK n : n = Len(sum) OBVIOUS
<1>5. failLine = n + 1 /\ n \in Nat /\ sum \in Seq(SumLine) /\ out \in Seq(SumLine) /\ Len(out) = n
      /\ count = FP!NoCount /\ \A k \in 1 .. n : out[k] = sum[k] /\ sum[k].kind # "running"
  BY <1>1, <1>3, <1>4 DEF FailTyped, InHeader
<1>6. FailTyped' BY <1>1, <1>3 DEF FailTyped, FP!TypeOK
<1>7. KnowsXfails' BY <1>1 DEF FailInv, KnowsXfails, TestsOf
<1>8. IsHead(sum, n) /\ IsHead(out, n) BY <1>4, <1>5 DEF IsHead
<1>9. FP!HeaderEnd(sum) = n BY <1>5, <1>8, HeadUnique
<1>10. Tallied
  <2>1. ASSUME NEW r \in FP!Counted PROVE Tally(out, r) = 0
    <3>1. ResultsSaying(out, n, r) = {} BY <1>5 DEF ResultsSaying
    <3> QED BY <1>5, <1>8, <3>1, TallyIs, FS_EmptySet
  <2> QED BY <1>5, <2>1 DEF Tallied, FP!NoCount
<1>11. Tallied' BY <1>1, <1>10 DEF Tallied, Tally
<1>12. \A k \in 1 .. n : out[k] = OutLine(k) BY <1>5, <1>9 DEF OutLine
<1>13. \A k \in 1 .. n : OutLine(k)' = OutLine(k) BY <1>1 DEF OutLine, Fails, FP!Listed
<1>14. FP!HeaderEnd(sum)' = n BY <1>1, <1>9
<1>15. InBody' BY <1>1, <1>4, <1>5, <1>11, <1>12, <1>13, <1>14 DEF InBody
<1> QED BY <1>1, <1>2, <1>6, <1>7, <1>15 DEF FailInv, ReadsXfails, InHeader, AtDone

LEMMA ReportedKept ==
  ASSUME NEW o, o = out', UNCHANGED xfailfile, Reported(o)
  PROVE  Reported(out)'
<1>1. CountsLine(out)' = CountsLine(o) BY DEF CountsLine, Tally
<1>2. \A l : Fails(l)' <=> Fails(l) BY DEF Fails, FP!Listed
<1>3. FP!HeaderEnd(out)' = FP!HeaderEnd(o) /\ FP!BodyEnd(out)' = FP!BodyEnd(o) OBVIOUS
<1> QED BY <1>1, <1>2, <1>3 DEF Reported

LEMMA AppendTwo ==
  ASSUME NEW S, NEW s \in Seq(S), NEW x \in S, NEW y \in S
  PROVE  s \o <<x, y>> = Append(Append(s, x), y)
OBVIOUS

LEMMA SameCardinality == \A S : FP!Cardinality(S) = Cardinality(S)
BY DEF FP!Cardinality, Cardinality

LEMMA StepSummary == FailInv /\ FP!Summary => FailInv'
<1> SUFFICES ASSUME FailInv, FP!Summary PROVE FailInv' OBVIOUS
<1>1. failPhase = "body" /\ failLine <= Len(sum) /\ sum[failLine].kind = "summary"
      /\ failPhase' = "done" /\ out' = out \o <<sum[failLine], FP!Counts>>
      /\ UNCHANGED <<sum, xfailfile, first, count, xfails, failLine>>
  BY Classified DEF FP!Summary, FP!Reading, FP!files
<1>2. SecondRun' BY <1>1, SecondRunStays DEF FailInv
<1>3. FailTyped /\ FP!TypeOK /\ InBody /\ sum \in Seq(SumLine) /\ out \in Seq(SumLine)
  BY DEF FailInv, FailTyped
<1>4. PICK h : h = FP!HeaderEnd(sum) OBVIOUS
<1>5. PICK n : n = failLine OBVIOUS
<1>6. PICK c \in SumLine : c = FP!Counts BY <1>3, CountsTyped
<1>7. h \in 0 .. Len(sum) /\ h \in Int /\ IsHead(sum, h) /\ Len(sum) \in Nat
  BY <1>3, <1>4, HeaderEndIs
<1>8. /\ n \in h + 1 .. Len(sum) /\ Len(out) = n - 1 /\ n \in 1 .. Len(sum) /\ sum[n].kind = "summary"
      /\ \A k \in 1 .. n - 1 : out[k] = OutLine(k)
      /\ \A k \in h + 1 .. n - 1 : sum[k].kind # "summary"
  BY <1>1, <1>3, <1>4, <1>5, <1>7 DEF InBody
<1>9. IsHead(out, h) /\ h \in 1 .. Len(out) /\ out[h].kind = "running"
  BY <1>1, <1>3, <1>4, <1>7, OutputHead
<1>10. sum[n] \in SumLine BY <1>3, <1>8, ElementOf
<1>11. PICK o1 : o1 = Append(out, sum[n]) OBVIOUS
<1>12. PICK o2 : o2 = Append(o1, c) OBVIOUS
<1>13. /\ o1 \in Seq(SumLine) /\ Len(o1) = n /\ o1[h].kind = "running" /\ h \in 1 .. Len(o1)
       /\ o1[n] = sum[n] /\ \A k \in 1 .. n - 1 : o1[k] = out[k]
  BY <1>3, <1>8, <1>9, <1>10, <1>11
<1>14. /\ o2 \in Seq(SumLine) /\ Len(o2) = n + 1 /\ o2[n + 1] = c /\ o2[n] = sum[n]
       /\ \A k \in 1 .. n - 1 : o2[k] = out[k]
  BY <1>8, <1>12, <1>13
<1>15. out' = o2 BY <1>1, <1>3, <1>5, <1>6, <1>10, <1>11, <1>12, AppendTwo
<1>16. IsHead(o1, h) BY <1>3, <1>7, <1>9, <1>10, <1>11, HeadStays
<1>17. IsHead(o2, h) BY <1>6, <1>7, <1>12, <1>13, <1>16, HeadStays
<1>18. FP!classify(sum[n]) # "Result" /\ FP!classify(c) # "Result" /\ c.kind = "text"
  BY <1>6, <1>8, Classified DEF FP!Counts
<1>19. ASSUME NEW r \in FP!Counted PROVE Tally(o2, r) = count[r]
  <2>1. Tally(o1, r) = Tally(out, r) BY <1>3, <1>7, <1>9, <1>10, <1>11, <1>16, <1>18, TallyGrows
  <2>2. Tally(o2, r) = Tally(o1, r) BY <1>7, <1>12, <1>13, <1>16, <1>17, <1>18, TallyGrows
  <2> QED BY <1>1, <1>3, <2>1, <2>2 DEF InBody, Tallied
<1>20. Tallied' BY <1>1, <1>15, <1>19 DEF Tallied, Tally
<1>21. CountsLine(o2) = c BY <1>6, <1>19 DEF CountsLine, FP!Counts, FP!Counted
<1>22. IsBody(sum, h, n) BY <1>7, <1>8 DEF IsBody
<1>23. FP!BodyEnd(sum) = n BY <1>3, <1>4, <1>7, <1>8, <1>22, BodyUnique
<1>24. ~Fails(sum[n]) /\ ~Fails(c) BY <1>8, <1>18 DEF Fails
<1>25. \A k \in 1 .. n : o2[k] = OutLine(k) BY <1>8, <1>14, <1>24 DEF OutLine
<1>26. FP!OnlyListedChange'
  <2>1. FP!HeaderEnd(sum)' = h /\ FP!BodyEnd(sum)' = n BY <1>1, <1>4, <1>23
  <2>2. \A t : FP!Listed(t)' <=> FP!Listed(t) BY <1>1 DEF FP!Listed
  <2>3. \A k \in 1 .. n : out'[k] = IF k > h /\ sum[k].kind = "colon" /\ sum[k].word = "FAIL" /\ FP!Listed(sum[k].test)
                      THEN [sum[k] EXCEPT !.word = "XFAIL"] ELSE sum[k]
    BY <1>4, <1>15, <1>25 DEF OutLine, Fails
  <2> QED BY <1>1, <1>14, <1>15, <2>1, <2>2, <2>3 DEF FP!OnlyListedChange
<1>27. \A k \in 1 .. n : o2[k].kind = sum[k].kind /\ (k > h => ~Fails(o2[k]))
  BY <1>3, <1>4, <1>8, <1>25, OutLineIs
<1>28. FP!HeaderEnd(o2) = h BY <1>7, <1>14, <1>17, HeadUnique
<1>29. IsBody(o2, h, n) BY <1>7, <1>8, <1>14, <1>27 DEF IsBody
<1>30. FP!BodyEnd(o2) = n BY <1>7, <1>8, <1>14, <1>28, <1>29, BodyUnique
<1>31. Reported(o2)
  <2>1. \A k \in h + 1 .. n + 1 : ~Fails(o2[k]) BY <1>7, <1>8, <1>14, <1>24, <1>27
  <2> QED BY <1>8, <1>14, <1>21, <1>28, <1>30, <2>1 DEF Reported
<1>32. Reported(out)' BY <1>1, <1>15, <1>31, ReportedKept
<1>33. AtDone'
  <2>1. FP!Counts' = c BY <1>1, <1>6 DEF FP!Counts
  <2>2. out' # <<>> /\ out'[Len(out')] = c BY <1>8, <1>14, <1>15
  <2> QED BY <1>20, <1>26, <1>32, <2>1, <2>2 DEF AtDone
<1>34. FailTyped' BY <1>1, <1>3, <1>14, <1>15 DEF FailTyped, FP!TypeOK
<1>35. KnowsXfails' BY <1>1 DEF FailInv, KnowsXfails, TestsOf
<1> QED BY <1>1, <1>2, <1>33, <1>34, <1>35 DEF FailInv, ReadsXfails, InHeader, InBody

LEMMA StepEnd == FailInv /\ FP!End => FailInv'
<1> SUFFICES ASSUME FailInv, FP!End PROVE FailInv' OBVIOUS
<1>1. failPhase = "body" /\ failLine > Len(sum)
      /\ failPhase' = "done" /\ out' = Append(out, FP!Counts)
      /\ UNCHANGED <<sum, xfailfile, first, count, xfails, failLine>>
  BY DEF FP!End, FP!files
<1>2. SecondRun' BY <1>1, SecondRunStays DEF FailInv
<1>3. FailTyped /\ FP!TypeOK /\ InBody /\ sum \in Seq(SumLine) /\ out \in Seq(SumLine)
  BY DEF FailInv, FailTyped
<1>4. PICK h : h = FP!HeaderEnd(sum) OBVIOUS
<1>5. PICK n : n = Len(sum) OBVIOUS
<1>6. PICK c \in SumLine : c = FP!Counts BY <1>3, CountsTyped
<1>7. h \in 0 .. n /\ h \in Int /\ IsHead(sum, h) /\ n \in Nat
  BY <1>3, <1>4, <1>5, HeaderEndIs
<1>8. /\ failLine = n + 1 /\ Len(out) = n
      /\ \A k \in 1 .. n : out[k] = OutLine(k)
      /\ \A k \in h + 1 .. n : sum[k].kind # "summary"
  <2>1. failLine \in h + 1 .. n + 1 /\ Len(out) = failLine - 1 BY <1>1, <1>3, <1>4, <1>5 DEF InBody
  <2>2. failLine = n + 1 /\ failLine - 1 = n BY <1>1, <1>5, <1>7, <2>1
  <2> QED BY <1>1, <1>3, <1>4, <2>1, <2>2 DEF InBody
<1>9. IsHead(out, h) BY <1>1, <1>3, <1>4, <1>7, OutputHead
<1>10. c.kind = "text" /\ FP!classify(c) # "Result" BY <1>6, Classified DEF FP!Counts
<1>11. PICK o : o = Append(out, c) OBVIOUS
<1>12. /\ o \in Seq(SumLine) /\ Len(o) = n + 1 /\ o[n + 1] = c /\ \A k \in 1 .. n : o[k] = out[k]
  BY <1>3, <1>7, <1>8, <1>11
<1>13. out' = o BY <1>1, <1>6, <1>11
<1>14. \A k \in 1 .. n : o[k] = OutLine(k) /\ o[k].kind = sum[k].kind /\ out[k].kind = sum[k].kind
  BY <1>3, <1>5, <1>8, <1>12, OutLineIs
<1>15. /\ \A r \in FP!Counted : Tally(o, r) = count[r]
       /\ \A k \in FP!HeaderEnd(o) + 1 .. n + 1 : o[k].kind # "summary"
  <2>1. CASE h \in 1 .. n /\ sum[h].kind = "running"
    <3>1. out[h].kind = "running" /\ h \in 1 .. Len(out) BY <1>8, <1>14, <2>1
    <3>2. IsHead(o, h) BY <1>3, <1>7, <1>9, <1>11, <3>1, HeadStays
    <3>3. FP!HeaderEnd(o) = h BY <1>7, <1>12, <3>2, HeadUnique
    <3>4. ASSUME NEW r \in FP!Counted PROVE Tally(o, r) = count[r]
      <4>1. Tally(o, r) = Tally(out, r) BY <1>3, <1>7, <1>9, <1>10, <1>11, <3>2, TallyGrows
      <4> QED BY <1>1, <1>3, <4>1 DEF InBody, Tallied
    <3> QED BY <1>7, <1>8, <1>10, <1>12, <1>14, <3>3, <3>4
  <2>2. CASE h = n /\ \A k \in 1 .. n : sum[k].kind # "running"
    <3>1. IsHead(o, n + 1) /\ n + 1 \in Int BY <1>7, <1>10, <1>12, <1>14, <2>2 DEF IsHead
    <3>2. FP!HeaderEnd(o) = n + 1 BY <1>12, <3>1, HeadUnique
    <3>3. ASSUME NEW r \in FP!Counted PROVE Tally(o, r) = count[r]
      <4>1. ResultsSaying(o, n + 1, r) = {} /\ ResultsSaying(out, n, r) = {} BY <1>7, <1>8, <1>12 DEF ResultsSaying
      <4>2. Tally(o, r) = 0 BY <1>12, <3>1, <4>1, TallyIs, FS_EmptySet
      <4>3. Tally(out, r) = 0 BY <1>3, <1>7, <1>9, <2>2, <4>1, TallyIs, FS_EmptySet
      <4> QED BY <1>1, <1>3, <4>2, <4>3 DEF InBody, Tallied
    <3> QED BY <1>7, <3>2, <3>3
  <2> QED BY <1>5, <1>7, <2>1, <2>2 DEF IsHead
<1>16. Tallied' BY <1>1, <1>13, <1>15 DEF Tallied, Tally
<1>17. IsBody(sum, h, n) BY <1>5, <1>7, <1>8 DEF IsBody
<1>18. FP!BodyEnd(sum) = n BY <1>3, <1>4, <1>7, <1>17, BodyUnique
<1>19. FP!OnlyListedChange'
  <2>1. FP!HeaderEnd(sum)' = h /\ FP!BodyEnd(sum)' = n BY <1>1, <1>4, <1>18
  <2>2. \A t : FP!Listed(t)' <=> FP!Listed(t) BY <1>1 DEF FP!Listed
  <2>3. \A k \in 1 .. n : out'[k] = IF k > h /\ sum[k].kind = "colon" /\ sum[k].word = "FAIL" /\ FP!Listed(sum[k].test)
                      THEN [sum[k] EXCEPT !.word = "XFAIL"] ELSE sum[k]
    BY <1>4, <1>13, <1>14 DEF OutLine, Fails
  <2> QED BY <1>1, <1>12, <1>13, <2>1, <2>2, <2>3 DEF FP!OnlyListedChange
<1>20. Reported(o) BY <1>12, <1>15 DEF Reported
<1>21. Reported(out)' BY <1>1, <1>13, <1>20, ReportedKept
<1>22. AtDone'
  <2>1. FP!Counts' = c BY <1>1, <1>6 DEF FP!Counts
  <2>2. out' # <<>> /\ out'[Len(out')] = c BY <1>7, <1>12, <1>13
  <2> QED BY <1>16, <1>19, <1>21, <2>1, <2>2 DEF AtDone
<1>23. FailTyped' BY <1>1, <1>3, <1>12, <1>13 DEF FailTyped, FP!TypeOK
<1>24. KnowsXfails' BY <1>1 DEF FailInv, KnowsXfails, TestsOf
<1> QED BY <1>1, <1>2, <1>22, <1>23, <1>24 DEF FailInv, ReadsXfails, InHeader, InBody

LEMMA StepAgain == FailInv /\ FP!Again => FailInv'
<1> SUFFICES ASSUME FailInv, FP!Again PROVE FailInv' OBVIOUS
<1>1. failPhase = "done" /\ first' = out /\ sum' = out /\ xfailfile' = xfailfile
      /\ failPhase' = "xfails" /\ failLine' = 1 /\ xfails' = <<>> /\ out' = <<>> /\ count' = FP!NoCount
  BY DEF FP!Again
<1>2. FailTyped /\ AtDone BY DEF FailInv
<1>3. Reported(out) BY <1>1, <1>2 DEF AtDone
<1>4. Reported(first)'
  <2>1. PICK o : o = out OBVIOUS
  <2>2. CountsLine(first)' = CountsLine(o) BY <1>1, <2>1 DEF CountsLine, Tally
  <2>3. \A l : Fails(l)' <=> Fails(l) BY <1>1 DEF Fails, FP!Listed
  <2>4. FP!HeaderEnd(first)' = FP!HeaderEnd(o) /\ FP!BodyEnd(first)' = FP!BodyEnd(o)
    BY <1>1, <2>1
  <2> QED BY <1>1, <1>3, <2>1, <2>2, <2>3, <2>4 DEF Reported
<1>5. SecondRun' BY <1>1, <1>4 DEF SecondRun
<1>6. FailTyped'
  <2>1. FP!NoCount \in [FP!Counted -> Nat] BY DEF FP!NoCount
  <2> QED BY <1>1, <1>2, <2>1 DEF FailTyped, FP!TypeOK
<1>7. ReadsXfails'
  <2>1. TestsOf(failLine - 1)' = {} BY <1>1 DEF TestsOf
  <2> QED BY <1>1, <1>2, <2>1 DEF ReadsXfails, FailTyped
<1> QED BY <1>1, <1>5, <1>6, <1>7 DEF FailInv, KnowsXfails, InHeader, InBody, AtDone

LEMMA StepFailInv == FailInv /\ [FP!Next]_failVars => FailInv'
<1>1. FailInv /\ UNCHANGED failVars => FailInv'
  <2> SUFFICES ASSUME FailInv, UNCHANGED failVars PROVE FailInv' OBVIOUS
  <2>1. UNCHANGED <<sum, xfailfile, failPhase, failLine, xfails, out, count, first>> BY DEF failVars
  <2>2. \A t : FP!Listed(t)' <=> FP!Listed(t) BY <2>1 DEF FP!Listed
  <2>3. \A k : OutLine(k)' = OutLine(k) BY <2>1, <2>2 DEF OutLine, Fails
  <2>4. Tallied' <=> Tallied BY <2>1 DEF Tallied, Tally
  <2>5. FP!OnlyListedChange' <=> FP!OnlyListedChange BY <2>1, <2>2 DEF FP!OnlyListedChange
  <2>6. FP!Counts' = FP!Counts BY <2>1 DEF FP!Counts
  <2>7. SecondRun' BY <2>1, SecondRunStays DEF FailInv
  <2>8. AtDone'
    <3> SUFFICES ASSUME failPhase = "done" PROVE AtDone' BY <2>1 DEF AtDone
    <3>1. PICK o : o = out' OBVIOUS
    <3>2. Reported(o) BY <2>1, <3>1 DEF FailInv, AtDone
    <3>3. Reported(out)' BY <2>1, <3>1, <3>2, ReportedKept
    <3> QED BY <2>1, <2>4, <2>5, <2>6, <3>3 DEF FailInv, AtDone
  <2>9. InBody' BY <2>1, <2>3, <2>4 DEF FailInv, InBody
  <2>10. FailTyped' BY <2>1 DEF FailInv, FailTyped, FP!TypeOK
  <2>11. ReadsXfails' /\ KnowsXfails' BY <2>1 DEF FailInv, ReadsXfails, KnowsXfails, TestsOf
  <2>12. InHeader' BY <2>1 DEF FailInv, InHeader
  <2> QED BY <2>7, <2>8, <2>9, <2>10, <2>11, <2>12 DEF FailInv
<1> QED
  BY <1>1, StepReadXfail, StepXfailsRead, StepHeader, StepNoBody, StepCopy, StepCopyResult,
     StepChangeResult, StepSummary, StepEnd, StepAgain DEF FP!Next

(* What failproc has written says what its files say. *)
LEMMA FailInvSays == FailInv => ReportFollowsLogs
<1> SUFFICES ASSUME FailInv PROVE ReportFollowsLogs OBVIOUS
<1>1. FailTyped /\ out \in Seq(SumLine) /\ sum \in Seq(SumLine) BY DEF FailInv, FailTyped
<1>2. FP!CountsAreOfOutput
  BY SameCardinality DEF FP!CountsAreOfOutput, FailInv, InBody, AtDone, Tallied, Tally
<1>3. FP!OnlyListedChange
  <2>1. CASE failPhase = "done" BY <2>1 DEF FailInv, AtDone
  <2> QED BY <2>1 DEF FP!OnlyListedChange
<1>4. ASSUME failPhase = "done", first # <<>>,
             \E k \in FP!HeaderEnd(first) + 1 .. Len(first) : first[k].kind = "summary"
      PROVE  out = first
  <2>1. PICK s : s = sum OBVIOUS
  <2>2. s = first /\ s \in Seq(SumLine) BY <1>1, <1>4, <2>1 DEF FailInv, SecondRun
  <2>3. PICK h : h = FP!HeaderEnd(s) OBVIOUS
  <2>4. PICK b : b = FP!BodyEnd(s) OBVIOUS
  <2>5. h \in 0 .. Len(s) /\ h \in Int /\ IsHead(s, h) /\ Len(s) \in Nat
    BY <2>2, <2>3, HeaderEndIs
  <2>6. b \in Int /\ b \in h .. Len(s) /\ IsBody(s, h, b) BY <2>2, <2>3, <2>4, <2>5, BodyEndIs
  <2>7. b = Len(s) - 1 /\ s[b + 1] = CountsLine(s) /\ \A k \in h + 1 .. Len(s) : ~Fails(s[k])
    BY <1>4, <2>2, <2>3, <2>4, <2>5 DEF FailInv, SecondRun, Reported
  <2>8. Len(out) = b + 1 /\ \A k \in 1 .. b : out[k] = OutLine(k)
    BY <1>3, <1>4, <2>1, <2>4 DEF FP!OnlyListedChange, OutLine, Fails
  <2>9. ASSUME NEW k \in 1 .. b PROVE out[k] = s[k]
    <3>1. k > h => ~Fails(s[k]) BY <2>5, <2>6, <2>7
    <3> QED BY <3>1, <2>1, <2>3, <2>8 DEF OutLine
  <2>10. h < b /\ s[b].kind = "summary" BY <1>4, <2>2, <2>3, <2>5, <2>6, <2>7 DEF IsBody
  <2>11. IsHead(out, h)
    <3>1. h \in 1 .. b /\ s[h].kind = "running" BY <2>5, <2>6, <2>7, <2>10 DEF IsHead
    <3>2. \A k \in 1 .. b : k < h => s[k].kind # "running" BY <2>5, <2>6 DEF IsHead
    <3> QED BY <2>6, <2>8, <2>9, <3>1, <3>2 DEF IsHead
  <2>12. out[b + 1] = FP!Counts /\ out[b + 1].kind = "text" /\ s[b + 1].kind = "text"
    <3>1. out[b + 1] = FP!Counts BY <1>4, <2>8 DEF FailInv, AtDone
    <3>2. FP!Counts.kind = "text" BY DEF FP!Counts
    <3>3. CountsLine(s).kind = "text" BY DEF CountsLine
    <3> QED BY <3>1, <3>2, <3>3, <2>7
  <2>13. ASSUME NEW r \in FP!Counted PROVE count[r] = Tally(s, r)
    <3>1. ResultsSaying(out, h, r) = ResultsSaying(s, h, r)
      BY <2>5, <2>6, <2>7, <2>8, <2>9, <2>12, Classified DEF ResultsSaying
    <3>2. Tally(out, r) = Tally(s, r) BY <1>1, <2>2, <2>5, <2>11, <3>1, TallyIs
    <3> QED BY <1>4, <3>2 DEF FailInv, AtDone, Tallied
  <2>14. FP!Counts = CountsLine(s) BY <2>13 DEF FP!Counts, CountsLine, FP!Counted
  <2>15. \A k \in 1 .. b + 1 : out[k] = s[k] BY <2>6, <2>7, <2>9, <2>12, <2>14
  <2>16. Len(out) = Len(s) BY <2>5, <2>7, <2>8
  <2> QED BY <1>1, <2>2, <2>5, <2>7, <2>15, <2>16
<1> QED BY <1>2, <1>3, <1>4 DEF ReportFollowsLogs, FP!ReportFollowsLogs, FP!SecondRunSame

-----------------------------------------------------------------------------
(* Both programs, as the run checks them. *)
LogInv == FailInv /\ RInv /\ Known
LEMMA InitLogInv == LogInit => LogInv
BY InitFailInv, InitKnown DEF LogInit, ImportInit, FailInit, LogInv
LEMMA StepLogInv == LogInv /\ [LogNext]_logVars => LogInv'
<1>1. [LogNext]_logVars => [FP!Next]_failVars BY DEF LogNext, logVars, Imports
<1>2. [LogNext]_logVars => [Next]_vars BY DEF LogNext, logVars, Imports
<1> QED BY <1>1, <1>2, StepFailInv, StepRInv, StepKnown DEF LogInv

(* Tables, importers and the reporter's variables keep their types: no     *)
(* table gets a key twice, whoever inserts (db.sql's UNIQUE), no importer  *)
(* has an id of a row that is not there.                                   *)
THEOREM LogsKeepTypes == LogSpec => []LogTypeOK
<1>1. LogInv => LogTypeOK BY KnownIsTyped DEF LogInv, FailInv, FailTyped, LogTypeOK
<1> QED BY <1>1, InitLogInv, StepLogInv, PTL DEF LogSpec

(* What failproc writes follows from its files, of any length: the counts  *)
(* are those of the lines it has written, just the failures of tests that  *)
(* the xfail file has are changed, and a second pass over a log with a     *)
(* summary changes nothing (failproc.ml's process_file).                   *)
THEOREM ReportsFollowLogs == LogSpec => []ReportFollowsLogs
<1>1. LogInv => ReportFollowsLogs BY FailInvSays DEF LogInv
<1> QED BY <1>1, InitLogInv, StepLogInv, PTL DEF LogSpec
=============================================================================
