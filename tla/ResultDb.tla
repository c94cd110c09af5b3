----------------------------- MODULE ResultDb -----------------------------
(***************************************************************************)
(* resultdb: processes that import .sum files into one database.  Every    *)
(* query is a transaction of its own, so that a get-or-create is two: the  *)
(* select, and the insert where it found no row.  A row of a table is its  *)
(* key, its serial id the row's position.                                  *)
(***************************************************************************)
EXTENDS Integers, Sequences, FiniteSets, Functions, LogLines

CONSTANTS
    Importers,
    SumFiles,       \* the file each importer reads, a sequence of lines
    InitialTables,  \* what the tables may hold at first
    MaxReruns       \* bound: an importer that failed or was killed starts again

ASSUME SumFilesAssumption == \A i \in Importers : SumFiles[i] \in Seq([kind : STRING, word : STRING, test : STRING])
ASSUME ImportersAssumption == Importers # {}
ASSUME MaxRerunsAssumption == MaxReruns \in Nat

Tables == {"targets", "configs", "multilibs", "components", "expfiles", "tests"}
(* A row is a name, of tests the ids of component and exp file and a name. *)
RowOf(t) == IF t = "tests" THEN Nat \X Nat \X STRING ELSE STRING
ASSUME TablesAssumption ==
    \A T \in InitialTables :
        /\ T = [t \in Tables |-> T[t]]
        /\ \A t \in Tables :
             /\ T[t] \in Seq(RowOf(t))
             /\ \A r, q \in DOMAIN T[t] : T[t][r] = T[t][q] => r = q

VARIABLES
    table,      \* the keys of each table's rows
    testrun,    \* for each run its importer (a history) and its multilib's id
    results,    \* the rows of results, in the order of their insertion
    status,     \* "running", "done", "failed" (an exception) or "killed"
    step,       \* where an importer is: a step of Setup, or behind it in the file
    phase,      \* "select" or "insert" within a get-or-create, "add" behind one
    id,         \* the ids it has: of a table's row, of its run
    line,       \* the next line of its file, from 1
    reruns
db == <<table, testrun, results>>
vars == <<table, testrun, results, status, step, phase, id, line, reruns>>

(* main up to read_sum_file's loop; OCaml evaluates arguments from the     *)
(* right.  create_bundle and create_testrun insert without a select.       *)
Setup == <<"configs", "targets", "create_bundle", "multilibs", "create_testrun", "components",
           "expfiles", "skip_header">>
Fixed == [configs |-> "build.sh", targets |-> "6502", multilibs |-> ".;", components |-> "gcc",
          expfiles |-> "(unknown exp file)"]

Lines(i) == SumFiles[i]
InFile(i) == step[i] > Len(Setup)
AtEnd(i) == line[i] > Len(Lines(i))
Class(i) == classify(Lines(i)[line[i]])
IsResult(l) == classify(l) \in {"Result", "Test_error"}

(* The get-or-create an importer is at: its table and key. *)
Asks(i) ==
    IF ~InFile(i) THEN Setup[step[i]]
    ELSE IF AtEnd(i) THEN "nothing"
    ELSE IF Class(i) = "Begin_exp" THEN "expfiles"
    ELSE IF IsResult(Lines(i)[line[i]]) THEN "tests" ELSE "nothing"
Key(i) ==
    IF ~InFile(i) THEN Fixed[Asks(i)]
    ELSE IF Asks(i) = "expfiles" THEN Lines(i)[line[i]].test
    ELSE <<id[i].components, id[i].expfiles, Lines(i)[line[i]].test>>
Rows(t, key) == {r \in DOMAIN table[t] : table[t][r] = key}
(* Mutant: a row is inserted whatever the select found. *)
MissingAlways(i) == TRUE
Missing(i) == Rows(Asks(i), Key(i)) = {}
(* Mutant: only results are counted. *)
BehindResult(i) == IF IsResult(Lines(i)[line[i]]) THEN line[i] + 1 ELSE line[i]
Behind(i) == line[i] + 1

-----------------------------------------------------------------------------
Fresh == [x \in Tables \cup {"run"} |-> 0]
Init ==
    /\ table \in InitialTables /\ testrun = <<>> /\ results = <<>>
    /\ status = [i \in Importers |-> "running"]
    /\ step = [i \in Importers |-> 1] /\ phase = [i \in Importers |-> "select"]
    /\ id = [i \in Importers |-> Fresh] /\ line = [i \in Importers |-> 1]
    /\ reruns = 0

Running(i, ph) == status[i] = "running" /\ phase[i] = ph

(* The id is known: on to the next step, for a test to add_result. *)
Proceed(i, row) ==
    /\ id' = [id EXCEPT ![i][Asks(i)] = row]
    /\ phase' = [phase EXCEPT ![i] = IF Asks(i) = "tests" THEN "add" ELSE "select"]
    /\ step' = IF InFile(i) THEN step ELSE [step EXCEPT ![i] = @ + 1]
    /\ line' = IF InFile(i) /\ Asks(i) = "expfiles" THEN [line EXCEPT ![i] = @ + 1] ELSE line

Fail(i) ==
    status' = [status EXCEPT ![i] = "failed"] /\ UNCHANGED <<db, step, phase, id, line, reruns>>

(* one_result: Too_many, for two rows, cannot come where keys are unique.   *)
Found(i) ==
    /\ Running(i, "select") /\ Asks(i) \in Tables
    /\ \E row \in Rows(Asks(i), Key(i)) : Rows(Asks(i), Key(i)) = {row} /\ Proceed(i, row)
    /\ UNCHANGED <<db, status, reruns>>
NotFound(i) ==
    /\ Running(i, "select") /\ Asks(i) \in Tables /\ Missing(i)
    /\ phase' = [phase EXCEPT ![i] = "insert"]
    /\ UNCHANGED <<db, status, step, id, line, reruns>>

(* Mutant: the tables have no UNIQUE. *)
UniqueNever(t, key) == TRUE
Unique(t, key) == Rows(t, key) = {}
Insert(i) ==
    /\ Running(i, "insert") /\ Unique(Asks(i), Key(i))
    /\ table' = [table EXCEPT ![Asks(i)] = Append(@, Key(i))]
    /\ Proceed(i, Len(table[Asks(i)]) + 1)
    /\ UNCHANGED <<testrun, results, status, reruns>>
InsertRefused(i) ==
    Running(i, "insert") /\ ~Unique(Asks(i), Key(i)) /\ Fail(i)

CreateBundle(i) ==
    /\ Running(i, "select") /\ Asks(i) = "create_bundle"
    /\ step' = [step EXCEPT ![i] = @ + 1]
    /\ UNCHANGED <<db, status, phase, id, line, reruns>>
CreateTestrun(i) ==
    /\ Running(i, "select") /\ Asks(i) = "create_testrun"
    /\ testrun' = Append(testrun, [importer |-> i, mlib |-> id[i].multilibs])
    /\ id' = [id EXCEPT ![i].run = Len(testrun) + 1]
    /\ step' = [step EXCEPT ![i] = @ + 1]
    /\ UNCHANGED <<table, results, status, phase, line, reruns>>

(* The file from behind the first line that begins with Running. *)
Header == [i \in Importers |->
    LET starts == {n \in DOMAIN Lines(i) : Lines(i)[n].kind = "running"}
    IN  IF starts = {} THEN Len(Lines(i)) ELSE CHOOSE n \in starts : \A k \in starts : n <= k]
SkipHeader(i) ==
    /\ Running(i, "select") /\ Asks(i) = "skip_header"
    /\ line' = [line EXCEPT ![i] = Header[i] + 1]
    /\ step' = [step EXCEPT ![i] = @ + 1]
    /\ UNCHANGED <<db, status, phase, id, reruns>>

SkipLine(i) ==
    /\ Running(i, "select") /\ InFile(i) /\ ~AtEnd(i) /\ Asks(i) = "nothing"
    /\ line' = [line EXCEPT ![i] = Behind(i)]
    /\ UNCHANGED <<db, status, step, phase, id, reruns>>

(* Mutant: the result is added to the run that was created last. *)
RunIdLast(i) == Len(testrun)
RunId(i) == id[i].run
AddResult(i) ==
    /\ Running(i, "add")
    /\ results' = Append(results, [run |-> RunId(i), test |-> id[i].tests,
                                   test_collate |-> line[i] - Header[i] - 1,
                                   result |-> result(Lines(i)[line[i]])])
    /\ line' = [line EXCEPT ![i] = Behind(i)] /\ phase' = [phase EXCEPT ![i] = "select"]
    /\ UNCHANGED <<table, testrun, status, step, id, reruns>>

End(i) ==
    /\ Running(i, "select") /\ InFile(i) /\ AtEnd(i)
    /\ status' = [status EXCEPT ![i] = "done"]
    /\ UNCHANGED <<db, step, phase, id, line, reruns>>

Kill(i) ==
    /\ status[i] = "running" /\ reruns < MaxReruns
    /\ status' = [status EXCEPT ![i] = "killed"]
    /\ UNCHANGED <<db, step, phase, id, line, reruns>>
Rerun(i) ==
    /\ status[i] \in {"failed", "killed"} /\ reruns < MaxReruns
    /\ reruns' = reruns + 1 /\ status' = [status EXCEPT ![i] = "running"]
    /\ step' = [step EXCEPT ![i] = 1] /\ phase' = [phase EXCEPT ![i] = "select"]
    /\ id' = [id EXCEPT ![i] = Fresh] /\ line' = [line EXCEPT ![i] = 1]
    /\ UNCHANGED db

Query(i) ==
    \/ Found(i) \/ NotFound(i) \/ Insert(i) \/ InsertRefused(i)
    \/ CreateBundle(i) \/ CreateTestrun(i) \/ SkipHeader(i) \/ SkipLine(i) \/ AddResult(i) \/ End(i)
Next == \E i \in Importers : Query(i) \/ Kill(i) \/ Rerun(i)
(* A process that is not killed goes on. *)
Spec == Init /\ [][Next]_vars /\ \A i \in Importers : WF_vars(Query(i))

-----------------------------------------------------------------------------
TypeOK ==
    /\ \A t \in Tables : \A r, q \in DOMAIN table[t] : table[t][r] = table[t][q] => r = q
    /\ status \in [Importers -> {"running", "done", "failed", "killed"}]
    /\ phase \in [Importers -> {"select", "insert", "add"}]
    /\ \A i \in Importers : step[i] \in 1 .. Len(Setup) + 1 /\ line[i] \in 1 .. Len(Lines(i)) + 1
    /\ \A i \in Importers, t \in Tables : id[i][t] \in 0 .. Len(table[t])

(* What a line of a file says, by name: the exp file that was begun last   *)
(* behind the header, the test and the result.                             *)
ExpAt(i, n) ==
    LET begun == {k \in Header[i] + 1 .. n : Lines(i)[k].kind = "running"}
    IN  IF begun = {} THEN Fixed.expfiles
        ELSE Lines(i)[CHOOSE k \in begun : \A m \in begun : m <= k].test
Says(i, n) == [exp |-> ExpAt(i, n), test |-> Lines(i)[n].test, result |-> result(Lines(i)[n])]
ResultLines(i) == {k \in Header[i] + 1 .. Len(Lines(i)) : IsResult(Lines(i)[k])}

(* The same of a row of results, and the rows of a run. *)
Row(k) == [exp |-> table.expfiles[table.tests[results[k].test][2]],
           test |-> table.tests[results[k].test][3], result |-> results[k].result]
Of(run) == {k \in DOMAIN results : results[k].run = run}

(* The run's rows say what these lines say, one row for each of them, and  *)
(* test_collate puts the rows into the order of the lines, whichever       *)
(* number it starts from.                                                  *)
Records(run, i, ls) ==
    \E f \in Bijection(Of(run), ls) :
        /\ \A k \in Of(run) : Row(k) = Says(i, f[k])
        /\ \A j, k \in Of(run) : results[j].test_collate < results[k].test_collate <=> f[j] < f[k]

(* A run holds the results of its importer's file from the first on, each  *)
(* with its own exp file and test and in the file's order, whoever else    *)
(* imports, and however the import ended.                                  *)
RunsHoldTheirFile ==
    \A run \in DOMAIN testrun :
        LET i == testrun[run].importer
        IN  \E n \in 1 .. Len(Lines(i)) + 1 : Records(run, i, {l \in ResultLines(i) : l < n})

(* An import that ended without an exception has stored its whole file,    *)
(* once, under the run of its own that it created.                         *)
DoneIsComplete ==
    \A i \in Importers : status[i] = "done" =>
        testrun[id[i].run].importer = i /\ Records(id[i].run, i, ResultLines(i))

(* Importers do not disturb each other's runs, killed or not. *)
RunsAreTheirFiles == RunsHoldTheirFile /\ DoneIsComplete

(* Imports cannot all fail: for one that meets the row of another there    *)
(* is always one that goes on (unless somebody kills it).                  *)
SomeoneImports == \E i \in Importers : status[i] # "failed"

(* Each import comes to its end. *)
ImportsEnd == \A i \in Importers : []<>(status[i] # "running")
=============================================================================
