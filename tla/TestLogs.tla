------------------------------ MODULE TestLogs ------------------------------
(***************************************************************************)
(* The two readers of test logs: importers of resultdb on their database,  *)
(* and failproc on its files.  They share LogLines and no state.           *)
(***************************************************************************)
EXTENDS ResultDb

CONSTANTS FailSumFiles, FailXfailFiles

VARIABLES program, sum, xfailfile, failPhase, failLine, xfails, out, count, first
FP == INSTANCE FailProc WITH
    SumFiles <- FailSumFiles, XfailFiles <- FailXfailFiles, phase <- failPhase, line <- failLine
ASSUME FailFilesAssumption == FP!FilesAssumption

-----------------------------------------------------------------------------
(* One of the programs runs.  Importers that do not are as if killed.      *)
failVars == <<sum, xfailfile, failPhase, failLine, xfails, out, count, first>>
logVars == <<vars, failVars, program>>
ImportInit == Init /\ sum = <<>> /\ xfailfile = <<>> /\ first = <<>> /\ FP!Start
Bare == [t \in Tables |-> <<>>]
FailInit ==
    /\ FP!Init
    /\ table = Bare /\ testrun = <<>> /\ results = <<>> /\ status = [i \in Importers |-> "killed"]
    /\ step = [i \in Importers |-> 1] /\ phase = [i \in Importers |-> "select"]
    /\ id = [i \in Importers |-> Fresh] /\ line = [i \in Importers |-> 1] /\ reruns = 0
LogInit ==
    \/ program = "resultdb" /\ ImportInit
    \/ program = "failproc" /\ FailInit
Imports(A) == program = "resultdb" /\ A /\ UNCHANGED <<failVars, program>>
LogNext ==
    \/ Imports(Next)
    \/ program = "failproc" /\ FP!Next /\ UNCHANGED <<vars, program>>
LogSpec == LogInit /\ [][LogNext]_logVars /\ \A i \in Importers : WF_logVars(Imports(Query(i)))

-----------------------------------------------------------------------------
(* Tables, importers and the reporter's variables have their types. *)
LogTypeOK == TypeOK /\ FP!TypeOK
(* What failproc writes is a log that says what its two files say. *)
ReportFollowsLogs == FP!ReportFollowsLogs
=============================================================================
