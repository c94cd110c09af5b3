----------------------------- MODULE FailProc -----------------------------
(***************************************************************************)
(* failproc: copies a .sum file and turns the failures that a second file  *)
(* lists into expected ones, with new counts at the end.  A step is one    *)
(* line.  A second run of the program reads what the first has written.    *)
(***************************************************************************)
EXTENDS Integers, Sequences, FiniteSets, LogLines

CONSTANTS
    SumFiles, XfailFiles    \* sets of sequences of lines

FilesAssumption ==
    SumFiles \cup XfailFiles \subseteq Seq([kind : STRING, word : STRING, test : STRING, counts : Seq(Int)])

VARIABLES
    sum, xfailfile,     \* the input files
    phase,              \* "xfails", "header", "body", "done", or "failed" (an exception)
    line,               \* the next line of the file that is read
    xfails,             \* the hash table: the result a test has in the xfail file
    out,                \* what is written
    count,              \* the counters, by result
    first               \* what the first run has written, <<>> in the first run
vars == <<sum, xfailfile, phase, line, xfails, out, count, first>>
files == <<sum, xfailfile, first>>

Counted == {"PASS", "FAIL", "XPASS", "XFAIL", "UNRESOLVED", "UNSUPPORTED"}
NoCount == [r \in Counted |-> 0]
Start ==
    phase = "xfails" /\ line = 1 /\ xfails = <<>> /\ out = <<>> /\ count = NoCount
Init == sum \in SumFiles /\ xfailfile \in XfailFiles /\ first = <<>> /\ Start

-----------------------------------------------------------------------------
(* read_xfail_file: the first line of a test counts. *)
Xfail == xfailfile[line]
Recorded == [t \in DOMAIN xfails \cup {Xfail.test} |->
                IF t \in DOMAIN xfails THEN xfails[t] ELSE result(Xfail)]
ReadXfail ==
    /\ phase = "xfails" /\ line <= Len(xfailfile)
    /\ CASE classify(Xfail) = "Test_error" -> phase' = "failed" /\ UNCHANGED <<xfails, line>>
         [] classify(Xfail) = "Result" -> xfails' = Recorded /\ line' = line + 1 /\ phase' = phase
         [] OTHER -> line' = line + 1 /\ UNCHANGED <<xfails, phase>>
    /\ UNCHANGED <<files, out, count>>
XfailsRead ==
    /\ phase = "xfails" /\ line > Len(xfailfile)
    /\ phase' = "header" /\ line' = 1
    /\ UNCHANGED <<files, xfails, out, count>>

(* skip_header copies up to the first line that begins with Running. *)
Header ==
    /\ phase = "header" /\ line <= Len(sum)
    /\ out' = Append(out, sum[line]) /\ line' = line + 1
    /\ phase' = IF sum[line].kind = "running" THEN "body" ELSE "header"
    /\ UNCHANGED <<files, xfails, count>>
NoBody ==
    /\ phase = "header" /\ line > Len(sum) /\ phase' = "body"
    /\ UNCHANGED <<files, line, xfails, out, count>>

Reading(type) == phase = "body" /\ line <= Len(sum) /\ classify(sum[line]) = type
Written(l) == out' = Append(out, l) /\ line' = line + 1 /\ phase' = phase
Copy ==
    /\ \E type \in {"Unknown", "Begin_exp", "Test_error"} : Reading(type)
    /\ Written(sum[line])
    /\ UNCHANGED <<files, xfails, count>>

CountedAs(r) == IF r \in Counted THEN [count EXCEPT ![r] = @ + 1] ELSE count
ExpectedToFail(test) == test \in DOMAIN xfails
CopyResult ==
    /\ Reading("Result")
    /\ ~(sum[line].word = "FAIL" /\ ExpectedToFail(sum[line].test))
    /\ Written(sum[line]) /\ count' = CountedAs(sum[line].word)
    /\ UNCHANGED <<files, xfails>>
(* Mutant: the line itself is written behind the changed line. *)
ChangedToo == out \o <<[sum[line] EXCEPT !.word = "XFAIL"], sum[line]>>
Changed == Append(out, [sum[line] EXCEPT !.word = "XFAIL"])
ChangeResult ==
    /\ Reading("Result")
    /\ sum[line].word = "FAIL" /\ ExpectedToFail(sum[line].test)
    /\ IF xfails[sum[line].test] = "FAIL"
       THEN out' = Changed /\ line' = line + 1 /\ count' = CountedAs("XFAIL") /\ phase' = phase
       ELSE phase' = "failed" /\ UNCHANGED <<line, out, count>>
    /\ UNCHANGED <<files, xfails>>

(* print_summary, behind the first line of a summary or the last line. *)
Counts == [kind |-> "text", word |-> "counts", test |-> "",
           counts |-> <<count["PASS"], count["FAIL"], count["XPASS"], count["XFAIL"],
                        count["UNRESOLVED"], count["UNSUPPORTED"]>>]
Summary ==
    /\ Reading("Summary")
    /\ out' = out \o <<sum[line], Counts>> /\ phase' = "done"
    /\ UNCHANGED <<files, line, xfails, count>>
End ==
    /\ phase = "body" /\ line > Len(sum)
    /\ out' = Append(out, Counts) /\ phase' = "done"
    /\ UNCHANGED <<files, line, xfails, count>>

(* Somebody runs failproc once more, on what it has written. *)
Again ==
    /\ phase = "done" /\ first = <<>>
    /\ first' = out /\ sum' = out
    /\ phase' = "xfails" /\ line' = 1 /\ xfails' = <<>> /\ out' = <<>> /\ count' = NoCount
    /\ UNCHANGED xfailfile

Next ==
    \/ ReadXfail \/ XfailsRead \/ Header \/ NoBody \/ Copy \/ CopyResult \/ ChangeResult
    \/ Summary \/ End \/ Again
Spec == Init /\ [][Next]_vars

-----------------------------------------------------------------------------
HeaderEnd(s) ==
    LET starts == {n \in DOMAIN s : s[n].kind = "running"}
    IN  IF starts = {} THEN Len(s) ELSE CHOOSE n \in starts : \A k \in starts : n <= k
BodyEnd(s) ==
    LET ends == {n \in HeaderEnd(s) + 1 .. Len(s) : s[n].kind = "summary"}
    IN  IF ends = {} THEN Len(s) ELSE CHOOSE n \in ends : \A k \in ends : n <= k

TypeOK ==
    /\ phase \in {"xfails", "header", "body", "done", "failed"}
    /\ line \in Nat \ {0} /\ count \in [Counted -> Nat]
    /\ \A t \in DOMAIN xfails : xfails[t] \in Results

(* The numbers of the new summary are those of the result lines that the   *)
(* output has between its header and its summary.                          *)
CountsAreOfOutput ==
    phase \in {"body", "done"} =>
        \A r \in Counted :
            count[r] = Cardinality({k \in DOMAIN out :
                k > HeaderEnd(out) /\ classify(out[k]) = "Result" /\ out[k].word = r})

(* The output is the input up to its summary, line by line, in order; just *)
(* the failures of tests that the xfail file has, wherever, are changed.   *)
Listed(t) == \E k \in DOMAIN xfailfile : classify(xfailfile[k]) = "Result" /\ xfailfile[k].test = t
OnlyListedChange ==
    phase = "done" =>
        /\ Len(out) = BodyEnd(sum) + 1
        /\ \A k \in 1 .. BodyEnd(sum) :
             out[k] = IF k > HeaderEnd(sum) /\ sum[k].kind = "colon" /\ sum[k].word = "FAIL" /\ Listed(sum[k].test)
                      THEN [sum[k] EXCEPT !.word = "XFAIL"] ELSE sum[k]

(* Processing a log that has a summary a second time changes nothing.      *)
SecondRunSame ==
    phase = "done" /\ first # <<>> /\ (\E k \in HeaderEnd(first) + 1 .. Len(first) : first[k].kind = "summary") =>
        out = first

(* The output is a log that says what the two files say. *)
ReportFollowsLogs == CountsAreOfOutput /\ OnlyListedChange /\ SecondRunSame
=============================================================================
