----------------------------- MODULE LogLines -----------------------------
(***************************************************************************)
(* The lines of a DejaGnu .sum file as failproc and resultdb see them.     *)
(* kind says what its text looks like: "running" (Running <exp file>, in   *)
(* test), "summary" (=== tool Summary ===), "colon" (word: test) or "text" *)
(* (no colon, and neither of the others).                                  *)
(***************************************************************************)
Results == {"PASS", "FAIL", "XPASS", "XFAIL", "ERROR", "UNSUPPORTED", "UNRESOLVED",
            "WARNING", "UNTESTED", "KFAIL"}

(* resultdb has no Summary: such a line is without a colon. *)
classify(line) ==
    CASE line.kind = "running" -> "Begin_exp"
      [] line.kind = "summary" -> "Summary"
      [] line.kind = "text" -> "Unknown"
      [] line.kind = "colon" /\ line.word \in Results -> "Result"
      [] OTHER -> "Test_error"                      \* Bad_line, caught at once

(* The result a line stands for; a Bad_line is told by how it begins.      *)
result(line) ==
    CASE line.word \in Results -> line.word
      [] line.word = "gdb compile failed" -> "GDB_compile_failed"
      [] OTHER -> "Misc_error"
=============================================================================
