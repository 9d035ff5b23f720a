------------------------------ MODULE Verdicts ------------------------------
(***************************************************************************)
(* Tests in a fixed order, of which the first that fails decides: the form *)
(* of every check of a document, a request or a receipt in this code.      *)
(***************************************************************************)
EXTENDS Naturals, Sequences

FirstFailure(tests) ==
    LET failing == {n \in DOMAIN tests : tests[n].fails}
    IN  IF failing = {} THEN "ok" ELSE tests[CHOOSE n \in failing : \A m \in failing : n <= m].reason

\* What one stage came to, or else what the next one does.
Then(verdict, next) == IF verdict = "ok" THEN next ELSE verdict

=============================================================================
