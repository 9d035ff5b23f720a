------------------------- MODULE MCOperationTracker -------------------------
(***************************************************************************)
(* Small instances of the client's tracker.  The attempts a1 and a2 are of *)
(* the operation tracked, signed for two credentials of its receiver; b1   *)
(* is of another operation.                                                *)
(***************************************************************************)
EXTENDS OperationTracker, TLC

CONSTANTS a1, a2, b1, op1, op2, k1, k2, o1, o2

MCOperationOf == [a \in Attempts |-> IF a = b1 THEN op2 ELSE op1]

MCReceiverOf == [a \in Attempts |-> IF a = a2 THEN k2 ELSE k1]

Signs(i, op, a, k, applies, state) ==
    [id |-> i, operation |-> op, digest |-> a, receiver |-> k, applies |-> applies, state |-> state]

\* Of this operation: a continuation, a second end under the id of its first receipt,
\* and a refusal of the second attempt under the id of a third end.  And what is not
\* bound to it: receipts with another receiver or operation than the attempt they
\* name, or of another operation's attempt.
Receipts ==
    {Signs(1, op1, a1, k1, "operation", "accepted"),
     Signs(2, op1, a1, k1, "operation", "completed"),
     Signs(1, op1, a2, k2, "operation", "completed"),
     Signs(3, op1, a2, k2, "operation", "rejected"),
     Signs(3, op1, a2, k2, "attempt", "rejected"),
     Signs(4, op1, a2, k1, "operation", "completed"),
     Signs(5, op2, a1, k1, "operation", "completed"),
     Signs(6, op2, b1, k1, "operation", "rejected")}

\* A lookup's answer: any receipt alone, and after a receipt that is not bound the
\* claim's continuation and end.
MCHistories ==
    {<<r>> : r \in Signed}
        \cup {<<s, t>> : s \in {r \in Signed : r.operation = op2 /\ r.digest = a1},
                        t \in {r \in Signed : r.operation = op1 /\ r.digest = a1}}

\* One end under the id of a refusal.
SharedId ==
    {Signs(1, op1, a1, k1, "operation", "completed"), Signs(1, op1, a1, k1, "attempt", "rejected")}

=============================================================================
