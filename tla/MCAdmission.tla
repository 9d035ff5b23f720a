---------------------------- MODULE MCAdmission ----------------------------
(***************************************************************************)
(* Small instances of admission: a credential valid from the start, one    *)
(* that is not yet valid and is delegated; presentations that lapse for    *)
(* each reason, and some that no rule but one refuses.                     *)
(***************************************************************************)
EXTENDS Admission

CONSTANTS k1, k2, f1, x1

MCValidFrom == [k \in Credentials |-> IF k = k1 THEN 0 ELSE 2]
MCValidUntil == [k \in Credentials |-> 5]

Read  == [resource |-> "bank:accounts", action |-> "read"]
Write == [resource |-> "bank:accounts", action |-> "write"]
Other == [resource |-> "bank:cards", action |-> "read"]

MCLevel == [k \in Credentials |-> IF k = k1 THEN 2 ELSE 1]
MCScopes == [k \in Credentials |-> {Read, Write}]
MCHitlRequired == [k \in Credentials |-> {Write}]

Rule(effect, scope, action) == [effect |-> effect, resource |-> scope.resource, action |-> action]

Presents(k, retrieval, expiresAt, scope, minLevel, approval, policy) ==
    [credential |-> k, retrieval |-> retrieval, expiresAt |-> expiresAt, audience |-> TRUE, scope |-> scope,
     minLevel |-> minLevel, approval |-> approval, policy |-> policy]

Approval(matches, expiresAt) == [matches |-> matches, expiresAt |-> expiresAt]

\* Time is what refuses these.
Timed ==
    {Presents(k1, FALSE, 3, Read, 1, None, None),
     Presents(k1, FALSE, 4, Write, 1, Approval(TRUE, 3), None),
     Presents(k1, TRUE, 5, Read, 1, None, None)}

\* Each of these but the first three fails one rule, or several.
Ruled ==
    {Presents(k1, FALSE, 5, Read, 1, None, {Rule("allow", Read, "*")}),
     Presents(k1, FALSE, 5, Write, 2, Approval(TRUE, 4), {Rule("allow", Write, "write"), Rule("deny", Read, "read")}),
     Presents(k2, FALSE, 5, Read, 1, None, None),
     Presents(k1, FALSE, 5, Read, 1, None, {Rule("allow", Read, "*"), Rule("deny", Read, "read")}),
     Presents(k1, FALSE, 5, Read, 1, None, {Rule("allow", Other, "*")}),
     Presents(k1, FALSE, 5, Other, 1, None, None),
     Presents(k2, FALSE, 5, Read, 2, None, None),
     Presents(k1, FALSE, 5, Write, 1, None, None),
     Presents(k1, FALSE, 5, Write, 1, Approval(FALSE, 5), None),
     [Presents(k1, FALSE, 5, Read, 1, None, None) EXCEPT !.audience = FALSE]}

MCInputs == Timed \cup Ruled

MCDelegated == [k \in Credentials |-> k # k1]

=============================================================================
