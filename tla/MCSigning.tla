----------------------------- MODULE MCSigning -----------------------------
(***************************************************************************)
(* Small instances of signing: two attempts of one operation, or one and a *)
(* lookup or a deletion, by two agents; one receiver that is pinned and    *)
(* one that is not; a network that changes each part of a request.         *)
(***************************************************************************)
EXTENDS Signing

CONSTANTS x1, x2, c1, c2, r1, r2

Holder(digest, key) == [digest |-> digest, did |-> key, keyid |-> key, key |-> key, acceptable |-> TRUE]

MCHolders == [u \in {"agent", "other"} |-> IF u = "agent" THEN Holder("d1", "k1") ELSE Holder("d2", "k2")]

MCDrifts == {-2, 2}
MCAsked == {<<x1, "agent">>, <<x1, "other">>, <<x2, "agent">>}
MCAgentOf == [a \in Clients |-> "agent"]
MCPinOf == [a \in Clients |-> [origin |-> "o1", did |-> IF a = x1 THEN r1 ELSE r2]]
MCIssuerOf == [c \in Tokens |-> IF c = c1 THEN r1 ELSE r2]
MCOrigin == [r \in {r1, r2} |-> IF r = r1 THEN "o1" ELSE "o2"]

Describes(class, method, path, mediaType, query, semantic, minLevel) ==
    [class |-> class, method |-> method, path |-> path, mediaType |-> mediaType, query |-> query,
     semanticHeaders |-> semantic, scope |-> minLevel, minLevel |-> minLevel]

MCOperations ==
    {Describes("unsafe-body", "POST", <<"", "transfers">>, "json", {"dry"}, {"if-match"}, "L1"),
     Describes("unsafe-empty", "DELETE", <<"", "transfers", Hole>>, None, {}, {"if-match"}, "L2"),
     Describes("safe-receiptable", "GET", <<"", "transfers", Hole>>, None, {}, {}, "L1"),
     Describes("retrieval", "GET", <<"", "operations">>, None, {"operation"}, {}, None)}

Json == [text |-> "Application/JSON", normal |-> "json"]

Asks(class, method, path, query, fields, body, operationId, semantic) ==
    [class |-> class, method |-> method, path |-> path, query |-> query, canonical |-> TRUE, fields |-> fields,
     body |-> body, operationId |-> operationId, semantic |-> semantic, window |-> 1]

Typed == [n \in {"content-type"} |-> <<Json>>]

Conditional(fields, values) == [n \in DOMAIN fields \cup {"if-match"} |-> IF n = "if-match" THEN values ELSE fields[n]]

Transfer == Asks("unsafe-body", "POST", <<"", "transfers">>, <<>>, Conditional(Typed, <<"v1">>), "b1", "op1", {"if-match"})
Plain    == Asks("unsafe-body", "POST", <<"", "transfers">>, << <<"dry", "1">> >>, Typed, "b1", "op1", {"if-match"})
Cancel   == Asks("unsafe-empty", "DELETE", <<"", "transfers", "7">>, <<>>, <<>>, Empty, "op2", {})
Read     == Asks("safe-receiptable", "GET", <<"", "transfers", "7">>, <<>>, <<>>, Empty, "op1", {})
Lookup   == Asks("retrieval", "GET", <<"", "operations">>, << <<"operation", "op1">> >>, <<>>, Empty, None, {})

\* A header the operation depends on, which the agent does not sign.
Careless == [Cancel EXCEPT !.fields = [n \in {"if-match"} |-> <<"v1">>]]

\* Not signable: no body; a field the profile sets; a semantic header twice.
Refused ==
    {[Transfer EXCEPT !.body = Empty],
     [Cancel EXCEPT !.fields = [n \in {"content-digest"} |-> <<Empty>>]],
     [Transfer EXCEPT !.fields = Conditional(Typed, <<"v1", "v1">>)]}

MCInputs == [a \in Clients |-> {Transfer, Plain, Cancel, Careless, Read, Lookup} \cup Refused]

Without(f, name) == [n \in DOMAIN f \ {name} |-> f[n]]
WithField(f, name, values) == [n \in DOMAIN f \cup {name} |-> IF n = name THEN values ELSE f[n]]

FieldsFrom(f) ==
    {Without(f, n) : n \in DOMAIN f}
    \cup {WithField(f, "if-match", <<"v2">>), WithField(f, "aria-operation", <<"op2">>), WithField(f, "aria-audience", <<r2>>),
          WithField(f, "content-digest", <<"b2">>)}

Swapped(q) == [q EXCEPT !.body = "b2", !.fields = WithField(q.fields, "content-digest", <<"b2">>)]

\* What the network makes of a request: each part changed, the body with its digest,
\* the window, the challenge and the components of the signature, and another key's
\* signature over other content.
MCAltered(q) ==
    LET s == q.inputs[1]
        swapped == Swapped(q)
    IN  {q, swapped, [q EXCEPT !.method = "GET"],
         [q EXCEPT !.inputs[1].params.expires = @ + 1], [q EXCEPT !.inputs[1].covered = @ \ {"@method"}],
         [q EXCEPT !.inputs[1].params.nonce = IF @ = c1 THEN c2 ELSE c1],
         [swapped EXCEPT !.inputs[1].signature =
            [key |-> "k2", base |-> SignatureBase(swapped, "o1", s.covered, s.params)]]}
        \cup {[q EXCEPT !.body = b] : b \in {"b2", Empty}}
        \cup {[q EXCEPT !.path = p] : p \in {<<"", "transfers", "8">>, <<"", "transfers">>}}
        \cup {[q EXCEPT !.query = x] : x \in {<<>>, << <<"operation", "op2">> >>, << <<"dry", "1">> >>}}
        \cup {[q EXCEPT !.fields = f] : f \in FieldsFrom(q.fields)}

=============================================================================
