----------------------------- MODULE RequestForm -----------------------------
(***************************************************************************)
(* The signed request of the HTTP profile: what signRequest puts into it   *)
(* and what the receiver tests of it                                       *)
(* (sdk/aria-ap-ts/src/internal/request.ts).                               *)
(*                                                                         *)
(* A digest is modelled by the content it is taken of, and a signature by  *)
(* the key that made it and the base it was made over.  A field that is    *)
(* read as a structured value is that value; one that does not parse is a  *)
(* value nothing asks for.  The components a signature lists are a set,    *)
(* and whether none is listed twice.  Times of a signature are in seconds, *)
(* a clock runs in ticks.                                                  *)
(***************************************************************************)
EXTENDS Integers, Sequences, FiniteSets, Verdicts

CONSTANTS
    Uuids,       \* values that are lower-case UUIDs
    Levels,      \* TRUST_LEVELS
    Holders,     \* what credential references resolve to, by URL: [digest, did, keyid, key, acceptable]
    Second,      \* ticks in a second
    MaxWindow,   \* PROFILE.maxWindowSeconds
    Skew,        \* PROFILE.skewSeconds
    None

ASSUME UuidsAssumption == None \notin Uuids

ASSUME ProfileAssumption == Second \in Nat \ {0} /\ MaxWindow \in Nat \ {0} /\ Skew \in Nat

Empty == "empty"  \* the content of a request without a body

-----------------------------------------------------------------------------
(* Classes and descriptors *)

RequestClass == {"unsafe-body", "unsafe-empty", "safe-receiptable", "retrieval"}

Method == {"GET", "POST", "PUT", "PATCH", "DELETE"}

Methods(class) ==
    CASE class = "unsafe-body" -> {"POST", "PUT", "PATCH"}
      [] class = "unsafe-empty" -> {"DELETE", "POST", "PATCH"}
      [] class \in {"safe-receiptable", "retrieval"} -> {"GET"}

HasBody(class) == class = "unsafe-body"

HasDigest(class) == class \in {"unsafe-body", "unsafe-empty"}

Receiptable(class) == class # "retrieval"

Optional(condition, name) == IF condition THEN {name} ELSE {}

Components(class) ==
    {"@method", "@target-uri", "aria-credential", "aria-audience"} \cup Optional(HasBody(class), "content-type")
        \cup Optional(HasDigest(class), "content-digest") \cup Optional(Receiptable(class), "aria-operation")

AriaFields == {"aria-operation", "aria-credential", "aria-audience", "content-digest", "signature-input", "signature"}

\* Any one segment of a path.
Hole == "{}"

\* checkDescriptors throws on any other.
DescriptorOK(d) ==
    /\ d.class \in RequestClass
    /\ d.method \in Methods(d.class)
    /\ Receiptable(d.class) => d.scope # None /\ d.minLevel \in Levels
    /\ d.class = "retrieval" => d.query = {"operation"}
    /\ HasBody(d.class) => d.mediaType # None
    /\ d.semanticHeaders \cap (AriaFields \cup {"content-type"}) = {}

PathMatches(pattern, path) ==
    /\ Len(pattern) = Len(path)
    /\ \A n \in DOMAIN pattern : IF pattern[n] = Hole THEN path[n] # "" ELSE path[n] = pattern[n]

-----------------------------------------------------------------------------
(* The signature base *)

Of(s) == {s[n] : n \in DOMAIN s}

\* A field that is there exactly once: a repeated one is refused, never merged.
Single(q, name) == name \in DOMAIN q.fields /\ Len(q.fields[name]) = 1

Value(q, name) == q.fields[name][1]

Derived == {"@method", "@target-uri"}

Coverable(q, covered) == \A name \in covered \ Derived : Single(q, name)

SignatureBase(q, origin, covered, params) ==
    [method |-> q.method, origin |-> origin, path |-> q.path, query |-> q.query,
     values |-> [name \in covered \ Derived |-> Value(q, name)], covered |-> covered, params |-> params]

Present(d, q) == {h \in d.semanticHeaders : h \in DOMAIN q.fields}

\* The logical content of an operation: no challenge, time, key or signature.
FingerprintOf(d, q) ==
    [class |-> d.class, method |-> d.method, path |-> q.path, query |-> Of(q.query),
     semanticHeaders |-> [h \in Present(d, q) |-> Value(q, h)],
     content |-> IF HasBody(d.class) THEN <<d.mediaType, q.body>> ELSE IF HasDigest(d.class) THEN <<Empty>> ELSE <<>>]

-----------------------------------------------------------------------------
(* authenticate *)

\* A media type is its text and its normal form.
MediaType(q) == Value(q, "content-type").normal

Matching(q, ops) == {d \in ops : d.method = q.method /\ PathMatches(d.path, q.path)}

Names(q) == {p[1] : p \in Of(q.query)}

\* No parameter twice.
Distinct(query) == \A m, n \in DOMAIN query : query[m][1] = query[n][1] => m = n

LookupOf(q) == IF Len(q.query) = 1 THEN q.query[1][2] ELSE None

\* The receiver's clock is inside the window, the skew allowed for.
Current(params, t) ==
    /\ params.created * Second <= t + Skew * Second
    /\ params.expires * Second >= t - Skew * Second

Window(params, t) ==
    /\ params.expires > params.created /\ params.expires - params.created <= MaxWindow
    /\ Current(params, t)

Required(d, q) == Components(d.class) \cup Present(d, q)

\* Mutant: the digest is signed, so it must be that of the content.
DigestGiven(q) == Single(q, "content-digest")

DigestFits(q) == Single(q, "content-digest") /\ Value(q, "content-digest") = q.body

\* The tests of a request's form, which a descriptor d answers for (steps 1 to 4).
FormTests(d, q) ==
    << [fails |-> ~HasBody(d.class) /\ q.body # Empty, reason |-> "body"],
       [fails |-> HasBody(d.class) /\ q.body = Empty, reason |-> "body"],
       [fails |-> HasBody(d.class) /\ ~(Single(q, "content-type") /\ MediaType(q) = d.mediaType), reason |-> "media_type"],
       [fails |-> ~(Distinct(q.query) /\ Names(q) \subseteq d.query), reason |-> "query"],
       [fails |-> d.class = "retrieval" /\ LookupOf(q) \notin Uuids, reason |-> "query"],
       [fails |-> d.class = "retrieval" /\ "aria-operation" \in DOMAIN q.fields, reason |-> "operation_id"],
       [fails |-> Receiptable(d.class) /\ ~(Single(q, "aria-operation") /\ Value(q, "aria-operation") \in Uuids),
        reason |-> "operation_id"] >>

\* The tests of the one signature s, up to the challenge (steps 6 to 8).
CoverTests(d, q, s, t) ==
    << [fails |-> Receiptable(d.class) /\ "aria-operation" \notin s.covered, reason |-> "unsigned_operation"],
       [fails |-> HasDigest(d.class) /\ "content-digest" \notin s.covered, reason |-> "digest"],
       [fails |-> ~(s.distinct /\ s.covered = Required(d, q)), reason |-> "signature"],
       [fails |-> ~s.params.profiled, reason |-> "signature"],
       [fails |-> ~Window(s.params, t), reason |-> "window"],
       [fails |-> HasDigest(d.class) /\ ~DigestFits(q), reason |-> "digest"] >>

Resolves(q, s) ==
    /\ Single(q, "aria-credential")
    /\ LET c == Value(q, "aria-credential")
       IN  /\ c.url \in DOMAIN Holders
           /\ Holders[c.url].digest = c.digest /\ Holders[c.url].keyid = s.params.keyid /\ Holders[c.url].acceptable

Key(q) == Holders[Value(q, "aria-credential").url].key

Verifies(q, origin, s) ==
    /\ Coverable(q, s.covered)
    /\ s.signature.key = Key(q) /\ s.signature.base = SignatureBase(q, origin, s.covered, s.params)

\* The tests from the challenge on (steps 9 to 12); `live` are the receiver's challenges.
ProofTests(q, s, origin, live) ==
    << [fails |-> s.params.nonce \notin live, reason |-> "challenge"],
       [fails |-> ~Resolves(q, s), reason |-> "credential"],
       [fails |-> Resolves(q, s) /\ ~Verifies(q, origin, s), reason |-> "signature"] >>

\* One signature, labelled as the profile says (step 5).
OneSignature(q) == Len(q.inputs) = 1 /\ q.inputs[1].labelled

Described(q, ops) == CHOOSE d \in Matching(q, ops) : TRUE

\* The reason of the refusal, or "ok", at one instant.
Authenticate(q, origin, ops, t, live) ==
    IF q.method \notin Method THEN "method"
    ELSE IF ~q.canonical THEN "target"
    ELSE IF Cardinality(Matching(q, ops)) # 1 THEN "operation_unknown"
    ELSE LET d == Described(q, ops)
             s == q.inputs[1]
         IN  Then(FirstFailure(FormTests(d, q)),
                  IF OneSignature(q) THEN Then(FirstFailure(CoverTests(d, q, s, t)), FirstFailure(ProofTests(q, s, origin, live)))
                                     ELSE "signature")

\* What the receiver goes on with, of an authenticated request.
Authenticated(q, ops, origin) ==
    LET d == Described(q, ops)
        s == q.inputs[1]
    IN  [descriptor |-> d,
         operationId |-> IF Receiptable(d.class) THEN Value(q, "aria-operation") ELSE None,
         lookupOf |-> IF Receiptable(d.class) THEN None ELSE LookupOf(q),
         audience |-> Value(q, "aria-audience"),
         fingerprint |-> IF Receiptable(d.class) THEN FingerprintOf(d, q) ELSE None,
         requestDigest |-> SignatureBase(q, origin, s.covered, s.params),
         holder |-> Value(q, "aria-credential").url,
         expires |-> s.params.expires]

-----------------------------------------------------------------------------
(* prepareSignature, and what signRequest asks of its input *)

\* i: [class, method, path, query, fields, body, operationId, semantic, window]
Signable(i) ==
    /\ i.class \in RequestClass
    /\ i.method \in Methods(i.class)
    /\ HasBody(i.class) <=> i.body # Empty
    /\ IF Receiptable(i.class) THEN i.operationId \in Uuids ELSE i.operationId = None
    /\ DOMAIN i.fields \cap AriaFields = {}
    /\ i.window \in 1 .. MaxWindow

Headers(i, reference, audience) ==
    LET added == [n \in {"aria-credential", "aria-audience"} \cup (IF HasDigest(i.class) THEN {"content-digest"} ELSE {})
                       \cup (IF i.operationId # None THEN {"aria-operation"} ELSE {}) |->
                    CASE n = "aria-credential" -> <<reference>>
                      [] n = "aria-audience" -> <<audience>>
                      [] n = "content-digest" -> <<i.body>>
                      [] n = "aria-operation" -> <<i.operationId>>]
    IN  [n \in DOMAIN i.fields \cup DOMAIN added |-> IF n \in DOMAIN added THEN added[n] ELSE i.fields[n]]

Semantic(i) == i.semantic \cap DOMAIN i.fields

\* Mutant: the agent signs the components of the class only.
CoveredOfClass(i) == Components(i.class)

Covered(i) == Components(i.class) \cup Semantic(i)

Params(i, nonce, keyid, created) ==
    [created |-> created, expires |-> created + i.window, nonce |-> nonce, keyid |-> keyid, profiled |-> TRUE]

Unsigned(i, reference, audience) ==
    [method |-> i.method, path |-> i.path, query |-> i.query, canonical |-> i.canonical, body |-> i.body,
     fields |-> Headers(i, reference, audience), inputs |-> <<>>]

\* prepareSignature throws when a covered header is missing or repeated.
Prepares(i, reference, audience) == Coverable(Unsigned(i, reference, audience), Covered(i))

SignedRequest(i, origin, reference, audience, nonce, holder, created) ==
    LET q == Unsigned(i, reference, audience)
        params == Params(i, nonce, holder.keyid, created)
    IN  [q EXCEPT !.inputs =
            <<[labelled |-> TRUE, covered |-> Covered(i), distinct |-> Semantic(i) \cap Components(i.class) = {}, params |-> params,
               signature |-> [key |-> holder.key, base |-> SignatureBase(q, origin, Covered(i), params)]]>>]

=============================================================================
