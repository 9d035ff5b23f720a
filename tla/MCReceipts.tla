----------------------------- MODULE MCReceipts -----------------------------
(***************************************************************************)
(* Small instances of receipts: two attempts of one operation, and a       *)
(* receiver that renews its credential, each credential on its own list.   *)
(***************************************************************************)
EXTENDS Receipts, TLC

CONSTANTS k1, k2, a1, a2

\* The two attempts differ in their names only.
MCSymmetry == Permutations({a1, a2})

Registry == [id |-> "production", issuer |-> "registry", method |-> "key-1", keys |-> [mldsa65 |-> "pq", ed25519 |-> "ed"],
             maxLevel |-> "L2", statusLists |-> {"list1", "list2"}]

MCProfiles == {Registry}

Issued(keys, d) == [d EXCEPT !.proof = [profiled |-> TRUE, method |-> "key-1", created |-> 0, value |-> Composite(keys, d)]]

Holder(k) == [id |-> IF k = k1 THEN "hk1" ELSE "hk2", of |-> "did:bank", key |-> IF k = k1 THEN "key1" ELSE "key2"]

Plain(k) ==
    [form |-> "aid", issuer |-> "registry", id |-> k, did |-> "did:bank", holder |-> Holder(k), scopes |-> {"pay"},
     hitl |-> {}, level |-> "L1", validFrom |-> IF k = k1 THEN 0 ELSE 1, validUntil |-> IF k = k1 THEN 1 ELSE 3,
     list |-> IF k = k1 THEN "list1" ELSE "list2", index |-> 0, proof |-> None]

MCDocument == [k \in {k1, k2} |-> Issued(Registry.keys, Plain(k))]
MCSignerOf == [k \in {k1, k2} |-> Holder(k)]

\* Genuine documents; one with its proof dated anew, which is outside the signed bytes;
\* documents changed after they were signed, or signed in part or by another; and
\* documents off the profile.
MCRetained ==
    {MCDocument[k] : k \in {k1, k2}}
    \cup {[MCDocument[k1] EXCEPT !.proof.created = 1],
          [MCDocument[k1] EXCEPT !.id = k2], [MCDocument[k1] EXCEPT !.holder = Holder(k2)],
          [MCDocument[k1] EXCEPT !.validUntil = 3], [MCDocument[k1] EXCEPT !.form = "other_version"],
          [MCDocument[k1] EXCEPT !.proof.method = "key-2"], [MCDocument[k1] EXCEPT !.issuer = "elsewhere"],
          Issued([mldsa65 |-> "pq", ed25519 |-> "other"], [Plain(k1) EXCEPT !.holder = Holder(k2)])}

ListContent(url, from, until, isRevoked) ==
    [read |-> TRUE, issuer |-> "registry", id |-> url, subject |-> TRUE,
     unpacks |-> TRUE, bits |-> [n \in {0} |-> isRevoked[IF url = "list1" THEN k1 ELSE k2]],
     validFrom |-> from, validUntil |-> until, proof |-> None]

MCListOf(url, t, length, isRevoked) == Issued(Registry.keys, ListContent(url, t, t + length, isRevoked))

MCAlteredList(l) == {l, [l EXCEPT !.bits[0] = ~@], [l EXCEPT !.unpacks = FALSE], [l EXCEPT !.id = IF @ = "list1" THEN "list2" ELSE "list1"]}

MCOperationOf == [a \in {a1, a2} |-> "op1"]
MCSenderOf == [a \in {a1, a2} |-> [did |-> "did:agent", credential |-> "agent"]]
MCReceiptIds == <<"r1", "r2">>
MCRenewals == {<<k1, k2>>}

Reading(r) == [legible |-> TRUE, receipt |-> r]

OtherSigner(r) == [id |-> r.proof.keyid, key |-> "other"]

\* A receipt as it is, cut off, of another type, with each part changed, named for the
\* other instance, and changed and signed again with another key.
MCAlteredOf(r) ==
    LET changed == {[r EXCEPT !.request.digest = IF @ = a1 THEN a2 ELSE a1], [r EXCEPT !.request.id = "op2"],
                    [r EXCEPT !.outcome = [@ EXCEPT !.state = "completed", !.applies = "operation", !.status = 200, !.code = "aria.completed"]],
                    [r EXCEPT !.outcome.status = 200], [r EXCEPT !.receiver.credential = IF @ = k1 THEN k2 ELSE k1]}
    IN  {Reading(r), [Reading(r) EXCEPT !.legible = FALSE], Reading([r EXCEPT !.type = "other"])}
        \cup {Reading(c) : c \in changed}
        \cup {Reading(Proved([r EXCEPT !.request.id = "op2"], OtherSigner(r)))}

=============================================================================
