-------------------------- MODULE MCOfflineVerifier --------------------------
(***************************************************************************)
(* A small instance of the offline verifier: an agent with a credential    *)
(* and its renewal, on one list; and a credential of before 1.0, whose id  *)
(* is its agent's DID.                                                     *)
(***************************************************************************)
EXTENDS OfflineVerifier

CONSTANTS c1, c2, c0

OldKeys == [pq |-> "pq1", classical |-> "ed1"]
NewKeys == [pq |-> "pq2", classical |-> "ed2"]

MCRegistryKeys == {OldKeys, NewKeys}

Signed(k, form, d) ==
    [d EXCEPT !.proof = [form |-> form, pq |-> k.pq, classical |-> k.classical, over |-> Unproven(d), hash |-> None]]

Plain(id, instance, subject, level, principal, until, index, serial) ==
    [read |-> "aid", instance |-> instance, id |-> id, subject |-> subject, level |-> level, principal |-> principal,
     scopes |-> {"pay"}, validUntil |-> until, issuer |-> "registry", entry |-> instance, url |-> "list",
     index |-> index, serial |-> serial, proof |-> None]

MCDocument ==
    [c \in {c1, c2, c0} |->
        CASE c = c1 -> Signed(OldKeys, "composite", Plain("id1", TRUE, "agent", "L3", "legal-verified", 5, 0, 1))
          [] c = c2 -> Signed(NewKeys, "composite", Plain("id2", TRUE, "agent", "L2", "registry-confirmed", 6, 1, 2))
          [] c = c0 -> Signed(OldKeys, "separate", Plain("old", FALSE, None, "L1", None, 4, 0, 1))]

\* A document as it is, and with its hash; changed after it was signed, the hash with it
\* or not; with one half of the proof made by another, and under other keys altogether;
\* not decodable, without a proof, and not a credential.
MCDocumentsOf(d) ==
    LET longer == [d EXCEPT !.validUntil = @ + 1]
    IN  {d, [d EXCEPT !.proof.hash = Unproven(d)], [d EXCEPT !.proof.hash = Unproven(longer)], longer,
         [longer EXCEPT !.proof.hash = Unproven(longer)],
         [d EXCEPT !.proof.pq = "other"], [d EXCEPT !.proof.classical = "other"],
         Signed([pq |-> "other", classical |-> "other"], "separate", [d EXCEPT !.level = "L9"]),
         [d EXCEPT !.proof.form = "undecodable"], [d EXCEPT !.proof = None]}
        \cup {[d EXCEPT !.read = r] : r \in Readings}

MCListOf(url, t, length, k, revoked) ==
    Signed(k, "composite",
           [read |-> TRUE, id |-> url, issuer |-> "registry", typed |-> TRUE, validFrom |-> t, validUntil |-> t + length,
            bitstring |-> TRUE, bits |-> [n \in {0, 1} |-> \E c \in revoked : MCDocument[c].instance /\ MCDocument[c].index = n],
            proof |-> None])

\* A list as it is, with its bits or its end changed, with one half of the proof or none,
\* and an answer that is no list.
MCAlteredList(l) ==
    {l, [l EXCEPT !.bits = [n \in DOMAIN l.bits |-> FALSE]], [l EXCEPT !.validUntil = @ + 1],
     [l EXCEPT !.proof.pq = "other", !.bits = [n \in DOMAIN l.bits |-> FALSE]], [l EXCEPT !.proof = None],
     [l EXCEPT !.read = FALSE]}

MCPolicies ==
    {PolicyLevel[n] : n \in DOMAIN PolicyLevel}
    \cup {[Policy(ONE_HOUR_MS, None, TRUE) EXCEPT !.requirePrincipalVerified = TRUE, !.requiredScopes = {"pay"}],
          [Policy(TWENTY_FOUR_HOURS_MS, None, TRUE) EXCEPT !.requiredScopes = {"sign"}]}

MCDrifts == {-1, 1}

=============================================================================
