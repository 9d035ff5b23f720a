--------------------------- MODULE MCPresentation ---------------------------
(***************************************************************************)
(* Small instances of authentication: two challenges, deliveries of a      *)
(* genuine request, of the same request signed by another key, and of a    *)
(* request over the other challenge; windows that open late and end early. *)
(***************************************************************************)
EXTENDS Presentation, TLC

CONSTANTS c1, c2, r1, r2, d1, d2, d3

Signs(c, created, expires, genuine) ==
    [nonce |-> c, created |-> created, expires |-> expires, genuine |-> genuine]

MCRequests ==
    {Signs(c1, 0, 1, TRUE), Signs(c1, 0, 1, FALSE), Signs(c1, 2, 4, TRUE), Signs(c2, 1, 2, TRUE),
     Signs(c2, 0, 3, TRUE)}

Symmetry == Permutations(Deliveries) \cup Permutations(Receivers)

=============================================================================
