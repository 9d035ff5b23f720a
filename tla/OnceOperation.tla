---------------------------- MODULE OnceOperation ----------------------------
(***************************************************************************)
(* What a receiver promises of one operation: at any time at most one      *)
(* attempt holds the right to run it, only the holder adds an outcome, a   *)
(* released right leaves no trace, and nothing follows a final outcome.    *)
(***************************************************************************)
EXTENDS Naturals, Sequences

CONSTANTS Attempts, None

VARIABLES
    holder,    \* the attempt that holds the operation, or None
    outcomes   \* every outcome recorded, oldest first

avars == <<holder, outcomes>>

FinalStates == {"completed", "rejected"}

\* The operation has a final outcome.
Closed == \E i \in 1 .. Len(outcomes) : outcomes[i].outcome \in FinalStates

AInit == holder = None /\ outcomes = <<>>

Claim(a) ==
    /\ holder = None
    /\ ~Closed
    /\ holder' = a
    /\ UNCHANGED outcomes

Release ==
    /\ holder # None
    /\ holder' = None
    /\ UNCHANGED outcomes

Settle(o) ==
    /\ holder # None
    /\ outcomes' = Append(outcomes, [attempt |-> holder, outcome |-> o])
    /\ holder' = None

ANext ==
    \/ \E a \in Attempts : Claim(a)
    \/ Release
    \/ \E o \in {"accepted"} \cup FinalStates : Settle(o)

ASpec == AInit /\ [][ANext]_avars

=============================================================================
