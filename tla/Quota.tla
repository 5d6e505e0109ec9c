------------------------------- MODULE Quota -------------------------------
(***************************************************************************)
(* What a token bucket promises to the service it protects, and nothing of *)
(* how: whenever somebody starts to count, the tokens granted from then on *)
(* are never more than one full bucket and what the rate has added in the  *)
(* time that the limiter has seen pass.  TokenBucket implements it.        *)
(***************************************************************************)
EXTENDS Integers

CONSTANTS Limiters,      \* the limiters
          Lanes,         \* the lanes of a limiter, counted apart
          Rate,          \* Rate[l][k]: tokens per tick
          Capacity       \* Capacity[l][k]: tokens of a full bucket

VARIABLES spent,         \* spent[l][k]: granted since the count began
          elapsed        \* elapsed[l]: ticks since the count began

Within(l) == \A k \in Lanes : spent[l][k] <= Capacity[l][k] + Rate[l][k] * elapsed[l]

Init == /\ spent = [l \in Limiters |-> [k \in Lanes |-> 0]]
        /\ elapsed = [l \in Limiters |-> 0]

\* Time passes for a limiter, and it grants no more than the quota.
Grant(l) ==
    /\ elapsed[l] <= elapsed'[l]
    /\ \A k \in Lanes : spent[l][k] <= spent'[l][k]
    /\ Within(l)'

\* Somebody starts to count afresh.
Restart(l) == elapsed'[l] = 0 /\ spent'[l] = [k \in Lanes |-> 0]

Next == \E l \in Limiters :
    /\ Grant(l) \/ Restart(l)
    /\ \A m \in Limiters \ {l} : elapsed'[m] = elapsed[m] /\ spent'[m] = spent[m]

Spec == Init /\ [][Next]_<<spent, elapsed>>
=============================================================================
