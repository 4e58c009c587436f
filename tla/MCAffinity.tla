------------------------------ MODULE MCAffinity ------------------------------
(* Small instances of Affinity.                                            *)
EXTENDS Affinity, TLC

CONSTANTS i1, h1, h2, k1, k2, t1, t2

\* One process with one request at a time, or with two.
OneRequest == h1 :> i1
TwoRequests == h1 :> i1 @@ h2 :> i1

\* Bound: one key at most is off, and it is exhausted, disabled, deleted or quarantined, for
\* one reason at a time.
OneKeyOff ==
    /\ \E k \in Key : \A l \in Key \ {k} : status[l] = "active" /\ Usable(l)
    /\ deleted \cap quarantined = {}
    /\ \A k \in deleted \cup quarantined : status[k] = "active"

\* The requests of a user come one after the other; one token at least has a user.
InTurn ==
    /\ Init /\ \E t \in Token : binding[t] # None
    /\ [][Next /\ OneAtATime' /\ OneKeyOff']_vars

\* Keys are alike: the pool prefers none of them.  So are the requests, and the tokens of a user.
AlikeKeys == Permutations({k1, k2})
AlikeRequests == {p @@ q : p \in AlikeKeys, q \in Permutations({h1, h2})}
AlikeTokens == {p @@ q : p \in AlikeRequests, q \in Permutations({t1, t2})}
==============================================================================
