------------------------------ MODULE MCBilling ------------------------------
(* Small instances of Billing.                                             *)
EXTENDS Billing, TLC

CONSTANTS i1, i2, r1, r2, r3, t1, u1

\* Two requests in one process, the third in another.
MCInstanceOf == r1 :> i1 @@ r2 :> i2 @@ r3 :> i1
MCInstanceOf2 == r1 :> i1 @@ r2 :> i2
MCTokenOf == [h \in Holder |-> t1]
\* The requests of one process are alike: they carry the same token.
Alike == Permutations({r1, r3})
\* "account:..." sorts before "token:..."
MCRank == u1 :> 1 @@ t1 :> 2
==============================================================================
