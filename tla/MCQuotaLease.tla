----------------------------- MODULE MCQuotaLease -----------------------------
(* Small instances of QuotaLease.                                          *)
EXTENDS QuotaLease, TLC

CONSTANTS i1, i2, r1, r2, r3

MCInstanceOf == r1 :> i1 @@ r2 :> i2 @@ r3 :> i1
MCInstanceOf2 == r1 :> i1 @@ r2 :> i2
==============================================================================
