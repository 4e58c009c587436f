-------------------------------- MODULE Ledger --------------------------------
(***************************************************************************)
(* What the pending-billing ledger promises, whoever calls it and in       *)
(* whatever order: a billable response is recorded once, with the subject, *)
(* the credits and the period it belongs to, and is posted to the usage    *)
(* bucket of that subject and period exactly once.  No lock appears here:  *)
(* the promise does not rest on one.                                       *)
(***************************************************************************)
EXTENDS Naturals

CONSTANTS LogId, Subject, Token, Period, Credit

VARIABLES
    logs,     \* auth_token_logs: the rows that carry business credits
    bucket    \* usage buckets: credits posted per subject and period

ledgerVars == <<logs, bucket>>

Absent == [st |-> "absent"]

Entry == [subj : Subject, tok : Token, cr : Credit, per : Period,
          st : {"pending", "charged"}]

LedgerTypeOK ==
    /\ logs \in [LogId -> Entry \cup {Absent}]
    /\ bucket \in [Subject -> [Period -> Nat]]

LedgerInit ==
    /\ logs = [l \in LogId |-> Absent]
    /\ bucket = [s \in Subject |-> [p \in Period |-> 0]]

Record(l, s, t, c, p) ==
    /\ logs[l] = Absent
    /\ logs' = [logs EXCEPT ![l] =
                  [subj |-> s, tok |-> t, cr |-> c, per |-> p,
                   st |-> "pending"]]
    /\ UNCHANGED bucket

Post(l) ==
    /\ logs[l].st = "pending"
    /\ logs' = [logs EXCEPT ![l].st = "charged"]
    /\ bucket' = [bucket EXCEPT ![logs[l].subj][logs[l].per] =
                    @ + logs[l].cr]

LedgerNext ==
    \/ \E l \in LogId, s \in Subject, t \in Token, c \in Credit,
          p \in Period : Record(l, s, t, c, p)
    \/ \E l \in LogId : Post(l)

LedgerSpec == LedgerInit /\ [][LedgerNext]_ledgerVars
==============================================================================
