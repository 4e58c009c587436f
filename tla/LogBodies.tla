------------------------------ MODULE LogBodies ------------------------------
(***************************************************************************)
(* The details of a request record in a list                                *)
(* (web/src/components/AdminRecentRequestsPanel.tsx): a row that is opened  *)
(* loads its request and response bodies, keeps them while the list stays,  *)
(* and loses them with every new list, which closes all rows and gives up   *)
(* their requests.                                                          *)
(***************************************************************************)
EXTENDS Integers, FiniteSets

CONSTANTS
    LogId,             \* records
    MaxBodyRequests    \* bound: requests for bodies on their way
ASSUME LogBodiesConstants == LogId # {} /\ MaxBodyRequests \in Nat \ {0}

VARIABLES
    listedLogs,        \* logs: the records in the list
    expandedLogs,
    logBodies,         \* logBodiesById
    bodyControllers,   \* logBodyControllersRef: the records with a controller
    bodyRequests       \* the requests on their way that nobody gave up, a bag: record -> number

bodyVars == <<listedLogs, expandedLogs, logBodies, bodyControllers, bodyRequests>>

BodyTypeOK ==
    /\ listedLogs \subseteq LogId /\ expandedLogs \subseteq LogId
    /\ logBodies \in [LogId -> {"none", "loading", "ready", "error"}]
    /\ bodyControllers \subseteq LogId
    /\ bodyRequests \in [LogId -> 0 .. MaxBodyRequests]

BodyInit ==
    /\ listedLogs \in SUBSET LogId /\ expandedLogs = {}
    /\ logBodies = [l \in LogId |-> "none"]
    /\ bodyControllers = {} /\ bodyRequests = [l \in LogId |-> 0]

\* RecentRequestDetails: what the opened row shows in place of the bodies, and its retry button.
BodyText(l) == CASE logBodies[l] = "ready" -> "bodies"
                 [] logBodies[l] = "loading" -> "loading"
                 [] logBodies[l] = "error" -> "failed"
                 [] logBodies[l] = "none" -> "no body"
RetryOffered(l) == l \in expandedLogs /\ logBodies[l] = "error"

\* Mutant: an abort is counted for a record without a request.
GivenUpAnyway(l) == bodyRequests[l] - 1

\* controller.abort(): the request of the record's controller ends.
GivenUp(l) == IF l \in bodyControllers THEN bodyRequests[l] - 1 ELSE bodyRequests[l]

\* triggerLoadLogBodies
BodiesKnown(l) == logBodies[l] \in {"loading", "ready"}
TriggerLoadLogBodies(l) ==
    /\ GivenUp(l) < MaxBodyRequests
    /\ bodyRequests' = [bodyRequests EXCEPT ![l] = GivenUp(l) + 1]
    /\ bodyControllers' = bodyControllers \cup {l}
    /\ logBodies' = [logBodies EXCEPT ![l] = "loading"]

\* toggleExpandedLog
ExpandLog(l) ==
    /\ l \in listedLogs \ expandedLogs
    /\ expandedLogs' = expandedLogs \cup {l}
    /\ IF BodiesKnown(l) THEN UNCHANGED <<logBodies, bodyControllers, bodyRequests>>
       ELSE TriggerLoadLogBodies(l)
    /\ UNCHANGED listedLogs
CollapseLog(l) ==
    /\ l \in expandedLogs /\ expandedLogs' = expandedLogs \ {l}
    /\ UNCHANGED <<listedLogs, logBodies, bodyControllers, bodyRequests>>

RetryLoadBodies(l) ==
    /\ RetryOffered(l) /\ TriggerLoadLogBodies(l)
    /\ UNCHANGED <<listedLogs, expandedLogs>>

\* The answer; the controller of the request leaves the map.
BodiesAnswered(l) ==
    /\ bodyRequests[l] > 0
    /\ bodyRequests' = [bodyRequests EXCEPT ![l] = @ - 1]
    /\ bodyControllers' = bodyControllers \ {l}
    /\ logBodies' = [logBodies EXCEPT ![l] = "ready"]
    /\ UNCHANGED <<listedLogs, expandedLogs>>

BodiesFail(l) ==
    /\ bodyRequests[l] > 0
    /\ bodyRequests' = [bodyRequests EXCEPT ![l] = @ - 1]
    /\ bodyControllers' = bodyControllers \ {l}
    /\ logBodies' = [logBodies EXCEPT ![l] = "error"]
    /\ UNCHANGED <<listedLogs, expandedLogs>>

\* The list is loaded anew, with other or the same records.
ListReplaced(rows) ==
    /\ listedLogs' = rows /\ expandedLogs' = {}
    /\ bodyRequests' = [l \in LogId |-> GivenUp(l)]
    /\ bodyControllers' = {}
    /\ logBodies' = [l \in LogId |-> "none"]

BodiesSettle(l) == BodiesAnswered(l) \/ BodiesFail(l)

BodyNext ==
    \/ \E l \in LogId : ExpandLog(l) \/ CollapseLog(l) \/ RetryLoadBodies(l) \/ BodiesSettle(l)
    \/ \E rows \in SUBSET LogId : ListReplaced(rows)

BodySpec == BodyInit /\ [][BodyNext]_bodyVars

-----------------------------------------------------------------------------
(* Properties.                                                                *)

\* Through any order of opening, closing, retries and new lists: the bodies kept are those of
\* records in the list, a record has at most one request, and it says "loading" exactly while
\* that request is on its way, so that an opened row always shows bodies, a load or a failure.
BodiesOfList ==
    /\ \A l \in LogId : logBodies[l] # "none" => l \in listedLogs
    /\ \A l \in LogId : bodyRequests[l] = (IF logBodies[l] = "loading" THEN 1 ELSE 0)
    /\ \A l \in expandedLogs : BodyText(l) # "no body"
=============================================================================
