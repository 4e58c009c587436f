---------------------------- MODULE ConsoleProbe ----------------------------
(***************************************************************************)
(* A token's page in the user console (web/src/UserConsole.tsx): the load   *)
(* of its detail, and the connectivity checks, which run the MCP methods,   *)
(* or the HTTP API, one call after the other with the token's secret while  *)
(* the user may leave the page or open another token's.                     *)
(***************************************************************************)
EXTENDS Integers, Sequences, FiniteSets

CONSTANTS
    ProbeToken,     \* tokens that have a page
    NoPage,         \* the landing page; also: no detail, no bubble
    Tool,           \* tools of the upstream
    BillableTool,   \* the tavily-* tools: isBillableMcpProbeTool
    FixtureTool,    \* the billable tools whose arguments the page knows or can make up
    Advertised,     \* lists of tools a tools/list may answer, besides the empty one
    MaxProbeRuns    \* bound: runs that have not returned

ASSUME ProbeConstants ==
    /\ NoPage \notin ProbeToken /\ MaxProbeRuns \in Nat
    /\ FixtureTool \subseteq BillableTool /\ BillableTool \subseteq Tool
    /\ Advertised \subseteq Seq(Tool)
    \* What a tool is called is no step of the handshake or of the HTTP API.
    /\ Tool \cap {"initialize", "initialized", "ping", "toolsList", "search", "extract", "crawl", "map",
                 "research", "researchResult"} = {}

VARIABLES
    probePage,      \* route: the token of the page
    tokenDetail,    \* detail: token, and whether its quota is spent
    tokenLogs,      \* detailLogs: the token they are of
    tokenLoading,   \* detailLoading
    tokenLoad,      \* the detail's load on its way
    quotaSpent,     \* server: tokens with an exhausted window
    probeRuns,      \* runs of runMcpProbe and runApiProbe that have not returned
    probeButton,    \* mcpProbe.state, apiProbe.state
    probeBubble     \* probeBubble

probeVars == <<probePage, tokenDetail, tokenLogs, tokenLoading, tokenLoad, quotaSpent,
               probeRuns, probeButton, probeBubble>>
pageVars == <<probePage, tokenDetail, tokenLogs, tokenLoading, tokenLoad, quotaSpent>>

Kind == {"mcp", "api"}
McpStep == {"initialize", "initialized", "ping", "toolsList"} \cup Tool
ApiStep == {"search", "extract", "crawl", "map", "research", "researchResult"}
\* Of the finished items of a run, which kinds there are.
Items == SUBSET {"passed", "failing", "skipped"}
NoItems == {}
Run == [kind : Kind, token : ProbeToken, stale : BOOLEAN,
        phase : {"secret", "recheck", "call", "refresh"},
        plan : Seq(McpStep \cup ApiStep), items : Items,
        blocked : BOOLEAN,     \* quotaBlockedWindow
        researchId : BOOLEAN,  \* researchRequestId
        sawSpent : BOOLEAN,    \* history: the quota was spent at a time during the run
        recheckFailed : BOOLEAN]

ProbeTypeOK ==
    /\ probePage \in ProbeToken \cup {NoPage}
    /\ tokenDetail \in [token : ProbeToken, spent : BOOLEAN] \cup {NoPage}
    /\ tokenLogs \in ProbeToken \cup {NoPage}
    /\ tokenLoading \in BOOLEAN /\ tokenLoad \in BOOLEAN
    /\ quotaSpent \subseteq ProbeToken
    /\ probeRuns \subseteq Run
    /\ probeButton \in [Kind -> {"idle", "running", "success", "partial", "failed"}]
    /\ probeBubble \in [token : ProbeToken, kind : Kind, items : Items] \cup {NoPage}

\* createProbeButtonModel.
IdleButtons == [k \in Kind |-> "idle"]

ProbeInit ==
    /\ probePage = NoPage /\ tokenDetail = NoPage /\ tokenLogs = NoPage
    /\ tokenLoading = FALSE /\ tokenLoad = FALSE
    /\ quotaSpent \in SUBSET ProbeToken
    /\ probeRuns = {} /\ probeButton = IdleButtons /\ probeBubble = NoPage

-----------------------------------------------------------------------------
(* The page and its detail.                                                   *)

McpPlan == <<"initialize", "initialized", "ping", "toolsList">>
ApiPlan == <<"search", "extract", "crawl", "map", "research", "researchResult">>

Plan(kind) == IF kind = "mcp" THEN McpPlan ELSE ApiPlan

\* ++probeRunIdRef: the runs on their way have been passed.  What they counted is lost.
PassRuns(rs) == {[r EXCEPT !.stale = TRUE, !.plan = Plan(r.kind), !.items = NoItems,
                           !.blocked = FALSE, !.researchId = FALSE, !.sawSpent = FALSE,
                           !.recheckFailed = FALSE] : r \in rs}

\* The route becomes p.  The effects abort the load before, and send a new one on a
\* token's page; the rejection of the aborted load then empties the detail, and takes the
\* loading flag away from the new one.  The probes are reset.
OpenPage(p) ==
    /\ probePage # p
    /\ probePage' = p
    /\ tokenDetail' = NoPage /\ tokenLogs' = NoPage
    /\ tokenLoad' = (p # NoPage)
    /\ tokenLoading' = (p # NoPage /\ ~tokenLoad)
    /\ probeRuns' = PassRuns(probeRuns)
    /\ probeButton' = IdleButtons
    /\ probeBubble' = NoPage
    /\ UNCHANGED quotaSpent

\* getTokenBusinessQuotaWindow of what the server answers.
Snapshot(t) == [token |-> t, spent |-> t \in quotaSpent]
GetTokenBusinessQuotaWindow == tokenDetail # NoPage /\ tokenDetail.spent

DetailLoaded(ok) ==
    /\ tokenLoad
    /\ tokenLoad' = FALSE /\ tokenLoading' = FALSE
    /\ tokenDetail' = IF ok THEN Snapshot(probePage) ELSE NoPage
    /\ tokenLogs' = IF ok THEN probePage ELSE NoPage
    /\ UNCHANGED <<probePage, quotaSpent, probeRuns, probeButton, probeBubble>>

\* Other clients use the quota up, or a window ends.
QuotaChanges(t) ==
    LET spent == (quotaSpent \ {t}) \cup ({t} \ quotaSpent)
    IN /\ quotaSpent' = spent
       /\ probeRuns' = {IF ~r.stale /\ r.token \in spent THEN [r EXCEPT !.sawSpent = TRUE] ELSE r :
                           r \in probeRuns}
       /\ UNCHANGED <<probePage, tokenDetail, tokenLogs, tokenLoading, tokenLoad, probeButton,
                      probeBubble>>

-----------------------------------------------------------------------------
(* Steps and answers.                                                         *)

Billable(s) == s \in BillableTool
\* mcpToolProbeArguments, and what can be made up from the schema of a billable tool.
HasArguments(s) == s \in FixtureTool

\* Whether step s calls the server in run r: a billable tool is not called once the quota
\* is known to be spent, nor a tool without arguments, nor a result without an id.
Calls(r, s) ==
    CASE s \in Tool -> HasArguments(s) /\ ~(Billable(s) /\ r.blocked)
      [] s = "researchResult" -> r.researchId
      [] OTHER -> TRUE

\* What a step that makes no call counts as.
CountQuiet(r, s) ==
    IF s \in Tool /\ ~(Billable(s) /\ r.blocked) THEN "skipped" ELSE "failing"

\* Bodies of an answer: an envelope with a result, with a result that reports an error or
\* with an error; the quota's refusal; JSON that is no envelope; what does not parse
\* (neither JSON nor server-sent events with JSON); nothing at all.
Body == {"result", "toolError", "error", "quota", "json", "garbage", "empty"}

\* getProbeEnvelopeError, getMcpProbeResultError.
EnvelopeError(body) == body \in {"error", "quota"}
ResultError(body) == body = "toolError"

\* Of the MCP calls, notifications/initialized has no answer.
Notification(s) == s = "initialized"

\* requestMcpProbeWithTokenInternal: does the request return, rather than throw?
McpRequestReturns(notification, ok, body) ==
    /\ ok
    /\ body # "garbage"
    /\ body = "empty" => notification
    /\ body = "json" => notification

\* Whether the steps of the handshake, and of a tool, take what has returned.
HandshakeTakes(s, body) == s # "initialized" => ~EnvelopeError(body)
ToolTakes(body) == ~EnvelopeError(body) /\ ~ResultError(body)

\* The outcome of MCP step s; the quota's refusal of a billable tool blocks the run.
McpOutcome(s, ok, body) ==
    CASE ~McpRequestReturns(Notification(s), ok, body) ->
            IF Billable(s) /\ ~ok /\ body = "quota" THEN "quota" ELSE "failing"
      [] OTHER ->
            IF IF s \in Tool THEN ToolTakes(body) ELSE HandshakeTakes(s, body)
            THEN "passed" ELSE "failing"

\* requestJsonWithToken returns what parses.
ApiRequestReturns(ok, body) == ok /\ body \notin {"garbage", "empty"}

\* The outcome of API step s.  The body of a research that is accepted has its id; that of
\* its result may have a status that says it failed.
ApiOutcome(s, ok, body) ==
    IF /\ ApiRequestReturns(ok, body) /\ ~EnvelopeError(body)
       /\ s = "research" => body = "result"
       /\ s = "researchResult" => body # "toolError"
    THEN "passed" ELSE "failing"

-----------------------------------------------------------------------------
(* The runs.                                                                  *)

\* resolveMcpProbeButtonState, and the last lines of runApiProbe.
Verdict(items) ==
    CASE items \cap {"failing", "skipped"} = {} -> "success"
      [] items \cap {"failing", "skipped"} # {} /\ "passed" \notin items -> "failed"
      [] OTHER -> "partial"

AnyProbeRunning == \E k \in Kind : probeButton[k] = "running"

\* The panel with the two buttons, on a token's page.
ProbeOffered == probePage # NoPage /\ ~AnyProbeRunning
\* The table and the cards with the token's last requests.
LogsShown == IF probePage = NoPage THEN NoPage ELSE tokenLogs
\* The bubble is open once it has an item: a running step, or a finished one.
BubbleOpen ==
    /\ probeBubble # NoPage
    /\ \/ probeBubble.items # NoItems
       \/ \E r \in probeRuns : ~r.stale /\ r.kind = probeBubble.kind /\ r.phase = "call"

\* Mutant: a run does not notice that it was passed.
AlwaysActive(r) == r \in probeRuns

IsActiveRun(r) == ~r.stale

StartProbe(kind) ==
    /\ ProbeOffered
    /\ Cardinality(probeRuns) < MaxProbeRuns
    /\ probeRuns' = PassRuns(probeRuns) \cup
          {[kind |-> kind, token |-> probePage, stale |-> FALSE, phase |-> "secret",
            plan |-> Plan(kind), items |-> NoItems,
            blocked |-> kind = "mcp" /\ GetTokenBusinessQuotaWindow,
            researchId |-> FALSE,
            sawSpent |-> probePage \in quotaSpent, recheckFailed |-> FALSE]}
    /\ probeButton' = [probeButton EXCEPT ![kind] = "running"]
    /\ probeBubble' = [token |-> probePage, kind |-> kind, items |-> NoItems]
    /\ UNCHANGED pageVars

RunMcpProbe == StartProbe("mcp")
RunApiProbe == StartProbe("api")

\* The loop goes on with run r, which replaces "old": steps that make no call are counted
\* at once; the first one that calls is sent, or the run ends with its verdict.
GoOn(old, r) ==
    LET quiet == CHOOSE n \in 0 .. Len(r.plan) :
                    /\ \A i \in 1 .. n : ~Calls(r, r.plan[i])
                    /\ n = Len(r.plan) \/ Calls(r, r.plan[n + 1])
        items == r.items \cup {CountQuiet(r, r.plan[i]) : i \in 1 .. quiet}
        left == SubSeq(r.plan, quiet + 1, Len(r.plan))
    IN /\ probeBubble' = [token |-> r.token, kind |-> r.kind, items |-> items]
       /\ IF left = <<>>
          THEN /\ probeRuns' = probeRuns \ {old}
               /\ probeButton' = [probeButton EXCEPT ![r.kind] = Verdict(items)]
          ELSE /\ probeRuns' = (probeRuns \ {old}) \cup
                     {[r EXCEPT !.phase = "call", !.items = items, !.plan = left]}
               /\ probeButton' = [probeButton EXCEPT ![r.kind] = "running"]

\* The run gives up, having been passed.
Returns(r) ==
    /\ probeRuns' = probeRuns \ {r}
    /\ UNCHANGED <<tokenDetail, probeButton, probeBubble>>

\* The secret could not be fetched.
PreflightFails(r) ==
    /\ probeRuns' = probeRuns \ {r}
    /\ probeButton' = [probeButton EXCEPT ![r.kind] = "failed"]
    /\ probeBubble' = [token |-> r.token, kind |-> r.kind, items |-> {"failing"}]

\* The secret is there: a quota the detail in state calls spent is looked up again.
Proceed(r) ==
    IF r.blocked
    THEN /\ probeRuns' = (probeRuns \ {r}) \cup {[r EXCEPT !.phase = "recheck"]}
         /\ UNCHANGED <<probeButton, probeBubble>>
    ELSE GoOn(r, r)

SecretFetched(r, ok) ==
    /\ r \in probeRuns /\ r.phase = "secret"
    /\ \/ ~IsActiveRun(r) /\ Returns(r)
       \/ IsActiveRun(r) /\ ~ok /\ PreflightFails(r) /\ UNCHANGED tokenDetail
       \/ IsActiveRun(r) /\ ok /\ Proceed(r) /\ UNCHANGED tokenDetail
    /\ UNCHANGED <<probePage, tokenLogs, tokenLoading, tokenLoad, quotaSpent>>

\* revalidateBlockedQuotaWindow: the run follows the latest quota, or the old one when
\* that cannot be had.
QuotaRechecked(r, ok) ==
    /\ r \in probeRuns /\ r.phase = "recheck"
    /\ \/ ~IsActiveRun(r) /\ Returns(r)
       \/ /\ IsActiveRun(r) /\ ok
          /\ tokenDetail' = Snapshot(r.token)
          /\ GoOn(r, [r EXCEPT !.blocked = r.token \in quotaSpent])
       \/ /\ IsActiveRun(r) /\ ~ok
          /\ UNCHANGED tokenDetail
          /\ GoOn(r, [r EXCEPT !.recheckFailed = TRUE])
    /\ UNCHANGED <<probePage, tokenLogs, tokenLoading, tokenLoad, quotaSpent>>

\* The call of the step at the head of the plan is over.
StepDone(r, outcome, tools) ==
    LET s == Head(r.plan)
        counted == r.items \cup {outcome}
    IN /\ UNCHANGED tokenDetail
       /\ GoOn(r, [r EXCEPT !.items = counted, !.plan = Tail(@) \o tools,
                            !.researchId = @ \/ (s = "research" /\ outcome = "passed")])

McpAnswered(r, ok, body, tools) ==
    LET s == Head(r.plan)
        outcome == McpOutcome(s, ok, body)
        listed == s = "toolsList" /\ outcome = "passed"
    IN /\ r \in probeRuns /\ r.phase = "call" /\ r.kind = "mcp"
       /\ body = "quota" => ~ok /\ r.token \in quotaSpent
       /\ ~listed => tools = <<>>
       /\ \/ ~IsActiveRun(r) /\ Returns(r)
          \/ /\ IsActiveRun(r) /\ outcome = "quota"
             /\ probeRuns' = (probeRuns \ {r}) \cup {[r EXCEPT !.blocked = TRUE, !.phase = "refresh"]}
             /\ UNCHANGED <<tokenDetail, probeButton, probeBubble>>
          \/ /\ IsActiveRun(r) /\ outcome # "quota"
             /\ StepDone(r, IF listed /\ tools = <<>> THEN "failing" ELSE outcome, tools)
       /\ UNCHANGED <<probePage, tokenLogs, tokenLoading, tokenLoad, quotaSpent>>

\* After the quota's refusal the detail is loaded again, before the step is counted.
DetailRefreshed(r, ok) ==
    /\ r \in probeRuns /\ r.phase = "refresh"
    /\ \/ ~IsActiveRun(r) /\ Returns(r)
       \/ /\ IsActiveRun(r)
          /\ tokenDetail' = IF ok THEN Snapshot(r.token) ELSE tokenDetail
          /\ GoOn(r, [r EXCEPT !.items = @ \cup {"failing"}, !.plan = Tail(@)])
    /\ UNCHANGED <<probePage, tokenLogs, tokenLoading, tokenLoad, quotaSpent>>

ApiAnswered(r, ok, body) ==
    /\ r \in probeRuns /\ r.phase = "call" /\ r.kind = "api"
    /\ \/ ~IsActiveRun(r) /\ Returns(r)
       \/ IsActiveRun(r) /\ StepDone(r, ApiOutcome(Head(r.plan), ok, body), <<>>)
    /\ UNCHANGED <<probePage, tokenLogs, tokenLoading, tokenLoad, quotaSpent>>

RunProgress ==
    \E r \in probeRuns, ok \in BOOLEAN :
        \/ SecretFetched(r, ok) \/ QuotaRechecked(r, ok) \/ DetailRefreshed(r, ok)
        \/ \E body \in Body : \/ ApiAnswered(r, ok, body)
                              \/ \E tools \in {<<>>} \cup Advertised : McpAnswered(r, ok, body, tools)
LoadProgress == \E ok \in BOOLEAN : DetailLoaded(ok)

ProbeNext ==
    \/ \E p \in ProbeToken \cup {NoPage} : OpenPage(p)
    \/ \E t \in ProbeToken : QuotaChanges(t)
    \/ RunMcpProbe \/ RunApiProbe
    \/ LoadProgress \/ RunProgress

ProbeSpec == ProbeInit /\ [][ProbeNext]_probeVars

-----------------------------------------------------------------------------
\* The buttons work again once a run is over: a button spins exactly while a run that was
\* not passed goes on, and there is at most one (anyProbeRunning disables both).
SpinsWithRun ==
    /\ \A k \in Kind : probeButton[k] = "running" <=>
                          \E r \in probeRuns : ~r.stale /\ r.kind = k
    /\ Cardinality({r \in probeRuns : ~r.stale}) <= 1

\* A page shows its own token: neither the bubble, nor the detail, nor the logs hold what a run or a
\* load of the page before has brought (isActiveRun, the abort of the detail's effect).
ShowsOwnToken ==
    /\ probeBubble # NoPage => probeBubble.token = probePage
    /\ tokenDetail # NoPage => tokenDetail.token = probePage
    /\ LogsShown \in {probePage, NoPage}

\* A run holds back the billable tools only if the quota was really spent at a time during
\* the run, or could not be looked up (revalidateBlockedQuotaWindow).
HeldBackOnlyIfSpent ==
    \A r \in probeRuns : r.blocked /\ r.phase = "call" => r.sawSpent \/ r.recheckFailed
=============================================================================
