---------------------------- MODULE ProxyProgress ----------------------------
(***************************************************************************)
(* The steps a forward proxy operation shows while it runs                  *)
(* (web/src/admin/forwardProxyDialogProgress.ts), driven by the events of   *)
(* the server's progress stream (api.ts, requestForwardProxyProgress) and   *)
(* by what the dashboard adds to them: several candidates are validated at  *)
(* once, each with a stream of its own.                                     *)
(***************************************************************************)
EXTENDS Integers, Sequences, FiniteSets

CONSTANTS
    Candidate,       \* URLs validated at once
    MaxPhaseEvents   \* bound: phase events of a stream

\* The stream of a save is none of a candidate.
ASSUME ProgressConstants ==
    IsFiniteSet(Candidate) /\ "save" \notin Candidate /\ MaxPhaseEvents \in Nat

VARIABLES
    progress,   \* the progress state: its action, its steps, the active step
    streams,    \* the streams on their way: the phase events each has left
    verdicts,   \* validate: the results so far
    fatal,      \* validate: hadFatalError
    lastPhase,  \* validate: the last phase of each candidate
    brokeOff    \* history: a save ended without an event that says so

progressVars == <<progress, streams, verdicts, fatal, lastPhase, brokeOff>>

PhaseKey == {"normalize_input", "parse_input", "fetch_subscription", "probe_nodes",
             "generate_result", "save_settings", "refresh_subscription", "refresh_ui"}
NoPhase == "none"
Idle == [action |-> "none", steps |-> << >>, active |-> NoPhase]
SaveStream == "save"

-----------------------------------------------------------------------------
\* buildProgressSteps (the steps of an egress change are those of a save with more phases).
StepKeys(action, many) ==
    CASE action = "revalidate" -> <<"refresh_subscription", "probe_nodes", "refresh_ui">>
      [] action = "validate" /\ many -> <<"parse_input", "probe_nodes", "generate_result">>
      [] action = "validate" /\ ~many ->
           <<"normalize_input", "fetch_subscription", "probe_nodes", "generate_result">>
      [] OTHER -> <<"save_settings", "refresh_subscription", "refresh_ui">>
CreateDialogProgressState(action, many) ==
    [action |-> action, active |-> NoPhase,
     steps |-> [i \in 1 .. Len(StepKeys(action, many)) |->
                  [key |-> StepKeys(action, many)[i], status |-> "pending"]]]

HasError(p) == \E i \in 1 .. Len(p.steps) : p.steps[i].status = "error"
SetSteps(p, key, status) ==
    [i \in 1 .. Len(p.steps) |->
       IF p.steps[i].key = key THEN [p.steps[i] EXCEPT !.status = status]
       ELSE IF p.steps[i].status = "running" THEN [p.steps[i] EXCEPT !.status = "done"]
       ELSE p.steps[i]]
\* updateDialogProgressState, by the type of the event.
OnPhase(p, key) == [p EXCEPT !.active = key, !.steps = SetSteps(p, key, "running")]
OnError(p, key) == [p EXCEPT !.steps = SetSteps(p, IF key = NoPhase THEN p.active ELSE key, "error")]
OnComplete(p) ==
    IF HasError(p) THEN p
    ELSE [p EXCEPT !.steps = [i \in 1 .. Len(p.steps) |->
            IF p.steps[i].status = "running" \/ p.active = NoPhase
            THEN [p.steps[i] EXCEPT !.status = "done"] ELSE p.steps[i]]]

\* ForwardProxyProgressBubble: the steps that spin.
Spinning == {i \in 1 .. Len(progress.steps) : progress.steps[i].status = "running"}

\* The validation and the save of a subscription are shown until results or an error
\* replace them; the bubble of a revalidation stays.
Running == streams # << >>
BubbleShown ==
    /\ progress # Idle
    /\ progress.action = "validate" => Running \/ verdicts = {}

-----------------------------------------------------------------------------
ProgressTypeOK ==
    /\ progress.action \in {"none", "validate", "save", "revalidate"}
    /\ progress.active \in PhaseKey \cup {NoPhase}
    /\ \A i \in 1 .. Len(progress.steps) :
         progress.steps[i].status \in {"pending", "running", "done", "error"}
    /\ \A s \in DOMAIN streams : streams[s] \in 0 .. MaxPhaseEvents
    /\ verdicts \subseteq Candidate \X BOOLEAN
    /\ lastPhase \in [Candidate -> PhaseKey \cup {NoPhase}] /\ fatal \in BOOLEAN /\ brokeOff \in BOOLEAN

ProgressInit ==
    /\ progress = Idle /\ streams = << >>
    /\ verdicts = {} /\ fatal = FALSE /\ brokeOff = FALSE
    /\ lastPhase = [c \in Candidate |-> NoPhase]

Drop(s) == [t \in DOMAIN streams \ {s} |-> streams[t]]
Spend(s) == [streams EXCEPT ![s] = @ - 1]
Many == Cardinality(Candidate) > 1

StartValidate ==
    /\ ~Running
    /\ progress' = CreateDialogProgressState("validate", Many)
    /\ streams' = [c \in Candidate |-> MaxPhaseEvents]
    /\ verdicts' = {} /\ fatal' = FALSE /\ brokeOff' = FALSE
    /\ lastPhase' = [c \in Candidate |-> NoPhase]

StartJob(action) ==
    /\ ~Running
    /\ progress' = CreateDialogProgressState(action, Many)
    /\ streams' = [s \in {SaveStream} |-> MaxPhaseEvents]
    /\ verdicts' = {} /\ fatal' = FALSE /\ brokeOff' = FALSE
    /\ lastPhase' = [c \in Candidate |-> NoPhase]

\* A phase event of a candidate's stream.  With several candidates generate_result is kept
\* back until all of them have answered.
ValidatePhase(c, key) ==
    /\ c \in Candidate \cap DOMAIN streams /\ streams[c] > 0
    /\ key \in {"normalize_input", "parse_input", "fetch_subscription", "probe_nodes", "generate_result"}
    /\ streams' = Spend(c)
    /\ lastPhase' = [lastPhase EXCEPT ![c] = key]
    /\ progress' = IF Many /\ key = "generate_result" THEN progress ELSE OnPhase(progress, key)
    /\ UNCHANGED <<verdicts, fatal, brokeOff>>

\* emitValidationError: at the phase the candidate was last in, or at the first step.
FailingPhase(key) ==
    IF key # NoPhase THEN key ELSE IF Many THEN "parse_input" ELSE "normalize_input"
AnyPhase == {lastPhase[c] : c \in Candidate} \ {NoPhase}

\* The last candidate has answered: what validateForwardProxyCandidates reports.
Conclude(p, vs, f) ==
    IF f THEN p
    ELSE IF \E v \in vs : v[2]
         THEN OnComplete(IF Many THEN OnPhase(p, "generate_result") ELSE p)
         ELSE OnError(p, FailingPhase(IF AnyPhase = {} THEN NoPhase ELSE CHOOSE k \in AnyPhase : TRUE))

\* A candidate's stream ends with a result; a single one that is not ok is an error.
ValidateResult(c, ok) ==
    LET vs == verdicts \cup {<<c, ok>>} IN
    /\ c \in Candidate \cap DOMAIN streams
    /\ streams' = Drop(c)
    /\ verdicts' = vs
    /\ progress' = IF DOMAIN streams = {c} THEN Conclude(progress, vs, fatal) ELSE progress
    /\ UNCHANGED <<fatal, lastPhase, brokeOff>>

\* Its request fails: the error is shown at once.
ValidateFails(c) ==
    /\ c \in Candidate \cap DOMAIN streams
    /\ streams' = Drop(c)
    /\ verdicts' = verdicts \cup {<<c, FALSE>>}
    /\ fatal' = TRUE
    /\ progress' = OnError(progress, FailingPhase(lastPhase[c]))
    /\ UNCHANGED <<lastPhase, brokeOff>>

\* A phase event of a save or of a revalidation.
JobPhase(key) ==
    /\ SaveStream \in DOMAIN streams /\ streams[SaveStream] > 0
    /\ key \in {"save_settings", "refresh_subscription", "probe_nodes"}
    /\ streams' = Spend(SaveStream)
    /\ progress' = OnPhase(progress, key)
    /\ UNCHANGED <<verdicts, fatal, lastPhase, brokeOff>>

\* The settings are answered and the statistics read again: refresh_ui, then complete.
JobDone ==
    /\ SaveStream \in DOMAIN streams
    /\ streams' = Drop(SaveStream)
    /\ progress' = OnComplete(OnPhase(progress, "refresh_ui"))
    /\ UNCHANGED <<verdicts, fatal, lastPhase, brokeOff>>

\* The stream carries an error event.
JobErrorEvent(key) ==
    /\ SaveStream \in DOMAIN streams
    /\ streams' = Drop(SaveStream)
    /\ progress' = OnError(progress, key)
    /\ UNCHANGED <<verdicts, fatal, lastPhase, brokeOff>>

\* The request fails, or its stream ends, without one: a revalidation reports it to its
\* progress, a save only to the error line.
JobBreaksOff ==
    /\ SaveStream \in DOMAIN streams
    /\ streams' = Drop(SaveStream)
    /\ progress' = IF progress.action = "revalidate" THEN OnError(progress, NoPhase) ELSE progress
    /\ brokeOff' = (progress.action = "save")
    /\ UNCHANGED <<verdicts, fatal, lastPhase>>

ProgressNext ==
    \/ StartValidate \/ StartJob("save") \/ StartJob("revalidate")
    \/ \E c \in Candidate : \/ \E key \in PhaseKey : ValidatePhase(c, key)
                            \/ \E ok \in BOOLEAN : ValidateResult(c, ok)
                            \/ ValidateFails(c)
    \/ \E key \in PhaseKey : JobPhase(key)
    \/ JobDone \/ JobErrorEvent("save_settings") \/ JobErrorEvent(NoPhase) \/ JobBreaksOff

ProgressSpec == ProgressInit /\ [][ProgressNext]_progressVars

-----------------------------------------------------------------------------
\* One step spins at a time, and none in a bubble on screen once its operation has ended,
\* unless a save broke off without an event: however the streams of several candidates
\* interleave and in whatever order they end (updateDialogProgressState).
SpinsOnlyWhileRunning ==
    /\ Cardinality(Spinning) <= 1
    /\ BubbleShown /\ ~Running /\ ~brokeOff => Spinning = {}
=============================================================================
