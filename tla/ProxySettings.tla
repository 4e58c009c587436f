---------------------------- MODULE ProxySettings ----------------------------
(***************************************************************************)
(* The forward proxy page of the admin dashboard                            *)
(* (web/src/admin/ForwardProxySettingsModule.tsx and the callbacks          *)
(* AdminDashboard.tsx passes to it): loading the settings, saving them from *)
(* the lists, the add dialog and the egress switch, revalidating, and the   *)
(* checks of the add dialog.                                                *)
(*                                                                          *)
(* A save writes the whole settings record: the one last shown, with one    *)
(* field changed.  insertDirect stands for the update interval as well.     *)
(***************************************************************************)
EXTENDS Integers, FiniteSets

CONSTANTS
    ManualUrl,       \* proxy URLs
    SubscriptionUrl, \* subscription URLs
    NoSettings,
    MaxJobs          \* bound: saves and revalidations of a behaviour

VARIABLES
    proxyPage,     \* the proxy-settings module is on screen
    settings,      \* forwardProxySettings
    settingsState, \* forwardProxySettingsLoadState
    settingsReads, \* reads of the settings on their way
    statsRead,     \* who waits for the read of the statistics on its way
    job,           \* the save or revalidation that runs
    egressDraft,   \* the draft of the egress switch and of its URL
    egressBusy,    \* egressProgress: kept until the module unmounts
    dialog,        \* the add dialog
    check,         \* the URLs of the dialog's validation on its way
    serverSettings,
    jobs,          \* bound counter: jobs begun
    behind         \* history: an answer older than a save was shown after it, or a save's was lost

proxyVars == <<proxyPage, settings, settingsState, settingsReads, statsRead, job,
               egressDraft, egressBusy, dialog, check, serverSettings, jobs, behind>>

Url == ManualUrl \cup SubscriptionUrl
EgressUrl == {"empty", "invalid", "valid"}
ForwardProxySettings ==
    [urls : SUBSET Url, insertDirect : BOOLEAN, egressEnabled : BOOLEAN, egressUrl : EgressUrl]
ASSUME ProxyConstants ==
    ManualUrl \cap SubscriptionUrl = {} /\ NoSettings \notin ForwardProxySettings /\ MaxJobs \in Nat
NoJob == [op |-> "none"]
Jobs == [op : {"save"}, by : {"list", "batch", "entry", "egress"}, draft : ForwardProxySettings,
         phase : {"sent", "written", "stats"}, here : BOOLEAN, old : BOOLEAN]
        \cup [op : {"revalidate"}, phase : {"sent", "stats"}]
\* What the dialog holds: the validated URLs with their verdicts, and whether a live row
\* of a subscription under validation has answered.
Closed == [kind |-> "none", input |-> {}, validated |-> {}, ok |-> {}, live |-> FALSE,
           validating |-> FALSE, typedOver |-> FALSE]
Dialogs == [kind : {"none", "subscription", "manual"}, input : SUBSET Url,
            validated : SUBSET Url, ok : SUBSET Url, live : BOOLEAN, validating : BOOLEAN,
            typedOver : BOOLEAN]

ProxyTypeOK ==
    /\ proxyPage \in BOOLEAN
    /\ settings \in ForwardProxySettings \cup {NoSettings}
    /\ settingsState \in {"initial_loading", "switch_loading", "refreshing", "ready", "error"}
    /\ settingsReads \subseteq [seen : ForwardProxySettings \cup {NoSettings}, stale : BOOLEAN]
    /\ statsRead \in {"none", "page", "job"}
    /\ job \in Jobs \cup {NoJob}
    /\ egressDraft \in [enabled : BOOLEAN, url : EgressUrl]
    /\ egressBusy \in BOOLEAN /\ behind \in BOOLEAN
    /\ dialog \in Dialogs /\ check \in SUBSET Url
    /\ serverSettings \in ForwardProxySettings /\ jobs \in 0 .. MaxJobs

ProxyInit ==
    /\ proxyPage = FALSE /\ settings = NoSettings /\ settingsState = "initial_loading"
    /\ settingsReads = {} /\ statsRead = "none" /\ job = NoJob
    /\ egressDraft = [enabled |-> FALSE, url |-> "empty"] /\ egressBusy = FALSE
    /\ dialog = Closed /\ check = {} /\ jobs = 0 /\ behind = FALSE
    /\ serverSettings = [urls |-> {}, insertDirect |-> TRUE, egressEnabled |-> FALSE,
                         egressUrl |-> "empty"]

-----------------------------------------------------------------------------
(* What the page shows and offers.                                            *)

\* The record the forms start from: defaults before the first answer.
BuildDraft(s) ==
    IF s = NoSettings
    THEN [urls |-> {}, insertDirect |-> TRUE, egressEnabled |-> FALSE, egressUrl |-> "empty"]
    ELSE s
Draft == BuildDraft(settings)
ControlsDisabled == job # NoJob
\* AdminLoadingRegion hides the forms while a load blocks, and after one has failed.
FormsShown == proxyPage /\ settingsState \in {"ready", "refreshing"}
ListOffers == FormsShown /\ ~ControlsDisabled
\* The panels: refresh and revalidate; the two lists with their remove buttons; the update
\* interval and insertDirect; the buttons that open the dialog.
SummaryPanel == proxyPage /\ ~ControlsDisabled
SubscriptionList == IF ListOffers THEN Draft.urls \cap SubscriptionUrl ELSE {}
ManualList == IF ListOffers THEN Draft.urls \cap ManualUrl ELSE {}
OptionsOffered == ListOffers
AddOffered == ListOffers
\* The Switch is disabled while loading, and loading is egressProgress.action = "save".
EgressSwitchOffered == FormsShown /\ ~ControlsDisabled /\ ~egressBusy
EgressInputLocked == settings # NoSettings /\ settings.egressEnabled
EgressInputOffered == FormsShown /\ ~ControlsDisabled /\ ~EgressInputLocked

OkUrls == dialog.validated \cap dialog.ok
\* The subscription the dialog would add: the first validated one, or the typed one.
SubscriptionCandidate == IF OkUrls # {} THEN OkUrls ELSE dialog.input
CanAddSubscription ==
    SubscriptionCandidate # {} /\ (~dialog.validating \/ dialog.live)
ManualBatch == Draft.urls \cup (IF OkUrls # {} THEN OkUrls ELSE dialog.input)
ProxyDialogOffers ==
    IF dialog.kind = "none" \/ ControlsDisabled THEN {}
    ELSE {"type", IF dialog.validating THEN "cancel" ELSE "close"}
         \cup (IF dialog.validating THEN {} ELSE {"validate"})
         \cup (IF dialog.kind = "subscription" /\ CanAddSubscription THEN {"addSubscription"} ELSE {})
         \cup (IF dialog.kind = "manual" /\ ~dialog.validating /\ ManualBatch # Draft.urls
               THEN {"addBatch"} ELSE {})
\* A row of the table of results: its add button.
ProxyRowOffers(u) == dialog.kind = "manual" /\ u \in OkUrls /\ ~ControlsDisabled

-----------------------------------------------------------------------------
(* Loading.                                                                   *)

AbortReads(rs) == {}
\* loadForwardProxySettingsData: the read before is aborted.
ReadSettings(reason) ==
    /\ settingsReads' = AbortReads(settingsReads) \cup {[seen |-> NoSettings, stale |-> FALSE]}
    /\ settingsState' = IF settings = NoSettings THEN "initial_loading"
                        ELSE IF reason = "refresh" THEN "refreshing" ELSE "switch_loading"

\* loadForwardProxyStatsData: whoever waits for the read before, goes on: an aborted read returns.
ReadStats(who) == statsRead' = who

\* A job that waits for the statistics ends when its read returns, and so when another
\* read aborts it.  A save then runs what its control does after it.
AfterSave(by) ==
    IF by = "batch" THEN Closed ELSE dialog
JobReturns ==
    /\ job' = NoJob
    /\ dialog' = IF job.op = "save" /\ job.here THEN AfterSave(job.by) ELSE dialog
    /\ check' = IF dialog' = Closed THEN {} ELSE check
\* Mutant: whoever waits for a read that is aborted waits on.
StatsReadForgotten == UNCHANGED <<job, dialog, check>>
StatsReadReplaced ==
    IF statsRead = "job" THEN JobReturns ELSE UNCHANGED <<job, dialog, check>>

OpenProxyPage ==
    /\ ~proxyPage
    /\ proxyPage' = TRUE
    /\ ReadSettings("switch") /\ ReadStats("page") /\ StatsReadReplaced
    /\ egressDraft' = [enabled |-> Draft.egressEnabled, url |-> Draft.egressUrl]
    /\ UNCHANGED <<settings, egressBusy, serverSettings, jobs, behind>>

\* The effects' cleanups abort the page's reads; the module unmounts with its dialog, and
\* the validation of the dialog is aborted.  A job goes on in the dashboard.
LeaveProxyPage ==
    /\ proxyPage
    /\ proxyPage' = FALSE
    /\ settingsReads' = AbortReads(settingsReads)
    /\ statsRead' = IF statsRead = "page" THEN "none" ELSE statsRead
    /\ dialog' = Closed /\ check' = {} /\ egressBusy' = FALSE
    /\ job' = IF job.op = "save" THEN [job EXCEPT !.here = FALSE] ELSE job
    /\ UNCHANGED <<settings, settingsState, egressDraft, serverSettings, jobs, behind>>

\* The refresh button of the page.
RefreshProxyPage ==
    /\ SummaryPanel
    /\ ReadSettings("refresh") /\ ReadStats("page")
    /\ UNCHANGED <<proxyPage, settings, job, egressDraft, egressBusy, dialog, check,
                   serverSettings, jobs, behind>>

\* The interval that polls the statistics.
StatsTick ==
    /\ proxyPage
    /\ ReadStats("page") /\ StatsReadReplaced
    /\ UNCHANGED <<proxyPage, settings, settingsState, settingsReads, egressDraft, egressBusy,
                   serverSettings, jobs, behind>>

\* A read of the statistics is answered, or fails: only the region of the nodes is told.
StatsAnswered ==
    /\ statsRead # "none"
    /\ statsRead' = "none" /\ StatsReadReplaced
    /\ UNCHANGED <<proxyPage, settings, settingsState, settingsReads, egressDraft, egressBusy,
                   serverSettings, jobs, behind>>

\* The server reads its settings for a read on its way.
ServerReads(r) ==
    /\ r \in settingsReads /\ r.seen = NoSettings
    /\ settingsReads' = (settingsReads \ {r}) \cup {[r EXCEPT !.seen = serverSettings]}
    /\ UNCHANGED <<proxyPage, settings, settingsState, statsRead, job, egressDraft, egressBusy,
                   dialog, check, serverSettings, jobs, behind>>

\* Settings are shown; the effect on the egress fields resets their draft when they changed.
ShowSettings(s) ==
    /\ settings' = s
    /\ egressDraft' =
         IF /\ proxyPage
            /\ <<Draft.egressEnabled, Draft.egressUrl>> # <<s.egressEnabled, s.egressUrl>>
         THEN [enabled |-> s.egressEnabled, url |-> s.egressUrl] ELSE egressDraft

SettingsAnswered(r, ok) ==
    /\ r \in settingsReads /\ r.seen # NoSettings
    /\ settingsReads' = settingsReads \ {r}
    /\ IF ok THEN ShowSettings(r.seen) /\ settingsState' = "ready"
             ELSE settingsState' = "error" /\ UNCHANGED <<settings, egressDraft>>
    /\ behind' = IF ok THEN r.stale ELSE behind
    /\ UNCHANGED <<proxyPage, statsRead, job, egressBusy, dialog, check, serverSettings, jobs>>

-----------------------------------------------------------------------------
(* Saving: every control writes the whole draft.                              *)

BeginJob(by, draft) ==
    /\ jobs < MaxJobs /\ jobs' = jobs + 1
    /\ job' = [op |-> "save", by |-> by, draft |-> draft, phase |-> "sent", here |-> TRUE,
               old |-> behind]

HandleRemove(u) ==
    /\ dialog.kind = "none" /\ u \in SubscriptionList \cup ManualList
    /\ BeginJob("list", [Draft EXCEPT !.urls = @ \ {u}])
    /\ UNCHANGED <<proxyPage, settings, settingsState, settingsReads, statsRead, egressDraft,
                   egressBusy, dialog, check, serverSettings, behind>>

HandleInsertDirectChange ==
    /\ OptionsOffered /\ dialog.kind = "none"
    /\ BeginJob("list", [Draft EXCEPT !.insertDirect = ~@])
    /\ UNCHANGED <<proxyPage, settings, settingsState, settingsReads, statsRead, egressDraft,
                   egressBusy, dialog, check, serverSettings, behind>>

\* The egress URL is typed; nothing is saved.
TypeEgressUrl(u) ==
    /\ EgressInputOffered /\ dialog.kind = "none" /\ u # egressDraft.url
    /\ egressDraft' = [egressDraft EXCEPT !.url = u]
    /\ UNCHANGED <<proxyPage, settings, settingsState, settingsReads, statsRead, job, egressBusy,
                   dialog, check, serverSettings, jobs, behind>>

\* handleToggleEgress: a URL is needed to enable, and is checked before anything is sent.
HandleToggleEgress ==
    LET next == ~egressDraft.enabled IN
    /\ EgressSwitchOffered /\ dialog.kind = "none"
    /\ next => egressDraft.url # "empty"
    /\ IF next /\ egressDraft.url = "invalid"
       THEN egressDraft' = [egressDraft EXCEPT !.enabled = FALSE] /\ UNCHANGED <<job, jobs, egressBusy>>
       ELSE /\ egressDraft' = [egressDraft EXCEPT !.enabled = next]
            /\ egressBusy' = TRUE
            /\ BeginJob("egress", [Draft EXCEPT !.egressEnabled = next,
                                                !.egressUrl = egressDraft.url])
    /\ UNCHANGED <<proxyPage, settings, settingsState, settingsReads, statsRead, dialog, check,
                   serverSettings, behind>>

\* revalidateForwardProxy: the server refreshes its subscriptions; the settings stay.
RevalidateForwardProxy ==
    /\ SummaryPanel /\ jobs < MaxJobs
    /\ jobs' = jobs + 1
    /\ job' = [op |-> "revalidate", phase |-> "sent"]
    /\ UNCHANGED <<proxyPage, settings, settingsState, settingsReads, statsRead, egressDraft,
                   egressBusy, dialog, check, serverSettings, behind>>

ServerWrites ==
    /\ job.op = "save" /\ job.phase = "sent"
    /\ serverSettings' = job.draft
    /\ job' = [job EXCEPT !.phase = "written"]
    /\ settingsReads' = {[r EXCEPT !.stale = (r.seen # NoSettings)] : r \in settingsReads}
    /\ UNCHANGED <<proxyPage, settings, settingsState, statsRead, egressDraft, egressBusy, dialog,
                   check, jobs, behind>>

\* Mutant: the answer of a save is not shown.
JobAnsweredUnshown ==
    /\ job # NoJob /\ job.phase \in {"written", "sent"}
    /\ job.op = "save" => job.phase = "written"
    /\ settingsState' = "ready" /\ job' = [job EXCEPT !.phase = "stats"] /\ ReadStats("job")
    /\ behind' = FALSE
    /\ UNCHANGED <<proxyPage, settings, settingsReads, egressDraft, egressBusy, dialog, check,
                   serverSettings, jobs>>

\* The answer holds the settings that were saved: they are shown, and the statistics are
\* read again before the job ends.
JobAnswered ==
    /\ job # NoJob /\ job.phase = (IF job.op = "save" THEN "written" ELSE "sent")
    /\ ShowSettings(IF job.op = "save" THEN job.draft ELSE serverSettings)
    /\ settingsState' = "ready"
    /\ job' = [job EXCEPT !.phase = "stats"]
    /\ ReadStats("job") /\ behind' = FALSE
    /\ UNCHANGED <<proxyPage, settingsReads, egressBusy, dialog, check, serverSettings, jobs>>

\* The stream breaks, or carries an error, before or after the server has written.
JobFails ==
    /\ job # NoJob /\ job.phase # "stats"
    /\ job' = NoJob
    /\ behind' = (behind \/ job.phase = "written")
    /\ egressDraft' = IF job.op = "save" /\ job.by = "egress" /\ job.here
                      THEN [egressDraft EXCEPT !.enabled = ~job.draft.egressEnabled]
                      ELSE egressDraft
    /\ UNCHANGED <<proxyPage, settings, settingsState, settingsReads, statsRead, egressBusy,
                   dialog, check, serverSettings, jobs>>

-----------------------------------------------------------------------------
(* The add dialog.                                                            *)

OpenDialog(kind) ==
    /\ AddOffered /\ dialog.kind = "none"
    /\ dialog' = [Closed EXCEPT !.kind = kind] /\ check' = {}
    /\ UNCHANGED <<proxyPage, settings, settingsState, settingsReads, statsRead, job, egressDraft,
                   egressBusy, serverSettings, jobs, behind>>

CloseProxyDialog ==
    /\ dialog.kind # "none" /\ ~ControlsDisabled
    /\ dialog' = Closed /\ check' = {}
    /\ UNCHANGED <<proxyPage, settings, settingsState, settingsReads, statsRead, job, egressDraft,
                   egressBusy, serverSettings, jobs, behind>>

\* The input is never disabled: typing empties the results, and leaves a validation running.
TypeInDialog(us) ==
    /\ dialog.kind # "none" /\ us # dialog.input
    /\ IF dialog.kind = "manual" THEN us \subseteq ManualUrl
       ELSE us \subseteq SubscriptionUrl /\ Cardinality(us) <= 1
    /\ dialog' = [dialog EXCEPT !.input = us, !.validated = {}, !.ok = {}, !.live = FALSE,
                                !.typedOver = @ \/ dialog.validating \/ ControlsDisabled]
    /\ UNCHANGED <<proxyPage, settings, settingsState, settingsReads, statsRead, job, egressDraft,
                   egressBusy, check, serverSettings, jobs, behind>>

HandleValidateDialog ==
    /\ "validate" \in ProxyDialogOffers
    /\ IF dialog.input = {} THEN dialog' = [dialog EXCEPT !.validated = {}, !.ok = {}] /\ UNCHANGED check
       ELSE /\ dialog' = [dialog EXCEPT !.validating = TRUE, !.live = FALSE]
            /\ check' = dialog.input
    /\ UNCHANGED <<proxyPage, settings, settingsState, settingsReads, statsRead, job, egressDraft,
                   egressBusy, serverSettings, jobs, behind>>

\* A node of the subscription under validation answers on the stream.
LiveNodeAnswers ==
    /\ check # {} /\ dialog.kind = "subscription"
    /\ dialog' = [dialog EXCEPT !.live = TRUE]
    /\ UNCHANGED <<proxyPage, settings, settingsState, settingsReads, statsRead, job, egressDraft,
                   egressBusy, check, serverSettings, jobs, behind>>

\* The validation returns: its results, whatever the input is by now.  A request that fails
\* gives its URL the verdict "not ok".
ValidationReturns(ok) ==
    /\ check # {} /\ ok \subseteq check
    /\ dialog' = [dialog EXCEPT !.validated = check, !.ok = ok, !.validating = FALSE]
    /\ check' = {}
    /\ UNCHANGED <<proxyPage, settings, settingsState, settingsReads, statsRead, job, egressDraft,
                   egressBusy, serverSettings, jobs, behind>>

CancelDialogValidation ==
    /\ "cancel" \in ProxyDialogOffers
    /\ dialog' = [dialog EXCEPT !.validating = FALSE, !.validated = {},
                                !.ok = {}, !.live = FALSE]
    /\ check' = {}
    /\ UNCHANGED <<proxyPage, settings, settingsState, settingsReads, statsRead, job, egressDraft,
                   egressBusy, serverSettings, jobs, behind>>

\* Adding a subscription stops a validation that still runs.
HandleAddSubscription ==
    /\ "addSubscription" \in ProxyDialogOffers
    /\ \E u \in SubscriptionCandidate : BeginJob("batch", [Draft EXCEPT !.urls = @ \cup {u}])
    /\ dialog' = [dialog EXCEPT !.validating = FALSE]
    /\ check' = {}
    /\ UNCHANGED <<proxyPage, settings, settingsState, settingsReads, statsRead, egressDraft,
                   egressBusy, serverSettings, behind>>

HandleAddManualBatch ==
    /\ "addBatch" \in ProxyDialogOffers
    /\ BeginJob("batch", [Draft EXCEPT !.urls = ManualBatch])
    /\ UNCHANGED <<proxyPage, settings, settingsState, settingsReads, statsRead, egressDraft,
                   egressBusy, dialog, check, serverSettings, behind>>

HandleAddManualEntry(u) ==
    /\ ProxyRowOffers(u)
    /\ BeginJob("entry", [Draft EXCEPT !.urls = @ \cup {u}])
    /\ UNCHANGED <<proxyPage, settings, settingsState, settingsReads, statsRead, egressDraft,
                   egressBusy, dialog, check, serverSettings, behind>>

-----------------------------------------------------------------------------
JobSteps == ServerWrites \/ JobAnswered \/ JobFails
ProxyAnswers ==
    \/ \E r \in settingsReads : ServerReads(r) \/ \E ok \in BOOLEAN : SettingsAnswered(r, ok)
    \/ StatsAnswered
    \/ JobSteps

ProxyNext ==
    \/ OpenProxyPage \/ LeaveProxyPage \/ RefreshProxyPage \/ StatsTick
    \/ \E u \in Url : HandleRemove(u)
    \/ HandleInsertDirectChange
    \/ \E u \in EgressUrl : TypeEgressUrl(u)
    \/ HandleToggleEgress \/ RevalidateForwardProxy
    \/ \E kind \in {"subscription", "manual"} : OpenDialog(kind)
    \/ CloseProxyDialog \/ \E us \in SUBSET Url : TypeInDialog(us)
    \/ HandleValidateDialog \/ LiveNodeAnswers \/ CancelDialogValidation
    \/ \E ok \in SUBSET Url : ValidationReturns(ok)
    \/ HandleAddSubscription \/ HandleAddManualBatch \/ \E u \in Url : HandleAddManualEntry(u)
    \/ ProxyAnswers

ProxySpec == ProxyInit /\ [][ProxyNext]_proxyVars

-----------------------------------------------------------------------------
\* A save changes one thing: what it sends differs from what the server holds in one field,
\* unless the page had fallen behind: it showed an answer older than a save, or a save whose
\* answer was lost (saveForwardProxySettings writes the whole record it was given).
SaveEditsOneField ==
    job.op = "save" /\ job.phase = "sent" /\ ~job.old =>
        Cardinality({f \in {"urls", "insertDirect", "egressEnabled"} :
                       job.draft[f] # serverSettings[f]}) <= 1

\* The dialog spins exactly while a validation runs: abort, unmount and cancel leave neither
\* a spinner without a request nor a request that may still fill the dialog.
SpinsWhileValidating == dialog.validating <=> check # {}

\* What the dialog would add was typed in it, unless the input was changed while a
\* validation of the input before ran.
AddsWhatIsTyped == ~dialog.typedOver => dialog.validated \subseteq dialog.input
=============================================================================
