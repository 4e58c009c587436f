# Formal models of Tavily Hikari

Tavily Hikari is a proxy in front of the Tavily API. Clients present an access
token of the proxy; the proxy picks one of a pool of upstream API keys, forwards
the call, and charges the credits the upstream reports to the *billing subject*
of the token: the user it is bound to, or the token itself. All durable state is
in one SQLite file, which several processes may share. A web front end
(`web/`, React) shows it to administrators, to users and to visitors.

This directory holds TLA+ models of the parts of the proxy and of the front end
where the order of steps matters, TLC runs that check them on small instances, and TLAPS proofs.

## 1. Inventory

Paths are relative to the repository's `src/`.

| component | state | operations | what is hard | what makes it correct |
|---|---|---|---|---|
| billing subject lock (`tavily_proxy/mod.rs`, `store/mod.rs`) | map of in-process mutexes, rows of `quota_subject_locks`, `lease_lost` flag and refresh task per guard | acquire, refresh, give up, drop, release | release is a spawned task; leases expire; crash and cancellation leave rows behind | one guard per subject over all processes; no wait lasts for ever |
| billing of proxied requests (`server/handlers/tavily.rs`, `server/proxy.rs`, `store/mod.rs`) | `auth_token_logs` with `billing_state`, usage buckets, month rows, the handler's locals | lock, replay, precheck, call, record, settle | a crash between record and settle; lost lease; token bound in mid-flight; unlocked snapshot reads | every recorded charge posted once; the precheck sees all earlier charges; quota held |
| quota windows and request limit (`tavily_proxy/mod.rs`) | minute and hour buckets, per-token request buckets | check, charge, snapshot, cleanup | window boundaries, caches of limits | sums cover the window and no more |
| upstream key pool (`store/mod.rs`, `tavily_proxy/mod.rs`) | `api_keys` (status, deleted, last used), `api_key_quarantines` | acquire, mark exhausted, restore, quarantine, clear, delete, disable, sync | answers of concurrent calls change the status in any order | a quarantined or disabled key is never leased; least recently used first |
| key affinity and MCP sessions | `user_primary_api_key_affinity`, `token_primary_api_key_affinity`, `mcp_sessions`, a 30 s cache of token bindings | resolve, rebind, create, touch, revoke | rebinding is several statements; stale cache | one primary key per user; a session keeps its key; rebinding invalidates old sessions |
| research billing | per-key lock, usage before and after the call | probe, call, probe, record | two calls on one key at a time would be billed for each other | the difference is that of one call |
| accounts, OAuth, token binding (`store/mod.rs`, `handlers/user.rs`) | users, `user_token_bindings`, login states, sessions | login, bind, refresh secret, delete | concurrent first logins | a token has one owner |
| schedulers, rollups, retention (`server/schedulers.rs`, `store/mod.rs`) | job rows, rollup tables, old logs | sync quota, roll up, delete | retention against pending charges | counters agree with logs |
| schema migrations | `meta` claims | claim, backfill, finish | processes that start together, crash in mid-migration | applied once |
| forward proxy manager (`forward_proxy.rs`) | nodes, weights, penalties, key affinity to nodes | select, record, probe, subscribe | weights under concurrent results | keys keep their nodes |
| response analysis, credit estimation (`analysis.rs`, `handlers/tavily.rs`) | none | pure functions of JSON | - | input of the models above |
| admin and user API, admin sessions, set-up, repair tools | - | - | - | not modelled |

The front end keeps its state in React hooks of one browser tab. What is hard in
it is the same everywhere: a handler or an effect sends a request, and by the
time the answer comes, or fails to come, the page, the filter, the secret or the
run has changed. Paths are relative to `web/src/`.

| component | state | operations | what makes it correct |
|---|---|---|---|
| lists of the dashboard (`AdminDashboard.tsx`) | query, rows, load state, `AbortController`s | filter, page, refresh, poll, reload after an edit | rows belong to the query; no list loads for ever |
| dashboard feed | overview, signals, versions, stream | stream snapshot, poll, manual refresh | never goes back to older data |
| key import (`ApiKeysValidationDialog.tsx`) | pasted text, rows, run number | validate in chunks, retry, import, close | a key leaves the dialog only when the server has it |
| edits of users, tags, tokens and keys | forms, busy slots, dialogs | load, edit, save, cancel | a form saves to its own subject; what spins is running |
| secret copies (`lib/clipboard.ts`) | cache, warm requests, versions | warm, cancel, copy, rotate | a copy is the current secret |
| routes (`admin/routes.ts`) | address, lists' parameters | navigate, Back, reload | the page is that of the address |
| registration switch, proxy settings (`ForwardProxySettingsModule.tsx`) | settings, jobs, progress, charts | read, save, validate, revalidate | the screen is the server's; a save changes one field |
| broken keys drawer | subject, list, state | open, load all pages, close | it shows its subject's list |
| page of a token (`pages/TokenDetail.tsx`) | filters, window, table, charts, rotation | filter, page, change window, rotate | table and panels of the filters and the window |
| page of a key, request bodies (`AdminDashboard.tsx`, `AdminRecentRequestsPanel.tsx`) | window, panels, table, unfolded rows | load, sync, clear, unfold | the same |
| user console (`UserConsole.tsx`) | page, probes, secrets, guide | probe, reveal, copy | shown with the token it belongs to |
| page before login (`PublicHome.tsx`) | token, storage, records, dialog | load, type, confirm, poll, copy | the same; masked unless asked for |
| plumbing, widgets, texts, stories | - | - | not modelled |

Requests reach the store through `TavilyProxy`. Components share state only
through SQLite and, within a process, through mutexes and caches; there are no
messages between processes. The front end talks to the proxy by HTTP requests
and server-sent events; its parts share the address and, before login,
`localStorage`, and have hooks of their own for the rest.

## 2. Modules

| module | models |
|---|---|
| `SubjectLock` | the billing lock without a clock: mutex, lease row, guard, release. Expiry and loss of a lease may happen at any moment. |
| `QuotaLease` | the same lock with the code's timers; shown to implement `SubjectLock`. |
| `Ledger` | abstract: a charge is recorded, and later posted exactly once. |
| `Billing` | extends `SubjectLock` with requests, pending rows, buckets, month rows, bindings, snapshots, crashes; shown to implement `Ledger` and `SubjectLock`. |
| `KeyPool` | the upstream keys: status, soft deletion, quarantine, and every statement that changes them. |
| `Affinity` | extends `KeyPool` with the primary keys of users and tokens, rebinding, the binding caches and the MCP sessions. |
| `AdminLists` | the paged lists of the dashboard: effects, refresh, polls, aborted and unmanaged requests. |
| `AdminFeed` | stream, polling and loads of the overview, with their version counters. |
| `KeysImport` | the overlay, the dialog and the runs that validate and import keys. |
| `UserEdits`, `TagEdits`, `RowEdits` | the forms of an account, the tag catalogue, the switches and dialogs of rows. |
| `SecretCopy` | cache, warm-up, rotation and the copy buttons. |
| `AdminRoutes` | addresses, the lists they carry, navigation. |
| `Registration`, `ProxySettings` | settings that are read and saved. |
| `ProxyProgress`, `ProxyCharts` | steps of an operation from events; rows, bars and lines of the nodes. |
| `BrokenKeys` | the drawer and its parallel pages. |
| `TokenLogs`, `KeyLogs`, `LogBodies` | request records of a token and of a key, and their bodies. |
| `RequestKinds` | kinds of request, presets and selections (operators). |
| `TokenUsage`, `KeyDetails` | usage window, summary, charts; panels, synchronisation, quarantine. |
| `UsageDates` | calendar arithmetic of the windows (operators, checked over sampled days and zones). |
| `TokenRotation` | regenerating a secret on its page. |
| `ConsoleProbe`, `ConsoleTokens` | probes of a token; its secret in field, guide and copy. |
| `PublicHome`, `HomeAccess` | the token before login, its figures and records; what of it is in clear. |
| `SubjectLockProofs`, `QuotaLeaseProofs`, `BillingProofs`, `AffinityProofs` | theorems and proofs of the server's parts. |
| `AdminListsProofs`, `AdminTabProofs` | of the dashboard: the lists, the drawer and the addresses; then the rest and the tab as a whole. |
| `DetailPagesProofs`, `ConsoleProofs` | of the pages of a token and of a key, and of the pages of a user. |
| `MC*` | small instances for TLC; `MCAdminTab`, `MCDetailPages`, `MCConsole` and `MCWebLive` put the parts of the front end side by side. |

### Correspondence with the code

*A step* is one SQL statement or one transaction, or one `await` on a lock or on
the upstream. Statements of SQLite are atomic, also when the future that awaits
one is dropped: the statement then took effect or did not (`AbandonInsert`).

`SubjectLock`: `local` is `token_billing_locks`; `row` the owner column of
`quota_subject_locks`; `held` the guards (`TokenBillingGuard`) in existence;
`lost` their `lease_lost` flags; `releasing` the tasks spawned by `drop`;
`stolen` is a history variable. One turn of the acquire loop is one
transaction (delete the expired row, insert or ignore): a turn that inserts
nothing is rolled back and changes nothing, so only the turns that insert are
steps. A holder stands for a request and for the owner string of its lease;
owners are assumed to be distinct, as `pid:seq` is within one machine.

`QuotaLease` keeps each stored instant as the number of ticks (seconds, to which
timestamps are cut) left until it. `Tick` lets a second pass. A statement takes
time: `now` and `expires_at` are bound to it before it waits for a connection
(30 s at most, sqlx's default) and for the database (`busy_timeout`, 5 s), so a
refresh is `AskRefresh`, up to `StatementTime` ticks, and `RefreshOk` or
`RefreshFails`, a row is written with what is left of `Ttl` by then (it may even
be written expired), and the retry deadline is looked at only when a statement
has failed. A turn of the acquire loop waits likewise (`age`, `LookAgain`). With
`Prompt`, a task that is due runs before the second is over; its statement may
fail at will. The statement of a refresh that is aborted with its guard is taken
not to commit any more: it could only lengthen the life of a row that the guard's
release did not delete.
`test`-only hooks (`forced_quota_subject_lock_loss_subjects`,
`forced_pending_claim_miss_log_ids`) are left out; with them goes the
`RetryLater` outcome, which a transaction over one row cannot produce.

`Billing` follows `proxy_tavily_http_endpoint`; `proxy_handler` runs the same
steps for the MCP calls it locks for. `req[h]` holds the handler's locals and the
place it has reached:

| `pc` | code |
|---|---|
| `listing` .. `replaying` | `lock_token_billing`: subjects, then for each in string order mutex, row, replay of pending rows |
| `guarded` | `ensure_live` before the precheck |
| `checking`, `resetting` | `peek_token_quota_for_subject`; the reset of an old month row is a statement of its own |
| `upstream` | the proxied call |
| `recording`, `recorded`, `settling` | insert of the pending row, `ensure_live`, `apply_pending_billing_log` |

Any error, refusal, cancellation or disconnect is `Abort`: the request returns
and its guards are dropped. Abstractions: the hourly and daily windows and the
month are one notion of *period*, so a bucket is one per subject and period;
the precheck's reads before the month row are taken as one step, which the lock
justifies when it is kept and on which no property of the other runs depends;
logs, messages and response bodies are left out; a token is bound once and not
unbound; log rows are not deleted.

`KeyPool`: `status`, `deleted`, `quarantined` are the columns and the open rows of
`api_keys` and `api_key_quarantines`; `lastMonth` holds the exhausted keys whose
`status_changed_at` lies before this month, which is all `reset_monthly` asks.
`Affinity` follows `acquire_key_for`, `proxy_request` and the session handling of
`proxy_handler`. A slot is a request being handled; its `pc`:

| `pc` | code |
|---|---|
| `resolving`, `user`, `token` | `find_user_id_by_token`, then the primary key of the user and the row of the token |
| `keep`, `first` | the candidates, in order, then `acquire_active_key_excluding` or `acquire_key`; each lease is `LeaseActive` (reset and first query) and, if that `missed`, `LeaseExhausted` |
| `sync`, `rebind`, `revoke` | `sync_user_primary_api_key_affinity` or `set_token_primary_api_key_affinity`; after a rebinding `revoke_mcp_sessions_for_user` or `..._for_token` |
| `pinned`, `unpin` | the lease of a session's key; `revoke_mcp_session` |
| `upstream`, `opening`, `touching` | the call, `create_mcp_session`, `touch_mcp_session` |

`Abort` and `Crash` cut a request off before any of its statements (`Interrupted`).
Abstractions: which of the keys a query finds is leased is left open (the code
takes the one used least recently), so nothing here depends on `last_used_at`;
the legacy candidate of `user_api_key_bindings` is any key or none; the monthly
reset and the query after it are one step; `sync_keys` is the deletions and
undeletions it makes, one key at a time; a session's expiry is a step that may
happen at any time and that a touch undoes; `update_mcp_session_upstream_identity`
has the same effect as the touch before it; a token is bound once; requests
without a token, which lease without affinity, are left out.

Front end. JavaScript runs a handler to its next `await` without interruption, so
an action is a handler up to its first `await`, or what follows an answer, with
the effects of the render it causes. A request on its way is a record of what it
was asked for; its answer, its failure and its abort are actions that may come at
any time and in any order, and the server may change in between. Data is reduced
to where it comes from: rows are the query they were fetched for, a secret its
version, a figure the token it is of. Timers (debounce, poll, cache) are actions
that may happen at any time. Left out: texts, layout, formatting, sizes.

`PublicHome` and `HomeAccess` are two views of one component that differ in what
they keep of the token: the one where it comes from and what is fetched with it,
the other where it is shown in clear. The token of `HomeAccess` changes freely.

## 3. Runs

| run | instance | checks |
|---|---|---|
| `lease_prompt` | 3 requests, 2 processes, 1 subject; TTL 6, refresh 2, retry 1, acquire 7, statements 2 ticks | `StaleOnlyBriefly`, `ImplementsLock`, `WaitEnds` (liveness) |
| `billing_loss` | 2 requests in 2 processes, token and user, 2 periods, snapshots, leases may be lost | `TypeOK`, `BucketsExact`, `MonthNeverOvercounts`, `SerializedUnlessStolen`, `ChargesUnderGuard`, `KeepsLedger` |
| `billing_kept` | 3 requests in 2 processes, leases kept, 2 periods | `PrecheckSeesAllCharges`, `QuotaHeld`, `MonthExact` |
| `billing_ends` | 3 requests, 2 subjects, fairness | `RequestsEnd` (liveness) |
| `billing_snapshot` | 2 requests, snapshots | violation of `MonthExact` |
| `affinity_races` | 2 requests in a process, 1 session, a token bound at any time, interruptions | `TypeOK`, `RowsAgree`, `ServedByPinnedKey`, `RevokedForGood` |
| `affinity_pool` | 2 slots, the requests of a user one after the other, 2 tokens bound beforehand, 1 session, all operations of the administrator, all effects of answers | `SessionsFollowPrimary`, `UnusableNeedsAdmin` |
| `affinity_late_binding` | 1 request at a time, a token bound in between | violation of `SessionsFollowPrimary` |
| `web_admin` | the 13 parts of the dashboard, 2 or 3 subjects each (0.7 million states) | `TabTypeOK`, `ListsShowQuery`, `BusyIsTrue`, `EditsKeepSubject`, `CopiesAreCurrent`, `PagesOfAddress`, `SettingsAreServers`, `ChartsShowReports`, `NeverGoesBack`, `KeysLeaveToServer` |
| `web_details` | the pages of a token and of a key, 2 kinds, 2 windows, 2 pages, 13 years of dates | `PagesTypeOK`, `TablesOfFilters`, `PanelsOfWindow`, `ShownSecretWorks` |
| `web_console` | console and page before login, 2 tokens; runs that the server advertises no tools to, or some (0.5 million states) | `UserPagesTypeOK`, `ShowsItsToken`, `SecretsAreHeld` |
| `web_live` | 12 parts of the front end, smaller, fairness | `PagesSettle`, `OperationsEnd`, `ListingsSettle`, `RevealsSettle` (liveness) |

The properties of the web runs are conjunctions, named in the `MC` module, of
properties of the parts, each stated and explained in its module.

Bounds. Two processes and two requests in one of them give every combination of
a mutex conflict and a row conflict; a third request adds the one that waits
while the row changes hands. `Subject = {u1, t1}` is the token before and after
it is bound, the only way a request locks two subjects. Each request of
`Billing` runs once (so the system stops: `CHECK_DEADLOCK FALSE`) and `MaxLogs`
is the number of requests, which is not a restriction then. The timers of
`lease_prompt` are the code's 20, 5, 1 and 30 s scaled down, in the same order and
with a TTL longer than several refreshes, since each tick multiplies the states;
statements of two ticks outlast a tick and a pause. The theorem on
`StaleOnlyBriefly` holds for the code's own values. `MaxPeriod = 2`
lets a charge be recorded in one month and settled in the next. `Actual` holds 0
(nothing to bill), the reserved amount and one above it. Timers need no bound:
they count down. In `Affinity` slots take requests without end, so only
`MaxSessions` is bounded; sessions do not act on each other, and two are one
for each token. Two keys are one to leave and one to go to. Keys are symmetric, since
the model prefers none, and so are the two slots.
In `affinity_races` a request may have read the binding of its token before the
token is bound, which is what a stale cache of another process does; that the
property holds with any number of processes is proved.
`affinity_pool` runs `InTurn`: bindings are fixed, no request is cut off, and
requests of one user, or of one token without a user, come one after the other
(`OneAtATime`), while those of others run at the same time. These are the
assumptions under which `SessionsFollowPrimary` holds. `InTurn` also bounds the
pool: one key at most is off, for one reason at a time (`OneKeyOff`), and starts
with one token at least bound. The theorems on both properties have no such bound.

Web runs. A behaviour is about one part (`focus`), and the others keep their
initial state. The parts have no variable in common, so an invariant of one
is violated in their product only if it is violated while that part alone moves;
the product itself would add nothing but states. Two subjects of each kind
(accounts, tags, rows, tokens, windows) are one to leave and one to go to. Two or
three requests on their way (`Max...Requests`, `MaxLoads`, `MaxFetches`,
`MaxRuns`, `MaxJobs`) give every order of an old answer, a new one and an
operation between them. Three pages of broken keys are one that is first and two
that race. `MaxServerVersion`, `MaxSseDrops`, `MaxRotations`, `MaxSecrets` and
`MaxBrokenChanges` bound what the server does meanwhile: one change is a stale
answer. In `AdminRoutes` a `Tour` is a set of routes that lead to each other; each
is explored by itself. `ProxyCharts` and `UsageDates` are pure: each initial
state is an input (all combinations of small reports; the days around quarters
and years from 2018 to 2030 in two time zones of half an hour), compared with a reference definition.
These bounds make the tab stop at times: `CHECK_DEADLOCK FALSE`.

Fairness. `QuotaLease!FairSpec`: time passes, the acquire loop turns, the
refresh task runs, all three tasks of the runtime that nothing disables; and
statements return, with an answer or an error.
`Billing!FairSpec`: a handler that can take a step does. The upstream client has
a timeout and SQLite calls return with an answer or `SQLITE_BUSY`, so a call
does not hang. Mutex waits are not assumed to end: that they do is what
`RequestsEnd` says. `Billing!FairSpec` asks no fairness of releases, refreshes or expiry.

`MCWebLive!WebFairness`: a browser settles every request it sends, with an answer
or with an error, and what the code does then is part of that step. Nothing is
asked of clicks, timers, the stream and the server. Two liveness properties say
what they need besides: `DrawerSettles` that no other count is clicked for ever,
`LogsSettle` and `KeyLogsEnd` that the kinds on record stop changing, since each
change may ask for the page again. For the dashboard feed the run assumes that
an answer comes within the 30 s of the polling interval (`LiveFeedNext`).

`LeasesKept` (runs `billing_kept`, `billing_ends`, `billing_snapshot`) states that a live guard's
row does not expire: its refresh task succeeded at least once per TTL. Without
it two requests may both pass the precheck; the properties of `billing_loss` do
not need it.

### Findings

* `billing_snapshot`: `fetch_monthly_count` and `fetch_account_monthly_count`
  reset the month row with an unconditional `UPDATE` after reading it. A
  snapshot without the lock, described as read-only, can erase the first
  charges of a month from the monthly count.
* `affinity_late_binding`: binding a token makes its next request rebind, even
  when its key is usable, and leaves its sessions on the old key, because rows
  and sessions made before the binding have no user. No failure and no
  concurrency is needed.
  With `LateBinding` off, `SessionsFollowPrimary` is also violated by two requests of a user
  at a time (two first requests choose a key each, and the session of the one
  that is overwritten stays) and with `Interrupted` on (a request cut off
  between the rebinding and the revocation leaves old sessions for good).

Seen while modelling, without a run of their own. The properties above say in
their definitions where they make an exception for one of these.

* Lease: `expires_at` is computed before the statement that writes it waits
  (`store/mod.rs:10507`, `10560`), and the retry deadline is looked at only after a
  failed statement has returned (`tavily_proxy/mod.rs:116-124`). So a guard can say
  that it is live while another process has its row: for twice the wait of a
  statement and a pause less a second, which `StaleOnlyBriefly` shows is the most.
  With `busy_timeout` alone (5 s) that is 10 s, more if the pool is exhausted.
* Affinity: a lease by two queries misses a key that is restored between them, so
  that a usable key is given up (`store/mod.rs:5368`).
* `AdminDashboard.tsx`: a save of one account that ends on the page of another
  puts the first one's values into its form (5269); the synchronisation of a key
  reloads the period of the click (10825); the navigation to the keys writes a
  bare address and keeps the filtered list (3647); a refresh of the requests, when
  the preset matches no kind, asks for all kinds (3976; `RefreshedForAllKinds`), and
  one of the users leaves `usersQueryKeyRef` behind, so that the rows of another query
  stay under a query that had been loaded before (4033; `RefreshedBehindKey`); two
  switches, or two cleared quarantines, share one busy slot, so that the first to
  end takes the sign of the other away (5726-5738; `AloneHoldsSlot` is about those
  that no other overlaps);
  the tabs of the jobs keep the page number (9113); reloads after an edit are
  not aborted, so the keys list may say "nothing here" of another query
  (5215-5268; `ReadyEmptyIsEmpty` excepts them); completion handlers close a dialog opened
  meanwhile (5764-5866); the registration setting may be read and saved at the
  same time (3285, 5235).
  The count of broken keys is clickable on the page of a user and of the usage
  lists (6687, 7220, 7297, 7579, 7667), but the drawer it opens is drawn on the
  module pages only (9735; `DrawerDrawn` of `BrokenKeys`), although
  `docs/specs/ksbxf-monthly-broken-key-attribution/SPEC.md` has it opened there.
* `TokenDetail.tsx`: when the kinds on record change, the page of the table is asked
  for again with the kinds the preset stands for now (949). If they change once
  more before that answer, a later page shows the rows of the older kinds for good,
  since only the first page is loaded anew by an effect (`LogsOfFilters`, the
  rows that `moved`). The page asked for is that of the closure of the effect
  (981), not of the state. A resync that fails leaves the table saying that it
  refreshes (1012); it does not block it, and `LogsBlocking` does not count it.
* `ForwardProxySettingsModule.tsx`: the progress of the egress check is never reset
  (1678); a save that breaks off leaves a step spinning (1811); a stale read of the
  settings is written back by the next save, which sends the whole record.
* `UserConsole.tsx`: an aborted load shows an error (1065); the pointer that leaves
  aborts a reveal that the guide had joined (1178).
* `PublicHome.tsx`: the load of the page asks for the records of the token it began
  with (194) although another may be in the box by then; the later answer wins,
  and nothing corrects it (the figures are corrected by the poll). The same with two
  tokens accepted one after the other (379, 390). `RecordsOfToken` is about tokens
  accepted when no such records were to come (`crossed`). A failed
  copy puts its token back into the box without persisting it (326), and shows it
  in clear (329) also when the dialog it was started from has been closed, against
  the comment in `openTokenAccessDialog`; `ClearOnlyIfAsked` excepts it (`lateCopy`).

## 4. Proofs

Proved by TLAPS for all values of the constants that satisfy the `ASSUME`s of the
modules, which TLC evaluates on each run. They say that constants are what their
names say (every request has a process and a token; subjects are tokens and
users; `Rank` is injective; a value that stands for "none" is none of the others;
bounds are naturals, sizes of chunks and pages positive). Those that say more:

* `CreditsAssumption`: there is a largest cost of a response (credits are `i64`),
  which is what `QuotaHeld` lets the recorded credits pass the limit by.
* `ProbeConstants`: no tool has the name of another step of the connectivity check.
  The bubble keys its items by these names; the code puts a prefix before a tool's.
* `AdminRoutesConstants`: no route's own word ("tags", "new", ...) is an account's,
  token's or key's identifier; identifiers are generated. `FacetsAssumption`: the
  facets the server offers have no blank status or region.
* `ImportConstants` and `ProgressConstants`: finitely many keys are pasted, and
  finitely many candidates validated.
* `ProxyChartsConstants`: finitely many nodes, named in an order; weights are
  integers and there is a largest count (counts are `i64`).

Every theorem has one shape: an invariant with what the property needs of other
state, a proof that the initial states have it, one lemma for each action (or
each group of actions that changes the same variables) that keeps it, and that
it implies the property, which the runs check on their instances.

**Lock.** `SubjectLockProofs`: `LockInv` is `LockTypeOK`, `MutexHeld` (who tries or
holds has the mutex), `OneStage` (a holder is not trying, holding and releasing
one subject at once) and `GuardOwnsRow`. `GuardOwnsRow` alone is not inductive: a
late `Release` of a holder that has locked the subject again would delete its own
new row, which `OneStage` excludes. Theorems `LockTypeCorrect`, `GuardsOwnRows`,
`Serialization`.

`QuotaLeaseProofs`: `LeaseImplementsLock` maps each step of the lock with timers to a
step of `SubjectLock` or to none; the expired rows are those with no time left
(`Expired`), so `Tick` is a step that lets rows expire, and statements that find a
row expired are the steps with a stolen row. `LeaseSerialized` follows from
`Serialization` through the mapping. `GuardsAreStaleBriefly` needs `TimelyInv`: while a
guard says that it is live (`OnTime`), its row, if it has one, is ahead of the
sleeping task by `Ttl - RefreshEvery` and level with the retry deadline while the
task retries, but for what a statement may wait; and if it has none, the ticks it
has been without (`bare`) and those left to the deadline are no more than that
wait, or, once the deadline has passed, than the wait, a pause and the age of the
attempt under way. It assumes `CodeTimers` (a TTL no shorter than a refresh
interval and a pause, as 20, 5 and 1 seconds are) and `Prompt`.

**Billing.** `BillingInv` is `TypeOK`, `RequestOK` (what the locals satisfy at each `pc`: the
subject being locked is in `todo`, the row being settled exists) and
`RowIdsInOrder`. `BillingLocks` and `LedgerStep` map each step to a step of
`SubjectLock` and of `Ledger` (`BillingImplementsLock`, `BillingSerialized`,
`BillingImplementsLedger`). On it rest, each with what it adds:

| theorem | inductive with | assumes |
|---|---|---|
| `BucketsAddUp`, `MonthsNeverOvercount` | what a charge does to the sum of the rows | - |
| `ChargesAreGuarded` | `GuardInv`: the guards a request holds, and the rows it is about to charge, are those of its `pc` and `todo` | - |
| `PrecheckIsComplete` | `KeptInv` (no lease is lost, so by `OneGuard` a subject has one guard over all processes), `ClearedInv` (no pending row of the subjects whose replay is over) | `LeasesKept` |
| `QuotaIsHeld` | `RoomInv`: an admitted request still has room for what it announced (`Admitted`), and no row is of a later period | `LeasesKept` |
| `MonthsAddUp` | `MonthInv`: the row of a month is as late as every charge (`MonthIsLatest`), and a reset that is under way is still due (`ResetIsDue`) | `LeasesKept`, no unlocked snapshot |

The last two assumptions are needed: the run `billing_snapshot` violates `MonthExact`,
and with leases lost two requests pass one precheck. Sums over rows are
sums over finite sets; what a charge adds to one, and that a sum is monotonic,
is proved by taking a smallest counterexample (`WFMin`), not by induction over an
operator.

**Keys and sessions.** `AffinityInv` is `TypeOK`, `RequestOK` (what the locals satisfy at
each `pc`, and that a request of a session has the session's key and token),
`RowsAgree`, `RowsNameBinding` and `ResetsExhausted`. `RowsAgree` alone is not
inductive: synchronizing a user reaches the rows of the tokens *bound* to it,
so a row that names a user must belong to a token bound to that user
(`RowsNameBinding`). `UnusableNeedsAdmin` needs `ResetsExhausted`: what the monthly
reset makes active was exhausted and not disabled, also when the status changed
after the month began. Its `AdminStep` is a step of the administrator on the key in which no
request, session, row or cache moves, so the answer of a request that restores a
disabled key, and the reset at the start of a lease, are no such steps.
Theorems `AffinityTypeCorrect`, `PrimaryKeysAgree`,
`SessionsKeepKeys`, `UnusableStays`, `RevokedStays`.

`SessionsMoveWithPrimary` assumes no interruption, no late binding, and a behaviour in
which requests of one user, or of one token without a user, come one after the
other (`[]OneAtATime`); any number of requests of others interleave with them, in any
number of processes. A session is exempt only while a request of its token or of
the token's user is being handled. Its `OrderInv` adds that caches are those of the bindings
(`CacheFresh`), that a user and its tokens have one primary key
(`KeysShared`), that a session names the user of its token (`SessionsOwned`), that
what a request has read of the rows is still so (`ReadsHold`), and that a session on
another key is about to be revoked by the request that moved the primary
(`SessionsFollow`). A step of another user's request leaves that witness in place, because
it shares no token, row or session with it.
None of the three can be dropped (section 3, findings).

**Dashboard.** The parts of the tab have no variable in common, so `TabInv` is the
conjunction of an invariant of each part, and a step of one leaves the others.

| part | invariant | why the property alone is not inductive |
|---|---|---|
| feed | `FeedInv` | what a load has read is no older than what it replaces, and one at most may set each figure |
| account, tags | `UserInv`, `TagInv` | the only load not aborted is of the page's account; the form is that of the account in state, which is the page's, or that of a save that returned here (`overwritten`) |
| secrets | `SecretInv` | a request has read nothing older than the version it was sent under (`ReadsAreTimed`), the promise held is that of a request on its way (`PromiseIsKept`), copies wait for one that nobody aborts (`CopiesAreAdopted`) |
| registration | `RegInv` | a read on its way holds the switch |
| rows | `RowInv` | of deletions, notes and new tokens one runs at a time, and a handler that no other of its slot overlapped is alone in it (`RunsAlone`) |
| import | `ImportInv` | the counters of runs order answers (`RunsInOrder`), keys an import counts as done are on the server (`ServerHas`) |
| proxy settings | `ProxyInv` | what is shown is the server's but for a save just written; the draft of a save differs from it in one field (`JobTrue`) |
| progress | `ProgressInv` | steps have different keys, and one at most runs |
| lists | `ListInv` | a request still wanted asks for the query on the screen, but for the page of the keys and the refresh without kinds (`RequestIsOf`); the key of the last load tells the query of the rows apart from every other (`LoadedKeyOf`) |
| broken keys | `BrokenInv` | pages collected so far are pages of the drawer's subject and, while no key breaks, of its list |
| routes | `RouteInv` | a page carries in its address the list it was opened from, as that list was shown (`LeadsBack`) |
| charts | `ChartInv` | they have no steps: a sample is one of `ChartInit` |

The charts are functions of what the server reports, and most of their proof is
that the functions return something. The rows of `NodeRows` exist since the place
of an element in a finite strict order is one more than the number of those before
it (`ListInOrder`), and `RowBefore` is such an order of all nodes (`RowsAreOrdered`).
The recursion of `NormalizeWeightBuckets` is solved by the last report up to each
bucket (`LastWeightCarries`), and only by it (`WeightsAreLast`). Failures of the buckets
are those of the reports that fall on one, summed up to each bucket in turn
(`FailuresCounted`). A bar is shrunk only when the smaller one is at its least pixel,
so what does not fit comes off the larger alone (`BarHeights`).

Theorems `EditsKeepTheirSubject`, `CopiesStayCurrent`, `FeedNeverGoesBack`,
`ListsFollowQuery`, `WhatSpinsIsRunning`, `SettingsFollowServer`, `PagesFollowAddress`,
`ChartsFollowReports`, `ImportLosesNoKey`, `TabTypeCorrect`.

**Pages of a token and of a key.** `PagesInv` has `RotationInv` (an answered rotation carries
the secret that works, one rotation runs at a time, nothing can make the secret
old behind the dialog), `TokenLogInv`, `KeyLogInv` and `BodyInv` (requests and
ticks are of the filters on the screen), `UsageInv` and `KeyInv`. The properties of
dates have no behaviour: calendar arithmetic is proved for every day, period and
offset of a time zone, where the run samples them. Theorems `RotatedSecretWorks`,
`TablesFollowFilters`, `PanelsFollowWindow`, `PagesTypeCorrect`.

**Pages of a user.** `UserPagesInv` has `ProbeInv` (at most one run has not been passed by
another; it is of the token of the page, has always a step left, and knows that
the quota is spent when it leaves calls out), `ConsoleInv` (what is in play is of
tokens the page may have; a copy holds the request it waits for), `HomeInv` (a token
accepted when no records of another were to come gets only its own from then on)
and `AccessInv`. Theorems `PageShowsItsToken`, `SecretsStayHeld`, `UserPagesTypeCorrect`.

Only model-checked: liveness (`WaitEnds`, `RequestsEnd`, the run `web_live`), which this
prover does not reach. Every invariant and every action property of the passing
runs is stated by a theorem.

## 5. Not modelled, and the plan

* Response analysis, credit estimation, statistics, the HTTP APIs, admin sessions:
  pure functions, derived data, or a statement per handler. Inputs of the models.
* The minute and hour buckets behind *period*: the windows of the code start a
  whole bucket early by design.
* Research billing, retention and rollup jobs, migrations, first logins.
* The weights of the forward proxy manager are floating point numbers.
* Of the front end: typed wrappers of `fetch` (`api.ts`, but for its progress
  stream), translations, theme, layout, widgets, stories and tests; the contents
  of the dashboard's cards; the text of pasted keys; on the page before login the
  quota cards, the error banner and the login form.
* `LogRow` and `LogDetails` in `AdminDashboard.tsx` (10289-10486) are not used.

Next, most important first: research billing under `lock_research_key_usage`;
retention against pending charges, as an action of `Billing`; ownership of tokens
under concurrent first logins; the claim of the billing backfill; two containers
with the same owner string.
