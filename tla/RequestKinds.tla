---------------------------- MODULE RequestKinds ----------------------------
(***************************************************************************)
(* Request kinds of the log filters (web/src/tokenLogRequestKinds.ts): the  *)
(* catalogue, the canonical key of a recorded kind, and how the quick       *)
(* filters (paid or free, API or MCP) and the ticked kinds determine each   *)
(* other.  Selections are sets of keys: the code compares them without      *)
(* their order.                                                             *)
(***************************************************************************)
EXTENDS Integers, FiniteSets

Billing == {"billable", "non_billable"}
Protocol == {"api", "mcp"}
QuickFilter == [billing : Billing \cup {"all"}, protocol : Protocol \cup {"all"}]
DefaultQuickFilters == [billing |-> "all", protocol |-> "all"]

\* canonicalTokenLogRequestKindOptions, by group.
BillableApi == {"api:crawl", "api:extract", "api:map", "api:research", "api:search"}
FreeApi == {"api:research-result", "api:unknown-path", "api:usage"}
BillableMcp == {"mcp:batch", "mcp:crawl", "mcp:extract", "mcp:map", "mcp:research", "mcp:search"}
FreeMcp == {"mcp:initialize", "mcp:notifications/initialized", "mcp:ping", "mcp:prompts/list",
            "mcp:resources/list", "mcp:resources/templates/list", "mcp:third-party-tool",
            "mcp:tools/list", "mcp:unknown-method", "mcp:unknown-payload",
            "mcp:unsupported-path"}
CanonicalKind == BillableApi \cup FreeApi \cup BillableMcp \cup FreeMcp

BillingGroup(key) ==
    IF key \in BillableApi \cup BillableMcp THEN "billable" ELSE "non_billable"
ProtocolGroup(key) == IF key \in BillableApi \cup FreeApi THEN "api" ELSE "mcp"

\* Recorded keys outside the catalogue, by the prefix the code looks at.
LegacyKind == [api |-> "api:raw:/x", tool |-> "mcp:tool:x", call |-> "mcp:tools/call",
               root |-> "mcp:raw:/mcp", sub |-> "mcp:raw:/mcp/x", raw |-> "mcp:raw:/x",
               method |-> "mcp:x"]
NormalizeRequestKindSelectionKey(key) ==
    CASE key = LegacyKind.api -> "api:unknown-path"
      [] key = LegacyKind.tool -> "mcp:third-party-tool"
      [] key \in {LegacyKind.call, LegacyKind.root} -> "mcp:unknown-payload"
      [] key = LegacyKind.sub -> "mcp:unsupported-path"
      [] key \in {LegacyKind.raw, LegacyKind.method} -> "mcp:unknown-method"
      [] OTHER -> key
UniqueSelectedRequestKinds(keys) == {NormalizeRequestKindSelectionKey(k) : k \in keys}

\* The kinds the menu lists: the catalogue, what the server names, what is ticked.
MergeRequestKindCatalog(options) == CanonicalKind \cup options
BuildVisibleRequestKindOptions(selected, options) ==
    MergeRequestKindCatalog(options) \cup UniqueSelectedRequestKinds(selected)

HasActiveQuickFilters(q) == q.billing # "all" \/ q.protocol # "all"

BuildQuickFilterSelection(options, q) ==
    IF ~HasActiveQuickFilters(q) THEN {}
    ELSE UniqueSelectedRequestKinds(
             {k \in options : /\ q.billing \in {"all", BillingGroup(k)}
                              /\ q.protocol \in {"all", ProtocolGroup(k)}})

RequestKindSelectionsMatch(a, b) ==
    UniqueSelectedRequestKinds(a) = UniqueSelectedRequestKinds(b)

ToggleRequestKindSelection(selected, key) ==
    LET k == NormalizeRequestKindSelectionKey(key)
        s == UniqueSelectedRequestKinds(selected)
    IN  IF k \in s THEN s \ {k} ELSE s \cup {k}

\* Only a single match counts.
DeriveQuickFilters(selected, options) ==
    LET matches == {q \in QuickFilter \ {DefaultQuickFilters} :
                       RequestKindSelectionsMatch(selected, BuildQuickFilterSelection(options, q))}
    IN  IF selected # {} /\ Cardinality(matches) = 1
        THEN CHOOSE q \in matches : TRUE
        ELSE DefaultQuickFilters

ResolveManualQuickFilters(selected, active, quickSelection, options) ==
    IF RequestKindSelectionsMatch(selected, quickSelection)
    THEN active ELSE DeriveQuickFilters(selected, options)

ResolveEffectiveSelection(selected, active, quickSelection) ==
    UniqueSelectedRequestKinds(IF HasActiveQuickFilters(active) THEN quickSelection ELSE selected)

\* What new options make of an active quick filter.
ResolveOptionsRefresh(options, selected, active, effective, emptyMatch) ==
    LET quickSelection == BuildQuickFilterSelection(options, active)
        hasEmptyMatch == HasActiveQuickFilters(active) /\ quickSelection = {}
        selection == ResolveEffectiveSelection(selected, active, quickSelection)
    IN  [effective |-> selection, emptyMatch |-> hasEmptyMatch,
         changed |-> \/ ~RequestKindSelectionsMatch(selection, effective)
                     \/ hasEmptyMatch # emptyMatch]
=============================================================================
