---------------------------- MODULE MCDetailPages ----------------------------
(***************************************************************************)
(* The pages of one token (web/src/pages/TokenDetail.tsx) and of one key    *)
(* (AdminDashboard.tsx, KeyDetails) and the table of request records on     *)
(* small instances.                                                         *)
(*                                                                          *)
(* As in MCAdminTab, the parts have no variable in common, and a behaviour  *)
(* is about one of them.                                                    *)
(***************************************************************************)
EXTENDS TokenLogs, TokenUsage, TokenRotation, UsageDates, KeyDetails, KeyLogs, LogBodies

VARIABLE focus   \* the part this behaviour is about

PagePart == {"token logs", "usage", "rotation", "dates", "key", "key logs", "bodies"}
pagesVars == <<focus, tokenLogVars, usageVars, rotationVars, dateSample, keyVars, keyLogVars,
              bodyVars>>

-----------------------------------------------------------------------------
(* Values of constants.                                                       *)

MCQuick == {DefaultQuickFilters, [billing |-> "billable", protocol |-> "all"]}
\* The first and last days of the years 2018 to 2030 and days around the quarters.
MCDays == {365 * y + q * 73 + k + y \div 4 : y \in 48 .. 60, q \in 0 .. 4, k \in 0 .. 15}
MCZones == {-9, 11}

-----------------------------------------------------------------------------
\* A part the behaviour is not about has one initial state.
Waits(part, state) == focus = part \/ state

PagesInit ==
    /\ focus \in PagePart
    /\ TokenLogInit /\ Waits("token logs", loggedKinds = {} /\ logView.window = CHOOSE w \in LogWindow : TRUE)
    /\ UsageInit /\ RotationInit
    /\ IF focus = "dates" THEN DateInit ELSE dateSample = NoDate
    /\ KeyInit /\ Waits("key", ~quarantined /\ keyView.window = CHOOSE w \in KeyWindow : TRUE)
    /\ KeyLogInit /\ Waits("key logs", keyLogKinds = {} /\ keyLogView.window = CHOOSE w \in KeyLogWindow : TRUE)
    /\ BodyInit /\ Waits("bodies", listedLogs = {})

PagesNext ==
    /\ UNCHANGED <<focus, dateSample>>
    /\ IF focus = "token logs" THEN TokenLogNext ELSE UNCHANGED tokenLogVars
    /\ IF focus = "usage" THEN UsageNext ELSE UNCHANGED usageVars
    /\ IF focus = "rotation" THEN RotationNext ELSE UNCHANGED rotationVars
    /\ IF focus = "key" THEN KeyNext ELSE UNCHANGED keyVars
    /\ IF focus = "key logs" THEN KeyLogNext ELSE UNCHANGED keyLogVars
    /\ IF focus = "bodies" THEN BodyNext ELSE UNCHANGED bodyVars

PagesSpec == PagesInit /\ [][PagesNext]_pagesVars

\* Every part keeps to its types.
PagesTypeOK ==
    CASE focus = "token logs" -> TokenLogTypeOK
      [] focus = "usage" -> UsageTypeOK
      [] focus = "rotation" -> RotationTypeOK
      [] focus = "dates" -> DateTypeOK
      [] focus = "key" -> KeyTypeOK
      [] focus = "key logs" -> KeyLogTypeOK
      [] focus = "bodies" -> BodyTypeOK

-----------------------------------------------------------------------------
(* What the pages promise, across the parts that promise the same.            *)

\* A table of request records holds what its window and filters ask for, whichever answers are
\* late; rows a token's page asks for again because the kinds on record changed are of the kinds
\* its quick filter then stood for, and of those it stands for now unless the kinds changed again
\* before the rows came.  The bodies shown are of records in the table.
TablesOfFilters == LogsOfFilters /\ TickedIsAsked /\ KeyLogsOfFilters /\ BodiesOfList

\* Cards, charts and panels are of the period, the window and the page on the screen, but for the
\* panels of a key that an operation loads for the window and page of a click before these; and a
\* period, its input and the bars of its chart stand for the same days.
PanelsOfWindow == UsageOfWindow /\ PanelsOfQuery /\ ClearedIsSeen /\ WindowOfInput /\ BarsCoverWindow
=============================================================================
