---------------------------- MODULE ProxyCharts ----------------------------
(***************************************************************************)
(* Rows and charts of the proxy nodes (web/src/admin/ForwardProxySettings-  *)
(* Module.tsx, and the same charts in web/src/admin/KeyStickyPanels.tsx):   *)
(* how the nodes of the settings and of the statistics are merged and       *)
(* ordered, how the reported buckets are laid on the buckets of the range,  *)
(* and how bars and weight lines are scaled into cells 40 pixels high.      *)
(* Times are counted in half buckets from the start of the range, so that a *)
(* report can miss a bucket.  Heights are exact: a bar in units of          *)
(* 1/scaleMax pixel, a point of the line in units of 1/span pixel.          *)
(***************************************************************************)
EXTENDS Integers, Sequences, FiniteSets

SetOps == INSTANCE FiniteSetsExt

CONSTANTS
    NodeKey,        \* nodes
    ChartKind,      \* what a node can be: records of source, penalized, available and weight
    ReportTick,     \* start times of the reported buckets
    ReportCount,    \* requests that succeeded or failed in a bucket
    ReportWeight,   \* weights
    BucketCount     \* buckets of the range
ASSUME ProxyChartsConstants ==
    /\ NodeKey \subseteq Nat /\ IsFiniteSet(NodeKey)
    /\ \A n \in ChartKind : n.penalized \in BOOLEAN /\ n.weight \in Int
    /\ ReportTick \subseteq Int /\ ReportWeight \subseteq Int /\ BucketCount \in Nat \ {0}
    \* Counts are i64: there is a largest.
    /\ ReportCount \subseteq Nat /\ \E most \in ReportCount : \A c \in ReportCount : c <= most

\* What the server reported: nodes, or the buckets of one node beside those of another.
VARIABLE chartSample
chartVars == <<chartSample>>

NoNode == [source |-> "none", penalized |-> FALSE, available |-> FALSE, weight |-> 0]
CellHeight == 40
Bucket == 0 .. BucketCount - 1
Larger(a, b) == IF a > b THEN a ELSE b
Smaller(a, b) == IF a > b THEN b ELSE a

---------------------------------------------------------------------------
\* buildMergedNodes: the nodes of both, with what the statistics say of those they have.
MergedNodes(settings, stats) ==
    [k \in {x \in NodeKey : settings[x] # NoNode \/ stats[x] # NoNode} |->
        IF stats[k] # NoNode THEN stats[k] ELSE settings[k]]

\* The comparison of two rows; the names of the nodes are ordered like their keys.
RowBefore(nodes, k, l) ==
    LET direct(n) == nodes[n].source = "direct"
        kind(n) == <<direct(n), nodes[n].penalized>>
    IN \/ ~direct(k) /\ direct(l)
       \/ direct(k) = direct(l) /\ ~nodes[k].penalized /\ nodes[l].penalized
       \/ kind(k) = kind(l) /\ nodes[k].weight > nodes[l].weight
       \/ kind(k) = kind(l) /\ nodes[k].weight = nodes[l].weight /\ k < l
\* sort: the comparison leaves one order.
NodeRows(nodes) ==
    CHOOSE rows \in [1 .. Cardinality(DOMAIN nodes) -> DOMAIN nodes] :
        \A i, j \in DOMAIN rows : i < j => RowBefore(nodes, rows[i], rows[j])

GetNodeStateBadge(n) ==
    CASE n.source = "direct" -> "direct"
      [] n.source # "direct" /\ n.penalized -> "penalized"
      [] n.source # "direct" /\ ~n.penalized -> IF n.available THEN "ready" ELSE "unavailable"

\* The panel of the nodes, as cards or as a table: a row for each with its badge.
NodePanel(nodes) ==
    LET rows == NodeRows(nodes)
    IN [i \in DOMAIN rows |-> [node |-> rows[i], badge |-> GetNodeStateBadge(nodes[rows[i]])]]

---------------------------------------------------------------------------
\* Reported buckets on the range.

\* A report counts for the bucket that starts when it does.
NormalizeActivityBuckets(reports) ==
    [i \in Bucket |-> IF 2 * i \in DOMAIN reports THEN reports[2 * i] ELSE [success |-> 0, failure |-> 0]]

\* A bucket without a sample carries on the weight before it, the first ones the present weight.
NormalizeWeightBuckets(reports, fallback) ==
    LET weight[i \in Bucket] ==
            IF 2 * i \in DOMAIN reports THEN reports[2 * i]
            ELSE IF i = 0 THEN fallback ELSE weight[i - 1]
    IN weight

SummarizeActivity(buckets) ==
    [success |-> SetOps!MapThenSumSet(LAMBDA i : buckets[i].success, Bucket),
     failure |-> SetOps!MapThenSumSet(LAMBDA i : buckets[i].failure, Bucket)]

---------------------------------------------------------------------------
\* Bars.

ScaleMax(buckets, others) ==
    SetOps!Max({0} \cup {b[i].success + b[i].failure : i \in Bucket, b \in {buckets, others}})

\* A bar shrinks by what does not fit, to no less than one pixel.
Shrink(value, minVisible, amount) ==
    IF amount <= 0 \/ value <= minVisible THEN [value |-> value, left |-> amount]
    ELSE LET delta == Smaller(value - minVisible, amount) IN [value |-> value - delta, left |-> amount - delta]

\* Mutant: bars too low to be seen are raised without lowering the other.
RaisedBars(success, failure, scaleMax) ==
    LET s == IF success > 0 THEN Larger(success * CellHeight, scaleMax) ELSE 0
        f == IF failure > 0 THEN Larger(failure * CellHeight, scaleMax) ELSE 0
    IN [success |-> s, failure |-> f, empty |-> Larger(scaleMax * CellHeight - s - f, 0)]

\* buildVisibleBarHeights, in units of 1/scaleMax pixel: one pixel is scaleMax.
BuildVisibleBarHeights(success, failure, scaleMax) ==
    IF scaleMax <= 0 THEN [success |-> 0, failure |-> 0, empty |-> CellHeight]
    ELSE LET pixel(n) == IF n > 0 THEN scaleMax ELSE 0
             s0 == IF success > 0 THEN Larger(success * CellHeight, scaleMax) ELSE 0
             f0 == IF failure > 0 THEN Larger(failure * CellHeight, scaleMax) ELSE 0
             room == scaleMax * CellHeight
             s1 == Shrink(s0, pixel(success), s0 + f0 - room)
             f1 == Shrink(f0, pixel(failure), s0 + f0 - room)
             s == IF s0 >= f0 THEN s1.value ELSE Shrink(s0, pixel(success), f1.left).value
             f == IF s0 >= f0 THEN Shrink(f0, pixel(failure), s1.left).value ELSE f1.value
         IN [success |-> s, failure |-> f, empty |-> Larger(room - Smaller(s + f, room), 0)]

\* The request trend of a node, and the credit and activity trends of the key page.
RequestTrendCell(buckets, scaleMax) ==
    [i \in Bucket |-> BuildVisibleBarHeights(buckets[i].success, buckets[i].failure, scaleMax)]

---------------------------------------------------------------------------
\* Weight lines.

\* The scale of all nodes, with eight hundredths of its width, or 0.2, beyond each end; in hundredths.
WeightTrendScale(weights, others) ==
    LET all == {0} \cup {w[i] : i \in Bucket, w \in {weights, others}}
        padding == Larger((SetOps!Max(all) - SetOps!Min(all)) * 8, 20)
    IN [min |-> SetOps!Min(all) * 100 - padding, max |-> SetOps!Max(all) * 100 + padding]

\* buildWeightTrendGeometry: the height of each point and of zero, in units of 1/span pixel.
BuildWeightTrendGeometry(weights, scale) ==
    LET span == scale.max - scale.min
        ratio(w) == Larger(0, Smaller(span, w * 100 - scale.min))
    IN [span |-> span, zeroY |-> CellHeight * span - ratio(0) * CellHeight,
        y |-> [i \in Bucket |-> CellHeight * span - ratio(weights[i]) * CellHeight]]

WeightTrendCell(weights, scale) == BuildWeightTrendGeometry(weights, scale)

---------------------------------------------------------------------------
Reports(values) == UNION {[ticks -> values] : ticks \in SUBSET ReportTick}
ActivityReport == [success : ReportCount, failure : ReportCount]

NoChart == [what |-> "none"]   \* the page is not on the screen
ChartInit ==
    chartSample \in
        [what : {"nodes"}, settings : [NodeKey -> {NoNode} \cup ChartKind], stats : [NodeKey -> {NoNode} \cup ChartKind]]
        \cup [what : {"bars"}, reports : Reports(ActivityReport), others : [Bucket -> {[success |-> 0, failure |-> 0]} \cup
                                                                   {[success |-> SetOps!Max(ReportCount), failure |-> 1]}]]
        \cup [what : {"line"}, reports : Reports(ReportWeight), weight : ReportWeight, others : [Bucket -> ReportWeight]]

ChartTypeOK == chartSample.what \in {"none", "nodes", "bars", "line"}

\* Every node has one row, that of the statistics if they have it, and the rows rank the
\* nodes: first those that can be used, heaviest first, then the penalized, the direct
\* connection after all proxies.
RowsRankNodes ==
    chartSample.what = "nodes" =>
        LET nodes == MergedNodes(chartSample.settings, chartSample.stats)
            panel == NodePanel(nodes)
            weight(i) == nodes[panel[i].node].weight
            rank(i) == CASE panel[i].badge = "direct" -> 2 [] panel[i].badge = "penalized" -> 1 [] OTHER -> 0
        IN /\ Len(panel) = Cardinality(DOMAIN nodes) /\ {panel[i].node : i \in DOMAIN panel} = DOMAIN nodes
           /\ \A k \in DOMAIN nodes : chartSample.stats[k] # NoNode => nodes[k] = chartSample.stats[k]
           /\ \A i, j \in DOMAIN panel : i < j =>
                  \/ rank(i) < rank(j)
                  \/ rank(i) = rank(j) /\ (rank(i) = 2 \/ weight(i) >= weight(j))

\* Bars, also when a count is too small to be seen beside a large one, fill the cell exactly,
\* every count has a bar of at least a pixel, the larger count has the larger bar, and the
\* totals are those of the reports that belong to the range.
BarsFillCell ==
    chartSample.what = "bars" =>
        LET buckets == NormalizeActivityBuckets(chartSample.reports)
            scaleMax == ScaleMax(buckets, chartSample.others)
            cells == RequestTrendCell(buckets, scaleMax)
            counted == {x \in DOMAIN chartSample.reports : x \in {2 * i : i \in Bucket}}
        IN /\ SummarizeActivity(buckets).failure =
                  SetOps!MapThenSumSet(LAMBDA x : chartSample.reports[x].failure, counted)
           /\ \A i \in Bucket : scaleMax > 0 =>
               /\ cells[i].success + cells[i].failure + cells[i].empty = scaleMax * CellHeight
               /\ buckets[i].success > 0 => cells[i].success >= scaleMax
               /\ buckets[i].failure > 0 => cells[i].failure >= scaleMax
               /\ buckets[i].success >= buckets[i].failure => cells[i].success >= cells[i].failure

\* The line shows in every bucket the last weight known then, a report that misses the
\* buckets of the range showing nowhere, and no point of it is cut off at the edge.
LineShowsWeights ==
    chartSample.what = "line" =>
        LET reports == chartSample.reports
            weights == NormalizeWeightBuckets(reports, chartSample.weight)
            cell == WeightTrendCell(weights, WeightTrendScale(weights, chartSample.others))
            known(i) == {t \in DOMAIN reports : t % 2 = 0 /\ 0 <= t /\ t <= 2 * i}
        IN \A i \in Bucket :
               /\ weights[i] = IF known(i) = {} THEN chartSample.weight ELSE reports[SetOps!Max(known(i))]
               /\ 0 < cell.y[i] /\ cell.y[i] < CellHeight * cell.span
               /\ 0 < cell.zeroY /\ cell.zeroY < CellHeight * cell.span
               /\ weights[i] > 0 <=> cell.y[i] < cell.zeroY
=============================================================================
