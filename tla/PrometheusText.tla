---------------------------- MODULE PrometheusText ----------------------------
(***************************************************************************)
(* PrometheusTextSerializer::Serialize of one MetricData, checked against  *)
(* the reader of the exposition format in PrometheusFormat.                *)
(***************************************************************************)
EXTENDS PrometheusFormat

ASSUME {NL, BS, DQ} \subseteq ValueChars

VARIABLES
    metric,   \* the MetricData; a point is its labels, in list order
    out       \* the text written, <<>> before Serialize runs

vars == <<metric, out>>

\* Serialize: SerializeMetric writes the HELP line, then the rest by type.
Serialize ==
    /\ out = <<>>
    /\ out' = SerializeMetric(metric)
    /\ UNCHANGED metric

Init ==
    /\ metric \in MetricData
    /\ out = <<>>

Next == Serialize

Spec == Init /\ [][Next]_vars

\* Whatever characters the description and the label values contain, a
\* reader of the exposition format gets back exactly the metric: its HELP
\* text, its type, and one sample per point with the point's labels in
\* order.  No quote closes a label value early, no newline splits a line
\* and no text turns into another sample (WriteStringValue,
\* SerializeContentHead, SerializeHelp, SerializeMetricByType).
FamilyRoundTrip ==
    out # <<>> => ReadBody(out) = [ok |-> TRUE, fams |-> <<Family(metric)>>]

=============================================================================
