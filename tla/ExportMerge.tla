----------------------------- MODULE ExportMerge -----------------------------
(***************************************************************************)
(* A PrometheusPushExporter built from its JSON configuration, and one     *)
(* call of HttpExporter::Export: merge the MetricData of one collection by *)
(* instrument name, serialize every merged family with the text           *)
(* serializer (PrometheusFormat) into one request body, and push it       *)
(* (PushMetrics, CurlHelper::SendRequest).  The health gating of          *)
(* PushMetrics is modelled in HeartbeatHealth; here no heartbeat client is *)
(* registered.                                                             *)
(*                                                                         *)
(* The unordered_map is a function from names to MetricData, and its       *)
(* iteration order is a nondeterministic choice.                           *)
(***************************************************************************)
EXTENDS Integers, Sequences, SequencesExt, FiniteSets, Functions

CONSTANTS
    MetricNames, Types, DescChars, MaxDescLen, LabelNames, ValueChars,
    MaxValueLen, MaxLabels, MaxPoints,   \* the MetricData, as in PrometheusFormat
    MaxLen,      \* longest metricDataVec
    Configs      \* configuration strings: [wellFormed : BOOLEAN,
                 \*   field : [ConfigFields -> {"absent", "string", "number"}]]

Text == INSTANCE PrometheusFormat

ConfigFields == {"endpoint", "jobName", "heartbeatInterval", "heartbeatUrl"}

ASSUME Configs \subseteq [wellFormed : BOOLEAN,
                          field : [ConfigFields -> {"absent", "string", "number"}]]

\* configJson.at(f) converts to the member's type (std::string, or uint32_t
\* through get), and throws for a value of another JSON type.
FieldConverts(c, f) ==
    \/ c.field[f] = "absent"
    \/ c.field[f] = IF f = "heartbeatInterval" THEN "number" ELSE "string"

\* PrometheusPushExporter(config): nlohmann::json::parse and the field reads
\* run in one try block; on any exception the constructor returns before
\* Init, leaving curlHelper_ and serializer_ null.
Constructed(c) == c.wellFormed /\ \A f \in ConfigFields : FieldConverts(c, f)

\* CurlHelper::CurlHelper, run by Init: curl_ stays null when
\* curl_global_init or curl_easy_init fails.
CurlHandleOutcomes(c) == IF Constructed(c) THEN BOOLEAN ELSE {FALSE}

NoBody == <<"none">>   \* no request was sent

VARIABLES
    config,      \* the configuration string the exporter was built from
    curl,        \* CurlHelper::curl_ != nullptr (curl_global_init and
                 \* curl_easy_init succeeded); FALSE without a CurlHelper
    vec,         \* the metricDataVec argument
    i,           \* index of the for loop over metricDataVec
    dataMap,     \* metricDataMap: name -> merged MetricData
    todo,        \* names the serialization loop has not reached
    oss,         \* the text written to the stream
    phase,       \* "merge", "serialize" or "done"
    result,      \* "none", "FAILURE" or "SUCCESS"
    sent         \* the body of the request curl performed, or NoBody

vars == <<config, curl, vec, i, dataMap, todo, oss, phase, result, sent>>

\* The exporter after its constructor (Init, CurlHelper::CurlHelper), and
\* Export entered with an empty map.
Init ==
    /\ config \in Configs
    /\ curl \in CurlHandleOutcomes(config)
    /\ vec \in BoundedSeq(Text!MetricData, MaxLen)
    /\ i = 1
    /\ dataMap = [n \in {} |-> <<>>]
    /\ todo = {}
    /\ oss = <<>>
    /\ phase = "merge"
    /\ result = "none"
    /\ sent = NoBody

\* Mutant: every MetricData is stored under its name, replacing a previous one.
MergeStepOverwrite ==
    /\ phase = "merge" /\ i <= Len(vec)
    /\ LET data == vec[i] IN
         dataMap' = IF data.points = <<>> THEN dataMap
                    ELSE (data.name :> data) @@ dataMap
    /\ i' = i + 1
    /\ UNCHANGED <<config, curl, vec, todo, oss, phase, result, sent>>

\* One iteration of the merge loop: skip a MetricData without points; for a
\* name already in the map append only its first point, otherwise insert it.
MergeStep ==
    /\ phase = "merge" /\ i <= Len(vec)
    /\ LET data == vec[i] IN
         dataMap' = CASE data.points = <<>> -> dataMap
                      [] data.name \in DOMAIN dataMap ->
                           [dataMap EXCEPT ![data.name].points = Append(@, Head(data.points))]
                      [] OTHER -> (data.name :> data) @@ dataMap
    /\ i' = i + 1
    /\ UNCHANGED <<config, curl, vec, todo, oss, phase, result, sent>>

MergeDone ==
    /\ phase = "merge" /\ i > Len(vec)
    /\ phase' = "serialize"
    /\ todo' = DOMAIN dataMap
    /\ UNCHANGED <<config, curl, vec, i, dataMap, oss, result, sent>>

\* One iteration of the serialization loop, in unordered_map order: with a
\* null serializer_ Export returns FAILURE, otherwise the family is written.
SerializeStep ==
    /\ phase = "serialize"
    /\ \E n \in todo :
         IF Constructed(config)
         THEN /\ oss' = oss \o Text!SerializeMetric(dataMap[n])
              /\ todo' = todo \ {n}
              /\ UNCHANGED <<phase, result>>
         ELSE /\ phase' = "done" /\ result' = "FAILURE"
              /\ UNCHANGED <<oss, todo>>
    /\ UNCHANGED <<config, curl, vec, i, dataMap, sent>>

\* CurlHelper::SendRequest: -1 without a curl_ handle (PushMetrics then
\* calls StartMonitor, which finds no client); otherwise curl performs the
\* request and the response code decides.
SendRequest(body) ==
    \/ ~curl /\ result' = "FAILURE" /\ UNCHANGED sent
    \/ curl /\ sent' = body /\ result' \in {"SUCCESS", "FAILURE"}

\* return PushMetrics(method_, oss): FAILURE with a null curlHelper_.
PushMetrics ==
    /\ phase = "serialize" /\ todo = {}
    /\ phase' = "done"
    /\ IF Constructed(config) THEN SendRequest(oss)
       ELSE result' = "FAILURE" /\ UNCHANGED sent
    /\ UNCHANGED <<config, curl, vec, i, dataMap, todo, oss>>

Next == MergeStep \/ MergeDone \/ SerializeStep \/ PushMetrics

Spec == Init /\ [][Next]_vars

-----------------------------------------------------------------------------
(* Reference definition of the merge, stated over the whole input.         *)

WithPoints(v) == SelectSeq(v, LAMBDA d : d.points # <<>>)

SameName(v, n) == SelectSeq(WithPoints(v), LAMBDA d : d.name = n)

\* The first MetricData of a name with all its points, then the first point
\* of each later one.
MergedData(v, n) ==
    LET s == SameName(v, n)
    IN  [Head(s) EXCEPT !.points = @ \o [k \in 1..Len(s) - 1 |-> Head(s[k + 1].points)]]

MergedFamilies(v) ==
    { MergedData(v, n) : n \in { d.name : d \in ToSet(WithPoints(v)) } }

\* What a reader of the exposition format should find in the body.
ExpectedFamilies(v) ==
    { Text!Family(m) : m \in { m \in MergedFamilies(v) : Text!SerializeMetric(m) # <<>> } }

\* The body curl sends is a valid exposition-format document that holds
\* each merged family exactly once: read back, it gives the reference merge
\* of the input whatever the unordered_map order (a duplicate name keeps
\* the description, type and points of its first MetricData and the first
\* point of every later one, a MetricData without points is dropped), and
\* no metric's lines are split into two groups, which the format rejects
\* (Export's merge, SerializeStep, PrometheusTextSerializer::Serialize).
BodyReadsAsMerged ==
    sent # NoBody =>
        LET r == Text!ReadBody(sent) IN
        /\ r.ok
        /\ ToSet(r.fams) = ExpectedFamilies(vec)
        /\ Len(r.fams) = Cardinality(ExpectedFamilies(vec))

=============================================================================
