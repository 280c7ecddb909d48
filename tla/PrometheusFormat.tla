--------------------------- MODULE PrometheusFormat ---------------------------
(***************************************************************************)
(* The text PrometheusTextSerializer::Serialize writes for one MetricData: *)
(* the HELP line, the TYPE line and, for a counter or a gauge, one sample  *)
(* line per point: the metric name, the label block {name="value",...}    *)
(* with each value escaped by WriteStringValue, a space, the value and a   *)
(* newline.  Text is a sequence of one-character strings; a metric name, a *)
(* label name, a keyword of the format and a formatted sample value are    *)
(* one token each (a number printed by operator<< holds no quote,          *)
(* backslash or newline).                                                  *)
(*                                                                         *)
(* The reference is a reader of the text exposition format version 0.0.4,  *)
(* the version the push exporter declares in its Content-Type: it splits   *)
(* the text into lines, unescapes HELP text (\\ and \n) and label values   *)
(* (\\, \" and \n), ignores blank lines, requires the lines of one metric  *)
(* to form one group, and rejects anything malformed.                      *)
(***************************************************************************)
EXTENDS Integers, Sequences, SequencesExt

CONSTANTS
    MetricNames,  \* instrumentDescriptor.name
    Types,        \* instrumentDescriptor.type: "counter", "gauge", "histogram",
                  \* or "other" for any type the switch has no case for
    DescChars,    \* characters descriptions are made of
    MaxDescLen,   \* longest description
    LabelNames,   \* label keys
    ValueChars,   \* characters label values are made of
    MaxValueLen,  \* longest label value
    MaxLabels,    \* most labels on one point
    MaxPoints     \* most points in one MetricData

NL == "\n"
BS == "\\"
DQ == "\""
Value == "v"     \* SerializeContentValue: the point's number, formatted

ASSUME Types \subseteq {"counter", "gauge", "histogram", "other"}

Label == LabelNames \X BoundedSeq(ValueChars, MaxValueLen)

Point == BoundedSeq(Label, MaxLabels)

MetricData ==
    [name : MetricNames, desc : BoundedSeq(DescChars, MaxDescLen), type : Types,
     points : BoundedSeq(Point, MaxPoints)]

\* The escape of one character by the switch in WriteStringValue.
EscapeChar(c) ==
    CASE c = NL -> <<BS, "n">>
      [] c = BS -> <<BS, c>>
      [] c = DQ -> <<BS, c>>
      [] OTHER  -> <<c>>

\* Mutant: the '\\' case is missing, so a backslash is written raw.
WriteStringValueNoBackslash(value) ==
    FlattenSeq([k \in DOMAIN value |->
                  IF value[k] = BS THEN <<BS>> ELSE EscapeChar(value[k])])

WriteStringValue(value) ==
    FlattenSeq([k \in DOMAIN value |-> EscapeChar(value[k])])

\* name="value", preceded by the prefix "," from the second label on.
LabelText(labels, k) ==
    (IF k = 1 THEN <<>> ELSE <<",">>)
      \o <<labels[k][1], "=", DQ>> \o WriteStringValue(labels[k][2]) \o <<DQ>>

SerializeContentHead(name, labels) ==
    <<name>>
      \o (IF labels = <<>> THEN <<>>
          ELSE <<"{">> \o FlattenSeq([k \in DOMAIN labels |-> LabelText(labels, k)]) \o <<"}">>)
      \o <<" ">>

\* Mutant: the sample line is not terminated.
SerializeSimpleMetricNoNewline(name, labels) ==
    SerializeContentHead(name, labels) \o <<Value>>

SerializeSimpleMetric(name, labels) ==
    SerializeContentHead(name, labels) \o <<Value, NL>>

TypeLine(name, t) == <<"#", " ", "TYPE", " ", name, " ", t, NL>>

SerializeMetricByType(m) ==
    CASE m.type \in {"counter", "gauge"} ->
            TypeLine(m.name, m.type)
              \o FlattenSeq([k \in DOMAIN m.points |-> SerializeSimpleMetric(m.name, m.points[k])])
      [] m.type = "histogram" -> TypeLine(m.name, "histogram")
      [] OTHER -> <<>>

\* The description is written as it is.
SerializeHelp(m) ==
    IF m.desc = <<>> THEN <<>>
    ELSE <<"#", " ", "HELP", " ", m.name, " ">> \o m.desc \o <<NL>>

\* Serialize: SerializeMetric writes the HELP line, then the rest by type.
SerializeMetric(m) == SerializeHelp(m) \o SerializeMetricByType(m)

-----------------------------------------------------------------------------
(* Reference reader.                                                       *)

Fail == [ok |-> FALSE]

\* Read a quoted value up to its closing quote; s starts after the opening
\* quote. Returns the value and the text after the closing quote.
RECURSIVE ReadValue(_, _)
ReadValue(s, acc) ==
    IF s = <<>> \/ Head(s) = NL THEN Fail
    ELSE IF Head(s) = DQ THEN [ok |-> TRUE, val |-> acc, rest |-> Tail(s)]
    ELSE IF Head(s) # BS THEN ReadValue(Tail(s), Append(acc, Head(s)))
    ELSE IF Len(s) < 2 THEN Fail
    ELSE IF s[2] = "n" THEN ReadValue(Tail(Tail(s)), Append(acc, NL))
    ELSE IF s[2] \in {BS, DQ} THEN ReadValue(Tail(Tail(s)), Append(acc, s[2]))
    ELSE Fail

\* Read name="value" pairs separated by ',' up to '}'.
RECURSIVE ReadLabels(_, _)
ReadLabels(s, acc) ==
    IF Len(s) < 3 \/ s[1] \notin LabelNames \/ s[2] # "=" \/ s[3] # DQ THEN Fail
    ELSE LET v == ReadValue(SubSeq(s, 4, Len(s)), <<>>) IN
         IF ~v.ok \/ v.rest = <<>> THEN Fail
         ELSE LET pairs == Append(acc, <<s[1], v.val>>) IN
              IF Head(v.rest) = "}" THEN [ok |-> TRUE, val |-> pairs, rest |-> Tail(v.rest)]
              ELSE IF Head(v.rest) = "," THEN ReadLabels(Tail(v.rest), pairs)
              ELSE Fail

\* The head of a sample line of metric name: name, optional label block,
\* one space.
ReadHead(name, s) ==
    IF Len(s) < 2 \/ s[1] # name THEN Fail
    ELSE IF s[2] = " " THEN [ok |-> TRUE, val |-> <<>>, rest |-> Tail(Tail(s))]
    ELSE IF s[2] # "{" THEN Fail
    ELSE LET l == ReadLabels(SubSeq(s, 3, Len(s)), <<>>) IN
         IF l.ok /\ l.rest # <<>> /\ Head(l.rest) = " "
         THEN [ok |-> TRUE, val |-> l.val, rest |-> Tail(l.rest)]
         ELSE Fail

\* The docstring of a HELP line, where only \\ and \n are escapes.
RECURSIVE ReadDoc(_, _)
ReadDoc(s, acc) ==
    IF s = <<>> THEN [ok |-> TRUE, val |-> acc]
    ELSE IF Head(s) # BS THEN ReadDoc(Tail(s), Append(acc, Head(s)))
    ELSE IF Len(s) < 2 \/ s[2] \notin {BS, "n"} THEN Fail
    ELSE ReadDoc(Tail(Tail(s)), Append(acc, IF s[2] = "n" THEN NL ELSE BS))

\* The lines of a text whose every line ends with a newline.
RECURSIVE Lines(_, _)
Lines(s, cur) ==
    IF s = <<>> THEN (IF cur = <<>> THEN <<>> ELSE <<cur>>)
    ELSE IF Head(s) = NL THEN <<cur>> \o Lines(Tail(s), <<>>)
    ELSE Lines(Tail(s), Append(cur, Head(s)))

Comment(l, kw) == Len(l) >= 5 /\ SubSeq(l, 1, 4) = <<"#", " ", kw, " ">>

\* The metric a line belongs to: the fifth token of a HELP or TYPE line,
\* the first token of a sample line.
LineName(l) == IF Comment(l, "HELP") \/ Comment(l, "TYPE") THEN l[5] ELSE l[1]

\* Read one line into the family of its metric: at most one HELP and one
\* TYPE, TYPE before the first sample, a sample is a head and a value.
ReadLine(f, l) ==
    IF ~f.ok THEN f
    ELSE IF Comment(l, "HELP") /\ Len(l) >= 6 /\ l[6] = " "
    THEN LET d == ReadDoc(SubSeq(l, 7, Len(l)), <<>>) IN
         IF d.ok /\ f.help = {} THEN [f EXCEPT !.help = {d.val}] ELSE Fail
    ELSE IF Comment(l, "TYPE") /\ Len(l) = 7 /\ l[6] = " "
    THEN IF f.type = "untyped" /\ f.samples = <<>>
         THEN [f EXCEPT !.type = l[7]] ELSE Fail
    ELSE LET h == ReadHead(f.name, l) IN
         IF h.ok /\ h.rest = <<Value>>
         THEN [f EXCEPT !.samples = Append(@, h.val)] ELSE Fail

NewFamily(n) == [ok |-> TRUE, name |-> n, help |-> {}, type |-> "untyped", samples |-> <<>>]

\* Read one line of a body: it continues the current family, or starts the
\* family of a metric no earlier line named (one group per metric).
ReadBodyLine(b, l) ==
    IF ~b.ok \/ l = <<>> THEN b
    ELSE LET n == LineName(l)
             k == Len(b.fams)
             f == IF k > 0 /\ b.fams[k].name = n THEN ReadLine(b.fams[k], l)
                  ELSE IF \E j \in 1..k : b.fams[j].name = n THEN Fail
                  ELSE ReadLine(NewFamily(n), l)
         IN  IF ~f.ok THEN Fail
             ELSE IF k > 0 /\ b.fams[k].name = n THEN [b EXCEPT !.fams[k] = f]
             ELSE [b EXCEPT !.fams = Append(@, f)]

\* The metric families of a body, in order, or Fail.
ReadBody(s) == FoldLeft(ReadBodyLine, [ok |-> TRUE, fams |-> <<>>], Lines(s, <<>>))

\* What a metric is to a reader: its description when it has one, its
\* type, and the labels of every point of a counter or a gauge.
Family(m) ==
    [ok |-> TRUE, name |-> m.name,
     help |-> IF m.desc = <<>> THEN {} ELSE {m.desc},
     type |-> IF m.type = "other" THEN "untyped" ELSE m.type,
     samples |-> IF m.type \in {"counter", "gauge"} THEN m.points ELSE <<>>]

\* The families a reader gets from a metric: none when nothing is written.
Families(m) == IF SerializeMetric(m) = <<>> THEN <<>> ELSE <<Family(m)>>

=============================================================================
