\* Up to three MetricData of two names, counters and histograms, with up to
\* two points of at most one label each, from every configuration and curl
\* outcome.
SPECIFICATION Spec
CONSTANTS
    a = a
    b = b
    MetricNames <- MCNames
    Types = {"counter", "histogram"}
    DescChars = {"d"}
    MaxDescLen = 1
    LabelNames = {"k"}
    ValueChars = {"x"}
    MaxValueLen = 0
    MaxLabels = 1
    MaxPoints = 2
    MaxLen = 3
    Configs <- MCConfigs
\* Export returns after pushing or failing: a finished call is not a deadlock.
CHECK_DEADLOCK FALSE
INVARIANT BodyReadsAsMerged
