\* Whole families: every instrument type, up to two points with up to two
\* labels each, label values of one character among the three escaped ones,
\* a comma and a letter, and descriptions of letters.
SPECIFICATION Spec
CONSTANTS
    MetricNames = {"m"}
    Types <- MCAllTypes
    DescChars <- MCPlainDesc
    MaxDescLen = 1
    LabelNames = {"k", "j"}
    ValueChars <- MCValueChars
    MaxValueLen = 1
    MaxLabels = 2
    MaxPoints = 2
\* Serialize is one call that returns: a finished call is not a deadlock.
CHECK_DEADLOCK FALSE
INVARIANT FamilyRoundTrip
