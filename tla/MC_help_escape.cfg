\* Descriptions that hold a backslash or a newline.
SPECIFICATION Spec
CONSTANTS
    MetricNames = {"m"}
    Types = {"counter"}
    DescChars <- MCAnyDesc
    MaxDescLen = 2
    LabelNames = {"k"}
    ValueChars <- MCEscapedChars
    MaxValueLen = 1
    MaxLabels = 1
    MaxPoints = 1
\* Serialize is one call that returns: a finished call is not a deadlock.
CHECK_DEADLOCK FALSE
INVARIANT FamilyRoundTrip
