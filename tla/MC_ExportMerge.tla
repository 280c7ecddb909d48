--------------------------- MODULE MC_ExportMerge ---------------------------
(* Instantiates ExportMerge for TLC.                                       *)
EXTENDS ExportMerge

CONSTANTS a, b

MCNames == {a, b}

\* A configuration of the form the tests use, one that is not JSON, and one
\* whose heartbeatInterval is a string.
MCConfigs ==
    { [wellFormed |-> TRUE,
       field |-> [f \in ConfigFields |-> IF f = "heartbeatInterval" THEN "number" ELSE "string"]],
      [wellFormed |-> FALSE, field |-> [f \in ConfigFields |-> "absent"]],
      [wellFormed |-> TRUE,
       field |-> [f \in ConfigFields |-> IF f = "heartbeatInterval" THEN "string" ELSE "absent"]] }
=============================================================================
