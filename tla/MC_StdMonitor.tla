----------------------------- MODULE MC_StdMonitor -----------------------------
(* Instantiates StdMonitor for TLC.                                         *)
EXTENDS StdMonitor

\* Three Starts: a restart after Stop, and a third Start that may come while
\* an actor is still referenced.
MCMaxStarts == 3

=============================================================================
