------------------------- MODULE MC_StdMonitorActor -------------------------
(* Instantiates StdMonitorActor for TLC: four descriptor numbers (an epoll  *)
(* fd, the stop eventfd and two pipes fit; a leaked epoll fd exhausts them)*)
EXTENDS StdMonitorActor

MCNums == 1..3

\* The mailbox holds a caller request plus the HandleEvent messages of one
\* re-arm pass and one new-event pass before time stops.
MCMaxMailbox == 2

=============================================================================
