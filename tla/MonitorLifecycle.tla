--------------------------- MODULE MonitorLifecycle ---------------------------
(***************************************************************************)
(* What the std monitor promises about its lifecycle, without descriptors, *)
(* epoll or messages: Start launches one loop thread, Stop asks it to      *)
(* leave and waits for it, and the monitor is idle again only once the     *)
(* thread has gone.  A thread never leaves its loop unless Stop asked it   *)
(* to, and a Stop that waits for the thread returns.                       *)
(***************************************************************************)

VARIABLES
    phase,   \* "idle", "running" or "stopping" (Stop waits for the thread)
    loop     \* a loop thread exists and has not left its loop

vars == <<phase, loop>>

Init == phase = "idle" /\ loop = FALSE

\* Start succeeds: the loop thread is launched.
Launch ==
    /\ phase = "idle"
    /\ phase' = "running" /\ loop' = TRUE

\* Stop asks the running loop to leave and starts waiting for it.
RequestStop ==
    /\ phase = "running"
    /\ phase' = "stopping"
    /\ UNCHANGED loop

\* The loop thread leaves its loop: only after Stop asked it to.
LoopExits ==
    /\ phase = "stopping" /\ loop
    /\ loop' = FALSE
    /\ UNCHANGED phase

\* The wait for the thread ends and the monitor is idle again.
Joined ==
    /\ phase = "stopping" /\ ~loop
    /\ phase' = "idle"
    /\ UNCHANGED loop

Next == Launch \/ RequestStop \/ LoopExits \/ Joined

\* Nothing forces a caller to Start or Stop; once Stop waits, it returns.
Spec == Init /\ [][Next]_vars /\ WF_vars(LoopExits) /\ WF_vars(Joined)

=============================================================================
