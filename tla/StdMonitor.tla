------------------------------ MODULE StdMonitor ------------------------------
(***************************************************************************)
(* The StdMonitor facade: every Start spawns a fresh StdMonitorActor and   *)
(* posts its Start; Stop posts the actor's Stop, terminates the actor,     *)
(* awaits it and drops the facade's reference, which destroys the actor   *)
(* (~StdMonitorActor calls Stop again); AddFd and RemoveFd are forwarded.  *)
(* Every call first checks actor_ with ASSERT_IF_NULL.                     *)
(*                                                                         *)
(* Each actor is seen through the lifecycle the StdMonitorActor module is  *)
(* checked to implement (run core): its Stop leaves the loop and joins in  *)
(* one step, and what it holds is reduced to whether its RunLoop thread    *)
(* runs.                                                                   *)
(***************************************************************************)
EXTENDS Naturals, Sequences

CONSTANTS
    MaxStarts,      \* bound: Start calls, hence actors spawned, in a behaviour
    CtlMayFail,     \* AddStopEvent may fail after epoll_create1 succeeded
    MaxMailbox,     \* bound: forwarded calls queued in one actor's mailbox
    MayRestart,     \* the caller may Start while actor_ refers to an actor
    MayCallAfterStop, \* the caller may call Stop, AddFd or RemoveFd after Stop
    StaleRemove       \* the caller may RemoveFd a number it already closed

ASSUME MaxStarts \in Nat \ {0} /\ MaxMailbox \in Nat /\ CtlMayFail \in BOOLEAN
       /\ MayRestart \in BOOLEAN /\ MayCallAfterStop \in BOOLEAN
       /\ StaleRemove \in BOOLEAN

Actors == 1..MaxStarts
NULL == 0            \* actor_ == nullptr

VARIABLES
    actor,      \* StdMonitor::actor_: an actor or NULL
    spawned,    \* number of actors spawned so far
    amb,        \* amb[a]: the litebus mailbox of actor a
    running,    \* running[a]: isRunning_ of a, its RunLoop thread exists
    live,       \* live[a]: a has not been terminated
    armed,      \* armed[a]: a's stop eventfd is in its epoll interest list
    cpc         \* caller: "idle", "awaiting" (in Stop's Await) or "aborted"

facade == <<actor, spawned, cpc>>
actors == <<amb, running, live, armed>>
vars == <<facade, actors>>

Init ==
    /\ actor = NULL /\ spawned = 0 /\ cpc = "idle"
    /\ amb = [a \in Actors |-> <<>>]
    /\ running = [a \in Actors |-> FALSE]
    /\ live = [a \in Actors |-> FALSE]
    /\ armed = [a \in Actors |-> FALSE]

-----------------------------------------------------------------------------
(* Caller thread.                                                          *)

\* ASSERT_IF_NULL(actor_) on a null actor_: the call does not return.
AssertNull ==
    /\ cpc = "idle" /\ actor = NULL /\ spawned > 0
    /\ cpc' = "aborted"
    /\ UNCHANGED <<actor, spawned, actors>>

\* Start: spawn a new actor, make it actor_ and post its Start.  The actor
\* actor_ pointed to before stays spawned: litebus still holds it.
Start ==
    /\ cpc = "idle" /\ spawned < MaxStarts
    /\ MayRestart \/ actor = NULL
    /\ LET a == spawned + 1 IN
         /\ actor' = a /\ spawned' = a
         /\ live' = [live EXCEPT ![a] = TRUE]
         /\ amb' = [amb EXCEPT ![a] = <<"Start">>]
    /\ UNCHANGED <<cpc, running, armed>>

\* Mutant: Stop posts the actor's Stop but never terminates the actor.
StopPostNoTerminate ==
    /\ cpc = "idle" /\ actor # NULL
    /\ amb' = [amb EXCEPT ![actor] = Append(@, "Stop")]
    /\ cpc' = "awaiting"
    /\ UNCHANGED <<actor, spawned, running, live, armed>>

\* Stop up to Await: post the actor's Stop, then Terminate.
StopPost ==
    /\ cpc = "idle" /\ actor # NULL
    /\ amb' = [amb EXCEPT ![actor] = @ \o <<"Stop", "Terminate">>]
    /\ cpc' = "awaiting"
    /\ UNCHANGED <<actor, spawned, running, live, armed>>

\* The last Stop step of the actor's own (~StdMonitorActor runs Stop()).
ActorStop(a) ==
    running' = [running EXCEPT ![a] = FALSE]

\* Mutant: Stop returns without Await.
StopAwaitedNoWait ==
    /\ cpc = "awaiting"
    /\ actor' = NULL /\ cpc' = "idle"
    /\ UNCHANGED <<spawned, actors>>

\* Await returns once the actor has terminated; actor_ = nullptr drops the
\* last reference and the destructor calls Stop.
StopAwaited ==
    /\ cpc = "awaiting" /\ ~live[actor]
    /\ ActorStop(actor)
    /\ actor' = NULL /\ cpc' = "idle"
    /\ UNCHANGED <<spawned, amb, live, armed>>

\* AddFd or RemoveFd: forwarded to actor_ (their effect on descriptors is
\* modelled in StdMonitorActor).  "StaleRemove" is a RemoveFd of a number
\* the caller closed and the kernel may have reused for the stop eventfd.
Forward ==
    /\ cpc = "idle" /\ actor # NULL /\ Len(amb[actor]) < MaxMailbox
    /\ \E op \in {"AddFd", "RemoveFd"} \cup (IF StaleRemove THEN {"StaleRemove"} ELSE {}) :
         amb' = [amb EXCEPT ![actor] = Append(@, op)]
    /\ UNCHANGED <<facade, running, live, armed>>

CallerStep ==
    \/ Start \/ StopPost \/ StopAwaited \/ Forward
    \/ MayCallAfterStop /\ AssertNull

-----------------------------------------------------------------------------
(* Actor threads: each handles the head of its mailbox.                    *)

\* StdMonitorActor::Start: succeeds, arms the stop eventfd and launches
\* RunLoop, or fails (at epoll_create1 or, when CtlMayFail, at AddStopEvent;
\* the descriptors a failed Start keeps are StdMonitorActor's concern).
ActorStart(a) ==
    \/ /\ running' = [running EXCEPT ![a] = TRUE]
       /\ armed' = [armed EXCEPT ![a] = TRUE]
    \/ UNCHANGED <<running, armed>>

\* A stale RemoveFd that hits the stop eventfd's number: StopMonitoringFd
\* finds it in fdCallbacks_ and removes it from epoll.
ActorStaleRemove(a) ==
    /\ armed' = [armed EXCEPT ![a] = FALSE]
    /\ UNCHANGED <<running, live>>

\* The actor's Stop joins its RunLoop thread, which only the stop eventfd can
\* wake: with the eventfd disarmed, Stop blocks in join() and the actor
\* handles nothing more (run stale_remove shows it in StdMonitorActor).
Blocked(a) == Head(amb[a]) = "Stop" /\ running[a] /\ ~armed[a]

\* Terminate: Finalize runs and the messages behind it are never handled.
ActorHandle(a) ==
    /\ live[a] /\ amb[a] # <<>> /\ ~Blocked(a)
    /\ amb' = [amb EXCEPT ![a] = IF Head(@) = "Terminate" THEN <<>> ELSE Tail(@)]
    /\ CASE Head(amb[a]) = "Start"       -> ActorStart(a) /\ UNCHANGED live
         [] Head(amb[a]) = "Stop"        -> ActorStop(a) /\ UNCHANGED <<live, armed>>
         [] Head(amb[a]) = "Terminate"   -> live' = [live EXCEPT ![a] = FALSE]
                                              /\ UNCHANGED <<running, armed>>
         [] Head(amb[a]) = "StaleRemove" -> ActorStaleRemove(a)
         [] OTHER                        -> UNCHANGED <<running, live, armed>>
    /\ UNCHANGED facade

Next == CallerStep \/ \E a \in Actors : ActorHandle(a)

\* Every actor thread drains its mailbox, and a caller blocked in Await
\* wakes once the actor has terminated; the caller's calls are not fair.
Spec == Init /\ [][Next]_vars /\ \A a \in Actors : WF_vars(ActorHandle(a))
                              /\ WF_vars(StopAwaited)

-----------------------------------------------------------------------------
(* Properties.                                                             *)

\* No RunLoop thread outlives its facade: every actor whose worker thread
\* runs is the one actor_ refers to, so Stop can still reach it.  A second
\* Start overwrites actor_ (StdMonitor::Start), and a Stop that returned
\* before the actor handled its Stop would leave the thread behind.
NoOrphanLoop == \A a \in Actors : running[a] => a = actor

\* Every facade call returns (spec P8, P9: a second Stop is a no-op and
\* AddFd after Stop fails): no call reaches ASSERT_IF_NULL with a null
\* actor_, whose handling is outside this repository and does not return
\* normally.
NeverAborts == cpc # "aborted"

\* The actor's stop eventfd is armed, or will be by the Start it is running,
\* and no stale RemoveFd is queued that could disarm it.
StopChannelIntact(a) ==
    /\ running[a] => armed[a]
    /\ \A i \in DOMAIN amb[a] : amb[a][i] # "StaleRemove"

\* StdMonitor::Stop returns: the actor's Stop, and then the Terminate posted
\* behind it, are handled and Await wakes up, whatever the caller did before
\* (calls after Stop, failed Starts), unless a stale RemoveFd disarmed the
\* stop eventfd of the actor being stopped: then the actor's Stop blocks in
\* join() for good, and so does the caller in Await.
StopReturns == cpc = "awaiting" /\ StopChannelIntact(actor) ~> cpc = "idle"


=============================================================================
