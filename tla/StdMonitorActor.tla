--------------------------- MODULE StdMonitorActor ---------------------------
(***************************************************************************)
(* The std monitor of the runtime manager                                  *)
(* (src/functionsystem/src/runtime_manager/std_monitor/std_monitor_actor.cpp)*)
(*                                                                         *)
(* Three actors share the state:                                           *)
(*  - the litebus actor thread, which runs the handlers Start, Stop,       *)
(*    AddFd, RemoveFd and HandleEvent one message at a time from the       *)
(*    actor's mailbox;                                                     *)
(*  - the worker thread spawned by Start, which runs RunLoop: epoll_wait,  *)
(*    UpdateActiveTime (the debounce re-arm pass), ShouldStopRunLoop and   *)
(*    the new-event pass, posting HandleEvent messages to the mailbox;     *)
(*  - the caller, who opens, writes and closes pipes and posts requests.   *)
(* The kernel state the code relies on is part of the model: the table of  *)
(* descriptor numbers (a closed number is reused by the next open), the    *)
(* epoll interest list, the level/edge readiness of each descriptor, and   *)
(* the counter of the stop eventfd.                                        *)
(***************************************************************************)
EXTENDS Integers, Sequences, FiniteSets, SequencesExt, Functions, TLC

CONSTANTS
    Nums,        \* descriptor numbers the kernel can hand out
    Masks,       \* interest masks callers pass to AddFd: "LT" or "ET" (EPOLLET)
    MaxPipes,    \* bound: pipes the caller keeps open at once
    MaxMailbox,  \* bound: mailbox length above which time stops advancing
    CtlMayFail,  \* epoll_ctl(ADD) may fail with ENOSPC/ENOMEM
    StaleRemove, \* the caller may RemoveFd a number it opened earlier and closed
    MaxOpens     \* bound: pipes opened in a behaviour, each with its own identity
                 \* (0: pipe identities are not tracked)

ASSUME /\ Nums \subseteq Nat \ {0}
       /\ Masks \subseteq {"LT", "ET"} /\ Masks # {}
       /\ MaxPipes \in Nat /\ MaxMailbox \in Nat \ {0, 1}
       /\ CtlMayFail \in BOOLEAN /\ StaleRemove \in BOOLEAN
       /\ MaxOpens \in Nat

EPOLL_FD_INVALID == -1     \* std_monitor_actor.h: const int EPOLL_FD_INVALID = -1
NegFd == -1                \* the invalid descriptor a caller may pass
NullCb == -1               \* the null callback stored for the stop eventfd

VARIABLES
    \* kernel
    kfd,          \* kfd[n]: what number n refers to: "free", "epoll", "event", "pipe"
    pending,      \* pending[n]: the pipe n holds unread data
    edge,         \* descriptors with an edge-triggered event not yet reported
    interest,     \* epoll interest list of the instance epollFd_: fd -> mask
    evCount,      \* counter of the stop eventfd
    \* StdMonitorActor members
    epollFd,      \* epollFd_
    stopEventfd,  \* stopEventfd_
    isRunning,    \* isRunning_ (std::atomic<bool>)
    fdCallbacks,  \* fdCallbacks_: fd -> NullCb, or the caller's callback, named by
                  \* the identity of the pipe it was registered for
    active,       \* fdActiveTimestamps_: fd -> "fresh" | "elapsed" (1 ms passed)
    actorPc,      \* "idle", or "joining" while Stop waits in thread_->join()
    \* the worker thread running RunLoop
    wpc,          \* "none" (no thread), "wait" (in epoll_wait), "events" (after it), "exited"
    events,       \* the events array returned by the last epoll_wait
    \* the mailbox and the caller
    mailbox,      \* litebus mailbox of the actor: a FIFO of messages
    callerBusy,   \* the caller awaits the future of a request it posted
    started,      \* the caller's view: its last Start returned true and no Stop since
    used,         \* numbers the caller has ever opened as pipes
    \* identities of pipes (history; only tracked when MaxOpens > 0)
    pipeId,       \* pipeId[n]: which opened pipe number n refers to (0: none)
    opens,        \* pipes opened so far
    eventSrc      \* pipeId as it was when epoll_wait returned events

kernel  == <<kfd, pending, edge, interest, evCount>>
monitor == <<epollFd, stopEventfd, isRunning, fdCallbacks, active, actorPc>>
worker  == <<wpc, events>>
caller  == <<callerBusy, started, used>>
ghost   == <<pipeId, opens, eventSrc>>
vars    == <<kernel, monitor, worker, mailbox, caller, ghost>>

Alive == {"wait", "events"}

-----------------------------------------------------------------------------
(* Helpers on partial functions and on the kernel.                         *)

Put(f, k, v) == (k :> v) @@ f
Drop(f, S)   == Restrict(f, DOMAIN f \ S)

FreeNums == {n \in Nums : kfd[n] = "free"}
Pipes    == {n \in Nums : kfd[n] = "pipe"}

\* The descriptor has data to read: a pipe with data, the eventfd with count > 0.
Readable(n) == \/ kfd[n] = "pipe" /\ pending[n]
               \/ kfd[n] = "event" /\ evCount > 0

\* What epoll_wait reports: level-triggered fds while readable, edge-triggered
\* fds once per edge.
ReadyFds == {n \in DOMAIN interest :
                \/ interest[n] = "LT" /\ Readable(n)
                \/ interest[n] = "ET" /\ n \in edge}

\* A HandleEvent message; src records the pipe whose readiness it reports.
HandleEventMsg(n, src) == [op |-> "HandleEvent", fd |-> n, src |-> src[n]]

\* litebus::Async(GetAID(), &StdMonitorActor::HandleEvent, fd, ...) for each fd of S.
PostHandleEvents(S, src) == mailbox \o SetToSeq({HandleEventMsg(n, src) : n \in S})

\* The future of the request at the head of the mailbox completes (its value
\* ok matters to the caller only for Start).
Reply(ok) ==
    /\ mailbox' = Tail(mailbox)
    /\ callerBusy' = FALSE

-----------------------------------------------------------------------------
(* StdMonitorActor::Start.  epoll_create1 and eventfd fail (EMFILE) when no  *)
(* number is free; the epoll_ctl(ADD) inside AddStopEvent may fail when      *)
(* CtlMayFail.  Every failure returns false but leaves epollFd_ as it is.    *)

StartReply(ok) == Reply(ok) /\ started' = ok

EpollCreateFails ==
    /\ FreeNums = {}
    /\ epollFd' = EPOLL_FD_INVALID
    /\ StartReply(FALSE)
    /\ UNCHANGED <<ghost, kernel, stopEventfd, isRunning, fdCallbacks, active, actorPc, worker, used>>

\* AddStopEvent: eventfd() fails.
EventfdFails(e) ==
    /\ FreeNums \ {e} = {}
    /\ kfd' = [kfd EXCEPT ![e] = "epoll"]
    /\ interest' = <<>> /\ edge' = {}
    /\ epollFd' = e /\ stopEventfd' = EPOLL_FD_INVALID
    /\ StartReply(FALSE)
    /\ UNCHANGED <<ghost, pending, evCount, isRunning, fdCallbacks, active, actorPc, worker, used>>

\* Mutant: Start ignores the result of AddStopEvent and starts the loop.
StopEventCtlFailsIgnored(e, s) ==
    /\ CtlMayFail
    /\ kfd' = [kfd EXCEPT ![e] = "epoll"]
    /\ interest' = <<>> /\ edge' = {}
    /\ epollFd' = e /\ stopEventfd' = EPOLL_FD_INVALID
    /\ isRunning' = TRUE /\ wpc' = "wait"
    /\ StartReply(TRUE)
    /\ UNCHANGED <<ghost, pending, evCount, fdCallbacks, active, actorPc, events, used>>

\* AddStopEvent: AddFd(stopEventfd_, ...) fails in epoll_ctl; the eventfd is closed.
StopEventCtlFails(e, s) ==
    /\ CtlMayFail
    /\ kfd' = [kfd EXCEPT ![e] = "epoll"]
    /\ interest' = <<>> /\ edge' = {}
    /\ epollFd' = e /\ stopEventfd' = EPOLL_FD_INVALID
    /\ StartReply(FALSE)
    /\ UNCHANGED <<ghost, pending, evCount, isRunning, fdCallbacks, active, actorPc, worker, used>>

\* AddStopEvent succeeds: the eventfd is in fdCallbacks_ with a null callback;
\* isRunning_ is set and the thread running RunLoop is created.
StartOk(e, s) ==
    /\ kfd' = [kfd EXCEPT ![e] = "epoll", ![s] = "event"]
    /\ interest' = (s :> "LT") /\ edge' = {} /\ evCount' = 0
    /\ epollFd' = e /\ stopEventfd' = s
    /\ fdCallbacks' = Put(fdCallbacks, s, NullCb)
    /\ isRunning' = TRUE
    /\ wpc' = "wait"
    /\ StartReply(TRUE)
    /\ UNCHANGED <<ghost, pending, active, actorPc, events, used>>

Start ==
    /\ actorPc = "idle" /\ mailbox # <<>> /\ Head(mailbox).op = "Start"
    /\ \/ EpollCreateFails
       \/ \E e \in FreeNums :
            \/ EventfdFails(e)
            \/ \E s \in FreeNums \ {e} : StopEventCtlFails(e, s) \/ StartOk(e, s)

-----------------------------------------------------------------------------
(* StdMonitorActor::AddFd(fd, events, callback) as a handler.              *)

AddFdRejected(n) ==
    /\ \/ epollFd = EPOLL_FD_INVALID                 \* not initialized
       \/ n < 0                                     \* invalid fd
       \/ /\ n >= 0
          /\ \/ kfd[n] = "free"                     \* SetNonBlockingIO: EBADF
             \/ n \in DOMAIN interest               \* epoll_ctl: EEXIST
             \/ CtlMayFail                          \* epoll_ctl: ENOSPC
    /\ Reply(FALSE)
    /\ UNCHANGED <<ghost, kernel, monitor, worker, started, used>>

\* epoll_ctl(ADD) succeeds; an ET fd that is already readable gets an edge.
AddFdOk(n, m) ==
    /\ epollFd # EPOLL_FD_INVALID /\ n >= 0
    /\ kfd[n] # "free" /\ n \notin DOMAIN interest
    /\ interest' = Put(interest, n, m)
    /\ edge' = IF m = "ET" /\ Readable(n) THEN edge \cup {n} ELSE edge
    /\ fdCallbacks' = Put(fdCallbacks, n, pipeId[n])
    /\ Reply(TRUE)
    /\ UNCHANGED <<ghost, kfd, pending, evCount, epollFd, stopEventfd, isRunning, active,
                   actorPc, worker, started, used>>

AddFd ==
    /\ actorPc = "idle" /\ mailbox # <<>> /\ Head(mailbox).op = "AddFd"
    /\ LET n == Head(mailbox).fd IN AddFdRejected(n) \/ AddFdOk(n, Head(mailbox).mask)

-----------------------------------------------------------------------------
(* StdMonitorActor::RemoveFd = StopMonitoringFd, then erase on success.    *)

\* The outcome of StopMonitoringFd(n): "fail", "absent" (returns true without
\* touching epoll) or "deleted" (epoll_ctl(DEL) succeeded).
StopMonitoringFd(n) ==
    CASE epollFd = EPOLL_FD_INVALID   -> "fail"
      [] n < 0                        -> "fail"
      [] n \notin DOMAIN fdCallbacks  -> "absent"
      [] n \notin DOMAIN interest     -> "fail"    \* DEL: ENOENT / EBADF
      [] OTHER                        -> "deleted"

RemoveFd ==
    /\ actorPc = "idle" /\ mailbox # <<>> /\ Head(mailbox).op = "RemoveFd"
    /\ LET n == Head(mailbox).fd
           r == StopMonitoringFd(n)
       IN /\ interest' = IF r = "deleted" THEN Drop(interest, {n}) ELSE interest
          /\ edge' = IF r = "deleted" THEN edge \ {n} ELSE edge
          /\ fdCallbacks' = IF r = "fail" THEN fdCallbacks ELSE Drop(fdCallbacks, {n})
          /\ Reply(r # "fail")
    /\ UNCHANGED <<ghost, kfd, pending, evCount, epollFd, stopEventfd, isRunning, active,
                   actorPc, worker, started, used>>

-----------------------------------------------------------------------------
(* StdMonitorActor::HandleEvent: the stored callback runs on the actor      *)
(* thread; a caller callback drains its pipe with non-blocking reads.  An   *)
(* fd without a callback is logged and dropped.                             *)

HandleEvent ==
    /\ actorPc = "idle" /\ mailbox # <<>> /\ Head(mailbox).op = "HandleEvent"
    /\ LET n == Head(mailbox).fd
       IN pending' = IF n \in DOMAIN fdCallbacks /\ fdCallbacks[n] # NullCb
                     THEN [pending EXCEPT ![n] = FALSE] ELSE pending
    /\ mailbox' = Tail(mailbox)
    /\ UNCHANGED <<ghost, kfd, edge, interest, evCount, monitor, worker, caller>>

-----------------------------------------------------------------------------
(* StdMonitorActor::Stop runs on the actor thread and blocks in join(), so  *)
(* it is two steps: StopRunLoop, then the cleanup once the worker exited.   *)

StopNotRunning ==
    /\ actorPc = "idle" /\ mailbox # <<>> /\ Head(mailbox).op = "Stop"
    /\ ~isRunning
    /\ StartReply(FALSE)
    /\ UNCHANGED <<ghost, kernel, monitor, worker, used>>

\* Mutant: Stop clears isRunning_ and joins without writing the eventfd.
StopRunLoopNoSignal ==
    /\ actorPc = "idle" /\ mailbox # <<>> /\ Head(mailbox).op = "Stop"
    /\ isRunning
    /\ isRunning' = FALSE
    /\ actorPc' = "joining"
    /\ UNCHANGED <<ghost, kfd, pending, edge, interest, evCount, epollFd, stopEventfd,
                   fdCallbacks, active, worker, mailbox, caller>>

\* isRunning_ = false; StopRunLoop writes 1 to the eventfd; join().
StopRunLoop ==
    /\ actorPc = "idle" /\ mailbox # <<>> /\ Head(mailbox).op = "Stop"
    /\ isRunning
    /\ isRunning' = FALSE
    /\ evCount' = evCount + 1
    /\ actorPc' = "joining"
    /\ UNCHANGED <<ghost, kfd, pending, edge, interest, epollFd, stopEventfd, fdCallbacks,
                   active, worker, mailbox, caller>>

\* Mutant: the cleanup runs without waiting for the thread (no join()).
StopCleanupNoJoin ==
    /\ actorPc = "joining"
    /\ kfd' = [n \in Nums |-> IF n \in {epollFd, stopEventfd} THEN "free" ELSE kfd[n]]
    /\ interest' = <<>> /\ edge' = {} /\ evCount' = 0
    /\ fdCallbacks' = <<>>
    /\ epollFd' = EPOLL_FD_INVALID /\ stopEventfd' = EPOLL_FD_INVALID
    /\ actorPc' = "idle"
    /\ wpc' = "none"
    /\ StartReply(FALSE)
    /\ UNCHANGED <<ghost, pending, isRunning, active, events, used>>

\* After join: StopMonitoringFd for every fd in fdCallbacks_, clear the table,
\* close the epoll fd and the eventfd.  fdActiveTimestamps_ is not cleared.
StopCleanup ==
    /\ actorPc = "joining" /\ wpc = "exited"
    /\ kfd' = [n \in Nums |-> IF n \in {epollFd, stopEventfd} THEN "free" ELSE kfd[n]]
    /\ interest' = <<>> /\ edge' = {} /\ evCount' = 0
    /\ fdCallbacks' = <<>>
    /\ epollFd' = EPOLL_FD_INVALID /\ stopEventfd' = EPOLL_FD_INVALID
    /\ actorPc' = "idle"
    /\ wpc' = "none"
    /\ StartReply(FALSE)
    /\ UNCHANGED <<ghost, pending, isRunning, active, events, used>>

Stop == StopNotRunning \/ StopRunLoop \/ StopCleanup

ActorStep == Start \/ Stop \/ AddFd \/ RemoveFd \/ HandleEvent

-----------------------------------------------------------------------------
(* RunLoop on the worker thread.                                           *)

\* UpdateActiveTime: every fd whose 1 ms window elapsed is dispatched again
\* (HandleEvent with EPOLLIN) and leaves fdActiveTimestamps_.
Due == {n \in DOMAIN active : active[n] = "elapsed"}

\* Mutant: the elapsed entry is dispatched but not erased (++it for erase).
UpdateActiveTimeKeepsDue ==
    /\ mailbox' = PostHandleEvents(Due, pipeId)
    /\ UNCHANGED active

UpdateActiveTime ==
    /\ mailbox' = PostHandleEvents(Due, pipeId)
    /\ active' = Drop(active, Due)

\* The condition of while (isRunning_), read at the end of an iteration: the
\* thread goes back to epoll_wait or leaves RunLoop.  (Reading it here rather
\* than in a step of its own loses no behaviour: only StopRunLoop writes it
\* and it also writes the eventfd, which wakes the thread in epoll_wait.)
NextIteration == IF isRunning THEN "wait" ELSE "exited"

\* epoll_wait(epollFd_, events, MAX_EVENTS_NUM, -1) blocks until a fd is
\* ready; then UpdateActiveTime.
WaitReturn ==
    /\ wpc = "wait" /\ ReadyFds # {}
    /\ events' = ReadyFds
    /\ eventSrc' = pipeId
    /\ edge' = edge \ ReadyFds
    /\ UpdateActiveTime
    /\ wpc' = "events"
    /\ UNCHANGED <<kfd, pending, interest, evCount, epollFd, stopEventfd, isRunning,
                   fdCallbacks, actorPc, caller, pipeId, opens>>

\* epoll_wait returns -1 (EINTR): UpdateActiveTime, then continue.
WaitInterrupted ==
    /\ wpc = "wait"
    /\ UpdateActiveTime
    /\ wpc' = NextIteration
    /\ UNCHANGED <<ghost, kernel, epollFd, stopEventfd, isRunning, fdCallbacks, actorPc,
                   events, caller>>

\* ShouldStopRunLoop: a successful read of the eventfd clears isRunning_ and
\* breaks out of the loop.
ShouldStopRunLoop ==
    /\ wpc = "events" /\ evCount > 0
    /\ evCount' = 0 /\ isRunning' = FALSE
    /\ wpc' = "exited" /\ events' = {}
    /\ UNCHANGED <<ghost, kfd, pending, edge, interest, epollFd, stopEventfd, fdCallbacks,
                   active, actorPc, mailbox, caller>>

\* Mutant: the new-event pass tests IsReaderActive(fd) instead of its negation.
DispatchEventsInverted ==
    /\ wpc = "events" /\ evCount = 0
    /\ LET fresh == {n \in events : n \in DOMAIN active}
       IN /\ mailbox' = PostHandleEvents(fresh, eventSrc)
          /\ active' = [n \in fresh |-> "fresh"] @@ active
    /\ wpc' = NextIteration /\ events' = {}
    /\ UNCHANGED <<ghost, kernel, epollFd, stopEventfd, isRunning, fdCallbacks, actorPc,
                   caller>>

\* Otherwise (the read finds no signal) the new-event pass: every reported fd
\* not in fdActiveTimestamps_ is dispatched and marked active (IsReaderActive,
\* MarkReaderActive).
DispatchEvents ==
    /\ wpc = "events" /\ evCount = 0
    /\ LET fresh == {n \in events : n \notin DOMAIN active}
       IN /\ mailbox' = PostHandleEvents(fresh, eventSrc)
          /\ active' = [n \in fresh |-> "fresh"] @@ active
    /\ wpc' = NextIteration /\ events' = {}
    /\ UNCHANGED <<ghost, kernel, epollFd, stopEventfd, isRunning, fdCallbacks, actorPc,
                   caller>>

\* 1 ms passes for the timestamp of fd n.  In the code the window elapses
\* whatever the mailbox holds; here time stops while the mailbox is at
\* MaxMailbox, the bound that keeps the state space finite.  It cuts away a
\* lagging actor whose mailbox keeps growing by one re-arm per fd and ms.
Tick(n) ==
    /\ n \in DOMAIN active /\ active[n] = "fresh"
    /\ Len(mailbox) < MaxMailbox
    /\ active' = [active EXCEPT ![n] = "elapsed"]
    /\ UNCHANGED <<ghost, kernel, epollFd, stopEventfd, isRunning, fdCallbacks, actorPc,
                   worker, mailbox, caller>>

WorkerStep == WaitReturn \/ WaitInterrupted \/ ShouldStopRunLoop \/ DispatchEvents

-----------------------------------------------------------------------------
(* The caller: pipes, and requests posted through litebus::Async, one at a *)
(* time (it awaits each future, as the tests do).                          *)

\* A new pipe gets the next identity when identities are tracked.
OpenPipe ==
    /\ Cardinality(Pipes) < MaxPipes
    /\ MaxOpens > 0 => opens < MaxOpens
    /\ \E n \in FreeNums :
          /\ kfd' = [kfd EXCEPT ![n] = "pipe"]
          /\ pending' = [pending EXCEPT ![n] = FALSE]
          /\ used' = IF StaleRemove THEN used \cup {n} ELSE used
          /\ IF MaxOpens > 0
             THEN pipeId' = [pipeId EXCEPT ![n] = opens + 1] /\ opens' = opens + 1
             ELSE UNCHANGED <<pipeId, opens>>
    /\ UNCHANGED <<edge, interest, evCount, monitor, worker, mailbox,
                   callerBusy, started, eventSrc>>

\* Writing to the pipe; an fd in the interest list gets a new edge.
WritePipe(n) ==
    /\ kfd[n] = "pipe"
    /\ pending' = [pending EXCEPT ![n] = TRUE]
    /\ edge' = IF n \in DOMAIN interest THEN edge \cup {n} ELSE edge
    /\ UNCHANGED <<ghost, kfd, interest, evCount, monitor, worker, mailbox, caller>>

\* close(): the kernel drops the fd from the epoll interest list.
ClosePipe(n) ==
    /\ kfd[n] = "pipe"
    /\ kfd' = [kfd EXCEPT ![n] = "free"]
    /\ pending' = [pending EXCEPT ![n] = FALSE]
    /\ interest' = Drop(interest, {n})
    /\ edge' = edge \ {n}
    /\ UNCHANGED <<ghost, evCount, monitor, worker, mailbox, caller>>

Post(msg) ==
    /\ ~callerBusy /\ Len(mailbox) < MaxMailbox
    /\ mailbox' = Append(mailbox, msg)
    /\ callerBusy' = TRUE
    /\ UNCHANGED <<ghost, kernel, monitor, worker, started, used>>

RemoveTargets == {NegFd} \cup (IF StaleRemove THEN used ELSE Pipes)

CallerStep ==
    \/ OpenPipe
    \/ \E n \in Pipes : WritePipe(n) \/ ClosePipe(n)
    \/ ~started /\ Post([op |-> "Start"])
    \/ Post([op |-> "Stop"])
    \/ \E n \in {NegFd} \cup Pipes \cup FreeNums, m \in Masks :
          Post([op |-> "AddFd", fd |-> n, mask |-> m])
    \/ \E n \in RemoveTargets : Post([op |-> "RemoveFd", fd |-> n])

-----------------------------------------------------------------------------

Init ==
    /\ kfd = [n \in Nums |-> "free"]
    /\ pending = [n \in Nums |-> FALSE]
    /\ edge = {} /\ interest = <<>> /\ evCount = 0
    /\ epollFd = EPOLL_FD_INVALID /\ stopEventfd = EPOLL_FD_INVALID
    /\ isRunning = FALSE
    /\ fdCallbacks = <<>> /\ active = <<>>
    /\ actorPc = "idle"
    /\ wpc = "none" /\ events = {}
    /\ mailbox = <<>>
    /\ callerBusy = FALSE /\ started = FALSE
    /\ used = {}
    /\ pipeId = [n \in Nums |-> 0] /\ opens = 0 /\ eventSrc = pipeId

Next ==
    \/ ActorStep
    \/ WorkerStep
    \/ \E n \in Nums : Tick(n)
    \/ CallerStep

\* The actor thread and the worker thread are scheduled by the OS and never
\* stop while they have work; time passes.  The caller is not fair, and
\* neither is EINTR; but a signal does not interrupt every epoll_wait, so
\* a wait that finds a ready fd again and again eventually returns it (SF).
Fairness ==
    /\ WF_vars(ActorStep)
    /\ SF_vars(WaitReturn)
    /\ WF_vars(ShouldStopRunLoop) /\ WF_vars(DispatchEvents)
    /\ \A n \in Nums : WF_vars(Tick(n))

Spec == Init /\ [][Next]_vars /\ Fairness

-----------------------------------------------------------------------------
(* Properties                                                              *)

IsPartialFn(f, D, R) == DOMAIN f \subseteq D /\ \A x \in DOMAIN f : f[x] \in R

Msgs == [op : {"Start", "Stop"}]
        \cup [op : {"AddFd"}, fd : Nums \cup {NegFd}, mask : Masks]
        \cup [op : {"RemoveFd"}, fd : Nums \cup {NegFd}]
        \cup [op : {"HandleEvent"}, fd : Nums, src : 0..MaxOpens]

\* Between two ticks the debounce lets each descriptor add at most one
\* re-arm and one new-event dispatch to the mailbox, beyond the requests
\* (with time capped by MaxMailbox, see Tick, this bounds the mailbox).
MailboxBound == MaxMailbox + 2 * Cardinality(Nums)

TypeOK ==
    /\ kfd \in [Nums -> {"free", "epoll", "event", "pipe"}]
    /\ pending \in [Nums -> BOOLEAN]
    /\ edge \subseteq Nums
    /\ IsPartialFn(interest, Nums, Masks)
    /\ evCount \in 0..1
    /\ epollFd \in Nums \cup {EPOLL_FD_INVALID}
    /\ stopEventfd \in Nums \cup {EPOLL_FD_INVALID}
    /\ isRunning \in BOOLEAN
    /\ IsPartialFn(fdCallbacks, Nums, {NullCb} \cup 0..MaxOpens)
    /\ IsPartialFn(active, Nums, {"fresh", "elapsed"})
    /\ actorPc \in {"idle", "joining"}
    /\ wpc \in Alive \cup {"none", "exited"}
    /\ events \subseteq Nums
    /\ \A i \in DOMAIN mailbox : mailbox[i] \in Msgs
    /\ Len(mailbox) <= MailboxBound
    /\ callerBusy \in BOOLEAN /\ started \in BOOLEAN
    /\ used \subseteq Nums
    /\ pipeId \in [Nums -> 0..MaxOpens] /\ opens \in 0..MaxOpens
    /\ eventSrc \in [Nums -> 0..MaxOpens]

\* The shutdown channel is armed whenever RunLoop may block in epoll_wait:
\* while the worker thread runs, stopEventfd_ is an open eventfd in the epoll
\* interest list, level-triggered.  Stop relies on it to wake the thread
\* before join() (Start, AddStopEvent, RemoveFd, Stop).
StopChannelArmed ==
    wpc \in Alive =>
        /\ stopEventfd # EPOLL_FD_INVALID
        /\ kfd[stopEventfd] = "event"
        /\ stopEventfd \in DOMAIN interest
        /\ interest[stopEventfd] = "LT"

\* Stop never hangs: once Stop has signalled the eventfd and entered join(),
\* the worker leaves RunLoop and Stop completes (StopRunLoop, RunLoop).
StopCompletes == actorPc = "joining" ~> actorPc = "idle"

\* A pipe that holds data while it is registered with a callback and the
\* monitor runs is eventually drained by its callback, unless it is removed,
\* closed or the monitor stops: the debounce of RunLoop never silences a
\* descriptor for good (UpdateActiveTime, IsReaderActive, MarkReaderActive).
Monitored(n) ==
    /\ kfd[n] = "pipe" /\ pending[n] /\ isRunning
    /\ n \in DOMAIN interest
    /\ n \in DOMAIN fdCallbacks /\ fdCallbacks[n] # NullCb

ReadableDataDispatched == \A n \in Nums : Monitored(n) ~> ~Monitored(n)

\* Each callback sees only its own pipe (spec P6, fan-out isolation): when
\* HandleEvent runs a caller callback for a descriptor, the readiness it
\* dispatches was reported for the pipe that callback was registered with,
\* not for an earlier pipe that had the same descriptor number (RunLoop
\* posts HandleEvent by number; RemoveFd, close and AddFd may run between
\* epoll_wait and the dispatch, and before the message is handled).
CallbackForOwnPipe ==
    [][HandleEvent /\ Head(mailbox).fd \in DOMAIN fdCallbacks
                   /\ fdCallbacks[Head(mailbox).fd] # NullCb
         => Head(mailbox).src = fdCallbacks[Head(mailbox).fd]]_vars

\* The lifecycle of MonitorLifecycle seen in the actor: Stop waits in join()
\* ("stopping"); without a worker thread the monitor is idle; otherwise it
\* runs.  The abstract loop exists while RunLoop has not returned.
LifecyclePhase ==
    CASE actorPc = "joining" -> "stopping"
      [] wpc = "none"        -> "idle"
      [] OTHER               -> "running"

Lifecycle == INSTANCE MonitorLifecycle WITH
                 phase <- LifecyclePhase, loop <- (wpc \in Alive)

\* The actor implements the abstract lifecycle: Start launches the worker
\* only from idle, RunLoop returns only after StopRunLoop asked it to (the
\* eventfd or isRunning_), Stop's cleanup (closing the epoll fd and the
\* eventfd) happens only after join() saw the thread leave, and a Stop that
\* entered join() returns.
ImplementsLifecycle == Lifecycle!Spec

=============================================================================
