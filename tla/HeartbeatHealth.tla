--------------------------- MODULE HeartbeatHealth ---------------------------
(***************************************************************************)
(* Health gating of the HTTP metrics exporter.                             *)
(*                                                                         *)
(* Two execution contexts interact:                                        *)
(*  - the exporter thread, which calls HttpExporter::Export/PushMetrics    *)
(*    and, on a failed push, StartMonitor;                                 *)
(*  - the HttpHeartbeatObserver litebus actor, whose handlers run one at a *)
(*    time from its mailbox: RegisterOnHealthChangeCb, Start and Ping (the *)
(*    last one also delivered by the litebus timer armed with AsyncAfter). *)
(* The observer writes the exporter's atomic healthy_ through the onChange *)
(* callback that HttpExporter::RegisterOnHealthChangeCb installs.          *)
(*                                                                         *)
(* HTTP results are integers chosen from small sets; the backend is up or  *)
(* down and may change a bounded number of times.                          *)
(***************************************************************************)
EXTENDS Integers, Sequences

CONSTANTS
    HasHeartbeatUrl,   \* heartbeatParam_.heartbeatUrl is not empty
    UpPushCodes,       \* codes SendRequest may return for a push while the backend is up
    DownPushCodes,     \* ... while it is down (negative values are -CURLcode)
    UpPingCodes,       \* codes of a health check while the backend is up
    DownPingCodes,     \* ... while it is down
    MaxFlaps,          \* bound on backend up/down changes
    MaxMailbox,        \* bound on the observer mailbox, checked by the exporter thread
    MaxRegisters,      \* bound on RegisterOnHealthChangeCb calls
    MayDestroy         \* the exporter may be destroyed

ASSUME /\ HasHeartbeatUrl \in BOOLEAN
       /\ \A S \in {UpPushCodes, DownPushCodes, UpPingCodes, DownPingCodes} :
            S # {} /\ S \subseteq Int
       /\ MaxFlaps \in Nat /\ MaxMailbox \in Nat \ {0} /\ MaxRegisters \in Nat \ {0}
       /\ MayDestroy \in BOOLEAN

CODE_OK == 200
CODE_100 == 100
CODE_400 == 400

\* The observer actors: the n-th RegisterOnHealthChangeCb spawns observer n.
Obs == 1..MaxRegisters
NoClient == 0

VARIABLES
    expHealthy,   \* HttpExporter::healthy_
    regs,         \* RegisterOnHealthChangeCb calls so far
    client,       \* the observer of httpHeartBeatClient_, NoClient while it is null
    epc,          \* exporter thread: "idle", "sending" (past the health check),
                  \* "awaiting" (destroying the previous client), "destroying"
                  \* (~HttpExporter destroying the client) or "gone"
    awaited,      \* the observer ~HttpHeartBeatClient awaits, NoClient if none
    obsHealthy,   \* obsHealthy[o]: HttpHeartbeatObserver::healthy_
    onChange,     \* onChange[o]: onChange_ != nullptr
    handleLive,   \* handleLive[o]: timer_ refers to an armed timer
    armed,        \* armed[o]: timers armed by o's AsyncAfter, not yet fired or cancelled
    mailbox,      \* mailbox[o]: o's litebus mailbox
    live,         \* live[o]: o is spawned and not terminated
    backendUp,    \* the push/health-check backend answers
    flaps         \* number of backend changes so far

exporter == <<expHealthy, regs, client, epc, awaited>>
observer == <<obsHealthy, onChange, handleLive, armed, mailbox, live>>
env == <<backendUp, flaps>>
vars == <<exporter, observer, env>>

PushCodes == IF backendUp THEN UpPushCodes ELSE DownPushCodes
PingCodes == IF backendUp THEN UpPingCodes ELSE DownPingCodes

Init ==
    /\ expHealthy = TRUE
    /\ regs = 0 /\ client = NoClient /\ epc = "idle" /\ awaited = NoClient
    /\ obsHealthy = [o \in Obs |-> TRUE]
    /\ onChange = [o \in Obs |-> FALSE]
    /\ handleLive = [o \in Obs |-> FALSE]
    /\ armed = [o \in Obs |-> 0]
    /\ mailbox = [o \in Obs |-> <<>>]
    /\ live = [o \in Obs |-> FALSE]
    /\ backendUp \in BOOLEAN
    /\ flaps = 0

Post(o, m) == mailbox' = [mailbox EXCEPT ![o] = Append(@, m)]

-----------------------------------------------------------------------------
(* Exporter thread.                                                        *)

\* Mutant: dropping the previous client awaits its observer without
\* terminating it.
RegisterOnHealthChangeCbNoTerminate ==
    /\ epc = "idle" /\ regs < MaxRegisters
    /\ regs' = regs + 1
    /\ IF HasHeartbeatUrl
       THEN LET o == regs + 1 IN
            /\ client' = o
            /\ live' = [live EXCEPT ![o] = TRUE]
            /\ IF client = NoClient
               THEN Post(o, "Register") /\ UNCHANGED <<epc, awaited>>
               ELSE epc' = "awaiting" /\ awaited' = client /\ UNCHANGED mailbox
       ELSE UNCHANGED <<client, epc, awaited, mailbox, live>>
    /\ UNCHANGED <<expHealthy, obsHealthy, onChange, handleLive, armed, env>>

\* RegisterOnHealthChangeCb: with a heartbeat url, create a client, which
\* spawns a new observer, and store it in httpHeartBeatClient_.  Dropping
\* the previous client terminates its observer and awaits it; then the
\* observer's RegisterOnHealthChangeCb is posted.
RegisterOnHealthChangeCb ==
    /\ epc = "idle" /\ regs < MaxRegisters
    /\ regs' = regs + 1
    /\ IF HasHeartbeatUrl
       THEN LET o == regs + 1 IN
            /\ client' = o
            /\ live' = [live EXCEPT ![o] = TRUE]
            /\ IF client = NoClient
               THEN Post(o, "Register") /\ UNCHANGED <<epc, awaited>>
               ELSE Post(client, "Terminate") /\ epc' = "awaiting" /\ awaited' = client
       ELSE UNCHANGED <<client, epc, awaited, mailbox, live>>
    /\ UNCHANGED <<expHealthy, obsHealthy, onChange, handleLive, armed, env>>

\* Await returns once the old observer has terminated.
RegisterAwaited ==
    /\ epc = "awaiting" /\ ~live[awaited]
    /\ epc' = "idle" /\ awaited' = NoClient
    /\ Post(client, "Register")
    /\ UNCHANGED <<expHealthy, regs, client, obsHealthy, onChange, handleLive,
                   armed, live, env>>

\* PushMetrics up to SendRequest: drop the export while a client exists and
\* healthy_ is false; otherwise go on to send.
PushMetricsCheck ==
    /\ epc = "idle"
    /\ client # NoClient => Len(mailbox[client]) < MaxMailbox
    /\ epc' = IF client # NoClient /\ ~expHealthy THEN "idle" ELSE "sending"
    /\ UNCHANGED <<expHealthy, regs, client, awaited, observer, env>>

\* StartMonitor: with a client, HttpHeartBeatClient::Start posts Start.
StartMonitor ==
    IF client # NoClient THEN Post(client, "Start") ELSE UNCHANGED mailbox

\* PushMetrics from SendRequest on: a code outside [100, 400) fails the
\* push and calls StartMonitor.
PushMetricsSend ==
    /\ epc = "sending"
    /\ \E code \in PushCodes :
         IF code < CODE_100 \/ code >= CODE_400
         THEN StartMonitor
         ELSE UNCHANGED mailbox
    /\ epc' = "idle"
    /\ UNCHANGED <<expHealthy, regs, client, awaited, obsHealthy, onChange,
                   handleLive, armed, live, env>>

\* ~HttpExporter: members are destroyed in reverse order of declaration, so
\* httpHeartBeatClient_ goes first, while healthy_ still exists; dropping it
\* terminates the observer and awaits it.
DestroyExporter ==
    /\ MayDestroy /\ epc = "idle"
    /\ IF client # NoClient
       THEN Post(client, "Terminate") /\ epc' = "destroying" /\ awaited' = client
       ELSE epc' = "gone" /\ UNCHANGED <<mailbox, awaited>>
    /\ UNCHANGED <<expHealthy, regs, client, obsHealthy, onChange, handleLive,
                   armed, live, env>>

\* Mutant: the exporter is gone before the client's observer has terminated.
DestroyAwaitedNoWait ==
    /\ epc = "destroying"
    /\ epc' = "gone" /\ awaited' = NoClient
    /\ UNCHANGED <<expHealthy, regs, client, observer, env>>

\* Await returns; healthy_ and the rest of the exporter are destroyed.
DestroyAwaited ==
    /\ epc = "destroying" /\ ~live[awaited]
    /\ epc' = "gone" /\ awaited' = NoClient
    /\ UNCHANGED <<expHealthy, regs, client, observer, env>>

-----------------------------------------------------------------------------
(* Observer actors.                                                        *)

\* Stop: cancel timer_ unless it has expired.
StopTimer(o) ==
    /\ handleLive' = [handleLive EXCEPT ![o] = FALSE]
    /\ armed' = IF handleLive[o] THEN [armed EXCEPT ![o] = @ - 1] ELSE armed

\* timer_ = AsyncAfter(...): a timer still armed under the old handle is
\* no longer reachable through timer_ but still fires.
ArmTimer(o) ==
    /\ handleLive' = [handleLive EXCEPT ![o] = TRUE]
    /\ armed' = [armed EXCEPT ![o] = @ + 1]

\* onChange_(status): the exporter's callback stores status into healthy_.
NotifyChange(o, status) ==
    expHealthy' = IF onChange[o] THEN status ELSE expHealthy

SetHealthy(o, status) == obsHealthy' = [obsHealthy EXCEPT ![o] = status]

\* Mutant: a failed check does not schedule the retry.
PingNoRetry(o) ==
    \E code \in PingCodes :
      IF code # CODE_OK
      THEN /\ SetHealthy(o, FALSE)
           /\ NotifyChange(o, FALSE)
           /\ UNCHANGED <<handleLive, armed>>
      ELSE /\ SetHealthy(o, TRUE)
           /\ NotifyChange(o, TRUE)
           /\ StopTimer(o)

\* Mutant: a successful check does not call onChange_.
PingSilentRecovery(o) ==
    \E code \in PingCodes :
      IF code # CODE_OK
      THEN /\ SetHealthy(o, FALSE)
           /\ NotifyChange(o, FALSE)
           /\ ArmTimer(o)
      ELSE /\ SetHealthy(o, TRUE)
           /\ UNCHANGED expHealthy
           /\ StopTimer(o)

\* Ping: one health check; on failure mark unhealthy and retry after
\* pingCycleMs_, on CODE_OK mark healthy and Stop.
Ping(o) ==
    \E code \in PingCodes :
      IF code # CODE_OK
      THEN /\ SetHealthy(o, FALSE)
           /\ NotifyChange(o, FALSE)
           /\ ArmTimer(o)
      ELSE /\ SetHealthy(o, TRUE)
           /\ NotifyChange(o, TRUE)
           /\ StopTimer(o)

\* Observer o handles the message at the head of its mailbox.
Receive(o, m) ==
    /\ live[o] /\ mailbox[o] # <<>> /\ Head(mailbox[o]) = m
    /\ mailbox' = [mailbox EXCEPT ![o] = Tail(@)]

ObserverRegister(o) ==
    /\ Receive(o, "Register")
    /\ onChange' = [onChange EXCEPT ![o] = TRUE]
    /\ UNCHANGED <<exporter, obsHealthy, handleLive, armed, live, env>>

\* Mutant: Start pings without the healthy_ check.
ObserverStartUnguarded(o) ==
    /\ Receive(o, "Start")
    /\ Ping(o)
    /\ UNCHANGED <<regs, client, epc, awaited, onChange, live, env>>

\* Start: skipped unless healthy_ (the url is non-empty whenever the client
\* exists); otherwise Ping.
ObserverStart(o) ==
    /\ Receive(o, "Start")
    /\ IF obsHealthy[o]
       THEN Ping(o)
       ELSE UNCHANGED <<expHealthy, obsHealthy, handleLive, armed>>
    /\ UNCHANGED <<regs, client, epc, awaited, onChange, live, env>>

ObserverPing(o) ==
    /\ Receive(o, "Ping")
    /\ Ping(o)
    /\ UNCHANGED <<regs, client, epc, awaited, onChange, live, env>>

\* Terminate: Finalize runs Stop, and the messages behind it are dropped.
ObserverTerminate(o) ==
    /\ live[o] /\ mailbox[o] # <<>> /\ Head(mailbox[o]) = "Terminate"
    /\ StopTimer(o)
    /\ live' = [live EXCEPT ![o] = FALSE]
    /\ mailbox' = [mailbox EXCEPT ![o] = <<>>]
    /\ UNCHANGED <<exporter, obsHealthy, onChange, env>>

\* An armed litebus timer of o expires and posts Ping to o (dropped once o
\* has terminated); it is the one timer_ holds (which then reports Expired)
\* or an unreachable one.
TimerFires(o) ==
    /\ armed[o] > 0
    /\ \E own \in BOOLEAN :
         /\ own => handleLive[o]
         /\ ~own => armed[o] > IF handleLive[o] THEN 1 ELSE 0
         /\ handleLive' = [handleLive EXCEPT ![o] = handleLive[o] /\ ~own]
    /\ armed' = [armed EXCEPT ![o] = @ - 1]
    /\ IF live[o] THEN Post(o, "Ping") ELSE UNCHANGED mailbox
    /\ UNCHANGED <<exporter, obsHealthy, onChange, live, env>>

-----------------------------------------------------------------------------
(* Environment.                                                            *)

BackendChanges ==
    /\ flaps < MaxFlaps
    /\ backendUp' = ~backendUp
    /\ flaps' = flaps + 1
    /\ UNCHANGED <<exporter, observer>>

ObserverStep(o) ==
    ObserverRegister(o) \/ ObserverStart(o) \/ ObserverPing(o) \/ ObserverTerminate(o)

Next ==
    \/ RegisterOnHealthChangeCb \/ RegisterAwaited
    \/ PushMetricsCheck \/ PushMetricsSend
    \/ DestroyExporter \/ DestroyAwaited
    \/ \E o \in Obs : ObserverStep(o) \/ TimerFires(o)
    \/ BackendChanges

\* Every observer drains its mailbox, litebus timers fire, a request that
\* is being sent returns (curl is synchronous, with CURLOPT_TIMEOUT) and
\* Await returns once the awaited actor has terminated.  The exporter's
\* periodic Export and RegisterOnHealthChangeCb calls and the backend are
\* not assumed fair.
Fairness ==
    /\ \A o \in Obs : WF_vars(ObserverStep(o)) /\ WF_vars(TimerFires(o))
    /\ WF_vars(PushMetricsSend)
    /\ WF_vars(RegisterAwaited) /\ WF_vars(DestroyAwaited)

Spec == Init /\ [][Next]_vars /\ Fairness

-----------------------------------------------------------------------------
(* Properties.                                                             *)

\* A health check is scheduled or queued for observer o: an armed timer or
\* a Ping in its mailbox.
RecoveryPending(o) ==
    armed[o] > 0 \/ \E i \in 1..Len(mailbox[o]) : mailbox[o][i] = "Ping"

\* While PushMetrics drops exports (the exporter's healthy_ is false), the
\* client's observer always has a retry of Ping pending: a failed Ping
\* re-arms the timer before anything else runs, so the exporter is never
\* left gated with nothing that could make it healthy again.
GatedExportsRecover ==
    client # NoClient /\ ~expHealthy => RecoveryPending(client)

\* At most one retry timer per observer is ever armed: Ping re-arms timer_
\* only from a failed check, and Start pings only while healthy_, when no
\* timer is live.  A second one would double the health-check rate for good.
SingleRetryTimer ==
    \A o \in Obs : armed[o] <= 1

\* If the backend ends up answering for good, the exporter ends up healthy
\* for good, so exports stop being dropped.
HealthRecovers ==
    <>[]backendUp => <>[]expHealthy

\* No observer touches a destroyed exporter: once ~HttpExporter has
\* finished, no step changes healthy_ through the onChange callback, which
\* holds a reference to it (the order in which ~HttpExporter destroys its
\* members, ~HttpHeartBeatClient's Terminate and Await, Finalize).
NoWriteAfterDestroy ==
    [][epc = "gone" => UNCHANGED expHealthy]_vars

\* Dropping a heartbeat client never blocks the exporter thread for good:
\* the Await of ~HttpHeartBeatClient, run by a second RegisterOnHealthChangeCb
\* or by ~HttpExporter, returns, whatever Pings the observer still has queued
\* or armed, because the Terminate it posts is handled in mailbox order and
\* the timers that fire afterwards find the observer gone.
ClientTeardownCompletes ==
    epc \in {"awaiting", "destroying"} ~> epc \in {"idle", "gone"}

=============================================================================
