# TLA+ models of the runtime-manager std monitor and the metrics exporters

This directory holds TLA+ models of parts of this repository and the TLC
configurations that check them. `PROJECT.json` is the machine-readable index. It has:

- the components;
- the runs and what each one checks;
- one mutant per checked property;
- the source lines each definition translates;
- the findings;
- the hazards.

## 1. The system

There are two independent subsystems in the source tree.

**Std monitor** (`src/functionsystem/src/runtime_manager/std_monitor/`) watches the
stdout/stderr pipes of runtime processes.

- `StdMonitor` (std_monitor.cpp) is a facade.
  - `Start` spawns a fresh `StdMonitorActor` and forwards to it.
  - `AddFd` and `RemoveFd` forward through `litebus::Async`.
  - `Stop` posts `Stop`, then `Terminate` and `Await`.
- `StdMonitorActor` (std_monitor_actor.cpp) is a litebus actor. Its handlers run
  one at a time on the actor thread: `Start`, `Stop`, `AddFd`, `RemoveFd` and
  `HandleEvent`.
- `Start` does three things:
  - creates an epoll instance;
  - registers an internal eventfd (`AddStopEvent`) with a null callback, so it
    also sits in `fdCallbacks_`;
  - spawns a worker `std::thread` running `RunLoop`.
- `RunLoop` repeats the following:
  - `epoll_wait(-1)`;
  - `UpdateActiveTime`: forget fds whose last dispatch is 1 ms old, and post a
    `HandleEvent` for each of them;
  - `ShouldStopRunLoop`: read the eventfd;
  - post a `HandleEvent` for every reported fd that is not in its debounce window.
- `Stop` does three things:
  - clears `isRunning_` and writes the eventfd (`StopRunLoop`);
  - joins the worker;
  - closes the epoll fd and the eventfd and clears `fdCallbacks_`.
- The worker touches `fdActiveTimestamps_` only, and nothing ever clears it.

**Metrics exporters** (`src/common/metrics/`):

- `HttpExporter` pushes serialized metrics with `CurlHelper`.
  - A failed push marks the exporter unhealthy and starts an
    `HttpHeartbeatObserver` actor (through `HttpHeartBeatClient`).
  - The observer pings every `heartbeatInterval` until it gets a 200, then
    reports healthy and cancels its timer.
  - While unhealthy, `PushMetrics` drops exports.
- `Export` merges `MetricData` by name, serializes every merged family into one
  body and hands it to `PushMetrics`.
- `PrometheusPushExporter` is an `HttpExporter` built from a JSON string. If the
  string does not parse, or a field has the wrong JSON type, the constructor
  returns before `Init`, leaving `curlHelper_` and `serializer_` null.
- `CurlHelper` wraps one libcurl easy handle, and `SendRequest` returns -1
  without one.
- `PrometheusTextSerializer` formats metrics in the Prometheus text format and
  escapes label values.

The IAM server files are declarations only.

## 2. Modules

| Module | Models | Status |
|---|---|---|
| `StdMonitorActor` | `StdMonitorActor`, the kernel state it relies on, and the facade's `Async` forwarding | modelled |
| `MonitorLifecycle` | The abstract lifecycle the actor promises (idle, running, stopping) | abstract specification |
| `StdMonitor` | The `StdMonitor` facade: an actor per `Start`, `Stop` as `Async(Stop)` + `Terminate` + `Await`, `ASSERT_IF_NULL` | modelled |
| `HeartbeatHealth` | `HttpExporter::PushMetrics`, `StartMonitor`, `RegisterOnHealthChangeCb` and destruction, and every `HttpHeartbeatObserver` with its retry timer | modelled |
| `ExportMerge` | The `PrometheusPushExporter` constructor, then `HttpExporter::Export` (merge by name, serialization with the real text of `PrometheusFormat`), `PushMetrics` and `CurlHelper::SendRequest` | modelled |
| `PrometheusFormat` | The text the serializer writes for one `MetricData` (HELP, TYPE, sample lines) as operators, plus a reference exposition-format reader of whole bodies | modelled |
| `PrometheusText` | `PrometheusTextSerializer::Serialize` of one `MetricData`, checked against the reader | modelled |
| `MC_*` | Constant definitions for TLC | — |

### StdMonitorActor: state

**Kernel.** This state is not in the program, but the program's behaviour depends on it.

- `kfd[n]`: what descriptor number `n` is (free, epoll, eventfd, pipe). Numbers are reused.
- `pending`: pipes with unread data.
- `edge`: pending edge-triggered reports.
- `interest`: the epoll interest list, from fd to "LT" or "ET".
- `evCount`: the eventfd counter.

**Actor.** These are the members at std_monitor_actor.h:60-66.

- `epollFd`, `stopEventfd`, `isRunning`, `fdCallbacks` and `active`.
- `active` is `fdActiveTimestamps_`. A timestamp is abstracted to "fresh" or
  "elapsed" (1 ms passed). `Tick(n)` is the passage of time.
- `pipeMaxSize_` and `F_SETPIPE_SZ` do not affect control flow. They are
  abstracted into `AddFdRejected` (fcntl failures).

**Actor thread.** `actorPc` is either idle or "joining", meaning `Stop` is blocked
in `join()`. `mailbox` is the litebus mailbox (a FIFO of messages).

**Worker thread.** `wpc` is the program counter ("none", "wait", "events",
"exited"). `events` holds the result of the last `epoll_wait`.

**Caller.** This is the facade's user, or the tests.

- `callerBusy`: one outstanding request.
- `started`: whether the last `Start` succeeded.
- `used`: numbers the caller has closed but may still `RemoveFd`. It is tracked only
  when `StaleRemove` is TRUE.
- **Pipe identities** (`pipeId`, `opens`, `eventSrc`) are history variables, kept
  only when `MaxOpens > 0`. Each opened pipe gets a fresh identity, `AddFd` stores
  the identity of the pipe behind the number as its "callback", and `WaitReturn`
  records which pipe each reported number belonged to. `HandleEvent` messages carry
  that identity, so a callback can be told apart from the pipe its readiness came
  from when a number is reused.
- The caller opens, writes and closes pipes, and posts `Start`, `AddFd`,
  `RemoveFd` and `Stop`.

### StdMonitorActor: actions

Each handler is one atomic action, because litebus runs one message at a time.
Its failure paths are separate actions:

- `Start` is `EpollCreateFails`, `EventfdFails`, `StopEventCtlFails` or `StartOk`.
- `AddFd` is `AddFdRejected` or `AddFdOk`.
- `StopMonitoringFd` returns "fail", "absent" or "deleted".

`Stop` has two halves, because `join()` blocks the actor thread while the worker runs:

- `StopRunLoop` clears `isRunning` and signals the eventfd.
- `StopCleanup` needs the worker to have exited.

The worker's steps are:

- `WaitReturn`: `epoll_wait` returns with the ready fds. Edges are consumed, then
  `UpdateActiveTime` runs.
- `WaitInterrupted`: EINTR.
- `ShouldStopRunLoop`: the eventfd is readable.
- `DispatchEvents`: the new-event pass.
- `NextIteration`: the `while (isRunning_)` test.

Two code steps are merged into neighbouring actions. This is sound because they
commute with every other step except `StopRunLoop`'s writes, which they read:

- the loop test is folded into `NextIteration`;
- the eventfd read is folded into the step after `epoll_wait`.

The refinement mapping to `MonitorLifecycle` (`LifecyclePhase`) is:

- "stopping" while `Stop` is blocked in `join()`;
- "idle" without a worker thread;
- "running" otherwise.

The abstract `loop` exists while `RunLoop` has not returned.
`ImplementsLifecycle == Lifecycle!Spec` is checked as a property.

### StdMonitor

The facade composes many actors, each abstracted to the lifecycle
`StdMonitorActor` is checked to implement: whether its `RunLoop` runs, whether it
is live (not yet terminated), whether its stop eventfd is armed, and its litebus
mailbox.

- `Start` spawns actor `spawned + 1`, makes it `actor_` and posts its `Start`.
- `StopPost` posts `Stop` and `Terminate`, and leaves the caller in `Await`.
- `StopAwaited` wakes once the actor has terminated. It sets `actor_` to null,
  and the destructor's `Stop` runs.
- `Forward` is `AddFd` or `RemoveFd`. When `StaleRemove` holds, it may also be a
  `RemoveFd` of a number the caller already closed. `ActorStaleRemove` handles
  it as the case where the kernel reused that number for the stop eventfd, so
  the eventfd is disarmed.
- `AssertNull` is a call that reaches `ASSERT_IF_NULL` with a null `actor_`.
  The caller stops there ("aborted").
- `ActorHandle(a)` handles the head of actor `a`'s mailbox. `Terminate` runs
  `Finalize`, and the messages behind it are dropped. The actor's `Stop` is
  `Blocked` in `join()` when the worker runs and the eventfd is disarmed. Then
  nothing behind it is ever handled, which is what the `stale_remove` run shows in
  `StdMonitorActor`.

Three constants describe the caller:

- `MayRestart`: it may `Start` while `actor_` refers to an actor.
- `MayCallAfterStop`: it may call the facade again after `Stop`.
- `StaleRemove`: it may remove a descriptor it already closed.

### HeartbeatHealth

There are two execution contexts.

**Exporter thread.**

- `RegisterOnHealthChangeCb` creates the client for a new observer and posts
  `Register`. When a client already exists, its destructor first terminates and
  awaits the old observer (`RegisterAwaited` is the return from `Await`).
- `PushMetricsCheck` reads `healthy_` and drops the export while unhealthy.
- `PushMetricsSend` sends. A code outside [100, 400) calls `StartMonitor`, which
  posts `Start`.
- `DestroyExporter` and `DestroyAwaited` model `~HttpExporter` (when `MayDestroy`):
  the client's destructor terminates the observer, and `healthy_` goes away only
  after `Await` returned.
- Checking health and sending are separate steps, because the observer can run
  between them.

**Observer actors.** Every registration gets its own observer (`Obs ==
1..MaxRegisters`). Each handles its mailbox in FIFO order:

- `ObserverRegister`.
- `ObserverStart`: ping only if `healthy_`.
- `ObserverPing`: a Ping delivered by the timer.
- `ObserverTerminate`: `Finalize` cancels the timer. The observer is no longer
  live, and its mailbox is dropped. A timer that fires afterwards delivers
  nowhere.

`Ping` does one of two things:

- On a code other than 200, it clears `healthy_`, calls `onChange_(false)` (which
  stores into the exporter's `healthy_`) and re-arms the timer with `AsyncAfter`.
- On 200, it sets `healthy_`, calls `onChange_(true)` and `Stop`. `Stop` cancels
  `timer_` unless it has expired.

**Timers.** `armed` counts armed litebus timers. `handleLive` says whether `timer_`
still refers to one of them. Overwriting a live `timer_` would leave a timer that
fires but can no longer be cancelled.

**Backend.** The backend is up or down and may change `MaxFlaps` times. Response
codes are drawn from small sets: a 2xx and a 4xx while up, a negated curl error
and a 503 while down.

### ExportMerge

`ExportMerge` composes the exporter with the serializer. It uses
`Text == INSTANCE PrometheusFormat`.

**Construction.** `Init` picks a configuration string from `Configs` and builds
the exporter from it:

- A configuration is well-formed JSON or not. Each field is absent, a string, or
  a number.
- `Constructed` holds when the string parses and every present field converts
  (`FieldConverts`). Only then are `curlHelper_` and `serializer_` created.
- `CurlHandleOutcomes` is whether `CurlHelper`'s constructor got a curl handle.

**Export.** The state machine follows the code's two loops:

- `MergeStep`: one iteration over `metricDataVec`.
- `MergeDone`.
- `SerializeStep`: one map entry, in nondeterministic order. It appends the
  text `SerializeMetric` writes, or returns `FAILURE` with a null serializer.
- `PushMetrics`: `FAILURE` with a null `curlHelper_`, otherwise `SendRequest`.
  `SendRequest` returns -1 without a handle; otherwise `sent` is the body curl
  sends, with any response code.

The reference `MergedFamilies` states the merge over the whole input:

- the first MetricData of a name, with all its points;
- then the first point of each later one;
- MetricData without points are skipped.

### PrometheusFormat and PrometheusText

`SerializeMetric` writes one `MetricData` in the text format:

- `SerializeHelp`: the HELP line with the description, written raw.
- `SerializeMetricByType`: the TYPE line; for a counter or a gauge, one sample line
  per point; for a type the switch has no case for, nothing.
- `SerializeContentHead` writes the name, the label block and a space. Label values
  are escaped by `WriteStringValue`.

Text is a sequence of one-character strings. A name, a keyword and a formatted
number are one token each.

`ReadBody` is a reader of exposition format 0.0.4, written independently of the
serializer:

- It splits the text into lines (`Lines`).
- It unescapes HELP text (`ReadDoc`: `\\` and `\n`) and label values
  (`ReadValue`).
- It requires the lines of one metric to form one group, with at most one HELP
  and one TYPE line.
- It rejects anything malformed.

`Family(m)` is what a reader should get back from a metric. `PrometheusText`
adds the `Serialize` action for one metric.

## 3. Runs

The `StdMonitorActor` runs use `MC_StdMonitorActor`. It sets:

- `Nums = 1..3`: descriptor numbers, enough for the epoll fd, the eventfd and a pipe.
- `MaxPipes = 1`.
- `MaxMailbox = 2`: the mailbox length at which `Tick` stops, which bounds the
  re-arm posts. In the code, time passes whatever the mailbox holds. The cap
  therefore leaves out the growth of a lagging actor's mailbox, which is recorded
  as a hazard.
- `MaxOpens = 0` (no pipe identities), except in `stale_dispatch`, where it is 2.

| Run | Expect | Checks | Shows |
|---|---|---|---|
| `core` (MC_core.cfg) | pass | TypeOK, StopChannelArmed, StopCompletes, ReadableDataDispatched, ImplementsLifecycle | This run uses LT registrations, every `Start` failure (`CtlMayFail`) and number reuse. The eventfd stays armed while the worker lives, and every `Stop` returns. Readable data is always dispatched. The mailbox stays bounded (TypeOK), but only because time is capped by `MaxMailbox`, so this run cannot show a lagging actor's mailbox growing. The actor implements `MonitorLifecycle`. About 213k distinct states, about 3 minutes. |
| `edge_triggered` | violation | ReadableDataDispatched | With EPOLLET, as std_monitor_test.cpp registers, an edge inside the fd's debounce window is consumed and never reported again. |
| `stale_remove` | violation | StopCompletes | A `RemoveFd` of a closed number can hit the stop eventfd, if the kernel reused that number for it. This disarms the shutdown channel, and `Stop` hangs in `join()`. |
| `stale_dispatch` | violation | CallbackForOwnPipe | A `HandleEvent` posted for a number that was removed, closed, reopened and re-added before dispatch runs the new pipe's callback for the old pipe's readiness (spec P6). The caller always removes before it closes. |
| `facade` (MC_facade.cfg) | pass | NoOrphanLoop, StopReturns | The caller never restarts a referenced actor, but may call after `Stop` and may remove closed descriptors. Every `Start` failure can happen. `Stop` returns unless a stale `RemoveFd` disarmed the stopped actor's eventfd; in that case the caller stays in `Await` for good. No worker thread outlives the facade's reference. |
| `facade_stop_twice` | violation | NeverAborts | A second `Stop`, or `AddFd` after `Stop`, reaches `ASSERT_IF_NULL` with a null `actor_`. Spec P8 and P9 say it should be a no-op, or fail and return. |
| `health` (MC_health.cfg) | pass | SingleRetryTimer, NoWriteAfterDestroy, ClientTeardownCompletes | This run has up to three registrations and the exporter's destruction. A `Start` queued behind a failed Ping never arms a second timer. Nothing writes the exporter's `healthy_` once it is destroyed. The `Await` of every dropped client returns, because the `Terminate` it posts is handled in mailbox order, behind any queued Pings, and a timer that fires later finds the observer gone. |
| `recovery` (MC_recovery.cfg) | pass | GatedExportsRecover, HealthRecovers | With one registration: while the exporter drops exports, a health-check retry is always pending. If the backend stays up from some point on, the exporter ends up healthy for good. |
| `reregister` | violation | HealthRecovers | A second `RegisterOnHealthChangeCb` while unhealthy cancels the pending retry. The new observer believes it is healthy, so exports are dropped forever. |
| `merge` (MC_merge.cfg) | pass | BodyReadsAsMerged | Three configurations are tried: the tests' form, a string that is not JSON, and a string-typed `heartbeatInterval`. Each is tried with and without a curl handle, on every input of at most 3 MetricData. Inputs have 2 names, counter or histogram, an optional description, and up to 2 points of at most one label. The body curl sends reads back as each merged family exactly once, equal to the reference merge, in whatever order. 5.8M states, under 2 minutes. |
| `family` (MC_family.cfg) | pass | FamilyRoundTrip | Every metric of every type, with up to 2 points of up to 2 labels, is read back exactly. Label values are one character from {newline, `\`, `"`, `,`, letter}, and descriptions are letters. 570k states. |
| `help_escape` | violation | FamilyRoundTrip | A description holding a backslash or a newline is written raw in the HELP line, and the reader gets a different family back or rejects the text. |

The findings in `PROJECT.json` explain each violation against `spec.md`.

The model also holds behaviours that no run checks, because the runs are limited to
the twelve questions above. The hazards in `PROJECT.json` record them:

- a failed `Start` leaves the epoll fd open, and a retry leaks it;
- `AddFd` after a failed `Start` returns true without a worker;
- a facade restart (`MayRestart`) orphans the running actor;
- an observer whose `CurlHelper` has no curl handle fails every Ping, so the
  exporter never recovers (`HeartbeatHealth` draws ping codes from the backend's
  state only, so `HealthRecovers` assumes the observer has a handle).

Three numbers are enough to reach every case of interest:

- one pipe sharing the table with both internal fds;
- the number reuse between a pipe and the eventfd;
- a leaked epoll fd next to a new one.

With a mailbox bound of 2, a re-arm post can queue behind a caller request. Two
pipe identities are what the stale-dispatch case needs: a first pipe and the pipe
that reuses its number.

`StdMonitor` allows 3 `Start`s (`MCMaxStarts`): a restart after `Stop`, and a
third `Start` after a second `Stop`. It allows 3 forwarded calls per mailbox.

Bounds for `HeartbeatHealth`:

- `MaxMailbox = 4` (3 in `reregister`): lets two failed pushes queue two
  `Start`s behind a `Register` or a Ping. This is the case `SingleRetryTimer` is
  about. It also lets a `Terminate` queue behind Pings.
- `MaxFlaps = 3` (5 in `recovery`): lets the backend fail, recover and fail again
  while retries are pending.
- `MaxRegisters = 3` in `health`: a client is replaced twice, each time possibly
  with a retry pending. `recovery` has one registration, and `reregister` has
  two.

The merge and serializer bounds are enough to reach each case:

- a duplicate name with several points, whose later MetricData has another type
  or description (merge);
- a value that holds `"`, `\` or a newline next to a comma (labels);
- several points, and a TYPE line without samples (histogram) or no TYPE at all
  (other).

## 4. Fairness

- **Actor thread:** weak fairness. The litebus actor thread always drains its mailbox.
- **Worker steps after `epoll_wait` returns, and time (`Tick`):** weak fairness.
- **`epoll_wait` returning when an fd is ready:** strong fairness. EINTR
  (`WaitInterrupted`) may keep interrupting the call, but cannot do so forever.
- **Caller:** no fairness. It may stop issuing requests at any time.

In `StdMonitor`:

- **Every actor's `ActorHandle`:** weak fairness.
- **`StopAwaited`:** weak fairness. litebus's `Await` returns once the actor has
  terminated.

In `HeartbeatHealth`:

- **Observer actors and armed timers:** weak fairness. litebus delivers expired
  timers and drains mailboxes.
- **The return from `Await`** in re-registration and destruction: weak fairness.
- **Push in flight:** weak fairness. `CurlHelper` sets `CURLOPT_TIMEOUT`, so
  `SendRequest` returns.
- **Exporter's periodic `Export` calls and the backend:** no fairness.

`MonitorLifecycle` asks fairness only of the loop leaving and of `Stop`'s join.
Both come from the actor's weakly fair steps.

## 5. Not modelled

- The rest of `CurlHelper` is libcurl I/O. Its result is the code sets above.
  libcurl's process-wide initialisation count, which the constructor and
  destructor change, is libcurl state and is left out. A hazard records the
  double `curl_global_cleanup`.
- Of the configuration, only what decides control is modelled: whether it
  parses, and whether a heartbeat URL is given. The interval, job URL, header
  and SSL settings only parameterise requests.
- The formatting of numbers in sample values is abstracted to one token, since it
  prints no quote, backslash or newline.
- The reference reader of `PrometheusFormat` does not reject two samples of one
  family with the same label set, which the format forbids. A merge that
  appends a later MetricData's first point with an equal label set therefore
  passes `BodyReadsAsMerged`. A hazard records it.
- The IAM headers are declarations only.
- `~StdMonitor` is defaulted and never stops its actor. What happens to an actor
  that is spawned but never terminated depends on litebus, and the owner of a
  `StdMonitor` is outside this repository. A hazard records it.
- The test fixture of `std_monitor_actor_test.cpp` calls `StdMonitorActor::Stop`
  from the test thread, racing the actor thread on `fdCallbacks_`. The
  repository's own code reaches `Stop` only through the mailbox, and that is what
  the models check.
- The 1024-event limit of `epoll_wait` is out of TLC's reach.
- The debounce rate (how often a descriptor is dispatched, in milliseconds) would
  need real time. Time is abstracted to "fresh" or "elapsed".
