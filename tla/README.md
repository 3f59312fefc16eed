# TLA+ models of tx-sender

`tx-sender` fans a transaction out to several Solana providers over HTTP/1.1
on TLS or over QUIC, with two connections per provider and a background thread
that rebuilds the dead one. This directory holds TLA+ models of its engines
and threads, of the way Senders are built and shut down, and of a request's
way through the io_uring backend; the TLC configurations that check them on
small instances; and TLAPS proofs, for every instance, of every safety property
those configurations check. Source paths below are relative to the crate's `src/`.

## The system

| part | state | operations | talks to |
|---|---|---|---|
| SPSC channel, idle wait (`rt/spsc.rs`, `rt/wait.rs`) | ring, notify counter, armed monitor | `try_push`, `try_pop`, `is_empty`, `idle_wait` | caller → worker, worker → lane |
| Sequential engine (`transport/sequential.rs`) | active and standby connection, in-flight job, `jobs_sent` per provider, `tick` | `run`, `send_to`, `reap`, `do_failover`, `check_standby_deliveries`, `publish_diag` | trigger ring, result rings, reconnect channels |
| Parallel engine (`transport/parallel.rs`) | the same, one thread per provider | the same | one trigger ring each; the request channel is shared |
| Connections (`conn/mod.rs`, `backend/*`, `protocol/*`) | socket, `rx_plain`, QUIC `inflight` and `sent_at` | `send_tx`, `poll_response`, `drive`, `poll_noresp_window` | network |
| Reconnect thread (`conn/reconnect.rs`, `transport/connect.rs`) | the request it serves | `run_reconnect_loop`, `build` | request channel (64), one response channel (1) per provider |
| Result lane (`result_lane.rs`) | position in its pass | `run`, `parse_one` | result rings, `ResultSink` |
| Sender (`transport/builder.rs`, `connect.rs`, `spawn.rs`) | stop flag, join handles, health slots | `build`, `trigger`, `health`, `shutdown`, drop | everything |
| libtpa runtime (`backend/libtpa/mod.rs`) | lock file of the machine, `INIT_DONE` latch of the process | `try_acquire_lock_only`, `start`, `attach_worker`, drop | every libtpa Sender on the machine |
| io_uring backend (`backend/io_uring.rs`) | pending list, submission queue, completions, buffers in flight, `rx_buf` | `submit`, `drive`, `poll_recv` and what they call | the kernel |
| HTTP envelope (`protocol/http/envelope.rs`, `spec_builder.rs`) | template, `out` | `build`, `compile`, `splice` | every HTTP connection |
| codec, registry tables, certificates, placement | none to speak of | | not modelled, or by result only (see the end) |

What is hard here is not in any one function: pushes and waits on two stores;
a failover in the middle of a send, with a retry on the other connection;
responses that arrive in pieces, late, or for a job that was given up;
connections that die while nobody reads them; requests dropped by a full
channel and builds that fail; a stop flag nobody is woken for; a build that
fails with threads already running, next to other processes that want the
same lock; buffers that are freed by counting completions. `PROJECT.json`
lists these under "hazards", each at its line with the properties about it.

What makes each part correct: the channel loses no wake-up; an engine settles
each provider's jobs in order and at most once, counts what it sends, gives up
only dead connections, and gets a live one again; the lane delivers every
outcome; `trigger` never waits for the network and its `Ok` covers every
provider; `build` and `shutdown` return and leave nothing behind that the
documentation does not name; the ring frees no buffer the kernel still reads
and hands over every byte once; what it sends is one well-formed request per
job, in job order.

## Modules

```
HttpEngine ── Worker ── Threads ──┬── Sequential ── MCSequential    (both refine Delivery)
                                  ├── Parallel ──── MCParallel
                                  └── WorkerProofs
        Sequential + WorkerProofs ── SequentialProofs ── DeliveryProofs
        Parallel   + WorkerProofs ── ParallelProofs
Spsc ──┬── MCSpsc
       └── SpscProofs
IoUring ──┬── UringConn ── MCUringConn
Envelope ─┘
        Envelope ── EnvelopeProofs;  UringConn + EnvelopeProofs ── UringProofs
Lifecycle ──┬── MCLifecycle
            └── LifecycleProofs
```

**Spsc** is the channel with its consumer's loop. Every shared-memory access
is an action: `Push` and `Notify` are the two stores of `try_push`; `CheckStop`,
`TryPop`, `CheckEmpty`, `Arm`, `RecheckEmpty`, `RecheckStop` are what the loop
of `run` and `idle_wait` read; `Wake` and `Timeout` end `mwaitx`/`umwait`, `Spin`
is an iteration of the fallback. Memory is sequentially consistent. On x86,
the only target of `rt/wait.rs`, the `fetch_add` that separates the ring store
from a later load by the producer is a full barrier; the consumer's recheck is
a load after `monitorx`/`umonitor`, which order it.

**HttpEngine** has `ingest` and `body_if_complete` as operators. A response is
three fragments (a content length, the blank line, the body), since those are
what the parser tells apart. TLS only decides where the plaintext is cut, and
it is cut everywhere.

**Worker** has the handlers both engines share, for one provider, as action
fragments. A connection is a record: the state of its socket (`up`; `fin`, the
peer has closed; `rst`, a reset is pending; `tmo`, a timeout is pending), the
requests its peer has not answered, what has arrived, `rx_plain`, a mark that its
TLS stream has lost a record (`gap`), and the QUIC
fields. `RawLibcSubmit`, `IoUringSubmit`, `RawLibcRecv` and `IoUringRecv` give
the results the two backends make of that state. `IoUringSubmit` may answer ok
or an error, and with either the record may leave or be lost: `push_sqe` loses it,
`flush_submit` leaves it in the queue for the next `io_uring_enter`, `drain_pending` may lose it
later, and nobody looks at the result of a send. After a lost record the peer
can decrypt nothing, so nothing more is answered. `EnterFails` is a read that fails
for the same reason. `HttpConnFailedIo` is the
list of kinds that mean failover. `HttpSend`, `HttpSendRetry` and `QuicSend`
are the arms of `send_to`, `HttpReap` and `QuicReap` those of `reap`.

**Threads** has what runs beside the workers: the reconnect loop, the lane,
`shutdown`, and as environment the providers and the network. Connections
break while active, on standby or waiting to be collected; addresses refuse
new connections, or accept them and stay silent. It also states the
properties both engines share.

**Sequential** is the loop of `SequentialWorker::run`, one action per handler
call and provider, with `trigger`; **Parallel** the loop of `ParWorker::run`
per provider, with the ring-by-ring fan-out of `trigger`. Its handlers are
Worker's: the bodies in `parallel.rs` are those of `sequential.rs` with the
index removed.

**Delivery** is what a Sender promises about outcomes whichever engine it has:
`Give` accepts a job, `Settle` lets a provider settle an accepted job it has not
come to yet, `Deliver` hands the oldest outcome over. Both engines implement it
(`ImplementsDelivery`), with the result rings as `pending`, the sink as
`delivered`, and as `given` the number of the last job `trigger` has begun to
push (in `Sequential` the push is one step; in `Parallel` a job counts from the
first ring on, since the first worker may settle it before the last ring is
reached).

**IoUring** is the backend of one connection. A round of the worker is a series
of steps, because the kernel runs between any two calls: `Submit` copies the
bytes and queues the entry (`BatchSyscall`) or goes on to `PushSend`
(`SqeStream`); `StartRound` begins `drive`; `Drain`, `SpinFull` and `DriveInner`
are `drain_pending`, the loop on a full queue and `flush_submit` with `reap`;
`ArmRecv` and `Collect` are the ends of `poll_recv`. `PushErr`, `ArmErr`,
`DrainErr` and `FlushErr` are the same calls where `io_uring_enter` fails. The
kernel takes entries and completes them; a send puts all of its bytes on the wire,
only the first part of them, or none (`KernelSend`), and its completion looks the
same to `reap`. With sqpoll the kernel takes
them by itself until its thread sleeps. It completes the sends of one socket in the order
it took them. io_uring itself does not promise that; the code relies on it.

**Envelope** has `build`, `compile` and `splice` as operators on byte sequences,
and `Request`, the reference: the specification with each sentinel replaced by
its value. Offsets, the padding of the slot and the shift of the content length
are as in the code; sentinels are shorter. `WellPlaced` says where `build` and the
registry's templates put the sentinels: the content length in the head, the slot
in the body. A token with a blank line in it would break that; such
specifications are left out.

**UringConn** puts them together as `HttpConn::send_tx` does: splice, then
submit. Of TLS it has what matters to the peer: the request is encrypted before it
is submitted, so the record of the k-th submit is the k-th of the stream, and
the peer can read (`Readable`) only what comes before the first one that is missing
or cut short.

**Lifecycle** is `build` step by step (validation, lane thread, connections or lock,
latch and initialisation of libtpa, reconnect thread, workers), every error it
can return from each (`Missing` is the set of `build`'s checks a configuration
fails, in the order of `Checks`; the first is the error), the threads it leaves, `shutdown`, a Sender dropped
without it, and the death of a process. Several Senders share the lock file and,
in a process, the latch. What the threads do while they run is in the
other modules.

Steps that are merged, and why nothing is lost: a loop's check of the stop
flag belongs to the step that ends the round before it (the flag only goes
from false to true, and the check may come arbitrarily late because the step
may); `tick` and the `is_empty` that follows are one step; `check_standby_deliveries`
and `publish_diag` handle all providers at once (they touch nothing another
thread reads except the response channels and health slots, one provider at
a time); in `Parallel`, popping a job and sending it are one step (no other
thread touches that provider's connections). `idle_wait` is a pause in these
modules: that it ends is what `Spsc` shows.

## Runs

Passing runs:

| run | instance | shows |
|---|---|---|
| `spsc` | ring of 2, 5 pushes, all backends, no timeouts | `NoLostWakeup`; `PushedIsPopped`: the counter alone wakes the consumer; `StopExits`, given that waits do time out |
| `mixed` | an HTTP and a QUIC provider, 2 jobs at once, 1 fault | `TypeOK`, `OutcomesInOrder`, `SentCoversOutcomes`, `ResponsesReportedOnce`, `HealthLags` (two jobs in a row and a period of one: publishing when idle is not enough), `NoSpuriousFailover`, `ImplementsDelivery` |
| `paced` | 1 HTTP provider, 3 jobs (one oversized), one outstanding at a time, 2 faults, request channel of 1 | `OutcomeMatchesJob`, `SentSettles`, `ActiveRecovers`, `NoSpuriousFailover` (also where the request of a failover meets a full channel), `ShutdownCompletes` |
| `par_safety` | 2 QUIC workers, rings of 1, 2 jobs, 1 fault | `TypeOK`, `AcceptedEverywhere`, `NoSpuriousFailover`, `ImplementsDelivery` although rings refuse jobs |
| `par_stall` | 2 QUIC workers, 2 jobs; any worker may stop for good | `TriggerReturns`, `StallContained`: the other worker's jobs are taken, and outcomes of both reach the sink |
| `par_live` | 2 HTTP workers, request channel of 1, 3 faults | `ActiveRecovers`, `ShutdownCompletes` |
| `wire` | 1 HTTP connection on io_uring, both modes, with and without sqpoll, ring of 1 entry, 2 submits, 2 failures, 4 envelopes | `TypeOK`, `BuffersAlive`, `ReadsExact`, `RequestsOnWire`, `EveryLengthFits`, `SendsLeave` |
| `lifecycle` | 2 processes, 3 builders (2 libtpa in one process; any engine, good and bad configurations, in the other) | `TypeOK`, `ShutdownLeavesNothing`, `FailedBuildLeavesLane`, `LockMatchesUse`, `InitOnce`, `HealthTruthful`, `BuildReturns`, `ShutdownReturns` |

Runs in which TLC finds a counterexample to what the repository says:

| run | the repository says | the code |
|---|---|---|
| `failover_outcome` | README, "Failover and reconnect": the worker "emits `TransportError::Failover` for the in-flight job" | `do_failover` (`sequential.rs:170`) drops the job; `Failover` is never constructed |
| `attribution` | tests `multi_provider_outcome_attribution`, `expect_accept`: an outcome carries its own job | with two jobs in flight the single slot (`sequential.rs:142`) makes the first response the second job's |
| `uring` | README: on a transport error the worker swaps | io_uring's end of stream is `Ok(0)` (`io_uring.rs:211`), so there is no error |
| `uring_forgets` | the same tests as `attribution` | a failed `flush_submit` (`io_uring.rs:181`) leaves the request queued while `send_to` (`sequential.rs:154`) gives the job up; it is sent later, and its response is reported for the next job, though only one is outstanding at a time |

Observations without runs of their own:

- The TLS handshake loop (`conn/mod.rs:34`) has no deadline and does not look at
  the stop flag. A server that accepts and stays silent holds the reconnect
  thread, and with it `shutdown`, for ever: with `"silent"` in `NetStates`
  `ShutdownCompletes` fails. With io_uring a server that closes during the
  handshake does the same, since end of stream is `Ok(0)`. In `build` the loop
  holds the caller; `Lifecycle` takes it that connecting returns.
- With sqpoll the kernel's thread sleeps after `idle_ms`, and `flush_submit`
  (`io_uring.rs:92`) never makes the call that wakes it: what is submitted later
  stays in the queue. `SendsLeave` holds only while the thread is awake.
- The lock of libtpa goes with the `TpaRuntime` while the library stays
  initialised and, when a Sender is dropped, its workers run on: a second process can then
  start although the README (lines 128-129) says it fails. `LockMatchesUse`
  excludes dropped Senders for this reason. In the same process the latch
  refuses every later libtpa Sender (`AlreadyInit`).
- `build` spawns the lane before it connects (`builder.rs:167`); when connecting
  fails nobody sets the stop flag and the lane runs on. `FailedBuildLeavesLane`
  says that it is the only thing left. A libtpa worker that cannot connect ends without a
  word after `build` has succeeded; `health` at least never calls it alive.
- A rebuild that fails (`reconnect.rs:86`) is forgotten: the standby stays dead,
  although its address comes back, until the next failover asks again.
- With three or more jobs pipelined on one HTTP connection `SentSettles` fails. A
  read that holds the end of one response and the start of the next makes
  `rx_plain.clear()` (`engine.rs:107`) drop that start; the rest has no header,
  and every later response is appended to it without ever completing. This is
  why `paced` has one job outstanding at a time.
- `MAX_RESPONSE` (`engine.rs:110`) bounds nothing: the error is ignored like
  `Ok(None)` and `rx_plain` is kept.
- An `io_uring_enter` that fails in `submit` or `drain_pending` can lose the entry
  and keep its buffer, and a short or failed send is a completion like any other
  (`io_uring.rs:105`). Requests are encrypted before they are submitted
  (`conn/mod.rs:53`), so it is not one request that is lost: the peer reads a
  broken TLS stream and none of the later ones, while the worker goes on counting
  jobs as sent until the peer closes, which io_uring does not notice either.
  `RequestsOnWire` therefore promises that the peer can read what has left
  only as long as nothing failed; what it says of every send, that it is made from
  its own job's request and in order, holds always.

### Bounds

`MaxJobs`, `MaxFaults` and, in Spsc, `MaxPush` bound the environment. Two jobs
are enough for one to overtake, overwrite or be taken for another; a third
makes a stale one between two live ones. One fault loses the job in flight, two
leave a provider without a live connection, three kill the rebuilt one or its
address too. `mixed` stops at one fault because two providers with pipelined
responses are already over a million states; for more, the theorems hold. Rings of one or two
slots (256 in the code), a request channel of one or two (64) and a period of
one or two rounds (1024) make full, empty and skipped happen within those
jobs; `SpinLimit` 2 stands for 256. The theorems do not depend on any of them.
The passing runs of the engines use raw_libc, whose submit can fail over; io_uring is in
`uring` and `uring_forgets`, and the safety theorems other than `MatchCorrect` hold for both.

`wire`: `RingEntries` 1 makes every second entry meet a full queue, `MaxSubmits` 2
lets a send overtake or outlive another, `MaxChunks` 2 a recv overwrite another,
`MaxErrors` 2 a lost entry be followed by a failed send. Transactions have the lengths 0
and 7: 7 bytes need 12 encoded, which fill the first slot exactly and
give the content length a second digit. The other envelopes have a slot as long as
its sentinel, a second sentinel in the token, and too small a slot. `lifecycle`: two Senders of one
process are what the latch is about, a Sender of another what the lock is
about; two providers let the first connect and the second fail.

### Fairness

Threads keep being scheduled: weak fairness of each worker, the reconnect
thread, the lane, the join, and of a `trigger` call already begun. A wait has
a deadline (`DEFAULT_TIMEOUT_TSC`, `recv_timeout`), so it ends; `WakeSpec`
leaves that out to show that the counter suffices, so
`StopExits` has it as its premise. Of the environment: a live
peer answers, time passes, an address that refuses connections stops refusing
at some time. A silent address may stay silent; nobody need call `trigger` or
`shutdown`. `StallSpec` withholds fairness from the workers, since
`RawLibc::submit` spins while the socket buffer is full (`raw_libc.rs:98`), and
`StallContained` asks that a ring be emptied only of a provider whose own worker runs.

In `UringConn` the worker's rounds, the completion of sends and the
poll thread while it is awake are fair; recvs are not (the peer may never write).
In `Lifecycle` a `build` or `shutdown` that was called goes on, and so does every
thread; connecting, `flock` and libtpa's initialisation return. Nobody has to
call `build` or `shutdown`, drop a Sender or die.

No run switches deadlock checking off.

## Proofs

| theorems | properties | for all |
|---|---|---|
| `SpscProofs`: `TypeCorrect`, `WakeupCorrect` | `TypeOK`, `NoLostWakeup` | capacities, numbers of pushes, spin limits, sets of backends |
| `SequentialProofs`: `TypeCorrect`, `OrderCorrect`, `CountCorrect`, `FailoverJustified`, `ReportedCorrect` | `TypeOK`, `OutcomesInOrder`, `SentCoversOutcomes`, `NoSpuriousFailover`, `ResponsesReportedOnce` | numbers of providers, jobs and faults; mixes of protocols; backends; failures; queue capacities |
| `SequentialProofs!HealthBounded` | `HealthLags` | the same; periods |
| `SequentialProofs!MatchCorrect` | `OutcomeMatchesJob` | the same, on raw_libc with a caller that paces itself (`Paced`); `uring_forgets` and `attribution` show that neither can be dropped |
| `DeliveryProofs!DeliveryImplemented` | `ImplementsDelivery` | the same, with any caller |
| `ParallelProofs`: `TypeCorrect`, `AcceptedCorrect`, `OrderCorrect`, `ReportedCorrect`, `FailoverJustified`, `DeliveryImplemented` | `TypeOK`, `AcceptedEverywhere`, `OutcomesInOrder`, `ResponsesReportedOnce`, `NoSpuriousFailover`, `ImplementsDelivery` | numbers of workers, jobs and faults; mixes of protocols; backends; ring and channel capacities |
| `LifecycleProofs`: `LifecycleTypes`, `NothingLeft`, `FailedBuild`, `LockExact`, `InitialisedOnce`, `HealthIsTruthful` | `TypeOK`, `ShutdownLeavesNothing`, `FailedBuildLeavesLane`, `LockMatchesUse`, `InitOnce`, `HealthTruthful` | sets of builders and processes, configurations, numbers of providers |
| `UringProofs`: `BuffersCorrect`, `ReadsCorrect` | `BuffersAlive`, `ReadsExact`, of the ring alone | ring sizes, modes, payloads, numbers of submits, chunks and errors |
| `UringProofs`: `ConnTypes`, `RequestsCorrect`, `LengthsCorrect`, `ConnUsesRing` | `TypeOK`, `RequestsOnWire`, `EveryLengthFits`; a connection is a user of the ring | the same; sets of specifications and of transaction lengths |
| `EnvelopeProofs`: `SpliceExact`, `SlotFits` | what `splice` writes; the registry's slot | templates, transactions, earlier contents of `out`; `SlotFits` with the code's own numbers |

The assumptions are the `ASSUME`s of the modules (capacities are positive, sets
of providers and jobs are what they should be, the place of the content length
is wide enough for the length of the request, and compiled specifications are `WellPlaced`); TLC evaluates them in every
run. The theorems about a connection also take it that the ring may be handed
any byte string (`Seq(Nat) \subseteq Payload`, as in `MCUringConn`).

*Spsc.* `NoLostWakeup` speaks of a sleeping consumer; inductively one needs the
same one step earlier, after the recheck of the ring and before that of the
flag (`RecheckCovers`), and that the counter lags the pushes by at most the one
in progress and is never behind the armed value (`CounterLags`): otherwise a
`Notify` could make counter and armed value equal again.

*Sequential.* No theorem is inductive alone. `IInv` adds:
- `TriggersInOrder`: the ring holds exactly the jobs after the one last popped;
- `Settled(p)`: all outcomes of `p`, in sink and ring, precede the job in flight,
  or the job being sent where none is; the count covers them; and nothing is newer
  than `Bound(p)`, the last job the send loop has reached `p` with;
- `StandbyForgets`: a QUIC connection that is not active carries a job only if it
  is closed. Without it a swap could bring back an old job and report it after a
  newer one; a closed connection is given up before its window is looked at.

The induction has one step per action. `WorkerProofs` shows what each handler
preserves (types, `StandbyForgets`, and what it does to the in-flight job, count,
outcomes and responses), for both engines; `SequentialProofs` places the handlers in
the loop.

`NoSpuriousFailover` is an action property. A handler swaps on a result the backend
gives only of a socket that is not up, or on a QUIC connection marked closed; that
the peer of such a connection is gone is an invariant of its own (`ClosedAreGone`).
`ResponsesReportedOnce` needs an account of the bytes still to come. `RInv` adds
`Answered`: what is unanswered, in transit and in `rx_plain` on a connection in use is
a sequence of whole responses, in order, none for a job after the last one sent
and none reported yet, and a standby connection is at rest. For a paced caller
it also says that there is at most one (`PacedQuiet`), and that one answers the job
in flight: this is `OutcomeMatchesJob`, and it is what the run `attribution` violates
without pacing. It is claimed of raw_libc only (`OneAtATime`): on io_uring a job that was given
up may still be answered. What `Answered` says without it holds there too: no response to a newer job comes before
the one to the job in flight, which a live connection still owes unless it has lost a record
(`Foremost`, `Heading`).

`HealthLags` needs the round: a provider's unpublished jobs are at most one for each round since
the last `publish_diag`, which `tick` counts, and one more once the send loop has passed it in
this round (`Unpublished`).

*Parallel.* The rings of a `Fanout` differ, so `TriggersInOrder` becomes a statement
per worker. `PInv` says that each worker has come to some job `b` (`CameTo`): it has
popped and settled none after it, what its ring holds is in order and after `b`, and
no later than what `trigger` has offered it (`Given`). `FanOK` is `AcceptedEverywhere` for the
call in progress: while no ring was full, the rings it has been to have the job.
`AcceptedEverywhere`, the order, the responses and the refinement of Delivery follow as for
`Sequential`, from the same lemmas of `WorkerProofs`.

*Lifecycle.* `LInv` says what each point of `build` and `shutdown` implies: what has been
checked (`StageOK`), which threads there can be and which have been joined
(`ThreadOK`), who may be called alive (`AliveOK`); that the lock's holder is exactly
the libtpa Sender between `flock` and its end (`HolderOK`), from which mutual exclusion
follows; and that `INIT_DONE` is set by an initialisation that has succeeded or is under
way (`LatchOK`), without which a failed initialisation could let another one begin.

*Delivery.* `IInv` also carries the refinement: `Trigger` is `Give`, the lane's pop is
`Deliver`, and a reap that adds an outcome is `Settle`, because `Settled(p)` puts all earlier outcomes of `p` before the job
in flight and `TriggersInOrder` puts that job among those given. Every
other step changes none of the three mapped variables.

*IoUring.* `BuffersAlive` says that a send still under way has its buffer.
`reclaim_sends` frees buffers by number, so this rests on order, and
`BuffersInv` says which: the sends in the kernel, then those in the submission queue,
then those pending, are in the order of their numbers, none newer than `Newest` and
all newer than the buffers freed plus the completions not yet reclaimed; buffers
in flight are numbered without gaps from `Freed + 1`. Lost entries only leave
numbers out, which keeps the order; this is why failures are harmless to memory.
Each move of an entry is a lemma on `LineOK`; the steps cite them. For `ReadsExact`,
`RecvInv` follows the one recv there may be: unarmed, or in one place of its way from
the submission queue through the kernel and the completion queue to `completed_recvs`;
only its result says whether `rx_buf` holds a chunk not yet returned, and
the next recv is armed after it was copied. Both are about the ring alone (`UringSpec`),
whatever is submitted.

*Envelope.* `div_ceil(3) * 4` is monotone and gives exactly `MAX_BODY` for
`MAX_TX_LEN`, so no transaction is refused for its length. `Compiled` describes the
template by what it shares with the specification: the bytes before the slot and
those after it, and the offsets. `compile` establishes it, and `splice` keeps
it, since it writes only `out`. From it the bytes of `out` are compared with those of
`Request` region by region; the content length's place lies before the blank line, so
writing it moves nothing. Digits are shown to fit from the powers of ten up to 10^9.

*UringConn.* Every step of a connection is one of the ring (`RingStep`). `WireInv`
says that what is under way is newer than all that has left and, while no call has
failed and no send was cut short, leaves no number out and is whole: hence the order
on the wire, and that the peer can read it. `ConnInv` says that the
template is `Compiled` and that every buffer in flight and everything on the wire
holds the request of its job. The kernel reads the buffer of a send through
`BuffersAlive`, so it never puts anything else on the wire.

## Only model-checked

Liveness (the properties with `~>` and fairness: `PushedIsPopped`, `StopExits`, `SentSettles`,
`ActiveRecovers`, `ShutdownCompletes`, `TriggerReturns`,
`StallContained`, `SendsLeave`, `BuildReturns`, `ShutdownReturns`), which is beyond this
prover. Every invariant and every safety action property of a passing run is proved.

## Not modelled

- Streams and datagrams of libtpa: what they do is what libtpa's events and
  sockets do, and that library is not in the repository. `TpaReconnectBuilder`
  only answers `NotSupported`.
- TLS and quinn-proto (external libraries: their effect on the worker is in
  `Worker` and `Threads`). In particular a TLS error of `ingest`, which `reap` ignores.
- Dropping an io_uring connection while the kernel still has its requests. `replace_standby`
  frees `rx_buf` and the buffers in flight with the `UringConn`, and nothing cancels or awaits them;
  `BuffersAlive` is about a connection that stays. It also takes it that the sends of a socket
  complete in order.
- A worker that panics; two threads that share a `Producer`, which is `Sync` although
  `try_push` needs a single caller (the models have one caller of `trigger`).
- Responses without a content length: `body_if_complete` never completes one, and `SentSettles`
  takes it that the peer sends one.
- A silent server where a thread is to end: `ShutdownCompletes`, `BuildReturns` and `ShutdownReturns`
  are about servers that complete or refuse the handshake (first observation above).
- Specifications whose slot precedes the content length, which `compile` accepts and neither
  `build` nor the registry makes (`WellPlaced`).
- Weak memory; see `Spsc` for why sequential consistency is enough there.
- The response codec: JSON scanning of a body, without state; user callbacks.
- Keys and certificates (cryptographic library calls; `Lifecycle` has
  their failure), the tables of the registry (data), thread placement (its results
  are ignored), profiling.

`PROJECT.json` has a line for each.

## Plan

1. Proofs: `OutcomeMatchesJob` and `SentCoversOutcomes` for `Parallel`, from the invariants
   above; the safety part of the liveness properties (what a thread can be waiting
   for when it waits); lemmas on `ingest` in `HttpEngine`.
2. A socket whose buffer is full, so that the stall of `RawLibc::submit` is a state of
   the connection in both engines and not only a worker that stops.
3. The response parser with sizes and several responses per read; the codec.
