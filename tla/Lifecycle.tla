----------------------------- MODULE Lifecycle ------------------------------
(***************************************************************************)
(* How Senders come and go: SenderBuilder::build and the errors it can     *)
(* return half way, the threads it spawns, Sender::shutdown, a Sender that *)
(* is dropped without it, and the death of a process                       *)
(* (src/transport/builder.rs, connect.rs, spawn.rs).  Several Senders of   *)
(* several processes of one machine share the lock file of libtpa, and     *)
(* those of a process its INIT_DONE latch (src/backend/libtpa/mod.rs).     *)
(* What the threads do while they run is in Sequential and Parallel.       *)
(***************************************************************************)
EXTENDS Integers, Sequences, FiniteSets

CONSTANTS
    Sender,      \* the builders and the Senders they become
    Process,     \* the processes of the machine
    Owner,       \* the process each of them belongs to
    ConfigOf,    \* the configurations each builder may be given
    Nobody       \* the lock is free

ASSUME LifecycleAssumption ==
    /\ Owner \in [Sender -> Process]
    /\ Nobody \notin Sender
    /\ \A s \in Sender : \A c \in ConfigOf[s] :
          /\ c.engine \in {"SeqRaw", "SeqUring", "ParRaw", "ParTpa"}
          /\ c.lacks \subseteq {"NoTransport", "NoTls", "NoSource", "NoSink"}
          /\ c.providers \in Seq([protocol : {"Http"}, compiles : BOOLEAN] \cup
                [protocol : {"Quic"}, has : SUBSET {"endpoint", "profile", "auth"},
                 idleFits : BOOLEAN])

VARIABLES
    cfg,       \* SenderBuilder
    pc,        \* where build, and then shutdown, has come to
    conns,     \* connect_dual_all: connections made so far
    result,    \* what build returned
    stop,      \* the stop flag
    thread,    \* the threads of a Sender: "none", "starting", "running", "done"
    alive,     \* WorkerDiag.alive, per provider
    lock,      \* the Sender that holds the flock, or Nobody
    initDone,  \* INIT_DONE of a process
    inits      \* successful tpa_init_with_udp_queues calls of a process

\* The threads of a Sender; worker i has the number i.
Lane      == 0
Reconnect == -1

vars == <<cfg, pc, conns, result, stop, thread, alive, lock, initDone, inits>>

buildVars == <<cfg, pc, conns, result>>
runVars   == <<stop, thread, alive>>
tpaVars   == <<lock, initDone, inits>>

Providers(s) == DOMAIN cfg[s].providers

\* One worker for every provider, or one for all.
Workers(c) == IF c.engine \in {"SeqRaw", "SeqUring"} THEN {1} ELSE DOMAIN c.providers

\* The worker that serves provider i.
ServerOf(s, i) == IF cfg[s].engine \in {"SeqRaw", "SeqUring"} THEN 1 ELSE i

\* The handles Sender.workers: the lane's is pushed last.
Handles(s) == Workers(cfg[s]) \cup {Lane}

Live(s)  == {t \in DOMAIN thread[s] : thread[s][t] \in {"starting", "running"}}

BuildStates  == {"new", "connect", "lock", "latch", "init", "spawn"}
Returned     == {"failed", "ready", "joining", "joinReconnect", "down", "dropped", "dead"}

-----------------------------------------------------------------------------
(* build *)

\* The errors of the checks at the head of build, in their order.
Checks == <<"NoProviders", "NoTransport", "NoTls", "NoSource", "NoSink">>

\* The checks that fail.
Missing(c) ==
    {n \in 1 .. 5 : IF n = 1 THEN c.providers = <<>> ELSE Checks[n] \in c.lacks}

\* Mutant: the connections made before the error are kept.
Fail_KeepConns(s, error) ==
    /\ pc' = [pc EXCEPT ![s] = "failed"]
    /\ result' = [result EXCEPT ![s] = error]
    /\ UNCHANGED conns

\* build returns an error; what it has made so far is dropped.
Fail(s, error) ==
    /\ pc' = [pc EXCEPT ![s] = "failed"]
    /\ result' = [result EXCEPT ![s] = error]
    /\ conns' = [conns EXCEPT ![s] = 0]

Goto(s, at) == pc' = [pc EXCEPT ![s] = at] /\ UNCHANGED <<result, conns>>

SetThreads(s, ts, state) ==
    thread' = [thread EXCEPT ![s] = [t \in DOMAIN @ |-> IF t \in ts THEN state ELSE @[t]]]

\* The configuration is checked, and the first check that fails is the error;
\* then the lane is spawned.
Start(s) ==
    /\ pc[s] = "new"
    /\ IF Missing(cfg[s]) # {}
         THEN /\ \E n \in Missing(cfg[s]) :
                    (\A m \in Missing(cfg[s]) : n <= m) /\ Fail(s, Checks[n])
              /\ UNCHANGED thread
         ELSE /\ Goto(s, IF cfg[s].engine = "ParTpa" THEN "lock" ELSE "connect")
              /\ SetThreads(s, {Lane}, "running")
    /\ UNCHANGED <<cfg, stop, alive, tpaVars>>

\* build_quic_client_config: an idle timeout that is no VarInt always fails;
\* keys, certificates and the TLS configuration are made by libraries.
BuildQuicClientConfig(p) == IF p.idleFits THEN {"ok", "Connect"} ELSE {"Connect"}

\* connect_one: what it may return for provider i of c.
ConnectOne(c, i) ==
    LET p == c.providers[i] IN
    IF p.protocol = "Http"
      THEN {"Connect"} \cup (IF p.compiles THEN {"ok"} ELSE {})
              \cup (IF p.compiles /\ c.engine = "SeqUring" THEN {"Unsupported"} ELSE {})
      ELSE IF p.has # {"endpoint", "profile", "auth"} THEN {"QuicConfig"}
      ELSE BuildQuicClientConfig(p)

\* Mutant: the reconnect thread is spawned before the connections are made.
Connect_ReconnectFirst(s) ==
    /\ pc[s] = "connect"
    /\ \E r \in ConnectOne(cfg[s], conns[s] \div 2 + 1) :
          IF r # "ok" THEN Fail(s, r)
          ELSE /\ conns' = [conns EXCEPT ![s] = @ + 1]
               /\ pc' = [pc EXCEPT ![s] =
                            IF conns'[s] = 2 * Len(cfg[s].providers) THEN "spawn" ELSE @]
               /\ UNCHANGED result
    /\ SetThreads(s, {Reconnect}, "running")
    /\ UNCHANGED <<cfg, stop, alive, tpaVars>>

\* connect_dual_all: an active and a standby for every provider; the first
\* error drops what was made.
Connect(s) ==
    /\ pc[s] = "connect"
    /\ \E r \in ConnectOne(cfg[s], conns[s] \div 2 + 1) :
          IF r # "ok" THEN Fail(s, r)
          ELSE /\ conns' = [conns EXCEPT ![s] = @ + 1]
               /\ pc' = [pc EXCEPT ![s] =
                            IF conns'[s] = 2 * Len(cfg[s].providers) THEN "spawn" ELSE @]
               /\ UNCHANGED result
    /\ UNCHANGED <<cfg, runVars, tpaVars>>

\* Mutant: flock waits.
AcquireLock_Blocking(s) ==
    /\ pc[s] = "lock" /\ lock = Nobody
    /\ lock' = s /\ Goto(s, "latch")
    /\ UNCHANGED <<cfg, runVars, initDone, inits>>

\* try_acquire_lock_only: the file may not open, and flock does not wait.
AcquireLock(s) ==
    /\ pc[s] = "lock"
    /\ \/ lock = Nobody /\ lock' = s /\ Goto(s, "latch")
       \/ UNCHANGED lock /\ Fail(s, "Io")
    /\ UNCHANGED <<cfg, runVars, initDone, inits>>

\* start: INIT_DONE.swap.  An error drops the runtime, and with it the lock.
SwapLatch(s) ==
    /\ pc[s] = "latch"
    /\ initDone' = [initDone EXCEPT ![Owner[s]] = TRUE]
    /\ IF initDone[Owner[s]] THEN lock' = Nobody /\ Fail(s, "AlreadyInit")
                             ELSE UNCHANGED lock /\ Goto(s, "init")
    /\ UNCHANGED <<cfg, runVars, inits>>

\* Mutant: the latch stays set when the initialisation failed.
TpaInit_KeepLatch(s) ==
    /\ pc[s] = "init"
    /\ \/ /\ inits' = [inits EXCEPT ![Owner[s]] = @ + 1]
          /\ Goto(s, "spawn")
          /\ UNCHANGED <<lock, initDone>>
       \/ /\ lock' = Nobody
          /\ Fail(s, "TpaInit")
          /\ UNCHANGED <<inits, initDone>>
    /\ UNCHANGED <<cfg, runVars>>

\* start: tpa_init_with_udp_queues succeeds, or the latch is reset and the
\* runtime dropped.
TpaInit(s) ==
    /\ pc[s] = "init"
    /\ \/ /\ inits' = [inits EXCEPT ![Owner[s]] = @ + 1]
          /\ Goto(s, "spawn")
          /\ UNCHANGED <<lock, initDone>>
       \/ /\ initDone' = [initDone EXCEPT ![Owner[s]] = FALSE]
          /\ lock' = Nobody
          /\ Fail(s, "TpaInit")
          /\ UNCHANGED inits
    /\ UNCHANGED <<cfg, runVars>>

\* ReconnectThread::spawn, then spawn_seq, spawn_parallel or
\* spawn_parallel_tpa, and build returns the Sender.
Spawn(s) ==
    /\ pc[s] = "spawn"
    /\ pc' = [pc EXCEPT ![s] = "ready"]
    /\ result' = [result EXCEPT ![s] = "Ok"]
    /\ thread' = [thread EXCEPT ![s] = [t \in DOMAIN @ |->
          IF t # Reconnect /\ t \notin Workers(cfg[s]) THEN @[t]
          ELSE IF t # Reconnect /\ cfg[s].engine = "ParTpa" THEN "starting"
          ELSE "running"]]
    /\ UNCHANGED <<cfg, conns, stop, alive, tpaVars>>

-----------------------------------------------------------------------------
(* The threads *)

\* Mutant: a worker that cannot connect says it is alive before it gives up.
TpaWorkerStart_Alive(s, w) ==
    /\ w \in Workers(cfg[s]) /\ thread[s][w] = "starting"
    /\ \E attached \in BOOLEAN, active, standby \in ConnectOne(cfg[s], w) :
          SetThreads(s, {w}, IF attached /\ active = "ok" /\ standby = "ok"
                               THEN "running" ELSE "done")
    /\ alive' = [alive EXCEPT ![s][w] = TRUE]
    /\ UNCHANGED <<buildVars, stop, tpaVars>>

\* The thread of spawn_parallel_tpa attaches to libtpa and connects twice;
\* when one of these fails it returns.
TpaWorkerStart(s, w) ==
    /\ w \in Workers(cfg[s]) /\ thread[s][w] = "starting"
    /\ \E attached \in BOOLEAN, active, standby \in ConnectOne(cfg[s], w) :
          SetThreads(s, {w}, IF attached /\ active = "ok" /\ standby = "ok"
                               THEN "running" ELSE "done")
    /\ UNCHANGED <<buildVars, stop, alive, tpaVars>>

\* publish_diag, by the worker that serves provider i.
PublishDiag(s, i) ==
    /\ i \in Providers(s) /\ thread[s][ServerOf(s, i)] = "running"
    /\ alive' = [alive EXCEPT ![s][i] = TRUE]
    /\ UNCHANGED <<buildVars, stop, thread, tpaVars>>

\* A worker or the lane sees the stop flag.
SeeStop(s, t) ==
    /\ t \in DOMAIN thread[s] \ {Reconnect} /\ thread[s][t] = "running"
    /\ stop[s]
    /\ SetThreads(s, {t}, "done")
    /\ UNCHANGED <<buildVars, stop, alive, tpaVars>>

\* run_reconnect_loop ends: at the stop flag, or when nobody is left to send
\* it a request, neither a Sender nor a worker.
ReconnectEnd(s) ==
    /\ thread[s][Reconnect] = "running"
    /\ \/ stop[s]
       \/ pc[s] = "dropped" /\ Live(s) \subseteq {Lane, Reconnect}
    /\ SetThreads(s, {Reconnect}, "done")
    /\ UNCHANGED <<buildVars, stop, alive, tpaVars>>

-----------------------------------------------------------------------------
(* The end of a Sender *)

\* Mutant: the flag is not stored.
Shutdown_NoStop(s) ==
    /\ pc[s] = "ready"
    /\ Goto(s, "joining")
    /\ UNCHANGED <<cfg, runVars, tpaVars>>

\* Mutant: the lock is let go before the threads are joined.
Shutdown_EarlyUnlock(s) ==
    /\ pc[s] = "ready"
    /\ stop' = [stop EXCEPT ![s] = TRUE]
    /\ lock' = IF lock = s THEN Nobody ELSE lock
    /\ Goto(s, "joining")
    /\ UNCHANGED <<cfg, thread, alive, initDone, inits>>

\* Sender::shutdown stores the flag ...
Shutdown(s) ==
    /\ pc[s] = "ready"
    /\ stop' = [stop EXCEPT ![s] = TRUE]
    /\ Goto(s, "joining")
    /\ UNCHANGED <<cfg, thread, alive, tpaVars>>

\* Mutant: the handle of the lane is not among the workers.
JoinWorkers_NoLane(s) ==
    /\ pc[s] = "joining"
    /\ \A t \in Workers(cfg[s]) : thread[s][t] = "done"
    /\ Goto(s, "joinReconnect")
    /\ UNCHANGED <<cfg, runVars, tpaVars>>

\* ... joins the workers and the lane ...
JoinWorkers(s) ==
    /\ pc[s] = "joining"
    /\ \A t \in Handles(s) : thread[s][t] = "done"
    /\ Goto(s, "joinReconnect")
    /\ UNCHANGED <<cfg, runVars, tpaVars>>

\* ... and the reconnect thread; what is left of the Sender is dropped, the
\* TpaRuntime with its lock too.
JoinReconnect(s) ==
    /\ pc[s] = "joinReconnect" /\ thread[s][Reconnect] = "done"
    /\ lock' = IF lock = s THEN Nobody ELSE lock
    /\ Goto(s, "down")
    /\ UNCHANGED <<cfg, runVars, initDone, inits>>

\* A Sender goes out of scope: it has no Drop of its own, so its threads are
\* detached, and the TpaRuntime closes the lock file.
DropSender(s) ==
    /\ pc[s] = "ready"
    /\ lock' = IF lock = s THEN Nobody ELSE lock
    /\ Goto(s, "dropped")
    /\ UNCHANGED <<cfg, runVars, initDone, inits>>

Forget(f, own, v) == [s \in Sender |-> IF s \in own THEN v ELSE f[s]]

\* A process dies: its threads and its memory with it, and the system closes
\* its files.
Kill(p) ==
    LET own == {s \in Sender : Owner[s] = p} IN
    /\ \E s \in own : pc[s] \notin {"new", "dead"}
    /\ pc' = Forget(pc, own, "dead")
    /\ conns' = Forget(conns, own, 0)
    /\ result' = Forget(result, own, "none")
    /\ stop' = Forget(stop, own, FALSE)
    /\ thread' = [s \in Sender |-> [t \in DOMAIN thread[s] |->
                     IF s \in own THEN "none" ELSE thread[s][t]]]
    /\ alive' = [s \in Sender |-> [i \in DOMAIN alive[s] |-> s \notin own /\ alive[s][i]]]
    /\ lock' = IF lock \in own THEN Nobody ELSE lock
    /\ initDone' = [initDone EXCEPT ![p] = FALSE]
    /\ inits' = [inits EXCEPT ![p] = 0]
    /\ UNCHANGED cfg

-----------------------------------------------------------------------------
Threads(c) == DOMAIN c.providers \cup {Lane, Reconnect}

Init ==
    /\ cfg \in {f \in [Sender -> UNION {ConfigOf[s] : s \in Sender}] :
                   \A s \in Sender : f[s] \in ConfigOf[s]}
    /\ pc = [s \in Sender |-> "new"]
    /\ conns = [s \in Sender |-> 0]
    /\ result = [s \in Sender |-> "none"]
    /\ stop = [s \in Sender |-> FALSE]
    /\ thread = [s \in Sender |-> [t \in Threads(cfg[s]) |-> "none"]]
    /\ alive = [s \in Sender |-> [i \in Providers(s) |-> FALSE]]
    /\ lock = Nobody
    /\ initDone = [p \in Process |-> FALSE]
    /\ inits = [p \in Process |-> 0]

\* What build does once it is called.
Building(s) ==
    Start(s) \/ Connect(s) \/ AcquireLock(s) \/ SwapLatch(s) \/ TpaInit(s) \/ Spawn(s)

Join(s) == JoinWorkers(s) \/ JoinReconnect(s)

\* Every Sender has come to its end.
Terminated ==
    /\ \A s \in Sender : pc[s] \in {"failed", "down", "dropped", "dead"}
    /\ UNCHANGED vars

Next ==
    \/ \E s \in Sender :
          \/ Building(s) \/ Shutdown(s) \/ Join(s) \/ DropSender(s) \/ ReconnectEnd(s)
          \/ \E t \in DOMAIN thread[s] : TpaWorkerStart(s, t) \/ SeeStop(s, t)
          \/ \E i \in Providers(s) : PublishDiag(s, i)
    \/ \E p \in Process : Kill(p)
    \/ Terminated

Spec == Init /\ [][Next]_vars

ThreadIds == UNION {Threads(c) : c \in UNION {ConfigOf[s] : s \in Sender}}

(* A call of build and of shutdown goes on, and so does every thread:      *)
(* connect, flock, tpa_init_with_udp_queues and tpa_worker_init return.    *)
(* Nobody has to call build or shutdown, or to die.                        *)
Fairness ==
    \A s \in Sender :
        /\ WF_vars(pc[s] # "new" /\ Building(s))
        /\ WF_vars(Join(s))
        /\ WF_vars(ReconnectEnd(s))
        /\ \A t \in ThreadIds : WF_vars(t \in DOMAIN thread[s] /\
                                           (TpaWorkerStart(s, t) \/ SeeStop(s, t)))

FairSpec == Spec /\ Fairness

-----------------------------------------------------------------------------
(* Safety *)

(* The types; the connections of a build that failed are closed.           *)
TypeOK ==
    /\ pc \in [Sender -> BuildStates \cup Returned]
    /\ conns \in [Sender -> Nat]
    /\ stop \in [Sender -> BOOLEAN]
    /\ DOMAIN thread = Sender /\ DOMAIN alive = Sender
    /\ \A s \in Sender :
          /\ cfg[s] \in ConfigOf[s]
          /\ conns[s] <= 2 * Len(cfg[s].providers)
          /\ pc[s] \in {"new", "failed"} => conns[s] = 0
          /\ thread[s] \in [Threads(cfg[s]) -> {"none", "starting", "running", "done"}]
          /\ alive[s] \in [Providers(s) -> BOOLEAN]
    /\ result \in [Sender -> {"none", "Ok", "NoProviders", "NoTransport", "NoTls", "NoSource",
                              "NoSink", "Connect", "Unsupported", "QuicConfig", "Io",
                              "AlreadyInit", "TpaInit"}]
    /\ lock \in Sender \cup {Nobody}
    /\ initDone \in [Process -> BOOLEAN]
    /\ inits \in [Process -> Nat]

(* When shutdown has returned no thread of the Sender is left, and libtpa's *)
(* lock is free for the next: shutdown joins every thread build has        *)
(* spawned, whichever engine and however many providers.                   *)
ShutdownLeavesNothing ==
    \A s \in Sender : pc[s] = "down" => Live(s) = {} /\ lock # s

(* A build that returns an error leaves no thread behind but the lane, and *)
(* not even that one when the configuration was incomplete; it never keeps *)
(* the lock.                                                               *)
FailedBuildLeavesLane ==
    \A s \in Sender : pc[s] = "failed" =>
        /\ Live(s) \subseteq (IF Missing(cfg[s]) = {} THEN {Lane} ELSE {})
        /\ lock # s

(* The lock is held exactly while it is needed: by a Sender that is being  *)
(* built, is in use or is being shut down, and for as long as one of its   *)
(* workers may touch libtpa, unless the Sender was dropped.  The death of  *)
(* a process leaves no stale lock.                                         *)
LockMatchesUse ==
    /\ lock # Nobody =>
          pc[lock] \in {"latch", "init", "spawn", "ready", "joining", "joinReconnect"}
    /\ \A s \in Sender :
          /\ cfg[s].engine = "ParTpa" /\ pc[s] # "dropped"
          /\ Live(s) \ {Lane, Reconnect} # {}
          => lock = s

(* A process initialises libtpa at most once, and a build is told that it  *)
(* is initialised already only where that is so: a failed attempt can be   *)
(* repeated, by any Sender of the process.                                 *)
InitOnce ==
    /\ \A p \in Process : inits[p] <= 1
    /\ \A s \in Sender : result[s] = "AlreadyInit" => inits[Owner[s]] = 1

(* health never calls a provider alive whose worker has given up: the      *)
(* worker of a libtpa provider that cannot connect returns silently.       *)
HealthTruthful ==
    \A s \in Sender : pc[s] = "ready" =>
        \A i \in Providers(s) : alive[s][i] => thread[s][ServerOf(s, i)] = "running"

-----------------------------------------------------------------------------
(* Liveness *)

(* build returns, whoever holds the lock.                                  *)
BuildReturns ==
    \A s \in Sender : pc[s] \in BuildStates \ {"new"} ~> pc[s] \in Returned

(* shutdown returns, also when some workers have never started.            *)
ShutdownReturns ==
    \A s \in Sender : pc[s] = "joining" ~> pc[s] \in {"down", "dead"}

=============================================================================
