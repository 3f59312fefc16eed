-------------------------- MODULE LifecycleProofs ---------------------------
(***************************************************************************)
(* What a Sender leaves behind, who holds libtpa's lock and how often      *)
(* libtpa is initialised, for any number of Senders, processes and         *)
(* providers and every configuration Lifecycle admits.                     *)
(***************************************************************************)
EXTENDS Lifecycle, TLAPS

USE LifecycleAssumption

-----------------------------------------------------------------------------
(* The inductive invariant *)

\* Where a Sender of libtpa holds the lock.
Holding == {"latch", "init", "spawn", "ready", "joining", "joinReconnect"}

\* What build has checked, and where the stop flag may be set.
StageOK(s) ==
    /\ pc[s] \notin {"new", "failed", "dead"} => Missing(cfg[s]) = {}
    /\ pc[s] \in {"lock", "latch", "init"} => cfg[s].engine = "ParTpa"
    /\ pc[s] = "connect" =>
          cfg[s].engine # "ParTpa" /\ conns[s] < 2 * Len(cfg[s].providers)
    /\ stop[s] => pc[s] \in {"joining", "joinReconnect", "down"}

\* The threads there may be at each point: none before build, at most the
\* lane until build returns, afterwards only those with a handle; the ones
\* shutdown has joined are done.
ThreadOK(s, t) ==
    /\ pc[s] \in {"new", "dead"} => thread[s][t] = "none"
    /\ pc[s] \in BuildStates \cup {"failed"} /\ t # Lane => thread[s][t] = "none"
    /\ pc[s] = "failed" /\ Missing(cfg[s]) # {} => thread[s][t] = "none"
    /\ t \notin Handles(s) \cup {Reconnect} => thread[s][t] = "none"
    /\ pc[s] \in {"joinReconnect", "down"} /\ t \in Handles(s) => thread[s][t] = "done"
    /\ pc[s] = "down" /\ t = Reconnect => thread[s][t] = "done"

\* Only a worker that runs has said it is alive, until it is stopped.
AliveOK(s) ==
    \A i \in Providers(s) :
        alive[s][i] /\ ~stop[s] => thread[s][ServerOf(s, i)] = "running"

SenderOK(s) == StageOK(s) /\ AliveOK(s) /\ \A t \in Threads(cfg[s]) : ThreadOK(s, t)

\* The lock belongs to the one libtpa Sender between flock and its end.
HolderOK ==
    \A s \in Sender : lock = s <=> cfg[s].engine = "ParTpa" /\ pc[s] \in Holding

\* INIT_DONE is set by an initialisation that has succeeded, or by the one
\* that is under way.
LatchOK ==
    /\ \A p \in Process :
          /\ inits[p] <= 1
          /\ inits[p] = 1 => initDone[p]
          /\ initDone[p] /\ inits[p] = 0 =>
                \E s \in Sender : Owner[s] = p /\ pc[s] = "init"
    /\ \A s \in Sender :
          /\ pc[s] = "init" => initDone[Owner[s]] /\ inits[Owner[s]] = 0
          /\ result[s] = "AlreadyInit" => inits[Owner[s]] = 1

LInv == TypeOK /\ (\A s \in Sender : SenderOK(s)) /\ HolderOK /\ LatchOK

-----------------------------------------------------------------------------
(* Facts about the configurations *)

\* A configuration that passes build's checks names a provider, so there is
\* a first worker; the workers are among the threads.
LEMMA CheckedConfig ==
    ASSUME TypeOK, NEW s \in Sender
    PROVE  /\ cfg[s].providers = <<>> => Missing(cfg[s]) # {}
           /\ Missing(cfg[s]) = {} => 1 \in DOMAIN cfg[s].providers
           /\ DOMAIN cfg[s].providers \subseteq Nat \ {0}
           /\ Len(cfg[s].providers) \in Nat
           /\ DOMAIN cfg[s].providers = 1 .. Len(cfg[s].providers)
<1>1. cfg[s].providers \in Seq([protocol : {"Http"}, compiles : BOOLEAN] \cup
          [protocol : {"Quic"}, has : SUBSET {"endpoint", "profile", "auth"},
           idleFits : BOOLEAN])
  BY DEF TypeOK
<1>2. cfg[s].providers = <<>> => 1 \in Missing(cfg[s])
  BY DEF Missing
<1>3. cfg[s].providers # <<>> => 1 \in DOMAIN cfg[s].providers
  BY <1>1
<1> QED  BY <1>1, <1>2, <1>3

\* The first check that fails is one of build's errors.
LEMMA ErrorOfCheck ==
    ASSUME NEW c, NEW n \in Missing(c)
    PROVE  Checks[n] \in {"NoProviders", "NoTransport", "NoTls", "NoSource", "NoSink"}
<1>1. n \in {1, 2, 3, 4, 5}
  BY DEF Missing
<1> QED  BY <1>1 DEF Checks

\* What connect_one may return.
LEMMA ConnectResults ==
    ASSUME NEW c, NEW i
    PROVE  ConnectOne(c, i) \subseteq {"ok", "Connect", "Unsupported", "QuicConfig"}
  BY DEF ConnectOne, BuildQuicClientConfig

-----------------------------------------------------------------------------
(* A step of one Sender leaves the others alone *)

Only(s) ==
    /\ cfg' = cfg
    /\ \A r \in Sender \ {s} :
          /\ pc'[r] = pc[r] /\ conns'[r] = conns[r] /\ result'[r] = result[r]
          /\ stop'[r] = stop[r] /\ thread'[r] = thread[r] /\ alive'[r] = alive[r]

\* What is true of a Sender stays true when another takes a step.
LEMMA OthersKeep ==
    ASSUME LInv, NEW s \in Sender, Only(s), NEW r \in Sender, r # s
    PROVE  SenderOK(r)'
<1>1. cfg' = cfg /\ pc'[r] = pc[r] /\ conns'[r] = conns[r] /\ stop'[r] = stop[r]
      /\ thread'[r] = thread[r] /\ alive'[r] = alive[r]
  BY DEF Only
<1>2. SenderOK(r)
  BY DEF LInv
<1>3. StageOK(r)'
  BY <1>1, <1>2 DEF SenderOK, StageOK
<1>4. AliveOK(r)'
  BY <1>1, <1>2 DEF SenderOK, AliveOK, Providers, ServerOf
<1>5. \A t \in Threads(cfg[r]) : ThreadOK(r, t)'
  BY <1>1, <1>2 DEF SenderOK, ThreadOK, Handles
<1> QED  BY <1>1, <1>3, <1>4, <1>5 DEF SenderOK

\* The actions of one Sender.
Own(s) ==
    \/ Building(s) \/ Shutdown(s) \/ Join(s) \/ DropSender(s) \/ ReconnectEnd(s)
    \/ \E t \in DOMAIN thread[s] : TpaWorkerStart(s, t) \/ SeeStop(s, t)
    \/ \E i \in Providers(s) : PublishDiag(s, i)

\* A step of s changes no other Sender.
LEMMA OwnOnly ==
    ASSUME TypeOK, NEW s \in Sender, Own(s)
    PROVE  Only(s)
<1> USE DEF TypeOK, Only, buildVars, runVars, tpaVars, Goto, Fail, SetThreads
<1>1. CASE Start(s)
  BY <1>1 DEF Start
<1>2. CASE Connect(s)
  BY <1>2 DEF Connect
<1>3. CASE AcquireLock(s) \/ SwapLatch(s) \/ TpaInit(s) \/ Spawn(s)
  BY <1>3 DEF AcquireLock, SwapLatch, TpaInit, Spawn
<1>4. CASE Shutdown(s) \/ Join(s) \/ DropSender(s) \/ ReconnectEnd(s)
  BY <1>4 DEF Shutdown, Join, JoinWorkers, JoinReconnect, DropSender, ReconnectEnd
<1>5. CASE \E t \in DOMAIN thread[s] : TpaWorkerStart(s, t) \/ SeeStop(s, t)
  BY <1>5 DEF TpaWorkerStart, SeeStop
<1>6. CASE \E i \in Providers(s) : PublishDiag(s, i)
  BY <1>6 DEF PublishDiag
<1> QED  BY <1>1, <1>2, <1>3, <1>4, <1>5, <1>6 DEF Own, Building

-----------------------------------------------------------------------------
(* TypeOK *)

\* The part of TypeOK that is about one Sender.
SenderType(s) ==
    /\ pc[s] \in BuildStates \cup Returned
    /\ cfg[s] \in ConfigOf[s]
    /\ conns[s] \in Nat /\ conns[s] <= 2 * Len(cfg[s].providers)
    /\ pc[s] \in {"new", "failed"} => conns[s] = 0
    /\ thread[s] \in [Threads(cfg[s]) -> {"none", "starting", "running", "done"}]
    /\ alive[s] \in [Providers(s) -> BOOLEAN]
    /\ stop[s] \in BOOLEAN
    /\ result[s] \in {"none", "Ok", "NoProviders", "NoTransport", "NoTls", "NoSource",
                      "NoSink", "Connect", "Unsupported", "QuicConfig", "Io",
                      "AlreadyInit", "TpaInit"}

\* What TypeOK says of one Sender.
LEMMA SenderTyped ==
    ASSUME TypeOK, NEW s \in Sender
    PROVE  SenderType(s)
  BY DEF TypeOK, SenderType

\* What SetThreads leaves.
LEMMA ThreadsSet ==
    ASSUME TypeOK, NEW s \in Sender, NEW ts, NEW state, SetThreads(s, ts, state)
    PROVE  /\ DOMAIN thread'[s] = Threads(cfg[s])
           /\ \A t \in Threads(cfg[s]) :
                 thread'[s][t] = IF t \in ts THEN state ELSE thread[s][t]
           /\ state \in {"none", "starting", "running", "done"} =>
                 thread'[s] \in [Threads(cfg[s]) -> {"none", "starting", "running", "done"}]
  BY DEF TypeOK, SetThreads

\* Start: the first failed check is build's error, or the lane is spawned.
LEMMA StartType ==
    ASSUME LInv, NEW s \in Sender, Start(s)
    PROVE  SenderType(s)' /\ UNCHANGED tpaVars
<1> USE SenderTyped, CheckedConfig DEF LInv, SenderType, Start, TypeOK, Goto, Fail, SetThreads
<1>1. UNCHANGED <<cfg, stop, alive, tpaVars>> /\ pc[s] = "new" /\ conns[s] = 0
  OBVIOUS
<1>2. CASE Missing(cfg[s]) # {}
  <2>1. PICK n \in Missing(cfg[s]) : Fail(s, Checks[n])
    BY <1>2
  <2> QED  BY <1>1, <1>2, <2>1, ErrorOfCheck DEF Returned, Providers
<1>3. CASE Missing(cfg[s]) = {}
  <2>1. SetThreads(s, {Lane}, "running")
    BY <1>3
  <2>2. thread'[s] \in [Threads(cfg[s]) -> {"none", "starting", "running", "done"}]
    BY <2>1, ThreadsSet
  <2> HIDE DEF SetThreads
  <2> QED  BY <1>1, <1>3, <2>2 DEF BuildStates, Providers
<1> QED  BY <1>2, <1>3

\* connect_dual_all counts at most an active and a standby per provider.
LEMMA ConnectType ==
    ASSUME LInv, NEW s \in Sender, Connect(s)
    PROVE  SenderType(s)' /\ UNCHANGED tpaVars
<1>1. /\ SenderType(s) /\ conns[s] < 2 * Len(cfg[s].providers) /\ Len(cfg[s].providers) \in Nat
      /\ pc[s] = "connect" /\ UNCHANGED <<cfg, runVars, tpaVars>>
      /\ s \in DOMAIN pc /\ s \in DOMAIN conns /\ s \in DOMAIN result
  BY SenderTyped, CheckedConfig DEF LInv, SenderOK, StageOK, Connect, TypeOK
<1>2. PICK r \in ConnectOne(cfg[s], conns[s] \div 2 + 1) :
          IF r # "ok" THEN Fail(s, r)
          ELSE /\ conns' = [conns EXCEPT ![s] = @ + 1]
               /\ pc' = [pc EXCEPT ![s] =
                            IF conns'[s] = 2 * Len(cfg[s].providers) THEN "spawn" ELSE @]
               /\ UNCHANGED result
  BY DEF Connect
<1>3. r \in {"ok", "Connect", "Unsupported", "QuicConfig"}
  BY <1>2, ConnectResults
<1>4. CASE r # "ok"
  BY <1>1, <1>2, <1>3, <1>4 DEF SenderType, Fail, Returned, Providers, runVars
<1>5. CASE r = "ok"
  BY <1>1, <1>2, <1>5 DEF SenderType, BuildStates, Providers, runVars
<1> QED  BY <1>1, <1>4, <1>5

\* The other actions of a Sender.
LEMMA OtherType ==
    ASSUME LInv, NEW s \in Sender, Own(s), ~Start(s), ~Connect(s)
    PROVE  SenderType(s)'
<1>1. /\ SenderType(s) /\ TypeOK
  BY SenderTyped DEF LInv
<1> USE <1>1 DEF SenderType, TypeOK, buildVars, runVars, tpaVars, Goto, Fail, SetThreads, Providers
<1>2. CASE AcquireLock(s)
  BY <1>2 DEF AcquireLock, BuildStates, Returned
<1>3. CASE SwapLatch(s)
  BY <1>3 DEF SwapLatch, BuildStates, Returned
<1>4. CASE TpaInit(s)
  BY <1>4 DEF TpaInit, BuildStates, Returned
<1>5. CASE Spawn(s)
  BY <1>5 DEF Spawn, Returned
<1>6. CASE Shutdown(s) \/ JoinWorkers(s) \/ JoinReconnect(s) \/ DropSender(s)
  <2>1. PICK at \in {"joining", "joinReconnect", "down", "dropped"} : Goto(s, at)
    BY <1>6 DEF Shutdown, JoinWorkers, JoinReconnect, DropSender
  <2>2. cfg' = cfg /\ thread' = thread /\ alive' = alive /\ stop'[s] \in BOOLEAN
    BY <1>6, ZenonT(30) DEF Shutdown, JoinWorkers, JoinReconnect, DropSender
  <2> QED  BY <2>1, <2>2 DEF Returned
<1>7. CASE ReconnectEnd(s)
  BY <1>7 DEF ReconnectEnd
<1>8. ASSUME NEW t \in DOMAIN thread[s], TpaWorkerStart(s, t) \/ SeeStop(s, t)
      PROVE  SenderType(s)'
  <2>1. PICK state \in {"running", "done"} : SetThreads(s, {t}, state)
    BY <1>8 DEF TpaWorkerStart, SeeStop
  <2>2. thread'[s] \in [Threads(cfg[s]) -> {"none", "starting", "running", "done"}]
    BY <2>1, ThreadsSet
  <2>3. UNCHANGED <<buildVars, stop, alive>>
    BY <1>8 DEF TpaWorkerStart, SeeStop
  <2> QED  BY <2>2, <2>3
<1>9. CASE \E i \in Providers(s) : PublishDiag(s, i)
  BY <1>9 DEF PublishDiag
<1> QED  BY <1>2, <1>3, <1>4, <1>5, <1>6, <1>7, <1>8, <1>9
         DEF Own, Building, Join

\* No action of a Sender changes the shape of the state.
LEMMA OwnShape ==
    ASSUME LInv, NEW s \in Sender, Own(s)
    PROVE  /\ DOMAIN pc' = Sender /\ DOMAIN conns' = Sender /\ DOMAIN stop' = Sender
           /\ DOMAIN thread' = Sender /\ DOMAIN alive' = Sender /\ DOMAIN result' = Sender
           /\ pc' = [r \in Sender |-> pc'[r]] /\ conns' = [r \in Sender |-> conns'[r]]
           /\ stop' = [r \in Sender |-> stop'[r]] /\ result' = [r \in Sender |-> result'[r]]
           /\ lock' \in Sender \cup {Nobody}
           /\ initDone' \in [Process -> BOOLEAN] /\ inits' \in [Process -> Nat]
<1> USE DEF LInv, TypeOK, buildVars, runVars, tpaVars, Goto, Fail, SetThreads
<1>1. CASE Start(s)
  BY <1>1 DEF Start
<1>2. CASE Connect(s)
  BY <1>2 DEF Connect
<1>3. CASE AcquireLock(s)
  BY <1>3 DEF AcquireLock
<1>4. CASE SwapLatch(s)
  BY <1>4 DEF SwapLatch
<1>5. CASE TpaInit(s)
  <2>1. UNCHANGED <<cfg, runVars>> /\ Owner[s] \in Process
    BY <1>5 DEF TpaInit
  <2>2. CASE Goto(s, "spawn") /\ inits' = [inits EXCEPT ![Owner[s]] = @ + 1]
             /\ UNCHANGED <<lock, initDone>>
    <3>1. inits' \in [Process -> Nat]
      BY <2>1, <2>2
    <3>2. pc' = [pc EXCEPT ![s] = "spawn"] /\ UNCHANGED <<result, conns, lock, initDone>>
      BY <2>2
    <3> QED  BY <2>1, <3>1, <3>2
  <2>3. CASE Fail(s, "TpaInit") /\ initDone' = [initDone EXCEPT ![Owner[s]] = FALSE]
             /\ lock' = Nobody /\ UNCHANGED inits
    BY <2>1, <2>3
  <2> QED  BY <1>5, <2>2, <2>3 DEF TpaInit
<1>6. CASE Spawn(s)
  BY <1>6 DEF Spawn
<1>7. CASE Shutdown(s) \/ Join(s) \/ DropSender(s) \/ ReconnectEnd(s)
  BY <1>7 DEF Shutdown, Join, JoinWorkers, JoinReconnect, DropSender, ReconnectEnd
<1>8. CASE \E t \in DOMAIN thread[s] : TpaWorkerStart(s, t) \/ SeeStop(s, t)
  BY <1>8 DEF TpaWorkerStart, SeeStop
<1>9. CASE \E i \in Providers(s) : PublishDiag(s, i)
  BY <1>9 DEF PublishDiag
<1> QED  BY <1>1, <1>2, <1>3, <1>4, <1>5, <1>6, <1>7, <1>8, <1>9 DEF Own, Building

\* A step of a Sender keeps the types.
LEMMA OwnType ==
    ASSUME LInv, NEW s \in Sender, Own(s)
    PROVE  TypeOK'
<1>1. SenderType(s)'
  BY StartType, ConnectType, OtherType
<1>2. ASSUME NEW r \in Sender, r # s
      PROVE  SenderType(r)'
  BY <1>2, OwnOnly, SenderTyped DEF LInv, Only, SenderType, Providers
<1>3. \A r \in Sender : SenderType(r)'
  BY <1>1, <1>2
<1> QED  BY <1>3, OwnShape DEF TypeOK, SenderType

-----------------------------------------------------------------------------
(* SenderOK *)

\* A step that neither spawns nor ends a thread, and stores no flag, and what
\* it must have established for the place it goes to.
Moves(s) ==
    /\ cfg' = cfg /\ thread' = thread /\ alive' = alive /\ stop' = stop
    /\ stop[s] => pc'[s] \in {"joining", "joinReconnect", "down"}
    /\ pc'[s] \notin {"new", "dead"}
    /\ pc'[s] \in BuildStates \cup {"failed"} =>
          /\ pc[s] \in BuildStates
          /\ Missing(cfg[s]) # {} => pc[s] = "new"
    /\ pc'[s] # "failed" => Missing(cfg[s]) = {}
    /\ pc'[s] \in {"lock", "latch", "init"} => cfg[s].engine = "ParTpa"
    /\ pc'[s] = "connect" =>
          cfg[s].engine # "ParTpa" /\ conns'[s] < 2 * Len(cfg[s].providers)
    /\ pc'[s] \in {"joinReconnect", "down"} => \A t \in Handles(s) : thread[s][t] = "done"
    /\ pc'[s] = "down" => thread[s][Reconnect] = "done"

\* A step that starts and ends no thread.
LEMMA MoveKeeps ==
    ASSUME LInv, NEW s \in Sender, Moves(s)
    PROVE  SenderOK(s)'
<1> USE DEF Moves
<1>1. SenderOK(s)
  BY DEF LInv
<1>2. StageOK(s)'
  BY <1>1 DEF StageOK
<1>3. AliveOK(s)'
  BY <1>1 DEF SenderOK, AliveOK, Providers, ServerOf
<1>4. ASSUME NEW t \in Threads(cfg[s])
      PROVE  ThreadOK(s, t)'
  <2>1. ThreadOK(s, t)
    BY <1>1 DEF SenderOK
  <2> QED  BY <1>1, <2>1 DEF ThreadOK, Handles
<1> QED  BY <1>2, <1>3, <1>4 DEF SenderOK

\* build connects, takes the lock, swaps the latch and initialises libtpa.
LEMMA BuildKeeps ==
    ASSUME LInv, NEW s \in Sender,
           Connect(s) \/ AcquireLock(s) \/ SwapLatch(s) \/ TpaInit(s)
    PROVE  SenderOK(s)'
<1> USE DEF runVars
<1>0. TypeOK /\ SenderOK(s) /\ StageOK(s) /\ (\A t \in Threads(cfg[s]) : ThreadOK(s, t))
  BY DEF LInv, SenderOK
<1>1. CASE Connect(s)
  <2>1. PICK r : IF r # "ok" THEN Fail(s, r)
          ELSE /\ conns' = [conns EXCEPT ![s] = @ + 1]
               /\ pc' = [pc EXCEPT ![s] =
                            IF conns'[s] = 2 * Len(cfg[s].providers) THEN "spawn" ELSE @]
               /\ UNCHANGED result
    BY <1>1 DEF Connect
  <2>2. cfg' = cfg /\ thread' = thread /\ alive' = alive /\ stop' = stop /\ pc[s] = "connect"
    BY <1>1 DEF Connect
  <2>3. ~stop[s] /\ Missing(cfg[s]) = {} /\ cfg[s].engine # "ParTpa"
        /\ conns[s] < 2 * Len(cfg[s].providers)
    BY <1>0, <2>2 DEF StageOK
  <2>4. CASE r # "ok"
    <3>1. pc'[s] = "failed"
      BY <1>0, <2>1, <2>4 DEF Fail, TypeOK
    <3>2. Moves(s)
      BY <2>2, <2>3, <3>1 DEF Moves, BuildStates
    <3> QED  BY <3>2, MoveKeeps
  <2>5. CASE r = "ok"
    <3>1. /\ pc'[s] \in {"spawn", "connect"}
          /\ pc'[s] = "connect" => conns'[s] # 2 * Len(cfg[s].providers)
      BY <1>0, <2>1, <2>2, <2>5 DEF TypeOK
    <3>2. conns'[s] = conns[s] + 1 /\ conns[s] \in Nat /\ Len(cfg[s].providers) \in Nat
      BY <1>0, <2>1, <2>5, CheckedConfig DEF TypeOK
    <3>3. pc'[s] = "connect" => conns'[s] < 2 * Len(cfg[s].providers)
      <4>1. \A a, b \in Nat : a < 2 * b /\ a + 1 # 2 * b => a + 1 < 2 * b
        BY SMT
      <4>2. conns[s] < 2 * Len(cfg[s].providers) /\ conns[s] + 1 # 2 * Len(cfg[s].providers)
            => conns[s] + 1 < 2 * Len(cfg[s].providers)
        BY <3>2, <4>1, Zenon
      <4> QED  BY <2>3, <3>1, <3>2, <4>2, Zenon
    <3>4. Moves(s)
      BY <2>2, <2>3, <3>1, <3>3 DEF Moves, BuildStates
    <3> QED  BY <3>4, MoveKeeps
  <2> QED  BY <2>4, <2>5
<1>2. CASE AcquireLock(s) \/ SwapLatch(s) \/ TpaInit(s)
  <2>1. /\ cfg' = cfg /\ thread' = thread /\ alive' = alive /\ stop' = stop
        /\ pc[s] \in {"lock", "latch", "init"}
    BY <1>2 DEF AcquireLock, SwapLatch, TpaInit
  <2>2. ~stop[s] /\ Missing(cfg[s]) = {} /\ cfg[s].engine = "ParTpa"
    BY <1>0, <2>1 DEF StageOK
  <2>3. pc'[s] \in {"latch", "init", "spawn", "failed"}
    BY <1>0, <1>2 DEF AcquireLock, SwapLatch, TpaInit, Goto, Fail, TypeOK
  <2>4. Moves(s)
    BY <2>1, <2>2, <2>3 DEF Moves, BuildStates
  <2> QED  BY <2>4, MoveKeeps
<1> QED  BY <1>1, <1>2

\* shutdown joins, or the Sender is dropped.
LEMMA EndKeeps ==
    ASSUME LInv, NEW s \in Sender, JoinWorkers(s) \/ JoinReconnect(s) \/ DropSender(s)
    PROVE  SenderOK(s)'
<1> USE DEF runVars
<1>0. TypeOK /\ StageOK(s) /\ (\A t \in Threads(cfg[s]) : ThreadOK(s, t))
  BY DEF LInv, SenderOK
<1>1. /\ cfg' = cfg /\ thread' = thread /\ alive' = alive /\ stop' = stop
      /\ pc[s] \in {"ready", "joining", "joinReconnect"} /\ Missing(cfg[s]) = {}
  BY <1>0 DEF JoinWorkers, JoinReconnect, DropSender, StageOK
<1>2. CASE JoinWorkers(s)
  <2>1. pc'[s] = "joinReconnect" /\ \A t \in Handles(s) : thread[s][t] = "done"
    BY <1>0, <1>2 DEF JoinWorkers, Goto, TypeOK
  <2>2. Moves(s)
    BY <1>1, <2>1 DEF Moves, BuildStates
  <2> QED  BY <2>2, MoveKeeps
<1>3. CASE JoinReconnect(s)
  <2>1. Handles(s) \subseteq Threads(cfg[s])
    BY <1>0, <1>1, CheckedConfig DEF Handles, Workers, Threads
  <2>2. \A t \in Handles(s) : thread[s][t] = "done"
    BY <1>0, <1>3, <2>1 DEF JoinReconnect, ThreadOK
  <2>3. pc'[s] = "down" /\ thread[s][Reconnect] = "done"
    BY <1>0, <1>3 DEF JoinReconnect, Goto, TypeOK
  <2>4. Moves(s)
    BY <1>1, <2>2, <2>3 DEF Moves, BuildStates
  <2> QED  BY <2>4, MoveKeeps
<1>4. CASE DropSender(s)
  <2>1. ~stop[s] /\ pc'[s] = "dropped"
    BY <1>0, <1>4 DEF DropSender, Goto, StageOK, TypeOK
  <2>2. Moves(s)
    BY <1>1, <2>1 DEF Moves, BuildStates
  <2> QED  BY <2>2, MoveKeeps
<1> QED  BY <1>2, <1>3, <1>4

\* build checks its configuration and spawns the lane.
LEMMA StartKeeps ==
    ASSUME LInv, NEW s \in Sender, Start(s)
    PROVE  SenderOK(s)'
<1>0. TypeOK /\ SenderOK(s) /\ StageOK(s) /\ (\A t \in Threads(cfg[s]) : ThreadOK(s, t))
  BY DEF LInv, SenderOK
<1>1. pc[s] = "new" /\ cfg' = cfg /\ stop' = stop /\ alive' = alive /\ ~stop[s] /\ conns[s] = 0
  BY <1>0 DEF Start, StageOK, TypeOK
<1>2. CASE Missing(cfg[s]) # {}
  <2>1. thread' = thread /\ pc'[s] = "failed"
    BY <1>0, <1>2 DEF Start, Fail, TypeOK
  <2>2. Moves(s)
    BY <1>1, <1>2, <2>1 DEF Moves, BuildStates
  <2> QED  BY <2>2, MoveKeeps
<1>3. CASE Missing(cfg[s]) = {}
  <2>1. /\ SetThreads(s, {Lane}, "running") /\ conns' = conns
        /\ pc' = [pc EXCEPT ![s] = IF cfg[s].engine = "ParTpa" THEN "lock" ELSE "connect"]
    BY <1>3 DEF Start, Goto
  <2>2. pc'[s] = IF cfg[s].engine = "ParTpa" THEN "lock" ELSE "connect"
    BY <1>0, <2>1 DEF TypeOK
  <2>8. \A t \in Threads(cfg[s]) :
            thread'[s][t] = IF t \in {Lane} THEN "running" ELSE thread[s][t]
    BY <1>0, <2>1, ThreadsSet
  <2>3. 0 < 2 * Len(cfg[s].providers)
    BY <1>0, <1>3, CheckedConfig
  <2>4. StageOK(s)'
    BY <1>1, <1>3, <2>1, <2>2, <2>3 DEF StageOK
  <2>5. \A t \in Threads(cfg[s]) : thread[s][t] = "none"
    BY <1>0, <1>1 DEF ThreadOK
  <2>6. ASSUME NEW t \in Threads(cfg[s])
        PROVE  ThreadOK(s, t)'
    BY <1>1, <1>3, <2>2, <2>5, <2>8 DEF ThreadOK, Handles
  <2>7. AliveOK(s)'
    <3>1. ASSUME NEW i \in Providers(s)
          PROVE  ServerOf(s, i) \in Threads(cfg[s]) /\ ~alive[s][i]
      <4>1. ServerOf(s, i) \in Threads(cfg[s])
        BY <1>0, <1>3, CheckedConfig DEF Providers, ServerOf, Threads
      <4> QED  BY <1>0, <1>1, <2>5, <4>1 DEF SenderOK, AliveOK
    <3> QED  BY <1>1, <3>1 DEF AliveOK, Providers
  <2> QED  BY <1>1, <2>4, <2>6, <2>7 DEF SenderOK
<1> QED  BY <1>2, <1>3

\* Spawn starts the workers; none has said anything yet.
LEMMA SpawnKeeps ==
    ASSUME LInv, NEW s \in Sender, Spawn(s)
    PROVE  SenderOK(s)'
<1>0. TypeOK /\ SenderOK(s) /\ StageOK(s) /\ (\A t \in Threads(cfg[s]) : ThreadOK(s, t))
  BY DEF LInv, SenderOK
<1>1. /\ pc[s] = "spawn" /\ pc'[s] = "ready" /\ cfg' = cfg /\ stop' = stop /\ alive' = alive
      /\ Missing(cfg[s]) = {} /\ ~stop[s]
  BY <1>0 DEF Spawn, StageOK, TypeOK
<1>2. \A t \in Threads(cfg[s]) :
          thread'[s][t] = IF t # Reconnect /\ t \notin Workers(cfg[s]) THEN thread[s][t]
                          ELSE IF t # Reconnect /\ cfg[s].engine = "ParTpa" THEN "starting"
                          ELSE "running"
  BY <1>0 DEF Spawn, TypeOK
<1>3. \A t \in Threads(cfg[s]) : t # Lane => thread[s][t] = "none"
  BY <1>0, <1>1 DEF ThreadOK, BuildStates
<1>4. StageOK(s)'
  BY <1>1 DEF StageOK
<1>5. ASSUME NEW t \in Threads(cfg[s])
      PROVE  ThreadOK(s, t)'
  BY <1>1, <1>2, <1>3 DEF ThreadOK, Handles, BuildStates
<1>6. ASSUME NEW i \in Providers(s)
      PROVE  ~alive[s][i]
  <2>1. ServerOf(s, i) \in Threads(cfg[s]) /\ ServerOf(s, i) # Lane
    BY <1>0, <1>1, CheckedConfig DEF Providers, ServerOf, Threads, Lane
  <2> QED  BY <1>0, <1>1, <1>3, <2>1 DEF SenderOK, AliveOK
<1>7. AliveOK(s)'
  BY <1>1, <1>6 DEF AliveOK, Providers
<1> QED  BY <1>1, <1>4, <1>5, <1>7 DEF SenderOK

\* A thread that ends, or a libtpa worker that starts: nobody who has said
\* that it is alive goes away before the stop flag.
LEMMA ThreadKeeps ==
    ASSUME LInv, NEW s \in Sender, NEW t \in Threads(cfg[s]), NEW state \in {"running", "done"},
           SetThreads(s, {t}, state), UNCHANGED <<buildVars, stop, alive>>,
           thread[s][t] \in {"starting", "running"},
           thread[s][t] = "starting" \/ (state = "done" /\ (t = Reconnect \/ stop[s]))
    PROVE  SenderOK(s)'
<1>0. TypeOK /\ SenderOK(s) /\ StageOK(s) /\ (\A u \in Threads(cfg[s]) : ThreadOK(s, u))
  BY DEF LInv, SenderOK
<1>1. cfg' = cfg /\ pc' = pc /\ conns' = conns /\ stop' = stop /\ alive' = alive
  BY DEF buildVars
<1>2. \A u \in Threads(cfg[s]) : thread'[s][u] = IF u \in {t} THEN state ELSE thread[s][u]
  BY <1>0, ThreadsSet
<1>3. StageOK(s)'
  BY <1>0, <1>1 DEF StageOK
<1>4. ASSUME NEW u \in Threads(cfg[s])
      PROVE  ThreadOK(s, u)'
  <2>1. CASE u # t
    BY <1>0, <1>1, <1>2, <2>1 DEF ThreadOK, Handles
  <2>2. CASE u = t
    BY <1>0, <1>1, <1>2, <2>2 DEF ThreadOK, Handles
  <2> QED  BY <2>1, <2>2
<1>5. ASSUME NEW i \in Providers(s), alive[s][i], ~stop[s]
      PROVE  thread'[s][ServerOf(s, i)] = "running"
  <2>1. ServerOf(s, i) \in Threads(cfg[s]) /\ ServerOf(s, i) # Reconnect
    BY <1>0, <1>5, CheckedConfig DEF Providers, ServerOf, Threads, Reconnect
  <2>2. thread[s][ServerOf(s, i)] = "running"
    BY <1>0, <1>5 DEF SenderOK, AliveOK
  <2>3. ServerOf(s, i) # t
    BY <1>5, <2>1, <2>2
  <2> QED  BY <1>2, <2>1, <2>2, <2>3
<1>6. AliveOK(s)'
  BY <1>1, <1>5 DEF AliveOK, Providers, ServerOf
<1> QED  BY <1>1, <1>3, <1>4, <1>6 DEF SenderOK

\* A thread connects, sees the flag or returns.
LEMMA ThreadsKeep ==
    ASSUME LInv, NEW s \in Sender,
           \/ ReconnectEnd(s)
           \/ \E t \in DOMAIN thread[s] : TpaWorkerStart(s, t) \/ SeeStop(s, t)
    PROVE  SenderOK(s)'
<1>0. TypeOK /\ DOMAIN thread[s] = Threads(cfg[s]) /\ Reconnect \in Threads(cfg[s])
  BY DEF LInv, TypeOK, Threads
<1>1. CASE ReconnectEnd(s)
  <2>1. /\ SetThreads(s, {Reconnect}, "done") /\ UNCHANGED <<buildVars, stop, alive>>
        /\ thread[s][Reconnect] = "running"
    BY <1>1 DEF ReconnectEnd
  <2> QED  BY <1>0, <2>1, ThreadKeeps
<1>2. ASSUME NEW t \in Threads(cfg[s]), TpaWorkerStart(s, t)
      PROVE  SenderOK(s)'
  <2>1. PICK state \in {"running", "done"} : SetThreads(s, {t}, state)
    BY <1>2 DEF TpaWorkerStart
  <2>2. UNCHANGED <<buildVars, stop, alive>> /\ thread[s][t] = "starting"
    BY <1>2 DEF TpaWorkerStart
  <2> QED  BY <2>1, <2>2, ThreadKeeps
<1>3. ASSUME NEW t \in Threads(cfg[s]), SeeStop(s, t)
      PROVE  SenderOK(s)'
  <2>1. /\ SetThreads(s, {t}, "done") /\ UNCHANGED <<buildVars, stop, alive>>
        /\ thread[s][t] = "running" /\ stop[s]
    BY <1>3 DEF SeeStop
  <2> QED  BY <2>1, ThreadKeeps
<1> QED  BY <1>0, <1>1, <1>2, <1>3

\* shutdown sets the flag.
LEMMA ShutdownKeeps ==
    ASSUME LInv, NEW s \in Sender, Shutdown(s)
    PROVE  SenderOK(s)'
<1>0. TypeOK /\ StageOK(s) /\ (\A t \in Threads(cfg[s]) : ThreadOK(s, t))
  BY DEF LInv, SenderOK
<1>1. /\ pc[s] = "ready" /\ pc'[s] = "joining" /\ cfg' = cfg /\ stop'[s] = TRUE
      /\ thread' = thread /\ alive' = alive
  BY <1>0 DEF Shutdown, Goto, TypeOK
<1>2. StageOK(s)' /\ AliveOK(s)'
  BY <1>0, <1>1 DEF StageOK, AliveOK
<1>3. ASSUME NEW t \in Threads(cfg[s])
      PROVE  ThreadOK(s, t)'
  BY <1>0, <1>1 DEF ThreadOK, Handles, BuildStates
<1> QED  BY <1>1, <1>2, <1>3 DEF SenderOK

\* A worker publishes its health.
LEMMA PublishKeeps ==
    ASSUME LInv, NEW s \in Sender, NEW i \in Providers(s), PublishDiag(s, i)
    PROVE  SenderOK(s)'
<1>0. TypeOK /\ SenderOK(s) /\ StageOK(s) /\ (\A t \in Threads(cfg[s]) : ThreadOK(s, t))
  BY DEF LInv, SenderOK
<1>1. /\ cfg' = cfg /\ pc' = pc /\ conns' = conns /\ stop' = stop /\ thread' = thread
      /\ thread[s][ServerOf(s, i)] = "running"
      /\ \A j \in Providers(s) : j # i => alive'[s][j] = alive[s][j]
  BY <1>0 DEF PublishDiag, buildVars, TypeOK
<1>2. StageOK(s)'
  BY <1>0, <1>1 DEF StageOK
<1>3. AliveOK(s)'
  <2>1. ASSUME NEW j \in Providers(s), alive'[s][j], ~stop[s]
        PROVE  thread[s][ServerOf(s, j)] = "running"
    BY <1>0, <1>1, <2>1 DEF SenderOK, AliveOK
  <2> QED  BY <1>1, <2>1 DEF AliveOK, Providers, ServerOf
<1>4. ASSUME NEW t \in Threads(cfg[s])
      PROVE  ThreadOK(s, t)'
  BY <1>0, <1>1 DEF ThreadOK, Handles
<1> QED  BY <1>1, <1>2, <1>3, <1>4 DEF SenderOK

\* A step of s keeps what is true of s and of every other Sender.
LEMMA OwnKeeps ==
    ASSUME LInv, NEW s \in Sender, Own(s)
    PROVE  \A r \in Sender : SenderOK(r)'
<1>1. SenderOK(s)'
  BY StartKeeps, BuildKeeps, SpawnKeeps, ShutdownKeeps, EndKeeps, ThreadsKeep, PublishKeeps
     DEF Own, Building, Join
<1> QED  BY <1>1, OwnOnly, OthersKeep DEF LInv

-----------------------------------------------------------------------------
(* The lock and the latch *)

\* The lock changes only between nobody and the Sender that takes the step.
LEMMA HolderMoves ==
    ASSUME LInv, NEW s \in Sender, Only(s),
           lock' = lock \/ (lock \in {s, Nobody} /\ lock' \in {s, Nobody}),
           lock' = s <=> cfg[s].engine = "ParTpa" /\ pc'[s] \in Holding
    PROVE  HolderOK'
<1>1. cfg' = cfg /\ HolderOK
  BY DEF Only, LInv
<1>2. ASSUME NEW r \in Sender, r # s
      PROVE  lock' = r <=> cfg'[r].engine = "ParTpa" /\ pc'[r] \in Holding
  <2>1. pc'[r] = pc[r] /\ r # Nobody
    BY <1>2 DEF Only
  <2>2. lock' = r <=> lock = r
    BY <1>2, <2>1
  <2> QED  BY <1>1, <2>1, <2>2 DEF HolderOK
<1> QED  BY <1>1, <1>2 DEF HolderOK

\* A step of a Sender keeps the lock with who uses it.
LEMMA OwnHolder ==
    ASSUME LInv, NEW s \in Sender, Own(s)
    PROVE  HolderOK'
<1>0. TypeOK /\ StageOK(s) /\ Only(s) /\ s # Nobody
      /\ (lock = s <=> cfg[s].engine = "ParTpa" /\ pc[s] \in Holding)
  BY OwnOnly DEF LInv, SenderOK, HolderOK
<1> SUFFICES /\ lock' = lock \/ (lock \in {s, Nobody} /\ lock' \in {s, Nobody})
             /\ lock' = s <=> cfg[s].engine = "ParTpa" /\ pc'[s] \in Holding
  BY <1>0, HolderMoves
<1> USE DEF Goto, Fail, buildVars, runVars, tpaVars
<1>1. CASE Start(s)
  <2>1. lock' = lock /\ pc[s] = "new" /\ pc'[s] \in {"failed", "lock", "connect"}
    BY <1>0, <1>1 DEF Start, TypeOK
  <2> QED  BY <1>0, <2>1 DEF Holding
<1>2. CASE Connect(s)
  <2>1. lock' = lock /\ pc[s] = "connect"
    BY <1>2 DEF Connect
  <2> QED  BY <1>0, <2>1 DEF Holding, StageOK
<1>3. CASE AcquireLock(s)
  <2>1. pc[s] = "lock" /\ cfg[s].engine = "ParTpa" /\ lock # s
    BY <1>0, <1>3 DEF AcquireLock, StageOK, Holding
  <2> QED  BY <1>0, <1>3, <2>1 DEF AcquireLock, Holding, TypeOK
<1>4. CASE SwapLatch(s) \/ TpaInit(s)
  <2>1. pc[s] \in {"latch", "init"} /\ cfg[s].engine = "ParTpa" /\ lock = s
    BY <1>0, <1>4 DEF SwapLatch, TpaInit, StageOK, Holding
  <2>2. \/ lock' = lock /\ pc'[s] \in {"init", "spawn"}
        \/ lock' = Nobody /\ pc'[s] = "failed"
    BY <1>0, <1>4 DEF SwapLatch, TpaInit, TypeOK
  <2> QED  BY <1>0, <2>1, <2>2 DEF Holding
<1>5. CASE Spawn(s) \/ Shutdown(s) \/ JoinWorkers(s)
  <2>1. /\ lock' = lock /\ pc[s] \in {"spawn", "ready", "joining"}
        /\ pc'[s] \in {"ready", "joining", "joinReconnect"}
    BY <1>0, <1>5 DEF Spawn, Shutdown, JoinWorkers, TypeOK
  <2> QED  BY <1>0, <2>1 DEF Holding
<1>6. CASE JoinReconnect(s) \/ DropSender(s)
  <2>1. lock' = (IF lock = s THEN Nobody ELSE lock) /\ pc'[s] \in {"down", "dropped"}
    BY <1>0, <1>6 DEF JoinReconnect, DropSender, TypeOK
  <2> QED  BY <1>0, <2>1 DEF Holding
<1>7. CASE \/ ReconnectEnd(s)
           \/ \E t \in DOMAIN thread[s] : TpaWorkerStart(s, t) \/ SeeStop(s, t)
           \/ \E i \in Providers(s) : PublishDiag(s, i)
  <2>1. lock' = lock /\ pc' = pc
    BY <1>7 DEF ReconnectEnd, TpaWorkerStart, SeeStop, PublishDiag
  <2> QED  BY <1>0, <2>1
<1> QED  BY <1>1, <1>2, <1>3, <1>4, <1>5, <1>6, <1>7 DEF Own, Building, Join

\* A step that has nothing to do with the initialisation of libtpa.
LEMMA LatchIdle ==
    ASSUME LInv, NEW s \in Sender, Only(s), UNCHANGED <<initDone, inits>>,
           pc[s] = "init" <=> pc'[s] = "init",
           result'[s] = "AlreadyInit" => result[s] = "AlreadyInit"
    PROVE  LatchOK'
<1>1. LatchOK /\ Owner[s] \in Process
  BY DEF LInv
<1>2. \A r \in Sender : /\ pc'[r] = "init" <=> pc[r] = "init"
                        /\ result'[r] = "AlreadyInit" => result[r] = "AlreadyInit"
  BY DEF Only
<1> QED  BY <1>1, <1>2 DEF LatchOK

\* Only one Sender is between the lock and the end of the initialisation.
LEMMA OneInit ==
    ASSUME LInv, NEW s \in Sender, NEW r \in Sender, pc[s] \in {"latch", "init"},
           pc[r] \in {"latch", "init"}
    PROVE  r = s
<1>1. StageOK(s) /\ StageOK(r) /\ HolderOK
  BY DEF LInv, SenderOK
<1>2. lock = s /\ lock = r
  BY <1>1 DEF StageOK, HolderOK, Holding
<1> QED  BY <1>2

\* INIT_DONE is swapped.
LEMMA SwapLatchKeeps ==
    ASSUME LInv, NEW s \in Sender, SwapLatch(s)
    PROVE  LatchOK'
<1>0. TypeOK /\ LatchOK /\ Only(s) /\ Owner[s] \in Process /\ Owner \in [Sender -> Process]
  BY OwnOnly DEF LInv, Own, Building
<1>1. /\ pc[s] = "latch" /\ inits' = inits
      /\ initDone' = [initDone EXCEPT ![Owner[s]] = TRUE]
  BY DEF SwapLatch
<1>2. \A r \in Sender : pc[r] # "init"
  BY <1>1, OneInit
<1>3. initDone[Owner[s]] <=> inits[Owner[s]] = 1
  BY <1>0, <1>2 DEF LatchOK, TypeOK
<1>4. CASE initDone[Owner[s]]
  <2>1. pc'[s] = "failed" /\ result'[s] = "AlreadyInit"
    BY <1>0, <1>4 DEF SwapLatch, Fail, TypeOK
  <2>2. initDone' = initDone
    BY <1>0, <1>1, <1>4 DEF TypeOK
  <2>3. \A r \in Sender : pc'[r] # "init"
    BY <1>0, <1>2, <2>1 DEF Only
  <2>4. \A r \in Sender : result'[r] = "AlreadyInit" => r = s \/ result[r] = "AlreadyInit"
    BY <1>0 DEF Only
  <2> QED  BY <1>0, <1>1, <1>2, <1>3, <1>4, <2>2, <2>3, <2>4 DEF LatchOK
<1>5. CASE ~initDone[Owner[s]]
  <2>1. pc'[s] = "init" /\ result' = result
    BY <1>0, <1>5 DEF SwapLatch, Goto, TypeOK
  <2>2. \A r \in Sender : pc'[r] = "init" <=> r = s
    BY <1>0, <1>2, <2>1 DEF Only
  <2>3. inits[Owner[s]] = 0 /\ initDone'[Owner[s]]
    BY <1>0, <1>1, <1>3, <1>5 DEF LatchOK, TypeOK
  <2>4. \A p \in Process : p # Owner[s] => initDone'[p] = initDone[p]
    BY <1>0, <1>1 DEF TypeOK
  <2> QED  BY <1>0, <1>1, <1>2, <2>1, <2>2, <2>3, <2>4 DEF LatchOK
<1> QED  BY <1>4, <1>5

\* libtpa is initialised, once.
LEMMA TpaInitKeeps ==
    ASSUME LInv, NEW s \in Sender, TpaInit(s)
    PROVE  LatchOK'
<1>0. TypeOK /\ LatchOK /\ Only(s) /\ Owner[s] \in Process /\ Owner \in [Sender -> Process]
  BY OwnOnly DEF LInv, Own, Building
<1>1. pc[s] = "init" /\ initDone[Owner[s]] /\ inits[Owner[s]] = 0
  BY <1>0 DEF TpaInit, LatchOK
<1>2. \A r \in Sender : r # s => pc[r] # "init"
  BY <1>1, OneInit
<1>3. pc'[s] \in {"spawn", "failed"} /\ (result'[s] = result[s] \/ result'[s] = "TpaInit")
  BY <1>0 DEF TpaInit, Goto, Fail, TypeOK
<1>4. \A r \in Sender : pc'[r] # "init"
  BY <1>0, <1>2, <1>3 DEF Only
<1>5. \A r \in Sender : result'[r] = "AlreadyInit" => inits[Owner[r]] = 1
  BY <1>0, <1>3 DEF Only, LatchOK
<1>6. CASE inits' = [inits EXCEPT ![Owner[s]] = @ + 1] /\ initDone' = initDone
  <2>1. inits'[Owner[s]] = 1 /\ \A p \in Process : p # Owner[s] => inits'[p] = inits[p]
    BY <1>0, <1>1, <1>6 DEF TypeOK
  <2>2. \A p \in Process : initDone[p] /\ inits[p] = 0 => p = Owner[s]
    BY <1>0, <1>2 DEF LatchOK
  <2>3. \A r \in Sender : result'[r] = "AlreadyInit" => inits'[Owner[r]] = 1
    BY <1>0, <1>5, <2>1
  <2> QED  BY <1>0, <1>1, <1>4, <1>6, <2>1, <2>2, <2>3 DEF LatchOK
<1>7. CASE initDone' = [initDone EXCEPT ![Owner[s]] = FALSE] /\ inits' = inits
  <2>1. ~initDone'[Owner[s]] /\ \A p \in Process : p # Owner[s] => initDone'[p] = initDone[p]
    BY <1>0, <1>7 DEF TypeOK
  <2>2. \A p \in Process : initDone[p] /\ inits[p] = 0 => p = Owner[s]
    BY <1>0, <1>2 DEF LatchOK
  <2> QED  BY <1>0, <1>1, <1>4, <1>5, <1>7, <2>1, <2>2 DEF LatchOK
<1> QED  BY <1>6, <1>7 DEF TpaInit

\* A step of a Sender keeps the latch.
LEMMA OwnLatch ==
    ASSUME LInv, NEW s \in Sender, Own(s)
    PROVE  LatchOK'
<1>1. CASE SwapLatch(s) \/ TpaInit(s)
  BY <1>1, SwapLatchKeeps, TpaInitKeeps
<1>2. CASE ~SwapLatch(s) /\ ~TpaInit(s)
  <2>0. TypeOK /\ Only(s)
    BY OwnOnly DEF LInv
  <2> USE DEF Goto, Fail, buildVars, runVars, tpaVars
  <2> SUFFICES /\ UNCHANGED <<initDone, inits>>
               /\ pc[s] = "init" <=> pc'[s] = "init"
               /\ result'[s] = "AlreadyInit" => result[s] = "AlreadyInit"
    BY <2>0, LatchIdle
  <2>1. CASE Start(s)
    <3>1. CASE Missing(cfg[s]) # {}
      <4>1. PICK n \in Missing(cfg[s]) : Fail(s, Checks[n])
        BY <2>1, <3>1 DEF Start
      <4> QED  BY <2>0, <2>1, <4>1, ErrorOfCheck DEF Start, TypeOK
    <3>2. CASE Missing(cfg[s]) = {}
      BY <2>0, <2>1, <3>2 DEF Start, TypeOK
    <3> QED  BY <3>1, <3>2
  <2>2. CASE Connect(s)
    <3>1. PICK r \in ConnectOne(cfg[s], conns[s] \div 2 + 1) :
              IF r # "ok" THEN Fail(s, r)
              ELSE /\ pc' = [pc EXCEPT ![s] =
                            IF conns'[s] = 2 * Len(cfg[s].providers) THEN "spawn" ELSE @]
                   /\ UNCHANGED result
      BY <2>2 DEF Connect
    <3>2. r \in {"ok", "Connect", "Unsupported", "QuicConfig"}
      BY <3>1, ConnectResults
    <3>3. pc[s] = "connect" /\ UNCHANGED <<initDone, inits>>
      BY <2>2 DEF Connect
    <3> QED  BY <2>0, <3>1, <3>2, <3>3 DEF TypeOK
  <2>3. CASE AcquireLock(s)
    BY <2>0, <2>3 DEF AcquireLock, TypeOK
  <2>4. CASE Spawn(s)
    BY <2>0, <2>4 DEF Spawn, TypeOK
  <2>5. CASE Shutdown(s) \/ JoinWorkers(s) \/ JoinReconnect(s) \/ DropSender(s)
    BY <2>0, <2>5 DEF Shutdown, JoinWorkers, JoinReconnect, DropSender, TypeOK
  <2>6. CASE \/ ReconnectEnd(s)
             \/ \E t \in DOMAIN thread[s] : TpaWorkerStart(s, t) \/ SeeStop(s, t)
             \/ \E i \in Providers(s) : PublishDiag(s, i)
    BY <2>6 DEF ReconnectEnd, TpaWorkerStart, SeeStop, PublishDiag
  <2> QED  BY <1>2, <2>1, <2>2, <2>3, <2>4, <2>5, <2>6 DEF Own, Building, Join
<1> QED  BY <1>1, <1>2

-----------------------------------------------------------------------------
(* The death of a process *)

\* A process dies, and its lock goes with it.
LEMMA KillKeeps ==
    ASSUME LInv, NEW p \in Process, Kill(p)
    PROVE  LInv'
<1> DEFINE own == {s \in Sender : Owner[s] = p}
<1>0. TypeOK /\ HolderOK /\ LatchOK /\ \A s \in Sender : SenderOK(s)
  BY DEF LInv
<1>1. /\ cfg' = cfg
      /\ pc' = [s \in Sender |-> IF s \in own THEN "dead" ELSE pc[s]]
      /\ conns' = [s \in Sender |-> IF s \in own THEN 0 ELSE conns[s]]
      /\ result' = [s \in Sender |-> IF s \in own THEN "none" ELSE result[s]]
      /\ stop' = [s \in Sender |-> IF s \in own THEN FALSE ELSE stop[s]]
      /\ thread' = [s \in Sender |-> [t \in DOMAIN thread[s] |->
                       IF s \in own THEN "none" ELSE thread[s][t]]]
      /\ alive' = [s \in Sender |-> [i \in DOMAIN alive[s] |-> s \notin own /\ alive[s][i]]]
      /\ lock' = IF lock \in own THEN Nobody ELSE lock
      /\ initDone' = [initDone EXCEPT ![p] = FALSE]
      /\ inits' = [inits EXCEPT ![p] = 0]
  BY DEF Kill, Forget
<1> HIDE DEF own
<1>2. ASSUME NEW s \in Sender, s \in own
      PROVE  /\ pc'[s] = "dead" /\ conns'[s] = 0 /\ result'[s] = "none" /\ stop'[s] = FALSE
             /\ \A t \in Threads(cfg[s]) : thread'[s][t] = "none"
             /\ thread'[s] \in [Threads(cfg[s]) -> {"none", "starting", "running", "done"}]
             /\ \A i \in Providers(s) : ~alive'[s][i]
             /\ alive'[s] \in [Providers(s) -> BOOLEAN]
  BY <1>0, <1>1, <1>2, ZenonT(30) DEF TypeOK
<1>3. ASSUME NEW s \in Sender, s \notin own
      PROVE  /\ pc'[s] = pc[s] /\ conns'[s] = conns[s] /\ result'[s] = result[s]
             /\ stop'[s] = stop[s] /\ thread'[s] = thread[s] /\ alive'[s] = alive[s]
  <2>1. thread[s] = [t \in DOMAIN thread[s] |-> thread[s][t]]
    BY <1>0 DEF TypeOK
  <2>2. alive[s] = [i \in DOMAIN alive[s] |-> TRUE /\ alive[s][i]]
    BY <1>0 DEF TypeOK
  <2> QED  BY <1>1, <1>3, <2>1, <2>2
<1>4. TypeOK'
  <2>1. ASSUME NEW s \in Sender
        PROVE  SenderType(s)'
    <3>1. SenderType(s)
      BY <1>0, SenderTyped
    <3>2. CASE s \in own
      <4>1. 0 <= 2 * Len(cfg[s].providers)
        BY <1>0, CheckedConfig
      <4> QED  BY <1>1, <1>2, <3>1, <3>2, <4>1 DEF SenderType, Returned, Providers
    <3>3. CASE s \notin own
      BY <1>1, <1>3, <3>1, <3>3 DEF SenderType, Providers
    <3> QED  BY <3>2, <3>3
  <2>2. lock' \in Sender \cup {Nobody} /\ initDone' \in [Process -> BOOLEAN]
        /\ inits' \in [Process -> Nat]
    BY <1>0, <1>1 DEF TypeOK
  <2>3. /\ DOMAIN pc' = Sender /\ DOMAIN conns' = Sender /\ DOMAIN stop' = Sender
        /\ DOMAIN thread' = Sender /\ DOMAIN alive' = Sender /\ DOMAIN result' = Sender
        /\ pc' = [r \in Sender |-> pc'[r]] /\ conns' = [r \in Sender |-> conns'[r]]
        /\ stop' = [r \in Sender |-> stop'[r]] /\ result' = [r \in Sender |-> result'[r]]
    BY <1>1
  <2> QED  BY <2>1, <2>2, <2>3 DEF TypeOK, SenderType
<1>5. ASSUME NEW s \in Sender
      PROVE  SenderOK(s)'
  <2>1. CASE s \in own
    <3>1. StageOK(s)'
      BY <1>2, <2>1 DEF StageOK
    <3>2. AliveOK(s)'
      BY <1>1, <1>2, <2>1 DEF AliveOK, Providers
    <3>3. \A t \in Threads(cfg[s]) : ThreadOK(s, t)'
      BY <1>1, <1>2, <2>1 DEF ThreadOK
    <3> QED  BY <1>1, <3>1, <3>2, <3>3 DEF SenderOK
  <2>2. CASE s \notin own
    <3>0. SenderOK(s) /\ cfg' = cfg
      BY <1>0, <1>1
    <3>1. StageOK(s)'
      BY <1>3, <2>2, <3>0 DEF SenderOK, StageOK
    <3>2. AliveOK(s)'
      BY <1>3, <2>2, <3>0 DEF SenderOK, AliveOK, Providers, ServerOf
    <3>3. \A t \in Threads(cfg[s]) : ThreadOK(s, t)'
      BY <1>3, <2>2, <3>0 DEF SenderOK, ThreadOK, Handles
    <3> QED  BY <1>1, <3>1, <3>2, <3>3 DEF SenderOK
  <2> QED  BY <2>1, <2>2
<1>6. HolderOK'
  <2>1. ASSUME NEW s \in Sender
        PROVE  lock' = s <=> cfg'[s].engine = "ParTpa" /\ pc'[s] \in Holding
    <3>1. CASE s \in own
      BY <1>1, <1>2, <3>1 DEF Holding
    <3>2. CASE s \notin own
      BY <1>0, <1>1, <1>3, <3>2 DEF HolderOK
    <3> QED  BY <3>1, <3>2
  <2> QED  BY <2>1 DEF HolderOK
<1>7. LatchOK'
  <2>1. ~initDone'[p] /\ inits'[p] = 0
    BY <1>0, <1>1 DEF TypeOK
  <2>2. \A q \in Process : q # p => initDone'[q] = initDone[q] /\ inits'[q] = inits[q]
    BY <1>0, <1>1 DEF TypeOK
  <2>3. \A s \in Sender : s \in own <=> Owner[s] = p
    BY DEF own
  <2>4. ASSUME NEW q \in Process
        PROVE  /\ inits'[q] <= 1
               /\ inits'[q] = 1 => initDone'[q]
               /\ initDone'[q] /\ inits'[q] = 0 =>
                     \E s \in Sender : Owner[s] = q /\ pc'[s] = "init"
    BY <1>0, <1>3, <2>1, <2>2, <2>3 DEF LatchOK
  <2>5. ASSUME NEW s \in Sender
        PROVE  /\ pc'[s] = "init" => initDone'[Owner[s]] /\ inits'[Owner[s]] = 0
               /\ result'[s] = "AlreadyInit" => inits'[Owner[s]] = 1
    <3>1. CASE s \in own
      BY <1>2, <3>1
    <3>2. CASE s \notin own
      <4>1. Owner[s] \in Process /\ Owner[s] # p
        BY <2>3, <3>2
      <4> QED  BY <1>0, <1>3, <2>2, <3>2, <4>1 DEF LatchOK
    <3> QED  BY <3>1, <3>2
  <2> QED  BY <2>4, <2>5 DEF LatchOK
<1> QED  BY <1>4, <1>5, <1>6, <1>7 DEF LInv

-----------------------------------------------------------------------------
(* The theorems *)

\* The invariant holds at the start,
LEMMA InitLInv == Init => LInv
<1> SUFFICES ASSUME Init PROVE LInv
  OBVIOUS
<1>1. \A s \in Sender : cfg[s] \in ConfigOf[s]
  BY DEF Init
<1>2. TypeOK
  <2>1. ASSUME NEW s \in Sender
        PROVE  0 <= 2 * Len(cfg[s].providers)
    BY <1>1
  <2>2. \A s \in Sender : /\ thread[s] \in [Threads(cfg[s]) -> {"none", "starting", "running", "done"}]
                          /\ alive[s] \in [Providers(s) -> BOOLEAN]
    BY DEF Init
  <2> QED  BY <1>1, <2>1, <2>2 DEF Init, TypeOK, BuildStates
<1>3. ASSUME NEW s \in Sender
      PROVE  SenderOK(s)
  BY DEF Init, SenderOK, StageOK, AliveOK, ThreadOK, Providers
<1>4. HolderOK /\ LatchOK
  BY DEF Init, HolderOK, LatchOK, Holding
<1> QED  BY <1>2, <1>3, <1>4 DEF LInv

\* and every step keeps it.
LEMMA StepLInv == LInv /\ [Next]_vars => LInv'
<1> SUFFICES ASSUME LInv, [Next]_vars PROVE LInv'
  OBVIOUS
<1>1. ASSUME NEW s \in Sender, Own(s)
      PROVE  LInv'
  BY <1>1, OwnType, OwnKeeps, OwnHolder, OwnLatch DEF LInv
<1>2. ASSUME NEW p \in Process, Kill(p)
      PROVE  LInv'
  BY <1>2, KillKeeps
<1>3. CASE UNCHANGED vars
  <2>1. /\ cfg' = cfg /\ pc' = pc /\ conns' = conns /\ result' = result /\ stop' = stop
        /\ thread' = thread /\ alive' = alive /\ lock' = lock /\ initDone' = initDone
        /\ inits' = inits
    BY <1>3 DEF vars
  <2>2. TypeOK' /\ HolderOK' /\ LatchOK'
    BY <2>1 DEF LInv, TypeOK, HolderOK, LatchOK, Providers
  <2>3. ASSUME NEW s \in Sender
        PROVE  SenderOK(s)'
    <3>1. SenderOK(s)
      BY DEF LInv
    <3>2. StageOK(s)'
      BY <2>1, <3>1 DEF SenderOK, StageOK
    <3>3. AliveOK(s)'
      BY <2>1, <3>1 DEF SenderOK, AliveOK, Providers, ServerOf
    <3>4. \A t \in Threads(cfg[s]) : ThreadOK(s, t)'
      BY <2>1, <3>1 DEF SenderOK, ThreadOK, Handles
    <3> QED  BY <2>1, <3>2, <3>3, <3>4 DEF SenderOK
  <2> QED  BY <2>2, <2>3 DEF LInv
<1> QED  BY <1>1, <1>2, <1>3 DEF Next, Own, Terminated

(* build, the threads it spawns, shutdown, a dropped Sender and the death  *)
(* of a process keep the types; a build that fails closes its connections. *)
THEOREM LifecycleTypes == Spec => []TypeOK
<1>1. LInv => TypeOK
  BY DEF LInv
<1> QED  BY <1>1, InitLInv, StepLInv, PTL DEF Spec

(* When Sender::shutdown has returned, no thread that build or             *)
(* ReconnectThread::spawn started is left, and libtpa's lock is free,      *)
(* whatever engine, however many providers, and also when some libtpa      *)
(* workers returned before they were asked to.                             *)
THEOREM NothingLeft == Spec => []ShutdownLeavesNothing
<1>1. LInv => ShutdownLeavesNothing
  <2> SUFFICES ASSUME LInv, NEW s \in Sender, pc[s] = "down"
               PROVE  Live(s) = {} /\ lock # s
    BY DEF ShutdownLeavesNothing
  <2>1. \A t \in Threads(cfg[s]) : thread[s][t] \in {"none", "done"}
    BY DEF LInv, SenderOK, ThreadOK
  <2>2. DOMAIN thread[s] = Threads(cfg[s])
    BY DEF LInv, TypeOK
  <2>3. lock # s
    BY DEF LInv, HolderOK, Holding
  <2> QED  BY <2>1, <2>2, <2>3 DEF Live
<1> QED  BY <1>1, InitLInv, StepLInv, PTL DEF Spec

(* A build that returns an error leaves at most the result lane running,   *)
(* not even that when a check at its head failed, and never the lock: the  *)
(* TpaRuntime it drops on the way out has closed the lock file.            *)
THEOREM FailedBuild == Spec => []FailedBuildLeavesLane
<1>1. LInv => FailedBuildLeavesLane
  <2> SUFFICES ASSUME LInv, NEW s \in Sender, pc[s] = "failed"
               PROVE  /\ Live(s) \subseteq (IF Missing(cfg[s]) = {} THEN {Lane} ELSE {})
                      /\ lock # s
    BY DEF FailedBuildLeavesLane
  <2>1. \A t \in Threads(cfg[s]) :
            t # Lane \/ Missing(cfg[s]) # {} => thread[s][t] = "none"
    BY DEF LInv, SenderOK, ThreadOK
  <2>2. DOMAIN thread[s] = Threads(cfg[s])
    BY DEF LInv, TypeOK
  <2>3. lock # s
    BY DEF LInv, HolderOK, Holding
  <2> QED  BY <2>1, <2>2, <2>3 DEF Live
<1> QED  BY <1>1, InitLInv, StepLInv, PTL DEF Spec

(* flock's lock is held from try_acquire_lock_only until the Sender that   *)
(* took it fails to build, is shut down, dropped or killed, and no worker  *)
(* of a Sender in use touches libtpa without it.                           *)
THEOREM LockExact == Spec => []LockMatchesUse
<1>1. LInv => LockMatchesUse
  <2> SUFFICES ASSUME LInv PROVE LockMatchesUse
    OBVIOUS
  <2>0. TypeOK /\ HolderOK /\ \A s \in Sender : \A t \in Threads(cfg[s]) : ThreadOK(s, t)
    BY DEF LInv, SenderOK
  <2>1. lock # Nobody => pc[lock] \in Holding
    BY <2>0 DEF TypeOK, HolderOK
  <2>2. ASSUME NEW s \in Sender, cfg[s].engine = "ParTpa", pc[s] # "dropped",
               NEW t \in Live(s) \ {Lane, Reconnect}
        PROVE  lock = s
    <3>1. t \in Threads(cfg[s]) /\ thread[s][t] \notin {"none", "done"}
      BY <2>0, <2>2 DEF Live, TypeOK
    <3>2. ThreadOK(s, t) /\ t # Lane /\ t # Reconnect
      BY <2>0, <2>2, <3>1
    <3>3. pc[s] \in {"ready", "joining"}
      BY <2>0, <2>2, <3>1, <3>2 DEF ThreadOK, TypeOK, BuildStates, Returned
    <3> QED  BY <2>0, <2>2, <3>3 DEF HolderOK, Holding
  <2> QED  BY <2>1, <2>2 DEF LockMatchesUse, Holding
<1> QED  BY <1>1, InitLInv, StepLInv, PTL DEF Spec

(* tpa_init_with_udp_queues succeeds at most once in a process, and start  *)
(* answers AlreadyInit only in a process where it has: the INIT_DONE latch *)
(* is reset by an attempt that failed before anyone else can see it set.   *)
THEOREM InitialisedOnce == Spec => []InitOnce
<1>1. LInv => InitOnce
  BY DEF LInv, LatchOK, InitOnce
<1> QED  BY <1>1, InitLInv, StepLInv, PTL DEF Spec

(* Sender::health calls a provider alive only while the worker that        *)
(* publishes its WorkerDiag runs.                                          *)
THEOREM HealthIsTruthful == Spec => []HealthTruthful
<1>1. LInv => HealthTruthful
  BY DEF LInv, SenderOK, StageOK, AliveOK, HealthTruthful
<1> QED  BY <1>1, InitLInv, StepLInv, PTL DEF Spec

=============================================================================
