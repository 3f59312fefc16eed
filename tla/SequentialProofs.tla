-------------------------- MODULE SequentialProofs --------------------------
(* Proofs about the sequential engine, for every number of providers and   *)
(* of jobs, every choice of protocol per provider, every ring and channel  *)
(* capacity, and any number of connection and address failures.            *)
EXTENDS Sequential, WorkerProofs, TLAPS

-----------------------------------------------------------------------------
(* Types.                                                                  *)

\* The job in flight for a provider, and the bound on the jobs it has been
\* given, are numbers.
LEMMA OutstandingType ==
    ASSUME TypeOK, TriggersInOrder, NEW p \in Provider
    PROVE  Outstanding(p) \in Nat /\ Bound(p) \in Nat
<1>1. cur \in Nat /\ (pc = "send" => cur # 0)
    BY MaxJobsAssumption DEF TypeOK, TriggersInOrder, NoJob, Job
<1>2. Bound(p) \in Nat
    BY <1>1 DEF Bound
<1> QED
    BY <1>2, OutstandingNat DEF TypeOK

\* The initial state satisfies the inductive invariant.
LEMMA InitIInv == Init => IInv
<1> SUFFICES ASSUME Init PROVE IInv
    OBVIOUS
<1> USE DEF Init, WorkerInit, ThreadsInit
<1>1. <<>> \in Seq(Outcome) /\ <<>> \in Seq(Conn) /\ <<>> \in Seq(Provider) /\ <<>> \in Seq(Job)
    OBVIOUS
<1>2. WorkerTypeOK
    BY <1>1, FreshConnType, WorkerAssumption DEF WorkerTypeOK
<1>3. 0 \in Provider
    BY WorkerAssumption DEF Provider
<1>4. ThreadsTypeOK
    BY <1>1, <1>3, ThreadsAssumption DEF ThreadsTypeOK
<1>5. TypeOK
    BY <1>1, <1>2, <1>3, <1>4, SequentialAssumption, MaxJobsAssumption DEF TypeOK
<1>6. TriggersInOrder
    BY DEF TriggersInOrder, NoJob
<1>7. StandbyForgets
    BY WorkerAssumption, FreshConnType DEF StandbyForgets
<1>8. ASSUME NEW p \in Provider PROVE Settled(p)
  <2>1. Outstanding(p) = NoJob
    BY FreshConnType DEF Outstanding
  <2>2. Bound(p) = 0 /\ sink[p] = <<>> /\ results[p] = <<>> /\ jobsSent[p] = 0
    BY DEF Bound, NoJob
  <2> QED
    BY <2>1, <2>2 DEF Settled, SettledAt, InOrder, Increasing, Precedes, AllBelow, NoJob
<1> QED
    BY <1>5, <1>6, <1>7, <1>8 DEF IInv

\* Each step of the worker's loop preserves the types.
LEMMA WorkerTypeStep ==
    ASSUME IInv, WorkerStep
    PROVE  TypeOK'
<1> USE DEF IInv, TypeOK
<1>0. Provider \in SUBSET Provider /\ 0 \in Provider /\ N \in Nat
    BY WorkerAssumption DEF Provider
<1>1. ASSUME NEW here, NEW after, NextProvider(here, after)
      PROVE  idx' \in Provider /\ pc' \in {here, after}
    BY <1>1, <1>0 DEF NextProvider, Provider
<1>2. CASE RunTop
  <2>1. trig # <<>> => Head(trig) \in Job /\ Tail(trig) \in Seq(Job) /\ Len(Tail(trig)) <= TriggerRing
    BY HeadTailProperties, SequentialAssumption
  <2>2. trig' \in Seq(Job) /\ Len(trig') <= TriggerRing /\ cur' \in {NoJob} \cup Job
    BY <1>2, <2>1 DEF RunTop
  <2>3. WorkerTypeOK' /\ ThreadsTypeOK'
    BY <1>2 DEF RunTop, WorkerTypeOK, ThreadsTypeOK, workerVars, threadVars
  <2> QED
    BY <1>0, <1>2, <2>2, <2>3 DEF RunTop
<1>3. CASE RunSend
  <2>1. cur \in Job
    BY <1>3 DEF RunSend, NextProvider, TriggersInOrder
  <2>2. WorkerTypeOK'
    BY <1>3, <2>1, SendToType DEF RunSend
  <2>3. ThreadsTypeOK'
    BY <1>3 DEF RunSend, ThreadsTypeOK, threadVars
  <2> QED
    BY <1>1, <1>3, <2>2, <2>3 DEF RunSend, NextProvider
<1>4. CASE RunDrive
  <2>1. active' \in [Provider -> Conn]
    BY <1>4, QuicDriveType DEF RunDrive, DriveActive, WorkerTypeOK
  <2>2. WorkerTypeOK' /\ ThreadsTypeOK'
    BY <1>4, <2>1 DEF RunDrive, WorkerTypeOK, ThreadsTypeOK, threadVars
  <2> QED
    BY <1>4, <2>2 DEF RunDrive
<1>5. CASE RunReap
  <2>1. WorkerTypeOK'
    BY <1>5, DriveReapType DEF RunReap
  <2>2. ThreadsTypeOK'
    BY <1>5 DEF RunReap, ThreadsTypeOK, threadVars
  <2> QED
    BY <1>1, <1>5, <2>1, <2>2 DEF RunReap, NextProvider
<1>6. CASE RunTick
  <2>1. /\ standby' \in [Provider -> Conn] /\ resp' \in [Provider -> Seq(Conn)]
        /\ \A p \in Provider : Len(resp'[p]) <= 1
        /\ diag' \in [Provider -> Nat]
    BY <1>0, <1>6, CheckStandbyType DEF RunTick, PublishDiag, WorkerTypeOK
  <2>2. WorkerTypeOK' /\ ThreadsTypeOK'
    BY <1>6, <2>1 DEF RunTick, WorkerTypeOK, ThreadsTypeOK, threadVars
  <2>3. tick' \in 0 .. Period - 1
    BY <1>6, SequentialAssumption DEF RunTick
  <2> QED
    BY <1>6, <2>2, <2>3 DEF RunTick
<1>7. CASE RunWoken
  <2>1. /\ standby' \in [Provider -> Conn] /\ resp' \in [Provider -> Seq(Conn)]
        /\ \A p \in Provider : Len(resp'[p]) <= 1
        /\ diag' \in [Provider -> Nat]
    BY <1>0, <1>7, CheckStandbyType DEF RunWoken, PublishDiag, WorkerTypeOK
  <2>2. WorkerTypeOK' /\ ThreadsTypeOK'
    BY <1>7, <2>1 DEF RunWoken, WorkerTypeOK, ThreadsTypeOK, threadVars
  <2> QED
    BY <1>7, <2>2 DEF RunWoken
<1> QED
    BY <1>2, <1>3, <1>4, <1>5, <1>6, <1>7 DEF WorkerStep

\* What the other threads, shutdown and the network do is an OtherStep that
\* leaves the worker's loop and the trigger ring alone.
LEMMA OthersStep ==
    ASSUME IInv,
           \/ Reconnect \/ Lane \/ Stop \/ JoinAll
           \/ \E p \in Provider : Peer(p) \/ Fault(p) \/ Restore(p)
    PROVE  OtherStep /\ UNCHANGED loopVars
<1>1. stop \in BOOLEAN /\ joined \in BOOLEAN
    BY DEF IInv, TypeOK, ThreadsTypeOK
<1>2. CASE Stop
    BY <1>1, <1>2 DEF Stop, Shutdown, OtherStep
<1>3. CASE JoinAll
    BY <1>1, <1>3 DEF JoinAll, Join, OtherStep
<1>4. CASE Reconnect \/ Lane
    BY <1>4 DEF Reconnect, Lane, OtherStep
<1>5. CASE \E p \in Provider : Peer(p) \/ Fault(p) \/ Restore(p)
    BY <1>5 DEF Peer, Fault, Restore, OtherStep
<1> QED
    BY <1>2, <1>3, <1>4, <1>5

\* Each step of the other threads, of the caller and of the network
\* preserves the types.
LEMMA OtherTypeStep ==
    ASSUME IInv,
           \/ Trigger \/ Reconnect \/ Lane \/ Stop \/ JoinAll
           \/ \E p \in Provider : Peer(p) \/ Fault(p) \/ Restore(p)
    PROVE  TypeOK'
<1> USE DEF IInv, TypeOK
<1>1. CASE Trigger
  <2>1. nextJob \in Job
    BY <1>1, MaxJobsAssumption DEF Trigger, Job
  <2>2. trig' \in Seq(Job) /\ Len(trig') <= TriggerRing
    BY <1>1, <2>1, AppendProperties, SequentialAssumption DEF Trigger
  <2>3. WorkerTypeOK' /\ ThreadsTypeOK'
    BY <1>1 DEF Trigger, WorkerTypeOK, ThreadsTypeOK, workerVars, threadVars
  <2> QED
    BY <1>1, <2>2, <2>3, MaxJobsAssumption DEF Trigger
<1>2. CASE \/ Reconnect \/ Lane \/ Stop \/ JoinAll
           \/ \E p \in Provider : Peer(p) \/ Fault(p) \/ Restore(p)
  <2>1. OtherStep /\ UNCHANGED loopVars
    BY <1>2, OthersStep
  <2>2. WorkerTypeOK' /\ ThreadsTypeOK'
    BY <2>1, OtherTypes
  <2> QED
    BY <2>1, <2>2 DEF loopVars
<1> QED
    BY <1>1, <1>2

\* Every step preserves the types.
LEMMA TypeStep == IInv /\ [Next]_vars => TypeOK'
<1> SUFFICES ASSUME IInv, [Next]_vars PROVE TypeOK'
    OBVIOUS
<1>1. CASE UNCHANGED vars
    BY <1>1 DEF IInv, TypeOK, WorkerTypeOK, ThreadsTypeOK, vars, workerVars,
                threadVars, loopVars
<1>2. CASE WorkerStep
    BY <1>2, WorkerTypeStep
<1>3. CASE \/ Trigger \/ Reconnect \/ Lane \/ Stop \/ JoinAll
           \/ \E p \in Provider : Peer(p) \/ Fault(p) \/ Restore(p)
    BY <1>3, OtherTypeStep
<1> QED
    BY <1>1, <1>2, <1>3 DEF Next, Terminated

-----------------------------------------------------------------------------
(* The trigger ring.                                                       *)

\* Every step keeps the jobs in the ring the ones that follow cur.
LEMMA TriggersStep == IInv /\ [Next]_vars => TriggersInOrder'
<1> SUFFICES ASSUME IInv, [Next]_vars PROVE TriggersInOrder'
    OBVIOUS
<1>0. /\ trig \in Seq(Job) /\ nextJob \in Nat /\ cur \in Nat
      /\ nextJob = cur + Len(trig) + 1
      /\ \A i \in 1 .. Len(trig) : trig[i] = cur + i
      /\ pc = "send" => cur # NoJob
    BY MaxJobsAssumption DEF IInv, TypeOK, TriggersInOrder, NoJob, Job
<1>1. CASE Trigger
  <2>1. nextJob \in Job
    BY <1>1, <1>0, MaxJobsAssumption DEF Trigger, IInv, TypeOK, Job
  <2>2. /\ trig' = Append(trig, nextJob) /\ Len(trig') = Len(trig) + 1
        /\ trig'[Len(trig) + 1] = nextJob
        /\ \A i \in 1 .. Len(trig) : trig'[i] = trig[i]
    BY <1>0, <1>1, <2>1, AppendProperties DEF Trigger
  <2>3. UNCHANGED <<pc, cur>> /\ nextJob' = nextJob + 1
    BY <1>1 DEF Trigger
  <2>4. ASSUME NEW i \in 1 .. Len(trig') PROVE trig'[i] = cur' + i
    <3>1. CASE i = Len(trig) + 1
        BY <1>0, <2>2, <2>3, <3>1
    <3>2. CASE i # Len(trig) + 1
        BY <1>0, <2>2, <2>3, <3>2
    <3> QED BY <3>1, <3>2
  <2> QED
    BY <1>0, <2>2, <2>3, <2>4 DEF TriggersInOrder
<1>2. CASE RunTop /\ pc' = "send"
  <2>1. /\ trig # <<>> /\ trig' = Tail(trig) /\ cur' = Head(trig) /\ nextJob' = nextJob
    BY <1>2 DEF RunTop
  <2>2. /\ Len(trig) > 0 /\ Len(trig') = Len(trig) - 1 /\ cur' = trig[1]
        /\ \A i \in 1 .. Len(trig') : trig'[i] = trig[i + 1]
    BY <1>0, <2>1, HeadTailProperties
  <2>3. cur' = cur + 1
    BY <1>0, <2>2
  <2>4. ASSUME NEW i \in 1 .. Len(trig') PROVE trig'[i] = cur' + i
    <3>1. i + 1 \in 1 .. Len(trig)
        BY <1>0, <2>2
    <3> QED BY <1>0, <2>2, <2>3, <3>1
  <2> QED
    BY <1>0, <2>1, <2>2, <2>3, <2>4 DEF TriggersInOrder, NoJob
<1>3. CASE UNCHANGED <<trig, nextJob, cur>> /\ (pc' = "send" => pc = "send")
    BY <1>0, <1>3 DEF TriggersInOrder
<1>4. CASE RunTop /\ pc' # "send"
  <2>1. UNCHANGED <<trig, nextJob, cur>>
    BY <1>4 DEF RunTop
  <2> QED BY <1>3, <1>4, <2>1
<1>5. CASE RunSend \/ RunDrive \/ RunReap \/ RunTick \/ RunWoken
    BY <1>3, <1>5 DEF RunSend, RunDrive, RunReap, RunTick, RunWoken, NextProvider
<1>6. CASE \/ Reconnect \/ Lane \/ Stop \/ JoinAll
           \/ \E p \in Provider : Peer(p) \/ Fault(p) \/ Restore(p)
    BY <1>3, <1>6 DEF Reconnect, Lane, Stop, JoinAll, Peer, Fault, Restore, loopVars
<1>7. CASE UNCHANGED vars
    BY <1>3, <1>7 DEF vars, loopVars
<1> QED
    BY <1>1, <1>2, <1>4, <1>5, <1>6, <1>7 DEF Next, Terminated, WorkerStep

-----------------------------------------------------------------------------
\* Every step keeps what standby connections remember harmless.
LEMMA ForgetsStep == IInv /\ [Next]_vars => StandbyForgets'
<1> SUFFICES ASSUME IInv, [Next]_vars PROVE StandbyForgets'
    OBVIOUS
<1>0. WorkerTypeOK /\ ThreadsTypeOK /\ StandbyForgets /\ idx \in Provider
      /\ QuicProviders \subseteq Provider
    BY WorkerAssumption DEF IInv, TypeOK
<1>1. CASE UNCHANGED <<standby, resp>>
    BY <1>0, <1>1 DEF StandbyForgets
<1>2. CASE RunSend
  <2>1. cur \in Job
    BY <1>2 DEF RunSend, NextProvider, IInv, TypeOK, TriggersInOrder
  <2> QED
    BY <1>0, <1>2, <2>1, SendToEffect DEF RunSend
<1>3. CASE RunReap
    BY <1>0, <1>3, DriveReapEffect DEF RunReap
<1>4. CASE RunTick \/ RunWoken
  <2>1. Provider \in SUBSET Provider
    OBVIOUS
  <2> QED
    BY <1>0, <1>1, <1>4, <2>1, CheckStandbyForgets DEF RunTick, RunWoken
<1>5. CASE Trigger \/ RunTop \/ RunDrive \/ UNCHANGED vars
    BY <1>1, <1>5 DEF Trigger, RunTop, RunDrive, vars, workerVars
<1>6. CASE \/ Reconnect \/ Lane \/ Stop \/ JoinAll
           \/ \E p \in Provider : Peer(p) \/ Fault(p) \/ Restore(p)
    BY <1>0, <1>6, OthersStep, OtherForgets
<1> QED
    BY <1>2, <1>3, <1>4, <1>5, <1>6 DEF Next, Terminated, WorkerStep

-----------------------------------------------------------------------------
(* Outcomes.                                                               *)

\* A step that settles nothing for p and sends nothing to it.
LEMMA SameSettled ==
    ASSUME IInv, TypeOK', TriggersInOrder', NEW p \in Provider,
           sink'[p] = sink[p], results'[p] = results[p], jobsSent'[p] = jobsSent[p],
           (Outstanding(p))' \in {Outstanding(p), NoJob},
           Bound(p) <= (Bound(p))'
    PROVE  (Settled(p))'
<1>1. /\ sink[p] \in Seq(Outcome) /\ results[p] \in Seq(Outcome)
      /\ jobsSent[p] \in Nat
    BY DEF IInv, TypeOK, WorkerTypeOK, ThreadsTypeOK
<1>2. Outstanding(p) \in Nat /\ Bound(p) \in Nat
    BY OutstandingType DEF IInv
<1>3. (Bound(p))' \in Nat
  <2>1. cur' \in Nat /\ (pc' = "send" => cur' # 0)
    BY MaxJobsAssumption DEF TypeOK, TriggersInOrder, NoJob, Job
  <2>2. (Bound(p))' = cur' \/ (pc' = "send" /\ (Bound(p))' = cur' - 1)
    BY DEF Bound
  <2> QED BY <2>1, <2>2
<1>4. SettledAt(sink[p], results[p], Outstanding(p), jobsSent[p], Bound(p))
    BY DEF IInv, Settled
<1>5. SettledAt(sink[p], results[p], (Outstanding(p))', jobsSent[p], (Bound(p))')
    BY <1>1, <1>2, <1>3, <1>4, KeepSettled
<1> QED
    BY <1>5 DEF Settled

\* Every step keeps the outcomes of every provider in order and counted.
LEMMA SettledStep == IInv /\ [Next]_vars => \A p \in Provider : (Settled(p))'
<1> SUFFICES ASSUME IInv, [Next]_vars, NEW p \in Provider PROVE (Settled(p))'
    OBVIOUS
<1>0. /\ TypeOK' /\ TriggersInOrder'
      /\ WorkerTypeOK /\ ThreadsTypeOK /\ StandbyForgets /\ idx \in Provider
    BY TypeStep, TriggersStep DEF IInv, TypeOK
<1>1. /\ sink[p] \in Seq(Outcome) /\ results[p] \in Seq(Outcome)
      /\ jobsSent[p] \in Nat
    BY <1>0 DEF WorkerTypeOK, ThreadsTypeOK
<1>2. Outstanding(p) \in Nat /\ Bound(p) \in Nat
    BY OutstandingType DEF IInv
<1>3. SettledAt(sink[p], results[p], Outstanding(p), jobsSent[p], Bound(p))
    BY DEF IInv, Settled
<1>4. cur \in Nat /\ idx \in Nat /\ p \in Nat
    BY MaxJobsAssumption DEF IInv, TypeOK, Provider, Job, NoJob
<1>5. CASE RunTop
  <2>1. UNCHANGED <<workerVars, threadVars>>
    BY <1>5 DEF RunTop
  <2>2. (Outstanding(p))' = Outstanding(p)
    BY <2>1 DEF Outstanding, workerVars
  <2>3. Bound(p) = cur
    BY <1>5 DEF RunTop, Bound
  <2>4. (Bound(p))' = cur
    <3>1. CASE pc' # "send"
        BY <1>5, <3>1 DEF RunTop, Bound
    <3>2. CASE pc' = "send"
      <4>1. trig # <<>> /\ cur' = Head(trig) /\ idx' = 0
          BY <1>5, <3>2 DEF RunTop
      <4>2. cur' = cur + 1
          BY <4>1 DEF IInv, TypeOK, TriggersInOrder
      <4> QED BY <1>4, <3>2, <4>1, <4>2 DEF Bound
    <3> QED BY <3>1, <3>2
  <2> QED
    BY <1>0, <1>4, <2>1, <2>2, <2>3, <2>4, SameSettled DEF workerVars, threadVars
<1>6. CASE RunSend
  <2>1. pc = "send" /\ cur \in Job /\ cur' = cur /\ UNCHANGED <<resp, sink>>
    BY <1>6 DEF RunSend, NextProvider, IInv, TypeOK, TriggersInOrder, threadVars
  <2>2. PICK q \in Provider, j \in Job : q = idx /\ j = cur
    BY <1>0, <2>1
  <2>3. SendTo(q, j)
    BY <1>6, <2>2 DEF RunSend
  <2>4. /\ Only(q) /\ results' = results
        /\ \/ /\ jobsSent'[q] = jobsSent[q]
              /\ (Outstanding(q))' \in {Outstanding(q), NoJob}
           \/ /\ jobsSent'[q] = jobsSent[q] + 1
              /\ (Outstanding(q))' \in {Outstanding(q), NoJob, j}
    BY <1>0, <2>1, <2>3, SendToEffect
  <2>5. /\ pc' = "send" => idx' = idx + 1
        /\ N \in Nat /\ (pc' # "send" => idx = N - 1)
    BY <1>0, <1>6, WorkerAssumption DEF RunSend, NextProvider, Provider
  <2>6. CASE p # q
    <3>1. (Outstanding(p))' = Outstanding(p)
        BY <2>4, <2>6 DEF Only, Outstanding
    <3>2. (Bound(p))' = Bound(p)
        BY <1>4, <2>1, <2>2, <2>5, <2>6 DEF Bound, Provider
    <3> QED
        BY <1>0, <1>2, <2>1, <2>4, <2>6, <3>1, <3>2, SameSettled DEF Only
  <2>7. CASE p = q
    <3>1. Bound(p) = j - 1 /\ (Bound(p))' = Bound(p) + 1
        BY <1>4, <2>1, <2>2, <2>5, <2>7 DEF Bound
    <3>2. j = Bound(p) + 1 /\ Bound(p) <= (Bound(p))'
        BY <1>2, <1>4, <2>2, <3>1
    <3>3. CASE /\ jobsSent'[p] = jobsSent[p] + 1
               /\ (Outstanding(p))' \in {Outstanding(p), NoJob, j}
      <4>1. j \in Nat /\ Bound(p) < j /\ (Bound(p))' = j
          BY <1>2, <1>4, <2>2, <3>1
      <4>2. SettledAt(sink[p], results[p], (Outstanding(p))', jobsSent[p] + 1, j)
          BY <1>1, <1>2, <1>3, <3>3, <4>1, SendSettled
      <4> QED
          BY <2>1, <2>4, <3>3, <4>1, <4>2 DEF Settled
    <3>4. CASE /\ jobsSent'[p] = jobsSent[p]
               /\ (Outstanding(p))' \in {Outstanding(p), NoJob}
        BY <1>0, <2>1, <2>4, <3>2, <3>4, SameSettled
    <3> QED BY <2>4, <2>7, <3>3, <3>4
  <2> QED BY <2>6, <2>7
<1>7. CASE RunReap
  <2>1. /\ pc = "reap" /\ pc' # "send" /\ cur' = cur
        /\ UNCHANGED <<resp, sink>>
    BY <1>7 DEF RunReap, NextProvider, threadVars
  <2>2. (Bound(p))' = Bound(p)
    BY <2>1 DEF Bound
  <2>3. PICK q \in Provider : q = idx
    BY <1>0
  <2>4. DriveReap(q)
    BY <1>7, <2>3 DEF RunReap
  <2>5. /\ Only(q) /\ jobsSent' = jobsSent
        /\ \/ /\ results'[q] = results[q]
              /\ (Outstanding(q))' \in {Outstanding(q), NoJob}
           \/ /\ Outstanding(q) # NoJob /\ (Outstanding(q))' = NoJob
              /\ \E o \in Outcome :
                    /\ o.job = Outstanding(q)
                    /\ results'[q] = Offer(results[q], ResultRing, o)
    BY <1>0, <2>1, <2>4, DriveReapEffect
  <2>6. CASE p # q
    <3>1. (Outstanding(p))' = Outstanding(p)
        BY <2>5, <2>6 DEF Only, Outstanding
    <3> QED
        BY <1>0, <1>2, <2>1, <2>2, <2>5, <2>6, <3>1, SameSettled DEF Only
  <2>7. CASE results'[p] = results[p] /\ (Outstanding(p))' \in {Outstanding(p), NoJob}
    BY <1>0, <1>2, <2>1, <2>2, <2>5, <2>7, SameSettled
  <2>8. CASE Outstanding(p) # NoJob /\ (Outstanding(p))' = NoJob
             /\ \E o \in Outcome : /\ o.job = Outstanding(p)
                                   /\ results'[p] = Offer(results[p], ResultRing, o)
    <3>1. PICK o \in Outcome : /\ o.job = Outstanding(p)
                               /\ results'[p] = Offer(results[p], ResultRing, o)
        BY <2>8
    <3>2. SettledAt(sink[p], Offer(results[p], ResultRing, o), NoJob, jobsSent[p], Bound(p))
        BY <1>1, <1>2, <1>3, <2>8, <3>1, PushSettled, WorkerAssumption
    <3> QED
        BY <2>1, <2>2, <2>5, <2>8, <3>1, <3>2 DEF Settled
  <2> QED
    BY <2>5, <2>6, <2>7, <2>8
<1>8. CASE /\ UNCHANGED <<sink, results, jobsSent>>
           /\ (Outstanding(p))' \in {Outstanding(p), NoJob}
           /\ cur' = cur /\ (pc' = "send") = (pc = "send") /\ (pc = "send" => idx' = idx)
  <2>1. (Bound(p))' = Bound(p)
    BY <1>8 DEF Bound
  <2> QED
    BY <1>0, <1>2, <1>8, <2>1, SameSettled
<1>9. CASE RunDrive
  <2>1. active[p] \in Conn /\ active'[p] \in {active[p], QuicDrive(active[p])}
    BY <1>0, <1>9 DEF RunDrive, DriveActive, WorkerTypeOK
  <2>2. active'[p].inflight = active[p].inflight /\ (active[p].closed => active'[p].closed)
    BY <2>1 DEF QuicDrive, Conn
  <2>3. (Outstanding(p))' \in {Outstanding(p), NoJob}
    BY <1>9, <2>2 DEF RunDrive, Outstanding
  <2> QED
    BY <1>8, <1>9, <2>3 DEF RunDrive, threadVars
<1>10. CASE RunTick \/ RunWoken
  <2>1. (Outstanding(p))' = Outstanding(p)
    BY <1>10 DEF RunTick, RunWoken, Outstanding
  <2> QED
    BY <1>8, <1>10, <2>1 DEF RunTick, RunWoken, threadVars
<1>11. CASE \/ Reconnect \/ Lane \/ Stop \/ JoinAll
            \/ \E q \in Provider : Peer(q) \/ Fault(q) \/ Restore(q)
  <2>1. OtherStep /\ UNCHANGED loopVars
    BY <1>11, OthersStep
  <2>2. (Bound(p))' = Bound(p)
    BY <2>1 DEF Bound, loopVars
  <2>3. SettledAt(sink'[p], results'[p], (Outstanding(p))', jobsSent'[p], Bound(p))
    BY <1>0, <1>2, <1>3, <2>1, OtherSettled
  <2> QED
    BY <2>2, <2>3 DEF Settled
<1>12. CASE Trigger \/ UNCHANGED vars
  <2>1. UNCHANGED <<active, inflight, jobsSent, results, sink, pc, cur, idx>>
    BY <1>12 DEF Trigger, vars, workerVars, threadVars, loopVars
  <2>2. (Outstanding(p))' = Outstanding(p)
    BY <2>1 DEF Outstanding
  <2> QED
    BY <1>8, <2>1, <2>2
<1> QED
    BY <1>5, <1>6, <1>7, <1>9, <1>10, <1>11, <1>12 DEF Next, Terminated, WorkerStep

-----------------------------------------------------------------------------
(* The theorems.                                                           *)

(* IInv holds in every state of the sequential engine, whatever fails.     *)
THEOREM Invariance == Spec => []IInv
<1>1. IInv /\ [Next]_vars => IInv'
  <2> SUFFICES ASSUME IInv, [Next]_vars PROVE IInv'
    OBVIOUS
  <2>1. TypeOK' /\ TriggersInOrder' /\ StandbyForgets' /\ \A p \in Provider : (Settled(p))'
    BY TypeStep, TriggersStep, ForgetsStep, SettledStep
  <2> QED BY <2>1 DEF IInv
<1> QED
    BY InitIInv, <1>1, PTL DEF Spec

(* Every ring and channel stays within its capacity, and every variable    *)
(* within its type, for any number of providers and of jobs.               *)
THEOREM TypeCorrect == Spec => []TypeOK
<1>1. IInv => TypeOK
    BY DEF IInv
<1> QED
    BY Invariance, <1>1, PTL

(* Of each provider, outcomes are delivered in the order of the jobs and   *)
(* no job has two, through failovers, retries of send_to on the standby,   *)
(* swapped-back QUIC connections and late or missing responses.            *)
THEOREM OrderCorrect == Spec => []OutcomesInOrder
<1>1. IInv => OutcomesInOrder
    BY DEF IInv, Settled, SettledAt, InOrder, OutcomesInOrder
<1> QED
    BY Invariance, <1>1, PTL

(* jobs_sent counts at least the jobs with an outcome or in flight, and at *)
(* most those popped from the trigger ring.                                *)
THEOREM CountCorrect == Spec => []SentCoversOutcomes
<1>1. ASSUME IInv PROVE SentCoversOutcomes
  <2> SUFFICES ASSUME NEW p \in Provider
               PROVE  /\ Len(sink[p]) + Len(results[p])
                            + (IF Outstanding(p) # NoJob THEN 1 ELSE 0) <= jobsSent[p]
                      /\ jobsSent[p] <= cur
    BY DEF SentCoversOutcomes
  <2>1. /\ Len(sink[p]) + Len(results[p])
               + (IF Outstanding(p) # NoJob THEN 1 ELSE 0) <= jobsSent[p]
        /\ jobsSent[p] <= Bound(p)
    BY <1>1 DEF IInv, Settled, SettledAt
  <2>2. jobsSent[p] \in Nat /\ cur \in Nat
    BY <1>1, MaxJobsAssumption DEF IInv, TypeOK, WorkerTypeOK, Job, NoJob
  <2>3. Bound(p) <= cur /\ Bound(p) \in Int
    BY <2>2 DEF Bound
  <2>4. jobsSent[p] <= cur
    BY <2>1, <2>2, <2>3
  <2> QED BY <2>1, <2>4
<1> QED
    BY Invariance, <1>1, PTL

-----------------------------------------------------------------------------
(* Health.                                                                 *)

\* The jobs of p that publish_diag has not published: one for each round
\* since it last ran, and one for this round once p has had its turn.
Unpublished(p) ==
    jobsSent[p] <= diag[p] + tick +
        (IF pc \in {"drive", "reap", "tick"} \/ (pc = "send" /\ p < idx) THEN 1 ELSE 0)

\* The sending loop gives p one job a round, and publish_diag clears the count.
LEMMA HealthStep ==
    ASSUME IInv, [Next]_vars, NEW p \in Provider, Unpublished(p)
    PROVE  (Unpublished(p))'
<1>0. /\ WorkerTypeOK /\ ThreadsTypeOK /\ StandbyForgets /\ idx \in Provider
      /\ idx \in Nat /\ p \in Nat /\ N \in Nat /\ idx < N /\ p < N
      /\ tick \in Nat /\ tick < Period /\ Period \in Nat \ {0}
    BY WorkerAssumption, SequentialAssumption DEF IInv, TypeOK, Provider
<1>1. jobsSent[p] \in Nat /\ diag[p] \in Nat
    BY <1>0 DEF WorkerTypeOK
<1>2. CASE UNCHANGED <<jobsSent, diag, tick, pc, idx>>
    BY <1>2 DEF Unpublished
<1>3. CASE RunTop
  <2>1. UNCHANGED <<jobsSent, diag, tick>> /\ pc = "top"
    BY <1>3 DEF RunTop, workerVars
  <2> QED BY <1>0, <1>1, <2>1 DEF Unpublished
<1>4. CASE RunSend
  <2>1. pc = "send" /\ cur \in Job /\ UNCHANGED <<diag, resp, tick>>
    BY <1>4 DEF RunSend, NextProvider, IInv, TypeOK, TriggersInOrder
  <2>2. PICK q \in Provider, j \in Job : q = idx /\ j = cur /\ SendTo(q, j)
    BY <1>0, <1>4, <2>1 DEF RunSend
  <2>3. Only(q) /\ jobsSent'[q] \in {jobsSent[q], jobsSent[q] + 1}
    BY <1>0, <2>1, <2>2, SendToEffect
  <2>4. (pc' = "send" /\ idx' = idx + 1) \/ (pc' = "drive" /\ idx = N - 1)
    BY <1>0, <1>4 DEF RunSend, NextProvider
  <2>5. CASE p # q
    <3>1. jobsSent'[p] = jobsSent[p]
        BY <2>3, <2>5 DEF Only
    <3> QED BY <1>0, <1>1, <2>1, <2>2, <2>4, <2>5, <3>1 DEF Unpublished
  <2>6. CASE p = q
    BY <1>0, <1>1, <2>1, <2>2, <2>3, <2>4, <2>6 DEF Unpublished
  <2> QED BY <2>5, <2>6
<1>5. CASE RunDrive
    BY <1>0, <1>1, <1>5 DEF RunDrive, Unpublished
<1>6. CASE RunReap
  <2>1. UNCHANGED <<diag, resp, tick>> /\ pc = "reap" /\ pc' \in {"reap", "tick"}
    BY <1>6 DEF RunReap, NextProvider
  <2>2. jobsSent' = jobsSent
    BY <1>0, <1>6, <2>1, DriveReapEffect DEF RunReap
  <2> QED BY <1>0, <1>1, <2>1, <2>2 DEF Unpublished
<1>7. CASE RunTick
  <2>1. /\ pc = "tick" /\ pc' \in {"woken", "top"} /\ jobsSent' = jobsSent
        /\ tick' = (tick + 1) % Period
    BY <1>7 DEF RunTick
  <2>2. CASE tick' = 0
    <3>1. diag'[p] = jobsSent[p]
        BY <1>7, <2>2 DEF RunTick, PublishDiag
    <3> QED BY <1>1, <2>1, <2>2, <3>1 DEF Unpublished
  <2>3. CASE tick' # 0
    <3>1. diag' = diag
        BY <1>7, <2>3 DEF RunTick
    <3>2. tick' = tick + 1
        BY <1>0, <2>1, <2>3
    <3> QED BY <1>0, <1>1, <2>1, <3>1, <3>2 DEF Unpublished
  <2> QED BY <2>2, <2>3
<1>8. CASE RunWoken
  <2>1. pc' = "top" /\ jobsSent' = jobsSent /\ tick' = tick /\ diag'[p] = jobsSent[p]
    BY <1>8 DEF RunWoken, PublishDiag
  <2> QED BY <1>0, <1>1, <2>1 DEF Unpublished
<1>9. CASE \/ Reconnect \/ Lane \/ Stop \/ JoinAll
           \/ \E q \in Provider : Peer(q) \/ Fault(q) \/ Restore(q)
  <2>1. OtherStep /\ UNCHANGED loopVars
    BY <1>9, OthersStep
  <2>2. UNCHANGED <<jobsSent, diag>>
    BY <2>1, OtherCounts
  <2> QED BY <1>2, <2>1, <2>2 DEF loopVars
<1>10. CASE Trigger \/ UNCHANGED vars
    BY <1>2, <1>10 DEF Trigger, vars, workerVars, loopVars
<1> QED
    BY <1>3, <1>4, <1>5, <1>6, <1>7, <1>8, <1>9, <1>10 DEF Next, Terminated, WorkerStep

(* Health is at most Period jobs behind for any Period, however fast jobs  *)
(* come and however often they are sent again after a failover.            *)
THEOREM HealthBounded == Spec => []HealthLags
<1> DEFINE H == \A p \in Provider : Unpublished(p)
<1>1. Init => H
  <2> SUFFICES ASSUME Init, NEW p \in Provider PROVE Unpublished(p)
    OBVIOUS
  <2>1. jobsSent[p] = 0 /\ diag[p] = 0 /\ tick = 0
    BY DEF Init, WorkerInit
  <2> QED BY <2>1 DEF Unpublished
<1>2. IInv /\ H /\ [Next]_vars => H'
    BY HealthStep
<1>3. ASSUME IInv, H PROVE HealthLags
  <2> SUFFICES ASSUME NEW p \in Provider PROVE jobsSent[p] <= diag[p] + Period
    BY DEF HealthLags
  <2>1. /\ jobsSent[p] \in Nat /\ diag[p] \in Nat
        /\ tick \in Nat /\ tick < Period /\ Period \in Nat
    BY <1>3, SequentialAssumption DEF IInv, TypeOK, WorkerTypeOK
  <2>2. Unpublished(p)
    BY <1>3
  <2> QED BY <2>1, <2>2 DEF Unpublished
<1> QED
    BY <1>1, <1>2, <1>3, Invariance, PTL DEF Spec

-----------------------------------------------------------------------------
(* Failovers.                                                              *)

\* Every step keeps closed QUIC connections ones whose peer is gone.
LEMMA GoneNext == IInv /\ ClosedAreGone /\ [Next]_vars => ClosedAreGone'
<1> SUFFICES ASSUME IInv, ClosedAreGone, [Next]_vars PROVE ClosedAreGone'
    OBVIOUS
<1>0. WorkerTypeOK /\ ThreadsTypeOK /\ StandbyForgets /\ idx \in Provider
    BY DEF IInv, TypeOK
<1>1. CASE UNCHANGED <<active, standby, resp>>
    BY <1>1, GoneStep
<1>2. CASE RunSend
  <2>1. cur \in Job
    BY <1>2 DEF RunSend, NextProvider, IInv, TypeOK, TriggersInOrder
  <2> QED
    BY <1>0, <1>2, <2>1, SendToGone DEF RunSend
<1>3. CASE RunReap
    BY <1>0, <1>3, DriveReapGone DEF RunReap
<1>4. CASE RunTick \/ RunWoken
  <2>1. Provider \in SUBSET Provider
    OBVIOUS
  <2> QED
    BY <1>0, <1>1, <1>4, <2>1, CheckStandbyGone DEF RunTick, RunWoken
<1>5. CASE RunDrive
  <2>1. UNCHANGED <<standby, resp>>
    BY <1>5 DEF RunDrive
  <2>2. ASSUME NEW p \in QuicProviders PROVE ClosedIsGone(active'[p])
    <3>1. p \in Provider /\ active[p] \in Conn /\ ClosedIsGone(active[p])
        BY <1>0, WorkerAssumption DEF WorkerTypeOK, ClosedAreGone
    <3>2. active'[p] = QuicDrive(active[p]) \/ active'[p] = active[p]
        BY <1>5, <3>1 DEF RunDrive, DriveActive
    <3> QED BY <3>1, <3>2, QuicDriveGone
  <2> QED BY <2>1, <2>2, GoneStep
<1>6. CASE Trigger \/ RunTop \/ UNCHANGED vars
    BY <1>1, <1>6 DEF Trigger, RunTop, vars, workerVars
<1>7. CASE \/ Reconnect \/ Lane \/ Stop \/ JoinAll
           \/ \E p \in Provider : Peer(p) \/ Fault(p) \/ Restore(p)
    BY <1>0, <1>7, OthersStep, OtherGone
<1> QED
    BY <1>2, <1>3, <1>4, <1>5, <1>6, <1>7 DEF Next, Terminated, WorkerStep

\* No step fails over from a connection that is up.
LEMMA FailoverStep ==
    ASSUME IInv, ClosedAreGone, [Next]_vars, NEW p \in Provider, FailsOver(p)
    PROVE  active[p].sock # "up"
<1>0. WorkerTypeOK /\ idx \in Provider
    BY DEF IInv, TypeOK
<1>2. CASE RunSend
  <2>1. PICK j \in Job : SendTo(idx, j)
    BY <1>2 DEF RunSend, NextProvider, IInv, TypeOK, TriggersInOrder
  <2>2. Failover(idx)
    BY <1>0, <2>1, SendToFailover
  <2> QED BY <1>0, <2>2, FailoverIsOwn
<1>3. CASE RunReap
  <2>1. Failover(idx)
    BY <1>0, <1>3, DriveReapFailover DEF RunReap
  <2> QED BY <1>0, <2>1, FailoverIsOwn
<1>4. CASE Trigger \/ RunTop \/ RunDrive \/ RunTick \/ RunWoken \/ UNCHANGED vars
  <2>1. reqs' = reqs /\ (active' = active \/ standby' = standby)
    BY <1>4 DEF Trigger, RunTop, RunDrive, RunTick, RunWoken, vars, workerVars
  <2> QED BY <1>0, <2>1, NoFailover
<1>5. CASE \/ Reconnect \/ Lane \/ Stop \/ JoinAll
           \/ \E q \in Provider : Peer(q) \/ Fault(q) \/ Restore(q)
    BY <1>0, <1>5, OthersStep, OtherFailover
<1> QED
    BY <1>2, <1>3, <1>4, <1>5 DEF Next, Terminated, WorkerStep

(* A worker gives up an active connection only when its peer is gone,      *)
(* whatever has arrived on it, whatever the standby is and however often   *)
(* the two have been swapped.                                              *)
THEOREM FailoverJustified == Spec => NoSpuriousFailover
<1> DEFINE A == \A p \in Provider : FailsOver(p) => active[p].sock # "up"
<1>1. Init => ClosedAreGone
    BY WorkerAssumption DEF Init, WorkerInit, ClosedAreGone, ClosedIsGone, FreshConn
<1>2. IInv /\ ClosedAreGone /\ [Next]_vars => ClosedAreGone'
    BY GoneNext
<1>3. IInv /\ ClosedAreGone /\ [Next]_vars => [A]_vars
    BY FailoverStep
<1> QED
    BY <1>1, <1>2, <1>3, Invariance, PTL DEF Spec, NoSpuriousFailover

-----------------------------------------------------------------------------
(* Responses.                                                              *)

\* A paced caller's next job finds nothing in flight, whatever happens.
LEMMA PacedStep ==
    ASSUME IInv, PacedQuiet, [Next]_vars, Paced
    PROVE  PacedQuiet'
<1>0. WorkerTypeOK /\ ThreadsTypeOK /\ StandbyForgets /\ idx \in Provider /\ trig \in Seq(Job)
    BY DEF IInv, TypeOK
<1>1. /\ Len(trig) <= 1 /\ (trig # <<>> => pc # "send")
      /\ \A p \in Provider \ QuicProviders :
            trig # <<>> \/ (pc = "send" /\ idx <= p) => inflight[p] = NoJob
    BY DEF PacedQuiet
<1>2. CASE /\ trig' = trig /\ (trig # <<>> \/ pc' = "send" => pc' = pc /\ idx' = idx)
           /\ \A p \in Provider \ QuicProviders : inflight'[p] \in {inflight[p], NoJob}
    BY <1>1, <1>2 DEF PacedQuiet
<1>3. CASE Trigger
  <2>1. /\ trig = <<>> /\ pc # "send" /\ \A p \in Provider : inflight[p] = NoJob
        /\ trig' = Append(trig, nextJob) /\ pc' = pc /\ inflight' = inflight
    BY <1>3 DEF Trigger, Quiet, workerVars
  <2>2. Len(trig') = 1
    BY <2>1
  <2> QED BY <2>1, <2>2 DEF PacedQuiet
<1>4. CASE RunTop
  <2>1. inflight' = inflight /\ idx' = 0
    BY <1>4 DEF RunTop, workerVars
  <2>2. CASE pc' # "send" /\ trig' = trig
    BY <1>1, <1>4, <2>1, <2>2 DEF RunTop, PacedQuiet
  <2>3. CASE pc' = "send" /\ trig # <<>> /\ trig' = Tail(trig)
    <3>1. Len(trig') = Len(trig) - 1 /\ Len(trig) \in Nat /\ trig' \in Seq(Job)
        BY <1>0, <2>3, HeadTailProperties
    <3>2. Len(trig') <= 1 /\ trig' = <<>>
        BY <1>1, <3>1, EmptySeq
    <3>3. \A p \in Provider \ QuicProviders : inflight'[p] = NoJob
        BY <1>1, <2>1, <2>3
    <3> QED BY <3>2, <3>3 DEF PacedQuiet
  <2> QED BY <1>4, <2>2, <2>3 DEF RunTop
<1>5. CASE RunSend
  <2>1. pc = "send" /\ cur \in Job /\ UNCHANGED <<resp, trig>>
    BY <1>5 DEF RunSend, NextProvider, IInv, TypeOK, TriggersInOrder
  <2>2. Only(idx)
    BY <1>0, <1>5, <2>1, SendToEffect DEF RunSend
  <2>3. ASSUME NEW p \in Provider \ QuicProviders, pc' = "send", idx' <= p
        PROVE  inflight'[p] = NoJob
    <3>1. idx' = idx + 1
        BY <1>5, <2>3 DEF RunSend, NextProvider
    <3>2. idx <= p /\ p # idx
        BY <1>0, <2>3, <3>1 DEF Provider
    <3>3. inflight'[p] = inflight[p]
        BY <2>2, <3>2 DEF Only
    <3> QED BY <1>1, <2>1, <3>2, <3>3
  <2> QED BY <1>1, <2>1, <2>3 DEF PacedQuiet
<1>6. CASE RunReap
  <2>1. /\ trig' = trig /\ pc = "reap" /\ pc' # "send" /\ UNCHANGED resp
    BY <1>6 DEF RunReap, NextProvider
  <2>0. PICK q \in Provider : q = idx
    BY <1>0
  <2>2. Only(q) /\ (Outstanding(q))' \in {Outstanding(q), NoJob}
    BY <1>0, <1>6, <2>0, <2>1, DriveReapEffect DEF RunReap
  <2>3. ASSUME NEW p \in Provider \ QuicProviders
        PROVE  inflight'[p] \in {inflight[p], NoJob}
    <3>1. CASE p # q
        BY <2>2, <3>1 DEF Only
    <3>2. CASE p = q
        BY <2>2, <3>2 DEF Outstanding
    <3> QED BY <3>1, <3>2
  <2> QED BY <1>1, <2>1, <2>3 DEF PacedQuiet
<1>7. CASE RunDrive \/ RunTick \/ RunWoken
  <2>1. trig' = trig /\ pc' # "send" /\ inflight' = inflight
    BY <1>7 DEF RunDrive, RunTick, RunWoken
  <2> QED BY <1>1, <2>1 DEF PacedQuiet
<1>8. CASE \/ Reconnect \/ Lane \/ Stop \/ JoinAll
           \/ \E p \in Provider : Peer(p) \/ Fault(p) \/ Restore(p)
  <2>1. OtherStep /\ UNCHANGED loopVars
    BY <1>8, OthersStep
  <2>2. \A p \in Provider \ QuicProviders : inflight'[p] = inflight[p]
    BY <1>0, <2>1, OtherSettles DEF Outstanding
  <2> QED BY <1>2, <2>1, <2>2 DEF loopVars
<1>9. CASE UNCHANGED vars
    BY <1>2, <1>9 DEF vars, loopVars, workerVars
<1> QED
    BY <1>3, <1>4, <1>5, <1>6, <1>7, <1>8, <1>9 DEF Next, Terminated, WorkerStep

\* Every step keeps the responses under way in order and unreported.
LEMMA AnsweredStep ==
    ASSUME IInv, RInv, [Next]_vars, NEW p \in Provider
    PROVE  (Answered(p, Bound(p), OneAtATime))'
<1>0. /\ WorkerTypeOK /\ ThreadsTypeOK /\ StandbyForgets /\ idx \in Provider
      /\ TriggersInOrder' /\ TypeOK' /\ OneAtATime \in BOOLEAN
    BY TypeStep, TriggersStep, SequentialAssumption DEF IInv, TypeOK, OneAtATime
<1>1. PICK b \in Nat : b = Bound(p) /\ Answered(p, b, OneAtATime)
    BY OutstandingType DEF IInv, RInv
<1>2. PICK b2 \in Nat : b2 = (Bound(p))'
  <2>1. cur' \in Nat /\ (pc' = "send" => cur' # 0)
    BY <1>0, MaxJobsAssumption DEF TypeOK, TriggersInOrder, NoJob, Job
  <2>2. (Bound(p))' = cur' \/ (pc' = "send" /\ (Bound(p))' = cur' - 1)
    BY DEF Bound
  <2> QED BY <2>1, <2>2
<1>3. SUFFICES (Answered(p, b2, OneAtATime))'
  <2>1. (Answered(p, b2, OneAtATime))' => (Answered(p, Bound(p), OneAtATime))'
    BY <1>2 DEF Answered
  <2> QED BY <2>1
<1>4. /\ sink[p] \in Seq(Outcome) /\ results[p] \in Seq(Outcome) /\ Outstanding(p) \in Nat
      /\ SettledAt(sink[p], results[p], Outstanding(p), jobsSent[p], b)
      /\ Reported(All(p))
    BY <1>0, <1>1, OutstandingType, AnsweredTypes DEF IInv, Settled, Answered
<1>5. p \notin QuicProviders => inflight[p] <= b
    BY <1>4 DEF SettledAt, Outstanding
<1>6. cur \in Nat /\ idx \in Nat /\ p \in Nat
    BY MaxJobsAssumption DEF IInv, TypeOK, Provider, Job, NoJob
<1>7. CASE /\ b <= b2 /\ (All(p))' = All(p)
           /\ p \notin QuicProviders => /\ active'[p] = active[p] /\ inflight'[p] = inflight[p]
                                        /\ standby'[p] = standby[p] /\ resp'[p] = resp[p]
    BY <1>0, <1>1, <1>7, SameAnswered
<1>8. CASE Trigger \/ RunTop \/ UNCHANGED vars
  <2>1. UNCHANGED <<workerVars, threadVars>>
    BY <1>8 DEF Trigger, RunTop, vars
  <2>2. (All(p))' = All(p)
    BY <2>1 DEF All, workerVars, threadVars
  <2>3. b2 = b
    <3>1. CASE UNCHANGED <<pc, cur, idx>>
        BY <1>1, <1>2, <3>1 DEF Bound
    <3>2. CASE RunTop
      <4>1. b = cur
          BY <1>1, <3>2 DEF RunTop, Bound
      <4>2. CASE pc' # "send"
          BY <1>2, <3>2, <4>1, <4>2 DEF RunTop, Bound
      <4>3. CASE pc' = "send"
        <5>1. trig # <<>> /\ cur' = Head(trig) /\ idx' = 0
            BY <3>2, <4>3 DEF RunTop
        <5>2. cur' = cur + 1
            BY <5>1 DEF IInv, TypeOK, TriggersInOrder
        <5> QED BY <1>2, <1>6, <4>1, <4>3, <5>1, <5>2 DEF Bound
      <4> QED BY <4>2, <4>3
    <3> QED BY <1>8, <3>1, <3>2 DEF Trigger, vars, loopVars
  <2> QED BY <1>7, <2>1, <2>2, <2>3 DEF workerVars
<1>9. CASE RunSend
  <2>1. pc = "send" /\ cur \in Job /\ cur' = cur /\ UNCHANGED <<resp, sink>>
    BY <1>9 DEF RunSend, NextProvider, IInv, TypeOK, TriggersInOrder, threadVars
  <2>2. PICK q \in Provider, j \in Job : q = idx /\ j = cur
    BY <1>0, <2>1
  <2>3. SendTo(q, j)
    BY <1>9, <2>2 DEF RunSend
  <2>4. Only(q) /\ results' = results
    BY <1>0, <2>1, <2>3, SendToEffect
  <2>5. /\ pc' = "send" => idx' = idx + 1
        /\ N \in Nat /\ (pc' # "send" => idx = N - 1)
    BY <1>0, <1>9, WorkerAssumption DEF RunSend, NextProvider, Provider
  <2>6. CASE p # q
    <3>1. b2 = b
        BY <1>1, <1>2, <1>6, <2>1, <2>2, <2>5, <2>6 DEF Bound, Provider
    <3>2. (All(p))' = All(p)
        BY <2>1, <2>4 DEF All
    <3> QED BY <1>7, <2>1, <2>4, <2>6, <3>1, <3>2 DEF Only
  <2>7. CASE p = q
    <3>1. b = j - 1 /\ b2 = j /\ j \in Nat /\ b < j
        BY <1>1, <1>2, <1>6, <2>1, <2>2, <2>5, <2>7 DEF Bound
    <3>2. \A i \in 1 .. Len(All(p)) : All(p)[i].body < j
        BY <1>4, <3>1, BodiesBelow DEF All
    <3>3. /\ OneAtATime /\ p \notin QuicProviders => inflight[p] = NoJob
          /\ OneAtATime => ConnKind = "RawLibc"
        BY <1>6, <2>1, <2>2, <2>7 DEF RInv, PacedQuiet, OneAtATime
    <3>4. (Answered(p, j, OneAtATime))'
        BY <1>0, <1>1, <1>5, <2>1, <2>3, <2>7, <3>1, <3>2, <3>3, SendToAnswered
    <3> QED BY <3>1, <3>4
  <2> QED BY <2>6, <2>7
<1>10. CASE RunReap
  <2>1. /\ pc = "reap" /\ pc' # "send" /\ cur' = cur
        /\ UNCHANGED <<resp, sink>>
    BY <1>10 DEF RunReap, NextProvider, threadVars
  <2>2. b2 = b
    BY <1>1, <1>2, <2>1 DEF Bound
  <2>3. PICK q \in Provider : q = idx
    BY <1>0
  <2>4. DriveReap(q)
    BY <1>10, <2>3 DEF RunReap
  <2>5. Only(q)
    BY <1>0, <2>1, <2>4, DriveReapEffect
  <2>6. CASE p # q
    <3>1. (All(p))' = All(p)
        BY <2>1, <2>5, <2>6 DEF All, Only
    <3> QED BY <1>7, <2>1, <2>2, <2>5, <2>6, <3>1 DEF Only
  <2>7. CASE p = q
    BY <1>0, <1>1, <1>5, <2>1, <2>2, <2>4, <2>7, DriveReapAnswered
  <2> QED BY <2>6, <2>7
<1>11. CASE RunDrive
  <2>1. b2 = b
    BY <1>1, <1>2, <1>11 DEF RunDrive, Bound
  <2>2. (All(p))' = All(p) /\ UNCHANGED <<standby, inflight, resp>>
    BY <1>11 DEF RunDrive, threadVars, All
  <2>3. p \notin QuicProviders => active'[p] = active[p]
    BY <1>11 DEF RunDrive, DriveActive
  <2> QED BY <1>7, <2>1, <2>2, <2>3
<1>12. CASE RunTick \/ RunWoken
  <2>1. b2 = b
    BY <1>1, <1>2, <1>12 DEF RunTick, RunWoken, Bound
  <2>2. UNCHANGED <<active, inflight, results, sink>>
    BY <1>12 DEF RunTick, RunWoken, threadVars
  <2>3. CASE CheckStandby(Provider)
    <3>1. Provider \in SUBSET Provider
        OBVIOUS
    <3> QED BY <1>0, <1>1, <2>1, <2>2, <2>3, <3>1, CheckStandbyAnswered
  <2>4. CASE UNCHANGED <<standby, resp>>
    <3>1. (All(p))' = All(p)
        BY <2>2 DEF All
    <3> QED BY <1>7, <2>1, <2>2, <2>4, <3>1
  <2> QED BY <1>12, <2>3, <2>4 DEF RunTick, RunWoken
<1>13. CASE \/ Reconnect \/ Lane \/ Stop \/ JoinAll
            \/ \E q \in Provider : Peer(q) \/ Fault(q) \/ Restore(q)
  <2>1. OtherStep /\ UNCHANGED loopVars
    BY <1>13, OthersStep
  <2>2. b2 = b
    BY <1>1, <1>2, <2>1 DEF Bound, loopVars
  <2> QED BY <1>0, <1>1, <2>1, <2>2, OtherAnswered
<1> QED
    BY <1>8, <1>9, <1>10, <1>11, <1>12, <1>13 DEF Next, Terminated, WorkerStep

\* RInv holds from the start and through every step.
LEMMA ResponsesInvariant == Spec => [](IInv /\ RInv)
<1>1. Init => RInv
  <2> SUFFICES ASSUME Init PROVE RInv
    OBVIOUS
  <2> USE DEF Init, WorkerInit, ThreadsInit
  <2>1. PacedQuiet
    BY DEF PacedQuiet
  <2>2. ASSUME NEW p \in Provider PROVE Answered(p, Bound(p), OneAtATime)
    BY AnsweredInit
  <2> QED BY <2>1, <2>2 DEF RInv
<1>2. IInv /\ RInv /\ [Next]_vars => RInv'
  <2> SUFFICES ASSUME IInv, RInv, [Next]_vars PROVE RInv'
    OBVIOUS
  <2>1. PacedQuiet'
    BY PacedStep DEF RInv, PacedQuiet
  <2>2. \A p \in Provider : (Answered(p, Bound(p), OneAtATime))'
    BY AnsweredStep
  <2> QED BY <2>1, <2>2 DEF RInv
<1> QED
    BY <1>1, <1>2, Invariance, PTL DEF Spec

(* Whatever the caller does, a response is reported at most once and never *)
(* for a job older than the one it answers: through batches of responses   *)
(* of which ingest keeps the first, connections swapped out and back and   *)
(* bodies that arrive after their job was given up.                        *)
THEOREM ReportedCorrect == Spec => []ResponsesReportedOnce
<1>1. ASSUME IInv, RInv PROVE ResponsesReportedOnce
  <2>1. WorkerTypeOK /\ ThreadsTypeOK
    BY <1>1 DEF IInv, TypeOK
  <2>2. \A p \in Provider : sink[p] \in Seq(Outcome) /\ results[p] \in Seq(Outcome)
                            /\ Reported(All(p))
    BY <1>1, <2>1, AnsweredTypes DEF RInv, Answered
  <2> QED BY <2>2, ReportedOnce
<1> QED
    BY ResponsesInvariant, <1>1, PTL

(* On a raw_libc backend, with a caller that waits for one job to settle   *)
(* before it triggers the next, every response is reported for the job it  *)
(* answers.                                                                *)
THEOREM MatchCorrect ==
    ASSUME Paced, ConnKind = "RawLibc"
    PROVE  Spec => []OutcomeMatchesJob
<1>1. ASSUME IInv, RInv PROVE OutcomeMatchesJob
  <2>1. WorkerTypeOK /\ ThreadsTypeOK /\ OneAtATime
    BY <1>1 DEF IInv, TypeOK, OneAtATime
  <2>2. \A p \in Provider : sink[p] \in Seq(Outcome) /\ results[p] \in Seq(Outcome)
                            /\ Matched(All(p))
    BY <1>1, <2>1, AnsweredTypes DEF RInv, Answered
  <2> QED BY <2>2, MatchedJobs
<1> QED
    BY ResponsesInvariant, <1>1, PTL

=============================================================================
