--------------------------- MODULE ParallelProofs ---------------------------
(* Proofs about the parallel engine, for every number of workers and of    *)
(* jobs, every choice of protocol per provider, every ring and channel     *)
(* capacity, and any number of connection and address failures: PInv is    *)
(* inductive, and the engine implements Delivery.                          *)
EXTENDS Parallel, WorkerProofs, TLAPS

-----------------------------------------------------------------------------
(* Numbers and rings.                                                      *)

\* The numbers the invariant compares.
LEMMA Numbers ==
    ASSUME TypeOK, NEW p \in Provider
    PROVE  /\ p \in Nat /\ N \in Nat /\ p < N
           /\ fan \in Nat /\ nextJob \in Nat \ {0} /\ Given(p) \in Nat
           /\ Outstanding(p) \in Nat /\ jobsSent[p] \in Nat
           /\ sink[p] \in Seq(Outcome) /\ results[p] \in Seq(Outcome)
           /\ trig[p] \in Seq(Job)
<1>1. p \in Nat /\ N \in Nat /\ p < N /\ fan \in Nat
    BY WorkerAssumption DEF TypeOK, Provider
<1>2. nextJob \in Nat \ {0}
    BY MaxJobsAssumption DEF TypeOK
<1>3. Given(p) \in Nat
    BY <1>2 DEF Given
<1>4. Outstanding(p) \in Nat
    BY OutstandingNat DEF TypeOK
<1> QED
    BY <1>1, <1>2, <1>3, <1>4 DEF TypeOK, WorkerTypeOK, ThreadsTypeOK

\* A job is a positive number.
LEMMA JobNat ==
    ASSUME NEW j \in Job
    PROVE  j \in Nat \ {0}
BY MaxJobsAssumption DEF Job

\* A ring that is offered the next job stays in order.
LEMMA QueuedOffer ==
    ASSUME NEW q \in Seq(Job), NEW b \in Nat, NEW n \in Nat, NEW j \in Job, NEW cap \in Nat,
           Queued(q, b, n), b <= n, n < j
    PROVE  Queued(Offer(q, cap, j), b, j)
<1>1. CASE Offer(q, cap, j) = q
  <2>1. \A i \in 1 .. Len(q) : q[i] \in Nat
    BY JobNat
  <2> QED
    BY <1>1, <2>1, JobNat DEF Queued
<1>2. CASE Offer(q, cap, j) = Append(q, j)
  <2> DEFINE t == Append(q, j)
  <2>1. /\ Len(t) = Len(q) + 1 /\ t[Len(q) + 1] = j /\ Len(q) \in Nat
        /\ \A i \in 1 .. Len(q) : t[i] = q[i]
    BY AppendProperties
  <2>2. \A i \in 1 .. Len(q) : q[i] \in Nat
    BY JobNat
  <2>3. j \in Nat
    BY JobNat
  <2> HIDE DEF t
  <2>4. ASSUME NEW i \in 1 .. Len(t) PROVE b < t[i] /\ t[i] <= j
    <3>1. CASE i = Len(q) + 1
        BY <2>1, <2>3, <3>1
    <3>2. CASE i # Len(q) + 1
      <4>1. i \in 1 .. Len(q) /\ t[i] = q[i]
          BY <2>1, <3>2
      <4> QED BY <2>2, <2>3, <4>1 DEF Queued
    <3> QED BY <3>1, <3>2
  <2>5. ASSUME NEW i \in 1 .. Len(t), NEW k \in 1 .. Len(t), i < k PROVE t[i] < t[k]
    <3>1. i \in 1 .. Len(q) /\ t[i] = q[i]
        BY <2>1, <2>5
    <3>2. CASE k = Len(q) + 1
      <4>1. q[i] \in Nat /\ q[i] <= n
          BY <2>2, <3>1 DEF Queued
      <4> QED BY <2>1, <2>3, <3>1, <3>2, <4>1
    <3>3. CASE k # Len(q) + 1
      <4>1. k \in 1 .. Len(q) /\ t[k] = q[k]
          BY <2>1, <3>3
      <4> QED BY <2>5, <3>1, <4>1 DEF Queued
    <3> QED BY <3>2, <3>3
  <2>6. Queued(t, b, j)
    BY <2>4, <2>5 DEF Queued
  <2> QED BY <1>2, <2>6 DEF t
<1> QED
    BY <1>1, <1>2 DEF Offer

\* The oldest job of a ring comes before the others.
LEMMA QueuedTail ==
    ASSUME NEW q \in Seq(Job), NEW b \in Nat, NEW n \in Nat, Queued(q, b, n), q # <<>>
    PROVE  /\ Head(q) \in Job /\ b < Head(q) /\ Head(q) <= n
           /\ Tail(q) \in Seq(Job) /\ Len(Tail(q)) <= Len(q)
           /\ Queued(Tail(q), Head(q), n)
<1> DEFINE t == Tail(q)
           h == Head(q)
<1>1. /\ h \in Job /\ h = q[1] /\ Len(q) \in Nat /\ Len(q) > 0
      /\ t \in Seq(Job) /\ Len(t) = Len(q) - 1
      /\ \A i \in 1 .. Len(t) : t[i] = q[i + 1]
    BY HeadTailProperties
<1> HIDE DEF t, h
<1>2. \A i \in 1 .. Len(t) : i + 1 \in 1 .. Len(q) /\ 1 < i + 1
    BY <1>1
<1>3. 1 \in 1 .. Len(q)
    BY <1>1
<1>4. b < h /\ h <= n
    BY <1>1, <1>3 DEF Queued
<1>5. ASSUME NEW i \in 1 .. Len(t) PROVE h < t[i] /\ t[i] <= n
    BY <1>1, <1>2, <1>3 DEF Queued
<1>6. ASSUME NEW i \in 1 .. Len(t), NEW k \in 1 .. Len(t), i < k PROVE t[i] < t[k]
  <2>1. i + 1 < k + 1
    BY <1>6
  <2> QED
    BY <1>1, <1>2, <2>1 DEF Queued
<1>7. Queued(t, h, n)
    BY <1>5, <1>6 DEF Queued
<1> QED
    BY <1>1, <1>4, <1>7 DEF t, h

-----------------------------------------------------------------------------
(* The initial state.                                                      *)

LEMMA InitPInv == Init => PInv
<1> SUFFICES ASSUME Init PROVE PInv
    OBVIOUS
<1> USE DEF Init, WorkerInit, ThreadsInit
<1>1. <<>> \in Seq(Outcome) /\ <<>> \in Seq(Conn) /\ <<>> \in Seq(Provider) /\ <<>> \in Seq(Job)
    OBVIOUS
<1>2. WorkerTypeOK
    BY <1>1, FreshConnType, WorkerAssumption DEF WorkerTypeOK
<1>3. 0 \in Provider
    BY WorkerAssumption DEF Provider
<1>4. ThreadsTypeOK
    BY <1>1, <1>3, ThreadsAssumption DEF ThreadsTypeOK
<1>5. TypeOK
    BY <1>1, <1>2, <1>3, <1>4, ParallelAssumption, MaxJobsAssumption DEF TypeOK
<1>6. StandbyForgets
    BY WorkerAssumption, FreshConnType DEF StandbyForgets
<1>7. ASSUME NEW p \in Provider PROVE CameTo(p, 0)
  <2>1. Outstanding(p) = NoJob
    BY FreshConnType DEF Outstanding
  <2>2. /\ Given(p) = 0 /\ sink[p] = <<>> /\ results[p] = <<>> /\ jobsSent[p] = 0
        /\ trig[p] = <<>> /\ taken[p] = {}
    BY DEF Given, Provider
  <2>3. SettledAt(sink[p], results[p], Outstanding(p), jobsSent[p], 0)
    BY <2>1, <2>2 DEF SettledAt, InOrder, Increasing, Precedes, AllBelow, NoJob
  <2> QED
    BY <2>2, <2>3 DEF CameTo, Queued
<1>8. AcceptedEverywhere
    BY DEF AcceptedEverywhere
<1>9. FanOK
    BY DEF FanOK, Provider
<1> QED
    BY <1>5, <1>6, <1>7, <1>8, <1>9, AnsweredInit DEF PInv

-----------------------------------------------------------------------------
(* Types.                                                                  *)

\* What the other threads, shutdown and the network do is an OtherStep that
\* leaves the workers' loops, trigger and its rings alone.
LEMMA OthersStep ==
    ASSUME TypeOK,
           \/ Reconnect \/ Lane \/ Stop \/ JoinAll
           \/ \E p \in Provider : Peer(p) \/ Fault(p) \/ Restore(p)
    PROVE  OtherStep /\ UNCHANGED loopVars
<1>1. stop \in BOOLEAN /\ joined \in BOOLEAN
    BY DEF TypeOK, ThreadsTypeOK
<1>2. CASE Stop
    BY <1>1, <1>2 DEF Stop, Shutdown, OtherStep
<1>3. CASE JoinAll
    BY <1>1, <1>3 DEF JoinAll, Join, OtherStep
<1>4. CASE Reconnect \/ Lane
    BY <1>4 DEF Reconnect, Lane, OtherStep
<1>5. CASE \E p \in Provider : Peer(p) \/ Fault(p) \/ Restore(p)
    BY <1>5 DEF Peer, Fault, Restore, OtherStep
<1> QED
    BY <1>2, <1>3, <1>4, <1>5

\* trigger preserves the types.
LEMMA TriggerTypes ==
    ASSUME TypeOK, Trigger
    PROVE  TypeOK'
<1>1. /\ fan \in Provider /\ fan \in Nat /\ N \in Nat /\ 0 \in Provider
      /\ nextJob \in Job /\ nextJob + 1 \in 1 .. MaxJobs + 1
    BY WorkerAssumption, MaxJobsAssumption DEF TypeOK, Provider, Trigger, Job
<1>2. /\ trig[fan] \in Seq(Job) /\ Len(trig[fan]) <= TriggerRing
    BY <1>1 DEF TypeOK
<1>3. /\ Offer(trig[fan], TriggerRing, nextJob) \in Seq(Job)
      /\ Len(Offer(trig[fan], TriggerRing, nextJob)) <= TriggerRing
    BY <1>1, <1>2, OfferType, ParallelAssumption
<1>4. /\ trig' \in [Provider -> Seq(Job)]
      /\ \A p \in Provider : Len(trig'[p]) <= TriggerRing
    BY <1>1, <1>3 DEF Trigger, TypeOK
<1>5. /\ fan' \in Provider /\ nextJob' \in 1 .. MaxJobs + 1
      /\ ok' \in BOOLEAN /\ accepted' \subseteq Job
  <2>1. CASE fan + 1 < N
    <3>1. fan + 1 \in Provider
        BY <1>1, <2>1 DEF Provider
    <3> QED BY <2>1, <3>1 DEF Trigger, FanResult, TypeOK
  <2>2. CASE ~(fan + 1 < N)
    BY <1>1, <2>2 DEF Trigger, FanResult, TypeOK
  <2> QED BY <2>1, <2>2
<1>6. WorkerTypeOK'
    BY DEF Trigger, TypeOK, WorkerTypeOK, workerVars
<1>7. ThreadsTypeOK'
    BY DEF Trigger, TypeOK, ThreadsTypeOK, threadVars
<1> QED
    BY <1>4, <1>5, <1>6, <1>7 DEF Trigger, TypeOK

\* A step of a worker preserves the types.
LEMMA WorkerTypes ==
    ASSUME TypeOK, NEW p \in Provider, WorkerStep(p)
    PROVE  TypeOK'
<1>0. {p} \in SUBSET Provider /\ pc[p] \in {"top", "reap", "tick", "woken", "done"}
    BY DEF TypeOK
<1>1. pc' \in [Provider -> {"top", "reap", "tick", "woken", "done"}]
    BY DEF WorkerStep, RunStop, RunSend, RunNoJob, RunReap, RunTick, RunWoken, Goto, TypeOK
<1>2. tick' \in [Provider -> 0 .. Period - 1]
  <2>1. CASE RunTick(p)
    <3>1. (tick[p] + 1) % Period \in 0 .. Period - 1
        BY ParallelAssumption DEF TypeOK
    <3> QED BY <2>1, <3>1 DEF RunTick, TypeOK
  <2>2. CASE ~RunTick(p)
    BY <2>2 DEF WorkerStep, RunStop, RunSend, RunNoJob, RunReap, RunWoken, TypeOK
  <2> QED BY <2>1, <2>2
<1>3. UNCHANGED threadVars /\ UNCHANGED triggerVars
    BY DEF WorkerStep, RunStop, RunSend, RunNoJob, RunReap, RunTick, RunWoken
<1>4. ThreadsTypeOK'
    BY <1>3 DEF threadVars, TypeOK, ThreadsTypeOK
<1>5. WorkerTypeOK' /\ trig' \in [Provider -> Seq(Job)] /\ taken' \in [Provider -> SUBSET Job]
      /\ \A q \in Provider : Len(trig'[q]) <= TriggerRing
  <2>1. CASE RunStop(p) \/ RunNoJob(p)
    <3>1. UNCHANGED <<workerVars, trig, taken>>
        BY <2>1 DEF RunStop, RunNoJob
    <3> QED BY <3>1 DEF workerVars, TypeOK, WorkerTypeOK
  <2>2. CASE RunSend(p)
    <3>1. trig[p] \in Seq(Job) /\ trig[p] # <<>> /\ Len(trig[p]) <= TriggerRing
        BY <2>2 DEF RunSend, TypeOK
    <3>2. /\ Head(trig[p]) \in Job /\ Tail(trig[p]) \in Seq(Job)
          /\ Len(Tail(trig[p])) <= TriggerRing
        BY <3>1, HeadTailProperties, ParallelAssumption
    <3>3. SendTo(p, Head(trig[p])) /\ UNCHANGED <<diag, resp>> /\ WorkerTypeOK
        BY <2>2 DEF RunSend, TypeOK
    <3>4. WorkerTypeOK'
        BY <3>2, <3>3, SendToType
    <3> QED BY <2>2, <3>2, <3>4 DEF RunSend, TypeOK
  <2>3. CASE RunReap(p)
    <3>1. WorkerTypeOK'
        BY <2>3, DriveReapType DEF RunReap, TypeOK
    <3> QED BY <2>3, <3>1 DEF RunReap, TypeOK
  <2>4. CASE RunTick(p) \/ RunWoken(p)
    <3>1. /\ standby' \in [Provider -> Conn] /\ resp' \in [Provider -> Seq(Conn)]
          /\ \A q \in Provider : Len(resp'[q]) <= 1
          /\ diag' \in [Provider -> Nat]
        BY <1>0, <2>4, CheckStandbyType DEF RunTick, RunWoken, PublishDiag, TypeOK, WorkerTypeOK
    <3>2. UNCHANGED <<active, inflight, jobsSent, results, reqs, trig, taken>>
        BY <2>4 DEF RunTick, RunWoken
    <3> QED BY <3>1, <3>2 DEF TypeOK, WorkerTypeOK
  <2> QED BY <2>1, <2>2, <2>3, <2>4 DEF WorkerStep
<1> QED
    BY <1>1, <1>2, <1>3, <1>4, <1>5 DEF TypeOK, triggerVars

\* Every step preserves the types.
LEMMA TypeStep == TypeOK /\ [Next]_vars => TypeOK'
<1> SUFFICES ASSUME TypeOK, [Next]_vars PROVE TypeOK'
    OBVIOUS
<1>1. CASE Trigger
    BY <1>1, TriggerTypes
<1>2. ASSUME NEW p \in Provider, WorkerStep(p) PROVE TypeOK'
    BY <1>2, WorkerTypes
<1>3. CASE \/ Reconnect \/ Lane \/ Stop \/ JoinAll
           \/ \E p \in Provider : Peer(p) \/ Fault(p) \/ Restore(p)
  <2>1. OtherStep /\ UNCHANGED loopVars
    BY <1>3, OthersStep
  <2>2. WorkerTypeOK' /\ ThreadsTypeOK'
    BY <2>1, OtherTypes DEF TypeOK
  <2> QED
    BY <2>1, <2>2 DEF TypeOK, loopVars, triggerVars
<1>4. CASE UNCHANGED vars
    BY <1>4 DEF TypeOK, WorkerTypeOK, ThreadsTypeOK, vars, workerVars,
                threadVars, loopVars, triggerVars
<1> QED
    BY <1>1, <1>2, <1>3, <1>4 DEF Next, Terminated

-----------------------------------------------------------------------------
(* Standby connections.                                                    *)

\* Every step keeps what standby connections remember harmless.
LEMMA ForgetsStep == PInv /\ [Next]_vars => StandbyForgets'
<1> SUFFICES ASSUME PInv, [Next]_vars PROVE StandbyForgets'
    OBVIOUS
<1>0. TypeOK /\ WorkerTypeOK /\ ThreadsTypeOK /\ StandbyForgets
    BY DEF PInv, TypeOK
<1>1. CASE UNCHANGED <<standby, resp>>
    BY <1>0, <1>1 DEF StandbyForgets
<1>2. ASSUME NEW p \in Provider, WorkerStep(p) PROVE StandbyForgets'
  <2>1. CASE RunStop(p) \/ RunNoJob(p)
    BY <1>1, <2>1 DEF RunStop, RunNoJob, workerVars
  <2>2. CASE RunSend(p)
    <3>1. Head(trig[p]) \in Job
        BY <1>0, <2>2, HeadTailProperties DEF RunSend, TypeOK
    <3> QED BY <1>0, <2>2, <3>1, SendToEffect DEF RunSend
  <2>3. CASE RunReap(p)
    BY <1>0, <2>3, DriveReapEffect DEF RunReap
  <2>4. CASE RunTick(p) \/ RunWoken(p)
    <3>1. {p} \in SUBSET Provider
        OBVIOUS
    <3> QED BY <1>0, <1>1, <2>4, <3>1, CheckStandbyForgets DEF RunTick, RunWoken
  <2> QED BY <1>2, <2>1, <2>2, <2>3, <2>4 DEF WorkerStep
<1>3. CASE \/ Reconnect \/ Lane \/ Stop \/ JoinAll
           \/ \E p \in Provider : Peer(p) \/ Fault(p) \/ Restore(p)
    BY <1>0, <1>3, OthersStep, OtherForgets
<1>4. CASE Trigger \/ UNCHANGED vars
    BY <1>1, <1>4 DEF Trigger, vars, workerVars
<1> QED
    BY <1>2, <1>3, <1>4 DEF Next, Terminated

-----------------------------------------------------------------------------
(* The jobs each worker has come to.                                       *)

\* trigger offers its job to one ring, and it is the newest job of that ring.
LEMMA TriggerGiven ==
    ASSUME TypeOK, Trigger, NEW p \in Provider
    PROVE  /\ p # fan => (Given(p))' = Given(p) /\ trig'[p] = trig[p]
           /\ p = fan => /\ (Given(p))' = nextJob /\ Given(p) < nextJob
                         /\ trig'[p] = Offer(trig[p], TriggerRing, nextJob)
<1>1. /\ p \in Nat /\ N \in Nat /\ p < N /\ fan \in Nat /\ fan < N /\ nextJob \in Nat
    BY Numbers DEF TypeOK, Provider
<1>2. CASE fan + 1 < N
  <2>1. fan' = fan + 1 /\ nextJob' = nextJob
    BY <1>2 DEF Trigger
  <2> QED BY <1>1, <2>1 DEF Given, Trigger, TypeOK
<1>3. CASE ~(fan + 1 < N)
  <2>1. fan' = 0 /\ nextJob' = nextJob + 1
    BY <1>3 DEF Trigger
  <2> QED BY <1>1, <1>3, <2>1 DEF Given, Trigger, TypeOK
<1> QED BY <1>2, <1>3

\* A step that pops no job of p and settles nothing for it.
LEMMA SameCameTo ==
    ASSUME TypeOK, NEW p \in Provider, NEW b \in Nat, CameTo(p, b),
           taken'[p] = taken[p], trig'[p] = trig[p], (Given(p))' = Given(p),
           SettledAt(sink'[p], results'[p], (Outstanding(p))', jobsSent'[p], b)
    PROVE  (CameTo(p, b))'
BY DEF CameTo

\* trigger leaves the workers behind the jobs it adds.
LEMMA TriggerCameTo ==
    ASSUME TypeOK, Trigger, NEW p \in Provider, NEW b \in Nat, CameTo(p, b)
    PROVE  (CameTo(p, b))'
<1>1. /\ trig[p] \in Seq(Job) /\ nextJob \in Job /\ Given(p) \in Nat
    BY Numbers, MaxJobsAssumption DEF Trigger, Job
<1>2. /\ taken' = taken
      /\ UNCHANGED <<sink, results, jobsSent, active, inflight>>
    BY DEF Trigger, workerVars, threadVars
<1>3. SettledAt(sink'[p], results'[p], (Outstanding(p))', jobsSent'[p], b)
    BY <1>2 DEF CameTo, Outstanding
<1>4. CASE p # fan
    BY <1>2, <1>3, <1>4, TriggerGiven, SameCameTo
<1>5. CASE p = fan
  <2>1. /\ (Given(p))' = nextJob /\ Given(p) < nextJob
        /\ trig'[p] = Offer(trig[p], TriggerRing, nextJob)
    BY <1>5, TriggerGiven
  <2>2. Queued(trig[p], b, Given(p)) /\ b <= Given(p)
    BY DEF CameTo
  <2>3. Queued(trig'[p], b, nextJob)
    BY <1>1, <2>1, <2>2, QueuedOffer, ParallelAssumption
  <2>4. b <= nextJob
    BY <1>1, <2>1, <2>2, JobNat
  <2> QED BY <1>2, <1>3, <2>1, <2>2, <2>3, <2>4 DEF CameTo
<1> QED BY <1>4, <1>5

\* The worker that pops a job comes to it.
LEMMA SendCameTo ==
    ASSUME TypeOK, StandbyForgets, NEW p \in Provider, RunSend(p),
           NEW b \in Nat, CameTo(p, b), NEW j \in Job, j = Head(trig[p])
    PROVE  b < j /\ (CameTo(p, j))'
<1>1. /\ trig[p] \in Seq(Job) /\ trig[p] # <<>> /\ Given(p) \in Nat
      /\ Queued(trig[p], b, Given(p))
    BY Numbers DEF RunSend, CameTo
<1>2. /\ b < j /\ j <= Given(p)
      /\ Queued(Tail(trig[p]), j, Given(p))
    BY <1>1, QueuedTail
<1>3. j \in Nat
    BY JobNat
<1>4. /\ SendTo(p, j) /\ resp' = resp /\ sink' = sink /\ (Given(p))' = Given(p)
      /\ trig'[p] = Tail(trig[p]) /\ taken'[p] = taken[p] \cup {j}
    BY DEF RunSend, threadVars, triggerVars, Given, TypeOK
<1>5. /\ results' = results
      /\ \/ /\ jobsSent'[p] = jobsSent[p]
            /\ (Outstanding(p))' \in {Outstanding(p), NoJob}
         \/ /\ jobsSent'[p] = jobsSent[p] + 1
            /\ (Outstanding(p))' \in {Outstanding(p), NoJob, j}
    BY <1>4, SendToEffect DEF TypeOK
<1>6. /\ Outstanding(p) \in Nat /\ jobsSent[p] \in Nat
      /\ sink[p] \in Seq(Outcome) /\ results[p] \in Seq(Outcome)
      /\ SettledAt(sink[p], results[p], Outstanding(p), jobsSent[p], b)
    BY Numbers DEF CameTo
<1>7. SettledAt(sink[p], results[p], (Outstanding(p))', jobsSent'[p], j)
  <2>1. CASE /\ jobsSent'[p] = jobsSent[p]
             /\ (Outstanding(p))' \in {Outstanding(p), NoJob}
    <3>1. b <= j
        BY <1>2, <1>3
    <3>2. SettledAt(sink[p], results[p], (Outstanding(p))', jobsSent[p], j)
        BY <1>3, <1>6, <2>1, <3>1, KeepSettled
    <3> QED BY <2>1, <3>2
  <2>2. CASE /\ jobsSent'[p] = jobsSent[p] + 1
             /\ (Outstanding(p))' \in {Outstanding(p), NoJob, j}
    <3>1. SettledAt(sink[p], results[p], (Outstanding(p))', jobsSent[p] + 1, j)
        BY <1>2, <1>3, <1>6, <2>2, SendSettled
    <3> QED BY <2>2, <3>1
  <2> QED BY <1>5, <2>1, <2>2
<1>8. \A i \in taken'[p] : i <= j
  <2>1. \A i \in taken[p] : i <= b
    BY DEF CameTo
  <2>2. \A i \in taken[p] : i \in Nat
    BY JobNat DEF TypeOK
  <2> QED BY <1>2, <1>3, <1>4, <2>1, <2>2
<1>9. (CameTo(p, j))'
    BY <1>2, <1>4, <1>5, <1>7, <1>8 DEF CameTo
<1> QED
    BY <1>2, <1>9

\* A worker that reaps settles the job it has in flight, or nothing.
LEMMA ReapCameTo ==
    ASSUME TypeOK, StandbyForgets, NEW p \in Provider, RunReap(p),
           NEW b \in Nat, CameTo(p, b)
    PROVE  (CameTo(p, b))'
<1>1. /\ DriveReap(p) /\ resp' = resp /\ sink' = sink /\ (Given(p))' = Given(p)
      /\ trig'[p] = trig[p] /\ taken'[p] = taken[p]
    BY DEF RunReap, threadVars, triggerVars, Given
<1>2. /\ jobsSent' = jobsSent
      /\ \/ /\ results'[p] = results[p]
            /\ (Outstanding(p))' \in {Outstanding(p), NoJob}
         \/ /\ Outstanding(p) # NoJob /\ (Outstanding(p))' = NoJob
            /\ \E o \in Outcome :
                  /\ o.job = Outstanding(p)
                  /\ results'[p] = Offer(results[p], ResultRing, o)
    BY <1>1, DriveReapEffect DEF TypeOK
<1>3. /\ Outstanding(p) \in Nat /\ jobsSent[p] \in Nat
      /\ sink[p] \in Seq(Outcome) /\ results[p] \in Seq(Outcome)
      /\ SettledAt(sink[p], results[p], Outstanding(p), jobsSent[p], b)
    BY Numbers DEF CameTo
<1>4. CASE /\ results'[p] = results[p]
           /\ (Outstanding(p))' \in {Outstanding(p), NoJob}
  <2>1. b <= b
    OBVIOUS
  <2>2. SettledAt(sink[p], results[p], (Outstanding(p))', jobsSent[p], b)
    BY <1>3, <1>4, <2>1, KeepSettled
  <2> QED BY <1>1, <1>2, <1>4, <2>2, SameCameTo
<1>5. CASE Outstanding(p) # NoJob /\ (Outstanding(p))' = NoJob
           /\ \E o \in Outcome : /\ o.job = Outstanding(p)
                                 /\ results'[p] = Offer(results[p], ResultRing, o)
  <2>1. PICK o \in Outcome : /\ o.job = Outstanding(p)
                             /\ results'[p] = Offer(results[p], ResultRing, o)
    BY <1>5
  <2>2. SettledAt(sink[p], Offer(results[p], ResultRing, o), NoJob, jobsSent[p], b)
    BY <1>3, <1>5, <2>1, PushSettled, WorkerAssumption
  <2> QED BY <1>1, <1>2, <1>5, <2>1, <2>2, SameCameTo
<1> QED
    BY <1>2, <1>4, <1>5

\* A worker's step concerns its own provider only.
LEMMA WorkerOnly ==
    ASSUME TypeOK, StandbyForgets, NEW q \in Provider, WorkerStep(q),
           NEW p \in Provider, p # q
    PROVE  /\ taken'[p] = taken[p] /\ trig'[p] = trig[p] /\ results'[p] = results[p]
           /\ jobsSent'[p] = jobsSent[p] /\ (Outstanding(p))' = Outstanding(p)
<1>1. CASE RunStop(q) \/ RunNoJob(q) \/ RunTick(q) \/ RunWoken(q)
    BY <1>1 DEF RunStop, RunNoJob, RunTick, RunWoken, Outstanding, workerVars
<1>2. CASE RunSend(q)
  <2>1. Head(trig[q]) \in Job
    BY <1>2, HeadTailProperties DEF RunSend, TypeOK
  <2>2. Only(q) /\ results' = results
    BY <1>2, <2>1, SendToEffect DEF RunSend, TypeOK
  <2> QED BY <1>2, <2>2 DEF RunSend, Only, Outstanding, TypeOK
<1>3. CASE RunReap(q)
  <2>1. Only(q)
    BY <1>3, DriveReapEffect DEF RunReap, TypeOK
  <2> QED BY <1>3, <2>1 DEF RunReap, Only, Outstanding
<1> QED
    BY <1>1, <1>2, <1>3 DEF WorkerStep

-----------------------------------------------------------------------------
(* The responses under way to each worker (see WorkerProofs).              *)

\* The job a worker pops is newer than every response it has reported.
LEMMA SendAnswered ==
    ASSUME TypeOK, NEW p \in Provider, RunSend(p), NEW b \in Nat, CameTo(p, b),
           Answered(p, b, FALSE), NEW j \in Job, j = Head(trig[p]), b < j
    PROVE  (Answered(p, j, FALSE))'
<1>1. SendTo(p, j) /\ UNCHANGED <<resp, sink>> /\ WorkerTypeOK /\ ThreadsTypeOK
    BY DEF RunSend, threadVars, TypeOK
<1>2. /\ sink[p] \in Seq(Outcome) /\ results[p] \in Seq(Outcome) /\ Outstanding(p) \in Nat
      /\ SettledAt(sink[p], results[p], Outstanding(p), jobsSent[p], b)
      /\ Reported(All(p)) /\ j \in Nat
    BY Numbers, JobNat DEF CameTo, Answered
<1>3. p \notin QuicProviders => inflight[p] <= b
    BY <1>2 DEF SettledAt, Outstanding
<1>4. \A i \in 1 .. Len(All(p)) : All(p)[i].body < j
    BY <1>2, BodiesBelow DEF All
<1> QED BY <1>1, <1>3, <1>4, SendToAnswered

\* Every other step of a worker, for its own provider and for the others.
LEMMA WorkerAnswered ==
    ASSUME TypeOK, StandbyForgets, NEW q \in Provider, WorkerStep(q),
           NEW p \in Provider, p = q => ~RunSend(q),
           NEW b \in Nat, CameTo(p, b), Answered(p, b, FALSE)
    PROVE  (Answered(p, b, FALSE))'
<1>0. WorkerTypeOK /\ ThreadsTypeOK /\ b <= b
    BY DEF TypeOK
<1>1. CASE /\ (All(p))' = All(p)
           /\ active'[p] = active[p] /\ inflight'[p] = inflight[p]
           /\ standby'[p] = standby[p] /\ resp'[p] = resp[p]
    BY <1>0, <1>1, SameAnswered
<1>2. CASE RunStop(q) \/ RunNoJob(q)
  <2>1. UNCHANGED <<workerVars, sink>>
    BY <1>2 DEF RunStop, RunNoJob, threadVars
  <2> QED BY <1>1, <2>1 DEF workerVars, All
<1>3. CASE RunSend(q)
  <2>1. Head(trig[q]) \in Job
    BY <1>3, HeadTailProperties DEF RunSend, TypeOK
  <2>2. Only(q) /\ UNCHANGED <<results, resp, sink>>
    BY <1>3, <2>1, SendToEffect DEF RunSend, TypeOK, threadVars
  <2> QED BY <1>1, <1>3, <2>2 DEF Only, All
<1>4. CASE RunReap(q)
  <2>1. DriveReap(q) /\ UNCHANGED <<resp, sink>>
    BY <1>4 DEF RunReap, threadVars
  <2>2. CASE p # q
    <3>1. Only(q)
        BY <1>0, <2>1, DriveReapEffect
    <3> QED BY <1>1, <2>1, <2>2, <3>1 DEF Only, All
  <2>3. CASE p = q
    <3>1. p \notin QuicProviders => inflight[p] <= b
        BY DEF CameTo, SettledAt, Outstanding
    <3> QED BY <1>0, <2>1, <2>3, <3>1, DriveReapAnswered
  <2> QED BY <2>2, <2>3
<1>5. CASE RunTick(q) \/ RunWoken(q)
  <2>1. UNCHANGED <<active, inflight, results, sink>>
    BY <1>5 DEF RunTick, RunWoken, threadVars
  <2>2. CASE CheckStandby({q})
    <3>1. {q} \in SUBSET Provider
        OBVIOUS
    <3> QED BY <1>0, <2>1, <2>2, <3>1, CheckStandbyAnswered
  <2>3. CASE UNCHANGED <<standby, resp>>
    BY <1>1, <2>1, <2>3 DEF All
  <2> QED BY <1>5, <2>2, <2>3 DEF RunTick, RunWoken
<1> QED BY <1>2, <1>3, <1>4, <1>5 DEF WorkerStep

\* Every step keeps the jobs in each ring after those its worker came to, and
\* the responses under way to it newer than those it has reported.
LEMMA CameToStep ==
    ASSUME PInv, [Next]_vars, NEW p \in Provider
    PROVE  \E b \in Nat : (CameTo(p, b))' /\ (Answered(p, b, FALSE))'
<1>0. TypeOK /\ StandbyForgets /\ WorkerTypeOK /\ ThreadsTypeOK
    BY DEF PInv, TypeOK
<1>1. PICK b \in Nat : CameTo(p, b) /\ Answered(p, b, FALSE)
    BY DEF PInv
<1>2. SettledAt(sink[p], results[p], Outstanding(p), jobsSent[p], b) /\ b <= b
    BY <1>1 DEF CameTo
<1>3. CASE Trigger
  <2>1. (CameTo(p, b))'
    BY <1>0, <1>1, <1>3, TriggerCameTo
  <2>2. UNCHANGED <<active, standby, inflight, results, resp, sink>>
    BY <1>3 DEF Trigger, workerVars, threadVars
  <2>3. (Answered(p, b, FALSE))'
    BY <1>0, <1>1, <1>2, <2>2, SameAnswered DEF All
  <2> QED BY <2>1, <2>3
<1>4. ASSUME NEW q \in Provider, WorkerStep(q)
      PROVE  \E c \in Nat : (CameTo(p, c))' /\ (Answered(p, c, FALSE))'
  <2>1. UNCHANGED <<sink, fan, nextJob>> /\ (Given(p))' = Given(p)
    BY <1>4 DEF WorkerStep, RunStop, RunSend, RunNoJob, RunReap, RunTick, RunWoken,
                threadVars, triggerVars, Given
  <2>2. CASE p = q /\ RunSend(q)
    <3>1. PICK j \in Job : j = Head(trig[p])
        BY <1>0, <2>2, HeadTailProperties DEF RunSend, TypeOK
    <3>2. b < j /\ (CameTo(p, j))'
        BY <1>0, <1>1, <2>2, <3>1, SendCameTo
    <3>3. (Answered(p, j, FALSE))'
        BY <1>0, <1>1, <2>2, <3>1, <3>2, SendAnswered
    <3> QED BY <3>2, <3>3, JobNat
  <2>3. CASE p = q => ~RunSend(q)
    <3>1. (Answered(p, b, FALSE))'
        BY <1>0, <1>1, <1>4, <2>3, WorkerAnswered
    <3>2. CASE p # q
      <4>1. /\ taken'[p] = taken[p] /\ trig'[p] = trig[p] /\ results'[p] = results[p]
            /\ jobsSent'[p] = jobsSent[p] /\ (Outstanding(p))' = Outstanding(p)
          BY <1>0, <1>4, <3>2, WorkerOnly
      <4>2. SettledAt(sink'[p], results'[p], (Outstanding(p))', jobsSent'[p], b)
          BY <1>2, <2>1, <4>1
      <4> QED BY <1>0, <1>1, <2>1, <3>1, <4>1, <4>2, SameCameTo
    <3>3. CASE p = q /\ RunReap(q)
        BY <1>0, <1>1, <3>1, <3>3, ReapCameTo
    <3>4. CASE p = q /\ (RunStop(q) \/ RunNoJob(q) \/ RunTick(q) \/ RunWoken(q))
      <4>1. UNCHANGED <<trig, taken, active, inflight, jobsSent, results>>
          BY <3>4 DEF RunStop, RunNoJob, RunTick, RunWoken, workerVars
      <4>2. (Outstanding(p))' = Outstanding(p)
          BY <4>1 DEF Outstanding
      <4> QED BY <1>0, <1>1, <1>2, <2>1, <3>1, <4>1, <4>2, SameCameTo
    <3> QED BY <1>4, <2>3, <3>2, <3>3, <3>4 DEF WorkerStep
  <2> QED BY <2>2, <2>3
<1>5. CASE \/ Reconnect \/ Lane \/ Stop \/ JoinAll
           \/ \E q \in Provider : Peer(q) \/ Fault(q) \/ Restore(q)
  <2>1. OtherStep /\ UNCHANGED loopVars
    BY <1>0, <1>5, OthersStep
  <2>2. (Given(p))' = Given(p) /\ trig' = trig /\ taken' = taken
    BY <2>1 DEF loopVars, triggerVars, Given
  <2>3. SettledAt(sink'[p], results'[p], (Outstanding(p))', jobsSent'[p], b)
    BY <1>0, <1>2, <2>1, OtherSettled
  <2>4. (Answered(p, b, FALSE))'
    BY <1>0, <1>1, <2>1, OtherAnswered
  <2> QED BY <1>0, <1>1, <2>2, <2>3, <2>4, SameCameTo
<1>6. CASE UNCHANGED vars
  <2>1. /\ UNCHANGED <<sink, results, jobsSent, active, standby, inflight, resp, trig, taken>>
        /\ (Given(p))' = Given(p)
    BY <1>6 DEF vars, workerVars, threadVars, loopVars, triggerVars, Given
  <2>2. (Outstanding(p))' = Outstanding(p)
    BY <2>1 DEF Outstanding
  <2>3. (Answered(p, b, FALSE))'
    BY <1>0, <1>1, <1>2, <2>1, SameAnswered DEF All
  <2> QED BY <1>0, <1>1, <1>2, <2>1, <2>2, <2>3, SameCameTo
<1> QED
    BY <1>3, <1>4, <1>5, <1>6 DEF Next, Terminated

-----------------------------------------------------------------------------
(* What trigger answers.                                                   *)

\* A job a provider's ring has or its worker has popped.
Has(p, j) == InRing(p, j) \/ j \in taken[p]

\* No step loses a job on its way from trigger to a worker.
LEMMA KeepsJobs ==
    ASSUME TypeOK, [Next]_vars, NEW p \in Provider, NEW j \in Job, Has(p, j)
    PROVE  (Has(p, j))'
<1>0. trig[p] \in Seq(Job)
    BY DEF TypeOK
<1>1. CASE trig'[p] = trig[p] /\ taken'[p] = taken[p]
    BY <1>1 DEF Has, InRing
<1>2. CASE Trigger
  <2>1. taken' = taken /\ fan \in Provider /\ nextJob \in Job
    BY <1>2, MaxJobsAssumption DEF Trigger, TypeOK, Job
  <2>2. CASE p # fan
    BY <1>1, <1>2, <2>1, <2>2, TriggerGiven
  <2>3. CASE p = fan
    <3>1. trig'[p] = trig[p] \/ trig'[p] = Append(trig[p], nextJob)
        BY <1>2, <2>3, TriggerGiven DEF Offer
    <3>2. CASE trig'[p] = Append(trig[p], nextJob)
      <4>1. /\ Len(trig'[p]) = Len(trig[p]) + 1
            /\ \A k \in 1 .. Len(trig[p]) : trig'[p][k] = trig[p][k]
            /\ DOMAIN trig'[p] = 1 .. Len(trig'[p]) /\ DOMAIN trig[p] = 1 .. Len(trig[p])
          BY <1>0, <2>1, <3>2, AppendProperties
      <4>2. \A k \in 1 .. Len(trig[p]) : k \in 1 .. Len(trig'[p])
          BY <1>0, <4>1
      <4> QED BY <2>1, <4>1, <4>2 DEF Has, InRing
    <3> QED BY <1>1, <2>1, <3>1, <3>2
  <2> QED BY <2>2, <2>3
<1>3. ASSUME NEW q \in Provider, WorkerStep(q) PROVE (Has(p, j))'
  <2>1. CASE ~RunSend(q) \/ p # q
    <3>1. trig'[p] = trig[p] /\ taken'[p] = taken[p]
        BY <1>3, <2>1 DEF WorkerStep, RunStop, RunSend, RunNoJob, RunReap, RunTick,
                          RunWoken, TypeOK
    <3> QED BY <1>1, <3>1
  <2>2. CASE RunSend(q) /\ p = q
    <3>1. /\ trig[p] # <<>> /\ trig'[p] = Tail(trig[p])
          /\ taken'[p] = taken[p] \cup {Head(trig[p])}
        BY <2>2 DEF RunSend, TypeOK
    <3>2. CASE j \in taken[p] \/ j = Head(trig[p])
        BY <3>1, <3>2 DEF Has
    <3>3. CASE j \notin taken[p] /\ j # Head(trig[p])
      <4>1. PICK k \in 1 .. Len(trig[p]) : trig[p][k] = j
          BY <1>0, <3>3 DEF Has, InRing
      <4>2. /\ Head(trig[p]) = trig[p][1] /\ Len(trig'[p]) = Len(trig[p]) - 1
            /\ DOMAIN trig'[p] = 1 .. Len(trig'[p])
            /\ \A i \in 1 .. Len(trig'[p]) : trig'[p][i] = trig[p][i + 1]
          BY <1>0, <3>1, HeadTailProperties
      <4>3. k - 1 \in 1 .. Len(trig'[p]) /\ (k - 1) + 1 = k
          BY <1>0, <3>3, <4>1, <4>2
      <4> QED BY <4>1, <4>2, <4>3 DEF Has, InRing
    <3> QED BY <3>2, <3>3
  <2> QED BY <2>1, <2>2
<1>4. CASE \/ Reconnect \/ Lane \/ Stop \/ JoinAll
           \/ \E q \in Provider : Peer(q) \/ Fault(q) \/ Restore(q)
    BY <1>1, <1>4, OthersStep DEF loopVars
<1>5. CASE UNCHANGED vars
    BY <1>1, <1>5 DEF vars, loopVars
<1> QED
    BY <1>2, <1>3, <1>4, <1>5 DEF Next, Terminated

\* Every step keeps the answers of trigger true: of those given, and of the
\* one that the call in progress is about to give.
LEMMA AcceptedStep == PInv /\ [Next]_vars => AcceptedEverywhere' /\ FanOK'
<1> SUFFICES ASSUME PInv, [Next]_vars PROVE AcceptedEverywhere' /\ FanOK'
    OBVIOUS
<1>0. TypeOK /\ accepted \subseteq Job /\ AcceptedEverywhere /\ FanOK
    BY DEF PInv, TypeOK
<1>1. \A p \in Provider, j \in accepted : (Has(p, j))'
    BY <1>0, KeepsJobs DEF AcceptedEverywhere, Has
<1>2. CASE ~Trigger
  <2>1. UNCHANGED <<nextJob, fan, ok, accepted>>
    <3>1. CASE \E p \in Provider : WorkerStep(p)
        BY <3>1 DEF WorkerStep, RunStop, RunSend, RunNoJob, RunReap, RunTick, RunWoken,
                    triggerVars
    <3>2. CASE \/ Reconnect \/ Lane \/ Stop \/ JoinAll
               \/ \E q \in Provider : Peer(q) \/ Fault(q) \/ Restore(q)
        BY <1>0, <3>2, OthersStep DEF loopVars, triggerVars
    <3>3. CASE UNCHANGED vars
        BY <3>3 DEF vars, loopVars, triggerVars
    <3> QED BY <1>2, <3>1, <3>2, <3>3 DEF Next, Terminated
  <2>2. AcceptedEverywhere'
    BY <1>1, <2>1 DEF AcceptedEverywhere, Has
  <2>3. FanOK'
    <3> SUFFICES ASSUME ok, NEW p \in Provider, p < fan
                 PROVE  (Has(p, nextJob))'
        BY <2>1 DEF FanOK, Has
    <3>1. Has(p, nextJob)
        BY <1>0 DEF FanOK, Has
    <3>2. nextJob \in Job
      <4>1. (\E k \in DOMAIN trig[p] : trig[p][k] = nextJob) \/ nextJob \in taken[p]
          BY <3>1 DEF Has, InRing
      <4>2. trig[p] \in Seq(Job) /\ taken[p] \subseteq Job
          BY <1>0 DEF TypeOK
      <4> QED BY <4>1, <4>2
    <3>3. PICK j \in Job : j = nextJob
        BY <3>2
    <3>4. (Has(p, j))'
        BY <1>0, <3>1, <3>3, KeepsJobs
    <3> QED BY <2>1, <3>3, <3>4 DEF Has, InRing
  <2> QED BY <2>2, <2>3
<1>3. CASE Trigger
  <2>0. /\ fan \in Provider /\ fan \in Nat /\ N \in Nat /\ fan < N /\ nextJob \in Job
        /\ trig[fan] \in Seq(Job) /\ ok \in BOOLEAN
    BY <1>0, <1>3, WorkerAssumption, MaxJobsAssumption DEF TypeOK, Trigger, Provider, Job
  <2>1. PICK j \in Job : j = nextJob
    BY <2>0
  <2>2. ASSUME ok, Len(trig[fan]) < TriggerRing, NEW p \in Provider, p <= fan
        PROVE  (Has(p, j))'
    <3>1. CASE p = fan
      <4>1. trig'[p] = Append(trig[p], j) /\ trig[p] \in Seq(Job)
          BY <1>0, <1>3, <2>0, <2>1, <2>2, <3>1, TriggerGiven DEF Offer
      <4>2. /\ DOMAIN trig'[p] = 1 .. Len(trig'[p]) /\ Len(trig'[p]) = Len(trig[p]) + 1
            /\ trig'[p][Len(trig[p]) + 1] = j /\ Len(trig[p]) \in Nat
          BY <4>1, AppendProperties
      <4>3. Len(trig[p]) + 1 \in DOMAIN trig'[p]
          BY <4>2
      <4> QED BY <4>2, <4>3 DEF Has, InRing
    <3>2. CASE p # fan
      <4>1. p < fan
          BY <1>0, <2>0, <2>2, <3>2, Numbers
      <4>2. Has(p, j)
          BY <1>0, <2>1, <2>2, <4>1 DEF FanOK, Has
      <4> QED BY <1>0, <4>2, KeepsJobs
    <3> QED BY <3>1, <3>2
  <2>3. CASE fan + 1 < N
    <3>1. /\ fan' = fan + 1 /\ nextJob' = j /\ accepted' = accepted
          /\ ok' = (ok /\ Len(trig[fan]) < TriggerRing)
        BY <1>3, <2>1, <2>3 DEF Trigger, FanResult
    <3>2. AcceptedEverywhere'
        BY <1>1, <3>1 DEF AcceptedEverywhere, Has
    <3>3. FanOK'
      <4> SUFFICES ASSUME ok', NEW p \in Provider, p < fan' PROVE (Has(p, nextJob))'
          BY DEF FanOK, Has
      <4>1. p <= fan
          BY <1>0, <2>0, <3>1, Numbers
      <4>2. (Has(p, j))'
          BY <2>2, <3>1, <4>1
      <4> QED BY <3>1, <4>2 DEF Has, InRing
    <3> QED BY <3>2, <3>3
  <2>4. CASE ~(fan + 1 < N)
    <3>1. /\ fan' = 0
          /\ accepted' = IF ok /\ Len(trig[fan]) < TriggerRing THEN accepted \cup {j} ELSE accepted
        BY <1>3, <2>1, <2>4 DEF Trigger, FanResult
    <3>2. ASSUME NEW p \in Provider PROVE p <= fan /\ ~(p < 0)
        BY <1>0, <2>0, <2>4, Numbers
    <3>3. FanOK'
        BY <3>1, <3>2 DEF FanOK
    <3>4. ASSUME NEW p \in Provider, NEW i \in accepted' PROVE (Has(p, i))'
      <4>1. CASE i \in accepted
          BY <1>1, <4>1
      <4>2. CASE i \notin accepted
        <5>1. i = j /\ ok /\ Len(trig[fan]) < TriggerRing
            BY <3>1, <4>2
        <5> QED BY <2>2, <3>2, <5>1
      <4> QED BY <4>1, <4>2
    <3>5. AcceptedEverywhere'
        BY <3>4 DEF AcceptedEverywhere, Has
    <3> QED BY <3>3, <3>5
  <2> QED BY <2>3, <2>4
<1> QED BY <1>2, <1>3

-----------------------------------------------------------------------------
(* The theorems.                                                           *)

(* PInv holds in every state of the parallel engine, whatever fails.       *)
THEOREM Invariance == Spec => []PInv
<1>1. PInv /\ [Next]_vars => PInv'
  <2> SUFFICES ASSUME PInv, [Next]_vars PROVE PInv'
    OBVIOUS
  <2>1. TypeOK'
    BY TypeStep DEF PInv
  <2>2. StandbyForgets' /\ AcceptedEverywhere' /\ FanOK'
    BY ForgetsStep, AcceptedStep
  <2>3. \A p \in Provider : \E b \in Nat : (CameTo(p, b))' /\ (Answered(p, b, FALSE))'
    BY CameToStep
  <2> QED BY <2>1, <2>2, <2>3 DEF PInv
<1> QED
    BY InitPInv, <1>1, PTL DEF Spec

(* Every ring and channel of the parallel engine stays within its          *)
(* capacity, and every variable within its type, for any number of workers *)
(* and of jobs.                                                            *)
THEOREM TypeCorrect == Spec => []TypeOK
<1>1. PInv => TypeOK
    BY DEF PInv
<1> QED
    BY Invariance, <1>1, PTL

(* trigger answers Ok only if every provider's ring took the job: a full   *)
(* ring among many is never reported as success, and no job is lost        *)
(* between trigger and a worker, in whatever order workers pop.            *)
THEOREM AcceptedCorrect == Spec => []AcceptedEverywhere
<1>1. PInv => AcceptedEverywhere
    BY DEF PInv
<1> QED
    BY Invariance, <1>1, PTL

(* Of each worker, outcomes are delivered in the order of the jobs and no  *)
(* job has two, although full rings make each worker skip jobs of its own. *)
THEOREM OrderCorrect == Spec => []OutcomesInOrder
<1>1. PInv => OutcomesInOrder
    BY DEF PInv, CameTo, SettledAt, InOrder, OutcomesInOrder
<1> QED
    BY Invariance, <1>1, PTL

(* Of each worker, a response is reported at most once and never for a job *)
(* older than the one it answers, although the jobs a full ring drops make *)
(* every worker's jobs a different sequence.                               *)
THEOREM ReportedCorrect == Spec => []ResponsesReportedOnce
<1>1. ASSUME PInv PROVE ResponsesReportedOnce
  <2>1. WorkerTypeOK /\ ThreadsTypeOK
    BY <1>1 DEF PInv, TypeOK
  <2>2. \A p \in Provider : sink[p] \in Seq(Outcome) /\ results[p] \in Seq(Outcome)
                            /\ Reported(All(p))
    BY <1>1, <2>1, AnsweredTypes DEF PInv, Answered
  <2> QED BY <2>2, ReportedOnce
<1> QED
    BY Invariance, <1>1, PTL

-----------------------------------------------------------------------------
(* Failovers.                                                              *)

\* Every step keeps closed QUIC connections ones whose peer is gone.
LEMMA GoneNext == PInv /\ ClosedAreGone /\ [Next]_vars => ClosedAreGone'
<1> SUFFICES ASSUME PInv, ClosedAreGone, [Next]_vars PROVE ClosedAreGone'
    OBVIOUS
<1>0. TypeOK /\ WorkerTypeOK /\ ThreadsTypeOK /\ StandbyForgets
    BY DEF PInv, TypeOK
<1>1. CASE UNCHANGED <<active, standby, resp>>
    BY <1>1, GoneStep
<1>2. ASSUME NEW p \in Provider, WorkerStep(p) PROVE ClosedAreGone'
  <2>1. CASE RunSend(p)
    <3>1. Head(trig[p]) \in Job
        BY <1>0, <2>1, HeadTailProperties DEF RunSend, TypeOK
    <3> QED BY <1>0, <2>1, <3>1, SendToGone DEF RunSend
  <2>2. CASE RunReap(p)
    BY <1>0, <2>2, DriveReapGone DEF RunReap
  <2>3. CASE RunTick(p) \/ RunWoken(p)
    <3>1. {p} \in SUBSET Provider
        OBVIOUS
    <3> QED BY <1>0, <1>1, <2>3, <3>1, CheckStandbyGone DEF RunTick, RunWoken
  <2>4. CASE RunStop(p) \/ RunNoJob(p)
    BY <1>1, <2>4 DEF RunStop, RunNoJob, workerVars
  <2> QED BY <1>2, <2>1, <2>2, <2>3, <2>4 DEF WorkerStep
<1>3. CASE Trigger \/ UNCHANGED vars
    BY <1>1, <1>3 DEF Trigger, vars, workerVars
<1>4. CASE \/ Reconnect \/ Lane \/ Stop \/ JoinAll
           \/ \E p \in Provider : Peer(p) \/ Fault(p) \/ Restore(p)
    BY <1>0, <1>4, OthersStep, OtherGone
<1> QED
    BY <1>2, <1>3, <1>4 DEF Next, Terminated

\* No step fails over from a connection that is up.
LEMMA FailoverStep ==
    ASSUME PInv, ClosedAreGone, [Next]_vars, NEW p \in Provider, FailsOver(p)
    PROVE  active[p].sock # "up"
<1>0. TypeOK /\ WorkerTypeOK
    BY DEF PInv, TypeOK
<1>1. CASE reqs' = reqs /\ (active' = active \/ standby' = standby)
    BY <1>0, <1>1, NoFailover
<1>2. ASSUME NEW q \in Provider, RunSend(q) PROVE active[p].sock # "up"
  <2>1. Head(trig[q]) \in Job
    BY <1>0, <1>2, HeadTailProperties DEF RunSend, TypeOK
  <2>2. Failover(q)
    BY <1>0, <1>2, <2>1, SendToFailover DEF RunSend
  <2> QED BY <1>0, <2>2, FailoverIsOwn
<1>3. ASSUME NEW q \in Provider, RunReap(q) PROVE active[p].sock # "up"
  <2>1. Failover(q)
    BY <1>0, <1>3, DriveReapFailover DEF RunReap
  <2> QED BY <1>0, <2>1, FailoverIsOwn
<1>4. ASSUME NEW q \in Provider, RunStop(q) \/ RunNoJob(q) \/ RunTick(q) \/ RunWoken(q)
      PROVE  reqs' = reqs /\ active' = active
    BY <1>4 DEF RunStop, RunNoJob, RunTick, RunWoken, workerVars
<1>5. CASE Trigger \/ UNCHANGED vars
    BY <1>1, <1>5 DEF Trigger, vars, workerVars
<1>6. CASE \/ Reconnect \/ Lane \/ Stop \/ JoinAll
           \/ \E q \in Provider : Peer(q) \/ Fault(q) \/ Restore(q)
    BY <1>0, <1>6, OthersStep, OtherFailover
<1> QED
    BY <1>1, <1>2, <1>3, <1>4, <1>5, <1>6 DEF Next, Terminated, WorkerStep

(* No worker gives up an active connection whose peer is there, whatever   *)
(* the others ask the reconnect thread for.                                *)
THEOREM FailoverJustified == Spec => NoSpuriousFailover
<1> DEFINE A == \A p \in Provider : FailsOver(p) => active[p].sock # "up"
<1>1. Init => ClosedAreGone
    BY WorkerAssumption DEF Init, WorkerInit, ClosedAreGone, ClosedIsGone, FreshConn
<1>2. PInv /\ ClosedAreGone /\ [Next]_vars => ClosedAreGone'
    BY GoneNext
<1>3. PInv /\ ClosedAreGone /\ [Next]_vars => [A]_vars
    BY FailoverStep
<1> QED
    BY <1>1, <1>2, <1>3, Invariance, PTL DEF Spec, NoSpuriousFailover

-----------------------------------------------------------------------------
(* The engine implements Delivery.  The jobs given are those trigger has   *)
(* begun to push, an outcome is pending in a result ring and delivered in  *)
(* the sink.                                                               *)

\* The jobs Delivery takes for given.
Begun == IF fan = 0 THEN nextJob - 1 ELSE nextJob

\* A step that neither begins a job nor touches an outcome stutters.
LEMMA Stutter ==
    ASSUME UNCHANGED <<Begun, results, sink>>
    PROVE  [D!Next]_(D!vars)
BY DEF Begun, D!vars

\* An outcome after everything provider p has settled is one Delivery
\* lets it settle.
LEMMA MaySettle ==
    ASSUME PInv, NEW p \in Provider, NEW o \in Outcome,
           Outstanding(p) # NoJob, o.job = Outstanding(p)
    PROVE  /\ o.job <= Begun
           /\ D!Follows(o, results[p]) /\ D!Follows(o, sink[p])
<1>1. PICK b \in Nat : CameTo(p, b)
    BY DEF PInv
<1>2. /\ p \in Nat /\ fan \in Nat /\ nextJob \in Nat /\ Given(p) \in Nat
      /\ Outstanding(p) \in Nat
    BY Numbers DEF PInv
<1>3. Given(p) <= Begun /\ Begun \in Nat
    BY <1>2 DEF Given, Begun
<1>4. Outstanding(p) <= b /\ b <= Given(p)
    BY <1>1 DEF CameTo, SettledAt
<1>5. o.job <= Begun
    BY <1>2, <1>3, <1>4
<1>6. AllBelow(sink[p], o.job) /\ AllBelow(results[p], o.job)
    BY <1>1 DEF CameTo, SettledAt, InOrder
<1> QED
    BY <1>5, <1>6 DEF AllBelow, D!Follows

\* A worker's reap settles the job in flight, or stutters: nothing was
\* settled, or the result ring was full.
LEMMA ReapRefines ==
    ASSUME PInv, NEW q \in Provider, RunReap(q)
    PROVE  [D!Next]_(D!vars)
<1>1. WorkerTypeOK /\ StandbyForgets /\ TypeOK
    BY DEF PInv, TypeOK
<1>2. /\ UNCHANGED <<resp, sink>> /\ Begun' = Begun /\ DriveReap(q)
      /\ results' \in [Provider -> Seq(Outcome)]
  <2>1. TypeOK'
    BY <1>1, WorkerTypes DEF WorkerStep
  <2> QED
    BY <2>1 DEF RunReap, threadVars, triggerVars, Begun, TypeOK, WorkerTypeOK
<1>3. /\ Only(q)
      /\ \/ results'[q] = results[q]
         \/ /\ Outstanding(q) # NoJob
            /\ \E o \in Outcome : /\ o.job = Outstanding(q)
                                  /\ results'[q] = Offer(results[q], ResultRing, o)
    BY <1>1, <1>2, DriveReapEffect
<1>4. results \in [Provider -> Seq(Outcome)]
    BY <1>1 DEF WorkerTypeOK
<1>5. results' = [results EXCEPT ![q] = results'[q]]
    BY <1>2, <1>3, <1>4 DEF Only
<1>6. CASE results'[q] = results[q]
  <2>1. results' = results
    BY <1>4, <1>5, <1>6
  <2> QED
    BY <1>2, <2>1, Stutter
<1>7. ASSUME NEW o \in Outcome, Outstanding(q) # NoJob, o.job = Outstanding(q),
             results'[q] = Offer(results[q], ResultRing, o), results'[q] # results[q]
      PROVE  D!Next
  <2>1. results'[q] = Append(results[q], o)
    BY <1>7 DEF Offer
  <2>2. results' = [results EXCEPT ![q] = Append(results[q], o)]
    BY <1>5, <2>1
  <2>3. D!Settle(q, o)
    BY <1>2, <1>7, <2>2, MaySettle DEF D!Settle, Begun
  <2> QED
    BY <1>7, <2>3 DEF D!Next
<1> QED
    BY <1>3, <1>6, <1>7

\* The first push of a trigger call gives Delivery its job; the others,
\* and a first one that is also the last, are no more than that.
LEMMA TriggerRefines ==
    ASSUME PInv, Trigger
    PROVE  [D!Next]_(D!vars)
<1>1. fan \in Nat /\ nextJob \in Nat /\ N \in Nat
    BY MaxJobsAssumption, WorkerAssumption DEF PInv, TypeOK, Provider
<1>2. UNCHANGED <<results, sink>>
    BY DEF Trigger, workerVars, threadVars
<1>3. \/ fan' = fan + 1 /\ nextJob' = nextJob
      \/ fan' = 0 /\ nextJob' = nextJob + 1
    BY DEF Trigger
<1>4. CASE fan = 0
  <2>1. Begun' = Begun + 1
    BY <1>1, <1>3, <1>4 DEF Begun
  <2> QED
    BY <1>2, <2>1 DEF D!Give, D!Next, Begun
<1>5. CASE fan # 0
  <2>1. Begun' = Begun
    BY <1>1, <1>3, <1>5 DEF Begun
  <2> QED
    BY <1>2, <2>1, Stutter
<1> QED BY <1>4, <1>5

\* Every step of the engine is one of Delivery or a stutter.
LEMMA DeliveryStep == PInv /\ [Next]_vars => [D!Next]_(D!vars)
<1> SUFFICES ASSUME PInv, [Next]_vars PROVE [D!Next]_(D!vars)
    OBVIOUS
<1>0. TypeOK /\ WorkerTypeOK /\ ThreadsTypeOK /\ StandbyForgets
    BY DEF PInv, TypeOK
<1>1. CASE Trigger
    BY <1>1, TriggerRefines
<1>2. ASSUME NEW p \in Provider, WorkerStep(p) PROVE [D!Next]_(D!vars)
  <2>1. CASE RunReap(p)
    BY <2>1, ReapRefines
  <2>2. sink' = sink /\ Begun' = Begun
    BY <1>2 DEF WorkerStep, RunStop, RunSend, RunNoJob, RunReap, RunTick, RunWoken,
                threadVars, triggerVars, Begun
  <2>3. CASE RunSend(p)
    <3>1. results' = results
        BY <2>3 DEF RunSend, SendTo
    <3> QED BY <2>2, <3>1, Stutter
  <2>4. CASE RunStop(p) \/ RunNoJob(p) \/ RunTick(p) \/ RunWoken(p)
    <3>1. results' = results
        BY <2>4 DEF RunStop, RunNoJob, RunTick, RunWoken, workerVars
    <3> QED BY <2>2, <3>1, Stutter
  <2> QED BY <1>2, <2>1, <2>3, <2>4 DEF WorkerStep
<1>3. CASE Lane
  <2>1. Begun' = Begun /\ lidx \in Provider
    BY <1>0, <1>3 DEF Lane, loopVars, triggerVars, ThreadsTypeOK, Begun
  <2>2. CASE LanePop
    <3>1. D!Deliver(lidx)
        BY <2>1, <2>2 DEF LanePop, D!Deliver, Begun
    <3>2. results[lidx] \in Seq(Outcome) /\ results \in [Provider -> Seq(Outcome)]
        BY <1>0, <2>1 DEF WorkerTypeOK
    <3>3. results'[lidx] = Tail(results[lidx]) /\ results[lidx] # <<>>
        BY <2>1, <2>2, <3>2 DEF LanePop
    <3>4. results' # results
        BY <3>2, <3>3, TailShorter
    <3> QED BY <2>1, <3>1, <3>4 DEF D!Next
  <2>3. CASE LaneAdvance
    BY <2>1, <2>3, Stutter DEF LaneAdvance
  <2> QED BY <1>3, <2>2, <2>3 DEF Lane, LaneStep
<1>4. CASE Reconnect \/ Stop \/ JoinAll
  <2>1. UNCHANGED <<nextJob, fan, results, sink>>
    BY <1>4 DEF Reconnect, ReconnectStep, Stop, Shutdown, JoinAll, Join,
                workerVars, laneVars, loopVars, triggerVars
  <2>2. Begun' = Begun
    BY <2>1 DEF Begun
  <2> QED BY <2>1, <2>2, Stutter
<1>5. ASSUME NEW p \in Provider, Peer(p) \/ Fault(p) \/ Restore(p)
      PROVE  [D!Next]_(D!vars)
  <2>1. UNCHANGED <<nextJob, fan, results, sink>>
    BY <1>5 DEF Peer, Respond, QuicTime, Fault, Break, NetDown, Restore, NetRestore,
                workerVars, threadVars, laneVars, loopVars, triggerVars
  <2>2. Begun' = Begun
    BY <2>1 DEF Begun
  <2> QED BY <2>1, <2>2, Stutter
<1>6. CASE UNCHANGED vars
  <2>1. UNCHANGED <<nextJob, fan, results, sink>>
    BY <1>6 DEF vars, workerVars, threadVars, loopVars, triggerVars
  <2>2. Begun' = Begun
    BY <2>1 DEF Begun
  <2> QED BY <2>1, <2>2, Stutter
<1> QED
    BY <1>1, <1>2, <1>3, <1>4, <1>5, <1>6 DEF Next, Terminated

(* The parallel engine implements what a Sender promises about outcomes,   *)
(* though a full ring keeps a job from one provider and not from another:  *)
(* each provider settles jobs trigger has offered it, in order and each at *)
(* most once, and they reach the sink in that order.                       *)
THEOREM DeliveryImplemented == Spec => ImplementsDelivery
<1>1. Init => D!Init
    BY DEF Init, WorkerInit, ThreadsInit, D!Init
<1>2. PInv /\ [Next]_vars => [D!Next]_(D!vars)
    BY DeliveryStep
<1> QED
    BY <1>1, <1>2, Invariance, PTL DEF Spec, ImplementsDelivery, D!Spec

=============================================================================
