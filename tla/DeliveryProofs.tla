-------------------------- MODULE DeliveryProofs ---------------------------
(* The sequential engine implements Delivery, for every number of          *)
(* providers and of jobs, every choice of protocol per provider, every     *)
(* capacity and any number of failures.  The refinement mapping is that of *)
(* module Sequential: the jobs given are those triggered, an outcome is    *)
(* pending in the result ring and delivered in the sink.                   *)
EXTENDS SequentialProofs

\* A step that neither triggers a job nor touches an outcome stutters.
LEMMA Stutter ==
    ASSUME UNCHANGED <<nextJob, results, sink>>
    PROVE  [D!Next]_(D!vars)
BY DEF D!vars

\* An initial state of the engine is one of Delivery.
LEMMA DeliveryInit == Init => D!Init
BY DEF Init, WorkerInit, ThreadsInit, D!Init

\* An outcome after everything provider p has settled is one Delivery
\* lets it settle.
LEMMA MaySettle ==
    ASSUME IInv, NEW p \in Provider, NEW o \in Outcome,
           Outstanding(p) # NoJob, o.job = Outstanding(p)
    PROVE  /\ o.job <= nextJob - 1
           /\ D!Follows(o, results[p]) /\ D!Follows(o, sink[p])
<1>1. /\ sink[p] \in Seq(Outcome) /\ results[p] \in Seq(Outcome)
    BY DEF IInv, TypeOK, WorkerTypeOK, ThreadsTypeOK
<1>2. /\ SettledAt(sink[p], results[p], Outstanding(p), jobsSent[p], Bound(p))
    BY DEF IInv, Settled
<1>3. Outstanding(p) \in Nat /\ Bound(p) \in Nat
    BY OutstandingType DEF IInv
<1>4. cur \in Nat /\ nextJob = cur + Len(trig) + 1 /\ Len(trig) \in Nat
    BY MaxJobsAssumption DEF IInv, TypeOK, TriggersInOrder, Job, NoJob
<1>5. Bound(p) <= cur
    BY <1>4 DEF Bound
<1>6. o.job <= nextJob - 1
    BY <1>2, <1>3, <1>4, <1>5 DEF SettledAt
<1>7. AllBelow(sink[p], o.job) /\ AllBelow(results[p], o.job)
    BY <1>2 DEF SettledAt, InOrder
<1> QED
    BY <1>6, <1>7 DEF AllBelow, D!Follows

\* drive_reap settles the job in flight, or stutters: nothing was settled,
\* or the result ring was full.
LEMMA ReapRefines ==
    ASSUME IInv, RunReap
    PROVE  [D!Next]_(D!vars)
<1>1. /\ WorkerTypeOK /\ ThreadsTypeOK /\ StandbyForgets /\ idx \in Provider
    BY DEF IInv, TypeOK
<1>2. UNCHANGED <<resp, sink, nextJob>> /\ results' \in [Provider -> Seq(Outcome)]
  <2>1. TypeOK'
    BY TypeStep DEF Next, WorkerStep
  <2> QED
    BY <2>1 DEF RunReap, NextProvider, threadVars, TypeOK, WorkerTypeOK
<1>3. PICK q \in Provider : q = idx
    BY <1>1
<1>4. DriveReap(q)
    BY <1>3 DEF RunReap
<1>5. /\ Only(q)
      /\ \/ results'[q] = results[q]
         \/ /\ Outstanding(q) # NoJob
            /\ \E o \in Outcome : /\ o.job = Outstanding(q)
                                  /\ results'[q] = Offer(results[q], ResultRing, o)
    BY <1>1, <1>2, <1>4, DriveReapEffect
<1>6. results \in [Provider -> Seq(Outcome)]
    BY <1>1 DEF WorkerTypeOK
<1>7. results' = [results EXCEPT ![q] = results'[q]]
    BY <1>2, <1>5, <1>6 DEF Only
<1>8. CASE results'[q] = results[q]
  <2>1. results' = results
    BY <1>6, <1>7, <1>8
  <2> QED
    BY <1>2, <2>1, Stutter
<1>9. ASSUME NEW o \in Outcome, Outstanding(q) # NoJob, o.job = Outstanding(q),
             results'[q] = Offer(results[q], ResultRing, o), results'[q] # results[q]
      PROVE  D!Next
  <2>1. results'[q] = Append(results[q], o)
    BY <1>9 DEF Offer
  <2>2. results' = [results EXCEPT ![q] = Append(results[q], o)]
    BY <1>7, <2>1
  <2>3. D!Settle(q, o)
    BY <1>2, <1>9, <2>2, MaySettle DEF D!Settle
  <2> QED
    BY <1>9, <2>3 DEF D!Next
<1> QED
    BY <1>5, <1>8, <1>9

\* Every step of the engine is one of Delivery or a stutter.
LEMMA DeliveryStep == IInv /\ [Next]_vars => [D!Next]_(D!vars)
<1> SUFFICES ASSUME IInv, [Next]_vars PROVE [D!Next]_(D!vars)
    OBVIOUS
<1>1. CASE Trigger
  <2>1. nextJob \in Nat
    BY MaxJobsAssumption DEF IInv, TypeOK
  <2>2. D!Give
    BY <1>1, <2>1 DEF Trigger, D!Give, workerVars, threadVars
  <2> QED BY <2>2 DEF D!Next
<1>2. CASE RunReap
    BY <1>2, ReapRefines
<1>3. CASE RunTop \/ RunSend \/ RunDrive \/ RunTick \/ RunWoken
  <2>1. UNCHANGED <<nextJob, sink>>
    BY <1>3 DEF RunTop, RunSend, NextProvider, RunDrive, RunTick, RunWoken, threadVars
  <2>2. CASE RunSend
    <3>1. SendTo(idx, cur) /\ cur \in Job /\ UNCHANGED resp /\ WorkerTypeOK /\ StandbyForgets
        BY <2>2 DEF RunSend, NextProvider, IInv, TypeOK, TriggersInOrder
    <3>2. PICK q \in Provider, j \in Job : q = idx /\ j = cur
        BY <3>1 DEF IInv, TypeOK
    <3>3. results' = results
        BY <3>1, <3>2, SendToEffect
    <3> QED BY <2>1, <3>3, Stutter
  <2>3. CASE ~RunSend
    <3>1. results' = results
        BY <1>3, <2>3 DEF RunTop, RunDrive, RunTick, RunWoken, workerVars
    <3> QED BY <2>1, <3>1, Stutter
  <2> QED BY <2>2, <2>3
<1>4. CASE Lane
  <2>1. nextJob' = nextJob /\ lidx \in Provider
    BY <1>4 DEF Lane, loopVars, IInv, TypeOK, ThreadsTypeOK
  <2>2. CASE LanePop
    <3>1. D!Deliver(lidx)
        BY <2>1, <2>2 DEF LanePop, D!Deliver
    <3>2. results[lidx] \in Seq(Outcome) /\ results \in [Provider -> Seq(Outcome)]
        BY <2>1 DEF IInv, TypeOK, WorkerTypeOK
    <3>3. results'[lidx] = Tail(results[lidx]) /\ results[lidx] # <<>>
        BY <2>1, <2>2, <3>2 DEF LanePop
    <3>4. results' # results
        BY <3>2, <3>3, TailShorter
    <3> QED BY <2>1, <3>1, <3>4 DEF D!Next
  <2>3. CASE LaneAdvance
    BY <2>1, <2>3, Stutter DEF LaneAdvance
  <2> QED BY <1>4, <2>2, <2>3 DEF Lane, LaneStep
<1>5. CASE Reconnect \/ Stop \/ JoinAll
  <2>1. UNCHANGED <<nextJob, results, sink>>
    BY <1>5 DEF Reconnect, ReconnectStep, Stop, Shutdown, JoinAll, Join,
                workerVars, laneVars, loopVars
  <2> QED BY <2>1, Stutter
<1>6. ASSUME NEW p \in Provider, Peer(p) \/ Fault(p) \/ Restore(p)
      PROVE  [D!Next]_(D!vars)
  <2>1. UNCHANGED <<nextJob, results, sink>>
    BY <1>6 DEF Peer, Respond, QuicTime, Fault, Break, NetDown, Restore, NetRestore,
                workerVars, threadVars, laneVars, loopVars
  <2> QED BY <2>1, Stutter
<1>7. CASE UNCHANGED vars
  <2>1. UNCHANGED <<nextJob, results, sink>>
    BY <1>7 DEF vars, workerVars, threadVars, loopVars
  <2> QED BY <2>1, Stutter
<1> QED
    BY <1>1, <1>2, <1>3, <1>4, <1>5, <1>6, <1>7 DEF Next, WorkerStep, Terminated

(* The sequential engine implements what a Sender promises about outcomes: *)
(* whatever fails, times out, fails over or is dropped at a full ring,     *)
(* what is settled are triggered jobs, in order, each at most once, and it *)
(* is handed to the sink in that order.                                    *)
THEOREM DeliveryImplemented == Spec => ImplementsDelivery
<1>1. Init => D!Init
    BY DeliveryInit
<1>2. IInv /\ [Next]_vars => [D!Next]_(D!vars)
    BY DeliveryStep
<1> QED
    BY <1>1, <1>2, Invariance, PTL DEF Spec, ImplementsDelivery, D!Spec

=============================================================================
