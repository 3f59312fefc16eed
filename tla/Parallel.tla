------------------------------ MODULE Parallel ------------------------------
(***************************************************************************)
(* The parallel engine: one ParWorker thread per provider                  *)
(* (src/transport/parallel.rs), each with a trigger ring of its own, which *)
(* Sender::trigger fills one after the other.  The workers share only the  *)
(* reconnect request channel; the reconnect thread, the result lane,       *)
(* shutdown and the network are those of Threads, and the handlers those   *)
(* of Worker, because ParWorker's send_to, reap, do_failover,              *)
(* check_standby_delivery and publish_diag are SequentialWorker's for one  *)
(* provider.                                                               *)
(***************************************************************************)
EXTENDS Threads

CONSTANTS
    TriggerRing,   \* capacity of a trigger ring (TRIGGER_RING)
    Period         \* PERIODIC_MASK + 1 loop rounds between periodic work

ASSUME ParallelAssumption ==
    /\ TriggerRing \in Nat \ {0}
    /\ Period \in Nat \ {0}

VARIABLES
    trig,       \* the trigger ring of each worker
    nextJob,    \* the job of the trigger call in progress, or of the next one
    fan,        \* trigger: the ring it is about to push to; 0 also if idle
    ok,         \* trigger: every push so far has succeeded
    accepted,   \* the jobs for which trigger answered Ok
    pc,         \* where each worker's run is
    tick,       \* ParWorker.tick, modulo Period
    taken       \* the jobs each worker has popped

triggerVars == <<nextJob, fan, ok, accepted>>
loopVars    == <<trig, triggerVars, pc, tick, taken>>
vars        == <<workerVars, threadVars, loopVars>>

TypeOK ==
    /\ WorkerTypeOK
    /\ ThreadsTypeOK
    /\ trig \in [Provider -> Seq(Job)]
    /\ \A p \in Provider : Len(trig[p]) <= TriggerRing
    /\ nextJob \in 1 .. MaxJobs + 1
    /\ fan \in Provider
    /\ ok \in BOOLEAN
    /\ accepted \subseteq Job
    /\ pc \in [Provider -> {"top", "reap", "tick", "woken", "done"}]
    /\ tick \in [Provider -> 0 .. Period - 1]
    /\ taken \in [Provider -> SUBSET Job]

Init ==
    /\ WorkerInit
    /\ ThreadsInit
    /\ trig = [p \in Provider |-> <<>>]
    /\ nextJob = 1 /\ fan = 0 /\ ok = TRUE /\ accepted = {}
    /\ pc = [p \in Provider |-> "top"]
    /\ tick = [p \in Provider |-> 0]
    /\ taken = [p \in Provider |-> {}]

-----------------------------------------------------------------------------
(* Sender::trigger, Dispatch::Fanout: one try_push per ring.  A full ring  *)
(* makes the answer Backpressure and the loop goes on: the other rings     *)
(* keep the job.  Jobs are numbered in the order the caller triggers them. *)

\* Mutant: only the last push decides the answer.
FanResult_Last(pushed) == pushed

\* if tx.try_push(job).is_err() { ok = false; }
FanResult(pushed) == ok /\ pushed

\* Mutant: trigger waits for space in the ring.
Trigger_Blocking ==
    /\ ~stop /\ nextJob <= MaxJobs
    /\ Len(trig[fan]) < TriggerRing
    /\ trig' = [trig EXCEPT ![fan] = Append(trig[fan], nextJob)]
    /\ IF fan + 1 < N
       THEN fan' = fan + 1 /\ UNCHANGED <<nextJob, ok, accepted>>
       ELSE /\ fan' = 0 /\ ok' = TRUE
            /\ nextJob' = nextJob + 1
            /\ accepted' = accepted \cup {nextJob}
    /\ UNCHANGED <<workerVars, threadVars, pc, tick, taken>>

Trigger ==
    /\ ~stop /\ nextJob <= MaxJobs
    /\ trig' = [trig EXCEPT ![fan] = Offer(trig[fan], TriggerRing, nextJob)]
    /\ LET res == FanResult(Len(trig[fan]) < TriggerRing)
       IN  IF fan + 1 < N
           THEN /\ fan' = fan + 1 /\ ok' = res
                /\ UNCHANGED <<nextJob, accepted>>
           ELSE /\ fan' = 0 /\ ok' = TRUE
                /\ nextJob' = nextJob + 1
                /\ accepted' = IF res THEN accepted \cup {nextJob} ELSE accepted
    /\ UNCHANGED <<workerVars, threadVars, pc, tick, taken>>

-----------------------------------------------------------------------------
(* ParWorker::run                                                          *)

Goto(p, from, to) == pc[p] = from /\ pc' = [pc EXCEPT ![p] = to]

\* The head of the loop, on stop.
RunStop(p) ==
    /\ stop /\ Goto(p, "top", "done")
    /\ UNCHANGED <<workerVars, threadVars, trig, triggerVars, tick, taken>>

\* The head of the loop: pop a job and send it.
RunSend(p) ==
    /\ ~stop /\ Goto(p, "top", "reap")
    /\ trig[p] # <<>>
    /\ trig' = [trig EXCEPT ![p] = Tail(trig[p])]
    /\ taken' = [taken EXCEPT ![p] = taken[p] \cup {Head(trig[p])}]
    /\ SendTo(p, Head(trig[p]))
    /\ UNCHANGED <<diag, resp, threadVars, triggerVars, tick>>

\* The head of the loop: the ring is empty.
RunNoJob(p) ==
    /\ ~stop /\ Goto(p, "top", "reap")
    /\ trig[p] = <<>>
    /\ UNCHANGED <<workerVars, threadVars, trig, triggerVars, tick, taken>>

RunReap(p) ==
    /\ Goto(p, "reap", "tick")
    /\ DriveReap(p)
    /\ UNCHANGED <<diag, resp, threadVars, trig, triggerVars, tick, taken>>

\* tick, the periodic work, and if trigger.is_empty() { idle_wait }, which
\* returns at its deadline at the latest (module Spsc).
RunTick(p) ==
    /\ Goto(p, "tick", IF trig[p] = <<>> THEN "woken" ELSE "top")
    /\ tick' = [tick EXCEPT ![p] = (tick[p] + 1) % Period]
    /\ IF tick'[p] = 0 THEN CheckStandby({p}) /\ PublishDiag({p})
                       ELSE UNCHANGED <<standby, resp, diag>>
    /\ UNCHANGED <<active, inflight, jobsSent, results, reqs>>
    /\ UNCHANGED <<threadVars, trig, triggerVars, taken>>

\* What follows idle_wait.
RunWoken(p) ==
    /\ Goto(p, "woken", "top")
    /\ CheckStandby({p}) /\ PublishDiag({p})
    /\ UNCHANGED <<active, inflight, jobsSent, results, reqs>>
    /\ UNCHANGED <<threadVars, trig, triggerVars, tick, taken>>

WorkerStep(p) ==
    RunStop(p) \/ RunSend(p) \/ RunNoJob(p) \/ RunReap(p) \/ RunTick(p) \/ RunWoken(p)

-----------------------------------------------------------------------------
Reconnect == ReconnectStep /\ UNCHANGED loopVars
Lane      == LaneStep /\ UNCHANGED loopVars

\* shutdown consumes the Sender: no trigger call is in progress.
Stop == fan = 0 /\ Shutdown /\ UNCHANGED loopVars

JoinAll == Join(\A p \in Provider : pc[p] = "done") /\ UNCHANGED loopVars

Peer(p)    == (Respond(p) \/ QuicTime(p)) /\ UNCHANGED loopVars
Fault(p)   == (Break(p) \/ NetDown(p)) /\ UNCHANGED loopVars
Restore(p) == NetRestore(p) /\ UNCHANGED loopVars

Terminated == joined /\ UNCHANGED vars

Next ==
    \/ Trigger
    \/ \E p \in Provider : WorkerStep(p) \/ Peer(p) \/ Fault(p) \/ Restore(p)
    \/ Reconnect
    \/ Lane
    \/ Stop
    \/ JoinAll
    \/ Terminated

Spec == Init /\ [][Next]_vars

\* The caller runs on once it is inside trigger.
TriggerRuns == WF_vars(fan # 0 /\ Trigger)

(* Fairness of every thread but the workers, and of the environment, as in *)
(* module Sequential.                                                      *)
OtherFairness ==
    /\ TriggerRuns /\ WF_vars(Reconnect) /\ WF_vars(Lane) /\ WF_vars(JoinAll)
    /\ \A p \in Provider : WF_vars(Peer(p)) /\ WF_vars(Restore(p))

FairSpec == Spec /\ OtherFairness /\ \A p \in Provider : WF_vars(WorkerStep(p))

\* Any worker may stop for good anywhere in its loop, as it does in submit
\* when its provider no longer reads and the socket buffer is full.
StallSpec == Spec /\ OtherFairness

-----------------------------------------------------------------------------
(* Properties of this engine, beside those of Threads.                     *)

InRing(p, j) == \E k \in DOMAIN trig[p] : trig[p][k] = j

(* A job for which trigger answered Ok is in every provider's ring or has  *)
(* been taken from it: one full ring among many is never reported as       *)
(* success.                                                                *)
AcceptedEverywhere ==
    \A j \in accepted, p \in Provider : InRing(p, j) \/ j \in taken[p]

(* A worker gives up its active connection only when its peer is gone,     *)
(* though all workers ask for rebuilds through one channel.                *)
NoSpuriousFailover ==
    [][\A p \in Provider : FailsOver(p) => active[p].sock # "up"]_vars

(* The engine delivers what a Sender promises (module Delivery), though    *)
(* the rings of a Fanout take different jobs: a job is accepted for the    *)
(* providers whose push succeeded as soon as trigger comes to them.        *)
D == INSTANCE Delivery WITH given <- IF fan = 0 THEN nextJob - 1 ELSE nextJob,
                            pending <- results, delivered <- sink

ImplementsDelivery == D!Spec

(* README: trigger "is a non-blocking SPSC push; the network never touches *)
(* the calling thread".  A call that has begun returns, also when a worker *)
(* has stopped for good and its ring stays full.                           *)
TriggerReturns == (fan # 0) ~> (fan = 0)

(* A worker that has stopped for good holds up no other: a provider whose  *)
(* own worker runs has its ring emptied, and every outcome in any result   *)
(* ring reaches the sink.                                                  *)
StallContained ==
    \A p \in Provider :
        /\ WF_vars(WorkerStep(p)) => ((trig[p] # <<>>) ~> (stop \/ trig[p] = <<>>))
        /\ ResultsDelivered(p)

-----------------------------------------------------------------------------
(* For the proofs: what is always true of this engine. *)

\* The last job the trigger call in progress, or the ones before it, have
\* offered to p's ring.
Given(p) == IF p < fan THEN nextJob ELSE nextJob - 1

\* The jobs in ring q are in order, after b and none after n.
Queued(q, b, n) ==
    /\ \A i \in 1 .. Len(q) : b < q[i] /\ q[i] <= n
    /\ \A i, k \in 1 .. Len(q) : i < k => q[i] < q[k]

\* Worker p has popped no job after b and settled none after it.
CameTo(p, b) ==
    /\ b <= Given(p)
    /\ \A j \in taken[p] : j <= b
    /\ Queued(trig[p], b, Given(p))
    /\ SettledAt(sink[p], results[p], Outstanding(p), jobsSent[p], b)

\* While trigger has met no full ring, the rings it has been to took the job.
FanOK == ok => \A p \in Provider : p < fan => InRing(p, nextJob) \/ nextJob \in taken[p]

PInv ==
    /\ TypeOK
    /\ StandbyForgets
    /\ \A p \in Provider : \E b \in Nat : CameTo(p, b) /\ Answered(p, b, FALSE)
    /\ AcceptedEverywhere
    /\ FanOK

=============================================================================
