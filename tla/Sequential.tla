----------------------------- MODULE Sequential -----------------------------
(***************************************************************************)
(* The sequential engine: one SequentialWorker thread serves every         *)
(* provider (src/transport/sequential.rs), fed by Sender::trigger through  *)
(* one ring.  Composed with the reconnect thread, the result lane,         *)
(* shutdown and the network of Threads.  Each action is one handler call   *)
(* of SequentialWorker::run.                                               *)
(***************************************************************************)
EXTENDS Threads

CONSTANTS
    TriggerRing,   \* capacity of the trigger ring (TRIGGER_RING)
    Period,        \* PERIODIC_MASK + 1 loop rounds between periodic work
    Paced          \* TRUE: the caller has at most one job outstanding

ASSUME SequentialAssumption ==
    /\ TriggerRing \in Nat \ {0}
    /\ Period \in Nat \ {0}
    /\ Paced \in BOOLEAN

VARIABLES
    trig,      \* the trigger ring
    nextJob,   \* id of the next job the caller triggers
    pc,        \* where run is: see Sequential's actions
    cur,       \* the job last popped
    idx,       \* the provider a loop of run is at
    tick       \* SequentialWorker.tick, modulo Period

loopVars == <<trig, nextJob, pc, cur, idx, tick>>
vars     == <<workerVars, threadVars, loopVars>>

TypeOK ==
    /\ WorkerTypeOK
    /\ ThreadsTypeOK
    /\ trig \in Seq(Job) /\ Len(trig) <= TriggerRing
    /\ nextJob \in 1 .. MaxJobs + 1
    /\ pc \in {"top", "send", "drive", "reap", "tick", "woken", "done"}
    /\ cur \in {NoJob} \cup Job
    /\ idx \in Provider
    /\ tick \in 0 .. Period - 1

Init ==
    /\ WorkerInit
    /\ ThreadsInit
    /\ trig = <<>> /\ nextJob = 1
    /\ pc = "top" /\ cur = NoJob /\ idx = 0 /\ tick = 0

-----------------------------------------------------------------------------
\* No job is waiting, being sent or awaiting its outcome.
Quiet ==
    /\ trig = <<>> /\ pc # "send"
    /\ \A p \in Provider : inflight[p] = NoJob /\ active[p].inflight = NoJob

(* Sender::trigger, Dispatch::Single.  Jobs are numbered in the order the  *)
(* caller triggers them.  On a full ring trigger answers Backpressure and  *)
(* changes nothing.                                                        *)
Trigger ==
    /\ ~stop /\ nextJob <= MaxJobs
    /\ Paced => Quiet
    /\ Len(trig) < TriggerRing
    /\ trig' = Append(trig, nextJob)
    /\ nextJob' = nextJob + 1
    /\ UNCHANGED <<workerVars, threadVars, pc, cur, idx, tick>>

-----------------------------------------------------------------------------
(* SequentialWorker::run                                                   *)

\* The head of the loop: leave on stop, else try_pop.
RunTop ==
    /\ pc = "top"
    /\ idx' = 0
    /\ IF stop
       THEN pc' = "done" /\ UNCHANGED <<trig, cur>>
       ELSE IF trig = <<>>
       THEN pc' = "reap" /\ UNCHANGED <<trig, cur>>
       ELSE /\ pc' = "send"
            /\ cur' = Head(trig)
            /\ trig' = Tail(trig)
    /\ UNCHANGED <<workerVars, threadVars, nextJob, tick>>

\* A for loop over the providers: the next one, or on to `after`.
NextProvider(here, after) ==
    /\ pc = here
    /\ IF idx + 1 < N THEN pc' = here  /\ idx' = idx + 1
                      ELSE pc' = after /\ idx' = 0
    /\ UNCHANGED <<trig, nextJob, cur, tick>>

RunSend ==
    /\ NextProvider("send", "drive")
    /\ SendTo(idx, cur)
    /\ UNCHANGED <<diag, resp, threadVars>>

RunDrive ==
    /\ pc = "drive" /\ pc' = "reap"
    /\ DriveActive(Provider)
    /\ UNCHANGED <<standby, inflight, jobsSent, diag, results, reqs, resp>>
    /\ UNCHANGED <<threadVars, trig, nextJob, cur, idx, tick>>

RunReap ==
    /\ NextProvider("reap", "tick")
    /\ DriveReap(idx)
    /\ UNCHANGED <<diag, resp, threadVars>>

\* Mutant: the periodic work does not publish.
RunTick_NoPublish ==
    /\ pc = "tick"
    /\ pc' = IF trig = <<>> THEN "woken" ELSE "top"
    /\ tick' = (tick + 1) % Period
    /\ IF tick' = 0 THEN CheckStandby(Provider) ELSE UNCHANGED <<standby, resp>>
    /\ UNCHANGED <<active, inflight, jobsSent, diag, results, reqs>>
    /\ UNCHANGED <<threadVars, trig, nextJob, cur, idx>>

\* tick, the periodic work, and if trigger.is_empty() { idle_wait }, which
\* returns at its deadline at the latest (module Spsc).
RunTick ==
    /\ pc = "tick"
    /\ pc' = IF trig = <<>> THEN "woken" ELSE "top"
    /\ tick' = (tick + 1) % Period
    /\ IF tick' = 0 THEN CheckStandby(Provider) /\ PublishDiag(Provider)
                    ELSE UNCHANGED <<standby, resp, diag>>
    /\ UNCHANGED <<active, inflight, jobsSent, results, reqs>>
    /\ UNCHANGED <<threadVars, trig, nextJob, cur, idx>>

\* What follows idle_wait.
RunWoken ==
    /\ pc = "woken" /\ pc' = "top"
    /\ CheckStandby(Provider) /\ PublishDiag(Provider)
    /\ UNCHANGED <<active, inflight, jobsSent, results, reqs>>
    /\ UNCHANGED <<threadVars, trig, nextJob, cur, idx, tick>>

WorkerStep == RunTop \/ RunSend \/ RunDrive \/ RunReap \/ RunTick \/ RunWoken

-----------------------------------------------------------------------------
Reconnect == ReconnectStep /\ UNCHANGED loopVars
Lane      == LaneStep /\ UNCHANGED loopVars
Stop      == Shutdown /\ UNCHANGED loopVars
JoinAll   == Join(pc = "done") /\ UNCHANGED loopVars

Peer(p) == (Respond(p) \/ QuicTime(p)) /\ UNCHANGED loopVars

Fault(p) == (Break(p) \/ NetDown(p)) /\ UNCHANGED loopVars

Restore(p) == NetRestore(p) /\ UNCHANGED loopVars

Terminated == joined /\ UNCHANGED vars

Next ==
    \/ Trigger
    \/ WorkerStep
    \/ Reconnect
    \/ Lane
    \/ Stop
    \/ JoinAll
    \/ \E p \in Provider : Peer(p) \/ Fault(p) \/ Restore(p)
    \/ Terminated

Spec == Init /\ [][Next]_vars

(* Every thread keeps running, and join returns once they are done.  Of    *)
(* the environment: a live peer answers, time passes, an address that      *)
(* refuses connections stops doing so.  An address that is silent may stay *)
(* silent, and nobody has to call trigger or shutdown.                     *)
Fairness ==
    /\ WF_vars(WorkerStep) /\ WF_vars(Reconnect) /\ WF_vars(Lane) /\ WF_vars(JoinAll)
    /\ \A p \in Provider : WF_vars(Peer(p)) /\ WF_vars(Restore(p))

FairSpec == Spec /\ Fairness

-----------------------------------------------------------------------------
(* Safety *)

(* jobs_sent covers every job a provider settled or still has in flight,   *)
(* and never exceeds the number of jobs the worker took from the ring.     *)
SentCoversOutcomes ==
    \A p \in Provider :
        /\ Len(sink[p]) + Len(results[p]) + (IF Outstanding(p) # NoJob THEN 1 ELSE 0)
              <= jobsSent[p]
        /\ jobsSent[p] <= cur

(* Sender::health is never more than Period jobs behind the worker, though *)
(* jobs keep coming and the worker is never idle: it publishes after every *)
(* Period rounds, and a round sends a provider one job at most, also when  *)
(* it is sent again on the standby.                                        *)
HealthLags == \A p \in Provider : jobsSent[p] <= diag[p] + Period

(* A worker gives up an active connection only when its peer is gone: a    *)
(* slow, silent or partial answer never costs a live connection and the    *)
(* job in flight on it.                                                    *)
NoSpuriousFailover ==
    [][\A p \in Provider : FailsOver(p) => active[p].sock # "up"]_vars

(* README: on a transport error the worker "emits TransportError::Failover *)
(* for the in-flight job".  A failover that drops an in-flight job leaves  *)
(* an outcome for it in the result ring.                                   *)
FailoverEmitsOutcome ==
    [][\A p \in Provider :
          FailsOver(p) /\ Outstanding(p) # NoJob =>
              \E k \in DOMAIN results'[p] : results'[p][k].job = Outstanding(p)]_vars

(* The engine delivers what a Sender promises (module Delivery): no step   *)
(* of its threads, of the network or of a failover settles a job twice,    *)
(* out of order or before it was triggered, or loses or reorders an        *)
(* outcome on its way from the result ring to the sink.                    *)
D == INSTANCE Delivery WITH given <- nextJob - 1, pending <- results, delivered <- sink

ImplementsDelivery == D!Spec

-----------------------------------------------------------------------------
(* The inductive invariant behind OutcomesInOrder and SentCoversOutcomes.  *)

\* The newest job provider p may have been given: the one being sent counts
\* only once its loop has passed p.
Bound(p) == IF pc = "send" /\ idx <= p THEN cur - 1 ELSE cur

\* The ring holds the jobs that follow the one last popped.
TriggersInOrder ==
    /\ nextJob = cur + Len(trig) + 1
    /\ \A k \in 1 .. Len(trig) : trig[k] = cur + k
    /\ pc = "send" => cur # NoJob

Settled(p) ==
    SettledAt(sink[p], results[p], Outstanding(p), jobsSent[p], Bound(p))

IInv ==
    /\ TypeOK
    /\ TriggersInOrder
    /\ StandbyForgets
    /\ \A p \in Provider : Settled(p)

(* The inductive invariant behind ResponsesReportedOnce, and behind        *)
(* OutcomeMatchesJob for a paced caller.                                   *)

\* A job of a paced caller finds nothing in flight.
PacedQuiet ==
    Paced =>
        /\ Len(trig) <= 1 /\ (trig # <<>> => pc # "send")
        /\ \A p \in Provider \ QuicProviders :
              trig # <<>> \/ (pc = "send" /\ idx <= p) => inflight[p] = NoJob

\* Where every response is reported for its own job: an io_uring connection
\* may still send a job that send_to has given up.
OneAtATime == Paced /\ ConnKind = "RawLibc"

RInv == PacedQuiet /\ \A p \in Provider : Answered(p, Bound(p), OneAtATime)

=============================================================================
