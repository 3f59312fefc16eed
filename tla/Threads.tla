------------------------------ MODULE Threads -------------------------------
(***************************************************************************)
(* Everything that runs beside the worker thread(s), whichever engine is   *)
(* built: the reconnect thread (src/conn/reconnect.rs), the result lane    *)
(* (src/result_lane.rs), Sender::shutdown (src/transport/builder.rs) and   *)
(* the network with the providers at its other end (external).             *)
(***************************************************************************)
EXTENDS Worker

CONSTANTS
    Failures,    \* how a connection may break: "fin", "rst", "tmo"
    NetStates,   \* what a provider's address may be: "up", "refuse", "silent"
    MaxFaults    \* bound: failures of connections and of addresses

ASSUME ThreadsAssumption ==
    /\ Failures \subseteq {"fin", "rst", "tmo"}
    /\ {"up"} \subseteq NetStates /\ NetStates \subseteq {"up", "refuse", "silent"}
    /\ MaxFaults \in Nat

VARIABLES
    rpc,         \* reconnect thread: "recv", "build", "done"
    rreq,        \* the provider it is building a connection for
    lpc,         \* result lane: "scan", "done"
    lidx,        \* the ring the lane is draining
    sink,        \* outcomes handed to ResultSink::on_result, per ring
    stop,        \* the shared stop flag
    joined,      \* Sender::shutdown has returned
    net,         \* how each provider's address answers a new connection
    faults       \* failures so far

reconnectVars == <<rpc, rreq>>
laneVars      == <<lpc, lidx, sink>>
netVars       == <<net, faults>>
threadVars    == <<rpc, rreq, lpc, lidx, sink, stop, joined, net, faults>>

ThreadsTypeOK ==
    /\ rpc \in {"recv", "build", "done"}
    /\ rreq \in Provider
    /\ lpc \in {"scan", "done"}
    /\ lidx \in Provider
    /\ sink \in [Provider -> Seq(Outcome)]
    /\ stop \in BOOLEAN /\ joined \in BOOLEAN
    /\ net \in [Provider -> NetStates]
    /\ faults \in 0 .. MaxFaults

ThreadsInit ==
    /\ rpc = "recv" /\ rreq = 0
    /\ lpc = "scan" /\ lidx = 0
    /\ sink = [p \in Provider |-> <<>>]
    /\ stop = FALSE /\ joined = FALSE
    /\ net = [p \in Provider |-> "up"]
    /\ faults = 0

-----------------------------------------------------------------------------
(* run_reconnect_loop.  The stop flag is loaded at the head of the loop:   *)
(* the step that ends a round also makes that check.                       *)

NextRound == IF stop THEN "done" ELSE "recv"

\* recv_timeout answers a request.
ReconnectRecv ==
    /\ rpc = "recv" /\ reqs # <<>>
    /\ rreq' = Head(reqs)
    /\ reqs' = Tail(reqs)
    /\ rpc' = "build"
    /\ UNCHANGED resp

\* Mutant: a plain recv, with no timeout.
ReconnectTimeout_Never ==
    /\ rpc = "recv" /\ reqs = <<>> /\ FALSE
    /\ rpc' = NextRound
    /\ UNCHANGED <<rreq, reqs, resp>>

\* recv_timeout times out after 50 ms.
ReconnectTimeout ==
    /\ rpc = "recv" /\ reqs = <<>>
    /\ rpc' = NextRound
    /\ UNCHANGED <<rreq, reqs, resp>>

\* builder.build for p returns: a TCP connect and a TLS handshake without a
\* deadline, or a QUIC handshake.
Connects(p) == net[p] = "up"

\* It fails: the address refuses, or a QUIC handshake reaches its deadline.
ConnectFails(p) == net[p] = "refuse" \/ (net[p] = "silent" /\ p \in QuicProviders)

\* Mutant: every new connection is sent to the first provider's channel.
ReconnectBuildOk_FirstSlot ==
    /\ rpc = "build" /\ Connects(rreq)
    /\ resp' = [resp EXCEPT ![0] = Offer(resp[0], 1, FreshConn)]
    /\ rpc' = NextRound /\ rreq' = 0
    /\ UNCHANGED reqs

\* builder.build succeeds; a response the worker has not collected yet makes
\* try_send drop the new connection.
ReconnectBuildOk ==
    /\ rpc = "build" /\ Connects(rreq)
    /\ resp' = [resp EXCEPT ![rreq] = Offer(resp[rreq], 1, FreshConn)]
    /\ rpc' = NextRound /\ rreq' = 0
    /\ UNCHANGED reqs

\* builder.build fails: the request is forgotten.
ReconnectBuildErr ==
    /\ rpc = "build" /\ ConnectFails(rreq)
    /\ rpc' = NextRound /\ rreq' = 0
    /\ UNCHANGED <<reqs, resp>>

ReconnectStep ==
    /\ ReconnectRecv \/ ReconnectTimeout \/ ReconnectBuildOk \/ ReconnectBuildErr
    /\ UNCHANGED <<active, standby, inflight, jobsSent, diag, results>>
    /\ UNCHANGED <<laneVars, stop, joined, netVars>>

-----------------------------------------------------------------------------
(* ResultLane::run.  The step that ends a pass over the rings makes the    *)
(* check of the stop flag too; idle_wait before it is a pause.             *)

\* while let Some(resp) = ring.try_pop() { on_result(parse_one(..)) }
LanePop ==
    /\ lpc = "scan" /\ results[lidx] # <<>>
    /\ sink' = [sink EXCEPT ![lidx] = Append(sink[lidx], Head(results[lidx]))]
    /\ results' = [results EXCEPT ![lidx] = Tail(results[lidx])]
    /\ UNCHANGED <<lpc, lidx>>

\* Mutant: the pass ends one ring early.
LaneAdvance_SkipLast ==
    /\ lpc = "scan" /\ results[lidx] = <<>>
    /\ IF lidx + 2 < N THEN lidx' = lidx + 1 /\ lpc' = lpc
                       ELSE lidx' = 0 /\ lpc' = IF stop THEN "done" ELSE "scan"
    /\ UNCHANGED <<sink, results>>

\* The ring is empty: on to the next one, or to the end of the pass.
LaneAdvance ==
    /\ lpc = "scan" /\ results[lidx] = <<>>
    /\ IF lidx + 1 < N THEN lidx' = lidx + 1 /\ lpc' = lpc
                       ELSE lidx' = 0 /\ lpc' = IF stop THEN "done" ELSE "scan"
    /\ UNCHANGED <<sink, results>>

LaneStep ==
    /\ LanePop \/ LaneAdvance
    /\ UNCHANGED <<active, standby, inflight, jobsSent, diag, reqs, resp>>
    /\ UNCHANGED <<reconnectVars, stop, joined, netVars>>

-----------------------------------------------------------------------------
(* Sender::shutdown: store the flag, then join the workers (workersDone),  *)
(* the lane and the reconnect thread.                                      *)

Shutdown ==
    /\ ~stop
    /\ stop' = TRUE
    /\ UNCHANGED <<workerVars, reconnectVars, laneVars, joined, netVars>>

Join(workersDone) ==
    /\ stop /\ ~joined
    /\ workersDone /\ lpc = "done" /\ rpc = "done"
    /\ joined' = TRUE
    /\ UNCHANGED <<workerVars, reconnectVars, laneVars, stop, netVars>>

-----------------------------------------------------------------------------
(* The network and the providers.                                          *)

\* An HTTP provider answers the oldest request on p's active connection.
Respond(p) ==
    /\ active[p].sock = "up" /\ active[p].reqs # <<>>
    /\ active' = [active EXCEPT ![p].reqs = Tail(active[p].reqs),
                                ![p].inbox = active[p].inbox \o Response(Head(active[p].reqs))]
    /\ UNCHANGED <<standby, inflight, jobsSent, diag, results, reqs, resp, threadVars>>

\* Connection c after its peer has gone away: of what it wrote k fragments
\* arrive, what it was asked is not answered.
Broken(c, s, k) == [c EXCEPT !.sock = s, !.reqs = <<>>, !.inbox = SubSeq(c.inbox, 1, k)]

\* A connection of p breaks: the active one, the standby, or a new one that
\* still waits to be collected.
Break(p) ==
    /\ faults < MaxFaults
    /\ faults' = faults + 1
    /\ \E s \in IF p \in QuicProviders THEN Failures \ {"tmo"} ELSE Failures :
        \/ /\ active[p].sock = "up"
           /\ \E k \in 0 .. Len(active[p].inbox) :
                 active' = [active EXCEPT ![p] = Broken(active[p], s, k)]
           /\ UNCHANGED <<standby, resp>>
        \/ /\ standby[p].sock = "up"
           /\ standby' = [standby EXCEPT ![p] = Broken(standby[p], s, 0)]
           /\ UNCHANGED <<active, resp>>
        \/ /\ resp[p] # <<>> /\ resp[p][1].sock = "up"
           /\ resp' = [resp EXCEPT ![p] = <<Broken(resp[p][1], s, 0)>>]
           /\ UNCHANGED <<active, standby>>
    /\ UNCHANGED <<inflight, jobsSent, diag, results, reqs>>
    /\ UNCHANGED <<reconnectVars, laneVars, stop, joined, net>>

\* Time passes on an active QUIC connection: the peer's silence reaches the
\* idle timeout, or a job's response window ends.
QuicTime(p) ==
    /\ p \in QuicProviders
    /\ \/ /\ active[p].sock = "fin"
          /\ active' = [active EXCEPT ![p].sock = "rst"]
       \/ /\ active[p].inflight # NoJob /\ ~active[p].elapsed
          /\ active' = [active EXCEPT ![p].elapsed = TRUE]
    /\ UNCHANGED <<standby, inflight, jobsSent, diag, results, reqs, resp, threadVars>>

\* p's address starts to refuse connections, or to accept and say nothing.
NetDown(p) ==
    /\ faults < MaxFaults /\ net[p] = "up"
    /\ \E s \in NetStates \ {"up"} : net' = [net EXCEPT ![p] = s]
    /\ faults' = faults + 1
    /\ UNCHANGED <<workerVars, reconnectVars, laneVars, stop, joined>>

NetRestore(p) ==
    /\ net[p] = "refuse"
    /\ net' = [net EXCEPT ![p] = "up"]
    /\ UNCHANGED <<workerVars, reconnectVars, laneVars, stop, joined, faults>>

-----------------------------------------------------------------------------
(* What both engines promise: safety *)

Increasing(s) == \A i, k \in 1 .. Len(s) : i < k => s[i].job < s[k].job

\* Every outcome in s is for a job before those in r.
Precedes(s, r) == \A i \in 1 .. Len(s), k \in 1 .. Len(r) : s[i].job < r[k].job

(* Each provider settles jobs in the order they were triggered, each at    *)
(* most once: whatever fails over, is retried or arrives late, the         *)
(* outcomes that reach the sink and those still in the result ring have    *)
(* strictly increasing jobs.                                               *)
OutcomesInOrder ==
    \A p \in Provider : /\ Increasing(sink[p]) /\ Increasing(results[p])
                        /\ Precedes(sink[p], results[p])

(* An outcome reports the response to its own job, never one that answers  *)
(* another job sent on the same connection.                                *)
OutcomeMatchesJob ==
    \A p \in Provider :
        /\ \A i \in DOMAIN sink[p] : sink[p][i].body \in {NoJob, sink[p][i].job}
        /\ \A i \in DOMAIN results[p] : results[p][i].body \in {NoJob, results[p][i].job}

(* A response is reported at most once and never for a job older than the  *)
(* one it answers, however it is cut up, batched or left over on a         *)
(* connection that was swapped out and back: of each provider, the bodies  *)
(* reported answer increasing jobs, and none is newer than its outcome's.  *)
ResponsesReportedOnce ==
    \A p \in Provider :
        LET all == sink[p] \o results[p]
        IN  /\ \A i \in DOMAIN all : all[i].body <= all[i].job
            /\ \A i, k \in DOMAIN all :
                  i < k /\ all[k].body # NoJob => all[i].body < all[k].body

\* do_failover ran for p in this step: its reconnect request is queued, or
\* met a full channel while the two connections changed places, which no
\* other step does.
FailsOver(p) ==
    \/ reqs' = Append(reqs, p)
    \/ active'[p] # active[p] /\ standby'[p] # standby[p]

-----------------------------------------------------------------------------
(* For the proofs: the outcomes of one provider in order. *)

AllBelow(s, n) == \A i \in 1 .. Len(s) : s[i].job < n

InOrder(s, r, n) ==
    /\ Increasing(s) /\ Increasing(r) /\ Precedes(s, r)
    /\ AllBelow(s, n) /\ AllBelow(r, n)

\* Of a provider with outcomes s in the sink and r in its ring, job out
\* (or NoJob) in flight and `sent` jobs counted, none of them after bound.
SettledAt(s, r, out, sent, bound) ==
    /\ out <= bound
    /\ InOrder(s, r, IF out # NoJob THEN out ELSE bound + 1)
    /\ Len(s) + Len(r) + (IF out # NoJob THEN 1 ELSE 0) <= sent
    /\ sent <= bound

-----------------------------------------------------------------------------
(* For the proofs: the responses under way to one HTTP provider's worker.  *)

\* What a connection has received and ingest has not yet answered for.
Stream(c) == c.rx \o c.inbox

\* Responses are in the order of their jobs, and a body ends its response.
Ordered(s) ==
    \A i, k \in 1 .. Len(s) :
        i < k => s[i].job <= s[k].job /\ (s[i].part = "body" => s[i].job < s[k].job)

\* A blank line is followed by its body; the last response is complete.
Framed(s) ==
    \A i \in 1 .. Len(s) - 1 :
        s[i].part = "end" => s[i + 1].part = "body" /\ s[i + 1].job = s[i].job
Ended(s)  == Len(s) > 0 => s[Len(s)].part = "body"

\* A connection nothing was sent on; one that will answer nothing any more;
\* one that takes no job any more.
Unused(c) == c.reqs = <<>> /\ c.inbox = <<>> /\ c.rx = <<>>
Silent(c) == c.sock # "up" /\ c.reqs = <<>> /\ c.inbox = <<>>
Spent(c)  == ConnKind = "RawLibc" /\ c.sock = "rst"

\* What a standby may be: no response on it can be taken for a later job's.
Resting(c) == ~IsComplete(c.rx) /\ (Unused(c) \/ Silent(c) \/ Spent(c))

\* A connection in use: what arrives on it are the answers to what was sent,
\* in order, cut off where the peer went away.
InUse(c) ==
    /\ Ordered(Stream(c)) /\ Framed(Stream(c))
    /\ IF c.sock = "up" THEN Ended(Stream(c)) ELSE c.reqs = <<>>
    /\ \A i, k \in 1 .. Len(c.reqs) : i < k => c.reqs[i] < c.reqs[k]
    /\ \A i \in 1 .. Len(Stream(c)), k \in 1 .. Len(c.reqs) : Stream(c)[i].job < c.reqs[k]

\* The jobs whose answers it may still deliver.
Answering(c) ==
    {Stream(c)[i].job : i \in 1 .. Len(Stream(c))} \cup {c.reqs[i] : i \in 1 .. Len(c.reqs)}

\* Those of them whose header end is still to come.
Heading(c) ==
    {Stream(c)[i].job : i \in {i \in 1 .. Len(Stream(c)) : Stream(c)[i].part = "end"}}
        \cup {c.reqs[i] : i \in 1 .. Len(c.reqs)}

\* No answer to a job newer than out comes before out's: io_uring may send a
\* job whose submit failed, and the worker still waits for the one before.
\* A live connection that has lost no record does owe out's answer.
Foremost(c, out) ==
    /\ (\A j \in Answering(c) : j <= out) \/ out \in Heading(c)
    /\ c.sock = "up" /\ ~c.gap => out \in Heading(c)

\* Active connection c of a provider with outcomes s and job out (or NoJob)
\* in flight: none of its answers has been reported, none is newer than
\* bound, and the next is not newer than out.  If the caller is paced, they
\* all are out's.
Fed(c, out, s, bound, paced) ==
    /\ ~IsComplete(c.rx)
    /\ \/ Silent(c)
       \/ Spent(c) /\ out = NoJob
       \/ /\ InUse(c)
          /\ \A j \in Answering(c) :
                /\ \A i \in 1 .. Len(s) : s[i].body < j
                /\ j <= bound
                /\ paced => j = out
          /\ out # NoJob => Foremost(c, out)

Reported(s) ==
    /\ \A i \in 1 .. Len(s) : s[i].body <= s[i].job
    /\ \A i, k \in 1 .. Len(s) : i < k /\ s[k].body # NoJob => s[i].body < s[k].body

Matched(s) == \A i \in 1 .. Len(s) : s[i].body \in {NoJob, s[i].job}

\* Every outcome of provider p so far.
All(p) == sink[p] \o results[p]

Answered(p, bound, paced) ==
    /\ Reported(All(p)) /\ (paced => Matched(All(p)))
    /\ p \notin QuicProviders =>
          /\ Fed(active[p], inflight[p], All(p), bound, paced)
          /\ Resting(standby[p])
          /\ \A k \in 1 .. Len(resp[p]) : Unused(resp[p][k])

-----------------------------------------------------------------------------
(* What both engines promise: liveness *)

(* A provider whose active connection is dead gets a live one again, also  *)
(* when the standby had died unnoticed and when rebuilds failed for a      *)
(* while.                                                                  *)
ActiveRecovers ==
    \A p \in Provider : (active[p].sock # "up") ~> (stop \/ active[p].sock = "up")

(* A job that was sent does not stay in flight for ever: its response, the *)
(* end of its window or a failover settles it.  With more than one job     *)
(* outstanding this does not hold: see the README on rx_plain.             *)
SentSettles ==
    \A p \in Provider :
        (Outstanding(p) # NoJob) ~> (stop \/ Outstanding(p) = NoJob)

\* An outcome in provider p's ring reaches the sink.
ResultsDelivered(p) ==
    \A j \in Job :
        (\E k \in DOMAIN results[p] : results[p][k].job = j)
            ~> (stop \/ \E k \in DOMAIN sink[p] : sink[p][k].job = j)

\* shutdown returns: the worker, the lane and the reconnect thread all see
\* the stop flag, wherever they are when it is stored.
ShutdownCompletes == stop ~> joined

=============================================================================
