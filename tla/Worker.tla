------------------------------- MODULE Worker -------------------------------
(***************************************************************************)
(* What a worker thread does for one provider: send_to, reap, do_failover, *)
(* check_standby_delivery and publish_diag of src/transport/sequential.rs  *)
(* (src/transport/parallel.rs has the same bodies for its one provider),   *)
(* with the connections they act on (src/conn/mod.rs): an active and a     *)
(* standby one per provider.  The handlers are action fragments that fix   *)
(* the primed values of the connection state; the engine's module adds the *)
(* loop they run in, the other threads and the network.                    *)
(***************************************************************************)
EXTENDS HttpEngine

CONSTANTS
    N,               \* number of providers
    QuicProviders,   \* those configured with QUIC, the others use HTTP
    ConnKind,        \* "RawLibc" or "IoUring", the backend of HTTP streams
    Oversize,        \* jobs whose transaction does not fit the envelope
    ResultRing,      \* capacity of a result ring (RESULT_RING)
    ReqCap           \* capacity of the reconnect request channel (64)

Provider == 0 .. N - 1

ASSUME WorkerAssumption ==
    /\ N \in Nat \ {0}
    /\ QuicProviders \subseteq Provider
    /\ ConnKind \in {"RawLibc", "IoUring"}
    /\ Oversize \subseteq Job
    /\ ResultRing \in Nat \ {0}
    /\ ReqCap \in Nat \ {0}

VARIABLES
    active,      \* DualConn.active.conn of each provider
    standby,     \* DualConn.standby.conn of each provider
    inflight,    \* SequentialWorker.inflight: the job awaiting its response
    jobsSent,    \* jobs_sent
    diag,        \* jobs_sent as last published to Sender::health
    results,     \* result rings, worker to ResultLane
    reqs,        \* reconnect request channel, workers to ReconnectThread
    resp         \* reconnect response channels, of capacity 1

workerVars == <<active, standby, inflight, jobsSent, diag, results, reqs, resp>>

(* A connection.  sock is the state of the transport: "fin" is a peer that *)
(* has closed (for QUIC: has gone silent), "rst" a reset and "tmo" a       *)
(* timeout the next operation will see (for QUIC, "rst" is a close or an   *)
(* idle timeout the next drive will see).  reqs are the requests the peer  *)
(* has still to answer; gap says that a TLS record is missing from what it *)
(* was sent, so that it can read none that follows.  inbox is what it      *)
(* wrote and the worker has not read, rx is rx_plain.  closed, inflight    *)
(* and elapsed are QuicConn's is_closed, inflight, and whether more than   *)
(* QUIC_RESPONSE_WINDOW_MS has passed since sent_at.                       *)
Conn == [sock : {"up", "fin", "rst", "tmo"}, reqs : Seq(Job), gap : BOOLEAN,
         inbox : Seq(Frag), rx : Seq(Frag), closed : BOOLEAN,
         inflight : {NoJob} \cup Job, elapsed : BOOLEAN]

FreshConn == [sock |-> "up", reqs |-> <<>>, gap |-> FALSE, inbox |-> <<>>, rx |-> <<>>,
              closed |-> FALSE, inflight |-> NoJob, elapsed |-> FALSE]

\* A RawResp: the job it is attributed to and the body, NoJob where
\* outcome_hint says NoResponse.
Outcome == [job : Job, body : {NoJob} \cup Job]

WorkerTypeOK ==
    /\ active \in [Provider -> Conn]
    /\ standby \in [Provider -> Conn]
    /\ inflight \in [Provider -> {NoJob} \cup Job]
    /\ jobsSent \in [Provider -> Nat]
    /\ diag \in [Provider -> Nat]
    /\ results \in [Provider -> Seq(Outcome)]
    /\ \A p \in Provider : Len(results[p]) <= ResultRing
    /\ reqs \in Seq(Provider) /\ Len(reqs) <= ReqCap
    /\ resp \in [Provider -> Seq(Conn)]
    /\ \A p \in Provider : Len(resp[p]) <= 1

WorkerInit ==
    /\ active = [p \in Provider |-> FreshConn]
    /\ standby = [p \in Provider |-> FreshConn]
    /\ inflight = [p \in Provider |-> NoJob]
    /\ jobsSent = [p \in Provider |-> 0]
    /\ diag = [p \in Provider |-> 0]
    /\ results = [p \in Provider |-> <<>>]
    /\ reqs = <<>>
    /\ resp = [p \in Provider |-> <<>>]

\* Mutant: a full queue is pushed to all the same.
Offer_Unbounded(q, cap, x) == Append(q, x)

\* try_push / try_send whose error is ignored: a full queue drops x.
Offer(q, cap, x) == IF Len(q) < cap THEN Append(q, x) ELSE q

-----------------------------------------------------------------------------
(* HttpConn over ByteIo.  A result is "ok" or the kind of an io::Error,    *)
(* "EnvelopeError" being the one that is not an io::Error and "Other" any  *)
(* kind io_uring_enter fails with (busy, would block, interrupted...).     *)

\* Mutant: http_conn_failed_io does not list UnexpectedEof.
HttpConnFailedIo_NotEof(kind) ==
    kind \in {"BrokenPipe", "ConnectionReset", "ConnectionAborted"}

\* http_conn_failed_io: the errors that make the worker fail over.
HttpConnFailedIo(kind) ==
    kind \in {"UnexpectedEof", "BrokenPipe", "ConnectionReset", "ConnectionAborted"}

\* The request is on its way to a live peer.
Sent(c, j) == [res |-> "ok", conn |-> [c EXCEPT !.reqs = Append(c.reqs, j)]]

\* RawLibc::submit.  Writing to a peer that has closed succeeds and may
\* draw a reset; a pending error is reported, once if it is a timeout.
RawLibcSubmit(c, j) ==
    CASE c.sock = "up"  -> {Sent(c, j)}
      [] c.sock = "fin" -> {[res |-> "ok", conn |-> [c EXCEPT !.sock = s]] : s \in {"fin", "rst"}}
      [] c.sock = "rst" -> {[res |-> "ConnectionReset", conn |-> c]}
      [] c.sock = "tmo" -> {[res |-> "TimedOut", conn |-> [c EXCEPT !.sock = "rst"]]}

(* IoUring::submit queues the write of a record that is already encrypted. *)
(* It answers the error of push_sqe, which has lost the entry, or of       *)
(* flush_submit, which leaves the entry in the queue for a later enter     *)
(* (mode SqeStream; module IoUring has the steps).  An "ok" promises       *)
(* nothing: drain_pending may lose the entry (mode BatchSyscall), and the  *)
(* send may fail or be cut short, or take a pending error with it, because *)
(* reap never looks at the result of its completion.                       *)
IoUringSubmit(c, j) ==
    IF c.sock = "up" /\ ~c.gap
    THEN {[res |-> s, conn |-> d] : s \in {"ok", "Other"},
                                    d \in {Sent(c, j).conn, [c EXCEPT !.gap = TRUE]}}
    ELSE {[res |-> s, conn |-> [c EXCEPT !.sock = k]] : s \in {"ok", "Other"},
             k \in {c.sock} \cup (IF c.sock = "up" THEN {} ELSE {"fin"})}

\* HttpConn::send_tx: encode, then submit.
SendTx(c, j) ==
    IF j \in Oversize THEN {[res |-> "EnvelopeError", conn |-> c]}
    ELSE IF ConnKind = "RawLibc" THEN RawLibcSubmit(c, j)
    ELSE IoUringSubmit(c, j)

\* Mutant: recv's EWOULDBLOCK is taken for the end of the stream.
RawLibcRecv_WouldBlock(c) ==
    [up |-> "UnexpectedEof", fin |-> "UnexpectedEof",
     rst |-> "ConnectionReset", tmo |-> "TimedOut"][c.sock]

\* RawLibc::poll_recv with nothing left to read.
RawLibcRecv(c) ==
    [up |-> "ok", fin |-> "UnexpectedEof",
     rst |-> "ConnectionReset", tmo |-> "TimedOut"][c.sock]

\* IoUring::poll_recv with nothing left to read: an EOF is an Ok(0) too.
IoUringRecv(c) ==
    [up |-> "ok", fin |-> "ok", rst |-> "ConnectionReset", tmo |-> "TimedOut"][c.sock]

PollRecv(c) ==
    IF c.inbox # <<>> THEN "ok"
    ELSE IF ConnKind = "RawLibc" THEN RawLibcRecv(c) ELSE IoUringRecv(c)

\* The connection after a recv that failed: the kernel reports an error once
\* and the socket is closed from then on.  raw_libc sees that as EOF and
\* EPIPE, which are errors of the kind a reset is.
AfterError(c) ==
    [c EXCEPT !.sock = IF ConnKind = "IoUring" \/ c.sock = "fin" THEN "fin" ELSE "rst"]

\* IoUring::poll_recv also answers the errors of io_uring_enter, and then
\* has read nothing.
EnterFails(c) ==
    IF ConnKind = "RawLibc" THEN {} ELSE {[res |-> "Other", body |-> NoJob, conn |-> c]}

(* HttpConn::poll_response: one poll_recv, which reads some of what has    *)
(* arrived, handed to ingest.                                              *)
PollResponse(c) ==
    EnterFails(c) \cup
    IF PollRecv(c) # "ok"
    THEN {[res |-> PollRecv(c), body |-> NoJob, conn |-> AfterError(c)]}
    ELSE {LET got == Ingest(c.rx, SubSeq(c.inbox, 1, k))
          IN  [res |-> "ok", body |-> got.body,
               conn |-> [c EXCEPT !.rx = got.rx,
                                  !.inbox = SubSeq(c.inbox, k + 1, Len(c.inbox))]] :
              k \in IF c.inbox = <<>> THEN {0} ELSE 1 .. Len(c.inbox)}

-----------------------------------------------------------------------------
(* QuicConn.                                                               *)

\* QuicConn::drive: reads a pending close, or fires the idle timeout.
QuicDrive(c) == [c EXCEPT !.closed = c.closed \/ c.sock = "rst"]

\* QuicConn::send_tx: an engine error (closed, stream limit reached, partial
\* write) leaves the connection as it was, success overwrites inflight.
QuicSendTx(c, j) ==
    {c} \cup IF c.closed THEN {}
             ELSE {[c EXCEPT !.inflight = j, !.elapsed = FALSE]}

-----------------------------------------------------------------------------
(* The handlers.  They leave diag and resp alone unless they say so.       *)

\* Mutant: no reconnect request is sent.
DoFailover_NoRequest(p, dead, next, job) ==
    /\ active' = [active EXCEPT ![p] = next]
    /\ standby' = [standby EXCEPT ![p] = dead]
    /\ inflight' = [inflight EXCEPT ![p] = job]
    /\ reqs' = reqs

(* do_failover: drop the in-flight job, swap, ask for a rebuild.  dead is  *)
(* the active connection as the failed call left it, next the standby, on  *)
(* which send_to may already have retried job (else NoJob).                *)
DoFailover(p, dead, next, job) ==
    /\ active' = [active EXCEPT ![p] = next]
    /\ standby' = [standby EXCEPT ![p] = dead]
    /\ inflight' = [inflight EXCEPT ![p] = job]
    /\ reqs' = Offer(reqs, ReqCap, p)

CountSent(p) == jobsSent' = [jobsSent EXCEPT ![p] = jobsSent[p] + 1]

\* send_to, arm ConnState::Http, of a provider whose active connection
\* takes the request, or rejects it with an error that is no reason to fail
\* over: the job is forgotten.
HttpSend(p, j) ==
    \E r \in SendTx(active[p], j) :
        /\ active' = [active EXCEPT ![p] = r.conn]
        /\ \/ /\ r.res = "ok"
              /\ inflight' = [inflight EXCEPT ![p] = j]
              /\ CountSent(p)
           \/ /\ r.res # "ok" /\ ~HttpConnFailedIo(r.res)
              /\ UNCHANGED <<inflight, jobsSent>>
        /\ UNCHANGED <<standby, reqs>>

\* Mutant: the job sent again on the standby is not counted.
HttpSendRetry_Uncounted(p, j) ==
    \E r \in SendTx(active[p], j) :
        /\ HttpConnFailedIo(r.res)
        /\ \E r2 \in SendTx(standby[p], j) :
              /\ DoFailover(p, r.conn, r2.conn, IF r2.res = "ok" THEN j ELSE NoJob)
              /\ UNCHANGED jobsSent

\* send_to, arm ConnState::Http, where the send fails: failover, and one
\* more try on what was the standby.
HttpSendRetry(p, j) ==
    \E r \in SendTx(active[p], j) :
        /\ HttpConnFailedIo(r.res)
        /\ \E r2 \in SendTx(standby[p], j) :
              \/ /\ r2.res = "ok"
                 /\ DoFailover(p, r.conn, r2.conn, j)
                 /\ CountSent(p)
              \/ /\ r2.res # "ok"
                 /\ DoFailover(p, r.conn, r2.conn, NoJob)
                 /\ UNCHANGED jobsSent

\* send_to, arm ConnState::Quic: the result is ignored and always counted.
QuicSend(p, j) ==
    /\ \E c \in QuicSendTx(active[p], j) : active' = [active EXCEPT ![p] = c]
    /\ CountSent(p)
    /\ UNCHANGED <<standby, inflight, reqs>>

SendTo(p, j) ==
    /\ IF p \in QuicProviders THEN QuicSend(p, j)
                              ELSE HttpSend(p, j) \/ HttpSendRetry(p, j)
    /\ UNCHANGED results

\* result_tx.try_push, its error ignored.
PushResult(p, o) ==
    results' = [results EXCEPT ![p] = Offer(results[p], ResultRing, o)]

\* Mutant: the in-flight job is read and not taken.
HttpReap_NoTake(p) ==
    \E r \in PollResponse(active[p]) :
        \/ /\ r.res = "ok"
           /\ active' = [active EXCEPT ![p] = r.conn]
           /\ IF r.body # NoJob /\ inflight[p] # NoJob
              THEN PushResult(p, [job |-> inflight[p], body |-> r.body])
              ELSE UNCHANGED results
           /\ UNCHANGED <<standby, reqs, inflight>>
        \/ /\ HttpConnFailedIo(r.res)
           /\ DoFailover(p, r.conn, standby[p], NoJob)
           /\ UNCHANGED results
        \/ /\ r.res # "ok" /\ ~HttpConnFailedIo(r.res)
           /\ active' = [active EXCEPT ![p] = r.conn]
           /\ UNCHANGED <<standby, inflight, results, reqs>>

\* reap, arm ConnState::Http: a body settles the in-flight job, if any; a
\* body with no job in flight is dropped; other errors change nothing.
HttpReap(p) ==
    \E r \in PollResponse(active[p]) :
        \/ /\ r.res = "ok"
           /\ active' = [active EXCEPT ![p] = r.conn]
           /\ IF r.body # NoJob /\ inflight[p] # NoJob
              THEN /\ inflight' = [inflight EXCEPT ![p] = NoJob]
                   /\ PushResult(p, [job |-> inflight[p], body |-> r.body])
              ELSE UNCHANGED <<inflight, results>>
           /\ UNCHANGED <<standby, reqs>>
        \/ /\ HttpConnFailedIo(r.res)
           /\ DoFailover(p, r.conn, standby[p], NoJob)
           /\ UNCHANGED results
        \/ /\ r.res # "ok" /\ ~HttpConnFailedIo(r.res)
           /\ active' = [active EXCEPT ![p] = r.conn]
           /\ UNCHANGED <<standby, inflight, results, reqs>>

\* Mutant: the response window ends without clearing inflight.
QuicReap_NoClear(p) ==
    LET c == QuicDrive(active[p])
    IN  \/ /\ c.closed
           /\ DoFailover(p, c, standby[p], NoJob)
           /\ UNCHANGED results
        \/ /\ ~c.closed
           /\ active' = [active EXCEPT ![p] = c]
           /\ IF c.inflight # NoJob /\ c.elapsed
              THEN PushResult(p, [job |-> c.inflight, body |-> NoJob])
              ELSE UNCHANGED results
           /\ UNCHANGED <<standby, inflight, reqs>>

\* Mutant: a response window that ends makes the worker fail over.
QuicReap_WindowFails(p) ==
    LET c == QuicDrive(active[p])
    IN  \/ /\ c.closed \/ (c.inflight # NoJob /\ c.elapsed)
           /\ DoFailover(p, c, standby[p], NoJob)
           /\ UNCHANGED results
        \/ /\ ~c.closed /\ ~(c.inflight # NoJob /\ c.elapsed)
           /\ active' = [active EXCEPT ![p] = c]
           /\ UNCHANGED <<standby, inflight, results, reqs>>

\* reap, arm ConnState::Quic, after drive: fail over, or report the job
\* whose response window is over.
QuicReap(p) ==
    LET c == QuicDrive(active[p])
    IN  \/ /\ c.closed
           /\ DoFailover(p, c, standby[p], NoJob)
           /\ UNCHANGED results
        \/ /\ ~c.closed
           /\ IF c.inflight # NoJob /\ c.elapsed
              THEN /\ active' = [active EXCEPT ![p] =
                                    [c EXCEPT !.inflight = NoJob, !.elapsed = FALSE]]
                   /\ PushResult(p, [job |-> c.inflight, body |-> NoJob])
              ELSE /\ active' = [active EXCEPT ![p] = c]
                   /\ UNCHANGED results
           /\ UNCHANGED <<standby, inflight, reqs>>

\* One round of the second loop of run: drive, then reap.
DriveReap(p) ==
    /\ IF p \in QuicProviders THEN QuicReap(p) ELSE HttpReap(p)
    /\ UNCHANGED jobsSent

\* drive on the active connections of P; on HTTP ones it only flushes.
DriveActive(P) ==
    active' = [p \in Provider |-> IF p \in P \cap QuicProviders
                                  THEN QuicDrive(active[p]) ELSE active[p]]

\* check_standby_deliveries: a delivered connection becomes the standby.
CheckStandby(P) ==
    LET got == {p \in P : resp[p] # <<>>}
    IN  /\ standby' = [p \in Provider |-> IF p \in got THEN Head(resp[p]) ELSE standby[p]]
        /\ resp' = [p \in Provider |-> IF p \in got THEN Tail(resp[p]) ELSE resp[p]]

\* publish_diag
PublishDiag(P) ==
    diag' = [p \in Provider |-> IF p \in P THEN jobsSent[p] ELSE diag[p]]

-----------------------------------------------------------------------------
\* The job of provider p that has been sent and has no outcome yet.
Outstanding(p) ==
    IF p \in QuicProviders
    THEN IF active[p].closed THEN NoJob ELSE active[p].inflight
    ELSE inflight[p]

\* A QUIC connection that is not active remembers a job only if it is
\* closed, and then neither sends nor reports it when it is swapped back.
StandbyForgets ==
    \A p \in QuicProviders :
        /\ standby[p].inflight # NoJob => standby[p].closed
        /\ \A k \in 1 .. Len(resp[p]) : resp[p][k].inflight = NoJob

\* is_closed is only ever set on a connection whose peer is gone.
ClosedIsGone(c) == c.closed => c.sock # "up"

\* So it is of every QUIC connection, in use, standing by or just built.
ClosedAreGone ==
    \A p \in QuicProviders :
        /\ ClosedIsGone(active[p]) /\ ClosedIsGone(standby[p])
        /\ \A k \in 1 .. Len(resp[p]) : ClosedIsGone(resp[p][k])

=============================================================================
