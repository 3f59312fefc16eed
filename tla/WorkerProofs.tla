---------------------------- MODULE WorkerProofs ----------------------------
(* Lemmas about HttpEngine, Worker and Threads that the proofs about both  *)
(* engines rest on: what a call on a connection returns and what of the    *)
(* connection it leaves alone, what a handler does to the job in flight,   *)
(* and what the threads beside the workers and the network may change.     *)
EXTENDS Threads, SequenceTheorems, TLAPS

USE MaxJobsAssumption, WorkerAssumption

\* A queue that is offered an element stays within its capacity and either
\* has the element at its end or is unchanged.
LEMMA OfferType ==
    ASSUME NEW S, NEW q \in Seq(S), NEW x \in S, NEW cap \in Nat
    PROVE  /\ Offer(q, cap, x) \in Seq(S)
           /\ Len(q) <= cap => Len(Offer(q, cap, x)) <= cap
           /\ Offer(q, cap, x) = q \/ Offer(q, cap, x) = Append(q, x)
BY AppendProperties DEF Offer

\* Taking the oldest element changes a sequence.
LEMMA TailShorter ==
    ASSUME NEW S, NEW s \in Seq(S), s # <<>>
    PROVE  Tail(s) # s
<1> DEFINE t == Tail(s)
<1>1. Len(t) = Len(s) - 1 /\ Len(s) \in Nat
    BY HeadTailProperties
<1> HIDE DEF t
<1>2. t # s
    BY <1>1
<1> QED
    BY <1>2 DEF t

\* A connection just built: healthy, with nothing in flight.
LEMMA FreshConnType ==
    FreshConn \in Conn /\ FreshConn.inflight = NoJob
<1>1. /\ <<>> \in Seq(Job) /\ <<>> \in Seq(Frag)
    OBVIOUS
<1> QED
    BY <1>1 DEF FreshConn, Conn

\* ingest keeps rx_plain a sequence of fragments and answers a job.
LEMMA IngestType ==
    ASSUME NEW rx \in Seq(Frag), NEW data \in Seq(Frag)
    PROVE  /\ Ingest(rx, data).rx \in Seq(Frag)
           /\ Ingest(rx, data).body \in {NoJob} \cup Job
<1> DEFINE acc == rx \o data
<1>1. acc \in Seq(Frag)
    BY ConcatProperties
<1>2. CASE IsComplete(acc)
  <2>1. HeaderEnd(acc) \in DOMAIN acc /\ CompleteAt(acc, HeaderEnd(acc))
    BY <1>2 DEF IsComplete, HeaderEnd
  <2> HIDE DEF acc
  <2>2. HeaderEnd(acc) + 1 \in 1 .. Len(acc)
    BY <1>1, <2>1 DEF CompleteAt
  <2>3. acc[HeaderEnd(acc) + 1] \in Frag
    BY <1>1, <2>2
  <2>4. BodyIfComplete(acc) \in Job
    BY <2>3 DEF BodyIfComplete, Frag
  <2>5. Ingest(rx, data) = [rx |-> <<>>, body |-> BodyIfComplete(acc)]
    BY <1>2 DEF Ingest, acc
  <2>6. <<>> \in Seq(Frag)
    OBVIOUS
  <2> QED
    BY <2>4, <2>5, <2>6
<1>3. CASE ~IsComplete(acc)
  <2>1. Ingest(rx, data) = [rx |-> acc, body |-> NoJob]
    BY <1>3 DEF Ingest
  <2> QED
    BY <1>1, <2>1
<1> QED
    BY <1>2, <1>3

\* send_tx on an HTTP connection answers a connection whose QUIC fields are
\* the same.
LEMMA SendTxType ==
    ASSUME NEW c \in Conn, NEW j \in Job, NEW r \in SendTx(c, j)
    PROVE  r.conn \in Conn
<1>1. Append(c.reqs, j) \in Seq(Job)
    BY AppendProperties DEF Conn
<1>2. r.conn \in {c, [c EXCEPT !.reqs = Append(c.reqs, j)],
                  [c EXCEPT !.sock = "fin"], [c EXCEPT !.sock = "rst"],
                  [c EXCEPT !.sock = c.sock], [c EXCEPT !.gap = TRUE]}
  <2>1. CASE r \in RawLibcSubmit(c, j)
    <3>1. c.sock \in {"up", "fin", "rst", "tmo"}
        BY DEF Conn
    <3> QED BY <2>1, <3>1 DEF RawLibcSubmit, Sent
  <2>2. CASE r \in IoUringSubmit(c, j)
    BY <2>2 DEF IoUringSubmit, Sent
  <2> QED
    BY <2>1, <2>2 DEF SendTx
<1> QED
    BY <1>1, <1>2 DEF Conn

\* poll_response answers a body or nothing, or fails.
LEMMA PollResponseType ==
    ASSUME NEW c \in Conn, NEW r \in PollResponse(c)
    PROVE  r.conn \in Conn /\ r.body \in {NoJob} \cup Job
<1>0. CASE r \in EnterFails(c)
    BY <1>0 DEF EnterFails
<1>1. CASE r \notin EnterFails(c) /\ PollRecv(c) # "ok"
  <2>1. r.body = NoJob /\ r.conn \in {[c EXCEPT !.sock = "rst"], [c EXCEPT !.sock = "fin"]}
    BY <1>1 DEF PollResponse, AfterError
  <2> QED
    BY <2>1 DEF Conn
<1>2. CASE r \notin EnterFails(c) /\ PollRecv(c) = "ok"
  <2>1. PICK k \in IF c.inbox = <<>> THEN {0} ELSE 1 .. Len(c.inbox) :
            LET got == Ingest(c.rx, SubSeq(c.inbox, 1, k))
            IN  r = [res |-> "ok", body |-> got.body,
                     conn |-> [c EXCEPT !.rx = got.rx,
                                        !.inbox = SubSeq(c.inbox, k + 1, Len(c.inbox))]]
    BY <1>2 DEF PollResponse
  <2>2. c.inbox \in Seq(Frag) /\ c.rx \in Seq(Frag)
    BY DEF Conn
  <2>3. k \in 0 .. Len(c.inbox)
    BY <2>1, <2>2
  <2>4. SubSeq(c.inbox, 1, k) \in Seq(Frag)
    BY <2>2, <2>3, SubSeqProperties
  <2>5. SubSeq(c.inbox, k + 1, Len(c.inbox)) \in Seq(Frag)
    BY <2>2, <2>3, SubSeqProperties
  <2> DEFINE got == Ingest(c.rx, SubSeq(c.inbox, 1, k))
  <2>6. got.rx \in Seq(Frag) /\ got.body \in {NoJob} \cup Job
    BY <2>2, <2>4, IngestType
  <2> HIDE DEF got
  <2> QED
    BY <2>1, <2>5, <2>6 DEF Conn, got
<1> QED
    BY <1>0, <1>1, <1>2

\* drive on a QUIC connection may close it and changes nothing else.
LEMMA QuicDriveType ==
    ASSUME NEW c \in Conn
    PROVE  /\ QuicDrive(c) \in Conn
           /\ QuicDrive(c).inflight = c.inflight
           /\ c.closed => QuicDrive(c).closed
BY DEF QuicDrive, Conn

\* send_tx on a QUIC connection: nothing, or a new job in flight on a
\* connection that is open.
LEMMA QuicSendTxType ==
    ASSUME NEW c \in Conn, NEW j \in Job, NEW d \in QuicSendTx(c, j)
    PROVE  /\ d \in Conn /\ d.closed = c.closed
           /\ d = c \/ (~c.closed /\ d.inflight = j)
BY DEF QuicSendTx, Conn

-----------------------------------------------------------------------------
(* The handlers.                                                           *)

\* A handler for p leaves every other provider alone.
Only(p) ==
    \A q \in Provider \ {p} :
        /\ active'[q] = active[q] /\ standby'[q] = standby[q]
        /\ inflight'[q] = inflight[q] /\ jobsSent'[q] = jobsSent[q]
        /\ results'[q] = results[q]

\* do_failover leaves the worker's state well-typed and drops what was in
\* flight, unless send_to has retried its job.
LEMMA DoFailoverType ==
    ASSUME WorkerTypeOK, NEW p \in Provider, NEW dead \in Conn, NEW next \in Conn,
           NEW job \in {NoJob} \cup Job, DoFailover(p, dead, next, job)
    PROVE  /\ active' \in [Provider -> Conn] /\ standby' \in [Provider -> Conn]
           /\ inflight' \in [Provider -> {NoJob} \cup Job]
           /\ reqs' \in Seq(Provider) /\ Len(reqs') <= ReqCap
<1>1. reqs' \in Seq(Provider) /\ Len(reqs') <= ReqCap
    BY OfferType DEF DoFailover, WorkerTypeOK
<1> QED
    BY <1>1 DEF DoFailover, WorkerTypeOK

\* CountSent
LEMMA CountSentType ==
    ASSUME WorkerTypeOK, NEW p \in Provider, CountSent(p)
    PROVE  jobsSent' \in [Provider -> Nat] /\ jobsSent'[p] = jobsSent[p] + 1
BY DEF CountSent, WorkerTypeOK

\* send_to preserves the types.
LEMMA SendToType ==
    ASSUME WorkerTypeOK, NEW p \in Provider, NEW j \in Job,
           SendTo(p, j), UNCHANGED <<diag, resp>>
    PROVE  WorkerTypeOK'
<1>1. active[p] \in Conn /\ standby[p] \in Conn
    BY DEF WorkerTypeOK
<1>2. CASE p \in QuicProviders
  <2>1. PICK c \in QuicSendTx(active[p], j) : active' = [active EXCEPT ![p] = c]
    BY <1>2 DEF SendTo, QuicSend
  <2>2. c \in Conn
    BY <1>1, QuicSendTxType
  <2>3. CountSent(p) /\ UNCHANGED <<standby, inflight, reqs, results>>
    BY <1>2 DEF SendTo, QuicSend
  <2> QED
    BY <2>1, <2>2, <2>3, CountSentType DEF WorkerTypeOK
<1>3. CASE p \notin QuicProviders /\ HttpSend(p, j)
  <2>1. PICK r \in SendTx(active[p], j) :
            /\ active' = [active EXCEPT ![p] = r.conn]
            /\ \/ inflight' = [inflight EXCEPT ![p] = j] /\ CountSent(p)
               \/ UNCHANGED <<inflight, jobsSent>>
    BY <1>3 DEF HttpSend
  <2>2. r.conn \in Conn
    BY <1>1, SendTxType
  <2>3. UNCHANGED <<standby, reqs, results, diag, resp>>
    BY <1>3 DEF SendTo, HttpSend
  <2>4. active' \in [Provider -> Conn]
    BY <2>1, <2>2 DEF WorkerTypeOK
  <2>5. inflight' \in [Provider -> {NoJob} \cup Job]
    BY <2>1 DEF WorkerTypeOK
  <2>6. jobsSent' \in [Provider -> Nat]
    BY <2>1, CountSentType DEF WorkerTypeOK
  <2> QED
    BY <2>3, <2>4, <2>5, <2>6 DEF WorkerTypeOK
<1>4. CASE p \notin QuicProviders /\ HttpSendRetry(p, j)
  <2>1. PICK r \in SendTx(active[p], j), r2 \in SendTx(standby[p], j) :
            \/ DoFailover(p, r.conn, r2.conn, j) /\ CountSent(p)
            \/ DoFailover(p, r.conn, r2.conn, NoJob) /\ UNCHANGED jobsSent
    BY <1>4 DEF HttpSendRetry
  <2>2. r.conn \in Conn /\ r2.conn \in Conn
    BY <1>1, SendTxType
  <2>3. UNCHANGED results
    BY <1>4 DEF SendTo
  <2>4. /\ active' \in [Provider -> Conn] /\ standby' \in [Provider -> Conn]
        /\ inflight' \in [Provider -> {NoJob} \cup Job]
        /\ reqs' \in Seq(Provider) /\ Len(reqs') <= ReqCap
    BY <2>1, <2>2, DoFailoverType
  <2>5. jobsSent' \in [Provider -> Nat]
    BY <2>1, CountSentType DEF WorkerTypeOK
  <2> QED
    BY <2>3, <2>4, <2>5 DEF WorkerTypeOK
<1> QED
    BY <1>2, <1>3, <1>4 DEF SendTo

\* A step that pushes an outcome, or none, to p's result ring.
LEMMA PushResultType ==
    ASSUME WorkerTypeOK, NEW p \in Provider, NEW o \in Outcome, PushResult(p, o)
    PROVE  /\ results' \in [Provider -> Seq(Outcome)]
           /\ \A q \in Provider : Len(results'[q]) <= ResultRing
<1> DEFINE s == Offer(results[p], ResultRing, o)
<1>1. s \in Seq(Outcome) /\ Len(s) <= ResultRing
    BY OfferType DEF WorkerTypeOK
<1>2. results' = [results EXCEPT ![p] = s]
    BY DEF PushResult
<1> HIDE DEF s
<1> QED
    BY <1>1, <1>2 DEF WorkerTypeOK

\* What reap does to an HTTP provider: fail over, take a response for the
\* job in flight, or neither.
LEMMA HttpReapCases ==
    ASSUME WorkerTypeOK, NEW p \in Provider, HttpReap(p)
    PROVE  \E c \in Conn :
              \/ DoFailover(p, c, standby[p], NoJob) /\ UNCHANGED results
              \/ /\ active' = [active EXCEPT ![p] = c]
                 /\ UNCHANGED <<standby, reqs>>
                 /\ \/ UNCHANGED <<inflight, results>>
                    \/ /\ inflight[p] # NoJob
                       /\ inflight' = [inflight EXCEPT ![p] = NoJob]
                       /\ \E o \in Outcome : o.job = inflight[p] /\ PushResult(p, o)
<1>1. active[p] \in Conn /\ inflight[p] \in {NoJob} \cup Job
    BY DEF WorkerTypeOK
<1>2. PICK r \in PollResponse(active[p]) :
          \/ /\ r.res = "ok"
             /\ active' = [active EXCEPT ![p] = r.conn]
             /\ IF r.body # NoJob /\ inflight[p] # NoJob
                THEN /\ inflight' = [inflight EXCEPT ![p] = NoJob]
                     /\ PushResult(p, [job |-> inflight[p], body |-> r.body])
                ELSE UNCHANGED <<inflight, results>>
             /\ UNCHANGED <<standby, reqs>>
          \/ /\ r.res # "ok"
             /\ DoFailover(p, r.conn, standby[p], NoJob)
             /\ UNCHANGED results
          \/ /\ r.res # "ok"
             /\ active' = [active EXCEPT ![p] = r.conn]
             /\ UNCHANGED <<standby, inflight, results, reqs>>
    BY DEF HttpReap, HttpConnFailedIo
<1>3. r.conn \in Conn /\ r.body \in {NoJob} \cup Job
    BY <1>1, PollResponseType
<1>4. CASE r.res # "ok"
    BY <1>2, <1>3, <1>4
<1>5. CASE r.res = "ok" /\ r.body # NoJob /\ inflight[p] # NoJob
  <2> DEFINE o == [job |-> inflight[p], body |-> r.body]
  <2>1. o \in Outcome /\ o.job = inflight[p]
    BY <1>1, <1>3, <1>5 DEF Outcome
  <2>2. PushResult(p, o)
    BY <1>2, <1>5
  <2> HIDE DEF o
  <2> QED
    BY <1>2, <1>3, <1>5, <2>1, <2>2
<1>6. CASE r.res = "ok" /\ ~(r.body # NoJob /\ inflight[p] # NoJob)
    BY <1>2, <1>3, <1>6
<1> QED
    BY <1>2, <1>4, <1>5, <1>6

\* What reap does to a QUIC provider: fail over from a closed connection,
\* report the job whose window is over, or neither.
LEMMA QuicReapCases ==
    ASSUME WorkerTypeOK, NEW p \in Provider, QuicReap(p)
    PROVE  \E c \in Conn :
              \/ /\ c.closed
                 /\ DoFailover(p, c, standby[p], NoJob) /\ UNCHANGED results
              \/ /\ ~c.closed /\ ~active[p].closed
                 /\ active' = [active EXCEPT ![p] = c]
                 /\ UNCHANGED <<standby, inflight, reqs>>
                 /\ \/ c.inflight = active[p].inflight /\ UNCHANGED results
                    \/ /\ active[p].inflight # NoJob /\ c.inflight = NoJob
                       /\ \E o \in Outcome : o.job = active[p].inflight /\ PushResult(p, o)
<1> DEFINE d == QuicDrive(active[p])
<1>1. active[p] \in Conn
    BY DEF WorkerTypeOK
<1>2. d \in Conn /\ d.inflight = active[p].inflight /\ (active[p].closed => d.closed)
    BY <1>1, QuicDriveType
<1>3. \/ d.closed /\ DoFailover(p, d, standby[p], NoJob) /\ UNCHANGED results
      \/ /\ ~d.closed
         /\ IF d.inflight # NoJob /\ d.elapsed
            THEN /\ active' = [active EXCEPT ![p] =
                                  [d EXCEPT !.inflight = NoJob, !.elapsed = FALSE]]
                 /\ PushResult(p, [job |-> d.inflight, body |-> NoJob])
            ELSE active' = [active EXCEPT ![p] = d] /\ UNCHANGED results
         /\ UNCHANGED <<standby, inflight, reqs>>
    BY DEF QuicReap
<1> HIDE DEF d
<1>4. CASE d.closed
    BY <1>2, <1>3, <1>4
<1>5. CASE ~d.closed /\ d.inflight # NoJob /\ d.elapsed
  <2> DEFINE c == [d EXCEPT !.inflight = NoJob, !.elapsed = FALSE]
             o == [job |-> d.inflight, body |-> NoJob]
  <2>1. c \in Conn /\ c.inflight = NoJob /\ ~c.closed
    BY <1>2, <1>5 DEF Conn
  <2>2. o \in Outcome /\ o.job = active[p].inflight
    BY <1>2, <1>5 DEF Outcome, Conn
  <2>3. active' = [active EXCEPT ![p] = c] /\ PushResult(p, o)
        /\ UNCHANGED <<standby, inflight, reqs>>
    BY <1>3, <1>5
  <2> HIDE DEF c, o
  <2> QED
    BY <1>2, <1>5, <2>1, <2>2, <2>3
<1>6. CASE ~d.closed /\ ~(d.inflight # NoJob /\ d.elapsed)
    BY <1>2, <1>3, <1>6
<1> QED
    BY <1>4, <1>5, <1>6

\* drive and reap preserve the types.
LEMMA DriveReapType ==
    ASSUME WorkerTypeOK, NEW p \in Provider, DriveReap(p), UNCHANGED <<diag, resp>>
    PROVE  WorkerTypeOK'
<1>1. standby[p] \in Conn /\ NoJob \in {NoJob} \cup Job
    BY DEF WorkerTypeOK
<1>2. PICK c \in Conn :
          \/ DoFailover(p, c, standby[p], NoJob) /\ UNCHANGED results
          \/ /\ active' = [active EXCEPT ![p] = c]
             /\ UNCHANGED <<standby, reqs>>
             /\ inflight' = inflight \/ inflight' = [inflight EXCEPT ![p] = NoJob]
             /\ UNCHANGED results \/ \E o \in Outcome : PushResult(p, o)
  <2>1. CASE p \in QuicProviders
    BY <2>1, QuicReapCases DEF DriveReap
  <2>2. CASE p \notin QuicProviders
    BY <2>2, HttpReapCases DEF DriveReap
  <2> QED
    BY <2>1, <2>2
<1>3. CASE DoFailover(p, c, standby[p], NoJob) /\ UNCHANGED results
  <2>1. /\ active' \in [Provider -> Conn] /\ standby' \in [Provider -> Conn]
        /\ inflight' \in [Provider -> {NoJob} \cup Job]
        /\ reqs' \in Seq(Provider) /\ Len(reqs') <= ReqCap
    BY <1>1, <1>3, DoFailoverType
  <2> QED
    BY <1>3, <2>1 DEF DriveReap, WorkerTypeOK
<1>4. CASE /\ active' = [active EXCEPT ![p] = c]
           /\ UNCHANGED <<standby, reqs>>
           /\ inflight' = inflight \/ inflight' = [inflight EXCEPT ![p] = NoJob]
           /\ UNCHANGED results \/ \E o \in Outcome : PushResult(p, o)
  <2>1. /\ results' \in [Provider -> Seq(Outcome)]
        /\ \A q \in Provider : Len(results'[q]) <= ResultRing
    BY <1>4, PushResultType DEF WorkerTypeOK
  <2> QED
    BY <1>4, <2>1 DEF DriveReap, WorkerTypeOK
<1> QED
    BY <1>2, <1>3, <1>4

\* check_standby_deliveries preserves the types.
LEMMA CheckStandbyType ==
    ASSUME WorkerTypeOK, NEW P \in SUBSET Provider, CheckStandby(P)
    PROVE  /\ standby' \in [Provider -> Conn]
           /\ resp' \in [Provider -> Seq(Conn)]
           /\ \A p \in Provider : Len(resp'[p]) <= 1
<1>1. ASSUME NEW p \in Provider, resp[p] # <<>>
      PROVE  Head(resp[p]) \in Conn /\ Tail(resp[p]) \in Seq(Conn) /\ Len(Tail(resp[p])) <= 1
    BY <1>1, HeadTailProperties DEF WorkerTypeOK
<1> QED
    BY <1>1 DEF CheckStandby, WorkerTypeOK

\* Handlers that touch only p, and of a QUIC provider's standby only by a
\* swap that leaves a closed one, keep StandbyForgets.
LEMMA OnlyForgets ==
    ASSUME StandbyForgets, NEW p \in Provider, Only(p), UNCHANGED resp,
           p \in QuicProviders => \/ standby'[p] = standby[p]
                                  \/ standby'[p].closed
    PROVE  StandbyForgets'
BY DEF StandbyForgets, Only

\* What send_to does to p: the job in flight stays, is dropped or is
\* replaced by j, and then the send has been counted.
LEMMA SendToEffect ==
    ASSUME WorkerTypeOK, StandbyForgets, NEW p \in Provider, NEW j \in Job,
           SendTo(p, j), UNCHANGED resp
    PROVE  /\ Only(p) /\ StandbyForgets' /\ results' = results
           /\ \/ /\ jobsSent'[p] = jobsSent[p]
                 /\ (Outstanding(p))' \in {Outstanding(p), NoJob}
              \/ /\ jobsSent'[p] = jobsSent[p] + 1
                 /\ (Outstanding(p))' \in {Outstanding(p), NoJob, j}
<1>1. active[p] \in Conn /\ standby[p] \in Conn
    BY DEF WorkerTypeOK
<1>2. results' = results
    BY DEF SendTo
<1>3. CASE p \in QuicProviders
  <2>1. PICK c \in QuicSendTx(active[p], j) : active' = [active EXCEPT ![p] = c]
    BY <1>3 DEF SendTo, QuicSend
  <2>2. c.closed = active[p].closed /\ (c = active[p] \/ c.inflight = j)
    BY <1>1, QuicSendTxType
  <2>3. CountSent(p) /\ UNCHANGED <<standby, inflight>>
    BY <1>3 DEF SendTo, QuicSend
  <2>4. jobsSent'[p] = jobsSent[p] + 1
    BY <2>3, CountSentType
  <2>5. active'[p] = c
    BY <2>1 DEF WorkerTypeOK
  <2>6. (Outstanding(p))' \in {Outstanding(p), NoJob, j}
    BY <1>3, <2>2, <2>5 DEF Outstanding
  <2>7. Only(p)
    BY <1>2, <2>1, <2>3 DEF Only, CountSent, WorkerTypeOK
  <2>8. StandbyForgets'
    BY <2>3, <2>7, OnlyForgets
  <2> QED
    BY <1>2, <2>4, <2>6, <2>7, <2>8
<1>4. CASE p \notin QuicProviders /\ HttpSend(p, j)
  <2>1. \/ inflight' = [inflight EXCEPT ![p] = j] /\ CountSent(p)
        \/ UNCHANGED <<inflight, jobsSent>>
    BY <1>4 DEF HttpSend
  <2>2. Only(p)
    BY <1>2, <1>4, <2>1 DEF HttpSend, Only, CountSent, WorkerTypeOK
  <2>3. StandbyForgets'
    BY <1>4, <2>2, OnlyForgets
  <2>4. (Outstanding(p))' = inflight'[p] /\ Outstanding(p) = inflight[p]
    BY <1>4 DEF Outstanding
  <2> QED
    BY <1>2, <2>1, <2>2, <2>3, <2>4, CountSentType DEF WorkerTypeOK
<1>5. CASE p \notin QuicProviders /\ HttpSendRetry(p, j)
  <2>1. PICK c, d :
            \/ DoFailover(p, c, d, j) /\ CountSent(p)
            \/ DoFailover(p, c, d, NoJob) /\ UNCHANGED jobsSent
    BY <1>5 DEF HttpSendRetry
  <2>2. Only(p)
    BY <1>2, <2>1 DEF DoFailover, Only, CountSent, WorkerTypeOK
  <2>3. StandbyForgets'
    BY <1>5, <2>2, OnlyForgets
  <2>4. (Outstanding(p))' = inflight'[p]
    BY <1>5 DEF Outstanding
  <2> QED
    BY <1>2, <2>1, <2>2, <2>3, <2>4, CountSentType DEF DoFailover, WorkerTypeOK
<1> QED
    BY <1>3, <1>4, <1>5 DEF SendTo

\* What drive and reap do to p: the job in flight stays, is dropped by a
\* failover, or is settled by an outcome of its own.
LEMMA DriveReapEffect ==
    ASSUME WorkerTypeOK, StandbyForgets, NEW p \in Provider,
           DriveReap(p), UNCHANGED resp
    PROVE  /\ Only(p) /\ StandbyForgets' /\ jobsSent' = jobsSent
           /\ \/ /\ results'[p] = results[p]
                 /\ (Outstanding(p))' \in {Outstanding(p), NoJob}
              \/ /\ Outstanding(p) # NoJob /\ (Outstanding(p))' = NoJob
                 /\ \E o \in Outcome :
                       /\ o.job = Outstanding(p)
                       /\ results'[p] = Offer(results[p], ResultRing, o)
<1>1. jobsSent' = jobsSent
    BY DEF DriveReap
<1>2. CASE p \in QuicProviders
  <2>1. PICK c \in Conn :
          \/ /\ c.closed
             /\ DoFailover(p, c, standby[p], NoJob) /\ UNCHANGED results
          \/ /\ ~c.closed /\ ~active[p].closed
             /\ active' = [active EXCEPT ![p] = c]
             /\ UNCHANGED <<standby, inflight, reqs>>
             /\ \/ c.inflight = active[p].inflight /\ UNCHANGED results
                \/ /\ active[p].inflight # NoJob /\ c.inflight = NoJob
                   /\ \E o \in Outcome : o.job = active[p].inflight /\ PushResult(p, o)
    BY <1>2, QuicReapCases DEF DriveReap
  <2>2. CASE c.closed /\ DoFailover(p, c, standby[p], NoJob) /\ UNCHANGED results
    <3>1. active'[p] = standby[p] /\ standby'[p] = c
        BY <2>2 DEF DoFailover, WorkerTypeOK
    <3>2. (Outstanding(p))' = NoJob
        BY <1>2, <3>1 DEF Outstanding, StandbyForgets
    <3>3. Only(p)
        BY <1>1, <2>2 DEF DoFailover, Only, WorkerTypeOK
    <3>4. StandbyForgets'
        BY <2>2, <3>1, <3>3, OnlyForgets
    <3> QED
        BY <1>1, <2>2, <3>2, <3>3, <3>4
  <2>3. CASE ~c.closed
    <3>1. active'[p] = c
        BY <2>1, <2>3 DEF WorkerTypeOK
    <3>2. (Outstanding(p))' = c.inflight /\ Outstanding(p) = active[p].inflight
        BY <1>2, <2>1, <2>3, <3>1 DEF Outstanding
    <3>3. Only(p)
        BY <1>1, <2>1, <2>3 DEF PushResult, Only, WorkerTypeOK
    <3>4. StandbyForgets'
        BY <2>1, <2>3, <3>3, OnlyForgets
    <3> QED
        BY <1>1, <2>1, <2>3, <3>2, <3>3, <3>4 DEF PushResult, WorkerTypeOK
  <2> QED
    BY <2>1, <2>2, <2>3
<1>3. CASE p \notin QuicProviders
  <2>1. PICK c \in Conn :
          \/ DoFailover(p, c, standby[p], NoJob) /\ UNCHANGED results
          \/ /\ active' = [active EXCEPT ![p] = c]
             /\ UNCHANGED <<standby, reqs>>
             /\ \/ UNCHANGED <<inflight, results>>
                \/ /\ inflight[p] # NoJob
                   /\ inflight' = [inflight EXCEPT ![p] = NoJob]
                   /\ \E o \in Outcome : o.job = inflight[p] /\ PushResult(p, o)
    BY <1>3, HttpReapCases DEF DriveReap
  <2>2. Only(p)
    BY <1>1, <2>1 DEF DoFailover, PushResult, Only, WorkerTypeOK
  <2>3. StandbyForgets'
    BY <1>3, <2>2, OnlyForgets
  <2>4. (Outstanding(p))' = inflight'[p] /\ Outstanding(p) = inflight[p]
    BY <1>3 DEF Outstanding
  <2> QED
    BY <1>1, <2>1, <2>2, <2>3, <2>4 DEF DoFailover, PushResult, WorkerTypeOK
<1> QED
    BY <1>2, <1>3

-----------------------------------------------------------------------------
(* How the outcomes of one provider may change.                            *)

\* The job in flight for a provider is a number.
LEMMA OutstandingNat ==
    ASSUME WorkerTypeOK, NEW p \in Provider
    PROVE  Outstanding(p) \in Nat
<1>1. active[p].inflight \in {NoJob} \cup Job
    BY DEF WorkerTypeOK, Conn
<1>2. Outstanding(p) \in {NoJob} \cup Job
    BY <1>1 DEF Outstanding, WorkerTypeOK
<1> QED
    BY <1>2, MaxJobsAssumption DEF NoJob, Job

\* The job of an outcome is a number.
LEMMA OutcomeJobs ==
    ASSUME NEW s \in Seq(Outcome)
    PROVE  \A i \in 1 .. Len(s) : s[i].job \in Nat
<1> SUFFICES ASSUME NEW i \in 1 .. Len(s) PROVE s[i].job \in Nat
    OBVIOUS
<1>1. s[i] \in Outcome
    OBVIOUS
<1> QED
    BY <1>1, MaxJobsAssumption DEF Outcome, Job

\* Nothing is settled: the job in flight stays or is dropped.
LEMMA KeepSettled ==
    ASSUME NEW s \in Seq(Outcome), NEW r \in Seq(Outcome), NEW out \in Nat,
           NEW sent \in Nat, NEW bound \in Nat, NEW out2, NEW bound2 \in Nat,
           SettledAt(s, r, out, sent, bound),
           out2 \in {out, NoJob}, bound <= bound2
    PROVE  SettledAt(s, r, out2, sent, bound2)
<1>1. /\ \A i \in 1 .. Len(s) : s[i].job \in Nat
      /\ \A i \in 1 .. Len(r) : r[i].job \in Nat
    BY OutcomeJobs
<1> QED
    BY <1>1 DEF SettledAt, InOrder, AllBelow, NoJob

\* A job newer than all the others is sent and counted; it is in flight,
\* or its send failed.
LEMMA SendSettled ==
    ASSUME NEW s \in Seq(Outcome), NEW r \in Seq(Outcome), NEW out \in Nat,
           NEW sent \in Nat, NEW bound \in Nat, NEW out2, NEW job \in Nat,
           SettledAt(s, r, out, sent, bound), bound < job,
           out2 \in {out, NoJob, job}
    PROVE  SettledAt(s, r, out2, sent + 1, job)
<1>1. /\ \A i \in 1 .. Len(s) : s[i].job \in Nat
      /\ \A i \in 1 .. Len(r) : r[i].job \in Nat
    BY OutcomeJobs
<1> QED
    BY <1>1, SMTT(30) DEF SettledAt, InOrder, AllBelow, NoJob

\* The job in flight is settled: its outcome is offered to the ring.
LEMMA PushSettled ==
    ASSUME NEW s \in Seq(Outcome), NEW r \in Seq(Outcome), NEW out \in Nat,
           NEW sent \in Nat, NEW bound \in Nat, NEW x \in Outcome, NEW cap \in Nat,
           SettledAt(s, r, out, sent, bound), out # NoJob, x.job = out
    PROVE  SettledAt(s, Offer(r, cap, x), NoJob, sent, bound)
<1>1. /\ \A i \in 1 .. Len(s) : s[i].job \in Nat
      /\ \A i \in 1 .. Len(r) : r[i].job \in Nat
    BY OutcomeJobs
<1>2. CASE Offer(r, cap, x) = r
    BY <1>2, KeepSettled DEF NoJob
<1>3. CASE Offer(r, cap, x) = Append(r, x)
  <2> DEFINE t == Append(r, x)
  <2>1. /\ t \in Seq(Outcome) /\ Len(t) = Len(r) + 1 /\ t[Len(r) + 1] = x
        /\ \A i \in 1 .. Len(r) : t[i] = r[i]
    BY AppendProperties
  <2> HIDE DEF t
  <2>2. /\ out <= bound
        /\ Increasing(s) /\ Increasing(r) /\ Precedes(s, r)
        /\ \A i \in 1 .. Len(s) : s[i].job < out
        /\ \A i \in 1 .. Len(r) : r[i].job < out
    BY DEF SettledAt, InOrder, AllBelow
  <2>4. Increasing(t)
    <3> SUFFICES ASSUME NEW i \in 1 .. Len(t), NEW k \in 1 .. Len(t), i < k
                 PROVE  t[i].job < t[k].job
        BY DEF Increasing
    <3>1. i \in 1 .. Len(r) /\ t[i] = r[i]
        BY <2>1
    <3>2. CASE k = Len(r) + 1
        BY <2>1, <2>2, <3>1, <3>2
    <3>3. CASE k # Len(r) + 1
      <4>1. k \in 1 .. Len(r) /\ t[k] = r[k]
          BY <2>1, <3>3
      <4> QED BY <2>2, <3>1, <4>1 DEF Increasing
    <3> QED BY <3>2, <3>3
  <2>5. Precedes(s, t)
    <3> SUFFICES ASSUME NEW i \in 1 .. Len(s), NEW k \in 1 .. Len(t)
                 PROVE  s[i].job < t[k].job
        BY DEF Precedes
    <3>1. CASE k = Len(r) + 1
        BY <2>1, <2>2, <3>1
    <3>2. CASE k # Len(r) + 1
      <4>1. k \in 1 .. Len(r) /\ t[k] = r[k]
          BY <2>1, <3>2
      <4> QED BY <2>2, <4>1 DEF Precedes
    <3> QED BY <3>1, <3>2
  <2>6. AllBelow(s, bound + 1)
    BY <1>1, <2>2 DEF AllBelow
  <2>7. AllBelow(t, bound + 1)
    <3> SUFFICES ASSUME NEW k \in 1 .. Len(t) PROVE t[k].job < bound + 1
        BY DEF AllBelow
    <3>1. CASE k = Len(r) + 1
        BY <2>1, <2>2, <3>1
    <3>2. CASE k # Len(r) + 1
      <4>1. k \in 1 .. Len(r) /\ t[k] = r[k]
          BY <2>1, <3>2
      <4> QED BY <1>1, <2>2, <4>1
    <3> QED BY <3>1, <3>2
  <2>8. SettledAt(s, t, NoJob, sent, bound)
    BY <2>1, <2>2, <2>4, <2>5, <2>6, <2>7 DEF SettledAt, InOrder, NoJob
  <2> QED
    BY <1>3, <2>8 DEF t
<1> QED
    BY <1>2, <1>3, OfferType

\* The lane moves the oldest outcome from the ring to the sink.
LEMMA MoveSettled ==
    ASSUME NEW s \in Seq(Outcome), NEW r \in Seq(Outcome), NEW out \in Nat,
           NEW sent \in Nat, NEW bound \in Nat,
           SettledAt(s, r, out, sent, bound), r # <<>>
    PROVE  SettledAt(Append(s, Head(r)), Tail(r), out, sent, bound)
<1> DEFINE t == Append(s, Head(r))
           u == Tail(r)
           n == IF out # NoJob THEN out ELSE bound + 1
<1>1. /\ \A i \in 1 .. Len(s) : s[i].job \in Nat
      /\ \A i \in 1 .. Len(r) : r[i].job \in Nat
    BY OutcomeJobs
<1>2. /\ Head(r) \in Outcome /\ Head(r) = r[1] /\ Len(r) > 0
      /\ u \in Seq(Outcome) /\ Len(u) = Len(r) - 1
      /\ \A i \in 1 .. Len(u) : u[i] = r[i + 1]
    BY HeadTailProperties
<1>3. /\ t \in Seq(Outcome) /\ Len(t) = Len(s) + 1 /\ t[Len(s) + 1] = r[1]
      /\ \A i \in 1 .. Len(s) : t[i] = s[i]
    BY <1>2, AppendProperties
<1>4. n \in Nat /\ InOrder(s, r, n)
    BY DEF SettledAt
<1> HIDE DEF t, u, n
<1>5. \A k \in 1 .. Len(u) : k + 1 \in 1 .. Len(r)
    BY <1>2
<1>6. Increasing(t)
  <2> SUFFICES ASSUME NEW i \in 1 .. Len(t), NEW k \in 1 .. Len(t), i < k
               PROVE  t[i].job < t[k].job
      BY DEF Increasing
  <2>1. i \in 1 .. Len(s) /\ t[i] = s[i]
      BY <1>3
  <2>2. CASE k = Len(s) + 1
      BY <1>2, <1>3, <1>4, <2>1, <2>2, SMTT(30) DEF InOrder, Precedes
  <2>3. CASE k # Len(s) + 1
    <3>1. k \in 1 .. Len(s) /\ t[k] = s[k]
        BY <1>3, <2>3, SMTT(30)
    <3>2. s[i].job < s[k].job
        BY <1>4, <2>1, <3>1 DEF InOrder, Increasing
    <3> QED BY <2>1, <3>1, <3>2
  <2> QED BY <2>2, <2>3
<1>7. Increasing(u)
  <2> SUFFICES ASSUME NEW i \in 1 .. Len(u), NEW k \in 1 .. Len(u), i < k
               PROVE  u[i].job < u[k].job
      BY DEF Increasing
  <2>1. r[i + 1].job < r[k + 1].job
      BY <1>4, <1>5 DEF InOrder, Increasing
  <2> QED BY <1>2, <2>1
<1>8. Precedes(t, u)
  <2> SUFFICES ASSUME NEW i \in 1 .. Len(t), NEW k \in 1 .. Len(u)
               PROVE  t[i].job < u[k].job
      BY DEF Precedes
  <2>1. k + 1 \in 1 .. Len(r) /\ u[k] = r[k + 1]
      BY <1>2, <1>5
  <2>2. CASE i = Len(s) + 1
    <3>1. r[1].job < r[k + 1].job
        BY <1>2, <1>4, <2>1, SMTT(30) DEF InOrder, Increasing
    <3> QED BY <1>3, <2>1, <2>2, <3>1
  <2>3. CASE i # Len(s) + 1
    <3>1. i \in 1 .. Len(s) /\ t[i] = s[i]
        BY <1>3, <2>3
    <3> QED BY <1>4, <2>1, <3>1 DEF InOrder, Precedes
  <2> QED BY <2>2, <2>3
<1>9. AllBelow(t, n)
  <2> SUFFICES ASSUME NEW i \in 1 .. Len(t) PROVE t[i].job < n
      BY DEF AllBelow
  <2>1. CASE i = Len(s) + 1
      BY <1>2, <1>3, <1>4, <2>1 DEF InOrder, AllBelow
  <2>2. CASE i # Len(s) + 1
    <3>1. i \in 1 .. Len(s) /\ t[i] = s[i]
        BY <1>3, <2>2
    <3> QED BY <1>4, <3>1 DEF InOrder, AllBelow
  <2> QED BY <2>1, <2>2
<1>10. AllBelow(u, n)
    BY <1>2, <1>4, <1>5 DEF InOrder, AllBelow
<1> QED
    BY <1>2, <1>3, <1>6, <1>7, <1>8, <1>9, <1>10 DEF SettledAt, InOrder, t, u, n

-----------------------------------------------------------------------------
(* The threads beside the workers, and the network.                        *)

\* A step of the reconnect thread, of the lane, of shutdown or of the
\* network, whichever engine runs.
OtherStep ==
    \/ ReconnectStep \/ LaneStep
    \/ /\ stop' \in BOOLEAN /\ joined' \in BOOLEAN
       /\ UNCHANGED <<workerVars, reconnectVars, laneVars, netVars>>
    \/ \E p \in Provider : \/ Respond(p) \/ QuicTime(p)
                           \/ Break(p) \/ NetDown(p) \/ NetRestore(p)

\* run_reconnect_loop preserves the types: the request channel only shrinks
\* and a response channel never holds more than one connection.
LEMMA ReconnectType ==
    ASSUME WorkerTypeOK, ThreadsTypeOK, ReconnectStep
    PROVE  WorkerTypeOK' /\ ThreadsTypeOK'
<1>0. 0 \in Provider
    BY DEF Provider
<1>1. /\ rpc' \in {"recv", "build", "done"} /\ rreq' \in Provider
      /\ reqs' \in Seq(Provider) /\ Len(reqs') <= ReqCap
      /\ resp' \in [Provider -> Seq(Conn)]
      /\ \A p \in Provider : Len(resp'[p]) <= 1
  <2>1. CASE ReconnectRecv
    <3>1. reqs \in Seq(Provider) /\ reqs # <<>> /\ Len(reqs) <= ReqCap /\ ReqCap \in Nat
        BY <2>1, WorkerAssumption DEF ReconnectRecv, WorkerTypeOK
    <3>2. /\ Head(reqs) \in Provider /\ Tail(reqs) \in Seq(Provider)
          /\ Len(Tail(reqs)) <= ReqCap
        BY <3>1, HeadTailProperties
    <3> QED
        BY <2>1, <3>2 DEF ReconnectRecv, WorkerTypeOK
  <2>2. CASE ReconnectTimeout
      BY <2>2 DEF ReconnectTimeout, NextRound, WorkerTypeOK, ThreadsTypeOK
  <2>3. CASE ReconnectBuildOk
    <3> DEFINE s == Offer(resp[rreq], 1, FreshConn)
    <3>1. rreq \in Provider /\ resp[rreq] \in Seq(Conn) /\ Len(resp[rreq]) <= 1
        BY DEF WorkerTypeOK, ThreadsTypeOK
    <3>2. s \in Seq(Conn) /\ Len(s) <= 1
        BY <3>1, OfferType, FreshConnType
    <3>3. resp' = [resp EXCEPT ![rreq] = s]
        BY <2>3 DEF ReconnectBuildOk
    <3> HIDE DEF s
    <3> QED
        BY <1>0, <2>3, <3>1, <3>2, <3>3 DEF ReconnectBuildOk, NextRound, WorkerTypeOK
  <2>4. CASE ReconnectBuildErr
      BY <1>0, <2>4 DEF ReconnectBuildErr, NextRound, WorkerTypeOK
  <2> QED
      BY <2>1, <2>2, <2>3, <2>4 DEF ReconnectStep
<1>2. WorkerTypeOK'
    BY <1>1 DEF ReconnectStep, WorkerTypeOK
<1>3. ThreadsTypeOK'
    BY <1>1 DEF ReconnectStep, ThreadsTypeOK, laneVars, netVars
<1> QED
    BY <1>2, <1>3

\* ResultLane::run preserves the types.
LEMMA LaneType ==
    ASSUME WorkerTypeOK, ThreadsTypeOK, LaneStep
    PROVE  WorkerTypeOK' /\ ThreadsTypeOK'
<1>0. 0 \in Provider /\ N \in Nat
    BY DEF Provider
<1>1. /\ lpc' \in {"scan", "done"} /\ lidx' \in Provider
      /\ sink' \in [Provider -> Seq(Outcome)]
      /\ results' \in [Provider -> Seq(Outcome)]
      /\ \A p \in Provider : Len(results'[p]) <= ResultRing
  <2>1. CASE LanePop
    <3>1. /\ lidx \in Provider /\ sink[lidx] \in Seq(Outcome)
          /\ results[lidx] \in Seq(Outcome) /\ results[lidx] # <<>>
        BY <2>1 DEF LanePop, WorkerTypeOK, ThreadsTypeOK
    <3>2. /\ Head(results[lidx]) \in Outcome /\ Tail(results[lidx]) \in Seq(Outcome)
          /\ Len(Tail(results[lidx])) <= ResultRing
        BY <3>1, HeadTailProperties, WorkerAssumption DEF WorkerTypeOK
    <3>3. Append(sink[lidx], Head(results[lidx])) \in Seq(Outcome)
        BY <3>1, <3>2, AppendProperties
    <3> QED
        BY <2>1, <3>1, <3>2, <3>3 DEF LanePop, WorkerTypeOK, ThreadsTypeOK
  <2>2. CASE LaneAdvance
    <3>1. lidx' \in Provider
        BY <1>0, <2>2 DEF LaneAdvance, ThreadsTypeOK, Provider
    <3> QED
        BY <2>2, <3>1 DEF LaneAdvance, WorkerTypeOK, ThreadsTypeOK
  <2> QED
      BY <2>1, <2>2 DEF LaneStep
<1>2. WorkerTypeOK'
    BY <1>1 DEF LaneStep, WorkerTypeOK
<1>3. ThreadsTypeOK'
    BY <1>1 DEF LaneStep, ThreadsTypeOK, reconnectVars, netVars
<1> QED
    BY <1>2, <1>3

\* What a peer writes, and time, keep a connection a connection.
LEMMA PeerType ==
    ASSUME WorkerTypeOK, ThreadsTypeOK, NEW p \in Provider, Respond(p) \/ QuicTime(p)
    PROVE  WorkerTypeOK' /\ ThreadsTypeOK'
<1>1. active[p] \in Conn
    BY DEF WorkerTypeOK
<1>2. active' \in [Provider -> Conn]
  <2>1. CASE Respond(p)
    <3> DEFINE c == [active[p] EXCEPT !.reqs = Tail(active[p].reqs),
                         !.inbox = active[p].inbox \o Response(Head(active[p].reqs))]
    <3>1. Head(active[p].reqs) \in Job /\ Tail(active[p].reqs) \in Seq(Job)
        BY <1>1, <2>1, HeadTailProperties DEF Respond, Conn
    <3>2. Response(Head(active[p].reqs)) \in Seq(Frag)
        BY <3>1 DEF Response, Frag
    <3>3. active[p].inbox \o Response(Head(active[p].reqs)) \in Seq(Frag)
        BY <1>1, <3>2, ConcatProperties DEF Conn
    <3>4. c \in Conn
        BY <1>1, <3>1, <3>3 DEF Conn
    <3>5. active' = [active EXCEPT ![p] = c]
        BY <2>1, <1>1 DEF Respond, Conn, WorkerTypeOK
    <3> QED
        BY <3>4, <3>5 DEF WorkerTypeOK
  <2>2. CASE QuicTime(p)
    <3>1. PICK c \in {[active[p] EXCEPT !.sock = "rst"], [active[p] EXCEPT !.elapsed = TRUE]} :
              active' = [active EXCEPT ![p] = c]
        BY <2>2, <1>1 DEF QuicTime, Conn, WorkerTypeOK
    <3>2. c \in Conn
        BY <1>1, <3>1 DEF Conn
    <3> QED
        BY <3>1, <3>2 DEF WorkerTypeOK
  <2> QED
      BY <2>1, <2>2
<1>3. WorkerTypeOK'
    BY <1>2 DEF Respond, QuicTime, WorkerTypeOK
<1>4. ThreadsTypeOK'
    BY DEF Respond, QuicTime, ThreadsTypeOK, threadVars
<1> QED
    BY <1>3, <1>4

\* A connection whose peer has gone away is a connection.
LEMMA BrokenType ==
    ASSUME NEW c \in Conn, NEW s \in {"fin", "rst", "tmo"}, NEW k \in 0 .. Len(c.inbox)
    PROVE  /\ Broken(c, s, k) \in Conn
           /\ Broken(c, s, k).inflight = c.inflight
           /\ Broken(c, s, k).closed = c.closed
<1>1. c.inbox \in Seq(Frag)
    BY DEF Conn
<1>2. SubSeq(c.inbox, 1, k) \in Seq(Frag) /\ <<>> \in Seq(Job)
    BY <1>1, SubSeqProperties
<1> QED
    BY <1>2 DEF Broken, Conn

\* What Break does, whichever failures the constants allow.
LEMMA BreakCases ==
    ASSUME NEW p \in Provider, Break(p)
    PROVE  \E s \in {"fin", "rst", "tmo"} :
              \/ /\ active[p].sock = "up"
                 /\ \E k \in 0 .. Len(active[p].inbox) :
                        active' = [active EXCEPT ![p] = Broken(active[p], s, k)]
                 /\ UNCHANGED <<standby, resp>>
              \/ /\ standby[p].sock = "up"
                 /\ standby' = [standby EXCEPT ![p] = Broken(standby[p], s, 0)]
                 /\ UNCHANGED <<active, resp>>
              \/ /\ resp[p] # <<>>
                 /\ resp' = [resp EXCEPT ![p] = <<Broken(resp[p][1], s, 0)>>]
                 /\ UNCHANGED <<active, standby>>
BY ThreadsAssumption DEF Break

\* A connection that breaks keeps the types, and what standby connections
\* and the active ones' jobs are.
LEMMA BreakEffect ==
    ASSUME WorkerTypeOK, ThreadsTypeOK, NEW p \in Provider, Break(p)
    PROVE  /\ WorkerTypeOK' /\ ThreadsTypeOK'
           /\ StandbyForgets => StandbyForgets'
           /\ \A q \in Provider : /\ active'[q].inflight = active[q].inflight
                                  /\ active'[q].closed = active[q].closed
<1>1. active[p] \in Conn /\ standby[p] \in Conn
    BY DEF WorkerTypeOK
<1>2. resp[p] # <<>> => resp[p] \in Seq(Conn) /\ resp[p][1] \in Conn /\ 1 \in 1 .. Len(resp[p])
    BY DEF WorkerTypeOK
<1>3. \A c \in Conn : <<c>> \in Seq(Conn) /\ Len(<<c>>) = 1 /\ <<c>>[1] = c
    OBVIOUS
<1>4. \A c \in Conn : 0 \in 0 .. Len(c.inbox)
    BY DEF Conn
<1>5. PICK s \in {"fin", "rst", "tmo"} :
          \/ /\ \E k \in 0 .. Len(active[p].inbox) :
                    active' = [active EXCEPT ![p] = Broken(active[p], s, k)]
             /\ UNCHANGED <<standby, resp>>
          \/ /\ standby' = [standby EXCEPT ![p] = Broken(standby[p], s, 0)]
             /\ UNCHANGED <<active, resp>>
          \/ /\ resp[p] # <<>>
             /\ resp' = [resp EXCEPT ![p] = <<Broken(resp[p][1], s, 0)>>]
             /\ UNCHANGED <<active, standby>>
    BY BreakCases
<1>6. /\ active' \in [Provider -> Conn] /\ standby' \in [Provider -> Conn]
      /\ resp' \in [Provider -> Seq(Conn)]
      /\ \A q \in Provider : Len(resp'[q]) <= 1
      /\ StandbyForgets => StandbyForgets'
      /\ \A q \in Provider : /\ active'[q].inflight = active[q].inflight
                             /\ active'[q].closed = active[q].closed
  <2>1. CASE /\ \E k \in 0 .. Len(active[p].inbox) :
                   active' = [active EXCEPT ![p] = Broken(active[p], s, k)]
             /\ UNCHANGED <<standby, resp>>
    <3>1. PICK k \in 0 .. Len(active[p].inbox) :
              active' = [active EXCEPT ![p] = Broken(active[p], s, k)]
        BY <2>1
    <3>2. /\ Broken(active[p], s, k) \in Conn
          /\ Broken(active[p], s, k).inflight = active[p].inflight
          /\ Broken(active[p], s, k).closed = active[p].closed
        BY <1>1, BrokenType
    <3>3. StandbyForgets => StandbyForgets'
        BY <2>1 DEF StandbyForgets
    <3> QED
        BY <2>1, <3>1, <3>2, <3>3 DEF WorkerTypeOK
  <2>2. CASE /\ standby' = [standby EXCEPT ![p] = Broken(standby[p], s, 0)]
             /\ UNCHANGED <<active, resp>>
    <3>1. /\ Broken(standby[p], s, 0) \in Conn
          /\ Broken(standby[p], s, 0).inflight = standby[p].inflight
          /\ Broken(standby[p], s, 0).closed = standby[p].closed
        BY <1>1, <1>4, BrokenType
    <3>2. /\ standby'[p].inflight = standby[p].inflight
          /\ standby'[p].closed = standby[p].closed
          /\ \A q \in Provider \ {p} : standby'[q] = standby[q]
        BY <2>2, <3>1 DEF WorkerTypeOK
    <3>3. StandbyForgets => StandbyForgets'
        BY <2>2, <3>2, WorkerAssumption DEF StandbyForgets
    <3> QED
        BY <2>2, <3>1, <3>3 DEF WorkerTypeOK
  <2>3. CASE /\ resp[p] # <<>>
             /\ resp' = [resp EXCEPT ![p] = <<Broken(resp[p][1], s, 0)>>]
             /\ UNCHANGED <<active, standby>>
    <3>1. /\ Broken(resp[p][1], s, 0) \in Conn
          /\ Broken(resp[p][1], s, 0).inflight = resp[p][1].inflight
        BY <1>2, <1>4, <2>3, BrokenType
    <3>2. StandbyForgets => StandbyForgets'
      <4>1. StandbyForgets /\ p \in QuicProviders => Broken(resp[p][1], s, 0).inflight = NoJob
          BY <1>2, <2>3, <3>1 DEF StandbyForgets
      <4> QED
          BY <2>3, <4>1, WorkerAssumption DEF StandbyForgets, WorkerTypeOK
    <3> QED
        BY <1>3, <2>3, <3>1, <3>2 DEF WorkerTypeOK
  <2> QED
      BY <1>5, <2>1, <2>2, <2>3
<1>7. WorkerTypeOK'
    BY <1>6 DEF Break, WorkerTypeOK
<1>8. ThreadsTypeOK'
    BY ThreadsAssumption DEF Break, ThreadsTypeOK, reconnectVars, laneVars
<1> QED
    BY <1>6, <1>7, <1>8

\* Every step beside the workers' preserves the types.
LEMMA OtherTypes ==
    ASSUME WorkerTypeOK, ThreadsTypeOK, OtherStep
    PROVE  WorkerTypeOK' /\ ThreadsTypeOK'
<1>1. CASE ReconnectStep
    BY <1>1, ReconnectType
<1>2. CASE LaneStep
    BY <1>2, LaneType
<1>3. CASE /\ stop' \in BOOLEAN /\ joined' \in BOOLEAN
           /\ UNCHANGED <<workerVars, reconnectVars, laneVars, netVars>>
  <2>1. WorkerTypeOK'
    BY <1>3 DEF WorkerTypeOK, workerVars
  <2>2. ThreadsTypeOK'
    BY <1>3 DEF ThreadsTypeOK, reconnectVars, laneVars, netVars
  <2> QED BY <2>1, <2>2
<1>4. ASSUME NEW p \in Provider, Respond(p) \/ QuicTime(p)
      PROVE  WorkerTypeOK' /\ ThreadsTypeOK'
    BY <1>4, PeerType
<1>5. ASSUME NEW p \in Provider, Break(p)
      PROVE  WorkerTypeOK' /\ ThreadsTypeOK'
    BY <1>5, BreakEffect
<1>6. ASSUME NEW p \in Provider, NetDown(p) \/ NetRestore(p)
      PROVE  WorkerTypeOK' /\ ThreadsTypeOK'
  <2>1. WorkerTypeOK'
    BY <1>6 DEF NetDown, NetRestore, WorkerTypeOK, workerVars
  <2>2. net' \in [Provider -> NetStates] /\ faults' \in 0 .. MaxFaults
    <3>1. CASE NetDown(p)
        BY <3>1, ThreadsAssumption DEF NetDown, ThreadsTypeOK
    <3>2. CASE NetRestore(p)
        BY <3>2, ThreadsAssumption DEF NetRestore, ThreadsTypeOK
    <3> QED BY <1>6, <3>1, <3>2
  <2>3. ThreadsTypeOK'
    BY <1>6, <2>2 DEF NetDown, NetRestore, ThreadsTypeOK, reconnectVars, laneVars
  <2> QED BY <2>1, <2>3
<1> QED
    BY <1>1, <1>2, <1>3, <1>4, <1>5, <1>6 DEF OtherStep

\* Every step beside the workers' keeps what standby connections remember
\* harmless.
LEMMA OtherForgets ==
    ASSUME WorkerTypeOK, ThreadsTypeOK, StandbyForgets, OtherStep
    PROVE  StandbyForgets'
<1>1. CASE UNCHANGED <<standby, resp>>
    BY <1>1 DEF StandbyForgets
<1>2. CASE ReconnectStep
  <2>1. CASE ReconnectBuildOk
    <3>1. rreq \in Provider /\ standby' = standby
        BY <1>2 DEF ReconnectStep, ThreadsTypeOK
    <3> SUFFICES ASSUME NEW p \in QuicProviders, NEW k \in 1 .. Len(resp'[p])
                 PROVE  resp'[p][k].inflight = NoJob
        BY <3>1 DEF StandbyForgets
    <3>2. CASE resp'[p] = resp[p]
        BY <3>2 DEF StandbyForgets
    <3>3. CASE resp'[p] # resp[p]
      <4>1. p = rreq /\ resp[p] \in Seq(Conn) /\ resp'[p] = Offer(resp[p], 1, FreshConn)
          BY <2>1, <3>1, <3>3, WorkerAssumption DEF ReconnectBuildOk, WorkerTypeOK
      <4>2. resp'[p] = Append(resp[p], FreshConn)
          BY <3>3, <4>1 DEF Offer
      <4>3. PICK u \in Seq(Conn) : u = resp[p]
          BY <4>1
      <4>4. /\ Len(Append(u, FreshConn)) = Len(u) + 1 /\ Len(u) \in Nat
            /\ Append(u, FreshConn)[Len(u) + 1] = FreshConn
            /\ \A i \in 1 .. Len(u) : Append(u, FreshConn)[i] = u[i]
          BY FreshConnType, AppendProperties
      <4>5. k \in 1 .. Len(u) + 1
          BY <4>2, <4>3, <4>4
      <4>6. k = Len(u) + 1 \/ k \in 1 .. Len(u)
          BY <4>4, <4>5, SMT
      <4>7. k = Len(resp[p]) + 1 \/ (k \in 1 .. Len(resp[p]) /\ resp'[p][k] = resp[p][k])
          BY <4>2, <4>3, <4>4, <4>6
      <4>8. resp'[p][Len(resp[p]) + 1] = FreshConn
          BY <4>2, <4>3, <4>4
      <4> QED
          BY <4>7, <4>8, FreshConnType DEF StandbyForgets
    <3> QED BY <3>2, <3>3
  <2>2. CASE ReconnectRecv \/ ReconnectTimeout \/ ReconnectBuildErr
    BY <1>1, <1>2, <2>2 DEF ReconnectStep, ReconnectRecv, ReconnectTimeout, ReconnectBuildErr
  <2> QED
    BY <1>2, <2>1, <2>2 DEF ReconnectStep
<1>3. CASE \/ LaneStep
           \/ UNCHANGED <<workerVars, reconnectVars, laneVars, netVars>>
    BY <1>1, <1>3 DEF LaneStep, workerVars
<1>4. ASSUME NEW p \in Provider, Respond(p) \/ QuicTime(p) \/ NetDown(p) \/ NetRestore(p)
      PROVE  StandbyForgets'
    BY <1>1, <1>4 DEF Respond, QuicTime, NetRestore, NetDown, workerVars
<1>5. ASSUME NEW p \in Provider, Break(p)
      PROVE  StandbyForgets'
    BY <1>5, BreakEffect
<1> QED
    BY <1>2, <1>3, <1>4, <1>5 DEF OtherStep

\* The other threads and the network neither count jobs nor publish the count.
LEMMA OtherCounts ==
    ASSUME OtherStep
    PROVE  UNCHANGED <<jobsSent, diag>>
<1>1. CASE ReconnectStep \/ LaneStep \/ UNCHANGED workerVars
    BY <1>1 DEF ReconnectStep, LaneStep, workerVars
<1>2. ASSUME NEW q \in Provider,
             Respond(q) \/ QuicTime(q) \/ Break(q) \/ NetDown(q) \/ NetRestore(q)
      PROVE  UNCHANGED <<jobsSent, diag>>
    BY <1>2 DEF Respond, QuicTime, Break, NetDown, NetRestore, workerVars
<1> QED
    BY <1>1, <1>2 DEF OtherStep

\* Every step beside the workers' leaves the jobs in flight and the counts
\* alone; of the outcomes it moves at most one, from a ring to the sink.
LEMMA OtherSettles ==
    ASSUME WorkerTypeOK, ThreadsTypeOK, OtherStep, NEW p \in Provider
    PROVE  /\ jobsSent' = jobsSent
           /\ (Outstanding(p))' = Outstanding(p)
           /\ \/ sink'[p] = sink[p] /\ results'[p] = results[p]
              \/ /\ results[p] # <<>>
                 /\ sink'[p] = Append(sink[p], Head(results[p]))
                 /\ results'[p] = Tail(results[p])
<1>1. CASE UNCHANGED <<active, inflight, jobsSent>>
  <2>1. (Outstanding(p))' = Outstanding(p)
    BY <1>1 DEF Outstanding
  <2>2. CASE LaneStep
    <3>1. lidx \in Provider
        BY DEF ThreadsTypeOK
    <3>2. CASE LanePop /\ p = lidx
        BY <1>1, <2>1, <3>2 DEF LanePop, WorkerTypeOK, ThreadsTypeOK
    <3>3. CASE LaneAdvance \/ (LanePop /\ p # lidx)
        BY <1>1, <2>1, <3>1, <3>3 DEF LaneAdvance, LanePop, WorkerTypeOK, ThreadsTypeOK
    <3> QED
        BY <2>2, <3>2, <3>3 DEF LaneStep
  <2>3. CASE UNCHANGED <<sink, results>>
    BY <1>1, <2>1, <2>3
  <2>4. CASE ReconnectStep \/ UNCHANGED <<workerVars, laneVars>>
    BY <2>3, <2>4 DEF ReconnectStep, workerVars, laneVars
  <2>5. ASSUME NEW q \in Provider, NetDown(q) \/ NetRestore(q) \/ Respond(q) \/ QuicTime(q) \/ Break(q)
        PROVE  UNCHANGED <<sink, results>>
    BY <2>5 DEF NetDown, NetRestore, Respond, QuicTime, Break, workerVars, laneVars, threadVars
  <2> QED
    BY <2>2, <2>3, <2>4, <2>5 DEF OtherStep
<1>2. CASE ReconnectStep \/ LaneStep \/ UNCHANGED workerVars
    BY <1>1, <1>2 DEF ReconnectStep, LaneStep, workerVars
<1>3. ASSUME NEW q \in Provider, NetDown(q) \/ NetRestore(q)
      PROVE  UNCHANGED workerVars
    BY <1>3 DEF NetDown, NetRestore
<1>4. ASSUME NEW q \in Provider, Respond(q) \/ QuicTime(q) \/ Break(q)
      PROVE  /\ jobsSent' = jobsSent /\ (Outstanding(p))' = Outstanding(p)
             /\ sink'[p] = sink[p] /\ results'[p] = results[p]
  <2>1. UNCHANGED <<inflight, jobsSent, results, sink>>
    BY <1>4 DEF Respond, QuicTime, Break, threadVars, laneVars
  <2>2. /\ active'[p].inflight = active[p].inflight
        /\ active'[p].closed = active[p].closed
    <3>1. active[p] \in Conn /\ active[q] \in Conn
        BY DEF WorkerTypeOK
    <3>2. CASE (Respond(q) \/ QuicTime(q)) /\ p # q
        BY <3>2 DEF Respond, QuicTime, WorkerTypeOK
    <3>3. CASE p = q /\ Respond(q)
        BY <3>1, <3>3 DEF Respond, WorkerTypeOK, Conn
    <3>4. CASE p = q /\ QuicTime(q)
      <4>1. PICK c \in {[active[p] EXCEPT !.sock = "rst"],
                        [active[p] EXCEPT !.elapsed = TRUE]} :
                active' = [active EXCEPT ![p] = c]
          BY <3>1, <3>4 DEF QuicTime, WorkerTypeOK, Conn
      <4>2. c.inflight = active[p].inflight /\ c.closed = active[p].closed
          BY <3>1, <4>1 DEF Conn
      <4> QED BY <4>1, <4>2 DEF WorkerTypeOK
    <3>5. CASE Break(q)
        BY <3>5, BreakEffect
    <3> QED
        BY <1>4, <3>2, <3>3, <3>4, <3>5
  <2>3. (Outstanding(p))' = Outstanding(p)
    BY <2>1, <2>2 DEF Outstanding
  <2> QED
    BY <2>1, <2>3
<1> QED
    BY <1>2, <1>3, <1>4 DEF OtherStep

\* Of a provider whose outcomes are in order and counted they stay so
\* through every step beside the workers'.
LEMMA OtherSettled ==
    ASSUME WorkerTypeOK, ThreadsTypeOK, OtherStep, NEW p \in Provider, NEW bound \in Nat,
           SettledAt(sink[p], results[p], Outstanding(p), jobsSent[p], bound)
    PROVE  SettledAt(sink'[p], results'[p], (Outstanding(p))', jobsSent'[p], bound)
<1>1. /\ sink[p] \in Seq(Outcome) /\ results[p] \in Seq(Outcome)
      /\ jobsSent[p] \in Nat
    BY DEF WorkerTypeOK, ThreadsTypeOK
<1>2. Outstanding(p) \in Nat
    BY OutstandingNat
<1>3. jobsSent' = jobsSent /\ (Outstanding(p))' = Outstanding(p)
    BY OtherSettles
<1>4. CASE sink'[p] = sink[p] /\ results'[p] = results[p]
    BY <1>3, <1>4
<1>5. CASE /\ results[p] # <<>>
           /\ sink'[p] = Append(sink[p], Head(results[p]))
           /\ results'[p] = Tail(results[p])
  <2>1. SettledAt(Append(sink[p], Head(results[p])), Tail(results[p]),
                  Outstanding(p), jobsSent[p], bound)
    BY <1>1, <1>2, <1>5, MoveSettled
  <2> QED
    BY <1>3, <1>5, <2>1
<1> QED
    BY <1>4, <1>5, OtherSettles

-----------------------------------------------------------------------------
(* Standby connections.                                                    *)

\* check_standby_deliveries only installs connections with no job.
LEMMA CheckStandbyForgets ==
    ASSUME WorkerTypeOK, StandbyForgets, NEW P \in SUBSET Provider, CheckStandby(P)
    PROVE  StandbyForgets'
<1> SUFFICES ASSUME NEW p \in QuicProviders
             PROVE  /\ standby'[p].inflight # NoJob => standby'[p].closed
                    /\ \A k \in 1 .. Len(resp'[p]) : resp'[p][k].inflight = NoJob
    BY DEF StandbyForgets
<1>1. p \in Provider
    BY WorkerAssumption
<1>2. CASE p \notin P \/ resp[p] = <<>>
    BY <1>1, <1>2 DEF CheckStandby, StandbyForgets
<1>3. CASE p \in P /\ resp[p] # <<>>
  <2>1. resp[p] \in Seq(Conn) /\ standby'[p] = Head(resp[p]) /\ resp'[p] = Tail(resp[p])
    BY <1>1, <1>3 DEF CheckStandby, WorkerTypeOK
  <2>2. /\ standby'[p] = resp[p][1] /\ 1 \in 1 .. Len(resp[p])
        /\ Len(resp'[p]) = Len(resp[p]) - 1
        /\ \A k \in 1 .. Len(resp'[p]) : resp'[p][k] = resp[p][k + 1]
    BY <1>3, <2>1, HeadTailProperties
  <2>3. \A k \in 1 .. Len(resp'[p]) : k + 1 \in 1 .. Len(resp[p])
    BY <2>1, <2>2
  <2>4. \A k \in 1 .. Len(resp[p]) : resp[p][k].inflight = NoJob
    BY DEF StandbyForgets
  <2> QED
    BY <2>2, <2>3, <2>4
<1> QED
    BY <1>2, <1>3

-----------------------------------------------------------------------------
(* Failovers.                                                              *)

\* Sending on a live connection gives no reason to fail over.
LEMMA SendTxLive ==
    ASSUME NEW c \in Conn, NEW j \in Job, NEW r \in SendTx(c, j), HttpConnFailedIo(r.res)
    PROVE  c.sock # "up"
<1> SUFFICES ASSUME c.sock = "up" PROVE r.res \in {"ok", "Other", "EnvelopeError"}
    BY DEF HttpConnFailedIo
<1>1. CASE r \in RawLibcSubmit(c, j)
  <2>1. RawLibcSubmit(c, j) = {Sent(c, j)}
    BY DEF RawLibcSubmit
  <2> QED BY <1>1, <2>1 DEF Sent
<1>2. CASE r \in IoUringSubmit(c, j)
    BY <1>2 DEF IoUringSubmit, Sent
<1> QED
    BY <1>1, <1>2 DEF SendTx

\* Nor does polling one, whatever has arrived on it.
LEMMA PollResponseLive ==
    ASSUME NEW c \in Conn, NEW r \in PollResponse(c), HttpConnFailedIo(r.res)
    PROVE  c.sock # "up"
<1> SUFFICES ASSUME c.sock = "up" PROVE r.res \in {"ok", "Other"}
    BY DEF HttpConnFailedIo
<1>0. CASE r \in EnterFails(c)
    BY <1>0 DEF EnterFails
<1>1. PollRecv(c) = "ok"
    BY DEF PollRecv, RawLibcRecv, IoUringRecv
<1>2. CASE r \notin EnterFails(c)
  <2>1. PICK k \in IF c.inbox = <<>> THEN {0} ELSE 1 .. Len(c.inbox) :
            LET got == Ingest(c.rx, SubSeq(c.inbox, 1, k))
            IN  r = [res |-> "ok", body |-> got.body,
                     conn |-> [c EXCEPT !.rx = got.rx,
                                        !.inbox = SubSeq(c.inbox, k + 1, Len(c.inbox))]]
    BY <1>1, <1>2 DEF PollResponse
  <2> QED BY <2>1
<1> QED
    BY <1>0, <1>2

\* A handler for p that leaves the standby and the request channel alone, or
\* fails over from a connection whose peer is gone.
Failover(p) ==
    /\ \A q \in Provider \ {p} : active'[q] = active[q]
    /\ \/ reqs' = reqs /\ standby' = standby
       \/ reqs' = Offer(reqs, ReqCap, p) /\ active[p].sock # "up"

\* send_to is such a handler.
LEMMA SendToFailover ==
    ASSUME WorkerTypeOK, NEW p \in Provider, NEW j \in Job, SendTo(p, j)
    PROVE  Failover(p)
<1>1. active[p] \in Conn
    BY DEF WorkerTypeOK
<1>2. CASE QuicSend(p, j) \/ HttpSend(p, j)
    BY <1>2 DEF QuicSend, HttpSend, Failover, WorkerTypeOK
<1>3. CASE HttpSendRetry(p, j)
  <2>1. PICK r \in SendTx(active[p], j) : HttpConnFailedIo(r.res)
    BY <1>3 DEF HttpSendRetry
  <2>2. active[p].sock # "up"
    BY <1>1, <2>1, SendTxLive
  <2>3. reqs' = Offer(reqs, ReqCap, p) /\ \A q \in Provider \ {p} : active'[q] = active[q]
    BY <1>3 DEF HttpSendRetry, DoFailover, WorkerTypeOK
  <2> QED BY <2>2, <2>3 DEF Failover
<1> QED
    BY <1>2, <1>3 DEF SendTo

\* drive and reap are such a handler.
LEMMA DriveReapFailover ==
    ASSUME WorkerTypeOK, ClosedAreGone, NEW p \in Provider, DriveReap(p)
    PROVE  Failover(p)
<1>1. active[p] \in Conn
    BY DEF WorkerTypeOK
<1>2. CASE p \in QuicProviders
  <2>1. QuicReap(p) /\ ClosedIsGone(active[p])
    BY <1>2 DEF DriveReap, ClosedAreGone
  <2>2. QuicDrive(active[p]).closed => active[p].sock # "up"
    BY <1>1, <2>1 DEF QuicDrive, ClosedIsGone, Conn
  <2>3. \/ QuicDrive(active[p]).closed /\ reqs' = Offer(reqs, ReqCap, p)
        \/ reqs' = reqs /\ standby' = standby
    BY <2>1 DEF QuicReap, DoFailover
  <2>4. \A q \in Provider \ {p} : active'[q] = active[q]
    BY <2>1 DEF QuicReap, DoFailover, WorkerTypeOK
  <2> QED BY <2>2, <2>3, <2>4 DEF Failover
<1>3. CASE p \notin QuicProviders
  <2>1. HttpReap(p)
    BY <1>3 DEF DriveReap
  <2>2. PICK r \in PollResponse(active[p]) :
            \/ reqs' = reqs /\ standby' = standby
            \/ HttpConnFailedIo(r.res) /\ reqs' = Offer(reqs, ReqCap, p)
    BY <2>1 DEF HttpReap, DoFailover
  <2>3. HttpConnFailedIo(r.res) => active[p].sock # "up"
    BY <1>1, PollResponseLive
  <2>4. \A q \in Provider \ {p} : active'[q] = active[q]
    BY <2>1 DEF HttpReap, DoFailover, WorkerTypeOK
  <2> QED BY <2>2, <2>3, <2>4 DEF Failover
<1> QED BY <1>2, <1>3

\* The only failover of such a handler is p's.
LEMMA FailoverIsOwn ==
    ASSUME WorkerTypeOK, NEW p \in Provider, NEW q \in Provider, Failover(p), FailsOver(q)
    PROVE  active[q].sock # "up"
<1> DEFINE s == Append(reqs, q)
           t == Append(reqs, p)
<1>1. /\ Len(s) = Len(reqs) + 1 /\ Len(reqs) \in Nat
      /\ s[Len(reqs) + 1] = q /\ t[Len(reqs) + 1] = p
    BY AppendProperties DEF WorkerTypeOK
<1>2. Offer(reqs, ReqCap, p) \in {reqs, t}
    BY DEF Offer
<1>3. CASE reqs' = s
  <2> HIDE DEF s, t
  <2>1. s # reqs
    BY <1>1
  <2>2. s = t /\ active[p].sock # "up"
    BY <1>2, <1>3, <2>1 DEF Failover
  <2> QED BY <1>1, <2>2
<1>4. CASE active'[q] # active[q] /\ standby'[q] # standby[q]
    BY <1>4 DEF Failover
<1> QED
    BY <1>3, <1>4 DEF FailsOver

\* A step that asks for no connection and leaves the active or the standby
\* ones alone is no failover.
LEMMA NoFailover ==
    ASSUME WorkerTypeOK, NEW q \in Provider,
           reqs' = reqs, active' = active \/ standby' = standby
    PROVE  ~FailsOver(q)
<1> DEFINE s == Append(reqs, q)
<1>1. Len(s) = Len(reqs) + 1 /\ Len(reqs) \in Nat
    BY AppendProperties DEF WorkerTypeOK
<1> HIDE DEF s
<1>2. s # reqs
    BY <1>1
<1>3. reqs' # Append(reqs, q)
    BY <1>2 DEF s
<1>4. active'[q] = active[q] \/ standby'[q] = standby[q]
    OBVIOUS
<1> QED
    BY <1>3, <1>4 DEF FailsOver

\* The other threads and the network add no request and swap nothing.
LEMMA OtherFailover ==
    ASSUME WorkerTypeOK, OtherStep, NEW q \in Provider
    PROVE  ~FailsOver(q)
<1> DEFINE s == Append(reqs, q)
           t == Tail(reqs)
<1>1. Len(s) = Len(reqs) + 1 /\ Len(reqs) \in Nat
    BY AppendProperties DEF WorkerTypeOK
<1>2. reqs # <<>> => Len(t) = Len(reqs) - 1
    BY HeadTailProperties DEF WorkerTypeOK
<1>3. /\ reqs' = reqs \/ (reqs # <<>> /\ reqs' = t)
      /\ active' = active \/ standby' = standby
  <2>1. CASE ReconnectStep
    BY <2>1 DEF ReconnectStep, ReconnectRecv, ReconnectTimeout, ReconnectBuildOk,
                ReconnectBuildErr
  <2>2. CASE LaneStep \/ UNCHANGED <<workerVars, reconnectVars, laneVars, netVars>>
    BY <2>2 DEF LaneStep, workerVars
  <2>3. ASSUME NEW p \in Provider, \/ Respond(p) \/ QuicTime(p)
                                   \/ Break(p) \/ NetDown(p) \/ NetRestore(p)
        PROVE  reqs' = reqs /\ (active' = active \/ standby' = standby)
    BY <2>3 DEF Respond, QuicTime, Break, NetDown, NetRestore, workerVars
  <2> QED BY <2>1, <2>2, <2>3 DEF OtherStep
<1> HIDE DEF s, t
<1>4. s # reqs /\ (reqs # <<>> => s # t)
    BY <1>1, <1>2
<1> QED
    BY <1>3, <1>4 DEF FailsOver, s

\* A QUIC provider's connections change only for connections that are gone
\* if closed, and the others' not at all.
LEMMA GoneStep ==
    ASSUME ClosedAreGone,
           \A p \in QuicProviders :
              /\ active'[p] = active[p] \/ ClosedIsGone(active'[p])
              /\ standby'[p] = standby[p] \/ ClosedIsGone(standby'[p])
              /\ resp'[p] = resp[p] \/ \A k \in 1 .. Len(resp'[p]) : ClosedIsGone(resp'[p][k])
    PROVE  ClosedAreGone'
BY DEF ClosedAreGone, ClosedIsGone

\* drive sets is_closed on a connection whose peer is gone.
LEMMA QuicDriveGone ==
    ASSUME NEW c \in Conn, ClosedIsGone(c)
    PROVE  ClosedIsGone(QuicDrive(c))
BY DEF QuicDrive, ClosedIsGone, Conn

\* send_to closes no connection.
LEMMA SendToGone ==
    ASSUME WorkerTypeOK, StandbyForgets, ClosedAreGone, NEW p \in Provider, NEW j \in Job,
           SendTo(p, j), UNCHANGED resp
    PROVE  ClosedAreGone'
<1>1. Only(p)
    BY SendToEffect
<1>2. CASE p \in QuicProviders
  <2>1. PICK c \in QuicSendTx(active[p], j) : active' = [active EXCEPT ![p] = c]
    BY <1>2 DEF SendTo, QuicSend
  <2>2. active[p] \in Conn /\ standby' = standby /\ ClosedIsGone(active[p])
    BY <1>2 DEF SendTo, QuicSend, WorkerTypeOK, ClosedAreGone
  <2>3. ClosedIsGone(c)
    BY <2>1, <2>2 DEF QuicSendTx, ClosedIsGone, Conn
  <2>4. ClosedIsGone(active'[p])
    BY <2>1, <2>3 DEF WorkerTypeOK
  <2> QED BY <1>1, <2>2, <2>4, GoneStep DEF Only
<1>3. CASE p \notin QuicProviders
    BY <1>1, <1>3, GoneStep DEF Only
<1> QED BY <1>2, <1>3

\* drive and reap close a connection whose peer is gone, and swap.
LEMMA DriveReapGone ==
    ASSUME WorkerTypeOK, StandbyForgets, ClosedAreGone, NEW p \in Provider,
           DriveReap(p), UNCHANGED resp
    PROVE  ClosedAreGone'
<1>1. Only(p)
    BY DriveReapEffect
<1>2. CASE p \in QuicProviders
  <2> DEFINE d == QuicDrive(active[p])
  <2>1. /\ active[p] \in Conn /\ ClosedIsGone(active[p]) /\ ClosedIsGone(standby[p])
        /\ QuicReap(p)
    BY <1>2 DEF DriveReap, WorkerTypeOK, ClosedAreGone
  <2>2. d \in Conn /\ ClosedIsGone(d)
    BY <2>1, QuicDriveGone, QuicDriveType
  <2>3. ClosedIsGone([d EXCEPT !.inflight = NoJob, !.elapsed = FALSE])
    BY <2>2 DEF ClosedIsGone, Conn
  <2>4. \/ /\ active' = [active EXCEPT ![p] = standby[p]]
           /\ standby' = [standby EXCEPT ![p] = d]
        \/ /\ active' = [active EXCEPT ![p] = d]
           /\ standby' = standby
        \/ /\ active' = [active EXCEPT ![p] = [d EXCEPT !.inflight = NoJob, !.elapsed = FALSE]]
           /\ standby' = standby
    BY <2>1 DEF QuicReap, DoFailover
  <2> HIDE DEF d
  <2>5. ClosedIsGone(active'[p]) /\ (standby'[p] = standby[p] \/ ClosedIsGone(standby'[p]))
    BY <2>1, <2>2, <2>3, <2>4 DEF WorkerTypeOK
  <2> QED BY <1>1, <2>5, GoneStep DEF Only
<1>3. CASE p \notin QuicProviders
    BY <1>1, <1>3, GoneStep DEF Only
<1> QED BY <1>2, <1>3

\* check_standby_deliveries moves a connection as it is.
LEMMA CheckStandbyGone ==
    ASSUME WorkerTypeOK, ClosedAreGone, NEW P \in SUBSET Provider, CheckStandby(P),
           UNCHANGED active
    PROVE  ClosedAreGone'
<1> SUFFICES ASSUME NEW p \in QuicProviders
             PROVE  /\ active'[p] = active[p] \/ ClosedIsGone(active'[p])
                    /\ standby'[p] = standby[p] \/ ClosedIsGone(standby'[p])
                    /\ \/ resp'[p] = resp[p]
                       \/ \A k \in 1 .. Len(resp'[p]) : ClosedIsGone(resp'[p][k])
    BY GoneStep
<1>1. p \in Provider /\ resp[p] \in Seq(Conn)
    BY DEF WorkerTypeOK
<1>2. CASE p \notin P \/ resp[p] = <<>>
    BY <1>1, <1>2 DEF CheckStandby
<1>3. CASE p \in P /\ resp[p] # <<>>
  <2>1. standby'[p] = Head(resp[p]) /\ resp'[p] = Tail(resp[p])
    BY <1>1, <1>3 DEF CheckStandby
  <2>2. /\ standby'[p] = resp[p][1] /\ 1 \in 1 .. Len(resp[p])
        /\ Len(resp'[p]) = Len(resp[p]) - 1
        /\ \A k \in 1 .. Len(resp'[p]) : resp'[p][k] = resp[p][k + 1]
    BY <1>1, <1>3, <2>1, HeadTailProperties
  <2>3. \A k \in 1 .. Len(resp'[p]) : k + 1 \in 1 .. Len(resp[p])
    BY <1>1, <2>2
  <2>4. \A k \in 1 .. Len(resp[p]) : ClosedIsGone(resp[p][k])
    BY DEF ClosedAreGone
  <2>5. \A k \in 1 .. Len(resp'[p]) : ClosedIsGone(resp'[p][k])
    BY <2>2, <2>3, <2>4
  <2>6. ClosedIsGone(standby'[p])
    BY <2>2, <2>4
  <2> QED BY <2>5, <2>6
<1> QED BY <1>2, <1>3

\* The other threads and the network close no connection.
LEMMA OtherGone ==
    ASSUME WorkerTypeOK, ThreadsTypeOK, ClosedAreGone, OtherStep
    PROVE  ClosedAreGone'
<1>1. CASE UNCHANGED <<active, standby, resp>>
    BY <1>1, GoneStep
<1>2. CASE ReconnectStep
  <2>1. CASE ReconnectBuildOk
    <3>1. rreq \in Provider /\ standby' = standby /\ active' = active
        BY <1>2 DEF ReconnectStep, ThreadsTypeOK
    <3> SUFFICES ASSUME NEW p \in QuicProviders, NEW k \in 1 .. Len(resp'[p]),
                        resp'[p] # resp[p]
                 PROVE  ClosedIsGone(resp'[p][k])
        BY <3>1, GoneStep
    <3>2. p = rreq /\ resp[p] \in Seq(Conn) /\ resp'[p] = Offer(resp[p], 1, FreshConn)
        BY <2>1, <3>1 DEF ReconnectBuildOk, WorkerTypeOK
    <3>3. resp'[p] = Append(resp[p], FreshConn)
        BY <3>2 DEF Offer
    <3>4. k = Len(resp[p]) + 1 \/ (k \in 1 .. Len(resp[p]) /\ resp'[p][k] = resp[p][k])
        BY <3>2, <3>3, FreshConnType, AppendProperties
    <3>5. resp'[p][Len(resp[p]) + 1] = FreshConn
        BY <3>2, <3>3, FreshConnType, AppendProperties
    <3>6. ClosedIsGone(FreshConn)
        BY DEF FreshConn, ClosedIsGone
    <3> QED
        BY <3>4, <3>5, <3>6 DEF ClosedAreGone
  <2>2. CASE ReconnectRecv \/ ReconnectTimeout \/ ReconnectBuildErr
    BY <1>1, <1>2, <2>2 DEF ReconnectStep, ReconnectRecv, ReconnectTimeout, ReconnectBuildErr
  <2> QED BY <1>2, <2>1, <2>2 DEF ReconnectStep
<1>3. CASE LaneStep \/ UNCHANGED <<workerVars, reconnectVars, laneVars, netVars>>
    BY <1>1, <1>3 DEF LaneStep, workerVars
<1>4. ASSUME NEW p \in Provider, NetDown(p) \/ NetRestore(p) PROVE ClosedAreGone'
    BY <1>1, <1>4 DEF NetDown, NetRestore, workerVars
<1>5. ASSUME NEW p \in Provider, Respond(p) \/ QuicTime(p) PROVE ClosedAreGone'
  <2>1. UNCHANGED <<standby, resp>> /\ active[p] \in Conn
        /\ \A q \in Provider \ {p} : active'[q] = active[q]
    BY <1>5 DEF Respond, QuicTime, WorkerTypeOK
  <2>2. ClosedIsGone(active[p]) => ClosedIsGone(active'[p])
    <3>1. CASE Respond(p)
        BY <2>1, <3>1 DEF Respond, ClosedIsGone, WorkerTypeOK, Conn
    <3>2. CASE QuicTime(p)
      <4>1. PICK c \in {[active[p] EXCEPT !.sock = "rst"], [active[p] EXCEPT !.elapsed = TRUE]} :
                active' = [active EXCEPT ![p] = c]
          BY <2>1, <3>2 DEF QuicTime, Conn, WorkerTypeOK
      <4>2. ClosedIsGone(active[p]) => ClosedIsGone(c)
          BY <2>1, <4>1 DEF ClosedIsGone, Conn
      <4> QED BY <4>1, <4>2 DEF WorkerTypeOK
    <3> QED BY <1>5, <3>1, <3>2
  <2>3. \A q \in QuicProviders : active'[q] = active[q] \/ ClosedIsGone(active'[q])
    BY <2>1, <2>2 DEF ClosedAreGone
  <2> QED BY <2>1, <2>3, GoneStep
<1>6. ASSUME NEW p \in Provider, Break(p) PROVE ClosedAreGone'
  <2>1. ASSUME NEW c \in Conn, NEW s \in {"fin", "rst", "tmo"}, NEW k \in Nat
        PROVE  ClosedIsGone(Broken(c, s, k))
    BY DEF Broken, ClosedIsGone, Conn
  <2>2. PICK s \in {"fin", "rst", "tmo"} :
            \/ /\ \E k \in 0 .. Len(active[p].inbox) :
                      active' = [active EXCEPT ![p] = Broken(active[p], s, k)]
               /\ UNCHANGED <<standby, resp>>
            \/ /\ standby' = [standby EXCEPT ![p] = Broken(standby[p], s, 0)]
               /\ UNCHANGED <<active, resp>>
            \/ /\ resp[p] # <<>>
               /\ resp' = [resp EXCEPT ![p] = <<Broken(resp[p][1], s, 0)>>]
               /\ UNCHANGED <<active, standby>>
    BY <1>6, BreakCases
  <2>3. CASE /\ \E k \in 0 .. Len(active[p].inbox) :
                    active' = [active EXCEPT ![p] = Broken(active[p], s, k)]
             /\ UNCHANGED <<standby, resp>>
    <3>1. PICK k \in 0 .. Len(active[p].inbox) :
              active' = [active EXCEPT ![p] = Broken(active[p], s, k)]
        BY <2>3
    <3>2. active[p] \in Conn /\ k \in Nat
        BY DEF WorkerTypeOK
    <3>3. ClosedIsGone(Broken(active[p], s, k))
        BY <2>1, <3>2
    <3>4. \A q \in QuicProviders : active'[q] = active[q] \/ ClosedIsGone(active'[q])
        BY <3>1, <3>3 DEF WorkerTypeOK
    <3> QED BY <2>3, <3>4, GoneStep
  <2>4. CASE /\ standby' = [standby EXCEPT ![p] = Broken(standby[p], s, 0)]
             /\ UNCHANGED <<active, resp>>
    <3>1. ClosedIsGone(Broken(standby[p], s, 0))
        BY <2>1 DEF WorkerTypeOK
    <3>2. \A q \in QuicProviders : standby'[q] = standby[q] \/ ClosedIsGone(standby'[q])
        BY <2>4, <3>1 DEF WorkerTypeOK
    <3> QED BY <2>4, <3>2, GoneStep
  <2>5. CASE /\ resp[p] # <<>>
             /\ resp' = [resp EXCEPT ![p] = <<Broken(resp[p][1], s, 0)>>]
             /\ UNCHANGED <<active, standby>>
    <3>1. resp[p][1] \in Conn
        BY <2>5 DEF WorkerTypeOK
    <3>2. ClosedIsGone(Broken(resp[p][1], s, 0))
        BY <2>1, <3>1
    <3> DEFINE r == <<Broken(resp[p][1], s, 0)>>
    <3>3. \A k \in 1 .. Len(r) : ClosedIsGone(r[k])
        BY <3>2
    <3> HIDE DEF r
    <3>4. resp' = [resp EXCEPT ![p] = r]
        BY <2>5 DEF r
    <3>5. \A q \in QuicProviders : \/ resp'[q] = resp[q]
                                   \/ \A k \in 1 .. Len(resp'[q]) : ClosedIsGone(resp'[q][k])
        BY <3>3, <3>4 DEF WorkerTypeOK
    <3> QED BY <2>5, <3>5, GoneStep
  <2> QED BY <2>2, <2>3, <2>4, <2>5
<1> QED
    BY <1>2, <1>3, <1>4, <1>5, <1>6 DEF OtherStep

-----------------------------------------------------------------------------
(* Responses.                                                              *)

\* Two sequences joined, position by position.
LEMMA Joined ==
    ASSUME NEW S, NEW a \in Seq(S), NEW b \in Seq(S)
    PROVE  /\ a \o b \in Seq(S) /\ Len(a \o b) = Len(a) + Len(b)
           /\ \A i \in 1 .. Len(a) : (a \o b)[i] = a[i]
           /\ \A i \in 1 .. Len(b) : (a \o b)[Len(a) + i] = b[i]
           /\ \A i \in 1 .. Len(a \o b) :
                 i \in 1 .. Len(a) \/ \E k \in 1 .. Len(b) : i = Len(a) + k
<1> DEFINE t == a \o b
<1>1. /\ t \in Seq(S) /\ Len(t) = Len(a) + Len(b)
      /\ \A i \in 1 .. Len(a) + Len(b) : t[i] = IF i <= Len(a) THEN a[i] ELSE b[i - Len(a)]
    BY ConcatProperties
<1>2. Len(a) \in Nat /\ Len(b) \in Nat
    OBVIOUS
<1> HIDE DEF t
<1>3. \A i \in 1 .. Len(a) : t[i] = a[i]
    BY <1>1, <1>2
<1>4. ASSUME NEW i \in 1 .. Len(b) PROVE t[Len(a) + i] = b[i]
  <2>1. /\ Len(a) + i \in 1 .. Len(a) + Len(b) /\ ~(Len(a) + i <= Len(a))
        /\ (Len(a) + i) - Len(a) = i
    BY <1>2
  <2> QED BY <1>1, <2>1
<1>5. ASSUME NEW i \in 1 .. Len(t), i \notin 1 .. Len(a)
      PROVE  \E k \in 1 .. Len(b) : i = Len(a) + k
  <2>1. i - Len(a) \in 1 .. Len(b) /\ i = Len(a) + (i - Len(a))
    BY <1>1, <1>2, <1>5
  <2> QED BY <2>1
<1> QED BY <1>1, <1>3, <1>4, <1>5 DEF t

\* The same of fragments.
LEMMA FragsJoined ==
    ASSUME NEW a \in Seq(Frag), NEW b \in Seq(Frag)
    PROVE  /\ a \o b \in Seq(Frag) /\ Len(a \o b) = Len(a) + Len(b)
           /\ \A i \in 1 .. Len(a) : (a \o b)[i] = a[i]
           /\ \A i \in 1 .. Len(b) : (a \o b)[Len(a) + i] = b[i]
           /\ a \o <<>> = a /\ <<>> \o a = a
<1>1. /\ a \o b \in Seq(Frag) /\ Len(a \o b) = Len(a) + Len(b)
      /\ \A i \in 1 .. Len(a) : (a \o b)[i] = a[i]
      /\ \A i \in 1 .. Len(b) : (a \o b)[Len(a) + i] = b[i]
    BY Joined
<1>2. a \o <<>> = a /\ <<>> \o a = a
    BY ConcatEmptySeq
<1> QED BY <1>1, <1>2

\* Joining fragments is associative.
LEMMA FragsAssociate ==
    ASSUME NEW a \in Seq(Frag), NEW b \in Seq(Frag), NEW c \in Seq(Frag)
    PROVE  (a \o b) \o c = a \o (b \o c)
BY ConcatAssociative, SMTT(30)

\* t is the part of s that follows its first n fragments, or a prefix of it.
PartOf(t, s, n) ==
    /\ n + Len(t) <= Len(s)
    /\ \A i \in 1 .. Len(t) : t[i] = s[n + i]

\* A part of a stream of responses is one, and it answers no other jobs.
LEMMA PartOfStream ==
    ASSUME NEW s \in Seq(Frag), NEW t \in Seq(Frag), NEW n \in Nat, PartOf(t, s, n)
    PROVE  /\ Ordered(s) => Ordered(t)
           /\ Framed(s) => Framed(t)
           /\ Ended(s) /\ n + Len(t) = Len(s) => Ended(t)
           /\ \A i \in 1 .. Len(t) : n + i \in 1 .. Len(s) /\ t[i] = s[n + i]
<1>1. Len(s) \in Nat /\ Len(t) \in Nat /\ n + Len(t) <= Len(s)
    BY DEF PartOf
<1>2. \A i \in 1 .. Len(t) : n + i \in 1 .. Len(s) /\ t[i] = s[n + i]
    BY <1>1 DEF PartOf
<1>3. Ordered(s) => Ordered(t)
  <2>1. \A i, k \in 1 .. Len(t) : i < k => n + i < n + k
    BY <1>1
  <2> QED BY <1>2, <2>1 DEF Ordered
<1>4. ASSUME Framed(s), NEW i \in 1 .. Len(t) - 1, t[i].part = "end"
      PROVE  t[i + 1].part = "body" /\ t[i + 1].job = t[i].job
  <2>1. /\ i \in 1 .. Len(t) /\ i + 1 \in 1 .. Len(t)
        /\ n + i \in 1 .. Len(s) - 1 /\ n + (i + 1) = (n + i) + 1
    BY <1>1
  <2>2. t[i] = s[n + i] /\ t[i + 1] = s[(n + i) + 1]
    BY <1>2, <2>1
  <2> QED BY <1>4, <2>1, <2>2 DEF Framed
<1>5. Ended(s) /\ n + Len(t) = Len(s) => Ended(t)
  <2>1. Len(t) > 0 => Len(t) \in 1 .. Len(t) /\ Len(s) > 0
    BY <1>1
  <2> QED BY <1>2, <2>1 DEF Ended
<1> QED BY <1>2, <1>3, <1>4, <1>5 DEF Framed

\* The peer's answer to a newer job continues a stream of whole responses.
LEMMA ResponseStream ==
    ASSUME NEW s \in Seq(Frag), NEW j \in Job, Ordered(s), Framed(s), Ended(s),
           \A i \in 1 .. Len(s) : s[i].job < j
    PROVE  /\ s \o Response(j) \in Seq(Frag)
           /\ Ordered(s \o Response(j)) /\ Framed(s \o Response(j)) /\ Ended(s \o Response(j))
           /\ \A i \in 1 .. Len(s \o Response(j)) :
                 \/ i \in 1 .. Len(s) /\ (s \o Response(j))[i] = s[i]
                 \/ (s \o Response(j))[i].job = j
           /\ \A i \in 1 .. Len(s) :
                 i \in 1 .. Len(s \o Response(j)) /\ (s \o Response(j))[i] = s[i]
           /\ \E i \in 1 .. Len(s \o Response(j)) :
                 (s \o Response(j))[i].part = "end" /\ (s \o Response(j))[i].job = j
<1> DEFINE r == Response(j)
           t == s \o r
           n == Len(s)
<1>1. /\ r \in Seq(Frag) /\ Len(r) = 3
      /\ r[1] = [part |-> "cl", job |-> j]
      /\ r[2] = [part |-> "end", job |-> j]
      /\ r[3] = [part |-> "body", job |-> j]
    BY DEF Response, Frag
<1> HIDE DEF r
<1>2. /\ t \in Seq(Frag) /\ Len(t) = n + 3
      /\ \A i \in 1 .. n : t[i] = s[i]
      /\ \A i \in 1 .. 3 : t[n + i] = r[i]
  <2>1. /\ t \in Seq(Frag) /\ Len(t) = Len(s) + Len(r)
        /\ \A i \in 1 .. Len(s) : t[i] = s[i]
        /\ \A i \in 1 .. Len(r) : t[Len(s) + i] = r[i]
    BY <1>1, FragsJoined
  <2> QED BY <1>1, <2>1
<1>3. n \in Nat
    OBVIOUS
<1> HIDE DEF t, n
<1>5. /\ t[n + 1].part = "cl" /\ t[n + 1].job = j
      /\ t[n + 2].part = "end" /\ t[n + 2].job = j
      /\ t[n + 3].part = "body" /\ t[n + 3].job = j
    BY <1>1, <1>2
<1>6. \A i \in 1 .. n + 3 : i \in 1 .. n \/ i = n + 1 \/ i = n + 2 \/ i = n + 3
    BY <1>3
<1>7. \A i \in 1 .. n : s[i].job < j /\ s[i].job \in Nat /\ j \in Nat
  <2>1. \A i \in 1 .. n : s[i] \in Frag
    BY DEF n
  <2> QED BY <2>1 DEF Frag, Job, n
<1>8. Ordered(t)
  <2> SUFFICES ASSUME NEW i \in 1 .. n + 3, NEW k \in 1 .. n + 3, i < k
               PROVE  t[i].job <= t[k].job /\ (t[i].part = "body" => t[i].job < t[k].job)
    BY <1>2 DEF Ordered
  <2>1. CASE i \in 1 .. n /\ k \in 1 .. n
    BY <1>2, <2>1 DEF Ordered, n
  <2>2. CASE i \in 1 .. n /\ k \notin 1 .. n
    <3>1. t[k].job = j /\ t[i] = s[i]
        BY <1>2, <1>5, <1>6, <2>2
    <3>2. s[i].job < j /\ s[i].job \in Nat /\ j \in Nat
        BY <1>7, <2>2
    <3> QED BY <3>1, <3>2
  <2>3. CASE i \notin 1 .. n
    <3>1. k \notin 1 .. n /\ i # n + 3
        BY <1>3, <2>3
    <3>2. t[i].job = j /\ t[k].job = j /\ t[i].part # "body"
        BY <1>5, <1>6, <2>3, <3>1
    <3> QED BY <3>2 DEF Job
  <2> QED BY <2>1, <2>2, <2>3
<1>9. Framed(t)
  <2> SUFFICES ASSUME NEW i \in 1 .. n + 2, t[i].part = "end"
               PROVE  t[i + 1].part = "body" /\ t[i + 1].job = t[i].job
    BY <1>2, <1>3 DEF Framed
  <2>1. CASE i \in 1 .. n - 1
    <3>1. i \in 1 .. n /\ i + 1 \in 1 .. n
        BY <1>3, <2>1
    <3> QED BY <1>2, <2>1, <3>1 DEF Framed, n
  <2>2. CASE i = n
    <3>1. n > 0 /\ n \in 1 .. n
        BY <1>3, <2>2
    <3> QED BY <1>2, <2>2, <3>1 DEF Ended, n
  <2>3. CASE i = n + 1
    BY <1>5, <2>3
  <2>4. CASE i = n + 2
    <3>1. i + 1 = n + 3
        BY <1>3, <2>4
    <3> QED BY <1>5, <2>4, <3>1
  <2> QED BY <1>3, <2>1, <2>2, <2>3, <2>4
<1>10. Ended(t)
    BY <1>2, <1>3, <1>5 DEF Ended
<1>11. \A i \in 1 .. Len(t) : (i \in 1 .. n /\ t[i] = s[i]) \/ t[i].job = j
    BY <1>2, <1>5, <1>6
<1>12. \A i \in 1 .. n : i \in 1 .. Len(t) /\ t[i] = s[i]
    BY <1>2, <1>3
<1>13. n + 2 \in 1 .. Len(t) /\ t[n + 2].part = "end" /\ t[n + 2].job = j
    BY <1>2, <1>3, <1>5
<1>14. \E i \in 1 .. Len(t) : t[i].part = "end" /\ t[i].job = j
    BY <1>13
<1> QED BY <1>2, <1>8, <1>9, <1>10, <1>11, <1>12, <1>14 DEF t, n, r

\* An empty rx_plain holds no response.
LEMMA EmptyIncomplete == ~IsComplete(<<>>)
<1>1. DOMAIN <<>> = {}
    OBVIOUS
<1> QED BY <1>1 DEF IsComplete

(* What ingest does with the next k fragments of a connection's stream:    *)
(* nothing is answered and the stream is the same, or a body in it is, and *)
(* of the stream what follows the fragments read is left.                  *)
LEMMA IngestStream ==
    ASSUME NEW c \in Conn, NEW k \in 0 .. Len(c.inbox), NEW d \in Conn, NEW got,
           got = Ingest(c.rx, SubSeq(c.inbox, 1, k)),
           d.rx = got.rx, d.inbox = SubSeq(c.inbox, k + 1, Len(c.inbox))
    PROVE  /\ ~IsComplete(d.rx)
           /\ c.inbox = <<>> => d.inbox = <<>>
           /\ Stream(c) \in Seq(Frag) /\ Stream(d) \in Seq(Frag)
           /\ \/ got.body = NoJob /\ Stream(d) = Stream(c)
              \/ /\ c.inbox = <<>> => IsComplete(c.rx)
                 /\ \E n \in Nat, e \in 1 .. Len(Stream(c)) - 1 :
                       /\ got.body = Stream(c)[e + 1].job /\ got.body \in Job
                       /\ Stream(c)[e].part = "end" /\ e + 1 <= n
                       /\ \A i \in 1 .. e - 1 : Stream(c)[i].part # "end"
                       /\ PartOf(Stream(d), Stream(c), n)
                       /\ n + Len(Stream(d)) = Len(Stream(c))
<1>1. c.inbox \in Seq(Frag) /\ c.rx \in Seq(Frag) /\ k \in Nat /\ k <= Len(c.inbox)
    BY DEF Conn
<1>2. PICK x : x = SubSeq(c.inbox, 1, k)
    OBVIOUS
<1>3. PICK y : y = SubSeq(c.inbox, k + 1, Len(c.inbox))
    OBVIOUS
<1>4. x \in Seq(Frag) /\ Len(x) = k
    BY <1>1, <1>2, SubSeqProperties
<1>5. y \in Seq(Frag) /\ Len(y) = Len(c.inbox) - k
    BY <1>1, <1>3, SubSeqProperties
<1>6. x \o y = c.inbox
  <2>1. 1 \in 1 .. Len(c.inbox) + 1 /\ k \in 1 - 1 .. Len(c.inbox)
        /\ Len(c.inbox) \in k .. Len(c.inbox)
    BY <1>1
  <2>2. SubSeq(c.inbox, 1, k) \o SubSeq(c.inbox, k + 1, Len(c.inbox))
            = SubSeq(c.inbox, 1, Len(c.inbox))
    BY <1>1, <2>1, ConcatAdjacentSubSeq
  <2> QED BY <1>1, <1>2, <1>3, <2>2, SubSeqFull
<1>7. c.inbox = <<>> => x = <<>> /\ y = <<>>
    BY <1>1, <1>4, <1>5
<1>8. PICK acc : acc = c.rx \o x
    OBVIOUS
<1>9. acc \in Seq(Frag) /\ Len(acc) = Len(c.rx) + k
    BY <1>1, <1>4, <1>8, FragsJoined
<1>10. PICK s : s = Stream(c)
    OBVIOUS
<1>11. s = acc \o y
  <2>1. (c.rx \o x) \o y = c.rx \o (x \o y)
    BY <1>1, <1>4, <1>5, FragsAssociate, ZenonT(30)
  <2>2. acc \o y = (c.rx \o x) \o y
    BY <1>8
  <2>3. s = c.rx \o (x \o y)
    BY <1>6, <1>10 DEF Stream
  <2> QED BY <2>1, <2>2, <2>3
<1>12. /\ s \in Seq(Frag) /\ Len(s) = Len(acc) + Len(y)
       /\ \A i \in 1 .. Len(acc) : s[i] = acc[i]
       /\ \A i \in 1 .. Len(y) : s[Len(acc) + i] = y[i]
    BY <1>5, <1>9, <1>11, FragsJoined
<1>13. d.rx = got.rx /\ d.inbox = y
    BY <1>3
<1>14. got = IF IsComplete(acc) THEN [rx |-> <<>>, body |-> BodyIfComplete(acc)]
                               ELSE [rx |-> acc, body |-> NoJob]
    BY <1>2, <1>8 DEF Ingest
<1>15. CASE ~IsComplete(acc)
  <2>1. got.rx = acc /\ got.body = NoJob
    BY <1>14, <1>15
  <2>2. Stream(d) = s
    BY <1>11, <1>13, <2>1 DEF Stream
  <2> QED BY <1>7, <1>10, <1>12, <1>13, <1>15, <2>1, <2>2
<1>16. CASE IsComplete(acc)
  <2>0. got.rx = <<>> /\ got.body = BodyIfComplete(acc)
    BY <1>14, <1>16
  <2>1. PICK e \in 1 .. Len(acc) - 1 : /\ acc[e].part = "end" /\ acc[e + 1] \in Frag
                                       /\ got.body = acc[e + 1].job
                                       /\ \A i \in 1 .. e - 1 : acc[i].part # "end"
    <3>1. PICK e : e = HeaderEnd(acc)
        OBVIOUS
    <3>2. e \in DOMAIN acc /\ CompleteAt(acc, e)
        BY <1>16, <3>1 DEF IsComplete, HeaderEnd
    <3>3. e \in 1 .. Len(acc) - 1 /\ e + 1 \in 1 .. Len(acc) /\ acc[e].part = "end"
        BY <1>9, <3>2 DEF CompleteAt
    <3>4. acc[e + 1] \in Frag
        BY <1>9, <3>3
    <3>5. \A i \in 1 .. e - 1 : acc[i].part # "end"
        BY <3>2 DEF CompleteAt
    <3> QED BY <2>0, <3>1, <3>3, <3>4, <3>5 DEF BodyIfComplete
  <2>2. Len(acc) \in Nat /\ Len(y) \in Nat
    BY <1>5, <1>9
  <2>3. /\ e \in 1 .. Len(s) - 1 /\ e + 1 <= Len(acc)
        /\ e \in 1 .. Len(acc) /\ e + 1 \in 1 .. Len(acc)
    BY <1>12, <2>2
  <2>4. s[e] = acc[e] /\ s[e + 1] = acc[e + 1]
    BY <1>12, <2>3
  <2>11. ASSUME NEW i \in 1 .. e - 1 PROVE s[i].part # "end"
    <3>1. i \in 1 .. Len(acc)
        BY <2>2
    <3> QED BY <1>12, <2>1, <3>1
  <2>5. Stream(d) = y
    <3>1. Stream(d) = <<>> \o y
        BY <1>13, <2>0 DEF Stream
    <3> QED BY <1>5, <3>1, FragsJoined
  <2>6. PartOf(y, s, Len(acc))
    BY <1>12, <2>2 DEF PartOf
  <2>7. got.body \in Job
    BY <2>1 DEF Frag
  <2>8. ~IsComplete(d.rx)
    BY <1>13, <2>0, EmptyIncomplete
  <2>9. c.inbox = <<>> => IsComplete(c.rx)
    BY <1>1, <1>7, <1>8, <1>16, FragsJoined
  <2>10. \E m \in Nat, h \in 1 .. Len(s) - 1 :
            /\ got.body = s[h + 1].job /\ got.body \in Job
            /\ s[h].part = "end" /\ h + 1 <= m
            /\ \A i \in 1 .. h - 1 : s[i].part # "end"
            /\ PartOf(Stream(d), s, m) /\ m + Len(Stream(d)) = Len(s)
    BY <1>12, <2>1, <2>2, <2>3, <2>4, <2>5, <2>6, <2>7, <2>11
  <2> QED BY <1>5, <1>7, <1>10, <1>12, <1>13, <2>5, <2>8, <2>9, <2>10
<1> QED BY <1>15, <1>16

\* What a connection may still deliver are responses to jobs.
LEMMA AnsweringJobs ==
    ASSUME NEW c \in Conn
    PROVE  /\ Stream(c) \in Seq(Frag) /\ Answering(c) \subseteq Job
           /\ \A i \in 1 .. Len(Stream(c)) : Stream(c)[i].job \in Answering(c)
           /\ \A i \in 1 .. Len(c.reqs) : c.reqs[i] \in Answering(c)
<1>1. c.rx \in Seq(Frag) /\ c.inbox \in Seq(Frag) /\ c.reqs \in Seq(Job)
    BY DEF Conn
<1>2. Stream(c) \in Seq(Frag)
    BY <1>1, FragsJoined DEF Stream
<1>3. \A i \in 1 .. Len(Stream(c)) : Stream(c)[i].job \in Job
  <2>1. \A i \in 1 .. Len(Stream(c)) : Stream(c)[i] \in Frag
    BY <1>2
  <2> QED BY <2>1 DEF Frag
<1>4. \A i \in 1 .. Len(c.reqs) : c.reqs[i] \in Job
    BY <1>1
<1> QED BY <1>2, <1>3, <1>4 DEF Answering

\* The answers whose header end is to come: on their way, or not begun.
LEMMA HeadingJobs ==
    ASSUME NEW c \in Conn
    PROVE  /\ Heading(c) \subseteq Answering(c)
           /\ \A j \in Heading(c) :
                 \/ \E i \in 1 .. Len(Stream(c)) :
                       Stream(c)[i].part = "end" /\ Stream(c)[i].job = j
                 \/ \E i \in 1 .. Len(c.reqs) : c.reqs[i] = j
           /\ \A i \in 1 .. Len(Stream(c)) :
                 Stream(c)[i].part = "end" => Stream(c)[i].job \in Heading(c)
           /\ \A i \in 1 .. Len(c.reqs) : c.reqs[i] \in Heading(c)
BY DEF Heading, Answering

\* A connection in use whose stream is cut at either end, and which is then
\* asked nothing more or stays as it was.
LEMMA InUsePart ==
    ASSUME NEW c \in Conn, NEW d \in Conn, NEW n \in Nat,
           InUse(c), PartOf(Stream(d), Stream(c), n),
           \/ /\ d.sock = c.sock /\ d.reqs = c.reqs
              /\ n + Len(Stream(d)) = Len(Stream(c))
           \/ d.sock # "up" /\ d.reqs = <<>>
    PROVE  InUse(d) /\ Answering(d) \subseteq Answering(c)
<1>1. PICK s \in Seq(Frag), t \in Seq(Frag) : s = Stream(c) /\ t = Stream(d)
    BY AnsweringJobs
<1>2. /\ Ordered(s) => Ordered(t)
      /\ Framed(s) => Framed(t)
      /\ Ended(s) /\ n + Len(t) = Len(s) => Ended(t)
      /\ \A i \in 1 .. Len(t) : n + i \in 1 .. Len(s) /\ t[i] = s[n + i]
    BY <1>1, PartOfStream
<1>3. \A i \in 1 .. Len(d.reqs) : d.reqs = c.reqs
    OBVIOUS
<1>4. Ordered(t) /\ Framed(t)
    BY <1>1, <1>2 DEF InUse
<1>5. IF d.sock = "up" THEN Ended(t) ELSE d.reqs = <<>>
    BY <1>1, <1>2 DEF InUse
<1>6. \A i, k \in 1 .. Len(d.reqs) : i < k => d.reqs[i] < d.reqs[k]
    BY <1>3 DEF InUse
<1>7. ASSUME NEW i \in 1 .. Len(t), NEW k \in 1 .. Len(d.reqs) PROVE t[i].job < d.reqs[k]
  <2>1. d.reqs = c.reqs /\ n + i \in 1 .. Len(s) /\ t[i] = s[n + i]
    BY <1>2, <1>3
  <2> QED BY <1>1, <2>1 DEF InUse
<1>8. Answering(d) \subseteq Answering(c)
  <2>1. \A i \in 1 .. Len(t) : t[i].job \in Answering(c)
    BY <1>1, <1>2, AnsweringJobs
  <2>2. \A i \in 1 .. Len(d.reqs) : d.reqs[i] \in Answering(c)
    BY <1>3, AnsweringJobs
  <2> QED BY <1>1, <2>1, <2>2 DEF Answering
<1> QED BY <1>1, <1>4, <1>5, <1>6, <1>7, <1>8 DEF InUse

\* A request on a live connection, newer than all it has to answer.
LEMMA InUseSend ==
    ASSUME NEW c \in Conn, NEW d \in Conn, NEW j \in Job, InUse(c), c.sock = "up",
           d.sock = c.sock, d.rx = c.rx, d.inbox = c.inbox, d.reqs = Append(c.reqs, j),
           \A i \in Answering(c) : i < j
    PROVE  /\ InUse(d) /\ Answering(d) \subseteq Answering(c) \cup {j}
           /\ Heading(c) \cup {j} \subseteq Heading(d)
<1>1. PICK s \in Seq(Frag), q \in Seq(Job), r \in Seq(Job) :
          s = Stream(c) /\ q = c.reqs /\ r = d.reqs
    BY AnsweringJobs DEF Conn
<1>2. Stream(d) = s
    BY <1>1 DEF Stream
<1>3. /\ Len(r) = Len(q) + 1 /\ r[Len(q) + 1] = j
      /\ \A i \in 1 .. Len(q) : r[i] = q[i]
    BY <1>1, AppendProperties
<1>4. Len(q) \in Nat
    BY <1>1
<1>5. \A i \in 1 .. Len(r) : i \in 1 .. Len(q) \/ i = Len(q) + 1
    BY <1>3, <1>4
<1>6. /\ \A i \in 1 .. Len(s) : s[i].job \in Answering(c)
      /\ \A i \in 1 .. Len(q) : q[i] \in Answering(c)
    BY <1>1, AnsweringJobs
<1>7. ASSUME NEW i \in 1 .. Len(r), NEW k \in 1 .. Len(r), i < k PROVE r[i] < r[k]
  <2>1. i \in 1 .. Len(q)
    BY <1>3, <1>4, <1>7
  <2>2. CASE k = Len(q) + 1
    BY <1>3, <1>6, <2>1, <2>2
  <2>3. CASE k \in 1 .. Len(q)
    BY <1>1, <1>3, <1>7, <2>1, <2>3 DEF InUse
  <2> QED BY <1>5, <2>2, <2>3
<1>8. ASSUME NEW i \in 1 .. Len(s), NEW k \in 1 .. Len(r) PROVE s[i].job < r[k]
  <2>1. CASE k = Len(q) + 1
    BY <1>3, <1>6, <2>1
  <2>2. CASE k \in 1 .. Len(q)
    BY <1>1, <1>3, <2>2 DEF InUse
  <2> QED BY <1>5, <2>1, <2>2
<1>9. InUse(d)
    BY <1>1, <1>2, <1>7, <1>8 DEF InUse
<1>10. Answering(d) \subseteq Answering(c) \cup {j}
  <2>1. \A i \in 1 .. Len(r) : r[i] \in Answering(c) \cup {j}
    BY <1>3, <1>5, <1>6
  <2> QED BY <1>1, <1>2, <1>6, <2>1 DEF Answering
<1>11. Heading(c) \cup {j} \subseteq Heading(d)
  <2>1. \A i \in 1 .. Len(q) : i \in 1 .. Len(r)
    BY <1>3, <1>4
  <2>2. Len(q) + 1 \in 1 .. Len(r)
    BY <1>3, <1>4
  <2>3. \A i \in 1 .. Len(q) : q[i] \in Heading(d)
    BY <1>1, <1>3, <2>1, HeadingJobs
  <2>4. j \in Heading(d)
    BY <1>1, <1>3, <2>2, HeadingJobs
  <2>5. \A i \in 1 .. Len(s) : s[i].part = "end" => s[i].job \in Heading(d)
    BY <1>2, HeadingJobs
  <2>6. ASSUME NEW h \in Heading(c) PROVE h \in Heading(d)
    <3>1. \/ \E i \in 1 .. Len(s) : s[i].part = "end" /\ s[i].job = h
          \/ \E i \in 1 .. Len(q) : q[i] = h
        BY <1>1, HeadingJobs
    <3> QED BY <2>3, <2>5, <3>1
  <2> QED BY <2>4, <2>6
<1> QED BY <1>9, <1>10, <1>11

\* The peer answers the oldest request.
LEMMA InUseRespond ==
    ASSUME NEW c \in Conn, NEW d \in Conn, InUse(c), c.sock = "up", c.reqs # <<>>,
           d.sock = c.sock, d.rx = c.rx, d.inbox = c.inbox \o Response(Head(c.reqs)),
           d.reqs = Tail(c.reqs)
    PROVE  /\ InUse(d) /\ Answering(d) \subseteq Answering(c)
           /\ Heading(c) \subseteq Heading(d)
<1>1. PICK s \in Seq(Frag), q \in Seq(Job), r \in Seq(Job) :
          s = Stream(c) /\ q = c.reqs /\ r = d.reqs
    BY AnsweringJobs DEF Conn
<1>2. PICK j \in Job : j = Head(q) /\ j = q[1] /\ 1 \in 1 .. Len(q)
    BY <1>1, HeadTailProperties
<1>3. /\ Len(r) = Len(q) - 1
      /\ \A i \in 1 .. Len(r) : r[i] = q[i + 1]
    BY <1>1, HeadTailProperties
<1>4. \A i \in 1 .. Len(r) : i + 1 \in 1 .. Len(q) /\ 1 < i + 1
    BY <1>1, <1>3
<1>5. \A i \in 1 .. Len(s) : s[i].job < j
    BY <1>1, <1>2 DEF InUse
<1>6. PICK t : t = Stream(d)
    OBVIOUS
<1>7. t = s \o Response(j)
  <2>1. c.rx \in Seq(Frag) /\ c.inbox \in Seq(Frag) /\ Response(j) \in Seq(Frag)
    BY DEF Conn, Response, Frag
  <2>2. (c.rx \o c.inbox) \o Response(j) = c.rx \o (c.inbox \o Response(j))
    BY <2>1, FragsAssociate
  <2>3. t = c.rx \o (c.inbox \o Response(j))
    BY <1>1, <1>2, <1>6 DEF Stream
  <2>4. s = c.rx \o c.inbox
    BY <1>1 DEF Stream
  <2> QED BY <2>2, <2>3, <2>4
<1>8. Ordered(s) /\ Framed(s) /\ Ended(s)
    BY <1>1 DEF InUse
<1>9. /\ t \in Seq(Frag) /\ Ordered(t) /\ Framed(t) /\ Ended(t)
      /\ \A i \in 1 .. Len(t) : (i \in 1 .. Len(s) /\ t[i] = s[i]) \/ t[i].job = j
      /\ \A i \in 1 .. Len(s) : i \in 1 .. Len(t) /\ t[i] = s[i]
      /\ \E i \in 1 .. Len(t) : t[i].part = "end" /\ t[i].job = j
    BY <1>5, <1>7, <1>8, ResponseStream, SMTT(30)
<1>10. ASSUME NEW i \in 1 .. Len(r), NEW k \in 1 .. Len(r), i < k PROVE r[i] < r[k]
  <2>1. i + 1 < k + 1
    BY <1>10
  <2> QED BY <1>1, <1>3, <1>4, <2>1 DEF InUse
<1>11. ASSUME NEW i \in 1 .. Len(t), NEW k \in 1 .. Len(r) PROVE t[i].job < r[k]
  <2>1. r[k] = q[k + 1] /\ k + 1 \in 1 .. Len(q) /\ 1 < k + 1
    BY <1>3, <1>4
  <2>2. j < q[k + 1]
    BY <1>1, <1>2, <2>1 DEF InUse
  <2>3. CASE i \in 1 .. Len(s) /\ t[i] = s[i]
    BY <1>1, <2>1, <2>3 DEF InUse
  <2> QED BY <1>9, <2>1, <2>2, <2>3
<1>12. InUse(d)
    BY <1>1, <1>6, <1>9, <1>10, <1>11 DEF InUse
<1>13. /\ \A i \in 1 .. Len(s) : s[i].job \in Answering(c)
       /\ \A i \in 1 .. Len(q) : q[i] \in Answering(c)
    BY <1>1, AnsweringJobs
<1>14. Answering(d) \subseteq Answering(c)
  <2>1. \A i \in 1 .. Len(t) : t[i].job \in Answering(c)
    BY <1>2, <1>9, <1>13
  <2>2. \A i \in 1 .. Len(r) : r[i] \in Answering(c)
    BY <1>3, <1>4, <1>13
  <2> QED BY <1>1, <1>6, <2>1, <2>2 DEF Answering
<1>15. Heading(c) \subseteq Heading(d)
  <2>1. \A i \in 1 .. Len(s) : s[i].part = "end" => s[i].job \in Heading(d)
    BY <1>6, <1>9, HeadingJobs
  <2>2. j \in Heading(d)
    BY <1>6, <1>9, HeadingJobs
  <2>3. ASSUME NEW i \in 1 .. Len(q) PROVE q[i] \in Heading(d)
    <3>1. CASE i = 1
        BY <1>2, <2>2, <3>1
    <3>2. CASE i # 1
      <4>1. i - 1 \in 1 .. Len(r) /\ (i - 1) + 1 = i
          BY <1>1, <1>3, <3>2
      <4>2. r[i - 1] = q[i]
          BY <1>3, <4>1
      <4> QED BY <1>1, <4>1, <4>2, HeadingJobs
    <3> QED BY <3>1, <3>2
  <2> QED BY <1>1, <2>1, <2>3, HeadingJobs
<1> QED BY <1>12, <1>14, <1>15

\* A connection nothing was sent on has nothing to answer.
LEMMA UnusedInUse ==
    ASSUME NEW c \in Conn, Unused(c)
    PROVE  InUse(c) /\ Answering(c) = {}
<1>1. Stream(c) = <<>> /\ c.reqs = <<>>
  <2>1. <<>> \in Seq(Frag)
    OBVIOUS
  <2>2. Stream(c) = <<>> \o <<>>
    BY DEF Stream, Unused
  <2> QED BY <2>1, <2>2, FragsJoined DEF Unused
<1> QED BY <1>1 DEF InUse, Answering, Ordered, Framed, Ended

\* What Fed asks of the answers of a connection in use.
FedBy(c, out, s, bound, paced) ==
    /\ \A j \in Answering(c) :
          /\ \A i \in 1 .. Len(s) : s[i].body < j
          /\ j <= bound
          /\ paced => j = out
    /\ out # NoJob => Foremost(c, out)

\* The three ways a connection can be fed.
LEMMA FedCases ==
    ASSUME NEW c, NEW out, NEW s, NEW bound, NEW paced
    PROVE  Fed(c, out, s, bound, paced) <=>
               /\ ~IsComplete(c.rx)
               /\ \/ Silent(c)
                  \/ Spent(c) /\ out = NoJob
                  \/ InUse(c) /\ FedBy(c, out, s, bound, paced)
BY DEF Fed, FedBy

\* A connection in use that is cut: of its answers a prefix is left, and if
\* it is still asked something all of them.
LEMMA ForemostPart ==
    ASSUME NEW c \in Conn, NEW d \in Conn, NEW out \in Nat,
           InUse(c), Foremost(c, out), PartOf(Stream(d), Stream(c), 0),
           Answering(d) \subseteq Answering(c),
           \/ /\ d.sock = c.sock /\ d.reqs = c.reqs /\ d.gap = c.gap
              /\ 0 + Len(Stream(d)) = Len(Stream(c))
           \/ d.sock # "up" /\ d.reqs = <<>>
    PROVE  Foremost(d, out)
<1>1. PICK s \in Seq(Frag), t \in Seq(Frag) : s = Stream(c) /\ t = Stream(d)
    BY AnsweringJobs
<1>2. Len(s) \in Nat /\ Len(t) \in Nat /\ \A i \in 1 .. Len(t) : 0 + i = i
    BY <1>1
<1>3. /\ Len(t) <= Len(s)
      /\ \A i \in 1 .. Len(t) : i \in 1 .. Len(s) /\ t[i] = s[i]
    BY <1>1, <1>2 DEF PartOf
<1>4. CASE /\ d.sock = c.sock /\ d.reqs = c.reqs /\ d.gap = c.gap
           /\ 0 + Len(Stream(d)) = Len(Stream(c))
  <2>1. Len(t) = Len(s)
    BY <1>1, <1>2, <1>4
  <2>2. \A i \in 1 .. Len(s) : s[i].part = "end" => s[i].job \in Heading(d)
    BY <1>1, <1>3, <2>1, HeadingJobs
  <2>3. Heading(c) \subseteq Heading(d)
    BY <1>1, <1>4, <2>2, HeadingJobs
  <2> QED BY <1>4, <2>3 DEF Foremost
<1>5. CASE d.sock # "up" /\ d.reqs = <<>>
  <2>1. ASSUME NEW j \in Answering(d), ~(j <= out), out \in Heading(c)
        PROVE  out \in Heading(d)
    <3>1. PICK k \in 1 .. Len(t) : t[k].job = j
        BY <1>1, <1>5 DEF Answering
    <3>2. k \in 1 .. Len(s) /\ s[k].job = j /\ j \in Nat
        BY <1>3, <2>1, <3>1, AnsweringJobs DEF Job
    <3>3. ASSUME NEW i \in 1 .. Len(c.reqs), c.reqs[i] = out PROVE FALSE
      <4>1. s[k].job < c.reqs[i]
          BY <1>1, <3>2 DEF InUse
      <4> QED BY <2>1, <3>2, <3>3, <4>1
    <3>4. PICK i \in 1 .. Len(s) : s[i].part = "end" /\ s[i].job = out
        BY <1>1, <2>1, <3>3, HeadingJobs
    <3>5. i < k
      <4>1. k < i => s[k].job <= s[i].job
          BY <1>1, <3>2 DEF InUse, Ordered
      <4>2. k # i
          BY <2>1, <3>2, <3>4
      <4> QED BY <1>2, <2>1, <3>2, <3>4, <4>1, <4>2
    <3>6. i \in 1 .. Len(t)
        BY <1>2, <3>5
    <3> QED BY <1>1, <1>3, <3>4, <3>6, HeadingJobs
  <2> QED BY <1>5, <2>1 DEF Foremost
<1> QED BY <1>4, <1>5

\* A connection that is fed and then cut, at its front only if no job is in
\* flight, or asked nothing more.
LEMMA FedPart ==
    ASSUME NEW c \in Conn, NEW d \in Conn, NEW n \in Nat,
           NEW out \in Nat, NEW s, NEW bound, NEW paced, Fed(c, out, s, bound, paced),
           ~IsComplete(d.rx), Silent(c) => Silent(d), Spent(c) => Spent(d),
           PartOf(Stream(d), Stream(c), n), n = 0 \/ out = NoJob,
           \/ /\ d.sock = c.sock /\ d.reqs = c.reqs /\ d.gap = c.gap
              /\ n + Len(Stream(d)) = Len(Stream(c))
           \/ d.sock # "up" /\ d.reqs = <<>>
    PROVE  Fed(d, out, s, bound, paced)
<1>1. CASE Silent(c) \/ (Spent(c) /\ out = NoJob)
    BY <1>1, FedCases
<1>2. CASE InUse(c) /\ FedBy(c, out, s, bound, paced)
  <2>1. InUse(d) /\ Answering(d) \subseteq Answering(c)
    BY <1>2, InUsePart
  <2>2. out # NoJob => Foremost(d, out)
    <3> SUFFICES ASSUME out # NoJob PROVE Foremost(d, out)
        OBVIOUS
    <3>1. n = 0 /\ Foremost(c, out)
        BY <1>2 DEF FedBy
    <3> QED BY <1>2, <2>1, <3>1, ForemostPart
  <2>3. FedBy(d, out, s, bound, paced)
    BY <1>2, <2>1, <2>2 DEF FedBy
  <2> QED BY <2>1, <2>3, FedCases
<1> QED BY <1>1, <1>2, FedCases

\* A stream is a part of itself.
LEMMA SamePart ==
    ASSUME NEW t \in Seq(Frag) PROVE PartOf(t, t, 0) /\ 0 + Len(t) = Len(t)
<1>1. Len(t) \in Nat
    OBVIOUS
<1> QED BY <1>1 DEF PartOf

\* A connection after a call that sent and read nothing: its next error may
\* be another one, and if its peer is alive a record is missing.
Lost(c, d) ==
    /\ d.rx = c.rx /\ d.inbox = c.inbox /\ d.reqs = c.reqs
    /\ d.sock = "up" <=> c.sock = "up"
    /\ d.sock = "up" => d.gap

\* It has the answers it had.
LEMMA LostInUse ==
    ASSUME NEW c \in Conn, NEW d \in Conn, Lost(c, d)
    PROVE  /\ Answering(d) = Answering(c) /\ Heading(d) = Heading(c)
           /\ InUse(c) => InUse(d)
           /\ Silent(c) => Silent(d)
<1>1. Stream(d) = Stream(c)
    BY DEF Stream, Lost
<1>2. Answering(d) = Answering(c) /\ Heading(d) = Heading(c)
    BY <1>1 DEF Answering, Heading, Lost
<1>3. InUse(c) => InUse(d)
    BY <1>1 DEF InUse, Lost
<1> QED BY <1>2, <1>3 DEF Silent, Lost

\* And is fed as it was.
LEMMA FedLost ==
    ASSUME NEW c \in Conn, NEW d \in Conn,
           NEW out, NEW s, NEW bound, NEW paced, Fed(c, out, s, bound, paced),
           Spent(c) => Spent(d), Lost(c, d)
    PROVE  Fed(d, out, s, bound, paced)
<1>1. /\ Answering(d) = Answering(c) /\ Heading(d) = Heading(c)
      /\ InUse(c) => InUse(d)
      /\ Silent(c) => Silent(d)
    BY LostInUse
<1>2. ~IsComplete(d.rx)
    BY FedCases DEF Lost
<1>3. Foremost(c, out) => Foremost(d, out)
    BY <1>1 DEF Foremost, Lost
<1>4. FedBy(c, out, s, bound, paced) => FedBy(d, out, s, bound, paced)
    BY <1>1, <1>3 DEF FedBy
<1> QED BY <1>1, <1>2, <1>4, FedCases

\* A newer bound.
LEMMA FedBound ==
    ASSUME NEW c \in Conn, NEW out, NEW s, NEW bound \in Nat, NEW bound2 \in Nat,
           NEW paced, Fed(c, out, s, bound, paced), bound <= bound2
    PROVE  Fed(c, out, s, bound2, paced)
<1>1. CASE InUse(c) /\ FedBy(c, out, s, bound, paced)
  <2>1. ASSUME NEW j \in Answering(c) PROVE j <= bound2
    <3>1. j \in Nat /\ j <= bound
        BY <1>1, AnsweringJobs DEF FedBy, Job
    <3> QED BY <3>1
  <2>2. FedBy(c, out, s, bound2, paced)
    BY <1>1, <2>1 DEF FedBy
  <2> QED BY <1>1, <2>2, FedCases
<1> QED BY <1>1, FedCases

\* A standby that becomes the active connection with nothing in flight.
LEMMA RestingFed ==
    ASSUME NEW c \in Conn, Resting(c), NEW s, NEW bound, NEW paced
    PROVE  Fed(c, NoJob, s, bound, paced)
<1>1. CASE Unused(c)
    BY <1>1, UnusedInUse, FedCases DEF Resting, FedBy
<1> QED BY <1>1, FedCases DEF Resting

\* The request is on its way to a live peer, behind those before it.
Taken(c, d, j) ==
    /\ c.sock = "up" /\ d.sock = "up" /\ d.gap = c.gap
    /\ d.rx = c.rx /\ d.inbox = c.inbox /\ d.reqs = Append(c.reqs, j)

\* What send_tx may do to a connection.
LEMMA SendTxCases ==
    ASSUME NEW c \in Conn, NEW j \in Job, NEW r \in SendTx(c, j)
    PROVE  /\ r.conn \in Conn
           /\ \/ r.res = "ok" /\ Taken(c, r.conn, j)
              \/ r.res = "ok" /\ Lost(c, r.conn) /\ ~Spent(c)
              \/ r.res # "ok" /\ r.conn = c /\ (HttpConnFailedIo(r.res) => Spent(c))
              \/ r.res # "ok" /\ ~HttpConnFailedIo(r.res) /\ Lost(c, r.conn) /\ ~Spent(c)
              \/ /\ r.res # "ok" /\ ~HttpConnFailedIo(r.res) /\ Taken(c, r.conn, j)
                 /\ ConnKind # "RawLibc" /\ ~c.gap
<1>1. r.conn \in Conn
    BY SendTxType
<1>2. c.sock \in {"up", "fin", "rst", "tmo"} /\ c.gap \in BOOLEAN
    BY DEF Conn
<1>3. CASE j \in Oversize
    BY <1>1, <1>3 DEF SendTx, HttpConnFailedIo
<1>4. CASE j \notin Oversize /\ ConnKind = "RawLibc"
  <2>1. CASE c.sock = "up"
    BY <1>1, <1>4, <2>1 DEF SendTx, RawLibcSubmit, Sent, Conn, Taken
  <2>2. CASE c.sock = "fin"
    BY <1>1, <1>4, <2>2 DEF SendTx, RawLibcSubmit, Conn, Spent, Lost
  <2>3. CASE c.sock = "rst"
    BY <1>1, <1>4, <2>3 DEF SendTx, RawLibcSubmit, Spent
  <2>4. CASE c.sock = "tmo"
    BY <1>1, <1>4, <2>4 DEF SendTx, RawLibcSubmit, Conn, Spent, HttpConnFailedIo, Lost
  <2> QED BY <1>2, <2>1, <2>2, <2>3, <2>4
<1>5. CASE j \notin Oversize /\ ConnKind # "RawLibc"
  <2>1. r \in IoUringSubmit(c, j) /\ ~Spent(c)
    BY <1>5 DEF SendTx, Spent
  <2>2. r.res = "ok" \/ (r.res # "ok" /\ ~HttpConnFailedIo(r.res))
    BY <2>1 DEF IoUringSubmit, HttpConnFailedIo
  <2>3. CASE c.sock = "up" /\ ~c.gap
    <3>1. r.conn \in {[c EXCEPT !.reqs = Append(c.reqs, j)], [c EXCEPT !.gap = TRUE]}
        BY <2>1, <2>3 DEF IoUringSubmit, Sent
    <3>2. Taken(c, r.conn, j) \/ Lost(c, r.conn)
        BY <2>3, <3>1 DEF Taken, Lost, Conn
    <3> QED BY <1>1, <1>5, <2>1, <2>2, <2>3, <3>2
  <2>4. CASE ~(c.sock = "up" /\ ~c.gap)
    <3>0. PICK m \in {"ok", "Other"},
               k \in {c.sock} \cup (IF c.sock = "up" THEN {} ELSE {"fin"}) :
                   r = [res |-> m, conn |-> [c EXCEPT !.sock = k]]
        BY <2>1, <2>4 DEF IoUringSubmit
    <3>1. /\ r.conn = [c EXCEPT !.sock = k]
          /\ k = c.sock \/ (c.sock # "up" /\ k = "fin")
        BY <3>0
    <3>2. Lost(c, r.conn)
        BY <1>2, <2>4, <3>1 DEF Lost, Conn
    <3> QED BY <1>1, <2>1, <2>2, <3>2
  <2> QED BY <2>3, <2>4
<1> QED BY <1>3, <1>4, <1>5

\* No outcome in s reports a response to job n or a later one.
BodiesUnder(s, n) == \A i \in 1 .. Len(s) : s[i].body < n

\* The jobs in A are not newer than bound and none is reported in s.
StillOwed(A, s, bound) == \A i \in A : BodiesUnder(s, i) /\ i <= bound

\* A job newer than all before it joins what a live connection has to answer.
LEMMA FedTaken ==
    ASSUME NEW c \in Conn, NEW d \in Conn, NEW j \in Job, Taken(c, d, j),
           NEW out \in Nat, NEW s, NEW bound \in Nat, NEW paced,
           Fed(c, out, s, bound, paced), bound < j,
           BodiesUnder(s, j), NEW bound2 \in Nat, j <= bound2
    PROVE  /\ ~IsComplete(d.rx) /\ InUse(c) /\ FedBy(c, out, s, bound, paced)
           /\ InUse(d) /\ Answering(d) \subseteq Answering(c) \cup {j}
           /\ Heading(c) \cup {j} \subseteq Heading(d)
           /\ \A i \in Answering(c) : i < j
           /\ StillOwed(Answering(d), s, bound2)
<1>1. ~IsComplete(d.rx) /\ InUse(c) /\ FedBy(c, out, s, bound, paced)
    BY FedCases DEF Silent, Spent, Taken
<1>2. ASSUME NEW i \in Answering(c) PROVE i < j /\ i <= bound2
  <2>1. i \in Nat /\ j \in Nat /\ i <= bound
    BY <1>1, AnsweringJobs DEF FedBy, Job
  <2> QED BY <2>1
<1>3. /\ InUse(d) /\ Answering(d) \subseteq Answering(c) \cup {j}
      /\ Heading(c) \cup {j} \subseteq Heading(d)
    BY <1>1, <1>2, InUseSend DEF Taken
<1>4. ASSUME NEW i \in Answering(d)
      PROVE  BodiesUnder(s, i) /\ i <= bound2
  <2>1. CASE i \in Answering(c)
    BY <1>1, <1>2, <2>1 DEF FedBy, BodiesUnder
  <2> QED BY <1>3, <2>1
<1> QED BY <1>1, <1>2, <1>3, <1>4 DEF StillOwed

\* The active connection takes job j, newer than all before it, or loses it;
\* a paced caller had nothing in flight.
LEMMA FedSend ==
    ASSUME NEW c \in Conn, NEW j \in Job, NEW r \in SendTx(c, j), r.res = "ok",
           NEW out \in Nat, NEW s, NEW bound \in Nat, NEW paced,
           Fed(c, out, s, bound, paced), bound < j,
           \A i \in 1 .. Len(s) : s[i].body < j,
           paced => out = NoJob, NEW bound2 \in Nat, j <= bound2
    PROVE  Fed(r.conn, j, s, bound2, paced)
<1>0. BodiesUnder(s, j)
    BY DEF BodiesUnder
<1>1. PICK d \in Conn : d = r.conn
    BY SendTxCases
<1>2. j # NoJob /\ j \in Nat
    BY DEF Job, NoJob
<1>3. ASSUME NEW i \in Answering(c), FedBy(c, out, s, bound, paced)
      PROVE  i < j /\ i <= j /\ i <= bound2 /\ ~paced
  <2>1. i \in Nat /\ i # NoJob /\ i <= bound
    BY <1>3, AnsweringJobs DEF FedBy, Job, NoJob
  <2> QED BY <1>2, <1>3, <2>1 DEF FedBy
<1>4. CASE Taken(c, d, j)
  <2>1. /\ ~IsComplete(d.rx) /\ InUse(c) /\ FedBy(c, out, s, bound, paced)
        /\ InUse(d) /\ Answering(d) \subseteq Answering(c) \cup {j}
        /\ Heading(c) \cup {j} \subseteq Heading(d)
        /\ StillOwed(Answering(d), s, bound2)
    BY <1>0, <1>4, FedTaken
  <2>2. \A i \in Answering(d) : paced => i = j
    BY <1>3, <2>1
  <2>3. Foremost(d, j)
    BY <2>1 DEF Foremost
  <2>4. FedBy(d, j, s, bound2, paced)
    BY <2>1, <2>2, <2>3 DEF FedBy, StillOwed, BodiesUnder
  <2> QED BY <1>1, <2>1, <2>4, FedCases
<1>5. CASE Lost(c, d) /\ ~Spent(c)
  <2>1. /\ Answering(d) = Answering(c) /\ Heading(d) = Heading(c)
        /\ InUse(c) => InUse(d)
        /\ Silent(c) => Silent(d)
    BY <1>5, LostInUse
  <2>2. ~IsComplete(d.rx)
    BY <1>5, FedCases DEF Lost
  <2>3. CASE Silent(c)
    BY <1>1, <2>1, <2>2, <2>3, FedCases
  <2>4. CASE InUse(c) /\ FedBy(c, out, s, bound, paced)
    <3>1. Foremost(d, j)
        BY <1>3, <1>5, <2>1, <2>4 DEF Foremost, Lost
    <3>2. FedBy(d, j, s, bound2, paced)
        BY <1>3, <2>1, <2>4, <3>1 DEF FedBy
    <3> QED BY <1>1, <2>1, <2>2, <2>4, <3>2, FedCases
  <2> QED BY <1>5, <2>3, <2>4, FedCases
<1> QED BY <1>1, <1>4, <1>5, SendTxCases

\* send_tx fails: the active connection stays fed, though it may answer the
\* job all the same, and where the worker then fails over it may rest.
LEMMA FedReject ==
    ASSUME NEW c \in Conn, NEW j \in Job, NEW r \in SendTx(c, j), r.res # "ok",
           NEW out \in Nat, NEW s, NEW bound \in Nat, NEW paced,
           Fed(c, out, s, bound, paced), bound < j,
           \A i \in 1 .. Len(s) : s[i].body < j,
           paced => ConnKind = "RawLibc", NEW bound2 \in Nat, j <= bound2
    PROVE  /\ Fed(r.conn, out, s, bound2, paced)
           /\ HttpConnFailedIo(r.res) => Resting(r.conn)
<1>0. BodiesUnder(s, j)
    BY DEF BodiesUnder
<1>1. PICK d \in Conn : d = r.conn
    BY SendTxCases
<1>2. bound <= bound2
    BY DEF Job
<1>3. CASE d = c /\ (HttpConnFailedIo(r.res) => Spent(c))
  <2>1. Fed(d, out, s, bound2, paced)
    BY <1>2, <1>3, FedBound
  <2> QED BY <1>1, <1>3, <2>1, FedCases DEF Resting
<1>4. CASE ~HttpConnFailedIo(r.res) /\ Lost(c, d) /\ ~Spent(c)
  <2>1. Fed(d, out, s, bound, paced)
    BY <1>4, FedLost
  <2>2. Fed(d, out, s, bound2, paced)
    BY <1>2, <2>1, FedBound
  <2> QED BY <1>1, <1>4, <2>2
<1>5. CASE ~HttpConnFailedIo(r.res) /\ Taken(c, d, j) /\ ConnKind # "RawLibc" /\ ~c.gap
  <2>1. /\ ~IsComplete(d.rx) /\ InUse(c) /\ FedBy(c, out, s, bound, paced)
        /\ InUse(d) /\ Heading(c) \cup {j} \subseteq Heading(d)
        /\ StillOwed(Answering(d), s, bound2)
    BY <1>0, <1>5, FedTaken
  <2>2. out # NoJob => Foremost(d, out)
    BY <1>5, <2>1 DEF FedBy, Foremost, Taken
  <2>3. FedBy(d, out, s, bound2, paced)
    BY <1>5, <2>1, <2>2 DEF FedBy, StillOwed, BodiesUnder
  <2> QED BY <1>1, <1>5, <2>1, <2>3, FedCases
<1> QED BY <1>1, <1>3, <1>4, <1>5, SendTxCases

\* The retry on the standby.
LEMMA RestingSend ==
    ASSUME NEW c \in Conn, NEW j \in Job, NEW r \in SendTx(c, j), Resting(c),
           NEW s, \A i \in 1 .. Len(s) : s[i].body < j, NEW bound \in Nat, j <= bound,
           NEW paced, paced => ConnKind = "RawLibc"
    PROVE  Fed(r.conn, IF r.res = "ok" THEN j ELSE NoJob, s, bound, paced)
<1>1. Fed(c, NoJob, s, 0, paced)
    BY RestingFed
<1>2. NoJob \in Nat /\ 0 \in Nat /\ 0 < j
    BY DEF NoJob, Job
<1>3. CASE r.res = "ok"
  <2>1. Fed(r.conn, j, s, bound, paced)
    BY <1>1, <1>2, <1>3, FedSend
  <2> QED BY <1>3, <2>1
<1>4. CASE r.res # "ok"
  <2>1. Fed(r.conn, NoJob, s, bound, paced)
    BY <1>1, <1>2, <1>4, FedReject
  <2> QED BY <1>4, <2>1
<1> QED BY <1>3, <1>4

\* What poll_response may do to a connection.
LEMMA PollCases ==
    ASSUME NEW c \in Conn, NEW r \in PollResponse(c)
    PROVE  /\ r.conn \in Conn
           /\ \/ r.res # "ok" /\ ~HttpConnFailedIo(r.res) /\ r.conn = c
              \/ /\ r.res # "ok" /\ c.inbox = <<>> /\ c.sock # "up"
                 /\ Lost(c, r.conn) /\ (Spent(c) => Spent(r.conn))
              \/ /\ r.res = "ok" /\ r.conn.sock = c.sock
                 /\ r.conn.reqs = c.reqs /\ r.conn.gap = c.gap
                 /\ \E k \in 0 .. Len(c.inbox) : \E got :
                       /\ got = Ingest(c.rx, SubSeq(c.inbox, 1, k)) /\ r.body = got.body
                       /\ r.conn.rx = got.rx
                       /\ r.conn.inbox = SubSeq(c.inbox, k + 1, Len(c.inbox))
<1>1. r.conn \in Conn
    BY PollResponseType
<1>2. c.sock \in {"up", "fin", "rst", "tmo"} /\ c.inbox \in Seq(Frag)
    BY DEF Conn
<1>3. CASE r \in EnterFails(c)
    BY <1>1, <1>3 DEF EnterFails, HttpConnFailedIo
<1>4. CASE r \notin EnterFails(c) /\ PollRecv(c) # "ok"
  <2>1. r.res = PollRecv(c) /\ r.conn = AfterError(c)
    BY <1>4 DEF PollResponse
  <2>2. c.inbox = <<>> /\ c.sock # "up"
    BY <1>2, <1>4 DEF PollRecv, RawLibcRecv, IoUringRecv
  <2>3. /\ r.conn.sock \in {"fin", "rst"} /\ (Spent(c) => Spent(r.conn))
        /\ r.conn.rx = c.rx /\ r.conn.inbox = c.inbox /\ r.conn.reqs = c.reqs
    BY <2>1 DEF AfterError, Conn, Spent
  <2> QED BY <1>1, <1>4, <2>1, <2>2, <2>3 DEF Lost
<1>5. CASE r \notin EnterFails(c) /\ PollRecv(c) = "ok"
  <2>1. PICK k, got :
            /\ k \in IF c.inbox = <<>> THEN {0} ELSE 1 .. Len(c.inbox)
            /\ got = Ingest(c.rx, SubSeq(c.inbox, 1, k))
            /\ r = [res |-> "ok", body |-> got.body,
                    conn |-> [c EXCEPT !.rx = got.rx,
                                       !.inbox = SubSeq(c.inbox, k + 1, Len(c.inbox))]]
    BY <1>5 DEF PollResponse
  <2>2. k \in 0 .. Len(c.inbox)
    BY <1>2, <2>1
  <2>3. /\ r.res = "ok" /\ r.body = got.body
        /\ r.conn = [c EXCEPT !.rx = got.rx,
                              !.inbox = SubSeq(c.inbox, k + 1, Len(c.inbox))]
    BY <2>1
  <2>4. /\ r.conn.sock = c.sock /\ r.conn.reqs = c.reqs /\ r.conn.gap = c.gap
        /\ r.conn.rx = got.rx /\ r.conn.inbox = SubSeq(c.inbox, k + 1, Len(c.inbox))
    BY <2>3 DEF Conn
  <2> QED BY <1>1, <2>1, <2>2, <2>3, <2>4
<1> QED BY <1>3, <1>4, <1>5

(* What poll_response means for a connection that is fed.  If it fails the *)
(* connection may rest.  A body that it answers while a job is in flight   *)
(* is newer than any reported and not newer than the job, and what is left *)
(* to answer is newer still.                                               *)
LEMMA PollFed ==
    ASSUME NEW c \in Conn, NEW r \in PollResponse(c),
           NEW out \in Nat, NEW s \in Seq(Outcome), NEW bound \in Nat, NEW paced \in BOOLEAN,
           Fed(c, out, s, bound, paced)
    PROVE  /\ r.res # "ok" => Fed(r.conn, out, s, bound, paced)
           /\ HttpConnFailedIo(r.res) => Resting(r.conn)
           /\ r.res = "ok" /\ (r.body = NoJob \/ out = NoJob)
                 => Fed(r.conn, out, s, bound, paced)
           /\ r.res = "ok" /\ r.body # NoJob /\ out # NoJob =>
                 /\ r.body \in Job /\ r.body <= out /\ (paced => r.body = out)
                 /\ \A i \in 1 .. Len(s) : s[i].body < r.body
                 /\ Fed(r.conn, NoJob, s, bound, paced)
                 /\ Fed(r.conn, NoJob, Append(s, [job |-> out, body |-> r.body]), bound, paced)
<1>1. PICK d \in Conn : d = r.conn
    BY PollCases
<1>2. ~IsComplete(c.rx) /\ ~HttpConnFailedIo("ok")
    BY FedCases DEF HttpConnFailedIo
<1>3. CASE /\ r.res # "ok" /\ c.inbox = <<>> /\ c.sock # "up"
           /\ Lost(c, d) /\ (Spent(c) => Spent(d))
  <2>1. Fed(d, out, s, bound, paced)
    BY <1>3, FedLost
  <2>2. Silent(d) \/ Spent(d)
    BY <1>2, <1>3, FedCases DEF Silent, InUse, Lost
  <2>3. Resting(d)
    BY <1>2, <1>3, <2>2 DEF Resting, Lost
  <2> QED BY <1>1, <1>3, <2>1, <2>3
<1>5. CASE r.res # "ok" /\ ~HttpConnFailedIo(r.res) /\ d = c
    BY <1>1, <1>5
<1>4. CASE /\ r.res = "ok" /\ d.sock = c.sock /\ d.reqs = c.reqs /\ d.gap = c.gap
           /\ \E k \in 0 .. Len(c.inbox) : \E got :
                 /\ got = Ingest(c.rx, SubSeq(c.inbox, 1, k)) /\ r.body = got.body
                 /\ d.rx = got.rx
                 /\ d.inbox = SubSeq(c.inbox, k + 1, Len(c.inbox))
  <2>1. PICK k, got :
            /\ k \in 0 .. Len(c.inbox)
            /\ got = Ingest(c.rx, SubSeq(c.inbox, 1, k)) /\ r.body = got.body
            /\ d.rx = got.rx
            /\ d.inbox = SubSeq(c.inbox, k + 1, Len(c.inbox))
    BY <1>4
  <2>2. /\ ~IsComplete(d.rx) /\ (c.inbox = <<>> => d.inbox = <<>>)
        /\ Stream(c) \in Seq(Frag) /\ Stream(d) \in Seq(Frag)
        /\ \/ got.body = NoJob /\ Stream(d) = Stream(c)
           \/ /\ c.inbox = <<>> => IsComplete(c.rx)
              /\ \E n \in Nat, e \in 1 .. Len(Stream(c)) - 1 :
                    /\ got.body = Stream(c)[e + 1].job /\ got.body \in Job
                    /\ Stream(c)[e].part = "end" /\ e + 1 <= n
                    /\ \A i \in 1 .. e - 1 : Stream(c)[i].part # "end"
                    /\ PartOf(Stream(d), Stream(c), n)
                    /\ n + Len(Stream(d)) = Len(Stream(c))
    BY <2>1, IngestStream
  <2>3. (Silent(c) => Silent(d)) /\ (Spent(c) => Spent(d))
    BY <1>2, <1>4, <2>2 DEF Silent, Spent
  <2>4. CASE r.body = NoJob /\ Stream(d) = Stream(c)
    <3>1. PartOf(Stream(d), Stream(c), 0) /\ 0 + Len(Stream(d)) = Len(Stream(c))
        BY <2>2, <2>4, SamePart
    <3>2. Fed(d, out, s, bound, paced)
        BY <1>2, <1>4, <2>2, <2>3, <3>1, FedPart
    <3> QED BY <1>1, <1>2, <1>4, <2>4, <3>2
  <2>5. CASE /\ c.inbox = <<>> => IsComplete(c.rx)
             /\ \E n \in Nat, e \in 1 .. Len(Stream(c)) - 1 :
                   /\ got.body = Stream(c)[e + 1].job /\ got.body \in Job
                   /\ Stream(c)[e].part = "end" /\ e + 1 <= n
                   /\ \A i \in 1 .. e - 1 : Stream(c)[i].part # "end"
                   /\ PartOf(Stream(d), Stream(c), n)
                   /\ n + Len(Stream(d)) = Len(Stream(c))
    <3>1. PICK n \in Nat, e \in 1 .. Len(Stream(c)) - 1 :
              /\ r.body = Stream(c)[e + 1].job /\ r.body \in Job
              /\ Stream(c)[e].part = "end" /\ e + 1 <= n
              /\ \A i \in 1 .. e - 1 : Stream(c)[i].part # "end"
              /\ PartOf(Stream(d), Stream(c), n)
              /\ n + Len(Stream(d)) = Len(Stream(c))
        BY <2>1, <2>5
    <3>2. out = NoJob => Fed(d, out, s, bound, paced)
        BY <1>2, <1>4, <2>2, <2>3, <3>1, FedPart
    <3>3. ASSUME out # NoJob
          PROVE  /\ r.body <= out /\ (paced => r.body = out)
                 /\ \A i \in 1 .. Len(s) : s[i].body < r.body
                 /\ \A t \in {s, Append(s, [job |-> out, body |-> r.body])} :
                       Fed(d, NoJob, t, bound, paced)
      <4>1. InUse(c) /\ FedBy(c, out, s, bound, paced)
          BY <1>2, <2>5, <3>3, FedCases DEF Silent
      <4>2. PICK b \in Job : b = r.body
          BY <3>1
      <4>3. e \in Nat /\ Len(Stream(c)) \in Nat /\ Len(Stream(d)) \in Nat
          BY <2>2
      <4>4. e + 1 \in 1 .. Len(Stream(c))
          BY <4>3
      <4>5. b \in Answering(c)
          BY <3>1, <4>2, <4>4, AnsweringJobs
      <4>6. /\ b <= out /\ (paced => b = out)
            /\ \A i \in 1 .. Len(s) : s[i].body < b
        <5>1. (paced => b = out) /\ \A i \in 1 .. Len(s) : s[i].body < b
            BY <4>1, <4>5 DEF FedBy
        <5>2. Foremost(c, out) /\ b \in Nat
            BY <3>3, <4>1 DEF FedBy, Job
        <5>3. ASSUME out \in Heading(c), out < b PROVE FALSE
          <6>1. Stream(c)[e].job = b
              BY <3>1, <4>1, <4>2 DEF InUse, Framed
          <6>2. e \in 1 .. Len(Stream(c))
              BY <4>3
          <6>3. ASSUME NEW i \in 1 .. Len(c.reqs), c.reqs[i] = out PROVE FALSE
            <7>1. Stream(c)[e].job < c.reqs[i]
                BY <4>1, <6>2 DEF InUse
            <7> QED BY <5>2, <5>3, <6>1, <6>3, <7>1
          <6>4. PICK i \in 1 .. Len(Stream(c)) :
                    Stream(c)[i].part = "end" /\ Stream(c)[i].job = out
              BY <5>3, <6>3, HeadingJobs
          <6>5. e < i => Stream(c)[e].job <= Stream(c)[i].job
              BY <4>1, <6>2 DEF InUse, Ordered
          <6>6. ~(e < i) /\ e # i
              BY <5>2, <5>3, <6>1, <6>4, <6>5
          <6>7. i \in 1 .. e - 1
              BY <4>3, <6>6
          <6> QED BY <3>1, <6>4, <6>7
        <5>4. b <= out
            BY <4>5, <5>2, <5>3 DEF Foremost
        <5> QED BY <5>1, <5>4
      <4>7. InUse(d)
          BY <1>4, <3>1, <4>1, InUsePart
      <4>8. ASSUME NEW i \in Answering(d)
            PROVE  i \in Nat /\ b < i /\ i <= bound /\ ~paced
        <5>1. i \in Answering(c)
            BY <1>4, <3>1, <4>1, <4>8, InUsePart
        <5>2. i \in Job /\ b \in Nat /\ out \in Nat /\ bound \in Nat
            BY <5>1, AnsweringJobs DEF Job
        <5>3. b < i
          <6>1. Stream(c)[e + 1].part = "body"
              BY <3>1, <4>1 DEF InUse, Framed
          <6>2. ASSUME NEW m \in 1 .. Len(Stream(d)), i = Stream(d)[m].job PROVE b < i
            <7>1. n + m \in 1 .. Len(Stream(c)) /\ e + 1 < n + m
                BY <3>1, <4>3
            <7>2. Stream(d)[m] = Stream(c)[n + m]
                BY <3>1 DEF PartOf
            <7>3. Stream(c)[e + 1].job < Stream(c)[n + m].job
                BY <4>1, <4>4, <6>1, <7>1 DEF InUse, Ordered
            <7> QED BY <3>1, <4>2, <6>2, <7>2, <7>3
          <6>3. ASSUME NEW m \in 1 .. Len(d.reqs), i = d.reqs[m] PROVE b < i
            <7>1. Stream(c)[e + 1].job < c.reqs[m]
                BY <1>4, <4>1, <4>4 DEF InUse
            <7> QED BY <1>4, <3>1, <4>2, <6>3, <7>1
          <6> QED BY <4>8, <6>2, <6>3 DEF Answering
        <5>4. i <= bound /\ (paced => i = out)
            BY <4>1, <5>1 DEF FedBy
        <5>5. i \in Nat /\ i <= bound
            BY <5>2, <5>4 DEF Job
        <5>6. ~paced
            BY <4>6, <5>2, <5>3, <5>4
        <5> QED BY <5>3, <5>5, <5>6
      <4>9. ASSUME NEW t \in {s, Append(s, [job |-> out, body |-> r.body])}
            PROVE  Fed(d, NoJob, t, bound, paced)
        <5>1. ASSUME NEW m \in 1 .. Len(t) PROVE t[m].body \in Nat /\ t[m].body <= b
          <6>1. ASSUME NEW h \in 1 .. Len(s) PROVE s[h].body \in Nat /\ s[h].body <= b
            <7>1. s[h] \in Outcome /\ s[h].body < b /\ b \in Nat
                BY <4>6 DEF Job
            <7> QED BY <7>1, SMTT(30) DEF Outcome, Job, NoJob
          <6>2. CASE t = s
              BY <6>1, <6>2
          <6>3. CASE t = Append(s, [job |-> out, body |-> r.body])
            <7>1. PICK o : o = [job |-> out, body |-> r.body]
                OBVIOUS
            <7>2. o.body = b /\ b \in Nat
                BY <4>2, <7>1 DEF Job
            <7>3. t = Append(s, o)
                BY <6>3, <7>1
            <7>4. o \in {o} \cup Outcome /\ s \in Seq({o} \cup Outcome)
                OBVIOUS
            <7>5. /\ Len(t) = Len(s) + 1 /\ t[Len(s) + 1] = o
                  /\ \A h \in 1 .. Len(s) : t[h] = s[h]
                BY <7>3, <7>4, AppendProperties
            <7>6. m \in 1 .. Len(s) \/ m = Len(s) + 1
                BY <7>5
            <7> QED BY <6>1, <7>2, <7>5, <7>6
          <6> QED BY <6>2, <6>3
        <5>2. ASSUME NEW i \in Answering(d), NEW m \in 1 .. Len(t) PROVE t[m].body < i
          <6>1. t[m].body \in Nat /\ t[m].body <= b /\ b < i /\ i \in Nat /\ b \in Nat
              BY <4>8, <5>1 DEF Job
          <6> QED BY <6>1
        <5>3. FedBy(d, NoJob, t, bound, paced)
            BY <4>8, <5>2 DEF FedBy
        <5> QED BY <2>2, <4>7, <5>3, FedCases
      <4> QED BY <4>2, <4>6, <4>9
    <3>4. CASE out = NoJob
        BY <1>1, <1>2, <1>4, <3>2, <3>4
    <3>5. CASE out # NoJob
      <4>1. /\ r.body <= out /\ (paced => r.body = out)
            /\ \A i \in 1 .. Len(s) : s[i].body < r.body
            /\ Fed(d, NoJob, s, bound, paced)
            /\ Fed(d, NoJob, Append(s, [job |-> out, body |-> r.body]), bound, paced)
          BY <3>3, <3>5
      <4>2. r.body # NoJob
          BY <3>1 DEF Job, NoJob
      <4> QED BY <1>1, <1>2, <1>4, <3>1, <3>5, <4>1, <4>2
    <3> QED BY <3>4, <3>5
  <2> QED BY <2>1, <2>2, <2>4, <2>5
<1> QED BY <1>1, <1>3, <1>4, <1>5, PollCases

-----------------------------------------------------------------------------
(* Outcomes and the responses they report.                                 *)

\* An outcome pushed to the ring is the last of all; one that the lane moves
\* to the sink keeps its place.
LEMMA AllOutcomes ==
    ASSUME NEW s \in Seq(Outcome), NEW r \in Seq(Outcome)
    PROVE  /\ s \o r \in Seq(Outcome)
           /\ \A o \in Outcome : s \o Append(r, o) = Append(s \o r, o)
           /\ r # <<>> => Append(s, Head(r)) \o Tail(r) = s \o r
<1>1. s \o r \in Seq(Outcome)
    BY ConcatProperties
<1>2. ASSUME NEW o \in Outcome PROVE s \o Append(r, o) = Append(s \o r, o)
  <2>1. <<o>> \in Seq(Outcome)
    OBVIOUS
  <2>2. Append(r, o) = r \o <<o>> /\ Append(s \o r, o) = (s \o r) \o <<o>>
    BY <1>1, AppendIsConcat
  <2>3. (s \o r) \o <<o>> = s \o (r \o <<o>>)
    BY <2>1, ConcatAssociative
  <2> QED BY <2>2, <2>3
<1>3. ASSUME r # <<>> PROVE Append(s, Head(r)) \o Tail(r) = s \o r
  <2>1. PICK h \in Outcome, t \in Seq(Outcome) : h = Head(r) /\ t = Tail(r)
    BY <1>3, HeadTailProperties
  <2>2. <<h>> \in Seq(Outcome) /\ Len(<<h>>) = 1 /\ <<h>>[1] = h
    OBVIOUS
  <2>3. Append(s, h) = s \o <<h>>
    BY AppendIsConcat
  <2>4. (s \o <<h>>) \o t = s \o (<<h>> \o t)
    BY <2>2, ConcatAssociative
  <2>5. <<h>> \o t = r
    <3>1. /\ Len(t) = Len(r) - 1 /\ Len(r) \in Nat /\ h = r[1]
          /\ \A i \in 1 .. Len(t) : t[i] = r[i + 1]
        BY <1>3, <2>1, HeadTailProperties
    <3>2. PICK x : x = <<h>> \o t
        OBVIOUS
    <3>3. /\ x \in Seq(Outcome) /\ Len(x) = 1 + Len(t) /\ x[1] = h
          /\ \A i \in 1 .. Len(t) : x[1 + i] = t[i]
        BY <2>2, <3>2, Joined
    <3>4. ASSUME NEW i \in 1 .. Len(r) PROVE x[i] = r[i]
      <4>1. CASE i = 1
          BY <3>1, <3>3, <4>1
      <4>2. CASE i # 1
        <5>1. i - 1 \in 1 .. Len(t) /\ 1 + (i - 1) = i /\ (i - 1) + 1 = i
            BY <3>1, <4>2
        <5> QED BY <3>1, <3>3, <5>1
      <4> QED BY <4>1, <4>2
    <3>5. Len(x) = Len(r)
        BY <3>1, <3>3
    <3> QED BY <3>2, <3>3, <3>4, <3>5, SeqEqual
  <2> QED BY <2>1, <2>3, <2>4, <2>5
<1> QED BY <1>1, <1>2, <1>3

\* A new outcome without a response, or with one newer than those reported
\* and not newer than its job.
LEMMA ReportAppend ==
    ASSUME NEW s \in Seq(Outcome), NEW o \in Outcome, Reported(s), o.body <= o.job,
           o.body # NoJob => \A i \in 1 .. Len(s) : s[i].body < o.body
    PROVE  /\ Reported(Append(s, o))
           /\ Matched(s) /\ o.body \in {NoJob, o.job} => Matched(Append(s, o))
<1>1. PICK t : t = Append(s, o)
    OBVIOUS
<1>2. /\ Len(t) = Len(s) + 1 /\ t[Len(s) + 1] = o
      /\ \A i \in 1 .. Len(s) : t[i] = s[i]
    BY <1>1, AppendProperties
<1>3. Len(s) \in Nat
    OBVIOUS
<1>4. \A i \in 1 .. Len(t) : i \in 1 .. Len(s) \/ i = Len(s) + 1
    BY <1>2, <1>3
<1>5. \A i \in 1 .. Len(t) : t[i].body <= t[i].job
    BY <1>2, <1>4 DEF Reported
<1>6. ASSUME NEW i \in 1 .. Len(t), NEW k \in 1 .. Len(t), i < k, t[k].body # NoJob
      PROVE  t[i].body < t[k].body
  <2>1. i \in 1 .. Len(s)
    BY <1>2, <1>3, <1>6
  <2>2. CASE k \in 1 .. Len(s)
    BY <1>2, <1>6, <2>1, <2>2 DEF Reported
  <2>3. CASE k = Len(s) + 1
    BY <1>2, <1>6, <2>1, <2>3
  <2> QED BY <1>4, <2>2, <2>3
<1>7. Reported(t)
    BY <1>5, <1>6 DEF Reported
<1>8. Matched(s) /\ o.body \in {NoJob, o.job} => Matched(t)
    BY <1>2, <1>4 DEF Matched
<1> QED BY <1>1, <1>7, <1>8

\* No outcome so far reports a response to a job after bound.
LEMMA BodiesBelow ==
    ASSUME NEW s \in Seq(Outcome), NEW r \in Seq(Outcome), NEW out \in Nat, NEW sent,
           NEW bound \in Nat, SettledAt(s, r, out, sent, bound), Reported(s \o r),
           NEW j \in Nat, bound < j
    PROVE  \A i \in 1 .. Len(s \o r) : (s \o r)[i].body < j
<1>1. PICK t \in Seq(Outcome) : t = s \o r
    BY AllOutcomes
<1>2. /\ \A i \in 1 .. Len(s) : t[i] = s[i]
      /\ \A i \in 1 .. Len(r) : t[Len(s) + i] = r[i]
      /\ \A i \in 1 .. Len(t) : i \in 1 .. Len(s) \/ \E k \in 1 .. Len(r) : i = Len(s) + k
  <2>1. \A i \in 1 .. Len(s) : (s \o r)[i] = s[i]
    BY Joined
  <2>2. \A i \in 1 .. Len(r) : (s \o r)[Len(s) + i] = r[i]
    BY Joined
  <2>3. \A i \in 1 .. Len(s \o r) : i \in 1 .. Len(s) \/ \E k \in 1 .. Len(r) : i = Len(s) + k
    BY Joined
  <2> QED BY <1>1, <2>1, <2>2, <2>3
<1>3. /\ \A i \in 1 .. Len(s) : s[i].job \in Nat
      /\ \A i \in 1 .. Len(r) : r[i].job \in Nat
    BY OutcomeJobs
<1>4. /\ \A i \in 1 .. Len(s) : s[i].job < j
      /\ \A i \in 1 .. Len(r) : r[i].job < j
    BY <1>3, SMTT(30) DEF SettledAt, InOrder, AllBelow
<1>5. ASSUME NEW i \in 1 .. Len(t) PROVE t[i].body < j
  <2>1. t[i].job < j
    BY <1>2, <1>4
  <2>2. t[i] \in Outcome /\ t[i].body <= t[i].job
    BY <1>1 DEF Reported
  <2>3. t[i].body \in Nat /\ t[i].job \in Nat
    BY <2>2 DEF Outcome, Job, NoJob
  <2> QED BY <2>1, <2>2, <2>3, SMTT(30)
<1> QED BY <1>1, <1>5

\* What Reported says of the outcomes of a provider.
LEMMA ReportedOnce ==
    (\A p \in Provider : sink[p] \in Seq(Outcome) /\ results[p] \in Seq(Outcome)
                          /\ Reported(All(p))) => ResponsesReportedOnce
<1> SUFFICES ASSUME \A p \in Provider : sink[p] \in Seq(Outcome) /\ results[p] \in Seq(Outcome)
                                         /\ Reported(All(p)),
                    NEW p \in Provider, NEW all, all = sink[p] \o results[p]
             PROVE  /\ \A i \in DOMAIN all : all[i].body <= all[i].job
                    /\ \A i, k \in DOMAIN all :
                          i < k /\ all[k].body # NoJob => all[i].body < all[k].body
    BY DEF ResponsesReportedOnce
<1>1. all \in Seq(Outcome) /\ DOMAIN all = 1 .. Len(all) /\ Reported(all)
    BY AllOutcomes DEF All
<1> QED BY <1>1 DEF Reported

\* What Matched says of the outcomes of a provider.
LEMMA MatchedJobs ==
    (\A p \in Provider : sink[p] \in Seq(Outcome) /\ results[p] \in Seq(Outcome)
                          /\ Matched(All(p))) => OutcomeMatchesJob
<1> SUFFICES ASSUME \A p \in Provider : sink[p] \in Seq(Outcome) /\ results[p] \in Seq(Outcome)
                                         /\ Matched(All(p)),
                    NEW p \in Provider
             PROVE  /\ \A i \in DOMAIN sink[p] : sink[p][i].body \in {NoJob, sink[p][i].job}
                    /\ \A i \in DOMAIN results[p] :
                          results[p][i].body \in {NoJob, results[p][i].job}
    BY DEF OutcomeMatchesJob
<1>1. PICK s \in Seq(Outcome), r \in Seq(Outcome) : s = sink[p] /\ r = results[p]
    OBVIOUS
<1>2. PICK t \in Seq(Outcome) : t = s \o r
    BY AllOutcomes
<1>3. /\ Len(t) = Len(s) + Len(r)
      /\ \A i \in 1 .. Len(s) : t[i] = s[i]
      /\ \A i \in 1 .. Len(r) : t[Len(s) + i] = r[i]
    BY <1>2, Joined
<1>4. /\ \A i \in 1 .. Len(s) : i \in 1 .. Len(t)
      /\ \A i \in 1 .. Len(r) : Len(s) + i \in 1 .. Len(t)
    BY <1>3
<1>5. \A i \in 1 .. Len(t) : t[i].body \in {NoJob, t[i].job}
    BY <1>1, <1>2 DEF Matched, All
<1>6. DOMAIN s = 1 .. Len(s) /\ DOMAIN r = 1 .. Len(r)
    OBVIOUS
<1>7. \A i \in 1 .. Len(s) : s[i].body \in {NoJob, s[i].job}
    BY <1>3, <1>4, <1>5
<1>8. \A i \in 1 .. Len(r) : r[i].body \in {NoJob, r[i].job}
    BY <1>3, <1>4, <1>5
<1> QED BY <1>1, <1>6, <1>7, <1>8

\* The parts of Answered after a step.
LEMMA AnsweredNext ==
    ASSUME NEW p \in Provider, NEW bound, NEW paced, NEW all, all = (All(p))',
           Reported(all), paced => Matched(all),
           p \notin QuicProviders =>
               /\ Fed(active'[p], inflight'[p], all, bound, paced)
               /\ Resting(standby'[p])
               /\ \A k \in 1 .. Len(resp'[p]) : Unused(resp'[p][k])
    PROVE  (Answered(p, bound, paced))'
BY DEF Answered

\* What is typed about p's outcomes and connections.
LEMMA AnsweredTypes ==
    ASSUME WorkerTypeOK, ThreadsTypeOK, NEW p \in Provider
    PROVE  /\ sink[p] \in Seq(Outcome) /\ results[p] \in Seq(Outcome)
           /\ All(p) \in Seq(Outcome)
           /\ active[p] \in Conn /\ standby[p] \in Conn /\ resp[p] \in Seq(Conn)
           /\ inflight[p] \in Nat
<1>1. sink[p] \in Seq(Outcome) /\ results[p] \in Seq(Outcome)
    BY DEF WorkerTypeOK, ThreadsTypeOK
<1>2. All(p) \in Seq(Outcome)
    BY <1>1, AllOutcomes DEF All
<1>3. inflight[p] \in Nat
    BY DEF WorkerTypeOK, Job, NoJob
<1> QED BY <1>1, <1>2, <1>3 DEF WorkerTypeOK

\* Both engines start with no outcome, and connections nothing was sent on.
LEMMA AnsweredInit ==
    ASSUME WorkerInit, ThreadsInit, NEW p \in Provider, NEW bound, NEW paced
    PROVE  Answered(p, bound, paced)
<1> USE DEF WorkerInit, ThreadsInit
<1>1. All(p) = <<>>
  <2>1. sink[p] = <<>> /\ results[p] = <<>> /\ <<>> \in Seq(Outcome)
    OBVIOUS
  <2> QED BY <2>1, ConcatEmptySeq DEF All
<1>2. FreshConn \in Conn /\ Unused(FreshConn)
    BY FreshConnType DEF Unused, FreshConn
<1>3. Resting(FreshConn)
    BY <1>2, EmptyIncomplete DEF Resting, Unused
<1>4. Fed(FreshConn, NoJob, All(p), bound, paced)
    BY <1>2, <1>3, RestingFed
<1>5. Reported(All(p)) /\ Matched(All(p))
    BY <1>1 DEF Reported, Matched
<1>6. /\ active[p] = FreshConn /\ standby[p] = FreshConn /\ inflight[p] = NoJob
      /\ resp[p] = <<>>
    OBVIOUS
<1> QED BY <1>3, <1>4, <1>5, <1>6 DEF Answered

\* A step that leaves p's outcomes and connections alone.
LEMMA SameAnswered ==
    ASSUME WorkerTypeOK, ThreadsTypeOK, NEW p \in Provider,
           NEW bound \in Nat, NEW bound2 \in Nat, NEW paced,
           Answered(p, bound, paced), bound <= bound2,
           (All(p))' = All(p),
           p \notin QuicProviders => /\ active'[p] = active[p] /\ inflight'[p] = inflight[p]
                                     /\ standby'[p] = standby[p] /\ resp'[p] = resp[p]
    PROVE  (Answered(p, bound2, paced))'
<1>1. active[p] \in Conn
    BY AnsweredTypes
<1>2. p \notin QuicProviders => Fed(active[p], inflight[p], All(p), bound2, paced)
    BY <1>1, FedBound DEF Answered
<1> QED BY <1>2, AnsweredNext DEF Answered

\* send_to gives p job j, newer than any it had.
LEMMA SendToAnswered ==
    ASSUME WorkerTypeOK, ThreadsTypeOK, NEW p \in Provider, NEW j \in Job,
           SendTo(p, j), UNCHANGED <<resp, sink>>,
           NEW bound \in Nat, NEW paced, paced => ConnKind = "RawLibc",
           Answered(p, bound, paced), bound < j,
           \A i \in 1 .. Len(All(p)) : All(p)[i].body < j,
           paced /\ p \notin QuicProviders => inflight[p] = NoJob
    PROVE  (Answered(p, j, paced))'
<1>1. active[p] \in Conn /\ standby[p] \in Conn /\ inflight[p] \in Nat /\ All(p) \in Seq(Outcome)
    BY AnsweredTypes
<1>2. (All(p))' = All(p) /\ j \in Nat /\ bound <= j
    BY DEF SendTo, All, Job
<1>3. CASE p \in QuicProviders
    BY <1>2, <1>3, SameAnswered
<1>4. CASE p \notin QuicProviders
  <2>0. /\ Reported(All(p)) /\ (paced => Matched(All(p)))
        /\ Fed(active[p], inflight[p], All(p), bound, paced)
        /\ Resting(standby[p])
        /\ \A k \in 1 .. Len(resp[p]) : Unused(resp[p][k])
    BY <1>4 DEF Answered
  <2>1. CASE HttpSend(p, j)
    <3>1. PICK r \in SendTx(active[p], j) :
              /\ active' = [active EXCEPT ![p] = r.conn]
              /\ \/ r.res = "ok" /\ inflight' = [inflight EXCEPT ![p] = j]
                 \/ r.res # "ok" /\ inflight' = inflight
              /\ standby' = standby
        BY <2>1 DEF HttpSend
    <3>2. active'[p] = r.conn /\ (r.res = "ok" => inflight'[p] = j)
        BY <3>1 DEF WorkerTypeOK
    <3>3. Fed(active'[p], inflight'[p], All(p), j, paced)
      <4>1. CASE r.res = "ok"
        <5>1. Fed(r.conn, j, All(p), j, paced)
            BY <1>1, <1>2, <1>4, <2>0, <4>1, FedSend
        <5> QED BY <3>2, <4>1, <5>1
      <4>2. CASE r.res # "ok"
        <5>1. Fed(r.conn, inflight[p], All(p), j, paced)
            BY <1>1, <1>2, <2>0, <4>2, FedReject
        <5> QED BY <3>1, <3>2, <4>2, <5>1
      <4> QED BY <4>1, <4>2
    <3> QED BY <1>2, <2>0, <3>1, <3>3, AnsweredNext
  <2>2. CASE HttpSendRetry(p, j)
    <3>1. PICK r \in SendTx(active[p], j), r2 \in SendTx(standby[p], j) :
              /\ HttpConnFailedIo(r.res)
              /\ DoFailover(p, r.conn, r2.conn, IF r2.res = "ok" THEN j ELSE NoJob)
        BY <2>2 DEF HttpSendRetry
    <3>2. /\ active'[p] = r2.conn /\ standby'[p] = r.conn
          /\ inflight'[p] = IF r2.res = "ok" THEN j ELSE NoJob
        BY <3>1 DEF DoFailover, WorkerTypeOK
    <3>3. r.res # "ok"
        BY <3>1 DEF HttpConnFailedIo
    <3>6. /\ Fed(r.conn, inflight[p], All(p), j, paced)
          /\ HttpConnFailedIo(r.res) => Resting(r.conn)
        BY <1>1, <1>2, <2>0, <3>3, FedReject, SMTT(30)
    <3>4. Resting(r.conn)
        BY <3>1, <3>6
    <3>5. Fed(r2.conn, IF r2.res = "ok" THEN j ELSE NoJob, All(p), j, paced)
        BY <1>1, <1>2, <2>0, RestingSend, SMTT(30)
    <3> QED BY <1>2, <2>0, <3>2, <3>4, <3>5, AnsweredNext
  <2> QED BY <1>4, <2>1, <2>2 DEF SendTo
<1> QED BY <1>3, <1>4

\* An outcome offered to p's ring, if it is not dropped, is p's last.
LEMMA PushAll ==
    ASSUME WorkerTypeOK, ThreadsTypeOK, NEW p \in Provider, NEW o \in Outcome,
           UNCHANGED sink, PushResult(p, o)
    PROVE  (All(p))' \in {All(p), Append(All(p), o)}
<1>1. sink[p] \in Seq(Outcome) /\ results[p] \in Seq(Outcome)
    BY AnsweredTypes
<1>2. results'[p] \in {results[p], Append(results[p], o)}
    BY DEF PushResult, Offer, WorkerTypeOK
<1>3. sink[p] \o Append(results[p], o) = Append(sink[p] \o results[p], o)
    BY <1>1, AllOutcomes
<1> QED BY <1>2, <1>3 DEF All

\* drive and reap.
LEMMA DriveReapAnswered ==
    ASSUME WorkerTypeOK, ThreadsTypeOK, NEW p \in Provider,
           DriveReap(p), UNCHANGED <<resp, sink>>,
           NEW bound \in Nat, NEW paced \in BOOLEAN, Answered(p, bound, paced)
    PROVE  (Answered(p, bound, paced))'
<1>1. active[p] \in Conn /\ standby[p] \in Conn /\ inflight[p] \in Nat /\ All(p) \in Seq(Outcome)
    BY AnsweredTypes
<1>2. inflight[p] \in {NoJob} \cup Job
    BY DEF WorkerTypeOK
<1>3. Reported(All(p)) /\ (paced => Matched(All(p)))
    BY DEF Answered
<1>4. CASE p \in QuicProviders
  <2>1. PICK c \in Conn : c.inflight = active[p].inflight
                          /\ \/ UNCHANGED results
                             \/ /\ c.inflight # NoJob
                                /\ PushResult(p, [job |-> c.inflight, body |-> NoJob])
    <3>1. QuicDrive(active[p]) \in Conn /\ QuicDrive(active[p]).inflight = active[p].inflight
        BY <1>1, QuicDriveType DEF QuicDrive, Conn
    <3> QED BY <1>4, <3>1 DEF DriveReap, QuicReap
  <2>2. CASE UNCHANGED results
    <3>1. (All(p))' = All(p)
        BY <2>2 DEF All
    <3> QED BY <1>4, <3>1, SameAnswered
  <2>3. CASE c.inflight # NoJob /\ PushResult(p, [job |-> c.inflight, body |-> NoJob])
    <3>0. PICK k \in Job : k = c.inflight
        BY <2>3 DEF Conn
    <3>1. PICK o \in Outcome : /\ o = [job |-> c.inflight, body |-> NoJob]
                               /\ o.body = NoJob /\ o.body <= o.job
      <4>1. PICK o : o = [job |-> k, body |-> NoJob]
          OBVIOUS
      <4>2. o \in Outcome /\ o.job = k /\ o.body = NoJob
          BY <4>1 DEF Outcome
      <4>3. NoJob <= k
          BY DEF NoJob, Job
      <4> QED BY <3>0, <4>1, <4>2, <4>3
    <3>2. (All(p))' \in {All(p), Append(All(p), o)}
        BY <2>3, <3>1, PushAll
    <3>3. Reported(Append(All(p), o)) /\ (paced => Matched(Append(All(p), o)))
        BY <1>1, <1>3, <3>1, ReportAppend
    <3>4. PICK all : all = (All(p))'
        OBVIOUS
    <3>5. Reported(all) /\ (paced => Matched(all))
        BY <1>3, <3>2, <3>3, <3>4
    <3> QED BY <1>4, <3>4, <3>5, AnsweredNext
  <2> QED BY <2>1, <2>2, <2>3
<1>5. CASE p \notin QuicProviders
  <2>1. /\ Fed(active[p], inflight[p], All(p), bound, paced)
        /\ Resting(standby[p])
        /\ \A k \in 1 .. Len(resp[p]) : Unused(resp[p][k])
    BY <1>5 DEF Answered
  <2>2. PICK r \in PollResponse(active[p]) :
          \/ /\ r.res = "ok"
             /\ active' = [active EXCEPT ![p] = r.conn]
             /\ IF r.body # NoJob /\ inflight[p] # NoJob
                THEN /\ inflight' = [inflight EXCEPT ![p] = NoJob]
                     /\ PushResult(p, [job |-> inflight[p], body |-> r.body])
                ELSE UNCHANGED <<inflight, results>>
             /\ UNCHANGED standby
          \/ /\ HttpConnFailedIo(r.res)
             /\ DoFailover(p, r.conn, standby[p], NoJob)
             /\ UNCHANGED results
          \/ /\ r.res # "ok"
             /\ active' = [active EXCEPT ![p] = r.conn]
             /\ UNCHANGED <<standby, inflight, results>>
    BY <1>5 DEF DriveReap, HttpReap
  <2>3. /\ r.res # "ok" => Fed(r.conn, inflight[p], All(p), bound, paced)
        /\ HttpConnFailedIo(r.res) => Resting(r.conn)
        /\ r.res = "ok" /\ (r.body = NoJob \/ inflight[p] = NoJob)
              => Fed(r.conn, inflight[p], All(p), bound, paced)
        /\ r.res = "ok" /\ r.body # NoJob /\ inflight[p] # NoJob =>
              /\ r.body \in Job /\ r.body <= inflight[p] /\ (paced => r.body = inflight[p])
              /\ \A i \in 1 .. Len(All(p)) : All(p)[i].body < r.body
              /\ Fed(r.conn, NoJob, All(p), bound, paced)
              /\ Fed(r.conn, NoJob, Append(All(p), [job |-> inflight[p], body |-> r.body]),
                     bound, paced)
    BY <1>1, <1>5, <2>1, PollFed
  <2>4. ASSUME UNCHANGED results, active'[p] = r.conn, UNCHANGED <<standby, inflight>>,
               ~(r.res = "ok" /\ r.body # NoJob /\ inflight[p] # NoJob)
        PROVE  (Answered(p, bound, paced))'
    <3>1. (All(p))' = All(p)
        BY <2>4 DEF All
    <3>2. Fed(active'[p], inflight'[p], All(p), bound, paced)
        BY <2>3, <2>4
    <3> QED BY <1>3, <2>1, <2>4, <3>1, <3>2, AnsweredNext
  <2>5. CASE HttpConnFailedIo(r.res) /\ DoFailover(p, r.conn, standby[p], NoJob) /\ UNCHANGED results
    <3>1. active'[p] = standby[p] /\ standby'[p] = r.conn /\ inflight'[p] = NoJob
        BY <2>5 DEF DoFailover, WorkerTypeOK
    <3>2. (All(p))' = All(p)
        BY <2>5 DEF All
    <3>3. Fed(standby[p], NoJob, All(p), bound, paced) /\ Resting(r.conn)
        BY <1>1, <2>1, <2>3, <2>5, RestingFed
    <3> QED BY <1>3, <2>1, <3>1, <3>2, <3>3, AnsweredNext
  <2>6. CASE /\ r.res = "ok" /\ r.body # NoJob /\ inflight[p] # NoJob
             /\ active' = [active EXCEPT ![p] = r.conn] /\ UNCHANGED standby
             /\ inflight' = [inflight EXCEPT ![p] = NoJob]
             /\ PushResult(p, [job |-> inflight[p], body |-> r.body])
    <3>1. active'[p] = r.conn /\ inflight'[p] = NoJob
        BY <2>6 DEF WorkerTypeOK
    <3>2. PICK o \in Outcome : /\ o = [job |-> inflight[p], body |-> r.body]
                               /\ o.body = r.body /\ o.job = inflight[p]
        BY <1>2, <2>3, <2>6 DEF Outcome
    <3>3. (All(p))' \in {All(p), Append(All(p), o)}
        BY <2>6, <3>2, PushAll
    <3>4. Reported(Append(All(p), o)) /\ (paced => Matched(Append(All(p), o)))
        BY <1>1, <1>3, <2>3, <2>6, <3>2, ReportAppend
    <3>5. PICK all : all = (All(p))'
        OBVIOUS
    <3>6. Reported(all) /\ (paced => Matched(all)) /\ Fed(r.conn, NoJob, all, bound, paced)
        BY <1>3, <2>3, <2>6, <3>2, <3>3, <3>4, <3>5
    <3> QED BY <2>1, <2>6, <3>1, <3>5, <3>6, AnsweredNext
  <2>7. CASE /\ active' = [active EXCEPT ![p] = r.conn]
             /\ UNCHANGED <<standby, inflight, results>>
             /\ ~(r.res = "ok" /\ r.body # NoJob /\ inflight[p] # NoJob)
    <3>1. active'[p] = r.conn
        BY <2>7 DEF WorkerTypeOK
    <3> QED BY <2>4, <2>7, <3>1
  <2> QED BY <2>2, <2>5, <2>6, <2>7
<1> QED BY <1>4, <1>5

\* check_standby_deliveries installs connections nothing was sent on.
LEMMA CheckStandbyAnswered ==
    ASSUME WorkerTypeOK, ThreadsTypeOK, NEW P \in SUBSET Provider, CheckStandby(P),
           UNCHANGED <<active, inflight, results, sink>>,
           NEW p \in Provider, NEW bound, NEW paced, Answered(p, bound, paced)
    PROVE  (Answered(p, bound, paced))'
<1>1. (All(p))' = All(p) /\ Reported(All(p)) /\ (paced => Matched(All(p)))
    BY DEF All, Answered
<1>2. CASE p \in QuicProviders
    BY <1>1, <1>2, AnsweredNext
<1>3. CASE p \notin QuicProviders
  <2>1. /\ Fed(active[p], inflight[p], All(p), bound, paced)
        /\ Resting(standby[p])
        /\ \A k \in 1 .. Len(resp[p]) : Unused(resp[p][k])
    BY <1>3 DEF Answered
  <2>2. CASE p \notin P \/ resp[p] = <<>>
    <3>1. standby'[p] = standby[p] /\ resp'[p] = resp[p]
        BY <2>2 DEF CheckStandby
    <3> QED BY <1>1, <2>1, <3>1, AnsweredNext
  <2>3. CASE p \in P /\ resp[p] # <<>>
    <3>1. resp[p] \in Seq(Conn) /\ standby'[p] = Head(resp[p]) /\ resp'[p] = Tail(resp[p])
        BY <2>3 DEF CheckStandby, WorkerTypeOK
    <3>2. /\ standby'[p] = resp[p][1] /\ 1 \in 1 .. Len(resp[p])
          /\ Len(resp'[p]) = Len(resp[p]) - 1
          /\ \A k \in 1 .. Len(resp'[p]) : resp'[p][k] = resp[p][k + 1]
        BY <2>3, <3>1, HeadTailProperties
    <3>3. \A k \in 1 .. Len(resp'[p]) : k + 1 \in 1 .. Len(resp[p])
        BY <3>1, <3>2
    <3>4. Unused(standby'[p]) /\ \A k \in 1 .. Len(resp'[p]) : Unused(resp'[p][k])
        BY <2>1, <3>2, <3>3
    <3>5. Resting(standby'[p])
        BY <3>4, EmptyIncomplete DEF Resting, Unused
    <3> QED BY <1>1, <2>1, <3>4, <3>5, AnsweredNext
  <2> QED BY <2>2, <2>3
<1> QED BY <1>2, <1>3

\* The peer goes away: of what it wrote k fragments arrive.
LEMMA BrokenFields ==
    ASSUME NEW c \in Conn, NEW s \in {"fin", "rst", "tmo"}, NEW k \in 0 .. Len(c.inbox),
           NEW d, d = Broken(c, s, k)
    PROVE  /\ d \in Conn /\ d.sock # "up" /\ d.reqs = <<>> /\ d.rx = c.rx
           /\ d.inbox = SubSeq(c.inbox, 1, k)
           /\ PartOf(Stream(d), Stream(c), 0)
           /\ k = 0 => Silent(d)
<1>1. d \in Conn
    BY BrokenType
<1>2. d.sock = s /\ d.reqs = <<>> /\ d.rx = c.rx /\ d.inbox = SubSeq(c.inbox, 1, k)
    BY DEF Broken, Conn
<1>3. PICK a \in Seq(Frag), b \in Seq(Frag), x \in Seq(Frag) :
          a = c.rx /\ b = c.inbox /\ x = d.inbox
    BY <1>1 DEF Conn
<1>4. k \in Nat /\ k <= Len(b) /\ Len(a) \in Nat /\ Len(b) \in Nat
    BY <1>3
<1>5. Len(x) = k /\ \A i \in 1 .. k : x[i] = b[i]
    BY <1>2, <1>3, <1>4, SubSeqProperties
<1>6. PICK t, u : t = a \o x /\ u = a \o b
    OBVIOUS
<1>7. /\ Len(t) = Len(a) + k /\ Len(u) = Len(a) + Len(b)
      /\ \A i \in 1 .. Len(a) : t[i] = a[i] /\ u[i] = a[i]
      /\ \A i \in 1 .. k : t[Len(a) + i] = x[i]
      /\ \A i \in 1 .. Len(b) : u[Len(a) + i] = b[i]
      /\ \A i \in 1 .. Len(t) : i \in 1 .. Len(a) \/ \E h \in 1 .. k : i = Len(a) + h
  <2>1. /\ Len(t) = Len(a) + Len(x)
        /\ \A i \in 1 .. Len(a) : t[i] = a[i]
        /\ \A i \in 1 .. Len(x) : t[Len(a) + i] = x[i]
        /\ \A i \in 1 .. Len(t) :
              i \in 1 .. Len(a) \/ \E h \in 1 .. Len(x) : i = Len(a) + h
    BY <1>6, Joined
  <2>2. /\ Len(u) = Len(a) + Len(b)
        /\ \A i \in 1 .. Len(a) : u[i] = a[i]
        /\ \A i \in 1 .. Len(b) : u[Len(a) + i] = b[i]
    BY <1>6, Joined
  <2> QED BY <1>5, <2>1, <2>2
<1>8. ASSUME NEW i \in 1 .. Len(t) PROVE t[i] = u[0 + i]
  <2>1. 0 + i = i
    BY <1>4, <1>7
  <2>2. ASSUME NEW h \in 1 .. k, i = Len(a) + h PROVE t[i] = u[i]
    <3>1. h \in 1 .. Len(b)
        BY <1>4
    <3> QED BY <1>5, <1>7, <2>2, <3>1
  <2>3. CASE i \in 1 .. Len(a)
    BY <1>7, <2>3
  <2>4. t[i] = u[i]
    BY <1>7, <2>2, <2>3
  <2> QED BY <2>1, <2>4
<1>9. PartOf(t, u, 0)
    BY <1>4, <1>7, <1>8 DEF PartOf
<1>10. k = 0 => d.inbox = <<>>
    BY <1>3, <1>5
<1> QED BY <1>1, <1>2, <1>3, <1>6, <1>9, <1>10 DEF Stream, Silent

\* A connection that breaks with nothing delivered is silent from then on.
LEMMA BrokenSilent ==
    ASSUME NEW c \in Conn, NEW s \in {"fin", "rst", "tmo"}
    PROVE  Broken(c, s, 0).rx = c.rx /\ Silent(Broken(c, s, 0))
<1>1. PICK d : d = Broken(c, s, 0)
    OBVIOUS
<1>2. 0 \in 0 .. Len(c.inbox)
    BY DEF Conn
<1>3. PICK k \in 0 .. Len(c.inbox) : k = 0
    BY <1>2
<1>4. d = Broken(c, s, k)
    BY <1>1, <1>3
<1>5. d.rx = c.rx /\ (k = 0 => Silent(d))
    BY <1>4, BrokenFields
<1> QED BY <1>1, <1>3, <1>5

\* A connection of q breaks.
LEMMA BreakAnswered ==
    ASSUME WorkerTypeOK, ThreadsTypeOK, NEW q \in Provider, Break(q), NEW p \in Provider,
           NEW bound, NEW paced, Answered(p, bound, paced)
    PROVE  (Answered(p, bound, paced))'
<1>1. (All(p))' = All(p) /\ Reported(All(p)) /\ (paced => Matched(All(p))) /\ inflight' = inflight
    BY DEF Break, laneVars, All, Answered
<1>2. CASE p \in QuicProviders
    BY <1>1, <1>2, AnsweredNext
<1>3. CASE p \notin QuicProviders
  <2>1. /\ Fed(active[p], inflight[p], All(p), bound, paced)
        /\ Resting(standby[p])
        /\ \A k \in 1 .. Len(resp[p]) : Unused(resp[p][k])
    BY <1>3 DEF Answered
  <2>2. /\ active[p] \in Conn /\ standby[p] \in Conn /\ resp[p] \in Seq(Conn)
        /\ inflight[p] \in Nat
    BY AnsweredTypes
  <2>3. PICK s \in {"fin", "rst", "tmo"} :
          \/ /\ active[q].sock = "up"
             /\ \E k \in 0 .. Len(active[q].inbox) :
                    active' = [active EXCEPT ![q] = Broken(active[q], s, k)]
             /\ UNCHANGED <<standby, resp>>
          \/ /\ standby[q].sock = "up"
             /\ standby' = [standby EXCEPT ![q] = Broken(standby[q], s, 0)]
             /\ UNCHANGED <<active, resp>>
          \/ /\ resp[q] # <<>>
             /\ resp' = [resp EXCEPT ![q] = <<Broken(resp[q][1], s, 0)>>]
             /\ UNCHANGED <<active, standby>>
    BY BreakCases
  <2>4. CASE p # q
    <3>1. active'[p] = active[p] /\ standby'[p] = standby[p] /\ resp'[p] = resp[p]
        BY <2>3, <2>4 DEF WorkerTypeOK
    <3> QED BY <1>1, <2>1, <3>1, AnsweredNext
  <2>5. CASE /\ p = q /\ active[q].sock = "up"
             /\ \E k \in 0 .. Len(active[q].inbox) :
                    active' = [active EXCEPT ![q] = Broken(active[q], s, k)]
             /\ UNCHANGED <<standby, resp>>
    <3>1. PICK k \in 0 .. Len(active[p].inbox) : active'[p] = Broken(active[p], s, k)
        BY <2>5 DEF WorkerTypeOK
    <3>2. PICK d : d = Broken(active[p], s, k)
        OBVIOUS
    <3>3. /\ d \in Conn /\ d.sock # "up" /\ d.reqs = <<>> /\ d.rx = active[p].rx
          /\ PartOf(Stream(d), Stream(active[p]), 0)
        BY <2>2, <3>2, BrokenFields
    <3>4. ~Silent(active[p]) /\ ~Spent(active[p]) /\ ~IsComplete(d.rx)
        BY <2>1, <2>5, <3>3, FedCases DEF Silent, Spent
    <3>5. Fed(d, inflight[p], All(p), bound, paced)
        BY <2>1, <2>2, <3>3, <3>4, FedPart
    <3> QED BY <1>1, <2>1, <2>5, <3>1, <3>2, <3>5, AnsweredNext
  <2>6. CASE /\ p = q /\ standby[q].sock = "up"
             /\ standby' = [standby EXCEPT ![q] = Broken(standby[q], s, 0)]
             /\ UNCHANGED <<active, resp>>
    <3>1. PICK d : d = Broken(standby[p], s, 0) /\ standby'[p] = d
        BY <2>6 DEF WorkerTypeOK
    <3>2. d.rx = standby[p].rx /\ Silent(d)
        BY <2>2, <3>1, BrokenSilent
    <3>3. Resting(d)
        BY <2>1, <3>2 DEF Resting
    <3> QED BY <1>1, <2>1, <2>6, <3>1, <3>3, AnsweredNext
  <2>7. CASE /\ p = q /\ resp[q] # <<>>
             /\ resp' = [resp EXCEPT ![q] = <<Broken(resp[q][1], s, 0)>>]
             /\ UNCHANGED <<active, standby>>
    <3>1. PICK c \in Conn : c = resp[p][1] /\ Unused(c)
        BY <2>1, <2>2, <2>7
    <3>2. PICK d : d = Broken(c, s, 0) /\ resp'[p] = <<d>>
        BY <2>7, <3>1 DEF WorkerTypeOK
    <3>3. d.rx = c.rx /\ Silent(d)
        BY <3>1, <3>2, BrokenSilent
    <3>4. Unused(d)
        BY <3>1, <3>3 DEF Unused, Silent
    <3>5. \A k \in 1 .. Len(resp'[p]) : Unused(resp'[p][k])
        BY <3>2, <3>4
    <3> QED BY <1>1, <2>1, <2>7, <3>5, AnsweredNext
  <2> QED BY <2>3, <2>4, <2>5, <2>6, <2>7
<1> QED BY <1>2, <1>3

\* Every step beside the workers'.
LEMMA OtherAnswered ==
    ASSUME WorkerTypeOK, ThreadsTypeOK, OtherStep, NEW p \in Provider,
           NEW bound \in Nat, NEW paced, Answered(p, bound, paced)
    PROVE  (Answered(p, bound, paced))'
<1>1. (All(p))' = All(p)
  <2>1. \/ sink'[p] = sink[p] /\ results'[p] = results[p]
        \/ /\ results[p] # <<>>
           /\ sink'[p] = Append(sink[p], Head(results[p]))
           /\ results'[p] = Tail(results[p])
    BY OtherSettles
  <2>2. sink[p] \in Seq(Outcome) /\ results[p] \in Seq(Outcome)
    BY AnsweredTypes
  <2>3. results[p] # <<>> =>
            Append(sink[p], Head(results[p])) \o Tail(results[p]) = sink[p] \o results[p]
    BY <2>2, AllOutcomes
  <2> QED BY <2>1, <2>3 DEF All
<1>2. Reported(All(p)) /\ (paced => Matched(All(p)))
    BY DEF Answered
<1>3. CASE p \in QuicProviders
    BY <1>1, <1>2, <1>3, AnsweredNext
<1>4. CASE p \notin QuicProviders
  <2>0. /\ Fed(active[p], inflight[p], All(p), bound, paced)
        /\ Resting(standby[p])
        /\ \A k \in 1 .. Len(resp[p]) : Unused(resp[p][k])
    BY <1>4 DEF Answered
  <2>1. active[p] \in Conn /\ resp[p] \in Seq(Conn)
    BY AnsweredTypes
  <2>2. CASE UNCHANGED <<active, standby, inflight, resp>>
    BY <1>1, <2>2, SameAnswered
  <2>3. CASE ReconnectStep
    <3>1. UNCHANGED <<active, standby, inflight>>
        BY <2>3 DEF ReconnectStep
    <3>2. CASE UNCHANGED resp
        BY <2>2, <3>1, <3>2
    <3>3. CASE resp' = [resp EXCEPT ![rreq] = Offer(resp[rreq], 1, FreshConn)]
      <4>1. resp'[p] \in {resp[p], Append(resp[p], FreshConn)}
          BY <3>3 DEF Offer, WorkerTypeOK
      <4>2. CASE resp'[p] = resp[p]
          BY <1>1, <1>2, <2>0, <3>1, <4>2, AnsweredNext
      <4>3. CASE resp'[p] = Append(resp[p], FreshConn)
        <5>1. /\ Len(resp'[p]) = Len(resp[p]) + 1 /\ resp'[p][Len(resp[p]) + 1] = FreshConn
              /\ \A k \in 1 .. Len(resp[p]) : resp'[p][k] = resp[p][k]
            BY <2>1, <4>3, FreshConnType, AppendProperties
        <5>2. \A k \in 1 .. Len(resp'[p]) : k \in 1 .. Len(resp[p]) \/ k = Len(resp[p]) + 1
            BY <2>1, <5>1
        <5>3. Unused(FreshConn)
            BY DEF Unused, FreshConn
        <5>4. \A k \in 1 .. Len(resp'[p]) : Unused(resp'[p][k])
            BY <2>0, <5>1, <5>2, <5>3
        <5> QED BY <1>1, <1>2, <2>0, <3>1, <5>4, AnsweredNext
      <4> QED BY <4>1, <4>2, <4>3
    <3> QED
        BY <2>3, <3>2, <3>3
        DEF ReconnectStep, ReconnectRecv, ReconnectTimeout, ReconnectBuildOk, ReconnectBuildErr
  <2>4. CASE LaneStep \/ UNCHANGED workerVars
    BY <2>2, <2>4 DEF LaneStep, workerVars
  <2>5. ASSUME NEW q \in Provider, NetDown(q) \/ NetRestore(q)
        PROVE  (Answered(p, bound, paced))'
    BY <2>4, <2>5 DEF NetDown, NetRestore
  <2>6. ASSUME NEW q \in Provider, Break(q) PROVE (Answered(p, bound, paced))'
    BY <2>6, BreakAnswered
  <2>7. ASSUME NEW q \in Provider, QuicTime(q) PROVE (Answered(p, bound, paced))'
    <3>1. active'[p] = active[p] /\ UNCHANGED <<standby, inflight, resp>>
        BY <1>4, <2>7 DEF QuicTime, WorkerTypeOK
    <3> QED BY <1>1, <1>2, <2>0, <3>1, AnsweredNext
  <2>8. ASSUME NEW q \in Provider, Respond(q) PROVE (Answered(p, bound, paced))'
    <3>1. UNCHANGED <<standby, inflight, resp>>
        BY <2>8 DEF Respond
    <3>2. CASE p # q
      <4>1. active'[p] = active[p]
          BY <2>8, <3>2 DEF Respond, WorkerTypeOK
      <4> QED BY <1>1, <1>2, <2>0, <3>1, <4>1, AnsweredNext
    <3>3. CASE p = q
      <4>0. PICK c \in Conn : c = active[p]
          BY <2>1
      <4>1. PICK d : c = active[p] /\ d = active'[p]
          BY <4>0
      <4>2. c.sock = "up" /\ c.reqs # <<>>
          BY <2>8, <3>3, <4>1 DEF Respond
      <4>3. d \in Conn
          BY <2>8, <4>1, PeerType DEF WorkerTypeOK
      <4>4. /\ d.sock = c.sock /\ d.gap = c.gap /\ d.rx = c.rx /\ d.reqs = Tail(c.reqs)
            /\ d.inbox = c.inbox \o Response(Head(c.reqs))
          BY <2>8, <3>3, <4>1 DEF Respond, WorkerTypeOK, Conn
      <4>5. InUse(c) /\ FedBy(c, inflight[p], All(p), bound, paced) /\ ~IsComplete(d.rx)
          BY <2>0, <4>1, <4>2, <4>4, FedCases DEF Silent, Spent
      <4>6. /\ InUse(d) /\ Answering(d) \subseteq Answering(c)
            /\ Heading(c) \subseteq Heading(d)
          BY <4>2, <4>3, <4>4, <4>5, InUseRespond
      <4>9. Foremost(c, inflight[p]) => Foremost(d, inflight[p])
          BY <4>4, <4>6 DEF Foremost
      <4>7. FedBy(d, inflight[p], All(p), bound, paced)
          BY <4>5, <4>6, <4>9 DEF FedBy
      <4>8. Fed(d, inflight[p], All(p), bound, paced)
          BY <4>5, <4>6, <4>7, FedCases
      <4> QED BY <1>1, <1>2, <2>0, <3>1, <4>1, <4>8, AnsweredNext
    <3> QED BY <3>2, <3>3
  <2> QED
    BY <2>3, <2>4, <2>5, <2>6, <2>7, <2>8 DEF OtherStep
<1> QED BY <1>3, <1>4

=============================================================================
