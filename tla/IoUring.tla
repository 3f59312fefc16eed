------------------------------ MODULE IoUring -------------------------------
(***************************************************************************)
(* The io_uring backend (src/backend/io_uring.rs) of one connection: every *)
(* HttpConn owns a ring of its own, so there is one UringConn per ring.    *)
(* The worker drives it in rounds, as SequentialWorker::run does: any      *)
(* number of submits, then drive, then poll_recv.  The kernel runs beside  *)
(* it (external): it takes entries from the submission queue, performs     *)
(* them, and posts completions.  It performs the sends of one socket in    *)
(* the order it took them; io_uring itself does not promise that, the code *)
(* relies on it.                                                           *)
(*                                                                         *)
(* An entry is the number of the submit call that made it, or RecvOp.      *)
(***************************************************************************)
EXTENDS Naturals, Sequences

CONSTANTS
    Payload,        \* the byte strings submit is called with
    Configs,        \* the IoUring::new arguments considered: mode and sqpoll
    RingEntries,    \* capacity of the submission queue (RING_ENTRIES)
    Garbage,        \* what the kernel reads from a buffer that was freed
    MaxSubmits,     \* bound: submit calls
    MaxChunks,      \* bound: chunks the peer writes before it closes
    MaxErrors       \* bound: failures of io_uring_enter, of sends and of recvs

ASSUME IoUringAssumption ==
    /\ Configs \subseteq [mode : {"BatchSyscall", "SqeStream"}, sqpoll : BOOLEAN]
    /\ RingEntries \in Nat \ {0}
    /\ MaxSubmits \in Nat /\ MaxChunks \in Nat /\ MaxErrors \in Nat

VARIABLES
    cfg,              \* IoUring.mode and IoUring.sqpoll
    pc,               \* where the round is: see the actions
    nextId,           \* number of the next submit call
    pending,          \* IoUring.pending (mode BatchSyscall)
    completedSends,   \* completed_sends of the connection
    completedRecv,    \* completed_recvs of the connection: at most one
    sendInFlight,     \* UringConn.send_in_flight
    recvInFlight,     \* UringConn.recv_in_flight
    rxBuf,            \* UringConn.rx_buf: the chunk it holds
    got,              \* the chunks poll_recv has returned
    sq,               \* submission queue
    kern,             \* requests the kernel has taken and not completed
    cqSends,          \* completion queue: sends
    cqRecvs,          \* completion queue: results of recvs
    awake,            \* the sqpoll thread is polling
    chunks,           \* chunks the kernel has received
    wire,             \* what has left for the peer: sends, whole or cut short
    errors            \* failures so far

ringVars   == <<sq, kern, awake>>
cqVars     == <<cqSends, cqRecvs>>
doneVars   == <<completedSends, completedRecv>>
connVars   == <<sendInFlight, recvInFlight, rxBuf>>
peerVars   == <<chunks, wire>>
callerVars == <<pc, nextId, pending, got>>
uringVars  == <<cfg, callerVars, doneVars, connVars, ringVars, cqVars, peerVars, errors>>

RecvOp == 0
Result == {"data", "eof", "err"}
Buffer == [id : Nat \ {0}, bytes : Payload]
Packet == [id : Nat \ {0}, bytes : Payload \cup {Garbage}, whole : BOOLEAN]

UringTypeOK ==
    /\ cfg \in Configs
    /\ pc \in {"idle", "push", "drive", "poll", "pollDrive", "collect"}
    /\ nextId \in 1 .. MaxSubmits + 1
    /\ pending \in Seq(Nat \ {0})
    /\ completedSends \in Nat
    /\ completedRecv \in Seq(Result) /\ Len(completedRecv) <= 1
    /\ sendInFlight \in Seq(Buffer)
    /\ recvInFlight \in BOOLEAN
    /\ rxBuf \in Nat
    /\ got \in Seq(Nat)
    /\ sq \in Seq(Nat) /\ Len(sq) <= RingEntries
    /\ kern \in Seq(Nat)
    /\ cqSends \in Nat /\ cqRecvs \in Seq(Result)
    /\ awake \in BOOLEAN
    /\ chunks \in Nat
    /\ wire \in Seq(Packet)
    /\ errors \in 0 .. MaxErrors

\* IoUring::new and connect.
UringInit ==
    /\ cfg \in Configs
    /\ pc = "idle" /\ nextId = 1 /\ pending = <<>> /\ got = <<>>
    /\ completedSends = 0 /\ completedRecv = <<>>
    /\ sendInFlight = <<>> /\ recvInFlight = FALSE /\ rxBuf = 0
    /\ sq = <<>> /\ kern = <<>> /\ awake = TRUE
    /\ cqSends = 0 /\ cqRecvs = <<>>
    /\ chunks = 0 /\ wire = <<>> /\ errors = 0

-----------------------------------------------------------------------------
(* The calls the operations are made of.                                   *)

\* flush_submit with q in the submission queue succeeds: io_uring_enter hands
\* q to the kernel; with sqpoll there is no call at all.
FlushOk(q) ==
    /\ IF cfg.sqpoll THEN sq' = q /\ kern' = kern
                     ELSE sq' = <<>> /\ kern' = kern \o q
    /\ UNCHANGED <<awake, errors>>

\* io_uring_enter fails.
FlushErr(q) ==
    /\ ~cfg.sqpoll /\ errors < MaxErrors
    /\ errors' = errors + 1
    /\ sq' = q
    /\ UNCHANGED <<kern, awake>>

\* reap: a later recv result replaces an earlier one.
Reap ==
    /\ completedSends' = completedSends + cqSends
    /\ completedRecv' = IF cqRecvs = <<>> THEN completedRecv ELSE <<cqRecvs[Len(cqRecvs)]>>
    /\ cqSends' = 0
    /\ cqRecvs' = <<>>

\* The loop of push_sqe and of drain_pending while the queue is full:
\* flush_submit, then reap, then try again.
Retry ==
    /\ Len(sq) = RingEntries
    /\ FlushOk(sq)
    /\ Reap
    /\ UNCHANGED <<cfg, callerVars, connVars, peerVars>>

\* The same loop where flush_submit fails: the call returns its error.
RetryErr ==
    /\ Len(sq) = RingEntries
    /\ FlushErr(sq)
    /\ UNCHANGED <<cfg, nextId, got, doneVars, connVars, cqVars, peerVars>>

-----------------------------------------------------------------------------
(* submit *)

\* The bytes are copied to a buffer of their own.  Mode BatchSyscall only
\* queues the entry, mode SqeStream goes on to push_sqe.
Submit(bytes) ==
    /\ pc = "idle" /\ nextId <= MaxSubmits
    /\ sendInFlight' = Append(sendInFlight, [id |-> nextId, bytes |-> bytes])
    /\ nextId' = nextId + 1
    /\ IF cfg.mode = "SqeStream"
       THEN pc' = "push" /\ UNCHANGED pending
       ELSE pending' = Append(pending, nextId) /\ UNCHANGED pc
    /\ UNCHANGED <<cfg, got, doneVars, recvInFlight, rxBuf, ringVars, cqVars, peerVars, errors>>

\* push_sqe finds room for the entry; flush_submit's error is submit's.
PushSend ==
    /\ pc = "push" /\ Len(sq) < RingEntries
    /\ FlushOk(Append(sq, nextId - 1)) \/ FlushErr(Append(sq, nextId - 1))
    /\ pc' = "idle"
    /\ UNCHANGED <<cfg, nextId, pending, got, doneVars, connVars, cqVars, peerVars>>

\* submit returns the error of push_sqe: the buffer stays, the entry is gone.
PushErr ==
    /\ pc = "push" /\ pc' = "idle"
    /\ RetryErr
    /\ UNCHANGED pending

-----------------------------------------------------------------------------
(* A round: drive, then poll_recv. *)

StartRound ==
    /\ pc = "idle" /\ pc' = "drive"
    /\ UNCHANGED <<cfg, nextId, pending, got, doneVars, connVars, ringVars, cqVars, peerVars, errors>>

\* Mutant: recv_in_flight is not remembered.
ArmRecv_Forget ==
    /\ pc = "poll" /\ pc' = "pollDrive"
    /\ Len(sq) < RingEntries
    /\ sq' = Append(sq, RecvOp)
    /\ recvInFlight' = FALSE
    /\ UNCHANGED <<cfg, nextId, pending, got, doneVars, sendInFlight, rxBuf>>
    /\ UNCHANGED <<kern, awake, cqVars, peerVars, errors>>

\* The head of poll_recv: a recv on rx_buf unless one is in flight.
ArmRecv ==
    /\ pc = "poll" /\ pc' = "pollDrive"
    /\ IF recvInFlight
       THEN UNCHANGED <<sq, recvInFlight>>
       ELSE Len(sq) < RingEntries /\ sq' = Append(sq, RecvOp) /\ recvInFlight' = TRUE
    /\ UNCHANGED <<cfg, nextId, pending, got, doneVars, sendInFlight, rxBuf>>
    /\ UNCHANGED <<kern, awake, cqVars, peerVars, errors>>

\* poll_recv returns the error of push_sqe.
ArmErr ==
    /\ pc = "poll" /\ pc' = "idle"
    /\ ~recvInFlight
    /\ RetryErr
    /\ UNCHANGED pending

Driving == pc \in {"drive", "pollDrive"}

\* What follows drive_inner: drive ignores its error, poll_recv returns it.
AfterDrive == IF pc = "drive" THEN "poll" ELSE "collect"
AfterError == IF pc = "drive" THEN "poll" ELSE "idle"

ToDrain == cfg.mode = "BatchSyscall" /\ pending # <<>>

\* Mutant: the entry is written without a look at the room in the queue.
Drain_NoCheck ==
    /\ Driving /\ ToDrain
    /\ sq' = Append(sq, Head(pending))
    /\ pending' = Tail(pending)
    /\ UNCHANGED <<cfg, pc, nextId, got, doneVars, connVars, kern, awake, cqVars, peerVars, errors>>

\* drain_pending moves one entry to the submission queue.
Drain ==
    /\ Driving /\ ToDrain /\ Len(sq) < RingEntries
    /\ sq' = Append(sq, Head(pending))
    /\ pending' = Tail(pending)
    /\ UNCHANGED <<cfg, pc, nextId, got, doneVars, connVars, kern, awake, cqVars, peerVars, errors>>

\* drain_pending fails: the entry it had popped is lost.
DrainErr ==
    /\ Driving /\ ToDrain
    /\ RetryErr
    /\ pending' = Tail(pending)
    /\ pc' = AfterError

\* The queue is full in push_sqe or in drain_pending.
SpinFull ==
    /\ \/ pc = "push"
       \/ pc = "poll" /\ ~recvInFlight
       \/ Driving /\ ToDrain
    /\ Retry

\* Mutant: only what push_sqe has left is flushed, not what was drained.
DriveInner_NoFlush ==
    /\ Driving /\ ~ToDrain
    /\ Reap /\ pc' = AfterDrive
    /\ UNCHANGED <<cfg, nextId, pending, got, connVars, ringVars, peerVars, errors>>

\* The end of drive_inner: flush_submit, then reap.
DriveInner ==
    /\ Driving /\ ~ToDrain
    /\ \/ FlushOk(sq) /\ Reap /\ pc' = AfterDrive
       \/ FlushErr(sq) /\ pc' = AfterError /\ UNCHANGED <<doneVars, cqVars>>
    /\ UNCHANGED <<cfg, nextId, pending, got, connVars, peerVars>>

\* Mutant: one buffer more is freed than sends have completed.
Collect_FreeMore ==
    /\ pc = "collect" /\ pc' = "idle"
    /\ sendInFlight' = SubSeq(sendInFlight, completedSends + 2, Len(sendInFlight))
    /\ completedSends' = 0
    /\ recvInFlight' = (recvInFlight /\ completedRecv = <<>>)
    /\ got' = IF completedRecv = <<"data">> THEN Append(got, rxBuf) ELSE got
    /\ completedRecv' = <<>>
    /\ UNCHANGED <<cfg, nextId, pending, rxBuf, ringVars, cqVars, peerVars, errors>>

\* The end of poll_recv: reclaim_sends frees the oldest buffers, one for
\* each completed send; a completed recv is copied out of rx_buf.
Collect ==
    /\ pc = "collect" /\ pc' = "idle"
    /\ sendInFlight' = SubSeq(sendInFlight, completedSends + 1, Len(sendInFlight))
    /\ completedSends' = 0
    /\ recvInFlight' = (recvInFlight /\ completedRecv = <<>>)
    /\ got' = IF completedRecv = <<"data">> THEN Append(got, rxBuf) ELSE got
    /\ completedRecv' = <<>>
    /\ UNCHANGED <<cfg, nextId, pending, rxBuf, ringVars, cqVars, peerVars, errors>>

Round ==
    \/ PushSend \/ PushErr
    \/ StartRound
    \/ ArmRecv \/ ArmErr
    \/ Drain \/ DrainErr \/ SpinFull \/ DriveInner
    \/ Collect

-----------------------------------------------------------------------------
(* The kernel (external). *)

Without(s, k) == SubSeq(s, 1, k - 1) \o SubSeq(s, k + 1, Len(s))

\* The buffer of submit call i as the kernel finds it.
Content(i) ==
    IF \E k \in DOMAIN sendInFlight : sendInFlight[k].id = i
    THEN sendInFlight[CHOOSE k \in DOMAIN sendInFlight : sendInFlight[k].id = i].bytes
    ELSE Garbage

\* What submit call i puts on the wire, all of it or the first part.
Bytes(i, whole) == [id |-> i, bytes |-> Content(i), whole |-> whole]

\* The oldest send completes: in full, cut short after a part of its bytes,
\* or with an error.  All three post a completion, which reap counts
\* without a look at its result.
KernelSend ==
    \E k \in DOMAIN kern :
        /\ kern[k] # RecvOp
        /\ \A i \in 1 .. k - 1 : kern[i] = RecvOp
        /\ kern' = Without(kern, k)
        /\ cqSends' = cqSends + 1
        /\ \/ /\ wire' = Append(wire, Bytes(kern[k], TRUE))
              /\ UNCHANGED errors
           \/ /\ errors < MaxErrors /\ errors' = errors + 1
              /\ wire' \in {wire, Append(wire, Bytes(kern[k], FALSE))}
        /\ UNCHANGED <<cfg, callerVars, doneVars, connVars, sq, awake, cqRecvs, chunks>>

\* A recv completes: the next chunk is in rx_buf, or the peer has closed, or
\* an error is reported.
KernelRecv ==
    \E k \in DOMAIN kern :
        /\ kern[k] = RecvOp
        /\ kern' = Without(kern, k)
        /\ \/ /\ chunks < MaxChunks
              /\ chunks' = chunks + 1 /\ rxBuf' = chunks'
              /\ cqRecvs' = Append(cqRecvs, "data")
              /\ UNCHANGED errors
           \/ /\ chunks = MaxChunks
              /\ cqRecvs' = Append(cqRecvs, "eof")
              /\ UNCHANGED <<chunks, rxBuf, errors>>
           \/ /\ errors < MaxErrors /\ errors' = errors + 1
              /\ cqRecvs' = Append(cqRecvs, "err")
              /\ UNCHANGED <<chunks, rxBuf>>
        /\ UNCHANGED <<cfg, callerVars, doneVars, sendInFlight, recvInFlight, sq, awake, cqSends, wire>>

\* The sqpoll thread takes what is in the submission queue.
KernelPoll ==
    /\ cfg.sqpoll /\ awake /\ sq # <<>>
    /\ kern' = kern \o sq
    /\ sq' = <<>>
    /\ UNCHANGED <<cfg, callerVars, doneVars, connVars, awake, cqVars, peerVars, errors>>

\* It finds nothing for idle_ms and sleeps until an io_uring_enter that asks
\* for it wakes it, a call the code does not make.
KernelSleep ==
    /\ cfg.sqpoll /\ awake /\ sq = <<>>
    /\ awake' = FALSE
    /\ UNCHANGED <<cfg, callerVars, doneVars, connVars, sq, kern, cqVars, peerVars, errors>>

Kernel == KernelSend \/ KernelRecv \/ KernelPoll \/ KernelSleep

-----------------------------------------------------------------------------
(* Safety *)

\* A buffer with id i is still in send_in_flight.
Held(i) == \E k \in 1 .. Len(sendInFlight) : sendInFlight[k].id = i

\* Entry i may still be read by the kernel.
Exposed(i) ==
    \/ \E k \in 1 .. Len(kern) : kern[k] = i
    \/ \E k \in 1 .. Len(sq) : sq[k] = i
    \/ \E k \in 1 .. Len(pending) : pending[k] = i
    \/ pc = "push" /\ i = nextId - 1

(* reclaim_sends never frees a buffer the kernel has still to read: every  *)
(* send that waits in pending, in the submission queue or in the kernel    *)
(* has its bytes in send_in_flight, also when entries were lost to a       *)
(* failed io_uring_enter.                                                  *)
BuffersAlive == \A i \in 1 .. nextId - 1 : Exposed(i) => Held(i)

(* poll_recv returns the peer's bytes in order, none twice and none lost:  *)
(* a recv never overwrites rx_buf before the caller has copied it.         *)
ReadsExact == \A k \in DOMAIN got : got[k] = k

-----------------------------------------------------------------------------
(* Liveness *)

\* Submit call i has been performed in full.
Left(i) == \E k \in DOMAIN wire : wire[k].id = i /\ wire[k].whole

(* What was submitted leaves for the peer in either mode, unless an        *)
(* io_uring call fails, and with sqpoll for as long as the poll thread has *)
(* not gone to sleep.                                                      *)
SendsLeave ==
    \A i \in 1 .. MaxSubmits : (nextId > i) ~> (errors > 0 \/ ~awake \/ Left(i))

-----------------------------------------------------------------------------
(* The ring alone, whatever is submitted to it.                            *)

UringNext == (\E bytes \in Payload : Submit(bytes)) \/ Round \/ Kernel

UringSpec == UringInit /\ [][UringNext]_uringVars

=============================================================================
