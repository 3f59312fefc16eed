----------------------------- MODULE UringConn ------------------------------
(***************************************************************************)
(* An HttpConn over io_uring (src/conn/mod.rs): send_tx splices a job into *)
(* the provider's envelope (module Envelope) and submits the request to    *)
(* the ring (module IoUring).  The envelope is compiled when the           *)
(* connection is made.  Of TLS the model has what decides whether the peer *)
(* can read a request: encode encrypts before submit is called, so the     *)
(* record of the k-th submit is the k-th record of the stream, whether or  *)
(* not its bytes ever leave.                                               *)
(***************************************************************************)
EXTENDS IoUring, Envelope

CONSTANTS
    Specs,     \* the EnvelopeSpecs considered
    TxLens     \* the transaction lengths considered

ASSUME UringConnAssumption ==
    /\ \A s \in Specs : s.bytes \in Seq(Nat) /\ s.maxLen \in Nat
    /\ \A s \in Specs : Len(s.bytes) + s.maxLen < 10 ^ 9   \* all lengths fit a u32
    /\ \A s \in Specs : Len(s.bytes) + s.maxLen < 10 ^ Len(ClSentinel)
    /\ \A s \in Specs : Compile(s).res = "ok" => WellPlaced(s)
    /\ TxLens \subseteq 0 .. MaxTxLen

VARIABLES
    spec,   \* the EnvelopeSpec of the provider
    tpl,    \* HttpEngine.envelope, or the error of compile
    jobs    \* the transactions that were submitted

vars == <<uringVars, spec, tpl, jobs>>

TypeOK ==
    /\ UringTypeOK
    /\ spec \in Specs
    /\ tpl.res \in {"ok", "BodyMaxTooSmall", "BodySentinelMissing"}
    /\ jobs \in Seq([id : Nat \ {0}, len : TxLens])
    /\ Len(jobs) = nextId - 1

\* connect_one: compile, then connect.
Init ==
    /\ UringInit
    /\ spec \in Specs
    /\ tpl = Compile(spec)
    /\ jobs = <<>>

\* HttpConn::send_tx: splice fills out, which is submitted; an envelope
\* error submits nothing.
SendTx(len) ==
    LET tx == [id |-> nextId, len |-> len]
        r  == Splice(tpl, tx)
    IN  /\ tpl.res = "ok" /\ pc = "idle"
        /\ tpl' = [tpl EXCEPT !.out = r.out]
        /\ IF r.res = "ok" THEN Submit(r.out) /\ jobs' = Append(jobs, tx)
                           ELSE UNCHANGED <<uringVars, jobs>>
        /\ UNCHANGED spec

\* HttpConn::drive and poll_response, and the kernel.
Step == (Round \/ Kernel) /\ tpl.res = "ok" /\ UNCHANGED <<spec, tpl, jobs>>

\* compile failed: there is no connection.
NoConn == tpl.res # "ok" /\ UNCHANGED vars

Next == (\E len \in TxLens : SendTx(len)) \/ Step \/ NoConn

Spec == Init /\ [][Next]_vars

(* The worker's loop goes round, and the kernel performs what it has       *)
(* taken; the sqpoll thread polls while it is awake.                       *)
Fairness ==
    /\ WF_vars(Round /\ UNCHANGED <<spec, tpl, jobs>>)
    /\ WF_vars(KernelSend /\ UNCHANGED <<spec, tpl, jobs>>)
    /\ WF_vars(KernelPoll /\ UNCHANGED <<spec, tpl, jobs>>)

FairSpec == Spec /\ Fairness

-----------------------------------------------------------------------------
(* Safety *)

\* The requests the peer can decrypt: those before the first record that
\* was lost or cut short.  What follows it fails authentication.
Readable ==
    {k \in DOMAIN wire : \A i \in 1 .. k : wire[i].id = i /\ wire[i].whole}

(* What leaves for the peer is in job order, and each send is made from    *)
(* its own job's request: that job's transaction in the provider's         *)
(* template, with the length of that very body, whatever was spliced       *)
(* before and however the ring batched it.  So the k-th request the peer   *)
(* can read is the k-th job's.  It can read everything that has left as    *)
(* long as no io_uring_enter and no send has failed or been cut short;     *)
(* after that, nothing is promised: one missing or cut record makes all    *)
(* that follow unreadable.                                                 *)
RequestsOnWire ==
    /\ \A k \in DOMAIN wire : wire[k].bytes = Request(spec, jobs[wire[k].id])
    /\ \A i, k \in DOMAIN wire : i < k => wire[i].id < wire[k].id
    /\ errors = 0 => Readable = DOMAIN wire

(* Where the body slot is large enough for MAX_TX_LEN, every transaction   *)
(* the source may produce is sent: neither the slot nor the place of the   *)
(* content length overflows at any length.                                 *)
EveryLengthFits ==
    tpl.res = "ok" /\ Base64Len(MaxTxLen) <= spec.maxLen =>
        \A n \in 0 .. MaxTxLen : Splice(tpl, [id |-> 1, len |-> n]).res = "ok"

=============================================================================
