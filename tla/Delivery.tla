------------------------------ MODULE Delivery ------------------------------
(***************************************************************************)
(* What a Sender promises its caller about outcomes, whichever engine it   *)
(* is built with: jobs are accepted one after the other; each provider     *)
(* settles accepted jobs in their order, each at most once, and may leave  *)
(* any of them out; what is settled is handed to the ResultSink in that    *)
(* order.  How long a job may take, which jobs are left out and what their *)
(* responses say is open.  Both engines implement this specification:      *)
(* ImplementsDelivery in Sequential and in Parallel.                       *)
(***************************************************************************)
EXTENDS Naturals, Sequences

CONSTANTS
    Provider,   \* the providers
    Outcome     \* the outcomes, records with the job they are about

VARIABLES
    given,      \* the jobs 1 .. given have been accepted
    pending,    \* settled and not yet handed over, per provider
    delivered   \* handed to ResultSink::on_result, per provider

vars == <<given, pending, delivered>>

Init ==
    /\ given = 0
    /\ pending = [p \in Provider |-> <<>>]
    /\ delivered = [p \in Provider |-> <<>>]

\* The caller's next job.
Give ==
    /\ given' = given + 1
    /\ UNCHANGED <<pending, delivered>>

\* o is about a job after those of s.
Follows(o, s) == \A k \in 1 .. Len(s) : s[k].job < o.job

\* Provider p settles a job it has not come to yet.
Settle(p, o) ==
    /\ o.job <= given
    /\ Follows(o, pending[p]) /\ Follows(o, delivered[p])
    /\ pending' = [pending EXCEPT ![p] = Append(pending[p], o)]
    /\ UNCHANGED <<given, delivered>>

\* The oldest outcome of p that waits is handed over.
Deliver(p) ==
    /\ pending[p] # <<>>
    /\ delivered' = [delivered EXCEPT ![p] = Append(delivered[p], Head(pending[p]))]
    /\ pending' = [pending EXCEPT ![p] = Tail(pending[p])]
    /\ UNCHANGED given

Next ==
    \/ Give
    \/ /\ pending' # pending
       /\ \E p \in Provider : Deliver(p) \/ \E o \in Outcome : Settle(p, o)

Spec == Init /\ [][Next]_vars

=============================================================================
