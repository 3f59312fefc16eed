----------------------------- MODULE HttpEngine -----------------------------
(***************************************************************************)
(* The response side of src/protocol/http/engine.rs as operators.  The     *)
(* plaintext of one HTTP/1.1 response is three fragments, because that is  *)
(* what body_if_complete tells apart: the header line that carries the     *)
(* content length ("cl"), the blank line that ends the header ("end") and  *)
(* the body of exactly that length ("body").  A fragment carries the job   *)
(* whose request it answers; the code has no such field, only properties   *)
(* and bodies look at it.  Fragments arrive in stream order, cut anywhere  *)
(* by the socket and by TLS records.                                       *)
(***************************************************************************)
EXTENDS Naturals, Sequences

CONSTANT MaxJobs          \* bound: jobs 1 .. MaxJobs are triggered

ASSUME MaxJobsAssumption == MaxJobs \in Nat

Job   == 1 .. MaxJobs
NoJob == 0                \* None

Frag == [part : {"cl", "end", "body"}, job : Job]

\* The bytes a server writes in answer to job j.
Response(j) == << [part |-> "cl",   job |-> j],
                  [part |-> "end",  job |-> j],
                  [part |-> "body", job |-> j] >>

\* body_if_complete finds its body after position e of acc: the first blank
\* line is there, a content length precedes it and the body has arrived.
CompleteAt(acc, e) ==
    /\ acc[e].part = "end"
    /\ \A i \in 1 .. e - 1 : acc[i].part # "end"
    /\ \E i \in 1 .. e : acc[i].part = "cl"
    /\ e < Len(acc)

IsComplete(acc) == \E e \in DOMAIN acc : CompleteAt(acc, e)

HeaderEnd(acc) == CHOOSE e \in DOMAIN acc : CompleteAt(acc, e)

\* body_if_complete, where it answers Some: the job the body answers.
BodyIfComplete(acc) == acc[HeaderEnd(acc) + 1].job

\* Mutant: rx_plain is not cleared after a complete response.
Ingest_KeepsRx(rx, data) ==
    LET acc == rx \o data
    IN  IF IsComplete(acc)
        THEN [rx |-> acc, body |-> BodyIfComplete(acc)]
        ELSE [rx |-> acc, body |-> NoJob]

(* HttpEngine::ingest: what rx_plain holds afterwards and the body it      *)
(* answers.  A complete response clears rx_plain with everything that      *)
(* followed the body.  NoJob stands for Ok(None) and for the error of an   *)
(* oversized rx_plain, which keeps the buffer and which the callers do not *)
(* tell from Ok(None).                                                     *)
Ingest(rx, data) ==
    LET acc == rx \o data
    IN  IF IsComplete(acc)
        THEN [rx |-> <<>>, body |-> BodyIfComplete(acc)]
        ELSE [rx |-> acc,  body |-> NoJob]

=============================================================================
