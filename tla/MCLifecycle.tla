---------------------------- MODULE MCLifecycle -----------------------------
(* Instance of Lifecycle for TLC: two processes, with two builders of      *)
(* libtpa Senders in the first and in the second a builder of any engine,  *)
(* whose configuration is good, incomplete, or one that cannot connect.    *)
EXTENDS Lifecycle, TLC

CONSTANTS a1, a2, b, pa, pb

Http == [protocol |-> "Http", compiles |-> TRUE]
Quic == [protocol |-> "Quic", has |-> {"endpoint", "profile", "auth"}, idleFits |-> TRUE]

NoProfile   == [Quic EXCEPT !.has = @ \ {"profile"}]
LongIdle    == [Quic EXCEPT !.idleFits = FALSE]
BadEnvelope == [Http EXCEPT !.compiles = FALSE]

Config(engine, lacks, providers) ==
    [engine |-> engine, lacks |-> lacks, providers |-> providers]

MCOwner == (a1 :> pa) @@ (a2 :> pa) @@ (b :> pb)

MCConfigOf ==
    (a1 :> {Config("ParTpa", {}, <<Quic>>)}) @@
    (a2 :> {Config("ParTpa", {}, <<Http>>)}) @@
    (b  :> {Config("ParTpa", {}, <<Http, NoProfile>>),
            Config("SeqRaw", {}, <<Http, BadEnvelope>>),
            Config("SeqUring", {}, <<Http, LongIdle>>),
            Config("ParRaw", {}, <<Http, Http>>),
            Config("ParRaw", {"NoTls", "NoSink"}, <<Http>>),
            Config("SeqRaw", {}, <<>>)})

=============================================================================
