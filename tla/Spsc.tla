-------------------------------- MODULE Spsc --------------------------------
(***************************************************************************)
(* The SPSC channel of src/rt/spsc.rs together with idle_wait of           *)
(* src/rt/wait.rs, driven the way both of its users drive it               *)
(* (SequentialWorker::run, ParWorker::run and, for ring 0,                 *)
(* ResultLane::run):                                                       *)
(*                                                                         *)
(*    while !stop { try_pop; ...; if is_empty { idle_wait(counter,         *)
(*                  || is_empty && !stop) } }                              *)
(*                                                                         *)
(* The producer makes two separate stores, the ring's and then the notify  *)
(* counter's; the consumer monitors only the counter.  The actions are the *)
(* individual shared-memory accesses, so every interleaving of the two     *)
(* threads and of the thread that stores the stop flag is explored.        *)
(* Accesses are sequentially consistent.                                   *)
(***************************************************************************)
EXTENDS Naturals, Sequences

CONSTANTS
    Capacity,    \* capacity given to channel()
    MaxPush,     \* bound: how many times the producer calls try_push
    SpinLimit,   \* iterations of the SpinLoop backend (256 in the code)
    Backends     \* the IdleBackend values detect_backend may answer

ASSUME CapacityAssumption  == Capacity \in Nat \ {0}
ASSUME MaxPushAssumption   == MaxPush \in Nat
ASSUME SpinLimitAssumption == SpinLimit \in Nat \ {0}
ASSUME BackendsAssumption  ==
    Backends \subseteq {"AmdMwaitx", "IntelUmwait", "SpinLoop"}

VARIABLES
    ring,        \* the rtrb ring: values pushed and not yet popped
    counter,     \* Notifier.counter
    next,        \* the value of the producer's next try_push
    ppc,         \* producer: "idle", or "notify" between push and fetch_add
    cpc,         \* consumer's program counter
    mon,         \* counter when the monitor was armed (SpinLoop: `initial`)
    spins,       \* iterations of the SpinLoop done so far
    stop,        \* the shared stop flag
    backend      \* the cached answer of detect_backend

vars == <<ring, counter, next, ppc, cpc, mon, spins, stop, backend>>

Value == 1 .. MaxPush

ConsumerPC == {"top", "pop", "check", "arm", "recheckEmpty", "recheckStop",
               "sleep", "spin", "done"}

TypeOK ==
    /\ ring \in Seq(Value) /\ Len(ring) <= Capacity
    /\ counter \in Nat /\ counter <= MaxPush
    /\ next \in 1 .. MaxPush + 1
    /\ ppc \in {"idle", "notify"}
    /\ cpc \in ConsumerPC
    /\ mon \in 0 .. MaxPush
    /\ spins \in 0 .. SpinLimit
    /\ stop \in BOOLEAN
    /\ backend \in Backends

Init ==
    /\ ring = <<>>
    /\ counter = 0
    /\ next = 1
    /\ ppc = "idle"
    /\ cpc = "top"
    /\ mon = 0
    /\ spins = 0
    /\ stop = FALSE
    /\ backend \in Backends

\* A store to the monitored cache line has happened since it was armed.
Hit == counter # mon

-----------------------------------------------------------------------------
(* Producer::try_push: push, then notify.                                  *)

\* Mutant: the capacity is not respected.
Push_Unbounded ==
    /\ ppc = "idle" /\ next <= MaxPush
    /\ Len(ring) <= Capacity
    /\ ring' = Append(ring, next)
    /\ next' = next + 1
    /\ ppc' = "notify"
    /\ UNCHANGED <<counter, cpc, mon, spins, stop, backend>>

\* inner.push(value) succeeds.
Push ==
    /\ ppc = "idle" /\ next <= MaxPush
    /\ Len(ring) < Capacity
    /\ ring' = Append(ring, next)
    /\ next' = next + 1
    /\ ppc' = "notify"
    /\ UNCHANGED <<counter, cpc, mon, spins, stop, backend>>

\* inner.push(value) answers Full: the value goes back to the caller.
PushFull ==
    /\ ppc = "idle" /\ next <= MaxPush
    /\ Len(ring) = Capacity
    /\ next' = next + 1
    /\ UNCHANGED <<ring, counter, ppc, cpc, mon, spins, stop, backend>>

\* Mutant: the push is not announced on the counter.
Notify_NoStore ==
    /\ ppc = "notify"
    /\ ppc' = "idle"
    /\ UNCHANGED <<ring, counter, next, cpc, mon, spins, stop, backend>>

\* Notifier::notify, the fetch_add.
Notify ==
    /\ ppc = "notify"
    /\ counter' = counter + 1
    /\ ppc' = "idle"
    /\ UNCHANGED <<ring, next, cpc, mon, spins, stop, backend>>

-----------------------------------------------------------------------------
(* The consumer's loop.                                                    *)

Goto(from, to) == cpc = from /\ cpc' = to

\* while !stop.load()
CheckStop ==
    /\ Goto("top", IF stop THEN "done" ELSE "pop")
    /\ UNCHANGED <<ring, counter, next, ppc, mon, spins, stop, backend>>

\* Consumer::try_pop.
TryPop ==
    /\ Goto("pop", "check")
    /\ ring' = IF ring = <<>> THEN ring ELSE Tail(ring)
    /\ UNCHANGED <<counter, next, ppc, mon, spins, stop, backend>>

\* if is_empty() { idle_wait(...) }
CheckEmpty ==
    /\ Goto("check", IF ring = <<>> THEN "arm" ELSE "top")
    /\ UNCHANGED <<ring, counter, next, ppc, mon, spins, stop, backend>>

\* Mutant: idle_wait sleeps without evaluating condition_still_true.
Arm_NoRecheck ==
    /\ Goto("arm", IF backend = "SpinLoop" THEN "spin" ELSE "sleep")
    /\ mon' = counter
    /\ spins' = 0
    /\ UNCHANGED <<ring, counter, next, ppc, stop, backend>>

\* monitorx / umonitor, or the first read of the SpinLoop.
Arm ==
    /\ Goto("arm", IF backend = "SpinLoop" THEN "spin" ELSE "recheckEmpty")
    /\ mon' = counter
    /\ spins' = 0
    /\ UNCHANGED <<ring, counter, next, ppc, stop, backend>>

\* condition_still_true(), first operand of the &&.
RecheckEmpty ==
    /\ Goto("recheckEmpty", IF ring = <<>> THEN "recheckStop" ELSE "top")
    /\ UNCHANGED <<ring, counter, next, ppc, mon, spins, stop, backend>>

\* condition_still_true(), second operand.
RecheckStop ==
    /\ Goto("recheckStop", IF stop THEN "top" ELSE "sleep")
    /\ UNCHANGED <<ring, counter, next, ppc, mon, spins, stop, backend>>

\* mwaitx / umwait returns because the monitored line was written.
Wake ==
    /\ Goto("sleep", "top") /\ Hit
    /\ UNCHANGED <<ring, counter, next, ppc, mon, spins, stop, backend>>

\* Mutant: the wait is given no deadline.
Timeout_Never ==
    /\ Goto("sleep", "top") /\ FALSE
    /\ UNCHANGED <<ring, counter, next, ppc, mon, spins, stop, backend>>

\* mwaitx / umwait returns at its deadline, DEFAULT_TIMEOUT_TSC cycles away.
Timeout ==
    /\ Goto("sleep", "top")
    /\ UNCHANGED <<ring, counter, next, ppc, mon, spins, stop, backend>>

\* One iteration of the SpinLoop: leave on a changed counter, or at the
\* end of the for loop.
Spin ==
    /\ Goto("spin", IF Hit \/ spins + 1 = SpinLimit THEN "top" ELSE "spin")
    /\ spins' = spins + 1
    /\ UNCHANGED <<ring, counter, next, ppc, mon, stop, backend>>

-----------------------------------------------------------------------------
\* Sender::shutdown stores the flag; it never touches the counter.
StoreStop ==
    /\ ~stop
    /\ stop' = TRUE
    /\ UNCHANGED <<ring, counter, next, ppc, cpc, mon, spins, backend>>

\* Both threads have finished.
Terminated ==
    /\ cpc = "done" /\ ppc = "idle" /\ next = MaxPush + 1
    /\ UNCHANGED vars

\* Every step of the consumer's own code: all but the two ends of a sleep.
ConsumerStep ==
    \/ CheckStop \/ TryPop \/ CheckEmpty
    \/ Arm \/ RecheckEmpty \/ RecheckStop \/ Spin

Next ==
    \/ Push \/ PushFull \/ Notify
    \/ CheckStop \/ TryPop \/ CheckEmpty
    \/ Arm \/ RecheckEmpty \/ RecheckStop \/ Wake \/ Timeout \/ Spin
    \/ StoreStop
    \/ Terminated

Spec == Init /\ [][Next]_vars

(* The threads run: a push that has stored the ring goes on to notify, the *)
(* consumer keeps executing, a store to the armed line ends the wait.  The *)
(* deadline of the wait is the only thing left out.                        *)
NoTimeoutFairness == WF_vars(Notify) /\ WF_vars(ConsumerStep) /\ WF_vars(Wake)

WakeSpec == Spec /\ NoTimeoutFairness

-----------------------------------------------------------------------------
(* A consumer that sleeps with a value in the ring is about to be woken:   *)
(* the store that ends the sleep has happened since the monitor was armed, *)
(* or the producer is between its two stores.  This is what the order push *)
(* / notify in try_push and the order arm / recheck in idle_wait buy.      *)
NoLostWakeup ==
    cpc = "sleep" /\ ring # <<>> => Hit \/ ppc = "notify"

\* Also before it sleeps: once the recheck has found the ring empty, a
\* later push cannot go unseen by the armed monitor.
RecheckCovers ==
    cpc = "recheckStop" /\ ring # <<>> => Hit \/ ppc = "notify"

\* Notifications lag the pushes by the one that is in progress, and the
\* armed value is one the counter has had.
CounterLags ==
    /\ counter + (IF ppc = "notify" THEN 1 ELSE 0) < next
    /\ mon <= counter

\* A SpinLoop that is still running has iterations left.
SpinsLeft == cpc = "spin" => spins < SpinLimit

IInv ==
    /\ TypeOK
    /\ NoLostWakeup
    /\ RecheckCovers
    /\ CounterLags
    /\ SpinsLeft

(* Every value that enters the ring leaves it, unless the consumer is told *)
(* to stop, although no wait ever times out: the notify counter alone      *)
(* wakes the consumer.                                                     *)
PushedIsPopped ==
    \A v \in Value :
        (\E k \in DOMAIN ring : ring[k] = v)
            ~> (stop \/ \A k \in DOMAIN ring : ring[k] # v)

(* A stopped consumer leaves its loop.  The stop flag is not on the        *)
(* monitored line, so this rests on the deadline of the wait, which is why *)
(* the premise adds that a wait ends at its deadline.                      *)
StopExits == WF_vars(Timeout) => (stop ~> (cpc = "done"))

=============================================================================
