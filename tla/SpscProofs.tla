----------------------------- MODULE SpscProofs -----------------------------
(* Proofs about Spsc, for every capacity, number of pushes, spin limit and *)
(* set of idle backends.                                                   *)
EXTENDS Spsc, TLAPS

USE CapacityAssumption, MaxPushAssumption, SpinLimitAssumption,
    BackendsAssumption

\* The initial state satisfies the inductive invariant.
LEMMA InitIInv == Init => IInv
<1> SUFFICES ASSUME Init PROVE IInv
    OBVIOUS
<1>1. ring \in Seq(Value) /\ Len(ring) <= Capacity
    BY DEF Init
<1>2. stop \in BOOLEAN
    BY DEF Init
<1>3. TypeOK
    BY <1>1, <1>2 DEF Init, TypeOK, ConsumerPC
<1> QED
    BY <1>3 DEF Init, IInv, NoLostWakeup, RecheckCovers, CounterLags, SpinsLeft

\* Each step of the producer, of the consumer and of shutdown preserves the
\* types of Spsc's variables, the ring's capacity included.
LEMMA TypeStep == IInv /\ [Next]_vars => TypeOK'
<1> SUFFICES ASSUME IInv, [Next]_vars PROVE TypeOK'
    OBVIOUS
<1> USE DEF IInv, TypeOK, CounterLags, SpinsLeft, Value
<1>1. CASE Push
    BY <1>1 DEF Push
<1>2. CASE PushFull
    BY <1>2 DEF PushFull
<1>3. CASE Notify
    BY <1>3 DEF Notify
<1>4. CASE TryPop
  <2>1. CASE ring = <<>>
    BY <1>4, <2>1 DEF TryPop, Goto, ConsumerPC
  <2>2. CASE ring # <<>>
    BY <1>4, <2>2 DEF TryPop, Goto, ConsumerPC
  <2> QED BY <2>1, <2>2
<1>5. CASE CheckStop \/ CheckEmpty \/ RecheckEmpty \/ RecheckStop \/ Wake \/ Timeout
    BY <1>5 DEF CheckStop, CheckEmpty, RecheckEmpty, RecheckStop, Wake,
                Timeout, Goto, ConsumerPC
<1>6. CASE Arm
    BY <1>6 DEF Arm, Goto, ConsumerPC
<1>7. CASE Spin
    BY <1>7 DEF Spin, Goto, ConsumerPC
<1>8. CASE StoreStop
    BY <1>8 DEF StoreStop
<1>9. CASE UNCHANGED vars
    BY <1>9 DEF vars
<1> QED
    BY <1>1, <1>2, <1>3, <1>4, <1>5, <1>6, <1>7, <1>8, <1>9 DEF Next, Terminated

\* Each step preserves what the sleeping consumer relies on.
LEMMA WakeupStep ==
    IInv /\ [Next]_vars => (NoLostWakeup /\ RecheckCovers /\ CounterLags /\ SpinsLeft)'
<1> SUFFICES ASSUME IInv, [Next]_vars
             PROVE  (NoLostWakeup /\ RecheckCovers /\ CounterLags /\ SpinsLeft)'
    OBVIOUS
<1> USE DEF IInv, TypeOK, NoLostWakeup, RecheckCovers, CounterLags, SpinsLeft, Hit
<1>1. CASE Push
    BY <1>1 DEF Push
<1>2. CASE PushFull
    BY <1>2 DEF PushFull
<1>3. CASE Notify
    BY <1>3 DEF Notify
<1>4. CASE TryPop
    BY <1>4 DEF TryPop, Goto
<1>5. CASE CheckStop \/ CheckEmpty \/ RecheckEmpty \/ RecheckStop \/ Wake \/ Timeout
    BY <1>5 DEF CheckStop, CheckEmpty, RecheckEmpty, RecheckStop, Wake,
                Timeout, Goto
<1>6. CASE Arm
    BY <1>6 DEF Arm, Goto
<1>7. CASE Spin
    BY <1>7 DEF Spin, Goto
<1>8. CASE StoreStop
    BY <1>8 DEF StoreStop
<1>9. CASE UNCHANGED vars
    BY <1>9 DEF vars
<1> QED
    BY <1>1, <1>2, <1>3, <1>4, <1>5, <1>6, <1>7, <1>8, <1>9 DEF Next, Terminated

\* IInv is inductive: it holds in every reachable state of the channel.
THEOREM Invariance == Spec => []IInv
<1>1. IInv /\ [Next]_vars => IInv'
    BY TypeStep, WakeupStep DEF IInv
<1> QED
    BY InitIInv, <1>1, PTL DEF Spec

\* The channel never holds more than its capacity and its counters stay in
\* range, whatever the interleaving of try_push, try_pop and idle_wait.
THEOREM TypeCorrect == Spec => []TypeOK
<1>1. IInv => TypeOK
    BY DEF IInv
<1> QED
    BY Invariance, <1>1, PTL

\* idle_wait loses no wakeup: a consumer never sleeps on a non-empty ring
\* unless the store that wakes it has been, or is about to be, made.
THEOREM WakeupCorrect == Spec => []NoLostWakeup
<1>1. IInv => NoLostWakeup
    BY DEF IInv
<1> QED
    BY Invariance, <1>1, PTL

=============================================================================
