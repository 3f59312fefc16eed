---------------------------- MODULE UringProofs -----------------------------
(***************************************************************************)
(* The ring alone: BuffersAlive and ReadsExact for every set of payloads,  *)
(* ring size, mode and number of submits, chunks and errors.  The          *)
(* connection over it: TypeOK, RequestsOnWire and EveryLengthFits for      *)
(* every provider template and every transaction length as well.           *)
(***************************************************************************)
EXTENDS UringConn, EnvelopeProofs, SequenceTheorems, TLAPS

(* The inductive invariant behind BuffersAlive: sends pass through         *)
(* pending, the submission queue and the kernel in the order of their      *)
(* numbers, and every one that is still there is newer than all those      *)
(* whose buffers have been freed or are about to be.                       *)

\* The sends among the entries s.
Sends(s) == {s[a] : a \in 1 .. Len(s)} \ {RecvOp}

\* They are in the order of their numbers.
InOrder(s) ==
    \A a, b \in 1 .. Len(s) :
        a < b /\ s[a] # RecvOp /\ s[b] # RecvOp => s[a] < s[b]

\* The sends in s are older than those in t.
Ahead(s, t) == \A x \in Sends(s), y \in Sends(t) : x < y

Within(s, lo, hi) == \A x \in Sends(s) : lo < x /\ x <= hi

\* Entries k in the kernel, s in the submission queue and p pending, all
\* of them sends after lo and up to hi.
Line(k, s, p, lo, hi) ==
    /\ InOrder(k) /\ InOrder(s) /\ InOrder(p)
    /\ Ahead(k, s) /\ Ahead(k, p) /\ Ahead(s, p)
    /\ Within(k, lo, hi) /\ Within(s, lo, hi) /\ Within(p, lo, hi)

LineOK(k, s, p, lo, hi) ==
    /\ k \in Seq(Nat) /\ s \in Seq(Nat) /\ p \in Seq(Nat)
    /\ lo \in Nat /\ hi \in Nat /\ lo <= hi
    /\ Line(k, s, p, lo, hi)

\* The buffers freed so far, and the newest send that was queued.
Freed  == nextId - 1 - Len(sendInFlight)
Newest == IF pc = "push" THEN nextId - 2 ELSE nextId - 1

BuffersInv ==
    /\ nextId \in Nat \ {0}
    /\ completedSends \in Nat /\ cqSends \in Nat
    /\ sendInFlight \in Seq(Buffer) /\ Freed \in Nat
    /\ \A k \in 1 .. Len(sendInFlight) : sendInFlight[k].id = Freed + k
    /\ cfg.mode = "SqeStream" => pending = <<>>
    /\ pc = "push" => cfg.mode = "SqeStream"
    /\ LineOK(kern, sq, pending, Freed + completedSends + cqSends, Newest)

-----------------------------------------------------------------------------
(* What the moves of entries do to the line of sends.                      *)

\* What concatenation makes of two sequences of entries.
LEMMA ConcatEntries ==
    ASSUME NEW k \in Seq(Nat), NEW s \in Seq(Nat)
    PROVE  /\ k \o s \in Seq(Nat) /\ Len(k \o s) = Len(k) + Len(s)
           /\ \A a \in 1 .. Len(k) + Len(s) :
                 (k \o s)[a] = IF a <= Len(k) THEN k[a] ELSE s[a - Len(k)]
  BY SMT

\* Without removes the k-th element.
LEMMA WithoutProperties ==
    ASSUME NEW s \in Seq(Nat), NEW k \in 1 .. Len(s)
    PROVE  /\ Without(s, k) \in Seq(Nat)
           /\ Len(Without(s, k)) = Len(s) - 1
           /\ \A a \in 1 .. Len(s) - 1 :
                  Without(s, k)[a] = IF a < k THEN s[a] ELSE s[a + 1]
<1> DEFINE f == SubSeq(s, 1, k - 1)
           g == SubSeq(s, k + 1, Len(s))
<1>1. f \in Seq(Nat) /\ Len(f) = k - 1
  BY SMT
<1>2. \A a \in 1 .. k - 1 : f[a] = s[a]
  BY SMT
<1>3. g \in Seq(Nat) /\ Len(g) = Len(s) - k
  BY SMT
<1>4. \A a \in 1 .. Len(s) - k : g[a] = s[k + a]
  BY SMT
<1> HIDE DEF f, g
<1>5. /\ f \o g \in Seq(Nat) /\ Len(f \o g) = Len(f) + Len(g)
      /\ \A a \in 1 .. Len(f) + Len(g) :
            (f \o g)[a] = IF a <= Len(f) THEN f[a] ELSE g[a - Len(f)]
  BY <1>1, <1>3, ConcatEntries
<1>6. Len(s) \in Nat
  BY LenProperties
<1>7. Len(f) + Len(g) = Len(s) - 1
  BY <1>1, <1>3, <1>6, SMT
<1>8. ASSUME NEW a \in 1 .. Len(s) - 1
      PROVE  (f \o g)[a] = IF a < k THEN s[a] ELSE s[a + 1]
  <2>1. (f \o g)[a] = IF a <= Len(f) THEN f[a] ELSE g[a - Len(f)]
    BY <1>5, <1>7
  <2>2. CASE a < k
    <3>1. a <= Len(f) /\ a \in 1 .. k - 1
      BY <1>1, <1>6, <2>2, SMT
    <3> QED  BY <2>1, <2>2, <3>1, <1>2
  <2>3. CASE ~(a < k)
    <3>1. ~(a <= Len(f)) /\ a - Len(f) \in 1 .. Len(s) - k /\ k + (a - Len(f)) = a + 1
      BY <1>1, <1>6, <2>3, SMT
    <3> QED  BY <2>1, <2>3, <3>1, <1>4
  <2> QED  BY <2>2, <2>3
<1> QED  BY <1>5, <1>7, <1>8 DEF Without, f, g

\* What Append makes of a sequence of entries.
LEMMA AppendEntry ==
    ASSUME NEW s \in Seq(Nat), NEW e \in Nat
    PROVE  /\ Append(s, e) \in Seq(Nat)
           /\ Len(Append(s, e)) = Len(s) + 1
           /\ \A a \in 1 .. Len(s) + 1 :
                  Append(s, e)[a] = IF a = Len(s) + 1 THEN e ELSE s[a]
  BY SMT

\* What Tail makes of a sequence of entries.
LEMMA TailEntries ==
    ASSUME NEW p \in Seq(Nat), Len(p) > 0
    PROVE  /\ Tail(p) \in Seq(Nat) /\ Len(Tail(p)) = Len(p) - 1 /\ Len(p) >= 1
           /\ \A a \in 1 .. Len(p) - 1 : Tail(p)[a] = p[a + 1]
  BY HeadTailProperties, EmptySeq, LenProperties, SMT

\* Entries are numbers.
LEMMA SendsNat ==
    ASSUME NEW s \in Seq(Nat)
    PROVE  Len(s) \in Nat /\ Sends(s) \subseteq Nat /\ \A a \in 1 .. Len(s) : s[a] \in Nat
<1>1. Len(s) \in Nat /\ \A a \in 1 .. Len(s) : s[a] \in Nat
  BY SMT
<1> QED  BY <1>1 DEF Sends

\* An entry that is not a recv is a send.
LEMMA EntrySend ==
    ASSUME NEW s, NEW a \in 1 .. Len(s), s[a] # RecvOp
    PROVE  s[a] \in Sends(s)
  BY DEF Sends

\* There is no entry in an empty queue.
LEMMA EmptyEntries ==
    <<>> \in Seq(Nat) /\ Sends(<<>>) = {} /\ InOrder(<<>>)
<1>1. <<>> \in Seq(Nat) /\ Len(<<>>) = 0
  BY SMT
<1>2. 1 .. Len(<<>>) = {}
  BY <1>1, SMT
<1> QED  BY <1>1, <1>2 DEF Sends, InOrder

\* Fewer sends keep their place and their bounds.
LEMMA AheadSub ==
    ASSUME NEW s, NEW t, NEW u, NEW v, Ahead(s, t),
           Sends(u) \subseteq Sends(s), Sends(v) \subseteq Sends(t)
    PROVE  Ahead(u, v)
  BY DEF Ahead

\* Fewer sends are within the same limits.
LEMMA WithinSub ==
    ASSUME NEW s, NEW u, NEW lo, NEW hi, Within(s, lo, hi), Sends(u) \subseteq Sends(s)
    PROVE  Within(u, lo, hi)
  BY DEF Within

\* A later send leaves room above.
LEMMA WithinWiden ==
    ASSUME NEW s \in Seq(Nat), NEW lo \in Nat, NEW hi \in Nat, Within(s, lo, hi)
    PROVE  Within(s, lo, hi + 1)
<1>1. \A x \in Nat : x <= hi => x <= hi + 1
  BY SMT
<1> QED  BY <1>1, SendsNat DEF Within

\* Concatenation: the sends of both, in order if those of the first are older.
LEMMA ConcatSends ==
    ASSUME NEW k \in Seq(Nat), NEW s \in Seq(Nat)
    PROVE  /\ k \o s \in Seq(Nat)
           /\ Sends(k \o s) \subseteq Sends(k) \cup Sends(s)
           /\ InOrder(k) /\ InOrder(s) /\ Ahead(k, s) => InOrder(k \o s)
<1> DEFINE t == k \o s
<1>1. t \in Seq(Nat) /\ Len(t) = Len(k) + Len(s)
        /\ \A a \in 1 .. Len(k) + Len(s) :
              t[a] = IF a <= Len(k) THEN k[a] ELSE s[a - Len(k)]
  BY ConcatEntries
<1>2. Len(k) \in Nat /\ Len(s) \in Nat
  BY SendsNat
<1> HIDE DEF t
<1>3. ASSUME NEW a \in 1 .. Len(t)
      PROVE  \/ a \in 1 .. Len(k) /\ t[a] = k[a]
             \/ a - Len(k) \in 1 .. Len(s) /\ ~(a <= Len(k)) /\ t[a] = s[a - Len(k)]
  <2>1. a \in 1 .. Len(k) \/ (a - Len(k) \in 1 .. Len(s) /\ ~(a <= Len(k)))
    <3>1. Len(t) = Len(k) + Len(s)
      BY <1>1
    <3> QED  BY <3>1, <1>2, SMT
  <2>2. t[a] = IF a <= Len(k) THEN k[a] ELSE s[a - Len(k)]
    BY <1>1
  <2>3. a \in 1 .. Len(k) => a <= Len(k)
    BY <1>2, SMT
  <2> QED  BY <2>1, <2>2, <2>3
<1>4. Sends(t) \subseteq Sends(k) \cup Sends(s)
  BY <1>3 DEF Sends
<1>5. ASSUME InOrder(k), InOrder(s), Ahead(k, s),
             NEW a \in 1 .. Len(t), NEW b \in 1 .. Len(t), a < b,
             t[a] # RecvOp, t[b] # RecvOp
      PROVE  t[a] < t[b]
  <2>1. CASE a \in 1 .. Len(k) /\ b \in 1 .. Len(k) /\ t[a] = k[a] /\ t[b] = k[b]
    BY <1>5, <2>1 DEF InOrder
  <2>2. CASE a \in 1 .. Len(k) /\ t[a] = k[a]
             /\ b - Len(k) \in 1 .. Len(s) /\ t[b] = s[b - Len(k)]
    BY <1>5, <2>2, EntrySend DEF Ahead
  <2>3. CASE /\ a - Len(k) \in 1 .. Len(s) /\ t[a] = s[a - Len(k)]
             /\ b - Len(k) \in 1 .. Len(s) /\ t[b] = s[b - Len(k)]
    <3>1. a - Len(k) < b - Len(k)
      <4>1. a \in Int /\ b \in Int
        BY <1>1, <1>2, SMT
      <4> QED  BY <1>5, <1>2, <4>1, SMT
    <3> QED  BY <1>5, <2>3, <3>1 DEF InOrder
  <2>4. ~(a <= Len(k)) => ~(b \in 1 .. Len(k))
    <3>1. a \in Int /\ b \in Int
      BY <1>1, <1>2, SMT
    <3> QED  BY <1>5, <1>2, <3>1, SMT
  <2> QED  BY <1>3, <2>1, <2>2, <2>3, <2>4
<1>6. InOrder(k) /\ InOrder(s) /\ Ahead(k, s) => InOrder(t)
  BY <1>5 DEF InOrder
<1> QED  BY <1>1, <1>4, <1>6 DEF t

\* Append: one send more, in order if it is the newest.
LEMMA AppendSends ==
    ASSUME NEW s \in Seq(Nat), NEW e \in Nat
    PROVE  /\ Append(s, e) \in Seq(Nat)
           /\ Sends(Append(s, e)) \subseteq Sends(s) \cup ({e} \ {RecvOp})
           /\ InOrder(s) /\ (e = RecvOp \/ \A x \in Sends(s) : x < e)
                 => InOrder(Append(s, e))
<1> DEFINE t == Append(s, e)
<1>1. t \in Seq(Nat) /\ Len(t) = Len(s) + 1
        /\ \A a \in 1 .. Len(s) + 1 : t[a] = IF a = Len(s) + 1 THEN e ELSE s[a]
  BY AppendEntry
<1>2. Len(s) \in Nat
  BY SendsNat
<1> HIDE DEF t
<1>3. \A a \in 1 .. Len(t) : a \in 1 .. Len(s) \/ a = Len(t)
  <2>1. Len(t) = Len(s) + 1
    BY <1>1
  <2> QED  BY <2>1, <1>2, SMT
<1>4. \A a \in 1 .. Len(s) : a \in 1 .. Len(s) + 1 /\ a # Len(s) + 1 /\ Len(s) + 1 \in 1 .. Len(s) + 1
  BY <1>2, SMT
<1>5. \A a \in 1 .. Len(s) : t[a] = s[a]
  BY <1>1, <1>4
<1>6. Len(t) \in 1 .. Len(t) => t[Len(t)] = e
  BY <1>1
<1>7. Sends(t) \subseteq Sends(s) \cup ({e} \ {RecvOp})
  BY <1>3, <1>5, <1>6 DEF Sends
<1>8. ASSUME InOrder(s), e = RecvOp \/ \A x \in Sends(s) : x < e,
             NEW a \in 1 .. Len(t), NEW b \in 1 .. Len(t), a < b,
             t[a] # RecvOp, t[b] # RecvOp
      PROVE  t[a] < t[b]
  <2>1. a \in 1 .. Len(s)
    <3>1. a # Len(t)
      <4>1. Len(t) \in Nat
        BY <1>1, <1>2
      <4> QED  BY <1>8, <4>1, SMT
    <3> QED  BY <3>1, <1>3
  <2>2. CASE b \in 1 .. Len(s)
    BY <1>5, <1>8, <2>1, <2>2 DEF InOrder
  <2>3. CASE b = Len(t)
    BY <1>5, <1>6, <1>8, <2>1, <2>3, EntrySend
  <2> QED  BY <1>3, <2>2, <2>3
<1>9. InOrder(s) /\ (e = RecvOp \/ \A x \in Sends(s) : x < e) => InOrder(t)
  BY <1>8 DEF InOrder
<1> QED  BY <1>1, <1>7, <1>9 DEF t

\* Tail: the sends without the first entry, which is older than they are.
LEMMA TailSends ==
    ASSUME NEW p \in Seq(Nat), Len(p) > 0
    PROVE  /\ Tail(p) \in Seq(Nat) /\ Head(p) \in Nat
           /\ Sends(Tail(p)) \subseteq Sends(p)
           /\ Head(p) # RecvOp => Head(p) \in Sends(p)
           /\ InOrder(p) => InOrder(Tail(p))
           /\ InOrder(p) /\ Head(p) # RecvOp => \A x \in Sends(Tail(p)) : Head(p) < x
<1> DEFINE t == Tail(p)
<1>1. t \in Seq(Nat) /\ Len(t) = Len(p) - 1
        /\ \A a \in 1 .. Len(p) - 1 : t[a] = p[a + 1]
  BY TailEntries
<1>2. Head(p) = p[1] /\ p[1] \in Nat /\ 1 \in 1 .. Len(p) /\ Len(p) \in Nat
  BY SMT
<1> HIDE DEF t
<1>3. \A a \in 1 .. Len(t) : a + 1 \in 1 .. Len(p) /\ 1 < a + 1
  <2>1. Len(t) = Len(p) - 1 /\ Len(p) \in Nat
    BY <1>1, <1>2
  <2> QED  BY <2>1, SMT
<1>4. \A a \in 1 .. Len(t) : t[a] = p[a + 1]
  BY <1>1
<1>5. Sends(t) \subseteq Sends(p)
  BY <1>3, <1>4 DEF Sends
<1>6. InOrder(p) => InOrder(t)
  <2>1. \A a, b \in 1 .. Len(t) : a < b => a + 1 < b + 1
    <3>1. Len(t) \in Int
      BY <1>1, <1>2, SMT
    <3> QED  BY <3>1, SMT
  <2> QED  BY <1>3, <1>4, <2>1 DEF InOrder
<1>7. InOrder(p) /\ p[1] # RecvOp => \A x \in Sends(t) : p[1] < x
  BY <1>2, <1>3, <1>4 DEF InOrder, Sends
<1>8. p[1] # RecvOp => p[1] \in Sends(p)
  BY <1>2, EntrySend
<1> QED  BY <1>1, <1>2, <1>5, <1>6, <1>7, <1>8 DEF t

\* Without: the sends that are left, in order; if the oldest send was taken
\* they are newer.
LEMMA WithoutSends ==
    ASSUME NEW k \in Seq(Nat), NEW j \in 1 .. Len(k), InOrder(k)
    PROVE  /\ Without(k, j) \in Seq(Nat)
           /\ Sends(Without(k, j)) \subseteq Sends(k)
           /\ InOrder(Without(k, j))
           /\ k[j] # RecvOp /\ (\A i \in 1 .. j - 1 : k[i] = RecvOp)
                 => \A x \in Sends(Without(k, j)) : k[j] < x
<1> DEFINE t == Without(k, j)
           at(a) == IF a < j THEN a ELSE a + 1
<1>1. t \in Seq(Nat) /\ Len(t) = Len(k) - 1
        /\ \A a \in 1 .. Len(k) - 1 : t[a] = IF a < j THEN k[a] ELSE k[a + 1]
  BY WithoutProperties
<1>2. Len(k) \in Nat
  BY SendsNat
<1> HIDE DEF t
<1>3. \A a \in 1 .. Len(t) : at(a) \in 1 .. Len(k)
  <2>1. Len(t) = Len(k) - 1
    BY <1>1
  <2> QED  BY <2>1, <1>2, SMT
<1>4. \A a, b \in 1 .. Len(t) : a < b => at(a) < at(b)
  <2>1. Len(t) \in Int
    BY <1>1, <1>2, SMT
  <2> QED  BY <2>1, <1>2, SMT
<1>5. \A a \in 1 .. Len(t) : a < j => a \in 1 .. j - 1
  <2>1. Len(t) \in Int
    BY <1>1, <1>2, SMT
  <2> QED  BY <2>1, <1>2, SMT
<1>6. \A a \in 1 .. Len(t) : ~(a < j) => at(a) = a + 1 /\ j < a + 1
  <2>1. Len(t) \in Int
    BY <1>1, <1>2, SMT
  <2> QED  BY <2>1, <1>2, SMT
<1>7. \A a \in 1 .. Len(t) : t[a] = k[at(a)]
  BY <1>1
<1>8. \A a \in 1 .. Len(t) : a < j => at(a) = a
  OBVIOUS
<1> HIDE DEF at
<1>9. Sends(t) \subseteq Sends(k)
  BY <1>3, <1>7 DEF Sends
<1>10. InOrder(t)
  BY <1>3, <1>4, <1>7 DEF InOrder
<1>11. ASSUME k[j] # RecvOp, \A i \in 1 .. j - 1 : k[i] = RecvOp,
              NEW a \in 1 .. Len(t), t[a] # RecvOp
       PROVE  k[j] < t[a]
  <2>1. ~(a < j)
    BY <1>5, <1>7, <1>8, <1>11
  <2>2. j < at(a)
    BY <2>1, <1>6
  <2> QED  BY <2>2, <1>3, <1>7, <1>11 DEF InOrder
<1>12. k[j] # RecvOp /\ (\A i \in 1 .. j - 1 : k[i] = RecvOp)
          => \A x \in Sends(t) : k[j] < x
  BY <1>11 DEF Sends
<1> QED  BY <1>1, <1>9, <1>10, <1>12 DEF t

-----------------------------------------------------------------------------
(* What the moves of entries do to the line.                               *)

\* The kernel takes everything in the submission queue.
LEMMA FlushLine ==
    ASSUME NEW k, NEW s, NEW p, NEW lo, NEW hi, LineOK(k, s, p, lo, hi)
    PROVE  LineOK(k \o s, <<>>, p, lo, hi)
<1>1. Sends(<<>>) = {} /\ InOrder(<<>>) /\ <<>> \in Seq(Nat)
  BY EmptyEntries
<1>2. /\ k \o s \in Seq(Nat) /\ InOrder(k \o s)
      /\ Sends(k \o s) \subseteq Sends(k) \cup Sends(s)
  BY ConcatSends DEF LineOK, Line
<1>3. Line(k \o s, <<>>, p, lo, hi)
  BY <1>1, <1>2 DEF LineOK, Line, Ahead, Within
<1> QED  BY <1>1, <1>2, <1>3 DEF LineOK

\* A recv is put into the submission queue.
LEMMA RecvQueued ==
    ASSUME NEW k, NEW s, NEW p, NEW lo, NEW hi, LineOK(k, s, p, lo, hi)
    PROVE  LineOK(k, Append(s, RecvOp), p, lo, hi)
<1>1. /\ Append(s, RecvOp) \in Seq(Nat) /\ InOrder(Append(s, RecvOp))
      /\ Sends(Append(s, RecvOp)) \subseteq Sends(s)
  <2>1. RecvOp \in Nat /\ s \in Seq(Nat) /\ InOrder(s)
    BY DEF RecvOp, LineOK, Line
  <2> QED  BY <2>1, AppendSends
<1>2. Line(k, Append(s, RecvOp), p, lo, hi)
  BY <1>1 DEF LineOK, Line, Ahead, Within
<1> QED  BY <1>1, <1>2 DEF LineOK

\* A send whose entry is never queued only widens the bound.
LEMMA WidenLine ==
    ASSUME NEW k, NEW s, NEW p, NEW lo, NEW hi, LineOK(k, s, p, lo, hi)
    PROVE  LineOK(k, s, p, lo, hi + 1)
<1>1. lo \in Nat /\ hi \in Nat /\ lo <= hi
  BY DEF LineOK
<1>2. hi + 1 \in Nat /\ lo <= hi + 1
  BY <1>1, SMT
<1>3. Line(k, s, p, lo, hi + 1)
  BY <1>1, WithinWiden DEF LineOK, Line
<1> QED  BY <1>1, <1>2, <1>3 DEF LineOK

\* What the number of the next send does to a queue.
LEMMA NewestSend ==
    ASSUME NEW s \in Seq(Nat), NEW lo \in Nat, NEW hi \in Nat, lo <= hi,
           InOrder(s), Within(s, lo, hi)
    PROVE  /\ Append(s, hi + 1) \in Seq(Nat) /\ InOrder(Append(s, hi + 1))
           /\ Sends(Append(s, hi + 1)) \subseteq Sends(s) \cup {hi + 1}
           /\ Within(Append(s, hi + 1), lo, hi + 1)
<1>1. hi + 1 \in Nat /\ lo < hi + 1 /\ hi + 1 <= hi + 1
  BY SMT
<1>2. \A x \in Nat : x <= hi => x < hi + 1 /\ x <= hi + 1
  BY SMT
<1>3. Sends(s) \subseteq Nat
  BY SendsNat
<1>4. \A x \in Sends(s) : x < hi + 1 /\ lo < x /\ x <= hi + 1
  BY <1>2, <1>3 DEF Within
<1>5. /\ Append(s, hi + 1) \in Seq(Nat) /\ InOrder(Append(s, hi + 1))
      /\ Sends(Append(s, hi + 1)) \subseteq Sends(s) \cup {hi + 1}
  BY <1>1, <1>4, AppendSends
<1> QED  BY <1>1, <1>4, <1>5 DEF Within

\* Everything in a queue is older than the next send.
LEMMA OlderThanNext ==
    ASSUME NEW s \in Seq(Nat), NEW lo \in Nat, NEW hi \in Nat, Within(s, lo, hi)
    PROVE  \A x \in Sends(s) : x < hi + 1
<1>1. \A x \in Nat : x <= hi => x < hi + 1
  BY SMT
<1> QED  BY <1>1, SendsNat DEF Within

\* push_sqe puts the next send into the submission queue; nothing is pending.
LEMMA SendQueued ==
    ASSUME NEW k, NEW s, NEW lo, NEW hi, LineOK(k, s, <<>>, lo, hi)
    PROVE  LineOK(k, Append(s, hi + 1), <<>>, lo, hi + 1)
<1>1. LineOK(k, s, <<>>, lo, hi + 1)
  BY WidenLine
<1>2. /\ Append(s, hi + 1) \in Seq(Nat) /\ InOrder(Append(s, hi + 1))
      /\ Sends(Append(s, hi + 1)) \subseteq Sends(s) \cup {hi + 1}
      /\ Within(Append(s, hi + 1), lo, hi + 1)
  BY NewestSend DEF LineOK, Line
<1>3. \A x \in Sends(k) : x < hi + 1
  BY OlderThanNext DEF LineOK, Line
<1>4. Sends(<<>>) = {}
  BY EmptyEntries
<1>5. Line(k, Append(s, hi + 1), <<>>, lo, hi + 1)
  BY <1>1, <1>2, <1>3, <1>4 DEF LineOK, Line, Ahead
<1> QED  BY <1>1, <1>2, <1>5 DEF LineOK

\* submit of mode BatchSyscall puts the next send into pending.
LEMMA SendPending ==
    ASSUME NEW k, NEW s, NEW p, NEW lo, NEW hi, LineOK(k, s, p, lo, hi)
    PROVE  LineOK(k, s, Append(p, hi + 1), lo, hi + 1)
<1>1. LineOK(k, s, p, lo, hi + 1)
  BY WidenLine
<1>2. /\ Append(p, hi + 1) \in Seq(Nat) /\ InOrder(Append(p, hi + 1))
      /\ Sends(Append(p, hi + 1)) \subseteq Sends(p) \cup {hi + 1}
      /\ Within(Append(p, hi + 1), lo, hi + 1)
  BY NewestSend DEF LineOK, Line
<1>3. \A x \in Sends(k) \cup Sends(s) : x < hi + 1
  BY OlderThanNext DEF LineOK, Line
<1>4. Line(k, s, Append(p, hi + 1), lo, hi + 1)
  BY <1>1, <1>2, <1>3 DEF LineOK, Line, Ahead
<1> QED  BY <1>1, <1>2, <1>4 DEF LineOK

\* drain_pending has popped an entry and fails: it is lost.
LEMMA DropLine ==
    ASSUME NEW k, NEW s, NEW p, NEW lo, NEW hi, LineOK(k, s, p, lo, hi), Len(p) > 0
    PROVE  LineOK(k, s, Tail(p), lo, hi)
<1>1. Tail(p) \in Seq(Nat) /\ InOrder(Tail(p)) /\ Sends(Tail(p)) \subseteq Sends(p)
  BY TailSends DEF LineOK, Line
<1>2. Line(k, s, Tail(p), lo, hi)
  BY <1>1 DEF LineOK, Line, Ahead, Within
<1> QED  BY <1>1, <1>2 DEF LineOK

\* drain_pending moves the oldest entry to the submission queue.
LEMMA DrainLine ==
    ASSUME NEW k, NEW s, NEW p, NEW lo, NEW hi, LineOK(k, s, p, lo, hi), Len(p) > 0
    PROVE  LineOK(k, Append(s, Head(p)), Tail(p), lo, hi)
<1>1. /\ Head(p) \in Nat
      /\ Head(p) # RecvOp => Head(p) \in Sends(p) /\ \A x \in Sends(Tail(p)) : Head(p) < x
  BY TailSends DEF LineOK, Line
<1>2. LineOK(k, s, Tail(p), lo, hi)
  BY DropLine
<1>3. Head(p) = RecvOp \/ \A x \in Sends(s) : x < Head(p)
  BY <1>1 DEF LineOK, Line, Ahead
<1>4. /\ Append(s, Head(p)) \in Seq(Nat) /\ InOrder(Append(s, Head(p)))
      /\ Sends(Append(s, Head(p))) \subseteq Sends(s) \cup ({Head(p)} \ {RecvOp})
  BY <1>1, <1>3, AppendSends DEF LineOK, Line
<1>5. Line(k, Append(s, Head(p)), Tail(p), lo, hi)
  BY <1>1, <1>2, <1>4 DEF LineOK, Line, Ahead, Within
<1> QED  BY <1>2, <1>4, <1>5 DEF LineOK

\* An entry leaves the kernel.
LEMMA EntryDone ==
    ASSUME NEW k, NEW s, NEW p, NEW lo, NEW hi, LineOK(k, s, p, lo, hi),
           NEW j \in 1 .. Len(k)
    PROVE  LineOK(Without(k, j), s, p, lo, hi)
<1>1. /\ Without(k, j) \in Seq(Nat) /\ InOrder(Without(k, j))
      /\ Sends(Without(k, j)) \subseteq Sends(k)
  BY WithoutSends DEF LineOK, Line
<1>2. Line(Without(k, j), s, p, lo, hi)
  BY <1>1 DEF LineOK, Line, Ahead, Within
<1> QED  BY <1>1, <1>2 DEF LineOK

\* The oldest send completes: all the others are newer than the one after lo.
LEMMA SendDone ==
    ASSUME NEW k, NEW s, NEW p, NEW lo, NEW hi, LineOK(k, s, p, lo, hi),
           NEW j \in 1 .. Len(k), k[j] # RecvOp,
           \A i \in 1 .. j - 1 : k[i] = RecvOp
    PROVE  LineOK(Without(k, j), s, p, lo + 1, hi)
<1>1. LineOK(Without(k, j), s, p, lo, hi)
  BY EntryDone
<1>2. \A x \in Sends(Without(k, j)) : k[j] < x
  BY WithoutSends DEF LineOK, Line
<1>3. k[j] \in Sends(k) /\ k[j] \in Nat
  BY EntrySend, SendsNat DEF LineOK
<1>4. lo < k[j] /\ k[j] <= hi /\ \A x \in Sends(s) \cup Sends(p) : k[j] < x
  BY <1>3 DEF LineOK, Line, Ahead, Within
<1>5. lo \in Nat /\ hi \in Nat
  BY DEF LineOK
<1>6. lo + 1 \in Nat /\ lo + 1 <= hi /\ \A x \in Nat : k[j] < x => lo + 1 < x
  BY <1>3, <1>4, <1>5, SMT
<1>7. Sends(Without(k, j)) \cup Sends(s) \cup Sends(p) \subseteq Nat
  BY <1>1, SendsNat DEF LineOK
<1>8. Line(Without(k, j), s, p, lo + 1, hi)
  BY <1>1, <1>2, <1>4, <1>6, <1>7 DEF LineOK, Line, Within
<1> QED  BY <1>1, <1>6, <1>8 DEF LineOK

-----------------------------------------------------------------------------
(* The steps.                                                              *)

\* A call of flush_submit, whatever it returns.
LEMMA FlushKeeps ==
    ASSUME NEW q, NEW lo, NEW hi, LineOK(kern, q, pending, lo, hi),
           FlushOk(q) \/ FlushErr(q)
    PROVE  LineOK(kern', sq', pending, lo, hi)
<1>1. LineOK(kern \o q, <<>>, pending, lo, hi)
  BY FlushLine
<1> QED  BY <1>1 DEF FlushOk, FlushErr

\* A step that leaves the buffers alone.
LEMMA LineStep ==
    ASSUME BuffersInv, UNCHANGED <<cfg, nextId, sendInFlight>>,
           completedSends' \in Nat, cqSends' \in Nat,
           cfg.mode = "SqeStream" => pending' = <<>>,
           pc' = "push" => pc = "push",
           LineOK(kern', sq', pending', Freed + (completedSends' + cqSends'), Newest')
    PROVE  BuffersInv'
<1>1. Freed' = Freed
  BY DEF Freed
<1> QED  BY <1>1 DEF BuffersInv

\* reap moves completions; their number is what counts.
LEMMA ReapKeeps ==
    ASSUME BuffersInv, Reap
    PROVE  /\ completedSends' \in Nat /\ cqSends' \in Nat
           /\ completedSends' + cqSends' = completedSends + cqSends
<1>1. completedSends \in Nat /\ cqSends \in Nat
  BY DEF BuffersInv
<1>2. completedSends' = completedSends + cqSends /\ cqSends' = 0
  BY DEF Reap
<1> QED  BY <1>1, <1>2, SMT

\* The line as the invariant has it.
LEMMA InvLine ==
    ASSUME BuffersInv
    PROVE  /\ LineOK(kern, sq, pending, Freed + (completedSends + cqSends), Newest)
           /\ completedSends \in Nat /\ cqSends \in Nat /\ Freed \in Nat
           /\ nextId \in Nat \ {0} /\ Len(sendInFlight) \in Nat
           /\ sendInFlight \in Seq(Buffer)
           /\ Newest = IF pc = "push" THEN nextId - 2 ELSE nextId - 1
  BY LenProperties DEF BuffersInv, Newest

\* Newest where the queue has no call under way, and after one.
LEMMA NewestSteps ==
    ASSUME BuffersInv, nextId' = nextId
    PROVE  /\ pc # "push" /\ pc' # "push" => Newest' = Newest
           /\ pc = "push" /\ pc' = "push" => Newest' = Newest
           /\ pc = "push" /\ pc' # "push" => Newest' = Newest + 1 /\ nextId - 1 = Newest + 1
<1>1. nextId \in Nat
  BY DEF BuffersInv
<1> QED  BY <1>1, SMT DEF Newest

\* submit copies the bytes under the next number and queues it, if it does.
LEMMA SubmitKeeps ==
    ASSUME BuffersInv, NEW bytes \in Payload, Submit(bytes)
    PROVE  BuffersInv'
<1> DEFINE lo == Freed + (completedSends + cqSends)
           e  == [id |-> nextId, bytes |-> bytes]
<1>1. /\ LineOK(kern, sq, pending, lo, Newest) /\ Newest = nextId - 1
      /\ nextId \in Nat \ {0} /\ Len(sendInFlight) \in Nat /\ Freed \in Nat
      /\ sendInFlight \in Seq(Buffer)
  BY InvLine DEF Submit
<1>2. sendInFlight' = Append(sendInFlight, e) /\ nextId' = nextId + 1 /\ e.id = nextId
  BY DEF Submit
<1>3. e \in Buffer
  BY <1>1 DEF Buffer
<1> HIDE DEF e
<1>4. /\ sendInFlight' \in Seq(Buffer) /\ Len(sendInFlight') = Len(sendInFlight) + 1
      /\ \A k \in 1 .. Len(sendInFlight) + 1 :
            sendInFlight'[k] = IF k <= Len(sendInFlight) THEN sendInFlight[k] ELSE e
  BY <1>1, <1>2, <1>3, AppendProperties
<1>5. Freed' = Freed /\ nextId = Freed + (Len(sendInFlight) + 1)
  <2>1. Len(sendInFlight') = Len(sendInFlight) + 1
    BY <1>4
  <2>2. nextId \in Nat /\ Len(sendInFlight) \in Nat
    BY <1>1
  <2> QED  BY <1>2, <2>1, <2>2, SMT DEF Freed
<1>6. ASSUME NEW k \in 1 .. Len(sendInFlight')
      PROVE  sendInFlight'[k].id = Freed' + k
  <2>1. k \in 1 .. Len(sendInFlight) \/ k = Len(sendInFlight) + 1
    <3>1. Len(sendInFlight') = Len(sendInFlight) + 1 /\ Len(sendInFlight) \in Nat
      BY <1>1, <1>4
    <3> QED  BY <3>1, SMT
  <2>2. CASE k \in 1 .. Len(sendInFlight)
    <3>1. k <= Len(sendInFlight)
      BY <2>2, <1>1, SMT
    <3>2. sendInFlight[k].id = Freed + k
      BY <2>2 DEF BuffersInv
    <3> QED  BY <3>1, <3>2, <1>4, <1>5
  <2>3. CASE k = Len(sendInFlight) + 1
    <3>1. ~(k <= Len(sendInFlight))
      BY <2>3, <1>1, SMT
    <3> QED  BY <3>1, <2>3, <1>2, <1>4, <1>5
  <2> QED  BY <2>1, <2>2, <2>3
<1>7. nextId' \in Nat \ {0} /\ nextId = Newest + 1 /\ nextId' - 2 = Newest /\ nextId' - 1 = Newest + 1
  BY <1>1, <1>2, SMT
<1>8. completedSends' = completedSends /\ cqSends' = cqSends /\ kern' = kern /\ sq' = sq
  BY DEF Submit, doneVars, cqVars, ringVars
<1>9. CASE cfg.mode = "SqeStream"
  <2>1. pc' = "push" /\ pending' = pending /\ cfg' = cfg
    BY <1>9 DEF Submit
  <2>2. Newest' = Newest
    BY <2>1, <1>7 DEF Newest
  <2> QED  BY <1>1, <1>4, <1>5, <1>6, <1>7, <1>8, <1>9, <2>1, <2>2 DEF BuffersInv
<1>10. CASE cfg.mode # "SqeStream"
  <2>1. pc' = pc /\ pc = "idle" /\ pending' = Append(pending, nextId) /\ cfg' = cfg
    BY <1>10 DEF Submit
  <2>2. Newest' = Newest + 1
    BY <2>1, <1>7 DEF Newest
  <2>3. LineOK(kern, sq, Append(pending, Newest + 1), lo, Newest + 1)
    BY <1>1, SendPending
  <2> QED  BY <1>1, <1>4, <1>5, <1>6, <1>7, <1>8, <1>10, <2>1, <2>2, <2>3,
            SMTT(30) DEF BuffersInv
<1> QED  BY <1>9, <1>10

\* push_sqe puts the newest send in the queue.
LEMMA PushSendKeeps == ASSUME BuffersInv, PushSend PROVE BuffersInv'
<1> DEFINE lo == Freed + (completedSends + cqSends)
<1>1. LineOK(kern, sq, pending, lo, Newest) /\ pending = <<>>
  BY InvLine DEF BuffersInv, PushSend
<1>2. /\ UNCHANGED <<cfg, nextId, sendInFlight, pending, completedSends, cqSends>>
      /\ pc = "push" /\ pc' = "idle"
  BY DEF PushSend, connVars, doneVars, cqVars
<1>3. Newest' = Newest + 1 /\ nextId - 1 = Newest + 1
  BY <1>2, NewestSteps
<1>4. LineOK(kern, Append(sq, Newest + 1), <<>>, lo, Newest + 1)
  BY <1>1, SendQueued
<1>5. FlushOk(Append(sq, Newest + 1)) \/ FlushErr(Append(sq, Newest + 1))
  BY <1>3 DEF PushSend
<1>6. LineOK(kern', sq', pending, lo, Newest')
  BY <1>1, <1>3, <1>4, <1>5, FlushKeeps
<1> QED  BY <1>1, <1>2, <1>6, LineStep, InvLine

\* A flush of a full queue that fails leaves the queues as they are.
LEMMA RetryErrKeeps ==
    ASSUME BuffersInv, RetryErr
    PROVE  /\ UNCHANGED <<cfg, nextId, sendInFlight, completedSends, cqSends, kern, sq>>
           /\ completedSends' \in Nat /\ cqSends' \in Nat
  BY InvLine DEF RetryErr, FlushErr, connVars, doneVars, cqVars

\* push_sqe fails: the newest send is nowhere, its number stays used.
LEMMA PushErrKeeps == ASSUME BuffersInv, PushErr PROVE BuffersInv'
<1> DEFINE lo == Freed + (completedSends + cqSends)
<1>1. LineOK(kern, sq, pending, lo, Newest)
  BY InvLine
<1>2. /\ UNCHANGED <<cfg, nextId, sendInFlight, completedSends, cqSends, kern, sq>>
      /\ completedSends' \in Nat /\ cqSends' \in Nat
  BY RetryErrKeeps DEF PushErr
<1>3. pc = "push" /\ pc' = "idle" /\ pending' = pending
  BY DEF PushErr
<1>4. Newest' = Newest + 1
  BY <1>2, <1>3, NewestSteps
<1>5. LineOK(kern, sq, pending, lo, Newest + 1)
  BY <1>1, WidenLine
<1>6. LineOK(kern', sq', pending', Freed + (completedSends' + cqSends'), Newest')
  BY <1>2, <1>3, <1>4, <1>5
<1>7. cfg.mode = "SqeStream" => pending' = <<>>
  BY <1>3 DEF BuffersInv
<1> QED  BY <1>2, <1>3, <1>6, <1>7, LineStep

\* drive begins.
LEMMA StartRoundKeeps == ASSUME BuffersInv, StartRound PROVE BuffersInv'
<1>1. /\ UNCHANGED <<cfg, nextId, sendInFlight, completedSends, cqSends, kern, sq, pending>>
      /\ pc = "idle" /\ pc' = "drive"
  BY DEF StartRound, connVars, doneVars, cqVars, ringVars
<1>2. Newest' = Newest
  BY <1>1, NewestSteps
<1>3. LineOK(kern', sq', pending', Freed + (completedSends' + cqSends'), Newest')
  BY <1>1, <1>2, InvLine
<1>4. completedSends' \in Nat /\ cqSends' \in Nat /\ (cfg.mode = "SqeStream" => pending' = <<>>)
  BY <1>1, InvLine DEF BuffersInv
<1> QED  BY <1>1, <1>3, <1>4, LineStep

\* poll_recv queues a recv, which is no send.
LEMMA ArmRecvKeeps == ASSUME BuffersInv, ArmRecv PROVE BuffersInv'
<1> DEFINE lo == Freed + (completedSends + cqSends)
<1>1. /\ UNCHANGED <<cfg, nextId, sendInFlight, completedSends, cqSends, kern, pending>>
      /\ pc = "poll" /\ pc' = "pollDrive"
      /\ sq' = sq \/ sq' = Append(sq, RecvOp)
  BY DEF ArmRecv, doneVars, cqVars
<1>2. Newest' = Newest
  BY <1>1, NewestSteps
<1>3. LineOK(kern, sq, pending, lo, Newest)
  BY InvLine
<1>4. LineOK(kern, Append(sq, RecvOp), pending, lo, Newest)
  BY <1>3, RecvQueued
<1>5. LineOK(kern', sq', pending', Freed + (completedSends' + cqSends'), Newest')
  BY <1>1, <1>2, <1>3, <1>4
<1>6. completedSends' \in Nat /\ cqSends' \in Nat /\ (cfg.mode = "SqeStream" => pending' = <<>>)
  BY <1>1, InvLine DEF BuffersInv
<1> QED  BY <1>1, <1>5, <1>6, LineStep

\* poll_recv returns the error of push_sqe.
LEMMA ArmErrKeeps == ASSUME BuffersInv, ArmErr PROVE BuffersInv'
<1>1. /\ UNCHANGED <<cfg, nextId, sendInFlight, completedSends, cqSends, kern, sq>>
      /\ completedSends' \in Nat /\ cqSends' \in Nat
  BY RetryErrKeeps DEF ArmErr
<1>2. pc = "poll" /\ pc' = "idle" /\ pending' = pending
  BY DEF ArmErr
<1>3. Newest' = Newest
  BY <1>1, <1>2, NewestSteps
<1>4. LineOK(kern', sq', pending', Freed + (completedSends' + cqSends'), Newest')
  BY <1>1, <1>2, <1>3, InvLine
<1>5. cfg.mode = "SqeStream" => pending' = <<>>
  BY <1>2 DEF BuffersInv
<1> QED  BY <1>1, <1>2, <1>4, <1>5, LineStep

\* Something is pending.
LEMMA PendingSome == ASSUME BuffersInv, ToDrain PROVE Len(pending) > 0
<1>1. pending \in Seq(Nat) /\ pending # <<>>
  BY InvLine DEF ToDrain, LineOK
<1> QED  BY <1>1, EmptySeq, LenProperties, SMT

\* drain_pending moves the oldest pending send to the queue.
LEMMA DrainKeeps == ASSUME BuffersInv, Drain PROVE BuffersInv'
<1>1. /\ UNCHANGED <<cfg, nextId, sendInFlight, completedSends, cqSends, kern, pc>>
      /\ sq' = Append(sq, Head(pending)) /\ pending' = Tail(pending)
      /\ pc # "push" /\ cfg.mode = "BatchSyscall"
  BY DEF Drain, Driving, ToDrain, doneVars, cqVars, connVars
<1>2. Newest' = Newest
  BY <1>1, NewestSteps
<1>3. Len(pending) > 0
  BY PendingSome DEF Drain
<1>4. LineOK(kern', sq', pending', Freed + (completedSends' + cqSends'), Newest')
  BY <1>1, <1>2, <1>3, InvLine, DrainLine
<1>5. completedSends' \in Nat /\ cqSends' \in Nat
  BY <1>1, InvLine
<1> QED  BY <1>1, <1>4, <1>5, LineStep

\* drain_pending loses the entry it has popped.
LEMMA DrainErrKeeps == ASSUME BuffersInv, DrainErr PROVE BuffersInv'
<1>1. /\ UNCHANGED <<cfg, nextId, sendInFlight, completedSends, cqSends, kern, sq>>
      /\ completedSends' \in Nat /\ cqSends' \in Nat
  BY RetryErrKeeps DEF DrainErr
<1>2. pending' = Tail(pending) /\ pc # "push" /\ pc' # "push" /\ cfg.mode = "BatchSyscall"
  BY DEF DrainErr, Driving, ToDrain, AfterError
<1>3. Newest' = Newest
  BY <1>1, <1>2, NewestSteps
<1>4. Len(pending) > 0
  BY PendingSome DEF DrainErr
<1>5. LineOK(kern', sq', pending', Freed + (completedSends' + cqSends'), Newest')
  BY <1>1, <1>2, <1>3, <1>4, InvLine, DropLine
<1> QED  BY <1>1, <1>2, <1>5, LineStep

\* A full queue is flushed and its completions reaped.
LEMMA SpinFullKeeps == ASSUME BuffersInv, SpinFull PROVE BuffersInv'
<1>1. UNCHANGED <<cfg, nextId, sendInFlight, pending, pc>> /\ FlushOk(sq) /\ Reap
  BY DEF SpinFull, Retry, callerVars, connVars
<1>2. Newest' = Newest
  BY <1>1, NewestSteps
<1>3. LineOK(kern', sq', pending, Freed + (completedSends + cqSends), Newest)
  BY <1>1, InvLine, FlushKeeps
<1>4. /\ completedSends' \in Nat /\ cqSends' \in Nat
      /\ completedSends' + cqSends' = completedSends + cqSends
  BY <1>1, ReapKeeps
<1>5. cfg.mode = "SqeStream" => pending' = <<>>
  BY <1>1 DEF BuffersInv
<1> QED  BY <1>1, <1>2, <1>3, <1>4, <1>5, LineStep

\* flush_submit, then reap, which counts completions.
LEMMA DriveInnerKeeps == ASSUME BuffersInv, DriveInner PROVE BuffersInv'
<1>1. /\ UNCHANGED <<cfg, nextId, sendInFlight, pending>>
      /\ FlushOk(sq) \/ FlushErr(sq)
      /\ Reap \/ UNCHANGED <<completedSends, cqSends>>
      /\ pc # "push" /\ pc' # "push"
  BY DEF DriveInner, Driving, AfterDrive, AfterError, connVars, doneVars, cqVars
<1>2. Newest' = Newest
  BY <1>1, NewestSteps
<1>3. LineOK(kern', sq', pending, Freed + (completedSends + cqSends), Newest)
  BY <1>1, InvLine, FlushKeeps
<1>4. /\ completedSends' \in Nat /\ cqSends' \in Nat
      /\ completedSends' + cqSends' = completedSends + cqSends
  BY <1>1, ReapKeeps, InvLine
<1>5. cfg.mode = "SqeStream" => pending' = <<>>
  BY <1>1 DEF BuffersInv
<1> QED  BY <1>1, <1>2, <1>3, <1>4, <1>5, LineStep

\* The sends whose completion was reaped are among the buffers that are left.
LEMMA CollectKeeps == ASSUME BuffersInv, Collect PROVE BuffersInv'
<1> DEFINE n == Len(sendInFlight)
           c == completedSends
<1>1. /\ LineOK(kern, sq, pending, Freed + (c + cqSends), Newest)
      /\ c \in Nat /\ cqSends \in Nat /\ Freed \in Nat
      /\ nextId \in Nat \ {0} /\ n \in Nat /\ sendInFlight \in Seq(Buffer)
      /\ Newest = nextId - 1
  BY InvLine DEF Collect
<1>2. Freed + (c + cqSends) <= nextId - 1 /\ Freed = nextId - 1 - n
  BY <1>1 DEF LineOK, Freed
<1>3. c <= n
  <2>1. nextId \in Nat /\ n \in Nat /\ c \in Nat /\ cqSends \in Nat /\ Freed \in Nat
    BY <1>1
  <2> HIDE DEF n, c
  <2> QED  BY <1>2, <2>1, SMT
<1>4. /\ UNCHANGED <<cfg, nextId, pending, cqSends, kern, sq>>
      /\ sendInFlight' = SubSeq(sendInFlight, c + 1, n)
      /\ completedSends' = 0 /\ pc = "collect" /\ pc' = "idle"
  BY DEF Collect, cqVars, ringVars
<1>5. /\ sendInFlight' \in Seq(Buffer) /\ Len(sendInFlight') = n - c
      /\ \A k \in 1 .. n - c : sendInFlight'[k] = sendInFlight[c + k]
  <2>1. /\ SubSeq(sendInFlight, c + 1, n) \in Seq(Buffer)
        /\ Len(SubSeq(sendInFlight, c + 1, n)) = n - c
    BY <1>1, <1>3, SMT
  <2>2. \A k \in 1 .. n - c : SubSeq(sendInFlight, c + 1, n)[k] = sendInFlight[c + k]
    BY <1>1, <1>3, SMT
  <2> QED  BY <2>1, <2>2, <1>4
<1>6. Freed' = Freed + c
  <2>1. nextId \in Nat /\ n \in Nat /\ c \in Nat
    BY <1>1
  <2>2. Len(sendInFlight') = n - c
    BY <1>5
  <2>3. Freed' = nextId - 1 - (n - c) /\ Freed = nextId - 1 - n
    BY <1>4, <2>2 DEF Freed
  <2> HIDE DEF n, c
  <2> QED  BY <2>1, <2>3, SMT
<1>7. Freed' \in Nat /\ Freed' + (0 + cqSends) = Freed + (c + cqSends)
  <2>1. c \in Nat /\ Freed \in Nat /\ cqSends \in Nat
    BY <1>1
  <2> HIDE DEF c
  <2> QED  BY <1>6, <2>1, SMT
<1>8. ASSUME NEW k \in 1 .. Len(sendInFlight')
      PROVE  sendInFlight'[k].id = Freed' + k
  <2>1. c + k \in 1 .. n /\ Freed + (c + k) = Freed' + k
    <3>1. n \in Nat /\ c \in Nat /\ Freed \in Nat /\ k \in 1 .. n - c
      BY <1>1, <1>5
    <3> HIDE DEF n, c
    <3> QED  BY <3>1, <1>6, SMT
  <2>2. sendInFlight[c + k].id = Freed + (c + k)
    BY <2>1 DEF BuffersInv
  <2> QED  BY <2>1, <2>2, <1>5
<1>9. Newest' = Newest
  BY <1>4, NewestSteps
<1>10. cfg.mode = "SqeStream" => pending' = <<>>
  BY <1>4 DEF BuffersInv
<1>11. Freed' + completedSends' + cqSends' = Freed + (c + cqSends)
  <2>1. Freed' + 0 + cqSends = Freed' + (0 + cqSends)
    BY <1>7, <1>1, SMT
  <2> QED  BY <2>1, <1>4, <1>7
<1>12. LineOK(kern', sq', pending', Freed' + completedSends' + cqSends', Newest')
  BY <1>1, <1>4, <1>9, <1>11
<1> QED  BY <1>1, <1>4, <1>5, <1>7, <1>8, <1>10, <1>12 DEF BuffersInv

\* The kernel takes and completes sends in order.
LEMMA KernelKeeps == ASSUME BuffersInv, Kernel PROVE BuffersInv'
<1> DEFINE lo == Freed + (completedSends + cqSends)
<1>1. /\ LineOK(kern, sq, pending, lo, Newest) /\ kern \in Seq(Nat)
      /\ completedSends \in Nat /\ cqSends \in Nat /\ Freed \in Nat
  BY InvLine DEF LineOK
<1>2. UNCHANGED <<cfg, nextId, pending, pc, completedSends, sendInFlight>>
  BY DEF Kernel, KernelSend, KernelRecv, KernelPoll, KernelSleep, callerVars, doneVars, connVars
<1>3. Newest' = Newest
  BY <1>2, NewestSteps
<1>4. cfg.mode = "SqeStream" => pending' = <<>>
  BY <1>2 DEF BuffersInv
<1>5. CASE KernelSend
  <2>1. PICK j \in DOMAIN kern :
           /\ kern[j] # RecvOp /\ \A i \in 1 .. j - 1 : kern[i] = RecvOp
           /\ kern' = Without(kern, j) /\ cqSends' = cqSends + 1 /\ sq' = sq
    BY <1>5 DEF KernelSend
  <2>2. j \in 1 .. Len(kern)
    BY <1>1, LenProperties
  <2>3. LineOK(kern', sq', pending', lo + 1, Newest')
    BY <1>1, <1>2, <1>3, <2>1, <2>2, SendDone
  <2>4. cqSends' \in Nat /\ Freed + (completedSends' + cqSends') = lo + 1
    BY <1>1, <1>2, <2>1, SMT
  <2> QED  BY <1>1, <1>2, <1>4, <2>3, <2>4, LineStep
<1>6. CASE KernelRecv
  <2>1. PICK j \in DOMAIN kern :
           kern' = Without(kern, j) /\ cqSends' = cqSends /\ sq' = sq
    BY <1>6 DEF KernelRecv
  <2>2. j \in 1 .. Len(kern)
    BY <1>1, LenProperties
  <2>3. LineOK(kern', sq', pending', lo, Newest')
    BY <1>1, <1>2, <1>3, <2>1, <2>2, EntryDone
  <2> QED  BY <1>1, <1>2, <1>4, <2>1, <2>3, LineStep
<1>7. CASE KernelPoll
  <2>1. kern' = kern \o sq /\ sq' = <<>> /\ cqSends' = cqSends
    BY <1>7 DEF KernelPoll, cqVars
  <2>2. LineOK(kern', sq', pending', lo, Newest')
    BY <1>1, <1>2, <1>3, <2>1, FlushLine
  <2> QED  BY <1>1, <1>2, <1>4, <2>1, <2>2, LineStep
<1>8. CASE KernelSleep
  <2>1. kern' = kern /\ sq' = sq /\ cqSends' = cqSends
    BY <1>8 DEF KernelSleep, cqVars
  <2> QED  BY <1>1, <1>2, <1>3, <1>4, <2>1, LineStep
<1> QED  BY <1>5, <1>6, <1>7, <1>8 DEF Kernel

-----------------------------------------------------------------------------

\* The invariant holds at the start,
LEMMA BuffersInit == UringInit => BuffersInv
<1> SUFFICES ASSUME UringInit PROVE BuffersInv
  OBVIOUS
<1>1. /\ pc = "idle" /\ nextId = 1 /\ pending = <<>> /\ completedSends = 0
      /\ sendInFlight = <<>> /\ sq = <<>> /\ kern = <<>> /\ cqSends = 0
  BY DEF UringInit
<1>2. Len(sendInFlight) = 0 /\ sendInFlight \in Seq(Buffer) /\ 1 .. 0 = {}
  BY <1>1, SMT
<1>3. Freed = 0 /\ Newest = 0
  <2>1. nextId = 1 /\ Len(sendInFlight) = 0 /\ pc = "idle"
    BY <1>1, <1>2
  <2>2. Freed = 1 - 1 - 0 /\ Newest = 1 - 1
    BY <2>1 DEF Freed, Newest
  <2> QED  BY <2>2, SMT
<1>4. LineOK(<<>>, <<>>, <<>>, 0, 0)
  BY EmptyEntries DEF LineOK, Line, Ahead, Within
<1>5. Freed + completedSends + cqSends = 0
  BY <1>1, <1>3, SMT
<1> QED  BY <1>1, <1>2, <1>3, <1>4, <1>5 DEF BuffersInv

\* and every step keeps it.
LEMMA BuffersNext == BuffersInv /\ [UringNext]_uringVars => BuffersInv'
<1> SUFFICES ASSUME BuffersInv, [UringNext]_uringVars PROVE BuffersInv'
  OBVIOUS
<1>1. ASSUME NEW bytes \in Payload, Submit(bytes) PROVE BuffersInv'
  BY <1>1, SubmitKeeps
<1>2. CASE Round
  BY <1>2, PushSendKeeps, PushErrKeeps, StartRoundKeeps, ArmRecvKeeps, ArmErrKeeps,
     DrainKeeps, DrainErrKeeps, SpinFullKeeps, DriveInnerKeeps, CollectKeeps DEF Round
<1>3. CASE Kernel
  BY <1>3, KernelKeeps
<1>4. CASE UNCHANGED uringVars
  BY <1>4 DEF BuffersInv, Freed, Newest, LineOK, uringVars, callerVars, doneVars, connVars,
     ringVars, cqVars
<1> QED  BY <1>1, <1>2, <1>3, <1>4 DEF UringNext

\* What the invariant says of the sends that are still under way.
LEMMA BuffersEnough == BuffersInv => BuffersAlive
<1> SUFFICES ASSUME BuffersInv, NEW i \in 1 .. nextId - 1, Exposed(i) PROVE Held(i)
  BY DEF BuffersAlive
<1> DEFINE lo == Freed + (completedSends + cqSends)
<1>1. /\ LineOK(kern, sq, pending, lo, Newest)
      /\ completedSends \in Nat /\ cqSends \in Nat /\ Freed \in Nat
      /\ nextId \in Nat \ {0} /\ Len(sendInFlight) \in Nat
      /\ Newest = IF pc = "push" THEN nextId - 2 ELSE nextId - 1
  BY InvLine
<1>2. Freed = nextId - 1 - Len(sendInFlight)
  BY DEF Freed
<1>3. i # RecvOp /\ i \in Nat
  BY <1>1, SMT DEF RecvOp
<1>4. lo < i
  <2>1. CASE i \in Sends(kern) \cup Sends(sq) \cup Sends(pending)
    BY <2>1, <1>1 DEF LineOK, Line, Within
  <2>2. CASE pc = "push" /\ i = nextId - 1
    <3>1. lo <= nextId - 2 /\ lo \in Nat
      BY <1>1, <2>2 DEF LineOK
    <3> HIDE DEF lo
    <3> QED  BY <3>1, <2>2, <1>1, SMT
  <2> QED  BY <2>1, <2>2, <1>3 DEF Exposed, Sends
<1>5. i - Freed \in 1 .. Len(sendInFlight) /\ Freed + (i - Freed) = i
  BY <1>1, <1>2, <1>3, <1>4, SMT
<1>6. sendInFlight[i - Freed].id = Freed + (i - Freed)
  BY <1>5 DEF BuffersInv
<1> QED  BY <1>5, <1>6 DEF Held

(* reclaim_sends never frees a buffer the kernel has still to read, for    *)
(* any payloads, size of the ring, mode, use of sqpoll, and any number of  *)
(* submits, failed io_uring_enter calls and failed or partial sends.       *)
THEOREM BuffersCorrect == UringSpec => []BuffersAlive
<1>1. UringSpec => []BuffersInv
  BY BuffersInit, BuffersNext, PTL DEF UringSpec
<1> QED  BY <1>1, BuffersEnough, PTL

-----------------------------------------------------------------------------
(* What poll_recv returns.                                                 *)

\* Among the entries s there is no recv; at most one recv.
NoRecv(s)  == \A a \in 1 .. Len(s) : s[a] # RecvOp
OneRecv(s) == \A a, b \in 1 .. Len(s) : s[a] = RecvOp /\ s[b] = RecvOp => a = b

\* In the kernel and in the submission queue together there is none; one.
NoneOut(k, s) == k \in Seq(Nat) /\ s \in Seq(Nat) /\ NoRecv(k) /\ NoRecv(s)
OneOut(k, s) ==
    /\ k \in Seq(Nat) /\ s \in Seq(Nat)
    /\ OneRecv(k) /\ OneRecv(s) /\ (NoRecv(k) \/ NoRecv(s))

\* Every chunk has been returned; with result r, one more is in rx_buf if r
\* says so.
AllRead == chunks = Len(got)
Unread(r) ==
    IF r = "data" THEN chunks = Len(got) + 1 /\ rxBuf = chunks ELSE AllRead

(* The inductive invariant behind ReadsExact: a recv is unarmed, or in one *)
(* place of its way from the submission queue through the kernel and the   *)
(* completion queue to completed_recvs; the next is not armed before.      *)
RecvInv ==
    /\ nextId \in Nat \ {0} /\ (pc = "push" => nextId > 1)
    /\ pending \in Seq(Nat \ {0})
    /\ got \in Seq(Nat) /\ chunks \in Nat /\ recvInFlight \in BOOLEAN
    /\ \A k \in 1 .. Len(got) : got[k] = k
    /\ \/ /\ ~recvInFlight /\ NoneOut(kern, sq)
          /\ cqRecvs = <<>> /\ completedRecv = <<>> /\ AllRead
       \/ /\ recvInFlight /\ OneOut(kern, sq)
          /\ cqRecvs = <<>> /\ completedRecv = <<>> /\ AllRead
       \/ \E r \in Result :
          /\ recvInFlight /\ NoneOut(kern, sq)
          /\ \/ cqRecvs = <<r>> /\ completedRecv = <<>>
             \/ cqRecvs = <<>> /\ completedRecv = <<r>>
          /\ Unread(r)

\* A flush keeps the number of recvs that are out.
LEMMA FlushOut ==
    ASSUME NEW k, NEW s
    PROVE  /\ NoneOut(k, s) => NoneOut(k \o s, <<>>)
           /\ OneOut(k, s) => OneOut(k \o s, <<>>)
<1> SUFFICES ASSUME k \in Seq(Nat), s \in Seq(Nat)
             PROVE  /\ NoneOut(k, s) => NoneOut(k \o s, <<>>)
                    /\ OneOut(k, s) => OneOut(k \o s, <<>>)
  BY DEF NoneOut, OneOut
<1> DEFINE t == k \o s
<1>1. t \in Seq(Nat) /\ Len(t) = Len(k) + Len(s)
        /\ \A a \in 1 .. Len(k) + Len(s) :
              t[a] = IF a <= Len(k) THEN k[a] ELSE s[a - Len(k)]
  BY ConcatEntries
<1>2. Len(k) \in Nat /\ Len(s) \in Nat
  BY SendsNat
<1>3. <<>> \in Seq(Nat) /\ NoRecv(<<>>) /\ OneRecv(<<>>)
  <2>1. <<>> \in Seq(Nat) /\ 1 .. Len(<<>>) = {}
    BY SMT
  <2> QED  BY <2>1 DEF NoRecv, OneRecv
<1> HIDE DEF t
<1>4. ASSUME NEW a \in 1 .. Len(t)
      PROVE  \/ a \in 1 .. Len(k) /\ t[a] = k[a]
             \/ a - Len(k) \in 1 .. Len(s) /\ t[a] = s[a - Len(k)]
  <2>1. \/ a \in 1 .. Len(k) /\ a <= Len(k)
        \/ a - Len(k) \in 1 .. Len(s) /\ ~(a <= Len(k))
    <3>1. Len(t) = Len(k) + Len(s)
      BY <1>1
    <3> QED  BY <3>1, <1>2, SMT
  <2> QED  BY <1>1, <2>1
<1>5. NoneOut(k, s) => NoneOut(t, <<>>)
  BY <1>1, <1>3, <1>4 DEF NoneOut, NoRecv
<1>6. ASSUME OneOut(k, s), NEW a \in 1 .. Len(t), NEW b \in 1 .. Len(t),
             t[a] = RecvOp, t[b] = RecvOp
      PROVE  a = b
  <2>1. CASE NoRecv(k)
    <3>1. a - Len(k) = b - Len(k)
      BY <1>4, <1>6, <2>1 DEF OneOut, NoRecv, OneRecv
    <3>2. a \in Int /\ b \in Int
      BY <1>1, <1>2, SMT
    <3> QED  BY <3>1, <3>2, <1>2, SMT
  <2>2. CASE NoRecv(s)
    BY <1>4, <1>6, <2>2 DEF OneOut, NoRecv, OneRecv
  <2> QED  BY <1>6, <2>1, <2>2 DEF OneOut
<1>7. OneOut(k, s) => OneOut(t, <<>>)
  BY <1>1, <1>3, <1>6 DEF OneOut, OneRecv
<1> QED  BY <1>5, <1>7 DEF t

\* A send in the submission queue does not add to them; a recv is one.
LEMMA AppendOut ==
    ASSUME NEW k, NEW s, NEW e \in Nat
    PROVE  /\ NoneOut(k, s) /\ e # RecvOp => NoneOut(k, Append(s, e))
           /\ OneOut(k, s) /\ e # RecvOp => OneOut(k, Append(s, e))
           /\ NoneOut(k, s) => OneOut(k, Append(s, e))
<1> SUFFICES ASSUME k \in Seq(Nat), s \in Seq(Nat)
             PROVE  /\ NoneOut(k, s) /\ e # RecvOp => NoneOut(k, Append(s, e))
                    /\ OneOut(k, s) /\ e # RecvOp => OneOut(k, Append(s, e))
                    /\ NoneOut(k, s) => OneOut(k, Append(s, e))
  BY DEF NoneOut, OneOut
<1> DEFINE t == Append(s, e)
<1>1. t \in Seq(Nat) /\ Len(t) = Len(s) + 1
        /\ \A a \in 1 .. Len(s) + 1 : t[a] = IF a = Len(s) + 1 THEN e ELSE s[a]
  BY AppendEntry
<1>2. Len(s) \in Nat
  BY SendsNat
<1> HIDE DEF t
<1>3. ASSUME NEW a \in 1 .. Len(t)
      PROVE  (a \in 1 .. Len(s) /\ t[a] = s[a]) \/ (a = Len(s) + 1 /\ t[a] = e)
  <2>1. (a \in 1 .. Len(s) /\ a # Len(s) + 1) \/ a = Len(s) + 1
    <3>1. Len(t) = Len(s) + 1
      BY <1>1
    <3> QED  BY <3>1, <1>2, SMT
  <2> QED  BY <1>1, <2>1
<1> QED  BY <1>1, <1>3 DEF NoneOut, OneOut, NoRecv, OneRecv, t

\* A completion takes one entry away; if it was the recv, none is left.
LEMMA WithoutOut ==
    ASSUME NEW k, NEW s, k \in Seq(Nat), NEW j \in 1 .. Len(k)
    PROVE  /\ NoneOut(k, s) => NoneOut(Without(k, j), s)
           /\ OneOut(k, s) => OneOut(Without(k, j), s)
           /\ OneOut(k, s) /\ k[j] = RecvOp => NoneOut(Without(k, j), s)
           /\ k[j] = RecvOp => ~NoneOut(k, s)
<1> DEFINE t == Without(k, j)
           at(a) == IF a < j THEN a ELSE a + 1
<1>1. t \in Seq(Nat) /\ Len(t) = Len(k) - 1
        /\ \A a \in 1 .. Len(k) - 1 : t[a] = IF a < j THEN k[a] ELSE k[a + 1]
  BY WithoutProperties
<1>2. Len(k) \in Nat
  BY SendsNat
<1> HIDE DEF t
<1>3. \A a \in 1 .. Len(t) : at(a) \in 1 .. Len(k) /\ at(a) # j
  <2>1. Len(t) = Len(k) - 1
    BY <1>1
  <2> QED  BY <2>1, <1>2, SMT
<1>4. \A a, b \in 1 .. Len(t) : at(a) = at(b) => a = b
  <2>1. Len(t) \in Int
    BY <1>1, <1>2, SMT
  <2> QED  BY <2>1, <1>2, SMT
<1>5. \A a \in 1 .. Len(t) : t[a] = k[at(a)]
  BY <1>1
<1> HIDE DEF at
<1>6. NoRecv(k) => NoRecv(t)
  BY <1>3, <1>5 DEF NoRecv
<1>7. OneRecv(k) => OneRecv(t)
  BY <1>3, <1>4, <1>5 DEF OneRecv
<1>8. OneRecv(k) /\ k[j] = RecvOp => NoRecv(t)
  BY <1>3, <1>5 DEF OneRecv, NoRecv
<1>9. k[j] = RecvOp => ~NoRecv(k)
  BY DEF NoRecv
<1> QED  BY <1>1, <1>6, <1>7, <1>8, <1>9 DEF NoneOut, OneOut, t

\* A step that leaves the recv where it is, or only reaps it.
LEMMA RecvStep ==
    ASSUME RecvInv,
           UNCHANGED <<recvInFlight, rxBuf, got, chunks>>,
           Reap \/ UNCHANGED <<completedRecv, cqRecvs>>,
           NoneOut(kern, sq) => NoneOut(kern', sq'),
           OneOut(kern, sq) => OneOut(kern', sq'),
           nextId' \in Nat \ {0}, pc' = "push" => nextId' > 1,
           pending' \in Seq(Nat \ {0})
    PROVE  RecvInv'
<1>1. AllRead' = AllRead /\ \A r : Unread(r)' = Unread(r)
  BY DEF AllRead, Unread
<1>2. cqRecvs = <<>> => UNCHANGED <<completedRecv, cqRecvs>>
  BY DEF Reap
<1>3. \A r : cqRecvs = <<r>> =>
         UNCHANGED <<completedRecv, cqRecvs>> \/ (completedRecv' = <<r>> /\ cqRecvs' = <<>>)
  <2>1. \A r : <<r>> # <<>> /\ Len(<<r>>) = 1 /\ <<r>>[1] = r
    BY SMT
  <2> QED  BY <2>1 DEF Reap
<1>4. /\ got' \in Seq(Nat) /\ chunks' \in Nat /\ recvInFlight' \in BOOLEAN
      /\ \A k \in 1 .. Len(got') : got'[k] = k
  BY DEF RecvInv
<1>5. CASE ~recvInFlight
  BY <1>1, <1>2, <1>4, <1>5 DEF RecvInv
<1>6. CASE /\ recvInFlight /\ OneOut(kern, sq)
           /\ cqRecvs = <<>> /\ completedRecv = <<>> /\ AllRead
  BY <1>1, <1>2, <1>4, <1>6 DEF RecvInv
<1>7. ASSUME NEW r \in Result, recvInFlight, NoneOut(kern, sq), Unread(r),
             \/ cqRecvs = <<r>> /\ completedRecv = <<>>
             \/ cqRecvs = <<>> /\ completedRecv = <<r>>
      PROVE  RecvInv'
  <2>1. /\ recvInFlight' /\ NoneOut(kern', sq') /\ Unread(r)'
        /\ \/ cqRecvs' = <<r>> /\ completedRecv' = <<>>
           \/ cqRecvs' = <<>> /\ completedRecv' = <<r>>
    BY <1>1, <1>2, <1>3, <1>7
  <2> QED  BY <1>4, <2>1 DEF RecvInv
<1> QED  BY <1>5, <1>6, <1>7 DEF RecvInv

\* flush_submit of the submission queue with a send added, or of none.
LEMMA FlushRecv ==
    ASSUME NEW q, FlushOk(q) \/ FlushErr(q),
           NoneOut(kern, sq) => NoneOut(kern, q), OneOut(kern, sq) => OneOut(kern, q)
    PROVE  /\ NoneOut(kern, sq) => NoneOut(kern', sq')
           /\ OneOut(kern, sq) => OneOut(kern', sq')
  BY FlushOut DEF FlushOk, FlushErr

\* submit leaves the recv alone.
LEMMA SubmitRecv ==
    ASSUME RecvInv, NEW bytes \in Payload, Submit(bytes) PROVE RecvInv'
<1>1. /\ UNCHANGED <<recvInFlight, rxBuf, got, chunks, completedRecv, cqRecvs, kern, sq>>
      /\ nextId' = nextId + 1 /\ nextId \in Nat \ {0} /\ pending \in Seq(Nat \ {0})
      /\ pending' = pending \/ pending' = Append(pending, nextId)
  BY DEF Submit, RecvInv, doneVars, ringVars, cqVars, peerVars
<1>2. nextId' \in Nat \ {0} /\ nextId' > 1
  BY <1>1, SMT
<1>3. pending' \in Seq(Nat \ {0})
  BY <1>1, SMT
<1> QED  BY <1>1, <1>2, <1>3, RecvStep

\* push_sqe of a send puts no recv anywhere.
LEMMA PushSendRecv == ASSUME RecvInv, PushSend PROVE RecvInv'
<1>1. /\ UNCHANGED <<recvInFlight, rxBuf, got, chunks, completedRecv, cqRecvs, nextId, pending>>
      /\ pc = "push" /\ pc' = "idle"
      /\ FlushOk(Append(sq, nextId - 1)) \/ FlushErr(Append(sq, nextId - 1))
  BY DEF PushSend, connVars, doneVars, cqVars, peerVars
<1>2. nextId \in Nat \ {0} /\ nextId > 1 /\ pending \in Seq(Nat \ {0})
  BY <1>1 DEF RecvInv
<1>3. nextId - 1 \in Nat /\ nextId - 1 # RecvOp
  BY <1>2, SMT DEF RecvOp
<1>4. /\ NoneOut(kern, sq) => NoneOut(kern', sq')
      /\ OneOut(kern, sq) => OneOut(kern', sq')
  BY <1>1, <1>3, AppendOut, FlushRecv
<1> QED  BY <1>1, <1>2, <1>4, RecvStep

\* A call that returns the error of io_uring_enter leaves the queues alone.
LEMMA RetryErrRecv ==
    ASSUME RecvInv, RetryErr, pc' # "push", pending' \in Seq(Nat \ {0}) PROVE RecvInv'
<1>1. UNCHANGED <<recvInFlight, rxBuf, got, chunks, completedRecv, cqRecvs, nextId, kern, sq>>
  BY DEF RetryErr, FlushErr, connVars, doneVars, cqVars, peerVars
<1>2. nextId \in Nat \ {0}
  BY DEF RecvInv
<1> QED  BY <1>1, <1>2, RecvStep

\* Something is pending, and it is a send.
LEMMA PendingSend ==
    ASSUME RecvInv, ToDrain
    PROVE  /\ Head(pending) \in Nat /\ Head(pending) # RecvOp
           /\ Tail(pending) \in Seq(Nat \ {0})
<1>1. pending \in Seq(Nat \ {0}) /\ pending # <<>>
  BY DEF RecvInv, ToDrain
<1>2. Head(pending) \in Nat \ {0} /\ Tail(pending) \in Seq(Nat \ {0})
  BY <1>1, HeadTailProperties
<1> QED  BY <1>2 DEF RecvOp

\* The recv is armed only when none is out, and every chunk has been read.
LEMMA ArmRecvRecv == ASSUME RecvInv, ArmRecv PROVE RecvInv'
<1>1. /\ UNCHANGED <<rxBuf, got, chunks, completedRecv, cqRecvs, nextId, pending, kern>>
      /\ pc' = "pollDrive"
  BY DEF ArmRecv, doneVars, cqVars, peerVars
<1>2. nextId \in Nat \ {0} /\ pending \in Seq(Nat \ {0})
  BY DEF RecvInv
<1>3. CASE recvInFlight
  <2>1. UNCHANGED <<recvInFlight, sq>>
    BY <1>3 DEF ArmRecv
  <2> QED  BY <1>1, <1>2, <2>1, RecvStep
<1>4. CASE ~recvInFlight
  <2>1. sq' = Append(sq, RecvOp) /\ recvInFlight' = TRUE
    BY <1>4 DEF ArmRecv
  <2>2. NoneOut(kern, sq) /\ cqRecvs = <<>> /\ completedRecv = <<>> /\ AllRead
    BY <1>4 DEF RecvInv
  <2>3. OneOut(kern', sq')
    <3>1. RecvOp \in Nat
      BY SMT DEF RecvOp
    <3> QED  BY <1>1, <2>1, <2>2, <3>1, AppendOut
  <2>4. AllRead' /\ cqRecvs' = <<>> /\ completedRecv' = <<>>
    BY <1>1, <2>2 DEF AllRead
  <2>5. got' \in Seq(Nat) /\ chunks' \in Nat /\ \A k \in 1 .. Len(got') : got'[k] = k
    BY <1>1 DEF RecvInv
  <2> QED  BY <1>1, <1>2, <2>1, <2>3, <2>4, <2>5 DEF RecvInv
<1> QED  BY <1>3, <1>4

\* The rest of drive_inner: drain_pending, flush_submit and reap.
LEMMA DriveRecv ==
    ASSUME RecvInv, Drain \/ DrainErr \/ SpinFull \/ DriveInner PROVE RecvInv'
<1>0. nextId \in Nat \ {0} /\ pending \in Seq(Nat \ {0}) /\ (pc = "push" => nextId > 1)
  BY DEF RecvInv
<1>1. CASE Drain
  <2>1. /\ UNCHANGED <<recvInFlight, rxBuf, got, chunks, completedRecv, cqRecvs, nextId, kern, pc>>
        /\ sq' = Append(sq, Head(pending)) /\ pending' = Tail(pending) /\ ToDrain
    BY <1>1 DEF Drain, connVars, doneVars, cqVars, peerVars
  <2>2. /\ NoneOut(kern, sq) => NoneOut(kern', sq')
        /\ OneOut(kern, sq) => OneOut(kern', sq')
    BY <2>1, PendingSend, AppendOut
  <2> QED  BY <1>0, <2>1, <2>2, PendingSend, RecvStep
<1>2. CASE DrainErr
  <2>1. pc' # "push" /\ pending' = Tail(pending) /\ ToDrain /\ RetryErr
    BY <1>2 DEF DrainErr, AfterError
  <2> QED  BY <2>1, PendingSend, RetryErrRecv
<1>3. CASE SpinFull
  <2>1. /\ UNCHANGED <<recvInFlight, rxBuf, got, chunks, nextId, pending, pc>>
        /\ FlushOk(sq) /\ Reap
    BY <1>3 DEF SpinFull, Retry, callerVars, connVars, peerVars
  <2> QED  BY <1>0, <2>1, FlushRecv, RecvStep
<1>4. CASE DriveInner
  <2>1. /\ UNCHANGED <<recvInFlight, rxBuf, got, chunks, nextId, pending>>
        /\ FlushOk(sq) \/ FlushErr(sq)
        /\ Reap \/ UNCHANGED <<completedRecv, cqRecvs>>
        /\ pc' # "push"
    BY <1>4 DEF DriveInner, AfterDrive, AfterError, connVars, peerVars, doneVars, cqVars
  <2> QED  BY <1>0, <2>1, FlushRecv, RecvStep
<1> QED  BY <1>1, <1>2, <1>3, <1>4

\* poll_recv copies rx_buf while it holds the chunk after the last one read.
LEMMA CollectRecv == ASSUME RecvInv, Collect PROVE RecvInv'
<1>1. /\ UNCHANGED <<nextId, pending, kern, sq, cqRecvs, chunks, rxBuf>>
      /\ pc' = "idle" /\ completedRecv' = <<>>
      /\ recvInFlight' = (recvInFlight /\ completedRecv = <<>>)
      /\ got' = IF completedRecv = <<"data">> THEN Append(got, rxBuf) ELSE got
  BY DEF Collect, ringVars, cqVars, peerVars
<1>2. /\ nextId \in Nat \ {0} /\ pending \in Seq(Nat \ {0})
      /\ got \in Seq(Nat) /\ chunks \in Nat /\ \A k \in 1 .. Len(got) : got[k] = k
  BY DEF RecvInv
<1>3. <<>> # <<"data">> /\ \A r : <<r>> # <<>> /\ (<<r>> = <<"data">> => r = "data")
  BY SMT
<1>4. CASE completedRecv = <<>>
  <2>1. UNCHANGED <<got, completedRecv>>
    BY <1>1, <1>3, <1>4
  <2>2. recvInFlight' = recvInFlight
    BY <1>1, <1>4 DEF RecvInv
  <2> QED  BY <1>1, <1>2, <2>1, <2>2, RecvStep
<1>5. ASSUME NEW r \in Result, NoneOut(kern, sq), cqRecvs = <<>>,
             completedRecv = <<r>>, Unread(r)
      PROVE  RecvInv'
  <2>1. recvInFlight' = FALSE /\ NoneOut(kern', sq') /\ cqRecvs' = <<>>
    BY <1>1, <1>3, <1>5
  <2>2. got' \in Seq(Nat) /\ AllRead' /\ \A k \in 1 .. Len(got') : got'[k] = k
    <3>1. CASE r = "data"
      <4>1. got' = Append(got, rxBuf) /\ rxBuf = Len(got) + 1 /\ chunks = Len(got) + 1
        BY <1>1, <1>5, <3>1 DEF Unread
      <4>2. Len(got) \in Nat /\ rxBuf \in Nat
        BY <1>2, <4>1, SendsNat, SMT
      <4>3. /\ Append(got, rxBuf) \in Seq(Nat) /\ Len(Append(got, rxBuf)) = Len(got) + 1
            /\ \A a \in 1 .. Len(got) + 1 :
                  Append(got, rxBuf)[a] = IF a = Len(got) + 1 THEN rxBuf ELSE got[a]
        BY <1>2, <4>2, AppendEntry
      <4>4. \A a \in 1 .. Len(got) + 1 : a = Len(got) + 1 \/ a \in 1 .. Len(got)
        BY <4>2, SMT
      <4>5. \A a \in 1 .. Len(got) + 1 : Append(got, rxBuf)[a] = a
        BY <1>2, <4>1, <4>3, <4>4
      <4> QED  BY <1>1, <4>1, <4>3, <4>5 DEF AllRead
    <3>2. CASE r # "data"
      <4>1. got' = got /\ AllRead
        BY <1>1, <1>3, <1>5, <3>2 DEF Unread
      <4> QED  BY <1>1, <1>2, <4>1 DEF AllRead
    <3> QED  BY <3>1, <3>2
  <2> QED  BY <1>1, <1>2, <2>1, <2>2 DEF RecvInv
<1> QED  BY <1>4, <1>5 DEF RecvInv

\* A recv completes only when one is out, and then none is and the caller
\* has read everything before it.
LEMMA KernelRecvStep == ASSUME RecvInv, KernelRecv PROVE RecvInv'
<1>1. PICK j \in DOMAIN kern :
         /\ kern[j] = RecvOp /\ kern' = Without(kern, j)
         /\ \E r \in Result :
               /\ cqRecvs' = Append(cqRecvs, r)
               /\ IF r = "data" THEN chunks' = chunks + 1 /\ rxBuf' = chunks'
                  ELSE UNCHANGED <<chunks, rxBuf>>
         /\ UNCHANGED <<sq, pc, nextId, pending, got, completedRecv, recvInFlight>>
  BY DEF KernelRecv, Result, callerVars, doneVars
<1>2. /\ nextId \in Nat \ {0} /\ pending \in Seq(Nat \ {0}) /\ (pc = "push" => nextId > 1)
      /\ got \in Seq(Nat) /\ chunks \in Nat /\ \A k \in 1 .. Len(got) : got[k] = k
      /\ kern \in Seq(Nat)
  BY DEF RecvInv, NoneOut, OneOut
<1>3. j \in 1 .. Len(kern)
  BY <1>1, <1>2, LenProperties
<1>4. ~NoneOut(kern, sq)
  BY <1>1, <1>2, <1>3, WithoutOut
<1>5. /\ recvInFlight /\ OneOut(kern, sq)
      /\ cqRecvs = <<>> /\ completedRecv = <<>> /\ AllRead
  BY <1>4 DEF RecvInv
<1>6. NoneOut(kern', sq')
  BY <1>1, <1>2, <1>3, <1>5, WithoutOut
<1>7. PICK r \in Result :
         /\ cqRecvs' = Append(cqRecvs, r)
         /\ IF r = "data" THEN chunks' = chunks + 1 /\ rxBuf' = chunks'
            ELSE UNCHANGED <<chunks, rxBuf>>
  BY <1>1
<1>8. cqRecvs' = <<r>>
  BY <1>5, <1>7, SMT
<1>9. Unread(r)' /\ chunks' \in Nat
  BY <1>1, <1>2, <1>5, <1>7, SMT DEF Unread, AllRead
<1>10. recvInFlight' = TRUE /\ completedRecv' = <<>>
  BY <1>1, <1>5 DEF RecvInv
<1>11. /\ nextId' \in Nat \ {0} /\ pending' \in Seq(Nat \ {0}) /\ (pc' = "push" => nextId' > 1)
       /\ got' \in Seq(Nat) /\ \A k \in 1 .. Len(got') : got'[k] = k
  BY <1>1, <1>2
<1> QED  BY <1>6, <1>8, <1>9, <1>10, <1>11 DEF RecvInv

\* The kernel without completing a recv.
LEMMA KernelOther ==
    ASSUME RecvInv, KernelSend \/ KernelPoll \/ KernelSleep PROVE RecvInv'
<1>0. /\ nextId \in Nat \ {0} /\ pending \in Seq(Nat \ {0}) /\ (pc = "push" => nextId > 1)
      /\ kern \in Seq(Nat)
  BY DEF RecvInv, NoneOut, OneOut
<1>1. UNCHANGED <<pc, nextId, pending, got, completedRecv, cqRecvs, recvInFlight, rxBuf, chunks>>
  BY DEF KernelSend, KernelPoll, KernelSleep, callerVars, doneVars, connVars, cqVars, peerVars
<1>2. CASE KernelSend
  <2>1. PICK j \in DOMAIN kern : kern' = Without(kern, j) /\ sq' = sq
    BY <1>2 DEF KernelSend
  <2>2. j \in 1 .. Len(kern)
    BY <1>0, <2>1, LenProperties
  <2> QED  BY <1>0, <1>1, <2>1, <2>2, WithoutOut, RecvStep
<1>3. CASE KernelPoll
  <2>1. kern' = kern \o sq /\ sq' = <<>>
    BY <1>3 DEF KernelPoll
  <2> QED  BY <1>0, <1>1, <2>1, FlushOut, RecvStep
<1>4. CASE KernelSleep
  <2>1. kern' = kern /\ sq' = sq
    BY <1>4 DEF KernelSleep
  <2> QED  BY <1>0, <1>1, <2>1, RecvStep
<1> QED  BY <1>2, <1>3, <1>4

\* The invariant holds at the start,
LEMMA RecvInit == UringInit => RecvInv
<1> SUFFICES ASSUME UringInit PROVE RecvInv
  OBVIOUS
<1>1. <<>> \in Seq(Nat) /\ <<>> \in Seq(Nat \ {0}) /\ Len(<<>>) = 0 /\ 1 .. Len(<<>>) = {}
  BY SMT
<1>2. 1 \in Nat \ {0} /\ 0 \in Nat
  BY SMT
<1>3. NoneOut(kern, sq)
  BY <1>1 DEF UringInit, NoneOut, NoRecv
<1> QED  BY <1>1, <1>2, <1>3 DEF UringInit, RecvInv, AllRead

\* and every step keeps it.
LEMMA RecvNext == RecvInv /\ [UringNext]_uringVars => RecvInv'
<1> SUFFICES ASSUME RecvInv, [UringNext]_uringVars PROVE RecvInv'
  OBVIOUS
<1>1. ASSUME NEW bytes \in Payload, Submit(bytes) PROVE RecvInv'
  BY <1>1, SubmitRecv
<1>2. CASE PushErr \/ ArmErr
  <2>1. pc' # "push" /\ pending' \in Seq(Nat \ {0}) /\ RetryErr
    BY <1>2 DEF PushErr, ArmErr, RecvInv
  <2> QED  BY <2>1, RetryErrRecv
<1>3. CASE StartRound \/ UNCHANGED uringVars
  <2>1. /\ UNCHANGED <<nextId, pending, got, completedRecv, cqRecvs, recvInFlight, rxBuf,
                       chunks, kern, sq>>
        /\ pc' = pc \/ pc' = "drive"
    BY <1>3 DEF StartRound, uringVars, callerVars, doneVars, connVars, ringVars, cqVars, peerVars
  <2>2. nextId \in Nat \ {0} /\ pending \in Seq(Nat \ {0}) /\ (pc = "push" => nextId > 1)
    BY DEF RecvInv
  <2> QED  BY <2>1, <2>2, RecvStep
<1> QED  BY <1>1, <1>2, <1>3, PushSendRecv, ArmRecvRecv, DriveRecv, CollectRecv,
            KernelRecvStep, KernelOther DEF UringNext, Round, Kernel

(* poll_recv returns the peer's chunks in order, none lost and none twice, *)
(* for any mode, use of sqpoll, size of the ring and number of chunks,     *)
(* submits and errors: at most one recv is ever out, and the next is armed *)
(* only after rx_buf has been copied.                                      *)
THEOREM ReadsCorrect == UringSpec => []ReadsExact
<1>1. UringSpec => []RecvInv
  BY RecvInit, RecvNext, PTL DEF UringSpec
<1>2. RecvInv => ReadsExact
  <2> SUFFICES ASSUME RecvInv, NEW k \in DOMAIN got PROVE got[k] = k
    BY DEF ReadsExact
  <2>1. got \in Seq(Nat) /\ \A i \in 1 .. Len(got) : got[i] = i
    BY DEF RecvInv
  <2>2. k \in 1 .. Len(got)
    BY <2>1, LenProperties
  <2> QED  BY <2>1, <2>2
<1> QED  BY <1>1, <1>2, PTL

-----------------------------------------------------------------------------
(* What leaves for the peer.                                               *)

\* The number of the last send that was performed, whole or cut short.
LastId == IF wire = <<>> THEN 0 ELSE wire[Len(wire)].id

\* Every send after lo and up to hi is on its way.
Covered(k, s, p, lo, hi) ==
    \A x \in Nat : lo < x /\ x <= hi => x \in Sends(k) \cup Sends(s) \cup Sends(p)

(* The inductive invariant behind the order on the wire: what is on its    *)
(* way is newer than all that has left and, as long as no call and no send *)
(* has failed, leaves no number out and cuts nothing short.                *)
WireInv ==
    /\ errors \in Nat
    /\ wire \in Seq(Packet)
    /\ LineOK(kern, sq, pending, LastId, Newest)
    /\ \A i, k \in 1 .. Len(wire) : i < k => wire[i].id < wire[k].id
    /\ errors = 0 => /\ \A k \in 1 .. Len(wire) : wire[k].id = k /\ wire[k].whole
                     /\ Covered(kern, sq, pending, LastId, Newest)

\* No move loses a send.
LEMMA ConcatHas ==
    ASSUME NEW k \in Seq(Nat), NEW s \in Seq(Nat)
    PROVE  Sends(k) \cup Sends(s) \subseteq Sends(k \o s)
<1> DEFINE t == k \o s
<1>1. Len(t) = Len(k) + Len(s)
        /\ \A a \in 1 .. Len(k) + Len(s) :
              t[a] = IF a <= Len(k) THEN k[a] ELSE s[a - Len(k)]
  BY ConcatEntries
<1>2. Len(k) \in Nat /\ Len(s) \in Nat
  BY SendsNat
<1> HIDE DEF t
<1>3. ASSUME NEW a \in 1 .. Len(k) PROVE a \in 1 .. Len(t) /\ t[a] = k[a]
  <2>1. a \in 1 .. Len(k) + Len(s) /\ a <= Len(k)
    BY <1>2, SMT
  <2> QED  BY <1>1, <2>1
<1>4. ASSUME NEW a \in 1 .. Len(s) PROVE \E b \in 1 .. Len(t) : t[b] = s[a]
  <2>1. /\ Len(k) + a \in 1 .. Len(k) + Len(s) /\ ~(Len(k) + a <= Len(k))
        /\ Len(k) + a - Len(k) = a
    BY <1>2, SMT
  <2> QED  BY <1>1, <2>1
<1>5. Sends(k) \cup Sends(s) \subseteq Sends(t)
  BY <1>3, <1>4 DEF Sends
<1> QED  BY <1>5 DEF t

\* Append keeps every send, the new one too.
LEMMA AppendHas ==
    ASSUME NEW s \in Seq(Nat), NEW e \in Nat
    PROVE  Sends(s) \cup ({e} \ {RecvOp}) \subseteq Sends(Append(s, e))
<1> DEFINE t == Append(s, e)
<1>1. Len(t) = Len(s) + 1
        /\ \A a \in 1 .. Len(s) + 1 : t[a] = IF a = Len(s) + 1 THEN e ELSE s[a]
  BY AppendEntry
<1>2. Len(s) \in Nat
  BY SendsNat
<1> HIDE DEF t
<1>3. ASSUME NEW a \in 1 .. Len(s) PROVE a \in 1 .. Len(t) /\ t[a] = s[a]
  <2>1. a \in 1 .. Len(s) + 1 /\ a # Len(s) + 1
    BY <1>2, SMT
  <2> QED  BY <1>1, <2>1
<1>4. Len(s) + 1 \in 1 .. Len(t) /\ t[Len(s) + 1] = e
  <2>1. Len(s) + 1 \in 1 .. Len(s) + 1
    BY <1>2, SMT
  <2> QED  BY <1>1, <2>1
<1>5. Sends(s) \cup ({e} \ {RecvOp}) \subseteq Sends(t)
  BY <1>3, <1>4 DEF Sends
<1> QED  BY <1>5 DEF t

\* Tail loses the first entry only.
LEMMA TailHas ==
    ASSUME NEW p \in Seq(Nat), Len(p) > 0
    PROVE  Sends(p) \subseteq ({Head(p)} \ {RecvOp}) \cup Sends(Tail(p))
<1> DEFINE t == Tail(p)
<1>1. Len(t) = Len(p) - 1 /\ \A a \in 1 .. Len(p) - 1 : t[a] = p[a + 1]
  BY TailEntries
<1>2. Head(p) = p[1] /\ Len(p) \in Nat
  BY SMT
<1> HIDE DEF t
<1>3. ASSUME NEW a \in 1 .. Len(p), a # 1 PROVE \E b \in 1 .. Len(t) : t[b] = p[a]
  <2>1. a - 1 \in 1 .. Len(p) - 1 /\ (a - 1) + 1 = a
    BY <1>2, <1>3, SMT
  <2> QED  BY <1>1, <2>1
<1>4. Sends(p) \subseteq ({p[1]} \ {RecvOp}) \cup Sends(t)
  BY <1>3 DEF Sends
<1> QED  BY <1>2, <1>4 DEF t

\* Without loses the k-th entry only.
LEMMA WithoutHas ==
    ASSUME NEW k \in Seq(Nat), NEW j \in 1 .. Len(k)
    PROVE  Sends(k) \subseteq ({k[j]} \ {RecvOp}) \cup Sends(Without(k, j))
<1> DEFINE t == Without(k, j)
<1>1. Len(t) = Len(k) - 1
        /\ \A a \in 1 .. Len(k) - 1 : t[a] = IF a < j THEN k[a] ELSE k[a + 1]
  BY WithoutProperties
<1>2. Len(k) \in Nat
  BY SendsNat
<1> HIDE DEF t
<1>3. ASSUME NEW a \in 1 .. Len(k), a # j PROVE \E b \in 1 .. Len(t) : t[b] = k[a]
  <2>1. CASE a < j
    <3>1. a \in 1 .. Len(k) - 1
      BY <1>2, <2>1, SMT
    <3> QED  BY <1>1, <2>1, <3>1
  <2>2. CASE a > j
    <3>1. a - 1 \in 1 .. Len(k) - 1 /\ ~(a - 1 < j) /\ (a - 1) + 1 = a
      BY <1>2, <2>2, SMT
    <3> QED  BY <1>1, <3>1
  <2> QED  BY <1>2, <1>3, <2>1, <2>2, SMT
<1>4. Sends(k) \subseteq ({k[j]} \ {RecvOp}) \cup Sends(t)
  BY <1>3 DEF Sends
<1> QED  BY <1>4 DEF t

\* The sends on their way.
Line3(k, s, p) == Sends(k) \cup Sends(s) \cup Sends(p)

\* With more on its way, what was covered is covered.
LEMMA CoverMore ==
    ASSUME NEW k, NEW s, NEW p, NEW lo, NEW hi, Covered(k, s, p, lo, hi),
           NEW k2, NEW s2, NEW p2, Line3(k, s, p) \subseteq Line3(k2, s2, p2)
    PROVE  Covered(k2, s2, p2, lo, hi)
  BY DEF Covered, Line3

\* The next send is on its way as well.
LEMMA CoverNext ==
    ASSUME NEW k, NEW s, NEW p, NEW lo, NEW hi \in Nat, Covered(k, s, p, lo, hi),
           NEW k2, NEW s2, NEW p2,
           Line3(k, s, p) \cup {hi + 1} \subseteq Line3(k2, s2, p2)
    PROVE  Covered(k2, s2, p2, lo, hi + 1)
<1>1. \A x \in Nat : x <= hi + 1 => x <= hi \/ x = hi + 1
  BY SMT
<1> QED  BY <1>1 DEF Covered, Line3

\* A step keeps the line after lo and, if no call fails, loses no send.
Moved(lo) ==
    /\ LineOK(kern', sq', pending', lo, Newest')
    /\ errors' = 0 => /\ errors = 0
                      /\ Covered(kern, sq, pending, lo, Newest)
                            => Covered(kern', sq', pending', lo, Newest')

\* flush_submit hands over what is in the queue.
LEMMA FlushCover ==
    ASSUME NEW q \in Seq(Nat), NEW p, kern \in Seq(Nat), FlushOk(q)
    PROVE  Line3(kern, q, p) \subseteq Line3(kern', sq', p)
<1>1. CASE cfg.sqpoll
  BY <1>1 DEF FlushOk
<1>2. CASE ~cfg.sqpoll
  <2>1. sq' = <<>> /\ kern' = kern \o q
    BY <1>2 DEF FlushOk
  <2> QED  BY <2>1, ConcatHas DEF Line3
<1> QED  BY <1>1, <1>2

\* A failure is counted.
LEMMA ErrorCounts == ASSUME errors \in Nat, NEW q, FlushErr(q) PROVE errors' # 0
<1>1. errors' = errors + 1
  BY DEF FlushErr
<1> QED  BY <1>1, SMT

\* submit queues the next send, or leaves it to push_sqe.
LEMMA SubmitMoves ==
    ASSUME BuffersInv, NEW lo, LineOK(kern, sq, pending, lo, Newest),
           NEW bytes, Submit(bytes)
    PROVE  Moved(lo) /\ wire' = wire /\ errors' = errors
<1>1. /\ kern' = kern /\ sq' = sq /\ errors' = errors /\ wire' = wire /\ nextId' = nextId + 1
      /\ pc = "idle" /\ nextId \in Nat
  BY InvLine DEF Submit, ringVars, peerVars
<1>2. CASE cfg.mode = "SqeStream"
  <2>1. pc' = "push" /\ pending' = pending
    BY <1>2 DEF Submit
  <2>2. Newest' = Newest
    BY <1>1, <2>1, SMT DEF Newest
  <2> QED  BY <1>1, <2>1, <2>2 DEF Moved
<1>3. CASE cfg.mode # "SqeStream"
  <2>1. pc' = "idle" /\ pending' = Append(pending, nextId)
    BY <1>1, <1>3 DEF Submit
  <2>2. Newest' = Newest + 1 /\ nextId = Newest + 1
    BY <1>1, <2>1, SMT DEF Newest
  <2>3. LineOK(kern, sq, Append(pending, Newest + 1), lo, Newest + 1)
    BY SendPending
  <2>4. Line3(kern, sq, pending) \cup {Newest + 1} \subseteq Line3(kern, sq, Append(pending, Newest + 1))
    <3>1. pending \in Seq(Nat) /\ Newest \in Nat
      BY DEF LineOK
    <3>2. Newest + 1 \in Nat /\ Newest + 1 # RecvOp
      BY <3>1, SMT DEF RecvOp
    <3> QED  BY <3>1, <3>2, AppendHas DEF Line3
  <2>5. Covered(kern, sq, pending, lo, Newest)
           => Covered(kern, sq, Append(pending, Newest + 1), lo, Newest + 1)
    BY <2>4, CoverNext DEF LineOK
  <2> QED  BY <1>1, <2>1, <2>2, <2>3, <2>5 DEF Moved
<1> QED  BY <1>2, <1>3, <1>1

\* push_sqe queues the newest send.
LEMMA PushMoves ==
    ASSUME BuffersInv, errors \in Nat, NEW lo, LineOK(kern, sq, pending, lo, Newest), PushSend
    PROVE  Moved(lo) /\ wire' = wire
<1>1. /\ nextId' = nextId /\ pending' = pending /\ pc = "push" /\ pc' = "idle" /\ wire' = wire
      /\ pending = <<>>
  BY DEF PushSend, peerVars, BuffersInv
<1>2. Newest' = Newest + 1 /\ nextId - 1 = Newest + 1
  BY <1>1, NewestSteps
<1>3. LineOK(kern, Append(sq, Newest + 1), pending, lo, Newest + 1)
  BY <1>1, SendQueued
<1>4. FlushOk(Append(sq, Newest + 1)) \/ FlushErr(Append(sq, Newest + 1))
  BY <1>2 DEF PushSend
<1>5. LineOK(kern', sq', pending', lo, Newest')
  BY <1>1, <1>2, <1>3, <1>4, FlushKeeps
<1>6. ASSUME errors' = 0
      PROVE  /\ errors = 0
             /\ Covered(kern, sq, pending, lo, Newest) => Covered(kern', sq', pending', lo, Newest')
  <2>1. FlushOk(Append(sq, Newest + 1)) /\ errors = 0
    BY <1>4, <1>6, ErrorCounts DEF FlushOk
  <2>2. /\ kern \in Seq(Nat) /\ sq \in Seq(Nat) /\ Newest \in Nat
        /\ Append(sq, Newest + 1) \in Seq(Nat)
    BY <1>3 DEF LineOK
  <2>3. Newest + 1 \in Nat /\ Newest + 1 # RecvOp
    BY <2>2, SMT DEF RecvOp
  <2>4. Line3(kern, sq, pending) \cup {Newest + 1}
           \subseteq Line3(kern, Append(sq, Newest + 1), pending)
    BY <2>2, <2>3, AppendHas DEF Line3
  <2>5. Line3(kern, Append(sq, Newest + 1), pending) \subseteq Line3(kern', sq', pending)
    BY <2>1, <2>2, FlushCover
  <2>6. Line3(kern, sq, pending) \cup {Newest + 1} \subseteq Line3(kern', sq', pending')
    BY <1>1, <2>4, <2>5
  <2>7. Covered(kern, sq, pending, lo, Newest) => Covered(kern', sq', pending', lo, Newest + 1)
    BY <2>2, <2>6, CoverNext
  <2> QED  BY <1>2, <2>1, <2>7
<1> QED  BY <1>1, <1>5, <1>6 DEF Moved

\* drain_pending moves the oldest pending send to the queue.
LEMMA DrainMoves ==
    ASSUME BuffersInv, NEW lo, LineOK(kern, sq, pending, lo, Newest), Drain
    PROVE  Moved(lo) /\ wire' = wire
<1>1. /\ UNCHANGED <<nextId, kern, pc, wire, errors>>
      /\ sq' = Append(sq, Head(pending)) /\ pending' = Tail(pending) /\ pc # "push"
  BY DEF Drain, Driving, peerVars
<1>2. Newest' = Newest
  BY <1>1, NewestSteps
<1>3. Len(pending) > 0
  BY PendingSome DEF Drain
<1>4. LineOK(kern', sq', pending', lo, Newest')
  BY <1>1, <1>2, <1>3, DrainLine
<1>5. sq \in Seq(Nat) /\ pending \in Seq(Nat)
  BY DEF LineOK
<1>6. /\ Sends(pending) \subseteq ({Head(pending)} \ {RecvOp}) \cup Sends(Tail(pending))
      /\ Head(pending) \in Nat
  BY <1>3, <1>5, TailHas, TailSends
<1>7. Sends(sq) \cup ({Head(pending)} \ {RecvOp}) \subseteq Sends(Append(sq, Head(pending)))
  BY <1>5, <1>6, AppendHas
<1>8. Line3(kern, sq, pending) \subseteq Line3(kern', sq', pending')
  BY <1>1, <1>6, <1>7 DEF Line3
<1>9. Covered(kern, sq, pending, lo, Newest) => Covered(kern', sq', pending', lo, Newest')
  BY <1>2, <1>8, CoverMore
<1> QED  BY <1>1, <1>4, <1>9 DEF Moved

\* The worker's steps that flush what the queue holds.
LEMMA FlushMoves ==
    ASSUME BuffersInv, errors \in Nat, NEW lo, LineOK(kern, sq, pending, lo, Newest),
           SpinFull \/ DriveInner
    PROVE  Moved(lo) /\ wire' = wire
<1>1. /\ nextId' = nextId /\ pending' = pending /\ wire' = wire
      /\ FlushOk(sq) \/ FlushErr(sq)
      /\ pc' = pc \/ (pc # "push" /\ pc' # "push")
  BY DEF SpinFull, Retry, DriveInner, Driving, AfterDrive, AfterError, callerVars, peerVars
<1>2. Newest' = Newest
  BY <1>1, NewestSteps
<1>3. LineOK(kern', sq', pending', lo, Newest')
  BY <1>1, <1>2, FlushKeeps
<1>4. ASSUME errors' = 0
      PROVE  /\ errors = 0
             /\ Covered(kern, sq, pending, lo, Newest) => Covered(kern', sq', pending', lo, Newest')
  <2>1. FlushOk(sq) /\ errors = 0
    BY <1>1, <1>4, ErrorCounts DEF FlushOk
  <2>2. kern \in Seq(Nat) /\ sq \in Seq(Nat)
    BY DEF LineOK
  <2>3. Line3(kern, sq, pending) \subseteq Line3(kern', sq', pending')
    BY <1>1, <2>1, <2>2, FlushCover
  <2> QED  BY <1>2, <2>1, <2>3, CoverMore
<1> QED  BY <1>1, <1>3, <1>4 DEF Moved

\* The worker's steps that fail before anything is queued.
LEMMA FailMoves ==
    ASSUME BuffersInv, errors \in Nat, NEW lo, LineOK(kern, sq, pending, lo, Newest),
           PushErr \/ ArmErr \/ DrainErr
    PROVE  Moved(lo) /\ wire' = wire
<1>1. /\ UNCHANGED <<nextId, kern, sq, wire>> /\ errors' # 0
  <2>1. RetryErr
    BY DEF PushErr, ArmErr, DrainErr
  <2> QED  BY <2>1, ErrorCounts DEF RetryErr, FlushErr, peerVars
<1>2. CASE PushErr
  <2>1. pc = "push" /\ pc' = "idle" /\ pending' = pending
    BY <1>2 DEF PushErr
  <2>2. Newest' = Newest + 1
    BY <1>1, <2>1, NewestSteps
  <2>3. LineOK(kern', sq', pending', lo, Newest')
    BY <1>1, <2>1, <2>2, WidenLine
  <2> QED  BY <1>1, <2>3 DEF Moved
<1>3. CASE ArmErr
  <2>1. pc = "poll" /\ pc' = "idle" /\ pending' = pending
    BY <1>3 DEF ArmErr
  <2>2. Newest' = Newest
    BY <1>1, <2>1, NewestSteps
  <2> QED  BY <1>1, <2>1, <2>2 DEF Moved
<1>4. CASE DrainErr
  <2>1. pending' = Tail(pending) /\ pc # "push" /\ pc' # "push" /\ ToDrain
    BY <1>4 DEF DrainErr, Driving, AfterError
  <2>2. Newest' = Newest
    BY <1>1, <2>1, NewestSteps
  <2>3. LineOK(kern', sq', pending', lo, Newest')
    BY <1>1, <2>1, <2>2, PendingSome, DropLine
  <2> QED  BY <1>1, <2>3 DEF Moved
<1> QED  BY <1>2, <1>3, <1>4

\* The worker's steps that move no send.
LEMMA OtherMoves ==
    ASSUME BuffersInv, NEW lo, LineOK(kern, sq, pending, lo, Newest),
           StartRound \/ ArmRecv \/ Collect
    PROVE  Moved(lo) /\ wire' = wire
<1>1. /\ UNCHANGED <<nextId, kern, pending, wire, errors>> /\ pc # "push" /\ pc' # "push"
      /\ sq' = sq \/ sq' = Append(sq, RecvOp)
  BY DEF StartRound, ArmRecv, Collect, ringVars, peerVars
<1>2. Newest' = Newest
  BY <1>1, NewestSteps
<1>3. LineOK(kern', sq', pending', lo, Newest')
  BY <1>1, <1>2, RecvQueued
<1>4. Sends(sq) \subseteq Sends(sq')
  <2>1. sq \in Seq(Nat) /\ RecvOp \in Nat
    BY DEF LineOK, RecvOp
  <2> QED  BY <1>1, <2>1, AppendHas
<1>5. Line3(kern, sq, pending) \subseteq Line3(kern', sq', pending')
  BY <1>1, <1>4 DEF Line3
<1>6. Covered(kern, sq, pending, lo, Newest) => Covered(kern', sq', pending', lo, Newest')
  BY <1>2, <1>5, CoverMore
<1> QED  BY <1>1, <1>3, <1>6 DEF Moved

\* A step of the worker.
LEMMA RoundMoves ==
    ASSUME BuffersInv, errors \in Nat, NEW lo, LineOK(kern, sq, pending, lo, Newest), Round
    PROVE  Moved(lo) /\ wire' = wire
  BY PushMoves, DrainMoves, FlushMoves, FailMoves, OtherMoves DEF Round

\* A step of the kernel that completes no send.
LEMMA KernelMoves ==
    ASSUME BuffersInv, errors \in Nat, NEW lo, LineOK(kern, sq, pending, lo, Newest),
           KernelRecv \/ KernelPoll \/ KernelSleep
    PROVE  Moved(lo) /\ wire' = wire
<1>1. UNCHANGED <<nextId, pending, pc, wire>>
  BY DEF KernelRecv, KernelPoll, KernelSleep, callerVars, peerVars
<1>2. Newest' = Newest
  BY <1>1, NewestSteps
<1>3. kern \in Seq(Nat) /\ sq \in Seq(Nat)
  BY DEF LineOK
<1>4. CASE KernelRecv
  <2>1. PICK j \in DOMAIN kern :
           /\ kern[j] = RecvOp /\ kern' = Without(kern, j) /\ sq' = sq
           /\ errors' = errors \/ errors' = errors + 1
    BY <1>4 DEF KernelRecv
  <2>2. j \in 1 .. Len(kern)
    BY <1>3, LenProperties
  <2>3. LineOK(kern', sq', pending', lo, Newest')
    BY <1>1, <1>2, <2>1, <2>2, EntryDone
  <2>4. Sends(kern) \subseteq Sends(kern')
    BY <1>3, <2>1, <2>2, WithoutHas
  <2>5. Line3(kern, sq, pending) \subseteq Line3(kern', sq', pending')
    BY <1>1, <2>1, <2>4 DEF Line3
  <2>6. Covered(kern, sq, pending, lo, Newest) => Covered(kern', sq', pending', lo, Newest')
    BY <1>2, <2>5, CoverMore
  <2>7. errors' = 0 => errors = 0
    BY <2>1, SMT
  <2> QED  BY <1>1, <2>3, <2>6, <2>7 DEF Moved
<1>5. CASE KernelPoll
  <2>1. kern' = kern \o sq /\ sq' = <<>> /\ errors' = errors
    BY <1>5 DEF KernelPoll
  <2>2. LineOK(kern', sq', pending', lo, Newest')
    BY <1>1, <1>2, <2>1, FlushLine
  <2>3. Line3(kern, sq, pending) \subseteq Line3(kern', sq', pending')
    BY <1>1, <1>3, <2>1, ConcatHas DEF Line3
  <2>4. Covered(kern, sq, pending, lo, Newest) => Covered(kern', sq', pending', lo, Newest')
    BY <1>2, <2>3, CoverMore
  <2> QED  BY <1>1, <2>1, <2>2, <2>4 DEF Moved
<1>6. CASE KernelSleep
  <2>1. kern' = kern /\ sq' = sq /\ errors' = errors
    BY <1>6 DEF KernelSleep
  <2> QED  BY <1>1, <1>2, <2>1 DEF Moved
<1> QED  BY <1>4, <1>5, <1>6

\* A call that fails is counted, up to the bound.
LEMMA ErrorsGrow ==
    ASSUME UringNext
    PROVE  errors' = errors \/ (errors < MaxErrors /\ errors' = errors + 1)
<1>1. ASSUME NEW bytes, Submit(bytes) PROVE errors' = errors
  BY <1>1 DEF Submit
<1>2. CASE Round
  BY <1>2 DEF Round, PushSend, PushErr, StartRound, ArmRecv, ArmErr, Drain, DrainErr,
     SpinFull, DriveInner, Collect, Retry, RetryErr, FlushOk, FlushErr
<1>3. CASE Kernel
  BY <1>3 DEF Kernel, KernelSend, KernelRecv, KernelPoll, KernelSleep
<1> QED  BY <1>1, <1>2, <1>3 DEF UringNext

\* The buffer of a send is a payload, if it is still there.
LEMMA ContentType ==
    ASSUME sendInFlight \in Seq(Buffer), NEW i
    PROVE  Content(i) \in Payload \cup {Garbage}
<1>1. CASE \E k \in DOMAIN sendInFlight : sendInFlight[k].id = i
  <2> DEFINE c == CHOOSE k \in DOMAIN sendInFlight : sendInFlight[k].id = i
  <2>1. c \in DOMAIN sendInFlight
    BY <1>1
  <2>2. sendInFlight[c] \in Buffer
    BY <2>1
  <2> HIDE DEF c
  <2>3. sendInFlight[c].bytes \in Payload
    BY <2>2 DEF Buffer
  <2> QED  BY <1>1, <2>3 DEF Content, c
<1>2. CASE ~\E k \in DOMAIN sendInFlight : sendInFlight[k].id = i
  BY <1>2 DEF Content
<1> QED  BY <1>1, <1>2

\* The oldest send is taken: all the others are newer.
LEMMA SendTaken ==
    ASSUME NEW k, NEW s, NEW p, NEW lo, NEW hi, LineOK(k, s, p, lo, hi),
           NEW j \in 1 .. Len(k), k[j] # RecvOp,
           \A i \in 1 .. j - 1 : k[i] = RecvOp
    PROVE  /\ LineOK(Without(k, j), s, p, k[j], hi)
           /\ k[j] \in Sends(k) /\ k[j] \in Nat \ {0} /\ lo < k[j]
           /\ \A x \in Line3(k, s, p) : x = k[j] \/ k[j] < x
<1>1. LineOK(Without(k, j), s, p, lo, hi)
  BY EntryDone
<1>2. \A x \in Sends(Without(k, j)) : k[j] < x
  BY WithoutSends DEF LineOK, Line
<1>3. k[j] \in Sends(k) /\ k[j] \in Nat
  BY EntrySend, SendsNat DEF LineOK
<1>4. lo < k[j] /\ k[j] <= hi /\ \A x \in Sends(s) \cup Sends(p) : k[j] < x
  BY <1>3 DEF LineOK, Line, Ahead, Within
<1>5. \A x \in Line3(Without(k, j), s, p) : k[j] < x /\ x <= hi
  BY <1>1, <1>2, <1>4 DEF LineOK, Line, Within, Line3
<1>6. Line(Without(k, j), s, p, k[j], hi)
  BY <1>1, <1>5 DEF LineOK, Line, Within, Line3
<1>7. LineOK(Without(k, j), s, p, k[j], hi)
  BY <1>1, <1>3, <1>4, <1>6 DEF LineOK
<1>8. Sends(k) \subseteq {k[j]} \cup Sends(Without(k, j))
  BY WithoutHas DEF LineOK
<1>9. k[j] # 0
  BY DEF RecvOp
<1> QED  BY <1>2, <1>3, <1>4, <1>7, <1>8, <1>9 DEF Line3

\* What has left so far, and its last number.
LEMMA LastIs ==
    ASSUME WireInv
    PROVE  /\ LastId \in Nat /\ Len(wire) \in Nat
           /\ \A i \in 1 .. Len(wire) : wire[i].id \in Nat \ {0} /\ wire[i].id <= LastId
           /\ errors = 0 => LastId = Len(wire)
<1>1. LastId \in Nat /\ Len(wire) \in Nat
  BY LenProperties DEF WireInv, LineOK
<1>2. \A i \in 1 .. Len(wire) : wire[i].id \in Nat \ {0}
  <2>1. ASSUME NEW i \in 1 .. Len(wire) PROVE wire[i].id \in Nat \ {0}
    <3>1. wire[i] \in Packet
      BY ElementOfSeq DEF WireInv
    <3> QED  BY <3>1 DEF Packet
  <2> QED  BY <2>1
<1>3. CASE wire = <<>>
  <2>1. Len(wire) = 0 /\ LastId = 0 /\ 1 .. 0 = {}
    BY <1>3, SMT DEF LastId
  <2> QED  BY <1>1, <2>1
<1>4. CASE wire # <<>>
  <2>1. LastId = wire[Len(wire)].id
    BY <1>4 DEF LastId
  <2>2. Len(wire) \in 1 .. Len(wire)
    <3>1. Len(wire) # 0
      BY <1>4, EmptySeq DEF WireInv
    <3> QED  BY <1>1, <3>1, SMT
  <2>3. ASSUME NEW i \in 1 .. Len(wire) PROVE wire[i].id <= LastId
    <3>1. CASE i = Len(wire)
      BY <1>1, <2>1, <3>1, SMT
    <3>2. CASE i # Len(wire)
      <4>1. i < Len(wire)
        BY <1>1, <3>2, SMT
      <4>2. wire[i].id < wire[Len(wire)].id
        BY <2>2, <4>1 DEF WireInv
      <4>3. wire[i].id \in Nat
        BY <1>2
      <4>4. wire[i].id < LastId
        BY <2>1, <4>2
      <4> QED  BY <1>1, <4>3, <4>4, SMT
    <3> QED  BY <3>1, <3>2
  <2>4. errors = 0 => LastId = Len(wire)
    BY <2>1, <2>2 DEF WireInv
  <2> QED  BY <1>1, <1>2, <2>3, <2>4
<1> QED  BY <1>3, <1>4

\* A step that puts nothing on the wire.
LEMMA WireKept ==
    ASSUME WireInv, Moved(LastId), wire' = wire, errors' \in Nat
    PROVE  WireInv'
<1>1. LastId' = LastId
  BY DEF LastId
<1> QED  BY <1>1 DEF WireInv, Moved

\* The send after the last one leaves.
LEMMA WireSend == ASSUME BuffersInv, WireInv, KernelSend, errors' \in Nat PROVE WireInv'
<1>1. PICK j \in DOMAIN kern :
         /\ kern[j] # RecvOp /\ \A i \in 1 .. j - 1 : kern[i] = RecvOp
         /\ kern' = Without(kern, j)
         /\ \/ wire' = Append(wire, Bytes(kern[j], TRUE)) /\ errors' = errors
            \/ wire' = Append(wire, Bytes(kern[j], FALSE)) /\ errors' = errors + 1
            \/ errors' = errors + 1 /\ wire' = wire
  BY DEF KernelSend
<1>2. UNCHANGED <<nextId, pending, pc, sq>>
  BY DEF KernelSend, callerVars
<1>3. Newest' = Newest
  BY <1>2, NewestSteps
<1>4. /\ LineOK(kern, sq, pending, LastId, Newest) /\ kern \in Seq(Nat) /\ errors \in Nat
      /\ wire \in Seq(Packet)
  BY DEF WireInv, LineOK
<1>5. j \in 1 .. Len(kern)
  BY <1>4, LenProperties
<1>6. CASE errors' = errors + 1 /\ wire' = wire
  <2>1. errors' # 0
    BY <1>4, <1>6, SMT
  <2>2. LineOK(kern', sq', pending', LastId, Newest')
    BY <1>1, <1>2, <1>3, <1>4, <1>5, EntryDone
  <2>3. Moved(LastId)
    BY <2>1, <2>2 DEF Moved
  <2> QED  BY <1>6, <2>3, WireKept
<1>7. CASE \/ wire' = Append(wire, Bytes(kern[j], TRUE)) /\ errors' = errors
           \/ wire' = Append(wire, Bytes(kern[j], FALSE)) /\ errors' = errors + 1
  <2>0. PICK w \in BOOLEAN :
           /\ wire' = Append(wire, Bytes(kern[j], w))
           /\ (errors' = errors /\ w) \/ errors' = errors + 1
    BY <1>7
  <2>1. PICK x : x = kern[j]
    OBVIOUS
  <2>2. /\ LineOK(kern', sq', pending', x, Newest')
        /\ x \in Sends(kern) /\ x \in Nat \ {0} /\ LastId < x
        /\ \A y \in Line3(kern, sq, pending) : y = x \/ x < y
    BY <1>1, <1>2, <1>3, <1>4, <1>5, <2>1, SendTaken
  <2>3. PICK e : e = Bytes(x, w)
    OBVIOUS
  <2>4. e.id = x /\ e.whole = w /\ e \in Packet
    BY <2>2, <2>3, ContentType DEF BuffersInv, Bytes, Packet
  <2>5. /\ wire' \in Seq(Packet)
        /\ Len(wire') = Len(wire) + 1
        /\ \A i \in 1 .. Len(wire) + 1 :
              wire'[i] = IF i <= Len(wire) THEN wire[i] ELSE e
    BY <1>4, <2>0, <2>1, <2>3, <2>4, AppendProperties
  <2>6. /\ LastId \in Nat /\ Len(wire) \in Nat
        /\ \A i \in 1 .. Len(wire) : wire[i].id \in Nat \ {0} /\ wire[i].id <= LastId
        /\ errors = 0 => LastId = Len(wire)
    BY LastIs
  <2>7. ASSUME NEW i \in 1 .. Len(wire')
        PROVE  \/ i \in 1 .. Len(wire) /\ wire'[i] = wire[i] /\ i < Len(wire')
               \/ i = Len(wire') /\ wire'[i] = e
    <3>1. Len(wire') = Len(wire) + 1 /\ Len(wire) \in Nat
      BY <2>5, <2>6
    <3>2. i \in 1 .. Len(wire) + 1 /\ (i \in 1 .. Len(wire) \/ i = Len(wire) + 1)
      BY <3>1, SMT
    <3>3. i \in 1 .. Len(wire) => i <= Len(wire) /\ i < Len(wire) + 1
      BY <3>1, SMT
    <3>4. i = Len(wire) + 1 => ~(i <= Len(wire))
      BY <3>1, SMT
    <3> QED  BY <2>5, <3>1, <3>2, <3>3, <3>4
  <2>8. LastId' = x
    <3>1. Len(wire') \in 1 .. Len(wire') /\ Len(wire') # 0
      <4>1. Len(wire') = Len(wire) + 1 /\ Len(wire) \in Nat
        BY <2>5, <2>6
      <4> QED  BY <4>1, SMT
    <3>2. ~(Len(wire') < Len(wire'))
      <4>1. Len(wire') \in Nat
        BY <2>5, LenProperties
      <4> QED  BY <4>1, SMT
    <3>3. wire'[Len(wire')] = e
      BY <2>7, <3>1, <3>2
    <3>4. wire' # <<>>
      BY <2>5, <3>1, EmptySeq
    <3> QED  BY <2>4, <3>3, <3>4 DEF LastId
  <2>9. ASSUME NEW i \in 1 .. Len(wire'), NEW k \in 1 .. Len(wire'), i < k
        PROVE  wire'[i].id < wire'[k].id
    <3>0. Len(wire') \in Nat
      BY <2>5, LenProperties
    <3>1. i # Len(wire')
      BY <2>9, <3>0, SMT
    <3>2. i \in 1 .. Len(wire) /\ wire'[i] = wire[i]
      BY <2>7, <3>1
    <3>3. CASE k \in 1 .. Len(wire) /\ wire'[k] = wire[k]
      BY <2>9, <3>2, <3>3 DEF WireInv
    <3>4. CASE wire'[k] = e
      <4>1. PICK y \in Nat : y = wire[i].id
        BY <2>6, <3>2
      <4>2. y <= LastId
        BY <2>6, <3>2, <4>1
      <4>3. y < x
        BY <2>2, <2>6, <4>2, SMT
      <4> QED  BY <2>4, <3>2, <3>4, <4>1, <4>3
    <3> QED  BY <2>7, <3>3, <3>4
  <2>10. ASSUME errors' = 0
         PROVE  /\ \A k \in 1 .. Len(wire') : wire'[k].id = k /\ wire'[k].whole
                /\ Covered(kern', sq', pending', LastId', Newest')
    <3>0. errors = 0 /\ w
      BY <1>4, <2>0, <2>10
    <3>1. /\ LastId = Len(wire)
          /\ \A k \in 1 .. Len(wire) : wire[k].id = k /\ wire[k].whole
          /\ Covered(kern, sq, pending, LastId, Newest)
      BY <2>6, <3>0 DEF WireInv
    <3>2. x <= Newest /\ Newest \in Nat
      BY <1>4, <2>2 DEF LineOK, Line, Within
    <3>3. LastId + 1 \in Nat /\ LastId < LastId + 1 /\ LastId + 1 <= Newest
      BY <2>2, <2>6, <3>2, SMT
    <3>4. LastId + 1 \in Line3(kern, sq, pending)
      BY <3>1, <3>3 DEF Covered, Line3
    <3>5. LastId + 1 = x \/ x < LastId + 1
      BY <2>2, <3>4
    <3>6. x = Len(wire) + 1
      <4>1. x = LastId + 1
        BY <2>2, <2>6, <3>5, SMT
      <4> QED  BY <3>1, <4>1
    <3>7. \A k \in 1 .. Len(wire') : wire'[k].id = k /\ wire'[k].whole
      BY <2>4, <2>5, <2>7, <3>0, <3>1, <3>6
    <3>8. ASSUME NEW y \in Nat, x < y, y <= Newest
          PROVE  y \in Sends(kern') \cup Sends(sq') \cup Sends(pending')
      <4>1. LastId < y /\ y # x
        BY <2>2, <2>6, <3>8, SMT
      <4>2. y \in Sends(kern) \cup Sends(sq) \cup Sends(pending)
        BY <3>1, <3>8, <4>1 DEF Covered
      <4>3. Sends(kern) \subseteq {x} \cup Sends(kern')
        BY <1>1, <1>4, <1>5, <2>1, WithoutHas
      <4> QED  BY <1>2, <4>1, <4>2, <4>3
    <3> QED  BY <1>3, <2>8, <3>7, <3>8 DEF Covered
  <2> QED  BY <2>2, <2>5, <2>8, <2>9, <2>10 DEF WireInv
<1> QED  BY <1>1, <1>6, <1>7

\* The invariant holds at the start,
LEMMA WireInit == UringInit => WireInv
<1> SUFFICES ASSUME UringInit PROVE WireInv
  OBVIOUS
<1>1. /\ pc = "idle" /\ nextId = 1 /\ pending = <<>> /\ sq = <<>> /\ kern = <<>>
      /\ wire = <<>> /\ errors = 0
  BY DEF UringInit
<1>2. Len(wire) = 0 /\ wire \in Seq(Packet) /\ 1 .. 0 = {}
  BY <1>1, SMT
<1>3. LastId = 0 /\ Newest = 0
  BY <1>1, SMT DEF LastId, Newest
<1>4. LineOK(<<>>, <<>>, <<>>, 0, 0)
  BY EmptyEntries DEF LineOK, Line, Ahead, Within
<1>5. Covered(<<>>, <<>>, <<>>, 0, 0)
  <2>1. \A x \in Nat : ~(0 < x /\ x <= 0)
    BY SMT
  <2> QED  BY <2>1 DEF Covered
<1>6. errors \in Nat
  BY <1>1
<1> QED  BY <1>1, <1>2, <1>3, <1>4, <1>5, <1>6 DEF WireInv

\* and every step keeps it.
LEMMA WireNext == BuffersInv /\ WireInv /\ [UringNext]_uringVars => WireInv'
<1> SUFFICES ASSUME BuffersInv, WireInv, [UringNext]_uringVars PROVE WireInv'
  OBVIOUS
<1>1. CASE UNCHANGED uringVars
  BY <1>1 DEF WireInv, LastId, Newest, LineOK, uringVars, callerVars, ringVars, peerVars
<1>2. CASE UringNext
  <2>1. LineOK(kern, sq, pending, LastId, Newest) /\ errors \in Nat
    BY DEF WireInv
  <2>2. errors' \in Nat
    BY <1>2, <2>1, ErrorsGrow
  <2>3. ASSUME NEW bytes, Submit(bytes) PROVE WireInv'
    BY <2>1, <2>2, <2>3, SubmitMoves, WireKept
  <2>4. CASE Round
    BY <2>1, <2>2, <2>4, RoundMoves, WireKept
  <2>5. CASE KernelRecv \/ KernelPoll \/ KernelSleep
    BY <2>1, <2>2, <2>5, KernelMoves, WireKept
  <2>6. CASE KernelSend
    BY <2>2, <2>6, WireSend
  <2> QED  BY <1>2, <2>3, <2>4, <2>5, <2>6 DEF UringNext, Kernel
<1> QED  BY <1>1, <1>2


-----------------------------------------------------------------------------
(* The connection: every request is the one of its job.                    *)

\* Entry e of send_in_flight or of the wire holds the request of its job.
Filled(e, j, s) == e.id \in 1 .. Len(j) /\ e.bytes = Request(s, j[e.id])

AllFilled(q, j, s) == \A k \in 1 .. Len(q) : Filled(q[k], j, s)

Job == [id : Nat \ {0}, len : TxLens]

(* The inductive invariant behind RequestsOnWire: whatever was spliced     *)
(* before, the template is the compiled one in all but out; each buffer    *)
(* and all that has left holds the request of its job.                     *)
ConnInv ==
    /\ spec \in Specs
    /\ tpl.res \in {"ok", "BodyMaxTooSmall", "BodySentinelMissing"}
    /\ tpl.res = "ok" => \E f, oc, ob \in Nat : Compiled(spec, tpl, f, oc, ob)
    /\ jobs \in Seq(Job) /\ Len(jobs) = nextId - 1
    /\ AllFilled(sendInFlight, jobs, spec)
    /\ AllFilled(wire, jobs, spec)

\* A new job changes nothing for the earlier ones,
LEMMA FilledMore ==
    ASSUME NEW j \in Seq(Job), NEW tx \in Job, NEW e, NEW s, Filled(e, j, s)
    PROVE  Filled(e, Append(j, tx), s)
<1>1. PICK i : i = e.id
  OBVIOUS
<1>2. i \in 1 .. Len(j) /\ e.bytes = Request(s, j[i])
  BY <1>1 DEF Filled
<1>3. /\ Len(Append(j, tx)) = Len(j) + 1 /\ Len(j) \in Nat
      /\ \A k \in 1 .. Len(j) : Append(j, tx)[k] = j[k]
  BY AppendProperties, LenProperties
<1>4. i \in 1 .. Len(Append(j, tx)) /\ Append(j, tx)[i] = j[i]
  <2>1. i \in 1 .. Len(j) + 1
    BY <1>2, <1>3, SMT
  <2> QED  BY <1>2, <1>3, <2>1
<1> QED  BY <1>1, <1>2, <1>4 DEF Filled

\* a filled entry may be appended,
LEMMA FilledAppend ==
    ASSUME NEW S, NEW q \in Seq(S), NEW e \in S, NEW j, NEW s,
           AllFilled(q, j, s), Filled(e, j, s)
    PROVE  AllFilled(Append(q, e), j, s)
<1>1. /\ Len(Append(q, e)) = Len(q) + 1 /\ Len(q) \in Nat
      /\ \A k \in 1 .. Len(q) + 1 : Append(q, e)[k] = IF k <= Len(q) THEN q[k] ELSE e
  BY AppendProperties, LenProperties
<1>2. \A k \in 1 .. Len(q) + 1 : k <= Len(q) => k \in 1 .. Len(q)
  BY <1>1, SMT
<1> QED  BY <1>1, <1>2 DEF AllFilled

\* and the oldest may go.
LEMMA FilledSub ==
    ASSUME NEW S, NEW q \in Seq(S), NEW c \in Nat, c <= Len(q), NEW j, NEW s,
           AllFilled(q, j, s)
    PROVE  AllFilled(SubSeq(q, c + 1, Len(q)), j, s)
<1>1. Len(q) \in Nat
  BY LenProperties
<1>2. Len(SubSeq(q, c + 1, Len(q))) = Len(q) - c
  BY <1>1, SMT
<1>3. \A k \in 1 .. Len(q) - c : SubSeq(q, c + 1, Len(q))[k] = q[c + k] /\ c + k \in 1 .. Len(q)
  BY <1>1, SMT
<1> QED  BY <1>2, <1>3 DEF AllFilled

\* The specifications keep to the limits.
LEMMA SpecIs ==
    ASSUME NEW s \in Specs
    PROVE  /\ s.bytes \in Seq(Nat) /\ s.maxLen \in Nat
           /\ Len(s.bytes) + s.maxLen < 10 ^ 9
           /\ Len(s.bytes) + s.maxLen < 10 ^ Len(ClSentinel)
           /\ Compile(s).res = "ok" => WellPlaced(s)
  BY UringConnAssumption

\* What send_tx submits: the request of the job.
LEMMA SendTxIs ==
    ASSUME BuffersInv, ConnInv, NEW len \in TxLens, SendTx(len)
    PROVE  \E tx \in Job, out \in Seq(Nat) :
              \/ /\ Submit(out) /\ jobs' = Append(jobs, tx) /\ out = Request(spec, tx)
              \/ UNCHANGED <<uringVars, jobs>>
<1>1. PICK f \in Nat, oc \in Nat, ob \in Nat : Compiled(spec, tpl, f, oc, ob)
  BY DEF ConnInv, SendTx
<1>2. PICK tx : tx = [id |-> nextId, len |-> len]
  OBVIOUS
<1>3. nextId \in Nat \ {0} /\ len \in 0 .. MaxTxLen /\ MaxTxLen \in Nat
  BY UringConnAssumption, EnvelopeAssumption DEF BuffersInv
<1>4. len \in Nat
  BY <1>3, SMT
<1>5. tx \in Job /\ tx.id \in Nat /\ tx.len \in Nat
  BY <1>2, <1>3, <1>4 DEF Job
<1>6. CASE Splice(tpl, tx).res = "ok"
  <2>1. /\ spec.bytes \in Seq(Nat) /\ spec.maxLen \in Nat
        /\ Len(spec.bytes) + spec.maxLen < 10 ^ 9
    BY SpecIs DEF ConnInv
  <2>2. Splice(tpl, tx).out = Request(spec, tx) /\ Splice(tpl, tx).out \in Seq(Nat)
    BY <1>1, <1>5, <1>6, <2>1, SpliceMakes
  <2>3. Submit(Splice(tpl, tx).out) /\ jobs' = Append(jobs, tx)
    BY <1>2, <1>6 DEF SendTx
  <2> QED  BY <1>5, <2>2, <2>3
<1>7. CASE Splice(tpl, tx).res # "ok"
  <2>1. UNCHANGED <<uringVars, jobs>>
    BY <1>2, <1>7 DEF SendTx
  <2>2. <<>> \in Seq(Nat)
    BY EmptySeq
  <2> QED  BY <1>5, <2>1, <2>2
<1> QED  BY <1>6, <1>7

\* The connection does to the ring what the ring allows.
LEMMA RingStep ==
    ASSUME Seq(Nat) \subseteq Payload, BuffersInv, ConnInv, [Next]_vars
    PROVE  [UringNext]_uringVars
<1>1. ASSUME NEW len \in TxLens, SendTx(len) PROVE [UringNext]_uringVars
  BY <1>1, SendTxIs DEF UringNext
<1>2. CASE Step
  BY <1>2 DEF Step, UringNext
<1>3. CASE UNCHANGED vars
  BY <1>3 DEF vars
<1> QED  BY <1>1, <1>2, <1>3 DEF Next, NoConn

\* splice writes nothing of the template but out.
LEMMA SendTxTpl ==
    ASSUME ConnInv, NEW len \in TxLens, SendTx(len)
    PROVE  /\ spec' = spec /\ tpl'.res = "ok"
           /\ \E f, oc, ob \in Nat : Compiled(spec', tpl', f, oc, ob)
<1>1. PICK f \in Nat, oc \in Nat, ob \in Nat : Compiled(spec, tpl, f, oc, ob)
  BY DEF ConnInv, SendTx
<1>2. PICK out : tpl' = [tpl EXCEPT !.out = out]
  BY DEF SendTx
<1>3. Compiled(spec, tpl', f, oc, ob)
  BY <1>1, <1>2, OutOnly
<1>4. spec' = spec
  BY DEF SendTx
<1>5. PICK b, o, m :
          tpl' = [res |-> "ok", buf |-> b, out |-> o, bodyOff |-> ob, bodyMax |-> m,
                  clOff |-> oc, bodyStart |-> f + 1]
  BY <1>3 DEF Compiled
<1>6. tpl'.res = "ok"
  BY <1>5
<1> QED  BY <1>3, <1>4, <1>6

\* send_tx fills one more buffer, with the request of its own job.
LEMMA SendTxConn ==
    ASSUME BuffersInv, ConnInv, NEW len \in TxLens, SendTx(len), Seq(Nat) \subseteq Payload
    PROVE  ConnInv'
<1>1. /\ spec' = spec /\ tpl'.res = "ok"
      /\ \E f, oc, ob \in Nat : Compiled(spec', tpl', f, oc, ob)
  BY SendTxTpl
<1>2. PICK tx \in Job, out \in Seq(Nat) :
         \/ /\ Submit(out) /\ jobs' = Append(jobs, tx) /\ out = Request(spec, tx)
         \/ UNCHANGED <<uringVars, jobs>>
  BY SendTxIs
<1>3. /\ jobs \in Seq(Job) /\ Len(jobs) = nextId - 1 /\ nextId \in Nat \ {0}
      /\ AllFilled(sendInFlight, jobs, spec) /\ AllFilled(wire, jobs, spec)
      /\ sendInFlight \in Seq(Buffer) /\ Len(jobs) \in Nat
  BY LenProperties DEF ConnInv, BuffersInv
<1>4. CASE UNCHANGED <<uringVars, jobs>>
  <2>1. UNCHANGED <<nextId, sendInFlight, wire, jobs>>
    BY <1>4 DEF uringVars, callerVars, connVars, peerVars
  <2> QED  BY <1>1, <1>3, <2>1 DEF ConnInv
<1>5. CASE Submit(out) /\ jobs' = Append(jobs, tx) /\ out = Request(spec, tx)
  <2>1. PICK e : e = [id |-> nextId, bytes |-> out]
    OBVIOUS
  <2>2. sendInFlight' = Append(sendInFlight, e) /\ nextId' = nextId + 1 /\ wire' = wire
    BY <1>5, <2>1 DEF Submit, peerVars
  <2>3. e \in Buffer /\ e.id = nextId /\ e.bytes = out
    BY <1>3, <2>1 DEF Buffer
  <2>4. /\ jobs' \in Seq(Job) /\ Len(jobs') = Len(jobs) + 1 /\ jobs'[Len(jobs) + 1] = tx
    BY <1>3, <1>5, AppendProperties
  <2>5. Len(jobs) + 1 = nextId /\ Len(jobs') = nextId' - 1 /\ nextId \in 1 .. Len(jobs')
    BY <1>3, <2>2, <2>4, SMT
  <2>6. Filled(e, jobs', spec)
    BY <1>5, <2>3, <2>4, <2>5 DEF Filled
  <2>7. AllFilled(sendInFlight, jobs', spec) /\ AllFilled(wire, jobs', spec)
    BY <1>3, <1>5, FilledMore DEF AllFilled
  <2>8. AllFilled(sendInFlight', jobs', spec)
    BY <1>3, <2>2, <2>3, <2>6, <2>7, FilledAppend
  <2> QED  BY <1>1, <2>2, <2>4, <2>5, <2>7, <2>8 DEF ConnInv
<1> QED  BY <1>2, <1>4, <1>5

\* The kernel finds the request in the buffer of a send it performs.
LEMMA ContentFilled ==
    ASSUME BuffersInv, AllFilled(sendInFlight, jobs, spec),
           NEW k \in 1 .. Len(kern), kern[k] # RecvOp
    PROVE  \E b \in Buffer : /\ b.id = kern[k] /\ b.bytes = Content(kern[k])
                             /\ Filled(b, jobs, spec)
<1>1. /\ LineOK(kern, sq, pending, Freed + (completedSends + cqSends), Newest)
      /\ nextId \in Nat \ {0} /\ sendInFlight \in Seq(Buffer)
      /\ Newest = IF pc = "push" THEN nextId - 2 ELSE nextId - 1
  BY InvLine
<1>2. PICK x : x = kern[k]
  OBVIOUS
<1>3. x \in Nat /\ x # 0 /\ x <= Newest
  <2>1. x \in Sends(kern) /\ x \in Nat
    BY <1>1, <1>2, EntrySend, SendsNat DEF LineOK
  <2> QED  BY <1>1, <1>2, <2>1 DEF LineOK, Line, Within, RecvOp
<1>4. x \in 1 .. nextId - 1
  BY <1>1, <1>3, SMT
<1>5. Held(x)
  BY <1>2, <1>4, BuffersEnough DEF BuffersAlive, Exposed
<1>6. DOMAIN sendInFlight = 1 .. Len(sendInFlight)
  BY <1>1, LenProperties
<1>7. \E c \in DOMAIN sendInFlight : sendInFlight[c].id = x
  BY <1>5, <1>6 DEF Held
<1>8. PICK c : c = CHOOSE k2 \in DOMAIN sendInFlight : sendInFlight[k2].id = x
  OBVIOUS
<1>9. c \in DOMAIN sendInFlight /\ sendInFlight[c].id = x
  BY <1>7, <1>8
<1>10. Content(x) = sendInFlight[c].bytes
  BY <1>7, <1>8 DEF Content
<1>11. sendInFlight[c] \in Buffer /\ Filled(sendInFlight[c], jobs, spec)
  BY <1>1, <1>6, <1>9, ElementOfSeq DEF AllFilled
<1> QED  BY <1>2, <1>9, <1>10, <1>11

\* A round frees buffers, the kernel puts what it finds in one on the wire.
LEMMA StepConn ==
    ASSUME BuffersInv, WireInv, ConnInv, Step
    PROVE  ConnInv'
<1>1. UNCHANGED <<spec, tpl, jobs>> /\ (Round \/ Kernel)
  BY DEF Step
<1>2. /\ jobs \in Seq(Job) /\ Len(jobs) = nextId - 1
      /\ AllFilled(sendInFlight, jobs, spec) /\ AllFilled(wire, jobs, spec)
      /\ sendInFlight \in Seq(Buffer)
      /\ wire \in Seq(Packet)
  BY DEF ConnInv, BuffersInv, WireInv
<1>3. nextId' = nextId
  BY <1>1 DEF Round, PushSend, PushErr, StartRound, ArmRecv, ArmErr, Drain, DrainErr, SpinFull,
     DriveInner, Collect, Retry, RetryErr, Kernel, KernelSend, KernelRecv, KernelPoll,
     KernelSleep, callerVars
<1>4. AllFilled(sendInFlight', jobs, spec)
  <2>1. CASE Collect
    <3>1. PICK c \in Nat : c = completedSends
      BY DEF BuffersInv
    <3>2. c <= Len(sendInFlight)
      <4>1. /\ LineOK(kern, sq, pending, Freed + (completedSends + cqSends), Newest)
            /\ cqSends \in Nat /\ Freed \in Nat /\ Len(sendInFlight) \in Nat
            /\ nextId \in Nat \ {0} /\ Newest = nextId - 1
        BY <2>1, InvLine DEF Collect
      <4>2. Freed + (c + cqSends) <= nextId - 1 /\ Freed = nextId - 1 - Len(sendInFlight)
        BY <3>1, <4>1 DEF LineOK, Freed
      <4> QED  BY <4>1, <4>2, SMT
    <3>3. sendInFlight' = SubSeq(sendInFlight, c + 1, Len(sendInFlight))
      BY <2>1, <3>1 DEF Collect
    <3> QED  BY <1>2, <3>2, <3>3, FilledSub
  <2>2. CASE ~Collect
    <3>1. sendInFlight' = sendInFlight
      BY <1>1, <2>2 DEF Round, PushSend, PushErr, StartRound, ArmRecv, ArmErr, Drain, DrainErr,
         SpinFull, DriveInner, Retry, RetryErr, Kernel, KernelSend, KernelRecv,
         KernelPoll, KernelSleep, connVars
    <3> QED  BY <1>2, <3>1
  <2> QED  BY <2>1, <2>2
<1>5. AllFilled(wire', jobs, spec)
  <2>1. CASE KernelSend
    <3>1. PICK k \in DOMAIN kern :
             /\ kern[k] # RecvOp
             /\ \/ \E w \in BOOLEAN : wire' = Append(wire, Bytes(kern[k], w))
                \/ wire' = wire
      BY <2>1 DEF KernelSend
    <3>2. k \in 1 .. Len(kern)
      BY LenProperties DEF WireInv, LineOK
    <3>3. PICK b \in Buffer : /\ b.id = kern[k] /\ b.bytes = Content(kern[k])
                              /\ Filled(b, jobs, spec)
      BY <1>2, <3>1, <3>2, ContentFilled
    <3>4. ASSUME NEW w \in BOOLEAN, wire' = Append(wire, Bytes(kern[k], w))
          PROVE  AllFilled(wire', jobs, spec)
      <4>1. PICK e : e = Bytes(kern[k], w)
        OBVIOUS
      <4>2. e.id = b.id /\ e.bytes = b.bytes
        BY <3>3, <4>1 DEF Bytes
      <4>3. b.id \in Nat \ {0} /\ b.bytes \in Payload
        BY DEF Buffer
      <4>4. e \in Packet
        BY <3>3, <4>1, <4>3 DEF Bytes, Packet
      <4>5. Filled(e, jobs, spec)
        BY <3>3, <4>2 DEF Filled
      <4>6. AllFilled(Append(wire, e), jobs, spec)
        BY <1>2, <4>4, <4>5, FilledAppend
      <4> QED  BY <3>4, <4>1, <4>6
    <3> QED  BY <1>2, <3>1, <3>4
  <2>2. CASE ~KernelSend
    <3>1. wire' = wire
      BY <1>1, <2>2 DEF Round, PushSend, PushErr, StartRound, ArmRecv, ArmErr, Drain, DrainErr,
         SpinFull, DriveInner, Collect, Retry, RetryErr, Kernel, KernelRecv,
         KernelPoll, KernelSleep, peerVars
    <3> QED  BY <1>2, <3>1
  <2> QED  BY <2>1, <2>2
<1> QED  BY <1>1, <1>2, <1>3, <1>4, <1>5 DEF ConnInv

\* The invariant holds at the start,
LEMMA ConnInit == Init => ConnInv
<1> SUFFICES ASSUME Init PROVE ConnInv
  OBVIOUS
<1>1. spec \in Specs /\ tpl = Compile(spec) /\ jobs = <<>>
  BY DEF Init
<1>2. nextId = 1 /\ sendInFlight = <<>> /\ wire = <<>>
  BY DEF Init, UringInit
<1>3. jobs \in Seq(Job) /\ Len(jobs) = nextId - 1
  BY <1>1, <1>2, EmptySeq, SMT
<1>4. tpl.res \in {"ok", "BodyMaxTooSmall", "BodySentinelMissing"}
  BY <1>1 DEF Compile
<1>5. ASSUME tpl.res = "ok" PROVE \E f, oc, ob \in Nat : Compiled(spec, tpl, f, oc, ob)
  <2>1. /\ spec.bytes \in Seq(Nat) /\ spec.maxLen \in Nat
        /\ Compile(spec).res = "ok" /\ WellPlaced(spec)
    BY <1>1, <1>5, SpecIs
  <2>2. \E f, oc, ob \in Nat : Compiled(spec, Compile(spec), f, oc, ob)
    BY <2>1, CompileMakes
  <2> QED  BY <1>1, <2>2
<1>6. AllFilled(<<>>, jobs, spec)
  <2>1. 1 .. Len(<<>>) = {}
    BY SMT
  <2> QED  BY <2>1 DEF AllFilled
<1> QED  BY <1>1, <1>2, <1>3, <1>4, <1>5, <1>6 DEF ConnInv

\* and every step keeps it.
LEMMA ConnNext ==
    ASSUME Seq(Nat) \subseteq Payload, BuffersInv, WireInv, ConnInv, [Next]_vars
    PROVE  ConnInv'
<1>1. CASE UNCHANGED vars
  BY <1>1 DEF ConnInv, vars, uringVars, callerVars, connVars, peerVars
<1> QED  BY <1>1, SendTxConn, StepConn DEF Next, NoConn

\* What is left of the type: the bounds of the ring and of the run.
RestOK ==
    /\ cfg \in Configs
    /\ pc \in {"idle", "push", "drive", "poll", "pollDrive", "collect"}
    /\ nextId \in 1 .. MaxSubmits + 1
    /\ rxBuf \in Nat /\ chunks \in Nat
    /\ sq \in Seq(Nat) /\ Len(sq) <= RingEntries
    /\ awake \in BOOLEAN
    /\ errors \in 0 .. MaxErrors

\* One entry more where there is room.
LEMMA RoomLeft ==
    ASSUME NEW q \in Seq(Nat), Len(q) < RingEntries, NEW e \in Nat
    PROVE  Append(q, e) \in Seq(Nat) /\ Len(Append(q, e)) <= RingEntries
<1>1. Len(Append(q, e)) = Len(q) + 1 /\ Len(q) \in Nat /\ RingEntries \in Nat
        /\ Append(q, e) \in Seq(Nat)
  BY AppendEntry, LenProperties, IoUringAssumption
<1> QED  BY <1>1, SMT

\* flush_submit leaves what was there or nothing.
LEMMA FlushRoom ==
    ASSUME NEW q \in Seq(Nat), Len(q) <= RingEntries, FlushOk(q) \/ FlushErr(q)
    PROVE  sq' \in Seq(Nat) /\ Len(sq') <= RingEntries /\ awake' = awake
<1>1. <<>> \in Seq(Nat) /\ Len(<<>>) <= RingEntries
  BY IoUringAssumption, SMT
<1> QED  BY <1>1 DEF FlushOk, FlushErr

\* No step puts an entry into a full submission queue.
LEMMA RoomKept ==
    ASSUME RestOK, RecvInv, UringNext
    PROVE  sq' \in Seq(Nat) /\ Len(sq') <= RingEntries
<1>1. /\ sq \in Seq(Nat) /\ Len(sq) <= RingEntries /\ nextId \in Nat \ {0}
      /\ pc = "push" => nextId > 1
      /\ pending \in Seq(Nat \ {0})
  BY DEF RestOK, RecvInv
<1>2. CASE PushSend
  <2>1. nextId - 1 \in Nat
    BY <1>1, <1>2, SMT DEF PushSend
  <2>2. Append(sq, nextId - 1) \in Seq(Nat) /\ Len(Append(sq, nextId - 1)) <= RingEntries
    BY <1>1, <1>2, <2>1, RoomLeft DEF PushSend
  <2> QED  BY <1>2, <2>2, FlushRoom DEF PushSend
<1>3. CASE PushErr \/ ArmErr \/ DrainErr \/ SpinFull \/ DriveInner
  <2>1. FlushOk(sq) \/ FlushErr(sq)
    BY <1>3 DEF PushErr, ArmErr, DrainErr, SpinFull, DriveInner, Retry, RetryErr
  <2> QED  BY <1>1, <2>1, FlushRoom
<1>4. CASE ArmRecv
  <2>1. sq' = sq \/ (Len(sq) < RingEntries /\ sq' = Append(sq, RecvOp))
    BY <1>4 DEF ArmRecv
  <2>2. RecvOp \in Nat
    BY DEF RecvOp
  <2> QED  BY <1>1, <2>1, <2>2, RoomLeft
<1>5. CASE Drain
  <2>1. Head(pending) \in Nat
    <3>1. pending # <<>>
      BY <1>5 DEF Drain, ToDrain
    <3> QED  BY <1>1, <3>1, HeadTailProperties
  <2> QED  BY <1>1, <1>5, <2>1, RoomLeft DEF Drain
<1>6. CASE StartRound \/ Collect \/ KernelSend \/ KernelRecv \/ KernelSleep
  <2>1. sq' = sq
    BY <1>6 DEF StartRound, Collect, KernelSend, KernelRecv, KernelSleep, ringVars
  <2> QED  BY <1>1, <2>1
<1>7. CASE KernelPoll
  BY <1>7, IoUringAssumption, SMT DEF KernelPoll
<1>8. ASSUME NEW bytes, Submit(bytes) PROVE sq' = sq
  BY <1>8 DEF Submit, ringVars
<1> QED  BY <1>1, <1>2, <1>3, <1>4, <1>5, <1>6, <1>7, <1>8 DEF UringNext, Round, Kernel

\* Every step of the ring keeps the bounds.
LEMMA RestNext ==
    ASSUME RestOK, RecvInv, [UringNext]_uringVars
    PROVE  RestOK'
<1>1. CASE UNCHANGED uringVars
  BY <1>1 DEF RestOK, uringVars, callerVars, connVars, ringVars, peerVars
<1>2. CASE UringNext
  <2>1. sq' \in Seq(Nat) /\ Len(sq') <= RingEntries
    BY <1>2, RoomKept
  <2>2. errors' \in 0 .. MaxErrors
    <3>1. errors \in 0 .. MaxErrors /\ MaxErrors \in Nat
      BY IoUringAssumption DEF RestOK
    <3> QED  BY <1>2, <3>1, ErrorsGrow, SMT
  <2>3. cfg' = cfg
    BY <1>2 DEF UringNext, Submit, Round, PushSend, PushErr, StartRound, ArmRecv, ArmErr,
       Drain, DrainErr, SpinFull, DriveInner, Collect, Retry, RetryErr, Kernel, KernelSend,
       KernelRecv, KernelPoll, KernelSleep
  <2>4. pc' \in {"idle", "push", "drive", "poll", "pollDrive", "collect"}
    BY <1>2 DEF RestOK, UringNext, Submit, Round, PushSend, PushErr, StartRound, ArmRecv, ArmErr,
       Drain, DrainErr, SpinFull, DriveInner, Collect, Retry, RetryErr, Kernel, KernelSend,
       KernelRecv, KernelPoll, KernelSleep, callerVars, AfterDrive, AfterError
  <2>5. nextId' \in 1 .. MaxSubmits + 1
    <3>1. nextId \in 1 .. MaxSubmits + 1 /\ MaxSubmits \in Nat
      BY IoUringAssumption DEF RestOK
    <3>2. nextId' = nextId \/ (nextId <= MaxSubmits /\ nextId' = nextId + 1)
      BY <1>2 DEF UringNext, Submit, Round, PushSend, PushErr, StartRound, ArmRecv, ArmErr,
         Drain, DrainErr, SpinFull, DriveInner, Collect, Retry, RetryErr, Kernel, KernelSend,
         KernelRecv, KernelPoll, KernelSleep, callerVars
    <3> QED  BY <3>1, <3>2, SMT
  <2>6. awake' \in BOOLEAN
    BY <1>2 DEF RestOK, UringNext, Submit, Round, PushSend, PushErr, StartRound, ArmRecv, ArmErr,
       Drain, DrainErr, SpinFull, DriveInner, Collect, Retry, RetryErr, FlushOk, FlushErr, Kernel,
       KernelSend, KernelRecv, KernelPoll, KernelSleep, ringVars
  <2>7. rxBuf' \in Nat /\ chunks' \in Nat
    <3>1. UNCHANGED <<rxBuf, chunks>> \/ (chunks' = chunks + 1 /\ rxBuf' = chunks')
      BY <1>2 DEF UringNext, Submit, Round, PushSend, PushErr, StartRound, ArmRecv, ArmErr,
         Drain, DrainErr, SpinFull, DriveInner, Collect, Retry, RetryErr, Kernel,
         KernelSend, KernelRecv, KernelPoll, KernelSleep, connVars, peerVars
    <3>2. rxBuf \in Nat /\ chunks \in Nat
      BY DEF RestOK
    <3> QED  BY <3>1, <3>2, SMT
  <2> QED  BY <2>1, <2>2, <2>3, <2>4, <2>5, <2>6, <2>7 DEF RestOK
<1> QED  BY <1>1, <1>2

\* The bounds hold at the start.
LEMMA RestInit == UringInit => RestOK
<1> SUFFICES ASSUME UringInit PROVE RestOK
  OBVIOUS
<1>1. <<>> \in Seq(Nat) /\ Len(<<>>) <= RingEntries /\ 1 \in 1 .. MaxSubmits + 1 /\ 0 \in 0 .. MaxErrors
  BY IoUringAssumption, SMT
<1> QED  BY <1>1 DEF UringInit, RestOK

\* Together the invariants give the type.
LEMMA TypeEnough ==
    ASSUME BuffersInv, RecvInv, WireInv, ConnInv, RestOK
    PROVE  TypeOK
<1>1. /\ completedRecv \in Seq(Result) /\ Len(completedRecv) <= 1 /\ cqRecvs \in Seq(Result)
  <2>1. <<>> \in Seq(Result) /\ Len(<<>>) <= 1
    BY SMT
  <2>2. \A r \in Result : <<r>> \in Seq(Result) /\ Len(<<r>>) <= 1
    BY SMT
  <2> QED  BY <2>1, <2>2 DEF RecvInv
<1>2. kern \in Seq(Nat)
  BY DEF WireInv, LineOK
<1>3. UringTypeOK
  BY <1>1, <1>2 DEF UringTypeOK, RestOK, BuffersInv, RecvInv, WireInv
<1>4. jobs \in Seq([id : Nat \ {0}, len : TxLens]) /\ Len(jobs) = nextId - 1
  BY DEF ConnInv, Job
<1> QED  BY <1>3, <1>4 DEF TypeOK, ConnInv

-----------------------------------------------------------------------------

UringInv == BuffersInv /\ RecvInv /\ WireInv /\ ConnInv /\ RestOK

\* The invariants hold together of a connection and its ring.
LEMMA ConnAlways ==
    ASSUME Seq(Nat) \subseteq Payload
    PROVE  Spec => []UringInv
<1>1. Init => UringInv
  BY BuffersInit, RecvInit, WireInit, ConnInit, RestInit DEF Init, UringInv
<1>2. UringInv /\ [Next]_vars => UringInv'
  <2> SUFFICES ASSUME UringInv, [Next]_vars PROVE UringInv'
    OBVIOUS
  <2>1. BuffersInv /\ RecvInv /\ WireInv /\ ConnInv /\ RestOK
    BY DEF UringInv
  <2>2. [UringNext]_uringVars
    BY <2>1, RingStep
  <2>3. BuffersInv' /\ RecvInv' /\ WireInv' /\ RestOK'
    BY <2>1, <2>2, BuffersNext, RecvNext, WireNext, RestNext
  <2>4. ConnInv'
    BY <2>1, ConnNext
  <2> QED  BY <2>3, <2>4 DEF UringInv
<1> QED  BY <1>1, <1>2, PTL DEF Spec

(* The state of a connection keeps its type, and the code its bounds: the  *)
(* submission queue never holds more than RING_ENTRIES and completed_recvs *)
(* never more than one result.  For any specifications and transaction     *)
(* lengths, where the ring takes every byte string.                        *)
THEOREM ConnTypes ==
    ASSUME Seq(Nat) \subseteq Payload
    PROVE  Spec => []TypeOK
<1>1. UringInv => TypeOK
  BY TypeEnough DEF UringInv
<1> QED  BY <1>1, ConnAlways, PTL

(* What leaves for the peer is in job order, each send from its own job's  *)
(* request with the length of that very body, and as long as no call and   *)
(* no send has failed or been cut short the peer can read all of it: for   *)
(* any set of well-placed specifications, and any transactions, mode, ring *)
(* size and failures.  Splice over the same template and the same out      *)
(* buffer never leaves anything of an earlier job, and no buffer is freed  *)
(* or reused before the kernel has read it.                                *)
THEOREM RequestsCorrect ==
    ASSUME Seq(Nat) \subseteq Payload
    PROVE  Spec => []RequestsOnWire
<1>1. UringInv => RequestsOnWire
  <2> SUFFICES ASSUME UringInv PROVE RequestsOnWire
    OBVIOUS
  <2>1. WireInv /\ ConnInv
    BY DEF UringInv
  <2>2. DOMAIN wire = 1 .. Len(wire)
    BY <2>1, LenProperties DEF WireInv
  <2>3. \A k \in 1 .. Len(wire) : wire[k].bytes = Request(spec, jobs[wire[k].id])
    BY <2>1 DEF ConnInv, AllFilled, Filled
  <2>4. ASSUME errors = 0 PROVE Readable = DOMAIN wire
    <3>1. \A i \in 1 .. Len(wire) : wire[i].id = i /\ wire[i].whole
      BY <2>1, <2>4 DEF WireInv
    <3>2. \A k \in 1 .. Len(wire) : \A i \in 1 .. k : i \in 1 .. Len(wire)
      BY <2>1, LenProperties, SMT DEF WireInv
    <3> QED  BY <2>2, <3>1, <3>2 DEF Readable
  <2> QED  BY <2>1, <2>2, <2>3, <2>4 DEF RequestsOnWire, WireInv
<1> QED  BY <1>1, ConnAlways, PTL

(* Where the body slot takes a transaction of MAX_TX_LEN, splice never     *)
(* answers BodyTooLarge or ContentLengthOverflow, whatever was spliced     *)
(* before: for any specification whose content length has room for the     *)
(* length of the whole request.                                            *)
THEOREM LengthsCorrect ==
    ASSUME Seq(Nat) \subseteq Payload
    PROVE  Spec => []EveryLengthFits
<1>1. UringInv => EveryLengthFits
  <2> SUFFICES ASSUME UringInv, tpl.res = "ok", Base64Len(MaxTxLen) <= spec.maxLen,
                      NEW n \in 0 .. MaxTxLen
               PROVE  Splice(tpl, [id |-> 1, len |-> n]).res = "ok"
    BY DEF EveryLengthFits
  <2>1. PICK f \in Nat, oc \in Nat, ob \in Nat : Compiled(spec, tpl, f, oc, ob)
    BY DEF UringInv, ConnInv
  <2>2. /\ spec.bytes \in Seq(Nat) /\ spec.maxLen \in Nat
        /\ Len(spec.bytes) + spec.maxLen < 10 ^ 9
        /\ Len(spec.bytes) + spec.maxLen < 10 ^ Len(ClSentinel)
    BY SpecIs DEF UringInv, ConnInv
  <2>3. PICK tx : tx = [id |-> 1, len |-> n]
    OBVIOUS
  <2>4. tx.id \in Nat /\ tx.len \in 0 .. MaxTxLen
    BY <2>3
  <2> QED  BY <2>1, <2>2, <2>3, <2>4, LengthsFit, SMTT(30)
<1> QED  BY <1>1, ConnAlways, PTL

(* A connection is one of the users the ring is specified for: what is     *)
(* proved of the ring alone, BuffersAlive and ReadsExact, is true of it.   *)
THEOREM ConnUsesRing ==
    ASSUME Seq(Nat) \subseteq Payload
    PROVE  Spec => UringSpec /\ []BuffersAlive /\ []ReadsExact
<1>1. Init => UringInit
  BY DEF Init
<1>2. UringInv /\ [Next]_vars => [UringNext]_uringVars
  BY RingStep DEF UringInv
<1>3. Spec => UringSpec
  BY <1>1, <1>2, ConnAlways, PTL DEF Spec, UringSpec
<1> QED  BY <1>3, BuffersCorrect, ReadsCorrect, PTL
=============================================================================
