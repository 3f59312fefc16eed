--------------------------- MODULE EnvelopeProofs ---------------------------
(***************************************************************************)
(* compile and splice for every provider template and every transaction:   *)
(* what splice writes is the request the template stands for, and no       *)
(* length the code allows overflows.  That the registry's slot takes every *)
(* transaction is proved for the code's own constants.                     *)
(***************************************************************************)
EXTENDS Envelope, SequenceTheorems, TLAPS

(* div_ceil(3) * 4 never shrinks: the longest transaction needs the most   *)
(* room.                                                                   *)
LEMMA Base64Monotone ==
    ASSUME NEW m \in Nat, NEW n \in Nat, n <= m
    PROVE  Base64Len(n) <= Base64Len(m)
<1>1. (n + 2) \div 3 <= (m + 2) \div 3
  BY SMT
<1>2. (n + 2) \div 3 \in Nat /\ (m + 2) \div 3 \in Nat
  BY SMT
<1> QED  BY <1>1, <1>2, SMT DEF Base64Len

\* MAX_BODY is the encoded length of the longest transaction, no more.
LEMMA SlotExact == Base64Len(MAX_TX_LEN) = MAX_BODY /\ MAX_TX_LEN \in Nat
  BY SMT DEF Base64Len, MAX_TX_LEN, MAX_BODY

(* splice never answers BodyTooLarge for a transaction of at most          *)
(* MAX_TX_LEN bytes in a template whose slot has MAX_BODY, as those of the *)
(* registry have.                                                          *)
THEOREM SlotFits ==
    ASSUME NEW t, NEW tx, t.bodyMax = MAX_BODY, tx.len \in 0 .. MAX_TX_LEN
    PROVE  Splice(t, tx).res \in {"ok", "ContentLengthOverflow"}
<1>1. tx.len \in Nat /\ tx.len <= MAX_TX_LEN
  BY SlotExact, SMT
<1>2. Base64Len(tx.len) <= t.bodyMax
  BY <1>1, SlotExact, Base64Monotone
<1>3. Base64Len(tx.len) \in Nat /\ MAX_BODY \in Nat
  <2>1. (tx.len + 2) \div 3 \in Nat
    BY <1>1, SMT
  <2> QED  BY <2>1, SMT DEF Base64Len, MAX_BODY
<1>4. ~(Base64Len(tx.len) > t.bodyMax)
  BY <1>2, <1>3, SMT
<1> QED  BY <1>4 DEF Splice

-----------------------------------------------------------------------------
(* Sequences of bytes.                                                     *)

\* What concatenation makes of two sequences of bytes.
LEMMA ConcatBytes ==
    ASSUME NEW s \in Seq(Nat), NEW t \in Seq(Nat)
    PROVE  /\ s \o t \in Seq(Nat) /\ Len(s \o t) = Len(s) + Len(t)
           /\ \A i \in 1 .. Len(s) : (s \o t)[i] = s[i]
           /\ \A i \in 1 .. Len(t) : (s \o t)[Len(s) + i] = t[i]
<1>1. Len(s) \in Nat /\ Len(t) \in Nat
  BY LenProperties
<1>2. /\ s \o t \in Seq(Nat) /\ Len(s \o t) = Len(s) + Len(t)
      /\ \A i \in 1 .. Len(s) + Len(t) : (s \o t)[i] = IF i <= Len(s) THEN s[i] ELSE t[i - Len(s)]
  BY ConcatProperties
<1>3. \A i \in 1 .. Len(s) : i \in 1 .. Len(s) + Len(t) /\ i <= Len(s)
  BY <1>1, SMT
<1>4. \A i \in 1 .. Len(t) :
         /\ Len(s) + i \in 1 .. Len(s) + Len(t)
         /\ ~(Len(s) + i <= Len(s)) /\ Len(s) + i - Len(s) = i
  BY <1>1, SMT
<1> QED  BY <1>2, <1>3, <1>4

\* s and t have the same bytes.
LEMMA SameBytes ==
    ASSUME NEW s \in Seq(Nat), NEW t \in Seq(Nat), Len(s) = Len(t),
           \A i \in 1 .. Len(s) : s[i] = t[i]
    PROVE  s = t
  BY SeqEqual

\* r is s with the n bytes after offset off replaced by part.
Put(r, s, off, n, part) ==
    /\ r \in Seq(Nat) /\ Len(r) = Len(s) - n + Len(part)
    /\ \A i \in 1 .. off : r[i] = s[i]
    /\ \A i \in 1 .. Len(part) : r[off + i] = part[i]
    /\ \A i \in 1 .. Len(s) - off - n : r[off + Len(part) + i] = s[off + n + i]

\* That is what a prefix, the part and a suffix make.
LEMMA PutBytes ==
    ASSUME NEW s \in Seq(Nat), NEW off \in Nat, NEW n \in Nat, off + n <= Len(s),
           NEW part \in Seq(Nat)
    PROVE  Put(SubSeq(s, 1, off) \o part \o SubSeq(s, off + n + 1, Len(s)), s, off, n, part)
<1>0. Len(s) \in Nat /\ Len(part) \in Nat
  BY LenProperties
<1>1. PICK a : a = SubSeq(s, 1, off)
  OBVIOUS
<1>2. PICK c : c = SubSeq(s, off + n + 1, Len(s))
  OBVIOUS
<1>3. a \in Seq(Nat) /\ Len(a) = off /\ \A i \in 1 .. off : a[i] = s[i]
  <2>1. a \in Seq(Nat) /\ Len(a) = off
    BY <1>0, <1>1, SMT
  <2>2. \A i \in 1 .. off : a[i] = s[i]
    BY <1>0, <1>1, SMT
  <2> QED  BY <2>1, <2>2
<1>4. /\ c \in Seq(Nat) /\ Len(c) = Len(s) - off - n
      /\ \A i \in 1 .. Len(s) - off - n : c[i] = s[off + n + i]
  <2>1. c \in Seq(Nat) /\ Len(c) = Len(s) - off - n
    BY <1>0, <1>2, SMT
  <2>2. \A i \in 1 .. Len(s) - off - n : c[i] = s[off + n + i]
    BY <1>0, <1>2, SMT
  <2> QED  BY <2>1, <2>2
<1>5. PICK b : b = a \o part
  OBVIOUS
<1>6. /\ b \in Seq(Nat) /\ Len(b) = off + Len(part)
      /\ \A i \in 1 .. off : b[i] = a[i]
      /\ \A i \in 1 .. Len(part) : b[off + i] = part[i]
  BY <1>3, <1>5, ConcatBytes
<1>7. PICK r : r = b \o c
  OBVIOUS
<1>8. /\ r \in Seq(Nat) /\ Len(r) = Len(b) + Len(c)
      /\ \A i \in 1 .. Len(b) : r[i] = b[i]
      /\ \A i \in 1 .. Len(c) : r[Len(b) + i] = c[i]
  BY <1>4, <1>6, <1>7, ConcatBytes, ZenonT(30)
<1>9. Len(r) = Len(s) - n + Len(part)
  <2>1. Len(b) = off + Len(part) /\ Len(c) = Len(s) - off - n /\ Len(r) = Len(b) + Len(c)
    BY <1>4, <1>6, <1>8
  <2> QED  BY <1>0, <2>1, SMT
<1>10. /\ \A i \in 1 .. off : i \in 1 .. Len(b)
       /\ \A i \in 1 .. Len(part) : off + i \in 1 .. Len(b)
  <2>1. Len(b) = off + Len(part)
    BY <1>6
  <2> QED  BY <1>0, <2>1, SMT
<1>a. \A i \in 1 .. off : r[i] = s[i]
  BY <1>3, <1>6, <1>8, <1>10
<1>b. \A i \in 1 .. Len(part) : r[off + i] = part[i]
  BY <1>6, <1>8, <1>10
<1>c. \A i \in 1 .. Len(s) - off - n : r[off + Len(part) + i] = s[off + n + i]
  <2>1. \A i \in 1 .. Len(c) : r[off + Len(part) + i] = c[i]
    BY <1>6, <1>8
  <2> QED  BY <1>4, <2>1
<1>11. Put(r, s, off, n, part)
  BY <1>8, <1>9, <1>a, <1>b, <1>c DEF Put
<1> QED  BY <1>1, <1>2, <1>5, <1>7, <1>11

\* Put says what r is.
LEMMA PutUnique ==
    ASSUME NEW s \in Seq(Nat), NEW off \in Nat, NEW n \in Nat, off + n <= Len(s),
           NEW part \in Seq(Nat),
           NEW r, Put(r, s, off, n, part), NEW t, Put(t, s, off, n, part)
    PROVE  r = t
<1>1. r \in Seq(Nat) /\ t \in Seq(Nat) /\ Len(r) = Len(t)
  BY DEF Put
<1>2. Len(s) \in Nat /\ Len(part) \in Nat /\ Len(r) = Len(s) - n + Len(part)
  BY LenProperties DEF Put
<1>3. ASSUME NEW i \in 1 .. Len(r) PROVE r[i] = t[i]
  <2>1. CASE i <= off
    <3>1. i \in 1 .. off
      BY <1>2, <2>1, SMT
    <3> QED  BY <3>1 DEF Put
  <2>2. CASE i > off /\ i <= off + Len(part)
    <3>1. i - off \in 1 .. Len(part) /\ i = off + (i - off)
      BY <1>2, <2>2, SMT
    <3>2. r[off + (i - off)] = part[i - off] /\ t[off + (i - off)] = part[i - off]
      BY <3>1, Zenon DEF Put
    <3> QED  BY <3>1, <3>2
  <2>3. CASE i > off + Len(part)
    <3> DEFINE k == i - off - Len(part)
    <3>1. k \in 1 .. Len(s) - off - n /\ i = off + Len(part) + k
      BY <1>2, <2>3, SMT
    <3> HIDE DEF k
    <3>2. r[off + Len(part) + k] = s[off + n + k] /\ t[off + Len(part) + k] = s[off + n + k]
      BY <3>1, Zenon DEF Put
    <3> QED  BY <3>1, <3>2
  <2> QED  BY <1>2, <2>1, <2>2, <2>3, SMT
<1> QED  BY <1>1, <1>3, SameBytes

\* needle is at offset i of s when its bytes are.
LEMMA AtBytes ==
    ASSUME NEW s \in Seq(Nat), NEW needle \in Seq(Nat), NEW i \in Nat
    PROVE  At(s, needle, i) <=> /\ i + Len(needle) <= Len(s)
                                /\ \A j \in 1 .. Len(needle) : s[i + j] = needle[j]
<1>0. Len(s) \in Nat /\ Len(needle) \in Nat
  BY LenProperties
<1> SUFFICES ASSUME i + Len(needle) <= Len(s)
             PROVE  SubSeq(s, i + 1, i + Len(needle)) = needle
                        <=> \A j \in 1 .. Len(needle) : s[i + j] = needle[j]
  BY DEF At
<1>1. PICK a : a = SubSeq(s, i + 1, i + Len(needle))
  OBVIOUS
<1>2. a \in Seq(Nat) /\ Len(a) = Len(needle)
  BY <1>0, <1>1, SMT
<1>3. ASSUME NEW j \in 1 .. Len(needle) PROVE a[j] = s[i + j]
  <2>1. SubSeq(s, i + 1, i + Len(needle))[j] = s[(i + 1) + j - 1]
    BY <1>0, SMTT(30)
  <2>2. (i + 1) + j - 1 = i + j
    BY <1>0, SMT
  <2> QED  BY <1>1, <2>1, <2>2
<1>4. a = needle <=> \A j \in 1 .. Len(needle) : a[j] = needle[j]
  BY <1>2, SameBytes
<1> QED  BY <1>1, <1>3, <1>4

\* The offsets of a needle.
LEMMA OffsetsIs ==
    ASSUME NEW s \in Seq(Nat), NEW needle \in Seq(Nat)
    PROVE  \A k : k \in Offsets(s, needle) <=> k \in Nat /\ At(s, needle, k)
<1>0. Len(s) \in Nat /\ Len(needle) \in Nat
  BY LenProperties
<1>1. ASSUME NEW k \in Nat, At(s, needle, k) PROVE k \in 0 .. Len(s)
  <2>1. k + Len(needle) <= Len(s)
    BY <1>1 DEF At
  <2> QED  BY <1>0, <2>1, SMT
<1>2. \A k : k \in 0 .. Len(s) => k \in Nat
  BY <1>0, SMT
<1> QED  BY <1>1, <1>2 DEF Offsets

\* What the first place of a needle is.
LEMMA FirstIs ==
    ASSUME NEW s \in Seq(Nat), NEW needle \in Seq(Nat), NEW f
    PROVE  f \in FindFirst(s, needle) <=>
               /\ f \in Nat /\ At(s, needle, f)
               /\ \A k \in Nat : At(s, needle, k) => f <= k
  BY OffsetsIs DEF FindFirst

\* A blank line at offset i is one byte.
LEMMA BlankAt ==
    ASSUME NEW s \in Seq(Nat), NEW i \in Nat
    PROVE  At(s, <<BlankLine>>, i) <=> i + 1 <= Len(s) /\ s[i + 1] = BlankLine
<1>1. PICK e : e = <<BlankLine>>
  OBVIOUS
<1>2. e \in Seq(Nat) /\ Len(e) = 1 /\ e[1] = BlankLine
  BY <1>1, SMT DEF BlankLine
<1>3. \A j \in 1 .. 1 : j = 1
  BY SMT
<1>4. At(s, e, i) <=> /\ i + Len(e) <= Len(s)
                      /\ \A j \in 1 .. Len(e) : s[i + j] = e[j]
  BY <1>2, AtBytes
<1>5. (\A j \in 1 .. Len(e) : s[i + j] = e[j]) <=> s[i + 1] = BlankLine
  BY <1>2, <1>3
<1> QED  BY <1>1, <1>2, <1>4, <1>5

\* The first blank line of s is at offset f.
BlankFirst(s, f) ==
    /\ f \in Nat /\ f + 1 <= Len(s) /\ s[f + 1] = BlankLine
    /\ \A k \in Nat : k + 1 <= Len(s) /\ s[k + 1] = BlankLine => f <= k

\* Where the blank line is first found.
LEMMA BlankFirstIs ==
    ASSUME NEW s \in Seq(Nat), NEW f
    PROVE  f \in FindFirst(s, <<BlankLine>>) <=> BlankFirst(s, f)
<1>1. <<BlankLine>> \in Seq(Nat)
  BY DEF BlankLine
<1>2. f \in FindFirst(s, <<BlankLine>>) <=>
               /\ f \in Nat /\ At(s, <<BlankLine>>, f)
               /\ \A k \in Nat : At(s, <<BlankLine>>, k) => f <= k
  BY <1>1, FirstIs
<1>3. \A i \in Nat : At(s, <<BlankLine>>, i) <=> i + 1 <= Len(s) /\ s[i + 1] = BlankLine
  BY BlankAt
<1> QED  BY <1>2, <1>3 DEF BlankFirst

\* The first blank line stays the first where nothing before it changes.
LEMMA FirstKept ==
    ASSUME NEW s \in Seq(Nat), NEW r \in Seq(Nat), NEW f \in FindFirst(s, <<BlankLine>>),
           f < Len(r), \A i \in 1 .. f + 1 : r[i] = s[i]
    PROVE  FindFirst(r, <<BlankLine>>) = {f}
<1>0. Len(s) \in Nat /\ Len(r) \in Nat /\ f \in Nat /\ BlankFirst(s, f)
  BY LenProperties, BlankFirstIs DEF BlankFirst
<1>1. f + 1 <= Len(r) /\ f + 1 \in 1 .. f + 1 /\ r[f + 1] = s[f + 1]
  BY <1>0, SMT
<1>2. ASSUME NEW k \in Nat, k + 1 <= Len(r), r[k + 1] = BlankLine
      PROVE  f <= k
  <2>1. SUFFICES ASSUME k < f PROVE FALSE
    BY <1>0, SMT
  <2>2. k + 1 \in 1 .. f + 1 /\ k + 1 <= Len(s)
    BY <1>0, <2>1, SMT DEF BlankFirst
  <2>3. f <= k
    BY <1>0, <1>2, <2>2 DEF BlankFirst
  <2> QED  BY <1>0, <2>1, <2>3, SMT
<1>3. BlankFirst(r, f)
  BY <1>0, <1>1, <1>2 DEF BlankFirst
<1>4. ASSUME NEW g, BlankFirst(r, g) PROVE g = f
  <2>1. g <= f /\ f <= g /\ g \in Nat
    BY <1>3, <1>4 DEF BlankFirst
  <2> QED  BY <1>0, <2>1, SMT
<1>5. \A g : g \in FindFirst(r, <<BlankLine>>) <=> g = f
  BY <1>3, <1>4, BlankFirstIs
<1> QED  BY <1>5

-----------------------------------------------------------------------------
(* The content length.                                                     *)

\* p is 10 ^ e.
Power(e, p) ==
    \/ e = 0 /\ p = 1
    \/ e = 1 /\ p = 10
    \/ e = 2 /\ p = 100
    \/ e = 3 /\ p = 1000
    \/ e = 4 /\ p = 10000
    \/ e = 5 /\ p = 100000
    \/ e = 6 /\ p = 1000000
    \/ e = 7 /\ p = 10000000
    \/ e = 8 /\ p = 100000000

\* The powers of ten the digits are made of.
LEMMA PowerIs == ASSUME NEW e \in 0 .. 8 PROVE Power(e, 10 ^ e)
<1>a. e = 0 \/ e = 1 \/ e = 2 \/ e = 3 \/ e = 4 \/ e = 5 \/ e = 6 \/ e = 7 \/ e = 8
  BY SMT
<1> USE DEF Power
<1>0. CASE e = 0  BY <1>0, SMT
<1>1. CASE e = 1  BY <1>1, SMT
<1>2. CASE e = 2  BY <1>2, SMT
<1>3. CASE e = 3  BY <1>3, SMT
<1>4. CASE e = 4  BY <1>4, SMT
<1>5. CASE e = 5  BY <1>5, SMT
<1>6. CASE e = 6  BY <1>6, SMT
<1>7. CASE e = 7  BY <1>7, SMT
<1>8. CASE e = 8  BY <1>8, SMT
<1> QED  BY <1>a, <1>0, <1>1, <1>2, <1>3, <1>4, <1>5, <1>6, <1>7, <1>8

\* Powers of ten grow.
LEMMA PowersGrow ==
    ASSUME NEW c \in 0 .. 8, NEW e \in 0 .. 8, c <= e
    PROVE  10 ^ c <= 10 ^ e /\ 10 ^ e \in Nat /\ 10 ^ c \in Nat /\ 10 ^ e > 0
<1>1. Power(c, 10 ^ c) /\ Power(e, 10 ^ e)
  BY PowerIs
<1>2. ASSUME NEW p, NEW q, Power(c, p), Power(e, q)
      PROVE  p <= q /\ q \in Nat /\ p \in Nat /\ q > 0
  BY <1>2, SMT DEF Power
<1> QED  BY <1>1, <1>2, Zenon

\* A length below 10 ^ 9 has one to nine digits.
LEMMA DigitsFit ==
    ASSUME NEW n \in Nat, n < 10 ^ 9
    PROVE  /\ Digits(n) \in Seq(Nat) /\ Len(Digits(n)) \in 1 .. 9
           /\ \A i \in 1 .. Len(Digits(n)) : Digits(n)[i] <= 9
<1> DEFINE width == CHOOSE w \in 1 .. 9 : n < 10 ^ w /\ (w = 1 \/ 10 ^ (w - 1) <= n)
<1>1. \E w \in 1 .. 9 : n < 10 ^ w /\ (w = 1 \/ 10 ^ (w - 1) <= n)
  BY SMT
<1>2. width \in 1 .. 9
  BY <1>1
<1>3. Digits(n) = [i \in 1 .. width |-> (n \div 10 ^ (width - i)) % 10]
  BY DEF Digits
<1> HIDE DEF width
<1>4. PICK d : d = Digits(n)
  OBVIOUS
<1>5. ASSUME NEW i \in 1 .. width
      PROVE  (n \div 10 ^ (width - i)) % 10 \in 0 .. 9
  <2>1. width - i \in 0 .. 8
    BY <1>2, SMT
  <2>2. PICK p : p = 10 ^ (width - i)
    OBVIOUS
  <2>3. p \in Nat /\ p > 0
    <3>1. width - i <= width - i
      BY <2>1, SMT
    <3> QED  BY <2>1, <2>2, <3>1, PowersGrow
  <2>4. (n \div p) % 10 \in 0 .. 9
    BY <2>3, SMT
  <2> QED  BY <2>2, <2>4
<1>6. d \in [1 .. width -> 0 .. 9] /\ width \in Nat
  BY <1>2, <1>3, <1>4, <1>5
<1>7. d \in Seq(Nat) /\ Len(d) = width
  BY <1>6
<1>8. \A i \in 1 .. width : d[i] <= 9
  BY <1>6
<1> QED  BY <1>2, <1>4, <1>7, <1>8

\* Digits and spaces only: no byte of d is in the body sentinel.
Plain(d) == \A i \in 1 .. Len(d) : d[i] <= Space

\* With the spaces after it, the content length fills its place.
LEMMA PaddedFits ==
    ASSUME NEW n \in Nat, n < 10 ^ 9, Len(Digits(n)) <= Len(ClSentinel)
    PROVE  /\ Padded(Digits(n)) \in Seq(Nat) /\ Len(Padded(Digits(n))) = Len(ClSentinel)
           /\ Plain(Padded(Digits(n)))
<1>1. PICK d : d = Digits(n)
  OBVIOUS
<1>2. /\ d \in Seq(Nat) /\ Len(d) \in Nat /\ Len(ClSentinel) \in Nat /\ Len(d) <= Len(ClSentinel)
      /\ \A i \in 1 .. Len(d) : d[i] <= 9
  BY <1>1, DigitsFit, EnvelopeAssumption, LenProperties
<1>a. Len(ClSentinel) - Len(d) \in Nat
  BY <1>2, SMT
<1>3. PICK k \in Nat : k = Len(ClSentinel) - Len(d)
  BY <1>a
<1>4. PICK p : p = Spaces(k)
  OBVIOUS
<1>5. p \in Seq(Nat) /\ Len(p) = k /\ \A i \in 1 .. k : p[i] = Space
  <2>1. p \in [1 .. k -> Nat] /\ \A i \in 1 .. k : p[i] = Space
    BY <1>4 DEF Spaces, Space
  <2> QED  BY <2>1
<1>6. PICK r : r = d \o p
  OBVIOUS
<1>7. /\ r \in Seq(Nat) /\ Len(r) = Len(d) + Len(p)
      /\ \A i \in 1 .. Len(d) : r[i] = d[i]
      /\ \A i \in 1 .. Len(p) : r[Len(d) + i] = p[i]
  BY <1>2, <1>5, <1>6, ConcatBytes
<1>8. ASSUME NEW i \in 1 .. Len(ClSentinel) PROVE r[i] <= Space
  <2>1. CASE i <= Len(d)
    <3>1. i \in 1 .. Len(d)
      BY <1>2, <2>1, SMT
    <3>2. r[i] = d[i] /\ d[i] \in Nat /\ d[i] <= 9
      BY <1>2, <1>7, <3>1, SMTT(30)
    <3> QED  BY <3>2, SMT DEF Space
  <2>2. CASE i > Len(d)
    <3>1. i - Len(d) \in 1 .. k /\ i = Len(d) + (i - Len(d))
      BY <1>2, <1>3, <2>2, SMT
    <3>2. r[Len(d) + (i - Len(d))] = Space
      BY <1>5, <1>7, <3>1
    <3> QED  BY <3>1, <3>2, SMT DEF Space
  <2> QED  BY <1>2, <2>1, <2>2, SMT
<1>9. Len(r) = Len(ClSentinel)
  BY <1>2, <1>3, <1>5, <1>7, SMT
<1> QED  BY <1>1, <1>3, <1>4, <1>6, <1>7, <1>8, <1>9 DEF Padded, Plain

-----------------------------------------------------------------------------
(* compile.                                                                *)

\* needle is in s once, at offset o.
Once(s, needle, o) ==
    /\ o \in Nat /\ At(s, needle, o) /\ \A k \in Nat : At(s, needle, k) => k = o

\* The offset is then the only one,
LEMMA OnceIs ==
    ASSUME NEW s \in Seq(Nat), NEW needle \in Seq(Nat), NEW o, Once(s, needle, o)
    PROVE  Offsets(s, needle) = {o} /\ FindUnique(s, needle) = {o}
<1>1. Offsets(s, needle) = {o}
  BY OffsetsIs DEF Once
<1> QED  BY <1>1 DEF FindUnique

\* which is what find_unique looks for.
LEMMA UniqueIs ==
    ASSUME NEW s \in Seq(Nat), NEW needle \in Seq(Nat), FindUnique(s, needle) # {}
    PROVE  \E o \in Nat : Once(s, needle, o)
<1>1. PICK o : Offsets(s, needle) = {o}
  BY DEF FindUnique
<1>2. \A k : k \in Nat /\ At(s, needle, k) <=> k = o
  BY <1>1, OffsetsIs
<1> QED  BY <1>2, SMTT(30) DEF Once

\* The only member of a set.
LEMMA TheOne == ASSUME NEW x PROVE The({x}) = x
  BY DEF The

(* What compile makes of a specification with its content length before    *)
(* the blank line at f and its slot after it: the slot of maxLen bytes in  *)
(* place of the body sentinel.                                             *)
Compiled(s, t, f, oc, ob) ==
    /\ Once(s.bytes, BodySentinel, ob) /\ Once(s.bytes, ClSentinel, oc)
    /\ f \in FindFirst(s.bytes, <<BlankLine>>)
    /\ oc + Len(ClSentinel) <= f /\ f < ob
    /\ t.buf \in Seq(Nat) /\ Len(t.buf) = Len(s.bytes) - Len(BodySentinel) + s.maxLen
    /\ \A i \in 1 .. ob : t.buf[i] = s.bytes[i]
    /\ \A i \in 1 .. Len(s.bytes) - ob - Len(BodySentinel) :
          t.buf[ob + s.maxLen + i] = s.bytes[ob + Len(BodySentinel) + i]
    /\ t = [res |-> "ok", buf |-> t.buf, out |-> t.out, bodyOff |-> ob, bodyMax |-> s.maxLen,
            clOff |-> oc, bodyStart |-> f + 1]

\* The offsets it records.
LEMMA CompiledFields ==
    ASSUME NEW s, NEW t, NEW f, NEW oc, NEW ob, Compiled(s, t, f, oc, ob)
    PROVE  t.bodyOff = ob /\ t.bodyMax = s.maxLen /\ t.clOff = oc /\ t.bodyStart = f + 1
<1>1. PICK b, o, m :
          t = [res |-> "ok", buf |-> b, out |-> o, bodyOff |-> ob, bodyMax |-> m,
               clOff |-> oc, bodyStart |-> f + 1] /\ m = s.maxLen
  BY DEF Compiled
<1> QED  BY <1>1

\* compile makes such a template, if it makes one.
LEMMA CompileMakes ==
    ASSUME NEW s, s.bytes \in Seq(Nat), s.maxLen \in Nat, Compile(s).res = "ok", WellPlaced(s)
    PROVE  \E f, oc, ob \in Nat : Compiled(s, Compile(s), f, oc, ob)
<1>1. PICK b \in Seq(Nat), m \in Nat : s.bytes = b /\ s.maxLen = m
  OBVIOUS
<1>2. /\ BodySentinel \in Seq(Nat) /\ ClSentinel \in Seq(Nat) /\ Len(BodySentinel) \in Nat
      /\ Len(ClSentinel) \in Nat /\ Len(b) \in Nat
  BY EnvelopeAssumption, LenProperties
<1>3. FindUnique(b, BodySentinel) # {} /\ FindUnique(b, ClSentinel) # {} /\ ~(m < Len(BodySentinel))
  BY <1>1 DEF Compile
<1>4. PICK ob \in Nat : Once(b, BodySentinel, ob)
  BY <1>2, <1>3, UniqueIs
<1>5. PICK oc \in Nat : Once(b, ClSentinel, oc)
  BY <1>2, <1>3, UniqueIs
<1>6. PICK f \in FindFirst(b, <<BlankLine>>) : oc + Len(ClSentinel) <= f /\ f < ob
  <2>1. Offsets(b, BodySentinel) = {ob} /\ Offsets(b, ClSentinel) = {oc}
    BY <1>2, <1>4, <1>5, OnceIs
  <2> QED  BY <1>1, <2>1 DEF WellPlaced
<1>7. f \in Nat /\ f + 1 <= Len(b)
  BY BlankFirstIs DEF BlankFirst
<1>8. ob + Len(BodySentinel) <= Len(b)
  BY <1>4 DEF Once, At
<1> DEFINE pad == IF m = Len(BodySentinel) THEN b
                  ELSE SubSeq(b, 1, ob) \o Spaces(m)
                           \o SubSeq(b, ob + Len(BodySentinel) + 1, Len(b))
<1>9. PICK buf : buf = pad
  OBVIOUS
<1>10. /\ buf \in Seq(Nat) /\ Len(buf) = Len(b) - Len(BodySentinel) + m
       /\ \A i \in 1 .. ob : buf[i] = b[i]
       /\ \A i \in 1 .. Len(b) - ob - Len(BodySentinel) :
             buf[ob + m + i] = b[ob + Len(BodySentinel) + i]
  <2>1. CASE m = Len(BodySentinel)
    <3>1. Len(b) = Len(b) - Len(BodySentinel) + m
      BY <1>2, <2>1, SMT
    <3> QED  BY <1>9, <2>1, <3>1
  <2>2. CASE m # Len(BodySentinel)
    <3>1. Spaces(m) \in Seq(Nat) /\ Len(Spaces(m)) = m
      <4>1. Spaces(m) \in [1 .. m -> Nat]
        BY DEF Spaces, Space
      <4> QED  BY <4>1
    <3>2. Put(buf, b, ob, Len(BodySentinel), Spaces(m))
      BY <1>2, <1>8, <1>9, <2>2, <3>1, PutBytes
    <3> QED  BY <3>1, <3>2 DEF Put
  <2> QED  BY <2>1, <2>2
<1>11. FindFirst(buf, <<BlankLine>>) = {f}
  <2>1. \A i \in 1 .. f + 1 : i \in 1 .. ob
    BY <1>6, <1>7, SMT
  <2>2. \A i \in 1 .. f + 1 : buf[i] = b[i]
    BY <1>10, <2>1
  <2>3. f < Len(buf)
    BY <1>2, <1>3, <1>6, <1>7, <1>8, <1>10, SMT
  <2> QED  BY <1>6, <1>10, <2>2, <2>3, FirstKept
<1>12. /\ FindUnique(b, BodySentinel) = {ob} /\ The(FindUnique(b, BodySentinel)) = ob
       /\ FindUnique(b, ClSentinel) = {oc} /\ The(FindUnique(b, ClSentinel)) = oc
       /\ The(FindFirst(buf, <<BlankLine>>)) = f
  BY <1>2, <1>4, <1>5, <1>11, OnceIs, TheOne
<1>13. ~(oc >= ob + Len(BodySentinel)) /\ oc + 0 = oc
  BY <1>2, <1>6, <1>7, SMT
<1>14. PICK t : t = Compile(s)
  OBVIOUS
<1>15. t = [res |-> "ok", buf |-> buf, out |-> <<>>,
            bodyOff |-> ob, bodyMax |-> m, clOff |-> oc, bodyStart |-> f + 1]
  BY <1>1, <1>3, <1>9, <1>11, <1>12, <1>13, <1>14 DEF Compile
<1>16. /\ t.buf = buf
       /\ t = [res |-> "ok", buf |-> t.buf, out |-> t.out,
               bodyOff |-> ob, bodyMax |-> m, clOff |-> oc, bodyStart |-> f + 1]
  BY <1>15
<1>17. Compiled(s, t, f, oc, ob)
  BY <1>1, <1>4, <1>5, <1>6, <1>10, <1>16 DEF Compiled
<1> QED  BY <1>7, <1>14, <1>17

-----------------------------------------------------------------------------
(* splice.                                                                 *)

\* A template stays one whatever is spliced into it.
LEMMA OutOnly ==
    ASSUME NEW s, NEW t, NEW f, NEW oc, NEW ob, Compiled(s, t, f, oc, ob),
           NEW out, NEW u, u = [t EXCEPT !.out = out]
    PROVE  Compiled(s, u, f, oc, ob)
<1>1. PICK b, o, m :
          /\ t = [res |-> "ok", buf |-> b, out |-> o, bodyOff |-> ob, bodyMax |-> m,
                  clOff |-> oc, bodyStart |-> f + 1]
          /\ m = s.maxLen /\ b = t.buf
  BY DEF Compiled
<1>2. u = [res |-> "ok", buf |-> b, out |-> out, bodyOff |-> ob, bodyMax |-> m,
           clOff |-> oc, bodyStart |-> f + 1]
  BY <1>1
<1>3. u.buf = b /\ u.out = out
  BY <1>2
<1> QED  BY <1>1, <1>2, <1>3 DEF Compiled

\* A transaction as splice encodes it.
LEMMA Base64Is ==
    ASSUME NEW tx, tx.id \in Nat, tx.len \in Nat
    PROVE  /\ Base64Len(tx.len) \in Nat
           /\ Base64(tx) \in Seq(Nat) /\ Len(Base64(tx)) = Base64Len(tx.len)
<1>1. PICK n \in Nat, id \in Nat : n = tx.len /\ id = tx.id
  OBVIOUS
<1>2. PICK k : k = Base64Len(n)
  OBVIOUS
<1>3. k \in Nat
  <2>1. (n + 2) \div 3 \in Nat
    BY SMT
  <2> QED  BY <1>2, <2>1, SMT DEF Base64Len
<1>4. Base64(tx) = [i \in 1 .. k |-> 100 * id + i]
  BY <1>1, <1>2 DEF Base64
<1>5. \A i \in 1 .. k : 100 * id + i \in Nat
  BY <1>3, SMT
<1>6. Base64(tx) \in [1 .. k -> Nat]
  BY <1>4, <1>5
<1> QED  BY <1>1, <1>2, <1>3, <1>6

\* Replacing the only occurrence.
LEMMA ReplaceIs ==
    ASSUME NEW s \in Seq(Nat), NEW needle \in Seq(Nat), NEW o, Once(s, needle, o),
           NEW value \in Seq(Nat)
    PROVE  Put(Replace(s, needle, value), s, o, Len(needle), value)
<1>1. The(Offsets(s, needle)) = o
  BY OnceIs, TheOne
<1>2. o \in Nat /\ o + Len(needle) <= Len(s) /\ Len(needle) \in Nat
  BY LenProperties DEF Once, At
<1> QED  BY <1>1, <1>2, PutBytes DEF Replace

(* Before the length is written, splice has the specification with the     *)
(* transaction in place of the body sentinel.                              *)
LEMMA SpliceFills ==
    ASSUME NEW s, s.bytes \in Seq(Nat), s.maxLen \in Nat, NEW t, NEW f, NEW oc, NEW ob,
           Compiled(s, t, f, oc, ob), NEW value \in Seq(Nat)
    PROVE  SubSeq(t.buf, 1, t.bodyOff) \o value
               \o SubSeq(t.buf, t.bodyOff + t.bodyMax + 1, Len(t.buf))
             = Replace(s.bytes, BodySentinel, value)
<1>1. PICK b \in Seq(Nat), m \in Nat, buf \in Seq(Nat) : s.bytes = b /\ s.maxLen = m /\ t.buf = buf
  BY DEF Compiled
<1>2. PICK n \in Nat, lb \in Nat : n = Len(BodySentinel) /\ lb = Len(b) /\ BodySentinel \in Seq(Nat)
  BY EnvelopeAssumption, LenProperties
<1>3. /\ t.bodyOff = ob /\ t.bodyMax = m /\ Once(b, BodySentinel, ob)
      /\ Len(buf) = lb - n + m
      /\ \A i \in 1 .. ob : buf[i] = b[i]
      /\ \A i \in 1 .. lb - ob - n : buf[ob + m + i] = b[ob + n + i]
  BY <1>1, <1>2, CompiledFields DEF Compiled
<1>4. ob \in Nat /\ ob + n <= lb
  BY <1>2, <1>3 DEF Once, At
<1>5. ob + m <= Len(buf) /\ Len(value) \in Nat
  BY <1>3, <1>4, LenProperties, SMT
<1>6. PICK r : r = SubSeq(buf, 1, ob) \o value \o SubSeq(buf, ob + m + 1, Len(buf))
  OBVIOUS
<1>7. Put(r, buf, ob, m, value)
  BY <1>4, <1>5, <1>6, PutBytes
<1>8. Put(r, b, ob, n, value)
  <2>1. Len(buf) - m + Len(value) = Len(b) - n + Len(value) /\ Len(buf) - ob - m = lb - ob - n
    BY <1>2, <1>3, <1>4, <1>5, SMT
  <2>2. r \in Seq(Nat) /\ Len(r) = Len(b) - n + Len(value)
    BY <1>7, <2>1 DEF Put
  <2>3. \A i \in 1 .. ob : r[i] = b[i]
    BY <1>3, <1>7 DEF Put
  <2>4. \A i \in 1 .. lb - ob - n : r[ob + Len(value) + i] = b[ob + n + i]
    BY <1>3, <1>7, <2>1 DEF Put
  <2> QED  BY <1>2, <1>7, <2>2, <2>3, <2>4 DEF Put
<1>9. Put(Replace(b, BodySentinel, value), b, ob, n, value)
  BY <1>2, <1>3, ReplaceIs
<1>10. r = Replace(b, BodySentinel, value)
  BY <1>2, <1>4, <1>8, <1>9, PutUnique
<1> QED  BY <1>1, <1>3, <1>6, <1>10

\* The length of a body is counted from the same blank line.
LEMMA BodyLenIs ==
    ASSUME NEW s, s.bytes \in Seq(Nat), NEW t, NEW f, NEW oc, NEW ob,
           Compiled(s, t, f, oc, ob), NEW value \in Seq(Nat),
           NEW r, r = Replace(s.bytes, BodySentinel, value)
    PROVE  /\ BodyLen(r) = Len(r) - t.bodyStart
           /\ Len(r) = Len(s.bytes) - Len(BodySentinel) + Len(value)
           /\ Len(r) - t.bodyStart \in Nat
<1>1. PICK b \in Seq(Nat) : b = s.bytes
  OBVIOUS
<1>2. /\ BodySentinel \in Seq(Nat) /\ Len(BodySentinel) \in Nat /\ Len(b) \in Nat
      /\ Len(value) \in Nat
  BY EnvelopeAssumption, LenProperties
<1>3. /\ Once(b, BodySentinel, ob) /\ f \in FindFirst(b, <<BlankLine>>) /\ f < ob
      /\ t.bodyStart = f + 1
  BY <1>1, CompiledFields DEF Compiled
<1>4. /\ f \in Nat /\ ob \in Nat /\ ob + Len(BodySentinel) <= Len(b)
  BY <1>3, BlankFirstIs DEF BlankFirst, Once, At
<1>5. Put(r, b, ob, Len(BodySentinel), value)
  BY <1>1, <1>2, <1>3, ReplaceIs
<1>6. r \in Seq(Nat) /\ Len(r) = Len(b) - Len(BodySentinel) + Len(value)
  BY <1>5 DEF Put
<1>7. f < Len(r) /\ Len(r) - (f + 1) \in Nat /\ \A i \in 1 .. f + 1 : i \in 1 .. ob
  <2>1. PICK n \in Nat, lb \in Nat, v \in Nat :
            n = Len(BodySentinel) /\ lb = Len(b) /\ v = Len(value)
    BY <1>2
  <2>2. PICK lr : lr = Len(r)
    OBVIOUS
  <2>3. lr = lb - n + v /\ f \in Nat /\ ob \in Nat /\ ob + n <= lb /\ f < ob
    BY <1>3, <1>4, <1>6, <2>1, <2>2
  <2>4. f < lr /\ lr - (f + 1) \in Nat /\ \A i \in 1 .. f + 1 : i \in 1 .. ob
    BY <2>3, SMT
  <2> QED  BY <2>2, <2>4
<1>8. \A i \in 1 .. f + 1 : r[i] = b[i]
  BY <1>5, <1>7 DEF Put
<1>9. The(FindFirst(r, <<BlankLine>>)) = f
  BY <1>3, <1>6, <1>7, <1>8, FirstKept, TheOne
<1> QED  BY <1>1, <1>3, <1>6, <1>7, <1>9 DEF BodyLen

\* A content length is not taken for the body sentinel.
LEMMA SentinelKept ==
    ASSUME NEW b \in Seq(Nat), NEW oc \in Nat, NEW ob, Once(b, BodySentinel, ob),
           oc + Len(ClSentinel) <= ob,
           NEW d \in Seq(Nat), Len(d) = Len(ClSentinel), Plain(d),
           NEW g, Put(g, b, oc, Len(ClSentinel), d)
    PROVE  Once(g, BodySentinel, ob) /\ Len(g) = Len(b)
<1>1. PICK n \in Nat, c \in Nat, lb \in Nat :
          n = Len(BodySentinel) /\ c = Len(ClSentinel) /\ lb = Len(b) /\ n > 0
  BY EnvelopeAssumption, LenProperties
<1>2. /\ BodySentinel \in Seq(Nat) /\ ob \in Nat /\ ob + n <= lb
      /\ \A i \in 1 .. n : BodySentinel[i] > Space
      /\ \A j \in 1 .. n : b[ob + j] = BodySentinel[j]
      /\ \A k \in Nat : At(b, BodySentinel, k) => k = ob
  BY <1>1, EnvelopeAssumption, AtBytes DEF Once
<1>3. /\ g \in Seq(Nat) /\ Len(g) = lb - c + c /\ lb - c + c = lb
      /\ \A i \in 1 .. oc : g[i] = b[i]
      /\ \A i \in 1 .. c : g[oc + i] = d[i]
      /\ \A i \in 1 .. lb - oc - c : g[oc + c + i] = b[oc + c + i]
  BY <1>1 DEF Put
<1>4. ASSUME NEW i \in 1 .. lb, i <= oc \/ i > oc + c PROVE g[i] = b[i]
  <2>1. CASE i <= oc
    <3>1. i \in 1 .. oc
      BY <2>1, SMT
    <3> QED  BY <1>3, <3>1
  <2>2. CASE i > oc + c
    <3> DEFINE k == i - oc - c
    <3>1. k \in 1 .. lb - oc - c /\ i = oc + c + k
      BY <1>1, <2>2, SMT
    <3> HIDE DEF k
    <3> QED  BY <1>3, <3>1
  <2> QED  BY <1>4, <2>1, <2>2
<1>5. ASSUME NEW i \in 1 .. lb, i > oc, i <= oc + c PROVE g[i] <= Space
  <2> DEFINE k == i - oc
  <2>1. k \in 1 .. c /\ i = oc + k
    BY <1>1, <1>5, SMT
  <2> HIDE DEF k
  <2> QED  BY <1>1, <1>3, <2>1 DEF Plain
<1>6. At(g, BodySentinel, ob)
  <2>1. \A j \in 1 .. n : ob + j \in 1 .. lb /\ ob + j > oc + c
    BY <1>1, <1>2, SMTT(30)
  <2>2. \A j \in 1 .. n : g[ob + j] = BodySentinel[j]
    BY <1>2, <1>4, <2>1
  <2> QED  BY <1>1, <1>2, <1>3, <2>2, AtBytes
<1>7. ASSUME NEW k \in Nat, At(g, BodySentinel, k) PROVE k = ob
  <2>1. k + n <= lb /\ \A j \in 1 .. n : g[k + j] = BodySentinel[j]
    BY <1>1, <1>2, <1>3, <1>7, AtBytes, SMTT(30)
  <2>2. ASSUME NEW j \in 1 .. n PROVE b[k + j] = BodySentinel[j]
    <3>1. k + j \in 1 .. lb /\ k + j \in Nat
      BY <1>1, <2>1, SMT
    <3>2. g[k + j] = BodySentinel[j] /\ BodySentinel[j] > Space /\ BodySentinel[j] \in Nat
      BY <1>1, <1>2, <2>1, SMTT(30)
    <3>3. ~(g[k + j] <= Space)
      BY <3>2, SMT DEF Space
    <3>4. k + j <= oc \/ k + j > oc + c
      <4>1. ~(k + j > oc /\ k + j <= oc + c)
        BY <1>5, <3>1, <3>3
      <4> QED  BY <1>1, <3>1, <4>1, SMT
    <3> QED  BY <1>4, <3>1, <3>2, <3>4
  <2>3. At(b, BodySentinel, k)
    BY <1>1, <1>2, <2>1, <2>2, AtBytes
  <2> QED  BY <1>2, <2>3
<1> QED  BY <1>1, <1>2, <1>3, <1>6, <1>7 DEF Once

\* The length is written in the same place, before or after the transaction.
LEMMA Written ==
    ASSUME NEW b \in Seq(Nat), NEW oc \in Nat, NEW ob \in Nat, NEW n \in Nat, NEW c \in Nat,
           oc + c <= ob, ob + n <= Len(b), NEW d \in Seq(Nat), Len(d) = c, NEW e \in Seq(Nat),
           NEW g, Put(g, b, oc, c, d), NEW r, Put(r, b, ob, n, e)
    PROVE  Put(Overwrite(r, oc, d), g, ob, n, e)
<1>0. PICK lb \in Nat, le \in Nat : lb = Len(b) /\ le = Len(e)
  BY LenProperties
<1>1. PICK lr : lb = Len(b) /\ le = Len(e) /\ lr = Len(r)
  BY <1>0
<1>2. /\ r \in Seq(Nat) /\ lr = lb - n + le
      /\ \A i \in 1 .. ob : r[i] = b[i]
      /\ \A i \in 1 .. le : r[ob + i] = e[i]
      /\ \A i \in 1 .. lb - ob - n : r[ob + le + i] = b[ob + n + i]
  BY <1>1 DEF Put
<1>3. /\ g \in Seq(Nat) /\ Len(g) = lb - c + c /\ lb - c + c = lb
      /\ \A i \in 1 .. oc : g[i] = b[i]
      /\ \A i \in 1 .. c : g[oc + i] = d[i]
      /\ \A i \in 1 .. lb - oc - c : g[oc + c + i] = b[oc + c + i]
  BY <1>1 DEF Put
<1>4. PICK w : w = Overwrite(r, oc, d)
  OBVIOUS
<1>5. lr \in Nat /\ ob <= lr
  BY <1>1, <1>2, SMT
<1>6. w = [i \in 1 .. lr |-> IF i > oc /\ i <= oc + c THEN d[i - oc] ELSE r[i]]
  BY <1>1, <1>4 DEF Overwrite
<1>7. ASSUME NEW i \in 1 .. lr PROVE (IF i > oc /\ i <= oc + c THEN d[i - oc] ELSE r[i]) \in Nat
  <2>1. i > oc /\ i <= oc + c => i - oc \in 1 .. c
    BY SMT
  <2>2. \A k \in 1 .. c : d[k] \in Nat
    OBVIOUS
  <2>3. r[i] \in Nat
    <3>1. i \in 1 .. Len(r) /\ r \in Seq(Nat)
      BY <1>1, <1>2
    <3> QED  BY <3>1, ElementOfSeq
  <2> QED  BY <2>1, <2>2, <2>3
<1>8. w \in [1 .. lr -> Nat]
  BY <1>6, <1>7
<1>9. w \in Seq(Nat) /\ Len(w) = lr
  BY <1>5, <1>8
<1>10. ASSUME NEW i \in 1 .. lr, i <= oc \/ i > oc + c PROVE w[i] = r[i]
  <2>1. ~(i > oc /\ i <= oc + c)
    BY <1>10, SMT
  <2> QED  BY <1>6, <2>1
<1>11. ASSUME NEW i \in 1 .. ob PROVE w[i] = g[i]
  <2>1. i \in 1 .. lr /\ i \in 1 .. lb /\ r[i] = b[i]
    BY <1>1, <1>2, <1>5, SMTT(30)
  <2>2. CASE i <= oc
    <3>1. i \in 1 .. oc
      BY <2>2, SMT
    <3> QED  BY <1>3, <1>10, <2>1, <2>2, <3>1
  <2>3. CASE i > oc /\ i <= oc + c
    <3> DEFINE k == i - oc
    <3>1. k \in 1 .. c /\ i = oc + k
      BY <2>3, SMT
    <3>2. w[i] = d[k]
      BY <1>6, <2>1, <2>3
    <3> HIDE DEF k
    <3> QED  BY <1>3, <3>1, <3>2
  <2>4. CASE i > oc + c
    <3> DEFINE k == i - oc - c
    <3>1. k \in 1 .. lb - oc - c /\ i = oc + c + k
      BY <2>1, <2>4, SMT
    <3> HIDE DEF k
    <3>2. g[i] = b[i]
      BY <1>3, <3>1
    <3> QED  BY <1>10, <2>1, <2>4, <3>2
  <2> QED  BY <2>2, <2>3, <2>4, SMT
<1>12. ASSUME NEW i \in 1 .. le PROVE w[ob + i] = e[i]
  <2>1. ob + i \in 1 .. lr /\ ob + i > oc + c
    BY <1>1, <1>2, SMTT(30)
  <2> QED  BY <1>2, <1>10, <2>1
<1>13. ASSUME NEW i \in 1 .. lb - ob - n PROVE w[ob + le + i] = g[ob + n + i]
  <2>a. lr = lb - n + le /\ ob + n <= lb
    BY <1>1, <1>2
  <2>b. i \in Nat /\ i >= 1 /\ i <= lb - ob - n
    BY <2>a, SMT
  <2>1. ob + le + i \in 1 .. lr /\ ob + le + i > oc + c
    BY <2>a, <2>b, SMT
  <2> DEFINE k == ob + n + i - oc - c
  <2>2. k \in 1 .. lb - oc - c /\ ob + n + i = oc + c + k
    BY <1>1, SMT
  <2> HIDE DEF k
  <2>3. g[ob + n + i] = b[ob + n + i]
    BY <1>3, <2>2
  <2> QED  BY <1>2, <1>10, <2>1, <2>3
<1>14. lr = Len(g) - n + le /\ Len(g) - ob - n = lb - ob - n
  BY <1>1, <1>2, <1>3, SMT
<1>15. Put(w, g, ob, n, e)
  BY <1>1, <1>9, <1>11, <1>12, <1>13, <1>14 DEF Put
<1> QED  BY <1>4, <1>15

\* splice into a template.
LEMMA SpliceMakes ==
    ASSUME NEW s, s.bytes \in Seq(Nat), s.maxLen \in Nat, Len(s.bytes) + s.maxLen < 10 ^ 9,
           NEW f \in Nat, NEW oc \in Nat, NEW ob \in Nat, NEW t, Compiled(s, t, f, oc, ob),
           NEW tx, tx.id \in Nat, tx.len \in Nat, Splice(t, tx).res = "ok"
    PROVE  Splice(t, tx).out = Request(s, tx) /\ Splice(t, tx).out \in Seq(Nat)
<1>3. Compiled(s, t, f, oc, ob)
  OBVIOUS
<1>4. PICK b \in Seq(Nat), m \in Nat : b = s.bytes /\ m = s.maxLen
  OBVIOUS
<1>5. PICK e \in Seq(Nat) : e = Base64(tx) /\ Len(e) = Base64Len(tx.len)
  BY Base64Is
<1>6. PICK r : r = Replace(b, BodySentinel, e)
  OBVIOUS
<1>7. SubSeq(t.buf, 1, t.bodyOff) \o e \o SubSeq(t.buf, t.bodyOff + t.bodyMax + 1, Len(t.buf)) = r
  BY <1>3, <1>4, <1>6, SpliceFills
<1>8. PICK len : len = Len(r) - t.bodyStart
  OBVIOUS
<1>9. /\ len \in Nat /\ BodyLen(r) = len
      /\ Len(r) = Len(b) - Len(BodySentinel) + Len(e)
  BY <1>3, <1>4, <1>6, <1>8, BodyLenIs
<1>10. PICK digits : digits = Digits(len)
  OBVIOUS
<1>11. /\ ~(Len(e) > m) /\ ~(Len(digits) > Len(ClSentinel))
       /\ Splice(t, tx).out = Overwrite(r, oc, Padded(digits))
  <2>1. t.bodyMax = m /\ t.clOff = oc
    BY <1>3, <1>4, CompiledFields
  <2>2. Splice(t, tx) =
           IF Len(e) > m THEN [res |-> "BodyTooLarge", out |-> t.out]
           ELSE IF Len(digits) > Len(ClSentinel) THEN [res |-> "ContentLengthOverflow", out |-> r]
           ELSE [res |-> "ok", out |-> Overwrite(r, oc, Padded(digits))]
    BY <1>5, <1>7, <1>8, <1>10, <2>1 DEF Splice
  <2> QED  BY <2>2
<1>12. PICK n \in Nat, c \in Nat, lb \in Nat, le \in Nat :
           n = Len(BodySentinel) /\ c = Len(ClSentinel) /\ lb = Len(b) /\ le = Len(e)
  BY EnvelopeAssumption, LenProperties
<1>13. /\ Once(b, BodySentinel, ob) /\ Once(b, ClSentinel, oc) /\ ob + n <= lb
       /\ oc + c <= f /\ f < ob /\ t.bodyStart = f + 1
  <2>1. /\ Once(b, BodySentinel, ob) /\ Once(b, ClSentinel, oc)
        /\ oc + c <= f /\ f < ob
    BY <1>3, <1>4, <1>12 DEF Compiled
  <2>2. ob + n <= lb
    BY <1>12, <2>1 DEF Once, At
  <2> QED  BY <1>3, <2>1, <2>2, CompiledFields
<1>14. len < 10 ^ 9
  <2>1. lb + m < 10 ^ 9 /\ Len(r) = lb - n + le /\ len = Len(r) - (f + 1)
    BY <1>4, <1>8, <1>9, <1>12, <1>13
  <2>2. le <= m
    <3>1. ~(le > m)
      BY <1>11, <1>12
    <3> QED  BY <3>1, SMT
  <2>3. len = lb - n + le - (f + 1)
    BY <2>1
  <2> QED  BY <2>1, <2>2, <2>3, SMT
<1>15. PICK d : d = Padded(digits)
  OBVIOUS
<1>16. d \in Seq(Nat) /\ Len(d) = c /\ Plain(d)
  <2>1. Len(Digits(len)) <= Len(ClSentinel)
    BY <1>9, <1>10, <1>11, <1>12, <1>14, DigitsFit, SMT
  <2> QED  BY <1>9, <1>10, <1>12, <1>14, <1>15, <2>1, PaddedFits
<1>17. PICK g : g = Replace(b, ClSentinel, d)
  OBVIOUS
<1>18. Put(g, b, oc, c, d)
  BY <1>12, <1>13, <1>16, <1>17, ReplaceIs, EnvelopeAssumption
<1>19. Once(g, BodySentinel, ob) /\ Len(g) = lb
  <2>1. oc + c <= ob
    BY <1>13, SMT
  <2>2. /\ oc + Len(ClSentinel) <= ob /\ Len(d) = Len(ClSentinel)
        /\ Put(g, b, oc, Len(ClSentinel), d)
    BY <1>12, <1>16, <1>18, <2>1
  <2> QED  BY <1>12, <1>13, <1>16, <2>2, SentinelKept, SMTT(30)
<1>20. Request(s, tx) = Replace(g, BodySentinel, e)
  BY <1>4, <1>5, <1>6, <1>9, <1>10, <1>15, <1>17 DEF Request
<1>21. Put(Replace(g, BodySentinel, e), g, ob, n, e)
  <2>1. g \in Seq(Nat) /\ BodySentinel \in Seq(Nat)
    BY <1>18, EnvelopeAssumption DEF Put
  <2> QED  BY <1>12, <1>19, <2>1, ReplaceIs
<1>22. Put(Overwrite(r, oc, d), g, ob, n, e)
  <2>1. oc + c <= ob /\ ob + n <= Len(b)
    BY <1>12, <1>13, SMT
  <2>2. Put(r, b, ob, n, e)
    BY <1>6, <1>12, <1>13, ReplaceIs, EnvelopeAssumption
  <2> QED  BY <1>16, <1>18, <2>1, <2>2, Written
<1>23. Overwrite(r, oc, d) = Replace(g, BodySentinel, e)
  <2>1. g \in Seq(Nat) /\ ob + n <= Len(g)
    BY <1>13, <1>18, <1>19 DEF Put
  <2> QED  BY <1>21, <1>22, <2>1, PutUnique
<1> QED  BY <1>11, <1>15, <1>20, <1>22, <1>23 DEF Put

(* What splice makes of a job is the request its specification reads,      *)
(* whatever out held before and whether or not the transaction fills its   *)
(* slot: the encoded transaction, the length of that very body padded to   *)
(* its place, and nothing of the slot's padding.                           *)
THEOREM SpliceExact ==
    ASSUME NEW s, s.bytes \in Seq(Nat), s.maxLen \in Nat, Len(s.bytes) + s.maxLen < 10 ^ 9,
           Compile(s).res = "ok", WellPlaced(s), NEW out,
           NEW tx, tx.id \in Nat, tx.len \in Nat,
           Splice([Compile(s) EXCEPT !.out = out], tx).res = "ok"
    PROVE  Splice([Compile(s) EXCEPT !.out = out], tx).out = Request(s, tx)
<1>1. PICK f \in Nat, oc \in Nat, ob \in Nat : Compiled(s, Compile(s), f, oc, ob)
  BY CompileMakes
<1>2. PICK t : t = [Compile(s) EXCEPT !.out = out]
  OBVIOUS
<1>3. Compiled(s, t, f, oc, ob)
  BY <1>1, <1>2, OutOnly
<1>4. Splice(t, tx).out = Request(s, tx)
  BY <1>2, <1>3, SpliceMakes, SMTT(30)
<1> QED  BY <1>2, <1>4

-----------------------------------------------------------------------------
(* Which transactions splice takes.                                        *)

\* A number below 10 ^ c has at most c digits.
LEMMA DigitsBelow ==
    ASSUME NEW n \in Nat, n < 10 ^ 9, NEW c \in Nat, c > 0, n < 10 ^ c
    PROVE  Len(Digits(n)) <= c
<1> DEFINE width == CHOOSE w \in 1 .. 9 : n < 10 ^ w /\ (w = 1 \/ 10 ^ (w - 1) <= n)
<1>1. \E w \in 1 .. 9 : n < 10 ^ w /\ (w = 1 \/ 10 ^ (w - 1) <= n)
  BY SMT
<1>2. width \in 1 .. 9 /\ (width = 1 \/ 10 ^ (width - 1) <= n)
  BY <1>1
<1>3. Digits(n) = [i \in 1 .. width |-> (n \div 10 ^ (width - i)) % 10]
  BY DEF Digits
<1> HIDE DEF width
<1>4. width \in Nat /\ Len(Digits(n)) = width
  BY <1>2, <1>3
<1>5. CASE c >= 9 \/ width = 1
  BY <1>2, <1>4, <1>5, SMT
<1>6. CASE c < 9 /\ width # 1
  <2>1. SUFFICES ASSUME c < width PROVE FALSE
    BY <1>2, <1>4, SMT
  <2>2. c \in 0 .. 8 /\ width - 1 \in 0 .. 8 /\ c <= width - 1
    BY <1>2, <1>6, <2>1, SMT
  <2>3. PICK p, q : p = 10 ^ c /\ q = 10 ^ (width - 1)
    OBVIOUS
  <2>4. p <= q /\ q \in Nat /\ p \in Nat
    BY <2>2, <2>3, PowersGrow
  <2>5. q <= n /\ n < p
    BY <1>2, <1>6, <2>3
  <2> QED  BY <2>4, <2>5, SMT
<1> QED  BY <1>5, <1>6, SMT

(* Where the slot takes the longest transaction and the place of the       *)
(* content length is wide enough for the length of any request, splice     *)
(* fails for no transaction.                                               *)
LEMMA LengthsFit ==
    ASSUME NEW s, s.bytes \in Seq(Nat), s.maxLen \in Nat, Len(s.bytes) + s.maxLen < 10 ^ 9,
           Len(s.bytes) + s.maxLen < 10 ^ Len(ClSentinel), Base64Len(MaxTxLen) <= s.maxLen,
           NEW f \in Nat, NEW oc \in Nat, NEW ob \in Nat, NEW t, Compiled(s, t, f, oc, ob),
           NEW tx, tx.id \in Nat, tx.len \in 0 .. MaxTxLen
    PROVE  Splice(t, tx).res = "ok"
<1>3. Compiled(s, t, f, oc, ob)
  OBVIOUS
<1>4. PICK b \in Seq(Nat), m \in Nat : b = s.bytes /\ m = s.maxLen
  OBVIOUS
<1>5. tx.len \in Nat /\ tx.len <= MaxTxLen /\ MaxTxLen \in Nat
  BY EnvelopeAssumption, SMT
<1>6. PICK e \in Seq(Nat) : e = Base64(tx) /\ Len(e) = Base64Len(tx.len)
  BY <1>5, Base64Is
<1>7. PICK n \in Nat, c \in Nat, lb \in Nat, le \in Nat :
          n = Len(BodySentinel) /\ c = Len(ClSentinel) /\ lb = Len(b) /\ le = Len(e) /\ c > 0
  BY EnvelopeAssumption, LenProperties
<1>8. le <= m
  <2>1. Base64Len(tx.len) <= Base64Len(MaxTxLen) /\ Base64Len(MaxTxLen) <= m
    BY <1>4, <1>5, Base64Monotone
  <2>2. PICK x \in Nat : x = Base64Len(MaxTxLen)
    <3>1. (MaxTxLen + 2) \div 3 \in Nat
      BY <1>5, SMT
    <3>2. Base64Len(MaxTxLen) \in Nat
      BY <3>1, SMTT(30) DEF Base64Len
    <3> QED  BY <3>2
  <2>3. le <= x /\ x <= m
    BY <1>6, <1>7, <2>1, <2>2
  <2> QED  BY <2>3, SMT
<1>9. PICK r : r = Replace(b, BodySentinel, e)
  OBVIOUS
<1>10. SubSeq(t.buf, 1, t.bodyOff) \o e \o SubSeq(t.buf, t.bodyOff + t.bodyMax + 1, Len(t.buf)) = r
  BY <1>3, <1>4, <1>9, SpliceFills
<1>11. PICK len : len = Len(r) - t.bodyStart
  OBVIOUS
<1>12. len \in Nat /\ Len(r) = lb - n + le /\ t.bodyStart = f + 1
  <2>1. len \in Nat /\ Len(r) = Len(b) - Len(BodySentinel) + Len(e)
    BY <1>3, <1>4, <1>9, <1>11, BodyLenIs
  <2> QED  BY <1>3, <1>7, <2>1, CompiledFields
<1>13. len < 10 ^ 9 /\ len < 10 ^ c
  <2>1. PICK p : p = 10 ^ c
    OBVIOUS
  <2>2. lb + m < 10 ^ 9 /\ lb + m < p /\ len = lb - n + le - (f + 1)
    BY <1>4, <1>7, <1>11, <1>12, <2>1
  <2>3. len <= lb + m /\ lb + m \in Nat
    BY <1>8, <2>2, SMT
  <2>4. len < 10 ^ 9
    BY <1>12, <2>2, <2>3, SMT
  <2>5. c <= 9 => p \in Nat
    <3>1. CASE c = 9
      <4>1. p = 10 ^ 9
        BY <2>1, <3>1
      <4> QED  BY <4>1, SMT
    <3>2. CASE c < 9
      <4>1. c \in 0 .. 8 /\ c <= c
        BY <3>2, SMT
      <4> QED  BY <2>1, <4>1, PowersGrow
    <3> QED  BY <3>1, <3>2, SMT
  <2> QED  BY <1>12, <2>1, <2>2, <2>3, <2>4, <2>5, SMT
<1>14. Len(Digits(len)) <= Len(ClSentinel) /\ Len(Digits(len)) \in Nat
  BY <1>7, <1>12, <1>13, DigitsBelow, DigitsFit, SMTT(30)
<1>15. ~(Len(e) > m) /\ ~(Len(Digits(len)) > Len(ClSentinel))
  BY <1>7, <1>8, <1>14, SMTT(30)
<1>16. t.bodyMax = m
  BY <1>3, <1>4, CompiledFields
<1> QED  BY <1>6, <1>10, <1>11, <1>15, <1>16 DEF Splice

=============================================================================
