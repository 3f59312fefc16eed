------------------------------ MODULE Envelope ------------------------------
(***************************************************************************)
(* The HTTP request of a provider, built once and spliced for every job:   *)
(* EnvelopeSpecBuilder::build (src/protocol/http/spec_builder.rs), compile *)
(* and splice (src/protocol/http/envelope.rs).  A byte is a number: a      *)
(* digit is itself, the others are named below or, in a payload, larger.   *)
(* Sentinels, the blank line and the names in a header have as many bytes  *)
(* as the offsets need to be told apart, not as many as in the code.       *)
(***************************************************************************)
EXTENDS Naturals, Sequences

CONSTANTS
    BodySentinel,   \* "<<BODY>>"
    ClSentinel,     \* "<<CL>>      ", as wide as the content length may get
    MaxTxLen        \* MAX_TX_LEN

\* The code's limits: a transaction, and the body slot of the registry.
MAX_TX_LEN == 1232
MAX_BODY   == 1644

Space     == 10
BlankLine == 11
HeadByte  == 12   \* any byte of the request line and of a header
BodyByte  == 13   \* any byte of the body template

ASSUME EnvelopeAssumption ==
    /\ BodySentinel \in Seq(Nat) /\ Len(BodySentinel) > 0
    /\ \A i \in 1 .. Len(BodySentinel) : BodySentinel[i] > Space   \* no digit, no space
    /\ ClSentinel \in Seq(Nat) /\ Len(ClSentinel) > 0
    /\ MaxTxLen \in Nat

-----------------------------------------------------------------------------
(* Specifications *)

\* build: a request line with the path, which ends in the token of
\* UrlParam and UrlPath; the header of AuthPlacement::Header; the content
\* length; the blank line; the body template.
BuildSpec(path, token, header, template, maxBody) ==
    [bytes  |-> <<HeadByte>> \o path \o token \o header \o ClSentinel
                    \o <<BlankLine>> \o template,
     maxLen |-> maxBody]

\* needle starts at offset i of haystack.
At(haystack, needle, i) ==
    /\ i + Len(needle) <= Len(haystack)
    /\ SubSeq(haystack, i + 1, i + Len(needle)) = needle

Offsets(haystack, needle) == {i \in 0 .. Len(haystack) : At(haystack, needle, i)}

\* find_unique: the offset in a set of one, or nothing.
FindUnique(haystack, needle) ==
    LET found == Offsets(haystack, needle)
    IN  IF \E i \in found : found = {i} THEN found ELSE {}

\* position: the first offset, if any.
FindFirst(haystack, needle) ==
    {i \in Offsets(haystack, needle) : \A k \in Offsets(haystack, needle) : i <= k}

The(S) == CHOOSE x \in S : TRUE

Spaces(n) == [i \in 1 .. n |-> Space]

(* EnvelopeTemplate::compile: the body sentinel becomes maxLen spaces; the *)
(* offset of the content length moves with what follows the body.          *)
Compile(spec) ==
    LET body   == FindUnique(spec.bytes, BodySentinel)
        cl     == FindUnique(spec.bytes, ClSentinel)
        off    == The(body)
        after  == off + Len(BodySentinel)
        padded == IF spec.maxLen = Len(BodySentinel) THEN spec.bytes
                  ELSE SubSeq(spec.bytes, 1, off) \o Spaces(spec.maxLen)
                           \o SubSeq(spec.bytes, after + 1, Len(spec.bytes))
        delta  == spec.maxLen - Len(BodySentinel)
        blank  == FindFirst(padded, <<BlankLine>>)
    IN  IF spec.maxLen < Len(BodySentinel) THEN [res |-> "BodyMaxTooSmall"]
        ELSE IF body = {} \/ cl = {} THEN [res |-> "BodySentinelMissing"]
        ELSE IF blank = {} THEN [res |-> "BodySentinelMissing"]
        ELSE [res |-> "ok", buf |-> padded, out |-> <<>>,
              bodyOff |-> off, bodyMax |-> spec.maxLen,
              clOff |-> The(cl) + (IF The(cl) >= after THEN delta ELSE 0),
              bodyStart |-> The(blank) + 1]

-----------------------------------------------------------------------------
(* Splicing *)

\* tx.len().div_ceil(3) * 4
Base64Len(n) == ((n + 2) \div 3) * 4

\* STANDARD.encode: what the bytes are is not looked at, only whose they are.
Base64(tx) == [i \in 1 .. Base64Len(tx.len) |-> 100 * tx.id + i]

\* The decimal digits of n < 10 ^ 9.
Digits(n) ==
    LET width == CHOOSE w \in 1 .. 9 : n < 10 ^ w /\ (w = 1 \/ 10 ^ (w - 1) <= n)
    IN  [i \in 1 .. width |-> (n \div 10 ^ (width - i)) % 10]

\* digits, and spaces for the rest of the place of the content length.
Padded(digits) == digits \o Spaces(Len(ClSentinel) - Len(digits))

\* s with part written over it from offset off on.
Overwrite(s, off, part) ==
    [i \in 1 .. Len(s) |-> IF i > off /\ i <= off + Len(part) THEN part[i - off] ELSE s[i]]

\* Mutant: out is not cleared before it is filled.
Splice_NoClear(t, tx) ==
    LET real   == t.out \o SubSeq(t.buf, 1, t.bodyOff) \o Base64(tx)
                      \o SubSeq(t.buf, t.bodyOff + t.bodyMax + 1, Len(t.buf))
        digits == Digits(Len(real) - t.bodyStart)
    IN  IF Base64Len(tx.len) > t.bodyMax THEN [res |-> "BodyTooLarge", out |-> t.out]
        ELSE IF Len(digits) > Len(ClSentinel) THEN [res |-> "ContentLengthOverflow", out |-> real]
        ELSE [res |-> "ok", out |-> Overwrite(real, t.clOff, Padded(digits))]

\* Mutant: a transaction that fills the slot exactly is rejected.
Splice_SlotFull(t, tx) ==
    LET real   == SubSeq(t.buf, 1, t.bodyOff) \o Base64(tx)
                      \o SubSeq(t.buf, t.bodyOff + t.bodyMax + 1, Len(t.buf))
        digits == Digits(Len(real) - t.bodyStart)
    IN  IF Base64Len(tx.len) >= t.bodyMax THEN [res |-> "BodyTooLarge", out |-> t.out]
        ELSE IF Len(digits) > Len(ClSentinel) THEN [res |-> "ContentLengthOverflow", out |-> real]
        ELSE [res |-> "ok", out |-> Overwrite(real, t.clOff, Padded(digits))]

(* EnvelopeTemplate::splice: out becomes what comes before the slot, the   *)
(* encoded transaction, what follows the slot, and the length of this body *)
(* over its place.                                                         *)
Splice(t, tx) ==
    LET real   == SubSeq(t.buf, 1, t.bodyOff) \o Base64(tx)
                      \o SubSeq(t.buf, t.bodyOff + t.bodyMax + 1, Len(t.buf))
        digits == Digits(Len(real) - t.bodyStart)
    IN  IF Base64Len(tx.len) > t.bodyMax THEN [res |-> "BodyTooLarge", out |-> t.out]
        ELSE IF Len(digits) > Len(ClSentinel) THEN [res |-> "ContentLengthOverflow", out |-> real]
        ELSE [res |-> "ok", out |-> Overwrite(real, t.clOff, Padded(digits))]

-----------------------------------------------------------------------------
(* The reference: the request as its specification reads, each sentinel    *)
(* replaced by its value, whatever their order.                            *)

\* s with the only occurrence of needle replaced by value.
Replace(s, needle, value) ==
    LET off == The(Offsets(s, needle))
    IN  SubSeq(s, 1, off) \o value \o SubSeq(s, off + Len(needle) + 1, Len(s))

\* The length of the body of request s.
BodyLen(s) == Len(s) - (The(FindFirst(s, <<BlankLine>>)) + 1)

\* The content length goes in first: it cannot be taken for the other
\* sentinel, while nothing is said of the transaction's bytes.
Request(spec, tx) ==
    LET len == BodyLen(Replace(spec.bytes, BodySentinel, Base64(tx)))
    IN  Replace(Replace(spec.bytes, ClSentinel, Padded(Digits(len))), BodySentinel, Base64(tx))

\* build has the content length in the head and the body sentinel in the body
\* template, as every provider of the registry and the default template do.
WellPlaced(spec) ==
    \E blank \in FindFirst(spec.bytes, <<BlankLine>>),
       cl \in Offsets(spec.bytes, ClSentinel),
       slot \in Offsets(spec.bytes, BodySentinel) :
        cl + Len(ClSentinel) <= blank /\ blank < slot

=============================================================================
