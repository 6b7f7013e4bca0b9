-------------------------------- MODULE Idna --------------------------------
(***************************************************************************)
(* How the cushion page gets the name it shows: core/idna.ts decodes each  *)
(* xn-- label that URL parsing has produced (RFC 3492).  A label is the    *)
(* sequence of its code points, and so is what follows "xn--" in a decoded *)
(* label.                                                                  *)
(***************************************************************************)
EXTENDS Integers, Sequences, FiniteSets, SequencesExt

Hyphen == 45
Broken == <<>>  \* decoding throws; no label is empty

\* 26 digits are letters, then come the figures.
DecodeDigit(c) ==
  CASE c \in 48 .. 57 -> c - 22
    [] c \in 65 .. 90 -> c - 65
    [] c \in 97 .. 122 -> c - 97
    [] OTHER -> -1

Threshold(k, bias) == IF k <= bias THEN 1 ELSE IF k >= bias + 26 THEN 26 ELSE k - bias

Scale(delta) ==
  LET Step[d \in Nat] == IF d > 455 THEN 36 + Step[d \div 35] ELSE (36 * d) \div (d + 38)
  IN Step[delta]

\* Mutation of Adapt: the delta is halved the first time as well.
AdaptAlways(delta, numPoints, firstTime) ==
  LET d == delta \div 2 IN Scale(d + d \div numPoints)

Adapt(delta, numPoints, firstTime) ==
  LET d == delta \div (IF firstTime THEN 700 ELSE 2) IN Scale(d + d \div numPoints)

\* The inner loop: the digits from `index` on that make up one number.
ReadNumber(input, bias) ==
  LET Read[s \in [index : Nat \ {0}, i : Nat, w : Nat, k : Nat]] ==
        IF s.index > Len(input) \/ DecodeDigit(input[s.index]) = -1 THEN [i |-> -1, index |-> s.index]
        ELSE LET digit == DecodeDigit(input[s.index])
                 t == Threshold(s.k, bias)
                 i == s.i + digit * s.w
             IN IF digit < t THEN [i |-> i, index |-> s.index + 1]
                ELSE Read[[index |-> s.index + 1, i |-> i, w |-> s.w * (36 - t), k |-> s.k + 36]]
  IN Read

\* The outer loop: each number says which code point goes where among those
\* before it.
Insertions(input) ==
  LET Insert[s \in [index : Nat \ {0}, output : Seq(Nat), n : Nat, i : Nat, bias : Nat]] ==
        IF s.index > Len(input) THEN s.output
        ELSE LET read == ReadNumber(input, s.bias)[[index |-> s.index, i |-> s.i, w |-> 1, k |-> 36]]
                 out == Len(s.output) + 1
                 n == s.n + read.i \div out
                 i == read.i % out
             IN IF read.i = -1 THEN Broken
                ELSE Insert[[index |-> read.index, output |-> InsertAt(s.output, i + 1, n),
                             n |-> n, i |-> i + 1, bias |-> Adapt(read.i - s.i, out, s.i = 0)]]
  IN Insert

DecodePunycode(input) ==
  LET basicEnd == IF Contains(input, Hyphen) THEN SelectLastInSeq(input, LAMBDA c : c = Hyphen) - 1
                  ELSE 0
  IN Insertions(input)[[index |-> IF basicEnd > 0 THEN basicEnd + 2 ELSE 1,
                        output |-> SubSeq(input, 1, basicEnd), n |-> 128, i |-> 0, bias |-> 72]]

\* A label without xn-- is shown as it is, and so is one that cannot be decoded.
UnicodeLabel(label) ==
  IF label.ascii THEN label.text
  ELSE IF DecodePunycode(label.text) = Broken THEN label.text ELSE DecodePunycode(label.text)

-----------------------------------------------------------------------------
(* The encoder of RFC 3492 as URL parsing uses it: the code points beyond  *)
(* ASCII go in by value and position, each with its distance from the last.*)

IsBasic(c) == c < 128

EncodeDigit(d) == IF d < 26 THEN d + 97 ELSE d + 22

Digits(delta, bias) ==
  LET Write[s \in [number : Nat, k : Nat]] ==
        LET t == IF s.k - bias < 1 THEN 1 ELSE IF s.k - bias > 26 THEN 26 ELSE s.k - bias
        IN IF s.number < t THEN <<EncodeDigit(s.number)>>
           ELSE <<EncodeDigit(t + ((s.number - t) % (36 - t)))>>
                  \o Write[[number |-> (s.number - t) \div (36 - t), k |-> s.k + 36]]
  IN Write[[number |-> delta, k |-> 36]]

Bias(delta, numPoints, firstTime) ==
  LET d == IF firstTime THEN delta \div 700 ELSE delta \div 2
      damped == d + d \div numPoints
      steps == CHOOSE s \in 0 .. 5 : /\ damped \div 35^s <= 455
                                     /\ s > 0 => damped \div 35^(s - 1) > 455
      rest == damped \div 35^steps
  IN 36 * steps + (36 * rest) \div (rest + 38)

\* The code points of a label at the positions in D, in their order.
Part(label, D) ==
  [i \in 1 .. Cardinality(D) |->
     label[CHOOSE p \in D : Cardinality({q \in D : q <= p}) = i]]

\* The first position of the least code point that is not in yet.
Lowest(label, done) ==
  LET Before(p, q) == label[p] < label[q] \/ (label[p] = label[q] /\ p < q)
  IN CHOOSE p \in DOMAIN label \ done : \A q \in DOMAIN label \ done : q = p \/ Before(p, q)

Basic(label) == {p \in DOMAIN label : IsBasic(label[p])}

\* The text after j numbers, and what the next one is relative to.
Numbers(label) ==
  LET Number[j \in 0 .. Cardinality(DOMAIN label \ Basic(label))] ==
        IF j = 0 THEN [text |-> IF Basic(label) = {} THEN <<>>
                                ELSE Append(Part(label, Basic(label)), Hyphen),
                       done |-> Basic(label), n |-> 128, i |-> 0, bias |-> 72]
        ELSE LET last == Number[j - 1]
                 p == Lowest(label, last.done)
                 out == Cardinality(last.done) + 1
                 place == Cardinality({q \in last.done : q < p})
                 delta == (label[p] - last.n) * out + place - last.i
             IN [text |-> last.text \o Digits(delta, last.bias), done |-> last.done \cup {p},
                 n |-> label[p], i |-> place + 1, bias |-> Bias(delta, out, j = 1)]
  IN Number

EncodePunycode(label) == Numbers(label)[Cardinality(DOMAIN label \ Basic(label))].text

ToAscii(label) ==
  IF \A p \in DOMAIN label : IsBasic(label[p]) THEN [ascii |-> TRUE, text |-> label]
  ELSE [ascii |-> FALSE, text |-> EncodePunycode(label)]
=============================================================================
