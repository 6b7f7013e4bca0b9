-------------------------- MODULE DestinationProofs --------------------------
(***************************************************************************)
(* Proofs about Destination, for every set of cases that CasesAssumption   *)
(* allows: every host of HostPolicy as service, issuer, entry of a list or *)
(* destination, and every query.                                           *)
(*                                                                         *)
(* HostRules is about HostPolicy alone: the comparisons of the code refuse *)
(* exactly the addresses whose bits begin with the bits of a block.  It    *)
(* goes from bits to words (BitsAreWords, Block), from blocks to octets    *)
(* (Ipv4Exact) and groups (Ipv6Exact), and over the spelling of IPv6       *)
(* addresses (ExpandIpv6Exact) to hosts.                                   *)
(*                                                                         *)
(* DecodesBack is about Idna alone: the decoder of the code undoes the      *)
(* encoder of URL parsing, for every label a host can have.  It goes from  *)
(* induction over the natural numbers, and recursion with it (Recursion),  *)
(* to the loops of both sides one step at a time (ReadSteps, WriteSteps,   *)
(* InsertSteps, NumbersSteps), a number (NumberReads) and the numbers of a *)
(* label (Sound, Follows).                                                 *)
(*                                                                         *)
(* ReadsBack and LocationReads are about URLSearchParams: reading what was *)
(* written gives what was meant, with and without the token.               *)
(*                                                                         *)
(* DestinationInv then says what the case has passed in each phase.        *)
(***************************************************************************)
EXTENDS Destination, SequenceTheorems, FiniteSetTheorems, WellFoundedInduction, TLAPS

-----------------------------------------------------------------------------
(* Powers of two, and the leading bits of a number.                        *)

\* Expanding Group in a proof is slow; this is what the proofs need of it.
LEMMA GroupIs == \A x : x \in Group <=> x \in Nat /\ x < 65536
<1> DEFINE n == 2^16
<1>1. n \in Nat
  OBVIOUS
<1>2. n = 65536
  OBVIOUS
<1>3. \A x : x \in 0 .. n - 1 <=> x \in Nat /\ x < n
  <2> HIDE DEF n
  <2> QED
    BY <1>1
<1>4. Group = 0 .. n - 1
  BY DEF Group
<1> HIDE DEF n
<1>5. \A x : x \in Group <=> x \in Nat /\ x < n
  BY <1>3, <1>4
<1> QED
  BY <1>2, <1>5

LEMMA Powers ==
  /\ \A n \in 0 .. 16 : 2^n \in Nat \ {0} /\ 2^(n + 1) = 2 * 2^n
  /\ \A n \in 0 .. 7 : 2^n \in {1, 2, 4, 8, 16, 32, 64, 128} /\ 2^(n + 8) = 256 * 2^n
<1> DEFINE Is(n, p) == 2^n = p
<1>1. /\ Is(0, 1) /\ Is(1, 2) /\ Is(2, 4) /\ Is(3, 8) /\ Is(4, 16)
      /\ Is(5, 32) /\ Is(6, 64) /\ Is(7, 128) /\ Is(8, 256)
  OBVIOUS
<1>2. /\ Is(9, 512) /\ Is(10, 1024) /\ Is(11, 2048) /\ Is(12, 4096)
      /\ Is(13, 8192) /\ Is(14, 16384) /\ Is(15, 32768) /\ Is(16, 65536) /\ Is(17, 131072)
  OBVIOUS
<1> HIDE DEF Is
<1>3. \A n :
        /\ (n = 0 => Is(n, 1)) /\ (n = 1 => Is(n, 2)) /\ (n = 2 => Is(n, 4))
        /\ (n = 3 => Is(n, 8)) /\ (n = 4 => Is(n, 16)) /\ (n = 5 => Is(n, 32))
        /\ (n = 6 => Is(n, 64)) /\ (n = 7 => Is(n, 128)) /\ (n = 8 => Is(n, 256))
  BY <1>1
<1>4. \A n :
        /\ (n = 9 => Is(n, 512)) /\ (n = 10 => Is(n, 1024)) /\ (n = 11 => Is(n, 2048))
        /\ (n = 12 => Is(n, 4096)) /\ (n = 13 => Is(n, 8192)) /\ (n = 14 => Is(n, 16384))
        /\ (n = 15 => Is(n, 32768)) /\ (n = 16 => Is(n, 65536)) /\ (n = 17 => Is(n, 131072))
  BY <1>2
<1>5. \A n \in 0 .. 16 : 2^n \in Nat \ {0} /\ 2^(n + 1) = 2 * 2^n
  BY <1>3, <1>4 DEF Is
<1>6. \A n \in 0 .. 7 : 2^n \in {1, 2, 4, 8, 16, 32, 64, 128} /\ 2^(n + 8) = 256 * 2^n
  BY <1>3, <1>4 DEF Is
<1> QED
  BY <1>5, <1>6

LEMMA Halve ==
  ASSUME NEW x \in Nat, NEW y \in Nat, NEW d \in Nat \ {0}
  PROVE  x \div d = y \div d <=> x \div (2 * d) = y \div (2 * d) /\ (x \div d) % 2 = (y \div d) % 2
<1>1. \A z \in Nat : z \div d \in Nat /\ z \div (2 * d) = (z \div d) \div 2
  OBVIOUS
<1>2. \A a, b \in Nat : a = b <=> a \div 2 = b \div 2 /\ a % 2 = b % 2
  OBVIOUS
<1> DEFINE a == x \div d
           b == y \div d
<1>3. a \in Nat /\ b \in Nat /\ x \div (2 * d) = a \div 2 /\ y \div (2 * d) = b \div 2
  BY <1>1
<1> HIDE DEF a, b
<1>4. a = b <=> a \div 2 = b \div 2 /\ a % 2 = b % 2
  BY <1>2, <1>3
<1> QED
  BY <1>3, <1>4 DEF a, b

LEMMA Stepwise ==
  ASSUME NEW S, 1 \in S, \A n \in 1 .. 15 : n \in S => n + 1 \in S
  PROVE  1 .. 16 \subseteq S
<1>1. 2 \in S /\ 3 \in S /\ 4 \in S /\ 5 \in S
  OBVIOUS
<1>2. 6 \in S /\ 7 \in S /\ 8 \in S
  BY <1>1
<1>3. 9 \in S /\ 10 \in S /\ 11 \in S
  BY <1>2
<1>4. 12 \in S /\ 13 \in S /\ 14 \in S
  BY <1>3
<1>5. 15 \in S /\ 16 \in S
  BY <1>4
<1> QED
  BY <1>1, <1>2, <1>3, <1>4, <1>5

\* The bits of a word of width w.
Bit(x, w, m) == (x \div 2^(w - m)) % 2

LEMMA Leading ==
  ASSUME NEW w \in {8, 16}, NEW x \in 0 .. (2^w) - 1, NEW y \in 0 .. (2^w) - 1, NEW n \in 1 .. w
  PROVE  (\A m \in 1 .. n : Bit(x, w, m) = Bit(y, w, m)) <=> x \div 2^(w - n) = y \div 2^(w - n)
<1> DEFINE T(k) == x \div 2^(w - k) = y \div 2^(w - k)
           B(k) == Bit(x, w, k) = Bit(y, w, k)
           S == {k \in 1 .. 16 : k <= w => (T(k) <=> \A m \in 1 .. k : B(m))}
<1>1. x \in Nat /\ y \in Nat
  BY Powers
<1>2. \A k \in 1 .. w : 2^(w - k) \in Nat \ {0} /\ 2^(w - (k - 1)) = 2 * 2^(w - k)
  <2> TAKE k \in 1 .. w
  <2> DEFINE e == w - k
  <2>1. e \in 0 .. 16 /\ w - (k - 1) = e + 1
    OBVIOUS
  <2> HIDE DEF e
  <2>2. 2^e \in Nat \ {0} /\ 2^(e + 1) = 2 * 2^e
    BY <2>1, Powers
  <2>3. 2^(w - (k - 1)) = 2 * 2^e
    BY <2>1, <2>2
  <2> QED
    BY <2>2, <2>3 DEF e
<1>3. \A k \in 1 .. w : T(k) <=> T(k - 1) /\ B(k)
  <2> TAKE k \in 1 .. w
  <2> DEFINE d == 2^(w - k)
  <2>1. d \in Nat \ {0} /\ 2^(w - (k - 1)) = 2 * d
    BY <1>2
  <2> HIDE DEF d
  <2>2. x \div d = y \div d <=> x \div (2 * d) = y \div (2 * d) /\ (x \div d) % 2 = (y \div d) % 2
    BY <1>1, <2>1, Halve
  <2> QED
    BY <2>1, <2>2 DEF d, Bit
<1>4. T(0)
  <2>1. w - 0 = w /\ 2^w \in Nat \ {0}
    BY Powers
  <2>2. \A z, d \in Nat : z < d => z \div d = 0
    OBVIOUS
  <2> QED
    BY <2>1, <2>2, <1>1
<1> HIDE DEF T, B
<1>5. 1 \in S
  BY <1>3, <1>4
<1>6. ASSUME NEW k \in 1 .. 15, k \in S PROVE k + 1 \in S
  BY <1>3, <1>6
<1>7. n \in S
  BY <1>5, <1>6, Stepwise
<1> QED
  BY <1>7 DEF T, B
-----------------------------------------------------------------------------
(* The bits of addresses.                                                  *)

LEMMA Tops == 2^8 = 256 /\ 2^16 = 65536
OBVIOUS

LEMMA WordBits ==
  ASSUME NEW w \in {8, 16}, NEW s \in Seq(Nat)
  PROVE  /\ Bits(s, w) \in Seq(Nat)
         /\ Len(Bits(s, w)) = w * Len(s)
         /\ \A j \in 1 .. Len(s), m \in 1 .. w : Bits(s, w)[w * (j - 1) + m] = Bit(s[j], w, m)
<1> DEFINE n == w * Len(s)
           Word(i) == ((i - 1) \div w) + 1
           Exp(i) == w - 1 - ((i - 1) % w)
<1>1. n \in Nat
  OBVIOUS
<1>2. \A i \in 1 .. n : Word(i) \in 1 .. Len(s) /\ Exp(i) \in 0 .. 15
  <2>1. CASE w = 8
    BY <2>1
  <2>2. CASE w = 16
    BY <2>2
  <2> QED
    BY <2>1, <2>2
<1>3. \A i \in 1 .. n : (s[Word(i)] \div 2^Exp(i)) % 2 \in Nat
  <2> TAKE i \in 1 .. n
  <2>0. Word(i) \in 1 .. Len(s) /\ Exp(i) \in 0 .. 16
    BY <1>2
  <2> HIDE DEF Word, Exp
  <2>1. s[Word(i)] \in Nat
    BY <2>0
  <2>3. 2^Exp(i) \in Nat \ {0}
    BY <2>0, Powers
  <2>2. \A a \in Nat, d \in Nat \ {0} : (a \div d) % 2 \in Nat
    OBVIOUS
  <2> QED
    BY <2>1, <2>2, <2>3
<1>4. Bits(s, w) = [i \in 1 .. n |-> (s[Word(i)] \div 2^Exp(i)) % 2]
  BY DEF Bits
<1>5. ASSUME NEW j \in 1 .. Len(s), NEW m \in 1 .. w
      PROVE  Bits(s, w)[w * (j - 1) + m] = Bit(s[j], w, m)
  <2> DEFINE i == w * (j - 1) + m
  <2>1. i \in 1 .. n
    OBVIOUS
  <2>2. Word(i) = j /\ Exp(i) = w - m
    OBVIOUS
  <2> HIDE DEF i, n, Word, Exp
  <2> QED
    BY <1>4, <2>1, <2>2 DEF Bit, i
<1> HIDE DEF Word, Exp, n
<1>6. Bits(s, w) \in Seq(Nat) /\ Len(Bits(s, w)) = n
  BY <1>1, <1>3, <1>4
<1> QED
  BY <1>5, <1>6 DEF n

LEMMA PrefixPointwise ==
  ASSUME NEW p \in Seq(Nat), NEW t \in Seq(Nat)
  PROVE  IsPrefix(p, t) <=> Len(p) <= Len(t) /\ \A i \in 1 .. Len(p) : p[i] = t[i]
<1>1. CASE Len(p) <= Len(t)
  <2> DEFINE a == SubSeq(p, 1, Len(p))
             b == SubSeq(t, 1, Len(p))
  <2>1. a = p
    BY SubSeqFull
  <2>2. b \in Seq(Nat) /\ Len(b) = Len(p) /\ \A i \in 1 .. Len(p) : b[i] = t[i]
    BY <1>1
  <2> HIDE DEF a, b
  <2>3. p = b <=> \A i \in 1 .. Len(p) : p[i] = b[i]
    BY <2>2, SeqEqual
  <2> QED
    BY <1>1, <2>1, <2>2, <2>3 DEF IsPrefix, a, b
<1>2. CASE ~(Len(p) <= Len(t))
  BY <1>2 DEF IsPrefix
<1> QED
  BY <1>1, <1>2

LEMMA FirstBits ==
  ASSUME NEW b \in Seq(Nat), NEW n \in 0 .. Len(b)
  PROVE  SubSeq(b, 1, n) \in Seq(Nat) /\ Len(SubSeq(b, 1, n)) = n
         /\ \A i \in 1 .. n : SubSeq(b, 1, n)[i] = b[i]
OBVIOUS

Words(w) == 0 .. (2^w) - 1

\* The first len bits end in word k, of which they leave out those below d.
Cut(w, len, k, d) == \E n \in 1 .. w : len = w * (k - 1) + n /\ d = 2^(w - n)
SameBits(w, len, c, s) == \A i \in 1 .. len : Bits(c, w)[i] = Bits(s, w)[i]
Alike(d, a, b) == a \div d = b \div d
SameWords(k, d, c, s) == (\A j \in 1 .. k - 1 : c[j] = s[j]) /\ Alike(d, c[k], s[k])

LEMMA BitsAreWords ==
  ASSUME NEW w \in {8, 16}, NEW c \in Seq(Words(w)), NEW s \in Seq(Words(w)),
         NEW k \in 1 .. Len(c), k <= Len(s), NEW n \in 1 .. w
  PROVE  SameBits(w, w * (k - 1) + n, c, s) <=> SameWords(k, 2^(w - n), c, s)
<1>1. /\ w \in Nat /\ Words(w) \subseteq Nat
      /\ c \in Seq(Nat) /\ s \in Seq(Nat)
  BY Tops DEF Words
<1>2. \A j \in 1 .. k, m \in 1 .. w :
        /\ Bits(c, w)[w * (j - 1) + m] = Bit(c[j], w, m)
        /\ Bits(s, w)[w * (j - 1) + m] = Bit(s[j], w, m)
  <2>1. \A j \in 1 .. k : j \in 1 .. Len(c) /\ j \in 1 .. Len(s)
    OBVIOUS
  <2>2. \A j \in 1 .. Len(c), m \in 1 .. w : Bits(c, w)[w * (j - 1) + m] = Bit(c[j], w, m)
    BY <1>1, WordBits
  <2>3. \A j \in 1 .. Len(s), m \in 1 .. w : Bits(s, w)[w * (j - 1) + m] = Bit(s[j], w, m)
    BY <1>1, WordBits
  <2> QED
    BY <2>1, <2>2, <2>3
<1>3. \A j \in 1 .. k, l \in 1 .. w :
        (\A m \in 1 .. l : Bit(c[j], w, m) = Bit(s[j], w, m)) <=>
           c[j] \div 2^(w - l) = s[j] \div 2^(w - l)
  <2> TAKE j \in 1 .. k, l \in 1 .. w
  <2>1. c[j] \in Words(w) /\ s[j] \in Words(w)
    OBVIOUS
  <2>2. c[j] \in 0 .. (2^w) - 1 /\ s[j] \in 0 .. (2^w) - 1
    BY <2>1 DEF Words
  <2> QED
    BY <2>2, Leading, Zenon
<1>4. \A j \in 1 .. k : c[j] \div 2^(w - w) = s[j] \div 2^(w - w) <=> c[j] = s[j]
  <2>1. 2^0 = 1 /\ w - w = 0
    OBVIOUS
  <2>2. \A a, b \in Nat : a \div 2^0 = b \div 2^0 <=> a = b
    BY <2>1
  <2> TAKE j \in 1 .. k
  <2>3. j \in 1 .. Len(c) /\ j \in 1 .. Len(s)
    OBVIOUS
  <2>4. c[j] \in Nat /\ s[j] \in Nat
    BY <1>1, <2>3, ElementOfSeq
  <2>5. c[j] \div 2^0 = s[j] \div 2^0 <=> c[j] = s[j]
    BY <2>2, <2>4
  <2> QED
    BY <2>1, <2>5
<1>5. ASSUME NEW i \in 1 .. w * (k - 1) + n
      PROVE  \E j \in 1 .. k, m \in 1 .. w : i = w * (j - 1) + m /\ (j = k => m <= n)
  <2> DEFINE j == ((i - 1) \div w) + 1
             m == ((i - 1) % w) + 1
  <2>1. j \in 1 .. k /\ m \in 1 .. w /\ i = w * (j - 1) + m /\ (j = k => m <= n)
    OBVIOUS
  <2> HIDE DEF j, m
  <2> QED
    BY <2>1
<1>6. \A j \in 1 .. k, m \in 1 .. w :
        (j = k => m <= n) => w * (j - 1) + m \in 1 .. w * (k - 1) + n
  OBVIOUS
<1> DEFINE Eq(j, m) == Bit(c[j], w, m) = Bit(s[j], w, m)
<1>7. (\A i \in 1 .. w * (k - 1) + n : Bits(c, w)[i] = Bits(s, w)[i]) <=>
        \A j \in 1 .. k, m \in 1 .. w : (j = k => m <= n) => Eq(j, m)
  <2> DEFINE Same(i) == Bits(c, w)[i] = Bits(s, w)[i]
             At(j, m) == w * (j - 1) + m
  <2>1. \A j \in 1 .. k, m \in 1 .. w : Same(At(j, m)) <=> Eq(j, m)
    BY <1>2
  <2> HIDE DEF Same, Eq
  <2>2. \A i \in 1 .. At(k, n) : \E j \in 1 .. k, m \in 1 .. w : i = At(j, m) /\ (j = k => m <= n)
    BY <1>5
  <2>3. \A j \in 1 .. k, m \in 1 .. w : (j = k => m <= n) => At(j, m) \in 1 .. At(k, n)
    BY <1>6
  <2> HIDE DEF At
  <2>4. (\A i \in 1 .. At(k, n) : Same(i)) <=>
          \A j \in 1 .. k, m \in 1 .. w : (j = k => m <= n) => Eq(j, m)
    <3>1. ASSUME \A i \in 1 .. At(k, n) : Same(i), NEW j \in 1 .. k, NEW m \in 1 .. w, j = k => m <= n
          PROVE  Eq(j, m)
      <4>1. At(j, m) \in 1 .. At(k, n)
        BY <2>3, <3>1
      <4> QED
        BY <2>1, <3>1, <4>1
    <3>2. ASSUME \A j \in 1 .. k, m \in 1 .. w : (j = k => m <= n) => Eq(j, m),
                 NEW i \in 1 .. At(k, n)
          PROVE  Same(i)
      <4>1. PICK j \in 1 .. k, m \in 1 .. w : i = At(j, m) /\ (j = k => m <= n)
        BY <2>2
      <4>2. Eq(j, m)
        BY <3>2, <4>1
      <4> QED
        BY <2>1, <4>1, <4>2
    <3> QED
      BY <3>1, <3>2
  <2> QED
    BY <2>4 DEF Same, At
<1>8. (\A j \in 1 .. k, m \in 1 .. w : (j = k => m <= n) => Eq(j, m)) <=>
        /\ \A j \in 1 .. k - 1 : \A m \in 1 .. w : Eq(j, m)
        /\ \A m \in 1 .. n : Eq(k, m)
  <2> HIDE DEF Eq
  <2> QED
    OBVIOUS
<1>9. \A j \in 1 .. k - 1 : (\A m \in 1 .. w : Eq(j, m)) <=> c[j] = s[j]
  <2> TAKE j \in 1 .. k - 1
  <2>1. j \in 1 .. k /\ w \in 1 .. w
    OBVIOUS
  <2> QED
    BY <1>3, <1>4, <2>1
<1>10. (\A m \in 1 .. n : Eq(k, m)) <=> c[k] \div 2^(w - n) = s[k] \div 2^(w - n)
  BY <1>3
<1> HIDE DEF Eq
<1> QED
  BY <1>7, <1>8, <1>9, <1>10 DEF SameBits, SameWords, Alike
-----------------------------------------------------------------------------
(* Blocks of addresses.                                                    *)

Begins(w, len, c, s) == IsPrefix(SubSeq(Bits(c, w), 1, len), Bits(s, w))

LEMMA Block ==
  ASSUME NEW w \in {8, 16}, NEW s \in Seq(Words(w)), NEW c \in Seq(Words(w)),
         NEW k \in 1 .. Len(s), Len(c) = k, NEW len, NEW d, Cut(w, len, k, d)
  PROVE  Begins(w, len, c, s) <=> SameWords(k, d, c, s)
<1> DEFINE b == Bits(c, w)
           t == Bits(s, w)
           p == SubSeq(b, 1, len)
<1>1. s \in Seq(Nat) /\ c \in Seq(Nat)
  <2>1. Words(w) \subseteq Nat
    BY Tops DEF Words
  <2> QED
    BY <2>1
<1>2. b \in Seq(Nat) /\ Len(b) = w * k
  BY <1>1, WordBits
<1>3. t \in Seq(Nat) /\ Len(t) = w * Len(s)
  BY <1>1, WordBits
<1> HIDE DEF b, t
<1>4. len \in 1 .. Len(b) /\ Len(b) <= Len(t)
  <2>1. PICK n \in 1 .. w : len = w * (k - 1) + n
    BY DEF Cut
  <2>2. CASE w = 8
    <3>1. len = 8 * (k - 1) + n /\ n \in 1 .. 8 /\ Len(b) = 8 * k /\ Len(t) = 8 * Len(s)
      BY <1>2, <1>3, <2>1, <2>2
    <3> QED
      BY <3>1
  <2>3. CASE w = 16
    <3>1. len = 16 * (k - 1) + n /\ n \in 1 .. 16 /\ Len(b) = 16 * k /\ Len(t) = 16 * Len(s)
      BY <1>2, <1>3, <2>1, <2>3
    <3> QED
      BY <3>1
  <2> QED
    BY <2>2, <2>3
<1>5. SameBits(w, len, c, s) <=> SameWords(k, d, c, s)
  <2>1. k \in 1 .. Len(c) /\ k <= Len(s)
    OBVIOUS
  <2>2. PICK n \in 1 .. w : len = w * (k - 1) + n /\ d = 2^(w - n)
    BY DEF Cut
  <2>3. SameBits(w, w * (k - 1) + n, c, s) <=> SameWords(k, 2^(w - n), c, s)
    BY <2>1, BitsAreWords
  <2> QED
    BY <2>2, <2>3
<1>6. p \in Seq(Nat) /\ Len(p) = len /\ \A i \in 1 .. len : p[i] = b[i]
  BY <1>2, <1>4, FirstBits
<1> HIDE DEF p
<1>7. IsPrefix(p, t) <=> Len(p) <= Len(t) /\ \A i \in 1 .. Len(p) : p[i] = t[i]
  BY <1>3, <1>6, PrefixPointwise
<1>8. len <= Len(t)
  BY <1>2, <1>3, <1>4
<1>9. IsPrefix(p, t) <=> \A i \in 1 .. len : b[i] = t[i]
  BY <1>6, <1>7, <1>8
<1> QED
  BY <1>5, <1>9 DEF Begins, SameBits, b, t, p

LEMMA Cuts ==
  /\ Cut(8, 8, 1, 1) /\ Cut(8, 4, 1, 16)
  /\ Cut(8, 16, 2, 1) /\ Cut(8, 10, 2, 64) /\ Cut(8, 12, 2, 16) /\ Cut(8, 15, 2, 2)
  /\ Cut(8, 24, 3, 1)
<1>1. 1 = 2^(8 - 8) /\ 16 = 2^(8 - 4) /\ 64 = 2^(8 - 2) /\ 2 = 2^(8 - 7)
  OBVIOUS
<1>2. Cut(8, 8, 1, 1) /\ Cut(8, 16, 2, 1) /\ Cut(8, 24, 3, 1)
  BY <1>1 DEF Cut
<1>3. Cut(8, 4, 1, 16) /\ Cut(8, 12, 2, 16)
  BY <1>1 DEF Cut
<1>4. Cut(8, 10, 2, 64)
  BY <1>1 DEF Cut
<1>5. Cut(8, 15, 2, 2)
  BY <1>1 DEF Cut
<1> QED
  BY <1>2, <1>3, <1>4, <1>5

LEMMA BlockOne ==
  ASSUME NEW w \in {8, 16}, NEW s \in Seq(Words(w)), Len(s) >= 1, NEW len, NEW d,
         NEW a \in Words(w), Cut(w, len, 1, d)
  PROVE  Begins(w, len, <<a>>, s) <=> Alike(d, a, s[1])
<1>1. <<a>> \in Seq(Words(w)) /\ Len(<<a>>) = 1 /\ 1 \in 1 .. Len(s) /\ 1 .. 1 - 1 = {}
  OBVIOUS
<1>2. Begins(w, len, <<a>>, s) <=> SameWords(1, d, <<a>>, s)
  BY <1>1, Block
<1> QED
  BY <1>1, <1>2 DEF SameWords

LEMMA BlockTwo ==
  ASSUME NEW w \in {8, 16}, NEW s \in Seq(Words(w)), Len(s) >= 2, NEW len, NEW d,
         NEW a \in Words(w), NEW b \in Words(w), Cut(w, len, 2, d)
  PROVE  Begins(w, len, <<a, b>>, s) <=> a = s[1] /\ Alike(d, b, s[2])
<1>1. <<a, b>> \in Seq(Words(w)) /\ Len(<<a, b>>) = 2 /\ 2 \in 1 .. Len(s) /\ 1 .. 2 - 1 = {1}
  OBVIOUS
<1>2. Begins(w, len, <<a, b>>, s) <=> SameWords(2, d, <<a, b>>, s)
  BY <1>1, Block
<1> QED
  BY <1>1, <1>2 DEF SameWords

LEMMA BlockThree ==
  ASSUME NEW w \in {8, 16}, NEW s \in Seq(Words(w)), Len(s) >= 3, NEW len, NEW d,
         NEW a \in Words(w), NEW b \in Words(w), NEW c \in Words(w), Cut(w, len, 3, d)
  PROVE  Begins(w, len, <<a, b, c>>, s) <=> a = s[1] /\ b = s[2] /\ Alike(d, c, s[3])
<1>1. <<a, b, c>> \in Seq(Words(w)) /\ Len(<<a, b, c>>) = 3 /\ 3 \in 1 .. Len(s) /\ 1 .. 3 - 1 = {1, 2}
  OBVIOUS
<1>2. Begins(w, len, <<a, b, c>>, s) <=> SameWords(3, d, <<a, b, c>>, s)
  BY <1>1, Block
<1> QED
  BY <1>1, <1>2 DEF SameWords

LEMMA WiderSeq ==
  ASSUME NEW S, NEW T, S \subseteq T, NEW s \in Seq(S)
  PROVE  s \in Seq(T)
OBVIOUS

\* The ranges of isPrivateIpv4 are the blocks of the registry.
LEMMA Ipv4Exact ==
  ASSUME NEW o \in Seq(Octet), Len(o) = 4
  PROVE  IsPrivateIpv4(o) <=> In(Net4(o, 32), Blocks4)
<1> DEFINE P(c, len) == IsPrefix(Net4(c, len), Net4(o, 32))
           x == o[1]
           y == o[2]
           z == o[3]
<1>1. Words(8) = Octet /\ 8 \in {8, 16} /\ Octet \subseteq Nat
  BY Tops DEF Octet, Words
<1>2. x \in Octet /\ y \in Octet /\ z \in Octet
  OBVIOUS
<1>3. Net4(o, 32) = Bits(o, 8)
  <2>1. o \in Seq(Nat)
    BY <1>1, WiderSeq
  <2>2. Bits(o, 8) \in Seq(Nat) /\ Len(Bits(o, 8)) = 8 * Len(o)
    BY <1>1, <2>1, WordBits
  <2> QED
    BY <2>2, SubSeqFull DEF Net4
<1>4. \A v, len : P(v, len) <=> Begins(8, len, v, o)
  BY <1>3 DEF Net4, Begins
<1>5. \A len, d : \A a \in Octet : Cut(8, len, 1, d) => (P(<<a>>, len) <=> Alike(d, a, x))
  <2> HIDE DEF P
  <2> QED
    BY <1>1, <1>4, BlockOne
<1>6. \A len, d : \A a, b \in Octet :
        Cut(8, len, 2, d) => (P(<<a, b>>, len) <=> a = x /\ Alike(d, b, y))
  <2> TAKE len, d
  <2> TAKE a, b \in Octet
  <2>1. a \in Words(8) /\ b \in Words(8) /\ o \in Seq(Words(8)) /\ Len(o) >= 2
    BY <1>1
  <2>2. Cut(8, len, 2, d) => (Begins(8, len, <<a, b>>, o) <=> a = o[1] /\ Alike(d, b, o[2]))
    BY <1>1, <2>1, BlockTwo
  <2> HIDE DEF P
  <2> QED
    BY <1>4, <2>2
<1>7. \A len, d : \A a, b, c \in Octet :
        Cut(8, len, 3, d) => (P(<<a, b, c>>, len) <=> a = x /\ b = y /\ Alike(d, c, z))
  <2> TAKE len, d
  <2> TAKE a, b, c \in Octet
  <2>1. a \in Words(8) /\ b \in Words(8) /\ c \in Words(8) /\ o \in Seq(Words(8)) /\ Len(o) >= 3
    BY <1>1
  <2>2. Cut(8, len, 3, d) =>
          (Begins(8, len, <<a, b, c>>, o) <=> a = o[1] /\ b = o[2] /\ Alike(d, c, o[3]))
    BY <1>1, <2>1, BlockThree
  <2> HIDE DEF P
  <2> QED
    BY <1>4, <2>2
<1> HIDE DEF P, x, y, z
<1>8. \A a, b \in Octet : Alike(1, a, b) <=> a = b
  BY DEF Octet, Alike
<1>9. \A a \in Octet : (P(<<a>>, 8) <=> a = x) /\ (P(<<a>>, 4) <=> Alike(16, a, x))
  <2> TAKE a \in Octet
  <2>1. \A len, d : Cut(8, len, 1, d) => (P(<<a>>, len) <=> Alike(d, a, x))
    BY <1>5
  <2>2. Alike(1, a, x) <=> a = x
    BY <1>2, <1>8
  <2> QED
    BY <2>1, <2>2, Cuts
<1>10. \A a, b \in Octet : /\ P(<<a, b>>, 16) <=> a = x /\ b = y
                           /\ P(<<a, b>>, 10) <=> a = x /\ Alike(64, b, y)
                           /\ P(<<a, b>>, 12) <=> a = x /\ Alike(16, b, y)
                           /\ P(<<a, b>>, 15) <=> a = x /\ Alike(2, b, y)
  <2> TAKE a, b \in Octet
  <2>1. \A len, d : Cut(8, len, 2, d) => (P(<<a, b>>, len) <=> a = x /\ Alike(d, b, y))
    BY <1>6
  <2>2. Alike(1, b, y) <=> b = y
    BY <1>2, <1>8
  <2> QED
    BY <2>1, <2>2, Cuts
<1>11. \A a, b, c \in Octet : P(<<a, b, c>>, 24) <=> a = x /\ b = y /\ c = z
  <2> TAKE a, b, c \in Octet
  <2>1. \A len, d : Cut(8, len, 3, d) => (P(<<a, b, c>>, len) <=> a = x /\ b = y /\ Alike(d, c, z))
    BY <1>7
  <2>2. Alike(1, c, z) <=> c = z
    BY <1>2, <1>8
  <2> QED
    BY <2>1, <2>2, Cuts
<1>12. In(Net4(o, 32), Blocks4) <=>
         \/ P(<<0>>, 8) \/ P(<<10>>, 8) \/ P(<<100, 64>>, 10) \/ P(<<127>>, 8)
         \/ P(<<169, 254>>, 16) \/ P(<<172, 16>>, 12) \/ P(<<192, 0, 0>>, 24)
         \/ P(<<192, 168>>, 16) \/ P(<<198, 18>>, 15) \/ P(<<224>>, 4) \/ P(<<240>>, 4)
  BY DEF In, Blocks4, P
<1>13. \A a \in {0, 10, 127, 224, 240, 100, 64, 169, 254, 172, 16, 192, 168, 198, 18} : a \in Octet
  BY DEF Octet
<1>14. /\ P(<<0>>, 8) <=> 0 = x
       /\ P(<<10>>, 8) <=> 10 = x
       /\ P(<<127>>, 8) <=> 127 = x
       /\ P(<<224>>, 4) <=> Alike(16, 224, x)
       /\ P(<<240>>, 4) <=> Alike(16, 240, x)
  BY <1>9, <1>13
<1>15. /\ P(<<100, 64>>, 10) <=> 100 = x /\ Alike(64, 64, y)
       /\ P(<<169, 254>>, 16) <=> 169 = x /\ 254 = y
       /\ P(<<172, 16>>, 12) <=> 172 = x /\ Alike(16, 16, y)
       /\ P(<<192, 168>>, 16) <=> 192 = x /\ 168 = y
       /\ P(<<198, 18>>, 15) <=> 198 = x /\ Alike(2, 18, y)
  BY <1>10, <1>13
<1>16. P(<<192, 0, 0>>, 24) <=> 192 = x /\ 0 = y /\ 0 = z
  BY <1>11, <1>13
<1>17. \A b \in Octet : /\ Alike(64, 64, b) <=> b \in 64 .. 127
                        /\ Alike(16, 16, b) <=> b \in 16 .. 31
                        /\ Alike(2, 18, b) <=> b \in {18, 19}
                        /\ Alike(16, 224, b) \/ Alike(16, 240, b) <=> b >= 224
  BY DEF Octet, Alike
<1>18. /\ Alike(64, 64, y) <=> y \in 64 .. 127
       /\ Alike(16, 16, y) <=> y \in 16 .. 31
       /\ Alike(2, 18, y) <=> y \in {18, 19}
       /\ Alike(16, 224, x) \/ Alike(16, 240, x) <=> x >= 224
  BY <1>2, <1>17
<1>19. P(<<0>>, 8) \/ P(<<10>>, 8) \/ P(<<127>>, 8) <=> x \in {0, 10, 127}
  BY <1>14
<1>20. P(<<224>>, 4) \/ P(<<240>>, 4) <=> x >= 224
  BY <1>14, <1>18
<1>22. P(<<192, 0, 0>>, 24) \/ P(<<192, 168>>, 16) <=> x = 192 /\ (y = 168 \/ (y = 0 /\ z = 0))
  BY <1>15, <1>16
<1>23. P(<<169, 254>>, 16) <=> x = 169 /\ y = 254
  BY <1>15
<1>24. P(<<100, 64>>, 10) <=> x = 100 /\ y \in 64 .. 127
  BY <1>15, <1>18
<1>25. P(<<172, 16>>, 12) <=> x = 172 /\ y \in 16 .. 31
  BY <1>15, <1>18
<1>26. P(<<198, 18>>, 15) <=> x = 198 /\ y \in {18, 19}
  BY <1>15, <1>18
<1>21. IsPrivateIpv4(o) <=>
         \/ x \in {0, 10, 127} \/ x >= 224
         \/ (x = 169 /\ y = 254)
         \/ (x = 172 /\ y \in 16 .. 31)
         \/ (x = 192 /\ (y = 168 \/ (y = 0 /\ z = 0)))
         \/ (x = 100 /\ y \in 64 .. 127)
         \/ (x = 198 /\ y \in {18, 19})
  BY DEF IsPrivateIpv4, x, y, z
<1> QED
  BY <1>12, <1>19, <1>20, <1>21, <1>22, <1>23, <1>24, <1>25, <1>26
-----------------------------------------------------------------------------
(* IPv6 addresses, and IPv4 addresses in them.                             *)

LEMMA ConcatPrefix ==
  ASSUME NEW e \in Seq(Nat), NEW b \in Seq(Nat), NEW u \in Seq(Nat), NEW t \in Seq(Nat),
         Len(e) + Len(u) <= Len(t), Len(b) <= Len(u),
         \A i \in 1 .. Len(u) : t[Len(e) + i] = u[i]
  PROVE  IsPrefix(e \o b, t) <=> IsPrefix(e, t) /\ IsPrefix(b, u)
<1> DEFINE p == e \o b
           m == Len(e)
           n == Len(b)
           q == Len(t)
<1>1. p \in Seq(Nat) /\ Len(p) = m + n
  OBVIOUS
<1>2. /\ \A i \in 1 .. m : p[i] = e[i]
      /\ \A i \in 1 .. n : p[m + i] = b[i]
  <2>1. m \in Nat /\ n \in Nat
    OBVIOUS
  <2>2. \A i \in 1 .. m + n : p[i] = IF i <= m THEN e[i] ELSE b[i - m]
    BY ConcatProperties
  <2> HIDE DEF m, n, p
  <2>3. ASSUME NEW i \in 1 .. m PROVE p[i] = e[i]
    <3>1. i \in 1 .. m + n /\ i <= m
      BY <2>1
    <3> QED
      BY <2>2, <3>1
  <2>4. ASSUME NEW i \in 1 .. n PROVE p[m + i] = b[i]
    <3>1. m + i \in 1 .. m + n /\ ~(m + i <= m) /\ (m + i) - m = i
      BY <2>1
    <3> QED
      BY <2>2, <3>1
  <2> QED
    BY <2>3, <2>4
<1>3. n \in Nat /\ m \in Nat /\ q \in Nat /\ m + n <= q /\ m <= q
  OBVIOUS
<1>4. \A i \in 1 .. n : t[m + i] = u[i]
  <2>1. \A i \in 1 .. Len(u) : t[m + i] = u[i]
    OBVIOUS
  <2>2. n \in Nat /\ Len(u) \in Nat /\ n <= Len(u)
    OBVIOUS
  <2>3. \A i \in 1 .. n : i \in 1 .. Len(u)
    <3> HIDE DEF n, m, p, q
    <3> QED
      BY <2>2
  <2> HIDE DEF n, m, p, q
  <2> QED
    BY <2>1, <2>3
<1>9. IsPrefix(p, t) <=> Len(p) <= q /\ \A i \in 1 .. Len(p) : p[i] = t[i]
  <2> HIDE DEF p
  <2> QED
    BY <1>1, PrefixPointwise
<1>10. IsPrefix(e, t) <=> m <= q /\ \A i \in 1 .. m : e[i] = t[i]
  BY PrefixPointwise
<1>11. IsPrefix(b, u) <=> \A i \in 1 .. n : b[i] = u[i]
  BY PrefixPointwise
<1> HIDE DEF p, m, n, q
<1>5. \A i \in 1 .. m + n : i \in 1 .. m \/ \E l \in 1 .. n : i = m + l
  <2> TAKE i \in 1 .. m + n
  <2>1. CASE i <= m
    BY <1>3, <2>1
  <2>2. CASE i > m
    <3>1. i - m \in 1 .. n /\ i = m + (i - m)
      BY <1>3, <2>2
    <3> QED
      BY <3>1
  <2> QED
    BY <1>3, <2>1, <2>2
<1>6. \A l \in 1 .. n : m + l \in 1 .. m + n
  BY <1>3
<1>7. \A i \in 1 .. m : i \in 1 .. m + n
  BY <1>3
<1>8. (\A i \in 1 .. m + n : p[i] = t[i]) <=>
        (\A i \in 1 .. m : e[i] = t[i]) /\ (\A i \in 1 .. n : b[i] = u[i])
  <2>1. ASSUME \A i \in 1 .. m + n : p[i] = t[i]
        PROVE  (\A i \in 1 .. m : e[i] = t[i]) /\ (\A i \in 1 .. n : b[i] = u[i])
    BY <1>2, <1>4, <1>6, <1>7, <2>1
  <2>2. ASSUME \A i \in 1 .. m : e[i] = t[i], \A i \in 1 .. n : b[i] = u[i]
        PROVE  \A i \in 1 .. m + n : p[i] = t[i]
    BY <1>2, <1>4, <1>5, <2>2
  <2> QED
    BY <2>1, <2>2
<1> QED
  BY <1>1, <1>3, <1>8, <1>9, <1>10, <1>11 DEF p

\* A group of 16 bits is two octets.
LEMMA GroupBits ==
  ASSUME NEW x \in Group, NEW m \in 1 .. 8
  PROVE  Bit(x \div 256, 8, m) = Bit(x, 16, m) /\ Bit(x % 256, 8, m) = Bit(x, 16, 8 + m)
<1>1. PICK d \in {1, 2, 4, 8, 16, 32, 64, 128} : 2^(8 - m) = d /\ 2^(16 - m) = 256 * d
  <2> DEFINE e == 8 - m
  <2>1. e \in 0 .. 7 /\ 16 - m = e + 8
    OBVIOUS
  <2> HIDE DEF e
  <2>2. 2^e \in {1, 2, 4, 8, 16, 32, 64, 128} /\ 2^(e + 8) = 256 * 2^e
    BY <2>1, Powers
  <2>3. 2^(16 - m) = 256 * 2^e
    BY <2>1, <2>2
  <2> QED
    BY <2>2, <2>3 DEF e
<1>2. 16 - (8 + m) = 8 - m
  OBVIOUS
<1>3. (x \div 256) \div d = x \div (256 * d)
  <2>1. x \in Nat
    BY GroupIs
  <2>2. /\ (x \div 256) \div 1 = x \div 256 /\ (x \div 256) \div 2 = x \div 512
        /\ (x \div 256) \div 4 = x \div 1024 /\ (x \div 256) \div 8 = x \div 2048
    BY <2>1
  <2>3. /\ (x \div 256) \div 16 = x \div 4096 /\ (x \div 256) \div 32 = x \div 8192
        /\ (x \div 256) \div 64 = x \div 16384 /\ (x \div 256) \div 128 = x \div 32768
    BY <2>1
  <2> QED
    BY <2>2, <2>3
<1>4. ((x % 256) \div d) % 2 = (x \div d) % 2
  BY GroupIs
<1> QED
  BY <1>1, <1>2, <1>3, <1>4 DEF Bit

LEMMA GroupOctets ==
  ASSUME NEW x \in Group
  PROVE  x \div 256 \in Octet /\ x % 256 \in Octet
<1>1. x \in Nat /\ x < 65536
  BY GroupIs
<1>2. x \div 256 \in 0 .. 255
  BY <1>1
<1>3. x % 256 \in 0 .. 255
  BY <1>1
<1> QED
  BY <1>2, <1>3 DEF Octet

\* Bit i of an address is bit m of word j.
IsBit(w, j, m, i) == m \in 1 .. w /\ i = w * (j - 1) + m

LEMMA BitAt ==
  ASSUME NEW w \in {8, 16}, NEW s \in Seq(Nat), NEW j \in 1 .. Len(s), NEW m, NEW i,
         IsBit(w, j, m, i)
  PROVE  Bits(s, w)[i] = Bit(s[j], w, m)
BY WordBits DEF IsBit

LEMMA WordAt ==
  ASSUME NEW w \in {8, 16}, NEW s \in Seq(Nat), NEW j \in 1 .. Len(s)
  PROVE  \A m, i : IsBit(w, j, m, i) => Bits(s, w)[i] = Bit(s[j], w, m)
BY BitAt

LEMMA EmbeddedBits ==
  ASSUME NEW g \in Seq(Group), Len(g) = 8, NEW k \in {1, 6}
  PROVE  LET o == Octets(g[k + 1], g[k + 2]) IN
         /\ o \in Seq(Octet) /\ Len(o) = 4
         /\ \A i \in 1 .. 32 : Bits(g, 16)[16 * k + i] = Bits(o, 8)[i]
<1> DEFINE h == g[k + 1]
           l == g[k + 2]
           o == Octets(h, l)
<1>1. k + 1 \in 1 .. Len(g) /\ k + 2 \in 1 .. Len(g) /\ h \in Group /\ l \in Group
  <2>1. k + 1 \in 1 .. Len(g) /\ k + 2 \in 1 .. Len(g)
    OBVIOUS
  <2> QED
    BY <2>1, ElementOfSeq
<1>2. o \in Seq(Octet) /\ Len(o) = 4
      /\ o[1] = h \div 256 /\ o[2] = h % 256 /\ o[3] = l \div 256 /\ o[4] = l % 256
  BY <1>1, GroupOctets DEF Octets
<1>3. o \in Seq(Nat) /\ g \in Seq(Nat)
  <2>1. Octet \subseteq Nat /\ Group \subseteq Nat
    BY GroupIs DEF Octet
  <2> HIDE DEF o
  <2> QED
    BY <1>2, <2>1, WiderSeq
<1> HIDE DEF o
<1>4. 1 \in 1 .. Len(o) /\ 2 \in 1 .. Len(o) /\ 3 \in 1 .. Len(o) /\ 4 \in 1 .. Len(o)
  BY <1>2
<1>8. ASSUME NEW m \in 1 .. 8
      PROVE  /\ Bits(g, 16)[16 * k + m] = Bits(o, 8)[m]
             /\ Bits(g, 16)[16 * k + (8 + m)] = Bits(o, 8)[8 + m]
             /\ Bits(g, 16)[16 * k + (16 + m)] = Bits(o, 8)[16 + m]
             /\ Bits(g, 16)[16 * k + (24 + m)] = Bits(o, 8)[24 + m]
  <2>1. /\ IsBit(16, k + 1, m, 16 * k + m) /\ IsBit(16, k + 1, 8 + m, 16 * k + (8 + m))
        /\ IsBit(16, k + 2, m, 16 * k + (16 + m)) /\ IsBit(16, k + 2, 8 + m, 16 * k + (24 + m))
    BY DEF IsBit
  <2>2. /\ Bits(g, 16)[16 * k + m] = Bit(h, 16, m)
        /\ Bits(g, 16)[16 * k + (8 + m)] = Bit(h, 16, 8 + m)
        /\ Bits(g, 16)[16 * k + (16 + m)] = Bit(l, 16, m)
        /\ Bits(g, 16)[16 * k + (24 + m)] = Bit(l, 16, 8 + m)
    <3> DEFINE a == k + 1
               c == k + 2
    <3>1. a \in 1 .. Len(g) /\ c \in 1 .. Len(g)
      BY <1>1
    <3>2. /\ IsBit(16, a, m, 16 * k + m) /\ IsBit(16, a, 8 + m, 16 * k + (8 + m))
          /\ IsBit(16, c, m, 16 * k + (16 + m)) /\ IsBit(16, c, 8 + m, 16 * k + (24 + m))
      BY <2>1
    <3> HIDE DEF a, c
    <3>3. \A j \in {a, c} : \A n, i : IsBit(16, j, n, i) => Bits(g, 16)[i] = Bit(g[j], 16, n)
      <4>1. 16 \in {8, 16} /\ g \in Seq(Nat)
        BY <1>3
      <4>2. \A n, i : IsBit(16, a, n, i) => Bits(g, 16)[i] = Bit(g[a], 16, n)
        BY <3>1, <4>1, WordAt
      <4>3. \A n, i : IsBit(16, c, n, i) => Bits(g, 16)[i] = Bit(g[c], 16, n)
        BY <3>1, <4>1, WordAt
      <4> QED
        BY <4>2, <4>3
    <3> QED
      BY <3>2, <3>3 DEF a, c
  <2>3. IsBit(8, 1, m, m) /\ IsBit(8, 2, m, 8 + m) /\ IsBit(8, 3, m, 16 + m) /\ IsBit(8, 4, m, 24 + m)
    BY DEF IsBit
  <2>4. /\ Bits(o, 8)[m] = Bit(o[1], 8, m) /\ Bits(o, 8)[8 + m] = Bit(o[2], 8, m)
        /\ Bits(o, 8)[16 + m] = Bit(o[3], 8, m) /\ Bits(o, 8)[24 + m] = Bit(o[4], 8, m)
    BY <1>3, <1>4, <2>3, BitAt
  <2> HIDE DEF h, l
  <2>5. /\ Bit(h, 16, m) = Bit(o[1], 8, m) /\ Bit(h, 16, 8 + m) = Bit(o[2], 8, m)
        /\ Bit(l, 16, m) = Bit(o[3], 8, m) /\ Bit(l, 16, 8 + m) = Bit(o[4], 8, m)
    BY <1>1, <1>2, GroupBits
  <2> QED
    BY <2>2, <2>4, <2>5
<1>9. \A i \in 1 .. 32 : Bits(g, 16)[16 * k + i] = Bits(o, 8)[i]
  <2> TAKE i \in 1 .. 32
  <2>1. \E m \in 1 .. 8 : i = m \/ i = 8 + m \/ i = 16 + m \/ i = 24 + m
    <3>1. CASE i \in 1 .. 8
      BY <3>1
    <3>2. CASE i \in 9 .. 16
      <4>1. i - 8 \in 1 .. 8 /\ i = 8 + (i - 8)
        BY <3>2
      <4> QED
        BY <4>1
    <3>3. CASE i \in 17 .. 24
      <4>1. i - 16 \in 1 .. 8 /\ i = 16 + (i - 16)
        BY <3>3
      <4> QED
        BY <4>1
    <3>4. CASE i \in 25 .. 32
      <4>1. i - 24 \in 1 .. 8 /\ i = 24 + (i - 24)
        BY <3>4
      <4> QED
        BY <4>1
    <3> QED
      BY <3>1, <3>2, <3>3, <3>4
  <2>2. PICK m \in 1 .. 8 : i = m \/ i = 8 + m \/ i = 16 + m \/ i = 24 + m
    BY <2>1
  <2>3. /\ Bits(g, 16)[16 * k + m] = Bits(o, 8)[m]
        /\ Bits(g, 16)[16 * k + (8 + m)] = Bits(o, 8)[8 + m]
        /\ Bits(g, 16)[16 * k + (16 + m)] = Bits(o, 8)[16 + m]
        /\ Bits(g, 16)[16 * k + (24 + m)] = Bits(o, 8)[24 + m]
    BY <1>8
  <2> QED
    BY <2>2, <2>3
<1> QED
  BY <1>2, <1>9 DEF o
LEMMA NetType ==
  ASSUME NEW w \in {8, 16}, NEW c \in Seq(Words(w)), NEW len \in 0 .. w * Len(c)
  PROVE  SubSeq(Bits(c, w), 1, len) \in Seq(Nat) /\ Len(SubSeq(Bits(c, w), 1, len)) = len
<1>1. Words(w) \subseteq Nat
  BY Tops DEF Words
<1>2. c \in Seq(Nat)
  BY <1>1, WiderSeq
<1>3. Bits(c, w) \in Seq(Nat) /\ Len(Bits(c, w)) = w * Len(c)
  BY <1>2, WordBits
<1> QED
  BY <1>3, FirstBits

LEMMA WordsAre == Words(8) = Octet /\ Words(16) = Group
BY Tops DEF Words, Octet, Group

LEMMA Blocks4Type ==
  ASSUME NEW b \in Blocks4
  PROVE  b \in Seq(Nat) /\ Len(b) <= 32
<1> DEFINE Fits(v, len) == v \in Seq(Octet) /\ len \in 0 .. 8 * Len(v) /\ len <= 32
<1>1. \A v, len : Fits(v, len) => Net4(v, len) \in Seq(Nat) /\ Len(Net4(v, len)) <= 32
  BY WordsAre, NetType DEF Net4
<1>2. \A a \in {0, 10, 127, 224, 240, 100, 64, 169, 254, 172, 16, 192, 168, 198, 18} : a \in Octet
  BY DEF Octet
<1>3. Fits(<<0>>, 8) /\ Fits(<<10>>, 8) /\ Fits(<<127>>, 8) /\ Fits(<<224>>, 4) /\ Fits(<<240>>, 4)
  BY <1>2
<1>4. /\ Fits(<<100, 64>>, 10) /\ Fits(<<169, 254>>, 16) /\ Fits(<<172, 16>>, 12)
      /\ Fits(<<192, 168>>, 16) /\ Fits(<<198, 18>>, 15) /\ Fits(<<192, 0, 0>>, 24)
  BY <1>2
<1> HIDE DEF Fits
<1> DEFINE Ok(x) == x \in Seq(Nat) /\ Len(x) <= 32
<1>5. /\ Ok(Net4(<<0>>, 8)) /\ Ok(Net4(<<10>>, 8)) /\ Ok(Net4(<<127>>, 8))
      /\ Ok(Net4(<<224>>, 4)) /\ Ok(Net4(<<240>>, 4))
  BY <1>1, <1>3
<1>6. /\ Ok(Net4(<<100, 64>>, 10)) /\ Ok(Net4(<<169, 254>>, 16)) /\ Ok(Net4(<<172, 16>>, 12))
      /\ Ok(Net4(<<192, 168>>, 16)) /\ Ok(Net4(<<198, 18>>, 15)) /\ Ok(Net4(<<192, 0, 0>>, 24))
  BY <1>1, <1>4
<1> HIDE DEF Ok
<1>7. Ok(b)
  BY <1>5, <1>6 DEF Blocks4
<1> QED
  BY <1>7 DEF Ok

LEMMA Whole ==
  ASSUME NEW g \in Seq(Group), Len(g) = 8
  PROVE  Net6(g, 128) = Bits(g, 16) /\ Bits(g, 16) \in Seq(Nat) /\ Len(Bits(g, 16)) = 128
<1>1. Group \subseteq Nat
  BY GroupIs
<1>2. g \in Seq(Nat)
  BY <1>1, WiderSeq
<1>3. Bits(g, 16) \in Seq(Nat) /\ Len(Bits(g, 16)) = 16 * Len(g)
  BY <1>2, WordBits
<1> QED
  BY <1>3, SubSeqFull DEF Net6

\* The blocks of an embedding are the addresses that embed a private one.
LEMMA EmbeddingExact ==
  ASSUME NEW g \in Seq(Group), Len(g) = 8, NEW k \in {1, 6}, NEW v \in Seq(Group), Len(v) = k
  PROVE  (\E b \in Blocks4 : IsPrefix(Net6(v, 16 * k) \o b, Net6(g, 128))) <=>
           SameWords(k, 1, v, g) /\ IsPrivateIpv4(Octets(g[k + 1], g[k + 2]))
<1> DEFINE e == Net6(v, 16 * k)
           t == Bits(g, 16)
           o == Octets(g[k + 1], g[k + 2])
           u == Bits(o, 8)
<1>1. e \in Seq(Nat) /\ Len(e) = 16 * k
  <2>1. 16 * k \in 0 .. 16 * Len(v) /\ v \in Seq(Words(16))
    BY WordsAre
  <2> QED
    BY <2>1, NetType DEF Net6
<1>2. Net6(g, 128) = t /\ t \in Seq(Nat) /\ Len(t) = 128
  BY Whole
<1>3. o \in Seq(Octet) /\ Len(o) = 4 /\ \A i \in 1 .. 32 : t[16 * k + i] = u[i]
  BY EmbeddedBits
<1> HIDE DEF o
<1>4. Net4(o, 32) = u /\ u \in Seq(Nat) /\ Len(u) = 32
  <2>1. Octet \subseteq Nat
    BY DEF Octet
  <2>2. o \in Seq(Nat)
    BY <1>3, <2>1, WiderSeq
  <2>3. u \in Seq(Nat) /\ Len(u) = 8 * Len(o)
    BY <2>2, WordBits
  <2> QED
    BY <1>3, <2>3, SubSeqFull DEF Net4
<1>5. IsPrefix(e, t) <=> SameWords(k, 1, v, g)
  <2>1. 2^(16 - 16) = 1 /\ 16 * k = 16 * (k - 1) + 16
    OBVIOUS
  <2>2. Cut(16, 16 * k, k, 1)
    BY <2>1 DEF Cut
  <2>3. k \in 1 .. Len(g) /\ v \in Seq(Words(16)) /\ g \in Seq(Words(16)) /\ 16 \in {8, 16}
    BY WordsAre
  <2>4. Begins(16, 16 * k, v, g) <=> SameWords(k, 1, v, g)
    BY <2>2, <2>3, Block
  <2> QED
    BY <2>4 DEF Begins, Net6
<1> HIDE DEF e, t, u
<1>6. \A b \in Blocks4 : IsPrefix(e \o b, t) <=> IsPrefix(e, t) /\ IsPrefix(b, u)
  <2> TAKE b \in Blocks4
  <2>1. b \in Seq(Nat) /\ Len(b) <= Len(u)
    BY <1>4, Blocks4Type
  <2>2. Len(e) + Len(u) <= Len(t) /\ \A i \in 1 .. Len(u) : t[Len(e) + i] = u[i]
    BY <1>1, <1>2, <1>3, <1>4
  <2>3. e \in Seq(Nat) /\ u \in Seq(Nat) /\ t \in Seq(Nat)
    BY <1>1, <1>2, <1>4
  <2>4. IsPrefix(e \o b, t) <=> IsPrefix(e, t) /\ IsPrefix(b, u)
    BY <2>1, <2>2, <2>3, ConcatPrefix
  <2> QED
    BY <2>4
<1>7. IsPrivateIpv4(o) <=> \E b \in Blocks4 : IsPrefix(b, u)
  BY <1>3, <1>4, Ipv4Exact DEF In
<1>8. (\E b \in Blocks4 : IsPrefix(e \o b, t)) <=> SameWords(k, 1, v, g) /\ IsPrivateIpv4(o)
  BY <1>5, <1>6, <1>7
<1> QED
  BY <1>2, <1>8 DEF e, o

LEMMA Block6 ==
  ASSUME NEW g \in Seq(Group), Len(g) = 8, NEW k \in 1 .. 8, NEW v \in Seq(Group), Len(v) = k,
         NEW len, NEW d, Cut(16, len, k, d)
  PROVE  IsPrefix(Net6(v, len), Net6(g, 128)) <=> SameWords(k, d, v, g)
<1>1. k \in 1 .. Len(g) /\ v \in Seq(Words(16)) /\ g \in Seq(Words(16)) /\ 16 \in {8, 16}
  BY WordsAre
<1>2. Begins(16, len, v, g) <=> SameWords(k, d, v, g)
  BY <1>1, Block
<1>3. Net6(g, 128) = Bits(g, 16)
  BY Whole
<1> QED
  BY <1>2, <1>3 DEF Begins, Net6

\* The masks of IPv6 addresses, as the bits that are left.
LEMMA Masks ==
  ASSUME NEW x \in Group
  PROVE  /\ Masked(x, 10, \hfe80) <=> Alike(64, \hfe80, x)
         /\ Masked(x, 7, \hfc00) <=> Alike(512, \hfc00, x)
         /\ Masked(x, 8, \hff00) <=> Alike(256, \hff00, x)
         /\ Masked(x, 3, \h2000) <=> Alike(8192, \h2000, x)
<1>1. 2^(16 - 10) = 64 /\ 2^(16 - 7) = 512 /\ 2^(16 - 8) = 256 /\ 2^(16 - 3) = 8192
  OBVIOUS
<1>2. x \in Nat /\ x < 65536
  BY GroupIs
<1>3. Masked(x, 10, \hfe80) <=> Alike(64, \hfe80, x)
  BY <1>1, <1>2 DEF Masked, Alike
<1>4. Masked(x, 7, \hfc00) <=> Alike(512, \hfc00, x)
  BY <1>1, <1>2 DEF Masked, Alike
<1>5. Masked(x, 8, \hff00) <=> Alike(256, \hff00, x)
  BY <1>1, <1>2 DEF Masked, Alike
<1>6. Masked(x, 3, \h2000) <=> Alike(8192, \h2000, x)
  BY <1>1, <1>2 DEF Masked, Alike
<1> QED
  BY <1>3, <1>4, <1>5, <1>6

LEMMA Cuts6 ==
  /\ Cut(16, 128, 8, 1) /\ Cut(16, 96, 6, 1) /\ Cut(16, 16, 1, 1)
  /\ Cut(16, 10, 1, 64) /\ Cut(16, 7, 1, 512) /\ Cut(16, 8, 1, 256)
<1>1. 1 = 2^(16 - 16) /\ 64 = 2^(16 - 10) /\ 512 = 2^(16 - 7) /\ 256 = 2^(16 - 8)
  OBVIOUS
<1>2. Cut(16, 128, 8, 1) /\ Cut(16, 96, 6, 1) /\ Cut(16, 16, 1, 1)
  BY <1>1 DEF Cut
<1>3. Cut(16, 10, 1, 64)
  BY <1>1 DEF Cut
<1>4. Cut(16, 7, 1, 512)
  BY <1>1 DEF Cut
<1>5. Cut(16, 8, 1, 256)
  BY <1>1 DEF Cut
<1> QED
  BY <1>2, <1>3, <1>4, <1>5

\* The words that the blocks of IPv6 addresses begin with.
MappedWords == <<0, 0, 0, 0, 0, \hffff>>
CompatibleWords == <<0, 0, 0, 0, 0, 0>>
LoopbackWords == <<0, 0, 0, 0, 0, 0, 0, 1>>
Nat64Words == <<\h64, \hff9b, 0, 0, 0, 0>>
OneWord(x) == <<x>>

LEMMA WordsOfBlocks ==
  /\ MappedWords \in Seq(Group) /\ Len(MappedWords) = 6
  /\ CompatibleWords \in Seq(Group) /\ Len(CompatibleWords) = 6
  /\ LoopbackWords \in Seq(Group) /\ Len(LoopbackWords) = 8
  /\ Nat64Words \in Seq(Group) /\ Len(Nat64Words) = 6
  /\ \A x \in Group : OneWord(x) \in Seq(Group) /\ Len(OneWord(x)) = 1
  /\ \A x \in {0, 1, \hffff, \h64, \hff9b, \hfe80, \hfc00, \hff00, \h2002} : x \in Group
<1>1. \A x \in {0, 1, \hffff, \h64, \hff9b, \hfe80, \hfc00, \hff00, \h2002} : x \in Group
  BY GroupIs
<1>2. MappedWords \in Seq(Group) /\ Len(MappedWords) = 6
  BY <1>1 DEF MappedWords
<1>3. CompatibleWords \in Seq(Group) /\ Len(CompatibleWords) = 6
  BY <1>1 DEF CompatibleWords
<1>4. LoopbackWords \in Seq(Group) /\ Len(LoopbackWords) = 8
  BY <1>1 DEF LoopbackWords
<1>5. Nat64Words \in Seq(Group) /\ Len(Nat64Words) = 6
  BY <1>1 DEF Nat64Words
<1>6. \A x \in Group : OneWord(x) \in Seq(Group) /\ Len(OneWord(x)) = 1
  BY DEF OneWord
<1> QED
  BY <1>1, <1>2, <1>3, <1>4, <1>5, <1>6

LEMMA SameOne ==
  ASSUME NEW a \in Group, NEW b \in Group
  PROVE  Alike(1, a, b) <=> a = b
<1>1. a \in Int /\ b \in Int
  BY GroupIs
<1>2. \A x \in Int : x \div 1 = x
  OBVIOUS
<1> QED
  BY <1>1, <1>2 DEF Alike

\* An address has the words of a block exactly if the code's match says so.
LEMMA WordMatches ==
  ASSUME NEW g \in Seq(Group), Len(g) = 8
  PROVE  /\ SameWords(6, 1, MappedWords, g) <=> MatchIpv4Mapped(g)
         /\ SameWords(6, 1, CompatibleWords, g) <=> MatchIpv4Compatible(g)
         /\ SameWords(1, 1, OneWord(\h2002), g) <=> Match6to4(g)
         /\ SameWords(8, 1, LoopbackWords, g) <=> Zero(g, 1, 7) /\ g[8] = 1
         /\ SameWords(6, 1, Nat64Words, g) <=> IsNat64WellKnown(g)
         /\ \A a, d : SameWords(1, d, OneWord(a), g) <=> Alike(d, a, g[1])
<1>1. g[1] \in Group /\ g[6] \in Group /\ g[8] \in Group
  <2>1. 1 \in 1 .. Len(g) /\ 6 \in 1 .. Len(g) /\ 8 \in 1 .. Len(g)
    OBVIOUS
  <2> QED
    BY <2>1, ElementOfSeq
<1>2. \A x \in {0, 1, \hffff, \h2002} : x \in Group
  BY WordsOfBlocks
<1>3. /\ Alike(1, \hffff, g[6]) <=> \hffff = g[6]
      /\ Alike(1, 0, g[6]) <=> 0 = g[6]
      /\ Alike(1, \h2002, g[1]) <=> \h2002 = g[1]
      /\ Alike(1, 1, g[8]) <=> 1 = g[8]
  BY <1>1, <1>2, SameOne
<1>4. SameWords(6, 1, MappedWords, g) <=> MatchIpv4Mapped(g)
  BY <1>3 DEF SameWords, MatchIpv4Mapped, Zero, MappedWords
<1>5. SameWords(6, 1, CompatibleWords, g) <=> MatchIpv4Compatible(g)
  BY <1>3 DEF SameWords, MatchIpv4Compatible, Zero, CompatibleWords
<1>6. SameWords(1, 1, OneWord(\h2002), g) <=> Match6to4(g)
  BY <1>3 DEF SameWords, Match6to4, OneWord
<1>7. SameWords(8, 1, LoopbackWords, g) <=> Zero(g, 1, 7) /\ g[8] = 1
  BY <1>3 DEF SameWords, Zero, LoopbackWords
<1>8. SameWords(6, 1, Nat64Words, g) <=> IsNat64WellKnown(g)
  BY <1>3 DEF SameWords, IsNat64WellKnown, Zero, Nat64Words
<1>9. \A a, d : SameWords(1, d, OneWord(a), g) <=> Alike(d, a, g[1])
  BY DEF SameWords, OneWord
<1> QED
  BY <1>4, <1>5, <1>6, <1>7, <1>8, <1>9

LEMMA BlocksOf6 ==
  ASSUME NEW t
  PROVE  In(t, Blocks6) <=>
           \/ \E e \in {Net6(MappedWords, 96), Net6(CompatibleWords, 96), Net6(OneWord(\h2002), 16)} :
                \E b \in Blocks4 : IsPrefix(e \o b, t)
           \/ IsPrefix(Net6(LoopbackWords, 128), t) \/ IsPrefix(Net6(Nat64Words, 96), t)
           \/ IsPrefix(Net6(OneWord(\hfe80), 10), t) \/ IsPrefix(Net6(OneWord(\hfc00), 7), t)
           \/ IsPrefix(Net6(OneWord(\hff00), 8), t)
<1>1. Embeddings = {Net6(MappedWords, 96), Net6(CompatibleWords, 96), Net6(OneWord(\h2002), 16)}
  BY DEF Embeddings, MappedWords, CompatibleWords, OneWord
<1>2. Blocks6 = {e \o b : e \in Embeddings, b \in Blocks4} \cup
        {Net6(LoopbackWords, 128), Net6(Nat64Words, 96), Net6(OneWord(\hfe80), 10),
         Net6(OneWord(\hfc00), 7), Net6(OneWord(\hff00), 8)}
  BY DEF Blocks6, LoopbackWords, Nat64Words, OneWord
<1> DEFINE both == {e \o b : e \in Embeddings, b \in Blocks4}
           five == {Net6(LoopbackWords, 128), Net6(Nat64Words, 96), Net6(OneWord(\hfe80), 10),
                    Net6(OneWord(\hfc00), 7), Net6(OneWord(\hff00), 8)}
<1>3. (\E x \in both : IsPrefix(x, t)) <=>
        \E e \in Embeddings : \E b \in Blocks4 : IsPrefix(e \o b, t)
  <2>1. \A e \in Embeddings : \A b \in Blocks4 : e \o b \in both
    OBVIOUS
  <2>2. \A x \in both : \E e \in Embeddings : \E b \in Blocks4 : x = e \o b
    OBVIOUS
  <2> HIDE DEF both
  <2> QED
    BY <2>1, <2>2
<1>4. In(t, Blocks6) <=> (\E x \in both : IsPrefix(x, t)) \/ (\E x \in five : IsPrefix(x, t))
  <2>1. Blocks6 = both \cup five
    BY <1>2
  <2> HIDE DEF both, five
  <2> QED
    BY <2>1 DEF In
<1>5. (\E x \in five : IsPrefix(x, t)) <=>
        \/ IsPrefix(Net6(LoopbackWords, 128), t) \/ IsPrefix(Net6(Nat64Words, 96), t)
        \/ IsPrefix(Net6(OneWord(\hfe80), 10), t) \/ IsPrefix(Net6(OneWord(\hfc00), 7), t)
        \/ IsPrefix(Net6(OneWord(\hff00), 8), t)
  OBVIOUS
<1> HIDE DEF both, five
<1> QED
  BY <1>1, <1>3, <1>4, <1>5

LEMMA Embedded ==
  ASSUME NEW g \in Seq(Group), Len(g) = 8
  PROVE  /\ \A v \in {MappedWords, CompatibleWords} :
              (\E b \in Blocks4 : IsPrefix(Net6(v, 96) \o b, Net6(g, 128))) <=>
                SameWords(6, 1, v, g) /\ IsPrivateIpv4(Octets(g[7], g[8]))
         /\ (\E b \in Blocks4 : IsPrefix(Net6(OneWord(\h2002), 16) \o b, Net6(g, 128))) <=>
              SameWords(1, 1, OneWord(\h2002), g) /\ IsPrivateIpv4(Octets(g[2], g[3]))
<1>1. 16 * 6 = 96 /\ 16 * 1 = 16 /\ 6 + 1 = 7 /\ 6 + 2 = 8 /\ 1 + 1 = 2 /\ 1 + 2 = 3
  OBVIOUS
<1>2. ASSUME NEW v \in {MappedWords, CompatibleWords}
      PROVE  (\E b \in Blocks4 : IsPrefix(Net6(v, 96) \o b, Net6(g, 128))) <=>
               SameWords(6, 1, v, g) /\ IsPrivateIpv4(Octets(g[7], g[8]))
  <2>1. 6 \in {1, 6} /\ v \in Seq(Group) /\ Len(v) = 6
    BY WordsOfBlocks
  <2>2. (\E b \in Blocks4 : IsPrefix(Net6(v, 16 * 6) \o b, Net6(g, 128))) <=>
           SameWords(6, 1, v, g) /\ IsPrivateIpv4(Octets(g[6 + 1], g[6 + 2]))
    BY <2>1, EmbeddingExact
  <2> QED
    BY <1>1, <2>2
<1>3. (\E b \in Blocks4 : IsPrefix(Net6(OneWord(\h2002), 16) \o b, Net6(g, 128))) <=>
        SameWords(1, 1, OneWord(\h2002), g) /\ IsPrivateIpv4(Octets(g[2], g[3]))
  <2> DEFINE v == OneWord(\h2002)
  <2>1. 1 \in {1, 6} /\ v \in Seq(Group) /\ Len(v) = 1
    BY WordsOfBlocks
  <2> HIDE DEF v
  <2>2. (\E b \in Blocks4 : IsPrefix(Net6(v, 16 * 1) \o b, Net6(g, 128))) <=>
           SameWords(1, 1, v, g) /\ IsPrivateIpv4(Octets(g[1 + 1], g[1 + 2]))
    BY <2>1, EmbeddingExact
  <2> QED
    BY <1>1, <2>2 DEF v
<1> QED
  BY <1>2, <1>3

LEMMA Others ==
  ASSUME NEW g \in Seq(Group), Len(g) = 8
  PROVE  /\ IsPrefix(Net6(LoopbackWords, 128), Net6(g, 128)) <=> Zero(g, 1, 7) /\ g[8] = 1
         /\ IsPrefix(Net6(Nat64Words, 96), Net6(g, 128)) <=> IsNat64WellKnown(g)
         /\ IsPrefix(Net6(OneWord(\hfe80), 10), Net6(g, 128)) <=> Masked(g[1], 10, \hfe80)
         /\ IsPrefix(Net6(OneWord(\hfc00), 7), Net6(g, 128)) <=> Masked(g[1], 7, \hfc00)
         /\ IsPrefix(Net6(OneWord(\hff00), 8), Net6(g, 128)) <=> Masked(g[1], 8, \hff00)
<1> DEFINE P(v, len) == IsPrefix(Net6(v, len), Net6(g, 128))
<1>1. ASSUME NEW a \in {\hfe80, \hfc00, \hff00}, NEW len, NEW d, Cut(16, len, 1, d)
      PROVE  P(OneWord(a), len) <=> Alike(d, a, g[1])
  <2>1. OneWord(a) \in Seq(Group) /\ Len(OneWord(a)) = 1 /\ 1 \in 1 .. 8
    BY WordsOfBlocks
  <2>2. P(OneWord(a), len) <=> SameWords(1, d, OneWord(a), g)
    BY <1>1, <2>1, Block6
  <2>3. SameWords(1, d, OneWord(a), g) <=> Alike(d, a, g[1])
    BY WordMatches
  <2> QED
    BY <2>2, <2>3
<1>2. g[1] \in Group
  OBVIOUS
<1>3. P(LoopbackWords, 128) <=> Zero(g, 1, 7) /\ g[8] = 1
  <2>1. LoopbackWords \in Seq(Group) /\ Len(LoopbackWords) = 8 /\ 8 \in 1 .. 8 /\ Cut(16, 128, 8, 1)
    BY WordsOfBlocks, Cuts6
  <2>2. P(LoopbackWords, 128) <=> SameWords(8, 1, LoopbackWords, g)
    BY <2>1, Block6
  <2> QED
    BY <2>2, WordMatches
<1>4. P(Nat64Words, 96) <=> IsNat64WellKnown(g)
  <2>1. Nat64Words \in Seq(Group) /\ Len(Nat64Words) = 6 /\ 6 \in 1 .. 8 /\ Cut(16, 96, 6, 1)
    BY WordsOfBlocks, Cuts6
  <2>2. P(Nat64Words, 96) <=> SameWords(6, 1, Nat64Words, g)
    BY <2>1, Block6
  <2> QED
    BY <2>2, WordMatches
<1>5. /\ P(OneWord(\hfe80), 10) <=> Alike(64, \hfe80, g[1])
      /\ P(OneWord(\hfc00), 7) <=> Alike(512, \hfc00, g[1])
      /\ P(OneWord(\hff00), 8) <=> Alike(256, \hff00, g[1])
  <2> HIDE DEF P
  <2> QED
    BY <1>1, Cuts6
<1>6. /\ Masked(g[1], 10, \hfe80) <=> Alike(64, \hfe80, g[1])
      /\ Masked(g[1], 7, \hfc00) <=> Alike(512, \hfc00, g[1])
      /\ Masked(g[1], 8, \hff00) <=> Alike(256, \hff00, g[1])
  BY <1>2, Masks
<1> QED
  BY <1>3, <1>4, <1>5, <1>6

\* The matches of isForbiddenIpv6 that exclude or imply each other.
LEMMA Overlaps ==
  ASSUME NEW g \in Seq(Group), Len(g) = 8
  PROVE  /\ Zero(g, 1, 7) => MatchIpv4Compatible(g)
         /\ Zero(g, 1, 7) /\ g[8] \in {0, 1} => IsPrivateIpv4(Octets(g[7], g[8]))
         /\ MatchIpv4Mapped(g) \/ MatchIpv4Compatible(g) => g[1] = 0
         /\ Match6to4(g) => g[1] = \h2002
         /\ g[1] \in {0, \h2002} =>
              ~(\/ Masked(g[1], 10, \hfe80) \/ Masked(g[1], 7, \hfc00)
                \/ Masked(g[1], 8, \hff00) \/ IsNat64WellKnown(g))
<1>1. Zero(g, 1, 7) => MatchIpv4Compatible(g)
  BY DEF Zero, MatchIpv4Compatible
<1>2. Zero(g, 1, 7) /\ g[8] \in {0, 1} => IsPrivateIpv4(Octets(g[7], g[8]))
  <2>1. ASSUME Zero(g, 1, 7) PROVE g[7] = 0
    BY <2>1 DEF Zero
  <2>2. Octets(0, g[8])[1] = 0
    BY DEF Octets
  <2>3. \A o : o[1] = 0 => IsPrivateIpv4(o)
    BY DEF IsPrivateIpv4
  <2> QED
    BY <2>1, <2>2, <2>3
<1>3. MatchIpv4Mapped(g) \/ MatchIpv4Compatible(g) => g[1] = 0
  BY DEF MatchIpv4Mapped, MatchIpv4Compatible, Zero
<1>4. Match6to4(g) => g[1] = \h2002
  BY DEF Match6to4
<1>5. ASSUME g[1] \in {0, \h2002}
      PROVE  ~(\/ Masked(g[1], 10, \hfe80) \/ Masked(g[1], 7, \hfc00)
               \/ Masked(g[1], 8, \hff00) \/ IsNat64WellKnown(g))
  <2>1. /\ ~Alike(64, \hfe80, 0) /\ ~Alike(512, \hfc00, 0) /\ ~Alike(256, \hff00, 0)
        /\ ~Alike(64, \hfe80, \h2002) /\ ~Alike(512, \hfc00, \h2002) /\ ~Alike(256, \hff00, \h2002)
    BY DEF Alike
  <2>2. g[1] \in Group
    OBVIOUS
  <2>3. ~IsNat64WellKnown(g)
    BY <1>5 DEF IsNat64WellKnown
  <2> QED
    BY <1>5, <2>1, <2>2, <2>3, Masks
<1> QED
  BY <1>1, <1>2, <1>3, <1>4, <1>5

\* The masks and matches of isForbiddenIpv6 are the blocks of the registry.
LEMMA Ipv6Exact ==
  ASSUME NEW g \in Seq(Group), Len(g) = 8
  PROVE  IsForbiddenIpv6(g) <=> In(Net6(g, 128), Blocks6)
<1> DEFINE embeds == MatchIpv4Mapped(g) \/ MatchIpv4Compatible(g)
           private1 == IsPrivateIpv4(Octets(g[7], g[8]))
           private2 == IsPrivateIpv4(Octets(g[2], g[3]))
           others == \/ Masked(g[1], 10, \hfe80) \/ Masked(g[1], 7, \hfc00)
                     \/ Masked(g[1], 8, \hff00) \/ IsNat64WellKnown(g)
           first == Zero(g, 1, 7) /\ g[8] \in {0, 1}
           last == Zero(g, 1, 7) /\ g[8] = 1
<1>1. (\E e \in {Net6(MappedWords, 96), Net6(CompatibleWords, 96), Net6(OneWord(\h2002), 16)} :
         \E b \in Blocks4 : IsPrefix(e \o b, Net6(g, 128))) <=>
        (embeds /\ private1) \/ (Match6to4(g) /\ private2)
  <2> DEFINE E(e) == \E b \in Blocks4 : IsPrefix(e \o b, Net6(g, 128))
  <2>1. /\ E(Net6(MappedWords, 96)) <=> MatchIpv4Mapped(g) /\ private1
        /\ E(Net6(CompatibleWords, 96)) <=> MatchIpv4Compatible(g) /\ private1
        /\ E(Net6(OneWord(\h2002), 16)) <=> Match6to4(g) /\ private2
    BY Embedded, WordMatches
  <2> HIDE DEF E, private1, private2
  <2>2. (\E e \in {Net6(MappedWords, 96), Net6(CompatibleWords, 96), Net6(OneWord(\h2002), 16)} : E(e))
          <=> (embeds /\ private1) \/ (Match6to4(g) /\ private2)
    BY <2>1
  <2> QED
    BY <2>2 DEF E
<1>2. In(Net6(g, 128), Blocks6) <=>
        (embeds /\ private1) \/ (Match6to4(g) /\ private2) \/ last \/ others
  <2> DEFINE embedding == \E e \in {Net6(MappedWords, 96), Net6(CompatibleWords, 96), Net6(OneWord(\h2002), 16)} :
                            \E b \in Blocks4 : IsPrefix(e \o b, Net6(g, 128))
             more == \/ IsPrefix(Net6(Nat64Words, 96), Net6(g, 128))
                     \/ IsPrefix(Net6(OneWord(\hfe80), 10), Net6(g, 128))
                     \/ IsPrefix(Net6(OneWord(\hfc00), 7), Net6(g, 128))
                     \/ IsPrefix(Net6(OneWord(\hff00), 8), Net6(g, 128))
  <2>1. (IsPrefix(Net6(LoopbackWords, 128), Net6(g, 128)) <=> last)
        /\ (more <=> others)
    BY Others
  <2>2. In(Net6(g, 128), Blocks6) <=>
          embedding \/ IsPrefix(Net6(LoopbackWords, 128), Net6(g, 128)) \/ more
    BY BlocksOf6
  <2>3. embedding <=> (embeds /\ private1) \/ (Match6to4(g) /\ private2)
    BY <1>1
  <2> HIDE DEF embeds, private1, private2, others, last, embedding, more
  <2> QED
    BY <2>1, <2>2, <2>3
<1>3. /\ first => embeds /\ private1
      /\ last => first
      /\ embeds => ~Match6to4(g) /\ ~others
      /\ Match6to4(g) => ~others
  BY Overlaps
<1>4. /\ first => IsForbiddenIpv6(g)
      /\ ~first /\ embeds => (IsForbiddenIpv6(g) <=> private1)
      /\ ~first /\ ~embeds /\ Match6to4(g) => (IsForbiddenIpv6(g) <=> private2)
      /\ ~first /\ ~embeds /\ ~Match6to4(g) => (IsForbiddenIpv6(g) <=> others)
  <2>1. first => IsForbiddenIpv6(g)
    BY <1>3 DEF IsForbiddenIpv6
  <2>2. ~first /\ embeds => (IsForbiddenIpv6(g) <=> private1)
    BY <1>3 DEF IsForbiddenIpv6
  <2>3. ~first /\ ~embeds /\ Match6to4(g) => (IsForbiddenIpv6(g) <=> private2)
    BY DEF IsForbiddenIpv6
  <2>4. ~first /\ ~embeds /\ ~Match6to4(g) => (IsForbiddenIpv6(g) <=> others)
    BY DEF IsForbiddenIpv6
  <2> QED
    BY <2>1, <2>2, <2>3, <2>4
<1> HIDE DEF embeds, private1, private2, others, first, last
<1>5. CASE first
  BY <1>2, <1>3, <1>4, <1>5
<1>6. CASE ~first /\ embeds
  BY <1>2, <1>3, <1>4, <1>6
<1>7. CASE ~first /\ ~embeds /\ Match6to4(g)
  BY <1>2, <1>3, <1>4, <1>7
<1>8. CASE ~first /\ ~embeds /\ ~Match6to4(g)
  BY <1>2, <1>3, <1>4, <1>8
<1> QED
  BY <1>5, <1>6, <1>7, <1>8

-----------------------------------------------------------------------------
(* Hosts.  expandIpv6 undoes the spelling of an address.                   *)

LEMMA Least ==
  ASSUME NEW T \in SUBSET (1 .. 7), T # {}
  PROVE  \E n \in T : \A m \in T : n <= m
<1>1. CASE 1 \in T
  BY <1>1
<1>2. CASE 1 \notin T /\ 2 \in T
  BY <1>2
<1>3. CASE 1 \notin T /\ 2 \notin T /\ 3 \in T
  BY <1>3
<1>4. CASE T \subseteq 4 .. 7 /\ 4 \in T
  BY <1>4
<1>5. CASE T \subseteq 5 .. 7 /\ 5 \in T
  BY <1>5
<1>6. CASE T \subseteq 6 .. 7 /\ 6 \in T
  BY <1>6
<1>7. CASE T \subseteq {7}
  <2>1. \A m \in T : m = 7
    BY <1>7
  <2>2. PICK n \in T : TRUE
    OBVIOUS
  <2> QED
    BY <2>1, <2>2
<1> QED
  BY <1>1, <1>2, <1>3, <1>4, <1>5, <1>6, <1>7

\* URL.hostname has a first longest run of zero groups to shorten.
LEMMA LongestRun ==
  ASSUME NEW runs \in SUBSET ((1 .. 8) \X (1 .. 8)), runs # {},
         \A r \in runs : r[1] < r[2]
  PROVE  \E r \in runs : \A s \in runs :
           LET more == s[2] - s[1] - (r[2] - r[1]) IN
           more < 0 \/ (more = 0 /\ r[1] <= s[1])
<1> DEFINE short == {8 - (r[2] - r[1]) : r \in runs}
<1>1. \A r \in runs : r[1] \in 1 .. 7 /\ r[2] \in 1 .. 8 /\ 8 - (r[2] - r[1]) \in 1 .. 7
  OBVIOUS
<1>2. short \in SUBSET (1 .. 7) /\ short # {}
  BY <1>1
<1>3. PICK l \in short : \A m \in short : l <= m
  <2> HIDE DEF short
  <2> QED
    BY <1>2, Least
<1> DEFINE firsts == {r[1] : r \in {q \in runs : 8 - (q[2] - q[1]) = l}}
<1>4. firsts \in SUBSET (1 .. 7) /\ firsts # {}
  BY <1>1
<1>5. PICK a \in firsts : \A m \in firsts : a <= m
  <2> HIDE DEF firsts
  <2> QED
    BY <1>4, Least
<1>6. PICK r \in runs : 8 - (r[2] - r[1]) = l /\ r[1] = a
  OBVIOUS
<1>7. ASSUME NEW s \in runs
      PROVE  LET more == s[2] - s[1] - (r[2] - r[1]) IN
             more < 0 \/ (more = 0 /\ r[1] <= s[1])
  <2> DEFINE m == 8 - (s[2] - s[1])
  <2>1. m \in short
    OBVIOUS
  <2>2. l <= m
    BY <1>3, <2>1
  <2>3. m = l => s[1] \in firsts
    OBVIOUS
  <2>4. m = l => r[1] <= s[1]
    BY <1>5, <1>6, <2>3
  <2>5. s[2] - s[1] - (r[2] - r[1]) = l - m /\ l \in 1 .. 7 /\ m \in 1 .. 7
    BY <1>1, <1>6
  <2> HIDE DEF m, short, firsts
  <2> QED
    BY <2>2, <2>4, <2>5
<1> QED
  BY <1>7

LEMMA ShortenedIsWhole ==
  ASSUME NEW g \in Seq(Group), Len(g) = 8, NEW a \in 1 .. 8, NEW b \in 1 .. 8, a < b,
         Zero(g, a, b)
  PROVE  LET head == SubSeq(g, 1, a - 1)
             rest == SubSeq(g, b + 1, 8)
         IN  head \o [i \in 1 .. 8 - Len(head) - Len(rest) |-> 0] \o rest = g
<1> DEFINE head == SubSeq(g, 1, a - 1)
           rest == SubSeq(g, b + 1, 8)
           fill == [i \in 1 .. 8 - Len(head) - Len(rest) |-> 0]
           front == head \o fill
           p == front \o rest
<1>1. head \in Seq(Group) /\ Len(head) = a - 1 /\ \A i \in 1 .. a - 1 : head[i] = g[i]
  <2>1. \A i \in 1 .. a - 1 : g[i] \in Group
    <3>1. \A i \in 1 .. a - 1 : i \in 1 .. Len(g)
      OBVIOUS
    <3> QED
      BY <3>1, ElementOfSeq
  <2>2. 1 \in Int /\ a - 1 \in Int /\ (a - 1) - 1 + 1 = a - 1 /\ (a - 1 < 1 => a - 1 = 0)
    OBVIOUS
  <2>3. /\ head \in Seq(Group) /\ Len(head) = IF 1 <= a - 1 THEN (a - 1) - 1 + 1 ELSE 0
        /\ \A i \in 1 .. (a - 1) - 1 + 1 : head[i] = g[1 + i - 1]
    BY <2>1, <2>2, SubSeqProperties
  <2> HIDE DEF head
  <2>4. Len(head) = a - 1
    BY <2>2, <2>3
  <2>5. \A i \in 1 .. a - 1 : head[i] = g[i]
    BY <2>2, <2>3
  <2> QED
    BY <2>3, <2>4, <2>5
<1>2. rest \in Seq(Group) /\ Len(rest) = 8 - b /\ \A i \in 1 .. 8 - b : rest[i] = g[b + i]
  <2>1. \A i \in b + 1 .. 8 : g[i] \in Group
    <3>1. \A i \in b + 1 .. 8 : i \in 1 .. Len(g)
      OBVIOUS
    <3> QED
      BY <3>1, ElementOfSeq
  <2>2. 8 \in Int /\ b + 1 \in Int /\ 8 - (b + 1) + 1 = 8 - b /\ (8 < b + 1 => 8 - b = 0)
    OBVIOUS
  <2>3. /\ rest \in Seq(Group) /\ Len(rest) = IF b + 1 <= 8 THEN 8 - (b + 1) + 1 ELSE 0
        /\ \A i \in 1 .. 8 - (b + 1) + 1 : rest[i] = g[(b + 1) + i - 1]
    BY <2>1, <2>2, SubSeqProperties
  <2> HIDE DEF rest
  <2>4. Len(rest) = 8 - b
    <3>1. CASE b + 1 <= 8
      BY <2>2, <2>3, <3>1
    <3>2. CASE 8 < b + 1
      BY <2>2, <2>3, <3>2
    <3> QED
      BY <3>1, <3>2
  <2>5. ASSUME NEW i \in 1 .. 8 - b PROVE rest[i] = g[b + i]
    <3>1. i \in 1 .. 8 - (b + 1) + 1 /\ (b + 1) + i - 1 = b + i
      BY <2>2
    <3> QED
      BY <2>3, <3>1
  <2> QED
    BY <2>3, <2>4, <2>5
<1> HIDE DEF head, rest
<1>3. 8 - Len(head) - Len(rest) = b - a + 1
  BY <1>1, <1>2
<1>4. fill \in Seq(Group) /\ Len(fill) = b - a + 1 /\ \A i \in 1 .. b - a + 1 : fill[i] = 0
  <2>1. 0 \in Group /\ b - a + 1 \in Nat
    BY GroupIs
  <2>2. fill = [i \in 1 .. b - a + 1 |-> 0]
    BY <1>3
  <2> HIDE DEF fill
  <2> QED
    BY <2>1, <2>2
<1> HIDE DEF fill
<1>5. /\ front \in Seq(Group) /\ Len(front) = b
      /\ \A i \in 1 .. b : front[i] = IF i <= a - 1 THEN head[i] ELSE fill[i - (a - 1)]
  <2>1. /\ front \in Seq(Group) /\ Len(front) = Len(head) + Len(fill)
        /\ \A i \in 1 .. Len(head) + Len(fill) :
             front[i] = IF i <= Len(head) THEN head[i] ELSE fill[i - Len(head)]
    <3>1. head \in Seq(Group) /\ fill \in Seq(Group)
      BY <1>1, <1>4
    <3> QED
      BY <3>1, ConcatProperties
  <2>2. Len(head) + Len(fill) = b /\ Len(head) = a - 1
    BY <1>1, <1>4
  <2> HIDE DEF front
  <2> QED
    BY <2>1, <2>2
<1> HIDE DEF front
<1>6. /\ p \in Seq(Group) /\ Len(p) = 8
      /\ \A i \in 1 .. 8 : p[i] = IF i <= b THEN front[i] ELSE rest[i - b]
  <2>1. /\ p \in Seq(Group) /\ Len(p) = Len(front) + Len(rest)
        /\ \A i \in 1 .. Len(front) + Len(rest) :
             p[i] = IF i <= Len(front) THEN front[i] ELSE rest[i - Len(front)]
    <3>1. front \in Seq(Group) /\ rest \in Seq(Group)
      BY <1>2, <1>5
    <3> QED
      BY <3>1, ConcatProperties
  <2>2. Len(front) + Len(rest) = 8 /\ Len(front) = b
    BY <1>2, <1>5
  <2> HIDE DEF p
  <2> QED
    BY <2>1, <2>2
<1> HIDE DEF p
<1>7. ASSUME NEW i \in 1 .. 8 PROVE p[i] = g[i]
  <2>1. CASE i <= a - 1
    <3>1. i \in 1 .. a - 1 /\ i \in 1 .. b /\ i <= b
      BY <2>1
    <3> QED
      BY <1>1, <1>5, <1>6, <2>1, <3>1
  <2>2. CASE ~(i <= a - 1) /\ i <= b
    <3>1. i \in 1 .. b /\ i - (a - 1) \in 1 .. b - a + 1 /\ i \in a .. b
      BY <2>2
    <3>2. p[i] = 0
      BY <1>4, <1>5, <1>6, <2>2, <3>1
    <3> QED
      BY <3>1, <3>2 DEF Zero
  <2>3. CASE ~(i <= b)
    <3>1. i - b \in 1 .. 8 - b /\ b + (i - b) = i
      BY <2>3
    <3> QED
      BY <1>2, <1>6, <2>3, <3>1
  <2> QED
    BY <2>1, <2>2, <2>3
<1>8. p = g
  <2>1. p \in Seq(Group) /\ g \in Seq(Group) /\ Len(p) = Len(g)
    BY <1>6
  <2>2. \A i \in 1 .. Len(p) : p[i] = g[i]
    BY <1>6, <1>7
  <2> QED
    BY <2>1, <2>2, SeqEqual
<1> QED
  BY <1>8 DEF p, front, fill, head, rest

LEMMA ExpandIpv6Exact ==
  ASSUME NEW g \in Seq(Group), Len(g) = 8
  PROVE  ExpandIpv6(Written(g)) = g
<1> DEFINE runs == {r \in (1 .. 8) \X (1 .. 8) : r[1] < r[2] /\ Zero(g, r[1], r[2])}
           Longest(r) == \A s \in runs :
                           LET more == s[2] - s[1] - (r[2] - r[1]) IN
                           more < 0 \/ (more = 0 /\ r[1] <= s[1])
           chosen == CHOOSE r \in runs : Longest(r)
           a == chosen[1]
           b == chosen[2]
<1>1. CASE runs = {}
  BY <1>1, Zenon DEF Written, ExpandIpv6
<1>2. CASE runs # {}
  <2>1. \E r \in runs : Longest(r)
    <3>1. runs \in SUBSET ((1 .. 8) \X (1 .. 8)) /\ \A r \in runs : r[1] < r[2]
      OBVIOUS
    <3> HIDE DEF runs
    <3> QED
      BY <1>2, <3>1, LongestRun
  <2>2. chosen \in runs
    <3> HIDE DEF runs, Longest
    <3> QED
      BY <2>1
  <2>3. a \in 1 .. 8 /\ b \in 1 .. 8 /\ a < b /\ Zero(g, a, b)
    <3> HIDE DEF chosen
    <3> QED
      BY <2>2
  <2>4. Written(g) = [compressed |-> TRUE, head |-> SubSeq(g, 1, a - 1), rest |-> SubSeq(g, b + 1, 8)]
    BY <1>2 DEF Written
  <2> HIDE DEF a, b, chosen
  <2> DEFINE h == SubSeq(g, 1, a - 1)
             e == SubSeq(g, b + 1, 8)
             text == [compressed |-> TRUE, head |-> h, rest |-> e]
  <2>5. h \o [i \in 1 .. 8 - Len(h) - Len(e) |-> 0] \o e = g
    BY <2>3, ShortenedIsWhole
  <2>6. Written(g) = text
    BY <2>4
  <2> HIDE DEF h, e
  <2>7. text.compressed = TRUE /\ text.head = h /\ text.rest = e
    OBVIOUS
  <2> HIDE DEF text
  <2>8. ExpandIpv6(text) = h \o [i \in 1 .. 8 - Len(h) - Len(e) |-> 0] \o e
    BY <2>7 DEF ExpandIpv6
  <2> QED
    BY <2>5, <2>6, <2>8
<1> QED
  BY <1>1, <1>2

-----------------------------------------------------------------------------
(* The further blocks of the service's own origin.                         *)

LEMMA Block24 ==
  ASSUME NEW o \in Seq(Octet), Len(o) = 4, NEW a \in Octet, NEW b \in Octet, NEW c \in Octet
  PROVE  IsPrefix(Net4(<<a, b, c>>, 24), Net4(o, 32)) <=> a = o[1] /\ b = o[2] /\ c = o[3]
<1>1. Words(8) = Octet /\ 8 \in {8, 16} /\ Octet \subseteq Nat
  BY Tops DEF Octet, Words
<1>2. Net4(o, 32) = Bits(o, 8)
  <2>1. o \in Seq(Nat)
    BY <1>1, WiderSeq
  <2>2. Bits(o, 8) \in Seq(Nat) /\ Len(Bits(o, 8)) = 8 * Len(o)
    BY <1>1, <2>1, WordBits
  <2> QED
    BY <2>2, SubSeqFull DEF Net4
<1>3. Begins(8, 24, <<a, b, c>>, o) <=> a = o[1] /\ b = o[2] /\ Alike(1, c, o[3])
  <2>1. a \in Words(8) /\ b \in Words(8) /\ c \in Words(8) /\ o \in Seq(Words(8)) /\ Len(o) >= 3
    BY <1>1
  <2>2. Cut(8, 24, 3, 1) /\ 8 \in {8, 16}
    BY Cuts
  <2>3. \A len, d : Cut(8, len, 3, d) =>
          (Begins(8, len, <<a, b, c>>, o) <=> a = o[1] /\ b = o[2] /\ Alike(d, c, o[3]))
    BY <2>1, <2>2, BlockThree
  <2> QED
    BY <2>2, <2>3
<1>4. Alike(1, c, o[3]) <=> c = o[3]
  <2>1. o[3] \in Octet
    <3>1. 3 \in 1 .. Len(o)
      OBVIOUS
    <3> QED
      BY <3>1, ElementOfSeq
  <2>2. \A x, y \in Octet : Alike(1, x, y) <=> x = y
    BY DEF Octet, Alike
  <2> QED
    BY <2>1, <2>2
<1> QED
  BY <1>2, <1>3, <1>4 DEF Begins, Net4

\* isForbiddenServiceHost on IPv4: isPrivateIpv4 and its own seven blocks.
LEMMA ServiceIpv4Exact ==
  ASSUME NEW o \in Seq(Octet), Len(o) = 4
  PROVE  IsPrivateIpv4(o) \/ IsReservedIpv4(o) <=> In(Net4(o, 32), ServiceBlocks4)
<1> DEFINE Seven == {<<192, 0, 2>>, <<192, 88, 99>>, <<192, 31, 196>>, <<192, 52, 193>>,
                     <<192, 175, 48>>, <<198, 51, 100>>, <<203, 0, 113>>}
           t == Net4(o, 32)
<1>1. \A v \in Seven : /\ v = <<v[1], v[2], v[3]>>
                       /\ v[1] \in Octet /\ v[2] \in Octet /\ v[3] \in Octet
  BY DEF Octet
<1>2. IsReservedIpv4(o) <=> <<o[1], o[2], o[3]>> \in Seven
  BY DEF IsReservedIpv4
<1>3. ServiceBlocks4 = Blocks4 \cup {Net4(v, 24) : v \in Seven}
  BY DEF ServiceBlocks4
<1> HIDE DEF Seven
<1>4. \A v \in Seven : IsPrefix(Net4(v, 24), t) <=> v = <<o[1], o[2], o[3]>>
  <2> TAKE v \in Seven
  <2>1. IsPrefix(Net4(<<v[1], v[2], v[3]>>, 24), t) <=> v[1] = o[1] /\ v[2] = o[2] /\ v[3] = o[3]
    BY <1>1, Block24
  <2> HIDE DEF t
  <2> QED
    BY <1>1, <2>1
<1>5. (\E v \in Seven : IsPrefix(Net4(v, 24), t)) <=> <<o[1], o[2], o[3]>> \in Seven
  BY <1>4
<1> HIDE DEF t
<1>6. In(t, ServiceBlocks4) <=> In(t, Blocks4) \/ \E v \in Seven : IsPrefix(Net4(v, 24), t)
  BY <1>3 DEF In
<1>7. IsPrivateIpv4(o) <=> In(t, Blocks4)
  BY Ipv4Exact DEF t
<1> QED
  BY <1>2, <1>5, <1>6, <1>7 DEF t

LEMMA CutsService ==
  /\ Cut(16, 3, 1, 8192) /\ Cut(16, 2, 1, 16384) /\ Cut(16, 1, 1, 32768) /\ Cut(16, 16, 1, 1)
  /\ Cut(16, 23, 2, 512) /\ Cut(16, 32, 2, 1) /\ Cut(16, 20, 2, 4096) /\ Cut(16, 48, 3, 1)
<1>1. /\ 8192 = 2^(16 - 3) /\ 16384 = 2^(16 - 2) /\ 32768 = 2^(16 - 1) /\ 1 = 2^(16 - 16)
      /\ 512 = 2^(16 - 7) /\ 4096 = 2^(16 - 4)
  OBVIOUS
<1>2. Cut(16, 3, 1, 8192)
  BY <1>1 DEF Cut
<1>3. Cut(16, 2, 1, 16384)
  BY <1>1 DEF Cut
<1>4. Cut(16, 1, 1, 32768)
  BY <1>1 DEF Cut
<1>5. Cut(16, 16, 1, 1) /\ Cut(16, 32, 2, 1) /\ Cut(16, 48, 3, 1)
  BY <1>1 DEF Cut
<1>6. Cut(16, 23, 2, 512)
  BY <1>1 DEF Cut
<1>7. Cut(16, 20, 2, 4096)
  BY <1>1 DEF Cut
<1> QED
  BY <1>2, <1>3, <1>4, <1>5, <1>6, <1>7

LEMMA Begins6 ==
  ASSUME NEW g \in Seq(Group), Len(g) = 8, NEW a \in Group, NEW b \in Group, NEW c \in Group
  PROVE  /\ \A len, d : Cut(16, len, 1, d) =>
              (IsPrefix(Net6(<<a>>, len), Net6(g, 128)) <=> Alike(d, a, g[1]))
         /\ \A len, d : Cut(16, len, 2, d) =>
              (IsPrefix(Net6(<<a, b>>, len), Net6(g, 128)) <=> a = g[1] /\ Alike(d, b, g[2]))
         /\ \A len, d : Cut(16, len, 3, d) =>
              (IsPrefix(Net6(<<a, b, c>>, len), Net6(g, 128)) <=>
                 a = g[1] /\ b = g[2] /\ Alike(d, c, g[3]))
<1>1. /\ a \in Words(16) /\ b \in Words(16) /\ c \in Words(16)
      /\ g \in Seq(Words(16)) /\ 16 \in {8, 16} /\ Len(g) >= 1 /\ Len(g) >= 2 /\ Len(g) >= 3
  BY WordsAre
<1>2. Net6(g, 128) = Bits(g, 16)
  BY Whole
<1>3. \A v, len : IsPrefix(Net6(v, len), Net6(g, 128)) <=> Begins(16, len, v, g)
  BY <1>2 DEF Net6, Begins
<1>4. ASSUME NEW len, NEW d, Cut(16, len, 1, d)
      PROVE  Begins(16, len, <<a>>, g) <=> Alike(d, a, g[1])
  BY <1>1, <1>4, BlockOne
<1>5. ASSUME NEW len, NEW d, Cut(16, len, 2, d)
      PROVE  Begins(16, len, <<a, b>>, g) <=> a = g[1] /\ Alike(d, b, g[2])
  BY <1>1, <1>5, BlockTwo
<1>6. ASSUME NEW len, NEW d, Cut(16, len, 3, d)
      PROVE  Begins(16, len, <<a, b, c>>, g) <=> a = g[1] /\ b = g[2] /\ Alike(d, c, g[3])
  BY <1>1, <1>6, BlockThree
<1> QED
  BY <1>3, <1>4, <1>5, <1>6

\* The bits that the service's blocks of IPv6 addresses fix, as the code compares them.
LEMMA ServiceMasks ==
  ASSUME NEW x \in Group
  PROVE  /\ ~Masked(x, 3, \h2000) <=>
              Alike(8192, 0, x) \/ Alike(16384, \h4000, x) \/ Alike(32768, \h8000, x)
         /\ x < \h200 <=> Alike(512, 0, x)
         /\ x < \h1000 <=> Alike(4096, 0, x)
         /\ Masked(x, 10, \hfe80) \/ Masked(x, 7, \hfc00) \/ Masked(x, 8, \hff00)
              \/ x = 0 \/ x = \h64 => ~Masked(x, 3, \h2000)
<1>1. x \in Nat /\ x < 65536
  BY GroupIs
<1>2. Masked(x, 3, \h2000) <=> Alike(8192, \h2000, x)
  BY Masks
<1>3. ~Alike(8192, \h2000, x) <=>
        Alike(8192, 0, x) \/ Alike(16384, \h4000, x) \/ Alike(32768, \h8000, x)
  BY <1>1 DEF Alike
<1>4. x < \h200 <=> Alike(512, 0, x)
  BY <1>1 DEF Alike
<1>5. x < \h1000 <=> Alike(4096, 0, x)
  BY <1>1 DEF Alike
<1>6. /\ Alike(64, \hfe80, x) => ~Alike(8192, \h2000, x)
      /\ Alike(512, \hfc00, x) => ~Alike(8192, \h2000, x)
      /\ Alike(256, \hff00, x) => ~Alike(8192, \h2000, x)
      /\ x = 0 \/ x = \h64 => ~Alike(8192, \h2000, x)
  BY <1>1 DEF Alike
<1>7. /\ Masked(x, 10, \hfe80) <=> Alike(64, \hfe80, x)
      /\ Masked(x, 7, \hfc00) <=> Alike(512, \hfc00, x)
      /\ Masked(x, 8, \hff00) <=> Alike(256, \hff00, x)
  BY Masks
<1>8. Masked(x, 10, \hfe80) \/ Masked(x, 7, \hfc00) \/ Masked(x, 8, \hff00)
        \/ x = 0 \/ x = \h64 => ~Masked(x, 3, \h2000)
  BY <1>2, <1>6, <1>7
<1> QED
  BY <1>2, <1>3, <1>4, <1>5, <1>8

LEMMA ReservedIpv6Exact ==
  ASSUME NEW g \in Seq(Group), Len(g) = 8
  PROVE  IsReservedIpv6(g) <=> In(Net6(g, 128), ServiceBlocks6)
<1> DEFINE P(v, len) == IsPrefix(Net6(v, len), Net6(g, 128))
           x == g[1]
           y == g[2]
           z == g[3]
<1>1. x \in Group /\ y \in Group /\ z \in Group
  <2>1. 1 \in 1 .. Len(g) /\ 2 \in 1 .. Len(g) /\ 3 \in 1 .. Len(g)
    OBVIOUS
  <2> QED
    BY <2>1, ElementOfSeq
<1>2. \A a \in {0, \h4000, \h8000, \h2001, \hdb8, \h2002, \h2620, \h4f, \h3fff} : a \in Group
  BY GroupIs
<1>3. \A len, d : \A a \in Group : Cut(16, len, 1, d) => (P(<<a>>, len) <=> Alike(d, a, x))
  <2> TAKE len, d
  <2> TAKE a \in Group
  <2> QED
    BY Begins6
<1>4. \A len, d : \A a, b \in Group :
        Cut(16, len, 2, d) => (P(<<a, b>>, len) <=> a = x /\ Alike(d, b, y))
  <2> TAKE len, d
  <2> TAKE a, b \in Group
  <2> QED
    BY Begins6
<1>5. \A len, d : \A a, b, c \in Group :
        Cut(16, len, 3, d) => (P(<<a, b, c>>, len) <=> a = x /\ b = y /\ Alike(d, c, z))
  <2> TAKE len, d
  <2> TAKE a, b, c \in Group
  <2> QED
    BY Begins6
<1>6. In(Net6(g, 128), ServiceBlocks6) <=>
        \/ P(<<0>>, 3) \/ P(<<\h4000>>, 2) \/ P(<<\h8000>>, 1) \/ P(<<\h2001, 0>>, 23)
        \/ P(<<\h2001, \hdb8>>, 32) \/ P(<<\h2002>>, 16) \/ P(<<\h2620, \h4f, \h8000>>, 48)
        \/ P(<<\h3fff, 0>>, 20)
  BY DEF In, ServiceBlocks6
<1>11. IsReservedIpv6(g) <=>
         \/ ~Masked(x, 3, \h2000)
         \/ x = \h2001 /\ (y < \h200 \/ y = \hdb8)
         \/ x = \h2002
         \/ x = \h2620 /\ y = \h4f /\ z = \h8000
         \/ x = \h3fff /\ y < \h1000
  BY DEF IsReservedIpv6
<1> HIDE DEF P, x, y, z
<1>7. \A a, b \in Group : Alike(1, a, b) <=> a = b
  BY SameOne
<1>8. /\ P(<<0>>, 3) <=> Alike(8192, 0, x)
      /\ P(<<\h4000>>, 2) <=> Alike(16384, \h4000, x)
      /\ P(<<\h8000>>, 1) <=> Alike(32768, \h8000, x)
      /\ P(<<\h2002>>, 16) <=> \h2002 = x
  BY <1>1, <1>2, <1>3, <1>7, CutsService
<1>9. /\ P(<<\h2001, 0>>, 23) <=> \h2001 = x /\ Alike(512, 0, y)
      /\ P(<<\h2001, \hdb8>>, 32) <=> \h2001 = x /\ \hdb8 = y
      /\ P(<<\h3fff, 0>>, 20) <=> \h3fff = x /\ Alike(4096, 0, y)
  BY <1>1, <1>2, <1>4, <1>7, CutsService
<1>10. P(<<\h2620, \h4f, \h8000>>, 48) <=> \h2620 = x /\ \h4f = y /\ \h8000 = z
  BY <1>1, <1>2, <1>5, <1>7, CutsService
<1>12. /\ ~Masked(x, 3, \h2000) <=> P(<<0>>, 3) \/ P(<<\h4000>>, 2) \/ P(<<\h8000>>, 1)
       /\ y < \h200 <=> Alike(512, 0, y)
       /\ y < \h1000 <=> Alike(4096, 0, y)
  BY <1>1, <1>8, ServiceMasks
<1>13. /\ x = \h2001 /\ (y < \h200 \/ y = \hdb8) <=>
            P(<<\h2001, 0>>, 23) \/ P(<<\h2001, \hdb8>>, 32)
       /\ x = \h3fff /\ y < \h1000 <=> P(<<\h3fff, 0>>, 20)
  BY <1>9, <1>12
<1>14. /\ x = \h2002 <=> P(<<\h2002>>, 16)
       /\ x = \h2620 /\ y = \h4f /\ z = \h8000 <=> P(<<\h2620, \h4f, \h8000>>, 48)
  BY <1>8, <1>10
<1> QED
  BY <1>6, <1>11, <1>12, <1>13, <1>14

\* isForbiddenServiceHost on IPv6: everything but global unicast, and the
\* blocks within it; what isForbiddenIpv6 refuses is among them.
LEMMA ServiceIpv6Exact ==
  ASSUME NEW g \in Seq(Group), Len(g) = 8
  PROVE  IsForbiddenIpv6(g) \/ IsReservedIpv6(g) <=> In(Net6(g, 128), ServiceBlocks6)
<1>1. IsForbiddenIpv6(g) =>
        \/ Zero(g, 1, 7) \/ MatchIpv4Mapped(g) \/ MatchIpv4Compatible(g) \/ Match6to4(g)
        \/ Masked(g[1], 10, \hfe80) \/ Masked(g[1], 7, \hfc00) \/ Masked(g[1], 8, \hff00)
        \/ IsNat64WellKnown(g)
  BY DEF IsForbiddenIpv6
<1>2. Zero(g, 1, 7) \/ MatchIpv4Mapped(g) \/ MatchIpv4Compatible(g) => g[1] = 0
  BY Overlaps
<1>3. Match6to4(g) => g[1] = \h2002
  BY Overlaps
<1>4. IsNat64WellKnown(g) => g[1] = \h64
  BY DEF IsNat64WellKnown
<1>5. g[1] \in Group
  <2>1. 1 \in 1 .. Len(g)
    OBVIOUS
  <2> QED
    BY <2>1, ElementOfSeq
<1>6. IsForbiddenIpv6(g) => ~Masked(g[1], 3, \h2000) \/ g[1] = \h2002
  BY <1>1, <1>2, <1>3, <1>4, <1>5, ServiceMasks
<1>7. IsForbiddenIpv6(g) => IsReservedIpv6(g)
  BY <1>6 DEF IsReservedIpv6
<1> QED
  BY <1>7, ReservedIpv6Exact

-----------------------------------------------------------------------------
(* The two lists of hosts, as the code and as the registries have them.    *)

LEMMA HostRules ==
  ASSUME NEW h \in Hosts
  PROVE  /\ IsForbiddenHost(h) <=> Special(h)
         /\ IsForbiddenServiceHost(h) <=> SpecialForService(h)
<1>1. CASE h \in [kind : {"name"}, value : NameKinds]
  BY <1>1 DEF NameKinds, IsForbiddenHost, Special, IsForbiddenServiceHost, SpecialForService
<1>2. CASE h \in [kind : {"idn"}, value : Labels]
  BY <1>2 DEF IsForbiddenHost, Special, IsForbiddenServiceHost, SpecialForService
<1>3. CASE h \in [kind : {"v4"}, value : {o \in Seq(Octet) : Len(o) = 4}]
  <2>1. h.kind = "v4" /\ h.value \in Seq(Octet) /\ Len(h.value) = 4
    BY <1>3
  <2>2. /\ IsPrivateIpv4(h.value) <=> In(Net4(h.value, 32), Blocks4)
        /\ IsPrivateIpv4(h.value) \/ IsReservedIpv4(h.value) <=> In(Net4(h.value, 32), ServiceBlocks4)
    BY <2>1, Ipv4Exact, ServiceIpv4Exact
  <2>3. /\ IsForbiddenHost(h) <=> IsPrivateIpv4(h.value)
        /\ Special(h) <=> In(Net4(h.value, 32), Blocks4)
        /\ SpecialForService(h) <=> In(Net4(h.value, 32), ServiceBlocks4)
    BY <2>1 DEF IsForbiddenHost, Special, SpecialForService
  <2>4. IsForbiddenServiceHost(h) <=> IsForbiddenHost(h) \/ IsReservedIpv4(h.value)
    BY <2>1 DEF IsForbiddenServiceHost
  <2> QED
    BY <2>2, <2>3, <2>4
<1>4. CASE h \in [kind : {"v6"}, value : {g \in Seq(Group) : Len(g) = 8}]
  <2>1. h.kind = "v6" /\ h.value \in Seq(Group) /\ Len(h.value) = 8
    BY <1>4
  <2>2. /\ IsForbiddenIpv6(h.value) <=> In(Net6(h.value, 128), Blocks6)
        /\ IsForbiddenIpv6(h.value) \/ IsReservedIpv6(h.value) <=> In(Net6(h.value, 128), ServiceBlocks6)
    BY <2>1, Ipv6Exact, ServiceIpv6Exact
  <2>3. ExpandIpv6(Written(h.value)) = h.value
    BY <2>1, ExpandIpv6Exact
  <2>4. /\ IsForbiddenHost(h) <=> IsForbiddenIpv6(h.value)
        /\ Special(h) <=> In(Net6(h.value, 128), Blocks6)
        /\ SpecialForService(h) <=> In(Net6(h.value, 128), ServiceBlocks6)
    BY <2>1, <2>3 DEF IsForbiddenHost, Special, SpecialForService
  <2>5. IsForbiddenServiceHost(h) <=> IsForbiddenHost(h) \/ IsReservedIpv6(h.value)
    BY <2>1, <2>3 DEF IsForbiddenServiceHost
  <2> QED
    BY <2>2, <2>4, <2>5
<1> QED
  BY <1>1, <1>2, <1>3, <1>4 DEF Hosts

-----------------------------------------------------------------------------
(* Induction and recursion over the natural numbers.  The library has them *)
(* for operators, which no prover here can instantiate; for sets and       *)
(* functions they follow from < being well-founded on Nat.                 *)

\* A set of natural numbers has a least one.
LEMMA LeastNat ==
  ASSUME NEW T, T \subseteq Nat, T # {}
  PROVE  \E n \in T : \A m \in T : n <= m
<1> DEFINE R == OpToRel(<, Nat)
<1>1. IsWellFoundedOn(R, Nat)
  BY NatLessThanWellFounded
<1>2. R = {ss \in Nat \X Nat : ss[1] < ss[2]}
  BY DEF OpToRel
<1> HIDE DEF R
<1>3. \E x \in T : \A y \in T : ~ (<<y, x>> \in R)
  BY <1>1, WFMin, Zenon
<1>4. PICK x \in T : \A y \in T : ~ (<<y, x>> \in R)
  BY <1>3
<1>5. \A y \in T : <<y, x>> \in R <=> y < x
  BY <1>2
<1>6. \A y \in T : x <= y
  <2> TAKE y \in T
  <2>1. x \in Nat /\ y \in Nat /\ ~(y < x)
    BY <1>4, <1>5
  <2> QED
    BY <2>1
<1> QED
  BY <1>6

\* A set of natural numbers that has 0 and, with each number, the next has them all.
LEMMA Induction ==
  ASSUME NEW S, 0 \in S, \A n \in Nat : n \in S => n + 1 \in S
  PROVE  Nat \subseteq S
<1> DEFINE T == Nat \ S
<1> SUFFICES ASSUME T # {} PROVE FALSE
  OBVIOUS
<1>1. PICK n \in T : \A m \in T : n <= m
  BY LeastNat
<1>2. n # 0 /\ n - 1 \in Nat
  BY <1>1
<1>3. n - 1 \in S
  BY <1>1, <1>2
<1> QED
  BY <1>1, <1>2, <1>3

\* A recursive definition D of a function from S to V, whose calls go down in m.
Descends(D, m, S, V) ==
  \A g, h \in [S -> V], x \in S :
    (\A y \in S : m[y] < m[x] => g[y] = h[y]) => D[<<g, x>>] = D[<<h, x>>]
Solves(f, D, S) == \A x \in S : f[x] = D[<<f, x>>]
Settles(f, g, m, S) == \A x \in S : (\A y \in S : m[y] < m[x] => f[y] = g[y]) => f[x] = g[x]

\* It has a solution.
LEMMA Recursion ==
  ASSUME NEW S, NEW V, V # {}, NEW m \in [S -> Nat], NEW D \in [[S -> V] \X S -> V],
         Descends(D, m, S, V)
  PROVE  \E f \in [S -> V] : Solves(f, D, S)
<1> USE DEF Descends, Solves
<1> DEFINE Upto(n) == {f \in [S -> V] : \A x \in S : m[x] < n => f[x] = D[<<f, x>>]}
<1>1. \A n \in Nat : Upto(n) # {}
  <2> DEFINE Good == {n \in Nat : Upto(n) # {}}
  <2>1. 0 \in Good
    <3>1. PICK v \in V : TRUE
      OBVIOUS
    <3>2. [x \in S |-> v] \in Upto(0)
      OBVIOUS
    <3> QED
      BY <3>2
  <2>2. ASSUME NEW n \in Nat, n \in Good PROVE n + 1 \in Good
    <3>1. PICK f \in Upto(n) : TRUE
      BY <2>2
    <3> DEFINE h == [x \in S |-> IF m[x] = n THEN D[<<f, x>>] ELSE f[x]]
    <3>2. h \in [S -> V]
      BY <3>1
    <3>3. \A x \in S : m[x] < n => h[x] = f[x]
      OBVIOUS
    <3>4. ASSUME NEW x \in S, m[x] < n + 1 PROVE h[x] = D[<<h, x>>]
      <4>1. \A y \in S : m[y] < m[x] => f[y] = h[y]
        BY <3>3, <3>4
      <4>2. D[<<f, x>>] = D[<<h, x>>]
        <5> HIDE DEF h
        <5> QED
          BY <3>1, <3>2, <4>1
      <4>3. h[x] = D[<<f, x>>]
        BY <3>1, <3>4
      <4> QED
        BY <4>2, <4>3
    <3>5. h \in Upto(n + 1)
      BY <3>2, <3>4
    <3>6. Upto(n + 1) # {} /\ n + 1 \in Nat
      <4> HIDE DEF Upto, h
      <4> QED
        BY <3>5
    <3> QED
      BY <3>6
  <2> QED
    <3> HIDE DEF Good
    <3>1. Nat \subseteq Good
      BY <2>1, <2>2, Induction
    <3> QED
      BY <3>1 DEF Good
<1>2. \A n \in Nat : \A f, g \in Upto(n) : \A x \in S : m[x] < n => f[x] = g[x]
  <2> DEFINE Good == {n \in Nat : \A f, g \in [S -> V] : f \in Upto(n) /\ g \in Upto(n) =>
                                    \A x \in S : m[x] < n => f[x] = g[x]}
  <2>1. 0 \in Good
    OBVIOUS
  <2>2. ASSUME NEW n \in Nat, n \in Good PROVE n + 1 \in Good
    <3>0. n + 1 \in Nat
      OBVIOUS
    <3> SUFFICES ASSUME NEW f \in [S -> V], NEW g \in [S -> V],
                        f \in Upto(n + 1), g \in Upto(n + 1), NEW x \in S, m[x] < n + 1
                 PROVE  f[x] = g[x]
      <4> HIDE DEF Upto
      <4> QED
        BY <3>0
    <3>1. f \in Upto(n) /\ g \in Upto(n)
      OBVIOUS
    <3>2. \A y \in S : m[y] < m[x] => f[y] = g[y]
      BY <2>2, <3>1
    <3>3. D[<<f, x>>] = D[<<g, x>>]
      BY <3>2
    <3> QED
      BY <3>3
  <2> QED
    <3> HIDE DEF Good, Upto
    <3>1. Nat \subseteq Good
      BY <2>1, <2>2, Induction
    <3>2. \A n \in Nat : Upto(n) \subseteq [S -> V]
      BY DEF Upto
    <3> QED
      BY <3>1, <3>2 DEF Good
<1> DEFINE At(x) == CHOOSE f \in Upto(m[x] + 1) : TRUE
           F == [x \in S |-> At(x)[x]]
<1>3. \A x \in S : At(x) \in Upto(m[x] + 1) /\ At(x) \in [S -> V]
  <2> TAKE x \in S
  <2>1. m[x] + 1 \in Nat
    OBVIOUS
  <2>2. Upto(m[x] + 1) # {}
    BY <1>1, <2>1
  <2>3. At(x) \in Upto(m[x] + 1)
    <3> HIDE DEF Upto
    <3> QED
      BY <2>2
  <2> QED
    BY <2>3
<1>4. F \in [S -> V]
  <2> HIDE DEF At
  <2> QED
    BY <1>3
<1>5. ASSUME NEW x \in S PROVE F[x] = D[<<F, x>>]
  <2> DEFINE a == At(x)
  <2>1. a \in [S -> V] /\ \A y \in S : m[y] < m[x] + 1 => a[y] = D[<<a, y>>]
    BY <1>3
  <2>2. \A y \in S : m[y] < m[x] => F[y] = a[y]
    <3> SUFFICES ASSUME NEW y \in S, m[y] < m[x] PROVE At(y)[y] = a[y]
      BY DEF F
    <3>1. At(y) \in Upto(m[y] + 1)
      BY <1>3
    <3>2. a \in Upto(m[y] + 1)
      <4> HIDE DEF a
      <4> QED
        BY <2>1
    <3>3. m[y] + 1 \in Nat
      OBVIOUS
    <3> HIDE DEF At, Upto, a
    <3> QED
      BY <1>2, <3>1, <3>2, <3>3
  <2>3. F[x] = a[x]
    BY DEF F
  <2> HIDE DEF F, a, At
  <2>4. D[<<a, x>>] = D[<<F, x>>]
    BY <1>4, <2>1, <2>2
  <2>5. a[x] = D[<<a, x>>]
    BY <2>1
  <2> QED
    BY <2>3, <2>4, <2>5
<1> HIDE DEF F
<1> QED
  BY <1>4, <1>5

\* What holds of an element if it holds of all below it holds of every element.
Inherited(T, m, S) == \A x \in S : (\A y \in S : m[y] < m[x] => y \in T) => x \in T

\* A set that inherits from what is below in m is everything.
LEMMA Descent ==
  ASSUME NEW S, NEW m \in [S -> Nat], NEW T, Inherited(T, m, S)
  PROVE  S \subseteq T
<1> USE DEF Inherited
<1> DEFINE Good == {n \in Nat : \A x \in S : m[x] < n => x \in T}
<1>1. 0 \in Good
  OBVIOUS
<1>2. ASSUME NEW n \in Nat, n \in Good PROVE n + 1 \in Good
  <2> SUFFICES ASSUME NEW x \in S, m[x] < n + 1 PROVE x \in T
    OBVIOUS
  <2>1. \A y \in S : m[y] < m[x] => y \in T
    BY <1>2
  <2> QED
    BY <2>1
<1>3. Nat \subseteq Good
  <2> HIDE DEF Good
  <2> QED
    BY <1>1, <1>2, Induction
<1> SUFFICES ASSUME NEW x \in S PROVE x \in T
  OBVIOUS
<1>4. m[x] + 1 \in Nat
  OBVIOUS
<1>5. m[x] + 1 \in Good
  <2> HIDE DEF Good
  <2> QED
    BY <1>3, <1>4
<1> QED
  BY <1>5

\* Two functions that agree wherever they agree below are equal.
LEMMA Agreement ==
  ASSUME NEW S, NEW m \in [S -> Nat], NEW f, NEW g, Settles(f, g, m, S)
  PROVE  \A x \in S : f[x] = g[x]
<1> DEFINE T == {x \in S : f[x] = g[x]}
<1>1. Inherited(T, m, S)
  BY DEF Settles, Inherited
<1>2. S \subseteq T
  <2> HIDE DEF T
  <2> QED
    BY <1>1, Descent
<1> QED
  BY <1>2

-----------------------------------------------------------------------------
(* Idna: the bias of the decoder, a loop, is the bias of the encoder, which *)
(* takes the number of steps from a bound.                                 *)

\* Division with a remainder.
LEMMA DivMod ==
  ASSUME NEW a \in Nat, NEW b \in Nat \ {0}
  PROVE  /\ a \div b \in Nat /\ a % b \in 0 .. b - 1
         /\ a = b * (a \div b) + (a % b)
OBVIOUS

\* The loop of adapt goes down.
LEMMA Below ==
  ASSUME NEW d \in Nat, d > 455
  PROVE  d \div 35 \in Nat /\ d \div 35 < d
OBVIOUS

\* Scale is the loop it says it is.
StepOf(f, d) == IF d > 455 THEN 36 + f[d \div 35] ELSE (36 * d) \div (d + 38)

LEMMA ScaleSteps ==
  \E f \in [Nat -> Nat] : /\ \A d \in Nat : f[d] = StepOf(f, d)
                          /\ \A d \in Nat : Scale(d) = f[d]
<1> DEFINE D == [a \in [Nat -> Nat] \X Nat |-> StepOf(a[1], a[2])]
           m == [d \in Nat |-> d]
<1>1. \A f \in [Nat -> Nat], d \in Nat : StepOf(f, d) \in Nat
  <2> TAKE f \in [Nat -> Nat], d \in Nat
  <2>1. CASE d > 455
    BY <2>1, Below DEF StepOf
  <2>2. CASE ~(d > 455)
    <3>1. 36 * d \in Nat /\ d + 38 \in Nat \ {0}
      OBVIOUS
    <3> QED
      BY <2>2, <3>1, DivMod DEF StepOf
  <2> QED
    BY <2>1, <2>2
<1>2. D \in [[Nat -> Nat] \X Nat -> Nat]
  BY <1>1
<1>3. Descends(D, m, Nat, Nat)
  BY Below DEF StepOf, Descends
<1>4. m \in [Nat -> Nat] /\ Nat # {}
  OBVIOUS
<1>5. PICK f \in [Nat -> Nat] : \A d \in Nat : f[d] = StepOf(f, d)
  <2>1. PICK f \in [Nat -> Nat] : Solves(f, D, Nat)
    <3> HIDE DEF D, m
    <3> QED
      BY <1>2, <1>3, <1>4, Recursion
  <2> QED
    BY <2>1 DEF Solves
<1> DEFINE Def(g) == g = [d \in Nat |-> IF d > 455 THEN 36 + g[d \div 35] ELSE (36 * d) \div (d + 38)]
           F == CHOOSE g : Def(g)
<1>6. Def(f)
  BY <1>5 DEF StepOf
<1>7. Def(F)
  <2> HIDE DEF Def
  <2> QED
    BY <1>6
<1>8. \A d \in Nat : Scale(d) = F[d]
  BY DEF Scale
<1> HIDE DEF F
<1>9. \A d \in Nat : F[d] = StepOf(F, d)
  BY <1>7 DEF StepOf
<1>10. F \in [Nat -> Nat]
  <2>1. F = [d \in Nat |-> F[d]]
    BY <1>7
  <2>2. Settles(F, f, m, Nat)
    BY <1>5, <1>9, Below DEF StepOf, Settles
  <2>3. \A d \in Nat : F[d] = f[d]
    <3> HIDE DEF m
    <3> QED
      BY <1>4, <2>2, Agreement
  <2> QED
    BY <2>1, <2>3
<1> QED
  BY <1>8, <1>9, <1>10

\* What the steps of adapt divide by.
LEMMA PowersOf35 ==
  /\ 35^0 = 1 /\ 35^1 = 35 /\ 35^2 = 1225
  /\ 35^3 = 42875 /\ 35^4 = 1500625 /\ 35^5 = 52521875
OBVIOUS

\* Five steps suffice below 455 * 35^5.
Reached(d) == d < 23897453125

\* Up to there, the loop of adapt is the number of steps the encoder takes.
LEMMA ScaleIs ==
  ASSUME NEW d \in Nat, Reached(d), NEW s \in 0 .. 5,
         d \div 35^s <= 455, s > 0 => d \div 35^(s - 1) > 455
  PROVE  Scale(d) = 36 * s + (36 * (d \div 35^s)) \div (d \div 35^s + 38)
<1>1. PICK f \in [Nat -> Nat] : /\ \A e \in Nat : f[e] = StepOf(f, e)
                                /\ \A e \in Nat : Scale(e) = f[e]
  BY ScaleSteps
<1> DEFINE a == d \div 35
           b == d \div 1225
           c == d \div 42875
           e == d \div 1500625
           h == d \div 52521875
           V(x) == (36 * x) \div (x + 38)
<1>0. d < 23897453125
  BY DEF Reached
<1>2. /\ a \in Nat /\ b \in Nat /\ c \in Nat /\ e \in Nat /\ h \in Nat
      /\ b = a \div 35 /\ c = b \div 35 /\ e = c \div 35 /\ h = e \div 35
  OBVIOUS
<1>3. a <= d /\ b <= a /\ c <= b /\ e <= c /\ h <= e
  OBVIOUS
<1> HIDE DEF a, b, c, e, h
<1>4. \A x \in Nat : /\ x > 455 => f[x] = 36 + f[x \div 35]
                     /\ x <= 455 => f[x] = V(x)
  BY <1>1 DEF StepOf
<1> HIDE DEF V
<1> SUFFICES f[d] = 36 * s + V(d \div 35^s)
  BY <1>1 DEF V
<1>5. CASE s = 0
  <2>1. d \div 35^s = d
    BY <1>5, PowersOf35
  <2>2. f[d] = V(d)
    BY <1>4, <2>1
  <2>3. V(d) \in Nat
    BY <1>1, <2>2
  <2> QED
    BY <1>5, <2>1, <2>2, <2>3
<1>6. CASE s = 1
  <2>1. d \div 35^s = a /\ d \div 35^(s - 1) = d
    BY <1>6, PowersOf35 DEF a
  <2>2. d > 455 /\ a <= 455
    BY <1>6, <2>1
  <2>3. f[d] = 36 + f[a] /\ f[a] = V(a)
    BY <1>2, <1>4, <2>2 DEF a
  <2> QED
    BY <1>6, <2>1, <2>3
<1>7. CASE s = 2
  <2>1. d \div 35^s = b /\ d \div 35^(s - 1) = a
    BY <1>7, PowersOf35 DEF a, b
  <2>2. d > 455 /\ a > 455 /\ b <= 455
    BY <1>2, <1>3, <1>7, <2>1
  <2>3. f[d] = 36 + f[a]
    BY <1>4, <2>2 DEF a
  <2>4. f[a] = 36 + f[b] /\ f[b] = V(b)
    BY <1>2, <1>4, <2>2
  <2>5. f[b] \in Nat
    BY <1>1, <1>2
  <2> QED
    BY <1>7, <2>1, <2>3, <2>4, <2>5
<1>8. CASE s = 3
  <2>1. d \div 35^s = c /\ d \div 35^(s - 1) = b
    BY <1>8, PowersOf35 DEF b, c
  <2>2. d > 455 /\ a > 455 /\ b > 455 /\ c <= 455
    BY <1>2, <1>3, <1>8, <2>1
  <2>3. f[d] = 36 + f[a]
    BY <1>4, <2>2 DEF a
  <2>4. f[a] = 36 + f[b] /\ f[b] = 36 + f[c] /\ f[c] = V(c)
    BY <1>2, <1>4, <2>2
  <2>5. f[c] \in Nat
    BY <1>1, <1>2
  <2> QED
    BY <1>8, <2>1, <2>3, <2>4, <2>5
<1>9. CASE s = 4
  <2>1. d \div 35^s = e /\ d \div 35^(s - 1) = c
    BY <1>9, PowersOf35 DEF c, e
  <2>2. d > 455 /\ a > 455 /\ b > 455 /\ c > 455 /\ e <= 455
    BY <1>2, <1>3, <1>9, <2>1
  <2>3. f[d] = 36 + f[a]
    BY <1>4, <2>2 DEF a
  <2>4. f[a] = 36 + f[b] /\ f[b] = 36 + f[c] /\ f[c] = 36 + f[e] /\ f[e] = V(e)
    BY <1>2, <1>4, <2>2
  <2>5. f[e] \in Nat
    BY <1>1, <1>2
  <2> QED
    BY <1>9, <2>1, <2>3, <2>4, <2>5
<1>10. CASE s = 5
  <2>1. d \div 35^s = h /\ d \div 35^(s - 1) = e
    BY <1>10, PowersOf35 DEF e, h
  <2>2. d > 455 /\ a > 455 /\ b > 455 /\ c > 455 /\ e > 455 /\ h <= 455
    BY <1>2, <1>3, <1>10, <2>1
  <2>3. f[d] = 36 + f[a]
    BY <1>4, <2>2 DEF a
  <2>4. f[a] = 36 + f[b] /\ f[b] = 36 + f[c] /\ f[c] = 36 + f[e] /\ f[e] = 36 + f[h] /\ f[h] = V(h)
    BY <1>2, <1>4, <2>2
  <2>5. f[h] \in Nat
    BY <1>1, <1>2
  <2> QED
    BY <1>10, <2>1, <2>3, <2>4, <2>5
<1> QED
  BY <1>5, <1>6, <1>7, <1>8, <1>9, <1>10

\* Far above what a label of 63 code points can ask for.
Near(delta) == delta < 100000000

\* Both sides adapt the bias alike.
LEMMA AdaptIsBias ==
  ASSUME NEW delta \in Nat, Near(delta), NEW points \in Nat \ {0}, NEW first \in BOOLEAN
  PROVE  Adapt(delta, points, first) = Bias(delta, points, first) /\ Bias(delta, points, first) \in Nat
<1> DEFINE halved == delta \div (IF first THEN 700 ELSE 2)
           d == halved + halved \div points
           Fits(s) == d \div 35^s <= 455 /\ (s > 0 => d \div 35^(s - 1) > 455)
           steps == CHOOSE s \in 0 .. 5 : Fits(s)
<1>1. halved \in Nat /\ halved <= delta
  OBVIOUS
<1>10. delta < 100000000
  BY DEF Near
<1>2. halved \div points \in Nat /\ halved \div points <= halved
  <2> HIDE DEF halved
  <2> QED
    BY <1>1
<1>3. d \in Nat /\ Reached(d)
  <2> HIDE DEF halved
  <2> QED
    BY <1>1, <1>2, <1>10 DEF Reached
<1> HIDE DEF d
<1>4. \E s \in 0 .. 5 : Fits(s)
  <2>1. d \div 1 = d /\ d \div 52521875 <= 455
    BY <1>3 DEF Reached
  <2>2. d \div 35^5 <= 455 /\ d \div 35^0 = d
    BY <2>1, PowersOf35
  <2>3. CASE d \div 35^0 <= 455
    BY <2>3
  <2>4. CASE d \div 35^0 > 455 /\ d \div 35^1 <= 455
    BY <2>4
  <2>5. CASE d \div 35^1 > 455 /\ d \div 35^2 <= 455
    BY <2>5
  <2>6. CASE d \div 35^2 > 455 /\ d \div 35^3 <= 455
    BY <2>6
  <2>7. CASE d \div 35^3 > 455 /\ d \div 35^4 <= 455
    BY <2>7
  <2>8. CASE d \div 35^4 > 455 /\ d \div 35^5 <= 455
    BY <2>8
  <2>9. \A k \in {1, 35, 1225, 42875, 1500625, 52521875} : d \div k \in Int
    BY <1>3
  <2>10. \A s \in 0 .. 5 : d \div 35^s \in Int
    <3> DEFINE Q(s) == d \div 35^s
    <3>1. /\ Q(0) = d \div 1 /\ Q(1) = d \div 35 /\ Q(2) = d \div 1225
          /\ Q(3) = d \div 42875 /\ Q(4) = d \div 1500625 /\ Q(5) = d \div 52521875
      BY PowersOf35
    <3>2. Q(0) \in Int /\ Q(1) \in Int /\ Q(2) \in Int /\ Q(3) \in Int /\ Q(4) \in Int /\ Q(5) \in Int
      <4> HIDE DEF Q
      <4> QED
        BY <2>9, <3>1
    <3> HIDE DEF Q
    <3>3. \A s \in 0 .. 5 : Q(s) \in Int
      BY <3>2
    <3> QED
      BY <3>3 DEF Q
  <2> QED
    BY <2>2, <2>3, <2>4, <2>5, <2>6, <2>7, <2>8, <2>10
<1>5. steps \in 0 .. 5 /\ Fits(steps)
  BY <1>4
<1>6. Bias(delta, points, first) = 36 * steps + (36 * (d \div 35^steps)) \div (d \div 35^steps + 38)
  <2> DEFINE Steps(x) == CHOOSE s \in 0 .. 5 : x \div 35^s <= 455 /\ (s > 0 => x \div 35^(s - 1) > 455)
             Of(x) == 36 * Steps(x) + (36 * (x \div 35^Steps(x))) \div (x \div 35^Steps(x) + 38)
             half == IF first THEN delta \div 700 ELSE delta \div 2
  <2>1. Bias(delta, points, first) = Of(half + half \div points)
    BY DEF Bias
  <2>2. half = halved
    OBVIOUS
  <2>3. Steps(d) = steps
    OBVIOUS
  <2> HIDE DEF Steps, half, halved, steps
  <2> QED
    BY <2>1, <2>2, <2>3 DEF d
<1>7. Scale(d) = 36 * steps + (36 * (d \div 35^steps)) \div (d \div 35^steps + 38)
  <2> HIDE DEF steps
  <2> QED
    BY <1>3, <1>5, ScaleIs
<1>8. Adapt(delta, points, first) = Scale(d)
  BY DEF Adapt, d
<1>9. Scale(d) \in Nat
  BY <1>3, ScaleSteps
<1> QED
  BY <1>6, <1>7, <1>8, <1>9

-----------------------------------------------------------------------------
(* Reading and writing one number.                                         *)

\* The loops of the decoder.
ReadStates == [index : Nat \ {0}, i : Nat, w : Nat, k : Nat]
ReadOf(f, s, input, bias) ==
  IF s.index > Len(input) \/ DecodeDigit(input[s.index]) = -1 THEN [i |-> -1, index |-> s.index]
  ELSE IF DecodeDigit(input[s.index]) < Threshold(s.k, bias)
       THEN [i |-> s.i + DecodeDigit(input[s.index]) * s.w, index |-> s.index + 1]
       ELSE f[[index |-> s.index + 1, i |-> s.i + DecodeDigit(input[s.index]) * s.w,
               w |-> s.w * (36 - Threshold(s.k, bias)), k |-> s.k + 36]]

\* The digits and thresholds of the decoder are what they should be.
LEMMA DigitTypes ==
  /\ \A c \in Nat : DecodeDigit(c) \in -1 .. 35
  /\ \A k, bias \in Nat : Threshold(k, bias) \in 1 .. 26
<1>1. \A c \in Nat : DecodeDigit(c) \in -1 .. 35
  <2> TAKE c \in Nat
  <2>1. CASE c \in 48 .. 57
    BY <2>1 DEF DecodeDigit
  <2>2. CASE c \in 65 .. 90
    BY <2>2 DEF DecodeDigit
  <2>3. CASE c \in 97 .. 122
    BY <2>3 DEF DecodeDigit
  <2>4. CASE c \notin 48 .. 57 /\ c \notin 65 .. 90 /\ c \notin 97 .. 122
    BY <2>4 DEF DecodeDigit
  <2> QED
    BY <2>1, <2>2, <2>3, <2>4
<1>2. \A k, bias \in Nat : Threshold(k, bias) \in 1 .. 26
  BY DEF Threshold
<1> QED
  BY <1>1, <1>2

\* A digit that is not the last leads to a state of the loop, further on.
LEMMA ReadNextState ==
  ASSUME NEW input \in Seq(Nat), NEW bias \in Nat, NEW s \in ReadStates, s.index <= Len(input),
         DecodeDigit(input[s.index]) # -1
  PROVE  /\ DecodeDigit(input[s.index]) \in Nat
         /\ s.i + DecodeDigit(input[s.index]) * s.w \in Nat
         /\ s.i <= s.i + DecodeDigit(input[s.index]) * s.w
         /\ [index |-> s.index + 1, i |-> s.i + DecodeDigit(input[s.index]) * s.w,
             w |-> s.w * (36 - Threshold(s.k, bias)), k |-> s.k + 36] \in ReadStates
<1> DEFINE g == DecodeDigit(input[s.index])
           t == Threshold(s.k, bias)
<1>1. /\ s.index \in Nat \ {0} /\ s.i \in Nat /\ s.w \in Nat /\ s.k \in Nat
  BY DEF ReadStates
<1>2. input[s.index] \in Nat
  BY <1>1
<1>3. g \in -1 .. 35 /\ g # -1
  BY <1>2, DigitTypes
<1>4. t \in 1 .. 26
  BY <1>1, DigitTypes
<1> HIDE DEF g, t
<1>5. g * s.w \in Nat /\ s.w * (36 - t) \in Nat
  <2>1. g \in Nat /\ 36 - t \in Nat
    BY <1>3, <1>4
  <2> QED
    BY <1>1, <2>1
<1>6. s.i + g * s.w \in Nat /\ s.i <= s.i + g * s.w
  <2> DEFINE x == g * s.w
  <2>1. x \in Nat /\ s.i \in Nat
    BY <1>1, <1>5
  <2> HIDE DEF x
  <2>2. s.i + x \in Nat /\ s.i <= s.i + x
    BY <2>1
  <2> QED
    BY <2>2 DEF x
<1>7. s.k + 36 \in Nat /\ s.index + 1 \in Nat \ {0}
  BY <1>1
<1>8. g \in Nat
  BY <1>3
<1>9. [index |-> s.index + 1, i |-> s.i + g * s.w, w |-> s.w * (36 - t), k |-> s.k + 36] \in ReadStates
  BY <1>5, <1>6, <1>7 DEF ReadStates
<1> QED
  BY <1>6, <1>8, <1>9 DEF g, t

\* The inner loop of decodePunycode, one step at a time.
LEMMA ReadSteps ==
  ASSUME NEW input \in Seq(Nat), NEW bias \in Nat
  PROVE  \A s \in ReadStates :
           ReadNumber(input, bias)[s] = ReadOf(ReadNumber(input, bias), s, input, bias)
<1> DEFINE S == ReadStates
           V == [i : Int, index : Nat]
           D == [a \in [S -> V] \X S |-> ReadOf(a[1], a[2], input, bias)]
           m == [s \in S |-> IF s.index > Len(input) THEN 0 ELSE Len(input) + 1 - s.index]
<1>1. ASSUME NEW f \in [S -> V], NEW s \in S PROVE ReadOf(f, s, input, bias) \in V
  <2>1. s.index \in Nat
    BY DEF ReadStates
  <2>2. CASE s.index > Len(input) \/ DecodeDigit(input[s.index]) = -1
    BY <2>1, <2>2 DEF ReadOf
  <2>3. CASE s.index <= Len(input) /\ DecodeDigit(input[s.index]) # -1
    <3>1. /\ s.i + DecodeDigit(input[s.index]) * s.w \in Nat
          /\ [index |-> s.index + 1, i |-> s.i + DecodeDigit(input[s.index]) * s.w,
              w |-> s.w * (36 - Threshold(s.k, bias)), k |-> s.k + 36] \in ReadStates
      BY <2>3, ReadNextState
    <3> QED
      BY <2>1, <2>3, <3>1 DEF ReadOf
  <2> QED
    BY <2>1, <2>2, <2>3
<1>2. D \in [[S -> V] \X S -> V]
  BY <1>1
<1>3. m \in [S -> Nat] /\ V # {}
  <2>1. \A s \in S : s.index \in Nat
    BY DEF ReadStates
  <2>2. [i |-> 0, index |-> 0] \in V
    OBVIOUS
  <2> HIDE DEF S, V
  <2> QED
    BY <2>1, <2>2
<1>4. ASSUME NEW f, NEW g, NEW s \in S, \A y \in S : m[y] < m[s] => f[y] = g[y]
      PROVE  ReadOf(f, s, input, bias) = ReadOf(g, s, input, bias)
  <2>1. CASE s.index > Len(input) \/ DecodeDigit(input[s.index]) = -1
    BY <2>1 DEF ReadOf
  <2>2. CASE s.index <= Len(input) /\ DecodeDigit(input[s.index]) # -1
    <3> DEFINE y == [index |-> s.index + 1, i |-> s.i + DecodeDigit(input[s.index]) * s.w,
                     w |-> s.w * (36 - Threshold(s.k, bias)), k |-> s.k + 36]
    <3>1. y \in S
      BY <2>2, ReadNextState
    <3>2. y.index = s.index + 1 /\ s.index \in Nat
      BY DEF ReadStates
    <3>3. m[y] < m[s]
      <4> HIDE DEF y, S
      <4> QED
        BY <2>2, <3>1, <3>2
    <3>4. f[y] = g[y]
      <4> HIDE DEF y, S, m
      <4> QED
        BY <1>4, <3>1, <3>3
    <3> QED
      BY <2>2, <3>4 DEF ReadOf
  <2> QED
    BY <2>1, <2>2 DEF ReadStates
<1>5. Descends(D, m, S, V)
  <2> SUFFICES ASSUME NEW f \in [S -> V], NEW g \in [S -> V], NEW s \in S,
                      \A y \in S : m[y] < m[s] => f[y] = g[y]
               PROVE  D[<<f, s>>] = D[<<g, s>>]
    BY DEF Descends
  <2>1. ReadOf(f, s, input, bias) = ReadOf(g, s, input, bias)
    BY <1>4
  <2> QED
    BY <2>1
<1>6. PICK f \in [S -> V] : \A s \in S : f[s] = ReadOf(f, s, input, bias)
  <2>1. PICK f \in [S -> V] : Solves(f, D, S)
    <3> HIDE DEF D, m, S, V
    <3> QED
      BY <1>2, <1>3, <1>5, Recursion
  <2> QED
    BY <2>1 DEF Solves
<1> DEFINE Def(g) == g = [s \in S |-> ReadOf(g, s, input, bias)]
           F == CHOOSE g : Def(g)
<1>7. Def(f)
  BY <1>6
<1>8. Def(F)
  <2> HIDE DEF Def
  <2> QED
    BY <1>7
<1>9. ReadNumber(input, bias) = F
  BY DEF ReadNumber, ReadOf, ReadStates
<1> HIDE DEF F
<1> QED
  BY <1>8, <1>9

\* A number takes at least one digit, and the sum only grows.
LEMMA ReadAdvances ==
  ASSUME NEW input \in Seq(Nat), NEW bias \in Nat, NEW start \in ReadStates,
         ReadNumber(input, bias)[start].i # -1
  PROVE  /\ ReadNumber(input, bias)[start].i \in Nat
         /\ ReadNumber(input, bias)[start].i >= start.i
         /\ ReadNumber(input, bias)[start].index \in Nat
         /\ ReadNumber(input, bias)[start].index > start.index
<1> DEFINE S == ReadStates
           R == ReadNumber(input, bias)
           Ahead(s) == /\ R[s].i \in Nat /\ R[s].i >= s.i
                       /\ R[s].index \in Nat /\ R[s].index > s.index
           T == {s \in S : R[s].i # -1 => Ahead(s)}
           m == [s \in S |-> IF s.index > Len(input) THEN 0 ELSE Len(input) + 1 - s.index]
<1>1. m \in [S -> Nat]
  <2>1. \A s \in S : s.index \in Nat
    BY DEF ReadStates
  <2> HIDE DEF S
  <2> QED
    BY <2>1
<1>2. ASSUME NEW s \in S, \A y \in S : m[y] < m[s] => y \in T, R[s].i # -1
      PROVE  Ahead(s)
  <2> DEFINE g == DecodeDigit(input[s.index])
             t == Threshold(s.k, bias)
             y == [index |-> s.index + 1, i |-> s.i + g * s.w, w |-> s.w * (36 - t), k |-> s.k + 36]
  <2>1. R[s] = ReadOf(R, s, input, bias)
    BY ReadSteps
  <2>2. s.index <= Len(input) /\ g # -1
    <3>1. s.index \in Nat
      BY DEF ReadStates
    <3>2. CASE s.index > Len(input) \/ g = -1
      <4>1. R[s] = [i |-> -1, index |-> s.index]
        BY <2>1, <3>2 DEF ReadOf
      <4> QED
        BY <1>2, <4>1
    <3> QED
      BY <3>1, <3>2
  <2>3. /\ s.i + g * s.w \in Nat /\ s.i <= s.i + g * s.w /\ y \in S
    BY <2>2, ReadNextState
  <2>4. s.index \in Nat /\ s.i \in Nat
    BY DEF ReadStates
  <2>5. CASE g < t
    <3>1. R[s] = [i |-> s.i + g * s.w, index |-> s.index + 1]
      BY <2>1, <2>2, <2>4, <2>5 DEF ReadOf
    <3> HIDE DEF R, g, t
    <3> QED
      BY <2>3, <2>4, <3>1
  <2>6. CASE ~(g < t)
    <3>1. R[s] = R[y]
      BY <2>1, <2>2, <2>4, <2>6 DEF ReadOf
    <3>2. y.index = s.index + 1 /\ y.i = s.i + g * s.w
      OBVIOUS
    <3> HIDE DEF R, g, t, y, S
    <3>3. m[y] < m[s]
      BY <2>2, <2>3, <2>4, <3>2
    <3>4. y \in T
      <4> HIDE DEF m, T
      <4> QED
        BY <1>2, <2>3, <3>3
    <3>5. Ahead(y)
      BY <1>2, <3>1, <3>4
    <3> QED
      BY <2>3, <2>4, <3>1, <3>2, <3>5
  <2> QED
    BY <2>5, <2>6
<1>3. Inherited(T, m, S)
  <2> HIDE DEF Ahead, m, R, S
  <2> QED
    BY <1>2 DEF Inherited
<1>4. S \subseteq T
  <2> HIDE DEF S, T, m
  <2> QED
    BY <1>1, <1>3, Descent
<1> QED
  BY <1>4

\* The digits of a number.
WriteStates == [number : Nat, k : Nat]
Figures == (48 .. 57) \cup (97 .. 122)
WriteOf(f, s, bias) ==
  LET t == Threshold(s.k, bias) IN
  IF s.number < t THEN <<EncodeDigit(s.number)>>
  ELSE <<EncodeDigit(t + ((s.number - t) % (36 - t)))>>
         \o f[[number |-> (s.number - t) \div (36 - t), k |-> s.k + 36]]

\* decodeDigit undoes the writing of a digit.
LEMMA DigitCoding ==
  \A d \in 0 .. 35 : EncodeDigit(d) \in Figures /\ DecodeDigit(EncodeDigit(d)) = d
<1> TAKE d \in 0 .. 35
<1>1. CASE d < 26
  <2>1. EncodeDigit(d) = d + 97 /\ d + 97 \in 97 .. 122 /\ d + 97 \notin 48 .. 57 /\ d + 97 \notin 65 .. 90
    BY <1>1 DEF EncodeDigit
  <2> QED
    BY <2>1 DEF DecodeDigit, Figures
<1>2. CASE ~(d < 26)
  <2>1. EncodeDigit(d) = d + 22 /\ d + 22 \in 48 .. 57
    BY <1>2 DEF EncodeDigit
  <2> QED
    BY <2>1 DEF DecodeDigit, Figures
<1> QED
  BY <1>1, <1>2

\* One digit, and what is left of the number.
LEMMA NextDigit ==
  ASSUME NEW n \in Nat, NEW t \in 1 .. 26, n >= t
  PROVE  /\ t + ((n - t) % (36 - t)) \in t .. 35
         /\ (n - t) \div (36 - t) \in Nat /\ (n - t) \div (36 - t) < n
         /\ n = t + ((n - t) % (36 - t)) + (36 - t) * ((n - t) \div (36 - t))
<1> DEFINE x == n - t
           u == 36 - t
           r == x % u
           q == x \div u
<1>1. x \in Nat /\ u \in 10 .. 35 /\ x < n /\ n = t + x
  OBVIOUS
<1> HIDE DEF x, u
<1>2. r \in 0 .. u - 1 /\ q \in Nat /\ x = u * q + r
  <2>1. x \in Nat /\ u \in Nat \ {0}
    BY <1>1
  <2> QED
    BY <2>1, DivMod
<1> HIDE DEF r, q
<1>3. q <= u * q
  BY <1>1, <1>2
<1>4. u * q \in Nat
  BY <1>1, <1>2
<1>5. t + r \in t .. 35
  BY <1>1, <1>2 DEF u
<1>6. q < n /\ n = t + r + u * q
  <2> DEFINE p == u * q
  <2>1. p \in Nat /\ q <= p /\ x = p + r
    BY <1>2, <1>3, <1>4
  <2> HIDE DEF p
  <2>2. q < n /\ n = t + r + p
    BY <1>1, <1>2, <2>1
  <2> QED
    BY <2>2 DEF p
<1> QED
  BY <1>2, <1>5, <1>6 DEF x, u, r, q

\* Writing, one digit at a time.
LEMMA WriteSteps ==
  ASSUME NEW bias \in Nat
  PROVE  \E W \in [WriteStates -> Seq(Figures)] :
           /\ \A s \in WriteStates : W[s] = WriteOf(W, s, bias)
           /\ \A n \in Nat : Digits(n, bias) = W[[number |-> n, k |-> 36]]
<1> DEFINE S == WriteStates
           V == Seq(Figures)
           D == [a \in [S -> V] \X S |-> WriteOf(a[1], a[2], bias)]
           m == [s \in S |-> s.number]
           Later(s) == [number |-> (s.number - Threshold(s.k, bias)) \div (36 - Threshold(s.k, bias)),
                        k |-> s.k + 36]
<1>1. \A s \in S : s.number \in Nat /\ s.k \in Nat /\ Threshold(s.k, bias) \in 1 .. 26
  BY DigitTypes DEF WriteStates
<1>2. ASSUME NEW s \in S, ~(s.number < Threshold(s.k, bias))
      PROVE  /\ Later(s) \in S /\ m[Later(s)] < m[s]
             /\ Threshold(s.k, bias) + ((s.number - Threshold(s.k, bias)) % (36 - Threshold(s.k, bias)))
                  \in 0 .. 35
  <2> DEFINE t == Threshold(s.k, bias)
             n == s.number
             y == Later(s)
  <2>1. n \in Nat /\ t \in 1 .. 26 /\ n >= t /\ s.k + 36 \in Nat
    BY <1>1, <1>2
  <2> HIDE DEF t, n
  <2>2. /\ t + ((n - t) % (36 - t)) \in t .. 35
        /\ (n - t) \div (36 - t) \in Nat /\ (n - t) \div (36 - t) < n
    BY <2>1, NextDigit
  <2>3. y = [number |-> (n - t) \div (36 - t), k |-> s.k + 36]
    BY DEF t, n
  <2>4. y \in S /\ y.number < n
    BY <2>1, <2>2, <2>3 DEF WriteStates
  <2>5. t + ((n - t) % (36 - t)) \in 0 .. 35
    BY <2>1, <2>2
  <2> QED
    BY <2>4, <2>5 DEF t, n
<1>3. ASSUME NEW f \in [S -> V], NEW s \in S PROVE WriteOf(f, s, bias) \in V
  <2> DEFINE t == Threshold(s.k, bias)
  <2>1. CASE s.number < t
    <3>1. s.number \in 0 .. 35
      <4>1. s.number \in Nat /\ t \in 1 .. 26
        BY <1>1
      <4> DEFINE n == s.number
      <4>2. n \in Nat /\ n < t
        BY <2>1, <4>1
      <4> HIDE DEF t, n
      <4>3. n \in 0 .. 35
        BY <4>1, <4>2
      <4> QED
        BY <4>3 DEF n
    <3>2. EncodeDigit(s.number) \in Figures
      BY <3>1, DigitCoding
    <3> QED
      BY <2>1, <3>2 DEF WriteOf
  <2>2. CASE ~(s.number < t)
    <3> DEFINE c == EncodeDigit(t + ((s.number - t) % (36 - t)))
    <3>1. c \in Figures /\ f[Later(s)] \in Seq(Figures)
      BY <1>2, <2>2, DigitCoding
    <3>2. WriteOf(f, s, bias) = <<c>> \o f[Later(s)]
      BY <2>2 DEF WriteOf
    <3> HIDE DEF c, Later
    <3> QED
      BY <3>1, <3>2
  <2> QED
    BY <2>1, <2>2
<1>4. D \in [[S -> V] \X S -> V]
  BY <1>3
<1>5. m \in [S -> Nat] /\ V # {}
  <2>1. <<>> \in V
    OBVIOUS
  <2> HIDE DEF S, V
  <2> QED
    BY <1>1, <2>1
<1>6. ASSUME NEW f, NEW g, NEW s \in S, \A y \in S : m[y] < m[s] => f[y] = g[y]
      PROVE  WriteOf(f, s, bias) = WriteOf(g, s, bias)
  <2>1. CASE s.number < Threshold(s.k, bias)
    BY <2>1 DEF WriteOf
  <2>2. CASE ~(s.number < Threshold(s.k, bias))
    <3>1. f[Later(s)] = g[Later(s)]
      <4> HIDE DEF Later, m, S
      <4> QED
        BY <1>2, <1>6, <2>2
    <3> QED
      BY <2>2, <3>1 DEF WriteOf
  <2> QED
    BY <2>1, <2>2
<1>7. Descends(D, m, S, V)
  <2> SUFFICES ASSUME NEW f \in [S -> V], NEW g \in [S -> V], NEW s \in S,
                      \A y \in S : m[y] < m[s] => f[y] = g[y]
               PROVE  D[<<f, s>>] = D[<<g, s>>]
    BY DEF Descends
  <2>1. WriteOf(f, s, bias) = WriteOf(g, s, bias)
    BY <1>6
  <2> QED
    BY <2>1
<1>8. PICK f \in [S -> V] : \A s \in S : f[s] = WriteOf(f, s, bias)
  <2>1. PICK f \in [S -> V] : Solves(f, D, S)
    <3> HIDE DEF D, m, S, V
    <3> QED
      BY <1>4, <1>5, <1>7, Recursion
  <2> QED
    BY <2>1 DEF Solves
<1> DEFINE Body(g, s) ==
              LET t == IF s.k - bias < 1 THEN 1 ELSE IF s.k - bias > 26 THEN 26 ELSE s.k - bias
              IN IF s.number < t THEN <<EncodeDigit(s.number)>>
                 ELSE <<EncodeDigit(t + ((s.number - t) % (36 - t)))>>
                        \o g[[number |-> (s.number - t) \div (36 - t), k |-> s.k + 36]]
           Def(g) == g = [s \in [number : Nat, k : Nat] |-> Body(g, s)]
           F == CHOOSE g : Def(g)
<1>9. \A s \in S : Threshold(s.k, bias) =
                     IF s.k - bias < 1 THEN 1 ELSE IF s.k - bias > 26 THEN 26 ELSE s.k - bias
  BY <1>1 DEF Threshold
<1>10. \A g : Def(g) <=> g = [s \in S |-> WriteOf(g, s, bias)]
  <2>1. ASSUME NEW g, NEW s \in S PROVE Body(g, s) = WriteOf(g, s, bias)
    BY <1>9 DEF WriteOf
  <2> HIDE DEF Body
  <2> QED
    BY <2>1 DEF WriteStates
<1>11. \A n \in Nat : Digits(n, bias) = F[[number |-> n, k |-> 36]]
  BY DEF Digits
<1>12. Def(F)
  <2>1. Def(f)
    <3> HIDE DEF Def
    <3> QED
      BY <1>8, <1>10
  <2> HIDE DEF Def
  <2> QED
    BY <2>1
<1> HIDE DEF F
<1>13. F = [s \in S |-> WriteOf(F, s, bias)]
  <2> HIDE DEF Def
  <2> QED
    BY <1>10, <1>12
<1>14. Settles(F, f, m, S)
  <2> SUFFICES ASSUME NEW s \in S, \A y \in S : m[y] < m[s] => F[y] = f[y] PROVE F[s] = f[s]
    BY DEF Settles
  <2>1. WriteOf(F, s, bias) = WriteOf(f, s, bias)
    BY <1>6
  <2> QED
    BY <1>8, <1>13, <2>1
<1>15. \A s \in S : F[s] = f[s]
  <2> HIDE DEF m, S
  <2> QED
    BY <1>5, <1>14, Agreement
<1>16. F \in [S -> V]
  BY <1>8, <1>13, <1>15
<1> QED
  BY <1>11, <1>13, <1>16

\* The text d stands in the input from position x on.
Appears(d, input, x) ==
  /\ x + Len(d) <= Len(input) + 1
  /\ \A j \in 1 .. Len(d) : input[x + j - 1] = d[j]

\* A text stands where its first code point does and the others after it.
LEMMA AppearsSplit ==
  ASSUME NEW input \in Seq(Nat), NEW c \in Nat, NEW d \in Seq(Nat), NEW x \in Nat \ {0},
         Appears(<<c>> \o d, input, x)
  PROVE  x <= Len(input) /\ input[x] = c /\ Appears(d, input, x + 1)
<1> DEFINE e == <<c>> \o d
<1>1. /\ <<c>> \in Seq(Nat) /\ Len(<<c>>) = 1 /\ <<c>>[1] = c
  OBVIOUS
<1>2. /\ Len(e) = 1 + Len(d) /\ Len(d) \in Nat
      /\ \A i \in 1 .. 1 + Len(d) : e[i] = IF i <= 1 THEN <<c>>[i] ELSE d[i - 1]
  BY <1>1, ConcatProperties
<1> HIDE DEF e
<1>3. x + Len(e) <= Len(input) + 1 /\ \A j \in 1 .. Len(e) : input[x + j - 1] = e[j]
  BY DEF Appears, e
<1>4. x <= Len(input)
  BY <1>2, <1>3
<1>5. input[x] = c
  <2>1. 1 \in 1 .. Len(e) /\ x + 1 - 1 = x /\ e[1] = c
    BY <1>1, <1>2
  <2> QED
    BY <1>3, <2>1
<1>6. ASSUME NEW j \in 1 .. Len(d) PROVE input[x + 1 + j - 1] = d[j]
  <2>1. j + 1 \in 1 .. Len(e) /\ x + (j + 1) - 1 = x + 1 + j - 1
    BY <1>2
  <2>2. e[j + 1] = d[j]
    BY <1>2
  <2> QED
    BY <1>3, <2>1, <2>2
<1>7. x + 1 + Len(d) <= Len(input) + 1
  BY <1>2, <1>3
<1> QED
  BY <1>4, <1>5, <1>6, <1>7 DEF Appears

\* The weight of the next digit.
LEMMA Weight ==
  ASSUME NEW i \in Nat, NEW g \in Nat, NEW w \in Nat, NEW u \in Nat, NEW q \in Nat
  PROVE  (i + g * w) + q * (w * u) = i + (g + u * q) * w
OBVIOUS

\* The digit that ends a number.
LEMMA LastDigit ==
  ASSUME NEW input \in Seq(Nat), NEW bias \in Nat, NEW r \in ReadStates, NEW x \in Nat,
         x < Threshold(r.k, bias), Appears(<<EncodeDigit(x)>>, input, r.index)
  PROVE  ReadNumber(input, bias)[r] = [i |-> r.i + x * r.w, index |-> r.index + 1]
<1> DEFINE t == Threshold(r.k, bias)
           e == <<EncodeDigit(x)>>
           R == ReadNumber(input, bias)
<1>1. r.index \in Nat \ {0} /\ r.i \in Nat /\ r.w \in Nat /\ r.k \in Nat
  BY DEF ReadStates
<1>2. t \in 1 .. 26 /\ x < t
  BY <1>1, DigitTypes
<1>3. x \in 0 .. 35
  <2> HIDE DEF t
  <2> QED
    BY <1>2
<1>4. DecodeDigit(EncodeDigit(x)) = x
  BY <1>3, DigitCoding
<1>5. r.index <= Len(input) /\ input[r.index] = EncodeDigit(x)
  <2>1. Len(e) = 1 /\ e[1] = EncodeDigit(x)
    OBVIOUS
  <2>2. r.index + Len(e) <= Len(input) + 1 /\ \A j \in 1 .. Len(e) : input[r.index + j - 1] = e[j]
    BY DEF Appears
  <2> HIDE DEF e
  <2>3. r.index + 1 <= Len(input) + 1 /\ input[r.index + 1 - 1] = e[1]
    BY <2>1, <2>2
  <2>4. r.index + 1 - 1 = r.index
    BY <1>1
  <2> QED
    BY <1>1, <2>1, <2>3, <2>4
<1>6. DecodeDigit(input[r.index]) = x /\ ~(r.index > Len(input)) /\ x # -1
  BY <1>1, <1>4, <1>5
<1>7. R[r] = ReadOf(R, r, input, bias)
  BY ReadSteps
<1> HIDE DEF R
<1> QED
  BY <1>2, <1>6, <1>7 DEF ReadOf, R

\* A digit that others follow.
LEMMA MoreDigits ==
  ASSUME NEW input \in Seq(Nat), NEW bias \in Nat, NEW r \in ReadStates, NEW g \in 0 .. 35,
         ~(g < Threshold(r.k, bias)), NEW rest \in Seq(Nat),
         Appears(<<EncodeDigit(g)>> \o rest, input, r.index),
         NEW z, z = [index |-> r.index + 1, i |-> r.i + g * r.w,
                     w |-> r.w * (36 - Threshold(r.k, bias)), k |-> r.k + 36]
  PROVE  /\ z \in ReadStates /\ ReadNumber(input, bias)[r] = ReadNumber(input, bias)[z]
         /\ Appears(rest, input, r.index + 1)
<1> DEFINE R == ReadNumber(input, bias)
<1>1. r.index \in Nat \ {0} /\ r.i \in Nat /\ r.w \in Nat /\ r.k \in Nat
  BY DEF ReadStates
<1>2. EncodeDigit(g) \in Figures /\ DecodeDigit(EncodeDigit(g)) = g
  BY DigitCoding
<1>3. EncodeDigit(g) \in Nat
  BY DEF EncodeDigit
<1>4. r.index <= Len(input) /\ input[r.index] = EncodeDigit(g) /\ Appears(rest, input, r.index + 1)
  BY <1>1, <1>3, AppearsSplit
<1>5. DecodeDigit(input[r.index]) = g /\ ~(r.index > Len(input)) /\ g # -1
  <2>1. DecodeDigit(input[r.index]) = g
    BY <1>2, <1>4
  <2>2. ~(r.index > Len(input))
    <3>1. Len(input) \in Nat
      OBVIOUS
    <3> QED
      BY <1>1, <1>4, <3>1
  <2>3. g # -1
    OBVIOUS
  <2> QED
    BY <2>1, <2>2, <2>3
<1>6. z \in ReadStates
  <2>1. [index |-> r.index + 1, i |-> r.i + DecodeDigit(input[r.index]) * r.w,
         w |-> r.w * (36 - Threshold(r.k, bias)), k |-> r.k + 36] \in ReadStates
    BY <1>4, <1>5, ReadNextState
  <2> QED
    BY <1>5, <2>1
<1>7. R[r] = ReadOf(R, r, input, bias)
  BY ReadSteps
<1>8. R[r] = R[z]
  <2> HIDE DEF R
  <2> QED
    BY <1>5, <1>7 DEF ReadOf
<1> QED
  BY <1>4, <1>6, <1>8

\* What is written for a number: one digit, or one and what follows.
OneDigit(W, s, bias) == s.number < Threshold(s.k, bias) /\ W[s] = <<EncodeDigit(s.number)>>
DigitAndRest(W, s, bias) ==
  \E g \in 0 .. 35, q \in Nat :
    /\ ~(g < Threshold(s.k, bias)) /\ q < s.number
    /\ s.number = g + (36 - Threshold(s.k, bias)) * q
    /\ [number |-> q, k |-> s.k + 36] \in WriteStates
    /\ W[[number |-> q, k |-> s.k + 36]] \in Seq(Nat)
    /\ W[s] = <<EncodeDigit(g)>> \o W[[number |-> q, k |-> s.k + 36]]

LEMMA DigitsAre ==
  ASSUME NEW bias \in Nat, NEW W \in [WriteStates -> Seq(Figures)], NEW s \in WriteStates,
         W[s] = WriteOf(W, s, bias)
  PROVE  OneDigit(W, s, bias) \/ DigitAndRest(W, s, bias)
<1> USE DEF OneDigit, DigitAndRest
<1> DEFINE t == Threshold(s.k, bias)
           x == s.number
           g == t + ((x - t) % (36 - t))
           q == (x - t) \div (36 - t)
           y == [number |-> q, k |-> s.k + 36]
<1>1. x \in Nat /\ s.k \in Nat /\ t \in 1 .. 26
  BY DigitTypes DEF WriteStates
<1>2. CASE x < t
  BY <1>2 DEF WriteOf
<1>3. CASE ~(x < t)
  <2>1. W[s] = <<EncodeDigit(g)>> \o W[y]
    BY <1>3 DEF WriteOf
  <2>2. g \in t .. 35 /\ q \in Nat /\ q < x /\ x = g + (36 - t) * q
    <3> HIDE DEF x, t
    <3>1. x \in Nat /\ t \in 1 .. 26 /\ x >= t
      BY <1>1, <1>3
    <3>2. /\ t + ((x - t) % (36 - t)) \in t .. 35
          /\ (x - t) \div (36 - t) \in Nat /\ (x - t) \div (36 - t) < x
          /\ x = t + ((x - t) % (36 - t)) + (36 - t) * ((x - t) \div (36 - t))
      BY <3>1, NextDigit
    <3> QED
      BY <3>2
  <2> HIDE DEF g, q
  <2>3. g \in 0 .. 35 /\ ~(g < t)
    <3> HIDE DEF x, t
    <3> QED
      BY <1>1, <2>2
  <2>4. y \in WriteStates
    BY <1>1, <2>2 DEF WriteStates
  <2>5. W[y] \in Seq(Nat)
    <3>1. Figures \subseteq Nat
      BY DEF Figures
    <3>2. W[y] \in Seq(Figures)
      BY <2>4
    <3> HIDE DEF y
    <3> QED
      BY <3>1, <3>2, WiderSeq
  <2> QED
    BY <2>1, <2>2, <2>3, <2>4, <2>5
<1> QED
  BY <1>2, <1>3

\* ReadNumber finds the number that was written.
LEMMA NumberReads ==
  ASSUME NEW input \in Seq(Nat), NEW bias \in Nat, NEW first \in Nat \ {0}, NEW before \in Nat,
         NEW n \in Nat, Appears(Digits(n, bias), input, first)
  PROVE  /\ Digits(n, bias) \in Seq(Figures) /\ Len(Digits(n, bias)) \in Nat
         /\ ReadNumber(input, bias)[[index |-> first, i |-> before, w |-> 1, k |-> 36]] =
              [i |-> before + n, index |-> first + Len(Digits(n, bias))]
<1>1. PICK W \in [WriteStates -> Seq(Figures)] :
        /\ \A s \in WriteStates : W[s] = WriteOf(W, s, bias)
        /\ \A x \in Nat : Digits(x, bias) = W[[number |-> x, k |-> 36]]
  BY WriteSteps
<1> DEFINE S == WriteStates
           R == ReadNumber(input, bias)
           m == [s \in S |-> s.number]
           Reads(s, r) == R[r] = [i |-> r.i + s.number * r.w, index |-> r.index + Len(W[s])]
           T == {s \in S : \A r \in ReadStates : r.k = s.k /\ Appears(W[s], input, r.index) => Reads(s, r)}
<1>2. m \in [S -> Nat]
  BY DEF WriteStates
<1>3. ASSUME NEW s \in S, \A y \in S : m[y] < m[s] => y \in T,
             NEW r \in ReadStates, r.k = s.k, Appears(W[s], input, r.index)
      PROVE  Reads(s, r)
  <2>1. /\ s.number \in Nat /\ s.k \in Nat
        /\ r.index \in Nat \ {0} /\ r.i \in Nat /\ r.w \in Nat /\ r.k \in Nat
    BY DEF WriteStates, ReadStates
  <2>2. CASE OneDigit(W, s, bias)
    <3> DEFINE x == s.number
    <3>1. x \in Nat /\ x < Threshold(r.k, bias) /\ Appears(<<EncodeDigit(x)>>, input, r.index)
      BY <1>3, <2>1, <2>2 DEF OneDigit
    <3>2. Len(W[s]) = 1
      BY <2>2 DEF OneDigit
    <3> HIDE DEF x
    <3>3. R[r] = [i |-> r.i + x * r.w, index |-> r.index + 1]
      BY <3>1, LastDigit
    <3> HIDE DEF R
    <3> QED
      BY <3>2, <3>3 DEF x
  <2>3. CASE DigitAndRest(W, s, bias)
    <3> DEFINE t == Threshold(r.k, bias)
               u == 36 - t
    <3>1. PICK g \in 0 .. 35, q \in Nat :
              /\ ~(g < t) /\ q < s.number
              /\ s.number = g + u * q
              /\ [number |-> q, k |-> s.k + 36] \in WriteStates
              /\ W[[number |-> q, k |-> s.k + 36]] \in Seq(Nat)
              /\ W[s] = <<EncodeDigit(g)>> \o W[[number |-> q, k |-> s.k + 36]]
      BY <1>3, <2>3 DEF DigitAndRest
    <3> DEFINE y == [number |-> q, k |-> s.k + 36]
               z == [index |-> r.index + 1, i |-> r.i + g * r.w, w |-> r.w * u, k |-> r.k + 36]
               rest == W[y]
    <3>2. y \in S /\ y.number = q /\ y.k = s.k + 36
      BY <3>1
    <3>3. m[y] < m[s]
      <4> HIDE DEF y
      <4> QED
        BY <3>1, <3>2
    <3>4. rest \in Seq(Nat) /\ Appears(<<EncodeDigit(g)>> \o rest, input, r.index)
      BY <1>3, <3>1
    <3> HIDE DEF rest
    <3>5. z \in ReadStates /\ R[r] = R[z] /\ Appears(rest, input, r.index + 1)
      BY <3>1, <3>4, MoreDigits
    <3>6. y \in T
      <4> HIDE DEF y, m, T
      <4> QED
        BY <1>3, <3>2, <3>3
    <3>7. Reads(y, z)
      <4>1. z.k = y.k /\ Appears(W[y], input, z.index)
        BY <1>3, <3>5 DEF rest
      <4> HIDE DEF Reads, y, z
      <4> QED
        BY <3>5, <3>6, <4>1
    <3>8. R[z] = [i |-> (r.i + g * r.w) + q * (r.w * u), index |-> r.index + 1 + Len(rest)]
      <4> HIDE DEF R, u
      <4> QED
        BY <3>7 DEF rest
    <3>9. (r.i + g * r.w) + q * (r.w * u) = r.i + s.number * r.w
      <4>1. u \in Nat /\ g \in Nat
        <5>1. t \in 1 .. 26
          BY <2>1, DigitTypes
        <5> HIDE DEF t
        <5> QED
          BY <5>1
      <4> HIDE DEF u
      <4>2. (r.i + g * r.w) + q * (r.w * u) = r.i + (g + u * q) * r.w
        BY <2>1, <4>1, Weight
      <4> QED
        BY <3>1, <4>2
    <3>10. r.index + 1 + Len(rest) = r.index + Len(W[s])
      <4>1. Len(W[s]) = 1 + Len(rest) /\ Len(rest) \in Nat
        <5> DEFINE e == EncodeDigit(g)
        <5>1. e \in Nat /\ W[s] = <<e>> \o rest
          BY <3>1 DEF EncodeDigit, rest
        <5> HIDE DEF e
        <5> QED
          BY <3>4, <5>1
      <4> DEFINE a == r.index
                 b == Len(W[s])
                 c == Len(rest)
      <4>2. a \in Nat /\ c \in Nat /\ b = 1 + c
        BY <2>1, <4>1
      <4> HIDE DEF a, b, c
      <4>3. a + 1 + c = a + b
        BY <4>2
      <4> QED
        BY <4>3 DEF a, b, c
    <3> HIDE DEF y, z, u, R
    <3> QED
      BY <3>5, <3>8, <3>9, <3>10
  <2>4. W[s] = WriteOf(W, s, bias)
    BY <1>1
  <2>5. s \in WriteStates
    OBVIOUS
  <2> HIDE DEF Reads, m, S, T, R
  <2> QED
    BY <2>2, <2>3, <2>4, <2>5, DigitsAre
<1>4. S \subseteq T
  <2>1. Inherited(T, m, S)
    <3> HIDE DEF Reads, m, S
    <3> QED
      BY <1>3 DEF Inherited
  <2> HIDE DEF S, T, m
  <2> QED
    BY <1>2, <2>1, Descent
<1>5. [number |-> n, k |-> 36] \in S /\ [index |-> first, i |-> before, w |-> 1, k |-> 36] \in ReadStates
  BY DEF WriteStates, ReadStates
<1>6. Digits(n, bias) = W[[number |-> n, k |-> 36]] /\ Digits(n, bias) \in Seq(Figures)
  BY <1>1, <1>5
<1>7. Reads([number |-> n, k |-> 36], [index |-> first, i |-> before, w |-> 1, k |-> 36])
  <2> DEFINE a == [number |-> n, k |-> 36]
             b == [index |-> first, i |-> before, w |-> 1, k |-> 36]
  <2>1. a \in T /\ b \in ReadStates /\ a.k = b.k /\ b.index = first
    BY <1>4, <1>5
  <2>2. Appears(W[a], input, b.index)
    BY <1>6
  <2> HIDE DEF a, b, Reads
  <2>3. Reads(a, b)
    BY <2>1, <2>2
  <2> QED
    BY <2>3 DEF a, b
<1>8. R[[index |-> first, i |-> before, w |-> 1, k |-> 36]] =
        [i |-> before + n, index |-> first + Len(Digits(n, bias))]
  BY <1>6, <1>7
<1> QED
  BY <1>6, <1>8

-----------------------------------------------------------------------------
(* Inserting code points, one for each number.                             *)

IsInserted(t, s, i, e) ==
  /\ t \in Seq(Nat) /\ Len(t) = Len(s) + 1
  /\ \A j \in 1 .. Len(s) + 1 : t[j] = IF j < i THEN s[j] ELSE IF j = i THEN e ELSE s[j - 1]

\* What inserting into a sequence does to each position.
LEMMA InsertAtIs ==
  ASSUME NEW s \in Seq(Nat), NEW i \in 1 .. Len(s) + 1, NEW e \in Nat
  PROVE  IsInserted(InsertAt(s, i, e), s, i, e)
<1> DEFINE a == SubSeq(s, 1, i - 1)
           c == SubSeq(s, i, Len(s))
           n == Len(s)
<1>1. n \in Nat /\ i \in Nat /\ i >= 1 /\ i <= n + 1
  OBVIOUS
<1>2. /\ a \in Seq(Nat) /\ Len(a) = i - 1 /\ \A j \in 1 .. i - 1 : a[j] = s[j]
  <2>1. \A j \in 1 .. i - 1 : s[j] \in Nat
    OBVIOUS
  <2> QED
    BY <1>1, <2>1, SubSeqProperties
<1>3. /\ c \in Seq(Nat) /\ Len(c) = n - i + 1 /\ \A j \in 1 .. n - i + 1 : c[j] = s[i + j - 1]
  <2>1. \A j \in i .. n : s[j] \in Nat
    OBVIOUS
  <2> QED
    BY <1>1, <2>1, SubSeqProperties
<1>4. <<e>> \in Seq(Nat) /\ Len(<<e>>) = 1 /\ <<e>>[1] = e
  OBVIOUS
<1> HIDE DEF a, c, n
<1> DEFINE b == a \o <<e>>
<1>5. /\ b \in Seq(Nat) /\ Len(b) = i
      /\ \A j \in 1 .. i : b[j] = IF j <= i - 1 THEN s[j] ELSE e
  <2> DEFINE x == <<e>>
  <2>1. x \in Seq(Nat) /\ Len(x) = 1 /\ x[1] = e
    BY <1>4
  <2> HIDE DEF x
  <2>2. /\ a \o x \in Seq(Nat) /\ Len(a \o x) = Len(a) + Len(x)
        /\ \A j \in 1 .. Len(a) + Len(x) : (a \o x)[j] = IF j <= Len(a) THEN a[j] ELSE x[j - Len(a)]
    BY <1>2, <2>1, ConcatProperties
  <2>3. b = a \o x
    BY DEF x
  <2>4. Len(a) + Len(x) = i
    BY <1>1, <1>2, <2>1
  <2> HIDE DEF b
  <2>5. /\ b \in Seq(Nat) /\ Len(b) = i
        /\ \A j \in 1 .. i : b[j] = IF j <= Len(a) THEN a[j] ELSE x[j - Len(a)]
    BY <2>2, <2>3, <2>4
  <2>6. ASSUME NEW j \in 1 .. i, j <= i - 1 PROVE b[j] = s[j]
    <3>1. b[j] = a[j]
      BY <1>2, <2>5, <2>6
    <3>2. j \in 1 .. i - 1
      BY <1>1, <2>6
    <3> QED
      BY <1>2, <3>1, <3>2
  <2>7. ASSUME NEW j \in 1 .. i, ~(j <= i - 1) PROVE b[j] = e
    <3>1. j - Len(a) = 1 /\ ~(j <= Len(a))
      BY <1>1, <1>2, <2>7
    <3> QED
      BY <2>1, <2>5, <3>1
  <2> QED
    BY <2>5, <2>6, <2>7
<1> HIDE DEF b
<1> DEFINE r == b \o c
<1>6. /\ r \in Seq(Nat) /\ Len(r) = Len(b) + Len(c)
      /\ \A j \in 1 .. Len(b) + Len(c) : r[j] = IF j <= Len(b) THEN b[j] ELSE c[j - Len(b)]
  BY <1>3, <1>5, ConcatProperties
<1> HIDE DEF r
<1>7. Len(b) + Len(c) = n + 1
  BY <1>1, <1>3, <1>5
<1>8. ASSUME NEW j \in 1 .. n + 1
      PROVE  r[j] = IF j < i THEN s[j] ELSE IF j = i THEN e ELSE s[j - 1]
  <2>1. CASE j <= i
    <3>1. j \in 1 .. i /\ r[j] = b[j]
      BY <1>1, <1>5, <1>6, <1>7, <2>1
    <3>2. b[j] = IF j <= i - 1 THEN s[j] ELSE e
      BY <1>5, <3>1
    <3>3. (j <= i - 1 <=> j < i) /\ (~(j <= i - 1) <=> j = i)
      BY <1>1, <2>1
    <3> QED
      BY <3>1, <3>2, <3>3
  <2>2. CASE ~(j <= i)
    <3>1. r[j] = c[j - i]
      BY <1>5, <1>6, <1>7, <2>2
    <3>2. j - i \in 1 .. n - i + 1 /\ i + (j - i) - 1 = j - 1
      BY <1>1, <2>2
    <3>3. c[j - i] = s[j - 1]
      BY <1>3, <3>2
    <3>4. ~(j < i) /\ j # i
      BY <1>1, <2>2
    <3> QED
      BY <3>1, <3>3, <3>4
  <2> QED
    BY <2>1, <2>2
<1>9. InsertAt(s, i, e) = r
  BY DEF InsertAt, r, b, a, c, n
<1> QED
  BY <1>6, <1>7, <1>8, <1>9 DEF n, IsInserted

InsertStates == [index : Nat \ {0}, output : Seq(Nat), n : Nat, i : Nat, bias : Nat]
Found(s, input) == ReadNumber(input, s.bias)[[index |-> s.index, i |-> s.i, w |-> 1, k |-> 36]]
Inserted(s, read) ==
  [index |-> read.index,
   output |-> InsertAt(s.output, (read.i % (Len(s.output) + 1)) + 1, s.n + (read.i \div (Len(s.output) + 1))),
   n |-> s.n + (read.i \div (Len(s.output) + 1)),
   i |-> (read.i % (Len(s.output) + 1)) + 1,
   bias |-> Adapt(read.i - s.i, Len(s.output) + 1, s.i = 0)]
InsertOf(f, s, input) ==
  IF s.index > Len(input) THEN s.output
  ELSE IF Found(s, input).i = -1 THEN Broken
  ELSE f[Inserted(s, Found(s, input))]

\* adapt returns a natural number.
LEMMA AdaptNat ==
  ASSUME NEW delta \in Nat, NEW points \in Nat \ {0}, NEW first \in BOOLEAN
  PROVE  Adapt(delta, points, first) \in Nat
<1> DEFINE h == delta \div (IF first THEN 700 ELSE 2)
<1>1. h \in Nat
  OBVIOUS
<1>2. h \div points \in Nat
  <2> HIDE DEF h
  <2> QED
    BY <1>1, DivMod
<1>3. h + h \div points \in Nat
  <2> DEFINE a == h
             b == h \div points
  <2>1. a \in Nat /\ b \in Nat
    BY <1>1, <1>2
  <2> HIDE DEF a, b
  <2>2. a + b \in Nat
    BY <2>1
  <2> QED
    BY <2>2 DEF a, b
<1>4. \A d \in Nat : Scale(d) \in Nat
  BY ScaleSteps
<1>5. Adapt(delta, points, first) = Scale(h + h \div points)
  BY DEF Adapt
<1> HIDE DEF h
<1> QED
  BY <1>3, <1>4, <1>5

\* A number that is found leads to a state of the outer loop, further on.
LEMMA InsertNextState ==
  ASSUME NEW input \in Seq(Nat), NEW s \in InsertStates, Found(s, input).i # -1
  PROVE  /\ Inserted(s, Found(s, input)) \in InsertStates
         /\ Found(s, input).index > s.index
<1> DEFINE read == Found(s, input)
           out == Len(s.output) + 1
           d == read.i \div out
           m == read.i % out
<1>1. s.index \in Nat \ {0} /\ s.output \in Seq(Nat) /\ s.n \in Nat /\ s.i \in Nat /\ s.bias \in Nat
  BY DEF InsertStates
<1>2. out \in Nat \ {0} /\ out = Len(s.output) + 1 /\ Len(s.output) \in Nat
  BY <1>1
<1>3. read.i \in Nat /\ read.i >= s.i /\ read.index \in Nat /\ read.index > s.index
  <2> DEFINE start == [index |-> s.index, i |-> s.i, w |-> 1, k |-> 36]
  <2>1. start \in ReadStates /\ start.i = s.i /\ start.index = s.index
    BY <1>1 DEF ReadStates
  <2>2. read = ReadNumber(input, s.bias)[start]
    BY DEF Found
  <2> HIDE DEF start, read
  <2>3. ReadNumber(input, s.bias)[start].i # -1
    BY <2>2 DEF read
  <2> QED
    BY <1>1, <2>1, <2>2, <2>3, ReadAdvances
<1> HIDE DEF read
<1>4. d \in Nat /\ m \in 0 .. out - 1
  <2> HIDE DEF out
  <2> QED
    BY <1>2, <1>3, DivMod
<1>5. Adapt(read.i - s.i, out, s.i = 0) \in Nat
  <2> DEFINE x == read.i - s.i
             z == s.i = 0
  <2>1. x \in Nat /\ z \in BOOLEAN
    BY <1>1, <1>3
  <2> HIDE DEF x, z, out
  <2>2. Adapt(x, out, z) \in Nat
    BY <1>2, <2>1, AdaptNat
  <2> QED
    BY <2>2 DEF x, z
<1> HIDE DEF d, m, out
<1>6. m + 1 \in 1 .. Len(s.output) + 1 /\ s.n + d \in Nat /\ m + 1 \in Nat
  BY <1>1, <1>2, <1>4
<1>7. InsertAt(s.output, m + 1, s.n + d) \in Seq(Nat)
  <2> DEFINE x == m + 1
             e == s.n + d
             o == s.output
  <2>1. x \in 1 .. Len(o) + 1 /\ e \in Nat /\ o \in Seq(Nat)
    BY <1>1, <1>6
  <2> HIDE DEF x, e, o
  <2>2. InsertAt(o, x, e) \in Seq(Nat)
    BY <2>1, InsertAtIs DEF IsInserted
  <2> QED
    BY <2>2 DEF x, e, o
<1>8. read.index \in Nat \ {0}
  BY <1>1, <1>3
<1>9. Inserted(s, read) = [index |-> read.index, output |-> InsertAt(s.output, m + 1, s.n + d),
                           n |-> s.n + d, i |-> m + 1, bias |-> Adapt(read.i - s.i, out, s.i = 0)]
  BY DEF Inserted, d, m, out
<1>10. Inserted(s, read) \in InsertStates
  BY <1>5, <1>6, <1>7, <1>8, <1>9 DEF InsertStates
<1> QED
  BY <1>3, <1>10 DEF read

\* The outer loop of decodePunycode, one number at a time.
LEMMA InsertSteps ==
  ASSUME NEW input \in Seq(Nat)
  PROVE  \A s \in InsertStates : Insertions(input)[s] = InsertOf(Insertions(input), s, input)
<1> DEFINE S == InsertStates
           V == Seq(Nat)
           D == [a \in [S -> V] \X S |-> InsertOf(a[1], a[2], input)]
           m == [s \in S |-> IF s.index > Len(input) THEN 0 ELSE Len(input) + 1 - s.index]
<1>1. ASSUME NEW f \in [S -> V], NEW s \in S PROVE InsertOf(f, s, input) \in V
  <2>1. s.output \in V /\ Broken \in V
    BY DEF InsertStates, Broken
  <2>2. Found(s, input).i # -1 => f[Inserted(s, Found(s, input))] \in V
    <3> HIDE DEF V
    <3> QED
      BY InsertNextState
  <2> QED
    BY <2>1, <2>2 DEF InsertOf
<1>2. D \in [[S -> V] \X S -> V]
  BY <1>1
<1>3. m \in [S -> Nat] /\ V # {}
  <2>1. \A s \in S : s.index \in Nat
    BY DEF InsertStates
  <2>2. <<>> \in V /\ Len(input) \in Nat
    OBVIOUS
  <2> HIDE DEF S, V
  <2> QED
    BY <2>1, <2>2
<1>4. ASSUME NEW f, NEW g, NEW s \in S, \A y \in S : m[y] < m[s] => f[y] = g[y]
      PROVE  InsertOf(f, s, input) = InsertOf(g, s, input)
  <2>1. CASE s.index > Len(input) \/ Found(s, input).i = -1
    BY <2>1 DEF InsertOf
  <2>2. CASE ~(s.index > Len(input)) /\ Found(s, input).i # -1
    <3> DEFINE y == Inserted(s, Found(s, input))
    <3>1. y \in S /\ y.index > s.index
      BY <2>2, InsertNextState DEF Inserted
    <3>2. s.index \in Nat /\ y.index \in Nat /\ Len(input) \in Nat
      BY <3>1 DEF InsertStates
    <3>3. m[y] < m[s]
      <4> HIDE DEF y, S
      <4> QED
        BY <2>2, <3>1, <3>2
    <3>4. f[y] = g[y]
      <4> HIDE DEF y, S, m
      <4> QED
        BY <1>4, <3>1, <3>3
    <3> QED
      BY <2>2, <3>4 DEF InsertOf
  <2> QED
    BY <2>1, <2>2
<1>5. Descends(D, m, S, V)
  <2> SUFFICES ASSUME NEW f \in [S -> V], NEW g \in [S -> V], NEW s \in S,
                      \A y \in S : m[y] < m[s] => f[y] = g[y]
               PROVE  D[<<f, s>>] = D[<<g, s>>]
    BY DEF Descends
  <2>1. InsertOf(f, s, input) = InsertOf(g, s, input)
    BY <1>4
  <2> QED
    BY <2>1
<1>6. PICK f \in [S -> V] : \A s \in S : f[s] = InsertOf(f, s, input)
  <2>1. PICK f \in [S -> V] : Solves(f, D, S)
    <3> HIDE DEF D, m, S, V
    <3> QED
      BY <1>2, <1>3, <1>5, Recursion
  <2> QED
    BY <2>1 DEF Solves
<1> DEFINE Def(g) == g = [s \in S |-> InsertOf(g, s, input)]
           F == CHOOSE g : Def(g)
<1>7. Def(f)
  BY <1>6
<1>8. Def(F)
  <2> HIDE DEF Def
  <2> QED
    BY <1>7
<1>9. Insertions(input) = F
  BY DEF Insertions, InsertOf, InsertStates, Found, Inserted
<1> HIDE DEF F
<1> QED
  BY <1>8, <1>9

-----------------------------------------------------------------------------
(* The part of a label that is in.                                         *)

Rank(D, p) == Cardinality({q \in D : q <= p})

\* Later positions rank higher.
LEMMA RankGrows ==
  ASSUME NEW D \in SUBSET Nat, IsFiniteSet(D), NEW p \in D
  PROVE  /\ Rank(D, p) \in 1 .. Cardinality(D)
         /\ \A q \in D : p < q => Rank(D, p) < Rank(D, q)
<1> DEFINE Upto(r) == {q \in D : q <= r}
<1>1. \A r : IsFiniteSet(Upto(r)) /\ Cardinality(Upto(r)) \in Nat /\ Cardinality(Upto(r)) <= Cardinality(D)
  <2> TAKE r
  <2>1. Upto(r) \in SUBSET D
    OBVIOUS
  <2> HIDE DEF Upto
  <2> QED
    BY <2>1, FS_Subset, FS_CardinalityType
<1>2. Cardinality(D) \in Nat
  BY FS_CardinalityType
<1>3. Rank(D, p) = Cardinality(Upto(p)) /\ p \in Upto(p)
  BY DEF Rank
<1>4. Cardinality(Upto(p)) # 0
  <2> HIDE DEF Upto
  <2> QED
    BY <1>1, <1>3, FS_EmptySet
<1>5. ASSUME NEW q \in D, p < q PROVE Rank(D, p) < Rank(D, q)
  <2>1. Upto(p) \in SUBSET Upto(q) /\ q \in Upto(q) /\ q \notin Upto(p)
    <3>1. \A r \in D : r <= p => r <= q
      BY <1>5
    <3>2. q <= q /\ ~(q <= p)
      BY <1>5
    <3> QED
      BY <3>1, <3>2
  <2>2. Rank(D, q) = Cardinality(Upto(q))
    BY DEF Rank
  <2> HIDE DEF Upto
  <2>3. Cardinality(Upto(p)) <= Cardinality(Upto(q)) /\ Cardinality(Upto(p)) # Cardinality(Upto(q))
    BY <1>1, <2>1, FS_Subset
  <2>4. Cardinality(Upto(p)) \in Nat /\ Cardinality(Upto(q)) \in Nat
    BY <1>1
  <2> QED
    BY <1>3, <2>2, <2>3, <2>4
<1>6. Rank(D, p) \in 1 .. Cardinality(D)
  <2> HIDE DEF Upto
  <2>1. Cardinality(Upto(p)) \in Nat /\ Cardinality(Upto(p)) <= Cardinality(D)
    BY <1>1
  <2> QED
    BY <1>2, <1>3, <1>4, <2>1
<1> QED
  BY <1>5, <1>6

\* Every rank is that of one position.
LEMMA RankOnto ==
  ASSUME NEW D \in SUBSET Nat, IsFiniteSet(D)
  PROVE  /\ \A i \in 1 .. Cardinality(D) : \E p \in D : Rank(D, p) = i
         /\ \A p, q \in D : Rank(D, p) = Rank(D, q) => p = q
<1> DEFINE n == Cardinality(D)
           T == 1 .. n
           f == [p \in D |-> Rank(D, p)]
<1>1. n \in Nat
  BY FS_CardinalityType
<1>2. IsFiniteSet(T) /\ Cardinality(T) = n
  <2>1. IsFiniteSet(T) /\ Cardinality(T) = IF 1 > n THEN 0 ELSE n - 1 + 1
    <3> HIDE DEF n
    <3> QED
      BY <1>1, FS_Interval
  <2> HIDE DEF n
  <2> QED
    BY <1>1, <2>1
<1>3. \A p \in D : Rank(D, p) \in T
  BY RankGrows
<1>4. \A p, q \in D : Rank(D, p) = Rank(D, q) => p = q
  <2> SUFFICES ASSUME NEW p \in D, NEW q \in D, Rank(D, p) = Rank(D, q), p # q PROVE FALSE
    OBVIOUS
  <2>1. p < q \/ q < p
    OBVIOUS
  <2>2. Rank(D, p) < Rank(D, q) \/ Rank(D, q) < Rank(D, p)
    BY <2>1, RankGrows
  <2>3. Rank(D, p) \in Int /\ Rank(D, q) \in Int
    BY <1>3
  <2> QED
    BY <2>2, <2>3
<1>5. f \in Injection(D, T)
  BY <1>3, <1>4 DEF Injection, IsInjective
<1>6. f \in Surjection(D, T)
  <2> HIDE DEF f, T
  <2> QED
    BY <1>2, <1>5, FS_Injection
<1>7. \A i \in T : \E p \in D : f[p] = i
  BY <1>6 DEF Surjection
<1> QED
  BY <1>4, <1>7

\* A part of a label is a sequence of as many code points.
LEMMA PartIs ==
  ASSUME NEW label \in Seq(Nat), NEW D \in SUBSET (DOMAIN label)
  PROVE  /\ IsFiniteSet(D) /\ D \in SUBSET Nat /\ Cardinality(D) \in Nat
         /\ Cardinality(D) <= Len(label)
         /\ Part(label, D) \in Seq(Nat) /\ Len(Part(label, D)) = Cardinality(D)
         /\ \A p \in D : Rank(D, p) \in 1 .. Cardinality(D) /\ Part(label, D)[Rank(D, p)] = label[p]
<1> DEFINE L == Len(label)
           n == Cardinality(D)
           Where(i) == CHOOSE p \in D : Rank(D, p) = i
<1>1. L \in Nat /\ DOMAIN label = 1 .. L
  OBVIOUS
<1>2. IsFiniteSet(1 .. L) /\ Cardinality(1 .. L) = L
  <2> HIDE DEF L
  <2>1. IsFiniteSet(1 .. L) /\ Cardinality(1 .. L) = IF 1 > L THEN 0 ELSE L - 1 + 1
    BY <1>1, FS_Interval
  <2> QED
    BY <1>1, <2>1
<1>3. IsFiniteSet(D) /\ n \in Nat /\ n <= L
  <2>1. D \in SUBSET (1 .. L)
    BY <1>1
  <2> HIDE DEF L
  <2> QED
    BY <1>2, <2>1, FS_Subset, FS_CardinalityType
<1>4. D \in SUBSET Nat /\ \A p \in D : label[p] \in Nat
  BY <1>1
<1>5. \A i \in 1 .. n : Where(i) \in D /\ Rank(D, Where(i)) = i
  BY <1>3, <1>4, RankOnto
<1>6. Part(label, D) = [i \in 1 .. n |-> label[Where(i)]]
  BY DEF Part, Rank
<1>7. Part(label, D) \in [1 .. n -> Nat]
  <2> HIDE DEF Where, n
  <2> QED
    BY <1>4, <1>5, <1>6
<1>8. Part(label, D) \in Seq(Nat) /\ Len(Part(label, D)) = n
  <2> HIDE DEF n
  <2>1. [1 .. n -> Nat] \subseteq Seq(Nat)
    BY <1>3
  <2> QED
    BY <1>3, <1>7, <2>1
<1>9. ASSUME NEW p \in D PROVE Rank(D, p) \in 1 .. n /\ Part(label, D)[Rank(D, p)] = label[p]
  <2>1. Rank(D, p) \in 1 .. n
    BY <1>3, <1>4, RankGrows
  <2>2. Where(Rank(D, p)) = p
    <3>1. \A q \in D : Rank(D, q) = Rank(D, p) => q = p
      BY <1>3, <1>4, RankOnto
    <3> HIDE DEF Where
    <3> QED
      BY <1>5, <2>1, <3>1
  <2> HIDE DEF Where, n
  <2> QED
    BY <1>6, <2>1, <2>2
<1> QED
  BY <1>3, <1>4, <1>8, <1>9

\* The part at all positions is the label.
LEMMA PartFull ==
  ASSUME NEW label \in Seq(Nat)
  PROVE  Part(label, DOMAIN label) = label
<1> DEFINE L == Len(label)
           P == DOMAIN label
<1>1. L \in Nat /\ P = 1 .. L
  OBVIOUS
<1>2. ASSUME NEW p \in 1 .. L PROVE Rank(P, p) = p
  <2>1. {q \in P : q <= p} = 1 .. p
    BY <1>1
  <2>2. Cardinality(1 .. p) = IF 1 > p THEN 0 ELSE p - 1 + 1
    BY FS_Interval
  <2>3. Cardinality(1 .. p) = p
    BY <2>2
  <2> QED
    BY <2>1, <2>3 DEF Rank
<1>3. Cardinality(P) = L
  <2>1. Cardinality(1 .. L) = IF 1 > L THEN 0 ELSE L - 1 + 1
    BY <1>1, FS_Interval
  <2> HIDE DEF L, P
  <2> QED
    BY <1>1, <2>1
<1>4. /\ Part(label, P) \in Seq(Nat) /\ Len(Part(label, P)) = L
      /\ \A p \in P : Part(label, P)[Rank(P, p)] = label[p]
  BY <1>3, PartIs
<1>5. \A p \in 1 .. L : Part(label, P)[p] = label[p]
  <2> HIDE DEF L, P
  <2> QED
    BY <1>1, <1>2, <1>4
<1> DEFINE a == Part(label, P)
<1>6. a \in Seq(Nat) /\ Len(a) = Len(label) /\ \A p \in 1 .. Len(a) : a[p] = label[p]
  BY <1>4, <1>5
<1> HIDE DEF a
<1>7. a = label
  BY <1>6, SeqEqual
<1> QED
  BY <1>7 DEF a

\* Inserting a code point where it belongs.
LEMMA PartInsert ==
  ASSUME NEW label \in Seq(Nat), NEW D \in SUBSET (DOMAIN label), NEW p \in DOMAIN label \ D
  PROVE  LET place == Cardinality({q \in D : q < p}) IN
         /\ place \in 0 .. Cardinality(D)
         /\ Cardinality(D \cup {p}) = Cardinality(D) + 1
         /\ InsertAt(Part(label, D), place + 1, label[p]) = Part(label, D \cup {p})
<1> DEFINE n == Cardinality(D)
           E == D \cup {p}
           Under == {q \in D : q < p}
           place == Cardinality(Under)
           a == Part(label, D)
           b == Part(label, E)
           e == label[p]
           c == InsertAt(a, place + 1, e)
<1>1. E \in SUBSET (DOMAIN label) /\ p \in Nat /\ e \in Nat /\ p \notin D
  OBVIOUS
<1>2. /\ IsFiniteSet(D) /\ D \in SUBSET Nat /\ n \in Nat
      /\ a \in Seq(Nat) /\ Len(a) = n
      /\ \A q \in D : Rank(D, q) \in 1 .. n /\ a[Rank(D, q)] = label[q]
  BY PartIs
<1>3. Cardinality(E) = n + 1
  BY <1>1, <1>2, FS_AddElement
<1>4. /\ IsFiniteSet(E) /\ E \in SUBSET Nat
      /\ b \in Seq(Nat) /\ Len(b) = n + 1
      /\ \A q \in E : Rank(E, q) \in 1 .. n + 1 /\ b[Rank(E, q)] = label[q]
  <2> HIDE DEF E, n
  <2>1. /\ IsFiniteSet(E) /\ E \in SUBSET Nat
        /\ b \in Seq(Nat) /\ Len(b) = Cardinality(E)
        /\ \A q \in E : Rank(E, q) \in 1 .. Cardinality(E) /\ b[Rank(E, q)] = label[q]
    BY <1>1, PartIs
  <2> HIDE DEF b
  <2> QED
    BY <1>3, <2>1
<1>5. IsFiniteSet(Under) /\ place \in Nat /\ place <= n
  <2>1. Under \in SUBSET D
    OBVIOUS
  <2> HIDE DEF Under
  <2> QED
    BY <1>2, <2>1, FS_Subset, FS_CardinalityType
<1>6. /\ c \in Seq(Nat) /\ Len(c) = n + 1
      /\ \A j \in 1 .. n + 1 : c[j] = IF j < place + 1 THEN a[j] ELSE IF j = place + 1 THEN e ELSE a[j - 1]
  <2>1. place + 1 \in 1 .. Len(a) + 1
    <3> HIDE DEF place, a, n
    <3> QED
      BY <1>2, <1>5
  <2> DEFINE x == place + 1
  <2> HIDE DEF place, a, n, e, x
  <2>3. x \in 1 .. Len(a) + 1 /\ a \in Seq(Nat) /\ e \in Nat
    BY <1>1, <1>2, <2>1 DEF x
  <2>4. IsInserted(InsertAt(a, x, e), a, x, e)
    BY <2>3, InsertAtIs
  <2>2. /\ c \in Seq(Nat) /\ Len(c) = Len(a) + 1
        /\ \A j \in 1 .. Len(a) + 1 :
             c[j] = IF j < place + 1 THEN a[j] ELSE IF j = place + 1 THEN e ELSE a[j - 1]
    BY <2>4 DEF x, IsInserted
  <2> HIDE DEF c
  <2> QED
    BY <1>2, <2>2
<1>7. ASSUME NEW q \in D, q < p
      PROVE  Rank(E, q) = Rank(D, q) /\ Rank(D, q) <= place
  <2>1. {r \in E : r <= q} = {r \in D : r <= q}
    BY <1>1, <1>2, <1>7
  <2>2. {r \in D : r <= q} \in SUBSET Under
    BY <1>1, <1>2, <1>7
  <2>3. Rank(D, q) <= place
    <3> HIDE DEF Under
    <3> QED
      BY <1>5, <2>2, FS_Subset DEF Rank
  <2> QED
    BY <2>1, <2>3 DEF Rank
<1>8. Rank(E, p) = place + 1
  <2>1. {r \in E : r <= p} = Under \cup {p} /\ p \notin Under
    BY <1>1, <1>2
  <2> HIDE DEF Under, E
  <2>2. Cardinality(Under \cup {p}) = place + 1
    BY <1>5, <2>1, FS_AddElement
  <2> QED
    BY <2>1, <2>2 DEF Rank
<1>9. ASSUME NEW q \in D, ~(q < p)
      PROVE  Rank(E, q) = Rank(D, q) + 1 /\ Rank(D, q) > place
  <2> DEFINE U == {r \in D : r <= q}
  <2>1. p < q
    BY <1>1, <1>2, <1>9
  <2>2. /\ {r \in E : r <= q} = U \cup {p} /\ p \notin U
        /\ Under \in SUBSET U /\ q \in U /\ q \notin Under /\ U \in SUBSET D
    BY <1>1, <1>2, <2>1
  <2> HIDE DEF Under, E, U
  <2>3. IsFiniteSet(U)
    BY <1>2, <2>2, FS_Subset
  <2>4. Cardinality(U \cup {p}) = Cardinality(U) + 1 /\ Cardinality(U) \in Nat
    BY <2>2, <2>3, FS_AddElement, FS_CardinalityType
  <2>5. place <= Cardinality(U) /\ place # Cardinality(U)
    BY <2>2, <2>3, FS_Subset
  <2>6. Rank(D, q) = Cardinality(U) /\ Rank(E, q) = Cardinality(U) + 1
    BY <2>2, <2>4 DEF Rank, U
  <2> HIDE DEF place
  <2> QED
    BY <1>5, <2>4, <2>5, <2>6
<1>10. ASSUME NEW j \in 1 .. n + 1 PROVE c[j] = b[j]
  <2>1. PICK q \in E : Rank(E, q) = j
    <3> HIDE DEF E, n
    <3> QED
      BY <1>3, <1>4, RankOnto
  <2>2. b[j] = label[q]
    <3> HIDE DEF E, b
    <3> QED
      BY <1>4, <2>1
  <2>3. CASE q \in D /\ q < p
    <3>1. j < place + 1 /\ Rank(D, q) = j
      <4>1. Rank(D, q) = j /\ j <= place
        BY <1>7, <2>1, <2>3
      <4> HIDE DEF place, E, n
      <4> QED
        BY <1>2, <1>5, <4>1
    <3>2. c[j] = a[j] /\ a[j] = label[q]
      <4> HIDE DEF place, a, c, E, n
      <4> QED
        BY <1>2, <1>6, <2>3, <3>1
    <3> QED
      BY <2>2, <3>2
  <2>4. CASE q = p
    <3>1. j = place + 1
      BY <1>8, <2>1, <2>4
    <3>2. c[j] = e
      <4>1. ~(place + 1 < place + 1)
        <5> HIDE DEF place
        <5> QED
          BY <1>5
      <4> HIDE DEF c, a, e, place
      <4> QED
        BY <1>6, <3>1, <4>1
    <3> QED
      BY <2>2, <2>4, <3>2
  <2>5. CASE q \in D /\ ~(q < p)
    <3>1. Rank(D, q) \in Nat /\ j = Rank(D, q) + 1 /\ Rank(D, q) > place
      <4>1. j = Rank(D, q) + 1 /\ Rank(D, q) > place
        BY <1>9, <2>1, <2>5
      <4>2. Rank(D, q) \in 1 .. n
        BY <1>2, <2>5
      <4> HIDE DEF place, n
      <4> QED
        BY <1>2, <4>1, <4>2
    <3>2. ~(j < place + 1) /\ j # place + 1 /\ j - 1 = Rank(D, q)
      <4> HIDE DEF place, n
      <4> QED
        BY <1>5, <3>1
    <3>3. c[j] = a[j - 1]
      <4> HIDE DEF c, a, place, n
      <4> QED
        BY <1>6, <3>2
    <3>4. a[j - 1] = label[q]
      BY <1>2, <2>5, <3>2
    <3> QED
      BY <2>2, <3>3, <3>4
  <2> QED
    BY <2>3, <2>4, <2>5
<1>11. c = b
  <2> HIDE DEF c, b, n
  <2>1. Len(c) = Len(b) /\ \A j \in 1 .. Len(c) : c[j] = b[j]
    BY <1>4, <1>6, <1>10
  <2> QED
    BY <1>4, <1>6, <2>1, SeqEqual
<1>12. place \in 0 .. n
  <2> HIDE DEF place, n
  <2> QED
    BY <1>2, <1>5
<1> QED
  BY <1>3, <1>11, <1>12

-----------------------------------------------------------------------------
(* The encoder: what it has written is sound after every number.           *)

\* What URL parsing can be given to encode, as far as it matters here.
Point(c) == c \in Nat /\ c < 1114112
Encodable(label) ==
  /\ label \in Seq(Nat) /\ Len(label) \in 1 .. 63
  /\ \A p \in DOMAIN label : Point(label[p])

Before(label, p, q) == label[p] < label[q] \/ (label[p] = label[q] /\ p < q)

\* There is a next position to put in, and it is before all the others.
LEMMA LowestIs ==
  ASSUME NEW label \in Seq(Nat), NEW done \in SUBSET (DOMAIN label), done # DOMAIN label
  PROVE  /\ Lowest(label, done) \in DOMAIN label \ done
         /\ \A q \in DOMAIN label \ done : q = Lowest(label, done) \/ Before(label, Lowest(label, done), q)
<1> DEFINE Q == DOMAIN label \ done
           Points == {label[q] : q \in Q}
<1>1. Q # {} /\ Q \subseteq Nat /\ \A q \in Q : label[q] \in Nat
  <2>1. Q # {}
    OBVIOUS
  <2>2. DOMAIN label \subseteq Nat /\ \A q \in DOMAIN label : label[q] \in Nat
    OBVIOUS
  <2> QED
    BY <2>1, <2>2
<1> HIDE DEF Q
<1>2. PICK x \in Points : \A y \in Points : x <= y
  <2>1. Points # {} /\ Points \subseteq Nat
    BY <1>1
  <2> HIDE DEF Points
  <2> QED
    BY <2>1, LeastNat
<1> DEFINE Least0 == {q \in Q : label[q] = x}
<1>3. PICK p \in Least0 : \A q \in Least0 : p <= q
  <2>1. Least0 # {} /\ Least0 \subseteq Nat
    BY <1>1, <1>2
  <2> HIDE DEF Least0
  <2> QED
    BY <2>1, LeastNat
<1>4. ASSUME NEW q \in Q PROVE q = p \/ Before(label, p, q)
  <2>1. p \in Q /\ label[p] = x /\ x <= label[q] /\ x \in Nat /\ label[q] \in Nat /\ p \in Nat /\ q \in Nat
    BY <1>1, <1>2, <1>3
  <2>2. CASE label[q] = x
    <3>1. p <= q
      BY <1>3, <2>2
    <3> QED
      BY <2>1, <2>2, <3>1 DEF Before
  <2>3. CASE label[q] # x
    BY <2>1, <2>3 DEF Before
  <2> QED
    BY <2>2, <2>3
<1> DEFINE Is(r) == r \in Q /\ \A q \in Q : q = r \/ Before(label, r, q)
<1>5. Is(p)
  BY <1>3, <1>4
<1>6. Lowest(label, done) = CHOOSE r \in Q : \A q \in Q : q = r \/ Before(label, r, q)
  BY DEF Lowest, Q, Before
<1>7. Is(Lowest(label, done))
  BY <1>5, <1>6
<1> QED
  BY <1>7 DEF Q

\* The encoder, number by number.
FirstOf(label) ==
  [text |-> IF Basic(label) = {} THEN <<>> ELSE Append(Part(label, Basic(label)), Hyphen),
   done |-> Basic(label), n |-> 128, i |-> 0, bias |-> 72]
Place(s, p) == Cardinality({q \in s.done : q < p})
Distance(label, s, p) == (label[p] - s.n) * (Cardinality(s.done) + 1) + Place(s, p) - s.i
Further(label, s, first) ==
  LET p == Lowest(label, s.done)
      delta == Distance(label, s, p)
  IN [text |-> s.text \o Digits(delta, s.bias), done |-> s.done \cup {p}, n |-> label[p],
      i |-> Place(s, p) + 1, bias |-> Bias(delta, Cardinality(s.done) + 1, first)]
NumberOf(f, label, j) == IF j = 0 THEN FirstOf(label) ELSE Further(label, f[j - 1], j = 1)

\* The encoder, one number at a time.
LEMMA NumbersSteps ==
  ASSUME NEW label, NEW N \in Nat, N = Cardinality(DOMAIN label \ Basic(label))
  PROVE  \A j \in 0 .. N : Numbers(label)[j] = NumberOf(Numbers(label), label, j)
<1> DEFINE Upto(f, n) == \A j \in 0 .. n : f[j] = NumberOf(f, label, j)
           Good == {n \in Nat : \E f : Upto(f, n)}
<1>1. 0 \in Good
  <2> DEFINE f == [j \in {0} |-> FirstOf(label)]
  <2>1. f[0] = FirstOf(label)
    OBVIOUS
  <2>2. Upto(f, 0)
    BY <2>1 DEF NumberOf
  <2> HIDE DEF f, Upto
  <2> QED
    BY <2>2
<1>2. ASSUME NEW n \in Nat, n \in Good PROVE n + 1 \in Good
  <2>1. PICK f : Upto(f, n)
    BY <1>2
  <2> DEFINE h == [j \in 0 .. n + 1 |-> IF j = n + 1 THEN Further(label, f[n], n + 1 = 1) ELSE f[j]]
  <2>2. h[n + 1] = Further(label, f[n], n + 1 = 1) /\ \A j \in 0 .. n : h[j] = f[j]
    OBVIOUS
  <2> HIDE DEF h
  <2>3. ASSUME NEW j \in 0 .. n + 1 PROVE h[j] = NumberOf(h, label, j)
    <3>1. CASE j = n + 1
      <4>1. j # 0 /\ j - 1 = n /\ n \in 0 .. n
        BY <3>1
      <4> QED
        BY <2>2, <3>1, <4>1 DEF NumberOf
    <3>2. CASE j \in 0 .. n
      <4>1. h[j] = f[j] /\ f[j] = NumberOf(f, label, j)
        BY <2>1, <2>2, <3>2
      <4>2. CASE j = 0
        BY <4>1, <4>2 DEF NumberOf
      <4>3. CASE j # 0
        <5>1. j - 1 \in 0 .. n
          BY <3>2, <4>3
        <5>2. h[j - 1] = f[j - 1]
          BY <2>2, <5>1
        <5> QED
          BY <4>1, <4>3, <5>2 DEF NumberOf
      <4> QED
        BY <4>2, <4>3
    <3>3. j = n + 1 \/ j \in 0 .. n
      OBVIOUS
    <3> QED
      BY <3>1, <3>2, <3>3
  <2>4. Upto(h, n + 1)
    BY <2>3
  <2> HIDE DEF Upto
  <2> QED
    BY <2>4
<1>3. PICK f : Upto(f, N)
  <2> HIDE DEF Good
  <2>1. Nat \subseteq Good
    BY <1>1, <1>2, Induction
  <2> QED
    BY <2>1 DEF Good
<1> DEFINE Def(g) == g = [j \in 0 .. N |-> NumberOf(g, label, j)]
           F == CHOOSE g : Def(g)
           k == [j \in 0 .. N |-> f[j]]
<1>4. Def(k)
  <2>1. ASSUME NEW j \in 0 .. N PROVE f[j] = NumberOf(k, label, j)
    <3>1. f[j] = NumberOf(f, label, j)
      BY <1>3
    <3>2. CASE j = 0
      BY <3>1, <3>2 DEF NumberOf
    <3>3. CASE j # 0
      <4>1. j - 1 \in 0 .. N
        BY <3>3
      <4>2. k[j - 1] = f[j - 1]
        BY <4>1
      <4> HIDE DEF k
      <4> QED
        BY <3>1, <3>3, <4>2 DEF NumberOf
    <3> QED
      BY <3>2, <3>3
  <2>2. [j \in 0 .. N |-> f[j]] = [j \in 0 .. N |-> NumberOf(k, label, j)]
    <3> HIDE DEF k
    <3> QED
      BY <2>1
  <2> QED
    BY <2>2
<1>5. Def(F)
  <2> HIDE DEF Def, k
  <2> QED
    BY <1>4
<1>6. Numbers(label) = F
  BY DEF Numbers, NumberOf, FirstOf, Further, Distance, Place
<1> HIDE DEF F
<1> QED
  BY <1>5, <1>6

\* The arithmetic of one distance.
Counted(m, a, out, place) == m = a * out + place
Splits(m, out, a, place) == m \div out = a /\ m % out = place

\* The decoder finds the code point and the place by dividing what the encoder
\* has multiplied; the product stays small enough for adapt.
LEMMA DistanceArithmetic ==
  ASSUME NEW a, Point(a), NEW out \in 1 .. 64, NEW place \in 0 .. out - 1,
         NEW i \in 0 .. out - 1, a = 0 => i <= place, NEW m, Counted(m, a, out, place)
  PROVE  /\ m - i \in Nat /\ Near(m - i) /\ m \in Nat /\ Splits(m, out, a, place)
<1> DEFINE n == a * out
<1>0. a \in Nat
  BY DEF Point
<1>1. n \in Nat /\ n <= a * 64
  BY <1>0
<1>2. a # 0 => n >= out
  BY <1>0
<1>3. a = 0 => n = 0
  BY <1>0
<1>4. (n + place) \div out = a /\ (n + place) % out = place
  BY <1>0
<1> HIDE DEF n
<1>5. m = n + place
  BY DEF n, Counted
<1>6. m - i \in Nat /\ Near(m - i) /\ m \in Nat
  BY <1>0, <1>1, <1>2, <1>3, <1>5 DEF Near, Point
<1> QED
  BY <1>4, <1>5, <1>6 DEF Splits

\* Where the encoder is after j numbers: what is in, and that nothing it has
\* passed is left.
Sound(label, s, j) ==
  /\ s.done \in SUBSET (DOMAIN label) /\ Basic(label) \subseteq s.done
  /\ Cardinality(s.done) = Cardinality(Basic(label)) + j
  /\ s.n \in Nat /\ s.i \in Nat /\ s.bias \in Nat
  /\ s.i <= Cardinality(s.done) /\ (s.i = 0 <=> j = 0)
  /\ \A q \in DOMAIN label \ s.done : s.n <= label[q] /\ (s.n = label[q] => s.i <= Place(s, q))
  /\ \E rest \in Seq(Figures) : s.text = FirstOf(label).text \o rest

\* The text after the code points below 128: they and the last hyphen, if any.
LEMMA FirstText ==
  ASSUME NEW label, Encodable(label)
  PROVE  /\ Basic(label) \in SUBSET (DOMAIN label)
         /\ Part(label, Basic(label)) \in Seq(Nat)
         /\ Len(Part(label, Basic(label))) = Cardinality(Basic(label))
         /\ FirstOf(label).text \in Seq(Nat)
         /\ \/ Basic(label) = {} /\ FirstOf(label).text = <<>>
            \/ /\ Basic(label) # {} /\ Cardinality(Basic(label)) \in Nat \ {0}
               /\ FirstOf(label).text = Append(Part(label, Basic(label)), Hyphen)
<1> DEFINE B == Basic(label)
           a == Part(label, B)
<1>1. label \in Seq(Nat) /\ B \in SUBSET (DOMAIN label)
  BY DEF Encodable, Basic
<1> HIDE DEF B
<1>2. a \in Seq(Nat) /\ IsFiniteSet(B) /\ Cardinality(B) \in Nat /\ Len(a) = Cardinality(B)
  BY <1>1, PartIs
<1>3. FirstOf(label).text = IF B = {} THEN <<>> ELSE Append(a, Hyphen)
  BY DEF FirstOf, B
<1>4. <<>> \in Seq(Nat) /\ Append(a, Hyphen) \in Seq(Nat)
  <2> HIDE DEF a
  <2>1. Hyphen \in Nat
    BY DEF Hyphen
  <2> QED
    BY <1>2, <2>1
<1>5. B # {} => Cardinality(B) # 0
  BY <1>2, FS_EmptySet
<1> QED
  BY <1>1, <1>2, <1>3, <1>4, <1>5 DEF B

\* The encoder is sound before the first number.
LEMMA FirstSound ==
  ASSUME NEW label, Encodable(label)
  PROVE  Sound(label, FirstOf(label), 0)
<1> DEFINE s == FirstOf(label)
<1>1. label \in Seq(Nat) /\ Basic(label) \in SUBSET (DOMAIN label)
  BY FirstText DEF Encodable
<1>2. Cardinality(Basic(label)) \in Nat
  BY <1>1, PartIs
<1>3. s.done = Basic(label) /\ s.n = 128 /\ s.i = 0 /\ s.bias = 72
  BY DEF FirstOf
<1>4. ASSUME NEW q \in DOMAIN label \ s.done
      PROVE  s.n <= label[q] /\ (s.n = label[q] => s.i <= Place(s, q))
  <2>1. label[q] \in Nat /\ ~(label[q] < 128)
    BY <1>1, <1>3, <1>4 DEF Basic, IsBasic
  <2>2. Place(s, q) \in Nat
    <3> DEFINE D == {r \in s.done : r < q}
    <3>1. D \in SUBSET (DOMAIN label)
      BY <1>1, <1>3
    <3> HIDE DEF D
    <3>2. Cardinality(D) \in Nat
      BY <1>1, <3>1, PartIs
    <3> QED
      BY <3>2 DEF D, Place
  <2> HIDE DEF s
  <2> QED
    BY <1>3, <2>1, <2>2
<1>5. \E rest \in Seq(Figures) : s.text = s.text \o rest
  <2>1. s.text \in Seq(Nat)
    BY FirstText
  <2> HIDE DEF s
  <2>2. s.text = s.text \o <<>> /\ <<>> \in Seq(Figures)
    BY <2>1, ConcatEmptySeq
  <2> QED
    BY <2>2
<1> HIDE DEF s
<1>6. s.text = FirstOf(label).text
  BY DEF s
<1>7. Cardinality(s.done) = Cardinality(Basic(label)) + 0 /\ s.i <= Cardinality(s.done)
  BY <1>2, <1>3
<1>8. s.n \in Nat /\ s.i \in Nat /\ s.bias \in Nat /\ (s.i = 0 <=> 0 = 0)
  BY <1>3
<1>9. s.done \in SUBSET (DOMAIN label) /\ Basic(label) \subseteq s.done
  BY <1>1, <1>3
<1>10. Sound(label, s, 0)
  BY <1>4, <1>5, <1>6, <1>7, <1>8, <1>9 DEF Sound
<1> QED
  BY <1>10 DEF s

\* The next code point and its distance.
AtStep(label, s, p, a, out, place, delta) ==
  /\ p = Lowest(label, s.done) /\ a = label[p] - s.n /\ out = Cardinality(s.done) + 1
  /\ place = Place(s, p) /\ delta = Distance(label, s, p)

\* What one number of a sound encoder says.
LEMMA Ahead ==
  ASSUME NEW label, Encodable(label), NEW j \in Nat, NEW s, Sound(label, s, j), s.done # DOMAIN label,
         NEW p, NEW a, NEW out, NEW place, NEW delta, AtStep(label, s, p, a, out, place, delta)
  PROVE  /\ p \in DOMAIN label \ s.done
         /\ label[p] \in Nat /\ s.n \in Nat /\ s.i \in Nat /\ s.n + a = label[p]
         /\ a \in Nat /\ out \in 1 .. 64 /\ place \in 0 .. out - 1
         /\ delta \in Nat /\ Near(delta) /\ Splits(s.i + delta, out, a, place)
<1> DEFINE m == a * out + place
<1>0. /\ p = Lowest(label, s.done) /\ a = label[p] - s.n /\ out = Cardinality(s.done) + 1
      /\ place = Place(s, p) /\ delta = Distance(label, s, p) /\ Counted(m, a, out, place)
  BY DEF AtStep, Counted
<1> HIDE DEF m
<1>1. label \in Seq(Nat) /\ Len(label) \in 1 .. 63 /\ s.done \in SUBSET (DOMAIN label)
  BY DEF Encodable, Sound
<1>2. p \in DOMAIN label \ s.done
  BY <1>0, <1>1, LowestIs
<1>3. Point(label[p])
  BY <1>1, <1>2 DEF Encodable
<1>4. s.n \in Nat /\ s.i \in Nat /\ s.i <= Cardinality(s.done)
  BY DEF Sound
<1>5. s.n <= label[p] /\ (s.n = label[p] => s.i <= place)
  BY <1>0, <1>2 DEF Sound
<1>6. Cardinality(s.done) \in Nat /\ Cardinality(s.done) <= Len(label)
  BY <1>1, PartIs
<1>7. place \in 0 .. Cardinality(s.done)
  BY <1>0, <1>1, <1>2, PartInsert DEF Place
<1>8. Point(a) /\ (a = 0 => s.i <= place) /\ s.n + a = label[p]
  BY <1>0, <1>3, <1>4, <1>5 DEF Point
<1>9. out \in 1 .. 64 /\ place \in 0 .. out - 1 /\ s.i \in 0 .. out - 1
  <2> DEFINE n == Cardinality(s.done)
             i == s.i
             l == Len(label)
  <2>1. /\ n \in Nat /\ n <= l /\ l \in 1 .. 63 /\ out = n + 1
        /\ place \in 0 .. n /\ i \in Nat /\ i <= n
    BY <1>0, <1>1, <1>4, <1>6, <1>7
  <2> HIDE DEF n, i, l
  <2>2. out \in 1 .. 64 /\ place \in 0 .. out - 1 /\ i \in 0 .. out - 1
    BY <2>1
  <2> QED
    BY <2>2 DEF i
<1>10. delta = m - s.i
  <2> DEFINE n == a * out
             i == s.i
  <2>1. n \in Int /\ place \in Int /\ i \in Int
    <3>1. a \in Nat /\ out \in Int
      BY <1>8, <1>9 DEF Point
    <3> QED
      BY <1>4, <1>9, <3>1
  <2>2. delta = n + (place - i)
    BY <1>0 DEF Distance
  <2>3. m = n + place
    BY DEF m
  <2> HIDE DEF n, i
  <2>4. delta = m - i
    BY <2>1, <2>2, <2>3
  <2> QED
    BY <2>4 DEF i
<1>11. m - s.i \in Nat /\ Near(m - s.i) /\ m \in Nat /\ Splits(m, out, a, place)
  <2> DEFINE i == s.i
  <2>1. i \in 0 .. out - 1 /\ (a = 0 => i <= place)
    BY <1>8, <1>9
  <2> HIDE DEF i
  <2>2. m - i \in Nat /\ Near(m - i) /\ m \in Nat /\ Splits(m, out, a, place)
    BY <1>0, <1>8, <1>9, <2>1, DistanceArithmetic
  <2> QED
    BY <2>2 DEF i
<1>12. label[p] \in Nat /\ a \in Nat
  BY <1>3, <1>8 DEF Point
<1>13. m = s.i + delta
  BY <1>4, <1>10, <1>11
<1> QED
  BY <1>2, <1>4, <1>8, <1>9, <1>10, <1>11, <1>12, <1>13

\* Concatenation is associative.
LEMMA Regroup ==
  ASSUME NEW s \in Seq(Nat), NEW t \in Seq(Nat), NEW u \in Seq(Nat)
  PROVE  (s \o t) \o u = s \o (t \o u)
BY ConcatAssociative, SMTT(60)

\* The encoder is sound after one number more.
LEMMA FurtherSound ==
  ASSUME NEW label, Encodable(label), NEW j \in Nat, NEW s, Sound(label, s, j), s.done # DOMAIN label
  PROVE  Sound(label, Further(label, s, j = 0), j + 1)
<1> DEFINE t == Further(label, s, j = 0)
<1>0. PICK p, a, out, place, delta : AtStep(label, s, p, a, out, place, delta)
  BY DEF AtStep
<1>1. /\ p \in DOMAIN label \ s.done
      /\ label[p] \in Nat /\ s.n \in Nat /\ s.i \in Nat
      /\ out \in 1 .. 64 /\ place \in 0 .. out - 1
      /\ delta \in Nat /\ Near(delta)
  BY <1>0, Ahead
<1>2. /\ t.done = s.done \cup {p} /\ t.n = label[p] /\ t.i = place + 1
      /\ t.bias = Bias(delta, out, j = 0) /\ t.text = s.text \o Digits(delta, s.bias)
      /\ out = Cardinality(s.done) + 1 /\ place = Place(s, p)
  BY <1>0 DEF Further, AtStep
<1>3. /\ label \in Seq(Nat) /\ s.done \in SUBSET (DOMAIN label) /\ Basic(label) \subseteq s.done
      /\ Cardinality(s.done) = Cardinality(Basic(label)) + j /\ s.bias \in Nat
  BY DEF Encodable, Sound
<1>4. \A q \in DOMAIN label \ s.done : q = p \/ Before(label, p, q)
  <2>1. p = Lowest(label, s.done)
    BY <1>0 DEF AtStep
  <2> QED
    BY <1>3, <2>1, LowestIs
<1>5. Cardinality(s.done) \in Nat /\ IsFiniteSet(s.done) /\ Cardinality(Basic(label)) \in Nat
  <2>1. Basic(label) \in SUBSET (DOMAIN label)
    BY DEF Basic
  <2> QED
    BY <1>3, <2>1, PartIs
<1> HIDE DEF t
<1>6. Cardinality(s.done \cup {p}) = Cardinality(s.done) + 1
  BY <1>1, <1>5, FS_AddElement
<1>7. t.bias \in Nat
  <2>1. out \in Nat \ {0} /\ (j = 0) \in BOOLEAN
    BY <1>1
  <2> QED
    BY <1>1, <1>2, <2>1, AdaptIsBias
<1>8. /\ t.done \in SUBSET (DOMAIN label) /\ Basic(label) \subseteq t.done
      /\ Cardinality(t.done) = Cardinality(Basic(label)) + (j + 1)
      /\ t.n \in Nat /\ t.i \in Nat
      /\ t.i <= Cardinality(t.done) /\ (t.i = 0 <=> j + 1 = 0)
  <2>1. t.done \in SUBSET (DOMAIN label) /\ Basic(label) \subseteq t.done /\ t.n \in Nat
    BY <1>1, <1>2, <1>3
  <2>2. Cardinality(t.done) = Cardinality(Basic(label)) + (j + 1)
    BY <1>2, <1>3, <1>5, <1>6
  <2>3. t.i \in Nat /\ t.i <= Cardinality(t.done) /\ t.i # 0 /\ j + 1 # 0
    BY <1>1, <1>2, <1>5, <1>6
  <2> QED
    BY <2>1, <2>2, <2>3
<1>9. ASSUME NEW q \in DOMAIN label \ t.done
      PROVE  t.n <= label[q] /\ (t.n = label[q] => t.i <= Place(t, q))
  <2>1. q \in DOMAIN label \ s.done /\ q # p /\ Before(label, p, q)
    BY <1>2, <1>4, <1>9
  <2>2. label[q] \in Nat /\ q \in Nat /\ p \in Nat
    BY <1>1, <1>3, <2>1
  <2>3. t.n <= label[q]
    BY <1>1, <1>2, <2>1, <2>2 DEF Before
  <2>4. ASSUME t.n = label[q] PROVE t.i <= Place(t, q)
    <3>1. p < q
      BY <1>1, <1>2, <2>1, <2>2, <2>4 DEF Before
    <3> DEFINE U == {r \in s.done : r < p}
               W == {r \in t.done : r < q}
    <3>2. s.done \subseteq Nat
      BY <1>3
    <3>3. U \cup {p} \in SUBSET W /\ p \notin U /\ U \in SUBSET s.done
      <4>1. \A r \in s.done : r < p => r < q
        BY <2>2, <3>1, <3>2
      <4>2. ~(p < p)
        BY <2>2
      <4> QED
        BY <1>2, <3>1, <4>1, <4>2
    <3>4. W \in SUBSET (DOMAIN label)
      BY <1>8
    <3> HIDE DEF U, W
    <3>5. IsFiniteSet(U) /\ IsFiniteSet(W) /\ Cardinality(U) \in Nat
      BY <1>3, <1>5, <3>3, <3>4, FS_Subset, FS_CardinalityType, PartIs
    <3>6. Cardinality(U \cup {p}) = Cardinality(U) + 1
      BY <3>3, <3>5, FS_AddElement
    <3>7. Cardinality(U \cup {p}) <= Cardinality(W)
      BY <3>3, <3>5, FS_Subset
    <3>8. place = Cardinality(U) /\ Place(t, q) = Cardinality(W)
      BY <1>2 DEF Place, U, W
    <3> QED
      BY <1>2, <3>6, <3>7, <3>8
  <2> QED
    BY <2>3, <2>4
<1>10. \E rest \in Seq(Figures) : t.text = FirstOf(label).text \o rest
  <2> DEFINE d == Digits(delta, s.bias)
             e == FirstOf(label).text
  <2>1. d \in Seq(Figures)
    <3>1. PICK W \in [WriteStates -> Seq(Figures)] :
                 \A x \in Nat : Digits(x, s.bias) = W[[number |-> x, k |-> 36]]
      BY <1>3, WriteSteps
    <3>2. [number |-> delta, k |-> 36] \in WriteStates
      BY <1>1 DEF WriteStates
    <3> QED
      BY <1>1, <3>1, <3>2
  <2> HIDE DEF d
  <2>2. PICK rest \in Seq(Figures) : s.text = e \o rest
    BY DEF Sound
  <2>3. e \in Seq(Nat)
    BY FirstText
  <2>4. Figures \subseteq Nat
    BY DEF Figures
  <2> HIDE DEF e
  <2>5. rest \in Seq(Nat) /\ d \in Seq(Nat)
    BY <2>1, <2>4, WiderSeq
  <2>6. (e \o rest) \o d = e \o (rest \o d)
    BY <2>3, <2>5, Regroup
  <2>7. rest \o d \in Seq(Figures)
    BY <2>1, ConcatProperties
  <2>8. t.text = e \o (rest \o d)
    BY <1>2, <2>2, <2>6 DEF d
  <2> QED
    BY <2>7, <2>8 DEF e
<1>11. s.bias \in Nat
  BY <1>3
<1> QED
  BY <1>7, <1>8, <1>9, <1>10 DEF Sound, t

-----------------------------------------------------------------------------
(* The decoder undoes the encoder.                                         *)

\* The encoder stays sound and ends with every code point in.
Encodes(label, N) ==
  /\ N \in Nat /\ EncodePunycode(label) = Numbers(label)[N].text
  /\ Numbers(label)[0] = FirstOf(label)
  /\ \A j \in 0 .. N : Sound(label, Numbers(label)[j], j)
  /\ \A j \in 0 .. N - 1 : /\ Numbers(label)[j].done # DOMAIN label
                           /\ Numbers(label)[j + 1] = Further(label, Numbers(label)[j], j = 0)
  /\ Numbers(label)[N].done = DOMAIN label

\* The encoder is sound after every number, and after the last all are in.
LEMMA EncodeStates ==
  ASSUME NEW label, Encodable(label)
  PROVE  Encodes(label, Cardinality(DOMAIN label \ Basic(label)))
<1> DEFINE P == DOMAIN label
           B == Basic(label)
           N == Cardinality(P \ B)
           F == Numbers(label)
<1>1. label \in Seq(Nat) /\ P \in SUBSET P /\ B \in SUBSET P
  BY DEF Encodable, Basic
<1>2. IsFiniteSet(P) /\ Cardinality(P) \in Nat
  <2> HIDE DEF P
  <2> QED
    BY <1>1, PartIs DEF P
<1>3. N \in Nat /\ Cardinality(B) \in Nat /\ Cardinality(P) = Cardinality(B) + N
  <2> HIDE DEF P, B
  <2>1. P \cap B = B /\ P \ B \in SUBSET P
    BY <1>1
  <2>2. IsFiniteSet(P \ B) /\ Cardinality(P \ B) = Cardinality(P) - Cardinality(P \cap B)
    BY <1>2, FS_Difference
  <2>3. N \in Nat /\ Cardinality(B) \in Nat
    BY <1>1, <1>2, <2>2, FS_Subset, FS_CardinalityType
  <2> QED
    BY <1>2, <2>1, <2>2, <2>3
<1> HIDE DEF N, F
<1>4. \A j \in 0 .. N : F[j] = NumberOf(F, label, j)
  BY <1>3, NumbersSteps DEF N, F
<1>5. F[0] = FirstOf(label)
  <2>1. 0 \in 0 .. N
    BY <1>3
  <2> QED
    BY <1>4, <2>1 DEF NumberOf
<1>6. \A j \in 0 .. N - 1 : F[j + 1] = Further(label, F[j], j = 0)
  <2> TAKE j \in 0 .. N - 1
  <2>1. j + 1 \in 0 .. N /\ j + 1 # 0 /\ (j + 1) - 1 = j /\ ((j + 1 = 1) <=> (j = 0))
    BY <1>3
  <2>2. (j + 1 = 1) = (j = 0)
    BY <2>1
  <2>3. F[j + 1] = Further(label, F[(j + 1) - 1], j + 1 = 1)
    BY <1>4, <2>1 DEF NumberOf
  <2> QED
    BY <2>1, <2>2, <2>3
<1>7. ASSUME NEW j \in 0 .. N - 1, Sound(label, F[j], j) PROVE F[j].done # P
  <2>1. Cardinality(F[j].done) = Cardinality(B) + j
    BY <1>7 DEF Sound
  <2>2. Cardinality(F[j].done) # Cardinality(P)
    BY <1>3, <2>1
  <2> QED
    BY <2>2
<1>8. \A j \in 0 .. N : Sound(label, F[j], j)
  <2> DEFINE Good == {j \in Nat : j <= N => Sound(label, F[j], j)}
  <2>1. 0 \in Good
    BY <1>5, FirstSound
  <2>2. ASSUME NEW j \in Nat, j \in Good PROVE j + 1 \in Good
    <3>1. CASE j + 1 <= N
      <4>1. j \in 0 .. N - 1 /\ j <= N
        BY <1>3, <3>1
      <4>2. Sound(label, F[j], j) /\ F[j].done # P
        BY <1>7, <2>2, <4>1
      <4>3. Sound(label, Further(label, F[j], j = 0), j + 1)
        BY <4>2, FurtherSound
      <4> QED
        BY <1>6, <4>1, <4>3
    <3>2. CASE ~(j + 1 <= N)
      BY <3>2
    <3> QED
      BY <3>1, <3>2
  <2>3. Nat \subseteq Good
    <3> HIDE DEF Good
    <3> QED
      BY <2>1, <2>2, Induction
  <2> QED
    BY <2>3
<1>9. F[N].done = P
  <2>1. N \in 0 .. N
    BY <1>3
  <2>2. Sound(label, F[N], N)
    BY <1>8, <2>1
  <2>3. F[N].done \in SUBSET P /\ Cardinality(F[N].done) = Cardinality(B) + N
    BY <2>2 DEF Sound
  <2> HIDE DEF P, B
  <2> QED
    BY <1>2, <1>3, <2>3, FS_Subset
<1>10. EncodePunycode(label) = F[N].text
  BY DEF EncodePunycode, N, F
<1>11. \A j \in 0 .. N - 1 : F[j].done # P
  <2>1. \A j \in 0 .. N - 1 : j \in 0 .. N
    BY <1>3
  <2> QED
    BY <1>7, <1>8, <2>1
<1>12. Encodes(label, N)
  BY <1>3, <1>5, <1>6, <1>8, <1>9, <1>10, <1>11 DEF Encodes, F
<1> QED
  BY <1>12 DEF N

\* The text e begins with t.
Opens(t, e) == Len(t) <= Len(e) /\ \A x \in 1 .. Len(t) : e[x] = t[x]

\* A text that opens with two parts opens with the first and has the second next.
LEMMA OpensSplit ==
  ASSUME NEW e \in Seq(Nat), NEW t \in Seq(Nat), NEW d \in Seq(Nat), Opens(t \o d, e)
  PROVE  Opens(t, e) /\ Appears(d, e, Len(t) + 1)
<1> DEFINE c == t \o d
<1>1. Len(t) \in Nat /\ Len(d) \in Nat /\ Len(e) \in Nat
  OBVIOUS
<1>2. /\ Len(c) = Len(t) + Len(d)
      /\ \A i \in 1 .. Len(t) + Len(d) : c[i] = IF i <= Len(t) THEN t[i] ELSE d[i - Len(t)]
  BY ConcatProperties
<1> HIDE DEF c
<1>3. Len(t) + Len(d) <= Len(e) /\ \A x \in 1 .. Len(t) + Len(d) : e[x] = c[x]
  BY <1>2 DEF Opens, c
<1>4. ASSUME NEW x \in 1 .. Len(t) PROVE e[x] = t[x]
  <2>1. x \in 1 .. Len(t) + Len(d) /\ x <= Len(t)
    BY <1>1
  <2>2. e[x] = c[x] /\ c[x] = IF x <= Len(t) THEN t[x] ELSE d[x - Len(t)]
    BY <1>2, <1>3, <2>1
  <2> QED
    BY <2>1, <2>2
<1>5. ASSUME NEW i \in 1 .. Len(d) PROVE e[Len(t) + 1 + i - 1] = d[i]
  <2> DEFINE x == Len(t) + i
  <2>1. x \in 1 .. Len(t) + Len(d) /\ ~(x <= Len(t)) /\ x - Len(t) = i /\ Len(t) + 1 + i - 1 = x
    BY <1>1
  <2> HIDE DEF x
  <2> QED
    BY <1>2, <1>3, <2>1
<1>6. Len(t) <= Len(e) /\ Len(t) + 1 + Len(d) <= Len(e) + 1
  BY <1>1, <1>3
<1> QED
  BY <1>4, <1>5, <1>6 DEF Opens, Appears

\* Where the decoder is when the encoder is in s.
Decoding(label, s) ==
  [index |-> Len(s.text) + 1, output |-> Part(label, s.done), n |-> s.n, i |-> s.i, bias |-> s.bias]

\* What a sound encoder has written, and where it leaves the decoder, are well typed.
LEMMA SoundText ==
  ASSUME NEW label, Encodable(label), NEW j, NEW s, Sound(label, s, j)
  PROVE  /\ s.text \in Seq(Nat) /\ Len(s.text) \in Nat
         /\ Part(label, s.done) \in Seq(Nat) /\ Len(Part(label, s.done)) = Cardinality(s.done)
         /\ Decoding(label, s) \in InsertStates
<1>1. label \in Seq(Nat) /\ s.done \in SUBSET (DOMAIN label)
  BY DEF Encodable, Sound
<1>2. Part(label, s.done) \in Seq(Nat) /\ Len(Part(label, s.done)) = Cardinality(s.done)
  BY <1>1, PartIs
<1>3. s.text \in Seq(Nat)
  <2>1. PICK rest \in Seq(Figures) : s.text = FirstOf(label).text \o rest
    BY DEF Sound
  <2>2. Figures \subseteq Nat /\ FirstOf(label).text \in Seq(Nat)
    BY FirstText DEF Figures
  <2>3. rest \in Seq(Nat)
    BY <2>2, WiderSeq
  <2> QED
    BY <2>1, <2>2, <2>3, ConcatProperties
<1>4. Len(s.text) \in Nat /\ Len(s.text) + 1 \in Nat \ {0}
  BY <1>3
<1>5. s.n \in Nat /\ s.i \in Nat /\ s.bias \in Nat
  BY DEF Sound
<1> QED
  BY <1>2, <1>3, <1>4, <1>5 DEF Decoding, InsertStates

\* One number: the decoder follows the encoder.
LEMMA Follows ==
  ASSUME NEW label, Encodable(label), NEW j \in Nat, NEW s, Sound(label, s, j), s.done # DOMAIN label,
         NEW t, t = Further(label, s, j = 0), NEW e \in Seq(Nat), Opens(t.text, e)
  PROVE  /\ Opens(s.text, e)
         /\ Insertions(e)[Decoding(label, s)] = Insertions(e)[Decoding(label, t)]
<1>0. PICK p, a, out, place, delta : AtStep(label, s, p, a, out, place, delta)
  BY DEF AtStep
<1> DEFINE d == Digits(delta, s.bias)
           first == Len(s.text) + 1
           x == Decoding(label, s)
           F == Insertions(e)
<1>1. /\ p \in DOMAIN label \ s.done
      /\ label[p] \in Nat /\ s.n \in Nat /\ s.i \in Nat /\ s.n + a = label[p]
      /\ a \in Nat /\ out \in 1 .. 64 /\ place \in 0 .. out - 1
      /\ delta \in Nat /\ Near(delta)
  BY <1>0, Ahead
<1>10. Splits(s.i + delta, out, a, place)
  BY <1>0, Ahead
<1>2. /\ t.done = s.done \cup {p} /\ t.n = label[p] /\ t.i = place + 1
      /\ t.bias = Bias(delta, out, j = 0) /\ t.text = s.text \o d
      /\ out = Cardinality(s.done) + 1 /\ place = Place(s, p)
  BY <1>0 DEF Further, AtStep
<1>3. /\ s.text \in Seq(Nat) /\ Len(s.text) \in Nat
      /\ Part(label, s.done) \in Seq(Nat) /\ Len(Part(label, s.done)) = Cardinality(s.done)
      /\ x \in InsertStates
  BY SoundText
<1>4. /\ s.bias \in Nat /\ label \in Seq(Nat) /\ s.done \in SUBSET (DOMAIN label) /\ (s.i = 0 <=> j = 0)
  BY DEF Sound, Encodable
<1>5. d \in Seq(Nat)
  <2>1. PICK W \in [WriteStates -> Seq(Figures)] :
               \A y \in Nat : Digits(y, s.bias) = W[[number |-> y, k |-> 36]]
    BY <1>4, WriteSteps
  <2>2. [number |-> delta, k |-> 36] \in WriteStates
    BY <1>1 DEF WriteStates
  <2>3. d \in Seq(Figures)
    BY <1>1, <2>1, <2>2
  <2>4. Figures \subseteq Nat
    BY DEF Figures
  <2> HIDE DEF d
  <2> QED
    BY <2>3, <2>4, WiderSeq
<1>6. Opens(s.text, e) /\ Appears(d, e, first)
  BY <1>2, <1>3, <1>5, OpensSplit
<1>7. /\ Len(d) \in Nat
      /\ ReadNumber(e, s.bias)[[index |-> first, i |-> s.i, w |-> 1, k |-> 36]] =
           [i |-> s.i + delta, index |-> first + Len(d)]
  <2> DEFINE bias == s.bias
             before == s.i
  <2>1. /\ first \in Nat \ {0} /\ bias \in Nat /\ before \in Nat /\ delta \in Nat
        /\ Appears(Digits(delta, bias), e, first)
    <3>1. first \in Nat \ {0}
      BY <1>3
    <3> HIDE DEF first
    <3> QED
      BY <1>1, <1>4, <1>6, <3>1
  <2> HIDE DEF first, bias, before, x, d, F
  <2>2. /\ Len(Digits(delta, bias)) \in Nat
        /\ ReadNumber(e, bias)[[index |-> first, i |-> before, w |-> 1, k |-> 36]] =
             [i |-> before + delta, index |-> first + Len(Digits(delta, bias))]
    BY <2>1, NumberReads
  <2> QED
    BY <2>2 DEF bias, before, d
<1> DEFINE read == Found(x, e)
<1>8. /\ x.index = first /\ x.output = Part(label, s.done) /\ x.n = s.n /\ x.i = s.i /\ x.bias = s.bias
  BY DEF Decoding
<1> HIDE DEF x
<1>9. read = [i |-> s.i + delta, index |-> first + Len(d)]
  BY <1>7, <1>8 DEF Found
<1> HIDE DEF d, first, read
<1>11. read.i = s.i + delta /\ read.index = first + Len(d) /\ read.i # -1
  BY <1>1, <1>9
<1>12. ~(x.index > Len(e))
  <2>1. read.index > x.index
    BY <1>3, <1>11, InsertNextState DEF read
  <2>2. first + Len(d) <= Len(e) + 1 /\ first \in Nat /\ Len(e) \in Nat
    BY <1>3, <1>6 DEF Appears, first
  <2> QED
    BY <1>7, <1>8, <1>11, <2>1, <2>2
<1>13. F[x] = F[Inserted(x, read)]
  <2>1. F[x] = InsertOf(F, x, e)
    BY <1>3, InsertSteps
  <2> HIDE DEF F
  <2> QED
    BY <1>11, <1>12, <2>1 DEF InsertOf, read
<1>14. Inserted(x, read) = Decoding(label, t)
  <2>1. Len(x.output) + 1 = out
    BY <1>2, <1>3, <1>8
  <2>2. (read.i \div out) = a /\ (read.i % out) = place
    BY <1>10, <1>11 DEF Splits
  <2>3. InsertAt(Part(label, s.done), place + 1, label[p]) = Part(label, s.done \cup {p})
    <3> DEFINE D == s.done
    <3>1. label \in Seq(Nat) /\ D \in SUBSET (DOMAIN label) /\ p \in DOMAIN label \ D
      BY <1>1, <1>4
    <3>2. place = Cardinality({q \in D : q < p})
      BY <1>2 DEF Place
    <3> HIDE DEF D
    <3> QED
      BY <3>1, <3>2, PartInsert DEF D
  <2>4. read.i - s.i = delta
    BY <1>1, <1>9
  <2>5. Adapt(delta, out, s.i = 0) = Bias(delta, out, j = 0)
    <3>1. (s.i = 0) = (j = 0) /\ (j = 0) \in BOOLEAN
      BY <1>4
    <3>3. out \in Nat \ {0} /\ delta \in Nat /\ Near(delta)
      BY <1>1
    <3>2. Adapt(delta, out, j = 0) = Bias(delta, out, j = 0)
      BY <3>1, <3>3, AdaptIsBias
    <3> QED
      BY <3>1, <3>2
  <2>6. Len(t.text) + 1 = first + Len(d)
    <3> DEFINE l == Len(s.text)
               m == Len(d)
    <3>1. Len(s.text \o d) = l + m
      BY <1>3, <1>5, ConcatProperties
    <3>2. first = l + 1 /\ Len(t.text) = l + m /\ l \in Nat /\ m \in Nat
      BY <1>2, <1>3, <1>7, <3>1 DEF first
    <3> HIDE DEF l, m
    <3>3. l + m + 1 = (l + 1) + m
      BY <3>2
    <3> QED
      BY <3>2, <3>3 DEF m
  <2>7. Inserted(x, read) =
          [index |-> read.index, output |-> InsertAt(x.output, place + 1, x.n + a),
           n |-> x.n + a, i |-> place + 1, bias |-> Adapt(delta, out, s.i = 0)]
    <3> QED
      BY <1>8, <2>1, <2>2, <2>4 DEF Inserted
  <2>8. x.n + a = t.n /\ place + 1 = t.i /\ read.index = Len(t.text) + 1
    BY <1>1, <1>2, <1>8, <1>11, <2>6
  <2>9. InsertAt(x.output, place + 1, x.n + a) = Part(label, t.done)
    BY <1>1, <1>2, <1>8, <2>3
  <2>10. Adapt(delta, out, s.i = 0) = t.bias
    BY <1>2, <2>5
  <2> QED
    BY <2>7, <2>8, <2>9, <2>10 DEF Decoding
<1> QED
  BY <1>6, <1>13, <1>14 DEF x

\* All numbers.
LEMMA AllFollow ==
  ASSUME NEW label, Encodable(label), NEW e, e = EncodePunycode(label)
  PROVE  /\ e \in Seq(Nat) /\ Insertions(e)[Decoding(label, FirstOf(label))] = label
         /\ \E rest \in Seq(Figures) : e = FirstOf(label).text \o rest
<1> DEFINE N == Cardinality(DOMAIN label \ Basic(label))
           F == Numbers(label)
           G == Insertions(e)
<1> HIDE DEF N, F
<1>1. Encodes(label, N)
  BY EncodeStates DEF N
<1>2. N \in Nat /\ e = F[N].text /\ F[0] = FirstOf(label) /\ Sound(label, F[N], N) /\ F[N].done = DOMAIN label
  BY <1>1 DEF Encodes, F
<1>3. e \in Seq(Nat) /\ Len(e) \in Nat /\ Decoding(label, F[N]) \in InsertStates
  BY <1>2, SoundText
<1>4. \E rest \in Seq(Figures) : e = FirstOf(label).text \o rest
  BY <1>2 DEF Sound
<1>5. G[Decoding(label, F[N])] = label
  <2> DEFINE x == Decoding(label, F[N])
  <2>1. G[x] = InsertOf(G, x, e)
    BY <1>3, InsertSteps
  <2>2. x.index > Len(e) /\ x.output = Part(label, DOMAIN label)
    BY <1>2, <1>3 DEF Decoding
  <2>3. x.output = label
    BY <2>2, PartFull DEF Encodable
  <2> HIDE DEF x, G
  <2>4. G[x] = label
    BY <2>1, <2>2, <2>3 DEF InsertOf
  <2> QED
    BY <2>4 DEF x
<1> HIDE DEF G
<1> DEFINE Good == {j \in Nat : j <= N => Opens(F[N - j].text, e) /\ G[Decoding(label, F[N - j])] = label}
<1>6. 0 \in Good
  <2>1. Opens(e, e)
    BY <1>3 DEF Opens
  <2>2. N - 0 = N
    BY <1>2
  <2> QED
    BY <1>2, <1>5, <2>1, <2>2
<1>7. ASSUME NEW j \in Nat, j \in Good PROVE j + 1 \in Good
  <2>1. CASE j + 1 <= N
    <3> DEFINE k == N - (j + 1)
    <3>1. k \in Nat /\ k \in 0 .. N - 1 /\ k \in 0 .. N /\ k + 1 = N - j /\ j <= N
      BY <1>2, <2>1
    <3> HIDE DEF k
    <3>2. Opens(F[k + 1].text, e) /\ G[Decoding(label, F[k + 1])] = label
      BY <1>7, <3>1
    <3>3. Sound(label, F[k], k) /\ F[k].done # DOMAIN label /\ F[k + 1] = Further(label, F[k], k = 0)
      BY <1>1, <3>1 DEF Encodes, F
    <3>4. Opens(F[k].text, e) /\ G[Decoding(label, F[k])] = G[Decoding(label, F[k + 1])]
      BY <1>3, <3>1, <3>2, <3>3, Follows DEF G
    <3> QED
      BY <3>2, <3>4 DEF k
  <2>2. CASE ~(j + 1 <= N)
    BY <2>2
  <2> QED
    BY <2>1, <2>2
<1>8. N \in Good
  <2> HIDE DEF Good
  <2>1. Nat \subseteq Good
    BY <1>6, <1>7, Induction
  <2> QED
    BY <1>2, <2>1
<1>9. G[Decoding(label, F[0])] = label
  <2>1. N - N = 0 /\ N <= N
    BY <1>2
  <2> QED
    BY <1>8, <2>1
<1> QED
  BY <1>2, <1>3, <1>4, <1>9 DEF G

\* decodePunycode undoes the encoding of URL parsing, for every label.
LEMMA DecodesBack ==
  ASSUME NEW label, Encodable(label)
  PROVE  DecodePunycode(EncodePunycode(label)) = label
<1> DEFINE e == EncodePunycode(label)
           B == Basic(label)
           a == Part(label, B)
           h == FirstOf(label).text
           I == {i \in 1 .. Len(e) : e[i] = Hyphen}
           basicEnd == IF Contains(e, Hyphen) THEN SelectLastInSeq(e, LAMBDA c : c = Hyphen) - 1 ELSE 0
           start == [index |-> IF basicEnd > 0 THEN basicEnd + 2 ELSE 1,
                     output |-> SubSeq(e, 1, basicEnd), n |-> 128, i |-> 0, bias |-> 72]
<1>1. DecodePunycode(e) = Insertions(e)[start]
  BY DEF DecodePunycode
<1>2. /\ e \in Seq(Nat) /\ Insertions(e)[Decoding(label, FirstOf(label))] = label
      /\ \E rest \in Seq(Figures) : e = h \o rest
  BY AllFollow
<1>3. Contains(e, Hyphen) <=> I # {}
  <2> HIDE DEF e
  <2> QED
    BY DEF Contains
<1>4. I # {} => SelectLastInSeq(e, LAMBDA c : c = Hyphen) = Max(I)
  <2> HIDE DEF e
  <2> QED
    BY DEF SelectLastInSeq
<1>5. /\ a \in Seq(Nat) /\ Len(a) = Cardinality(B) /\ h \in Seq(Nat)
      /\ \/ B = {} /\ h = <<>>
         \/ B # {} /\ Cardinality(B) \in Nat \ {0} /\ h = Append(a, Hyphen)
  BY FirstText
<1>6. Decoding(label, FirstOf(label)) = [index |-> Len(h) + 1, output |-> a, n |-> 128, i |-> 0, bias |-> 72]
  BY DEF Decoding, FirstOf
<1> HIDE DEF e, h, B, a
<1>7. PICK rest \in Seq(Figures) : e = h \o rest
  BY <1>2
<1>8. rest \in Seq(Nat) /\ \A i \in 1 .. Len(rest) : rest[i] # Hyphen
  <2>1. Figures \subseteq Nat /\ Hyphen \notin Figures
    BY DEF Figures, Hyphen
  <2>2. rest \in Seq(Nat)
    BY <2>1, WiderSeq
  <2>3. \A i \in 1 .. Len(rest) : rest[i] \in Figures
    OBVIOUS
  <2> QED
    BY <2>1, <2>2, <2>3
<1>9. /\ Len(e) = Len(h) + Len(rest) /\ Len(h) \in Nat /\ Len(rest) \in Nat
      /\ \A i \in 1 .. Len(h) + Len(rest) : e[i] = IF i <= Len(h) THEN h[i] ELSE rest[i - Len(h)]
  BY <1>5, <1>7, <1>8, ConcatProperties
<1>10. \A i \in 1 .. Len(e) : i > Len(h) => e[i] # Hyphen
  <2> TAKE i \in 1 .. Len(e)
  <2>1. CASE i > Len(h)
    <3>1. i \in 1 .. Len(h) + Len(rest) /\ ~(i <= Len(h)) /\ i - Len(h) \in 1 .. Len(rest)
      BY <1>9, <2>1
    <3>2. e[i] = rest[i - Len(h)]
      BY <1>9, <3>1
    <3> QED
      BY <1>8, <3>1, <3>2
  <2> QED
    BY <2>1
<1>11. CASE B = {} /\ h = <<>>
  <2>1. Len(h) = 0 /\ Cardinality(B) = 0 /\ a = <<>>
    BY <1>5, <1>11, FS_EmptySet
  <2>2. I = {}
    BY <1>9, <1>10, <2>1
  <2>3. basicEnd = 0
    BY <1>3, <2>2
  <2>4. SubSeq(e, 1, 0) = <<>>
    BY SubSeqEmpty
  <2> HIDE DEF basicEnd
  <2>5. start = Decoding(label, FirstOf(label))
    BY <1>6, <2>1, <2>3, <2>4
  <2> HIDE DEF start
  <2> QED
    BY <1>1, <1>2, <2>5 DEF e
<1>12. CASE B # {} /\ Cardinality(B) \in Nat \ {0} /\ h = Append(a, Hyphen)
  <2> DEFINE n == Cardinality(B)
             m == n + 1
  <2>1. n \in Nat \ {0} /\ Len(a) = n /\ Len(h) = m
        /\ h[m] = Hyphen /\ \A i \in 1 .. n : h[i] = a[i]
    <3>1. Hyphen \in Nat
      BY DEF Hyphen
    <3> QED
      BY <1>5, <1>12, <3>1, AppendProperties
  <2> HIDE DEF n
  <2>2. m \in I
    <3>1. m \in 1 .. Len(h) + Len(rest) /\ m <= Len(h)
      BY <1>9, <2>1
    <3> QED
      BY <1>9, <2>1, <3>1
  <2>3. \A i \in I : m >= i
    BY <1>9, <1>10, <2>1
  <2>4. Max(I) = m
    <3>1. I \subseteq Int
      OBVIOUS
    <3> DEFINE Top(x) == x \in I /\ \A y \in I : x >= y
    <3>2. Top(m)
      BY <2>2, <2>3
    <3>3. Max(I) = CHOOSE x \in I : \A y \in I : x >= y
      BY DEF Max
    <3> HIDE DEF I, m
    <3>4. Top(Max(I))
      BY <3>2, <3>3
    <3> DEFINE u == Max(I)
    <3>5. u \in I /\ m \in I /\ u >= m /\ m >= u
      BY <3>2, <3>4
    <3> HIDE DEF u
    <3>6. u = m
      BY <3>1, <3>5
    <3> QED
      BY <3>6 DEF u
  <2>5. basicEnd = n
    <3> HIDE DEF I
    <3>1. basicEnd = m - 1
      BY <1>3, <1>4, <2>2, <2>4
    <3> HIDE DEF basicEnd
    <3> QED
      BY <2>1, <3>1
  <2>6. SubSeq(e, 1, n) = a
    <3>1. \A i \in 1 .. n : e[i] = a[i] /\ e[i] \in Nat
      <4> TAKE i \in 1 .. n
      <4>1. i \in 1 .. Len(h) + Len(rest) /\ i <= Len(h) /\ i \in 1 .. Len(a)
        BY <1>9, <2>1
      <4> QED
        BY <1>5, <1>9, <2>1, <4>1
    <3> DEFINE b == SubSeq(e, 1, n)
    <3>2. b \in Seq(Nat) /\ Len(b) = (IF 1 <= n THEN n - 1 + 1 ELSE 0) /\ \A i \in 1 .. n - 1 + 1 : b[i] = e[1 + i - 1]
      BY <2>1, <3>1, SubSeqProperties
    <3> HIDE DEF b
    <3>3. Len(b) = Len(a) /\ \A i \in 1 .. Len(b) : b[i] = a[i]
      <4>1. Len(b) = n
        BY <2>1, <3>2
      <4>2. ASSUME NEW i \in 1 .. n PROVE b[i] = a[i]
        <5>1. i \in 1 .. n - 1 + 1 /\ 1 + i - 1 = i
          BY <2>1
        <5> QED
          BY <3>1, <3>2, <5>1
      <4> QED
        BY <2>1, <4>1, <4>2
    <3>4. b = a
      BY <1>5, <3>2, <3>3, SeqEqual
    <3> QED
      BY <3>4 DEF b
  <2> HIDE DEF basicEnd
  <2>7. start = Decoding(label, FirstOf(label))
    <3>1. basicEnd > 0 /\ basicEnd + 2 = Len(h) + 1
      BY <2>1, <2>5
    <3> QED
      BY <1>6, <2>5, <2>6, <3>1
  <2> HIDE DEF start
  <2> QED
    BY <1>1, <1>2, <2>7 DEF e
<1> QED
  BY <1>5, <1>11, <1>12

\* Expanding CodePoint in a proof is slow, as with Group.
LEMMA CodePointIs == \A x : x \in CodePoint <=> Point(x)
<1> DEFINE n == 17 * 2^16
<1>1. n \in Nat
  OBVIOUS
<1>2. n = 1114112
  OBVIOUS
<1>3. \A x : x \in 0 .. n - 1 <=> x \in Nat /\ x < n
  <2> HIDE DEF n
  <2> QED
    BY <1>1
<1>4. CodePoint = 0 .. n - 1
  BY DEF CodePoint
<1> HIDE DEF n
<1>5. \A x : x \in CodePoint <=> x \in Nat /\ x < n
  BY <1>3, <1>4
<1> QED
  BY <1>2, <1>5 DEF Point

\* Every label of a host is one that the proofs above are about.
LEMMA LabelsAreEncodable ==
  ASSUME NEW label \in Labels
  PROVE  Encodable(label) /\ label # <<>>
<1>1. label \in Seq(CodePoint) /\ Len(label) \in 1 .. 63
  BY DEF Labels
<1>2. CodePoint \subseteq Nat
  BY CodePointIs DEF Point
<1>3. label \in Seq(Nat)
  BY <1>1, <1>2, WiderSeq
<1>4. \A p \in DOMAIN label : label[p] \in CodePoint
  BY <1>1
<1>5. \A p \in DOMAIN label : Point(label[p])
  BY <1>4, CodePointIs
<1>6. label # <<>>
  <2>1. Len(<<>>) = 0
    OBVIOUS
  <2> DEFINE n == Len(label)
  <2>2. n # 0
    <3>1. n \in 1 .. 63
      BY <1>1
    <3> HIDE DEF n
    <3> QED
      BY <3>1
  <2> QED
    BY <2>1, <2>2
<1> QED
  BY <1>1, <1>3, <1>5, <1>6 DEF Encodable

\* The cushion page is given the host that the url has, with the right warning.
LEMMA ShownIs ==
  ASSUME NEW host \in Hosts
  PROVE  /\ Shown(host).host = host
         /\ Shown(host).warned <=> host.kind = "idn" /\ \E p \in DOMAIN host.value : host.value[p] >= 128
<1>1. CASE host.kind # "idn"
  BY <1>1 DEF Shown
<1>2. CASE host.kind = "idn"
  <2> DEFINE v == host.value
             e == EncodePunycode(v)
             plain == \A p \in DOMAIN v : IsBasic(v[p])
  <2>1. v \in Labels /\ host = [kind |-> "idn", value |-> v]
    BY <1>2 DEF Hosts
  <2> HIDE DEF v
  <2>2. Encodable(v) /\ v # <<>>
    BY <2>1, LabelsAreEncodable
  <2>3. DecodePunycode(e) = v
    BY <2>2, DecodesBack
  <2>4. plain <=> ~\E p \in DOMAIN v : v[p] >= 128
    <3>1. \A p \in DOMAIN v : v[p] \in Nat
      BY <2>2 DEF Encodable, Point
    <3>2. \A p \in DOMAIN v : IsBasic(v[p]) <=> ~(v[p] >= 128)
      BY <3>1 DEF IsBasic
    <3> QED
      BY <3>2
  <2> DEFINE r == ToAscii(v)
  <2>5. Shown(host).host = Idn(UnicodeLabel(r)) /\ (Shown(host).warned <=> ~r.ascii)
    BY <1>2 DEF Shown, v
  <2>6. Idn(v) = host
    BY <2>1 DEF Idn
  <2> HIDE DEF e, plain
  <2>7. (r.ascii <=> plain) /\ UnicodeLabel(r) = v
    <3>1. CASE plain
      <4>1. r = [ascii |-> TRUE, text |-> v]
        BY <3>1 DEF ToAscii, plain
      <4>2. r.ascii = TRUE /\ r.text = v
        BY <4>1
      <4> HIDE DEF r
      <4> QED
        BY <3>1, <4>2 DEF UnicodeLabel
    <3>2. CASE ~plain
      <4>1. r = [ascii |-> FALSE, text |-> e]
        BY <3>2 DEF ToAscii, plain, e
      <4>2. r.ascii = FALSE /\ r.text = e
        BY <4>1
      <4> HIDE DEF r
      <4> QED
        BY <2>2, <2>3, <3>2, <4>2 DEF UnicodeLabel, Broken
    <3> QED
      BY <3>1, <3>2
  <2> HIDE DEF r
  <2> QED
    BY <1>2, <2>4, <2>5, <2>6, <2>7 DEF v
<1> QED
  BY <1>1, <1>2

-----------------------------------------------------------------------------
(* Queries: URLSearchParams reads what it has written.                     *)

\* The provers do not know that a literal is a STRING, so it is said here.
Texts == STRING \cup {"rt", "rt[]", "state", "v", " ", "+", "rt%5B%5D", "%2B", "token"}
Params == Texts \X Texts
Token == <<"rt", "token">>

LEMMA Coding ==
  ASSUME NEW s \in Texts
  PROVE  Decode(s) \in Texts /\ Encode(s) \in Texts /\ Decode(Encode(Decode(s))) = Decode(s)
<1>1. Decode(s) \in {s, "rt", "rt[]", "state", "v", " ", "+"}
  BY DEF Decode
<1>2. Encode(s) \in {s, "rt%5B%5D", "+", "%2B"}
  BY DEF Encode
<1>3. Decode(Encode(Decode(s))) = Decode(s)
  <2>1. CASE s \in {"%72t", "rt%5B%5D", "st%61te", "%76", "+", "%20", "%2B"}
    BY <2>1 DEF Decode, Encode
  <2>2. CASE s \notin {"%72t", "rt%5B%5D", "st%61te", "%76", "+", "%20", "%2B"}
    BY <2>2 DEF Decode, Encode
  <2> QED
    BY <2>1, <2>2
<1> QED
  BY <1>1, <1>2, <1>3 DEF Texts

LEMMA ParseType ==
  ASSUME NEW q \in Seq(Params)
  PROVE  /\ Parse(q) \in Seq(Params) /\ Len(Parse(q)) = Len(q)
         /\ \A i \in 1 .. Len(q) : /\ q[i] \in Params
                                   /\ Parse(q)[i] = <<Decode(q[i][1]), Decode(q[i][2])>>
<1>1. \A i \in 1 .. Len(q) : q[i] \in Params
  BY ElementOfSeq
<1>2. \A i \in 1 .. Len(q) : <<Decode(q[i][1]), Decode(q[i][2])>> \in Params
  BY <1>1, Coding DEF Params
<1>3. Parse(q) = [i \in 1 .. Len(q) |-> <<Decode(q[i][1]), Decode(q[i][2])>>]
  BY DEF Parse
<1> QED
  BY <1>1, <1>2, <1>3

LEMMA SerializeType ==
  ASSUME NEW q \in Seq(Params)
  PROVE  /\ Serialize(q) \in Seq(Params) /\ Len(Serialize(q)) = Len(q)
         /\ \A i \in 1 .. Len(q) : /\ q[i] \in Params
                                   /\ Serialize(q)[i] = <<Encode(q[i][1]), Encode(q[i][2])>>
<1>1. \A i \in 1 .. Len(q) : q[i] \in Params
  BY ElementOfSeq
<1>2. \A i \in 1 .. Len(q) : <<Encode(q[i][1]), Encode(q[i][2])>> \in Params
  BY <1>1, Coding DEF Params
<1>3. Serialize(q) = [i \in 1 .. Len(q) |-> <<Encode(q[i][1]), Encode(q[i][2])>>]
  BY DEF Serialize
<1> QED
  BY <1>1, <1>2, <1>3

\* A pair as parsing leaves it: writing and reading it changes nothing.
Settled(p) == p = <<p[1], p[2]>> /\ Decode(Encode(p[1])) = p[1] /\ Decode(Encode(p[2])) = p[2]

LEMMA SettledReadsBack ==
  ASSUME NEW q \in Seq(Params), \A i \in 1 .. Len(q) : Settled(q[i])
  PROVE  Parse(Serialize(q)) = q
<1> DEFINE t == Serialize(q)
<1>1. /\ t \in Seq(Params) /\ Len(t) = Len(q)
      /\ \A i \in 1 .. Len(q) : t[i] = <<Encode(q[i][1]), Encode(q[i][2])>>
  BY SerializeType
<1> HIDE DEF t
<1>2. /\ Parse(t) \in Seq(Params) /\ Len(Parse(t)) = Len(q)
      /\ \A i \in 1 .. Len(q) : Parse(t)[i] = <<Decode(t[i][1]), Decode(t[i][2])>>
  BY <1>1, ParseType
<1>3. ASSUME NEW i \in 1 .. Len(q) PROVE Parse(t)[i] = q[i]
  <2>1. t[i][1] = Encode(q[i][1]) /\ t[i][2] = Encode(q[i][2])
    BY <1>1
  <2> QED
    BY <1>2, <2>1 DEF Settled
<1>4. Parse(t) = q
  BY <1>2, <1>3, SeqEqual
<1> QED
  BY <1>4 DEF t

LEMMA ParseSettles ==
  ASSUME NEW q \in Seq(Params)
  PROVE  \A i \in 1 .. Len(q) : Settled(Parse(q)[i])
<1> TAKE i \in 1 .. Len(q)
<1>1. q[i][1] \in Texts /\ q[i][2] \in Texts
  BY ParseType DEF Params
<1>2. Parse(q)[i] = <<Decode(q[i][1]), Decode(q[i][2])>>
  BY ParseType
<1> QED
  BY <1>1, <1>2, Coding DEF Settled

LEMMA ReadsBack ==
  ASSUME NEW q \in Seq(Params)
  PROVE  Parse(Serialize(Parse(q))) = Parse(q)
BY ParseType, ParseSettles, SettledReadsBack

\* What the receiver reads of the location, and what is left of it.
LEMMA LocationReads ==
  ASSUME NEW q \in Seq(Params)
  PROVE  LET pairs == Append(Parse(q), Token) IN
         /\ Parse(Serialize(Append(Parse(Serialize(Parse(q))), Token))) = pairs
         /\ Len(pairs) = Len(q) + 1 /\ pairs[Len(q) + 1] = Token
         /\ DOMAIN pairs = 1 .. Len(q) + 1
         /\ \A i \in 1 .. Len(q) : pairs[i] = Parse(q)[i]
         /\ RemoveAt(pairs, Len(q) + 1) = Parse(q)
<1> DEFINE p == Parse(q)
           n == Len(q)
           pairs == Append(p, Token)
<1>1. p \in Seq(Params) /\ Len(p) = n /\ n \in Nat /\ \A i \in 1 .. n : Settled(p[i])
  BY ParseType, ParseSettles
<1>2. Token \in Params /\ Settled(Token)
  <2>1. Decode(Encode("rt")) = "rt" /\ Decode(Encode("token")) = "token"
    BY DEF Encode, Decode
  <2> QED
    BY <2>1 DEF Token, Params, Texts, Settled
<1>3. Parse(Serialize(p)) = p
  BY ReadsBack
<1> HIDE DEF p, n
<1>4. /\ pairs \in Seq(Params) /\ Len(pairs) = n + 1 /\ pairs[n + 1] = Token
      /\ \A i \in 1 .. n : pairs[i] = p[i]
  BY <1>1, <1>2, AppendProperties
<1> HIDE DEF pairs
<1>5. \A i \in 1 .. Len(pairs) : Settled(pairs[i])
  BY <1>1, <1>2, <1>4
<1>6. Parse(Serialize(pairs)) = pairs
  BY <1>4, <1>5, SettledReadsBack
<1>7. RemoveAt(pairs, n + 1) = p
  <2> DEFINE front == SubSeq(pairs, 1, n)
             rest == SubSeq(pairs, n + 2, n + 1)
  <2>1. RemoveAt(pairs, n + 1) = front \o rest
    <3>1. (n + 1) - 1 = n /\ (n + 1) + 1 = n + 2
      BY <1>1
    <3> QED
      BY <1>4, <3>1 DEF RemoveAt
  <2>2. front \in Seq(Params) /\ Len(front) = n /\ \A i \in 1 .. n : front[i] = pairs[i]
    <3>1. \A i \in 1 .. n : pairs[i] \in Params
      BY <1>1, <1>4, ElementOfSeq
    <3>2. 1 \in Int /\ n \in Int /\ n - 1 + 1 = n
      BY <1>1
    <3>3. /\ front \in Seq(Params) /\ Len(front) = IF 1 <= n THEN n - 1 + 1 ELSE 0
          /\ \A i \in 1 .. n - 1 + 1 : front[i] = pairs[1 + i - 1]
      BY <3>1, <3>2, SubSeqProperties
    <3> HIDE DEF front
    <3>4. Len(front) = n
      BY <1>1, <3>3
    <3>5. \A i \in 1 .. n : front[i] = pairs[i]
      BY <1>1, <3>3
    <3> QED
      BY <3>3, <3>4, <3>5
  <2>3. rest = <<>>
    <3>1. n + 1 < n + 2 /\ n + 1 \in Int /\ n + 2 \in Int
      BY <1>1
    <3> QED
      BY <3>1, SubSeqEmpty
  <2> HIDE DEF front, rest
  <2>4. front = p
    BY <1>1, <1>4, <2>2, SeqEqual
  <2>5. front \o <<>> = front
    BY <2>2
  <2> QED
    BY <2>1, <2>3, <2>4, <2>5
<1>8. DOMAIN pairs = 1 .. n + 1
  BY <1>4
<1> QED
  BY <1>3, <1>4, <1>6, <1>7, <1>8 DEF pairs, p, n

-----------------------------------------------------------------------------
(* The state machine.                                                      *)

Accepted == ~ServiceOriginRefused /\ ~RegistryRefused
Judged == ~UrlRefused /\ ~PolicyRefuses

\* What the signature covers, and what the browser is then sent to.
SignedAsJudged == Judged /\ claim.dst = "internal" /\ signed = Target(claim.url)
Located ==
  location = [signed EXCEPT !.query = Serialize(Append(Parse(signed.query), Token))]

\* What the cushion page was given.
ShownAsMeant == answer = "cushion" => shown = Shown(claim.url.authority.host)

DestinationInv ==
  /\ case \in Situations
  /\ phase \in {"start", "serving", "signing", "over"}
  /\ phase = "start" => answer = "none"
  /\ phase \in {"serving", "signing"} => answer = "none" /\ Accepted
  /\ phase = "signing" => SignedAsJudged
  /\ phase = "over" =>
       \/ answer = "signer_unavailable" /\ ~Accepted
       \/ answer \in {"invalid_url", "invalid_dst"} /\ Accepted /\ ~Judged
       \/ answer = "cushion" /\ Accepted /\ Judged
       \/ answer = "redirect" /\ Accepted /\ SignedAsJudged /\ Located
  /\ receiver \in {"none", "accepts"}
  /\ ShownAsMeant

\* The judgements are about the case, which no step changes.
LEMMA CaseDecides ==
  ASSUME UNCHANGED case
  PROVE  /\ Accepted' <=> Accepted
         /\ Judged' <=> Judged
         /\ UNCHANGED <<service, issuer, claim, UrlRefused, PolicyRefuses>>
         /\ Target(claim.url)' = Target(claim.url)
<1>1. UNCHANGED <<service, issuer, claim>>
  BY DEF service, issuer, claim
<1>2. UNCHANGED UrlRefused
  BY <1>1 DEF UrlRefused, NormalizeUrlRefuses, InternalTargetRefused
<1>3. UNCHANGED PolicyRefuses
  BY <1>1 DEF PolicyRefuses
<1>4. UNCHANGED <<ServiceOriginRefused, RegistryRefused>>
  BY <1>1 DEF ServiceOriginRefused, RegistryRefused, NormalizeOriginRefuses, NormalizeUrlRefuses
<1> QED
  BY <1>1, <1>2, <1>3, <1>4 DEF Accepted, Judged

\* A signed and located redirect is accepted by its receiver.
LEMMA ReceiverAgrees ==
  ASSUME case \in Situations, SignedAsJudged, Located
  PROVE  ReceiverMatches
<1> DEFINE u == claim.url
           q == u.query
           n == Len(q)
           p == Parse(q)
           pairs == Append(p, Token)
           i == n + 1
           rest == [authority |-> location.authority, shape |-> "sound", fragment |-> FALSE,
                    query |-> Serialize(RemoveAt(pairs, i))]
<1>1. u \in Urls /\ claim.dst = "internal"
  BY DEF Situations, claim, SignedAsJudged
<1>2. /\ u.authority \in Authorities /\ u.fragment \in BOOLEAN
      /\ q \in Seq(Params) /\ n \in Nat
  <2>1. u.query \in Seq(STRING \X STRING) /\ u.authority \in Authorities /\ u.fragment \in BOOLEAN
    BY <1>1 DEF Urls
  <2>2. STRING \X STRING \subseteq Params
    BY DEF Params, Texts
  <2> HIDE DEF u
  <2> QED
    BY <2>1, <2>2, WiderSeq
<1> HIDE DEF u
<1>3. /\ ~NormalizeUrlRefuses(u) /\ ~InternalTargetRefused(u)
      /\ signed = [authority |-> [u.authority EXCEPT !.canonical = TRUE], query |-> Serialize(p)]
  BY <1>1 DEF SignedAsJudged, Judged, UrlRefused, Target, u
<1>4. /\ location.authority = [u.authority EXCEPT !.canonical = TRUE]
      /\ location.query = Serialize(Append(Parse(Serialize(p)), Token))
  BY <1>3 DEF Located
<1> HIDE DEF q, p, n, i, pairs
<1>5. /\ Parse(location.query) = pairs
      /\ DOMAIN pairs = 1 .. i /\ i \in 1 .. i /\ pairs[i] = Token
      /\ \A j \in 1 .. n : pairs[j] = p[j]
      /\ RemoveAt(pairs, i) = p
  <2>1. /\ Parse(Serialize(Append(Parse(Serialize(p)), Token))) = pairs
        /\ pairs[n + 1] = Token /\ DOMAIN pairs = 1 .. n + 1
        /\ \A j \in 1 .. n : pairs[j] = p[j]
        /\ RemoveAt(pairs, n + 1) = p
    BY <1>2, LocationReads DEF pairs, p, n
  <2> QED
    BY <1>2, <1>4, <2>1 DEF i
<1>6. Parse(Serialize(p)) = p /\ DOMAIN p = 1 .. n /\ p = Parse(q)
  BY <1>2, ReadsBack, ParseType DEF p, n
<1>7. \A j \in 1 .. i : IsRtKey(pairs[j][1]) <=> j = i
  <2>1. \A j \in 1 .. n : ~IsRtKey(p[j][1])
    BY <1>3, <1>6 DEF InternalTargetRefused, q
  <2>2. IsRtKey(pairs[i][1])
    BY <1>5 DEF IsRtKey, Token
  <2>3. \A j \in 1 .. i : j = i \/ (j \in 1 .. n /\ j # i)
    <3>1. n \in Nat /\ i = n + 1
      BY <1>2 DEF i
    <3> QED
      BY <3>1
  <2> QED
    BY <1>5, <2>1, <2>2, <2>3
<1>8. rest.query = Serialize(p)
  BY <1>5
<1>9. rest.authority = [u.authority EXCEPT !.canonical = TRUE] /\ rest.shape = "sound" /\ ~rest.fragment
  BY <1>4
<1>10. /\ rest.authority.host = u.authority.host
       /\ [rest.authority EXCEPT !.canonical = TRUE] = rest.authority
  BY <1>2, <1>9 DEF Authorities
<1> HIDE DEF rest
<1>11. ~NormalizeUrlRefuses(rest)
  BY <1>3, <1>9, <1>10 DEF NormalizeUrlRefuses
<1>12. ~InternalTargetRefused(rest)
  <2>1. Parse(rest.query) = Parse(q)
    BY <1>6, <1>8
  <2> QED
    BY <1>3, <1>9, <2>1 DEF InternalTargetRefused, q
<1>13. Target(rest) = signed
  <2>1. Parse(rest.query) = p
    BY <1>6, <1>8
  <2> QED
    BY <1>3, <1>9, <1>10, <2>1 DEF Target
<1>14. pairs[i] = <<"rt", "token">>
  BY <1>5 DEF Token
<1> QED
  BY <1>5, <1>7, <1>11, <1>12, <1>13, <1>14 DEF ReceiverMatches, rest

\* An origin as URL.origin spells it.
LEMMA Canonical ==
  ASSUME NEW a \in Authorities
  PROVE  [a EXCEPT !.canonical = TRUE] = [host |-> a.host, canonical |-> TRUE]
<1> DEFINE b == [a EXCEPT !.canonical = TRUE]
<1>1. \A x \in Authorities : x = [host |-> x.host, canonical |-> x.canonical]
  BY DEF Authorities
<1>2. b \in Authorities
  BY DEF Authorities
<1>3. b.host = a.host /\ b.canonical = TRUE
  BY DEF Authorities
<1> HIDE DEF b
<1>4. b = [host |-> a.host, canonical |-> TRUE]
  BY <1>1, <1>2, <1>3
<1> QED
  BY <1>4 DEF b

LEMMA DestinationInitial == Init => DestinationInv
<1> SUFFICES ASSUME Init PROVE DestinationInv
  OBVIOUS
<1>1. case \in Situations
  BY CasesAssumption DEF Init
<1> QED
  BY <1>1 DEF Init, DestinationInv, ShownAsMeant

LEMMA DestinationStep == DestinationInv /\ [Next]_vars => DestinationInv'
<1> SUFFICES ASSUME DestinationInv, [Next]_vars PROVE DestinationInv'
  OBVIOUS
<1>1. UNCHANGED case
  BY DEF Next, vars, Start, Refuse, Cushion, Sign, Redirect, Follow
<1>2. /\ Accepted' <=> Accepted
      /\ Judged' <=> Judged
      /\ UNCHANGED <<service, issuer, claim, UrlRefused, PolicyRefuses>>
      /\ Target(claim.url)' = Target(claim.url)
  BY <1>1, CaseDecides
<1>3. UNCHANGED signed => (SignedAsJudged' <=> SignedAsJudged)
  BY <1>2 DEF SignedAsJudged
<1>4. UNCHANGED <<signed, location>> => (Located' <=> Located)
  BY DEF Located
<1>12. ShownAsMeant'
  <2>1. UNCHANGED claim.url.authority.host
    BY <1>2
  <2>2. CASE Cushion
    BY <2>1, <2>2 DEF Cushion, ShownAsMeant
  <2>3. CASE UNCHANGED <<shown, answer>>
    BY <2>1, <2>3 DEF ShownAsMeant, DestinationInv
  <2>4. CASE answer' # "cushion"
    BY <2>4 DEF ShownAsMeant
  <2> QED
    BY <2>2, <2>3, <2>4 DEF Next, vars, Start, Refuse, Sign, Redirect, Follow
<1>5. CASE Start
  BY <1>1, <1>2, <1>5, <1>12 DEF DestinationInv, Start, Accepted
<1>6. CASE Refuse
  BY <1>1, <1>2, <1>6, <1>12 DEF DestinationInv, Refuse, Judged
<1>7. CASE Cushion
  BY <1>1, <1>2, <1>7, <1>12 DEF DestinationInv, Cushion, Judged
<1>8. CASE Sign
  <2>1. SignedAsJudged'
    BY <1>2, <1>8 DEF Sign, SignedAsJudged, Judged
  <2> QED
    BY <1>1, <1>2, <1>8, <1>12, <2>1 DEF DestinationInv, Sign
<1>9. CASE Redirect
  <2>1. SignedAsJudged'
    BY <1>3, <1>9 DEF DestinationInv, Redirect
  <2>2. Located'
    BY <1>9 DEF Redirect, Located, Token
  <2> QED
    BY <1>1, <1>2, <1>9, <1>12, <2>1, <2>2 DEF DestinationInv, Redirect
<1>10. CASE Follow
  <2>1. SignedAsJudged /\ Located /\ case \in Situations
    BY <1>10 DEF DestinationInv, Follow
  <2>2. receiver' = "accepts"
    BY <1>10, <2>1, ReceiverAgrees DEF Follow
  <2> QED
    BY <1>1, <1>2, <1>3, <1>4, <1>10, <1>12, <2>2 DEF DestinationInv, Follow
<1>11. CASE UNCHANGED vars
  BY <1>1, <1>2, <1>3, <1>4, <1>11, <1>12 DEF DestinationInv, vars
<1> QED
  BY <1>5, <1>6, <1>7, <1>8, <1>9, <1>10, <1>11 DEF Next

LEMMA DestinationInvariant == Spec => []DestinationInv
BY DestinationInitial, DestinationStep, PTL DEF Spec

\* The receiver never refuses a redirect, whatever query the issuer wrote.
THEOREM ReceiverAlwaysAccepts == Spec => []ReceiverAccepts
<1>1. DestinationInv => ReceiverAccepts
  BY DEF DestinationInv, ReceiverAccepts
<1> QED
  BY <1>1, DestinationInvariant, PTL

\* The service comes up with exactly the origins that are in no block.
THEOREM HostsAreExact == Spec => []HostsExact
<1>1. DestinationInv => HostsExact
  <2> SUFFICES ASSUME DestinationInv, phase # "start" PROVE HostsExact
    BY DEF HostsExact
  <2> DEFINE All == {issuer.iss} \cup issuer.internal \cup issuer.external
  <2>1. service \in Authorities /\ issuer.iss \in Authorities
        /\ issuer.internal \subseteq Authorities /\ issuer.external \subseteq Authorities
    BY DEF DestinationInv, Situations, service, issuer
  <2>2. All \subseteq Authorities
    BY <2>1
  <2> HIDE DEF All
  <2>3. answer # "signer_unavailable" <=> Accepted
    BY DEF DestinationInv
  <2>4. \A a \in Authorities : a.host \in Hosts
    BY DEF Authorities
  <2>5. ServiceOriginRefused <=> ~service.canonical \/ SpecialForService(service.host)
    BY <2>1, <2>4, HostRules DEF ServiceOriginRefused
  <2>6. ASSUME NEW a \in All
        PROVE  NormalizeOriginRefuses(a) <=> ~a.canonical \/ a.host = service.host \/ Special(a.host)
    <3>1. IsForbiddenHost(a.host) <=> Special(a.host)
      BY <2>2, <2>4, HostRules
    <3> QED
      BY <3>1 DEF NormalizeOriginRefuses, NormalizeUrlRefuses
  <2>7. RegistryRefused <=> \E a \in All : NormalizeOriginRefuses(a)
    BY DEF RegistryRefused, All
  <2>8. RegistryRefused <=> ~\A a \in All : a.canonical /\ ~Special(a.host) /\ a.host # service.host
    BY <2>6, <2>7
  <2>9. Accepted <=> /\ service.canonical /\ ~SpecialForService(service.host)
                     /\ \A a \in All : a.canonical /\ ~Special(a.host) /\ a.host # service.host
    BY <2>5, <2>8 DEF Accepted
  <2> QED
    BY <2>3, <2>9 DEF HostsExact, All
<1> QED
  BY <1>1, DestinationInvariant, PTL

\* A plain url is reached exactly if a list has its host and the issuer has not.
THEOREM ListAlwaysDecides == Spec => []ListDecides
<1>1. DestinationInv => ListDecides
  <2> SUFFICES ASSUME DestinationInv, phase = "over", answer # "signer_unavailable", Plain
               PROVE  answer \in {"cushion", "redirect"} <=>
                        \E a \in Listed : a.host = claim.url.authority.host /\ a.host # issuer.iss.host
    BY DEF ListDecides
  <2> DEFINE h == claim.url.authority.host
             origin == [claim.url.authority EXCEPT !.canonical = TRUE]
  <2>1. Accepted /\ (answer \in {"cushion", "redirect"} <=> Judged)
    BY DEF DestinationInv, SignedAsJudged
  <2>2. /\ claim.url.authority \in Authorities /\ issuer.iss \in Authorities
        /\ issuer.internal \subseteq Authorities /\ issuer.external \subseteq Authorities
        /\ claim.dst \in {"internal", "external"}
    BY DEF DestinationInv, Situations, Urls, claim, issuer
  <2>3. \A a \in {issuer.iss} \cup issuer.internal \cup issuer.external :
          a.canonical /\ a.host # service.host /\ ~IsForbiddenHost(a.host)
    BY <2>1 DEF Accepted, RegistryRefused, NormalizeOriginRefuses, NormalizeUrlRefuses
  <2>4. origin = [host |-> h, canonical |-> TRUE]
    BY <2>2, Canonical
  <2>5. \A a \in {issuer.iss} \cup issuer.internal \cup issuer.external : a = origin <=> a.host = h
    <3> TAKE a \in {issuer.iss} \cup issuer.internal \cup issuer.external
    <3>1. a \in Authorities /\ a.canonical = TRUE
      BY <2>2, <2>3 DEF Authorities
    <3>2. a = [host |-> a.host, canonical |-> TRUE]
      BY <3>1 DEF Authorities
    <3> QED
      BY <2>4, <3>2
  <2>6. UrlRefused <=> h = service.host \/ IsForbiddenHost(h)
    <3>1. ~InternalTargetRefused(claim.url)
      <4>1. DOMAIN Parse(<<>>) = {}
        BY DEF Parse
      <4> QED
        BY <4>1 DEF InternalTargetRefused, Plain
    <3> QED
      BY <3>1 DEF UrlRefused, NormalizeUrlRefuses, Plain
  <2>7. Target(claim.url).authority = origin
    BY DEF Target
  <2>8. PolicyRefuses <=> origin = issuer.iss \/ origin \notin Listed
    BY <2>2, <2>7 DEF PolicyRefuses, Listed
  <2>9. Listed \subseteq {issuer.iss} \cup issuer.internal \cup issuer.external
    BY DEF Listed
  <2> HIDE DEF h, origin
  <2>10. Judged <=> h # service.host /\ ~IsForbiddenHost(h) /\ origin # issuer.iss /\ origin \in Listed
    BY <2>6, <2>8 DEF Judged
  <2>11. origin = issuer.iss <=> issuer.iss.host = h
    BY <2>5
  <2>12. ASSUME Judged PROVE \E a \in Listed : a.host = h /\ a.host # issuer.iss.host
    BY <2>5, <2>9, <2>10, <2>11, <2>12
  <2>13. ASSUME NEW a \in Listed, a.host = h, a.host # issuer.iss.host PROVE Judged
    <3>1. a = origin /\ h # service.host /\ ~IsForbiddenHost(h)
      BY <2>3, <2>5, <2>9, <2>13
    <3> QED
      BY <2>10, <2>11, <2>13, <3>1
  <2> QED
    BY <2>1, <2>12, <2>13 DEF h
<1> QED
  BY <1>1, DestinationInvariant, PTL

\* Reserialising keeps every parameter of every query.
THEOREM MeaningIsKept == Spec => []MeaningKept
<1>1. DestinationInv => MeaningKept
  <2> SUFFICES ASSUME DestinationInv, answer = "redirect"
               PROVE  Parse(location.query) = Append(Parse(claim.url.query), <<"rt", "token">>)
    BY DEF MeaningKept
  <2> DEFINE q == claim.url.query
  <2>1. SignedAsJudged /\ Located
    BY DEF DestinationInv
  <2>2. q \in Seq(Params)
    <3>1. q \in Seq(STRING \X STRING)
      BY DEF DestinationInv, Situations, Urls, claim
    <3>2. STRING \X STRING \subseteq Params
      BY DEF Params, Texts
    <3> HIDE DEF q
    <3> QED
      BY <3>1, <3>2, WiderSeq
  <2>3. signed.query = Serialize(Parse(q))
    BY <2>1 DEF SignedAsJudged, Target
  <2>4. location.query = Serialize(Append(Parse(Serialize(Parse(q))), Token))
    <3>1. signed = [authority |-> [claim.url.authority EXCEPT !.canonical = TRUE],
                    query |-> Serialize(Parse(q))]
      BY <2>1 DEF SignedAsJudged, Target
    <3> HIDE DEF q
    <3> QED
      BY <2>1, <3>1 DEF Located
  <2> HIDE DEF q
  <2>5. Parse(location.query) = Append(Parse(q), Token)
    BY <2>2, <2>4, LocationReads
  <2> QED
    BY <2>5 DEF q, Token
<1> QED
  BY <1>1, DestinationInvariant, PTL

\* The cushion page shows the host the link leads to, for every label: decoding
\* undoes the encoding of URL parsing, and the warning is about the shown name.
THEOREM HostIsShownTruly == Spec => []ShownTruly
<1>1. DestinationInv => ShownTruly
  <2> SUFFICES ASSUME DestinationInv, answer = "cushion" PROVE ShownTruly
    BY DEF ShownTruly
  <2>1. claim.url.authority.host \in Hosts
    BY DEF DestinationInv, Situations, Urls, Authorities, claim
  <2>2. shown = Shown(claim.url.authority.host)
    BY DEF DestinationInv, ShownAsMeant
  <2> QED
    BY <2>1, <2>2, ShownIs DEF ShownTruly
<1> QED
  BY <1>1, DestinationInvariant, PTL
=============================================================================
