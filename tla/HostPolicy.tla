----------------------------- MODULE HostPolicy -----------------------------
(***************************************************************************)
(* Which hosts core/normalize_url.ts refuses as a destination, and which   *)
(* further ones as the service's own origin.  The code compares octets with*)
(* ranges and 16 bit groups with masks; the registries of special-purpose  *)
(* addresses are lists of prefixes.  Blocks4, Blocks6 and the two service  *)
(* lists give the prefixes bit by bit, and the properties of Destination   *)
(* compare the two.                                                        *)
(*                                                                         *)
(* A host is a name, described by the one thing about it that the rules    *)
(* look at, a label under a name without peculiarities, four octets, or    *)
(* eight groups.                                                           *)
(***************************************************************************)
EXTENDS Integers, Sequences, SequencesExt

Octet == 0 .. 255
Group == 0 .. 2^16 - 1
CodePoint == 0 .. 17 * 2^16 - 1
Ace == <<120, 110, 45, 45>>  \* xn--
\* A label that URL parsing encodes where it must: at most 63 octets in the DNS,
\* so no more code points, and not one that is encoded already.
Labels == {label \in Seq(CodePoint) : Len(label) \in 1 .. 63 /\ ~IsPrefix(Ace, label)}

Name(n) == [kind |-> "name", value |-> n]
Idn(label) == [kind |-> "idn", value |-> label]
V4(o) == [kind |-> "v4", value |-> o]
V6(g) == [kind |-> "v6", value |-> g]

\* "special": under local, internal, arpa, alt, onion, invalid or test;
\* "misspelt": not letters, digits and hyphens, or too long.
NameKinds == {"plain", "single label", "localhost", "metadata", "special", "misspelt"}

Hosts == [kind : {"name"}, value : NameKinds]
         \cup [kind : {"idn"}, value : Labels]
         \cup [kind : {"v4"}, value : {o \in Seq(Octet) : Len(o) = 4}]
         \cup [kind : {"v6"}, value : {g \in Seq(Group) : Len(g) = 8}]

-----------------------------------------------------------------------------
(* Destinations.                                                           *)

IsPrivateIpv4(o) ==
  LET a == o[1]  b == o[2]  c == o[3] IN
  \/ a \in {0, 10, 127} \/ a >= 224
  \/ a = 169 /\ b = 254
  \/ a = 172 /\ b \in 16 .. 31
  \/ a = 192 /\ (b = 168 \/ (b = 0 /\ c = 0))
  \/ a = 100 /\ b \in 64 .. 127
  \/ a = 198 /\ b \in {18, 19}

Octets(high, low) == <<high \div 256, high % 256, low \div 256, low % 256>>
Zero(g, from, to) == \A i \in from .. to : g[i] = 0
\* Mutation of Masked: the mask is one bit too long.
MaskedLong(x, len, net) == x - (x % 2^(15 - len)) = net

\* x & mask = net for a mask of `len` leading ones in 16 bits
Masked(x, len, net) == x - (x % 2^(16 - len)) = net

MatchIpv4Mapped(g) == Zero(g, 1, 5) /\ g[6] = \hffff
MatchIpv4Compatible(g) == Zero(g, 1, 6)
Match6to4(g) == g[1] = \h2002
IsNat64WellKnown(g) == g[1] = \h64 /\ g[2] = \hff9b /\ Zero(g, 3, 6)

\* URL.hostname writes the first longest run of zero groups as "::".
Written(g) ==
  LET runs == {r \in (1 .. 8) \X (1 .. 8) : r[1] < r[2] /\ Zero(g, r[1], r[2])}
      Longest(r) == \A s \in runs :
                      LET more == s[2] - s[1] - (r[2] - r[1]) IN
                      more < 0 \/ (more = 0 /\ r[1] <= s[1])
  IN IF runs = {} THEN [compressed |-> FALSE, head |-> g, rest |-> <<>>]
     ELSE LET r == CHOOSE r \in runs : Longest(r) IN
          [compressed |-> TRUE, head |-> SubSeq(g, 1, r[1] - 1), rest |-> SubSeq(g, r[2] + 1, 8)]

ExpandIpv6(text) ==
  LET fillCount == 8 - Len(text.head) - Len(text.rest) IN
  IF text.compressed THEN text.head \o [i \in 1 .. fillCount |-> 0] \o text.rest ELSE text.head

\* The first kind of embedded address that matches decides.
IsForbiddenIpv6(g) ==
  CASE Zero(g, 1, 7) /\ g[8] \in {0, 1} -> TRUE
    [] MatchIpv4Mapped(g) \/ MatchIpv4Compatible(g) -> IsPrivateIpv4(Octets(g[7], g[8]))
    [] Match6to4(g) -> IsPrivateIpv4(Octets(g[2], g[3]))
    [] OTHER -> \/ Masked(g[1], 10, \hfe80) \/ Masked(g[1], 7, \hfc00)
                \/ Masked(g[1], 8, \hff00) \/ IsNat64WellKnown(g)

IsForbiddenHost(h) ==
  CASE h.kind = "name" -> h.value \in {"single label", "localhost", "metadata"}
    [] h.kind = "v4" -> IsPrivateIpv4(h.value)
    [] h.kind = "v6" -> IsForbiddenIpv6(ExpandIpv6(Written(h.value)))
    [] OTHER -> FALSE

-----------------------------------------------------------------------------
(* The service's own origin.                                               *)

IsReservedIpv4(o) ==
  <<o[1], o[2], o[3]>> \in {<<192, 0, 2>>, <<192, 88, 99>>, <<192, 31, 196>>, <<192, 52, 193>>,
                            <<192, 175, 48>>, <<198, 51, 100>>, <<203, 0, 113>>}

IsReservedIpv6(g) ==
  \/ ~Masked(g[1], 3, \h2000)
  \/ g[1] = \h2001 /\ (g[2] < \h200 \/ g[2] = \hdb8)
  \/ g[1] = \h2002
  \/ g[1] = \h2620 /\ g[2] = \h4f /\ g[3] = \h8000
  \/ g[1] = \h3fff /\ g[2] < \h1000

IsForbiddenServiceHost(h) ==
  \/ IsForbiddenHost(h)
  \/ h.kind = "name" /\ h.value \in {"misspelt", "special"}
  \/ h.kind = "v4" /\ IsReservedIpv4(h.value)
  \/ h.kind = "v6" /\ IsReservedIpv6(ExpandIpv6(Written(h.value)))

-----------------------------------------------------------------------------
(* The reference: a block is the bits all its addresses begin with.        *)

Bits(words, width) ==
  [i \in 1 .. width * Len(words) |->
     (words[((i - 1) \div width) + 1] \div 2^(width - 1 - ((i - 1) % width))) % 2]
Net4(octets, len) == SubSeq(Bits(octets, 8), 1, len)
Net6(groups, len) == SubSeq(Bits(groups, 16), 1, len)
In(bits, blocks) == \E b \in blocks : IsPrefix(b, bits)

Blocks4 ==
  {Net4(<<0>>, 8), Net4(<<10>>, 8), Net4(<<100, 64>>, 10), Net4(<<127>>, 8),
   Net4(<<169, 254>>, 16), Net4(<<172, 16>>, 12), Net4(<<192, 0, 0>>, 24),
   Net4(<<192, 168>>, 16), Net4(<<198, 18>>, 15), Net4(<<224>>, 4), Net4(<<240>>, 4)}

\* Prefixes after which an IPv6 address goes on with an IPv4 address.
Embeddings == {Net6(<<0, 0, 0, 0, 0, \hffff>>, 96), Net6(<<0, 0, 0, 0, 0, 0>>, 96),
               Net6(<<\h2002>>, 16)}
Blocks6 ==
  {e \o b : e \in Embeddings, b \in Blocks4} \cup
  {Net6(<<0, 0, 0, 0, 0, 0, 0, 1>>, 128), Net6(<<\h64, \hff9b, 0, 0, 0, 0>>, 96),
   Net6(<<\hfe80>>, 10), Net6(<<\hfc00>>, 7), Net6(<<\hff00>>, 8)}

ServiceBlocks4 == Blocks4 \cup
  {Net4(o, 24) : o \in {<<192, 0, 2>>, <<192, 88, 99>>, <<192, 31, 196>>, <<192, 52, 193>>,
                        <<192, 175, 48>>, <<198, 51, 100>>, <<203, 0, 113>>}}
\* Everything outside global unicast, 2000::/3, and its special-purpose blocks.
ServiceBlocks6 ==
  {Net6(<<0>>, 3), Net6(<<\h4000>>, 2), Net6(<<\h8000>>, 1), Net6(<<\h2001, 0>>, 23),
   Net6(<<\h2001, \hdb8>>, 32), Net6(<<\h2002>>, 16), Net6(<<\h2620, \h4f, \h8000>>, 48),
   Net6(<<\h3fff, 0>>, 20)}

Special(h) ==
  CASE h.kind = "name" -> h.value \in {"single label", "localhost", "metadata"}
    [] h.kind = "v4" -> In(Net4(h.value, 32), Blocks4)
    [] h.kind = "v6" -> In(Net6(h.value, 128), Blocks6)
    [] OTHER -> FALSE
SpecialForService(h) ==
  CASE h.kind = "name" -> h.value # "plain"
    [] h.kind = "v4" -> In(Net4(h.value, 32), ServiceBlocks4)
    [] h.kind = "v6" -> In(Net6(h.value, 128), ServiceBlocks6)
    [] OTHER -> FALSE
=============================================================================
