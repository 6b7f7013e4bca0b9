--------------------------- MODULE MC_Destination ---------------------------
EXTENDS Destination

\* Octets and groups on both sides of every bound of the rules, in sets that
\* share the first one.
Slash24 == {<<192, 0, 0>>, <<192, 0, 2>>, <<192, 88, 99>>, <<192, 31, 196>>, <<192, 52, 193>>,
            <<192, 175, 48>>, <<198, 51, 100>>, <<203, 0, 113>>}
Ipv4Hosts ==
  {{V4(<<a, b, c, 1>>) : c \in {0, 1},
      b \in {0, 1, 15, 16, 17, 18, 19, 20, 31, 32, 63, 64, 127, 128, 167, 168, 169, 253, 254, 255}} :
     a \in {0, 1, 9, 10, 11, 99, 100, 101, 126, 127, 128, 168, 169, 170, 171, 172, 173, 191, 192,
            193, 197, 198, 199, 223, 224, 239, 240, 255}}
  \cup {{V4(<<n[1] + d, n[2] + e, n[3] + f, 1>>) : d \in {0, 1}, e \in {0, 1}, f \in {0, 1}} :
          n \in Slash24}
\* Two octets in one group.
Highs == {0, 1, 2559, 2560, 2816, 25663, 25664, 25727, 25728, 32511, 32512, 43517, 43518, 43519,
          44047, 44048, 44063, 44064, 49152, 49320, 49321, 50705, 50706, 50707, 50708, 57343,
          57344, 65535}
Ipv6Hosts ==
  {{V6(<<0, 0, 0, 0, 0, m, h, l>>) : h \in Highs, l \in {0, 1, 2, 256}} :
     m \in {0, 1, 65534, 65535}}
  \cup {{V6(<<\h2002, h, l, 0, 0, 0, 0, 1>>) : h \in Highs, l \in {0, 1, 256}},
        {V6(<<\h64, b, 0, 0, 0, f, 8, 8>>) : b \in {\hff9a, \hff9b}, f \in {0, 1}}}
  \cup {{V6(<<a, b, c, 0, 0, 0, 0, z>>) :
           b \in {0, 1, \h4e, \h4f, \h1ff, \h200, \hdb7, \hdb8, \hdb9, \hfff, \h1000},
           c \in {0, \h7fff, \h8000, \h8001}, z \in {0, 1}} :
          a \in {0, \h1fff, \h2000, \h2001, \h2003, \h2620, \h3ffe, \h3fff, \h4000, \h8000, \hfbff,
                 \hfc00, \hfdff, \hfe00, \hfe7f, \hfe80, \hfebf, \hfec0, \hfeff, \hff00, \hffff}}
HostSets == Ipv4Hosts \cup Ipv6Hosts \cup {{Name(n) : n \in NameKinds}}

At(h) == [host |-> h, canonical |-> TRUE]
Odd(h) == [host |-> h, canonical |-> FALSE]
Jump == V4(<<8, 8, 8, 1>>)
Rails == V4(<<8, 8, 4, 1>>)
Shop == Name("plain")

Url(shape, a, query, fragment) ==
  [shape |-> shape, authority |-> a, query |-> query, fragment |-> fragment]
Case(s, iss, internal, external, dst, url) ==
  [service |-> s, issuer |-> [iss |-> iss, internal |-> internal, external |-> external],
   claim |-> [dst |-> dst, url |-> url]]

\* The service, then a listed host, at every address.
HostCases ==
  {{Case(At(h), At(Rails), {}, {}, "internal", Url("sound", At(Shop), <<>>, FALSE)) : h \in hosts}
     \cup {Case(At(Jump), At(Rails), {At(h)}, {}, "internal", Url("sound", At(h), <<>>, FALSE)) :
             h \in hosts} : hosts \in HostSets}

\* Lists, spellings and shapes.
ListCases ==
  {{Case(s, i, internal, external, dst, Url("sound", a, <<>>, fragment)) :
      s \in {At(Jump), Odd(Jump)}, i \in {At(Rails), At(Jump)}, dst \in {"internal", "external"},
      internal \in {{}, {At(Shop), At(Rails)}, {Odd(Shop)}},
      external \in {{}, {At(Shop)}, {At(Jump)}}, fragment \in BOOLEAN} :
     a \in {At(Shop), Odd(Shop), At(Rails), At(Jump), At(Name("localhost"))}}
  \cup {{Case(At(Jump), At(Rails), {At(Shop)}, {At(Shop)}, dst, Url(shape, At(Shop), <<>>, FALSE)) :
           dst \in {"internal", "external"}, shape \in Shapes}}

\* Up to three parameters in every spelling.
Names == {"rt", "%72t", "rt%5B%5D", "state", "st%61te", "q"}
Pairs == Names \X {"v", "%76", "+", "%20", "%2B"}
Queries == {{<<>>}, {<<p>> : p \in Pairs}}
           \cup {{<<p, q>> : q \in Pairs} : p \in Pairs}
           \cup {{<<p, q, r>> : r \in Names \X {"v", "%2B", "%20"}} :
                   p \in Names \X {"%76", "+"}, q \in Names \X {"%2B", "%20"}}
QueryCases ==
  {{Case(At(Jump), At(Rails), {At(Shop)}, {At(Shop)}, dst, Url("sound", At(Shop), query, FALSE)) :
      dst \in {"internal", "external"}, query \in queries} : queries \in Queries}

\* Labels of up to four code points: ASCII, a hyphen, Latin, Han and beyond.
CodePoints == {45, 97, 122, 228, 252, 20013, 25991, 128512}
LabelSets ==
  {{<<a>> : a \in CodePoints}}
  \cup {{<<a, b>> : b \in CodePoints} : a \in CodePoints}
  \cup {{<<a, b, c>> : b \in CodePoints, c \in CodePoints} : a \in CodePoints}
  \cup {{<<a, b, c, d>> : c \in CodePoints, d \in CodePoints} :
           a \in CodePoints, b \in CodePoints}
LabelCases ==
  {{Case(At(Jump), At(Rails), {}, {At(Idn(label))}, "external",
         Url("sound", At(Idn(label)), <<>>, FALSE)) : label \in labels} : labels \in LabelSets}

CasesToCheck == HostCases \cup ListCases \cup QueryCases \cup LabelCases
=============================================================================
