---------------------------- MODULE Destination ----------------------------
(***************************************************************************)
(* Where a verified token may lead: the service validates its origin and   *)
(* its registry (validateServiceOrigin, validateRegistry), judges the url  *)
(* of a claim against them (normalizeUrl, validateInternalTarget,          *)
(* assertDestinationPolicy), and for an internal destination signs the url *)
(* in one spelling and puts the token into the same url                    *)
(* (buildInternalLocation).  The receiver takes the token out again and    *)
(* compares, as the repository's contract test does.                       *)
(*                                                                         *)
(* An authority is a host and whether it is spelled as URL.origin spells   *)
(* it (lower case, no :443).  A query is a sequence of pairs of spellings; *)
(* what a spelling stands for is Decode of it.  The cushion page of an     *)
(* external destination shows its host, in Unicode if it has xn-- labels.  *)
(***************************************************************************)
EXTENDS HostPolicy, Idna

CONSTANT Cases  \* the services, issuers and claims considered, in sets of them

\* What can be wrong with a url besides its host.
Shapes == {"sound",
           "text",        \* empty, a space, a backslash, a control character, a bad escape
           "unparseable", "scheme", "userinfo", "port", "trailing dot"}
Codes == {"invalid_url", "invalid_dst", "signer_unavailable"}

Authorities == [host : Hosts, canonical : BOOLEAN]
Urls == [shape : Shapes, authority : Authorities, query : Seq(STRING \X STRING), fragment : BOOLEAN]
Situations ==
  [service : Authorities,
   issuer : [iss : Authorities, internal : SUBSET Authorities, external : SUBSET Authorities],
   claim : [dst : {"internal", "external"}, url : Urls]]
ASSUME CasesAssumption == \A cases \in Cases : cases \subseteq Situations

VARIABLES
  case,      \* [service, issuer, claim]
  phase,     \* "start", "serving", "signing", "over"
  answer,    \* "none", "cushion", "redirect" or an error code
  signed,    \* the claim that is signed: aud and url
  location,  \* the url the browser is sent to
  receiver,  \* "none", "accepts" or "refuses"
  shown      \* the host on the cushion page, and whether the page warns of it

vars == <<case, phase, answer, signed, location, receiver, shown>>

service == case.service
issuer == case.issuer
claim == case.claim
Empty == [authority |-> [host |-> Name("plain"), canonical |-> TRUE], query |-> <<>>]

Init ==
  /\ \E cases \in Cases : case \in cases
  /\ phase = "start" /\ answer = "none"
  /\ signed = Empty /\ location = Empty
  /\ receiver = "none"
  /\ shown = [host |-> Name("plain"), warned |-> FALSE]

-----------------------------------------------------------------------------
(* URLSearchParams: parsing decodes names and values, serialising writes   *)
(* each of them in one spelling.                                           *)

Decode(s) ==
  CASE s = "%72t" -> "rt"
    [] s = "rt%5B%5D" -> "rt[]"
    [] s = "st%61te" -> "state"
    [] s = "%76" -> "v"
    [] s \in {"+", "%20"} -> " "
    [] s = "%2B" -> "+"
    [] OTHER -> s

Encode(t) ==
  CASE t = "rt[]" -> "rt%5B%5D"
    [] t = " " -> "+"
    [] t = "+" -> "%2B"
    [] OTHER -> t

Parse(query) == [i \in DOMAIN query |-> <<Decode(query[i][1]), Decode(query[i][2])>>]

\* Mutation of Serialize: the parameters go through an object, which keeps the
\* last value of a name.
SerializeObject(pairs) ==
  LET LastOf(p) == \A i \in DOMAIN pairs : p = pairs[i] =>
                   \A j \in i + 1 .. Len(pairs) : pairs[j][1] # p[1]
      kept == SelectSeq(pairs, LastOf)
  IN [i \in DOMAIN kept |-> <<Encode(kept[i][1]), Encode(kept[i][2])>>]

Serialize(pairs) == [i \in DOMAIN pairs |-> <<Encode(pairs[i][1]), Encode(pairs[i][2])>>]

-----------------------------------------------------------------------------
(* normalizeUrl, normalizeOrigin and what they protect at start-up.        *)

NormalizeUrlRefuses(url) ==
  \/ url.shape # "sound"
  \/ url.authority.host = service.host       \* self link
  \/ IsForbiddenHost(url.authority.host)

NormalizeOriginRefuses(authority) ==
  ~authority.canonical
  \/ NormalizeUrlRefuses([shape |-> "sound", authority |-> authority])

ServiceOriginRefused == ~service.canonical \/ IsForbiddenServiceHost(service.host)

\* validateRegistry, for the issuer of the claim.
RegistryRefused ==
  \E a \in {issuer.iss} \cup issuer.internal \cup issuer.external : NormalizeOriginRefuses(a)

\* The service accepts its configuration with the first request, or never.
Start ==
  /\ phase = "start"
  /\ \/ /\ ServiceOriginRefused \/ RegistryRefused
        /\ phase' = "over" /\ answer' = "signer_unavailable"
     \/ /\ ~ServiceOriginRefused /\ ~RegistryRefused
        /\ phase' = "serving" /\ UNCHANGED answer
  /\ UNCHANGED <<case, signed, location, receiver, shown>>

-----------------------------------------------------------------------------
(* handleJump after the claims have been accepted.                         *)

IsRtKey(name) == name \in {"rt", "rt[]"}   \* rt, or anything that starts with rt[
Single == {"state"}     \* of redirect_uri, state, nonce, code, next, return_to

\* Mutation of InternalTargetRefused: names are compared as they are spelled.
InternalTargetRefusedBySpelling(url) ==
  \/ url.fragment
  \/ \E i \in DOMAIN url.query :
       \/ IsRtKey(url.query[i][1])
       \/ url.query[i][1] \in Single /\ \E j \in 1 .. i - 1 : url.query[j][1] = url.query[i][1]

InternalTargetRefused(url) ==
  LET pairs == Parse(url.query) IN
  \/ url.fragment
  \/ \E i \in DOMAIN pairs :
       \/ IsRtKey(pairs[i][1])
       \/ pairs[i][1] \in Single /\ \E j \in 1 .. i - 1 : pairs[j][1] = pairs[i][1]

\* The target: its authority as URL.origin spells it, its query reserialised
\* for an internal destination.
Target(url) ==
  [authority |-> [url.authority EXCEPT !.canonical = TRUE],
   query |-> Serialize(Parse(url.query))]

\* Mutation of PolicyRefuses: the origin is compared as the claim spells it.
PolicyRefusesSpelling ==
  \/ claim.url.authority = issuer.iss
  \/ claim.dst = "internal" /\ claim.url.authority \notin issuer.internal
  \/ claim.dst = "external" /\ claim.url.authority \notin issuer.external

PolicyRefuses ==
  LET origin == Target(claim.url).authority IN
  \/ origin = issuer.iss
  \/ claim.dst = "internal" /\ origin \notin issuer.internal
  \/ claim.dst = "external" /\ origin \notin issuer.external

UrlRefused ==
  \/ NormalizeUrlRefuses(claim.url)
  \/ claim.dst = "internal" /\ InternalTargetRefused(claim.url)

Refuse ==
  /\ phase = "serving"
  /\ UrlRefused \/ PolicyRefuses
  /\ phase' = "over" /\ answer' = IF UrlRefused THEN "invalid_url" ELSE "invalid_dst"
  /\ UNCHANGED <<case, signed, location, receiver, shown>>

\* What renderCushionPage is given: normalizeUrl's two spellings of the host.
Shown(host) ==
  IF host.kind # "idn" THEN [host |-> host, warned |-> FALSE]
  ELSE [host |-> Idn(UnicodeLabel(ToAscii(host.value))), warned |-> ~ToAscii(host.value).ascii]

Cushion ==
  /\ phase = "serving"
  /\ ~UrlRefused /\ ~PolicyRefuses /\ claim.dst = "external"
  /\ phase' = "over" /\ answer' = "cushion"
  /\ shown' = Shown(claim.url.authority.host)
  /\ UNCHANGED <<case, signed, location, receiver>>

\* buildInternalLocation, up to the signature.
Sign ==
  /\ phase = "serving"
  /\ ~UrlRefused /\ ~PolicyRefuses /\ claim.dst = "internal"
  /\ signed' = Target(claim.url)
  /\ phase' = "signing"
  /\ UNCHANGED <<case, answer, location, receiver, shown>>

\* The token goes into the signed url: searchParams.set appends rt, because
\* the target has none, and reserialises the rest.
Redirect ==
  /\ phase = "signing"
  /\ location' = [signed EXCEPT
       !.query = Serialize(Append(Parse(signed.query), <<"rt", "token">>))]
  /\ phase' = "over" /\ answer' = "redirect"
  /\ UNCHANGED <<case, signed, receiver, shown>>

-----------------------------------------------------------------------------
\* The receiver: exactly one rt, no other reserved name, and without it the
\* url of the token it carries; aud is its own origin.
ReceiverMatches ==
  LET pairs == Parse(location.query)
      Rest(i) == [authority |-> location.authority, shape |-> "sound", fragment |-> FALSE,
                  query |-> Serialize(RemoveAt(pairs, i))]
  IN \E i \in DOMAIN pairs :
       /\ \A j \in DOMAIN pairs : IsRtKey(pairs[j][1]) <=> j = i
       /\ pairs[i] = <<"rt", "token">>
       /\ ~NormalizeUrlRefuses(Rest(i)) /\ ~InternalTargetRefused(Rest(i))
       /\ Target(Rest(i)) = signed

Follow ==
  /\ answer = "redirect" /\ receiver = "none"
  /\ receiver' = IF ReceiverMatches THEN "accepts" ELSE "refuses"
  /\ UNCHANGED <<case, phase, answer, signed, location, shown>>

Next == Start \/ Refuse \/ Cushion \/ Sign \/ Redirect \/ Follow
Spec == Init /\ [][Next]_vars

-----------------------------------------------------------------------------
(* Properties.                                                             *)

\* The range and mask arithmetic is the list of blocks: the service comes up
\* exactly when its origin is canonical and in no special-purpose block, and
\* every origin its registry names is canonical, another, and in no block,
\* also when IPv6 spells an IPv4 address (isForbiddenHost, isPrivateIpv4,
\* isForbiddenIpv6, isForbiddenServiceHost).
HostsExact ==
  phase # "start" =>
    (answer # "signer_unavailable" <=>
       /\ service.canonical /\ ~SpecialForService(service.host)
       /\ \A a \in {issuer.iss} \cup issuer.internal \cup issuer.external :
            a.canonical /\ ~Special(a.host) /\ a.host # service.host)

Listed == IF claim.dst = "internal" THEN issuer.internal ELSE issuer.external
Plain == claim.url.shape = "sound" /\ ~claim.url.fragment /\ claim.url.query = <<>>

\* The two judgements of one host agree: what the registry could list, a url
\* can reach, however it spells the origin, and nothing else is reached
\* (normalizeOrigin line 86, originAllowed, assertDestinationPolicy line 9).
ListDecides ==
  phase = "over" /\ answer # "signer_unavailable" /\ Plain =>
    (answer \in {"cushion", "redirect"} <=>
       \E a \in Listed : a.host = claim.url.authority.host /\ a.host # issuer.iss.host)

\* The receiver accepts every redirect: what it is left with after taking the
\* token out is the signed url, to the spelling, whatever the issuer wrote
\* (receiver contract, lines 14-17 and 38-45; validateInternalTarget line 320
\* and buildInternalLocation lines 138-145).
ReceiverAccepts == receiver # "refuses"

\* Reserialising changes spellings only: the receiver reads the parameters the
\* issuer wrote, all of them, in their order, and then the token.
MeaningKept ==
  answer = "redirect" =>
    Parse(location.query) = Append(Parse(claim.url.query), <<"rt", "token">>)

\* The cushion page shows the user the host the link leads to, and warns if it
\* is not ASCII: decoding the labels undoes the encoding of URL parsing, through
\* every adaptation of the bias (unicodeHostname, decodePunycode, adapt).
ShownTruly ==
  answer = "cushion" =>
    LET host == claim.url.authority.host IN
    /\ shown.host = host
    /\ shown.warned <=> host.kind = "idn" /\ \E p \in DOMAIN host.value : host.value[p] >= 128
=============================================================================
