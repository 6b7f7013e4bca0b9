----------------------------- MODULE ClaimTime -----------------------------
(***************************************************************************)
(* The dates of a jump: when an inbound token is honoured (jose's checks   *)
(* and validateClaim, core/verify_jwt.ts) and what the outbound token it   *)
(* is exchanged for may outlive (buildInternalLocation, handle_jump.ts).   *)
(*                                                                         *)
(* handleJump reads the clock once, in whole seconds, before it waits for  *)
(* keys, signatures and its own signer; the clock moves on meanwhile, and  *)
(* with rpl "reuse" a token may be presented any number of times.  Time is *)
(* counted in ticks of 1/Second; a NumericDate may be any fraction.        *)
(***************************************************************************)
EXTENDS Integers

CONSTANTS
  Second,       \* ticks in a second
  Skew,         \* CLOCK_SKEW_SECONDS, in ticks
  MaxTTL,       \* MAX_INBOUND_TTL_SECONDS, in ticks
  OutboundTTL,  \* DEFAULT_OUTBOUND_TTL, in ticks
  Deadline,     \* the request deadline, in ticks
  MaxClock,     \* bound: the last instant considered
  MaxDrift      \* bound: how far an issuer's clock may be off, in ticks

ASSUME UnitsAssumption ==
  /\ {Second, Skew, MaxTTL, OutboundTTL, Deadline} \subseteq Nat \ {0}
  /\ {MaxClock, MaxDrift} \subseteq Nat
  /\ \A t \in {Skew, MaxTTL, OutboundTTL} : t % Second = 0

VARIABLES
  clock,     \* true time
  token,     \* the dates of the token
  minted,    \* history: when it was made and how far its issuer's clock was off
  phase,     \* "idle" or "judging": a request that presents the token is at work
  began,     \* when that request arrived
  now,       \* the whole second it captured
  verdict,   \* how the last request ended
  outbound   \* the dates of the last token the service signed

vars == <<clock, token, minted, phase, began, now, verdict, outbound>>

Floor(t) == t - (t % Second)

\* The dates of a token, NoDate where it has none.
LastDate == MaxClock + MaxDrift + MaxTTL
NoDate == LastDate + 1
Dates == -(MaxDrift + Second) .. NoDate
Tokens == [iat : Dates, nbf : Dates, exp : Dates]
Mintings == [at : 0 .. MaxClock, drift : -MaxDrift .. MaxDrift]

TypeOK ==
  /\ clock \in 0 .. MaxClock
  /\ token \in Tokens /\ minted \in Mintings
  /\ phase \in {"idle", "judging"}
  /\ began \in 0 .. MaxClock /\ now \in 0 .. MaxClock
  /\ verdict \in {"none", "accepted", "expired", "invalid_claim", "deadline_exceeded"}
  /\ outbound \in [iat : 0 .. MaxClock, exp : 0 .. MaxClock + OutboundTTL]

-----------------------------------------------------------------------------
(* jwtVerify with currentDate and clockTolerance, then validateClaim.      *)

\* Mutation of JoseExpired: exclusive where jose is inclusive.
JoseExpiredAfter(t) == t.exp # NoDate /\ t.exp < now - Skew

JoseExpired(t) == t.exp # NoDate /\ t.exp <= now - Skew
\* Mutation of JoseEarly: inclusive where jose is exclusive.
JoseEarlyAt(t) == t.nbf # NoDate /\ t.nbf >= now + Skew

JoseEarly(t) == t.nbf # NoDate /\ t.nbf > now + Skew

Shaped(t) == NoDate \notin {t.iat, t.nbf, t.exp}
\* Mutation of Valid: a token may be issued in the future.
ValidFromFuture(t) ==
  /\ Shaped(t)
  /\ t.exp >= now - Skew
  /\ t.nbf <= now + Skew
  /\ t.exp > t.iat
  /\ t.nbf <= t.exp
  /\ t.exp - t.iat <= MaxTTL

Valid(t) ==
  /\ Shaped(t)
  /\ t.exp >= now - Skew
  /\ t.nbf <= now + Skew
  /\ t.iat <= now + Skew
  /\ t.exp > t.iat
  /\ t.nbf <= t.exp
  /\ t.exp - t.iat <= MaxTTL

\* Mutation of Judgement: an early token gets a code of its own.
JudgementByReason(t) ==
  IF JoseEarly(t) THEN "not_yet_valid"
  ELSE IF JoseExpired(t) THEN "expired"
  ELSE IF Valid(t) THEN "accepted" ELSE "invalid_claim"

\* jose looks at nbf before exp.
Judgement(t) ==
  IF ~JoseEarly(t) /\ JoseExpired(t) THEN "expired"
  ELSE IF ~JoseEarly(t) /\ Valid(t) THEN "accepted" ELSE "invalid_claim"

-----------------------------------------------------------------------------
\* What an issuer writes that follows the contract, in whole seconds of its
\* own clock, which is off by minted.drift.
Written == Floor(minted.at + minted.drift)
Regular ==
  /\ token.iat = Written /\ token.nbf = Written
  /\ token.exp - token.iat \in 1 .. MaxTTL /\ token.exp % Second = 0

Init ==
  /\ clock = 0
  /\ token \in Tokens
  /\ minted \in Mintings
  /\ Regular \/ minted = [at |-> 0, drift |-> 0]
  /\ phase = "idle" /\ began = 0 /\ now = 0
  /\ verdict = "none"
  /\ outbound = [iat |-> 0, exp |-> 0]

\* (Bound: the deadline falls within the clock's range.)
Present ==
  /\ phase = "idle" /\ clock >= minted.at
  /\ clock + Deadline <= MaxClock
  /\ phase' = "judging" /\ began' = clock /\ now' = Floor(clock)
  /\ UNCHANGED <<clock, token, minted, verdict, outbound>>

\* The verification ends; an accepted token is exchanged for a signed one.
Judge ==
  /\ phase = "judging"
  /\ verdict' = Judgement(token)
  /\ outbound' = IF verdict' = "accepted" THEN [iat |-> now, exp |-> now + OutboundTTL]
                                          ELSE outbound
  /\ phase' = "idle"
  /\ UNCHANGED <<clock, token, minted, began, now>>

GiveUp ==
  /\ phase = "judging" /\ clock >= began + Deadline
  /\ verdict' = "deadline_exceeded" /\ phase' = "idle"
  /\ UNCHANGED <<clock, token, minted, began, now, outbound>>

Tick ==
  /\ clock < MaxClock
  /\ phase = "judging" => clock < began + Deadline
  /\ clock' = clock + 1
  /\ UNCHANGED <<token, minted, phase, began, now, verdict, outbound>>

Next == Present \/ Judge \/ GiveUp \/ Tick
Spec == Init /\ [][Next]_vars

-----------------------------------------------------------------------------
(* Properties.                                                             *)

Accepts == phase = "judging" /\ phase' = "idle" /\ verdict' = "accepted"

\* However long the request waited on the second it captured, and however
\* often the token was used before, a token is honoured neither Skew before
\* its dates nor after its life, the skew, the deadline and a second (now of
\* handleJump line 62, lines 140-147 of verify_jwt.ts).
HonouredInTime ==
  [][Accepts =>
       /\ clock >= token.iat - Skew /\ clock >= token.nbf - Skew
       /\ clock < token.exp + Skew + Deadline + Second
       /\ clock < token.iat + MaxTTL + Skew + Deadline + Second]_vars

\* A contract-abiding token of an issuer whose clock is off by at most Skew,
\* in either direction, is never refused for its dates while its life lasts:
\* seconds round down on both sides and every comparison includes its bound
\* (validateClaim lines 140-147 and the tolerance given to jose).
RegularHonoured ==
  [][phase = "judging" /\ phase' = "idle" /\ Regular
       /\ minted.drift \in -Skew .. Skew
       /\ began < Floor(minted.at) + (token.exp - token.iat)
     => verdict' \in {"accepted", "deadline_exceeded"}]_vars

\* A token cannot be renewed through the service: what it is exchanged for
\* ends within its own longest life plus the skew and one outbound life
\* (buildInternalLocation lines 125-134).
ExchangeIsBounded ==
  outbound.exp # 0 => /\ outbound.exp < token.exp + Skew + OutboundTTL
                      /\ outbound.exp < token.iat + MaxTTL + Skew + OutboundTTL
=============================================================================
