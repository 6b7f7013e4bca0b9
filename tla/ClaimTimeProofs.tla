-------------------------- MODULE ClaimTimeProofs --------------------------
(***************************************************************************)
(* Proofs about ClaimTime, for every length of the second, skew, lives and *)
(* deadline that meets UnitsAssumption.                                    *)
(***************************************************************************)
EXTENDS ClaimTime, TLAPS

LEMMA UnitTypes ==
  /\ Second \in Nat /\ Second > 0 /\ Skew \in Nat /\ Skew > 0 /\ Skew % Second = 0
  /\ MaxTTL \in Nat /\ MaxTTL > 0 /\ OutboundTTL \in Nat /\ OutboundTTL > 0
  /\ Deadline \in Nat /\ Deadline > 0 /\ MaxClock \in Nat /\ MaxDrift \in Nat
BY UnitsAssumption

-----------------------------------------------------------------------------
(* Whole seconds.                                                          *)

LEMMA DivMod ==
  ASSUME NEW t \in Int, NEW s \in Int, s > 0
  PROVE  t = s * (t \div s) + (t % s) /\ t \div s \in Int /\ t % s \in 0 .. s - 1
OBVIOUS

\* Multiples of s that are less than s apart in one direction are ordered.
LEMMA MultipleGap ==
  ASSUME NEW a \in Int, NEW b \in Int, NEW s \in Int, s > 0, s * a < s * b + s
  PROVE  a <= b
<1> SUFFICES ASSUME a >= b + 1 PROVE FALSE
  OBVIOUS
<1>1. s * a >= s * (b + 1)
  OBVIOUS
<1> QED
  BY <1>1

LEMMA FloorBounds ==
  ASSUME NEW t \in Int
  PROVE  Floor(t) \in Int /\ Floor(t) <= t /\ t < Floor(t) + Second
BY UnitTypes, DivMod DEF Floor

LEMMA FloorAsMultiple ==
  ASSUME NEW t \in Int
  PROVE  \E q \in Int : Floor(t) = Second * q
<1>1. Second \in Int /\ Second > 0
  BY UnitTypes
<1>2. t = Second * (t \div Second) + (t % Second) /\ t \div Second \in Int
  BY <1>1, DivMod
<1>3. t % Second \in Int
  BY <1>1, DivMod
<1>4. Floor(t) = Second * (t \div Second)
  BY <1>1, <1>2, <1>3 DEF Floor
<1> t \div Second \in Int
  BY <1>2
<1> WITNESS t \div Second \in Int
<1> QED
  BY <1>4

LEMMA FloorMonotone ==
  ASSUME NEW t \in Int, NEW u \in Int, t <= u
  PROVE  Floor(t) <= Floor(u)
<1>1. PICK p \in Int : Floor(t) = Second * p
  BY FloorAsMultiple
<1>2. PICK q \in Int : Floor(u) = Second * q
  BY FloorAsMultiple
<1>3. Floor(t) \in Int /\ Floor(t) <= t
  BY FloorBounds
<1>4. Floor(u) \in Int /\ u < Floor(u) + Second
  BY FloorBounds
<1>5. Second \in Int /\ Second > 0
  BY UnitTypes
<1>6. Second * p < Second * q + Second
  BY <1>1, <1>2, <1>3, <1>4, <1>5
<1>7. p <= q
  BY <1>5, <1>6, MultipleGap
<1> QED
  BY <1>1, <1>2, <1>5, <1>7

\* The skew is a whole number of seconds.
LEMMA FloorShift ==
  ASSUME NEW t \in Int
  PROVE  Floor(t + Skew) = Floor(t) + Skew
<1>1. Second \in Int /\ Second > 0 /\ Skew \in Int /\ Skew % Second = 0
  BY UnitTypes
<1>2. PICK p \in Int : Floor(t) = Second * p
  BY FloorAsMultiple
<1>3. PICK q \in Int : Floor(t + Skew) = Second * q
  BY <1>1, FloorAsMultiple
<1>4. PICK k \in Int : Skew = Second * k
  <2>1. Skew = Second * (Skew \div Second) + (Skew % Second) /\ Skew \div Second \in Int
    BY <1>1, DivMod
  <2>2. Skew = Second * (Skew \div Second)
    BY <1>1, <2>1
  <2> Skew \div Second \in Int
    BY <2>1
  <2> WITNESS Skew \div Second \in Int
  <2> QED
    BY <2>2
<1>5. Floor(t) <= t /\ t < Floor(t) + Second
  BY FloorBounds
<1>6. Floor(t + Skew) <= t + Skew /\ t + Skew < Floor(t + Skew) + Second
  BY <1>1, FloorBounds
<1>7. Second * p + Second * k = Second * (p + k)
  BY <1>1
<1>8. q <= p + k
  <2>1. Second * q < Second * (p + k) + Second
    BY <1>1, <1>2, <1>3, <1>4, <1>5, <1>6, <1>7
  <2> QED
    BY <1>1, <2>1, MultipleGap
<1>9. p + k <= q
  <2>1. Second * (p + k) < Second * q + Second
    BY <1>1, <1>2, <1>3, <1>4, <1>5, <1>6, <1>7
  <2> QED
    BY <1>1, <2>1, MultipleGap
<1> QED
  BY <1>1, <1>2, <1>3, <1>4, <1>7, <1>8, <1>9

-----------------------------------------------------------------------------
(* Types.                                                                  *)

\* Every variable of a request and of its token stays within its type
\* (handleJump and verifyJumpJwt).
THEOREM TypeCorrect == Spec => []TypeOK
<1>1. Init => TypeOK
  BY UnitTypes DEF Init, TypeOK
<1>2. TypeOK /\ [Next]_vars => TypeOK'
  <2> SUFFICES ASSUME TypeOK, [Next]_vars PROVE TypeOK'
    OBVIOUS
  <2>1. CASE Present
    <3>1. now' \in 0 .. MaxClock
      <4>1. clock \in Int /\ clock >= 0 /\ now' = Floor(clock) /\ clock <= MaxClock
        BY <2>1 DEF Present, TypeOK
      <4>2. Floor(0) <= Floor(clock) /\ Floor(clock) <= clock /\ Floor(clock) \in Int
        BY <4>1, FloorMonotone, FloorBounds
      <4>3. Floor(0) = 0
        <5>1. 0 % Second = 0
          BY UnitTypes
        <5> QED
          BY <5>1 DEF Floor
      <4> QED
        BY <4>1, <4>2, <4>3, UnitTypes
    <3> QED
      BY <2>1, <3>1 DEF Present, TypeOK
  <2>2. CASE Judge
    BY <2>2, UnitTypes DEF Judge, Judgement, TypeOK
  <2>3. CASE GiveUp
    BY <2>3 DEF GiveUp, TypeOK
  <2>4. CASE Tick
    BY <2>4, UnitTypes DEF Tick, TypeOK
  <2>5. CASE UNCHANGED vars
    BY <2>5 DEF vars, TypeOK
  <2> QED
    BY <2>1, <2>2, <2>3, <2>4, <2>5 DEF Next
<1> QED
  BY <1>1, <1>2, PTL DEF Spec

-----------------------------------------------------------------------------
(* When a token is honoured.                                               *)

\* A request at work has captured the second it arrived in, after the token
\* was made, and its deadline has not passed unseen.
Captured ==
  phase = "judging" =>
    /\ began <= clock /\ clock <= began + Deadline
    /\ now = Floor(began)
    /\ minted.at <= began

LEMMA CapturedAlways == Spec => []Captured
<1>1. Init => Captured
  BY DEF Init, Captured
<1>2. TypeOK /\ Captured /\ [Next]_vars => Captured'
  <2> SUFFICES ASSUME TypeOK, Captured, [Next]_vars PROVE Captured'
    OBVIOUS
  <2> USE UnitTypes DEF TypeOK, Captured, Mintings
  <2>1. CASE Present
    <3>1. clock' = clock /\ minted' = minted /\ began' = clock /\ now' = Floor(clock)
      BY <2>1 DEF Present
    <3>2. minted.at <= clock
      BY <2>1 DEF Present
    <3> QED
      BY <3>1, <3>2 DEF Floor
  <2>2. CASE Judge \/ GiveUp
    BY <2>2 DEF Judge, GiveUp
  <2>3. CASE Tick
    BY <2>3 DEF Tick, Floor
  <2>4. CASE UNCHANGED vars
    BY <2>4 DEF vars, Floor
  <2> QED
    BY <2>1, <2>2, <2>3, <2>4 DEF Next
<1> QED
  BY <1>1, <1>2, TypeCorrect, PTL DEF Spec

LEMMA DatesAreNumbers ==
  ASSUME TypeOK
  PROVE  /\ token.iat \in Int /\ token.nbf \in Int /\ token.exp \in Int
         /\ clock \in Int /\ began \in Int /\ now \in Int
         /\ minted.at \in 0 .. MaxClock /\ minted.drift \in -MaxDrift .. MaxDrift
BY UnitTypes DEF TypeOK, Tokens, Dates, NoDate, LastDate, Mintings

\* What an accepted token's dates satisfy at the second the request captured.
LEMMA AcceptedDates ==
  ASSUME TypeOK, Judgement(token) = "accepted"
  PROVE  /\ token.exp > now - Skew
         /\ token.iat <= now + Skew /\ token.nbf <= now + Skew
         /\ token.exp - token.iat <= MaxTTL
BY DatesAreNumbers, UnitTypes DEF Judgement, JoseExpired, JoseEarly, Valid, Shaped

LEMMA OnlyJudgeAccepts ==
  ASSUME [Next]_vars, Accepts
  PROVE  Judge /\ Judgement(token) = "accepted"
BY DEF Next, vars, Accepts, Present, Judge, GiveUp, Tick

\* A token is honoured neither Skew before its dates nor after its life, the
\* skew, the deadline and a second (now of handleJump, validateClaim).
THEOREM HonouredOnlyInTime == Spec => HonouredInTime
<1> DEFINE InTime ==
      /\ clock >= token.iat - Skew /\ clock >= token.nbf - Skew
      /\ clock < token.exp + Skew + Deadline + Second
      /\ clock < token.iat + MaxTTL + Skew + Deadline + Second
<1>1. TypeOK /\ Captured /\ [Next]_vars => (Accepts => InTime)
  <2> SUFFICES ASSUME TypeOK, Captured, [Next]_vars, Accepts PROVE InTime
    OBVIOUS
  <2>1. Judgement(token) = "accepted"
    BY OnlyJudgeAccepts
  <2>2. /\ began <= clock /\ clock <= began + Deadline
        /\ now <= began /\ began < now + Second
    <3>1. began \in Int
      BY DatesAreNumbers
    <3> QED
      BY <3>1, FloorBounds DEF Captured, Accepts
  <2> QED
    BY <2>1, <2>2, AcceptedDates, DatesAreNumbers, UnitTypes
<1>2. TypeOK /\ Captured /\ [Next]_vars => [Accepts => InTime]_vars
  BY <1>1
<1> QED
  BY <1>2, TypeCorrect, CapturedAlways, PTL DEF Spec, HonouredInTime

\* What a token is exchanged for ends within the token's own longest life plus
\* the skew and one outbound life, however often it is exchanged
\* (buildInternalLocation).
THEOREM ExchangesAreBounded == Spec => []ExchangeIsBounded
<1>1. Init => ExchangeIsBounded
  BY DEF Init, ExchangeIsBounded
<1>2. TypeOK /\ ExchangeIsBounded /\ [Next]_vars => ExchangeIsBounded'
  <2> SUFFICES ASSUME TypeOK, ExchangeIsBounded, [Next]_vars PROVE ExchangeIsBounded'
    OBVIOUS
  <2>1. CASE Judge /\ Judgement(token) = "accepted"
    <3>1. outbound'.exp = now + OutboundTTL /\ token' = token
      BY <2>1 DEF Judge
    <3> QED
      BY <3>1, <2>1, AcceptedDates, DatesAreNumbers, UnitTypes DEF ExchangeIsBounded
  <2>2. CASE UNCHANGED <<token, outbound>>
    BY <2>2 DEF ExchangeIsBounded
  <2> QED
    BY <2>1, <2>2 DEF Next, vars, Present, Judge, GiveUp, Tick
<1> QED
  BY <1>1, <1>2, TypeCorrect, PTL DEF Spec

-----------------------------------------------------------------------------
(* A contract-abiding issuer.                                              *)

\* At the second a request captures, the rounded dates of a clock that is off
\* by at most Skew lie within the tolerance on both sides.
LEMMA DriftIsTolerated ==
  ASSUME NEW made \in Int, NEW drift \in -Skew .. Skew, NEW t \in Int, made <= t
  PROVE  /\ Floor(made + drift) <= Floor(t) + Skew
         /\ Floor(made) - Skew <= Floor(made + drift)
<1>1. Skew \in Int /\ drift \in Int /\ -Skew <= drift /\ drift <= Skew
  BY UnitTypes
<1>2. Floor(made + drift) <= Floor(made + Skew)
  BY <1>1, FloorMonotone
<1>3. Floor(made + Skew) = Floor(made) + Skew
  BY FloorShift
<1>4. Floor(made - Skew) <= Floor(made + drift)
  BY <1>1, FloorMonotone
<1>5. Floor(made) = Floor(made - Skew) + Skew
  <2>1. Floor((made - Skew) + Skew) = Floor(made - Skew) + Skew
    BY <1>1, FloorShift
  <2>2. (made - Skew) + Skew = made
    BY <1>1
  <2> QED
    BY <2>1, <2>2
<1>6. Floor(made) <= Floor(t)
  BY FloorMonotone
<1>7. /\ Floor(made) \in Int /\ Floor(t) \in Int
      /\ Floor(made + drift) \in Int /\ Floor(made - Skew) \in Int
  BY <1>1, FloorBounds
<1> QED
  BY <1>1, <1>2, <1>3, <1>4, <1>5, <1>6, <1>7

\* A token made by the rules, with a clock at most Skew off, is never refused
\* for its dates while its life lasts (jwtVerify and validateClaim).
THEOREM RegularIsHonoured == Spec => RegularHonoured
<1> DEFINE Claim ==
      phase = "judging" /\ phase' = "idle" /\ Regular
        /\ minted.drift \in -Skew .. Skew
        /\ began < Floor(minted.at) + (token.exp - token.iat)
      => verdict' \in {"accepted", "deadline_exceeded"}
<1>1. TypeOK /\ Captured /\ [Next]_vars => Claim
  <2> SUFFICES ASSUME TypeOK, Captured, [Next]_vars,
                      phase = "judging", phase' = "idle", Regular,
                      minted.drift \in -Skew .. Skew,
                      began < Floor(minted.at) + (token.exp - token.iat)
               PROVE  verdict' \in {"accepted", "deadline_exceeded"}
    OBVIOUS
  <2>1. CASE GiveUp
    BY <2>1 DEF GiveUp
  <2>2. CASE Judge
    <3> USE DatesAreNumbers, UnitTypes
    <3>1. /\ token.iat <= Floor(began) + Skew
          /\ Floor(minted.at) - Skew <= token.iat
          /\ token.nbf = token.iat /\ token.iat = Floor(minted.at + minted.drift)
      BY DriftIsTolerated DEF Captured, Regular, Written
    <3>2. token.exp - token.iat >= 1 /\ token.exp - token.iat <= MaxTTL
      BY DEF Regular
    <3>3. now = Floor(began) /\ now \in Int /\ now <= began
      BY FloorBounds DEF Captured
    <3>4. token.iat <= MaxClock + MaxDrift
      <4>1. Floor(minted.at + minted.drift) <= minted.at + minted.drift
        BY FloorBounds
      <4> QED
        BY <3>1, <4>1
    <3>5. Floor(minted.at) \in Int
      BY FloorBounds
    <3>6. token.exp > now - Skew
      BY <3>1, <3>3, <3>5
    <3>7. Shaped(token)
      BY <3>1, <3>2, <3>4 DEF Shaped, NoDate, LastDate
    <3>8. ~JoseEarly(token) /\ ~JoseExpired(token)
      BY <3>1, <3>3, <3>6 DEF JoseEarly, JoseExpired
    <3>9. Valid(token)
      BY <3>1, <3>2, <3>3, <3>6, <3>7 DEF Valid
    <3>10. Judgement(token) = "accepted"
      BY <3>8, <3>9 DEF Judgement
    <3> QED
      BY <2>2, <3>10 DEF Judge
  <2> QED
    BY <2>1, <2>2 DEF Next, vars, Present, Tick
<1>2. TypeOK /\ Captured /\ [Next]_vars => [Claim]_vars
  BY <1>1
<1> QED
  BY <1>2, TypeCorrect, CapturedAlways, PTL DEF Spec, RegularHonoured
=============================================================================
