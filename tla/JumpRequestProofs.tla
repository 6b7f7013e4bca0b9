------------------------- MODULE JumpRequestProofs -------------------------
(***************************************************************************)
(* Proofs about JumpRequest, for every request, token and set of bindings: *)
(* what a request may make the service do, what it is answered and what is *)
(* logged of it, whenever the deadline fires and whatever works on after.  *)
(***************************************************************************)
EXTENDS JumpRequest, TLAPS

-----------------------------------------------------------------------------
(* Type correctness.                                                       *)

LEMMA ResponseTypes ==
  /\ \A code \in Codes : Error(code) \in Responses
  /\ {None, Cushion, Redirect, Page, Nothing, Missing, About, Unslashed} \subseteq Responses
BY DEF Responses, Answers

LEMMA ConcludeType ==
  ASSUME TypeOK, NEW entry \in Codes \cup {"accept"}, NEW x \in Responses, Conclude(entry, x)
  PROVE  TypeOK'
BY DEF TypeOK, Conclude, Returned, Logged, Raced

LEMMA RejectType ==
  ASSUME TypeOK, NEW code \in Codes, Reject(code)
  PROVE  TypeOK'
BY ResponseTypes, ConcludeType DEF Reject

LEMMA RefuseType ==
  ASSUME TypeOK, NEW code \in Codes, Refuse(code)
  PROVE  TypeOK'
BY ResponseTypes DEF TypeOK, Refuse, Raced

LEMMA AnswerType ==
  ASSUME TypeOK, NEW x \in Responses, Answer(x)
  PROVE  TypeOK'
BY DEF TypeOK, Answer, Raced

LEMMA InitType == Init => TypeOK
<1>1. None \in Responses
  BY ResponseTypes
<1>2. Init => input \in Inputs /\ env \in Envs /\ pc \in Raced \cup {"start", "checking", "over"}
  BY DEF Init
<1>3. Init => tries \in 0 .. 2
  BY DEF Init
<1>4. Init => aborted \in BOOLEAN
  BY DEF Init
<1>5. Init => audit \in Codes \cup {"none", "accept"}
  BY DEF Init
<1>6. Init => response \in Responses
  BY <1>1 DEF Init
<1>7. Init => /\ log \in SUBSET (Codes \cup {"accept", "skipped"})
              /\ reached \in SUBSET {"limiter", "assets", "keys", "signer"}
  BY DEF Init
<1> QED
  BY <1>2, <1>3, <1>4, <1>5, <1>6, <1>7 DEF TypeOK

LEMMA InformsType == Informs \in {Page, Missing, About, Unslashed}
<1>1. CASE input.path = "root"
  BY <1>1 DEF Informs
<1>2. CASE input.path = "page"
  BY <1>2 DEF Informs
<1>3. CASE input.path = "slashed"
  BY <1>3 DEF Informs
<1>4. CASE input.path \notin {"root", "page", "slashed"}
  BY <1>4 DEF Informs
<1> QED
  BY <1>1, <1>2, <1>3, <1>4

-----------------------------------------------------------------------------
(* The inductive invariant.                                                *)

Admitted == Configured /\ input.here /\ input.read /\ input.ip /\ ~QueryRefused

\* A request under work has passed dispatch and the checks of the step it is
\* in, and is open, unless it is a signature check that outlived the answer.
Consistent ==
  /\ pc \notin {"start", "over"} => "limiter" \in reached /\ Admitted
  /\ pc = "start" => reached = {}
  /\ pc \in {"start", "limiting"} => tries = 0
  /\ pc = "asset" => input.path = "asset"
  /\ pc = "publishing" => input.path = "jwks"
  /\ pc \in {"keys", "checking"} => CarriesToken(input) /\ ~Unusable
  /\ pc = "keys" => tries <= 1
  /\ pc = "signing" => Admissible(input) /\ input.dst = "internal"
  /\ pc = "over" => response # None
  /\ pc # "over" => response = None \/ (pc = "checking" /\ aborted)
  /\ response = None => log \subseteq {"skipped"} /\ ~aborted

Sound == Consistent /\ CallsAreEarned /\ LogTellsAnswer

-----------------------------------------------------------------------------
(* What a step does, seen from outside: it goes on, it gives the answer, or*)
(* it is late work, which is dropped.                                      *)

\* The work goes on at next, the dependency called; nothing is answered.
GoesOn(next, dependency, entries) ==
  /\ pc' = next /\ reached' = reached \cup dependency
  /\ UNCHANGED <<input, env, aborted, response>>
  /\ log' = log \cup entries

\* The request is answered x; entries are logged.
Ends(x, entries) ==
  /\ response = None /\ response' = x
  /\ log' = log \cup entries
  /\ UNCHANGED <<input, env, reached>>
  /\ pc' # "over" => pc = "checking" /\ pc' = "checking" /\ aborted'

Dropped == aborted /\ pc' = "over" /\ UNCHANGED <<input, env, aborted, response, log, reached>>

Skips == {{}, {"skipped"}}

\* The codes under which an error may be logged and answered.
Erring ==
  \/ \E code \in Codes, skip \in Skips : Ends(Error(code), {code} \cup skip)
  \/ \E code \in {"method_not_allowed", "rate_limited"} : Ends(Error(code), {})

Informing == \E x \in Answers, skip \in Skips :
               ~CarriesToken(input) /\ x \in Informative(input) /\ Ends(x, skip)

Granting == Admissible(input) /\ Ends(Jump(input), {"accept"})

Going ==
  \/ pc = "start" /\ Admitted /\ GoesOn("limiting", {"limiter"}, {}) /\ UNCHANGED tries
  \/ \E skip \in Skips :
       /\ pc = "limiting" /\ UNCHANGED tries
       /\ \/ input.path = "asset" /\ GoesOn("asset", {"assets"}, skip)
          \/ input.path = "jwks" /\ GoesOn("publishing", {"signer"}, skip)
          \/ CarriesToken(input) /\ ~Unusable /\ GoesOn("keys", {"keys"}, skip)
  \/ pc = "keys" /\ GoesOn("checking", {}, {})
  \/ /\ pc = "checking" /\ ~aborted
     /\ \/ tries = 1 /\ GoesOn("keys", {}, {}) /\ UNCHANGED tries
        \/ Admissible(input) /\ input.dst = "internal" /\ GoesOn("signing", {"signer"}, {})

LEMMA RefuseErrs ==
  ASSUME response = None, NEW code \in Codes, Refuse(code)
  PROVE  Erring
BY DEF Refuse, Erring, Ends, Skips

\* An open request that concludes is answered, a late one drops its result.
LEMMA ConcludeEnds ==
  ASSUME Consistent, pc # "over", NEW entry, NEW x, Conclude(entry, x)
  PROVE  Dropped \/ Ends(x, {entry})
BY DEF Consistent, Conclude, Returned, Logged, Dropped, Ends

LEMMA RejectErrs ==
  ASSUME Consistent, pc # "over", NEW code \in Codes, Reject(code)
  PROVE  Dropped \/ Erring
<1>1. Dropped \/ Ends(Error(code), {code})
  BY ConcludeEnds DEF Reject
<1>2. {code} = {code} \cup {}
  OBVIOUS
<1> QED
  BY <1>1, <1>2 DEF Erring, Skips

LEMMA AnswerInforms ==
  ASSUME response = None, ~CarriesToken(input), NEW x \in Informative(input), Answer(x)
  PROVE  Informing
<1>1. x \in Answers
  BY DEF Informative
<1>2. Ends(x, {})
  BY DEF Answer, Ends
<1> QED
  BY <1>1, <1>2 DEF Informing, Skips

\* A token whose signature and claims hold and whose target is allowed has no
\* fault left.
LEMMA Faultless ==
  ASSUME TypeOK, Consistent, pc = "checking", Judged, {"url", "policy"} \cap input.faults = {}
  PROVE  Admissible(input)
<1>1. input.here /\ input.read /\ CarriesToken(input)
  BY DEF Consistent, Admitted
<1>2. {"shape", "issuer"} \cap input.faults = {}
  BY DEF Consistent, Unusable
<1>3. input.faults \subseteq Faults
  BY DEF TypeOK, Inputs
<1>4. input.faults = {}
  BY <1>2, <1>3 DEF Judged, Verifies, Faults
<1> QED
  BY <1>1, <1>4 DEF Admissible

LEMMA CheckSeen ==
  ASSUME TypeOK, Consistent, Check
  PROVE  Erring \/ Granting \/ Going \/ Dropped
<1>0. pc = "checking"
  BY DEF Check, CheckFails, ClaimsRefused, TooLate, TargetRefused, GrantCushion, AskSigner,
         Judged, Verifies
<1>1. ASSUME NEW code \in Codes, Reject(code) PROVE Erring \/ Dropped
  BY <1>0, <1>1, RejectErrs
<1>2. CASE CheckFails
  <2>1. {"invalid_signature", "deadline_exceeded"} \subseteq Codes
    BY DEF Codes, ClientDenied
  <2>2. CASE Retriable /\ ~aborted /\ pc' = "keys" /\
             UNCHANGED <<input, env, tries, aborted, audit, response, log, reached>>
    BY <1>0, <2>2 DEF Going, GoesOn, Retriable
  <2> QED
    BY <1>1, <1>2, <2>1, <2>2 DEF CheckFails
<1>3. CASE ClaimsRefused
  BY <1>1, <1>3 DEF ClaimsRefused, Codes, ClientDenied
<1>4. CASE TooLate
  BY <1>1, <1>4 DEF TooLate, Codes
<1>5. CASE TargetRefused
  BY <1>1, <1>5 DEF TargetRefused, Codes, ClientDenied
<1>6. CASE GrantCushion
  <2>1. Admissible(input) /\ Jump(input) = Cushion
    BY <1>0, <1>6, Faultless DEF GrantCushion, Jump
  <2>2. Dropped \/ Ends(Cushion, {"accept"})
    BY <1>0, <1>6, ConcludeEnds DEF GrantCushion
  <2> QED
    BY <2>1, <2>2 DEF Granting
<1>7. CASE AskSigner
  <2>1. Admissible(input) /\ input.dst = "internal" /\ ~aborted
    BY <1>0, <1>7, Faultless DEF AskSigner, Judged
  <2> QED
    BY <1>0, <1>7, <2>1 DEF AskSigner, Call, Going, GoesOn
<1> QED
  BY <1>2, <1>3, <1>4, <1>5, <1>6, <1>7 DEF Check

LEMMA PassSeen ==
  ASSUME TypeOK, Consistent, NEW skip \in Skips,
         \/ ToAsset(skip) \/ NoAssets(skip) \/ ToKeySet(skip) \/ ToPage(skip)
         \/ ToJump(skip) \/ ToRefusal(skip) \/ NoApp(skip)
  PROVE  Erring \/ Informing \/ Going
<1>0. pc = "limiting" /\ response = None /\ ~QueryRefused
  BY DEF ToAsset, NoAssets, ToKeySet, ToPage, ToJump, ToRefusal, NoApp, Pass, Consistent, Admitted
<1>1. CASE ToAsset(skip)
  BY <1>0, <1>1 DEF ToAsset, Pass, Call, Going, GoesOn
<1>2. CASE ToKeySet(skip)
  BY <1>0, <1>2 DEF ToKeySet, Pass, Call, Going, GoesOn
<1>3. CASE ToJump(skip)
  BY <1>0, <1>3 DEF ToJump, Pass, Call, Going, GoesOn
<1>4. CASE NoAssets(skip)
  <2>1. Nothing \in Answers /\ Nothing \in Informative(input)
    BY DEF Answers, Informative, Nothing, Unslashed
  <2>2. ~CarriesToken(input)
    BY <1>4 DEF NoAssets, CarriesToken
  <2>3. Ends(Nothing, skip)
    BY <1>0, <1>4 DEF NoAssets, Pass, Ends
  <2> QED
    BY <2>1, <2>2, <2>3 DEF Informing
<1>5. CASE ToPage(skip)
  <2>1. ~CarriesToken(input)
    BY <1>5 DEF ToPage, CarriesToken
  <2>2. Informs \in Answers
    BY InformsType DEF Answers
  <2>3. Informs \in Informative(input)
    <3>1. CASE input.path = "slashed"
      BY <1>0, <2>2, <3>1 DEF QueryRefused, Informative
    <3>2. CASE input.path # "slashed"
      <4>1. Informs # Unslashed
        BY <3>2 DEF Informs, Unslashed, Page, About, Missing
      <4> QED
        BY <2>2, <4>1 DEF Informative
    <3> QED
      BY <3>1, <3>2
  <2>4. Ends(Informs, skip)
    BY <1>0, <1>5 DEF ToPage, Pass, Ends
  <2> QED
    BY <2>1, <2>2, <2>3, <2>4 DEF Informing
<1>6. CASE ToRefusal(skip)
  <2>1. PICK code \in {"malformed", "invalid_header", "invalid_claim"} :
          response' = Error(code) /\ log' = log \cup skip \cup {code}
    BY <1>6 DEF ToRefusal
  <2>2. code \in Codes
    BY DEF Codes, ClientDenied
  <2>3. Ends(Error(code), {code} \cup skip)
    BY <1>0, <1>6, <2>1 DEF ToRefusal, Ends
  <2> QED
    BY <2>2, <2>3 DEF Erring
<1>7. CASE NoApp(skip)
  <2>1. "signer_unavailable" \in Codes
    BY DEF Codes
  <2>2. Ends(Error("signer_unavailable"), {"signer_unavailable"} \cup skip)
    BY <1>0, <1>7 DEF NoApp, Ends
  <2> QED
    BY <2>1, <2>2 DEF Erring
<1> QED
  BY <1>1, <1>2, <1>3, <1>4, <1>5, <1>6, <1>7

LEMMA DispatchSeen ==
  ASSUME TypeOK, Consistent, Dispatch
  PROVE  Erring \/ Going
<1>0. pc = "start" /\ response = None
  BY DEF Dispatch, RefuseOutright, AskLimiter, Consistent
<1>1. CASE AskLimiter
  BY <1>0, <1>1 DEF AskLimiter, Call, Going, GoesOn, Admitted, Limitable
<1>2. CASE Answer(Error("method_not_allowed"))
  BY <1>0, <1>2 DEF Answer, Erring, Ends
<1>3. CASE Refuse("signer_unavailable") \/ Refuse("malformed")
  BY <1>0, <1>3, RefuseErrs DEF Codes, ClientDenied
<1> QED
  BY <1>1, <1>2, <1>3 DEF Dispatch, RefuseOutright

\* Every step gives the one answer, or goes on, or is dropped.
LEMMA StepSeen ==
  ASSUME TypeOK, Consistent, Next
  PROVE  Erring \/ Informing \/ Granting \/ Going \/ Dropped
<1> USE DEF Consistent
<1>1. CASE Dispatch
  BY <1>1, DispatchSeen
<1>2. CASE Limited
  BY <1>2 DEF Limited, Answer, Erring, Ends
<1>3. CASE LimiterGarbled
  BY <1>3, RefuseErrs DEF LimiterGarbled, Codes
<1>4. CASE LimiterPasses
  BY <1>4, PassSeen DEF LimiterPasses, Skips
<1>5. CASE AssetAnswers
  <2>1. pc = "asset" /\ response = None /\ input.path = "asset"
    BY <1>5 DEF AssetAnswers
  <2>2. CASE Refuse("internal_error")
    BY <2>1, <2>2, RefuseErrs DEF Codes
  <2>3. CASE Answer(Page)
    BY <2>1, <2>3, AnswerInforms DEF CarriesToken, Informative, Answers, Page, Unslashed
  <2> QED
    BY <1>5, <2>2, <2>3 DEF AssetAnswers
<1>6. CASE KeySetAnswers
  <2>1. pc = "publishing" /\ response = None /\ input.path = "jwks"
    BY <1>6 DEF KeySetAnswers
  <2>2. ASSUME NEW code \in {"signer_unavailable", "deadline_exceeded"}, Refuse(code)
        PROVE  Erring
    BY <2>1, <2>2, RefuseErrs DEF Codes
  <2>3. CASE Answer(Page)
    BY <2>1, <2>3, AnswerInforms DEF CarriesToken, Informative, Answers, Page, Unslashed
  <2> QED
    BY <1>6, <2>2, <2>3 DEF KeySetAnswers
<1>7. CASE KeyFound
  BY <1>7 DEF KeyFound, Going, GoesOn
<1>8. CASE KeyRefused
  BY <1>8, RejectErrs DEF KeyRefused, Codes, ClientDenied
<1>9. CASE Check
  BY <1>9, CheckSeen
<1>10. CASE SignerAnswers
  <2>1. pc = "signing" /\ Admissible(input) /\ input.dst = "internal"
    BY <1>10 DEF SignerAnswers
  <2>2. CASE Conclude("accept", Redirect)
    <3>1. Dropped \/ Ends(Redirect, {"accept"})
      BY <2>1, <2>2, ConcludeEnds
    <3> QED
      BY <2>1, <3>1 DEF Granting, Jump
  <2>3. ASSUME NEW code \in {"signer_unavailable", "deadline_exceeded", "invalid_claim",
                             "internal_error"}, Reject(code)
        PROVE  Erring \/ Dropped
    BY <2>1, <2>3, RejectErrs DEF Codes, ClientDenied
  <2> QED
    BY <1>10, <2>2, <2>3 DEF SignerAnswers
<1>11. CASE Deadline
  <2>1. "deadline_exceeded" \in Codes
    BY DEF Codes
  <2>2. Ends(Error("deadline_exceeded"), {"deadline_exceeded"} \cup {})
    BY <1>11 DEF Deadline, Ends
  <2> QED
    BY <2>1, <2>2 DEF Erring, Skips
<1> QED
  BY <1>1, <1>2, <1>3, <1>4, <1>5, <1>6, <1>7, <1>8, <1>9, <1>10, <1>11 DEF Next

-----------------------------------------------------------------------------
(* Type correctness of every step.                                         *)

LEMMA PassType ==
  ASSUME TypeOK, NEW skip \in Skips,
         \/ ToAsset(skip) \/ NoAssets(skip) \/ ToKeySet(skip) \/ ToPage(skip)
         \/ ToJump(skip) \/ ToRefusal(skip) \/ NoApp(skip)
  PROVE  TypeOK'
<1> USE DEF TypeOK, Skips, Raced
<1>1. CASE ToAsset(skip) \/ ToKeySet(skip) \/ ToJump(skip)
  BY <1>1 DEF ToAsset, ToKeySet, ToJump, Pass, Call
<1>2. CASE NoAssets(skip)
  BY <1>2, ResponseTypes DEF NoAssets, Pass
<1>3. CASE ToPage(skip)
  BY <1>3, ResponseTypes, InformsType DEF ToPage, Pass
<1>4. CASE ToRefusal(skip)
  <2>1. PICK code \in {"malformed", "invalid_header", "invalid_claim"} :
          audit' = code /\ response' = Error(code) /\ log' = log \cup skip \cup {code}
    BY <1>4 DEF ToRefusal
  <2>2. code \in Codes
    BY DEF Codes, ClientDenied
  <2>3. response' \in Responses
    BY <2>1, <2>2, ResponseTypes
  <2> QED
    BY <1>4, <2>1, <2>2, <2>3 DEF ToRefusal
<1>5. CASE NoApp(skip)
  <2>1. "signer_unavailable" \in Codes
    BY DEF Codes
  <2>2. response' \in Responses
    BY <1>5, <2>1, ResponseTypes DEF NoApp
  <2> QED
    BY <1>5, <2>1, <2>2 DEF NoApp
<1> QED
  BY <1>1, <1>2, <1>3, <1>4, <1>5

LEMMA CheckType ==
  ASSUME TypeOK, Check
  PROVE  TypeOK'
<1>1. CASE CheckFails
  <2>1. {"invalid_signature", "deadline_exceeded"} \subseteq Codes
    BY DEF Codes, ClientDenied
  <2>2. CASE pc' = "keys" /\
             UNCHANGED <<input, env, tries, aborted, audit, response, log, reached>>
    BY <2>2 DEF TypeOK, Raced
  <2> QED
    BY <1>1, <2>1, <2>2, RejectType DEF CheckFails
<1>2. CASE ClaimsRefused
  BY <1>2, RejectType DEF ClaimsRefused, Codes, ClientDenied
<1>3. CASE TooLate
  BY <1>3, RejectType DEF TooLate, Codes
<1>4. CASE TargetRefused
  BY <1>4, RejectType DEF TargetRefused, Codes, ClientDenied
<1>5. CASE GrantCushion
  BY <1>5, ResponseTypes, ConcludeType DEF GrantCushion
<1>6. CASE AskSigner
  BY <1>6 DEF AskSigner, Call, TypeOK, Raced
<1> QED
  BY <1>1, <1>2, <1>3, <1>4, <1>5, <1>6 DEF Check

LEMMA NextType ==
  ASSUME TypeOK, Consistent, [Next]_vars
  PROVE  TypeOK'
<1>1. CASE Dispatch
  <2>1. {"signer_unavailable", "malformed", "method_not_allowed"} \subseteq Codes
    BY DEF Codes, ClientDenied
  <2>2. CASE RefuseOutright
    BY <2>1, <2>2, RefuseType, AnswerType, ResponseTypes DEF RefuseOutright
  <2>3. CASE AskLimiter
    BY <2>3 DEF AskLimiter, Call, TypeOK, Raced
  <2> QED
    BY <1>1, <2>2, <2>3 DEF Dispatch
<1>2. CASE Limited \/ LimiterGarbled
  <2>1. {"rate_limited", "signer_unavailable"} \subseteq Codes
    BY DEF Codes
  <2> QED
    BY <1>2, <2>1, RefuseType, AnswerType, ResponseTypes DEF Limited, LimiterGarbled
<1>3. CASE LimiterPasses
  BY <1>3, PassType DEF LimiterPasses, Skips
<1>4. CASE AssetAnswers \/ KeySetAnswers
  <2>1. {"internal_error", "signer_unavailable", "deadline_exceeded"} \subseteq Codes
    BY DEF Codes
  <2> QED
    BY <1>4, <2>1, RefuseType, AnswerType, ResponseTypes DEF AssetAnswers, KeySetAnswers
<1>5. CASE KeyFound
  BY <1>5 DEF KeyFound, Consistent, TypeOK
<1>6. CASE KeyRefused
  BY <1>6, RejectType DEF KeyRefused, Codes, ClientDenied
<1>7. CASE Check
  BY <1>7, CheckType
<1>8. CASE SignerAnswers
  <2>1. {"signer_unavailable", "deadline_exceeded", "invalid_claim", "internal_error"}
          \subseteq Codes
    BY DEF Codes, ClientDenied
  <2> QED
    BY <1>8, <2>1, RejectType, ConcludeType, ResponseTypes DEF SignerAnswers
<1>9. CASE Deadline
  <2>1. "deadline_exceeded" \in Codes
    BY DEF Codes
  <2>2. response' \in Responses
    BY <1>9, <2>1, ResponseTypes DEF Deadline
  <2> QED
    BY <1>9, <2>1, <2>2 DEF Deadline, TypeOK
<1>10. CASE UNCHANGED vars
  BY <1>10 DEF vars, TypeOK
<1> QED
  BY <1>1, <1>2, <1>3, <1>4, <1>5, <1>6, <1>7, <1>8, <1>9, <1>10 DEF Next

-----------------------------------------------------------------------------
(* The invariant.                                                          *)

LEMMA Kinds ==
  /\ \A code : Error(code).kind = "error" /\ Error(code).status = Status(code)
               /\ Error(code) # None
  /\ \A x \in {Cushion, Redirect} \cup Answers : x # None /\ x.kind \notin {"error", "none"}
  /\ Redirect.kind = "redirect" /\ Cushion.kind = "cushion"
  /\ None.kind = "none"
BY DEF Error, None, Cushion, Redirect, Answers, Page, Nothing, Missing, About, Unslashed

LEMMA InitSound == Init => Sound
BY DEF Init, Sound, Consistent, CallsAreEarned, LogTellsAnswer, None, Codes, ClientDenied

LEMMA GoingSound ==
  ASSUME TypeOK, Sound, Going
  PROVE  Sound'
<1> USE DEF Sound, GoesOn, Skips
<1>0. UNCHANGED <<input, env, aborted, response>> /\ response = None
  BY DEF Going, Consistent
<1>1. /\ Admitted' = Admitted /\ Unusable' = Unusable /\ CarriesToken(input)' = CarriesToken(input)
      /\ Admissible(input)' = Admissible(input) /\ Configured' = Configured
      /\ QueryRefused' = QueryRefused
  BY <1>0 DEF Admitted, Unusable, CarriesToken, Admissible, Configured, QueryRefused
<1>2. Consistent'
  BY <1>0, <1>1 DEF Going, Consistent
<1>3. CallsAreEarned'
  BY <1>0, <1>1 DEF Going, Consistent, CallsAreEarned, Admitted
<1>4. LogTellsAnswer'
  <2>1. log' \subseteq {"skipped"}
    BY <1>0 DEF Going, Consistent
  <2>2. "skipped" \notin Codes /\ response'.kind = "none"
    BY <1>0, Kinds DEF Codes, ClientDenied
  <2> QED
    BY <2>1, <2>2 DEF LogTellsAnswer
<1> QED
  BY <1>2, <1>3, <1>4

\* After the answer only a signature check may be under way.
LEMMA EndsConsistent ==
  ASSUME Sound, NEW x, NEW entries, Ends(x, entries), x # None
  PROVE  Consistent' /\ CallsAreEarned'
<1>1. /\ Admitted' = Admitted /\ Unusable' = Unusable /\ CarriesToken(input)' = CarriesToken(input)
      /\ Admissible(input)' = Admissible(input) /\ Configured' = Configured
      /\ QueryRefused' = QueryRefused
  BY DEF Ends, Admitted, Unusable, CarriesToken, Admissible, Configured, QueryRefused
<1>2. Consistent'
  BY <1>1 DEF Sound, Consistent, Ends
<1>3. CallsAreEarned'
  BY <1>1 DEF Sound, CallsAreEarned, Ends
<1> QED
  BY <1>2, <1>3

LEMMA NextSound ==
  ASSUME TypeOK, Sound, [Next]_vars
  PROVE  Sound'
<1>s. "skipped" \notin Codes /\ "accept" \notin Codes
  BY DEF Codes, ClientDenied
<1>n. response = None => log \subseteq {"skipped"}
  BY DEF Sound, Consistent
<1>1. CASE Erring
  <2>1. ASSUME NEW code \in Codes, NEW skip \in Skips, Ends(Error(code), {code} \cup skip)
        PROVE  Sound'
    <3>1. Consistent' /\ CallsAreEarned'
      BY <2>1, EndsConsistent, Kinds
    <3>2. log' \subseteq {code, "skipped"} /\ code \in log' /\ response' = Error(code)
      BY <1>n, <2>1 DEF Ends, Skips
    <3>3. LogTellsAnswer'
      BY <1>s, <3>2, Kinds DEF LogTellsAnswer
    <3> QED
      BY <3>1, <3>3 DEF Sound
  <2>2. ASSUME NEW code \in {"method_not_allowed", "rate_limited"}, Ends(Error(code), {})
        PROVE  Sound'
    <3>1. Consistent' /\ CallsAreEarned'
      BY <2>2, EndsConsistent, Kinds
    <3>2. log' \subseteq {"skipped"} /\ response' = Error(code)
      BY <1>n, <2>2 DEF Ends
    <3>3. Status(code) \in {405, 429}
      BY DEF Status, ClientDenied
    <3>4. LogTellsAnswer'
      BY <1>s, <3>2, <3>3, Kinds DEF LogTellsAnswer
    <3> QED
      BY <3>1, <3>4 DEF Sound
  <2> QED
    BY <1>1, <2>1, <2>2 DEF Erring
<1>2. CASE Informing
  <2>1. PICK x \in Answers, skip \in Skips : Ends(x, skip)
    BY <1>2 DEF Informing
  <2>2. Consistent' /\ CallsAreEarned'
    BY <2>1, EndsConsistent, Kinds
  <2>3. log' \subseteq {"skipped"} /\ response' = x
    BY <1>n, <2>1 DEF Ends, Skips
  <2>4. LogTellsAnswer'
    BY <1>s, <2>1, <2>3, Kinds DEF LogTellsAnswer
  <2> QED
    BY <2>2, <2>4 DEF Sound
<1>3. CASE Granting
  <2>1. Ends(Jump(input), {"accept"}) /\ Jump(input) \in {Redirect, Cushion}
    BY <1>3 DEF Granting, Jump
  <2>2. Consistent' /\ CallsAreEarned'
    BY <2>1, EndsConsistent, Kinds
  <2>3. log' \subseteq {"skipped", "accept"} /\ response' \in {Redirect, Cushion}
    BY <1>n, <2>1 DEF Ends
  <2>4. LogTellsAnswer'
    BY <1>s, <2>3, Kinds DEF LogTellsAnswer
  <2> QED
    BY <2>2, <2>4 DEF Sound
<1>4. CASE Going
  BY <1>4, GoingSound
<1>5. CASE Dropped
  <2>1. response # None
    BY <1>5 DEF Dropped, Sound, Consistent
  <2>2. Consistent'
    BY <1>5, <2>1 DEF Dropped, Consistent
  <2>3. CallsAreEarned' /\ LogTellsAnswer'
    BY <1>5 DEF Dropped, Sound, CallsAreEarned, LogTellsAnswer, Configured, QueryRefused,
                Unusable, Admissible, CarriesToken
  <2> QED
    BY <2>2, <2>3 DEF Sound
<1>6. CASE UNCHANGED vars
  BY <1>6 DEF vars, Sound, Consistent, CallsAreEarned, LogTellsAnswer, Configured, QueryRefused,
              Unusable, Admissible, CarriesToken, Admitted
<1> QED
  BY <1>1, <1>2, <1>3, <1>4, <1>5, <1>6, StepSeen DEF Sound

-----------------------------------------------------------------------------
(* The results.                                                            *)

\* A request keeps its type, its progress is consistent, and what has been
\* called, answered and logged for it agree: the inductive invariant.
THEOREM SoundAlways == Spec => [](TypeOK /\ Sound)
<1>1. Init => TypeOK /\ Sound
  BY InitType, InitSound
<1>2. TypeOK /\ Sound /\ [Next]_vars => TypeOK' /\ Sound'
  BY NextType, NextSound DEF Sound
<1> QED
  BY <1>1, <1>2, PTL DEF Spec

\* Type correctness of one request.
THEOREM RequestTypes == Spec => []TypeOK
BY SoundAlways, PTL

\* Nothing is called for a request dispatch refuses, no key is looked up for a
\* token of the wrong shape or issuer, and nothing is signed before all checks
\* (the order of dispatch and verifyJumpJwt).
THEOREM CallsEarned == Spec => []CallsAreEarned
<1>1. Sound => CallsAreEarned
  BY DEF Sound
<1> QED
  BY <1>1, SoundAlways, PTL

\* What is logged of a request agrees with what it has been answered.
THEOREM LogIsTrue == Spec => []LogTellsAnswer
<1>1. Sound => LogTellsAnswer
  BY DEF Sound
<1> QED
  BY <1>1, SoundAlways, PTL

-----------------------------------------------------------------------------
(* JumpRequest implements JumpContract.                                    *)

LEMMA StepRefines ==
  ASSUME TypeOK, Sound, [Next]_vars
  PROVE  [Contract!Next]_Contract!vars
<1>a. "accept" \notin Codes
  BY DEF Codes, ClientDenied
<1>n. response = None => log \subseteq {"skipped"}
  BY DEF Sound, Consistent
<1>1. CASE Erring
  <2>1. ASSUME NEW code \in Codes, NEW skip \in Skips, Ends(Error(code), {code} \cup skip)
        PROVE  Contract!Refuse
    BY <1>a, <1>n, <2>1 DEF Ends, Skips, Contract!Refuse
  <2>2. ASSUME NEW code \in {"method_not_allowed", "rate_limited"}, Ends(Error(code), {})
        PROVE  Contract!Refuse
    <3>1. code \in Codes
      BY DEF Codes
    <3> QED
      BY <1>a, <1>n, <2>2, <3>1 DEF Ends, Contract!Refuse
  <2> QED
    BY <1>1, <2>1, <2>2 DEF Erring, Contract!Next
<1>2. CASE Informing
  <2>1. Contract!Inform
    BY <1>n, <1>2 DEF Informing, Ends, Skips, Contract!Inform
  <2> QED
    BY <2>1 DEF Contract!Next
<1>3. CASE Granting
  <2>1. Contract!Grant
    BY <1>n, <1>3 DEF Granting, Ends, Contract!Grant
  <2> QED
    BY <2>1 DEF Contract!Next
<1>4. CASE Going
  <2>1. UNCHANGED <<input, response>> /\ ("accept" \in log' <=> "accept" \in log)
    BY <1>4 DEF Going, GoesOn, Skips
  <2> QED
    BY <2>1 DEF Contract!vars
<1>5. CASE Dropped
  BY <1>5 DEF Dropped, Contract!vars
<1>6. CASE UNCHANGED vars
  BY <1>6 DEF vars, Contract!vars
<1> QED
  BY <1>1, <1>2, <1>3, <1>4, <1>5, <1>6, StepSeen DEF Sound

\* One final answer per request, a jump only for a token without any fault and
\* only together with its audit entry, whatever late work does
\* (worker.fetch, raceWithDeadline, the audit entry of the root route).
THEOREM RequestImplementsContract == Spec => ImplementsContract
<1>1. Init => Contract!Init
  BY DEF Init, Contract!Init
<1>2. TypeOK /\ Sound /\ [Next]_vars => [Contract!Next]_Contract!vars
  BY StepRefines
<1> QED
  BY <1>1, <1>2, SoundAlways, PTL DEF Spec, ImplementsContract, Contract!Spec
=============================================================================
