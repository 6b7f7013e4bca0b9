---------------------------- MODULE JumpRequest ----------------------------
(***************************************************************************)
(* One request from the Worker's fetch handler to its answer: the checks of*)
(* dispatch and the rate limiter (cloudflare.ts), the routes and the       *)
(* deadline race of the application (index.ts), and the redirect handler   *)
(* (core/handle_jump.ts, core/verify_jwt.ts).  Requests share nothing but  *)
(* the two caches, which have modules of their own (JwksCache, KeyMaterial)*)
(* and answer here as they can answer there.                               *)
(*                                                                         *)
(* The code between two awaits is one step.  The deadline aborts a signal; *)
(* raceAbort makes every await under it give up in the same step, except   *)
(* jwtVerify, which runs on and whose continuation is late work.           *)
(***************************************************************************)
EXTENDS Naturals

Faults == {"shape", "issuer", "forged", "claims", "url", "policy"}
Paths == {"root",     \* /
          "slashes",  \* nothing but slashes, two or more
          "slashed",  \* any other path that ends in a slash
          "asset", "jwks",
          "page",     \* about, health, robots and sitemap
          "missing"}
Queries == {"empty",   \* no parameter
            "rt",      \* one non-empty rt and nothing else
            "stray",   \* an rt or rt[..] key in any other way
            "plain"}   \* other parameters only

VARIABLES
  input,     \* the request, as the checks see it
  env,       \* the bindings it is served with
  pc,        \* where the work on it is
  tries,     \* signature checks begun
  aborted,   \* signal.aborted
  audit,     \* pendingAudit: "none", "accept" or the code of a rejection
  response,  \* what fetch has returned
  log,       \* security log entries: "accept", "skipped" or a code
  reached    \* history: the dependencies it made the service call

vars == <<input, env, pc, tries, aborted, audit, response, log, reached>>

CarriesToken(i) == i.path = "root" /\ i.query = "rt"

\* A token is described by what is wrong with it and where it leads.
Inputs ==
  {i \in [here : BOOLEAN, read : BOOLEAN, ip : BOOLEAN, json : BOOLEAN, path : Paths,
          query : Queries, faults : SUBSET Faults, dst : {"internal", "external"}] :
     IF CarriesToken(i) THEN ~i.json ELSE i.faults = {} /\ i.dst = "internal"}
Envs == [origin : BOOLEAN, limiter : BOOLEAN, registry : BOOLEAN, assets : BOOLEAN]

ClientDenied == {"malformed", "invalid_header", "invalid_signature", "invalid_claim",
                 "expired", "invalid_dst", "invalid_url", "jwks_bad_gateway"}
Codes == ClientDenied \cup {"signer_unavailable", "jwks_unavailable", "deadline_exceeded",
                            "internal_error", "method_not_allowed", "rate_limited"}

Status(code) ==
  CASE code \in ClientDenied -> 400
    [] code = "method_not_allowed" -> 405
    [] code = "rate_limited" -> 429
    [] code \in {"signer_unavailable", "jwks_unavailable"} -> 503
    [] code = "deadline_exceeded" -> 504
    [] OTHER -> 500

None == [kind |-> "none", status |-> 0]
Page == [kind |-> "page", status |-> 200]
Nothing == [kind |-> "nothing", status |-> 204]
Missing == [kind |-> "missing", status |-> 404]
About == [kind |-> "about", status |-> 302]      \* to /about, without the query
Unslashed == [kind |-> "echo", status |-> 301]   \* to the same URL less one slash
Error(code) == [kind |-> "error", status |-> Status(code)]
Cushion == [kind |-> "cushion", status |-> 200]
Redirect == [kind |-> "redirect", status |-> 302]
Answers == {Page, Nothing, Missing, About, Unslashed}
Responses == {None, Cushion, Redirect} \cup Answers \cup {Error(c) : c \in Codes}

Raced == {"limiting", "asset", "keys", "signing", "publishing"}

TypeOK ==
  /\ input \in Inputs /\ env \in Envs
  /\ pc \in Raced \cup {"start", "checking", "over"}
  /\ tries \in 0 .. 2
  /\ aborted \in BOOLEAN
  /\ audit \in Codes \cup {"none", "accept"}
  /\ response \in Responses
  /\ log \in SUBSET (Codes \cup {"accept", "skipped"})
  /\ reached \in SUBSET {"limiter", "assets", "keys", "signer"}

Init ==
  /\ input \in Inputs /\ env \in Envs
  /\ pc = "start" /\ tries = 0
  /\ aborted = FALSE
  /\ audit = "none"
  /\ response = None
  /\ log = {}
  /\ reached = {}

-----------------------------------------------------------------------------
\* A plain answer, or one that nothing logs.
Answer(x) ==
  /\ pc' = "over" /\ response' = x
  /\ UNCHANGED <<input, env, tries, aborted, audit, log, reached>>

\* A failure that leaves dispatch (the adapter's catch) or a route (onError).
Refuse(code) ==
  /\ pc' = "over" /\ response' = Error(code) /\ log' = log \cup {code}
  /\ UNCHANGED <<input, env, tries, aborted, audit, reached>>

Call(dependency, next) ==
  /\ pc' = next /\ reached' = reached \cup {dependency}
  /\ UNCHANGED <<input, env, tries, aborted, audit, response>>

\* Mutations: late work still answers; late work still logs.
ReturnedLate(x) == x
LoggedLate(entry) == log \cup {entry}

Returned(x) == IF aborted THEN response ELSE x
Logged(entry) == IF aborted THEN log ELSE log \cup {entry}

\* handleJump ends.  Its audit entry is pending until the race with the
\* deadline is decided; after an abort both the entry and the response are
\* dropped.
Conclude(entry, x) ==
  /\ pc' = "over" /\ audit' = entry
  /\ response' = Returned(x) /\ log' = Logged(entry)
  /\ UNCHANGED <<input, env, tries, aborted, reached>>

Reject(code) == Conclude(code, Error(code))

-----------------------------------------------------------------------------
(* dispatch, up to the rate limiter.                                       *)

Configured == env.origin   \* a valid service origin that no issuer claims
QueryRefused == IF input.path = "root" THEN input.query \in {"stray", "plain"}
                                       ELSE input.query \in {"rt", "stray"}
\* Mutation of Limitable: the client address is not looked at.
LimitableByAnyone == env.limiter

Limitable == env.limiter /\ input.ip

RefuseOutright ==
  /\ pc = "start"
  /\ \/ ~Configured /\ Refuse("signer_unavailable")
     \/ Configured /\ ~input.here /\ Refuse("malformed")
     \/ Configured /\ input.here /\ ~input.read /\ Answer(Error("method_not_allowed"))
     \/ Configured /\ input.here /\ input.read /\ QueryRefused /\ Refuse("malformed")
     \/ /\ Configured /\ input.here /\ input.read /\ ~QueryRefused
        /\ ~Limitable /\ Refuse("signer_unavailable")

AskLimiter ==
  /\ pc = "start"
  /\ Configured /\ input.here /\ input.read /\ ~QueryRefused /\ Limitable
  /\ Call("limiter", "limiting") /\ UNCHANGED log

Limited ==
  /\ pc = "limiting"
  /\ Answer(Error("rate_limited"))

\* A result that is not { success: boolean }.
LimiterGarbled ==
  /\ pc = "limiting"
  /\ Refuse("signer_unavailable")

-----------------------------------------------------------------------------
(* The limiter lets the request pass, or its call throws; the request goes *)
(* to the assets or to a route.  The checks of verifyJumpJwt that need no  *)
(* key follow at once.                                                     *)

Pass(entries) == pc = "limiting" /\ log' = log \cup entries
Unusable == {"shape", "issuer"} \cap input.faults # {}

\* No ASSETS binding: an empty answer in place of the favicon.
NoAssets(entries) ==
  /\ Pass(entries) /\ input.path = "asset" /\ ~env.assets
  /\ pc' = "over" /\ response' = Nothing
  /\ UNCHANGED <<input, env, tries, aborted, audit, reached>>

ToAsset(entries) ==
  /\ Pass(entries) /\ input.path = "asset" /\ env.assets
  /\ Call("assets", "asset")

ToKeySet(entries) ==
  /\ Pass(entries) /\ input.path = "jwks" /\ env.registry
  /\ Call("signer", "publishing")

\* What the routes that need no dependency answer.  A path that ends in a slash
\* matches none, so trimTrailingSlash turns its 404 into a redirect that keeps
\* the query; a path of slashes only goes the way of any missing one.
Informs ==
  CASE input.path = "root" -> About
    [] input.path = "page" -> Page
    [] input.path = "slashed" -> Unslashed
    [] OTHER -> IF input.json THEN Missing ELSE About

ToPage(entries) ==
  /\ Pass(entries) /\ env.registry
  /\ input.path \in {"slashes", "slashed", "page", "missing"}
       \/ (input.path = "root" /\ input.query = "empty")
  /\ pc' = "over" /\ response' = Informs
  /\ UNCHANGED <<input, env, tries, aborted, audit, reached>>

ToJump(entries) ==
  /\ Pass(entries) /\ CarriesToken(input) /\ env.registry /\ ~Unusable
  /\ Call("keys", "keys")

\* The token is refused before any key is looked up.
ToRefusal(entries) ==
  /\ pc = "limiting" /\ CarriesToken(input) /\ env.registry /\ Unusable
  /\ \E code \in {"malformed", "invalid_header", "invalid_claim"} :
       /\ audit' = code /\ response' = Error(code) /\ log' = log \cup entries \cup {code}
  /\ pc' = "over"
  /\ UNCHANGED <<input, env, tries, aborted, reached>>

\* createApp rejects the registry.
NoApp(entries) ==
  /\ pc = "limiting" /\ input.path # "asset" /\ ~env.registry
  /\ pc' = "over" /\ response' = Error("signer_unavailable")
  /\ log' = log \cup entries \cup {"signer_unavailable"}
  /\ UNCHANGED <<input, env, tries, aborted, audit, reached>>

LimiterPasses ==
  \E entries \in {{}, {"skipped"}} :
    \/ ToAsset(entries) \/ NoAssets(entries) \/ ToKeySet(entries) \/ ToPage(entries)
    \/ ToJump(entries) \/ ToRefusal(entries) \/ NoApp(entries)

AssetAnswers ==
  /\ pc = "asset"
  /\ Answer(Page) \/ Refuse("internal_error")

KeySetAnswers ==
  /\ pc = "publishing"
  /\ \/ Answer(Page)
     \/ \E code \in {"signer_unavailable", "deadline_exceeded"} : Refuse(code)

-----------------------------------------------------------------------------
(* handleJump.                                                             *)

\* getKey: a deadline_exceeded is that of another request, whose load this
\* one shares.
KeyFound ==
  /\ pc = "keys"
  /\ pc' = "checking" /\ tries' = tries + 1
  /\ UNCHANGED <<input, env, aborted, audit, response, log, reached>>

KeyRefused ==
  /\ pc = "keys"
  /\ \E code \in {"invalid_signature", "jwks_unavailable", "jwks_bad_gateway",
                  "deadline_exceeded"} : Reject(code)

\* Mutation of Retriable: every failed signature check is retried.
RetriableAlways == TRUE
Retriable == tries = 1

\* jwtVerify: the signature does not verify, because it is forged or the key
\* is out of date.  The first time, getKey is asked again unless aborted.
CheckFails ==
  /\ pc = "checking"
  /\ \/ ~Retriable /\ Reject("invalid_signature")
     \/ Retriable /\ aborted /\ Reject("deadline_exceeded")
     \/ /\ Retriable /\ ~aborted
        /\ pc' = "keys"
        /\ UNCHANGED <<input, env, tries, aborted, audit, response, log, reached>>

Verifies == pc = "checking" /\ "forged" \notin input.faults

ClaimsRefused ==
  /\ Verifies /\ "claims" \in input.faults
  /\ \E code \in {"expired", "invalid_claim", "invalid_dst", "invalid_url"} : Reject(code)

\* The claims hold: the deadline is looked at, then the target is judged.
Judged == Verifies /\ "claims" \notin input.faults /\ ~aborted

TooLate ==
  /\ Verifies /\ "claims" \notin input.faults /\ aborted
  /\ Reject("deadline_exceeded")

TargetRefused ==
  /\ Judged
  /\ \/ "url" \in input.faults /\ Reject("invalid_url")
     \/ "url" \notin input.faults /\ "policy" \in input.faults /\ Reject("invalid_dst")

GrantCushion ==
  /\ Judged /\ {"url", "policy"} \cap input.faults = {} /\ input.dst = "external"
  /\ Conclude("accept", Cushion)

AskSigner ==
  /\ Judged /\ {"url", "policy"} \cap input.faults = {} /\ input.dst = "internal"
  /\ Call("signer", "signing") /\ UNCHANGED log

\* A token over 8192 characters is refused as invalid_claim.
SignerAnswers ==
  /\ pc = "signing"
  /\ \/ Conclude("accept", Redirect)
     \/ \E code \in {"signer_unavailable", "deadline_exceeded", "invalid_claim",
                     "internal_error"} : Reject(code)

-----------------------------------------------------------------------------
\* Mutation of Timed: only the application's routes are raced.
TimedInApp == pc \in {"keys", "checking", "signing", "publishing"}
Timed == pc # "start"

\* The timer fires: the adapter answers 504 and logs; a route that was at work
\* logs through onError as well.  What was raced is over, a signature check
\* runs on.
Deadline ==
  /\ Timed /\ response = None
  /\ aborted' = TRUE
  /\ response' = Error("deadline_exceeded")
  /\ log' = log \cup {"deadline_exceeded"}
  /\ pc' = IF pc = "checking" THEN pc ELSE "over"
  /\ audit' = IF pc \in {"keys", "signing"} THEN "deadline_exceeded" ELSE audit
  /\ UNCHANGED <<input, env, tries, reached>>

Dispatch == RefuseOutright \/ AskLimiter
Check == CheckFails \/ ClaimsRefused \/ TooLate \/ TargetRefused \/ GrantCushion \/ AskSigner
Next ==
  \/ Dispatch
  \/ Limited \/ LimiterGarbled \/ LimiterPasses
  \/ AssetAnswers \/ KeySetAnswers
  \/ KeyFound \/ KeyRefused \/ Check \/ SignerAnswers
  \/ Deadline

Spec == Init /\ [][Next]_vars

\* The handler runs and its timer fires; the dependencies may never answer.
FairSpec == Spec /\ WF_vars(Dispatch) /\ WF_vars(Deadline)

-----------------------------------------------------------------------------
(* Properties.                                                             *)

Admissible(i) == i.here /\ i.read /\ CarriesToken(i) /\ i.faults = {}
Jump(i) == IF i.dst = "internal" THEN Redirect ELSE Cushion

\* A redirect that keeps the query must not send a token back.
Informative(i) == IF i.query \in {"rt", "stray"} THEN Answers \ {Unslashed} ELSE Answers

Contract == INSTANCE JumpContract WITH
  answer <- response, accepted <- "accept" \in log,
  NoAnswer <- None, Errors <- {Error(code) : code \in Codes}

\* One final answer per request, a jump only for a token without any fault,
\* and jump_accept in the log exactly with it: late work cannot change the
\* returned error into a redirect or log success (docs/security.md line 29;
\* worker.fetch, raceWithDeadline and the audit entry of the root route).  No
\* Location carries an inbound token: the redirects to /about drop the query
\* and no path whose slash is trimmed has one (the comment at index.ts
\* lines 287-294, dispatch lines 147-156).
ImplementsContract == Contract!Spec

\* What a request may make the service do: nothing is called for a request
\* that dispatch refuses, no key is looked up for a token refused by its shape
\* or issuer, and nothing is signed before the signature, the claims and the
\* target have been accepted (the order of dispatch and verifyJumpJwt).
CallsAreEarned ==
  /\ reached # {} => "limiter" \in reached /\ Configured /\ input.here /\ input.read
                     /\ input.ip /\ ~QueryRefused
  /\ "keys" \in reached => ~Unusable
  /\ "signer" \in reached => input.path = "jwks" \/ Admissible(input)

\* The log tells the truth about the answer: a logged acceptance is the only
\* verdict in the log, and an error that handling a token ended in is logged
\* under a code of its status (the audit entry, onError and the adapter's
\* catch).  429 and 405 are not logged.
LogTellsAnswer ==
  /\ "accept" \in log => response.kind \in {"redirect", "cushion"} /\ log \cap Codes = {}
  /\ \A code \in log \cap Codes : Status(code) = response.status
  /\ response.kind = "error" /\ response.status \notin {405, 429} =>
       \E code \in log : code \in Codes

\* Every request is answered, whether or not its dependencies answer.
Answered == pc = "start" ~> response # None
=============================================================================
