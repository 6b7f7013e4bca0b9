---------------------------- MODULE JumpContract ----------------------------
(***************************************************************************)
(* What the service owes one request: one answer, given once.  A jump (a   *)
(* signed redirect or the external cushion page) is granted only to an     *)
(* admissible request of that kind and only together with its audit entry; *)
(* a request that carries a token gets a jump or an error, nothing else.   *)
(***************************************************************************)
CONSTANTS
  Inputs,
  Admissible(_),    \* the request may be granted a jump
  CarriesToken(_),
  Jump(_),          \* the jump it is then granted
  NoAnswer,
  Informative(_),   \* the answers to a request without a token
  Errors            \* the error answers

VARIABLES
  input,    \* the request
  answer,   \* what it has been answered
  accepted  \* has jump_accept been logged for it?

vars == <<input, answer, accepted>>

Init == input \in Inputs /\ answer = NoAnswer /\ accepted = FALSE

Grant ==
  /\ answer = NoAnswer
  /\ Admissible(input)
  /\ answer' = Jump(input)
  /\ accepted' = TRUE
  /\ UNCHANGED input

Inform ==
  /\ answer = NoAnswer
  /\ ~CarriesToken(input)
  /\ answer' \in Informative(input)
  /\ UNCHANGED <<input, accepted>>

Refuse ==
  /\ answer = NoAnswer
  /\ answer' \in Errors
  /\ UNCHANGED <<input, accepted>>

Next == Grant \/ Inform \/ Refuse
Spec == Init /\ [][Next]_vars
=============================================================================
