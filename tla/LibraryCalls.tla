---------------------------- MODULE LibraryCalls ----------------------------
(***************************************************************************)
(* One evaluation after another calls a function of the Go library. call   *)
(* is the call being made, with its arguments, and result what the last    *)
(* function called has returned.                                           *)
(***************************************************************************)
VARIABLES call, result
languageVars == <<call, result>>

Idle == [op |-> "none"]
Nothing == [none |-> TRUE]
LanguageInit == call = Idle /\ result = Nothing

Begin(op, args, outcome) ==
  /\ call = Idle
  /\ call' = [op |-> op, args |-> args]
  /\ result' = outcome
\* What a function has written is handed to another.
Continue(from, op, outcome) ==
  /\ call.op = from
  /\ "text" \in DOMAIN result
  /\ call' = [call EXCEPT !.op = op]
  /\ result' = outcome
Return ==
  /\ call # Idle /\ "endless" \notin DOMAIN result
  /\ call' = Idle /\ result' = Nothing

\* A call of another function than these, of which nothing is said.
AnotherThan(ops) == call'.op \notin ops
=============================================================================
