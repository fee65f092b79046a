----------------------------- MODULE Allowance -----------------------------
(***************************************************************************)
(* What a rate limiter promises (the Limiter and Lease contracts of         *)
(* service/aiServeWeaveGateway/ratelimit/ratelimit.go and the meaning of    *)
(* quota.Limits), for one tenant with all three dimensions bounded.  An     *)
(* allowance is counted in parts: one request, or one token, is Minute      *)
(* parts, so that a Tick, a Minute-th of a minute, adds a whole number.     *)
(*                                                                         *)
(* Only time adds to an allowance.  Two terms of the limiter say how far    *)
(* that may be off: an allowance that was not charged for `remembered`      *)
(* ticks may be forgotten, that is full again, debt and all; and a charge   *)
(* that was worked out up to `late` ticks ago may bring those again.        *)
(***************************************************************************)
EXTENDS Integers, FiniteSets

CONSTANTS
  Requests,
  RequestsPerMinute, TokensPerMinute, MaxConcurrent,   \* quota.Limits
  Minute,      \* ticks in a minute
  Costs        \* the token counts a backend reports

VARIABLES
  terms,       \* remembered and late, fixed
  held,
  requests, tokens,
  unused       \* ticks since each of the two was last charged

vars == <<terms, held, requests, tokens, unused>>

Dims == {"req", "tok"}
ReqCap == RequestsPerMinute * Minute
TokCap == TokensPerMinute * Minute

Capped(n, cap) == IF n < cap THEN n ELSE cap

\* What may be left by a charge that should leave n.
Left(n, rate, cap) == n .. Capped(n + rate * terms.late, cap)

Init ==
  /\ terms \in [remembered : Nat, late : Nat]
  /\ held = {}
  /\ requests = ReqCap
  /\ tokens = TokCap
  /\ unused \in [Dims -> Nat]

\* A request is admitted only within every dimension, and costs a request.
Admit(r) ==
  /\ r \notin held
  /\ requests >= Minute /\ tokens >= Minute
  /\ Cardinality(held) < MaxConcurrent
  /\ held' = held \cup {r}
  /\ requests' \in Left(requests - Minute, RequestsPerMinute, ReqCap)
  /\ tokens' \in Left(tokens, TokensPerMinute, TokCap)
  /\ unused' = [d \in Dims |-> 0]

\* A refused one may be charged a request, and nothing else.
Refuse ==
  /\ requests' = requests \/ (requests' = requests - Minute /\ requests' >= 0)
  /\ \A d \in Dims : unused'[d] \in {0, unused[d]}
  /\ UNCHANGED <<held, tokens>>

\* Release: the slot comes back and the tokens are charged, into debt.
Return(r, cost) ==
  /\ held' = held \ {r}
  /\ tokens' \in Left(tokens - cost * Minute, TokensPerMinute, TokCap)
  /\ \A d \in Dims : unused'[d] \in {0, unused[d]}
  /\ cost > 0 => unused'["tok"] = 0
  /\ UNCHANGED requests

\* What a tick makes of an allowance of n.
Refill(d, n, rate, cap) ==
  {Capped(n + rate, cap)} \cup {m \in {cap} : unused'[d] >= terms.remembered}

\* Time passes; a slot whose holder has been gone for long may be taken back.
Tick ==
  /\ held' \in SUBSET held
  /\ \A d \in Dims : unused'[d] \in {unused[d], unused[d] + 1}
  /\ requests' \in Refill("req", requests, RequestsPerMinute, ReqCap)
  /\ tokens' \in Refill("tok", tokens, TokensPerMinute, TokCap)

Next ==
  /\ \/ \E r \in Requests : Admit(r) \/ \E cost \in Costs : Return(r, cost)
     \/ Refuse
     \/ Tick
  /\ unused' \in [Dims -> Nat]
  /\ UNCHANGED terms

Spec == Init /\ [][Next]_vars

=============================================================================
