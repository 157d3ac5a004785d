--------------------------- MODULE OllamaAdapter ----------------------------
(***************************************************************************)
(* adapters/ollama.py: what the adapter makes of Ollama's answers.  An     *)
(* HTTP exchange gives a response with a status and a body, or none at all *)
(* (refused, timed out: requests raises).  Durations are in a unit of      *)
(* which Second make a second (nanoseconds in the code), rates in          *)
(* hundredths of a token per second, which is what round(..., 2) keeps.    *)
(***************************************************************************)
EXTENDS Integers

CONSTANT Second
ASSUME SecondAssumption == Second \in Nat \ {0}

NoResponse == [arrived |-> FALSE]
Response(status, body) == [arrived |-> TRUE, status |-> status, body |-> body]

\* GET /api/tags; the exceptions of requests are caught, also its timeout.
is_available(tags) == tags.arrived /\ tags.status = 200

\* requests.post(...), resp.raise_for_status()
raises(o) == ~o.arrived \/ o.status >= 400

\* str() of what is raised, as the parts it is made of: an HTTPError names the
\* status, its reason and the URL; the body is not looked at.
message(o) == IF o.arrived THEN {"status", "reason", "url"} ELSE {"connection", "url"}

-----------------------------------------------------------------------------
\* The two fields of a reply that count; 0 for a field that is missing.
Reply == [eval_count : Nat, eval_duration : Nat]

\* n / d to the nearest integer, halves to even.
Nearest(n, d) ==
  LET q == n \div d
      r == n % d
  IN  IF 2 * r < d \/ (2 * r = d /\ q % 2 = 0) THEN q ELSE q + 1

\* Mutant: the duration taken in seconds already.
tokens_per_secUnscaled(reply) ==
  IF reply.eval_duration = 0 THEN 0
  ELSE Nearest(100 * reply.eval_count, reply.eval_duration)

\* eval_count / (eval_duration / 1e9), rounded; 0 for None, which a rate of
\* zero becomes as well.
tokens_per_sec(reply) ==
  IF reply.eval_duration = 0 THEN 0
  ELSE Nearest(100 * reply.eval_count * Second, reply.eval_duration)
=============================================================================
