----------------------------- MODULE MCAdapters -----------------------------
(* The inputs of Adapters for TLC. *)
EXTENDS Adapters

\* Generations that are not timed, empty, too slow for two decimals, and of rates
\* that are and are not whole hundredths.
Timing(count, duration) == [eval_count |-> count, eval_duration |-> duration]

MCReplies == {Timing(0, 0), Timing(5, 0), Timing(0, 4), Timing(1, 3), Timing(2, 4),
              Timing(7, 3), Timing(1, 900), Timing(1, 160)}
MCRates == {tokens_per_sec(reply) : reply \in MCReplies}
MCFailures == {NoResponse, Response(404, ""), Response(500, ""),
               Response(500, OutOfMemory)}

\* Three layers, two of which share a key.
MCKeyOf == [d \in Digests |-> IF d = "a2" THEN "a1" ELSE d]
=============================================================================
