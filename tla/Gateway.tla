------------------------------- MODULE Gateway -------------------------------
(***************************************************************************)
(* A user's requests on their way through the web backend (controllers,    *)
(* AgentdClient, GlobalExceptionHandler) to agentd's handlers and back.    *)
(* agentd runs its handlers on a pool of threads; a handler asks the       *)
(* runtime, which may stop, raise or never answer, and then the store.     *)
(* The backend waits for at most read-timeout-ms: it then answers 502, and *)
(* the handler, which nobody told, goes on.  agentd may die and be started *)
(* again at any moment.                                                    *)
(*                                                                         *)
(* The requests are about one model: no handler touches two.  The store is *)
(* the table of run records and the table of tuned configs as one sequence *)
(* of rows; how it behaves with two databases is in FallbackStorage.       *)
(***************************************************************************)
EXTENDS Naturals, Sequences, FiniteSets

CONSTANTS MaxRequests,   \* bound: requests, numbered as they arrive
          Threads        \* the size of agentd's thread pool

ASSUME GatewayAssumption == MaxRequests \in Nat /\ Threads \in Nat \ {0}

Requests == 1..MaxRequests

\* What a user asks for; the last is a model that the catalog does not have.
Ops == {"run", "tune", "dryRun", "disable", "status", "history", "unknownModel"}
Benchmarks == {"tune", "dryRun"}

Unreachable == "no response"   \* the outcome of a call that got no response

VARIABLES op,        \* what request r asks for
          web,       \* the backend: "unsent", "waiting", or the status answered
          agent,     \* agentd: r's handler: "none", "queued" for a thread, "working",
                     \* "read", "lock", "save", "reply"
          reply,     \* the status that handler is going to answer
          accepted,  \* the tunes to apply: accepted_new and not a dry run
          body,      \* the rows that a status or history request was shown
          up,        \* is agentd running?
          rows,      \* the store: [kind : {"record", "config"}, by, locked]
          known      \* ghost: the writes answered 200 before r was sent

handlers == <<agent, reply, accepted, body>>
vars == <<op, web, handlers, up, rows, known>>

\* The writes that their users were told are done.
Done == {w \in Requests : web[w] = "200" /\ op[w] \in {"run", "tune"}}

Init ==
  /\ op = [r \in Requests |-> "none"]
  /\ web = [r \in Requests |-> "unsent"]
  /\ agent = [r \in Requests |-> "none"]
  /\ reply = [r \in Requests |-> Unreachable]
  /\ accepted = {}
  /\ body = [r \in Requests |-> {}]
  /\ up = TRUE
  /\ rows = <<>>
  /\ known = [r \in Requests |-> {}]

RowsOf(kind) == {i \in DOMAIN rows : rows[i].kind = kind}

-----------------------------------------------------------------------------
(* The backend. *)

\* AgentdClient.execute and the handlers of its two exceptions: a response
\* keeps its status, and the lack of one is 502.
execute(outcome) == IF outcome = Unreachable THEN "502" ELSE outcome

\* What a controller makes of the outcome: the lookup of one model throws for
\* an id that is not in the list, and that is answered as any exception is.
Answer(r, outcome) ==
  IF op[r] = "unknownModel" /\ outcome = "200" THEN "500" ELSE execute(outcome)

\* A request arrives.  If it is not `valid`, it is a run whose prompt is blank.
Send(r, o, valid) ==
  /\ web[r] = "unsent"
  /\ \A q \in 1..(r - 1) : web[q] # "unsent"
  /\ op' = [op EXCEPT ![r] = o]
  /\ known' = [known EXCEPT ![r] = Done]
  /\ IF ~valid
     THEN o = "run" /\ web' = [web EXCEPT ![r] = "400"] /\ UNCHANGED agent
     ELSE IF up
     THEN /\ web' = [web EXCEPT ![r] = "waiting"]
          /\ agent' = [agent EXCEPT ![r] = "queued"]
     ELSE web' = [web EXCEPT ![r] = execute(Unreachable)] /\ UNCHANGED agent
  /\ UNCHANGED <<reply, accepted, body, up, rows>>

\* Mutants: the call is sent again; only a call not begun is timed out.
ReadTimeoutRetries(r) ==
  /\ web[r] = "waiting" /\ up
  /\ agent' = [agent EXCEPT ![r] = "queued"]
  /\ UNCHANGED <<op, web, reply, accepted, body, up, rows, known>>

ReadTimeoutQueued(r) ==
  /\ web[r] = "waiting" /\ agent[r] = "queued"
  /\ web' = [web EXCEPT ![r] = execute(Unreachable)]
  /\ UNCHANGED <<op, handlers, up, rows, known>>

\* read-timeout-ms without a byte from agentd.
ReadTimeout(r) ==
  /\ web[r] = "waiting"
  /\ web' = [web EXCEPT ![r] = execute(Unreachable)]
  /\ UNCHANGED <<op, handlers, up, rows, known>>

-----------------------------------------------------------------------------
(* agentd.  A handler that has a thread is past "queued". *)

Go(r, stage) == agent' = [agent EXCEPT ![r] = stage] /\ UNCHANGED reply
Finish(r, code) == /\ agent' = [agent EXCEPT ![r] = "reply"]
                   /\ reply' = [reply EXCEPT ![r] = code]
Busy == {r \in Requests : agent[r] \notin {"none", "queued"}}

\* A thread is free; what a handler does first.  Whether is_available() is
\* true at that moment is anybody's guess: the runtime comes and goes.  A
\* history is refused if its limit is over 200.
Begin(r) ==
  /\ agent[r] = "queued"
  /\ Cardinality(Busy) < Threads
  /\ \/ op[r] \in {"run"} \cup Benchmarks /\ (Go(r, "working") \/ Finish(r, "503"))
     \/ op[r] \in {"disable", "status"} /\ Go(r, "read")
     \/ op[r] = "history" /\ (Go(r, "read") \/ Finish(r, "422"))
     \/ op[r] = "unknownModel" /\ Finish(r, "200")
  /\ UNCHANGED <<op, web, accepted, body, up, rows, known>>

\* Mutant: the handler answers while its save is left to the background.
GenerateEarly(r) ==
  /\ agent[r] = "working" /\ op[r] = "run"
  /\ Finish(r, "200")
  /\ UNCHANGED <<op, web, accepted, body, up, rows, known>>

\* adapter.run returns or raises; it may also never do either.
Generate(r) ==
  /\ agent[r] = "working" /\ op[r] = "run"
  /\ Go(r, "save") \/ Finish(r, "500")
  /\ UNCHANGED <<op, web, accepted, body, up, rows, known>>

\* tune_once returns its session, with a config to apply or without, or raises
\* on a store that does not answer.
Tune(r) ==
  /\ agent[r] = "working" /\ op[r] \in Benchmarks
  /\ \/ op[r] = "tune" /\ Go(r, "save") /\ accepted' = accepted \cup {r}
     \/ \E code \in {"200", "500"} : Finish(r, code) /\ UNCHANGED accepted
  /\ UNCHANGED <<op, web, body, up, rows, known>>

\* save_run or save_tuned_config inserts the row; it may raise, before it has
\* committed or after.
Save(r) ==
  /\ agent[r] = "save"
  /\ LET row == [kind |-> IF op[r] = "run" THEN "record" ELSE "config",
                 by |-> r, locked |-> FALSE]
     IN \/ rows' = Append(rows, row) /\ \E code \in {"200", "500"} : Finish(r, code)
        \/ UNCHANGED rows /\ Finish(r, "500")
  /\ UNCHANGED <<op, web, accepted, body, up, known>>

\* Mutant: the oldest config is the one found.
FoundOldest(S) == {i \in S : \A j \in S : i <= j}

\* The row that get_tuned_config finds, if there is one.
Found(S) == {i \in S : \A j \in S : j <= i}

\* list_runs (its limit of 20 is not reached) or get_tuned_config.
Read(r) ==
  /\ agent[r] = "read"
  /\ \/ /\ op[r] = "disable"
        /\ IF Found(RowsOf("config")) = {} THEN Finish(r, "404") ELSE Go(r, "lock")
        /\ UNCHANGED body
     \/ /\ op[r] # "disable" /\ Finish(r, "200")
        /\ body' = [body EXCEPT ![r] = IF op[r] = "history" THEN RowsOf("record")
                                       ELSE Found(RowsOf("config"))]
     \/ Finish(r, "500") /\ UNCHANGED body
  /\ UNCHANGED <<op, web, accepted, up, rows, known>>

\* lock_config, a statement of its own.
Lock(r) ==
  /\ agent[r] = "lock"
  /\ \/ /\ rows' = [i \in DOMAIN rows |-> IF i \in Found(RowsOf("config"))
                                         THEN [rows[i] EXCEPT !.locked = TRUE]
                                         ELSE rows[i]]
        /\ Finish(r, "200")
     \/ UNCHANGED rows /\ Finish(r, "500")
  /\ UNCHANGED <<op, web, accepted, body, up, known>>

\* The response is written; nobody reads it after a timeout.
Reply(r) ==
  /\ agent[r] = "reply"
  /\ agent' = [agent EXCEPT ![r] = "none"]
  /\ web' = IF web[r] = "waiting"
            THEN [web EXCEPT ![r] = Answer(r, reply[r])] ELSE web
  /\ body' = IF web[r] = "waiting" THEN body ELSE [body EXCEPT ![r] = {}]
  /\ reply' = [reply EXCEPT ![r] = Unreachable]
  /\ UNCHANGED <<op, accepted, up, rows, known>>

-----------------------------------------------------------------------------
(* What happens around them. *)

\* agentd dies: its handlers are gone and its connections are closed.
Crash ==
  /\ up
  /\ up' = FALSE
  /\ agent' = [r \in Requests |-> "none"]
  /\ web' = [r \in Requests |->
       IF web[r] = "waiting" THEN execute(Unreachable) ELSE web[r]]
  /\ reply' = [r \in Requests |-> Unreachable]
  /\ body' = [r \in Requests |-> IF web[r] = "200" THEN body[r] ELSE {}]
  /\ UNCHANGED <<op, accepted, rows, known>>

Restart ==
  /\ ~up /\ up' = TRUE
  /\ UNCHANGED <<op, web, handlers, rows, known>>

Handler(r) == Begin(r) \/ Generate(r) \/ Tune(r) \/ Save(r) \/ Read(r)
              \/ Lock(r) \/ Reply(r)

Next == \/ \E r \in Requests : \/ \E o \in Ops, valid \in BOOLEAN : Send(r, o, valid)
                               \/ ReadTimeout(r)
                               \/ Handler(r)
        \/ Crash \/ Restart

\* Only the backend's timeouts are sure to happen: a handler may wait for the
\* runtime for ever, and with it all those that wait for its thread.  (Fairness
\* to the timeout of each request would be more than is needed: the others run
\* out of requests.)
Fairness == WF_vars(\E r \in Requests : ReadTimeout(r))

Spec == Init /\ [][Next]_vars /\ Fairness

-----------------------------------------------------------------------------
(* What the status of an answer is worth. *)

DoneBy(r) == {i \in DOMAIN rows : rows[i].by = r}

\* A run or a tune answered 200 has left its row, though the client may have
\* seen agentd die right after; a disable has locked the config that was
\* current when it was sent, or a later one.  (actions.py, recommendations.py)
OkMeansDone ==
  \A r \in Requests : web[r] = "200" =>
    /\ op[r] = "run" \/ (op[r] = "tune" /\ r \in accepted) => DoneBy(r) # {}
    /\ op[r] = "disable" =>
         \E i \in DOMAIN rows :
           /\ rows[i].kind = "config" /\ rows[i].locked
           /\ \A w \in known[r] : op[w] = "tune" => \A j \in DoneBy(w) : j <= i

\* What the users of the backend see of agentd is RequestApi: whatever is timed
\* out, interrupted or answered late, a request is carried out at most once; a dry
\* run and a request that was refused leave nothing in the store; and nothing
\* happens to the store on behalf of a request after any answer but 502.
Api == INSTANCE RequestApi
         WITH answer <- web, Writes <- {"run", "tune"},
              times <- [r \in Requests |-> Cardinality(DoneBy(r))]

ImplementsRequestApi == Api!Spec

\* What a user was told is done is seen by the requests sent after it: a
\* history has the run, a status the config or a later one, and no disable is
\* told that there is none.
AnsweredIsSeen ==
  \A r \in Requests : \A w \in known[r] :
    /\ web[r] = "200" /\ op[r] = "history" /\ op[w] = "run"
         => body[r] \cap DoneBy(w) # {}
    /\ web[r] = "200" /\ op[r] = "status" /\ op[w] = "tune"
         => \A j \in DoneBy(w) : \E i \in body[r] : j <= i
    /\ op[w] = "tune" /\ w \in accepted => web[r] # "404"

\* However long agentd takes and whether or not it is there: no user waits for
\* ever.
EveryRequestIsAnswered == []<>(\A r \in Requests : web[r] # "waiting")
=============================================================================
