----------------------------- MODULE PullStream -----------------------------
(***************************************************************************)
(* Downloading a model: Ollama writes progress lines while it works;       *)
(* OllamaAdapter.pull yields them, LauncherService.pull asks first whether *)
(* Ollama is there, and either `llm-max pull` shows them as bars and       *)
(* lines, or agentd's route relays them, one line of JSON each, in a       *)
(* response whose 200 is on its way before the first of them.  The chain   *)
(* is lazy: nothing is asked or read before the reader wants a line.       *)
(* Ollama may stop at any moment.  (The webui backend does not proxy it.)  *)
(***************************************************************************)
EXTENDS OllamaAdapter, Sequences, Functions

CONSTANTS Statuses,     \* texts Ollama reports, but for "success"
          Digests, KeyOf,   \* layers; digest[:12], by which the bars are kept
          Totals,       \* sizes of layers, 0 for none given
          MaxLines      \* bound: lines Ollama writes

ASSUME KeysAssumption == DOMAIN KeyOf = Digests
ASSUME StatusesAssumption == "error" \notin Statuses    \* which stands for a line without
ASSUME LinesAssumption == MaxLines \in Nat /\ Totals \subseteq Nat

None == "none"
Success == "success"
Text(s) == [status |-> s, digest |-> None, total |-> 0, completed |-> 0]
Blank == Text("blank")
Error == Text("error")      \* {"error": ...}, which has none of the fields

\* The lines of a download under way; a layer's first has no "completed".
Layers == {[status |-> "pulling", digest |-> d, total |-> t, completed |-> c] :
               d \in Digests, t \in Totals, c \in 0..1}
Lines == {Text(s) : s \in Statuses} \cup Layers \cup {Blank}

VARIABLES
  reader,    \* "cli" or "agentd"
  stage,     \* "ask", "post", "read", and the end: "clean", "unavailable", "raised"
  ollama,    \* "idle", "sending", "succeeded", "failed", "gone"
  sent,      \* the lines Ollama wrote
  read,      \* how many of them the reader has taken
  relayed,   \* agentd: the lines of the response
  bars,      \* the CLI's progress bars: key, total and completed, oldest first
  printed    \* the statuses the CLI printed

shown == <<relayed, bars, printed>>
pullVars == <<reader, stage, ollama, sent, read, shown>>

PullInit ==
  /\ reader \in {"cli", "agentd"}
  /\ stage = "ask" /\ ollama \in {"idle", "gone"}
  /\ sent = << >> /\ read = 0
  /\ relayed = << >> /\ bars = << >> /\ printed = << >>

-----------------------------------------------------------------------------
(* Ollama. *)

Write(l, next) ==
  /\ ollama = "sending"
  /\ sent' = Append(sent, l)
  /\ ollama' = next
  /\ UNCHANGED <<reader, stage, read, shown>>

Reports(l) == Len(sent) < MaxLines /\ Write(l, "sending")
Succeeds     == Write(Text(Success), "succeeded")
ReportsError == Write(Error, "failed")

Dies == /\ ollama \in {"idle", "sending"}
        /\ ollama' = "gone"
        /\ UNCHANGED <<reader, stage, sent, read, shown>>

-----------------------------------------------------------------------------
(* The reader. *)

\* What an exchange may come to while Ollama is as it is.
Exchanges == IF ollama = "gone" THEN {NoResponse}
             ELSE {NoResponse, Response(200, ""), Response(404, ""), Response(500, "")}

\* LauncherService.pull: the runtime is asked for.  Of RuntimeUnavailableError
\* the CLI makes a message and agentd a last line.
Ask ==
  /\ stage = "ask"
  /\ \E tags \in Exchanges :
       IF is_available(tags)
       THEN stage' = "post" /\ UNCHANGED relayed
       ELSE /\ stage' = "unavailable"
            /\ relayed' = IF reader = "agentd" THEN <<Error>> ELSE relayed
  /\ UNCHANGED <<reader, ollama, sent, read, bars, printed>>

\* OllamaAdapter.pull: the request, and raise_for_status().
Post ==
  /\ stage = "post"
  /\ \E o \in Exchanges :
       IF raises(o) THEN stage' = "raised" /\ UNCHANGED ollama
       ELSE stage' = "read" /\ ollama' = "sending"
  /\ UNCHANGED <<reader, sent, read, shown>>

BarOf(key) == {i \in 1..Len(bars) : bars[i].key = key}

\* Mutant: every line of a layer adds a bar.
ShowBarAgain(l) ==
  bars' = Append(bars, [key |-> KeyOf[l.digest], total |-> l.total, completed |-> l.completed])

\* tasks[key], added by its first line; completed or 0.
ShowBar(l) ==
  LET key == KeyOf[l.digest]
  IN  bars' = IF BarOf(key) = {}
              THEN Append(bars, [key |-> key, total |-> l.total, completed |-> l.completed])
              ELSE [i \in 1..Len(bars) |-> IF bars[i].key = key
                                           THEN [bars[i] EXCEPT !.completed = l.completed]
                                           ELSE bars[i]]

\* Mutant: what the line says is printed, its status or its error.
ShowPrintsErrors(l) ==
  /\ UNCHANGED relayed
  /\ IF l.digest # None /\ l.total # 0
     THEN ShowBar(l) /\ UNCHANGED printed
     ELSE UNCHANGED bars /\ printed' = Append(printed, l.status)

\* The CLI: a bar for a layer of known size, else the status if there is one.
Show(l) ==
  /\ UNCHANGED relayed
  /\ IF l.digest # None /\ l.total # 0
     THEN ShowBar(l) /\ UNCHANGED printed
     ELSE /\ UNCHANGED bars
          /\ printed' = IF l = Error THEN printed ELSE Append(printed, l.status)

\* agentd's event_stream.
Relay(l) == relayed' = Append(relayed, l) /\ UNCHANGED <<bars, printed>>

\* Mutant: the reader never gets past a blank line.
ReadStopsAtBlank ==
  /\ stage = "read" /\ read < Len(sent)
  /\ sent[read + 1] # Blank
  /\ read' = read + 1
  /\ IF reader = "cli" THEN Show(sent[read + 1]) ELSE Relay(sent[read + 1])
  /\ UNCHANGED <<reader, stage, ollama, sent>>

\* The next line of iter_lines(); blank ones are not yielded.
Read ==
  /\ stage = "read" /\ read < Len(sent)
  /\ read' = read + 1
  /\ LET l == sent[read + 1] IN
       IF l = Blank THEN UNCHANGED shown
       ELSE IF reader = "cli" THEN Show(l) ELSE Relay(l)
  /\ UNCHANGED <<reader, stage, ollama, sent>>

\* Mutant: what is raised on a lost connection ends the response as if all were
\* well.
EndSwallows ==
  /\ stage = "read"
  /\ \/ ollama \in {"succeeded", "failed"} /\ read = Len(sent)
     \/ ollama = "gone"
  /\ stage' = "clean"
  /\ UNCHANGED <<reader, ollama, sent, read, shown>>

\* The stream is over: "Done.", or the end of the response.  When the connection
\* is lost instead, iter_lines raises, perhaps with lines still unread; nobody
\* catches it, and a response that has begun breaks off.
End ==
  /\ stage = "read"
  /\ \/ ollama \in {"succeeded", "failed"} /\ read = Len(sent) /\ stage' = "clean"
     \/ ollama = "gone" /\ stage' = "raised"
  /\ UNCHANGED <<reader, ollama, sent, read, shown>>

Reader == Ask \/ Post \/ Read \/ End

PullNext == \/ \E l \in Lines : Reports(l)
            \/ Succeeds \/ ReportsError \/ Dies
            \/ Reader

\* What the reader does without waiting for Ollama, which may never answer the
\* request nor write another line (timeout=None): is_available() has a time limit,
\* a line that was written can be read, and a connection to an Ollama that is gone
\* is an error.
OwnRead == Ask \/ (Post /\ ollama = "gone") \/ Read \/ End

-----------------------------------------------------------------------------
\* The lines of a stream that are in S, in order.
Only(s, S) ==
  LET upTo[n \in 0..Len(s)] ==
        IF n = 0 THEN << >>
        ELSE IF s[n] \in S THEN Append(upTo[n - 1], s[n]) ELSE upTo[n - 1]
  IN  upTo[Len(s)]

Written == Lines \cup {Text(Success), Error}
Taken   == SubSeq(sent, 1, read)

\* A client of agentd can tell how its download went from the response alone: a
\* response that ends properly has an error line exactly if Ollama has not got
\* the model, and of one that does, no line was lost on the way.
ClientLearnsOutcome ==
  reader = "agentd" /\ stage \in {"clean", "unavailable"} =>
    /\ Error \in Range(relayed) <=> ollama # "succeeded"
    /\ stage = "clean" => relayed = Only(sent, Written \ {Blank})

IsBar(l)     == l.digest # None /\ l.total # 0
BarLines     == {l \in Written : IsBar(l)}
LinesOf(key) == {l \in BarLines : KeyOf[l.digest] = key}
TextLines    == Written \ (BarLines \cup {Blank, Error})

\* The bar of a key: at the progress last reported, of the size first reported.
BarShows(key, own) ==
  IF own = << >> THEN BarOf(key) = {}
  ELSE \E i \in 1..Len(bars) :
         /\ BarOf(key) = {i}
         /\ bars[i].completed = own[Len(own)].completed
         /\ bars[i].total = own[1].total

StatusesOf(texts) == [i \in 1..Len(texts) |-> texts[i].status]

\* The CLI shows one bar for each key, at the progress last reported for it, of
\* the size first reported, and prints every other status once, in order.
BarsFollowTheStream ==
  reader = "cli" =>
    /\ \A key \in Range(KeyOf) : BarShows(key, Only(Taken, LinesOf(key)))
    /\ printed = StatusesOf(Only(Taken, TextLines))

\* A download that has ended one way or the other is not waited for.
PullEnds == ollama \in {"succeeded", "failed", "gone"}
              ~> stage \in {"clean", "unavailable", "raised"}
=============================================================================
