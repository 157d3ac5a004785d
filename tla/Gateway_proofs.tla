---------------------------- MODULE Gateway_proofs ---------------------------
(***************************************************************************)
(* What an answer is worth, for any number of requests, any thread pool,   *)
(* and whatever is timed out, fails or dies on the way.                    *)
(*                                                                         *)
(* The answer that a user gets is decided by a handler some steps earlier, *)
(* while other handlers go on writing, and the user may have stopped       *)
(* waiting for it.  The invariant therefore makes each handler keep, from  *)
(* the moment it decides, the promise that the answer will be held to      *)
(* (Promised), and shows that nothing undoes it: rows are only added or    *)
(* locked, and a request that was answered, other than by a timeout, has   *)
(* no handler left.  The same facts map each step to one of RequestApi.    *)
(***************************************************************************)
EXTENDS Gateway, FiniteSetTheorems, SequenceTheorems, WellFoundedInduction, TLAPS

Stages == {"none", "queued", "working", "read", "lock", "save", "reply"}
Decided == {"200", "404", "422", "500", "503"}
Answered == Decided \cup {"400", "502"}

Row == [kind : {"record", "config"}, by : Requests, locked : BOOLEAN]

TypeOK ==
  /\ op \in [Requests -> Ops \cup {"none"}]
  /\ web \in [Requests -> Answered \cup {"unsent", "waiting"}]
  /\ agent \in [Requests -> Stages]
  /\ reply \in [Requests -> Decided \cup {Unreachable}]
  /\ accepted \subseteq Requests
  /\ body \in [Requests -> SUBSET Nat]
  /\ up \in BOOLEAN
  /\ rows \in Seq(Row)
  /\ known \in [Requests -> SUBSET Requests]

\* A handler serves a request that nobody has answered, unless by a timeout.
HandlerIsOpen == \A r \in Requests : agent[r] # "none" => web[r] \in {"waiting", "502"}

\* Where a handler can be depends on what it was asked for; only then does it
\* owe a row, or a lock on a config that is there.
Fits(r, stage) ==
  /\ stage = "working" => op[r] \in {"run"} \cup Benchmarks /\ r \notin accepted
  /\ stage = "save" => op[r] = "run" \/ (op[r] = "tune" /\ r \in accepted)
  /\ stage = "read" => op[r] \in {"disable", "status", "history"}
  /\ stage = "lock" => op[r] = "disable" /\ RowsOf("config") # {}

StageFits ==
  \A r \in Requests : /\ Fits(r, agent[r])
                      /\ agent[r] = "reply" => reply[r] \in Decided

\* A row is what a run or an accepted tune left, and there is one of each.
RowsFit ==
  \A i \in DOMAIN rows :
    /\ \/ op[rows[i].by] = "run" /\ rows[i].kind = "record"
       \/ op[rows[i].by] = "tune" /\ rows[i].kind = "config" /\ rows[i].by \in accepted
    /\ \A j \in DOMAIN rows : rows[i].by = rows[j].by => i = j

\* A request has written nothing before its handler gets there, nor have its
\* benchmarks been weighed before they began.
NotYet ==
  \A r \in Requests :
    /\ web[r] = "unsent" \/ agent[r] \in {"queued", "working", "read", "lock", "save"}
         => DoneBy(r) = {}
    /\ web[r] = "unsent" \/ agent[r] = "queued" => r \notin accepted

\* What was known to be done when r was sent has been answered 200.
KnownIsDone == \A r \in Requests : known[r] \subseteq Done

\* What the answer `code` to r promises: of r's own row, of the lock, ...
Kept(r, code) ==
  /\ code \in {"404", "422", "503"} => DoneBy(r) = {}
  /\ code = "200" /\ (op[r] = "run" \/ (op[r] = "tune" /\ r \in accepted)) => DoneBy(r) # {}
  /\ code = "200" /\ op[r] = "disable" =>
       \E i \in DOMAIN rows :
         /\ rows[i].kind = "config" /\ rows[i].locked
         /\ \A w \in known[r] : op[w] = "tune" => \A j \in DoneBy(w) : j <= i

\* ... and of the writes r's user knew of.
Seen(r, code) ==
  \A w \in known[r] :
    /\ code = "200" /\ op[r] = "history" /\ op[w] = "run" => body[r] \cap DoneBy(w) # {}
    /\ code = "200" /\ op[r] = "status" /\ op[w] = "tune"
         => \A j \in DoneBy(w) : \E i \in body[r] : j <= i
    /\ op[w] = "tune" /\ w \in accepted => code # "404"

Promised(r, code) == Kept(r, code) /\ Seen(r, code)

\* The promise is kept from the handler's decision to the user's answer, and
\* from there on.
PromisesKept ==
  \A r \in Requests, code \in Answered :
    (agent[r] = "reply" /\ reply[r] = code) \/ web[r] = code => Promised(r, code)

IInv == /\ TypeOK /\ HandlerIsOpen /\ StageFits /\ RowsFit /\ NotYet
        /\ KnownIsDone /\ PromisesKept
-----------------------------------------------------------------------------
(* Facts about rows and promises. *)

\* The rows and their fields have their types.
LEMMA RowTypes ==
  ASSUME TypeOK
  PROVE  /\ Len(rows) \in Nat /\ DOMAIN rows = 1..Len(rows)
         /\ \A i \in DOMAIN rows :
              /\ rows[i] \in Row /\ rows[i].by \in Requests
              /\ rows[i].kind \in {"record", "config"} /\ rows[i].locked \in BOOLEAN
<1>1. rows \in Seq(Row)
  BY DEF TypeOK
<1>2. \A i \in DOMAIN rows : rows[i] \in Row
  BY <1>1
<1>. QED  BY <1>1, <1>2 DEF Row

\* No row goes away, and no lock is taken back.
RowsKept ==
  \A i \in DOMAIN rows :
    /\ i \in DOMAIN rows'
    /\ rows'[i].kind = rows[i].kind /\ rows'[i].by = rows[i].by
    /\ rows[i].locked => rows'[i].locked

\* Rows that stay as they are say what they said.
LEMMA SameRows ==
  ASSUME UNCHANGED rows
  PROVE  /\ RowsKept /\ \A q : DoneBy(q)' = DoneBy(q)
         /\ \A kind : RowsOf(kind)' = RowsOf(kind)
BY DEF RowsKept, DoneBy, RowsOf

\* Codes that say nothing promise nothing.
LEMMA EmptyPromise ==
  ASSUME NEW r \in Requests, NEW code \in {"400", "500", "502"}
  PROVE  Promised(r, code)'
BY DEF Promised, Kept, Seen

\* A request that others know to be done has no handler left.
LEMMA KnownIsOver ==
  ASSUME IInv, NEW r \in Requests, NEW w \in known[r]
  PROVE  w \in Requests /\ web[w] = "200" /\ op[w] \in {"run", "tune"} /\ agent[w] = "none"
BY DEF IInv, TypeOK, KnownIsDone, Done, HandlerIsOpen

\* What would have to change for a promise to be broken: the rows that it is
\* about, or what r's user is going to be shown.
LEMMA PromiseStable ==
  ASSUME NEW r \in Requests, NEW code \in Answered, Promised(r, code), RowsKept,
         op'[r] = op[r], known'[r] = known[r],
         code = "200" => body'[r] = body[r],
         \A q \in known[r] \cup {r} :
           /\ op'[q] = op[q] /\ DoneBy(q)' = DoneBy(q)
           /\ q \in accepted' => q \in accepted
  PROVE  Promised(r, code)'
<1>1. Kept(r, code)'
  <2>1. /\ code \in {"404", "422", "503"} => DoneBy(r)' = {}
        /\ code = "200" /\ (op'[r] = "run" \/ (op'[r] = "tune" /\ r \in accepted'))
             => DoneBy(r)' # {}
    BY DEF Promised, Kept
  <2>2. ASSUME code = "200", op[r] = "disable"
        PROVE  \E i \in DOMAIN rows' :
                 /\ rows'[i].kind = "config" /\ rows'[i].locked
                 /\ \A w \in known'[r] : op'[w] = "tune" => \A j \in DoneBy(w)' : j <= i
    <3>1. PICK i \in DOMAIN rows :
            /\ rows[i].kind = "config" /\ rows[i].locked
            /\ \A w \in known[r] : op[w] = "tune" => \A j \in DoneBy(w) : j <= i
      BY <2>2 DEF Promised, Kept
    <3>2. i \in DOMAIN rows' /\ rows'[i].kind = "config" /\ rows'[i].locked
      BY <3>1 DEF RowsKept
    <3>. QED  BY <3>1, <3>2
  <2>. QED  BY <2>1, <2>2 DEF Kept
<1>2. Seen(r, code)'
  BY DEF Promised, Seen
<1>. QED  BY <1>1, <1>2 DEF Promised
-----------------------------------------------------------------------------
(* Each action preserves the invariant. *)

\* A request arrives: nobody knew of it, and it has written nothing.
LEMMA SendIInv ==
  ASSUME IInv, NEW r \in Requests, NEW o \in Ops, NEW valid \in BOOLEAN, Send(r, o, valid)
  PROVE  IInv'
<1>0. /\ TypeOK /\ web[r] = "unsent" /\ agent[r] = "none" /\ DoneBy(r) = {}
      /\ op' = [op EXCEPT ![r] = o] /\ known' = [known EXCEPT ![r] = Done]
      /\ UNCHANGED <<reply, accepted, body, up, rows>>
  BY DEF Send, IInv, HandlerIsOpen, NotYet, TypeOK
<1>1. /\ \/ web' = [web EXCEPT ![r] = "waiting"] /\ agent' = [agent EXCEPT ![r] = "queued"]
         \/ web' = [web EXCEPT ![r] = "400"] /\ UNCHANGED agent
         \/ web' = [web EXCEPT ![r] = "502"] /\ UNCHANGED agent
  BY DEF Send, execute
<1>2. RowsKept /\ (\A q : DoneBy(q)' = DoneBy(q)) /\ (\A kind : RowsOf(kind)' = RowsOf(kind))
  BY <1>0, SameRows
<1>3. Done \subseteq Requests /\ Done \subseteq Done' /\ r \notin Done
  BY <1>0, <1>1 DEF Done, TypeOK
<1>4. TypeOK'
  BY <1>0, <1>1, <1>3 DEF TypeOK, Stages, Answered
<1>5. HandlerIsOpen' /\ NotYet'
  BY <1>0, <1>1, <1>2 DEF IInv, TypeOK, HandlerIsOpen, NotYet
<1>6. StageFits'
  BY <1>0, <1>1, <1>2 DEF IInv, TypeOK, StageFits, Fits
<1>7. RowsFit'
  <2>1. \A i \in DOMAIN rows : rows[i].by # r
    BY <1>0 DEF DoneBy
  <2>. QED  BY <1>0, <2>1, RowTypes DEF IInv, TypeOK, RowsFit
<1>8. KnownIsDone'
  BY <1>0, <1>3 DEF IInv, TypeOK, KnownIsDone
<1>9. PromisesKept'
  <2>. SUFFICES ASSUME NEW q \in Requests, NEW code \in Answered,
                       (agent'[q] = "reply" /\ reply'[q] = code) \/ web'[q] = code
                PROVE  Promised(q, code)'
    BY DEF PromisesKept
  <2>1. CASE q = r
    <3>1. code \in {"400", "502"}
      BY <1>0, <1>1, <2>1 DEF TypeOK, Answered, Decided
    <3>. QED  BY <3>1, EmptyPromise
  <2>2. CASE q # r
    <3>1. Promised(q, code)
      BY <1>0, <1>1, <2>2 DEF IInv, TypeOK, PromisesKept
    <3>2. r \notin known[q]
      BY <1>0, KnownIsOver
    <3>3. op'[q] = op[q] /\ known'[q] = known[q] /\ \A w \in known[q] : op'[w] = op[w]
      BY <1>0, <2>2, <3>2 DEF TypeOK
    <3>. QED  BY <1>0, <1>2, <3>1, <3>3, PromiseStable
  <2>. QED  BY <2>1, <2>2
<1>. QED  BY <1>4, <1>5, <1>6, <1>7, <1>8, <1>9 DEF IInv

\* The backend gives up: that promises nothing.
LEMMA ReadTimeoutIInv ==
  ASSUME IInv, NEW r \in Requests, ReadTimeout(r)
  PROVE  IInv'
<1>0. /\ TypeOK /\ web[r] = "waiting" /\ web' = [web EXCEPT ![r] = "502"]
      /\ UNCHANGED <<op, agent, reply, accepted, body, up, rows, known>>
  BY DEF ReadTimeout, execute, IInv, handlers
<1>2. RowsKept /\ (\A q : DoneBy(q)' = DoneBy(q)) /\ (\A kind : RowsOf(kind)' = RowsOf(kind))
  BY <1>0, SameRows
<1>4. TypeOK'
  BY <1>0 DEF TypeOK, Answered
<1>5. HandlerIsOpen' /\ NotYet' /\ StageFits' /\ RowsFit'
  BY <1>0, <1>2 DEF IInv, TypeOK, HandlerIsOpen, NotYet, StageFits, Fits, RowsFit
<1>8. KnownIsDone'
  BY <1>0 DEF IInv, TypeOK, KnownIsDone, Done
<1>9. PromisesKept'
  <2>. SUFFICES ASSUME NEW q \in Requests, NEW code \in Answered,
                       (agent'[q] = "reply" /\ reply'[q] = code) \/ web'[q] = code
                PROVE  Promised(q, code)'
    BY DEF PromisesKept
  <2>1. code = "502" \/ Promised(q, code)
    BY <1>0 DEF IInv, TypeOK, PromisesKept
  <2>. QED  BY <1>0, <1>2, <2>1, EmptyPromise, PromiseStable
<1>. QED  BY <1>4, <1>5, <1>8, <1>9 DEF IInv

\* A handler goes on, adding a row of its own at most; if it decides on an answer,
\* it can make the promise that goes with it.
LEMMA StepIInv ==
  ASSUME IInv, NEW r \in Requests, agent[r] \notin {"none", "reply"},
         UNCHANGED <<op, web, up, known>>,
         accepted' \in {accepted, accepted \cup {r}},
         body' \in [Requests -> SUBSET Nat], \A q \in Requests \ {r} : body'[q] = body[q],
         rows' \in Seq(Row), RowsKept, RowsFit',
         \A q \in Requests \ {r} : DoneBy(q)' = DoneBy(q),
         \/ /\ UNCHANGED rows
            /\ \E stage \in {"working", "read", "lock", "save"} : Go(r, stage) /\ Fits(r, stage)'
         \/ \E code \in Decided : Finish(r, code) /\ Promised(r, code)'
  PROVE  IInv'
<1>0. TypeOK /\ web[r] \in {"waiting", "502"}
  BY DEF IInv, HandlerIsOpen
<1>1. /\ agent' \in [Requests -> Stages] /\ agent'[r] \notin {"none", "queued"}
      /\ reply' \in [Requests -> Decided \cup {Unreachable}]
      /\ \A q \in Requests \ {r} : agent'[q] = agent[q] /\ reply'[q] = reply[q]
  BY <1>0 DEF Go, Finish, TypeOK, Stages
<1>2. /\ agent'[r] # "reply" => DoneBy(r)' = {}
      /\ \A kind : RowsOf(kind) # {} => RowsOf(kind)' # {}
  <2>1. agent[r] \in {"queued", "working", "read", "lock", "save"} /\ DoneBy(r) = {}
    BY <1>0 DEF TypeOK, Stages, IInv, NotYet
  <2>2. agent'[r] # "reply" => UNCHANGED rows
    BY <1>0 DEF Finish, TypeOK
  <2>3. \A kind : RowsOf(kind) \subseteq RowsOf(kind)'
    BY DEF RowsKept, RowsOf
  <2>. QED  BY <2>1, <2>2, <2>3, SameRows
<1>4. TypeOK'
  BY <1>0, <1>1 DEF TypeOK
<1>5. HandlerIsOpen'
  BY <1>0, <1>1 DEF IInv, HandlerIsOpen
<1>6. NotYet'
  BY <1>0, <1>1, <1>2 DEF IInv, NotYet
<1>7. StageFits'
  <2>1. (Fits(r, agent[r]) /\ (agent[r] = "reply" => reply[r] \in Decided))'
    BY <1>0 DEF Go, Finish, TypeOK, Fits
  <2>2. ASSUME NEW q \in Requests \ {r}  PROVE Fits(q, agent[q])'
    BY <1>1, <1>2, <2>2 DEF IInv, StageFits, Fits
  <2>. QED  BY <1>1, <2>1, <2>2 DEF IInv, StageFits
<1>8. KnownIsDone'
  BY DEF IInv, KnownIsDone, Done
<1>9. PromisesKept'
  <2>. SUFFICES ASSUME NEW q \in Requests, NEW code \in Answered,
                       (agent'[q] = "reply" /\ reply'[q] = code) \/ web'[q] = code
                PROVE  Promised(q, code)'
    BY DEF PromisesKept
  <2>1. CASE q = r
    <3>1. CASE web[r] = code
      <4>1. code = "502"
        BY <1>0, <2>1, <3>1 DEF Answered, Decided
      <4>. QED  BY <2>1, <4>1, EmptyPromise
    <3>2. CASE agent'[r] = "reply" /\ reply'[r] = code
      BY <1>0, <2>1, <3>2 DEF Go, Finish, TypeOK
    <3>. QED  BY <2>1, <3>1, <3>2
  <2>2. CASE q # r
    <3>1. Promised(q, code)
      BY <1>1, <2>2 DEF IInv, PromisesKept
    <3>2. r \notin known[q] /\ known[q] \subseteq Requests
      BY <1>0, KnownIsOver
    <3>3. \A w \in known[q] \cup {q} : /\ w \in accepted' => w \in accepted
                                      /\ DoneBy(w)' = DoneBy(w)
      BY <2>2, <3>2
    <3>. QED  BY <2>2, <3>1, <3>3, PromiseStable
  <2>. QED  BY <2>1, <2>2
<1>. QED  BY <1>4, <1>5, <1>6, <1>7, <1>8, <1>9 DEF IInv

\* The same for the steps that leave the store alone.
LEMMA HandlerIInv ==
  ASSUME IInv, NEW r \in Requests, agent[r] \notin {"none", "reply"},
         UNCHANGED <<op, web, up, rows, known>>,
         accepted' \in {accepted, accepted \cup {r}},
         body' \in [Requests -> SUBSET Nat], \A q \in Requests \ {r} : body'[q] = body[q],
         \/ \E stage \in {"working", "read", "lock", "save"} : Go(r, stage) /\ Fits(r, stage)'
         \/ \E code \in Decided : Finish(r, code) /\ Promised(r, code)'
  PROVE  IInv'
<1>1. RowsKept /\ \A q : DoneBy(q)' = DoneBy(q)
  BY SameRows
<1>2. rows' \in Seq(Row) /\ RowsFit'
  BY DEF IInv, TypeOK, RowsFit
<1>. QED  BY <1>1, <1>2, StepIInv

\* What a handler that begins may decide at once promises nothing that is not so.
LEMMA BeginIInv ==
  ASSUME IInv, NEW r \in Requests, Begin(r)
  PROVE  IInv'
<1>1. /\ agent[r] = "queued" /\ r \notin accepted /\ DoneBy(r) = {}
      /\ UNCHANGED <<op, web, accepted, body, up, rows, known>>
      /\ body \in [Requests -> SUBSET Nat]
  BY DEF Begin, IInv, NotYet, TypeOK
<1>3. \/ op[r] \in {"run"} \cup Benchmarks /\ (Go(r, "working") \/ Finish(r, "503"))
      \/ op[r] \in {"disable", "status"} /\ Go(r, "read")
      \/ op[r] = "history" /\ (Go(r, "read") \/ Finish(r, "422"))
      \/ op[r] = "unknownModel" /\ Finish(r, "200")
  BY DEF Begin
<1>4. \/ \E stage \in {"working", "read"} : Go(r, stage) /\ Fits(r, stage)'
      \/ \E code \in Decided : Finish(r, code) /\ Promised(r, code)'
  BY <1>1, <1>3, SameRows DEF Fits, Promised, Kept, Seen, Decided, Benchmarks
<1>. QED  BY <1>1, <1>4, HandlerIInv

\* The runtime has answered a run or raised.
LEMMA GenerateIInv ==
  ASSUME IInv, NEW r \in Requests, Generate(r)
  PROVE  IInv'
<1>1. /\ agent[r] = "working" /\ op[r] = "run" /\ body \in [Requests -> SUBSET Nat]
      /\ UNCHANGED <<op, web, accepted, body, up, rows, known>>
      /\ Go(r, "save") \/ Finish(r, "500")
  BY DEF Generate, IInv, TypeOK
<1>2. Fits(r, "save")' /\ Promised(r, "500")'
  BY <1>1, EmptyPromise DEF Fits
<1>. QED  BY <1>1, <1>2, HandlerIInv DEF Decided

\* A tune that answers 200 without going to save has accepted nothing.
LEMMA TuneIInv ==
  ASSUME IInv, NEW r \in Requests, Tune(r)
  PROVE  IInv'
<1>1. /\ agent[r] = "working" /\ op[r] \in {"tune", "dryRun"} /\ r \notin accepted
      /\ body \in [Requests -> SUBSET Nat]
      /\ UNCHANGED <<op, web, body, up, rows, known>>
  BY DEF Tune, IInv, TypeOK, StageFits, Fits, Benchmarks
<1>2. CASE op[r] = "tune" /\ Go(r, "save") /\ accepted' = accepted \cup {r}
  <2>1. Fits(r, "save")'
    BY <1>1, <1>2 DEF Fits
  <2>. QED  BY <1>1, <1>2, <2>1, HandlerIInv
<1>3. CASE \E code \in {"200", "500"} : Finish(r, code) /\ UNCHANGED accepted
  <2>1. Promised(r, "200")' /\ Promised(r, "500")'
    BY <1>1, <1>3 DEF Promised, Kept, Seen
  <2>. QED  BY <1>1, <1>3, <2>1, HandlerIInv DEF Decided
<1>. QED  BY <1>2, <1>3 DEF Tune

\* A row that is there is found: the last of a set that is not empty.
LEMMA FoundLast ==
  ASSUME TypeOK, NEW kind, RowsOf(kind) # {}
  PROVE  \E i \in RowsOf(kind) : i \in Found(RowsOf(kind)) /\ \A j \in RowsOf(kind) : j <= i
<1>. DEFINE I == RowsOf(kind)
            n == Len(rows)
            D == {n - i : i \in I}
<1>1. n \in Nat /\ I \in SUBSET (1..n) /\ I # {}
  BY RowTypes DEF RowsOf
<1>. HIDE DEF I, n
<1>2. D # {} /\ D \in SUBSET Nat
  <2>1. \A i \in I : n - i \in Nat
    BY <1>1
  <2>. QED  BY <1>1, <2>1
<1>3. PICK k \in D : \A j \in D : ~(<<j, k>> \in OpToRel(<, Nat))
  BY <1>2, NatLessThanWellFounded, WFMin
<1>4. PICK i \in I : k = n - i
  OBVIOUS
<1>5. ASSUME NEW j \in I  PROVE j <= i
  <2>1. n - j \in D /\ n - j \in Nat /\ k \in Nat
    BY <1>2
  <2>2. ~(n - j < k)
    BY <2>1, <1>3 DEF OpToRel
  <2>. QED  BY <1>1, <1>4, <2>2
<1>6. i \in Found(I)
  BY <1>5 DEF Found
<1>. QED  BY <1>5, <1>6 DEF I

\* What was known to be done when r was sent is in the tables when r reads them.
LEMMA ReadIInv ==
  ASSUME IInv, NEW r \in Requests, Read(r)
  PROVE  IInv'
<1>1. /\ agent[r] = "read" /\ op[r] \in {"disable", "status", "history"} /\ DoneBy(r) = {}
      /\ TypeOK /\ UNCHANGED <<op, web, accepted, up, rows, known>>
  BY DEF Read, IInv, StageFits, Fits, NotYet
<1>2. ASSUME NEW w \in known[r]
      PROVE  /\ w \in Requests
             /\ op[w] = "run" => DoneBy(w) # {} /\ DoneBy(w) \subseteq RowsOf("record")
             /\ op[w] = "tune" => DoneBy(w) \subseteq RowsOf("config")
             /\ op[w] = "tune" /\ w \in accepted => DoneBy(w) # {}
  <2>1. w \in Requests /\ web[w] = "200" /\ Promised(w, "200")
    BY <1>2, KnownIsOver DEF IInv, PromisesKept, Answered, Decided
  <2>2. \A i \in DOMAIN rows : op[rows[i].by] = "run" => rows[i].kind = "record"
    BY DEF IInv, RowsFit
  <2>3. \A i \in DOMAIN rows : op[rows[i].by] = "tune" => rows[i].kind = "config"
    BY DEF IInv, RowsFit
  <2>. QED  BY <2>1, <2>2, <2>3 DEF Promised, Kept, DoneBy, RowsOf
<1>3. CASE /\ op[r] = "disable" /\ UNCHANGED body
           /\ IF Found(RowsOf("config")) = {} THEN Finish(r, "404") ELSE Go(r, "lock")
  <2>1. CASE Found(RowsOf("config")) # {}
    <3>1. Fits(r, "lock")'
      BY <1>1, <1>3, <2>1, SameRows DEF Fits, Found
    <3>. QED  BY <1>1, <1>3, <2>1, <3>1, HandlerIInv DEF TypeOK
  <2>2. CASE Found(RowsOf("config")) = {}
    <3>1. RowsOf("config") = {}
      BY <1>1, <2>2, FoundLast
    <3>2. Promised(r, "404")'
      BY <1>1, <1>2, <1>3, <3>1, SameRows DEF Promised, Kept, Seen
    <3>. QED  BY <1>1, <1>3, <2>2, <3>2, HandlerIInv DEF TypeOK, Decided
  <2>. QED  BY <2>1, <2>2
<1>4. CASE /\ op[r] # "disable" /\ Finish(r, "200")
           /\ body' = [body EXCEPT ![r] = IF op[r] = "history" THEN RowsOf("record")
                                          ELSE Found(RowsOf("config"))]
  <2>1. RowsOf("record") \in SUBSET Nat /\ Found(RowsOf("config")) \in SUBSET Nat
    BY <1>1, RowTypes DEF RowsOf, Found
  <2>2. /\ body' \in [Requests -> SUBSET Nat] /\ \A q \in Requests \ {r} : body'[q] = body[q]
        /\ body'[r] = IF op[r] = "history" THEN RowsOf("record") ELSE Found(RowsOf("config"))
    BY <1>1, <1>4, <2>1 DEF TypeOK
  <2>3. Promised(r, "200")'
    <3>1. Kept(r, "200")'
      BY <1>1, <1>4 DEF Kept
    <3>2. ASSUME NEW w \in known[r], op[r] = "history", op[w] = "run"
          PROVE  body'[r] \cap DoneBy(w)' # {}
      BY <1>1, <1>2, <2>2, <3>2, SameRows
    <3>3. ASSUME NEW w \in known[r], op[r] = "status", op[w] = "tune", NEW j \in DoneBy(w)'
          PROVE  \E i \in body'[r] : j <= i
      <4>1. j \in RowsOf("config")
        BY <1>1, <1>2, <3>3, SameRows
      <4>. QED  BY <1>1, <2>2, <3>3, <4>1, FoundLast
    <3>. QED  BY <1>1, <3>1, <3>2, <3>3 DEF Promised, Seen
  <2>. QED  BY <1>1, <1>4, <2>2, <2>3, HandlerIInv DEF Decided
<1>5. CASE Finish(r, "500") /\ UNCHANGED body
  BY <1>1, <1>5, EmptyPromise, HandlerIInv DEF TypeOK, Decided
<1>. QED  BY <1>3, <1>4, <1>5 DEF Read

\* What a handler saves is its request's first row and leaves the others alone.
LEMMA SaveIInv ==
  ASSUME IInv, NEW r \in Requests, Save(r)
  PROVE  IInv'
<1>. DEFINE kind == IF op[r] = "run" THEN "record" ELSE "config"
            row == [kind |-> kind, by |-> r, locked |-> FALSE]
            n == Len(rows)
<1>1. /\ agent[r] = "save" /\ TypeOK /\ DoneBy(r) = {}
      /\ op[r] = "run" \/ (op[r] = "tune" /\ r \in accepted)
      /\ UNCHANGED <<op, web, accepted, body, up, known>>
  BY DEF Save, IInv, StageFits, Fits, NotYet
<1>2. body' \in [Requests -> SUBSET Nat]
  BY <1>1 DEF TypeOK
<1>3. CASE UNCHANGED rows /\ Finish(r, "500")
  BY <1>1, <1>2, <1>3, EmptyPromise, HandlerIInv DEF Decided
<1>4. CASE rows' = Append(rows, row) /\ \E code \in {"200", "500"} : Finish(r, code)
  <2>1. row \in Row /\ rows \in Seq(Row) /\ n \in Nat /\ DOMAIN rows = 1..n
    BY <1>1, RowTypes DEF Row, TypeOK
  <2>2. /\ rows' \in Seq(Row) /\ DOMAIN rows' = 1..(n + 1)
        /\ rows'[n + 1] = row /\ \A i \in 1..n : rows'[i] = rows[i]
    BY <1>4, <2>1
  <2>3. RowsKept
    BY <2>1, <2>2 DEF RowsKept
  <2>4. \A q \in Requests \ {r} : DoneBy(q)' = DoneBy(q)
    BY <2>1, <2>2 DEF DoneBy
  <2>5. n + 1 \in DoneBy(r)'
    BY <2>1, <2>2 DEF DoneBy
  <2>6. RowsFit'
    <3>1. ASSUME NEW i \in 1..(n + 1)
          PROVE  \/ op[rows'[i].by] = "run" /\ rows'[i].kind = "record"
                 \/ /\ op[rows'[i].by] = "tune" /\ rows'[i].kind = "config"
                    /\ rows'[i].by \in accepted
      <4>1. CASE i = n + 1
        BY <1>1, <2>2, <4>1
      <4>2. CASE i \in 1..n
        BY <2>1, <2>2, <4>2 DEF IInv, RowsFit
      <4>. QED  BY <2>1, <4>1, <4>2
    <3>2. ASSUME NEW i \in 1..(n + 1), NEW j \in 1..(n + 1), rows'[i].by = rows'[j].by
          PROVE  i = j
      <4>1. \A k \in 1..n : rows[k].by # r
        BY <1>1, <2>1 DEF DoneBy
      <4>2. CASE i = n + 1 \/ j = n + 1
        BY <2>1, <2>2, <3>2, <4>1, <4>2
      <4>3. CASE i \in 1..n /\ j \in 1..n
        BY <2>1, <2>2, <3>2, <4>3 DEF IInv, RowsFit
      <4>. QED  BY <2>1, <4>2, <4>3
    <3>. QED  BY <1>1, <2>2, <3>1, <3>2 DEF RowsFit
  <2>7. Promised(r, "200")' /\ Promised(r, "500")'
    <3>1. Promised(r, "200")'
      BY <1>1, <2>5 DEF Promised, Kept, Seen
    <3>. QED  BY <3>1, EmptyPromise
  <2>. QED  BY <1>1, <1>2, <1>4, <2>2, <2>3, <2>4, <2>6, <2>7, StepIInv DEF Decided
<1>. QED  BY <1>3, <1>4 DEF Save

\* Locking changes nothing but locks.
LEMMA LockKeepsRows ==
  ASSUME NEW r \in Requests, Lock(r)
  PROVE  RowsKept /\ \A q : DoneBy(q)' = DoneBy(q)
<1>1. CASE UNCHANGED rows
  BY <1>1, SameRows
<1>2. CASE rows' = [i \in DOMAIN rows |-> IF i \in Found(RowsOf("config"))
                                         THEN [rows[i] EXCEPT !.locked = TRUE]
                                         ELSE rows[i]]
  BY <1>2 DEF RowsKept, DoneBy
<1>. QED  BY <1>1, <1>2 DEF Lock

\* The config that is locked is the last one, and thereby no older than any that
\* r's user knew of.
LEMMA LockIInv ==
  ASSUME IInv, NEW r \in Requests, Lock(r)
  PROVE  IInv'
<1>1. /\ agent[r] = "lock" /\ TypeOK /\ op[r] = "disable" /\ RowsOf("config") # {}
      /\ UNCHANGED <<op, web, accepted, body, up, known>>
  BY DEF Lock, IInv, StageFits, Fits
<1>2. body' \in [Requests -> SUBSET Nat]
  BY <1>1 DEF TypeOK
<1>3. CASE UNCHANGED rows /\ Finish(r, "500")
  BY <1>1, <1>2, <1>3, EmptyPromise, HandlerIInv DEF Decided
<1>4. CASE /\ rows' = [i \in DOMAIN rows |-> IF i \in Found(RowsOf("config"))
                                            THEN [rows[i] EXCEPT !.locked = TRUE]
                                            ELSE rows[i]]
           /\ Finish(r, "200")
  <2>1. \A i \in DOMAIN rows :
          /\ rows'[i] \in Row
          /\ rows'[i].kind = rows[i].kind /\ rows'[i].by = rows[i].by
          /\ rows'[i].locked = (rows[i].locked \/ i \in Found(RowsOf("config")))
    BY <1>1, <1>4, RowTypes DEF Row
  <2>2. DOMAIN rows' = DOMAIN rows
    BY <1>4
  <2>3. rows' \in Seq(Row)
    <3>1. rows' = [i \in DOMAIN rows |-> rows'[i]]
      BY <1>4, Zenon
    <3>2. rows' \in [1..Len(rows) -> Row] /\ Len(rows) \in Nat
      BY <1>1, <2>1, <3>1, RowTypes
    <3>. QED  BY <3>2
  <2>4. RowsKept /\ (\A q : DoneBy(q)' = DoneBy(q)) /\ RowsFit'
    <3>1. RowsKept /\ \A q : DoneBy(q)' = DoneBy(q)
      BY LockKeepsRows
    <3>2. RowsFit'
      BY <1>1, <2>1, <2>2 DEF RowsFit, IInv
    <3>. QED  BY <3>1, <3>2
  <2>5. Promised(r, "200")'
    <3>1. PICK i \in RowsOf("config") : /\ i \in Found(RowsOf("config"))
                                      /\ \A j \in RowsOf("config") : j <= i
      BY <1>1, FoundLast
    <3>2. i \in DOMAIN rows' /\ rows'[i].kind = "config" /\ rows'[i].locked
      BY <2>1, <2>2, <3>1 DEF RowsOf
    <3>3. ASSUME NEW w \in known[r], op[w] = "tune", NEW j \in DoneBy(w)'  PROVE j <= i
      <4>1. j \in DoneBy(w)
        BY <2>4, <3>3
      <4>2. j \in RowsOf("config")
        BY <3>3, <4>1 DEF IInv, RowsFit, DoneBy, RowsOf
      <4>. QED  BY <3>1, <4>2
    <3>. QED  BY <1>1, <3>2, <3>3 DEF Promised, Kept, Seen
  <2>. QED  BY <1>1, <1>2, <1>4, <2>3, <2>4, <2>5, StepIInv DEF Decided
<1>. QED  BY <1>3, <1>4 DEF Lock

\* The answer is what the handler promised, or it reaches nobody.
LEMMA ReplyIInv ==
  ASSUME IInv, NEW r \in Requests, Reply(r)
  PROVE  IInv'
<1>0. /\ TypeOK /\ agent[r] = "reply" /\ reply[r] \in Decided /\ web[r] \in {"waiting", "502"}
      /\ agent' = [agent EXCEPT ![r] = "none"]
      /\ reply' = [reply EXCEPT ![r] = Unreachable]
      /\ UNCHANGED <<op, accepted, up, rows, known>>
  BY DEF Reply, IInv, HandlerIsOpen, StageFits
<1>1. /\ web' \in [Requests -> Answered \cup {"unsent", "waiting"}]
      /\ body' \in [Requests -> SUBSET Nat]
      /\ \A q \in Requests \ {r} : web'[q] = web[q] /\ body'[q] = body[q]
      /\ \/ web'[r] \in {"500", "502"}
         \/ web'[r] = reply[r] /\ body'[r] = body[r]
  <2>1. CASE web[r] = "waiting"
    <3>1. web' = [web EXCEPT ![r] = Answer(r, reply[r])] /\ body' = body
      BY <2>1 DEF Reply
    <3>2. Answer(r, reply[r]) \in {"500", reply[r]}
      BY <1>0 DEF Answer, execute, Unreachable, Decided
    <3>. QED  BY <1>0, <3>1, <3>2 DEF TypeOK, Answered, Decided
  <2>2. CASE web[r] = "502"
    <3>1. web' = web /\ body' = [body EXCEPT ![r] = {}]
      BY <2>2 DEF Reply
    <3>. QED  BY <1>0, <2>2, <3>1 DEF TypeOK
  <2>. QED  BY <1>0, <2>1, <2>2
<1>2. RowsKept /\ (\A q : DoneBy(q)' = DoneBy(q)) /\ (\A kind : RowsOf(kind)' = RowsOf(kind))
  BY <1>0, SameRows
<1>3. web'[r] \notin {"unsent", "waiting"}
  BY <1>0, <1>1 DEF Decided
<1>4. TypeOK'
  BY <1>0, <1>1 DEF TypeOK, Stages
<1>5. HandlerIsOpen' /\ NotYet' /\ StageFits' /\ RowsFit'
  BY <1>0, <1>1, <1>2, <1>3
  DEF IInv, TypeOK, HandlerIsOpen, NotYet, StageFits, Fits, RowsFit
<1>8. KnownIsDone'
  <2>1. Done \subseteq Done'
    BY <1>0, <1>1 DEF Done
  <2>. QED  BY <1>0, <2>1 DEF IInv, KnownIsDone
<1>9. PromisesKept'
  <2>. SUFFICES ASSUME NEW q \in Requests, NEW code \in Answered,
                       (agent'[q] = "reply" /\ reply'[q] = code) \/ web'[q] = code
                PROVE  Promised(q, code)'
    BY DEF PromisesKept
  <2>1. code \in {"500", "502"} \/ (Promised(q, code) /\ body'[q] = body[q])
    BY <1>0, <1>1 DEF IInv, TypeOK, PromisesKept
  <2>. QED  BY <1>0, <1>2, <2>1, EmptyPromise, PromiseStable
<1>. QED  BY <1>4, <1>5, <1>8, <1>9 DEF IInv

\* What a crash interrupts is answered 502; what was answered stays so.
LEMMA CrashIInv ==
  ASSUME IInv, Crash
  PROVE  IInv'
<1>0. /\ TypeOK /\ up' = FALSE
      /\ agent' = [r \in Requests |-> "none"]
      /\ web' = [r \in Requests |-> IF web[r] = "waiting" THEN "502" ELSE web[r]]
      /\ reply' = [r \in Requests |-> Unreachable]
      /\ body' = [r \in Requests |-> IF web[r] = "200" THEN body[r] ELSE {}]
      /\ UNCHANGED <<op, accepted, rows, known>>
  BY DEF Crash, execute, IInv
<1>2. RowsKept /\ (\A q : DoneBy(q)' = DoneBy(q)) /\ (\A kind : RowsOf(kind)' = RowsOf(kind))
  BY <1>0, SameRows
<1>4. TypeOK'
  BY <1>0 DEF TypeOK, Stages, Answered
<1>5. HandlerIsOpen' /\ NotYet' /\ StageFits' /\ RowsFit'
  BY <1>0, <1>2 DEF IInv, TypeOK, HandlerIsOpen, NotYet, StageFits, Fits, RowsFit
<1>8. KnownIsDone'
  <2>1. Done \subseteq Done'
    BY <1>0 DEF Done
  <2>. QED  BY <1>0, <2>1 DEF IInv, KnownIsDone
<1>9. PromisesKept'
  <2>. SUFFICES ASSUME NEW q \in Requests, NEW code \in Answered,
                       (agent'[q] = "reply" /\ reply'[q] = code) \/ web'[q] = code
                PROVE  Promised(q, code)'
    BY DEF PromisesKept
  <2>1. code = "502" \/ web[q] = code
    BY <1>0
  <2>2. CASE web[q] = code
    <3>1. Promised(q, code) /\ (code = "200" => body'[q] = body[q])
      BY <1>0, <2>2 DEF IInv, PromisesKept
    <3>. QED  BY <1>0, <1>2, <3>1, PromiseStable
  <2>. QED  BY <2>1, <2>2, EmptyPromise
<1>. QED  BY <1>4, <1>5, <1>8, <1>9 DEF IInv

\* Before the first request there is nothing to keep.
LEMMA InitIInv == Init => IInv
<1>. SUFFICES ASSUME Init  PROVE IInv
  OBVIOUS
<1>1. TypeOK
  <2>1. rows \in Seq(Row)
    BY DEF Init
  <2>. QED  BY <2>1 DEF Init, TypeOK, Stages
<1>2. DOMAIN rows = {}
  BY DEF Init
<1>3. HandlerIsOpen /\ StageFits /\ RowsFit /\ NotYet /\ KnownIsDone
  BY <1>2 DEF Init, HandlerIsOpen, StageFits, Fits, RowsFit, NotYet, DoneBy, KnownIsDone
<1>4. PromisesKept
  BY DEF Init, PromisesKept, Answered, Decided
<1>. QED  BY <1>1, <1>3, <1>4 DEF IInv

LEMMA NextIInv == IInv /\ [Next]_vars => IInv'
<1>. SUFFICES ASSUME IInv, [Next]_vars  PROVE IInv'
  OBVIOUS
<1>1. CASE \E r \in Requests, o \in Ops, valid \in BOOLEAN : Send(r, o, valid)
  BY <1>1, SendIInv
<1>2. CASE \E r \in Requests : ReadTimeout(r)
  BY <1>2, ReadTimeoutIInv
<1>3. CASE \E r \in Requests : Handler(r)
  BY <1>3, BeginIInv, GenerateIInv, TuneIInv, SaveIInv, ReadIInv, LockIInv, ReplyIInv
  DEF Handler
<1>4. CASE Crash
  BY <1>4, CrashIInv
<1>5. CASE Restart \/ UNCHANGED vars
  <2>1. up' \in BOOLEAN /\ UNCHANGED <<op, web, agent, reply, accepted, body, rows, known>>
    BY <1>5 DEF Restart, vars, handlers, IInv, TypeOK
  <2>2. /\ \A q : DoneBy(q)' = DoneBy(q)
        /\ \A kind : RowsOf(kind)' = RowsOf(kind)
    BY <2>1, SameRows
  <2>3. TypeOK' /\ HandlerIsOpen' /\ StageFits' /\ RowsFit' /\ NotYet' /\ KnownIsDone'
    BY <2>1, <2>2 DEF IInv, TypeOK, HandlerIsOpen, StageFits, Fits, RowsFit, NotYet,
                      KnownIsDone, Done
  <2>4. PromisesKept'
    BY <2>1, <2>2 DEF IInv, PromisesKept, Promised, Kept, Seen
  <2>. QED  BY <2>3, <2>4 DEF IInv
<1>. QED  BY <1>1, <1>2, <1>3, <1>4, <1>5 DEF Next
-----------------------------------------------------------------------------
(* What the statuses are worth. *)

THEOREM Inductive == Spec => []IInv
BY InitIInv, NextIInv, PTL DEF Spec

\* The state has the types that the handlers and the backend expect.
THEOREM TypeCorrect == Spec => []TypeOK
<1>1. IInv => TypeOK
  BY DEF IInv
<1>. QED  BY <1>1, Inductive, PTL

\* A 200 is never a lie: the run's record, the accepted tune's config or the
\* disable's lock is in the store, whatever the other handlers do.
THEOREM OkMeansDoneHolds == Spec => []OkMeansDone
<1>1. IInv => OkMeansDone
  <2>. SUFFICES ASSUME IInv, NEW r \in Requests, web[r] = "200"  PROVE Kept(r, "200")
    BY DEF OkMeansDone, Kept
  <2>. QED  BY DEF IInv, PromisesKept, Promised, Answered, Decided
<1>. QED  BY <1>1, Inductive, PTL

\* Nobody is shown a store without a write he was told of before he asked.
THEOREM AnsweredIsSeenHolds == Spec => []AnsweredIsSeen
<1>1. IInv => AnsweredIsSeen
  <2>. SUFFICES ASSUME IInv, NEW r \in Requests, NEW w \in known[r]
                PROVE  /\ web[r] = "200" /\ op[r] = "history" /\ op[w] = "run"
                            => body[r] \cap DoneBy(w) # {}
                       /\ web[r] = "200" /\ op[r] = "status" /\ op[w] = "tune"
                            => \A j \in DoneBy(w) : \E i \in body[r] : j <= i
                       /\ op[w] = "tune" /\ w \in accepted => web[r] # "404"
    BY DEF AnsweredIsSeen
  <2>1. \A code \in {"200", "404"} : web[r] = code => Seen(r, code)
    BY DEF IInv, PromisesKept, Promised, Answered, Decided
  <2>. QED  BY <2>1 DEF Seen
<1>. QED  BY <1>1, Inductive, PTL
-----------------------------------------------------------------------------
(* The refinement. *)

times == [r \in Requests |-> Cardinality(DoneBy(r))]

\* A request that has one row at most has none or one.
LEMMA NoneOrOne ==
  ASSUME NEW S, \A i, j \in S : i = j
  PROVE  Cardinality(S) = IF S = {} THEN 0 ELSE 1
<1>1. CASE S = {}
  BY <1>1, FS_EmptySet
<1>2. CASE S # {}
  <2>1. PICK i : S = {i}
    BY <1>2
  <2>. QED  BY <2>1, FS_Singleton
<1>. QED  BY <1>1, <1>2

\* A request counts for one from the moment it has a row.
LEMMA TimesDone ==
  ASSUME IInv, IInv', NEW r \in Requests
  PROVE  /\ times[r] = IF DoneBy(r) = {} THEN 0 ELSE 1
         /\ times'[r] = IF DoneBy(r)' = {} THEN 0 ELSE 1
<1>1. \A i, j \in DoneBy(r) : i = j
  BY DEF IInv, RowsFit, DoneBy
<1>2. \A i, j \in DoneBy(r)' : i = j
  BY DEF IInv, RowsFit, DoneBy
<1>. QED  BY <1>1, <1>2, NoneOrOne DEF times

\* The steps that insert no row leave the count alone.
LEMMA SameTimes ==
  ASSUME \A q \in Requests : DoneBy(q)' = DoneBy(q)
  PROVE  UNCHANGED times
BY DEF times

\* A handler that answers has done, or not done, what its answer says.
LEMMA ReplyAnswers ==
  ASSUME IInv, IInv', NEW r \in Requests, Reply(r)
  PROVE  [Api!Next]_<<op, web, times>>
<1>1. /\ UNCHANGED <<op, rows>> /\ web \in [Requests -> Answered \cup {"unsent", "waiting"}]
      /\ agent[r] = "reply" /\ reply[r] \in Decided
  BY DEF Reply, IInv, TypeOK, StageFits
<1>2. UNCHANGED times
  BY <1>1, SameRows, SameTimes
<1>3. CASE web[r] # "waiting"
  BY <1>1, <1>2, <1>3 DEF Reply
<1>4. CASE web[r] = "waiting"
  <2>1. PICK code \in {"500", reply[r]} : web' = [web EXCEPT ![r] = code]
    BY <1>1, <1>4 DEF Reply, Answer, execute, Unreachable, Decided
  <2>2. code = "500" \/ Promised(r, code)
    BY <1>1, <2>1 DEF IInv, PromisesKept, Answered
  <2>3. code \in Decided /\ code # "400" /\ code \in Api!Codes
    BY <1>1, <2>1 DEF Decided, Api!Codes, Api!Refused, Api!Open
  <2>4. /\ code \in Api!Refused => times[r] = 0
        /\ code = "200" /\ op[r] = "run" => times[r] = 1
    BY <2>2, <2>3, TimesDone DEF Promised, Kept, Decided, Api!Refused
  <2>5. Api!Answer(r, code)
    BY <1>1, <1>2, <1>4, <2>1, <2>4 DEF Api!Answer, times
  <2>. QED  BY <2>3, <2>5 DEF Api!Next
<1>. QED  BY <1>3, <1>4

\* A request is carried out when its row is inserted, which happens to nobody twice.
LEMMA SaveDoes ==
  ASSUME IInv, IInv', NEW r \in Requests, Save(r)
  PROVE  [Api!Next]_<<op, web, times>>
<1>. DEFINE row == [kind |-> IF op[r] = "run" THEN "record" ELSE "config",
                    by |-> r, locked |-> FALSE]
            n == Len(rows)
<1>1. /\ agent[r] = "save" /\ TypeOK /\ DoneBy(r) = {} /\ web[r] \in {"waiting", "502"}
      /\ op[r] \in {"run", "tune"} /\ UNCHANGED <<op, web>>
  BY DEF Save, IInv, StageFits, Fits, NotYet, HandlerIsOpen
<1>2. CASE UNCHANGED rows
  BY <1>1, <1>2, SameRows, SameTimes
<1>3. CASE rows' = Append(rows, row)
  <2>1. row \in Row /\ rows \in Seq(Row) /\ n \in Nat /\ DOMAIN rows = 1..n
    BY <1>1, RowTypes DEF Row, TypeOK
  <2>2. DOMAIN rows' = 1..(n + 1) /\ rows'[n + 1] = row /\ \A i \in 1..n : rows'[i] = rows[i]
    BY <1>3, <2>1
  <2>3. DoneBy(r)' # {} /\ \A q \in Requests \ {r} : DoneBy(q)' = DoneBy(q)
    BY <2>1, <2>2 DEF DoneBy
  <2>4. /\ times[r] = 0 /\ times'[r] = 1
        /\ \A q \in Requests \ {r} : times'[q] = times[q]
    BY <1>1, <2>3, TimesDone DEF times
  <2>5. times' = [times EXCEPT ![r] = 1]
    BY <2>4 DEF times
  <2>6. Api!Do(r)
    BY <1>1, <2>4, <2>5 DEF Api!Do, Api!Open, times
  <2>. QED  BY <2>6 DEF Api!Next
<1>. QED  BY <1>2, <1>3 DEF Save

\* The gateway implements RequestApi: carried out once at most, and only a 502 is
\* not the last word.
THEOREM Refinement == Spec => ImplementsRequestApi
<1>1. Init => Api!Init
  <2>. SUFFICES ASSUME Init  PROVE Api!Init
    OBVIOUS
  <2>1. \A r \in Requests : DoneBy(r) = {}
    BY DEF Init, DoneBy
  <2>. QED  BY <2>1, FS_EmptySet DEF Init, Api!Init
<1>2. IInv /\ IInv' /\ [Next]_vars => [Api!Next]_<<op, web, times>>
  <2>. SUFFICES ASSUME IInv, IInv', [Next]_vars  PROVE [Api!Next]_<<op, web, times>>
    OBVIOUS
  <2>1. ASSUME NEW r \in Requests, NEW o \in Ops, NEW valid \in BOOLEAN, Send(r, o, valid)
        PROVE  [Api!Next]_<<op, web, times>>
    <3>1. UNCHANGED times
      BY <2>1, SameRows, SameTimes DEF Send
    <3>2. Api!Ask(r, o)
      BY <2>1, <3>1 DEF Send, execute, Api!Ask, Api!Open, times
    <3>. QED  BY <3>2 DEF Api!Next
  <2>2. ASSUME NEW r \in Requests, ReadTimeout(r)
        PROVE  [Api!Next]_<<op, web, times>>
    <3>1. UNCHANGED times
      BY <2>2, SameRows, SameTimes DEF ReadTimeout
    <3>2. Api!Answer(r, "502")
      BY <2>2, <3>1 DEF ReadTimeout, execute, Api!Answer, Api!Refused, times
    <3>. QED  BY <3>2 DEF Api!Next, Api!Codes, Api!Open
  <2>3. ASSUME NEW r \in Requests, Handler(r)
        PROVE  [Api!Next]_<<op, web, times>>
    <3>1. CASE Begin(r) \/ Generate(r) \/ Tune(r) \/ Read(r) \/ Lock(r)
      <4>1. UNCHANGED <<op, web>>
        BY <3>1 DEF Begin, Generate, Tune, Read, Lock
      <4>2. \A q \in Requests : DoneBy(q)' = DoneBy(q)
        <5>1. CASE Lock(r)
          BY <5>1, LockKeepsRows
        <5>2. CASE ~Lock(r)
          BY <3>1, <5>2, SameRows DEF Begin, Generate, Tune, Read
        <5>. QED  BY <5>1, <5>2
      <4>. QED  BY <4>1, <4>2, SameTimes
    <3>2. CASE Save(r)
      BY <3>2, SaveDoes
    <3>3. CASE Reply(r)
      BY <3>3, ReplyAnswers
    <3>. QED  BY <2>3, <3>1, <3>2, <3>3 DEF Handler
  <2>4. CASE Crash
    <3>1. UNCHANGED times
      BY <2>4, SameRows, SameTimes DEF Crash
    <3>. QED  BY <2>4, <3>1 DEF Crash, execute, Api!Next, Api!Lose, Api!Open, times
  <2>5. CASE Restart \/ UNCHANGED vars
    BY <2>5, SameRows, SameTimes DEF Restart, vars
  <2>. QED  BY <2>1, <2>2, <2>3, <2>4, <2>5 DEF Next
<1>. QED  BY <1>1, <1>2, Inductive, PTL DEF Spec, ImplementsRequestApi, Api!Spec, Api!vars, times
=============================================================================
