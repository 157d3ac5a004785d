----------------------------- MODULE RequestApi -----------------------------
(***************************************************************************)
(* What the web backend promises its users about a request, whatever       *)
(* becomes of agentd and however late it is:                               *)
(*   - a request is answered once, and carried out once or not at all;     *)
(*   - only "502" leaves open whether it was or will be: any other answer  *)
(*     is the last word, and nothing happens to the store after it;        *)
(*   - a run answered "200" was carried out, and a request that was        *)
(*     refused was not.                                                    *)
(* Gateway.tla implements it.                                              *)
(***************************************************************************)
EXTENDS Naturals

CONSTANTS Requests, Ops,
          Writes     \* the operations that insert a row

VARIABLES op,        \* what request r asks for
          answer,    \* "unsent", "waiting", or the status answered
          times      \* times[r]: how many rows r has inserted

vars == <<op, answer, times>>

Open    == "502"
Refused == {"400", "404", "422", "503"}
Codes   == Refused \cup {"200", "500", Open}

Init == /\ op = [r \in Requests |-> "none"]
        /\ answer = [r \in Requests |-> "unsent"]
        /\ times = [r \in Requests |-> 0]

\* A request arrives; the backend may answer it by itself.
Ask(r, o) ==
  /\ answer[r] = "unsent"
  /\ op' = [op EXCEPT ![r] = o]
  /\ \E a \in {"waiting", "400", Open} : answer' = [answer EXCEPT ![r] = a]
  /\ UNCHANGED times

\* It is carried out, perhaps when its user has been answered "502" already.
Do(r) ==
  /\ op[r] \in Writes
  /\ answer[r] \in {"waiting", Open}
  /\ times[r] = 0
  /\ times' = [times EXCEPT ![r] = 1]
  /\ UNCHANGED <<op, answer>>

\* It is answered.
Answer(r, code) ==
  /\ answer[r] = "waiting"
  /\ code \in Refused => times[r] = 0
  /\ code = "200" /\ op[r] = "run" => times[r] = 1
  /\ answer' = [answer EXCEPT ![r] = code]
  /\ UNCHANGED <<op, times>>

\* agentd is lost, and with it every answer that is still waited for.
Lose ==
  /\ answer' = [r \in Requests |-> IF answer[r] = "waiting" THEN Open ELSE answer[r]]
  /\ UNCHANGED <<op, times>>

Next == \/ \E r \in Requests : \/ \E o \in Ops : Ask(r, o)
                               \/ Do(r)
                               \/ \E code \in Codes : Answer(r, code)
        \/ Lose

Spec == Init /\ [][Next]_vars
=============================================================================
