------------------------------ MODULE Adapters ------------------------------
(***************************************************************************)
(* What a process of llm-max does with what lies outside it, one kind of   *)
(* work to a behaviour: the benchmark of a model over any runtime, or over *)
(* Ollama; the download of a model from Ollama; scans of the GPUs by       *)
(* several threads.  The four share no state, so that no two of them are   *)
(* tried together.                                                         *)
(***************************************************************************)
EXTENDS NvidiaProvider, OllamaBench, PullStream

VARIABLE work

adapterVars == <<work, vars, benchVars, pullVars>>

AdaptersInit ==
  /\ work \in {"runner", "ollama", "pull", "scan"}
  /\ Init /\ BenchInit /\ PullInit
  /\ work # "pull" => reader = "cli" /\ ollama = "idle"

Does(kind) == work = kind /\ UNCHANGED work

AdaptersNext ==
  \/ Does("runner") /\ RunnerNext /\ UNCHANGED <<replies, vars, pullVars>>
  \/ Does("ollama") /\ BenchNext /\ UNCHANGED <<vars, pullVars>>
  \/ Does("pull") /\ PullNext /\ UNCHANGED <<vars, benchVars>>
  \/ Does("scan") /\ Next /\ UNCHANGED <<benchVars, pullVars>>

\* A reader goes on as far as it can by itself, where there is a download at all.
AdaptersFairness ==
  WF_adapterVars(Does("pull") /\ OwnRead /\ UNCHANGED <<vars, benchVars>>)

AdaptersSpec == AdaptersInit /\ [][AdaptersNext]_adapterVars /\ AdaptersFairness

-----------------------------------------------------------------------------
\* The rate that a benchmark over Ollama reports was measured (RateIsMeasured);
\* another runtime's rates come from no reply of Ollama.
OllamaRateIsMeasured == work = "ollama" => RateIsMeasured
=============================================================================
