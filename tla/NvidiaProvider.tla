--------------------------- MODULE NvidiaProvider ---------------------------
(***************************************************************************)
(* profiler/nvidia.py: scans of the NVIDIA GPUs by several threads of one  *)
(* process (agentd runs its handlers on a pool of them).  They share NVML, *)
(* which counts nvmlInit against nvmlShutdown, and answers no other call   *)
(* while the count is zero.  Any call may fail: the driver is reloaded, a  *)
(* GPU falls off the bus.                                                  *)
(***************************************************************************)
EXTENDS Integers, Sequences, FiniteSets

CONSTANTS Scans,          \* the threads, each of which scans once
          DeviceCount,    \* the machine's GPUs
          Optional,       \* the readings a device may lack
          MaxFailures     \* bound: NVML calls that fail

ASSUME DevicesAssumption == DeviceCount \in Nat /\ MaxFailures \in Nat
ASSUME ScansAssumption == IsFiniteSet(Scans)

VARIABLES
  inits,      \* NVML's count
  pc,         \* the NVML call each scan makes next
  gpus,       \* the devices it has read, then what the provider reports
  failures,   \* how many calls failed
  spoiled     \* ghost: the scans in which one did

vars == <<inits, pc, gpus, failures, spoiled>>

Calls == {"availInit", "availShutdown", "init", "count", "device", "shutdown"}

TypeOK == /\ inits \in Nat
          /\ pc \in [Scans -> Calls \cup {"done"}]
          /\ gpus \in [Scans -> Seq([index : 0..(DeviceCount - 1),
                                     readings : SUBSET Optional])]
          /\ failures \in 0..MaxFailures
          /\ spoiled \subseteq Scans

Init == /\ inits = 0
        /\ pc = [s \in Scans |-> "availInit"]
        /\ gpus = [s \in Scans |-> << >>]
        /\ failures = 0
        /\ spoiled = {}

-----------------------------------------------------------------------------
Goto(s, call) == pc' = [pc EXCEPT ![s] = call]

\* A call of NVML that is answered.
Works(s, from, to) ==
  /\ pc[s] = from
  /\ Goto(s, to)
  /\ UNCHANGED <<failures, spoiled>>

nvmlInit     == inits' = inits + 1
nvmlShutdown == inits > 0 /\ inits' = inits - 1

\* is_available(): the library is there and can be initialised.
AvailInit(s)     == Works(s, "availInit", "availShutdown") /\ nvmlInit /\ UNCHANGED gpus
AvailShutdown(s) == Works(s, "availShutdown", "init") /\ nvmlShutdown /\ UNCHANGED gpus

\* Mutant: detect() relies on the nvmlInit of is_available().
DetectInitForgotten(s) == Works(s, "init", "count") /\ UNCHANGED <<inits, gpus>>

\* detect()
DetectInit(s) == Works(s, "init", "count") /\ nvmlInit /\ UNCHANGED gpus

GetCount(s) ==
  /\ inits > 0
  /\ Works(s, "count", IF DeviceCount = 0 THEN "shutdown" ELSE "device")
  /\ UNCHANGED <<inits, gpus>>

\* _read_device: handle, name and memory must be answered; each of the others
\* may fail by itself and is then None.
ReadDevice(s) ==
  /\ inits > 0
  /\ \E readings \in SUBSET Optional :
       gpus' = [gpus EXCEPT ![s] = Append(@, [index |-> Len(@), readings |-> readings])]
  /\ Works(s, "device", IF Len(gpus[s]) + 1 < DeviceCount THEN "device" ELSE "shutdown")
  /\ UNCHANGED inits

\* Mutant: a second nvmlShutdown, of the nvmlInit of is_available().
DetectShutdownTwice(s) ==
  /\ Works(s, "shutdown", "done")
  /\ inits > 0 /\ inits' = IF inits > 1 THEN inits - 2 ELSE 0
  /\ UNCHANGED gpus

DetectShutdown(s) == Works(s, "shutdown", "done") /\ nvmlShutdown /\ UNCHANGED gpus

\* What the exceptions of the six calls come to: is_available() is False, or
\* detect() returns [].
GiveUp(s) == /\ pc[s] # "done"
             /\ Goto(s, "done")
             /\ gpus' = [gpus EXCEPT ![s] = << >>]
             /\ UNCHANGED inits

\* A call without an nvmlInit raises; any other may.
Fails(s) ==
  IF inits = 0 /\ pc[s] \notin {"availInit", "init"}
  THEN UNCHANGED <<failures, spoiled>>
  ELSE /\ failures < MaxFailures
       /\ failures' = failures + 1
       /\ spoiled' = spoiled \cup {s}

\* Mutant: the devices read so far are reported.
CallFailsKeeps(s) ==
  /\ Fails(s)
  /\ pc[s] # "done" /\ Goto(s, "done")
  /\ UNCHANGED <<inits, gpus>>

CallFails(s) == Fails(s) /\ GiveUp(s)

Next == \E s \in Scans :
          \/ AvailInit(s) \/ AvailShutdown(s)
          \/ DetectInit(s) \/ GetCount(s) \/ ReadDevice(s) \/ DetectShutdown(s)
          \/ CallFails(s)

Spec == Init /\ [][Next]_vars

-----------------------------------------------------------------------------
\* The scans between an nvmlInit of theirs and its nvmlShutdown.
Holding == {s \in Scans : pc[s] \in {"availShutdown", "count", "device", "shutdown"}}

\* "Treat as no GPU detected": a scan reports all GPUs or none, ...
AllOrNone ==
  \A s \in Scans : pc[s] = "done" =>
    gpus[s] = << >> \/ [i \in 1..Len(gpus[s]) |-> gpus[s][i].index]
                         = [i \in 1..DeviceCount |-> i - 1]

\* ... and none only if the machine has none or a call of its own failed: no
\* other scan, which initialises NVML and shuts it down at any moment, or gives
\* up half way, makes it lose a GPU.
ScansDoNotDisturb ==
  \A s \in Scans : pc[s] = "done" /\ s \notin spoiled => Len(gpus[s]) = DeviceCount

\* NVML is shut down as often as it is initialised, and is left initialised only
\* by as many scans as gave up in between.
InitsAreReturned ==
  /\ inits >= Cardinality(Holding)
  /\ inits <= Cardinality(Holding) + Cardinality(spoiled)

\* The parts of the inductive invariant.
ReadInOrder ==
  \A s \in Scans : \A i \in 1..Len(gpus[s]) : gpus[s][i].index = i - 1

Progress ==
  \A s \in Scans :
    /\ pc[s] \in {"availInit", "availShutdown", "init", "count"} => gpus[s] = << >>
    /\ pc[s] = "device" => Len(gpus[s]) < DeviceCount
    /\ pc[s] = "shutdown" => Len(gpus[s]) = DeviceCount
    /\ pc[s] = "done" => gpus[s] = << >> \/ Len(gpus[s]) = DeviceCount

SpoiledIsOver == \A s \in spoiled : pc[s] = "done"

IInv == /\ TypeOK /\ ReadInOrder /\ Progress /\ SpoiledIsOver
        /\ InitsAreReturned /\ ScansDoNotDisturb
=============================================================================
