--------------------------- MODULE Adapters_proofs --------------------------
(***************************************************************************)
(* Scans share NVML without harm, for every number of scans, GPUs and      *)
(* failing calls.  The inductive invariant IInv (NvidiaProvider.tla) ties  *)
(* NVML's count to the scans that hold an nvmlInit of their own: it is     *)
(* never below their number, so that no scan finds NVML shut down by       *)
(* another one.                                                            *)
(*                                                                         *)
(* A benchmark's result tells a full run from every other, for every       *)
(* number of prompts, any runtime and any answers of Ollama, and the       *)
(* percentiles it reports are there: for every list of latencies and every *)
(* k below its length, sorted(s)[k] is defined by the two counts of        *)
(* SortedAt (SortedAtIsRanked).  Its mean rate was generated: the recursive *)
(* function behind Total exists and is unique (RecursionExists and         *)
(* RecursionUnique), so that the mean lies between two samples, and each   *)
(* sample is a timed reply's rate to the hundredth (RateTells).            *)
(*                                                                         *)
(* A download is shown as it was, for every stream of lines: what a reader *)
(* has shown is Only(..) of the lines it has taken, and only an Ollama that *)
(* has failed for good has sent an error line.                             *)
(*                                                                         *)
(* AdaptersInv puts the three side by side.                                *)
(***************************************************************************)
EXTENDS Adapters, FiniteSetTheorems, WellFoundedInduction,
        SequenceTheorems, TLAPS

-----------------------------------------------------------------------------
(* Scans of the GPUs. *)

HoldingCalls == {"availShutdown", "count", "device", "shutdown"}

\* The sets that the invariant counts are finite.
LEMMA CountedSets ==
  ASSUME TypeOK
  PROVE  /\ IsFiniteSet(Holding) /\ Cardinality(Holding) \in Nat
         /\ IsFiniteSet(spoiled) /\ Cardinality(spoiled) \in Nat
<1>1. Holding \in SUBSET Scans /\ spoiled \in SUBSET Scans
  BY DEF Holding, TypeOK
<1>2. IsFiniteSet(Holding) /\ IsFiniteSet(spoiled)
  BY <1>1, ScansAssumption, FS_Subset
<1> QED BY <1>2, FS_CardinalityType

\* What a call does to the scans that hold an nvmlInit: the caller joins them,
\* leaves them or neither.
LEMMA CallAndHolding ==
  ASSUME TypeOK, NEW s \in Scans, NEW l \in Calls \cup {"done"}, Goto(s, l)
  PROVE  Cardinality(Holding') =
           Cardinality(Holding) + (IF l \in HoldingCalls THEN 1 ELSE 0)
                                - (IF pc[s] \in HoldingCalls THEN 1 ELSE 0)
<1>1. IsFiniteSet(Holding) /\ Cardinality(Holding) \in Nat
  BY CountedSets
<1>2. Holding' = IF l \in HoldingCalls THEN Holding \cup {s} ELSE Holding \ {s}
  BY DEF Holding, HoldingCalls, Goto, TypeOK
<1>3. s \in Holding <=> pc[s] \in HoldingCalls
  BY DEF Holding, HoldingCalls
<1>4. Cardinality(Holding \cup {s}) =
        IF s \in Holding THEN Cardinality(Holding) ELSE Cardinality(Holding) + 1
  BY <1>1, FS_AddElement
<1>5. Cardinality(Holding \ {s}) =
        IF s \in Holding THEN Cardinality(Holding) - 1 ELSE Cardinality(Holding)
  BY <1>1, FS_RemoveElement
<1>6. CASE l \in HoldingCalls
  BY <1>1, <1>2, <1>3, <1>4, <1>6
<1>7. CASE l \notin HoldingCalls
  BY <1>1, <1>2, <1>3, <1>5, <1>7
<1> QED BY <1>6, <1>7

\* A scan that holds an nvmlInit finds NVML initialised.
LEMMA HoldersFindNvml ==
  ASSUME TypeOK, InitsAreReturned, NEW s \in Scans, pc[s] \in HoldingCalls
  PROVE  inits > 0
<1>1. s \in Holding
  BY DEF Holding, HoldingCalls
<1>2. IsFiniteSet(Holding) /\ Cardinality(Holding) \in Nat
  BY CountedSets
<1>3. Cardinality(Holding) # 0
  BY <1>1, <1>2, FS_EmptySet
<1>4. inits \in Nat /\ inits >= Cardinality(Holding)
  BY DEF InitsAreReturned, TypeOK
<1> QED BY <1>2, <1>3, <1>4

-----------------------------------------------------------------------------
\* Initially nothing is held, read or failed.
LEMMA InitIInv == Init => IInv
<1> SUFFICES ASSUME Init PROVE IInv
  OBVIOUS
<1>1. TypeOK
  BY DevicesAssumption DEF Init, TypeOK, Calls
<1>2. Holding = {} /\ Cardinality(Holding) = 0 /\ Cardinality(spoiled) = 0
  BY FS_EmptySet DEF Init, Holding
<1>3. InitsAreReturned
  BY <1>2 DEF Init, InitsAreReturned
<1>4. ReadInOrder /\ Progress /\ SpoiledIsOver /\ ScansDoNotDisturb
  BY DevicesAssumption DEF Init, ReadInOrder, Progress, SpoiledIsOver, ScansDoNotDisturb
<1> QED BY <1>1, <1>3, <1>4 DEF IInv

\* A call that reads no device leaves the reports as they are.
LEMMA CallReadsNothing ==
  ASSUME TypeOK, ReadInOrder, Progress, SpoiledIsOver, ScansDoNotDisturb,
         NEW s \in Scans, NEW l \in Calls \cup {"done"}, Goto(s, l), pc[s] # "done",
         UNCHANGED <<gpus, failures, spoiled>>, inits' \in Nat,
         l \in {"availInit", "availShutdown", "init", "count"} => gpus[s] = << >>,
         l = "device" => Len(gpus[s]) < DeviceCount,
         l \in {"shutdown", "done"} => Len(gpus[s]) = DeviceCount
  PROVE  TypeOK' /\ ReadInOrder' /\ Progress' /\ SpoiledIsOver' /\ ScansDoNotDisturb'
<1>1. pc'[s] = l /\ \A t \in Scans : t # s => pc'[t] = pc[t]
  BY DEF Goto, TypeOK
<1>2. TypeOK'
  <2>1. pc' \in [Scans -> Calls \cup {"done"}]
    BY DEF Goto, TypeOK
  <2> QED BY <2>1 DEF TypeOK
<1>3. ReadInOrder'
  BY DEF ReadInOrder
<1>4. Progress'
  <2> SUFFICES ASSUME NEW t \in Scans
               PROVE  /\ pc'[t] \in {"availInit", "availShutdown", "init", "count"} => gpus'[t] = << >>
                      /\ pc'[t] = "device" => Len(gpus'[t]) < DeviceCount
                      /\ pc'[t] = "shutdown" => Len(gpus'[t]) = DeviceCount
                      /\ pc'[t] = "done" => gpus'[t] = << >> \/ Len(gpus'[t]) = DeviceCount
    BY DEF Progress
  <2>1. CASE t = s
    BY <1>1, <2>1
  <2>2. CASE t # s
    BY <1>1, <2>2 DEF Progress
  <2> QED BY <2>1, <2>2
<1>5. SpoiledIsOver'
  BY <1>1 DEF SpoiledIsOver, TypeOK
<1>6. ScansDoNotDisturb'
  <2> SUFFICES ASSUME NEW t \in Scans, pc'[t] = "done", t \notin spoiled
               PROVE  Len(gpus[t]) = DeviceCount
    BY DEF ScansDoNotDisturb
  <2>1. CASE t = s
    BY <1>1, <2>1
  <2>2. CASE t # s
    BY <1>1, <2>2 DEF ScansDoNotDisturb
  <2> QED BY <2>1, <2>2
<1> QED BY <1>2, <1>3, <1>4, <1>5, <1>6

\* A device that is read is the next one.
LEMMA ReadDeviceAppends ==
  ASSUME TypeOK, ReadInOrder, Progress, NEW s \in Scans, ReadDevice(s)
  PROVE  /\ gpus'[s] \in Seq([index : 0..(DeviceCount - 1), readings : SUBSET Optional])
         /\ Len(gpus'[s]) = Len(gpus[s]) + 1
         /\ \A i \in 1..Len(gpus'[s]) : gpus'[s][i].index = i - 1
         /\ \A t \in Scans : t # s => gpus'[t] = gpus[t]
<1> DEFINE Devices == [index : 0..(DeviceCount - 1), readings : SUBSET Optional]
<1>1. PICK readings \in SUBSET Optional :
        gpus' = [gpus EXCEPT ![s] = Append(@, [index |-> Len(@), readings |-> readings])]
  BY DEF ReadDevice
<1>2. gpus[s] \in Seq(Devices) /\ gpus \in [Scans -> Seq(Devices)]
  BY DEF TypeOK
<1>3. Len(gpus[s]) \in 0..(DeviceCount - 1)
  BY <1>2, DevicesAssumption DEF ReadDevice, Works, Progress
<1> DEFINE d == [index |-> Len(gpus[s]), readings |-> readings]
<1>4. d \in Devices
  BY <1>3
<1>5. gpus'[s] = Append(gpus[s], d) /\ \A t \in Scans : t # s => gpus'[t] = gpus[t]
  BY <1>1, <1>2
<1>6. gpus'[s] \in Seq(Devices) /\ Len(gpus'[s]) = Len(gpus[s]) + 1
  BY <1>2, <1>4, <1>5
<1>7. \A i \in 1..Len(gpus'[s]) : gpus'[s][i].index = i - 1
  <2> SUFFICES ASSUME NEW i \in 1..Len(gpus'[s])
               PROVE  gpus'[s][i].index = i - 1
    OBVIOUS
  <2>1. CASE i = Len(gpus[s]) + 1
    BY <1>2, <1>4, <1>5, <1>6, <2>1
  <2>2. CASE i # Len(gpus[s]) + 1
    <3>1. i \in 1..Len(gpus[s])
      BY <1>2, <1>6, <2>2
    <3>2. gpus'[s][i] = gpus[s][i]
      BY <1>2, <1>4, <1>5, <3>1
    <3> QED BY <3>1, <3>2 DEF ReadInOrder
  <2> QED BY <2>1, <2>2
<1> QED BY <1>5, <1>6, <1>7

\* A call that works.
LEMMA WorksIInv ==
  ASSUME IInv, NEW s \in Scans,
         \/ AvailInit(s) \/ AvailShutdown(s) \/ DetectInit(s) \/ DetectShutdown(s)
         \/ GetCount(s) \/ ReadDevice(s)
  PROVE  IInv'
<1>0. /\ TypeOK /\ ReadInOrder /\ Progress /\ SpoiledIsOver
      /\ InitsAreReturned /\ ScansDoNotDisturb
  BY DEF IInv
<1>c. /\ Cardinality(Holding) \in Nat /\ Cardinality(spoiled) \in Nat
      /\ DeviceCount \in Nat /\ inits \in Nat
  BY <1>0, CountedSets, DevicesAssumption DEF TypeOK
<1>1. CASE AvailInit(s)
  <2>1. Goto(s, "availShutdown") /\ pc[s] = "availInit" /\ inits' = inits + 1
        /\ UNCHANGED <<gpus, failures, spoiled>>
    BY <1>1 DEF AvailInit, Works, nvmlInit
  <2>2. Cardinality(Holding') = Cardinality(Holding) + 1
    BY <1>0, <1>c, <2>1, CallAndHolding DEF Calls, HoldingCalls
  <2>3. TypeOK' /\ ReadInOrder' /\ Progress' /\ SpoiledIsOver' /\ ScansDoNotDisturb'
    <3>1. gpus[s] = << >>
      BY <1>0, <2>1 DEF Progress
    <3>2. inits' \in Nat
      BY <1>c, <2>1
    <3> QED BY <1>0, <2>1, <3>1, <3>2, CallReadsNothing DEF Calls
  <2>4. InitsAreReturned'
    BY <1>0, <1>c, <2>1, <2>2 DEF InitsAreReturned
  <2> QED BY <2>3, <2>4 DEF IInv
<1>2. CASE AvailShutdown(s)
  <2>1. Goto(s, "init") /\ pc[s] = "availShutdown" /\ inits > 0 /\ inits' = inits - 1
        /\ UNCHANGED <<gpus, failures, spoiled>>
    BY <1>2 DEF AvailShutdown, Works, nvmlShutdown
  <2>2. Cardinality(Holding') = Cardinality(Holding) - 1
    BY <1>0, <1>c, <2>1, CallAndHolding DEF Calls, HoldingCalls
  <2>3. TypeOK' /\ ReadInOrder' /\ Progress' /\ SpoiledIsOver' /\ ScansDoNotDisturb'
    <3>1. gpus[s] = << >>
      BY <1>0, <2>1 DEF Progress
    <3>2. inits' \in Nat
      BY <1>c, <2>1
    <3> QED BY <1>0, <2>1, <3>1, <3>2, CallReadsNothing DEF Calls
  <2>4. InitsAreReturned'
    BY <1>0, <1>c, <2>1, <2>2 DEF InitsAreReturned
  <2> QED BY <2>3, <2>4 DEF IInv
<1>3. CASE DetectInit(s)
  <2>1. Goto(s, "count") /\ pc[s] = "init" /\ inits' = inits + 1
        /\ UNCHANGED <<gpus, failures, spoiled>>
    BY <1>3 DEF DetectInit, Works, nvmlInit
  <2>2. Cardinality(Holding') = Cardinality(Holding) + 1
    BY <1>0, <1>c, <2>1, CallAndHolding DEF Calls, HoldingCalls
  <2>3. TypeOK' /\ ReadInOrder' /\ Progress' /\ SpoiledIsOver' /\ ScansDoNotDisturb'
    <3>1. gpus[s] = << >>
      BY <1>0, <2>1 DEF Progress
    <3>2. inits' \in Nat
      BY <1>c, <2>1
    <3> QED BY <1>0, <2>1, <3>1, <3>2, CallReadsNothing DEF Calls
  <2>4. InitsAreReturned'
    BY <1>0, <1>c, <2>1, <2>2 DEF InitsAreReturned
  <2> QED BY <2>3, <2>4 DEF IInv
<1>4. CASE DetectShutdown(s)
  <2>1. Goto(s, "done") /\ pc[s] = "shutdown" /\ inits > 0 /\ inits' = inits - 1
        /\ UNCHANGED <<gpus, failures, spoiled>>
    BY <1>4 DEF DetectShutdown, Works, nvmlShutdown
  <2>2. Cardinality(Holding') = Cardinality(Holding) - 1
    BY <1>0, <1>c, <2>1, CallAndHolding DEF Calls, HoldingCalls
  <2>3. TypeOK' /\ ReadInOrder' /\ Progress' /\ SpoiledIsOver' /\ ScansDoNotDisturb'
    <3>1. Len(gpus[s]) = DeviceCount
      BY <1>0, <2>1 DEF Progress
    <3>2. inits' \in Nat
      BY <1>c, <2>1
    <3> QED BY <1>0, <2>1, <3>1, <3>2, CallReadsNothing DEF Calls
  <2>4. InitsAreReturned'
    BY <1>0, <1>c, <2>1, <2>2 DEF InitsAreReturned
  <2> QED BY <2>3, <2>4 DEF IInv
<1>5. CASE GetCount(s)
  <2> DEFINE l == IF DeviceCount = 0 THEN "shutdown" ELSE "device"
  <2>1. Goto(s, l) /\ pc[s] = "count" /\ UNCHANGED <<inits, gpus, failures, spoiled>>
    BY <1>5 DEF GetCount, Works
  <2>2. Cardinality(Holding') = Cardinality(Holding)
    BY <1>0, <1>c, <2>1, CallAndHolding DEF Calls, HoldingCalls
  <2>3. TypeOK' /\ ReadInOrder' /\ Progress' /\ SpoiledIsOver' /\ ScansDoNotDisturb'
    <3>0. Len(gpus[s]) = 0
      BY <1>0, <2>1 DEF Progress
    <3>1. /\ l = "device" => Len(gpus[s]) < DeviceCount
          /\ l = "shutdown" => Len(gpus[s]) = DeviceCount
      BY <1>c, <3>0
    <3>2. inits' \in Nat
      BY <1>c, <2>1
    <3> QED BY <1>0, <2>1, <3>1, <3>2, CallReadsNothing DEF Calls
  <2>4. InitsAreReturned'
    BY <1>0, <1>c, <2>1, <2>2 DEF InitsAreReturned
  <2> QED BY <2>3, <2>4 DEF IInv
<1>6. CASE ReadDevice(s)
  <2> DEFINE l == IF Len(gpus[s]) + 1 < DeviceCount THEN "device" ELSE "shutdown"
  <2>1. Goto(s, l) /\ pc[s] = "device" /\ UNCHANGED <<inits, failures, spoiled>>
    BY <1>6 DEF ReadDevice, Works
  <2>2. Cardinality(Holding') = Cardinality(Holding)
    BY <1>0, <1>c, <2>1, CallAndHolding DEF Calls, HoldingCalls
  <2>3. /\ gpus'[s] \in Seq([index : 0..(DeviceCount - 1), readings : SUBSET Optional])
        /\ Len(gpus'[s]) = Len(gpus[s]) + 1
        /\ \A i \in 1..Len(gpus'[s]) : gpus'[s][i].index = i - 1
        /\ \A t \in Scans : t # s => gpus'[t] = gpus[t]
    BY <1>0, <1>6, ReadDeviceAppends
  <2>4. TypeOK'
    <3>1. pc' \in [Scans -> Calls \cup {"done"}]
      BY <1>0, <2>1 DEF Goto, TypeOK, Calls
    <3>2. gpus' \in [Scans -> Seq([index : 0..(DeviceCount - 1),
                                   readings : SUBSET Optional])]
      <4>1. DOMAIN gpus' = Scans /\ gpus' = [t \in Scans |-> gpus'[t]]
        BY <1>0, <1>6 DEF ReadDevice, TypeOK
      <4> QED BY <1>0, <2>3, <4>1 DEF TypeOK
    <3> QED BY <1>0, <2>1, <3>1, <3>2 DEF TypeOK
  <2>5. ReadInOrder'
    BY <1>0, <2>3 DEF ReadInOrder
  <2>6. Progress'
    <3>1. Len(gpus[s]) \in Nat /\ Len(gpus[s]) < DeviceCount
      BY <1>0, <2>1 DEF TypeOK, Progress
    <3>2. pc'[s] = l /\ \A t \in Scans : t # s => pc'[t] = pc[t]
      BY <1>0, <2>1 DEF Goto, TypeOK
    <3> SUFFICES ASSUME NEW t \in Scans
                 PROVE  /\ pc'[t] \in {"availInit", "availShutdown", "init", "count"} => gpus'[t] = << >>
                        /\ pc'[t] = "device" => Len(gpus'[t]) < DeviceCount
                        /\ pc'[t] = "shutdown" => Len(gpus'[t]) = DeviceCount
                        /\ pc'[t] = "done" => gpus'[t] = << >> \/ Len(gpus'[t]) = DeviceCount
      BY DEF Progress
    <3>3. CASE t = s
      BY <1>c, <2>3, <3>1, <3>2, <3>3
    <3>4. CASE t # s
      BY <1>0, <2>3, <3>2, <3>4 DEF Progress
    <3> QED BY <3>3, <3>4
  <2>7. SpoiledIsOver' /\ ScansDoNotDisturb'
    BY <1>0, <2>1, <2>3 DEF Goto, TypeOK, SpoiledIsOver, ScansDoNotDisturb
  <2>8. InitsAreReturned'
    BY <1>0, <1>c, <2>1, <2>2 DEF InitsAreReturned
  <2> QED BY <2>4, <2>5, <2>6, <2>7, <2>8 DEF IInv
<1> QED BY <1>1, <1>2, <1>3, <1>4, <1>5, <1>6

\* A call that fails: for want of an nvmlInit it cannot, because the scan holds
\* one, so that the failure is its own.
LEMMA FailsIInv ==
  ASSUME IInv, NEW s \in Scans, CallFails(s)
  PROVE  IInv'
<1>0. /\ TypeOK /\ ReadInOrder /\ Progress /\ SpoiledIsOver
      /\ InitsAreReturned /\ ScansDoNotDisturb
  BY DEF IInv
<1>c. /\ IsFiniteSet(spoiled) /\ Cardinality(spoiled) \in Nat
      /\ Cardinality(Holding) \in Nat /\ inits \in Nat /\ DeviceCount \in Nat
  BY <1>0, CountedSets, DevicesAssumption DEF TypeOK
<1>1. /\ Goto(s, "done") /\ pc[s] # "done" /\ UNCHANGED inits
      /\ gpus' = [gpus EXCEPT ![s] = << >>]
  BY DEF CallFails, GiveUp
<1>2. ~(inits = 0 /\ pc[s] \notin {"availInit", "init"})
  <2>1. CASE pc[s] \in HoldingCalls
    BY <1>0, <1>c, <2>1, HoldersFindNvml
  <2>2. CASE pc[s] \notin HoldingCalls
    BY <1>0, <1>1, <2>2 DEF TypeOK, Calls, HoldingCalls
  <2> QED BY <2>1, <2>2
<1>3. failures < MaxFailures /\ failures' = failures + 1 /\ spoiled' = spoiled \cup {s}
  BY <1>2 DEF CallFails, Fails
<1>4. Cardinality(Holding') = Cardinality(Holding)
                                - (IF pc[s] \in HoldingCalls THEN 1 ELSE 0)
  BY <1>0, <1>1, <1>c, CallAndHolding DEF Calls, HoldingCalls
<1>5. Cardinality(spoiled') = IF s \in spoiled THEN Cardinality(spoiled)
                                               ELSE Cardinality(spoiled) + 1
  BY <1>3, <1>c, FS_AddElement
<1>6. s \notin spoiled
  BY <1>0, <1>1 DEF SpoiledIsOver
<1>7. InitsAreReturned'
  BY <1>0, <1>1, <1>4, <1>5, <1>6, <1>c DEF InitsAreReturned
<1>8. TypeOK'
  <2>1. pc' \in [Scans -> Calls \cup {"done"}]
    BY <1>0, <1>1 DEF Goto, TypeOK
  <2>2. gpus' \in [Scans -> Seq([index : 0..(DeviceCount - 1), readings : SUBSET Optional])]
    <3> DEFINE Devices == [index : 0..(DeviceCount - 1), readings : SUBSET Optional]
    <3>1. << >> \in Seq(Devices)
      OBVIOUS
    <3>2. gpus \in [Scans -> Seq(Devices)]
      BY <1>0 DEF TypeOK
    <3> HIDE DEF Devices
    <3>3. gpus' \in [Scans -> Seq(Devices)]
      BY <1>1, <3>1, <3>2
    <3> QED BY <3>3 DEF Devices
  <2>3. failures' \in 0..MaxFailures /\ spoiled' \subseteq Scans /\ inits' \in Nat
    BY <1>0, <1>1, <1>3, DevicesAssumption DEF TypeOK
  <2> QED BY <2>1, <2>2, <2>3 DEF TypeOK
<1>9. ReadInOrder' /\ Progress' /\ SpoiledIsOver' /\ ScansDoNotDisturb'
  BY <1>0, <1>1, <1>3 DEF Goto, TypeOK, ReadInOrder, Progress, SpoiledIsOver, ScansDoNotDisturb
<1> QED BY <1>7, <1>8, <1>9 DEF IInv

\* Every step preserves the inductive invariant.
LEMMA NextIInv == IInv /\ [Next]_vars => IInv'
<1> SUFFICES ASSUME IInv, [Next]_vars PROVE IInv'
  OBVIOUS
<1>1. CASE UNCHANGED vars
  BY <1>1 DEF vars, IInv, TypeOK, ReadInOrder, Progress, SpoiledIsOver, InitsAreReturned,
              ScansDoNotDisturb, Holding
<1>2. CASE Next
  BY <1>2, WorksIInv, FailsIInv DEF Next
<1> QED BY <1>1, <1>2

-----------------------------------------------------------------------------
\* The inductive invariant holds throughout.
THEOREM Invariance == Spec => []IInv
BY InitIInv, NextIInv, PTL DEF Spec

\* Any number of scans leave NVML's count and themselves well-typed.
THEOREM TypeCorrect == Spec => []TypeOK
<1>1. IInv => TypeOK
  BY DEF IInv
<1> QED BY <1>1, Invariance, PTL

LEMMA ReadsAll == IInv => AllOrNone
<1>. SUFFICES ASSUME IInv, NEW s \in Scans, pc[s] = "done", gpus[s] # << >>
              PROVE  [i \in 1..Len(gpus[s]) |-> gpus[s][i].index]
                       = [i \in 1..DeviceCount |-> i - 1]
  BY DEF AllOrNone
<1>1. Len(gpus[s]) = DeviceCount
  BY DEF IInv, Progress
<1>2. \A i \in 1..Len(gpus[s]) : gpus[s][i].index = i - 1
  BY DEF IInv, ReadInOrder
<1>. QED  BY <1>1, <1>2

\* Every scan reports all GPUs or none.
THEOREM ReportsAllOrNone == Spec => []AllOrNone
BY ReadsAll, Invariance, PTL

\* A scan none of whose own calls failed reports every GPU, whatever the others
\* do to NVML in the meantime.
THEOREM NotDisturbed == Spec => []ScansDoNotDisturb
<1>1. IInv => ScansDoNotDisturb
  BY DEF IInv
<1> QED BY <1>1, Invariance, PTL

\* NVML's count is that of the scans that hold it, and of those that gave up.
THEOREM CountIsBounded == Spec => []InitsAreReturned
<1>1. IInv => InitsAreReturned
  BY DEF IInv
<1> QED BY <1>1, Invariance, PTL

-----------------------------------------------------------------------------
(* Benchmarks. *)

\* Of a non-empty set of naturals there is a least one.
LEMMA LeastNat ==
  ASSUME NEW D \in SUBSET Nat, D # {}
  PROVE  \E k \in D : \A j \in D : k <= j
<1>1. PICK k \in D : \A j \in D : ~(<<j, k>> \in OpToRel(<, Nat))
  BY NatLessThanWellFounded, WFMin
<1>2. ASSUME NEW j \in D  PROVE k <= j
  <2>1. j \in Nat /\ k \in Nat /\ ~ j < k
    BY <1>1 DEF OpToRel
  <2>. QED  BY <2>1
<1>. QED  BY <1>2

\* How the two counts of SortedAt are related.
LEMMA Counts ==
  ASSUME NEW s \in Seq(Nat), NEW v \in Nat
  PROVE  /\ CountUpTo(s, v) \in 0..Len(s) /\ CountBelow(s, v) \in 0..Len(s)
         /\ CountBelow(s, v + 1) = CountUpTo(s, v) /\ CountBelow(s, 0) = 0
         /\ (\A i \in 1..Len(s) : s[i] <= v) <=> CountUpTo(s, v) = Len(s)
         /\ \A w \in Nat : w < v => CountUpTo(s, w) <= CountBelow(s, v)
         /\ (\A i \in 1..Len(s) : s[i] # v) => CountUpTo(s, v) = CountBelow(s, v)
<1>1. PICK n \in Nat : n = Len(s)
  OBVIOUS
<1>2. \A i \in 1..n : s[i] \in Nat
  BY <1>1
<1>3. IsFiniteSet(1..n) /\ Cardinality(1..n) = n
  BY FS_Interval
<1>. DEFINE Up == {i \in 1..n : s[i] <= v}
            Low(u) == {i \in 1..n : s[i] < u}
<1>4. CountUpTo(s, v) = Cardinality(Up) /\ \A u : CountBelow(s, u) = Cardinality(Low(u))
  BY <1>1 DEF CountUpTo, CountBelow
<1>5. Up \in SUBSET (1..n) /\ Low(v) \in SUBSET (1..n)
  OBVIOUS
<1>6. Low(v + 1) = Up /\ Low(0) = {}
  BY <1>2
<1>7. (\A i \in 1..n : s[i] <= v) <=> Up = 1..n
  OBVIOUS
<1>8. (\A i \in 1..n : s[i] # v) => Up = Low(v)
  BY <1>2
<1>10. ASSUME NEW w \in Nat, w < v
       PROVE  /\ {i \in 1..n : s[i] <= w} \in SUBSET Low(v)
              /\ CountUpTo(s, w) = Cardinality({i \in 1..n : s[i] <= w})
  <2>1. {i \in 1..n : s[i] <= w} \in SUBSET Low(v)
    BY <1>2, <1>10
  <2>. QED  BY <1>1, <2>1 DEF CountUpTo
<1>. HIDE DEF Up, Low
<1>9. Cardinality(Up) \in 0..n /\ Cardinality(Low(v)) \in 0..n
  <2>1. \A T \in SUBSET (1..n) : IsFiniteSet(T) /\ Cardinality(T) <= n
    BY <1>3, FS_Subset, Zenon
  <2>2. Cardinality(Up) \in Nat /\ Cardinality(Low(v)) \in Nat
    BY <1>5, <2>1, FS_CardinalityType
  <2>. QED  BY <1>5, <2>1, <2>2
<1>11. ASSUME NEW w \in Nat, w < v
       PROVE  CountUpTo(s, w) <= CountBelow(s, v)
  <2>1. IsFiniteSet(Low(v))
    BY <1>3, <1>5, FS_Subset
  <2>2. Cardinality({i \in 1..n : s[i] <= w}) <= Cardinality(Low(v))
    BY <1>10, <1>11, <2>1, FS_Subset
  <2>. QED  BY <1>4, <1>10, <1>11, <2>2
<1>12. Cardinality(Up) = n => Up = 1..n
  BY <1>3, <1>5, FS_Subset
<1>13. CountBelow(s, 0) = 0
  BY <1>4, <1>6, FS_EmptySet
<1>. QED  BY <1>1, <1>3, <1>4, <1>6, <1>7, <1>8, <1>9, <1>11, <1>12, <1>13

\* Finitely many naturals have a bound.
LEMMA SomeBound ==
  ASSUME NEW s \in Seq(Nat)
  PROVE  \E b \in Nat : \A i \in 1..Len(s) : s[i] <= b
<1>1. PICK n \in Nat : n = Len(s) /\ \A i \in 1..n : s[i] \in Nat
  OBVIOUS
<1>. DEFINE Bounded(m) == \E b \in Nat : \A i \in 1..m : s[i] <= b
            D == {m \in 0..n : ~Bounded(m)}
<1>2. Bounded(0)
  OBVIOUS
<1>3. ASSUME NEW m \in Nat, m # 0, m <= n, Bounded(m - 1)
      PROVE  Bounded(m)
  <2>1. PICK b \in Nat : \A i \in 1..(m - 1) : s[i] <= b
    BY <1>3
  <2>2. s[m] \in Nat
    <3>1. m \in 1..n
      BY <1>3
    <3>. QED  BY <1>1, <3>1
  <2>. DEFINE c == IF s[m] <= b THEN b ELSE s[m]
  <2>3. c \in Nat /\ b <= c /\ s[m] <= c
    BY <2>2
  <2>. HIDE DEF c
  <2>4. ASSUME NEW i \in 1..m  PROVE s[i] <= c
    <3>1. i \in 1..(m - 1) \/ i = m
      BY <1>3
    <3>2. i \in 1..n
      BY <1>3
    <3>3. s[i] \in Nat
      BY <1>1, <3>2
    <3>4. CASE i \in 1..(m - 1)
      <4>1. s[i] <= b
        BY <2>1, <3>4
      <4>. QED  BY ONLY b \in Nat, <2>3, <3>3, <4>1
    <3>5. CASE i = m
      BY <2>3, <3>5
    <3>. QED  BY <3>1, <3>4, <3>5
  <2>. QED  BY <2>3, <2>4
<1>. HIDE DEF Bounded
<1>4. ASSUME D # {}  PROVE FALSE
  <2>1. D \in SUBSET Nat
    OBVIOUS
  <2>2. PICK m \in D : \A j \in D : m <= j
    BY <1>4, <2>1, LeastNat
  <2>3. m \in Nat /\ m <= n /\ ~Bounded(m) /\ m # 0
    BY <1>2
  <2>4. ~Bounded(m - 1)
    BY <1>3, <2>3
  <2>5. m - 1 \in D /\ ~ m <= m - 1
    BY <2>3, <2>4
  <2>. QED  BY <2>2, <2>5
<1>5. n \in 0..n /\ Bounded(n)
  <2>1. n \in 0..n
    OBVIOUS
  <2>. QED  BY <1>4, <2>1
<1>. QED  BY <1>1, <1>5 DEF Bounded

\* sorted(s)[k] is one of the samples, and the least that has more than k no larger.
LEMMA SortedAtIsRanked ==
  ASSUME NEW s \in Seq(Nat), NEW k \in Nat, k < Len(s)
  PROVE  /\ SortedAt(s, k) \in Nat /\ SortedAt(s, k) \in {s[i] : i \in 1..Len(s)}
         /\ CountBelow(s, SortedAt(s, k)) <= k /\ k < CountUpTo(s, SortedAt(s, k))
<1>. DEFINE D == {v \in Nat : k < CountUpTo(s, v)}
<1>1. D # {}
  <2>1. PICK b \in Nat : \A i \in 1..Len(s) : s[i] <= b
    BY SomeBound
  <2>2. CountUpTo(s, b) = Len(s)
    BY <2>1, Counts
  <2>. QED  BY <2>2
<1>2. PICK v \in D : \A u \in D : v <= u
  <2>1. D \in SUBSET Nat
    OBVIOUS
  <2>. HIDE DEF D
  <2>. QED  BY <1>1, <2>1, LeastNat
<1>3. v \in Nat /\ k < CountUpTo(s, v)
  OBVIOUS
<1>4. CountBelow(s, v) <= k
  <2>1. CASE v = 0
    <3>1. CountBelow(s, 0) = 0
      BY <1>3, Counts
    <3>. QED  BY <2>1, <3>1
  <2>2. CASE v # 0
    <3>1. v - 1 \in Nat /\ v - 1 + 1 = v /\ v - 1 \notin D
      BY <1>2, <1>3, <2>2
    <3>2. CountBelow(s, v) = CountUpTo(s, v - 1) /\ CountUpTo(s, v - 1) \in 0..Len(s)
      BY <3>1, Counts
    <3>. QED  BY <3>1, <3>2
  <2>. QED  BY <2>1, <2>2
<1>5. v \in {s[i] : i \in 1..Len(s)}
  <2>1. CountUpTo(s, v) # CountBelow(s, v)
    <3>1. CountUpTo(s, v) \in 0..Len(s) /\ CountBelow(s, v) \in 0..Len(s) /\ Len(s) \in Nat
      BY <1>3, Counts
    <3>. QED  BY <1>3, <1>4, <3>1
  <2>. QED  BY <1>3, <2>1, Counts
<1>. DEFINE IsAt(u) == CountBelow(s, u) <= k /\ k < CountUpTo(s, u)
            w == SortedAt(s, k)
<1>6. IsAt(v)
  BY <1>3, <1>4
<1>. HIDE DEF IsAt
<1>7. w = CHOOSE u \in {s[i] : i \in 1..Len(s)} : IsAt(u)
  BY DEF SortedAt, IsAt
<1>. HIDE DEF w
<1>8. w \in {s[i] : i \in 1..Len(s)} /\ IsAt(w)
  BY <1>5, <1>6, <1>7
<1>9. w \in Nat
  <2>1. \A i \in 1..Len(s) : s[i] \in Nat
    OBVIOUS
  <2>. QED  BY <1>8, <2>1
<1>. QED  BY <1>8, <1>9 DEF w, IsAt

\* The index of a percentile is one of the list's.
LEMMA IndexInList ==
  ASSUME NEW n \in Nat, n # 0, NEW pct \in {50, 95}
  PROVE  PercentileIndex(n, pct) \in Nat /\ PercentileIndex(n, pct) < n
<1>1. PICK x \in Nat : x = pct * (n - 1)
  OBVIOUS
<1>2. RoundHundredths(x) \in Nat
  <2>1. x \div 100 \in Nat /\ x % 100 \in Nat
    OBVIOUS
  <2>. QED  BY <2>1 DEF RoundHundredths
<1>3. PercentileIndex(n, pct) = IF RoundHundredths(x) > n - 1 THEN n - 1 ELSE RoundHundredths(x)
  BY <1>1 DEF PercentileIndex
<1>. QED  BY <1>2, <1>3

-----------------------------------------------------------------------------
\* A failed run has not answered every prompt; a full one reports the percentiles.
PartialRun(b, s) ==
  /\ b.error = TRUE /\ b.completed \in Nat /\ b.attempted \in Nat
  /\ b.completed < b.attempted /\ Len(s) < NPrompts

FullRun(b, s) ==
  /\ b.error = FALSE /\ b.oom = FALSE /\ b.completed = b.attempted
  /\ Len(s) = NPrompts
  /\ b.p50 = percentile(s, 50) /\ b.p95 = percentile(s, 95)

\* As long as the run goes on every prompt sent was answered, and the result is
\* one of a failure or of a full run.
RunnerInv ==
  /\ attempted \in 0..NPrompts /\ latencies \in Seq(Durations)
  /\ \/ result = << >> /\ Len(latencies) = attempted
     \/ \E b : result = <<b>> /\ (PartialRun(b, latencies) \/ FullRun(b, latencies))

LEMMA RunnerInvInit == RunnerInit => RunnerInv
BY PromptsAssumption DEF RunnerInit, RunnerInv

\* A prompt is answered: only the lists grow.
LEMMA ReturnsKeeps ==
  ASSUME RunnerInv, NEW d \in Durations, NEW r \in Nat, RunReturns(d, r)
  PROVE  RunnerInv'
<1>1. result = << >> /\ Len(latencies) = attempted /\ attempted < NPrompts
  BY DEF RunReturns, RunnerInv, Running
<1>2. /\ attempted' = attempted + 1 /\ result' = result
      /\ latencies' = Append(latencies, d)
  BY DEF RunReturns
<1>3. latencies' \in Seq(Durations) /\ Len(latencies') = Len(latencies) + 1
  BY <1>2, AppendProperties DEF RunnerInv
<1>4. attempted + 1 \in 0..NPrompts
  BY <1>1, PromptsAssumption DEF RunnerInv
<1>. QED  BY <1>1, <1>2, <1>3, <1>4 DEF RunnerInv

\* A prompt raises: the result says that it was attempted and not completed.
LEMMA RaisesKeeps ==
  ASSUME RunnerInv, NEW oom \in BOOLEAN, RunRaises(oom)
  PROVE  RunnerInv'
<1>1. result = << >> /\ Len(latencies) = attempted /\ attempted < NPrompts
  BY DEF RunRaises, RunnerInv, Running
<1>b. PICK b : b = [error |-> TRUE, oom |-> oom, tps |-> 0,
                    p50 |-> NoLatency, p95 |-> NoLatency,
                    completed |-> Len(latencies), attempted |-> attempted + 1]
  OBVIOUS
<1>2. attempted' = attempted + 1 /\ latencies' = latencies /\ result' = <<b>>
  BY <1>b DEF RunRaises
<1>3. attempted + 1 \in 0..NPrompts /\ attempted \in Nat /\ attempted < attempted + 1
  BY <1>1, PromptsAssumption DEF RunnerInv
<1>4. b.error = TRUE /\ b.completed = attempted /\ b.attempted = attempted + 1
  BY <1>1, <1>b
<1>5. PartialRun(b, latencies')
  BY <1>1, <1>2, <1>3, <1>4 DEF PartialRun
<1>. QED  BY <1>2, <1>3, <1>5 DEF RunnerInv

\* All prompts were answered: the result is that of a full run.
LEMMA FinishKeeps ==
  ASSUME RunnerInv, Finish
  PROVE  RunnerInv'
<1>1. result = << >> /\ Len(latencies) = attempted /\ attempted = NPrompts
  BY DEF Finish, RunnerInv, Running
<1>b. PICK b : b = [error |-> FALSE, oom |-> FALSE, tps |-> MeanRate,
                    p50 |-> percentile(latencies, 50),
                    p95 |-> percentile(latencies, 95),
                    completed |-> Len(latencies), attempted |-> attempted]
  OBVIOUS
<1>2. attempted' = attempted /\ latencies' = latencies /\ result' = <<b>>
  BY <1>b DEF Finish
<1>3. /\ b.error = FALSE /\ b.oom = FALSE /\ b.completed = Len(latencies)
      /\ b.attempted = attempted
      /\ b.p50 = percentile(latencies, 50) /\ b.p95 = percentile(latencies, 95)
  BY <1>b
<1>4. FullRun(b, latencies')
  BY <1>1, <1>2, <1>3 DEF FullRun
<1>. QED  BY <1>2, <1>4 DEF RunnerInv

LEMMA RunnerInductive == RunnerInv /\ [RunnerNext]_runnerVars => RunnerInv'
<1>. SUFFICES ASSUME RunnerInv, [RunnerNext]_runnerVars PROVE RunnerInv'
  OBVIOUS
<1>1. ASSUME NEW d \in Durations, NEW r \in Rates, RunReturns(d, r)  PROVE RunnerInv'
  BY <1>1, SamplesAssumption, ReturnsKeeps
<1>2. ASSUME NEW oom \in BOOLEAN, RunRaises(oom)  PROVE RunnerInv'
  BY <1>2, RaisesKeeps
<1>3. ASSUME Finish  PROVE RunnerInv'
  BY <1>3, FinishKeeps
<1>4. ASSUME UNCHANGED runnerVars  PROVE RunnerInv'
  BY <1>4 DEF runnerVars, RunnerInv, PartialRun, FullRun
<1>. QED  BY <1>1, <1>2, <1>3, <1>4 DEF RunnerNext

\* The samples are naturals, and the percentiles of a full run two of them.
LEMMA FullPercentiles ==
  ASSUME RunnerInv, NEW pct \in {50, 95}, Len(latencies) = NPrompts
  PROVE  /\ latencies \in Seq(Nat) /\ PercentileIndex(NPrompts, pct) \in Nat
         /\ PercentileIndex(NPrompts, pct) < Len(latencies)
         /\ percentile(latencies, pct) = SortedAt(latencies, PercentileIndex(NPrompts, pct))
         /\ percentile(latencies, pct) \in Nat
<1>1. latencies \in Seq(Nat)
  BY SamplesAssumption, SeqMonotonic DEF RunnerInv
<1>2. PercentileIndex(NPrompts, pct) \in Nat /\ PercentileIndex(NPrompts, pct) < NPrompts
  BY PromptsAssumption, IndexInList
<1>3. percentile(latencies, pct) = SortedAt(latencies, PercentileIndex(NPrompts, pct))
  BY DEF percentile
<1>. QED  BY <1>1, <1>2, <1>3, SortedAtIsRanked

LEMMA RunnerSuccess == RunnerInv => SuccessIsAFullRun
<1>. SUFFICES ASSUME RunnerInv, NEW b \in Range(result)
              PROVE  /\ Succeeded(b) <=> Len(latencies) = NPrompts
                     /\ b.oom => ~Succeeded(b)
                     /\ Succeeded(b) => b.p50 # NoLatency /\ b.p95 # NoLatency
                     /\ ~Succeeded(b) => b.completed < b.attempted
  BY DEF SuccessIsAFullRun
<1>1. PartialRun(b, latencies) \/ FullRun(b, latencies)
  BY DEF RunnerInv, Range
<1>2. CASE PartialRun(b, latencies)
  <2>1. Len(latencies) \in Nat /\ NPrompts \in Nat
    BY PromptsAssumption DEF RunnerInv
  <2>2. ~Succeeded(b) /\ b.completed < b.attempted
    BY <1>2 DEF PartialRun, Succeeded
  <2>3. Len(latencies) # NPrompts
    BY <1>2, <2>1 DEF PartialRun
  <2>. QED  BY <2>2, <2>3
<1>3. CASE FullRun(b, latencies)
  <2>1. percentile(latencies, 50) \in Nat /\ percentile(latencies, 95) \in Nat
    BY <1>3, FullPercentiles DEF FullRun
  <2>2. b.p50 # NoLatency /\ b.p95 # NoLatency
    BY <1>3, <2>1 DEF FullRun, NoLatency
  <2>3. Succeeded(b) /\ b.oom = FALSE /\ Len(latencies) = NPrompts
    BY <1>3 DEF FullRun, Succeeded
  <2>. QED  BY <2>2, <2>3
<1>. QED  BY <1>1, <1>2, <1>3

\* The k-th of the samples is the least that has that many no larger.
LEMMA RankIsLeast ==
  ASSUME NEW s \in Seq(Nat), NEW k \in Nat, k < Len(s), NEW pct \in Nat,
         100 * k < pct * Len(s), pct * Len(s) <= 100 * (k + 1)
  PROVE  SortedAt(s, k) = NearestRank(s, pct)
<1>. DEFINE v == SortedAt(s, k)
            Enough(u) == 100 * CountUpTo(s, u) >= pct * Len(s)
<1>1. /\ v \in Nat /\ v \in {s[i] : i \in 1..Len(s)}
      /\ CountBelow(s, v) <= k /\ k < CountUpTo(s, v)
  BY SortedAtIsRanked
<1>2. Range(s) = {s[i] : i \in 1..Len(s)} /\ \A u \in Range(s) : u \in Nat
  BY DEF Range
<1>. HIDE DEF v
<1>3. PICK m \in Nat : m = pct * Len(s)
  OBVIOUS
<1>4. ASSUME NEW u \in Nat
      PROVE  CountUpTo(s, u) \in Nat /\ (Enough(u) <=> k < CountUpTo(s, u))
  <2>1. CountUpTo(s, u) \in Nat
    <3>1. CountUpTo(s, u) \in 0..Len(s)
      BY Counts, Zenon
    <3>2. Len(s) \in Nat
      OBVIOUS
    <3>. QED  BY ONLY <3>1, <3>2
  <2>2. 100 * k < m /\ m <= 100 * (k + 1)
    BY <1>3
  <2>3. 100 * CountUpTo(s, u) >= m <=> k < CountUpTo(s, u)
    BY <2>1, <2>2
  <2>. QED  BY <1>3, <2>1, <2>3
<1>5. ASSUME NEW u \in Range(s), Enough(u)
      PROVE  v <= u
  <2>1. u \in Nat /\ k < CountUpTo(s, u)
    BY <1>2, <1>4, <1>5
  <2>2. u < v => CountUpTo(s, u) <= CountBelow(s, v)
    BY <1>1, <2>1, Counts
  <2>3. CountUpTo(s, u) \in Nat /\ CountBelow(s, v) \in Nat
    BY <1>1, <2>1, Counts
  <2>. QED  BY <1>1, <2>1, <2>2, <2>3
<1>6. v \in Range(s) /\ Enough(v)
  BY <1>1, <1>2, <1>4
<1>. HIDE DEF Enough
<1>7. NearestRank(s, pct) =
        CHOOSE u \in Range(s) : Enough(u) /\ \A w \in Range(s) : Enough(w) => u <= w
  BY DEF NearestRank, Enough
<1>8. ASSUME NEW u \in Range(s), Enough(u), \A w \in Range(s) : Enough(w) => u <= w
      PROVE  u = v
  <2>1. u \in Nat /\ v \in Nat /\ v <= u /\ u <= v
    BY <1>1, <1>2, <1>5, <1>6, <1>8
  <2>. QED  BY <2>1
<1>9. v = NearestRank(s, pct)
  BY <1>5, <1>6, <1>7, <1>8
<1>. QED  BY <1>9 DEF v

\* Of three prompts the median is the second and p95 the slowest.
LEMMA RunnerPercentiles == NPrompts = 3 /\ RunnerInv => PercentilesAreNearestRank
<1>. SUFFICES ASSUME NPrompts = 3, RunnerInv, NEW b \in Range(result), Succeeded(b)
              PROVE  /\ b.p50 = NearestRank(latencies, 50)
                     /\ b.p95 = NearestRank(latencies, 95)
                     /\ \A d \in Range(latencies) : d <= b.p95
  BY DEF PercentilesAreNearestRank
<1>1. FullRun(b, latencies)
  <2>1. PartialRun(b, latencies) \/ FullRun(b, latencies)
    BY DEF RunnerInv, Range
  <2>. QED  BY <2>1 DEF PartialRun, Succeeded
<1>2. PercentileIndex(3, 50) = 1 /\ PercentileIndex(3, 95) = 2
  <2>1. RoundHundredths(100) = 1
    <3>1. 100 \div 100 = 1 /\ 100 % 100 = 0
      OBVIOUS
    <3>. QED  BY <3>1 DEF RoundHundredths
  <2>2. RoundHundredths(190) = 2
    <3>1. 190 \div 100 = 1 /\ 190 % 100 = 90
      OBVIOUS
    <3>. QED  BY <3>1 DEF RoundHundredths
  <2>3. 50 * (3 - 1) = 100 /\ 95 * (3 - 1) = 190
    OBVIOUS
  <2>. QED  BY <2>1, <2>2, <2>3 DEF PercentileIndex
<1>3. /\ latencies \in Seq(Nat) /\ Len(latencies) = 3
      /\ b.p50 = SortedAt(latencies, 1) /\ b.p95 = SortedAt(latencies, 2)
  BY <1>1, <1>2, FullPercentiles DEF FullRun
<1>4. b.p50 = NearestRank(latencies, 50)
  <2>1. /\ 1 < Len(latencies) /\ 100 * 1 < 50 * Len(latencies)
        /\ 50 * Len(latencies) <= 100 * (1 + 1)
    BY <1>3
  <2>2. 1 \in Nat /\ 50 \in Nat
    OBVIOUS
  <2>. QED  BY <1>3, <2>1, <2>2, RankIsLeast
<1>5. b.p95 = NearestRank(latencies, 95)
  <2>1. /\ 2 < Len(latencies) /\ 100 * 2 < 95 * Len(latencies)
        /\ 95 * Len(latencies) <= 100 * (2 + 1)
    BY <1>3
  <2>2. 2 \in Nat /\ 95 \in Nat
    OBVIOUS
  <2>. QED  BY <1>3, <2>1, <2>2, RankIsLeast
<1>6. \A i \in 1..Len(latencies) : latencies[i] <= b.p95
  <2>1. b.p95 \in Nat /\ 2 < CountUpTo(latencies, b.p95)
    BY <1>3, SortedAtIsRanked
  <2>2. CountUpTo(latencies, b.p95) \in 0..Len(latencies)
    BY <1>3, <2>1, Counts
  <2>3. CountUpTo(latencies, b.p95) = Len(latencies)
    BY <1>3, <2>1, <2>2
  <2>. QED  BY <1>3, <2>1, <2>3, Counts
<1>. QED  BY <1>3, <1>4, <1>5, <1>6 DEF Range

-----------------------------------------------------------------------------
\* The benchmarks of OllamaBench are runs of BenchRunner, whose rates are those of
\* the replies.
LEMMA RateType ==
  ASSUME NEW reply \in Reply
  PROVE  tokens_per_sec(reply) \in Nat
<1>1. PICK n \in Nat, d \in Nat :
        n = 100 * reply.eval_count * Second /\ d = reply.eval_duration
  <2>1. reply.eval_count \in Nat /\ reply.eval_duration \in Nat /\ Second \in Nat
    BY SecondAssumption DEF Reply
  <2>2. 100 * reply.eval_count * Second \in Nat
    BY <2>1
  <2>. QED  BY <2>1, <2>2
<1>2. CASE d = 0
  BY <1>1, <1>2 DEF tokens_per_sec
<1>3. CASE d # 0
  <2>1. n \div d \in Nat
    BY <1>3
  <2>2. Nearest(n, d) \in Nat
    BY <2>1 DEF Nearest
  <2>. QED  BY <1>1, <1>3, <2>2 DEF tokens_per_sec
<1>. QED  BY <1>2, <1>3

LEMMA BenchInductive == RunnerInv /\ [BenchNext]_benchVars => RunnerInv'
<1>. SUFFICES ASSUME RunnerInv, [BenchNext]_benchVars PROVE RunnerInv'
  OBVIOUS
<1>1. ASSUME NEW d \in Durations, NEW reply \in Replies, Answered(d, reply)
      PROVE  RunnerInv'
  <2>1. tokens_per_sec(reply) \in Nat
    BY RepliesAssumption, RateType
  <2>. QED  BY <1>1, <2>1, ReturnsKeeps DEF Answered
<1>2. ASSUME NEW o \in Failures, Failed(o)  PROVE RunnerInv'
  BY <1>2, RaisesKeeps DEF Failed
<1>3. ASSUME Finish  PROVE RunnerInv'
  BY <1>3, FinishKeeps
<1>4. ASSUME UNCHANGED benchVars  PROVE RunnerInv'
  BY <1>4 DEF benchVars, runnerVars, RunnerInv, PartialRun, FullRun
<1>. QED  BY <1>1, <1>2, <1>3, <1>4 DEF BenchNext

\* Any runtime, and Ollama.
RunnerSpec == RunnerInit /\ [][RunnerNext]_runnerVars
BenchSpec  == BenchInit /\ [][BenchNext]_benchVars

\* bench/runner.py: the fields that pick_best, is_meaningful_improvement and
\* needs_rollback test tell a full run from every other, for any number of
\* prompts, any runtime, and Ollama as the adapter reads it.
THEOREM SuccessMeansFullRun == RunnerSpec \/ BenchSpec => []SuccessIsAFullRun
<1>1. RunnerSpec => []RunnerInv
  BY RunnerInvInit, RunnerInductive, PTL DEF RunnerSpec
<1>2. BenchInit => RunnerInv
  BY RunnerInvInit DEF BenchInit
<1>3. BenchSpec => []RunnerInv
  BY <1>2, BenchInductive, PTL DEF BenchSpec
<1>. QED  BY <1>1, <1>3, RunnerSuccess, PTL

\* bench/metrics.py, "Nearest-rank percentile": that is what percentile computes of
\* the three latencies of the three prompts, whatever they are.
THEOREM PercentilesOfThree ==
  NPrompts = 3 => (RunnerSpec \/ BenchSpec => []PercentilesAreNearestRank)
<1>. SUFFICES ASSUME NPrompts = 3
              PROVE  RunnerSpec \/ BenchSpec => []PercentilesAreNearestRank
  OBVIOUS
<1>1. RunnerSpec => []RunnerInv
  BY RunnerInvInit, RunnerInductive, PTL DEF RunnerSpec
<1>2. BenchInit => RunnerInv
  BY RunnerInvInit DEF BenchInit
<1>3. BenchSpec => []RunnerInv
  BY <1>2, BenchInductive, PTL DEF BenchSpec
<1>4. RunnerInv => PercentilesAreNearestRank
  BY RunnerPercentiles
<1>. QED  BY <1>1, <1>3, <1>4, PTL

-----------------------------------------------------------------------------
(* What the rate of a benchmark over Ollama is. *)

\* A recursive function over 0..n exists: t[0] is e, and t[i] is what step makes
\* of i and t[i - 1].
Recurs(t, e, step, n) ==
  /\ t[0] = e
  /\ \A i \in 1..n : t[i] = step[i][t[i - 1]]

\* The same, where t[i - 1] is known to be in X.
Follows(t, X, e, step, n) ==
  /\ t[0] = e
  /\ \A i \in 1..n : t[i - 1] \in X => t[i] = step[i][t[i - 1]]

LEMMA RecursionExists ==
  ASSUME NEW X, NEW e \in X, NEW n \in Nat, NEW step \in [1..n -> [X -> X]]
  PROVE  \E t \in [0..n -> X] : Recurs(t, e, step, n)
<1>. DEFINE Exists(m) == \E t \in [0..m -> X] : Recurs(t, e, step, m)
            D == {m \in 0..n : ~Exists(m)}
<1>1. Exists(0)
  <2>. DEFINE t == [i \in 0..0 |-> e]
  <2>1. t \in [0..0 -> X] /\ Recurs(t, e, step, 0)
    BY DEF Recurs
  <2>. QED  BY <2>1
<1>2. ASSUME NEW m \in Nat, m # 0, m <= n, Exists(m - 1)
      PROVE  Exists(m)
  <2>1. PICK t \in [0..(m - 1) -> X] : Recurs(t, e, step, m - 1)
    BY <1>2
  <2>2. t[m - 1] \in X /\ m \in 1..n /\ m - 1 \in 0..(m - 1) /\ 0 \in 0..(m - 1)
    BY <1>2
  <2>3. PICK x \in X : x = step[m][t[m - 1]]
    BY <2>2
  <2>4. PICK u : u = [i \in 0..m |-> IF i = m THEN x ELSE t[i]]
    OBVIOUS
  <2>5. u \in [0..m -> X]
    BY <1>2, <2>4
  <2>6. u[0] = e
    <3>1. 0 \in 0..m /\ 0 # m
      BY <1>2
    <3>. QED  BY <2>1, <2>4, <3>1 DEF Recurs
  <2>7. ASSUME NEW i \in 1..m  PROVE u[i] = step[i][u[i - 1]]
    <3>1. i - 1 \in 0..(m - 1) /\ i - 1 \in 0..m /\ i \in 0..m /\ i - 1 # m
      BY <1>2
    <3>2. u[i - 1] = t[i - 1]
      BY <2>4, <3>1
    <3>3. CASE i = m
      BY <2>3, <2>4, <3>1, <3>2, <3>3
    <3>4. CASE i # m
      <4>1. i \in 1..(m - 1)
        BY <1>2, <3>4
      <4>. QED  BY <2>1, <2>4, <3>1, <3>2, <3>4, <4>1 DEF Recurs
    <3>. QED  BY <3>3, <3>4
  <2>. QED  BY <2>5, <2>6, <2>7 DEF Recurs
<1>. HIDE DEF Exists
<1>3. ASSUME D # {}  PROVE FALSE
  <2>1. D \in SUBSET Nat
    OBVIOUS
  <2>2. PICK m \in D : \A j \in D : m <= j
    BY <1>3, <2>1, LeastNat
  <2>3. m \in Nat /\ m <= n /\ ~Exists(m) /\ m # 0
    BY <1>1
  <2>4. ~Exists(m - 1)
    BY <1>2, <2>3
  <2>5. m - 1 \in D /\ ~ m <= m - 1
    BY <2>3, <2>4
  <2>. QED  BY <2>2, <2>5
<1>4. Exists(n)
  <2>1. n \in 0..n
    OBVIOUS
  <2>. QED  BY <1>3, <2>1
<1>. QED  BY <1>4 DEF Exists

\* Nothing else obeys its equations.
Agree(t, u, n) == \A i \in 0..n : u[i] = t[i]

LEMMA RecursionUnique ==
  ASSUME NEW X, NEW e \in X, NEW n \in Nat, NEW step \in [1..n -> [X -> X]],
         NEW t \in [0..n -> X], Recurs(t, e, step, n),
         NEW u, Follows(u, X, e, step, n)
  PROVE  Agree(t, u, n)
<1>. DEFINE D == {i \in 0..n : u[i] # t[i]}
<1>0. D \subseteq 0..n
  OBVIOUS
<1>. HIDE DEF D
<1>1. ASSUME D # {}  PROVE FALSE
  <2>1. D \in SUBSET Nat
    BY <1>0
  <2>2. PICK m \in D : \A j \in D : m <= j
    BY <1>1, <2>1, LeastNat
  <2>3. m \in 0..n /\ u[m] # t[m] /\ m # 0
    BY <1>0 DEF D, Recurs, Follows
  <2>4. m - 1 \in 0..n /\ m \in 1..n /\ ~ m <= m - 1
    BY ONLY <2>3, n \in Nat
  <2>5. u[m - 1] = t[m - 1] /\ t[m - 1] \in X
    BY <2>2, <2>4 DEF D
  <2>6. u[m] = t[m]
    BY <2>4, <2>5 DEF Recurs, Follows
  <2>. QED  BY <2>3, <2>6
<1>. QED  BY <1>1 DEF D, Agree

\* Total(s) is the last of the partial sums.
LEMMA TotalIsSum ==
  ASSUME NEW s \in Seq(Nat)
  PROVE  \E t \in [0..Len(s) -> Nat] :
           /\ t[0] = 0 /\ \A i \in 1..Len(s) : t[i] = t[i - 1] + s[i]
           /\ Total(s) = t[Len(s)]
<1>1. PICK n \in Nat : n = Len(s)
  OBVIOUS
<1>2. \A i \in 1..n : s[i] \in Nat
  BY <1>1
<1>3. PICK step : step = [i \in 1..n |-> [x \in Nat |-> x + s[i]]]
  OBVIOUS
<1>4. step \in [1..n -> [Nat -> Nat]]
  <2>1. \A i \in 1..n : [x \in Nat |-> x + s[i]] \in [Nat -> Nat]
    BY <1>2
  <2>. QED  BY <1>3, <2>1
<1>5. PICK t \in [0..n -> Nat] : Recurs(t, 0, step, n)
  BY <1>4, RecursionExists
<1>6. t[0] = 0 /\ \A i \in 1..n : t[i - 1] \in Nat /\ t[i] = t[i - 1] + s[i]
  <2>1. ASSUME NEW i \in 1..n  PROVE t[i - 1] \in Nat /\ t[i] = t[i - 1] + s[i]
    <3>1. i - 1 \in 0..n
      OBVIOUS
    <3>. QED  BY <1>3, <1>5, <3>1 DEF Recurs
  <2>. QED  BY <1>5, <2>1 DEF Recurs
<1>. DEFINE Sums(u) == u = [i \in 0..n |-> IF i = 0 THEN 0 ELSE u[i - 1] + s[i]]
<1>7. Sums(t)
  BY <1>5, <1>6
<1>. HIDE DEF Sums
<1>8. PICK u : u = CHOOSE v : Sums(v)
  OBVIOUS
<1>9. Sums(u)
  BY <1>7, <1>8
<1>10. Follows(u, Nat, 0, step, n)
  BY <1>3, <1>9 DEF Sums, Follows
<1>11. u[n] = t[n]
  <2>1. Agree(t, u, n)
    BY <1>4, <1>5, <1>10, RecursionUnique, 0 \in Nat
  <2>. QED  BY <2>1 DEF Agree
<1>12. Total(s) = u[n]
  BY <1>1, <1>8 DEF Total, Sums
<1>. QED  BY <1>1, <1>6, <1>11, <1>12

\* Quotient and remainder.
LEMMA Division ==
  ASSUME NEW a \in Nat, NEW d \in Nat, d # 0
  PROVE  \E q \in Nat, r \in Nat :
           q = a \div d /\ r = a % d /\ r < d /\ a = d * q + r
<1>1. a \div d \in Nat /\ a % d \in Nat /\ a % d < d /\ a = d * (a \div d) + (a % d)
  OBVIOUS
<1>. QED  BY <1>1

\* A product grows with its first factor.
LEMMA ProductGrows ==
  ASSUME NEW a \in Nat, NEW b \in Nat, NEW n \in Nat, a <= b
  PROVE  a * n <= b * n
<1>1. PICK c \in Nat : b = a + c
  <2>1. b - a \in Nat /\ b = a + (b - a)
    OBVIOUS
  <2>. QED  BY <2>1
<1>2. c * n \in Nat /\ a * n \in Nat /\ b * n = a * n + c * n
  BY <1>1
<1>. QED  BY <1>2

\* n samples of at least c, or of at most c, add up to at least, or at most, c * n.
LEMMA TotalBounds ==
  ASSUME NEW s \in Seq(Nat), NEW n \in Nat, n = Len(s), NEW c \in Nat
  PROVE  /\ Total(s) \in Nat
         /\ (\A i \in 1..n : c <= s[i]) => c * n <= Total(s)
         /\ (\A i \in 1..n : s[i] <= c) => Total(s) <= c * n
<1>1. PICK t \in [0..n -> Nat] :
        /\ t[0] = 0 /\ \A i \in 1..n : t[i] = t[i - 1] + s[i]
        /\ Total(s) = t[n]
  BY TotalIsSum
<1>. DEFINE Low(k)  == (\A i \in 1..n : c <= s[i]) => c * k <= t[k]
            High(k) == (\A i \in 1..n : s[i] <= c) => t[k] <= c * k
            D == {k \in 0..n : ~(Low(k) /\ High(k))}
<1>2. Low(0) /\ High(0)
  BY <1>1
<1>3. ASSUME NEW k \in 1..n, Low(k - 1), High(k - 1)
      PROVE  Low(k) /\ High(k)
  <2>1. PICK p \in Nat : p = c * (k - 1)
    OBVIOUS
  <2>2. c * k = p + c
    BY <2>1
  <2>3. t[k - 1] \in Nat /\ s[k] \in Nat /\ t[k] = t[k - 1] + s[k]
    <3>1. k - 1 \in 0..n
      OBVIOUS
    <3>2. s[k] \in Nat
      OBVIOUS
    <3>3. t[k - 1] \in Nat
      BY <3>1
    <3>. QED  BY <1>1, <3>2, <3>3
  <2>4. Low(k)
    <3>. SUFFICES ASSUME \A i \in 1..n : c <= s[i]  PROVE p + c <= t[k]
      BY <2>2
    <3>1. p <= t[k - 1] /\ c <= s[k]
      BY <1>3, <2>1
    <3>. QED  BY <2>3, <3>1
  <2>5. High(k)
    <3>. SUFFICES ASSUME \A i \in 1..n : s[i] <= c  PROVE t[k] <= p + c
      BY <2>2
    <3>1. t[k - 1] <= p /\ s[k] <= c
      BY <1>3, <2>1
    <3>. QED  BY <2>3, <3>1
  <2>. QED  BY <2>4, <2>5
<1>. HIDE DEF Low, High
<1>4. ASSUME D # {}  PROVE FALSE
  <2>1. D \in SUBSET Nat
    OBVIOUS
  <2>2. PICK k \in D : \A j \in D : k <= j
    BY <1>4, <2>1, LeastNat
  <2>3. k \in 1..n /\ ~(Low(k) /\ High(k))
    BY <1>2
  <2>4. ~(Low(k - 1) /\ High(k - 1))
    BY <1>3, <2>3
  <2>5. k - 1 \in D /\ ~ k <= k - 1
    BY <2>3, <2>4
  <2>. QED  BY <2>2, <2>5
<1>5. Low(n) /\ High(n)
  <2>1. n \in 0..n
    OBVIOUS
  <2>. QED  BY <1>4, <2>1
<1>6. t[n] \in Nat
  OBVIOUS
<1>. QED  BY <1>1, <1>5, <1>6 DEF Low, High

\* The mean, rounded down, lies between two of the samples.
LEMMA MeanIsBetween ==
  ASSUME NEW s \in Seq(Nat), NEW n \in Nat, n = Len(s), n # 0
  PROVE  /\ Total(s) \div n \in Nat
         /\ \E i \in 1..n : s[i] <= Total(s) \div n
         /\ \E i \in 1..n : Total(s) \div n <= s[i]
<1>0. Total(s) \in Nat
  BY TotalBounds, 0 \in Nat
<1>1. PICK q \in Nat, r \in Nat :
        q = Total(s) \div n /\ r = Total(s) % n /\ r < n /\ Total(s) = n * q + r
  BY <1>0, Division
<1>2. \A i \in 1..n : s[i] \in Nat
  OBVIOUS
<1>3. PICK p \in Nat : p = q * n /\ Total(s) = p + r /\ (q + 1) * n = p + n
  <2>1. q * n \in Nat /\ n * q = q * n /\ (q + 1) * n = q * n + n
    OBVIOUS
  <2>. QED  BY <1>1, <2>1
<1>4. \E i \in 1..n : s[i] <= q
  <2>1. SUFFICES ASSUME \A i \in 1..n : q + 1 <= s[i]  PROVE FALSE
    BY <1>2
  <2>2. q + 1 \in Nat
    OBVIOUS
  <2>3. (q + 1) * n <= Total(s)
    BY <2>1, <2>2, TotalBounds
  <2>. QED  BY <1>1, <1>3, <2>3
<1>5. \E i \in 1..n : q <= s[i]
  <2>1. SUFFICES ASSUME \A i \in 1..n : ~ q <= s[i]  PROVE FALSE
    OBVIOUS
  <2>2. 1 \in 1..n /\ s[1] \in Nat
    OBVIOUS
  <2>3. q - 1 \in Nat /\ \A i \in 1..n : s[i] <= q - 1
    BY <1>2, <2>1, <2>2
  <2>4. Total(s) <= (q - 1) * n
    BY <2>3, TotalBounds
  <2>5. (q - 1) * n = p - n
    BY <1>3
  <2>. QED  BY <1>3, <2>4, <2>5
<1>. QED  BY <1>1, <1>4, <1>5

\* Rounding is off by a half at most.
LEMMA NearestBounds ==
  ASSUME NEW n \in Nat, NEW d \in Nat, d # 0
  PROVE  /\ Nearest(n, d) \in Nat
         /\ 2 * n <= (2 * Nearest(n, d) + 1) * d
         /\ (2 * Nearest(n, d) - 1) * d <= 2 * n
<1>1. PICK q \in Nat, r \in Nat : q = n \div d /\ r = n % d /\ r < d /\ n = d * q + r
  BY Division
<1>2. PICK p \in Nat : p = d * q
  OBVIOUS
<1>3. /\ (2 * q + 1) * d = 2 * p + d /\ (2 * q - 1) * d = 2 * p - d
      /\ (2 * (q + 1) + 1) * d = 2 * p + 3 * d /\ (2 * (q + 1) - 1) * d = 2 * p + d
  BY <1>2
<1>4. n = p + r
  BY <1>1, <1>2
<1>5. CASE 2 * r < d \/ (2 * r = d /\ q % 2 = 0)
  <2>1. Nearest(n, d) = q
    BY <1>1, <1>5 DEF Nearest
  <2>2. 2 * n <= 2 * p + d /\ 2 * p - d <= 2 * n
    BY <1>4, <1>5
  <2>. QED  BY <1>3, <2>1, <2>2
<1>6. CASE ~(2 * r < d \/ (2 * r = d /\ q % 2 = 0))
  <2>1. Nearest(n, d) = q + 1
    BY <1>1, <1>6 DEF Nearest
  <2>2. 2 * n <= 2 * p + 3 * d /\ 2 * p + d <= 2 * n
    BY <1>1, <1>4, <1>6
  <2>. QED  BY <1>3, <2>1, <2>2
<1>. QED  BY <1>5, <1>6

-----------------------------------------------------------------------------
\* A rate that was rounded tells what Ollama timed.
AtMost(reply, m)  == 100 * reply.eval_count * Second <= (m + 1) * reply.eval_duration
AtLeast(reply, m) == (2 * m - 1) * reply.eval_duration <= 200 * reply.eval_count * Second
TooSlow(reply)    == 200 * reply.eval_count * Second <= reply.eval_duration
IsTimed(reply)    == reply.eval_count > 0 /\ reply.eval_duration > 0

LEMMA RateTells ==
  ASSUME NEW reply \in Reply, NEW r, r = tokens_per_sec(reply)
  PROVE  /\ r \in Nat
         /\ r > 0 => IsTimed(reply)
         /\ r > 0 => \A m \in Nat : r <= m => AtMost(reply, m)
         /\ r > 0 => \A m \in Nat : m <= r /\ m # 0 => AtLeast(reply, m)
         /\ r = 0 /\ IsTimed(reply) => TooSlow(reply)
<1>1. PICK c \in Nat, d \in Nat, x \in Nat, n \in Nat :
        /\ c = reply.eval_count /\ d = reply.eval_duration /\ x = c * Second
        /\ n = 100 * x /\ 100 * c * Second = n /\ 200 * c * Second = 2 * n
  <2>1. reply.eval_count \in Nat /\ reply.eval_duration \in Nat /\ Second \in Nat
    BY SecondAssumption DEF Reply
  <2>2. PICK x \in Nat : x = reply.eval_count * Second
    BY <2>1
  <2>3. 100 * reply.eval_count * Second = 100 * x /\ 200 * reply.eval_count * Second = 2 * (100 * x)
    BY <2>1, <2>2
  <2>4. 100 * x \in Nat
    OBVIOUS
  <2>. QED  BY <2>1, <2>2, <2>3, <2>4
<1>2. CASE d = 0
  <2>1. r = 0
    BY <1>1, <1>2 DEF tokens_per_sec
  <2>. QED  BY <1>1, <1>2, <2>1 DEF IsTimed
<1>3. CASE d # 0
  <2>1. r = Nearest(n, d)
    BY <1>1, <1>3 DEF tokens_per_sec
  <2>2. r \in Nat /\ 2 * n <= (2 * r + 1) * d /\ (2 * r - 1) * d <= 2 * n
    BY <1>3, <2>1, NearestBounds
  <2>3. r > 0 => IsTimed(reply)
    <3>. SUFFICES ASSUME r > 0, c = 0  PROVE FALSE
      BY <1>1, <1>3 DEF IsTimed
    <3>1. n = 0
      BY <1>1, SecondAssumption
    <3>2. 2 * r - 1 \in Nat /\ 1 <= 2 * r - 1
      BY <2>2
    <3>3. 1 * d <= (2 * r - 1) * d
      BY <3>2, ProductGrows, 1 \in Nat
    <3>. QED  BY <1>3, <2>2, <3>1, <3>3
  <2>4. ASSUME NEW m \in Nat, r <= m  PROVE AtMost(reply, m)
    <3>1. 2 * r + 1 \in Nat /\ 2 * m + 2 \in Nat /\ 2 * r + 1 <= 2 * m + 2
      BY <2>2, <2>4
    <3>2. (2 * r + 1) * d <= (2 * m + 2) * d
      BY <3>1, ProductGrows
    <3>3. PICK p \in Nat : p = (m + 1) * d /\ (2 * m + 2) * d = 2 * p
      <4>1. (m + 1) * d \in Nat /\ (2 * m + 2) * d = 2 * ((m + 1) * d)
        OBVIOUS
      <4>. QED  BY <4>1
    <3>4. PICK q \in Nat : q = (2 * r + 1) * d
      BY <2>2
    <3>5. n <= p
      BY <2>2, <3>2, <3>3, <3>4
    <3>. QED  BY <1>1, <3>3, <3>5 DEF AtMost
  <2>5. ASSUME NEW m \in Nat, m <= r, m # 0  PROVE AtLeast(reply, m)
    <3>1. 2 * m - 1 \in Nat /\ 2 * r - 1 \in Nat /\ 2 * m - 1 <= 2 * r - 1
      BY <2>2, <2>5
    <3>2. (2 * m - 1) * d <= (2 * r - 1) * d
      BY <3>1, ProductGrows
    <3>3. PICK p \in Nat, q \in Nat : p = (2 * m - 1) * d /\ q = (2 * r - 1) * d
      <4>1. \A a, b \in Nat : a * b \in Nat
        OBVIOUS
      <4>. QED  BY <3>1, <4>1
    <3>4. p <= 2 * n
      BY <2>2, <3>2, <3>3
    <3>. QED  BY <1>1, <3>3, <3>4 DEF AtLeast
  <2>6. r = 0 => TooSlow(reply)
    <3>. SUFFICES ASSUME r = 0  PROVE 2 * n <= d
      BY <1>1 DEF TooSlow
    <3>1. (2 * 0 + 1) * d = d
      OBVIOUS
    <3>. QED  BY <2>2, <3>1
  <2>. QED  BY <2>2, <2>3, <2>4, <2>5, <2>6
<1>. QED  BY <1>2, <1>3

-----------------------------------------------------------------------------
\* A result is well formed, and a success has the mean of the samples.
ResultInv ==
  /\ samples \in Seq(Nat) /\ \A i \in 1..Len(samples) : samples[i] > 0
  /\ \A b \in Range(result) : b \in BenchmarkResult /\ (b.error \/ b.tps = MeanRate)

\* The samples are the rates of the replies that have one.
RatesInv ==
  /\ replies \in Seq(Reply)
  /\ \A i \in 1..Len(samples) :
       \E k \in 1..Len(replies) : samples[i] = tokens_per_sec(replies[k])
  /\ samples = << >> => \A k \in 1..Len(replies) : tokens_per_sec(replies[k]) = 0

LEMMA RatesInit == BenchInit => ResultInv /\ RatesInv
BY DEF BenchInit, RunnerInit, ResultInv, RatesInv, Range

LEMMA MeanType ==
  ASSUME samples \in Seq(Nat)
  PROVE  MeanRate \in Nat
<1>1. PICK n \in Nat : n = Len(samples)
  OBVIOUS
<1>2. CASE samples = << >>
  BY <1>2 DEF MeanRate
<1>3. CASE samples # << >>
  <2>1. n # 0
    BY <1>1, <1>3
  <2>. QED  BY <1>1, <1>3, <2>1, MeanIsBetween DEF MeanRate
<1>. QED  BY <1>2, <1>3

\* A sample is kept if it is no zero.
LEMMA ReturnsSamples ==
  ASSUME ResultInv, NEW d \in Durations, NEW r \in Nat, RunReturns(d, r)
  PROVE  /\ ResultInv'
         /\ r = 0 => samples' = samples
         /\ r # 0 => /\ Len(samples') = Len(samples) + 1 /\ samples'[Len(samples) + 1] = r
                     /\ \A i \in 1..Len(samples) : samples'[i] = samples[i]
<1>1. result = << >> /\ result' = << >>
  BY DEF RunReturns, Running
<1>2. samples \in Seq(Nat) /\ \A i \in 1..Len(samples) : samples[i] > 0
  BY DEF ResultInv
<1>3. Range(result') = {}
  BY <1>1 DEF Range
<1>4. CASE r = 0
  <2>1. samples' = samples
    BY <1>4 DEF RunReturns
  <2>. QED  BY <1>2, <1>3, <1>4, <2>1 DEF ResultInv
<1>5. CASE r # 0
  <2>1. samples' = Append(samples, r)
    BY <1>5 DEF RunReturns
  <2>2. /\ samples' \in Seq(Nat) /\ Len(samples') = Len(samples) + 1
        /\ samples'[Len(samples) + 1] = r
        /\ \A i \in 1..Len(samples) : samples'[i] = samples[i]
    BY <1>2, <2>1, AppendProperties
  <2>3. \A i \in 1..Len(samples') : samples'[i] > 0
    <3>. SUFFICES ASSUME NEW i \in 1..Len(samples')  PROVE samples'[i] > 0
      OBVIOUS
    <3>1. i \in 1..Len(samples) \/ i = Len(samples) + 1
      BY <1>2, <2>2
    <3>. QED  BY <1>2, <1>5, <2>2, <3>1
  <2>. QED  BY <1>3, <1>5, <2>2, <2>3 DEF ResultInv
<1>. QED  BY <1>4, <1>5

LEMMA RaisesResult ==
  ASSUME RunnerInv, ResultInv, NEW oom \in BOOLEAN, RunRaises(oom)
  PROVE  ResultInv' /\ UNCHANGED samples
<1>b. PICK b : b = [error |-> TRUE, oom |-> oom, tps |-> 0,
                    p50 |-> NoLatency, p95 |-> NoLatency,
                    completed |-> Len(latencies), attempted |-> attempted + 1]
  OBVIOUS
<1>1. samples' = samples /\ result' = <<b>>
  BY <1>b DEF RunRaises
<1>2. Len(latencies) \in Nat /\ attempted + 1 \in Nat
  BY PromptsAssumption DEF RunnerInv
<1>3. b \in BenchmarkResult /\ b.error
  BY <1>b, <1>2 DEF BenchmarkResult
<1>4. Range(result') = {b}
  BY <1>1 DEF Range
<1>. QED  BY <1>1, <1>3, <1>4 DEF ResultInv

LEMMA FinishResult ==
  ASSUME RunnerInv, ResultInv, Finish
  PROVE  ResultInv' /\ UNCHANGED samples
<1>b. PICK b : b = [error |-> FALSE, oom |-> FALSE, tps |-> MeanRate,
                    p50 |-> percentile(latencies, 50),
                    p95 |-> percentile(latencies, 95),
                    completed |-> Len(latencies), attempted |-> attempted]
  OBVIOUS
<1>1. samples' = samples /\ result' = <<b>>
  BY <1>b DEF Finish
<1>2. MeanRate' = MeanRate
  BY <1>1 DEF MeanRate
<1>3. MeanRate \in Nat
  BY MeanType DEF ResultInv
<1>4. Len(latencies) = NPrompts /\ attempted \in Nat /\ NPrompts \in Nat
  BY PromptsAssumption DEF Finish, RunnerInv, Running
<1>5. percentile(latencies, 50) \in Nat /\ percentile(latencies, 95) \in Nat
  BY <1>4, FullPercentiles
<1>6. b \in BenchmarkResult /\ b.tps = MeanRate
  BY <1>b, <1>3, <1>4, <1>5 DEF BenchmarkResult
<1>7. Range(result') = {b}
  BY <1>1 DEF Range
<1>8. \A x \in Range(result') : x \in BenchmarkResult /\ (x.error \/ x.tps = MeanRate')
  BY <1>2, <1>6, <1>7
<1>. QED  BY <1>1, <1>8 DEF ResultInv

LEMMA ResultInductive == RunnerInv /\ ResultInv /\ [RunnerNext]_runnerVars => ResultInv'
<1>. SUFFICES ASSUME RunnerInv, ResultInv, [RunnerNext]_runnerVars PROVE ResultInv'
  OBVIOUS
<1>1. ASSUME NEW d \in Durations, NEW r \in Rates, RunReturns(d, r)  PROVE ResultInv'
  <2>1. r \in Nat
    BY SamplesAssumption
  <2>. QED  BY <1>1, <2>1, ReturnsSamples
<1>2. ASSUME NEW oom \in BOOLEAN, RunRaises(oom)  PROVE ResultInv'
  BY <1>2, RaisesResult
<1>3. ASSUME Finish  PROVE ResultInv'
  BY <1>3, FinishResult
<1>4. ASSUME UNCHANGED runnerVars  PROVE ResultInv'
  BY <1>4 DEF runnerVars, ResultInv, MeanRate
<1>. QED  BY <1>1, <1>2, <1>3, <1>4 DEF RunnerNext

\* A reply with a rate brings its sample.
LEMMA AnsweredRates ==
  ASSUME ResultInv, RatesInv, NEW d \in Durations, NEW reply \in Reply, Answered(d, reply)
  PROVE  ResultInv' /\ RatesInv'
<1>1. PICK r \in Nat : r = tokens_per_sec(reply)
  BY RateType
<1>2. RunReturns(d, r) /\ replies' = Append(replies, reply)
  BY <1>1 DEF Answered
<1>3. /\ ResultInv'
      /\ r = 0 => samples' = samples
      /\ r # 0 => /\ Len(samples') = Len(samples) + 1 /\ samples'[Len(samples) + 1] = r
                  /\ \A i \in 1..Len(samples) : samples'[i] = samples[i]
  BY <1>2, ReturnsSamples
<1>4. replies \in Seq(Reply) /\ samples \in Seq(Nat)
  BY DEF RatesInv, ResultInv
<1>5. PICK n \in Nat : n = Len(replies)
  BY <1>4
<1>6. /\ replies' \in Seq(Reply) /\ Len(replies') = n + 1 /\ replies'[n + 1] = reply
      /\ \A k \in 1..n : replies'[k] = replies[k]
  BY <1>2, <1>4, <1>5, AppendProperties
<1>7. ASSUME NEW i \in 1..Len(samples), samples'[i] = samples[i]
      PROVE  \E k \in 1..Len(replies') : samples'[i] = tokens_per_sec(replies'[k])
  <2>1. PICK k \in 1..n : samples[i] = tokens_per_sec(replies[k])
    BY <1>5 DEF RatesInv
  <2>2. k \in 1..(n + 1)
    OBVIOUS
  <2>. QED  BY <1>6, <1>7, <2>1, <2>2
<1>8. ASSUME NEW i \in 1..Len(samples')
      PROVE  \E k \in 1..Len(replies') : samples'[i] = tokens_per_sec(replies'[k])
  <2>1. CASE r = 0
    BY <1>3, <1>7, <2>1
  <2>2. CASE r # 0
    <3>1. i \in 1..Len(samples) \/ i = Len(samples) + 1
      BY <1>3, <1>4, <2>2
    <3>2. CASE i \in 1..Len(samples)
      BY <1>3, <1>7, <2>2, <3>2
    <3>3. CASE i = Len(samples) + 1
      <4>1. n + 1 \in 1..Len(replies')
        BY <1>6
      <4>. QED  BY <1>1, <1>3, <1>6, <2>2, <3>3, <4>1
    <3>. QED  BY <3>1, <3>2, <3>3
  <2>. QED  BY <2>1, <2>2
<1>9. ASSUME samples' = << >>, NEW k \in 1..Len(replies')
      PROVE  tokens_per_sec(replies'[k]) = 0
  <2>1. Len(samples') = 0 /\ Len(samples) \in Nat
    BY <1>4, <1>9
  <2>2. r = 0 /\ samples = << >>
    BY <1>3, <1>9, <2>1
  <2>3. k \in 1..n \/ k = n + 1
    BY <1>6
  <2>4. CASE k \in 1..n
    BY <1>5, <1>6, <2>2, <2>4 DEF RatesInv
  <2>5. CASE k = n + 1
    BY <1>1, <1>6, <2>2, <2>5
  <2>. QED  BY <2>3, <2>4, <2>5
<1>. QED  BY <1>3, <1>6, <1>8, <1>9 DEF RatesInv

LEMMA RatesInductive ==
  RunnerInv /\ ResultInv /\ RatesInv /\ [BenchNext]_benchVars => ResultInv' /\ RatesInv'
<1>. SUFFICES ASSUME RunnerInv, ResultInv, RatesInv, [BenchNext]_benchVars
              PROVE  ResultInv' /\ RatesInv'
  OBVIOUS
<1>1. ASSUME NEW d \in Durations, NEW reply \in Replies, Answered(d, reply)
      PROVE  ResultInv' /\ RatesInv'
  <2>1. reply \in Reply
    BY RepliesAssumption
  <2>. QED  BY <1>1, <2>1, AnsweredRates
<1>2. ASSUME UNCHANGED <<samples, replies>>  PROVE RatesInv'
  BY <1>2 DEF RatesInv
<1>3. ASSUME NEW o \in Failures, Failed(o)  PROVE ResultInv' /\ RatesInv'
  <2>1. ResultInv' /\ UNCHANGED samples
    BY <1>3, RaisesResult DEF Failed
  <2>. QED  BY <1>2, <1>3, <2>1 DEF Failed
<1>4. ASSUME Finish, UNCHANGED replies  PROVE ResultInv' /\ RatesInv'
  BY <1>2, <1>4, FinishResult
<1>5. ASSUME UNCHANGED benchVars  PROVE ResultInv' /\ RatesInv'
  BY <1>2, <1>5 DEF benchVars, runnerVars, ResultInv, MeanRate
<1>. QED  BY <1>1, <1>3, <1>4, <1>5 DEF BenchNext

\* The mean of rates that were measured lies between two that were.
LEMMA RatesMeasured == ResultInv /\ RatesInv => RateIsMeasured
<1>. SUFFICES ASSUME ResultInv, RatesInv, NEW b \in Range(result), Succeeded(b)
              PROVE  IF b.tps = 0 THEN \A reply \in Timed : TooSlow(reply)
                     ELSE \E lo, hi \in Timed : AtMost(lo, b.tps) /\ AtLeast(hi, b.tps)
  BY DEF RateIsMeasured, TooSlow, AtMost, AtLeast
<1>1. b.tps = MeanRate
  BY DEF ResultInv, Succeeded
<1>2. samples \in Seq(Nat) /\ replies \in Seq(Reply)
  BY DEF ResultInv, RatesInv
<1>3. PICK n \in Nat : n = Len(samples)
  BY <1>2
<1>4. Range(replies) = {replies[k] : k \in 1..Len(replies)}
  BY <1>2 DEF Range
<1>5. \A reply \in Timed : IsTimed(reply) /\ \E k \in 1..Len(replies) : reply = replies[k]
  BY <1>4 DEF Timed, IsTimed
<1>6. ASSUME NEW k \in 1..Len(replies), IsTimed(replies[k])  PROVE replies[k] \in Timed
  BY <1>4, <1>6 DEF Timed, IsTimed
<1>7. \A k \in 1..Len(replies) : replies[k] \in Reply
  BY <1>2
<1>8. CASE samples = << >>
  <2>1. b.tps = 0
    BY <1>1, <1>8 DEF MeanRate
  <2>2. ASSUME NEW reply \in Timed  PROVE TooSlow(reply)
    <3>1. PICK k \in 1..Len(replies) : reply = replies[k] /\ IsTimed(reply)
      BY <1>5
    <3>2. reply \in Reply /\ tokens_per_sec(reply) = 0
      BY <1>7, <1>8, <3>1 DEF RatesInv
    <3>. QED  BY <3>1, <3>2, RateTells
  <2>. QED  BY <2>1, <2>2
<1>9. CASE samples # << >>
  <2>0. n # 0
    BY <1>2, <1>3, <1>9
  <2>1. PICK m \in Nat : m = MeanRate /\ m = Total(samples) \div n
    BY <1>2, <1>3, <1>9, MeanType DEF MeanRate
  <2>2. PICK i \in 1..n : samples[i] <= m
    BY <1>2, <1>3, <2>0, <2>1, MeanIsBetween
  <2>3. PICK j \in 1..n : m <= samples[j]
    BY <1>2, <1>3, <2>0, <2>1, MeanIsBetween
  <2>4. samples[i] \in Nat /\ samples[i] > 0 /\ samples[j] \in Nat /\ samples[j] > 0
    BY <1>2, <1>3 DEF ResultInv
  <2>5. m # 0
    BY <2>2, <2>4
  <2>6. PICK k \in 1..Len(replies) : samples[i] = tokens_per_sec(replies[k])
    BY <1>3 DEF RatesInv
  <2>7. PICK h \in 1..Len(replies) : samples[j] = tokens_per_sec(replies[h])
    BY <1>3 DEF RatesInv
  <2>8. replies[k] \in Timed /\ AtMost(replies[k], m)
    <3>1. IsTimed(replies[k]) /\ AtMost(replies[k], m)
      BY <1>7, <2>2, <2>4, <2>6, RateTells
    <3>. QED  BY <1>6, <3>1
  <2>9. replies[h] \in Timed /\ AtLeast(replies[h], m)
    <3>1. IsTimed(replies[h]) /\ AtLeast(replies[h], m)
      BY <1>7, <2>3, <2>4, <2>5, <2>7, RateTells
    <3>. QED  BY <1>6, <3>1
  <2>. QED  BY <1>1, <2>1, <2>5, <2>8, <2>9
<1>. QED  BY <1>8, <1>9

\* The mean rate that Ollama's benchmark reports was generated: whatever the
\* replies, timed or not, and whichever prompts were answered without a rate.
THEOREM RateWasMeasured == BenchSpec => []RateIsMeasured
<1>1. BenchInit => RunnerInv /\ ResultInv /\ RatesInv
  BY RunnerInvInit, RatesInit DEF BenchInit
<1>2. RunnerInv /\ ResultInv /\ RatesInv /\ [BenchNext]_benchVars
        => RunnerInv' /\ ResultInv' /\ RatesInv'
  BY BenchInductive, RatesInductive
<1>. QED  BY <1>1, <1>2, RatesMeasured, PTL DEF BenchSpec

\* What a benchmark may come to in Autopilot and TuneOnce (their BenchAssumption)
\* is what run_benchmark returns, over any runtime and over Ollama.
THEOREM BenchmarksAreAsAssumed ==
  RunnerSpec \/ BenchSpec => [](\A b \in Range(result) : BenchmarkOfARun(b))
<1>1. RunnerInit => RunnerInv /\ ResultInv
  BY RunnerInvInit DEF RunnerInit, ResultInv, Range
<1>2. RunnerInv /\ ResultInv /\ [RunnerNext]_runnerVars => RunnerInv' /\ ResultInv'
  BY RunnerInductive, ResultInductive
<1>3. BenchInit => RunnerInv /\ ResultInv /\ RatesInv
  BY RunnerInvInit, RatesInit DEF BenchInit
<1>4. RunnerInv /\ ResultInv /\ RatesInv /\ [BenchNext]_benchVars
        => RunnerInv' /\ ResultInv' /\ RatesInv'
  BY BenchInductive, RatesInductive
<1>5. RunnerInv /\ ResultInv => \A b \in Range(result) : BenchmarkOfARun(b)
  <2>. SUFFICES ASSUME RunnerInv, ResultInv, NEW b \in Range(result)
                PROVE  BenchmarkOfARun(b)
    OBVIOUS
  <2>1. b \in BenchmarkResult
    BY DEF ResultInv
  <2>2. (b.oom => ~Succeeded(b)) /\ (Succeeded(b) => b.p95 # NoLatency)
    BY RunnerSuccess DEF SuccessIsAFullRun
  <2>. QED  BY <2>1, <2>2 DEF BenchmarkOfARun
<1>6. RunnerSpec => [](RunnerInv /\ ResultInv)
  BY <1>1, <1>2, PTL DEF RunnerSpec
<1>7. BenchSpec => [](RunnerInv /\ ResultInv)
  BY <1>3, <1>4, PTL DEF BenchSpec
<1>. QED  BY <1>5, <1>6, <1>7, PTL

-----------------------------------------------------------------------------
(* Downloads. *)

\* Only, line by line.
Selected(t, s, n, S) ==
  /\ t \in [0..n -> Seq(S)] /\ t[0] = << >>
  /\ \A i \in 1..n : t[i] = IF s[i] \in S THEN Append(t[i - 1], s[i]) ELSE t[i - 1]

LEMMA OnlyIsSelected ==
  ASSUME NEW s, NEW n \in Nat, n = Len(s), NEW S
  PROVE  \E t : Selected(t, s, n, S) /\ Only(s, S) = t[n]
<1>3. PICK step : step = [i \in 1..n |-> [x \in Seq(S) |->
                            IF s[i] \in S THEN Append(x, s[i]) ELSE x]]
  OBVIOUS
<1>4. step \in [1..n -> [Seq(S) -> Seq(S)]]
  BY <1>3
<1>5. PICK t \in [0..n -> Seq(S)] : Recurs(t, << >>, step, n)
  <2>1. << >> \in Seq(S)
    OBVIOUS
  <2>. QED  BY <1>4, <2>1, RecursionExists
<1>6. /\ t[0] = << >>
      /\ \A i \in 1..n : t[i] = IF s[i] \in S THEN Append(t[i - 1], s[i]) ELSE t[i - 1]
  <2>1. ASSUME NEW i \in 1..n
        PROVE  t[i] = IF s[i] \in S THEN Append(t[i - 1], s[i]) ELSE t[i - 1]
    <3>1. i - 1 \in 0..n
      OBVIOUS
    <3>. QED  BY <1>3, <1>5, <3>1 DEF Recurs
  <2>. QED  BY <1>5, <2>1 DEF Recurs
<1>. DEFINE Selects(u) ==
       u = [i \in 0..n |-> IF i = 0 THEN << >>
                           ELSE IF s[i] \in S THEN Append(u[i - 1], s[i]) ELSE u[i - 1]]
<1>7. Selects(t)
  <2>1. ASSUME NEW i \in 0..n
        PROVE  t[i] = IF i = 0 THEN << >>
                      ELSE IF s[i] \in S THEN Append(t[i - 1], s[i]) ELSE t[i - 1]
    <3>1. i = 0 \/ i \in 1..n
      OBVIOUS
    <3>. QED  BY <1>6, <3>1
  <2>2. t = [i \in 0..n |-> t[i]]
    OBVIOUS
  <2>. QED  BY <2>1, <2>2, Zenon
<1>. HIDE DEF Selects
<1>8. PICK u : u = CHOOSE v : Selects(v)
  OBVIOUS
<1>9. Selects(u)
  BY <1>7, <1>8
<1>10. Follows(u, Seq(S), << >>, step, n)
  <2>1. ASSUME NEW i \in 1..n, u[i - 1] \in Seq(S)
        PROVE  u[i] = step[i][u[i - 1]]
    <3>1. i \in 0..n /\ i # 0
      OBVIOUS
    <3>2. u[i] = IF s[i] \in S THEN Append(u[i - 1], s[i]) ELSE u[i - 1]
      BY <1>9, <3>1 DEF Selects
    <3>. QED  BY <1>3, <2>1, <3>2
  <2>2. u[0] = << >>
    BY <1>9 DEF Selects
  <2>. QED  BY <2>1, <2>2 DEF Follows
<1>11. u[n] = t[n]
  <2>1. << >> \in Seq(S)
    OBVIOUS
  <2>2. Agree(t, u, n)
    BY <1>4, <1>5, <1>10, <2>1, RecursionUnique
  <2>. QED  BY <2>2 DEF Agree
<1>12. Only(s, S) = u[n]
  BY <1>8 DEF Only, Selects
<1>. QED  BY <1>6, <1>11, <1>12 DEF Selected

\* Nothing is selected of nothing, and a line that comes after is selected or not.
LEMMA OnlyOfNone ==
  ASSUME NEW S
  PROVE  Only(<< >>, S) = << >>
<1>1. 0 \in Nat /\ Len(<< >>) = 0
  OBVIOUS
<1>2. PICK t : Selected(t, << >>, 0, S) /\ Only(<< >>, S) = t[0]
  BY <1>1, OnlyIsSelected
<1>. QED  BY <1>2 DEF Selected

LEMMA OnlyOfNext ==
  ASSUME NEW L, NEW s \in Seq(L), NEW l \in L, NEW S
  PROVE  /\ Only(s, S) \in Seq(S)
         /\ Only(Append(s, l), S) = IF l \in S THEN Append(Only(s, S), l) ELSE Only(s, S)
<1>1. PICK n \in Nat : n = Len(s)
  OBVIOUS
<1>2. PICK r \in Seq(L) : r = Append(s, l)
  <2>1. Append(s, l) \in Seq(L)
    BY AppendProperties
  <2>. QED  BY <2>1
<1>3. /\ Len(r) = n + 1 /\ n + 1 \in Nat
      /\ r[n + 1] = l /\ \A i \in 1..n : r[i] = s[i]
  BY <1>1, <1>2
<1>4. PICK t : Selected(t, s, n, S) /\ Only(s, S) = t[n]
  BY <1>1, OnlyIsSelected
<1>5. PICK u : Selected(u, r, n + 1, S) /\ Only(r, S) = u[n + 1]
  BY <1>3, OnlyIsSelected
<1>6. PICK step : step = [i \in 1..n |-> [x \in Seq(S) |->
                            IF s[i] \in S THEN Append(x, s[i]) ELSE x]]
  OBVIOUS
<1>7. step \in [1..n -> [Seq(S) -> Seq(S)]] /\ << >> \in Seq(S)
  BY <1>6
<1>8. Recurs(t, << >>, step, n)
  <2>1. ASSUME NEW i \in 1..n  PROVE t[i] = step[i][t[i - 1]]
    <3>1. i - 1 \in 0..n
      OBVIOUS
    <3>. QED  BY <1>4, <1>6, <3>1 DEF Selected
  <2>. QED  BY <1>4, <2>1 DEF Recurs, Selected
<1>9. ASSUME NEW i \in 1..n  PROVE u[i - 1] \in Seq(S) => u[i] = step[i][u[i - 1]]
  <2>1. i \in 1..(n + 1) /\ r[i] = s[i]
    BY <1>3
  <2>. QED  BY <1>5, <1>6, <2>1 DEF Selected
<1>10. Agree(t, u, n)
  <2>1. Follows(u, Seq(S), << >>, step, n)
    BY <1>5, <1>9 DEF Follows, Selected
  <2>2. t \in [0..n -> Seq(S)]
    BY <1>4 DEF Selected
  <2>. QED  BY <1>7, <1>8, <2>1, <2>2, RecursionUnique
<1>11. u[n] = t[n] /\ t[n] \in Seq(S)
  BY <1>4, <1>10 DEF Agree, Selected
<1>12. u[n + 1] = IF l \in S THEN Append(u[n], l) ELSE u[n]
  <2>1. n + 1 \in 1..(n + 1) /\ n + 1 - 1 = n
    OBVIOUS
  <2>. QED  BY <1>3, <1>5, <2>1 DEF Selected
<1>. QED  BY <1>2, <1>4, <1>5, <1>11, <1>12

-----------------------------------------------------------------------------
\* What has been taken of a stream does not change when a line is written, and
\* grows by the line that is read.
LEMMA TakenStays ==
  ASSUME sent \in Seq(Written), read \in 0..Len(sent), NEW l \in Written,
         sent' = Append(sent, l), read' = read
  PROVE  Taken' = Taken
<1>1. PICK n \in Nat : n = Len(sent) /\ read \in 0..n
  OBVIOUS
<1>2. \A i \in 1..n : sent[i] \in Written /\ sent'[i] = sent[i]
  BY <1>1
<1>3. read \in Int /\ 1 \in Int /\ \A i \in 1..read : i \in 1..n
  BY <1>1
<1>4. \A i \in 1..read : sent[i] \in Written /\ sent'[i] \in Written /\ sent'[i] = sent[i]
  BY <1>2, <1>3
<1>5. /\ Taken \in Seq(Written) /\ Len(Taken) = IF 1 <= read THEN read - 1 + 1 ELSE 0
      /\ \A i \in 1..(read - 1 + 1) : Taken[i] = sent[1 + i - 1]
  BY <1>3, <1>4, SubSeqProperties DEF Taken
<1>6. /\ Taken' \in Seq(Written) /\ Len(Taken') = IF 1 <= read THEN read - 1 + 1 ELSE 0
      /\ \A i \in 1..(read - 1 + 1) : Taken'[i] = sent'[1 + i - 1]
  <2>1. Taken' = SubSeq(sent', 1, read)
    BY DEF Taken
  <2>2. /\ SubSeq(sent', 1, read) \in Seq(Written)
        /\ Len(SubSeq(sent', 1, read)) = IF 1 <= read THEN read - 1 + 1 ELSE 0
        /\ \A i \in 1..(read - 1 + 1) : SubSeq(sent', 1, read)[i] = sent'[1 + i - 1]
    BY <1>3, <1>4, SubSeqProperties
  <2>. QED  BY <2>1, <2>2
<1>7. Len(Taken) = read /\ Len(Taken') = read
  BY <1>1, <1>5, <1>6
<1>8. ASSUME NEW i \in 1..read  PROVE Taken[i] = Taken'[i]
  <2>1. i \in 1..(read - 1 + 1) /\ 1 + i - 1 = i
    BY <1>3
  <2>. QED  BY <1>4, <1>5, <1>6, <2>1
<1>. QED  BY <1>5, <1>6, <1>7, <1>8, SeqEqual

LEMMA TakenGrows ==
  ASSUME sent \in Seq(Written), read \in 0..Len(sent), read < Len(sent),
         sent' = sent, read' = read + 1
  PROVE  /\ sent[read + 1] \in Written
         /\ Taken \in Seq(Written)
         /\ Taken' = Append(Taken, sent[read + 1])
<1>1. read \in Nat /\ read + 1 \in 1..Len(sent)
  OBVIOUS
<1>2. sent[read + 1] \in Written
  BY <1>1, ElementOfSeq
<1>3. Taken \in Seq(Written) /\ Len(Taken) = read
      /\ \A i \in 1..read : Taken[i] = sent[i]
  <2>1. \A i \in 1..read : sent[i] \in Written
    OBVIOUS
  <2>2. /\ Taken \in Seq(Written) /\ Len(Taken) = IF 1 <= read THEN read - 1 + 1 ELSE 0
        /\ \A i \in 1..(read - 1 + 1) : Taken[i] = sent[1 + i - 1]
    BY <1>1, <2>1, SubSeqProperties, 1 \in Int, read \in Int DEF Taken
  <2>. QED  BY <1>1, <2>2
<1>4. /\ Append(Taken, sent[read + 1]) \in Seq(Written)
      /\ Len(Append(Taken, sent[read + 1])) = read + 1
      /\ \A i \in 1..read : Append(Taken, sent[read + 1])[i] = sent[i]
      /\ Append(Taken, sent[read + 1])[read + 1] = sent[read + 1]
  BY <1>2, <1>3, AppendProperties
<1>5. /\ SubSeq(sent, 1, read + 1) \in Seq(Written) /\ Len(SubSeq(sent, 1, read + 1)) = read + 1
      /\ \A i \in 1..(read + 1) : SubSeq(sent, 1, read + 1)[i] = sent[i]
  <2>1. \A i \in 1..(read + 1) : sent[i] \in Written
    OBVIOUS
  <2>2. /\ SubSeq(sent, 1, read + 1) \in Seq(Written)
        /\ Len(SubSeq(sent, 1, read + 1)) = IF 1 <= read + 1 THEN read + 1 - 1 + 1 ELSE 0
        /\ \A i \in 1..(read + 1 - 1 + 1) : SubSeq(sent, 1, read + 1)[i] = sent[1 + i - 1]
    BY <1>1, <2>1, SubSeqProperties, 1 \in Int, read + 1 \in Int
  <2>. QED  BY <1>1, <2>2
<1>6. \A i \in 1..(read + 1) : SubSeq(sent, 1, read + 1)[i] = Append(Taken, sent[read + 1])[i]
  BY <1>1, <1>4, <1>5
<1>7. SubSeq(sent, 1, read + 1) = Append(Taken, sent[read + 1])
  BY <1>4, <1>5, <1>6, SeqEqual
<1>8. Taken' = SubSeq(sent, 1, read + 1)
  BY DEF Taken
<1>. QED  BY <1>2, <1>3, <1>7, <1>8

-----------------------------------------------------------------------------
\* Where reader and Ollama can be at the same time: an error line ends a stream
\* of which the reader has not got past the end, and is written only by an Ollama
\* that then has failed for good.
StreamInv ==
  /\ reader \in {"cli", "agentd"}
  /\ sent \in Seq(Written) /\ read \in 0..Len(sent)
  /\ stage \in {"ask", "post", "unavailable"} => sent = << >> /\ ollama \in {"idle", "gone"}
  /\ stage = "clean" => read = Len(sent) /\ ollama \in {"succeeded", "failed"}
  /\ Error \in Range(sent) <=> ollama = "failed"

Bars == [key : Range(KeyOf), total : Totals, completed : 0..1]

NonBlank == Written \ {Blank}

\* The response so far: what has been taken but for blank lines.
ResponseInv ==
  reader = "agentd" =>
    IF stage = "unavailable" THEN relayed = <<Error>>
    ELSE /\ relayed = Only(Taken, NonBlank)
         /\ Error \in Range(relayed) <=> Error \in Range(Taken)

BarsInv == bars \in Seq(Bars) /\ BarsFollowTheStream

\* No line of a download but the error itself is one.
LEMMA ErrorIsNoReport ==
  /\ Error \notin Lines /\ Error # Text(Success) /\ Error # Blank
  /\ Lines \subseteq Written /\ Error \in Written /\ Text(Success) \in Written
<1>1. Error.status = "error" /\ \A l \in Layers : l.status = "pulling"
  BY DEF Error, Text, Layers
<1>2. \A s : Text(s).status = s
  BY DEF Text
<1>3. Error \notin Lines
  BY <1>1, <1>2, StatusesAssumption DEF Lines, Blank
<1>. QED  BY <1>1, <1>2, <1>3 DEF Success, Blank, Written

LEMMA RangeOfAppend ==
  ASSUME NEW S, NEW s \in Seq(S), NEW x \in S
  PROVE  Range(Append(s, x)) = Range(s) \cup {x}
<1>1. PICK n \in Nat : n = Len(s)
  OBVIOUS
<1>2. DOMAIN s = 1..n /\ DOMAIN Append(s, x) = 1..(n + 1)
  BY <1>1
<1>3. \A i \in 1..n : Append(s, x)[i] = s[i]
  BY <1>1
<1>4. Append(s, x)[n + 1] = x
  BY <1>1
<1>5. \A i \in 1..(n + 1) : i \in 1..n \/ i = n + 1
  OBVIOUS
<1>6. \A i \in 1..n : i \in 1..(n + 1)
  OBVIOUS
<1>7. n + 1 \in 1..(n + 1)
  OBVIOUS
<1>. QED  BY ONLY <1>2, <1>3, <1>4, <1>5, <1>6, <1>7 DEF Range

LEMMA StreamInit == PullInit => StreamInv /\ ResponseInv /\ BarsInv
<1>. SUFFICES ASSUME PullInit PROVE StreamInv /\ ResponseInv /\ BarsInv
  OBVIOUS
<1>1. Range(<< >>) = {} /\ Len(<< >>) = 0
  BY DEF Range
<1>2. StreamInv
  BY <1>1 DEF PullInit, StreamInv
<1>3. Taken = << >>
  BY SubSeqEmpty DEF PullInit, Taken
<1>4. ResponseInv
  BY <1>3, OnlyOfNone DEF PullInit, ResponseInv
<1>5. StatusesOf(<< >>) = << >>
  BY <1>1 DEF StatusesOf
<1>6. \A key : BarOf(key) = {}
  BY <1>1 DEF PullInit, BarOf
<1>7. BarsInv
  <2>1. \A key : BarShows(key, << >>)
    BY <1>6 DEF BarShows
  <2>2. \A S : Only(Taken, S) = << >>
    BY <1>3, OnlyOfNone
  <2>3. bars \in Seq(Bars) /\ printed = << >>
    BY DEF PullInit
  <2>. QED  BY <1>5, <2>1, <2>2, <2>3 DEF BarsInv, BarsFollowTheStream
<1>. QED  BY <1>2, <1>4, <1>7

-----------------------------------------------------------------------------
\* Ollama writes a line.
LEMMA WriteKeeps ==
  ASSUME StreamInv, NEW l \in Written, NEW next,
         next \in {"sending", "succeeded", "failed"}, l = Error <=> next = "failed",
         Write(l, next)
  PROVE  StreamInv' /\ Taken' = Taken /\ UNCHANGED <<reader, stage, shown>>
<1>1. /\ ollama = "sending" /\ sent' = Append(sent, l) /\ ollama' = next
      /\ reader' = reader /\ stage' = stage /\ read' = read /\ shown' = shown
  BY DEF Write
<1>2. sent \in Seq(Written) /\ read \in 0..Len(sent)
  BY DEF StreamInv
<1>3. sent' \in Seq(Written) /\ Len(sent') = Len(sent) + 1
  BY <1>1, <1>2, AppendProperties
<1>4. Range(sent') = Range(sent) \cup {l}
  BY <1>1, <1>2, RangeOfAppend
<1>5. Error \in Range(sent') <=> ollama' = "failed"
  BY <1>1, <1>4 DEF StreamInv
<1>6. stage \notin {"ask", "post", "unavailable", "clean"}
  BY <1>1 DEF StreamInv
<1>7. read' \in 0..Len(sent')
  BY <1>1, <1>2, <1>3
<1>8. Taken' = Taken
  BY <1>1, <1>2, TakenStays
<1>. QED  BY <1>1, <1>3, <1>5, <1>6, <1>7, <1>8 DEF StreamInv

\* What the reader shows follows from what it has taken.
LEMMA ShownKeeps ==
  ASSUME ResponseInv, BarsInv, Taken' = Taken, UNCHANGED <<reader, shown>>,
         stage' = "unavailable" <=> stage = "unavailable"
  PROVE  ResponseInv' /\ BarsInv'
<1>1. relayed' = relayed /\ bars' = bars /\ printed' = printed /\ reader' = reader
  BY DEF shown
<1>2. ResponseInv'
  BY <1>1 DEF ResponseInv
<1>3. BarsInv'
  BY <1>1 DEF BarsInv, BarsFollowTheStream, BarShows, BarOf
<1>. QED  BY <1>2, <1>3

\* The runtime is asked for.
LEMMA AskKeeps ==
  ASSUME StreamInv, ResponseInv, BarsInv, Ask
  PROVE  StreamInv' /\ ResponseInv' /\ BarsInv'
<1>1. /\ stage = "ask" /\ UNCHANGED <<reader, ollama, sent, read, bars, printed>>
      /\ \/ stage' = "post" /\ relayed' = relayed
         \/ /\ stage' = "unavailable"
            /\ reader = "agentd" => relayed' = <<Error>>
  BY DEF Ask
<1>2. StreamInv'
  BY <1>1 DEF StreamInv
<1>3. Taken' = Taken
  BY <1>1 DEF Taken
<1>4. BarsInv'
  BY <1>1, <1>3 DEF BarsInv, BarsFollowTheStream, BarShows, BarOf
<1>5. ResponseInv'
  BY <1>1, <1>3 DEF ResponseInv
<1>. QED  BY <1>2, <1>4, <1>5

\* A line is relayed.
LEMMA RelayKeeps ==
  ASSUME StreamInv, ResponseInv, Read, reader = "agentd"
  PROVE  ResponseInv'
<1>. DEFINE l == sent[read + 1]
<1>1. /\ stage = "read" /\ stage' = "read" /\ reader' = reader
      /\ read < Len(sent) /\ read' = read + 1 /\ sent' = sent
      /\ l = Blank => relayed' = relayed
      /\ l # Blank => relayed' = Append(relayed, l)
  BY DEF Read, Relay, shown
<1>2. l \in Written /\ Taken \in Seq(Written) /\ Taken' = Append(Taken, l)
  BY <1>1, TakenGrows DEF StreamInv
<1>3. relayed = Only(Taken, NonBlank) /\ (Error \in Range(relayed) <=> Error \in Range(Taken))
  BY <1>1 DEF ResponseInv
<1>. HIDE DEF l
<1>4. /\ Only(Taken, NonBlank) \in Seq(NonBlank)
      /\ Only(Taken', NonBlank) =
           IF l \in NonBlank THEN Append(Only(Taken, NonBlank), l) ELSE Only(Taken, NonBlank)
  BY <1>2, OnlyOfNext
<1>5. relayed' = Only(Taken', NonBlank)
  BY <1>1, <1>2, <1>3, <1>4 DEF NonBlank
<1>6. Error \in Range(relayed') <=> Error \in Range(Taken')
  <2>1. Range(Taken') = Range(Taken) \cup {l}
    BY <1>2, RangeOfAppend
  <2>2. CASE l = Blank
    BY <1>1, <1>3, <2>1, <2>2, ErrorIsNoReport
  <2>3. CASE l # Blank
    <3>1. l \in NonBlank
      BY <1>2, <2>3 DEF NonBlank
    <3>2. relayed \in Seq(NonBlank) /\ relayed' = Append(relayed, l)
      BY <1>1, <1>3, <1>4, <2>3
    <3>3. Range(Append(relayed, l)) = Range(relayed) \cup {l}
      BY <3>1, <3>2, RangeOfAppend
    <3>. QED  BY <1>3, <2>1, <3>2, <3>3
  <2>. QED  BY <2>2, <2>3
<1>. QED  BY <1>1, <1>5, <1>6 DEF ResponseInv

-----------------------------------------------------------------------------
\* A bar's line is a layer's, and its key one of the keys.
LEMMA BarLine ==
  ASSUME NEW l \in Written, IsBar(l)
  PROVE  /\ KeyOf[l.digest] \in Range(KeyOf) /\ l.total \in Totals /\ l.completed \in 0..1
         /\ l \notin TextLines /\ \A key : l \in LinesOf(key) <=> key = KeyOf[l.digest]
         /\ l # Blank /\ l # Error
<1>1. \A s : ~IsBar(Text(s))
  BY DEF IsBar, Text
<1>2. l \in Layers
  BY <1>1 DEF Written, Lines, Blank, Error
<1>3. l.digest \in Digests /\ l.total \in Totals /\ l.completed \in 0..1
  BY <1>2 DEF Layers
<1>4. KeyOf[l.digest] \in Range(KeyOf)
  BY <1>3, KeysAssumption DEF Range
<1>5. l \in BarLines
  BY DEF BarLines
<1>. QED  BY <1>1, <1>3, <1>4, <1>5 DEF TextLines, LinesOf, Blank, Error

\* The first line of a key adds a bar.
LEMMA NewBar ==
  ASSUME bars \in Seq(Bars), NEW b \in Bars, BarOf(b.key) = {}, bars' = Append(bars, b)
  PROVE  /\ bars' \in Seq(Bars) /\ Len(bars') = Len(bars) + 1 /\ Len(bars) \in Nat
         /\ bars'[Len(bars) + 1] = b /\ BarOf(b.key)' = {Len(bars) + 1}
         /\ \A key : key # b.key => BarOf(key)' = BarOf(key)
         /\ \A i \in 1..Len(bars) : bars'[i] = bars[i]
<1>1. PICK n \in Nat : n = Len(bars)
  OBVIOUS
<1>2. /\ bars' \in Seq(Bars) /\ Len(bars') = n + 1 /\ bars'[n + 1] = b
      /\ \A i \in 1..n : bars'[i] = bars[i]
  BY <1>1, AppendProperties
<1>3. \A i : i \in 1..(n + 1) <=> i \in 1..n \/ i = n + 1
  BY <1>1
<1>4. n + 1 \notin 1..n
  BY <1>1
<1>5. \A key : /\ BarOf(key) = {i \in 1..n : bars[i].key = key}
               /\ BarOf(key)' = {i \in 1..(n + 1) : bars'[i].key = key}
  BY <1>1, <1>2 DEF BarOf
<1>6. BarOf(b.key)' = {n + 1}
  BY <1>2, <1>3, <1>5
<1>7. ASSUME NEW key, key # b.key  PROVE BarOf(key)' = BarOf(key)
  BY <1>2, <1>3, <1>4, <1>5, <1>7
<1>. QED  BY <1>1, <1>2, <1>6, <1>7

\* A later line of the key moves the bar, to the c of the line.
MovesBar(k, c) ==
  bars' = [i \in 1..Len(bars) |-> IF bars[i].key = k
                                  THEN [bars[i] EXCEPT !.completed = c]
                                  ELSE bars[i]]

BarIsMoved(k, c) ==
  /\ bars' \in Seq(Bars) /\ Len(bars') = Len(bars)
  /\ \A key : BarOf(key)' = BarOf(key)
  /\ \A i \in 1..Len(bars) :
       /\ bars'[i].total = bars[i].total
       /\ bars[i].key = k => bars'[i].completed = c
       /\ bars[i].key # k => bars'[i] = bars[i]

LEMMA MovedBar ==
  ASSUME bars \in Seq(Bars), NEW k, NEW c \in 0..1, MovesBar(k, c)
  PROVE  BarIsMoved(k, c)
<1>1. PICK n \in Nat : n = Len(bars)
  OBVIOUS
<1>2. ASSUME NEW i \in 1..n
      PROVE  /\ bars'[i] \in Bars /\ bars'[i].key = bars[i].key
             /\ bars'[i].total = bars[i].total
             /\ bars[i].key = k => bars'[i].completed = c
             /\ bars[i].key # k => bars'[i] = bars[i]
  <2>1. bars[i] \in Bars
    BY <1>1
  <2>2. CASE bars[i].key = k
    <3>1. bars'[i] = [bars[i] EXCEPT !.completed = c]
      BY <1>1, <2>2 DEF MovesBar
    <3>. QED  BY <2>1, <2>2, <3>1 DEF Bars
  <2>3. CASE bars[i].key # k
    BY <1>1, <2>1, <2>3 DEF MovesBar
  <2>. QED  BY <2>2, <2>3
<1>3. bars' \in [1..n -> Bars] /\ DOMAIN bars' = 1..n
  BY <1>1, <1>2 DEF MovesBar
<1>4. bars' \in Seq(Bars) /\ Len(bars') = n
  BY <1>3
<1>5. ASSUME NEW key  PROVE BarOf(key)' = BarOf(key)
  BY <1>1, <1>2, <1>4 DEF BarOf
<1>. QED  BY <1>1, <1>2, <1>4, <1>5 DEF BarIsMoved

\* The bar of a key whose lines stay the same, while the bars of other keys change.
LEMMA BarStays ==
  ASSUME NEW key, NEW own, BarShows(key, own), BarOf(key)' = BarOf(key),
         Len(bars) \in Nat, Len(bars') \in Nat, Len(bars) <= Len(bars'),
         \A i \in 1..Len(bars) : bars[i].key = key => bars'[i] = bars[i]
  PROVE  BarShows(key, own)'
<1>1. CASE own = << >>
  BY <1>1 DEF BarShows
<1>2. CASE own # << >>
  <2>1. PICK i \in 1..Len(bars) :
          /\ BarOf(key) = {i}
          /\ bars[i].completed = own[Len(own)].completed /\ bars[i].total = own[1].total
    BY <1>2 DEF BarShows
  <2>2. bars[i].key = key
    BY <2>1 DEF BarOf
  <2>3. bars'[i] = bars[i] /\ i \in 1..Len(bars')
    BY <2>1, <2>2
  <2>. QED  BY <1>2, <2>1, <2>3 DEF BarShows
<1>. QED  BY <1>1, <1>2

\* The bar of the key whose line is read, and those of the others.
BarIsAsBefore(key) ==
  /\ BarOf(key)' = BarOf(key)
  /\ \A i \in 1..Len(bars) : bars[i].key = key => bars'[i] = bars[i]

LEMMA BarFollows ==
  ASSUME bars \in Seq(Bars), NEW l \in Written, IsBar(l), ShowBar(l),
         NEW k, k = KeyOf[l.digest], NEW S, l \in S, NEW own \in Seq(S),
         BarShows(k, own), NEW more, more = Append(own, l)
  PROVE  /\ bars' \in Seq(Bars) /\ Len(bars) <= Len(bars') /\ BarShows(k, more)'
         /\ \A key : key # k => BarIsAsBefore(key)
<1>2. k \in Range(KeyOf) /\ l.total \in Totals /\ l.completed \in 0..1
  BY BarLine
<1>4. /\ more # << >> /\ more[Len(more)] = l
      /\ own = << >> => more[1] = l
      /\ own # << >> => more[1] = own[1]
  <2>1. PICK n \in Nat : n = Len(own)
    OBVIOUS
  <2>2. Len(more) = n + 1 /\ more[n + 1] = l /\ \A i \in 1..n : more[i] = own[i]
    BY <2>1
  <2>3. own # << >> => 1 \in 1..n
    BY <2>1
  <2>4. own = << >> => n = 0
    BY <2>1
  <2>5. more # << >>
    BY <2>2
  <2>. QED  BY <2>2, <2>3, <2>4, <2>5
<1>5. CASE own = << >>
  <2>1. PICK b : b = [key |-> k, total |-> l.total, completed |-> l.completed]
    OBVIOUS
  <2>2. b \in Bars /\ b.key = k /\ b.total = l.total /\ b.completed = l.completed
    BY <1>2, <2>1 DEF Bars
  <2>3. BarOf(k) = {}
    BY <1>5 DEF BarShows
  <2>4. bars' = Append(bars, b)
    BY <2>1, <2>3 DEF ShowBar
  <2>5. /\ bars' \in Seq(Bars) /\ Len(bars') = Len(bars) + 1 /\ Len(bars) \in Nat
        /\ bars'[Len(bars) + 1] = b /\ BarOf(k)' = {Len(bars) + 1}
        /\ \A key : key # k => BarOf(key)' = BarOf(key)
        /\ \A i \in 1..Len(bars) : bars'[i] = bars[i]
    BY <2>2, <2>3, <2>4, NewBar
  <2>6. Len(bars) + 1 \in 1..Len(bars') /\ Len(bars) <= Len(bars')
    BY <2>5
  <2>7. BarShows(k, more)'
    BY <1>4, <1>5, <2>2, <2>5, <2>6 DEF BarShows
  <2>. QED  BY <2>5, <2>6, <2>7 DEF BarIsAsBefore
<1>6. CASE own # << >>
  <2>1. PICK i \in 1..Len(bars) : BarOf(k) = {i} /\ bars[i].total = own[1].total
    BY <1>6 DEF BarShows
  <2>2. bars[i].key = k
    BY <2>1 DEF BarOf
  <2>3. bars' = [j \in 1..Len(bars) |-> IF bars[j].key = k
                                        THEN [bars[j] EXCEPT !.completed = l.completed]
                                        ELSE bars[j]]
    BY <2>1 DEF ShowBar
  <2>. PICK c \in 0..1 : c = l.completed
    BY <1>2
  <2>4. /\ bars' \in Seq(Bars) /\ Len(bars') = Len(bars)
        /\ \A key : BarOf(key)' = BarOf(key)
        /\ \A j \in 1..Len(bars) :
             /\ bars'[j].total = bars[j].total
             /\ bars[j].key = k => bars'[j].completed = l.completed
             /\ bars[j].key # k => bars'[j] = bars[j]
    <3>1. MovesBar(k, c)
      BY <2>3 DEF MovesBar
    <3>2. BarIsMoved(k, c)
      BY <3>1, MovedBar
    <3>. QED  BY <3>2 DEF BarIsMoved
  <2>5. /\ bars'[i].completed = l.completed /\ bars'[i].total = own[1].total
        /\ BarOf(k)' = {i} /\ i \in 1..Len(bars')
    BY <2>1, <2>2, <2>4
  <2>6. BarShows(k, more)'
    BY <1>4, <1>6, <2>5 DEF BarShows
  <2>7. Len(bars) <= Len(bars')
    BY <2>4
  <2>. QED  BY <2>4, <2>6, <2>7 DEF BarIsAsBefore
<1>. QED  BY <1>5, <1>6

\* One status more.
LEMMA StatusesGrow ==
  ASSUME NEW S, NEW s \in Seq(S), NEW l \in S
  PROVE  StatusesOf(Append(s, l)) = Append(StatusesOf(s), l.status)
<1>1. PICK n \in Nat : n = Len(s)
  OBVIOUS
<1>2. Len(Append(s, l)) = n + 1 /\ Append(s, l)[n + 1] = l
      /\ \A i \in 1..n : Append(s, l)[i] = s[i]
  BY <1>1
<1>3. PICK T : T = {s[i].status : i \in 1..n} \cup {l.status}
  OBVIOUS
<1>4. PICK old, new : old = StatusesOf(s) /\ new = StatusesOf(Append(s, l))
  OBVIOUS
<1>5. old \in [1..n -> T] /\ \A i \in 1..n : old[i] = s[i].status
  BY <1>1, <1>3, <1>4 DEF StatusesOf
<1>6. new \in [1..(n + 1) -> T] /\ new[n + 1] = l.status
      /\ \A i \in 1..n : new[i] = s[i].status
  <2>1. new = [i \in 1..(n + 1) |-> Append(s, l)[i].status]
    BY <1>2, <1>4 DEF StatusesOf
  <2>2. ASSUME NEW i \in 1..(n + 1)
        PROVE  Append(s, l)[i].status \in T
    <3>1. i \in 1..n \/ i = n + 1
      OBVIOUS
    <3>. QED  BY <1>2, <1>3, <3>1
  <2>3. new \in [1..(n + 1) -> T]
    BY <2>1, <2>2
  <2>4. \A i \in 1..n : i \in 1..(n + 1)
    OBVIOUS
  <2>. QED  BY <1>2, <2>1, <2>3, <2>4
<1>7. old \in Seq(T) /\ new \in Seq(T) /\ Len(old) = n /\ Len(new) = n + 1 /\ l.status \in T
  BY <1>3, <1>5, <1>6
<1>8. /\ Append(old, l.status) \in Seq(T) /\ Len(Append(old, l.status)) = n + 1
      /\ Append(old, l.status)[n + 1] = l.status
      /\ \A i \in 1..n : Append(old, l.status)[i] = old[i]
  BY <1>7, AppendProperties
<1>9. \A i \in 1..(n + 1) : new[i] = Append(old, l.status)[i]
  <2>1. \A i \in 1..(n + 1) : i \in 1..n \/ i = n + 1
    OBVIOUS
  <2>. QED  BY <1>5, <1>6, <1>8, <2>1
<1>10. new = Append(old, l.status)
  BY <1>7, <1>8, <1>9, SeqEqual
<1>. QED  BY <1>4, <1>10

\* A line is shown.
LEMMA ShowKeeps ==
  ASSUME StreamInv, BarsInv, Read, reader = "cli"
  PROVE  BarsInv'
<1>. DEFINE l == sent[read + 1]
<1>1. /\ read < Len(sent) /\ read' = read + 1 /\ sent' = sent /\ reader' = reader
      /\ l = Blank => bars' = bars /\ printed' = printed
      /\ l # Blank => Show(l)
  BY DEF Read, shown
<1>2. l \in Written /\ Taken \in Seq(Written) /\ Taken' = Append(Taken, l)
  BY <1>1, TakenGrows DEF StreamInv
<1>. HIDE DEF l
<1>3. /\ bars \in Seq(Bars) /\ printed = StatusesOf(Only(Taken, TextLines))
      /\ \A key \in Range(KeyOf) : BarShows(key, Only(Taken, LinesOf(key)))
  BY DEF BarsInv, BarsFollowTheStream
<1>4. \A S : /\ Only(Taken, S) \in Seq(S)
             /\ Only(Taken', S) = IF l \in S THEN Append(Only(Taken, S), l) ELSE Only(Taken, S)
  BY <1>2, OnlyOfNext
<1>5. ASSUME printed' = StatusesOf(Only(Taken', TextLines)), bars' \in Seq(Bars),
             \A key \in Range(KeyOf) : \E own : own = Only(Taken', LinesOf(key))
                                              /\ BarShows(key, own)'
      PROVE  BarsInv'
  <2>1. ASSUME NEW key \in Range(KeyOf)
        PROVE  BarShows(key, Only(Taken, LinesOf(key)))'
    <3>1. PICK own : own = Only(Taken', LinesOf(key)) /\ BarShows(key, own)'
      BY <1>5
    <3>. QED  BY <3>1 DEF BarShows, BarOf
  <2>. QED  BY <1>5, <2>1 DEF BarsInv, BarsFollowTheStream
<1>6. CASE IsBar(l)
  <2>1. PICK k \in Range(KeyOf) : k = KeyOf[l.digest]
    BY <1>2, <1>6, BarLine
  <2>2. /\ l \notin TextLines /\ \A key : l \in LinesOf(key) <=> key = k
        /\ l # Blank
    BY <1>2, <1>6, <2>1, BarLine
  <2>3. ShowBar(l) /\ printed' = printed
    BY <1>1, <1>6, <2>2 DEF Show, IsBar
  <2>4. printed' = StatusesOf(Only(Taken', TextLines))
    BY <1>3, <1>4, <2>2, <2>3
  <2>5. PICK own, more :
          /\ own \in Seq(LinesOf(k)) /\ own = Only(Taken, LinesOf(k)) /\ BarShows(k, own)
          /\ more = Append(own, l) /\ l \in LinesOf(k)
    BY <1>3, <1>4, <2>2
  <2>6. /\ bars' \in Seq(Bars) /\ Len(bars) <= Len(bars') /\ BarShows(k, more)'
        /\ \A key : key # k => BarIsAsBefore(key)
    <3>1. PICK S : S = LinesOf(k)
      OBVIOUS
    <3>2. bars \in Seq(Bars) /\ l \in Written /\ k = KeyOf[l.digest]
      BY <1>2, <1>3, <2>1
    <3>3. own \in Seq(S) /\ l \in S /\ BarShows(k, own) /\ more = Append(own, l)
      BY <2>5, <3>1
    <3>. QED  BY ONLY <1>6, <2>3, <3>2, <3>3, BarFollows
  <2>7. Len(bars) \in Nat /\ Len(bars') \in Nat
    BY <1>3, <2>6
  <2>8. ASSUME NEW key \in Range(KeyOf)
        PROVE  \E its : its = Only(Taken', LinesOf(key)) /\ BarShows(key, its)'
    <3>1. CASE key = k
      <4>1. Only(Taken', LinesOf(k)) = more
        BY <1>4, <2>5
      <4>. QED  BY <2>6, <3>1, <4>1
    <3>2. CASE key # k
      <4>1. Only(Taken', LinesOf(key)) = Only(Taken, LinesOf(key))
        BY <1>4, <2>2, <3>2
      <4>2. PICK mine : mine = Only(Taken, LinesOf(key))
        OBVIOUS
      <4>3. BarShows(key, mine)
        BY <1>3, <4>2
      <4>4. BarShows(key, mine)'
        BY <2>6, <2>7, <3>2, <4>3, BarStays DEF BarIsAsBefore
      <4>. QED  BY <4>1, <4>2, <4>4
    <3>. QED  BY <3>1, <3>2
  <2>. QED  BY <1>5, <2>4, <2>6, <2>8
<1>7. CASE ~IsBar(l)
  <2>1. \A key : l \notin LinesOf(key)
    BY <1>7 DEF LinesOf, BarLines
  <2>2. bars' = bars
    BY <1>1, <1>7 DEF Show, IsBar
  <2>3. ASSUME NEW key \in Range(KeyOf)
        PROVE  \E own : own = Only(Taken', LinesOf(key)) /\ BarShows(key, own)'
    <3>1. PICK own : own = Only(Taken, LinesOf(key)) /\ BarShows(key, own)
      BY <1>3
    <3>2. own = Only(Taken', LinesOf(key))
      BY <1>4, <2>1, <3>1
    <3>. QED  BY <2>2, <3>1, <3>2 DEF BarShows, BarOf
  <2>4. printed' = StatusesOf(Only(Taken', TextLines))
    <3>1. CASE l \in {Blank, Error}
      <4>1. printed' = printed
        BY <1>1, <1>7, <3>1 DEF Show, IsBar
      <4>2. l \notin TextLines
        BY <3>1 DEF TextLines
      <4>. QED  BY <1>3, <1>4, <4>1, <4>2
    <3>2. CASE l \notin {Blank, Error}
      <4>1. printed' = Append(printed, l.status)
        BY <1>1, <1>7, <3>2 DEF Show, IsBar
      <4>2. l \in TextLines
        BY <1>2, <1>7, <3>2 DEF TextLines, BarLines
      <4>. QED  BY <1>3, <1>4, <4>1, <4>2, StatusesGrow
    <3>. QED  BY <3>1, <3>2
  <2>. QED  BY <1>3, <1>5, <2>2, <2>3, <2>4
<1>. QED  BY <1>6, <1>7

-----------------------------------------------------------------------------
PullInv == StreamInv /\ ResponseInv /\ BarsInv

LEMMA WritesKeep ==
  ASSUME PullInv, (\E l \in Lines : Reports(l)) \/ Succeeds \/ ReportsError
  PROVE  PullInv'
<1>1. PICK l \in Written, next \in {"sending", "succeeded", "failed"} :
        (l = Error <=> next = "failed") /\ Write(l, next)
  <2>1. ASSUME NEW l \in Lines, Reports(l)
        PROVE  l \in Written /\ l # Error /\ Write(l, "sending")
    BY <2>1, ErrorIsNoReport DEF Reports
  <2>2. ASSUME Succeeds
        PROVE  Text(Success) \in Written /\ Text(Success) # Error /\ Write(Text(Success), "succeeded")
    BY <2>2, ErrorIsNoReport DEF Succeeds
  <2>3. ASSUME ReportsError
        PROVE  Error \in Written /\ Write(Error, "failed")
    BY <2>3, ErrorIsNoReport DEF ReportsError
  <2>. QED  BY <2>1, <2>2, <2>3
<1>2. StreamInv' /\ Taken' = Taken /\ UNCHANGED <<reader, stage, shown>>
  BY <1>1, WriteKeeps DEF PullInv
<1>3. ResponseInv' /\ BarsInv'
  BY <1>2, ShownKeeps DEF PullInv
<1>. QED  BY <1>2, <1>3 DEF PullInv

\* A step that neither writes nor takes a line.
LEMMA QuietSteps ==
  ASSUME PullInv, Dies \/ Post \/ End \/ UNCHANGED pullVars
  PROVE  PullInv'
<1>1. UNCHANGED <<reader, sent, read, shown>>
  BY DEF Dies, Post, End, pullVars
<1>2. StreamInv /\ sent' = sent /\ read' = read /\ reader' = reader
  BY <1>1 DEF PullInv
<1>3. StreamInv' /\ (stage' = "unavailable" <=> stage = "unavailable")
  <2>1. CASE Dies
    BY <1>2, <2>1 DEF Dies, StreamInv
  <2>2. CASE Post
    BY <1>2, <2>2 DEF Post, StreamInv
  <2>3. CASE End
    BY <1>2, <2>3 DEF End, StreamInv
  <2>4. CASE UNCHANGED pullVars
    BY <2>4, <1>2 DEF pullVars, StreamInv
  <2>. QED  BY <2>1, <2>2, <2>3, <2>4
<1>4. Taken' = Taken
  BY <1>1 DEF Taken
<1>5. ResponseInv' /\ BarsInv'
  BY <1>1, <1>3, <1>4, ShownKeeps DEF PullInv
<1>. QED  BY <1>3, <1>5 DEF PullInv

LEMMA ReadKeeps ==
  ASSUME PullInv, Read
  PROVE  PullInv'
<1>0. StreamInv /\ ResponseInv /\ BarsInv
  BY DEF PullInv
<1>1. /\ stage = "read" /\ stage' = "read" /\ read < Len(sent) /\ read' = read + 1
      /\ reader' = reader /\ ollama' = ollama /\ sent' = sent
  BY DEF Read
<1>2. read' \in 0..Len(sent')
  BY <1>0, <1>1 DEF StreamInv
<1>3. StreamInv'
  BY <1>0, <1>1, <1>2 DEF StreamInv
<1>4. CASE reader = "agentd"
  <2>1. ResponseInv'
    BY <1>0, <1>4, RelayKeeps
  <2>2. bars' = bars
    BY <1>4 DEF Read, Relay, shown
  <2>3. BarsInv'
    BY <1>0, <1>1, <1>4, <2>2 DEF BarsInv, BarsFollowTheStream
  <2>. QED  BY <1>3, <2>1, <2>3 DEF PullInv
<1>5. CASE reader = "cli"
  <2>1. BarsInv'
    BY <1>0, <1>5, ShowKeeps
  <2>2. ResponseInv'
    BY <1>1, <1>5 DEF ResponseInv
  <2>. QED  BY <1>3, <2>1, <2>2 DEF PullInv
<1>. QED  BY <1>0, <1>4, <1>5 DEF StreamInv

LEMMA PullInductive == PullInv /\ [PullNext]_pullVars => PullInv'
<1>. SUFFICES ASSUME PullInv, [PullNext]_pullVars PROVE PullInv'
  OBVIOUS
<1>1. CASE (\E l \in Lines : Reports(l)) \/ Succeeds \/ ReportsError
  BY <1>1, WritesKeep
<1>2. CASE Dies \/ Post \/ End \/ UNCHANGED pullVars
  BY <1>2, QuietSteps
<1>3. CASE Ask
  BY <1>3, AskKeeps DEF PullInv
<1>4. CASE Read
  BY <1>4, ReadKeeps
<1>. QED  BY <1>1, <1>2, <1>3, <1>4 DEF PullNext, Reader

LEMMA PullSafety == PullInv => ClientLearnsOutcome /\ BarsFollowTheStream
<1>1. PullInv => BarsFollowTheStream
  BY DEF PullInv, BarsInv
<1>2. ASSUME PullInv, reader = "agentd", stage = "clean"
      PROVE  /\ Error \in Range(relayed) <=> ollama # "succeeded"
             /\ relayed = Only(sent, Written \ {Blank})
  <2>1. /\ read = Len(sent) /\ ollama \in {"succeeded", "failed"} /\ sent \in Seq(Written)
        /\ Error \in Range(sent) <=> ollama = "failed"
    BY <1>2 DEF PullInv, StreamInv
  <2>2. Taken = sent
    BY <2>1, SubSeqFull DEF Taken
  <2>. QED  BY <1>2, <2>1, <2>2 DEF PullInv, ResponseInv, NonBlank
<1>3. ASSUME PullInv, reader = "agentd", stage = "unavailable"
      PROVE  Error \in Range(relayed) /\ ollama # "succeeded"
  <2>1. relayed = <<Error>> /\ ollama \in {"idle", "gone"}
    BY <1>3 DEF PullInv, StreamInv, ResponseInv
  <2>. QED  BY <2>1 DEF Range
<1>. QED  BY <1>1, <1>2, <1>3 DEF ClientLearnsOutcome

\* A download from an Ollama that may stop at any moment.
PullSpec == PullInit /\ [][PullNext]_pullVars

\* agentd's POST /models/{id}/pull: for every stream of lines, a response that
\* ends properly has an error line exactly if Ollama has not got the model, and
\* has lost no line.
THEOREM ClientLearns == PullSpec => []ClientLearnsOutcome
BY StreamInit, PullInductive, PullSafety, PTL DEF PullSpec, PullInv

\* llm-max pull: for every stream of lines and all layers and keys, there is one
\* bar for each key, where its last line put it, and every other status is printed.
THEOREM BarsFollow == PullSpec => []BarsFollowTheStream
BY StreamInit, PullInductive, PullSafety, PTL DEF PullSpec, PullInv

-----------------------------------------------------------------------------
(* One process, whatever its work. *)

AdaptersInv ==
  /\ IInv /\ RunnerInv /\ ResultInv /\ PullInv
  /\ work = "ollama" => RatesInv

LEMMA AdaptersInvInit == AdaptersInit => AdaptersInv
BY InitIInv, RunnerInvInit, RatesInit, StreamInit
   DEF AdaptersInit, AdaptersInv, PullInv, BenchInit

LEMMA AdaptersInductive == AdaptersInv /\ [AdaptersNext]_adapterVars => AdaptersInv'
<1>. SUFFICES ASSUME AdaptersInv, [AdaptersNext]_adapterVars  PROVE AdaptersInv'
  OBVIOUS
<1>1. IInv'
  <2>1. [Next]_vars
    BY DEF AdaptersNext, adapterVars
  <2>. QED  BY <2>1, NextIInv DEF AdaptersInv
<1>2. PullInv'
  <2>1. [PullNext]_pullVars
    BY DEF AdaptersNext, adapterVars
  <2>. QED  BY <2>1, PullInductive DEF AdaptersInv
<1>3. work' = work
  BY DEF AdaptersNext, Does, adapterVars
<1>4. CASE work = "ollama"
  <2>1. [BenchNext]_benchVars
    BY <1>4 DEF AdaptersNext, Does, adapterVars
  <2>2. RunnerInv' /\ ResultInv' /\ RatesInv'
    BY <1>4, <2>1, BenchInductive, RatesInductive DEF AdaptersInv
  <2>. QED  BY <1>1, <1>2, <2>2 DEF AdaptersInv
<1>5. CASE work # "ollama"
  <2>1. [RunnerNext]_runnerVars
    BY <1>5 DEF AdaptersNext, Does, adapterVars, benchVars
  <2>2. RunnerInv' /\ ResultInv'
    BY <2>1, RunnerInductive, ResultInductive DEF AdaptersInv
  <2>. QED  BY <1>1, <1>2, <1>3, <1>5, <2>2 DEF AdaptersInv
<1>. QED  BY <1>4, <1>5

\* In every behaviour of a process, whatever its work: a scan reports all GPUs or
\* none and leaves no nvmlInit behind; a benchmark that succeeds was a full run;
\* the two readers of a download show it as it was.
THEOREM WorkIsSafe ==
  AdaptersSpec => [](/\ AllOrNone /\ ScansDoNotDisturb /\ InitsAreReturned
                     /\ SuccessIsAFullRun
                     /\ ClientLearnsOutcome /\ BarsFollowTheStream)
<1>1. AdaptersInv => /\ AllOrNone /\ ScansDoNotDisturb /\ InitsAreReturned
                     /\ SuccessIsAFullRun
                     /\ ClientLearnsOutcome /\ BarsFollowTheStream
  BY ReadsAll, RunnerSuccess, PullSafety DEF AdaptersInv, IInv
<1>. QED  BY <1>1, AdaptersInvInit, AdaptersInductive, PTL DEF AdaptersSpec

\* Of a process that benchmarks over Ollama, the mean rate it reports was
\* generated, whatever else the adapters can do.
THEOREM OllamaRateWasMeasured == AdaptersSpec => []OllamaRateIsMeasured
<1>1. AdaptersInv => OllamaRateIsMeasured
  BY RatesMeasured DEF AdaptersInv, OllamaRateIsMeasured
<1>. QED  BY <1>1, AdaptersInvInit, AdaptersInductive, PTL DEF AdaptersSpec
=============================================================================
