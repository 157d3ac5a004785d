-------------------------- MODULE StatusCache_proofs -------------------------
(***************************************************************************)
(* What is advised for a machine is what is done on it, for every catalog  *)
(* that passes its validation, every amount of memory and any number of    *)
(* commands, providers and changes; and what is shown of it was so lately. *)
(* The inductive invariant ScanInv says that every profile, under          *)
(* construction, cached or shown, is one that has a largest GPU if it has  *)
(* any: FreeVram means nothing without it.  TruthInv says since when each  *)
(* of these profiles may claim to be true: a scan's since it began, the    *)
(* cache entry's since MaxBusy + TTL before it expires.                    *)
(***************************************************************************)
EXTENDS StatusCache, TLAPS

\* The free VRAM of the largest GPU is a number, for every profile with a GPU.
LEMMA FreeVramType ==
  ASSUME NEW hw \in HardwareProfile, has_gpu(hw)
  PROVE  FreeVram(hw) \in Nat
<1>1. hw.gpus \in SUBSET Nat /\ \E free \in hw.gpus : IsLargest(free, hw.gpus)
  BY DEF HardwareProfile, has_gpu
<1>2. FreeVram(hw) \in hw.gpus
  BY <1>1 DEF FreeVram
<1> QED BY <1>1, <1>2

\* The requirements of a model that passed validation.
LEMMA ModelSpecType ==
  ASSUME NEW s \in ModelSpec
  PROVE  /\ s.min_vram_mb \in Nat /\ s.recommended_vram_mb \in Nat
         /\ s.min_ram_mb \in Nat
         /\ s.recommended_vram_mb >= s.min_vram_mb
BY DEF ModelSpec

\* The estimator and the config builder agree on every machine.
LEMMA TierIsContext ==
  ASSUME NEW s, NEW hw
  PROVE  TierMatchesContext(s, hw)
<1>1. CASE has_gpu(hw)
  BY <1>1 DEF TierMatchesContext, classify, _classify_gpu, build_run_config,
              GREAT_FIT, WILL_RUN, MAY_BE_SLOW, NOT_RECOMMENDED, GENEROUS_CTX,
              MODERATE_CTX, CONSERVATIVE_CTX, RuntimeDefault
<1>2. CASE ~has_gpu(hw)
  BY <1>2 DEF TierMatchesContext, classify, _classify_cpu_only, build_run_config,
              GREAT_FIT, WILL_RUN, MAY_BE_SLOW, NOT_RECOMMENDED, GENEROUS_CTX,
              MODERATE_CTX, CONSERVATIVE_CTX, RuntimeDefault
<1> QED BY <1>1, <1>2

\* More free VRAM never lowers the tier.
LEMMA GpuTierMonotone ==
  ASSUME NEW s \in ModelSpec, NEW f1 \in Nat, NEW f2 \in Nat, f1 <= f2
  PROVE  _classify_gpu(s, f2) <= _classify_gpu(s, f1)
<1> DEFINE lo  == s.min_vram_mb
           rec == s.recommended_vram_mb
<1>1. lo \in Nat /\ rec \in Nat /\ rec >= lo
  BY ModelSpecType
<1> QED BY <1>1 DEF _classify_gpu, GREAT_FIT, WILL_RUN, MAY_BE_SLOW, NOT_RECOMMENDED

\* Nor does more RAM, nor either of them the context size.
LEMMA FreeingHelps ==
  ASSUME NEW s \in ModelSpec, NEW hw1 \in HardwareProfile, NEW hw2 \in HardwareProfile
  PROVE  NeverWorse(s, hw1, hw2)
<1> SUFFICES ASSUME NoLessFree(hw1, hw2)
             PROVE  /\ classify(s, hw2) <= classify(s, hw1)
                    /\ build_run_config(s, hw2) >= build_run_config(s, hw1)
  BY DEF NeverWorse
<1> DEFINE lo  == s.min_vram_mb
           rec == s.recommended_vram_mb
           need == s.min_ram_mb
<1>1. lo \in Nat /\ rec \in Nat /\ rec >= lo /\ need \in Nat
  BY ModelSpecType
<1>2. CASE has_gpu(hw1)
  <2> DEFINE f1 == FreeVram(hw1)
             f2 == FreeVram(hw2)
  <2>1. has_gpu(hw2) /\ f1 \in Nat /\ f2 \in Nat /\ f1 <= f2
    BY <1>2, FreeVramType DEF NoLessFree
  <2>2. classify(s, hw2) <= classify(s, hw1)
    BY <1>2, <2>1, GpuTierMonotone DEF classify
  <2> HIDE DEF f1, f2
  <2>3. (IF f2 >= rec THEN 4096 ELSE IF f2 >= lo THEN 2048 ELSE 1024)
          >= (IF f1 >= rec THEN 4096 ELSE IF f1 >= lo THEN 2048 ELSE 1024)
    BY <1>1, <2>1
  <2>4. build_run_config(s, hw2) >= build_run_config(s, hw1)
    BY <1>2, <2>1, <2>3 DEF build_run_config, f1, f2, GENEROUS_CTX, MODERATE_CTX,
                            CONSERVATIVE_CTX
  <2> QED BY <2>2, <2>4
<1>3. CASE ~has_gpu(hw1)
  <2>1. ~has_gpu(hw2) /\ hw1.available_ram_mb <= hw2.available_ram_mb
    BY <1>3 DEF NoLessFree
  <2>2. hw1.available_ram_mb \in Nat /\ hw2.available_ram_mb \in Nat
    BY DEF HardwareProfile
  <2>3. _classify_cpu_only(s, hw2.available_ram_mb)
          <= _classify_cpu_only(s, hw1.available_ram_mb)
    BY <1>1, <2>1, <2>2 DEF _classify_cpu_only, CPU_ONLY_RAM_HEADROOM_MB,
                            MAY_BE_SLOW, NOT_RECOMMENDED
  <2> QED BY <1>3, <2>1, <2>3 DEF classify, build_run_config, RuntimeDefault
<1> QED BY <1>2, <1>3

-----------------------------------------------------------------------------
\* The GPUs of two providers together have a largest one.
LEMMA UnionHasLargest ==
  ASSUME NEW hw1 \in HardwareProfile, NEW hw2 \in HardwareProfile, NEW ram1 \in Nat
  PROVE  [gpus |-> hw1.gpus \cup hw2.gpus, available_ram_mb |-> ram1] \in HardwareProfile
<1> DEFINE G1 == hw1.gpus
           G2 == hw2.gpus
<1>1. /\ G1 \in SUBSET Nat /\ G2 \in SUBSET Nat
      /\ G1 # {} => \E free \in G1 : IsLargest(free, G1)
      /\ G2 # {} => \E free \in G2 : IsLargest(free, G2)
  BY DEF HardwareProfile
<1> HIDE DEF G1, G2
<1>2. ASSUME G1 \cup G2 # {}
      PROVE  \E free \in G1 \cup G2 : IsLargest(free, G1 \cup G2)
  <2>1. CASE G1 = {}
    BY <1>1, <1>2, <2>1 DEF IsLargest
  <2>2. CASE G2 = {}
    BY <1>1, <1>2, <2>2 DEF IsLargest
  <2>3. CASE G1 # {} /\ G2 # {}
    <3>1. PICK f1 \in G1 : IsLargest(f1, G1)
      BY <1>1, <2>3
    <3>2. PICK f2 \in G2 : IsLargest(f2, G2)
      BY <1>1, <2>3
    <3>3. f1 \in Nat /\ f2 \in Nat /\ \A g \in G1 \cup G2 : g \in Nat
      BY <1>1
    <3>4. CASE f1 <= f2
      BY <3>1, <3>2, <3>3, <3>4 DEF IsLargest
    <3>5. CASE f2 <= f1
      BY <3>1, <3>2, <3>3, <3>5 DEF IsLargest
    <3> QED BY <3>3, <3>4, <3>5
  <2> QED BY <2>1, <2>2, <2>3
<1>3. [gpus |-> G1 \cup G2, available_ram_mb |-> ram1]
        \in [gpus : SUBSET Nat, available_ram_mb : Nat]
  BY <1>1
<1> QED BY <1>2, <1>3 DEF HardwareProfile, G1, G2

\* A provider adding its GPUs to a profile makes a profile.
LEMMA WithGpus ==
  ASSUME NEW hw \in HardwareProfile, NEW g,
         [gpus |-> g, available_ram_mb |-> 0] \in HardwareProfile
  PROVE  [hw EXCEPT !.gpus = @ \cup g] \in HardwareProfile
<1> DEFINE found == [gpus |-> g, available_ram_mb |-> 0]
           both  == [hw EXCEPT !.gpus = @ \cup g]
<1>1. hw \in [gpus : SUBSET Nat, available_ram_mb : Nat] /\ found.gpus = g
  BY DEF HardwareProfile
<1>2. [gpus |-> hw.gpus \cup found.gpus, available_ram_mb |-> 0] \in HardwareProfile
  BY UnionHasLargest
<1>3. /\ hw.gpus \cup g \in SUBSET Nat
      /\ hw.gpus \cup g # {} =>
           \E free \in hw.gpus \cup g : IsLargest(free, hw.gpus \cup g)
  BY <1>1, <1>2 DEF HardwareProfile
<1>4. both.gpus = hw.gpus \cup g /\ both \in [gpus : SUBSET Nat, available_ram_mb : Nat]
  BY <1>1, <1>3
<1> HIDE DEF both
<1>5. both \in HardwareProfile
  BY <1>3, <1>4 DEF HardwareProfile
<1> QED BY <1>5 DEF both

\* Reading the RAM changes nothing about the GPUs.
LEMMA WithRam ==
  ASSUME NEW hw \in HardwareProfile, NEW ram1 \in Nat
  PROVE  [hw EXCEPT !.available_ram_mb = ram1] \in HardwareProfile
BY DEF HardwareProfile

\* Every profile is one that a machine can have.
ScanInv ==
  /\ vram \in [Providers -> GpuStates] /\ ram \in RamStates
  /\ profile \in [Procs -> HardwareProfile]
  /\ cache # Miss => cache.profile \in HardwareProfile

\* An empty scan is a profile without a GPU.
LEMMA NoScanType == NoScan \in HardwareProfile
BY DEF NoScan, HardwareProfile

\* No step makes a profile that is not one.
LEMMA ScanInvIsInductive == ScanInv /\ [Next]_vars => ScanInv'
<1> SUFFICES ASSUME ScanInv, [Next]_vars PROVE ScanInv'
  OBVIOUS
<1> USE DEF ScanInv
<1>1. ASSUME NEW p \in Procs, StartStatus(p) PROVE ScanInv'
  BY <1>1 DEF StartStatus, machine, Go
<1>2. ASSUME NEW p \in Procs, StartScan(p) PROVE ScanInv'
  BY <1>2, NoScanType DEF StartScan, BeginScan, machine
<1>3. ASSUME NEW p \in Procs, GetLastScan(p) PROVE ScanInv'
  <2>1. CASE Hit
    BY <1>3, <2>1 DEF GetLastScan, Hit, machine
  <2>2. CASE ~Hit
    BY <1>3, <2>2, NoScanType DEF GetLastScan, BeginScan, machine
  <2> QED BY <2>1, <2>2
<1>4. ASSUME NEW p \in Procs, NEW v \in Providers, AskProvider(p, v) PROVE ScanInv'
  <2>1. CASE UNCHANGED profile
    BY <1>4, <2>1 DEF AskProvider, machine
  <2>2. CASE profile' = [profile EXCEPT ![p].gpus = @ \cup vram[v]]
    <3>1. vram[v] \in GpuStates
      OBVIOUS
    <3>2. [gpus |-> vram[v], available_ram_mb |-> 0] \in HardwareProfile
      BY <3>1, DataAssumption
    <3>3. [profile[p] EXCEPT !.gpus = @ \cup vram[v]] \in HardwareProfile
      BY <3>2, WithGpus
    <3>4. profile' \in [Procs -> HardwareProfile]
      BY <2>2, <3>3
    <3> QED BY <1>4, <3>4 DEF AskProvider, machine
  <2> QED BY <1>4, <2>1, <2>2 DEF AskProvider
<1>5. ASSUME NEW p \in Procs, ReadRam(p) PROVE ScanInv'
  <2>1. ram \in Nat
    BY DataAssumption
  <2>2. [profile[p] EXCEPT !.available_ram_mb = ram] \in HardwareProfile
    BY <2>1, WithRam
  <2>3. profile' \in [Procs -> HardwareProfile]
    BY <1>5, <2>2 DEF ReadRam
  <2> QED BY <1>5, <2>3 DEF ReadRam, machine
<1>6. ASSUME NEW p \in Procs, SetLastScan(p) PROVE ScanInv'
  BY <1>6 DEF SetLastScan, machine
<1>7. ASSUME NEW p \in Procs, Show(p) PROVE ScanInv'
  BY <1>7, NoScanType DEF Show, machine
<1>12. ASSUME NEW p \in Procs, GetFails(p) PROVE ScanInv'
  BY <1>12, NoScanType DEF GetFails, BeginScan, machine
<1>13. ASSUME NEW p \in Procs, SetFails(p) PROVE ScanInv'
  BY <1>13 DEF SetFails, machine
<1>8. ASSUME HardwareChanges PROVE ScanInv'
  <2>1. vram' \in [Providers -> GpuStates] /\ ram' \in RamStates
    BY <1>8 DEF HardwareChanges
  <2> QED BY <1>8, <2>1 DEF HardwareChanges, local
<1>9. ASSUME RedisRestarts PROVE ScanInv'
  BY <1>9 DEF RedisRestarts, machine, local
<1>10. ASSUME Tick PROVE ScanInv'
  BY <1>10 DEF Tick, local
<1>11. ASSUME UNCHANGED vars PROVE ScanInv'
  BY <1>11 DEF vars, machine, local
<1> QED BY <1>1, <1>2, <1>3, <1>4, <1>5, <1>6, <1>7, <1>8, <1>9, <1>10, <1>11,
           <1>12, <1>13 DEF Next, Step, Local

\* Whatever is shown, by any command at any time, is a profile for which the
\* advice is well-defined.
THEOREM ProfilesAreReal == Spec => []ScanInv
<1>1. Init => ScanInv
  <2> SUFFICES ASSUME Init PROVE ScanInv
    OBVIOUS
  <2>1. profile \in [Procs -> HardwareProfile]
    BY NoScanType DEF Init
  <2> QED BY <2>1 DEF Init, ScanInv
<1> QED BY <1>1, ScanInvIsInductive, PTL DEF Spec

\* The tier that `models` prints for the profile shown and the context size that
\* `run` asks for on it never contradict each other.
THEOREM AdviceIsFollowed == Spec => []AdviceMatchesRun
<1>1. AdviceMatchesRun
  BY TierIsContext DEF AdviceMatchesRun
<1> QED BY <1>1, PTL

\* Advice from a stale profile errs in one direction only: if the machine has no
\* less free than shown, every model fits at least as well as was said.
THEOREM StaleAdvice == Spec => []StaleAdviceIsOneSided
<1>1. ScanInv => StaleAdviceIsOneSided
  <2> SUFFICES ASSUME ScanInv, NEW p \in Procs, NEW s \in Catalog
               PROVE  NeverWorse(s, profile[p], Now) /\ NeverWorse(s, Now, profile[p])
    BY DEF StaleAdviceIsOneSided
  <2>1. s \in ModelSpec /\ profile[p] \in HardwareProfile
    BY DataAssumption DEF ScanInv
  <2>2. Now \in HardwareProfile
    <3> DEFINE free == UNION {vram[w] : w \in Providers}
    <3>1. [gpus |-> free, available_ram_mb |-> 0] \in HardwareProfile
      BY DataAssumption DEF ScanInv
    <3>2. ram \in Nat
      BY DataAssumption DEF ScanInv
    <3> HIDE DEF free
    <3>3. [gpus |-> free, available_ram_mb |-> ram] \in HardwareProfile
      BY <3>1, <3>2 DEF HardwareProfile
    <3> QED BY <3>3 DEF Now, free
  <2> QED BY <2>1, <2>2, FreeingHelps
<1> QED BY <1>1, ProfilesAreReal, PTL

-----------------------------------------------------------------------------
(* ShownWasTrue: what a profile was true of, followed from the call of the  *)
(* provider to the screen, by way of the cache or not.                       *)

\* The GPUs are those of some of the providers in asked1, each as it was no
\* earlier than since, by the stamps at.
Found(at, gpus, since, asked1) ==
  \E part \in [Providers -> GpuStates \cup {{}}] :
    /\ gpus = UNION {part[v] : v \in Providers}
    /\ \A v \in Providers : part[v] # {} => v \in asked1 /\ since <= at[v][part[v]]

\* The whole profile was true no earlier than since.
FoundAll(at, ramAt1, hw, since) ==
  /\ Found(at, hw.gpus, since, Providers)
  /\ hw.available_ram_mb \in RamStates /\ since <= ramAt1[hw.available_ram_mb]

\* The stamps: the state that the hardware is in bears the present time, and no
\* state a later one.
StampInv ==
  /\ clock \in Nat
  /\ vramAt \in [Providers -> [GpuStates -> Int]] /\ ramAt \in [RamStates -> Int]
  /\ \A v \in Providers, g \in GpuStates : vramAt[v][g] <= clock
  /\ \A r \in RamStates : ramAt[r] <= clock
  /\ \A v \in Providers : vramAt[v][vram[v]] = clock
  /\ ramAt[ram] = clock

\* The shape of what the commands keep.
CommandInv ==
  /\ pc \in [Procs -> {"idle", "get", "gpus", "set", "show"}]
  /\ asked \in [Procs -> SUBSET Providers]
  /\ began \in [Procs -> Nat]

\* A scan that is under way is not an old one, and what it has found so far was
\* so since it began; what is shown was so lately.
CommandTrue(p) ==
  /\ pc[p] \in {"gpus", "set"} => began[p] <= clock /\ clock <= began[p] + MaxBusy
  /\ pc[p] = "gpus" => Found(vramAt, profile[p].gpus, began[p], asked[p])
  /\ pc[p] = "set" => FoundAll(vramAt, ramAt, profile[p], began[p])
  /\ pc[p] = "show" => FoundAll(vramAt, ramAt, profile[p], clock - TTL - MaxBusy)

\* What is cached was so lately enough to be shown until it expires.
CachedInv ==
  cache # Miss => /\ cache.expires \in Nat
                  /\ FoundAll(vramAt, ramAt, cache.profile, cache.expires - TTL - MaxBusy)

TruthInv ==
  /\ ScanInv /\ StampInv /\ CommandInv /\ CachedInv
  /\ \A p \in Procs : CommandTrue(p)

\* Stamps only grow.
Later(at, at2, ramAt1, ramAt2) ==
  /\ \A v \in Providers, g \in GpuStates : at[v][g] <= at2[v][g]
  /\ \A r \in RamStates : ramAt1[r] <= ramAt2[r]

\* What was found so since a time was found so since any earlier one, ...
LEMMA FoundLater ==
  ASSUME NEW at \in [Providers -> [GpuStates -> Int]], NEW at2 \in [Providers -> [GpuStates -> Int]],
         \A v \in Providers, g \in GpuStates : at[v][g] <= at2[v][g],
         NEW since \in Int, NEW since2 \in Int, since2 <= since,
         NEW A, NEW A2, A \subseteq A2, NEW gpus, Found(at, gpus, since, A)
  PROVE  Found(at2, gpus, since2, A2)
<1>1. PICK part \in [Providers -> GpuStates \cup {{}}] :
        /\ gpus = UNION {part[v] : v \in Providers}
        /\ \A v \in Providers : part[v] # {} => v \in A /\ since <= at[v][part[v]]
  BY DEF Found
<1>2. ASSUME NEW v \in Providers, part[v] # {}
      PROVE  v \in A2 /\ since2 <= at2[v][part[v]]
  <2>1. part[v] \in GpuStates /\ v \in A /\ since <= at[v][part[v]]
    BY <1>1, <1>2
  <2>2. at[v][part[v]] \in Int /\ at2[v][part[v]] \in Int /\ at[v][part[v]] <= at2[v][part[v]]
    BY <2>1
  <2>. QED  BY <2>1, <2>2
<1>. QED  BY <1>1, <1>2 DEF Found

LEMMA FoundAllLater ==
  ASSUME NEW at \in [Providers -> [GpuStates -> Int]], NEW at2 \in [Providers -> [GpuStates -> Int]],
         NEW ramAt1 \in [RamStates -> Int], NEW ramAt2 \in [RamStates -> Int],
         Later(at, at2, ramAt1, ramAt2),
         NEW since \in Int, NEW since2 \in Int, since2 <= since,
         NEW hw, FoundAll(at, ramAt1, hw, since)
  PROVE  FoundAll(at2, ramAt2, hw, since2)
<1>1. Found(at2, hw.gpus, since2, Providers)
  BY FoundLater DEF FoundAll, Later
<1>2. hw.available_ram_mb \in RamStates /\ since2 <= ramAt2[hw.available_ram_mb]
  <2>. DEFINE r == hw.available_ram_mb
  <2>1. r \in RamStates /\ since <= ramAt1[r]
    BY DEF FoundAll
  <2>2. ramAt1[r] \in Int /\ ramAt2[r] \in Int /\ ramAt1[r] <= ramAt2[r]
    BY <2>1 DEF Later
  <2>. QED  BY <2>1, <2>2
<1>. QED  BY <1>1, <1>2 DEF FoundAll

\* ... and what a provider adds to it is there at the moment it is asked.
LEMMA FoundMore ==
  ASSUME NEW at \in [Providers -> [GpuStates -> Int]], NEW since \in Int, NEW A,
         NEW gpus, Found(at, gpus, since, A),
         NEW v \in Providers \ A, NEW g \in GpuStates, since <= at[v][g]
  PROVE  Found(at, gpus \cup g, since, A \cup {v})
<1>1. PICK part \in [Providers -> GpuStates \cup {{}}] :
        /\ gpus = UNION {part[w] : w \in Providers}
        /\ \A w \in Providers : part[w] # {} => w \in A /\ since <= at[w][part[w]]
  BY DEF Found
<1>. DEFINE more == [part EXCEPT ![v] = g]
<1>2. /\ more \in [Providers -> GpuStates \cup {{}}] /\ more[v] = g /\ part[v] = {}
      /\ \A w \in Providers \ {v} : more[w] = part[w]
  BY <1>1
<1>. HIDE DEF more
<1>3. gpus \cup g = UNION {more[w] : w \in Providers}
  <2>1. ASSUME NEW x \in gpus \cup g  PROVE \E w \in Providers : x \in more[w]
    <3>1. CASE x \in g
      BY <1>2, <3>1
    <3>2. CASE x \in gpus
      <4>1. PICK w \in Providers : x \in part[w]
        BY <1>1, <3>2
      <4>2. w # v
        BY <1>2, <4>1
      <4>. QED  BY <1>2, <4>1, <4>2
    <3>. QED  BY <3>1, <3>2
  <2>2. ASSUME NEW w \in Providers, NEW x \in more[w]  PROVE x \in gpus \cup g
    BY <1>1, <1>2, <2>2
  <2>. QED  BY <2>1, <2>2
<1>4. \A w \in Providers : more[w] # {} => w \in A \cup {v} /\ since <= at[w][more[w]]
  BY <1>1, <1>2
<1>. QED  BY <1>2, <1>3, <1>4 DEF Found

\* A scan that has asked nobody has found nothing.
LEMMA FoundNothing ==
  ASSUME NEW at, NEW since, NEW A
  PROVE  Found(at, {}, since, A)
<1>. DEFINE part == [v \in Providers |-> {}]
<1>1. part \in [Providers -> GpuStates \cup {{}}]
  OBVIOUS
<1>2. {} = UNION {part[v] : v \in Providers}
  OBVIOUS
<1>3. \A v \in Providers : part[v] = {}
  OBVIOUS
<1>. HIDE DEF part
<1>. QED  BY <1>1, <1>2, <1>3 DEF Found

\* Stamping the state that the hardware is in, or goes to, keeps the stamps.
LEMMA Stamped ==
  ASSUME ScanInv, ScanInv', StampInv, NEW t \in Nat, clock <= t, clock' = t,
         Stamp(vram', ram', t)
  PROVE  StampInv' /\ Later(vramAt, vramAt', ramAt, ramAt')
<1>1. /\ vramAt' = [w \in Providers |-> [vramAt[w] EXCEPT ![vram'[w]] = t]]
      /\ ramAt' = [ramAt EXCEPT ![ram'] = t]
      /\ \A w \in Providers : vram'[w] \in GpuStates
      /\ ram' \in RamStates
  BY DEF Stamp, ScanInv
<1>2. ASSUME NEW w \in Providers
      PROVE  /\ vramAt'[w] \in [GpuStates -> Int] /\ vramAt'[w][vram'[w]] = t
             /\ \A g \in GpuStates : vramAt[w][g] <= vramAt'[w][g] /\ vramAt'[w][g] <= t
  <2>1. vramAt[w] \in [GpuStates -> Int] /\ \A g \in GpuStates : vramAt[w][g] <= t
    <3>1. clock \in Nat /\ \A g \in GpuStates : vramAt[w][g] \in Int /\ vramAt[w][g] <= clock
      BY DEF StampInv
    <3>. QED  BY <3>1 DEF StampInv
  <2>2. vramAt'[w] = [vramAt[w] EXCEPT ![vram'[w]] = t]
    BY <1>1
  <2>. QED  BY <1>1, <2>1, <2>2
<1>3. /\ ramAt' \in [RamStates -> Int] /\ ramAt'[ram'] = t
      /\ \A r \in RamStates : ramAt[r] <= ramAt'[r] /\ ramAt'[r] <= t
  <2>1. ramAt \in [RamStates -> Int] /\ \A r \in RamStates : ramAt[r] <= t
    <3>1. clock \in Nat /\ \A r \in RamStates : ramAt[r] \in Int /\ ramAt[r] <= clock
      BY DEF StampInv
    <3>. QED  BY <3>1 DEF StampInv
  <2>. QED  BY <1>1, <2>1
<1>4. vramAt' \in [Providers -> [GpuStates -> Int]]
  BY <1>1, <1>2
<1>. QED  BY <1>2, <1>3, <1>4 DEF StampInv, Later

\* Every step keeps the stamps.
LEMMA StampStep ==
  ASSUME ScanInv, StampInv, [Next]_vars
  PROVE  /\ StampInv' /\ Later(vramAt, vramAt', ramAt, ramAt')
         /\ Tick \/ clock' = clock
<1>1. ScanInv'
  BY ScanInvIsInductive
<1>2. CASE HardwareChanges
  <2>1. clock \in Nat /\ clock <= clock /\ clock' = clock
    BY <1>2 DEF StampInv, HardwareChanges
  <2>. QED  BY <1>1, <1>2, <2>1, Stamped DEF HardwareChanges
<1>3. CASE Tick
  <2>1. clock + 1 \in Nat /\ clock <= clock + 1 /\ clock' = clock + 1
    BY <1>3 DEF StampInv, Tick
  <2>2. Stamp(vram', ram', clock + 1)
    BY <1>3 DEF Tick
  <2>. QED  BY <1>1, <1>3, <2>1, <2>2, Stamped
<1>4. CASE UNCHANGED <<machine, clock>>
  <2>1. UNCHANGED <<vram, ram, vramAt, ramAt, clock>>
    BY <1>4 DEF machine
  <2>2. Later(vramAt, vramAt', ramAt, ramAt')
    BY <2>1 DEF StampInv, Later
  <2>. QED  BY <2>1, <2>2 DEF StampInv
<1>. QED
  BY <1>2, <1>3, <1>4
     DEF Next, Step, Local, StartStatus, StartScan, GetLastScan, GetFails, SetFails,
         AskProvider, ReadRam, SetLastScan, Show,
         RedisRestarts, vars

\* A command that does not move is as true as it was; time passes only as far as
\* its scan may take.
LEMMA Unmoved ==
  ASSUME StampInv, StampInv', CommandInv, Later(vramAt, vramAt', ramAt, ramAt'),
         NEW q \in Procs, CommandTrue(q),
         pc'[q] = pc[q], profile'[q] = profile[q], asked'[q] = asked[q], began'[q] = began[q],
         Tick \/ clock' = clock
  PROVE  CommandTrue(q)'
<1>1. /\ clock \in Nat /\ began[q] \in Nat /\ MaxBusy \in Nat /\ TTL \in Nat
      /\ vramAt \in [Providers -> [GpuStates -> Int]] /\ ramAt \in [RamStates -> Int]
      /\ vramAt' \in [Providers -> [GpuStates -> Int]] /\ ramAt' \in [RamStates -> Int]
      /\ \A v \in Providers, g \in GpuStates : vramAt[v][g] <= vramAt'[v][g]
      /\ began[q] \in Int /\ began[q] <= began[q] /\ asked[q] \subseteq asked[q]
  BY TimeAssumption DEF StampInv, CommandInv, Later
<1>2. ASSUME pc[q] \in {"gpus", "set"}
      PROVE  began[q] <= clock' /\ clock' <= began[q] + MaxBusy
  <2>1. began[q] <= clock /\ clock <= began[q] + MaxBusy
    BY <1>2 DEF CommandTrue
  <2>2. CASE Tick
    <3>1. clock - began[q] < MaxBusy /\ clock' = clock + 1
      BY <1>2, <2>2 DEF Tick
    <3>. QED  BY <1>1, <2>1, <3>1
  <2>. QED  BY <2>1, <2>2
<1>3. ASSUME pc[q] = "gpus"
      PROVE  Found(vramAt', profile[q].gpus, began[q], asked[q])
  <2>. DEFINE G == profile[q].gpus
              A == asked[q]
              b == began[q]
  <2>1. Found(vramAt, G, b, A) /\ b \in Int /\ b <= b /\ A \subseteq A
    BY <1>1, <1>3 DEF CommandTrue
  <2>. HIDE DEF G, A, b
  <2>2. Found(vramAt', G, b, A)
    BY <1>1, <2>1, FoundLater
  <2>. QED  BY <2>2 DEF G, A, b
<1>4. ASSUME pc[q] = "set"
      PROVE  FoundAll(vramAt', ramAt', profile[q], began[q])
  <2>1. FoundAll(vramAt, ramAt, profile[q], began[q])
    BY <1>4 DEF CommandTrue
  <2>. QED  BY <1>1, <2>1, FoundAllLater
<1>5. ASSUME pc[q] = "show"
      PROVE  FoundAll(vramAt', ramAt', profile[q], clock' - TTL - MaxBusy)
  <2>. DEFINE since == clock - TTL - MaxBusy
  <2>1. clock' = clock
    BY <1>5 DEF Tick
  <2>2. since \in Int /\ since <= since
    BY <1>1
  <2>3. FoundAll(vramAt, ramAt, profile[q], since)
    BY <1>5 DEF CommandTrue
  <2>. HIDE DEF since
  <2>4. FoundAll(vramAt', ramAt', profile[q], since)
    BY <1>1, <2>2, <2>3, FoundAllLater
  <2>. QED  BY <2>1, <2>4 DEF since
<1>. QED  BY <1>2, <1>3, <1>4, <1>5 DEF CommandTrue

\* The command that moves is true when its step is taken: a scan that begins has
\* found nothing, a provider and psutil tell what is so now, and a profile that is
\* shown is a scan's of MaxBusy ago or one whose entry has not expired.
LEMMA Moved ==
  ASSUME ScanInv, StampInv, CommandInv, CachedInv, NEW p \in Procs, CommandTrue(p),
         StartStatus(p) \/ StartScan(p) \/ Step(p)
  PROVE  CommandTrue(p)' /\ CommandInv'
<1>1. /\ clock \in Nat /\ began[p] \in Nat /\ MaxBusy \in Nat /\ TTL \in Nat
      /\ vramAt \in [Providers -> [GpuStates -> Int]] /\ ramAt \in [RamStates -> Int]
      /\ asked[p] \in SUBSET Providers /\ pc[p] \in {"idle", "get", "gpus", "set", "show"}
      /\ profile \in [Procs -> HardwareProfile]
  BY TimeAssumption DEF StampInv, CommandInv, ScanInv
<1>2. UNCHANGED <<vramAt, ramAt, clock>>
  BY DEF Step, Local, StartStatus, StartScan, GetLastScan, GetFails, AskProvider, ReadRam,
         SetLastScan, SetFails, Show, machine
<1>3. ASSUME NEW l, Go(p, l)  PROVE pc'[p] = l
  BY <1>3 DEF Go, CommandInv
<1>4. ASSUME NEW l \in {"idle", "get", "gpus", "set", "show"}, Go(p, l)
      PROVE  pc' \in [Procs -> {"idle", "get", "gpus", "set", "show"}]
  BY <1>4 DEF Go, CommandInv
<1>5. ASSUME NEW hw, NEW since \in Int, since >= clock - TTL - MaxBusy,
             FoundAll(vramAt, ramAt, hw, since)
      PROVE  FoundAll(vramAt, ramAt, hw, clock - TTL - MaxBusy)
  <2>. DEFINE lately == clock - TTL - MaxBusy
  <2>1. lately \in Int /\ lately <= since
    BY <1>1, <1>5
  <2>2. Later(vramAt, vramAt, ramAt, ramAt)
    BY <1>1 DEF Later
  <2>. HIDE DEF lately
  <2>3. FoundAll(vramAt, ramAt, hw, lately)
    BY <1>1, <1>5, <2>1, <2>2, FoundAllLater
  <2>. QED  BY <2>3 DEF lately
<1>6. CASE StartStatus(p) \/ Show(p)
  <2>1. \E l \in {"get", "idle"} : Go(p, l)
    BY <1>6 DEF StartStatus, Show
  <2>2. asked' \in [Procs -> SUBSET Providers] /\ began' \in [Procs -> Nat]
    BY <1>6 DEF StartStatus, Show, CommandInv
  <2>. QED  BY <1>3, <1>4, <2>1, <2>2 DEF CommandTrue, CommandInv
<1>7. CASE BeginScan(p) /\ clock' = clock
  <2>1. /\ Go(p, "gpus") /\ asked' = [asked EXCEPT ![p] = {}]
        /\ profile' = [profile EXCEPT ![p] = NoScan] /\ began' = [began EXCEPT ![p] = clock]
    BY <1>7 DEF BeginScan
  <2>2. /\ asked'[p] = {} /\ profile'[p] = NoScan /\ began'[p] = clock /\ pc'[p] = "gpus"
    BY <1>1, <1>3, <2>1 DEF CommandInv
  <2>3. Found(vramAt', profile'[p].gpus, began'[p], asked'[p])
    BY <2>2, FoundNothing DEF NoScan
  <2>4. asked' \in [Procs -> SUBSET Providers] /\ began' \in [Procs -> Nat]
    BY <1>1, <2>1 DEF CommandInv
  <2>5. began'[p] <= clock' /\ clock' <= began'[p] + MaxBusy
    BY <1>1, <1>2, <2>2
  <2>. QED  BY <1>4, <2>1, <2>2, <2>3, <2>4, <2>5 DEF CommandTrue, CommandInv
<1>8. CASE GetLastScan(p) /\ Hit
  <2>1. /\ Go(p, "show") /\ profile' = [profile EXCEPT ![p] = cache.profile]
        /\ UNCHANGED <<asked, began>>
    BY <1>8 DEF GetLastScan
  <2>2. /\ cache.expires \in Nat /\ clock < cache.expires
        /\ FoundAll(vramAt, ramAt, cache.profile, cache.expires - TTL - MaxBusy)
    BY <1>8 DEF Hit, CachedInv
  <2>3. FoundAll(vramAt, ramAt, cache.profile, clock - TTL - MaxBusy)
    <3>. DEFINE since == cache.expires - TTL - MaxBusy
    <3>1. since \in Int /\ since >= clock - TTL - MaxBusy
      BY <1>1, <2>2
    <3>. HIDE DEF since
    <3>2. FoundAll(vramAt, ramAt, cache.profile, since)
      BY <2>2 DEF since
    <3>. QED  BY <1>5, <3>1, <3>2
  <2>4. pc'[p] = "show" /\ profile'[p] = cache.profile
    BY <1>1, <1>3, <2>1
  <2>5. FoundAll(vramAt', ramAt', profile'[p], clock' - TTL - MaxBusy)
    BY <1>2, <2>3, <2>4
  <2>6. CommandTrue(p)'
    BY <2>4, <2>5 DEF CommandTrue
  <2>7. CommandInv'
    BY <1>4, <2>1 DEF CommandInv
  <2>. QED  BY <2>6, <2>7
<1>9. ASSUME NEW v \in Providers, AskProvider(p, v)
      PROVE  CommandTrue(p)' /\ CommandInv'
  <2>1. /\ pc[p] = "gpus" /\ v \notin asked[p] /\ pc' = pc /\ began' = began
        /\ asked' = [asked EXCEPT ![p] = @ \cup {v}]
        /\ profile' = [profile EXCEPT ![p].gpus = @ \cup vram[v]] \/ profile' = profile
    BY <1>9 DEF AskProvider
  <2>2. asked'[p] = asked[p] \cup {v} /\ asked' \in [Procs -> SUBSET Providers]
    BY <2>1 DEF CommandInv
  <2>. DEFINE G == profile[p].gpus
              A == asked[p]
              b == began[p]
  <2>3. /\ Found(vramAt, G, b, A) /\ b \in Int /\ A \subseteq A \cup {v} /\ v \notin A
        /\ b <= clock /\ clock <= b + MaxBusy
    BY <1>1, <2>1 DEF CommandTrue
  <2>4. profile'[p].gpus = G \/ profile'[p].gpus = G \cup vram[v]
    <3>1. CASE profile' = [profile EXCEPT ![p].gpus = @ \cup vram[v]]
      <4>1. profile'[p] = [profile[p] EXCEPT !.gpus = @ \cup vram[v]]
        BY <1>1, <3>1
      <4>2. profile[p] \in [gpus : SUBSET Nat, available_ram_mb : Nat]
        BY <1>1 DEF HardwareProfile
      <4>3. profile'[p].gpus = profile[p].gpus \cup vram[v]
        BY <4>1, <4>2
      <4>. QED  BY <4>3
    <3>2. CASE profile' = profile
      BY <3>2
    <3>. QED  BY <2>1, <3>1, <3>2
  <2>5. vram[v] \in GpuStates /\ vramAt[v][vram[v]] = clock
    BY DEF ScanInv, StampInv
  <2>6. Found(vramAt, G, b, A \cup {v})
    <3>. HIDE DEF G, A, b
    <3>1. \A w \in Providers, g \in GpuStates : vramAt[w][g] <= vramAt[w][g]
      BY <1>1
    <3>2. b <= b
      BY <2>3
    <3>. QED  BY <1>1, <2>3, <3>1, <3>2, FoundLater
  <2>7. Found(vramAt, G \cup vram[v], b, A \cup {v})
    <3>. DEFINE g == vram[v]
    <3>1. v \in Providers \ A /\ g \in GpuStates /\ b <= vramAt[v][g]
      BY <2>3, <2>5
    <3>. HIDE DEF G, A, b, g
    <3>2. Found(vramAt, G \cup g, b, A \cup {v})
      BY <1>1, <2>3, <3>1, FoundMore
    <3>. QED  BY <3>2 DEF g
  <2>8. Found(vramAt', profile'[p].gpus, began'[p], asked'[p])
    BY <1>2, <2>1, <2>2, <2>4, <2>6, <2>7
  <2>9. began'[p] <= clock' /\ clock' <= began'[p] + MaxBusy
    BY <1>2, <2>1, <2>3
  <2>10. CommandTrue(p)'
    BY <2>1, <2>8, <2>9 DEF CommandTrue
  <2>11. CommandInv'
    BY <2>1, <2>2 DEF CommandInv
  <2>. QED  BY <2>10, <2>11
<1>10. CASE ReadRam(p)
  <2>. DEFINE b == began[p]
  <2>1. /\ pc[p] = "gpus" /\ asked[p] = Providers /\ UNCHANGED <<asked, began>>
        /\ profile' = [profile EXCEPT ![p].available_ram_mb = ram]
        /\ Go(p, IF cached[p] THEN "set" ELSE "show")
    BY <1>10 DEF ReadRam
  <2>2. profile'[p].gpus = profile[p].gpus /\ profile'[p].available_ram_mb = ram
    <3>1. profile'[p] = [profile[p] EXCEPT !.available_ram_mb = ram]
      BY <1>1, <2>1
    <3>2. profile[p] \in [gpus : SUBSET Nat, available_ram_mb : Nat]
      BY <1>1 DEF HardwareProfile
    <3>. QED  BY <3>1, <3>2
  <2>3. b <= clock /\ clock <= b + MaxBusy /\ Found(vramAt, profile[p].gpus, b, Providers)
    BY <2>1 DEF CommandTrue
  <2>4. ram \in RamStates /\ ramAt[ram] = clock
    BY DEF ScanInv, StampInv
  <2>5. FoundAll(vramAt, ramAt, profile'[p], b)
    BY <2>2, <2>3, <2>4 DEF FoundAll
  <2>6. FoundAll(vramAt, ramAt, profile'[p], clock - TTL - MaxBusy)
    <3>1. b \in Int /\ b >= clock - TTL - MaxBusy
      BY <1>1, <2>3
    <3>. HIDE DEF b
    <3>. QED  BY <1>5, <2>5, <3>1
  <2>7. pc'[p] \in {"set", "show"}
    BY <1>3, <2>1
  <2>8. /\ began'[p] <= clock' /\ clock' <= began'[p] + MaxBusy
        /\ FoundAll(vramAt', ramAt', profile'[p], began'[p])
        /\ FoundAll(vramAt', ramAt', profile'[p], clock' - TTL - MaxBusy)
    BY <1>2, <2>1, <2>3, <2>5, <2>6
  <2>9. CommandTrue(p)'
    BY <2>7, <2>8 DEF CommandTrue
  <2>10. CommandInv'
    BY <1>4, <2>1 DEF CommandInv
  <2>. QED  BY <2>9, <2>10
<1>11. CASE SetLastScan(p) \/ SetFails(p)
  <2>. DEFINE b == began[p]
  <2>1. pc[p] = "set" /\ Go(p, "show") /\ UNCHANGED <<asked, began, profile>>
    BY <1>11 DEF SetLastScan, SetFails
  <2>2. b <= clock /\ clock <= b + MaxBusy /\ FoundAll(vramAt, ramAt, profile[p], b)
    BY <2>1 DEF CommandTrue
  <2>3. b \in Int /\ b >= clock - TTL - MaxBusy
    BY <1>1, <2>2
  <2>4. FoundAll(vramAt, ramAt, profile[p], clock - TTL - MaxBusy)
    <3>. HIDE DEF b
    <3>. QED  BY <1>5, <2>2, <2>3
  <2>5. pc'[p] = "show" /\ FoundAll(vramAt', ramAt', profile'[p], clock' - TTL - MaxBusy)
    BY <1>2, <1>3, <2>1, <2>4
  <2>6. CommandTrue(p)'
    BY <2>5 DEF CommandTrue
  <2>7. CommandInv'
    BY <1>4, <2>1 DEF CommandInv
  <2>. QED  BY <2>6, <2>7
<1>12. StartScan(p) \/ GetFails(p) \/ (GetLastScan(p) /\ ~Hit)
         => BeginScan(p) /\ clock' = clock
  BY <1>2 DEF StartScan, GetLastScan, GetFails
<1>. QED  BY <1>6, <1>7, <1>8, <1>9, <1>10, <1>11, <1>12 DEF Step, Local

\* What is put into the cache was true when its scan began, MaxBusy before at most.
LEMMA CachedStep ==
  ASSUME ScanInv, StampInv, StampInv', CommandInv, CachedInv,
         Later(vramAt, vramAt', ramAt, ramAt'),
         \A p \in Procs : CommandTrue(p), [Next]_vars
  PROVE  CachedInv'
<1>1. /\ clock \in Nat /\ MaxBusy \in Nat /\ TTL \in Nat
      /\ vramAt \in [Providers -> [GpuStates -> Int]] /\ ramAt \in [RamStates -> Int]
      /\ vramAt' \in [Providers -> [GpuStates -> Int]] /\ ramAt' \in [RamStates -> Int]
      /\ \A p \in Procs : began[p] \in Nat
  BY TimeAssumption DEF StampInv, CommandInv
<1>2. CASE cache' = cache \/ cache' = Miss
  <2>. SUFFICES ASSUME cache # Miss, cache' = cache
                PROVE  /\ cache.expires \in Nat
                       /\ FoundAll(vramAt', ramAt', cache.profile, cache.expires - TTL - MaxBusy)
    BY <1>2 DEF CachedInv
  <2>. DEFINE since == cache.expires - TTL - MaxBusy
  <2>1. cache.expires \in Nat /\ FoundAll(vramAt, ramAt, cache.profile, since)
    BY DEF CachedInv
  <2>2. since \in Int /\ since <= since
    BY <1>1, <2>1
  <2>. HIDE DEF since
  <2>3. FoundAll(vramAt', ramAt', cache.profile, since)
    BY <1>1, <2>1, <2>2, FoundAllLater
  <2>. QED  BY <2>1, <2>3 DEF since
<1>3. ASSUME NEW p \in Procs, SetLastScan(p)
      PROVE  CachedInv'
  <2>. DEFINE b == began[p]
              since == (clock + TTL) - TTL - MaxBusy
  <2>1. /\ pc[p] = "set" /\ cache' = [profile |-> profile[p], expires |-> clock + TTL]
        /\ UNCHANGED <<vramAt, ramAt>>
    BY <1>3 DEF SetLastScan, machine
  <2>2. b <= clock /\ clock <= b + MaxBusy /\ FoundAll(vramAt, ramAt, profile[p], b)
    BY <2>1 DEF CommandTrue
  <2>3. b \in Int /\ since \in Int /\ since <= b
    BY <1>1, <2>2
  <2>4. FoundAll(vramAt', ramAt', profile[p], since)
    <3>. HIDE DEF b, since
    <3>. QED  BY <1>1, <2>2, <2>3, FoundAllLater
  <2>5. cache'.profile = profile[p] /\ cache'.expires = clock + TTL /\ clock + TTL \in Nat
    BY <1>1, <2>1
  <2>6. FoundAll(vramAt', ramAt', cache'.profile, cache'.expires - TTL - MaxBusy)
    <3>1. cache'.expires - TTL - MaxBusy = since
      BY <1>1, <2>5
    <3>. HIDE DEF since
    <3>. QED  BY <2>4, <2>5, <3>1
  <2>. QED  BY <2>5, <2>6 DEF CachedInv
<1>5. CASE RedisRestarts
  BY <1>2, <1>5 DEF RedisRestarts
<1>6. CASE HardwareChanges \/ Tick \/ UNCHANGED vars
  BY <1>2, <1>6 DEF HardwareChanges, Tick, vars
<1>7. ASSUME NEW p \in Procs,
             StartStatus(p) \/ StartScan(p) \/ GetLastScan(p) \/ Local(p)
      PROVE  cache' = cache
  BY <1>7 DEF StartStatus, StartScan, GetLastScan, Local, AskProvider, ReadRam, Show,
              GetFails, SetFails
<1>. QED  BY <1>2, <1>3, <1>5, <1>6, <1>7 DEF Next, Step

\* Another command's step leaves a command alone.
LEMMA OthersStay ==
  ASSUME CommandInv, ScanInv, NEW p \in Procs, NEW q \in Procs \ {p},
         StartStatus(p) \/ StartScan(p) \/ Step(p)
  PROVE  /\ pc'[q] = pc[q] /\ profile'[q] = profile[q]
         /\ asked'[q] = asked[q] /\ began'[q] = began[q]
<1>1. pc'[q] = pc[q]
  BY DEF StartStatus, StartScan, Step, Local, GetLastScan, GetFails, AskProvider, ReadRam,
         SetLastScan, SetFails, Show,
         BeginScan, Go, CommandInv
<1>2. asked'[q] = asked[q] /\ began'[q] = began[q]
  BY DEF StartStatus, StartScan, Step, Local, GetLastScan, GetFails, AskProvider, ReadRam,
         SetLastScan, SetFails, Show,
         BeginScan, CommandInv
<1>3. profile'[q] = profile[q]
  <2>1. \/ profile' = profile
        \/ \E hw : profile' = [profile EXCEPT ![p] = hw]
    BY DEF StartStatus, StartScan, Step, Local, GetLastScan, GetFails, AskProvider, ReadRam,
         SetLastScan, SetFails, Show,
           BeginScan
  <2>. QED  BY <2>1 DEF ScanInv
<1>. QED  BY <1>1, <1>2, <1>3

LEMMA TruthStep == TruthInv /\ [Next]_vars => TruthInv'
<1>. SUFFICES ASSUME TruthInv, [Next]_vars  PROVE TruthInv'
  OBVIOUS
<1>1. ScanInv /\ StampInv /\ CommandInv /\ CachedInv /\ \A q \in Procs : CommandTrue(q)
  BY DEF TruthInv
<1>2. /\ ScanInv' /\ StampInv' /\ Later(vramAt, vramAt', ramAt, ramAt')
      /\ Tick \/ clock' = clock
  BY <1>1, ScanInvIsInductive, StampStep
<1>3. CachedInv'
  BY <1>1, <1>2, CachedStep
<1>4. ASSUME NEW p \in Procs, StartStatus(p) \/ StartScan(p) \/ Step(p)
      PROVE  CommandInv' /\ \A q \in Procs : CommandTrue(q)'
  <2>1. CommandTrue(p)' /\ CommandInv'
    BY <1>1, <1>4, Moved
  <2>2. ASSUME NEW q \in Procs \ {p}  PROVE CommandTrue(q)'
    BY <1>1, <1>2, <1>4, OthersStay, Unmoved
  <2>. QED  BY <2>1, <2>2
<1>5. CASE UNCHANGED local
  <2>1. UNCHANGED <<pc, asked, profile, began>>
    BY <1>5 DEF local
  <2>2. CommandInv'
    BY <1>1, <2>1 DEF CommandInv
  <2>3. ASSUME NEW q \in Procs  PROVE CommandTrue(q)'
    BY <1>1, <1>2, <2>1, Unmoved
  <2>. QED  BY <1>2, <1>3, <2>2, <2>3 DEF TruthInv
<1>6. HardwareChanges \/ RedisRestarts \/ Tick \/ UNCHANGED vars => UNCHANGED local
  BY DEF HardwareChanges, RedisRestarts, Tick, vars
<1>. QED  BY <1>2, <1>3, <1>4, <1>5, <1>6 DEF Next, TruthInv

\* `status`, `scan`, `models` and `run`: what is shown of the machine was true of
\* it within TTL plus the duration of a scan, with any number of commands, providers
\* and changes of the hardware, and with calls to Redis failing at any time.
THEOREM ShownIsTrue == Spec => []ShownWasTrue
<1>1. Init => TruthInv
  <2>. SUFFICES ASSUME Init  PROVE TruthInv
    OBVIOUS
  <2>1. ScanInv
    <3>1. profile \in [Procs -> HardwareProfile]
      BY NoScanType DEF Init
    <3>. QED  BY <3>1 DEF Init, ScanInv
  <2>2. Never \in Int /\ Never <= 0
    BY TimeAssumption DEF Never
  <2>3. StampInv
    BY <2>1, <2>2 DEF Init, StampInv, ScanInv
  <2>4. CommandInv /\ CachedInv /\ \A p \in Procs : CommandTrue(p)
    BY DEF Init, CommandInv, CachedInv, CommandTrue
  <2>. QED  BY <2>1, <2>3, <2>4 DEF TruthInv
<1>2. TruthInv => ShownWasTrue
  <2>. SUFFICES ASSUME TruthInv, NEW p \in Procs, pc[p] = "show"
                PROVE  /\ \E part \in [Providers -> GpuStates \cup {{}}] :
                            /\ profile[p].gpus = UNION {part[v] : v \in Providers}
                            /\ \A v \in Providers :
                                 part[v] # {} => Recent(vramAt[v][part[v]])
                       /\ Recent(ramAt[profile[p].available_ram_mb])
    BY DEF ShownWasTrue
  <2>1. /\ clock \in Nat /\ MaxBusy \in Nat /\ TTL \in Nat
        /\ vramAt \in [Providers -> [GpuStates -> Int]] /\ ramAt \in [RamStates -> Int]
    BY TimeAssumption DEF TruthInv, StampInv
  <2>2. ASSUME NEW t \in Int, clock - TTL - MaxBusy <= t  PROVE Recent(t)
    BY <2>1, <2>2 DEF Recent
  <2>3. FoundAll(vramAt, ramAt, profile[p], clock - TTL - MaxBusy)
    BY DEF TruthInv, CommandTrue
  <2>4. Recent(ramAt[profile[p].available_ram_mb])
    BY <2>1, <2>2, <2>3 DEF FoundAll
  <2>5. PICK part \in [Providers -> GpuStates \cup {{}}] :
          /\ profile[p].gpus = UNION {part[v] : v \in Providers}
          /\ \A v \in Providers :
               part[v] # {} => v \in Providers /\ clock - TTL - MaxBusy <= vramAt[v][part[v]]
    BY <2>3 DEF FoundAll, Found
  <2>6. ASSUME NEW v \in Providers, part[v] # {}  PROVE Recent(vramAt[v][part[v]])
    <3>1. part[v] \in GpuStates
      BY <2>6
    <3>2. vramAt[v][part[v]] \in Int
      BY <2>1, <3>1
    <3>. QED  BY <2>2, <2>5, <2>6, <3>2
  <2>. QED  BY <2>4, <2>5, <2>6
<1>. QED  BY <1>1, <1>2, TruthStep, PTL DEF Spec
=============================================================================
