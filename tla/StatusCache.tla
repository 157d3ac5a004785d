---------------------------- MODULE StatusCache -----------------------------
(***************************************************************************)
(* Hardware scans (profiler/) and the Redis cache in front of them         *)
(* (storage/redis_client.py), as `llm-max status` and agentd's GET /status *)
(* use them: read the cache; on a miss ask each GPU provider in turn, then *)
(* psutil, and store the profile for TTL seconds.  Several processes do so *)
(* at once, each can be slow, a provider may fail, and Redis may be down   *)
(* at either of its two calls.  `scan`, `models` and `run` take the same   *)
(* scan without the cache.                                                 *)
(***************************************************************************)
EXTENDS Compatibility

CONSTANTS Procs, Providers,
          GpuStates,     \* what a provider's GPUs may have free
          RamStates,     \* what may be available
          Catalog,       \* the models of models.json
          TTL,           \* _DEFAULT_TTL_SECONDS
          MaxBusy,       \* bound: how long a command takes, from scan to set
          MaxClock,      \* bound: value of the clock
          MaxChanges     \* bound: changes of the hardware's state

\* The machine is one that a profile can describe, the GPUs of each provider and
\* of all of them: a list of GPUs is finite.
ASSUME DataAssumption ==
  /\ RamStates \subseteq Nat
  /\ \A g \in GpuStates : [gpus |-> g, available_ram_mb |-> 0] \in HardwareProfile
  /\ \A v \in [Providers -> GpuStates] :
       [gpus |-> UNION {v[w] : w \in Providers}, available_ram_mb |-> 0] \in HardwareProfile
  /\ \A s \in Catalog : s \in ModelSpec
ASSUME TimeAssumption == /\ TTL \in Nat \ {0} /\ MaxBusy \in Nat
                         /\ MaxClock \in Nat /\ MaxChanges \in Nat

VARIABLES vram,      \* vram[v]: free VRAM of each GPU of provider v, now
          ram,       \* available RAM, now
          cache,     \* the key llm-max:last-scan
          clock,
          changes,   \* how often the hardware's state changed
          pc,        \* what each process does next
          cached,    \* is the command one that uses the cache?
          asked,     \* the providers its scan has asked so far
          profile,   \* the profile it is building or showing
          began,     \* when its scan began
          vramAt,    \* ghost: when provider v last had such GPUs; Never
          ramAt      \* ghost: when such an amount of RAM was last available

machine == <<vram, ram, vramAt, ramAt, changes>>
local   == <<pc, cached, asked, profile, began>>
vars    == <<machine, cache, clock, local>>

NoScan == [gpus |-> {}, available_ram_mb |-> 0]
Miss   == [hit |-> FALSE]
Never  == -1 - TTL - MaxBusy

\* The hardware is in a state now: remember when.
Stamp(v, r, t) ==
  /\ vramAt' = [w \in Providers |-> [vramAt[w] EXCEPT ![v[w]] = t]]
  /\ ramAt' = [ramAt EXCEPT ![r] = t]

Init ==
  /\ vram \in [Providers -> GpuStates] /\ ram \in RamStates
  /\ vramAt = [v \in Providers |-> [g \in GpuStates |-> IF g = vram[v] THEN 0 ELSE Never]]
  /\ ramAt = [r \in RamStates |-> IF r = ram THEN 0 ELSE Never]
  /\ cache = Miss
  /\ clock = 0
  /\ changes = 0
  /\ pc = [p \in Procs |-> "idle"]
  /\ cached = [p \in Procs |-> FALSE]
  /\ asked = [p \in Procs |-> {}]
  /\ profile = [p \in Procs |-> NoScan]
  /\ began = [p \in Procs |-> 0]

-----------------------------------------------------------------------------
(* A command of one process. *)

Go(p, label) == pc' = [pc EXCEPT ![p] = label]

\* scan_hardware begins.
BeginScan(p) == /\ Go(p, "gpus")
                /\ asked' = [asked EXCEPT ![p] = {}]
                /\ profile' = [profile EXCEPT ![p] = NoScan]
                /\ began' = [began EXCEPT ![p] = clock]

\* `status` with redis_enabled().
StartStatus(p) ==
  /\ pc[p] = "idle"
  /\ Go(p, "get")
  /\ cached' = [cached EXCEPT ![p] = TRUE]
  /\ UNCHANGED <<machine, cache, clock, asked, profile, began>>

\* `status` without it, `scan`, `models`, and `run` of a catalog model.
StartScan(p) ==
  /\ pc[p] = "idle"
  /\ BeginScan(p)
  /\ cached' = [cached EXCEPT ![p] = FALSE]
  /\ UNCHANGED <<machine, cache, clock>>

Hit == cache # Miss /\ clock < cache.expires

\* Mutant: the expiry is not looked at.
GetLastScanExpired(p) ==
  /\ pc[p] = "get"
  /\ IF cache # Miss
     THEN /\ Go(p, "show")
          /\ profile' = [profile EXCEPT ![p] = cache.profile]
          /\ UNCHANGED <<asked, began>>
     ELSE BeginScan(p)
  /\ UNCHANGED <<machine, cache, clock, cached>>

\* get_last_scan answered: the profile cached and not expired, or None, and then
\* the hardware is scanned.
GetLastScan(p) ==
  /\ pc[p] = "get"
  /\ IF Hit
     THEN /\ Go(p, "show")
          /\ profile' = [profile EXCEPT ![p] = cache.profile]
          /\ UNCHANGED <<asked, began>>
     ELSE BeginScan(p)
  /\ UNCHANGED <<machine, cache, clock, cached>>

\* Mutant: a client without time limits, which waits for an answer.
GetFailsWaits(p) ==
  /\ pc[p] = "get"
  /\ UNCHANGED vars

\* It raises inside: refused by a Redis that is down, or no answer within the
\* socket_timeout.
GetFails(p) ==
  /\ pc[p] = "get"
  /\ BeginScan(p)
  /\ UNCHANGED <<machine, cache, clock, cached>>

\* One provider's turn: it adds its GPUs, or raises (or is unavailable) and adds
\* none.  Whether they come in the order of the list makes no difference.
AskProvider(p, v) ==
  /\ pc[p] = "gpus" /\ v \notin asked[p]
  /\ asked' = [asked EXCEPT ![p] = @ \cup {v}]
  /\ \/ profile' = [profile EXCEPT ![p].gpus = @ \cup vram[v]]
     \/ UNCHANGED profile
  /\ UNCHANGED <<machine, cache, clock, pc, cached, began>>

\* The providers done, psutil is asked.
ReadRam(p) ==
  /\ pc[p] = "gpus" /\ asked[p] = Providers
  /\ profile' = [profile EXCEPT ![p].available_ram_mb = ram]
  /\ Go(p, IF cached[p] THEN "set" ELSE "show")
  /\ UNCHANGED <<machine, cache, clock, cached, asked, began>>

\* set_last_scan takes effect, whether or not Redis confirms it in time.
SetLastScan(p) ==
  /\ pc[p] = "set"
  /\ cache' = [profile |-> profile[p], expires |-> clock + TTL]
  /\ Go(p, "show")
  /\ UNCHANGED <<machine, clock, cached, asked, profile, began>>

\* It raises inside and has had no effect.
SetFails(p) ==
  /\ pc[p] = "set"
  /\ Go(p, "show")
  /\ UNCHANGED <<machine, cache, clock, cached, asked, profile, began>>

\* The profile is printed, and the command ends.
Show(p) ==
  /\ pc[p] = "show"
  /\ Go(p, "idle")
  /\ cached' = [cached EXCEPT ![p] = FALSE]
  /\ asked' = [asked EXCEPT ![p] = {}]
  /\ profile' = [profile EXCEPT ![p] = NoScan]
  /\ began' = [began EXCEPT ![p] = 0]
  /\ UNCHANGED <<machine, cache, clock>>

\* What the process does by itself once the command is given: its calls to Redis
\* fail in time if nothing else happens.
Local(p) == \/ \E v \in Providers : AskProvider(p, v)
            \/ ReadRam(p) \/ Show(p)
            \/ GetFails(p) \/ SetFails(p)

Step(p) == Local(p) \/ GetLastScan(p) \/ SetLastScan(p)

-----------------------------------------------------------------------------
(* The world. *)

\* Memory is taken or freed.
HardwareChanges ==
  /\ changes < MaxChanges
  /\ changes' = changes + 1
  /\ \/ \E v \in Providers : \E g \in GpuStates \ {vram[v]} :
          vram' = [vram EXCEPT ![v] = g] /\ ram' = ram
     \/ ram' \in RamStates \ {ram} /\ vram' = vram
  /\ Stamp(vram', ram', clock)
  /\ UNCHANGED <<cache, clock, local>>

\* Redis starts again without its keys.  That it is down is that calls to it fail.
RedisRestarts ==
  /\ cache # Miss
  /\ cache' = Miss
  /\ UNCHANGED <<machine, clock, local>>

\* Time passes, but not while a profile is being printed nor beyond the time
\* that a scan and its set take.
Tick ==
  /\ clock < MaxClock
  /\ \A p \in Procs : /\ pc[p] # "show"
                      /\ pc[p] \in {"gpus", "set"} => clock - began[p] < MaxBusy
  /\ clock' = clock + 1
  /\ Stamp(vram, ram, clock + 1)
  /\ UNCHANGED <<vram, ram, changes, cache, local>>

Next == \/ \E p \in Procs : StartStatus(p) \/ StartScan(p) \/ Step(p)
        \/ HardwareChanges
        \/ RedisRestarts
        \/ Tick

Spec == Init /\ [][Next]_vars

\* Redis need never answer; the time limits of the client and the machine's own
\* drivers are relied on.
FairSpec == Spec /\ \A p \in Procs : WF_vars(Local(p))

-----------------------------------------------------------------------------
Recent(t) == clock - t <= TTL + MaxBusy

\* What is shown of the machine was true of it lately, whether it comes from the
\* cache or from a scan, and whatever other processes put into the cache in the
\* meantime: each provider's GPUs were so, or it had failed, and so was the RAM,
\* at some time within the cache's lifetime and the duration of a scan.
ShownWasTrue ==
  \A p \in Procs : pc[p] = "show" =>
    /\ \E part \in [Providers -> GpuStates \cup {{}}] :
         /\ profile[p].gpus = UNION {part[v] : v \in Providers}
         /\ \A v \in Providers : part[v] # {} => Recent(vramAt[v][part[v]])
    /\ Recent(ramAt[profile[p].available_ram_mb])

\* The advice given for a profile is the advice followed: a model's tier agrees
\* with the context it would be run with, in two files that share no threshold
\* code.
AdviceMatchesRun ==
  \A p \in Procs, s \in Catalog : pc[p] = "show" => TierMatchesContext(s, profile[p])

Now == [gpus |-> UNION {vram[v] : v \in Providers}, available_ram_mb |-> ram]

\* A stale profile misjudges a model only in the direction in which the machine
\* has moved since: a machine with no less free than shown runs every model at
\* least as well as shown, and one with no more free at most as well.
StaleAdviceIsOneSided ==
  \A p \in Procs, s \in Catalog : pc[p] = "show" =>
    NeverWorse(s, profile[p], Now) /\ NeverWorse(s, Now, profile[p])

\* "Redis is optional infrastructure" (redis_client.py): whatever it does, refuse,
\* answer late or not at all, at the get or at the set, and go and come back in
\* between, a status that was asked for is shown.
StatusIsShown == \A p \in Procs : pc[p] # "idle" ~> pc[p] = "show"
=============================================================================
