-------------------------- MODULE AutopilotOutage ---------------------------
(***************************************************************************)
(* The processes of Autopilot.tla with storage/resilient.py under them:    *)
(* every store call goes to MySQL, and to the host's SQLite file when that *)
(* raises.  All processes run on one host, so that at any moment all of    *)
(* them talk to the same place: `cur` and `events` are what it holds,      *)
(* `aside` and `asideEvents` what the other one does.  MySQL may go and    *)
(* come back between any two calls of a pass, and may lose the answer to a *)
(* call that it has committed.  The runtime answers throughout, and time   *)
(* passes in the sleeps only: Autopilot.tla has the rest.                  *)
(***************************************************************************)
EXTENDS Autopilot

CONSTANT MaxOutages     \* bound: how often MySQL goes or comes back

ASSUME OutagesAssumption == MaxOutages \in Nat

VARIABLES
  mysqlUp,      \* does MySQL answer?
  aside,        \* the tuned configs of the place that is not in use
  asideEvents,  \* its audit trail
  disabling,    \* models whose `autopilot disable` has read and not yet locked
  outages       \* how often MySQL went or came back

other   == <<aside, asideEvents>>
outVars == <<vars, mysqlUp, other, disabling, outages>>

OutageInit ==
  /\ Init
  /\ mysqlUp = TRUE
  /\ aside = [m \in Models |-> Store!NoRow]
  /\ asideEvents = << >>
  /\ disabling = {}
  /\ outages = 0

-----------------------------------------------------------------------------
(* FallbackStorage._call: MySQL may raise after its commit, and then the    *)
(* fallback is called as well.                                              *)

SavedAsideToo(m) ==
  /\ UNCHANGED asideEvents
  /\ \/ UNCHANGED aside
     \/ mysqlUp /\ aside' = [aside EXCEPT ![m] = cur'[m]]

LoggedAsideToo ==
  /\ UNCHANGED aside
  /\ \/ UNCHANGED asideEvents
     \/ mysqlUp /\ asideEvents' = Append(asideEvents, events'[Len(events')])

\* The steps of a process that write a config, that write an event, and that
\* leave the stores alone.
Saves(p)  == SaveRollback(p) \/ SaveAdjust(p)
Logs(p)   == LogLock(p) \/ LogRollback(p) \/ LogAdjust(p) \/ LogLimited(p)
Computes(p) == \/ Enable(p) \/ Tune(p) \/ ReadConfig(p) \/ Probe(p)
               \/ TuneUnavailable(p) \/ TuneOnce(p) \/ Wake(p) \/ Crash(p)

ProcStep(p) ==
  /\ \/ Saves(p) /\ SavedAsideToo(ModelOf[p])
     \/ Logs(p) /\ LoggedAsideToo
     \/ Computes(p) /\ UNCHANGED other
  /\ UNCHANGED <<mysqlUp, disabling, outages>>

\* Its two calls: get_tuned_config, which must find a config, and lock_config,
\* which locks the one that is current where it lands, or none.
DisableReads(m) ==
  /\ m \notin disabling
  /\ Store!get_tuned_config(m).found
  /\ disabling' = disabling \cup {m}
  /\ UNCHANGED <<vars, mysqlUp, other, outages>>

LockRow(row) == IF row.found THEN [row EXCEPT !.locked = TRUE] ELSE row

DisableLocks(m) ==
  /\ m \in disabling
  /\ disabling' = disabling \ {m}
  /\ Store!lock_config(m)
  /\ \/ UNCHANGED aside
     \/ mysqlUp /\ aside' = [aside EXCEPT ![m] = LockRow(@)]
  /\ UNCHANGED <<events, changes, world, pc, local, mysqlUp, asideEvents, outages>>

\* MySQL goes or comes back: from now on the other place is in use.  Nothing
\* merges the two.
Outage ==
  /\ outages < MaxOutages
  /\ outages' = outages + 1
  /\ mysqlUp' = ~mysqlUp
  /\ cur' = aside /\ aside' = cur
  /\ events' = asideEvents /\ asideEvents' = events
  /\ UNCHANGED <<changes, world, pc, local, disabling>>

OutageNext ==
  \/ \E p \in Procs : ProcStep(p)
  \/ \E m \in Models : DisableReads(m) \/ DisableLocks(m)
  \/ Outage

OutageSpec == OutageInit /\ [][OutageNext]_outVars

-----------------------------------------------------------------------------
(* Safety.  SavedWasMeasured and AuditNeverLies of Autopilot.tla are proved  *)
(* of this specification too (Autopilot_proofs): the second is then about    *)
(* the trail of whichever place is in use.                                   *)

\* The place that is not in use holds what the loop read.
HoldsAside(p) ==
  LET row == aside[ModelOf[p]] IN seen[p] = IF row.found THEN row.config ELSE NoConfig

\* A loop that is alone may replace a config that it has not read, when MySQL goes
\* or comes back in a pass: the one that the other place holds.  What does hold,
\* wherever MySQL was, whatever call lost its answer, and with any number of
\* processes: the config it compared with is still what one of the places holds, or
\* else another process has saved one.
ComparedSomewhere ==
  \A p \in Pilots : pc[p] = "saveAdjust" => Holds(p) \/ HoldsAside(p) \/ Overtaken(p)

Logging(kind, m, cfg) ==
  {p \in Procs : /\ pc[p] = IF kind = "adjust" THEN "logAdjust" ELSE "logRollback"
                 /\ ModelOf[p] = m /\ target[p] = cfg}

\* "Every adjust, rollback, lock, enable, or disable gets one" (domain.py:99), of
\* the first two: without a crash or a failed insert the two trails together miss
\* no change, though the config may be in one place and its event in the other,
\* but for those whose process is just about to write it.
AuditCompleteTogether ==
  \A m \in Models, cfg \in {changes[i].config : i \in 1..Len(changes)},
     kind \in {"adjust", "rollback"} :
    Cardinality(Of(changes, kind, m, cfg))
      <= Cardinality(Of(events, kind, m, cfg)) + Cardinality(Of(asideEvents, kind, m, cfg))
           + Cardinality(Logging(kind, m, cfg))

LockedAside(m) == aside[m].found /\ aside[m].locked

\* A model locked in both places while no pass over it is under way is skipped
\* by every autopilot, started again or not, wherever MySQL is: it takes one
\* `autopilot disable` in each.
LockedInBothSticks ==
  [][\A m \in Models : QuietlyLocked(m) /\ LockedAside(m) =>
       /\ Locked(m)' /\ LockedAside(m)'
       /\ \A p \in Pilots : ModelOf[p] = m => pc'[p] \in Quiet]_outVars

=============================================================================
