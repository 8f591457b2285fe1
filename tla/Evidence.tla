------------------------------ MODULE Evidence ------------------------------
(***************************************************************************)
(* What one host observation proves.                                       *)
(*                                                                         *)
(* A host posts a report about one instance: the worker's phase, the state *)
(* of its systemd unit, whether the unit's cgroup is drained, whether the  *)
(* instance is retired, and which services answered a probe.  Three        *)
(* programs read the same report: the registry's commit gates (registry.py *)
(* _ready and _retired_drained), the registry's state view (_observed_state)*)
(* and the controller, which decides from that view (controller.py         *)
(* _retired_evidence, _ready_detail, _dependency_status).                  *)
(*                                                                         *)
(* The predicates are pure; Registry and the modules above it use them.    *)
(***************************************************************************)
EXTENDS Integers

CONSTANTS Services,     \* service ids a definition may declare
          MaxAge,       \* registry.py _OBSERVATION_MAX_AGE (30 s)
          LostAfter     \* registry.py _LOST_AFTER (300 s)

ASSUME AgeAssumption == MaxAge \in Nat /\ LostAfter \in Nat /\ MaxAge < LostAfter

Phases == {"preparing", "prepared", "starting", "running", "stopping",
           "stopped", "unknown"}
UnitStates == {"active", "inactive", "failed", "activating", "deactivating",
               "unknown"}

\* unitDrained is True, False or null on the wire.
Drained == {"yes", "no", "unknown"}

Report == [phase   : Phases,
           unit    : UnitStates,
           drained : Drained,
           retired : BOOLEAN,
           ready   : SUBSET Services]

\* The worker runs the unit and nothing retired it: the only state in which
\* the reporter probes, and the only one in which a report may list services.
Serving(p) == /\ p.phase = "running"
              /\ p.unit = "active"
              /\ p.drained = "no"
              /\ ~p.retired

\* _validate_observation: anything else is refused as invalid-observation.
Admissible(p) == p.ready # {} => Serving(p)

Reports == {p \in Report : Admissible(p)}

\* reporter.py _observe_instance: services that answered `probes` are listed
\* only for a serving instance.
ReporterSample(p, probes) ==
    [p EXCEPT !.ready = IF Serving(p) THEN probes ELSE {}]

Quiet(p) == p.drained = "yes" /\ p.unit \in {"inactive", "failed"}

\* registry.py _fresh, the two clocks of it: age by the wall clock the host
\* stamped, and age by the registry's own monotonic clock since receipt.
WithinAge(wallAge, monoAge) ==
    /\ wallAge \in 0 .. MaxAge
    /\ monoAge \in 0 .. MaxAge

\* registry.py _retired_drained and _ready, their payload part.
RetiredDrained(p) == p.retired /\ p.drained = "yes" /\ p.phase = "stopped"
                     /\ p.unit \in {"inactive", "failed"}

ReadyFor(p, needed) == Serving(p) /\ needed \subseteq p.ready

(***************************************************************************)
(* registry.py _observed_state: the word /v2/state shows for a stored      *)
(* report.  `fresh` is the result of _fresh, `wallAge` may be negative when*)
(* the wall clock stands before the host's stamp.                          *)
(***************************************************************************)
WordHolds(p) ==
    \/ p.phase = "running" /\ p.unit = "active" /\ p.drained = "no"
    \/ p.phase \in {"stopped", "preparing", "prepared"} /\ Quiet(p)
    \/ p.phase = "starting" /\ (Quiet(p) \/ p.unit \in {"activating", "active"})
    \/ p.phase = "stopping"
         /\ (Quiet(p) \/ p.unit \in {"active", "activating", "deactivating"})

LiveState(p) ==
    IF p.unit = "unknown" THEN "unknown"
    ELSE IF p.retired THEN (IF Quiet(p) THEN "retired" ELSE "unknown")
    ELSE IF WordHolds(p) THEN p.phase ELSE "unknown"

MutObservedState(p, wallAge, fresh) ==
    IF wallAge < 0 THEN "unknown"
    ELSE IF wallAge > MaxAge THEN (IF wallAge >= LostAfter THEN "lost" ELSE "stale")
    ELSE LiveState(p)

ObservedState(p, wallAge, fresh) ==
    IF wallAge < 0 THEN "unknown"
    ELSE IF ~fresh THEN (IF wallAge >= LostAfter THEN "lost" ELSE "stale")
    ELSE LiveState(p)

\* controller.py _fresh_observation: staleness is read off the word alone.
TakenAsFresh(state) == state \notin {"stale", "lost"}

\* controller.py _retired_evidence, _ready_detail / _dependency_status: what
\* the controller concludes from a row of /v2/state carrying this report.
ControllerRetired(p, state) == TakenAsFresh(state) /\ RetiredDrained(p)

ControllerReady(p, state, needed) ==
    TakenAsFresh(state) /\ state = "running" /\ needed \subseteq p.ready
=============================================================================
