--------------------------- MODULE EvidenceProofs ---------------------------
(***************************************************************************)
(* The readers of a report agree, for every admissible report, every age   *)
(* and every set of routed services.  `fresh` stands for the registry's    *)
(* verdict; it implies an age that is not negative (WithinAge).            *)
(***************************************************************************)
EXTENDS Evidence, TLAPS

\* A fresh report is shown by its own word, and by that word alone.
LEMMA FreshWord ==
    ASSUME NEW p \in Reports, NEW wallAge \in Int, wallAge >= 0
    PROVE  ObservedState(p, wallAge, TRUE) = LiveState(p)
  BY DEF ObservedState

\* The words a report that is not fresh can have.
LEMMA AgedWord ==
    ASSUME NEW p \in Reports, NEW wallAge \in Int
    PROVE  ObservedState(p, wallAge, FALSE) \in {"unknown", "stale", "lost"}
  BY DEF ObservedState

\* The word "running" is what a serving report is shown as, and no other.
LEMMA RunningWord ==
    ASSUME NEW p \in Reports
    PROVE  LiveState(p) = "running" <=> Serving(p)
<1>1. CASE p.unit = "unknown"
  BY <1>1 DEF LiveState, Serving
<1>2. CASE p.unit # "unknown" /\ p.retired
  BY <1>2 DEF LiveState, Serving
<1>3. CASE p.unit # "unknown" /\ ~p.retired
  <2>1. p.phase \in Phases /\ p.retired \in BOOLEAN
    BY DEF Reports, Report
  <2>2. CASE p.phase = "running"
    BY <1>3, <2>1, <2>2 DEF LiveState, WordHolds, Serving
  <2>3. CASE p.phase # "running"
    BY <1>3, <2>1, <2>3 DEF LiveState, WordHolds, Serving
  <2>4. QED BY <2>2, <2>3
<1>4. p.retired \in BOOLEAN
  BY DEF Reports, Report
<1>5. QED BY <1>1, <1>2, <1>3, <1>4

(***************************************************************************)
(* The controller waits for readiness on the word and services of          *)
(* /v2/state (controller.py _ready_detail), the registry commits publish   *)
(* on _ready: the two are the same condition, so a move that saw readiness *)
(* is not refused for a reason it could not see, and the word "running"    *)
(* never admits a report publish would refuse.                             *)
(***************************************************************************)
THEOREM ReadyAgreement ==
    ASSUME NEW p \in Reports, NEW needed \in SUBSET Services,
           NEW wallAge \in Int, NEW fresh \in BOOLEAN,
           fresh => wallAge >= 0
    PROVE  ControllerReady(p, ObservedState(p, wallAge, fresh), needed)
             <=> fresh /\ ReadyFor(p, needed)
<1>1. CASE fresh
  <2>1. fresh = TRUE
    BY <1>1
  <2>2. ObservedState(p, wallAge, fresh) = LiveState(p)
    BY <1>1, <2>1, FreshWord
  <2>3. QED
    BY <1>1, <2>2, RunningWord DEF ControllerReady, TakenAsFresh, ReadyFor
<1>2. CASE ~fresh
  <2>1. fresh = FALSE
    BY <1>2
  <2>2. ObservedState(p, wallAge, fresh) # "running"
    BY <2>1, AgedWord
  <2>3. QED
    BY <1>2, <2>2 DEF ControllerReady
<1>3. QED BY <1>1, <1>2

(***************************************************************************)
(* Wherever the word shown (registry.py _observed_state) claims that       *)
(* nothing runs, the report carries a unit that is down and drained.       *)
(***************************************************************************)
THEOREM QuietWords ==
    ASSUME NEW p \in Reports, NEW wallAge \in Int, NEW fresh \in BOOLEAN,
           fresh => wallAge >= 0,
           ObservedState(p, wallAge, fresh)
             \in {"retired", "stopped", "prepared", "preparing"}
    PROVE  fresh /\ Quiet(p)
<1>1. fresh = TRUE
  BY AgedWord
<1>2. LiveState(p) \in {"retired", "stopped", "prepared", "preparing"}
  BY <1>1, FreshWord
<1>3. p.retired \in BOOLEAN
  BY DEF Reports, Report
<1>4. CASE p.unit = "unknown"
  BY <1>2, <1>4 DEF LiveState
<1>5. CASE p.unit # "unknown" /\ p.retired
  BY <1>1, <1>2, <1>5 DEF LiveState
<1>6. CASE p.unit # "unknown" /\ ~p.retired
  BY <1>1, <1>2, <1>6 DEF LiveState, WordHolds
<1>7. QED BY <1>3, <1>4, <1>5, <1>6

(***************************************************************************)
(* Whatever assign accepts as retirement (registry.py _retired_drained) is *)
(* shown as "retired", and the controller concludes the same from the row  *)
(* (controller.py _retired_evidence): an operator reading the state page   *)
(* sees no other word for an instance about to be replaced.  The converse  *)
(* fails on purpose: a retired row that is drained but in another phase is *)
(* shown as retired and is not yet evidence.                               *)
(***************************************************************************)
THEOREM RetiredAgreement ==
    ASSUME NEW p \in Reports, NEW wallAge \in Int, wallAge >= 0,
           RetiredDrained(p)
    PROVE  /\ ObservedState(p, wallAge, TRUE) = "retired"
           /\ ControllerRetired(p, ObservedState(p, wallAge, TRUE))
<1>1. p.unit # "unknown" /\ p.retired /\ Quiet(p)
  BY DEF RetiredDrained, Quiet
<1>2. LiveState(p) = "retired"
  BY <1>1 DEF LiveState
<1>3. ObservedState(p, wallAge, TRUE) = "retired"
  BY <1>2, FreshWord
<1>4. QED
  BY <1>3 DEF ControllerRetired, TakenAsFresh
=============================================================================
