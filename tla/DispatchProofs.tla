--------------------------- MODULE DispatchProofs ---------------------------
(***************************************************************************)
(* What Dispatch guarantees for any operations, any number of samples and  *)
(* of lost, late or repeated messages: receipts are honest, nothing is     *)
(* begun before it is claimed nor before what was posted earlier is        *)
(* settled, and the registry's observation never goes back.                *)
(*                                                                         *)
(* The proof first says what one step can do to an operation (Moves), and  *)
(* then keeps one small invariant per concern: the queue, the journal, the *)
(* messages under way, the cycle, the order, the effects, the reports.     *)
(***************************************************************************)
EXTENDS Dispatch, WellFoundedInduction, TLAPS

-----------------------------------------------------------------------------
(* The inductive invariant.                                                *)

Working == {"claim", "authorize", "run", "receipt"}
Listed == {"entry"} \cup Working
Active == {"fetch"} \cup Listed

\* TypeOK, with the report of the observation unbounded, and where the cycle
\* has something in its hand.
Typed ==
    /\ posted \in Nat /\ seq \in [Operations -> 0 .. posted]
    /\ status \in [Operations -> {"none", "pending", "claimed"} \cup Final]
    /\ placement \in [generation : 1 .. MaxGeneration, here : BOOLEAN]
    /\ assigned \subseteq 1 .. MaxGeneration
    /\ session \in [id : Nat, sequence : Nat]
    /\ report \in Nat
    /\ state \in [session : 0 .. session.id, next : Nat]
    /\ journal \in [Operations -> [phase : {"none", "claiming", "claimed", "executed"},
                                   verdict : Final \cup {None}]]
    /\ cycle \in [at : Stages, todo : SUBSET Operations, fetched : BOOLEAN,
                  message : Messages \cup {None}, again : BOOLEAN]
    /\ late \subseteq Messages
    /\ worker \in [Operations -> {"none", "pending"} \cup Final]
    /\ taken \in 0 .. MaxReports
    /\ faults \in 0 .. MaxFaults

InHand ==
    /\ cycle.at \in Working => cycle.todo # {}
    /\ cycle.at = "post" \/ cycle.again => cycle.message # None
    /\ cycle.message # None => cycle.message.kind = "report"

QueueOK ==
    /\ \A o \in Operations : seq[o] = 0 <=> status[o] = "none"
    /\ \A o, p \in Operations : seq[o] = seq[p] /\ seq[o] # 0 => o = p

\* An entry and the registry's status of its operation.
Matches(e, s) ==
    /\ e.phase = "none" => s # "claimed"
    /\ e.phase = "claiming" => s \in {"pending", "claimed"}
    /\ e.phase = "claimed" => s = "claimed"
    /\ e.phase = "executed" => e.verdict \in Final /\ s \in {"claimed", e.verdict}
    /\ e.phase # "executed" => e.verdict = None

JournalOK == \A o \in Operations : Matches(journal[o], status[o])

\* A message under way was sent for a phase that is not over, or is settled.
LateOK ==
    \A m \in late :
        /\ m.kind = "claim" => journal[m.op].phase # "none" \/ status[m.op] \in Final
        /\ m.kind = "final" => \/ /\ journal[m.op].phase = "executed"
                                  /\ journal[m.op].verdict = m.verdict
                               \/ status[m.op] = m.verdict

\* The journaled operations are in hand, and so is everything before them.
CycleOK ==
    /\ cycle.at \in Listed =>
         /\ Journaled \subseteq cycle.todo
         /\ \A o \in cycle.todo : /\ seq[o] # 0
                                  /\ journal[o].phase = "none" => status[o] = "pending"
                                  /\ \A p \in Operations : Before(p, o) =>
                                        status[p] \in Final \/ p \in cycle.todo
    /\ cycle.at = "fetch" => Journaled = {}
    /\ cycle.at = "claim" => journal[Op].phase = "claiming"
    /\ cycle.at \in {"authorize", "run"} => journal[Op].phase = "claimed"
    /\ cycle.at = "receipt" => journal[Op].phase = "executed"

Ordered ==
    \A o, p \in Operations :
        journal[o].phase # "none" /\ Before(p, o) =>
            journal[p].phase # "none" \/ status[p] \in Final

\* A verdict about an operation, given what the worker did.
Honest(o, v, did) ==
    /\ v = "completed" => did = "completed"
    /\ v = "failed" /\ KindOf[o] = "worker" => did \in {"none", "failed"}

DoneOK ==
    \A o \in Operations :
        /\ worker[o] # "none" => status[o] \in {"claimed"} \cup Final
        /\ Honest(o, status[o], worker[o])
        /\ Honest(o, journal[o].verdict, worker[o])

Work == Typed /\ InHand /\ QueueOK /\ JournalOK /\ LateOK /\ CycleOK

-----------------------------------------------------------------------------
(* The entry in hand.                                                      *)

LEMMA LeastExists ==
    ASSUME NEW S \in SUBSET Nat, S # {}
    PROVE  \E m \in S : \A n \in S : m <= n
<1> DEFINE R == OpToRel(<, Nat)
<1>1. IsWellFoundedOn(R, Nat)
  BY NatLessThanWellFounded
<1>2. \A m, n \in Nat : m < n => <<m, n>> \in R
  BY DEF OpToRel
<1> HIDE DEF R
<1>3. \E m \in S : \A n \in S : ~(<<n, m>> \in R)
  BY <1>1, WFMin
<1>4. PICK m \in S : \A n \in S : ~(<<n, m>> \in R)
  BY <1>3
<1>5. \A n \in S : n \in Nat /\ m \in Nat /\ ~(n < m)
  BY <1>2, <1>4
<1> QED BY <1>5

LEMMA OpIsFirst ==
    ASSUME Typed, cycle.todo # {}
    PROVE  /\ Op \in cycle.todo /\ Op \in Operations
           /\ \A p \in cycle.todo : seq[Op] <= seq[p]
<1> DEFINE S == {seq[o] : o \in cycle.todo}
<1>1. cycle.todo \subseteq Operations
  BY DEF Typed
<1>2. S \in SUBSET Nat /\ S # {}
  BY <1>1 DEF Typed
<1>3. \E o \in cycle.todo : \A p \in cycle.todo : seq[o] <= seq[p]
  <2>1. PICK m \in S : \A n \in S : m <= n
    <3> HIDE DEF S
    <3> QED BY <1>2, LeastExists
  <2> QED BY <2>1
<1> QED BY <1>1, <1>3 DEF Op

\* The same entry is in hand after a step that keeps what is in hand.
LEMMA SameOp ==
    ASSUME Typed, Typed', QueueOK, cycle.todo # {}, cycle'.todo = cycle.todo,
           \A o \in cycle.todo : seq[o] # 0 /\ seq'[o] = seq[o]
    PROVE  Op' = Op
<1>1. Op \in cycle.todo /\ Op \in Operations /\ \A p \in cycle.todo : seq[Op] <= seq[p]
  BY OpIsFirst
<1>2. cycle'.todo # {} => /\ Op' \in cycle'.todo
                          /\ \A p \in cycle'.todo : seq'[Op'] <= seq'[p]
  <2> DEFINE S == {seq'[o] : o \in cycle'.todo}
  <2>1. cycle'.todo \subseteq Operations
    BY DEF Typed
  <2>2. ASSUME cycle'.todo # {} PROVE \E o \in cycle'.todo : \A p \in cycle'.todo : seq'[o] <= seq'[p]
    <3>1. S \in SUBSET Nat /\ S # {}
      BY <2>1, <2>2 DEF Typed
    <3>2. PICK m \in S : \A n \in S : m <= n
      <4> HIDE DEF S
      <4> QED BY <3>1, LeastExists
    <3> QED BY <3>2
  <2> QED BY <2>2 DEF Op
<1>3. Op' \in cycle.todo /\ seq[Op'] <= seq[Op] /\ seq[Op] <= seq[Op']
  BY <1>1, <1>2
<1>4. Op' \in Operations /\ seq[Op] \in Nat /\ seq[Op'] \in Nat
  BY <1>1, <1>3 DEF Typed
<1>5. seq[Op] = seq[Op']
  BY <1>3, <1>4
<1> QED BY <1>1, <1>3, <1>4, <1>5 DEF QueueOK

-----------------------------------------------------------------------------
(* What a message does to the registry.                                    *)

LEMMA MessageKinds ==
    ASSUME NEW m \in Messages
    PROVE  \/ m.kind = "claim" /\ m.op \in Operations
           \/ m.kind = "final" /\ m.op \in Operations /\ m.verdict \in Final
           \/ /\ m.kind = "report"
              /\ m.session \in Nat /\ m.sequence \in Nat /\ m.sample \in Nat
  BY DEF Messages

LEMMA ClaimHandled ==
    ASSUME Typed, NEW m, m.kind = "claim", m.op \in Operations, Handle(m)
    PROVE  /\ status'[m.op] = IF status[m.op] = "pending" THEN "claimed" ELSE status[m.op]
           /\ \A o \in Operations \ {m.op} : status'[o] = status[o]
           /\ status' \in [Operations -> {"none", "pending", "claimed"} \cup Final]
           /\ UNCHANGED <<session, report>>
<1>1. TakeClaim(m.op)
  BY DEF Handle, Accepts
<1> QED BY <1>1 DEF TakeClaim, Typed

LEMMA FinalHandled ==
    ASSUME Typed, NEW m, m.kind = "final", m.op \in Operations, m.verdict \in Final,
           Handle(m)
    PROVE  /\ \/ status[m.op] \in {"claimed", m.verdict} /\ status'[m.op] = m.verdict
              \/ status[m.op] \notin {"claimed", m.verdict} /\ status'[m.op] = status[m.op]
           /\ \A o \in Operations \ {m.op} : status'[o] = status[o]
           /\ status' \in [Operations -> {"none", "pending", "claimed"} \cup Final]
           /\ UNCHANGED <<session, report>>
<1>1. CASE Accepts(m)
  <2>1. status[m.op] \in {"claimed", m.verdict} /\ TakeFinal(m.op, m.verdict)
    BY <1>1 DEF Handle, Accepts
  <2> QED BY <2>1 DEF TakeFinal, Typed
<1>2. CASE ~Accepts(m)
  BY <1>2 DEF Handle, Accepts, Typed
<1> QED BY <1>1, <1>2

LEMMA ReportHandled ==
    ASSUME Typed, NEW m, m.kind = "report", m.sequence \in Nat, m.sample \in Nat, Handle(m)
    PROVE  /\ UNCHANGED status
           /\ \/ UNCHANGED <<session, report>>
              \/ /\ m.session = session.id /\ m.sequence > session.sequence
                 /\ session'.id = session.id /\ session'.sequence = m.sequence
                 /\ report' = m.sample
           /\ session' \in [id : Nat, sequence : Nat] /\ session'.id = session.id
           /\ report' \in Nat
<1>1. CASE Accepts(m)
  <2>1. /\ m.session = session.id /\ m.sequence > session.sequence
        /\ TakeReport(m.sequence, m.sample)
    BY <1>1 DEF Handle, Accepts
  <2> QED BY <2>1 DEF TakeReport, Typed
<1>2. CASE ~Accepts(m)
  BY <1>2 DEF Handle, Typed
<1> QED BY <1>1, <1>2

-----------------------------------------------------------------------------
(* What one step can do.                                                   *)

StatusMove(o) ==
    \/ status'[o] = status[o]
    \/ status[o] = "pending" /\ status'[o] = "claimed" /\ journal[o].phase = "claiming"
    \/ /\ status[o] = "claimed" /\ journal[o].phase = "executed"
       /\ status'[o] = journal[o].verdict

JournalMove(o) ==
    \/ journal'[o] = journal[o]
    \/ /\ journal[o].phase = "none" /\ cycle.at = "entry" /\ cycle.todo # {} /\ o = Op
       /\ journal'[o].phase = "claiming" /\ journal'[o].verdict = None
       /\ status[o] = "pending" /\ status'[o] = "pending"
    \/ /\ journal[o].phase = "claiming" /\ status'[o] = "claimed"
       /\ journal'[o].phase = "claimed" /\ journal'[o].verdict = None
    \/ /\ journal[o].phase = "claimed" /\ status'[o] = status[o]
       /\ journal'[o].phase = "executed" /\ journal'[o].verdict \in Final
       /\ Honest(o, journal'[o].verdict, worker'[o])
    \/ /\ journal[o].phase = "executed" /\ status'[o] = journal[o].verdict
       /\ journal'[o].phase = "none" /\ journal'[o].verdict = None

WorkerMove(o) ==
    \/ worker'[o] = worker[o]
    \/ /\ cycle.at = "run" /\ o = Op /\ journal[o].phase = "claimed"
       /\ status'[o] = status[o]
    \/ /\ worker[o] = "pending" /\ KindOf[o] = "worker"
       /\ status'[o] = status[o] /\ journal'[o] = journal[o]

LateMove ==
    \A m \in late' :
        \/ m \in late
        \/ m.kind = "report"
        \/ m.kind = "claim" /\ journal'[m.op].phase = "claiming"
        \/ /\ m.kind = "final" /\ journal'[m.op].phase = "executed"
           /\ journal'[m.op].verdict = m.verdict

\* Of all entries only the one in hand changes, if any.
OnlyOp == \A o \in Operations : o # Op => journal'[o] = journal[o]

CycleMove ==
    \/ cycle'.at \notin Active
    \/ cycle'.at = cycle.at /\ cycle'.todo = cycle.todo /\ journal' = journal
    \/ cycle'.at = "entry" /\ cycle'.todo = Journaled /\ journal' = journal
    \/ /\ cycle.at = "fetch" /\ cycle'.at = "entry"
       /\ cycle'.todo = Pending \ Journaled /\ journal' = journal
    \/ /\ cycle.at = "entry" /\ cycle.todo = {}
       /\ cycle'.at = "fetch" /\ journal' = journal
    \/ /\ cycle.at = "entry" /\ cycle.todo # {} /\ cycle'.todo = cycle.todo
       /\ cycle'.at = NextStage(journal[Op].phase)
       /\ journal'[Op].phase = IF journal[Op].phase = "none" THEN "claiming"
                               ELSE journal[Op].phase
       /\ OnlyOp
    \/ /\ cycle.at = "claim" /\ cycle'.at = "authorize" /\ cycle'.todo = cycle.todo
       /\ journal'[Op].phase = "claimed" /\ OnlyOp
    \/ /\ cycle.at = "authorize" /\ cycle'.at = "run" /\ cycle'.todo = cycle.todo
       /\ journal' = journal
    \/ /\ cycle.at \in {"authorize", "run"} /\ cycle'.at = "receipt"
       /\ cycle'.todo = cycle.todo
       /\ journal'[Op].phase = "executed" /\ OnlyOp
    \/ /\ cycle.at = "receipt" /\ cycle'.at = "entry"
       /\ cycle'.todo = cycle.todo \ {Op} /\ status'[Op] \in Final
       /\ journal'[Op].phase = "none" /\ OnlyOp

Moves ==
    /\ UNCHANGED <<posted, seq>>
    /\ \A o \in Operations : StatusMove(o) /\ JournalMove(o) /\ WorkerMove(o)
    /\ LateMove
    /\ CycleMove

PostMove ==
    /\ UNCHANGED <<journal, cycle, late, worker>>
    /\ \E o \in Operations :
         /\ status[o] = "none" /\ status'[o] = "pending"
         /\ seq'[o] = posted + 1
         /\ \A p \in Operations \ {o} : status'[p] = status[p] /\ seq'[p] = seq[p]

\* Steps that touch no operation.
Quiet ==
    /\ UNCHANGED <<posted, seq, status, journal, worker>>
    /\ \A m \in late' : m \in late \/ m.kind = "report"
    /\ \/ cycle'.at \notin Active
       \/ cycle'.at = cycle.at /\ cycle'.todo = cycle.todo

LEMMA QuietMoves == Quiet => Moves
  BY DEF Quiet, Moves, StatusMove, JournalMove, WorkerMove, LateMove, CycleMove

LEMMA IdleMoves == cycle' = Idle => cycle'.at \notin Active
  BY DEF Idle, Active, Listed, Working

\* A claim sent for the entry in hand.
LEMMA ClaimMoves ==
    ASSUME Work, Claim
    PROVE  Moves
<1> USE NoneAssumption
<1> DEFINE o == Op
           m == [kind |-> "claim", op |-> o]
<1>1. /\ cycle.at = "claim" /\ cycle.todo # {}
      /\ o \in cycle.todo /\ o \in Operations
      /\ journal[o].phase = "claiming"
  BY OpIsFirst DEF Claim, At, Work, InHand, Working, CycleOK
<1>2. /\ m.kind = "claim" /\ m.op = o
      /\ UNCHANGED <<posted, seq, worker>>
      /\ \/ /\ Handle(m) /\ journal' = [journal EXCEPT ![o].phase = "claimed"]
            /\ cycle' = [cycle EXCEPT !.at = "authorize"] /\ UNCHANGED late
         \/ /\ journal' = journal /\ cycle' = Idle
            /\ \/ UNCHANGED <<status, late>>
               \/ late' = late \cup {m} /\ UNCHANGED status
               \/ Handle(m) /\ UNCHANGED late
  BY DEF Claim, NoAnswer, Goto
<1> HIDE DEF m, o
<1>3. ASSUME Handle(m)
      PROVE  /\ status'[o] = "claimed"
             /\ StatusMove(o)
             /\ \A p \in Operations \ {o} : status'[p] = status[p]
  <2>1. /\ status'[o] = IF status[o] = "pending" THEN "claimed" ELSE status[o]
        /\ \A p \in Operations \ {o} : status'[p] = status[p]
    BY <1>1, <1>2, <1>3, ClaimHandled DEF Work
  <2>2. status[o] \in {"pending", "claimed"}
    BY <1>1 DEF Work, JournalOK, Matches
  <2> QED BY <1>1, <2>1, <2>2 DEF StatusMove
<1>4. journal[o].verdict = None
  BY <1>1 DEF Work, JournalOK, Matches
<1>5. CASE /\ Handle(m) /\ journal' = [journal EXCEPT ![o].phase = "claimed"]
           /\ cycle' = [cycle EXCEPT !.at = "authorize"] /\ UNCHANGED late
  <2>1. /\ journal'[o].phase = "claimed" /\ journal'[o].verdict = None
        /\ \A p \in Operations \ {o} : journal'[p] = journal[p]
        /\ cycle'.at = "authorize" /\ cycle'.todo = cycle.todo
    BY <1>1, <1>4, <1>5 DEF Work, Typed
  <2>2. \A p \in Operations : StatusMove(p) /\ JournalMove(p) /\ WorkerMove(p)
    BY <1>1, <1>2, <1>3, <1>5, <2>1 DEF StatusMove, JournalMove, WorkerMove
  <2>3. CycleMove
    BY <1>1, <2>1 DEF CycleMove, OnlyOp, o
  <2>4. LateMove
    BY <1>5 DEF LateMove
  <2> QED BY <1>2, <2>2, <2>3, <2>4 DEF Moves
<1>6. CASE /\ journal' = journal /\ cycle' = Idle
           /\ \/ UNCHANGED <<status, late>>
              \/ late' = late \cup {m} /\ UNCHANGED status
              \/ Handle(m) /\ UNCHANGED late
  <2>1. \A p \in Operations : StatusMove(p) /\ JournalMove(p) /\ WorkerMove(p)
    BY <1>2, <1>3, <1>6 DEF StatusMove, JournalMove, WorkerMove
  <2>2. LateMove
    BY <1>1, <1>2, <1>6 DEF LateMove
  <2>3. CycleMove
    BY <1>6, IdleMoves DEF CycleMove
  <2> QED BY <1>2, <2>1, <2>2, <2>3 DEF Moves
<1> QED BY <1>2, <1>5, <1>6

\* The receipt of the entry in hand.
LEMMA ReceiptMoves ==
    ASSUME Work, PostReceipt
    PROVE  Moves
<1> USE NoneAssumption
<1> DEFINE o == Op
           v == journal[o].verdict
           m == [kind |-> "final", op |-> o, verdict |-> v]
<1>1. /\ cycle.at = "receipt" /\ cycle.todo # {}
      /\ o \in cycle.todo /\ o \in Operations
      /\ journal[o].phase = "executed"
  BY OpIsFirst DEF PostReceipt, At, Work, InHand, Working, CycleOK
<1>2. v \in Final /\ status[o] \in {"claimed", v}
  BY <1>1 DEF Work, JournalOK, Matches
<1>3. /\ m.kind = "final" /\ m.op = o /\ m.verdict = v
      /\ UNCHANGED <<posted, seq, worker>>
      /\ \/ /\ journal' = journal /\ cycle' = Idle /\ UNCHANGED <<status, late>>
         \/ /\ Handle(m) /\ UNCHANGED late
            /\ journal' = [journal EXCEPT ![o] = NoEntry]
            /\ cycle' = [cycle EXCEPT !.at = "entry", !.todo = cycle.todo \ {o}]
         \/ /\ journal' = journal /\ cycle' = Idle
            /\ \/ UNCHANGED <<status, late>>
               \/ late' = late \cup {m} /\ UNCHANGED status
               \/ Handle(m) /\ UNCHANGED late
  BY DEF PostReceipt, NoAnswer, Uncertain
<1> HIDE DEF m
<1>4. ASSUME Handle(m)
      PROVE  /\ status'[o] = v
             /\ StatusMove(o)
             /\ \A p \in Operations \ {o} : status'[p] = status[p]
  <2>1. /\ \/ status[o] \in {"claimed", v} /\ status'[o] = v
           \/ status[o] \notin {"claimed", v} /\ status'[o] = status[o]
        /\ \A p \in Operations \ {o} : status'[p] = status[p]
    BY <1>1, <1>2, <1>3, <1>4, FinalHandled DEF Work
  <2> QED BY <1>1, <1>2, <2>1 DEF StatusMove
<1> HIDE DEF o, v
<1>5. CASE /\ Handle(m) /\ UNCHANGED late
           /\ journal' = [journal EXCEPT ![o] = NoEntry]
           /\ cycle' = [cycle EXCEPT !.at = "entry", !.todo = cycle.todo \ {o}]
  <2>1. /\ journal'[o].phase = "none" /\ journal'[o].verdict = None
        /\ \A p \in Operations \ {o} : journal'[p] = journal[p]
        /\ cycle'.at = "entry" /\ cycle'.todo = cycle.todo \ {o}
    BY <1>1, <1>5 DEF Work, Typed, NoEntry
  <2>2. \A p \in Operations : StatusMove(p) /\ JournalMove(p) /\ WorkerMove(p)
    BY <1>1, <1>2, <1>3, <1>4, <1>5, <2>1 DEF StatusMove, JournalMove, WorkerMove, v
  <2>3. CycleMove
    BY <1>1, <1>2, <1>4, <1>5, <2>1 DEF CycleMove, OnlyOp, o
  <2>4. LateMove
    BY <1>5 DEF LateMove
  <2> QED BY <1>3, <2>2, <2>3, <2>4 DEF Moves
<1>6. CASE /\ journal' = journal /\ cycle' = Idle
           /\ \/ UNCHANGED <<status, late>>
              \/ late' = late \cup {m} /\ UNCHANGED status
              \/ Handle(m) /\ UNCHANGED late
  <2>1. \A p \in Operations : StatusMove(p) /\ JournalMove(p) /\ WorkerMove(p)
    BY <1>3, <1>4, <1>6 DEF StatusMove, JournalMove, WorkerMove
  <2>2. LateMove
    BY <1>1, <1>3, <1>6 DEF LateMove, v
  <2>3. CycleMove
    BY <1>6, IdleMoves DEF CycleMove
  <2> QED BY <1>3, <2>1, <2>2, <2>3 DEF Moves
<1> QED BY <1>3, <1>5, <1>6

LEMMA EntryMoves ==
    ASSUME Work, Entry
    PROVE  Moves
<1> USE NoneAssumption
<1>1. cycle.at = "entry" /\ UNCHANGED <<posted, seq, status, late, worker>>
  BY DEF Entry, At, queue
<1>2. CASE cycle.todo = {}
  <2>1. journal' = journal
    BY <1>2 DEF Entry
  <2>2. \/ cycle' = Idle
        \/ cycle'.at = "fetch"
    BY <1>2 DEF Entry, Idle
  <2>3. CycleMove
    BY <1>1, <1>2, <2>1, <2>2, IdleMoves DEF CycleMove
  <2> QED BY <1>1, <2>1, <2>3 DEF Moves, StatusMove, JournalMove, WorkerMove, LateMove
<1>3. CASE cycle.todo # {}
  <2> DEFINE o == Op
             e == IF journal[o].phase = "none"
                  THEN [journal[o] EXCEPT !.phase = "claiming"] ELSE journal[o]
  <2>1. o \in Operations
    BY <1>3, OpIsFirst DEF Work
  <2>2. /\ journal' = [journal EXCEPT ![o] = e]
        /\ cycle' = [cycle EXCEPT !.at = NextStage(journal[o].phase)]
    BY <1>3 DEF Entry, Goto
  <2>3. journal[o] \in [phase : {"none", "claiming", "claimed", "executed"},
                        verdict : Final \cup {None}]
    BY <2>1 DEF Work, Typed
  <2>4. /\ e.phase = IF journal[o].phase = "none" THEN "claiming" ELSE journal[o].phase
        /\ e.verdict = journal[o].verdict
        /\ journal[o].phase # "none" => e = journal[o]
    BY <2>3
  <2>5. journal[o].phase = "none" => journal[o].verdict = None /\ status[o] = "pending"
    BY <1>1, <1>3, <2>1, OpIsFirst DEF Work, JournalOK, Matches, CycleOK, Listed
  <2>6. cycle'.at = NextStage(journal[o].phase) /\ cycle'.todo = cycle.todo
    BY <2>2 DEF Work, Typed
  <2> HIDE DEF e, o
  <2>7. journal'[o] = e /\ \A p \in Operations \ {o} : journal'[p] = journal[p]
    BY <2>1, <2>2 DEF Work, Typed
  <2>8. \A p \in Operations : JournalMove(p)
    BY <1>1, <1>3, <2>4, <2>5, <2>7 DEF JournalMove, o
  <2>9. CycleMove
    BY <1>1, <1>3, <2>4, <2>6, <2>7 DEF CycleMove, OnlyOp, o
  <2> QED BY <1>1, <2>8, <2>9 DEF Moves, StatusMove, WorkerMove, LateMove
<1> QED BY <1>2, <1>3

\* What it takes for a verdict to be noted.
LEMMA ExecutedMoves ==
    ASSUME Work, cycle.at \in {"authorize", "run"}, NEW v \in Final, Executed(v),
           UNCHANGED <<posted, seq, status, late>>,
           Honest(Op, v, worker'[Op]),
           worker' = worker \/ (cycle.at = "run" /\ \E did : worker' = [worker EXCEPT ![Op] = did])
    PROVE  Moves
<1> USE NoneAssumption
<1> DEFINE o == Op
           e == [phase |-> "executed", verdict |-> v]
<1>1. o \in Operations /\ journal[o].phase = "claimed"
  BY OpIsFirst DEF Work, InHand, Working, CycleOK
<1>2. /\ journal' = [journal EXCEPT ![o] = e]
      /\ cycle' = [cycle EXCEPT !.at = "receipt"]
      /\ e.phase = "executed" /\ e.verdict = v
  BY DEF Executed, Goto
<1>3. cycle'.at = "receipt" /\ cycle'.todo = cycle.todo
  BY <1>2 DEF Work, Typed
<1> HIDE DEF e
<1>4. /\ journal'[o].phase = "executed" /\ journal'[o].verdict = v
      /\ \A p \in Operations \ {o} : journal'[p] = journal[p]
  BY <1>1, <1>2 DEF Work, Typed
<1>5. \A p \in Operations : JournalMove(p)
  BY <1>1, <1>4 DEF JournalMove
<1>6. \A p \in Operations : WorkerMove(p)
  BY <1>1 DEF WorkerMove, Work, Typed
<1>7. CycleMove
  BY <1>3, <1>4 DEF CycleMove, OnlyOp
<1> QED BY <1>5, <1>6, <1>7 DEF Moves, StatusMove, LateMove

LEMMA AuthorizeMoves ==
    ASSUME Work, DoneOK, Authorize
    PROVE  Moves
<1>1. cycle.at = "authorize" /\ UNCHANGED <<posted, seq, status, late, worker>>
  BY DEF Authorize, At, queue
<1>2. CASE Goto("run") /\ UNCHANGED journal
  <2>1. cycle'.at = "run" /\ cycle'.todo = cycle.todo
    BY <1>2 DEF Goto, Work, Typed
  <2> QED BY <1>1, <1>2, <2>1 DEF Moves, StatusMove, JournalMove, WorkerMove, LateMove, CycleMove
<1>3. CASE worker[Op] = "none" /\ Executed("failed")
  <2>1. Honest(Op, "failed", worker'[Op]) /\ "failed" \in Final
    BY <1>1, <1>3 DEF Honest, Final
  <2> QED BY <1>1, <1>3, <2>1, ExecutedMoves
<1>4. CASE cycle' = Idle /\ UNCHANGED journal
  BY <1>1, <1>4, IdleMoves, QuietMoves DEF Quiet
<1> QED BY <1>2, <1>3, <1>4 DEF Authorize

LEMMA UncertainMoves ==
    ASSUME Work, cycle.at = "run", Uncertain, UNCHANGED <<posted, seq, status, late>>,
           NEW did, worker' = [worker EXCEPT ![Op] = did]
    PROVE  Moves
<1>1. Op \in Operations /\ journal[Op].phase = "claimed"
  BY OpIsFirst DEF Work, InHand, Working, CycleOK
<1>2. \A p \in Operations : WorkerMove(p)
  BY <1>1 DEF WorkerMove, Work, Typed
<1>3. CycleMove
  BY IdleMoves DEF Uncertain, CycleMove
<1> QED BY <1>2, <1>3 DEF Moves, StatusMove, JournalMove, LateMove, Uncertain

LEMMA RunMoves ==
    ASSUME Work, DoneOK, RunWorker \/ RunProgram
    PROVE  Moves
<1>1. cycle.at = "run" /\ UNCHANGED <<posted, seq, status, late>>
  BY DEF RunWorker, RunProgram, At, queue
<1>2. Op \in Operations
  BY <1>1, OpIsFirst DEF Work, InHand, Working
<1>3. CASE RunWorker
  <2>1. PICK outcome \in Outcomes(Op) :
          /\ worker' = [worker EXCEPT ![Op] = outcome]
          /\ IF outcome \in Final THEN Executed(outcome) ELSE Uncertain
    BY <1>3 DEF RunWorker
  <2>2. CASE outcome \in Final
    <3>1. Honest(Op, outcome, worker'[Op])
      BY <1>2, <2>1, <2>2 DEF Honest, Work, Typed
    <3> QED BY <1>1, <2>1, <2>2, <3>1, ExecutedMoves
  <2>3. CASE outcome \notin Final
    BY <1>1, <2>1, <2>3, UncertainMoves
  <2> QED BY <2>2, <2>3
<1>4. CASE RunProgram
  <2>1. PICK outcome \in Outcomes(Op) :
          /\ worker' = [worker EXCEPT ![Op] = IF outcome = "failed" THEN worker[Op] ELSE outcome]
          /\ \/ outcome = "pending" /\ Uncertain
             \/ outcome = "completed" /\ Executed("completed")
             \/ Executed("failed")
    BY <1>4 DEF RunProgram
  <2>2. KindOf[Op] = "cli"
    BY <1>4 DEF RunProgram
  <2>3. CASE Uncertain
    BY <1>1, <2>1, <2>3, UncertainMoves
  <2>4. CASE outcome = "completed" /\ Executed("completed")
    <3>1. Honest(Op, "completed", worker'[Op]) /\ "completed" \in Final
      BY <1>2, <2>1, <2>4 DEF Honest, Work, Typed, Final
    <3> QED BY <1>1, <2>1, <2>4, <3>1, ExecutedMoves
  <2>5. CASE Executed("failed")
    <3>1. Honest(Op, "failed", worker'[Op]) /\ "failed" \in Final
      BY <2>2 DEF Honest, Final
    <3> QED BY <1>1, <2>1, <2>5, <3>1, ExecutedMoves
  <2> QED BY <2>1, <2>3, <2>4, <2>5
<1> QED BY <1>3, <1>4

LEMMA ArriveMoves ==
    ASSUME Work, NEW m \in late, Arrive(m)
    PROVE  Moves
<1>1. /\ UNCHANGED <<posted, seq, journal, cycle, worker>>
      /\ Handle(m) /\ late' = late \ {m} /\ m \in Messages
  BY DEF Arrive, Work, Typed
<1>2. CASE m.kind = "claim"
  <2>1. m.op \in Operations
    BY <1>1, <1>2, MessageKinds
  <2>2. /\ status'[m.op] = IF status[m.op] = "pending" THEN "claimed" ELSE status[m.op]
        /\ \A o \in Operations \ {m.op} : status'[o] = status[o]
    BY <1>1, <1>2, <2>1, ClaimHandled DEF Work
  <2>3. status[m.op] = "pending" => journal[m.op].phase = "claiming"
    BY <1>2, <2>1 DEF Work, LateOK, JournalOK, Matches, Typed, Final
  <2>4. \A o \in Operations : StatusMove(o)
    BY <2>1, <2>2, <2>3 DEF StatusMove
  <2> QED BY <1>1, <2>4 DEF Moves, JournalMove, WorkerMove, LateMove, CycleMove
<1>3. CASE m.kind = "final"
  <2>1. m.op \in Operations /\ m.verdict \in Final
    BY <1>1, <1>3, MessageKinds
  <2>2. /\ \/ status[m.op] \in {"claimed", m.verdict} /\ status'[m.op] = m.verdict
           \/ status[m.op] \notin {"claimed", m.verdict} /\ status'[m.op] = status[m.op]
        /\ \A o \in Operations \ {m.op} : status'[o] = status[o]
    BY <1>1, <1>3, <2>1, FinalHandled DEF Work
  <2>3. status[m.op] = "claimed" => /\ journal[m.op].phase = "executed"
                                    /\ journal[m.op].verdict = m.verdict
    BY <1>3, <2>1 DEF Work, LateOK, Final
  <2>4. \A o \in Operations : StatusMove(o)
    BY <2>1, <2>2, <2>3 DEF StatusMove
  <2> QED BY <1>1, <2>4 DEF Moves, JournalMove, WorkerMove, LateMove, CycleMove
<1>4. CASE m.kind = "report"
  <2>1. status' = status
    BY <1>1, <1>4, MessageKinds, ReportHandled DEF Work
  <2> QED BY <1>1, <2>1, QuietMoves DEF Quiet
<1> QED BY <1>1, <1>2, <1>3, <1>4, MessageKinds

LEMMA CycleMoves ==
    ASSUME Work, DoneOK, Cycle
    PROVE  Moves
<1>1. CASE Begin
  <2>1. cycle'.at \notin Active
    BY <1>1 DEF Begin, Goto, Work, Typed, Active, Listed, Working
  <2> QED BY <1>1, <2>1, QuietMoves DEF Begin, Quiet, queue
<1>2. CASE Open
  <2>1. cycle'.at \notin Active
    BY <1>2 DEF Open, Goto, Idle, Work, Typed, Active, Listed, Working
  <2> QED BY <1>2, <2>1, QuietMoves DEF Open, Quiet, queue
<1>3. CASE Sample
  <2>1. cycle'.at \notin Active
    BY <1>3 DEF Sample, Goto, Work, Typed, Active, Listed, Working
  <2> QED BY <1>3, <2>1, QuietMoves DEF Sample, Quiet, queue
<1>4. CASE PostObservation
  <2> DEFINE m == cycle.message
  <2>1. m \in Messages /\ m.kind = "report"
    BY <1>4, NoneAssumption DEF PostObservation, At, Work, InHand, Typed
  <2>2. cycle'.at \notin Active /\ UNCHANGED <<posted, seq, journal, worker>>
    <3>1. \/ cycle' = Idle
          \/ cycle' = [Idle EXCEPT !.at = "resume"]
          \/ cycle' = [cycle EXCEPT !.at = "open", !.again = TRUE]
      BY <1>4 DEF PostObservation, NoAnswer
    <3>2. cycle'.at \in {"idle", "resume", "open"}
      <4>1. CASE cycle' = Idle \/ cycle' = [Idle EXCEPT !.at = "resume"]
        BY <4>1 DEF Idle
      <4>2. CASE cycle' = [cycle EXCEPT !.at = "open", !.again = TRUE]
        BY <4>2 DEF Work, Typed
      <4> QED BY <3>1, <4>1, <4>2
    <3>3. cycle'.at \notin Active
      BY <3>2 DEF Active, Listed, Working
    <3> QED BY <1>4, <3>3 DEF PostObservation
  <2>3. status' = status /\ \A n \in late' : n \in late \/ n.kind = "report"
    <3>1. Handle(m) => status' = status
      BY <2>1, MessageKinds, ReportHandled DEF Work
    <3>2. /\ Handle(m) \/ status' = status
          /\ late' = late \/ late' = late \cup {m}
      BY <1>4 DEF PostObservation, NoAnswer
    <3> HIDE DEF m
    <3> QED BY <2>1, <3>1, <3>2
  <2> QED BY <2>2, <2>3, QuietMoves DEF Quiet
<1>5. CASE Resume
  <2>1. /\ cycle'.at = "entry" /\ cycle'.todo = Journaled
        /\ UNCHANGED <<posted, seq, status, journal, late, worker>>
    BY <1>5 DEF Resume, Idle, queue
  <2> QED BY <2>1 DEF Moves, StatusMove, JournalMove, WorkerMove, LateMove, CycleMove
<1>6. CASE Fetch
  <2>1. /\ cycle.at = "fetch"
        /\ UNCHANGED <<posted, seq, status, journal, late, worker>>
        /\ \/ cycle'.at = "entry" /\ cycle'.todo = Pending \ Journaled
           \/ cycle' = Idle
    BY <1>6 DEF Fetch, At, Idle, queue
  <2>2. CycleMove
    BY <2>1, IdleMoves DEF CycleMove
  <2> QED BY <2>1, <2>2 DEF Moves, StatusMove, JournalMove, WorkerMove, LateMove
<1> QED BY <1>1, <1>2, <1>3, <1>4, <1>5, <1>6, EntryMoves, ClaimMoves, AuthorizeMoves,
           RunMoves, ReceiptMoves DEF Cycle

LEMMA StepMoves ==
    ASSUME Work, DoneOK, [Next]_vars
    PROVE  Moves \/ PostMove
<1>1. CASE UNCHANGED vars
  BY <1>1, QuietMoves DEF vars, queue, Quiet
<1>2. ASSUME NEW o \in Operations, Post(o) PROVE PostMove
  BY <1>2 DEF Post, PostMove, Work, Typed
<1>3. ASSUME NEW o \in Operations, Resumed(o) PROVE Moves
  <2>1. /\ UNCHANGED <<posted, seq, status, journal, cycle, late>>
        /\ KindOf[o] = "worker" /\ worker[o] = "pending"
        /\ \A p \in Operations \ {o} : worker'[p] = worker[p]
    BY <1>3 DEF Resumed, queue, Work, Typed
  <2> QED BY <2>1 DEF Moves, StatusMove, JournalMove, WorkerMove, LateMove, CycleMove
<1>4. CASE (\E here \in BOOLEAN : Assign(here)) \/ LoseSession
  BY <1>4, QuietMoves DEF Assign, LoseSession, Quiet, queue
<1>5. CASE Die
  BY <1>5, QuietMoves, IdleMoves DEF Die, Quiet, queue
<1> QED BY <1>1, <1>2, <1>3, <1>4, <1>5, CycleMoves, ArriveMoves DEF Next

-----------------------------------------------------------------------------
(* One invariant after the other.                                          *)

\* What every step does to an operation, whatever else it does.
LEMMA StatusGoesOn ==
    ASSUME Work, Moves, NEW o \in Operations
    PROVE  /\ status[o] \in Final => status'[o] = status[o]
           /\ status[o] = "claimed" => status'[o] \in {"claimed"} \cup Final
           /\ status[o] = "none" <=> status'[o] = "none"
           /\ status[o] = "pending" => status'[o] \in {"pending", "claimed"}
<1>1. StatusMove(o) /\ Matches(journal[o], status[o])
  BY DEF Moves, Work, JournalOK
<1> QED BY <1>1 DEF StatusMove, Matches, Final

LEMMA QueueStep ==
    ASSUME Work, Typed', Moves \/ PostMove
    PROVE  QueueOK'
<1>1. CASE Moves
  <2>1. seq' = seq
    BY <1>1 DEF Moves
  <2> QED BY <1>1, <2>1, StatusGoesOn DEF Work, QueueOK
<1>2. CASE PostMove
  <2>1. PICK o \in Operations :
          /\ status[o] = "none" /\ status'[o] = "pending"
          /\ seq'[o] = posted + 1
          /\ \A p \in Operations \ {o} : status'[p] = status[p] /\ seq'[p] = seq[p]
    BY <1>2 DEF PostMove
  <2>2. \A p \in Operations : seq[p] \in 0 .. posted /\ posted \in Nat
    BY DEF Work, Typed
  <2> QED BY <2>1, <2>2 DEF Work, QueueOK
<1> QED BY <1>1, <1>2

LEMMA JournalStep ==
    ASSUME Work, Moves \/ PostMove
    PROVE  JournalOK'
<1> SUFFICES ASSUME NEW o \in Operations PROVE Matches(journal'[o], status'[o])
  BY DEF JournalOK
<1>1. Matches(journal[o], status[o])
  BY DEF Work, JournalOK
<1>2. CASE Moves
  <2>1. StatusMove(o) /\ JournalMove(o)
    BY <1>2 DEF Moves
  <2>2. CASE journal'[o] = journal[o]
    <3>1. status'[o] # status[o] => journal[o].phase \in {"claiming", "executed"}
      BY <2>1 DEF StatusMove
    <3> QED BY <1>1, <2>1, <2>2, <3>1 DEF StatusMove, Matches, Final
  <2>3. CASE journal'[o] # journal[o]
    <3>1. \/ /\ journal[o].phase = "none" /\ status'[o] = status[o] /\ status[o] = "pending"
             /\ journal'[o].phase = "claiming" /\ journal'[o].verdict = None
          \/ /\ journal[o].phase = "claiming" /\ status'[o] = "claimed"
             /\ journal'[o].phase = "claimed" /\ journal'[o].verdict = None
          \/ /\ journal[o].phase = "claimed" /\ status'[o] = status[o]
             /\ journal'[o].phase = "executed" /\ journal'[o].verdict \in Final
          \/ /\ journal[o].phase = "executed" /\ status'[o] = journal[o].verdict
             /\ journal'[o].phase = "none" /\ journal'[o].verdict = None
      BY <2>1, <2>3 DEF JournalMove
    <3> QED BY <1>1, <3>1 DEF Matches, Final
  <2> QED BY <2>2, <2>3
<1>3. CASE PostMove
  <2>1. /\ journal' = journal
        /\ \/ status'[o] = status[o]
           \/ (status[o] = "none" /\ status'[o] = "pending")
    BY <1>3 DEF PostMove
  <2>2. journal[o].phase \in {"none", "claiming", "claimed", "executed"}
    BY DEF Work, Typed
  <2> QED BY <1>1, <2>1, <2>2 DEF Matches, Final
<1> QED BY <1>2, <1>3

LEMMA LateStep ==
    ASSUME Work, Typed', Moves \/ PostMove
    PROVE  LateOK'
<1> SUFFICES ASSUME NEW m \in late'
             PROVE  /\ m.kind = "claim" =>
                         journal'[m.op].phase # "none" \/ status'[m.op] \in Final
                    /\ m.kind = "final" => \/ /\ journal'[m.op].phase = "executed"
                                              /\ journal'[m.op].verdict = m.verdict
                                           \/ status'[m.op] = m.verdict
  BY DEF LateOK
<1>1. m \in Messages
  BY DEF Typed
<1>2. CASE m.kind = "report"
  BY <1>2
<1>3. CASE m.kind # "report"
  <2>1. m.op \in Operations /\ (m.kind = "final" => m.verdict \in Final)
    BY <1>1, <1>3, MessageKinds
  <2>2. Matches(journal[m.op], status[m.op])
    BY <2>1 DEF Work, JournalOK
  <2>3. CASE Moves
    <3>1. StatusMove(m.op) /\ JournalMove(m.op)
      BY <2>1, <2>3 DEF Moves
    <3>2. CASE m \in late
      <4>1. /\ m.kind = "claim" => journal[m.op].phase # "none" \/ status[m.op] \in Final
            /\ m.kind = "final" => \/ /\ journal[m.op].phase = "executed"
                                      /\ journal[m.op].verdict = m.verdict
                                   \/ status[m.op] = m.verdict
        BY <3>2 DEF Work, LateOK
      <4> QED BY <2>1, <2>2, <3>1, <4>1 DEF StatusMove, JournalMove, Matches, Final
    <3>3. CASE m \notin late
      BY <1>3, <2>3, <3>3 DEF Moves, LateMove
    <3> QED BY <3>2, <3>3
  <2>4. CASE PostMove
    <3>1. /\ late' = late /\ journal' = journal
          /\ status'[m.op] = status[m.op] \/ status[m.op] = "none"
      BY <2>1, <2>4 DEF PostMove
    <3> QED BY <2>1, <3>1 DEF Work, LateOK, Final
  <2> QED BY <2>3, <2>4
<1> QED BY <1>2, <1>3

-----------------------------------------------------------------------------
(* The cycle.                                                              *)

\* The list of what is left, against a journal, a status and an order.
Complete(todo, jr, st, sq) ==
    /\ \A o \in Operations : jr[o].phase # "none" => o \in todo
    /\ \A o \in todo : /\ sq[o] # 0
                       /\ jr[o].phase = "none" => st[o] = "pending"
                       /\ \A p \in Operations : 0 < sq[p] /\ sq[p] < sq[o] =>
                             st[p] \in Final \/ p \in todo

LEMMA CycleIs ==
    CycleOK <=>
      /\ cycle.at \in Listed => Complete(cycle.todo, journal, status, seq)
      /\ cycle.at = "fetch" => \A o \in Operations : journal[o].phase = "none"
      /\ cycle.at = "claim" => journal[Op].phase = "claiming"
      /\ cycle.at \in {"authorize", "run"} => journal[Op].phase = "claimed"
      /\ cycle.at = "receipt" => journal[Op].phase = "executed"
  BY DEF CycleOK, Complete, Before, Journaled

LEMMA CycleWas ==
    ASSUME CycleOK
    PROVE  /\ cycle.at \in Listed => Complete(cycle.todo, journal, status, seq)
           /\ cycle.at = "fetch" => \A o \in Operations : journal[o].phase = "none"
           /\ cycle.at = "claim" => journal[Op].phase = "claiming"
           /\ cycle.at \in {"authorize", "run"} => journal[Op].phase = "claimed"
           /\ cycle.at = "receipt" => journal[Op].phase = "executed"
  BY CycleIs

LEMMA CycleWillBe ==
    ASSUME cycle'.at \in Listed => Complete(cycle'.todo, journal', status', seq'),
           cycle'.at = "fetch" => \A o \in Operations : journal'[o].phase = "none",
           cycle'.at = "claim" => journal'[Op'].phase = "claiming",
           cycle'.at \in {"authorize", "run"} => journal'[Op'].phase = "claimed",
           cycle'.at = "receipt" => journal'[Op'].phase = "executed"
    PROVE  CycleOK'
  BY DEF CycleOK, Complete, Before, Journaled

LEMMA CycleAfterMoves ==
    ASSUME Work, Ordered, Typed', InHand', Moves
    PROVE  CycleOK'
<1> USE DEF Listed, Working
<1>1. seq' = seq /\ CycleMove
  BY DEF Moves
<1>2. /\ cycle.at \in Listed => Complete(cycle.todo, journal, status, seq)
      /\ cycle.at = "fetch" => \A o \in Operations : journal[o].phase = "none"
      /\ cycle.at = "claim" => journal[Op].phase = "claiming"
      /\ cycle.at \in {"authorize", "run"} => journal[Op].phase = "claimed"
      /\ cycle.at = "receipt" => journal[Op].phase = "executed"
  BY CycleWas DEF Work
<1>3. /\ \A o \in Operations : status[o] \in Final => status'[o] \in Final
      /\ \A o \in Operations : journal[o].phase = "none" /\ status[o] = "pending" =>
            status'[o] = "pending"
  BY StatusGoesOn DEF Moves, StatusMove
<1>4. cycle.todo \subseteq Operations /\ cycle'.todo \subseteq Operations
  BY DEF Work, Typed
\* What is in hand stays in hand.
<1>5. ASSUME cycle.at \in Listed, cycle.todo # {}, cycle'.todo = cycle.todo
      PROVE  Op' = Op /\ Op \in Operations /\ Op \in cycle.todo
  BY <1>1, <1>2, <1>5, SameOp, OpIsFirst DEF Work, Complete
\* A list kept stays complete, when what is new in the journal is in it.
<1>6. ASSUME cycle.at \in Listed, cycle'.todo = cycle.todo,
             \A o \in Operations : o \notin cycle.todo => journal'[o] = journal[o],
             \A o \in cycle.todo : journal'[o].phase = "none" => journal[o].phase = "none"
      PROVE  Complete(cycle'.todo, journal', status', seq')
  BY <1>1, <1>2, <1>3, <1>4, <1>6 DEF Complete
<1>7. CASE cycle'.at \notin Active
  BY <1>7, CycleWillBe DEF Active
<1>8. CASE cycle'.at = cycle.at /\ cycle'.todo = cycle.todo /\ journal' = journal
  <2>1. cycle'.at \in Working => cycle.todo # {} /\ Op' = Op
    BY <1>5, <1>8 DEF Work, InHand
  <2> QED BY <1>2, <1>6, <1>8, <2>1, CycleWillBe
<1>9. CASE cycle'.at = "entry" /\ cycle'.todo = Journaled /\ journal' = journal
  <2>1. Complete(cycle'.todo, journal', status', seq')
    <3>1. \A o \in cycle'.todo : seq[o] # 0
      <4>1. \A o \in Journaled : Matches(journal[o], status[o]) /\ journal[o].phase # "none"
                                 /\ journal[o].phase \in {"none", "claiming", "claimed", "executed"}
        BY DEF Work, JournalOK, Journaled, Typed
      <4>2. \A o \in Journaled : status[o] # "none"
        BY <4>1 DEF Matches, Final
      <4> QED BY <1>4, <1>9, <4>2 DEF Work, QueueOK
    <3>2. \A o \in cycle'.todo, p \in Operations : 0 < seq[p] /\ seq[p] < seq[o] =>
             status'[p] \in Final \/ p \in cycle'.todo
      BY <1>3, <1>9 DEF Ordered, Before, Journaled
    <3> QED BY <1>1, <1>9, <3>1, <3>2 DEF Complete, Journaled
  <2> QED BY <1>9, <2>1, CycleWillBe
<1>10. CASE /\ cycle.at = "fetch" /\ cycle'.at = "entry"
            /\ cycle'.todo = Pending \ Journaled /\ journal' = journal
  <2>1. \A o \in Operations : journal[o].phase = "none"
    BY <1>2, <1>10
  <2>2. cycle'.todo = Pending
    BY <1>10, <2>1 DEF Journaled, Pending
  <2>3. \A p \in Operations : status[p] \in {"none", "pending"} \cup Final
    BY <2>1 DEF Work, JournalOK, Matches, Typed
  <2>4. \A p \in Operations : 0 < seq[p] => status'[p] \in Final \/ p \in Pending
    BY <1>3, <2>3 DEF Work, QueueOK, Pending
  <2>5. \A p \in Pending : p \in Operations /\ seq[p] # 0 /\ status'[p] = "pending"
    BY <1>3, <2>1 DEF Work, QueueOK, Pending
  <2>6. Complete(cycle'.todo, journal', status', seq')
    BY <1>1, <1>10, <2>1, <2>2, <2>4, <2>5 DEF Complete
  <2> QED BY <1>10, <2>6, CycleWillBe
<1>11. CASE /\ cycle.at = "entry" /\ cycle.todo = {}
            /\ cycle'.at = "fetch" /\ journal' = journal
  BY <1>2, <1>11, CycleWillBe DEF Complete
<1>12. CASE /\ cycle.at = "entry" /\ cycle.todo # {} /\ cycle'.todo = cycle.todo
            /\ cycle'.at = NextStage(journal[Op].phase)
            /\ journal'[Op].phase = IF journal[Op].phase = "none" THEN "claiming"
                                    ELSE journal[Op].phase
            /\ OnlyOp
  <2>1. Op' = Op /\ Op \in Operations /\ Op \in cycle.todo
    BY <1>5, <1>12
  <2>10. /\ \A o \in Operations : o \notin cycle.todo => journal'[o] = journal[o]
        /\ \A o \in cycle.todo : journal'[o].phase = "none" => journal[o].phase = "none"
    BY <1>4, <1>12, <2>1 DEF OnlyOp
  <2>2. Complete(cycle'.todo, journal', status', seq')
    BY <1>6, <1>12, <2>10
  <2>3. journal[Op].phase \in {"none", "claiming", "claimed", "executed"}
    BY <2>1 DEF Work, Typed
  <2>4. \/ cycle'.at = "claim" /\ journal'[Op].phase = "claiming"
        \/ cycle'.at = "authorize" /\ journal'[Op].phase = "claimed"
        \/ cycle'.at = "receipt" /\ journal'[Op].phase = "executed"
    BY <1>12, <2>3 DEF NextStage
  <2> QED BY <2>1, <2>2, <2>4, CycleWillBe
<1>13. CASE /\ cycle.at = "claim" /\ cycle'.at = "authorize" /\ cycle'.todo = cycle.todo
            /\ journal'[Op].phase = "claimed" /\ OnlyOp
  <2>1. Op' = Op /\ Op \in Operations /\ Op \in cycle.todo
    BY <1>5, <1>13 DEF Work, InHand
  <2>10. /\ \A o \in Operations : o \notin cycle.todo => journal'[o] = journal[o]
        /\ \A o \in cycle.todo : journal'[o].phase = "none" => journal[o].phase = "none"
    BY <1>4, <1>13, <2>1 DEF OnlyOp
  <2>2. Complete(cycle'.todo, journal', status', seq')
    BY <1>6, <1>13, <2>10
  <2> QED BY <1>13, <2>1, <2>2, CycleWillBe
<1>14. CASE /\ cycle.at = "authorize" /\ cycle'.at = "run" /\ cycle'.todo = cycle.todo
            /\ journal' = journal
  <2>1. Op' = Op /\ Op \in Operations /\ Op \in cycle.todo
    BY <1>5, <1>14 DEF Work, InHand
  <2>2. Complete(cycle'.todo, journal', status', seq')
    BY <1>6, <1>14, <2>1
  <2> QED BY <1>2, <1>14, <2>1, <2>2, CycleWillBe
<1>15. CASE /\ cycle.at \in {"authorize", "run"} /\ cycle'.at = "receipt"
            /\ cycle'.todo = cycle.todo
            /\ journal'[Op].phase = "executed" /\ OnlyOp
  <2>1. Op' = Op /\ Op \in Operations /\ Op \in cycle.todo
    BY <1>5, <1>15 DEF Work, InHand
  <2>10. /\ \A o \in Operations : o \notin cycle.todo => journal'[o] = journal[o]
        /\ \A o \in cycle.todo : journal'[o].phase = "none" => journal[o].phase = "none"
    BY <1>4, <1>15, <2>1 DEF OnlyOp
  <2>2. Complete(cycle'.todo, journal', status', seq')
    BY <1>6, <1>15, <2>10
  <2> QED BY <1>15, <2>1, <2>2, CycleWillBe
<1>16. CASE /\ cycle.at = "receipt" /\ cycle'.at = "entry"
            /\ cycle'.todo = cycle.todo \ {Op} /\ status'[Op] \in Final
            /\ journal'[Op].phase = "none" /\ OnlyOp
  <2>1. Complete(cycle'.todo, journal', status', seq')
    BY <1>1, <1>2, <1>3, <1>4, <1>16 DEF Complete, OnlyOp
  <2> QED BY <1>16, <2>1, CycleWillBe
<1> QED BY <1>1, <1>7, <1>8, <1>9, <1>10, <1>11, <1>12, <1>13, <1>14, <1>15, <1>16
        DEF CycleMove

LEMMA CycleAfterPost ==
    ASSUME Work, Typed', PostMove
    PROVE  CycleOK'
<1> USE DEF Listed, Working
<1>1. PICK o \in Operations :
        /\ status[o] = "none" /\ status'[o] = "pending"
        /\ seq'[o] = posted + 1
        /\ \A p \in Operations \ {o} : status'[p] = status[p] /\ seq'[p] = seq[p]
  BY DEF PostMove
<1>2. UNCHANGED <<journal, cycle>>
  BY DEF PostMove
<1>3. /\ cycle.at \in Listed => Complete(cycle.todo, journal, status, seq)
      /\ cycle.at = "fetch" => \A p \in Operations : journal[p].phase = "none"
      /\ cycle.at = "claim" => journal[Op].phase = "claiming"
      /\ cycle.at \in {"authorize", "run"} => journal[Op].phase = "claimed"
      /\ cycle.at = "receipt" => journal[Op].phase = "executed"
  BY CycleWas DEF Work
<1>4. cycle.todo \subseteq Operations /\ posted \in Nat
      /\ (\A p \in Operations : seq[p] \in 0 .. posted) /\ seq[o] = 0
  BY <1>1 DEF Work, Typed, QueueOK
<1>5. cycle.at \in Listed => Complete(cycle'.todo, journal', status', seq')
  <2> SUFFICES ASSUME cycle.at \in Listed
               PROVE  Complete(cycle.todo, journal, status', seq')
    BY <1>2
  <2>1. o \notin cycle.todo
    BY <1>3, <1>4 DEF Complete
  <2>2. \A p \in cycle.todo : /\ seq'[p] = seq[p] /\ seq[p] # 0 /\ seq[p] \in 0 .. posted
                              /\ status'[p] = status[p]
    BY <1>1, <1>3, <1>4, <2>1 DEF Complete
  <2>3. ASSUME NEW q \in cycle.todo, NEW p \in Operations, 0 < seq'[p], seq'[p] < seq'[q]
        PROVE  status'[p] \in Final \/ p \in cycle.todo
    <3>1. p # o
      BY <1>1, <1>4, <2>2, <2>3
    <3>2. seq'[p] = seq[p] /\ status'[p] = status[p] /\ seq'[q] = seq[q]
      BY <1>1, <2>2, <3>1
    <3> QED BY <1>3, <2>3, <3>2 DEF Complete
  <2> QED BY <1>3, <2>2, <2>3 DEF Complete
<1>6. cycle.at \in Working => Op' = Op
  <2> SUFFICES ASSUME cycle.at \in Working PROVE Op' = Op
    OBVIOUS
  <2>1. cycle.todo # {} /\ cycle'.todo = cycle.todo
    BY <1>2 DEF Work, InHand
  <2>2. \A p \in cycle.todo : seq[p] # 0 /\ seq'[p] = seq[p]
    BY <1>1, <1>3, <1>4 DEF Complete
  <2> QED BY <2>1, <2>2, SameOp DEF Work
<1>7. cycle' = cycle /\ journal' = journal
  BY <1>2
<1> QED BY <1>3, <1>5, <1>6, <1>7, CycleWillBe

-----------------------------------------------------------------------------
(* The order, and what was done.                                           *)

LEMMA OrderedStep ==
    ASSUME Work, Ordered, Moves \/ PostMove
    PROVE  Ordered'
<1> SUFFICES ASSUME NEW o \in Operations, NEW p \in Operations,
                    journal'[o].phase # "none", 0 < seq'[p], seq'[p] < seq'[o]
             PROVE  journal'[p].phase # "none" \/ status'[p] \in Final
  BY DEF Ordered, Before
<1>1. CASE Moves
  <2>1. seq' = seq /\ JournalMove(o) /\ JournalMove(p)
    BY <1>1 DEF Moves
  <2>2. status[p] \in Final => status'[p] \in Final
    BY <1>1, StatusGoesOn
  <2>3. journal[p].phase # "none" => journal'[p].phase # "none" \/ status'[p] \in Final
    <3>1. Matches(journal[p], status[p])
      BY DEF Work, JournalOK
    <3> QED BY <2>1, <3>1 DEF JournalMove, Matches
  <2>4. CASE journal[o].phase # "none"
    BY <2>1, <2>2, <2>3, <2>4 DEF Ordered, Before
  <2>5. CASE journal[o].phase = "none"
    <3>1. cycle.at = "entry" /\ cycle.todo # {} /\ o = Op
      BY <2>1, <2>5 DEF JournalMove
    <3>2. o \in cycle.todo /\ \A q \in cycle.todo : seq[o] <= seq[q]
      BY <3>1, OpIsFirst DEF Work
    <3>3. Complete(cycle.todo, journal, status, seq)
      BY <3>1, CycleWas DEF Work, Listed
    <3>4. seq[o] \in Nat /\ seq[p] \in Nat
      BY DEF Work, Typed
    <3>5. status[p] \in Final
      BY <2>1, <3>2, <3>3, <3>4 DEF Complete
    <3> QED BY <2>2, <3>5
  <2> QED BY <2>4, <2>5
<1>2. CASE PostMove
  <2>1. PICK n \in Operations :
          /\ status[n] = "none" /\ status'[n] = "pending"
          /\ seq'[n] = posted + 1
          /\ \A q \in Operations \ {n} : status'[q] = status[q] /\ seq'[q] = seq[q]
    BY <1>2 DEF PostMove
  <2>2. journal' = journal
    BY <1>2 DEF PostMove
  <2>3. o # n
    <3>1. Matches(journal[o], status[o]) /\ journal[o].phase \in {"none", "claiming", "claimed", "executed"}
      BY DEF Work, JournalOK, Typed
    <3> QED BY <2>1, <2>2, <3>1 DEF Matches, Final
  <2>4. seq[o] \in 0 .. posted /\ posted \in Nat
    BY DEF Work, Typed
  <2>5. p # n
    BY <2>1, <2>3, <2>4
  <2> QED BY <2>1, <2>2, <2>3, <2>5 DEF Ordered, Before
<1> QED BY <1>1, <1>2

LEMMA DoneStep ==
    ASSUME Work, DoneOK, Typed', Moves \/ PostMove
    PROVE  DoneOK'
<1> SUFFICES ASSUME NEW o \in Operations
             PROVE  /\ worker'[o] # "none" => status'[o] \in {"claimed"} \cup Final
                    /\ Honest(o, status'[o], worker'[o])
                    /\ Honest(o, journal'[o].verdict, worker'[o])
  BY DEF DoneOK
<1>1. /\ worker[o] # "none" => status[o] \in {"claimed"} \cup Final
      /\ Honest(o, status[o], worker[o])
      /\ Honest(o, journal[o].verdict, worker[o])
      /\ Matches(journal[o], status[o])
  BY DEF DoneOK, Work, JournalOK
<1>2. ASSUME NEW did PROVE Honest(o, None, did) /\ Honest(o, "claimed", did) /\ Honest(o, "pending", did)
  BY NoneAssumption DEF Honest, Final
<1>3. CASE Moves
  <2>1. StatusMove(o) /\ JournalMove(o) /\ WorkerMove(o)
    BY <1>3 DEF Moves
  <2>2. /\ status[o] \in Final => status'[o] = status[o]
        /\ status[o] = "claimed" => status'[o] \in {"claimed"} \cup Final
    BY <1>3, StatusGoesOn
  <2>3. CASE worker'[o] = worker[o]
    <3>1. Honest(o, status'[o], worker'[o])
      BY <1>1, <1>2, <2>1, <2>3 DEF StatusMove
    <3>2. Honest(o, journal'[o].verdict, worker'[o])
      BY <1>1, <1>2, <2>1, <2>3 DEF JournalMove
    <3> QED BY <1>1, <2>2, <2>3, <3>1, <3>2
  <2>4. CASE /\ cycle.at = "run" /\ o = Op /\ journal[o].phase = "claimed"
             /\ status'[o] = status[o]
    <3>1. status'[o] = "claimed" /\ journal[o].verdict = None
      BY <1>1, <2>4 DEF Matches
    <3>2. Honest(o, journal'[o].verdict, worker'[o])
      BY <1>2, <2>1, <2>4, <3>1 DEF JournalMove
    <3> QED BY <1>2, <3>1, <3>2
  <2>5. CASE /\ worker[o] = "pending" /\ KindOf[o] = "worker"
             /\ status'[o] = status[o] /\ journal'[o] = journal[o]
    BY <1>1, <2>5 DEF Honest
  <2> QED BY <2>1, <2>3, <2>4, <2>5 DEF WorkerMove
<1>4. CASE PostMove
  <2>1. /\ worker' = worker /\ journal' = journal
        /\ \/ status'[o] = status[o]
           \/ (status[o] = "none" /\ status'[o] = "pending")
    BY <1>4 DEF PostMove
  <2> QED BY <1>1, <1>2, <2>1 DEF Final
<1> QED BY <1>3, <1>4

LEMMA InOrderStep ==
    ASSUME Work, DoneOK, InOrder, Moves \/ PostMove
    PROVE  InOrder'
<1> SUFFICES ASSUME NEW o \in Operations, NEW p \in Operations,
                    worker'[o] # "none", 0 < seq'[p], seq'[p] < seq'[o]
             PROVE  status'[p] \in Final
  BY DEF InOrder, Before
<1>1. CASE Moves
  <2>1. seq' = seq /\ WorkerMove(o) /\ (status[p] \in Final => status'[p] \in Final)
    BY <1>1, StatusGoesOn DEF Moves
  <2>2. CASE worker[o] # "none"
    BY <2>1, <2>2 DEF InOrder, Before
  <2>3. CASE worker[o] = "none"
    <3>1. cycle.at = "run" /\ o = Op /\ cycle.todo # {}
      BY <2>1, <2>3 DEF WorkerMove, Work, InHand, Working
    <3>2. o \in cycle.todo /\ \A q \in cycle.todo : seq[o] <= seq[q]
      BY <3>1, OpIsFirst DEF Work
    <3>3. Complete(cycle.todo, journal, status, seq)
      BY <3>1, CycleWas DEF Work, Listed, Working
    <3>4. seq[o] \in Nat /\ seq[p] \in Nat
      BY DEF Work, Typed
    <3> QED BY <2>1, <3>2, <3>3, <3>4 DEF Complete
  <2> QED BY <2>2, <2>3
<1>2. CASE PostMove
  <2>1. PICK n \in Operations :
          /\ status[n] = "none" /\ status'[n] = "pending"
          /\ seq'[n] = posted + 1
          /\ \A q \in Operations \ {n} : status'[q] = status[q] /\ seq'[q] = seq[q]
    BY <1>2 DEF PostMove
  <2>2. worker' = worker
    BY <1>2 DEF PostMove
  <2>3. o # n
    BY <2>1, <2>2 DEF DoneOK, Final
  <2>4. seq[o] \in 0 .. posted /\ posted \in Nat
    BY DEF Work, Typed
  <2>5. p # n
    BY <2>1, <2>3, <2>4
  <2> QED BY <2>1, <2>2, <2>3, <2>5 DEF InOrder, Before
<1> QED BY <1>1, <1>2

-----------------------------------------------------------------------------
(* Types.                                                                  *)

CycleRow == [at : Stages, todo : SUBSET Operations, fetched : BOOLEAN,
             message : Messages \cup {None}, again : BOOLEAN]

LEMMA IdleTypes == Idle \in CycleRow
  BY DEF Idle, CycleRow, Stages

\* What the exchanges change is typed again.
RegistryTyped ==
    /\ status \in [Operations -> {"none", "pending", "claimed"} \cup Final]
    /\ session \in [id : Nat, sequence : Nat]
    /\ report \in Nat

LEMMA HandleTypes ==
    ASSUME Typed, NEW m \in Messages, Handle(m)
    PROVE  RegistryTyped' /\ session'.id = session.id
<1>1. CASE m.kind = "claim" /\ m.op \in Operations
  BY <1>1, ClaimHandled DEF RegistryTyped, Typed
<1>2. CASE m.kind = "final" /\ m.op \in Operations /\ m.verdict \in Final
  BY <1>2, FinalHandled DEF RegistryTyped, Typed
<1>3. CASE /\ m.kind = "report"
           /\ m.session \in Nat /\ m.sequence \in Nat /\ m.sample \in Nat
  BY <1>3, ReportHandled DEF RegistryTyped, Typed
<1> QED BY <1>1, <1>2, <1>3, MessageKinds

LEMMA NoAnswerTypes ==
    ASSUME Typed, NEW m \in Messages, NoAnswer(m)
    PROVE  /\ RegistryTyped' /\ session'.id = session.id
           /\ late' \subseteq Messages
           /\ faults' \in 0 .. MaxFaults
           /\ cycle' = Idle
<1>1. RegistryTyped' /\ session'.id = session.id
  BY HandleTypes DEF NoAnswer, RegistryTyped, Typed
<1>2. late' \subseteq Messages /\ faults' \in 0 .. MaxFaults /\ cycle' = Idle
  BY OperationAssumption DEF NoAnswer, Fault, Typed
<1> QED BY <1>1, <1>2

\* The parts of the type invariant that steps change together.
HostTyped ==
    /\ journal \in [Operations -> [phase : {"none", "claiming", "claimed", "executed"},
                                   verdict : Final \cup {None}]]
    /\ cycle \in CycleRow
    /\ worker \in [Operations -> {"none", "pending"} \cup Final]

WireTyped ==
    /\ late \subseteq Messages
    /\ faults \in 0 .. MaxFaults

RestTyped ==
    /\ posted \in Nat /\ seq \in [Operations -> 0 .. posted]
    /\ placement \in [generation : 1 .. MaxGeneration, here : BOOLEAN]
    /\ assigned \subseteq 1 .. MaxGeneration
    /\ taken \in 0 .. MaxReports

StateTyped == state \in [session : 0 .. session.id, next : Nat]

LEMMA TypedParts ==
    Typed <=> RegistryTyped /\ HostTyped /\ WireTyped /\ RestTyped /\ StateTyped
  BY DEF Typed, RegistryTyped, HostTyped, WireTyped, RestTyped, StateTyped, CycleRow

LEMMA TypedAgain ==
    ASSUME RegistryTyped', HostTyped', WireTyped', RestTyped', StateTyped'
    PROVE  Typed'
  BY DEF Typed, RegistryTyped, HostTyped, WireTyped, RestTyped, StateTyped, CycleRow

LEMMA HandHolds ==
    ASSUME Work, cycle.at \in Working
    PROVE  Op \in Operations /\ cycle.todo # {}
  BY OpIsFirst DEF Work, InHand

LEMMA TypeStep ==
    ASSUME Work, DoneOK, [Next]_vars
    PROVE  Typed'
<1> USE OperationAssumption, NoneAssumption
<1>1. RegistryTyped /\ HostTyped /\ WireTyped /\ RestTyped /\ StateTyped
  BY TypedParts DEF Work
<1>2. cycle \in CycleRow
  BY <1>1 DEF HostTyped
<1>4. ASSUME NEW v \in Final, Executed(v) PROVE
             /\ journal' \in [Operations -> [phase : {"none", "claiming", "claimed", "executed"},
                                             verdict : Final \cup {None}]]
             /\ cycle' \in CycleRow
  <2>1. cycle' \in CycleRow
    BY <1>2, <1>4 DEF Executed, Goto, CycleRow, Stages
  <2> QED BY <1>1, <1>4, <2>1 DEF Executed, HostTyped
<1>5. CASE UNCHANGED vars
  BY <1>1, <1>5, TypedAgain DEF vars, queue, placing, reports, RegistryTyped, HostTyped,
          WireTyped, RestTyped, StateTyped
<1>6. ASSUME NEW o \in Operations, Post(o) PROVE Typed'
  <2>1. RegistryTyped' /\ HostTyped' /\ WireTyped' /\ StateTyped'
    BY <1>1, <1>6 DEF Post, placing, reports, RegistryTyped, HostTyped, WireTyped, StateTyped
  <2>2. RestTyped'
    BY <1>1, <1>6 DEF Post, placing, reports, RestTyped
  <2> QED BY <2>1, <2>2, TypedAgain
<1>7. ASSUME NEW o \in Operations, Resumed(o) PROVE Typed'
  BY <1>1, <1>7, TypedAgain DEF Resumed, queue, placing, reports, RegistryTyped, HostTyped,
          WireTyped, RestTyped, StateTyped
<1>8. ASSUME NEW here \in BOOLEAN, Assign(here) PROVE Typed'
  <2>1. RegistryTyped' /\ HostTyped' /\ WireTyped' /\ StateTyped'
    BY <1>1, <1>8 DEF Assign, queue, reports, RegistryTyped, HostTyped, WireTyped, StateTyped
  <2>2. RestTyped'
    <3>1. placement.generation \in 1 .. MaxGeneration /\ placement.generation < MaxGeneration
      BY <1>1, <1>8 DEF Assign, RestTyped
    <3>2. /\ placement' = [generation |-> placement.generation + 1, here |-> here]
          /\ placement'.generation = placement.generation + 1
          /\ assigned' = assigned \/ assigned' = assigned \cup {placement'.generation}
      BY <1>8 DEF Assign
    <3>3. placement.generation + 1 \in 1 .. MaxGeneration
      BY <3>1
    <3>4. placement' \in [generation : 1 .. MaxGeneration, here : BOOLEAN]
      BY <3>2, <3>3
    <3>5. assigned' \subseteq 1 .. MaxGeneration
      <4> DEFINE G == 1 .. MaxGeneration
      <4>1. assigned \subseteq G /\ placement'.generation \in G
        BY <1>1, <3>2, <3>3 DEF RestTyped
      <4> HIDE DEF G
      <4>2. assigned' \subseteq G
        BY <3>2, <4>1
      <4> QED BY <4>2 DEF G
    <3>6. UNCHANGED <<posted, seq, taken>>
      BY <1>8 DEF Assign, queue, reports
    <3> QED BY <1>1, <3>4, <3>5, <3>6 DEF RestTyped
  <2> QED BY <2>1, <2>2, TypedAgain
<1>9. CASE LoseSession
  BY <1>1, <1>9, TypedAgain DEF LoseSession, Fault, queue, placing, RegistryTyped, HostTyped,
          WireTyped, RestTyped, StateTyped
<1>10. CASE Die
  BY <1>1, <1>10, IdleTypes, TypedAgain DEF Die, Fault, queue, placing, reports,
          RegistryTyped, HostTyped, WireTyped, RestTyped, StateTyped
<1>11. ASSUME NEW m \in late, Arrive(m) PROVE Typed'
  <2>1. m \in Messages /\ Handle(m) /\ late' = late \ {m}
        /\ UNCHANGED <<posted, seq, placing, state, taken, journal, cycle, worker, faults>>
    BY <1>1, <1>11 DEF Arrive, WireTyped
  <2>2. RegistryTyped' /\ session'.id = session.id
    BY <2>1, HandleTypes DEF Work
  <2>3. HostTyped' /\ WireTyped' /\ RestTyped' /\ StateTyped'
    BY <1>1, <2>1, <2>2 DEF placing, HostTyped, WireTyped, RestTyped, StateTyped
  <2> QED BY <2>2, <2>3, TypedAgain
<1>12. CASE Begin
  <2>1. cycle' \in CycleRow
    BY <1>2, <1>12 DEF Begin, Goto, CycleRow, Stages
  <2> QED BY <1>1, <1>12, <2>1, TypedAgain DEF Begin, queue, placing, reports,
          RegistryTyped, HostTyped, WireTyped, RestTyped, StateTyped
<1>13. CASE Open
  <2>1. session' \in [id : Nat, sequence : Nat] /\ session'.id = session.id + 1
        /\ session.id \in Nat
    BY <1>1, <1>13 DEF Open, RegistryTyped
  <2>2. StateTyped'
    BY <1>1, <1>13, <2>1 DEF Open, StateTyped
  <2>3. cycle' \in CycleRow
    <3>1. CASE cycle' = Idle
      BY <3>1, IdleTypes
    <3>2. CASE Goto("sample")
      BY <1>2, <3>2 DEF Goto, CycleRow, Stages
    <3> QED BY <1>13, <3>1, <3>2 DEF Open
  <2> QED BY <1>1, <1>13, <2>1, <2>2, <2>3, TypedAgain DEF Open, Fault, queue, placing,
          RegistryTyped, HostTyped, WireTyped, RestTyped
<1>14. CASE Sample
  <2>1. state.session \in Nat /\ state.next \in Nat /\ taken \in Nat /\ session.id \in Nat
    BY <1>1 DEF StateTyped, RestTyped, RegistryTyped
  <2>2. cycle.again => cycle.message.sample \in Nat
    <3>1. cycle.again => cycle.message \in Messages /\ cycle.message.kind = "report"
      BY DEF Work, InHand, Typed
    <3> QED BY <3>1, MessageKinds
  <2>3. cycle' \in CycleRow
    <3>1. CASE Goto("resume")
      BY <1>2, <3>1 DEF Goto, CycleRow, Stages
    <3>2. ASSUME NEW k \in Nat,
                 cycle' = [cycle EXCEPT !.at = "post", !.message =
                             [kind |-> "report", session |-> state.session,
                              sequence |-> state.next, sample |-> k]]
          PROVE cycle' \in CycleRow
      <4>1. [kind |-> "report", session |-> state.session,
             sequence |-> state.next, sample |-> k] \in Messages
        BY <2>1 DEF Messages
      <4> DEFINE m == [kind |-> "report", session |-> state.session,
                       sequence |-> state.next, sample |-> k]
      <4>2. cycle' = [cycle EXCEPT !.at = "post", !.message = m] /\ m \in Messages
        BY <3>2, <4>1
      <4> HIDE DEF m
      <4> QED BY <1>2, <4>2 DEF CycleRow, Stages
    <3> DEFINE kk == IF cycle.again THEN cycle.message.sample ELSE taken + 1
    <3>3. kk \in Nat
      BY <2>1, <2>2
    <3>4. \/ Goto("resume")
          \/ cycle' = [cycle EXCEPT !.at = "post", !.message =
                          [kind |-> "report", session |-> state.session,
                           sequence |-> state.next, sample |-> kk]]
      BY <1>14 DEF Sample
    <3> HIDE DEF kk
    <3> QED BY <3>1, <3>2, <3>3, <3>4
  <2>4. RestTyped' /\ StateTyped'
    BY <1>1, <1>14, <2>1 DEF Sample, queue, placing, RestTyped, StateTyped
  <2> QED BY <1>1, <1>14, <2>3, <2>4, TypedAgain DEF Sample, queue, placing,
          RegistryTyped, HostTyped, WireTyped
<1>15. CASE PostObservation
  <2> DEFINE m == cycle.message
  <2>1. m \in Messages
    BY <1>15 DEF PostObservation, At, Work, InHand, Typed
  <2>2. /\ UNCHANGED <<posted, seq, placing, state, taken, journal, worker>>
        /\ \/ /\ Handle(m) /\ UNCHANGED <<late, faults>>
              /\ \/ cycle' = Idle
                 \/ cycle' = [Idle EXCEPT !.at = "resume"]
                 \/ cycle' = [cycle EXCEPT !.at = "open", !.again = TRUE]
           \/ NoAnswer(m)
    BY <1>15 DEF PostObservation
  <2> HIDE DEF m
  <2>3. CASE NoAnswer(m)
    <3>1. RegistryTyped' /\ session'.id = session.id /\ WireTyped' /\ cycle' = Idle
      BY <2>1, <2>3, NoAnswerTypes DEF Work, WireTyped
    <3>2. HostTyped' /\ RestTyped' /\ StateTyped'
      BY <1>1, <2>2, <3>1, IdleTypes DEF placing, HostTyped, RestTyped, StateTyped
    <3> QED BY <3>1, <3>2, TypedAgain
  <2>4. CASE /\ Handle(m) /\ UNCHANGED <<late, faults>>
             /\ \/ cycle' = Idle
                \/ cycle' = [Idle EXCEPT !.at = "resume"]
                \/ cycle' = [cycle EXCEPT !.at = "open", !.again = TRUE]
    <3>1. RegistryTyped' /\ session'.id = session.id
      BY <2>1, <2>4, HandleTypes DEF Work
    <3>2. cycle' \in CycleRow
      <4>1. CASE cycle' = Idle
        BY <4>1, IdleTypes
      <4>2. CASE cycle' = [Idle EXCEPT !.at = "resume"]
        BY <4>2 DEF Idle, CycleRow, Stages
      <4>3. CASE cycle' = [cycle EXCEPT !.at = "open", !.again = TRUE]
        BY <1>2, <4>3 DEF CycleRow, Stages
      <4> QED BY <2>4, <4>1, <4>2, <4>3
    <3>3. HostTyped' /\ RestTyped' /\ StateTyped' /\ WireTyped'
      BY <1>1, <2>2, <2>4, <3>1, <3>2 DEF placing, HostTyped, RestTyped, StateTyped, WireTyped
    <3> QED BY <3>1, <3>3, TypedAgain
  <2> QED BY <2>2, <2>3, <2>4
<1>16. CASE Resume \/ Fetch
  <2>1. Journaled \in SUBSET Operations /\ Pending \ Journaled \in SUBSET Operations
    BY DEF Journaled, Pending
  <2>2. cycle' \in CycleRow
    <3> DEFINE t == Pending \ Journaled
    <3>1. CASE cycle' = Idle
      BY <3>1, IdleTypes
    <3>2. CASE cycle' = [Idle EXCEPT !.at = "entry", !.todo = Journaled]
      <4> HIDE DEF t
      <4> QED BY <2>1, <3>2 DEF Idle, CycleRow, Stages
    <3>3. CASE cycle' = [Idle EXCEPT !.at = "entry", !.fetched = TRUE, !.todo = t]
      <4>1. t \in SUBSET Operations
        BY <2>1
      <4> HIDE DEF t
      <4> QED BY <3>3, <4>1 DEF Idle, CycleRow, Stages
    <3> QED BY <1>16, <3>1, <3>2, <3>3 DEF Resume, Fetch
  <2> QED BY <1>1, <1>16, <2>2, TypedAgain DEF Resume, Fetch, Fault, queue, placing, reports,
          RegistryTyped, HostTyped, WireTyped, RestTyped, StateTyped
<1>17. CASE Entry
  <2>1. \A e : NextStage(e) \in Stages
    BY DEF NextStage, Stages
  <2>2. cycle' \in CycleRow
    <3>1. CASE cycle' = Idle
      BY <3>1, IdleTypes
    <3>2. CASE cycle' = [Idle EXCEPT !.at = "fetch"]
      BY <3>2 DEF Idle, CycleRow, Stages
    <3>3. CASE Goto(NextStage(journal[Op].phase))
      BY <1>2, <2>1, <3>3 DEF Goto, CycleRow
    <3> QED BY <1>17, <3>1, <3>2, <3>3 DEF Entry
  <2>3. journal' \in [Operations -> [phase : {"none", "claiming", "claimed", "executed"},
                                     verdict : Final \cup {None}]]
    BY <1>1, <1>17 DEF Entry, HostTyped
  <2> QED BY <1>1, <1>17, <2>2, <2>3, TypedAgain DEF Entry, queue, placing, reports,
          RegistryTyped, HostTyped, WireTyped, RestTyped, StateTyped
<1>18. CASE Claim
  <2> DEFINE m == [kind |-> "claim", op |-> Op]
  <2>1. m \in Messages
    BY <1>18, HandHolds DEF Claim, At, Working, Messages
  <2>2. /\ UNCHANGED <<posted, seq, placing, state, taken, worker>>
        /\ \/ /\ Handle(m) /\ UNCHANGED <<late, faults>> /\ Goto("authorize")
              /\ journal' = [journal EXCEPT ![Op].phase = "claimed"]
           \/ NoAnswer(m) /\ UNCHANGED journal
    BY <1>18 DEF Claim
  <2> HIDE DEF m
  <2>3. CASE NoAnswer(m) /\ UNCHANGED journal
    <3>1. RegistryTyped' /\ session'.id = session.id /\ WireTyped' /\ cycle' = Idle
      BY <2>1, <2>3, NoAnswerTypes DEF Work, WireTyped
    <3>2. HostTyped' /\ RestTyped' /\ StateTyped'
      BY <1>1, <2>2, <2>3, <3>1, IdleTypes DEF placing, HostTyped, RestTyped, StateTyped
    <3> QED BY <3>1, <3>2, TypedAgain
  <2>4. CASE /\ Handle(m) /\ UNCHANGED <<late, faults>> /\ Goto("authorize")
             /\ journal' = [journal EXCEPT ![Op].phase = "claimed"]
    <3>1. RegistryTyped' /\ session'.id = session.id
      BY <2>1, <2>4, HandleTypes DEF Work
    <3>2. HostTyped'
      <4>1. cycle' \in CycleRow
        BY <1>2, <2>4 DEF Goto, CycleRow, Stages
      <4>2. journal' \in [Operations -> [phase : {"none", "claiming", "claimed", "executed"},
                                         verdict : Final \cup {None}]]
        BY <1>1, <2>4 DEF HostTyped
      <4> QED BY <1>1, <2>2, <4>1, <4>2 DEF HostTyped
    <3>3. RestTyped' /\ StateTyped' /\ WireTyped'
      BY <1>1, <2>2, <2>4, <3>1 DEF placing, RestTyped, StateTyped, WireTyped
    <3> QED BY <3>1, <3>2, <3>3, TypedAgain
  <2> QED BY <2>2, <2>3, <2>4
<1>19. CASE Authorize
  <2>1. HostTyped'
    <3>1. "failed" \in Final
      BY DEF Final
    <3>2. worker' = worker
      BY <1>19 DEF Authorize
    <3>3. CASE Goto("run") /\ UNCHANGED journal
      <4>1. cycle' \in CycleRow
        BY <1>2, <3>3 DEF Goto, CycleRow, Stages
      <4> QED BY <1>1, <3>2, <3>3, <4>1 DEF HostTyped
    <3>4. CASE Executed("failed")
      BY <1>1, <1>4, <3>1, <3>2, <3>4 DEF HostTyped
    <3>5. CASE cycle' = Idle /\ UNCHANGED journal
      BY <1>1, <3>2, <3>5, IdleTypes DEF HostTyped
    <3> QED BY <1>19, <3>3, <3>4, <3>5 DEF Authorize
  <2> QED BY <1>1, <1>19, <2>1, TypedAgain DEF Authorize, Executed, Fault, queue, placing, reports,
          RegistryTyped, WireTyped, RestTyped, StateTyped
<1>20. CASE RunWorker \/ RunProgram
  <2>1. \A outcome \in Outcomes(Op) : outcome \in {"none", "pending"} \cup Final
    BY DEF Outcomes, Final
  <2>2. /\ worker' \in [Operations -> {"none", "pending"} \cup Final]
        /\ (\E v \in Final : Executed(v)) \/ Uncertain
    <3>1. CASE RunWorker
      BY <1>1, <2>1, <3>1 DEF RunWorker, HostTyped
    <3>2. CASE RunProgram
      <4>1. worker' \in [Operations -> {"none", "pending"} \cup Final]
        BY <1>1, <2>1, <3>2 DEF RunProgram, HostTyped
      <4>2. (\E v \in Final : Executed(v)) \/ Uncertain
        BY <3>2 DEF RunProgram, Final
      <4> QED BY <4>1, <4>2
    <3> QED BY <1>20, <3>1, <3>2
  <2>3. HostTyped'
    BY <1>1, <1>4, <2>2, IdleTypes DEF Uncertain, HostTyped
  <2>4. UNCHANGED <<queue, placing, reports, late, faults>>
    BY <1>20 DEF RunWorker, RunProgram
  <2> QED BY <1>1, <2>3, <2>4, TypedAgain DEF queue, placing, reports,
          RegistryTyped, WireTyped, RestTyped, StateTyped
<1>21. CASE PostReceipt
  <2> DEFINE m == [kind |-> "final", op |-> Op, verdict |-> journal[Op].verdict]
  <2>1. Op \in Operations /\ m \in Messages
    <3>1. Op \in Operations /\ journal[Op].phase = "executed"
      BY <1>21, HandHolds DEF PostReceipt, At, Working, Work, CycleOK
    <3>2. journal[Op].verdict \in Final
      BY <3>1 DEF Work, JournalOK, Matches
    <3> QED BY <3>1, <3>2 DEF Messages
  <2>2. /\ UNCHANGED <<posted, seq, placing, state, taken, worker>>
        /\ \/ /\ cycle' = Idle /\ UNCHANGED <<status, session, report, late, faults, journal>>
           \/ /\ Handle(m) /\ UNCHANGED <<late, faults>>
              /\ journal' = [journal EXCEPT ![Op] = NoEntry]
              /\ cycle' = [cycle EXCEPT !.at = "entry", !.todo = cycle.todo \ {Op}]
           \/ NoAnswer(m) /\ UNCHANGED journal
    BY <1>21 DEF PostReceipt, Uncertain
  <2> HIDE DEF m
  <2>3. CASE NoAnswer(m) /\ UNCHANGED journal
    <3>1. RegistryTyped' /\ session'.id = session.id /\ WireTyped' /\ cycle' = Idle
      BY <2>1, <2>3, NoAnswerTypes DEF Work, WireTyped
    <3>2. HostTyped' /\ RestTyped' /\ StateTyped'
      BY <1>1, <2>2, <2>3, <3>1, IdleTypes DEF placing, HostTyped, RestTyped, StateTyped
    <3> QED BY <3>1, <3>2, TypedAgain
  <2>4. CASE /\ Handle(m) /\ UNCHANGED <<late, faults>>
             /\ journal' = [journal EXCEPT ![Op] = NoEntry]
             /\ cycle' = [cycle EXCEPT !.at = "entry", !.todo = cycle.todo \ {Op}]
    <3>1. RegistryTyped' /\ session'.id = session.id
      BY <2>1, <2>4, HandleTypes DEF Work
    <3>2. cycle' \in CycleRow
      BY <1>2, <2>1, <2>4 DEF CycleRow, Stages
    <3>3. HostTyped'
      BY <1>1, <2>2, <2>4, <3>2 DEF HostTyped, NoEntry
    <3>4. RestTyped' /\ StateTyped' /\ WireTyped'
      BY <1>1, <2>2, <2>4, <3>1 DEF placing, RestTyped, StateTyped, WireTyped
    <3> QED BY <3>1, <3>3, <3>4, TypedAgain
  <2>5. CASE cycle' = Idle /\ UNCHANGED <<status, session, report, late, faults, journal>>
    BY <1>1, <2>2, <2>5, IdleTypes, TypedAgain DEF placing, RegistryTyped, HostTyped,
          WireTyped, RestTyped, StateTyped
  <2> QED BY <2>2, <2>3, <2>4, <2>5
<1> QED BY <1>5, <1>6, <1>7, <1>8, <1>9, <1>10, <1>11, <1>12, <1>13, <1>14, <1>15, <1>16,
           <1>17, <1>18, <1>19, <1>20, <1>21 DEF Next, Cycle

\* What is posted is the sample of the cycle, in the session of the state file.
LEMMA SampleSends ==
    ASSUME Work, Sample
    PROVE  \/ /\ cycle'.at = "resume" /\ UNCHANGED <<state, taken>>
              /\ cycle'.message = cycle.message /\ cycle'.again = cycle.again
           \/ /\ cycle'.at = "post" /\ cycle'.again = cycle.again
              /\ cycle'.message \in Messages /\ cycle'.message.kind = "report"
              /\ cycle'.message.session = state.session
              /\ cycle'.message.sequence = state.next
              /\ cycle'.message.sample = IF cycle.again THEN cycle.message.sample
                                         ELSE taken + 1
              /\ taken' = IF cycle.again THEN taken ELSE taken + 1
              /\ state'.session = state.session /\ state'.next = state.next + 1
<1> DEFINE k == IF cycle.again THEN cycle.message.sample ELSE taken + 1
           m == [kind |-> "report", session |-> state.session,
                 sequence |-> state.next, sample |-> k]
<1>1. cycle \in CycleRow /\ state \in [session : Nat, next : Nat] /\ taken \in Nat
  BY TypedParts DEF Work, Typed, CycleRow
<1>2. cycle.again => cycle.message.sample \in Nat
  <2>1. cycle.again => cycle.message \in Messages /\ cycle.message.kind = "report"
    BY DEF Work, InHand, Typed
  <2> QED BY <2>1, MessageKinds
<1>3. k \in Nat
  BY <1>1, <1>2
<1>4. /\ m \in Messages /\ m.kind = "report" /\ m.session = state.session
      /\ m.sequence = state.next /\ m.sample = k
  <2> HIDE DEF k
  <2> QED BY <1>1, <1>3 DEF Messages
<1>5. \/ Goto("resume") /\ UNCHANGED <<state, taken>>
      \/ /\ cycle' = [cycle EXCEPT !.at = "post", !.message = m]
         /\ taken' = IF cycle.again THEN taken ELSE taken + 1
         /\ state' = [state EXCEPT !.next = state.next + 1]
  BY DEF Sample
<1> HIDE DEF m
<1>6. CASE Goto("resume") /\ UNCHANGED <<state, taken>>
  BY <1>1, <1>6 DEF Goto, CycleRow
<1>7. CASE /\ cycle' = [cycle EXCEPT !.at = "post", !.message = m]
           /\ taken' = IF cycle.again THEN taken ELSE taken + 1
           /\ state' = [state EXCEPT !.next = state.next + 1]
  <2>1. /\ cycle'.at = "post" /\ cycle'.message = m /\ cycle'.again = cycle.again
    BY <1>1, <1>7 DEF CycleRow
  <2>2. state'.session = state.session /\ state'.next = state.next + 1
    BY <1>1, <1>7
  <2> QED BY <1>4, <1>7, <2>1, <2>2
<1> QED BY <1>5, <1>6, <1>7

LEMMA InHandStep ==
    ASSUME Work, DoneOK, Typed', [Next]_vars
    PROVE  InHand'
<1> USE DEF Working
<1>1. cycle \in CycleRow /\ InHand
  BY TypedParts DEF Work, HostTyped
<1>2. ASSUME cycle' = cycle PROVE InHand'
  BY <1>1, <1>2 DEF InHand
<1>3. ASSUME cycle' = Idle \/ \E s \in {"resume", "entry", "fetch"} : cycle' = [Idle EXCEPT !.at = s]
      PROVE InHand'
  BY <1>3 DEF InHand, Idle
<1>4. ASSUME NEW s, Goto(s), s # "post", s \in Working => cycle.todo # {}
      PROVE InHand'
  <2>1. cycle'.at = s /\ cycle'.todo = cycle.todo /\ cycle'.message = cycle.message
        /\ cycle'.again = cycle.again
    BY <1>1, <1>4 DEF Goto, CycleRow
  <2> QED BY <1>1, <1>4, <2>1 DEF InHand
<1>5. CASE \/ UNCHANGED vars
           \/ \E o \in Operations : Post(o) \/ Resumed(o)
           \/ \E here \in BOOLEAN : Assign(here)
           \/ LoseSession
           \/ \E m \in late : Arrive(m)
  BY <1>2, <1>5 DEF vars, Post, Resumed, Assign, LoseSession, Arrive
<1>6. CASE Die
  BY <1>3, <1>6 DEF Die
<1>7. CASE Begin
  BY <1>4, <1>7 DEF Begin
<1>8. CASE Open
  BY <1>3, <1>4, <1>8 DEF Open
<1>9. CASE Sample
  BY <1>1, <1>9, SampleSends, NoneAssumption DEF InHand
<1>10. CASE PostObservation
  <2>1. \/ cycle' = Idle
        \/ cycle' = [Idle EXCEPT !.at = "resume"]
        \/ cycle' = [cycle EXCEPT !.at = "open", !.again = TRUE]
    BY <1>10 DEF PostObservation, NoAnswer
  <2>2. CASE cycle' = [cycle EXCEPT !.at = "open", !.again = TRUE]
    <3>1. cycle'.at = "open" /\ cycle'.message = cycle.message
      BY <1>1, <2>2 DEF CycleRow
    <3> QED BY <1>1, <1>10, <3>1 DEF InHand, PostObservation, At
  <2> QED BY <1>3, <2>1, <2>2
<1>11. CASE Resume \/ Fetch
  <2> DEFINE t == Pending \ Journaled
  <2>1. CASE cycle' = Idle
    BY <1>3, <2>1
  <2>2. CASE cycle' = [Idle EXCEPT !.at = "entry", !.todo = Journaled]
    BY <2>2 DEF InHand, Idle
  <2>3. CASE cycle' = [Idle EXCEPT !.at = "entry", !.fetched = TRUE, !.todo = t]
    <3> HIDE DEF t
    <3> QED BY <2>3 DEF InHand, Idle
  <2> QED BY <1>11, <2>1, <2>2, <2>3 DEF Resume, Fetch
<1>12. CASE Entry
  <2>1. NextStage(journal[Op].phase) # "post"
    BY DEF NextStage
  <2>2. CASE cycle.todo # {}
    BY <1>4, <1>12, <2>1, <2>2 DEF Entry
  <2>3. CASE cycle.todo = {}
    BY <1>3, <1>12, <2>3 DEF Entry
  <2> QED BY <2>2, <2>3
<1>13. CASE Claim \/ Authorize \/ RunWorker \/ RunProgram
  <2>1. cycle.todo # {}
    BY <1>1, <1>13 DEF InHand, Claim, Authorize, RunWorker, RunProgram, At
  <2>2. cycle' = Idle \/ \E s \in {"authorize", "run", "receipt"} : Goto(s)
    BY <1>13 DEF Claim, NoAnswer, Authorize, RunWorker, RunProgram, Executed, Uncertain
  <2> QED BY <1>3, <1>4, <2>1, <2>2
<1>14. CASE PostReceipt
  <2>1. \/ cycle' = Idle
        \/ cycle' = [cycle EXCEPT !.at = "entry", !.todo = cycle.todo \ {Op}]
    BY <1>14 DEF PostReceipt, NoAnswer, Uncertain
  <2>2. CASE cycle' = [cycle EXCEPT !.at = "entry", !.todo = cycle.todo \ {Op}]
    <3>1. cycle'.at = "entry" /\ cycle'.message = cycle.message /\ cycle'.again = cycle.again
      BY <1>1, <2>2 DEF CycleRow
    <3> QED BY <1>1, <3>1 DEF InHand
  <2> QED BY <1>3, <2>1, <2>2
<1> QED BY <1>5, <1>6, <1>7, <1>8, <1>9, <1>10, <1>11, <1>12, <1>13, <1>14
        DEF Next, Cycle

-----------------------------------------------------------------------------
(* Everything about operations, together.                                  *)

DispatchInv == Work /\ Ordered /\ DoneOK /\ InOrder

LEMMA DispatchInit == Init => DispatchInv
<1> SUFFICES ASSUME Init PROVE DispatchInv
  OBVIOUS
<1> USE OperationAssumption, NoneAssumption
<1>1. Typed
  BY IdleTypes DEF Init, Typed, NoEntry, CycleRow
<1>2. InHand /\ CycleOK
  BY DEF Init, Idle, InHand, CycleOK, Listed, Working
<1>3. QueueOK /\ JournalOK /\ LateOK
  BY DEF Init, QueueOK, JournalOK, Matches, NoEntry, LateOK
<1>4. Ordered /\ DoneOK /\ InOrder
  BY DEF Init, Ordered, DoneOK, InOrder, NoEntry, Honest, Before, Final
<1> QED BY <1>1, <1>2, <1>3, <1>4 DEF DispatchInv, Work

LEMMA DispatchStep == DispatchInv /\ [Next]_vars => DispatchInv'
<1> SUFFICES ASSUME DispatchInv, [Next]_vars PROVE DispatchInv'
  OBVIOUS
<1>1. Work /\ Ordered /\ DoneOK /\ InOrder
  BY DEF DispatchInv
<1>2. Moves \/ PostMove
  BY <1>1, StepMoves
<1>3. Typed' /\ InHand'
  BY <1>1, TypeStep, InHandStep
<1>4. QueueOK' /\ JournalOK' /\ LateOK'
  BY <1>1, <1>2, <1>3, QueueStep, JournalStep, LateStep
<1>5. CycleOK'
  BY <1>1, <1>2, <1>3, CycleAfterMoves, CycleAfterPost
<1>6. Ordered' /\ DoneOK' /\ InOrder'
  BY <1>1, <1>2, <1>3, OrderedStep, DoneStep, InOrderStep
<1> QED BY <1>3, <1>4, <1>5, <1>6 DEF DispatchInv, Work

LEMMA DispatchInvariant == Spec => []DispatchInv
  BY DispatchInit, DispatchStep, PTL DEF Spec

(* What the registry shows as settled is settled on the host, for any      *)
(* number of operations, deaths and late messages (_worker_result,         *)
(* _dispatch_entry, operation_receipt).                                    *)
THEOREM HonestReceiptHolds == Spec => []HonestReceipt
<1>1. DispatchInv => HonestReceipt
  BY DEF DispatchInv, DoneOK, Honest, HonestReceipt
<1> QED BY <1>1, DispatchInvariant, PTL

(* An operation that no host claimed had no effect: the claim is answered  *)
(* before the worker is called (_dispatch_entry).                          *)
THEOREM ClaimedFirstHolds == Spec => []ClaimedFirst
<1>1. DispatchInv => ClaimedFirst
  BY DEF DispatchInv, DoneOK, ClaimedFirst
<1> QED BY <1>1, DispatchInvariant, PTL

(* No operation is begun before those posted earlier have their receipts:  *)
(* the journal is worked off before the queue is fetched (_dispatch_cycle).*)
THEOREM InOrderHolds == Spec => []InOrder
<1>1. DispatchInv => InOrder
  BY DEF DispatchInv
<1> QED BY <1>1, DispatchInvariant, PTL

-----------------------------------------------------------------------------
(* The observation.                                                        *)

\* Observations that can still reach the registry.
Flying == {m \in late : m.kind = "report"} \cup
          (IF cycle.at = "post" THEN {cycle.message} ELSE {})

\* In a session what is sent later carries a later sample.
ReportsOK ==
    /\ report <= taken
    /\ cycle.message # None => cycle.message.sample = taken
    /\ \A m \in Flying :
         /\ m.sample <= taken
         /\ m.session <= session.id
         /\ m.session = state.session => m.sequence < state.next
         /\ m.session = session.id /\ m.sequence > session.sequence => m.sample >= report
    /\ \A m, n \in Flying :
         m.session = n.session /\ m.sequence > n.sequence => m.sample >= n.sample

\* What a step can do to it.
Fewer == /\ Flying' \subseteq Flying
         /\ cycle'.message \in {cycle.message, None}
         /\ taken' = taken

Still == Fewer /\ UNCHANGED <<session, report, state>>

Renewed ==
    /\ Fewer /\ UNCHANGED report
    /\ session'.id = session.id + 1
    /\ \/ state' = state
       \/ state'.session = session.id + 1

Sampled ==
    /\ UNCHANGED <<session, report>>
    /\ state'.session = state.session /\ state'.next = state.next + 1
    /\ taken' \in {taken, taken + 1}
    /\ cycle'.message.session = state.session
    /\ cycle'.message.sequence = state.next
    /\ cycle'.message.sample = taken'
    /\ Flying' \subseteq Flying \cup {cycle'.message}

Accepted ==
    /\ Fewer /\ UNCHANGED state
    /\ \E m \in Flying :
         /\ m.session = session.id /\ m.sequence > session.sequence
         /\ session'.id = session.id /\ session'.sequence = m.sequence
         /\ report' = m.sample

LEMMA ReportsStep ==
    ASSUME Typed, Typed', InHand, InHand', ReportsOK, Still \/ Renewed \/ Sampled \/ Accepted
    PROVE  ReportsOK' /\ report' >= report
<1>1. \A m \in Flying : m.session \in Nat /\ m.sequence \in Nat /\ m.sample \in Nat
  <2>1. \A m \in Flying : m \in Messages /\ m.kind = "report"
    BY DEF Flying, Typed, InHand
  <2> QED BY <2>1, MessageKinds
<1>2. /\ report \in Nat /\ report' \in Nat /\ taken \in Nat /\ taken' \in Nat
      /\ session.id \in Nat /\ session.sequence \in Nat
      /\ state.session \in Nat /\ state.next \in Nat /\ state.session <= session.id
  BY DEF Typed
<1>3. CASE Still
  BY <1>2, <1>3 DEF Still, Fewer, ReportsOK
<1>4. CASE Renewed
  <2>1. \A m \in Flying : m.session # session'.id /\ m.session <= session'.id
    BY <1>1, <1>2, <1>4 DEF Renewed, ReportsOK
  <2> QED BY <1>1, <1>2, <1>4, <2>1 DEF Renewed, Fewer, ReportsOK
<1>5. CASE Sampled
  <2>1. /\ report' <= taken' /\ report' = report
        /\ cycle'.message.sample = taken' /\ taken <= taken'
    BY <1>2, <1>5 DEF Sampled, ReportsOK
  <2>2. \A m \in Flying' : m \in Flying \/ m = cycle'.message
    BY <1>5 DEF Sampled
  <2>3. \A m \in Flying' :
         /\ m.sample <= taken'
         /\ m.session <= session'.id
         /\ m.session = state'.session => m.sequence < state'.next
         /\ m.session = session'.id /\ m.sequence > session'.sequence => m.sample >= report'
    BY <1>1, <1>2, <1>5, <2>1, <2>2 DEF Sampled, ReportsOK
  <2>4. \A m, n \in Flying' :
         m.session = n.session /\ m.sequence > n.sequence => m.sample >= n.sample
    BY <1>1, <1>2, <1>5, <2>1, <2>2 DEF Sampled, ReportsOK
  <2> QED BY <1>2, <2>1, <2>3, <2>4 DEF ReportsOK
<1>6. CASE Accepted
  BY <1>1, <1>2, <1>6 DEF Accepted, Fewer, ReportsOK
<1> QED BY <1>3, <1>4, <1>5, <1>6

\* The cycle posts nothing new.
Shed == \/ cycle' = cycle
        \/ cycle'.at # "post" /\ cycle'.message \in {cycle.message, None}

LEMMA ShedIsFewer ==
    ASSUME Shed, taken' = taken, \A m \in late' : m.kind = "report" => m \in Flying
    PROVE  Fewer
  BY DEF Shed, Fewer, Flying

LEMMA ShedIdle ==
    ASSUME \/ cycle' = Idle
           \/ cycle' = [Idle EXCEPT !.at = "resume"]
           \/ cycle' = [Idle EXCEPT !.at = "fetch"]
           \/ cycle' = [Idle EXCEPT !.at = "entry", !.todo = Journaled]
           \/ cycle' = [Idle EXCEPT !.at = "entry", !.fetched = TRUE,
                                    !.todo = Pending \ Journaled]
    PROVE  Shed
<1> DEFINE t == Pending \ Journaled
           j == Journaled
<1>1. \/ cycle' = Idle
      \/ cycle' = [Idle EXCEPT !.at = "resume"]
      \/ cycle' = [Idle EXCEPT !.at = "fetch"]
      \/ cycle' = [Idle EXCEPT !.at = "entry", !.todo = j]
      \/ cycle' = [Idle EXCEPT !.at = "entry", !.fetched = TRUE, !.todo = t]
  OBVIOUS
<1> HIDE DEF t, j
<1>2. CASE cycle' = Idle
  BY <1>2 DEF Shed, Idle
<1>3. CASE cycle' = [Idle EXCEPT !.at = "resume"]
  BY <1>3 DEF Shed, Idle
<1>4. CASE cycle' = [Idle EXCEPT !.at = "fetch"]
  BY <1>4 DEF Shed, Idle
<1>5. CASE cycle' = [Idle EXCEPT !.at = "entry", !.todo = j]
  BY <1>5 DEF Shed, Idle
<1>6. CASE cycle' = [Idle EXCEPT !.at = "entry", !.fetched = TRUE, !.todo = t]
  BY <1>6 DEF Shed, Idle
<1> QED BY <1>1, <1>2, <1>3, <1>4, <1>5, <1>6

LEMMA ShedGoto ==
    ASSUME Typed, NEW s, Goto(s), s # "post"
    PROVE  Shed
<1>1. cycle \in CycleRow
  BY DEF Typed, CycleRow
<1> QED BY <1>1 DEF Goto, Shed, CycleRow

LEMMA LateFlies == \A m \in late : m.kind = "report" => m \in Flying
  BY DEF Flying

\* An observation that reaches the registry is one that was under way.
LEMMA ReportArrives ==
    ASSUME Typed, NEW m \in Messages, m.kind = "report" => m \in Flying, Handle(m),
           Fewer, state' = state
    PROVE  Still \/ Accepted
<1>1. CASE m.kind = "claim" /\ m.op \in Operations
  BY <1>1, ClaimHandled DEF Still
<1>2. CASE m.kind = "final" /\ m.op \in Operations /\ m.verdict \in Final
  BY <1>2, FinalHandled DEF Still
<1>3. CASE /\ m.kind = "report"
           /\ m.session \in Nat /\ m.sequence \in Nat /\ m.sample \in Nat
  BY <1>3, ReportHandled DEF Still, Accepted
<1> QED BY <1>1, <1>2, <1>3, MessageKinds

LEMMA UnansweredReport ==
    ASSUME Typed, NEW m \in Messages, m.kind = "report" => m \in Flying, NoAnswer(m),
           state' = state, taken' = taken
    PROVE  Still \/ Accepted
<1>1. Shed
  <2>1. cycle' = Idle
    BY DEF NoAnswer
  <2> QED BY <2>1, ShedIdle
<1>2. CASE late' \in {late, late \cup {m}}
  <2>1. Fewer
    BY <1>1, <1>2, ShedIsFewer, LateFlies
  <2> QED BY <2>1, ReportArrives DEF NoAnswer, Still
<1> QED BY <1>2 DEF NoAnswer

LEMMA ReportMoves ==
    ASSUME Work, DoneOK, ReportsOK, [Next]_vars
    PROVE  Still \/ Renewed \/ Sampled \/ Accepted
<1>1. Typed /\ InHand
  BY DEF Work
<1>2. ASSUME Shed, late' = late, taken' = taken PROVE Fewer
  BY <1>2, ShedIsFewer, LateFlies
<1>3. CASE \/ UNCHANGED vars
           \/ \E o \in Operations : Post(o) \/ Resumed(o)
           \/ \E here \in BOOLEAN : Assign(here)
  <2>1. UNCHANGED <<cycle, late, session, report, state, taken>>
    BY <1>3 DEF vars, reports, Post, Resumed, Assign
  <2> QED BY <1>2, <2>1 DEF Shed, Still
<1>4. CASE LoseSession
  <2>1. UNCHANGED <<cycle, late, report, state, taken>> /\ session'.id = session.id + 1
    BY <1>4 DEF LoseSession
  <2> QED BY <1>2, <2>1 DEF Shed, Renewed
<1>5. CASE Die
  <2>1. cycle' = Idle /\ UNCHANGED <<late, session, report, state, taken>>
    BY <1>5 DEF Die, reports
  <2> QED BY <1>2, <2>1, ShedIdle DEF Still
<1>6. ASSUME NEW m \in late, Arrive(m) PROVE Still \/ Accepted
  <2>1. m \in Messages /\ (m.kind = "report" => m \in Flying)
    BY <1>1, LateFlies DEF Typed
  <2>2. /\ UNCHANGED <<cycle, state, taken>> /\ Handle(m)
        /\ \A n \in late' : n.kind = "report" => n \in Flying
    BY <1>6, LateFlies DEF Arrive
  <2>3. Fewer
    BY <2>2, ShedIsFewer DEF Shed
  <2> QED BY <1>1, <2>1, <2>2, <2>3, ReportArrives
<1>7. CASE Begin
  <2>1. UNCHANGED <<late, session, report, state, taken>>
    BY <1>7 DEF Begin, reports
  <2> QED BY <1>1, <1>2, <1>7, <2>1, ShedGoto DEF Begin, Still
<1>8. CASE Open
  <2>1. UNCHANGED <<late, report, taken>> /\ session'.id = session.id + 1
    BY <1>8 DEF Open
  <2>2. Shed
    BY <1>1, <1>8, ShedIdle, ShedGoto DEF Open
  <2>3. state' = state \/ state'.session = session.id + 1
    BY <1>8, <2>1 DEF Open
  <2> QED BY <1>2, <2>1, <2>2, <2>3 DEF Renewed
<1>9. CASE Sample
  <2>1. UNCHANGED <<session, report, late>>
    BY <1>9 DEF Sample
  <2>2. CASE cycle'.at = "resume" /\ UNCHANGED <<state, taken>> /\ cycle'.message = cycle.message
    BY <1>2, <2>1, <2>2 DEF Shed, Still
  <2>3. CASE cycle'.at = "post"
    <3>1. /\ cycle'.message.session = state.session
          /\ cycle'.message.sequence = state.next
          /\ cycle'.message.sample = IF cycle.again THEN cycle.message.sample ELSE taken + 1
          /\ taken' = IF cycle.again THEN taken ELSE taken + 1
          /\ state'.session = state.session /\ state'.next = state.next + 1
      BY <1>9, <2>3, SampleSends
    <3>2. cycle.again => cycle.message.sample = taken
      BY <1>1 DEF InHand, ReportsOK
    <3>3. Flying' \subseteq Flying \cup {cycle'.message}
      BY <2>1 DEF Flying
    <3> QED BY <2>1, <3>1, <3>2, <3>3 DEF Sampled
  <2> QED BY <1>9, <2>2, <2>3, SampleSends
<1>10. CASE PostObservation
  <2>1. /\ cycle.at = "post" /\ cycle.message \in Messages
        /\ cycle.message \in Flying
        /\ UNCHANGED <<state, taken>>
    BY <1>1, <1>10 DEF PostObservation, At, InHand, Typed, Flying
  <2>2. CASE Handle(cycle.message) /\ late' = late
    <3>1. \/ cycle' = Idle
          \/ cycle' = [Idle EXCEPT !.at = "resume"]
          \/ cycle' = [cycle EXCEPT !.at = "open", !.again = TRUE]
      BY <1>10 DEF PostObservation, NoAnswer
    <3>2. ASSUME cycle' = [cycle EXCEPT !.at = "open", !.again = TRUE] PROVE Shed
      <4>1. cycle \in CycleRow
        BY <1>1 DEF Typed, CycleRow
      <4> QED BY <3>2, <4>1 DEF CycleRow, Shed
    <3>3. Fewer
      BY <1>2, <2>1, <2>2, <3>1, <3>2, ShedIdle
    <3> QED BY <1>1, <2>1, <2>2, <3>3, ReportArrives
  <2>3. CASE NoAnswer(cycle.message)
    BY <1>1, <2>1, <2>3, UnansweredReport
  <2> QED BY <1>10, <2>2, <2>3 DEF PostObservation
<1>11. CASE Resume \/ Fetch
  <2>1. UNCHANGED <<late, session, report, state, taken>>
    BY <1>11 DEF Resume, Fetch, reports
  <2> QED BY <1>2, <1>11, <2>1, ShedIdle DEF Resume, Fetch, Still
<1>12. CASE Entry
  <2>1. UNCHANGED <<late, session, report, state, taken>>
    BY <1>12 DEF Entry, reports
  <2>2. Shed
    BY <1>1, <1>12, ShedIdle, ShedGoto DEF Entry, NextStage
  <2> QED BY <1>2, <2>1, <2>2 DEF Still
<1>13. CASE Authorize \/ RunWorker \/ RunProgram
  <2>1. UNCHANGED <<late, session, report, state, taken>>
    BY <1>13 DEF Authorize, RunWorker, RunProgram, reports
  <2>2. cycle' = Idle \/ \E s \in {"run", "receipt"} : Goto(s)
    BY <1>13 DEF Authorize, RunWorker, RunProgram, Executed, Uncertain
  <2> QED BY <1>1, <1>2, <2>1, <2>2, ShedIdle, ShedGoto DEF Stages, Still
<1>14. CASE Claim
  <2> DEFINE m == [kind |-> "claim", op |-> Op]
  <2>1. Op \in Operations
    BY <1>1, <1>14, OpIsFirst DEF Claim, At, InHand, Working
  <2>2. m \in Messages /\ m.kind = "claim"
    BY <2>1 DEF Messages
  <2>3. /\ UNCHANGED <<state, taken>>
        /\ \/ Handle(m) /\ Goto("authorize") /\ late' = late
           \/ NoAnswer(m)
    BY <1>14 DEF Claim
  <2> HIDE DEF m
  <2>4. CASE NoAnswer(m)
    BY <1>1, <2>2, <2>3, <2>4, UnansweredReport
  <2>5. CASE Handle(m) /\ Goto("authorize") /\ late' = late
    BY <1>1, <1>2, <2>2, <2>3, <2>5, ShedGoto, ReportArrives
  <2> QED BY <2>3, <2>4, <2>5
<1>15. CASE PostReceipt
  <2> DEFINE m == [kind |-> "final", op |-> Op, verdict |-> journal[Op].verdict]
  <2>1. /\ Op \in Operations /\ journal[Op].verdict \in Final
    <3>1. /\ Op \in Operations /\ journal[Op].phase = "executed"
      BY <1>1, <1>15, OpIsFirst DEF PostReceipt, At, InHand, Working, Work, CycleOK
    <3> QED BY <3>1 DEF Work, JournalOK, Matches
  <2>2. m \in Messages /\ m.kind = "final"
    BY <2>1 DEF Messages
  <2>3. /\ UNCHANGED <<state, taken>>
        /\ \/ UNCHANGED <<status, session, report, late>> /\ cycle' = Idle
           \/ /\ Handle(m) /\ late' = late
              /\ cycle' = [cycle EXCEPT !.at = "entry", !.todo = cycle.todo \ {Op}]
           \/ NoAnswer(m)
    BY <1>15 DEF PostReceipt, Uncertain
  <2> HIDE DEF m
  <2>4. CASE NoAnswer(m)
    BY <1>1, <2>2, <2>3, <2>4, UnansweredReport
  <2>5. CASE /\ Handle(m) /\ late' = late
             /\ cycle' = [cycle EXCEPT !.at = "entry", !.todo = cycle.todo \ {Op}]
    <3>1. cycle \in CycleRow
      BY <1>1 DEF Typed, CycleRow
    <3>2. Shed
      BY <2>5, <3>1 DEF CycleRow, Shed
    <3> QED BY <1>1, <1>2, <2>2, <2>3, <2>5, <3>2, ReportArrives
  <2>6. CASE UNCHANGED <<status, session, report, late>> /\ cycle' = Idle
    BY <1>2, <2>3, <2>6, ShedIdle DEF Still
  <2> QED BY <2>3, <2>4, <2>5, <2>6
<1> QED BY <1>3, <1>4, <1>5, <1>6, <1>7, <1>8, <1>9, <1>10, <1>11, <1>12, <1>13, <1>14,
           <1>15 DEF Next, Cycle

ReportInv == DispatchInv /\ ReportsOK

LEMMA ReportInit == Init => ReportInv
<1>1. Init => ReportsOK
  BY DEF Init, Idle, ReportsOK, Flying
<1> QED BY <1>1, DispatchInit DEF ReportInv

LEMMA ReportStep == ReportInv /\ [Next]_vars => ReportInv' /\ report' >= report
<1> SUFFICES ASSUME ReportInv, [Next]_vars PROVE ReportInv' /\ report' >= report
  OBVIOUS
<1>1. DispatchInv /\ DispatchInv' /\ ReportsOK
  BY DispatchStep DEF ReportInv
<1>2. Still \/ Renewed \/ Sampled \/ Accepted
  BY <1>1, ReportMoves DEF DispatchInv
<1>3. Typed /\ Typed' /\ InHand /\ InHand'
  BY <1>1 DEF DispatchInv, Work
<1> QED BY <1>1, <1>2, <1>3, ReportsStep DEF ReportInv

LEMMA ReportInvariant == Spec => []ReportInv
<1>1. ReportInv /\ [Next]_vars => ReportInv'
  BY ReportStep
<1> QED BY <1>1, ReportInit, PTL DEF Spec

(* The registry's observation never goes back, however posts are lost,     *)
(* late or repeated and sessions replaced: a sequence is saved before it   *)
(* is used, and a new session refuses those of an old one                  *)
(* (_allocate_sequence, _open_session, observe).                           *)
THEOREM NoOlderReportHolds == Spec => NoOlderReport
<1> DEFINE A == report' >= report
<1>1. ReportInv /\ [Next]_vars => [A]_report
  BY ReportStep
<1>2. Spec => [][A]_report
  <2> HIDE DEF A
  <2> QED BY <1>1, ReportInvariant, PTL DEF Spec
<1> QED BY <1>2 DEF NoOlderReport

(* Every variable of the reporter and of the registry's queue has its      *)
(* type, and no observation is newer than what was sampled (run_once).     *)
THEOREM TypesHold == Spec => []TypeOK
<1>1. ReportInv => TypeOK
  BY DEF ReportInv, DispatchInv, Work, Typed, ReportsOK, TypeOK
<1> QED BY <1>1, ReportInvariant, PTL
=============================================================================
