---------------------------- MODULE IngressProofs ----------------------------
(***************************************************************************)
(* The type invariant and the three properties of the edge, for every skew  *)
(* allowance, validity, bounded set of wall clock offsets, and number of   *)
(* versions and failures.                                                  *)
(*                                                                         *)
(* They rest on one invariant about the snapshot in force: it is the one   *)
(* that last raised the high-water mark, the delay of its answer was       *)
(* covered by the skew allowance, and the time for which the registry has  *)
(* not named its backend fits in what is gone of the lease.                *)
(***************************************************************************)
EXTENDS Ingress, TLAPS

\* An answer on its way: its age, and the time its backend has not been
\* named, fit in what is gone of the lease.
AnswerInLease ==
    poll.at = "answered" =>
        /\ poll.reply \in Replies
        /\ poll.reply.age + poll.reply.left <= Validity
        /\ poll.reply.gone + poll.reply.left <= Validity

SnapshotInLease ==
    snapshot # None =>
        /\ snapshot.gone + snapshot.left <= Validity
        /\ -snapshot.delay <= snapshot.offset + Skew

AtTheMark ==
    /\ snapshot # None => snapshot.version = highwater
    /\ trusted <= highwater

IInv == TypeOK /\ AnswerInLease /\ SnapshotInLease /\ AtTheMark

-----------------------------------------------------------------------------
(* Arithmetic of the bounds                                                *)

LEMMA LargerOf ==
    ASSUME NEW a \in Int, NEW b \in Int
    PROVE  Max({a, b}) = IF a >= b THEN a ELSE b
<1> DEFINE IsMax(m) == \A y \in {a, b} : m >= y
<1>1. \E m \in {a, b} : IsMax(m)
  OBVIOUS
<1>2. Max({a, b}) = CHOOSE m \in {a, b} : IsMax(m)
  BY DEF Max
<1>3. Max({a, b}) \in {a, b} /\ IsMax(Max({a, b}))
  BY <1>1, <1>2
<1>4. QED BY <1>3

LEMMA SmallerOf ==
    ASSUME NEW a \in Int, NEW b \in Int
    PROVE  Min({a, b}) = IF a <= b THEN a ELSE b
<1> DEFINE IsMin(m) == \A y \in {a, b} : m <= y
<1>1. \E m \in {a, b} : IsMin(m)
  OBVIOUS
<1>2. Min({a, b}) = CHOOSE m \in {a, b} : IsMin(m)
  BY DEF Min
<1>3. Min({a, b}) \in {a, b} /\ IsMin(Min({a, b}))
  BY <1>1, <1>2
<1>4. QED BY <1>3

LEMMA Bounds ==
    /\ Min(Offsets) \in Int /\ Max(Offsets) \in Int
    /\ \A o \in Offsets : o \in Int /\ Min(Offsets) <= o /\ o <= Max(Offsets)
    /\ Least \in Int /\ Least <= 0
    /\ Skew \in Nat /\ Validity \in Nat /\ MaxVersion \in Nat /\ MaxFaults \in Nat
<1> DEFINE IsMin(m) == \A y \in Offsets : m <= y
           IsMax(m) == \A y \in Offsets : m >= y
<1>1. PICK lo \in Offsets, hi \in Offsets : \A o \in Offsets : o \in lo .. hi
  BY EdgeAssumption
<1>2. lo \in Int /\ hi \in Int /\ Offsets \subseteq Int
  BY EdgeAssumption
<1>3. IsMin(lo) /\ IsMax(hi)
  BY <1>1, <1>2
<1>4. Min(Offsets) = CHOOSE m \in Offsets : IsMin(m)
  BY DEF Min
<1>5. Max(Offsets) = CHOOSE m \in Offsets : IsMax(m)
  BY DEF Max
<1>6. Min(Offsets) \in Offsets /\ IsMin(Min(Offsets))
  BY <1>3, <1>4
<1>7. Max(Offsets) \in Offsets /\ IsMax(Max(Offsets))
  BY <1>3, <1>5
<1>8. Min(Offsets) < -Skew
  BY EdgeAssumption
<1>9. /\ Min(Offsets) \in Int /\ Max(Offsets) \in Int
      /\ \A o \in Offsets : o \in Int /\ Min(Offsets) <= o /\ o <= Max(Offsets)
  BY <1>2, <1>6, <1>7
<1>10. /\ Skew \in Nat /\ Validity \in Nat
       /\ MaxVersion \in Nat /\ MaxFaults \in Nat
  BY EdgeAssumption
<1> HIDE DEF IsMin, IsMax
<1>11. Least \in Int /\ Least <= 0
  BY <1>8, <1>9, <1>10 DEF Least
<1>12. QED BY <1>9, <1>10, <1>11

-----------------------------------------------------------------------------
(* The initial state, and one step                                         *)

\* What the document and the endpoint say is one and the same instance.
LEMMA RenderedIsOneBackend ==
    ASSUME TypeOK
    PROVE  Rendered \in Documents
<1>1. CASE Fresh
  <2>1. snapshot \in Snapshots
    BY <1>1 DEF Fresh, TypeOK
  <2>2. snapshot.backend \in Routed
    BY <2>1 DEF Snapshots
  <2>3. QED
    BY <1>1, <2>2 DEF Rendered, TokenOf, Documents
<1>2. CASE ~Fresh
  BY <1>2 DEF Rendered, Denied, Documents, Routed
<1>3. QED BY <1>1, <1>2

LEMMA Initially == Init => IInv
<1> SUFFICES ASSUME Init PROVE IInv
  OBVIOUS
<1>1. TypeOK
  BY Bounds DEF Init, TypeOK, Asking, Documents, Denied, Routed, Versions
<1>2. AnswerInLease /\ SnapshotInLease /\ AtTheMark
  BY DEF Init, AnswerInLease, SnapshotInLease, AtTheMark, Asking
<1>3. QED BY <1>1, <1>2 DEF IInv

\* Steps of the registry, of the wall clocks, and of nobody, leave the edge
\* as it is.
LEMMA OutsideKeeps ==
    ASSUME IInv, registry' \in [version : Versions, backend : Routed],
           offset' \in Offsets, UNCHANGED <<edge, loaded, trusted, faults>>
    PROVE  IInv'
  BY DEF IInv, TypeOK, AnswerInLease, SnapshotInLease, AtTheMark, edge

LEMMA CommitKeeps == ASSUME IInv, NEW b \in Routed, Commit(b) PROVE IInv'
<1>1. registry \in [version : Versions, backend : Routed] /\ offset \in Offsets
  BY DEF IInv, TypeOK
<1>2. registry' = [version |-> registry.version + 1, backend |-> b]
  BY <1>1 DEF Commit
<1>3. registry.version + 1 \in Versions
  BY <1>1, Bounds DEF Commit, Versions
<1>4. registry' \in [version : Versions, backend : Routed]
  BY <1>2, <1>3
<1>5. QED
  BY <1>1, <1>4, OutsideKeeps DEF Commit

LEMMA LapseKeeps == ASSUME IInv, Lapse PROVE IInv'
<1>1. registry \in [version : Versions, backend : Routed] /\ offset \in Offsets
  BY DEF IInv, TypeOK
<1>2. registry' \in [version : Versions, backend : Routed]
  BY <1>1 DEF Lapse, Routed
<1>3. QED
  BY <1>1, <1>2, OutsideKeeps DEF Lapse

LEMMA RestoreKeeps ==
    ASSUME IInv, NEW v \in Versions, NEW b \in Routed, Restore(v, b)
    PROVE  IInv'
  BY OutsideKeeps DEF Restore, IInv, TypeOK

LEMMA StepKeeps == ASSUME IInv, Step PROVE IInv'
  BY OutsideKeeps DEF Step, IInv, TypeOK

LEMMA AnswerKeeps ==
    ASSUME IInv, NEW span \in 0 .. Validity, Answer(span)
    PROVE  IInv'
<1> DEFINE lease == [version |-> registry.version, backend |-> registry.backend,
                     age |-> 0, left |-> span, gone |-> 0]
<1>1. lease \in Replies /\ lease.age + lease.left <= Validity
      /\ lease.gone + lease.left <= Validity
  BY Bounds DEF IInv, TypeOK, Replies
<1>2. poll' = [at |-> "answered", reply |-> lease]
  BY DEF Answer
<1> HIDE DEF lease
<1>3. poll'.at = "answered" /\ poll'.reply = lease
  BY <1>2
<1>4. UNCHANGED <<registry, offset, highwater, snapshot, document, loaded, trusted, faults>>
  BY DEF Answer
<1>5. TypeOK'
  BY <1>1, <1>2, <1>4 DEF IInv, TypeOK
<1>6. (AnswerInLease /\ SnapshotInLease /\ AtTheMark)'
  BY <1>1, <1>3, <1>4 DEF IInv, AnswerInLease, SnapshotInLease, AtTheMark
<1>7. QED BY <1>5, <1>6 DEF IInv

LEMMA FetchFailsKeeps == ASSUME IInv, FetchFails PROVE IInv'
<1>1. poll' = [at |-> "render", reply |-> None]
  BY DEF FetchFails
<1>2. UNCHANGED <<registry, offset, highwater, snapshot, document, loaded, trusted, faults>>
  BY DEF FetchFails
<1>3. TypeOK'
  BY <1>1, <1>2 DEF IInv, TypeOK
<1>4. (AnswerInLease /\ SnapshotInLease /\ AtTheMark)'
  BY <1>1, <1>2 DEF IInv, AnswerInLease, SnapshotInLease, AtTheMark
<1>5. QED BY <1>3, <1>4 DEF IInv

\* The accepted answer becomes the snapshot, and the mark.
LEMMA AcceptKeeps ==
    ASSUME IInv, poll.at = "answered", Acceptable(poll.reply), Raise(poll.reply),
           poll' = [at |-> "render", reply |-> None],
           snapshot' = [version |-> poll.reply.version, backend |-> poll.reply.backend,
                        left |-> poll.reply.left, since |-> 0, offset |-> offset,
                        delay |-> poll.reply.age, gone |-> poll.reply.gone],
           UNCHANGED <<registry, offset, document, loaded, trusted, faults>>
    PROVE  IInv'
<1>1. /\ poll.reply \in Replies
      /\ poll.reply.gone + poll.reply.left <= Validity
  BY DEF IInv, AnswerInLease
<1>2. snapshot' \in Snapshots
  BY <1>1, Bounds DEF Replies, Snapshots, IInv, TypeOK
<1>3. highwater' = poll.reply.version /\ highwater' \in Versions /\ highwater <= highwater'
  <2>1. poll.reply.version \in Versions /\ highwater \in Versions
    BY <1>1 DEF IInv, TypeOK, Replies
  <2>2. poll.reply.version \in Int /\ highwater \in Int
    BY <2>1, Bounds DEF Versions
  <2>3. poll.reply.version >= highwater
    BY DEF Acceptable
  <2>4. QED BY <2>1, <2>2, <2>3, LargerOf DEF Raise
<1>4. TypeOK'
  BY <1>2, <1>3 DEF IInv, TypeOK
<1>5. -poll.reply.age <= offset + Skew
  BY DEF Acceptable
<1>6. (AnswerInLease /\ SnapshotInLease)'
  BY <1>1, <1>5 DEF AnswerInLease, SnapshotInLease
<1>7. trusted \in Int /\ highwater \in Int
  BY Bounds DEF IInv, TypeOK, Versions
<1>8. highwater' \in Int
  BY <1>3, Bounds DEF Versions
<1>9. AtTheMark'
  BY <1>3, <1>7, <1>8 DEF IInv, AtTheMark
<1>10. QED BY <1>4, <1>6, <1>9 DEF IInv

LEMMA ReceiveKeeps == ASSUME IInv, Receive PROVE IInv'
<1>1. poll.at = "answered" /\ poll' = [at |-> "render", reply |-> None]
  BY DEF Receive
<1>2. UNCHANGED <<registry, offset, document, loaded, trusted>>
  BY DEF Receive
<1>3. CASE UNCHANGED <<highwater, snapshot>> /\ faults' \in 0 .. MaxFaults
  <2>1. TypeOK'
    BY <1>1, <1>2, <1>3 DEF IInv, TypeOK
  <2>2. (AnswerInLease /\ SnapshotInLease /\ AtTheMark)'
    BY <1>1, <1>2, <1>3 DEF IInv, AnswerInLease, SnapshotInLease, AtTheMark
  <2>3. QED BY <2>1, <2>2 DEF IInv
<1>4. CASE /\ Acceptable(poll.reply) /\ Raise(poll.reply)
           /\ snapshot' = [version |-> poll.reply.version, backend |-> poll.reply.backend,
                           left |-> poll.reply.left, since |-> 0, offset |-> offset,
                           delay |-> poll.reply.age, gone |-> poll.reply.gone]
           /\ UNCHANGED faults
  BY <1>1, <1>2, <1>4, AcceptKeeps
<1>5. faults \in 0 .. MaxFaults /\ MaxFaults \in Nat
  BY Bounds DEF IInv, TypeOK
<1>6. QED BY <1>3, <1>4, <1>5 DEF Receive

LEMMA RenderKeeps == ASSUME IInv, Render PROVE IInv'
<1>1. poll' = Asking
  BY DEF Render
<1>2. document' \in Documents
  BY RenderedIsOneBackend DEF IInv, TypeOK, Render
<1>3. faults' \in 0 .. MaxFaults
  BY Bounds DEF IInv, TypeOK, Render
<1>4. UNCHANGED <<registry, offset, highwater, snapshot, loaded, trusted>>
  BY DEF Render
<1>5. TypeOK'
  BY <1>1, <1>2, <1>3, <1>4 DEF IInv, TypeOK, Asking
<1>6. (AnswerInLease /\ SnapshotInLease /\ AtTheMark)'
  BY <1>1, <1>4 DEF IInv, AnswerInLease, SnapshotInLease, AtTheMark, Asking
<1>7. QED BY <1>5, <1>6 DEF IInv

LEMMA LoadKeeps == ASSUME IInv, Load PROVE IInv'
<1>1. loaded' \in Documents
  BY RenderedIsOneBackend DEF IInv, TypeOK, Load
<1>2. UNCHANGED <<registry, offset, poll, highwater, snapshot, document, trusted, faults>>
  BY DEF Load, edge
<1>3. QED
  BY <1>1, <1>2 DEF IInv, TypeOK, AnswerInLease, SnapshotInLease, AtTheMark

LEMMA RequestKeeps == ASSUME IInv, Request PROVE IInv'
<1>1. UNCHANGED <<registry, offset, poll, highwater, snapshot, document, loaded, faults>>
  BY DEF Request, edge
<1>2. snapshot # None
  BY DEF Request, LetsThrough, Authorized, Fresh
<1>3. snapshot.version = highwater /\ trusted <= highwater
  BY <1>2 DEF IInv, AtTheMark
<1>4. highwater \in Versions /\ highwater \in Int /\ trusted \in Int
  BY Bounds DEF IInv, TypeOK, Versions
<1>5. trusted' = highwater
  BY <1>3, <1>4, LargerOf DEF Request
<1>6. TypeOK'
  BY <1>1, <1>4, <1>5 DEF IInv, TypeOK
<1>7. (AnswerInLease /\ SnapshotInLease /\ AtTheMark)'
  BY <1>1, <1>4, <1>5 DEF IInv, AnswerInLease, SnapshotInLease, AtTheMark
<1>8. QED BY <1>6, <1>7 DEF IInv

LEMMA RestartKeeps == ASSUME IInv, Restart PROVE IInv'
<1>1. poll' = Asking /\ snapshot' = None
  BY DEF Restart
<1>2. faults' \in 0 .. MaxFaults
  BY Bounds DEF IInv, TypeOK, Restart, Fault
<1>3. UNCHANGED <<registry, offset, highwater, document, loaded, trusted>>
  BY DEF Restart
<1>4. TypeOK'
  BY <1>1, <1>2, <1>3 DEF IInv, TypeOK, Asking
<1>5. (AnswerInLease /\ SnapshotInLease /\ AtTheMark)'
  BY <1>1, <1>3 DEF IInv, AnswerInLease, SnapshotInLease, AtTheMark, Asking
<1>6. QED BY <1>4, <1>5 DEF IInv

\* The backend is either named now, or has been gone for one instant more.
LEMMA GoneByOne ==
    ASSUME NEW s, s.gone \in Nat
    PROVE  Gone(s) \in Nat /\ Gone(s) <= s.gone + 1
  BY DEF Gone

LEMMA TickKeepsTheSnapshot ==
    ASSUME IInv, Tick, snapshot' # None
    PROVE  /\ snapshot' \in Snapshots
           /\ snapshot'.gone + snapshot'.left <= Validity
           /\ -snapshot'.delay <= snapshot'.offset + Skew
           /\ snapshot'.version = highwater
<1>1. snapshot # None /\ snapshot.left # Least
  BY DEF Tick
<1>2. /\ snapshot \in Snapshots
      /\ snapshot.gone + snapshot.left <= Validity
      /\ -snapshot.delay <= snapshot.offset + Skew
      /\ snapshot.version = highwater
  BY <1>1 DEF IInv, TypeOK, SnapshotInLease, AtTheMark
<1> DEFINE since == Min({snapshot.since + 1, snapshot.offset - Min(Offsets)})
           gone == Gone(snapshot)
<1>3. snapshot' = [version |-> snapshot.version, backend |-> snapshot.backend,
                   left |-> snapshot.left - 1, since |-> since,
                   offset |-> snapshot.offset, delay |-> snapshot.delay, gone |-> gone]
  BY <1>1, <1>2 DEF Tick, Snapshots
<1>4. gone \in Nat /\ gone <= snapshot.gone + 1
  <2>1. snapshot.gone \in Nat
    BY <1>2, Bounds DEF Snapshots
  <2>2. QED BY <2>1, GoneByOne
<1>5. since \in 0 .. Max(Offsets) - Min(Offsets)
  <2>1. snapshot.since + 1 \in Int /\ 0 <= snapshot.since + 1
    BY <1>2, Bounds DEF Snapshots
  <2>2. /\ snapshot.offset - Min(Offsets) \in Int
        /\ 0 <= snapshot.offset - Min(Offsets)
        /\ snapshot.offset - Min(Offsets) <= Max(Offsets) - Min(Offsets)
    BY <1>2, Bounds DEF Snapshots
  <2>3. QED BY <2>1, <2>2, SmallerOf, Bounds
<1> HIDE DEF since, gone
<1>6. snapshot.left \in Least .. Validity /\ snapshot.left - 1 \in Least .. Validity
  BY <1>1, <1>2, Bounds DEF Snapshots
<1>7. gone + (snapshot.left - 1) <= Validity
  <2>1. snapshot.gone \in Int /\ snapshot.left \in Int
    BY <1>2, Bounds DEF Snapshots
  <2>2. QED BY <1>2, <1>4, <2>1, Bounds
<1>8. gone \in 0 .. Validity - Least
  BY <1>4, <1>6, <1>7, Bounds
<1>9. snapshot' \in Snapshots
  BY <1>2, <1>3, <1>5, <1>6, <1>8 DEF Snapshots
<1>10. QED BY <1>2, <1>3, <1>7, <1>9

LEMMA TickKeepsTheAnswer ==
    ASSUME IInv, Tick
    PROVE  /\ poll' \in [at : {"asking", "answered", "render"},
                         reply : Replies \cup {None}]
           /\ AnswerInLease'
<1>1. CASE poll.at # "answered"
  BY <1>1 DEF Tick, IInv, TypeOK, AnswerInLease
<1>2. CASE poll.at = "answered" /\ poll.reply.left = Least
  BY <1>2 DEF Tick, AnswerInLease
<1>3. CASE poll.at = "answered" /\ poll.reply.left # Least
  <2> DEFINE gone == Gone(poll.reply)
             older == Older(poll.reply)
  <2>1. /\ poll.reply \in Replies
        /\ poll.reply.age + poll.reply.left <= Validity
        /\ poll.reply.gone + poll.reply.left <= Validity
    BY <1>3 DEF IInv, AnswerInLease
  <2>2. /\ poll.reply.left \in Int /\ poll.reply.age \in Nat /\ poll.reply.gone \in Nat
        /\ Least <= poll.reply.left - 1 /\ poll.reply.left - 1 <= Validity
    BY <1>3, <2>1, Bounds DEF Replies
  <2>3. gone \in Nat /\ gone <= poll.reply.gone + 1
    BY <2>2, GoneByOne
  <2>4. /\ poll.reply.age + 1 \in 0 .. Validity - Least
        /\ poll.reply.left - 1 \in Least .. Validity
        /\ gone \in 0 .. Validity - Least
    BY <2>1, <2>2, <2>3, Bounds
  <2>5. poll' = [poll EXCEPT !.reply = older]
    BY <1>3 DEF Tick
  <2>6. poll' = [at |-> "answered", reply |-> older]
    BY <1>3, <2>5 DEF IInv, TypeOK
  <2>7. older \in Replies /\ older.age = poll.reply.age + 1
        /\ older.left = poll.reply.left - 1 /\ older.gone = gone
    BY <2>1, <2>4 DEF Replies, Older
  <2> HIDE DEF older, gone
  <2>8. older.age + older.left <= Validity /\ older.gone + older.left <= Validity
    BY <2>1, <2>2, <2>3, <2>7, Bounds
  <2>9. QED
    BY <2>6, <2>7, <2>8 DEF AnswerInLease
<1>4. QED BY <1>1, <1>2, <1>3

LEMMA TickKeeps == ASSUME IInv, Tick PROVE IInv'
<1>1. UNCHANGED <<registry, offset, highwater, document, loaded, trusted, faults>>
  BY DEF Tick
<1>2. TypeOK'
  BY <1>1, TickKeepsTheSnapshot, TickKeepsTheAnswer DEF IInv, TypeOK
<1>3. (SnapshotInLease /\ AtTheMark)'
  BY <1>1, TickKeepsTheSnapshot DEF IInv, SnapshotInLease, AtTheMark
<1>4. QED BY <1>2, <1>3, TickKeepsTheAnswer DEF IInv

LEMMA EveryStep == IInv /\ [Next]_vars => IInv'
<1> SUFFICES ASSUME IInv, [Next]_vars PROVE IInv'
  OBVIOUS
<1>1. CASE Next
  <2>1. CASE \E b \in Routed : Commit(b)
    BY <2>1, CommitKeeps
  <2>2. CASE \E span \in 0 .. Validity : Answer(span)
    BY <2>2, AnswerKeeps
  <2>3. CASE \E v \in Versions, b \in Routed : Restore(v, b)
    BY <2>3, RestoreKeeps
  <2>4. CASE Thread
    BY <2>4, FetchFailsKeeps, ReceiveKeeps, RenderKeeps DEF Thread
  <2>5. CASE Lapse \/ Step
    BY <2>5, LapseKeeps, StepKeeps
  <2>6. CASE Load \/ Request
    BY <2>6, LoadKeeps, RequestKeeps
  <2>7. CASE Tick \/ Restart
    BY <2>7, TickKeeps, RestartKeeps
  <2>8. QED
    BY <1>1, <2>1, <2>2, <2>3, <2>4, <2>5, <2>6, <2>7 DEF Next
<1>2. CASE UNCHANGED vars
  BY <1>2, OutsideKeeps DEF vars, IInv, TypeOK
<1>3. QED BY <1>1, <1>2

THEOREM Invariant == Spec => []IInv
  BY Initially, EveryStep, PTL DEF Spec

-----------------------------------------------------------------------------
(* What it gives                                                           *)

\* Every variable of the edge keeps its type; the ages, leases and delays in
\* particular stay within the windows the model gives them.
THEOREM TypeCorrect == Spec => []TypeOK
<1>1. IInv => TypeOK
  BY DEF IInv
<1>2. QED BY <1>1, Invariant, PTL

\* How long a fresh snapshot still has, by any clock of the edge.
LEMMA LeaseLeft ==
    ASSUME IInv, LetsThrough
    PROVE  /\ snapshot \in Snapshots
           /\ \/ snapshot.left > 0
              \/ -snapshot.offset > Skew /\ snapshot.left + snapshot.delay > 0
<1>1. snapshot # None /\ snapshot.offset < snapshot.left - Skew
  BY DEF LetsThrough, Authorized, Fresh
<1>2. snapshot \in Snapshots /\ -snapshot.delay <= snapshot.offset + Skew
  BY <1>1 DEF IInv, TypeOK, SnapshotInLease
<1>3. snapshot.offset \in Int /\ snapshot.left \in Int /\ snapshot.delay \in Int
  BY <1>2, Bounds DEF Snapshots
<1>4. QED BY <1>1, <1>2, <1>3, Bounds

\* No request is let through after the registry's lease, but for the one
\* combination of clocks and delay that LeaseHonoured names.
THEOREM LeaseHonouredHolds == Spec => []LeaseHonoured
<1>1. IInv => LeaseHonoured
  BY LeaseLeft DEF LeaseHonoured
<1>2. QED BY <1>1, Invariant, PTL

\* A request goes to the instance the snapshot in force names, and one the
\* registry stopped naming is out of reach within the validity of a snapshot
\* and the delay of the answer that brought it.
THEOREM WithdrawnWithinHolds == Spec => []WithdrawnWithin
<1>1. IInv => WithdrawnWithin
  <2> SUFFICES ASSUME IInv, LetsThrough
               PROVE  /\ loaded.backend = snapshot.backend
                      /\ snapshot.gone < Validity + snapshot.delay
    BY DEF WithdrawnWithin
  <2>1. snapshot # None
    BY DEF LetsThrough, Authorized, Fresh
  <2>2. snapshot.gone + snapshot.left <= Validity
    BY <2>1 DEF IInv, SnapshotInLease
  <2>3. snapshot \in Snapshots /\ snapshot.left + snapshot.delay > 0
    <3>1. snapshot \in Snapshots
      BY LeaseLeft
    <3>2. snapshot.left \in Int /\ snapshot.delay \in Int /\ snapshot.delay >= 0
      BY <3>1, Bounds DEF Snapshots
    <3>3. QED BY <3>1, <3>2, LeaseLeft
  <2>4. snapshot.left \in Int /\ snapshot.delay \in Int /\ snapshot.gone \in Int
    BY <2>3, Bounds DEF Snapshots
  <2>5. loaded.backend = snapshot.backend
    BY DEF IInv, TypeOK, LetsThrough, Authorized, TokenOf, Documents
  <2>6. QED BY <2>2, <2>3, <2>4, <2>5, Bounds
<1>2. QED BY <1>1, Invariant, PTL

\* No request is let through on an older version than one before it.
THEOREM NeverBackHolds == Spec => []NeverBack
<1>1. IInv => NeverBack
  BY Bounds DEF IInv, TypeOK, AtTheMark, NeverBack, LetsThrough, Authorized, Fresh, Versions
<1>2. QED BY <1>1, Invariant, PTL
=============================================================================
