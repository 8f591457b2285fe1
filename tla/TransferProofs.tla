--------------------------- MODULE TransferProofs ---------------------------
(***************************************************************************)
(* From a frozen source to a started target, for every number of state     *)
(* mounts, captures, restores, destinations, writes and failures: what is  *)
(* recorded and what is offered is what was frozen, and a restore keeps    *)
(* what Installation promises.                                             *)
(***************************************************************************)
EXTENDS Transfer, TLAPS

(***************************************************************************)
(* Captures.  A barrier is given out once per capture, so what a capture   *)
(* froze is settled when its barrier is complete.  A manifest is sealed    *)
(* only while that barrier stands, over a draft read under it; everything  *)
(* that goes by the manifest afterwards, with or without the barrier and   *)
(* whoever waits for it, is compared with it before it counts as a point.  *)
(***************************************************************************)


\* What restic has read of a source so far.
PartialTrees == UNION {[read -> Contents] : read \in SUBSET Leaves}

RequestType == [step : {"draft", "compose", "final", "copy", "keep"},
                capture : Captures, repository : Repositories,
                tree : PartialTrees, manifest : PartialTrees, snapshot : Nat]

Orphans == [repository : Repositories, capture : Captures,
            tree : PartialTrees, manifest : Trees]

CaptureTypeOK ==
    /\ live \in Trees /\ running \in BOOLEAN
    /\ held \in Captures \cup {None} /\ released \subseteq Captures
    /\ frozen \in [Captures -> Trees \cup {None}]
    /\ job \in [Captures -> Jobs \cup {None}]
    /\ request # None => request \in RequestType
    /\ request # None => job[request.capture] \in Jobs
    /\ request # None /\ request.step = "copy" => request.tree \in Trees
    /\ finals \in [Repositories -> Seq(Snapshots)]
    /\ orphans \subseteq Orphans

\* The one barrier there is has not been given up, and over a drained source
\* it is over what the source holds.
OneBarrier ==
    /\ held \notin released
    /\ held # None /\ ~running => frozen[held] = live

\* What capture c froze is settled, and it is `tree`.
Settled(c) == c \in released \/ Barrier(c)
Froze(c, tree) == Settled(c) /\ tree = frozen[c] /\ tree \in Trees

\* A draft is of the frozen source, unless the barrier was given up under it.
DraftUnderBarrier ==
    request # None /\ request.step = "draft" =>
        \/ request.capture \in released
        \/ /\ Barrier(request.capture)
           /\ \A l \in DOMAIN request.tree : request.tree[l] = live[l]

\* A sealed manifest is what the capture froze, wherever it went.
SealedIsFrozen ==
    /\ request # None /\ request.step \in {"compose", "final", "copy"} =>
          Froze(request.capture, request.manifest)
    /\ \A o \in orphans : Froze(o.capture, o.manifest)
    /\ \A r \in Repositories : \A i \in DOMAIN finals[r] :
          Froze(finals[r][i].capture, finals[r][i].manifest)

\* In the repositories f, snapshot i of r is a sound final of capture c; the
\* records of a journal entry of c are of such.
PointIn(f, c, r, i) == i \in DOMAIN f[r] /\ f[r][i].capture = c /\ Sound(f[r][i])
RecordIn(f, c, record) == record # None => PointIn(f, c, record.repository, record.snapshot)
EntryIn(f, c, entry) ==
    /\ RecordIn(f, c, entry.cache)
    /\ entry.cache # None => entry.cache.repository = Cache
    /\ \A d \in Destinations : RecordIn(f, c, entry.copies[d])

\* A capture goes to the cache.
CacheFirst ==
    request # None /\ request.step \in {"draft", "compose", "final"} =>
        request.repository = Cache

\* What is recorded, or about to be, is a sound final of its capture.
KeepSound ==
    request # None /\ request.step = "keep" =>
        PointIn(finals, request.capture, request.repository, request.snapshot)
RecordsSound == \A c \in Captures : job[c] # None => EntryIn(finals, c, job[c])

CaptureInv ==
    /\ CaptureTypeOK /\ OneBarrier /\ DraftUnderBarrier /\ SealedIsFrozen
    /\ CacheFirst /\ KeepSound /\ RecordsSound

-----------------------------------------------------------------------------
(* The invariant gives the two properties                                  *)

LEMMA InvIsEnough == CaptureInv => SoundIsFrozen /\ RecordsFrozen
<1> SUFFICES ASSUME CaptureInv PROVE SoundIsFrozen /\ RecordsFrozen
  OBVIOUS
<1>1. ASSUME NEW r \in Repositories, NEW i \in DOMAIN finals[r], Sound(finals[r][i])
      PROVE  /\ finals[r][i].tree = frozen[finals[r][i].capture]
             /\ finals[r][i].manifest = frozen[finals[r][i].capture]
  BY <1>1 DEF CaptureInv, SealedIsFrozen, Froze, Sound
<1>2. ASSUME NEW c \in Captures, NEW record \in Receipts,
             PointIn(finals, c, record.repository, record.snapshot)
      PROVE  Point(record) = [capture |-> c, tree |-> frozen[c], manifest |-> frozen[c]]
  <2> DEFINE s == finals[record.repository][record.snapshot]
  <2>1. record.repository \in Repositories
    BY DEF Receipts
  <2>2. record.snapshot \in DOMAIN finals[record.repository] /\ s.capture = c /\ Sound(s)
    BY <1>2 DEF PointIn
  <2>3. s.tree = frozen[c] /\ s.manifest = frozen[c]
    BY <1>1, <2>1, <2>2
  <2>4. s \in Snapshots
    <3>1. finals[record.repository] \in Seq(Snapshots)
      BY <2>1 DEF CaptureInv, CaptureTypeOK
    <3>2. QED BY <3>1, <2>2
  <2>5. QED BY <2>2, <2>3, <2>4 DEF Snapshots, Point
<1>3. RecordsFrozen
  <2> SUFFICES ASSUME NEW c \in Captures, job[c] # None,
                      NEW record \in {job[c].cache} \cup {job[c].copies[d] : d \in Destinations},
                      record # None
               PROVE  Point(record) = [capture |-> c, tree |-> frozen[c], manifest |-> frozen[c]]
    BY DEF RecordsFrozen
  <2>1. job[c] \in Jobs
    BY DEF CaptureInv, CaptureTypeOK
  <2>2. record \in Receipts
    BY <2>1 DEF Jobs
  <2>3. PointIn(finals, c, record.repository, record.snapshot)
    BY DEF CaptureInv, RecordsSound, EntryIn, RecordIn
  <2>4. QED BY <1>2, <2>2, <2>3
<1>4. SoundIsFrozen
  BY <1>1 DEF SoundIsFrozen
<1>5. QED BY <1>3, <1>4

LEMMA CaptureInitially == Init => CaptureInv
<1> SUFFICES ASSUME Init PROVE CaptureInv
  OBVIOUS
<1> USE DEF Init, RepositoryInit, BackupInit
<1>1. CaptureTypeOK
  <2>1. [l \in Leaves |-> 0] \in Trees
    BY BackupAssumption DEF Trees
  <2>2. QED BY <2>1 DEF CaptureTypeOK
<1>2. OneBarrier /\ DraftUnderBarrier
  BY DEF OneBarrier, DraftUnderBarrier
<1>3. SealedIsFrozen /\ CacheFirst /\ KeepSound /\ RecordsSound
  <2>1. \A r \in Repositories : DOMAIN finals[r] = {}
    OBVIOUS
  <2>2. QED BY <2>1 DEF SealedIsFrozen, CacheFirst, KeepSound, RecordsSound, EntryIn, RecordIn
<1>4. QED BY <1>1, <1>2, <1>3 DEF CaptureInv

-----------------------------------------------------------------------------
(* A step of the source                                                    *)

LEMMA SourcePreserves == CaptureInv /\ SourceStep => CaptureInv'
<1> SUFFICES ASSUME CaptureInv, SourceStep PROVE CaptureInv'
  OBVIOUS
<1> USE DEF CaptureInv
<1>0. /\ UNCHANGED <<finals, orphans, job, request>>
      /\ None \notin Captures
  BY RepositoryAssumption DEF SourceStep, Write, Drain, Thaw, Resume, Freeze
<1>1. CaptureTypeOK'
  <2>1. /\ live' \in Trees /\ running' \in BOOLEAN
        /\ held' \in Captures \cup {None} /\ released' \subseteq Captures
        /\ frozen' \in [Captures -> Trees \cup {None}]
    <3>1. CASE Write
      <4>1. PICK l \in Leaves : live[l] < MaxWrites /\ live' = [live EXCEPT ![l] = @ + 1]
        BY <3>1 DEF Write
      <4>2. live[l] \in 0 .. MaxWrites /\ MaxWrites \in Nat
        BY BackupAssumption DEF CaptureTypeOK, Trees
      <4>3. live[l] + 1 \in Contents
        BY <4>1, <4>2, BackupAssumption
      <4>4. live' \in Trees
        BY <4>1, <4>3 DEF CaptureTypeOK, Trees
      <4>5. QED BY <3>1, <4>4 DEF Write, CaptureTypeOK
    <3>2. CASE Drain
      BY <3>2 DEF Drain, CaptureTypeOK
    <3>3. CASE Thaw
      BY <3>3 DEF Thaw, CaptureTypeOK
    <3>4. CASE Resume
      BY <3>4 DEF Resume, CaptureTypeOK
    <3>5. ASSUME NEW c \in Captures, Freeze(c)
          PROVE  /\ live' \in Trees /\ running' \in BOOLEAN
                 /\ held' \in Captures \cup {None} /\ released' \subseteq Captures
                 /\ frozen' \in [Captures -> Trees \cup {None}]
      BY <3>5 DEF Freeze, CaptureTypeOK
    <3>6. QED BY <3>1, <3>2, <3>3, <3>4, <3>5 DEF SourceStep
  <2>2. QED BY <1>0, <2>1 DEF CaptureTypeOK
<1>2. OneBarrier'
  BY <1>0 DEF SourceStep, Write, Drain, Thaw, Resume, Freeze, OneBarrier, CaptureTypeOK
<1> DEFINE StillSettled(c) == c \in released' \/ (held' = c /\ ~running')
           StillFroze(c, tree) == StillSettled(c) /\ tree = frozen'[c] /\ tree \in Trees
<1>3. ASSUME NEW c \in Captures, Settled(c)
      PROVE  StillSettled(c) /\ frozen'[c] = frozen[c]
  <2>1. c # None /\ (c \in released \/ (held = c /\ ~running))
    BY <1>0, <1>3 DEF Settled, Barrier
  <2>2. CASE Write \/ Resume
    BY <2>1, <2>2 DEF Write, Resume
  <2>3. CASE Thaw
    BY <2>1, <2>3 DEF Thaw
  <2>4. CASE Drain
    <3>1. c \in released /\ held # c
      BY <2>1, <2>4 DEF Drain, OneBarrier
    <3>2. QED BY <2>4, <3>1 DEF Drain, CaptureTypeOK
  <2>5. ASSUME NEW d \in Captures, Freeze(d)
        PROVE  StillSettled(c) /\ frozen'[c] = frozen[c]
    <3>1. c \in released /\ c # d
      BY <2>1, <2>5 DEF Freeze
    <3>2. QED BY <2>5, <3>1 DEF Freeze, CaptureTypeOK
  <2>6. QED BY <2>2, <2>3, <2>4, <2>5 DEF SourceStep
<1>4. ASSUME NEW c \in Captures, NEW tree, Froze(c, tree)
      PROVE  StillFroze(c, tree)
  <2>1. Settled(c) /\ tree = frozen[c] /\ tree \in Trees
    BY <1>4 DEF Froze
  <2>2. QED BY <1>3, <2>1
<1>5. DraftUnderBarrier'
  <2> SUFFICES ASSUME request # None, request.step = "draft"
               PROVE  \/ request.capture \in released'
                      \/ /\ Barrier(request.capture)'
                         /\ \A l \in DOMAIN request.tree : request.tree[l] = live'[l]
    BY <1>0 DEF DraftUnderBarrier
  <2>1. request.capture \in Captures
    BY DEF CaptureTypeOK, RequestType
  <2>2. CASE request.capture \in released
    BY <2>2 DEF SourceStep, Write, Drain, Thaw, Resume, Freeze
  <2>3. CASE /\ Barrier(request.capture)
             /\ \A l \in DOMAIN request.tree : request.tree[l] = live[l]
    BY <1>0, <2>1, <2>3 DEF SourceStep, Write, Drain, Thaw, Resume, Freeze, Barrier
  <2>4. QED BY <2>2, <2>3 DEF DraftUnderBarrier
<1>6. SealedIsFrozen'
  <2>1. request # None => request.capture \in Captures
    BY DEF CaptureTypeOK, RequestType
  <2>2. \A o \in orphans : o.capture \in Captures
    BY DEF CaptureTypeOK, Orphans
  <2>3. \A r \in Repositories : \A i \in DOMAIN finals[r] : finals[r][i].capture \in Captures
    <3> SUFFICES ASSUME NEW r \in Repositories, NEW i \in DOMAIN finals[r]
                 PROVE  finals[r][i].capture \in Captures
      OBVIOUS
    <3>1. finals[r] \in Seq(Snapshots)
      BY DEF CaptureTypeOK
    <3>2. finals[r][i] \in Snapshots
      BY <3>1
    <3>3. QED BY <3>2 DEF Snapshots
  <2> HIDE DEF StillFroze
  <2>4. request # None /\ request.step \in {"compose", "final", "copy"} =>
           StillFroze(request.capture, request.manifest)
    BY <1>4, <2>1 DEF SealedIsFrozen
  <2>5. \A o \in orphans : StillFroze(o.capture, o.manifest)
    BY <1>4, <2>2 DEF SealedIsFrozen
  <2>6. \A r \in Repositories : \A i \in DOMAIN finals[r] :
          StillFroze(finals[r][i].capture, finals[r][i].manifest)
    BY <1>4, <2>3 DEF SealedIsFrozen
  <2>7. QED
    BY <1>0, <2>4, <2>5, <2>6 DEF SealedIsFrozen, Froze, Settled, Barrier, StillFroze
<1>7. CacheFirst' /\ KeepSound' /\ RecordsSound'
  BY <1>0 DEF CacheFirst, KeepSound, RecordsSound
<1>8. QED BY <1>1, <1>2, <1>5, <1>6, <1>7

-----------------------------------------------------------------------------
(* A step of a request, of its killer, or of an orphan                     *)

LEMMA PartialTreeShape ==
    ASSUME NEW t \in PartialTrees, NEW l \in Leaves, NEW v \in Contents
    PROVE  /\ DOMAIN t \subseteq Leaves
           /\ \A k \in DOMAIN t : t[k] \in Contents
           /\ DOMAIN t = Leaves => t \in Trees
           /\ [k \in DOMAIN t \cup {l} |-> IF k = l THEN v ELSE t[k]] \in PartialTrees
<1>1. PICK read \in SUBSET Leaves : t \in [read -> Contents]
  BY DEF PartialTrees
<1>2. read \cup {l} \in SUBSET Leaves
  OBVIOUS
<1>3. [k \in DOMAIN t \cup {l} |-> IF k = l THEN v ELSE t[k]] \in [read \cup {l} -> Contents]
  BY <1>1
<1>4. [k \in DOMAIN t \cup {l} |-> IF k = l THEN v ELSE t[k]] \in PartialTrees
  BY <1>2, <1>3 DEF PartialTrees
<1>5. QED BY <1>1, <1>4 DEF Trees

LEMMA EmptyTree == Empty \in PartialTrees /\ DOMAIN Empty = {}
<1>1. Empty \in [{} -> Contents]
  BY DEF Empty
<1>2. {} \in SUBSET Leaves
  OBVIOUS
<1>3. QED BY <1>1, <1>2 DEF PartialTrees

\* One more final is one more snapshot of what was frozen, and no point goes.
LEMMA FinalsGrow ==
    ASSUME CaptureInv, NEW r \in Repositories, NEW s \in Snapshots,
           Froze(s.capture, s.manifest), Append1(r, s)
    PROVE  /\ finals' \in [Repositories -> Seq(Snapshots)]
           /\ \A q \in Repositories : \A i \in DOMAIN finals'[q] :
                 Froze(finals'[q][i].capture, finals'[q][i].manifest)
           /\ \A q \in Repositories : \A i \in DOMAIN finals[q] :
                 i \in DOMAIN finals'[q] /\ finals'[q][i] = finals[q][i]
           /\ Len(finals'[r]) \in DOMAIN finals'[r] /\ finals'[r][Len(finals'[r])] = s
<1>1. finals \in [Repositories -> Seq(Snapshots)]
  BY DEF CaptureInv, CaptureTypeOK
<1>2. finals' = [finals EXCEPT ![r] = Append(@, s)]
  BY DEF Append1
<1>3. finals[r] \in Seq(Snapshots) /\ Append(finals[r], s) \in Seq(Snapshots)
  BY <1>1
<1>4. /\ finals' \in [Repositories -> Seq(Snapshots)]
      /\ finals'[r] = Append(finals[r], s)
      /\ \A q \in Repositories : q # r => finals'[q] = finals[q]
  BY <1>1, <1>2, <1>3
<1>5. /\ DOMAIN finals[r] = 1 .. Len(finals[r]) /\ Len(finals[r]) \in Nat
      /\ DOMAIN finals'[r] = 1 .. Len(finals[r]) + 1
      /\ Len(finals'[r]) = Len(finals[r]) + 1
      /\ \A i \in DOMAIN finals[r] : finals'[r][i] = finals[r][i]
      /\ finals'[r][Len(finals[r]) + 1] = s
  BY <1>3, <1>4
<1>6. \A q \in Repositories : \A i \in DOMAIN finals[q] :
         i \in DOMAIN finals'[q] /\ finals'[q][i] = finals[q][i]
  <2> SUFFICES ASSUME NEW q \in Repositories, NEW i \in DOMAIN finals[q]
               PROVE  i \in DOMAIN finals'[q] /\ finals'[q][i] = finals[q][i]
    OBVIOUS
  <2>1. CASE q = r
    BY <1>5, <2>1
  <2>2. CASE q # r
    BY <1>4, <2>2
  <2>3. QED BY <2>1, <2>2
<1>7. \A q \in Repositories : \A i \in DOMAIN finals'[q] :
         Froze(finals'[q][i].capture, finals'[q][i].manifest)
  <2> SUFFICES ASSUME NEW q \in Repositories, NEW i \in DOMAIN finals'[q]
               PROVE  Froze(finals'[q][i].capture, finals'[q][i].manifest)
    OBVIOUS
  <2>1. CASE q = r /\ i = Len(finals[r]) + 1
    BY <1>5, <2>1
  <2>2. CASE ~(q = r /\ i = Len(finals[r]) + 1)
    <3>1. i \in DOMAIN finals[q]
      BY <1>4, <1>5, <2>2
    <3>2. QED BY <1>6, <3>1 DEF CaptureInv, SealedIsFrozen
  <2>3. QED BY <2>1, <2>2
<1>8. Len(finals'[r]) \in DOMAIN finals'[r] /\ finals'[r][Len(finals'[r])] = s
  BY <1>5
<1>9. QED BY <1>4, <1>6, <1>7, <1>8

\* A snapshot under the tag of a capture is one of its finals.
LEMMA TaggedPoint ==
    ASSUME CaptureInv, NEW r \in Repositories, NEW c \in Captures,
           NEW i \in Tagged(finals[r], c), Sound(finals[r][i])
    PROVE  PointIn(finals, c, r, i) /\ i \in Nat \ {0}
<1>1. finals[r] \in Seq(Snapshots)
  BY DEF CaptureInv, CaptureTypeOK
<1>2. i \in DOMAIN finals[r] /\ finals[r][i].capture = c
  BY DEF Tagged
<1>3. i \in Nat \ {0}
  BY <1>1, <1>2
<1>4. QED BY <1>2, <1>3 DEF PointIn

\* The parts of the invariant a request can disturb, of its next state.
RequestFits ==
    /\ request' # None => request' \in RequestType /\ job'[request'.capture] \in Jobs
    /\ request' # None /\ request'.step = "copy" => request'.tree \in Trees
    /\ request' # None /\ request'.step = "draft" =>
          \/ request'.capture \in released
          \/ /\ Barrier(request'.capture)
             /\ \A l \in DOMAIN request'.tree : request'.tree[l] = live[l]
    /\ request' # None /\ request'.step \in {"compose", "final", "copy"} =>
          Froze(request'.capture, request'.manifest)
    /\ request' # None /\ request'.step \in {"draft", "compose", "final"} =>
          request'.repository = Cache
    /\ request' # None /\ request'.step = "keep" =>
          PointIn(finals', request'.capture, request'.repository, request'.snapshot)

\* A step that gives the lock back or takes it for a fitting request, and
\* leaves the journal and the repositories alone.
LEMMA RequestOnly ==
    ASSUME CaptureInv, RequestFits,
           UNCHANGED <<source, job, finals, orphans>>
    PROVE  CaptureInv'
<1> USE DEF CaptureInv, RequestFits, source
<1>1. CaptureTypeOK'
  BY DEF CaptureTypeOK
<1>2. OneBarrier'
  BY DEF OneBarrier
<1>3. DraftUnderBarrier'
  BY DEF DraftUnderBarrier, Barrier
<1>4. SealedIsFrozen'
  BY DEF SealedIsFrozen, Froze, Settled, Barrier
<1>5. CacheFirst' /\ KeepSound' /\ RecordsSound'
  BY DEF CacheFirst, KeepSound, RecordsSound
<1>6. QED BY <1>1, <1>2, <1>3, <1>4, <1>5

LEMMA BeginPreserves ==
    ASSUME CaptureInv, NEW c \in Captures, Begin(c), UNCHANGED orphans
    PROVE  CaptureInv'
<1> USE DEF CaptureInv, source
<1> DEFINE new == [completed |-> FALSE, cache |-> None,
                   copies |-> [d \in Destinations |-> None]]
<1>1. /\ request' = Working("draft", c, Cache)
      /\ job' = IF job[c] # None THEN job ELSE [job EXCEPT ![c] = new]
      /\ UNCHANGED <<live, running, held, released, frozen, finals>>
      /\ Barrier(c)
  BY DEF Begin
<1>2. new \in Jobs /\ new.cache = None /\ \A d \in Destinations : new.copies[d] = None
  BY DEF Jobs
<1> HIDE DEF new
<1>3. /\ job' \in [Captures -> Jobs \cup {None}] /\ job'[c] \in Jobs
      /\ \A e \in Captures : job'[e] = job[e] \/ job'[e] = new
  BY <1>1, <1>2 DEF CaptureTypeOK
<1>4. /\ request' \in RequestType /\ request'.capture = c /\ request'.step = "draft"
      /\ request'.repository = Cache /\ DOMAIN request'.tree = {}
  BY <1>1, EmptyTree DEF Working, RequestType, Repositories
<1>5. CaptureTypeOK'
  BY <1>1, <1>3, <1>4 DEF CaptureTypeOK
<1>6. OneBarrier' /\ DraftUnderBarrier'
  BY <1>1, <1>4 DEF OneBarrier, DraftUnderBarrier, Barrier
<1>7. SealedIsFrozen'
  BY <1>1, <1>4 DEF SealedIsFrozen, Froze, Settled, Barrier
<1>8. CacheFirst' /\ KeepSound' /\ RecordsSound'
  <2>1. EntryIn(finals, c, new)
    BY <1>2 DEF EntryIn, RecordIn
  <2>2. QED BY <1>1, <1>3, <1>4, <2>1 DEF CacheFirst, KeepSound, RecordsSound
<1>9. QED BY <1>5, <1>6, <1>7, <1>8

LEMMA AdoptPreserves ==
    ASSUME CaptureInv, NEW c \in Captures, Adopt(c), UNCHANGED orphans
    PROVE  CaptureInv'
<1>1. PICK i \in Tagged(finals[Cache], c) :
         request' = [Working("keep", c, Cache) EXCEPT !.snapshot = i]
  BY DEF Adopt
<1>2. Sound(finals[Cache][i]) /\ Cache \in Repositories
  BY DEF Adopt, Repositories
<1>3. PointIn(finals, c, Cache, i) /\ i \in Nat
  BY <1>2, TaggedPoint
<1>4. /\ request' \in RequestType /\ request'.step = "keep" /\ request'.capture = c
      /\ request'.repository = Cache /\ request'.snapshot = i
  BY <1>1, <1>2, <1>3, EmptyTree DEF Working, RequestType
<1>5. job[c] \in Jobs /\ UNCHANGED <<source, job, finals>>
  BY DEF Adopt, CaptureInv, CaptureTypeOK
<1>6. RequestFits
  BY <1>3, <1>4, <1>5 DEF RequestFits
<1>7. QED BY <1>5, <1>6, RequestOnly

LEMMA ReadPreserves == CaptureInv /\ Read /\ UNCHANGED orphans => CaptureInv'
<1> SUFFICES ASSUME CaptureInv, Read, UNCHANGED orphans PROVE CaptureInv'
  OBVIOUS
<1>1. PICK l \in Leaves \ DOMAIN request.tree :
         request' = [request EXCEPT !.tree = Extended(@, l)]
  BY DEF Read
<1>2. /\ request # None /\ request \in RequestType /\ job[request.capture] \in Jobs
      /\ request.step \in {"draft", "final"} /\ request.repository = Cache /\ live \in [Leaves -> Contents]
  BY DEF Read, Reading, CaptureInv, CaptureTypeOK, CacheFirst, Trees
<1>3. request.tree \in PartialTrees /\ live[l] \in Contents
  BY <1>2 DEF RequestType
<1>4. Extended(request.tree, l) \in PartialTrees
  BY <1>3, PartialTreeShape DEF Extended
<1>5. request' = [request EXCEPT !.tree = Extended(request.tree, l)]
  BY <1>1
<1>6. /\ request' \in RequestType /\ request'.step = request.step
      /\ request'.capture = request.capture /\ request'.manifest = request.manifest
      /\ request'.tree = Extended(request.tree, l) /\ request'.repository = request.repository
  BY <1>2, <1>4, <1>5 DEF RequestType
<1>7. request.step = "draft" =>
         \/ request.capture \in released
         \/ /\ Barrier(request.capture)
            /\ \A k \in DOMAIN Extended(request.tree, l) : Extended(request.tree, l)[k] = live[k]
  BY <1>2 DEF CaptureInv, DraftUnderBarrier, Extended
<1>8. request.step = "final" => Froze(request.capture, request.manifest)
  BY <1>2 DEF CaptureInv, SealedIsFrozen
<1>9. UNCHANGED <<source, job, finals>>
  BY DEF Read
<1>10. RequestFits
  BY <1>2, <1>6, <1>7, <1>8, <1>9 DEF RequestFits
<1>11. QED BY <1>9, <1>10, RequestOnly

LEMMA SealPreserves == CaptureInv /\ Seal /\ UNCHANGED orphans => CaptureInv'
<1> SUFFICES ASSUME CaptureInv, Seal, UNCHANGED orphans PROVE CaptureInv'
  OBVIOUS
<1> DEFINE c == request.capture
<1>1. /\ request # None /\ request \in RequestType /\ job[c] \in Jobs /\ c \in Captures
      /\ request.step = "draft" /\ DOMAIN request.tree = Leaves /\ request.repository = Cache
  BY DEF Seal, Whole, CaptureInv, CaptureTypeOK, RequestType, CacheFirst
<1>2. UNCHANGED <<source, finals>>
  BY DEF Seal
<1>3. CASE ~Barrier(c)
  <2>1. request' = None /\ UNCHANGED job
    BY <1>3 DEF Seal
  <2>2. RequestFits
    BY <2>1 DEF RequestFits
  <2>3. QED BY <1>2, <2>1, <2>2, RequestOnly
<1>4. CASE Barrier(c)
  <2>1. /\ job' = [job EXCEPT ![c].completed = TRUE]
        /\ request' = [request EXCEPT !.step = "compose", !.manifest = request.tree]
    BY <1>4 DEF Seal
  <2>2. request.tree = frozen[c] /\ request.tree \in Trees
    <3>1. /\ held = c /\ c # None /\ c \notin released /\ frozen[c] = live
          /\ live \in [Leaves -> Contents]
      BY <1>1, <1>4, RepositoryAssumption
         DEF Barrier, CaptureInv, CaptureTypeOK, OneBarrier, Trees
    <3>2. \A l \in Leaves : request.tree[l] = live[l]
      BY <1>1, <3>1 DEF CaptureInv, DraftUnderBarrier
    <3>3. request.tree \in PartialTrees
      BY <1>1 DEF RequestType
    <3>4. request.tree \in [Leaves -> Contents]
      <4>1. PICK read \in SUBSET Leaves : request.tree \in [read -> Contents]
        BY <3>3 DEF PartialTrees
      <4>2. QED BY <1>1, <4>1
    <3>5. QED BY <3>1, <3>2, <3>4 DEF Trees
  <2>3. Froze(c, request.tree)
    BY <1>4, <2>2 DEF Froze, Settled
  <2>4. /\ request' \in RequestType /\ request'.step = "compose" /\ request'.capture = c
        /\ request'.repository = Cache
        /\ request'.manifest = request.tree
    BY <1>1, <2>1 DEF RequestType
  <2>5. /\ job' \in [Captures -> Jobs \cup {None}] /\ job'[c] \in Jobs
        /\ job'[c].cache = job[c].cache /\ job'[c].copies = job[c].copies
        /\ \A e \in Captures : e # c => job'[e] = job[e]
    <3>1. [job[c] EXCEPT !.completed = TRUE] \in Jobs
      BY <1>1 DEF Jobs
    <3>2. /\ [job[c] EXCEPT !.completed = TRUE].cache = job[c].cache
          /\ [job[c] EXCEPT !.completed = TRUE].copies = job[c].copies
      BY <1>1 DEF Jobs
    <3>3. job' = [job EXCEPT ![c] = [job[c] EXCEPT !.completed = TRUE]]
      BY <2>1
    <3>4. QED BY <1>1, <3>1, <3>2, <3>3 DEF CaptureInv, CaptureTypeOK
  <2> HIDE DEF c
  <2>6. CaptureTypeOK'
    BY <1>2, <2>4, <2>5 DEF CaptureInv, CaptureTypeOK, source
  <2>7. OneBarrier' /\ DraftUnderBarrier' /\ CacheFirst' /\ KeepSound'
    BY <1>2, <2>4 DEF CaptureInv, OneBarrier, DraftUnderBarrier, CacheFirst, KeepSound, source
  <2>8. SealedIsFrozen'
    BY <1>2, <2>3, <2>4 DEF CaptureInv, SealedIsFrozen, Froze, Settled, Barrier, source
  <2>9. RecordsSound'
    <3> SUFFICES ASSUME NEW e \in Captures, job'[e] # None
                 PROVE  EntryIn(finals, e, job'[e])
      BY <1>2 DEF RecordsSound
    <3>1. CASE e # c
      BY <2>5, <3>1 DEF CaptureInv, RecordsSound
    <3>2. CASE e = c
      BY <1>1, <2>5, <3>2, JobsAssumption DEF CaptureInv, RecordsSound, EntryIn, c
    <3>3. QED BY <3>1, <3>2
  <2>10. QED BY <2>6, <2>7, <2>8, <2>9 DEF CaptureInv
<1>5. QED BY <1>3, <1>4

LEMMA ComposePreserves == CaptureInv /\ Compose /\ UNCHANGED orphans => CaptureInv'
<1> SUFFICES ASSUME CaptureInv, Compose, UNCHANGED orphans PROVE CaptureInv'
  OBVIOUS
<1> DEFINE c == request.capture
<1>1. /\ request # None /\ request \in RequestType /\ job[c] \in Jobs /\ c \in Captures
      /\ request.step = "compose" /\ Froze(c, request.manifest) /\ request.repository = Cache
  BY DEF Compose, CaptureInv, CaptureTypeOK, RequestType, SealedIsFrozen, CacheFirst
<1>2. UNCHANGED <<source, job, finals>>
  BY DEF Compose
<1>3. RequestFits
  <2>1. CASE request' = None
    BY <2>1 DEF RequestFits
  <2>2. CASE request' = [request EXCEPT !.step = "final", !.tree = Empty]
    <3>1. /\ request' \in RequestType /\ request'.step = "final" /\ request'.capture = c
          /\ request'.manifest = request.manifest /\ request'.repository = Cache
      BY <1>1, <2>2, EmptyTree DEF RequestType
    <3>2. QED BY <1>1, <1>2, <3>1 DEF RequestFits
  <2>3. ASSUME NEW i \in Tagged(finals[Cache], c), request' = Keeping(i),
               Unanimous(finals[Cache], c, request.manifest)
        PROVE  RequestFits
    <3>1. Cache \in Repositories /\ Sound(finals[Cache][i])
      BY <2>3 DEF Unanimous, Repositories
    <3>2. PointIn(finals, c, Cache, i) /\ i \in Nat
      BY <1>1, <3>1, TaggedPoint
    <3>4. /\ request' \in RequestType /\ request'.step = "keep" /\ request'.capture = c
          /\ request'.repository = Cache /\ request'.snapshot = i
      BY <1>1, <2>3, <3>2 DEF Keeping, RequestType
    <3>5. QED BY <1>1, <1>2, <3>2, <3>4 DEF RequestFits
  <2>4. QED BY <2>1, <2>2, <2>3 DEF Compose
<1>4. QED BY <1>2, <1>3, RequestOnly

LEMMA UploadPreserves ==
    ASSUME CaptureInv, NEW c \in Captures, NEW d \in Destinations, Upload(c, d),
           UNCHANGED orphans
    PROVE  CaptureInv'
<1> DEFINE point == finals[Cache][job[c].cache.snapshot]
           copy == [Working("copy", c, d) EXCEPT !.tree = point.tree,
                                                !.manifest = point.manifest]
<1>1. /\ job[c] # None /\ job[c] \in Jobs /\ job[c].cache # None
      /\ UNCHANGED <<source, job, finals>>
  BY DEF Upload, Captured, CaptureInv, CaptureTypeOK
<1>2. /\ job[c].cache.repository = Cache /\ Cache \in Repositories /\ d \in Repositories
  BY <1>1 DEF CaptureInv, RecordsSound, EntryIn, Repositories
<1>3. PointIn(finals, c, Cache, job[c].cache.snapshot)
  BY <1>1, <1>2 DEF CaptureInv, RecordsSound, EntryIn, RecordIn
<1>4. point \in Snapshots /\ Froze(c, point.manifest)
  <2>1. finals[Cache] \in Seq(Snapshots)
    BY <1>2 DEF CaptureInv, CaptureTypeOK
  <2>2. QED BY <1>2, <1>3, <2>1 DEF PointIn, CaptureInv, SealedIsFrozen
<1>5. Trees \subseteq PartialTrees
  BY DEF Trees, PartialTrees
<1>6. /\ copy \in RequestType /\ copy.step = "copy" /\ copy.capture = c
      /\ copy.manifest = point.manifest /\ copy.repository = d /\ copy.tree \in Trees
  BY <1>2, <1>4, <1>5 DEF Working, RequestType, Snapshots
<1>7. CASE request' = copy
  <2>1. RequestFits
    BY <1>1, <1>4, <1>6, <1>7 DEF RequestFits
  <2>2. QED BY <1>1, <2>1, RequestOnly
<1>8. ASSUME NEW i \in Tagged(finals[d], c),
             request' = [copy EXCEPT !.step = "keep", !.snapshot = i]
      PROVE  CaptureInv'
  <2>1. Sound(finals[d][i])
    BY DEF Upload, Unanimous
  <2>2. PointIn(finals, c, d, i) /\ i \in Nat
    BY <1>2, <2>1, TaggedPoint
  <2>3. /\ request' \in RequestType /\ request'.step = "keep" /\ request'.capture = c
        /\ request'.repository = d /\ request'.snapshot = i
    BY <1>6, <1>8, <2>2 DEF RequestType
  <2>4. RequestFits
    BY <1>1, <2>2, <2>3 DEF RequestFits
  <2>5. QED BY <1>1, <2>4, RequestOnly
<1>9. QED BY <1>7, <1>8 DEF Upload

\* No final is lost or changed.
FinalsKept ==
    \A q \in Repositories : \A i \in DOMAIN finals[q] :
        i \in DOMAIN finals'[q] /\ finals'[q][i] = finals[q][i]

\* A step that writes a final of what was frozen.
LEMMA FinalWritten ==
    ASSUME CaptureInv, NEW r \in Repositories, NEW s \in Snapshots,
           Froze(s.capture, s.manifest), Append1(r, s), RequestFits,
           UNCHANGED <<source, job>>, orphans' \subseteq orphans
    PROVE  CaptureInv' /\ FinalsKept
<1> USE DEF CaptureInv, RequestFits, source
<1>1. CaptureTypeOK'
  BY FinalsGrow DEF CaptureTypeOK
<1>2. OneBarrier' /\ DraftUnderBarrier'
  BY DEF OneBarrier, DraftUnderBarrier, Barrier
<1>3. SealedIsFrozen'
  BY FinalsGrow DEF SealedIsFrozen, Froze, Settled, Barrier
<1>4. CacheFirst' /\ KeepSound'
  BY DEF CacheFirst, KeepSound
<1>5. RecordsSound'
  <2>1. ASSUME NEW c \in Captures, NEW record \in Receipts \cup {None},
               RecordIn(finals, c, record)
        PROVE  RecordIn(finals', c, record)
    <3> SUFFICES ASSUME record # None
                 PROVE  PointIn(finals', c, record.repository, record.snapshot)
      BY DEF RecordIn
    <3>1. record.repository \in Repositories
      BY DEF Receipts
    <3>2. PointIn(finals, c, record.repository, record.snapshot)
      BY <2>1 DEF RecordIn
    <3>3. QED BY <3>1, <3>2, FinalsGrow DEF PointIn
  <2>2. ASSUME NEW c \in Captures, job[c] # None
        PROVE  EntryIn(finals', c, job[c])
    <3>1. job[c] \in Jobs /\ EntryIn(finals, c, job[c])
      BY <2>2 DEF CaptureTypeOK, RecordsSound
    <3>2. /\ job[c].cache \in Receipts \cup {None}
          /\ \A d \in Destinations : job[c].copies[d] \in Receipts \cup {None}
      BY <3>1 DEF Jobs
    <3>3. QED BY <2>1, <3>1, <3>2 DEF EntryIn
  <2>3. QED BY <2>2 DEF RecordsSound
<1>6. FinalsKept
  BY FinalsGrow DEF FinalsKept
<1>7. QED BY <1>1, <1>2, <1>3, <1>4, <1>5, <1>6

LEMMA StorePreserves == CaptureInv /\ Store /\ UNCHANGED orphans => CaptureInv' /\ FinalsKept
<1> SUFFICES ASSUME CaptureInv, Store, UNCHANGED orphans PROVE CaptureInv' /\ FinalsKept
  OBVIOUS
<1> DEFINE s == [capture |-> request.capture, tree |-> request.tree,
                 manifest |-> request.manifest]
<1>1. /\ request # None /\ request \in RequestType /\ job[request.capture] \in Jobs
      /\ request.step = "final" /\ DOMAIN request.tree = Leaves /\ request.repository = Cache
      /\ Froze(request.capture, request.manifest)
  BY DEF Store, Whole, CaptureInv, CaptureTypeOK, CacheFirst, SealedIsFrozen
<1>2. /\ UNCHANGED <<source, job>> /\ Append1(Cache, s)
      /\ request' = IF Sound(s) THEN Keeping(Len(finals'[Cache])) ELSE None
  BY DEF Store
<1>3. s \in Snapshots /\ Cache \in Repositories
  <2>1. request.tree \in Trees
    <3>1. PICK read \in SUBSET Leaves : request.tree \in [read -> Contents]
      BY <1>1 DEF RequestType, PartialTrees
    <3>2. QED BY <1>1, <3>1 DEF Trees
  <2>2. request.manifest \in Trees
    BY <1>1 DEF Froze
  <2>3. QED BY <1>1, <2>1, <2>2 DEF Snapshots, RequestType, Repositories
<1>4. s.capture = request.capture /\ s.manifest = request.manifest
  OBVIOUS
<1> HIDE DEF s
<1>5. /\ Len(finals'[Cache]) \in DOMAIN finals'[Cache] /\ finals'[Cache][Len(finals'[Cache])] = s
      /\ Len(finals'[Cache]) \in Nat
  <2>1. finals'[Cache] \in Seq(Snapshots)
    BY <1>1, <1>2, <1>3, <1>4, FinalsGrow
  <2>2. QED BY <1>1, <1>2, <1>3, <1>4, <2>1, FinalsGrow
<1>6. RequestFits
  <2>1. CASE ~Sound(s)
    BY <1>2, <2>1 DEF RequestFits
  <2>2. CASE Sound(s)
    <3>1. /\ request' \in RequestType /\ request'.step = "keep" /\ request'.repository = Cache
          /\ request'.capture = request.capture /\ request'.snapshot = Len(finals'[Cache])
      BY <1>1, <1>2, <1>5, <2>2 DEF Keeping, RequestType
    <3>2. PointIn(finals', request'.capture, Cache, request'.snapshot)
      BY <1>4, <1>5, <2>2, <3>1 DEF PointIn
    <3>3. QED BY <1>1, <1>2, <3>1, <3>2 DEF RequestFits
  <2>3. QED BY <2>1, <2>2
<1>7. QED BY <1>1, <1>2, <1>3, <1>4, <1>6, FinalWritten

LEMMA CopyPreserves == CaptureInv /\ Copy /\ UNCHANGED orphans => CaptureInv' /\ FinalsKept
<1> SUFFICES ASSUME CaptureInv, Copy, UNCHANGED orphans PROVE CaptureInv' /\ FinalsKept
  OBVIOUS
<1> DEFINE c == request.capture
           d == request.repository
           s == [capture |-> c, tree |-> request.tree, manifest |-> request.manifest]
           listing == Append(finals[d], s)
<1>1. /\ request # None /\ request \in RequestType /\ job[c] \in Jobs /\ c \in Captures
      /\ request.step = "copy" /\ request.tree \in Trees /\ d \in Repositories
      /\ Froze(c, request.manifest)
  BY DEF Copy, CaptureInv, CaptureTypeOK, RequestType, SealedIsFrozen
<1>2. /\ UNCHANGED <<source, job>> /\ Append1(d, s)
      /\ \/ request' = None
         \/ /\ Unanimous(listing, c, request.manifest)
            /\ \E i \in Tagged(listing, c) : request' = Keeping(i)
  BY DEF Copy
<1>3. s \in Snapshots /\ s.capture = c /\ s.manifest = request.manifest
  BY <1>1 DEF Snapshots, Froze
<1>4. finals'[d] = listing /\ listing \in Seq(Snapshots)
  BY <1>1, <1>2, <1>3 DEF Append1, CaptureInv, CaptureTypeOK
<1> HIDE DEF s, listing
<1>5. RequestFits
  <2>1. CASE request' = None
    BY <2>1 DEF RequestFits
  <2>2. ASSUME NEW i \in Tagged(listing, c), request' = Keeping(i),
               Unanimous(listing, c, request.manifest)
        PROVE  RequestFits
    <3>1. i \in DOMAIN listing /\ listing[i].capture = c /\ Sound(listing[i]) /\ i \in Nat
      BY <1>4, <2>2 DEF Tagged, Unanimous
    <3>2. /\ request' \in RequestType /\ request'.step = "keep" /\ request'.capture = c
          /\ request'.repository = d /\ request'.snapshot = i
      BY <1>1, <2>2, <3>1 DEF Keeping, RequestType
    <3>3. PointIn(finals', c, d, i)
      BY <1>4, <3>1 DEF PointIn
    <3>4. QED BY <1>1, <1>2, <3>2, <3>3 DEF RequestFits
  <2>3. QED BY <1>2, <2>1, <2>2
<1>6. QED BY <1>1, <1>2, <1>3, <1>5, FinalWritten

LEMMA OrphanPreserves == CaptureInv /\ OrphanStep => CaptureInv' /\ FinalsKept
<1> SUFFICES ASSUME CaptureInv, OrphanStep PROVE CaptureInv' /\ FinalsKept
  OBVIOUS
<1>1. PICK o \in orphans :
         /\ DOMAIN o.tree = Leaves
         /\ Append1(o.repository, [capture |-> o.capture, tree |-> o.tree,
                                   manifest |-> o.manifest])
         /\ orphans' = orphans \ {o}
  BY DEF OrphanStep, Orphan
<1> DEFINE s == [capture |-> o.capture, tree |-> o.tree, manifest |-> o.manifest]
<1>2. o \in Orphans /\ Froze(o.capture, o.manifest)
  BY DEF CaptureInv, CaptureTypeOK, SealedIsFrozen
<1>3. o.tree \in Trees
  <2>1. PICK read \in SUBSET Leaves : o.tree \in [read -> Contents]
    BY <1>2 DEF Orphans, PartialTrees
  <2>2. QED BY <1>1, <2>1 DEF Trees
<1>4. s \in Snapshots /\ o.repository \in Repositories
  BY <1>2, <1>3 DEF Orphans, Snapshots
<1>5. UNCHANGED <<source, job, request>> /\ orphans' \subseteq orphans
  BY <1>1 DEF OrphanStep
<1>6. RequestFits
  <2>1. request # None => /\ request \in RequestType /\ job[request.capture] \in Jobs
    BY DEF CaptureInv, CaptureTypeOK
  <2>2. request # None /\ request.step = "keep" =>
           PointIn(finals', request.capture, request.repository, request.snapshot)
    BY <1>1, <1>2, <1>4, <2>1, FinalsGrow DEF CaptureInv, KeepSound, PointIn, RequestType
  <2>3. QED
    BY <1>5, <2>1, <2>2 DEF RequestFits, CaptureInv, CaptureTypeOK, DraftUnderBarrier,
       SealedIsFrozen, CacheFirst, Barrier
<1>7. QED BY <1>1, <1>2, <1>4, <1>5, <1>6, FinalWritten

LEMMA KeepPreserves == CaptureInv /\ Keep /\ UNCHANGED orphans => CaptureInv'
<1> SUFFICES ASSUME CaptureInv, Keep, UNCHANGED orphans PROVE CaptureInv'
  OBVIOUS
<1> DEFINE c == request.capture
           r == request.repository
           i == request.snapshot
           record == Receipt(r, i)
<1>1. /\ request # None /\ request \in RequestType /\ job[c] \in Jobs /\ c \in Captures
      /\ r \in Repositories /\ PointIn(finals, c, r, i)
  BY DEF Keep, CaptureInv, CaptureTypeOK, RequestType, KeepSound
<1>2. /\ UNCHANGED <<source, finals>> /\ request' = None
      /\ job' = [job EXCEPT ![c] = IF r = Cache THEN [@ EXCEPT !.cache = record]
                                   ELSE [@ EXCEPT !.copies[r] = record]]
  BY DEF Keep
<1>3. /\ record \in Receipts /\ record.repository = r /\ record.snapshot = i
      /\ RecordIn(finals, c, record)
  <2>1. finals[r] \in Seq(Snapshots)
    BY <1>1 DEF CaptureInv, CaptureTypeOK
  <2>2. i \in Nat \ {0} /\ finals[r][i].manifest \in Trees
    <3>1. i \in DOMAIN finals[r]
      BY <1>1 DEF PointIn
    <3>2. i \in Nat \ {0} /\ finals[r][i] \in Snapshots
      BY <2>1, <3>1
    <3>3. QED BY <3>2 DEF Snapshots
  <2>3. record \in Receipts /\ record.repository = r /\ record.snapshot = i
    BY <1>1, <2>2 DEF Receipt, Receipts
  <2>4. QED BY <1>1, <2>3 DEF RecordIn
<1>4. job[c] \in Jobs /\ EntryIn(finals, c, job[c])
  BY <1>1, JobsAssumption DEF CaptureInv, RecordsSound
<1> HIDE DEF record
<1>5. job'[c] \in Jobs /\ EntryIn(finals, c, job'[c])
  <2>1. CASE r = Cache
    <3>1. job'[c] = [job[c] EXCEPT !.cache = record]
      BY <1>1, <1>2, <2>1 DEF CaptureInv, CaptureTypeOK
    <3>2. /\ job'[c] \in Jobs /\ job'[c].cache = record /\ job'[c].copies = job[c].copies
      BY <1>3, <1>4, <3>1 DEF Jobs
    <3>3. QED BY <1>3, <1>4, <2>1, <3>2 DEF EntryIn
  <2>2. CASE r # Cache
    <3>1. r \in Destinations
      BY <1>1, <2>2 DEF Repositories
    <3>2. job'[c] = [job[c] EXCEPT !.copies = [job[c].copies EXCEPT ![r] = record]]
      BY <1>1, <1>2, <2>2 DEF CaptureInv, CaptureTypeOK
    <3>3. [job[c].copies EXCEPT ![r] = record] \in [Destinations -> Receipts \cup {None}]
      BY <1>3, <1>4, <3>1 DEF Jobs
    <3>4. /\ job'[c] \in Jobs /\ job'[c].cache = job[c].cache
          /\ job'[c].copies = [job[c].copies EXCEPT ![r] = record]
      BY <1>4, <3>2, <3>3 DEF Jobs
    <3>5. \A d \in Destinations : job'[c].copies[d] = record \/ job'[c].copies[d] = job[c].copies[d]
      BY <1>4, <3>4 DEF Jobs
    <3>6. QED BY <1>3, <1>4, <3>4, <3>5 DEF EntryIn
  <2>3. QED BY <2>1, <2>2
<1>6. /\ job' \in [Captures -> Jobs \cup {None}]
      /\ \A e \in Captures : e # c => job'[e] = job[e]
  <2>1. \E j : job' = [job EXCEPT ![c] = j]
    BY <1>2
  <2>2. QED BY <1>1, <1>5, <2>1 DEF CaptureInv, CaptureTypeOK
<1> HIDE DEF c
<1>7. CaptureTypeOK'
  BY <1>2, <1>6 DEF CaptureInv, CaptureTypeOK, source
<1>8. OneBarrier' /\ DraftUnderBarrier' /\ CacheFirst' /\ KeepSound'
  BY <1>2 DEF CaptureInv, OneBarrier, DraftUnderBarrier, CacheFirst, KeepSound, source
<1>9. SealedIsFrozen'
  BY <1>2 DEF CaptureInv, SealedIsFrozen, Froze, Settled, Barrier, source
<1>10. RecordsSound'
  BY <1>2, <1>5, <1>6 DEF CaptureInv, RecordsSound
<1>11. QED BY <1>7, <1>8, <1>9, <1>10 DEF CaptureInv

LEMMA FailurePreserves == CaptureInv /\ (Kill \/ OrphanRead) => CaptureInv'
<1> SUFFICES ASSUME CaptureInv, Kill \/ OrphanRead PROVE CaptureInv'
  OBVIOUS
<1>1. UNCHANGED <<source, job, finals>> /\ (request' = None \/ request' = request)
  BY DEF Kill, OrphanRead
<1>2. orphans' \subseteq Orphans /\ \A o \in orphans' : Froze(o.capture, o.manifest)
  <2>1. orphans \subseteq Orphans /\ \A o \in orphans : Froze(o.capture, o.manifest)
    BY DEF CaptureInv, CaptureTypeOK, SealedIsFrozen
  <2>2. CASE Kill
    <3> DEFINE o == [repository |-> request.repository, capture |-> request.capture,
                     tree |-> request.tree, manifest |-> request.manifest]
    <3>1. CASE /\ request.step \in {"final", "copy"} /\ orphans' = orphans \cup {o}
      <4>1. request # None /\ request \in RequestType
        BY <2>2 DEF Kill, CaptureInv, CaptureTypeOK
      <4>2. Froze(request.capture, request.manifest)
        BY <3>1, <4>1 DEF CaptureInv, SealedIsFrozen
      <4>3. o \in Orphans /\ o.capture = request.capture /\ o.manifest = request.manifest
        BY <4>1, <4>2 DEF Orphans, RequestType, Froze
      <4>4. QED BY <2>1, <3>1, <4>2, <4>3
    <3>2. QED BY <2>1, <2>2, <3>1 DEF Kill
  <2>3. CASE OrphanRead
    <3>1. PICK o \in orphans, l \in Leaves :
             orphans' = (orphans \ {o}) \cup {[o EXCEPT !.tree = Extended(@, l)]}
      BY <2>3 DEF OrphanRead
    <3>2. o \in Orphans /\ live[l] \in Contents
      BY <2>1 DEF CaptureInv, CaptureTypeOK, Trees
    <3>3. o.tree \in PartialTrees
      BY <3>2 DEF Orphans
    <3>4. Extended(o.tree, l) \in PartialTrees
      BY <3>2, <3>3, PartialTreeShape DEF Extended
    <3>5. orphans' = (orphans \ {o}) \cup {[o EXCEPT !.tree = Extended(o.tree, l)]}
      BY <3>1
    <3>6. /\ [o EXCEPT !.tree = Extended(o.tree, l)] \in Orphans
          /\ [o EXCEPT !.tree = Extended(o.tree, l)].capture = o.capture
          /\ [o EXCEPT !.tree = Extended(o.tree, l)].manifest = o.manifest
      BY <3>2, <3>4 DEF Orphans
    <3>7. QED BY <2>1, <3>5, <3>6
  <2>4. QED BY <2>2, <2>3
<1>3. CaptureTypeOK'
  BY <1>1, <1>2 DEF CaptureInv, CaptureTypeOK, source
<1>4. OneBarrier' /\ DraftUnderBarrier' /\ CacheFirst' /\ KeepSound' /\ RecordsSound'
  BY <1>1 DEF CaptureInv, OneBarrier, DraftUnderBarrier, CacheFirst, KeepSound, RecordsSound,
     Barrier, source
<1>5. SealedIsFrozen'
  BY <1>1, <1>2 DEF CaptureInv, SealedIsFrozen, Froze, Settled, Barrier, source
<1>6. QED BY <1>3, <1>4, <1>5 DEF CaptureInv

-----------------------------------------------------------------------------
(* The theorems                                                            *)

LEMMA CaptureStep == CaptureInv /\ [Next]_vars => CaptureInv'
<1> SUFFICES ASSUME CaptureInv, [Next]_vars PROVE CaptureInv'
  OBVIOUS
<1>1. CASE Restoring \/ UNCHANGED vars
  <2>1. UNCHANGED <<source, job, finals, orphans, request>>
    BY <1>1 DEF Restoring, vars, backupVars
  <2>2. RequestFits
    BY <2>1 DEF RequestFits, CaptureInv, CaptureTypeOK, DraftUnderBarrier, SealedIsFrozen,
       CacheFirst, KeepSound
  <2>3. QED BY <2>1, <2>2, RequestOnly
<1>2. CASE Capturing
  <2>1. CASE SourceStep
    BY <2>1, SourcePreserves
  <2>2. CASE RequestStep
    BY <2>2, ReadPreserves, SealPreserves, ComposePreserves, StorePreserves,
       CopyPreserves, KeepPreserves DEF RequestStep
  <2>3. CASE Kill \/ OrphanRead
    BY <2>3, FailurePreserves
  <2>4. CASE OrphanStep
    BY <2>4, OrphanPreserves
  <2>5. ASSUME NEW c \in Captures, Retry(c) PROVE CaptureInv'
    BY <2>5, BeginPreserves, AdoptPreserves, UploadPreserves DEF Retry
  <2>6. QED BY <1>2, <2>1, <2>2, <2>3, <2>4, <2>5 DEF Capturing, BackupNext
<1>3. QED BY <1>1, <1>2 DEF Next

LEMMA FinalsStay == CaptureInv /\ [Next]_vars => FinalsKept
<1> SUFFICES ASSUME CaptureInv, [Next]_vars PROVE FinalsKept
  OBVIOUS
<1>1. CASE UNCHANGED finals
  BY <1>1 DEF FinalsKept
<1>2. CASE Capturing /\ ~UNCHANGED finals
  <2>1. Store \/ Copy \/ OrphanStep
    BY <1>2 DEF Capturing, BackupNext, SourceStep, RequestStep, Retry, Write, Drain, Thaw, Resume,
       Freeze, Read, Seal, Compose, Keep, Kill, OrphanRead, Begin, Adopt, Upload
  <2>2. CASE (Store \/ Copy) /\ UNCHANGED orphans
    BY <2>2, StorePreserves, CopyPreserves
  <2>3. CASE OrphanStep
    BY <2>3, OrphanPreserves
  <2>4. QED
    BY <1>2, <2>1, <2>2, <2>3 DEF Capturing, BackupNext, SourceStep, RequestStep, Retry, Write,
       Drain, Thaw, Resume, Freeze, Read, Seal, Compose, Keep, Kill, OrphanRead, Begin, Adopt,
       Upload
<1>3. QED BY <1>1, <1>2 DEF Next, Restoring, vars

LEMMA CaptureInvariant == Spec => []CaptureInv
<1>1. QED BY CaptureInitially, CaptureStep, PTL DEF Spec

\* What a repository offers as a sound point of a capture is what the source
\* held when the barrier of the capture was complete, for any number of
\* retries, kills and orphans, and whatever the source did after the thaw
\* (backup.py _persist_completed, repository.py _inspect_final).
THEOREM SoundIsFrozenHolds == Spec => []SoundIsFrozen
<1>1. QED BY CaptureInvariant, InvIsEnough, PTL

\* Every record of the journal, of the cache or of a copy, names such a point
\* of its own capture (backup.py _find_cached_point, repository.py copy_from).
THEOREM RecordsFrozenHolds == Spec => []RecordsFrozen
<1>1. QED BY CaptureInvariant, InvIsEnough, PTL

(***************************************************************************)
(* Restores.  To whoever may start the instance, a restore is one step.    *)
(* The invariant is about an instance that may still be started.  With the *)
(* sentinel there, one restore owns it, and every directory of its point   *)
(* is in the staging area or in place from the moment the journal says     *)
(* staged; without it, the instance is untouched or holds the whole point  *)
(* of the one restore in the journal.                                      *)
(***************************************************************************)

WorkType == [step : {"verify", "extract", "move", "unclaim", "record"},
             restore : Restores, repository : Destinations, snapshot : Nat \ {0}]

InstallTypeOK ==
    /\ phase \in {"prepared", "started", "retired"}
    /\ sentinel \in Restores \cup {None}
    /\ leaf \in [Leaves -> Contents \cup {Fresh, None}]
    /\ staging # None => staging \in [Leaves -> Contents \cup {None}]
    /\ restored \in [Restores -> RestoreJobs \cup {None}]
    /\ work # None => work \in WorkType
    /\ work # None /\ work.step = "extract" => staging # None

\* A point of a destination that was verified.
Verified(f, x) ==
    /\ x.repository \in Destinations /\ x.snapshot \in DOMAIN f[x.repository]
    /\ Sound(f[x.repository][x.snapshot])

SamePoint(x, y) == x.repository = y.repository /\ x.snapshot = y.snapshot

\* What the journal binds was verified, and a request is about it.
EntriesBound ==
    /\ \A s \in Restores : restored[s] # None => Verified(finals, restored[s].record)
    /\ work # None =>
          /\ work.snapshot \in DOMAIN finals[work.repository]
          /\ restored[work.restore] # None => SamePoint(restored[work.restore].record, work)
          /\ work.step # "verify" => restored[work.restore] # None

\* The directories of the point a restore installs.
TreeIn(f, entry) == f[entry.record.repository][entry.record.snapshot].tree

Untouched == leaf = Blank /\ staging = None

\* Each directory is still to move, or it is in place.
Mixture(tree) ==
    \A l \in Leaves :
        \/ l \in Unmoved /\ staging[l] = tree[l] /\ leaf[l] \in {Fresh, None}
        \/ l \notin Unmoved /\ leaf[l] = tree[l]

InPlace(tree) == staging = None /\ leaf = tree

\* Where restore s stands while it owns the instance.
Underway(s) ==
    /\ restored[s] = None => Untouched
    /\ At(s, "pending") =>
          /\ leaf = Blank /\ staging # None
          /\ \A l \in Leaves : staging[l] \in {None, TreeIn(finals, restored[s])[l]}
    /\ At(s, "staged") => Mixture(TreeIn(finals, restored[s]))
    /\ ~At(s, "committed")

Only(s) == \A t \in Restores : t # s => restored[t] = None

Claimed == sentinel # None => Underway(sentinel) /\ Only(sentinel)
Unclaimed ==
    sentinel = None =>
        \/ Untouched /\ \A s \in Restores : restored[s] = None
        \/ \E s \in Restores : /\ At(s, "staged") \/ At(s, "committed")
                               /\ InPlace(TreeIn(finals, restored[s])) /\ Only(s)

\* What the request under way has brought about.
WorkFits ==
    work # None =>
        LET s == work.restore IN
        /\ work.step = "verify" => sentinel = s
        /\ work.step = "extract" => sentinel = s /\ At(s, "pending")
        /\ work.step \in {"move", "unclaim", "record"} => At(s, "staged") /\ sentinel \in {None, s}
        /\ work.step \in {"unclaim", "record"} => InPlace(TreeIn(finals, restored[s]))
        /\ work.step = "record" => sentinel = None

Startable == phase = "prepared" => Claimed /\ Unclaimed /\ WorkFits

BootedWhole == booted # None => booted = Blank \/ booted \in Offered

InstallInv == InstallTypeOK /\ EntriesBound /\ Startable /\ BootedWhole

-----------------------------------------------------------------------------
(* Points                                                                  *)

\* The point of an entry is whole, and is on offer.
LEMMA PointWhole ==
    ASSUME CaptureInv, InstallInv, NEW s \in Restores, restored[s] # None
    PROVE  /\ TreeIn(finals, restored[s]) \in Trees
           /\ TreeIn(finals, restored[s]) \in Offered
           /\ TreeIn(finals, restored[s]) # Blank
<1> DEFINE x == restored[s].record
           f == finals[x.repository][x.snapshot]
<1>1. /\ x.repository \in Destinations /\ x.snapshot \in DOMAIN finals[x.repository]
      /\ Sound(f)
  BY DEF InstallInv, EntriesBound, Verified
<1>2. finals[x.repository] \in Seq(Snapshots)
  BY <1>1 DEF CaptureInv, CaptureTypeOK, Repositories
<1>3. f \in Snapshots
  BY <1>1, <1>2
<1>4. f.tree \in Trees
  BY <1>3 DEF Snapshots
<1>5. f.tree \in Offered
  BY <1>1 DEF Offered
<1>6. f.tree # Blank
  <2>1. PICK l \in Leaves : TRUE
    BY RestoreAssumption
  <2>2. f.tree[l] \in Contents /\ Blank[l] = Fresh
    BY <1>4 DEF Trees, Blank
  <2>3. QED BY <2>2, RestoreAssumption
<1>7. QED BY <1>4, <1>5, <1>6 DEF TreeIn

\* Points stay where they are.
LEMMA PointsStay ==
    ASSUME CaptureInv, FinalsKept
    PROVE  /\ \A x : Verified(finals, x) =>
                 Verified(finals', x) /\ finals'[x.repository][x.snapshot]
                                            = finals[x.repository][x.snapshot]
           /\ Offered \subseteq Offered'
<1>1. Destinations \subseteq Repositories
  BY DEF Repositories
<1>2. ASSUME NEW x, Verified(finals, x)
      PROVE  Verified(finals', x) /\ finals'[x.repository][x.snapshot]
                                       = finals[x.repository][x.snapshot]
  BY <1>1, <1>2 DEF Verified, FinalsKept
<1>3. ASSUME NEW p \in Offered PROVE p \in Offered'
  <2>1. PICK r \in Destinations :
           \E i \in DOMAIN finals[r] : Sound(finals[r][i]) /\ p = finals[r][i].tree
    BY DEF Offered
  <2>2. PICK i \in DOMAIN finals[r] : Sound(finals[r][i]) /\ p = finals[r][i].tree
    BY <2>1
  <2>3. i \in DOMAIN finals'[r] /\ finals'[r][i] = finals[r][i]
    BY <1>1 DEF FinalsKept
  <2>4. QED BY <2>2, <2>3 DEF Offered, Sound
<1>4. QED BY <1>2, <1>3

-----------------------------------------------------------------------------
(* The initial state, and a step of the source's side                      *)

LEMMA InstallInitially == Init => InstallInv
<1> SUFFICES ASSUME Init PROVE InstallInv
  OBVIOUS
<1> USE DEF Init, RestoreInit, RepositoryInit
<1>1. InstallTypeOK
  BY DEF InstallTypeOK, Blank
<1>2. EntriesBound /\ BootedWhole
  BY DEF EntriesBound, BootedWhole
<1>3. Startable
  BY DEF Startable, Claimed, Unclaimed, Untouched, WorkFits
<1>4. QED BY <1>1, <1>2, <1>3 DEF InstallInv

LEMMA CapturingKeeps ==
    ASSUME CaptureInv, InstallInv, FinalsKept, UNCHANGED restoreVars
    PROVE  InstallInv'
<1> USE DEF InstallInv, restoreVars
<1>1. InstallTypeOK'
  BY DEF InstallTypeOK
<1>2. EntriesBound'
  <2>1. \A s \in Restores : restored[s] # None => Verified(finals', restored[s].record)
    BY PointsStay DEF EntriesBound
  <2>2. work # None => work.snapshot \in DOMAIN finals'[work.repository]
    BY DEF EntriesBound, FinalsKept, InstallTypeOK, WorkType, Repositories
  <2>3. QED BY <2>1, <2>2 DEF EntriesBound
<1>3. \A s \in Restores : restored[s] # None =>
         TreeIn(finals', restored[s]) = TreeIn(finals, restored[s])
  BY PointsStay DEF EntriesBound, TreeIn
<1>4. Startable'
  <2> SUFFICES ASSUME phase = "prepared" PROVE Claimed' /\ Unclaimed' /\ WorkFits'
    BY DEF Startable
  <2> USE DEF At, Untouched, Mixture, InPlace, Unmoved, Only
  <2>1. Claimed'
    BY <1>3 DEF Startable, Claimed, Underway, InstallTypeOK
  <2>2. Unclaimed'
    BY <1>3 DEF Startable, Unclaimed
  <2>3. WorkFits'
    BY <1>3 DEF Startable, WorkFits, InstallTypeOK, WorkType
  <2>4. QED BY <2>1, <2>2, <2>3
<1>5. BootedWhole'
  BY PointsStay DEF BootedWhole, Blank
<1>6. QED BY <1>1, <1>2, <1>4, <1>5

-----------------------------------------------------------------------------
(* A step of a request                                                     *)

LEMMA ClaimKeeps ==
    ASSUME CaptureInv, InstallInv, NEW s \in Restores, StageRequest(s), UNCHANGED finals
    PROVE  InstallInv'
<1> USE DEF InstallInv
<1>1. PICK r \in Destinations : \E i \in DOMAIN finals[r] : Claim(s, r, i)
  BY DEF StageRequest
<1>2. PICK i \in DOMAIN finals[r] : Claim(s, r, i)
  BY <1>1
<1>3. i \in Nat \ {0}
  <2>1. finals[r] \in Seq(Snapshots)
    BY DEF CaptureInv, CaptureTypeOK, Repositories
  <2>2. QED BY <2>1
<1>4. /\ work' = [step |-> "verify", restore |-> s, repository |-> r, snapshot |-> i]
      /\ sentinel' = s /\ phase = "prepared" /\ UNCHANGED <<phase, leaf, staging, restored, booted>>
      /\ ~At(s, "committed") /\ s # None
      /\ restored[s] # None => restored[s].record.repository = r /\ restored[s].record.snapshot = i
      /\ sentinel = s \/ (sentinel = None /\ restored[s] = None /\ Untouched)
  BY <1>2, RestoreAssumption DEF Claim, Untouched
<1>5. work' \in WorkType /\ work'.step = "verify" /\ work'.restore = s
      /\ work'.repository = r /\ work'.snapshot = i
  BY <1>3, <1>4 DEF WorkType
<1>6. InstallTypeOK'
  BY <1>4, <1>5 DEF InstallTypeOK
<1>7. EntriesBound'
  BY <1>2, <1>4, <1>5 DEF EntriesBound, SamePoint
<1>8. Startable'
  <2>1. Claimed'
    <3>1. CASE sentinel = s
      BY <1>4, <3>1 DEF Startable, Claimed, Underway, Only, At, Untouched, Mixture, Unmoved
    <3>2. CASE sentinel = None /\ restored[s] = None /\ Untouched
      <4>1. \A t \in Restores : restored[t] = None
        <5>1. ASSUME NEW t \in Restores, restored[t] # None,
                     InPlace(TreeIn(finals, restored[t]))
              PROVE  FALSE
          BY <3>2, <5>1, PointWhole DEF InPlace, Untouched
        <5>2. QED BY <1>4, <3>2, <5>1 DEF Startable, Unclaimed, At
      <4>2. QED BY <1>4, <3>2, <4>1 DEF Claimed, Underway, Only, At, Untouched
    <3>3. QED BY <1>4, <3>1, <3>2
  <2>2. Unclaimed' /\ WorkFits'
    BY <1>4, <1>5 DEF Unclaimed, WorkFits
  <2>3. QED BY <2>1, <2>2 DEF Startable
<1>9. BootedWhole'
  BY <1>4 DEF BootedWhole, Blank, Offered
<1>10. QED BY <1>6, <1>7, <1>8, <1>9

\* The request ends, or goes on, and nothing else changes.
LEMMA WorkOnly ==
    ASSUME CaptureInv, InstallInv,
           UNCHANGED <<phase, sentinel, leaf, staging, restored, booted, finals>>,
           work' # None => /\ work' \in WorkType /\ work'.step # "extract"
                           /\ work'.snapshot \in DOMAIN finals[work'.repository]
                           /\ restored[work'.restore] # None
                           /\ SamePoint(restored[work'.restore].record, work'),
           phase = "prepared" => WorkFits'
    PROVE  InstallInv'
<1> USE DEF InstallInv
<1>1. InstallTypeOK'
  BY DEF InstallTypeOK
<1>2. EntriesBound'
  BY DEF EntriesBound
<1>3. Startable'
  BY DEF Startable, Claimed, Unclaimed, Underway, At, Untouched, Mixture, InPlace, Unmoved, Only
<1>4. BootedWhole'
  BY DEF BootedWhole, Blank, Offered
<1>5. QED BY <1>1, <1>2, <1>3, <1>4

LEMMA CommitKeeps ==
    ASSUME CaptureInv, InstallInv, NEW s \in Restores, Commit(s), UNCHANGED finals
    PROVE  InstallInv'
<1>1. /\ At(s, "staged") /\ phase = "prepared" /\ sentinel \in {None, s}
      /\ work' = [step |-> "move", restore |-> s,
                  repository |-> restored[s].record.repository,
                  snapshot |-> restored[s].record.snapshot]
      /\ UNCHANGED <<phase, sentinel, leaf, staging, restored, booted>>
  BY DEF Commit
<1>2. restored[s] # None /\ restored[s] \in RestoreJobs /\ restored[s].record \in Receipts
  BY <1>1 DEF At, InstallInv, InstallTypeOK, RestoreJobs
<1>3. Verified(finals, restored[s].record)
  BY <1>2 DEF InstallInv, EntriesBound
<1>4. work' \in WorkType /\ work'.restore = s /\ work'.step = "move"
  BY <1>1, <1>2, <1>3 DEF WorkType, Verified, Receipts
<1>5. /\ work'.snapshot \in DOMAIN finals[work'.repository]
      /\ SamePoint(restored[s].record, work')
  BY <1>1, <1>3 DEF Verified, SamePoint
<1>6. WorkFits'
  BY <1>1, <1>4 DEF WorkFits, At
<1>7. QED BY <1>1, <1>2, <1>4, <1>5, <1>6, WorkOnly

LEMMA EndKeeps ==
    ASSUME CaptureInv, InstallInv, work' = None,
           UNCHANGED <<phase, sentinel, leaf, staging, restored, booted, finals>>
    PROVE  InstallInv'
<1>1. WorkFits'
  BY DEF WorkFits
<1>2. QED BY <1>1, WorkOnly

LEMMA VerifyKeeps ==
    ASSUME CaptureInv, InstallInv, Verify, UNCHANGED finals
    PROVE  InstallInv'
<1> USE DEF InstallInv
<1> DEFINE s == work.restore
           entry == [phase |-> "pending", record |-> Receipt(work.repository, work.snapshot)]
<1>1. /\ work # None /\ work \in WorkType /\ work.step = "verify" /\ phase = "prepared"
      /\ s \in Restores /\ s # None /\ sentinel = s
      /\ UNCHANGED <<phase, sentinel, leaf, booted>>
  BY RestoreAssumption DEF Verify, InstallTypeOK, WorkType, Startable, WorkFits
<1>2. Verified(finals, work) /\ Sound(finals[work.repository][work.snapshot])
  BY <1>1 DEF Verify, Point, EntriesBound, WorkType, Verified
<1>3. /\ restored' = IF restored[s] # None THEN restored ELSE [restored EXCEPT ![s] = entry]
      /\ IF At(s, "staged") THEN work' = None /\ UNCHANGED staging
         ELSE staging' = Nothing /\ work' = [work EXCEPT !.step = "extract"]
  BY DEF Verify
<1>4. entry \in RestoreJobs /\ entry.record.repository = work.repository
      /\ entry.record.snapshot = work.snapshot /\ entry.phase = "pending"
  <2>1. finals[work.repository] \in Seq(Snapshots)
    BY <1>1 DEF WorkType, Repositories, CaptureInv, CaptureTypeOK
  <2>2. finals[work.repository][work.snapshot] \in Snapshots
    BY <1>2, <2>1 DEF Verified
  <2>3. entry.record \in Receipts
    BY <1>1, <2>2 DEF Receipt, Receipts, WorkType, Repositories, Snapshots
  <2>4. QED BY <2>3 DEF RestoreJobs, Receipt
<1> HIDE DEF entry
<1>5. entry # None
  BY <1>4, EntryAssumption
<1>6. CASE At(s, "staged")
  <2>1. restored[s] # None
    BY <1>6 DEF At
  <2>2. QED BY <1>1, <1>3, <1>6, <2>1, EndKeeps
<1>7. CASE ~At(s, "staged")
  <2>1. Underway(s) /\ Only(s)
    BY <1>1 DEF Startable, Claimed
  <2>2. /\ restored' \in [Restores -> RestoreJobs \cup {None}] /\ restored'[s] # None
        /\ restored'[s].phase = "pending" /\ leaf = Blank
        /\ SamePoint(restored'[s].record, work)
        /\ \A t \in Restores : t # s => restored'[t] = restored[t] /\ restored[t] = None
    <3>1. CASE restored[s] = None
      BY <1>1, <1>3, <1>4, <1>5, <2>1, <3>1
         DEF InstallTypeOK, Underway, Untouched, Only, SamePoint
    <3>2. CASE restored[s] # None
      <4>1. restored[s].phase = "pending"
        BY <1>1, <1>7, <2>1, <3>2 DEF InstallTypeOK, RestoreJobs, Underway, At
      <4>2. QED
        BY <1>1, <1>3, <2>1, <3>2, <4>1 DEF InstallTypeOK, Underway, At, Only, EntriesBound
    <3>3. QED BY <3>1, <3>2
  <2>3. staging' = Nothing /\ work' = [work EXCEPT !.step = "extract"]
    BY <1>3, <1>7
  <2>4. /\ work' \in WorkType /\ work'.step = "extract" /\ work'.restore = s
        /\ work'.repository = work.repository /\ work'.snapshot = work.snapshot
    BY <1>1, <2>3 DEF WorkType
  <2>5. /\ staging' \in [Leaves -> Contents \cup {None}] /\ staging' # None
        /\ \A l \in Leaves : staging'[l] = None
    BY <2>3, RestoreAssumption DEF Nothing
  <2> HIDE DEF s
  <2>6. InstallTypeOK'
    BY <1>1, <2>2, <2>4, <2>5 DEF InstallTypeOK
  <2>7. EntriesBound'
    BY <1>1, <1>2, <2>2, <2>4 DEF EntriesBound, Verified, SamePoint
  <2>8. Startable'
    <3>1. Claimed'
      BY <1>1, <2>2, <2>5 DEF Claimed, Underway, At, Only, Blank
    <3>2. Unclaimed' /\ WorkFits'
      BY <1>1, <2>2, <2>4 DEF Unclaimed, WorkFits, At
    <3>3. QED BY <3>1, <3>2 DEF Startable
  <2>9. BootedWhole'
    BY <1>1 DEF BootedWhole, Blank, Offered
  <2>10. QED BY <2>6, <2>7, <2>8, <2>9
<1>8. QED BY <1>6, <1>7

LEMMA RefuseKeeps ==
    ASSUME CaptureInv, InstallInv, Refuse, UNCHANGED finals
    PROVE  InstallInv' /\ Untouched
<1> USE DEF InstallInv
<1>1. /\ phase = "prepared" /\ restored[work.restore] = None /\ sentinel' = None /\ work' = None
      /\ UNCHANGED <<phase, leaf, staging, restored, booted>>
      /\ sentinel = work.restore /\ work.restore \in Restores /\ work.restore # None
  BY RestoreAssumption DEF Refuse, Startable, WorkFits, InstallTypeOK, WorkType
<1>2. Untouched /\ \A t \in Restores : restored[t] = None
  BY <1>1 DEF Startable, Claimed, Underway, Only
<1>3. InstallTypeOK' /\ EntriesBound' /\ BootedWhole'
  BY <1>1 DEF InstallTypeOK, EntriesBound, BootedWhole, Blank, Offered
<1>4. Startable'
  BY <1>1, <1>2 DEF Startable, Claimed, Unclaimed, WorkFits, Untouched, Blank
<1>5. QED BY <1>2, <1>3, <1>4

LEMMA ExtractKeeps ==
    ASSUME CaptureInv, InstallInv, Extract, UNCHANGED finals
    PROVE  InstallInv'
<1> USE DEF InstallInv
<1> DEFINE s == work.restore
           tree == finals[work.repository][work.snapshot].tree
<1>1. /\ work # None /\ work \in WorkType /\ work.step = "extract" /\ s \in Restores
      /\ s # None /\ UNCHANGED <<phase, sentinel, leaf, restored, work, booted>>
  BY RestoreAssumption DEF Extract, InstallTypeOK, WorkType
<1>2. PICK l \in Leaves : staging[l] = None /\ staging' = [staging EXCEPT ![l] = tree[l]]
  BY DEF Extract, Point
<1>3. /\ restored[s] # None /\ TreeIn(finals, restored[s]) = tree /\ tree \in Trees
  <2>1. restored[s] # None /\ TreeIn(finals, restored[s]) = tree
    BY <1>1 DEF EntriesBound, TreeIn, SamePoint
  <2>2. QED BY <1>1, <2>1, PointWhole
<1>4. staging # None => staging' \in [Leaves -> Contents \cup {None}] /\ staging' # None
  BY <1>2, <1>3, RestoreAssumption DEF InstallTypeOK, Trees
<1> HIDE DEF s, tree
<1>5. CASE phase = "prepared"
  <2>1. /\ sentinel = s /\ At(s, "pending") /\ Underway(s) /\ Only(s)
    BY <1>1, <1>5 DEF Startable, WorkFits, Claimed, s
  <2>2. /\ leaf = Blank /\ staging # None /\ staging \in [Leaves -> Contents \cup {None}]
        /\ \A k \in Leaves : staging[k] \in {None, tree[k]}
    BY <1>3, <2>1 DEF Underway, InstallTypeOK
  <2>3. \A k \in Leaves : staging'[k] \in {None, tree[k]}
    BY <1>2, <2>2
  <2>4. InstallTypeOK' /\ EntriesBound' /\ BootedWhole'
    BY <1>1, <1>4 DEF InstallTypeOK, EntriesBound, BootedWhole, Blank, Offered
  <2>5. Claimed'
    BY <1>1, <1>3, <1>4, <2>1, <2>2, <2>3 DEF Claimed, Underway, At, Only, Blank
  <2>6. Unclaimed' /\ WorkFits'
    BY <1>1, <2>1 DEF Unclaimed, WorkFits, At, s
  <2>7. QED BY <2>4, <2>5, <2>6 DEF Startable
<1>6. CASE phase # "prepared"
  <2>1. staging' \in [Leaves -> Contents \cup {None}] /\ staging' # None
    BY <1>1, <1>4 DEF InstallTypeOK
  <2>2. QED
    BY <1>1, <1>6, <2>1 DEF InstallTypeOK, EntriesBound, BootedWhole, Startable, Blank, Offered
<1>7. QED BY <1>5, <1>6

LEMMA StagedKeeps ==
    ASSUME CaptureInv, InstallInv, Staged, UNCHANGED finals
    PROVE  InstallInv'
<1> USE DEF InstallInv
<1> DEFINE s == work.restore
<1>1. /\ work # None /\ work \in WorkType /\ work.step = "extract" /\ s \in Restores
      /\ s # None /\ restored[s] # None /\ restored[s] \in RestoreJobs
      /\ restored' = [restored EXCEPT ![s].phase = "staged"] /\ work' = None
      /\ \A l \in Leaves : staging[l] # None
      /\ UNCHANGED <<phase, sentinel, leaf, staging, booted>>
  BY RestoreAssumption DEF Staged, InstallTypeOK, WorkType, EntriesBound
<1> HIDE DEF s
<1>2. /\ restored' \in [Restores -> RestoreJobs \cup {None}] /\ restored'[s] # None
      /\ restored'[s].phase = "staged" /\ restored'[s].record = restored[s].record
      /\ \A t \in Restores : t # s => restored'[t] = restored[t]
  <2>1. /\ [restored[s] EXCEPT !.phase = "staged"] \in RestoreJobs
        /\ [restored[s] EXCEPT !.phase = "staged"].phase = "staged"
        /\ [restored[s] EXCEPT !.phase = "staged"].record = restored[s].record
    BY <1>1 DEF RestoreJobs
  <2>2. restored' = [restored EXCEPT ![s] = [restored[s] EXCEPT !.phase = "staged"]]
    BY <1>1
  <2>3. restored'[s] = [restored[s] EXCEPT !.phase = "staged"]
    BY <1>1, <2>2 DEF InstallTypeOK
  <2>4. restored'[s] # None
    BY <2>1, <2>3, EntryAssumption
  <2>5. QED BY <1>1, <2>1, <2>2, <2>3, <2>4 DEF InstallTypeOK
<1>3. InstallTypeOK' /\ BootedWhole'
  BY <1>1, <1>2 DEF InstallTypeOK, BootedWhole, Blank, Offered
<1>4. EntriesBound'
  BY <1>1, <1>2 DEF EntriesBound
<1>5. Startable'
  <2> SUFFICES ASSUME phase = "prepared" PROVE Claimed' /\ Unclaimed' /\ WorkFits'
    BY <1>1 DEF Startable
  <2>1. sentinel = s /\ At(s, "pending") /\ Underway(s) /\ Only(s)
    BY <1>1 DEF Startable, WorkFits, Claimed, s
  <2>2. TreeIn(finals', restored'[s]) = TreeIn(finals, restored[s])
    BY <1>2 DEF TreeIn
  <2>3. \A l \in Leaves : /\ l \in Unmoved /\ leaf[l] = Fresh
                          /\ staging[l] = TreeIn(finals, restored[s])[l]
    BY <1>1, <2>1 DEF Underway, Unmoved, Blank
  <2>4. Claimed'
    BY <1>1, <1>2, <2>1, <2>2, <2>3 DEF Claimed, Underway, At, Only, Mixture, Unmoved
  <2>5. Unclaimed' /\ WorkFits'
    BY <1>1, <2>1 DEF Unclaimed, WorkFits
  <2>6. QED BY <2>4, <2>5
<1>6. QED BY <1>3, <1>4, <1>5

LEMMA MoveKeeps ==
    ASSUME CaptureInv, InstallInv, Move, UNCHANGED finals
    PROVE  InstallInv' /\ (phase = "prepared" => sentinel # None)
<1> USE DEF InstallInv
<1> DEFINE s == work.restore
           tree == TreeIn(finals, restored[s])
<1>1. /\ work # None /\ work \in WorkType /\ work.step = "move" /\ s \in Restores
      /\ s # None /\ restored[s] # None /\ tree \in Trees
      /\ UNCHANGED <<phase, sentinel, restored, work, booted>>
  BY PointWhole, RestoreAssumption DEF Move, InstallTypeOK, WorkType, EntriesBound
<1>2. PICK l \in Unmoved :
         \/ leaf[l] = Fresh /\ leaf' = [leaf EXCEPT ![l] = None] /\ UNCHANGED staging
         \/ /\ leaf[l] = None
            /\ leaf' = [leaf EXCEPT ![l] = staging[l]]
            /\ staging' = [staging EXCEPT ![l] = None]
  BY DEF Move
<1>3. /\ l \in Leaves /\ staging # None /\ staging \in [Leaves -> Contents \cup {None}]
      /\ staging[l] # None /\ staging[l] \in Contents
      /\ leaf \in [Leaves -> Contents \cup {Fresh, None}]
  BY <1>2 DEF Unmoved, InstallTypeOK
<1>4. /\ leaf' \in [Leaves -> Contents \cup {Fresh, None}]
      /\ staging' \in [Leaves -> Contents \cup {None}] /\ staging' # None
  BY <1>2, <1>3, RestoreAssumption
<1> HIDE DEF s, tree
<1>5. InstallTypeOK' /\ EntriesBound' /\ BootedWhole'
  BY <1>1, <1>4 DEF InstallTypeOK, EntriesBound, BootedWhole, Blank, Offered
<1>6. ASSUME phase = "prepared"
      PROVE  /\ sentinel = s /\ At(s, "staged") /\ Only(s) /\ Mixture(tree)
  <2>1. At(s, "staged") /\ sentinel \in {None, s}
    BY <1>1, <1>6 DEF Startable, WorkFits, s
  <2>2. sentinel # None
    BY <1>3, <1>6 DEF Startable, Unclaimed, Untouched, InPlace
  <2>3. QED BY <1>1, <1>6, <2>1, <2>2 DEF Startable, Claimed, Underway, tree
<1>7. ASSUME Mixture(tree) PROVE Mixture(tree)'
  <2>1. ASSUME NEW k \in Leaves
        PROVE  \/ k \in Unmoved' /\ staging'[k] = tree[k] /\ leaf'[k] \in {Fresh, None}
               \/ k \notin Unmoved' /\ leaf'[k] = tree[k]
    <3>1. CASE k # l
      <4>1. leaf'[k] = leaf[k] /\ staging'[k] = staging[k] /\ (k \in Unmoved' <=> k \in Unmoved)
        BY <1>2, <1>3, <1>4, <3>1 DEF Unmoved
      <4>2. QED BY <1>7, <4>1 DEF Mixture
    <3>2. CASE k = l
      <4>1. staging[l] = tree[l]
        BY <1>2, <1>7, <1>3 DEF Mixture
      <4>2. QED BY <1>2, <1>3, <1>4, <3>2, <4>1 DEF Unmoved
    <3>3. QED BY <3>1, <3>2
  <2>2. tree' = tree
    BY <1>1 DEF tree, TreeIn, s
  <2>3. QED BY <2>1, <2>2 DEF Mixture
<1>8. Startable'
  <2> SUFFICES ASSUME phase = "prepared" PROVE Claimed' /\ Unclaimed' /\ WorkFits'
    BY <1>1 DEF Startable
  <2>1. Claimed'
    BY <1>1, <1>6, <1>7 DEF Claimed, Underway, At, Only, tree, s
  <2>2. Unclaimed' /\ WorkFits'
    BY <1>1, <1>6 DEF Unclaimed, WorkFits, At, s
  <2>3. QED BY <2>1, <2>2
<1>9. QED BY <1>1, <1>5, <1>6, <1>8

LEMMA UnstageKeeps ==
    ASSUME CaptureInv, InstallInv, Unstage, UNCHANGED finals
    PROVE  InstallInv'
<1> USE DEF InstallInv
<1> DEFINE s == work.restore
           tree == TreeIn(finals, restored[s])
<1>1. /\ work # None /\ work \in WorkType /\ work.step = "move" /\ s \in Restores
      /\ s # None /\ restored[s] # None /\ tree \in Trees
      /\ Unmoved = {} /\ leaf \in [Leaves -> Contents \cup {Fresh, None}]
      /\ staging' = None /\ work' = [work EXCEPT !.step = "unclaim"]
      /\ UNCHANGED <<phase, sentinel, leaf, restored, booted>>
  BY PointWhole, RestoreAssumption DEF Unstage, InstallTypeOK, WorkType, EntriesBound
<1>2. /\ work' \in WorkType /\ work'.step = "unclaim" /\ work'.restore = s
      /\ work'.repository = work.repository /\ work'.snapshot = work.snapshot
  BY <1>1 DEF WorkType
<1> HIDE DEF s, tree
<1>3. InstallTypeOK' /\ BootedWhole'
  BY <1>1, <1>2 DEF InstallTypeOK, BootedWhole, Blank, Offered
<1>4. EntriesBound'
  BY <1>1, <1>2 DEF EntriesBound, SamePoint, s
<1>5. Startable'
  <2> SUFFICES ASSUME phase = "prepared" PROVE Claimed' /\ Unclaimed' /\ WorkFits'
    BY <1>1 DEF Startable
  <2>1. At(s, "staged") /\ sentinel \in {None, s}
    BY <1>1 DEF Startable, WorkFits, s
  <2>2. leaf = tree
    <3>1. CASE sentinel = s
      <4>1. Mixture(tree)
        BY <1>1, <2>1, <3>1 DEF Startable, Claimed, Underway, tree
      <4>2. \A l \in Leaves : leaf[l] = tree[l]
        BY <1>1, <4>1 DEF Mixture
      <4>3. QED BY <1>1, <4>2 DEF Trees
    <3>2. CASE sentinel = None
      BY <1>1, <2>1, <3>2 DEF Startable, Unclaimed, InPlace, Only, At, tree
    <3>3. QED BY <2>1, <3>1, <3>2
  <2>3. tree' = tree
    BY <1>1, <1>2 DEF tree, TreeIn, s
  <2>4. sentinel = s => Only(s)
    BY <1>1 DEF Startable, Claimed
  <2>5. sentinel = None => Only(s)
    BY <1>1 DEF Startable, Unclaimed, Only
  <2>6. Claimed'
    BY <1>1, <2>1, <2>2, <2>4 DEF Claimed, Underway, At, Only, Mixture, Unmoved, tree
  <2>7. Unclaimed'
    BY <1>1, <2>1, <2>2, <2>5 DEF Unclaimed, InPlace, At, Only, tree
  <2>8. WorkFits'
    BY <1>1, <1>2, <2>1, <2>2 DEF WorkFits, InPlace, At, tree
  <2>9. QED BY <2>6, <2>7, <2>8
<1>6. QED BY <1>3, <1>4, <1>5

LEMMA UnclaimKeeps ==
    ASSUME CaptureInv, InstallInv, Unclaim, UNCHANGED finals
    PROVE  /\ InstallInv'
           /\ phase = "prepared" => leaf \in Offered /\ leaf # Blank
<1> USE DEF InstallInv
<1> DEFINE s == work.restore
           tree == TreeIn(finals, restored[s])
<1>1. /\ work # None /\ work \in WorkType /\ work.step = "unclaim" /\ s \in Restores
      /\ restored[s] # None /\ tree \in Offered /\ tree # Blank
      /\ sentinel' = None /\ work' = [work EXCEPT !.step = "record"]
      /\ UNCHANGED <<phase, leaf, staging, restored, booted>>
  BY PointWhole DEF Unclaim, InstallTypeOK, WorkType, EntriesBound
<1>2. /\ work' \in WorkType /\ work'.step = "record" /\ work'.restore = s
      /\ work'.repository = work.repository /\ work'.snapshot = work.snapshot
  BY <1>1 DEF WorkType
<1> HIDE DEF s, tree
<1>3. InstallTypeOK' /\ BootedWhole'
  BY <1>1, <1>2 DEF InstallTypeOK, BootedWhole, Blank, Offered
<1>4. EntriesBound'
  BY <1>1, <1>2 DEF EntriesBound, SamePoint, s
<1>5. ASSUME phase = "prepared"
      PROVE  At(s, "staged") /\ InPlace(tree) /\ Only(s)
  <2>1. At(s, "staged") /\ InPlace(tree) /\ sentinel \in {None, s}
    BY <1>1, <1>5 DEF Startable, WorkFits, s, tree
  <2>2. Only(s)
    BY <1>1, <1>5, <2>1 DEF Startable, Claimed, Unclaimed, Only
  <2>3. QED BY <2>1, <2>2
<1>6. Startable'
  BY <1>1, <1>2, <1>5 DEF Startable, Claimed, Unclaimed, WorkFits, At, InPlace, Only, tree
<1>7. QED BY <1>1, <1>3, <1>4, <1>5, <1>6 DEF InPlace

LEMMA RecordKeeps ==
    ASSUME CaptureInv, InstallInv, Record, UNCHANGED finals
    PROVE  InstallInv'
<1> USE DEF InstallInv
<1> DEFINE s == work.restore
<1>1. /\ work # None /\ work \in WorkType /\ work.step = "record" /\ s \in Restores
      /\ restored[s] # None /\ restored[s] \in RestoreJobs
      /\ restored' = [restored EXCEPT ![s].phase = "committed"] /\ work' = None
      /\ UNCHANGED <<phase, sentinel, leaf, staging, booted>>
  BY DEF Record, InstallTypeOK, WorkType, EntriesBound
<1> HIDE DEF s
<1>2. /\ restored' \in [Restores -> RestoreJobs \cup {None}] /\ restored'[s] # None
      /\ restored'[s].phase = "committed" /\ restored'[s].record = restored[s].record
      /\ \A t \in Restores : t # s => restored'[t] = restored[t]
  <2>1. /\ [restored[s] EXCEPT !.phase = "committed"] \in RestoreJobs
        /\ [restored[s] EXCEPT !.phase = "committed"].phase = "committed"
        /\ [restored[s] EXCEPT !.phase = "committed"].record = restored[s].record
    BY <1>1 DEF RestoreJobs
  <2>2. restored' = [restored EXCEPT ![s] = [restored[s] EXCEPT !.phase = "committed"]]
    BY <1>1
  <2>3. restored'[s] = [restored[s] EXCEPT !.phase = "committed"]
    BY <1>1, <2>2 DEF InstallTypeOK
  <2>4. restored'[s] # None
    BY <2>1, <2>3, EntryAssumption
  <2>5. QED BY <1>1, <2>1, <2>2, <2>3, <2>4 DEF InstallTypeOK
<1>3. InstallTypeOK' /\ BootedWhole'
  BY <1>1, <1>2 DEF InstallTypeOK, BootedWhole, Blank, Offered
<1>4. EntriesBound'
  BY <1>1, <1>2 DEF EntriesBound
<1>5. Startable'
  <2> SUFFICES ASSUME phase = "prepared" PROVE Claimed' /\ Unclaimed' /\ WorkFits'
    BY <1>1 DEF Startable
  <2>1. sentinel = None /\ InPlace(TreeIn(finals, restored[s]))
    BY <1>1 DEF Startable, WorkFits, s
  <2>2. Only(s)
    BY <1>1, <2>1 DEF Startable, Unclaimed, Only
  <2>3. TreeIn(finals', restored'[s]) = TreeIn(finals, restored[s])
    BY <1>2 DEF TreeIn
  <2>4. QED
    BY <1>1, <1>2, <2>1, <2>2, <2>3 DEF Claimed, Unclaimed, WorkFits, At, InPlace, Only
<1>6. QED BY <1>3, <1>4, <1>5

LEMMA StartKeeps ==
    ASSUME CaptureInv, InstallInv, Start, UNCHANGED finals
    PROVE  InstallInv'
<1> USE DEF InstallInv
<1>1. /\ phase = "prepared" /\ sentinel = None /\ phase' = "started" /\ booted' = leaf
      /\ UNCHANGED <<sentinel, leaf, staging, restored, work>>
  BY DEF Start
<1>2. leaf = Blank \/ leaf \in Offered
  <2>1. CASE Untouched
    BY <2>1 DEF Untouched
  <2>2. ASSUME NEW s \in Restores, At(s, "staged") \/ At(s, "committed"),
               InPlace(TreeIn(finals, restored[s]))
        PROVE  leaf \in Offered
    BY <2>2, PointWhole DEF At, InPlace
  <2>3. QED BY <1>1, <2>1, <2>2 DEF Startable, Unclaimed
<1>3. InstallTypeOK' /\ EntriesBound'
  BY <1>1 DEF InstallTypeOK, EntriesBound
<1>4. Startable' /\ BootedWhole'
  BY <1>1, <1>2 DEF Startable, BootedWhole, Blank, Offered
<1>5. QED BY <1>3, <1>4

LEMMA RetireKeeps ==
    ASSUME CaptureInv, InstallInv, Retire, UNCHANGED finals
    PROVE  InstallInv'
<1>1. /\ phase' = "retired"
      /\ UNCHANGED <<sentinel, leaf, staging, restored, work, booted>>
  BY DEF Retire
<1>2. QED
  BY <1>1 DEF InstallInv, InstallTypeOK, EntriesBound, Startable, BootedWhole, Blank, Offered

-----------------------------------------------------------------------------
(* Every step keeps the invariant                                          *)

LEMMA InstallStep == CaptureInv /\ InstallInv /\ [Next]_vars => InstallInv'
<1> SUFFICES ASSUME CaptureInv, InstallInv, [Next]_vars PROVE InstallInv'
  OBVIOUS
<1>1. CASE UNCHANGED restoreVars
  BY <1>1, FinalsStay, CapturingKeeps
<1>2. CASE Restoring
  <2>1. UNCHANGED finals
    BY <1>2 DEF Restoring
  <2>2. CASE RestoreStep
    <3>1. CASE Blocked
      BY <2>1, <3>1, EndKeeps DEF Blocked
    <3>2. QED
      BY <2>1, <2>2, <3>1, VerifyKeeps, RefuseKeeps, ExtractKeeps, StagedKeeps, MoveKeeps,
         UnstageKeeps, UnclaimKeeps, RecordKeeps DEF RestoreStep
  <2>3. CASE Interrupt
    BY <2>1, <2>3, EndKeeps DEF Interrupt
  <2>4. ASSUME NEW s \in Restores, StageRequest(s) \/ Commit(s) PROVE InstallInv'
    BY <2>1, <2>4, ClaimKeeps, CommitKeeps
  <2>5. CASE Start \/ Retire
    BY <2>1, <2>5, StartKeeps, RetireKeeps
  <2>6. QED BY <1>2, <2>2, <2>3, <2>4, <2>5 DEF Restoring, RestoreNext
<1>3. QED BY <1>1, <1>2 DEF Next, Capturing, vars

LEMMA InstallInvariant == Spec => [](CaptureInv /\ InstallInv)
<1>1. QED
  BY CaptureInitially, CaptureStep, InstallInitially, InstallStep, PTL DEF Spec

-----------------------------------------------------------------------------
(* The properties                                                          *)

LEMMA NothingIsDropped == CaptureInv /\ InstallInv => NothingDropped
<1> SUFFICES ASSUME CaptureInv, InstallInv, NEW s \in Restores, phase = "prepared",
                    restored[s] # None
             PROVE  /\ At(s, "staged") =>
                           \A l \in Leaves : Point(restored[s].record).tree[l] =
                              IF l \in Unmoved THEN staging[l] ELSE leaf[l]
                    /\ At(s, "committed") =>
                           sentinel = None /\ leaf = Point(restored[s].record).tree
  BY DEF NothingDropped, At
<1>1. TreeIn(finals, restored[s]) = Point(restored[s].record).tree
  BY DEF TreeIn, Point
<1>2. CASE sentinel = s
  BY <1>1, <1>2, RestoreAssumption
     DEF InstallInv, Startable, Claimed, Underway, Mixture
<1>3. CASE sentinel # None /\ sentinel # s
  BY <1>3 DEF InstallInv, Startable, Claimed, Only
<1>4. CASE sentinel = None
  BY <1>1, <1>4 DEF InstallInv, Startable, Unclaimed, InPlace, Only, Unmoved
<1>5. QED BY <1>2, <1>3, <1>4

LEMMA BootIsWhole == CaptureInv /\ InstallInv => BootsWhole
<1> SUFFICES ASSUME CaptureInv, InstallInv, booted # None, booted \in Offered
             PROVE  \E c \in Captures : booted = frozen[c]
  BY DEF BootsWhole, InstallInv, BootedWhole
<1>1. PICK r \in Destinations :
         \E i \in DOMAIN finals[r] : Sound(finals[r][i]) /\ booted = finals[r][i].tree
  BY DEF Offered
<1>2. PICK i \in DOMAIN finals[r] : Sound(finals[r][i]) /\ booted = finals[r][i].tree
  BY <1>1
<1>3. finals[r] \in Seq(Snapshots) /\ r \in Repositories
  BY DEF CaptureInv, CaptureTypeOK, Repositories
<1>4. finals[r][i] \in Snapshots
  BY <1>3
<1>5. SoundIsFrozen
  BY InvIsEnough
<1>6. QED BY <1>2, <1>3, <1>4, <1>5 DEF SoundIsFrozen, Snapshots

-----------------------------------------------------------------------------
(* The refinement                                                          *)

LEMMA InitMaps == Init => Promise!Init
<1> SUFFICES ASSUME Init PROVE Promise!Init
  OBVIOUS
<1>1. Offered = {}
  <2>1. \A r \in Destinations : DOMAIN finals[r] = {}
    BY DEF Init, RepositoryInit, Repositories
  <2>2. QED BY <2>1 DEF Offered
<1>2. StageSeen = "fresh" /\ DiskSeen = Blank
  BY DEF Init, RestoreInit, StageSeen, DiskSeen
<1>3. QED BY <1>1, <1>2 DEF Promise!Init

\* What is seen of a claimed instance does not change while it is claimed, nor
\* that of one that runs or is retired.
LEMMA Unseen ==
    ASSUME InstallInv, UNCHANGED <<phase, sentinel, booted, finals>>,
           phase = "prepared" /\ sentinel = None => UNCHANGED leaf
    PROVE  UNCHANGED <<Offered, StageSeen, DiskSeen>>
<1>1. Offered' = Offered
  BY DEF Offered
<1>2. StageSeen' = StageSeen /\ DiskSeen' = DiskSeen
  BY DEF StageSeen, DiskSeen, Blank, InstallInv, InstallTypeOK
<1>3. QED BY <1>1, <1>2

LEMMA StepMaps ==
    CaptureInv /\ InstallInv /\ [Next]_vars => [Promise!Next]_(Promise!vars)
<1> SUFFICES ASSUME CaptureInv, InstallInv, [Next]_vars PROVE [Promise!Next]_(Promise!vars)
  OBVIOUS
<1> USE DEF Promise!vars
<1>1. CASE UNCHANGED restoreVars
  <2>1. UNCHANGED <<StageSeen, DiskSeen>>
    BY <1>1 DEF StageSeen, DiskSeen, restoreVars, Blank
  <2>2. Offered \subseteq Offered'
    BY FinalsStay, PointsStay
  <2>3. QED BY <2>1, <2>2 DEF Promise!Next, Promise!Publish
<1>2. CASE Restoring
  <2>1. UNCHANGED finals /\ Offered' = Offered
    BY <1>2 DEF Restoring, Offered
  <2>2. CASE Verify \/ Extract \/ Staged \/ Unstage \/ Record \/ Blocked \/ Interrupt
             \/ \E s \in Restores : Commit(s)
    <3>1. UNCHANGED <<phase, sentinel, booted, leaf>>
      BY <2>2 DEF Verify, Extract, Staged, Unstage, Record, Blocked, Interrupt, Commit
    <3>2. QED BY <2>1, <3>1, Unseen
  <2>3. CASE Move
    <3>1. UNCHANGED <<phase, sentinel, booted>> /\ (phase = "prepared" => sentinel # None)
      BY <2>1, <2>3, MoveKeeps DEF Move
    <3>2. QED BY <2>1, <3>1, Unseen
  <2>4. ASSUME NEW s \in Restores, StageRequest(s)
        PROVE  [Promise!Next]_(Promise!vars)
    <3>1. PICK r \in Destinations : \E i \in DOMAIN finals[r] : Claim(s, r, i)
      BY <2>4 DEF StageRequest
    <3>2. /\ phase = "prepared" /\ sentinel' = s /\ s # None
          /\ UNCHANGED <<phase, leaf, booted>>
          /\ sentinel = s \/ (sentinel = None /\ leaf = Blank)
      BY <3>1, RestoreAssumption DEF Claim
    <3>3. CASE sentinel = s
      BY <2>1, <3>2, <3>3, Unseen
    <3>4. CASE sentinel = None
      <4>1. leaf = Blank
        BY <3>2, <3>4
      <4>2. StageSeen = "fresh" /\ StageSeen' = "claimed" /\ DiskSeen' = None
        BY <3>2, <3>4, <4>1 DEF StageSeen, DiskSeen
      <4>3. QED BY <2>1, <4>2 DEF Promise!Next, Promise!Claim
    <3>5. QED BY <3>2, <3>3, <3>4
  <2>5. CASE Refuse
    <3>1. leaf = Blank /\ phase = "prepared" /\ sentinel # None
      BY <2>1, <2>5, RefuseKeeps, RestoreAssumption
         DEF Refuse, Untouched, InstallInv, InstallTypeOK, WorkType, Startable, WorkFits
    <3>2. sentinel' = None /\ UNCHANGED <<phase, leaf, booted>>
      BY <2>5 DEF Refuse
    <3>3. StageSeen = "claimed" /\ StageSeen' = "fresh" /\ DiskSeen' = Blank
      BY <3>1, <3>2 DEF StageSeen, DiskSeen, Blank
    <3>4. QED BY <2>1, <3>3 DEF Promise!Next, Promise!Release
  <2>6. CASE Unclaim
    <3>1. sentinel' = None /\ UNCHANGED <<phase, leaf, booted>>
      BY <2>6 DEF Unclaim
    <3>2. CASE phase # "prepared"
      BY <2>1, <3>1, <3>2 DEF InstallInv, InstallTypeOK, StageSeen, DiskSeen, Blank
    <3>3. CASE phase = "prepared" /\ sentinel = None
      BY <2>1, <3>1, <3>3, Unseen
    <3>4. CASE phase = "prepared" /\ sentinel # None
      <4>1. leaf \in Offered /\ leaf # Blank
        BY <2>1, <2>6, <3>4, UnclaimKeeps
      <4>2. StageSeen = "claimed" /\ StageSeen' = "installed" /\ DiskSeen' = leaf
        BY <3>1, <3>4, <4>1 DEF StageSeen, DiskSeen, Blank
      <4>3. QED BY <2>1, <4>1, <4>2 DEF Promise!Next, Promise!Install
    <3>5. QED BY <3>2, <3>3, <3>4
  <2>7. CASE Start
    <3>1. /\ phase = "prepared" /\ sentinel = None /\ phase' = "started" /\ booted' = leaf
      BY <2>7 DEF Start
    <3>2. /\ StageSeen \in {"fresh", "installed"} /\ StageSeen' = "running"
          /\ DiskSeen' = DiskSeen
      BY <3>1 DEF StageSeen, DiskSeen
    <3>3. QED BY <2>1, <3>2 DEF Promise!Next, Promise!Boot
  <2>8. CASE Retire
    <3>1. phase = "prepared" /\ phase' = "retired"
      BY <2>8 DEF Retire
    <3>2. /\ StageSeen \in {"fresh", "claimed", "installed"} /\ StageSeen' = "retired"
          /\ DiskSeen' = None
      BY <3>1 DEF StageSeen, DiskSeen
    <3>3. QED BY <2>1, <3>2 DEF Promise!Next, Promise!Retire
  <2>9. QED
    BY <1>2, <2>2, <2>3, <2>4, <2>5, <2>6, <2>7, <2>8 DEF Restoring, RestoreNext, RestoreStep
<1>3. QED BY <1>1, <1>2 DEF Next, Capturing, vars

-----------------------------------------------------------------------------
(* The theorems                                                            *)

\* Once staged, every directory of the point is in the staging area or in
\* place until the restore is recorded as committed, through any number of
\* crashes between any two moves (restore.py _commit_leaves).
THEOREM NothingDroppedHolds == Spec => []NothingDropped
<1>1. QED BY InstallInvariant, NothingIsDropped, PTL

\* The target starts on empty directories or on all of what the source of one
\* capture held when it was frozen (restore.py, worker.py _restore_pending).
THEOREM BootsWholeHolds == Spec => []BootsWhole
<1>1. QED BY InstallInvariant, BootIsWhole, PTL

\* The restore worker implements Installation: whoever may start the instance
\* finds it as it was prepared or with a whole point, and sees nothing of the
\* steps in between, whichever of them are interrupted and done again.
THEOREM InstallsAtomicallyHolds == Spec => InstallsAtomically
<1>1. QED
  BY InitMaps, StepMaps, InstallInvariant, PTL DEF Spec, InstallsAtomically, Promise!Spec
=============================================================================
