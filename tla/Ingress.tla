------------------------------- MODULE Ingress -------------------------------
(***************************************************************************)
(* The edge (console/ingress.py, console/ingress_consumer.py): one thread  *)
(* polls the registry for route snapshots, keeps the last one it accepted, *)
(* and renders the document Traefik routes by; Traefik asks the guard with *)
(* the token of its document before each request.                          *)
(*                                                                         *)
(* One route.  The registry, the network and Traefik are here as little as *)
(* the edge needs of them.  There is no clock that counts up: durations    *)
(* are kept relative to now, and the wall clock of the edge by its offset  *)
(* from the registry's.  The registry's epoch, which is part of a token,   *)
(* is left out: it only makes tokens stop matching.                        *)
(***************************************************************************)
EXTENDS Integers, FiniteSetsExt

CONSTANTS
    Backends,       \* instances that can back the route
    Skew,           \* _MAX_CLOCK_SKEW
    Validity,       \* _MAX_VALIDITY, and the registry's _ROUTE_TTL
    Offsets,        \* bound: how the edge's wall clock stands to the registry's
    MaxVersion,     \* bound: changes in the registry
    MaxFaults,      \* bound: crashes and failed writes of the edge
    None

ASSUME EdgeAssumption ==
    /\ Skew \in Nat /\ Validity \in Nat
    /\ Offsets \subseteq Int /\ Min(Offsets) < -Skew
    /\ \E lo, hi \in Offsets : \A o \in Offsets : o \in lo .. hi
    /\ MaxVersion \in Nat /\ MaxFaults \in Nat
    /\ None \notin Backends

VARIABLES
    registry,   \* what /v2/routes would answer: version, epoch, backend
    offset,     \* wall clock of the edge minus that of the registry
    poll,       \* the polling thread and the answer it holds
    highwater,  \* version.json and its copy in memory
    snapshot,   \* the snapshot in force, None if none
    document,   \* the file written for Traefik
    loaded,     \* the document Traefik routes by
    trusted,    \* history: highest version a request was let through on
    faults      \* failures so far, at most MaxFaults

edge == <<poll, highwater, snapshot, document>>
vars == <<registry, offset, edge, loaded, trusted, faults>>

Versions == 0 .. MaxVersion
Routed == Backends \cup {None}

\* The least `left` of a snapshot that any clock of the edge may find fresh.
Least == Skew + Min(Offsets) + 1

\* `age` and `left` are generatedAt and validUntil relative to now; `since`
\* is the time from receipt, `offset` and `delay` those of the receipt.
\* `gone` is history: for how long the registry has not named the backend.
Replies == [version : Versions, backend : Routed, age : 0 .. Validity - Least,
            left : Least .. Validity, gone : 0 .. Validity - Least]
Snapshots == [version : Versions, backend : Routed, left : Least .. Validity,
              since : 0 .. Max(Offsets) - Min(Offsets), offset : Offsets,
              delay : 0 .. Validity - Least, gone : 0 .. Validity - Least]

\* What is routed to, and the backend the token of the guard stands for.
Documents == {[token |-> b, backend |-> b] : b \in Routed}
Denied == [token |-> None, backend |-> None]

Asking == [at |-> "asking", reply |-> None]

TypeOK ==
    /\ registry \in [version : Versions, backend : Routed]
    /\ offset \in Offsets
    /\ poll \in [at : {"asking", "answered", "render"},
                 reply : Replies \cup {None}]
    /\ highwater \in Versions
    /\ snapshot \in Snapshots \cup {None}
    /\ document \in Documents /\ loaded \in Documents
    /\ trusted \in Versions
    /\ faults \in 0 .. MaxFaults

Init ==
    /\ registry \in [version : {0}, backend : Routed]
    /\ offset \in Offsets
    /\ poll = Asking
    /\ highwater = 0
    /\ snapshot = None
    /\ document = Denied
    /\ loaded = Denied
    /\ trusted = 0
    /\ faults = 0

-----------------------------------------------------------------------------
(* The registry, as the edge sees it                                       *)

\* A commit: a report, a withdrawal, a placement.  Each bumps the version.
Commit(b) ==
    /\ registry.version < MaxVersion
    /\ registry' = [registry EXCEPT !.version = @ + 1, !.backend = b]
    /\ UNCHANGED <<offset, edge, loaded, trusted, faults>>

\* The evidence behind the backend ages out: no commit, no new version.
Lapse ==
    /\ registry.backend # None
    /\ registry' = [registry EXCEPT !.backend = None]
    /\ UNCHANGED <<offset, edge, loaded, trusted, faults>>

\* routes: an answer is valid for the TTL, or for less when the evidence
\* behind it ages out before.  The request carries a fresh nonce, so an
\* answer to an earlier one is refused: an idle thread is asking.
Answer(span) ==
    /\ poll.at = "asking"
    /\ registry.backend = None => span = Validity
    /\ poll' = [at |-> "answered",
                reply |-> [version |-> registry.version, backend |-> registry.backend,
                           age |-> 0, left |-> span, gone |-> 0]]
    /\ UNCHANGED <<registry, offset, highwater, snapshot, document,
                   loaded, trusted, faults>>

-----------------------------------------------------------------------------
(* poll                                                                    *)

\* The fetch fails or times out; the tick goes on to render.
FetchFails ==
    /\ poll.at \in {"asking", "answered"}
    /\ poll' = [at |-> "render", reply |-> None]
    /\ UNCHANGED <<registry, offset, highwater, snapshot, document,
                   loaded, trusted, faults>>

\* validate_snapshot
Acceptable(reply) ==
    /\ reply.version >= highwater
    /\ -reply.age <= offset + Skew
    /\ offset + reply.age <= Validity
    /\ reply.left + reply.age \in 1 .. Validity
    /\ reply.left - offset - Skew \in 1 .. Validity

\* The mark is on disk before the snapshot is in force, under the mutex: a
\* crash in between is a crash right after.
Raise(reply) == highwater' = Max({highwater, reply.version})

Receive ==
    /\ poll.at = "answered"
    /\ poll' = [at |-> "render", reply |-> None]
    /\ LET reply == poll.reply IN
       \/ /\ Acceptable(reply)
          /\ Raise(reply)
          /\ snapshot' = [version |-> reply.version, backend |-> reply.backend,
                          left |-> reply.left, since |-> 0, offset |-> offset,
                          delay |-> reply.age, gone |-> reply.gone]
          /\ UNCHANGED faults
       \/ /\ ~Acceptable(reply)
          /\ UNCHANGED <<highwater, snapshot, faults>>
       \/ /\ Acceptable(reply) /\ reply.version > highwater
          /\ faults < MaxFaults             \* version.json cannot be written
          /\ faults' = faults + 1
          /\ UNCHANGED <<highwater, snapshot>>
    /\ UNCHANGED <<registry, offset, document, loaded, trusted>>

-----------------------------------------------------------------------------
(* What the guard and the document rest on                                 *)

\* Mutant: the wall clock alone tells when the snapshot expires.
MutFresh ==
    /\ snapshot # None
    /\ snapshot.since + offset - snapshot.offset >= 0
    /\ offset < snapshot.left - Skew

\* _fresh: by the wall clock, not before the receipt and before the expiry;
\* by the monotonic clock, within what was left of it at the receipt.
Fresh ==
    /\ snapshot # None
    /\ snapshot.since + offset - snapshot.offset >= 0
    /\ offset < snapshot.left - Skew
    /\ snapshot.offset < snapshot.left - Skew

\* route_token
TokenOf(s) == s.backend

\* Mutant: the guard asks whether the token has a route, not whose it is.
MutAuthorized(token) ==
    /\ Fresh
    /\ snapshot.backend # None
    /\ token # None

\* authorize
Authorized(token) ==
    /\ Fresh
    /\ snapshot.backend # None
    /\ token = TokenOf(snapshot)

\* dynamic_config
Rendered ==
    IF Fresh THEN [token |-> TokenOf(snapshot), backend |-> snapshot.backend]
    ELSE Denied

\* The rest of the tick: render, and write when the file differs.
Render ==
    /\ poll.at = "render"
    /\ poll' = Asking
    /\ \/ document' = Rendered /\ UNCHANGED faults
       \/ /\ faults < MaxFaults /\ faults' = faults + 1
          /\ UNCHANGED document
    /\ UNCHANGED <<registry, offset, highwater, snapshot, loaded, trusted>>

-----------------------------------------------------------------------------
(* Traefik (external): it loads the file, or asks the provider endpoint,   *)
(* and lets a request through when the guard agrees to its token.          *)

Load ==
    /\ loaded' \in {document, Rendered}
    /\ UNCHANGED <<registry, offset, edge, trusted, faults>>

LetsThrough == Authorized(loaded.token)

Request ==
    /\ LetsThrough
    /\ trusted' = Max({trusted, snapshot.version})
    /\ UNCHANGED <<registry, offset, edge, loaded, faults>>

-----------------------------------------------------------------------------
(* Time and failures                                                       *)

Gone(s) == IF s.backend = registry.backend THEN 0 ELSE s.gone + 1

Older(reply) == [reply EXCEPT !.age = @ + 1, !.left = @ - 1, !.gone = Gone(reply)]

\* An answer too old to be accepted is one that timed out; a snapshot that no
\* clock can find fresh any more is forgotten.
Tick ==
    /\ snapshot' = IF snapshot = None \/ snapshot.left = Least THEN None
                   ELSE [snapshot EXCEPT !.left = @ - 1, !.gone = Gone(snapshot),
                                         !.since = Min({@ + 1, snapshot.offset - Min(Offsets)})]
    /\ poll' = IF poll.at # "answered" THEN poll
               ELSE IF poll.reply.left = Least
                    THEN [at |-> "render", reply |-> None]
               ELSE [poll EXCEPT !.reply = Older(poll.reply)]
    /\ UNCHANGED <<registry, offset, highwater, document, loaded, trusted, faults>>

\* One of the wall clocks is stepped or slewed.
Step ==
    /\ offset' \in Offsets
    /\ UNCHANGED <<registry, edge, loaded, trusted, faults>>

Fault == faults < MaxFaults /\ faults' = faults + 1

\* Mutant: the mark is kept in memory only.
MutRestart ==
    /\ Fault
    /\ poll' = Asking
    /\ snapshot' = None
    /\ highwater' = 0
    /\ UNCHANGED <<registry, offset, document, loaded, trusted>>

\* The edge dies and starts again: version.json, the file and Traefik stay.
Restart ==
    /\ Fault
    /\ poll' = Asking
    /\ snapshot' = None
    /\ UNCHANGED <<registry, offset, highwater, document, loaded, trusted>>

\* The registry's database is put back to an earlier state.
Restore(v, b) ==
    /\ v < registry.version
    /\ registry' = [version |-> v, backend |-> b]
    /\ UNCHANGED <<offset, edge, loaded, trusted, faults>>

-----------------------------------------------------------------------------

Thread == FetchFails \/ Receive \/ Render

Next ==
    \/ \E b \in Routed : Commit(b)
    \/ Lapse
    \/ \E span \in 0 .. Validity : Answer(span)
    \/ Thread \/ Load \/ Request \/ Tick \/ Step \/ Restart
    \/ \E v \in Versions, b \in Routed : Restore(v, b)

Spec == Init /\ [][Next]_vars

-----------------------------------------------------------------------------
(* Properties                                                              *)

\* No request is let through after the registry's lease ended, on any clocks
\* and after any delay of the answer, with one exception: a registry clock
\* that led by more than the allowance when a slow answer arrived, and then
\* by less than the answer took (_fresh, validate_snapshot).
LeaseHonoured ==
    LetsThrough => \/ snapshot.left > 0
                   \/ /\ -snapshot.offset > Skew
                      /\ snapshot.left + snapshot.delay > 0

\* What the comment at ingress.py:63 says without that exception.
LeaseNeverExtended == LetsThrough => snapshot.left > 0

\* Whatever document Traefik still holds, a request goes to the instance that
\* the snapshot in force names, and an instance the registry has stopped naming
\* is out of reach within the validity of a snapshot, not counting that
\* exception: the edge is never told, restarts, and its clocks are stepped
\* (route_token, authorize, poll, _fresh).
WithdrawnWithin ==
    LetsThrough => /\ loaded.backend = snapshot.backend
                   /\ snapshot.gone < Validity + snapshot.delay

\* The edge never goes back: no request is let through on an older version
\* than one before it, although the registry is restored from an earlier
\* state and the edge restarts (poll, version.json).
NeverBack == LetsThrough => snapshot.version >= trusted
=============================================================================
