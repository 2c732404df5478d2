------------------------------- MODULE Presence -------------------------------
(***************************************************************************)
(* The presence of one user: the fields of the user's document that say in *)
(* which venue the user is, and every handler that writes them.  Each      *)
(* handler reads the document, awaits other work, and then writes it with  *)
(* one update whose filter orders the writers by the time they started     *)
(* (services/user.service.js).  Requests of the user's devices, the boost  *)
(* activation (controllers/premium.controller.js), the stale-presence cron *)
(* and the administrator's clean-up interleave at those awaits.            *)
(***************************************************************************)
EXTENDS VenueMatch

CONSTANTS
    Req,            \* the requests; each is handled once
    Sightings,      \* what a heartbeat's geo query may return: sequences of candidates
    ManualGrace,    \* MANUAL_CHECKIN_GRACE_MS
    StaleAfter,     \* STALE_PRESENCE_THRESHOLD_MS
    AdminAfter,     \* the threshold of POST /api/admin/cleanup-presence
    BoostLength,    \* duration of a boost, bought or free
    UltraStay,      \* ULTRA_BOOST_CLAIM_MS
    LastStart,      \* bound: no request starts after this time
    LastWork,       \* bound: no request is in progress after this time
    MaxTime,        \* bound: the clock stops here
    Kinds           \* the kinds of request an instance explores

NoTime == 0         \* "null" in a field that holds a time; the clock starts at 1

Kind == {"heartbeat", "checkInManual", "checkInAuto", "checkOut",
         "checkInBle", "activateBoost"}

\* The handlers that place the user, and so cannot do it during a boost.
Explicit == {"checkInManual", "checkInAuto", "checkOut", "checkInBle"}

ASSUME TimeAssumption ==
    /\ ManualGrace \in Nat /\ StaleAfter \in Nat /\ AdminAfter \in Nat
    /\ BoostLength \in Nat /\ UltraStay \in Nat
    /\ LastStart \in Nat /\ LastWork \in Nat /\ MaxTime \in Nat /\ MaxTime > 0
ASSUME SightingsAssumption == Sightings \subseteq Seq(Candidate)
ASSUME KindsAssumption == Kinds \subseteq Kind

VARIABLES
    now,    \* Date.now(), in units of the constants above
    doc,    \* the presence fields of the user's document
    req,    \* the requests in progress
    ultra,  \* per venue, its Ultra Boost offer
    cron,   \* "found" between the find and the updateMany of expireStalePresence
    opener  \* the kind of request that opened the present stay (not in the code)

vars == <<now, doc, req, ultra, cron, opener>>

Time == Nat
MaybeVenue == Venue \cup {NoVenue}

Document ==
    [cur : MaybeVenue,                    \* currentLocation
     since : Time,                        \* currentLocationSince
     pending : MaybeVenue,                \* pendingLocation
     boost : Time,                        \* boostUntil
     mode : {"none", "manual", "auto"},   \* lastCheckInMode
     last : Time,                         \* lastForceCheckInRequestAt
     seen : Time]                         \* location.updatedAt

\* The fields a handler selects before it decides.
Selected(d) == [cur |-> d.cur, since |-> d.since, pending |-> d.pending,
                boost |-> d.boost, mode |-> d.mode]

NoSnap == [cur |-> NoVenue, since |-> NoTime, pending |-> NoVenue,
           boost |-> NoTime, mode |-> "none"]

Snapshot == [cur : MaybeVenue, since : Time, pending : MaybeVenue,
             boost : Time, mode : {"none", "manual", "auto"}]

\* A request waits to be sent ("new"), has started, has read the document, or
\* is a heartbeat between its write and the claim or the grant of a free boost.
Phase == {"new", "started", "read", "claim", "grant", "done"}

Request == [kind : Kind, phase : Phase, started : Time, readAt : Time, snap : Snapshot]

Offer == [until : Time, claimed : BOOLEAN]

TypeOK ==
    /\ now \in Nat \ {0}
    /\ doc \in Document
    /\ req \in [Req -> Request]
    /\ ultra \in [Venue -> Offer]
    /\ cron \in {"idle", "found"}
    /\ opener \in Kind \cup {"none"}

NewReq(k) == [kind |-> k, phase |-> "new", started |-> NoTime, readAt |-> NoTime,
              snap |-> NoSnap]

Init ==
    /\ now = 1
    /\ doc = [cur |-> NoVenue, since |-> NoTime, pending |-> NoVenue, boost |-> NoTime,
              mode |-> "none", last |-> NoTime, seen |-> 1]
    /\ \E k \in [Req -> Kinds] : req = [r \in Req |-> NewReq(k[r])]
    /\ ultra = [v \in Venue |-> [until |-> NoTime, claimed |-> FALSE]]
    /\ cron = "idle"
    /\ opener = "none"

-------------------------------------------------------------------------------
(* Helpers *)

BoostedAt(d, t) == d.boost > t

\* isWithinManualCheckInGrace
InGraceAt(d, t) ==
    /\ d.cur # NoVenue
    /\ d.mode = "manual"
    /\ d.since # NoTime
    /\ t - d.since < ManualGrace

\* Mutants of HeldAt: a boost, or a manual check-in, no longer holds the user.
HeldAt_NoBoost(d, t) == InGraceAt(d, t)
HeldAt_NoGrace(d, t) == d.cur # NoVenue /\ BoostedAt(d, t)

\* The user stays where it is whatever the heartbeat matched.
HeldAt(d, t) == (d.cur # NoVenue /\ BoostedAt(d, t)) \/ InGraceAt(d, t)

\* Mutant of NotOvertaken: updates filtered by user only.
NotOvertaken_Unordered(r) == req[r].phase = "read"

\* The filter of every presence write: no later-started request has written.
NotOvertaken(r) == doc.last = NoTime \/ doc.last <= req[r].started

Finish(r) == req' = [req EXCEPT ![r] = [NewReq(@.kind) EXCEPT !.phase = "done"]]

-------------------------------------------------------------------------------
(* Requests *)

\* requestStartedAt = Date.now()
Start(r) ==
    /\ req[r].phase = "new"
    /\ now <= LastStart
    /\ req' = [req EXCEPT ![r].phase = "started", ![r].started = now]
    /\ UNCHANGED <<now, doc, ultra, cron, opener>>

\* findById.  An explicit request is refused during a boost (BOOST_ACTIVE);
\* a boost needs a venue (NOT_AT_POI) and no running boost (ALREADY_BOOSTED).
Read(r) ==
    /\ req[r].phase = "started"
    /\ \/ /\ req[r].kind \in Explicit => ~BoostedAt(doc, now)
          /\ req[r].kind = "activateBoost" => doc.cur # NoVenue /\ ~BoostedAt(doc, now)
          /\ req' = [req EXCEPT ![r].phase = "read", ![r].readAt = now,
                                ![r].snap = Selected(doc)]
       \/ /\ \/ req[r].kind \in Explicit /\ BoostedAt(doc, now)
             \/ /\ req[r].kind = "activateBoost"
                /\ doc.cur = NoVenue \/ BoostedAt(doc, now)
          /\ Finish(r)
    /\ UNCHANGED <<now, doc, ultra, cron, opener>>

\* The request ends without a write: venue not found, too far from it, no boost
\* left, no Bluetooth peer; an error in an await; or its worker is restarted.
Abandon(r) ==
    /\ req[r].phase \notin {"new", "done"}
    /\ Finish(r)
    /\ UNCHANGED <<now, doc, ultra, cron, opener>>

\* forceCheckIn into venue v
CheckIn(r, v) ==
    /\ req[r].phase = "read"
    /\ req[r].kind \in {"checkInManual", "checkInAuto"}
    /\ IF NotOvertaken(r)
       THEN /\ doc' = [cur |-> v, since |-> now, pending |-> NoVenue, boost |-> NoTime,
                       mode |-> IF req[r].kind = "checkInManual" THEN "manual" ELSE "auto",
                       last |-> req[r].started, seen |-> now]
            /\ opener' = req[r].kind
       ELSE UNCHANGED <<doc, opener>>
    /\ Finish(r)
    /\ UNCHANGED <<now, ultra, cron>>

\* forceCheckOut
CheckOut(r) ==
    /\ req[r].phase = "read"
    /\ req[r].kind = "checkOut"
    /\ IF NotOvertaken(r)
       THEN /\ doc' = [doc EXCEPT !.cur = NoVenue, !.since = NoTime, !.pending = NoVenue,
                                  !.last = req[r].started]
            /\ opener' = "none"
       ELSE UNCHANGED <<doc, opener>>
    /\ Finish(r)
    /\ UNCHANGED <<now, ultra, cron>>

\* checkInViaBleOnly, when the nearest peer is in venue v.  A user already there
\* is left alone.
CheckInBle(r, v) ==
    /\ req[r].phase = "read"
    /\ req[r].kind = "checkInBle"
    /\ IF req[r].snap.cur # v /\ NotOvertaken(r)
       THEN /\ doc' = [doc EXCEPT !.cur = v, !.since = now, !.pending = NoVenue,
                                  !.boost = NoTime, !.last = req[r].started]
            /\ opener' = "checkInBle"
       ELSE UNCHANGED <<doc, opener>>
    /\ Finish(r)
    /\ UNCHANGED <<now, ultra, cron>>

\* A heartbeat that matched venue m enters it, or leaves if it matched none,
\* unless the snapshot it decides on holds the user where it is.
Enters(r, m) ==
    m # NoVenue /\ m # req[r].snap.cur /\ ~HeldAt(req[r].snap, req[r].readAt)

Leaves(r, m) == m = NoVenue /\ ~HeldAt(req[r].snap, req[r].readAt)

\* Mutant of HeartbeatUpdate: an entry keeps the mode of the last check-in.
HeartbeatUpdate_KeepsMode(r, m, p) ==
    LET d == [doc EXCEPT !.pending = p, !.last = req[r].started, !.seen = now]
    IN  CASE Enters(r, m) -> [d EXCEPT !.cur = m, !.since = now, !.boost = NoTime]
          [] Leaves(r, m) -> [d EXCEPT !.cur = NoVenue, !.since = NoTime]
          [] ~Enters(r, m) /\ ~Leaves(r, m) -> d

\* What updateLocation sets; the stay is not written when it does not change.
HeartbeatUpdate(r, m, p) ==
    LET d == [doc EXCEPT !.pending = p, !.last = req[r].started, !.seen = now]
    IN  CASE Enters(r, m) ->
               [d EXCEPT !.cur = m, !.since = now, !.boost = NoTime, !.mode = "auto"]
          [] Leaves(r, m) -> [d EXCEPT !.cur = NoVenue, !.since = NoTime]
          [] ~Enters(r, m) /\ ~Leaves(r, m) -> d

\* The heartbeat left its user in the venue it had read.
Stays(r, d) ==
    d.cur # NoVenue /\ d.cur = req[r].snap.cur /\ req[r].snap.since # NoTime

\* updateLocation, from the candidates c and the Bluetooth answer ble to its write
Heartbeat(r, c, ble) ==
    /\ req[r].phase = "read"
    /\ req[r].kind = "heartbeat"
    /\ ble \in BleAnswers(c, req[r].snap.cur)
    /\ IF NotOvertaken(r)
       THEN LET s == req[r].snap
                m == Matched(c, s.cur, s.pending, ble)
                d == HeartbeatUpdate(r, m, PendingAfter(c, s.cur, s.pending, ble))
            IN  /\ doc' = d
                /\ opener' = CASE Enters(r, m) -> "heartbeat"
                               [] Leaves(r, m) -> "none"
                               [] ~Enters(r, m) /\ ~Leaves(r, m) -> opener
                /\ IF Stays(r, d)
                   THEN req' = [req EXCEPT ![r].phase = "claim", ![r].snap = [@ EXCEPT !.boost = d.boost]]
                   ELSE Finish(r)
       ELSE UNCHANGED <<doc, opener>> /\ Finish(r)
    /\ UNCHANGED <<now, ultra, cron>>

\* Mutant of MayClaim: the update of the venue does not filter on claimedBy.
MayClaim_Again(r) ==
    LET s == req[r].snap
    IN  /\ now - s.since >= UltraStay /\ ~BoostedAt(s, now)
        /\ ultra[s.cur].until > now

\* After UltraStay in the venue and with no boost running, the heartbeat claims the
\* free boost of the venue's Ultra Boost offer: once per user and activation ...
MayClaim(r) ==
    LET s == req[r].snap
    IN  /\ now - s.since >= UltraStay /\ ~BoostedAt(s, now)
        /\ ultra[s.cur].until > now /\ ~ultra[s.cur].claimed

ClaimUltra(r) ==
    /\ req[r].phase = "claim"
    /\ IF MayClaim(r)
       THEN /\ ultra' = [ultra EXCEPT ![req[r].snap.cur] = [@ EXCEPT !.claimed = TRUE]]
            /\ req' = [req EXCEPT ![r].phase = "grant", ![r].readAt = now]
       ELSE ultra' = ultra /\ Finish(r)
    /\ UNCHANGED <<now, doc, cron, opener>>

\* ... and the update of the user that grants it.
GrantUltra(r) ==
    /\ req[r].phase = "grant"
    /\ doc' = [doc EXCEPT !.boost = req[r].readAt + BoostLength]
    /\ Finish(r)
    /\ UNCHANGED <<now, ultra, cron, opener>>

\* activateBoost: save() writes the modified fields only.
SaveBoost(r) ==
    /\ req[r].phase = "read"
    /\ req[r].kind = "activateBoost"
    /\ doc' = [doc EXCEPT !.boost = req[r].readAt + BoostLength]
    /\ Finish(r)
    /\ UNCHANGED <<now, ultra, cron, opener>>

-------------------------------------------------------------------------------
(* The rest of the system *)

\* A venue's owner activates an Ultra Boost; who claimed the last one may claim
\* again.  Bound: an offer is launched once per venue.
LaunchUltra(v) ==
    /\ ultra[v].until = NoTime
    /\ ultra' = [ultra EXCEPT ![v] = [until |-> now + BoostLength, claimed |-> FALSE]]
    /\ UNCHANGED <<now, doc, req, cron, opener>>

\* Mutant of Stale: a user who was ever boosted is never found.
Stale_NeverBoosted(d, t) == d.cur # NoVenue /\ d.boost = NoTime /\ t - d.seen > StaleAfter

\* The filter of expireStalePresence
Stale(d, t) == d.cur # NoVenue /\ ~BoostedAt(d, t) /\ t - d.seen > StaleAfter

CronFind ==
    /\ cron = "idle"
    /\ Stale(doc, now)
    /\ cron' = "found"
    /\ UNCHANGED <<now, doc, req, ultra, opener>>

\* updateMany on the ids it found
CronClear ==
    /\ cron = "found"
    /\ doc' = [doc EXCEPT !.cur = NoVenue, !.since = NoTime, !.pending = NoVenue]
    /\ opener' = "none"
    /\ cron' = "idle"
    /\ UNCHANGED <<now, req, ultra>>

\* POST /api/admin/cleanup-presence: one updateMany that clears currentLocation only
AdminCleanup ==
    /\ doc.cur # NoVenue
    /\ now - doc.seen > AdminAfter
    /\ doc' = [doc EXCEPT !.cur = NoVenue]
    /\ opener' = "none"
    /\ UNCHANGED <<now, req, ultra, cron>>

Tick ==
    /\ now < MaxTime
    /\ now >= LastWork => \A r \in Req : req[r].phase \in {"new", "done"}
    /\ now' = now + 1
    /\ UNCHANGED <<doc, req, ultra, cron, opener>>

Write(r) ==
    \/ \E v \in Venue : CheckIn(r, v) \/ CheckInBle(r, v)
    \/ CheckOut(r)
    \/ \E c \in Sightings, ble \in MaybeVenue : Heartbeat(r, c, ble)
    \/ SaveBoost(r)
    \/ ClaimUltra(r)
    \/ GrantUltra(r)

Next ==
    \/ \E r \in Req : Start(r) \/ Read(r) \/ Abandon(r) \/ Write(r)
    \/ \E v \in Venue : LaunchUltra(v)
    \/ CronFind
    \/ CronClear
    \/ AdminCleanup
    \/ Tick

Spec == Init /\ [][Next]_vars

\* A worker's event loop drives every request it has started to its end, the
\* clock runs, and the cron runs again and again.
Fairness ==
    /\ WF_vars(Tick)
    /\ WF_vars(CronFind)
    /\ WF_vars(CronClear)
    /\ \A r \in Req : WF_vars(Read(r) \/ Abandon(r) \/ Write(r))

-------------------------------------------------------------------------------
(* Safety *)

\* Whoever is in a venue has a start of stay, and not one to come: the minimum
\* stays (a visit after 5 minutes, a free boost after 20) are measured from it,
\* whatever mix of handlers wrote the two fields.
StayHasStart == doc.cur # NoVenue => doc.since \in 1 .. now

\* The presence field is a register in which a request never overwrites one that
\* started after it (the comment of lastForceCheckInRequestAt, models/User.js).
Order == INSTANCE PresenceOrder WITH
            Place <- Venue, NoPlace <- NoVenue, place <- doc.cur, stamp <- doc.last
OrderSpec == Order!Spec

\* A running boost is not cut short and holds its user where it is, except for what
\* was under way when it started (a request that had read the document, a clean-up
\* of the cron that had found the user stale) and for one thing begun later: POST
\* /api/admin/cleanup-presence (routes/admin.routes.js), which does not look at
\* boosts and evicts whoever has sent no heartbeat for AdminAfter.  The boost itself
\* survives that eviction.
RunningBoost == doc.cur # NoVenue /\ BoostedAt(doc, now)

Unaware(r) ==
    \/ req[r].phase = "read" /\ (req[r].snap.cur # doc.cur \/ req[r].snap.boost # doc.boost)
    \/ req[r].phase = "grant"

AdminEviction ==
    now - doc.seen > AdminAfter /\ doc' = [doc EXCEPT !.cur = NoVenue] /\ req' = req

BoostHoldsVenue ==
    [][ RunningBoost /\ cron = "idle" /\ (\A r \in Req : ~Unaware(r))
        => doc'.boost = doc.boost /\ (doc'.cur = doc.cur \/ AdminEviction) ]_vars

\* Within its grace window a manual check-in is not undone by a heartbeat, except
\* one that read the document before the check-in wrote it.
UnawareHeartbeat(r) ==
    /\ req[r].kind = "heartbeat" /\ req[r].phase = "read"
    /\ \/ req[r].snap.cur # doc.cur \/ req[r].snap.since # doc.since
       \/ req[r].snap.mode # doc.mode \/ ~InGraceAt(doc, req[r].readAt)

HeartbeatStep == \E r \in Req : req[r].kind = "heartbeat" /\ req'[r] # req[r]

GraceHoldsVenue ==
    [][ InGraceAt(doc, now) /\ HeartbeatStep /\ (\A r \in Req : ~UnawareHeartbeat(r))
        => doc'.cur = doc.cur /\ doc'.since = doc.since ]_vars

\* The grace window never protects a stay that a heartbeat opened, nor an
\* automatic check-in.
GraceNotFromGps ==
    InGraceAt(doc, now) => opener \in {"checkInManual", "checkInBle"}

\* Two heartbeats that reach the end of the 20 minutes together are not both
\* granted the free boost of one Ultra Boost offer.
FreeBoostOnce ==
    \A r1, r2 \in Req :
        req[r1].phase = "grant" /\ req[r2].phase = "grant"
            /\ req[r1].snap.cur = req[r2].snap.cur => r1 = r2

-------------------------------------------------------------------------------
(* Liveness *)

\* A user who has stopped sending anything does not stay in a venue for ever:
\* the cron ends the presence once it is stale and the boost, if any, is over.
NoGhost == <>[](doc.cur = NoVenue)
===============================================================================
