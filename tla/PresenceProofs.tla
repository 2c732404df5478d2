---------------------------- MODULE PresenceProofs ----------------------------
(***************************************************************************)
(* What Presence does for any number of requests and venues, any set of    *)
(* geo queries and any durations; and what the three algorithms about      *)
(* venues return for inputs of any size: the matching of a phone that lies *)
(* still, the list of venues, the stars of a city.                         *)
(***************************************************************************)
EXTENDS Presence, MCAlgorithms, FiniteSetTheorems, TLAPS

USE VenueAssumption DEF Time, MaybeVenue

-------------------------------------------------------------------------------
(* The matching of a heartbeat *)

\* The venue a heartbeat matches is one it saw, or the one it was in, or none.
LEMMA MatchedType ==
    ASSUME NEW c \in Seq(Candidate), NEW cur \in MaybeVenue, NEW wait \in MaybeVenue,
           NEW ble \in MaybeVenue, ble \in BleAnswers(c, cur)
    PROVE  /\ Matched(c, cur, wait, ble) \in MaybeVenue
           /\ PendingAfter(c, cur, wait, ble) \in MaybeVenue
<1>1. c # << >> => c[1] \in Candidate
  OBVIOUS
<1>2. NearestInRange(c) => c[1].id \in Venue
  BY <1>1 DEF NearestInRange, Candidate
<1>3. Matched(c, cur, wait, ble) \in MaybeVenue
  BY <1>2 DEF Matched, Ambiguous
<1>4. PendingAfter(c, cur, wait, ble) \in MaybeVenue
  BY <1>2 DEF PendingAfter, Ambiguous
<1>5. QED
  BY <1>3, <1>4

-------------------------------------------------------------------------------
(* Types *)

LEMMA FinishType ==
    ASSUME TypeOK, NEW r \in Req, Finish(r)
    PROVE  req' \in [Req -> Request]
BY DEF Finish, NewReq, NoSnap, NoTime, TypeOK, Request, Phase, Snapshot

LEMMA HeartbeatType ==
    ASSUME TypeOK, NEW r \in Req, NEW c \in Sightings, NEW ble \in MaybeVenue,
           Heartbeat(r, c, ble)
    PROVE  TypeOK'
<1> DEFINE s == req[r].snap
           m == Matched(c, s.cur, s.pending, ble)
           p == PendingAfter(c, s.cur, s.pending, ble)
           d == HeartbeatUpdate(r, m, p)
<1>1. s \in Snapshot /\ req[r].started \in Nat
  BY DEF TypeOK, Request
<1>2. c \in Seq(Candidate)
  BY SightingsAssumption
<1>3. m \in MaybeVenue /\ p \in MaybeVenue
  BY <1>1, <1>2, MatchedType DEF Heartbeat, Snapshot
<1>4. d \in Document
  <2> HIDE DEF m, p
  <2>1. [doc EXCEPT !.pending = p, !.last = req[r].started, !.seen = now] \in Document
    BY <1>1, <1>3 DEF TypeOK, Document
  <2>2. QED
    BY <1>3, <2>1 DEF HeartbeatUpdate, TypeOK, Document, NoTime
<1>5. doc' \in Document
  <2> HIDE DEF d
  <2>1. CASE NotOvertaken(r)
    BY <1>4, <2>1 DEF Heartbeat, d, m, p
  <2>2. CASE ~NotOvertaken(r)
    BY <2>2 DEF Heartbeat, TypeOK
  <2>3. QED
    BY <2>1, <2>2
<1>6. opener' \in Kind \cup {"none"}
  BY DEF Heartbeat, TypeOK, Kind
<1>7. req' \in [Req -> Request]
  <2>1. CASE Finish(r)
    BY <2>1, FinishType
  <2>2. CASE req' = [req EXCEPT ![r].phase = "claim", ![r].snap = [@ EXCEPT !.boost = d.boost]]
    <3> HIDE DEF d
    <3>1. d.boost \in Nat
      BY <1>4 DEF Document
    <3>2. [s EXCEPT !.boost = d.boost] \in Snapshot
      BY <1>1, <3>1 DEF Snapshot
    <3>3. [req[r] EXCEPT !.phase = "claim", !.snap = [@ EXCEPT !.boost = d.boost]] \in Request
      BY <3>2 DEF TypeOK, Request, Phase
    <3>4. QED
      BY <2>2, <3>3 DEF TypeOK
  <2>3. QED
    BY <2>1, <2>2 DEF Heartbeat
<1>8. QED
  BY <1>5, <1>6, <1>7 DEF Heartbeat, TypeOK

LEMMA CheckInType ==
    ASSUME TypeOK, NEW r \in Req, NEW v \in Venue, CheckIn(r, v)
    PROVE  TypeOK'
<1>1. req' \in [Req -> Request]
  BY FinishType DEF CheckIn
<1>2. doc' \in Document
  <2>1. doc \in Document /\ now \in Nat /\ req[r].started \in Nat
    BY DEF TypeOK, Request
  <2>2. CASE ~NotOvertaken(r)
    BY <2>1, <2>2 DEF CheckIn
  <2>3. CASE NotOvertaken(r)
    <3> DEFINE mode == IF req[r].kind = "checkInManual" THEN "manual" ELSE "auto"
    <3>1. mode \in {"none", "manual", "auto"}
      OBVIOUS
    <3>2. doc' = [cur |-> v, since |-> now, pending |-> NoVenue, boost |-> NoTime,
                  mode |-> mode, last |-> req[r].started, seen |-> now]
      BY <2>3 DEF CheckIn
    <3> HIDE DEF mode
    <3>3. QED
      BY <2>1, <3>1, <3>2 DEF Document, NoTime
  <2>4. QED
    BY <2>2, <2>3
<1>3. opener' \in Kind \cup {"none"}
  BY DEF CheckIn, TypeOK, Kind
<1>4. QED
  BY <1>1, <1>2, <1>3 DEF CheckIn, TypeOK

LEMMA CheckInBleType ==
    ASSUME TypeOK, NEW r \in Req, NEW v \in Venue, CheckInBle(r, v)
    PROVE  TypeOK'
<1>1. req' \in [Req -> Request]
  BY FinishType DEF CheckInBle
<1>2. doc' \in Document
  <2>1. doc \in Document /\ now \in Nat /\ req[r].started \in Nat
    BY DEF TypeOK, Request
  <2>2. CASE doc' = doc
    BY <2>1, <2>2
  <2>3. CASE doc' # doc
    <3>1. doc' = [doc EXCEPT !.cur = v, !.since = now, !.pending = NoVenue,
                            !.boost = NoTime, !.last = req[r].started]
      BY <2>3 DEF CheckInBle
    <3>2. QED
      BY <2>1, <3>1 DEF Document, NoTime
  <2>4. QED
    BY <2>2, <2>3
<1>3. opener' \in Kind \cup {"none"}
  BY DEF CheckInBle, TypeOK, Kind
<1>4. QED
  BY <1>1, <1>2, <1>3 DEF CheckInBle, TypeOK

LEMMA CheckOutType ==
    ASSUME TypeOK, NEW r \in Req, CheckOut(r)
    PROVE  TypeOK'
<1>1. req' \in [Req -> Request]
  BY FinishType DEF CheckOut
<1>2. doc' \in Document
  <2>1. doc \in Document /\ req[r].started \in Nat
    BY DEF TypeOK, Request
  <2>2. CASE doc' = doc
    BY <2>1, <2>2
  <2>3. CASE doc' # doc
    <3>1. doc' = [doc EXCEPT !.cur = NoVenue, !.since = NoTime, !.pending = NoVenue,
                            !.last = req[r].started]
      BY <2>3 DEF CheckOut
    <3>2. QED
      BY <2>1, <3>1 DEF Document, NoTime
  <2>4. QED
    BY <2>2, <2>3
<1>3. QED
  BY <1>1, <1>2 DEF CheckOut, TypeOK

LEMMA BoostType ==
    ASSUME TypeOK, NEW r \in Req, SaveBoost(r) \/ GrantUltra(r)
    PROVE  TypeOK'
<1>1. req' \in [Req -> Request]
  BY FinishType DEF SaveBoost, GrantUltra
<1>2. doc' \in Document
  <2>1. doc \in Document /\ req[r].readAt + BoostLength \in Nat
    BY TimeAssumption DEF TypeOK, Request
  <2>2. doc' = [doc EXCEPT !.boost = req[r].readAt + BoostLength]
    BY DEF SaveBoost, GrantUltra
  <2>3. QED
    BY <2>1, <2>2 DEF Document
<1>3. QED
  BY <1>1, <1>2 DEF SaveBoost, GrantUltra, TypeOK

LEMMA ClaimUltraType ==
    ASSUME TypeOK, NEW r \in Req, ClaimUltra(r)
    PROVE  TypeOK'
<1>1. req' \in [Req -> Request]
  <2>1. CASE Finish(r)
    BY <2>1, FinishType
  <2>2. CASE req' = [req EXCEPT ![r].phase = "grant", ![r].readAt = now]
    BY <2>2 DEF TypeOK, Request, Phase
  <2>3. QED
    BY <2>1, <2>2 DEF ClaimUltra
<1>2. ultra' \in [Venue -> Offer]
  <2> DEFINE v == req[r].snap.cur
  <2>1. \/ ultra' = ultra
        \/ ultra' = [ultra EXCEPT ![v] = [@ EXCEPT !.claimed = TRUE]]
    BY DEF ClaimUltra
  <2>2. v \in Venue => [ultra[v] EXCEPT !.claimed = TRUE] \in Offer
    BY DEF TypeOK, Offer
  <2>3. QED
    BY <2>1, <2>2 DEF TypeOK
<1>3. QED
  BY <1>1, <1>2 DEF ClaimUltra, TypeOK

LEMMA StartReadType ==
    ASSUME TypeOK, NEW r \in Req, Start(r) \/ Read(r) \/ Abandon(r)
    PROVE  TypeOK'
<1>1. CASE Start(r)
  BY <1>1 DEF Start, TypeOK, Request, Phase
<1>2. CASE Abandon(r)
  BY <1>2, FinishType DEF Abandon, TypeOK
<1>3. CASE Read(r)
  <2>1. Selected(doc) \in Snapshot
    BY DEF TypeOK, Document, Selected, Snapshot
  <2>2. CASE Finish(r)
    BY <1>3, <2>2, FinishType DEF Read, TypeOK
  <2>3. CASE req' = [req EXCEPT ![r].phase = "read", ![r].readAt = now,
                                ![r].snap = Selected(doc)]
    BY <1>3, <2>1, <2>3 DEF Read, TypeOK, Request, Phase
  <2>4. QED
    BY <1>3, <2>2, <2>3 DEF Read
<1>4. QED
  BY <1>1, <1>2, <1>3

LEMMA BackgroundType ==
    ASSUME TypeOK,
           \/ \E v \in Venue : LaunchUltra(v)
           \/ CronFind \/ CronClear \/ AdminCleanup \/ Tick
    PROVE  TypeOK'
<1>1. ASSUME NEW v \in Venue, LaunchUltra(v) PROVE TypeOK'
  BY <1>1, TimeAssumption DEF LaunchUltra, TypeOK, Offer
<1>2. CASE CronFind
  BY <1>2 DEF CronFind, TypeOK
<1>3. CASE CronClear
  BY <1>3 DEF CronClear, TypeOK, Document, NoTime
<1>4. CASE AdminCleanup
  BY <1>4 DEF AdminCleanup, TypeOK, Document
<1>5. CASE Tick
  BY <1>5 DEF Tick, TypeOK
<1>6. QED
  BY <1>1, <1>2, <1>3, <1>4, <1>5

LEMMA InitType == Init => TypeOK
<1> SUFFICES ASSUME Init PROVE TypeOK
  OBVIOUS
<1>1. ASSUME NEW k \in Kinds PROVE NewReq(k) \in Request
  BY KindsAssumption DEF NewReq, NoSnap, NoTime, Request, Phase, Snapshot
<1>2. req \in [Req -> Request]
  BY <1>1 DEF Init
<1>3. doc \in Document /\ ultra \in [Venue -> Offer]
  BY DEF Init, Document, Offer, NoTime
<1>4. now \in Nat \ {0} /\ cron = "idle" /\ opener = "none"
  BY DEF Init
<1>5. QED
  BY <1>2, <1>3, <1>4 DEF TypeOK

LEMMA NextType == TypeOK /\ [Next]_vars => TypeOK'
<1> SUFFICES ASSUME TypeOK, [Next]_vars PROVE TypeOK'
  OBVIOUS
<1>1. ASSUME NEW r \in Req, Start(r) \/ Read(r) \/ Abandon(r) PROVE TypeOK'
  BY <1>1, StartReadType
<1>2. ASSUME NEW r \in Req, Write(r) PROVE TypeOK'
  BY <1>2, CheckInType, CheckInBleType, CheckOutType, HeartbeatType, BoostType,
     ClaimUltraType DEF Write
<1>3. CASE UNCHANGED vars
  BY <1>3 DEF vars, TypeOK
<1>4. QED
  BY <1>1, <1>2, <1>3, BackgroundType DEF Next

\* Every field keeps the type the Mongoose schema gives it, and every request
\* the record its handler keeps, whatever the handlers interleave.
THEOREM TypeCorrect == Spec => []TypeOK
<1>1. QED
  BY InitType, NextType, PTL DEF Spec

-------------------------------------------------------------------------------
(* The shape of a heartbeat's write *)

\* The write of a heartbeat enters a venue, leaves, or leaves the stay alone; only
\* a heartbeat that no later-started request overtook writes at all.
LEMMA HeartbeatWrite ==
    ASSUME TypeOK, NEW r \in Req, NEW c \in Sightings, NEW ble \in MaybeVenue,
           Heartbeat(r, c, ble)
    PROVE  \/ /\ doc' = doc /\ opener' = opener
           \/ /\ NotOvertaken(r)
              /\ doc'.last = req[r].started
              /\ \/ /\ ~HeldAt(req[r].snap, req[r].readAt)
                    /\ doc'.cur \in Venue /\ doc'.since = now /\ doc'.mode = "auto"
                    /\ opener' = "heartbeat"
                 \/ /\ ~HeldAt(req[r].snap, req[r].readAt)
                    /\ doc'.cur = NoVenue /\ opener' = "none"
                 \/ /\ doc'.cur = doc.cur /\ doc'.since = doc.since
                    /\ doc'.boost = doc.boost /\ doc'.mode = doc.mode
                    /\ opener' = opener
<1> DEFINE s == req[r].snap
           m == Matched(c, s.cur, s.pending, ble)
           p == PendingAfter(c, s.cur, s.pending, ble)
           d == HeartbeatUpdate(r, m, p)
<1>1. s \in Snapshot /\ doc \in Document
  BY DEF TypeOK, Request
<1>2. m \in MaybeVenue /\ p \in MaybeVenue
  <2>1. c \in Seq(Candidate)
    BY SightingsAssumption
  <2>2. QED
    BY <1>1, <2>1, MatchedType DEF Heartbeat, Snapshot
<1>3. CASE ~NotOvertaken(r)
  BY <1>3 DEF Heartbeat
<1>4. CASE NotOvertaken(r)
  <2>1. /\ doc' = d
        /\ opener' = CASE Enters(r, m) -> "heartbeat"
                       [] Leaves(r, m) -> "none"
                       [] ~Enters(r, m) /\ ~Leaves(r, m) -> opener
    BY <1>4 DEF Heartbeat
  <2> HIDE DEF m, p
  <2> DEFINE seen == [doc EXCEPT !.pending = p, !.last = req[r].started, !.seen = now]
  <2>2. /\ seen.cur = doc.cur /\ seen.since = doc.since /\ seen.mode = doc.mode
        /\ seen.boost = doc.boost /\ seen.last = req[r].started
    BY <1>1 DEF Document
  <2>3. seen \in Document
    <3>1. p \in MaybeVenue /\ req[r].started \in Nat /\ now \in Nat
      BY <1>1, <1>2 DEF TypeOK, Request
    <3>2. QED
      BY <1>1, <3>1 DEF Document
  <2>4. CASE Enters(r, m)
    <3>0. ~Leaves(r, m)
      BY <2>4 DEF Enters, Leaves
    <3>1. doc' = [seen EXCEPT !.cur = m, !.since = now, !.boost = NoTime, !.mode = "auto"]
      BY <2>1, <2>4, <3>0, Zenon DEF HeartbeatUpdate
    <3> HIDE DEF seen
    <3>2. /\ doc'.cur = m /\ doc'.since = now /\ doc'.mode = "auto"
          /\ doc'.last = req[r].started
      BY <2>2, <2>3, <3>1 DEF Document
    <3>3. opener' = "heartbeat"
      BY <2>1, <2>4 DEF Enters, Leaves
    <3>4. QED
      BY <1>2, <1>4, <2>4, <3>2, <3>3 DEF Enters
  <2>5. CASE Leaves(r, m)
    <3>1. doc' = [seen EXCEPT !.cur = NoVenue, !.since = NoTime]
      BY <2>1, <2>5 DEF HeartbeatUpdate, Enters, Leaves
    <3> HIDE DEF seen
    <3>2. doc'.cur = NoVenue /\ doc'.last = req[r].started
      BY <2>2, <2>3, <3>1 DEF Document
    <3>3. opener' = "none"
      BY <2>1, <2>5 DEF Enters, Leaves
    <3>4. QED
      BY <1>4, <2>5, <3>2, <3>3 DEF Leaves
  <2>6. CASE ~Enters(r, m) /\ ~Leaves(r, m)
    <3>1. doc' = seen /\ opener' = opener
      BY <2>1, <2>6 DEF HeartbeatUpdate
    <3>2. QED
      BY <1>4, <2>2, <3>1
  <2>7. QED
    BY <2>4, <2>5, <2>6
<1>5. QED
  BY <1>3, <1>4

\* The steps by which the document changes: what the proofs below distinguish.
LEMMA DocSteps ==
    ASSUME TypeOK, [Next]_vars
    PROVE  \/ doc' = doc /\ opener' = opener
           \/ \E r \in Req, v \in Venue : CheckIn(r, v) /\ NotOvertaken(r)
           \/ \E r \in Req, v \in Venue :
                 CheckInBle(r, v) /\ req[r].snap.cur # v /\ NotOvertaken(r)
           \/ \E r \in Req : CheckOut(r) /\ NotOvertaken(r)
           \/ \E r \in Req, c \in Sightings, ble \in MaybeVenue : Heartbeat(r, c, ble)
           \/ \E r \in Req : SaveBoost(r) \/ GrantUltra(r)
           \/ CronClear
           \/ AdminCleanup
<1>1. ASSUME NEW r \in Req, Start(r) \/ Read(r) \/ Abandon(r) \/ ClaimUltra(r)
      PROVE  doc' = doc /\ opener' = opener
  BY <1>1 DEF Start, Read, Abandon, ClaimUltra
<1>2. ASSUME NEW r \in Req, NEW v \in Venue, CheckIn(r, v), ~NotOvertaken(r)
      PROVE  doc' = doc /\ opener' = opener
  BY <1>2 DEF CheckIn
<1>3. ASSUME NEW r \in Req, NEW v \in Venue, CheckInBle(r, v),
             ~(req[r].snap.cur # v /\ NotOvertaken(r))
      PROVE  doc' = doc /\ opener' = opener
  BY <1>3 DEF CheckInBle
<1>4. ASSUME NEW r \in Req, CheckOut(r), ~NotOvertaken(r)
      PROVE  doc' = doc /\ opener' = opener
  BY <1>4 DEF CheckOut
<1>5. ASSUME (\E v \in Venue : LaunchUltra(v)) \/ CronFind \/ Tick \/ UNCHANGED vars
      PROVE  doc' = doc /\ opener' = opener
  BY <1>5 DEF LaunchUltra, CronFind, Tick, vars
<1>6. QED
  BY <1>1, <1>2, <1>3, <1>4, <1>5 DEF Next, Write

-------------------------------------------------------------------------------
(* The stay and its start *)

LEMMA ClockStep == [Next]_vars => now' = now \/ now' = now + 1
<1>1. ASSUME NEW r \in Req, Start(r) \/ Read(r) \/ Abandon(r) PROVE now' = now
  BY <1>1 DEF Start, Read, Abandon
<1>2. ASSUME NEW r \in Req, NEW v \in Venue, CheckIn(r, v) \/ CheckInBle(r, v)
      PROVE  now' = now
  BY <1>2 DEF CheckIn, CheckInBle
<1>3. ASSUME NEW r \in Req, NEW c \in Sightings, NEW ble \in MaybeVenue,
             Heartbeat(r, c, ble)
      PROVE  now' = now
  BY <1>3 DEF Heartbeat
<1>4. ASSUME NEW r \in Req, CheckOut(r) \/ SaveBoost(r) \/ ClaimUltra(r) \/ GrantUltra(r)
      PROVE  now' = now
  BY <1>4 DEF CheckOut, SaveBoost, ClaimUltra, GrantUltra
<1>5. ASSUME (\E v \in Venue : LaunchUltra(v)) \/ CronFind \/ CronClear \/ AdminCleanup
      PROVE  now' = now
  BY <1>5 DEF LaunchUltra, CronFind, CronClear, AdminCleanup
<1>6. QED
  BY <1>1, <1>2, <1>3, <1>4, <1>5 DEF Next, Write, Tick, vars

LEMMA StayStep ==
    ASSUME TypeOK, StayHasStart, [Next]_vars
    PROVE  StayHasStart'
<1>0. doc \in Document /\ now \in Nat \ {0} /\ now' \in Nat \ {0} /\ now <= now'
  <2>1. TypeOK'
    BY NextType
  <2>2. now' = now \/ now' = now + 1
    BY ClockStep
  <2>3. QED
    BY <2>1, <2>2 DEF TypeOK
<1>1. ASSUME doc'.cur = doc.cur, doc'.since = doc.since
      PROVE  StayHasStart'
  BY <1>0, <1>1 DEF StayHasStart, Document
<1>2. ASSUME doc'.since = now
      PROVE  StayHasStart'
  BY <1>0, <1>2 DEF StayHasStart
<1>3. ASSUME doc'.cur = NoVenue
      PROVE  StayHasStart'
  BY <1>3 DEF StayHasStart
<1>4. ASSUME NEW r \in Req, NEW v \in Venue, CheckIn(r, v), NotOvertaken(r)
      PROVE  StayHasStart'
  <2>1. doc'.since = now
    BY <1>4 DEF CheckIn
  <2>2. QED
    BY <1>2, <2>1
<1>5. ASSUME NEW r \in Req, NEW v \in Venue, CheckInBle(r, v), req[r].snap.cur # v,
             NotOvertaken(r)
      PROVE  StayHasStart'
  <2>1. doc'.since = now
    BY <1>0, <1>5 DEF CheckInBle, Document
  <2>2. QED
    BY <1>2, <2>1
<1>6. ASSUME NEW r \in Req, CheckOut(r), NotOvertaken(r)
      PROVE  StayHasStart'
  <2>1. doc'.cur = NoVenue
    BY <1>0, <1>6 DEF CheckOut, Document
  <2>2. QED
    BY <1>3, <2>1
<1>7. ASSUME NEW r \in Req, NEW c \in Sightings, NEW ble \in MaybeVenue,
             Heartbeat(r, c, ble)
      PROVE  StayHasStart'
  BY <1>1, <1>2, <1>3, <1>7, HeartbeatWrite
<1>8. ASSUME NEW r \in Req, SaveBoost(r) \/ GrantUltra(r)
      PROVE  StayHasStart'
  <2>1. doc'.cur = doc.cur /\ doc'.since = doc.since
    BY <1>0, <1>8 DEF SaveBoost, GrantUltra, Document
  <2>2. QED
    BY <1>1, <2>1
<1>9. ASSUME CronClear \/ AdminCleanup
      PROVE  StayHasStart'
  <2>1. doc'.cur = NoVenue
    BY <1>0, <1>9 DEF CronClear, AdminCleanup, Document
  <2>2. QED
    BY <1>3, <2>1
<1>10. QED
  BY <1>1, <1>4, <1>5, <1>6, <1>7, <1>8, <1>9, DocSteps

\* A user in a venue always has the start of a stay, in the past: no mix of
\* handlers leaves the one field of the document without the other.
THEOREM StayAlwaysStarts == Spec => []StayHasStart
<1>1. Init => StayHasStart
  BY DEF Init, StayHasStart
<1>2. TypeOK /\ StayHasStart /\ [Next]_vars => StayHasStart'
  BY StayStep
<1>3. QED
  BY <1>1, <1>2, TypeCorrect, PTL DEF Spec

-------------------------------------------------------------------------------
(* The order of the writers *)

LEMMA OrderStep ==
    ASSUME TypeOK, [Next]_vars
    PROVE  [Order!Next]_<<doc.cur, doc.last>>
<1> USE DEF Order!Next, Order!Put, Order!Confirm, Order!CleanUp, Order!LaterStamp
<1>0. doc \in Document /\ doc' \in Document
  BY NextType DEF TypeOK
<1>1. ASSUME NEW r \in Req, NotOvertaken(r), doc'.last = req[r].started
      PROVE  [Order!Next]_<<doc.cur, doc.last>>
  <2>1. doc.last <= doc'.last /\ doc'.last \in Nat /\ doc'.cur \in Venue \cup {NoVenue}
    BY <1>0, <1>1 DEF NotOvertaken, NoTime, Document, TypeOK, Request
  <2>2. QED
    BY <2>1
<1>2. ASSUME NEW r \in Req, NotOvertaken(r),
             \/ \E v \in Venue : CheckIn(r, v)
             \/ \E v \in Venue : CheckInBle(r, v) /\ req[r].snap.cur # v
             \/ CheckOut(r)
      PROVE  doc'.last = req[r].started
  <2>1. ASSUME NEW v \in Venue, CheckIn(r, v) PROVE doc'.last = req[r].started
    BY <1>2, <2>1 DEF CheckIn
  <2>2. ASSUME NEW v \in Venue, CheckInBle(r, v), req[r].snap.cur # v
        PROVE  doc'.last = req[r].started
    BY <1>0, <1>2, <2>2 DEF CheckInBle, Document
  <2>3. CASE CheckOut(r)
    BY <1>0, <1>2, <2>3 DEF CheckOut, Document
  <2>4. QED
    BY <1>2, <2>1, <2>2, <2>3
<1>3. ASSUME NEW r \in Req, NEW c \in Sightings, NEW ble \in MaybeVenue,
             Heartbeat(r, c, ble)
      PROVE  [Order!Next]_<<doc.cur, doc.last>>
  BY <1>1, <1>3, HeartbeatWrite
<1>4. ASSUME NEW r \in Req, SaveBoost(r) \/ GrantUltra(r)
      PROVE  doc'.cur = doc.cur /\ doc'.last = doc.last
  BY <1>0, <1>4 DEF SaveBoost, GrantUltra, Document
<1>5. ASSUME CronClear \/ AdminCleanup
      PROVE  doc'.cur = NoVenue /\ doc'.last = doc.last
  BY <1>0, <1>5 DEF CronClear, AdminCleanup, Document
<1>6. QED
  BY <1>1, <1>2, <1>3, <1>4, <1>5, DocSteps

\* The presence of a user is a last-started-wins register: a handler that started
\* before the last writer never overwrites it, and a clean-up never moves the order.
THEOREM OrderRefined == Spec => OrderSpec
<1>1. Init => Order!Init
  BY DEF Init, Order!Init, NoTime
<1>2. TypeOK /\ [Next]_vars => [Order!Next]_<<doc.cur, doc.last>>
  BY OrderStep
<1>3. QED
  BY <1>1, <1>2, TypeCorrect, PTL DEF Spec, OrderSpec, Order!Spec

-------------------------------------------------------------------------------
(* The grace window *)

\* GraceNotFromGps is not inductive: a document whose user is nowhere may still say
\* "manual", and an entry must then set the mode or be a check-in itself.
ManualStay ==
    doc.cur # NoVenue /\ doc.mode = "manual" => opener \in {"checkInManual", "checkInBle"}

LEMMA ManualStep ==
    ASSUME TypeOK, ManualStay, [Next]_vars
    PROVE  ManualStay'
<1>0. doc \in Document
  BY DEF TypeOK
<1>1. ASSUME NEW r \in Req, NEW v \in Venue, CheckIn(r, v), NotOvertaken(r)
      PROVE  ManualStay'
  BY <1>1 DEF CheckIn, ManualStay
<1>2. ASSUME NEW r \in Req, NEW v \in Venue, CheckInBle(r, v), req[r].snap.cur # v,
             NotOvertaken(r)
      PROVE  ManualStay'
  BY <1>2 DEF CheckInBle, ManualStay
<1>3. ASSUME NEW r \in Req, CheckOut(r), NotOvertaken(r)
      PROVE  ManualStay'
  BY <1>0, <1>3 DEF CheckOut, ManualStay, Document
<1>4. ASSUME NEW r \in Req, NEW c \in Sightings, NEW ble \in MaybeVenue,
             Heartbeat(r, c, ble)
      PROVE  ManualStay'
  BY <1>4, HeartbeatWrite DEF ManualStay
<1>5. ASSUME NEW r \in Req, SaveBoost(r) \/ GrantUltra(r)
      PROVE  ManualStay'
  BY <1>0, <1>5 DEF SaveBoost, GrantUltra, ManualStay, Document
<1>6. ASSUME CronClear \/ AdminCleanup
      PROVE  ManualStay'
  BY <1>0, <1>6 DEF CronClear, AdminCleanup, ManualStay, Document
<1>7. QED
  BY <1>1, <1>2, <1>3, <1>4, <1>5, <1>6, DocSteps DEF ManualStay

\* No stay that a heartbeat opened is ever protected as a manual one.
THEOREM GraceSource == Spec => []GraceNotFromGps
<1>1. Init => ManualStay
  BY DEF Init, ManualStay
<1>2. TypeOK /\ ManualStay /\ [Next]_vars => ManualStay'
  BY ManualStep
<1>3. ManualStay => GraceNotFromGps
  BY DEF ManualStay, GraceNotFromGps, InGraceAt
<1>4. QED
  BY <1>1, <1>2, <1>3, TypeCorrect, PTL DEF Spec

\* A step that ends or moves one request leaves the others as they are.
LEMMA OneRequest ==
    ASSUME TypeOK, NEW r \in Req, NEW q \in Req, req'[q] # req[q],
           \/ Start(r) \/ Read(r) \/ Abandon(r) \/ Write(r)
    PROVE  q = r
<1>1. ASSUME Finish(r) PROVE q = r
  BY <1>1 DEF Finish, TypeOK
<1>2. ASSUME NEW v \in Venue, CheckIn(r, v) \/ CheckInBle(r, v) PROVE q = r
  BY <1>1, <1>2 DEF CheckIn, CheckInBle
<1>3. CASE CheckOut(r) \/ SaveBoost(r) \/ GrantUltra(r) \/ Abandon(r)
  BY <1>1, <1>3 DEF CheckOut, SaveBoost, GrantUltra, Abandon
<1>4. CASE Start(r) \/ Read(r) \/ ClaimUltra(r)
  BY <1>1, <1>4 DEF Start, Read, ClaimUltra, TypeOK
<1>5. ASSUME NEW c \in Sightings, NEW ble \in MaybeVenue, Heartbeat(r, c, ble)
      PROVE  q = r
  <2>1. Finish(r) \/ \E b : req' = [req EXCEPT ![r].phase = "claim", ![r].snap = b]
    BY <1>5 DEF Heartbeat
  <2>2. QED
    BY <1>1, <2>1 DEF TypeOK
<1>6. QED
  BY <1>2, <1>3, <1>4, <1>5 DEF Write

LEMMA GraceStep ==
    ASSUME TypeOK, [Next]_vars, InGraceAt(doc, now), HeartbeatStep,
           \A r \in Req : ~UnawareHeartbeat(r)
    PROVE  doc'.cur = doc.cur /\ doc'.since = doc.since
<1>0. doc \in Document
  BY DEF TypeOK
<1>1. PICK q \in Req : req[q].kind = "heartbeat" /\ req'[q] # req[q]
  BY DEF HeartbeatStep
<1>2. ASSUME NEW r \in Req, Start(r) \/ Read(r) \/ Abandon(r) \/ Write(r)
      PROVE  doc'.cur = doc.cur /\ doc'.since = doc.since
  <2>1. req[r].kind = "heartbeat"
    BY <1>1, <1>2, OneRequest
  <2>2. CASE Start(r) \/ Read(r) \/ Abandon(r) \/ ClaimUltra(r)
    BY <2>2 DEF Start, Read, Abandon, ClaimUltra
  <2>3. CASE GrantUltra(r)
    BY <1>0, <2>3 DEF GrantUltra, Document
  <2>4. ASSUME NEW c \in Sightings, NEW ble \in MaybeVenue, Heartbeat(r, c, ble)
        PROVE  doc'.cur = doc.cur /\ doc'.since = doc.since
    <3>1. HeldAt(req[r].snap, req[r].readAt)
      BY <2>1, <2>4 DEF UnawareHeartbeat, Heartbeat, HeldAt, InGraceAt
    <3>2. QED
      BY <2>4, <3>1, HeartbeatWrite
  <2>5. QED
    BY <1>2, <2>1, <2>2, <2>3, <2>4 DEF Write, CheckIn, CheckInBle, CheckOut, SaveBoost
<1>3. ASSUME \/ \E v \in Venue : LaunchUltra(v)
             \/ CronFind \/ CronClear \/ AdminCleanup \/ Tick \/ UNCHANGED vars
      PROVE  FALSE
  BY <1>1, <1>3 DEF LaunchUltra, CronFind, CronClear, AdminCleanup, Tick, vars
<1>4. QED
  BY <1>2, <1>3 DEF Next

\* Within its grace window a manual check-in is undone by no heartbeat that read
\* it: the only heartbeats that can are those in flight when it was written.
THEOREM GraceHolds == Spec => GraceHoldsVenue
<1>1. TypeOK /\ [Next]_vars =>
        [ InGraceAt(doc, now) /\ HeartbeatStep /\ (\A r \in Req : ~UnawareHeartbeat(r))
          => doc'.cur = doc.cur /\ doc'.since = doc.since ]_vars
  BY GraceStep
<1>2. QED
  BY <1>1, TypeCorrect, PTL DEF Spec, GraceHoldsVenue

-------------------------------------------------------------------------------
(* The lock of a running boost *)

\* A request between its read and its write read in the past, and only a heartbeat
\* goes on after reading a running boost.
ReadersOK ==
    \A r \in Req :
        req[r].phase = "read" =>
            /\ req[r].readAt <= now
            /\ req[r].kind # "heartbeat" => ~BoostedAt(req[r].snap, req[r].readAt)

LEMMA ReadersStep ==
    ASSUME TypeOK, ReadersOK, [Next]_vars
    PROVE  ReadersOK'
<1> SUFFICES ASSUME NEW q \in Req, req'[q].phase = "read"
             PROVE  /\ req'[q].readAt <= now'
                    /\ req'[q].kind # "heartbeat" => ~BoostedAt(req'[q].snap, req'[q].readAt)
  BY DEF ReadersOK, BoostedAt
<1>0. now \in Nat /\ now <= now' /\ req[q] \in Request
  BY ClockStep DEF TypeOK
<1>1. CASE req'[q] = req[q]
  <2>1. req[q].readAt \in Nat /\ now' \in Nat
    BY <1>0, NextType DEF Request, TypeOK
  <2>2. QED
    BY <1>0, <1>1, <2>1 DEF ReadersOK
<1>2. CASE req'[q] # req[q]
  <2>1. ASSUME NEW r \in Req, Start(r) \/ Read(r) \/ Abandon(r) \/ Write(r)
        PROVE  r = q
    BY <1>2, <2>1, OneRequest
  <2>2. ASSUME Finish(q) PROVE FALSE
    BY <2>2 DEF Finish, NewReq, TypeOK
  <2>3. CASE Start(q)
    BY <2>3 DEF Start, TypeOK, Request
  <2>4. CASE Read(q)
    <3>1. /\ req' = [req EXCEPT ![q].phase = "read", ![q].readAt = now,
                                ![q].snap = Selected(doc)]
          /\ req[q].kind \in Explicit => ~BoostedAt(doc, now)
          /\ req[q].kind = "activateBoost" => doc.cur # NoVenue /\ ~BoostedAt(doc, now)
      BY <2>2, <2>4 DEF Read
    <3>2. /\ req'[q].readAt = now /\ req'[q].snap = Selected(doc)
          /\ req'[q].kind = req[q].kind
      BY <1>0, <3>1 DEF TypeOK, Request
    <3>3. Selected(doc).boost = doc.boost
      BY DEF Selected
    <3>4. QED
      BY <1>0, <3>1, <3>2, <3>3 DEF BoostedAt, Request, Kind, Explicit
  <2>5. CASE Abandon(q) \/ CheckOut(q) \/ SaveBoost(q) \/ GrantUltra(q)
    BY <2>2, <2>5 DEF Abandon, CheckOut, SaveBoost, GrantUltra
  <2>6. ASSUME NEW v \in Venue, CheckIn(q, v) \/ CheckInBle(q, v)
        PROVE  FALSE
    BY <2>2, <2>6 DEF CheckIn, CheckInBle
  <2>7. ASSUME NEW c \in Sightings, NEW ble \in MaybeVenue, Heartbeat(q, c, ble)
        PROVE  FALSE
    <3>1. \E b : req' = [req EXCEPT ![q].phase = "claim", ![q].snap = b]
      BY <2>2, <2>7 DEF Heartbeat
    <3>2. QED
      BY <1>0, <3>1 DEF TypeOK, Request
  <2>8. CASE ClaimUltra(q)
    <3>1. req' = [req EXCEPT ![q].phase = "grant", ![q].readAt = now]
      BY <2>2, <2>8 DEF ClaimUltra
    <3>2. QED
      BY <1>0, <3>1 DEF TypeOK, Request
  <2>9. ASSUME \/ \E v \in Venue : LaunchUltra(v)
               \/ CronFind \/ CronClear \/ AdminCleanup \/ Tick \/ UNCHANGED vars
        PROVE  FALSE
    BY <1>2, <2>9 DEF LaunchUltra, CronFind, CronClear, AdminCleanup, Tick, vars
  <2>10. QED
    BY <2>1, <2>3, <2>4, <2>5, <2>6, <2>7, <2>8, <2>9 DEF Next, Write
<1>3. QED
  BY <1>1, <1>2

LEMMA BoostStep ==
    ASSUME TypeOK, ReadersOK, [Next]_vars, RunningBoost, cron = "idle",
           \A r \in Req : ~Unaware(r)
    PROVE  doc'.boost = doc.boost /\ (doc'.cur = doc.cur \/ AdminEviction)
<1>0. doc \in Document /\ now \in Nat
  BY DEF TypeOK
\* A request about to write read this very boost while it was running.
<1>1. ASSUME NEW r \in Req, req[r].phase = "read"
      PROVE  req[r].kind = "heartbeat" /\ HeldAt(req[r].snap, req[r].readAt)
  <2>1. req[r].snap.cur = doc.cur /\ req[r].snap.boost = doc.boost
    BY <1>1 DEF Unaware
  <2>2. req[r].readAt \in Nat /\ req[r].readAt <= now /\ doc.boost \in Nat
    BY <1>0, <1>1 DEF ReadersOK, TypeOK, Request, Document
  <2>3. BoostedAt(req[r].snap, req[r].readAt)
    BY <1>0, <2>1, <2>2 DEF RunningBoost, BoostedAt
  <2>4. QED
    BY <1>1, <2>1, <2>3 DEF ReadersOK, HeldAt, RunningBoost
<1>2. ASSUME NEW r \in Req, NEW v \in Venue, CheckIn(r, v) \/ CheckInBle(r, v)
      PROVE  FALSE
  BY <1>1, <1>2 DEF CheckIn, CheckInBle
<1>3. ASSUME NEW r \in Req, CheckOut(r) \/ SaveBoost(r) \/ GrantUltra(r)
      PROVE  FALSE
  BY <1>1, <1>3 DEF CheckOut, SaveBoost, GrantUltra, Unaware
<1>4. ASSUME NEW r \in Req, NEW c \in Sightings, NEW ble \in MaybeVenue,
             Heartbeat(r, c, ble)
      PROVE  doc'.cur = doc.cur /\ doc'.boost = doc.boost
  <2>1. HeldAt(req[r].snap, req[r].readAt)
    BY <1>1, <1>4 DEF Heartbeat
  <2>2. QED
    BY <1>4, <2>1, HeartbeatWrite
<1>5. CASE CronClear
  BY <1>5 DEF CronClear
<1>6. CASE AdminCleanup
  BY <1>0, <1>6 DEF AdminCleanup, AdminEviction, Document
<1>7. QED
  BY <1>2, <1>3, <1>4, <1>5, <1>6, DocSteps

\* While a boost runs nothing cuts it short nor moves its user, but a request or a
\* clean-up already under way when it was activated, and the administrators' clean-up,
\* which may evict the user at any time after AdminAfter without a heartbeat.
THEOREM BoostHolds == Spec => BoostHoldsVenue
<1>1. Init => ReadersOK
  BY DEF Init, ReadersOK, NewReq
<1>2. TypeOK /\ ReadersOK /\ [Next]_vars => ReadersOK'
  BY ReadersStep
<1>3. TypeOK /\ ReadersOK /\ [Next]_vars =>
        [ RunningBoost /\ cron = "idle" /\ (\A r \in Req : ~Unaware(r))
          => doc'.boost = doc.boost /\ (doc'.cur = doc.cur \/ AdminEviction) ]_vars
  BY BoostStep
<1>4. QED
  BY <1>1, <1>2, <1>3, TypeCorrect, PTL DEF Spec, BoostHoldsVenue
-------------------------------------------------------------------------------
(* The free boost of an offer *)

\* A grant under way has claimed the offer of its venue, which is not launched again before.
GrantsClaimed ==
    \A r \in Req :
      /\ req[r].phase \in {"claim", "grant"} => req[r].snap.cur \in Venue
      /\ req[r].phase = "grant" => LET offer == ultra[req[r].snap.cur]
                                   IN  offer.claimed = TRUE /\ offer.until # NoTime

\* A step that claims no offer leaves the request nothing to grant.
LEMMA NoNewGrant ==
    ASSUME TypeOK, NEW r \in Req, ~ClaimUltra(r),
           Start(r) \/ Read(r) \/ Abandon(r) \/ Write(r)
    PROVE  /\ req'[r].phase # "grant" /\ UNCHANGED ultra
           /\ req'[r].phase = "claim" => req'[r].snap.cur \in Venue
<1>1. ASSUME Finish(r)
      PROVE  req'[r].phase = "done"
  BY <1>1 DEF Finish, TypeOK, NewReq
<1>2. CASE Start(r) \/ Read(r) \/ Abandon(r)
  <2>1. \/ Finish(r)
        \/ \E t : req' = [req EXCEPT ![r].phase = "started", ![r].started = t]
        \/ \E t, s : req' = [req EXCEPT ![r].phase = "read", ![r].readAt = t, ![r].snap = s]
    BY <1>2 DEF Start, Read, Abandon
  <2>2. req'[r].phase \in {"started", "read", "done"}
    BY <1>1, <2>1 DEF TypeOK, Request
  <2>3. UNCHANGED ultra
    BY <1>2 DEF Start, Read, Abandon
  <2>4. QED
    BY <2>2, <2>3
<1>3. ASSUME NEW v \in Venue, CheckIn(r, v) \/ CheckInBle(r, v)
      PROVE  req'[r].phase = "done" /\ UNCHANGED ultra
  BY <1>1, <1>3 DEF CheckIn, CheckInBle
<1>4. CASE CheckOut(r) \/ SaveBoost(r) \/ GrantUltra(r)
  BY <1>1, <1>4 DEF CheckOut, SaveBoost, GrantUltra
<1>5. ASSUME NEW c \in Sightings, NEW ble \in MaybeVenue, Heartbeat(r, c, ble)
      PROVE  /\ req'[r].phase # "grant" /\ UNCHANGED ultra
             /\ req'[r].phase = "claim" => req'[r].snap.cur \in Venue
  <2>1. CASE Finish(r)
    BY <1>1, <1>5, <2>1 DEF Heartbeat
  <2>2. ASSUME NEW d, Stays(r, d), d.cur \in MaybeVenue,
               req' = [req EXCEPT ![r].phase = "claim", ![r].snap = [@ EXCEPT !.boost = d.boost]]
        PROVE  req'[r].phase = "claim" /\ req'[r].snap.cur \in Venue
    <3> DEFINE s == req[r].snap
               new == [req[r] EXCEPT !.phase = "claim", !.snap = [s EXCEPT !.boost = d.boost]]
    <3>1. req[r] \in Request /\ s \in Snapshot
      BY DEF TypeOK, Request
    <3>2. [s EXCEPT !.boost = d.boost].cur = s.cur
      BY <3>1 DEF Snapshot
    <3>3. new.phase = "claim" /\ new.snap.cur = s.cur
      BY <3>1, <3>2 DEF Request
    <3>4. req'[r] = new
      BY <2>2 DEF TypeOK
    <3>5. s.cur \in Venue
      BY <2>2, <3>1 DEF Stays, Snapshot
    <3>6. QED
      BY <3>3, <3>4, <3>5
  <2>3. doc' \in Document
    BY <1>5, HeartbeatType DEF TypeOK
  <2>4. QED
    BY <1>5, <2>1, <2>2, <2>3 DEF Heartbeat, Document
<1>6. QED
  BY <1>2, <1>3, <1>4, <1>5 DEF Write

LEMMA GrantStep ==
    ASSUME TypeOK, GrantsClaimed, FreeBoostOnce, [Next]_vars
    PROVE  GrantsClaimed' /\ FreeBoostOnce'
<1>1. ASSUME NEW r \in Req, ~ClaimUltra(r), Start(r) \/ Read(r) \/ Abandon(r) \/ Write(r)
      PROVE  GrantsClaimed' /\ FreeBoostOnce'
  <2>1. /\ req'[r].phase # "grant" /\ UNCHANGED ultra
        /\ req'[r].phase = "claim" => req'[r].snap.cur \in Venue
    BY <1>1, NoNewGrant
  <2>2. \A q \in Req : q # r => req'[q] = req[q]
    BY <1>1, OneRequest
  <2>3. QED
    BY <2>1, <2>2 DEF GrantsClaimed, FreeBoostOnce
<1>2. ASSUME NEW r \in Req, ClaimUltra(r)
      PROVE  GrantsClaimed' /\ FreeBoostOnce'
  <2> DEFINE v == req[r].snap.cur
  <2>1. \A q \in Req : q # r => req'[q] = req[q]
    BY <1>2, OneRequest DEF Write
  <2>2. CASE ~MayClaim(r)
    <3>1. UNCHANGED ultra /\ req'[r].phase = "done"
      BY <1>2, <2>2 DEF ClaimUltra, Finish, TypeOK, NewReq
    <3>2. QED
      BY <2>1, <3>1 DEF GrantsClaimed, FreeBoostOnce
  <2>3. CASE MayClaim(r)
    <3>1. v \in Venue
      BY <1>2 DEF GrantsClaimed, ClaimUltra
    <3>2. /\ ultra[v] \in Offer /\ ultra[v].claimed = FALSE /\ ultra[v].until # NoTime
      BY <2>3, <3>1 DEF MayClaim, TypeOK, Offer, NoTime
    <3>3. /\ ultra' = [ultra EXCEPT ![v] = [@ EXCEPT !.claimed = TRUE]]
          /\ req' = [req EXCEPT ![r].phase = "grant", ![r].readAt = now]
      BY <1>2, <2>3 DEF ClaimUltra
    <3>4. /\ ultra'[v].claimed = TRUE /\ ultra'[v].until # NoTime
          /\ \A w \in Venue : w # v => ultra'[w] = ultra[w]
      BY <3>1, <3>2, <3>3 DEF TypeOK, Offer
    <3>5. req'[r].phase = "grant" /\ req'[r].snap.cur = v
      BY <3>3 DEF TypeOK, Request
    <3>6. \A q \in Req : q # r /\ req[q].phase = "grant" => req[q].snap.cur # v
      BY <3>2 DEF GrantsClaimed
    <3> HIDE DEF v
    <3>7. GrantsClaimed'
      <4> SUFFICES ASSUME NEW q \in Req
                   PROVE  /\ req'[q].phase \in {"claim", "grant"} => req'[q].snap.cur \in Venue
                          /\ req'[q].phase = "grant" =>
                               /\ ultra'[req'[q].snap.cur].claimed = TRUE
                               /\ ultra'[req'[q].snap.cur].until # NoTime
        BY DEF GrantsClaimed
      <4>1. CASE q = r
        BY <3>1, <3>4, <3>5, <4>1
      <4>2. CASE q # r
        BY <2>1, <3>4, <3>6, <4>2 DEF GrantsClaimed
      <4>3. QED
        BY <4>1, <4>2
    <3>8. FreeBoostOnce'
      BY <2>1, <3>5, <3>6 DEF FreeBoostOnce
    <3>9. QED
      BY <3>7, <3>8
  <2>4. QED
    BY <2>2, <2>3
<1>3. ASSUME NEW v \in Venue, LaunchUltra(v)
      PROVE  GrantsClaimed' /\ FreeBoostOnce'
  <2>1. UNCHANGED req /\ \A w \in Venue : w # v => ultra'[w] = ultra[w]
    BY <1>3 DEF LaunchUltra, TypeOK
  <2>2. \A r \in Req : req[r].phase = "grant" => req[r].snap.cur # v
    BY <1>3 DEF GrantsClaimed, LaunchUltra
  <2>3. QED
    BY <2>1, <2>2 DEF GrantsClaimed, FreeBoostOnce
<1>4. CASE UNCHANGED <<req, ultra>>
  BY <1>4 DEF GrantsClaimed, FreeBoostOnce
<1>5. QED
  BY <1>1, <1>2, <1>3, <1>4 DEF Next, CronFind, CronClear, AdminCleanup, Tick, vars

\* The free boost of an Ultra Boost offer is granted once, however many heartbeats of the user
\* reach the end of the 20 minutes together (the claim of updateLocation,
\* services/user.service.js).
THEOREM OneFreeBoost == Spec => []FreeBoostOnce
<1>1. Init => GrantsClaimed /\ FreeBoostOnce
  BY DEF Init, GrantsClaimed, FreeBoostOnce, NewReq
<1>2. TypeOK /\ GrantsClaimed /\ FreeBoostOnce /\ [Next]_vars => GrantsClaimed' /\ FreeBoostOnce'
  BY GrantStep
<1>3. QED
  BY <1>1, <1>2, TypeCorrect, PTL DEF Spec

-------------------------------------------------------------------------------
(* A phone that lies still *)

\* Once the GPS alone has put the user in a venue, the hysteresis holds it; after one heartbeat
\* with a nearest venue in range, the user is in a venue or that one is pending.
Held ==
    /\ MS!TypeOK
    /\ beats >= 1 /\ gpsOnly =>
         /\ old # NoVenue => MS!StillInside(cands, old)
         /\ MS!NearestInRange(cands) => \/ old # NoVenue
                                        \/ beats = 1 /\ pending = cands[1].id

MatchInv == Held /\ MS!Settles /\ MS!MatchIsNear /\ MS!PendingIsConfirmable

USE RadiusAssumption

\* The cap bounds every radius.
LEMMA RadiusCapped ==
    ASSUME NEW c \in MS!Candidate
    PROVE  MS!EffectiveRadius(c) \in Nat /\ MS!EffectiveRadius(c) <= MaxRadius
BY DEF MS!EffectiveRadius, MS!Candidate

\* What one heartbeat makes of what is remembered.
LEMMA BeatStep ==
    ASSUME MS!TypeOK, NEW ble \in MS!BleAnswers(cands, old),
           NEW next, next = MS!Matched(cands, old, pending, ble),
           NEW then, then = MS!PendingAfter(cands, old, pending, ble)
    PROVE  /\ next \in Venue \cup {NoVenue} /\ then \in Venue \cup {NoVenue}
           /\ MS!StillInside(cands, old) => next = old
           /\ ble = NoVenue /\ next # NoVenue => MS!StillInside(cands, next)
           /\ ble = NoVenue /\ MS!NearestInRange(cands) =>
                next # NoVenue \/ (then = cands[1].id /\ pending # cands[1].id)
           /\ then # NoVenue => MS!NearestInRange(cands) /\ then = cands[1].id /\ next = NoVenue
           /\ next # NoVenue =>
                \E i \in DOMAIN cands :
                  /\ cands[i].id = next
                  /\ \/ 10 * cands[i].dist <= 11 * MaxRadius
                     \/ /\ cands[1].dist <= MaxRadius
                        /\ cands[i].dist - cands[1].dist < MinLead
<1>1. /\ cands \in Seq(MS!Candidate) /\ old \in Venue \cup {NoVenue}
      /\ pending \in Venue \cup {NoVenue}
  BY DEF MS!TypeOK
<1>2. \A i \in DOMAIN cands : /\ cands[i] \in MS!Candidate
                            /\ cands[i].id \in Venue /\ cands[i].dist \in Nat
                            /\ MS!EffectiveRadius(cands[i]) \in Nat
                            /\ MS!EffectiveRadius(cands[i]) <= MaxRadius
  <2> SUFFICES ASSUME NEW i \in DOMAIN cands
               PROVE  /\ cands[i] \in MS!Candidate
                      /\ cands[i].id \in Venue /\ cands[i].dist \in Nat
                      /\ MS!EffectiveRadius(cands[i]) \in Nat
                      /\ MS!EffectiveRadius(cands[i]) <= MaxRadius
    OBVIOUS
  <2>1. cands[i] \in MS!Candidate
    BY <1>1
  <2>2. cands[i].id \in Venue /\ cands[i].dist \in Nat
    BY <2>1 DEF MS!Candidate
  <2>3. QED
    BY <2>1, <2>2, RadiusCapped
<1>3. MS!NearestInRange(cands) =>
        /\ 1 \in DOMAIN cands /\ cands[1].dist <= MaxRadius
        /\ 10 * cands[1].dist <= 11 * MS!EffectiveRadius(cands[1])
  <2>1. cands # << >> => 1 \in DOMAIN cands
    BY <1>1
  <2>2. QED
    BY <1>2, <2>1 DEF MS!NearestInRange
<1>4. MS!NearestInRange(cands) => MS!StillInside(cands, cands[1].id)
  BY <1>3 DEF MS!StillInside
<1>5. CASE MS!StillInside(cands, old)
  <2>1. next = old /\ then = NoVenue
    BY <1>5 DEF MS!Matched, MS!PendingAfter, MS!Ambiguous
  <2>2. PICK i \in DOMAIN cands :
          cands[i].id = old /\ 10 * cands[i].dist <= 11 * MS!EffectiveRadius(cands[i])
    BY <1>5 DEF MS!StillInside
  <2>3. 10 * cands[i].dist <= 11 * MaxRadius
    BY <1>2, <2>2
  <2>4. old \in Venue
    BY <1>2, <2>2
  <2>5. QED
    BY <1>1, <1>5, <2>1, <2>2, <2>3, <2>4
<1>6. CASE ~MS!StillInside(cands, old) /\ ~MS!NearestInRange(cands)
  <2>1. next = NoVenue /\ then = NoVenue
    BY <1>6 DEF MS!Matched, MS!PendingAfter, MS!Ambiguous
  <2>2. QED
    BY <1>6, <2>1
<1>7. CASE ~MS!StillInside(cands, old) /\ MS!NearestInRange(cands) /\ MS!HasLead(cands)
  <2>1. next = cands[1].id /\ then = NoVenue
    BY <1>7 DEF MS!Matched, MS!PendingAfter, MS!Ambiguous
  <2>2. 10 * cands[1].dist <= 11 * MaxRadius
    BY <1>2, <1>3, <1>7
  <2>3. QED
    BY <1>2, <1>3, <1>4, <1>7, <2>1, <2>2
<1>8. CASE MS!Ambiguous(cands, old)
  <2>1. /\ next = IF ble # NoVenue THEN ble
                  ELSE IF pending = cands[1].id THEN pending ELSE NoVenue
        /\ then = IF ble = NoVenue /\ pending # cands[1].id THEN cands[1].id ELSE NoVenue
    BY <1>8 DEF MS!Matched, MS!PendingAfter, MS!Ambiguous
  <2>2. /\ ~MS!StillInside(cands, old) /\ MS!NearestInRange(cands)
        /\ ble \in MS!Rivals(cands) \cup {NoVenue}
    BY <1>8 DEF MS!Ambiguous, MS!BleAnswers
  <2>3. 1 \in DOMAIN cands /\ cands[1].id \in Venue /\ 10 * cands[1].dist <= 11 * MaxRadius
    BY <1>2, <1>3, <2>2
  <2>4. CASE ble # NoVenue
    <3>1. PICK i \in DOMAIN cands : ble = cands[i].id /\ cands[i].dist - cands[1].dist < MinLead
      BY <2>2, <2>4 DEF MS!Rivals
    <3>2. QED
      BY <1>2, <1>3, <2>1, <2>2, <2>4, <3>1
  <2>5. CASE ble = NoVenue /\ pending = cands[1].id
    BY <1>4, <2>1, <2>2, <2>3, <2>5
  <2>6. CASE ble = NoVenue /\ pending # cands[1].id
    BY <2>1, <2>2, <2>3, <2>6
  <2>7. QED
    BY <2>4, <2>5, <2>6
<1>9. QED
  BY <1>5, <1>6, <1>7, <1>8 DEF MS!Ambiguous

LEMMA MatchStep == MatchInv /\ [MS!Beat]_(MS!vars) => MatchInv'
<1> SUFFICES ASSUME MatchInv, [MS!Beat]_(MS!vars) PROVE MatchInv'
  OBVIOUS
<1>1. CASE UNCHANGED MS!vars
  BY <1>1 DEF MS!vars, MatchInv, Held, MS!TypeOK, MS!Settles, MS!MatchIsNear,
              MS!PendingIsConfirmable, MS!StillInside, MS!NearestInRange
<1>2. CASE MS!Beat
  <2>1. PICK ble \in MS!BleAnswers(cands, old) :
          /\ old' = MS!Matched(cands, old, pending, ble)
          /\ pending' = MS!PendingAfter(cands, old, pending, ble)
          /\ gpsOnly' = (gpsOnly /\ ble = NoVenue)
    BY <1>2 DEF MS!Beat
  <2>2. beats' = beats + 1 /\ cands' = cands /\ beats \in 0 .. 2
    BY <1>2 DEF MS!Beat, MatchInv, Held, MS!TypeOK, MS!MaxBeats
  <2>3. MS!TypeOK
    BY DEF MatchInv, Held
  <2>4. /\ old' \in Venue \cup {NoVenue} /\ pending' \in Venue \cup {NoVenue}
        /\ MS!StillInside(cands, old) => old' = old
        /\ ble = NoVenue /\ old' # NoVenue => MS!StillInside(cands, old')
        /\ ble = NoVenue /\ MS!NearestInRange(cands) =>
             old' # NoVenue \/ (pending' = cands[1].id /\ pending # cands[1].id)
        /\ pending' # NoVenue =>
             MS!NearestInRange(cands) /\ pending' = cands[1].id /\ old' = NoVenue
        /\ old' # NoVenue =>
             \E i \in DOMAIN cands :
               /\ cands[i].id = old'
               /\ \/ 10 * cands[i].dist <= 11 * MaxRadius
                  \/ /\ cands[1].dist <= MaxRadius
                     /\ cands[i].dist - cands[1].dist < MinLead
    BY <2>1, <2>3, BeatStep
  <2>5. gpsOnly' => gpsOnly /\ ble = NoVenue
    BY <2>1
  <2>6. MS!TypeOK'
    BY <2>1, <2>2, <2>3, <2>4 DEF MS!TypeOK, MS!MaxBeats
  <2>7. beats' >= 1 /\ gpsOnly' =>
          /\ old' # NoVenue => MS!StillInside(cands, old')
          /\ MS!NearestInRange(cands) => old' # NoVenue \/ (beats' = 1 /\ pending' = cands[1].id)
    BY <2>2, <2>4, <2>5 DEF MatchInv, Held
  <2>8. Held'
    <3>1. MS!NearestInRange(cands)' <=> MS!NearestInRange(cands)
      BY <2>2 DEF MS!NearestInRange
    <3>2. MS!StillInside(cands, old)' <=> MS!StillInside(cands, old')
      BY <2>2 DEF MS!StillInside
    <3>3. QED
      BY <2>2, <2>6, <2>7, <3>1, <3>2 DEF Held
  <2>9. MS!Settles'
    BY <2>2, <2>7 DEF MS!Settles, MS!NearestInRange
  <2>10. MS!MatchIsNear' /\ MS!PendingIsConfirmable'
    BY <2>2, <2>4 DEF MS!MatchIsNear, MS!PendingIsConfirmable, MS!NearestInRange
  <2>11. QED
    BY <2>8, <2>9, <2>10 DEF MatchInv
<1>3. QED
  BY <1>1, <1>2

\* What the GPS alone decided, no later heartbeat undoes.
LEMMA BeatKeeps ==
    MatchInv /\ [MS!Beat]_(MS!vars)
      => [gpsOnly' /\ beats >= 1 /\ old # NoVenue => old' = old]_(MS!vars)
<1> SUFFICES ASSUME MatchInv, MS!Beat, gpsOnly', beats >= 1, old # NoVenue PROVE old' = old
  OBVIOUS
<1>1. PICK ble \in MS!BleAnswers(cands, old) :
        /\ old' = MS!Matched(cands, old, pending, ble)
        /\ pending' = MS!PendingAfter(cands, old, pending, ble)
        /\ gpsOnly' = (gpsOnly /\ ble = NoVenue)
  BY DEF MS!Beat
<1>2. MS!StillInside(cands, old)
  BY <1>1 DEF MatchInv, Held
<1>3. MS!TypeOK
  BY DEF MatchInv, Held
<1>4. QED
  BY <1>1, <1>2, <1>3, BeatStep

-------------------------------------------------------------------------------
(* Finite sets under a total order *)

\* An injective ranking of n elements from 0 to n - 1 misses no rank.
LEMMA RanksFilled ==
    ASSUME NEW T, IsFiniteSet(T), NEW n, n = Cardinality(T), NEW rank \in [T -> 0 .. n - 1],
           \A v, w \in T : v # w => rank[v] # rank[w]
    PROVE  rank \in Bijection(T, 0 .. n - 1)
<1>1. n \in Nat
  BY FS_CardinalityType
<1>2. rank \in Injection(T, 0 .. n - 1)
  BY Zenon DEF Injection, IsInjective
<1>3. IsFiniteSet(0 .. n - 1) /\ Cardinality(0 .. n - 1) = n
  <2>1. 0 \in Int /\ n - 1 \in Int /\ (IF 0 > n - 1 THEN 0 ELSE n - 1 - 0 + 1) = n
    BY <1>1
  <2>2. QED
    BY <2>1, FS_Interval
<1>4. rank \in Surjection(T, 0 .. n - 1)
  BY <1>2, <1>3, FS_Injection
<1>5. QED
  BY <1>2, <1>4 DEF Bijection

\* In a finite set under a strict total order R, the number of elements before each ranks it.
LEMMA CountRanks ==
    ASSUME NEW T, IsFiniteSet(T), NEW R,
           \A v, w \in T : v # w => (<<v, w>> \in R \/ <<w, v>> \in R),
           \A v \in T : <<v, v>> \notin R,
           \A u, v, w \in T : <<u, v>> \in R /\ <<v, w>> \in R => <<u, w>> \in R,
           NEW rank, \A v \in T : rank[v] = Cardinality({w \in T : <<w, v>> \in R})
    PROVE  /\ Cardinality(T) \in Nat
           /\ \A v \in T : rank[v] \in 0 .. Cardinality(T) - 1
           /\ \A v, w \in T : <<v, w>> \in R <=> rank[v] < rank[w]
           /\ \A v, w \in T : v # w => rank[v] # rank[w]
<1> DEFINE n == Cardinality(T)
           Below(v) == {w \in T : <<w, v>> \in R}
<1>1. n \in Nat
  BY FS_CardinalityType
<1>2. ASSUME NEW v \in T
      PROVE  /\ Below(v) \subseteq T \ {v}
             /\ \A w \in T : <<w, v>> \in R => Below(w) \cup {w} \subseteq Below(v)
             /\ rank[v] = Cardinality(Below(v))
  OBVIOUS
<1> HIDE DEF Below
<1>3. ASSUME NEW v \in T
      PROVE  IsFiniteSet(Below(v)) /\ v \notin Below(v) /\ rank[v] \in 0 .. n - 1
  <2>1. IsFiniteSet(T \ {v}) /\ Cardinality(T \ {v}) = n - 1
    BY FS_RemoveElement
  <2>2. IsFiniteSet(Below(v)) /\ Cardinality(Below(v)) <= Cardinality(T \ {v})
    BY <1>2, <2>1, FS_Subset
  <2>3. Cardinality(Below(v)) \in Nat
    BY <2>2, FS_CardinalityType
  <2> HIDE DEF n
  <2>4. QED
    BY <1>1, <1>2, <2>1, <2>2, <2>3
<1>4. ASSUME NEW v \in T, NEW w \in T, <<v, w>> \in R
      PROVE  rank[v] < rank[w]
  <2>1. Cardinality(Below(v) \cup {v}) = Cardinality(Below(v)) + 1
    BY <1>3, FS_AddElement
  <2>2. Cardinality(Below(v) \cup {v}) <= Cardinality(Below(w))
    <3>1. Below(v) \cup {v} \in SUBSET Below(w)
      BY <1>2, <1>4
    <3>2. QED
      BY <1>3, <3>1, FS_Subset
  <2>3. rank[v] = Cardinality(Below(v)) /\ rank[w] = Cardinality(Below(w))
    BY <1>2
  <2>4. rank[v] \in 0 .. n - 1 /\ rank[w] \in 0 .. n - 1
    BY <1>3
  <2> HIDE DEF n
  <2>5. QED
    BY <1>1, <2>1, <2>2, <2>3, <2>4
<1>5. ASSUME NEW v \in T, NEW w \in T, v # w
      PROVE  rank[v] # rank[w] /\ (<<v, w>> \in R <=> rank[v] < rank[w])
  <2>1. <<v, w>> \in R => rank[v] < rank[w]
    BY <1>4
  <2>2. <<w, v>> \in R => rank[w] < rank[v]
    BY <1>4
  <2>3. <<v, w>> \in R \/ <<w, v>> \in R
    BY <1>5
  <2>4. rank[v] \in Int /\ rank[w] \in Int
    BY <1>1, <1>3
  <2>5. QED
    BY <2>1, <2>2, <2>3, <2>4
<1>6. ASSUME NEW v \in T
      PROVE  <<v, v>> \in R <=> rank[v] < rank[v]
  BY <1>1, <1>3
<1>7. \A v, w \in T : <<v, w>> \in R <=> rank[v] < rank[w]
  BY <1>5, <1>6
<1>8. QED
  BY <1>1, <1>3, <1>5, <1>7

\* As many elements are ranked from a to b - 1 as there are ranks.
LEMMA RankSlice ==
    ASSUME NEW T, NEW n \in Nat, NEW rank \in Bijection(T, 0 .. n - 1),
           NEW a \in Nat, NEW b \in Nat, a <= b, b <= n
    PROVE  Cardinality({v \in T : a <= rank[v] /\ rank[v] < b}) = b - a
<1> DEFINE U == {v \in T : a <= rank[v] /\ rank[v] < b}
           V == a .. b - 1
           f == [i \in V |-> CHOOSE v \in U : rank[v] = i]
<1>1. /\ rank \in [T -> 0 .. n - 1]
      /\ \A v, w \in T : rank[v] = rank[w] => v = w
      /\ \A i \in 0 .. n - 1 : \E v \in T : rank[v] = i
  BY DEF Bijection, Injection, Surjection, IsInjective
<1>2. IsFiniteSet(V) /\ Cardinality(V) = b - a
  <2>1. a \in Int /\ b - 1 \in Int /\ (IF a > b - 1 THEN 0 ELSE b - 1 - a + 1) = b - a
    OBVIOUS
  <2>2. QED
    BY <2>1, FS_Interval
<1>3. ASSUME NEW i \in V PROVE f[i] \in U /\ rank[f[i]] = i
  <2>1. i \in 0 .. n - 1 /\ a <= i /\ i < b
    OBVIOUS
  <2>2. \E v \in U : rank[v] = i
    BY <1>1, <2>1
  <2>3. QED
    BY <2>2
<1>4. \A v \in U : rank[v] \in V /\ f[rank[v]] = v
  <2>1. \A v \in U : rank[v] \in V
    BY <1>1
  <2>2. QED
    BY <1>1, <1>3, <2>1
<1>5. f \in Bijection(V, U)
  <2>1. f \in [V -> U]
    BY <1>3
  <2>2. \A i, j \in V : f[i] = f[j] => i = j
    BY <1>3
  <2> HIDE DEF f, V, U
  <2>3. f \in Injection(V, U)
    BY <2>1, <2>2, Zenon DEF Injection, IsInjective
  <2>4. f \in Surjection(V, U)
    BY <1>4, <2>1, Zenon DEF Surjection
  <2>5. QED
    BY <2>3, <2>4 DEF Bijection
<1> HIDE DEF f, V
<1>6. Cardinality(U) = Cardinality(V)
  BY <1>2, <1>5, FS_Bijection DEF ExistsBijection
<1>7. QED
  BY <1>2, <1>6

\* A finite set under a strict total order has a sorted listing, and any sorted listing holds
\* each element once.
LEMMA SortedListing ==
    ASSUME NEW T, IsFiniteSet(T), NEW R,
           \A v, w \in T : v # w => (<<v, w>> \in R \/ <<w, v>> \in R),
           \A v \in T : <<v, v>> \notin R,
           \A u, v, w \in T : <<u, v>> \in R /\ <<v, w>> \in R => <<u, w>> \in R
    PROVE  /\ \E s \in [1 .. Cardinality(T) -> T] :
                \A i, j \in DOMAIN s : i < j => <<s[i], s[j]>> \in R
           /\ \A s \in [1 .. Cardinality(T) -> T] :
                (\A i, j \in DOMAIN s : i < j => <<s[i], s[j]>> \in R) =>
                   /\ s \in Seq(T) /\ Len(s) = Cardinality(T)
                   /\ \A i, j \in 1 .. Len(s) : i # j => s[i] # s[j]
                   /\ {s[i] : i \in 1 .. Len(s)} = T
<1> DEFINE n == Cardinality(T)
           rank == [v \in T |-> Cardinality({w \in T : <<w, v>> \in R})]
           list0 == [i \in 1 .. n |-> CHOOSE v \in T : rank[v] = i - 1]
<1>1. \A v \in T : rank[v] = Cardinality({w \in T : <<w, v>> \in R})
  OBVIOUS
<1>2. DOMAIN rank = T /\ rank = [v \in T |-> rank[v]]
  OBVIOUS
<1> HIDE DEF rank
<1>3. /\ n \in Nat
      /\ \A v \in T : rank[v] \in 0 .. n - 1
      /\ \A v, w \in T : <<v, w>> \in R <=> rank[v] < rank[w]
      /\ \A v, w \in T : v # w => rank[v] # rank[w]
  BY <1>1, CountRanks
<1> HIDE DEF n
<1>4. rank \in [T -> 0 .. n - 1]
  BY <1>2, <1>3
<1>5. rank \in Bijection(T, 0 .. n - 1)
  BY <1>3, <1>4, RanksFilled DEF n
<1>6. \A i \in 0 .. n - 1 : \E v \in T : rank[v] = i
  BY <1>5 DEF Bijection, Surjection
<1>7. list0 \in [1 .. n -> T] /\ \A i, j \in DOMAIN list0 : i < j => <<list0[i], list0[j]>> \in R
  <2>1. ASSUME NEW i \in 1 .. n PROVE list0[i] \in T /\ rank[list0[i]] = i - 1
    <3>1. i - 1 \in 0 .. n - 1
      BY <1>3
    <3>2. \E v \in T : rank[v] = i - 1
      BY <1>6, <3>1
    <3>3. QED
      BY <3>2
  <2>2. list0 \in [1 .. n -> T] /\ DOMAIN list0 = 1 .. n
    BY <2>1
  <2> HIDE DEF list0
  <2>3. QED
    BY <1>3, <2>1, <2>2
<1>8. ASSUME NEW s \in [1 .. n -> T], \A i, j \in DOMAIN s : i < j => <<s[i], s[j]>> \in R
      PROVE  /\ s \in Seq(T) /\ Len(s) = n
             /\ \A i, j \in 1 .. Len(s) : i # j => s[i] # s[j]
             /\ {s[i] : i \in 1 .. Len(s)} = T
  <2>1. s \in Seq(T) /\ Len(s) = n
    BY <1>3
  <2>2. \A i, j \in 1 .. n : i # j => s[i] # s[j]
    <3> SUFFICES ASSUME NEW i \in 1 .. n, NEW j \in 1 .. n, i < j PROVE s[i] # s[j]
      BY <1>3
    <3>1. <<s[i], s[j]>> \in R
      BY <1>8
    <3>2. QED
      BY <3>1
  <2>3. s \in Injection(1 .. n, T)
    BY <2>2, Zenon DEF Injection, IsInjective
  <2>4. Cardinality(1 .. n) = Cardinality(T)
    <3>1. Cardinality(1 .. n) = n
      <4>1. 1 \in Int /\ n \in Int /\ (IF 1 > n THEN 0 ELSE n - 1 + 1) = n
        BY <1>3
      <4>2. QED
        BY <4>1, FS_Interval
    <3>2. QED
      BY <3>1 DEF n
  <2>5. s \in Surjection(1 .. n, T)
    BY <2>3, <2>4, FS_Injection
  <2>6. {s[i] : i \in 1 .. n} = T
    BY <2>5 DEF Surjection
  <2>7. QED
    BY <2>1, <2>2, <2>6
<1>9. QED
  BY <1>7, <1>8 DEF n

-------------------------------------------------------------------------------
(* The list of venues *)

\* s lists each element of T once and nothing else.
ListsAll(s, T) ==
    /\ s \in Seq(T) /\ Len(s) = Cardinality(T)
    /\ \A i, j \in 1 .. Len(s) : i # j => s[i] # s[j]
    /\ {s[i] : i \in 1 .. Len(s)} = T

LEMMA SameCardinality ==
    ASSUME NEW T PROVE S!Cardinality(T) = Cardinality(T) /\ C!Cardinality(T) = Cardinality(T)
BY Zenon DEF S!Cardinality, C!Cardinality, Cardinality

LEMMA SitesFinite == ASSUME NEW T \in SUBSET S!Site
                     PROVE  IsFiniteSet(T) /\ Cardinality(T) \in Nat
<1>1. IsFiniteSet(S!Site)
  BY SearchAssumption, FS_Interval DEF S!Site
<1>2. QED
  BY <1>1, FS_Subset, FS_CardinalityType

LEMMA ByDistanceLists ==
    ASSUME NEW T \in SUBSET S!Site
    PROVE  /\ ListsAll(S!ByDistance(T), T)
           /\ \A i, j \in 1 .. Cardinality(T) : i < j => S!ByDistance(T)[i] < S!ByDistance(T)[j]
<1> DEFINE R == {p \in T \X T : p[1] < p[2]}
<1>1. T \subseteq Int
  BY SearchAssumption DEF S!Site
<1>2. \A v, w \in T : <<v, w>> \in R <=> v < w
  OBVIOUS
<1> HIDE DEF R
<1>3. /\ \A v, w \in T : v # w => (<<v, w>> \in R \/ <<w, v>> \in R)
      /\ \A v \in T : <<v, v>> \notin R
      /\ \A u, v, w \in T : <<u, v>> \in R /\ <<v, w>> \in R => <<u, w>> \in R
  BY <1>1, <1>2
<1>4. IsFiniteSet(T) /\ Cardinality(T) \in Nat
  BY SitesFinite
<1> DEFINE Sorted(s) == \A i, j \in DOMAIN s : i < j => s[i] < s[j]
<1>5. ASSUME NEW s \in [1 .. Cardinality(T) -> T]
      PROVE  Sorted(s) <=> \A i, j \in DOMAIN s : i < j => <<s[i], s[j]>> \in R
  BY <1>2
<1>6. /\ \E s \in [1 .. Cardinality(T) -> T] :
           \A i, j \in DOMAIN s : i < j => <<s[i], s[j]>> \in R
      /\ \A s \in [1 .. Cardinality(T) -> T] :
           (\A i, j \in DOMAIN s : i < j => <<s[i], s[j]>> \in R) => ListsAll(s, T)
  BY <1>3, <1>4, SortedListing DEF ListsAll
<1>7. S!ByDistance(T) = CHOOSE s \in [1 .. Cardinality(T) -> T] : Sorted(s)
  <2>1. S!Cardinality(T) = Cardinality(T)
    BY SameCardinality
  <2>2. QED
    BY <2>1 DEF S!ByDistance
<1> HIDE DEF Sorted
<1>8. ListsAll(S!ByDistance(T), T) /\ S!ByDistance(T) \in [1 .. Cardinality(T) -> T] /\ Sorted(S!ByDistance(T))
  BY <1>5, <1>6, <1>7
<1>9. QED
  BY <1>8 DEF Sorted

LEMMA RankedLists ==
    ASSUME NEW T \in SUBSET S!Site, score \in [S!Site -> Nat]
    PROVE  /\ ListsAll(S!Ranked(T), T)
           /\ \A i, j \in 1 .. Cardinality(T) : i < j => S!Before(S!Ranked(T)[i], S!Ranked(T)[j])
<1> DEFINE R == {p \in T \X T : S!Before(p[1], p[2])}
<1>1. T \subseteq Int /\ \A v \in T : score[v] \in Nat
  BY SearchAssumption DEF S!Site
<1>2. \A v, w \in T : <<v, w>> \in R <=> S!Before(v, w)
  OBVIOUS
<1> HIDE DEF R
<1>3. /\ \A v, w \in T : v # w => (<<v, w>> \in R \/ <<w, v>> \in R)
      /\ \A v \in T : <<v, v>> \notin R
      /\ \A u, v, w \in T : <<u, v>> \in R /\ <<v, w>> \in R => <<u, w>> \in R
  BY <1>1, <1>2 DEF S!Before
<1>4. IsFiniteSet(T) /\ Cardinality(T) \in Nat
  BY SitesFinite
<1> DEFINE Sorted(s) == \A i, j \in DOMAIN s : i < j => S!Before(s[i], s[j])
<1>5. ASSUME NEW s \in [1 .. Cardinality(T) -> T]
      PROVE  Sorted(s) <=> \A i, j \in DOMAIN s : i < j => <<s[i], s[j]>> \in R
  BY <1>2
<1>6. /\ \E s \in [1 .. Cardinality(T) -> T] :
           \A i, j \in DOMAIN s : i < j => <<s[i], s[j]>> \in R
      /\ \A s \in [1 .. Cardinality(T) -> T] :
           (\A i, j \in DOMAIN s : i < j => <<s[i], s[j]>> \in R) => ListsAll(s, T)
  BY <1>3, <1>4, SortedListing DEF ListsAll
<1>7. S!Ranked(T) = CHOOSE s \in [1 .. Cardinality(T) -> T] : Sorted(s)
  <2>1. S!Cardinality(T) = Cardinality(T)
    BY SameCardinality
  <2>2. QED
    BY <2>1 DEF S!Ranked
<1> HIDE DEF Sorted
<1>8. ListsAll(S!Ranked(T), T) /\ S!Ranked(T) \in [1 .. Cardinality(T) -> T] /\ Sorted(S!Ranked(T))
  BY <1>5, <1>6, <1>7
<1>9. QED
  BY <1>8 DEF Sorted

\* $geoNear followed by $limit keeps all of a set, or as many venues as it may.
LEMMA NearestEnough ==
    ASSUME NEW T \in SUBSET S!Site, limit \in Nat \ {0}
    PROVE  /\ S!Nearest(T) \in SUBSET T
           /\ S!Nearest(T) = T \/ Cardinality(S!Nearest(T)) >= limit
           /\ \A v \in T, w \in S!Nearest(T) : v < w => v \in S!Nearest(T)
<1> DEFINE n == Cardinality(T)
           R == {p \in T \X T : p[1] < p[2]}
           rank == [v \in T |-> Cardinality({w \in T : <<w, v>> \in R})]
           most == Window * limit
<1>1. T \subseteq Int
  BY SearchAssumption DEF S!Site
<1>2. \A v, w \in T : <<v, w>> \in R <=> v < w
  OBVIOUS
<1>3. /\ \A v, w \in T : v # w => (<<v, w>> \in R \/ <<w, v>> \in R)
      /\ \A v \in T : <<v, v>> \notin R
      /\ \A u, v, w \in T : <<u, v>> \in R /\ <<v, w>> \in R => <<u, w>> \in R
  <2> HIDE DEF R
  <2>1. QED
    BY <1>1, <1>2
<1>4. \A v \in T : rank[v] = Cardinality({w \in T : w < v})
  <2> TAKE v \in T
  <2>1. {w \in T : <<w, v>> \in R} = {w \in T : w < v}
    BY <1>2
  <2>2. rank[v] = Cardinality({w \in T : <<w, v>> \in R})
    OBVIOUS
  <2>3. QED
    BY <2>1, <2>2
<1>5. \A v \in T : rank[v] = Cardinality({w \in T : <<w, v>> \in R})
  OBVIOUS
<1>6. DOMAIN rank = T /\ rank = [v \in T |-> rank[v]]
  OBVIOUS
<1>7. IsFiniteSet(T) /\ n \in Nat
  BY SitesFinite
<1>8. S!Nearest(T) = {v \in T : rank[v] < most}
  BY <1>4, SameCardinality DEF S!Nearest
<1> HIDE DEF R, rank
<1>9. /\ \A v \in T : rank[v] \in 0 .. n - 1
      /\ \A v, w \in T : v < w => rank[v] < rank[w]
      /\ \A v, w \in T : v # w => rank[v] # rank[w]
  BY <1>2, <1>3, <1>5, <1>7, CountRanks
<1> HIDE DEF n
<1>10. rank \in Bijection(T, 0 .. n - 1)
  <2>1. rank \in [T -> 0 .. n - 1]
    BY <1>6, <1>9
  <2>2. QED
    BY <1>7, <1>9, <2>1, RanksFilled DEF n
<1>11. most \in Nat /\ most >= limit
  BY SearchAssumption
<1> HIDE DEF most
<1>12. \A v \in T, w \in S!Nearest(T) : v < w => v \in S!Nearest(T)
  <2> SUFFICES ASSUME NEW v \in T, NEW w \in S!Nearest(T), v < w PROVE v \in S!Nearest(T)
    OBVIOUS
  <2>1. w \in T /\ rank[w] < most
    BY <1>8
  <2>2. rank[v] < rank[w] /\ rank[v] \in Int /\ rank[w] \in Int
    BY <1>2, <1>7, <1>9, <2>1
  <2>3. rank[v] < most
    BY <1>11, <2>1, <2>2
  <2>4. QED
    BY <1>8, <2>3
<1>13. CASE n <= most
  BY <1>7, <1>8, <1>9, <1>11, <1>12, <1>13
<1>14. CASE most < n
  <2>1. Cardinality({v \in T : 0 <= rank[v] /\ rank[v] < most}) = most - 0
    BY <1>7, <1>10, <1>11, <1>14, RankSlice
  <2>2. {v \in T : 0 <= rank[v] /\ rank[v] < most} = {v \in T : rank[v] < most}
    BY <1>9
  <2>3. QED
    BY <1>8, <1>11, <1>12, <2>1, <2>2
<1>15. QED
  BY <1>7, <1>11, <1>13, <1>14

Usable == {v \in S!Site : kind[v] \in {"in", "neither"}}

\* In a list, the venues of the vibe come first, and each after those which deserve it more.
Ordered(s) ==
    \A j \in 1 .. Len(s) :
        /\ \A i \in 1 .. j : kind[s[i]] = "neither" => kind[s[j]] = "neither"
        /\ \A v \in Usable : S!Deserves(v, s[j]) => \E i \in 1 .. j : s[i] = v

\* What the algorithm is given, apart from its types.
Given ==
    /\ km \in [S!Site -> Kms] /\ \A v, w \in S!Site : v <= w => km[v] <= km[w]
    /\ score \in [S!Site -> Nat] /\ limit \in Nat \ {0}

LEMMA ListsJoin ==
    ASSUME NEW T \in SUBSET S!Site, NEW U \in SUBSET S!Site, T \cap U = {},
           NEW s, ListsAll(s, T), NEW t, ListsAll(t, U)
    PROVE  /\ ListsAll(s \o t, T \cup U)
           /\ Len(s) \in Nat /\ Len(t) \in Nat /\ Len(s \o t) = Len(s) + Len(t)
           /\ \A i \in 1 .. Len(s) : (s \o t)[i] = s[i]
           /\ \A i \in 1 .. Len(t) : (s \o t)[Len(s) + i] = t[i]
<1>1. /\ s \in Seq(T) /\ t \in Seq(U) /\ Len(s) \in Nat /\ Len(t) \in Nat
      /\ \A i \in 1 .. Len(s) : s[i] \in T
      /\ \A i \in 1 .. Len(t) : t[i] \in U
  BY DEF ListsAll
<1>2. /\ s \o t \in Seq(T \cup U) /\ Len(s \o t) = Len(s) + Len(t)
      /\ \A i \in 1 .. Len(s) : (s \o t)[i] = s[i]
      /\ \A i \in 1 .. Len(t) : (s \o t)[Len(s) + i] = t[i]
  <2>1. s \in Seq(T \cup U) /\ t \in Seq(T \cup U)
    BY <1>1
  <2>2. QED
    BY <2>1
<1>3. Cardinality(T \cup U) = Len(s) + Len(t)
  <2>1. Cardinality(T) = Len(s) /\ Cardinality(U) = Len(t)
    BY DEF ListsAll
  <2>2. Cardinality(T \cap U) = 0
    BY FS_EmptySet
  <2>3. Cardinality(T \cup U) = Cardinality(T) + Cardinality(U) - Cardinality(T \cap U)
    BY SitesFinite, FS_Union
  <2>4. QED
    BY <1>1, <2>1, <2>2, <2>3
<1> DEFINE r == s \o t
<1>4. /\ \A i \in 1 .. Len(s) : r[i] = s[i] /\ r[i] \in T
      /\ \A i \in 1 .. Len(r) : i > Len(s) =>
           i - Len(s) \in 1 .. Len(t) /\ r[i] = t[i - Len(s)] /\ r[i] \in U
  <2>1. ASSUME NEW i \in 1 .. Len(r), i > Len(s)
        PROVE  i - Len(s) \in 1 .. Len(t) /\ r[i] = t[i - Len(s)]
    <3>1. i - Len(s) \in 1 .. Len(t) /\ Len(s) + (i - Len(s)) = i
      BY <1>1, <1>2, <2>1
    <3>2. QED
      BY <1>2, <3>1
  <2>2. QED
    BY <1>1, <1>2, <2>1
<1>5. \A i, j \in 1 .. Len(r) : i # j => r[i] # r[j]
  <2> HIDE DEF r
  <2> SUFFICES ASSUME NEW i \in 1 .. Len(r), NEW j \in 1 .. Len(r), i < j PROVE r[i] # r[j]
    BY <1>1, <1>2 DEF r
  <2>1. Len(r) = Len(s) + Len(t)
    BY <1>2 DEF r
  <2>2. CASE j <= Len(s)
    BY <1>1, <1>4, <2>1, <2>2 DEF ListsAll
  <2>3. CASE i <= Len(s) /\ j > Len(s)
    BY <1>1, <1>4, <2>1, <2>3
  <2>4. CASE i > Len(s)
    BY <1>1, <1>4, <2>1, <2>4 DEF ListsAll
  <2>5. QED
    BY <1>1, <2>1, <2>2, <2>3, <2>4
<1>6. {r[i] : i \in 1 .. Len(r)} = T \cup U
  <2>1. ASSUME NEW i \in 1 .. Len(r) PROVE r[i] \in T \cup U
    <3> HIDE DEF r
    <3>1. QED
      BY <1>1, <1>4
  <2>2. ASSUME NEW v \in T PROVE \E i \in 1 .. Len(r) : r[i] = v
    <3>1. PICK i \in 1 .. Len(s) : s[i] = v
      BY DEF ListsAll
    <3>2. i \in 1 .. Len(r) /\ r[i] = v
      BY <1>1, <1>2, <3>1
    <3>3. QED
      BY <3>2
  <2>3. ASSUME NEW v \in U PROVE \E i \in 1 .. Len(r) : r[i] = v
    <3>1. PICK i \in 1 .. Len(t) : t[i] = v
      BY DEF ListsAll
    <3>2. Len(s) + i \in 1 .. Len(r) /\ r[Len(s) + i] = v
      BY <1>1, <1>2, <3>1
    <3>3. QED
      BY <3>2
  <2> HIDE DEF r
  <2>4. QED
    BY <2>1, <2>2, <2>3
<1>7. ListsAll(r, T \cup U)
  BY <1>2, <1>3, <1>5, <1>6 DEF ListsAll
<1>8. QED
  BY <1>1, <1>2, <1>7

LEMMA ListsPrefix ==
    ASSUME NEW T \in SUBSET S!Site, NEW s, ListsAll(s, T),
           NEW m \in Nat, m <= Len(s)
    PROVE  /\ \E U \in SUBSET T : ListsAll(SubSeq(s, 1, m), U) /\ Cardinality(U) = m
           /\ \A i \in 1 .. m : SubSeq(s, 1, m)[i] = s[i]
<1> DEFINE r == SubSeq(s, 1, m)
           U == {s[i] : i \in 1 .. m}
<1>1. s \in Seq(T) /\ Len(s) \in Nat
  BY DEF ListsAll
<1>2. /\ Len(r) = m /\ \A i \in 1 .. m : r[i] = s[i] /\ s[i] \in T
      /\ r \in Seq(T)
  BY <1>1
<1>3. \A i, j \in 1 .. m : i # j => r[i] # r[j]
  <2>1. \A i \in 1 .. m : i \in 1 .. Len(s)
    BY <1>1
  <2> HIDE DEF r
  <2>2. QED
    BY <1>2, <2>1 DEF ListsAll
<1> HIDE DEF r
<1>4. U \in SUBSET T /\ {r[i] : i \in 1 .. m} = U
  BY <1>2
<1> HIDE DEF U
<1>5. r \in [1 .. m -> U]
  BY <1>2, <1>4
<1>6. r \in Bijection(1 .. m, U)
  <2>1. r \in Injection(1 .. m, U)
    BY <1>3, <1>5, Zenon DEF Injection, IsInjective
  <2>2. r \in Surjection(1 .. m, U)
    BY <1>4, <1>5 DEF Surjection
  <2>3. QED
    BY <2>1, <2>2 DEF Bijection
<1>7. IsFiniteSet(1 .. m) /\ Cardinality(1 .. m) = m
  <2>1. 1 \in Int /\ m \in Int /\ (IF 1 > m THEN 0 ELSE m - 1 + 1) = m
    OBVIOUS
  <2>2. QED
    BY <2>1, FS_Interval
<1>8. Cardinality(U) = m
  BY <1>6, <1>7, FS_Bijection DEF ExistsBijection
<1>9. r \in Seq(U)
  BY <1>2, <1>5
<1>10. ListsAll(r, U)
  BY <1>2, <1>3, <1>4, <1>8, <1>9 DEF ListsAll
<1>11. QED
  BY <1>2, <1>4, <1>8, <1>10 DEF r

\* A set of numbers has a least one.
LEMMA LeastNat ==
    ASSUME NEW T \in SUBSET Nat, T # {}
    PROVE  \E k \in T : \A j \in T : k <= j
<1> DEFINE R == {p \in Nat \X Nat : p[1] < p[2]}
<1>1. R = OpToRel(<, Nat)
  BY DEF OpToRel
<1>2. IsWellFoundedOn(R, Nat)
  BY <1>1, NatLessThanWellFounded
<1>3. \A x, y \in Nat : <<x, y>> \in R <=> x < y
  OBVIOUS
<1> HIDE DEF R
<1>4. PICK k \in T : \A j \in T : ~(<<j, k>> \in R)
  BY <1>2, WFMin
<1>5. k \in Nat /\ \A j \in T : j \in Nat
  OBVIOUS
<1>6. ASSUME NEW j \in T PROVE k <= j
  <2>1. ~(j < k)
    BY <1>3, <1>4, <1>5
  <2>2. QED
    BY <1>5, <2>1
<1>7. QED
  BY <1>6

\* A list sorted by distance, of all the venues of one kind that are as near as one of them.
LEMMA ByDistanceOrdered ==
    ASSUME NEW T \in SUBSET Usable, NEW k, \A v \in T : kind[v] = k,
           NEW s, ListsAll(s, T), \A i, j \in 1 .. Cardinality(T) : i < j => s[i] < s[j]
    PROVE  /\ \A j \in 1 .. Len(s) : kind[s[j]] = k /\ s[j] \in T
           /\ \A j \in 1 .. Len(s), v \in T : v < s[j] => \E i \in 1 .. j : s[i] = v
<1>1. /\ s \in Seq(T) /\ Len(s) = Cardinality(T) /\ Len(s) \in Nat
      /\ \A j \in 1 .. Len(s) : s[j] \in T
  BY DEF ListsAll
<1>2. T \subseteq Int
  BY SearchAssumption DEF Usable, S!Site
<1>3. ASSUME NEW j \in 1 .. Len(s), NEW v \in T, v < s[j]
      PROVE  \E i \in 1 .. j : s[i] = v
  <2>1. PICK i \in 1 .. Len(s) : s[i] = v
    BY DEF ListsAll
  <2>2. s[j] \in Int /\ v \in Int
    BY <1>1, <1>2
  <2>3. i # j /\ ~(j < i)
    BY <1>1, <1>3, <2>1, <2>2
  <2>4. i \in 1 .. j
    BY <1>1, <2>3
  <2>5. QED
    BY <2>1, <2>4
<1>4. QED
  BY <1>1, <1>3

\* What is found is of the vibe and in order; if there is too little, it is all of the vibe.
LEMMA FoundLists ==
    ASSUME Given
    PROVE  \E F \in SUBSET {v \in S!Site : kind[v] = "in"} :
              /\ ListsAll(S!Found, F)
              /\ Cardinality(F) >= limit \/ F = {v \in S!Site : kind[v] = "in"}
              /\ \A j \in 1 .. Len(S!Found), v \in S!Site :
                   kind[v] = "in" /\ S!Deserves(v, S!Found[j]) => \E i \in 1 .. j : S!Found[i] = v
<1> DEFINE in == {v \in S!Site : kind[v] = "in"}
           enough == {k \in Radii : S!Cardinality(S!Within(k)) >= limit}
           first == CHOOSE k \in enough : \A j \in enough : k <= j
<1>0. in \in SUBSET S!Site /\ in \in SUBSET Usable /\ S!Site \subseteq Int
  BY SearchAssumption DEF Usable, S!Site
<1>1. CASE enough = {}
  <2>1. S!Found = S!ByDistance(in)
    BY <1>1 DEF S!Found
  <2> DEFINE s == S!ByDistance(in)
  <2>2. ListsAll(s, in) /\ \A i, j \in 1 .. Cardinality(in) : i < j => s[i] < s[j]
    BY <1>0, ByDistanceLists
  <2>3. \A v \in in : kind[v] = "in"
    OBVIOUS
  <2> HIDE DEF in, s
  <2>4. \A j \in 1 .. Len(s), v \in in : v < s[j] => \E i \in 1 .. j : s[i] = v
    BY <1>0, <2>2, <2>3, ByDistanceOrdered
  <2>5. \A j \in 1 .. Len(s), v \in S!Site :
          kind[v] = "in" /\ S!Deserves(v, s[j]) => \E i \in 1 .. j : s[i] = v
    BY <2>4 DEF S!Deserves, in
  <2>6. QED
    BY <2>1, <2>2, <2>5 DEF s, in
<1>2. CASE enough # {}
  <2>1. S!Found = S!Ranked(S!Nearest(S!Within(first)))
    BY <1>2 DEF S!Found
  <2>2. first \in enough
    <3>1. enough \in SUBSET Nat
      BY SearchAssumption
    <3> HIDE DEF enough
    <3>2. \E k \in enough : \A j \in enough : k <= j
      BY <1>2, <3>1, LeastNat
    <3>3. QED
      BY <3>2
  <2> HIDE DEF first
  <2>3. first \in Nat /\ Cardinality(S!Within(first)) >= limit
    BY <2>2, SearchAssumption, SameCardinality
  <2> DEFINE W == S!Within(first)
             N == S!Nearest(W)
             s == S!Ranked(N)
  <2>4. W \in SUBSET S!Site /\ W \in SUBSET in /\ limit \in Nat \ {0}
    BY DEF S!Within, Given
  <2>5. /\ N \in SUBSET W /\ (N = W \/ Cardinality(N) >= limit)
        /\ \A v \in W, w \in N : v < w => v \in N
    BY <2>4, NearestEnough
  <2>6. Cardinality(N) >= limit
    BY <2>3, <2>5
  <2>7. N \in SUBSET S!Site /\ N \in SUBSET in
    BY <2>4, <2>5
  <2>8. ListsAll(s, N) /\ \A i, j \in 1 .. Cardinality(N) : i < j => S!Before(s[i], s[j])
    BY <2>7, RankedLists DEF Given
  <2>9. \A v \in S!Site : v \in W <=> kind[v] = "in" /\ km[v] <= first
    BY DEF S!Within
  <2> HIDE DEF W, N, s
  <2>10. ASSUME NEW j \in 1 .. Len(s), NEW v \in S!Site, kind[v] = "in", S!Deserves(v, s[j])
         PROVE  \E i \in 1 .. j : s[i] = v
    <3> DEFINE w == s[j]
    <3>1. /\ w \in N /\ w \in S!Site /\ Len(s) \in Nat /\ Len(s) = Cardinality(N)
          /\ v < w /\ score[v] > score[w]
      <4>1. s \in Seq(N) /\ w \in N
        BY <2>8 DEF ListsAll
      <4>2. QED
        BY <2>7, <2>8, <2>10, <4>1 DEF ListsAll, S!Deserves
    <3>2. v \in Int /\ w \in Int /\ score[v] \in Int /\ score[w] \in Int
      <4>1. \A x \in S!Site : x \in Int /\ score[x] \in Nat
        BY <1>0 DEF Given
      <4> HIDE DEF w
      <4>2. QED
        BY <3>1, <4>1
    <3>3. v \in W
      <4>1. km[v] <= km[w] /\ km[v] \in Nat /\ km[w] \in Nat
        <5>1. v <= w
          BY <3>1, <3>2
        <5>2. QED
          BY <3>1, <5>1, SearchAssumption DEF Given
      <4>2. km[w] <= first
        BY <2>5, <2>9, <3>1
      <4>3. QED
        BY <2>3, <2>9, <2>10, <4>1, <4>2
    <3>4. v \in N
      BY <2>5, <3>1, <3>3
    <3>5. PICK i \in 1 .. Len(s) : s[i] = v
      BY <2>8, <3>4 DEF ListsAll
    <3>6. ~S!Before(w, v) /\ i # j
      BY <3>1, <3>2, <3>5 DEF S!Before
    <3>7. ~(j < i)
      BY <2>8, <3>1, <3>5, <3>6
    <3>8. i \in 1 .. j
      BY <3>1, <3>6, <3>7
    <3>9. QED
      BY <3>5, <3>8
  <2>11. S!Found = s
    BY <2>1 DEF s, N, W
  <2>12. QED
    BY <2>6, <2>7, <2>8, <2>10, <2>11
<1>3. QED
  BY <1>1, <1>2

\* What is found and what completes it: enough usable venues, or all of them, in order.
LEMMA CompletedLists ==
    ASSUME Given
    PROVE  \E T \in SUBSET Usable :
              /\ ListsAll(S!Completed, T)
              /\ T = Usable \/ Cardinality(T) >= limit
              /\ Ordered(S!Completed)
<1> DEFINE in == {v \in S!Site : kind[v] = "in"}
           s == S!Found
<1>1. PICK F \in SUBSET in :
        /\ ListsAll(s, F)
        /\ Cardinality(F) >= limit \/ F = in
        /\ \A j \in 1 .. Len(s), v \in S!Site :
             kind[v] = "in" /\ S!Deserves(v, s[j]) => \E i \in 1 .. j : s[i] = v
  BY FoundLists
<1>2. /\ Usable \in SUBSET S!Site /\ F \in SUBSET S!Site /\ F \in SUBSET Usable
      /\ limit \in Nat \ {0} /\ \A v \in F : kind[v] = "in"
  BY DEF Usable, Given
<1> HIDE DEF s
<1>3. /\ S!ToSet(s) = F /\ Len(s) = Cardinality(F) /\ Cardinality(F) \in Nat
      /\ \A j \in 1 .. Len(s) : s[j] \in F /\ kind[s[j]] = "in"
  <2>1. s \in Seq(F)
    BY <1>1 DEF ListsAll
  <2>2. DOMAIN s = 1 .. Len(s)
    BY <2>1
  <2>3. \A j \in 1 .. Len(s) : s[j] \in F
    BY <2>1
  <2> HIDE DEF in
  <2>4. QED
    BY <1>1, <1>2, <2>2, <2>3, SitesFinite DEF ListsAll, S!ToSet
<1>4. ASSUME NEW j \in 1 .. Len(s), NEW v \in Usable, S!Deserves(v, s[j])
      PROVE  \E i \in 1 .. j : s[i] = v
  <2>1. kind[s[j]] = "in"
    BY <1>3
  <2>2. kind[v] = "in"
    BY <1>4, <2>1 DEF S!Deserves
  <2>3. QED
    BY <1>1, <1>2, <1>4, <2>2
<1>5. CASE Len(s) >= limit
  <2>1. S!Completed = s
    BY <1>5 DEF S!Completed, s
  <2>2. \A j \in 1 .. Len(s) : \A i \in 1 .. j : kind[s[i]] # "neither"
    BY <1>3
  <2>3. Ordered(s)
    BY <1>4, <2>2 DEF Ordered
  <2>4. QED
    BY <1>1, <1>2, <1>3, <1>5, <2>1, <2>3
<1>6. CASE ~(Len(s) >= limit)
  <2> DEFINE G == S!Nearest(Usable)
             t == S!ByDistance(S!Fillers)
             r == s \o t
  <2>1. S!Fillers = G \ F
    BY <1>3 DEF S!Fillers, Usable, s
  <2>2. /\ G \in SUBSET Usable /\ (G = Usable \/ Cardinality(G) >= limit)
        /\ \A v \in Usable, w \in G : v < w => v \in G
    BY <1>2, NearestEnough
  <2>3. F = in
    BY <1>1, <1>2, <1>3, <1>6
  <2> HIDE DEF G
  <2>4. /\ S!Fillers \in SUBSET S!Site /\ S!Fillers \in SUBSET Usable
        /\ F \cap S!Fillers = {} /\ F \cup S!Fillers = F \cup G
    BY <1>2, <2>1, <2>2
  <2>5. \A v \in S!Fillers : kind[v] = "neither"
    BY <2>3, <2>4 DEF Usable
  <2>6. S!Completed = r
    BY <1>6 DEF S!Completed, s
  <2>7. /\ ListsAll(t, S!Fillers)
        /\ \A i, j \in 1 .. Cardinality(S!Fillers) : i < j => t[i] < t[j]
    BY <2>4, ByDistanceLists
  <2> HIDE DEF t
  <2>8. /\ ListsAll(r, F \cup S!Fillers)
        /\ Len(s) \in Nat /\ Len(t) \in Nat /\ Len(r) = Len(s) + Len(t)
        /\ \A i \in 1 .. Len(s) : r[i] = s[i]
        /\ \A i \in 1 .. Len(t) : r[Len(s) + i] = t[i]
    <3> DEFINE U == S!Fillers
    <3>1. F \in SUBSET S!Site /\ U \in SUBSET S!Site /\ F \cap U = {} /\ ListsAll(s, F) /\ ListsAll(t, U)
      BY <1>1, <1>2, <2>4, <2>7
    <3> HIDE DEF U
    <3>2. ListsAll(s \o t, F \cup U)
      BY <3>1, ListsJoin
    <3>3. Len(s) \in Nat /\ Len(t) \in Nat /\ Len(s \o t) = Len(s) + Len(t)
      BY <3>1, ListsJoin
    <3>4. \A i \in 1 .. Len(s) : (s \o t)[i] = s[i]
      BY <3>1, ListsJoin
    <3>5. \A i \in 1 .. Len(t) : (s \o t)[Len(s) + i] = t[i]
      BY <3>1, ListsJoin
    <3>6. QED
      BY <3>2, <3>3, <3>4, <3>5 DEF U, r
  <2>9. /\ \A j \in 1 .. Len(t) : kind[t[j]] = "neither" /\ t[j] \in S!Fillers
        /\ \A j \in 1 .. Len(t), v \in S!Fillers : v < t[j] => \E i \in 1 .. j : t[i] = v
    BY <2>4, <2>5, <2>7, ByDistanceOrdered
  <2> HIDE DEF r
  <2>10. ASSUME NEW j \in 1 .. Len(r)
         PROVE  /\ \A i \in 1 .. j : kind[r[i]] = "neither" => kind[r[j]] = "neither"
                /\ \A v \in Usable : S!Deserves(v, r[j]) => \E i \in 1 .. j : r[i] = v
    <3>1. CASE j <= Len(s)
      <4>1. j \in 1 .. Len(s) /\ \A i \in 1 .. j : i \in 1 .. Len(s) /\ r[i] = s[i]
        BY <2>8, <3>1
      <4>2. QED
        BY <1>3, <1>4, <4>1
    <3>2. CASE j > Len(s)
      <4> DEFINE k == j - Len(s)
      <4>1. k \in 1 .. Len(t) /\ Len(s) + k = j
        BY <2>8, <3>2
      <4>2. r[j] = t[k] /\ t[k] \in G /\ kind[r[j]] = "neither"
        BY <2>1, <2>8, <2>9, <4>1
      <4>3. ASSUME NEW v \in Usable, S!Deserves(v, t[k])
            PROVE  \E i \in 1 .. j : r[i] = v
        <5>1. CASE kind[v] = "in"
          <6>1. v \in F
            BY <1>2, <2>3, <5>1
          <6>2. PICK i \in 1 .. Len(s) : s[i] = v
            BY <1>1, <6>1 DEF ListsAll
          <6>3. i \in 1 .. j /\ r[i] = v
            BY <2>8, <3>2, <6>2
          <6>4. QED
            BY <6>3
        <5>2. CASE kind[v] # "in"
          <6>1. v < t[k]
            BY <4>3 DEF S!Deserves
          <6>2. v \in S!Fillers
            BY <2>1, <2>2, <2>3, <4>2, <5>2, <6>1
          <6> HIDE DEF k
          <6>3. PICK i \in 1 .. k : t[i] = v
            BY <2>9, <4>1, <6>1, <6>2
          <6>4. Len(s) + i \in 1 .. j /\ i \in 1 .. Len(t)
            BY <2>8, <4>1
          <6>5. QED
            BY <2>8, <6>3, <6>4
        <5>3. QED
          BY <5>1, <5>2
      <4>4. QED
        BY <4>2, <4>3
    <3>3. QED
      BY <2>8, <3>1, <3>2
  <2>11. F \cup G \in SUBSET Usable
    BY <1>2, <2>2
  <2>12. F \cup G = Usable \/ Cardinality(F \cup G) >= limit
    <3>1. G = Usable => F \cup G = Usable
      BY <2>11
    <3>2. Cardinality(G) <= Cardinality(F \cup G)
      <4>1. F \cup G \in SUBSET S!Site
        BY <1>2, <2>11
      <4>2. IsFiniteSet(F \cup G)
        BY <4>1, SitesFinite
      <4>3. G \in SUBSET (F \cup G)
        OBVIOUS
      <4>4. QED
        BY <4>2, <4>3, FS_Subset
    <3>3. Cardinality(G) \in Nat /\ Cardinality(F \cup G) \in Nat
      BY <1>2, <2>2, <2>11, SitesFinite
    <3>4. Cardinality(G) >= limit => Cardinality(F \cup G) >= limit
      BY <1>2, <3>2, <3>3
    <3>5. QED
      BY <2>2, <3>1, <3>4
  <2>13. Ordered(r)
    BY <2>10 DEF Ordered
  <2>14. QED
    BY <2>4, <2>6, <2>8, <2>11, <2>12, <2>13
<1>7. QED
  BY <1>5, <1>6

\* Cut to the limit, they are still enough, or all, and in order.
LEMMA CutLists ==
    ASSUME Given
    PROVE  \E T \in SUBSET Usable :
              /\ ListsAll(S!Cut(S!Completed), T)
              /\ Len(S!Cut(S!Completed)) <= limit
              /\ T = Usable \/ Cardinality(T) >= limit
              /\ Ordered(S!Cut(S!Completed))
<1> DEFINE s == S!Completed
           r == SubSeq(s, 1, limit)
<1>1. PICK T \in SUBSET Usable : /\ ListsAll(s, T)
                                 /\ T = Usable \/ Cardinality(T) >= limit
                                 /\ Ordered(s)
  BY CompletedLists
<1>2. T \in SUBSET S!Site
  BY DEF Usable
<1>3. Len(s) \in Nat
  <2>1. s \in Seq(T)
    BY <1>1 DEF ListsAll
  <2>2. QED
    BY <2>1
<1>4. S!Cut(s) = IF Len(s) <= limit THEN s ELSE r
  BY DEF S!Cut
<1> HIDE DEF s
<1>5. CASE Len(s) <= limit
  BY <1>1, <1>4, <1>5 DEF s
<1>6. CASE ~(Len(s) <= limit)
  <2>1. limit \in Nat /\ limit <= Len(s)
    BY <1>3, <1>6 DEF Given
  <2>2. /\ \E U \in SUBSET T : ListsAll(r, U) /\ Cardinality(U) = limit
        /\ \A i \in 1 .. limit : r[i] = s[i]
    BY <1>1, <1>2, <2>1, ListsPrefix
  <2> HIDE DEF r
  <2>3. PICK U \in SUBSET T : ListsAll(r, U) /\ Cardinality(U) = limit
    BY <2>2
  <2>4. Len(r) = limit
    BY <2>3 DEF ListsAll
  <2>5. U \in SUBSET Usable /\ Cardinality(U) >= limit /\ limit <= limit
    BY <2>1, <2>3
  <2>6. Ordered(r)
    <3>1. ASSUME NEW j \in 1 .. limit
          PROVE  j \in 1 .. Len(s) /\ \A i \in 1 .. j : r[i] = s[i]
      BY <1>3, <2>1, <2>2
    <3>2. QED
      BY <1>1, <2>4, <3>1 DEF Ordered
  <2>7. QED
    BY <1>4, <1>6, <2>3, <2>4, <2>5, <2>6 DEF s
<1>7. QED
  BY <1>5, <1>6

\* What getLocations answers.
LEMMA AnswerSound ==
    ASSUME S!TypeOK, Given, S!GetLocations
    PROVE  S!TypeOK' /\ S!ListSound'
<1>1. /\ score \in [S!Site -> Nat] /\ limit \in Nat \ {0} /\ sponsor \in S!Site \cup {0}
  BY SearchAssumption DEF S!TypeOK
<1> DEFINE r == S!Cut(S!Completed)
<1>2. PICK T \in SUBSET Usable : /\ ListsAll(r, T) /\ Len(r) <= limit
                                 /\ T = Usable \/ Cardinality(T) >= limit
                                 /\ Ordered(r)
  BY CutLists
<1>3. T \in SUBSET S!Site /\ Usable \in SUBSET S!Site
  BY DEF Usable
<1>4. list' = S!Sponsored(r) /\ listed' = TRUE
  BY DEF S!GetLocations
<1>5. UNCHANGED <<km, kind, score, sponsor, limit>>
  BY DEF S!GetLocations
<1> HIDE DEF r
<1>6. /\ r \in Seq(T) /\ Len(r) \in Nat
      /\ DOMAIN r = 1 .. Len(r) /\ S!ToSet(r) = T
  <2>1. r \in Seq(T)
    BY <1>2 DEF ListsAll
  <2>2. DOMAIN r = 1 .. Len(r) /\ Len(r) \in Nat
    BY <2>1
  <2>3. QED
    BY <1>2, <2>1, <2>2 DEF ListsAll, S!ToSet
<1>7. \/ list' = r
      \/ list' = Append(r, sponsor) /\ sponsor \in S!Site /\ sponsor \notin T
  BY <1>1, <1>4, <1>6 DEF S!Sponsored
<1>8. /\ list' \in Seq(S!Site) /\ DOMAIN list' = 1 .. Len(list')
      /\ \A i, j \in 1 .. Len(list') : i # j => list'[i] # list'[j]
      /\ \A i \in 1 .. Len(list') : list'[i] \in T \/ (list'[i] = sponsor /\ i = Len(list'))
      /\ Len(list') = Len(r) \/ (Len(list') = Len(r) + 1 /\ list'[Len(list')] = sponsor)
      /\ T \subseteq {list'[i] : i \in 1 .. Len(list')}
      /\ \A i \in 1 .. Len(r) : i \in 1 .. Len(list') /\ list'[i] = r[i]
      /\ \A j \in 1 .. Len(list') : list'[j] # sponsor => j \in 1 .. Len(r)
  <2>1. r \in Seq(S!Site) /\ \A i \in 1 .. Len(r) : r[i] \in T
    BY <1>3, <1>6
  <2>2. CASE list' = r
    BY <1>2, <1>6, <2>1, <2>2 DEF ListsAll
  <2>3. CASE list' = Append(r, sponsor) /\ sponsor \in S!Site /\ sponsor \notin T
    <3> DEFINE l == Append(r, sponsor)
    <3>1. /\ l \in Seq(S!Site) /\ DOMAIN l = 1 .. Len(l) /\ Len(l) = Len(r) + 1
          /\ \A i \in 1 .. Len(r) : l[i] = r[i] /\ i \in 1 .. Len(l)
          /\ l[Len(l)] = sponsor
          /\ \A i \in 1 .. Len(l) : i \in 1 .. Len(r) \/ i = Len(l)
      BY <1>6, <2>1, <2>3
    <3> HIDE DEF l
    <3>2. \A i, j \in 1 .. Len(l) : i # j => l[i] # l[j]
      <4> SUFFICES ASSUME NEW i \in 1 .. Len(l), NEW j \in 1 .. Len(l), i # j PROVE l[i] # l[j]
        OBVIOUS
      <4>1. CASE i \in 1 .. Len(r) /\ j \in 1 .. Len(r)
        BY <1>2, <3>1, <4>1 DEF ListsAll
      <4>2. CASE i = Len(l) \/ j = Len(l)
        <5>1. (i \in 1 .. Len(r) /\ j = Len(l)) \/ (j \in 1 .. Len(r) /\ i = Len(l))
          BY <3>1, <4>2
        <5>2. QED
          BY <2>1, <2>3, <3>1, <5>1
      <4>3. QED
        BY <3>1, <4>1, <4>2
    <3>3. T \subseteq {l[i] : i \in 1 .. Len(l)}
      <4> SUFFICES ASSUME NEW v \in T PROVE \E i \in 1 .. Len(l) : l[i] = v
        OBVIOUS
      <4>1. PICK i \in 1 .. Len(r) : r[i] = v
        BY <1>2 DEF ListsAll
      <4>2. QED
        BY <3>1, <4>1
    <3>4. list' = l
      BY <2>3 DEF l
    <3>5. QED
      BY <2>1, <3>1, <3>2, <3>3, <3>4
  <2>4. QED
    BY <1>7, <2>2, <2>3
<1>9. S!TypeOK'
  BY <1>4, <1>5, <1>8 DEF S!TypeOK, S!Site
<1> DEFINE all == {list'[i] : i \in 1 .. Len(list')}
           own == {v \in all : kind[v] \in {"in", "neither"}}
<1>10. S!ToSet(list)' = all
  BY <1>8 DEF S!ToSet
<1>11. Cardinality(own) >= limit \/ own = Usable
  <2>1. T \in SUBSET own /\ own \in SUBSET Usable
    <3>1. \A i \in 1 .. Len(list') : list'[i] \in S!Site
      <4>1. list' \in Seq(S!Site)
        BY <1>8
      <4> HIDE DEF all, own
      <4>2. QED
        BY <4>1
    <3>2. T \subseteq all
      BY <1>8
    <3>3. all \subseteq S!Site
      BY <3>1
    <3> HIDE DEF all
    <3>4. QED
      BY <3>2, <3>3 DEF Usable
  <2> HIDE DEF own
  <2>2. own \in SUBSET S!Site
    BY <1>3, <2>1
  <2>3. Cardinality(T) <= Cardinality(own) /\ Cardinality(T) \in Nat /\ Cardinality(own) \in Nat
    BY <1>3, <2>1, <2>2, SitesFinite, FS_Subset
  <2>4. T = Usable => own = Usable
    BY <2>1
  <2>5. Cardinality(T) >= limit => Cardinality(own) >= limit
    BY <1>1, <2>3
  <2>6. QED
    BY <1>2, <2>4, <2>5
<1>12. S!ListSound'
  <2>1. S!Cardinality(own) = Cardinality(own)
    BY SameCardinality
  <2>2. S!IsInjective(list)'
    BY <1>8 DEF S!IsInjective
  <2>3. \A i \in 1 .. Len(list') : list'[i] \in Usable \/ (list'[i] = sponsor /\ i = Len(list'))
    BY <1>8
  <2>4. Len(list') <= limit \/ (Len(list') = limit + 1 /\ list'[limit + 1] = sponsor)
    <3>1. limit \in Nat /\ Len(r) \in Nat /\ Len(r) <= limit
      BY <1>1, <1>2, <1>6
    <3>2. CASE Len(list') = Len(r)
      BY <3>1, <3>2
    <3>3. CASE Len(list') = Len(r) + 1 /\ list'[Len(list')] = sponsor
      <4>1. Len(r) + 1 <= limit \/ Len(r) + 1 = limit + 1
        BY <3>1
      <4>2. QED
        BY <3>3, <4>1
    <3>4. QED
      BY <1>8, <3>2, <3>3
  <2>5. {v \in S!ToSet(list)' : kind'[v] \in {"in", "neither"}} = own
    BY <1>5, <1>10
  <2>6. {v \in S!Site : kind'[v] \in {"in", "neither"}} = Usable
    BY <1>5 DEF Usable
  <2> HIDE DEF own, all
  <2>7. ASSUME NEW j \in 1 .. Len(list'), list'[j] # sponsor
        PROVE  /\ \A i \in 1 .. j : kind[list'[i]] = "neither" => kind[list'[j]] = "neither"
               /\ \A v \in Usable : S!Deserves(v, list'[j]) => \E i \in 1 .. j : list'[i] = v
    <3>1. j \in 1 .. Len(r)
      BY <1>8, <2>7
    <3>2. \A i \in 1 .. j : i \in 1 .. Len(r)
      BY <1>6, <3>1
    <3>3. \A i \in 1 .. j : list'[i] = r[i]
      BY <1>8, <3>2
    <3>4. list'[j] = r[j]
      BY <1>8, <3>1
    <3>5. QED
      BY <1>2, <3>1, <3>3, <3>4 DEF Ordered
  <2>8. \A v, w : S!Deserves(v, w)' <=> S!Deserves(v, w)
    BY <1>5 DEF S!Deserves
  <2>9. QED
    BY <1>5, <1>11, <2>1, <2>2, <2>3, <2>4, <2>5, <2>6, <2>7, <2>8 DEF S!ListSound, S!Site
<1>13. QED
  BY <1>9, <1>12

-------------------------------------------------------------------------------
(* The stars of a city *)

\* The popularity ranks the active venues, and a tertile is as wide as the next to one.
LEMMA TertilesEven ==
    ASSUME NEW n \in Nat
    PROVE  LET t1 == (1 * n + 2) \div 3
               t2 == (2 * n + 2) \div 3
           IN  /\ t1 \in Nat /\ t2 \in Nat /\ t1 <= t2 /\ t2 <= n
               /\ t1 - 0 <= (t2 - t1) + 1 /\ t2 - t1 <= (t1 - 0) + 1
               /\ t1 - 0 <= (n - t2) + 1 /\ n - t2 <= (t1 - 0) + 1
               /\ t2 - t1 <= (n - t2) + 1 /\ n - t2 <= (t2 - t1) + 1
BY Z3

LEMMA IndexRanks ==
    ASSUME C!TypeOK
    PROVE  LET n == Cardinality(C!Active)
           IN  /\ n \in Nat
               /\ [v \in C!Active |-> C!Index(v)] \in Bijection(C!Active, 0 .. n - 1)
               /\ \A v \in C!Active : C!Index(v) \in 0 .. n - 1
               /\ \A v, w \in C!Active : visitors[v] < visitors[w] => C!Index(v) < C!Index(w)
<1> DEFINE T == C!Active
           R == {p \in T \X T : \/ visitors[p[1]] < visitors[p[2]]
                                \/ visitors[p[1]] = visitors[p[2]] /\ p[1] < p[2]}
           rank == [v \in T |-> C!Index(v)]
<1>1. T \subseteq C!Site /\ T \subseteq Int /\ \A v \in T : visitors[v] \in Int
  BY SearchAssumption DEF C!Active, C!Site, C!TypeOK
<1>2. IsFiniteSet(T) /\ Cardinality(T) \in Nat
  <2>1. IsFiniteSet(C!Site)
    BY SearchAssumption, FS_Interval DEF C!Site
  <2>2. QED
    BY <1>1, <2>1, FS_Subset, FS_CardinalityType
<1>3. \A v, w \in T : <<v, w>> \in R <=> \/ visitors[v] < visitors[w]
                                         \/ visitors[v] = visitors[w] /\ v < w
  OBVIOUS
<1>4. ASSUME NEW v \in T
      PROVE  C!Index(v) = Cardinality({w \in T : <<w, v>> \in R})
  <2>1. {w \in T : <<w, v>> \in R}
          = {w \in T : visitors[w] < visitors[v] \/ (visitors[w] = visitors[v] /\ w < v)}
    BY <1>3
  <2>2. C!Index(v)
          = C!Cardinality({w \in T : visitors[w] < visitors[v] \/ (visitors[w] = visitors[v] /\ w < v)})
    BY DEF C!Index
  <2> HIDE DEF R, T
  <2>3. QED
    BY <2>1, <2>2, SameCardinality
<1> HIDE DEF R, T
<1>5. /\ \A v, w \in T : v # w => (<<v, w>> \in R \/ <<w, v>> \in R)
      /\ \A v \in T : <<v, v>> \notin R
      /\ \A u, v, w \in T : <<u, v>> \in R /\ <<v, w>> \in R => <<u, w>> \in R
  BY <1>1, <1>3
<1>6. \A v \in T : rank[v] = Cardinality({w \in T : <<w, v>> \in R})
  BY <1>4
<1>7. DOMAIN rank = T /\ rank = [v \in T |-> rank[v]] /\ \A v \in T : rank[v] = C!Index(v)
  OBVIOUS
<1> DEFINE n == Cardinality(T)
<1> HIDE DEF rank
<1>8. /\ \A v \in T : rank[v] \in 0 .. n - 1
      /\ \A v, w \in T : <<v, w>> \in R <=> rank[v] < rank[w]
      /\ \A v, w \in T : v # w => rank[v] # rank[w]
  BY <1>2, <1>5, <1>6, CountRanks
<1>9. rank \in Bijection(T, 0 .. n - 1)
  <2> HIDE DEF n
  <2>1. rank \in [T -> 0 .. n - 1]
    BY <1>7, <1>8
  <2>2. QED
    BY <1>2, <1>8, <2>1, RanksFilled DEF n
<1>10. \A v, w \in T : visitors[v] < visitors[w] => rank[v] < rank[w]
  BY <1>3, <1>8
<1>11. rank = [v \in T |-> C!Index(v)]
  BY DEF rank
<1>12. QED
  BY <1>2, <1>7, <1>8, <1>9, <1>10, <1>11 DEF T

\* What recalculateCityStars writes.
LEMMA StarsSound ==
    ASSUME C!TypeOK, C!RecalculateCityStars
    PROVE  C!TypeOK' /\ C!StarsFair'
<1> DEFINE A == C!Active
           n == Cardinality(A)
           t1 == (1 * n + 2) \div 3
           t2 == (2 * n + 2) \div 3
<1>1. /\ n \in Nat
      /\ [v \in A |-> C!Index(v)] \in Bijection(A, 0 .. n - 1)
      /\ \A v \in A : C!Index(v) \in 0 .. n - 1
      /\ \A v, w \in A : visitors[v] < visitors[w] => C!Index(v) < C!Index(w)
  BY IndexRanks
<1>2. /\ t1 \in Nat /\ t2 \in Nat /\ t1 <= t2 /\ t2 <= n
      /\ t1 - 0 <= (t2 - t1) + 1 /\ t2 - t1 <= (t1 - 0) + 1
      /\ t1 - 0 <= (n - t2) + 1 /\ n - t2 <= (t1 - 0) + 1
      /\ t2 - t1 <= (n - t2) + 1 /\ n - t2 <= (t2 - t1) + 1
  BY <1>1, TertilesEven
<1>3. C!Tertile(1) = t1 /\ C!Tertile(2) = t2
  BY SameCardinality DEF C!Tertile
<1>4. visitors' = visitors /\ stars' = [v \in C!Site |-> C!Stars(v)]
  BY DEF C!RecalculateCityStars
<1>5. /\ A \subseteq C!Site
      /\ \A v \in C!Site : visitors[v] \in Int /\ (v \notin A <=> visitors[v] = 0)
  BY DEF C!Active, C!TypeOK
<1> HIDE DEF A, n, t1, t2
<1>6. ASSUME NEW v \in C!Site
      PROVE  /\ v \notin A => stars'[v] = 0
             /\ v \in A /\ C!Index(v) < t1 => stars'[v] = 1
             /\ v \in A /\ ~(C!Index(v) < t1) /\ C!Index(v) < t2 => stars'[v] = 2
             /\ v \in A /\ ~(C!Index(v) < t1) /\ ~(C!Index(v) < t2) => stars'[v] = 3
  BY <1>3, <1>4 DEF C!Stars, A
<1>7. C!TypeOK'
  <2>1. \A v \in C!Site : stars'[v] \in 0 .. 3
    BY <1>6
  <2>2. stars' = [v \in C!Site |-> stars'[v]]
    BY <1>4
  <2>3. QED
    BY <1>4, <2>1, <2>2 DEF C!TypeOK, C!Site
<1>8. \A v, w \in C!Site : visitors[v] < visitors[w] => stars'[v] <= stars'[w]
  <2> SUFFICES ASSUME NEW v \in C!Site, NEW w \in C!Site, visitors[v] < visitors[w]
               PROVE  stars'[v] <= stars'[w]
    OBVIOUS
  <2>1. stars'[v] \in 0 .. 3 /\ stars'[w] \in 0 .. 3
    BY <1>6
  <2>2. CASE v \notin A
    BY <1>6, <2>1, <2>2
  <2>3. CASE v \in A /\ w \in A
    <3>1. C!Index(v) < C!Index(w) /\ C!Index(v) \in Int /\ C!Index(w) \in Int
      BY <1>1, <2>3
    <3>2. QED
      BY <1>2, <1>6, <2>3, <3>1
  <2>4. CASE v \in A /\ w \notin A
    <3>1. visitors[v] \in Nat /\ visitors[w] = 0
      BY <1>5, <2>4 DEF C!TypeOK
    <3>2. QED
      BY <3>1
  <2>5. QED
    BY <2>2, <2>3, <2>4
<1>9. \A v \in C!Site : stars'[v] = 0 <=> visitors[v] = 0
  BY <1>5, <1>6
<1> DEFINE rank == [v \in A |-> C!Index(v)]
           tertile(k) == {v \in C!Site : stars'[v] = k}
<1>10. \A v \in A : rank[v] = C!Index(v) /\ rank[v] \in 0 .. n - 1
  BY <1>1
<1>11. /\ tertile(1) = {v \in A : 0 <= rank[v] /\ rank[v] < t1}
       /\ tertile(2) = {v \in A : t1 <= rank[v] /\ rank[v] < t2}
       /\ tertile(3) = {v \in A : t2 <= rank[v] /\ rank[v] < n}
  <2> HIDE DEF rank
  <2>1. \A v \in C!Site : /\ stars'[v] = 1 <=> v \in A /\ 0 <= rank[v] /\ rank[v] < t1
                          /\ stars'[v] = 2 <=> v \in A /\ t1 <= rank[v] /\ rank[v] < t2
                          /\ stars'[v] = 3 <=> v \in A /\ t2 <= rank[v] /\ rank[v] < n
    BY <1>1, <1>2, <1>6, <1>10
  <2>2. QED
    BY <1>5, <2>1
<1>12. /\ Cardinality(tertile(1)) = t1 - 0
       /\ Cardinality(tertile(2)) = t2 - t1
       /\ Cardinality(tertile(3)) = n - t2
  <2> HIDE DEF tertile
  <2>1. rank \in Bijection(A, 0 .. n - 1)
    BY <1>1
  <2> HIDE DEF rank
  <2>2. /\ n \in Nat /\ t1 \in Nat /\ t2 \in Nat /\ 0 \in Nat
        /\ t1 <= t2 /\ t2 <= n /\ t1 <= n /\ 0 <= t1 /\ n <= n
    BY <1>1, <1>2
  <2>3. Cardinality({v \in A : 0 <= rank[v] /\ rank[v] < t1}) = t1 - 0
    BY <2>1, <2>2, RankSlice
  <2>4. Cardinality({v \in A : t1 <= rank[v] /\ rank[v] < t2}) = t2 - t1
    BY <2>1, <2>2, RankSlice
  <2>5. Cardinality({v \in A : t2 <= rank[v] /\ rank[v] < n}) = n - t2
    BY <2>1, <2>2, RankSlice
  <2>6. QED
    BY <1>11, <2>3, <2>4, <2>5
<1>13. \A j, k \in 1 .. 3 : Cardinality(tertile(j)) <= Cardinality(tertile(k)) + 1
  <2> SUFFICES ASSUME NEW j \in 1 .. 3, NEW k \in 1 .. 3
               PROVE  Cardinality(tertile(j)) <= Cardinality(tertile(k)) + 1
    OBVIOUS
  <2>1. (j = 1 \/ j = 2 \/ j = 3) /\ (k = 1 \/ k = 2 \/ k = 3)
    OBVIOUS
  <2> HIDE DEF tertile
  <2>2. QED
    BY <1>1, <1>2, <1>12, <2>1
<1>14. C!StarsFair'
  <2>1. \A j, k \in 1 .. 3 : C!Cardinality(tertile(j)) <= C!Cardinality(tertile(k)) + 1
    BY <1>13, SameCardinality
  <2>2. QED
    BY <1>4, <1>8, <1>9, <2>1 DEF C!StarsFair, C!Site
<1>15. QED
  BY <1>7, <1>14

-------------------------------------------------------------------------------
(* The three algorithms *)

\* Each of them keeps its invariant while it runs; the match of a heartbeat keeps its own while
\* another runs, too, since nothing is remembered then.
AlgorithmsInv ==
    /\ MatchInv
    /\ side = "search" => S!TypeOK /\ S!ListSound /\ Given
    /\ side = "stars" => C!TypeOK /\ C!StarsFair

LEMMA AlgorithmsStart == AlgorithmsInit => AlgorithmsInv
<1> SUFFICES ASSUME AlgorithmsInit PROVE AlgorithmsInv
  OBVIOUS
<1>1. MatchInv
  <2>1. MS!Candidate = Candidate
    BY DEF MS!Candidate, Candidate
  <2>2. PinnedMatch \/ MS!Init
    BY DEF AlgorithmsInit
  <2>3. /\ cands \in Seq(MS!Candidate) /\ beats = 0 /\ gpsOnly = TRUE
        /\ old \in Venue \cup {NoVenue} /\ pending \in Venue \cup {NoVenue}
    <3>1. CASE PinnedMatch
      BY <3>1 DEF PinnedMatch
    <3>2. CASE MS!Init
      BY <2>1, <3>2, ListsAssumption DEF MS!Init
    <3>3. QED
      BY <2>2, <3>1, <3>2
  <2>4. QED
    BY <2>3 DEF MatchInv, Held, MS!TypeOK, MS!MaxBeats, MS!Settles, MS!MatchIsNear,
                MS!PendingIsConfirmable
<1>2. ASSUME side = "search" PROVE S!TypeOK /\ S!ListSound /\ Given
  <2>1. S!Init
    BY <1>2 DEF AlgorithmsInit
  <2>2. km \in [S!Site -> Kms] /\ score \in [S!Site -> Scores]
    BY <2>1 DEF S!Init
  <2>3. /\ kind \in [S!Site -> S!Kind] /\ sponsor \in S!Site \cup {0} /\ limit \in Limits
        /\ list = << >> /\ listed = FALSE
    BY <2>1 DEF S!Init
  <2>4. list \in Seq(S!Site)
    BY <2>3
  <2>5. Given
    BY <2>1, <2>2, <2>3, SearchAssumption DEF S!Init, Given
  <2>6. QED
    BY <2>2, <2>3, <2>4, <2>5 DEF S!TypeOK, S!ListSound
<1>3. ASSUME side = "stars" PROVE C!TypeOK /\ C!StarsFair
  BY <1>3 DEF AlgorithmsInit, C!Init, C!TypeOK, C!StarsFair
<1>4. QED
  BY <1>1, <1>2, <1>3 DEF AlgorithmsInv

LEMMA AlgorithmsStep ==
    AlgorithmsInv /\ [AlgorithmsNext]_<<search, city, match, side>>
      => AlgorithmsInv' /\ [MS!Beat]_(MS!vars)
<1> SUFFICES ASSUME AlgorithmsInv, [AlgorithmsNext]_<<search, city, match, side>>
             PROVE  AlgorithmsInv' /\ [MS!Beat]_(MS!vars)
  OBVIOUS
<1>1. side' = side
  BY DEF AlgorithmsNext
<1>2. [MS!Beat]_(MS!vars)
  BY DEF AlgorithmsNext, match, MS!vars
<1>3. MatchInv'
  BY <1>2, MatchStep DEF AlgorithmsInv
<1>4. ASSUME side = "search" PROVE (S!TypeOK /\ S!ListSound /\ Given)'
  <2>1. S!TypeOK /\ S!ListSound /\ Given
    BY <1>4 DEF AlgorithmsInv
  <2>2. CASE S!GetLocations
    <3>1. Given'
      BY <2>1, <2>2 DEF S!GetLocations, Given, S!Site
    <3>2. QED
      BY <2>1, <2>2, <3>1, AnswerSound
  <2>3. CASE UNCHANGED search
    <3>1. (S!TypeOK /\ Given)'
      BY <2>1, <2>3 DEF search, S!TypeOK, Given, S!Site, S!Kind
    <3>2. S!ListSound'
      BY <2>1, <2>3 DEF search, S!ListSound, S!Deserves, S!Site
    <3>3. QED
      BY <3>1, <3>2
  <2>4. QED
    BY <1>4, <2>2, <2>3 DEF AlgorithmsNext
<1>5. ASSUME side = "stars" PROVE (C!TypeOK /\ C!StarsFair)'
  <2>1. C!TypeOK /\ C!StarsFair
    BY <1>5 DEF AlgorithmsInv
  <2>2. CASE C!RecalculateCityStars
    BY <2>1, <2>2, StarsSound
  <2>3. CASE UNCHANGED city
    BY <2>1, <2>3 DEF city, C!TypeOK, C!StarsFair
  <2>4. QED
    BY <1>5, <2>2, <2>3 DEF AlgorithmsNext
<1>6. QED
  BY <1>1, <1>2, <1>3, <1>4, <1>5 DEF AlgorithmsInv

LEMMA AlgorithmsInvariant == Algorithms => []AlgorithmsInv
BY AlgorithmsStart, AlgorithmsStep, PTL DEF Algorithms

\* The list of venues, the stars of a city and the match of a heartbeat keep their shape.
THEOREM AlgorithmsTypeCorrect == Algorithms => []AlgorithmsTypeOK
<1>1. AlgorithmsInv => AlgorithmsTypeOK
  BY DEF AlgorithmsInv, AlgorithmsTypeOK, MatchInv, Held
<1>2. QED
  BY <1>1, AlgorithmsInvariant, PTL

\* For any number of venues, any scores and distances and any limit: the list of getLocations
\* (controllers/location.controller.js) has no venue twice and none of the other vibe but the
\* sponsored one at its end, it is as long as was asked for if there are venues enough, and no
\* venue comes in it before one that is of the vibe as well, nearer and better; the stars of recalculateCityStars (services/location.service.js) follow the popularity, in
\* tertiles as even as their number allows.
THEOREM ListsAndStars == Algorithms => []RankedFairly
<1>1. AlgorithmsInv => RankedFairly
  BY DEF AlgorithmsInv, RankedFairly
<1>2. QED
  BY <1>1, AlgorithmsInvariant, PTL

\* Whatever venues a phone that lies still sees, and whatever its user's document remembered:
\* two heartbeats put it in a venue if the nearest is in range, never in a far one, a pending
\* candidate is one the next heartbeat confirms, and what the GPS alone decided stays
\* (updateLocation, services/user.service.js).
THEOREM StillPhoneSettles == Algorithms => MatchSound
<1>1. AlgorithmsInv => MatchInv
  BY DEF AlgorithmsInv
<1>2. MatchInv => MS!Settles /\ MS!MatchIsNear /\ MS!PendingIsConfirmable
  BY DEF MatchInv
<1>3. QED
  BY <1>1, <1>2, AlgorithmsInvariant, AlgorithmsStep, BeatKeeps, PTL
     DEF Algorithms, MatchSound, MS!MatchSound, MS!NoFlapping
==================================================================================
