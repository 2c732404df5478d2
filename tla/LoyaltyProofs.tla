----------------------------- MODULE LoyaltyProofs -----------------------------
(***************************************************************************)
(* What the referral programme and the daily streak promise for any number *)
(* of friends, heartbeats and workers, any target and any length of a day  *)
(* and a month: nobody is counted twice, and nothing is earned for free.   *)
(***************************************************************************)
EXTENDS MCLoyalty, FiniteSetTheorems, TLAPS

-------------------------------------------------------------------------------
(* Referral: the inductive invariant *)

\* Heartbeat h has claimed a referral and not yet counted it.
Flying(h) == h.phase \in {"claimed", "read"}

InFlight == {u \in Friend : \E b \in Beat : Flying(beat[b]) /\ beat[b].user = u}

\* The friends whose referral is validated, and counted for good or never to be.
Counted == {u \in Friend : ref[u].status = "validated"} \ InFlight
CountedIn(m) == {u \in Counted : ref[u].month = m}

\* What a heartbeat has read is at most what is counted; its own friend comes on top.
BeatSound(h) ==
    /\ h.phase \notin {"new", "done"} => h.user \in Friend
    /\ Flying(h) => ref[h.user].status = "validated" /\ ref[h.user].month = h.month
    /\ h.phase = "read" => /\ h.snap.count <= Cardinality(CountedIn(h.snap.month))
                           /\ h.snap.total <= Cardinality(Counted)
    /\ h.phase = "mark" => Cardinality(CountedIn(h.month)) >= Target

\* One heartbeat at most claims a referral.
OneEach ==
    \A b, c \in Beat :
        Flying(beat[b]) /\ Flying(beat[c]) /\ beat[b].user = beat[c].user => b = c

StatsSound ==
    /\ stats.count <= Cardinality(CountedIn(stats.month))
    /\ stats.total <= Cardinality(Counted)
    /\ stats.granted # NoMonth => Cardinality(CountedIn(stats.granted)) >= Target

ReferralInv == TypeOK /\ (\A b \in Beat : BeatSound(beat[b])) /\ OneEach /\ StatsSound

-------------------------------------------------------------------------------
(* Referral: what is counted stays counted *)

USE BoundsAssumption

Grows == Counted \subseteq Counted' /\ \A u \in Counted : ref'[u].month = ref[u].month

LEMMA CardinalityGrows ==
    ASSUME NEW A \in SUBSET Friend, NEW T \in SUBSET Friend, A \subseteq T
    PROVE  /\ Cardinality(A) \in Nat /\ Cardinality(T) \in Nat
           /\ Cardinality(A) <= Cardinality(T)
<1>1. IsFiniteSet(A) /\ IsFiniteSet(T)
  BY FriendAssumption, FS_Subset
<1>2. QED
  BY <1>1, FS_CardinalityType, FS_Subset

LEMMA CountsGrow ==
    ASSUME Grows
    PROVE  /\ Cardinality(Counted) \in Nat /\ Cardinality(Counted') \in Nat
           /\ Cardinality(Counted) <= Cardinality(Counted')
           /\ \A m : /\ Cardinality(CountedIn(m)) \in Nat /\ Cardinality(CountedIn(m)') \in Nat
                     /\ Cardinality(CountedIn(m)) <= Cardinality(CountedIn(m)')
<1>1. Counted \in SUBSET Friend /\ Counted' \in SUBSET Friend /\ Counted \subseteq Counted'
  BY DEF Counted, Grows
<1>2. ASSUME NEW m
      PROVE  /\ CountedIn(m) \in SUBSET Friend /\ CountedIn(m)' \in SUBSET Friend
             /\ CountedIn(m) \subseteq CountedIn(m)'
  BY <1>1 DEF CountedIn, Grows
<1> DEFINE D == Counted'
           E(m) == CountedIn(m)'
<1>3. \A m : E(m) \in SUBSET Friend /\ CountedIn(m) \subseteq E(m) /\ CountedIn(m) \in SUBSET Friend
  BY <1>2
<1>4. D \in SUBSET Friend /\ Counted \subseteq D
  BY <1>1
<1> HIDE DEF D, E
<1>5. /\ Cardinality(Counted) \in Nat /\ Cardinality(D) \in Nat
      /\ Cardinality(Counted) <= Cardinality(D)
  BY <1>1, <1>4, CardinalityGrows
<1>6. ASSUME NEW m
      PROVE  /\ Cardinality(CountedIn(m)) \in Nat /\ Cardinality(E(m)) \in Nat
             /\ Cardinality(CountedIn(m)) <= Cardinality(E(m))
  BY <1>3, CardinalityGrows
<1>7. QED
  BY <1>5, <1>6 DEF D, E

\* One friend more is counted.
LEMMA CountsAnother ==
    ASSUME Grows, NEW u \in Counted', u \notin Counted,
           NEW m, ref'[u].month = m
    PROVE  /\ Cardinality(Counted) + 1 <= Cardinality(Counted')
           /\ Cardinality(CountedIn(m)) + 1 <= Cardinality(CountedIn(m)')
           /\ 1 <= Cardinality(CountedIn(m)')
<1>1. ASSUME NEW A \in SUBSET Friend, NEW T \in SUBSET Friend, A \subseteq T, u \in T, u \notin A
      PROVE  /\ Cardinality(A) \in Nat /\ Cardinality(T) \in Nat
             /\ Cardinality(A) + 1 <= Cardinality(T)
  <2>1. u \in Friend /\ A \cup {u} \in SUBSET Friend /\ A \cup {u} \subseteq T
    BY <1>1
  <2>2. IsFiniteSet(A)
    BY FriendAssumption, FS_Subset
  <2>3. Cardinality(A \cup {u}) = Cardinality(A) + 1
    BY <1>1, <2>2, FS_AddElement
  <2>4. Cardinality(A) \in Nat
    BY <2>2, FS_CardinalityType
  <2>5. /\ Cardinality(A \cup {u}) <= Cardinality(T) /\ Cardinality(T) \in Nat
    BY <2>1, CardinalityGrows
  <2>6. QED
    BY <2>3, <2>4, <2>5
<1>2. Counted \in SUBSET Friend /\ Counted' \in SUBSET Friend /\ Counted \subseteq Counted'
  BY DEF Counted, Grows
<1> DEFINE D == Counted'
           E == {v \in D : ref'[v].month = m}
           A == {v \in Counted : ref[v].month = m}
<1>3. E \in SUBSET Friend /\ A \in SUBSET Friend /\ A \subseteq E /\ u \in E /\ u \notin A /\ u \in D
  BY <1>2 DEF Grows
<1>4. A = CountedIn(m) /\ E = CountedIn(m)'
  BY DEF CountedIn
<1>5. Cardinality(Counted) + 1 <= Cardinality(D)
  BY <1>1, <1>2, <1>3
<1> HIDE DEF A, E
<1>6. Cardinality(A) \in Nat /\ Cardinality(E) \in Nat /\ Cardinality(A) + 1 <= Cardinality(E)
  BY <1>1, <1>3
<1>7. QED
  BY <1>4, <1>5, <1>6 DEF D

-------------------------------------------------------------------------------
(* Referral: every step keeps the types *)

LEMMA MonthOK == \A t \in Nat : MonthKeyOf(t) \in Nat
BY DEF MonthKeyOf

LEMMA NewBeatOK == NewBeat \in Heartbeat /\ Done \in Heartbeat /\ Done.phase = "done" /\ NoStats \in Stats
BY DEF NewBeat, Done, Heartbeat, Phase, NoStats, Stats, Months, NoMonth, NoTime

LEMMA TypeInit == Init => TypeOK
<1> SUFFICES ASSUME Init PROVE TypeOK
  OBVIOUS
<1>1. [status |-> "none", month |-> NoMonth] \in Doc
  BY DEF Doc, Months, NoMonth
<1>2. [on |-> FALSE, source |-> "none", expires |-> NoTime, banked |-> FALSE] \in Premium
  BY DEF Premium, NoTime
<1>3. NoHook \in Hook
  BY DEF NoHook, Hook
<1>4. QED
  BY <1>1, <1>2, <1>3, NewBeatOK DEF Init, TypeOK

\* One heartbeat moves.
LEMMA BeatTyped ==
    ASSUME TypeOK, NEW b \in Beat, NEW h \in Heartbeat, beat' = [beat EXCEPT ![b] = h]
    PROVE  beat' \in [Beat -> Heartbeat] /\ beat'[b] = h /\ \A c \in Beat \ {b} : beat'[c] = beat[c]
BY DEF TypeOK

\* What a heartbeat's next step makes of it.
LEMMA NextBeat ==
    ASSUME TypeOK, NEW b \in Beat, NEW u,
           (u \in Friend /\ Visit(b, u)) \/ CountVisits(b) \/ Validate(b) \/ Crash(b)
    PROVE  \E h \in Heartbeat : beat' = [beat EXCEPT ![b] = h]
<1> DEFINE g == beat[b]
<1>1. g \in Heartbeat /\ now \in Nat /\ stats \in Stats /\ MonthKeyOf(now) \in Nat
  BY MonthOK DEF TypeOK
<1>2. CASE Ends(b)
  BY <1>2, NewBeatOK DEF Ends
<1>3. CASE u \in Friend /\ Visit(b, u)
  <2>1. [g EXCEPT !.phase = "created", !.user = u] \in Heartbeat
    BY <1>1, <1>3 DEF Heartbeat, Phase
  <2>2. QED
    BY <1>3, <2>1 DEF Visit
<1>4. CASE CountVisits(b) /\ ~Ends(b)
  <2>1. [g EXCEPT !.phase = "first", !.month = MonthKeyOf(now)] \in Heartbeat
    BY <1>1 DEF Heartbeat, Phase, Months
  <2>2. QED
    BY <1>4, <2>1 DEF CountVisits
<1>5. CASE Claim(b) /\ ~Ends(b)
  <2>1. [g EXCEPT !.phase = "claimed"] \in Heartbeat
    BY <1>1 DEF Heartbeat, Phase
  <2>2. QED
    BY <1>5, <2>1 DEF Claim
<1>6. CASE ReadReferrer(b) /\ ~Ends(b)
  <2>1. [g EXCEPT !.phase = "read", !.snap = stats] \in Heartbeat
    BY <1>1 DEF Heartbeat, Phase
  <2>2. QED
    BY <1>6, <2>1 DEF ReadReferrer
<1>7. CASE Bump(b) /\ ~Ends(b)
  <2>1. [g EXCEPT !.phase = "mark"] \in Heartbeat
    BY <1>1 DEF Heartbeat, Phase
  <2>2. QED
    BY <1>7, <2>1 DEF Bump
<1>8. CASE Mark(b)
  <2>1. [g EXCEPT !.phase = "reward", !.at = now] \in Heartbeat
    BY <1>1 DEF Heartbeat, Phase
  <2>2. QED
    BY <1>8, <2>1 DEF Mark
<1>9. CASE ReadPremium(b) /\ ~Ends(b)
  <2>1. [g EXCEPT !.phase = "grant"] \in Heartbeat
    BY <1>1 DEF Heartbeat, Phase
  <2>2. QED
    BY <1>9, <2>1 DEF ReadPremium
<1>10. CASE Grant(b) \/ Crash(b)
  BY <1>2, <1>10 DEF Grant, Crash
<1>11. QED
  BY <1>2, <1>3, <1>4, <1>5, <1>6, <1>7, <1>8, <1>9, <1>10 DEF Validate

LEMMA TypeStep ==
    ASSUME TypeOK, [Next]_vars
    PROVE  TypeOK'
<1> USE DEF TypeOK
<1>1. ASSUME NEW b \in Beat, NEW u,
             (u \in Friend /\ Visit(b, u)) \/ CountVisits(b) \/ Validate(b) \/ Crash(b)
      PROVE  TypeOK'
  <2>1. beat' \in [Beat -> Heartbeat]
    <3>1. PICK h \in Heartbeat : beat' = [beat EXCEPT ![b] = h]
      BY <1>1, NextBeat
    <3>2. QED
      BY <3>1, BeatTyped
  <2>2. beat[b] \in Heartbeat /\ beat[b].month \in Nat /\ beat[b].snap \in Stats /\ beat[b].at \in Nat
    BY DEF Heartbeat, Months
  <2>3. UNCHANGED <<now, banned, hook, cron, paying>>
    BY <1>1 DEF Visit, CountVisits, Validate, Crash, Claim, ReadReferrer, Bump, Mark,
                ReadPremium, Grant
  <2>4. visits' \in [Friend -> Nat]
    BY <1>1 DEF Visit, CountVisits, Validate, Crash, Claim, ReadReferrer, Bump, Mark,
                ReadPremium, Grant
  <2>5. ref' \in [Friend -> Doc]
    <3>1. \A v \in Friend : /\ [ref[v] EXCEPT !.status = "validated", !.month = beat[b].month] \in Doc
                            /\ [ref[v] EXCEPT !.status = "void"] \in Doc
      BY <2>2 DEF Doc, Months
    <3>2. \/ UNCHANGED ref
          \/ ref' = [ref EXCEPT ![beat[b].user] = [ref[beat[b].user] EXCEPT !.status = "validated",
                                                                  !.month = beat[b].month]]
          \/ ref' = [ref EXCEPT ![beat[b].user] = [ref[beat[b].user] EXCEPT !.status = "void"]]
      <4>1. CASE Claim(b)
        BY <4>1 DEF Claim
      <4>2. CASE ReadReferrer(b)
        BY <4>2 DEF ReadReferrer
      <4>3. CASE ~Claim(b) /\ ~ReadReferrer(b)
        BY <1>1, <4>3 DEF Visit, CountVisits, Validate, Crash, Bump, Mark, ReadPremium, Grant
      <4>4. QED
        BY <4>1, <4>2, <4>3
    <3>3. \A v \in Friend : ref'[v] \in Doc
      BY <3>1, <3>2
    <3>4. DOMAIN ref' = Friend /\ ref' = [v \in Friend |-> ref'[v]]
      BY <3>2
    <3>5. QED
      BY <3>3, <3>4
  <2>6. stats' \in Stats
    <3>1. CASE Bump(b)
      <4>1. NextCount(beat[b].snap, beat[b].month) \in Nat /\ beat[b].snap.total + 1 \in Nat
        BY <2>2 DEF NextCount, Stats
      <4>2. QED
        BY <2>2, <3>1, <4>1 DEF Bump, Stats, Months
    <3>2. CASE Mark(b)
      BY <2>2, <3>2 DEF Mark, Stats, Months
    <3>3. CASE ~Bump(b) /\ ~Mark(b)
      BY <1>1, <3>3 DEF Visit, CountVisits, Validate, Crash, Claim, ReadReferrer,
                        ReadPremium, Grant
    <3>4. QED
      BY <3>1, <3>2, <3>3
  <2>7. prem' \in Premium
    <3>1. CASE ReadPremium(b)
      BY <3>1 DEF ReadPremium, Premium
    <3>2. CASE Grant(b)
      <4>1. beat[b].at + RewardLen \in Nat
        BY <2>2
      <4>2. QED
        BY <3>2, <4>1 DEF Grant, Premium
    <3>3. CASE ~ReadPremium(b) /\ ~Grant(b)
      BY <1>1, <3>3 DEF Visit, CountVisits, Validate, Crash, Claim, ReadReferrer, Bump, Mark
    <3>4. QED
      BY <3>1, <3>2, <3>3
  <2>8. QED
    BY <2>1, <2>3, <2>4, <2>5, <2>6, <2>7
<1>2. ASSUME NEW u \in Friend, Redeem(u)
      PROVE  TypeOK'
  <2>1. [ref[u] EXCEPT !.status = "pending"] \in Doc
    BY DEF Doc
  <2>2. QED
    BY <1>2, <2>1 DEF Redeem
<1>3. ASSUME NEW b \in Beat, CountVisits(b) \/ Validate(b) \/ Crash(b)
      PROVE  TypeOK'
  BY <1>1, <1>3
<1>4. CASE Ban \/ Tick
  <2>1. CASE Ban
    BY <2>1 DEF Ban
  <2>2. CASE Tick
    <3>1. now + 1 \in Nat
      OBVIOUS
    <3>2. QED
      BY <2>2, <3>1 DEF Tick
  <2>3. QED
    BY <1>4, <2>1, <2>2
<1>5. ASSUME NEW type \in {"purchase", "expiration"}, HookRead(type)
      PROVE  TypeOK'
  BY <1>5 DEF HookRead, Hook, Premium
<1>6. CASE HookSave
  BY <1>6 DEF HookSave, Hook, NoHook, Premium
<1>7. CASE CronExpire \/ CronApply
  <2>1. CASE CronExpire
    BY <2>1 DEF CronExpire, Premium, NoTime
  <2>2. CASE CronApply
    <3>1. now + RewardLen \in Nat
      OBVIOUS
    <3>2. QED
      BY <2>2, <3>1 DEF CronApply, Premium
  <2>3. QED
    BY <1>7, <2>1, <2>2
<1>8. CASE UNCHANGED vars
  BY <1>8 DEF vars
<1>9. QED
  BY <1>1, <1>2, <1>3, <1>4, <1>5, <1>6, <1>7, <1>8 DEF Next

-------------------------------------------------------------------------------
(* Referral: every step keeps the invariant *)

\* What a heartbeat knows stays true while its friend's referral is left alone.
LEMMA BeatKept ==
    ASSUME Grows, NEW h \in Heartbeat, BeatSound(h), Flying(h) => ref'[h.user] = ref[h.user]
    PROVE  BeatSound(h)'
<1>1. /\ h.snap \in Stats /\ h.snap.count \in Nat /\ h.snap.total \in Nat
  BY DEF Heartbeat, Stats
<1>2. Cardinality(Counted) \in Nat /\ Cardinality(Counted') \in Nat
      /\ Cardinality(Counted) <= Cardinality(Counted')
  BY CountsGrow
<1>3. \A m : /\ Cardinality(CountedIn(m)) \in Nat /\ Cardinality(CountedIn(m)') \in Nat
             /\ Cardinality(CountedIn(m)) <= Cardinality(CountedIn(m)')
  BY CountsGrow
<1>4. Flying(h) => ref'[h.user].status = "validated" /\ ref'[h.user].month = h.month
  BY DEF BeatSound
<1>5. h.phase = "read" =>
        /\ h.snap.count <= Cardinality(CountedIn(h.snap.month)')
        /\ h.snap.total <= Cardinality(Counted')
  BY <1>1, <1>2, <1>3 DEF BeatSound
<1>6. h.phase = "mark" => Cardinality(CountedIn(h.month)') >= Target
  BY <1>3 DEF BeatSound
<1>7. h.phase \notin {"new", "done"} => h.user \in Friend
  BY DEF BeatSound
<1>8. QED
  BY <1>4, <1>5, <1>6, <1>7 DEF BeatSound, Flying

LEMMA StatsKept ==
    ASSUME Grows, stats \in Stats, StatsSound, UNCHANGED stats
    PROVE  StatsSound'
<1>1. stats.count \in Nat /\ stats.total \in Nat
  BY DEF Stats
<1>2. Cardinality(Counted) \in Nat /\ Cardinality(Counted') \in Nat
      /\ Cardinality(Counted) <= Cardinality(Counted')
  BY CountsGrow
<1>3. ASSUME NEW m
      PROVE  /\ Cardinality(CountedIn(m)) \in Nat /\ Cardinality(CountedIn(m)') \in Nat
             /\ Cardinality(CountedIn(m)) <= Cardinality(CountedIn(m)')
  BY CountsGrow
<1>4. PICK s : s = stats
  OBVIOUS
<1>5. /\ s.count <= Cardinality(CountedIn(s.month)')
      /\ s.granted # NoMonth => Cardinality(CountedIn(s.granted)') >= Target
      /\ s.total <= Cardinality(Counted')
  BY <1>1, <1>2, <1>3, <1>4 DEF StatsSound
<1>6. s = stats'
  BY <1>4
<1>7. QED
  BY <1>5, <1>6 DEF StatsSound, CountedIn

\* The heartbeats in B move, if any.
LEMMA InvKept ==
    ASSUME ReferralInv, TypeOK', Grows, NEW B \in SUBSET Beat,
           \A c \in Beat \ B :
             /\ beat'[c] = beat[c]
             /\ Flying(beat[c]) => ref'[beat[c].user] = ref[beat[c].user],
           \A c \in B : BeatSound(beat[c])',
           \A c \in B, d \in Beat :
             Flying(beat[c])' /\ Flying(beat[d])' /\ beat'[c].user = beat'[d].user => c = d,
           StatsSound'
    PROVE  ReferralInv'
<1>1. ASSUME NEW c \in Beat
      PROVE  BeatSound(beat[c])'
  <2>1. CASE c \in B
    BY <2>1
  <2>2. CASE c \notin B
    <3>1. PICK h \in Heartbeat : h = beat[c]
      BY DEF ReferralInv, TypeOK
    <3>2. BeatSound(h)'
      BY <2>2, <3>1, BeatKept DEF ReferralInv
    <3>3. h = beat'[c]
      BY <2>2, <3>1
    <3>4. QED
      BY <3>2, <3>3 DEF BeatSound, Flying, CountedIn
  <2>3. QED
    BY <2>1, <2>2
<1>2. OneEach'
  <2> SUFFICES ASSUME NEW c \in Beat, NEW d \in Beat, Flying(beat[c])', Flying(beat[d])',
                      beat'[c].user = beat'[d].user
               PROVE  c = d
    BY DEF OneEach
  <2>1. CASE c \in B \/ d \in B
    BY <2>1
  <2>2. CASE c \notin B /\ d \notin B
    BY <2>2 DEF ReferralInv, OneEach, Flying
  <2>3. QED
    BY <2>1, <2>2
<1>3. QED
  BY <1>1, <1>2 DEF ReferralInv

\* One heartbeat moves, and the referrals are left alone.
LEMMA BeatMoves ==
    ASSUME ReferralInv, TypeOK', NEW b \in Beat, NEW h \in Heartbeat,
           beat' = [beat EXCEPT ![b] = h], UNCHANGED ref,
           Flying(h) => Flying(beat[b]) /\ h.user = beat[b].user
    PROVE  /\ Grows
           /\ BeatSound(h)' /\ StatsSound' => ReferralInv'
<1>1. beat'[b] = h /\ \A c \in Beat \ {b} : beat'[c] = beat[c]
  BY BeatTyped DEF ReferralInv
<1>2. Grows
  <2>1. InFlight' \subseteq InFlight
    BY <1>1 DEF InFlight, Flying
  <2>2. QED
    BY <2>1 DEF Grows, Counted
<1>3. ASSUME BeatSound(h)', StatsSound'
      PROVE  ReferralInv'
  <2>1. BeatSound(beat[b])'
    <3>1. h = beat'[b] /\ BeatSound(h)'
      BY <1>1, <1>3
    <3>2. QED
      BY <3>1 DEF BeatSound, Flying, CountedIn
  <2>2. ASSUME NEW d \in Beat, Flying(beat[b])', Flying(beat[d])', beat'[b].user = beat'[d].user
        PROVE  b = d
    BY <1>1, <2>2 DEF ReferralInv, OneEach, Flying
  <2> DEFINE B == {b}
  <2>3. B \in SUBSET Beat /\ \A c \in B : c = b
    OBVIOUS
  <2>4. \A c \in B : BeatSound(beat[c])'
    BY <2>1, <2>3
  <2>5. \A c \in B, d \in Beat :
          Flying(beat[c])' /\ Flying(beat[d])' /\ beat'[c].user = beat'[d].user => c = d
    BY <2>2, <2>3
  <2>6. \A c \in Beat \ B :
          /\ beat'[c] = beat[c]
          /\ Flying(beat[c]) => ref'[beat[c].user] = ref[beat[c].user]
    BY <1>1
  <2> HIDE DEF B
  <2>7. QED
    BY <1>2, <1>3, <2>3, <2>4, <2>5, <2>6, InvKept
<1>4. QED
  BY <1>2, <1>3

\* A heartbeat that claims and counts nothing.
LEMMA BeatLands ==
    ASSUME ReferralInv, TypeOK', NEW b \in Beat, NEW h \in Heartbeat,
           beat' = [beat EXCEPT ![b] = h], UNCHANGED <<ref, stats>>,
           ~Flying(h), h.phase # "mark", h.phase \notin {"new", "done"} => h.user \in Friend
    PROVE  ReferralInv'
<1>1. Grows /\ (BeatSound(h)' /\ StatsSound' => ReferralInv')
  BY BeatMoves
<1>2. BeatSound(h)'
  BY DEF BeatSound, Flying
<1>3. StatsSound'
  BY <1>1, StatsKept DEF ReferralInv, TypeOK
<1>4. QED
  BY <1>1, <1>2, <1>3

LEMMA BeatEnds ==
    ASSUME ReferralInv, TypeOK', NEW b \in Beat, Ends(b), UNCHANGED <<ref, stats>>
    PROVE  ReferralInv'
BY NewBeatOK, BeatLands DEF Ends, Flying

LEMMA QuietKept ==
    ASSUME ReferralInv, TypeOK', UNCHANGED <<ref, beat, stats>>
    PROVE  ReferralInv'
<1>1. Grows
  BY DEF Grows, Counted, InFlight
<1>2. StatsSound'
  BY <1>1, StatsKept DEF ReferralInv, TypeOK
<1> DEFINE B == {c \in Beat : FALSE}
<1>3. B \in SUBSET Beat /\ \A c \in B : FALSE
  OBVIOUS
<1> HIDE DEF B
<1>4. QED
  BY <1>1, <1>2, <1>3, InvKept

LEMMA RedeemKept ==
    ASSUME ReferralInv, TypeOK', NEW u \in Friend, Redeem(u)
    PROVE  ReferralInv'
<1>1. /\ ref[u].status = "none" /\ UNCHANGED <<beat, stats>>
      /\ \A v \in Friend \ {u} : ref'[v] = ref[v]
  BY DEF Redeem, ReferralInv, TypeOK
<1>2. Grows
  BY <1>1 DEF Grows, Counted, InFlight
<1>3. StatsSound'
  BY <1>1, <1>2, StatsKept DEF ReferralInv, TypeOK
<1> DEFINE B == {c \in Beat : FALSE}
<1>4. B \in SUBSET Beat /\ \A c \in B : FALSE
  OBVIOUS
<1>5. \A c \in Beat \ B :
        /\ beat'[c] = beat[c]
        /\ Flying(beat[c]) => ref'[beat[c].user] = ref[beat[c].user]
  <2> SUFFICES ASSUME NEW c \in Beat, Flying(beat[c])
               PROVE  ref'[beat[c].user] = ref[beat[c].user]
    BY <1>1
  <2>1. BeatSound(beat[c])
    BY DEF ReferralInv
  <2>2. beat[c].user \in Friend /\ beat[c].user # u
    BY <1>1, <2>1 DEF BeatSound, Flying
  <2>3. QED
    BY <1>1, <2>2
<1> HIDE DEF B
<1>6. QED
  BY <1>2, <1>3, <1>4, <1>5, InvKept

\* The claim of a referral, or its void: the one friend whose referral changes is in flight
\* after it, or was before.
LEMMA OneReferral ==
    ASSUME ReferralInv, TypeOK', NEW b \in Beat, NEW h \in Heartbeat, NEW u \in Friend,
           beat' = [beat EXCEPT ![b] = h], UNCHANGED stats,
           beat[b].user = u, Flying(h) => h.user = u /\ ref[u].status = "pending",
           Flying(beat[b]) \/ ref[u].status = "pending",
           \A v \in Friend \ {u} : ref'[v] = ref[v],
           BeatSound(h)'
    PROVE  ReferralInv'
<1>1. beat'[b] = h /\ \A c \in Beat \ {b} : beat'[c] = beat[c]
  BY BeatTyped DEF ReferralInv
<1>2. \A c \in Beat \ {b} : Flying(beat[c]) => beat[c].user \in Friend \ {u}
  <2> SUFFICES ASSUME NEW c \in Beat \ {b}, Flying(beat[c])
               PROVE  beat[c].user \in Friend \ {u}
    OBVIOUS
  <2>1. BeatSound(beat[c])
    BY DEF ReferralInv
  <2>2. beat[c].user \in Friend /\ ref[beat[c].user].status = "validated"
    BY <2>1 DEF BeatSound, Flying
  <2>3. CASE Flying(beat[b])
    BY <2>2, <2>3 DEF ReferralInv, OneEach
  <2>4. CASE ref[u].status = "pending"
    BY <2>2, <2>4
  <2>5. QED
    BY <2>3, <2>4
<1>3. Grows
  <2>1. u \notin Counted
    BY DEF Counted, InFlight
  <2>2. InFlight' \subseteq InFlight \cup {u}
    BY <1>1 DEF InFlight, Flying
  <2>3. QED
    BY <2>1, <2>2 DEF Grows, Counted
<1>4. StatsSound'
  BY <1>3, StatsKept DEF ReferralInv, TypeOK
<1> DEFINE B == {b}
<1>5. B \in SUBSET Beat /\ \A c \in B : c = b
  OBVIOUS
<1>6. \A c \in B : BeatSound(beat[c])'
  <2>1. h = beat'[b]
    BY <1>1
  <2>2. BeatSound(beat[b])'
    BY <2>1 DEF BeatSound, Flying, CountedIn
  <2>3. QED
    BY <1>5, <2>2
<1>7. \A c \in B, d \in Beat :
        Flying(beat[c])' /\ Flying(beat[d])' /\ beat'[c].user = beat'[d].user => c = d
  <2> SUFFICES ASSUME NEW d \in Beat, Flying(beat[b])', Flying(beat[d])',
                      beat'[b].user = beat'[d].user, d # b
               PROVE  FALSE
    BY <1>5
  <2>1. Flying(h) /\ Flying(beat[d]) /\ beat[d].user = h.user
    BY <1>1 DEF Flying
  <2>2. QED
    BY <1>2, <2>1
<1>8. \A c \in Beat \ B :
        /\ beat'[c] = beat[c]
        /\ Flying(beat[c]) => ref'[beat[c].user] = ref[beat[c].user]
  BY <1>1, <1>2
<1> HIDE DEF B
<1>9. QED
  BY <1>3, <1>4, <1>5, <1>6, <1>7, <1>8, InvKept

LEMMA ClaimKept ==
    ASSUME ReferralInv, TypeOK', NEW b \in Beat, Claim(b)
    PROVE  ReferralInv'
<1> DEFINE u == beat[b].user
<1>1. beat[b] \in Heartbeat /\ BeatSound(beat[b]) /\ beat[b].phase = "first" /\ UNCHANGED stats
  BY DEF Claim, ReferralInv, TypeOK
<1>2. u \in Friend
  BY <1>1 DEF BeatSound
<1>3. CASE Ends(b) /\ ref' = ref
  BY <1>1, <1>3, BeatEnds
<1>4. CASE /\ ref[u].status = "pending"
           /\ ref' = [ref EXCEPT ![u] = [@ EXCEPT !.status = "validated", !.month = beat[b].month]]
           /\ beat' = [beat EXCEPT ![b] = [@ EXCEPT !.phase = "claimed"]]
  <2>0. PICK h : h = [beat[b] EXCEPT !.phase = "claimed"]
    OBVIOUS
  <2>1. /\ h \in Heartbeat /\ h.phase = "claimed" /\ h.user = u /\ h.month = beat[b].month
        /\ beat' = [beat EXCEPT ![b] = h]
    BY <1>1, <1>4, <2>0 DEF Heartbeat, Phase
  <2>2. /\ ref'[u].status = "validated" /\ ref'[u].month = beat[b].month
        /\ \A v \in Friend \ {u} : ref'[v] = ref[v]
    <3>1. ref[u] \in Doc
      BY <1>2 DEF ReferralInv, TypeOK
    <3>2. QED
      BY <1>2, <1>4, <3>1 DEF ReferralInv, TypeOK, Doc
  <2>3. BeatSound(h)'
    BY <1>2, <2>1, <2>2 DEF BeatSound, Flying
  <2>4. QED
    BY <1>1, <1>2, <1>4, <2>1, <2>2, <2>3, OneReferral DEF Flying
<1>5. QED
  BY <1>3, <1>4 DEF Claim

LEMMA ReadReferrerKept ==
    ASSUME ReferralInv, TypeOK', NEW b \in Beat, ReadReferrer(b)
    PROVE  ReferralInv'
<1> DEFINE u == beat[b].user
<1>1. /\ beat[b] \in Heartbeat /\ BeatSound(beat[b]) /\ beat[b].phase = "claimed"
      /\ UNCHANGED stats /\ stats \in Stats
  BY DEF ReadReferrer, ReferralInv, TypeOK
<1>2. u \in Friend /\ Flying(beat[b])
  BY <1>1 DEF BeatSound, Flying
<1>3. CASE ref' = [ref EXCEPT ![u] = [@ EXCEPT !.status = "void"]] /\ Ends(b)
  <2>1. \A v \in Friend \ {u} : ref'[v] = ref[v]
    BY <1>3 DEF ReferralInv, TypeOK
  <2>2. BeatSound(Done)' /\ ~Flying(Done)
    BY NewBeatOK DEF BeatSound, Flying
  <2>3. QED
    BY <1>1, <1>2, <1>3, <2>1, <2>2, NewBeatOK, OneReferral DEF Ends
<1>4. CASE ref' = ref /\ beat' = [beat EXCEPT ![b] = [@ EXCEPT !.phase = "read", !.snap = stats]]
  <2>0. PICK h : h = [beat[b] EXCEPT !.phase = "read", !.snap = stats]
    OBVIOUS
  <2>1. /\ h \in Heartbeat /\ h.phase = "read" /\ h.user = u /\ h.month = beat[b].month
        /\ h.snap = stats /\ beat' = [beat EXCEPT ![b] = h]
    BY <1>1, <1>4, <2>0 DEF Heartbeat, Phase
  <2>2. Grows /\ (BeatSound(h)' /\ StatsSound' => ReferralInv')
    BY <1>2, <1>4, <2>1, BeatMoves
  <2>3. StatsSound'
    BY <1>1, <2>2, StatsKept DEF ReferralInv
  <2>4. h.snap = stats' /\ h.user = beat[b].user /\ h.month = beat[b].month
    BY <1>1, <2>1
  <2>5. BeatSound(h)'
    BY <1>1, <1>2, <1>4, <2>1, <2>3, <2>4 DEF BeatSound, StatsSound, Flying, CountedIn
  <2>6. QED
    BY <2>2, <2>3, <2>5
<1>5. QED
  BY <1>3, <1>4 DEF ReadReferrer

\* The heartbeat's own friend is counted, on top of those counted when it read.
LEMMA BumpKept ==
    ASSUME ReferralInv, TypeOK', NEW b \in Beat, Bump(b)
    PROVE  ReferralInv'
<1>1. PICK g \in Heartbeat : g = beat[b]
  BY DEF ReferralInv, TypeOK
<1> DEFINE s == g.snap
           m == g.month
           u == g.user
           n == NextCount(s, m)
<1>2. /\ BeatSound(g) /\ g.phase = "read" /\ Flying(g) /\ u \in Friend
      /\ ref[u].status = "validated" /\ ref[u].month = m
      /\ s \in Stats /\ s.count \in Nat /\ s.total \in Nat /\ n \in Nat
  BY <1>1 DEF Bump, ReferralInv, BeatSound, Flying, Heartbeat, Stats, NextCount
<1>3. /\ UNCHANGED ref
      /\ stats' = [stats EXCEPT !.month = m, !.count = n, !.total = s.total + 1]
      /\ IF RewardDue(s, m) THEN beat' = [beat EXCEPT ![b] = [g EXCEPT !.phase = "mark"]]
         ELSE Ends(b)
  BY <1>1 DEF Bump
<1>4. PICK h \in Heartbeat :
        /\ beat' = [beat EXCEPT ![b] = h]
        /\ h.phase = "done" \/ (h.phase = "mark" /\ h.user = u /\ h.month = m /\ n >= Target)
  <2>1. CASE RewardDue(s, m)
    <3>1. PICK h : h = [g EXCEPT !.phase = "mark"]
      OBVIOUS
    <3>2. h \in Heartbeat /\ h.phase = "mark" /\ h.user = u /\ h.month = m
      BY <3>1 DEF Heartbeat, Phase
    <3>3. QED
      BY <1>3, <2>1, <3>1, <3>2 DEF RewardDue
  <2>2. CASE ~RewardDue(s, m)
    BY <1>3, <2>2, NewBeatOK DEF Ends
  <2>3. QED
    BY <2>1, <2>2
<1>5. Grows /\ (BeatSound(h)' /\ StatsSound' => ReferralInv')
  BY <1>3, <1>4, BeatMoves DEF Flying
<1>6. u \in Counted' /\ u \notin Counted
  <2>1. u \in InFlight
    BY <1>1, <1>2 DEF InFlight
  <2>2. beat'[b] = h /\ ~Flying(h) /\ \A c \in Beat \ {b} : beat'[c] = beat[c]
    BY <1>4, BeatTyped DEF ReferralInv, Flying
  <2>3. ASSUME NEW c \in Beat, Flying(beat[c])', beat'[c].user = u
        PROVE  FALSE
    <3>1. c # b /\ Flying(beat[c]) /\ beat[c].user = u
      BY <2>2, <2>3 DEF Flying
    <3>2. QED
      BY <1>1, <1>2, <3>1 DEF ReferralInv, OneEach
  <2>4. u \notin InFlight'
    BY <2>3 DEF InFlight
  <2>5. QED
    BY <1>2, <1>3, <2>1, <2>4 DEF Counted
<1>7. /\ Cardinality(Counted) + 1 <= Cardinality(Counted')
      /\ Cardinality(CountedIn(m)) + 1 <= Cardinality(CountedIn(m)')
      /\ 1 <= Cardinality(CountedIn(m)')
  BY <1>2, <1>3, <1>5, <1>6, CountsAnother
<1>8. /\ Cardinality(Counted) \in Nat /\ Cardinality(Counted') \in Nat
      /\ Cardinality(CountedIn(m)) \in Nat /\ Cardinality(CountedIn(m)') \in Nat
  BY <1>5, CountsGrow
<1>9. n <= Cardinality(CountedIn(m)') /\ s.total + 1 <= Cardinality(Counted')
  BY <1>2, <1>7, <1>8 DEF BeatSound, NextCount
<1>10. BeatSound(h)'
  BY <1>2, <1>4, <1>8, <1>9 DEF BeatSound, Flying
<1>11. StatsSound'
  <2>1. /\ stats'.month = m /\ stats'.count = n /\ stats'.total = s.total + 1
        /\ stats'.granted = stats.granted
    BY <1>3 DEF ReferralInv, TypeOK, Stats
  <2>2. PICK k : k = stats.granted
    OBVIOUS
  <2>3. k # NoMonth => Cardinality(CountedIn(k)') >= Target
    <3>1. /\ Cardinality(CountedIn(k)) \in Nat /\ Cardinality(CountedIn(k)') \in Nat
          /\ Cardinality(CountedIn(k)) <= Cardinality(CountedIn(k)')
      BY <1>5, CountsGrow
    <3>2. k # NoMonth => Cardinality(CountedIn(k)) >= Target
      BY <2>2 DEF ReferralInv, StatsSound
    <3>3. QED
      BY <3>1, <3>2
  <2>4. k = stats'.granted
    BY <2>1, <2>2
  <2>5. QED
    BY <1>9, <2>1, <2>3, <2>4 DEF StatsSound, CountedIn
<1>12. QED
  BY <1>5, <1>10, <1>11

LEMMA MarkKept ==
    ASSUME ReferralInv, TypeOK', NEW b \in Beat, Mark(b)
    PROVE  ReferralInv'
<1>1. PICK g \in Heartbeat : g = beat[b]
  BY DEF ReferralInv, TypeOK
<1>2. PICK h : h = [g EXCEPT !.phase = "reward", !.at = now]
  OBVIOUS
<1>3. now \in Nat /\ stats \in Stats /\ g.month \in Nat
  BY DEF ReferralInv, TypeOK, Heartbeat, Months
<1>4. /\ g.phase = "mark" /\ BeatSound(g) /\ UNCHANGED ref
      /\ stats' = [stats EXCEPT !.granted = g.month]
      /\ beat' = [beat EXCEPT ![b] = h]
      /\ h \in Heartbeat /\ h.phase = "reward" /\ h.user = g.user
  BY <1>1, <1>2, <1>3 DEF Mark, ReferralInv, Heartbeat, Phase
<1>5. Grows /\ (BeatSound(h)' /\ StatsSound' => ReferralInv')
  BY <1>4, BeatMoves DEF Flying
<1>6. BeatSound(h)'
  BY <1>4 DEF BeatSound, Flying
<1>7. PICK s \in Stats : s = stats
  BY <1>3
<1>8. /\ s.count <= Cardinality(CountedIn(s.month)') /\ s.total <= Cardinality(Counted')
      /\ Cardinality(CountedIn(g.month)') >= Target
  <2>1. ASSUME NEW m
        PROVE  /\ Cardinality(CountedIn(m)) \in Nat /\ Cardinality(CountedIn(m)') \in Nat
               /\ Cardinality(CountedIn(m)) <= Cardinality(CountedIn(m)')
               /\ Cardinality(Counted) \in Nat /\ Cardinality(Counted') \in Nat
               /\ Cardinality(Counted) <= Cardinality(Counted')
    BY <1>5, CountsGrow
  <2>2. s.count \in Nat /\ s.total \in Nat
    BY DEF Stats
  <2>3. s.count <= Cardinality(CountedIn(s.month)) /\ s.total <= Cardinality(Counted)
    BY <1>7 DEF ReferralInv, StatsSound
  <2>4. Cardinality(CountedIn(g.month)) >= Target
    BY <1>4 DEF BeatSound
  <2>5. QED
    BY <2>1, <2>2, <2>3, <2>4
<1>9. /\ stats'.month = s.month /\ stats'.count = s.count /\ stats'.total = s.total
      /\ stats'.granted = g.month
  BY <1>4, <1>7 DEF Stats
<1>10. StatsSound'
  BY <1>8, <1>9 DEF StatsSound, CountedIn
<1>11. QED
  BY <1>5, <1>6, <1>10

LEMMA HandlerKept ==
    ASSUME ReferralInv, TypeOK', NEW b \in Beat, NEW u,
           (u \in Friend /\ Visit(b, u)) \/ CountVisits(b) \/ Validate(b) \/ Crash(b)
    PROVE  ReferralInv'
<1>1. beat[b] \in Heartbeat /\ BeatSound(beat[b]) /\ now \in Nat /\ MonthKeyOf(now) \in Nat
  BY MonthOK DEF ReferralInv, TypeOK
<1>2. CASE Ends(b) /\ UNCHANGED <<ref, stats>>
  BY <1>2, BeatEnds
<1>3. CASE u \in Friend /\ Visit(b, u)
  <2>1. PICK h : h = [beat[b] EXCEPT !.phase = "created", !.user = u]
    OBVIOUS
  <2>2. h \in Heartbeat /\ h.phase = "created" /\ h.user \in Friend
    BY <1>1, <1>3, <2>1 DEF Heartbeat, Phase
  <2>3. QED
    BY <1>3, <2>1, <2>2, BeatLands DEF Visit, Flying
<1>4. CASE CountVisits(b) /\ ~Ends(b)
  <2>1. PICK h : h = [beat[b] EXCEPT !.phase = "first", !.month = MonthKeyOf(now)]
    OBVIOUS
  <2>2. h \in Heartbeat /\ h.phase = "first" /\ h.user \in Friend
    BY <1>1, <1>4, <2>1 DEF CountVisits, BeatSound, Heartbeat, Phase, Months
  <2>3. QED
    BY <1>4, <2>1, <2>2, BeatLands DEF CountVisits, Flying
<1>5. CASE ReadPremium(b) /\ ~Ends(b)
  <2>1. PICK h : h = [beat[b] EXCEPT !.phase = "grant"]
    OBVIOUS
  <2>2. h \in Heartbeat /\ h.phase = "grant" /\ h.user \in Friend
    BY <1>1, <1>5, <2>1 DEF ReadPremium, BeatSound, Heartbeat, Phase
  <2>3. QED
    BY <1>5, <2>1, <2>2, BeatLands DEF ReadPremium, Flying
<1>6. CASE Ends(b) /\ (CountVisits(b) \/ ReadPremium(b) \/ Grant(b) \/ Crash(b))
  BY <1>2, <1>6 DEF CountVisits, ReadPremium, Grant, Crash
<1>7. CASE Claim(b) \/ ReadReferrer(b) \/ Bump(b) \/ Mark(b)
  BY <1>7, ClaimKept, ReadReferrerKept, BumpKept, MarkKept
<1>8. CASE (Grant(b) \/ Crash(b)) /\ ~Ends(b)
  BY <1>8 DEF Grant, Crash
<1>9. QED
  BY <1>3, <1>4, <1>5, <1>6, <1>7, <1>8 DEF Validate

LEMMA ReferralInit == Init => ReferralInv
<1> SUFFICES ASSUME Init PROVE ReferralInv
  OBVIOUS
<1>1. TypeOK
  BY TypeInit
<1>2. /\ beat = [b \in Beat |-> NewBeat] /\ NewBeat.phase = "new"
      /\ stats.count = 0 /\ stats.total = 0 /\ stats.granted = NoMonth
  BY DEF Init, NewBeat, NoStats
<1>3. \A m : 0 <= Cardinality(CountedIn(m)) /\ 0 <= Cardinality(Counted)
  <2>1. Counted \in SUBSET Friend /\ \A m : CountedIn(m) \in SUBSET Friend
    BY DEF Counted, CountedIn
  <2>2. QED
    BY <2>1, CardinalityGrows
<1>4. QED
  BY <1>1, <1>2, <1>3 DEF ReferralInv, BeatSound, OneEach, StatsSound, Flying

LEMMA ReferralStep == ReferralInv /\ [Next]_vars => ReferralInv'
<1> SUFFICES ASSUME ReferralInv, [Next]_vars PROVE ReferralInv'
  OBVIOUS
<1>1. TypeOK'
  BY TypeStep DEF ReferralInv
<1>2. ASSUME NEW u \in Friend, Redeem(u)
      PROVE  ReferralInv'
  BY <1>1, <1>2, RedeemKept
<1>3. ASSUME NEW b \in Beat, NEW u,
             (u \in Friend /\ Visit(b, u)) \/ CountVisits(b) \/ Validate(b) \/ Crash(b)
      PROVE  ReferralInv'
  BY <1>1, <1>3, HandlerKept
<1>4. ASSUME UNCHANGED <<ref, beat, stats>>
      PROVE  ReferralInv'
  BY <1>1, <1>4, QuietKept
<1>5. CASE Ban \/ HookSave \/ CronExpire \/ CronApply \/ Tick \/ UNCHANGED vars
  BY <1>4, <1>5 DEF Ban, HookSave, CronExpire, CronApply, Tick, vars
<1>6. ASSUME NEW type \in {"purchase", "expiration"}, HookRead(type)
      PROVE  ReferralInv'
  BY <1>4, <1>6 DEF HookRead
<1>7. QED
  BY <1>2, <1>3, <1>5, <1>6 DEF Next

LEMMA ReferralSound == Spec => []ReferralInv
BY ReferralInit, ReferralStep, PTL DEF Spec

\* What the invariant says of the referrer.
LEMMA ReferralKeeps == ReferralInv => TypeOK /\ NeverOvercounted /\ RewardEarned
<1> SUFFICES ASSUME ReferralInv PROVE NeverOvercounted /\ RewardEarned
  BY DEF ReferralInv
<1> DEFINE All == {u \in Friend : ref[u].status = "validated"}
<1>1. stats.count \in Nat /\ stats.total \in Nat
  BY DEF ReferralInv, TypeOK, Stats
<1>2. ASSUME NEW m
      PROVE  /\ Cardinality(CountedIn(m)) \in Nat /\ Cardinality(Validated(m)) \in Nat
             /\ Cardinality(CountedIn(m)) <= Cardinality(Validated(m))
  <2>1. /\ CountedIn(m) \in SUBSET Friend /\ Validated(m) \in SUBSET Friend
        /\ CountedIn(m) \subseteq Validated(m)
    BY DEF CountedIn, Counted, Validated
  <2>2. QED
    BY <2>1, CardinalityGrows
<1>3. Cardinality(Counted) \in Nat /\ Cardinality(All) \in Nat /\ Cardinality(Counted) <= Cardinality(All)
  <2>1. Counted \in SUBSET Friend /\ All \in SUBSET Friend /\ Counted \subseteq All
    BY DEF Counted
  <2>2. QED
    BY <2>1, CardinalityGrows
<1>4. NeverOvercounted
  BY <1>1, <1>2, <1>3 DEF ReferralInv, StatsSound, NeverOvercounted
<1>5. RewardEarned
  BY <1>2 DEF ReferralInv, StatsSound, RewardEarned
<1>6. QED
  BY <1>4, <1>5

-------------------------------------------------------------------------------
(* Streak: the inductive invariant *)

Gap == S!CalendarDayGap(user.login, clock)

\* A report runs within the clock unit it began in, and none that counts a day while the
\* decay has found the user: it then resets the streak, as the decay would.
DaySound ==
    /\ user.login <= clock
    /\ \A w \in Worker : /\ job[w].phase # "idle" => job[w].at = clock
                         /\ job[w].phase \in {"count", "write"} => Gap <= 1
    /\ nightly = "found" => /\ Gap >= 2 \/ (Gap = 0 /\ user.count = 0)
                            /\ \A w \in Worker : job[w].phase \notin {"count", "write"}

StreakInv == S!TypeOK /\ DaySound

\* The days of the current streak that have not been paid with a superlike.
Unpaid == IF user.count >= Half THEN 0 ELSE user.count

\* The only request in progress finds the day it began with, and every reward, pending or
\* delivered, has had its days.
RunSound ==
    /\ S!CountIsRun
    /\ \A w \in Worker : /\ job[w].phase \in {"count", "write"} => Gap = 1
                         /\ job[w].phase = "write" => job[w].next = S!NextDayCount
                         /\ job[w].phase = "reset" => Gap >= 2

EarnedSound ==
    /\ user.boost => user.count = Full
    /\ user.boosts * Full + user.count <= S!Day(user.login)
    /\ user.superlikes * Half + (IF user.supervise THEN Half ELSE 0) + Unpaid <= S!Day(user.login)
    /\ \A w \in Worker :
          /\ job[w].phase = "boost" => (user.boosts + 1) * Full <= S!Day(user.login)
          /\ job[w].phase = "supervise" => (user.superlikes + 1) * Half + Unpaid <= S!Day(user.login)

-------------------------------------------------------------------------------
(* Streak: every step keeps it *)

USE StreakAssumption

LEMMA DayOK ==
    /\ \A t \in Nat : S!Day(t) \in Nat
    /\ \A s, t \in Nat : s <= t => S!Day(s) <= S!Day(t)
BY DEF S!Day

LEMMA DocumentOK ==
    ASSUME NEW d \in S!Document
    PROVE  /\ [d EXCEPT !.count = 0, !.supervise = FALSE, !.boost = FALSE] \in S!Document
           /\ \A t \in Nat : [d EXCEPT !.count = 0, !.login = t, !.supervise = FALSE, !.boost = FALSE]
                              \in S!Document
           /\ [d EXCEPT !.superlikes = @ + 1, !.supervise = FALSE] \in S!Document
           /\ [d EXCEPT !.boosts = @ + 1, !.boost = FALSE, !.count = 0] \in S!Document
<1>1. 0 \in 0 .. Full
  OBVIOUS
<1>2. d.superlikes + 1 \in Nat /\ d.boosts + 1 \in Nat
  BY DEF S!Document
<1>3. QED
  BY <1>1, <1>2 DEF S!Document

LEMMA JobMoves ==
    ASSUME S!TypeOK, NEW w \in Worker, NEW j \in S!Job, job' = [job EXCEPT ![w] = j]
    PROVE  /\ job' \in [Worker -> S!Job] /\ job'[w] = j
           /\ \A v \in Worker \ {w} : job'[v] = job[v]
BY DEF S!TypeOK

LEMMA StreakInit == S!Init => StreakInv /\ RunSound /\ EarnedSound
<1> SUFFICES ASSUME S!Init PROVE StreakInv /\ RunSound /\ EarnedSound
  OBVIOUS
<1>1. /\ user = [count |-> 0, login |-> 0, supervise |-> FALSE, boost |-> FALSE,
                 superlikes |-> 0, boosts |-> 0]
      /\ clock = 0 /\ days = 0 /\ nightly = "idle"
      /\ job = [w \in Worker |-> S!NoJob]
  BY DEF S!Init
<1>2. S!NoJob \in S!Job /\ S!NoJob.phase = "idle"
  BY DEF S!NoJob, S!Job
<1>3. user \in S!Document
  BY <1>1 DEF S!Document
<1>4. StreakInv
  BY <1>1, <1>2, <1>3 DEF StreakInv, S!TypeOK, DaySound
<1>5. S!Day(0) \in Nat
  BY DayOK
<1>6. RunSound
  BY <1>1, <1>2 DEF RunSound, S!CountIsRun, S!AtMost
<1>7. EarnedSound
  BY <1>1, <1>2, <1>5 DEF EarnedSound, Unpaid
<1>8. QED
  BY <1>4, <1>6, <1>7

LEMMA GapOK ==
    ASSUME StreakInv
    PROVE  /\ user \in S!Document /\ clock \in Nat /\ user.login \in Nat /\ user.login <= clock
           /\ S!Day(user.login) \in Nat /\ S!Day(clock) \in Nat
           /\ S!Day(user.login) <= S!Day(clock)
           /\ Gap = S!Day(clock) - S!Day(user.login) /\ Gap \in Nat
BY DayOK DEF StreakInv, DaySound, S!TypeOK, S!Document, Gap, S!CalendarDayGap

\* A request begins, goes on or stops, and writes nothing.
LEMMA JobStep ==
    ASSUME StreakInv, NEW w \in Worker, NEW j \in S!Job, job' = [job EXCEPT ![w] = j],
           UNCHANGED <<clock, user, nightly, days>>,
           j.phase # "idle" => j.at = clock,
           j.phase \in {"count", "write"} => Gap <= 1 /\ nightly # "found"
    PROVE  StreakInv'
<1>1. /\ job' \in [Worker -> S!Job] /\ job'[w] = j
      /\ \A v \in Worker \ {w} : job'[v] = job[v]
  BY JobMoves DEF StreakInv
<1>2. S!TypeOK'
  BY <1>1 DEF StreakInv, S!TypeOK
<1>3. Gap' = Gap
  BY DEF Gap
<1>4. DaySound'
  BY <1>1, <1>3 DEF StreakInv, DaySound
<1>5. QED
  BY <1>2, <1>4 DEF StreakInv

LEMMA JobEarns ==
    ASSUME StreakInv, RunSound, EarnedSound, NEW w \in Worker, NEW j \in S!Job,
           job' = [job EXCEPT ![w] = j], UNCHANGED <<clock, user, nightly, days>>,
           j.phase \in {"count", "write"} => Gap = 1,
           j.phase = "write" => j.next = S!NextDayCount,
           j.phase = "reset" => Gap >= 2,
           j.phase = "boost" => (user.boosts + 1) * Full <= S!Day(user.login),
           j.phase = "supervise" => (user.superlikes + 1) * Half + Unpaid <= S!Day(user.login)
    PROVE  RunSound' /\ EarnedSound'
<1>1. job'[w] = j /\ \A v \in Worker \ {w} : job'[v] = job[v]
  BY JobMoves DEF StreakInv
<1>2. /\ Gap' = Gap /\ Unpaid' = Unpaid /\ S!NextDayCount' = S!NextDayCount
      /\ S!CountIsRun' = S!CountIsRun /\ S!Day(user.login)' = S!Day(user.login)
  BY DEF Gap, Unpaid, S!NextDayCount, S!CountIsRun
<1>3. RunSound'
  BY <1>1, <1>2 DEF RunSound
<1>4. EarnedSound'
  BY <1>1, <1>2 DEF EarnedSound
<1>5. QED
  BY <1>3, <1>4

\* A request writes the user's document, and ends.
LEMMA WriteStep ==
    ASSUME StreakInv, NEW w \in Worker, job[w].phase # "idle",
           S!Ends(w), UNCHANGED <<clock, nightly>>,
           user' \in S!Document, days' \in Nat,
           user'.login \in {user.login, clock},
           nightly = "found" => user'.count = 0 \/ (user'.count = user.count /\ user'.login = user.login)
    PROVE  StreakInv'
<1>1. S!NoJob \in S!Job /\ S!NoJob.phase = "idle"
  BY DEF S!NoJob, S!Job
<1>2. /\ job' \in [Worker -> S!Job] /\ job'[w] = S!NoJob
      /\ \A v \in Worker \ {w} : job'[v] = job[v]
  BY <1>1, JobMoves DEF StreakInv, S!Ends
<1>3. S!TypeOK'
  BY <1>2 DEF StreakInv, S!TypeOK
<1>4. /\ Gap' = Gap \/ (Gap' = 0 /\ user'.login = clock)
      /\ Gap \in Nat
  BY GapOK DEF Gap, S!CalendarDayGap
<1>5. user'.login <= clock' /\ clock \in Nat
  BY GapOK
<1>6. nightly' = "found" => Gap' >= 2 \/ (Gap' = 0 /\ user'.count = 0)
  <2>1. CASE user'.login = user.login
    <3>1. Gap' = Gap
      BY <2>1 DEF Gap
    <3>2. nightly = "found" /\ Gap < 2 => user'.count = 0
      BY <2>1, <1>4, GapOK DEF StreakInv, DaySound
    <3>3. QED
      BY <1>4, <3>1, <3>2 DEF StreakInv, DaySound
  <2>2. CASE user'.login # user.login
    <3>1. Gap' = 0
      BY <2>2, GapOK DEF Gap, S!CalendarDayGap
    <3>2. QED
      BY <2>2, <3>1
  <2>3. QED
    BY <2>1, <2>2
<1>7. DaySound'
  BY <1>1, <1>2, <1>4, <1>5, <1>6 DEF StreakInv, DaySound
<1>8. QED
  BY <1>3, <1>7 DEF StreakInv

LEMMA StreakStep == StreakInv /\ [S!Next]_streak => StreakInv'
<1> SUFFICES ASSUME StreakInv, [S!Next]_streak PROVE StreakInv'
  OBVIOUS
<1>0. S!TypeOK /\ DaySound
  BY DEF StreakInv
<1>1. ASSUME NEW w \in Worker, S!Report(w) PROVE StreakInv'
  <2>1. PICK j : j = [job[w] EXCEPT !.phase = IF Gap = 1 THEN "count" ELSE "reset", !.at = clock]
    OBVIOUS
  <2>2. /\ j \in S!Job /\ j.at = clock
        /\ j.phase = IF Gap = 1 THEN "count" ELSE "reset"
    BY <1>0, <2>1, GapOK DEF S!TypeOK, S!Job
  <2>3. job' = [job EXCEPT ![w] = j] /\ UNCHANGED <<clock, user, nightly, days>>
    BY <1>1, <2>1 DEF S!Report, S!Becomes, Gap
  <2>4. Gap = 1 => nightly # "found"
    BY <1>0 DEF DaySound
  <2>5. /\ j.phase # "idle" => j.at = clock
        /\ j.phase \in {"count", "write"} => Gap <= 1 /\ nightly # "found"
    BY <2>2, <2>4
  <2>6. QED
    BY <2>2, <2>3, <2>5, JobStep
<1>2. ASSUME NEW w \in Worker, S!ReadCount(w) PROVE StreakInv'
  <2>1. PICK j : j = [job[w] EXCEPT !.phase = "write", !.next = S!NextDayCount]
    OBVIOUS
  <2>2. S!NextDayCount \in 0 .. Full
    BY GapOK DEF S!NextDayCount, S!AtMost, S!Document
  <2>3. j \in S!Job /\ j.at = job[w].at /\ j.phase = "write"
    BY <1>0, <2>1, <2>2 DEF S!TypeOK, S!Job
  <2>4. job' = [job EXCEPT ![w] = j] /\ UNCHANGED <<clock, user, nightly, days>>
    BY <1>2, <2>1 DEF S!ReadCount
  <2>5. job[w].at = clock /\ Gap <= 1 /\ nightly # "found"
    BY <1>0, <1>2 DEF DaySound, S!ReadCount
  <2>6. QED
    BY <2>3, <2>4, <2>5, JobStep
<1>3. ASSUME NEW w \in Worker, S!WriteCount(w) PROVE StreakInv'
  <2>1. job[w] \in S!Job /\ job[w].phase = "write" /\ job[w].at = clock /\ nightly # "found"
    BY <1>0, <1>3 DEF S!TypeOK, DaySound, S!WriteCount
  <2>2. user' \in S!Document /\ user'.login = clock
    BY <1>3, <2>1, GapOK DEF S!WriteCount, S!Document, S!Job
  <2>3. S!RunAfter(job[w].at) \in Nat
    BY <1>0 DEF S!TypeOK, S!RunAfter
  <2>4. days' \in Nat /\ S!Ends(w) /\ UNCHANGED <<clock, nightly>>
    BY <1>3, <2>3 DEF S!WriteCount
  <2>5. QED
    BY <2>1, <2>2, <2>4, WriteStep
<1>4. ASSUME NEW w \in Worker, S!Reset(w) PROVE StreakInv'
  <2>1. job[w].phase = "reset" /\ job[w].at = clock
    BY <1>0, <1>4 DEF DaySound, S!Reset
  <2>a. user' = [user EXCEPT !.count = 0, !.login = clock, !.supervise = FALSE, !.boost = FALSE]
    BY <1>4, <2>1 DEF S!Reset
  <2>b. user' \in S!Document
    BY <2>a, GapOK, DocumentOK
  <2>2. user' \in S!Document /\ user'.login = clock /\ user'.count = 0
    BY <2>a, <2>b, GapOK DEF S!Document
  <2>3. S!RunAfter(job[w].at) \in Nat
    BY <1>0 DEF S!TypeOK, S!RunAfter
  <2>4. days' \in Nat /\ S!Ends(w) /\ UNCHANGED <<clock, nightly>>
    BY <1>4, <2>3 DEF S!Reset
  <2>5. QED
    BY <2>1, <2>2, <2>4, WriteStep
<1>5. ASSUME NEW w \in Worker, S!ClaimSupervise(w) PROVE StreakInv'
  <2>a. user' = [user EXCEPT !.superlikes = @ + 1, !.supervise = FALSE]
    BY <1>5 DEF S!ClaimSupervise
  <2>b. user' \in S!Document
    BY <2>a, GapOK, DocumentOK
  <2>c. user'.login = user.login /\ user'.count = user.count
    BY <2>a, GapOK DEF S!Document
  <2>d. days' \in Nat /\ S!Ends(w) /\ UNCHANGED <<clock, nightly>>
    BY <1>0, <1>5 DEF S!ClaimSupervise, S!TypeOK
  <2>1. /\ user' \in S!Document /\ user'.login = user.login /\ user'.count = user.count
        /\ days' \in Nat /\ S!Ends(w) /\ UNCHANGED <<clock, nightly>>
    BY <2>b, <2>c, <2>d
  <2>2. QED
    BY <1>5, <2>1, WriteStep DEF S!ClaimSupervise
<1>6. ASSUME NEW w \in Worker, S!ClaimBoost(w) PROVE StreakInv'
  <2>a. user' = [user EXCEPT !.boosts = @ + 1, !.boost = FALSE, !.count = 0]
    BY <1>6 DEF S!ClaimBoost
  <2>b. user' \in S!Document
    BY <2>a, GapOK, DocumentOK
  <2>c. user'.login = user.login /\ user'.count = 0
    BY <2>a, GapOK DEF S!Document
  <2>d. days' \in Nat /\ S!Ends(w) /\ UNCHANGED <<clock, nightly>>
    BY <1>6 DEF S!ClaimBoost
  <2>1. /\ user' \in S!Document /\ user'.login = user.login /\ user'.count = 0
        /\ days' \in Nat /\ S!Ends(w) /\ UNCHANGED <<clock, nightly>>
    BY <2>b, <2>c, <2>d
  <2>2. QED
    BY <1>6, <2>1, WriteStep DEF S!ClaimBoost
<1>7. ASSUME NEW w \in Worker, S!Crash(w) PROVE StreakInv'
  <2>1. S!NoJob \in S!Job /\ S!NoJob.phase = "idle"
    BY DEF S!NoJob, S!Job
  <2>2. QED
    BY <1>7, <2>1, JobStep DEF S!Crash, S!Ends
<1>8. ASSUME NEW w \in Worker, NEW reward \in {"supervise", "boost"}, S!ClaimRead(w, reward)
      PROVE  StreakInv'
  <2>1. PICK j : j = [job[w] EXCEPT !.phase = reward, !.at = clock]
    OBVIOUS
  <2>2. j \in S!Job /\ j.at = clock /\ j.phase = reward
    BY <1>0, <2>1, GapOK DEF S!TypeOK, S!Job
  <2>3. job' = [job EXCEPT ![w] = j] /\ UNCHANGED <<clock, user, nightly, days>>
    BY <1>8, <2>1 DEF S!ClaimRead, S!Becomes
  <2>4. QED
    BY <2>2, <2>3, JobStep
<1>9. CASE S!DecayFind
  <2>1. Gap >= 2 /\ nightly' = "found" /\ UNCHANGED <<clock, user, job, days>>
    BY <1>9 DEF S!DecayFind, S!Decayable, Gap
  <2>2. Gap' = Gap /\ Gap \in Nat
    BY <2>1, GapOK DEF Gap
  <2>3. S!TypeOK'
    BY <1>0, <2>1 DEF S!TypeOK
  <2>4. DaySound'
    BY <1>0, <2>1, <2>2 DEF DaySound
  <2>5. QED
    BY <2>3, <2>4 DEF StreakInv
<1>10. CASE S!DecayClear
  <2>1. /\ user' = [user EXCEPT !.count = 0, !.supervise = FALSE, !.boost = FALSE]
        /\ nightly' = "idle" /\ days' = 0 /\ UNCHANGED <<clock, job>>
    BY <1>10 DEF S!DecayClear
  <2>a. user' \in S!Document
    BY <2>1, GapOK, DocumentOK
  <2>2. user' \in S!Document /\ user'.login = user.login
    BY <2>1, <2>a, GapOK DEF S!Document
  <2>3. Gap' = Gap
    BY <2>1, <2>2 DEF Gap
  <2>4. S!TypeOK'
    BY <1>0, <2>1, <2>2 DEF S!TypeOK
  <2>5. DaySound'
    BY <1>0, <2>1, <2>2, <2>3 DEF DaySound
  <2>6. QED
    BY <2>4, <2>5 DEF StreakInv
<1>11. CASE S!Tick
  <2>1. /\ nightly = "idle" /\ clock' = clock + 1 /\ UNCHANGED <<user, job, nightly, days>>
        /\ \A w \in Worker : job[w].phase = "idle"
    BY <1>11 DEF S!Tick
  <2>2. S!TypeOK'
    BY <1>0, <2>1 DEF S!TypeOK
  <2>3. DaySound'
    BY <1>0, <2>1, GapOK DEF DaySound
  <2>4. QED
    BY <2>2, <2>3 DEF StreakInv
<1>12. CASE UNCHANGED streak
  <2>1. UNCHANGED <<clock, user, job, nightly, days>> /\ Gap' = Gap
    BY <1>12 DEF streak, Gap
  <2>2. QED
    BY <1>0, <2>1 DEF StreakInv, S!TypeOK, DaySound
<1>13. QED
  BY <1>1, <1>2, <1>3, <1>4, <1>5, <1>6, <1>7, <1>8, <1>9, <1>10, <1>11, <1>12
     DEF S!Next, S!Complete

LEMMA StreakSound == S!Spec => []StreakInv
<1>1. S!Init => StreakInv
  BY StreakInit
<1>2. StreakInv /\ [S!Next]_(S!vars) => StreakInv'
  BY StreakStep DEF S!vars, streak
<1>3. QED
  BY <1>1, <1>2, PTL DEF S!Spec

-------------------------------------------------------------------------------
(* Streak: one request at a time *)

LEMMA OneMore ==
    ASSUME NEW b \in Nat, NEW f \in Nat
    PROVE  b * f \in Nat /\ (b + 1) * f = b * f + f
OBVIOUS

\* What is claimed and owed, in numbers.
LEMMA DebtOK ==
    ASSUME StreakInv
    PROVE  /\ user.boosts * Full \in Nat /\ user.superlikes * Half \in Nat
           /\ (user.boosts + 1) * Full = user.boosts * Full + Full
           /\ (user.superlikes + 1) * Half = user.superlikes * Half + Half
           /\ user.count \in 0 .. Full /\ Unpaid \in 0 .. Half /\ Unpaid <= user.count
           /\ user.supervise \in BOOLEAN /\ user.boost \in BOOLEAN
           /\ user.boosts \in Nat /\ user.superlikes \in Nat /\ days \in Nat
<1>1. /\ user.boosts \in Nat /\ user.superlikes \in Nat /\ user.count \in 0 .. Full
      /\ user.supervise \in BOOLEAN /\ user.boost \in BOOLEAN
  BY GapOK DEF S!Document
<1>2. /\ user.boosts * Full \in Nat /\ user.superlikes * Half \in Nat
      /\ (user.boosts + 1) * Full = user.boosts * Full + Full
      /\ (user.superlikes + 1) * Half = user.superlikes * Half + Half
  BY <1>1, OneMore
<1>3. Unpaid \in 0 .. Half /\ Unpaid <= user.count
  BY <1>1 DEF Unpaid
<1>4. days \in Nat
  BY DEF StreakInv, S!TypeOK
<1>5. QED
  BY <1>1, <1>2, <1>3, <1>4

\* The only request has ended: what remains to be shown is about the document.
LEMMA EndEarns ==
    ASSUME Alone, StreakInv, NEW w \in Worker, job[w].phase # "idle", S!Ends(w), S!CountIsRun',
           user'.boost => user'.count = Full,
           user'.boosts * Full + user'.count <= S!Day(user'.login),
           user'.superlikes * Half + (IF user'.supervise THEN Half ELSE 0) + Unpaid'
               <= S!Day(user'.login)
    PROVE  RunSound' /\ EarnedSound'
<1>1. S!NoJob \in S!Job /\ S!NoJob.phase = "idle"
  BY DEF S!NoJob, S!Job
<1>2. job'[w] = S!NoJob /\ \A v \in Worker \ {w} : job'[v] = job[v]
  BY <1>1, JobMoves DEF StreakInv, S!Ends
<1>3. \A v \in Worker : job'[v].phase = "idle"
  BY <1>1, <1>2 DEF Alone
<1>4. RunSound'
  BY <1>3 DEF RunSound
<1>5. EarnedSound'
  BY <1>3 DEF EarnedSound
<1>6. QED
  BY <1>4, <1>5

LEMMA WriteCountEarns ==
    ASSUME Alone, StreakInv, RunSound, EarnedSound, NEW w \in Worker, S!WriteCount(w)
    PROVE  RunSound' /\ EarnedSound'
<1>1. /\ job[w].next = S!NextDayCount /\ Gap = 1 /\ job[w].at = clock
  BY DEF S!WriteCount, RunSound, StreakInv, DaySound
<1>2. PICK n : n = S!NextDayCount
  OBVIOUS
<1>3. user' = [user EXCEPT !.count = n, !.login = clock,
                           !.supervise = user.supervise \/ n = Half,
                           !.boost = user.boost \/ n = Full]
  BY <1>1, <1>2 DEF S!WriteCount
<1>4. /\ user'.count = n /\ user'.login = clock
      /\ user'.supervise = (user.supervise \/ n = Half) /\ user'.boost = (user.boost \/ n = Full)
      /\ user'.boosts = user.boosts /\ user'.superlikes = user.superlikes
  BY <1>3, GapOK DEF S!Document
<1>5. /\ n \in 0 .. Full /\ n <= user.count + 1
      /\ n = IF user.count = Full THEN Full ELSE user.count + 1
  BY <1>2, DebtOK DEF S!NextDayCount, S!AtMost
<1>6. S!Day(clock) = S!Day(user.login) + 1
  BY <1>1, GapOK
<1>7. S!CountIsRun'
  <2>1. days' = days + 1
    BY <1>1, <1>6, GapOK DEF S!WriteCount, S!RunAfter
  <2>2. user.count = IF Full < days THEN Full ELSE days
    BY DEF RunSound, S!CountIsRun, S!AtMost
  <2>3. n = IF Full < days + 1 THEN Full ELSE days + 1
    BY <1>5, <2>2, DebtOK
  <2>4. QED
    BY <1>4, <2>1, <2>3 DEF S!CountIsRun, S!AtMost
<1>8. user'.boost => user'.count = Full
  BY <1>4, <1>5, DebtOK DEF EarnedSound
<1>9. user'.boosts * Full + user'.count <= S!Day(user'.login)
  <2>1. user.boosts * Full + user.count <= S!Day(user.login)
    BY DEF EarnedSound
  <2>2. user.boosts * Full + n <= S!Day(user.login) + 1
    BY <1>5, <2>1, DebtOK, GapOK
  <2>3. QED
    BY <1>4, <1>6, <2>2
<1>10. user'.superlikes * Half + (IF user'.supervise THEN Half ELSE 0) + Unpaid'
           <= S!Day(user'.login)
  <2>1. user.superlikes * Half + (IF user.supervise THEN Half ELSE 0) + Unpaid <= S!Day(user.login)
    BY DEF EarnedSound
  <2>2. Unpaid' = IF n >= Half THEN 0 ELSE n
    BY <1>4 DEF Unpaid
  <2>3. (IF user'.supervise THEN Half ELSE 0) + Unpaid'
            <= (IF user.supervise THEN Half ELSE 0) + Unpaid + 1
    BY <1>4, <1>5, <2>2, DebtOK DEF Unpaid
  <2>4. QED
    <3>1. PICK p, q, s, d : /\ p = (IF user.supervise THEN Half ELSE 0) + Unpaid
                            /\ q = (IF user'.supervise THEN Half ELSE 0) + Unpaid'
                            /\ s = user.superlikes * Half
                            /\ d = S!Day(user.login)
      OBVIOUS
    <3>2. p \in Nat /\ q \in Nat /\ s \in Nat /\ d \in Nat
      BY <3>1, <2>2, <1>5, DebtOK, GapOK
    <3>3. s + p <= d /\ q <= p + 1
      BY <3>1, <3>2, <2>1, <2>3, DebtOK
    <3>4. s + q <= d + 1
      BY <3>2, <3>3
    <3>5. user'.superlikes * Half = s /\ S!Day(user'.login) = d + 1
      BY <1>4, <1>6, <3>1
    <3>6. QED
      BY <3>1, <3>2, <3>4, <3>5, <2>2, <1>5
<1>11. S!Ends(w) /\ job[w].phase # "idle"
  BY DEF S!WriteCount
<1>12. QED
  BY <1>7, <1>8, <1>9, <1>10, <1>11, EndEarns

LEMMA ResetEarns ==
    ASSUME Alone, StreakInv, RunSound, EarnedSound, NEW w \in Worker, S!Reset(w)
    PROVE  RunSound' /\ EarnedSound'
<1>1. Gap >= 2 /\ job[w].at = clock
  BY DEF S!Reset, RunSound, StreakInv, DaySound
<1>2. user' = [user EXCEPT !.count = 0, !.login = clock, !.supervise = FALSE, !.boost = FALSE]
  BY <1>1 DEF S!Reset
<1>3. /\ user'.count = 0 /\ user'.login = clock /\ user'.supervise = FALSE /\ user'.boost = FALSE
      /\ user'.boosts = user.boosts /\ user'.superlikes = user.superlikes
  BY <1>2, GapOK DEF S!Document
<1>4. S!Day(user.login) <= S!Day(clock)
  BY GapOK
<1>5. days' = 0
  BY <1>1, GapOK DEF S!Reset, S!RunAfter
<1>6. S!CountIsRun'
  BY <1>3, <1>5 DEF S!CountIsRun, S!AtMost
<1>7. Unpaid' = 0
  BY <1>3 DEF Unpaid
<1>8. user.boosts * Full <= S!Day(clock) /\ user.superlikes * Half <= S!Day(clock)
  BY <1>4, DebtOK, GapOK DEF EarnedSound
<1>9. S!Ends(w) /\ job[w].phase # "idle"
  BY DEF S!Reset
<1>10. /\ user'.boost => user'.count = Full
       /\ user'.boosts * Full + user'.count <= S!Day(user'.login)
       /\ user'.superlikes * Half + (IF user'.supervise THEN Half ELSE 0) + Unpaid'
              <= S!Day(user'.login)
  BY <1>3, <1>7, <1>8, DebtOK
<1>11. QED
  BY <1>6, <1>9, <1>10, EndEarns

LEMMA ClaimSuperviseEarns ==
    ASSUME Alone, StreakInv, RunSound, EarnedSound, NEW w \in Worker, S!ClaimSupervise(w)
    PROVE  RunSound' /\ EarnedSound'
<1>1. user' = [user EXCEPT !.superlikes = @ + 1, !.supervise = FALSE] /\ days' = days
  BY DEF S!ClaimSupervise
<1>2. /\ user'.superlikes = user.superlikes + 1 /\ user'.supervise = FALSE
      /\ user'.count = user.count /\ user'.login = user.login
      /\ user'.boost = user.boost /\ user'.boosts = user.boosts
  BY <1>1, GapOK DEF S!Document
<1>3. S!CountIsRun'
  BY <1>1, <1>2 DEF RunSound, S!CountIsRun
<1>4. Unpaid' = Unpaid
  BY <1>2 DEF Unpaid
<1>5. (user.superlikes + 1) * Half + Unpaid <= S!Day(user.login)
  BY DEF EarnedSound, S!ClaimSupervise
<1>6. S!Ends(w) /\ job[w].phase # "idle"
  BY DEF S!ClaimSupervise
<1>7. /\ user'.boost => user'.count = Full
      /\ user'.boosts * Full + user'.count <= S!Day(user'.login)
  BY <1>2 DEF EarnedSound
<1>8. user'.superlikes * Half + (IF user'.supervise THEN Half ELSE 0) + Unpaid'
          <= S!Day(user'.login)
  BY <1>2, <1>4, <1>5, DebtOK
<1>9. QED
  BY <1>3, <1>6, <1>7, <1>8, EndEarns

LEMMA ClaimBoostEarns ==
    ASSUME Alone, StreakInv, RunSound, EarnedSound, NEW w \in Worker, S!ClaimBoost(w)
    PROVE  RunSound' /\ EarnedSound'
<1>1. user' = [user EXCEPT !.boosts = @ + 1, !.boost = FALSE, !.count = 0] /\ days' = 0
  BY DEF S!ClaimBoost
<1>2. /\ user'.boosts = user.boosts + 1 /\ user'.boost = FALSE
      /\ user'.count = 0 /\ user'.login = user.login
      /\ user'.supervise = user.supervise /\ user'.superlikes = user.superlikes
  BY <1>1, GapOK DEF S!Document
<1>3. S!CountIsRun'
  BY <1>1, <1>2 DEF S!CountIsRun, S!AtMost
<1>4. Unpaid' = 0
  BY <1>2 DEF Unpaid
<1>5. (user.boosts + 1) * Full <= S!Day(user.login)
  BY DEF EarnedSound, S!ClaimBoost
<1>6. S!Ends(w) /\ job[w].phase # "idle"
  BY DEF S!ClaimBoost
<1>7. /\ user'.boost => user'.count = Full
      /\ user'.boosts * Full + user'.count <= S!Day(user'.login)
  BY <1>2, <1>5, DebtOK
<1>8. user'.superlikes * Half + (IF user'.supervise THEN Half ELSE 0) + Unpaid'
          <= S!Day(user'.login)
  <2>1. user.superlikes * Half + (IF user.supervise THEN Half ELSE 0) + Unpaid <= S!Day(user.login)
    BY DEF EarnedSound
  <2>2. user.superlikes * Half + (IF user.supervise THEN Half ELSE 0) <= S!Day(user.login)
    BY <2>1, DebtOK, GapOK
  <2>3. QED
    BY <1>2, <1>4, <2>2, DebtOK
<1>9. QED
  BY <1>3, <1>6, <1>7, <1>8, EndEarns

\* The decay clears a streak while no report counts.
LEMMA DecayEarns ==
    ASSUME StreakInv, RunSound, EarnedSound, S!DecayClear
    PROVE  RunSound' /\ EarnedSound'
<1>1. /\ user' = [user EXCEPT !.count = 0, !.supervise = FALSE, !.boost = FALSE]
      /\ days' = 0 /\ UNCHANGED <<clock, job>> /\ nightly = "found"
  BY DEF S!DecayClear
<1>2. /\ user'.count = 0 /\ user'.supervise = FALSE /\ user'.boost = FALSE
      /\ user'.login = user.login
      /\ user'.boosts = user.boosts /\ user'.superlikes = user.superlikes
  BY <1>1, GapOK DEF S!Document
<1>3. Gap' = Gap /\ Unpaid' = 0
  BY <1>1, <1>2 DEF Gap, Unpaid
<1>4. \A w \in Worker : job[w].phase \notin {"count", "write"}
  BY <1>1 DEF StreakInv, DaySound
<1>5. RunSound'
  BY <1>1, <1>2, <1>3, <1>4 DEF RunSound, S!CountIsRun, S!AtMost
<1>6. /\ user.boosts * Full <= S!Day(user.login)
      /\ user.superlikes * Half <= S!Day(user.login)
  BY DebtOK, GapOK DEF EarnedSound
<1>7. \A w \in Worker : job[w].phase = "supervise"
                        => (user.superlikes + 1) * Half <= S!Day(user.login)
  BY DebtOK, GapOK DEF EarnedSound
<1>8. /\ user'.boosts * Full + user'.count <= S!Day(user'.login)
      /\ user'.superlikes * Half + (IF user'.supervise THEN Half ELSE 0) + Unpaid'
             <= S!Day(user'.login)
  BY <1>2, <1>3, <1>6, DebtOK
<1>9. ASSUME NEW w \in Worker
      PROVE  /\ job'[w].phase = "boost" => (user'.boosts + 1) * Full <= S!Day(user'.login)
             /\ job'[w].phase = "supervise"
                => (user'.superlikes + 1) * Half + Unpaid' <= S!Day(user'.login)
  BY <1>1, <1>2, <1>3, <1>7, DebtOK DEF EarnedSound
<1>10. EarnedSound'
  BY <1>2, <1>8, <1>9 DEF EarnedSound
<1>11. QED
  BY <1>5, <1>10

CycleInv == StreakInv /\ RunSound /\ EarnedSound

LEMMA CycleStep == Alone /\ CycleInv /\ [S!Next]_(S!vars) => CycleInv'
<1> SUFFICES ASSUME Alone, CycleInv, [S!Next]_streak PROVE CycleInv'
  BY DEF S!vars, streak
<1>0. StreakInv /\ RunSound /\ EarnedSound
  BY DEF CycleInv
<1>a. StreakInv'
  BY <1>0, StreakStep
<1> SUFFICES RunSound' /\ EarnedSound'
  BY <1>a DEF CycleInv
<1>b. S!TypeOK
  BY <1>0 DEF StreakInv
<1>1. ASSUME NEW w \in Worker, S!Report(w) PROVE RunSound' /\ EarnedSound'
  <2>1. PICK j : j = [job[w] EXCEPT !.phase = IF Gap = 1 THEN "count" ELSE "reset", !.at = clock]
    OBVIOUS
  <2>2. /\ j \in S!Job
        /\ j.phase = IF Gap = 1 THEN "count" ELSE "reset"
    BY <1>0, <1>b, <2>1, GapOK DEF S!TypeOK, S!Job
  <2>3. job' = [job EXCEPT ![w] = j] /\ UNCHANGED <<clock, user, nightly, days>> /\ Gap > 0
    BY <1>1, <2>1 DEF S!Report, S!Becomes, Gap
  <2>4. /\ j.phase \in {"count", "write"} => Gap = 1
        /\ j.phase = "reset" => Gap >= 2
        /\ j.phase \notin {"write", "boost", "supervise"}
    BY <1>0, <2>2, <2>3, GapOK
  <2>5. QED
    BY <1>0, <2>2, <2>3, <2>4, JobEarns
<1>2. ASSUME NEW w \in Worker, S!ReadCount(w) PROVE RunSound' /\ EarnedSound'
  <2>1. PICK j : j = [job[w] EXCEPT !.phase = "write", !.next = S!NextDayCount]
    OBVIOUS
  <2>2. S!NextDayCount \in 0 .. Full
    BY <1>0, GapOK DEF S!NextDayCount, S!AtMost, S!Document
  <2>3. j \in S!Job /\ j.next = S!NextDayCount /\ j.phase = "write"
    BY <1>b, <2>1, <2>2 DEF S!TypeOK, S!Job
  <2>4. job' = [job EXCEPT ![w] = j] /\ UNCHANGED <<clock, user, nightly, days>>
    BY <1>2, <2>1 DEF S!ReadCount
  <2>5. Gap = 1
    BY <1>0, <1>2 DEF RunSound, S!ReadCount
  <2>6. QED
    BY <1>0, <2>3, <2>4, <2>5, JobEarns
<1>3. ASSUME NEW w \in Worker, S!Complete(w) PROVE RunSound' /\ EarnedSound'
  BY <1>0, <1>3, WriteCountEarns, ResetEarns, ClaimSuperviseEarns, ClaimBoostEarns DEF S!Complete
<1>4. ASSUME NEW w \in Worker, S!Crash(w) PROVE RunSound' /\ EarnedSound'
  <2>1. S!NoJob \in S!Job /\ S!NoJob.phase = "idle"
    BY DEF S!NoJob, S!Job
  <2>2. job' = [job EXCEPT ![w] = S!NoJob] /\ UNCHANGED <<clock, user, nightly, days>>
    BY <1>4 DEF S!Crash, S!Ends
  <2>3. QED
    BY <1>0, <2>1, <2>2, JobEarns
<1>5. ASSUME NEW w \in Worker, NEW reward \in {"supervise", "boost"}, S!ClaimRead(w, reward)
      PROVE  RunSound' /\ EarnedSound'
  <2>1. PICK j : j = [job[w] EXCEPT !.phase = reward, !.at = clock]
    OBVIOUS
  <2>2. j \in S!Job /\ j.phase = reward
    BY <1>0, <1>b, <2>1, GapOK DEF S!TypeOK, S!Job
  <2>3. job' = [job EXCEPT ![w] = j] /\ UNCHANGED <<clock, user, nightly, days>>
    BY <1>5, <2>1 DEF S!ClaimRead, S!Becomes
  <2>4. IF reward = "supervise" THEN user.supervise ELSE user.boost
    BY <1>5 DEF S!ClaimRead
  <2>5. reward = "boost" => (user.boosts + 1) * Full <= S!Day(user.login)
    BY <1>0, <2>4, DebtOK DEF EarnedSound
  <2>6. reward = "supervise" => (user.superlikes + 1) * Half + Unpaid <= S!Day(user.login)
    BY <1>0, <2>4, DebtOK DEF EarnedSound
  <2>7. QED
    BY <1>0, <2>2, <2>3, <2>5, <2>6, JobEarns
<1>6. CASE S!DecayFind
  <2>1. UNCHANGED <<clock, user, job, days>>
    BY <1>6 DEF S!DecayFind
  <2>2. Gap' = Gap /\ Unpaid' = Unpaid /\ S!NextDayCount' = S!NextDayCount
    BY <2>1 DEF Gap, Unpaid, S!NextDayCount
  <2>3. QED
    BY <1>0, <2>1, <2>2 DEF RunSound, EarnedSound, S!CountIsRun
<1>7. CASE S!DecayClear
  BY <1>0, <1>7, DecayEarns
<1>8. CASE S!Tick
  <2>1. /\ UNCHANGED <<user, job, nightly, days>>
        /\ \A w \in Worker : job[w].phase = "idle"
    BY <1>8 DEF S!Tick
  <2>2. Unpaid' = Unpaid
    BY <2>1 DEF Unpaid
  <2>3. QED
    BY <1>0, <2>1, <2>2 DEF RunSound, EarnedSound, S!CountIsRun
<1>9. CASE UNCHANGED streak
  <2>1. UNCHANGED <<clock, user, job, days>>
    BY <1>9 DEF streak
  <2>2. Gap' = Gap /\ Unpaid' = Unpaid /\ S!NextDayCount' = S!NextDayCount
    BY <2>1 DEF Gap, Unpaid, S!NextDayCount
  <2>3. QED
    BY <1>0, <2>1, <2>2 DEF RunSound, EarnedSound, S!CountIsRun
<1>10. QED
  BY <1>1, <1>2, <1>3, <1>4, <1>5, <1>6, <1>7, <1>8, <1>9 DEF S!Next

LEMMA CycleSound == Loyalty => [](side = "alone" => Alone /\ CycleInv)
<1> DEFINE Inv == side = "alone" => Alone /\ CycleInv
<1>1. LoyaltyInit => Inv
  BY StreakInit DEF LoyaltyInit, Alone, S!Init, S!NoJob, CycleInv
<1>2. Inv /\ [LoyaltyNext]_<<vars, streak, side>> => Inv'
  <2> SUFFICES ASSUME side = "alone", Alone, CycleInv, [LoyaltyNext]_<<vars, streak, side>>
               PROVE  Alone' /\ CycleInv'
    BY DEF LoyaltyNext
  <2>1. [S!Next]_(S!vars)
    BY DEF LoyaltyNext, streak, S!vars
  <2>2. Alone'
    BY DEF LoyaltyNext, streak, Alone
  <2>3. QED
    BY <2>1, <2>2, CycleStep
<1>3. QED
  BY <1>1, <1>2, PTL DEF Loyalty

\* The rewards have had their days by the clock as well: it only moves on.
LEMMA CycleKeeps == CycleInv => S!CountIsRun /\ S!RewardsEarned
<1> SUFFICES ASSUME CycleInv PROVE S!CountIsRun /\ S!RewardsEarned
  OBVIOUS
<1>1. StreakInv /\ RunSound /\ EarnedSound
  BY DEF CycleInv
<1>2. /\ user.boosts * Full <= S!Day(user.login)
      /\ user.superlikes * Half <= S!Day(user.login)
  BY <1>1, DebtOK, GapOK DEF EarnedSound
<1>3. S!RewardsEarned
  BY <1>1, <1>2, DebtOK, GapOK DEF S!RewardsEarned
<1>4. QED
  BY <1>1, <1>3 DEF RunSound

-------------------------------------------------------------------------------
(* Streak: any number of requests at once *)

\* What a report will write is at least what the run of days will then be.  A report that resets
\* finds the user missing, or comes after another that did: the run is then empty, and no report
\* that counts a day was begun in the same moment.
CountSound ==
    /\ S!NoDayLost
    /\ user.count = Full => user.boost
    /\ \A w \in Worker :
          /\ job[w].phase = "write" =>
               1 <= job[w].next /\ S!AtMost(Full, S!RunAfter(clock)) <= job[w].next
          /\ job[w].phase \in {"count", "write"} => \A v \in Worker : job[v].phase # "reset"
          /\ job[w].phase = "reset" => Gap >= 2 \/ (Gap = 0 /\ days = 0)

OverlapInv == StreakInv /\ CountSound

LEMMA RunAfterOK ==
    ASSUME StreakInv
    PROVE  /\ days \in Nat /\ user.count \in 0 .. Full /\ user.boost \in BOOLEAN
           /\ S!RunAfter(clock) = IF Gap = 0 THEN days ELSE IF Gap = 1 THEN days + 1 ELSE 0
<1>1. S!Day(clock) = S!Day(user.login) <=> Gap = 0
  BY GapOK
<1>2. S!Day(clock) = S!Day(user.login) + 1 <=> Gap = 1
  BY GapOK
<1>3. QED
  BY <1>1, <1>2, GapOK DEF S!RunAfter, StreakInv, S!TypeOK, S!Document

\* A request begins, goes on or stops, and writes nothing.
LEMMA JobCounts ==
    ASSUME StreakInv, CountSound, NEW w \in Worker, NEW j \in S!Job,
           job' = [job EXCEPT ![w] = j], UNCHANGED <<clock, user, nightly, days>>,
           j.phase = "write" => 1 <= j.next /\ S!AtMost(Full, S!RunAfter(clock)) <= j.next,
           j.phase \in {"count", "write"} => \A v \in Worker : job[v].phase # "reset",
           j.phase = "reset" => Gap >= 2
    PROVE  CountSound'
<1>1. job'[w] = j /\ \A v \in Worker \ {w} : job'[v] = job[v]
  BY JobMoves DEF StreakInv
<1>2. /\ Gap' = Gap /\ S!NoDayLost' = S!NoDayLost /\ S!RunAfter(clock)' = S!RunAfter(clock)
  BY DEF Gap, S!NoDayLost, S!RunAfter
<1>3. Gap >= 2 => \A v \in Worker : job[v].phase \notin {"count", "write"}
  BY GapOK DEF StreakInv, DaySound
<1>4. \A v \in Worker : job'[v].phase \in {"count", "write"} => \A u \in Worker : job'[u].phase # "reset"
  BY <1>1, <1>3 DEF CountSound
<1>5. \A v \in Worker : job'[v].phase = "write" =>
        1 <= job'[v].next /\ S!AtMost(Full, S!RunAfter(clock)) <= job'[v].next
  BY <1>1 DEF CountSound
<1>6. \A v \in Worker : job'[v].phase = "reset" => Gap >= 2 \/ (Gap = 0 /\ days = 0)
  BY <1>1 DEF CountSound
<1>7. QED
  BY <1>2, <1>4, <1>5, <1>6 DEF CountSound

\* A request writes the user's document, and ends: the others' copies remain large enough if
\* the run after today is no longer than it was about to be, or starts again.
LEMMA WriteCounts ==
    ASSUME StreakInv, StreakInv', CountSound, NEW w \in Worker, S!Ends(w), clock' = clock,
           S!NoDayLost', user'.count = Full => user'.boost,
           \/ S!RunAfter(clock)' = S!RunAfter(clock)
           \/ S!RunAfter(clock)' <= 1
           \/ \A v \in Worker : job[v].phase # "write",
           Gap' \in {0, Gap},
           days' = 0 \/ (Gap' = Gap /\ days' = days) \/ \A v \in Worker : job[v].phase # "reset"
    PROVE  CountSound'
<1>1. S!NoJob.phase = "idle" /\ S!NoJob \in S!Job
  BY DEF S!NoJob, S!Job
<1>2. job'[w] = S!NoJob /\ \A v \in Worker \ {w} : job'[v] = job[v]
  BY <1>1, JobMoves DEF StreakInv, S!Ends
<1>3. ASSUME NEW v \in Worker, job'[v].phase = "write"
      PROVE  1 <= job'[v].next /\ S!AtMost(Full, S!RunAfter(clock))' <= job'[v].next
  <2>1. /\ job'[v] = job[v] /\ job[v].phase = "write" /\ job[v].next \in 0 .. Full
        /\ 1 <= job[v].next /\ S!AtMost(Full, S!RunAfter(clock)) <= job[v].next
    BY <1>1, <1>2, <1>3 DEF CountSound, StreakInv, S!TypeOK, S!Job
  <2>2. S!RunAfter(clock)' \in Nat
    BY DEF StreakInv, S!TypeOK, S!RunAfter
  <2>3. S!RunAfter(clock)' = S!RunAfter(clock) \/ S!RunAfter(clock)' <= 1
    BY <2>1
  <2>4. QED
    BY <2>1, <2>2, <2>3 DEF S!AtMost
<1>4. \A v \in Worker : job'[v].phase \in {"count", "write"} => \A u \in Worker : job'[u].phase # "reset"
  BY <1>1, <1>2 DEF CountSound
<1>5. ASSUME NEW v \in Worker, job'[v].phase = "reset"
      PROVE  Gap' >= 2 \/ (Gap' = 0 /\ days' = 0)
  <2>1. job[v].phase = "reset" /\ (Gap >= 2 \/ (Gap = 0 /\ days = 0))
    BY <1>1, <1>2, <1>5 DEF CountSound
  <2>2. QED
    BY <2>1
<1>6. QED
  BY <1>3, <1>4, <1>5 DEF CountSound

LEMMA WriteCountCounts ==
    ASSUME StreakInv, StreakInv', CountSound, NEW w \in Worker, S!WriteCount(w)
    PROVE  CountSound'
<1>1. /\ job[w].phase = "write" /\ job[w].at = clock
      /\ \A v \in Worker : job[v].phase # "reset"
  BY DEF S!WriteCount, StreakInv, DaySound, CountSound
<1>2. PICK n : n = job[w].next
  OBVIOUS
<1>3. n \in 0 .. Full /\ 1 <= n /\ S!AtMost(Full, S!RunAfter(clock)) <= n
  BY <1>1, <1>2 DEF CountSound, StreakInv, S!TypeOK, S!Job
<1>4. user' = [user EXCEPT !.count = n, !.login = clock,
                           !.supervise = user.supervise \/ n = Half,
                           !.boost = user.boost \/ n = Full]
  BY <1>1, <1>2 DEF S!WriteCount
<1>5. user'.count = n /\ user'.login = clock /\ user'.boost = (user.boost \/ n = Full)
  BY <1>4, GapOK DEF S!Document
<1>6. days' = S!RunAfter(clock) /\ days' \in Nat /\ clock' = clock
  BY <1>1 DEF S!WriteCount, StreakInv, S!TypeOK
<1>7. Gap' = 0 /\ S!RunAfter(clock)' = S!RunAfter(clock)
  BY <1>5, <1>6, GapOK DEF Gap, S!CalendarDayGap, S!RunAfter
<1>8. S!NoDayLost' /\ (user'.count = Full => user'.boost)
  <2>1. n = Full => user'.boost
    BY <1>5
  <2>2. days' >= Full => n = Full
    BY <1>3, <1>6 DEF S!AtMost
  <2>3. S!AtMost(Full, days') <= user'.count
    BY <1>3, <1>5, <1>6
  <2>4. QED
    BY <1>5, <2>1, <2>2, <2>3 DEF S!NoDayLost
<1>9. QED
  BY <1>1, <1>6, <1>7, <1>8, WriteCounts DEF S!WriteCount

LEMMA ResetCounts ==
    ASSUME StreakInv, StreakInv', CountSound, NEW w \in Worker, S!Reset(w)
    PROVE  CountSound'
<1>1. /\ job[w].phase = "reset" /\ job[w].at = clock
      /\ \A v \in Worker : job[v].phase # "write"
  BY DEF S!Reset, StreakInv, DaySound, CountSound
<1>2. user' = [user EXCEPT !.count = 0, !.login = clock, !.supervise = FALSE, !.boost = FALSE]
  BY <1>1 DEF S!Reset
<1>3. user'.count = 0 /\ user'.login = clock
  BY <1>2, GapOK DEF S!Document
<1>4. days' = 0 /\ clock' = clock
  BY <1>1, RunAfterOK DEF S!Reset, CountSound
<1>5. Gap' = 0
  BY <1>3, <1>4, GapOK DEF Gap, S!CalendarDayGap
<1>6. S!NoDayLost' /\ (user'.count = Full => user'.boost)
  BY <1>3, <1>4 DEF S!NoDayLost, S!AtMost
<1>7. QED
  BY <1>1, <1>4, <1>5, <1>6, WriteCounts DEF S!Reset

LEMMA ClaimSuperviseCounts ==
    ASSUME StreakInv, StreakInv', CountSound, NEW w \in Worker, S!ClaimSupervise(w)
    PROVE  CountSound'
<1>1. user' = [user EXCEPT !.superlikes = @ + 1, !.supervise = FALSE]
  BY DEF S!ClaimSupervise
<1>2. user'.count = user.count /\ user'.login = user.login /\ user'.boost = user.boost
  BY <1>1, GapOK DEF S!Document
<1>3. clock' = clock /\ days' = days /\ S!Ends(w)
  BY DEF S!ClaimSupervise
<1>4. Gap' = Gap /\ S!RunAfter(clock)' = S!RunAfter(clock)
  BY <1>2, <1>3 DEF Gap, S!CalendarDayGap, S!RunAfter
<1>5. S!NoDayLost' /\ (user'.count = Full => user'.boost)
  BY <1>2, <1>3 DEF CountSound, S!NoDayLost
<1>6. QED
  BY <1>3, <1>4, <1>5, WriteCounts

LEMMA ClaimBoostCounts ==
    ASSUME StreakInv, StreakInv', CountSound, NEW w \in Worker, S!ClaimBoost(w)
    PROVE  CountSound'
<1>1. user' = [user EXCEPT !.boosts = @ + 1, !.boost = FALSE, !.count = 0]
  BY DEF S!ClaimBoost
<1>2. user'.count = 0 /\ user'.login = user.login
  BY <1>1, GapOK DEF S!Document
<1>3. clock' = clock /\ days' = 0 /\ S!Ends(w)
  BY DEF S!ClaimBoost
<1>4. Gap' = Gap /\ S!RunAfter(clock)' <= 1
  BY <1>2, <1>3 DEF Gap, S!CalendarDayGap, S!RunAfter
<1>5. S!NoDayLost' /\ (user'.count = Full => user'.boost)
  BY <1>2, <1>3 DEF S!NoDayLost, S!AtMost
<1>6. QED
  BY <1>3, <1>4, <1>5, WriteCounts

LEMMA DecayClearCounts ==
    ASSUME StreakInv, CountSound, S!DecayClear
    PROVE  CountSound'
<1>1. user' = [user EXCEPT !.count = 0, !.supervise = FALSE, !.boost = FALSE]
  BY DEF S!DecayClear
<1>2. user'.count = 0 /\ user'.login = user.login
  BY <1>1, GapOK DEF S!Document
<1>3. clock' = clock /\ days' = 0 /\ job' = job
  BY DEF S!DecayClear
<1>4. \A w \in Worker : job[w].phase \notin {"count", "write"}
  BY DEF S!DecayClear, StreakInv, DaySound
<1>5. Gap' = Gap
  BY <1>2, <1>3 DEF Gap
<1>6. S!NoDayLost'
  BY <1>2, <1>3 DEF S!NoDayLost, S!AtMost
<1>7. QED
  BY <1>2, <1>3, <1>4, <1>5, <1>6 DEF CountSound

LEMMA OverlapStep == OverlapInv /\ [S!Next]_streak => OverlapInv'
<1> SUFFICES ASSUME OverlapInv, [S!Next]_streak PROVE OverlapInv'
  OBVIOUS
<1>0. StreakInv /\ CountSound /\ S!TypeOK
  BY DEF OverlapInv, StreakInv
<1>a. StreakInv'
  BY <1>0, StreakStep
<1> SUFFICES CountSound'
  BY <1>a DEF OverlapInv
<1>1. ASSUME NEW w \in Worker, S!Report(w) PROVE CountSound'
  <2>1. PICK j : j = [job[w] EXCEPT !.phase = IF Gap = 1 THEN "count" ELSE "reset", !.at = clock]
    OBVIOUS
  <2>2. j \in S!Job /\ j.phase = IF Gap = 1 THEN "count" ELSE "reset"
    BY <1>0, <2>1, GapOK DEF S!TypeOK, S!Job
  <2>3. job' = [job EXCEPT ![w] = j] /\ UNCHANGED <<clock, user, nightly, days>> /\ Gap > 0
    BY <1>1, <2>1 DEF S!Report, S!Becomes, Gap
  <2>4. Gap = 1 => \A v \in Worker : job[v].phase # "reset"
    BY <1>0 DEF CountSound
  <2>5. /\ j.phase # "write"
        /\ j.phase \in {"count", "write"} => \A v \in Worker : job[v].phase # "reset"
        /\ j.phase = "reset" => Gap >= 2
    BY <1>0, <2>2, <2>3, <2>4, GapOK
  <2>6. QED
    BY <1>0, <2>2, <2>3, <2>5, JobCounts
<1>2. ASSUME NEW w \in Worker, S!ReadCount(w) PROVE CountSound'
  <2>1. PICK j : j = [job[w] EXCEPT !.phase = "write", !.next = S!NextDayCount]
    OBVIOUS
  <2>2. S!NextDayCount \in 0 .. Full /\ 1 <= S!NextDayCount
    BY <1>0, RunAfterOK DEF S!NextDayCount, S!AtMost
  <2>3. j \in S!Job /\ j.next = S!NextDayCount /\ j.phase = "write"
    BY <1>0, <2>1, <2>2 DEF S!TypeOK, S!Job
  <2>4. job' = [job EXCEPT ![w] = j] /\ UNCHANGED <<clock, user, nightly, days>>
    BY <1>2, <2>1 DEF S!ReadCount
  <2>5. \A v \in Worker : job[v].phase # "reset"
    BY <1>0, <1>2 DEF S!ReadCount, CountSound
  <2>6. S!AtMost(Full, S!RunAfter(clock)) <= S!NextDayCount
    <3>1. S!RunAfter(clock) \in 0 .. days + 1
      BY <1>0, RunAfterOK
    <3>2. S!AtMost(Full, days) <= user.count
      BY <1>0 DEF CountSound, S!NoDayLost
    <3>3. QED
      BY <1>0, <3>1, <3>2, RunAfterOK DEF S!NextDayCount, S!AtMost
  <2>7. QED
    BY <1>0, <2>2, <2>3, <2>4, <2>5, <2>6, JobCounts
<1>3. ASSUME NEW w \in Worker, S!Complete(w) PROVE CountSound'
  BY <1>0, <1>a, <1>3, WriteCountCounts, ResetCounts, ClaimSuperviseCounts, ClaimBoostCounts
     DEF S!Complete
<1>4. ASSUME NEW w \in Worker, S!Crash(w) PROVE CountSound'
  <2>1. S!NoJob \in S!Job /\ S!NoJob.phase = "idle"
    BY DEF S!NoJob, S!Job
  <2>2. job' = [job EXCEPT ![w] = S!NoJob] /\ UNCHANGED <<clock, user, nightly, days>>
    BY <1>4 DEF S!Crash, S!Ends
  <2>3. QED
    BY <1>0, <2>1, <2>2, JobCounts
<1>5. ASSUME NEW w \in Worker, NEW reward \in {"supervise", "boost"}, S!ClaimRead(w, reward)
      PROVE  CountSound'
  <2>1. PICK j : j = [job[w] EXCEPT !.phase = reward, !.at = clock]
    OBVIOUS
  <2>2. j \in S!Job /\ j.phase = reward
    BY <1>0, <2>1, GapOK DEF S!TypeOK, S!Job
  <2>3. job' = [job EXCEPT ![w] = j] /\ UNCHANGED <<clock, user, nightly, days>>
    BY <1>5, <2>1 DEF S!ClaimRead, S!Becomes
  <2>4. QED
    BY <1>0, <2>2, <2>3, JobCounts
<1>6. CASE S!DecayFind
  <2>1. UNCHANGED <<clock, user, job, days>>
    BY <1>6 DEF S!DecayFind
  <2>2. /\ Gap' = Gap /\ S!NoDayLost' = S!NoDayLost
        /\ S!RunAfter(clock)' = S!RunAfter(clock)
    BY <2>1 DEF Gap, S!NoDayLost, S!RunAfter
  <2>3. QED
    BY <1>0, <2>1, <2>2 DEF CountSound
<1>7. CASE S!DecayClear
  BY <1>0, <1>7, DecayClearCounts
<1>8. CASE S!Tick
  <2>1. /\ UNCHANGED <<user, job, nightly, days>>
        /\ \A w \in Worker : job[w].phase = "idle"
    BY <1>8 DEF S!Tick
  <2>2. QED
    BY <1>0, <2>1 DEF CountSound, S!NoDayLost
<1>9. CASE UNCHANGED streak
  <2>1. UNCHANGED <<clock, user, job, days>>
    BY <1>9 DEF streak
  <2>2. /\ Gap' = Gap /\ S!NoDayLost' = S!NoDayLost
        /\ S!RunAfter(clock)' = S!RunAfter(clock)
    BY <2>1 DEF Gap, S!NoDayLost, S!RunAfter
  <2>3. QED
    BY <1>0, <2>1, <2>2 DEF CountSound
<1>10. QED
  BY <1>1, <1>2, <1>3, <1>4, <1>5, <1>6, <1>7, <1>8, <1>9 DEF S!Next

LEMMA OverlapSound == S!Spec => []OverlapInv
<1>1. S!Init => OverlapInv
  <2> SUFFICES ASSUME S!Init PROVE OverlapInv
    OBVIOUS
  <2>1. user.count = 0 /\ days = 0 /\ \A w \in Worker : job[w].phase = "idle"
    BY DEF S!Init, S!NoJob
  <2>2. CountSound
    BY <2>1 DEF CountSound, S!NoDayLost, S!AtMost
  <2>3. QED
    BY <2>2, StreakInit DEF OverlapInv
<1>2. OverlapInv /\ [S!Next]_(S!vars) => OverlapInv'
  BY OverlapStep DEF S!vars, streak
<1>3. QED
  BY <1>1, <1>2, PTL DEF S!Spec

-------------------------------------------------------------------------------
(* The theorems *)

LEMMA EitherRuns == Loyalty => Spec /\ S!Spec
<1>1. LoyaltyInit => Init /\ S!Init
  BY DEF LoyaltyInit
<1>2. [LoyaltyNext]_<<vars, streak, side>> => [Next]_vars /\ [S!Next]_(S!vars)
  BY DEF LoyaltyNext, vars, streak, S!vars
<1>3. QED
  BY <1>1, <1>2, PTL DEF Loyalty, Spec, S!Spec

\* All fields keep their shape and range, however many visits are validated and however many
\* requests report at once.
THEOREM TypesCorrect == Loyalty => []LoyaltyTypeOK
<1>1. ReferralInv /\ StreakInv => LoyaltyTypeOK
  BY ReferralKeeps DEF StreakInv, LoyaltyTypeOK
<1>2. QED
  BY <1>1, EitherRuns, ReferralSound, StreakSound, PTL

\* No friend is counted twice and no month of Premium comes without its friends, however many
\* second visits are validated at once, whatever fails between the claim of a referral and the
\* counting of it, and whatever bans and payments come in between (ReferralService).
THEOREM MonthsAreEarned == Spec => [](NeverOvercounted /\ RewardEarned)
BY ReferralSound, ReferralKeeps, PTL

\* However many reports, claims and decays overlap, the streak is never shorter than the run of
\* consecutive days with a report, and a full run has its boost to claim; if the user's requests
\* come one at a time, it is that run (recordDailyActivity, claimBoost, decayInactiveUsers).
THEOREM CountsAreRight == Loyalty => []CountsRight
<1>1. ReferralInv /\ OverlapInv /\ (side = "alone" => CycleInv) => CountsRight
  BY ReferralKeeps, CycleKeeps DEF CountsRight, OverlapInv, CountSound
<1>2. QED
  BY <1>1, EitherRuns, ReferralSound, OverlapSound, CycleSound, PTL

\* If the user's requests come one at a time, no boost or superlike is claimed without its days,
\* whatever is lost and claimed in between (claimSupervise, claimBoost).
THEOREM RewardsAreEarned == Loyalty => []RewardsEarned
<1>1. ReferralInv /\ (side = "alone" => CycleInv) => RewardsEarned
  BY ReferralKeeps, CycleKeeps DEF RewardsEarned
<1>2. QED
  BY <1>1, EitherRuns, ReferralSound, CycleSound, PTL

\* However many requests are in progress, the nightly decay takes nothing from a user who was
\* active today or yesterday: whoever comes back between its find and its update was reset by
\* that visit (decayInactiveUsers).
THEOREM TheActiveAreSpared == S!Spec => DecaySparesActive
<1> DEFINE Spared == nightly = "found" /\ nightly' = "idle" /\ S!CalendarDayGap(user.login, clock) <= 1
                     => user.count = 0
<1>1. StreakInv => [Spared]_streak
  <2> SUFFICES ASSUME StreakInv, nightly = "found", Gap <= 1 PROVE user.count = 0
    BY DEF Gap
  <2>1. QED
    BY GapOK DEF StreakInv, DaySound
<1>2. QED
  BY <1>1, StreakSound, PTL DEF DecaySparesActive
==================================================================================
