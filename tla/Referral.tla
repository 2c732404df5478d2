------------------------------- MODULE Referral -------------------------------
(***************************************************************************)
(* The referral programme, seen from one referrer: friends enter its code, *)
(* the first verified visit of a friend validates the referral, and the    *)
(* referrer who validates enough of them in a month is offered a month of  *)
(* Premium, which a nightly cron takes back (services/referral.service.js, *)
(* services/user.service.js, services/cron.service.js).  The same field,   *)
(* isPremium, is written by the store's webhook for a paid subscription    *)
(* (controllers/iap.controller.js).                                        *)
(***************************************************************************)
EXTENDS Integers, FiniteSets

CONSTANTS
    Friend,     \* the users who may enter the referrer's code
    Beat,       \* heartbeats that record a visit; each is handled once
    Target,     \* TARGET_COUNT
    MonthLen,   \* length of a calendar month
    RewardLen,  \* ONE_MONTH_MS
    MaxVisits,  \* bound: visits recorded per friend
    LastWork,   \* bound: the time by which every handler has ended
    MaxTime     \* bound: the clock stops here

NoTime == 0     \* "null" in a field that holds a time; the clock starts at 1
NoMonth == 0    \* "null" in a field that holds a month

ASSUME BoundsAssumption ==
    /\ Target \in Nat \ {0} /\ MonthLen \in Nat \ {0} /\ RewardLen \in Nat \ {0}
    /\ MaxVisits \in Nat /\ LastWork \in Nat /\ MaxTime \in Nat
ASSUME FriendAssumption == IsFiniteSet(Friend)

VARIABLES
    now,     \* Date.now()
    visits,  \* per friend, its location_visit events
    ref,     \* per friend, its Referral document
    stats,   \* referralStats of the referrer
    prem,    \* isPremium, premiumSource, premiumExpiresAt, pendingReferralReward
    banned,  \* moderation.bannedPermanent of the referrer
    beat,    \* the heartbeats in progress
    hook,    \* the store's webhook, if it is in progress
    cron,    \* "expired" between the two parts of the nightly cron
    paying   \* the store has an active subscription for the referrer (not in the code)

vars == <<now, visits, ref, stats, prem, banned, beat, hook, cron, paying>>

MonthKeyOf(t) == 1 + (t \div MonthLen)
Months == Nat

Doc == [status : {"none", "pending", "validated", "void"},
        month : Months]            \* validatedMonthKey

Stats == [month : Months, count : Nat, total : Nat, granted : Months]

Premium == [on : BOOLEAN, source : {"none", "paid", "referral_reward"}, expires : Nat,
            banked : BOOLEAN]

Phase == {"new", "created", "first", "claimed", "read", "mark", "reward", "grant", "done"}

Heartbeat == [phase : Phase, user : Friend \cup {"nobody"}, month : Months, snap : Stats,
              at : Nat]

NoStats == [month |-> NoMonth, count |-> 0, total |-> 0, granted |-> NoMonth]

NewBeat == [phase |-> "new", user |-> "nobody", month |-> NoMonth, snap |-> NoStats,
            at |-> NoTime]

Hook == [phase : {"idle", "read"}, type : {"none", "purchase", "expiration"}, seen : BOOLEAN]

NoHook == [phase |-> "idle", type |-> "none", seen |-> FALSE]

TypeOK ==
    /\ now \in Nat
    /\ visits \in [Friend -> Nat]
    /\ ref \in [Friend -> Doc]
    /\ stats \in Stats
    /\ prem \in Premium
    /\ banned \in BOOLEAN
    /\ beat \in [Beat -> Heartbeat]
    /\ hook \in Hook
    /\ cron \in {"idle", "expired"}
    /\ paying \in BOOLEAN

Init ==
    /\ now = 1
    /\ visits = [u \in Friend |-> 0]
    /\ ref = [u \in Friend |-> [status |-> "none", month |-> NoMonth]]
    /\ stats = NoStats
    /\ prem = [on |-> FALSE, source |-> "none", expires |-> NoTime, banked |-> FALSE]
    /\ banned = FALSE
    /\ beat = [b \in Beat |-> NewBeat]
    /\ hook = NoHook
    /\ cron = "idle"
    /\ paying = FALSE

-------------------------------------------------------------------------------
(* The friends *)

Done == [NewBeat EXCEPT !.phase = "done"]

\* The handler of heartbeat b is over.
Ends(b) == beat' = [beat EXCEPT ![b] = Done]

\* redeemCode: the unique index on the friend lets it be referred once.
Redeem(u) ==
    /\ ref[u].status = "none"
    /\ ref' = [ref EXCEPT ![u] = [@ EXCEPT !.status = "pending"]]
    /\ UNCHANGED <<now, visits, stats, prem, banned, beat, hook, cron, paying>>

\* A stay of five minutes with no visit of that friend and venue in the last
\* twelve hours: the visit is created, ...
Visit(b, u) ==
    /\ beat[b].phase = "new"
    /\ now < LastWork
    /\ visits[u] < MaxVisits
    /\ visits' = [visits EXCEPT ![u] = @ + 1]
    /\ beat' = [beat EXCEPT ![b] = [@ EXCEPT !.phase = "created", !.user = u]]
    /\ UNCHANGED <<now, ref, stats, prem, banned, hook, cron, paying>>

\* ... then the friend's visits are counted: only the first validates a referral.
CountVisits(b) ==
    /\ beat[b].phase = "created"
    /\ IF visits[beat[b].user] = 1
       THEN beat' = [beat EXCEPT ![b] = [@ EXCEPT !.phase = "first", !.month = MonthKeyOf(now)]]
       ELSE Ends(b)
    /\ UNCHANGED <<now, visits, ref, stats, prem, banned, hook, cron, paying>>

-------------------------------------------------------------------------------
(* The referrer: validateReferralIfAny and what it calls *)

\* findOneAndUpdate on the pending referral
Claim(b) ==
    /\ beat[b].phase = "first"
    /\ LET u == beat[b].user
       IN  IF ref[u].status = "pending"
           THEN /\ ref' = [ref EXCEPT ![u] = [@ EXCEPT !.status = "validated",
                                                       !.month = beat[b].month]]
                /\ beat' = [beat EXCEPT ![b] = [@ EXCEPT !.phase = "claimed"]]
           ELSE Ends(b) /\ ref' = ref
    /\ UNCHANGED <<now, visits, stats, prem, banned, hook, cron, paying>>

\* Mutant of ReadReferrer: the referral is kept in place of the referrer.
ReadReferrer_Referral(b) ==
    /\ beat[b].phase = "claimed"
    /\ ~banned
    /\ beat' = [beat EXCEPT ![b] = [@ EXCEPT !.phase = "read", !.snap = ref[beat[b].user]]]
    /\ UNCHANGED <<now, visits, ref, stats, prem, banned, hook, cron, paying>>

\* The referrer is read; a banned one voids the referral.
ReadReferrer(b) ==
    /\ beat[b].phase = "claimed"
    /\ IF banned
       THEN /\ ref' = [ref EXCEPT ![beat[b].user] = [@ EXCEPT !.status = "void"]]
            /\ Ends(b)
       ELSE /\ ref' = ref
            /\ beat' = [beat EXCEPT ![b] = [@ EXCEPT !.phase = "read", !.snap = stats]]
    /\ UNCHANGED <<now, visits, stats, prem, banned, hook, cron, paying>>

\* Mutant of NextCount: the count goes on from one month to the next.
NextCount_NoReset(s, m) == s.count + 1

NextCount(s, m) == (IF s.month = m THEN s.count ELSE 0) + 1

\* Mutant of RewardDue: one friend too few.
RewardDue_Early(s, m) == NextCount(s, m) + 1 >= Target /\ s.granted # m

\* The target is reached, and the month has not been rewarded yet.
RewardDue(s, m) == NextCount(s, m) >= Target /\ s.granted # m

\* bumpReferrerCounters: absolute values, from what was read
Bump(b) ==
    /\ beat[b].phase = "read"
    /\ LET s == beat[b].snap
           m == beat[b].month
       IN  /\ stats' = [stats EXCEPT !.month = m, !.count = NextCount(s, m),
                                     !.total = s.total + 1]
           /\ IF RewardDue(s, m)
              THEN beat' = [beat EXCEPT ![b] = [@ EXCEPT !.phase = "mark"]]
              ELSE Ends(b)
    /\ UNCHANGED <<now, visits, ref, prem, banned, hook, cron, paying>>

\* lastRewardGrantedMonthKey
Mark(b) ==
    /\ beat[b].phase = "mark"
    /\ stats' = [stats EXCEPT !.granted = beat[b].month]
    /\ beat' = [beat EXCEPT ![b] = [@ EXCEPT !.phase = "reward", !.at = now]]
    /\ UNCHANGED <<now, visits, ref, prem, banned, hook, cron, paying>>

RewardRunning(t) == prem.source = "referral_reward" /\ prem.expires > t

\* grantReferralReward: no second month while one runs; the month of a referrer
\* whose premiumSource is "paid", a value no code writes, is put aside; ...
ReadPremium(b) ==
    /\ beat[b].phase = "reward"
    /\ IF RewardRunning(beat[b].at)
       THEN Ends(b) /\ prem' = prem
       ELSE IF prem.on /\ prem.source = "paid"
            THEN Ends(b) /\ prem' = [prem EXCEPT !.banked = TRUE]
            ELSE /\ beat' = [beat EXCEPT ![b] = [@ EXCEPT !.phase = "grant"]]
                 /\ prem' = prem
    /\ UNCHANGED <<now, visits, ref, stats, banned, hook, cron, paying>>

\* Mutant of Grant: the reward has no end.
Grant_NoExpiry(b) ==
    /\ beat[b].phase = "grant"
    /\ prem' = [prem EXCEPT !.on = TRUE, !.source = "referral_reward", !.expires = NoTime]
    /\ Ends(b)
    /\ UNCHANGED <<now, visits, ref, stats, banned, hook, cron, paying>>

\* ... otherwise the month is granted.
Grant(b) ==
    /\ beat[b].phase = "grant"
    /\ prem' = [prem EXCEPT !.on = TRUE, !.source = "referral_reward",
                            !.expires = beat[b].at + RewardLen]
    /\ Ends(b)
    /\ UNCHANGED <<now, visits, ref, stats, banned, hook, cron, paying>>

\* An error, only logged, or a restart of the worker, between two awaits.
Crash(b) ==
    /\ beat[b].phase \notin {"new", "done"}
    /\ Ends(b)
    /\ UNCHANGED <<now, visits, ref, stats, prem, banned, hook, cron, paying>>

-------------------------------------------------------------------------------
(* The rest of the system *)

\* moderateUser bans the referrer for good.
Ban ==
    /\ ~banned
    /\ banned' = TRUE
    /\ UNCHANGED <<now, visits, ref, stats, prem, beat, hook, cron, paying>>

\* revenueCatWebhook reads the user ...
HookRead(type) ==
    /\ hook.phase = "idle"
    /\ now < LastWork
    /\ paying = (type = "expiration")
    /\ hook' = [phase |-> "read", type |-> type, seen |-> prem.on]
    /\ UNCHANGED <<now, visits, ref, stats, prem, banned, beat, cron, paying>>

\* ... and saves it: save() writes isPremium only if the event changes it.
HookSave ==
    /\ hook.phase = "read"
    /\ LET on == hook.type = "purchase"
       IN  /\ prem' = IF on # hook.seen THEN [prem EXCEPT !.on = on] ELSE prem
           /\ paying' = on
    /\ hook' = NoHook
    /\ UNCHANGED <<now, visits, ref, stats, banned, beat, cron>>

\* expireReferralRewardsAndApplyBanked: one updateMany ends the rewards that are over, ...
CronExpire ==
    /\ cron = "idle"
    /\ prem' = IF prem.source = "referral_reward" /\ prem.expires # NoTime /\ prem.expires <= now
               THEN [prem EXCEPT !.on = FALSE, !.source = "none", !.expires = NoTime]
               ELSE prem
    /\ cron' = "expired"
    /\ UNCHANGED <<now, visits, ref, stats, banned, beat, hook, paying>>

\* ... then months put aside are granted to those who are no longer premium.
CronApply ==
    /\ cron = "expired"
    /\ prem' = IF prem.banked /\ ~prem.on
               THEN [on |-> TRUE, source |-> "referral_reward", expires |-> now + RewardLen,
                     banked |-> FALSE]
               ELSE prem
    /\ cron' = "idle"
    /\ UNCHANGED <<now, visits, ref, stats, banned, beat, hook, paying>>

Idle == hook.phase = "idle" /\ \A b \in Beat : beat[b].phase \in {"new", "done"}

Tick ==
    /\ now < MaxTime
    /\ now >= LastWork => Idle
    /\ now' = now + 1
    /\ UNCHANGED <<visits, ref, stats, prem, banned, beat, hook, cron, paying>>

Validate(b) ==
    \/ Claim(b)
    \/ ReadReferrer(b)
    \/ Bump(b)
    \/ Mark(b)
    \/ ReadPremium(b)
    \/ Grant(b)

Next ==
    \/ \E u \in Friend : Redeem(u) \/ \E b \in Beat : Visit(b, u)
    \/ \E b \in Beat : CountVisits(b) \/ Validate(b) \/ Crash(b)
    \/ Ban
    \/ \E type \in {"purchase", "expiration"} : HookRead(type)
    \/ HookSave
    \/ CronExpire
    \/ CronApply
    \/ Tick

Spec == Init /\ [][Next]_vars

\* Handlers come to an end, the clock runs, the cron runs every night.
Fairness ==
    /\ WF_vars(Tick) /\ WF_vars(CronExpire) /\ WF_vars(CronApply) /\ WF_vars(HookSave)
    /\ \A b \in Beat : WF_vars(CountVisits(b) \/ Validate(b) \/ Crash(b))

-------------------------------------------------------------------------------
(* Properties *)

Validated(m) == {u \in Friend : ref[u].status = "validated" /\ ref[u].month = m}

\* However many first visits are validated at once, across the end of a month and
\* with handlers that die half-way, the referrer is never counted a friend too many ...
NeverOvercounted ==
    /\ stats.count <= Cardinality(Validated(stats.month))
    /\ stats.total <= Cardinality({u \in Friend : ref[u].status = "validated"})

\* ... and is rewarded only for a month in which it validated Target friends.
RewardEarned ==
    stats.granted # NoMonth => Cardinality(Validated(stats.granted)) >= Target

\* The offered month ends by itself.
RewardEnds == <>[](prem.source # "referral_reward")

-------------------------------------------------------------------------------
(* What the comments of the code say, and it does not do *)

\* referral.service.js:206-208 and models/User.js:113-116: the offered month does not
\* touch a paid subscription.
PaidStaysPremium == paying /\ hook.phase = "idle" => prem.on
===============================================================================
