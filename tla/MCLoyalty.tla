------------------------------- MODULE MCLoyalty -------------------------------
(* The referral programme and the daily streak in one run.  They share no state, so a    *)
(* behaviour is one of either, the streak's with the user's requests alone or            *)
(* overlapping.  Two friends make the target, rewards come at 2 and 3 days instead of 7  *)
(* and 14; months, rewards and days are short enough for validations and visits to fall  *)
(* on both sides of their ends.                                                          *)
EXTENDS Referral

CONSTANTS Worker, Half, Full, DayLen, MaxRewards, LastVisit, Evening

ASSUME StreakAssumption ==
    /\ Half \in Nat /\ Full \in Nat /\ 0 < Half /\ Half < Full
    /\ DayLen \in Nat \ {0}

VARIABLES
    clock, user, job, nightly, days,   \* of Streak
    side                               \* which of them runs, and how

S == INSTANCE Streak WITH now <- clock, cron <- nightly, run <- days, MaxTime <- Evening

streak == <<clock, user, job, nightly, days>>

LoyaltyInit == Init /\ S!Init /\ side \in {"referral", "alone", "overlap"}

\* One request of the user is in progress at a time.
Alone == \A v, w \in Worker : job[v].phase # "idle" /\ job[w].phase # "idle" => v = w

LoyaltyNext ==
    /\ UNCHANGED side
    /\ \/ side = "referral" /\ Next /\ UNCHANGED streak
       \/ side # "referral" /\ S!Next /\ (side = "alone" => Alone') /\ UNCHANGED vars

Loyalty ==
    /\ LoyaltyInit /\ [][LoyaltyNext]_<<vars, streak, side>>
    /\ side = "referral" => Fairness
    /\ side # "referral" => S!Fairness

LoyaltyTypeOK == TypeOK /\ S!TypeOK

\* Both: no friend is counted twice, however many visits are validated at once, and the
\* streak shown is the run of consecutive civil days with a report; overlapping requests of
\* the user may count a day twice, but never lose one, nor the boost of a full run.
CountsRight ==
    /\ NeverOvercounted
    /\ S!NoDayLost
    /\ side = "alone" => S!CountIsRun

\* Both: no month of Premium without its friends, no boost or superlike without its days,
\* unless requests overlap, which deliver one pending reward twice.
RewardsEarned == RewardEarned /\ (side = "alone" => S!RewardsEarned)

\* Streak: the nightly decay takes nothing from a user who was active today or yesterday.
DecaySparesActive ==
    [][ nightly = "found" /\ nightly' = "idle" /\ S!CalendarDayGap(user.login, clock) <= 1
        => user.count = 0 ]_streak

\* Both: an offered month ends by itself, and so does every abandoned streak.
EndsAtLast == RewardEnds /\ (side # "referral" => S!StreakDecays)
===============================================================================
