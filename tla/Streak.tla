-------------------------------- MODULE Streak --------------------------------
(***************************************************************************)
(* The daily streak of one user: every authenticated request reports, in   *)
(* the background, that the user is active; a run of consecutive civil     *)
(* days (UTC) earns rewards to be claimed, a missed day loses it           *)
(* (middlewares/auth.js, services/streak.service.js).  A report reads the  *)
(* user twice and then writes absolute values; a claim reads and then      *)
(* increments; the nightly decay finds and then updates by id.             *)
(***************************************************************************)
EXTENDS Integers

CONSTANTS
    Worker,      \* requests in progress at once, at most
    Half, Full,  \* the streaks that earn a superlike (7) and a boost (14)
    DayLen,      \* clock units in a civil day
    MaxRewards,  \* bound: rewards claimed
    LastVisit,   \* bound: no request starts after this time
    MaxTime      \* bound: the clock stops here

VARIABLES
    now,    \* Date.now(); the user signed up at 0
    user,   \* the streak fields of the user's document
    job,    \* per worker, the report or the claim it is handling
    cron,   \* "found" between the find and the updateMany of decayInactiveUsers
    run     \* consecutive active days since the last break or boost (not in the code)

vars == <<now, user, job, cron, run>>

Document == [count : 0 .. Full, login : Nat, supervise : BOOLEAN, boost : BOOLEAN,
             superlikes : Nat, boosts : Nat]

Job == [phase : {"idle", "count", "write", "reset", "supervise", "boost"},
        at : Nat, next : 0 .. Full]

NoJob == [phase |-> "idle", at |-> 0, next |-> 0]

TypeOK ==
    /\ now \in Nat
    /\ user \in Document
    /\ job \in [Worker -> Job]
    /\ cron \in {"idle", "found"}
    /\ run \in Nat

Init ==
    /\ now = 0
    /\ user = [count |-> 0, login |-> 0, supervise |-> FALSE, boost |-> FALSE,
               superlikes |-> 0, boosts |-> 0]
    /\ job = [w \in Worker |-> NoJob]
    /\ cron = "idle"
    /\ run = 0

-------------------------------------------------------------------------------

Day(t) == t \div DayLen

\* Mutant of CalendarDayGap: elapsed days instead of civil days.
CalendarDayGap_Elapsed(from, to) == (to - from) \div DayLen

CalendarDayGap(from, to) == Day(to) - Day(from)

AtMost(a, b) == IF a < b THEN a ELSE b

Free(w) == job[w].phase = "idle" /\ now <= LastVisit

Becomes(w, phase) == job' = [job EXCEPT ![w] = [@ EXCEPT !.phase = phase, !.at = now]]

Ends(w) == job' = [job EXCEPT ![w] = NoJob]

\* requireAuth reads lastLoginAt; nothing is left to report on the same civil day.
Report(w) ==
    /\ Free(w)
    /\ LET gap == CalendarDayGap(user.login, now)
       IN  gap > 0 /\ Becomes(w, IF gap = 1 THEN "count" ELSE "reset")
    /\ UNCHANGED <<now, user, cron, run>>

\* Mutant of NextDayCount: the streak grows past a full one.
NextDayCount_NoCap == user.count + 1

NextDayCount == AtMost(Full, user.count + 1)

\* The run of days after a report made at time t: its first day counts for nothing.
RunAfter(t) ==
    CASE Day(t) = Day(user.login)     -> run
      [] Day(t) = Day(user.login) + 1 -> run + 1
      [] OTHER                        -> 0

\* Mutant of ReadCount: the gap is taken again from the user just read, and is 0 by now.
ReadCount_GapAgain(w) ==
    /\ job[w].phase = "count"
    /\ job' = [job EXCEPT ![w] = IF CalendarDayGap(user.login, now) = 1
                                 THEN [@ EXCEPT !.phase = "write", !.next = NextDayCount]
                                 ELSE [@ EXCEPT !.phase = "reset"]]
    /\ UNCHANGED <<now, user, cron, run>>

\* recordDailyActivity, the day after: the streak is read ...
ReadCount(w) ==
    /\ job[w].phase = "count"
    /\ job' = [job EXCEPT ![w] = [@ EXCEPT !.phase = "write", !.next = NextDayCount]]
    /\ UNCHANGED <<now, user, cron, run>>

\* ... and written.
WriteCount(w) ==
    /\ job[w].phase = "write"
    /\ LET n == job[w].next
       IN  user' = [user EXCEPT !.count = n, !.login = job[w].at,
                                !.supervise = @ \/ n = Half, !.boost = @ \/ n = Full]
    /\ run' = RunAfter(job[w].at)
    /\ Ends(w)
    /\ UNCHANGED <<now, cron>>

\* recordDailyActivity, after a missed day: back to 0.
Reset(w) ==
    /\ job[w].phase = "reset"
    /\ user' = [user EXCEPT !.count = 0, !.login = job[w].at,
                            !.supervise = FALSE, !.boost = FALSE]
    /\ run' = RunAfter(job[w].at)
    /\ Ends(w)
    /\ UNCHANGED <<now, cron>>

\* claimSupervise and claimBoost read that a reward is pending (409 if none is) ...
ClaimRead(w, reward) ==
    /\ Free(w)
    /\ user.superlikes + user.boosts < MaxRewards
    /\ IF reward = "supervise" THEN user.supervise ELSE user.boost
    /\ Becomes(w, reward)
    /\ UNCHANGED <<now, user, cron, run>>

\* Mutant of ClaimSupervise: the reward stays pending.
ClaimSupervise_KeepsFlag(w) ==
    /\ job[w].phase = "supervise"
    /\ user' = [user EXCEPT !.superlikes = @ + 1]
    /\ Ends(w)
    /\ UNCHANGED <<now, cron, run>>

\* ... and then deliver it.
ClaimSupervise(w) ==
    /\ job[w].phase = "supervise"
    /\ user' = [user EXCEPT !.superlikes = @ + 1, !.supervise = FALSE]
    /\ Ends(w)
    /\ UNCHANGED <<now, cron, run>>

\* A boost ends the cycle: the streak starts from 0 again.
ClaimBoost(w) ==
    /\ job[w].phase = "boost"
    /\ user' = [user EXCEPT !.boosts = @ + 1, !.boost = FALSE, !.count = 0]
    /\ run' = 0
    /\ Ends(w)
    /\ UNCHANGED <<now, cron>>

\* Mutants of Decayable: one day of inactivity is enough; a full streak is spared.
Decayable_NextDay == user.count > 0 /\ CalendarDayGap(user.login, now) >= 1
Decayable_SparesFull == user.count \in 1 .. Full - 1 /\ CalendarDayGap(user.login, now) >= 2

\* decayInactiveUsers: whom the cron finds, ...
Decayable == user.count > 0 /\ CalendarDayGap(user.login, now) >= 2

DecayFind ==
    /\ cron = "idle"
    /\ Decayable
    /\ cron' = "found"
    /\ UNCHANGED <<now, user, job, run>>

\* ... and what it does to them.
DecayClear ==
    /\ cron = "found"
    /\ user' = [user EXCEPT !.count = 0, !.supervise = FALSE, !.boost = FALSE]
    /\ run' = 0
    /\ cron' = "idle"
    /\ UNCHANGED <<now, job>>

\* The process restarts: what it was handling is gone.
Crash(w) ==
    /\ job[w].phase # "idle"
    /\ Ends(w)
    /\ UNCHANGED <<now, user, cron, run>>

\* Handlers and the cron take far less than a clock unit.
Tick ==
    /\ now < MaxTime
    /\ cron = "idle"
    /\ \A w \in Worker : job[w].phase = "idle"
    /\ now' = now + 1
    /\ UNCHANGED <<user, job, cron, run>>

Complete(w) == WriteCount(w) \/ Reset(w) \/ ClaimSupervise(w) \/ ClaimBoost(w)

Next ==
    \/ \E w \in Worker : Report(w) \/ ReadCount(w) \/ Complete(w) \/ Crash(w)
    \/ \E w \in Worker, reward \in {"supervise", "boost"} : ClaimRead(w, reward)
    \/ DecayFind
    \/ DecayClear
    \/ Tick

Spec == Init /\ [][Next]_vars

\* A worker does not restart for ever, the clock runs however many requests there
\* are, the cron runs every night.
Fairness ==
    /\ SF_vars(Tick) /\ WF_vars(DecayFind) /\ WF_vars(DecayClear)
    /\ \A w \in Worker : SF_vars(ReadCount(w)) /\ SF_vars(Complete(w))

-------------------------------------------------------------------------------
(* Properties *)

\* The streak shown is the number of consecutive civil days with a report, up to
\* the cap, whenever in the day the requests fall.
CountIsRun == user.count = AtMost(Full, run)

\* However reports, claims and the decay overlap, no day is lost: the streak is at least the run
\* of consecutive civil days with a report, up to the cap, and a full run has its boost to claim.
NoDayLost ==
    /\ AtMost(Full, run) <= user.count
    /\ run >= Full => user.boost

\* A reward takes its days: whatever is claimed and lost in between, so many boosts
\* and superlikes need so many days.
RewardsEarned ==
    /\ user.boosts * Full <= Day(now)
    /\ user.superlikes * Half <= Day(now)

\* The decay takes nothing from a user who was active today or the day before, even
\* if a request comes between its find and its update.
DecaySparesActive ==
    [][ cron = "found" /\ cron' = "idle" /\ CalendarDayGap(user.login, now) <= 1
        => user.count = 0 ]_vars

\* Without a new visit every streak is lost in the end, the longest too.
StreakDecays == <>[](user.count = 0)

===============================================================================
