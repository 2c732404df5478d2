------------------------------- MODULE PolicyMail -------------------------------
(***************************************************************************)
(* The mailing that announces a new privacy policy                         *)
(* (services/policyNotification.service.js): a job per version, drained by *)
(* a tick of the cron every minute, a batch of users at a time in the      *)
(* order of their ids.  The cursor is saved once per batch, so that a tick *)
(* which dies leaves its batch to the next, and a batch that takes longer  *)
(* than a minute overlaps with the next tick, which starts from the cursor *)
(* it finds.                                                               *)
(*                                                                         *)
(* Users are numbered by their ids; those who sign up during a mailing     *)
(* have higher ones and are left out.                                      *)
(***************************************************************************)
EXTENDS Integers, FiniteSets

CONSTANTS
    Users,      \* the number of users
    Jobs,       \* bound: versions published
    BatchSize,
    Tick,       \* bound: ticks at work at once
    None

ASSUME SizeAssumption == Users \in Nat /\ Jobs \in Nat /\ BatchSize \in Nat \ {0}

VARIABLES
    job,        \* the jobs, numbered in order of creation
    announcing, \* versions inserted whose job is not created yet
    silent,     \* versions whose job was not created
    member,     \* the users who still have an account
    tick,       \* the ticks at work
    tried       \* <<job, user>>: that mail was handed to the SMTP server, or refused by it

vars == <<job, announcing, silent, member, tick, tried>>
versions == <<announcing, silent>>

User == 1 .. Users
Job == 1 .. Jobs

JobDocument == [status : {"pending", "processing", "done"}, cursor : 0 .. Users]

ASSUME NoneAssumption == None \notin JobDocument

\* The job as loaded; cursor is the one in memory.
Work == [job : Job, status : {"pending", "processing", "done"}, cursor : 0 .. Users,
         phase : {"users", "send", "close"}, batch : SUBSET User]

TypeOK ==
    /\ job \in [Job -> JobDocument \cup {None}]
    /\ announcing \in Nat /\ silent \in Nat
    /\ member \subseteq User
    /\ tick \in [Tick -> Work \cup {None}]
    /\ tried \subseteq Job \X User

Init ==
    /\ job = [j \in Job |-> None]
    /\ announcing = 0 /\ silent = 0
    /\ member = User
    /\ tick = [t \in Tick |-> None]
    /\ tried = {}

-------------------------------------------------------------------------------

\* updatePolicy inserts the version, and then creates its job.
Publish ==
    /\ announcing + silent + Cardinality({j \in Job : job[j] # None}) < Jobs
    /\ announcing' = announcing + 1
    /\ UNCHANGED <<job, silent, member, tick, tried>>

EnqueuePolicyEmailJob(j) ==
    /\ announcing > 0 /\ announcing' = announcing - 1
    /\ job[j] = None /\ \A i \in 1 .. (j - 1) : job[i] # None
    /\ job' = [job EXCEPT ![j] = [status |-> "pending", cursor |-> 0]]
    /\ UNCHANGED <<silent, member, tick, tried>>

\* The creation fails, which is only logged, or the process dies before it: nobody is mailed
\* that version.
EnqueueFails ==
    /\ announcing > 0 /\ announcing' = announcing - 1
    /\ silent' = silent + 1
    /\ UNCHANGED <<job, member, tick, tried>>

Open(j) == job[j] # None /\ job[j].status # "done"

\* The oldest open job.
LoadJob(t) ==
    /\ tick[t] = None
    /\ \E j \in Job :
         /\ Open(j) /\ \A i \in 1 .. (j - 1) : ~Open(i)
         /\ tick' = [tick EXCEPT ![t] = [job |-> j, status |-> job[j].status,
                                         cursor |-> job[j].cursor, phase |-> "users", batch |-> {}]]
    /\ UNCHANGED <<job, versions, member, tried>>

In(t, phase) == tick[t] # None /\ tick[t].phase = phase

After(cursor) == {u \in member : u > cursor}

\* Mutant of FirstOf: the newest accounts first.
FirstOf_Newest(S) == {u \in S : Cardinality({v \in S : v > u}) < BatchSize}

\* sort by id, then limit
FirstOf(S) == {u \in S : Cardinality({v \in S : v < u}) < BatchSize}

FindUsers(t) ==
    /\ In(t, "users")
    /\ LET rest == After(tick[t].cursor)
       IN  tick' = [tick EXCEPT ![t].batch = FirstOf(rest),
                                ![t].phase = IF rest = {} THEN "close" ELSE "send"]
    /\ UNCHANGED <<job, versions, member, tried>>

\* A mail that fails is only counted.
Send(t, u) ==
    /\ In(t, "send")
    /\ u \in tick[t].batch /\ \A v \in tick[t].batch : u <= v
    /\ tick' = [tick EXCEPT ![t].cursor = u, ![t].batch = @ \ {u}]
    /\ tried' = tried \cup {<<tick[t].job, u>>}
    /\ UNCHANGED <<job, versions, member>>

\* Fields assigned what they were are not written: a status loaded as 'processing' stays
\* what it has become, one loaded as 'pending' may open the job again.
SaveProgress(t) ==
    /\ In(t, "send") /\ tick[t].batch = {}
    /\ LET w == tick[t]
       IN  job' = [job EXCEPT ![w.job].cursor = w.cursor,
                              ![w.job].status = IF w.status = "pending" THEN "processing" ELSE @]
    /\ tick' = [tick EXCEPT ![t] = None]
    /\ UNCHANGED <<versions, member, tried>>

Close(t) ==
    /\ In(t, "close")
    /\ job' = [job EXCEPT ![tick[t].job].status = "done"]
    /\ tick' = [tick EXCEPT ![t] = None]
    /\ UNCHANGED <<versions, member, tried>>

\* An account is deleted.
Leave(u) ==
    /\ member' = member \ {u}
    /\ UNCHANGED <<job, versions, tick, tried>>

\* The process dies, or the tick fails.
Die(t) ==
    /\ tick[t] # None
    /\ tick' = [tick EXCEPT ![t] = None]
    /\ UNCHANGED <<job, versions, member, tried>>

-------------------------------------------------------------------------------

Works(t) == FindUsers(t) \/ SaveProgress(t) \/ Close(t) \/ \E u \in User : Send(t, u)

Next ==
    \/ Publish \/ EnqueueFails \/ \E j \in Job : EnqueuePolicyEmailJob(j)
    \/ \E t \in Tick : LoadJob(t) \/ Works(t) \/ Die(t)
    \/ \E u \in member : Leave(u)

\* The cron ticks, each tick goes on, and in the end the process stays up.
Fairness ==
    /\ \A t \in Tick : WF_vars(Works(t))
    /\ WF_vars(\E t \in Tick : LoadJob(t))
    /\ <>[][\A t \in Tick : Die(t) => Works(t)]_vars

Safety == Init /\ [][Next]_vars

Spec == Safety /\ Fairness

-------------------------------------------------------------------------------

\* A mailing that is done has skipped nobody, whichever ticks overlapped or died: a stale tick
\* may put the cursor back, never ahead of the mails.
NobodySkipped ==
    \A j \in Job : job[j] # None /\ job[j].status = "done" =>
        \A u \in member : <<j, u>> \in tried

\* In the end each user was tried for each version whose job was created, unless the account
\* was deleted first.  A version whose job was not is mailed to nobody (gdpr.controller.js:132).
EveryoneMailed ==
    <>[](\A j \in Job, u \in member : job[j] # None => <<j, u>> \in tried)
===============================================================================
