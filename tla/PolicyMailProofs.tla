---------------------------- MODULE PolicyMailProofs ----------------------------
(***************************************************************************)
(* What the mailing of a policy promises for any number of users, versions *)
(* and overlapping ticks, and any size of the batches; and the shape of    *)
(* one user's consent, for any number of requests.                         *)
(***************************************************************************)
EXTENDS MCPolicy, Sequences, FiniteSetTheorems, TLAPS

USE SizeAssumption DEF User, Job

-------------------------------------------------------------------------------
(* The inductive invariant *)

\* Every user up to the cursor who still has an account was tried.
MailedUpTo(j, c) == \A u \in member : u <= c => <<j, u>> \in tried

Mailed(j) == \A u \in member : <<j, u>> \in tried

\* No cursor in the database is ahead of the mails, and what is done is mailed.
JobsSound ==
    \A j \in Job : job[j] # None =>
        /\ MailedUpTo(j, job[j].cursor)
        /\ job[j].status = "done" => Mailed(j)

\* Nor is the cursor of a tick; its batch leaves out no user between two of its own.
WorkSound(w) ==
    /\ job[w.job] \in JobDocument
    /\ MailedUpTo(w.job, w.cursor)
    /\ w.phase = "close" => Mailed(w.job)
    /\ w.phase = "send" =>
         \A b \in w.batch :
            /\ w.cursor < b
            /\ \A v \in member : w.cursor < v /\ v < b => v \in w.batch

TicksSound == \A t \in Tick : tick[t] # None => WorkSound(tick[t])

MailInv == TypeOK /\ JobsSound /\ TicksSound

-------------------------------------------------------------------------------
(* The sorted and limited query *)

LEMMA FirstOfIsInitial ==
    ASSUME NEW S \in SUBSET User
    PROVE  /\ FirstOf(S) \subseteq S
           /\ \A b \in FirstOf(S), v \in S : v < b => v \in FirstOf(S)
<1>1. FirstOf(S) \subseteq S
  BY DEF FirstOf
<1>2. ASSUME NEW b \in FirstOf(S), NEW v \in S, v < b
      PROVE  v \in FirstOf(S)
  <2> DEFINE Below(x) == {y \in S : y < x}
  <2>1. IsFiniteSet(Below(b))
    <3>1. IsFiniteSet(User)
      BY FS_Interval
    <3>2. QED
      BY <3>1, FS_Subset
  <2>2. Below(v) \in SUBSET Below(b)
    <3>1. v \in Nat /\ b \in Nat /\ \A y \in S : y \in Nat
      <4>1. \A y \in User : y \in Nat
        OBVIOUS
      <4>2. S \subseteq User /\ b \in S
        BY <1>1
      <4> HIDE DEF User
      <4>3. QED
        BY <4>1, <4>2
    <3>2. \A y \in S : y < v => y < b
      BY <1>2, <3>1
    <3>3. QED
      BY <3>2
  <2>3. Cardinality(Below(v)) <= Cardinality(Below(b))
    BY <2>1, <2>2, FS_Subset
  <2>4. Cardinality(Below(v)) \in Nat /\ Cardinality(Below(b)) \in Nat
    BY <2>1, <2>2, FS_Subset, FS_CardinalityType
  <2>5. Cardinality(Below(b)) < BatchSize
    BY DEF FirstOf
  <2>6. Cardinality(Below(v)) < BatchSize
    BY <2>3, <2>4, <2>5
  <2>7. QED
    BY <2>6 DEF FirstOf
<1>3. QED
  BY <1>1, <1>2

-------------------------------------------------------------------------------
(* Frames *)

\* Mails are never unsent and members never come back: what is mailed stays mailed.
LEMMA MailedStays ==
    ASSUME member' \subseteq member, tried \subseteq tried'
    PROVE  /\ \A j, c : MailedUpTo(j, c) => MailedUpTo(j, c)'
           /\ \A j : Mailed(j) => Mailed(j)'
BY DEF MailedUpTo, Mailed

\* A step that leaves the jobs alone keeps them sound.
LEMMA JobsStay ==
    ASSUME JobsSound, UNCHANGED job, member' \subseteq member, tried \subseteq tried'
    PROVE  JobsSound'
BY MailedStays DEF JobsSound, MailedUpTo, Mailed

-------------------------------------------------------------------------------
(* The invariant holds *)

LEMMA InitMailInv == Init => MailInv
<1>1. SUFFICES ASSUME Init PROVE MailInv
  OBVIOUS
<1>2. TypeOK
  BY <1>1 DEF Init, TypeOK
<1>3. JobsSound /\ TicksSound
  BY <1>1 DEF Init, JobsSound, TicksSound
<1>4. QED
  BY <1>2, <1>3 DEF MailInv

\* A tick that is replaced: the others stay what they were.
LEMMA TickChanges ==
    ASSUME MailInv, NEW t \in Tick, NEW w \in Work \cup {None},
           tick' = [tick EXCEPT ![t] = w],
           w # None => WorkSound(w)',
           member' \subseteq member, tried \subseteq tried',
           \A j \in Job : job[j] \in JobDocument => job'[j] \in JobDocument
    PROVE  TicksSound' /\ tick' \in [Tick -> Work \cup {None}]
<1>1. tick \in [Tick -> Work \cup {None}]
  BY DEF MailInv, TypeOK
<1>2. tick' \in [Tick -> Work \cup {None}]
  BY <1>1
<1>3. ASSUME NEW s \in Tick, tick'[s] # None
      PROVE  WorkSound(tick[s])'
  <2>1. CASE s = t
    BY <2>1, <1>1, <1>3
  <2>2. CASE s # t
    <3>1. tick'[s] = tick[s] /\ tick[s] # None /\ tick[s] \in Work
      BY <2>2, <1>1, <1>3
    <3>2. WorkSound(tick[s]) /\ tick[s].job \in Job
      BY <3>1 DEF MailInv, TicksSound, Work
    <3>3. QED
      BY <3>1, <3>2 DEF WorkSound, MailedUpTo, Mailed
  <2>3. QED
    BY <2>1, <2>2
<1>4. QED
  BY <1>2, <1>3 DEF TicksSound

-------------------------------------------------------------------------------
(* Each action *)

USE DEF versions

LEMMA VersionsKeep ==
    ASSUME MailInv, Publish \/ EnqueueFails
    PROVE  MailInv'
<1>1. UNCHANGED <<job, member, tick, tried>> /\ announcing' \in Nat /\ silent' \in Nat
  BY DEF Publish, EnqueueFails, MailInv, TypeOK
<1>2. QED
  BY <1>1 DEF MailInv, TypeOK, JobsSound, TicksSound, WorkSound, MailedUpTo, Mailed

LEMMA EnqueueKeeps ==
    ASSUME MailInv, NEW j \in Job, EnqueuePolicyEmailJob(j)
    PROVE  MailInv'
<1> USE DEF EnqueuePolicyEmailJob
<1>1. TypeOK'
  BY DEF MailInv, TypeOK, JobDocument
<1>2. JobsSound'
  BY DEF MailInv, TypeOK, JobsSound, MailedUpTo, Mailed
<1>3. TicksSound'
  BY DEF MailInv, TypeOK, TicksSound, WorkSound, MailedUpTo, Mailed, Work, JobDocument
<1>4. QED
  BY <1>1, <1>2, <1>3 DEF MailInv

LEMMA LoadJobKeeps ==
    ASSUME MailInv, NEW t \in Tick, LoadJob(t)
    PROVE  MailInv'
<1>1. PICK j \in Job :
        /\ Open(j)
        /\ tick' = [tick EXCEPT ![t] = [job |-> j, status |-> job[j].status,
                                        cursor |-> job[j].cursor, phase |-> "users", batch |-> {}]]
  BY DEF LoadJob
<1> DEFINE w == [job |-> j, status |-> job[j].status,
                 cursor |-> job[j].cursor, phase |-> "users", batch |-> {}]
<1>2. job[j] \in JobDocument /\ job[j] # None
  BY <1>1 DEF Open, MailInv, TypeOK
<1>3. w \in Work
  BY <1>2 DEF Work, JobDocument
<1>4. UNCHANGED <<job, versions, member, tried>>
  BY DEF LoadJob
<1>5. WorkSound(w)'
  BY <1>2, <1>4 DEF WorkSound, MailInv, JobsSound, MailedUpTo
<1>6. TicksSound' /\ tick' \in [Tick -> Work \cup {None}]
  BY <1>1, <1>3, <1>4, <1>5, TickChanges
<1>7. JobsSound'
  BY <1>4, JobsStay DEF MailInv
<1>8. QED
  BY <1>4, <1>6, <1>7 DEF MailInv, TypeOK

LEMMA FindUsersKeeps ==
    ASSUME MailInv, NEW t \in Tick, FindUsers(t)
    PROVE  MailInv'
<1> DEFINE rest == After(tick[t].cursor)
<1>1. tick[t] \in Work /\ tick[t] # None /\ WorkSound(tick[t])
  BY DEF FindUsers, In, MailInv, TypeOK, TicksSound
<1>2. UNCHANGED <<job, versions, member, tried>>
  BY DEF FindUsers
<1>3. rest \in SUBSET User /\ member \subseteq User
  BY DEF After, MailInv, TypeOK
<1>4. FirstOf(rest) \subseteq rest /\ \A b \in FirstOf(rest), v \in rest : v < b => v \in FirstOf(rest)
  BY <1>3, FirstOfIsInitial
<1>5. PICK w \in Work : /\ tick' = [tick EXCEPT ![t] = w]
                        /\ w.job = tick[t].job /\ w.cursor = tick[t].cursor
                        /\ w.batch = FirstOf(rest)
                        /\ w.phase = "close" => rest = {}
  <2> DEFINE w == [tick[t] EXCEPT !.batch = FirstOf(rest),
                                  !.phase = IF rest = {} THEN "close" ELSE "send"]
  <2>1. w \in Work
    BY <1>1, <1>3, <1>4 DEF Work
  <2>2. tick' = [tick EXCEPT ![t] = w]
    BY <1>1 DEF FindUsers, MailInv, TypeOK, Work
  <2>3. w.job = tick[t].job /\ w.cursor = tick[t].cursor /\ w.batch = FirstOf(rest)
        /\ (w.phase = "close" => rest = {})
    BY <1>1 DEF Work
  <2>4. QED
    BY <2>1, <2>2, <2>3
<1>6. WorkSound(w)
  <2>1. w.cursor \in Nat
    BY <1>1, <1>5 DEF Work
  <2>2. (\A v \in member : w.cursor < v => v \in rest) /\ (\A b \in rest : w.cursor < b)
    BY <1>3, <1>5, <2>1 DEF After
  <2>3. ASSUME rest = {} PROVE Mailed(w.job)
    <3>1. \A u \in member : u <= w.cursor
      BY <2>1, <2>2, <2>3, <1>3
    <3>2. QED
      BY <3>1, <1>1, <1>5 DEF WorkSound, MailedUpTo, Mailed
  <2> HIDE DEF rest
  <2>4. w.phase = "send" =>
          \A b \in w.batch : /\ w.cursor < b
                            /\ \A v \in member : w.cursor < v /\ v < b => v \in w.batch
    BY <2>2, <1>4, <1>5
  <2>5. job[w.job] \in JobDocument /\ MailedUpTo(w.job, w.cursor)
    BY <1>1, <1>5 DEF WorkSound
  <2>6. w.phase = "close" => Mailed(w.job)
    BY <2>3, <1>5
  <2>7. QED
    BY <2>4, <2>5, <2>6 DEF WorkSound
<1>7. WorkSound(w)'
  BY <1>2, <1>6 DEF WorkSound, MailedUpTo, Mailed
<1>8. TicksSound' /\ tick' \in [Tick -> Work \cup {None}]
  <2> HIDE DEF rest
  <2>1. tick' = [tick EXCEPT ![t] = w] /\ w \in Work \cup {None}
    BY <1>5
  <2>2. QED
    BY <1>2, <1>7, <2>1, TickChanges
<1>9. JobsSound'
  BY <1>2, JobsStay DEF MailInv
<1>10. QED
  BY <1>2, <1>8, <1>9 DEF MailInv, TypeOK

LEMMA SendKeeps ==
    ASSUME MailInv, NEW t \in Tick, NEW u \in User, Send(t, u)
    PROVE  MailInv'
<1>1. /\ tick[t] \in Work /\ tick[t] # None /\ tick[t].phase = "send"
      /\ WorkSound(tick[t]) /\ u \in tick[t].batch /\ \A v \in tick[t].batch : u <= v
  BY DEF Send, In, MailInv, TypeOK, TicksSound
<1>2. UNCHANGED <<job, versions, member>> /\ tried' = tried \cup {<<tick[t].job, u>>}
  BY DEF Send
<1>3. PICK w \in Work : /\ tick' = [tick EXCEPT ![t] = w]
                        /\ w.job = tick[t].job /\ w.cursor = u /\ w.phase = "send"
                        /\ w.batch = tick[t].batch \ {u}
  <2> DEFINE w == [tick[t] EXCEPT !.cursor = u, !.batch = @ \ {u}]
  <2>1. w \in Work
    <3>1. u \in 0 .. Users /\ tick[t].batch \ {u} \in SUBSET User
      BY <1>1 DEF Work
    <3>2. QED
      BY <1>1, <3>1 DEF Work
  <2>2. tick' = [tick EXCEPT ![t] = w]
    BY <1>1 DEF Send, MailInv, TypeOK, Work
  <2>3. w.job = tick[t].job /\ w.cursor = u /\ w.phase = "send" /\ w.batch = tick[t].batch \ {u}
    BY <1>1 DEF Work
  <2>4. QED
    BY <2>1, <2>2, <2>3
<1>4. member \subseteq Nat /\ tick[t].batch \subseteq Nat /\ tick[t].cursor \in Nat /\ u \in Nat
  BY <1>1 DEF MailInv, TypeOK, Work
<1>5. \A v \in member : v < u => v <= tick[t].cursor
  <2>1. SUFFICES ASSUME NEW v \in member, v < u, ~(v <= tick[t].cursor) PROVE FALSE
    OBVIOUS
  <2>2. tick[t].cursor < v
    BY <1>4, <2>1
  <2>3. v \in tick[t].batch
    BY <1>1, <2>1, <2>2 DEF WorkSound
  <2>4. QED
    BY <1>1, <1>4, <2>1, <2>3
<1>6. WorkSound(w)'
  <2>1. job'[w.job] \in JobDocument
    BY <1>1, <1>2, <1>3 DEF WorkSound
  <2>2. MailedUpTo(w.job, w.cursor)'
    <3>1. SUFFICES ASSUME NEW v \in member, v <= u PROVE <<tick[t].job, v>> \in tried'
      BY <1>2, <1>3 DEF MailedUpTo
    <3>2. v = u \/ v < u
      BY <1>4, <3>1
    <3>3. QED
      BY <1>1, <1>2, <1>5, <3>2 DEF WorkSound, MailedUpTo
  <2>3. \A b \in w.batch : /\ u < b
                          /\ \A v \in member : u < v /\ v < b => v \in w.batch
    <3>1. SUFFICES ASSUME NEW b \in w.batch
                   PROVE  u < b /\ \A v \in member : u < v /\ v < b => v \in w.batch
      OBVIOUS
    <3>2. b \in tick[t].batch /\ b # u /\ b \in Nat
      BY <1>3, <1>4
    <3>3. u < b
      BY <1>1, <1>4, <3>2
    <3>4. ASSUME NEW v \in member, u < v, v < b PROVE v \in w.batch
      <4>1. tick[t].cursor < v
        BY <1>1, <1>4, <3>4 DEF WorkSound
      <4>2. v \in tick[t].batch
        BY <1>1, <3>2, <3>4, <4>1 DEF WorkSound
      <4>3. QED
        BY <1>3, <1>4, <3>4, <4>2
    <3>5. QED
      BY <3>3, <3>4
  <2>4. QED
    BY <1>2, <1>3, <2>1, <2>2, <2>3 DEF WorkSound
<1>7. TicksSound' /\ tick' \in [Tick -> Work \cup {None}]
  BY <1>2, <1>3, <1>6, TickChanges
<1>8. JobsSound'
  BY <1>2, JobsStay DEF MailInv
<1>9. tried' \subseteq Job \X User
  BY <1>1, <1>2 DEF MailInv, TypeOK, Work
<1>10. QED
  BY <1>2, <1>7, <1>8, <1>9 DEF MailInv, TypeOK

LEMMA SaveProgressKeeps ==
    ASSUME MailInv, NEW t \in Tick, SaveProgress(t)
    PROVE  MailInv'
<1>1. /\ tick[t] \in Work /\ tick[t] # None /\ WorkSound(tick[t])
  BY DEF SaveProgress, In, MailInv, TypeOK, TicksSound
<1>2. /\ UNCHANGED <<versions, member, tried>>
      /\ tick' = [tick EXCEPT ![t] = None]
  BY DEF SaveProgress
<1>3. PICK j \in Job, c \in 0 .. Users :
        /\ j = tick[t].job /\ c = tick[t].cursor
        /\ job[j] \in JobDocument /\ MailedUpTo(j, c)
  BY <1>1 DEF Work, WorkSound
<1>4. PICK s \in {"pending", "processing", "done"} :
        /\ job' = [job EXCEPT ![j] = [status |-> s, cursor |-> c]]
        /\ s = "done" => job[j].status = "done"
  <2> DEFINE s == IF tick[t].status = "pending" THEN "processing" ELSE job[j].status
  <2>1. s \in {"pending", "processing", "done"}
    BY <1>3 DEF JobDocument
  <2>2. job' = [job EXCEPT ![j] = [status |-> s, cursor |-> c]]
    <3>1. job' = [job EXCEPT ![j] = [@ EXCEPT !.cursor = c, !.status = s]]
      BY <1>3 DEF SaveProgress, MailInv, TypeOK
    <3>2. [job[j] EXCEPT !.cursor = c, !.status = s] = [status |-> s, cursor |-> c]
      <4> DEFINE d == [job[j] EXCEPT !.cursor = c, !.status = s]
      <4>1. d \in JobDocument /\ d.status = s /\ d.cursor = c
        BY <1>3, <2>1 DEF JobDocument
      <4> HIDE DEF d
      <4>2. d = [status |-> d.status, cursor |-> d.cursor]
        BY <4>1 DEF JobDocument
      <4>3. d = [status |-> s, cursor |-> c]
        BY <4>1, <4>2
      <4>4. QED
        BY <4>3 DEF d
    <3>3. QED
      BY <3>1, <3>2 DEF MailInv, TypeOK
  <2>3. QED
    BY <2>1, <2>2
<1>5. [status |-> s, cursor |-> c] \in JobDocument
  BY DEF JobDocument
<1>6. job' \in [Job -> JobDocument \cup {None}]
  BY <1>4, <1>5 DEF MailInv, TypeOK
<1>7. \A i \in Job : job[i] \in JobDocument => job'[i] \in JobDocument
  BY <1>4, <1>5 DEF MailInv, TypeOK
<1>8. TicksSound' /\ tick' \in [Tick -> Work \cup {None}]
  BY <1>2, <1>7, TickChanges
<1>9. JobsSound'
  <2>1. SUFFICES ASSUME NEW i \in Job, (job[i] # None)'
                 PROVE  (MailedUpTo(i, job[i].cursor) /\ (job[i].status = "done" => Mailed(i)))'
    BY DEF JobsSound
  <2>2. CASE i = j
    <3>1. job'[i].status = s /\ job'[i].cursor = c
      BY <1>4, <2>2 DEF MailInv, TypeOK
    <3>2. s = "done" => Mailed(i)
      BY <1>3, <1>4, <2>2, NoneAssumption DEF MailInv, JobsSound
    <3>3. QED
      BY <1>2, <1>3, <2>2, <3>1, <3>2 DEF MailedUpTo, Mailed
  <2>3. CASE i # j
    <3>1. job'[i] = job[i]
      BY <1>4, <2>3 DEF MailInv, TypeOK
    <3>2. QED
      BY <1>2, <2>1, <3>1 DEF MailInv, JobsSound, MailedUpTo, Mailed
  <2>4. QED
    BY <2>2, <2>3
<1>10. QED
  BY <1>2, <1>6, <1>8, <1>9 DEF MailInv, TypeOK

LEMMA CloseKeeps ==
    ASSUME MailInv, NEW t \in Tick, Close(t)
    PROVE  MailInv'
<1>1. /\ tick[t] \in Work /\ tick[t] # None /\ WorkSound(tick[t])
      /\ tick[t].phase = "close"
  BY DEF Close, In, MailInv, TypeOK, TicksSound
<1>2. /\ UNCHANGED <<versions, member, tried>>
      /\ tick' = [tick EXCEPT ![t] = None]
  BY DEF Close
<1>3. PICK j \in Job : j = tick[t].job /\ job[j] \in JobDocument /\ Mailed(j)
  BY <1>1 DEF Work, WorkSound
<1>4. PICK d \in JobDocument : job' = [job EXCEPT ![j] = d]
  BY <1>3 DEF Close, MailInv, TypeOK, JobDocument
<1>5. job' \in [Job -> JobDocument \cup {None}]
  BY <1>4 DEF MailInv, TypeOK
<1>6. \A i \in Job : job[i] \in JobDocument => job'[i] \in JobDocument
  BY <1>4 DEF MailInv, TypeOK
<1>7. TicksSound' /\ tick' \in [Tick -> Work \cup {None}]
  BY <1>2, <1>6, TickChanges
<1>8. JobsSound'
  <2>1. SUFFICES ASSUME NEW i \in Job, (job[i] # None)'
                 PROVE  (MailedUpTo(i, job[i].cursor) /\ (job[i].status = "done" => Mailed(i)))'
    BY DEF JobsSound
  <2>2. CASE i = j
    BY <1>2, <1>3, <2>2 DEF MailedUpTo, Mailed
  <2>3. CASE i # j
    <3>1. job'[i] = job[i]
      BY <1>4, <2>3 DEF MailInv, TypeOK
    <3>2. QED
      BY <1>2, <2>1, <3>1 DEF MailInv, JobsSound, MailedUpTo, Mailed
  <2>4. QED
    BY <2>2, <2>3
<1>9. QED
  BY <1>2, <1>5, <1>7, <1>8 DEF MailInv, TypeOK

LEMMA LeaveKeeps ==
    ASSUME MailInv, NEW u \in member, Leave(u)
    PROVE  MailInv'
<1>1. member' \subseteq member /\ UNCHANGED <<job, versions, tick, tried>>
  BY DEF Leave
<1>2. JobsSound'
  BY <1>1, JobsStay DEF MailInv
<1>3. TicksSound'
  BY <1>1 DEF MailInv, TicksSound, WorkSound, MailedUpTo, Mailed
<1>4. QED
  BY <1>1, <1>2, <1>3 DEF MailInv, TypeOK

LEMMA DieKeeps ==
    ASSUME MailInv, NEW t \in Tick, Die(t)
    PROVE  MailInv'
<1>1. tick' = [tick EXCEPT ![t] = None] /\ UNCHANGED <<job, versions, member, tried>>
  BY DEF Die
<1>2. TicksSound' /\ tick' \in [Tick -> Work \cup {None}]
  BY <1>1, TickChanges
<1>3. JobsSound'
  BY <1>1, JobsStay DEF MailInv
<1>4. QED
  BY <1>1, <1>2, <1>3 DEF MailInv, TypeOK

LEMMA NextMailInv == MailInv /\ [Next]_vars => MailInv'
<1>1. SUFFICES ASSUME MailInv, [Next]_vars PROVE MailInv'
  OBVIOUS
<1>2. ASSUME NEW j \in Job, EnqueuePolicyEmailJob(j) PROVE MailInv'
  BY <1>1, <1>2, EnqueueKeeps
<1>3. ASSUME NEW t \in Tick, LoadJob(t) \/ Works(t) \/ Die(t) PROVE MailInv'
  BY <1>1, <1>3, LoadJobKeeps, FindUsersKeeps, SendKeeps, SaveProgressKeeps, CloseKeeps, DieKeeps
     DEF Works
<1>4. ASSUME NEW u \in member, Leave(u) PROVE MailInv'
  BY <1>1, <1>4, LeaveKeeps
<1>5. CASE UNCHANGED vars
  BY <1>1, <1>5 DEF vars, MailInv, TypeOK, JobsSound, TicksSound, WorkSound, MailedUpTo, Mailed
<1>6. QED
  BY <1>1, <1>2, <1>3, <1>4, <1>5, VersionsKeep DEF Next

-------------------------------------------------------------------------------
(* Theorems *)

LEMMA MailInvariant == Safety => []MailInv
<1>1. Init => MailInv
  BY InitMailInv
<1>2. MailInv /\ [Next]_vars => MailInv'
  BY NextMailInv
<1>3. QED
  BY <1>1, <1>2, PTL DEF Safety

\* The jobs and the ticks keep their shape, whatever overlaps or dies.
THEOREM MailTypeCorrect == Safety => []TypeOK
<1>1. MailInv => TypeOK
  BY DEF MailInv
<1>2. QED
  BY <1>1, MailInvariant, PTL

\* policyNotification.service.js:51-105, however many ticks overlap or die, and whatever the
\* size of the batches: a mailing that is done has tried everyone who still has an account.
THEOREM NobodyIsSkipped == Safety => []NobodySkipped
<1>1. MailInv => NobodySkipped
  BY DEF MailInv, JobsSound, NobodySkipped, Mailed
<1>2. QED
  BY <1>1, MailInvariant, PTL

\* The cursor that a restart starts from is never ahead of the mails.
THEOREM CursorNeverAhead == Safety => []JobsSound
<1>1. MailInv => JobsSound
  BY DEF MailInv
<1>2. QED
  BY <1>1, MailInvariant, PTL

-------------------------------------------------------------------------------
(* The consent of one user *)

\* What a request was started with, or has loaded, by the time it needs it.
RequestReady ==
    \A r \in Req :
        /\ \A phase \in {"date", "save"} :
              P!In(r, {"publish"}, phase) => req[r].version \in P!Version
        /\ \A phase \in {"latest", "save"} :
              P!In(r, {"accept", "seen", "consent", "refuse"}, phase) => req[r].doc \in P!Document

PolicyInv == P!TypeOK /\ RequestReady

LEMMA VersionsOK ==
    ASSUME P!TypeOK
    PROVE  /\ P!Latest \in P!Version \cup {None}
           /\ \A kind \in {"major", "minor"} : P!Numbered(kind) \subseteq P!Version
           /\ Typed \subseteq P!Version
<1>3. \A v \in P!Version : <<v[1] + 1, 0>> \in P!Version /\ <<v[1], v[2] + 1>> \in P!Version
  BY DEF P!Version
<1>4. <<1, 0>> \in P!Version /\ Typed \subseteq P!Version
  BY DEF P!Version, Typed
<1>5. P!Latest \in P!Version \cup {None}
  BY DEF P!Latest, P!TypeOK
<1>6. \A kind \in {"major", "minor"} : P!Numbered(kind) \subseteq P!Version
  BY <1>3, <1>4, <1>5 DEF P!Numbered
<1>7. QED
  BY <1>4, <1>5, <1>6

\* Whatever a request stamps on a document is one.
LEMMA StampedOK ==
    ASSUME NEW d \in P!Document, NEW op \in {"accept", "seen", "consent", "refuse"},
           NEW v \in P!Version \cup {None}
    PROVE  P!Stamped(d, op, v) \in P!Document
BY DEF P!Stamped, P!Document

\* Request r becomes q, or ends.
LEMMA RequestMoves ==
    ASSUME PolicyInv, NEW r \in Req, NEW q \in P!Request \cup {None},
           req' = [req EXCEPT ![r] = q],
           published' \subseteq P!Version, user' \in P!Document, dates' \in Nat,
           newest' \in [version : P!Version \cup {None}, date : Nat],
           q # None /\ q.op = "publish" /\ q.phase \in {"date", "save"} => q.version \in P!Version,
           q # None /\ q.op # "publish" /\ q.phase \in {"latest", "save"} => q.doc \in P!Document
    PROVE  PolicyInv'
<1>1. /\ req' \in [Req -> P!Request \cup {None}] /\ req'[r] = q
      /\ \A p \in Req \ {r} : req'[p] = req[p]
  BY DEF PolicyInv, P!TypeOK
<1>2. P!TypeOK'
  BY <1>1 DEF P!TypeOK
<1>3. RequestReady'
  BY <1>1 DEF PolicyInv, RequestReady, P!In
<1>4. QED
  BY <1>2, <1>3 DEF PolicyInv

LEMMA PolicyInitHolds == P!Init => PolicyInv
<1> SUFFICES ASSUME P!Init PROVE PolicyInv
  OBVIOUS
<1>1. user \in P!Document
  BY DEF P!Init, P!Document
<1>2. P!TypeOK
  BY <1>1 DEF P!Init, P!TypeOK
<1>3. QED
  BY <1>2 DEF P!Init, PolicyInv, RequestReady, P!In

LEMMA PolicyStep == PolicyInv /\ [P!Next]_(P!vars) => PolicyInv'
<1> SUFFICES ASSUME PolicyInv, [P!Next]_(P!vars) PROVE PolicyInv'
  OBVIOUS
<1>0. /\ P!TypeOK /\ RequestReady
      /\ published \subseteq P!Version /\ user \in P!Document /\ dates \in Nat
      /\ newest \in [version : P!Version \cup {None}, date : Nat]
      /\ req \in [Req -> P!Request \cup {None}]
  BY DEF PolicyInv, P!TypeOK
<1>1. ASSUME NEW r \in Req, NEW op \in {"publish", "accept", "seen", "consent", "refuse"},
             NEW phase \in {"user", "date"}, NEW v \in P!Version \cup {None},
             op = "publish" => v \in P!Version, op # "publish" => phase = "user",
             P!Starts(r, op, phase, v)
      PROVE  PolicyInv'
  <2>1. PICK q : q = [op |-> op, phase |-> phase, version |-> v, date |-> 0, doc |-> None]
    OBVIOUS
  <2>2. q \in P!Request /\ q.op = op /\ q.phase = phase /\ q.version = v
    BY <2>1 DEF P!Request
  <2>3. req' = [req EXCEPT ![r] = q] /\ UNCHANGED <<published, newest, dates, user>>
    BY <1>1, <2>1 DEF P!Starts, P!policies
  <2>4. QED
    BY <1>0, <1>1, <2>2, <2>3, RequestMoves
<1>2. ASSUME NEW r \in Req,
             NEW v \in P!Numbered("major") \cup P!Numbered("minor") \cup Typed,
             P!UpdatePolicy(r, v)
      PROVE  PolicyInv'
  <2>1. v \in P!Version
    BY <1>0, VersionsOK
  <2>2. P!Starts(r, "publish", "date", v)
    BY <1>2 DEF P!UpdatePolicy
  <2>3. QED
    BY <1>1, <2>1, <2>2
<1>3. ASSUME NEW r \in Req, P!AcceptPolicyVersion(r) \/ P!MarkPolicyVersionSeen(r)
      PROVE  PolicyInv'
  <2>1. P!Latest \in P!Version \cup {None}
    BY <1>0, VersionsOK
  <2>2. P!Starts(r, "accept", "user", P!Latest) \/ P!Starts(r, "seen", "user", P!Latest)
    BY <1>3 DEF P!AcceptPolicyVersion, P!MarkPolicyVersionSeen
  <2>3. QED
    BY <1>1, <2>1, <2>2
<1>4. ASSUME NEW r \in Req, NEW op \in {"consent", "refuse"}, P!UpdateConsent(r, op)
      PROVE  PolicyInv'
  BY <1>1, <1>4 DEF P!UpdateConsent
<1>5. ASSUME NEW r \in Req, P!UpdatePolicySave(r) PROVE PolicyInv'
  <2>1. req[r].version \in P!Version
    BY <1>0, <1>5 DEF RequestReady, P!UpdatePolicySave
  <2>2. /\ published' \subseteq P!Version
        /\ newest' \in [version : P!Version \cup {None}, date : Nat]
    <3>1. req[r] \in P!Request
      BY <1>0, <1>5 DEF P!UpdatePolicySave, P!In
    <3>2. req[r].date \in Nat
      BY <3>1 DEF P!Request
    <3>3. QED
      BY <1>0, <1>5, <2>1, <3>2 DEF P!UpdatePolicySave
  <2>3. req' = [req EXCEPT ![r] = None] /\ user' = user /\ dates' = dates
    BY <1>5 DEF P!UpdatePolicySave
  <2>4. QED
    BY <1>0, <2>2, <2>3, RequestMoves
<1>6. ASSUME NEW r \in Req, P!LoadUser(r) PROVE PolicyInv'
  <2>1. /\ req[r] \in P!Request /\ req[r] # None
        /\ req[r].op \in {"accept", "seen", "consent", "refuse"}
    BY <1>0, <1>6 DEF P!LoadUser, P!In
  <2>2. PICK q : q = [req[r] EXCEPT !.doc = user,
                        !.phase = IF req[r].op \in {"accept", "seen"} THEN "save" ELSE "latest"]
    OBVIOUS
  <2>3. q \in P!Request /\ q.op = req[r].op /\ q.doc = user
    BY <1>0, <2>1, <2>2 DEF P!Request
  <2>4. req' = [req EXCEPT ![r] = q] /\ UNCHANGED <<published, newest, dates, user>>
    BY <1>6, <2>2 DEF P!LoadUser, P!policies
  <2>5. QED
    BY <1>0, <2>1, <2>3, <2>4, RequestMoves
<1>7. ASSUME NEW r \in Req, P!LoadLatest(r) PROVE PolicyInv'
  <2>1. /\ req[r] \in P!Request /\ req[r] # None
        /\ req[r].op \in {"consent", "refuse"} /\ req[r].phase = "latest"
    BY <1>0, <1>7 DEF P!LoadLatest, P!In
  <2>2. req[r].doc \in P!Document
    BY <1>0, <2>1 DEF RequestReady, P!In
  <2>3. PICK q : q = [req[r] EXCEPT !.version = P!Latest, !.phase = "save"]
    OBVIOUS
  <2>4. P!Latest \in P!Version \cup {None}
    BY <1>0, VersionsOK
  <2>5. q \in P!Request /\ q.op = req[r].op /\ q.doc = req[r].doc
    BY <2>1, <2>3, <2>4 DEF P!Request
  <2>6. req' = [req EXCEPT ![r] = q] /\ UNCHANGED <<published, newest, dates, user>>
    BY <1>7, <2>3 DEF P!LoadLatest, P!policies
  <2>7. QED
    BY <1>0, <2>1, <2>2, <2>5, <2>6, RequestMoves
<1>8. ASSUME NEW r \in Req, P!Save(r) PROVE PolicyInv'
  <2>1. /\ req[r] \in P!Request /\ req[r] # None
        /\ req[r].op \in {"accept", "seen", "consent", "refuse"} /\ req[r].phase = "save"
    BY <1>0, <1>8 DEF P!Save, P!In
  <2>2. req[r].doc \in P!Document
    BY <1>0, <2>1 DEF RequestReady, P!In
  <2>3. req[r].version \in P!Version \cup {None}
    BY <2>1 DEF P!Request
  <2>4. PICK new : new = P!Stamped(req[r].doc, req[r].op, req[r].version)
    OBVIOUS
  <2>5. new \in P!Document
    BY <2>1, <2>2, <2>3, <2>4, StampedOK
  <2>6. PICK fields : user' = [f \in DOMAIN user |-> IF f \in fields THEN new[f] ELSE user[f]]
    BY <1>8, <2>4 DEF P!Save
  <2>7. user' \in P!Document
    BY <1>0, <2>5, <2>6 DEF P!Document
  <2>8. req' = [req EXCEPT ![r] = None] /\ UNCHANGED <<published, newest, dates>>
    BY <1>8 DEF P!Save, P!policies
  <2>9. QED
    BY <1>0, <2>7, <2>8, RequestMoves
<1>9. ASSUME NEW r \in Req, P!Fails(r) PROVE PolicyInv'
  <2>1. req' = [req EXCEPT ![r] = None] /\ UNCHANGED <<published, newest, dates, user>>
    BY <1>9 DEF P!Fails, P!policies
  <2>2. QED
    BY <1>0, <2>1, RequestMoves
<1>10. CASE UNCHANGED P!vars
  BY <1>0, <1>10 DEF P!vars, PolicyInv, P!TypeOK, RequestReady, P!In
<1>11. ASSUME NEW r \in Req, P!Date(r) PROVE PolicyInv'
  <2>1. req[r] \in P!Request /\ req[r] # None /\ req[r].op = "publish"
    BY <1>0, <1>11 DEF P!Date, P!In
  <2>2. req[r].version \in P!Version
    BY <1>0, <1>11 DEF RequestReady, P!Date
  <2>3. PICK q : q = [req[r] EXCEPT !.phase = "save", !.date = dates']
    OBVIOUS
  <2>4. dates' \in Nat /\ UNCHANGED <<published, newest, user>>
    BY <1>0, <1>11 DEF P!Date
  <2>5. q \in P!Request /\ q.op = "publish" /\ q.version = req[r].version
    BY <2>1, <2>3, <2>4 DEF P!Request
  <2>6. req' = [req EXCEPT ![r] = q]
    BY <1>11, <2>3 DEF P!Date
  <2>7. QED
    BY <1>0, <2>2, <2>4, <2>5, <2>6, RequestMoves
<1>12. QED
  BY <1>11, <1>2, <1>3, <1>4, <1>5, <1>6, <1>7, <1>8, <1>9, <1>10 DEF P!Next, P!Handle

\* Both keep their shape: an acceptance or a consent that is saved late, from an older document
\* and an older version, still leaves a document of the schema (controllers/gdpr.controller.js).
THEOREM PolicyTypeCorrect == PolicyAndMail => []PolicyTypeOK
<1>1. PolicyInit => Init /\ PolicyInv
  BY PolicyInitHolds DEF PolicyInit
<1>2. [PolicyNext]_<<vars, policy, side>> => [Next]_vars /\ [P!Next]_(P!vars)
  BY DEF PolicyNext, vars, policy, P!vars
<1>3. PolicyAndMail => Safety
  BY <1>1, <1>2, PTL DEF PolicyAndMail, Safety
<1>4. PolicyAndMail => []PolicyInv
  BY <1>1, <1>2, PolicyStep, PTL DEF PolicyAndMail
<1>5. MailInv /\ PolicyInv => PolicyTypeOK
  BY DEF MailInv, PolicyInv, PolicyTypeOK
<1>6. QED
  BY <1>3, <1>4, <1>5, MailInvariant, PTL
==================================================================================
