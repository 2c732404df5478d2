---------------------------- MODULE BillingProofs ----------------------------
(***************************************************************************)
(* What Billing promises for any tiers, caps, numbers of events, retries,  *)
(* subscriptions and requests.                                             *)
(***************************************************************************)
EXTENDS Billing, TLAPS, FiniteSetTheorems, SequenceTheorems

-------------------------------------------------------------------------------
(* The inductive invariant *)

\* A subscription that exists is at a paid tier, and so is every event about it; the
\* purchase of a single boost is about none.
PaidSub == {sub \in Subscription : sub.status # "none" => sub.tier # 0}
PaidEvent == {e \in Event : e.type # "boost" => e.tier # 0 /\ e.sub \in Sub}
PaidJob == [event : PaidEvent, phase : {"queued", "read", "done", "again"}, snap : Document]

\* A document with a purge scheduled has neither a tier nor an active subscription.
Sound(d) ==
    /\ d.purge # NoTime => d.tier = 0
    /\ d.status = "active" => d.purge = NoTime

\* What is known of the owner's request in progress.
OwnerOK ==
    /\ own \in [op : Request, tier : Tier, called : BOOLEAN, snap : Document]
    /\ own.op \in {"choose", "downgrade", "upgrade"} => own.tier # 0
    /\ own.called => own.op \in {"downgrade", "upgrade", "cancel", "reactivate", "delete"}
    /\ own.op = "upgrade" => own.snap.status = "active"
    /\ own.op \in {"cancel", "reactivate"} => own.snap.sub # NoSub

StripeOK == subs \in [Sub -> PaidSub] /\ jobs \in Seq(PaidJob)

DocOK == doc \in Document /\ now \in Nat /\ (~stale => Sound(doc))

CountsOK ==
    /\ cron \in {"idle", "found"}
    /\ retries \in Nat /\ asked \in Nat
    /\ late \in BOOLEAN /\ stale \in BOOLEAN
    /\ credited \subseteq Token /\ again \subseteq Token

BillingInv == StripeOK /\ OwnerOK /\ DocOK /\ CountsOK

-------------------------------------------------------------------------------
(* Documents *)

LEMMA NewDocumentOK == NewDocument \in Document /\ Sound(NewDocument)
BY TierAssumption DEF NewDocument, Document, Sound, Tier, NoTime, NoPeriod, NoSub

\* An event leaves a document of the type, and sound if it was.
LEMMA AfterOK ==
    ASSUME NEW e \in PaidEvent, NEW d \in Document, now \in Nat
    PROVE  After(e, d) \in Document /\ (Sound(d) => Sound(After(e, d)))
<1>1. /\ e.type \in {"completed", "boost", "updated", "deleted", "paid"}
      /\ e.type # "boost" => e.sub \in Sub /\ e.tier # 0
      /\ e.tier \in Tier /\ e.period \in Nat
      /\ e.status \in {"active", "past_due", "canceled"}
      /\ e.cancel \in BOOLEAN /\ e.sched \in BOOLEAN
  BY DEF PaidEvent, Event
<1>2. PurgeAt(d) \in Nat /\ 0 \in Tier
  BY TierAssumption DEF PurgeAt, Document, Tier
<1>3. CASE e.type = "completed"
  <2>1. After(e, d) = Completed(e, d)
    BY <1>3 DEF After
  <2>2. Completed(e, d) \in Document
    BY <1>1, <1>2, <1>3 DEF Completed, Document, NoTime
  <2>3. Sound(Completed(e, d))
    BY DEF Completed, Document, Sound, NoTime
  <2>4. QED
    BY <2>1, <2>2, <2>3
<1>4. CASE e.type = "updated"
  <2>1. After(e, d) = Updated(e, d)
    BY <1>4 DEF After
  <2>2. Updated(e, d) \in Document
    <3> DEFINE tier == IF e.status = "active" THEN e.tier ELSE 0
               sched == e.sched /\ d.sched
               pending == IF e.sched THEN d.pending ELSE 0
               purge == IF tier # 0 THEN NoTime
                        ELSE IF d.tier # 0 THEN PurgeAt(d) ELSE d.purge
    <3>1. tier \in Tier /\ pending \in Tier /\ sched \in BOOLEAN
      BY <1>1, <1>2 DEF Document
    <3>2. purge \in Nat
      BY <1>2 DEF Document, NoTime
    <3>3. Updated(e, d) = [d EXCEPT !.status = e.status, !.cancel = e.cancel, !.sched = sched,
                                    !.pending = pending, !.tier = tier, !.purge = purge]
      BY DEF Updated
    <3> HIDE DEF tier, sched, pending, purge
    <3>4. QED
      BY <1>1, <3>1, <3>2, <3>3 DEF Document
  <2>3. Sound(d) => Sound(Updated(e, d))
    BY <1>1, <1>4 DEF Updated, Document, Sound, NoTime
  <2>4. QED
    BY <2>1, <2>2, <2>3
<1>5. CASE e.type = "deleted"
  <2>1. After(e, d) = Deleted(d)
    BY <1>5 DEF After
  <2>2. QED
    BY <1>2, <2>1 DEF Deleted, Document, Sound
<1>6. Credit(d) \in Document /\ (Sound(d) => Sound(Credit(d)))
  <2>1. d.credits \in Int /\ (IF d.credits < Cap THEN d.credits + 1 ELSE Cap) \in 0 .. Cap
    BY TierAssumption DEF Document
  <2>2. QED
    BY <2>1 DEF Credit, Document, Sound
<1>7. CASE e.type = "paid"
  <2>1. After(e, d) = Paid(e, d)
    BY <1>7 DEF After
  <2>2. Paid(e, d) \in {d, Credit(d), [Credit(d) EXCEPT !.granted = e.period]}
    BY DEF Paid
  <2>3. [Credit(d) EXCEPT !.granted = e.period] \in Document
    BY <1>1, <1>6 DEF Document
  <2>4. Sound(d) => Sound([Credit(d) EXCEPT !.granted = e.period])
    BY <1>6 DEF Sound, Document
  <2>5. QED
    BY <1>6, <2>1, <2>2, <2>3, <2>4
<1>8. CASE e.type = "boost"
  <2>1. After(e, d) = Credit(d)
    BY <1>8 DEF After, Bought
  <2>2. QED
    BY <1>6, <2>1
<1>9. QED
  BY <1>1, <1>3, <1>4, <1>5, <1>7, <1>8

\* save() of a document that nobody else wrote in between writes what it was given.
LEMMA SavedOK ==
    ASSUME NEW snap \in Document, NEW new \in Document, doc \in Document
    PROVE  /\ Saved(snap, new) \in Document
           /\ snap = doc /\ Sound(new) => Sound(Saved(snap, new))
BY DEF Saved, Document, Sound

-------------------------------------------------------------------------------
(* Stripe, and the queue *)

LEMMA NextPeriodOK ==
    ASSUME subs \in [Sub -> PaidSub]
    PROVE  NextPeriod \in Nat
<1> DEFINE Periods == {1 .. subs[s].period : s \in Sub}
           f == [s \in Sub |-> 1 .. subs[s].period]
<1>1. IsFiniteSet(Sub)
  BY FS_Interval, BoundsAssumption DEF Sub
<1>2. f \in Surjection(Sub, Periods)
  BY DEF Surjection
<1>3. IsFiniteSet(Periods)
  <2> HIDE DEF f, Periods
  <2> QED BY <1>1, <1>2, FS_Surjection
<1>4. \A T \in Periods : IsFiniteSet(T)
  <2>1. \A s \in Sub : subs[s].period \in Nat
    BY DEF PaidSub, Subscription
  <2>2. QED
    BY <2>1, FS_Interval
<1>5. IsFiniteSet(UNION Periods)
  <2> HIDE DEF Periods
  <2> QED BY <1>3, <1>4, FS_UNION
<1>6. QED
  BY <1>5, FS_CardinalityType DEF NextPeriod

LEMMA EventOfOK ==
    ASSUME NEW type \in {"completed", "updated", "deleted", "paid"}, NEW s \in Sub,
           NEW sub \in Subscription, sub.tier # 0,
           sub.status \in {"active", "past_due", "canceled"}
    PROVE  EventOf(type, s, sub) \in PaidEvent
BY DEF EventOf, PaidEvent, Event, Subscription

\* The queue after new events were put at its end.
LEMMA EmitsAppends ==
    ASSUME jobs \in Seq(PaidJob), NEW events \in Seq(PaidEvent), Emits(events)
    PROVE  /\ \A n \in DOMAIN jobs : n \in DOMAIN jobs' /\ jobs'[n] = jobs[n]
           /\ \A n \in DOMAIN jobs' \ DOMAIN jobs :
                /\ jobs'[n].phase = "queued" /\ \A m \in DOMAIN jobs : m < n
                /\ \E i \in DOMAIN events : jobs'[n].event = events[i]
           /\ \A i \in DOMAIN events :
                \E n \in DOMAIN jobs' \ DOMAIN jobs : jobs'[n].event = events[i]
<1> DEFINE added == [i \in DOMAIN events |->
                       [event |-> events[i], phase |-> "queued", snap |-> NewDocument]]
<1>1. /\ Len(jobs) \in Nat /\ DOMAIN jobs = 1 .. Len(jobs)
      /\ Len(events) \in Nat /\ DOMAIN events = 1 .. Len(events)
  BY LenProperties
<1>2. \A i \in DOMAIN events : added[i].event = events[i] /\ added[i].phase = "queued"
  OBVIOUS
<1>3. added \in Seq(PaidJob) /\ Len(added) = Len(events)
  <2>1. \A i \in DOMAIN events : added[i] \in PaidJob
    BY NewDocumentOK, <1>1 DEF PaidJob
  <2>2. added \in [1 .. Len(events) -> PaidJob]
    BY <1>1, <2>1
  <2> HIDE DEF added
  <2>3. QED
    BY <1>1, <2>2
<1>4. jobs' = jobs \o added
  BY DEF Emits
<1> HIDE DEF added
<1>5. /\ DOMAIN jobs' = 1 .. Len(jobs) + Len(events)
      /\ \A n \in 1 .. Len(jobs) + Len(events) :
           jobs'[n] = IF n <= Len(jobs) THEN jobs[n] ELSE added[n - Len(jobs)]
  <2>1. /\ jobs \o added \in Seq(PaidJob)
        /\ Len(jobs \o added) = Len(jobs) + Len(added)
        /\ \A n \in 1 .. Len(jobs) + Len(added) :
             (jobs \o added)[n] = IF n <= Len(jobs) THEN jobs[n] ELSE added[n - Len(jobs)]
    BY <1>3, ConcatProperties
  <2>2. QED
    BY <1>3, <1>4, <2>1, LenProperties
<1>6. \A n \in DOMAIN jobs : n \in DOMAIN jobs' /\ jobs'[n] = jobs[n]
  BY <1>1, <1>5
<1>7. ASSUME NEW n \in DOMAIN jobs' \ DOMAIN jobs
      PROVE  /\ jobs'[n].phase = "queued" /\ \A m \in DOMAIN jobs : m < n
             /\ \E i \in DOMAIN events : jobs'[n].event = events[i]
  <2> DEFINE i == n - Len(jobs)
  <2>1. n \in Nat /\ n > Len(jobs) /\ i \in DOMAIN events
    BY <1>1, <1>5
  <2>2. jobs'[n] = added[i]
    BY <1>1, <1>5, <2>1
  <2> HIDE DEF i
  <2>3. QED
    BY <1>1, <1>2, <2>1, <2>2
<1>8. ASSUME NEW i \in DOMAIN events
      PROVE  \E n \in DOMAIN jobs' \ DOMAIN jobs : jobs'[n].event = events[i]
  <2> DEFINE n == Len(jobs) + i
  <2>1. n \in DOMAIN jobs' \ DOMAIN jobs /\ jobs'[n] = added[i]
    BY <1>1, <1>5
  <2> HIDE DEF n
  <2>2. QED
    BY <1>2, <2>1
<1>9. QED
  BY <1>6, <1>7, <1>8

\* Jobs keep their events, and those begun stay so; new ones are put at the end.
Grows ==
    \A n \in DOMAIN jobs :
      /\ n \in DOMAIN jobs' /\ jobs'[n].event = jobs[n].event
      /\ jobs[n].phase # "queued" => jobs'[n].phase # "queued"

LEMMA EmitsOK ==
    ASSUME jobs \in Seq(PaidJob), NEW events \in Seq(PaidEvent), Emits(events)
    PROVE  jobs' \in Seq(PaidJob) /\ Grows
<1> DEFINE new == [i \in DOMAIN events |->
                     [event |-> events[i], phase |-> "queued", snap |-> NewDocument]]
<1>1. new \in Seq(PaidJob)
  <2>1. \A i \in DOMAIN events : new[i] \in PaidJob
    BY NewDocumentOK, LenProperties DEF PaidJob
  <2>2. DOMAIN new = 1 .. Len(events) /\ Len(events) \in Nat
    BY LenProperties
  <2>3. new \in [1 .. Len(events) -> PaidJob]
    BY <2>1, <2>2
  <2> HIDE DEF new
  <2>4. QED
    BY <2>2, <2>3
<1>2. jobs' = jobs \o new
  BY DEF Emits
<1>3. Grows
  BY EmitsAppends DEF Grows
<1>4. QED
  BY <1>1, <1>2, <1>3, ConcatProperties

LEMMA JobUpdateOK ==
    ASSUME jobs \in Seq(PaidJob), NEW n \in DOMAIN jobs,
           NEW phase \in {"queued", "read", "done", "again"}, NEW d \in Document
    PROVE  /\ [jobs EXCEPT ![n].phase = phase] \in Seq(PaidJob)
           /\ [jobs EXCEPT ![n].phase = phase, ![n].snap = d] \in Seq(PaidJob)
<1>1. n \in 1 .. Len(jobs) /\ jobs[n] \in PaidJob
  BY LenProperties
<1>2. [jobs[n] EXCEPT !.phase = phase] \in PaidJob
  BY <1>1 DEF PaidJob
<1>3. [jobs[n] EXCEPT !.phase = phase, !.snap = d] \in PaidJob
  BY <1>1 DEF PaidJob
<1>4. [jobs EXCEPT ![n] = [jobs[n] EXCEPT !.phase = phase]] \in Seq(PaidJob)
  BY <1>1, <1>2, ExceptSeq
<1>5. [jobs EXCEPT ![n] = [jobs[n] EXCEPT !.phase = phase, !.snap = d]] \in Seq(PaidJob)
  BY <1>1, <1>3, ExceptSeq
<1>6. QED
  BY <1>4, <1>5

\* A subscription that changes to one that runs, or has ended, can be announced.
LEMMA AnnouncedOK ==
    ASSUME StripeOK, NEW s \in Sub, NEW sub \in Subscription, sub.tier # 0,
           sub.status \in {"active", "past_due", "canceled"}
    PROVE  /\ [subs EXCEPT ![s] = sub] \in [Sub -> PaidSub]
           /\ \A type \in {"completed", "updated", "deleted", "paid"} :
                 /\ EventOf(type, s, sub) \in PaidEvent
                 /\ <<EventOf(type, s, sub)>> \in Seq(PaidEvent)
<1>1. \A type \in {"completed", "updated", "deleted", "paid"} : EventOf(type, s, sub) \in PaidEvent
  BY EventOfOK
<1>2. sub \in PaidSub
  BY DEF PaidSub
<1>3. QED
  BY <1>1, <1>2 DEF StripeOK

LEMMA StopsOK ==
    ASSUME StripeOK, NEW s \in Sub, subs[s].status # "none", Stops(s)
    PROVE  StripeOK' /\ Grows
<1> DEFINE new == [subs[s] EXCEPT !.status = "canceled", !.open = {}]
<1>1. new \in Subscription /\ new.tier # 0 /\ new.status = "canceled"
  BY DEF StripeOK, PaidSub, Subscription
<1>2. subs' = [subs EXCEPT ![s] = new] /\ Emits(<<EventOf("deleted", s, new)>>)
  BY DEF Stops
<1> HIDE DEF new
<1>3. QED
  BY <1>1, <1>2, AnnouncedOK, EmitsOK DEF StripeOK

LEMMA ChargedOK ==
    ASSUME StripeOK, NEW s \in Sub, NEW new \in Subscription, new.tier # 0, Charged(s, new)
    PROVE  StripeOK' /\ Grows
<1> DEFINE paid == [new EXCEPT !.status = "active"]
           unpaid == [new EXCEPT !.status = "past_due", !.open = @ \cup {new.period}]
<1>1. paid \in Subscription /\ paid.tier # 0 /\ paid.status = "active"
  BY DEF Subscription
<1>2. unpaid \in Subscription /\ unpaid.tier # 0 /\ unpaid.status = "past_due"
  BY DEF Subscription
<1>3. \/ /\ subs' = [subs EXCEPT ![s] = paid]
         /\ Emits(<<EventOf("updated", s, paid), EventOf("paid", s, paid)>>)
      \/ /\ subs' = [subs EXCEPT ![s] = unpaid]
         /\ Emits(<<EventOf("updated", s, unpaid)>>)
  BY DEF Charged
<1> HIDE DEF paid, unpaid
<1>4. <<EventOf("updated", s, paid), EventOf("paid", s, paid)>> \in Seq(PaidEvent)
  BY <1>1, AnnouncedOK
<1>5. <<EventOf("updated", s, unpaid)>> \in Seq(PaidEvent)
  BY <1>2, AnnouncedOK
<1>6. subs' \in [Sub -> PaidSub]
  BY <1>1, <1>2, <1>3, AnnouncedOK
<1>7. jobs' \in Seq(PaidJob) /\ Grows
  BY <1>3, <1>4, <1>5, EmitsOK DEF StripeOK
<1>8. QED
  BY <1>6, <1>7 DEF StripeOK

LEMMA RenewedOK ==
    ASSUME NEW sub \in Subscription, sub.tier # 0, NextPeriod \in Nat
    PROVE  Renewed(sub) \in Subscription /\ Renewed(sub).tier # 0
<1>1. 0 \in Tier
  BY TierAssumption DEF Tier
<1>2. QED
  BY <1>1 DEF Renewed, Subscription

\* What Stripe does of itself.
LEMMA StripeStep ==
    ASSUME BillingInv, Stripe
    PROVE  /\ StripeOK' /\ Grows
           /\ UNCHANGED <<now, doc, own, cron, retries, asked, ghosts>>
<1> USE DEF BillingInv
<1>1. PICK s \in Sub : Pay(s) \/ Renew(s) \/ GiveUp(s) \/ Undated(s) \/ \E p \in 1 .. MaxPeriods : Settle(s, p)
  BY DEF Stripe
<1>2. UNCHANGED <<now, doc, own, cron, retries, asked, ghosts>>
  BY <1>1 DEF Pay, Renew, GiveUp, Undated, Settle
<1>3. /\ subs[s] \in Subscription
      /\ subs[s].status # "none" => subs[s].tier # 0
      /\ NextPeriod \in Nat
  BY NextPeriodOK DEF StripeOK, PaidSub
<1>4. CASE Pay(s)
  <2> DEFINE new == [subs[s] EXCEPT !.status = "active", !.period = NextPeriod]
             done == EventOf("completed", s, new)
             paid == EventOf("paid", s, new)
  <2>1. new \in Subscription /\ new.tier # 0 /\ new.status = "active"
    BY <1>3, <1>4 DEF Pay, Subscription
  <2>2. subs' = [subs EXCEPT ![s] = new] /\ (Emits(<<done, paid>>) \/ Emits(<<paid, done>>))
    BY <1>4 DEF Pay
  <2> HIDE DEF new
  <2>3. done \in PaidEvent /\ paid \in PaidEvent /\ subs' \in [Sub -> PaidSub]
    BY <2>1, <2>2, AnnouncedOK
  <2> HIDE DEF done, paid
  <2>4. <<done, paid>> \in Seq(PaidEvent) /\ <<paid, done>> \in Seq(PaidEvent)
    BY <2>3
  <2>5. QED
    BY <1>2, <2>2, <2>3, <2>4, EmitsOK DEF StripeOK
<1>5. CASE Renew(s)
  <2>1. CASE Stops(s)
    BY <1>2, <1>5, <2>1, StopsOK DEF Renew, Running
  <2>2. CASE Charged(s, Renewed(subs[s]))
    <3>1. Renewed(subs[s]) \in Subscription /\ Renewed(subs[s]).tier # 0
      BY <1>3, <1>5, RenewedOK DEF Renew, Running
    <3>2. QED
      BY <1>2, <2>2, <3>1, ChargedOK
  <2>3. QED
    BY <1>5, <2>1, <2>2 DEF Renew
<1>6. CASE GiveUp(s)
  BY <1>2, <1>6, StopsOK DEF GiveUp
<1>7. ASSUME NEW p \in 1 .. MaxPeriods, Settle(s, p)
      PROVE  StripeOK' /\ Grows
  <2> DEFINE new == [subs[s] EXCEPT !.open = @ \ {p},
                                    !.status = IF p = subs[s].period THEN "active" ELSE @]
             updated == EventOf("updated", s, new)
             paid == [EventOf("paid", s, new) EXCEPT !.period = p]
  <2>1. /\ new \in Subscription /\ new.tier # 0
        /\ new.status \in {"active", "past_due", "canceled"}
    BY <1>3, <1>7 DEF Settle, Running, Subscription
  <2>2. subs' = [subs EXCEPT ![s] = new] /\ Emits(<<updated, paid>>)
    BY <1>7 DEF Settle
  <2> HIDE DEF new
  <2>3. updated \in PaidEvent /\ EventOf("paid", s, new) \in PaidEvent /\ subs' \in [Sub -> PaidSub]
    BY <2>1, <2>2, AnnouncedOK
  <2>4. p \in Nat
    BY BoundsAssumption
  <2>5. paid \in PaidEvent
    BY <2>3, <2>4 DEF PaidEvent, Event
  <2> HIDE DEF updated, paid
  <2>6. <<updated, paid>> \in Seq(PaidEvent)
    BY <2>3, <2>5
  <2>7. QED
    BY <2>2, <2>3, <2>6, EmitsOK DEF StripeOK
<1>8. CASE Undated(s)
  <2> DEFINE paid == [EventOf("paid", s, subs[s]) EXCEPT !.period = NoPeriod]
  <2>1. EventOf("paid", s, subs[s]) \in PaidEvent
    BY <1>3, <1>8, EventOfOK DEF Undated, Running
  <2>2. paid \in PaidEvent
    BY <2>1 DEF PaidEvent, Event, NoPeriod
  <2> HIDE DEF paid
  <2>3. <<paid>> \in Seq(PaidEvent)
    BY <2>2
  <2>4. Emits(<<paid>>) /\ subs' = subs
    BY <1>8 DEF Undated, paid
  <2>5. jobs' \in Seq(PaidJob) /\ Grows
    BY <2>3, <2>4, EmitsOK DEF StripeOK
  <2>6. QED
    BY <1>2, <2>4, <2>5 DEF StripeOK
<1>9. QED
  BY <1>1, <1>2, <1>4, <1>5, <1>6, <1>7, <1>8

-------------------------------------------------------------------------------
(* The jobs of the queue *)

\* A job that is over, or that will run again.
LEMMA EndsOK ==
    ASSUME StripeOK, CountsOK, NEW n \in DOMAIN jobs, Ends(n)
    PROVE  jobs' \in Seq(PaidJob) /\ retries' \in Nat
<1>1. \A phase \in {"queued", "read", "done", "again"} :
          [jobs EXCEPT ![n].phase = phase, ![n].snap = NewDocument] \in Seq(PaidJob)
  BY JobUpdateOK, NewDocumentOK DEF StripeOK
<1>2. QED
  BY <1>1 DEF Ends, CountsOK

LEMMA WorkerStep ==
    ASSUME BillingInv, Worker
    PROVE  BillingInv'
<1> USE DEF BillingInv
<1>1. PICK n \in DOMAIN jobs : JobComplete(n) \/ JobRead(n) \/ JobSave(n) \/ JobFails(n)
  BY DEF Worker
<1>2. jobs[n] \in PaidJob
  BY LenProperties DEF StripeOK
<1>3. jobs[n].event \in PaidEvent /\ jobs[n].snap \in Document /\ doc \in Document /\ now \in Nat
  BY <1>2 DEF PaidJob, DocOK
<1>4. ASSUME Touches(n)
      PROVE  late' \in BOOLEAN
  BY <1>4 DEF Touches
<1>5. CASE JobComplete(n)
  <2>1. doc' \in Document /\ (Sound(doc) => Sound(doc'))
    BY <1>3, <1>5, AfterOK DEF JobComplete
  <2>2. jobs' \in Seq(PaidJob) /\ retries' \in Nat
    BY <1>5, EndsOK DEF JobComplete
  <2>3. QED
    BY <1>4, <1>5, <2>1, <2>2 DEF JobComplete, StripeOK, OwnerOK, DocOK, CountsOK, credits
<1>6. CASE JobRead(n)
  <2>1. jobs' \in Seq(PaidJob)
    BY <1>3, <1>6, JobUpdateOK DEF JobRead, StripeOK
  <2>2. QED
    BY <1>4, <1>6, <2>1 DEF JobRead, StripeOK, OwnerOK, DocOK, CountsOK, credits
<1>7. CASE JobSave(n)
  <2>1. /\ After(jobs[n].event, jobs[n].snap) \in Document
        /\ Sound(jobs[n].snap) => Sound(After(jobs[n].event, jobs[n].snap))
    BY <1>3, AfterOK
  <2>2. doc' = Saved(jobs[n].snap, After(jobs[n].event, jobs[n].snap))
    BY <1>7 DEF JobSave
  <2>3. doc' \in Document
    BY <1>3, <2>1, <2>2, SavedOK
  <2>4. ~stale' => ~stale /\ jobs[n].snap = doc
    BY <1>7 DEF JobSave
  <2>5. ~stale' => Sound(doc')
    BY <1>3, <2>1, <2>2, <2>4, SavedOK DEF DocOK
  <2>6. jobs' \in Seq(PaidJob) /\ retries' \in Nat
    BY <1>7, EndsOK DEF JobSave
  <2>7. stale' \in BOOLEAN /\ credited' \subseteq Token /\ again' \subseteq Token
    <3>1. TokenOf(n) \in Token
      BY <1>3, LenProperties DEF TokenOf, Token, StripeOK, PaidEvent, Event
    <3>2. QED
      BY <1>7, <3>1 DEF JobSave, CountsOK
  <2>8. QED
    BY <1>4, <1>7, <2>3, <2>5, <2>6, <2>7 DEF JobSave, StripeOK, OwnerOK, DocOK, CountsOK
<1>8. CASE JobFails(n)
  <2>1. jobs' \in Seq(PaidJob)
    BY <1>8, NewDocumentOK, JobUpdateOK DEF JobFails, StripeOK
  <2>2. QED
    BY <1>8, <2>1 DEF JobFails, StripeOK, OwnerOK, DocOK, CountsOK, ghosts, credits
<1>9. QED
  BY <1>1, <1>5, <1>6, <1>7, <1>8

-------------------------------------------------------------------------------
(* The owner *)

\* What a request makes of a document is sound, if the document was.
LEMMA RequestedOK ==
    ASSUME OwnerOK, own.called
    PROVE  Requested \in Document /\ (Sound(own.snap) => Sound(Requested))
<1>1. own.snap \in Document /\ own.tier \in Tier /\ 0 \in Tier
  BY TierAssumption DEF OwnerOK, Tier
<1>2. CASE own.op = "downgrade"
  BY <1>1, <1>2 DEF Requested, Document, Sound
<1>3. CASE own.op = "upgrade"
  BY <1>1, <1>3 DEF Requested, Document, Sound, OwnerOK
<1>4. CASE own.op = "cancel"
  BY <1>1, <1>4 DEF Requested, Document, Sound
<1>5. CASE own.op = "reactivate"
  BY <1>1, <1>5 DEF Requested, Document, Sound, NoTime
<1>6. CASE own.op = "delete"
  BY <1>1, <1>6 DEF Requested, Document, Sound, NoTime
<1>7. QED
  BY <1>2, <1>3, <1>4, <1>5, <1>6 DEF OwnerOK

LEMMA NoRequestOK == ASSUME own' = NoRequest PROVE OwnerOK'
BY NewDocumentOK, TierAssumption DEF NoRequest, OwnerOK, Request, Tier

\* A call of Stripe, which changes what Stripe has and nothing in the document.
LEMMA CallStep ==
    ASSUME BillingInv, OpenPage \/ ChangeTier \/ Cancel \/ Reactivate \/ CancelNow
    PROVE  StripeOK' /\ OwnerOK' /\ Grows
<1> USE DEF BillingInv
<1> DEFINE s == own.snap.sub
<1>1. /\ own.snap \in Document /\ own.tier \in Tier /\ 0 \in Tier
      /\ s \in Sub \cup {NoSub}
  BY TierAssumption DEF OwnerOK, Document, Tier
<1>2. ASSUME NEW op \in {"downgrade", "upgrade", "cancel", "reactivate", "delete"}, Calls(op),
             op \in {"downgrade", "upgrade"} => own.tier # 0,
             op = "upgrade" => own.snap.status = "active",
             op \in {"cancel", "reactivate"} => own.snap.sub # NoSub
      PROVE  OwnerOK'
  BY <1>2 DEF Calls, OwnerOK, Request
<1>3. ASSUME s \in Sub, Running(s)
      PROVE  /\ subs[s] \in Subscription /\ subs[s].tier # 0
             /\ subs[s].status \in {"active", "past_due"}
  BY <1>3 DEF Running, StripeOK, PaidSub
<1>4. ASSUME UNCHANGED <<subs, jobs>>
      PROVE  StripeOK' /\ Grows
  BY <1>4 DEF StripeOK, Grows

\* a subscription that runs is changed, and the change announced
<1>5. ASSUME s \in Sub, NEW new \in Subscription, new.tier # 0,
             new.status \in {"active", "past_due"},
             subs' = [subs EXCEPT ![s] = new],
             Emits(<<EventOf("updated", s, new)>>) \/ jobs' = jobs
      PROVE  StripeOK' /\ Grows
  <2>1. subs' \in [Sub -> PaidSub] /\ <<EventOf("updated", s, new)>> \in Seq(PaidEvent)
    BY <1>5, AnnouncedOK
  <2>2. QED
    BY <1>5, <2>1, EmitsOK DEF StripeOK, Grows
<1>6. CASE OpenPage
  <2>1. PICK p \in Sub : subs' = [subs EXCEPT ![p].status = "page", ![p].tier = own.tier]
    BY <1>6 DEF OpenPage
  <2>2. [subs[p] EXCEPT !.status = "page", !.tier = own.tier] \in PaidSub
    <3>1. own.tier # 0
      BY <1>6 DEF OpenPage, Gives, OwnerOK
    <3>2. subs[p] \in Subscription
      BY DEF StripeOK, PaidSub
    <3>3. QED
      BY <1>1, <3>1, <3>2 DEF PaidSub, Subscription
  <2>3. subs' = [subs EXCEPT ![p] = [subs[p] EXCEPT !.status = "page", !.tier = own.tier]]
    BY <2>1 DEF StripeOK
  <2>4. subs' \in [Sub -> PaidSub]
    BY <2>2, <2>3 DEF StripeOK
  <2>5. QED
    BY <1>6, <2>4, NoRequestOK DEF OpenPage, StripeOK, Grows
<1>7. CASE ChangeTier
  <2>1. s \in Sub /\ own.tier # 0 /\ own.snap.status = "active"
    BY <1>1, <1>7 DEF ChangeTier, Gives, OwnerOK
  <2>2. CASE ~Running(s)
    BY <1>4, <1>7, <2>2, NoRequestOK DEF ChangeTier
  <2>3. CASE Running(s) /\ own.tier < own.snap.tier
    <3> DEFINE new == [subs[s] EXCEPT !.sched = TRUE, !.next = own.tier]
    <3>1. new \in Subscription /\ new.tier # 0 /\ new.status \in {"active", "past_due"}
      BY <1>1, <1>3, <2>1, <2>3 DEF Subscription
    <3>2. /\ Calls("downgrade") /\ subs' = [subs EXCEPT ![s] = new]
          /\ Emits(<<EventOf("updated", s, new)>>)
      BY <1>7, <2>3 DEF ChangeTier
    <3> HIDE DEF new
    <3>3. QED
      BY <1>2, <1>5, <2>1, <3>1, <3>2
  <2>4. CASE Running(s) /\ ~(own.tier < own.snap.tier)
    <3> DEFINE new == [subs[s] EXCEPT !.tier = own.tier, !.cancel = FALSE,
                                      !.sched = FALSE, !.next = 0]
    <3>1. new \in Subscription /\ new.tier # 0
      BY <1>1, <1>3, <2>1, <2>4 DEF Subscription
    <3>2. Calls("upgrade") /\ Charged(s, new)
      BY <1>7, <2>4 DEF ChangeTier
    <3> HIDE DEF new
    <3>3. QED
      BY <1>2, <2>1, <3>1, <3>2, ChargedOK
  <2>5. QED
    BY <2>2, <2>3, <2>4
<1>8. CASE Cancel
  <2> DEFINE new == [subs[s] EXCEPT !.cancel = TRUE]
  <2>1. s \in Sub /\ s # NoSub /\ (Calls("cancel") \/ own' = NoRequest)
    BY <1>1, <1>8 DEF Cancel, Gives, OwnerOK
  <2>2. OwnerOK'
    BY <1>2, <2>1, NoRequestOK
  <2>3. CASE UNCHANGED <<subs, jobs>>
    BY <1>4, <2>2, <2>3
  <2>4. CASE /\ Running(s) /\ subs' = [subs EXCEPT ![s] = new]
             /\ Emits(<<EventOf("updated", s, new)>>) \/ jobs' = jobs
    <3>1. new \in Subscription /\ new.tier # 0 /\ new.status \in {"active", "past_due"}
      BY <1>3, <2>1, <2>4 DEF Subscription
    <3> HIDE DEF new
    <3>2. QED
      BY <1>5, <2>1, <2>2, <2>4, <3>1
  <2>5. QED
    BY <1>8, <2>3, <2>4 DEF Cancel
<1>9. CASE Reactivate
  <2> DEFINE new == [subs[s] EXCEPT !.cancel = FALSE, !.sched = FALSE, !.next = 0]
  <2>1. s \in Sub /\ s # NoSub /\ (Calls("reactivate") \/ own' = NoRequest)
    BY <1>1, <1>9 DEF Reactivate, Gives, OwnerOK
  <2>2. OwnerOK'
    BY <1>2, <2>1, NoRequestOK
  <2>3. CASE UNCHANGED <<subs, jobs>>
    BY <1>4, <2>2, <2>3
  <2>4. CASE /\ Running(s) /\ subs' = [subs EXCEPT ![s] = new]
             /\ Emits(<<EventOf("updated", s, new)>>)
    <3>1. new \in Subscription /\ new.tier # 0 /\ new.status \in {"active", "past_due"}
      BY <1>1, <1>3, <2>1, <2>4 DEF Subscription
    <3> HIDE DEF new
    <3>2. QED
      BY <1>5, <2>1, <2>2, <2>4, <3>1
  <2>5. QED
    BY <1>9, <2>3, <2>4 DEF Reactivate
<1>10. CASE CancelNow
  <2>1. StripeOK' /\ Grows
    BY <1>1, <1>3, <1>4, <1>10, StopsOK DEF CancelNow
  <2>2. QED
    BY <1>2, <1>10, <2>1 DEF CancelNow
<1>11. QED
  BY <1>6, <1>7, <1>8, <1>9, <1>10

LEMMA OwnerSaveStep ==
    ASSUME BillingInv, OwnerSave
    PROVE  BillingInv'
<1> USE DEF BillingInv
<1>1. own.snap \in Document /\ doc \in Document
  BY DEF OwnerOK, DocOK
<1>2. Requested \in Document /\ (Sound(own.snap) => Sound(Requested))
  BY RequestedOK DEF OwnerSave
<1> DEFINE saved == Saved(own.snap, Requested)
<1>3. saved \in Document /\ (own.snap = doc /\ Sound(Requested) => Sound(saved))
  BY <1>1, <1>2, SavedOK
<1>4. ~stale' => ~stale /\ own.snap = doc
  BY DEF OwnerSave
<1>5. ~stale' => Sound(saved)
  BY <1>2, <1>3, <1>4 DEF DocOK
<1>6. doc' = IF own.op = "delete"
             THEN [saved EXCEPT !.sub = NoSub, !.status = "canceled", !.cancel = FALSE,
                                !.pending = 0, !.sched = FALSE]
             ELSE saved
  BY DEF OwnerSave
<1> HIDE DEF saved
<1>7. 0 \in Tier
  BY TierAssumption DEF Tier
<1>8. doc' \in Document
  BY <1>3, <1>6, <1>7 DEF Document
<1>9. ~stale' => Sound(doc')
  BY <1>3, <1>5, <1>6 DEF Document, Sound
<1>10. StripeOK' /\ OwnerOK' /\ CountsOK'
  BY NoRequestOK DEF OwnerSave, StripeOK, CountsOK, credits
<1>11. QED
  BY <1>8, <1>9, <1>10 DEF OwnerSave, DocOK

BoughtEvent == [EventOf("boost", NoSub, NoSubscription) EXCEPT !.status = "active"]

LEMMA BoughtEventOK == BoughtEvent \in PaidEvent /\ BoughtEvent.type = "boost"
<1>1. 0 \in Tier
  BY TierAssumption DEF Tier
<1>2. QED
  BY <1>1 DEF BoughtEvent, EventOf, NoSubscription, PaidEvent, Event

LEMMA OwnerStep ==
    ASSUME BillingInv, Owner
    PROVE  BillingInv'
<1> USE DEF BillingInv
<1>1. ASSUME NEW op \in {"choose", "cancel", "reactivate", "delete"}, NEW tier \in Tier, Load(op, tier)
      PROVE  BillingInv'
  <2>1. own' = [op |-> op, tier |-> tier, called |-> FALSE, snap |-> doc]
    BY <1>1 DEF Load
  <2>2. OwnerOK'
    BY <1>1, <2>1 DEF Load, OwnerOK, DocOK, Request
  <2>3. QED
    BY <1>1, <2>2 DEF Load, StripeOK, DocOK, CountsOK, ghosts, credits
<1>2. CASE OpenPage \/ ChangeTier \/ Cancel \/ Reactivate \/ CancelNow
  <2>1. UNCHANGED <<now, doc, cron, retries, asked, ghosts>>
    BY <1>2 DEF OpenPage, ChangeTier, Cancel, Reactivate, CancelNow
  <2>2. QED
    BY <1>2, <2>1, CallStep DEF DocOK, CountsOK, ghosts, credits
<1>3. CASE OwnerSave
  BY <1>3, OwnerSaveStep
<1>4. CASE OwnerCrash
  BY <1>4, NoRequestOK DEF OwnerCrash, StripeOK, DocOK, CountsOK, ghosts, credits
<1>5. CASE Buy
  <2>1. BoughtEvent \in PaidEvent /\ Emits(<<BoughtEvent>>)
    BY <1>5, BoughtEventOK DEF Buy, BoughtEvent
  <2>2. <<BoughtEvent>> \in Seq(PaidEvent)
    BY <2>1
  <2>3. jobs' \in Seq(PaidJob)
    BY <2>1, <2>2, EmitsOK DEF StripeOK
  <2>4. QED
    BY <1>5, <2>3 DEF Buy, StripeOK, OwnerOK, DocOK, CountsOK, ghosts, credits
<1>6. QED
  BY <1>1, <1>2, <1>3, <1>4, <1>5 DEF Owner

-------------------------------------------------------------------------------
(* The whole *)

LEMMA InitOK == Init => BillingInv
<1> SUFFICES ASSUME Init PROVE BillingInv
  OBVIOUS
<1>1. PICK tier \in Tier :
        IF tier = 0
        THEN doc = NewDocument /\ subs = [s \in Sub |-> NoSubscription]
        ELSE /\ doc = [NewDocument EXCEPT !.tier = tier, !.sub = 1, !.status = "active",
                                          !.granted = IF tier = TopTier THEN 1 ELSE NoPeriod,
                                          !.credits = IF tier = TopTier THEN 1 ELSE 0]
             /\ subs = [s \in Sub |-> IF s = 1
                                      THEN [NoSubscription EXCEPT !.status = "active",
                                                  !.tier = tier, !.period = 1]
                                      ELSE NoSubscription]
  BY DEF Init
<1>2. 0 \in Tier /\ 1 \in Sub /\ 1 \in 0 .. Cap /\ 0 \in 0 .. Cap
  BY TierAssumption, BoundsAssumption DEF Tier, Sub
<1>3. NoSubscription \in PaidSub
  BY <1>2 DEF NoSubscription, PaidSub, Subscription
<1>4. ASSUME tier # 0
      PROVE  [NoSubscription EXCEPT !.status = "active", !.tier = tier, !.period = 1] \in PaidSub
  BY <1>2, <1>4 DEF NoSubscription, PaidSub, Subscription
<1>5. subs \in [Sub -> PaidSub]
  BY <1>1, <1>3, <1>4
<1>6. doc \in Document /\ Sound(doc)
  <2>1. CASE tier = 0
    BY <1>1, <2>1, NewDocumentOK
  <2>2. CASE tier # 0
    <3> DEFINE period == IF tier = TopTier THEN 1 ELSE NoPeriod
               balance == IF tier = TopTier THEN 1 ELSE 0
    <3>0. period \in Nat /\ balance \in 0 .. Cap
      BY <1>2 DEF NoPeriod
    <3>1. doc \in Document
      <4>1. doc = [NewDocument EXCEPT !.tier = tier, !.sub = 1, !.status = "active",
                                      !.granted = period, !.credits = balance]
        BY <1>1, <2>2
      <4> HIDE DEF period, balance
      <4>2. QED
        BY <1>2, <3>0, <4>1, NewDocumentOK DEF Document
    <3>2. Sound(doc)
      BY <1>1, <2>2 DEF NewDocument, Sound
    <3>3. QED
      BY <3>1, <3>2
  <2>3. QED
    BY <2>1, <2>2
<1>7. OwnerOK
  BY NewDocumentOK, <1>2 DEF Init, NoRequest, OwnerOK, Request
<1>8. QED
  <2>1. jobs \in Seq(PaidJob)
    BY DEF Init
  <2>2. credited \subseteq Token /\ again \subseteq Token
    <3>1. doc.granted \in Nat
      BY <1>6 DEF Document
    <3>2. \A p \in {doc.granted} \ {NoPeriod} : <<"period", p>> \in Token
      BY <3>1 DEF Token
    <3>3. credited = {<<"period", p>> : p \in {doc.granted} \ {NoPeriod}} /\ again = {}
      BY DEF Init
    <3>4. QED
      BY <3>2, <3>3
  <2>3. now \in Nat /\ CountsOK
    BY <2>2 DEF Init, CountsOK
  <2>4. QED
    BY <1>5, <1>6, <1>7, <2>1, <2>3 DEF BillingInv, StripeOK, DocOK

LEMMA StepOK == BillingInv /\ [Next]_vars => BillingInv'
<1> SUFFICES ASSUME BillingInv, [Next]_vars PROVE BillingInv'
  OBVIOUS
<1> USE DEF BillingInv
<1>1. CASE Stripe
  BY <1>1, StripeStep DEF OwnerOK, DocOK, CountsOK, ghosts, credits
<1>2. CASE Worker
  BY <1>2, WorkerStep
<1>3. CASE Owner
  BY <1>3, OwnerStep
<1>4. CASE CronFind
  BY <1>4 DEF CronFind, ghosts, credits, StripeOK, OwnerOK, DocOK, CountsOK
<1>5. CASE CronErase
  <2>1. doc' \in Document /\ (Sound(doc) => Sound(doc'))
    BY <1>5 DEF CronErase, DocOK, Document, Sound, NoTime
  <2>2. QED
    BY <1>5, <2>1 DEF CronErase, StripeOK, OwnerOK, DocOK, CountsOK, ghosts, credits
<1>6. CASE Tick
  BY <1>6 DEF Tick, ghosts, credits, StripeOK, OwnerOK, DocOK, CountsOK
<1>7. CASE UNCHANGED vars
  BY <1>7 DEF vars, StripeOK, OwnerOK, DocOK, CountsOK
<1>8. QED
  BY <1>1, <1>2, <1>3, <1>4, <1>5, <1>6, <1>7 DEF Next

LEMMA InvAlways == Spec => []BillingInv
BY InitOK, StepOK, PTL DEF Spec

\* The fields of the document, Stripe's subscriptions, the jobs and the owner's
\* request keep their types; in particular the balance of credits keeps its cap,
\* whatever events are repeated or reordered.
THEOREM TypeCorrect == Spec => []TypeOK
<1>1. BillingInv => TypeOK
  <2> SUFFICES ASSUME BillingInv PROVE TypeOK
    OBVIOUS
  <2>1. PaidJob \subseteq Job
    BY DEF PaidJob, PaidEvent, Job
  <2>2. jobs \in Seq(Job)
    BY <2>1, LenProperties DEF BillingInv, StripeOK
  <2>3. subs \in [Sub -> Subscription]
    BY DEF BillingInv, StripeOK, PaidSub
  <2>4. QED
    BY <2>2, <2>3 DEF BillingInv, OwnerOK, DocOK, CountsOK, TypeOK
<1>2. QED
  BY <1>1, InvAlways, PTL

\* A venue whose content is scheduled for purge has no tier, for any order and any
\* repetition of Stripe's events, while no two handlers overlap.
THEOREM PurgeNeedsNoTier == Spec => []PurgeMeansUnpaid
<1>1. BillingInv => PurgeMeansUnpaid
  BY DEF BillingInv, DocOK, Sound, PurgeMeansUnpaid
<1>2. QED
  BY <1>1, InvAlways, PTL

-------------------------------------------------------------------------------
(* The tier of the venue is the one that is paid for *)

\* The events that say what became of a subscription, and whether it is one by now.
States(e) == e.type \notin {"paid", "boost"}
StatesOf(s) == {n \in DOMAIN jobs : States(jobs[n].event) /\ jobs[n].event.sub = s}
Begun(s) == subs[s].status \notin {"none", "page"}

Honest(e) ==
    /\ e.type = "completed" => e.status = "active"
    /\ e.type = "deleted" => e.status = "canceled"

Found(e, d) == e.type # "completed" /\ (e.type = "boost" \/ e.sub = d.sub)

\* A job has found the venue of its subscription before it saves.
JobsFound ==
    \A n \in DOMAIN jobs :
      /\ jobs[n].event.type # "boost" => Begun(jobs[n].event.sub)
      /\ Honest(jobs[n].event)
      /\ jobs[n].phase = "read" => Found(jobs[n].event, jobs[n].snap)

\* The last event of a subscription says what Stripe has.
LastEventTrue ==
    \A s \in Sub : \A n \in StatesOf(s) :
      (\A m \in StatesOf(s) : m <= n) =>
        jobs[n].event.tier = subs[s].tier /\ jobs[n].event.status = subs[s].status

\* What an upgrade will write is what Stripe charges for.
UpgradeTrue ==
    own.called /\ own.op = "upgrade" =>
      /\ own.snap.sub \in Sub
      /\ subs[own.snap.sub].tier = own.tier /\ subs[own.snap.sub].next = 0

DocBegun == doc.sub # NoSub => Begun(doc.sub)

\* Without a subscription the venue has no tier; with one whose events are all handled, its own.
DocFollows ==
    ~stale =>
      /\ doc.sub = NoSub => doc.tier = 0
      /\ ~late /\ doc.sub # NoSub /\ (\A n \in StatesOf(doc.sub) : jobs[n].phase = "done") =>
           doc.tier = PaidTier /\ doc.status = subs[doc.sub].status

FollowInv == JobsFound /\ LastEventTrue /\ UpgradeTrue /\ DocBegun /\ DocFollows

\* Stripe changes s and announces what it has become.
Announces(s) ==
    /\ \A n \in DOMAIN jobs : n \in DOMAIN jobs' /\ jobs'[n] = jobs[n]
    /\ \A n \in DOMAIN jobs' \ DOMAIN jobs :
         /\ jobs'[n].phase = "queued" /\ jobs'[n].event.sub = s /\ Honest(jobs'[n].event)
         /\ \A m \in DOMAIN jobs : m < n
         /\ States(jobs'[n].event) =>
              jobs'[n].event.tier = subs'[s].tier /\ jobs'[n].event.status = subs'[s].status
    /\ \E n \in DOMAIN jobs' \ DOMAIN jobs : States(jobs'[n].event)
    /\ \A t \in Sub : t # s => subs'[t] = subs[t]
    /\ subs'[s].status \notin {"none", "page"}

LEMMA Announced ==
    ASSUME StripeOK, NEW s \in Sub, NEW new \in Subscription, new.status \notin {"none", "page"},
           subs' = [subs EXCEPT ![s] = new],
           NEW events \in Seq(PaidEvent), Emits(events),
           \A i \in DOMAIN events :
             /\ events[i].sub = s /\ Honest(events[i])
             /\ States(events[i]) =>
                  events[i].tier = new.tier /\ events[i].status = new.status,
           \E i \in DOMAIN events : States(events[i])
    PROVE  Announces(s) /\ subs'[s] = new
<1>1. subs'[s] = new /\ \A t \in Sub : t # s => subs'[t] = subs[t]
  BY DEF StripeOK
<1>2. /\ \A n \in DOMAIN jobs : n \in DOMAIN jobs' /\ jobs'[n] = jobs[n]
      /\ \A n \in DOMAIN jobs' \ DOMAIN jobs :
           /\ jobs'[n].phase = "queued" /\ \A m \in DOMAIN jobs : m < n
           /\ \E i \in DOMAIN events : jobs'[n].event = events[i]
      /\ \A i \in DOMAIN events :
           \E n \in DOMAIN jobs' \ DOMAIN jobs : jobs'[n].event = events[i]
  BY EmitsAppends DEF StripeOK
<1>3. ASSUME NEW n \in DOMAIN jobs' \ DOMAIN jobs
      PROVE  /\ jobs'[n].event.sub = s /\ Honest(jobs'[n].event)
             /\ States(jobs'[n].event) =>
                  jobs'[n].event.tier = subs'[s].tier /\ jobs'[n].event.status = subs'[s].status
  <2>1. PICK i \in DOMAIN events : jobs'[n].event = events[i]
    BY <1>2
  <2>2. QED
    BY <1>1, <2>1
<1>4. \E n \in DOMAIN jobs' \ DOMAIN jobs : States(jobs'[n].event)
  BY <1>2
<1>5. QED
  BY <1>1, <1>2, <1>3, <1>4 DEF Announces

\* One event, or one and the invoice's, in either order.
LEMMA AnnouncedOne ==
    ASSUME StripeOK, NEW s \in Sub, NEW new \in Subscription, new.status \notin {"none", "page"},
           subs' = [subs EXCEPT ![s] = new],
           NEW e \in PaidEvent, e.sub = s, States(e), Honest(e),
           e.tier = new.tier, e.status = new.status, Emits(<<e>>)
    PROVE  Announces(s) /\ subs'[s] = new
<1> DEFINE events == <<e>>
<1>1. /\ events \in Seq(PaidEvent) /\ DOMAIN events = {1} /\ events[1] = e
  OBVIOUS
<1> HIDE DEF events
<1>2. Emits(events)
  BY DEF events
<1>3. \A i \in DOMAIN events :
        /\ events[i].sub = s /\ Honest(events[i])
        /\ States(events[i]) => events[i].tier = new.tier /\ events[i].status = new.status
  BY <1>1
<1>4. \E i \in DOMAIN events : States(events[i])
  BY <1>1
<1>5. QED
  BY <1>1, <1>2, <1>3, <1>4, Announced

LEMMA AnnouncedTwo ==
    ASSUME StripeOK, NEW s \in Sub, NEW new \in Subscription, new.status \notin {"none", "page"},
           subs' = [subs EXCEPT ![s] = new],
           NEW e \in PaidEvent, e.sub = s, States(e), Honest(e),
           e.tier = new.tier, e.status = new.status,
           NEW f \in PaidEvent, f.sub = s, f.type = "paid",
           Emits(<<e, f>>) \/ Emits(<<f, e>>)
    PROVE  Announces(s) /\ subs'[s] = new
<1> DEFINE ef == <<e, f>>
           fe == <<f, e>>
<1>1. /\ ef \in Seq(PaidEvent) /\ DOMAIN ef = {1, 2} /\ ef[1] = e /\ ef[2] = f
      /\ fe \in Seq(PaidEvent) /\ DOMAIN fe = {1, 2} /\ fe[1] = f /\ fe[2] = e
      /\ ~States(f)
  BY DEF States
<1>2. Emits(ef) \/ Emits(fe)
  OBVIOUS
<1> HIDE DEF ef, fe
<1>3. ASSUME NEW events \in {ef, fe}
      PROVE  /\ events \in Seq(PaidEvent)
             /\ \A i \in DOMAIN events :
                  /\ events[i].sub = s /\ Honest(events[i])
                  /\ States(events[i]) =>
                       events[i].tier = new.tier /\ events[i].status = new.status
             /\ \E i \in DOMAIN events : States(events[i])
  BY <1>1 DEF Honest
<1>4. ASSUME NEW events \in {ef, fe}, Emits(events)
      PROVE  Announces(s) /\ subs'[s] = new
  BY <1>3, <1>4, Announced
<1>5. QED
  BY <1>2, <1>4

\* After an announcement the venue has an event of that subscription to wait for.
LEMMA AnnouncesFollow ==
    ASSUME BillingInv, FollowInv, NEW s \in Sub, Announces(s), jobs' \in Seq(PaidJob),
           UNCHANGED <<doc, late, stale>>, UpgradeTrue'
    PROVE  FollowInv'
<1> USE DEF BillingInv, FollowInv
<1>1. /\ \A n \in DOMAIN jobs : jobs[n].event.type # "boost" => jobs[n].event.sub \in Sub
      /\ DOMAIN jobs \subseteq Nat /\ DOMAIN jobs' \subseteq Nat
  <2>1. jobs \in Seq(PaidJob)
    BY DEF StripeOK
  <2>2. DOMAIN jobs = 1 .. Len(jobs) /\ DOMAIN jobs' = 1 .. Len(jobs')
    BY <2>1, LenProperties
  <2>3. \A n \in DOMAIN jobs : jobs[n] \in PaidJob
    BY <2>1, <2>2, LenProperties
  <2>4. QED
    BY <2>2, <2>3 DEF PaidJob, PaidEvent, Event
<1>2. \A t \in Sub : Begun(t) => Begun(t)'
  BY DEF Begun, Announces
<1>3. JobsFound'
  <2> SUFFICES ASSUME NEW n \in DOMAIN jobs'
               PROVE  /\ jobs'[n].event.type # "boost" =>
                           subs'[jobs'[n].event.sub].status \notin {"none", "page"}
                      /\ Honest(jobs'[n].event)
                      /\ jobs'[n].phase = "read" => Found(jobs'[n].event, jobs'[n].snap)
    BY DEF JobsFound, Begun, Honest, Found
  <2>1. CASE n \in DOMAIN jobs
    <3>1. /\ jobs'[n] = jobs[n]
          /\ jobs[n].event.type # "boost" => jobs[n].event.sub \in Sub /\ Begun(jobs[n].event.sub)
      BY <1>1, <2>1 DEF Announces, JobsFound
    <3>2. QED
      BY <1>2, <2>1, <3>1 DEF JobsFound, Begun
  <2>2. CASE n \notin DOMAIN jobs
    BY <2>2 DEF Announces
  <2>3. QED
    BY <2>1, <2>2
<1>4. \A t \in Sub : t # s => StatesOf(t)' = StatesOf(t)
  BY DEF StatesOf, Announces
<1>5. PICK l \in DOMAIN jobs' \ DOMAIN jobs : States(jobs'[l].event)
  BY DEF Announces
<1>6. l \in StatesOf(s)' /\ jobs'[l].phase = "queued" /\ \A m \in DOMAIN jobs : m < l
  BY <1>5 DEF StatesOf, Announces
<1>7. LastEventTrue'
  <2> SUFFICES ASSUME NEW t \in Sub, NEW n \in StatesOf(t)', \A m \in StatesOf(t)' : m <= n
               PROVE  jobs'[n].event.tier = subs'[t].tier /\ jobs'[n].event.status = subs'[t].status
    BY DEF LastEventTrue, StatesOf
  <2>1. CASE t = s
    <3>1. l <= n /\ n \in DOMAIN jobs' /\ States(jobs'[n].event)
      BY <1>6, <2>1 DEF StatesOf
    <3>2. n \notin DOMAIN jobs
      BY <1>1, <1>6, <3>1
    <3>3. QED
      BY <2>1, <3>1, <3>2 DEF Announces
  <2>2. CASE t # s
    <3>1. n \in StatesOf(t) /\ \A m \in StatesOf(t) : m <= n
      BY <1>4, <2>2
    <3>2. jobs'[n] = jobs[n] /\ subs'[t] = subs[t]
      BY <2>2, <3>1 DEF StatesOf, Announces
    <3>3. QED
      BY <3>1, <3>2 DEF LastEventTrue
  <2>3. QED
    BY <2>1, <2>2
<1>8. DocBegun'
  BY <1>2 DEF DocBegun, DocOK, Document, Begun
<1>9. DocFollows'
  <2>1. CASE doc.sub = s
    <3>1. s # NoSub /\ l \in StatesOf(doc.sub)' /\ jobs'[l].phase # "done"
      BY <1>6, <2>1 DEF Sub, NoSub
    <3>2. QED
      BY <2>1, <3>1 DEF DocFollows
  <2>2. CASE doc.sub # s
    <3>1. doc.sub \in Sub \cup {NoSub}
      BY DEF DocOK, Document
    <3>2. doc.sub # NoSub =>
            /\ StatesOf(doc.sub)' = StatesOf(doc.sub)
            /\ subs'[doc.sub] = subs[doc.sub]
            /\ \A n \in StatesOf(doc.sub) : jobs'[n] = jobs[n]
      BY <1>4, <2>2, <3>1 DEF Announces, StatesOf
    <3>3. PaidTier' = PaidTier
      BY <3>1, <3>2 DEF PaidTier
    <3>4. QED
      BY <3>2, <3>3 DEF DocFollows
  <2>3. QED
    BY <2>1, <2>2
<1>10. QED
  BY <1>3, <1>7, <1>8, <1>9

\* After an event that says nothing of a subscription, the venue waits for what it did.
LEMMA AppendFollows ==
    ASSUME BillingInv, FollowInv, NEW e \in PaidEvent, ~States(e), Honest(e),
           e.type # "boost" => Begun(e.sub),
           Emits(<<e>>), UNCHANGED <<subs, doc, own, late, stale>>
    PROVE  FollowInv'
<1> USE DEF BillingInv, FollowInv
<1> DEFINE events == <<e>>
<1>1. events \in Seq(PaidEvent) /\ DOMAIN events = {1} /\ events[1] = e
  OBVIOUS
<1> HIDE DEF events
<1>2. Emits(events)
  BY DEF events
<1>3. /\ \A n \in DOMAIN jobs : n \in DOMAIN jobs' /\ jobs'[n] = jobs[n]
      /\ \A n \in DOMAIN jobs' \ DOMAIN jobs : jobs'[n].phase = "queued" /\ jobs'[n].event = e
  BY <1>1, <1>2, EmitsAppends DEF StripeOK
<1>4. JobsFound'
  <2> SUFFICES ASSUME NEW n \in DOMAIN jobs'
               PROVE  /\ jobs'[n].event.type # "boost" => Begun(jobs'[n].event.sub)
                      /\ Honest(jobs'[n].event)
                      /\ jobs'[n].phase = "read" => Found(jobs'[n].event, jobs'[n].snap)
    BY DEF JobsFound, Begun, Honest, Found
  <2>1. QED
    BY <1>3 DEF JobsFound
<1>5. \A t : StatesOf(t)' = StatesOf(t)
  BY <1>3 DEF StatesOf, States
<1>6. LastEventTrue'
  BY <1>3, <1>5 DEF LastEventTrue, StatesOf
<1>7. UpgradeTrue' /\ DocBegun' /\ PaidTier' = PaidTier
  BY DEF UpgradeTrue, DocBegun, Begun, PaidTier
<1>8. DocFollows'
  <2>1. StatesOf(doc.sub)' = StatesOf(doc.sub)
    BY <1>3 DEF StatesOf, States
  <2>2. \A n \in StatesOf(doc.sub) : jobs'[n] = jobs[n]
    BY <1>3 DEF StatesOf
  <2>3. QED
    BY <1>7, <2>1, <2>2 DEF DocFollows
<1>9. QED
  BY <1>4, <1>6, <1>7, <1>8

LEMMA StopsAnnounced ==
    ASSUME StripeOK, NEW s \in Sub, subs[s].status # "none", Stops(s)
    PROVE  /\ Announces(s)
           /\ subs'[s].tier = subs[s].tier /\ subs'[s].next = subs[s].next
<1> DEFINE new == [subs[s] EXCEPT !.status = "canceled", !.open = {}]
           e == EventOf("deleted", s, new)
<1>1. /\ new \in Subscription /\ new.tier # 0 /\ new.status = "canceled"
      /\ new.tier = subs[s].tier /\ new.next = subs[s].next
  BY DEF StripeOK, PaidSub, Subscription
<1>2. subs' = [subs EXCEPT ![s] = new] /\ Emits(<<e>>)
  BY DEF Stops
<1> HIDE DEF new
<1>3. e \in PaidEvent
  BY <1>1, EventOfOK
<1>4. /\ e.sub = s /\ e.type = "deleted" /\ e.tier = new.tier /\ e.status = new.status
      /\ Honest(e) /\ States(e)
  BY <1>1 DEF EventOf, Honest, States
<1> HIDE DEF e
<1>5. Announces(s) /\ subs'[s] = new
  BY <1>1, <1>2, <1>3, <1>4, AnnouncedOne
<1>6. QED
  BY <1>1, <1>5

LEMMA ChargedAnnounced ==
    ASSUME StripeOK, NEW s \in Sub, NEW new \in Subscription, new.tier # 0, Charged(s, new)
    PROVE  Announces(s) /\ subs'[s].tier = new.tier /\ subs'[s].next = new.next
<1> DEFINE paid == [new EXCEPT !.status = "active"]
           unpaid == [new EXCEPT !.status = "past_due", !.open = @ \cup {new.period}]
<1>1. /\ paid \in Subscription /\ paid.status = "active"
      /\ paid.tier = new.tier /\ paid.next = new.next
  BY DEF Subscription
<1>2. /\ unpaid \in Subscription /\ unpaid.status = "past_due"
      /\ unpaid.tier = new.tier /\ unpaid.next = new.next
  BY DEF Subscription
<1> DEFINE e == EventOf("updated", s, paid)
           f == EventOf("paid", s, paid)
           g == EventOf("updated", s, unpaid)
<1>3. \/ subs' = [subs EXCEPT ![s] = paid] /\ Emits(<<e, f>>)
      \/ subs' = [subs EXCEPT ![s] = unpaid] /\ Emits(<<g>>)
  BY DEF Charged
<1> HIDE DEF paid, unpaid
<1>4. e \in PaidEvent /\ f \in PaidEvent /\ g \in PaidEvent
  BY <1>1, <1>2, EventOfOK
<1>5. /\ e.sub = s /\ e.type = "updated" /\ e.tier = paid.tier /\ e.status = paid.status
      /\ f.sub = s /\ f.type = "paid"
      /\ g.sub = s /\ g.type = "updated" /\ g.tier = unpaid.tier /\ g.status = unpaid.status
      /\ Honest(e) /\ Honest(g) /\ States(e) /\ States(g)
  BY DEF EventOf, Honest, States
<1> HIDE DEF e, f, g
<1>6. CASE subs' = [subs EXCEPT ![s] = paid] /\ Emits(<<e, f>>)
  <2>1. Announces(s) /\ subs'[s] = paid
    BY <1>1, <1>4, <1>5, <1>6, AnnouncedTwo
  <2>2. QED
    BY <1>1, <2>1
<1>7. CASE subs' = [subs EXCEPT ![s] = unpaid] /\ Emits(<<g>>)
  <2>1. Announces(s) /\ subs'[s] = unpaid
    BY <1>2, <1>4, <1>5, <1>7, AnnouncedOne
  <2>2. QED
    BY <1>2, <2>1
<1>8. QED
  BY <1>3, <1>6, <1>7

LEMMA StripeFollows ==
    ASSUME BillingInv, FollowInv, Stripe
    PROVE  FollowInv'
<1> USE DEF BillingInv
<1>1. PICK s \in Sub : Pay(s) \/ Renew(s) \/ GiveUp(s) \/ Undated(s) \/ \E p \in 1 .. MaxPeriods : Settle(s, p)
  BY DEF Stripe
<1>2. StripeOK' /\ UNCHANGED <<now, doc, own, cron, retries, asked, late, stale>>
  BY StripeStep DEF ghosts
<1>3. /\ subs[s] \in Subscription
      /\ subs[s].status # "none" => subs[s].tier # 0
      /\ NextPeriod \in Nat
  BY NextPeriodOK DEF StripeOK, PaidSub
<1>4. ASSUME Announces(s),
             subs[s].next = 0 => subs'[s].tier = subs[s].tier /\ subs'[s].next = 0
      PROVE  FollowInv'
  <2>1. UpgradeTrue'
    BY <1>2, <1>4 DEF FollowInv, UpgradeTrue, Announces
  <2>2. QED
    BY <1>2, <1>4, <2>1, AnnouncesFollow DEF StripeOK
<1>5. CASE Pay(s)
  <2> DEFINE new == [subs[s] EXCEPT !.status = "active", !.period = NextPeriod]
             e == EventOf("completed", s, new)
             f == EventOf("paid", s, new)
  <2>1. /\ new \in Subscription /\ new.tier # 0 /\ new.status = "active"
        /\ new.tier = subs[s].tier /\ new.next = subs[s].next
    BY <1>3, <1>5 DEF Pay, Subscription
  <2>2. subs' = [subs EXCEPT ![s] = new] /\ (Emits(<<e, f>>) \/ Emits(<<f, e>>))
    BY <1>5 DEF Pay
  <2> HIDE DEF new
  <2>3. e \in PaidEvent /\ f \in PaidEvent
    BY <2>1, EventOfOK
  <2>4. /\ e.sub = s /\ e.type = "completed" /\ e.tier = new.tier /\ e.status = new.status
        /\ f.sub = s /\ f.type = "paid" /\ Honest(e) /\ States(e)
    BY <2>1 DEF EventOf, Honest, States
  <2> HIDE DEF e, f
  <2>5. Announces(s) /\ subs'[s] = new
    BY <2>1, <2>2, <2>3, <2>4, AnnouncedTwo
  <2>6. QED
    BY <1>4, <2>1, <2>5
<1>6. CASE Renew(s)
  <2>1. CASE Stops(s)
    BY <1>4, <1>6, <2>1, StopsAnnounced DEF Renew, Running
  <2>2. CASE Charged(s, Renewed(subs[s]))
    <3> DEFINE new == Renewed(subs[s])
    <3>1. new \in Subscription /\ new.tier # 0
      BY <1>3, <1>6, RenewedOK DEF Renew, Running
    <3>2. subs[s].next = 0 => new.tier = subs[s].tier /\ new.next = 0
      BY <1>3 DEF Renewed, Subscription
    <3> HIDE DEF new
    <3>3. Charged(s, new)
      BY <2>2 DEF new
    <3>4. Announces(s) /\ subs'[s].tier = new.tier /\ subs'[s].next = new.next
      BY <3>1, <3>3, ChargedAnnounced
    <3>5. QED
      BY <1>4, <3>2, <3>4
  <2>3. QED
    BY <1>6, <2>1, <2>2 DEF Renew
<1>7. CASE GiveUp(s)
  BY <1>4, <1>7, StopsAnnounced DEF GiveUp
<1>8. ASSUME NEW p \in 1 .. MaxPeriods, Settle(s, p)
      PROVE  FollowInv'
  <2> DEFINE new == [subs[s] EXCEPT !.open = @ \ {p},
                                    !.status = IF p = subs[s].period THEN "active" ELSE @]
             e == EventOf("updated", s, new)
             invoice == EventOf("paid", s, new)
             f == [invoice EXCEPT !.period = p]
  <2>1. /\ new \in Subscription /\ new.tier # 0 /\ new.status \in {"active", "past_due"}
        /\ new.tier = subs[s].tier /\ new.next = subs[s].next
    BY <1>3, <1>8 DEF Settle, Running, Subscription
  <2>2. subs' = [subs EXCEPT ![s] = new] /\ Emits(<<e, f>>)
    BY <1>8 DEF Settle
  <2> HIDE DEF new
  <2>3. e \in PaidEvent /\ invoice \in PaidEvent
    BY <2>1, EventOfOK
  <2>4. /\ e.sub = s /\ e.type = "updated" /\ e.tier = new.tier /\ e.status = new.status
        /\ invoice.sub = s /\ invoice.type = "paid" /\ Honest(e) /\ States(e)
    BY DEF EventOf, Honest, States
  <2> HIDE DEF invoice, e
  <2>5. f \in PaidEvent /\ f.sub = s /\ f.type = "paid"
    <3>1. p \in Nat
      BY BoundsAssumption
    <3>2. QED
      BY <2>3, <2>4, <3>1 DEF PaidEvent, Event
  <2> HIDE DEF f
  <2>6. Announces(s) /\ subs'[s] = new
    BY <2>1, <2>2, <2>3, <2>4, <2>5, AnnouncedTwo
  <2>7. QED
    BY <1>4, <2>1, <2>6
<1>9. CASE Undated(s)
  <2> DEFINE invoice == EventOf("paid", s, subs[s])
             f == [invoice EXCEPT !.period = NoPeriod]
  <2>1. invoice \in PaidEvent /\ invoice.type = "paid" /\ invoice.sub = s
    BY <1>3, <1>9, EventOfOK DEF Undated, Running, EventOf
  <2> HIDE DEF invoice
  <2>2. f \in PaidEvent /\ f.type = "paid" /\ f.sub = s
    BY <2>1 DEF PaidEvent, Event, NoPeriod
  <2> HIDE DEF f
  <2>3. Emits(<<f>>) /\ UNCHANGED <<subs, doc, own, late, stale>>
    BY <1>9 DEF Undated, f, invoice, ghosts
  <2>4. f.type # "boost" => Begun(f.sub)
    BY <1>9, <2>2 DEF Undated, Running, Begun
  <2>5. ~States(f) /\ Honest(f)
    BY <2>2 DEF States, Honest
  <2>6. QED
    BY <2>2, <2>3, <2>4, <2>5, AppendFollows
<1>10. QED
  BY <1>1, <1>5, <1>6, <1>7, <1>8, <1>9

\* A step of the job n changes no event, and no other job.
OneJob(n) ==
    /\ DOMAIN jobs' = DOMAIN jobs
    /\ \A m \in DOMAIN jobs : /\ jobs'[m].event = jobs[m].event
                              /\ m # n => jobs'[m] = jobs[m]

LEMMA JobMoves ==
    ASSUME jobs \in Seq(PaidJob), NEW n \in DOMAIN jobs, NEW phase, NEW d,
           \/ jobs' = [jobs EXCEPT ![n].phase = phase]
           \/ jobs' = [jobs EXCEPT ![n].phase = phase, ![n].snap = d]
    PROVE  /\ OneJob(n) /\ jobs'[n].phase = phase
           /\ jobs' = [jobs EXCEPT ![n].phase = phase, ![n].snap = d] => jobs'[n].snap = d
<1>1. DOMAIN jobs = 1 .. Len(jobs) /\ \A m \in DOMAIN jobs : jobs[m] \in PaidJob
  BY LenProperties
<1>2. /\ DOMAIN jobs' = DOMAIN jobs
      /\ \A m \in DOMAIN jobs : m # n => jobs'[m] = jobs[m]
      /\ \/ jobs'[n] = [jobs[n] EXCEPT !.phase = phase]
         \/ jobs'[n] = [jobs[n] EXCEPT !.phase = phase, !.snap = d]
  BY <1>1
<1>3. jobs'[n].event = jobs[n].event /\ jobs'[n].phase = phase
  BY <1>1, <1>2 DEF PaidJob
<1>4. jobs' = [jobs EXCEPT ![n].phase = phase, ![n].snap = d] => jobs'[n].snap = d
  BY <1>1 DEF PaidJob
<1>5. QED
  BY <1>2, <1>3, <1>4 DEF OneJob

LEMMA EndsMoves ==
    ASSUME jobs \in Seq(PaidJob), NEW n \in DOMAIN jobs, Ends(n)
    PROVE  OneJob(n) /\ jobs'[n].phase \in {"again", "done"}
BY JobMoves DEF Ends

\* What an event other than "completed" makes of the document it is about.
LEMMA AfterState ==
    ASSUME NEW e \in PaidEvent, NEW d \in Document, now \in Nat, e.type # "completed"
    PROVE  /\ After(e, d).sub = d.sub
           /\ ~States(e) => After(e, d).tier = d.tier /\ After(e, d).status = d.status
           /\ e.type = "updated" => /\ After(e, d).status = e.status
                                    /\ After(e, d).tier = IF e.status = "active" THEN e.tier ELSE 0
           /\ e.type = "deleted" => After(e, d).status = "canceled" /\ After(e, d).tier = 0
<1>1. e.type \in {"updated", "deleted", "paid", "boost"}
  BY DEF PaidEvent, Event
<1>2. CASE e.type = "updated"
  BY <1>2 DEF After, Updated, Document, States
<1>3. CASE e.type = "deleted"
  BY <1>3 DEF After, Deleted, Document, States
<1>4. CASE e.type = "paid"
  BY <1>4 DEF After, Paid, Credit, Document
<1>5. CASE e.type = "boost"
  BY <1>5 DEF After, Bought, Credit, Document
<1>6. QED
  BY <1>1, <1>2, <1>3, <1>4, <1>5

LEMMA SavedFields ==
    ASSUME NEW snap \in Document, NEW new \in Document, doc \in Document
    PROVE  LET d == Saved(snap, new)
           IN  /\ new.sub = snap.sub => d.sub = doc.sub
               /\ snap = doc => d.tier = new.tier /\ d.status = new.status
BY DEF Saved, Document

LEMMA JobFollows ==
    ASSUME BillingInv, FollowInv, NEW n \in DOMAIN jobs, OneJob(n), UNCHANGED <<subs, own>>,
           jobs'[n].phase = "read" => Found(jobs[n].event, jobs'[n].snap),
           doc'.sub # NoSub => Begun(doc'.sub),
           DocFollows'
    PROVE  FollowInv'
<1> USE DEF FollowInv
<1>1. JobsFound'
  BY DEF JobsFound, OneJob, Begun, Honest, Found
<1>2. \A s \in Sub : StatesOf(s)' = StatesOf(s)
  BY DEF StatesOf, OneJob, States
<1>3. LastEventTrue'
  <2> SUFFICES ASSUME NEW s \in Sub, NEW m \in StatesOf(s), \A k \in StatesOf(s) : k <= m
               PROVE  jobs'[m].event.tier = subs[s].tier /\ jobs'[m].event.status = subs[s].status
    BY <1>2 DEF LastEventTrue
  <2>1. jobs'[m].event = jobs[m].event
    BY DEF OneJob, StatesOf
  <2>2. QED
    BY <2>1 DEF LastEventTrue
<1>4. UpgradeTrue' /\ DocBegun'
  BY DEF UpgradeTrue, DocBegun, Begun
<1>5. QED
  BY <1>1, <1>3, <1>4

\* An event handled with no newer one begun, and none of its subscription left, is the last.
LEMMA LastHandled ==
    ASSUME BillingInv, FollowInv, NEW n \in DOMAIN jobs, OneJob(n), Touches(n), ~late',
           States(jobs[n].event),
           \A m \in StatesOf(jobs[n].event.sub) : jobs'[m].phase = "done"
    PROVE  LET s == jobs[n].event.sub
           IN  s \in Sub /\ jobs[n].event.tier = subs[s].tier /\ jobs[n].event.status = subs[s].status
<1> DEFINE s == jobs[n].event.sub
<1>1. DOMAIN jobs = 1 .. Len(jobs) /\ jobs[n] \in PaidJob
  BY LenProperties DEF BillingInv, StripeOK
<1>2. s \in Sub /\ n \in StatesOf(s)
  BY <1>1 DEF PaidJob, PaidEvent, Event, StatesOf, States
<1>3. ASSUME NEW m \in StatesOf(s)
      PROVE  m <= n
  <2>1. m \in DOMAIN jobs /\ jobs'[m].phase = "done"
    BY <1>3 DEF StatesOf
  <2>2. m \in Nat /\ n \in Nat
    BY <1>1, <2>1, LenProperties DEF BillingInv, StripeOK
  <2>3. ASSUME m > n
        PROVE  FALSE
    <3>1. m # n
      BY <2>2, <2>3
    <3>2. jobs[m].phase = "done"
      BY <2>1, <3>1 DEF OneJob
    <3>3. late'
      BY <2>1, <2>3, <3>2 DEF Touches
    <3>4. QED
      BY <3>3
  <2>4. QED
    BY <2>2, <2>3
<1>4. QED
  BY <1>2, <1>3 DEF FollowInv, LastEventTrue

LEMMA WorkerFollows ==
    ASSUME BillingInv, FollowInv, Worker
    PROVE  FollowInv'
<1> USE DEF BillingInv
<1>1. PICK n \in DOMAIN jobs : JobComplete(n) \/ JobRead(n) \/ JobSave(n) \/ JobFails(n)
  BY DEF Worker
<1> DEFINE e == jobs[n].event
<1>2. jobs \in Seq(PaidJob) /\ jobs[n] \in PaidJob
  BY LenProperties DEF StripeOK
<1>3. /\ e \in PaidEvent /\ Honest(e)
      /\ e.type # "boost" => e.sub \in Sub /\ e.sub # NoSub /\ Begun(e.sub)
      /\ jobs[n].snap \in Document /\ doc \in Document /\ now \in Nat
  BY <1>2 DEF PaidJob, PaidEvent, Event, DocOK, Sub, NoSub, FollowInv, JobsFound
<1>4. ASSUME OneJob(n), UNCHANGED doc, ~late' => ~late, ~stale' => ~stale, UNCHANGED subs,
             n \in StatesOf(doc.sub) => jobs'[n].phase # "done"
      PROVE  DocFollows'
  <2>1. StatesOf(doc.sub)' = StatesOf(doc.sub)
    BY <1>4 DEF StatesOf, OneJob, States
  <2>2. (\A m \in StatesOf(doc.sub) : jobs'[m].phase = "done") =>
          \A m \in StatesOf(doc.sub) : jobs[m].phase = "done"
    BY <1>4 DEF StatesOf, OneJob
  <2>3. PaidTier' = PaidTier
    BY <1>4 DEF PaidTier
  <2>4. QED
    BY <1>4, <2>1, <2>2, <2>3 DEF FollowInv, DocFollows
<1>5. ASSUME OneJob(n), Touches(n), UNCHANGED subs, doc'.sub = e.sub, States(e),
             ~stale' => /\ doc'.status = e.status
                        /\ doc'.tier = IF e.status = "active" THEN e.tier ELSE 0
      PROVE  DocFollows'
  <2>1. StatesOf(doc.sub)' = StatesOf(e.sub)
    <3>1. StatesOf(doc.sub)' = {m \in DOMAIN jobs' : States(jobs'[m].event) /\ jobs'[m].event.sub = doc'.sub}
      BY DEF StatesOf, States
    <3>2. QED
      BY <1>5, <3>1 DEF StatesOf, OneJob
  <2>2. ASSUME ~late', \A m \in StatesOf(e.sub) : jobs'[m].phase = "done"
        PROVE  e.tier = subs'[e.sub].tier /\ e.status = subs'[e.sub].status
    BY <1>5, <2>2, LastHandled
  <2>3. PaidTier' = IF subs'[e.sub].status = "active" THEN subs'[e.sub].tier ELSE 0
    BY <1>3, <1>5 DEF PaidTier, States
  <2>4. e.sub # NoSub
    BY <1>3, <1>5 DEF States
  <2> HIDE DEF e
  <2>5. QED
    BY <1>5, <2>1, <2>2, <2>3, <2>4 DEF DocFollows
<1>6. CASE JobComplete(n)
  <2>1. OneJob(n) /\ jobs'[n].phase \in {"again", "done"}
    BY <1>2, <1>6, EndsMoves DEF JobComplete
  <2>2. /\ Touches(n) /\ UNCHANGED <<subs, own>>
        /\ e.type = "completed" /\ doc' = Completed(e, doc)
    BY <1>6 DEF JobComplete, After
  <2>3. doc'.sub = e.sub /\ doc'.tier = e.tier /\ doc'.status = "active"
    BY <1>3, <2>2 DEF Completed, Document
  <2>4. e.status = "active" /\ States(e)
    BY <1>3, <2>2 DEF Honest, States
  <2>5. DocFollows'
    BY <1>5, <2>1, <2>2, <2>3, <2>4
  <2>6. QED
    BY <1>3, <2>1, <2>2, <2>3, <2>5, JobFollows
<1>7. CASE JobRead(n)
  <2>1. /\ Touches(n) /\ UNCHANGED <<doc, subs, own, stale>>
        /\ e.type # "completed"
        /\ jobs' = IF Finds(e) THEN [jobs EXCEPT ![n].phase = "read", ![n].snap = doc]
                   ELSE [jobs EXCEPT ![n].phase = "done"]
    BY <1>7 DEF JobRead
  <2>2. ~late' => ~late
    BY <2>1 DEF Touches
  <2>3. CASE Finds(e)
    <3>1. OneJob(n) /\ jobs'[n].phase = "read" /\ jobs'[n].snap = doc
      BY <1>2, <2>1, <2>3, JobMoves
    <3>2. Found(e, doc)
      BY <2>1, <2>3 DEF Finds, Found
    <3>3. DocFollows'
      BY <1>4, <2>1, <2>2, <3>1
    <3>4. QED
      BY <2>1, <3>1, <3>2, <3>3, JobFollows DEF FollowInv, DocBegun
  <2>4. CASE ~Finds(e)
    <3>1. OneJob(n) /\ jobs'[n].phase = "done"
      BY <1>2, <2>1, <2>4, JobMoves
    <3>2. n \notin StatesOf(doc.sub)
      BY <2>4 DEF Finds, StatesOf
    <3>3. DocFollows'
      BY <1>4, <2>1, <2>2, <3>1, <3>2
    <3>4. QED
      BY <2>1, <3>1, <3>3, JobFollows DEF FollowInv, DocBegun
  <2>5. QED
    BY <2>3, <2>4
<1>8. CASE JobSave(n)
  <2> DEFINE snap == jobs[n].snap
             new == After(e, snap)
  <2>1. OneJob(n) /\ jobs'[n].phase \in {"again", "done"}
    BY <1>2, <1>8, EndsMoves DEF JobSave
  <2>2. /\ Touches(n) /\ UNCHANGED <<subs, own>>
        /\ doc' = Saved(snap, new)
        /\ ~stale' => ~stale /\ snap = doc
    BY <1>8 DEF JobSave
  <2>3. Found(e, snap)
    BY <1>8 DEF JobSave, FollowInv, JobsFound
  <2>4. new \in Document
    BY <1>3, AfterOK
  <2>5. /\ new.sub = snap.sub
        /\ ~States(e) => new.tier = snap.tier /\ new.status = snap.status
        /\ States(e) => /\ new.status = e.status
                        /\ new.tier = IF e.status = "active" THEN e.tier ELSE 0
    <3>1. e.type # "completed" /\ (States(e) => e.type \in {"updated", "deleted"})
      BY <1>3, <2>3 DEF PaidEvent, Event, States, Found
    <3>2. e.type = "deleted" => e.status = "canceled"
      BY <1>3 DEF Honest
    <3>3. QED
      BY <1>3, <3>1, <3>2, AfterState
  <2> HIDE DEF new
  <2>6. /\ doc'.sub = doc.sub
        /\ snap = doc => doc'.tier = new.tier /\ doc'.status = new.status
    BY <1>3, <2>2, <2>4, <2>5, SavedFields
  <2>7. DocFollows'
    <3>1. CASE stale'
      BY <3>1 DEF DocFollows
    <3>2. CASE ~stale' /\ States(e)
      <4>1. /\ doc'.sub = e.sub /\ doc'.status = e.status
            /\ doc'.tier = IF e.status = "active" THEN e.tier ELSE 0
        BY <2>2, <2>3, <2>5, <2>6, <3>2 DEF Found, States
      <4>2. QED
        BY <1>5, <2>1, <2>2, <3>2, <4>1
    <3>3. CASE ~stale' /\ ~States(e)
      <4>1. doc'.sub = doc.sub /\ doc'.tier = doc.tier /\ doc'.status = doc.status
        BY <2>2, <2>5, <2>6, <3>3
      <4>2. StatesOf(doc.sub)' = StatesOf(doc.sub) /\ n \notin StatesOf(doc.sub)
        BY <2>1, <3>3, <4>1 DEF StatesOf, OneJob, States
      <4>3. (\A m \in StatesOf(doc.sub) : jobs'[m].phase = "done") =>
              \A m \in StatesOf(doc.sub) : jobs[m].phase = "done"
        BY <2>1, <4>2 DEF StatesOf, OneJob
      <4>4. StatesOf(doc.sub)' = StatesOf(doc.sub)
        BY <4>1, <4>2
      <4>5. PaidTier' = PaidTier /\ (~late' => ~late)
        BY <2>2, <4>1 DEF PaidTier, Touches
      <4>6. QED
        BY <2>2, <3>3, <4>1, <4>3, <4>4, <4>5 DEF FollowInv, DocFollows
    <3>4. QED
      BY <3>1, <3>2, <3>3
  <2>8. doc'.sub # NoSub => Begun(doc'.sub)
    BY <2>6 DEF FollowInv, DocBegun
  <2>9. QED
    BY <2>1, <2>2, <2>7, <2>8, JobFollows
<1>9. CASE JobFails(n)
  <2>1. OneJob(n) /\ jobs'[n].phase = "again"
    BY <1>2, <1>9, JobMoves DEF JobFails
  <2>2. UNCHANGED <<doc, subs, own, late, stale>>
    BY <1>9 DEF JobFails, ghosts
  <2>3. DocFollows'
    BY <1>4, <2>1, <2>2
  <2>4. QED
    BY <2>1, <2>2, <2>3, JobFollows DEF FollowInv, DocBegun
<1>10. QED
  BY <1>1, <1>6, <1>7, <1>8, <1>9

\* A step that leaves the jobs alone, and of Stripe's subscriptions what the document shows.
LEMMA QuietFollows ==
    ASSUME BillingInv, FollowInv, UNCHANGED jobs,
           \A t \in Sub : Begun(t) =>
             /\ subs'[t].tier = subs[t].tier /\ subs'[t].status = subs[t].status,
           doc'.sub # NoSub => doc'.sub \in Sub /\ Begun(doc'.sub),
           UpgradeTrue', DocFollows'
    PROVE  FollowInv'
<1> USE DEF BillingInv, FollowInv
<1>1. \A n \in DOMAIN jobs : jobs[n].event.type # "boost" => jobs[n].event.sub \in Sub
  <2>1. \A n \in DOMAIN jobs : jobs[n] \in PaidJob
    BY LenProperties DEF StripeOK
  <2>2. QED
    BY <2>1 DEF PaidJob, PaidEvent, Event
<1>2. \A t \in Sub : Begun(t) => subs'[t].status \notin {"none", "page"}
  BY DEF Begun
<1>3. JobsFound'
  <2> SUFFICES ASSUME NEW n \in DOMAIN jobs
               PROVE  /\ jobs[n].event.type # "boost" =>
                           subs'[jobs[n].event.sub].status \notin {"none", "page"}
                      /\ Honest(jobs[n].event)
                      /\ jobs[n].phase = "read" => Found(jobs[n].event, jobs[n].snap)
    BY DEF JobsFound, Begun, Honest, Found
  <2>1. QED
    BY <1>1, <1>2 DEF JobsFound
<1>4. LastEventTrue'
  <2> SUFFICES ASSUME NEW t \in Sub, NEW n \in StatesOf(t), \A m \in StatesOf(t) : m <= n
               PROVE  jobs[n].event.tier = subs'[t].tier /\ jobs[n].event.status = subs'[t].status
    BY DEF LastEventTrue, StatesOf
  <2>1. Begun(t)
    BY DEF StatesOf, JobsFound, States
  <2>2. QED
    BY <2>1 DEF LastEventTrue
<1>5. DocBegun'
  BY <1>2 DEF DocBegun, Begun
<1>6. QED
  BY <1>3, <1>4, <1>5

LEMMA UnseenFollows ==
    ASSUME BillingInv, FollowInv, UNCHANGED <<doc, jobs, late, stale>>,
           \A t \in Sub : Begun(t) =>
             /\ subs'[t].tier = subs[t].tier /\ subs'[t].status = subs[t].status,
           UpgradeTrue'
    PROVE  FollowInv'
<1>1. doc.sub \in Sub \cup {NoSub} /\ (doc.sub # NoSub => doc.sub \in Sub /\ Begun(doc.sub))
  BY DEF BillingInv, DocOK, Document, FollowInv, DocBegun
<1>2. StatesOf(doc.sub)' = StatesOf(doc.sub)
  BY DEF StatesOf
<1>3. doc.sub # NoSub => PaidTier' = PaidTier /\ subs'[doc.sub].status = subs[doc.sub].status
  BY <1>1 DEF PaidTier
<1>4. DocFollows'
  BY <1>2, <1>3 DEF DocFollows, FollowInv
<1>5. QED
  BY <1>1, <1>4, QuietFollows

\* The owner's calls of Stripe.
LEMMA CallFollows ==
    ASSUME BillingInv, FollowInv, OpenPage \/ ChangeTier \/ Cancel \/ Reactivate \/ CancelNow
    PROVE  FollowInv'
<1> USE DEF BillingInv
<1> DEFINE s == own.snap.sub
<1>1. /\ own.snap \in Document /\ own.tier \in Tier /\ 0 \in Tier
      /\ s \in Sub \cup {NoSub}
  BY TierAssumption DEF OwnerOK, Document, Tier
<1>2. StripeOK' /\ UNCHANGED <<now, doc, cron, retries, asked, late, stale>>
  BY CallStep DEF OpenPage, ChangeTier, Cancel, Reactivate, CancelNow, ghosts
<1>3. ASSUME s \in Sub, Running(s)
      PROVE  /\ subs[s] \in Subscription /\ subs[s].tier # 0
             /\ subs[s].status \in {"active", "past_due"}
  BY <1>3 DEF Running, StripeOK, PaidSub
<1>4. ASSUME NEW op \in {"downgrade", "cancel", "reactivate", "delete"},
             Calls(op) \/ own' = NoRequest
      PROVE  UpgradeTrue'
  <2>1. Calls(op) => own'.op = op
    BY <1>4 DEF Calls, OwnerOK
  <2>2. own' = NoRequest => ~own'.called
    BY DEF NoRequest
  <2>3. QED
    BY <1>4, <2>1, <2>2 DEF UpgradeTrue
<1>5. ASSUME UNCHANGED <<subs, jobs>>, UpgradeTrue'
      PROVE  FollowInv'
  BY <1>2, <1>5, UnseenFollows
<1>6. ASSUME s \in Sub, NEW new \in Subscription, new.tier # 0,
             new.status \in {"active", "past_due"},
             subs' = [subs EXCEPT ![s] = new],
             Emits(<<EventOf("updated", s, new)>>), UpgradeTrue'
      PROVE  FollowInv'
  <2> DEFINE e == EventOf("updated", s, new)
  <2>1. e \in PaidEvent
    BY <1>6, EventOfOK
  <2>2. /\ e.sub = s /\ e.type = "updated" /\ e.tier = new.tier /\ e.status = new.status
        /\ Honest(e) /\ States(e)
    BY DEF EventOf, Honest, States
  <2>3. Emits(<<e>>)
    BY <1>6
  <2> HIDE DEF e
  <2>4. Announces(s)
    BY <1>6, <2>1, <2>2, <2>3, AnnouncedOne
  <2>5. QED
    BY <1>2, <1>6, <2>4, AnnouncesFollow DEF StripeOK
<1>7. CASE OpenPage
  <2>1. PICK p \in Sub :
          subs[p].status = "none" /\ subs' = [subs EXCEPT ![p].status = "page", ![p].tier = own.tier]
    BY <1>7 DEF OpenPage
  <2>2. \A t \in Sub : Begun(t) => subs'[t] = subs[t]
    BY <2>1 DEF Begun, StripeOK
  <2>3. UpgradeTrue' /\ jobs' = jobs
    BY <1>4, <1>7 DEF OpenPage
  <2>4. QED
    BY <1>2, <2>2, <2>3, UnseenFollows
<1>8. CASE ChangeTier
  <2>1. s \in Sub /\ own.tier # 0
    BY <1>1, <1>8 DEF ChangeTier, Gives, OwnerOK
  <2>2. CASE ~Running(s)
    BY <1>4, <1>5, <1>8, <2>2 DEF ChangeTier
  <2>3. CASE Running(s) /\ own.tier < own.snap.tier
    <3> DEFINE new == [subs[s] EXCEPT !.sched = TRUE, !.next = own.tier]
    <3>1. new \in Subscription /\ new.tier # 0 /\ new.status \in {"active", "past_due"}
      BY <1>1, <1>3, <2>1, <2>3 DEF Subscription
    <3>2. /\ Calls("downgrade") /\ subs' = [subs EXCEPT ![s] = new]
          /\ Emits(<<EventOf("updated", s, new)>>)
      BY <1>8, <2>3 DEF ChangeTier
    <3> HIDE DEF new
    <3>3. QED
      BY <1>4, <1>6, <2>1, <3>1, <3>2
  <2>4. CASE Running(s) /\ ~(own.tier < own.snap.tier)
    <3> DEFINE new == [subs[s] EXCEPT !.tier = own.tier, !.cancel = FALSE,
                                      !.sched = FALSE, !.next = 0]
    <3>1. new \in Subscription /\ new.tier # 0 /\ new.tier = own.tier /\ new.next = 0
      BY <1>1, <1>3, <2>1, <2>4 DEF Subscription
    <3>2. Calls("upgrade") /\ Charged(s, new)
      BY <1>8, <2>4 DEF ChangeTier
    <3> HIDE DEF new
    <3>3. Announces(s) /\ subs'[s].tier = own.tier /\ subs'[s].next = 0
      BY <2>1, <3>1, <3>2, ChargedAnnounced
    <3>4. own'.snap.sub = s /\ own'.tier = own.tier
      BY <3>2 DEF Calls, OwnerOK
    <3>5. UpgradeTrue'
      BY <2>1, <3>3, <3>4 DEF UpgradeTrue
    <3>6. QED
      BY <1>2, <2>1, <3>3, <3>5, AnnouncesFollow DEF StripeOK
  <2>5. QED
    BY <2>2, <2>3, <2>4
<1>9. CASE Cancel
  <2> DEFINE new == [subs[s] EXCEPT !.cancel = TRUE]
  <2>1. s \in Sub /\ (Calls("cancel") \/ own' = NoRequest)
    BY <1>1, <1>9 DEF Cancel, Gives, OwnerOK
  <2>2. UpgradeTrue'
    BY <1>4, <2>1
  <2>3. CASE UNCHANGED <<subs, jobs>>
    BY <1>5, <2>2, <2>3
  <2>4. CASE Running(s) /\ subs' = [subs EXCEPT ![s] = new]
    <3>1. /\ new \in Subscription /\ new.tier # 0 /\ new.status \in {"active", "past_due"}
          /\ new.tier = subs[s].tier /\ new.status = subs[s].status
      BY <1>3, <2>1, <2>4 DEF Subscription
    <3> HIDE DEF new
    <3>2. CASE Emits(<<EventOf("updated", s, new)>>)
      BY <1>6, <2>1, <2>2, <2>4, <3>1, <3>2
    <3>3. CASE jobs' = jobs
      <4>1. \A t \in Sub : subs'[t].tier = subs[t].tier /\ subs'[t].status = subs[t].status
        BY <2>4, <3>1 DEF StripeOK
      <4>2. QED
        BY <1>2, <2>2, <3>3, <4>1, UnseenFollows
    <3>4. Emits(<<EventOf("updated", s, new)>>) \/ jobs' = jobs
      BY <1>9, <2>4 DEF Cancel, new
    <3>5. QED
      BY <3>2, <3>3, <3>4
  <2>5. QED
    BY <1>9, <2>3, <2>4 DEF Cancel
<1>10. CASE Reactivate
  <2> DEFINE new == [subs[s] EXCEPT !.cancel = FALSE, !.sched = FALSE, !.next = 0]
  <2>1. s \in Sub /\ (Calls("reactivate") \/ own' = NoRequest)
    BY <1>1, <1>10 DEF Reactivate, Gives, OwnerOK
  <2>2. UpgradeTrue'
    BY <1>4, <2>1
  <2>3. CASE UNCHANGED <<subs, jobs>>
    BY <1>5, <2>2, <2>3
  <2>4. CASE /\ Running(s) /\ subs' = [subs EXCEPT ![s] = new]
             /\ Emits(<<EventOf("updated", s, new)>>)
    <3>1. new \in Subscription /\ new.tier # 0 /\ new.status \in {"active", "past_due"}
      BY <1>1, <1>3, <2>1, <2>4 DEF Subscription
    <3> HIDE DEF new
    <3>2. QED
      BY <1>6, <2>1, <2>2, <2>4, <3>1
  <2>5. QED
    BY <1>10, <2>3, <2>4 DEF Reactivate
<1>11. CASE CancelNow
  <2>1. UpgradeTrue'
    BY <1>4, <1>11 DEF CancelNow
  <2>2. CASE s \in Sub /\ Running(s) /\ Stops(s)
    <3>1. Announces(s)
      BY <1>3, <2>2, StopsAnnounced
    <3>2. QED
      BY <1>2, <2>1, <2>2, <3>1, AnnouncesFollow DEF StripeOK
  <2>3. CASE UNCHANGED <<subs, jobs>>
    BY <1>5, <2>1, <2>3
  <2>4. QED
    BY <1>1, <1>11, <2>2, <2>3 DEF CancelNow
<1>12. QED
  BY <1>7, <1>8, <1>9, <1>10, <1>11

\* What the owner's handler writes at its end: an upgrade writes the tier that Stripe
\* charges for, the end of the account leaves neither subscription nor tier.
LEMMA OwnerSaveFollows ==
    ASSUME BillingInv, FollowInv, OwnerSave
    PROVE  FollowInv'
<1> USE DEF BillingInv
<1>1. own.snap \in Document /\ doc \in Document
  BY DEF OwnerOK, DocOK
<1>2. Requested \in Document
  BY RequestedOK DEF OwnerSave
<1>3. /\ own.called /\ UNCHANGED <<subs, jobs, late>> /\ own' = NoRequest
      /\ ~stale' => ~stale /\ own.snap = doc
  BY DEF OwnerSave
<1>4. UpgradeTrue'
  BY <1>3 DEF UpgradeTrue, NoRequest
<1> DEFINE saved == Saved(own.snap, Requested)
<1>5. doc' = IF own.op = "delete"
             THEN [saved EXCEPT !.sub = NoSub, !.status = "canceled", !.cancel = FALSE,
                                !.pending = 0, !.sched = FALSE]
             ELSE saved
  BY DEF OwnerSave
<1>6. saved \in Document
  BY <1>1, <1>2, SavedOK
<1>7. /\ Requested.sub = own.snap.sub => saved.sub = doc.sub
      /\ own.snap = doc => saved.tier = Requested.tier /\ saved.status = Requested.status
  BY <1>1, <1>2, SavedFields
<1> HIDE DEF saved
<1>8. own.op \in {"downgrade", "upgrade", "cancel", "reactivate", "delete"}
  BY <1>3 DEF OwnerOK
<1>9. CASE own.op = "delete"
  <2>1. doc'.sub = NoSub /\ doc'.tier = saved.tier
    BY <1>5, <1>6, <1>9 DEF Document
  <2>2. Requested.tier = 0
    BY <1>1, <1>9 DEF Requested, Document
  <2>3. DocFollows'
    BY <1>3, <1>7, <2>1, <2>2 DEF DocFollows
  <2>4. QED
    BY <1>3, <1>4, <2>1, <2>3, QuietFollows
<1>10. CASE own.op # "delete"
  <2>1. /\ Requested.sub = own.snap.sub /\ Requested.status = own.snap.status
        /\ Requested.tier = IF own.op = "upgrade" THEN own.tier ELSE own.snap.tier
    BY <1>1, <1>8, <1>10 DEF Requested, Document
  <2>2. /\ doc'.sub = doc.sub
        /\ ~stale' => /\ doc'.status = doc.status
                      /\ doc'.tier = IF own.op = "upgrade" THEN own.tier ELSE doc.tier
    BY <1>3, <1>5, <1>7, <1>10, <2>1
  <2>3. StatesOf(doc.sub)' = StatesOf(doc.sub)
    BY <1>3, <2>2 DEF StatesOf
  <2>4. PaidTier' = PaidTier
    BY <1>3, <2>2 DEF PaidTier
  <2>5. ASSUME own.op = "upgrade", ~stale'
        PROVE  /\ doc.sub # NoSub /\ doc.status = "active"
               /\ subs[doc.sub].status = doc.status => PaidTier = own.tier
    BY <1>3, <2>5 DEF FollowInv, UpgradeTrue, OwnerOK, PaidTier, Sub, NoSub
  <2>6. DocFollows'
    BY <1>3, <2>2, <2>3, <2>4, <2>5 DEF FollowInv, DocFollows
  <2>7. QED
    BY <1>1, <1>3, <1>4, <2>2, <2>6, QuietFollows DEF FollowInv, DocBegun, Document
<1>11. QED
  BY <1>9, <1>10

LEMMA InitFollows == Init => FollowInv
<1> SUFFICES ASSUME Init PROVE FollowInv
  OBVIOUS
<1>1. jobs = << >> /\ own = NoRequest
  BY DEF Init
<1>2. JobsFound /\ LastEventTrue /\ UpgradeTrue
  BY <1>1 DEF JobsFound, LastEventTrue, StatesOf, UpgradeTrue, NoRequest
<1>3. 1 \in Sub
  BY BoundsAssumption DEF Sub
<1>4. \/ doc.sub = NoSub /\ doc.tier = 0
      \/ /\ doc.sub = 1 /\ subs[1].status = "active" /\ doc.status = "active"
         /\ doc.tier = subs[1].tier
  <2>1. PICK tier \in Tier :
          IF tier = 0
          THEN doc = NewDocument /\ subs = [t \in Sub |-> NoSubscription]
          ELSE /\ doc = [NewDocument EXCEPT !.tier = tier, !.sub = 1, !.status = "active",
                                            !.granted = IF tier = TopTier THEN 1 ELSE NoPeriod,
                                            !.credits = IF tier = TopTier THEN 1 ELSE 0]
               /\ subs = [t \in Sub |-> IF t = 1
                                        THEN [NoSubscription EXCEPT !.status = "active",
                                                    !.tier = tier, !.period = 1]
                                        ELSE NoSubscription]
    BY DEF Init
  <2>2. CASE tier = 0
    BY <2>1, <2>2 DEF NewDocument
  <2>3. CASE tier # 0
    <3>1. doc.sub = 1 /\ doc.tier = tier /\ doc.status = "active"
      BY <2>1, <2>3 DEF NewDocument
    <3>2. subs[1] = [NoSubscription EXCEPT !.status = "active", !.tier = tier, !.period = 1]
      BY <1>3, <2>1, <2>3
    <3>3. QED
      BY <3>1, <3>2 DEF NoSubscription
  <2>4. QED
    BY <2>2, <2>3
<1>5. DocBegun /\ DocFollows
  BY <1>4 DEF DocBegun, DocFollows, Begun, PaidTier, NoSub
<1>6. QED
  BY <1>2, <1>5 DEF FollowInv

LEMMA StepFollows == BillingInv /\ FollowInv /\ [Next]_vars => FollowInv'
<1> SUFFICES ASSUME BillingInv, FollowInv, [Next]_vars PROVE FollowInv'
  OBVIOUS
<1>1. ASSUME UNCHANGED <<doc, subs, jobs, late, stale>>, UpgradeTrue'
      PROVE  FollowInv'
  BY <1>1, UnseenFollows
<1>2. ASSUME UNCHANGED own, UNCHANGED subs
      PROVE  UpgradeTrue'
  BY <1>2 DEF FollowInv, UpgradeTrue
<1>3. CASE Stripe
  BY <1>3, StripeFollows
<1>4. CASE Worker
  BY <1>4, WorkerFollows
<1>5. CASE Owner
  <2>1. ASSUME NEW op \in {"choose", "cancel", "reactivate", "delete"}, NEW tier \in Tier,
               Load(op, tier)
        PROVE  FollowInv'
    BY <1>1, <2>1 DEF Load, UpgradeTrue, ghosts
  <2>2. CASE OpenPage \/ ChangeTier \/ Cancel \/ Reactivate \/ CancelNow
    BY <2>2, CallFollows
  <2>3. CASE OwnerSave
    BY <2>3, OwnerSaveFollows
  <2>4. CASE OwnerCrash
    BY <1>1, <2>4 DEF OwnerCrash, UpgradeTrue, NoRequest, ghosts
  <2>5. CASE Buy
    <3>1. BoughtEvent \in PaidEvent /\ ~States(BoughtEvent) /\ Honest(BoughtEvent)
      BY BoughtEventOK DEF States, Honest
    <3>2. Emits(<<BoughtEvent>>) /\ UNCHANGED <<subs, doc, own, late, stale>>
      BY <2>5 DEF Buy, BoughtEvent, ghosts
    <3>3. QED
      BY <3>1, <3>2, BoughtEventOK, AppendFollows
  <2>6. QED
    BY <1>5, <2>1, <2>2, <2>3, <2>4, <2>5 DEF Owner
<1>6. CASE CronFind
  BY <1>1, <1>2, <1>6 DEF CronFind, ghosts
<1>7. CASE CronErase
  <2>1. /\ UNCHANGED <<subs, jobs, own, late, stale>>
        /\ doc'.sub = doc.sub /\ doc'.tier = doc.tier /\ doc'.status = doc.status
    BY <1>7 DEF CronErase, BillingInv, DocOK, Document, ghosts
  <2>2. StatesOf(doc.sub)' = StatesOf(doc.sub) /\ PaidTier' = PaidTier
    BY <2>1 DEF StatesOf, PaidTier
  <2>3. DocFollows'
    BY <2>1, <2>2 DEF FollowInv, DocFollows
  <2>4. QED
    BY <1>2, <2>1, <2>3, QuietFollows
       DEF FollowInv, DocBegun, BillingInv, DocOK, Document
<1>8. CASE Tick
  BY <1>1, <1>2, <1>8 DEF Tick, ghosts
<1>9. CASE UNCHANGED vars
  BY <1>1, <1>2, <1>9 DEF vars
<1>10. QED
  BY <1>3, <1>4, <1>5, <1>6, <1>7, <1>8, <1>9 DEF Next

\* Once all events of the venue's subscription have been handled, the venue has the
\* tier that Stripe is paid for: for any number of subscriptions and events, whatever
\* jobs were run again and whatever requests of the owner stopped half-way, unless an
\* event was handled after a newer one or two handlers overlapped.
THEOREM TierIsPaidFor == Spec => []TierFollows
<1>1. BillingInv /\ FollowInv => TierFollows
  <2> SUFFICES ASSUME BillingInv, FollowInv, Settled, ~late, ~stale
               PROVE  doc.tier = PaidTier
    BY DEF TierFollows
  <2>1. \A n \in StatesOf(doc.sub) : jobs[n].phase = "done"
    BY DEF Settled, StatesOf
  <2>2. QED
    BY <2>1 DEF FollowInv, DocFollows, PaidTier
<1>2. QED
  BY <1>1, InvAlways, InitFollows, StepFollows, PTL DEF Spec

-------------------------------------------------------------------------------
(* The credits of a period are granted once *)

Regular == ~late /\ ~stale /\ Chronological
Started(n) == n \in DOMAIN jobs /\ jobs[n].phase # "queued"

\* The period granted last is the newest one, and its invoice was begun; an older
\* invoice cannot be begun any more.
GrantInv ==
    Regular =>
      /\ \A t \in again : t[1] # "period"
      /\ \A t \in credited : t[1] = "period" => t[2] <= doc.granted
      /\ doc.granted <= 1 \/ \E n \in Invoices : Started(n) /\ jobs[n].event.period = doc.granted

LEMMA InitGrants == Init => GrantInv
<1> SUFFICES ASSUME Init, BillingInv PROVE GrantInv
  BY InitOK
<1>1. doc.granted \in Nat
  BY DEF BillingInv, DocOK, Document
<1>2. doc.granted <= 1
  <2>1. PICK tier \in Tier :
          IF tier = 0
          THEN doc = NewDocument
          ELSE doc = [NewDocument EXCEPT !.tier = tier, !.sub = 1, !.status = "active",
                                         !.granted = IF tier = TopTier THEN 1 ELSE NoPeriod,
                                         !.credits = IF tier = TopTier THEN 1 ELSE 0]
    BY DEF Init
  <2>2. doc.granted \in {1, NoPeriod}
    <3>1. CASE tier = 0
      BY <2>1, <3>1 DEF NewDocument
    <3>2. CASE tier # 0
      BY <2>1, <3>2 DEF NewDocument
    <3>3. QED
      BY <3>1, <3>2
  <2>3. QED
    BY <2>2 DEF NoPeriod
<1>3. \A t \in credited : t[2] = doc.granted
  BY DEF Init
<1>4. again = {}
  BY DEF Init
<1>5. QED
  BY <1>1, <1>2, <1>3, <1>4 DEF GrantInv

\* A step that grants nothing.
LEMMA GrowsGrants ==
    ASSUME BillingInv, GrantInv, Grows, ~late' => ~late, ~stale' => ~stale,
           ~stale' => /\ doc'.granted = doc.granted
                      /\ \A t \in credited' \ credited : t[1] # "period"
                      /\ \A t \in again' \ again : t[1] # "period"
    PROVE  GrantInv'
<1> SUFFICES ASSUME Regular'
             PROVE  /\ \A t \in again' : t[1] # "period"
                    /\ \A t \in credited' : t[1] = "period" => t[2] <= doc'.granted
                    /\ \/ doc'.granted <= 1
                       \/ \E n \in Invoices' : Started(n)' /\ jobs'[n].event.period = doc'.granted
  BY DEF GrantInv
<1>1. \A n \in Invoices : n \in Invoices' /\ jobs'[n].event = jobs[n].event
  BY DEF Invoices, Plain, Grows
<1>2. Chronological
  BY <1>1 DEF Regular, Chronological
<1>3. Regular
  BY <1>2 DEF Regular
<1>4. \A n \in Invoices : Started(n) => Started(n)'
  BY DEF Started, Grows
<1>5. QED
  BY <1>1, <1>3, <1>4 DEF GrantInv, Regular

LEMMA OneJobGrows ==
    ASSUME NEW n \in DOMAIN jobs, OneJob(n), jobs'[n].phase # "queued"
    PROVE  Grows
BY DEF OneJob, Grows

\* An invoice that is saved while no newer one was begun is not older than the period
\* granted last; so its own was granted only if it is that one.
LEMMA SavedInvoice ==
    ASSUME BillingInv, GrantInv, NEW n \in Invoices, OneJob(n), Touches(n), Regular',
           ~stale' => ~stale
    PROVE  LET p == jobs[n].event.period
           IN  /\ p \in Nat /\ doc.granted <= p
               /\ <<"period", p>> \in credited => p = doc.granted
<1> DEFINE p == jobs[n].event.period
<1>1. /\ n \in DOMAIN jobs /\ p \in Nat /\ p # NoPeriod /\ doc.granted \in Nat
      /\ DOMAIN jobs \subseteq Nat
  <2>1. jobs \in Seq(PaidJob) /\ n \in DOMAIN jobs
    BY DEF Invoices, BillingInv, StripeOK
  <2>2. jobs[n] \in PaidJob /\ DOMAIN jobs = 1 .. Len(jobs) /\ Len(jobs) \in Nat
    BY <2>1, LenProperties
  <2>3. QED
    BY <2>1, <2>2 DEF Invoices, Plain, PaidJob, PaidEvent, Event, BillingInv, DocOK, Document
<1>2. Invoices' = Invoices /\ \A m \in Invoices : jobs'[m].event = jobs[m].event
  BY DEF Invoices, Plain, OneJob
<1>3. Regular
  BY <1>2 DEF Regular, Chronological, Touches
<1>4. doc.granted <= p
  <2>1. CASE doc.granted <= 1
    BY <1>1, <2>1 DEF NoPeriod
  <2>2. ASSUME NEW k \in Invoices, Started(k), jobs[k].event.period = doc.granted
        PROVE  doc.granted <= p
    <3>1. ~(k > n)
      BY <2>2 DEF Started, Touches, Regular
    <3>2. k \in Nat /\ n \in Nat
      BY <1>1, <2>2 DEF Invoices
    <3>3. CASE k = n
      BY <1>1, <2>2, <3>3
    <3>4. CASE k < n
      BY <1>3, <2>2, <3>4 DEF Regular, Chronological
    <3>5. QED
      BY <3>1, <3>2, <3>3, <3>4
  <2>3. QED
    BY <1>3, <2>1, <2>2 DEF GrantInv
<1>5. <<"period", p>> \in credited => p = doc.granted
  BY <1>1, <1>3, <1>4 DEF GrantInv
<1>6. QED
  BY <1>1, <1>4, <1>5

LEMMA SavedCredits ==
    ASSUME NEW snap \in Document, NEW new \in Document, doc \in Document, snap = doc
    PROVE  Saved(snap, new).credits = new.credits /\ Saved(snap, new).granted = new.granted
BY DEF Saved, Document

\* Only an invoice with a period changes the period granted last.
LEMMA AfterGrants ==
    ASSUME NEW e \in PaidEvent, NEW d \in Document
    PROVE  /\ ~(e.type = "paid" /\ ~Plain(e)) => After(e, d).granted = d.granted
           /\ e.type = "paid" /\ ~Plain(e) =>
                \/ After(e, d).granted = d.granted /\ After(e, d).credits = d.credits
                \/ After(e, d).granted = e.period /\ d.granted # e.period
           /\ e.type \in {"completed", "updated", "deleted"} => After(e, d).credits = d.credits
<1>1. e.type \in {"completed", "boost", "updated", "deleted", "paid"}
  BY DEF PaidEvent, Event
<1>2. CASE e.type = "completed"
  BY <1>2 DEF After, Completed, Document
<1>3. CASE e.type = "boost"
  BY <1>3 DEF After, Bought, Credit, Document, Plain
<1>4. CASE e.type = "updated"
  BY <1>4 DEF After, Updated, Document
<1>5. CASE e.type = "deleted"
  BY <1>5 DEF After, Deleted, Document
<1>6. CASE e.type = "paid"
  <2>1. After(e, d) = Paid(e, d) /\ (Plain(e) <=> e.period = NoPeriod)
    BY <1>6 DEF After, Plain
  <2>2. Credit(d).granted = d.granted
    BY DEF Credit, Document
  <2>3. [Credit(d) EXCEPT !.granted = e.period].granted = e.period
    BY DEF Credit, Document
  <2>4. \/ Paid(e, d) = d
        \/ e.period = NoPeriod /\ Paid(e, d) = Credit(d)
        \/ /\ e.period # NoPeriod /\ d.granted # e.period
           /\ Paid(e, d) = [Credit(d) EXCEPT !.granted = e.period]
    BY DEF Paid
  <2>5. QED
    BY <1>6, <2>1, <2>2, <2>3, <2>4
<1>7. QED
  BY <1>1, <1>2, <1>3, <1>4, <1>5, <1>6

LEMMA JobSaveGrants ==
    ASSUME BillingInv, GrantInv, NEW n \in DOMAIN jobs, JobSave(n)
    PROVE  GrantInv'
<1> USE DEF BillingInv
<1> DEFINE e == jobs[n].event
           snap == jobs[n].snap
           new == After(e, snap)
<1>1. /\ jobs \in Seq(PaidJob) /\ jobs[n] \in PaidJob /\ e \in PaidEvent /\ snap \in Document
      /\ doc \in Document /\ now \in Nat
  <2>1. jobs \in Seq(PaidJob) /\ jobs[n] \in PaidJob
    BY LenProperties DEF StripeOK
  <2>2. QED
    BY <2>1 DEF PaidJob, DocOK
<1>2. new \in Document
  BY <1>1, AfterOK
<1>3. /\ OneJob(n) /\ jobs'[n].phase # "queued" /\ Touches(n)
      /\ doc' = Saved(snap, new)
      /\ ~stale' => ~stale /\ snap = doc
  BY <1>1, EndsMoves DEF JobSave
<1>4. ~stale' => doc'.credits = new.credits /\ doc'.granted = new.granted
  BY <1>1, <1>2, <1>3, SavedCredits
<1>5. LET given == {t \in {TokenOf(n)} : doc'.credits > doc.credits}
      IN  credited' = credited \cup given /\ again' = again \cup (credited \cap given)
  BY DEF JobSave
<1>6. ~late' => ~late
  BY <1>3 DEF Touches
<1>7. CASE n \notin Invoices
  <2>1. ~(e.type = "paid" /\ ~Plain(e))
    BY <1>7 DEF Invoices
  <2>2. ~stale' => doc'.granted = doc.granted
    BY <1>1, <1>3, <1>4, <2>1, AfterGrants
  <2>3. ~stale' => \A t \in (credited' \ credited) \cup (again' \ again) : t[1] # "period"
    <3>1. CASE Plain(e)
      BY <1>5, <3>1 DEF TokenOf
    <3>2. CASE e.type \in {"completed", "updated", "deleted"}
      <4>1. ~stale' => doc'.credits = doc.credits /\ doc.credits \in Int
        BY <1>1, <1>3, <1>4, <3>2, AfterGrants DEF Document
      <4>2. QED
        BY <1>5, <4>1
    <3>3. QED
      BY <1>1, <2>1, <3>1, <3>2 DEF PaidEvent, Event, Plain
  <2>4. QED
    BY <1>3, <1>6, <2>2, <2>3, OneJobGrows, GrowsGrants
<1>8. CASE n \in Invoices
  <2> SUFFICES ASSUME Regular'
               PROVE  /\ \A t \in again' : t[1] # "period"
                      /\ \A t \in credited' : t[1] = "period" => t[2] <= doc'.granted
                      /\ \/ doc'.granted <= 1
                         \/ \E k \in Invoices' : Started(k)' /\ jobs'[k].event.period = doc'.granted
    BY DEF GrantInv
  <2>1. /\ e.period \in Nat /\ doc.granted \in Nat /\ doc.granted <= e.period
        /\ <<"period", e.period>> \in credited => e.period = doc.granted
    BY <1>1, <1>3, <1>8, SavedInvoice DEF Document
  <2>2. e.type = "paid" /\ ~Plain(e) /\ TokenOf(n) = <<"period", e.period>>
    BY <1>8 DEF Invoices, TokenOf
  <2>3. /\ Grows /\ Invoices' = Invoices /\ Regular
        /\ \A m \in Invoices : jobs'[m].event = jobs[m].event
        /\ \A m \in Invoices : Started(m) => Started(m)'
    <3>1. Grows
      BY <1>3, OneJobGrows
    <3>2. Invoices' = Invoices /\ \A m \in Invoices : jobs'[m].event = jobs[m].event
      BY <1>3 DEF Invoices, Plain, OneJob
    <3>3. QED
      BY <1>3, <1>6, <3>1, <3>2 DEF Regular, Chronological, Grows, Started
  <2>4. CASE doc'.granted = doc.granted /\ doc'.credits = doc.credits
    <3>1. credited' = credited /\ again' = again
      BY <1>1, <1>5, <2>4 DEF Document
    <3>2. QED
      BY <2>3, <2>4, <3>1 DEF GrantInv
  <2>5. CASE doc'.granted = e.period /\ doc.granted # e.period
    <3>1. again' = again /\ credited' \subseteq credited \cup {<<"period", e.period>>}
      BY <1>5, <2>1, <2>2, <2>5
    <3>2. \A t \in credited : t[1] = "period" => t[2] <= e.period
      <4>1. \A t \in credited : t[2] \in Nat
        BY DEF CountsOK, Token
      <4>2. QED
        BY <2>1, <2>3, <4>1 DEF GrantInv
    <3>3. n \in Invoices' /\ Started(n)' /\ jobs'[n].event.period = doc'.granted
      BY <1>3, <1>8, <2>3, <2>5 DEF Started, OneJob
    <3>4. QED
      BY <2>1, <2>3, <2>5, <3>1, <3>2, <3>3 DEF GrantInv
  <2>6. QED
    <3>1. snap = doc
      BY <1>3 DEF Regular
    <3>2. \/ new.granted = snap.granted /\ new.credits = snap.credits
          \/ new.granted = e.period /\ snap.granted # e.period
      BY <1>1, <2>2, AfterGrants
    <3> HIDE DEF new, snap, e
    <3>3. QED
      BY <1>4, <2>4, <2>5, <3>1, <3>2 DEF Regular
<1>9. QED
  BY <1>7, <1>8

LEMMA WorkerGrants ==
    ASSUME BillingInv, GrantInv, Worker
    PROVE  GrantInv'
<1>1. PICK n \in DOMAIN jobs : JobComplete(n) \/ JobRead(n) \/ JobSave(n) \/ JobFails(n)
  BY DEF Worker
<1>2. jobs \in Seq(PaidJob)
  BY DEF BillingInv, StripeOK
<1>3. doc \in Document
  BY DEF BillingInv, DocOK
<1>4. CASE JobComplete(n)
  <2>1. OneJob(n) /\ jobs'[n].phase # "queued"
    BY <1>2, <1>4, EndsMoves DEF JobComplete
  <2>2. doc'.granted = doc.granted
    BY <1>3, <1>4 DEF JobComplete, After, Completed, Document
  <2>3. (~late' => ~late) /\ UNCHANGED <<stale, credited, again>>
    BY <1>4 DEF JobComplete, Touches, credits
  <2>4. QED
    BY <2>1, <2>2, <2>3, OneJobGrows, GrowsGrants
<1>5. CASE JobRead(n)
  <2>1. \/ jobs' = [jobs EXCEPT ![n].phase = "read", ![n].snap = doc]
        \/ jobs' = [jobs EXCEPT ![n].phase = "done"]
    BY <1>5 DEF JobRead
  <2>2. OneJob(n) /\ jobs'[n].phase \in {"read", "done"}
    BY <1>2, <2>1, JobMoves
  <2>3. (~late' => ~late) /\ UNCHANGED <<doc, stale, credited, again>>
    BY <1>5 DEF JobRead, Touches, credits
  <2>4. QED
    BY <2>2, <2>3, OneJobGrows, GrowsGrants
<1>6. CASE JobSave(n)
  BY <1>6, JobSaveGrants
<1>7. CASE JobFails(n)
  <2>1. OneJob(n) /\ jobs'[n].phase = "again"
    BY <1>2, <1>7, JobMoves DEF JobFails
  <2>2. UNCHANGED <<doc, late, stale, credited, again>>
    BY <1>7 DEF JobFails, ghosts, credits
  <2>3. QED
    BY <2>1, <2>2, OneJobGrows, GrowsGrants
<1>8. QED
  BY <1>1, <1>4, <1>5, <1>6, <1>7

LEMMA OwnerGrants ==
    ASSUME BillingInv, GrantInv, Owner
    PROVE  GrantInv'
<1> USE DEF BillingInv
<1>1. ASSUME Grows, UNCHANGED <<doc, ghosts>>
      PROVE  GrantInv'
  BY <1>1, GrowsGrants DEF ghosts, credits
<1>2. ASSUME jobs' = jobs
      PROVE  Grows
  BY <1>2 DEF Grows
<1>3. ASSUME NEW op \in {"choose", "cancel", "reactivate", "delete"}, NEW tier \in Tier, Load(op, tier)
      PROVE  GrantInv'
  BY <1>1, <1>2, <1>3 DEF Load
<1>4. CASE OpenPage \/ ChangeTier \/ Cancel \/ Reactivate \/ CancelNow
  BY <1>1, <1>4, CallStep DEF OpenPage, ChangeTier, Cancel, Reactivate, CancelNow
<1>5. CASE Buy
  <2>1. BoughtEvent \in PaidEvent /\ Emits(<<BoughtEvent>>)
    BY <1>5, BoughtEventOK DEF Buy, BoughtEvent
  <2>2. <<BoughtEvent>> \in Seq(PaidEvent)
    BY <2>1
  <2>3. Grows
    BY <2>1, <2>2, EmitsOK DEF StripeOK
  <2>4. QED
    BY <1>1, <1>5, <2>3 DEF Buy
<1>6. CASE OwnerSave
  <2>1. own.snap \in Document /\ doc \in Document /\ Requested \in Document
    BY <1>6, RequestedOK DEF OwnerSave, OwnerOK, DocOK
  <2>2. Requested.granted = own.snap.granted
    BY <1>6, <2>1 DEF OwnerSave, OwnerOK, Requested, Document
  <2>3. Saved(own.snap, Requested).granted = doc.granted
    BY <2>1, <2>2 DEF Saved, Document
  <2>4. Saved(own.snap, Requested) \in Document
    BY <2>1, SavedOK
  <2>5. doc'.granted = doc.granted
    BY <1>6, <2>3, <2>4 DEF OwnerSave, Document
  <2>6. Grows /\ UNCHANGED <<late, credited, again>> /\ (~stale' => ~stale)
    BY <1>2, <1>6 DEF OwnerSave, credits
  <2>7. QED
    BY <2>5, <2>6, GrowsGrants
<1>7. CASE OwnerCrash
  BY <1>1, <1>2, <1>7 DEF OwnerCrash
<1>8. QED
  BY <1>3, <1>4, <1>5, <1>6, <1>7 DEF Owner

LEMMA StepGrants == BillingInv /\ GrantInv /\ [Next]_vars => GrantInv'
<1> SUFFICES ASSUME BillingInv, GrantInv, [Next]_vars PROVE GrantInv'
  OBVIOUS
<1>1. ASSUME Grows, UNCHANGED <<doc, ghosts>>
      PROVE  GrantInv'
  BY <1>1, GrowsGrants DEF ghosts, credits
<1>2. ASSUME jobs' = jobs
      PROVE  Grows
  BY <1>2 DEF Grows
<1>3. CASE Stripe
  BY <1>1, <1>3, StripeStep DEF ghosts
<1>4. CASE Worker
  BY <1>4, WorkerGrants
<1>5. CASE Owner
  BY <1>5, OwnerGrants
<1>6. CASE CronFind
  BY <1>1, <1>2, <1>6 DEF CronFind
<1>7. CASE CronErase
  <2>1. doc'.granted = doc.granted
    BY <1>7 DEF CronErase, BillingInv, DocOK, Document
  <2>2. Grows /\ UNCHANGED <<late, stale, credited, again>>
    BY <1>2, <1>7 DEF CronErase, ghosts, credits
  <2>3. QED
    BY <2>1, <2>2, GrowsGrants
<1>8. CASE Tick
  BY <1>1, <1>2, <1>8 DEF Tick
<1>9. CASE UNCHANGED vars
  BY <1>1, <1>2, <1>9 DEF vars, ghosts, credits
<1>10. QED
  BY <1>3, <1>4, <1>5, <1>6, <1>7, <1>8, <1>9 DEF Next

\* The credits of a billing period are granted once, for any number of subscriptions,
\* periods and invoices and however often their jobs are run again, while Stripe settles
\* no old invoice after a newer one, no event is handled after a newer one and no two
\* handlers overlap: the document remembers the last period only.
THEOREM GrantedOncePerPeriod == Spec => []PeriodGrantedOnce
<1>1. GrantInv => PeriodGrantedOnce
  BY DEF GrantInv, Regular, PeriodGrantedOnce
<1>2. QED
  BY <1>1, InvAlways, InitGrants, StepGrants, PTL DEF Spec
==================================================================================
