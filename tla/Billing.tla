------------------------------- MODULE Billing -------------------------------
(***************************************************************************)
(* The subscription of one venue: the fields that Stripe's webhook, the    *)
(* owner's requests and the purge cron write in the venue's document       *)
(* (controllers/businessBilling.controller.js, services/cron.service.js).  *)
(* The webhook puts every event in a queue whose jobs run five at a time,  *)
(* are run again after a failure, and so overtake one another and the      *)
(* owner's requests.  Stripe itself is external.                           *)
(***************************************************************************)
EXTENDS Integers, Sequences, FiniteSets

CONSTANTS
    TopTier,    \* pro3: the paid tiers are 1 .. TopTier, and 0 is 'none'
    Cap,        \* BOOST_CAPS.pro
    Grace,      \* PREMIUM_DATA_GRACE_MS
    Concurrency,\* concurrency of the queue's worker
    MaxSubs,    \* bound: checkout pages opened
    MaxWork,    \* bound: requests of the owner and events Stripe sends
    MaxPeriods, \* bound: billing periods begun
    MaxRetries, \* bound: jobs run again
    MaxAsked,   \* bound: requests of the owner
    MaxTime     \* bound: the clock stops here

ASSUME TierAssumption == TopTier \in Nat \ {0} /\ Cap \in Nat \ {0} /\ Grace \in Nat /\ Concurrency \in Nat
ASSUME BoundsAssumption ==
    /\ MaxSubs \in Nat \ {0} /\ MaxWork \in Nat /\ MaxPeriods \in Nat
    /\ MaxRetries \in Nat /\ MaxAsked \in Nat /\ MaxTime \in Nat

Sub == 1 .. MaxSubs
NoSub == 0
Tier == 0 .. TopTier
NoTime == 0    \* "undefined" in a field that holds a time; the clock starts at 1
NoPeriod == 0  \* no period granted yet, or an invoice without a period's end

VARIABLES
    now,      \* Date.now()
    doc,      \* the billing fields of the venue's document
    subs,     \* the subscriptions, as Stripe has them
    jobs,     \* the queue: one job per event, in the order Stripe sent them
    own,      \* the owner's request in progress
    cron,     \* "found" between the find and the save of the purge cron
    retries,  \* jobs run again so far (not in the code)
    asked,    \* requests of the owner so far (not in the code)
    late,     \* an event was handled after, or during, a newer one (not in the code)
    stale,    \* a document was saved that was not the one read (not in the code)
    credited, \* what a credit was added for: periods, other events (not in the code)
    again     \* what one was added for more than once (not in the code)

vars == <<now, doc, subs, jobs, own, cron, retries, asked, late, stale, credited, again>>
credits == <<credited, again>>
ghosts == <<late, stale, credits>>

Document ==
    [tier : Tier,                                         \* businessTier
     sub : Sub \cup {NoSub},                              \* stripeSubscriptionId
     status : {"none", "active", "past_due", "canceled"}, \* subscription.status
     cancel : BOOLEAN,                                    \* cancelAtPeriodEnd
     pending : Tier,                                      \* pendingTier
     sched : BOOLEAN,                                     \* stripeScheduleId is set
     purge : Nat,                                         \* premiumDataPurgeAt
     credits : 0 .. Cap,                                  \* proBoostBalance
     granted : Nat,                                       \* lastGrantedPeriodEnd
     owned : BOOLEAN]                                     \* ownerId is set

\* A subscription in Stripe: "page" is a checkout page not paid yet; next, the tier
\* of the second phase of its schedule, if it has one to come; open, the periods
\* with an invoice not paid yet.
Subscription ==
    [status : {"none", "page", "active", "past_due", "canceled"}, tier : Tier,
     cancel : BOOLEAN, sched : BOOLEAN, next : Tier, period : Nat, open : SUBSET Nat]

Event ==
    [type : {"completed", "boost", "updated", "deleted", "paid"}, sub : Sub \cup {NoSub},
     tier : Tier, status : {"active", "past_due", "canceled"}, cancel : BOOLEAN,
     sched : BOOLEAN, period : Nat]

\* "again": in the queue once more, to be run from the start.
Job == [event : Event, phase : {"queued", "read", "done", "again"}, snap : Document]

Token == {"period", "event"} \X Nat

Request == {"none", "choose", "downgrade", "upgrade", "cancel", "reactivate", "delete"}

NoSubscription ==
    [status |-> "none", tier |-> 0, cancel |-> FALSE, sched |-> FALSE, next |-> 0,
     period |-> 0, open |-> {}]

NewDocument ==
    [tier |-> 0, sub |-> NoSub, status |-> "none", cancel |-> FALSE, pending |-> 0,
     sched |-> FALSE, purge |-> NoTime, credits |-> 0, granted |-> NoPeriod, owned |-> TRUE]

NoRequest == [op |-> "none", tier |-> 0, called |-> FALSE, snap |-> NewDocument]

TypeOK ==
    /\ now \in Nat
    /\ doc \in Document
    /\ subs \in [Sub -> Subscription]
    /\ jobs \in Seq(Job)
    /\ own \in [op : Request, tier : Tier, called : BOOLEAN, snap : Document]
    /\ cron \in {"idle", "found"}
    /\ retries \in Nat /\ asked \in Nat
    /\ late \in BOOLEAN /\ stale \in BOOLEAN
    /\ credited \subseteq Token /\ again \subseteq Token

\* A venue without a subscription, or one whose first period is paid and whose events
\* have been handled.
Init ==
    /\ now = 1
    /\ \E tier \in Tier :
          IF tier = 0
          THEN doc = NewDocument /\ subs = [s \in Sub |-> NoSubscription]
          ELSE /\ doc = [NewDocument EXCEPT !.tier = tier, !.sub = 1, !.status = "active",
                                            !.granted = IF tier = TopTier THEN 1 ELSE NoPeriod,
                                            !.credits = IF tier = TopTier THEN 1 ELSE 0]
               /\ subs = [s \in Sub |-> IF s = 1
                                        THEN [NoSubscription EXCEPT !.status = "active",
                                                    !.tier = tier, !.period = 1]
                                        ELSE NoSubscription]
    /\ jobs = << >>
    /\ own = NoRequest
    /\ cron = "idle"
    /\ retries = 0 /\ asked = 0
    /\ late = FALSE /\ stale = FALSE
    /\ credited = {<<"period", p>> : p \in {doc.granted} \ {NoPeriod}} /\ again = {}

\* save() of Mongoose writes the fields that changed since they were read.
Saved(snap, new) == [f \in DOMAIN doc |-> IF new[f] # snap[f] THEN new[f] ELSE doc[f]]

-------------------------------------------------------------------------------
(* Stripe (external) *)

EventOf(type, s, sub) ==
    [type |-> type, sub |-> s, tier |-> sub.tier,
     status |-> sub.status,
     cancel |-> sub.cancel /\ ~sub.sched, sched |-> sub.sched, period |-> sub.period]

\* Events that credit the venue for themselves, not for a period.
Plain(e) == e.type = "boost" \/ (e.type = "paid" /\ e.period = NoPeriod)

\* What counts towards MaxWork; the plain events count three times.
Work == asked + Len(jobs) + 2 * Cardinality({n \in DOMAIN jobs : Plain(jobs[n].event)})

Emits(events) ==
    /\ Work + Len(events) <= MaxWork
    /\ jobs' = jobs \o [i \in DOMAIN events |->
                          [event |-> events[i], phase |-> "queued", snap |-> NewDocument]]

NextPeriod == 1 + Cardinality(UNION {1 .. subs[s].period : s \in Sub})

\* The checkout page is paid: the subscription begins.  Its first invoice and the
\* end of the checkout are announced in either order.
Pay(s) ==
    /\ subs[s].status = "page"
    /\ NextPeriod <= MaxPeriods
    /\ LET new == [subs[s] EXCEPT !.status = "active", !.period = NextPeriod]
       IN  /\ subs' = [subs EXCEPT ![s] = new]
           /\ \/ Emits(<<EventOf("completed", s, new), EventOf("paid", s, new)>>)
              \/ Emits(<<EventOf("paid", s, new), EventOf("completed", s, new)>>)
    /\ UNCHANGED <<now, doc, own, cron, retries, asked, ghosts>>

\* The tier from the next period on, the schedule taken into account.
Renewed(sub) ==
    IF sub.next # 0
    THEN [sub EXCEPT !.tier = sub.next, !.next = 0, !.period = NextPeriod]
    ELSE [sub EXCEPT !.sched = FALSE, !.period = NextPeriod]

\* Stripe changes the subscription and charges the card, which may be refused: the
\* status is that of the latest invoice.
Charged(s, new) ==
    \/ LET paid == [new EXCEPT !.status = "active"]
       IN  /\ subs' = [subs EXCEPT ![s] = paid]
           /\ Emits(<<EventOf("updated", s, paid), EventOf("paid", s, paid)>>)
    \/ LET unpaid == [new EXCEPT !.status = "past_due", !.open = @ \cup {new.period}]
       IN  subs' = [subs EXCEPT ![s] = unpaid] /\ Emits(<<EventOf("updated", s, unpaid)>>)

Running(s) == subs[s].status \in {"active", "past_due"}

Stops(s) ==
    LET new == [subs[s] EXCEPT !.status = "canceled", !.open = {}]
    IN  subs' = [subs EXCEPT ![s] = new] /\ Emits(<<EventOf("deleted", s, new)>>)

\* The period ends, and with it a subscription that was to be cancelled.
Renew(s) ==
    /\ Running(s)
    /\ IF subs[s].cancel /\ subs[s].next = 0
       THEN Stops(s)
       ELSE NextPeriod <= MaxPeriods /\ Charged(s, Renewed(subs[s]))
    /\ UNCHANGED <<now, doc, own, cron, retries, asked, ghosts>>

\* An invoice that was refused is paid after all, perhaps in a later period.
Settle(s, p) ==
    /\ Running(s) /\ p \in subs[s].open
    /\ LET new == [subs[s] EXCEPT !.open = @ \ {p},
                                  !.status = IF p = subs[s].period THEN "active" ELSE @]
       IN  /\ subs' = [subs EXCEPT ![s] = new]
           /\ Emits(<<EventOf("updated", s, new), [EventOf("paid", s, new) EXCEPT !.period = p]>>)
    /\ UNCHANGED <<now, doc, own, cron, retries, asked, ghosts>>

\* Stripe gives up on the card.
GiveUp(s) ==
    /\ subs[s].status = "past_due"
    /\ Stops(s)
    /\ UNCHANGED <<now, doc, own, cron, retries, asked, ghosts>>

\* An invoice without a line, hence without a period.
Undated(s) ==
    /\ Running(s)
    /\ Work + 3 <= MaxWork
    /\ Emits(<<[EventOf("paid", s, subs[s]) EXCEPT !.period = NoPeriod]>>)
    /\ UNCHANGED <<now, doc, subs, own, cron, retries, asked, ghosts>>

-------------------------------------------------------------------------------
(* processStripeEvent: the jobs of the queue *)

\* schedulePremiumDataPurge
PurgeAt(d) == IF d.purge = NoTime THEN now + Grace ELSE d.purge

\* checkout.session.completed of a subscription
Completed(e, d) ==
    [d EXCEPT !.tier = e.tier, !.sub = e.sub, !.status = "active", !.purge = NoTime]

\* Mutants of Updated: the status is not looked at; a subscription that is paid again
\* stays to be purged.
Updated_AnyStatus(e, d) ==
    [d EXCEPT !.status = e.status, !.cancel = e.cancel, !.tier = e.tier, !.purge = NoTime]
Updated_KeepsPurge(e, d) ==
    LET tier == IF e.status = "active" THEN e.tier ELSE 0
    IN  [d EXCEPT !.status = e.status, !.cancel = e.cancel, !.tier = tier,
                  !.purge = IF d.tier # 0 /\ tier = 0 THEN PurgeAt(d) ELSE d.purge]

\* customer.subscription.updated
Updated(e, d) ==
    LET tier == IF e.status = "active" THEN e.tier ELSE 0
    IN  [d EXCEPT !.status = e.status, !.cancel = e.cancel,
                  !.sched = e.sched /\ @,
                  !.pending = IF e.sched THEN @ ELSE 0,
                  !.tier = tier,
                  !.purge = IF tier # 0 THEN NoTime
                            ELSE IF d.tier # 0 THEN PurgeAt(d) ELSE d.purge]

\* customer.subscription.deleted
Deleted(d) ==
    [d EXCEPT !.tier = 0, !.status = "canceled", !.cancel = FALSE, !.purge = PurgeAt(d)]

Credit(d) == [d EXCEPT !.credits = IF @ < Cap THEN @ + 1 ELSE Cap]

\* checkout.session.completed of a single boost
Bought(d) == Credit(d)

\* Mutants of Paid: the balance has no cap; a period is granted again.
Paid_NoCap(e, d) ==
    IF d.tier = TopTier /\ d.granted # e.period
    THEN [d EXCEPT !.credits = @ + 1, !.granted = e.period]
    ELSE d
Paid_Again(e, d) ==
    IF d.tier = TopTier THEN [Credit(d) EXCEPT !.granted = e.period] ELSE d

\* invoice.paid: only the period granted last is remembered.
Paid(e, d) ==
    CASE d.tier # TopTier -> d
      [] d.tier = TopTier /\ e.period = NoPeriod -> Credit(d)
      [] d.tier = TopTier /\ e.period # NoPeriod ->
           IF d.granted = e.period THEN d ELSE [Credit(d) EXCEPT !.granted = e.period]

After(e, d) ==
    CASE e.type = "completed" -> Completed(e, d)
      [] e.type = "boost" -> Bought(d)
      [] e.type = "updated" -> Updated(e, d)
      [] e.type = "deleted" -> Deleted(d)
      [] e.type = "paid" -> Paid(e, d)

\* An older event is handled, or its handling ends, after a newer one was begun.
Touches(n) ==
    late' = (late \/ \E m \in DOMAIN jobs : m > n /\ jobs[m].phase # "queued")

\* The job is over, or the worker stopped before it could say so: it runs again.
Ends(n) ==
    \/ jobs' = [jobs EXCEPT ![n].phase = "done", ![n].snap = NewDocument] /\ retries' = retries
    \/ /\ retries < MaxRetries /\ retries' = retries + 1
       /\ jobs' = [jobs EXCEPT ![n].phase = "again", ![n].snap = NewDocument]

\* What a credit is for: the period of the invoice, else this event alone.
TokenOf(n) ==
    LET e == jobs[n].event
    IN  IF Plain(e) THEN <<"event", n>> ELSE <<"period", e.period>>

Waits(n) == jobs[n].phase \in {"queued", "again"}

\* The end of a checkout names the venue in its metadata, other events by its
\* subscription.
Finds(e) == e.type \in {"completed", "boost"} \/ e.sub = doc.sub

\* findByIdAndUpdate: read and written at once.
JobComplete(n) ==
    /\ Waits(n) /\ jobs[n].event.type = "completed"
    /\ Touches(n)
    /\ doc' = After(jobs[n].event, doc)
    /\ Ends(n)
    /\ UNCHANGED <<now, subs, own, cron, asked, stale, credits>>

\* findOne: an event about another subscription changes nothing.
JobRead(n) ==
    /\ Waits(n) /\ jobs[n].event.type # "completed"
    /\ Cardinality({m \in DOMAIN jobs : jobs[m].phase = "read"}) < Concurrency
    /\ Touches(n)
    /\ jobs' = IF Finds(jobs[n].event)
               THEN [jobs EXCEPT ![n].phase = "read", ![n].snap = doc]
               ELSE [jobs EXCEPT ![n].phase = "done"]
    /\ UNCHANGED <<now, doc, subs, own, cron, retries, asked, stale, credits>>

JobSave(n) ==
    /\ jobs[n].phase = "read"
    /\ doc' = Saved(jobs[n].snap, After(jobs[n].event, jobs[n].snap))
    /\ stale' = (stale \/ jobs[n].snap # doc)
    /\ LET given == {t \in {TokenOf(n)} : doc'.credits > doc.credits}
       IN  credited' = credited \cup given /\ again' = again \cup (credited \cap given)
    /\ Touches(n)
    /\ Ends(n)
    /\ UNCHANGED <<now, subs, own, cron, asked>>

\* An error, or a restart of the worker: BullMQ runs the job again.
JobFails(n) ==
    /\ jobs[n].phase = "read"
    /\ retries < MaxRetries /\ retries' = retries + 1
    /\ jobs' = [jobs EXCEPT ![n].phase = "again", ![n].snap = NewDocument]
    /\ UNCHANGED <<now, doc, subs, own, cron, asked, ghosts>>

-------------------------------------------------------------------------------
(* The owner *)

\* checkoutSession, cancelSubscription, reactivateSubscription and deleteAccount
\* load the venue and refuse what its document does not allow.
Load(op, tier) ==
    /\ own.op = "none"
    /\ asked < MaxAsked /\ asked' = asked + 1
    /\ Work < MaxWork
    /\ doc.owned
    /\ op = "choose" <=> tier # 0
    /\ op \in {"cancel", "reactivate"} => doc.sub # NoSub
    /\ op = "reactivate" => doc.cancel
    /\ own' = [op |-> op, tier |-> tier, called |-> FALSE, snap |-> doc]
    /\ UNCHANGED <<now, doc, subs, jobs, cron, retries, ghosts>>

Calls(op) == own' = [own EXCEPT !.op = op, !.called = TRUE]
Gives(op) == own.op = op /\ ~own.called

\* A first subscription, or one after the end of another: a page to pay on.
OpenPage ==
    /\ Gives("choose")
    /\ own.snap.sub = NoSub \/ own.snap.status # "active"
    /\ \E s \in Sub :
          /\ subs[s].status = "none" /\ \A t \in 1 .. s - 1 : subs[t].status # "none"
          /\ subs' = [subs EXCEPT ![s].status = "page", ![s].tier = own.tier]
    /\ own' = NoRequest
    /\ UNCHANGED <<now, doc, jobs, cron, retries, asked, ghosts>>

\* checkoutSession on an active subscription: a lower tier is scheduled for the end
\* of the period, another is charged for at once.
ChangeTier ==
    /\ Gives("choose")
    /\ own.snap.sub # NoSub /\ own.snap.status = "active"
    /\ LET s == own.snap.sub
       IN  IF ~Running(s)
           THEN own' = NoRequest /\ UNCHANGED <<subs, jobs>>
           ELSE IF own.tier < own.snap.tier
           THEN /\ Calls("downgrade")
                /\ LET new == [subs[s] EXCEPT !.sched = TRUE, !.next = own.tier]
                   IN  subs' = [subs EXCEPT ![s] = new] /\ Emits(<<EventOf("updated", s, new)>>)
           ELSE /\ Calls("upgrade")
                /\ Charged(s, [subs[s] EXCEPT !.tier = own.tier, !.cancel = FALSE,
                                              !.sched = FALSE, !.next = 0])
    /\ UNCHANGED <<now, doc, cron, retries, asked, ghosts>>

\* cancelSubscription: a schedule is told to end with a cancellation, a plain
\* subscription is not renewed; one that Stripe no longer has is no error.
Cancel ==
    /\ Gives("cancel")
    /\ LET s == own.snap.sub
           new == [subs[s] EXCEPT !.cancel = TRUE]
       IN  CASE ~Running(s) -> Calls("cancel") /\ UNCHANGED <<subs, jobs>>
             [] Running(s) /\ ~own.snap.sched ->
                  /\ Calls("cancel")
                  /\ subs' = [subs EXCEPT ![s] = new] /\ Emits(<<EventOf("updated", s, new)>>)
             [] Running(s) /\ own.snap.sched /\ subs[s].sched ->
                  Calls("cancel") /\ subs' = [subs EXCEPT ![s] = new] /\ jobs' = jobs
             [] Running(s) /\ own.snap.sched /\ ~subs[s].sched ->
                  own' = NoRequest /\ UNCHANGED <<subs, jobs>>
    /\ UNCHANGED <<now, doc, cron, retries, asked, ghosts>>

\* reactivateSubscription: the schedule is released, or the renewal restored.
Reactivate ==
    /\ Gives("reactivate")
    /\ LET s == own.snap.sub
           new == [subs[s] EXCEPT !.cancel = FALSE, !.sched = FALSE, !.next = 0]
       IN  IF Running(s) /\ (own.snap.sched => subs[s].sched)
           THEN /\ Calls("reactivate")
                /\ subs' = [subs EXCEPT ![s] = new] /\ Emits(<<EventOf("updated", s, new)>>)
           ELSE own' = NoRequest /\ UNCHANGED <<subs, jobs>>
    /\ UNCHANGED <<now, doc, cron, retries, asked, ghosts>>

\* deleteAccount ends the subscription at once.
CancelNow ==
    /\ Gives("delete")
    /\ Calls("delete")
    /\ IF own.snap.sub # NoSub /\ Running(own.snap.sub)
       THEN Stops(own.snap.sub)
       ELSE UNCHANGED <<subs, jobs>>
    /\ UNCHANGED <<now, doc, cron, retries, asked, ghosts>>

\* purchaseCheckout, and the payment of its page: a boost is paid for once, whatever the tier.
Buy ==
    /\ doc.owned
    /\ Work + 3 <= MaxWork
    /\ Emits(<<[EventOf("boost", NoSub, NoSubscription) EXCEPT !.status = "active"]>>)
    /\ UNCHANGED <<now, doc, subs, own, cron, retries, asked, ghosts>>

\* What each request then changes in the document it loaded.
Requested ==
    LET d == own.snap
    IN  CASE own.op = "downgrade" ->
               [d EXCEPT !.sched = TRUE, !.pending = own.tier, !.cancel = FALSE]
          [] own.op = "upgrade" ->
               [d EXCEPT !.tier = own.tier, !.cancel = FALSE, !.sched = FALSE, !.pending = 0]
          [] own.op = "cancel" -> [d EXCEPT !.cancel = TRUE, !.pending = 0]
          [] own.op = "reactivate" ->
               [d EXCEPT !.sched = FALSE, !.cancel = FALSE, !.purge = NoTime]
          [] own.op = "delete" -> [d EXCEPT !.owned = FALSE, !.tier = 0, !.purge = NoTime]

\* deleteAccount replaces the whole subscription, the others single fields.
OwnerSave ==
    /\ own.called
    /\ doc' = IF own.op = "delete"
              THEN [Saved(own.snap, Requested) EXCEPT
                       !.sub = NoSub, !.status = "canceled", !.cancel = FALSE,
                       !.pending = 0, !.sched = FALSE]
              ELSE Saved(own.snap, Requested)
    /\ stale' = (stale \/ own.snap # doc)
    /\ own' = NoRequest
    /\ UNCHANGED <<now, subs, jobs, cron, retries, asked, late, credits>>

\* The handler stops between its call of Stripe and its save.
OwnerCrash ==
    /\ own.called
    /\ own' = NoRequest
    /\ UNCHANGED <<now, doc, subs, jobs, cron, retries, asked, ghosts>>

-------------------------------------------------------------------------------
(* The purge cron, and time *)

CronFind ==
    /\ cron = "idle"
    /\ doc.purge # NoTime /\ doc.purge <= now
    /\ cron' = "found"
    /\ UNCHANGED <<now, doc, subs, jobs, own, retries, asked, ghosts>>

\* revokePremiumAdvantages and save(): the content is gone, the date too.
CronErase ==
    /\ cron = "found"
    /\ cron' = "idle"
    /\ doc' = [doc EXCEPT !.purge = NoTime]
    /\ UNCHANGED <<now, subs, jobs, own, retries, asked, ghosts>>

\* Time matters only while a purge is scheduled.
Tick ==
    /\ now < MaxTime
    /\ doc.purge # NoTime
    /\ now' = now + 1
    /\ UNCHANGED <<doc, subs, jobs, own, cron, retries, asked, ghosts>>

Stripe ==
    \E s \in Sub : Pay(s) \/ Renew(s) \/ GiveUp(s) \/ Undated(s) \/ \E p \in 1 .. MaxPeriods : Settle(s, p)

Worker == \E n \in DOMAIN jobs : JobComplete(n) \/ JobRead(n) \/ JobSave(n) \/ JobFails(n)

Owner ==
    \/ \E op \in {"choose", "cancel", "reactivate", "delete"}, tier \in Tier : Load(op, tier)
    \/ OpenPage \/ ChangeTier \/ Cancel \/ Reactivate \/ CancelNow \/ Buy
    \/ OwnerSave \/ OwnerCrash

Next == Stripe \/ Worker \/ Owner \/ CronFind \/ CronErase \/ Tick

Spec == Init /\ [][Next]_vars

-------------------------------------------------------------------------------
(* Properties *)

PaidTier == IF doc.sub # NoSub /\ subs[doc.sub].status = "active" THEN subs[doc.sub].tier ELSE 0

Settled == own.op = "none" /\ \A n \in DOMAIN jobs : jobs[n].phase = "done"

\* Once every event has been handled, the venue has the tier that is paid for,
\* whatever requests stopped half-way and however often jobs were run again;
\* unless an event was handled after a newer one, or two handlers overlapped.
TierFollows == Settled /\ ~late /\ ~stale => doc.tier = PaidTier

\* The content of a venue is scheduled for purge only while the venue has no tier:
\* events in any order, repeated or dropped, do not change that.  Only handlers
\* that overlap do.
PurgeMeansUnpaid == doc.purge # NoTime /\ ~stale => doc.tier = 0

Invoices == {n \in DOMAIN jobs : jobs[n].event.type = "paid" /\ ~Plain(jobs[n].event)}

\* Stripe announced the payment of no invoice after that of a later period's.
Chronological ==
    \A m, n \in Invoices : m < n => jobs[m].event.period <= jobs[n].event.period

\* The credits of a period are granted once, however many of its invoices are paid and
\* however often their jobs run again; unless Stripe settled an old invoice after a newer
\* one, an event was handled after a newer one, or two handlers overlapped: only the last
\* period is remembered (businessBilling.controller.js:545-558).  Nothing of the kind is
\* promised for a single boost or an invoice without a period: see CreditedOnce.
PeriodGrantedOnce ==
    (\E t \in again : t[1] = "period") => late \/ stale \/ ~Chronological

\* No credit is added twice for one event or one period, whatever runs again: each case of
\* processStripeEvent is called idempotent, and a period's credits granted only once
\* (businessBilling.controller.js:460-464, 547-549).
CreditedOnce == again = {}
===============================================================================
