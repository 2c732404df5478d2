----------------------------- MODULE Sponsorship -----------------------------
(***************************************************************************)
(* The "Pro Boost": for 24 hours one venue, of all, is shown as sponsored. *)
(* A single document, the slot, is taken by an atomic compare-and-swap;    *)
(* the venue's own document, which the public list reads, is written       *)
(* after it, and a cron gives the slot back in two further updates         *)
(* (controllers/businessBoost.controller.js, services/cron.service.js).    *)
(* Owners pay with credits, bought through Stripe, that the venue's        *)
(* document holds and that each handler reads first and saves later.       *)
(***************************************************************************)
EXTENDS Naturals

CONSTANTS
    Venue,      \* the venues
    NoVenue,    \* "null" in the slot
    Req,        \* the activations and purchases; each is handled once
    Lease,      \* PRO_BOOST_DURATION_MS
    Cap,        \* BOOST_CAPS.pro
    LastStart,  \* bound: no request starts after this time
    MaxTime     \* bound: the clock stops here

NoTime == 0     \* "null" in a field that holds a time; the clock starts at 1

ASSUME VenueAssumption == NoVenue \notin Venue
ASSUME TimeAssumption ==
    Lease \in Nat \ {0} /\ Cap \in Nat /\ LastStart \in Nat /\ MaxTime \in Nat

VARIABLES
    now,    \* Date.now()
    slot,   \* the SponsorshipSlot document
    venue,  \* per venue: its sponsorship and its Pro Boost credits
    req,    \* the requests in progress
    cron    \* the run of the slot-release cron, if one is in progress

vars == <<now, slot, venue, req, cron>>

MaybeVenue == Venue \cup {NoVenue}

Slot == [loc : MaybeVenue, until : Nat]

Offer == [active : BOOLEAN, until : Nat, credits : Nat]

Request == [kind : {"activate", "purchase"}, phase : {"new", "read", "seized", "done"},
            loc : MaybeVenue, at : Nat, credits : Nat]

CronRun == [phase : {"idle", "started", "released"}, at : Nat, loc : MaybeVenue]

TypeOK ==
    /\ now \in Nat \ {0}
    /\ slot \in Slot
    /\ venue \in [Venue -> Offer]
    /\ req \in [Req -> Request]
    /\ cron \in CronRun

NoRun == [phase |-> "idle", at |-> NoTime, loc |-> NoVenue]

NewReq(k) == [kind |-> k, phase |-> "new", loc |-> NoVenue, at |-> NoTime, credits |-> 0]

Init ==
    /\ now = 1
    /\ slot = [loc |-> NoVenue, until |-> NoTime]
    /\ venue \in [Venue -> {[active |-> FALSE, until |-> NoTime, credits |-> c] : c \in 0 .. Cap}]
    /\ \E k \in [Req -> {"activate", "purchase"}] : req = [r \in Req |-> NewReq(k[r])]
    /\ cron = NoRun

-------------------------------------------------------------------------------

\* Mutant of Free: the slot is taken over whenever its holder's term is not null.
Free_Always(t) == slot.loc = NoVenue \/ slot.until # NoTime

\* The filter of the compare-and-swap, at the handler's time t
Free(t) == slot.loc = NoVenue \/ slot.until = NoTime \/ slot.until <= t

Finish(r) == req' = [req EXCEPT ![r] = [NewReq(@.kind) EXCEPT !.phase = "done"]]

\* Mutant of Load: the balance is not checked.
Load_Unchecked(r, v) ==
    /\ req[r].phase = "new"
    /\ now <= LastStart
    /\ req' = [req EXCEPT ![r] = [@ EXCEPT !.phase = "read", !.loc = v, !.at = now,
                                            !.credits = venue[v].credits]]
    /\ UNCHANGED <<now, slot, venue, cron>>

\* The document of venue v is loaded; an activation without a credit is refused.
Load(r, v) ==
    /\ req[r].phase = "new"
    /\ now <= LastStart
    /\ IF req[r].kind = "activate" /\ venue[v].credits = 0
       THEN Finish(r)
       ELSE req' = [req EXCEPT ![r] = [@ EXCEPT !.phase = "read", !.loc = v, !.at = now,
                                                !.credits = venue[v].credits]]
    /\ UNCHANGED <<now, slot, venue, cron>>

\* The compare-and-swap on the slot; the loser is told SPONSORSHIP_SLOT_TAKEN.
Seize(r) ==
    /\ req[r].kind = "activate" /\ req[r].phase = "read"
    /\ IF Free(req[r].at)
       THEN /\ slot' = [loc |-> req[r].loc, until |-> req[r].at + Lease]
            /\ req' = [req EXCEPT ![r] = [@ EXCEPT !.phase = "seized"]]
       ELSE slot' = slot /\ Finish(r)
    /\ UNCHANGED <<now, venue, cron>>

\* The venue is saved: sponsored, one credit less than when it was loaded.
SaveSponsor(r) ==
    /\ req[r].phase = "seized"
    /\ venue' = [venue EXCEPT ![req[r].loc] =
                    [active |-> TRUE, until |-> req[r].at + Lease,
                     credits |-> req[r].credits - 1]]
    /\ Finish(r)
    /\ UNCHANGED <<now, slot, cron>>

\* processStripeEvent, boost_purchase: one credit more than when it was loaded.
\* At the cap the credit is lost, and nothing is written.
SavePurchase(r) ==
    /\ req[r].kind = "purchase" /\ req[r].phase = "read"
    /\ venue' = IF req[r].credits < Cap
                THEN [venue EXCEPT ![req[r].loc] = [@ EXCEPT !.credits = req[r].credits + 1]]
                ELSE venue
    /\ Finish(r)
    /\ UNCHANGED <<now, slot, cron>>

\* An error, or a restart of the worker, between two awaits.
Crash(r) ==
    /\ req[r].phase \in {"read", "seized"}
    /\ Finish(r)
    /\ UNCHANGED <<now, slot, venue, cron>>

\* The cron takes its time stamp, ...
CronStart ==
    /\ cron.phase = "idle"
    /\ slot.loc # NoVenue
    /\ cron' = [NoRun EXCEPT !.phase = "started", !.at = now]
    /\ UNCHANGED <<now, slot, venue, req>>

\* Mutant of CronRelease: the term is not compared with the time.
CronRelease_Never ==
    /\ cron.phase = "started"
    /\ cron' = NoRun
    /\ UNCHANGED <<now, slot, venue, req>>

\* ... releases a slot whose term is over, and remembers who held it, ...
CronRelease ==
    /\ cron.phase = "started"
    /\ IF slot.until # NoTime /\ slot.until <= cron.at
       THEN /\ slot' = [loc |-> NoVenue, until |-> NoTime]
            /\ cron' = [cron EXCEPT !.phase = "released", !.loc = slot.loc]
       ELSE slot' = slot /\ cron' = NoRun
    /\ UNCHANGED <<now, venue, req>>

\* Mutant of CronClear: the venue is found by its id only.
CronClear_ById ==
    /\ cron.phase = "released"
    /\ venue' = [v \in Venue |->
                    IF v = cron.loc THEN [venue[v] EXCEPT !.active = FALSE] ELSE venue[v]]
    /\ cron' = NoRun
    /\ UNCHANGED <<now, slot, req>>

\* ... and marks that venue as no longer sponsored, if it has not been again since.
CronClear ==
    /\ cron.phase = "released"
    /\ venue' = [v \in Venue |->
                    IF v = cron.loc /\ venue[v].until # NoTime /\ venue[v].until <= cron.at
                    THEN [venue[v] EXCEPT !.active = FALSE] ELSE venue[v]]
    /\ cron' = NoRun
    /\ UNCHANGED <<now, slot, req>>

\* The instance that runs the cron is restarted.
CronCrash ==
    /\ cron.phase # "idle"
    /\ cron' = NoRun
    /\ UNCHANGED <<now, slot, venue, req>>

Tick ==
    /\ now < MaxTime
    /\ now' = now + 1
    /\ UNCHANGED <<slot, venue, req, cron>>

Next ==
    \/ \E r \in Req, v \in Venue : Load(r, v)
    \/ \E r \in Req : Seize(r) \/ SaveSponsor(r) \/ SavePurchase(r) \/ Crash(r)
    \/ CronStart
    \/ CronRelease
    \/ CronClear
    \/ CronCrash
    \/ Tick

Spec == Init /\ [][Next]_vars

\* The clock runs, the cron is started every five minutes and, unless its instance
\* restarts for ever, some run of it gets to its end.  No request need make progress.
FairSpec ==
    /\ Spec
    /\ WF_vars(Tick)
    /\ WF_vars(CronStart)
    /\ SF_vars(CronRelease)
    /\ WF_vars(CronClear)

-------------------------------------------------------------------------------
(* Properties *)

\* What the venue list shows in first place: active, and a term to come
\* (controllers/location.controller.js).
Sponsored(v) == venue[v].active /\ venue[v].until > now

\* One sponsored venue at a time, whatever owners do at once, when the cron runs
\* or dies, and wherever a handler stops between the slot and the venue.
OneSponsor == \A v, w \in Venue : Sponsored(v) /\ Sponsored(w) => v = w

\* Who paid for a term keeps it to its end: neither another owner nor the cron,
\* late or early, takes it away.  The only writer that may is an activation of
\* the same venue still unfinished after its own term has ended.
Overdue(v) ==
    \E r \in Req : req[r].phase = "seized" /\ req[r].loc = v /\ req[r].at + Lease <= now

SponsorKeepsTerm ==
    [][\A v \in Venue : Sponsored(v) /\ ~Overdue(v) =>
            venue'[v].active /\ venue'[v].until = venue[v].until]_vars

\* The slot is not lost: an activation that died after it took the slot, or a cron
\* that died, does not keep the other owners out for ever.
SlotComesBack == <>[](slot.loc = NoVenue)
===============================================================================
