-------------------------- MODULE SponsorshipProofs --------------------------
(***************************************************************************)
(* What Sponsorship promises for any number of venues and requests, any    *)
(* balances and any length of the term.                                    *)
(***************************************************************************)
EXTENDS Sponsorship, TLAPS

USE VenueAssumption DEF MaybeVenue, NoTime

-------------------------------------------------------------------------------
(* The inductive invariant *)

\* What is known of a handler, or of the cron, between two of its awaits: when it
\* started, which venue it loaded, and that an activation had a credit to spend.
InFlightOK ==
    /\ cron.at <= now
    /\ \A r \in Req :
          /\ req[r].at <= now
          /\ req[r].phase \in {"read", "seized"} =>
                /\ req[r].loc \in Venue
                /\ req[r].kind = "activate" => req[r].credits > 0
          /\ req[r].phase = "seized" => req[r].kind = "activate"

\* A term to come, written in a venue or about to be, is the one in the slot.
TermInSlot ==
    /\ \A v \in Venue : venue[v].until > now => slot = [loc |-> v, until |-> venue[v].until]
    /\ \A r \in Req : req[r].phase = "seized" /\ req[r].at + Lease > now
          => slot = [loc |-> req[r].loc, until |-> req[r].at + Lease]

SlotInv == TypeOK /\ InFlightOK /\ TermInSlot

LEMMA InitSlotInv == Init => SlotInv
<1>1. 0 .. Cap \subseteq Nat
  BY TimeAssumption
<1>2. SUFFICES ASSUME Init PROVE SlotInv
  OBVIOUS
<1>3. PICK k \in [Req -> {"activate", "purchase"}] : req = [r \in Req |-> NewReq(k[r])]
  BY <1>2 DEF Init
<1>4. TypeOK
  <2>1. venue \in [Venue -> Offer]
    <3> DEFINE Offers == {[active |-> FALSE, until |-> NoTime, credits |-> c] : c \in 0 .. Cap}
    <3>1. ASSUME NEW o \in Offers
          PROVE  o \in Offer
      <4>1. PICK c \in 0 .. Cap : o = [active |-> FALSE, until |-> NoTime, credits |-> c]
        OBVIOUS
      <4>2. c \in Nat
        BY <1>1
      <4>3. QED
        BY <4>1, <4>2 DEF Offer
    <3>2. venue \in [Venue -> Offers]
      BY <1>2 DEF Init
    <3> HIDE DEF Offers
    <3>3. QED
      BY <3>1, <3>2
  <2>2. req \in [Req -> Request]
    BY <1>3 DEF NewReq, Request
  <2>3. slot \in Slot /\ cron \in CronRun /\ now \in Nat \ {0}
    BY <1>2 DEF Init, Slot, CronRun, NoRun
  <2>4. QED
    BY <2>1, <2>2, <2>3 DEF TypeOK
<1>5. InFlightOK
  BY <1>2, <1>3 DEF Init, InFlightOK, NewReq, NoRun
<1>6. TermInSlot
  BY <1>1, <1>2, <1>3 DEF Init, TermInSlot, NewReq
<1>7. QED
  BY <1>4, <1>5, <1>6 DEF SlotInv

-------------------------------------------------------------------------------
(* What each step writes *)

\* A handler that ends keeps nothing of what it read.
LEMMA FinishOK ==
    ASSUME SlotInv, NEW r \in Req, Finish(r)
    PROVE  /\ req' \in [Req -> Request]
           /\ req'[r].phase = "done" /\ req'[r].at = 0
           /\ \A q \in Req : q # r => req'[q] = req[q]
BY DEF Finish, NewReq, SlotInv, TypeOK, Request

\* A handler ends, at the same time and with the same slot: what was known of the
\* others still is.
LEMMA FinishKeeps ==
    ASSUME SlotInv, NEW r \in Req, Finish(r), UNCHANGED <<now, cron>>
    PROVE  /\ InFlightOK'
           /\ slot' = slot =>
                \A q \in Req : req'[q].phase = "seized" /\ req'[q].at + Lease > now'
                   => slot' = [loc |-> req'[q].loc, until |-> req'[q].at + Lease]
<1>1. InFlightOK'
  BY FinishOK DEF SlotInv, InFlightOK, TypeOK
<1>2. QED
  BY <1>1, FinishOK DEF SlotInv, TermInSlot

LEMMA LoadStep ==
    ASSUME SlotInv, NEW r \in Req, NEW v \in Venue, Load(r, v)
    PROVE  SlotInv'
<1>1. CASE Finish(r)
  BY <1>1, FinishOK, FinishKeeps DEF Load, SlotInv, TypeOK, TermInSlot
<1>2. CASE ~Finish(r)
  <2>1. req' = [req EXCEPT ![r] = [@ EXCEPT !.phase = "read", !.loc = v, !.at = now,
                                            !.credits = venue[v].credits]]
    BY <1>2 DEF Load
  <2>2. req[r].kind = "activate" => venue[v].credits > 0
    BY <1>2 DEF Load, SlotInv, TypeOK, Offer
  <2>3. /\ req' \in [Req -> Request]
        /\ req'[r].phase = "read" /\ req'[r].at = now /\ req'[r].loc = v
        /\ req'[r].kind = req[r].kind /\ req'[r].credits = venue[v].credits
        /\ \A q \in Req : q # r => req'[q] = req[q]
    BY <2>1 DEF SlotInv, TypeOK, Request, Offer
  <2>4. TypeOK'
    BY <2>3 DEF Load, SlotInv, TypeOK
  <2>5. InFlightOK'
    BY <2>2, <2>3 DEF Load, SlotInv, InFlightOK, TypeOK
  <2>6. TermInSlot'
    BY <2>3 DEF Load, SlotInv, TermInSlot
  <2>7. QED
    BY <2>4, <2>5, <2>6 DEF SlotInv
<1>3. QED
  BY <1>1, <1>2

\* The heart of the matter: a slot that the compare-and-swap may take, even with a
\* time stamp of the past, is no venue's and no handler's.
LEMMA FreeSlot ==
    ASSUME SlotInv, NEW t \in Nat, t <= now, Free(t)
    PROVE  /\ \A v \in Venue : ~(venue[v].until > now)
           /\ \A r \in Req : ~(req[r].phase = "seized" /\ req[r].at + Lease > now)
<1>1. now \in Nat /\ Lease \in Nat
  BY TimeAssumption DEF SlotInv, TypeOK
<1>2. ASSUME NEW v \in Venue, venue[v].until > now
      PROVE  FALSE
  BY <1>1, <1>2 DEF Free, SlotInv, TermInSlot, TypeOK, Offer
<1>3. ASSUME NEW r \in Req, req[r].phase = "seized", req[r].at + Lease > now
      PROVE  FALSE
  <2>1. req[r].loc \in Venue /\ req[r].at \in Nat
    BY <1>3 DEF SlotInv, InFlightOK, TypeOK, Request
  <2>2. slot = [loc |-> req[r].loc, until |-> req[r].at + Lease]
    BY <1>3 DEF SlotInv, TermInSlot
  <2>3. QED
    BY <1>1, <1>3, <2>1, <2>2 DEF Free
<1>4. QED
  BY <1>2, <1>3

LEMMA SeizeStep ==
    ASSUME SlotInv, NEW r \in Req, Seize(r)
    PROVE  SlotInv'
<1>0. /\ req[r] \in Request /\ req[r].at <= now /\ req[r].loc \in Venue
      /\ now \in Nat /\ Lease \in Nat /\ req[r].credits > 0
  BY TimeAssumption DEF SlotInv, InFlightOK, TypeOK, Seize
<1>1. CASE slot' = slot /\ Finish(r)
  BY <1>1, FinishOK, FinishKeeps DEF Seize, SlotInv, TypeOK, TermInSlot
<1>2. CASE ~(slot' = slot /\ Finish(r))
  <2>1. /\ Free(req[r].at)
        /\ slot' = [loc |-> req[r].loc, until |-> req[r].at + Lease]
        /\ req' = [req EXCEPT ![r] = [@ EXCEPT !.phase = "seized"]]
        /\ UNCHANGED <<now, venue, cron>>
    BY <1>2 DEF Seize
  <2>2. /\ req' \in [Req -> Request]
        /\ req'[r] = [req[r] EXCEPT !.phase = "seized"]
        /\ \A q \in Req : q # r => req'[q] = req[q]
    BY <2>1 DEF SlotInv, TypeOK, Request
  <2>3. TypeOK'
    BY <1>0, <2>1, <2>2 DEF SlotInv, TypeOK, Slot, Request
  <2>4. InFlightOK'
    <3>1. req'[r].at = req[r].at /\ req'[r].loc = req[r].loc /\ req'[r].phase = "seized"
          /\ req'[r].kind = req[r].kind /\ req'[r].credits = req[r].credits
      BY <1>0, <2>2 DEF Request
    <3>2. QED
      BY <1>0, <2>1, <2>2, <3>1 DEF Seize, SlotInv, InFlightOK
  <2>5. TermInSlot'
    <3>1. req[r].at \in Nat
      BY <1>0 DEF Request
    <3>2. \A v \in Venue : ~(venue'[v].until > now')
      BY <1>0, <2>1, <3>1, FreeSlot
    <3>3. \A q \in Req : q # r => ~(req'[q].phase = "seized" /\ req'[q].at + Lease > now')
      BY <1>0, <2>1, <2>2, <3>1, FreeSlot
    <3>4. slot' = [loc |-> req'[r].loc, until |-> req'[r].at + Lease]
      BY <1>0, <2>1, <2>2 DEF Request
    <3>5. QED
      BY <3>2, <3>3, <3>4 DEF TermInSlot
  <2>6. QED
    BY <2>3, <2>4, <2>5 DEF SlotInv
<1>3. QED
  BY <1>1, <1>2

LEMMA SaveSponsorStep ==
    ASSUME SlotInv, NEW r \in Req, SaveSponsor(r)
    PROVE  SlotInv'
<1>0. /\ req[r] \in Request /\ req[r].loc \in Venue /\ Lease \in Nat
      /\ req[r].credits - 1 \in Nat /\ req[r].phase = "seized" /\ Finish(r)
      /\ UNCHANGED <<now, slot, cron>>
  BY TimeAssumption DEF SlotInv, InFlightOK, TypeOK, SaveSponsor, Request
<1>1. venue' \in [Venue -> Offer]
  BY <1>0 DEF SaveSponsor, SlotInv, TypeOK, Offer, Request
<1>2. /\ venue'[req[r].loc].until = req[r].at + Lease
      /\ \A v \in Venue : v # req[r].loc => venue'[v] = venue[v]
  BY <1>0 DEF SaveSponsor, SlotInv, TypeOK
<1>3. TypeOK'
  BY <1>0, <1>1, FinishOK DEF SlotInv, TypeOK
<1>4. TermInSlot'
  <2>1. ASSUME NEW v \in Venue, venue'[v].until > now'
        PROVE  slot' = [loc |-> v, until |-> venue'[v].until]
    BY <1>0, <1>2, <2>1 DEF SlotInv, TermInSlot
  <2>2. QED
    BY <1>0, <2>1, FinishKeeps DEF TermInSlot
<1>5. QED
  BY <1>0, <1>3, <1>4, FinishKeeps DEF SlotInv

LEMMA SavePurchaseStep ==
    ASSUME SlotInv, NEW r \in Req, SavePurchase(r)
    PROVE  SlotInv'
<1>0. req[r] \in Request /\ req[r].loc \in Venue /\ Finish(r) /\ UNCHANGED <<now, slot, cron>>
  BY DEF SlotInv, InFlightOK, TypeOK, SavePurchase
<1>1. venue' \in [Venue -> Offer] /\ \A v \in Venue : venue'[v].until = venue[v].until
  <2>1. CASE venue' = venue
    BY <2>1 DEF SlotInv, TypeOK
  <2>2. CASE venue' = [venue EXCEPT ![req[r].loc] = [@ EXCEPT !.credits = req[r].credits + 1]]
    BY <1>0, <2>2 DEF SlotInv, TypeOK, Offer, Request
  <2>3. QED
    BY <2>1, <2>2 DEF SavePurchase
<1>2. TypeOK'
  BY <1>0, <1>1, FinishOK DEF SlotInv, TypeOK
<1>3. TermInSlot'
  BY <1>0, <1>1, FinishKeeps DEF SlotInv, TermInSlot
<1>4. QED
  BY <1>0, <1>2, <1>3, FinishKeeps DEF SlotInv

LEMMA CrashStep ==
    ASSUME SlotInv, NEW r \in Req, Crash(r)
    PROVE  SlotInv'
BY FinishOK, FinishKeeps DEF Crash, SlotInv, TypeOK, TermInSlot

\* The cron releases only a term that is over: late it may be, never early.
LEMMA CronStep ==
    ASSUME SlotInv, CronStart \/ CronRelease \/ CronClear \/ CronCrash
    PROVE  SlotInv'
<1>0. now \in Nat /\ cron.at \in Nat /\ cron.at <= now /\ slot \in Slot /\ Lease \in Nat
  BY TimeAssumption DEF SlotInv, InFlightOK, TypeOK, CronRun
<1>1. CASE CronStart
  <2>1. UNCHANGED <<now, slot, venue, req>> /\ cron' \in CronRun /\ cron'.at = now
    BY <1>0, <1>1 DEF CronStart, NoRun, CronRun
  <2>2. QED
    BY <1>0, <2>1 DEF SlotInv, InFlightOK, TermInSlot, TypeOK
<1>2. CASE CronRelease
  <2>1. UNCHANGED <<now, venue, req>> /\ cron' \in CronRun /\ cron'.at <= now
    <3>1. UNCHANGED <<now, venue, req>>
      BY <1>2 DEF CronRelease
    <3>2. CASE cron' = NoRun
      BY <1>0, <3>1, <3>2 DEF NoRun, CronRun
    <3>3. CASE cron' = [cron EXCEPT !.phase = "released", !.loc = slot.loc]
      <4>1. cron \in CronRun /\ slot.loc \in MaybeVenue
        BY <1>0 DEF SlotInv, TypeOK, Slot
      <4>2. QED
        BY <1>0, <3>1, <3>3, <4>1 DEF CronRun
    <3>4. QED
      BY <1>2, <3>1, <3>2, <3>3 DEF CronRelease
  <2>2. CASE slot' = slot
    BY <2>1, <2>2 DEF SlotInv, TypeOK, InFlightOK, TermInSlot
  <2>3. CASE slot' # slot
    <3>1. slot' = [loc |-> NoVenue, until |-> NoTime] /\ slot.until <= cron.at
      BY <1>2, <2>3 DEF CronRelease
    <3>2. Free(now)
      BY <1>0, <3>1 DEF Free, Slot
    <3>3. TermInSlot'
      BY <1>0, <2>1, <3>2, FreeSlot DEF TermInSlot
    <3>4. QED
      BY <2>1, <3>1, <3>3 DEF SlotInv, TypeOK, InFlightOK, Slot
  <2>4. QED
    BY <2>2, <2>3
<1>3. CASE CronClear
  <2>1. /\ UNCHANGED <<now, slot, req>> /\ cron' = NoRun
        /\ venue' \in [Venue -> Offer] /\ \A v \in Venue : venue'[v].until = venue[v].until
    BY <1>3 DEF CronClear, SlotInv, TypeOK, Offer
  <2>2. QED
    BY <1>0, <2>1 DEF NoRun, SlotInv, TypeOK, CronRun, InFlightOK, TermInSlot
<1>4. CASE CronCrash
  BY <1>0, <1>4 DEF CronCrash, NoRun, SlotInv, TypeOK, CronRun, InFlightOK, TermInSlot
<1>5. QED
  BY <1>1, <1>2, <1>3, <1>4

LEMMA TickStep ==
    ASSUME SlotInv, Tick
    PROVE  SlotInv'
<1>1. now \in Nat \ {0} /\ Lease \in Nat /\ now' = now + 1 /\ UNCHANGED <<slot, venue, req, cron>>
  BY TimeAssumption DEF SlotInv, TypeOK, Tick
<1>2. TypeOK'
  BY <1>1 DEF SlotInv, TypeOK
<1>3. InFlightOK'
  BY <1>1 DEF SlotInv, TypeOK, InFlightOK, Request, CronRun
<1>4. TermInSlot'
  BY <1>1 DEF SlotInv, TypeOK, TermInSlot, Request, Offer
<1>5. QED
  BY <1>2, <1>3, <1>4 DEF SlotInv

LEMMA NextSlotInv == SlotInv /\ [Next]_vars => SlotInv'
<1> SUFFICES ASSUME SlotInv, [Next]_vars
             PROVE  SlotInv'
  OBVIOUS
<1>1. ASSUME NEW r \in Req,
             Seize(r) \/ SaveSponsor(r) \/ SavePurchase(r) \/ Crash(r)
      PROVE  SlotInv'
  BY <1>1, SeizeStep, SaveSponsorStep, SavePurchaseStep, CrashStep
<1>2. CASE UNCHANGED vars
  BY <1>2 DEF vars, SlotInv, TypeOK, InFlightOK, TermInSlot
<1>3. QED
  BY <1>1, <1>2, LoadStep, CronStep, TickStep DEF Next

LEMMA SlotInvariant == Spec => []SlotInv
BY InitSlotInv, NextSlotInv, PTL DEF Spec

-------------------------------------------------------------------------------
(* The theorems *)

\* The slot, the venues and what the handlers and the cron remember keep their
\* types; no balance becomes negative.
THEOREM TypeCorrect == Spec => []TypeOK
<1>1. SlotInv => TypeOK
  BY DEF SlotInv
<1>2. QED
  BY <1>1, SlotInvariant, PTL

\* Never two sponsored venues, although the slot and the venue are written apart and
\* any handler, and the cron, may stop in between.
THEOREM OneSponsorAlways == Spec => []OneSponsor
<1>1. SlotInv => OneSponsor
  <2> SUFFICES ASSUME SlotInv, NEW v \in Venue, NEW w \in Venue, Sponsored(v), Sponsored(w)
               PROVE  v = w
    BY DEF OneSponsor
  <2>1. slot.loc = v /\ slot.loc = w
    BY DEF SlotInv, TermInSlot, Sponsored
  <2>2. QED
    BY <2>1
<1>2. QED
  BY <1>1, SlotInvariant, PTL

\* A term is neither ended nor moved before it is over, but by an activation of the
\* same venue that outlived its own term.
THEOREM TermKept == Spec => SponsorKeepsTerm
<1>1. SlotInv /\ [Next]_vars =>
        [\A v \in Venue : Sponsored(v) /\ ~Overdue(v) =>
            venue'[v].active /\ venue'[v].until = venue[v].until]_vars
  <2> SUFFICES ASSUME SlotInv, [Next]_vars, NEW v \in Venue, Sponsored(v), ~Overdue(v)
               PROVE  venue'[v].active /\ venue'[v].until = venue[v].until
    OBVIOUS
  <2>0. /\ venue \in [Venue -> Offer] /\ now \in Nat /\ venue[v].until \in Nat
        /\ Lease \in Nat /\ venue[v].active
    BY TimeAssumption DEF SlotInv, TypeOK, Offer, Sponsored
  <2>1. ASSUME NEW r \in Req, SaveSponsor(r)
        PROVE  venue'[v].active /\ venue'[v].until = venue[v].until
    <3>1. CASE req[r].loc = v
      <4>1. req[r].phase = "seized" /\ req[r].at \in Nat
        BY <2>1 DEF SaveSponsor, SlotInv, TypeOK, Request
      <4>2. req[r].at + Lease > now
        BY <2>0, <3>1, <4>1 DEF Overdue
      <4>3. slot.until = req[r].at + Lease
        BY <4>1, <4>2 DEF SlotInv, TermInSlot
      <4>4. slot.until = venue[v].until
        BY DEF Sponsored, SlotInv, TermInSlot
      <4>5. QED
        BY <2>0, <2>1, <3>1, <4>3, <4>4 DEF SaveSponsor
    <3>2. CASE req[r].loc # v
      BY <2>0, <2>1, <3>2 DEF SaveSponsor
    <3>3. QED
      BY <3>1, <3>2
  <2>2. ASSUME NEW r \in Req, SavePurchase(r)
        PROVE  venue'[v].active /\ venue'[v].until = venue[v].until
    BY <2>0, <2>2 DEF SavePurchase, Offer
  <2>3. CASE CronClear
    <3>1. ~(venue[v].until <= cron.at)
      BY <2>0 DEF SlotInv, TypeOK, InFlightOK, CronRun, Sponsored
    <3>2. QED
      BY <2>0, <2>3, <3>1 DEF CronClear
  <2>4. CASE venue' = venue
    BY <2>0, <2>4
  <2>5. QED
    BY <2>1, <2>2, <2>3, <2>4
       DEF Next, vars, Load, Seize, Crash, CronStart, CronRelease, CronCrash, Tick
<1>2. QED
  BY <1>1, SlotInvariant, PTL DEF Spec, SponsorKeepsTerm

===============================================================================
