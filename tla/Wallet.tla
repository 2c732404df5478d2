-------------------------------- MODULE Wallet --------------------------------
(***************************************************************************)
(* What a user has to spend (controllers/premium.controller.js,            *)
(* iap.controller.js): the premium flag, its trial, the balances of        *)
(* superlikes and of boosts, fed by the store, a weekly allowance, the     *)
(* streak and a cron.  A handler loads the user, and saves the values it   *)
(* computed from what it loaded; the streak and the cron increment.        *)
(*                                                                         *)
(* What a boost does to the presence, and what it requires of it, is in    *)
(* Presence; how the referral programme moves the premium flag, in         *)
(* Referral.                                                               *)
(***************************************************************************)
EXTENDS Integers

CONSTANTS
    User,        \* those who can be sent a superlike
    Floor,       \* the weekly allowance tops the superlikes up to this
    Pack,        \* sizes of the packs the store sells
    MaxBalance,  \* bound: nobody buys beyond this
    Req,         \* bound: requests in progress at once
    None

VARIABLES
    wallet,    \* these fields of the user's document
    due,       \* the last allowance is a week old
    sent,      \* the superlikes sent, by target
    req,       \* the requests in progress
    charged    \* the targets a superlike was charged for (not in the code)

vars == <<wallet, due, sent, req, charged>>

Balance == {"superlikes", "boosts"}

Document == [premium : BOOLEAN,
             trial : BOOLEAN,     \* premiumTrialEnd is in the future
             boosted : BOOLEAN,   \* boostUntil is in the future
             superlikes : Int, boosts : Int]

Request == [op : {"trial", "premium", "free", "pack", "allowance", "superlike", "create",
                  "boost", "mock"},
            balance : Balance,             \* the one to change
            seen : Int,                    \* what it was when loaded
            arg : User \cup Pack \cup {None}]

TypeOK ==
    /\ wallet \in Document
    /\ due \in BOOLEAN
    /\ sent \in [User -> {None, "pending", "accepted"}]
    /\ req \in [Req -> Request \cup {None}]
    /\ charged \subseteq User

Init ==
    /\ wallet = [premium |-> FALSE, trial |-> FALSE, boosted |-> FALSE, superlikes |-> 0, boosts |-> 0]
    /\ due = TRUE
    /\ sent = [u \in User |-> None]
    /\ req = [r \in Req |-> None]
    /\ charged = {}

-------------------------------------------------------------------------------

Starts(r, op, balance, arg) ==
    /\ req[r] = None
    /\ req' = [req EXCEPT ![r] = [op |-> op, balance |-> balance, seen |-> wallet[balance], arg |-> arg]]
    /\ UNCHANGED <<wallet, due, sent, charged>>

In(r, ops) == req[r] # None /\ req[r].op \in ops

\* The fields a handler assigned are written, the others kept.
Saves(r, document) ==
    /\ wallet' = document
    /\ req' = [req EXCEPT ![r] = None]

\* Mutant of Left: the balance is decremented in the database.
Left_Decremented(now, seen) == now - 1

Left(now, seen) == seen - 1

-------------------------------------------------------------------------------
\* Premium: a trial, the store's events, an administrator

\* A premium user, or one whose trial runs, gets no other; after that, another trial starts.
StartTrial(r) ==
    /\ ~wallet.premium /\ ~wallet.trial
    /\ Starts(r, "trial", "boosts", None)

StartTrialSave(r) ==
    /\ In(r, {"trial"})
    /\ Saves(r, [wallet EXCEPT !.premium = TRUE, !.trial = TRUE])
    /\ UNCHANGED <<due, sent, charged>>

\* Nothing takes the flag away with the trial.
TrialEnds ==
    /\ wallet.trial
    /\ wallet' = [wallet EXCEPT !.trial = FALSE]
    /\ UNCHANGED <<due, sent, req, charged>>

\* The store's events on a subscription; an event that changes nothing is left out.
Subscription(r, premium) ==
    /\ wallet.premium # premium
    /\ Starts(r, IF premium THEN "premium" ELSE "free", "boosts", None)

SetRole(r) ==
    /\ In(r, {"premium", "free"})
    /\ Saves(r, [wallet EXCEPT !.premium = req[r].op = "premium"])
    /\ UNCHANGED <<due, sent, charged>>

-------------------------------------------------------------------------------
\* Income

\* A pack bought, as often as the store delivers the event.
BuyPack(r, balance, n) ==
    /\ wallet[balance] + n <= MaxBalance
    /\ Starts(r, "pack", balance, n)

BuyPackSave(r) ==
    /\ In(r, {"pack"})
    /\ Saves(r, [wallet EXCEPT ![req[r].balance] = req[r].seen + req[r].arg])
    /\ UNCHANGED <<due, sent, charged>>

\* The Monday cron gives a boost to the premium, the streak either.
Gift(balance) ==
    /\ wallet[balance] < MaxBalance
    /\ wallet' = [wallet EXCEPT ![balance] = @ + 1]
    /\ UNCHANGED <<due, sent, req, charged>>

GetWeeklyAllowance(r) ==
    /\ wallet.premium /\ due
    /\ Starts(r, "allowance", "superlikes", None)

\* A balance at the floor or above is not assigned another value, and so not written.
GetWeeklyAllowanceSave(r) ==
    /\ In(r, {"allowance"})
    /\ Saves(r, [wallet EXCEPT !.superlikes = IF req[r].seen < Floor THEN Floor ELSE @])
    /\ due' = FALSE
    /\ UNCHANGED <<sent, charged>>

WeekPasses ==
    /\ ~due /\ due' = TRUE
    /\ UNCHANGED <<wallet, sent, req, charged>>

-------------------------------------------------------------------------------
\* Expenses

SendSuperlike(r, u) ==
    /\ sent[u] = None
    /\ wallet.superlikes > 0
    /\ Starts(r, "superlike", "superlikes", u)

SendSuperlikeSave(r) ==
    /\ In(r, {"superlike"})
    /\ wallet' = [wallet EXCEPT !.superlikes = Left(@, req[r].seen)]
    /\ req' = [req EXCEPT ![r].op = "create", ![r].seen = 0]
    /\ charged' = charged \cup {req[r].arg}
    /\ UNCHANGED <<due, sent>>

\* Unique for a sender and a target: the second fails, and its charge is not undone.
SendSuperlikeCreate(r) ==
    /\ In(r, {"create"})
    /\ sent[req[r].arg] = None
    /\ sent' = [sent EXCEPT ![req[r].arg] = "pending"]
    /\ req' = [req EXCEPT ![r] = None]
    /\ UNCHANGED <<wallet, due, charged>>

AcceptSuperlike(u) ==
    /\ sent[u] = "pending"
    /\ sent' = [sent EXCEPT ![u] = "accepted"]
    /\ UNCHANGED <<wallet, due, req, charged>>

ActivateBoost(r, mock) ==
    /\ ~wallet.boosted
    /\ mock \/ wallet.boosts > 0
    /\ Starts(r, IF mock THEN "mock" ELSE "boost", "boosts", None)

ActivateBoostSave(r) ==
    /\ In(r, {"boost", "mock"})
    /\ Saves(r, [wallet EXCEPT !.boosted = TRUE,
                  !.boosts = IF req[r].op = "mock" THEN @ ELSE Left(@, req[r].seen)])
    /\ UNCHANGED <<due, sent, charged>>

BoostEnds ==
    /\ wallet.boosted
    /\ wallet' = [wallet EXCEPT !.boosted = FALSE]
    /\ UNCHANGED <<due, sent, req, charged>>

\* A failed call or a crash.
Fails(r) ==
    /\ req[r] # None
    /\ req' = [req EXCEPT ![r] = None]
    /\ UNCHANGED <<wallet, due, sent, charged>>

-------------------------------------------------------------------------------

Next ==
    \/ \E r \in Req :
         \/ StartTrial(r) \/ StartTrialSave(r) \/ SetRole(r)
         \/ \E premium \in BOOLEAN : Subscription(r, premium)
         \/ \E balance \in Balance, n \in Pack : BuyPack(r, balance, n)
         \/ BuyPackSave(r) \/ GetWeeklyAllowance(r) \/ GetWeeklyAllowanceSave(r)
         \/ \E u \in User : SendSuperlike(r, u)
         \/ SendSuperlikeSave(r) \/ SendSuperlikeCreate(r)
         \/ \E mock \in BOOLEAN : ActivateBoost(r, mock)
         \/ ActivateBoostSave(r) \/ Fails(r)
    \/ \E balance \in Balance : Gift(balance)
    \/ \E u \in User : AcceptSuperlike(u)
    \/ TrialEnds \/ WeekPasses \/ BoostEnds

Spec == Init /\ [][Next]_vars

-------------------------------------------------------------------------------

\* No request, however it overlaps with others and wherever it stops, spends what is not
\* there: no balance falls below zero, and each superlike its target was shown was charged.
NothingForFree ==
    /\ wallet.superlikes >= 0 /\ wallet.boosts >= 0
    /\ \A u \in User : sent[u] # None => u \in charged
===============================================================================
