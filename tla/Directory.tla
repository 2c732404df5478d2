------------------------------- MODULE Directory -------------------------------
(***************************************************************************)
(* The directory of venues and who owns them: the synchronisation with     *)
(* OpenStreetMap (controllers/location.controller.js), the claim of a      *)
(* venue by a professional and its approval by a moderator                 *)
(* (services/businessClaim.service.js), the activation of the account      *)
(* (services/auth.service.js) and its end (businessBilling.controller.js,  *)
(* gdpr.controller.js).  Claims, accounts and venues are three             *)
(* collections, read and written one after the other.                      *)
(*                                                                         *)
(* A venue is "pro" when it has an owner: both fields are always written   *)
(* together.                                                               *)
(***************************************************************************)
CONSTANTS
    Venue,     \* bound: the documents of venues ever created
    Manual,    \* those without an OpenStreetMap id, entered by a script
    Email,     \* addresses of applicants
    Account,   \* bound: the business accounts ever created
    Claim,     \* bound: the claims ever created
    Req,       \* bound: requests in progress at once
    None, Gone \* no document yet, deleted document

VARIABLES
    venue,     \* the venues
    account,   \* the business accounts
    claim,     \* the claims
    req        \* the requests in progress

vars == <<venue, account, claim, req>>

\* The only way in is the link mailed: a new account has none yet, or has lost it.
AccountDocument == [email : Email, state : {"new", "invited", "active"}]

ClaimDocument == [venue : Venue, email : Email, status : {"pending", "approved", "rejected"},
                  user : Account \cup {None}]

Request == [op : {"apply", "reject", "approve", "leave"},
            phase : {"pending", "create", "email", "user", "venue", "claim", "mail",
                     "release", "delete"},
            claim : Claim \cup {None},
            venues : SUBSET Venue,            \* applied for, or still to be released
            email : Email \cup {None},
            user : Account \cup {None}]

TypeOK ==
    /\ venue \in [Venue -> Account \cup {"unowned", None, Gone}]
    /\ account \in [Account -> AccountDocument \cup {None, Gone}]
    /\ claim \in [Claim -> ClaimDocument \cup {None}]
    /\ req \in [Req -> Request \cup {None}]

Init ==
    /\ venue = [v \in Venue |-> IF v \in Manual THEN "unowned" ELSE None]
    /\ account = [u \in Account |-> None]
    /\ claim = [c \in Claim |-> None]
    /\ req = [r \in Req |-> None]

-------------------------------------------------------------------------------

Here(v) == venue[v] \notin {None, Gone}

Exists(u) == account[u] \notin {None, Gone}

Owned(u) == {v \in Venue : venue[v] = u}

Starts(r, op, phase, c, venues, e, u) ==
    /\ req[r] = None
    /\ req' = [req EXCEPT ![r] = [op |-> op, phase |-> phase, claim |-> c, venues |-> venues,
                                  email |-> e, user |-> u]]
    /\ UNCHANGED <<venue, account, claim>>

In(r, op, phase) == req[r] # None /\ req[r].op = op /\ req[r].phase = phase

Goes(r, phase) == req' = [req EXCEPT ![r].phase = phase]

Ends(r) == req' = [req EXCEPT ![r] = None]

-------------------------------------------------------------------------------
\* The synchronisation: updates by OpenStreetMap id, which leave the owner alone

\* An upsert of a place that no document has yet.
Seed(v) ==
    /\ venue[v] = None
    /\ venue' = [venue EXCEPT ![v] = "unowned"]
    /\ UNCHANGED <<account, claim, req>>

\* Places that OpenStreetMap no longer lists in the area.
Purge(v) ==
    /\ v \notin Manual /\ venue[v] = "unowned"
    /\ venue' = [venue EXCEPT ![v] = Gone]
    /\ UNCHANGED <<account, claim, req>>

\* Places without an OpenStreetMap id and with less than three stars, and any marked
\* shouldDelete, be they owned or not.
Cleanup(v) ==
    /\ Here(v)
    /\ venue' = [venue EXCEPT ![v] = Gone]
    /\ UNCHANGED <<account, claim, req>>

-------------------------------------------------------------------------------
\* Claims

Apply(r, v, e) ==
    /\ venue[v] = "unowned"
    /\ Starts(r, "apply", "pending", None, {v}, e, None)

ApplyPending(r) ==
    /\ In(r, "apply", "pending")
    /\ \A c \in Claim : claim[c] # None /\ claim[c].status = "pending" =>
         claim[c].venue \notin req[r].venues
    /\ Goes(r, "create")
    /\ UNCHANGED <<venue, account, claim>>

ApplyCreate(r, c) ==
    /\ In(r, "apply", "create")
    /\ claim[c] = None
    /\ \E v \in req[r].venues :
         claim' = [claim EXCEPT ![c] = [venue |-> v, email |-> req[r].email,
                                        status |-> "pending", user |-> None]]
    /\ Ends(r)
    /\ UNCHANGED <<venue, account>>

\* A moderator decides.
Decide(r, c, verdict) ==
    /\ claim[c] # None /\ claim[c].status = "pending"
    /\ Starts(r, verdict, IF verdict = "approve" THEN "email" ELSE "claim",
              c, {}, claim[c].email, None)

Reject(r) ==
    /\ In(r, "reject", "claim")
    /\ claim' = [claim EXCEPT ![req[r].claim].status = "rejected"]
    /\ Ends(r)
    /\ UNCHANGED <<venue, account>>

Taken(e) == \E u \in Account : Exists(u) /\ account[u].email = e

\* Mutant of Owner: an applicant who has a business account keeps it.
Owner_Known(e) ==
    IF Taken(e) THEN {u \in Account : Exists(u) /\ account[u].email = e}
    ELSE {u \in Account : account[u] = None}

\* The account an approval makes the owner: a new one, else the approval fails.
Owner(e) == IF Taken(e) THEN {} ELSE {u \in Account : account[u] = None}

LookUp(r) ==
    /\ In(r, "approve", "email")
    /\ Owner(req[r].email) # {}
    /\ Goes(r, "user")
    /\ UNCHANGED <<venue, account, claim>>

\* The address is unique: of two approvals together one fails.
CreateUser(r) ==
    /\ In(r, "approve", "user")
    /\ \E u \in Owner(req[r].email) :
         /\ account' = [account EXCEPT ![u] = [email |-> req[r].email, state |-> "new"]]
         /\ req' = [req EXCEPT ![r].user = u, ![r].phase = "venue"]
    /\ UNCHANGED <<venue, claim>>

\* If it stops after CreateUser, the claim stays pending but its address is taken.
\* Whoever owned the venue is replaced.
GiveVenue(r) ==
    /\ In(r, "approve", "venue")
    /\ LET v == claim[req[r].claim].venue
       IN  venue' = IF Here(v) THEN [venue EXCEPT ![v] = req[r].user] ELSE venue
    /\ Goes(r, "claim")
    /\ UNCHANGED <<account, claim>>

Approve(r) ==
    /\ In(r, "approve", "claim")
    /\ claim' = [claim EXCEPT ![req[r].claim].status = "approved", ![req[r].claim].user = req[r].user]
    /\ Goes(r, "mail")
    /\ UNCHANGED <<venue, account>>

Invite(r) ==
    /\ In(r, "approve", "mail")
    /\ account' = [account EXCEPT ![req[r].user].state = "invited"]
    /\ Ends(r)
    /\ UNCHANGED <<venue, claim>>

-------------------------------------------------------------------------------
\* The account

\* The token is looked up and then cleared by a save; a second activation together with
\* this one only sets the password again.
Activate(u) ==
    /\ Exists(u) /\ account[u].state = "invited"
    /\ account' = [account EXCEPT ![u].state = "active"]
    /\ UNCHANGED <<venue, claim, req>>

\* After seven days; nobody can ask for another link.
Expire(u) ==
    /\ Exists(u) /\ account[u].state = "invited"
    /\ account' = [account EXCEPT ![u].state = "new"]
    /\ UNCHANGED <<venue, claim, req>>

SignedIn(u) == Exists(u) /\ account[u].state = "active"

Leave(r, u) ==
    /\ SignedIn(u)
    /\ Starts(r, "leave", "release", None, Owned(u), None, u)

\* A venue is saved without an owner, whoever owns it now; saving a deleted one fails.
Release(r, v) ==
    /\ In(r, "leave", "release") /\ v \in req[r].venues
    /\ Here(v)
    /\ venue' = [venue EXCEPT ![v] = "unowned"]
    /\ req' = [req EXCEPT ![r].venues = @ \ {v}]
    /\ UNCHANGED <<account, claim>>

Released(r) ==
    /\ In(r, "leave", "release") /\ req[r].venues = {}
    /\ Goes(r, "delete")
    /\ UNCHANGED <<venue, account, claim>>

DeleteUser(r) ==
    /\ In(r, "leave", "delete")
    /\ account' = [account EXCEPT ![req[r].user] = Gone]
    /\ Ends(r)
    /\ UNCHANGED <<venue, claim>>

\* The application's own deletion knows of no venue: it stays pro, with nobody to own it.
Erase(u) ==
    /\ SignedIn(u)
    /\ account' = [account EXCEPT ![u] = Gone]
    /\ UNCHANGED <<venue, claim, req>>

\* A refusal, a failed call or a crash.
Fails(r) ==
    /\ req[r] # None
    /\ Ends(r)
    /\ UNCHANGED <<venue, account, claim>>

-------------------------------------------------------------------------------

Next ==
    \/ \E v \in Venue : Seed(v) \/ Purge(v) \/ Cleanup(v)
    \/ \E u \in Account : Activate(u) \/ Expire(u) \/ Erase(u)
    \/ \E r \in Req :
         \/ \E v \in Venue : Release(r, v) \/ \E e \in Email : Apply(r, v, e)
         \/ \E c \in Claim : \/ ApplyCreate(r, c)
                             \/ \E verdict \in {"approve", "reject"} : Decide(r, c, verdict)
         \/ \E u \in Account : Leave(r, u)
         \/ ApplyPending(r) \/ Reject(r) \/ LookUp(r) \/ CreateUser(r) \/ GiveVenue(r)
         \/ Approve(r) \/ Invite(r) \/ Released(r) \/ DeleteUser(r) \/ Fails(r)

Spec == Init /\ [][Next]_vars

-------------------------------------------------------------------------------

\* Venues and business accounts are one to one, as getMyLocation and requireLocationOwner
\* take it, and whoever can sign in got there by a claim of that venue that was recorded:
\* whichever claims, approvals and deletions run together and wherever one stops.
OneToOne ==
    \A u \in Account :
        /\ \A v, w \in Owned(u) : v = w
        /\ Exists(u) /\ account[u].state # "new" =>
             \E c \in Claim : claim[c] # None /\ claim[c].user = u /\ Owned(u) \subseteq {claim[c].venue}
===============================================================================
