-------------------------------- MODULE Account --------------------------------
(***************************************************************************)
(* Accounts: sign-up, the links mailed to prove an address or to reset a   *)
(* password, sign-in, the change of address and of password, deletion      *)
(* (services/auth.service.js, controllers/auth.controller.js,              *)
(* middlewares/auth.js, gdpr.controller.js).  A handler reads the user's   *)
(* document, changes it in memory and saves what it changed; in between,   *)
(* the account's other requests run, or the process dies.  The link that   *)
(* verifies an address and the one that confirms a new one share a field.  *)
(*                                                                         *)
(* One account is followed, with one device: "session" is its refresh      *)
(* token.  A refused request (wrong password, banned, an address that      *)
(* another account has, an unknown or expired link) changes nothing and    *)
(* is not modelled.                                                        *)
(***************************************************************************)
CONSTANTS
    Addr,      \* e-mail addresses
    Pwd,       \* passwords
    Req,       \* bound: requests in progress at once
    None, Gone \* no document yet, deleted document

VARIABLES
    account,   \* the document
    link,      \* the mailed link whose token is stored; the other links open nothing
    session,   \* is there a valid refresh token
    access,    \* is there a valid access token
    req,       \* the requests in progress
    proved,    \* the addresses where a link was mailed and followed
    crossed    \* the others confirmed with a link that verifies another address
               \* (neither is in the code)

vars == <<account, link, session, access, req, proved, crossed>>

Document == [email : Addr, verified : BOOLEAN, password : Pwd,
             hash : Req \cup {None},       \* emailVerifyTokenHash: the request that drew it;
                                           \* None once expired
             pending : Addr \cup {None},   \* pendingEmail
             reset : BOOLEAN]              \* is there a valid pwdResetTokenHash

Link == [to : Addr, kind : {"verify", "confirm"}]

Request ==
    [op : {"signup", "login", "forgot", "reset", "password", "address", "verify",
           "confirm", "delete"},
     phase : {"save", "mail", "session", "tokens", "remove"},
     seen : Document \cup {None},          \* the document as it was read, until its save
     arg : Addr \cup Pwd \cup {None}]      \* the new password, the address to write or mail to

ASSUME NoneAssumption ==
    /\ None \notin Addr \cup Req \cup Link \cup Request
    /\ {None, Gone} \cap Document = {} /\ None # Gone

TypeOK ==
    /\ account \in Document \cup {None, Gone}
    /\ link \in Link \cup {None}
    /\ session \in BOOLEAN /\ access \in BOOLEAN
    /\ req \in [Req -> Request \cup {None}]
    /\ proved \subseteq Addr /\ crossed \subseteq Addr

Init ==
    /\ account = None
    /\ link = None
    /\ session = FALSE /\ access = FALSE
    /\ req = [r \in Req |-> None]
    /\ proved = {} /\ crossed = {}

-------------------------------------------------------------------------------

Exists == account \notin {None, Gone}

\* requireAuth: a valid access token, and the account is still there.
Authenticated == access /\ Exists

Starts(r, op, phase, arg) ==
    /\ req[r] = None
    /\ req' = [req EXCEPT ![r] = [op |-> op, phase |-> phase, arg |-> arg,
                                  seen |-> IF phase = "save" THEN account ELSE None]]
    /\ UNCHANGED <<account, link, session, access>>

Goes(r, phase) == req' = [req EXCEPT ![r].phase = phase]

Mails(r, to) ==
    req' = [req EXCEPT ![r] = [op |-> req[r].op, phase |-> "mail", seen |-> None, arg |-> to]]

Ends(r) == req' = [req EXCEPT ![r] = None]

In(r, ops, phase) == req[r] # None /\ req[r].op \in ops /\ req[r].phase = phase

\* Mutant of Kept: the fields not assigned are written too, as they were read.
Kept_AsRead(now, seen) == seen

\* The fields a save leaves alone: Mongoose writes those the handler assigned.
Kept(now, seen) == now

Doc(r) == Kept(account, req[r].seen)

\* save() fails if the document was deleted, or for an address taken meanwhile,
\* by another account or by the same sign-up sent twice.
Saves(r, doc, open) ==
    /\ Exists
    /\ account' = doc
    /\ link' = open
    /\ UNCHANGED <<session, access, proved, crossed>>

SaveFails(r) ==
    /\ req[r] # None /\ req[r].phase = "save"
    /\ \/ account = Gone
       \/ req[r].op = "signup" /\ req[r].seen = None
       \/ req[r].op = "confirm"
    /\ Ends(r)
    /\ UNCHANGED <<account, link, session, access, proved, crossed>>

-------------------------------------------------------------------------------
\* Sign-up and sign-in

\* The sign-ups of one person with two addresses are two accounts.
Signup(r, e) ==
    /\ account = None
    /\ \A q \in Req : In(q, {"signup"}, "save") => req[q].arg = e
    /\ Starts(r, "signup", "save", e)
    /\ UNCHANGED <<proved, crossed>>

\* Mutant of NewDocument: the schema has no default for the flag.
NewDocument_NoDefault(e, p) ==
    [email |-> e, verified |-> None, password |-> p,
     hash |-> None, pending |-> None, reset |-> FALSE]

NewDocument(e, p) ==
    [email |-> e, verified |-> FALSE, password |-> p,
     hash |-> None, pending |-> None, reset |-> FALSE]

Create(r) ==
    /\ In(r, {"signup"}, "save") /\ account = None
    /\ \E p \in Pwd :
         account' = NewDocument(req[r].arg, p)
    /\ req' = [req EXCEPT ![r].seen = account', ![r].arg = None]
    /\ UNCHANGED <<link, session, access, proved, crossed>>

\* Mutant of NeedsLink: a link is mailed again only when none is stored.
NeedsLink_OnlyOnce(doc) == ~doc.verified /\ doc.hash = None

NeedsLink(doc) == ~doc.verified

\* A verified account gets its tokens; another gets a new link, and no token.
Login(r) ==
    /\ Exists
    /\ \/ account.verified /\ Starts(r, "login", "session", None)
       \/ NeedsLink(account) /\ Starts(r, "login", "save", None)
    /\ UNCHANGED <<proved, crossed>>

\* createAndSendEmailVerification: the token is saved, then the link is mailed.
IssueLink(r) ==
    /\ In(r, {"signup", "login"}, "save") /\ req[r].seen # None
    /\ Saves(r, [Doc(r) EXCEPT !.hash = r], None)
    /\ Mails(r, req[r].seen.email)

\* The refresh token is created even for an account deleted since it was read.
Grant(r) ==
    /\ In(r, {"login"}, "session")
    /\ session' = TRUE /\ access' = TRUE
    /\ Ends(r)
    /\ UNCHANGED <<account, link, proved, crossed>>

Refresh ==
    /\ session /\ ~access
    /\ access' = TRUE
    /\ UNCHANGED <<account, link, session, req, proved, crossed>>

Logout ==
    /\ Authenticated /\ session
    /\ session' = FALSE
    /\ UNCHANGED <<account, link, access, req, proved, crossed>>

-------------------------------------------------------------------------------
\* The address

ChangeAddress(r, e) ==
    /\ Authenticated /\ e # account.email
    /\ Starts(r, "address", "save", e)
    /\ UNCHANGED <<proved, crossed>>

\* Mutant of NewAddress: the address is written before it is confirmed.
NewAddress_Applied(doc, e, r) == [doc EXCEPT !.email = e, !.hash = r]

NewAddress(doc, e, r) == [doc EXCEPT !.pending = e, !.hash = r]

ChangeAddressSave(r) ==
    /\ In(r, {"address"}, "save")
    /\ Saves(r, NewAddress(Doc(r), req[r].arg, r), None)
    /\ Mails(r, req[r].arg)

\* The link is mailed, to the address as it was read; a failure is only logged.
MailLink(r, sent) ==
    /\ In(r, {"signup", "login", "address"}, "mail")
    /\ link' = IF sent /\ Exists /\ account.hash = r
               THEN [to |-> req[r].arg,
                     kind |-> IF req[r].op = "address" THEN "confirm" ELSE "verify"]
               ELSE link
    /\ Ends(r)
    /\ UNCHANGED <<account, session, access, proved, crossed>>

\* Whoever follows a link has proved the address it was mailed to.  Both routes look up
\* the one field: either takes either link, and the confirmation only wants a pending
\* address.
Follow(r, route) ==
    /\ link # None
    /\ route = "confirm" => account.pending # None
    /\ Starts(r, route, "save", None)
    /\ proved' = proved \cup {link.to}
    /\ crossed' = (crossed \cup {e \in {account.pending} :
                                   route = "confirm" /\ link.kind = "verify"}) \ proved'

VerifySave(r) ==
    /\ In(r, {"verify"}, "save")
    /\ Saves(r, [Doc(r) EXCEPT !.verified = TRUE, !.hash = None], None)
    /\ Ends(r)

\* The address is the one pending when the link was read, written if it is new.
ConfirmSave(r) ==
    /\ In(r, {"confirm"}, "save")
    /\ LET seen == req[r].seen
       IN  Saves(r, [Doc(r) EXCEPT !.pending = None, !.hash = None,
                                   !.email = IF seen.pending = seen.email THEN @
                                             ELSE seen.pending], None)
    /\ Ends(r)

-------------------------------------------------------------------------------
\* The password; only the link last mailed resets it

Forgot(r) == Exists /\ Starts(r, "forgot", "save", None) /\ UNCHANGED <<proved, crossed>>

ForgotSave(r) ==
    /\ In(r, {"forgot"}, "save")
    /\ Saves(r, [Doc(r) EXCEPT !.reset = TRUE], link)
    /\ Ends(r)

Reset(r, p) ==
    /\ Exists /\ account.reset
    /\ Starts(r, "reset", "save", p)
    /\ UNCHANGED <<proved, crossed>>

ResetSave(r) ==
    /\ In(r, {"reset"}, "save")
    /\ Saves(r, [Doc(r) EXCEPT !.password = req[r].arg, !.reset = FALSE], link)
    /\ Ends(r)

ChangePassword(r, p) ==
    /\ Authenticated
    /\ Starts(r, "password", "save", p)
    /\ UNCHANGED <<proved, crossed>>

ChangePasswordSave(r) ==
    /\ In(r, {"password"}, "save")
    /\ Saves(r, [Doc(r) EXCEPT !.password = req[r].arg], link)
    /\ Ends(r)

-------------------------------------------------------------------------------
\* Deletion: the refresh tokens, then the document

Delete(r) == Authenticated /\ Starts(r, "delete", "tokens", None) /\ UNCHANGED <<proved, crossed>>

DeleteTokens(r) ==
    /\ In(r, {"delete"}, "tokens")
    /\ session' = FALSE
    /\ Goes(r, "remove")
    /\ UNCHANGED <<account, link, access, proved, crossed>>

DeleteUser(r) ==
    /\ In(r, {"delete"}, "remove")
    /\ account' = Gone /\ link' = None
    /\ Ends(r)
    /\ UNCHANGED <<session, access, proved, crossed>>

-------------------------------------------------------------------------------
\* Time, the process

ExpireLink ==
    /\ Exists
    /\ \/ account.hash # None /\ account' = [account EXCEPT !.hash = None] /\ link' = None
       \/ account.reset /\ account' = [account EXCEPT !.reset = FALSE] /\ UNCHANGED link
    /\ UNCHANGED <<session, access, req, proved, crossed>>

ExpireToken ==
    /\ \/ access /\ access' = FALSE /\ UNCHANGED session
       \/ session /\ session' = FALSE /\ UNCHANGED access
    /\ UNCHANGED <<account, link, req, proved, crossed>>

Crash ==
    /\ req # [r \in Req |-> None]
    /\ req' = [r \in Req |-> None]
    /\ UNCHANGED <<account, link, session, access, proved, crossed>>

Handle(r) ==
    \/ Create(r) \/ IssueLink(r) \/ Grant(r) \/ ChangeAddressSave(r) \/ VerifySave(r)
    \/ ConfirmSave(r) \/ ForgotSave(r) \/ ResetSave(r) \/ ChangePasswordSave(r)
    \/ DeleteTokens(r) \/ DeleteUser(r) \/ SaveFails(r)

Start(r) ==
    \/ Login(r) \/ Forgot(r) \/ Delete(r)
    \/ \E route \in {"verify", "confirm"} : Follow(r, route)
    \/ \E e \in Addr : Signup(r, e) \/ ChangeAddress(r, e)
    \/ \E p \in Pwd : ChangePassword(r, p) \/ Reset(r, p)

Next ==
    \/ \E r \in Req : Start(r) \/ Handle(r) \/ MailLink(r, TRUE) \/ MailLink(r, FALSE)
    \/ Refresh \/ Logout \/ ExpireLink \/ ExpireToken \/ Crash

Fairness ==
    /\ SF_vars(\E r \in Req : Login(r))
    /\ SF_vars(\E r \in Req : IssueLink(r))
    /\ SF_vars(\E r \in Req : MailLink(r, TRUE) /\ link' # None)
    /\ SF_vars(\E r \in Req : Follow(r, "verify"))
    /\ SF_vars(\E r \in Req : VerifySave(r))
    /\ \A r \in Req : WF_vars(Handle(r) \/ MailLink(r, TRUE) \/ MailLink(r, FALSE))

Safety == Init /\ [][Next]_vars

Spec == Safety /\ Fairness

-------------------------------------------------------------------------------

\* The address of a verified account is one whose owner followed a link mailed there,
\* whatever sign-ins and changes of address overlap; save one that was asked for and then
\* confirmed with the token of a verification link, mailed elsewhere, which the shared
\* field accepts (confirmEmailChange, services/auth.service.js).
AddressProved == Exists /\ account.verified => account.email \in proved \cup crossed

\* No handler, saving a document it read earlier, takes back what another saved:
\* verified stays, and only the requests meant to change the address or the
\* password do.
NothingUndone ==
    [][Exists /\ account' # Gone =>
         /\ account.verified => account'.verified
         /\ account'.email # account.email =>
              \E r \in Req : In(r, {"confirm"}, "save") /\ req'[r] = None
         /\ account'.password # account.password =>
              \E r \in Req : In(r, {"reset", "password"}, "save") /\ req'[r] = None]_vars

\* Whoever keeps trying to sign in and following links is verified at last, though
\* a crash came between the two saves of the sign-up or the mail was lost.
VerifiedAtLast == (Exists /\ ~account.verified) ~> (Exists /\ account.verified)
===============================================================================
