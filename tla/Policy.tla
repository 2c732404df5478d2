--------------------------------- MODULE Policy ---------------------------------
(***************************************************************************)
(* The privacy policy and one user's consent to it                         *)
(* (controllers/gdpr.controller.js, models/PrivacyPolicy.js).  Versions    *)
(* are published and never changed; the latest is the one dated last,      *)
(* whatever its number, and a version is dated before it is inserted.  A   *)
(* user who has consented is blocked by a policy of a greater major        *)
(* version than the one recorded as accepted; accepting records whatever   *)
(* version is the latest when the request runs.                            *)
(***************************************************************************)
EXTENDS Naturals, FiniteSets

CONSTANTS
    Explicit,   \* version numbers an administrator may type, <<major, minor>>
    MaxVersions,\* bound: publications that get as far as a date
    Req,        \* bound: requests in progress at once
    None,
    V1          \* consent.version of a consent given before any version was published

VARIABLES
    published,  \* the versions
    newest,     \* the one dated last, with its date
    dates,      \* publishedAt drawn so far
    user,       \* the fields of the user's document
    req         \* the requests in progress

vars == <<published, newest, dates, user, req>>
policies == <<published, newest, dates>>

Version == Nat \X Nat

\* getLatest
Latest == newest.version

\* consent.accepted, consent.version, policyVersionAccepted, policyVersionSeen
Document == [consent : BOOLEAN, version : Version \cup {None, V1},
             accepted : Version \cup {None}, seen : Version \cup {None}]

Request == [op : {"publish", "accept", "seen", "consent", "refuse"},
            phase : {"date", "user", "latest", "save"},
            version : Version \cup {None},     \* to publish, or the latest as it was read
            date : Nat,                        \* publishedAt, in the order it is drawn
            doc : Document \cup {None}]        \* the user as loaded

TypeOK ==
    /\ published \subseteq Version
    /\ newest \in [version : Version \cup {None}, date : Nat]
    /\ dates \in Nat
    /\ user \in Document
    /\ req \in [Req -> Request \cup {None}]

Init ==
    /\ published = {} /\ newest = [version |-> None, date |-> 0] /\ dates = 0
    /\ user = [consent |-> FALSE, version |-> None, accepted |-> None, seen |-> None]
    /\ req = [r \in Req |-> None]

-------------------------------------------------------------------------------
\* Publication

\* The next number of this kind of change; the first version is a major one.
Numbered(kind) ==
    IF kind = "major" THEN {IF Latest = None THEN <<1, 0>> ELSE <<Latest[1] + 1, 0>>}
    ELSE IF Latest = None THEN {} ELSE {<<Latest[1], Latest[2] + 1>>}

Starts(r, op, phase, version) ==
    /\ req[r] = None
    /\ req' = [req EXCEPT ![r] = [op |-> op, phase |-> phase, version |-> version, date |-> 0, doc |-> None]]
    /\ UNCHANGED <<policies, user>>

In(r, ops, phase) == req[r] # None /\ req[r].op \in ops /\ req[r].phase = phase

UpdatePolicy(r, v) ==
    /\ dates + Cardinality({q \in Req : In(q, {"publish"}, "date")}) < MaxVersions
    /\ v \notin published
    /\ v \in Numbered("major") \cup Numbered("minor") \/ v \in Explicit
    /\ Starts(r, "publish", "date", v)

\* publishedAt is set before the insertion: of two publications at once, the one inserted
\* first may be the one dated last.
Date(r) ==
    /\ In(r, {"publish"}, "date")
    /\ dates' = dates + 1
    /\ req' = [req EXCEPT ![r].phase = "save", ![r].date = dates']
    /\ UNCHANGED <<published, newest, user>>

\* Version numbers are unique: of two requests for one number, one is refused.
UpdatePolicySave(r) ==
    /\ In(r, {"publish"}, "save")
    /\ IF req[r].version \in published
       THEN UNCHANGED <<published, newest>>
       ELSE /\ published' = published \cup {req[r].version}
            /\ newest' = IF req[r].date > newest.date
                         THEN [version |-> req[r].version, date |-> req[r].date]
                         ELSE newest
    /\ req' = [req EXCEPT ![r] = None]
    /\ UNCHANGED <<dates, user>>

-------------------------------------------------------------------------------
\* The user

\* parseVersion gives 0 for a version that was never recorded.
AcceptedMajor == IF user.accepted = None THEN 0 ELSE user.accepted[1]

\* getPolicyStatus
Blocking == user.consent /\ Latest # None /\ Latest[1] > AcceptedMajor

AcceptPolicyVersion(r) == Latest # None /\ Starts(r, "accept", "user", Latest)

MarkPolicyVersionSeen(r) == Latest # None /\ Starts(r, "seen", "user", Latest)

UpdateConsent(r, op) == Starts(r, op, "user", None)

LoadUser(r) ==
    /\ In(r, {"accept", "seen", "consent", "refuse"}, "user")
    /\ req' = [req EXCEPT ![r].doc = user,
                          ![r].phase = IF req[r].op \in {"accept", "seen"} THEN "save" ELSE "latest"]
    /\ UNCHANGED <<policies, user>>

\* updateConsent reads the latest version after the user.
LoadLatest(r) ==
    /\ In(r, {"consent", "refuse"}, "latest")
    /\ req' = [req EXCEPT ![r].version = Latest, ![r].phase = "save"]
    /\ UNCHANGED <<policies, user>>

\* Mutant of Stamped: the consent is recorded, without the version.
Stamped_ConsentOnly(doc, op, v) ==
    IF op = "seen" THEN [doc EXCEPT !.seen = v]
    ELSE [doc EXCEPT !.consent = op # "refuse"]

\* Mutant of Stamped: the fallback is stamped as an accepted version too.
Stamped_Fallback(doc, op, v) ==
    IF op = "refuse" THEN [doc EXCEPT !.consent = FALSE]
    ELSE IF op = "seen" THEN [doc EXCEPT !.seen = v]
    ELSE LET w == IF v = None THEN V1 ELSE v
         IN  [consent |-> TRUE, version |-> w, accepted |-> w, seen |-> w]

\* What a request makes of the document it loaded.
Stamped(doc, op, v) ==
    IF op = "refuse" THEN [doc EXCEPT !.consent = FALSE]
    ELSE IF op = "seen" THEN [doc EXCEPT !.seen = v]
    ELSE IF v = None THEN [doc EXCEPT !.consent = TRUE, !.version = V1]
    ELSE [consent |-> TRUE, version |-> v, accepted |-> v, seen |-> v]

\* A version that is what it was when loaded is not written; the consent is written whole, with
\* its date, and may be so when a user without consent refuses.
Save(r) ==
    /\ In(r, {"accept", "seen", "consent", "refuse"}, "save")
    /\ LET op == req[r].op
           old == req[r].doc
           new == Stamped(old, op, req[r].version)
           stamps == {f \in {"accepted", "seen"} : new[f] # old[f]}
           given == {"consent", "version"}
       IN  \E fields \in IF op = "seen" THEN {stamps}
                         ELSE IF op = "refuse" /\ ~old.consent THEN {stamps, stamps \cup given}
                         ELSE {stamps \cup given} :
             user' = [f \in DOMAIN user |-> IF f \in fields THEN new[f] ELSE user[f]]
    /\ req' = [req EXCEPT ![r] = None]
    /\ UNCHANGED policies

\* A failed call or a crash.
Fails(r) ==
    /\ req[r] # None
    /\ req' = [req EXCEPT ![r] = None]
    /\ UNCHANGED <<policies, user>>

-------------------------------------------------------------------------------

Handle(r) == Date(r) \/ UpdatePolicySave(r) \/ LoadUser(r) \/ LoadLatest(r) \/ Save(r)

Next ==
    \E r \in Req :
        \/ \E v \in Numbered("major") \cup Numbered("minor") \cup Explicit : UpdatePolicy(r, v)
        \/ AcceptPolicyVersion(r) \/ MarkPolicyVersionSeen(r)
        \/ \E op \in {"consent", "refuse"} : UpdateConsent(r, op)
        \/ Handle(r) \/ Fails(r)

\* Whoever is blocked keeps accepting, and in the end requests no longer fail.
Fairness ==
    /\ \A r \in Req : WF_vars(Handle(r))
    /\ SF_vars(Blocking /\ \E r \in Req : AcceptPolicyVersion(r))
    /\ <>[][\A r \in Req : Fails(r) => Handle(r)]_vars

Spec == Init /\ [][Next]_vars /\ Fairness

-------------------------------------------------------------------------------

\* Whoever accepts is not blocked for ever: once no more versions come, the requests that read
\* an earlier one cannot take the acceptance back again and again.
Unblocked == <>[]~Blocking
===============================================================================
