------------------------------- MODULE Moderation -------------------------------
(***************************************************************************)
(* The reports on a user and what moderators do to him: warnings, bans and *)
(* their lifting (controllers/report.controller.js, routes/admin.routes.js)*)
(* and the clean-up of old warnings when he opens the application          *)
(* (UserController.me).  Every handler reads his document, assigns some of *)
(* its fields and saves; two moderators may do so at once.                 *)
(*                                                                         *)
(* Mongoose writes an assigned field only if it differs from the one read; *)
(* an array assigned as a whole is always written, and the save fails if   *)
(* another save of the array came since the read (its version).            *)
(* warningsCount and the last warning's fields follow the array.           *)
(***************************************************************************)
CONSTANTS
    Report,    \* bound: reports on the user
    Warning,   \* bound: warnings given
    Req,       \* bound: requests in progress at once
    None

VARIABLES
    user,      \* user.moderation
    expired,   \* the warnings given more than three months ago
    reports,   \* status of the reports
    req        \* the requests in progress

vars == <<user, expired, reports, req>>

Document == [permanent : BOOLEAN,          \* bannedPermanent
             until : {"unset", "none", "past", "future"},   \* bannedUntil: undefined, null or a date
             history : SUBSET Warning]     \* warningsHistory

Action == {"dismiss", "warn", "ban_temp", "ban_permanent", "unban", "clear_warnings"}

Request ==
    [op : Action \cup {"report", "me"}, phase : {"read", "save", "close", "create"},
     report : Report \cup {None},    \* the report acted upon, if any
     seen : Document \cup {None},       \* in a save, the document read
     fresh : BOOLEAN]                   \* no other save of the array since

TypeOK ==
    /\ user \in Document
    /\ expired \subseteq Warning
    /\ reports \in [Report -> {"none", "pending", "resolved", "dismissed"}]
    /\ req \in [Req -> Request \cup {None}]

Init ==
    /\ user = [permanent |-> FALSE, until |-> "unset", history |-> {}]
    /\ expired = {}
    /\ reports = [i \in Report |-> "none"]
    /\ req = [r \in Req |-> None]

-------------------------------------------------------------------------------

Starts(r, op, phase, i) ==
    /\ req[r] = None
    /\ req' = [req EXCEPT ![r] = [op |-> op, phase |-> phase, report |-> i,
                                  seen |-> IF phase = "save" THEN user ELSE None,
                                  fresh |-> TRUE]]
    /\ UNCHANGED <<user, expired, reports>>

In(r, phase) == req[r] # None /\ req[r].phase = phase

Ends(r) == req' = [req EXCEPT ![r] = None]

\* A report is refused while another of the same reporter is pending: a read, then a create.
File(r, i) == reports[i] = "none" /\ Starts(r, "report", "create", i)

Create(r) ==
    /\ In(r, "create")
    /\ reports' = [reports EXCEPT ![req[r].report] = "pending"]
    /\ Ends(r)
    /\ UNCHANGED <<user, expired>>

\* The report is read, then the user it targets.
Act(r, i, action) ==
    /\ reports[i] = "pending" /\ action \notin {"unban", "clear_warnings"}
    /\ Starts(r, action, IF action = "dismiss" THEN "close" ELSE "read", i)

ReadTarget(r) ==
    /\ In(r, "read")
    /\ req' = [req EXCEPT ![r].phase = "save", ![r].seen = user]
    /\ UNCHANGED <<user, expired, reports>>

Moderate(r, action) ==
    /\ action \notin {"dismiss", "warn"}
    /\ Starts(r, action, "save", None)

\* The user opens the application: there is something to save if he has warnings.
Me(r) == user.history # {} /\ Starts(r, "me", "save", None)

-------------------------------------------------------------------------------

Current(history) == history \ expired

\* The array each action assigns, from the one it read.
History(action, history, w) ==
    CASE action = "warn" -> Current(history) \cup {w}
      [] action = "me" -> Current(history)
      [] action = "clear_warnings" -> {}
      [] OTHER -> history

WritesArray(action, history) ==
    action \in {"warn", "me"} \/ (action = "clear_warnings" /\ history # {})

\* Mutant of Assigned: a field is written although it is the one read.
Assigned_Always(now, seen, new) == new

Assigned(now, seen, new) == IF new = seen THEN now ELSE new

Saved(r, w) ==
    LET q == req[r]
    IN  [permanent |-> CASE q.op \in {"ban_temp", "unban"} -> Assigned(user.permanent, q.seen.permanent, FALSE)
                         [] q.op = "ban_permanent" -> Assigned(user.permanent, q.seen.permanent, TRUE)
                         [] OTHER -> user.permanent,
         until |-> CASE q.op = "ban_temp" -> "future"
                     [] q.op \in {"unban", "ban_permanent"} -> Assigned(user.until, q.seen.until, "none")
                     [] OTHER -> user.until,
         history |-> IF WritesArray(q.op, q.seen.history) THEN History(q.op, q.seen.history, w)
                                                            ELSE user.history]

\* Mutant of Conflict: nobody looks at the version.
Conflict_Never(r) == FALSE

Conflict(r) == WritesArray(req[r].op, req[r].seen.history) /\ ~req[r].fresh

New == {w \in Warning : w \notin user.history \cup expired}

Save(r) ==
    /\ In(r, "save") /\ ~Conflict(r)
    /\ \E w \in IF req[r].op = "warn" THEN New ELSE {None} : user' = Saved(r, w)
    /\ req' = [q \in Req |->
         IF q = r THEN IF req[r].report = None THEN None 
                        ELSE [req[r] EXCEPT !.phase = "close", !.seen = None, !.fresh = TRUE]
         ELSE IF ~In(q, "save") THEN req[q]
         ELSE [req[q] EXCEPT !.fresh = @ /\ ~WritesArray(req[r].op, req[r].seen.history)]]
    /\ UNCHANGED <<expired, reports>>

\* The report is closed after the user was saved, whoever closed it meanwhile.
Close(r) ==
    /\ In(r, "close")
    /\ reports' = [reports EXCEPT ![req[r].report] =
                     IF req[r].op = "dismiss" THEN "dismissed" ELSE "resolved"]
    /\ Ends(r)
    /\ UNCHANGED <<user, expired>>

\* A conflict of versions, a failed call or a crash.
Fails(r) ==
    /\ req[r] # None
    /\ Ends(r)
    /\ UNCHANGED <<user, expired, reports>>

Ages ==
    /\ \/ \E w \in user.history \ expired : expired' = expired \cup {w} /\ UNCHANGED user
       \/ user.until = "future" /\ user' = [user EXCEPT !.until = "past"] /\ UNCHANGED expired
    /\ UNCHANGED <<reports, req>>

Next ==
    \/ \E r \in Req :
         \/ Create(r) \/ ReadTarget(r) \/ Save(r) \/ Close(r) \/ Fails(r) \/ Me(r)
         \/ \E i \in Report : File(r, i) \/ \E action \in Action : Act(r, i, action)
         \/ \E action \in Action : Moderate(r, action)
    \/ Ages

Spec == Init /\ [][Next]_vars

-------------------------------------------------------------------------------

\* A sanction is only lifted by someone who saw it and meant to: a warning in term by a
\* clearing that read it, a permanent ban by an unban or a temporary ban that read it;
\* never by a save of what was read before the sanction.
SanctionsKept ==
    [][/\ \A w \in Current(user.history) \ user'.history :
            \E r \in Req : In(r, "save") /\ req[r].op = "clear_warnings" /\ w \in req[r].seen.history
       /\ user.permanent /\ ~user'.permanent =>
            \E r \in Req : In(r, "save") /\ req[r].op \in {"unban", "ban_temp"}
                           /\ req[r].seen.permanent]_vars
===============================================================================
