-------------------------------- MODULE VenuePage --------------------------------
(***************************************************************************)
(* What the owner of a venue publishes on its page, under a subscription   *)
(* (controllers/businessProfile.controller.js): a picture, stories, PDFs   *)
(* and events; the background transcoding of videos                        *)
(* (services/mediaProcessing.service.js, two attempts) and the expiries    *)
(* (services/cron.service.js).  A request loads the venue before its       *)
(* upload, checks what it loaded and saves.                                *)
(*                                                                         *)
(* Mongoose pushes one element, or replaces an array as a whole; the       *)
(* latter fails if another save of an array came since the load.  The      *)
(* updates of the worker and of the story cron go by id and count as none. *)
(***************************************************************************)
EXTENDS Naturals, FiniteSets

CONSTANTS
    Item,      \* bound: stories, PDFs and events ever uploaded; also names their files
    Picture,   \* bound: pictures ever uploaded
    Req,       \* bound: requests in progress at once
    Cap,       \* MAX_MEDIA_PDF, MAX_EVENTS_PER_LOCATION
    None

VARIABLES
    page,     \* the Location document
    kind,     \* the list an item was uploaded to
    expired,  \* the items past their expiresAt
    files,    \* the published files on the disk
    job,      \* the job of each video
    req       \* the requests in progress

vars == <<page, kind, expired, files, job, req>>

List == {"stories", "media", "events"}

\* "withdrawn": marked failed by a job that had marked it ready, so that its url is there.
Status == {"absent", "processing", "ready", "failed", "withdrawn"}

Empty == [i \in Item |-> "absent"]

Page == [logo : Picture \cup {None}, items : [Item -> Status]]

\* A retry finds no upload any more.
Job == {"none", "queued", "made", "marked", "retry", "over"}

Request == [op : {"add", "film", "remove", "expire", "logo"}, phase : {"save", "tidy", "enqueue"},
            items : SUBSET Item,             \* to add or remove; then those with a file to delete
            picture : Picture \cup {None},   \* to put in the place of old
            old : Picture \cup {None},
            seen : [Item -> Status],         \* of a removal, the items it loaded
            fresh : BOOLEAN]                 \* no other save of an array since it loaded them

\* Pictures and other uploads go to folders of their own; None is no name, list or request.
ASSUME NamesAssumption ==
    /\ Item \cap Picture = {}
    /\ None \notin Item \cup Picture \cup List \cup Request

In(r, op, phase) == req[r] # None /\ req[r].op = op /\ req[r].phase = phase

Held(items, list) == {i \in Item : kind[i] = list /\ items[i] # "absent"}

TypeOK ==
    /\ page \in Page
    /\ kind \in [Item -> List \cup {None}]
    /\ expired \subseteq Item
    /\ files \subseteq Item \cup Picture
    /\ job \in [Item -> Job]
    /\ req \in [Req -> Request \cup {None}]
    \* Only stories and events have a status to wait for.
    /\ \A i \in Item : page.items[i] \in {"processing", "failed", "withdrawn"} => kind[i] \in {"stories", "events"}

Init ==
    /\ page = [logo |-> None, items |-> Empty]
    /\ kind = [i \in Item |-> None]
    /\ expired = {} /\ files = {}
    /\ job = [i \in Item |-> "none"]
    /\ req = [r \in Req |-> None]

-------------------------------------------------------------------------------

Starts(r, op, items, picture, old, seen) ==
    /\ req[r] = None
    /\ req' = [req EXCEPT ![r] = [op |-> op, phase |-> "save", items |-> items,
                 picture |-> picture, old |-> old, seen |-> seen, fresh |-> TRUE]]

\* r goes on; what the others loaded is outdated if r saved an array.
Goes(r, next, array) ==
    req' = [q \in Req |->
              IF q = r THEN next
              ELSE IF array /\ req[q] # None /\ req[q].seen # Empty THEN [req[q] EXCEPT !.fresh = FALSE]
              ELSE req[q]]

To(r, phase) == [req[r] EXCEPT !.phase = phase]

HasUrl(status) == status \in {"ready", "withdrawn"}

\* The files of the items removed, by their url as it was loaded: a PDF's stays, and so does
\* that of a video which had no url yet.
ToTidy(r, gone) ==
    [req[r] EXCEPT !.phase = "tidy", !.seen = Empty, !.fresh = TRUE,
        !.items = {i \in gone : kind[i] # "media" /\ HasUrl(req[r].seen[i])}]

\* Checked when the request starts: requests under way together can exceed a cap.
Full(list) == list # "stories" /\ Cardinality(Held(page.items, list)) >= Cap

\* Mutant of Filmed: videos are transcoded wherever they are uploaded.
Filmed_Any(list) == TRUE

\* The lists whose videos are transcoded.
Filmed(list) == list # "media"

\* Mutant of Conflict: nobody looks at the version.
Conflict_Never(r) == FALSE

Conflict(r) == ~req[r].fresh

\* The page without some items of a list, as the request saw the list.
Without(r, list, gone) ==
    [page EXCEPT !.items = [i \in Item |->
        IF kind[i] # list THEN @[i] ELSE IF i \in gone THEN "absent" ELSE req[r].seen[i]]]

-------------------------------------------------------------------------------
\* Stories, PDFs and events

\* A story needs the picture; a video waits for its transcoding.
Add(r, i, list, video) ==
    /\ kind[i] = None
    /\ list = "stories" => page.logo # None
    /\ video => Filmed(list)
    /\ ~Full(list)
    /\ kind' = [kind EXCEPT ![i] = list]
    /\ files' = IF video THEN files ELSE files \cup {i}
    /\ Starts(r, IF video THEN "film" ELSE "add", {i}, None, None, Empty)
    /\ UNCHANGED <<page, expired, job>>

AddSave(r) ==
    /\ \/ In(r, "add", "save") /\ Goes(r, None, TRUE)
       \/ In(r, "film", "save") /\ Goes(r, To(r, "enqueue"), TRUE)
    /\ \E i \in req[r].items :
         page' = [page EXCEPT !.items[i] = IF req[r].op = "film" THEN "processing" ELSE "ready"]
    /\ UNCHANGED <<kind, expired, files, job>>

\* If it stops before this, the video stays in processing until it expires.
Enqueue(r) ==
    /\ In(r, "film", "enqueue")
    /\ \E i \in req[r].items : job' = [job EXCEPT ![i] = "queued"]
    /\ Goes(r, None, FALSE)
    /\ UNCHANGED <<page, kind, expired, files>>

Remove(r, i) ==
    /\ page.items[i] # "absent"
    /\ Starts(r, "remove", {i}, None, None, page.items)
    /\ UNCHANGED <<page, kind, expired, files, job>>

RemoveSave(r) ==
    /\ In(r, "remove", "save") /\ ~Conflict(r)
    /\ \E i \in req[r].items : page' = Without(r, kind[i], {i}) /\ Goes(r, ToTidy(r, {i}), TRUE)
    /\ UNCHANGED <<kind, expired, files, job>>

Tidy(r) ==
    /\ In(r, "remove", "tidy") \/ In(r, "expire", "tidy")
    /\ files' = files \ req[r].items
    /\ Goes(r, None, FALSE)
    /\ UNCHANGED <<page, kind, expired, job>>

\* The story cron pulls by date; it deletes no file.
ExpireStories ==
    /\ Held(page.items, "stories") \cap expired # {}
    /\ page' = [page EXCEPT !.items = [i \in Item |->
                  IF i \in expired /\ kind[i] = "stories" THEN "absent" ELSE @[i]]]
    /\ UNCHANGED <<kind, expired, files, job, req>>

\* The event cron loads the venues, then saves one after the other.
ExpireEvents(r) ==
    /\ Held(page.items, "events") \cap expired # {}
    /\ Starts(r, "expire", {}, None, None, page.items)
    /\ UNCHANGED <<page, kind, expired, files, job>>

ExpireEventsSave(r) ==
    /\ In(r, "expire", "save") /\ ~Conflict(r)
    /\ LET gone == Held(req[r].seen, "events") \cap expired
       IN  /\ page' = Without(r, "events", gone)
           /\ Goes(r, ToTidy(r, gone), TRUE)
    /\ UNCHANGED <<kind, expired, files, job>>

Age(i) ==
    /\ kind[i] \in {"stories", "events"} /\ page.items[i] # "absent" /\ i \notin expired
    /\ expired' = expired \cup {i}
    /\ UNCHANGED <<page, kind, files, job, req>>

-------------------------------------------------------------------------------
\* The pictures: cover and logo have the same handlers.

SetLogo(r, f) ==
    /\ f \notin files \cup {page.logo}   \* a new name
    /\ \A q \in Req : req[q] # None => f \notin {req[q].picture, req[q].old}
    /\ files' = files \cup {f}
    /\ Starts(r, "logo", {}, f, page.logo, Empty)
    /\ UNCHANGED <<page, kind, expired, job>>

RemoveLogo(r) ==
    /\ Starts(r, "logo", {}, None, page.logo, Empty)
    /\ UNCHANGED <<page, kind, expired, files, job>>

\* Mutant of LogoTidied: whatever picture is on the page is deleted.
LogoTidied_AsNow(r) == files \ {page.logo}

\* The file deleted is that of the picture loaded with the venue.
LogoTidied(r) == files \ {req[r].old}

\* A removal of the picture writes nothing if there was none.
LogoSave(r) ==
    /\ In(r, "logo", "save")
    /\ page' = IF req[r].picture = req[r].old THEN page
             ELSE [page EXCEPT !.logo = req[r].picture]
    /\ Goes(r, To(r, "tidy"), FALSE)
    /\ UNCHANGED <<kind, expired, files, job>>

LogoTidy(r) ==
    /\ In(r, "logo", "tidy")
    /\ files' = LogoTidied(r)
    /\ Goes(r, None, FALSE)
    /\ UNCHANGED <<page, kind, expired, job>>

\* A conflict of versions, a failed call or a crash.
Fails(r) ==
    /\ req[r] # None
    /\ Goes(r, None, FALSE)
    /\ UNCHANGED <<page, kind, expired, files, job>>

-------------------------------------------------------------------------------
\* The worker

Marked(i, status) ==
    IF page.items[i] = "absent" THEN page ELSE [page EXCEPT !.items[i] = status]

JobGoes(i, from, to) == job[i] \in from /\ job' = [job EXCEPT ![i] = to]

\* processVideo deletes the upload once the file to publish is made.
Transcode(i) ==
    /\ JobGoes(i, {"queued"}, "made")
    /\ files' = files \cup {i}
    /\ UNCHANGED <<page, kind, expired, req>>

MarkReady(i) ==
    /\ JobGoes(i, {"made"}, "marked")
    /\ page' = Marked(i, "ready")
    /\ UNCHANGED <<kind, expired, files, req>>

\* A failed transcoding or thumbnail: the upload is deleted, and the retry fails as well.
JobFails(i) ==
    /\ JobGoes(i, {"queued", "made"}, "retry") \/ JobGoes(i, {"retry"}, "over")
    /\ page' = Marked(i, IF HasUrl(page.items[i]) THEN "withdrawn" ELSE "failed")
    /\ UNCHANGED <<kind, expired, files, req>>

\* The worker dies before it acknowledges the job: it is delivered again.
Stalls(i) ==
    /\ JobGoes(i, {"made", "marked"}, "retry")
    /\ UNCHANGED <<page, kind, expired, files, req>>

-------------------------------------------------------------------------------

Next ==
    \/ \E r \in Req :
         \/ \E i \in Item : \/ Remove(r, i)
                            \/ \E list \in List, video \in BOOLEAN : Add(r, i, list, video)
         \/ \E f \in Picture : SetLogo(r, f)
         \/ RemoveLogo(r) \/ ExpireEvents(r)
         \/ AddSave(r) \/ Enqueue(r) \/ RemoveSave(r) \/ ExpireEventsSave(r) \/ Tidy(r)
         \/ LogoSave(r) \/ LogoTidy(r) \/ Fails(r)
    \/ \E i \in Item :
         \/ Age(i) \/ Transcode(i) \/ MarkReady(i)
         \/ JobFails(i) \/ Stalls(i)
    \/ ExpireStories

Spec == Init /\ [][Next]_vars

-------------------------------------------------------------------------------

\* What the page shows is on the disk, whichever of the owner's requests, expiries and video
\* jobs run together and wherever one stops.  The end of a subscription, which deletes files
\* before it saves the page (businessBilling.controller.js:21-37), is not in this module.
ShownOnDisk ==
    /\ page.logo \in files \cup {None}
    /\ \A i \in Item : page.items[i] = "ready" => i \in files

\* What was published leaves the page only because its owner removed that very item or it
\* expired, never by the save of another request that had loaded the page before it.
NothingLost ==
    [][\A i \in Item :
         page.items[i] # "absent" /\ page'.items[i] = "absent" =>
           i \in expired \/ \E r \in Req : In(r, "remove", "save") /\ i \in req[r].items]_vars
===============================================================================
