------------------------------- MODULE VenueCache -------------------------------
(***************************************************************************)
(* A page read through the cache: of a venue (getLocationById of           *)
(* controllers/location.controller.js), or the candidates of a heartbeat   *)
(* (getNearbyPoiCandidates of services/user.service.js).  In each process  *)
(* the requests that miss share one flight, which runs the query and fills *)
(* the cache (utils/singleflight.js); the flights of candidates also take  *)
(* a lock in Redis, or wait for the holder's page.  A write of the venue   *)
(* invalidates its page (utils/locationCache.js).                          *)
(*                                                                         *)
(* One key is followed.  Redis may fail at any call, and a process die.    *)
(***************************************************************************)
EXTENDS Naturals

CONSTANTS
    Worker,    \* the processes
    Req,       \* bound: requests in progress at once
    MaxWrites, \* bound: writes of the venue
    None

VARIABLES
    venue,    \* the version in the database
    cache,    \* the version of the page cached, until its TTL ends
    lock,     \* the worker whose token the lock holds; "dead" if it died
    locking,  \* does this key's flight take the lock
    flight,   \* the flight of each worker
    req,      \* the worker each request waits for, and where it is
    dirty     \* a write has not yet invalidated the page

vars == <<venue, cache, lock, locking, flight, req, dirty>>

Version == 0 .. MaxWrites

Flight == [phase : {"lock", "query", "fill", "check", "unlock", "poll", "land"},
           held : BOOLEAN,                  \* it took the lock
           page : Version \cup {None}]      \* None: the query failed

Request == [worker : Worker, phase : {"read", "wait"}]

TypeOK ==
    /\ venue \in Version /\ cache \in Version \cup {None}
    /\ lock \in Worker \cup {"dead", None} /\ locking \in BOOLEAN /\ dirty \in BOOLEAN
    /\ flight \in [Worker -> Flight \cup {None}]
    /\ req \in [Req -> Request \cup {None}]

Init ==
    /\ venue = 0 /\ cache = None /\ lock = None /\ dirty = FALSE
    /\ locking \in BOOLEAN
    /\ flight = [w \in Worker |-> None]
    /\ req = [r \in Req |-> None]

-------------------------------------------------------------------------------
\* Requests

Arrive(r, w) ==
    /\ req[r] = None
    /\ req' = [req EXCEPT ![r] = [worker |-> w, phase |-> "read"]]
    /\ UNCHANGED <<venue, cache, lock, locking, flight, dirty>>

\* Answered from the cache.
Hit(r) ==
    /\ req[r] # None /\ req[r].phase = "read"
    /\ cache # None
    /\ req' = [req EXCEPT ![r] = None]
    /\ UNCHANGED <<venue, cache, lock, locking, flight, dirty>>

\* No page, or the read failed: it joins the flight of its process, or starts one.
Miss(r) ==
    /\ req[r] # None /\ req[r].phase = "read"
    /\ req' = [req EXCEPT ![r].phase = "wait"]
    /\ flight' = [flight EXCEPT ![req[r].worker] =
                    IF @ # None THEN @
                    ELSE [phase |-> IF locking THEN "lock" ELSE "query",
                          held |-> FALSE, page |-> None]]
    /\ UNCHANGED <<venue, cache, lock, locking, dirty>>

-------------------------------------------------------------------------------
\* Flights

In(w, phase) == flight[w] # None /\ flight[w].phase = phase

Goes(w, phase) == flight' = [flight EXCEPT ![w].phase = phase]

\* SET NX
TakeLock(w) ==
    /\ In(w, "lock") /\ lock = None
    /\ lock' = w
    /\ flight' = [flight EXCEPT ![w].phase = "query", ![w].held = TRUE]
    /\ UNCHANGED <<venue, cache, locking, req, dirty>>

LockTaken(w) ==
    /\ In(w, "lock") /\ lock # None
    /\ Goes(w, "poll")
    /\ UNCHANGED <<venue, cache, lock, locking, req, dirty>>

LockFails(w) ==
    /\ In(w, "lock")
    /\ Goes(w, "query")
    /\ UNCHANGED <<venue, cache, lock, locking, req, dirty>>

Poll(w) ==
    /\ In(w, "poll") /\ cache # None
    /\ flight' = [flight EXCEPT ![w].phase = "land", ![w].page = cache]
    /\ UNCHANGED <<venue, cache, lock, locking, req, dirty>>

\* Mutant of Patience: the page of the holder is waited for as long as it takes.
Patience_Endless(w) == cache # None

\* POLL_TIMEOUT_MS: at any time.
Patience(w) == TRUE

\* Mutant of PollTimeout: the lock is tried again, as many times as it takes.
PollTimeout_Retries(w) ==
    /\ In(w, "poll") /\ Patience(w)
    /\ Goes(w, "lock")
    /\ UNCHANGED <<venue, cache, lock, locking, req, dirty>>

PollTimeout(w) ==
    /\ In(w, "poll") /\ Patience(w)
    /\ Goes(w, "query")
    /\ UNCHANGED <<venue, cache, lock, locking, req, dirty>>

Query(w) ==
    /\ In(w, "query")
    /\ flight' = [flight EXCEPT ![w].phase = "fill", ![w].page = venue]
    /\ UNCHANGED <<venue, cache, lock, locking, req, dirty>>

AfterFill(w) == Goes(w, IF flight[w].held THEN "check" ELSE "land")

QueryFails(w) ==
    /\ In(w, "query")
    /\ AfterFill(w)
    /\ UNCHANGED <<venue, cache, lock, locking, req, dirty>>

\* The venue may have been written, and the cache invalidated, since the query.
Fill(w) ==
    /\ In(w, "fill")
    /\ cache' = flight[w].page
    /\ AfterFill(w)
    /\ UNCHANGED <<venue, lock, locking, req, dirty>>

FillFails(w) ==
    /\ In(w, "fill")
    /\ AfterFill(w)
    /\ UNCHANGED <<venue, cache, lock, locking, req, dirty>>

\* The holder of the lock, as it is read; a failed read is as if it were another's.
Check(w) ==
    /\ In(w, "check")
    /\ \/ lock = w /\ Goes(w, "unlock")
       \/ Goes(w, "land")
    /\ UNCHANGED <<venue, cache, lock, locking, req, dirty>>

\* DEL: the lock may have expired and be another's by now.
Unlock(w) ==
    /\ In(w, "unlock")
    /\ lock' \in {None, lock}
    /\ Goes(w, "land")
    /\ UNCHANGED <<venue, cache, locking, req, dirty>>

\* Mutant of Land: only the request that comes first is answered.
Land_One(w) ==
    /\ In(w, "land")
    /\ flight' = [flight EXCEPT ![w] = None]
    /\ \E r \in Req : /\ req[r] = [worker |-> w, phase |-> "wait"]
                     /\ req' = [req EXCEPT ![r] = None]
    /\ UNCHANGED <<venue, cache, lock, locking, dirty>>

\* The requests that wait are answered, with the page or with the error.
Land(w) ==
    /\ In(w, "land")
    /\ flight' = [flight EXCEPT ![w] = None]
    /\ req' = [r \in Req |-> IF req[r] = [worker |-> w, phase |-> "wait"] THEN None ELSE req[r]]
    /\ UNCHANGED <<venue, cache, lock, locking, dirty>>

-------------------------------------------------------------------------------
\* The rest of the world

Write ==
    /\ venue < MaxWrites
    /\ venue' = venue + 1
    /\ dirty' = ~locking
    /\ UNCHANGED <<cache, lock, locking, flight, req>>

\* DEL after the write; it may fail, or the writer die. Candidates are not invalidated.
Invalidate ==
    /\ dirty /\ dirty' = FALSE
    /\ cache' \in {None, cache}
    /\ UNCHANGED <<venue, lock, locking, flight, req>>

\* Mutant of Expires: the page is cached without a TTL.
Expires_Never == FALSE

Expires == cache # None

ExpireCache ==
    /\ Expires
    /\ cache' = None
    /\ UNCHANGED <<venue, lock, locking, flight, req, dirty>>

ExpireLock ==
    /\ lock # None
    /\ lock' = None
    /\ UNCHANGED <<venue, cache, locking, flight, req, dirty>>

\* A process dies with its flight and its requests, and leaves its lock.
Die(w) ==
    /\ flight[w] # None
    /\ flight' = [flight EXCEPT ![w] = None]
    /\ req' = [r \in Req |-> IF req[r] # None /\ req[r].worker = w THEN None ELSE req[r]]
    /\ lock' = IF lock = w THEN "dead" ELSE lock
    /\ UNCHANGED <<venue, cache, locking, dirty>>

-------------------------------------------------------------------------------

Flies(w) ==
    \/ TakeLock(w) \/ LockTaken(w) \/ LockFails(w) \/ Poll(w) \/ PollTimeout(w)
    \/ Query(w) \/ QueryFails(w) \/ Fill(w) \/ FillFails(w)
    \/ Check(w) \/ Unlock(w) \/ Land(w)

Next ==
    \/ \E r \in Req : Hit(r) \/ Miss(r) \/ \E w \in Worker : Arrive(r, w)
    \/ \E w \in Worker : Flies(w) \/ Die(w)
    \/ Write \/ Invalidate \/ ExpireCache \/ ExpireLock

\* Each process goes on, and what has a TTL expires.
Fairness ==
    /\ \A w \in Worker : WF_vars(Flies(w))
    /\ \A r \in Req : WF_vars(Hit(r) \/ Miss(r))
    /\ WF_vars(ExpireCache)

Spec == Init /\ [][Next]_vars /\ Fairness

-------------------------------------------------------------------------------

\* Whoever waits has a flight of its process to wait for: none lands, fails or is given up
\* without an answer to all who joined it, and none is joined after it landed.
NobodyForgotten ==
    \A r \in Req : req[r] # None /\ req[r].phase = "wait" => flight[req[r].worker] # None

\* What a flight may still do before it lands.
Left == [lock |-> 6, poll |-> 5, query |-> 4, fill |-> 3, check |-> 2, unlock |-> 1, land |-> 0]

\* A flight only goes on: whatever Redis refuses and whoever holds the lock, it never goes back
\* to what it has left, and when it ends nobody who joined it is left waiting.
FlightsGoOn ==
    [][\A w \in Worker : flight[w] # None /\ flight'[w] # flight[w] =>
          \/ flight'[w] = None /\ \A r \in Req : req'[r] # [worker |-> w, phase |-> "wait"]
          \/ flight'[w] # None /\ Left[flight'[w].phase] < Left[flight[w].phase]]_vars

\* A request never waits for ever, whoever died with the lock; and once the venue is no longer
\* written, a page filled with what was read before the last write does not stay.
PagesServed ==
    /\ \A r \in Req : req[r] # None ~> req[r] = None
    /\ <>[](cache \in {None, venue})
===============================================================================
