------------------------------ MODULE MCEventually ------------------------------
(* What must happen at last, of Account and VenueCache in one run: they share no state, so *)
(* a behaviour is one of either, and the other has nothing under way.                      *)
EXTENDS Account, Naturals

CONSTANTS Worker, MaxWrites

VARIABLES
    version, cache, lock, locking, flight, reads, dirty,   \* of VenueCache
    which                                                  \* of them runs

K == INSTANCE VenueCache WITH venue <- version, req <- reads

ASSUME CacheAssumption ==
    /\ MaxWrites \in Nat
    /\ None \notin K!Flight \cup K!Request \cup K!Version

pages == <<version, cache, lock, locking, flight, reads, dirty>>

EventuallyInit ==
    /\ Init /\ K!Init
    /\ which \in {"account", "cache"}
    /\ which = "account" => ~locking

EventuallyNext ==
    /\ UNCHANGED which
    /\ \/ which = "account" /\ Next /\ UNCHANGED pages
       \/ which = "cache" /\ K!Next /\ UNCHANGED vars

Eventually ==
    /\ EventuallyInit /\ [][EventuallyNext]_<<vars, pages, which>>
    /\ Fairness /\ K!Fairness

\* VenueCache: no flight goes back, nor ends without an answer to all who joined it.
FlightsGoOn == K!FlightsGoOn

\* VenueCache: every request is answered, and no outdated page stays.
PagesServed == K!PagesServed
===============================================================================
