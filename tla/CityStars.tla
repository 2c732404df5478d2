------------------------------- MODULE CityStars -------------------------------
(***************************************************************************)
(* The stars of the venues of a city (services/location.service.js): those *)
(* visited in the last 30 days are ranked by their unique visitors and     *)
(* shared out in tertiles of one, two and three stars.  The nightly job    *)
(* does the same for each city.  A pure algorithm, from the visits of the  *)
(* city to its stars; two jobs of a city that overlap are not modelled.    *)
(***************************************************************************)
EXTENDS Naturals, FiniteSets

CONSTANTS
    Places,      \* the number of venues of the city
    MaxVisitors  \* bound: unique visitors of a venue

VARIABLES
    visitors,  \* the unique visitors of each venue
    stars

vars == <<visitors, stars>>

Site == 1 .. Places

TypeOK == visitors \in [Site -> 0 .. MaxVisitors] /\ stars \in [Site -> 0 .. 3]

Init ==
    /\ visitors \in [Site -> 0 .. MaxVisitors]
    /\ stars = [v \in Site |-> 0]

Active == {v \in Site : visitors[v] > 0}

\* The index of an active venue in the list sorted by popularity.
Index(v) ==
    Cardinality({w \in Active : \/ visitors[w] < visitors[v]
                                \/ visitors[w] = visitors[v] /\ w < v})

\* ceil(k * n / 3)
Tertile(k) == (k * Cardinality(Active) + 2) \div 3

Stars(v) ==
    IF v \notin Active THEN 0
    ELSE IF Index(v) < Tertile(1) THEN 1
    ELSE IF Index(v) < Tertile(2) THEN 2 ELSE 3

RecalculateCityStars ==
    /\ stars' = [v \in Site |-> Stars(v)]
    /\ UNCHANGED visitors

Spec == Init /\ [][RecalculateCityStars]_vars

-------------------------------------------------------------------------------

\* Once computed, the stars follow the popularity, only a venue without a visitor has none,
\* and the three tertiles differ by one venue at most.
StarsFair ==
    LET tertile(k) == Cardinality({v \in Site : stars[v] = k})
    IN  stars # [v \in Site |-> 0] =>
          /\ \A v, w \in Site : visitors[v] < visitors[w] => stars[v] <= stars[w]
          /\ \A v \in Site : stars[v] = 0 <=> visitors[v] = 0
          /\ \A j, k \in 1 .. 3 : tertile(j) <= tertile(k) + 1
===============================================================================
