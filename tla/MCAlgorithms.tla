------------------------------ MODULE MCAlgorithms ------------------------------
(* Three pure algorithms in one run: the list of venues, the stars of a city, and the    *)
(* venue of a phone that lies still.  They share no state, so a behaviour is one of any  *)
(* of them, from each of its inputs, and the variables of the others keep one value.     *)
EXTENDS VenueMatch

CONSTANTS Places, Limits, Kms, Radii, Scores, Ahead, Window,
          MaxVisitors,
          Lists,       \* the lists of candidates of MatchStability
          v1, v2, v3

ASSUME SearchAssumption ==
    /\ Places \in Nat /\ Limits \subseteq Nat \ {0} /\ Window \in Nat \ {0}
    /\ Kms \subseteq Nat /\ Radii \subseteq Nat /\ Scores \subseteq Nat
ASSUME ListsAssumption == Lists \subseteq Seq(Candidate)

VARIABLES km, kind, score, sponsor, limit, list, listed,
          visitors, stars,
          cands, old, pending, beats, gpsOnly,
          side   \* which of them runs

Dists == {0, 11, 12, 50, 55, 56, 61}
Metres == {0, 20, 80}

Spot == [dist : Dists, radius : Metres]
Named(v, s) == [id |-> v, dist |-> s.dist, radius |-> s.radius]

\* Up to three venues, at distances and radii on both sides of every threshold.
MCLists ==
    { << >> }
    \cup { << Named(v1, s) >> : s \in Spot }
    \cup { << Named(v1, p[1]), Named(v2, p[2]) >> :
              p \in {q \in Spot \X Spot : q[1].dist <= q[2].dist} }
    \cup { << Named(v1, p[1]), Named(v2, p[2]), Named(v3, p[3]) >> :
              p \in {q \in Spot \X Spot \X Spot :
                        /\ q[1].dist <= q[2].dist /\ q[2].dist <= q[3].dist
                        /\ q[1].radius = 0 /\ q[3].radius # 80} }

S == INSTANCE VenueSearch
C == INSTANCE CityStars
MS == INSTANCE MatchStability

search == <<km, kind, score, sponsor, limit, list, listed>>
city == <<visitors, stars>>
match == <<cands, old, pending, beats, gpsOnly>>

Pinned ==
    /\ km = << >> /\ kind = << >> /\ score = << >> /\ sponsor = 0 /\ limit = 1
    /\ list = << >> /\ listed = FALSE

PinnedCity == visitors = << >> /\ stars = << >>

PinnedMatch == cands = << >> /\ old = NoVenue /\ pending = NoVenue /\ beats = 0 /\ gpsOnly = TRUE

AlgorithmsInit ==
    \/ side = "search" /\ S!Init /\ PinnedCity /\ PinnedMatch
    \/ side = "stars" /\ C!Init /\ Pinned /\ PinnedMatch
    \/ side = "match" /\ MS!Init /\ Pinned /\ PinnedCity

AlgorithmsNext ==
    /\ UNCHANGED side
    /\ \/ side = "search" /\ S!GetLocations /\ UNCHANGED <<city, match>>
       \/ side = "stars" /\ C!RecalculateCityStars /\ UNCHANGED <<search, match>>
       \/ side = "match" /\ MS!Beat /\ UNCHANGED <<search, city>>

Algorithms == AlgorithmsInit /\ [][AlgorithmsNext]_<<search, city, match, side>>

\* The list, the stars and the match of a heartbeat keep their shape.
AlgorithmsTypeOK ==
    /\ side = "search" => S!TypeOK
    /\ side = "stars" => C!TypeOK
    /\ side = "match" => MS!TypeOK

\* VenueSearch and CityStars: the list of venues is the one asked for, and the stars follow
\* the popularity.
RankedFairly ==
    /\ side = "search" => S!ListSound
    /\ side = "stars" => C!StarsFair

\* MatchStability: a phone that lies still settles, in no far venue, and stays.
MatchSound == MS!MatchSound
=================================================================================
