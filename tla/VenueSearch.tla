------------------------------ MODULE VenueSearch ------------------------------
(***************************************************************************)
(* The list of venues around a user (getLocations of                       *)
(* controllers/location.controller.js): venues of the day or of the night  *)
(* within a growing radius, ranked by a score, completed if there are too  *)
(* few, with the sponsored venue.  A pure algorithm over the collection.   *)
(*                                                                         *)
(* Venues are numbered by their distance, which is in kilometres; a score  *)
(* stands for the sum of weights the database computes.                    *)
(***************************************************************************)
EXTENDS Naturals, SequencesExt

CONSTANTS
    Places,    \* the number of venues
    Limits,    \* lengths a client asks for
    Kms,       \* the distances explored
    Radii,     \* RADIUS_STEPS
    Scores,    \* the scores explored
    Ahead,     \* a sponsored venue is shown up to here, 200 km
    Window     \* candidates considered per venue of the list: 3 in the code

VARIABLES
    km, kind, score,   \* of each venue
    sponsor,           \* the sponsored venue, or 0
    limit,             \* asked for
    list,              \* the answer
    listed             \* was it computed

vars == <<km, kind, score, sponsor, limit, list, listed>>

Site == 1 .. Places

\* A type of the vibe asked for, of the other vibe, of neither; or a venue never listed: of
\* the legacy type, or without a name.
Kind == {"in", "out", "neither", "never"}

TypeOK ==
    /\ km \in [Site -> Kms] /\ kind \in [Site -> Kind] /\ score \in [Site -> Scores]
    /\ sponsor \in Site \cup {0} /\ limit \in Limits
    /\ list \in Seq(Site) /\ listed \in BOOLEAN

Init ==
    /\ km \in {f \in [Site -> Kms] : \A v, w \in Site : v <= w => f[v] <= f[w]}
    /\ kind \in [Site -> Kind]
    /\ score \in [Site -> Scores]
    /\ sponsor \in Site \cup {0}
    /\ limit \in Limits
    /\ list = << >> /\ listed = FALSE

-------------------------------------------------------------------------------

\* Mutant of Before: the worst score first.
Before_Worst(v, w) == score[v] < score[w] \/ (score[v] = score[w] /\ v < w)

\* The database ranks venue v before venue w; between equal scores its order is any.
Before(v, w) == score[v] > score[w] \/ (score[v] = score[w] /\ v < w)

ByDistance(S) ==
    CHOOSE s \in [1 .. Cardinality(S) -> S] : \A i, j \in DOMAIN s : i < j => s[i] < s[j]

Ranked(S) ==
    CHOOSE s \in [1 .. Cardinality(S) -> S] : \A i, j \in DOMAIN s : i < j => Before(s[i], s[j])

\* $geoNear, then $limit
Nearest(S) == {v \in S : Cardinality({w \in S : w < v}) < Window * limit}

Within(radius) == {v \in Site : kind[v] = "in" /\ km[v] <= radius}

\* The venues within the first radius that has enough of them, ranked; if none has, all
\* of them by distance.
Found ==
    LET enough == {k \in Radii : Cardinality(Within(k)) >= limit}
    IN  IF enough = {} THEN ByDistance({v \in Site : kind[v] = "in"})
        ELSE Ranked(Nearest(Within(CHOOSE k \in enough : \A j \in enough : k <= j)))

\* Mutant of Fillers: those listed already come again.
Fillers_Any == Nearest({v \in Site : kind[v] \in {"in", "neither"}})

\* What completes a list: never a venue of the other vibe.
Fillers == Nearest({v \in Site : kind[v] \in {"in", "neither"}}) \ ToSet(Found)

Completed == IF Len(Found) >= limit THEN Found ELSE Found \o ByDistance(Fillers)

Cut(s) == IF Len(s) <= limit THEN s ELSE SubSeq(s, 1, limit)

\* Mutant of Sponsored: there is always a sponsored venue.
Sponsored_Unset(s) ==
    IF sponsor \in ToSet(s) \/ (sponsor # 0 /\ km[sponsor] > Ahead) THEN s ELSE Append(s, sponsor)

\* The sponsored venue comes last if it is not there by itself.
Sponsored(s) ==
    IF sponsor = 0 \/ sponsor \in ToSet(s) THEN s
    ELSE IF km[sponsor] <= Ahead THEN Append(s, sponsor) ELSE s

GetLocations ==
    /\ ~listed /\ listed' = TRUE
    /\ list' = Sponsored(Cut(Completed))
    /\ UNCHANGED <<km, kind, score, sponsor, limit>>

Spec == Init /\ [][GetLocations]_vars

-------------------------------------------------------------------------------

\* Venue v deserves its place more than venue w: nearer, better, and no less of the vibe.
Deserves(v, w) == v < w /\ score[v] > score[w] /\ (kind[v] = "in" \/ kind[w] = "neither")

\* No venue comes twice; none is of the other vibe, or nameless, unless it is the sponsored
\* one, at the end; the list is as long as was asked for whenever there are venues enough; and,
\* the sponsored one apart, those of the vibe come first and a venue is only listed after those
\* which deserve it more, whatever radius was searched and wherever the candidates were cut.
ListSound ==
    LET own == {v \in ToSet(list) : kind[v] \in {"in", "neither"}}
        usable == {v \in Site : kind[v] \in {"in", "neither"}}
    IN  listed =>
          /\ IsInjective(list)
          /\ \A i \in 1 .. Len(list) :
               list[i] \in usable \/ (list[i] = sponsor /\ i = Len(list))
          /\ Len(list) <= limit \/ (Len(list) = limit + 1 /\ list[limit + 1] = sponsor)
          /\ Cardinality(own) >= limit \/ own = usable
          /\ \A j \in 1 .. Len(list) : list[j] # sponsor =>
               /\ \A i \in 1 .. j : kind[list[i]] = "neither" => kind[list[j]] = "neither"
               /\ \A v \in usable : Deserves(v, list[j]) => \E i \in 1 .. j : list[i] = v
===============================================================================
