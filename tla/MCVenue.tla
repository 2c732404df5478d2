-------------------------------- MODULE MCVenue --------------------------------
(* A small instance of VenuePage. Items and pictures have no field and no file in common, *)
(* but for the picture a story needs, so that few of their overlaps are worth a state.    *)
EXTENDS VenuePage, TLC

\* Bound: once both items are uploaded, the picture stays as it is.
PictureFirst ==
    (\E r \in Req : req[r] # None /\ req[r].op = "logo") => \E i \in Item : kind[i] = None

VenueNext == Next /\ PictureFirst'

VenueSpec == Init /\ [][VenueNext]_vars

Sym == Permutations(Req) \cup Permutations(Item) \cup Permutations(Picture)
===============================================================================
