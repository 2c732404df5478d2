------------------------------- MODULE MCCommunity -------------------------------
\* Chat and Moderation in one run: they share no state, so a behaviour is one of either.
EXTENDS Chat, TLC

CONSTANTS Report, Warning

VARIABLES user, expired, reports, cases,
          side   \* which of the two runs

M == INSTANCE Moderation WITH req <- cases

ASSUME ModerationAssumption == None \notin M!Document \cup M!Request

moderation == <<user, expired, reports, cases>>

CommunityInit == Init /\ M!Init /\ side \in {"chat", "moderation"}

CommunityNext ==
    \/ side = "chat" /\ Next /\ UNCHANGED <<moderation, side>>
    \/ side = "moderation" /\ M!Next /\ UNCHANGED <<vars, side>>

Community == CommunityInit /\ [][CommunityNext]_<<vars, moderation, side>>

\* Both documents keep their shape.
CommunityTypeOK == TypeOK /\ M!TypeOK

\* Moderation: a sanction is only lifted by someone who saw it and meant to.
SanctionsKept == M!SanctionsKept

Sym == Permutations(Req) \cup Permutations(User) \cup Permutations(Warning) \cup Permutations(Report)
===============================================================================
