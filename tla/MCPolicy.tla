-------------------------------- MODULE MCPolicy --------------------------------
(* The policy with one user's consent and the mailing that announces it, in one run: they  *)
(* share no state, so a behaviour is one of either, and the other has nothing under way.   *)
EXTENDS PolicyMail

CONSTANTS MaxVersions, Req, V1

VARIABLES
    published, newest, dates, user, req,   \* of Policy
    side                                   \* which of them runs

\* A number an administrator may type, below the first one drawn.
Typed == {<<0, 9>>}

P == INSTANCE Policy WITH Explicit <- Typed

policy == <<published, newest, dates, user, req>>

PolicyInit == Init /\ P!Init /\ side \in {"mail", "policy"}

PolicyNext ==
    /\ UNCHANGED side
    /\ \/ side = "mail" /\ Next /\ UNCHANGED policy
       \/ side = "policy" /\ P!Next /\ UNCHANGED vars

PolicyAndMail ==
    /\ PolicyInit /\ [][PolicyNext]_<<vars, policy, side>>
    /\ Fairness /\ P!Fairness

PolicyTypeOK == TypeOK /\ P!TypeOK

\* PolicyMail and Policy: every user is mailed each version whose job was created, unless
\* the account is deleted first (updatePolicy swallows a failure to create the job, and such
\* a version is never mailed); and whoever keeps accepting the latest version is not blocked
\* for ever.
EveryoneInformed == EveryoneMailed /\ P!Unblocked
===============================================================================
