------------------------------- MODULE MCAccount -------------------------------
(* The account of a user of the application, the accounts of the professionals with the  *)
(* venues they claim, and the wallet of a user, in one run.  They share no state, so a   *)
(* behaviour is one of any of them.                                                      *)
EXTENDS Account, Integers, TLC

CONSTANTS Venue, Manual, Company, Claim, User, Floor, Pack, MaxBalance

VARIABLES
    venue, company, claim, cases,               \* of Directory
    wallet, due, superlikes, spending, charged, \* of Wallet
    side                                        \* which of them runs

D == INSTANCE Directory WITH Email <- Addr, Account <- Company, account <- company, req <- cases
W == INSTANCE Wallet WITH sent <- superlikes, req <- spending

ASSUME DirectoryAssumption ==
    /\ {None, Gone} \cap (Company \cup D!AccountDocument \cup {"unowned"}) = {}
    /\ "unowned" \notin Company
    /\ None \notin D!ClaimDocument \cup D!Request

ASSUME WalletAssumption ==
    /\ Floor \in Nat /\ Pack \subseteq Nat
    /\ None \notin {"pending", "accepted"}

directory == <<venue, company, claim, cases>>
purse == <<wallet, due, superlikes, spending, charged>>

AccountsInit == Init /\ D!Init /\ W!Init /\ side \in {"user", "directory", "wallet"}

AccountsNext ==
    /\ UNCHANGED side
    /\ \/ side = "user" /\ Next /\ UNCHANGED <<directory, purse>>
       \/ side = "directory" /\ D!Next /\ UNCHANGED <<vars, purse>>
       \/ side = "wallet" /\ W!Next /\ UNCHANGED <<vars, directory>>

Accounts == AccountsInit /\ [][AccountsNext]_<<vars, directory, purse, side>>

\* Each component's documents keep their shape.
AccountsTypeOK == TypeOK /\ D!TypeOK /\ W!TypeOK

\* Directory: an account owns one venue at most, and is invited by a recorded claim of it.
OneToOne == D!OneToOne

\* Wallet: no overlap of requests spends what is not there.
NothingForFree == W!NothingForFree

\* Accounts of professionals and targets of superlikes may have the names of passwords, which
\* only the other components use.
Sym == Permutations(Pwd) \cup Permutations(Addr) \cup Permutations(Req)
===============================================================================
