---------------------------------- MODULE Chat ----------------------------------
(***************************************************************************)
(* Two users who follow, block and write to each other                     *)
(* (controllers/follow.controller.js, blocks.controller.js,                *)
(* chat.controller.js): follow requests either way, blocks, their one      *)
(* conversation, its messages and how far each has read.  Every check is a *)
(* read of its own, some awaits before the write it guards.                *)
(***************************************************************************)
EXTENDS Naturals, FiniteSets, Sequences

CONSTANTS
    User,         \* the two users
    Req,          \* bound: requests in progress at once
    MaxFollows,   \* bound: follow requests ever created
    MaxMessages,  \* bound: messages
    None

ASSUME BoundsAssumption ==
    /\ Cardinality(User) = 2
    /\ MaxFollows \in Nat /\ MaxMessages \in Nat

VARIABLES
    follows,   \* the FollowRequest documents, deleted ones included
    blocks,    \* the users who block the other
    convo,     \* the Conversation document
    messages,  \* the senders of the Message documents; createdAt is the position
    req,       \* the requests in progress
    agreed     \* some request was accepted by its target (not in the code)

vars == <<follows, blocks, convo, messages, req, agreed>>

Follow == [by : User, status : {"pending", "accepted", "deleted"}]

Conversation == [last : 0 .. MaxMessages, read : [User -> 0 .. MaxMessages]]

Request ==
    [op : {"follow", "accept", "send", "read"}, by : User,
     phase : {"look", "create", "save", "relation", "open", "post", "stamp", "mark"},
     at : 0 .. MaxMessages + MaxFollows]  \* the follow request, or the message

ASSUME NoneAssumption == None \notin Conversation \cup Request

TypeOK ==
    /\ follows \in Seq(Follow) /\ Len(follows) <= MaxFollows
    /\ \A i, j \in DOMAIN follows :    \* the index on the pair
         follows[i].by = follows[j].by /\ i # j =>
           "deleted" \in {follows[i].status, follows[j].status}
    /\ blocks \subseteq User
    /\ convo \in Conversation \cup {None}
    /\ messages \in Seq(User) /\ Len(messages) <= MaxMessages
    /\ req \in [Req -> Request \cup {None}]
    /\ agreed \in BOOLEAN

Init ==
    /\ follows = <<>>
    /\ blocks = {}
    /\ convo = None
    /\ messages = <<>>
    /\ req = [r \in Req |-> None]
    /\ agreed = FALSE

-------------------------------------------------------------------------------

Starts(r, op, u, phase, at) ==
    /\ req[r] = None
    /\ req' = [req EXCEPT ![r] = [op |-> op, by |-> u, phase |-> phase, at |-> at]]
    /\ UNCHANGED <<follows, blocks, convo, messages, agreed>>

In(r, op, phase) == req[r] # None /\ req[r].op = op /\ req[r].phase = phase

Goes(r, phase) == req' = [req EXCEPT ![r].phase = phase]

Ends(r) == req' = [req EXCEPT ![r] = None]

Alive(i) == follows[i].status # "deleted"

\* Mutant of Pending: the pair has no unique index.
Pending_NoIndex(u) == FALSE

Pending(u) == \E i \in DOMAIN follows : Alive(i) /\ follows[i].by = u

\* Mutant of Accepted: any request between the two will do.
Accepted_Any == \E i \in DOMAIN follows : Alive(i)

\* ensureAcceptedRelation
Accepted == \E i \in DOMAIN follows : follows[i].status = "accepted"

\* getBlockedIds: either of the two blocks the other.
Blocked == blocks # {}

-------------------------------------------------------------------------------
\* Follow requests and blocks

AskFollow(r, u) == ~Blocked /\ Starts(r, "follow", u, "look", 0)

\* One request either way is enough.
LookFollow(r) ==
    /\ In(r, "follow", "look")
    /\ IF \E i \in DOMAIN follows : Alive(i) THEN Ends(r) ELSE Goes(r, "create")
    /\ UNCHANGED <<follows, blocks, convo, messages, agreed>>

\* Two crossing requests both pass the look; the index refuses only the same one twice.
CreateFollow(r) ==
    /\ In(r, "follow", "create")
    /\ IF Pending(req[r].by) THEN UNCHANGED follows
       ELSE /\ Len(follows) < MaxFollows
            /\ follows' = Append(follows, [by |-> req[r].by, status |-> "pending"])
    /\ Ends(r)
    /\ UNCHANGED <<blocks, convo, messages, agreed>>

Accept(r, i) ==
    /\ Alive(i)
    /\ \E u \in User \ {follows[i].by} : Starts(r, "accept", u, "save", i)

\* Of a request deleted since it was read, the save fails.
AcceptSave(r) ==
    /\ In(r, "accept", "save")
    /\ IF Alive(req[r].at)
       THEN follows' = [follows EXCEPT ![req[r].at].status = "accepted"] /\ agreed' = TRUE
       ELSE UNCHANGED <<follows, agreed>>
    /\ Ends(r)
    /\ UNCHANGED <<blocks, convo, messages>>

\* Either of the two may decline or withdraw a request, or end the relation.
Decline(i) ==
    /\ Alive(i)
    /\ follows' = [follows EXCEPT ![i].status = "deleted"]
    /\ UNCHANGED <<blocks, convo, messages, req, agreed>>

Block(u) ==
    /\ blocks' = IF u \in blocks THEN blocks \ {u} ELSE blocks \cup {u}
    /\ UNCHANGED <<follows, convo, messages, req, agreed>>

-------------------------------------------------------------------------------
\* Messages

\* With the id of a conversation, neither the blocks nor the relation are looked at.
Send(r, u) ==
    \/ ~Blocked /\ Starts(r, "send", u, "relation", 0)
    \/ convo # None /\ Starts(r, "send", u, "post", 0)

CheckRelation(r) ==
    /\ In(r, "send", "relation")
    /\ IF Accepted THEN Goes(r, "open") ELSE Ends(r)
    /\ UNCHANGED <<follows, blocks, convo, messages, agreed>>

\* The look-up and the creation; a creation that comes second fails on pairKey.
Open(r) ==
    /\ In(r, "send", "open")
    /\ \/ convo = None /\ convo' = [last |-> 0, read |-> [u \in User |-> 0]] /\ Goes(r, "post")
       \/ convo # None /\ UNCHANGED convo /\ Goes(r, "post")
    /\ UNCHANGED <<follows, blocks, messages, agreed>>

Post(r) ==
    /\ In(r, "send", "post") /\ Len(messages) < MaxMessages
    /\ messages' = Append(messages, req[r].by)
    /\ req' = [req EXCEPT ![r].phase = "stamp", ![r].at = Len(messages')]
    /\ UNCHANGED <<follows, blocks, convo, agreed>>

\* Of two messages posted together, the one stamped last is shown as the last.
Stamp(r) ==
    /\ In(r, "send", "stamp")
    /\ convo' = [convo EXCEPT !.last = req[r].at]
    /\ Goes(r, "mark")
    /\ UNCHANGED <<follows, blocks, messages, agreed>>

MarkRead(r, u, i) == convo # None /\ Starts(r, "read", u, "mark", i)

\* upsertReadState saves the caller's element of the array.
SaveRead(r) ==
    /\ req[r] # None /\ req[r].phase = "mark"
    /\ convo' = [convo EXCEPT !.read[req[r].by] = req[r].at]
    /\ Ends(r)
    /\ UNCHANGED <<follows, blocks, messages, agreed>>

\* A version conflict, a duplicate key, a lost connection or a crash ends a request.
Fails(r) ==
    /\ req[r] # None
    /\ Ends(r)
    /\ UNCHANGED <<follows, blocks, convo, messages, agreed>>

Next ==
    \/ \E r \in Req :
         \/ LookFollow(r) \/ CreateFollow(r) \/ AcceptSave(r) \/ CheckRelation(r) \/ Open(r)
         \/ Post(r) \/ Stamp(r) \/ SaveRead(r) \/ Fails(r)
         \/ \E i \in DOMAIN follows : Accept(r, i)
         \/ \E u \in User : \/ AskFollow(r, u) \/ Send(r, u)
                            \/ \E i \in DOMAIN messages : MarkRead(r, u, i)
    \/ \E i \in DOMAIN follows : Decline(i)
    \/ \E u \in User : Block(u)

Spec == Init /\ [][Next]_vars

-------------------------------------------------------------------------------

\* Nobody is written to who has not, at some time, accepted a request of the sender or
\* had one accepted: however requests cross, are withdrawn or are declined meanwhile.
TalkNeedsConsent == messages # <<>> => agreed
===============================================================================
