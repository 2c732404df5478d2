---------------------------- MODULE CommunityProofs ----------------------------
(***************************************************************************)
(* What holds of two users and of their moderators for any number of       *)
(* requests at once, messages, reports and warnings: nobody is written to  *)
(* without consent, and no sanction is lost to an outdated save.           *)
(***************************************************************************)
EXTENDS MCCommunity, TLAPS

-------------------------------------------------------------------------------
(* Chat: the inductive invariant *)

\* A request acts on a document that exists, and one that passed the check had consent.
RequestSound(q) ==
    /\ q.op = "follow" => q.phase \in {"look", "create"}
    /\ q.op = "accept" => q.phase = "save" /\ q.at \in DOMAIN follows
    /\ q.op = "send" => /\ q.phase \in {"relation", "open", "post", "stamp", "mark"}
                        /\ q.at \in 0 .. MaxMessages
                        /\ q.phase = "open" => agreed
                        /\ q.phase \in {"post", "stamp", "mark"} => convo # None
    /\ q.op = "read" => q.phase = "mark" /\ q.at \in 0 .. MaxMessages /\ convo # None

RequestsSound == \A r \in Req : req[r] # None => RequestSound(req[r])

\* Whatever shows that the two are related comes after an acceptance.
ConsentSound ==
    /\ \A i \in DOMAIN follows : follows[i].status = "accepted" => agreed
    /\ convo # None => agreed

ChatInv == TypeOK /\ RequestsSound /\ ConsentSound /\ TalkNeedsConsent

-------------------------------------------------------------------------------
(* Chat: every step keeps it *)

USE BoundsAssumption

\* Follow requests are never forgotten, nor an acceptance or the conversation.
Grows ==
    /\ DOMAIN follows \subseteq DOMAIN follows'
    /\ agreed => agreed'
    /\ convo # None => convo' # None

LEMMA RequestKept ==
    ASSUME Grows, NEW q, RequestSound(q)
    PROVE  RequestSound(q)'
BY DEF Grows, RequestSound

\* One request moves to c, or starts as c, or ends (c is None); the others are as before.
LEMMA RequestsKept ==
    ASSUME ChatInv, Grows, NEW r \in Req, NEW c \in Request \cup {None},
           req' = [req EXCEPT ![r] = c], c # None => RequestSound(c)'
    PROVE  req' \in [Req -> Request \cup {None}] /\ RequestsSound'
<1>1. req \in [Req -> Request \cup {None}] /\ RequestsSound
  BY DEF ChatInv, TypeOK
<1>2. SUFFICES ASSUME NEW q \in Req, NEW d, d = req'[q], d # None
               PROVE  RequestSound(d)'
  BY <1>1 DEF RequestsSound, RequestSound
<1>3. CASE q = r
  BY <1>1, <1>2, <1>3
<1>4. CASE q # r
  <2>1. d = req[q] /\ RequestSound(d)
    BY <1>1, <1>2, <1>4 DEF RequestsSound
  <2>2. QED
    BY <2>1, RequestKept
<1>5. QED
  BY <1>3, <1>4

LEMMA ChatInit == Init => ChatInv
<1> SUFFICES ASSUME Init
             PROVE  ChatInv
  OBVIOUS
<1>1. /\ follows \in Seq(Follow) /\ Len(follows) = 0 /\ DOMAIN follows = {}
      /\ messages \in Seq(User) /\ Len(messages) = 0 /\ messages = <<>>
  BY DEF Init
<1>2. blocks \subseteq User /\ convo = None /\ req = [r \in Req |-> None] /\ agreed = FALSE
  BY DEF Init
<1>3. TypeOK
  <2>1. Len(follows) <= MaxFollows /\ Len(messages) <= MaxMessages
    BY <1>1
  <2>2. QED
    BY <1>1, <1>2, <2>1, Zenon DEF TypeOK
<1>4. RequestsSound /\ ConsentSound /\ TalkNeedsConsent
  BY <1>1, <1>2 DEF RequestsSound, ConsentSound, TalkNeedsConsent
<1>5. QED
  BY <1>3, <1>4 DEF ChatInv

\* The steps that write no document: a request starts, goes on or ends.
LEMMA RequestOnly ==
    ASSUME ChatInv, NEW r \in Req, NEW c \in Request \cup {None},
           req' = [req EXCEPT ![r] = c], c # None => RequestSound(c),
           UNCHANGED <<follows, blocks, convo, messages, agreed>>
    PROVE  ChatInv'
<1>1. Grows
  BY DEF Grows
<1>2. c # None => RequestSound(c)'
  BY <1>1, RequestKept
<1>3. req' \in [Req -> Request \cup {None}] /\ RequestsSound'
  BY <1>1, <1>2, RequestsKept
<1>4. TypeOK'
  BY <1>3 DEF ChatInv, TypeOK
<1>5. ConsentSound' /\ TalkNeedsConsent'
  BY DEF ChatInv, ConsentSound, TalkNeedsConsent
<1>6. QED
  BY <1>3, <1>4, <1>5 DEF ChatInv

\* The request r, taken out of the invariant.
LEMMA RequestOf ==
    ASSUME ChatInv, NEW r \in Req, req[r] # None
    PROVE  req[r] \in Request /\ RequestSound(req[r])
BY DEF ChatInv, TypeOK, RequestsSound

LEMMA StartSound ==
    ASSUME ChatInv, NEW r \in Req,
           NEW op \in {"follow", "accept", "send", "read"}, NEW u \in User,
           NEW phase \in {"look", "save", "relation", "post", "mark"},
           NEW at \in 0 .. MaxMessages + MaxFollows,
           Starts(r, op, u, phase, at),
           RequestSound([op |-> op, by |-> u, phase |-> phase, at |-> at])
    PROVE  ChatInv'
<1> DEFINE c == [op |-> op, by |-> u, phase |-> phase, at |-> at]
<1>1. c \in Request
  BY DEF Request
<1>2. req' = [req EXCEPT ![r] = c] /\ UNCHANGED <<follows, blocks, convo, messages, agreed>>
  BY DEF Starts
<1> HIDE DEF c
<1>3. RequestSound(c)
  BY DEF c
<1>4. QED
  BY <1>1, <1>2, <1>3, RequestOnly

LEMMA AsksSound ==
    ASSUME ChatInv, NEW r \in Req,
           \/ \E i \in DOMAIN follows : Accept(r, i)
           \/ \E u \in User : \/ AskFollow(r, u) \/ Send(r, u)
                              \/ \E i \in DOMAIN messages : MarkRead(r, u, i)
    PROVE  ChatInv'
<1>1. /\ follows \in Seq(Follow) /\ Len(follows) <= MaxFollows
      /\ messages \in Seq(User) /\ Len(messages) <= MaxMessages
  BY DEF ChatInv, TypeOK
<1>2. ASSUME NEW i \in DOMAIN follows, Accept(r, i)
      PROVE  ChatInv'
  <2>1. PICK u \in User : Starts(r, "accept", u, "save", i)
    BY <1>2 DEF Accept
  <2>2. i \in 0 .. MaxMessages + MaxFollows
    BY <1>1, <1>2
  <2>3. RequestSound([op |-> "accept", by |-> u, phase |-> "save", at |-> i])
    BY <1>2 DEF RequestSound
  <2>4. QED
    BY <2>1, <2>2, <2>3, StartSound
<1>3. ASSUME NEW u \in User, AskFollow(r, u)
      PROVE  ChatInv'
  <2>1. Starts(r, "follow", u, "look", 0) /\ 0 \in 0 .. MaxMessages + MaxFollows
    BY <1>3 DEF AskFollow
  <2>2. RequestSound([op |-> "follow", by |-> u, phase |-> "look", at |-> 0])
    BY DEF RequestSound
  <2>3. QED
    BY <2>1, <2>2, StartSound
<1>4. ASSUME NEW u \in User, Send(r, u)
      PROVE  ChatInv'
  <2>1. PICK phase \in {"relation", "post"} :
          Starts(r, "send", u, phase, 0) /\ (phase = "post" => convo # None)
    BY <1>4 DEF Send
  <2>2. 0 \in 0 .. MaxMessages + MaxFollows /\ 0 \in 0 .. MaxMessages
    OBVIOUS
  <2>3. RequestSound([op |-> "send", by |-> u, phase |-> phase, at |-> 0])
    BY <2>1, <2>2 DEF RequestSound
  <2>4. QED
    BY <2>1, <2>2, <2>3, StartSound
<1>5. ASSUME NEW u \in User, NEW i \in DOMAIN messages, MarkRead(r, u, i)
      PROVE  ChatInv'
  <2>1. Starts(r, "read", u, "mark", i) /\ convo # None
    BY <1>5 DEF MarkRead
  <2>2. i \in 0 .. MaxMessages + MaxFollows /\ i \in 0 .. MaxMessages
    BY <1>1
  <2>3. RequestSound([op |-> "read", by |-> u, phase |-> "mark", at |-> i])
    BY <2>1, <2>2 DEF RequestSound
  <2>4. QED
    BY <2>1, <2>2, <2>3, StartSound
<1>6. QED
  BY <1>2, <1>3, <1>4, <1>5

\* The look-ups, and a request that stops.
LEMMA LooksSound ==
    ASSUME ChatInv, NEW r \in Req, LookFollow(r) \/ CheckRelation(r) \/ Fails(r)
    PROVE  ChatInv'
<1>1. req[r] # None /\ UNCHANGED <<follows, blocks, convo, messages, agreed>>
  BY DEF LookFollow, CheckRelation, Fails, In
<1>2. req[r] \in Request /\ RequestSound(req[r])
  BY <1>1, RequestOf
<1>3. CASE Ends(r)
  BY <1>1, <1>3, RequestOnly DEF Ends
<1>4. CASE LookFollow(r) /\ Goes(r, "create")
  <2>1. PICK c \in Request : c = [req[r] EXCEPT !.phase = "create"]
    BY <1>2 DEF Request
  <2>2. RequestSound(c) /\ req' = [req EXCEPT ![r] = c]
    BY <1>2, <1>4, <2>1 DEF LookFollow, In, RequestSound, Request, Goes
  <2>3. QED
    BY <1>1, <2>2, RequestOnly
<1>5. CASE CheckRelation(r) /\ Accepted /\ Goes(r, "open")
  <2>1. agreed
    BY <1>5 DEF Accepted, ChatInv, ConsentSound
  <2>2. PICK c \in Request : c = [req[r] EXCEPT !.phase = "open"]
    BY <1>2 DEF Request
  <2>3. RequestSound(c) /\ req' = [req EXCEPT ![r] = c]
    BY <1>2, <1>5, <2>1, <2>2 DEF CheckRelation, In, RequestSound, Request, Goes
  <2>4. QED
    BY <1>1, <2>3, RequestOnly
<1>6. QED
  BY <1>3, <1>4, <1>5 DEF LookFollow, CheckRelation, Fails

\* The unique index: of the two directions, each has at most one request that is not deleted.
LEMMA CreateFollowSound ==
    ASSUME ChatInv, NEW r \in Req, CreateFollow(r)
    PROVE  ChatInv'
<1>1. req[r] # None /\ req' = [req EXCEPT ![r] = None] /\ UNCHANGED <<blocks, convo, messages, agreed>>
  BY DEF CreateFollow, In, Ends
<1>2. req[r] \in Request /\ RequestSound(req[r])
  BY <1>1, RequestOf
<1>3. CASE UNCHANGED follows
  BY <1>1, <1>3, RequestOnly
<1>4. CASE /\ ~Pending(req[r].by) /\ Len(follows) < MaxFollows
           /\ follows' = Append(follows, [by |-> req[r].by, status |-> "pending"])
  <2>1. follows \in Seq(Follow) /\ [by |-> req[r].by, status |-> "pending"] \in Follow
    BY <1>2 DEF ChatInv, TypeOK, Follow, Request
  <2>2. /\ follows' \in Seq(Follow) /\ Len(follows') = Len(follows) + 1
        /\ DOMAIN follows = 1 .. Len(follows) /\ DOMAIN follows' = 1 .. Len(follows')
        /\ \A i \in DOMAIN follows : follows'[i] = follows[i]
        /\ follows'[Len(follows')] = [by |-> req[r].by, status |-> "pending"]
    BY <1>4, <2>1
  <2>3. Grows
    BY <1>1, <2>1, <2>2 DEF Grows
  <2>4. req' \in [Req -> Request \cup {None}] /\ RequestsSound'
    BY <1>1, <2>3, RequestsKept
  <2>5. ASSUME NEW i \in DOMAIN follows', NEW j \in DOMAIN follows',
               follows'[i].by = follows'[j].by, i # j
        PROVE  "deleted" \in {follows'[i].status, follows'[j].status}
    <3>1. CASE i \in DOMAIN follows /\ j \in DOMAIN follows
      BY <2>2, <2>5, <3>1 DEF ChatInv, TypeOK
    <3>2. CASE i = Len(follows') /\ j \in DOMAIN follows
      BY <1>4, <2>2, <2>5, <3>2 DEF Pending, Alive
    <3>3. CASE j = Len(follows') /\ i \in DOMAIN follows
      BY <1>4, <2>2, <2>5, <3>3 DEF Pending, Alive
    <3>4. QED
      BY <2>1, <2>2, <2>5, <3>1, <3>2, <3>3
  <2>6. Len(follows') <= MaxFollows
    BY <1>4, <2>1, <2>2
  <2>7. TypeOK'
    BY <1>1, <2>2, <2>4, <2>5, <2>6 DEF ChatInv, TypeOK
  <2>8. ConsentSound' /\ TalkNeedsConsent'
    <3>1. ASSUME NEW i \in DOMAIN follows', follows'[i].status = "accepted"
          PROVE  agreed
      BY <2>1, <2>2, <3>1 DEF ChatInv, ConsentSound
    <3>2. QED
      BY <1>1, <3>1 DEF ChatInv, ConsentSound, TalkNeedsConsent
  <2>9. QED
    BY <2>4, <2>7, <2>8 DEF ChatInv
<1>5. QED
  BY <1>3, <1>4 DEF CreateFollow

\* The status of one request changes; a deleted one never comes back.
LEMMA StatusSound ==
    ASSUME ChatInv, NEW i \in DOMAIN follows, NEW status \in {"accepted", "deleted"},
           Alive(i), follows' = [follows EXCEPT ![i].status = status],
           agreed' = (status = "accepted" \/ agreed), UNCHANGED <<blocks, convo, messages>>,
           \/ UNCHANGED req
           \/ \E r \in Req : req' = [req EXCEPT ![r] = None]
    PROVE  ChatInv'
<1>1. follows \in Seq(Follow) /\ agreed \in BOOLEAN
  BY DEF ChatInv, TypeOK
<1>2. /\ follows' \in Seq(Follow) /\ Len(follows') = Len(follows)
      /\ DOMAIN follows' = DOMAIN follows
  <2>1. follows[i] \in Follow
    BY <1>1
  <2>2. PICK f \in Follow : f = [follows[i] EXCEPT !.status = status]
    BY <2>1 DEF Follow
  <2>3. follows' = [follows EXCEPT ![i] = f]
    BY <2>2
  <2>4. QED
    BY <1>1, <2>3
<1>3. \A k \in DOMAIN follows :
        /\ follows'[k].by = follows[k].by
        /\ follows'[k].status = IF k = i THEN status ELSE follows[k].status
  BY <1>1 DEF Follow
<1>4. Grows
  BY <1>2, Zenon DEF Grows
<1>5. req' \in [Req -> Request \cup {None}] /\ RequestsSound'
  <2>1. CASE UNCHANGED req
    <3>1. req \in [Req -> Request \cup {None}]
      BY DEF ChatInv, TypeOK
    <3>2. SUFFICES ASSUME NEW q \in Req, NEW d, d = req'[q], d # None
                   PROVE  RequestSound(d)'
      BY <2>1, <3>1 DEF RequestsSound, RequestSound
    <3>3. RequestSound(d)
      BY <2>1, <3>2 DEF ChatInv, RequestsSound
    <3>4. QED
      BY <1>4, <3>3, RequestKept
  <2>2. ASSUME NEW r \in Req, req' = [req EXCEPT ![r] = None]
        PROVE  req' \in [Req -> Request \cup {None}] /\ RequestsSound'
    BY <1>4, <2>2, RequestsKept
  <2>3. QED
    BY <2>1, <2>2
<1>6. ASSUME NEW j \in DOMAIN follows, NEW k \in DOMAIN follows,
             follows'[j].by = follows'[k].by, j # k
      PROVE  "deleted" \in {follows'[j].status, follows'[k].status}
  BY <1>3, <1>6 DEF ChatInv, TypeOK, Alive
<1>7. TypeOK'
  BY <1>1, <1>2, <1>5, <1>6 DEF ChatInv, TypeOK
<1>8. ConsentSound' /\ TalkNeedsConsent'
  BY <1>2, <1>3 DEF ChatInv, ConsentSound, TalkNeedsConsent
<1>9. QED
  BY <1>5, <1>7, <1>8 DEF ChatInv

LEMMA AcceptSaveSound ==
    ASSUME ChatInv, NEW r \in Req, AcceptSave(r)
    PROVE  ChatInv'
<1>1. req[r] # None /\ req' = [req EXCEPT ![r] = None] /\ UNCHANGED <<blocks, convo, messages>>
  BY DEF AcceptSave, In, Ends
<1>2. req[r].at \in DOMAIN follows
  BY <1>1, RequestOf DEF AcceptSave, In, RequestSound
<1>3. CASE Alive(req[r].at)
  BY <1>1, <1>2, <1>3, StatusSound DEF AcceptSave
<1>4. CASE ~Alive(req[r].at)
  BY <1>1, <1>4, RequestOnly DEF AcceptSave
<1>5. QED
  BY <1>3, <1>4

LEMMA DeclineSound ==
    ASSUME ChatInv, NEW i \in DOMAIN follows, Decline(i)
    PROVE  ChatInv'
<1>1. agreed' = ("deleted" = "accepted" \/ agreed)
  BY DEF Decline, ChatInv, TypeOK
<1>2. QED
  BY <1>1, StatusSound DEF Decline

\* Blocks are looked at when a request starts, and bind nothing that is under way.
LEMMA BlockSound ==
    ASSUME ChatInv, NEW u \in User, Block(u)
    PROVE  ChatInv'
<1>1. UNCHANGED <<follows, convo, messages, req, agreed>> /\ blocks' \subseteq User
  BY DEF Block, ChatInv, TypeOK
<1>2. QED
  BY <1>1 DEF ChatInv, TypeOK, RequestsSound, RequestSound, ConsentSound, TalkNeedsConsent

LEMMA OpenSound ==
    ASSUME ChatInv, NEW r \in Req, Open(r)
    PROVE  ChatInv'
<1>1. /\ req[r] # None /\ req[r].op = "send" /\ req[r].phase = "open"
      /\ req' = [req EXCEPT ![r].phase = "post"] /\ UNCHANGED <<follows, blocks, messages, agreed>>
  BY DEF Open, In, Goes
<1>2. req[r] \in Request /\ RequestSound(req[r])
  BY <1>1, RequestOf
<1>3. agreed
  BY <1>1, <1>2 DEF RequestSound
<1>4. convo' \in Conversation /\ convo' # None
  <2>1. CASE convo # None
    BY <2>1 DEF Open, ChatInv, TypeOK
  <2>2. CASE convo = None
    <3>1. convo' = [last |-> 0, read |-> [u \in User |-> 0]]
      BY <2>2 DEF Open
    <3>2. 0 \in 0 .. MaxMessages
      OBVIOUS
    <3>3. convo' \in Conversation
      BY <3>1, <3>2 DEF Conversation
    <3>4. QED
      BY <3>3, NoneAssumption
  <2>3. QED
    BY <2>1, <2>2
<1>5. Grows
  BY <1>1, <1>4 DEF Grows
<1>6. PICK c \in Request : c = [req[r] EXCEPT !.phase = "post"]
  BY <1>2 DEF Request
<1>7. RequestSound(c)' /\ req' = [req EXCEPT ![r] = c]
  BY <1>1, <1>2, <1>4, <1>6 DEF RequestSound, Request
<1>8. req' \in [Req -> Request \cup {None}] /\ RequestsSound'
  BY <1>5, <1>7, RequestsKept
<1>9. TypeOK'
  BY <1>1, <1>4, <1>8 DEF ChatInv, TypeOK
<1>10. ConsentSound' /\ TalkNeedsConsent'
  BY <1>1, <1>3 DEF ChatInv, ConsentSound, TalkNeedsConsent
<1>11. QED
  BY <1>8, <1>9, <1>10 DEF ChatInv

LEMMA PostSound ==
    ASSUME ChatInv, NEW r \in Req, Post(r)
    PROVE  ChatInv'
<1>1. /\ req[r] # None /\ req[r].op = "send" /\ req[r].phase = "post"
      /\ UNCHANGED <<follows, blocks, convo, agreed>>
  BY DEF Post, In
<1>2. req[r] \in Request /\ RequestSound(req[r]) /\ convo # None /\ agreed
  BY <1>1, RequestOf DEF RequestSound, ChatInv, ConsentSound
<1>3. messages' \in Seq(User) /\ Len(messages') \in 0 .. MaxMessages
  <2>1. messages \in Seq(User) /\ req[r].by \in User /\ Len(messages) < MaxMessages
    BY <1>2 DEF Post, ChatInv, TypeOK, Request
  <2>2. messages' = Append(messages, req[r].by)
    BY DEF Post
  <2>3. QED
    BY <2>1, <2>2
<1>4. Grows
  BY <1>1 DEF Grows
<1>5. PICK n \in 0 .. MaxMessages : n = Len(messages')
  BY <1>3
<1>6. n \in 0 .. MaxMessages + MaxFollows
  OBVIOUS
<1>7. PICK c \in Request : c = [req[r] EXCEPT !.phase = "stamp", !.at = n]
  BY <1>2, <1>6 DEF Request
<1>8. RequestSound(c)'
  <2>1. c.op = "send" /\ c.phase = "stamp" /\ c.at = n
    BY <1>1, <1>2, <1>7 DEF Request
  <2>2. QED
    BY <1>1, <1>2, <1>5, <2>1 DEF RequestSound
<1>9. req' = [req EXCEPT ![r] = c]
  BY <1>5, <1>7 DEF Post
<1>10. req' \in [Req -> Request \cup {None}] /\ RequestsSound'
  BY <1>4, <1>8, <1>9, RequestsKept
<1>11. TypeOK'
  BY <1>1, <1>3, <1>10 DEF ChatInv, TypeOK
<1>12. ConsentSound' /\ TalkNeedsConsent'
  BY <1>1, <1>2 DEF ChatInv, ConsentSound, TalkNeedsConsent
<1>13. QED
  BY <1>10, <1>11, <1>12 DEF ChatInv

\* The conversation is written by id: the last message, or how far one of the two has read.
LEMMA StampSound ==
    ASSUME ChatInv, NEW r \in Req, Stamp(r) \/ SaveRead(r)
    PROVE  ChatInv'
<1>1. req[r] # None /\ UNCHANGED <<follows, blocks, messages, agreed>>
  BY DEF Stamp, SaveRead, In
<1>2. req[r] \in Request /\ RequestSound(req[r])
  BY <1>1, RequestOf
<1>3. req[r].at \in 0 .. MaxMessages /\ convo # None
  BY <1>2 DEF Stamp, SaveRead, In, RequestSound, Request
<1>4. convo \in Conversation /\ agreed
  BY <1>3 DEF ChatInv, TypeOK, ConsentSound
<1>5. convo' \in Conversation /\ convo' # None
  <2>1. CASE Stamp(r)
    BY <1>3, <1>4, <2>1, NoneAssumption DEF Stamp, Conversation
  <2>2. CASE SaveRead(r)
    <3>1. convo' = [convo EXCEPT !.read = [convo.read EXCEPT ![req[r].by] = req[r].at]]
      BY <2>2 DEF SaveRead
    <3>2. [convo.read EXCEPT ![req[r].by] = req[r].at] \in [User -> 0 .. MaxMessages]
      BY <1>2, <1>3, <1>4 DEF Conversation, Request
    <3>3. convo' \in Conversation
      BY <1>4, <3>1, <3>2 DEF Conversation
    <3>4. QED
      BY <3>3, NoneAssumption
  <2>3. QED
    BY <2>1, <2>2
<1>6. Grows
  BY <1>1, <1>5 DEF Grows
<1>7. PICK c \in Request \cup {None} : req' = [req EXCEPT ![r] = c] /\ (c # None => RequestSound(c)')
  <2>1. CASE SaveRead(r)
    BY <2>1 DEF SaveRead, Ends
  <2>2. CASE Stamp(r)
    <3>1. PICK c \in Request : c = [req[r] EXCEPT !.phase = "mark"]
      BY <1>2 DEF Request
    <3>2. c.op = "send" /\ c.phase = "mark" /\ c.at = req[r].at
      BY <1>2, <2>2, <3>1 DEF Stamp, In, Request
    <3>3. RequestSound(c)'
      BY <1>3, <1>5, <3>2 DEF RequestSound
    <3>4. QED
      BY <2>2, <3>1, <3>3 DEF Stamp, Goes
  <2>3. QED
    BY <2>1, <2>2
<1>8. req' \in [Req -> Request \cup {None}] /\ RequestsSound'
  BY <1>6, <1>7, RequestsKept
<1>9. TypeOK'
  BY <1>1, <1>5, <1>8 DEF ChatInv, TypeOK
<1>10. ConsentSound' /\ TalkNeedsConsent'
  BY <1>1, <1>4 DEF ChatInv, ConsentSound, TalkNeedsConsent
<1>11. QED
  BY <1>8, <1>9, <1>10 DEF ChatInv

LEMMA ChatStep == ChatInv /\ [Next]_vars => ChatInv'
<1> SUFFICES ASSUME ChatInv, [Next]_vars
             PROVE  ChatInv'
  OBVIOUS
<1>1. CASE UNCHANGED vars
  BY <1>1 DEF vars, ChatInv, TypeOK, RequestsSound, RequestSound, ConsentSound, TalkNeedsConsent
<1>2. CASE Next
  BY <1>2, AsksSound, LooksSound, CreateFollowSound, AcceptSaveSound, DeclineSound, BlockSound,
     OpenSound, PostSound, StampSound DEF Next
<1>3. QED
  BY <1>1, <1>2

LEMMA ChatSound == Spec => []ChatInv
BY ChatInit, ChatStep, PTL DEF Spec

-------------------------------------------------------------------------------
(* Moderation: the inductive invariant *)

\* A save knows what it read; while it is fresh, the warnings are still those.
SeenSound ==
    \A r \in Req : M!In(r, "save") =>
        /\ cases[r].seen \in M!Document
        /\ cases[r].fresh => cases[r].seen.history = user.history

ModerationInv == M!TypeOK /\ SeenSound

-------------------------------------------------------------------------------
(* Moderation: every step keeps it *)

LEMMA ModerationInit == M!Init => ModerationInv
BY ModerationAssumption DEF M!Init, ModerationInv, M!TypeOK, SeenSound, M!In, M!Document

\* One request starts, goes on or ends as c, and no document of the user is written.
LEMMA CaseKept ==
    ASSUME ModerationInv, NEW r \in Req, NEW c \in M!Request \cup {None},
           cases' = [cases EXCEPT ![r] = c],
           c # None /\ c.phase = "save" => c.seen = user,
           UNCHANGED <<user, expired>>, reports' \in [Report -> {"none", "pending", "resolved", "dismissed"}]
    PROVE  ModerationInv'
<1>1. M!TypeOK'
  BY DEF ModerationInv, M!TypeOK
<1>2. SeenSound'
  <2> SUFFICES ASSUME NEW q \in Req, M!In(q, "save")'
               PROVE  /\ cases'[q].seen \in M!Document
                      /\ cases'[q].fresh => cases'[q].seen.history = user.history
    BY DEF SeenSound
  <2>1. CASE q = r
    BY <2>1 DEF M!In, ModerationInv, M!TypeOK
  <2>2. CASE q # r
    BY <2>2 DEF M!In, ModerationInv, M!TypeOK, SeenSound
  <2>3. QED
    BY <2>1, <2>2
<1>3. QED
  BY <1>1, <1>2 DEF ModerationInv

LEMMA CaseStarts ==
    ASSUME ModerationInv, NEW r \in Req, NEW op \in M!Action \cup {"report", "me"},
           NEW phase \in {"read", "save", "close", "create"}, NEW i \in Report \cup {None},
           M!Starts(r, op, phase, i)
    PROVE  ModerationInv'
<1>1. PICK c : c = [op |-> op, phase |-> phase, report |-> i,
                    seen |-> IF phase = "save" THEN user ELSE None, fresh |-> TRUE]
  OBVIOUS
<1>2. c \in M!Request /\ (c.phase = "save" => c.seen = user)
  BY <1>1 DEF M!Request, ModerationInv, M!TypeOK
<1>3. cases' = [cases EXCEPT ![r] = c] /\ UNCHANGED <<user, expired, reports>>
  BY <1>1 DEF M!Starts
<1>4. QED
  BY <1>2, <1>3, CaseKept DEF ModerationInv, M!TypeOK

LEMMA CasesStart ==
    ASSUME ModerationInv, NEW r \in Req,
           \/ M!Me(r)
           \/ \E i \in Report : M!File(r, i) \/ \E action \in M!Action : M!Act(r, i, action)
           \/ \E action \in M!Action : M!Moderate(r, action)
    PROVE  ModerationInv'
<1>1. CASE M!Me(r)
  BY <1>1, CaseStarts DEF M!Me
<1>2. ASSUME NEW i \in Report, M!File(r, i)
      PROVE  ModerationInv'
  BY <1>2, CaseStarts DEF M!File
<1>3. ASSUME NEW i \in Report, NEW action \in M!Action, M!Act(r, i, action)
      PROVE  ModerationInv'
  BY <1>3, CaseStarts DEF M!Act
<1>4. ASSUME NEW action \in M!Action, M!Moderate(r, action)
      PROVE  ModerationInv'
  BY <1>4, CaseStarts DEF M!Moderate
<1>5. QED
  BY <1>1, <1>2, <1>3, <1>4

LEMMA CasesGoOn ==
    ASSUME ModerationInv, NEW r \in Req,
           M!Create(r) \/ M!ReadTarget(r) \/ M!Close(r) \/ M!Fails(r)
    PROVE  ModerationInv'
<1>1. /\ cases[r] # None /\ cases[r] \in M!Request /\ UNCHANGED <<user, expired>>
      /\ reports \in [Report -> {"none", "pending", "resolved", "dismissed"}]
      /\ user \in M!Document
  BY DEF M!Create, M!ReadTarget, M!Close, M!Fails, M!In, ModerationInv, M!TypeOK
<1>2. reports' \in [Report -> {"none", "pending", "resolved", "dismissed"}]
  BY <1>1 DEF M!Create, M!ReadTarget, M!Close, M!Fails
<1>3. CASE M!ReadTarget(r)
  <2>1. PICK c : c = [cases[r] EXCEPT !.phase = "save", !.seen = user]
    OBVIOUS
  <2>2. c \in M!Request /\ c.seen = user /\ cases' = [cases EXCEPT ![r] = c]
    BY <1>1, <1>3, <2>1 DEF M!ReadTarget, M!Request
  <2>3. QED
    BY <1>1, <1>2, <2>2, CaseKept
<1>4. CASE M!Ends(r)
  BY <1>1, <1>2, <1>4, CaseKept DEF M!Ends
<1>5. QED
  BY <1>3, <1>4 DEF M!Create, M!Close, M!Fails

\* A save that writes the warnings had read the present ones.
LEMMA WritesWhatItRead ==
    ASSUME ModerationInv, NEW r \in Req, M!In(r, "save"), ~M!Conflict(r),
           M!WritesArray(cases[r].op, cases[r].seen.history)
    PROVE  cases[r].seen.history = user.history
BY DEF M!Conflict, ModerationInv, SeenSound, M!TypeOK, M!In, M!Request

LEMMA SavedDocument ==
    ASSUME ModerationInv, NEW r \in Req, M!In(r, "save"), ~M!Conflict(r), NEW w,
           cases[r].op = "warn" => w \in Warning
    PROVE  /\ M!Saved(r, w) \in M!Document
           /\ ~M!WritesArray(cases[r].op, cases[r].seen.history)
                => M!Saved(r, w).history = user.history
<1>1. user \in M!Document /\ cases[r].seen \in M!Document
  BY DEF ModerationInv, SeenSound, M!TypeOK
<1>2. M!History(cases[r].op, cases[r].seen.history, w) \subseteq Warning
  BY <1>1 DEF M!History, M!Current, M!Document
<1>3. M!Saved(r, w).history \subseteq Warning
  BY <1>1, <1>2 DEF M!Saved, M!Document
<1>4. M!Saved(r, w).permanent \in BOOLEAN
  BY <1>1 DEF M!Saved, M!Document, M!Assigned
<1>5. M!Saved(r, w).until \in {"unset", "none", "past", "future"}
  BY <1>1 DEF M!Saved, M!Document, M!Assigned
<1>6. QED
  BY <1>3, <1>4, <1>5 DEF M!Saved, M!Document

LEMMA SaveSound ==
    ASSUME ModerationInv, NEW r \in Req, M!Save(r)
    PROVE  ModerationInv'
<1> DEFINE writes == M!WritesArray(cases[r].op, cases[r].seen.history)
<1>1. M!In(r, "save") /\ ~M!Conflict(r) /\ UNCHANGED <<expired, reports>> /\ cases[r] \in M!Request
  BY DEF M!Save, M!In, ModerationInv, M!TypeOK
<1>2. PICK w : user' = M!Saved(r, w) /\ (cases[r].op = "warn" => w \in Warning)
  BY DEF M!Save, M!New
<1>3. user' \in M!Document /\ (~writes => user'.history = user.history)
  BY <1>1, <1>2, SavedDocument
<1>4. \A q \in Req : q # r =>
        \/ cases'[q] = cases[q] /\ ~M!In(q, "save")
        \/ /\ M!In(q, "save")
           /\ cases'[q] = [cases[q] EXCEPT !.fresh = @ /\ ~writes]
  BY DEF M!Save
<1>5. \/ cases'[r] = None
      \/ cases'[r] = [cases[r] EXCEPT !.phase = "close", !.seen = None, !.fresh = TRUE]
  BY DEF M!Save
<1>6. writes \in BOOLEAN
  BY DEF M!WritesArray
<1> HIDE DEF writes
<1>7. ASSUME NEW q \in Req
      PROVE  cases'[q] \in M!Request \cup {None}
  <2>1. cases[q] \in M!Request \cup {None}
    BY DEF ModerationInv, M!TypeOK
  <2>2. CASE q = r
    BY <1>1, <1>5, <2>2 DEF M!Request
  <2>3. CASE q # r /\ M!In(q, "save")
    <3>1. cases'[q] = [cases[q] EXCEPT !.fresh = @ /\ ~writes] /\ cases[q] \in M!Request
      BY <1>4, <2>1, <2>3 DEF M!In
    <3>2. (cases[q].fresh /\ ~writes) \in BOOLEAN
      OBVIOUS
    <3>3. QED
      BY <3>1, <3>2 DEF M!Request
  <2>4. QED
    BY <1>4, <2>1, <2>2, <2>3
<1>8. cases' \in [Req -> M!Request \cup {None}]
  BY <1>7 DEF M!Save
<1>9. M!TypeOK'
  BY <1>1, <1>3, <1>8 DEF ModerationInv, M!TypeOK
<1>10. ASSUME NEW q \in Req, M!In(q, "save")'
       PROVE  /\ cases'[q].seen \in M!Document
              /\ cases'[q].fresh => cases'[q].seen.history = user'.history
  <2>1. q # r
    BY <1>1, <1>5, <1>10 DEF M!In, M!Request
  <2>2. M!In(q, "save") /\ cases[q] \in M!Request /\ cases'[q] = [cases[q] EXCEPT !.fresh = @ /\ ~writes]
    BY <1>4, <1>10, <2>1 DEF M!In, ModerationInv, M!TypeOK
  <2>3. cases'[q].seen = cases[q].seen /\ (cases'[q].fresh => cases[q].fresh /\ ~writes)
    BY <1>6, <2>2 DEF M!Request
  <2>4. QED
    BY <1>3, <2>2, <2>3 DEF ModerationInv, SeenSound
<1>11. SeenSound'
  BY <1>10 DEF SeenSound
<1>12. QED
  BY <1>9, <1>11 DEF ModerationInv

LEMMA AgesSound ==
    ASSUME ModerationInv, M!Ages
    PROVE  ModerationInv'
<1>1. /\ user \in M!Document /\ UNCHANGED <<reports, cases>>
      /\ \/ expired' \subseteq Warning /\ user' = user
         \/ user' = [user EXCEPT !.until = "past"] /\ expired' = expired
  BY DEF M!Ages, ModerationInv, M!TypeOK, M!Document
<1>2. user' \in M!Document /\ user'.history = user.history
  BY <1>1 DEF M!Document
<1>3. QED
  BY <1>1, <1>2 DEF ModerationInv, M!TypeOK, SeenSound, M!In

LEMMA ModerationStep == ModerationInv /\ [M!Next]_(M!vars) => ModerationInv'
<1> SUFFICES ASSUME ModerationInv, [M!Next]_(M!vars)
             PROVE  ModerationInv'
  OBVIOUS
<1>1. CASE UNCHANGED M!vars
  BY <1>1 DEF M!vars, ModerationInv, M!TypeOK, SeenSound, M!In
<1>2. CASE M!Next
  BY <1>2, CasesStart, CasesGoOn, SaveSound, AgesSound DEF M!Next
<1>3. QED
  BY <1>1, <1>2

LEMMA ModerationSound == M!Spec => []ModerationInv
BY ModerationInit, ModerationStep, PTL DEF M!Spec

-------------------------------------------------------------------------------
(* The theorems *)

LEMMA EitherRuns == Community => Spec /\ M!Spec
<1>1. CommunityInit => Init /\ M!Init
  BY DEF CommunityInit
<1>2. [CommunityNext]_<<vars, moderation, side>> => [Next]_vars /\ [M!Next]_(M!vars)
  BY DEF CommunityNext, vars, moderation, M!vars
<1>3. QED
  BY <1>1, <1>2, PTL DEF Community, Spec, M!Spec

\* Both documents keep their shape, whichever requests overlap; among the follow requests of a
\* pair this includes the unique index: one in each direction.
THEOREM TypesCorrect == Community => []CommunityTypeOK
<1>1. ChatInv /\ ModerationInv => CommunityTypeOK
  BY DEF ChatInv, ModerationInv, CommunityTypeOK
<1>2. QED
  BY <1>1, EitherRuns, ChatSound, ModerationSound, PTL

\* No message is ever stored between two users of whom neither accepted the other
\* (ChatController.sendMessage), although blocks, declines and crossing requests come between
\* its checks and its writes, and a conversation known by its id is not checked again.
THEOREM TalkIsConsented == Spec => []TalkNeedsConsent
<1>1. ChatInv => TalkNeedsConsent
  BY DEF ChatInv
<1>2. QED
  BY <1>1, ChatSound, PTL

\* A warning in term or a permanent ban is only lifted by a moderator who had read it
\* (ReportController.action, moderateUser), never by a save of an older document.
THEOREM SanctionsAreKept == M!Spec => SanctionsKept
<1> DEFINE Lifted(w) == \E r \in Req :
             M!In(r, "save") /\ cases[r].op = "clear_warnings" /\ w \in cases[r].seen.history
           Unbanned == \E r \in Req :
             M!In(r, "save") /\ cases[r].op \in {"unban", "ban_temp"} /\ cases[r].seen.permanent
           Kept == /\ \A w \in M!Current(user.history) \ user'.history : Lifted(w)
                   /\ user.permanent /\ ~user'.permanent => Unbanned
<1>1. ModerationInv /\ [M!Next]_(M!vars) => Kept
  <2> SUFFICES ASSUME ModerationInv, [M!Next]_(M!vars)
               PROVE  Kept
    OBVIOUS
  <2>1. user \in M!Document
    BY DEF ModerationInv, M!TypeOK
  <2>2. CASE user'.history = user.history /\ user'.permanent = user.permanent
    BY <2>2 DEF M!Current
  <2>3. ASSUME NEW r \in Req, M!Save(r)
        PROVE  Kept
    <3>1. M!In(r, "save") /\ ~M!Conflict(r) /\ cases[r].seen \in M!Document
      BY <2>3 DEF M!Save, ModerationInv, SeenSound
    <3>2. PICK w : user' = M!Saved(r, w)
      BY <2>3 DEF M!Save
    <3>3. ASSUME NEW v \in M!Current(user.history), v \notin user'.history
          PROVE  Lifted(v)
      <4>1. M!WritesArray(cases[r].op, cases[r].seen.history)
        BY <3>2, <3>3 DEF M!Saved, M!Current
      <4>2. cases[r].seen.history = user.history
        BY <3>1, <4>1, WritesWhatItRead
      <4>3. user'.history = M!History(cases[r].op, user.history, w)
        BY <3>2, <4>1, <4>2 DEF M!Saved
      <4>4. cases[r].op = "clear_warnings"
        BY <3>3, <4>1, <4>3 DEF M!History, M!WritesArray
      <4>5. QED
        BY <3>1, <3>3, <4>2, <4>4 DEF M!Current
    <3>4. ASSUME user.permanent, ~user'.permanent
          PROVE  Unbanned
      <4>1. user'.permanent = M!Saved(r, w).permanent
        BY <3>2
      <4>2. cases[r].op \in {"unban", "ban_temp"} /\ cases[r].seen.permanent # FALSE
        BY <3>4, <4>1 DEF M!Saved, M!Assigned
      <4>3. QED
        BY <3>1, <4>2 DEF M!Document
    <3>5. QED
      BY <3>3, <3>4
  <2>4. M!Ages => user'.history = user.history /\ user'.permanent = user.permanent
    BY <2>1 DEF M!Ages, M!Document
  <2>5. ASSUME NEW r \in Req, \/ M!Create(r) \/ M!ReadTarget(r) \/ M!Close(r) \/ M!Fails(r) \/ M!Me(r)
                              \/ \E i \in Report : \/ M!File(r, i)
                                                   \/ \E action \in M!Action : M!Act(r, i, action)
                              \/ \E action \in M!Action : M!Moderate(r, action)
        PROVE  user' = user
    BY <2>5 DEF M!Create, M!ReadTarget, M!Close, M!Fails, M!Me, M!File, M!Act, M!Moderate, M!Starts
  <2>6. UNCHANGED M!vars => user' = user
    BY DEF M!vars
  <2> HIDE DEF Kept
  <2>7. QED
    BY <2>2, <2>3, <2>4, <2>5, <2>6 DEF M!Next
<1>2. QED
  BY <1>1, ModerationSound, PTL DEF M!Spec, SanctionsKept, M!SanctionsKept
===============================================================================
