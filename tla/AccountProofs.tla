------------------------------ MODULE AccountProofs ------------------------------
(***************************************************************************)
(* What holds of an account for any addresses, passwords and number of     *)
(* requests at once: its address was confirmed, and no save takes back     *)
(* another's.  And of what runs beside it: the owners of venues, the       *)
(* wallet, the cache of a venue's page.                                    *)
(***************************************************************************)
EXTENDS MCAccount, MCEventually, TLAPS

-------------------------------------------------------------------------------
(* The inductive invariant *)

\* The addresses a verified account may have.
Vouched == proved \cup crossed

\* Either the address is still e, or it is one that was confirmed.
StillVouched(e) == account.email = e \/ account.email \in Vouched

\* What a request in progress knows: what it read, and what it was asked for.
RequestSound(q) ==
    /\ q.phase = "save" /\ q.seen = None => q.op = "signup" /\ q.arg \in Addr
    /\ q.phase # "save" \/ q.seen # None => account # None
    /\ q.op = "address" => q.arg \in Addr
    /\ q.op \in {"reset", "password"} => q.arg \in Pwd
    /\ Exists /\ q.seen # None => StillVouched(q.seen.email)
    /\ q.phase = "mail" => q.arg \in Addr
    /\ Exists /\ q.phase = "mail" /\ q.op # "address" => StillVouched(q.arg)
    /\ Exists /\ (q.phase = "session" \/ q.op = "address") => account.verified
    /\ q.op = "verify" /\ Exists => account.email \in Vouched
    /\ q.op = "confirm" => q.seen # None /\ q.seen.pending \in Vouched

RequestsSound == \A r \in Req : req[r] # None => RequestSound(req[r])

\* The mail of a change of address goes out only while that address is the one pending.
MailSound ==
    \A r \in Req : In(r, {"address"}, "mail") /\ Exists /\ account.hash = r =>
        account.pending = req[r].arg

\* A link that still opens something was mailed to the address of the account, or to the
\* pending one of a verified account.
LinkSound ==
    link # None =>
        /\ Exists
        /\ link.kind = "verify" => StillVouched(link.to)
        /\ link.kind = "confirm" => account.pending = link.to /\ account.verified

\* Only verified accounts have tokens.
TokensSound == session \/ access => account # None /\ (Exists => account.verified)

AccountInv == TypeOK /\ RequestsSound /\ MailSound /\ LinkSound /\ TokensSound /\ AddressProved

-------------------------------------------------------------------------------
(* What a step may do without disturbing the requests in progress *)

\* The account is not born or born again, its address is kept or replaced by a confirmed
\* one, and it stays verified.
KeepsAddress ==
    /\ account # None => account' # None
    /\ Vouched \subseteq Vouched'
    /\ account # None /\ Exists' =>
         /\ Exists
         /\ account'.email = account.email \/ account'.email \in Vouched'
         /\ account.verified => account'.verified

LEMMA RequestKept ==
    ASSUME KeepsAddress, NEW q, RequestSound(q)
    PROVE  RequestSound(q)'
<1>1. q.seen # None /\ Exists' => StillVouched(q.seen.email)'
  BY DEF KeepsAddress, RequestSound, StillVouched
<1>2. q.phase = "mail" /\ q.op # "address" /\ Exists' => StillVouched(q.arg)'
  BY DEF KeepsAddress, RequestSound, StillVouched
<1>3. q.op = "verify" /\ Exists' => (account.email \in Vouched)'
  <2> HAVE q.op = "verify" /\ Exists'
  <2>1. account # None
    BY DEF RequestSound
  <2>2. QED
    BY <2>1 DEF KeepsAddress, RequestSound
<1>4. Exists' /\ (q.phase = "session" \/ q.op = "address") => account'.verified
  BY DEF KeepsAddress, RequestSound
<1>5. QED
  BY <1>1, <1>2, <1>3, <1>4 DEF KeepsAddress, RequestSound

\* A request that starts reads the account; what it was asked for fits its kind.
LEMMA StartKeeps ==
    ASSUME AccountInv, NEW r \in Req,
           NEW op \in {"signup", "login", "forgot", "reset", "password", "address", "verify",
                       "confirm", "delete"},
           NEW phase \in {"save", "session", "tokens"},
           NEW arg \in Addr \cup Pwd \cup {None},
           Starts(r, op, phase, arg),
           \/ Exists
           \/ account = None /\ op = "signup" /\ phase = "save" /\ arg \in Addr,
           op = "address" => arg \in Addr,
           op \in {"reset", "password"} => arg \in Pwd,
           phase = "session" \/ op = "address" => account.verified,
           Vouched \subseteq Vouched', proved' \subseteq Addr, crossed' \subseteq Addr,
           op = "verify" => account.email \in Vouched',
           op = "confirm" => Exists /\ phase = "save" /\ account.pending \in Vouched'
    PROVE  AccountInv'
<1> DEFINE new == [op |-> op, phase |-> phase, arg |-> arg,
                   seen |-> IF phase = "save" THEN account ELSE None]
<1> USE DEF AccountInv
<1>1. account \in Document \cup {None} /\ new \in Request
  BY DEF TypeOK, Exists, Request
<1>2. req' = [req EXCEPT ![r] = new] /\ UNCHANGED <<account, link, session, access>>
  BY DEF Starts
<1>3. KeepsAddress
  BY <1>2 DEF KeepsAddress, Exists
<1>4. TypeOK'
  BY <1>1, <1>2 DEF TypeOK
<1>5. RequestsSound'
  <2> SUFFICES ASSUME NEW q \in Req, NEW c, c = req'[q], c # None
               PROVE  RequestSound(c)'
    BY DEF RequestsSound, RequestSound
  <2>1. CASE q = r
    <3>1. c = new
      BY <1>2, <2>1 DEF TypeOK
    <3>2. QED
      BY <1>1, <1>2, <3>1 DEF RequestSound, StillVouched, Exists
  <2>2. CASE q # r
    <3>1. c = req[q]
      BY <1>2, <2>2 DEF TypeOK
    <3>2. RequestSound(c)
      BY <3>1 DEF RequestsSound
    <3>3. QED
      BY <3>2, <1>3, RequestKept
  <2>3. QED
    BY <2>1, <2>2
<1>6. MailSound'
  BY <1>2 DEF MailSound, In, Exists, TypeOK
<1>7. LinkSound' /\ TokensSound'
  BY <1>2 DEF LinkSound, TokensSound, Exists, StillVouched
<1>8. AddressProved'
  BY <1>2 DEF AddressProved, Exists, Vouched
<1>9. QED
  BY <1>4, <1>5, <1>6, <1>7, <1>8

\* A request that goes on or ends, while the account stays as it is.
LEMMA GoesKeeps ==
    ASSUME AccountInv, NEW r \in Req, req[r] # None,
           \/ Ends(r)
           \/ \E phase \in {"remove"} : Goes(r, phase) /\ req[r].phase # "save",
           UNCHANGED <<account, proved, crossed>>, session' \in BOOLEAN, access' \in BOOLEAN,
           link' \in Link \cup {None}, LinkSound', TokensSound'
    PROVE  AccountInv'
<1> USE DEF AccountInv
<1>1. KeepsAddress
  BY DEF KeepsAddress, Exists, Vouched
<1>2. req[r] \in Request
  BY DEF TypeOK
<1>3. TypeOK'
  BY <1>2 DEF TypeOK, Ends, Goes, Request
<1>4. RequestsSound'
  <2> SUFFICES ASSUME NEW q \in Req, NEW c, c = req'[q], c # None
               PROVE  RequestSound(c)'
    BY DEF RequestsSound, RequestSound
  <2> PICK d : d = req[q]
    OBVIOUS
  <2>1. d # None /\ RequestSound(d)'
    <3>1. d # None
      BY DEF Ends, Goes, TypeOK
    <3>2. RequestSound(d)
      BY <3>1 DEF RequestsSound
    <3>3. QED
      BY <3>1, <3>2, <1>1, RequestKept
  <2>2. \/ c = d
        \/ d.phase # "save" /\ c = [d EXCEPT !.phase = "remove"]
    BY DEF Ends, Goes, TypeOK
  <2>3. d \in Request
    BY <2>1 DEF TypeOK
  <2>4. QED
    BY <2>1, <2>2, <2>3 DEF RequestSound, Request
<1>5. MailSound'
  BY <1>2 DEF MailSound, In, Exists, TypeOK, Ends, Goes, Request
<1>6. AddressProved'
  BY DEF AddressProved, Exists
<1>7. QED
  BY <1>3, <1>4, <1>5, <1>6

\* A save of a document that keeps the address, or writes a confirmed one.
LEMMA SaveKeeps ==
    ASSUME AccountInv, NEW r \in Req, req[r] # None, req[r].seen # None,
           NEW doc \in Document, NEW open \in {None, link}, Saves(r, doc, open),
           \/ Ends(r)
           \/ \E to \in Addr :
                /\ Mails(r, to) /\ req[r].op \in {"signup", "login", "address"}
                /\ IF req[r].op = "address" THEN to = req[r].arg
                   ELSE doc.email = to \/ doc.email \in Vouched,
           doc.email = account.email \/ doc.email \in Vouched,
           doc.verified => doc.email \in Vouched,
           account.verified => doc.verified,
           open # None => doc.email = account.email /\ doc.pending = account.pending,
           \A q \in Req : req[q] # None /\ req[q].op = "address" /\ doc.hash = q =>
              \/ doc.pending = req[q].arg
              \/ q # r /\ account.hash = q /\ doc.pending = account.pending
              \/ q = r /\ Ends(r)
    PROVE  AccountInv'
<1> USE DEF AccountInv
<1>1. req[r] \in Request /\ account \in Document /\ None \notin Document /\ Gone \notin Document
  BY NoneAssumption DEF TypeOK, Saves, Exists
<1>2. /\ Exists /\ Exists' /\ account' = doc /\ link' = open
      /\ proved' = proved /\ crossed' = crossed /\ Vouched' = Vouched
  BY <1>1 DEF Saves, Exists, Vouched
<1>3. KeepsAddress
  BY <1>1, <1>2 DEF KeepsAddress
<1>4. TypeOK'
  BY <1>1, <1>2 DEF TypeOK, Saves, Ends, Mails, Request
<1>5. RequestsSound'
  <2> SUFFICES ASSUME NEW q \in Req, NEW c, c = req'[q], c # None
               PROVE  RequestSound(c)'
    BY DEF RequestsSound, RequestSound
  <2> PICK d : d = req[q]
    OBVIOUS
  <2>1. d # None /\ RequestSound(d)'
    <3>1. d # None
      BY DEF Ends, Mails, TypeOK
    <3>2. RequestSound(d)
      BY <3>1 DEF RequestsSound
    <3>3. QED
      BY <3>1, <3>2, <1>3, RequestKept
  <2>2. \/ c = d
        \/ \E to \in Addr :
             /\ c = [op |-> d.op, phase |-> "mail", seen |-> None, arg |-> to]
             /\ d.op \in {"signup", "login", "address"}
             /\ d.op # "address" => doc.email = to \/ doc.email \in Vouched
    BY DEF Ends, Mails, TypeOK
  <2>3. CASE c = d
    BY <2>1, <2>3
  <2>4. ASSUME NEW to \in Addr, c = [op |-> d.op, phase |-> "mail", seen |-> None, arg |-> to],
               d.op \in {"signup", "login", "address"},
               d.op # "address" => doc.email = to \/ doc.email \in Vouched
        PROVE  RequestSound(c)'
    <3>1. /\ c.op = d.op /\ c.phase = "mail" /\ c.seen = None /\ c.arg = to
      BY <2>4
    <3>2. (Exists /\ d.op = "address" => account.verified)'
      BY <2>1 DEF RequestSound
    <3>3. account' # None
      BY <1>2 DEF Exists
    <3>4. d.op # "address" => StillVouched(to)'
      BY <1>2, <2>4 DEF StillVouched
    <3>5. QED
      BY <2>4, <3>1, <3>2, <3>3, <3>4 DEF RequestSound
  <2>5. QED
    BY <2>2, <2>3, <2>4
<1>6. MailSound'
  <2> SUFFICES ASSUME NEW q \in Req, In(q, {"address"}, "mail")', doc.hash = q
               PROVE  doc.pending = req'[q].arg
    BY <1>2 DEF MailSound
  <2>1. req[q] # None /\ req[q].op = "address" /\ req'[q].arg = req[q].arg /\ (q = r => ~Ends(r))
    BY NoneAssumption DEF In, Ends, Mails, TypeOK, Request
  <2>2. CASE doc.pending = req[q].arg
    BY <2>1, <2>2
  <2>3. CASE q # r /\ account.hash = q /\ doc.pending = account.pending
    <3>1. In(q, {"address"}, "mail")
      BY <2>3 DEF In, Ends, Mails, TypeOK
    <3>2. QED
      BY <3>1, <2>1, <2>3, <1>2 DEF MailSound
  <2>4. QED
    BY <2>1, <2>2, <2>3
<1>7. LinkSound' /\ TokensSound'
  BY <1>1, <1>2 DEF LinkSound, TokensSound, StillVouched, Saves, Exists
<1>8. AddressProved'
  BY <1>2 DEF AddressProved, Vouched
<1>9. QED
  BY <1>4, <1>5, <1>6, <1>7, <1>8

-------------------------------------------------------------------------------
(* The invariant, action by action *)

LEMMA InitSound == Init => AccountInv
BY NoneAssumption DEF Init, AccountInv, TypeOK, RequestsSound, MailSound, LinkSound, TokensSound,
                      AddressProved, In, Exists

\* What the invariant says of a request whose save is pending.
LEMMA SavesWhatItRead ==
    ASSUME AccountInv, NEW r \in Req, req[r] # None
    PROVE  /\ req[r] \in Request /\ RequestSound(req[r])
           /\ Exists => account \in Document
           /\ link # None => Exists
           /\ r # None
BY NoneAssumption DEF AccountInv, TypeOK, RequestsSound, LinkSound, Exists

LEMMA StartSound ==
    ASSUME AccountInv, NEW r \in Req, Start(r)
    PROVE  AccountInv'
<1>1. account # None /\ account # Gone => Exists
  BY DEF Exists
<1>2. /\ proved \subseteq Addr /\ crossed \subseteq Addr
      /\ UNCHANGED <<proved, crossed>> => Vouched' = Vouched
  BY DEF AccountInv, TypeOK, Vouched
<1>3. CASE Login(r)
  <2>1. PICK phase \in {"session", "save"} :
          Starts(r, "login", phase, None) /\ (phase = "session" => account.verified)
    BY <1>3 DEF Login
  <2>2. Exists /\ proved' = proved /\ crossed' = crossed
    BY <1>3 DEF Login
  <2>3. QED
    BY <2>1, <2>2, <1>2, StartKeeps
<1>4. CASE Forgot(r)
  BY <1>4, <1>2, StartKeeps DEF Forgot
<1>5. CASE Delete(r)
  BY <1>5, <1>2, StartKeeps DEF Delete, Authenticated
<1>6. ASSUME NEW route \in {"verify", "confirm"}, Follow(r, route)
      PROVE  AccountInv'
  <2>1. /\ link \in Link /\ Exists /\ account \in Document
        /\ link.kind = "verify" => StillVouched(link.to)
        /\ link.kind = "confirm" => account.pending = link.to /\ account.verified
    BY <1>6 DEF Follow, AccountInv, TypeOK, LinkSound, Exists
  <2>2. /\ proved' = proved \cup {link.to}
        /\ crossed' = (crossed \cup {e \in {account.pending} :
                                       route = "confirm" /\ link.kind = "verify"}) \ proved'
        /\ route = "confirm" => account.pending # None
    BY <1>6 DEF Follow
  <2>3. link.to \in Addr /\ link.kind \in {"verify", "confirm"}
    BY <2>1 DEF Link
  <2>4. account.pending # None => account.pending \in Addr
    BY <2>1 DEF Document
  <2>5. proved' \subseteq Addr /\ crossed' \subseteq Addr
    BY <1>2, <2>2, <2>3, <2>4
  <2>6. Vouched \subseteq Vouched' /\ link.to \in Vouched'
    BY <2>2 DEF Vouched
  <2>7. account.email \in Vouched'
    <3>1. CASE link.kind = "verify"
      BY <2>1, <2>6, <3>1 DEF StillVouched
    <3>2. CASE link.kind = "confirm"
      BY <2>1, <2>6, <3>2 DEF AccountInv, AddressProved, Vouched
    <3>3. QED
      BY <2>3, <3>1, <3>2
  <2>8. route = "confirm" => account.pending \in Vouched'
    <3>1. CASE link.kind = "verify"
      BY <2>2, <3>1 DEF Vouched
    <3>2. CASE link.kind = "confirm"
      BY <2>1, <2>6, <3>2
    <3>3. QED
      BY <2>3, <3>1, <3>2
  <2>9. Starts(r, route, "save", None)
    BY <1>6 DEF Follow
  <2>10. QED
    BY <2>1, <2>5, <2>6, <2>7, <2>8, <2>9, StartKeeps
<1>7. ASSUME NEW e \in Addr, Signup(r, e)
      PROVE  AccountInv'
  BY <1>7, <1>2, StartKeeps DEF Signup
<1>8. ASSUME NEW e \in Addr, ChangeAddress(r, e)
      PROVE  AccountInv'
  BY <1>8, <1>2, StartKeeps DEF ChangeAddress, Authenticated, AccountInv, TokensSound
<1>9. ASSUME NEW p \in Pwd, ChangePassword(r, p)
      PROVE  AccountInv'
  BY <1>9, <1>2, StartKeeps DEF ChangePassword, Authenticated
<1>10. ASSUME NEW p \in Pwd, Reset(r, p)
       PROVE  AccountInv'
  BY <1>10, <1>2, StartKeeps DEF Reset
<1>11. QED
  BY <1>3, <1>4, <1>5, <1>6, <1>7, <1>8, <1>9, <1>10 DEF Start

\* The first save of a sign-up: every other request in progress is a sign-up as well.
LEMMA CreateSound ==
    ASSUME AccountInv, NEW r \in Req, Create(r)
    PROVE  AccountInv'
<1> USE DEF AccountInv
<1>1. /\ req[r] # None /\ account = None /\ link = None /\ ~Exists
      /\ ~session /\ ~access
  BY DEF Create, In, Exists, LinkSound, TokensSound
<1>2. /\ \A q \in Req : req[q] # None =>
           /\ req[q] \in Request /\ RequestSound(req[q])
           /\ req[q].seen = None /\ req[q].phase = "save" /\ req[q].op = "signup"
      /\ req[r].arg \in Addr
  BY <1>1 DEF TypeOK, RequestsSound, RequestSound
<1>3. PICK p \in Pwd : account' = NewDocument(req[r].arg, p)
  BY DEF Create
<1>4. account' \in Document /\ account'.hash = None /\ ~account'.verified /\ account' # None
  <2>1. account' \in Document
    BY <1>2, <1>3 DEF NewDocument, Document
  <2>2. QED
    BY <1>3, <2>1, NoneAssumption DEF NewDocument
<1>5. req' = [req EXCEPT ![r].seen = account', ![r].arg = None]
  BY DEF Create
<1>6. UNCHANGED <<link, session, access, proved, crossed>>
  BY DEF Create
<1>7. req'[r] = [req[r] EXCEPT !.seen = account', !.arg = None]
      /\ \A q \in Req : q # r => req'[q] = req[q]
  BY <1>5 DEF TypeOK
<1>8. TypeOK'
  <2>1. req'[r] \in Request
    BY <1>1, <1>2, <1>4, <1>7 DEF Request
  <2>2. QED
    BY <2>1, <1>4, <1>5, <1>6 DEF TypeOK
<1>9. RequestsSound'
  <2> SUFFICES ASSUME NEW q \in Req, NEW c, c = req'[q], c # None
               PROVE  RequestSound(c)'
    BY DEF RequestsSound, RequestSound
  <2>1. CASE q = r
    BY <1>1, <1>2, <1>4, <1>7, <2>1 DEF RequestSound, StillVouched, Request
  <2>2. CASE q # r
    BY <1>2, <1>4, <1>7, <2>2 DEF RequestSound
  <2>3. QED
    BY <2>1, <2>2
<1>10. MailSound'
  BY <1>4, NoneAssumption DEF MailSound
<1>11. LinkSound' /\ TokensSound' /\ AddressProved'
  BY <1>1, <1>4, <1>6 DEF LinkSound, TokensSound, AddressProved
<1>12. QED
  BY <1>8, <1>9, <1>10, <1>11

\* The saves that draw a new token: whichever mail was under way, its link is dead.
LEMMA NewTokenSound ==
    ASSUME AccountInv, NEW r \in Req, IssueLink(r) \/ ChangeAddressSave(r)
    PROVE  AccountInv'
<1>1. req[r] # None /\ req[r].seen # None /\ Exists
  <2>1. CASE IssueLink(r)
    BY <2>1 DEF IssueLink, In, Saves
  <2>2. CASE ChangeAddressSave(r)
    BY <2>2, SavesWhatItRead DEF ChangeAddressSave, In, Saves, RequestSound
  <2>3. QED
    BY <2>1, <2>2
<1>2. account \in Document /\ (account.verified => account.email \in Vouched)
  BY <1>1, SavesWhatItRead DEF AccountInv, AddressProved, Vouched
<1>3. CASE IssueLink(r)
  <2> DEFINE doc == [account EXCEPT !.hash = r]
  <2> DEFINE to == req[r].seen.email
  <2>1. Saves(r, doc, None) /\ Mails(r, to)
    BY <1>3 DEF IssueLink, Doc, Kept
  <2>2. /\ doc \in Document /\ doc.email = account.email /\ doc.verified = account.verified
        /\ doc.hash = r /\ req[r].op \in {"signup", "login"}
    BY <1>2, <1>3 DEF Document, IssueLink, In
  <2>3. to \in Addr /\ (account.email = to \/ account.email \in Vouched)
    BY <1>1, SavesWhatItRead DEF RequestSound, StillVouched, Request, Document
  <2> HIDE DEF doc, to
  <2>4. QED
    BY <1>1, <1>2, <2>1, <2>2, <2>3, SaveKeeps
<1>4. CASE ChangeAddressSave(r)
  <2> DEFINE doc == NewAddress(account, req[r].arg, r)
  <2>1. Saves(r, doc, None) /\ Mails(r, req[r].arg) /\ req[r].op = "address"
    BY <1>4 DEF ChangeAddressSave, Doc, Kept, In
  <2>2. req[r].arg \in Addr
    BY <1>1, <1>4, SavesWhatItRead DEF RequestSound, ChangeAddressSave, In
  <2>3. /\ doc \in Document /\ doc.email = account.email /\ doc.verified = account.verified
        /\ doc.hash = r /\ doc.pending = req[r].arg
    BY <1>2, <2>2 DEF Document, NewAddress
  <2> HIDE DEF doc
  <2>4. QED
    BY <1>1, <1>2, <2>1, <2>2, <2>3, SaveKeeps
<1>5. QED
  BY <1>3, <1>4

\* The saves that follow a link: the token is used up.
LEMMA UseTokenSound ==
    ASSUME AccountInv, NEW r \in Req, VerifySave(r) \/ ConfirmSave(r)
    PROVE  AccountInv'
<1>1. req[r] # None /\ req[r].seen # None /\ Exists /\ Ends(r)
  BY SavesWhatItRead DEF VerifySave, ConfirmSave, In, Saves, RequestSound
<1>2. account \in Document /\ (account.verified => account.email \in Vouched)
  BY <1>1, SavesWhatItRead DEF AccountInv, AddressProved, Vouched
<1>3. req[r] \in Request /\ RequestSound(req[r])
  BY <1>1, SavesWhatItRead
<1>4. \A q \in Req : q # None
  BY NoneAssumption
<1>5. CASE VerifySave(r)
  <2> DEFINE doc == [account EXCEPT !.verified = TRUE, !.hash = None]
  <2>1. Saves(r, doc, None)
    BY <1>5 DEF VerifySave, Doc, Kept
  <2>2. doc \in Document /\ doc.email = account.email /\ doc.hash = None
    BY <1>2 DEF Document
  <2>3. account.email \in Vouched
    BY <1>1, <1>3, <1>5 DEF VerifySave, In, RequestSound
  <2>4. doc.verified
    BY <1>2 DEF Document
  <2> HIDE DEF doc
  <2>5. QED
    BY <1>1, <1>4, <2>1, <2>2, <2>3, <2>4, SaveKeeps
<1>6. CASE ConfirmSave(r)
  <2> DEFINE seen == req[r].seen
             doc == [account EXCEPT !.pending = None, !.hash = None,
                                    !.email = IF seen.pending = seen.email THEN @
                                              ELSE seen.pending]
  <2>1. Saves(r, doc, None)
    BY <1>6 DEF ConfirmSave, Doc, Kept
  <2>2. seen.pending \in Vouched /\ Vouched \subseteq Addr
    BY <1>3, <1>6 DEF ConfirmSave, In, RequestSound, AccountInv, TypeOK, Vouched
  <2>3. /\ doc \in Document /\ doc.hash = None /\ doc.verified = account.verified
        /\ doc.email = account.email \/ doc.email \in Vouched
    BY <1>2, <2>2 DEF Document
  <2> HIDE DEF doc
  <2>4. QED
    BY <1>1, <1>2, <1>4, <2>1, <2>3, SaveKeeps
<1>7. QED
  BY <1>5, <1>6

\* The saves that leave the address and its token alone.
LEMMA PasswordSaveSound ==
    ASSUME AccountInv, NEW r \in Req, ForgotSave(r) \/ ResetSave(r) \/ ChangePasswordSave(r)
    PROVE  AccountInv'
<1>1. req[r] # None /\ req[r].seen # None /\ Exists /\ Ends(r)
  BY SavesWhatItRead DEF ForgotSave, ResetSave, ChangePasswordSave, In, Saves, RequestSound
<1>2. account \in Document /\ (account.verified => account.email \in Vouched)
  BY <1>1, SavesWhatItRead DEF AccountInv, AddressProved, Vouched
<1>3. PICK doc \in Document :
        /\ Saves(r, doc, link)
        /\ doc.email = account.email /\ doc.verified = account.verified
        /\ doc.pending = account.pending /\ doc.hash = account.hash
  <2>1. CASE ForgotSave(r)
    <3> DEFINE d == [account EXCEPT !.reset = TRUE]
    <3>1. Saves(r, d, link)
      BY <2>1 DEF ForgotSave, Doc, Kept
    <3>2. /\ d \in Document /\ d.email = account.email /\ d.verified = account.verified
          /\ d.pending = account.pending /\ d.hash = account.hash
      BY <1>2 DEF Document
    <3> HIDE DEF d
    <3>3. QED
      BY <3>1, <3>2
  <2>2. CASE ResetSave(r)
    <3> DEFINE d == [account EXCEPT !.password = req[r].arg, !.reset = FALSE]
    <3>1. Saves(r, d, link)
      BY <2>2 DEF ResetSave, Doc, Kept
    <3>2. req[r].arg \in Pwd
      BY <1>1, <2>2, SavesWhatItRead DEF ResetSave, In, RequestSound
    <3>3. /\ d \in Document /\ d.email = account.email /\ d.verified = account.verified
          /\ d.pending = account.pending /\ d.hash = account.hash
      BY <1>2, <3>2 DEF Document
    <3> HIDE DEF d
    <3>4. QED
      BY <3>1, <3>3
  <2>3. CASE ChangePasswordSave(r)
    <3> DEFINE d == [account EXCEPT !.password = req[r].arg]
    <3>1. Saves(r, d, link)
      BY <2>3 DEF ChangePasswordSave, Doc, Kept
    <3>2. req[r].arg \in Pwd
      BY <1>1, <2>3, SavesWhatItRead DEF ChangePasswordSave, In, RequestSound
    <3>3. /\ d \in Document /\ d.email = account.email /\ d.verified = account.verified
          /\ d.pending = account.pending /\ d.hash = account.hash
      BY <1>2, <3>2 DEF Document
    <3> HIDE DEF d
    <3>4. QED
      BY <3>1, <3>3
  <2>4. QED
    BY <2>1, <2>2, <2>3
<1>4. QED
  BY <1>1, <1>2, <1>3, SaveKeeps

\* The mail goes out with the token that is stored, or opens nothing.
LEMMA MailLinkSound ==
    ASSUME AccountInv, NEW r \in Req, NEW sent \in BOOLEAN, MailLink(r, sent)
    PROVE  AccountInv'
<1>1. req[r] # None /\ Ends(r) /\ UNCHANGED <<account, session, access, proved, crossed>>
  BY DEF MailLink, In
<1>2. /\ req[r] \in Request /\ RequestSound(req[r]) /\ req[r].phase = "mail"
      /\ req[r].op \in {"signup", "login", "address"}
  BY <1>1, SavesWhatItRead DEF MailLink, In
<1>3. req[r].arg \in Addr
  BY <1>2 DEF RequestSound
<1>4. /\ session \in BOOLEAN /\ access \in BOOLEAN /\ link \in Link \cup {None} /\ LinkSound
      /\ TokensSound'
  BY <1>1 DEF AccountInv, TypeOK, TokensSound, Exists
<1>5. CASE sent /\ Exists /\ account.hash = r
  <2>1. CASE req[r].op = "address"
    <3>1. link' = [to |-> req[r].arg, kind |-> "confirm"]
      BY <1>5, <2>1 DEF MailLink
    <3>2. account.pending = req[r].arg /\ account.verified
      BY <1>1, <1>2, <1>5, <2>1 DEF RequestSound, AccountInv, MailSound, In
    <3>3. link' \in Link
      BY <1>3, <3>1 DEF Link
    <3>4. LinkSound'
      BY <1>1, <1>5, <3>1, <3>2 DEF LinkSound, Exists
    <3>5. QED
      BY <1>1, <1>4, <3>3, <3>4, GoesKeeps
  <2>2. CASE req[r].op # "address"
    <3>1. link' = [to |-> req[r].arg, kind |-> "verify"]
      BY <1>5, <2>2 DEF MailLink
    <3>2. StillVouched(req[r].arg)
      BY <1>2, <1>5, <2>2 DEF RequestSound
    <3>3. link' \in Link
      BY <1>3, <3>1 DEF Link
    <3>4. LinkSound'
      BY <1>1, <1>5, <3>1, <3>2 DEF LinkSound, Exists, StillVouched, Vouched
    <3>5. QED
      BY <1>1, <1>4, <3>3, <3>4, GoesKeeps
  <2>3. QED
    BY <2>1, <2>2
<1>6. CASE ~(sent /\ Exists /\ account.hash = r)
  <2>1. link' = link
    BY <1>6 DEF MailLink
  <2>2. LinkSound'
    BY <1>1, <1>4, <2>1 DEF LinkSound, Exists, StillVouched, Vouched
  <2>3. QED
    BY <1>1, <1>4, <2>1, <2>2, GoesKeeps
<1>7. QED
  BY <1>5, <1>6

\* The other ends of a request: tokens handed out or deleted, a save that fails.
LEMMA EndSound ==
    ASSUME AccountInv, NEW r \in Req, Grant(r) \/ DeleteTokens(r) \/ SaveFails(r)
    PROVE  AccountInv'
<1>1. req[r] # None /\ UNCHANGED <<account, link, proved, crossed>>
  BY DEF Grant, DeleteTokens, SaveFails, In
<1>2. session' \in BOOLEAN /\ access' \in BOOLEAN /\ link' \in Link \cup {None}
  BY <1>1 DEF Grant, DeleteTokens, SaveFails, AccountInv, TypeOK
<1>3. LinkSound'
  BY <1>1 DEF AccountInv, LinkSound, Exists, StillVouched, Vouched
<1>4. Ends(r) \/ (Goes(r, "remove") /\ req[r].phase # "save")
  BY DEF Grant, DeleteTokens, SaveFails, In
<1>5. TokensSound'
  <2>1. CASE Grant(r)
    <3>1. req[r].phase = "session" /\ RequestSound(req[r])
      BY <1>1, <2>1, SavesWhatItRead DEF Grant, In
    <3>2. QED
      BY <1>1, <3>1 DEF RequestSound, TokensSound, Exists
  <2>2. CASE DeleteTokens(r) \/ SaveFails(r)
    BY <1>1, <2>2 DEF DeleteTokens, SaveFails, AccountInv, TokensSound, Exists
  <2>3. QED
    BY <2>1, <2>2
<1>6. QED
  BY <1>1, <1>2, <1>3, <1>4, <1>5, GoesKeeps

LEMMA DeleteUserSound ==
    ASSUME AccountInv, NEW r \in Req, DeleteUser(r)
    PROVE  AccountInv'
<1>1. req[r] # None /\ account' = Gone /\ link' = None /\ ~Exists'
  BY DEF DeleteUser, In, Exists
<1>2. req' = [req EXCEPT ![r] = None] /\ UNCHANGED <<session, access, proved, crossed>>
  BY DEF DeleteUser, Ends
<1>3. TypeOK'
  BY <1>1, <1>2 DEF AccountInv, TypeOK
<1>4. Gone # None
  BY NoneAssumption
<1>5. RequestsSound'
  <2> SUFFICES ASSUME NEW q \in Req, NEW c, c = req'[q], c # None
               PROVE  RequestSound(c)'
    BY DEF RequestsSound, RequestSound
  <2>1. c = req[q]
    BY <1>2 DEF AccountInv, TypeOK
  <2>2. RequestSound(c)
    BY <2>1 DEF AccountInv, RequestsSound
  <2>3. QED
    BY <1>1, <1>2, <1>4, <2>2 DEF RequestSound, Vouched
<1>6. MailSound' /\ LinkSound' /\ TokensSound' /\ AddressProved'
  BY <1>1, <1>4 DEF MailSound, LinkSound, TokensSound, AddressProved
<1>7. QED
  BY <1>3, <1>5, <1>6 DEF AccountInv

\* Time and the process: a token expires, every request stops.
LEMMA OutsideSound ==
    ASSUME AccountInv, Refresh \/ Logout \/ ExpireLink \/ ExpireToken \/ Crash
    PROVE  AccountInv'
<1> USE DEF AccountInv
<1>1. CASE Refresh \/ Logout \/ ExpireToken
  <2>1. /\ UNCHANGED <<account, link, req, proved, crossed>>
        /\ session' \in BOOLEAN /\ access' \in BOOLEAN
        /\ session' \/ access' => session \/ access
    BY <1>1 DEF Refresh, Logout, ExpireToken, TypeOK
  <2>2. TypeOK'
    BY <2>1 DEF TypeOK
  <2>3. RequestsSound' /\ MailSound' /\ LinkSound' /\ TokensSound' /\ AddressProved'
    BY <2>1 DEF RequestsSound, RequestSound, MailSound, LinkSound, TokensSound, AddressProved,
                StillVouched, Vouched, Exists, In
  <2>4. QED
    BY <2>2, <2>3
<1>2. CASE ExpireLink
  <2>1. account \in Document /\ None \notin Document /\ Gone \notin Document
    BY <1>2, NoneAssumption DEF ExpireLink, TypeOK, Exists
  <2>2. \/ account' = [account EXCEPT !.hash = None] /\ link' = None
        \/ account' = [account EXCEPT !.reset = FALSE] /\ link' = link
    BY <1>2 DEF ExpireLink
  <2>3. UNCHANGED <<session, access, req, proved, crossed>>
    BY <1>2 DEF ExpireLink
  <2>4. /\ account' \in Document /\ account'.email = account.email
        /\ account'.verified = account.verified /\ account'.pending = account.pending
        /\ account'.hash \in {None, account.hash}
    BY <2>1, <2>2 DEF Document
  <2>5. Exists /\ Exists' /\ (link' = None \/ link' = link)
    BY <2>1, <2>2, <2>4 DEF Exists
  <2>6. TypeOK'
    BY <2>3, <2>4, <2>5 DEF TypeOK
  <2>7. KeepsAddress
    BY <2>3, <2>4, <2>5 DEF KeepsAddress, Exists, Vouched
  <2>8. RequestsSound'
    <3> SUFFICES ASSUME NEW q \in Req, NEW c, c = req'[q], c # None
                 PROVE  RequestSound(c)'
      BY DEF RequestsSound, RequestSound
    <3>1. c = req[q]
      BY <2>3
    <3>2. RequestSound(c)
      BY <3>1 DEF RequestsSound
    <3>3. QED
      BY <3>2, <2>7, RequestKept
  <2>9. MailSound'
    BY <2>3, <2>4, <2>5, NoneAssumption DEF MailSound, In
  <2>10. LinkSound' /\ TokensSound' /\ AddressProved'
    BY <2>3, <2>4, <2>5 DEF LinkSound, TokensSound, AddressProved, StillVouched, Vouched, Exists
  <2>11. QED
    BY <2>6, <2>8, <2>9, <2>10
<1>3. CASE Crash
  <2>1. UNCHANGED <<account, link, session, access, proved, crossed>> /\ req' = [q \in Req |-> None]
    BY <1>3 DEF Crash
  <2>2. TypeOK'
    BY <2>1 DEF TypeOK
  <2>3. RequestsSound' /\ MailSound' /\ LinkSound' /\ TokensSound' /\ AddressProved'
    BY <2>1 DEF RequestsSound, MailSound, LinkSound, TokensSound, AddressProved, StillVouched,
                Vouched, Exists, In
  <2>4. QED
    BY <2>2, <2>3
<1>4. QED
  BY <1>1, <1>2, <1>3

LEMMA StepSound == AccountInv /\ [Next]_vars => AccountInv'
<1> SUFFICES ASSUME AccountInv, [Next]_vars
             PROVE  AccountInv'
  OBVIOUS
<1>1. CASE UNCHANGED vars
  BY <1>1 DEF vars, AccountInv, TypeOK, RequestsSound, RequestSound, MailSound, LinkSound,
              TokensSound, AddressProved, StillVouched, Vouched, Exists, In
<1>2. ASSUME NEW r \in Req, Handle(r)
      PROVE  AccountInv'
  BY <1>2, CreateSound, NewTokenSound, UseTokenSound, PasswordSaveSound, EndSound,
     DeleteUserSound DEF Handle
<1>3. ASSUME NEW r \in Req, MailLink(r, TRUE) \/ MailLink(r, FALSE)
      PROVE  AccountInv'
  BY <1>3, MailLinkSound
<1>4. QED
  BY <1>1, <1>2, <1>3, StartSound, OutsideSound DEF Next

LEMMA AccountSound == Safety => []AccountInv
BY InitSound, StepSound, PTL DEF Safety

-------------------------------------------------------------------------------
(* The theorems *)

\* The document, the link and the requests keep their shape, although the fields of the
\* document are saved by handlers that read it at different times.
THEOREM TypeCorrect == Safety => []TypeOK
<1>1. AccountInv => TypeOK
  BY DEF AccountInv
<1>2. QED
  BY <1>1, AccountSound, PTL

\* The address of a verified account is one whose owner followed a link mailed there, or one
\* that was confirmed while pending with the token of a verification link, mailed elsewhere:
\* verifyEmailByToken and confirmEmailChange look up one field, and either takes the token
\* of the other.  Nothing else gives an account an address nobody proved, whatever
\* sign-ins, changes, expiries and crashes come in between.
THEOREM AddressIsProved == Safety => []AddressProved
<1>1. AccountInv => AddressProved
  BY DEF AccountInv
<1>2. QED
  BY <1>1, AccountSound, PTL

\* No save takes back what another saved: a verification stays, the address changes only when
\* the link sent to the new one is followed, the password only by a reset or a change.
THEOREM NothingIsUndone == Safety => NothingUndone
<1> DEFINE Takes(r, ops) == In(r, ops, "save") /\ req'[r] = None
           Done == Exists /\ account' # Gone =>
                     /\ account.verified => account'.verified
                     /\ account'.email # account.email => \E r \in Req : Takes(r, {"confirm"})
                     /\ account'.password # account.password =>
                          \E r \in Req : Takes(r, {"reset", "password"})
<1>1. AccountInv /\ [Next]_vars => Done
  <2> SUFFICES ASSUME AccountInv, [Next]_vars, Exists, account' # Gone
               PROVE  Done
    OBVIOUS
  <2>1. account \in Document /\ req \in [Req -> Request \cup {None}]
    BY DEF Exists, AccountInv, TypeOK
  <2>2. CASE UNCHANGED account
    BY <2>2
  <2>3. ASSUME NEW r \in Req, \/ IssueLink(r) \/ ChangeAddressSave(r) \/ VerifySave(r)
                              \/ ForgotSave(r)
        PROVE  Done
    <3>1. \/ account' = [account EXCEPT !.hash = r]
          \/ account' = [account EXCEPT !.pending = req[r].arg, !.hash = r]
          \/ account' = [account EXCEPT !.verified = TRUE, !.hash = None]
          \/ account' = [account EXCEPT !.reset = TRUE]
      BY <2>3 DEF IssueLink, ChangeAddressSave, VerifySave, ForgotSave, Saves, Doc, Kept, NewAddress
    <3>2. /\ account.verified => account'.verified
          /\ account'.email = account.email /\ account'.password = account.password
      BY <2>1, <3>1 DEF Document
    <3>3. QED
      BY <3>2
  <2>4. ASSUME NEW r \in Req, ConfirmSave(r)
        PROVE  Done
    <3>1. account' = [account EXCEPT !.pending = None, !.hash = None,
                         !.email = IF req[r].seen.pending = req[r].seen.email THEN @
                                   ELSE req[r].seen.pending]
      BY <2>4 DEF ConfirmSave, Saves, Doc, Kept
    <3>2. account'.verified = account.verified /\ account'.password = account.password
      BY <2>1, <3>1 DEF Document
    <3>3. Takes(r, {"confirm"})
      BY <2>1, <2>4 DEF ConfirmSave, Ends
    <3>4. QED
      BY <3>2, <3>3
  <2>5. ASSUME NEW r \in Req, ResetSave(r) \/ ChangePasswordSave(r)
        PROVE  Done
    <3>1. \/ account' = [account EXCEPT !.password = req[r].arg, !.reset = FALSE]
          \/ account' = [account EXCEPT !.password = req[r].arg]
      BY <2>5 DEF ResetSave, ChangePasswordSave, Saves, Doc, Kept
    <3>2. account'.verified = account.verified /\ account'.email = account.email
      BY <2>1, <3>1 DEF Document
    <3>3. Takes(r, {"reset", "password"})
      BY <2>1, <2>5 DEF ResetSave, ChangePasswordSave, Ends, In
    <3>4. QED
      BY <3>2, <3>3
  <2>6. CASE ExpireLink
    <3>1. account' = [account EXCEPT !.hash = None] \/ account' = [account EXCEPT !.reset = FALSE]
      BY <2>6 DEF ExpireLink
    <3>2. /\ account'.verified = account.verified
          /\ account'.email = account.email /\ account'.password = account.password
      BY <2>1, <3>1 DEF Document
    <3>3. QED
      BY <3>2
  <2>7. ASSUME NEW r \in Req, Create(r) \/ DeleteUser(r)
        PROVE  FALSE
    BY <2>7 DEF Create, DeleteUser, Exists
  <2>8. ASSUME NEW r \in Req, Start(r)
        PROVE  UNCHANGED account
    BY <2>8 DEF Start, Login, Forgot, Delete, Follow, Signup, ChangeAddress, ChangePassword,
                Reset, Starts
  <2>9. ASSUME NEW r \in Req, \/ Grant(r) \/ DeleteTokens(r) \/ SaveFails(r)
                              \/ MailLink(r, TRUE) \/ MailLink(r, FALSE)
        PROVE  UNCHANGED account
    BY <2>9 DEF Grant, DeleteTokens, SaveFails, MailLink
  <2>10. UNCHANGED vars \/ Refresh \/ Logout \/ ExpireToken \/ Crash => UNCHANGED account
    BY DEF vars, Refresh, Logout, ExpireToken, Crash
  <2> HIDE DEF Done
  <2>11. QED
    BY <2>2, <2>3, <2>4, <2>5, <2>6, <2>7, <2>8, <2>9, <2>10 DEF Next, Handle
<1>2. QED
  BY <1>1, AccountSound, PTL DEF Safety, NothingUndone

-------------------------------------------------------------------------------
(* Professionals and their venues: the inductive invariant *)

\* A request that has created an account for the claim it approves.
Grants(q) == q.op = "approve" /\ q.phase \in {"venue", "claim", "mail"}

\* What a request in progress on the directory knows.
CaseSound(q) ==
    /\ q.op \in {"approve", "reject"} =>
         q.claim \in Claim /\ claim[q.claim] # None /\ q.email = claim[q.claim].email
    /\ Grants(q) =>
         /\ q.user \in Company /\ D!Exists(q.user)
         /\ company[q.user].state = "new" /\ company[q.user].email = q.email
         /\ D!Owned(q.user) \subseteq IF q.phase = "venue" THEN {} ELSE {claim[q.claim].venue}
         /\ q.phase = "mail" => claim[q.claim].user = q.user
    /\ q.op = "leave" =>
         /\ q.user \in Company /\ company[q.user] # None
         /\ D!Exists(q.user) => company[q.user].state = "active"
    /\ q.op = "apply" => q.email \in Addr

CasesSound == \A r \in Req : cases[r] # None => CaseSound(cases[r])

\* No two requests give venues to one account.
OneGrant ==
    \A r, p \in Req :
        cases[r] # None /\ cases[p] # None /\ Grants(cases[r]) /\ Grants(cases[p])
            /\ cases[r].user = cases[p].user => r = p

\* The accounts: two have two addresses, a claim is recorded with the account of its own
\* address, and whoever was invited owns no more than what was claimed.
OwnerSound(u) ==
    /\ \A v, w \in D!Owned(u) : v = w
    /\ company[u] = None =>
         D!Owned(u) = {} /\ \A c \in Claim : claim[c] # None => claim[c].user # u
    /\ D!Exists(u) =>
         /\ \A w \in Company : D!Exists(w) /\ company[w].email = company[u].email => w = u
         /\ \A c \in Claim : claim[c] # None /\ claim[c].user = u => claim[c].email = company[u].email
         /\ company[u].state # "new" =>
              \E c \in Claim : /\ claim[c] # None /\ claim[c].user = u
                               /\ D!Owned(u) \subseteq {claim[c].venue}

OwnersSound == \A u \in Company : OwnerSound(u)

DirectoryInv == D!TypeOK /\ CasesSound /\ OneGrant /\ OwnersSound

-------------------------------------------------------------------------------
(* Professionals and their venues: every step keeps it *)

LEMMA CasesTyped ==
    ASSUME DirectoryInv, NEW r \in Req, cases[r] # None
    PROVE  cases[r] \in D!Request /\ CaseSound(cases[r])
BY DEF DirectoryInv, D!TypeOK, CasesSound

LEMMA ClaimsTyped ==
    ASSUME DirectoryInv, NEW c \in Claim, claim[c] # None
    PROVE  /\ claim[c] \in D!ClaimDocument /\ claim[c].venue \in Venue
           /\ claim[c].email \in Addr /\ claim[c].user \in Company \cup {None}
BY DEF DirectoryInv, D!TypeOK, D!ClaimDocument

LEMMA CompaniesTyped ==
    ASSUME DirectoryInv, NEW u \in Company, D!Exists(u)
    PROVE  /\ company[u] \in D!AccountDocument
           /\ company[u].email \in Addr /\ company[u].state \in {"new", "invited", "active"}
BY DEF DirectoryInv, D!TypeOK, D!Exists, D!AccountDocument

\* What a step may do without disturbing the request q.
LEMMA CaseKept ==
    ASSUME NEW q, CaseSound(q),
           \A c \in Claim : claim[c] # None =>
               /\ claim'[c] # None
               /\ claim'[c].venue = claim[c].venue /\ claim'[c].email = claim[c].email,
           Grants(q) =>
               /\ company'[q.user] = company[q.user]
               /\ \A v \in Venue : venue'[v] = q.user => venue[v] = q.user
               /\ q.phase = "mail" => claim'[q.claim].user = claim[q.claim].user,
           q.op = "leave" => company'[q.user] # None
               /\ (company'[q.user] # Gone => company'[q.user] = company[q.user])
    PROVE  CaseSound(q)'
<1>1. q.op \in {"approve", "reject"} =>
         q.claim \in Claim /\ claim'[q.claim] # None /\ q.email = claim'[q.claim].email
  BY DEF CaseSound
<1>2. ASSUME Grants(q)
      PROVE  /\ q.user \in Company /\ D!Exists(q.user)'
             /\ company'[q.user].state = "new" /\ company'[q.user].email = q.email
             /\ D!Owned(q.user)' \subseteq IF q.phase = "venue" THEN {} ELSE {claim'[q.claim].venue}
             /\ q.phase = "mail" => claim'[q.claim].user = q.user
  <2>1. company'[q.user] = company[q.user]
    BY <1>2
  <2>2. D!Owned(q.user)' \subseteq D!Owned(q.user)
    BY <1>2 DEF D!Owned
  <2>3. claim'[q.claim].venue = claim[q.claim].venue
    BY <1>2 DEF Grants, CaseSound
  <2>4. QED
    BY <1>2, <2>1, <2>2, <2>3 DEF CaseSound, D!Exists
<1>3. q.op = "leave" =>
         /\ q.user \in Company /\ company'[q.user] # None
         /\ D!Exists(q.user)' => company'[q.user].state = "active"
  BY DEF CaseSound, D!Exists
<1>4. Grants(q)' = Grants(q)
  BY DEF Grants
<1>5. QED
  BY <1>1, <1>2, <1>3, <1>4 DEF CaseSound

\* Request r becomes q, or ends; it may be the one that already gives venues to its account.
LEMMA CaseMoves ==
    ASSUME DirectoryInv, NEW r \in Req, NEW q \in D!Request \cup {None},
           cases' = [cases EXCEPT ![r] = q],
           \A p \in Req \ {r} : cases[p] # None => CaseSound(cases[p])',
           q # None => CaseSound(q)',
           q # None /\ Grants(q) =>
               \A p \in Req \ {r} : cases[p] # None /\ Grants(cases[p]) => cases[p].user # q.user
    PROVE  cases' \in [Req -> D!Request \cup {None}] /\ CasesSound' /\ OneGrant'
<1>1. /\ cases' \in [Req -> D!Request \cup {None}] /\ cases'[r] = q
      /\ \A p \in Req \ {r} : cases'[p] = cases[p]
  BY DEF DirectoryInv, D!TypeOK
<1>2. CasesSound'
  <2> SUFFICES ASSUME NEW p \in Req, cases'[p] # None PROVE CaseSound(cases[p])'
    BY DEF CasesSound
  <2>1. CASE p = r
    BY <1>1, <2>1 DEF CaseSound, Grants
  <2>2. CASE p # r
    BY <1>1, <2>2 DEF CaseSound, Grants
  <2>3. QED
    BY <2>1, <2>2
<1>3. OneGrant'
  BY <1>1 DEF DirectoryInv, OneGrant, Grants
<1>4. QED
  BY <1>1, <1>2, <1>3

\* Venues lose their owners, and the rest stays.
LEMMA OwnersShrink ==
    ASSUME DirectoryInv, UNCHANGED <<company, claim>>,
           \A v \in Venue, u \in Company : venue'[v] = u => venue[v] = u
    PROVE  OwnersSound'
<1> SUFFICES ASSUME NEW u \in Company PROVE OwnerSound(u)'
  BY DEF OwnersSound
<1>1. OwnerSound(u)
  BY DEF DirectoryInv, OwnersSound
<1>2. D!Owned(u)' \subseteq D!Owned(u)
  BY DEF D!Owned
<1>3. D!Exists(u)' = D!Exists(u) /\ \A w \in Company : D!Exists(w)' = D!Exists(w)
  BY DEF D!Exists
<1>4. QED
  BY <1>1, <1>2, <1>3 DEF OwnerSound

LEMMA OthersKept ==
    ASSUME DirectoryInv, NEW R \in SUBSET Req, \A p \in R : cases'[p] = cases[p],
           \A c \in Claim : claim[c] # None =>
               /\ claim'[c] # None
               /\ claim'[c].venue = claim[c].venue /\ claim'[c].email = claim[c].email,
           \A p \in R : cases[p] # None /\ Grants(cases[p]) =>
               /\ company'[cases[p].user] = company[cases[p].user]
               /\ \A v \in Venue : venue'[v] = cases[p].user => venue[v] = cases[p].user
               /\ cases[p].phase = "mail" =>
                    claim'[cases[p].claim].user = claim[cases[p].claim].user,
           \A u \in Company : company[u] # None => company'[u] # None,
           \A u \in Company : D!Exists(u) /\ company[u].state = "active" /\
               company'[u] # Gone => company'[u] = company[u],
           \A u \in Company : company[u] = Gone => company'[u] = Gone
    PROVE  \A p \in R : cases[p] # None => CaseSound(cases[p])'
<1> SUFFICES ASSUME NEW p \in R, cases[p] # None PROVE CaseSound(cases[p])'
  OBVIOUS
<1>1. PICK q : q = cases[p]
  OBVIOUS
<1>2. CaseSound(q)
  BY <1>1, CasesTyped
<1>3. Grants(q) =>
         /\ company'[q.user] = company[q.user]
         /\ \A v \in Venue : venue'[v] = q.user => venue[v] = q.user
         /\ q.phase = "mail" => claim'[q.claim].user = claim[q.claim].user
  BY <1>1
<1>4. q.op = "leave" => company'[q.user] # None
         /\ (company'[q.user] # Gone => company'[q.user] = company[q.user])
  BY <1>2 DEF CaseSound, D!Exists
<1>5. CaseSound(q)'
  BY <1>2, <1>3, <1>4, CaseKept
<1>6. cases'[p] = q
  BY <1>1
<1>7. QED
  BY <1>5, <1>6 DEF CaseSound, Grants

\* Only request r moves.
LEMMA OnlyCase ==
    ASSUME DirectoryInv, NEW r \in Req, NEW q \in D!Request \cup {None},
           cases' = [cases EXCEPT ![r] = q], UNCHANGED <<venue, company, claim>>,
           q # None => CaseSound(q),
           q # None /\ Grants(q) => FALSE
    PROVE  DirectoryInv'
<1>1. \A p \in Req \ {r} : cases'[p] = cases[p]
  BY DEF DirectoryInv, D!TypeOK
<1>2. \A p \in Req \ {r} : cases[p] # None => CaseSound(cases[p])'
  BY <1>1, OthersKept
<1>3. q # None => CaseSound(q)'
  BY DEF CaseSound, Grants, D!Exists, D!Owned
<1>4. cases' \in [Req -> D!Request \cup {None}] /\ CasesSound' /\ OneGrant'
  BY <1>2, <1>3, CaseMoves
<1>5. OwnersSound'
  BY OwnersShrink
<1>6. D!TypeOK'
  BY <1>4 DEF DirectoryInv, D!TypeOK
<1>7. QED
  BY <1>4, <1>5, <1>6 DEF DirectoryInv

\* No request moves.
LEMMA NoCase ==
    ASSUME DirectoryInv, cases' = cases, UNCHANGED claim, D!TypeOK', OwnersSound',
           \A v \in Venue, u \in Company : venue'[v] = u => venue[v] = u,
           \A u \in Company : company[u] # None => company'[u] # None,
           \A u \in Company : D!Exists(u) /\ company[u].state = "active" /\
               company'[u] # Gone => company'[u] = company[u],
           \A u \in Company : D!Exists(u) /\ company[u].state = "new" => company'[u] = company[u],
           \A u \in Company : company[u] = Gone => company'[u] = Gone
    PROVE  DirectoryInv'
<1>1. \A p \in Req : cases[p] # None /\ Grants(cases[p]) =>
          /\ cases[p].user \in Company /\ D!Exists(cases[p].user)
          /\ company[cases[p].user].state = "new"
  BY CasesTyped DEF CaseSound
<1>2. \A p \in Req : cases[p] # None /\ Grants(cases[p]) =>
          /\ company'[cases[p].user] = company[cases[p].user]
          /\ \A v \in Venue : venue'[v] = cases[p].user => venue[v] = cases[p].user
          /\ cases[p].phase = "mail" => claim'[cases[p].claim].user = claim[cases[p].claim].user
  BY <1>1
<1>3. \A p \in Req : cases[p] # None => CaseSound(cases[p])'
  BY <1>2, OthersKept
<1>4. CasesSound'
  BY <1>3 DEF CasesSound
<1>5. OneGrant'
  BY DEF DirectoryInv, OneGrant, Grants
<1>6. QED
  BY <1>4, <1>5 DEF DirectoryInv

LEMMA DirectoryInit == D!Init => DirectoryInv
<1> SUFFICES ASSUME D!Init PROVE DirectoryInv
  OBVIOUS
<1> USE DirectoryAssumption
<1>1. D!TypeOK
  BY DEF D!Init, D!TypeOK
<1>2. CasesSound /\ OneGrant
  BY DEF D!Init, CasesSound, OneGrant
<1>3. ASSUME NEW u \in Company PROVE OwnerSound(u)
  <2>1. \A v \in Venue : venue[v] # u
    BY DEF D!Init
  <2>2. D!Owned(u) = {} /\ ~D!Exists(u)
    BY <2>1 DEF D!Owned, D!Exists, D!Init
  <2>3. \A c \in Claim : claim[c] = None
    BY DEF D!Init
  <2>4. QED
    BY <2>2, <2>3 DEF OwnerSound
<1>4. QED
  BY <1>1, <1>2, <1>3 DEF DirectoryInv, OwnersSound

-------------------------------------------------------------------------------
(* Professionals and their venues: the actions *)

LEMMA SyncKeeps ==
    ASSUME DirectoryInv, NEW v \in Venue, D!Seed(v) \/ D!Purge(v) \/ D!Cleanup(v)
    PROVE  DirectoryInv'
<1>1. /\ venue' \in [Venue -> Company \cup {"unowned", None, Gone}]
      /\ \A w \in Venue, u \in Company : venue'[w] = u => venue[w] = u
      /\ UNCHANGED <<company, claim, cases>>
  BY DirectoryAssumption DEF D!Seed, D!Purge, D!Cleanup, DirectoryInv, D!TypeOK
<1>2. D!TypeOK'
  BY <1>1 DEF DirectoryInv, D!TypeOK
<1>3. OwnersSound'
  BY <1>1, OwnersShrink
<1>4. QED
  BY <1>1, <1>2, <1>3, NoCase

\* An account moves on or goes, and the venues stay.
LEMMA CompanyKeeps ==
    ASSUME DirectoryInv, NEW u \in Company,
           D!Activate(u) \/ D!Expire(u) \/ D!Erase(u)
    PROVE  DirectoryInv'
<1>0. D!Exists(u) /\ company[u] \in D!AccountDocument /\ company[u].state # "new"
  BY CompaniesTyped DEF D!Activate, D!Expire, D!Erase, D!SignedIn
<1>1. PICK d : /\ company' = [company EXCEPT ![u] = d]
               /\ d = Gone \/ (/\ d \in D!AccountDocument /\ d.email = company[u].email
                               /\ company[u].state = "invited")
  BY <1>0 DEF D!Activate, D!Expire, D!Erase, D!SignedIn, D!AccountDocument
<1>2. UNCHANGED <<venue, claim, cases>>
  BY DEF D!Activate, D!Expire, D!Erase
<1>3. company'[u] = d /\ \A w \in Company \ {u} : company'[w] = company[w]
  BY <1>1 DEF DirectoryInv, D!TypeOK
<1>4. D!TypeOK'
  BY <1>1, <1>2 DEF DirectoryInv, D!TypeOK
<1>5. d # None
  BY <1>1, DirectoryAssumption, NoneAssumption
<1>6. ASSUME NEW w \in Company PROVE OwnerSound(w)'
  <2>1. OwnerSound(w)
    BY DEF DirectoryInv, OwnersSound
  <2>2. \A x \in Company : D!Owned(x)' = D!Owned(x)
    BY <1>2 DEF D!Owned
  <2>3. \A x \in Company : D!Exists(x)' => D!Exists(x) /\ company'[x].email = company[x].email
    BY <1>0, <1>1, <1>3 DEF D!Exists
  <2>4. company'[w] = None => company[w] = None
    BY <1>3, <1>5
  <2>5. D!Exists(w)' /\ company'[w].state # "new" => company[w].state # "new"
    BY <1>0, <1>3
  <2>6. QED
    BY <1>2, <2>1, <2>2, <2>3, <2>4, <2>5 DEF OwnerSound
<1>7. OwnersSound'
  BY <1>6 DEF OwnersSound
<1>8. /\ \A w \in Company : company[w] # None => company'[w] # None
      /\ \A w \in Company : D!Exists(w) /\ company[w].state = "active" /\
             company'[w] # Gone => company'[w] = company[w]
      /\ \A w \in Company : D!Exists(w) /\ company[w].state = "new" => company'[w] = company[w]
      /\ \A w \in Company : company[w] = Gone => company'[w] = Gone
  BY <1>0, <1>1, <1>3, <1>5 DEF D!Exists
<1>9. QED
  BY <1>2, <1>4, <1>7, <1>8, NoCase

\* A request begins.
LEMMA CaseStarts ==
    ASSUME DirectoryInv, NEW r \in Req,
           \/ \E v \in Venue, e \in Addr : D!Apply(r, v, e)
           \/ \E c \in Claim, verdict \in {"approve", "reject"} : D!Decide(r, c, verdict)
           \/ \E u \in Company : D!Leave(r, u)
    PROVE  DirectoryInv'
<1>1. ASSUME NEW v \in Venue, NEW e \in Addr, D!Apply(r, v, e) PROVE DirectoryInv'
  <2>1. PICK q : q = [op |-> "apply", phase |-> "pending", claim |-> None, venues |-> {v},
                      email |-> e, user |-> None]
    OBVIOUS
  <2>2. q \in D!Request /\ CaseSound(q) /\ ~Grants(q)
    BY <2>1 DEF D!Request, CaseSound, Grants
  <2>3. cases' = [cases EXCEPT ![r] = q] /\ UNCHANGED <<venue, company, claim>>
    BY <1>1, <2>1 DEF D!Apply, D!Starts
  <2>4. QED
    BY <2>2, <2>3, OnlyCase
<1>2. ASSUME NEW c \in Claim, NEW verdict \in {"approve", "reject"}, D!Decide(r, c, verdict)
      PROVE  DirectoryInv'
  <2>1. claim[c] # None /\ claim[c].email \in Addr
    BY <1>2, ClaimsTyped DEF D!Decide
  <2>2. PICK q : q = [op |-> verdict, phase |-> IF verdict = "approve" THEN "email" ELSE "claim",
                      claim |-> c, venues |-> {}, email |-> claim[c].email, user |-> None]
    OBVIOUS
  <2>3. q \in D!Request /\ CaseSound(q) /\ ~Grants(q)
    BY <2>1, <2>2 DEF D!Request, CaseSound, Grants
  <2>4. cases' = [cases EXCEPT ![r] = q] /\ UNCHANGED <<venue, company, claim>>
    BY <1>2, <2>2 DEF D!Decide, D!Starts
  <2>5. QED
    BY <2>3, <2>4, OnlyCase
<1>3. ASSUME NEW u \in Company, D!Leave(r, u) PROVE DirectoryInv'
  <2>1. D!Exists(u) /\ company[u].state = "active"
    BY <1>3 DEF D!Leave, D!SignedIn
  <2>2. PICK q : q = [op |-> "leave", phase |-> "release", claim |-> None,
                      venues |-> D!Owned(u), email |-> None, user |-> u]
    OBVIOUS
  <2>3. D!Owned(u) \subseteq Venue
    BY DEF D!Owned
  <2>4. q \in D!Request /\ CaseSound(q) /\ ~Grants(q)
    BY <2>1, <2>2, <2>3 DEF D!Request, CaseSound, Grants, D!Exists
  <2>5. cases' = [cases EXCEPT ![r] = q] /\ UNCHANGED <<venue, company, claim>>
    BY <1>3, <2>2 DEF D!Leave, D!Starts
  <2>6. QED
    BY <2>4, <2>5, OnlyCase
<1>4. QED
  BY <1>1, <1>2, <1>3

\* A request goes on without writing anything, or ends.
LEMMA CaseGoes ==
    ASSUME DirectoryInv, NEW r \in Req,
           D!ApplyPending(r) \/ D!LookUp(r) \/ D!Released(r) \/ D!Fails(r)
    PROVE  DirectoryInv'
<1>0. cases[r] # None /\ cases[r] \in D!Request /\ CaseSound(cases[r])
  BY CasesTyped DEF D!ApplyPending, D!LookUp, D!Released, D!Fails, D!In
<1>1. CASE D!Fails(r)
  <2>1. cases' = [cases EXCEPT ![r] = None] /\ UNCHANGED <<venue, company, claim>>
    BY <1>1 DEF D!Fails, D!Ends
  <2>2. QED
    BY <2>1, OnlyCase
<1>2. CASE D!ApplyPending(r) \/ D!LookUp(r) \/ D!Released(r)
  <2>1. PICK phase \in {"create", "user", "delete"} :
            /\ D!Goes(r, phase) /\ UNCHANGED <<venue, company, claim>>
            /\ phase = "user" <=> cases[r].op = "approve"
    BY <1>2 DEF D!ApplyPending, D!LookUp, D!Released, D!In
  <2>2. PICK q : q = [cases[r] EXCEPT !.phase = phase]
    OBVIOUS
  <2>3. /\ q \in D!Request /\ q.phase = phase /\ q.op = cases[r].op /\ q.claim = cases[r].claim
        /\ q.email = cases[r].email /\ q.user = cases[r].user
    BY <1>0, <2>2 DEF D!Request
  <2>4. CaseSound(q) /\ ~Grants(q)
    BY <1>0, <2>1, <2>3 DEF CaseSound, Grants
  <2>5. cases' = [cases EXCEPT ![r] = q]
    BY <2>1, <2>2 DEF D!Goes
  <2>6. QED
    BY <2>1, <2>3, <2>4, <2>5, OnlyCase
<1>3. QED
  BY <1>1, <1>2

\* A claim is recorded.
LEMMA ApplyCreateKeeps ==
    ASSUME DirectoryInv, NEW r \in Req, NEW c \in Claim, D!ApplyCreate(r, c)
    PROVE  DirectoryInv'
<1>0. cases[r] # None /\ cases[r] \in D!Request /\ cases[r].email \in Addr
  BY CasesTyped DEF D!ApplyCreate, D!In, CaseSound
<1>1. PICK v \in cases[r].venues :
          claim' = [claim EXCEPT ![c] = [venue |-> v, email |-> cases[r].email,
                                         status |-> "pending", user |-> None]]
  BY DEF D!ApplyCreate
<1>2. PICK k : k = [venue |-> v, email |-> cases[r].email, status |-> "pending", user |-> None]
  OBVIOUS
<1>3. v \in Venue
  BY <1>0 DEF D!Request
<1>4. k \in D!ClaimDocument /\ k # None /\ k.user = None
  BY <1>0, <1>2, <1>3, DirectoryAssumption DEF D!ClaimDocument
<1>5. claim[c] = None /\ cases' = [cases EXCEPT ![r] = None] /\ UNCHANGED <<venue, company>>
  BY DEF D!ApplyCreate, D!Ends
<1>6. claim'[c] = k /\ \A d \in Claim \ {c} : claim'[d] = claim[d]
  BY <1>1, <1>2 DEF DirectoryInv, D!TypeOK
<1>7. \A p \in Req \ {r} : cases'[p] = cases[p]
  BY <1>5 DEF DirectoryInv, D!TypeOK
<1>8. \A p \in Req \ {r} : cases[p] # None => CaseSound(cases[p])'
  <2>1. \A p \in Req \ {r} : cases[p] # None /\ Grants(cases[p]) =>
            cases[p].claim \in Claim /\ claim[cases[p].claim] # None
    BY CasesTyped DEF CaseSound, Grants
  <2>2. \A d \in Claim : claim[d] # None => claim'[d] = claim[d]
    BY <1>5, <1>6
  <2>3. \A p \in Req \ {r} : cases[p] # None /\ Grants(cases[p]) =>
               /\ company'[cases[p].user] = company[cases[p].user]
               /\ \A w \in Venue : venue'[w] = cases[p].user => venue[w] = cases[p].user
               /\ cases[p].phase = "mail" =>
                    claim'[cases[p].claim].user = claim[cases[p].claim].user
    BY <1>5, <2>1, <2>2
  <2>4. \A d \in Claim : claim[d] # None =>
               /\ claim'[d] # None
               /\ claim'[d].venue = claim[d].venue /\ claim'[d].email = claim[d].email
    BY <2>2
  <2>5. QED
    BY <1>5, <1>7, <2>3, <2>4, OthersKept
<1>9. cases' \in [Req -> D!Request \cup {None}] /\ CasesSound' /\ OneGrant'
  BY <1>5, <1>8, CaseMoves
<1>10. ASSUME NEW u \in Company PROVE OwnerSound(u)'
  <2>1. OwnerSound(u)
    BY DEF DirectoryInv, OwnersSound
  <2>2. D!Owned(u)' = D!Owned(u) /\ \A x \in Company : D!Exists(x)' = D!Exists(x)
    BY <1>5 DEF D!Owned, D!Exists
  <2>3. claim'[c].user # u
    BY <1>4, <1>6, DirectoryAssumption
  <2>4. \A d \in Claim : claim'[d] # None /\ claim'[d].user = u => claim[d] # None /\ claim'[d] = claim[d]
    BY <1>6, <2>3
  <2>5. \A d \in Claim : claim[d] # None => claim'[d] = claim[d]
    BY <1>5, <1>6
  <2>6. company[u] = None => D!Owned(u)' = {} /\ \A d \in Claim : claim'[d] # None => claim'[d].user # u
    BY <2>1, <2>2, <2>4 DEF OwnerSound
  <2>7. QED
    BY <1>5, <2>1, <2>2, <2>4, <2>5, <2>6 DEF OwnerSound
<1>11. D!TypeOK'
  BY <1>1, <1>2, <1>4, <1>5, <1>9 DEF DirectoryInv, D!TypeOK
<1>12. QED
  BY <1>9, <1>10, <1>11 DEF DirectoryInv, OwnersSound

\* A claim is rejected: only its status changes.
LEMMA RejectKeeps ==
    ASSUME DirectoryInv, NEW r \in Req, D!Reject(r)
    PROVE  DirectoryInv'
<1>0. /\ cases[r] # None /\ CaseSound(cases[r])
      /\ cases[r].claim \in Claim /\ claim[cases[r].claim] # None
  BY CasesTyped DEF D!Reject, D!In, CaseSound
<1>1. PICK c \in Claim : c = cases[r].claim /\ claim[c] # None
  BY <1>0
<1>2. PICK k : k = [claim[c] EXCEPT !.status = "rejected"]
  OBVIOUS
<1>3. /\ k \in D!ClaimDocument /\ k # None
      /\ k.venue = claim[c].venue /\ k.email = claim[c].email /\ k.user = claim[c].user
  BY <1>1, <1>2, ClaimsTyped, DirectoryAssumption DEF D!ClaimDocument
<1>4. /\ claim' = [claim EXCEPT ![c] = k] /\ cases' = [cases EXCEPT ![r] = None]
      /\ UNCHANGED <<venue, company>>
  BY <1>1, <1>2 DEF D!Reject, D!Ends
<1>5. claim'[c] = k /\ \A d \in Claim \ {c} : claim'[d] = claim[d]
  BY <1>4 DEF DirectoryInv, D!TypeOK
<1>6. \A d \in Claim : /\ claim'[d] # None <=> claim[d] # None
                       /\ claim[d] # None => /\ claim'[d].venue = claim[d].venue
                                             /\ claim'[d].email = claim[d].email
                                             /\ claim'[d].user = claim[d].user
  BY <1>1, <1>3, <1>5
<1>7. \A p \in Req \ {r} : cases'[p] = cases[p]
  BY <1>4 DEF DirectoryInv, D!TypeOK
<1>8. \A p \in Req \ {r} : cases[p] # None => CaseSound(cases[p])'
  <2>1. \A p \in Req \ {r} : cases[p] # None /\ Grants(cases[p]) =>
            cases[p].claim \in Claim /\ claim[cases[p].claim] # None
    BY CasesTyped DEF CaseSound, Grants
  <2>2. \A p \in Req \ {r} : cases[p] # None /\ Grants(cases[p]) =>
               /\ company'[cases[p].user] = company[cases[p].user]
               /\ \A w \in Venue : venue'[w] = cases[p].user => venue[w] = cases[p].user
               /\ cases[p].phase = "mail" =>
                    claim'[cases[p].claim].user = claim[cases[p].claim].user
    BY <1>4, <1>6, <2>1
  <2>3. QED
    BY <1>4, <1>6, <1>7, <2>2, OthersKept
<1>9. cases' \in [Req -> D!Request \cup {None}] /\ CasesSound' /\ OneGrant'
  BY <1>4, <1>8, CaseMoves
<1>10. ASSUME NEW u \in Company PROVE OwnerSound(u)'
  <2>1. OwnerSound(u)
    BY DEF DirectoryInv, OwnersSound
  <2>2. D!Owned(u)' = D!Owned(u) /\ \A x \in Company : D!Exists(x)' = D!Exists(x)
    BY <1>4 DEF D!Owned, D!Exists
  <2>3. QED
    BY <1>4, <1>6, <2>1, <2>2 DEF OwnerSound
<1>11. D!TypeOK'
  BY <1>3, <1>4, <1>9 DEF DirectoryInv, D!TypeOK
<1>12. QED
  BY <1>9, <1>10, <1>11 DEF DirectoryInv, OwnersSound

\* An account is created for an address that no other has.
LEMMA CreateUserKeeps ==
    ASSUME DirectoryInv, NEW r \in Req, D!CreateUser(r)
    PROVE  DirectoryInv'
<1>0. /\ cases[r] # None /\ cases[r] \in D!Request /\ CaseSound(cases[r])
      /\ cases[r].op = "approve" /\ cases[r].phase = "user"
  BY CasesTyped DEF D!CreateUser, D!In
<1>1. PICK u \in D!Owner(cases[r].email) :
          /\ company' = [company EXCEPT ![u] = [email |-> cases[r].email, state |-> "new"]]
          /\ cases' = [cases EXCEPT ![r].user = u, ![r].phase = "venue"]
  BY DEF D!CreateUser
<1>2. /\ u \in Company /\ company[u] = None
      /\ \A w \in Company : D!Exists(w) => company[w].email # cases[r].email
  BY <1>1 DEF D!Owner, D!Taken
<1>3. PICK d : d = [email |-> cases[r].email, state |-> "new"]
  OBVIOUS
<1>4. /\ cases[r].claim \in Claim /\ claim[cases[r].claim] # None
      /\ cases[r].email = claim[cases[r].claim].email /\ cases[r].email \in Addr
  BY <1>0, ClaimsTyped DEF CaseSound
<1>5. d \in D!AccountDocument /\ d.email = cases[r].email /\ d.state = "new" /\ d \notin {None, Gone}
  BY <1>3, <1>4, DirectoryAssumption DEF D!AccountDocument
<1>6. PICK q : q = [cases[r] EXCEPT !.user = u, !.phase = "venue"]
  OBVIOUS
<1>7. /\ q \in D!Request /\ q.op = "approve" /\ q.phase = "venue" /\ q.user = u
      /\ q.claim = cases[r].claim /\ q.email = cases[r].email
  BY <1>0, <1>2, <1>6 DEF D!Request
<1>8. cases' = [cases EXCEPT ![r] = q] /\ UNCHANGED <<venue, claim>>
  BY <1>1, <1>6 DEF D!CreateUser
<1>9. company'[u] = d /\ \A w \in Company \ {u} : company'[w] = company[w]
  BY <1>1, <1>2, <1>3 DEF DirectoryInv, D!TypeOK
<1>10. \A p \in Req \ {r} : cases'[p] = cases[p]
  BY <1>8 DEF DirectoryInv, D!TypeOK
<1>11. \A p \in Req \ {r} : cases[p] # None /\ Grants(cases[p]) =>
           cases[p].user \in Company /\ D!Exists(cases[p].user) /\ cases[p].user # u
  BY <1>2, CasesTyped DEF CaseSound, D!Exists
<1>12. \A p \in Req \ {r} : cases[p] # None => CaseSound(cases[p])'
  <2>1. \A p \in Req \ {r} : cases[p] # None /\ Grants(cases[p]) =>
               /\ company'[cases[p].user] = company[cases[p].user]
               /\ \A w \in Venue : venue'[w] = cases[p].user => venue[w] = cases[p].user
               /\ cases[p].phase = "mail" =>
                    claim'[cases[p].claim].user = claim[cases[p].claim].user
    BY <1>8, <1>9, <1>11
  <2>2. /\ \A w \in Company : company[w] # None => company'[w] # None
        /\ \A w \in Company : D!Exists(w) /\ company[w].state = "active" /\
               company'[w] # Gone => company'[w] = company[w]
        /\ \A w \in Company : company[w] = Gone => company'[w] = Gone
    BY <1>2, <1>9, NoneAssumption DEF D!Exists
  <2>3. QED
    BY <1>8, <1>10, <2>1, <2>2, OthersKept
<1>13. D!Owned(u) = {} /\ \A c \in Claim : claim[c] # None => claim[c].user # u
  BY <1>2 DEF DirectoryInv, OwnersSound, OwnerSound
<1>14. CaseSound(q)'
  <2>1. D!Owned(u)' = {} /\ D!Exists(u)'
    BY <1>5, <1>8, <1>9, <1>13 DEF D!Owned, D!Exists
  <2>2. Grants(q)' = Grants(q) /\ Grants(q)
    BY <1>7 DEF Grants
  <2>3. QED
    BY <1>4, <1>5, <1>7, <1>8, <1>9, <1>2, <2>1, <2>2 DEF CaseSound
<1>15. cases' \in [Req -> D!Request \cup {None}] /\ CasesSound' /\ OneGrant'
  BY <1>7, <1>8, <1>11, <1>12, <1>14, CaseMoves
<1>16. ASSUME NEW w \in Company PROVE OwnerSound(w)'
  <2>1. OwnerSound(w)
    BY DEF DirectoryInv, OwnersSound
  <2>2. D!Owned(w)' = D!Owned(w)
    BY <1>8 DEF D!Owned
  <2>3. D!Exists(u)' /\ \A x \in Company \ {u} : D!Exists(x)' = D!Exists(x)
    BY <1>5, <1>9 DEF D!Exists
  <2>4. CASE w = u
    <3>1. \A v, x \in D!Owned(w)' : v = x
      BY <1>13, <2>2, <2>4
    <3>2. \A x \in Company : D!Exists(x)' /\ company'[x].email = company'[w].email => x = w
      BY <1>2, <1>5, <1>9, <2>3, <2>4
    <3>3. company'[w] # None /\ company'[w].state = "new"
      BY <1>5, <1>9, <2>4
    <3>4. \A c \in Claim : claim'[c] # None => claim'[c].user # w
      BY <1>8, <1>13, <2>4
    <3>5. QED
      BY <3>1, <3>2, <3>3, <3>4 DEF OwnerSound
  <2>5. CASE w # u
    <3>1. company'[w] = company[w] /\ D!Exists(w)' = D!Exists(w)
      BY <1>9, <2>3, <2>5
    <3>2. \A x \in Company : D!Exists(w) /\ D!Exists(x)' /\ company'[x].email = company'[w].email => x = w
      BY <1>2, <1>5, <1>9, <2>1, <2>3, <2>5, <3>1 DEF OwnerSound
    <3>3. QED
      BY <1>8, <2>1, <2>2, <3>1, <3>2 DEF OwnerSound
  <2>6. QED
    BY <2>4, <2>5
<1>17. D!TypeOK'
  BY <1>1, <1>3, <1>5, <1>8, <1>15 DEF DirectoryInv, D!TypeOK
<1>18. QED
  BY <1>15, <1>16, <1>17 DEF DirectoryInv, OwnersSound

\* The venue changes hands, to an account that had none.
LEMMA GiveVenueKeeps ==
    ASSUME DirectoryInv, NEW r \in Req, D!GiveVenue(r)
    PROVE  DirectoryInv'
<1>0. /\ cases[r] # None /\ cases[r] \in D!Request /\ CaseSound(cases[r])
      /\ cases[r].op = "approve" /\ cases[r].phase = "venue"
  BY CasesTyped DEF D!GiveVenue, D!In
<1>1. PICK u, c : u = cases[r].user /\ c = cases[r].claim
  OBVIOUS
<1>2. /\ Grants(cases[r]) /\ u \in Company /\ D!Exists(u) /\ company[u].state = "new"
      /\ company[u].email = cases[r].email /\ D!Owned(u) = {}
      /\ c \in Claim /\ claim[c] # None /\ cases[r].email = claim[c].email
  BY <1>0, <1>1 DEF CaseSound, Grants
<1>3. claim[c].venue \in Venue
  BY <1>2, ClaimsTyped
<1>4. PICK v \in Venue : v = claim[c].venue
  BY <1>3
<1>5. /\ venue' = IF D!Here(v) THEN [venue EXCEPT ![v] = u] ELSE venue
      /\ UNCHANGED <<company, claim>>
  BY <1>1, <1>4 DEF D!GiveVenue
<1>6. /\ \A w \in Venue : venue'[w] = u => w = v
      /\ \A w \in Venue, x \in Company : x # u /\ venue'[w] = x => venue[w] = x
      /\ venue' \in [Venue -> Company \cup {"unowned", None, Gone}]
  BY <1>2, <1>5 DEF DirectoryInv, D!TypeOK, D!Owned
<1>7. PICK q : q = [cases[r] EXCEPT !.phase = "claim"]
  OBVIOUS
<1>8. /\ q \in D!Request /\ q.op = "approve" /\ q.phase = "claim" /\ q.user = u
      /\ q.claim = c /\ q.email = cases[r].email
  BY <1>0, <1>1, <1>7 DEF D!Request
<1>9. cases' = [cases EXCEPT ![r] = q]
  BY <1>7 DEF D!GiveVenue, D!Goes
<1>10. \A p \in Req \ {r} : cases'[p] = cases[p]
  BY <1>9 DEF DirectoryInv, D!TypeOK
<1>11. \A p \in Req \ {r} : cases[p] # None /\ Grants(cases[p]) =>
           cases[p].user \in Company /\ cases[p].user # u
  <2>1. \A p \in Req : cases[p] # None /\ Grants(cases[p]) => cases[p].user \in Company
    BY CasesTyped DEF CaseSound
  <2>2. \A p \in Req \ {r} : cases[p] # None /\ Grants(cases[p]) => cases[p].user # u
    BY <1>0, <1>1, <1>2 DEF DirectoryInv, OneGrant
  <2>3. QED
    BY <2>1, <2>2
<1>12. \A p \in Req \ {r} : cases[p] # None => CaseSound(cases[p])'
  <2>1. \A p \in Req \ {r} : cases[p] # None /\ Grants(cases[p]) =>
               /\ company'[cases[p].user] = company[cases[p].user]
               /\ \A w \in Venue : venue'[w] = cases[p].user => venue[w] = cases[p].user
               /\ cases[p].phase = "mail" =>
                    claim'[cases[p].claim].user = claim[cases[p].claim].user
    BY <1>5, <1>6, <1>11
  <2>2. QED
    BY <1>5, <1>10, <2>1, OthersKept
<1>13. D!Owned(u)' \subseteq {v}
  BY <1>6 DEF D!Owned
<1>14. CaseSound(q)'
  <2>1. D!Exists(u)' /\ Grants(q)' = Grants(q)
    BY <1>2, <1>5 DEF D!Exists, Grants
  <2>2. QED
    BY <1>2, <1>4, <1>5, <1>8, <1>13, <2>1 DEF CaseSound
<1>15. cases' \in [Req -> D!Request \cup {None}] /\ CasesSound' /\ OneGrant'
  BY <1>8, <1>9, <1>11, <1>12, <1>14, CaseMoves
<1>16. ASSUME NEW w \in Company PROVE OwnerSound(w)'
  <2>1. OwnerSound(w)
    BY DEF DirectoryInv, OwnersSound
  <2>2. \A x \in Company : D!Exists(x)' = D!Exists(x)
    BY <1>5 DEF D!Exists
  <2>3. CASE w = u
    BY <1>2, <1>5, <1>13, <2>1, <2>2, <2>3 DEF OwnerSound, D!Exists
  <2>4. CASE w # u
    <3>1. D!Owned(w)' \subseteq D!Owned(w)
      BY <1>6, <2>4 DEF D!Owned
    <3>2. QED
      BY <1>5, <2>1, <2>2, <3>1 DEF OwnerSound
  <2>5. QED
    BY <2>3, <2>4
<1>17. D!TypeOK'
  BY <1>5, <1>6, <1>15 DEF DirectoryInv, D!TypeOK
<1>18. QED
  BY <1>15, <1>16, <1>17 DEF DirectoryInv, OwnersSound

\* The claim is recorded with its account. Whoever it was recorded with before had the same
\* address, and is gone.
LEMMA ApproveKeeps ==
    ASSUME DirectoryInv, NEW r \in Req, D!Approve(r)
    PROVE  DirectoryInv'
<1>0. /\ cases[r] # None /\ cases[r] \in D!Request /\ CaseSound(cases[r])
      /\ cases[r].op = "approve" /\ cases[r].phase = "claim"
  BY CasesTyped DEF D!Approve, D!In
<1>1. PICK u, c : u = cases[r].user /\ c = cases[r].claim
  OBVIOUS
<1>2. /\ Grants(cases[r]) /\ u \in Company /\ D!Exists(u) /\ company[u].state = "new"
      /\ company[u].email = cases[r].email
      /\ c \in Claim /\ claim[c] # None /\ cases[r].email = claim[c].email
      /\ D!Owned(u) \subseteq {claim[c].venue}
  BY <1>0, <1>1 DEF CaseSound, Grants
<1>3. PICK k : k = [claim[c] EXCEPT !.status = "approved", !.user = u]
  OBVIOUS
<1>4. /\ k \in D!ClaimDocument /\ k # None
      /\ k.venue = claim[c].venue /\ k.email = claim[c].email /\ k.user = u
  BY <1>2, <1>3, ClaimsTyped, DirectoryAssumption DEF D!ClaimDocument
<1>5. claim' = [claim EXCEPT ![c] = k] /\ UNCHANGED <<venue, company>>
  BY <1>1, <1>3 DEF D!Approve
<1>6. claim'[c] = k /\ \A d \in Claim \ {c} : claim'[d] = claim[d]
  BY <1>2, <1>5 DEF DirectoryInv, D!TypeOK
<1>7. \A d \in Claim : /\ claim'[d] # None <=> claim[d] # None
                       /\ claim[d] # None => /\ claim'[d].venue = claim[d].venue
                                             /\ claim'[d].email = claim[d].email
  BY <1>2, <1>4, <1>6
<1>8. PICK q : q = [cases[r] EXCEPT !.phase = "mail"]
  OBVIOUS
<1>9. /\ q \in D!Request /\ q.op = "approve" /\ q.phase = "mail" /\ q.user = u
      /\ q.claim = c /\ q.email = cases[r].email
  BY <1>0, <1>1, <1>8 DEF D!Request
<1>10. cases' = [cases EXCEPT ![r] = q]
  BY <1>8 DEF D!Approve, D!Goes
<1>11. \A p \in Req \ {r} : cases'[p] = cases[p]
  BY <1>10 DEF DirectoryInv, D!TypeOK
<1>12. ASSUME NEW p \in Req \ {r}, cases[p] # None, Grants(cases[p])
       PROVE  /\ cases[p].user # u
              /\ cases[p].claim \in Claim /\ claim[cases[p].claim] # None
              /\ cases[p].claim # c
  <2>1. cases[p].user # u
    BY <1>0, <1>1, <1>2, <1>12 DEF DirectoryInv, OneGrant
  <2>2. /\ cases[p].user \in Company /\ D!Exists(cases[p].user)
        /\ cases[p].claim \in Claim /\ claim[cases[p].claim] # None
        /\ company[cases[p].user].email = claim[cases[p].claim].email
    BY <1>12, CasesTyped DEF CaseSound, Grants
  <2>3. OwnerSound(u)
    BY <1>2 DEF DirectoryInv, OwnersSound
  <2>4. cases[p].claim # c
    BY <1>2, <2>1, <2>2, <2>3 DEF OwnerSound
  <2>5. QED
    BY <2>1, <2>2, <2>4
<1>13. \A p \in Req \ {r} : cases[p] # None => CaseSound(cases[p])'
  <2>1. \A p \in Req \ {r} : cases[p] # None /\ Grants(cases[p]) =>
               /\ company'[cases[p].user] = company[cases[p].user]
               /\ \A w \in Venue : venue'[w] = cases[p].user => venue[w] = cases[p].user
               /\ cases[p].phase = "mail" =>
                    claim'[cases[p].claim].user = claim[cases[p].claim].user
    BY <1>5, <1>6, <1>12
  <2>2. QED
    BY <1>5, <1>7, <1>11, <2>1, OthersKept
<1>14. CaseSound(q)'
  <2>1. D!Exists(u)' /\ Grants(q)' = Grants(q) /\ D!Owned(u)' = D!Owned(u)
    BY <1>2, <1>5 DEF D!Exists, Grants, D!Owned
  <2>2. QED
    BY <1>2, <1>4, <1>5, <1>6, <1>9, <2>1 DEF CaseSound
<1>15. \A p \in Req \ {r} : cases[p] # None /\ Grants(cases[p]) => cases[p].user # q.user
  BY <1>9, <1>12
<1>16. cases' \in [Req -> D!Request \cup {None}] /\ CasesSound' /\ OneGrant'
  BY <1>9, <1>10, <1>13, <1>14, <1>15, CaseMoves
<1>17. ASSUME NEW w \in Company PROVE OwnerSound(w)'
  <2>1. OwnerSound(w) /\ OwnerSound(u)
    BY <1>2 DEF DirectoryInv, OwnersSound
  <2>2. D!Owned(w)' = D!Owned(w) /\ \A x \in Company : D!Exists(x)' = D!Exists(x)
    BY <1>5 DEF D!Owned, D!Exists
  <2>3. CASE w = u
    <3>1. \A d \in Claim : claim'[d] # None /\ claim'[d].user = u => claim'[d].email = company[u].email
      BY <1>2, <1>4, <1>6, <2>1 DEF OwnerSound
    <3>2. company[u] # None
      BY <1>2 DEF D!Exists
    <3>3. QED
      BY <1>2, <1>5, <2>1, <2>2, <2>3, <3>1, <3>2 DEF OwnerSound
  <2>4. CASE w # u
    <3>1. \A d \in Claim : claim'[d] # None /\ claim'[d].user = w => claim[d] # None /\ claim'[d] = claim[d]
      BY <1>4, <1>6, <2>4
    <3>2. D!Exists(w) => ~(claim[c].user = w)
      BY <1>2, <2>1, <2>4 DEF OwnerSound
    <3>3. D!Exists(w) => \A d \in Claim : claim[d] # None /\ claim[d].user = w => claim'[d] = claim[d]
      BY <1>6, <3>2
    <3>4. company[w] = None => \A d \in Claim : claim'[d] # None => claim'[d].user # w
      BY <2>1, <3>1 DEF OwnerSound
    <3>5. QED
      BY <1>5, <2>1, <2>2, <3>1, <3>3, <3>4 DEF OwnerSound
  <2>5. QED
    BY <2>3, <2>4
<1>18. D!TypeOK'
  BY <1>4, <1>5, <1>16 DEF DirectoryInv, D!TypeOK
<1>19. QED
  BY <1>16, <1>17, <1>18 DEF DirectoryInv, OwnersSound

\* The owner is invited.
LEMMA InviteKeeps ==
    ASSUME DirectoryInv, NEW r \in Req, D!Invite(r)
    PROVE  DirectoryInv'
<1>0. /\ cases[r] # None /\ cases[r] \in D!Request /\ CaseSound(cases[r])
      /\ cases[r].op = "approve" /\ cases[r].phase = "mail"
  BY CasesTyped DEF D!Invite, D!In
<1>1. PICK u, c : u = cases[r].user /\ c = cases[r].claim
  OBVIOUS
<1>2. /\ Grants(cases[r]) /\ u \in Company /\ D!Exists(u) /\ company[u].state = "new"
      /\ c \in Claim /\ claim[c] # None /\ claim[c].user = u
      /\ D!Owned(u) \subseteq {claim[c].venue}
  BY <1>0, <1>1 DEF CaseSound, Grants
<1>3. PICK d : d = [company[u] EXCEPT !.state = "invited"]
  OBVIOUS
<1>4. /\ d \in D!AccountDocument /\ d.email = company[u].email /\ d.state = "invited"
      /\ d \notin {None, Gone}
  BY <1>2, <1>3, CompaniesTyped, DirectoryAssumption DEF D!AccountDocument
<1>5. /\ company' = [company EXCEPT ![u] = d] /\ cases' = [cases EXCEPT ![r] = None]
      /\ UNCHANGED <<venue, claim>>
  BY <1>1, <1>3 DEF D!Invite, D!Ends
<1>6. company'[u] = d /\ \A w \in Company \ {u} : company'[w] = company[w]
  BY <1>2, <1>5 DEF DirectoryInv, D!TypeOK
<1>7. \A p \in Req \ {r} : cases'[p] = cases[p]
  BY <1>5 DEF DirectoryInv, D!TypeOK
<1>8. \A p \in Req \ {r} : cases[p] # None /\ Grants(cases[p]) =>
          cases[p].user \in Company /\ cases[p].user # u
  <2>1. \A p \in Req : cases[p] # None /\ Grants(cases[p]) => cases[p].user \in Company
    BY CasesTyped DEF CaseSound
  <2>2. \A p \in Req \ {r} : cases[p] # None /\ Grants(cases[p]) => cases[p].user # u
    BY <1>0, <1>1, <1>2 DEF DirectoryInv, OneGrant
  <2>3. QED
    BY <2>1, <2>2
<1>9. \A p \in Req \ {r} : cases[p] # None => CaseSound(cases[p])'
  <2>1. \A p \in Req \ {r} : cases[p] # None /\ Grants(cases[p]) =>
               /\ company'[cases[p].user] = company[cases[p].user]
               /\ \A w \in Venue : venue'[w] = cases[p].user => venue[w] = cases[p].user
               /\ cases[p].phase = "mail" =>
                    claim'[cases[p].claim].user = claim[cases[p].claim].user
    BY <1>5, <1>6, <1>8
  <2>2. /\ \A w \in Company : company[w] # None => company'[w] # None
        /\ \A w \in Company : D!Exists(w) /\ company[w].state = "active" /\
               company'[w] # Gone => company'[w] = company[w]
        /\ \A w \in Company : company[w] = Gone => company'[w] = Gone
    BY <1>2, <1>4, <1>6 DEF D!Exists
  <2>3. QED
    BY <1>5, <1>7, <2>1, <2>2, OthersKept
<1>10. cases' \in [Req -> D!Request \cup {None}] /\ CasesSound' /\ OneGrant'
  BY <1>5, <1>9, CaseMoves
<1>11. ASSUME NEW w \in Company PROVE OwnerSound(w)'
  <2>1. OwnerSound(w)
    BY DEF DirectoryInv, OwnersSound
  <2>2. D!Owned(w)' = D!Owned(w)
    BY <1>5 DEF D!Owned
  <2>3. \A x \in Company : /\ D!Exists(x)' = D!Exists(x)
                           /\ D!Exists(x) => company'[x].email = company[x].email
                           /\ company'[x] = None <=> company[x] = None
    BY <1>2, <1>4, <1>6 DEF D!Exists
  <2>4. company'[w].state # "new" /\ D!Exists(w) =>
            \E b \in Claim : /\ claim[b] # None /\ claim[b].user = w
                             /\ D!Owned(w) \subseteq {claim[b].venue}
    <3>1. CASE w = u
      BY <1>2, <3>1
    <3>2. CASE w # u
      BY <1>6, <2>1, <3>2 DEF OwnerSound
    <3>3. QED
      BY <3>1, <3>2
  <2>5. QED
    BY <1>5, <2>1, <2>2, <2>3, <2>4 DEF OwnerSound
<1>12. D!TypeOK'
  BY <1>4, <1>5, <1>10 DEF DirectoryInv, D!TypeOK
<1>13. QED
  BY <1>10, <1>11, <1>12 DEF DirectoryInv, OwnersSound

\* An owner leaves: a venue is saved without one.
LEMMA ReleaseKeeps ==
    ASSUME DirectoryInv, NEW r \in Req, NEW v \in Venue, D!Release(r, v)
    PROVE  DirectoryInv'
<1>0. /\ cases[r] # None /\ cases[r] \in D!Request /\ CaseSound(cases[r])
      /\ cases[r].op = "leave" /\ cases[r].phase = "release"
  BY CasesTyped DEF D!Release, D!In
<1>1. /\ venue' \in [Venue -> Company \cup {"unowned", None, Gone}]
      /\ \A w \in Venue, u \in Company : venue'[w] = u => venue[w] = u
      /\ UNCHANGED <<company, claim>>
  BY DirectoryAssumption DEF D!Release, DirectoryInv, D!TypeOK
<1>2. PICK q : q = [cases[r] EXCEPT !.venues = @ \ {v}]
  OBVIOUS
<1>3. /\ q \in D!Request /\ q.op = "leave" /\ q.user = cases[r].user
  BY <1>0, <1>2 DEF D!Request
<1>4. cases' = [cases EXCEPT ![r] = q]
  BY <1>2 DEF D!Release
<1>5. \A p \in Req \ {r} : cases'[p] = cases[p]
  BY <1>4 DEF DirectoryInv, D!TypeOK
<1>6. \A p \in Req : cases[p] # None /\ Grants(cases[p]) => cases[p].user \in Company
  BY CasesTyped DEF CaseSound
<1>7. \A p \in Req \ {r} : cases[p] # None => CaseSound(cases[p])'
  <2>1. \A p \in Req \ {r} : cases[p] # None /\ Grants(cases[p]) =>
               /\ company'[cases[p].user] = company[cases[p].user]
               /\ \A w \in Venue : venue'[w] = cases[p].user => venue[w] = cases[p].user
               /\ cases[p].phase = "mail" =>
                    claim'[cases[p].claim].user = claim[cases[p].claim].user
    BY <1>1, <1>6
  <2>2. QED
    BY <1>1, <1>5, <2>1, OthersKept
<1>8. CaseSound(q)' /\ ~Grants(q)
  BY <1>0, <1>1, <1>3 DEF CaseSound, Grants, D!Exists
<1>9. cases' \in [Req -> D!Request \cup {None}] /\ CasesSound' /\ OneGrant'
  BY <1>3, <1>4, <1>7, <1>8, CaseMoves
<1>10. OwnersSound'
  BY <1>1, OwnersShrink
<1>11. D!TypeOK'
  BY <1>1, <1>9 DEF DirectoryInv, D!TypeOK
<1>12. QED
  BY <1>9, <1>10, <1>11 DEF DirectoryInv

\* An owner leaves: the account is deleted.
LEMMA DeleteUserKeeps ==
    ASSUME DirectoryInv, NEW r \in Req, D!DeleteUser(r)
    PROVE  DirectoryInv'
<1>0. /\ cases[r] # None /\ cases[r] \in D!Request /\ CaseSound(cases[r])
      /\ cases[r].op = "leave"
  BY CasesTyped DEF D!DeleteUser, D!In
<1>1. PICK u : u = cases[r].user
  OBVIOUS
<1>2. u \in Company /\ company[u] # None /\ (D!Exists(u) => company[u].state = "active")
  BY <1>0, <1>1 DEF CaseSound
<1>3. /\ company' = [company EXCEPT ![u] = Gone] /\ cases' = [cases EXCEPT ![r] = None]
      /\ UNCHANGED <<venue, claim>>
  BY <1>1 DEF D!DeleteUser, D!Ends
<1>4. company'[u] = Gone /\ \A w \in Company \ {u} : company'[w] = company[w]
  BY <1>2, <1>3 DEF DirectoryInv, D!TypeOK
<1>5. \A p \in Req \ {r} : cases'[p] = cases[p]
  BY <1>3 DEF DirectoryInv, D!TypeOK
<1>6. \A p \in Req : cases[p] # None /\ Grants(cases[p]) =>
          /\ cases[p].user \in Company /\ cases[p].user # u
  BY <1>2, CasesTyped DEF CaseSound
<1>7. \A p \in Req \ {r} : cases[p] # None => CaseSound(cases[p])'
  <2>1. \A p \in Req \ {r} : cases[p] # None /\ Grants(cases[p]) =>
               /\ company'[cases[p].user] = company[cases[p].user]
               /\ \A w \in Venue : venue'[w] = cases[p].user => venue[w] = cases[p].user
               /\ cases[p].phase = "mail" =>
                    claim'[cases[p].claim].user = claim[cases[p].claim].user
    BY <1>3, <1>4, <1>6
  <2>2. /\ \A w \in Company : company[w] # None => company'[w] # None
        /\ \A w \in Company : D!Exists(w) /\ company[w].state = "active" /\
               company'[w] # Gone => company'[w] = company[w]
        /\ \A w \in Company : company[w] = Gone => company'[w] = Gone
    BY <1>4, NoneAssumption
  <2>3. QED
    BY <1>3, <1>5, <2>1, <2>2, OthersKept
<1>8. cases' \in [Req -> D!Request \cup {None}] /\ CasesSound' /\ OneGrant'
  BY <1>3, <1>7, CaseMoves
<1>9. ASSUME NEW w \in Company PROVE OwnerSound(w)'
  <2>1. OwnerSound(w)
    BY DEF DirectoryInv, OwnersSound
  <2>2. D!Owned(w)' = D!Owned(w)
    BY <1>3 DEF D!Owned
  <2>3. \A x \in Company : /\ D!Exists(x)' => D!Exists(x) /\ company'[x] = company[x]
                           /\ company'[x] = None => company[x] = None
    BY <1>4, NoneAssumption DEF D!Exists
  <2>4. QED
    BY <1>3, <2>1, <2>2, <2>3 DEF OwnerSound
<1>10. D!TypeOK'
  BY <1>3, <1>8 DEF DirectoryInv, D!TypeOK
<1>11. QED
  BY <1>8, <1>9, <1>10 DEF DirectoryInv, OwnersSound

LEMMA DirectoryStep == DirectoryInv /\ [D!Next]_(D!vars) => DirectoryInv'
<1> SUFFICES ASSUME DirectoryInv, [D!Next]_(D!vars) PROVE DirectoryInv'
  OBVIOUS
<1>1. CASE UNCHANGED D!vars
  BY <1>1 DEF D!vars, DirectoryInv, D!TypeOK, CasesSound, CaseSound, Grants, OneGrant,
              OwnersSound, OwnerSound, D!Owned, D!Exists
<1>2. CASE D!Next
  BY <1>2, SyncKeeps, CompanyKeeps, CaseStarts, CaseGoes, ApplyCreateKeeps, RejectKeeps,
     CreateUserKeeps, GiveVenueKeeps, ApproveKeeps, InviteKeeps, ReleaseKeeps, DeleteUserKeeps
     DEF D!Next
<1>3. QED
  BY <1>1, <1>2

LEMMA DirectorySound == D!Spec => []DirectoryInv
BY DirectoryInit, DirectoryStep, PTL DEF D!Spec

LEMMA DirectoryKeeps == DirectoryInv => D!TypeOK /\ D!OneToOne
<1>1. DirectoryInv => D!OneToOne
  BY DEF DirectoryInv, OwnersSound, OwnerSound, D!OneToOne
<1>2. QED
  BY <1>1 DEF DirectoryInv

-------------------------------------------------------------------------------
(* The wallet *)

USE WalletAssumption

\* What a request read was there, and what it is to spend was part of it.
SpendingSound(q) ==
    /\ q.seen >= 0
    /\ q.op \in {"superlike", "boost"} => q.seen > 0
    /\ q.op = "superlike" => q.arg \in User
    /\ q.op = "create" => q.arg \in charged
    /\ q.op = "pack" => q.arg \in Pack

WalletInv ==
    /\ W!TypeOK /\ W!NothingForFree
    /\ \A r \in Req : spending[r] # None => SpendingSound(spending[r])

\* The document is written, by a request that is over, or none.
LEMMA WalletWritten ==
    ASSUME WalletInv, wallet' \in W!Document, wallet'.superlikes >= 0, wallet'.boosts >= 0,
           due' \in BOOLEAN, UNCHANGED <<superlikes, charged>>,
           spending' = spending \/ \E r \in Req : spending' = [spending EXCEPT ![r] = None]
    PROVE  WalletInv'
<1>1. \A r \in Req : spending'[r] \in {spending[r], None}
  BY DEF WalletInv, W!TypeOK
<1>2. spending' \in [Req -> W!Request \cup {None}]
  BY DEF WalletInv, W!TypeOK
<1>3. W!TypeOK'
  BY <1>2 DEF WalletInv, W!TypeOK
<1>4. W!NothingForFree'
  BY DEF WalletInv, W!NothingForFree
<1>5. \A r \in Req : spending'[r] # None => SpendingSound(spending[r])'
  BY <1>1 DEF WalletInv, SpendingSound
<1>6. QED
  BY <1>3, <1>4, <1>5 DEF WalletInv

\* A request begins.
LEMMA SpendingStarts ==
    ASSUME WalletInv, NEW r \in Req,
           NEW op \in {"trial", "premium", "free", "pack", "allowance", "superlike", "boost", "mock"},
           NEW balance \in {"superlikes", "boosts"}, NEW arg \in User \cup Pack \cup {None},
           W!Starts(r, op, balance, arg),
           op = "superlike" => arg \in User /\ balance = "superlikes" /\ wallet.superlikes > 0,
           op = "boost" => balance = "boosts" /\ wallet.boosts > 0,
           op = "pack" => arg \in Pack
    PROVE  WalletInv'
<1>1. PICK q : q = [op |-> op, balance |-> balance, seen |-> wallet[balance], arg |-> arg]
  OBVIOUS
<1>2. wallet[balance] \in Int /\ wallet[balance] >= 0
  <2>1. CASE balance = "superlikes"
    BY <2>1 DEF WalletInv, W!TypeOK, W!Document, W!NothingForFree
  <2>2. CASE balance = "boosts"
    BY <2>2 DEF WalletInv, W!TypeOK, W!Document, W!NothingForFree
  <2>3. QED
    BY <2>1, <2>2
<1>3. q \in W!Request /\ q.op = op /\ q.seen = wallet[balance] /\ q.arg = arg
  BY <1>1, <1>2 DEF W!Request, W!Balance
<1>4. SpendingSound(q)
  BY <1>2, <1>3 DEF SpendingSound
<1>5. spending' = [spending EXCEPT ![r] = q] /\ UNCHANGED <<wallet, due, superlikes, charged>>
  BY <1>1 DEF W!Starts
<1>6. /\ spending' \in [Req -> W!Request \cup {None}] /\ spending'[r] = q
      /\ \A p \in Req \ {r} : spending'[p] = spending[p]
  BY <1>3, <1>5 DEF WalletInv, W!TypeOK
<1>7. \A p \in Req : spending'[p] # None => SpendingSound(spending[p])'
  BY <1>4, <1>5, <1>6 DEF WalletInv, SpendingSound
<1>8. W!TypeOK'
  BY <1>5, <1>6 DEF WalletInv, W!TypeOK
<1>9. W!NothingForFree'
  BY <1>5 DEF WalletInv, W!NothingForFree
<1>10. QED
  BY <1>7, <1>8, <1>9 DEF WalletInv

LEMMA SpendingBegins ==
    ASSUME WalletInv, NEW r \in Req,
           \/ W!StartTrial(r) \/ W!GetWeeklyAllowance(r)
           \/ \E premium \in BOOLEAN : W!Subscription(r, premium)
           \/ \E balance \in W!Balance, n \in Pack : W!BuyPack(r, balance, n)
           \/ \E u \in User : W!SendSuperlike(r, u)
           \/ \E mock \in BOOLEAN : W!ActivateBoost(r, mock)
    PROVE  WalletInv'
<1>1. CASE W!StartTrial(r)
  BY <1>1, SpendingStarts DEF W!StartTrial
<1>2. CASE W!GetWeeklyAllowance(r)
  BY <1>2, SpendingStarts DEF W!GetWeeklyAllowance
<1>3. ASSUME NEW premium \in BOOLEAN, W!Subscription(r, premium) PROVE WalletInv'
  BY <1>3, SpendingStarts DEF W!Subscription
<1>4. ASSUME NEW balance \in W!Balance, NEW n \in Pack, W!BuyPack(r, balance, n) PROVE WalletInv'
  BY <1>4, SpendingStarts DEF W!BuyPack, W!Balance
<1>5. ASSUME NEW u \in User, W!SendSuperlike(r, u) PROVE WalletInv'
  BY <1>5, SpendingStarts DEF W!SendSuperlike
<1>6. ASSUME NEW mock \in BOOLEAN, W!ActivateBoost(r, mock) PROVE WalletInv'
  BY <1>6, SpendingStarts DEF W!ActivateBoost
<1>7. QED
  BY <1>1, <1>2, <1>3, <1>4, <1>5, <1>6

\* A request saves what it computed from what it had read.
LEMMA SpendingSaves ==
    ASSUME WalletInv, NEW r \in Req,
           \/ W!StartTrialSave(r) \/ W!SetRole(r) \/ W!BuyPackSave(r)
           \/ W!GetWeeklyAllowanceSave(r) \/ W!ActivateBoostSave(r) \/ W!Fails(r)
    PROVE  WalletInv'
<1>0. /\ spending[r] # None /\ spending[r] \in W!Request /\ SpendingSound(spending[r])
      /\ wallet \in W!Document /\ wallet.superlikes >= 0 /\ wallet.boosts >= 0 /\ due \in BOOLEAN
  BY DEF WalletInv, W!TypeOK, W!NothingForFree, W!StartTrialSave, W!SetRole, W!BuyPackSave,
         W!GetWeeklyAllowanceSave, W!ActivateBoostSave, W!Fails, W!In
<1>1. PICK seen : seen = spending[r].seen /\ seen \in Int /\ seen >= 0
  BY <1>0 DEF W!Request, SpendingSound
<1>2. /\ spending' = [spending EXCEPT ![r] = None] /\ UNCHANGED <<superlikes, charged>>
      /\ due' \in BOOLEAN
  BY <1>0 DEF W!StartTrialSave, W!SetRole, W!BuyPackSave, W!GetWeeklyAllowanceSave,
              W!ActivateBoostSave, W!Fails, W!Saves
<1>3. wallet' \in W!Document /\ wallet'.superlikes >= 0 /\ wallet'.boosts >= 0
  <2>1. CASE W!StartTrialSave(r)
    BY <1>0, <2>1 DEF W!StartTrialSave, W!Saves, W!Document
  <2>2. CASE W!SetRole(r)
    BY <1>0, <2>2 DEF W!SetRole, W!Saves, W!Document
  <2>3. CASE W!BuyPackSave(r)
    <3>1. PICK n : n = spending[r].seen + spending[r].arg
      OBVIOUS
    <3>2. spending[r].arg \in Pack
      BY <1>0, <2>3 DEF W!BuyPackSave, W!In, SpendingSound
    <3>3. n \in Int /\ n >= 0
      <4>1. PICK arg : arg = spending[r].arg /\ arg \in Nat
        BY <3>2
      <4>2. n = seen + arg
        BY <1>1, <3>1, <4>1
      <4>3. QED
        BY <1>1, <4>1, <4>2
    <3>4. wallet' = [wallet EXCEPT ![spending[r].balance] = n]
      BY <2>3, <3>1 DEF W!BuyPackSave, W!Saves
    <3>5. CASE spending[r].balance = "superlikes"
      <4>1. wallet' = [wallet EXCEPT !.superlikes = n]
        BY <3>4, <3>5
      <4>2. QED
        BY <1>0, <3>3, <4>1 DEF W!Document
    <3>6. CASE spending[r].balance = "boosts"
      <4>1. wallet' = [wallet EXCEPT !.boosts = n]
        BY <3>4, <3>6
      <4>2. QED
        BY <1>0, <3>3, <4>1 DEF W!Document
    <3>7. QED
      BY <1>0, <3>5, <3>6 DEF W!Request, W!Balance
  <2>4. CASE W!GetWeeklyAllowanceSave(r)
    <3>1. PICK n : n = IF seen < Floor THEN Floor ELSE wallet.superlikes
      OBVIOUS
    <3>2. n \in Int /\ n >= 0
      BY <1>0, <1>1, <3>1 DEF W!Document
    <3>3. wallet' = [wallet EXCEPT !.superlikes = n]
      BY <1>1, <2>4, <3>1 DEF W!GetWeeklyAllowanceSave, W!Saves
    <3>4. QED
      BY <1>0, <3>2, <3>3 DEF W!Document
  <2>5. CASE W!ActivateBoostSave(r)
    <3>1. PICK n : n = IF spending[r].op = "mock" THEN wallet.boosts ELSE seen - 1
      OBVIOUS
    <3>2. n \in Int /\ n >= 0
      <4>1. spending[r].op # "mock" => seen > 0
        BY <1>0, <1>1, <2>5 DEF W!ActivateBoostSave, W!In, SpendingSound
      <4>2. wallet.boosts \in Int /\ wallet.boosts >= 0
        BY <1>0 DEF W!Document
      <4>3. QED
        BY <1>1, <3>1, <4>1, <4>2
    <3>3. wallet' = [wallet EXCEPT !.boosted = TRUE, !.boosts = n]
      BY <1>1, <2>5, <3>1 DEF W!ActivateBoostSave, W!Saves, W!Left
    <3>4. QED
      BY <1>0, <3>2, <3>3 DEF W!Document
  <2>6. CASE W!Fails(r)
    BY <1>0, <2>6 DEF W!Fails
  <2>7. QED
    BY <2>1, <2>2, <2>3, <2>4, <2>5, <2>6
<1>4. QED
  BY <1>2, <1>3, WalletWritten

\* A superlike is charged, and then created.
LEMMA SuperlikeKeeps ==
    ASSUME WalletInv, NEW r \in Req, W!SendSuperlikeSave(r) \/ W!SendSuperlikeCreate(r)
    PROVE  WalletInv'
<1>0. /\ spending[r] # None /\ spending[r] \in W!Request /\ SpendingSound(spending[r])
      /\ wallet \in W!Document /\ wallet.superlikes >= 0 /\ wallet.boosts >= 0
  BY DEF WalletInv, W!TypeOK, W!NothingForFree, W!SendSuperlikeSave, W!SendSuperlikeCreate, W!In
<1>1. CASE W!SendSuperlikeSave(r)
  <2>1. PICK n : n = spending[r].seen - 1
    OBVIOUS
  <2>2. n \in Int /\ n >= 0 /\ spending[r].arg \in User
    BY <1>0, <1>1, <2>1 DEF W!SendSuperlikeSave, W!In, W!Request, SpendingSound
  <2>3. wallet' = [wallet EXCEPT !.superlikes = n]
    BY <1>1, <2>1 DEF W!SendSuperlikeSave, W!Left
  <2>4. wallet' \in W!Document /\ wallet'.superlikes >= 0 /\ wallet'.boosts >= 0
    BY <1>0, <2>2, <2>3 DEF W!Document
  <2>5. PICK q : q = [spending[r] EXCEPT !.op = "create", !.seen = 0]
    OBVIOUS
  <2>6. q \in W!Request /\ q.op = "create" /\ q.seen = 0 /\ q.arg = spending[r].arg
    <3>1. PICK o : o = spending[r] /\ o \in W!Request
      BY <1>0
    <3>2. q = [op |-> "create", balance |-> o.balance, seen |-> 0, arg |-> o.arg]
      BY <2>5, <3>1 DEF W!Request
    <3>3. o.balance \in W!Balance /\ o.arg \in User \cup Pack \cup {None}
      BY <3>1 DEF W!Request
    <3>4. QED
      BY <3>1, <3>2, <3>3 DEF W!Request
  <2>7. /\ spending' = [spending EXCEPT ![r] = q] /\ charged' = charged \cup {q.arg}
        /\ UNCHANGED <<due, superlikes>>
    BY <1>1, <2>5, <2>6 DEF W!SendSuperlikeSave
  <2>8. /\ spending' \in [Req -> W!Request \cup {None}] /\ spending'[r] = q
        /\ \A p \in Req \ {r} : spending'[p] = spending[p]
    BY <2>6, <2>7 DEF WalletInv, W!TypeOK
  <2>9. \A p \in Req : spending'[p] # None => SpendingSound(spending[p])'
    BY <2>6, <2>7, <2>8 DEF WalletInv, SpendingSound
  <2>10. W!TypeOK'
    BY <2>2, <2>4, <2>6, <2>7, <2>8 DEF WalletInv, W!TypeOK
  <2>11. W!NothingForFree'
    BY <2>4, <2>7 DEF WalletInv, W!NothingForFree
  <2>12. QED
    BY <2>9, <2>10, <2>11 DEF WalletInv
<1>2. CASE W!SendSuperlikeCreate(r)
  <2>1. PICK u : u = spending[r].arg
    OBVIOUS
  <2>2. u \in charged /\ charged \subseteq User
    BY <1>0, <1>2, <2>1 DEF W!SendSuperlikeCreate, W!In, SpendingSound, WalletInv, W!TypeOK
  <2>3. /\ superlikes' = [superlikes EXCEPT ![u] = "pending"]
        /\ spending' = [spending EXCEPT ![r] = None] /\ UNCHANGED <<wallet, due, charged>>
    BY <1>2, <2>1 DEF W!SendSuperlikeCreate
  <2>4. superlikes' \in [User -> {None, "pending", "accepted"}]
    BY <2>2, <2>3 DEF WalletInv, W!TypeOK
  <2>5. \A w \in User : superlikes'[w] # None => w \in charged
    BY <2>2, <2>3 DEF WalletInv, W!TypeOK, W!NothingForFree
  <2>6. /\ spending' \in [Req -> W!Request \cup {None}]
        /\ \A p \in Req : spending'[p] \in {spending[p], None}
    BY <2>3 DEF WalletInv, W!TypeOK
  <2>7. \A p \in Req : spending'[p] # None => SpendingSound(spending[p])'
    BY <2>3, <2>6 DEF WalletInv, SpendingSound
  <2>8. W!TypeOK' /\ W!NothingForFree'
    BY <2>3, <2>4, <2>5, <2>6 DEF WalletInv, W!TypeOK, W!NothingForFree
  <2>9. QED
    BY <2>7, <2>8 DEF WalletInv
<1>3. QED
  BY <1>1, <1>2

LEMMA WalletStep == WalletInv /\ [W!Next]_(W!vars) => WalletInv'
<1> SUFFICES ASSUME WalletInv, [W!Next]_(W!vars) PROVE WalletInv'
  OBVIOUS
<1>0. wallet \in W!Document /\ wallet.superlikes >= 0 /\ wallet.boosts >= 0
  BY DEF WalletInv, W!TypeOK, W!NothingForFree
<1>1. ASSUME NEW balance \in W!Balance, W!Gift(balance) PROVE WalletInv'
  <2>1. CASE balance = "superlikes"
    <3>1. wallet' = [wallet EXCEPT !.superlikes = @ + 1]
      BY <1>1, <2>1 DEF W!Gift
    <3>2. wallet' \in W!Document /\ wallet'.superlikes >= 0 /\ wallet'.boosts >= 0
      BY <1>0, <3>1 DEF W!Document
    <3>3. QED
      BY <1>1, <3>2, WalletWritten DEF W!Gift, WalletInv, W!TypeOK
  <2>2. CASE balance = "boosts"
    <3>1. wallet' = [wallet EXCEPT !.boosts = @ + 1]
      BY <1>1, <2>2 DEF W!Gift
    <3>2. wallet' \in W!Document /\ wallet'.superlikes >= 0 /\ wallet'.boosts >= 0
      BY <1>0, <3>1 DEF W!Document
    <3>3. QED
      BY <1>1, <3>2, WalletWritten DEF W!Gift, WalletInv, W!TypeOK
  <2>3. QED
    BY <2>1, <2>2 DEF W!Balance
<1>2. CASE W!TrialEnds \/ W!WeekPasses \/ W!BoostEnds
  <2>1. wallet' \in W!Document /\ wallet'.superlikes >= 0 /\ wallet'.boosts >= 0
    BY <1>0, <1>2 DEF W!TrialEnds, W!WeekPasses, W!BoostEnds, W!Document
  <2>2. due' \in BOOLEAN /\ UNCHANGED <<superlikes, charged, spending>>
    BY <1>2 DEF W!TrialEnds, W!WeekPasses, W!BoostEnds, WalletInv, W!TypeOK
  <2>3. QED
    BY <2>1, <2>2, WalletWritten
<1>3. ASSUME NEW u \in User, W!AcceptSuperlike(u) PROVE WalletInv'
  <2>1. /\ superlikes[u] = "pending" /\ superlikes' = [superlikes EXCEPT ![u] = "accepted"]
        /\ UNCHANGED <<wallet, due, spending, charged>>
    BY <1>3 DEF W!AcceptSuperlike
  <2>2. u \in charged
    BY <2>1 DEF WalletInv, W!NothingForFree
  <2>3. W!TypeOK' /\ W!NothingForFree'
    BY <2>1, <2>2 DEF WalletInv, W!TypeOK, W!NothingForFree
  <2>4. QED
    BY <2>1, <2>3 DEF WalletInv, SpendingSound
<1>4. CASE UNCHANGED W!vars
  BY <1>4 DEF W!vars, WalletInv, W!TypeOK, W!NothingForFree, SpendingSound
<1>5. QED
  BY <1>1, <1>2, <1>3, <1>4, SpendingBegins, SpendingSaves, SuperlikeKeeps DEF W!Next

LEMMA WalletInit == W!Init => WalletInv
<1> SUFFICES ASSUME W!Init PROVE WalletInv
  OBVIOUS
<1>1. wallet \in W!Document /\ wallet.superlikes = 0 /\ wallet.boosts = 0
  BY DEF W!Init, W!Document
<1>2. QED
  BY <1>1 DEF W!Init, WalletInv, W!TypeOK, W!NothingForFree

LEMMA WalletSound == W!Spec => []WalletInv
BY WalletInit, WalletStep, PTL DEF W!Spec

-------------------------------------------------------------------------------
(* The theorems about all of them *)

LEMMA EachRuns == Accounts => Safety /\ D!Spec /\ W!Spec
<1>1. AccountsInit => Init /\ D!Init /\ W!Init
  BY DEF AccountsInit
<1>2. [AccountsNext]_<<vars, directory, purse, side>>
          => [Next]_vars /\ [D!Next]_(D!vars) /\ [W!Next]_(W!vars)
  BY DEF AccountsNext, vars, directory, purse, D!vars, W!vars
<1>3. QED
  BY <1>1, <1>2, PTL DEF Accounts, Safety, D!Spec, W!Spec

\* The documents of the user, of the professionals with their venues and claims, and of the
\* wallet keep their shape, whatever requests overlap and wherever one stops.
THEOREM TypesCorrect == Accounts => []AccountsTypeOK
<1>1. AccountInv /\ DirectoryInv /\ WalletInv => AccountsTypeOK
  BY DirectoryKeeps DEF AccountInv, WalletInv, AccountsTypeOK
<1>2. QED
  BY <1>1, EachRuns, AccountSound, DirectorySound, WalletSound, PTL

\* For any number of venues, claims and requests, no professional has two venues, and whoever
\* was invited has no other venue than that of a claim recorded with the account: whichever
\* claims, approvals and deletions run together and wherever one stops (actOnClaimRequest).
THEOREM OwnersAreOneToOne == Accounts => []OneToOne
<1>1. DirectoryInv => OneToOne
  BY DirectoryKeeps DEF OneToOne
<1>2. QED
  BY <1>1, EachRuns, DirectorySound, PTL

\* No balance falls below zero and no superlike is shown that was not charged, whatever
\* purchases, gifts and expenses overlap (PremiumController, handleWebhook of iap.controller.js).
THEOREM NothingComesFree == Accounts => []NothingForFree
<1>1. WalletInv => NothingForFree
  BY DEF WalletInv, NothingForFree
<1>2. QED
  BY <1>1, EachRuns, WalletSound, PTL

-------------------------------------------------------------------------------
(* The cache of a venue's page *)

CacheInv == K!TypeOK /\ K!NobodyForgotten

\* A flight goes on: it stays a flight, and nobody's wait changes.
LEMMA FlightGoesOn ==
    ASSUME CacheInv, NEW w \in Worker, flight[w] # None, NEW f \in K!Flight,
           flight' = [flight EXCEPT ![w] = f], UNCHANGED <<version, locking, reads, dirty>>,
           cache' \in K!Version \cup {None}, lock' \in Worker \cup {"dead", None}
    PROVE  CacheInv'
<1>1. f # None
  BY CacheAssumption
<1>2. \A v \in Worker : flight'[v] = IF v = w THEN f ELSE flight[v]
  BY DEF CacheInv, K!TypeOK
<1>3. QED
  BY <1>1, <1>2 DEF CacheInv, K!TypeOK, K!Version, K!NobodyForgotten

LEMMA CacheStep == CacheInv /\ [K!Next]_(K!vars) => CacheInv'
<1> SUFFICES ASSUME CacheInv, [K!Next]_(K!vars) PROVE CacheInv'
  OBVIOUS
<1>0. K!TypeOK /\ K!NobodyForgotten
  BY DEF CacheInv
<1>1. ASSUME NEW r \in Req, NEW w \in Worker, K!Arrive(r, w) PROVE CacheInv'
  <2>1. PICK q : q = [worker |-> w, phase |-> "read"]
    OBVIOUS
  <2>2. q \in K!Request /\ q.phase # "wait"
    BY <2>1 DEF K!Request
  <2>3. \A s \in Req : reads'[s] = IF s = r THEN q ELSE reads[s]
    BY <1>0, <1>1, <2>1 DEF K!Arrive, K!TypeOK
  <2>4. K!TypeOK'
    BY <1>0, <1>1, <2>1, <2>2 DEF K!Arrive, K!TypeOK
  <2>5. QED
    BY <1>0, <1>1, <2>2, <2>3, <2>4 DEF K!Arrive, CacheInv, K!NobodyForgotten
<1>2. ASSUME NEW r \in Req, K!Hit(r) PROVE CacheInv'
  BY <1>0, <1>2 DEF K!Hit, CacheInv, K!TypeOK, K!NobodyForgotten
<1>3. ASSUME NEW r \in Req, K!Miss(r) PROVE CacheInv'
  <2>1. PICK v : v = reads[r].worker
    OBVIOUS
  <2>2. reads[r] \in K!Request /\ v \in Worker
    BY <1>0, <1>3, <2>1 DEF K!Miss, K!TypeOK, K!Request
  <2>3. PICK q : q = [reads[r] EXCEPT !.phase = "wait"]
    OBVIOUS
  <2>4. q \in K!Request /\ q.worker = v
    BY <2>1, <2>2, <2>3 DEF K!Request
  <2>5. PICK f : f = IF flight[v] # None THEN flight[v]
                     ELSE [phase |-> IF locking THEN "lock" ELSE "query",
                           held |-> FALSE, page |-> None]
    OBVIOUS
  <2>6. f \in K!Flight /\ f # None
    <3>1. flight[v] # None => flight[v] \in K!Flight
      BY <1>0, <2>2 DEF K!TypeOK
    <3>2. [phase |-> IF locking THEN "lock" ELSE "query", held |-> FALSE, page |-> None] \in K!Flight
      BY DEF K!Flight
    <3>3. QED
      BY <2>5, <3>1, <3>2, CacheAssumption
  <2>7. reads' = [reads EXCEPT ![r] = q] /\ flight' = [flight EXCEPT ![v] = f]
    BY <1>3, <2>1, <2>3, <2>5 DEF K!Miss
  <2>8. UNCHANGED <<version, cache, lock, locking, dirty>>
    BY <1>3 DEF K!Miss
  <2>9. K!TypeOK'
    BY <1>0, <2>2, <2>4, <2>6, <2>7, <2>8 DEF K!TypeOK
  <2>10. /\ \A s \in Req : reads'[s] = IF s = r THEN q ELSE reads[s]
         /\ \A w \in Worker : flight'[w] = IF w = v THEN f ELSE flight[w]
    BY <1>0, <2>7 DEF K!TypeOK
  <2>11. \A s \in Req : reads[s] # None => reads[s].worker \in Worker
    BY <1>0 DEF K!TypeOK, K!Request
  <2>12. ASSUME NEW s \in Req, reads'[s] # None, reads'[s].phase = "wait"
         PROVE  flight'[reads'[s].worker] # None
    <3>1. CASE s = r
      BY <2>2, <2>4, <2>6, <2>10, <3>1
    <3>2. CASE s # r
      <4>1. reads'[s] = reads[s] /\ reads[s].worker \in Worker /\ flight[reads[s].worker] # None
        BY <1>0, <2>10, <2>11, <2>12, <3>2 DEF K!NobodyForgotten
      <4>2. QED
        BY <2>6, <2>10, <4>1
    <3>3. QED
      BY <3>1, <3>2
  <2>13. QED
    BY <2>9, <2>12 DEF CacheInv, K!NobodyForgotten
<1>4. ASSUME NEW w \in Worker, K!Land(w) PROVE CacheInv'
  <2>1. /\ flight' = [flight EXCEPT ![w] = None]
        /\ reads' = [r \in Req |-> IF reads[r] = [worker |-> w, phase |-> "wait"]
                                     THEN None ELSE reads[r]]
        /\ UNCHANGED <<version, cache, lock, locking, dirty>>
    BY <1>4 DEF K!Land
  <2>2. \A r \in Req : reads'[r] # None =>
          reads'[r] = reads[r] /\ reads[r] # [worker |-> w, phase |-> "wait"]
    BY <2>1
  <2>3. \A r \in Req : reads[r] # None /\ reads[r].phase = "wait" /\ reads[r].worker = w =>
          reads[r] = [worker |-> w, phase |-> "wait"]
    BY <1>0 DEF K!TypeOK, K!Request
  <2>4. \A v \in Worker \ {w} : flight'[v] = flight[v]
    BY <1>0, <2>1 DEF K!TypeOK
  <2>5. \A s \in Req : reads[s] # None => reads[s].worker \in Worker
    BY <1>0 DEF K!TypeOK, K!Request
  <2>6. K!NobodyForgotten'
    BY <1>0, <2>2, <2>3, <2>4, <2>5 DEF K!NobodyForgotten
  <2>7. K!TypeOK'
    BY <1>0, <2>1 DEF K!TypeOK
  <2>8. QED
    BY <2>6, <2>7 DEF CacheInv
<1>5. ASSUME NEW w \in Worker, K!Die(w) PROVE CacheInv'
  <2>1. /\ flight' = [flight EXCEPT ![w] = None]
        /\ reads' = [r \in Req |-> IF reads[r] # None /\ reads[r].worker = w
                                     THEN None ELSE reads[r]]
        /\ lock' = IF lock = w THEN "dead" ELSE lock
        /\ UNCHANGED <<version, cache, locking, dirty>>
    BY <1>5 DEF K!Die
  <2>2. \A r \in Req : reads'[r] # None => reads'[r] = reads[r] /\ reads[r].worker # w
    BY <2>1
  <2>3. \A v \in Worker \ {w} : flight'[v] = flight[v]
    BY <1>0, <2>1 DEF K!TypeOK
  <2>4. \A s \in Req : reads[s] # None => reads[s].worker \in Worker
    BY <1>0 DEF K!TypeOK, K!Request
  <2>5. K!NobodyForgotten'
    BY <1>0, <2>2, <2>3, <2>4 DEF K!NobodyForgotten
  <2>6. K!TypeOK'
    BY <1>0, <2>1 DEF K!TypeOK
  <2>7. QED
    BY <2>5, <2>6 DEF CacheInv
<1>6. ASSUME NEW w \in Worker, K!Flies(w), ~K!Land(w) PROVE CacheInv'
  <2>1. /\ flight[w] # None /\ flight[w] \in K!Flight
        /\ UNCHANGED <<version, locking, reads, dirty>>
        /\ cache' \in K!Version \cup {None} /\ lock' \in Worker \cup {"dead", None}
    BY <1>0, <1>6
       DEF K!Flies, K!In, K!TypeOK, K!TakeLock, K!LockTaken, K!LockFails, K!Poll, K!PollTimeout,
           K!Query, K!QueryFails, K!Fill, K!FillFails, K!Check, K!Unlock, K!Flight
  <2>2. \E f \in K!Flight : flight' = [flight EXCEPT ![w] = f]
    <3>1. CASE K!TakeLock(w)
      <4>1. [flight[w] EXCEPT !.phase = "query", !.held = TRUE] \in K!Flight
        BY <2>1 DEF K!Flight
      <4>2. QED
        BY <3>1, <4>1 DEF K!TakeLock
    <3>2. CASE K!Poll(w)
      <4>1. [flight[w] EXCEPT !.phase = "land", !.page = cache] \in K!Flight
        BY <1>0, <2>1 DEF K!Flight, K!TypeOK
      <4>2. QED
        BY <3>2, <4>1 DEF K!Poll
    <3>3. CASE K!Query(w)
      <4>1. [flight[w] EXCEPT !.phase = "fill", !.page = version] \in K!Flight
        BY <1>0, <2>1 DEF K!Flight, K!TypeOK
      <4>2. QED
        BY <3>3, <4>1 DEF K!Query
    <3>4. CASE \E p \in {"query", "check", "unlock", "poll", "land"} : K!Goes(w, p)
      <4>1. PICK p \in {"query", "check", "unlock", "poll", "land"} : K!Goes(w, p)
        BY <3>4
      <4>2. [flight[w] EXCEPT !.phase = p] \in K!Flight
        BY <2>1 DEF K!Flight
      <4>3. QED
        BY <4>1, <4>2 DEF K!Goes
    <3>5. QED
      BY <1>6, <3>1, <3>2, <3>3, <3>4
         DEF K!Flies, K!LockTaken, K!LockFails, K!PollTimeout, K!QueryFails, K!Fill, K!FillFails,
             K!Check, K!Unlock, K!AfterFill
  <2>3. QED
    BY <2>1, <2>2, FlightGoesOn
<1>7. ASSUME K!Write \/ K!Invalidate \/ K!ExpireCache \/ K!ExpireLock \/ UNCHANGED K!vars
      PROVE  CacheInv'
  <2>1. UNCHANGED <<flight, reads>>
    BY <1>7 DEF K!Write, K!Invalidate, K!ExpireCache, K!ExpireLock, K!vars
  <2>2. K!TypeOK'
    <3>1. version' \in K!Version
      <4>1. CASE K!Write
        BY <1>0, <4>1, CacheAssumption DEF K!Write, K!TypeOK, K!Version
      <4>2. CASE UNCHANGED version
        BY <1>0, <4>2 DEF K!TypeOK, K!Version
      <4>3. QED
        BY <1>7, <4>1, <4>2 DEF K!Invalidate, K!ExpireCache, K!ExpireLock, K!vars
    <3>2. cache' \in K!Version' \cup {None} /\ locking' = locking
      BY <1>0, <1>7
         DEF K!Write, K!Invalidate, K!ExpireCache, K!ExpireLock, K!vars, K!TypeOK, K!Version
    <3>3. lock' \in Worker \cup {"dead", None}
      BY <1>0, <1>7 DEF K!Write, K!Invalidate, K!ExpireCache, K!ExpireLock, K!vars, K!TypeOK
    <3>4. dirty' \in BOOLEAN
      <4>1. CASE K!Write
        BY <4>1 DEF K!Write
      <4>2. CASE K!Invalidate
        BY <4>2 DEF K!Invalidate
      <4>3. QED
        BY <1>0, <1>7, <4>1, <4>2 DEF K!ExpireCache, K!ExpireLock, K!vars, K!TypeOK
    <3>5. QED
      BY <1>0, <2>1, <3>1, <3>2, <3>3, <3>4 DEF K!TypeOK, K!Version
  <2>3. QED
    BY <1>0, <2>1, <2>2 DEF CacheInv, K!NobodyForgotten
<1>8. QED
  BY <1>1, <1>2, <1>3, <1>4, <1>5, <1>6, <1>7 DEF K!Next

\* What FlightsGoOn says of a step.
Forward ==
    \A w \in Worker : flight[w] # None /\ flight'[w] # flight[w] =>
        flight'[w] = None \/ K!Left[flight'[w].phase] < K!Left[flight[w].phase]

\* One flight takes a step: from the phase p to a later one.
LEMMA OneForward ==
    ASSUME CacheInv, NEW w \in Worker, NEW f, flight' = [flight EXCEPT ![w] = f],
           f = None \/ flight[w] = None \/ f = flight[w]
             \/ K!Left[f.phase] < K!Left[flight[w].phase]
    PROVE  Forward
<1>1. \A v \in Worker : flight'[v] = IF v = w THEN f ELSE flight[v]
  BY DEF CacheInv, K!TypeOK
<1>2. QED
  BY <1>1 DEF Forward

LEMMA PhaseForward ==
    ASSUME CacheInv, NEW w \in Worker, NEW from, NEW to, K!In(w, from),
           \/ from = "lock" /\ to \in {"query", "poll"}
           \/ from = "poll" /\ to = "query"
           \/ from = "query" /\ to \in {"check", "land"}
           \/ from = "fill" /\ to \in {"check", "land"}
           \/ from = "check" /\ to \in {"unlock", "land"}
           \/ from = "unlock" /\ to = "land",
           K!Goes(w, to)
    PROVE  Forward
<1>1. PICK f : f = [flight[w] EXCEPT !.phase = to]
  OBVIOUS
<1>2. flight[w] \in K!Flight /\ flight[w].phase = from
  BY DEF CacheInv, K!TypeOK, K!In
<1>3. f.phase = to
  BY <1>1, <1>2 DEF K!Flight
<1>4. K!Left[f.phase] < K!Left[flight[w].phase]
  BY <1>2, <1>3 DEF K!Left
<1>5. flight' = [flight EXCEPT ![w] = f]
  BY <1>1 DEF K!Goes
<1>6. QED
  BY <1>4, <1>5, OneForward

LEMMA CacheForward == CacheInv /\ [K!Next]_(K!vars) => Forward
<1> SUFFICES ASSUME CacheInv, [K!Next]_(K!vars) PROVE Forward
  OBVIOUS
<1>0. K!TypeOK
  BY DEF CacheInv
<1>1. ASSUME NEW w \in Worker, K!TakeLock(w) \/ K!Poll(w) \/ K!Query(w) PROVE Forward
  <2>1. flight[w] \in K!Flight
    BY <1>0, <1>1 DEF K!TypeOK, K!TakeLock, K!Poll, K!Query, K!In
  <2>2. CASE K!TakeLock(w)
    <3>1. PICK f : f = [flight[w] EXCEPT !.phase = "query", !.held = TRUE]
      OBVIOUS
    <3>2. f.phase = "query" /\ flight[w].phase = "lock"
      BY <2>1, <2>2, <3>1 DEF K!Flight, K!TakeLock, K!In
    <3>3. flight' = [flight EXCEPT ![w] = f]
      BY <1>0, <2>2, <3>1 DEF K!TakeLock, K!TypeOK
    <3>4. K!Left[f.phase] < K!Left[flight[w].phase]
      BY <3>2 DEF K!Left
    <3>5. QED
      BY <3>3, <3>4, OneForward
  <2>3. CASE K!Poll(w)
    <3>1. PICK f : f = [flight[w] EXCEPT !.phase = "land", !.page = cache]
      OBVIOUS
    <3>2. f.phase = "land" /\ flight[w].phase = "poll"
      BY <2>1, <2>3, <3>1 DEF K!Flight, K!Poll, K!In
    <3>3. flight' = [flight EXCEPT ![w] = f]
      BY <1>0, <2>3, <3>1 DEF K!Poll, K!TypeOK
    <3>4. K!Left[f.phase] < K!Left[flight[w].phase]
      BY <3>2 DEF K!Left
    <3>5. QED
      BY <3>3, <3>4, OneForward
  <2>4. CASE K!Query(w)
    <3>1. PICK f : f = [flight[w] EXCEPT !.phase = "fill", !.page = version]
      OBVIOUS
    <3>2. f.phase = "fill" /\ flight[w].phase = "query"
      BY <2>1, <2>4, <3>1 DEF K!Flight, K!Query, K!In
    <3>3. flight' = [flight EXCEPT ![w] = f]
      BY <1>0, <2>4, <3>1 DEF K!Query, K!TypeOK
    <3>4. K!Left[f.phase] < K!Left[flight[w].phase]
      BY <3>2 DEF K!Left
    <3>5. QED
      BY <3>3, <3>4, OneForward
  <2>5. QED
    BY <1>1, <2>2, <2>3, <2>4
<1>2. ASSUME NEW w \in Worker, K!LockTaken(w) \/ K!LockFails(w) PROVE Forward
  BY <1>2, PhaseForward DEF K!LockTaken, K!LockFails
<1>3. ASSUME NEW w \in Worker, K!PollTimeout(w) PROVE Forward
  BY <1>3, PhaseForward DEF K!PollTimeout
<1>4. ASSUME NEW w \in Worker, K!QueryFails(w) \/ K!Fill(w) \/ K!FillFails(w) PROVE Forward
  <2>1. PICK to \in {"check", "land"} : K!Goes(w, to)
    BY <1>4 DEF K!QueryFails, K!Fill, K!FillFails, K!AfterFill
  <2>2. K!In(w, "query") \/ K!In(w, "fill")
    BY <1>4 DEF K!QueryFails, K!Fill, K!FillFails
  <2>3. QED
    BY <2>1, <2>2, PhaseForward
<1>5. ASSUME NEW w \in Worker, K!Check(w) \/ K!Unlock(w) PROVE Forward
  BY <1>5, PhaseForward DEF K!Check, K!Unlock
<1>6. ASSUME NEW w \in Worker, K!Land(w) \/ K!Die(w) PROVE Forward
  BY <1>6, OneForward DEF K!Land, K!Die
<1>7. ASSUME NEW r \in Req, K!Miss(r) PROVE Forward
  <2>1. PICK v \in Worker : v = reads[r].worker
    BY <1>0, <1>7 DEF K!Miss, K!TypeOK, K!Request
  <2>2. PICK f : f = IF flight[v] # None THEN flight[v]
                     ELSE [phase |-> IF locking THEN "lock" ELSE "query",
                           held |-> FALSE, page |-> None]
    OBVIOUS
  <2>3. flight' = [flight EXCEPT ![v] = f]
    BY <1>7, <2>1, <2>2 DEF K!Miss
  <2>4. QED
    BY <2>2, <2>3, OneForward
<1>8. ASSUME UNCHANGED flight PROVE Forward
  BY <1>8 DEF Forward
<1>9. QED
  BY <1>1, <1>2, <1>3, <1>4, <1>5, <1>6, <1>7, <1>8
     DEF K!Next, K!Flies, K!Arrive, K!Hit, K!Write, K!Invalidate, K!ExpireCache, K!ExpireLock, K!vars

LEMMA CacheSound == Eventually => []CacheInv /\ [][K!Next]_(K!vars)
<1>1. EventuallyInit => CacheInv
  <2> SUFFICES ASSUME K!Init PROVE CacheInv
    BY DEF EventuallyInit
  <2>1. 0 \in K!Version
    BY CacheAssumption DEF K!Version
  <2>2. K!TypeOK
    BY <2>1 DEF K!Init, K!TypeOK
  <2>3. K!NobodyForgotten
    BY DEF K!Init, K!NobodyForgotten
  <2>4. QED
    BY <2>2, <2>3 DEF CacheInv
<1>2. [EventuallyNext]_<<vars, pages, which>> => [K!Next]_(K!vars)
  BY DEF EventuallyNext, pages, K!vars
<1>3. QED
  BY <1>1, <1>2, CacheStep, PTL DEF Eventually

\* Of however many processes, any number of which may die at any moment, and whatever Redis
\* refuses: a request that waits for a page has a flight of its own process to wait for
\* (singleflight, utils/singleflight.js).
THEOREM NobodyWaitsForNothing == Eventually => [](K!TypeOK /\ K!NobodyForgotten)
<1>1. CacheInv => K!TypeOK /\ K!NobodyForgotten
  BY DEF CacheInv
<1>2. QED
  BY <1>1, CacheSound, PTL

\* No flight goes back to what it has left, whoever holds the lock, whatever Redis refuses and
\* however long the query takes: it tries the lock, waits for the holder's page until its patience
\* ends, queries, fills and unlocks, each at most once; and when it ends, nobody who joined it is
\* left waiting (singleflight and singleflightRedis, utils/singleflight.js).
THEOREM NoFlightGoesBack == Eventually => FlightsGoOn
<1> DEFINE GoesOn ==
      \A w \in Worker : flight[w] # None /\ flight'[w] # flight[w] =>
        \/ flight'[w] = None /\ \A r \in Req : reads'[r] # [worker |-> w, phase |-> "wait"]
        \/ flight'[w] # None /\ K!Left[flight'[w].phase] < K!Left[flight[w].phase]
<1>1. CacheInv /\ CacheInv' /\ [K!Next]_(K!vars) => GoesOn
  <2> SUFFICES ASSUME CacheInv, CacheInv', Forward, NEW w \in Worker, flight'[w] = None,
                      NEW r \in Req, reads'[r] = [worker |-> w, phase |-> "wait"]
               PROVE  FALSE
    BY CacheForward DEF Forward
  <2>1. reads'[r] # None /\ reads'[r].worker = w /\ reads'[r].phase = "wait"
    BY CacheAssumption DEF K!Request
  <2>2. QED
    BY <2>1 DEF CacheInv, K!NobodyForgotten
<1>2. CacheInv /\ CacheInv' /\ [K!Next]_(K!vars) => [GoesOn]_(K!vars)
  BY <1>1
<1>3. QED
  BY <1>2, CacheSound, PTL DEF FlightsGoOn, K!FlightsGoOn
==================================================================================
