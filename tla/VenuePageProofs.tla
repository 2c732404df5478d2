----------------------------- MODULE VenuePageProofs -----------------------------
(***************************************************************************)
(* The page of a venue shows no file that is gone, and no save of one      *)
(* request loses what another published: for any numbers of uploads, of    *)
(* pictures and of requests in progress, and for any cap.                  *)
(***************************************************************************)
EXTENDS VenuePage, TLAPS

\* About to publish what was uploaded; about to replace an array that was loaded; about to delete.
Publishing(r) == In(r, "add", "save") \/ In(r, "film", "save")
Replacing(r) == In(r, "remove", "save") \/ In(r, "expire", "save")
Tidying(r) == In(r, "remove", "tidy") \/ In(r, "expire", "tidy")

\* Nothing under way can bring i back to the page.
Left(i) ==
    /\ page.items[i] = "absent" /\ kind[i] # None
    /\ \A q \in Req : Publishing(q) => i \notin req[q].items
    /\ \A q \in Req : Replacing(q) /\ req[q].fresh => req[q].seen[i] = "absent"

\* Where items belong, as seen from the page, the jobs and the requests.
KindSound ==
    /\ \A i \in Item :
         /\ page.items[i] # "absent" => kind[i] # None
         /\ job[i] # "none" => kind[i] \in {"stories", "events"}
    /\ \A r \in Req : req[r] # None =>
         /\ \A i \in req[r].items : /\ kind[i] # None
                                    /\ req[r].op = "film" => kind[i] \in {"stories", "events"}
         /\ \A i \in Item : /\ req[r].seen[i] # "absent" => kind[i] # None
                            /\ req[r].seen[i] \in {"processing", "failed", "withdrawn"} =>
                                 kind[i] \in {"stories", "events"}

\* An item about to be published is known to its own request only, and its file is there.
PublishingSound ==
    \A r \in Req : Publishing(r) => \A i \in req[r].items :
      /\ page.items[i] = "absent"
      /\ req[r].op = "add" => i \in files
      /\ \A q \in Req : /\ q # r /\ Publishing(q) => i \notin req[q].items
                        /\ Replacing(q) => req[q].seen[i] = "absent"

\* An array that will be replaced was loaded with all that the page has now, and what it would
\* show again is still on the disk.
ReplacingSound ==
    \A r \in Req : Replacing(r) =>
      /\ req[r].seen # Empty
      /\ req[r].fresh => \A i \in Item :
           /\ page.items[i] # "absent" => req[r].seen[i] # "absent"
           /\ req[r].seen[i] = "ready" => i \in files

\* A file is deleted once nothing can show it any more.
TidyingSound == \A r \in Req : Tidying(r) => \A i \in req[r].items : Left(i)

JobSound == \A i \in Item : job[i] = "made" => i \in files \/ Left(i)

\* A picture about to be put on the page belongs to its request alone; one about to be deleted
\* has left the page.
PictureSound ==
    \A r \in Req :
      /\ In(r, "logo", "save") /\ req[r].picture # None =>
           /\ req[r].picture \in files
           /\ req[r].picture \notin {page.logo, req[r].old}
           /\ \A q \in Req : q # r /\ req[q] # None =>
                req[r].picture \notin {req[q].picture, req[q].old}
      /\ In(r, "logo", "tidy") /\ req[r].old # None => req[r].old # page.logo

PageInv ==
    /\ TypeOK /\ KindSound /\ PublishingSound /\ ReplacingSound
    /\ TidyingSound /\ JobSound /\ PictureSound /\ ShownOnDisk
-------------------------------------------------------------------------------
(* What a step of one request leaves of the others *)

Others(r) ==
    \A q \in Req \ {r} :
      /\ req'[q] = None <=> req[q] = None
      /\ req[q] # None =>
           /\ req'[q].op = req[q].op /\ req'[q].phase = req[q].phase
           /\ req'[q].items = req[q].items /\ req'[q].seen = req[q].seen
           /\ req'[q].picture = req[q].picture /\ req'[q].old = req[q].old
           /\ req'[q].fresh => req[q].fresh

\* A request that starts is a request, and disturbs no other.
LEMMA StartsShape ==
    ASSUME TypeOK, NEW r \in Req,
           NEW op \in {"add", "film", "remove", "expire", "logo"},
           NEW items \in SUBSET Item, NEW picture \in Picture \cup {None},
           NEW old \in Picture \cup {None}, NEW seen \in [Item -> Status],
           Starts(r, op, items, picture, old, seen)
    PROVE  /\ req' \in [Req -> Request \cup {None}]
           /\ Others(r) /\ req[r] = None /\ req'[r] # None
           /\ req'[r] = [op |-> op, phase |-> "save", items |-> items, picture |-> picture,
                         old |-> old, seen |-> seen, fresh |-> TRUE]
<1> DEFINE new == [op |-> op, phase |-> "save", items |-> items, picture |-> picture,
                   old |-> old, seen |-> seen, fresh |-> TRUE]
<1>1. new \in Request
  BY DEF Request
<1>2. req[r] = None /\ req' = [req EXCEPT ![r] = new]
  BY DEF Starts
<1> HIDE DEF new
<1>3. new # None
  BY <1>1, NamesAssumption
<1>4. req' \in [Req -> Request \cup {None}] /\ req'[r] = new
  BY <1>1, <1>2 DEF TypeOK
<1>5. \A q \in Req \ {r} : req'[q] = req[q]
  BY <1>2 DEF TypeOK
<1>6. Others(r)
  BY <1>5 DEF Others
<1>7. QED
  BY <1>2, <1>3, <1>4, <1>6 DEF new

\* A request that goes on outdates, at most, what the others loaded.
LEMMA GoesShape ==
    ASSUME TypeOK, NEW r \in Req, NEW next \in Request \cup {None}, NEW array \in BOOLEAN,
           Goes(r, next, array)
    PROVE  /\ req' \in [Req -> Request \cup {None}]
           /\ Others(r) /\ req'[r] = next
           /\ array => \A q \in Req \ {r} : req[q] # None /\ req[q].seen # Empty => ~req'[q].fresh
<1>1. req'[r] = next
  BY DEF Goes
<1>2. ASSUME NEW q \in Req \ {r}
      PROVE  /\ req'[q] \in Request \cup {None}
             /\ req'[q] = None <=> req[q] = None
             /\ req[q] # None =>
                  /\ req'[q].op = req[q].op /\ req'[q].phase = req[q].phase
                  /\ req'[q].items = req[q].items /\ req'[q].seen = req[q].seen
                  /\ req'[q].picture = req[q].picture /\ req'[q].old = req[q].old
                  /\ req'[q].fresh => req[q].fresh
                  /\ array /\ req[q].seen # Empty => ~req'[q].fresh
  <2>1. CASE array /\ req[q] # None /\ req[q].seen # Empty
    <3> DEFINE old == req[q]
               new == [old EXCEPT !.fresh = FALSE]
    <3>1. old \in Request
      BY <2>1 DEF TypeOK
    <3>2. /\ new \in Request
          /\ new.op = old.op /\ new.phase = old.phase /\ new.items = old.items
          /\ new.seen = old.seen /\ new.picture = old.picture /\ new.old = old.old
          /\ new.fresh = FALSE
      BY <3>1 DEF Request
    <3>3. req'[q] = new
      BY <2>1 DEF Goes
    <3> HIDE DEF new
    <3>4. new # None
      BY <3>2, NamesAssumption
    <3>5. QED
      BY <2>1, <3>2, <3>3, <3>4
  <2>2. CASE ~(array /\ req[q] # None /\ req[q].seen # Empty)
    <3>1. req'[q] = req[q]
      BY <2>2 DEF Goes
    <3>2. QED
      BY <2>2, <3>1 DEF TypeOK
  <2>3. QED
    BY <2>1, <2>2
<1>3. req' = [q \in Req |-> req'[q]]
  BY DEF Goes
<1>4. req' \in [Req -> Request \cup {None}]
  BY <1>1, <1>2, <1>3
<1>5. Others(r)
  BY <1>2 DEF Others
<1>6. QED
  BY <1>1, <1>2, <1>4, <1>5
\* What a request becomes when it goes on.
LEMMA ToShape ==
    ASSUME TypeOK, NEW r \in Req, req[r] # None, NEW phase \in {"tidy", "enqueue"}
    PROVE  /\ To(r, phase) \in Request /\ To(r, phase) # None
           /\ To(r, phase).op = req[r].op /\ To(r, phase).phase = phase
           /\ To(r, phase).items = req[r].items /\ To(r, phase).seen = req[r].seen
           /\ To(r, phase).picture = req[r].picture /\ To(r, phase).old = req[r].old
<1> DEFINE q == req[r]
           new == [q EXCEPT !.phase = phase]
<1>1. q \in Request
  BY DEF TypeOK
<1>2. /\ new \in Request
      /\ new.op = q.op /\ new.phase = phase /\ new.items = q.items
      /\ new.seen = q.seen /\ new.picture = q.picture /\ new.old = q.old
  BY <1>1 DEF Request
<1>3. To(r, phase) = new
  BY DEF To
<1> HIDE DEF new
<1>4. QED
  BY <1>2, <1>3, NamesAssumption

LEMMA ToTidyShape ==
    ASSUME TypeOK, NEW r \in Req, req[r] # None, NEW gone \in SUBSET Item,
           NEW next, next = ToTidy(r, gone)
    PROVE  /\ next \in Request /\ next # None
           /\ next.op = req[r].op /\ next.phase = "tidy" /\ next.seen = Empty
           /\ next.items = {i \in gone : kind[i] # "media" /\ HasUrl(req[r].seen[i])}
           /\ next.picture = req[r].picture /\ next.old = req[r].old
<1> DEFINE q == req[r]
           items == {i \in gone : kind[i] # "media" /\ HasUrl(q.seen[i])}
           new == [q EXCEPT !.phase = "tidy", !.seen = Empty, !.fresh = TRUE, !.items = items]
<1>1. q \in Request /\ Empty \in [Item -> Status] /\ items \in SUBSET Item
  BY DEF TypeOK, Empty, Status
<1> HIDE DEF items
<1>2. /\ new \in Request
      /\ new.op = q.op /\ new.phase = "tidy" /\ new.items = items
      /\ new.seen = Empty /\ new.picture = q.picture /\ new.old = q.old
  BY <1>1 DEF Request
<1>3. next = new
  BY DEF ToTidy, items
<1> HIDE DEF new
<1>4. QED
  BY <1>2, <1>3, NamesAssumption DEF items

\* A page some items of which change.
LEMMA PageType ==
    ASSUME page \in Page, NEW f \in [Item -> Status]
    PROVE  /\ [page EXCEPT !.items = f] \in Page
           /\ [page EXCEPT !.items = f].items = f
           /\ [page EXCEPT !.items = f].logo = page.logo
BY DEF Page

\* The page a removal writes: its list as it was loaded, the others as they are.
LEMMA WithoutShape ==
    ASSUME TypeOK, NEW r \in Req, req[r] # None, NEW list, NEW gone
    PROVE  LET p == Without(r, list, gone)
           IN  /\ p \in Page /\ p.logo = page.logo
               /\ \A i \in Item :
                    p.items[i] = IF kind[i] # list THEN page.items[i]
                                 ELSE IF i \in gone THEN "absent" ELSE req[r].seen[i]
<1> DEFINE f == [i \in Item |-> IF kind[i] # list THEN page.items[i]
                                ELSE IF i \in gone THEN "absent" ELSE req[r].seen[i]]
<1>1. page.items \in [Item -> Status] /\ req[r].seen \in [Item -> Status]
  BY DEF TypeOK, Page, Request
<1>2. f \in [Item -> Status]
  BY <1>1 DEF Status
<1>3. Without(r, list, gone) = [page EXCEPT !.items = f]
  BY DEF Without
<1>4. \A i \in Item : f[i] = IF kind[i] # list THEN page.items[i]
                             ELSE IF i \in gone THEN "absent" ELSE req[r].seen[i]
  OBVIOUS
<1> HIDE DEF f
<1>5. QED
  BY <1>2, <1>3, <1>4, PageType DEF TypeOK

\* The page with the status of one item changed.
LEMMA StatusShape ==
    ASSUME TypeOK, NEW i \in Item, NEW status \in Status
    PROVE  LET p == [page EXCEPT !.items[i] = status]
           IN  /\ p \in Page /\ p.logo = page.logo
               /\ \A j \in Item : p.items[j] = IF j = i THEN status ELSE page.items[j]
<1> DEFINE items == page.items
           f == [items EXCEPT ![i] = status]
           new == [page EXCEPT !.items[i] = status]
<1>1. items \in [Item -> Status]
  BY DEF TypeOK, Page
<1>2. f \in [Item -> Status] /\ \A j \in Item : f[j] = IF j = i THEN status ELSE items[j]
  BY <1>1
<1>3. new = [page EXCEPT !.items = f]
  BY DEF TypeOK, Page
<1> HIDE DEF f, new
<1>4. new \in Page /\ new.items = f /\ new.logo = page.logo
  BY <1>2, <1>3, PageType DEF TypeOK
<1>5. /\ new \in Page /\ new.logo = page.logo
      /\ \A j \in Item : new.items[j] = IF j = i THEN status ELSE page.items[j]
  BY <1>2, <1>4
<1>6. QED
  BY <1>5 DEF new
-------------------------------------------------------------------------------
(* The step of one request, seen from the items *)

ItemInv == KindSound /\ PublishingSound /\ ReplacingSound /\ TidyingSound /\ JobSound

\* What the step of r may not do to the items that the others hold.
KeepsOthers(r) ==
    /\ \A i \in Item :
         /\ kind[i] # None => kind'[i] = kind[i]
         /\ page'.items[i] # "absent" => kind'[i] # None
         /\ Left(i) => page'.items[i] = "absent"
         /\ i \in files => i \in files' \/ Left(i)
         /\ job'[i] # "none" => kind'[i] \in {"stories", "events"}
         /\ job'[i] = "made" => job[i] = "made"
    /\ \A q \in Req \ {r} :
         /\ Publishing(q) => \A i \in req[q].items : page'.items[i] = "absent"
         /\ Replacing(q) /\ req'[q].fresh =>
              \A i \in Item : page'.items[i] # "absent" => page.items[i] # "absent"

\* What r must know of its own items after its step.
KnowsItsOwn(r) ==
    LET new == req'[r]
    IN  req'[r] # None =>
          /\ \A i \in new.items : /\ kind'[i] # None
                                  /\ new.op = "film" => kind'[i] \in {"stories", "events"}
          /\ \A i \in Item : /\ new.seen[i] # "absent" => kind'[i] # None
                             /\ new.seen[i] \in {"processing", "failed", "withdrawn"} =>
                                  kind'[i] \in {"stories", "events"}
          /\ Publishing(r)' => \A i \in new.items :
               /\ page'.items[i] = "absent" /\ ~Left(i)
               /\ new.op = "add" => i \in files'
               /\ \A q \in Req \ {r} : /\ Publishing(q) => i \notin req[q].items
                                       /\ Replacing(q) => req[q].seen[i] = "absent"
          /\ Replacing(r)' =>
               /\ new.seen # Empty
               /\ \A q \in Req \ {r} : Publishing(q) =>
                    \A i \in req[q].items : new.seen[i] = "absent"
               /\ new.fresh => \A i \in Item :
                    /\ page'.items[i] # "absent" => new.seen[i] # "absent"
                    /\ new.seen[i] = "ready" => i \in files'
                    /\ Left(i) => new.seen[i] = "absent"
          /\ Tidying(r)' => \A i \in new.items : Left(i)'

LEMMA ItemStep ==
    ASSUME PageInv, TypeOK', NEW r \in Req, Others(r), KeepsOthers(r), KnowsItsOwn(r)
    PROVE  ItemInv'
<1> USE DEF PageInv
<1>1. ASSUME NEW q \in Req \ {r}
      PROVE  /\ Publishing(q)' <=> Publishing(q)
             /\ Replacing(q)' <=> Replacing(q)
             /\ Tidying(q)' <=> Tidying(q)
             /\ Publishing(q) \/ Replacing(q) \/ Tidying(q) => req[q] # None
  BY DEF Others, Publishing, Replacing, Tidying, In
<1>2. req[r] \in Request \cup {None} /\ req'[r] \in Request \cup {None}
  BY DEF TypeOK
<1>3. ASSUME NEW i \in Item, Left(i)
      PROVE  Left(i)'
  <2>1. page'.items[i] = "absent" /\ kind'[i] # None
    BY <1>3 DEF KeepsOthers, Left
  <2>2. ASSUME NEW q \in Req, Publishing(q)'
        PROVE  i \notin req'[q].items
    <3>1. CASE q = r
      BY <1>3, <2>2, <3>1 DEF KnowsItsOwn, Publishing, In
    <3>2. CASE q # r
      BY <1>1, <1>3, <2>2, <3>2 DEF Left, Others
    <3>3. QED
      BY <3>1, <3>2
  <2>3. ASSUME NEW q \in Req, Replacing(q)', req'[q].fresh
        PROVE  req'[q].seen[i] = "absent"
    <3>1. CASE q = r
      BY <1>3, <2>3, <3>1 DEF KnowsItsOwn, Replacing, In
    <3>2. CASE q # r
      BY <1>1, <1>3, <2>3, <3>2 DEF Left, Others
    <3>3. QED
      BY <3>1, <3>2
  <2>4. QED
    BY <2>1, <2>2, <2>3 DEF Left
<1>4. KindSound'
  <2>1. ASSUME NEW i \in Item
        PROVE  /\ page'.items[i] # "absent" => kind'[i] # None
               /\ job'[i] # "none" => kind'[i] \in {"stories", "events"}
    BY DEF KeepsOthers
  <2>2. ASSUME NEW q \in Req, req'[q] # None
        PROVE  /\ \A i \in req'[q].items :
                    /\ kind'[i] # None
                    /\ req'[q].op = "film" => kind'[i] \in {"stories", "events"}
               /\ \A i \in Item :
                    /\ req'[q].seen[i] # "absent" => kind'[i] # None
                    /\ req'[q].seen[i] \in {"processing", "failed", "withdrawn"} =>
                         kind'[i] \in {"stories", "events"}
    <3>1. CASE q = r
      BY <2>2, <3>1 DEF KnowsItsOwn
    <3>2. CASE q # r
      <4>1. /\ req[q] # None /\ req[q] \in Request
            /\ req'[q].items = req[q].items /\ req'[q].seen = req[q].seen
            /\ req'[q].op = req[q].op
        BY <2>2, <3>2 DEF Others, TypeOK
      <4>2. req[q].items \subseteq Item
        BY <4>1 DEF Request
      <4>3. \A i \in Item : kind[i] # None => kind'[i] = kind[i]
        BY DEF KeepsOthers
      <4>4. None \notin {"stories", "events"}
        BY NamesAssumption DEF List
      <4>5. QED
        BY <4>1, <4>2, <4>3, <4>4 DEF KindSound
    <3>3. QED
      BY <3>1, <3>2
  <2>3. QED
    BY <2>1, <2>2 DEF KindSound
<1>5. PublishingSound'
  <2> SUFFICES ASSUME NEW q \in Req, Publishing(q)', NEW i \in req'[q].items
               PROVE  /\ page'.items[i] = "absent"
                      /\ req'[q].op = "add" => i \in files'
                      /\ \A p \in Req : /\ p # q /\ Publishing(p)' => i \notin req'[p].items
                                        /\ Replacing(p)' => req'[p].seen[i] = "absent"
    BY DEF PublishingSound
  <2>1. i \in Item
    BY DEF TypeOK, Request, Publishing, In
  <2>2. CASE q = r
    <3>1. req'[r] # None
      BY <2>2 DEF Publishing, In
    <3>2. /\ page'.items[i] = "absent" /\ (req'[r].op = "add" => i \in files')
          /\ \A p \in Req \ {r} : /\ Publishing(p) => i \notin req[p].items
                                  /\ Replacing(p) => req[p].seen[i] = "absent"
      BY <2>2, <3>1 DEF KnowsItsOwn
    <3>3. ~Replacing(r)'
      BY <2>2 DEF Publishing, Replacing, In
    <3>4. QED
      BY <1>1, <2>2, <3>2, <3>3 DEF Others
  <2>3. CASE q # r
    <3>1. Publishing(q) /\ i \in req[q].items /\ req[q].op = req'[q].op
      BY <1>1, <2>3 DEF Others
    <3>2. /\ page.items[i] = "absent" /\ (req[q].op = "add" => i \in files)
          /\ \A p \in Req : /\ p # q /\ Publishing(p) => i \notin req[p].items
                            /\ Replacing(p) => req[p].seen[i] = "absent"
      BY <3>1 DEF PublishingSound
    <3>3. page'.items[i] = "absent"
      BY <2>3, <3>1 DEF KeepsOthers
    <3>4. ~Left(i)
      BY <3>1 DEF Left
    <3>5. req[q].op = "add" => i \in files'
      BY <2>1, <3>2, <3>4 DEF KeepsOthers
    <3>6. ASSUME NEW p \in Req \ {r}
          PROVE  /\ p # q /\ Publishing(p)' => i \notin req'[p].items
                 /\ Replacing(p)' => req'[p].seen[i] = "absent"
      BY <1>1, <3>2 DEF Others
    <3>7. Publishing(r)' => i \notin req'[r].items
      BY <2>3, <3>1 DEF KnowsItsOwn, Publishing, In
    <3>8. Replacing(r)' => req'[r].seen[i] = "absent"
      BY <2>3, <3>1 DEF KnowsItsOwn, Replacing, In
    <3>9. QED
      BY <3>1, <3>3, <3>5, <3>6, <3>7, <3>8
  <2>4. QED
    BY <2>2, <2>3
<1>6. ReplacingSound'
  <2> SUFFICES ASSUME NEW q \in Req, Replacing(q)'
               PROVE  /\ req'[q].seen # Empty
                      /\ req'[q].fresh => \A i \in Item :
                           /\ page'.items[i] # "absent" => req'[q].seen[i] # "absent"
                           /\ req'[q].seen[i] = "ready" => i \in files'
    BY DEF ReplacingSound, Empty
  <2>1. CASE q = r
    BY <2>1 DEF KnowsItsOwn, Replacing, In
  <2>2. CASE q # r
    <3>1. Replacing(q) /\ req'[q].seen = req[q].seen /\ (req'[q].fresh => req[q].fresh)
      BY <1>1, <2>2 DEF Others
    <3>2. ASSUME req'[q].fresh, NEW i \in Item
          PROVE  /\ page'.items[i] # "absent" => req[q].seen[i] # "absent"
                 /\ req[q].seen[i] = "ready" => i \in files'
      <4>1. /\ page'.items[i] # "absent" => page.items[i] # "absent"
            /\ i \in files => i \in files' \/ Left(i)
        BY <2>2, <3>1, <3>2 DEF KeepsOthers
      <4>2. /\ page.items[i] # "absent" => req[q].seen[i] # "absent"
            /\ req[q].seen[i] = "ready" => i \in files
        BY <3>1, <3>2 DEF ReplacingSound
      <4>3. Left(i) => req[q].seen[i] = "absent"
        BY <3>1, <3>2 DEF Left
      <4>4. QED
        BY <4>1, <4>2, <4>3
    <3>3. req[q].seen # Empty
      BY <3>1 DEF ReplacingSound
    <3>4. QED
      BY <3>1, <3>2, <3>3
  <2>3. QED
    BY <2>1, <2>2
<1>7. TidyingSound'
  <2> SUFFICES ASSUME NEW q \in Req, Tidying(q)', NEW i \in req'[q].items
               PROVE  Left(i)'
    BY DEF TidyingSound, Left
  <2>1. CASE q = r
    BY <2>1 DEF KnowsItsOwn, Tidying, In
  <2>2. CASE q # r
    <3>1. Tidying(q) /\ i \in req[q].items
      BY <1>1, <2>2 DEF Others
    <3>2. Left(i) /\ i \in Item
      BY <3>1 DEF TidyingSound, TypeOK, Request, Tidying, In
    <3>3. QED
      BY <1>3, <3>2
  <2>3. QED
    BY <2>1, <2>2
<1>8. JobSound'
  <2> SUFFICES ASSUME NEW i \in Item, job'[i] = "made"
               PROVE  i \in files' \/ Left(i)'
    BY DEF JobSound, Left
  <2>1. i \in files \/ Left(i)
    BY DEF KeepsOthers, JobSound
  <2>2. QED
    BY <1>3, <2>1 DEF KeepsOthers
<1>9. QED
  BY <1>4, <1>5, <1>6, <1>7, <1>8 DEF ItemInv
-------------------------------------------------------------------------------
(* The step of one request, seen from the pictures; the steps of none *)

ItemsShown == \A i \in Item : page.items[i] = "ready" => i \in files

\* What the others know of their pictures, when r takes a step.
LEMMA OtherPictures ==
    ASSUME PageInv, NEW r \in Req, Others(r), NEW q \in Req \ {r}
    PROVE  /\ In(q, "logo", "save")' /\ req'[q].picture # None =>
                /\ In(q, "logo", "save") /\ req[q] # None
                /\ req'[q].picture = req[q].picture
                /\ req[q].picture \in files \cap Picture
                /\ req[q].picture \notin {page.logo, req'[q].old}
                /\ \A p \in Req : p # q /\ req[p] # None =>
                     req[q].picture \notin {req[p].picture, req[p].old}
                /\ \A p \in Req : p \notin {q, r} /\ req'[p] # None =>
                     req[q].picture \notin {req'[p].picture, req'[p].old}
           /\ In(q, "logo", "tidy")' /\ req'[q].old # None =>
                /\ In(q, "logo", "tidy") /\ req[q] # None
                /\ req'[q].old = req[q].old /\ req[q].old # page.logo
<1>1. ASSUME In(q, "logo", "save")', req'[q].picture # None
      PROVE  /\ In(q, "logo", "save") /\ req[q] # None
             /\ req'[q].picture = req[q].picture
             /\ req[q].picture \in files \cap Picture
             /\ req[q].picture \notin {page.logo, req'[q].old}
             /\ \A p \in Req : p # q /\ req[p] # None =>
                  req[q].picture \notin {req[p].picture, req[p].old}
             /\ \A p \in Req : p \notin {q, r} /\ req'[p] # None =>
                  req[q].picture \notin {req'[p].picture, req'[p].old}
  <2>1. /\ In(q, "logo", "save") /\ req[q] # None
        /\ req'[q].picture = req[q].picture /\ req'[q].old = req[q].old
    BY <1>1 DEF In, Others
  <2>2. /\ req[q].picture \in files
        /\ req[q].picture \notin {page.logo, req[q].old}
        /\ \A p \in Req : p # q /\ req[p] # None =>
             req[q].picture \notin {req[p].picture, req[p].old}
    BY <1>1, <2>1 DEF PageInv, PictureSound
  <2>3. req[q].picture \in Picture
    BY <1>1, <2>1 DEF PageInv, TypeOK, Request
  <2>4. ASSUME NEW p \in Req, p \notin {q, r}, req'[p] # None
        PROVE  req[q].picture \notin {req'[p].picture, req'[p].old}
    <3>1. /\ req[p] # None
          /\ req'[p].picture = req[p].picture /\ req'[p].old = req[p].old
      BY <2>4 DEF Others
    <3>2. QED
      BY <2>2, <2>4, <3>1
  <2>5. QED
    BY <2>1, <2>2, <2>3, <2>4
<1>2. ASSUME In(q, "logo", "tidy")', req'[q].old # None
      PROVE  /\ In(q, "logo", "tidy") /\ req[q] # None
             /\ req'[q].old = req[q].old /\ req[q].old # page.logo
  <2>1. In(q, "logo", "tidy") /\ req[q] # None /\ req'[q].old = req[q].old
    BY <1>2 DEF In, Others
  <2>2. QED
    BY <1>2, <2>1 DEF PageInv, PictureSound
<1>3. QED
  BY <1>1, <1>2

\* A step that is not about pictures.
LEMMA PictureKept ==
    ASSUME PageInv, TypeOK', NEW r \in Req, Others(r),
           page'.logo = page.logo, files \cap Picture \subseteq files',
           req'[r] # None =>
             /\ req'[r].op # "logo"
             /\ \/ req'[r].picture = None /\ req'[r].old = None
                \/ req[r] # None /\ req'[r].picture = req[r].picture /\ req'[r].old = req[r].old
    PROVE  PictureSound' /\ page'.logo \in files' \cup {None}
<1>1. page'.logo \in files' \cup {None}
  BY DEF PageInv, ShownOnDisk, TypeOK, Page
<1>2. ASSUME NEW q \in Req, In(q, "logo", "save")', req'[q].picture # None
      PROVE  /\ req'[q].picture \in files'
             /\ req'[q].picture \notin {page'.logo, req'[q].old}
             /\ \A p \in Req : p # q /\ req'[p] # None =>
                  req'[q].picture \notin {req'[p].picture, req'[p].old}
  <2>1. q # r
    BY <1>2 DEF In
  <2>2. QED
    BY <1>2, <2>1, OtherPictures
<1>3. ASSUME NEW q \in Req, In(q, "logo", "tidy")', req'[q].old # None
      PROVE  req'[q].old # page'.logo
  <2>1. q # r
    BY <1>3 DEF In
  <2>2. QED
    BY <1>3, <2>1, OtherPictures
<1>4. QED
  BY <1>1, <1>2, <1>3 DEF PictureSound

LEMMA Together ==
    ASSUME TypeOK', ItemInv', PictureSound', page'.logo \in files' \cup {None}, ItemsShown'
    PROVE  PageInv'
BY DEF PageInv, ItemInv, ShownOnDisk, ItemsShown

\* A step of a worker, of the story cron or of time: it brings nothing back.
LEMMA QuietStep ==
    ASSUME PageInv, TypeOK', UNCHANGED <<kind, req>>, files \subseteq files',
           page'.logo = page.logo,
           \A i \in Item :
             /\ page'.items[i] # "absent" => page.items[i] # "absent"
             /\ page'.items[i] = "ready" => i \in files'
             /\ job'[i] # "none" => kind[i] \in {"stories", "events"}
             /\ job'[i] = "made" => i \in files' \/ job[i] = "made"
    PROVE  PageInv'
<1> USE DEF PageInv
<1>1. \A r \in Req : /\ Publishing(r)' <=> Publishing(r)
                     /\ Replacing(r)' <=> Replacing(r)
                     /\ Tidying(r)' <=> Tidying(r)
                     /\ In(r, "logo", "save")' <=> In(r, "logo", "save")
                     /\ In(r, "logo", "tidy")' <=> In(r, "logo", "tidy")
  BY DEF Publishing, Replacing, Tidying, In
<1>2. \A i \in Item : Left(i) => Left(i)'
  BY <1>1 DEF Left
<1>3. KindSound'
  BY DEF KindSound
<1>4. PublishingSound'
  <2> SUFFICES ASSUME NEW r \in Req, Publishing(r), NEW i \in req[r].items
               PROVE  /\ page'.items[i] = "absent"
                      /\ req[r].op = "add" => i \in files'
                      /\ \A q \in Req : /\ q # r /\ Publishing(q) => i \notin req[q].items
                                        /\ Replacing(q) => req[q].seen[i] = "absent"
    BY <1>1 DEF PublishingSound
  <2>1. i \in Item
    BY DEF TypeOK, Request, Publishing, In
  <2>2. QED
    BY <2>1 DEF PublishingSound
<1>5. ReplacingSound'
  BY <1>1 DEF ReplacingSound, Empty
<1>6. TidyingSound'
  <2> SUFFICES ASSUME NEW r \in Req, Tidying(r), NEW i \in req[r].items
               PROVE  Left(i)'
    BY <1>1 DEF TidyingSound, Left
  <2>1. i \in Item
    BY DEF TypeOK, Request, Tidying, In
  <2>2. QED
    BY <1>2, <2>1 DEF TidyingSound
<1>7. JobSound'
  <2> SUFFICES ASSUME NEW i \in Item, job'[i] = "made"
               PROVE  i \in files' \/ Left(i)'
    BY DEF JobSound, Left
  <2>1. QED
    BY <1>2 DEF JobSound
<1>8. PictureSound'
  BY <1>1 DEF PictureSound
<1>9. ShownOnDisk'
  BY DEF ShownOnDisk
<1>10. QED
  BY <1>3, <1>4, <1>5, <1>6, <1>7, <1>8, <1>9
-------------------------------------------------------------------------------
(* The worker, the story cron and time *)

LEMMA JobGoesShape ==
    ASSUME TypeOK, NEW i \in Item, NEW from, NEW to \in Job, JobGoes(i, from, to)
    PROVE  /\ job' \in [Item -> Job] /\ job[i] \in from
           /\ \A j \in Item : job'[j] = IF j = i THEN to ELSE job[j]
BY DEF TypeOK, JobGoes

LEMMA MarkedShape ==
    ASSUME TypeOK, NEW i \in Item, NEW status \in Status, page' = Marked(i, status)
    PROVE  /\ page' \in Page /\ page'.logo = page.logo
           /\ \A j \in Item :
                page'.items[j] = IF j = i /\ page.items[i] # "absent" THEN status ELSE page.items[j]
<1>1. CASE page.items[i] = "absent"
  BY <1>1 DEF Marked, TypeOK
<1>2. CASE page.items[i] # "absent"
  <2>1. page' = [page EXCEPT !.items[i] = status]
    BY <1>2 DEF Marked
  <2>2. QED
    BY <1>2, <2>1, StatusShape
<1>3. QED
  BY <1>1, <1>2

LEMMA AgeKeeps ==
    ASSUME PageInv, NEW i \in Item, Age(i)
    PROVE  PageInv'
<1>1. TypeOK'
  BY DEF PageInv, TypeOK, Age
<1>2. QED
  BY <1>1, QuietStep DEF Age, PageInv, KindSound, ShownOnDisk

LEMMA ExpireStoriesKeeps ==
    ASSUME PageInv, ExpireStories
    PROVE  PageInv'
<1> DEFINE f == [i \in Item |-> IF i \in expired /\ kind[i] = "stories" THEN "absent"
                                ELSE page.items[i]]
<1>1. f \in [Item -> Status] /\ \A i \in Item : f[i] \in {"absent", page.items[i]}
  BY DEF PageInv, TypeOK, Page, Status
<1>2. page' = [page EXCEPT !.items = f]
  BY DEF ExpireStories
<1> HIDE DEF f
<1>3. page' \in Page /\ page'.items = f /\ page'.logo = page.logo
  BY <1>1, <1>2, PageType DEF PageInv, TypeOK
<1>4. UNCHANGED <<kind, expired, files, job, req>>
  BY DEF ExpireStories
<1>5. TypeOK'
  BY <1>1, <1>3, <1>4 DEF PageInv, TypeOK
<1>6. QED
  BY <1>1, <1>3, <1>4, <1>5, QuietStep DEF PageInv, KindSound, ShownOnDisk

LEMMA TranscodeKeeps ==
    ASSUME PageInv, NEW i \in Item, Transcode(i)
    PROVE  PageInv'
<1>1. /\ job' \in [Item -> Job] /\ job[i] = "queued"
      /\ \A j \in Item : job'[j] = IF j = i THEN "made" ELSE job[j]
  BY JobGoesShape DEF Transcode, Job, PageInv
<1>2. files' = files \cup {i} /\ UNCHANGED <<page, kind, expired, req>>
  BY DEF Transcode
<1>3. TypeOK'
  BY <1>1, <1>2 DEF PageInv, TypeOK
<1>4. QED
  BY <1>1, <1>2, <1>3, QuietStep DEF PageInv, KindSound, ShownOnDisk

LEMMA MarkReadyKeeps ==
    ASSUME PageInv, NEW i \in Item, MarkReady(i)
    PROVE  PageInv'
<1>1. /\ job' \in [Item -> Job] /\ job[i] = "made"
      /\ \A j \in Item : job'[j] = IF j = i THEN "marked" ELSE job[j]
  BY JobGoesShape DEF MarkReady, Job, PageInv
<1>2. /\ page' \in Page /\ page'.logo = page.logo
      /\ \A j \in Item :
           page'.items[j] = IF j = i /\ page.items[i] # "absent" THEN "ready" ELSE page.items[j]
  BY MarkedShape DEF MarkReady, Status, PageInv
<1>3. UNCHANGED <<kind, expired, files, req>>
  BY DEF MarkReady
<1>4. TypeOK'
  BY <1>1, <1>2, <1>3 DEF PageInv, TypeOK
<1>5. page.items[i] # "absent" => i \in files
  BY <1>1 DEF PageInv, JobSound, Left
<1>6. QED
  BY <1>1, <1>2, <1>3, <1>4, <1>5, QuietStep DEF PageInv, KindSound, ShownOnDisk

LEMMA JobFailsKeeps ==
    ASSUME PageInv, NEW i \in Item, JobFails(i)
    PROVE  PageInv'
<1> DEFINE status == IF HasUrl(page.items[i]) THEN "withdrawn" ELSE "failed"
<1>1. /\ job' \in [Item -> Job] /\ job[i] # "none"
      /\ \A j \in Item : j # i => job'[j] = job[j]
      /\ job'[i] \in {"retry", "over"}
  <2>1. CASE JobGoes(i, {"queued", "made"}, "retry")
    BY <2>1, JobGoesShape DEF Job, PageInv
  <2>2. CASE JobGoes(i, {"retry"}, "over")
    BY <2>2, JobGoesShape DEF Job, PageInv
  <2>3. QED
    BY <2>1, <2>2 DEF JobFails
<1>2. /\ page' \in Page /\ page'.logo = page.logo
      /\ \A j \in Item :
           page'.items[j] = IF j = i /\ page.items[i] # "absent" THEN status ELSE page.items[j]
  BY MarkedShape DEF JobFails, Status, PageInv
<1>3. UNCHANGED <<kind, expired, files, req>>
  BY DEF JobFails
<1>4. TypeOK'
  BY <1>1, <1>2, <1>3 DEF PageInv, TypeOK, KindSound
<1>5. QED
  BY <1>1, <1>2, <1>3, <1>4, QuietStep DEF PageInv, KindSound, ShownOnDisk

LEMMA StallsKeeps ==
    ASSUME PageInv, NEW i \in Item, Stalls(i)
    PROVE  PageInv'
<1>1. /\ job' \in [Item -> Job] /\ job[i] # "none"
      /\ \A j \in Item : job'[j] = IF j = i THEN "retry" ELSE job[j]
  BY JobGoesShape DEF Stalls, Job, PageInv
<1>2. UNCHANGED <<page, kind, expired, files, req>>
  BY DEF Stalls
<1>3. TypeOK'
  BY <1>1, <1>2 DEF PageInv, TypeOK
<1>4. QED
  BY <1>1, <1>2, <1>3, QuietStep DEF PageInv, KindSound, ShownOnDisk

-------------------------------------------------------------------------------
(* The requests about items *)

\* A request that ends, having changed at most the files it may delete and the jobs.
LEMMA EndKeeps ==
    ASSUME PageInv, TypeOK', NEW r \in Req, Others(r), req'[r] = None, UNCHANGED <<page, kind>>,
           \A i \in Item : /\ i \in files => i \in files' \/ Left(i)
                           /\ job'[i] # "none" => kind[i] \in {"stories", "events"}
                           /\ job'[i] = "made" => job[i] = "made",
           files \cap Picture \subseteq files'
    PROVE  PageInv'
<1>1. KeepsOthers(r)
  BY DEF KeepsOthers, PageInv, KindSound, PublishingSound, Left
<1>2. KnowsItsOwn(r)
  BY DEF KnowsItsOwn
<1>3. ItemInv'
  BY <1>1, <1>2, ItemStep
<1>4. PictureSound' /\ page'.logo \in files' \cup {None}
  BY PictureKept
<1>5. ItemsShown'
  BY DEF ItemsShown, PageInv, ShownOnDisk, Left
<1>6. QED
  BY <1>3, <1>4, <1>5, Together

LEMMA FailsKeeps ==
    ASSUME PageInv, NEW r \in Req, Fails(r)
    PROVE  PageInv'
<1>1. req' \in [Req -> Request \cup {None}] /\ Others(r) /\ req'[r] = None
  BY GoesShape DEF Fails, PageInv
<1>2. UNCHANGED <<page, kind, expired, files, job>>
  BY DEF Fails
<1>3. TypeOK'
  BY <1>1, <1>2 DEF PageInv, TypeOK
<1>4. QED
  BY <1>1, <1>2, <1>3, EndKeeps DEF PageInv, KindSound

LEMMA TidyKeeps ==
    ASSUME PageInv, NEW r \in Req, Tidy(r)
    PROVE  PageInv'
<1>1. req' \in [Req -> Request \cup {None}] /\ Others(r) /\ req'[r] = None
  BY GoesShape DEF Tidy, PageInv
<1>2. UNCHANGED <<page, kind, expired, job>> /\ files' = files \ req[r].items
  BY DEF Tidy
<1>3. TypeOK'
  BY <1>1, <1>2 DEF PageInv, TypeOK
<1>4. req[r].items \subseteq Item /\ \A i \in req[r].items : Left(i)
  BY DEF Tidy, PageInv, TidyingSound, Tidying, In, TypeOK, Request
<1>5. files \cap Picture \subseteq files'
  BY <1>2, <1>4, NamesAssumption
<1>6. QED
  BY <1>1, <1>2, <1>3, <1>4, <1>5, EndKeeps DEF PageInv, KindSound

LEMMA EnqueueKeeps ==
    ASSUME PageInv, NEW r \in Req, Enqueue(r)
    PROVE  PageInv'
<1>1. req' \in [Req -> Request \cup {None}] /\ Others(r) /\ req'[r] = None
  BY GoesShape DEF Enqueue, PageInv
<1>2. UNCHANGED <<page, kind, expired, files>>
  BY DEF Enqueue
<1>3. PICK i \in req[r].items : job' = [job EXCEPT ![i] = "queued"]
  BY DEF Enqueue
<1>4. i \in Item /\ kind[i] \in {"stories", "events"}
  BY DEF Enqueue, In, PageInv, KindSound, TypeOK, Request
<1>5. /\ job' \in [Item -> Job]
      /\ \A j \in Item : job'[j] = IF j = i THEN "queued" ELSE job[j]
  BY <1>3, <1>4 DEF PageInv, TypeOK, Job
<1>6. TypeOK'
  BY <1>1, <1>2, <1>5 DEF PageInv, TypeOK
<1>7. QED
  BY <1>1, <1>2, <1>4, <1>5, <1>6, EndKeeps DEF PageInv, KindSound
LEMMA AddKeeps ==
    ASSUME PageInv, NEW r \in Req, NEW i \in Item, NEW list \in List, NEW video \in BOOLEAN,
           Add(r, i, list, video)
    PROVE  PageInv'
<1> DEFINE op == IF video THEN "film" ELSE "add"
<1> USE DEF PageInv
<1>1. /\ kind[i] = None /\ (video => list \in {"stories", "events"})
      /\ files' = (IF video THEN files ELSE files \cup {i})
      /\ UNCHANGED <<page, expired, job>>
      /\ Starts(r, op, {i}, None, None, Empty)
  BY DEF Add, Filmed, List
<1>2. /\ kind' \in [Item -> List \cup {None}]
      /\ \A j \in Item : kind'[j] = IF j = i THEN list ELSE kind[j]
  BY DEF Add, TypeOK
<1>3. Empty \in [Item -> Status] /\ \A j \in Item : Empty[j] = "absent"
  BY DEF Empty, Status
<1>4. /\ req' \in [Req -> Request \cup {None}]
      /\ Others(r) /\ req[r] = None /\ req'[r] # None
      /\ req'[r] = [op |-> op, phase |-> "save", items |-> {i}, picture |-> None,
                    old |-> None, seen |-> Empty, fresh |-> TRUE]
  <2>1. op \in {"add", "film", "remove", "expire", "logo"}
    OBVIOUS
  <2> HIDE DEF op
  <2>2. QED
    BY <1>1, <1>3, <2>1, StartsShape
<1>5. page.items[i] = "absent" /\ job[i] = "none"
  BY <1>1, NamesAssumption DEF KindSound, List
<1>6. TypeOK'
  BY <1>1, <1>2, <1>4, <1>5 DEF TypeOK
<1>7. None \notin {"stories", "events"} /\ list # None
  BY NamesAssumption DEF List
<1>8. KeepsOthers(r)
  <2>1. \A j \in Item : kind[j] # None => kind'[j] = kind[j]
    BY <1>1, <1>2
  <2>2. \A j \in Item :
          /\ page'.items[j] # "absent" => kind'[j] # None
          /\ Left(j) => page'.items[j] = "absent"
          /\ j \in files => j \in files' \/ Left(j)
          /\ job'[j] # "none" => kind'[j] \in {"stories", "events"}
          /\ job'[j] = "made" => job[j] = "made"
    BY <1>1, <1>7, <2>1 DEF KindSound, Left
  <2>3. QED
    BY <1>1, <2>1, <2>2 DEF KeepsOthers, PublishingSound
<1>9. KnowsItsOwn(r)
  <2>1. ~Replacing(r)' /\ ~Tidying(r)'
    BY <1>4 DEF Replacing, Tidying, In
  <2>2. ~Left(i)
    BY <1>1 DEF Left
  <2>3. \A q \in Req \ {r} : /\ Publishing(q) => i \notin req[q].items
                             /\ Replacing(q) => req[q].seen[i] = "absent"
    BY <1>1 DEF KindSound, Publishing, Replacing, In
  <2>4. req'[r].op = "add" => i \in files'
    BY <1>1, <1>4
  <2>5. req'[r].op = "film" => list \in {"stories", "events"}
    BY <1>1, <1>4
  <2>6. req'[r].items = {i} /\ req'[r].seen = Empty
    BY <1>4
  <2> HIDE DEF op
  <2>7. QED
    BY <1>1, <1>2, <1>3, <1>5, <1>7, <2>1, <2>2, <2>3, <2>4, <2>5, <2>6 DEF KnowsItsOwn
<1>10. ItemInv'
  BY <1>4, <1>6, <1>8, <1>9, ItemStep
<1>11. PictureSound' /\ page'.logo \in files' \cup {None}
  BY <1>1, <1>4, <1>6, PictureKept
<1>12. ItemsShown'
  BY <1>1 DEF ItemsShown, ShownOnDisk
<1>13. QED
  BY <1>6, <1>10, <1>11, <1>12, Together

LEMMA AddSaveKeeps ==
    ASSUME PageInv, NEW r \in Req, AddSave(r)
    PROVE  PageInv'
<1> USE DEF PageInv
<1> DEFINE status == IF req[r].op = "film" THEN "processing" ELSE "ready"
<1>1. PICK i \in req[r].items : page' = [page EXCEPT !.items[i] = status]
  BY DEF AddSave
<1>2. UNCHANGED <<kind, expired, files, job>>
  BY DEF AddSave
<1>3. Publishing(r) /\ req[r] # None /\ req[r] \in Request /\ i \in Item
  BY DEF AddSave, Publishing, In, TypeOK, Request
<1>4. /\ page' \in Page /\ page'.logo = page.logo
      /\ \A j \in Item : page'.items[j] = IF j = i THEN status ELSE page.items[j]
  <2>1. status \in Status
    BY DEF Status
  <2> HIDE DEF status
  <2>2. QED
    BY <1>1, <1>3, <2>1, StatusShape
<1>5. /\ req' \in [Req -> Request \cup {None}] /\ Others(r)
      /\ \A q \in Req \ {r} : req[q] # None /\ req[q].seen # Empty => ~req'[q].fresh
      /\ req'[r] # None =>
           /\ req'[r].op = "film" /\ req'[r].phase = "enqueue" /\ req[r].op = "film"
           /\ req'[r].items = req[r].items /\ req'[r].seen = req[r].seen
           /\ req'[r].picture = req[r].picture /\ req'[r].old = req[r].old
  <2>1. CASE In(r, "add", "save") /\ Goes(r, None, TRUE)
    BY <2>1, GoesShape
  <2>2. CASE In(r, "film", "save") /\ Goes(r, To(r, "enqueue"), TRUE)
    <3>1. /\ To(r, "enqueue") \in Request /\ To(r, "enqueue") # None
          /\ To(r, "enqueue").op = req[r].op /\ To(r, "enqueue").phase = "enqueue"
          /\ To(r, "enqueue").items = req[r].items /\ To(r, "enqueue").seen = req[r].seen
          /\ To(r, "enqueue").picture = req[r].picture /\ To(r, "enqueue").old = req[r].old
      BY <1>3, ToShape
    <3>2. QED
      BY <2>2, <3>1, GoesShape DEF In
  <2>3. QED
    BY <2>1, <2>2 DEF AddSave
<1>6. /\ page.items[i] = "absent"
      /\ req[r].op = "add" => i \in files
      /\ \A q \in Req : /\ q # r /\ Publishing(q) => i \notin req[q].items
                        /\ Replacing(q) => req[q].seen[i] = "absent"
  BY <1>1, <1>3 DEF PublishingSound
<1>7. kind[i] # None /\ (status = "processing" => kind[i] \in {"stories", "events"})
  BY <1>1, <1>3 DEF KindSound
<1>8. status \notin {"failed", "withdrawn"} /\ (status = "ready" => i \in files)
  BY <1>3, <1>6 DEF Publishing, In
<1> HIDE DEF status
<1>9. TypeOK'
  BY <1>2, <1>4, <1>5, <1>7, <1>8 DEF TypeOK
<1>10. KeepsOthers(r)
  <2>1. \A j \in Item :
          /\ page'.items[j] # "absent" => kind'[j] # None
          /\ Left(j) => page'.items[j] = "absent"
          /\ job'[j] # "none" => kind'[j] \in {"stories", "events"}
    BY <1>1, <1>2, <1>3, <1>4, <1>7 DEF KindSound, Left
  <2>2. ASSUME NEW q \in Req \ {r}, Publishing(q), NEW j \in req[q].items
        PROVE  page'.items[j] = "absent"
    <3>1. j \in Item /\ j # i
      BY <1>6, <2>2 DEF Publishing, In, TypeOK, Request
    <3>2. QED
      BY <1>4, <2>2, <3>1 DEF PublishingSound
  <2>3. ASSUME NEW q \in Req \ {r}, Replacing(q)
        PROVE  ~req'[q].fresh
    BY <1>5, <2>3 DEF ReplacingSound, Replacing, In
  <2>4. QED
    BY <1>2, <2>1, <2>2, <2>3 DEF KeepsOthers
<1>11. KnowsItsOwn(r)
  <2>1. ~Publishing(r)' /\ ~Replacing(r)' /\ ~Tidying(r)'
    BY <1>5 DEF Publishing, Replacing, Tidying, In
  <2>2. QED
    BY <1>2, <1>3, <1>5, <2>1 DEF KnowsItsOwn, KindSound
<1>12. ItemInv'
  BY <1>5, <1>9, <1>10, <1>11, ItemStep
<1>13. PictureSound' /\ page'.logo \in files' \cup {None}
  BY <1>2, <1>3, <1>4, <1>5, <1>9, PictureKept
<1>14. ItemsShown'
  BY <1>2, <1>4, <1>8 DEF ItemsShown, ShownOnDisk
<1>15. QED
  BY <1>9, <1>12, <1>13, <1>14, Together
\* A removal or an expiry starts: it loads the page as it is.
LEMMA LoadKeeps ==
    ASSUME PageInv, NEW r \in Req, NEW op \in {"remove", "expire"}, NEW items \in SUBSET Item,
           Starts(r, op, items, None, None, page.items),
           UNCHANGED <<page, kind, expired, files, job>>,
           \E i \in Item : page.items[i] # "absent",
           \A i \in items : kind[i] # None
    PROVE  PageInv'
<1> USE DEF PageInv
<1>1. page.items \in [Item -> Status]
  BY DEF TypeOK, Page
<1>2. /\ req' \in [Req -> Request \cup {None}]
      /\ Others(r) /\ req[r] = None /\ req'[r] # None
      /\ req'[r] = [op |-> op, phase |-> "save", items |-> items, picture |-> None,
                    old |-> None, seen |-> page.items, fresh |-> TRUE]
  BY <1>1, StartsShape
<1>3. TypeOK'
  BY <1>2 DEF TypeOK
<1>4. KeepsOthers(r)
  BY DEF KeepsOthers, KindSound, PublishingSound, Left
<1>5. KnowsItsOwn(r)
  <2>1. ~Publishing(r)' /\ ~Tidying(r)'
    BY <1>2 DEF Publishing, Tidying, In
  <2>2. req'[r].items = items /\ req'[r].seen = page.items /\ req'[r].op # "film"
    BY <1>2
  <2>3. page.items # Empty
    BY DEF Empty
  <2>4. \A i \in Item : /\ page.items[i] # "absent" => kind[i] # None
                        /\ page.items[i] \in {"processing", "failed", "withdrawn"} =>
                             kind[i] \in {"stories", "events"}
    BY DEF KindSound, TypeOK
  <2>5. \A q \in Req \ {r} : Publishing(q) =>
          \A i \in req[q].items : page.items[i] = "absent"
    BY DEF PublishingSound
  <2>6. \A i \in Item : /\ page.items[i] = "ready" => i \in files
                        /\ Left(i) => page.items[i] = "absent"
    BY DEF ShownOnDisk, Left
  <2>7. QED
    BY <2>1, <2>2, <2>3, <2>4, <2>5, <2>6 DEF KnowsItsOwn
<1>6. ItemInv'
  BY <1>2, <1>3, <1>4, <1>5, ItemStep
<1>7. PictureSound' /\ page'.logo \in files' \cup {None}
  BY <1>2, <1>3, PictureKept
<1>8. ItemsShown'
  BY DEF ItemsShown, ShownOnDisk
<1>9. QED
  BY <1>3, <1>6, <1>7, <1>8, Together

\* An array replaced by what its request loaded, without what it removes.
LEMMA ReplaceKeeps ==
    ASSUME PageInv, NEW r \in Req, Replacing(r), req[r].fresh, NEW list \in List,
           NEW gone \in SUBSET Item, \A i \in gone : kind[i] = list,
           page' = Without(r, list, gone), Goes(r, ToTidy(r, gone), TRUE),
           UNCHANGED <<kind, expired, files, job>>
    PROVE  PageInv'
<1> USE DEF PageInv
<1>1. req[r] # None /\ req[r] \in Request
  BY DEF Replacing, In, TypeOK
<1>2. PICK next : next = ToTidy(r, gone)
  OBVIOUS
<1>3. /\ next \in Request /\ next # None
      /\ next.op = req[r].op /\ next.phase = "tidy" /\ next.seen = Empty
      /\ next.items = {i \in gone : kind[i] # "media" /\ HasUrl(req[r].seen[i])}
      /\ next.picture = req[r].picture /\ next.old = req[r].old
  BY <1>1, <1>2, ToTidyShape
<1>4. /\ req' \in [Req -> Request \cup {None}] /\ Others(r) /\ req'[r] = next
      /\ \A q \in Req \ {r} : req[q] # None /\ req[q].seen # Empty => ~req'[q].fresh
  BY <1>2, <1>3, GoesShape
<1>5. /\ page' \in Page /\ page'.logo = page.logo
      /\ \A i \in Item :
           page'.items[i] = IF kind[i] # list THEN page.items[i]
                            ELSE IF i \in gone THEN "absent" ELSE req[r].seen[i]
  BY <1>1, WithoutShape
<1>6. \A i \in Item : /\ req[r].seen[i] # "absent" => kind[i] # None
                      /\ req[r].seen[i] \in {"processing", "failed", "withdrawn"} =>
                           kind[i] \in {"stories", "events"}
  BY <1>1 DEF KindSound
<1>7. TypeOK'
  BY <1>3, <1>4, <1>5, <1>6 DEF TypeOK
<1>8. ASSUME NEW q \in Req \ {r}, Replacing(q)
      PROVE  ~req'[q].fresh
  BY <1>4, <1>8 DEF ReplacingSound, Replacing, In
<1>9. KeepsOthers(r)
  <2>1. \A i \in Item :
          /\ page'.items[i] # "absent" => kind'[i] # None
          /\ Left(i) => page'.items[i] = "absent"
          /\ job'[i] # "none" => kind'[i] \in {"stories", "events"}
    BY <1>5, <1>6 DEF KindSound, Left
  <2>2. ASSUME NEW q \in Req \ {r}, Publishing(q), NEW i \in req[q].items
        PROVE  page'.items[i] = "absent"
    <3>1. i \in Item /\ page.items[i] = "absent" /\ req[r].seen[i] = "absent"
      BY <2>2 DEF PublishingSound, Publishing, In, TypeOK, Request
    <3>2. QED
      BY <1>5, <3>1
  <2>3. QED
    BY <1>8, <2>1, <2>2 DEF KeepsOthers
<1>10. KnowsItsOwn(r)
  <2>1. ~Publishing(r)' /\ ~Replacing(r)'
    BY <1>3, <1>4 DEF Publishing, Replacing, In
  <2>2. \A i \in next.items : i \in Item /\ kind[i] # None
    BY <1>3, NamesAssumption DEF List
  <2>3. req'[r].op # "film" /\ \A i \in Item : req'[r].seen[i] = "absent"
    BY <1>3, <1>4 DEF Empty, Replacing, In
  <2>4. ASSUME NEW i \in next.items
        PROVE  Left(i)'
    <3>1. i \in gone /\ i \in Item /\ kind[i] = list /\ req[r].seen[i] # "absent"
      BY <1>3 DEF HasUrl
    <3>2. page'.items[i] = "absent" /\ kind'[i] # None
      BY <1>5, <2>2, <3>1
    <3>3. ASSUME NEW q \in Req, Publishing(q)'
          PROVE  i \notin req'[q].items
      <4>1. q # r
        BY <2>1, <3>3
      <4>2. Publishing(q) /\ req'[q].items = req[q].items
        BY <1>4, <3>3, <4>1 DEF Others, Publishing, In
      <4>3. QED
        BY <3>1, <4>2 DEF PublishingSound
    <3>4. ASSUME NEW q \in Req, Replacing(q)', req'[q].fresh
          PROVE  req'[q].seen[i] = "absent"
      <4>1. q # r
        BY <2>1, <3>4
      <4>2. Replacing(q)
        BY <1>4, <3>4, <4>1 DEF Others, Replacing, In
      <4>3. QED
        BY <1>8, <3>4, <4>1, <4>2
    <3>5. QED
      BY <3>2, <3>3, <3>4 DEF Left
  <2>5. QED
    BY <1>4, <2>1, <2>2, <2>3, <2>4 DEF KnowsItsOwn
<1>11. ItemInv'
  BY <1>4, <1>7, <1>9, <1>10, ItemStep
<1>12. PictureSound' /\ page'.logo \in files' \cup {None}
  <2>1. req'[r].op # "logo"
    BY <1>3, <1>4 DEF Replacing, In
  <2>2. QED
    BY <1>1, <1>3, <1>4, <1>5, <1>7, <2>1, PictureKept
<1>13. ItemsShown'
  BY <1>5 DEF ItemsShown, ShownOnDisk, ReplacingSound
<1>14. QED
  BY <1>7, <1>11, <1>12, <1>13, Together

LEMMA RemoveKeeps ==
    ASSUME PageInv, NEW r \in Req, NEW i \in Item, Remove(r, i)
    PROVE  PageInv'
<1>1. /\ page.items[i] # "absent" /\ UNCHANGED <<page, kind, expired, files, job>>
      /\ Starts(r, "remove", {i}, None, None, page.items)
  BY DEF Remove
<1>2. \A j \in {i} : kind[j] # None
  BY <1>1 DEF PageInv, KindSound
<1>3. QED
  BY <1>1, <1>2, LoadKeeps

LEMMA RemoveSaveKeeps ==
    ASSUME PageInv, NEW r \in Req, RemoveSave(r)
    PROVE  PageInv'
<1>1. PICK i \in req[r].items : page' = Without(r, kind[i], {i}) /\ Goes(r, ToTidy(r, {i}), TRUE)
  BY DEF RemoveSave
<1>2. /\ Replacing(r) /\ req[r].fresh /\ UNCHANGED <<kind, expired, files, job>>
  BY DEF RemoveSave, Conflict, Replacing
<1>3. i \in Item /\ kind[i] \in List
  BY <1>2 DEF PageInv, KindSound, TypeOK, Request, Replacing, In
<1>4. \A j \in {i} : kind[j] = kind[i]
  OBVIOUS
<1>5. QED
  BY <1>1, <1>2, <1>3, <1>4, ReplaceKeeps

LEMMA ExpireEventsKeeps ==
    ASSUME PageInv, NEW r \in Req, ExpireEvents(r)
    PROVE  PageInv'
<1>1. \E i \in Item : page.items[i] # "absent"
  BY DEF ExpireEvents, Held
<1>2. QED
  BY <1>1, LoadKeeps DEF ExpireEvents

LEMMA ExpireEventsSaveKeeps ==
    ASSUME PageInv, NEW r \in Req, ExpireEventsSave(r)
    PROVE  PageInv'
<1> DEFINE gone == Held(req[r].seen, "events") \cap expired
<1>1. /\ Replacing(r) /\ req[r].fresh /\ UNCHANGED <<kind, expired, files, job>>
      /\ page' = Without(r, "events", gone) /\ Goes(r, ToTidy(r, gone), TRUE)
  BY DEF ExpireEventsSave, Conflict, Replacing
<1>2. gone \in SUBSET Item /\ (\A i \in gone : kind[i] = "events") /\ "events" \in List
  BY DEF Held, List
<1>3. QED
  BY <1>1, <1>2, ReplaceKeeps
-------------------------------------------------------------------------------
(* The requests about pictures *)

\* A step about pictures leaves the items alone.
LEMMA ItemsKept ==
    ASSUME PageInv, TypeOK', NEW r \in Req, Others(r),
           page'.items = page.items, UNCHANGED <<kind, job>>, files \cap Item \subseteq files',
           req'[r] # None =>
             /\ req'[r].op = "logo"
             /\ \/ req'[r].items = {} /\ req'[r].seen = Empty
                \/ /\ req[r] # None
                   /\ req'[r].items = req[r].items /\ req'[r].seen = req[r].seen
    PROVE  ItemInv' /\ ItemsShown'
<1> USE DEF PageInv
<1>1. KeepsOthers(r)
  BY DEF KeepsOthers, KindSound, PublishingSound, Left
<1>2. KnowsItsOwn(r)
  <2>1. ~Publishing(r)' /\ ~Replacing(r)' /\ ~Tidying(r)'
    BY DEF Publishing, Replacing, Tidying, In
  <2>2. \A i \in Item : Empty[i] = "absent"
    BY DEF Empty
  <2>3. req[r] # None => req[r].items \subseteq Item
    BY DEF TypeOK, Request
  <2>4. QED
    BY <2>1, <2>2, <2>3 DEF KnowsItsOwn, KindSound
<1>3. ItemInv'
  BY <1>1, <1>2, ItemStep
<1>4. ItemsShown'
  BY DEF ItemsShown, ShownOnDisk
<1>5. QED
  BY <1>3, <1>4

\* A picture is put up, or taken down; f is its name, if any, and no one else's.
LEMMA LogoStarts ==
    ASSUME PageInv, NEW r \in Req, NEW f \in Picture \cup {None},
           Starts(r, "logo", {}, f, page.logo, Empty), UNCHANGED <<page, kind, expired, job>>,
           files' = files \cup ({f} \ {None}),
           f # None => /\ f # page.logo
                       /\ \A q \in Req : req[q] # None => f \notin {req[q].picture, req[q].old}
    PROVE  PageInv'
<1> USE DEF PageInv
<1>1. /\ req' \in [Req -> Request \cup {None}]
      /\ Others(r) /\ req[r] = None /\ req'[r] # None
      /\ req'[r] = [op |-> "logo", phase |-> "save", items |-> {}, picture |-> f,
                    old |-> page.logo, seen |-> Empty, fresh |-> TRUE]
  <2>1. page.logo \in Picture \cup {None} /\ Empty \in [Item -> Status]
    BY DEF TypeOK, Page, Empty, Status
  <2>2. QED
    BY <2>1, StartsShape
<1>2. TypeOK'
  BY <1>1 DEF TypeOK
<1>3. ItemInv' /\ ItemsShown'
  BY <1>1, <1>2, ItemsKept
<1>4. page'.logo \in files' \cup {None}
  BY DEF ShownOnDisk
<1>5. ASSUME NEW q \in Req, In(q, "logo", "save")', req'[q].picture # None
      PROVE  /\ req'[q].picture \in files'
             /\ req'[q].picture \notin {page'.logo, req'[q].old}
             /\ \A p \in Req : p # q /\ req'[p] # None =>
                  req'[q].picture \notin {req'[p].picture, req'[p].old}
  <2>1. CASE q = r
    <3>1. req'[q].picture = f /\ req'[q].old = page.logo
      BY <1>1, <2>1
    <3>2. \A p \in Req : p # q /\ req'[p] # None => f \notin {req'[p].picture, req'[p].old}
      BY <1>1, <1>5, <2>1, <3>1 DEF Others
    <3>3. QED
      BY <1>5, <3>1, <3>2
  <2>2. CASE q # r
    <3>1. req'[r].picture = f /\ req'[r].old = page.logo
      BY <1>1
    <3>2. /\ req'[q].picture = req[q].picture /\ req[q] # None
          /\ req[q].picture \in files /\ req[q].picture \notin {page.logo, req'[q].old}
      BY <1>1, <1>5, <2>2, OtherPictures
    <3>3. \A p \in Req : p \notin {q, r} /\ req'[p] # None =>
            req[q].picture \notin {req'[p].picture, req'[p].old}
      BY <1>1, <1>5, <2>2, OtherPictures
    <3>4. req[q].picture # f
      BY <1>5, <3>2
    <3>5. QED
      BY <1>5, <3>1, <3>2, <3>3, <3>4
  <2>3. QED
    BY <2>1, <2>2
<1>6. ASSUME NEW q \in Req, In(q, "logo", "tidy")', req'[q].old # None
      PROVE  req'[q].old # page'.logo
  <2>1. q # r
    BY <1>1, <1>6 DEF In
  <2>2. QED
    BY <1>1, <1>6, <2>1, OtherPictures
<1>7. PictureSound'
  BY <1>5, <1>6 DEF PictureSound
<1>8. QED
  BY <1>2, <1>3, <1>4, <1>7, Together

LEMMA SetLogoKeeps ==
    ASSUME PageInv, NEW r \in Req, NEW f \in Picture, SetLogo(r, f)
    PROVE  PageInv'
<1>1. files' = files \cup ({f} \ {None})
  BY NamesAssumption DEF SetLogo
<1>2. QED
  BY <1>1, LogoStarts DEF SetLogo

LEMMA RemoveLogoKeeps ==
    ASSUME PageInv, NEW r \in Req, RemoveLogo(r)
    PROVE  PageInv'
<1>1. files' = files \cup ({None} \ {None})
  BY DEF RemoveLogo
<1>2. QED
  BY <1>1, LogoStarts DEF RemoveLogo

LEMMA LogoSaveKeeps ==
    ASSUME PageInv, NEW r \in Req, LogoSave(r)
    PROVE  PageInv'
<1> USE DEF PageInv
<1>1. In(r, "logo", "save") /\ req[r] # None /\ req[r] \in Request
  BY DEF LogoSave, In, TypeOK
<1>2. /\ req' \in [Req -> Request \cup {None}] /\ Others(r)
      /\ req'[r] # None /\ req'[r].op = "logo" /\ req'[r].phase = "tidy"
      /\ req'[r].items = req[r].items /\ req'[r].seen = req[r].seen
      /\ req'[r].picture = req[r].picture /\ req'[r].old = req[r].old
  <2>1. /\ To(r, "tidy") \in Request /\ To(r, "tidy") # None
        /\ To(r, "tidy").op = req[r].op /\ To(r, "tidy").phase = "tidy"
        /\ To(r, "tidy").items = req[r].items /\ To(r, "tidy").seen = req[r].seen
        /\ To(r, "tidy").picture = req[r].picture /\ To(r, "tidy").old = req[r].old
    BY <1>1, ToShape
  <2>2. Goes(r, To(r, "tidy"), FALSE)
    BY DEF LogoSave
  <2>3. QED
    BY <1>1, <2>1, <2>2, GoesShape DEF In
<1>3. UNCHANGED <<kind, expired, files, job>>
  BY DEF LogoSave
<1>4. /\ page' \in Page /\ page'.items = page.items
      /\ \/ page' = page /\ req[r].picture = req[r].old
         \/ page'.logo = req[r].picture /\ req[r].picture # req[r].old
  <2>1. CASE req[r].picture = req[r].old
    BY <2>1 DEF LogoSave, TypeOK
  <2>2. CASE req[r].picture # req[r].old
    <3>1. page' = [page EXCEPT !.logo = req[r].picture]
      BY <2>2 DEF LogoSave
    <3>2. req[r].picture \in Picture \cup {None}
      BY <1>1 DEF Request
    <3>3. QED
      BY <2>2, <3>1, <3>2 DEF TypeOK, Page
  <2>3. QED
    BY <2>1, <2>2
<1>5. TypeOK'
  BY <1>2, <1>3, <1>4 DEF TypeOK
<1>6. ItemInv' /\ ItemsShown'
  <2>1. Others(r) /\ req'[r].op = "logo"
    BY <1>2
  <2>2. /\ req[r] # None
        /\ req'[r].items = req[r].items /\ req'[r].seen = req[r].seen
    BY <1>1, <1>2
  <2>3. page'.items = page.items
    BY <1>4
  <2>4. UNCHANGED <<kind, job>> /\ files \cap Item \subseteq files'
    BY <1>3
  <2>5. QED
    BY <1>5, <2>1, <2>2, <2>3, <2>4, ItemsKept
<1>7. page'.logo \in files' \cup {None}
  BY <1>1, <1>3, <1>4 DEF ShownOnDisk, PictureSound
<1>8. ASSUME NEW q \in Req, In(q, "logo", "save")', req'[q].picture # None
      PROVE  /\ req'[q].picture \in files'
             /\ req'[q].picture \notin {page'.logo, req'[q].old}
             /\ \A p \in Req : p # q /\ req'[p] # None =>
                  req'[q].picture \notin {req'[p].picture, req'[p].old}
  <2>1. q # r
    BY <1>2, <1>8 DEF In
  <2>2. /\ req'[q].picture = req[q].picture
        /\ req[q].picture \in files
        /\ req[q].picture \notin {page.logo, req'[q].old}
        /\ \A p \in Req : p # q /\ req[p] # None =>
             req[q].picture \notin {req[p].picture, req[p].old}
    BY <1>2, <1>8, <2>1, OtherPictures
  <2>3. \A p \in Req : p \notin {q, r} /\ req'[p] # None =>
          req[q].picture \notin {req'[p].picture, req'[p].old}
    BY <1>2, <1>8, <2>1, OtherPictures
  <2>4. \A p \in Req : p # q /\ req'[p] # None =>
          req[q].picture \notin {req'[p].picture, req'[p].old}
    BY <1>1, <1>2, <2>1, <2>2, <2>3
  <2>5. req[q].picture # page'.logo
    BY <1>1, <1>4, <2>1, <2>2
  <2>6. QED
    BY <1>3, <2>2, <2>4, <2>5
<1>9. ASSUME NEW q \in Req, In(q, "logo", "tidy")', req'[q].old # None
      PROVE  req'[q].old # page'.logo
  <2>1. CASE q = r
    <3>1. req'[q].old = req[r].old
      BY <1>2, <2>1
    <3>2. req[r].picture # None => req[r].picture # req[r].old /\ req[r].picture # page.logo
      BY <1>1 DEF PictureSound
    <3>3. CASE req[r].picture = req[r].old
      BY <1>9, <3>1, <3>2, <3>3
    <3>4. CASE req[r].picture # req[r].old
      <4>1. page'.logo = req[r].picture
        BY <1>4, <3>4
      <4>2. QED
        BY <3>1, <3>4, <4>1
    <3>5. QED
      BY <3>3, <3>4
  <2>2. CASE q # r
    <3>1. req[q] # None /\ req'[q].old = req[q].old /\ req[q].old # page.logo
      BY <1>2, <1>9, <2>2, OtherPictures
    <3>2. req[r].picture # None => req[r].picture # req[q].old
      BY <1>1, <2>2, <3>1 DEF PictureSound
    <3>3. QED
      BY <1>4, <1>9, <3>1, <3>2
  <2>3. QED
    BY <2>1, <2>2
<1>10. PictureSound'
  BY <1>8, <1>9 DEF PictureSound
<1>11. QED
  BY <1>5, <1>6, <1>7, <1>10, Together

LEMMA LogoTidyKeeps ==
    ASSUME PageInv, NEW r \in Req, LogoTidy(r)
    PROVE  PageInv'
<1> USE DEF PageInv
<1>1. In(r, "logo", "tidy") /\ req[r] # None /\ req[r] \in Request
  BY DEF LogoTidy, In, TypeOK
<1>2. req' \in [Req -> Request \cup {None}] /\ Others(r) /\ req'[r] = None
  BY GoesShape DEF LogoTidy
<1>3. UNCHANGED <<page, kind, expired, job>> /\ files' = files \ {req[r].old}
  BY DEF LogoTidy, LogoTidied
<1>4. TypeOK'
  BY <1>2, <1>3 DEF TypeOK
<1>5. files \cap Item \subseteq files'
  BY <1>1, <1>3, NamesAssumption DEF Request
<1>6. ItemInv' /\ ItemsShown'
  BY <1>2, <1>3, <1>4, <1>5, ItemsKept
<1>7. page'.logo \in files' \cup {None}
  BY <1>1, <1>3 DEF ShownOnDisk, PictureSound
<1>8. ASSUME NEW q \in Req, In(q, "logo", "save")', req'[q].picture # None
      PROVE  /\ req'[q].picture \in files'
             /\ req'[q].picture \notin {page'.logo, req'[q].old}
             /\ \A p \in Req : p # q /\ req'[p] # None =>
                  req'[q].picture \notin {req'[p].picture, req'[p].old}
  <2>1. q # r
    BY <1>2, <1>8 DEF In
  <2>2. /\ req'[q].picture = req[q].picture
        /\ req[q].picture \in files
        /\ req[q].picture \notin {page.logo, req'[q].old}
        /\ \A p \in Req : p # q /\ req[p] # None =>
             req[q].picture \notin {req[p].picture, req[p].old}
    BY <1>2, <1>8, <2>1, OtherPictures
  <2>3. \A p \in Req : p \notin {q, r} /\ req'[p] # None =>
          req[q].picture \notin {req'[p].picture, req'[p].old}
    BY <1>2, <1>8, <2>1, OtherPictures
  <2>4. \A p \in Req : p # q /\ req'[p] # None =>
          req[q].picture \notin {req'[p].picture, req'[p].old}
    BY <1>2, <2>3
  <2>5. req[q].picture \in files'
    BY <1>1, <1>3, <2>1, <2>2
  <2>6. QED
    BY <1>3, <2>2, <2>4, <2>5
<1>9. ASSUME NEW q \in Req, In(q, "logo", "tidy")', req'[q].old # None
      PROVE  req'[q].old # page'.logo
  <2>1. q # r
    BY <1>2, <1>9 DEF In
  <2>2. QED
    BY <1>2, <1>3, <1>9, <2>1, OtherPictures
<1>10. PictureSound'
  BY <1>8, <1>9 DEF PictureSound
<1>11. QED
  BY <1>4, <1>6, <1>7, <1>10, Together
-------------------------------------------------------------------------------
(* The theorems *)

LEMMA InitHolds == Init => PageInv
<1> SUFFICES ASSUME Init
             PROVE  PageInv
  OBVIOUS
<1>1. \A i \in Item : Empty[i] = "absent" /\ page.items[i] = "absent" /\ job[i] = "none"
  BY DEF Init, Empty
<1>2. \A r \in Req : req[r] = None
  BY DEF Init
<1>3. TypeOK
  <2>1. Empty \in [Item -> Status]
    BY DEF Empty, Status
  <2>2. QED
    BY <1>1, <2>1 DEF Init, TypeOK, Page, Job, List
<1>4. KindSound /\ JobSound
  BY <1>1, <1>2 DEF KindSound, JobSound
<1>5. PublishingSound /\ ReplacingSound /\ TidyingSound /\ PictureSound
  BY <1>2 DEF PublishingSound, ReplacingSound, TidyingSound, PictureSound,
              Publishing, Replacing, Tidying, In
<1>6. ShownOnDisk
  BY <1>1 DEF Init, ShownOnDisk
<1>7. QED
  BY <1>3, <1>4, <1>5, <1>6 DEF PageInv

LEMMA StepKeeps == PageInv /\ [Next]_vars => PageInv'
<1> SUFFICES ASSUME PageInv, [Next]_vars
             PROVE  PageInv'
  OBVIOUS
<1>1. ASSUME NEW r \in Req, NEW i \in Item, Remove(r, i)
      PROVE  PageInv'
  BY <1>1, RemoveKeeps
<1>2. ASSUME NEW r \in Req, NEW i \in Item, NEW list \in List, NEW video \in BOOLEAN,
             Add(r, i, list, video)
      PROVE  PageInv'
  BY <1>2, AddKeeps
<1>3. ASSUME NEW r \in Req, NEW f \in Picture, SetLogo(r, f)
      PROVE  PageInv'
  BY <1>3, SetLogoKeeps
<1>4. ASSUME NEW r \in Req,
             \/ RemoveLogo(r) \/ ExpireEvents(r)
             \/ AddSave(r) \/ Enqueue(r) \/ RemoveSave(r) \/ ExpireEventsSave(r) \/ Tidy(r)
             \/ LogoSave(r) \/ LogoTidy(r) \/ Fails(r)
      PROVE  PageInv'
  BY <1>4, RemoveLogoKeeps, ExpireEventsKeeps, AddSaveKeeps, EnqueueKeeps, RemoveSaveKeeps,
     ExpireEventsSaveKeeps, TidyKeeps, LogoSaveKeeps, LogoTidyKeeps, FailsKeeps
<1>5. ASSUME NEW i \in Item,
             Age(i) \/ Transcode(i) \/ MarkReady(i) \/ JobFails(i) \/ Stalls(i)
      PROVE  PageInv'
  BY <1>5, AgeKeeps, TranscodeKeeps, MarkReadyKeeps, JobFailsKeeps, StallsKeeps
<1>6. CASE ExpireStories
  BY <1>6, ExpireStoriesKeeps
<1>7. CASE UNCHANGED vars
  <2>1. TypeOK'
    BY <1>7 DEF vars, PageInv, TypeOK
  <2>2. QED
    BY <1>7, <2>1, QuietStep DEF vars, PageInv, KindSound, ShownOnDisk
<1>8. QED
  BY <1>1, <1>2, <1>3, <1>4, <1>5, <1>6, <1>7 DEF Next

LEMMA Invariance == Spec => []PageInv
<1>1. QED
  BY InitHolds, StepKeeps, PTL DEF Spec

\* The state of a venue's page stays in its types; only stories and events wait for a video
\* (controllers/businessProfile.controller.js, services/mediaProcessing.service.js).
THEOREM TypeCorrect == Spec => []TypeOK
<1>1. PageInv => TypeOK
  BY DEF PageInv
<1>2. QED
  BY <1>1, Invariance, PTL

\* The page never shows a picture, a story or an event whose file was deleted, for any number of
\* uploads and requests at once (removeLogo, removeStory, removeEvent and the crons).
THEOREM ShownIsThere == Spec => []ShownOnDisk
<1>1. PageInv => ShownOnDisk
  BY DEF PageInv
<1>2. QED
  BY <1>1, Invariance, PTL

\* What leaves the page expired or is what its owner removes: no save of a request takes away
\* what another one published since it loaded the venue (the versions of Mongoose's arrays).
THEOREM NothingIsLost == Spec => NothingLost
<1> DEFINE Kept == \A i \in Item :
                     page.items[i] # "absent" /\ page'.items[i] = "absent" =>
                       i \in expired \/ \E r \in Req : In(r, "remove", "save") /\ i \in req[r].items
<1>1. PageInv /\ [Next]_vars => [Kept]_vars
  <2> SUFFICES ASSUME PageInv, Next, NEW i \in Item,
                      page.items[i] # "absent", page'.items[i] = "absent", i \notin expired
               PROVE  \E r \in Req : In(r, "remove", "save") /\ i \in req[r].items
    OBVIOUS
  <2> USE DEF PageInv
  <2>1. page' # page
    OBVIOUS
  <2>2. ASSUME NEW r \in Req, Replacing(r), req[r].fresh, NEW list, NEW gone,
               page' = Without(r, list, gone)
        PROVE  i \in gone
    <3>1. req[r] # None /\ req[r].seen[i] # "absent"
      BY <2>2 DEF ReplacingSound, Replacing, In
    <3>2. page'.items[i] = IF kind[i] # list THEN page.items[i]
                           ELSE IF i \in gone THEN "absent" ELSE req[r].seen[i]
      BY <2>2, <3>1, WithoutShape
    <3>3. QED
      BY <3>1, <3>2
  <2>3. ASSUME NEW r \in Req, RemoveSave(r)
        PROVE  \E q \in Req : In(q, "remove", "save") /\ i \in req[q].items
    <3>1. PICK j \in req[r].items : page' = Without(r, kind[j], {j})
      BY <2>3 DEF RemoveSave
    <3>2. i \in {j}
      BY <2>2, <2>3, <3>1 DEF RemoveSave, Conflict, Replacing
    <3>3. QED
      BY <2>3, <3>1, <3>2 DEF RemoveSave
  <2>4. ASSUME NEW r \in Req, ExpireEventsSave(r)
        PROVE  FALSE
    <3> DEFINE gone == Held(req[r].seen, "events") \cap expired
    <3>1. page' = Without(r, "events", gone)
      BY <2>4 DEF ExpireEventsSave
    <3>2. i \in gone
      BY <2>2, <2>4, <3>1 DEF ExpireEventsSave, Conflict, Replacing
    <3>3. QED
      BY <3>2
  <2>5. ASSUME NEW r \in Req, AddSave(r)
        PROVE  FALSE
    <3> DEFINE status == IF req[r].op = "film" THEN "processing" ELSE "ready"
    <3>1. PICK j \in req[r].items : page' = [page EXCEPT !.items[j] = status]
      BY <2>5 DEF AddSave
    <3>2. status \in Status /\ status # "absent"
      BY DEF Status
    <3>3. j \in Item
      BY <2>5 DEF AddSave, In, TypeOK, Request
    <3> HIDE DEF status
    <3>4. page'.items[i] = IF i = j THEN status ELSE page.items[i]
      BY <3>1, <3>2, <3>3, StatusShape
    <3>5. QED
      BY <3>2, <3>4
  <2>6. ASSUME NEW r \in Req, LogoSave(r)
        PROVE  FALSE
    <3>1. page'.items = page.items
      BY <2>6 DEF LogoSave, TypeOK, Page
    <3>2. QED
      BY <3>1
  <2>7. ASSUME NEW j \in Item, NEW status \in Status \ {"absent"}, page' = Marked(j, status)
        PROVE  FALSE
    BY <2>7, MarkedShape
  <2>8. ASSUME NEW j \in Item, MarkReady(j) \/ JobFails(j)
        PROVE  FALSE
    BY <2>7, <2>8 DEF MarkReady, JobFails, Status
  <2>9. CASE ExpireStories
    <3> DEFINE f == [j \in Item |-> IF j \in expired /\ kind[j] = "stories" THEN "absent"
                                    ELSE page.items[j]]
    <3>1. page' = [page EXCEPT !.items = f] /\ page'.items = f
      BY <2>9 DEF ExpireStories, TypeOK, Page
    <3>2. f[i] = page.items[i]
      OBVIOUS
    <3>3. QED
      BY <3>1, <3>2
  <2>10. QED
    BY <2>1, <2>3, <2>4, <2>5, <2>6, <2>8, <2>9
       DEF Next, Remove, Add, SetLogo, RemoveLogo, ExpireEvents, Enqueue, Tidy, LogoTidy, Fails,
           Age, Transcode, Stalls
<1>2. QED
  BY <1>1, Invariance, PTL DEF Spec, NothingLost
==================================================================================
