---------------------------- MODULE Posts_proofs ----------------------------
(***************************************************************************)
(* The invariants of Posts for every number of posts, requests and         *)
(* readers: the rows and the requests in progress first, then the pages.   *)
(***************************************************************************)
EXTENDS Posts, FiniteSetTheorems, WellFoundedInduction, TLAPS

(* A set of naturals has a least element.                                  *)
LEMMA NatMinimum ==
    ASSUME NEW S \in SUBSET Nat, S # {}
    PROVE  \E p \in S : \A q \in S : p <= q
<1>0. \A p \in S : p \in Nat
    OBVIOUS
<1> DEFINE R == OpToRel(<, Nat)
<1>1. \A p, q \in Nat : <<q, p>> \in R <=> q < p
    BY DEF OpToRel
<1>2. IsWellFoundedOn(R, Nat)
    BY NatLessThanWellFounded
<1> HIDE DEF R
<1>3. \E p \in S : \A q \in S : ~(<<q, p>> \in R)
    BY <1>2, WFMin
<1>4. PICK p \in S : \A q \in S : ~(<<q, p>> \in R)
    BY <1>3
<1>5. \A q \in S : ~(q < p)
    BY <1>0, <1>1, <1>4
<1>6. \A q \in S : p <= q
    BY <1>0, <1>5
<1> QED
    BY <1>6

LEMMA PostIsNat == \A p \in Post : p \in Nat /\ 1 <= p /\ p <= MaxPosts
    BY PostsAssumption DEF Post

(* A set of posts has a newest one.                                        *)
LEMMA PostMaximum ==
    ASSUME NEW S \in SUBSET Post, S # {}
    PROVE  \E p \in S : \A q \in S : q <= p
<1> DEFINE T == {MaxPosts - p : p \in S}
<1>0. MaxPosts \in Nat /\ \A p \in S : p \in Nat /\ p <= MaxPosts
    BY PostsAssumption, PostIsNat
<1>1. T \in SUBSET Nat /\ T # {}
  <2>1. \A p \in S : MaxPosts - p \in Nat
    BY <1>0
  <2> QED
    BY <2>1
<1>2. PICK t \in T : \A s \in T : t <= s
    BY <1>1, NatMinimum
<1>3. PICK p \in S : t = MaxPosts - p
    BY <1>2
<1>4. \A q \in S : MaxPosts - p <= MaxPosts - q
    BY <1>2, <1>3
<1> QED
    BY <1>0, <1>3, <1>4

LEMMA PostsFinite ==
    \A S \in SUBSET Post : IsFiniteSet(S)
<1>1. IsFiniteSet(Post)
    BY PostsAssumption, FS_Interval DEF Post
<1> QED
    BY <1>1, FS_Subset

(* A page has no holes: what is newer than one of its posts is in it too.  *)
LEMMA PageHasNoHoles ==
    ASSUME NEW S \in SUBSET Post, NEW limit \in Nat,
           NEW p \in Newest(S, limit), NEW q \in S, q > p
    PROVE  q \in Newest(S, limit)
<1> DEFINE Above(x) == {y \in S : y > x}
<1>1. p \in S /\ Cardinality(Above(p)) < limit
    BY DEF Newest
<1>2. Above(q) \subseteq Above(p) /\ IsFiniteSet(Above(p))
  <2>1. \A y \in S : y \in Nat
    BY PostIsNat
  <2>2. \A y \in S : y > q => y > p
    BY <2>1, <1>1
  <2>3. Above(p) \in SUBSET Post
    OBVIOUS
  <2> QED
    BY <2>2, <2>3, PostsFinite
<1>3. Cardinality(Above(q)) <= Cardinality(Above(p))
    BY <1>2, FS_Subset
<1>4. Cardinality(Above(p)) \in Nat /\ Cardinality(Above(q)) \in Nat
    BY <1>2, FS_Subset, FS_CardinalityType
<1>5. Cardinality(Above(q)) < limit
    BY <1>1, <1>3, <1>4
<1> QED
    BY <1>5 DEF Newest

(* A page is empty only if there is nothing to show.                       *)
LEMMA PageNotEmpty ==
    ASSUME NEW S \in SUBSET Post, S # {}, NEW limit \in Nat \ {0}
    PROVE  Newest(S, limit) # {}
<1>1. PICK p \in S : \A q \in S : q <= p
    BY PostMaximum
<1>2. {q \in S : q > p} = {}
  <2>1. \A q \in S : q \in Nat
    BY PostIsNat
  <2> QED
    BY <1>1, <2>1
<1>3. Cardinality({q \in S : q > p}) < limit
    BY <1>2, FS_EmptySet
<1> QED
    BY <1>3 DEF Newest

(* next_before is the oldest post of a page that has one.                  *)
LEMMA NextBeforeIsOldest ==
    ASSUME NEW page \in SUBSET Post, page # {}, NEW before
    PROVE  /\ NextBefore(page, before) \in page
           /\ \A q \in page : NextBefore(page, before) <= q
<1>1. \E p \in page : \A q \in page : p <= q
    BY NatMinimum DEF Post
<1> QED
    BY <1>1 DEF NextBefore
-----------------------------------------------------------------------------
(* An id is drawn once and its row is written once.                        *)
IdsDrawnOnce ==
    /\ \A p \in Post : Stored(p) => p < nextId
    /\ \A r \in Req : At(r, "commit") =>
          /\ req[r].post \in Post
          /\ req[r].post < nextId
          /\ ~Stored(req[r].post)
    /\ \A r, s \in Req : At(r, "commit") /\ At(s, "commit") /\ r # s =>
          req[r].post # req[s].post

(* What a request has tested still holds when it relies on it.             *)
TestsHold ==
    \A r \in Req :
        /\ req[r].pc \in {"tagged", "insert", "commit"} =>
              req[r].group \in Group /\ req[r].user \in members[req[r].group]
        /\ At(r, "tagged") => req[r].tagged \in User
        /\ req[r].pc \in {"insert", "commit"} =>
              req[r].tagged \in members[req[r].group] \cup {None}
        /\ At(r, "update") =>
              /\ req[r].post \in Post
              /\ Stored(req[r].post)
              /\ post[req[r].post].author = req[r].user
              /\ req[r].meant \in Meant

Written == TypeOK /\ IdsDrawnOnce /\ TestsHold /\ WrittenInside

(* A reader in the middle of the feed: nobody's while it asks for the      *)
(* first page; no post shown is older than the cursor; what is due is      *)
(* visible.                                                                *)
Paged(c) ==
    LET d == reader[c] IN
    /\ d.pc \in {"first", "list_first", "next", "list"} =>
          d.user \in User /\ d.group \in Group /\ d.limit \in Nat \ {0}
    /\ d.pc \in {"first", "list_first"} =>
          d.older = {} /\ d.page = {} /\ d.due = {}
    /\ d.pc \in {"list_first", "list"} => IsMember(d.group, d.user)
    /\ d.pc \in {"next", "list"} =>
          d.before >= 1 /\ \A p \in d.older \cup d.page : p >= d.before
    /\ \A p \in d.due :
          Stored(p) /\ post[p].status = "visible" /\ post[p].group = d.group

ReadersPaged == \A c \in Reader : Paged(c)
-----------------------------------------------------------------------------
LEMMA RowIsNoNoPost == \A x \in Row : x # NoPost /\ x.group \in Group
    BY PostsAssumption DEF Row, NoPost

(* The rows that a statement changes stay rows of the same group, author   *)
(* and tagged person, and no row comes or goes.                            *)
SameRows ==
    /\ post' \in [Post -> Row \cup {NoPost}]
    /\ \A p \in Post :
          /\ Stored(p)' <=> Stored(p)
          /\ post'[p].group = post[p].group
          /\ post'[p].author = post[p].author
          /\ post'[p].tagged = post[p].tagged

LEMMA JudgeKeepsRows ==
    ASSUME TypeOK, NEW p \in Post, NEW s \in Status, Judge(p, s)
    PROVE  SameRows
<1>1. post[p] \in Row
    BY DEF TypeOK, Judge, Stored
<1>2. [post[p] EXCEPT !.status = s] \in Row
    BY <1>1 DEF Row
<1>3. post' = [post EXCEPT ![p] = [post[p] EXCEPT !.status = s]]
    BY DEF Judge
<1>4. post' \in [Post -> Row \cup {NoPost}]
    BY <1>2, <1>3 DEF TypeOK
<1>5. ASSUME NEW q \in Post
      PROVE  /\ Stored(q)' <=> Stored(q)
             /\ post'[q].group = post[q].group
             /\ post'[q].author = post[q].author
             /\ post'[q].tagged = post[q].tagged
  <2>1. CASE q # p
    BY <1>3, <2>1 DEF TypeOK, Stored
  <2>2. CASE q = p
    <3>1. post'[p] = [post[p] EXCEPT !.status = s]
        BY <1>3 DEF TypeOK
    <3>2. post'[p] # NoPost /\ post[p] # NoPost
        BY <1>1, <1>2, <3>1, RowIsNoNoPost
    <3> QED
        BY <1>1, <2>2, <3>1, <3>2 DEF Row, Stored
  <2> QED
    BY <2>1, <2>2
<1> QED
    BY <1>4, <1>5 DEF SameRows

LEMMA UpdateKeepsRows ==
    ASSUME TypeOK, TestsHold, NEW r \in Req, UpdateMeant(r)
    PROVE  SameRows
<1> DEFINE p == req[r].post
           x == [post[p] EXCEPT !.meant = req[r].meant,
                                !.kind = Coalesce(req[r].kind, @)]
<1>1. p \in Post /\ post[p] \in Row /\ req[r].meant \in Meant
    BY DEF TypeOK, TestsHold, UpdateMeant, Stored
<1>2. Coalesce(req[r].kind, post[p].kind) \in Kind \cup {None}
    BY <1>1 DEF Coalesce, TypeOK, Request, Row
<1>3. x \in Row
    BY <1>1, <1>2 DEF Row
<1>4. post' = [post EXCEPT ![p] = x]
    BY DEF UpdateMeant
<1>5. post' \in [Post -> Row \cup {NoPost}]
    BY <1>1, <1>3, <1>4 DEF TypeOK
<1>6. ASSUME NEW q \in Post
      PROVE  /\ Stored(q)' <=> Stored(q)
             /\ post'[q].group = post[q].group
             /\ post'[q].author = post[q].author
             /\ post'[q].tagged = post[q].tagged
  <2>1. CASE q # p
    BY <1>4, <2>1 DEF TypeOK, Stored
  <2>2. CASE q = p
    <3>1. post'[p] = x
        BY <1>1, <1>4 DEF TypeOK
    <3>2. post'[p] # NoPost /\ post[p] # NoPost
        BY <1>1, <1>3, <3>1, RowIsNoNoPost
    <3> QED
        BY <1>1, <2>2, <3>1, <3>2 DEF Row, Stored
  <2> QED
    BY <2>1, <2>2
<1> QED
    BY <1>5, <1>6 DEF SameRows

(* The insert fills an empty row and leaves all others alone.              *)
LEMMA CommitAddsRow ==
    ASSUME TypeOK, IdsDrawnOnce, TestsHold, NEW r \in Req, CreateCommit(r)
    PROVE  /\ CreateRow(r) \in Row
           /\ req[r].post \in Post
           /\ ~Stored(req[r].post)
           /\ post' \in [Post -> Row \cup {NoPost}]
           /\ post'[req[r].post] = CreateRow(r)
           /\ \A q \in Post : q # req[r].post => post'[q] = post[q]
<1>1. At(r, "commit") /\ req[r] \in Request
    BY DEF CreateCommit, TypeOK
<1>2. /\ req[r].group \in Group
      /\ members[req[r].group] \subseteq User
      /\ req[r].user \in members[req[r].group]
      /\ req[r].tagged \in members[req[r].group] \cup {None}
    BY <1>1 DEF TestsHold, At, TypeOK
<1>3. CreateRow(r) \in Row
    BY <1>1, <1>2 DEF CreateRow, Row, Status, Request
<1>4. req[r].post \in Post /\ ~Stored(req[r].post)
    BY <1>1 DEF IdsDrawnOnce
<1> QED
    BY <1>3, <1>4 DEF CreateCommit, TypeOK
-----------------------------------------------------------------------------
(* Steps that change at most the slot of one request.                      *)
LEMMA JoinKeepsWritten ==
    ASSUME Written, NEW g \in Group, NEW u \in User, Join(g, u)
    PROVE  Written'
<1>1. /\ members' \in [Group -> SUBSET User]
      /\ \A h \in Group : members[h] \subseteq members'[h]
      /\ UNCHANGED <<post, nextId, req, reader>>
    BY DEF Written, TypeOK, Join
<1>2. TypeOK'
    BY <1>1 DEF Written, TypeOK
<1>3. IdsDrawnOnce'
    BY <1>1 DEF Written, IdsDrawnOnce, At, Stored
<1>4. TestsHold'
    BY <1>1 DEF Written, TestsHold, At, Stored
<1>5. WrittenInside'
    BY <1>1, RowIsNoNoPost DEF Written, TypeOK, WrittenInside, Stored
<1> QED
    BY <1>2, <1>3, <1>4, <1>5 DEF Written

(* What the locals x of a request may be after a step that writes no row.  *)
MayHold(x) ==
    /\ x \in Request
    /\ x.pc = "commit" => /\ x.post \in Post
                          /\ x.post = nextId /\ nextId < nextId'
    /\ x.pc \in {"tagged", "insert", "commit"} =>
          x.group \in Group /\ x.user \in members[x.group]
    /\ x.pc = "tagged" => x.tagged \in User
    /\ x.pc \in {"insert", "commit"} => x.tagged \in members[x.group] \cup {None}
    /\ x.pc = "update" => /\ x.post \in Post
                          /\ Stored(x.post)
                          /\ post[x.post].author = x.user
                          /\ x.meant \in Meant

SlotBecomes(r, x) ==
    /\ req' = [req EXCEPT ![r] = x]
    /\ UNCHANGED <<members, post, reader>>
    /\ nextId' \in 1..(MaxPosts + 1)
    /\ nextId <= nextId'

LEMMA SlotKeepsWritten ==
    ASSUME Written, NEW r \in Req, NEW x, MayHold(x), SlotBecomes(r, x)
    PROVE  Written'
<1> USE DEF MayHold, SlotBecomes
<1>1. /\ req' \in [Req -> Request]
      /\ req'[r] = x
      /\ \A s \in Req : s # r => req'[s] = req[s]
    BY DEF Written, TypeOK
<1>2. nextId \in Int /\ nextId' \in Int /\ \A p \in Post : p \in Int
    BY PostIsNat DEF Written, TypeOK
<1>3. TypeOK'
    BY <1>1 DEF Written, TypeOK
<1>4. IdsDrawnOnce'
  <2>1. \A p \in Post : Stored(p)' => p < nextId'
    BY <1>2 DEF Written, IdsDrawnOnce, Stored
  <2>2. ASSUME NEW s \in Req, At(s, "commit")'
        PROVE  /\ req'[s].post \in Post
               /\ req'[s].post < nextId'
               /\ post'[req'[s].post] = NoPost
    <3>1. \A p \in Post : Stored(p) => p # nextId
        BY <1>2 DEF Written, IdsDrawnOnce
    <3>2. CASE s = r
        BY <1>1, <1>2, <2>2, <3>1, <3>2 DEF At, Stored
    <3>3. CASE s # r
      <4>1. req'[s] = req[s] /\ At(s, "commit")
        BY <1>1, <2>2, <3>3 DEF At
      <4>2. req[s].post \in Post /\ req[s].post < nextId /\ post[req[s].post] = NoPost
        BY <4>1 DEF Written, IdsDrawnOnce, Stored
      <4> QED
        BY <1>2, <4>1, <4>2
    <3> QED
        BY <3>2, <3>3
  <2>3. ASSUME NEW s \in Req, NEW t \in Req,
               At(s, "commit")', At(t, "commit")', s # t
        PROVE  req'[s].post # req'[t].post
    <3>1. \A q \in Req : q # r /\ At(q, "commit")' =>
              req'[q].post = req[q].post /\ At(q, "commit") /\ req[q].post < nextId
        BY <1>1 DEF Written, IdsDrawnOnce, At
    <3>2. At(r, "commit")' => req'[r].post = nextId
        BY <1>1 DEF At
    <3>3. \A q \in Req : q # r /\ At(q, "commit")' => req'[q].post # nextId
        BY <1>1, <1>2, <3>1 DEF Written, IdsDrawnOnce
    <3>4. CASE s # r /\ t # r
        BY <2>3, <3>1, <3>4 DEF Written, IdsDrawnOnce
    <3>5. CASE s = r
        BY <2>3, <3>2, <3>3, <3>5
    <3>6. CASE t = r
        BY <2>3, <3>2, <3>3, <3>6
    <3> QED
        BY <3>4, <3>5, <3>6
  <2> QED
    BY <2>1, <2>2, <2>3 DEF IdsDrawnOnce, At, Stored
<1>5. TestsHold'
  <2> DEFINE Holds(y) ==
        /\ y.pc \in {"tagged", "insert", "commit"} =>
              y.group \in Group /\ y.user \in members[y.group]
        /\ y.pc = "tagged" => y.tagged \in User
        /\ y.pc \in {"insert", "commit"} =>
              y.tagged \in members[y.group] \cup {None}
        /\ y.pc = "update" => /\ y.post \in Post
                              /\ Stored(y.post)
                              /\ post[y.post].author = y.user
                              /\ y.meant \in Meant
  <2>1. \A s \in Req : Holds(req[s])
    BY DEF Written, TestsHold, At
  <2>2. Holds(x)
    OBVIOUS
  <2>3. \A s \in Req : Holds(req'[s])
    BY <1>1, <2>1, <2>2
  <2> QED
    BY <2>3 DEF TestsHold, At, Stored
<1>6. WrittenInside'
    BY DEF Written, WrittenInside, Stored
<1> QED
    BY <1>3, <1>4, <1>5, <1>6 DEF Written

LEMMA IdleIsRequest == Idle \in Request
    BY DEF Idle, Request

(* A decision of Fidolin.                                                  *)
LEMMA JudgeKeepsWritten ==
    ASSUME Written, NEW p \in Post, NEW s \in Status, Judge(p, s)
    PROVE  Written'
<1>1. SameRows
    BY JudgeKeepsRows DEF Written
<1>2. UNCHANGED <<members, nextId, req>>
    BY DEF Judge
<1>3. reader' \in [Reader -> Paging]
  <2>1. ASSUME NEW c \in Reader
        PROVE  [reader[c] EXCEPT !.due = IF s = "visible" THEN @ ELSE @ \ {p}] \in Paging
    <3>1. reader[c] \in Paging
        BY DEF Written, TypeOK
    <3>2. reader[c].due \in SUBSET Post
        BY <3>1 DEF Paging
    <3>3. (IF s = "visible" THEN reader[c].due ELSE reader[c].due \ {p}) \in SUBSET Post
        BY <3>2
    <3> QED
        BY <3>1, <3>3 DEF Paging
  <2> QED
    BY <2>1 DEF Judge
<1>4. TypeOK'
    BY <1>1, <1>2, <1>3 DEF Written, TypeOK, SameRows
<1>5. IdsDrawnOnce'
    BY <1>1, <1>2 DEF Written, IdsDrawnOnce, At, SameRows, Stored
<1>6. TestsHold'
    BY <1>1, <1>2 DEF Written, TestsHold, At, SameRows, Stored
<1>7. WrittenInside'
    BY <1>1, <1>2 DEF Written, WrittenInside, SameRows, Stored
<1> QED
    BY <1>4, <1>5, <1>6, <1>7 DEF Written

LEMMA CommitKeepsWritten ==
    ASSUME Written, NEW r \in Req, CreateCommit(r)
    PROVE  Written'
<1> DEFINE p == req[r].post
<1>1. /\ CreateRow(r) \in Row
      /\ p \in Post
      /\ ~Stored(p)
      /\ post' \in [Post -> Row \cup {NoPost}]
      /\ post'[p] = CreateRow(r)
      /\ \A q \in Post : q # p => post'[q] = post[q]
    BY CommitAddsRow DEF Written
<1>2. /\ UNCHANGED <<members, nextId, reader>>
      /\ At(r, "commit")
      /\ req' \in [Req -> Request]
      /\ req'[r] = Idle
      /\ \A s \in Req : s # r => req'[s] = req[s]
    BY IdleIsRequest DEF CreateCommit, Return, Written, TypeOK
<1>3. TypeOK'
    BY <1>1, <1>2 DEF Written, TypeOK
<1>4. \A s \in Req : At(s, "commit")' => s # r /\ At(s, "commit")
    BY <1>2 DEF At, Idle
<1>5. IdsDrawnOnce'
  <2>1. \A q \in Post : Stored(q)' => q < nextId'
    BY <1>1, <1>2 DEF Written, IdsDrawnOnce, Stored
  <2>2. \A s \in Req : At(s, "commit")' =>
            /\ req'[s].post \in Post
            /\ req'[s].post < nextId'
            /\ post'[req'[s].post] = NoPost
    BY <1>1, <1>2, <1>4 DEF Written, IdsDrawnOnce, Stored
  <2>3. \A s, t \in Req : At(s, "commit")' /\ At(t, "commit")' /\ s # t =>
            req'[s].post # req'[t].post
    BY <1>2, <1>4 DEF Written, IdsDrawnOnce
  <2> QED
    BY <2>1, <2>2, <2>3 DEF IdsDrawnOnce, At, Stored
<1>6. TestsHold'
  <2>1. \A q \in Post : Stored(q) => Stored(q)' /\ post'[q] = post[q]
    BY <1>1 DEF Stored
  <2>2. \A s \in Req : s # r =>
            req'[s] = req[s] /\ (At(s, "update") => req[s].post \in Post)
    BY <1>2 DEF Written, TestsHold
  <2> QED
    BY <1>2, <2>1, <2>2 DEF Written, TestsHold, At, Idle, Stored
<1>7. WrittenInside'
  <2>1. {CreateRow(r).author, CreateRow(r).tagged}
            \subseteq members[CreateRow(r).group] \cup {None}
    BY <1>2 DEF Written, TestsHold, At, CreateRow
  <2> QED
    BY <1>1, <1>2, <2>1 DEF Written, WrittenInside, Stored
<1> QED
    BY <1>3, <1>5, <1>6, <1>7 DEF Written

LEMMA UpdateKeepsWritten ==
    ASSUME Written, NEW r \in Req, UpdateMeant(r)
    PROVE  Written'
<1>1. SameRows
    BY UpdateKeepsRows DEF Written
<1>2. /\ UNCHANGED <<members, nextId, reader>>
      /\ req' \in [Req -> Request]
      /\ req'[r] = Idle
      /\ \A s \in Req : s # r => req'[s] = req[s]
    BY IdleIsRequest DEF UpdateMeant, Return, Written, TypeOK
<1>3. TypeOK'
    BY <1>1, <1>2 DEF Written, TypeOK, SameRows
<1>4. \A s \in Req : req'[s].pc # "idle" => s # r /\ req'[s] = req[s]
    BY <1>2 DEF Idle
<1>5. IdsDrawnOnce'
    BY <1>1, <1>2, <1>4 DEF Written, IdsDrawnOnce, At, SameRows, Stored
<1>6. TestsHold'
    BY <1>1, <1>2, <1>4 DEF Written, TestsHold, At, SameRows, Stored
<1>7. WrittenInside'
    BY <1>1, <1>2 DEF Written, WrittenInside, SameRows, Stored
<1> QED
    BY <1>3, <1>5, <1>6, <1>7 DEF Written

LEMMA RequestKeepsWritten ==
    ASSUME Written, NEW r \in Req, Handle(r)
    PROVE  Written'
<1>0. req[r] \in Request /\ nextId \in 1..(MaxPosts + 1)
    BY DEF Written, TypeOK
<1>1. nextId \in Int /\ MaxPosts \in Nat
    BY <1>0, PostsAssumption
<1>2. ASSUME Return(r), UNCHANGED <<members, post, nextId, reader>>
      PROVE  Written'
  <2>1. MayHold(Idle)
    BY IdleIsRequest DEF MayHold, Idle
  <2>2. SlotBecomes(r, Idle)
    BY <1>0, <1>1, <1>2 DEF SlotBecomes, Return
  <2> QED
    BY <2>1, <2>2, SlotKeepsWritten
<1>3. ASSUME NEW u \in User, NEW g \in Group, NEW t \in Tags,
             NEW k \in Kind \cup {None}, CreateMember(r, u, g, t, k)
      PROVE  Written'
  <2> DEFINE x == [pc |-> IF t = None THEN "insert" ELSE "tagged", user |-> u,
                   group |-> g, tagged |-> t, kind |-> k, meant |-> None, post |-> 0]
  <2>1. x \in Request /\ (t # None => t \in User)
    BY PostsAssumption DEF Request
  <2>2. req' = [req EXCEPT ![r] = x] /\ u \in members[g]
    BY <1>3 DEF CreateMember, IsMember
  <2>3. UNCHANGED <<members, post, nextId, reader>>
    BY <1>3 DEF CreateMember
  <2> HIDE DEF x
  <2>4. /\ x.pc = "insert" => x.tagged = None
        /\ x.pc = "tagged" => x.tagged \in User
        /\ x.pc \in {"insert", "tagged"}
        /\ x.group = g /\ x.user = u
    BY <2>1 DEF x
  <2>5. MayHold(x)
    BY <2>1, <2>2, <2>4 DEF MayHold
  <2>6. SlotBecomes(r, x)
    BY <1>0, <1>1, <2>2, <2>3 DEF SlotBecomes
  <2> QED
    BY <2>5, <2>6, SlotKeepsWritten
<1>4. ASSUME NEW u \in User, NEW p \in Post, NEW m \in Meant,
             NEW k \in Kind \cup {None}, ConfirmGet(r, u, p, m, k)
      PROVE  Written'
  <2> DEFINE x == [pc |-> "update", user |-> u, group |-> None, tagged |-> None,
                   kind |-> k, meant |-> m, post |-> p]
  <2>1. x \in Request
    BY DEF Request
  <2>2. /\ req' = [req EXCEPT ![r] = x]
        /\ Stored(p) /\ post[p].author = u
        /\ UNCHANGED <<members, post, nextId, reader>>
    BY <1>4 DEF ConfirmGet
  <2>3. MayHold(x)
    BY <2>1, <2>2 DEF MayHold
  <2>4. SlotBecomes(r, x)
    BY <1>0, <1>1, <2>2 DEF SlotBecomes
  <2> QED
    BY <2>3, <2>4, SlotKeepsWritten
<1>5. CASE CreateTagged(r)
  <2>1. CASE Return(r)
    BY <1>2, <1>5, <2>1 DEF CreateTagged
  <2>2. CASE Goto(r, "insert") /\ IsMember(req[r].group, req[r].tagged)
    <3> DEFINE x == [req[r] EXCEPT !.pc = "insert"]
    <3>1. req' = [req EXCEPT ![r] = x] /\ UNCHANGED <<members, post, nextId, reader>>
        BY <1>5, <2>2 DEF Goto, CreateTagged
    <3>2. /\ x \in Request /\ x.pc = "insert"
          /\ x.group = req[r].group /\ x.user = req[r].user /\ x.tagged = req[r].tagged
        BY <1>0 DEF Request
    <3>3. req[r].group \in Group /\ req[r].user \in members[req[r].group]
        BY <1>5 DEF CreateTagged, Written, TestsHold, At
    <3> HIDE DEF x
    <3>4. MayHold(x)
        BY <2>2, <3>2, <3>3 DEF MayHold, IsMember
    <3>5. SlotBecomes(r, x)
        BY <1>0, <1>1, <3>1 DEF SlotBecomes
    <3> QED
        BY <3>4, <3>5, SlotKeepsWritten
  <2> QED
    BY <1>5, <2>1, <2>2 DEF CreateTagged
<1>6. CASE CreateId(r)
  <2> DEFINE x == [req[r] EXCEPT !.pc = "commit", !.post = nextId]
  <2>1. /\ req' = [req EXCEPT ![r] = x]
        /\ UNCHANGED <<members, post, reader>>
        /\ nextId \in Post /\ nextId' = nextId + 1
    BY <1>6 DEF CreateId
  <2>2. /\ x \in Request /\ x.pc = "commit" /\ x.post = nextId
        /\ x.group = req[r].group /\ x.user = req[r].user /\ x.tagged = req[r].tagged
    BY <1>0, <2>1 DEF Request
  <2>3. /\ req[r].group \in Group /\ req[r].user \in members[req[r].group]
        /\ req[r].tagged \in members[req[r].group] \cup {None}
    BY <1>6 DEF CreateId, Written, TestsHold, At
  <2>4. nextId' \in 1..(MaxPosts + 1) /\ nextId < nextId' /\ nextId <= nextId'
    BY <1>1, <2>1 DEF Post
  <2> HIDE DEF x
  <2>5. MayHold(x)
    BY <2>1, <2>2, <2>3, <2>4 DEF MayHold
  <2>6. SlotBecomes(r, x)
    BY <2>1, <2>4 DEF SlotBecomes
  <2> QED
    BY <2>5, <2>6, SlotKeepsWritten
<1>7. CASE RequestFails(r)
    BY <1>2, <1>7 DEF RequestFails
<1> QED
    BY <1>3, <1>4, <1>5, <1>6, <1>7, CommitKeepsWritten, UpdateKeepsWritten
       DEF Handle, Create, ConfirmMeant
-----------------------------------------------------------------------------
(* What a page that is read looks like.                                    *)
LEMMA PageRead ==
    ASSUME TypeOK, NEW g \in Group, NEW before \in Nat, NEW limit \in Nat
    PROVE  LET page == ListFeed(g, before, limit)
               next == NextBefore(page, before)
           IN  /\ Visible(g, before) \in SUBSET Post
               /\ page \in SUBSET Visible(g, before)
               /\ page \in SUBSET Post
               /\ next \in Nat
               /\ next = 0 <=> page = {}
               /\ \A p \in page : p >= next
<1> DEFINE page == ListFeed(g, before, limit)
<1>1. Visible(g, before) \in SUBSET Post /\ page \in SUBSET Visible(g, before)
    BY DEF Visible, ListFeed, Newest
<1>2. page \in SUBSET Post
    BY <1>1
<1> HIDE DEF page
<1>3. CASE page = {}
    BY <1>1, <1>2, <1>3 DEF NextBefore, page
<1>4. CASE page # {}
  <2>1. /\ NextBefore(page, before) \in page
        /\ \A q \in page : NextBefore(page, before) <= q
    BY <1>2, <1>4, NextBeforeIsOldest
  <2>2. \A q \in page : q \in Nat /\ 1 <= q
    BY <1>2, PostIsNat
  <2> QED
    BY <1>1, <1>2, <1>4, <2>1, <2>2 DEF page
<1> QED
    BY <1>3, <1>4

(* If nothing visible below the cursor is left out by a page, nothing is   *)
(* left out above next_before.                                             *)
LEMMA PageLeavesNothingOut ==
    ASSUME TypeOK, NEW g \in Group, NEW before \in Nat, NEW limit \in Nat \ {0},
           NEW p \in Visible(g, before),
           p >= NextBefore(ListFeed(g, before, limit), before)
    PROVE  p \in ListFeed(g, before, limit)
<1> DEFINE S == Visible(g, before)
           page == ListFeed(g, before, limit)
           next == NextBefore(page, before)
<1>1. S \in SUBSET Post /\ S # {} /\ page = Newest(S, limit)
    BY DEF Visible, ListFeed
<1>2. page # {} /\ page \in SUBSET Post
    BY <1>1, PageNotEmpty DEF Newest
<1>3. next \in page
    BY <1>2, NextBeforeIsOldest
<1>4. p \in Nat /\ next \in Nat
    BY <1>1, <1>2, <1>3, PostIsNat
<1>5. CASE p = next
    BY <1>3, <1>5
<1>6. CASE p > next
  <2> HIDE DEF S, page, next
  <2>1. p \in S
    BY DEF S
  <2>2. p \in Newest(S, limit)
    BY <1>1, <1>3, <1>6, <2>1, PageHasNoHoles
  <2> QED
    BY <1>1, <2>2 DEF page
<1> QED
    BY <1>4, <1>5, <1>6

LEMMA FirstRequestTypes ==
    \A b \in Int, l \in Int :
        FirstCursor(b) \in Nat /\ FeedLimit(l) \in Nat \ {0}
    BY PostsAssumption DEF FirstCursor, FeedLimit

(* The reader c after a step of its own.                                   *)
LEMMA ReaderSteps ==
    ASSUME TypeOK, ReadersPaged, NEW c \in Reader, Read(c)
    PROVE  /\ reader' \in [Reader -> Paging]
           /\ \A e \in Reader : e # c => reader'[e] = reader[e]
           /\ UNCHANGED <<members, post, nextId, req>>
<1>0. UNCHANGED <<members, post, nextId, req>>
    BY DEF Read, FeedOpen, FeedMember, FeedList, FeedFails
<1>1. reader[c] \in Paging
    BY DEF TypeOK
<1>2. ASSUME NEW x \in Paging, reader' = [reader EXCEPT ![c] = x]
      PROVE  /\ reader' \in [Reader -> Paging]
             /\ \A e \in Reader : e # c => reader'[e] = reader[e]
    BY <1>2 DEF TypeOK
<1>3. ASSUME NEW u \in User, NEW g \in Group, NEW b \in Cursors, NEW l \in Limits,
             FeedOpen(c, u, g, b, l)
      PROVE  reader' \in [Reader -> Paging] /\ \A e \in Reader : e # c => reader'[e] = reader[e]
  <2>1. FirstCursor(b) \in Nat /\ FeedLimit(l) \in Nat
    BY FirstRequestTypes, PostsAssumption
  <2>2. [Closed EXCEPT !.pc = "first", !.user = u, !.group = g,
            !.before = FirstCursor(b), !.limit = FeedLimit(l)] \in Paging
    BY <2>1 DEF Closed, Paging
  <2> QED
    BY <1>2, <1>3, <2>2 DEF FeedOpen
<1>4. CASE FeedMember(c)
  <2>1. \A pc \in {"closed", "list_first", "list"} : [reader[c] EXCEPT !.pc = pc] \in Paging
    BY <1>1 DEF Paging
  <2>2. \E pc \in {"closed", "list_first", "list"} :
            reader' = [reader EXCEPT ![c] = [reader[c] EXCEPT !.pc = pc]]
    BY <1>4 DEF FeedMember
  <2> QED
    BY <1>0, <1>2, <2>1, <2>2
<1>5. CASE FeedFails(c)
  <2>1. \A pc \in {"first", "next"} : [reader[c] EXCEPT !.pc = pc] \in Paging
    BY <1>1 DEF Paging
  <2>2. \E pc \in {"first", "next"} :
            reader' = [reader EXCEPT ![c] = [reader[c] EXCEPT !.pc = pc]]
    BY <1>5 DEF FeedFails
  <2> QED
    BY <1>0, <1>2, <2>1, <2>2
<1>6. CASE FeedList(c)
  <2> DEFINE d == reader[c]
             page == ListFeed(d.group, d.before, d.limit)
             next == NextBefore(page, d.before)
             due == IF d.pc = "list" THEN d.due ELSE Visible(d.group, d.before)
             pc == IF next = 0 THEN "done" ELSE "next"
  <2>1. d.group \in Group /\ d.before \in Nat /\ d.limit \in Nat
    BY <1>1, <1>6 DEF FeedList, ReadersPaged, Paged, Paging
  <2>2. page \in SUBSET Post /\ next \in Nat /\ Visible(d.group, d.before) \in SUBSET Post
    BY <2>1, PageRead
  <2>3. reader' = [reader EXCEPT ![c] = [d EXCEPT
            !.pc = pc, !.before = next, !.older = d.older \cup d.page,
            !.page = page, !.due = due]]
    BY <1>6 DEF FeedList
  <2>4. due \in SUBSET Post /\ pc \in {"done", "next"}
        /\ d.older \cup d.page \in SUBSET Post
    BY <1>1, <2>2 DEF Paging
  <2> HIDE DEF page, next, due, pc
  <2>5. [d EXCEPT !.pc = pc, !.before = next, !.older = d.older \cup d.page,
            !.page = page, !.due = due] \in Paging
    BY <1>1, <2>2, <2>4 DEF Paging
  <2> QED
    BY <1>0, <1>2, <2>3, <2>5
<1> QED
    BY <1>3, <1>4, <1>5, <1>6, <1>0 DEF Read

LEMMA ReadKeepsWritten ==
    ASSUME Written, ReadersPaged, NEW c \in Reader, Read(c)
    PROVE  Written'
<1>1. reader' \in [Reader -> Paging] /\ UNCHANGED <<members, post, nextId, req>>
    BY ReaderSteps DEF Written
<1>2. TypeOK'
    BY <1>1 DEF Written, TypeOK
<1>3. IdsDrawnOnce' /\ TestsHold' /\ WrittenInside'
    BY <1>1 DEF Written, IdsDrawnOnce, TestsHold, WrittenInside, At, Stored
<1> QED
    BY <1>2, <1>3 DEF Written
-----------------------------------------------------------------------------
Shown == NothingMissed /\ PagesDescend

(* Readers are undisturbed by steps that take no post out of sight and     *)
(* nobody out of a group.                                                  *)
LEMMA OthersKeepPages ==
    ASSUME Written, ReadersPaged, Shown,
           UNCHANGED reader,
           \A g \in Group : members[g] \subseteq members'[g],
           \A p \in Post : Stored(p) => /\ Stored(p)'
                                        /\ post'[p].status = post[p].status
                                        /\ post'[p].group = post[p].group
    PROVE  ReadersPaged' /\ Shown'
<1>1. \A c \in Reader : reader[c] \in Paging /\ reader'[c] = reader[c]
    BY DEF Written, TypeOK
<1>2. ReadersPaged'
  <2> SUFFICES ASSUME NEW c \in Reader PROVE Paged(c)'
    BY DEF ReadersPaged
  <2>1. Paged(c) /\ reader[c].due \in SUBSET Post
    BY <1>1 DEF ReadersPaged, Paging
  <2>2. reader[c].pc \in {"list_first", "list"} => reader[c].group \in Group
    BY <2>1 DEF Paged
  <2> QED
    BY <1>1, <2>1, <2>2 DEF Paged, IsMember
<1>3. Shown'
    BY <1>1 DEF Shown, NothingMissed, PagesDescend
<1> QED
    BY <1>2, <1>3

LEMMA JudgeKeepsPages ==
    ASSUME Written, ReadersPaged, Shown, NEW p \in Post, NEW s \in Status, Judge(p, s)
    PROVE  ReadersPaged' /\ Shown'
<1>1. SameRows
    BY JudgeKeepsRows DEF Written
<1>2. /\ \A q \in Post : q # p => post'[q] = post[q]
      /\ post'[p].status = s
    <2>1. post[p] \in Row
        BY DEF Written, TypeOK, Judge, Stored
    <2> QED
        BY <2>1 DEF Judge, Written, TypeOK, Row
<1>3. ASSUME NEW c \in Reader
      PROVE  /\ reader[c] \in Paging
             /\ reader'[c] = [reader[c] EXCEPT !.due =
                    IF s = "visible" THEN @ ELSE @ \ {p}]
    BY DEF Judge, Written, TypeOK
<1>4. ASSUME NEW c \in Reader
      PROVE  LET d == reader[c] e == reader'[c] IN
             /\ e.pc = d.pc /\ e.user = d.user /\ e.group = d.group
             /\ e.limit = d.limit /\ e.before = d.before
             /\ e.older = d.older /\ e.page = d.page
             /\ e.due \subseteq d.due
             /\ s = "visible" \/ p \notin e.due
  <2> DEFINE d == reader[c]
             due == IF s = "visible" THEN d.due ELSE d.due \ {p}
  <2>1. d \in Paging /\ reader'[c] = [d EXCEPT !.due = due]
    BY <1>3
  <2>2. due \subseteq d.due /\ (s = "visible" \/ p \notin due)
    OBVIOUS
  <2> HIDE DEF due
  <2> QED
    BY <2>1, <2>2 DEF Paging
<1>5. ReadersPaged'
  <2> SUFFICES ASSUME NEW c \in Reader PROVE Paged(c)'
    BY DEF ReadersPaged
  <2>1. Paged(c) /\ reader[c].due \in SUBSET Post
    BY <1>3 DEF ReadersPaged, Paging
  <2>2. \A q \in reader'[c].due :
            Stored(q)' /\ post'[q].status = "visible" /\ post'[q].group = reader'[c].group
    BY <1>1, <1>2, <1>4, <2>1 DEF Paged, SameRows
  <2>3. UNCHANGED members
    BY DEF Judge
  <2>4. /\ reader'[c].pc \in {"first", "list_first"} => reader'[c].due = {}
        /\ reader'[c].pc \in {"list_first", "list"} =>
              IsMember(reader'[c].group, reader'[c].user)
    BY <1>4, <2>1 DEF Paged
  <2> QED
    BY <1>4, <2>1, <2>2, <2>3, <2>4 DEF Paged, IsMember
<1>6. Shown'
    BY <1>4 DEF Shown, NothingMissed, PagesDescend
<1> QED
    BY <1>5, <1>6

(* The reader's own steps.                                                 *)
LEMMA ReadKeepsPages ==
    ASSUME Written, ReadersPaged, Shown, NEW c \in Reader, Read(c)
    PROVE  ReadersPaged' /\ Shown'
<1> DEFINE d == reader[c]
           e == reader'[c]
           Fine == /\ Paged(c)'
                   /\ \A p \in e.due : p >= e.before => p \in e.older \cup e.page
                   /\ \A p \in e.page, q \in e.older : p < q
<1>1. /\ \A x \in Reader : x # c => reader'[x] = reader[x]
      /\ UNCHANGED <<members, post, nextId, req>>
    BY ReaderSteps DEF Written
<1>2. /\ d \in Paging
      /\ Paged(c)
      /\ \A p \in d.due : p >= d.before => p \in d.older \cup d.page
      /\ \A p \in d.page, q \in d.older : p < q
    BY DEF Written, TypeOK, ReadersPaged, Shown, NothingMissed, PagesDescend
<1>3. ASSUME NEW u \in User, NEW g \in Group, NEW b \in Cursors, NEW l \in Limits,
             FeedOpen(c, u, g, b, l)
      PROVE  Fine
  <2>1. FeedLimit(l) \in Nat \ {0}
    BY FirstRequestTypes, PostsAssumption
  <2>2. /\ e.pc = "first" /\ e.user = u /\ e.group = g /\ e.limit = FeedLimit(l)
        /\ e.older = {} /\ e.page = {} /\ e.due = {}
    BY <1>3 DEF FeedOpen, Closed, Written, TypeOK
  <2> QED
    BY <2>1, <2>2 DEF Paged
<1>4. ASSUME FeedMember(c)
      PROVE  Fine
  <2>1. PICK pc \in {"closed", "list_first", "list"} :
            /\ reader' = [reader EXCEPT ![c].pc = pc]
            /\ pc = "list_first" => d.pc = "first"
            /\ pc = "list" => d.pc = "next"
            /\ pc # "closed" => IsMember(d.group, d.user)
            /\ d.pc \in {"first", "next"}
    BY <1>4 DEF FeedMember
  <2>2. /\ e.pc = pc /\ e.user = d.user /\ e.group = d.group /\ e.limit = d.limit
        /\ e.before = d.before /\ e.older = d.older /\ e.page = d.page
        /\ e.due = d.due
    BY <1>2, <2>1 DEF Written, TypeOK, Paging
  <2> QED
    BY <1>1, <1>2, <2>1, <2>2 DEF Paged, IsMember, Stored
<1>5. ASSUME FeedFails(c)
      PROVE  Fine
  <2>1. PICK pc \in {"first", "next"} :
            /\ reader' = [reader EXCEPT ![c].pc = pc]
            /\ pc = "first" => d.pc = "list_first"
            /\ pc = "next" => d.pc = "list"
    BY <1>5 DEF FeedFails
  <2>2. /\ e.pc = pc /\ e.user = d.user /\ e.group = d.group /\ e.limit = d.limit
        /\ e.before = d.before /\ e.older = d.older /\ e.page = d.page
        /\ e.due = d.due
    BY <1>2, <2>1 DEF Written, TypeOK, Paging
  <2> QED
    BY <1>1, <1>2, <2>1, <2>2 DEF Paged, IsMember, Stored
<1>6. ASSUME FeedList(c)
      PROVE  Fine
  <2> DEFINE page == ListFeed(d.group, d.before, d.limit)
             next == NextBefore(page, d.before)
             V == Visible(d.group, d.before)
  <2>0. d.pc \in {"list_first", "list"}
    BY <1>6 DEF FeedList
  <2>1. d.user \in User /\ d.group \in Group /\ d.before \in Nat /\ d.limit \in Nat \ {0}
    BY <1>2, <2>0 DEF Paged, Paging
  <2>2. /\ V \in SUBSET Post /\ page \in SUBSET V
        /\ next \in Nat /\ (next = 0 <=> page = {}) /\ \A p \in page : p >= next
    BY <2>1, PageRead DEF Written
  <2>3. \A p \in V : p >= next => p \in page
    BY <2>1, PageLeavesNothingOut DEF Written
  <2>4. \A p \in V : /\ p \in Nat /\ Stored(p) /\ post[p].status = "visible"
                     /\ post[p].group = d.group
                     /\ d.before = 0 \/ p < d.before
    BY <2>1, PostIsNat, PostsAssumption DEF Visible, Before, Stored, NoPost
  <2>5. d.due \in SUBSET Post /\ \A p \in d.due :
            p \in Nat /\ (d.before > p => p \in V)
    BY <1>2, <2>1, PostIsNat DEF Paged, Paging, Visible, Before
  <2>6. /\ e.pc = IF next = 0 THEN "done" ELSE "next"
        /\ e.user = d.user /\ e.group = d.group /\ e.limit = d.limit
        /\ e.before = next /\ e.older = d.older \cup d.page /\ e.page = page
        /\ e.due = IF d.pc = "list" THEN d.due ELSE V
    BY <1>2, <1>6 DEF FeedList, Written, TypeOK, Paging
  <2> HIDE DEF page, next, V
  <2>7. \A p \in e.older : p \in Nat /\ d.pc = "list" /\ d.before >= 1 /\ p >= d.before
    BY <1>2, <2>0, <2>6, PostIsNat DEF Paged, Paging
  <2>8. \A p \in e.page, q \in e.older : p < q
    BY <2>1, <2>2, <2>4, <2>6, <2>7
  <2>9. \A p \in e.due : p >= e.before => p \in e.older \cup e.page
    BY <1>2, <2>0, <2>1, <2>2, <2>3, <2>5, <2>6
  <2>10. Paged(c)'
    <3>1. e.pc = "next" => e.before >= 1 /\ \A p \in e.older \cup e.page : p >= e.before
      <4> SUFFICES ASSUME next # 0 PROVE next >= 1 /\ \A p \in e.older \cup page : p >= next
        BY <2>6
      <4>1. PICK q \in page : TRUE
        BY <2>2
      <4>2. q >= next /\ q \in Nat
        BY <2>2, <2>4
      <4>3. \A p \in e.older : q < p
        BY <2>6, <2>8
      <4>4. \A p \in e.older : p >= next
        BY <2>2, <2>7, <4>2, <4>3
      <4>5. next >= 1 /\ \A p \in page : p >= next
        BY <2>2
      <4> QED
        BY <4>4, <4>5
    <3>2. \A p \in e.due :
              Stored(p)' /\ post'[p].status = "visible" /\ post'[p].group = e.group
        BY <1>1, <1>2, <2>4, <2>6 DEF Paged, Stored
    <3>3. e.pc \in {"next", "done"} /\ e.user \in User /\ e.group \in Group
          /\ e.limit \in Nat \ {0}
        BY <2>1, <2>6
    <3> QED
        BY <3>1, <3>2, <3>3 DEF Paged
  <2> QED
    BY <2>8, <2>9, <2>10
<1> HIDE DEF Fine
<1>7. Fine
    BY <1>3, <1>4, <1>5, <1>6 DEF Read
<1> USE DEF Fine
<1>8. ReadersPaged'
  <2>1. ASSUME NEW x \in Reader, x # c PROVE Paged(x)'
    BY <1>1, <2>1 DEF ReadersPaged, Paged, IsMember, Stored
  <2> QED
    BY <1>7, <2>1 DEF ReadersPaged
<1>9. Shown'
    BY <1>1, <1>7 DEF Shown, NothingMissed, PagesDescend
<1> QED
    BY <1>8, <1>9

(* Requests add rows and change what was meant, not what is shown.         *)
LEMMA RequestKeepsPages ==
    ASSUME Written, ReadersPaged, Shown, NEW r \in Req, Handle(r)
    PROVE  ReadersPaged' /\ Shown'
<1>1. UNCHANGED <<members, reader>>
    BY DEF Handle, Create, ConfirmMeant, CreateMember, CreateTagged, CreateId, CreateCommit, ConfirmGet,
           UpdateMeant, RequestFails
<1>2. \A p \in Post : Stored(p) => /\ Stored(p)'
                                   /\ post'[p].status = post[p].status
                                   /\ post'[p].group = post[p].group
  <2>1. ASSUME CreateCommit(r)
        PROVE  \A p \in Post : Stored(p) => post'[p] = post[p]
    BY <2>1, CommitAddsRow DEF Written, Stored
  <2>2. ASSUME UpdateMeant(r)
        PROVE  SameRows /\ \A p \in Post : Stored(p) => post'[p].status = post[p].status
    <3>1. SameRows
        BY <2>2, UpdateKeepsRows DEF Written
    <3>2. \A p \in Post : Stored(p) => post[p] \in Row
        BY DEF Written, TypeOK, Stored
    <3> QED
        BY <2>2, <3>1, <3>2 DEF UpdateMeant, Written, TypeOK, Row
  <2>3. CreateCommit(r) \/ UpdateMeant(r) \/ UNCHANGED post
    BY DEF Handle, Create, ConfirmMeant, CreateMember, CreateTagged, CreateId, ConfirmGet, RequestFails
  <2> QED
    BY <2>1, <2>2, <2>3 DEF SameRows, Stored
<1> QED
    BY <1>1, <1>2, OthersKeepPages

LEMMA JoinKeepsPages ==
    ASSUME Written, ReadersPaged, Shown, NEW g \in Group, NEW u \in User, Join(g, u)
    PROVE  ReadersPaged' /\ Shown'
<1>1. /\ \A h \in Group : members[h] \subseteq members'[h]
      /\ UNCHANGED <<post, reader>>
    BY DEF Join, Written, TypeOK
<1> QED
    BY <1>1, OthersKeepPages DEF Stored
-----------------------------------------------------------------------------
Consistent == Written /\ ReadersPaged /\ Shown

LEMMA InitConsistent == Init => Consistent
<1> SUFFICES ASSUME Init PROVE Consistent
    OBVIOUS
<1>1. 1 \in 1..(MaxPosts + 1)
    BY PostsAssumption
<1>2. TypeOK
    BY <1>1, IdleIsRequest DEF Init, TypeOK, Closed, Paging
<1>3. IdsDrawnOnce /\ TestsHold /\ WrittenInside
    BY DEF Init, IdsDrawnOnce, TestsHold, WrittenInside, At, Idle, Stored
<1>4. ReadersPaged /\ Shown
    BY DEF Init, ReadersPaged, Paged, Shown, NothingMissed, PagesDescend, Closed
<1> QED
    BY <1>2, <1>3, <1>4 DEF Consistent, Written

LEMMA StepConsistent == Consistent /\ [Next]_vars => Consistent'
<1> SUFFICES ASSUME Consistent, [Next]_vars PROVE Consistent'
    OBVIOUS
<1> USE DEF Consistent
<1>1. ASSUME NEW g \in Group, NEW u \in User, Join(g, u) PROVE Consistent'
    BY <1>1, JoinKeepsWritten, JoinKeepsPages
<1>2. ASSUME NEW p \in Post, NEW s \in Status, Judge(p, s) PROVE Consistent'
    BY <1>2, JudgeKeepsWritten, JudgeKeepsPages
<1>3. ASSUME NEW r \in Req, Handle(r) PROVE Consistent'
    BY <1>3, RequestKeepsWritten, RequestKeepsPages
<1>4. ASSUME NEW c \in Reader, Read(c) PROVE Consistent'
    BY <1>4, ReadKeepsWritten, ReadKeepsPages
<1>5. CASE UNCHANGED vars
    BY <1>5 DEF vars, Written, TypeOK, IdsDrawnOnce, TestsHold, WrittenInside,
       ReadersPaged, Paged, Shown, NothingMissed, PagesDescend, At, Stored, IsMember
<1> QED
    BY <1>1, <1>2, <1>3, <1>4, <1>5 DEF Next

(* The inductive invariant of requests, rows and readers.                  *)
THEOREM PostsAreConsistent == Spec => []Consistent
<1> QED
    BY InitConsistent, StepConsistent, PTL DEF Spec

(* Every reachable state is well typed.                                    *)
THEOREM PostsTypeCorrect == Spec => []TypeOK
<1>1. Consistent => TypeOK
    BY DEF Consistent, Written
<1> QED
    BY <1>1, PostsAreConsistent, PTL

(* Authors and tagged persons belong to the group of the post: the tests   *)
(* of Create cannot become stale before the insert.                        *)
THEOREM WrittenInsideHolds == Spec => []WrittenInside
<1>1. Consistent => WrittenInside
    BY DEF Consistent, Written
<1> QED
    BY <1>1, PostsAreConsistent, PTL

(* Keyset paging shows every post that is visible from the first page on,  *)
(* whatever appears and disappears around it.                              *)
THEOREM NothingIsMissed == Spec => []NothingMissed
<1>1. Consistent => NothingMissed
    BY DEF Consistent, Shown
<1> QED
    BY <1>1, PostsAreConsistent, PTL

(* No post comes twice and pages go from newer posts to older ones.        *)
THEOREM PagesAlwaysDescend == Spec => []PagesDescend
<1>1. Consistent => PagesDescend
    BY DEF Consistent, Shown
<1> QED
    BY <1>1, PostsAreConsistent, PTL
-----------------------------------------------------------------------------
(* Rows change in three kinds of steps.                                    *)
LEMMA RowsChange ==
    ASSUME [Next]_vars
    PROVE  \/ UNCHANGED post
           \/ \E p \in Post, s \in Status : Judge(p, s)
           \/ \E r \in Req : CreateCommit(r) \/ UpdateMeant(r)
<1>1. ASSUME NEW r \in Req, Handle(r)
      PROVE  UNCHANGED post \/ CreateCommit(r) \/ UpdateMeant(r)
    BY <1>1 DEF Handle, Create, ConfirmMeant, CreateMember, CreateTagged, CreateId, ConfirmGet, RequestFails
<1>2. ASSUME NEW c \in Reader, Read(c)
      PROVE  UNCHANGED post
    BY <1>2 DEF Read, FeedOpen, FeedMember, FeedList, FeedFails
<1>3. ASSUME NEW g \in Group, NEW u \in User, Join(g, u)
      PROVE  UNCHANGED post
    BY <1>3 DEF Join
<1> QED
    BY <1>1, <1>2, <1>3 DEF Next, vars

(* Only requests of the author change what was meant and the kind, and a   *)
(* chosen kind is never lost, whatever Fidolin and other requests do.      *)
THEOREM AuthorAlwaysDecides == Spec => AuthorDecides
<1> DEFINE Kept(p) == post'[p].meant = post[p].meant /\ post'[p].kind = post[p].kind
           Chosen(p) == \E r \in Req : /\ req[r].post = p
                                       /\ req[r].user = post[p].author
                                       /\ req[r].meant = post'[p].meant
<1>1. ASSUME Consistent, [Next]_vars
      PROVE  AuthorStep
  <2> SUFFICES ASSUME NEW p \in Post, Stored(p)
               PROVE  /\ post'[p].kind # None \/ post[p].kind = None
                      /\ Kept(p) \/ Chosen(p)
    BY DEF AuthorStep
  <2>1. TypeOK /\ IdsDrawnOnce /\ TestsHold
    BY <1>1 DEF Consistent, Written
  <2>2. post[p] \in Row
    BY <2>1 DEF TypeOK, Stored
  <2>3. CASE UNCHANGED post
    BY <2>3
  <2>4. ASSUME NEW q \in Post, NEW s \in Status, Judge(q, s)
        PROVE  Kept(p)
    BY <2>1, <2>2, <2>4 DEF Judge, TypeOK, Row
  <2>5. ASSUME NEW r \in Req, CreateCommit(r)
        PROVE  Kept(p)
    BY <2>1, <2>5, CommitAddsRow
  <2>6. ASSUME NEW r \in Req, UpdateMeant(r), req[r].post # p
        PROVE  Kept(p)
    BY <2>1, <2>6 DEF UpdateMeant, TypeOK
  <2>7. ASSUME NEW r \in Req, UpdateMeant(r), req[r].post = p
        PROVE  /\ post'[p].kind # None \/ post[p].kind = None
               /\ Chosen(p)
    <3>1. /\ post'[p].meant = req[r].meant
          /\ post'[p].kind = Coalesce(req[r].kind, post[p].kind)
        BY <2>1, <2>2, <2>7 DEF UpdateMeant, TypeOK, Row
    <3>2. req[r].user = post[p].author
        BY <2>1, <2>7 DEF TestsHold, UpdateMeant
    <3> QED
        BY <2>7, <3>1, <3>2 DEF Coalesce
  <2> QED
    BY <1>1, <2>3, <2>4, <2>5, <2>6, <2>7, RowsChange
<1>2. Consistent /\ [Next]_vars => [AuthorStep]_vars
    BY <1>1
<1> QED
    BY <1>2, PostsAreConsistent, PTL DEF Spec, AuthorDecides

(* A page holds visible posts of the reader's group only, and the reader   *)
(* is a member when it is answered.                                        *)
THEOREM FeedAlwaysStaysInside == Spec => FeedStaysInside
<1> DEFINE Inside(c) == reader'[c].page # reader[c].page =>
              \A p \in reader'[c].page :
                  /\ post[p].status = "visible"
                  /\ post[p].group = reader'[c].group
                  /\ IsMember(post[p].group, reader'[c].user)
           AllInside == \A c \in Reader : Inside(c)
<1>1. ASSUME Consistent, [Next]_vars
      PROVE  AllInside
  <2> SUFFICES ASSUME NEW c \in Reader, reader'[c].page # reader[c].page,
                      NEW p \in reader'[c].page
               PROVE  /\ post[p].status = "visible"
                      /\ post[p].group = reader'[c].group
                      /\ IsMember(post[p].group, reader'[c].user)
    OBVIOUS
  <2>1. reader \in [Reader -> Paging] /\ Paged(c)
    BY <1>1 DEF Consistent, Written, TypeOK, ReadersPaged
  <2>2. reader[c] \in Paging
    BY <2>1
  <2>3. ASSUME NEW q \in Post, NEW s \in Status, Judge(q, s)
        PROVE  FALSE
    BY <2>1, <2>2, <2>3 DEF Judge, Paging
  <2>4. Read(c)
    <3>1. ASSUME NEW x \in Reader, x # c, Read(x)
          PROVE  FALSE
        BY <2>1, <3>1 DEF Read, FeedOpen, FeedMember, FeedList, FeedFails
    <3>2. ASSUME NEW r \in Req, Handle(r)
          PROVE  FALSE
        BY <3>2 DEF Handle, Create, ConfirmMeant, CreateMember, CreateTagged, CreateId, CreateCommit,
           ConfirmGet, UpdateMeant, RequestFails
    <3>3. ASSUME NEW g \in Group, NEW u \in User, Join(g, u)
          PROVE  FALSE
        BY <3>3 DEF Join
    <3> QED
        BY <1>1, <2>3, <3>1, <3>2, <3>3 DEF Next, vars
  <2>5. ASSUME NEW u \in User, NEW g \in Group, NEW b \in Cursors, NEW l \in Limits,
               FeedOpen(c, u, g, b, l)
        PROVE  FALSE
    BY <2>1, <2>5 DEF FeedOpen, Closed
  <2>6. ~FeedMember(c) /\ ~FeedFails(c)
    BY <2>1, <2>2 DEF FeedMember, FeedFails, Paging
  <2>7. FeedList(c)
    BY <2>4, <2>5, <2>6 DEF Read
  <2>8. /\ reader[c].pc \in {"list_first", "list"}
        /\ reader'[c].group = reader[c].group
        /\ reader'[c].user = reader[c].user
        /\ reader'[c].page =
              ListFeed(reader[c].group, reader[c].before, reader[c].limit)
    BY <2>1, <2>2, <2>7 DEF FeedList, Paging
  <2> QED
    BY <2>1, <2>8 DEF Paged, ListFeed, Newest, Visible
<1>2. Consistent /\ [Next]_vars => [AllInside]_vars
    BY <1>1
<1> QED
    BY <1>2, PostsAreConsistent, PTL DEF Spec, FeedStaysInside
=============================================================================
