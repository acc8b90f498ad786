-------------------------------- MODULE Posts --------------------------------
(***************************************************************************)
(* posts.Service: Create, Feed and ConfirmMeant, one action per repository *)
(* call.  Meanwhile people enter groups and Fidolin makes posts visible,   *)
(* in any order, or takes them out of the feed again.  Readers go through  *)
(* the feed page by page with the next_before of the last answer.          *)
(***************************************************************************)
EXTENDS Integers, FiniteSets

CONSTANTS
    User, Group,
    MaxPosts,      \* bound: ids the sequence of posts.id may hand out
    Req,           \* slots for Create and ConfirmMeant requests
    Reader,        \* clients that page through a feed
    Kind,          \* "versprecher", "verhoerer"
    Meant,         \* texts an author may confirm
    Tags,          \* who may be tagged; None: nobody
    Limits,        \* values of the query parameter limit
    Cursors,       \* values of the parameter before on a first page
    DefaultFeedLimit, MaxFeedLimit,
    None           \* SQL NULL, Go nil

Post == 1..MaxPosts

ASSUME PostsAssumption ==
    /\ MaxPosts \in Nat
    /\ Tags \subseteq User \cup {None}
    /\ Limits \subseteq Int
    /\ Cursors \subseteq Int
    /\ DefaultFeedLimit \in Nat \ {0}
    /\ MaxFeedLimit \in Nat
    /\ None \notin User \cup Group \cup Kind \cup Meant

VARIABLES
    members,  \* group_members, per group
    post,     \* the posts table; NoPost: no row with this id
    nextId,   \* the sequence behind posts.id
    req,      \* Create and ConfirmMeant requests being handled
    reader    \* what each client has read and its request in progress

vars == <<members, post, nextId, req, reader>>

Status == {"pending_review", "visible", "blocked"}

NoPost == [group |-> None, author |-> None, tagged |-> None,
           kind |-> None, meant |-> None, status |-> None]

Row == [group : Group, author : User, tagged : User \cup {None},
        kind : Kind \cup {None}, meant : Meant \cup {None}, status : Status]

Stored(p) == post[p] # NoPost

Idle == [pc |-> "idle", user |-> None, group |-> None, tagged |-> None,
         kind |-> None, meant |-> None, post |-> 0]

(* before is the cursor of the page being asked for, older the posts of    *)
(* earlier pages, page those of the last one.  due is history: the posts   *)
(* that were visible at the first page and have been ever since.           *)
Closed == [pc |-> "closed", user |-> None, group |-> None, limit |-> 0,
           before |-> 0, older |-> {}, page |-> {}, due |-> {}]

Init ==
    /\ members = [g \in Group |-> {}]
    /\ post = [p \in Post |-> NoPost]
    /\ nextId = 1
    /\ req = [r \in Req |-> Idle]
    /\ reader = [c \in Reader |-> Closed]

At(r, pc)   == req[r].pc = pc
Goto(r, pc) == req' = [req EXCEPT ![r].pc = pc]
Return(r)   == req' = [req EXCEPT ![r] = Idle]

IsMember(g, u) == u \in members[g]
-----------------------------------------------------------------------------
(* Around the package                                                      *)

(* groups and auth let somebody in; nobody ever leaves.                    *)
Join(g, u) ==
    /\ ~IsMember(g, u)
    /\ members' = [members EXCEPT ![g] = @ \cup {u}]
    /\ UNCHANGED <<post, nextId, req, reader>>

(* ApplyAnalysis or MarkFailed: a decision of Fidolin, or the second one   *)
(* of two holders of a claim.                                              *)
Judge(p, s) ==
    /\ Stored(p)
    /\ post[p].status # s
    /\ post' = [post EXCEPT ![p].status = s]
    /\ reader' = [c \in Reader |->
          [reader[c] EXCEPT !.due = IF s = "visible" THEN @ ELSE @ \ {p}]]
    /\ UNCHANGED <<members, nextId, req>>
-----------------------------------------------------------------------------
(* Create: the author's membership, that of the tagged person if there is  *)
(* one, and the insert.  An insert draws its id from the sequence before   *)
(* it commits, so rows may appear in another order than their ids.         *)
CreateMember(r, u, g, t, k) ==
    /\ At(r, "idle")
    /\ IsMember(g, u)
    /\ req' = [req EXCEPT ![r] = [pc |-> IF t = None THEN "insert" ELSE "tagged",
          user |-> u, group |-> g, tagged |-> t, kind |-> k, meant |-> None,
          post |-> 0]]
    /\ UNCHANGED <<members, post, nextId, reader>>

(* Faulty variant: the author's membership is tested a second time.        *)
CreateTaggedAuthor(r) ==
    /\ At(r, "tagged")
    /\ IF IsMember(req[r].group, req[r].user) THEN Goto(r, "insert") ELSE Return(r)
    /\ UNCHANGED <<members, post, nextId, reader>>

CreateTagged(r) ==
    /\ At(r, "tagged")
    /\ IF IsMember(req[r].group, req[r].tagged) THEN Goto(r, "insert") ELSE Return(r)
    /\ UNCHANGED <<members, post, nextId, reader>>

CreateId(r) ==
    /\ At(r, "insert")
    /\ nextId \in Post
    /\ nextId' = nextId + 1
    /\ req' = [req EXCEPT ![r].pc = "commit", ![r].post = nextId]
    /\ UNCHANGED <<members, post, reader>>

(* Faulty variant: the defaults of status and ai_status are swapped.       *)
CreateRowQueued(r) ==
    [group |-> req[r].group, author |-> req[r].user, tagged |-> req[r].tagged,
     kind |-> req[r].kind, meant |-> None, status |-> "queued"]

CreateRow(r) ==
    [group |-> req[r].group, author |-> req[r].user, tagged |-> req[r].tagged,
     kind |-> req[r].kind, meant |-> None, status |-> "pending_review"]

CreateCommit(r) ==
    /\ At(r, "commit")
    /\ post' = [post EXCEPT ![req[r].post] = CreateRow(r)]
    /\ Return(r)
    /\ UNCHANGED <<members, nextId, reader>>
-----------------------------------------------------------------------------
(* ConfirmMeant: GetByID and the test of the author, then UpdateMeant.     *)
ConfirmGet(r, u, p, m, k) ==
    /\ At(r, "idle")
    /\ Stored(p)
    /\ post[p].author = u
    /\ req' = [req EXCEPT ![r] = [pc |-> "update", user |-> u,
          group |-> None, tagged |-> None, kind |-> k, meant |-> m, post |-> p]]
    /\ UNCHANGED <<members, post, nextId, reader>>

(* Faulty variant: no COALESCE.                                            *)
OverwriteKind(new, old) == new

Coalesce(new, old) == IF new = None THEN old ELSE new

UpdateMeant(r) ==
    /\ At(r, "update")
    /\ post' = [post EXCEPT ![req[r].post].meant = req[r].meant,
                            ![req[r].post].kind = Coalesce(req[r].kind, @)]
    /\ Return(r)
    /\ UNCHANGED <<members, nextId, reader>>

(* A database error, a client that has gone or the end of the process: an  *)
(* id that was drawn is lost.  A committed write whose answer is lost is   *)
(* the write.                                                              *)
RequestFails(r) ==
    /\ ~At(r, "idle")
    /\ Return(r)
    /\ UNCHANGED <<members, post, nextId, reader>>
-----------------------------------------------------------------------------
(* Feed                                                                    *)

(* Faulty variant: a limit of the client is taken as it is.                *)
UncheckedLimit(limit) == IF limit > MaxFeedLimit THEN DefaultFeedLimit ELSE limit

FeedLimit(limit) ==
    IF limit <= 0 \/ limit > MaxFeedLimit THEN DefaultFeedLimit ELSE limit

FirstCursor(before) == IF before < 0 THEN 0 ELSE before

(* Faulty variant: the page starts with the last post of the one before.   *)
FromCursor(p, before) == before = 0 \/ p <= before

Before(p, before) == before = 0 \/ p < before

(* Faulty variant: no condition on group_id.                               *)
VisibleAnywhere(g, before) ==
    {p \in Post : post[p].status = "visible" /\ Before(p, before)}

Visible(g, before) ==
    {p \in Post : /\ post[p].group = g
                  /\ post[p].status = "visible"
                  /\ Before(p, before)}

(* ORDER BY id DESC LIMIT limit *)
Newest(S, limit) == {p \in S : Cardinality({q \in S : q > p}) < limit}

ListFeed(g, before, limit) == Newest(Visible(g, before), limit)

(* Faulty variant: an empty page repeats the cursor it was asked with.     *)
KeepCursor(page, before) ==
    IF page = {} THEN before ELSE CHOOSE p \in page : \A q \in page : p <= q

(* next_before of the answer: the last id of the page, 0 if it is empty.   *)
NextBefore(page, before) ==
    IF page = {} THEN 0 ELSE CHOOSE p \in page : \A q \in page : p <= q

(* A client starts again at a cursor, most often 0.                        *)
FeedOpen(c, u, g, before, limit) ==
    /\ reader[c].pc \in {"closed", "done"}
    /\ reader' = [reader EXCEPT ![c] = [Closed EXCEPT !.pc = "first",
          !.user = u, !.group = g, !.before = FirstCursor(before),
          !.limit = FeedLimit(limit)]]
    /\ UNCHANGED <<members, post, nextId, req>>

(* The membership test of each page; a stranger is turned away.            *)
FeedMember(c) ==
    LET pc == reader[c].pc IN
    /\ pc \in {"first", "next"}
    /\ reader' = [reader EXCEPT ![c].pc =
          IF ~IsMember(reader[c].group, reader[c].user) THEN "closed"
          ELSE IF pc = "first" THEN "list_first" ELSE "list"]
    /\ UNCHANGED <<members, post, nextId, req>>

(* ListFeed and the answer.  The client asks for more until next_before    *)
(* is 0.                                                                   *)
FeedList(c) ==
    LET d    == reader[c]
        page == ListFeed(d.group, d.before, d.limit)
        next == NextBefore(page, d.before)
    IN  /\ d.pc \in {"list_first", "list"}
        /\ reader' = [reader EXCEPT ![c] = [d EXCEPT
              !.pc = IF next = 0 THEN "done" ELSE "next",
              !.before = next,
              !.older = d.older \cup d.page,
              !.page = page,
              !.due = IF d.pc = "list" THEN @ ELSE Visible(d.group, d.before)]]
        /\ UNCHANGED <<members, post, nextId, req>>

(* A page that is not answered is asked for again.                         *)
FeedFails(c) ==
    /\ reader[c].pc \in {"list_first", "list"}
    /\ reader' = [reader EXCEPT ![c].pc =
          IF reader[c].pc = "list_first" THEN "first" ELSE "next"]
    /\ UNCHANGED <<members, post, nextId, req>>
-----------------------------------------------------------------------------
(* POST /v1/groups/:id/posts                                               *)
Create(r) ==
    \/ \E u \in User, g \in Group, t \in Tags, k \in Kind \cup {None} :
          CreateMember(r, u, g, t, k)
    \/ CreateTagged(r) \/ CreateId(r) \/ CreateCommit(r)

(* PATCH /v1/posts/:id                                                     *)
ConfirmMeant(r) ==
    \/ \E u \in User, p \in Post, m \in Meant, k \in Kind \cup {None} :
          ConfirmGet(r, u, p, m, k)
    \/ UpdateMeant(r)

Handle(r) == Create(r) \/ ConfirmMeant(r) \/ RequestFails(r)

Read(c) ==
    \/ \E u \in User, g \in Group, b \in Cursors, l \in Limits :
          FeedOpen(c, u, g, b, l)
    \/ FeedMember(c) \/ FeedList(c) \/ FeedFails(c)

Next ==
    \/ \E g \in Group, u \in User : Join(g, u)
    \/ \E p \in Post, s \in Status : Judge(p, s)
    \/ \E r \in Req : Handle(r)
    \/ \E c \in Reader : Read(c)

Spec == Init /\ [][Next]_vars

(* A client that wants the rest of the feed asks for it, and not every     *)
(* attempt fails.                                                          *)
Fairness == \A c \in Reader : WF_vars(FeedMember(c)) /\ SF_vars(FeedList(c))

FairSpec == Spec /\ Fairness
-----------------------------------------------------------------------------
Request == [pc : {"idle", "tagged", "insert", "commit", "update"},
            user : User \cup {None}, group : Group \cup {None},
            tagged : User \cup {None}, kind : Kind \cup {None},
            meant : Meant \cup {None}, post : Post \cup {0}]

Paging == [pc : {"closed", "first", "list_first", "next", "list", "done"},
           user : User \cup {None}, group : Group \cup {None},
           limit : Nat, before : Nat,
           older : SUBSET Post, page : SUBSET Post, due : SUBSET Post]

TypeOK ==
    /\ members \in [Group -> SUBSET User]
    /\ post \in [Post -> Row \cup {NoPost}]
    /\ nextId \in 1..(MaxPosts + 1)
    /\ req \in [Req -> Request]
    /\ reader \in [Reader -> Paging]

(* Whoever wrote a post or is tagged in it belongs to its group, though    *)
(* the tests and the insert are three statements (service.go:64, 73, 87).  *)
WrittenInside ==
    \A p \in Post : Stored(p) =>
        {post[p].author, post[p].tagged} \subseteq members[post[p].group] \cup {None}

(* One step leaves a row's kind and meant alone or is its author's.        *)
AuthorStep ==
    \A p \in Post : Stored(p) =>
        /\ post'[p].kind # None \/ post[p].kind = None
        /\ \/ post'[p].meant = post[p].meant /\ post'[p].kind = post[p].kind
           \/ \E r \in Req : /\ req[r].post = p /\ req[r].user = post[p].author
                             /\ req[r].meant = post'[p].meant

(* "Der Verfasser entscheidet" (ERKLAERUNG.md:66): what was meant and the  *)
(* kind change by a request of the author only, whatever Fidolin does at   *)
(* the same time, and a kind that was chosen is never lost to a request    *)
(* without one (repository.go:92).                                         *)
AuthorDecides == [][AuthorStep]_vars

(* A post that is visible when paging begins and stays so is shown by the  *)
(* time the cursor has passed it, at the end at the latest, whatever       *)
(* becomes visible or disappears meanwhile and whichever pages fail.       *)
NothingMissed ==
    \A c \in Reader : \A p \in reader[c].due :
        p >= reader[c].before => p \in reader[c].older \cup reader[c].page

(* Pages go from newer posts to older ones and no post is shown twice,     *)
(* also when the order in which posts became visible is another one.       *)
PagesDescend ==
    \A c \in Reader : \A p \in reader[c].page, q \in reader[c].older : p < q

(* "Feed (nur sichtbare Beitraege)" (README.md:86), "nur fuer Mitglieder"  *)
(* (service.go:99): when a page is answered its posts are visible posts of *)
(* the reader's group, and the reader is a member at that moment, not only *)
(* when it was tested.                                                     *)
FeedStaysInside == [][
    \A c \in Reader : reader'[c].page # reader[c].page =>
        \A p \in reader'[c].page :
            /\ post[p].status = "visible"
            /\ post[p].group = reader'[c].group
            /\ IsMember(post[p].group, reader'[c].user)
    ]_vars

(* New posts never make paging endless: it ends with an empty page, or     *)
(* with the answer that the reader is no member.                           *)
PagingEnds ==
    \A c \in Reader : reader[c].pc # "closed" ~> reader[c].pc \in {"closed", "done"}
=============================================================================
