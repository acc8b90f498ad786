# Formal models of the Insider backend ("Versprecher")

The program is a Go HTTP API for closed circles of friends: accounts are opened
on invitation only, circles ("groups") have a member limit, members post slips
of the tongue, and a silent worker, Fidolin, judges every post before it enters
the feed. State lives in PostgreSQL. **No package opens a transaction**: every
repository call is one SQL statement that commits on its own. So the questions
worth asking are what happens *between* two statements of a handler (another
request, another server process, a failure, the end of the process), and those
are the questions of this project.

## Inventory

| part | state | operations | interacts by |
|---|---|---|---|
| `internal/auth` | `users`, `email_verifications`; reads and marks `invitations` | Register, Login, VerifyEmail, Me | calls `groups.Service` through `GroupJoiner` |
| `internal/groups` | `groups`, `group_members`, `invitations` | CreateGroup, CreateInvite, AcceptInvite, GetGroup, ListMyGroups, IsMember, HasCapacity, AddMember | shares the tables with auth |
| `internal/fidolin` | `posts.ai_status`, `ai_claimed_at`, `ai_score`, `status`; goroutines and a channel | Run (dispatcher + workers), RunOnce (tests) | shares `posts` with package posts and with the other server processes |
| `internal/moderation` | the one row of `moderation_settings` | Get, Update | read by Fidolin's workers |
| `internal/posts` | `posts` | Create, Feed, ConfirmMeant | asks groups for membership |
| `internal/middleware` | map of limiters behind a mutex, clean-up goroutine; no session state (JWT) | RequireAuth, limiterFor, Allow, cleanup, headers | in front of the handlers; RequireAuth reads the token only |
| `cmd/server`, `httpx`, `db` | process life cycle, pool of connections | Load, Connect, NewRouter, signal, Shutdown, pool.Close | puts the chains together; cancels the context of Run and of requests |
| `internal/config` | environment variables, read once | Load, getInt | limit, secret, batch size, mode of the other parts |
| `migrations`, `scripts` | schema | migrate.sh | DDL only |

What is hard here: handlers that read, decide and write in separate statements
(invitation, limit, first account, free address); requests that end half-way
with their first writes committed; a work queue whose claims time out while
their holder may still be at work; a dispatcher on an unbuffered channel that
must not block its own shutdown; limiters that are used outside the mutex that
guards their map, and dropped meanwhile; sessions that no table knows of; a
shutdown that waits for requests whose clients may never finish them.
PROJECT.json lists each of these hazards at
its line with the properties that would catch it.

What makes each part correct:

* accounts and members: whoever is inside was vouched for by somebody inside,
  back to an account or an owner who needed no voucher; nothing a handler holds
  in its locals is wrong when it uses it; limits and single use hold, or are
  exceeded by a known amount; what a cut-off registration leaves is harmless;
* posts: nobody outside a group writes, is tagged or reads in it; paging shows
  what is visible, once; what an author has confirmed stays;
* Fidolin: fail-closed (nothing unjudged is visible), one decision per post, made
  by the thresholds in force, every post is decided, Run returns when told to;
* server: an address has one bucket of requests, whatever the limiter keeps and
  drops; a suspension bites after one token lifetime; no request is stuck in the
  server; main returns after a signal.

## Modules

| module | what it is |
|---|---|
| `Trust` | abstract contract of auth + groups: accounts and members come in one by one on somebody's word |
| `Tables` | the tables and SQL statements of auth and groups, the requests' program counters and locals |
| `AuthService` | Register and VerifyEmail, one action per repository call; `Register(r)` and `VerifyEmail(r)` are the handlers' steps together |
| `GroupService` | CreateGroup, CreateInvite, AcceptInvite, likewise |
| `Circle` | both services on the same tables with failing requests; all properties; refinement of `Trust` |
| `MCCircle` | symmetry set for TLC |
| `Verdict` | abstract contract of moderation: a post waits unseen, is decided once, the decision stands |
| `Fidolin` | the dispatcher, the worker pool and the store of several processes; refinement of `Verdict` |
| `MCFidolin` | values of the constants for TLC |
| `Posts` | Create, Feed and ConfirmMeant, one action per repository call, with clients that page through the feed; Fidolin and the groups appear as what they do to `posts.status` and to the members |
| `MCPosts` | values of the constants and symmetry for TLC |
| `Bucket` | abstract contract of the rate limiter: one token bucket per address |
| `Requests` | requests on their way through the chain of middlewares and handler behind their route |
| `RateLimiter` | the limiter's map, mutex, limiters and clean-up; refinement of `Bucket` |
| `Session` | Login, Issue, Parse and RequireAuth against accounts that are suspended meanwhile |
| `Server` | one process from config.Load to its end, the requests it serves, its pool; composes `RateLimiter` and `Session` on the same requests |
| `MCServer` | the environments for TLC |
| `Trust_proofs`, `Circle_proofs`, `Circle_room_proofs`, `Circle_history_proofs`, `Circle_bounds_proofs`, `Fidolin_proofs`, `Posts_proofs`, `Server_proofs` | theorems and their proofs |

### Circle: state and actions against the code

A person is the normalised e-mail address. `accounts`, `invitedBy`, `verified`
are columns of `users`; `tokenRow` is the row of `email_verifications`;
`owner`, `members`, `sponsor` are `groups.owner_id` and `group_members`;
`invites` is the table `invitations`, with one bit for "the deadline is over".
`mailed` and `joinedBy` are history: who was handed a verification token, and
who became a member through which invitation. `req[r]` is a request that is
being handled: `pc` names the *next* repository call, the other fields are the
handler's locals. A route begins in a free slot (`Begin`), goes from call to
call (`Goto`) and ends with a result or an error (`Return`).

Register is `RegisterCount` (CountUsers), `RegisterInvite`
(GetInvitationByToken and `invitationUsable`), `RegisterRoom` (HasCapacity),
`RegisterEmail` (GetUserByEmail), `RegisterUser` (CreateUser, with the UNIQUE
column), `RegisterJoin` (AddMember, with the primary key), `RegisterAccept`,
`RegisterToken`, `RegisterAnswer` (the 201 that carries the raw token).
VerifyEmail is `VerifyRead`, `VerifyMark`, `VerifyDelete`. CreateGroup is
`GroupInsert`, `GroupOwnerJoin`. CreateInvite is `InviteRole`, `InviteInsert`.
AcceptInvite is `AcceptRead`, `AcceptRole`, `AcceptRoom`, `AcceptJoin`,
`AcceptMark`. `TokenExpires` and `InviteExpires` are time. `RequestFails` ends a
request before any of its calls: a database error, a client that went away (the
handlers pass on the request's context), the end of the process.

`LoggedIn(u)` stands for a valid JWT. Nothing in the program removes an account,
takes a verification back or changes `users.status`, so what Login asks for
never becomes false again.

Abstracted: input validation (a rejected input changes nothing), hashing (a
failing hash is `RequestFails`), names, roles (never read by these packages),
the e-mail itself, and calls whose reading cannot differ (GetGroup reads columns
that never change, and is joined with CountMembers).

### Fidolin: state and actions against the code

`status`, `aiStatus`, `score` are columns of `posts`; `stale` holds the posts
whose `ai_claimed_at` is older than StaleAfter; `row` is `moderation_settings`.
Per process, `disp` is the place of the dispatcher in `Run`, `batch` what it has
claimed and not yet sent, `job` what each worker does, and `ctxDone` says that
its context is cancelled. `Reclaim` and then `ClaimLock` and `ClaimMark` are the
two statements of `dispatch`, `Send` and `StopSending` the two arms of its
select, `Tick` and `StopWaiting` those of the outer select, `Stopped` is close
and Wait.
`ReadSettings`, `Analyze`, `Write`, `WriteFails` are `process`. `Create` is the
insert of package posts, `UpdateSettings` the administrator, `Age` time,
`Cancel` SIGTERM, `Exit` the end of the process (a crash, or main returning
without waiting for Run), `Start` a restart.

Every store call may fail. With a cancelled context it always fails; before
that, failing costs one of `MaxFaults`. An update whose answer is lost is the
update followed by nothing different, as the code only logs the error. `SlowWork` says whether a claim may become stale
while its holder still has it (an analysis or a full batch that takes longer
than StaleAfter). An analyzer is the set `Verdicts[p]` of scores it may give a
post, with `None` for an error; the heuristic analyzer (`Heuristic`, with the posts
that contain a listed term) gives every post one score and never an error.
`BatchSize` is what New makes of the configured batch: a number below 1 becomes 10.
`Get` is `moderation.Repository.Get` as `process` uses it: the row, or the
Defaults where reading fails. `inForce[p]` is history: the thresholds that were in
force while a worker had p, and the Defaults if the worker could not read them.

Scores and thresholds are thousandths. The columns that keep them are
NUMERIC(3,2): the thresholds are hundredths to begin with (`Column`), a score is
decided as the analyzer gave it and stored rounded (`Rounded`), so that a post
just below a threshold is visible and is stored as equal to it.

The claim is one statement in the code and two steps here, as two claims may
overlap: `ClaimLock` is its SELECT, which locks the rows it finds (`locked`) and
skips those another claim has locked, `ClaimMark` its UPDATE, which tests nothing
but the ids. A claim that fails or whose process dies gives its locks back, and a
`Write` waits for the lock on its row. A failing claim has two outcomes: nothing
happened, or the UPDATE was committed and reading its rows failed.

### Posts: state and actions against the code

`post` is the table `posts` without its texts, `nextId` the sequence behind
`posts.id`, `members` the table `group_members`. `req[r]` is a Create or
ConfirmMeant request as in the circle. Create is `CreateMember` (IsMember of the
author), `CreateTagged` (IsMember of the tagged person), and the INSERT in two
steps, `CreateId` and `CreateCommit`, because PostgreSQL draws the id before the
row commits: rows may appear in another order than their ids, and an id may be
lost. ConfirmMeant is `ConfirmGet` (GetByID and the author test) and
`UpdateMeant`. `RequestFails` ends a request before any of its calls.

`reader[c]` is a client that pages through a feed and its request in progress:
`FeedMember` is the membership test and `FeedList` the query with the answer of
each page; `FeedOpen` is the client's choice of group, `limit` and `before`,
clamped as the service does. The client (not part of the repository) goes on
with `next_before` until it is 0, as the handler's answer suggests, and repeats
a page that failed (`FeedFails`). `older` and `page` are what it has been shown,
`due` is history. A page is `Newest`: the posts that have fewer than `limit`
newer ones among the visible ones, which is ORDER BY id DESC LIMIT.

`Join` stands for the circle (members are only added) and `Judge` for Fidolin.
`Judge` may move a post between any two values of `posts.status` at any time:
`Fidolin` does less, so whatever holds here holds with it.

### Server: state and actions against the code

`req[r]` is a slot for a request that is being handled: `route` is the kind of
its route, `at` its place in `Chain[route]`, the chain that `httpx.NewRouter`
puts behind it. There are three: *login* (POST /auth/*: limiter, body,
statement, and for Login the decision on the row), *read* (the GET routes:
RequireAuth, statement) and *write* (RequireAuth, limiter, body, two statements).
Handlers of all three kinds may have several statements; the second one of
*write*, which asks for a connection again, stands for all that follow the first. "lock", "lookup" and
"allow" are the limiter: `Lock` takes the mutex, `limiterFor` does the rest of
that function (a known visitor, a division by zero that panics, a new limiter)
with the deferred Unlock, `Allow` uses the limiter outside the mutex. `Body` is
ShouldBindJSON, for which the server sets no deadline. `Acquire` and `Query` are
a connection of the pool and the statement on it. `Fails` ends a request where
it waits; 401, 429, the panic that Recovery catches and a closed pool end it too
(`Abort`).

`visitors[a]` is the limiter of an address and its age, `tokens[a][g]` the whole
tokens of each limiter of that address that may still be referred to: requests
keep the limiter they fetched, so after a clean-up an address may have several.
There is one more of them than requests (`Gen`); one nobody refers to is used
again. `now` is history: a bit that changes when time passes, by which the
contract `Bucket` knows that a token has come back with time and not by a
limiter being dropped; `up` there is that main has not ended. `Sweep` is a round
of cleanup, at any time. `perMin` is the configured limit: 0 panics, a negative
number gives an infinite rate, as the code does.

`usable` are the accounts whose row Login accepts; it changes from outside
(`Admit`, `Suspend`), as nothing in the program changes `users.status`. `left` is
what remains of an account's newest token, `barred` is history: for how long the
account has not been usable, up to TTL. The secret of the tokens is the same
after a restart, so tokens outlive processes and buckets do not.

`main` is where main stands: `Start` (config.Load refuses a short secret),
`Signal`, `Shutdown`, `Drained` (all requests are answered, or the time is over),
`Exit` (pool.Close has got its connections back), `Crash` at any time.

`Tick` is one unit of time, the interval in which a limiter gains a token. It
comes only while every request waits for its client, for the pool or for the
database: what a request does in memory takes no time against seconds and
minutes. **This assumption matters**: a request that stood still for more than
ten minutes between limiterFor and Allow could see its limiter dropped and
replaced by a full one, and the address would have more than its bucket. The
model excludes that, everything shorter it allows.

Abstracted: the contents of bodies and answers, the statements themselves (they
are what `Circle` and `Posts` model), Fidolin's use of the pool, the routes
without any state (/healthz), and the headers of SecurityHeaders.

## Runs

| run | instance | shows |
|---|---|---|
| `circle_races` | 4 people, 1 group of at most 2, 1 invitation, 2 requests at a time, verification required, failures anywhere | types, consistency of handlers and tables, rooted vouching, overshoot at most 1, at most 2 accounts without an inviter (one per request at a time), accepted means joined, no token lost, whoever is verified has a group or needed no invitation, refinement of `Trust` |
| `circle_single_use` | as `circle_races`, with a limit of 3 so that the limit does not hide the second use | **violated**: README.md:64 "Einladungen sind einmalig" |
| `circle_limit` | as `circle_races` | **violated**: CHANGELOG.md:25 "`max_members` wird durchgesetzt" |
| `circle_bootstrap` | as `circle_races` | **violated**: SPEC.md:75 "NULL nur beim allerersten Account" |
| `fidolin_claims` | 2 processes with 1 worker, 2 posts, batches of 10 (configured as 0), any analyzer (also scores that the column rounds up to a threshold), 2 settings, 3 faults, no slow work | fail-closed, decided by thresholds in force, one holder, one decision |
| `fidolin_progress` | 1 process with 2 workers, 2 posts, batches of 2, slow work, an analyzer that repeats itself, 3 faults, fairness | fail-closed and one decision survive double claims; a decision nobody can touch any more is final; every post is decided, also after crashes; Run returns |
| `fidolin_exclusive` | slow work, 1 fault | **violated**: store.go:22-23 "nie denselben Beitrag" |
| `fidolin_settings` | strict thresholds in the table, 1 fault | **violated**: ERKLAERUNG.md:63 "NICHT einfach durchgewinkt" |
| `posts_writes` | 2 people, 1 group, 2 posts, 2 requests, one kind and one text, deadlock checked | types; authors and tagged persons inside the group; the author decides |
| `posts_feed` | 1 reader in 2 groups, 3 posts, 2 concurrent inserts, page sizes 1 and 2, limits 0 and 3 outside the range, cursors before the start and inside, fairness | nothing missed, nothing twice, nothing foreign, paging ends |
| `server_safety` | 2 addresses, 1 account, 2 requests, burst of 2, IdleAfter 2, TTL 2, 1 connection, drain time 1, limits 8 (in place of the code's default of 20), 0, -1 and a short secret, deadlock checked | types; one bucket per address (refinement of `Bucket`); a suspension bites |
| `server_liveness` | the same with 1 address and TTL 1, fairness, deadlock checked | main returns; no request is stuck |

`circle_races` and the three runs that share its instance do not check deadlock:
an account whose token was never delivered can neither log in nor register
again, and if it is the only account no request can do anything any more.

*Why these bounds.* In the circle a race needs two requests, a chain of vouchers
with a cycle or a gap needs two or three people, a limit of 2 is the first that
lets a non-owner in, and 4 people allow the limit to be overshot twice if the
code allowed that. The runs issue one invitation, bound to no address: with two,
two requests at a time and failures anywhere, a run takes longer than one cares to
wait. So the race of a registration with the acceptance of another invitation
into the same group (groups/service.go:154) is left to the theorems, which hold
for any number of invitations. One group is enough for what the runs ask, as no
operation touches two; for several groups at once the theorems below stand in.

In Fidolin two processes with one worker each are two claims that overlap, two
claimants and two writers on one post (`fidolin_claims`); two workers of one
process are two hands on a post that was taken back (`fidolin_progress`: a claim carries no owner, so a post taken back
from another process looks to this one like a post it held itself). There a
batch of 2 leaves a post claimed and unsent, which is where shutdown, crash and
ageing bite. Three faults allow a lost claim, a failed write and a
crash in one behaviour. `MaxFaults` and `IdsLeft` (ids that are left for
invitations) are the only bounds inside actions.

In `posts_feed` three posts and pages of one or two give a full, a
half-full and an empty page and room for a post to appear or vanish above,
between and below the cursor; the second group is there to be kept out. Texts and
tags have no influence on paging and are switched off in that run, readers are
switched off in `posts_writes`. `MaxPosts` is the bound on ids. In both,
`Tags`, `Limits` and `Cursors` are the inputs offered to the handlers.

In the two runs of the server two requests are what it takes to have one use a limiter while the
other looks it up, sweeps come in between, or the mutex or the only connection
are held by the other. A burst of 2 tells a bucket that was refilled by a token
from a full one, and IdleAfter = 2 is the shortest that the assumption
`MaxBurst <= IdleAfter` allows (in the code a burst is the larger of 1 and a
quarter of what a minute brings, so it refills within a minute, and IdleAfter is
10 minutes).
TTL 1 makes a token expire while another request is logging in; TTL 2 also lets
one live on when a unit of time has passed. Two addresses are what "no token of
another address" needs, and leave a visitor idle while the other's requests come
in. Liveness does not look at addresses (the mutex, the pool and main are shared)
and has one. The theorems below hold for any number.

*Fairness (`posts_feed`).* A client that wants the rest of the feed asks for it
(weak fairness of `FeedMember`), and not every attempt to read a page fails
(strong fairness of `FeedList`: a failing database call and a successful one
alternate, so weak fairness would promise nothing). Authors, Fidolin and opening
a feed are not forced.

*Fairness (`server_liveness`).* Weak fairness of main, of RequireAuth and Login, of
statements (they end) and of time. Strong fairness of the limiter and of
`Acquire`: sync.Mutex and the pool serve those who wait in turn, so nobody is
passed over for ever. Nothing is assumed of clients, who may never send a body,
nor of signals, failures, sweeps or restarts. So `MainReturns` rests on the
deadline of Shutdown, and `Answered` speaks of requests that do not wait for
their client.

*Fairness (`fidolin_progress`).* Weak fairness of `Dispatch` and `Process`: the
Go runtime keeps scheduling runnable goroutines, the ticker fires, store calls
return, and Analyze returns (the heuristic does; an analyzer that hangs would
hang its worker and in the end the dispatcher, which no deadline in the code
prevents). Weak fairness of `Age`: time passes. Strong fairness of
`StopWaiting`: select picks at random when both channels are ready, so it does
not prefer the ticker for ever. Nothing is assumed of authors, administrators,
faults or restarts. So `EventuallyDecided` says under which condition it holds:
some process runs again and again, whichever and with any pauses. Then every post there is gets decided, also one that a crash or a lost claim has left
'processing'. A process that is never started again leaves its posts undecided.

## Proofs

All theorems hold for every value of the constants that the named assumptions
of the modules allow; a hypothesis beyond them is said below. Each invariant was
model-checked on an instance before it was proved.

The theorems of the circle hold for any finite sets of people and request slots, any groups
and invitations, any limit and both settings of RequireEmailVerification and
Faults; they rest on the named assumptions `TablesAssumption`,
`GroupAssumption` and `FaultsAssumption`, which TLC evaluates in every run.

* `CircleIsConsistent`, `TypeCorrect`: `Consistent` = `TypeOK` /\
  `HandlersConsistent` /\ `TablesConsistent` is inductive. No part is inductive
  alone: a member row is well typed because the handler's invitation was issued,
  an issued invitation has an inviter inside its group because CreateInvite's
  member test cannot become stale (members are never removed), and a group with
  members has its owner among them because an invitation into a group without
  members cannot exist, which in turn needs `OneFounder`. `LocalsAgree` and
  `RowsAgree` state its second and third part on their own.
* `CircleImplementsTrust`: from `Consistent`, every action that writes `users`,
  `groups` or `group_members` is a step of `Trust` and all others stutter.
* `TrustIsRooted`, carried over as `ChainIsRooted` and `MembershipIsRooted`:
  rootedness is stated over sets ("a set of accounts that all have an inviter
  has one whose inviter is outside") and is inductive in `Trust` without any
  recursion or path.
* `OvershootIsBounded`: the invariant `RoomAccounted` also counts the requests
  that have seen room and not yet entered (`Heading`): seeing room takes a free
  slot of `Req`, entering gives it back.
* `AcceptedHasJoined`, `TokenIsKept`: `JoinsKept` and `TokensKept` say of every
  program counter that relies on an earlier write that the write has happened;
  `ArrivedFrame` shows that no other step leads there.
* `Circle_bounds_proofs`: how far concurrency misses the three promises whose
  runs end in a violation. All use the argument of `RoomAccounted`: a request that
  has passed its test counts as one that has acted, and a request passes the test
  only while nobody has acted.
  `BootstrapIsBounded` (no hypothesis) from `BootstrapAccounted`: a request is
  among the `Founders` only if it counted no user, so accounts without an
  inviter and founders together are never more than the request slots.
  `UseIsBounded` (hypothesis `~Faults`) from `UseAccounted` and `JoinersMark`:
  people who came in through an invitation are still being served, or the
  invitation is marked. `AccountsHaveGroups` (`~Faults`, any concurrency) from
  `AccountsHomed`: an account without a group has its registration in flight.
  The hypothesis cannot be dropped: a request that is cut off before the
  invitation is marked leaves one that can be used again (`circle_single_use`),
  and one cut off between `RegisterUser` and `RegisterJoin` an account without a
  group. What then still holds is `VerifiedAreGrouped` (no hypothesis): a token is
  written after the join, so nobody verifies the address of such an account.
  Its invariant says of every token, handed out or about to be, that its account
  has a group or needed no invitation.

* `Fidolin_proofs` (from `FidolinAssumption`, for any posts, processes, workers,
  batch size, settings, analyzer and number of faults). `JudgedAlways`: `Judged`
  = `TypeOK` /\ `RowSound` of every row /\ `JobSound` of every worker /\ a batch
  is held only while it is being sent /\ what is held exists. It is inductive
  whether or not claims outlive StaleAfter, because a write sets all columns of
  a row together and its locals stem from this very post. It also says that rows
  locked by a claim are still queued and locked by one claim only. From it
  `TypeCorrect`, `UnjudgedIsHidden`. `AnalysedAsSet` adds `Current`: whoever works
  on a post has it on record (`inForce`) that the present thresholds are in force,
  and the thresholds in its locals were; so whatever is written stems from one
  score and one of those thresholds. `DecisionsAreFinal` adds that a post
  comes into a hand only from the queue or from another hand (`HandsTake`), and
  that only a hand changes a decision (`UnheldStands`).
  `OneHolderUnlessSlow` (hypothesis `~SlowWork`) from `Exclusive`: a held post is
  'processing' and not stale, so neither a claim nor ReclaimStale can touch it.
  `fidolin_exclusive` shows the hypothesis is needed.
  `DecidedOnceUnlessSlowAndFickle` (hypothesis `~SlowWork` or `Unanimous`): every
  step is a step of `Verdict` or a stutter. A write of a post that is not decided
  is `Decide` (`WriteDecides`); one of a decided post does not happen while a
  post is in one hand, and writes what is there already (`Settled`) if all
  verdicts on the post come to the same status under all settings. With slow
  work and an analyzer or thresholds that change, the second writer wins, as the
  hazard at store.go:70 says.
* `PostsAreConsistent` (`Posts_proofs`, from `PostsAssumption` alone, for any
  people, groups, posts, requests, readers, limits and cursors): `Consistent` =
  `Written` /\ `ReadersPaged` /\ `Shown`. `Written` says that what a request
  has tested is still so when it relies on it and that an id is drawn and
  written once. `ReadersPaged` says that no post shown so far is older than the
  cursor and that posts that are due are visible in the reader's group; with it
  `NothingMissed` and `PagesDescend` are inductive. The two facts about pages
  they need, that a page has no holes (`PageHasNoHoles`) and is empty only when
  there is nothing to show (`PageNotEmpty`), follow from counting finite sets
  and from the well-foundedness of the natural numbers. From it
  `PostsTypeCorrect`, `WrittenInsideHolds`, `NothingIsMissed`,
  `PagesAlwaysDescend`, and the action properties `AuthorAlwaysDecides` and
  `FeedAlwaysStaysInside`.

* `LimiterRefinesBucket`, `SuspensionHolds`, `TypeCorrect`
  (`Server_proofs`, for any addresses, accounts, requests, environments,
  lifetimes, drain times and pools; from `RequestsAssumption`,
  `RateLimiterAssumption`, `SessionAssumption`, `ServerAssumption` and
  `BurstAssumption`). `Sound` is inductive. Its part `LimiterSound` says that a
  request holds a limiter only between limiterFor and Allow and that this is
  then the one of the map, just seen (so no sweep drops it); and that a limiter
  has at least as many tokens as its visitor has been idle units of time, or is
  full. As a burst is at most IdleAfter, a visitor that is dropped had a full
  bucket, and dropping it changes nothing the contract sees. In the contract only
  a unit of time (`Refill`, which flips `now`) gives a token back and only the
  begin and end of a process (`Boot`, `Die`) fill a bucket, so that a limiter
  dropped early cannot pass for either. `SessionSound` says
  that `left + barred <= TTL` while a token is alive, and that Login's row was
  usable in the very moment at which it issues. `MainSound` are the ranges of
  main's variables. Steps of a request that do not touch the limiter are treated as one kind of
  step (`Plain`).

Only model-checked: liveness (`PagingEnds`, `MainReturns`, `Answered`,
`EventuallyDecided`, `RunReturns`). It rests on fairness and on what is enabled,
which the prover does not reach. Every other property of the passing runs is
stated by a theorem, some under the hypotheses named above.

## Findings

The five violated runs above. In each the document states a promise and the code
keeps it only without concurrency, without failures, or with fast workers:
invitations can be used twice, limits overshot and
several bootstrap administrators created (each by a proved amount), a post judged
by two workers, and a post let through by default thresholds.

## Not modelled, and the plan

The circle came first (the product's promise and its worst races), then
Fidolin, then what reads from both, then the server around them; proofs followed
in the same order. What is left is to widen the proofs as the code changes.

Left out for good:

* `migrate.sh` and `dev_db.sh`: scripts an operator runs before the server, with
  no code of the server in them. Two runs of migrate.sh at the same time apply a
  migration twice (listed as a hazard); the constraints the migrations create
  are in `Tables`, `Fidolin` and `Posts`.
* A composition of `Circle`, `Fidolin` and `Posts`: they share `group_members`
  and `posts.status` only. `Join` adds one member, which is all `Trust` allows
  the circle (`CircleImplementsTrust`); `Judge` moves a post between any two
  statuses at any time, which includes what Fidolin writes (`TypeCorrect` of
  `Fidolin_proofs`). A joint model would add interleavings that each module
  already has as nondeterminism.
* An analyzer that hangs: nothing in the repository can hang in Analyze, and
  the code promises nothing about analyzers that do.
* Variables of the environment beyond the secret, the rate limit and the batch
  size: they appear as constants.
* Validation, hashing and token generation (pure functions on texts), the HTTP
  mapping of errors, and `RunOnce`, which only tests call.
