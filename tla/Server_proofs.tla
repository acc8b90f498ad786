--------------------------- MODULE Server_proofs ---------------------------
(***************************************************************************)
(* Proofs about Server: its types, that a suspension bites, and that the   *)
(* limiter is one bucket per address.  The inductive invariant is Sound.   *)
(***************************************************************************)
EXTENDS Server, FiniteSetTheorems, TLAPS

Place(q) == Chain[q.route][q.at]

(* A slot holds no request or one that is somewhere in its chain.          *)
Placed(q) == q = Idle \/ (q \in Request /\ q.at <= Len(Chain[q.route]))

(* The limiter has let q in.                                               *)
Passed(q) == q # Idle /\ \E k \in 1..(q.at - 1) : Chain[q.route][k] = "allow"

(* The chains, place by place.                                             *)
LEMMA ChainFacts ==
    /\ Route = {"login", "read", "write"}
    /\ Len(Chain["login"]) = 7 /\ Len(Chain["read"]) = 3 /\ Len(Chain["write"]) = 9
    /\ Chain["login"][1] = "lock" /\ Chain["login"][2] = "lookup"
    /\ Chain["login"][3] = "allow" /\ Chain["login"][4] = "body"
    /\ Chain["login"][5] = "conn" /\ Chain["login"][6] = "query"
    /\ Chain["login"][7] = "issue"
    /\ Chain["read"][1] = "auth" /\ Chain["read"][2] = "conn"
    /\ Chain["read"][3] = "query"
    /\ Chain["write"][1] = "auth" /\ Chain["write"][2] = "lock"
    /\ Chain["write"][3] = "lookup" /\ Chain["write"][4] = "allow"
    /\ Chain["write"][5] = "body" /\ Chain["write"][6] = "conn"
    /\ Chain["write"][7] = "query" /\ Chain["write"][8] = "conn"
    /\ Chain["write"][9] = "query"
BY DEF Route, Chain

(* A place is where the chain of the route says.                           *)
LEMMA Places ==
    ASSUME NEW q, Placed(q), q # Idle
    PROVE  /\ q \in Request /\ q.at \in 1..9
           /\ Len(Chain[q.route]) \in 1..9 /\ q.at <= Len(Chain[q.route])
           /\ Place(q) = "auth" => q.route \in {"read", "write"} /\ q.at = 1
           /\ Place(q) = "lookup" <=> \/ q.route = "login" /\ q.at = 2
                                      \/ q.route = "write" /\ q.at = 3
           /\ Place(q) = "allow" <=> \/ q.route = "login" /\ q.at = 3
                                     \/ q.route = "write" /\ q.at = 4
           /\ Place(q) = "query" => \/ q.route = "login" /\ q.at = 6
                                    \/ q.route = "write" /\ q.at \in {7, 9}
                                    \/ q.route = "read" /\ q.at = 3
           /\ Place(q) = "issue" <=> q.route = "login" /\ q.at = 7
<1>1. q \in Request /\ q.at \in 1..9 /\ q.at <= Len(Chain[q.route])
    BY DEF Placed, Request
<1>2. CASE q.route = "login"
    BY <1>1, <1>2, ChainFacts DEF Place
<1>3. CASE q.route = "read"
    BY <1>1, <1>3, ChainFacts DEF Place
<1>4. CASE q.route = "write"
    BY <1>1, <1>4, ChainFacts DEF Place
<1> QED BY <1>1, <1>2, <1>3, <1>4, ChainFacts DEF Request

(* Who has been let in, in a given chain.                                  *)
LEMMA PassedPlaces ==
    ASSUME NEW q, Placed(q), q # Idle
    PROVE  Passed(q) <=> \/ q.route = "login" /\ q.at >= 4
                         \/ q.route = "write" /\ q.at >= 5
<1>1. q.route \in Route /\ q.at \in 1..9 /\ q.at <= Len(Chain[q.route])
    BY DEF Placed, Request
<1>2. CASE q.route = "login"
    <2>1. Passed(q) => q.at >= 4
        BY <1>1, <1>2, ChainFacts DEF Passed
    <2>2. q.at >= 4 => Passed(q)
        BY <1>1, <1>2, ChainFacts DEF Passed
    <2> QED BY <1>2, <2>1, <2>2
<1>3. CASE q.route = "read"
    BY <1>1, <1>3, ChainFacts DEF Passed
<1>4. CASE q.route = "write"
    <2>1. Passed(q) => q.at >= 5
        BY <1>1, <1>4, ChainFacts DEF Passed
    <2>2. q.at >= 5 => Passed(q)
        BY <1>1, <1>4, ChainFacts DEF Passed
    <2> QED BY <1>4, <2>1, <2>2
<1> QED BY <1>1, <1>2, <1>3, <1>4, ChainFacts

(* One place further in the chain.                                         *)
Further(q) == [q EXCEPT !.at = @ + 1]

(* c.Next() goes one place further or ends the request.                    *)
LEMMA AdvancedPlaced ==
    ASSUME NEW q, Placed(q), q # Idle
    PROVE  \/ Advanced(q) = Idle /\ q.at = Len(Chain[q.route])
           \/ /\ q.at < Len(Chain[q.route])
              /\ Advanced(q) = Further(q)
              /\ Further(q) \in Request /\ Placed(Further(q)) /\ Further(q) # Idle
              /\ Further(q).at = q.at + 1 /\ Further(q).route = q.route
              /\ Further(q).addr = q.addr /\ Further(q).user = q.user
              /\ Further(q).lim = q.lim /\ Further(q).usable = q.usable
<1>1. q \in Request /\ q.at \in 1..9
      /\ q.at <= Len(Chain[q.route]) /\ Len(Chain[q.route]) \in 1..9
    BY Places
<1>2. CASE q.at = Len(Chain[q.route])
    BY <1>2 DEF Advanced
<1>3. CASE q.at < Len(Chain[q.route])
    <2>1. Advanced(q) = Further(q)
        BY <1>1, <1>3 DEF Advanced, Further
    <2>2. /\ Further(q) \in Request
          /\ Further(q).at = q.at + 1 /\ Further(q).route = q.route
          /\ Further(q).addr = q.addr /\ Further(q).user = q.user
          /\ Further(q).lim = q.lim /\ Further(q).usable = q.usable
        <3>1. q.at + 1 \in 1..9
            <4>1. \A n, m \in 1..9 : n < m => n + 1 \in 1..9
                OBVIOUS
            <4> QED BY <1>1, <1>3, <4>1, Zenon
        <3>2. q = [route |-> q.route, at |-> q.at, addr |-> q.addr, user |-> q.user,
                   lim |-> q.lim, usable |-> q.usable]
            BY <1>1 DEF Request
        <3>3. Further(q) = [route |-> q.route, at |-> q.at + 1, addr |-> q.addr,
                            user |-> q.user, lim |-> q.lim, usable |-> q.usable]
            BY <3>2 DEF Further
        <3>4. /\ q.route \in Route /\ q.addr \in Addr /\ q.user \in User
              /\ q.lim \in Gen \cup {None} /\ q.usable \in BOOLEAN
            BY <1>1 DEF Request
        <3> QED BY <3>1, <3>3, <3>4 DEF Request
    <2>3. Further(q) # Idle
        BY <1>1, <2>2 DEF Idle
    <2>4. Placed(Further(q))
        BY <1>1, <1>3, <2>2 DEF Placed
    <2> QED BY <1>3, <2>1, <2>2, <2>3, <2>4
<1> QED BY <1>1, <1>2, <1>3
-----------------------------------------------------------------------------
Slots == /\ req \in [Req -> Request \cup {Idle}]
         /\ \A r \in Req : Placed(req[r])

Moved(r, q) == req' = [req EXCEPT ![r] = q]

(* What a slot becomes in a step that does not look into the limiter: free,*)
(* taken, or one place further.                                            *)
Plain(q, next) ==
    \/ next = Idle
    \/ q = Idle /\ next \in Request /\ next.at = 1 /\ next.lim = None
    \/ /\ q # Idle /\ next # Idle
       /\ Place(q) \notin {"lookup", "allow"}
       /\ next.route = q.route /\ next.at = q.at + 1
       /\ next.addr = q.addr /\ next.lim = q.lim
       /\ Place(next) = "issue" /\ next.usable => next.user \in usable

(* At in terms of the slot.                                                *)
LEMMA AtPlace ==
    ASSUME NEW r, NEW p
    PROVE  At(r, p) <=> r \in Req /\ req[r] # Idle /\ Place(req[r]) = p
BY DEF At, Busy, Place

(* Writing a request into a slot keeps the slots.                          *)
LEMMA SlotWritten ==
    ASSUME Slots, NEW r \in Req, NEW q, Placed(q), Moved(r, q)
    PROVE  Slots' /\ req'[r] = q /\ \A s \in Req \ {r} : req'[s] = req[s]
<1>1. req' \in [Req -> Request \cup {Idle}]
    BY DEF Slots, Placed, Moved
<1>2. req'[r] = q /\ \A s \in Req \ {r} : req'[s] = req[s]
    BY DEF Slots, Moved
<1> QED BY <1>1, <1>2 DEF Slots

(* Forward, away from the limiter and from Login's query, is a plain move. *)
LEMMA ForwardPlain ==
    ASSUME Slots, NEW r \in Req, req[r] # Idle, Forward(r),
           Place(req[r]) \notin {"lookup", "allow"},
           Place(req[r]) # "query" \/ req[r].route # "login"
    PROVE  \E q : Placed(q) /\ Plain(req[r], q) /\ Moved(r, q)
<1> DEFINE q0 == req[r]
           q1 == Advanced(q0)
<1>1. Placed(q0)
    BY DEF Slots
<1>2. Moved(r, q1)
    BY DEF Forward, Moved
<1>3. CASE q1 = Idle
    <2>1. Placed(q1) /\ Plain(q0, q1)
        BY <1>3 DEF Placed, Plain
    <2> QED BY <1>2, <2>1
<1>4. CASE q1 # Idle
    <2>1. /\ Placed(q1) /\ q1.at = q0.at + 1 /\ q1.route = q0.route
          /\ q1.addr = q0.addr /\ q1.lim = q0.lim
        BY <1>1, <1>4, AdvancedPlaced
    <2>2. Place(q1) # "issue"
        <3>1. SUFFICES ASSUME Place(q1) = "issue" PROVE FALSE
            OBVIOUS
        <3>2. q1.route = "login" /\ q1.at = 7
            BY <1>4, <2>1, <3>1, Places
        <3>3. q0.route = "login" /\ q0.at \in 1..9
            BY <1>1, <2>1, <3>2, Places
        <3>4. \A n \in 1..9 : n + 1 = 7 => n = 6
            OBVIOUS
        <3>5. q0.at = 6
            BY <2>1, <3>2, <3>3, <3>4, Zenon
        <3> QED BY <3>3, <3>5, ChainFacts DEF Place
    <2>3. Plain(q0, q1)
        BY <1>4, <2>1, <2>2 DEF Plain
    <2> QED BY <1>2, <2>1, <2>3
<1> QED BY <1>3, <1>4

(* Ending a request is a plain move.                                       *)
LEMMA AbortPlain ==
    ASSUME Slots, NEW r \in Req, Abort(r)
    PROVE  \E q : Placed(q) /\ Plain(req[r], q) /\ Moved(r, q)
<1>1. Placed(Idle) /\ Plain(req[r], Idle) /\ Moved(r, Idle)
    BY DEF Placed, Plain, Abort, Moved
<1> QED BY <1>1

(* Login's query reads whether the account is usable.                      *)
LEMMA QueryPlain ==
    ASSUME Slots, NEW r \in Req, GetUserByEmail(r)
    PROVE  \E q : Placed(q) /\ Plain(req[r], q) /\ Moved(r, q)
<1> DEFINE q0 == req[r]
           b  == q0.user \in usable
           q1 == [Advanced(q0) EXCEPT !.usable = b]
<1>1. Placed(q0) /\ q0 # Idle /\ Place(q0) = "query" /\ q0.route = "login"
    BY AtPlace DEF Slots, GetUserByEmail
<1>2. q0.at = 6
    BY <1>1, Places
<1>3. /\ Advanced(q0) \in Request /\ Advanced(q0).at = 7
      /\ Advanced(q0).route = q0.route /\ Advanced(q0).addr = q0.addr
      /\ Advanced(q0).lim = q0.lim /\ Advanced(q0).user = q0.user
    <2>1. Len(Chain[q0.route]) = 7
        BY <1>1, ChainFacts
    <2>2. q0.at # Len(Chain[q0.route])
        BY <1>2, <2>1
    <2> HIDE DEF q0
    <2>3. /\ Advanced(q0) = Further(q0) /\ Further(q0) \in Request
          /\ Further(q0).at = q0.at + 1 /\ Further(q0).route = q0.route
          /\ Further(q0).addr = q0.addr /\ Further(q0).user = q0.user
          /\ Further(q0).lim = q0.lim
        BY <1>1, <2>2, AdvancedPlaced, Zenon
    <2> QED BY <1>2, <2>3
<1>4. Moved(r, q1)
    BY DEF GetUserByEmail, Moved
<1>5. /\ q1 \in Request /\ q1.at = 7 /\ q1.route = q0.route /\ q1.addr = q0.addr
      /\ q1.lim = q0.lim /\ q1.user = q0.user /\ q1.usable = b
    <2>1. b \in BOOLEAN
        OBVIOUS
    <2> HIDE DEF b
    <2> QED BY <1>3, <2>1 DEF Request
<1>6. q1 # Idle
    BY <1>5 DEF Idle
<1>7. Placed(q1)
    BY <1>1, <1>5, ChainFacts DEF Placed
<1>8. Plain(q0, q1)
    <2>1. q1.at = q0.at + 1
        BY <1>2, <1>5
    <2>2. q1.usable => q1.user \in usable
        BY <1>5
    <2> HIDE DEF q0, q1
    <2> QED BY <1>1, <1>5, <1>6, <2>1, <2>2 DEF Plain
<1> HIDE DEF q1
<1> QED BY <1>4, <1>7, <1>8

(* A new request is a plain move.                                          *)
LEMMA BeginPlain ==
    ASSUME Slots, NEW r \in Req, NEW route \in Route, NEW a \in Addr, NEW u \in User,
           Begin(r, route, a, u)
    PROVE  \E q : Placed(q) /\ Plain(req[r], q) /\ Moved(r, q)
<1> DEFINE q1 == [route |-> route, at |-> 1, addr |-> a, user |-> u,
                  lim |-> None, usable |-> FALSE]
<1>2. q1 \in Request
    BY DEF Request
<1>3. q1.at = 1 /\ q1.lim = None /\ q1.route = route
    OBVIOUS
<1>4. Moved(r, q1) /\ req[r] = Idle
    BY DEF Begin, Moved
<1> HIDE DEF q1
<1>5. 1 <= Len(Chain[q1.route])
    BY <1>3, ChainFacts
<1>6. Placed(q1) /\ Plain(req[r], q1)
    BY <1>2, <1>3, <1>4, <1>5 DEF Placed, Plain
<1> QED BY <1>4, <1>6

(* The steps of requests that do not look into the limiter.                *)
PlainStep(r) ==
    \/ \E route \in Route, a \in Addr, u \in User : Begin(r, route, a, u)
    \/ Body(r) \/ Acquire(r) \/ Query(r) \/ Fails(r) \/ Authenticate(r)
    \/ Lock(r) /\ UNCHANGED <<sessionVars, serverVars>>

(* Each of them is a plain move and leaves buckets and accounts alone.     *)
LEMMA PlainStepMoves ==
    ASSUME Slots, NEW r \in Req, PlainStep(r)
    PROVE  /\ \E q : Placed(q) /\ Plain(req[r], q) /\ Moved(r, q)
           /\ UNCHANGED <<perMin, visitors, tokens, now, usable, barred, serverVars>>
           /\ mu' \in {mu, r}
<1>1. CASE \E route \in Route, a \in Addr, u \in User : Begin(r, route, a, u)
    BY <1>1, BeginPlain DEF Begin, limiterVars, sessionVars
<1>2. CASE Body(r)
    BY <1>2, ForwardPlain, AtPlace DEF Body, limiterVars, sessionVars
<1>3. CASE Acquire(r)
    BY <1>3, ForwardPlain, AbortPlain, AtPlace DEF Acquire, limiterVars, sessionVars
<1>4. CASE Query(r)
    BY <1>4, ForwardPlain, QueryPlain, AtPlace
    DEF Query, GetUserByEmail, limiterVars, sessionVars
<1>5. CASE Fails(r)
    BY <1>5, AbortPlain DEF Fails, limiterVars, sessionVars
<1>6. CASE Authenticate(r)
    BY <1>6, ForwardPlain, AbortPlain, AtPlace
    DEF Authenticate, RequireAuth, Login, limiterVars, sessionVars
<1>7. CASE Lock(r) /\ UNCHANGED <<sessionVars, serverVars>>
    BY <1>7, ForwardPlain, AtPlace DEF Lock, sessionVars
<1> QED BY <1>1, <1>2, <1>3, <1>4, <1>5, <1>6, <1>7 DEF PlainStep
-----------------------------------------------------------------------------
(* A request holds a limiter only between limiterFor and Allow, and then   *)
(* it is that of the map, just seen.                                       *)
Holds(q) ==
    /\ q.lim # None <=> Place(q) = "allow"
    /\ Place(q) = "allow" => visitors[q.addr] = [lim |-> q.lim, age |-> 0]

(* A limiter has gained a token in each unit its visitor has been idle.    *)
Kept(a) ==
    visitors[a] # NoVisitor =>
        /\ visitors[a].lim \in Gen
        /\ \/ tokens[a][visitors[a].lim] >= visitors[a].age
           \/ tokens[a][visitors[a].lim] = BurstOf(perMin)

LimiterSound ==
    /\ Slots
    /\ LimiterType
    /\ \A r \in Req : req[r] # Idle => Holds(req[r])
    /\ \A a \in Addr : Kept(a)
    /\ perMin = 0 => \A a \in Addr : visitors[a] = NoVisitor
    /\ main = "down" => \A r \in Req : req[r] = Idle

(* What the abstract bucket sees.                                          *)
Inside == [r \in Req |-> IF LetIn(r) THEN req[r].addr ELSE None]
Now == [a \in Addr |-> TokensOf(a)]

(* One slot moves, and at most its own request enters or leaves.           *)
LEMMA InsideMoved ==
    ASSUME Slots, NEW r \in Req, NEW q, Placed(q), Moved(r, q)
    PROVE  Inside' = [Inside EXCEPT ![r] = IF Passed(q) THEN q.addr ELSE None]
<1>1. req'[r] = q /\ \A s \in Req \ {r} : req'[s] = req[s]
    BY SlotWritten
<1>2. \A s \in Req : (LetIn(s))' <=> Passed(req'[s])
    BY DEF LetIn, Busy, Passed
<1>3. \A s \in Req : LetIn(s) <=> Passed(req[s])
    BY DEF LetIn, Busy, Passed
<1>4. Inside = [s \in Req |-> IF Passed(req[s]) THEN req[s].addr ELSE None]
    BY <1>3 DEF Inside
<1>5. Inside' = [s \in Req |-> IF Passed(req'[s]) THEN req'[s].addr ELSE None]
    BY <1>2 DEF Inside
<1> QED BY <1>1, <1>4, <1>5

(* A plain move lets nobody in.                                            *)
LEMMA PlainPassed ==
    ASSUME NEW q, NEW next, Placed(q), Placed(next), Plain(q, next)
    PROVE  \/ next = Idle
           \/ ~Passed(q) /\ ~Passed(next)
           \/ Passed(q) /\ Passed(next) /\ next.addr = q.addr
<1>1. CASE q = Idle /\ next # Idle /\ next.at = 1
    BY <1>1, PassedPlaces DEF Passed
<1>2. CASE /\ q # Idle /\ next # Idle /\ Place(q) \notin {"lookup", "allow"}
           /\ next.route = q.route /\ next.at = q.at + 1 /\ next.addr = q.addr
    <2>1. \A n \in 1..9 : /\ n + 1 >= 4 <=> n >= 4 \/ n = 3
                          /\ n + 1 >= 5 <=> n >= 5 \/ n = 4
        OBVIOUS
    <2>2. q.at \in 1..9 /\ (q.route = "login" => q.at # 3)
          /\ (q.route = "write" => q.at # 4)
        BY <1>2, Places
    <2>3. Passed(next) <=> Passed(q)
        <3>1. Passed(next) <=> \/ q.route = "login" /\ q.at + 1 >= 4
                               \/ q.route = "write" /\ q.at + 1 >= 5
            BY <1>2, PassedPlaces
        <3>2. Passed(q) <=> \/ q.route = "login" /\ q.at >= 4
                            \/ q.route = "write" /\ q.at >= 5
            BY <1>2, PassedPlaces
        <3> QED BY <2>1, <2>2, <3>1, <3>2, Zenon
    <2> QED BY <1>2, <2>3
<1> QED BY <1>1, <1>2 DEF Plain

(* A plain move takes no limiter.                                          *)
LEMMA PlainHolds ==
    ASSUME NEW q, NEW next, Placed(q), Placed(next), Plain(q, next), next # Idle,
           q # Idle => Holds(q)
    PROVE  next.lim = None /\ Place(next) # "allow"
<1>1. CASE q = Idle /\ next.at = 1 /\ next.lim = None
    BY <1>1, Places
<1>2. CASE /\ q # Idle /\ Place(q) \notin {"lookup", "allow"}
           /\ next.route = q.route /\ next.at = q.at + 1 /\ next.lim = q.lim
    <2>1. next.lim = None
        BY <1>2 DEF Holds
    <2>2. \A n \in 1..9 : (n + 1 = 3 => n = 2) /\ (n + 1 = 4 => n = 3)
        OBVIOUS
    <2>3. q.at \in 1..9 /\ ~(q.route = "login" /\ q.at = 2)
          /\ ~(q.route = "write" /\ q.at = 3)
        BY <1>2, Places
    <2>4. Place(next) = "allow" <=> \/ q.route = "login" /\ q.at + 1 = 3
                                    \/ q.route = "write" /\ q.at + 1 = 4
        BY <1>2, Places
    <2> QED BY <2>1, <2>2, <2>3, <2>4
<1> QED BY <1>1, <1>2 DEF Plain

(* A plain move keeps the limiter sound, and the bucket sees at most a     *)
(* request that leaves.                                                    *)
LEMMA PlainKeeps ==
    ASSUME LimiterSound, NEW r \in Req, NEW q, Placed(q), Plain(req[r], q),
           Moved(r, q), UNCHANGED <<perMin, visitors, tokens, now, main>>,
           main # "down", mu' \in Req \cup {None}
    PROVE  LimiterSound' /\ [Promised!Next]_Promised!bucketVars
<1> USE DEF LimiterSound
<1>1. Slots' /\ req'[r] = q /\ \A s \in Req \ {r} : req'[s] = req[s]
    BY SlotWritten
<1>2. LimiterType'
    BY DEF LimiterType
<1>4. LimiterSound'
    <2>1. ASSUME NEW s \in Req, req'[s] # Idle PROVE Holds(req[s])'
        <3>1. CASE s = r
            <4>1. q # Idle /\ Placed(req[r]) /\ (req[r] # Idle => Holds(req[r]))
                BY <1>1, <2>1, <3>1 DEF Slots
            <4>2. q.lim = None /\ Place(q) # "allow"
                BY <4>1, PlainHolds
            <4> QED BY <1>1, <3>1, <4>2 DEF Holds, Place
        <3>2. CASE s # r
            <4>1. req'[s] = req[s] /\ Holds(req[s])
                BY <1>1, <2>1, <3>2
            <4> QED BY <4>1 DEF Holds, Place
        <3> QED BY <3>1, <3>2
    <2>2. \A a \in Addr : Kept(a)'
        BY DEF Kept
    <2> QED BY <1>1, <1>2, <2>1, <2>2
<1>5. Now' = Now
    BY DEF Now, TokensOf, NoVisitor
<1>6. Inside' = Inside \/ Inside' = [Inside EXCEPT ![r] = None]
    <2>1. Inside' = [Inside EXCEPT ![r] = IF Passed(q) THEN q.addr ELSE None]
        BY InsideMoved
    <2>2. Inside[r] = IF Passed(req[r]) THEN req[r].addr ELSE None
        BY DEF Inside, LetIn, Busy, Passed
    <2>3. Inside = [Inside EXCEPT ![r] = Inside[r]]
        BY DEF Inside
    <2>4. \/ q = Idle
          \/ ~Passed(req[r]) /\ ~Passed(q)
          \/ Passed(req[r]) /\ Passed(q) /\ q.addr = req[r].addr
        BY PlainPassed DEF Slots
    <2>5. CASE q = Idle
        BY <2>1, <2>5 DEF Passed
    <2>6. CASE (IF Passed(q) THEN q.addr ELSE None) = Inside[r]
        BY <2>1, <2>3, <2>6
    <2> QED BY <2>2, <2>4, <2>5, <2>6
<1>7. [Promised!Next]_Promised!bucketVars
    BY <1>5, <1>6
    DEF Promised!Next, Promised!Leave, Promised!bucketVars, Inside, Now
<1> QED BY <1>4, <1>7

(* Advanced with the limiter written into the request.                     *)
LEMMA Handed ==
    ASSUME NEW q, Placed(q), q # Idle, Place(q) \in {"lookup", "allow"},
           NEW g \in Gen \cup {None}
    PROVE  LET next == [Advanced(q) EXCEPT !.lim = g] IN
           /\ Placed(next) /\ next # Idle
           /\ next.addr = q.addr /\ next.lim = g
           /\ Place(q) = "lookup" => Place(next) = "allow" /\ ~Passed(next) /\ ~Passed(q)
           /\ Place(q) = "allow" =>
                 Place(next) \notin {"allow", "issue"} /\ Passed(next) /\ ~Passed(q)
<1> DEFINE next == [Advanced(q) EXCEPT !.lim = g]
<1>1. q \in Request /\ \/ q.route = "login" /\ q.at \in {2, 3}
                       \/ q.route = "write" /\ q.at \in {3, 4}
    BY Places
<1>2. q.at # Len(Chain[q.route])
    BY <1>1, ChainFacts
<1>3. /\ Advanced(q) \in Request
      /\ Advanced(q).at = q.at + 1 /\ Advanced(q).route = q.route
      /\ Advanced(q).addr = q.addr
    <2>1. /\ Advanced(q) = Further(q) /\ Further(q) \in Request
          /\ Further(q).at = q.at + 1 /\ Further(q).route = q.route
          /\ Further(q).addr = q.addr
        BY <1>2, AdvancedPlaced, Zenon
    <2> QED BY <2>1
<1>4. /\ next \in Request /\ next.at = q.at + 1 /\ next.route = q.route
      /\ next.addr = q.addr /\ next.lim = g
    BY <1>3 DEF Request
<1>5. next # Idle
    BY <1>4 DEF Request, Idle
<1>6. Placed(next)
    <2>1. q.at + 1 <= Len(Chain[q.route])
        <3>1. CASE q.route = "login"
            BY <1>1, <3>1, ChainFacts
        <3>2. CASE q.route = "write"
            BY <1>1, <3>2, ChainFacts
        <3> QED BY <1>1, <3>1, <3>2
    <2> HIDE DEF next
    <2> QED BY <1>4, <2>1 DEF Placed
<1> HIDE DEF next
<1>7. /\ Place(q) = "lookup" => Place(next) = "allow" /\ ~Passed(next) /\ ~Passed(q)
      /\ Place(q) = "allow" =>
            Place(next) \notin {"allow", "issue"} /\ Passed(next) /\ ~Passed(q)
    <2>1. CASE q.route = "login"
        <3>1. /\ Place(q) = "lookup" => q.at = 2 /\ next.at = 3
              /\ Place(q) = "allow" => q.at = 3 /\ next.at = 4
            BY <1>4, <2>1, Places
        <3> QED BY <1>4, <1>5, <1>6, <2>1, <3>1, Places, PassedPlaces
    <2>2. CASE q.route = "write"
        <3>1. /\ Place(q) = "lookup" => q.at = 3 /\ next.at = 4
              /\ Place(q) = "allow" => q.at = 4 /\ next.at = 5
            BY <1>4, <2>2, Places
        <3> QED BY <1>4, <1>5, <1>6, <2>2, <3>1, Places, PassedPlaces
    <2> QED BY <1>1, <2>1, <2>2
<1> QED BY <1>4, <1>5, <1>6, <1>7 DEF next

(* A burst is at least one token.                                          *)
LEMMA BurstPositive == ASSUME NEW n \in Int PROVE BurstOf(n) \in Nat \ {0}
BY DEF BurstOf

(* A move into or out of the limiter by one request.                       *)
LEMMA HandedSlots ==
    ASSUME Slots, NEW r \in Req, req[r] # Idle,
           Place(req[r]) \in {"lookup", "allow"},
           NEW g \in Gen \cup {None}, Moved(r, [Advanced(req[r]) EXCEPT !.lim = g])
    PROVE  /\ Slots'
           /\ \A s \in Req \ {r} : req'[s] = req[s]
           /\ req'[r] # Idle /\ req'[r].addr = req[r].addr /\ req'[r].lim = g
           /\ Place(req[r]) = "lookup" => Place(req'[r]) = "allow" /\ Inside' = Inside
           /\ Place(req[r]) = "allow" =>
                 /\ Place(req'[r]) \notin {"allow", "issue"}
                 /\ Inside[r] = None
                 /\ Inside' = [Inside EXCEPT ![r] = req[r].addr]
<1> DEFINE next == [Advanced(req[r]) EXCEPT !.lim = g]
<1>1. Placed(req[r])
    BY DEF Slots
<1>2. /\ Placed(next) /\ next # Idle
      /\ next.addr = req[r].addr /\ next.lim = g
      /\ Place(req[r]) = "lookup" =>
            Place(next) = "allow" /\ ~Passed(next) /\ ~Passed(req[r])
      /\ Place(req[r]) = "allow" =>
            Place(next) \notin {"allow", "issue"} /\ Passed(next) /\ ~Passed(req[r])
    BY <1>1, Handed
<1> HIDE DEF next
<1>3. Moved(r, next)
    BY DEF next
<1>4. Slots' /\ req'[r] = next /\ \A s \in Req \ {r} : req'[s] = req[s]
    BY <1>2, <1>3, SlotWritten
<1>5. Inside' = [Inside EXCEPT ![r] = IF Passed(next) THEN next.addr ELSE None]
    BY <1>2, <1>3, InsideMoved
<1>6. Inside[r] = IF Passed(req[r]) THEN req[r].addr ELSE None
    BY DEF Inside, LetIn, Busy, Passed
<1>7. Inside = [Inside EXCEPT ![r] = Inside[r]]
    BY DEF Inside
<1> QED BY <1>2, <1>4, <1>5, <1>6, <1>7

(* No request gets to where Login issues a token.                          *)
OffIssue ==
    \A s \in Req : req'[s] \in {req[s], Idle} \/ Place(req'[s]) # "issue"

(* limiterFor keeps the limiter sound and no bucket sees it.               *)
LEMMA LookupKeeps ==
    ASSUME LimiterSound, NEW r \in Req, limiterFor(r), main' = main, main # "down"
    PROVE  LimiterSound' /\ [Promised!Next]_Promised!bucketVars /\ OffIssue
<1> USE DEF LimiterSound
<1> DEFINE a == req[r].addr
<1>1. req[r] # Idle /\ Place(req[r]) = "lookup" /\ a \in Addr /\ req[r] \in Request
      /\ mu' = None /\ perMin' = perMin /\ now' = now
    BY AtPlace DEF limiterFor, Slots, Placed, Request
<1>2. CASE DivisionPanics(r)
    <2>1. \E q : Placed(q) /\ Plain(req[r], q) /\ Moved(r, q)
        BY <1>2, AbortPlain DEF DivisionPanics
    <2>2. OffIssue
        BY <1>2 DEF DivisionPanics, Abort, Slots, OffIssue
    <2> QED BY <1>1, <1>2, <2>1, <2>2, PlainKeeps DEF DivisionPanics
<1>3. CASE Known(r)
    <2>1. /\ visitors[a] # NoVisitor /\ visitors[a].lim \in Gen
          /\ visitors' = [visitors EXCEPT ![a].age = 0]
          /\ Moved(r, [Advanced(req[r]) EXCEPT !.lim = visitors[a].lim])
          /\ tokens' = tokens
        BY <1>1, <1>3 DEF Known, Hand, Moved, Kept
    <2>2. /\ visitors' \in [Addr -> [lim : Gen \cup {None}, age : 0..(IdleAfter + 1)]]
          /\ visitors'[a] = [lim |-> visitors[a].lim, age |-> 0]
          /\ \A b \in Addr \ {a} : visitors'[b] = visitors[b]
        <3>1. visitors[a] \in [lim : Gen \cup {None}, age : 0..(IdleAfter + 1)]
            BY <1>1 DEF LimiterType
        <3>2. [visitors[a] EXCEPT !.age = 0] = [lim |-> visitors[a].lim, age |-> 0]
            BY <3>1
        <3>3. 0 \in 0..(IdleAfter + 1)
            BY RateLimiterAssumption
        <3> HIDE DEF a
        <3>4. visitors' = [visitors EXCEPT ![a] = [lim |-> visitors[a].lim, age |-> 0]]
            BY <1>1, <2>1, <3>2
        <3> QED BY <1>1, <2>1, <3>3, <3>4 DEF LimiterType
    <2>3. /\ Slots'
          /\ \A s \in Req \ {r} : req'[s] = req[s]
          /\ req'[r] # Idle /\ req'[r].addr = a /\ req'[r].lim = visitors[a].lim
          /\ Place(req'[r]) = "allow" /\ Inside' = Inside
        BY <1>1, <2>1, HandedSlots
    <2> HIDE DEF a
    <2>4. LimiterType'
        BY <1>1, <2>1, <2>2 DEF LimiterType
    <2>5. ASSUME NEW s \in Req, req'[s] # Idle PROVE Holds(req[s])'
        <3>1. CASE s = r
            BY <2>1, <2>2, <2>3, <3>1, RateLimiterAssumption DEF Holds, Place
        <3>2. CASE s # r
            <4>1. req'[s] = req[s] /\ Holds(req[s])
                BY <2>3, <2>5, <3>2
            <4>2. req[s].addr \in Addr
                BY <2>5, <4>1 DEF Slots, Request
            <4>3. visitors[a] = [lim |-> req[s].lim, age |-> 0] =>
                      visitors'[a] = visitors[a]
                BY <2>2
            <4> QED BY <2>2, <4>1, <4>2, <4>3 DEF Holds, Place
        <3> QED BY <3>1, <3>2
    <2>6. ASSUME NEW b \in Addr PROVE Kept(b)'
        <3>1. CASE b = a
            <4>1. tokens'[a][visitors[a].lim] >= 0
                BY <1>1, <2>1 DEF LimiterType, BurstOf
            <4> QED BY <2>1, <2>2, <3>1, <4>1 DEF Kept
        <3>2. CASE b # a
            BY <1>1, <2>1, <2>2, <3>2 DEF Kept
        <3> QED BY <3>1, <3>2
    <2>7. perMin # 0
        BY <1>1, <2>1 DEF a
    <2>8. LimiterSound'
        BY <1>1, <2>3, <2>4, <2>5, <2>6, <2>7
    <2>9. Now' = Now
        <3>1. ASSUME NEW b \in Addr PROVE TokensOf(b)' = TokensOf(b)
            <4>1. CASE b = a
                <5>1. visitors'[a] # NoVisitor
                    BY <2>1, <2>2, RateLimiterAssumption DEF NoVisitor
                <5> QED BY <1>1, <2>1, <2>2, <4>1, <5>1 DEF TokensOf
            <4>2. CASE b # a
                BY <1>1, <2>1, <2>2, <4>2 DEF TokensOf
            <4> QED BY <4>1, <4>2
        <3> QED BY <3>1 DEF Now
    <2>10. UNCHANGED Promised!bucketVars
        BY <1>1, <2>3, <2>9 DEF Promised!bucketVars, Inside, Now
    <2> QED BY <2>3, <2>8, <2>10 DEF OffIssue
<1>4. CASE Make(r, BurstOf(perMin))
    <2> DEFINE g == Unused(a)
    <2>1. /\ visitors[a] = NoVisitor /\ perMin # 0
          /\ visitors' = [visitors EXCEPT ![a] = [lim |-> g, age |-> 0]]
          /\ tokens' = [tokens EXCEPT ![a][g] = BurstOf(perMin)]
          /\ Moved(r, [Advanced(req[r]) EXCEPT !.lim = g])
        BY <1>4 DEF Make, Hand, Moved
    <2>2. \A s \in Req : req[s].addr = a => req[s].lim = None
        <3>1. SUFFICES ASSUME NEW s \in Req, req[s].addr = a, req[s].lim # None
                       PROVE  FALSE
            OBVIOUS
        <3>2. req[s] # Idle
            BY <3>1 DEF Idle
        <3>3. visitors[a] = [lim |-> req[s].lim, age |-> 0]
            BY <3>1, <3>2 DEF Holds
        <3> QED BY <2>1, <3>1, <3>3 DEF NoVisitor
    <2>3. g \in Gen
        <3>1. 0 \in Gen
            BY RequestsAssumption, FS_CardinalityType DEF Gen
        <3>2. \A s \in Req : ~(req[s].addr = a /\ req[s].lim = 0)
            BY <2>2, <3>1, RateLimiterAssumption
        <3> QED BY <3>1, <3>2 DEF Unused
    <2> HIDE DEF g
    <2>4. /\ visitors' \in [Addr -> [lim : Gen \cup {None}, age : 0..(IdleAfter + 1)]]
          /\ visitors'[a] = [lim |-> g, age |-> 0]
          /\ \A b \in Addr \ {a} : visitors'[b] = visitors[b]
        BY <1>1, <2>1, <2>3, RateLimiterAssumption DEF LimiterType
    <2>5. BurstOf(perMin) \in Nat \ {0}
        BY BurstPositive DEF LimiterType
    <2>6. /\ tokens' \in [Addr -> [Gen -> 0..BurstOf(perMin)]]
          /\ tokens'[a][g] = BurstOf(perMin)
          /\ \A b \in Addr \ {a} : tokens'[b] = tokens[b]
        BY <1>1, <2>1, <2>3, <2>5 DEF LimiterType
    <2>7. /\ Slots'
          /\ \A s \in Req \ {r} : req'[s] = req[s]
          /\ req'[r] # Idle /\ req'[r].addr = a /\ req'[r].lim = g
          /\ Place(req'[r]) = "allow" /\ Inside' = Inside
        BY <1>1, <2>1, <2>3, HandedSlots
    <2> HIDE DEF a
    <2>8. LimiterType'
        BY <1>1, <2>4, <2>6 DEF LimiterType, BurstOf
    <2>9. ASSUME NEW s \in Req, req'[s] # Idle PROVE Holds(req[s])'
        <3>1. CASE s = r
            BY <2>3, <2>4, <2>7, <3>1, RateLimiterAssumption DEF Holds, Place
        <3>2. CASE s # r
            <4>1. req'[s] = req[s] /\ Holds(req[s])
                BY <2>7, <2>9, <3>2
            <4>2. req[s].addr \in Addr
                BY <2>9, <4>1 DEF Slots, Request
            <4>3. Place(req[s]) = "allow" => req[s].addr # a
                BY <2>2, <4>1 DEF Holds
            <4> QED BY <2>4, <4>1, <4>2, <4>3 DEF Holds, Place
        <3> QED BY <3>1, <3>2
    <2>10. ASSUME NEW b \in Addr PROVE Kept(b)'
        <3>1. CASE b = a
            BY <1>1, <2>3, <2>4, <2>6, <3>1 DEF Kept, BurstOf
        <3>2. CASE b # a
            BY <1>1, <2>4, <2>6, <3>2 DEF Kept, BurstOf
        <3> QED BY <3>1, <3>2
    <2>11. LimiterSound'
        BY <1>1, <2>1, <2>7, <2>8, <2>9, <2>10
    <2>12. Now' = Now
        <3>1. ASSUME NEW b \in Addr PROVE TokensOf(b)' = TokensOf(b)
            <4>1. CASE b = a
                <5>1. visitors'[a] # NoVisitor
                    BY <2>3, <2>4, RateLimiterAssumption DEF NoVisitor
                <5> QED BY <1>1, <2>1, <2>4, <2>6, <4>1, <5>1 DEF TokensOf
            <4>2. CASE b # a
                BY <1>1, <2>4, <2>6, <4>2 DEF TokensOf, BurstOf
            <4> QED BY <4>1, <4>2
        <3> QED BY <3>1 DEF Now
    <2>13. UNCHANGED Promised!bucketVars
        BY <1>1, <2>7, <2>12 DEF Promised!bucketVars, Inside, Now
    <2> QED BY <2>7, <2>11, <2>13 DEF OffIssue
<1> QED BY <1>2, <1>3, <1>4 DEF limiterFor

(* Allow takes a token of the bucket of the address, and lets in.          *)
LEMMA AllowKeeps ==
    ASSUME LimiterSound, NEW r \in Req, Allow(r), main' = main, main # "down"
    PROVE  LimiterSound' /\ [Promised!Next]_Promised!bucketVars /\ OffIssue
<1> USE DEF LimiterSound
<1>0. req[r] # Idle /\ Place(req[r]) = "allow" /\ req[r].addr \in Addr
      /\ UNCHANGED <<perMin, mu, visitors, now>> /\ mu \in Req \cup {None}
    BY AtPlace DEF Allow, Slots, Placed, Request, LimiterType
<1> PICK a \in Addr, g \in Gen \cup {None} : a = req[r].addr /\ g = req[r].lim
    BY <1>0 DEF Slots, Request
<1>1. req[r] # Idle /\ Place(req[r]) = "allow" /\ a \in Addr
      /\ UNCHANGED <<perMin, mu, visitors, now>> /\ mu \in Req \cup {None}
    BY <1>0
<1>2. visitors[a] = [lim |-> g, age |-> 0] /\ g \in Gen
    BY <1>1 DEF Holds, Slots, Placed, Request
<1>3. visitors[a] # NoVisitor /\ visitors[a].lim = g /\ visitors[a].age = 0
    BY <1>2, RateLimiterAssumption DEF NoVisitor
<1>4. perMin \in Int /\ perMin # 0
    BY <1>1, <1>3 DEF LimiterType
<1>5. TokensOf(a) = tokens[a][g]
    BY <1>3 DEF TokensOf
<1>6. CASE Abort(r) /\ UNCHANGED tokens
    <2>1. \E q : Placed(q) /\ Plain(req[r], q) /\ Moved(r, q)
        BY <1>6, AbortPlain
    <2>2. OffIssue
        BY <1>6 DEF Abort, Slots, OffIssue
    <2> QED BY <1>1, <1>6, <2>1, <2>2, PlainKeeps
<1>7. CASE /\ Moved(r, [Advanced(req[r]) EXCEPT !.lim = None])
           /\ \/ perMin < 0 /\ tokens' = tokens
              \/ /\ perMin >= 0 /\ tokens[a][g] > 0
                 /\ tokens' = [tokens EXCEPT ![a][g] = @ - 1]
    <2>1. /\ Slots'
          /\ \A s \in Req \ {r} : req'[s] = req[s]
          /\ req'[r] # Idle /\ req'[r].lim = None
          /\ Place(req'[r]) \notin {"allow", "issue"}
          /\ Inside[r] = None
          /\ Inside' = [Inside EXCEPT ![r] = a]
        BY <1>1, <1>7, HandedSlots
    <2>2. /\ tokens' \in [Addr -> [Gen -> 0..BurstOf(perMin)]]
          /\ \A b \in Addr \ {a} : tokens'[b] = tokens[b]
          /\ \/ perMin < 0 /\ tokens'[a][g] = tokens[a][g]
             \/ /\ perMin >= 0 /\ tokens[a][g] > 0
                /\ tokens'[a][g] = tokens[a][g] - 1
        <3>1. CASE perMin < 0 /\ tokens' = tokens
            BY <3>1 DEF LimiterType
        <3>2. CASE /\ perMin >= 0 /\ tokens[a][g] > 0
                   /\ tokens' = [tokens EXCEPT ![a][g] = @ - 1]
            <4>1. BurstOf(perMin) \in Nat /\ tokens[a][g] \in 0..BurstOf(perMin)
                BY <1>1, <1>2, <1>4, BurstPositive DEF LimiterType
            <4>2. tokens[a][g] - 1 \in 0..BurstOf(perMin)
                BY <3>2, <4>1
            <4> QED BY <1>1, <1>2, <3>2, <4>2 DEF LimiterType
        <3> QED BY <1>7, <3>1, <3>2
    <2>3. LimiterType'
        BY <1>1, <2>2 DEF LimiterType, BurstOf
    <2>4. ASSUME NEW s \in Req, req'[s] # Idle PROVE Holds(req[s])'
        BY <1>1, <2>1, <2>4 DEF Holds, Place
    <2>5. ASSUME NEW b \in Addr PROVE Kept(b)'
        <3>1. CASE b = a
            <4>1. tokens'[a][g] >= 0
                BY <1>1, <1>2, <1>4, <2>2, BurstPositive
            <4> QED BY <1>1, <1>2, <1>3, <3>1, <4>1 DEF Kept
        <3>2. CASE b # a
            BY <1>1, <2>2, <3>2 DEF Kept, BurstOf
        <3> QED BY <3>1, <3>2
    <2>6. LimiterSound'
        BY <1>1, <1>4, <2>1, <2>3, <2>4, <2>5
    <2>7. /\ \/ perMin < 0 /\ Now' = Now
             \/ perMin >= 0 /\ Now[a] > 0 /\ Now' = [Now EXCEPT ![a] = @ - 1]
        <3>1. \A b \in Addr \ {a} : TokensOf(b)' = TokensOf(b)
            BY <1>1, <2>2 DEF TokensOf, BurstOf
        <3>2. TokensOf(a)' = tokens'[a][g]
            BY <1>1, <1>3 DEF TokensOf
        <3>3. Now = [b \in Addr |-> TokensOf(b)] /\ Now' = [b \in Addr |-> TokensOf(b)']
            BY DEF Now
        <3> QED BY <1>1, <1>5, <2>2, <3>1, <3>2, <3>3
    <2>8. Promised!Enter(r, a)
        BY <1>1, <1>4, <2>1, <2>7 DEF Promised!Enter, Inside, Now
    <2>9. OffIssue
        BY <2>1 DEF OffIssue
    <2> QED BY <1>1, <2>6, <2>8, <2>9 DEF Promised!Next
<1> QED BY <1>4, <1>6, <1>7 DEF Allow, Moved

(* Dropping an idle visitor drops a full bucket.                           *)
LEMMA SweepKeeps ==
    ASSUME LimiterSound, Sweep, UNCHANGED serverVars
    PROVE  LimiterSound' /\ [Promised!Next]_Promised!bucketVars
<1> USE DEF LimiterSound
<1>1. /\ visitors' = [a \in Addr |-> IF IdleTooLong(a) THEN NoVisitor ELSE visitors[a]]
      /\ UNCHANGED <<perMin, mu, tokens, now, req, main>>
    BY DEF Sweep, serverVars
<1>2. NoVisitor \in [lim : Gen \cup {None}, age : 0..(IdleAfter + 1)]
    BY RateLimiterAssumption DEF NoVisitor
<1>3. LimiterType'
    BY <1>1, <1>2 DEF LimiterType
<1>4. Slots'
    BY <1>1 DEF Slots
<1>5. ASSUME NEW s \in Req, req'[s] # Idle PROVE Holds(req[s])'
    <2>1. req[s].addr \in Addr /\ Holds(req[s])
        BY <1>1, <1>5 DEF Slots, Request
    <2>2. visitors[req[s].addr] = [lim |-> req[s].lim, age |-> 0] =>
              ~IdleTooLong(req[s].addr)
        BY RateLimiterAssumption DEF IdleTooLong
    <2> QED BY <1>1, <2>1, <2>2 DEF Holds, Place
<1>6. ASSUME NEW a \in Addr PROVE Kept(a)' /\ TokensOf(a)' = TokensOf(a)
    <2>1. CASE ~IdleTooLong(a)
        BY <1>1, <2>1 DEF Kept, TokensOf
    <2>2. CASE IdleTooLong(a)
        <3>1. visitors'[a] = NoVisitor
            BY <1>1, <2>2
        <3>2. visitors[a].age \in 0..(IdleAfter + 1) /\ visitors[a].age > IdleAfter
            BY <2>2 DEF LimiterType, IdleTooLong
        <3>3. visitors[a] # NoVisitor
            BY <3>2, RateLimiterAssumption DEF NoVisitor
        <3>4. visitors[a].lim \in Gen
            BY <3>3 DEF Kept
        <3>5. tokens[a][visitors[a].lim] \in 0..BurstOf(perMin)
            BY <3>4 DEF LimiterType
        <3>6. BurstOf(perMin) \in Nat /\ BurstOf(perMin) <= IdleAfter
            BY BurstPositive, RateLimiterAssumption DEF LimiterType
        <3>7. tokens[a][visitors[a].lim] = BurstOf(perMin)
            <4>1. tokens[a][visitors[a].lim] < visitors[a].age
                BY <3>2, <3>5, <3>6, RateLimiterAssumption
            <4> QED BY <3>2, <3>3, <3>5, <3>6, <4>1 DEF Kept
        <3> QED BY <1>1, <3>1, <3>3, <3>7 DEF Kept, TokensOf
    <2> QED BY <2>1, <2>2
<1>7. Now' = Now /\ Inside' = Inside
    BY <1>1, <1>6 DEF Now, Inside, LetIn, Busy
<1>8. \A a \in Addr : ~IdleTooLong(a) => visitors'[a] = visitors[a]
    BY <1>1
<1>9. LimiterSound'
    BY <1>1, <1>3, <1>4, <1>5, <1>6
<1> QED BY <1>1, <1>7, <1>9 DEF Promised!bucketVars, Inside, Now

(* A unit of time gives every bucket a token.                              *)
LEMMA TickKeeps ==
    ASSUME LimiterSound, Tick
    PROVE  LimiterSound' /\ [Promised!Next]_Promised!bucketVars
<1> USE DEF LimiterSound
<1> DEFINE Grown(t) == IF t < BurstOf(perMin) THEN t + 1 ELSE t
           Older(a) == IF visitors[a] = NoVisitor \/ IdleTooLong(a) THEN visitors[a]
                       ELSE [visitors[a] EXCEPT !.age = @ + 1]
<1>1. /\ tokens' = [a \in Addr |-> [g \in Gen |-> Grown(tokens[a][g])]]
      /\ visitors' = [a \in Addr |-> Older(a)]
      /\ UNCHANGED <<perMin, mu, req, main>>
      /\ main # "down" /\ now' = 1 - now
    BY DEF Tick, LimiterTick
<1>2. BurstOf(perMin) \in Nat /\ now' \in 0..1
    BY <1>1, BurstPositive DEF LimiterType
<1>3. \A t \in 0..BurstOf(perMin) : Grown(t) \in 0..BurstOf(perMin)
    BY <1>2
<1>4. ASSUME NEW a \in Addr
      PROVE  /\ Older(a) \in [lim : Gen \cup {None}, age : 0..(IdleAfter + 1)]
             /\ Older(a).lim = visitors[a].lim
             /\ \/ Older(a) = visitors[a]
                \/ visitors[a] # NoVisitor /\ Older(a).age = visitors[a].age + 1
             /\ visitors[a] = NoVisitor => Older(a) = NoVisitor
    <2>1. visitors[a] \in [lim : Gen \cup {None}, age : 0..(IdleAfter + 1)]
        BY DEF LimiterType
    <2>2. CASE visitors[a] = NoVisitor \/ IdleTooLong(a)
        BY <2>1, <2>2
    <2>3. CASE visitors[a] # NoVisitor /\ ~IdleTooLong(a)
        <3>1. visitors[a].age + 1 \in 0..(IdleAfter + 1)
            BY <2>1, <2>3, RateLimiterAssumption DEF IdleTooLong
        <3>2. Older(a) = [visitors[a] EXCEPT !.age = @ + 1]
            BY <2>3
        <3>3. Older(a) = [lim |-> visitors[a].lim, age |-> visitors[a].age + 1]
            BY <2>1, <3>2
        <3> QED BY <2>1, <2>3, <3>1, <3>3
    <2> QED BY <2>2, <2>3
<1> HIDE DEF Older
<1>5. LimiterType'
    <2>1. visitors' \in [Addr -> [lim : Gen \cup {None}, age : 0..(IdleAfter + 1)]]
        BY <1>1, <1>4
    <2>2. tokens' \in [Addr -> [Gen -> 0..BurstOf(perMin)]]
        <3>1. \A a \in Addr, g \in Gen : tokens[a][g] \in 0..BurstOf(perMin)
            BY DEF LimiterType
        <3> HIDE DEF Grown
        <3> QED BY <1>1, <1>3, <3>1
    <2> QED BY <1>1, <2>1, <2>2 DEF LimiterType, BurstOf
<1>6. Slots'
    BY <1>1 DEF Slots
<1>7. ASSUME NEW s \in Req, req'[s] # Idle PROVE Holds(req[s])'
    <2>1. Place(req[s]) # "allow"
        BY <1>1, <1>7, AtPlace DEF Tick, Prompt
    <2> QED BY <1>1, <1>7, <2>1 DEF Holds, Place
<1>8. ASSUME NEW a \in Addr
      PROVE  /\ Kept(a)'
             /\ TokensOf(a)' = Grown(TokensOf(a))
    <2>1. CASE visitors[a] = NoVisitor
        <3>1. visitors'[a] = NoVisitor
            BY <1>1, <1>4, <2>1
        <3>2. TokensOf(a) = BurstOf(perMin) /\ TokensOf(a)' = BurstOf(perMin)
            BY <1>1, <2>1, <3>1 DEF TokensOf, BurstOf
        <3> QED BY <1>2, <3>1, <3>2 DEF Kept
    <2>2. CASE visitors[a] # NoVisitor
        <3>1. visitors[a].lim \in Gen /\ visitors'[a].lim = visitors[a].lim
            BY <1>1, <1>4, <2>2 DEF Kept
        <3>2. visitors'[a] # NoVisitor
            BY <3>1, RateLimiterAssumption DEF NoVisitor
        <3>3. visitors[a].age \in Nat /\ visitors'[a].age \in {visitors[a].age, visitors[a].age + 1}
            BY <1>1, <1>4 DEF LimiterType
        <3>4. PICK g \in Gen : g = visitors[a].lim
            BY <3>1
        <3>5. tokens'[a][g] = Grown(tokens[a][g]) /\ tokens[a][g] \in 0..BurstOf(perMin)
            <4> HIDE DEF Grown
            <4> QED BY <1>1, <3>4 DEF LimiterType
        <3>6. tokens[a][g] >= visitors[a].age \/ tokens[a][g] = BurstOf(perMin)
            BY <2>2, <3>4 DEF Kept
        <3>7. tokens'[a][g] >= visitors'[a].age \/ tokens'[a][g] = BurstOf(perMin)
            BY <1>2, <3>3, <3>5, <3>6
        <3>8. Kept(a)'
            BY <1>1, <3>1, <3>4, <3>7 DEF Kept, BurstOf
        <3>9. TokensOf(a) = tokens[a][g] /\ TokensOf(a)' = tokens'[a][g]
            BY <2>2, <3>1, <3>2, <3>4 DEF TokensOf
        <3> QED BY <3>5, <3>8, <3>9
    <2> QED BY <2>1, <2>2
<1>9. LimiterSound'
    BY <1>1, <1>4, <1>5, <1>6, <1>7, <1>8
<1>10. Now' = [a \in Addr |-> Grown(Now[a])]
    BY <1>8 DEF Now
<1>11. Inside' = Inside
    BY <1>1 DEF Inside, LetIn, Busy
<1>12. Promised!Refill
    BY <1>1, <1>10, <1>11 DEF Promised!Refill, Promised!BurstOf, BurstOf, Inside, Now
<1> QED BY <1>9, <1>12 DEF Promised!Next

(* A process begins, or is gone.                                           *)
LEMMA FreshKeeps ==
    ASSUME LimiterSound, NEW n \in Int, BurstOf(n) <= MaxBurst, NewRateLimiter(n),
           \A r \in Req : req'[r] = Idle, req' \in [Req -> {Idle}],
           \/ main = "down" /\ main' # "down" /\ req' = req
           \/ main # "down" /\ main' = "down" /\ n = perMin
    PROVE  LimiterSound' /\ [Promised!Next]_Promised!bucketVars
<1>1. BurstOf(n) \in Nat
    BY BurstPositive
<1>2. /\ perMin' = n /\ mu' = None /\ now' = now
      /\ \A a \in Addr : visitors'[a] = NoVisitor
      /\ visitors' = [a \in Addr |-> NoVisitor]
      /\ tokens' = [a \in Addr |-> [g \in Gen |-> BurstOf(n)]]
    BY DEF NewRateLimiter
<1>3. NoVisitor \in [lim : Gen \cup {None}, age : 0..(IdleAfter + 1)]
    BY RateLimiterAssumption DEF NoVisitor
<1>4. LimiterType'
    BY <1>1, <1>2, <1>3 DEF LimiterSound, LimiterType, BurstOf
<1>5. Slots'
    BY DEF Slots, Placed
<1>6. \A a \in Addr : Kept(a)'
    BY <1>2 DEF Kept
<1>7. LimiterSound'
    BY <1>2, <1>4, <1>5, <1>6 DEF LimiterSound
<1>8. \A a \in Addr : TokensOf(a)' = BurstOf(perMin')
    BY <1>2 DEF TokensOf, BurstOf
<1>9. Now' = [a \in Addr |-> BurstOf(perMin')]
    BY <1>8 DEF Now
<1>10. Inside' = [r \in Req |-> None]
    BY DEF Inside, LetIn, Busy
<1>11. CASE main = "down" /\ main' # "down" /\ req' = req
    <2>1. Inside' = Inside
        BY <1>11 DEF Inside, LetIn, Busy
    <2>2. Promised!Boot
        BY <1>2, <1>9, <1>11, <2>1
        DEF Promised!Boot, Promised!Full, Promised!BurstOf, BurstOf, Inside, Now
    <2> QED BY <1>7, <2>2 DEF Promised!Next
<1>12. CASE main # "down" /\ main' = "down" /\ n = perMin
    <2>1. Promised!Die
        BY <1>2, <1>9, <1>10, <1>12
        DEF Promised!Die, Promised!Full, Promised!BurstOf, BurstOf, Inside, Now
    <2> QED BY <1>7, <2>1 DEF Promised!Next
<1> QED BY <1>11, <1>12

(* Requests are handled by a process that is up.                           *)
LEMMA HandledUp ==
    ASSUME LimiterSound, NEW r \in Req, PlainStep(r) \/ Limit(r)
    PROVE  main # "down"
<1>1. CASE main = "down"
    <2>1. \A p : ~At(r, p)
        BY <1>1, AtPlace DEF LimiterSound
    <2> QED BY <1>1, <2>1
        DEF PlainStep, Limit, Begin, Serving, Body, Acquire, Query, GetUserByEmail,
            Fails, Authenticate, RequireAuth, Login, Lock, limiterFor, Allow
<1> QED BY <1>1

(* The steps of one request.                                               *)
RequestStep(r) ==
    \/ \E route \in Route, a \in Addr, u \in User : Begin(r, route, a, u)
    \/ Handle(r)

(* A request makes a plain step, or one of the two in the limiter.         *)
LEMMA RequestStepKinds ==
    ASSUME NEW r, RequestStep(r)
    PROVE  \/ PlainStep(r)
           \/ limiterFor(r) /\ UNCHANGED <<sessionVars, serverVars>>
           \/ Allow(r) /\ UNCHANGED <<sessionVars, serverVars>>
BY DEF RequestStep, Handle, Limit, PlainStep

(* The disjuncts of a step by what they touch.                             *)
LEMMA StepKinds ==
    ASSUME [Next]_vars
    PROVE  \/ \E e \in Environment : Start(e)
           \/ Exit \/ Crash
           \/ \E r \in Req : RequestStep(r)
           \/ Sweep /\ UNCHANGED <<sessionVars, serverVars>>
           \/ Tick
           \/ /\ UNCHANGED <<req, limiterVars>>
              /\ \/ \E u \in User : Admit(u) \/ Suspend(u)
                 \/ UNCHANGED sessionVars
              /\ main' = main \/ (main # "down" /\ main' # "down")
BY DEF Next, RequestStep, Signal, Shutdown, Drained, Admit, Suspend, vars, serverVars

(* Every step keeps the limiter sound and is one of the bucket or none.    *)
LEMMA LimiterStep ==
    ASSUME LimiterSound, [Next]_vars
    PROVE  LimiterSound' /\ [Promised!Next]_Promised!bucketVars
<1>1. CASE \E e \in Environment : Start(e)
    <2>1. PICK e \in Environment : Start(e)
        BY <1>1
    <2>2. RateLimitPerMinute(e) \in Int
        BY ServerAssumption DEF RateLimitPerMinute, getInt
    <2>3. NewRateLimiter(RateLimitPerMinute(e))
        BY <2>1 DEF Start
    <2>4. req' = req /\ \A r \in Req : req'[r] = Idle
        BY <2>1 DEF Start, LimiterSound
    <2>5. req' \in [Req -> {Idle}]
        BY <2>4 DEF LimiterSound, Slots
    <2>6. main = "down" /\ main' # "down"
        BY <2>1 DEF Start
    <2> QED BY <2>2, <2>3, <2>4, <2>5, <2>6, BurstAssumption, FreshKeeps
<1>2. CASE Exit \/ Crash
    <2>1. Gone
        BY <1>2 DEF Exit, Crash
    <2>2. perMin \in Int /\ BurstOf(perMin) <= MaxBurst
        BY DEF LimiterSound, LimiterType
    <2>3. main # "down" /\ main' = "down"
        BY <1>2 DEF Exit, Crash, Gone
    <2> QED BY <2>1, <2>2, <2>3, FreshKeeps DEF Gone
<1>3. CASE \E r \in Req : RequestStep(r)
    <2>1. PICK r \in Req : RequestStep(r)
        BY <1>3
    <2>2. main # "down"
        BY <2>1, RequestStepKinds, HandledUp DEF Limit
    <2>3. CASE PlainStep(r)
        <3>1. mu' \in Req \cup {None}
            BY <2>3, PlainStepMoves DEF LimiterSound, LimiterType
        <3> QED BY <2>2, <2>3, <3>1, PlainStepMoves, PlainKeeps DEF LimiterSound, serverVars
    <2>4. CASE limiterFor(r) /\ UNCHANGED <<sessionVars, serverVars>>
        BY <2>2, <2>4, LookupKeeps DEF serverVars
    <2>5. CASE Allow(r) /\ UNCHANGED <<sessionVars, serverVars>>
        BY <2>2, <2>5, AllowKeeps DEF serverVars
    <2> QED BY <2>1, <2>3, <2>4, <2>5, RequestStepKinds
<1>4. CASE Sweep /\ UNCHANGED <<sessionVars, serverVars>>
    BY <1>4, SweepKeeps
<1>5. CASE Tick
    BY <1>5, TickKeeps
<1>6. CASE /\ UNCHANGED <<req, limiterVars>>
           /\ main' = main \/ (main # "down" /\ main' # "down")
    <2>1. LimiterSound'
        BY <1>6 DEF LimiterSound, LimiterType, Slots, Holds, Kept, limiterVars, BurstOf, Place
    <2>2. UNCHANGED Promised!bucketVars
        BY <1>6 DEF Promised!bucketVars, LetIn, TokensOf, Busy, limiterVars, BurstOf
    <2> QED BY <2>1, <2>2
<1> QED BY <1>1, <1>2, <1>3, <1>4, <1>5, <1>6, StepKinds

(* So it begins.                                                           *)
LEMMA LimiterStart ==
    ASSUME Init
    PROVE  LimiterSound /\ Promised!Init
<1>1. /\ req = [r \in Req |-> Idle] /\ main = "down"
      /\ perMin = DefaultPerMinute /\ mu = None /\ now = 0
      /\ visitors = [a \in Addr |-> NoVisitor]
      /\ tokens = [a \in Addr |-> [g \in Gen |-> BurstOf(perMin)]]
    BY DEF Init, LimiterInit
<1>2. perMin \in Int /\ BurstOf(perMin) \in Nat /\ BurstOf(perMin) <= MaxBurst
    BY <1>1, BurstPositive, ServerAssumption, BurstAssumption
<1>3. NoVisitor \in [lim : Gen \cup {None}, age : 0..(IdleAfter + 1)]
    BY RateLimiterAssumption DEF NoVisitor
<1>4. LimiterType
    BY <1>1, <1>2, <1>3 DEF LimiterType
<1>5. Slots /\ \A a \in Addr : Kept(a)
    BY <1>1 DEF Slots, Placed, Kept
<1>6. LimiterSound
    BY <1>1, <1>4, <1>5 DEF LimiterSound
<1>7. \A a \in Addr : TokensOf(a) = BurstOf(perMin)
    BY <1>1 DEF TokensOf
<1>8. \A r \in Req : ~LetIn(r)
    BY <1>1 DEF LetIn, Busy
<1>9. Promised!Init
    BY <1>1, <1>2, <1>7, <1>8
    DEF Promised!Init, Promised!Full, Promised!BurstOf, BurstOf
<1> QED BY <1>6, <1>9

(* The limiter refines one bucket per address: limiters made late, dropped *)
(* early and used outside the mutex give a client no token that time has   *)
(* not given it, for every set of addresses, number of requests and        *)
(* configuration.                                                          *)
THEOREM LimiterRefinesBucket == Spec => LimiterIsBucket
<1>1. Spec => Promised!Init /\ []LimiterSound
    <2>1. Init => LimiterSound /\ Promised!Init
        BY LimiterStart
    <2>2. LimiterSound /\ [Next]_vars => LimiterSound'
        BY LimiterStep
    <2> QED BY <2>1, <2>2, PTL DEF Spec
<1>2. LimiterSound /\ [Next]_vars => [Promised!Next]_Promised!bucketVars
    BY LimiterStep
<1> QED BY <1>1, <1>2, PTL DEF Spec, LimiterIsBucket, Promised!Spec
-----------------------------------------------------------------------------
(* Whoever is usable is not barred, a token and the time an account has    *)
(* been barred fit into one token lifetime, and Login decides on a row     *)
(* that was read in this very moment.                                      *)
SessionSound ==
    /\ LimiterSound
    /\ SessionType
    /\ \A u \in usable : barred[u] = 0
    /\ \A u \in User : left[u] > 0 => left[u] + barred[u] <= TTL
    /\ \A r \in Req : (req[r] # Idle /\ Place(req[r]) = "issue" /\ req[r].usable)
           => barred[req[r].user] = 0

(* Plain steps: only Login issues a token, and only to a row that was      *)
(* usable when it was read.                                                *)
LEMMA PlainSession ==
    ASSUME SessionSound, NEW r \in Req, PlainStep(r), LimiterSound'
    PROVE  SessionSound'
<1> USE DEF SessionSound
<1>1. /\ \E q : Placed(q) /\ Plain(req[r], q) /\ Moved(r, q)
      /\ UNCHANGED <<usable, barred>>
    BY PlainStepMoves DEF LimiterSound
<1>2. PICK q : Placed(q) /\ Plain(req[r], q) /\ Moved(r, q)
    BY <1>1
<1>3. req'[r] = q /\ \A s \in Req \ {r} : req'[s] = req[s]
    BY <1>2, SlotWritten DEF LimiterSound
<1>4. ASSUME NEW s \in Req, req'[s] # Idle, Place(req'[s]) = "issue", req'[s].usable
      PROVE  barred'[req'[s].user] = 0
    <2>1. CASE s = r
        <3>1. q # Idle /\ Placed(q) /\ Place(q) = "issue" /\ q.usable
            BY <1>2, <1>3, <1>4, <2>1
        <3>2. q.at = 7
            BY <3>1, Places
        <3>3. q.user \in usable
            BY <1>2, <3>1, <3>2 DEF Plain
        <3> QED BY <1>1, <1>3, <2>1, <3>3
    <2>2. CASE s # r
        BY <1>1, <1>3, <1>4, <2>2
    <2> QED BY <2>1, <2>2
<1>5. /\ left' \in [User -> 0..TTL]
      /\ \A u \in User : left'[u] > 0 => left'[u] + barred[u] <= TTL
    <2>1. CASE left' = left
        BY <2>1 DEF SessionType
    <2>2. CASE /\ left' = [left EXCEPT ![req[r].user] = TTL]
               /\ At(r, "issue") /\ req[r].usable
        <3>1. req[r].user \in User /\ barred[req[r].user] = 0
            BY <2>2, AtPlace DEF LimiterSound, Slots, Request
        <3>2. TTL \in Nat
            BY SessionAssumption
        <3>3. ASSUME NEW u \in User, left'[u] > 0 PROVE left'[u] + barred[u] <= TTL
            <4>1. CASE u = req[r].user
                BY <2>2, <3>1, <3>2, <4>1 DEF SessionType
            <4>2. CASE u # req[r].user
                BY <2>2, <3>3, <4>2 DEF SessionType
            <4> QED BY <4>1, <4>2
        <3> QED BY <2>2, <3>1, <3>2, <3>3 DEF SessionType
    <2>3. left' = left \/ (/\ left' = [left EXCEPT ![req[r].user] = TTL]
                           /\ At(r, "issue") /\ req[r].usable)
        BY DEF PlainStep, Begin, Body, Acquire, Query, GetUserByEmail, Fails,
               Authenticate, RequireAuth, Login, sessionVars
    <2> QED BY <2>1, <2>2, <2>3
<1>6. SessionType'
    BY <1>1, <1>5 DEF SessionType
<1> QED BY <1>1, <1>4, <1>5, <1>6


(* A request in the limiter is not in Login.                               *)
LEMMA LimitSession ==
    ASSUME SessionSound, LimiterSound', OffIssue, UNCHANGED sessionVars
    PROVE  SessionSound'
BY DEF SessionSound, SessionType, OffIssue, sessionVars, Idle, Place

(* Time takes from a token what it adds to the time barred.                *)
LEMMA TickSession ==
    ASSUME SessionSound, Tick, LimiterSound'
    PROVE  SessionSound'
<1> USE DEF SessionSound
<1>1. /\ left' = [u \in User |-> IF left[u] > 0 THEN left[u] - 1 ELSE 0]
      /\ barred' = [u \in User |->
            IF u \in usable \/ barred[u] = TTL THEN barred[u] ELSE barred[u] + 1]
      /\ usable' = usable /\ req' = req
    BY DEF Tick, SessionTick
<1>2. TTL \in Nat
    BY SessionAssumption
<1>3. SessionType'
    BY <1>1, <1>2 DEF SessionType
<1>4. \A u \in User : left'[u] > 0 => left'[u] + barred'[u] <= TTL
    BY <1>1, <1>2 DEF SessionType
<1>5. \A u \in usable' : barred'[u] = 0
    BY <1>1 DEF SessionType
<1>6. \A s \in Req : ~(req[s] # Idle /\ Place(req[s]) = "issue")
    BY AtPlace DEF Tick, Prompt
<1> QED BY <1>1, <1>3, <1>4, <1>5, <1>6 DEF Place

(* Accounts are let in or suspended from outside.                          *)
LEMMA OutsideSession ==
    ASSUME SessionSound, NEW u \in User, Admit(u) \/ Suspend(u), LimiterSound'
    PROVE  SessionSound'
<1> USE DEF SessionSound
<1>1. req' = req /\ left' = left
    BY DEF Admit, Suspend
<1>2. CASE Admit(u)
    <2>1. /\ usable' = usable \cup {u} /\ barred' = [barred EXCEPT ![u] = 0]
        BY <1>2 DEF Admit
    <2>2. barred'[u] = 0 /\ \A v \in User \ {u} : barred'[v] = barred[v]
        BY <2>1 DEF SessionType
    <2>3. SessionType'
        BY <1>1, <2>1, SessionAssumption DEF SessionType
    <2>4. \A v \in User : left[v] > 0 => left[v] + barred'[v] <= TTL
        BY <2>2, SessionAssumption DEF SessionType
    <2>5. ASSUME NEW s \in Req, req[s] # Idle, Place(req[s]) = "issue", req[s].usable
          PROVE  barred'[req[s].user] = 0
        <3>1. req[s].user \in User
            BY <2>5 DEF LimiterSound, Slots, Request
        <3> QED BY <2>2, <2>5, <3>1
    <2> QED BY <1>1, <2>1, <2>2, <2>3, <2>4, <2>5 DEF SessionType, Place
<1>3. CASE Suspend(u)
    BY <1>1, <1>3 DEF Suspend, SessionType, Place
<1> QED BY <1>2, <1>3

(* Every step keeps tokens and accounts sound.                             *)
LEMMA SessionStep ==
    ASSUME SessionSound, [Next]_vars
    PROVE  SessionSound'
<1>1. LimiterSound /\ LimiterSound'
    BY LimiterStep DEF SessionSound
<1>2. CASE \E e \in Environment : Start(e)
    BY <1>1, <1>2 DEF Start, SessionSound, SessionType, sessionVars, Place
<1>3. CASE Exit \/ Crash
    BY <1>1, <1>3 DEF Exit, Crash, Gone, SessionSound, SessionType, sessionVars
<1>4. CASE \E r \in Req : RequestStep(r)
    <2>1. PICK r \in Req : RequestStep(r)
        BY <1>4
    <2>2. main # "down"
        BY <1>1, <2>1, RequestStepKinds, HandledUp DEF Limit
    <2> QED BY <1>1, <2>1, <2>2, RequestStepKinds, PlainSession, LookupKeeps, AllowKeeps,
               LimitSession DEF serverVars
<1>5. CASE Tick
    BY <1>1, <1>5, TickSession
<1>6. CASE \/ Sweep /\ UNCHANGED <<sessionVars, serverVars>>
           \/ UNCHANGED <<req, sessionVars>>
    BY <1>1, <1>6 DEF Sweep, SessionSound, SessionType, sessionVars, Place
<1>7. CASE \E u \in User : Admit(u) \/ Suspend(u)
    BY <1>1, <1>7, OutsideSession
<1> QED BY <1>2, <1>3, <1>4, <1>5, <1>6, <1>7, StepKinds

(* So they begin.                                                          *)
LEMMA SessionStart == ASSUME Init PROVE SessionSound
<1>1. LimiterSound
    BY LimiterStart
<1>2. /\ usable \in SUBSET User /\ left = [u \in User |-> 0]
      /\ barred = [u \in User |-> IF u \in usable THEN 0 ELSE TTL]
      /\ req = [r \in Req |-> Idle]
    BY DEF Init, SessionInit
<1> QED BY <1>1, <1>2, SessionAssumption DEF SessionSound, SessionType

(* Whoever passes RequireAuth has a token left, and was usable less than a *)
(* token lifetime ago.                                                     *)
LEMMA AuthStep ==
    ASSUME SessionSound, [Next]_vars, NEW r \in Req, At(r, "auth"), req'[r].at > req[r].at
    PROVE  barred[req[r].user] < TTL
<1>1. /\ req[r] # Idle /\ Place(req[r]) = "auth" /\ req[r] \in Request
    BY AtPlace DEF SessionSound, LimiterSound, Slots
<1>2. CASE RequireAuth(r) /\ Parse(req[r].user)
    <2>1. left[req[r].user] > 0 /\ req[r].user \in User
        BY <1>1, <1>2 DEF Parse, Request
    <2> QED BY <2>1, SessionAssumption DEF SessionSound, SessionType
<1>3. CASE RequireAuth(r) /\ ~Parse(req[r].user)
    BY <1>1, <1>3 DEF RequireAuth, Abort, Idle, SessionSound, LimiterSound, Slots, Request
<1>4. CASE req'[r] = req[r] \/ req'[r] = Idle
    BY <1>1, <1>4 DEF Idle, Request
<1>5. RequireAuth(r) \/ req'[r] = req[r] \/ req'[r] = Idle
    <2>1. CASE \E s \in Req : RequestStep(s)
        <3>1. PICK s \in Req : RequestStep(s)
            BY <2>1
        <3>2. \E q : Moved(s, q)
            BY <3>1, RequestStepKinds, PlainStepMoves
            DEF SessionSound, LimiterSound, limiterFor, Allow, Known, Make,
                DivisionPanics, Hand, Abort, Moved
        <3>3. CASE s # r
            BY <3>2, <3>3 DEF Moved, SessionSound, LimiterSound, Slots
        <3>4. CASE s = r
            <4>1. \A p : At(r, p) => p = "auth"
                BY <1>1, AtPlace
            <4>2. req[r] # Idle
                BY <1>1
            <4> QED BY <3>1, <3>4, <4>1, <4>2
                DEF RequestStep, Handle, Begin, Limit, Lock, limiterFor, Allow,
                    Authenticate, Login, Body, Acquire, Query, GetUserByEmail, Fails
        <3> QED BY <3>3, <3>4
    <2>2. CASE Exit \/ Crash
        BY <2>2 DEF Exit, Crash, Gone
    <2>3. CASE ~(\E s \in Req : RequestStep(s)) /\ ~(Exit \/ Crash)
        BY <2>3, StepKinds DEF Start, Sweep, Tick
    <2> QED BY <2>1, <2>2, <2>3
<1> QED BY <1>2, <1>3, <1>4, <1>5

(* A suspension bites within one token lifetime although RequireAuth never *)
(* looks at the account: for every number of accounts and requests and     *)
(* every lifetime.                                                         *)
THEOREM SuspensionHolds == Spec => SuspensionBites
<1>1. Spec => []SessionSound
    BY SessionStart, SessionStep, PTL DEF Spec
<1>2. SessionSound /\ [Next]_vars =>
          [\A r \in Req : (At(r, "auth") /\ req'[r].at > req[r].at)
              => barred[req[r].user] < TTL]_<<req, sessionVars>>
    BY AuthStep
<1> QED BY <1>1, <1>2, PTL DEF Spec, SuspensionBites
-----------------------------------------------------------------------------
(* Where main is.                                                          *)
MainSound ==
    /\ main \in {"down", "serve", "signal", "drain", "close"}
    /\ drainFor \in 0..Drain

Sound == SessionSound /\ MainSound

(* Every step keeps main and Shutdown's time in range.                     *)
LEMMA MainStep ==
    ASSUME Sound, [Next]_vars
    PROVE  MainSound'
<1> USE ServerAssumption DEF MainSound, Sound
<1>1. CASE \E r \in Req : RequestStep(r)
    <2>1. UNCHANGED serverVars
        BY <1>1, RequestStepKinds, PlainStepMoves DEF SessionSound, LimiterSound
    <2> QED BY <2>1 DEF serverVars
<1>2. CASE \/ \E e \in Environment : Start(e)
           \/ Signal \/ Shutdown \/ Drained \/ Exit \/ Crash \/ Tick
    BY <1>2 DEF Start, Signal, Shutdown, Drained, Exit, Crash, Gone, Tick
<1>3. CASE UNCHANGED serverVars
    BY <1>3 DEF serverVars
<1> QED BY <1>1, <1>2, <1>3 DEF Next, RequestStep, vars

(* Sound is an invariant.                                                  *)
LEMMA SoundAlways == Spec => []Sound
<1>1. Init => Sound
    BY SessionStart, ServerAssumption DEF Init, Sound, MainSound
<1>2. Sound /\ [Next]_vars => Sound'
    BY SessionStep, MainStep DEF Sound
<1> QED BY <1>1, <1>2, PTL DEF Spec

(* The types of Server, the burst that no limiter exceeds among them.      *)
THEOREM TypeCorrect == Spec => []TypeOK
<1>1. Sound => TypeOK
    <2>1. SUFFICES ASSUME Sound PROVE TypeOK
        OBVIOUS
    <2>2. \A r \in Busy : req[r].at <= Len(Chain[req[r].route])
        BY <2>1 DEF Sound, SessionSound, LimiterSound, Slots, Placed, Busy
    <2> QED BY <2>1, <2>2 DEF Sound, SessionSound, LimiterSound, Slots, MainSound, TypeOK
<1> QED BY <1>1, SoundAlways, PTL
=============================================================================
