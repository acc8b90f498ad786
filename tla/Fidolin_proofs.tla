--------------------------- MODULE Fidolin_proofs ---------------------------
(***************************************************************************)
(* Proofs about Fidolin: its types, that nothing unjudged is visible and   *)
(* that what is analysed shows one score measured against thresholds in    *)
(* force; that a post is in one hand as long as no held claim outlives     *)
(* StaleAfter; and that a post is decided once, then, or when whoever      *)
(* judges it judges alike.                                                 *)
(***************************************************************************)
EXTENDS Fidolin, FiniteSetTheorems, TLAPS

(* The status a verdict gives a post.                                      *)
Outcome(v, s) == IF v = None THEN "pending_review" ELSE decideStatus(v, s)

(* What a worker keeps in its locals.                                      *)
JobSound(j) ==
    /\ j.pc = "idle" => j = NoJob
    /\ j.pc # "idle" => j.post \in Post
    /\ j.pc \in {"analyze", "write"} => j.set \in Rows \cup {Defaults}
    /\ j.pc = "write" => j.verdict \in Verdicts[j.post]

(* The columns of a row agree with each other.                             *)
RowSound(p) ==
    /\ status[p] = None <=> aiStatus[p] = None
    /\ aiStatus[p] \in {"queued", "processing", "failed"} => status[p] = "pending_review"

(* Rows that are locked wait for the one claim that has locked them.       *)
LocksSound ==
    /\ \A p \in Post, n \in Instance : p \in locked[n] => aiStatus[p] = "queued"
    /\ \A p \in Post, m, n \in Instance :
          (p \in locked[m] /\ p \in locked[n]) => m = n

(* Types, locks, rows, locals; posts are claimed and judged after they are *)
(* made.                                                                   *)
Judged ==
    /\ TypeOK
    /\ LocksSound
    /\ \A p \in Post : RowSound(p)
    /\ \A n \in Instance, w \in Worker : JobSound(job[n][w])
    /\ \A n \in Instance : disp[n] # "send" => batch[n] = {}
    /\ \A p \in Post : Held(p) => aiStatus[p] # None

(* A post is in one hand, its claim is not stale.                          *)
Exclusive ==
    /\ \A p \in Post : Held(p) => aiStatus[p] = "processing" /\ p \notin stale
    /\ \A p \in Post, m, n \in Instance :
          p \in batch[m] =>
              /\ p \in batch[n] => m = n
              /\ \A w \in Worker : job[n][w].post # p
    /\ \A p \in Post, m, n \in Instance, v, w \in Worker :
          (job[m][v].post = p /\ job[n][w].post = p) => m = n /\ v = w

(* All verdicts on a post and all thresholds amount to the same.           *)
Unanimous ==
    \A p \in Post : \A v, w \in Verdicts[p], s, t \in Rows \cup {Defaults} :
        Outcome(v, s) = Outcome(w, t)

(* A decided post has the status every verdict gives it.                   *)
Settled ==
    \A p \in Decided : \A v \in Verdicts[p], s \in Rows \cup {Defaults} :
        status[p] = Outcome(v, s)
-----------------------------------------------------------------------------
(* Posts are numbers, and None is none of them.                            *)
LEMMA PostIsNat == \A p \in Post : p \in Nat /\ p # None
    BY FidolinAssumption

LEMMA NoneIsNoStatus ==
    /\ None \notin {"pending_review", "visible", "blocked"}
    /\ None \notin {"queued", "processing", "analyzed", "failed"}
    BY FidolinAssumption DEF Status, AIStatus

LEMMA SetIsThreshold ==
    /\ Rows \cup {Defaults} \subseteq Threshold
    /\ Rows \subseteq Rows \cup {Defaults}
    BY FidolinAssumption

(* Becomes changes one worker's job.                                       *)
LEMMA BecomesOne ==
    ASSUME TypeOK, NEW n \in Instance, NEW w \in Worker, NEW j \in Job, Becomes(n, w, j)
    PROVE  /\ job' \in [Instance -> [Worker -> Job]]
           /\ job'[n][w] = j
           /\ \A m \in Instance, v \in Worker :
                  (m # n \/ v # w) => job'[m][v] = job[m][v]
    BY DEF TypeOK, Becomes

LEMMA NoJobIsJob == NoJob \in Job /\ NoJob.pc = "idle" /\ NoJob.post = None
    BY DEF NoJob, Job

(* The fields of a job as it moves on.                                     *)
LEMMA JobReads ==
    ASSUME NEW j \in Job, NEW s \in Threshold
    PROVE  LET k == [j EXCEPT !.pc = "analyze", !.set = s]
           IN  k \in Job /\ k.pc = "analyze" /\ k.set = s /\ k.post = j.post
    BY DEF Job

LEMMA JobAnalyzes ==
    ASSUME NEW j \in Job, NEW v \in Score \cup {None}
    PROVE  LET k == [j EXCEPT !.pc = "write", !.verdict = v]
           IN  /\ k \in Job /\ k.pc = "write" /\ k.verdict = v
               /\ k.set = j.set /\ k.post = j.post
    BY DEF Job

(* A step that gives one worker a sound job leaves all jobs sound.         *)
LEMMA BecomesSound ==
    ASSUME Judged, NEW n \in Instance, NEW w \in Worker, NEW j \in Job, Becomes(n, w, j),
           JobSound(j)
    PROVE  \A m \in Instance, v \in Worker : JobSound(job'[m][v])
    BY BecomesOne DEF Judged

LEMMA FaultTyped ==
    ASSUME TypeOK, Fault \/ UNCHANGED faults
    PROVE  faults' \in 0..MaxFaults
    BY FidolinAssumption DEF TypeOK, Fault

LEMMA InitJudged == Init => Judged
<1> SUFFICES ASSUME Init PROVE Judged
    OBVIOUS
<1>1. TypeOK
    BY NoJobIsJob, FidolinAssumption DEF Init, TypeOK
<1>2. \A p \in Post : RowSound(p)
    BY NoneIsNoStatus DEF Init, RowSound
<1>3. \A n \in Instance, w \in Worker : JobSound(job[n][w])
    BY NoJobIsJob DEF Init, JobSound
<1>4. \A p \in Post : ~Held(p)
    BY NoJobIsJob, PostIsNat DEF Init, Held, Working
<1>5. LocksSound
    BY DEF Init, LocksSound
<1> QED
    BY <1>1, <1>2, <1>3, <1>4, <1>5 DEF Init, Judged

LEMMA CreateJudged ==
    ASSUME Judged, NEW p \in Post, Create(p)
    PROVE  Judged'
<1>0. LocksSound'
    BY NoneIsNoStatus DEF Judged, TypeOK, RowSound, LocksSound, Create, procs
<1>1. TypeOK'
    BY DEF Judged, TypeOK, Create, procs, Status, AIStatus
<1>2. \A q \in Post : RowSound(q)'
    BY NoneIsNoStatus DEF Judged, TypeOK, RowSound, Create
<1>3. \A n \in Instance, w \in Worker : JobSound(job[n][w])'
    BY DEF Judged, JobSound, Create, procs
<1>4. \A q \in Post : Held(q)' => aiStatus'[q] # None
    BY NoneIsNoStatus DEF Judged, TypeOK, Held, Working, Create, procs
<1> QED
    BY <1>0, <1>1, <1>2, <1>3, <1>4 DEF Judged, Create, procs

(* A step that leaves the rows alone and takes no post in hand.            *)
LEMMA RowsKept ==
    ASSUME Judged, UNCHANGED posts, TypeOK',
           \A n \in Instance : locked'[n] \subseteq locked[n],
           \A p \in Post : Held(p)' => Held(p),
           \A n \in Instance, w \in Worker : JobSound(job'[n][w]),
           \A n \in Instance : disp'[n] # "send" => batch'[n] = {}
    PROVE  Judged'
<1>1. \A p \in Post : RowSound(p)'
    BY DEF Judged, RowSound, posts
<1>2. \A p \in Post : Held(p)' => aiStatus'[p] # None
    BY DEF Judged, posts
<1>3. \A n \in Instance, w \in Worker : JobSound(job[n][w])'
    BY DEF JobSound
<1>4. LocksSound'
    BY DEF Judged, LocksSound, posts
<1> QED
    BY <1>1, <1>2, <1>3, <1>4 DEF Judged

(* A step of a process that changes neither rows nor locals.               *)
LEMMA QuietJudged ==
    ASSUME Judged, UNCHANGED <<posts, locked, batch, job>>, TypeOK',
           \A n \in Instance : disp'[n] # "send" => disp[n] # "send"
    PROVE  Judged'
<1>1. \A p \in Post : Held(p)' => Held(p)
    BY DEF Held, Working
<1>2. \A n \in Instance, w \in Worker : JobSound(job'[n][w])
    BY DEF Judged
<1>3. \A n \in Instance : disp'[n] # "send" => batch'[n] = {}
    BY DEF Judged
<1> QED
    BY <1>1, <1>2, <1>3, RowsKept

LEMMA AgeJudged ==
    ASSUME Judged, NEW p \in Post, Age(p)
    PROVE  Judged'
<1>1. TypeOK'
    BY DEF Judged, TypeOK, Age, procs
<1>2. \A q \in Post : RowSound(q)'
    BY DEF Judged, RowSound, Age
<1>3. \A q \in Post : Held(q)' => aiStatus'[q] # None
    BY DEF Judged, Held, Working, Age, procs
<1>4. LocksSound'
    BY DEF Judged, LocksSound, Age, procs
<1> QED
    BY <1>1, <1>2, <1>3, <1>4 DEF Judged, JobSound, Age, procs

LEMMA UpdateSettingsJudged ==
    ASSUME Judged, NEW s \in Rows, UpdateSettings(s)
    PROVE  Judged'
<1>1. inForce' \in [Post -> SUBSET Threshold]
    BY SetIsThreshold DEF Judged, TypeOK, UpdateSettings
<1>2. TypeOK'
    BY <1>1 DEF Judged, TypeOK, UpdateSettings, posts, procs
<1> QED
    BY <1>2, QuietJudged DEF UpdateSettings, procs

LEMMA ReclaimJudged ==
    ASSUME Judged, NEW n \in Instance, Reclaim(n)
    PROVE  Judged'
<1>0. \A p \in Post : \/ aiStatus'[p] = aiStatus[p]
                      \/ aiStatus[p] = "processing" /\ aiStatus'[p] = "queued"
    BY DEF Judged, TypeOK, Reclaim
<1>1. TypeOK'
  <2>1. faults' \in 0..MaxFaults
      BY FaultTyped DEF Judged, Reclaim
  <2>2. aiStatus' \in [Post -> AIStatus \cup {None}] /\ stale' \subseteq Post
      BY DEF Judged, TypeOK, Reclaim, AIStatus
  <2> QED
      BY <2>1, <2>2 DEF Judged, TypeOK, Reclaim, Step
<1>2. \A p \in Post : RowSound(p)'
    BY <1>0, NoneIsNoStatus DEF Judged, RowSound, Reclaim
<1>3. \A p \in Post : Held(p)' => aiStatus'[p] # None
    BY <1>0, NoneIsNoStatus DEF Judged, Held, Working, Reclaim
<1>4. \A m \in Instance : disp'[m] # "send" => batch'[m] = {}
    BY DEF Judged, TypeOK, Reclaim, Step
<1>5. LocksSound'
    BY <1>0 DEF Judged, LocksSound, Reclaim
<1> QED
    BY <1>1, <1>2, <1>3, <1>4, <1>5 DEF Judged, JobSound, Reclaim

LEMMA OldestQueued ==
    Oldest(Queued) \subseteq
        {p \in Post : aiStatus[p] = "queued" /\ \A n \in Instance : p \notin locked[n]}
    BY DEF Oldest, Queued

LEMMA ClaimLockJudged ==
    ASSUME Judged, NEW n \in Instance, ClaimLock(n)
    PROVE  Judged'
<1> DEFINE S == Oldest(Queued)
<1>1. /\ UNCHANGED <<posts, row, inForce, batch, job, ctxDone>>
      /\ locked' = [locked EXCEPT ![n] = S] \/ locked' = locked
      /\ Step(n, "claim", "mark") \/ Step(n, "claim", "wait")
    BY DEF ClaimLock
<1>2. S \subseteq Post
    BY OldestQueued
<1>3. \A p \in S : aiStatus[p] = "queued" /\ \A m \in Instance : p \notin locked[m]
    BY OldestQueued
<1> HIDE DEF S
<1>4. TypeOK'
  <2>1. faults' \in 0..MaxFaults
      BY FaultTyped DEF Judged, ClaimLock
  <2>2. locked' \in [Instance -> SUBSET Post]
      BY <1>1, <1>2 DEF Judged, TypeOK
  <2>3. disp' \in [Instance -> {"reclaim", "claim", "mark", "send", "wait",
                                "closing", "stopped", "down"}]
      BY <1>1 DEF Judged, TypeOK, Step
  <2> QED
      BY <2>1, <2>2, <2>3, <1>1 DEF Judged, TypeOK, posts
<1>5. LocksSound'
  <2>1. UNCHANGED aiStatus
      BY <1>1 DEF posts
  <2>2. /\ locked'[n] = S \/ locked'[n] = locked[n]
        /\ \A m \in Instance : m # n => locked'[m] = locked[m]
      BY <1>1 DEF Judged, TypeOK
  <2>3. LocksSound
      BY DEF Judged
  <2>4. \A p \in Post, m \in Instance : p \in locked'[m] => aiStatus'[p] = "queued"
      BY <1>3, <2>1, <2>2, <2>3 DEF LocksSound
  <2>5. \A p \in Post, k, m \in Instance :
            (p \in locked'[k] /\ p \in locked'[m]) => k = m
      BY <1>3, <2>2, <2>3 DEF LocksSound
  <2> QED
      BY <2>4, <2>5 DEF LocksSound
<1>6. \A p \in Post : RowSound(p)'
    BY <1>1 DEF Judged, RowSound, posts
<1>7. \A p \in Post : Held(p)' => aiStatus'[p] # None
    BY <1>1 DEF Judged, Held, Working, posts
<1>8. \A m \in Instance : disp'[m] # "send" => batch'[m] = {}
    BY <1>1 DEF Judged, TypeOK, Step
<1>9. \A m \in Instance, w \in Worker : JobSound(job[m][w])'
    BY <1>1 DEF Judged, JobSound
<1> QED
    BY <1>4, <1>5, <1>6, <1>7, <1>8, <1>9 DEF Judged

(* What the UPDATE of a claim may do: mark the rows it has locked, and     *)
(* hand them to its dispatcher.                                            *)
LEMMA ClaimMarks ==
    ASSUME Judged, NEW n \in Instance, ClaimMark(n)
    PROVE  /\ UNCHANGED <<status, score, row, inForce, job, ctxDone>>
           /\ locked' = [locked EXCEPT ![n] = {}]
           /\ \/ /\ Step(n, "mark", "send")
                 /\ batch' = [batch EXCEPT ![n] = locked[n]]
                 /\ stale' = stale \ locked[n]
                 /\ \A p \in locked[n] : aiStatus'[p] = "processing"
              \/ Step(n, "mark", "wait") /\ batch' = batch
           /\ faults' \in 0..MaxFaults
           /\ stale' \subseteq stale
           /\ aiStatus' \in [Post -> AIStatus \cup {None}]
           /\ \A p \in Post : \/ aiStatus'[p] = aiStatus[p]
                              \/ /\ aiStatus[p] = "queued" /\ aiStatus'[p] = "processing"
                                 /\ p \in locked[n]
<1>1. \A p \in Post : p \in locked[n] => aiStatus[p] = "queued"
    BY DEF Judged, LocksSound
<1>2. locked[n] \subseteq Post
    BY DEF Judged, TypeOK
<1>3. faults' \in 0..MaxFaults
    BY FaultTyped DEF Judged, ClaimMark
<1>4. MarkProcessing(locked[n]) \/ UNCHANGED posts
    BY DEF ClaimMark
<1>5. /\ UNCHANGED <<status, score>>
      /\ stale' \subseteq stale
      /\ aiStatus' \in [Post -> AIStatus \cup {None}]
    BY <1>4 DEF Judged, TypeOK, MarkProcessing, posts, AIStatus
<1>6. \A p \in Post : \/ aiStatus'[p] = aiStatus[p]
                      \/ /\ aiStatus[p] = "queued" /\ aiStatus'[p] = "processing"
                         /\ p \in locked[n]
    BY <1>1, <1>4 DEF MarkProcessing, posts
<1>7. \/ /\ Step(n, "mark", "send")
         /\ batch' = [batch EXCEPT ![n] = locked[n]]
         /\ stale' = stale \ locked[n]
         /\ \A p \in locked[n] : aiStatus'[p] = "processing"
      \/ Step(n, "mark", "wait") /\ batch' = batch
    BY <1>2 DEF ClaimMark, MarkProcessing
<1> QED
    BY <1>3, <1>5, <1>6, <1>7 DEF ClaimMark

(* A claim that is marked takes in hand what it had locked.                *)
LEMMA ClaimMarksHands ==
    ASSUME Judged, NEW n \in Instance, ClaimMark(n), NEW p \in Post, Held(p)'
    PROVE  Held(p) \/ p \in locked[n]
<1>1. UNCHANGED job
    BY ClaimMarks
<1>2. batch' = [batch EXCEPT ![n] = locked[n]] \/ batch' = batch
    BY ClaimMarks
<1>3. \A m \in Instance : batch'[m] = batch[m] \/ (m = n /\ batch'[m] = locked[n])
    BY <1>2 DEF Judged, TypeOK
<1> QED
    BY <1>1, <1>3 DEF Held, Working

(* Hands that give posts away or let go of them take none.                 *)
LEMMA HandsKept ==
    ASSUME \A n \in Instance : batch'[n] \subseteq batch[n],
           \A n \in Instance, w \in Worker : job'[n][w].post \in {job[n][w].post, None}
    PROVE  \A p \in Post : Held(p)' => Held(p)
    BY PostIsNat DEF Held, Working

LEMMA ClaimMarkJudged ==
    ASSUME Judged, NEW n \in Instance, ClaimMark(n)
    PROVE  Judged'
<1>1. TypeOK'
  <2>1. locked[n] \subseteq Post
      BY DEF Judged, TypeOK
  <2>2. batch' \in [Instance -> SUBSET Post] /\ locked' \in [Instance -> SUBSET Post]
      BY <2>1, ClaimMarks DEF Judged, TypeOK
  <2>3. disp' \in [Instance -> {"reclaim", "claim", "mark", "send", "wait",
                                "closing", "stopped", "down"}]
      BY ClaimMarks DEF Judged, TypeOK, Step
  <2> QED
      BY <2>2, <2>3, ClaimMarks DEF Judged, TypeOK
<1>2. \A p \in Post : RowSound(p)'
    BY ClaimMarks, NoneIsNoStatus DEF Judged, RowSound
<1>3. \A p \in Post : Held(p)' => aiStatus'[p] # None
  <2> SUFFICES ASSUME NEW p \in Post, Held(p)' PROVE aiStatus'[p] # None
      OBVIOUS
  <2>1. Held(p) \/ p \in locked[n]
      BY ClaimMarksHands
  <2>2. Held(p) \/ aiStatus[p] = "queued"
      BY <2>1 DEF Judged, LocksSound
  <2> QED
      BY <2>2, ClaimMarks, NoneIsNoStatus DEF Judged
<1>4. \A m \in Instance : disp'[m] # "send" => batch'[m] = {}
    BY ClaimMarks DEF Judged, TypeOK, Step
<1>5. LocksSound'
  <2>1. /\ locked'[n] = {}
        /\ \A m \in Instance : m # n => locked'[m] = locked[m]
      BY ClaimMarks DEF Judged, TypeOK
  <2>2. LocksSound
      BY DEF Judged
  <2>3. \A p \in Post : p \notin locked[n] => aiStatus'[p] = aiStatus[p]
      BY ClaimMarks
  <2>4. \A p \in Post, m \in Instance :
            p \in locked'[m] => m # n /\ p \in locked[m] /\ p \notin locked[n]
      BY <2>1, <2>2 DEF LocksSound
  <2> QED
      BY <2>2, <2>3, <2>4 DEF LocksSound
<1>6. \A m \in Instance, w \in Worker : JobSound(job[m][w])'
    BY ClaimMarks DEF Judged, JobSound
<1> QED
    BY <1>1, <1>2, <1>3, <1>4, <1>5, <1>6 DEF Judged

(* A post that is sent was in the dispatcher's hand before.                *)
LEMMA SendsHands ==
    ASSUME Judged, NEW n \in Instance, NEW w \in Worker, NEW p \in Post, Send(n, w, p),
           NEW j \in Job, j.post = p, Becomes(n, w, j)
    PROVE  \A q \in Post : Held(q)' => Held(q)
<1>1. \A m \in Instance : batch'[m] \subseteq batch[m]
    BY DEF Judged, TypeOK, Send
<1>2. /\ job'[n][w] = j
      /\ \A m \in Instance, v \in Worker : m # n \/ v # w => job'[m][v] = job[m][v]
    BY BecomesOne DEF Judged
<1>3. p \in batch[n]
    BY DEF Send
<1>4. \A m \in Instance, v \in Worker : job'[m][v].post \in {job[m][v].post, p}
    BY <1>2
<1>5. Held(p)
    BY <1>3 DEF Held
<1> QED
    BY <1>1, <1>4, <1>5 DEF Held, Working

LEMMA SendJudged ==
    ASSUME Judged, NEW n \in Instance, NEW w \in Worker, NEW p \in Post, Send(n, w, p)
    PROVE  Judged'
<1> DEFINE j == [pc |-> "settings", post |-> p, set |-> None, verdict |-> None]
<1>0. j \in Job /\ j.pc = "settings" /\ j.post = p
    BY DEF Job
<1>1. Becomes(n, w, j)
    BY DEF Send
<1>2. JobSound(j)
    BY <1>0 DEF JobSound
<1> HIDE DEF j
<1>3. TypeOK'
  <2>1. job' \in [Instance -> [Worker -> Job]]
      BY <1>0, <1>1, BecomesOne DEF Judged
  <2>2. inForce' \in [Post -> SUBSET Threshold]
      BY SetIsThreshold DEF Judged, TypeOK, Send
  <2> QED
      BY <2>1, <2>2 DEF Judged, TypeOK, Send, Step, posts
<1>4. \A m \in Instance, v \in Worker : JobSound(job'[m][v])
    BY <1>0, <1>1, <1>2, BecomesSound
<1>5. \A q \in Post : Held(q)' => Held(q)
    BY <1>0, <1>1, SendsHands
<1>6. \A m \in Instance : disp'[m] # "send" => batch'[m] = {}
    BY DEF Judged, TypeOK, Send, Step
<1> QED
    BY <1>3, <1>4, <1>5, <1>6, RowsKept DEF Send

(* A dispatcher that stops, a process that ends, take nothing in hand.     *)
LEMMA LetsGo ==
    ASSUME Judged, NEW n \in Instance, StopSending(n) \/ Exit(n)
    PROVE  /\ \A m \in Instance : batch'[m] \subseteq batch[m]
           /\ \A m \in Instance, w \in Worker :
                  job'[m][w].post \in {job[m][w].post, None}
<1>1. \A m \in Instance : batch'[m] \subseteq batch[m]
    BY DEF Judged, TypeOK, StopSending, Exit
<1>2. \A m \in Instance, w \in Worker : job'[m][w] \in {job[m][w], NoJob}
  <2>1. CASE StopSending(n)
      BY <2>1 DEF StopSending
  <2>2. CASE Exit(n)
      BY <2>2 DEF Judged, TypeOK, Exit
  <2> QED
      BY <2>1, <2>2
<1> QED
    BY <1>1, <1>2, NoJobIsJob

LEMMA StopSendingJudged ==
    ASSUME Judged, NEW n \in Instance, StopSending(n)
    PROVE  Judged'
<1>1. TypeOK'
    BY DEF Judged, TypeOK, StopSending, Step, posts
<1>2. \A q \in Post : Held(q)' => Held(q)
  <2>1. /\ \A m \in Instance : batch'[m] \subseteq batch[m]
        /\ \A m \in Instance, w \in Worker : job'[m][w].post \in {job[m][w].post, None}
      BY LetsGo
  <2> QED
      BY <2>1, HandsKept
<1>3. \A m \in Instance : disp'[m] # "send" => batch'[m] = {}
    BY DEF Judged, TypeOK, StopSending, Step
<1>4. \A m \in Instance, w \in Worker : JobSound(job'[m][w])
    BY DEF Judged, StopSending
<1> QED
    BY <1>1, <1>2, <1>3, <1>4, RowsKept DEF StopSending

(* The steps that only move the dispatcher on or cancel its context.       *)
LEMMA WaitingJudged ==
    ASSUME Judged, NEW n \in Instance,
           Tick(n) \/ StopWaiting(n) \/ Stopped(n) \/ Cancel(n) \/ Start(n)
    PROVE  Judged'
<1>1. TypeOK'
  <2>1. CASE Cancel(n)
      BY <2>1, FaultTyped DEF Judged, TypeOK, Cancel, posts
  <2>2. CASE Tick(n) \/ StopWaiting(n) \/ Stopped(n) \/ Start(n)
      BY <2>2 DEF Judged, TypeOK, Tick, StopWaiting, Stopped, Start, Step, posts
  <2> QED
      BY <2>1, <2>2
<1>2. \A m \in Instance : disp'[m] # "send" => disp[m] # "send"
    BY DEF Judged, TypeOK, Tick, StopWaiting, Stopped, Start, Cancel, Step
<1>3. UNCHANGED <<posts, locked, batch, job>>
    BY DEF Tick, StopWaiting, Stopped, Start, Cancel
<1> QED
    BY <1>1, <1>2, <1>3, QuietJudged

LEMMA ExitJudged ==
    ASSUME Judged, NEW n \in Instance, Exit(n)
    PROVE  Judged'
<1>1. TypeOK'
  <2>1. faults' \in 0..MaxFaults
      BY FaultTyped DEF Judged, Exit
  <2> QED
      BY <2>1, NoJobIsJob DEF Judged, TypeOK, Exit, posts
<1>2. \A q \in Post : Held(q)' => Held(q)
  <2>1. /\ \A m \in Instance : batch'[m] \subseteq batch[m]
        /\ \A m \in Instance, w \in Worker : job'[m][w].post \in {job[m][w].post, None}
      BY LetsGo
  <2> QED
      BY <2>1, HandsKept
<1>3. \A m \in Instance : disp'[m] # "send" => batch'[m] = {}
    BY DEF Judged, TypeOK, Exit
<1>4. \A m \in Instance, w \in Worker : JobSound(job'[m][w])
  <2>1. JobSound(NoJob)
      BY NoJobIsJob DEF JobSound
  <2> QED
      BY <2>1 DEF Judged, TypeOK, Exit
<1>5. \A m \in Instance : locked'[m] \subseteq locked[m]
    BY DEF Judged, TypeOK, Exit
<1> QED
    BY <1>1, <1>2, <1>3, <1>4, <1>5, RowsKept DEF Exit

LEMMA ReadSettingsJudged ==
    ASSUME Judged, NEW n \in Instance, NEW w \in Worker, ReadSettings(n, w)
    PROVE  Judged'
<1>0. PICK s \in Rows \cup {Defaults} :
          /\ Fault \/ UNCHANGED faults
          /\ Becomes(n, w, [job[n][w] EXCEPT !.pc = "analyze", !.set = s])
    BY DEF ReadSettings, Get, Judged, TypeOK
<1>8. inForce' \in [Post -> SUBSET Threshold]
  <2>1. inForce \in [Post -> SUBSET Threshold] /\ Defaults \in Threshold
      BY SetIsThreshold DEF Judged, TypeOK
  <2>2. \/ inForce' = inForce
        \/ \E p : inForce' = [inForce EXCEPT ![p] = @ \cup {Defaults}]
      BY DEF ReadSettings
  <2> QED
      BY <2>1, <2>2
<1> DEFINE j == [job[n][w] EXCEPT !.pc = "analyze", !.set = s]
<1>1. job[n][w] \in Job /\ s \in Threshold /\ job[n][w].pc = "settings"
    BY SetIsThreshold DEF Judged, TypeOK, ReadSettings
<1>2. j \in Job /\ j.pc = "analyze" /\ j.set = s /\ j.post = job[n][w].post
    BY <1>1, JobReads, Zenon
<1>3. Becomes(n, w, j)
    BY <1>0
<1> HIDE DEF j
<1>4. JobSound(j)
    BY <1>1, <1>2 DEF Judged, JobSound
<1>5. TypeOK'
    BY <1>0, <1>2, <1>3, <1>8, BecomesOne, FaultTyped
       DEF Judged, TypeOK, ReadSettings, posts
<1>6. \A q \in Post : Held(q)' => Held(q)
    BY <1>2, <1>3, BecomesOne DEF Judged, Held, Working, ReadSettings
<1>7. \A m \in Instance, v \in Worker : JobSound(job'[m][v])
    BY <1>2, <1>3, <1>4, BecomesSound
<1> QED
    BY <1>5, <1>6, <1>7, RowsKept DEF Judged, ReadSettings

LEMMA AnalyzeJudged ==
    ASSUME Judged, NEW n \in Instance, NEW w \in Worker, Analyze(n, w)
    PROVE  Judged'
<1>0. PICK v \in Verdicts[job[n][w].post] :
          Becomes(n, w, [job[n][w] EXCEPT !.pc = "write", !.verdict = v])
    BY DEF Analyze
<1> DEFINE j == [job[n][w] EXCEPT !.pc = "write", !.verdict = v]
<1>1. job[n][w] \in Job /\ job[n][w].pc = "analyze" /\ job[n][w].post \in Post
    BY DEF Judged, TypeOK, Analyze, JobSound
<1>2. v \in Score \cup {None}
    BY <1>1, FidolinAssumption
<1>3. /\ j \in Job /\ j.pc = "write" /\ j.set = job[n][w].set
      /\ j.post = job[n][w].post /\ j.verdict = v
    BY <1>1, <1>2, JobAnalyzes, Zenon
<1>4. Becomes(n, w, j)
    BY <1>0
<1> HIDE DEF j
<1>5. JobSound(j)
    BY <1>1, <1>3 DEF Judged, JobSound
<1>6. TypeOK'
    BY <1>3, <1>4, BecomesOne DEF Judged, TypeOK, Analyze, posts
<1>7. \A q \in Post : Held(q)' => Held(q)
    BY <1>3, <1>4, BecomesOne DEF Judged, Held, Working, Analyze
<1>8. \A m \in Instance, u \in Worker : JobSound(job'[m][u])
    BY <1>3, <1>4, <1>5, BecomesSound
<1> QED
    BY <1>6, <1>7, <1>8, RowsKept DEF Judged, Analyze

LEMMA WriteFailsJudged ==
    ASSUME Judged, NEW n \in Instance, NEW w \in Worker, WriteFails(n, w)
    PROVE  Judged'
<1>1. Becomes(n, w, NoJob)
    BY DEF WriteFails, Finish
<1>2. TypeOK'
  <2>1. faults' \in 0..MaxFaults
      BY FaultTyped DEF Judged, WriteFails
  <2> QED
      BY <2>1, <1>1, NoJobIsJob, BecomesOne DEF Judged, TypeOK, WriteFails, posts
<1>3. \A q \in Post : Held(q)' => Held(q)
    BY <1>1, NoJobIsJob, PostIsNat, BecomesOne DEF Judged, Held, Working, WriteFails
<1>4. \A m \in Instance, v \in Worker : JobSound(job'[m][v])
    BY <1>1, NoJobIsJob, BecomesSound DEF JobSound
<1> QED
    BY <1>2, <1>3, <1>4, RowsKept DEF Judged, WriteFails

(* What a worker's write makes of the row: the outcome of its verdict.     *)
LEMMA WriteIsOutcome ==
    ASSUME Judged, NEW n \in Instance, NEW w \in Worker, Write(n, w)
    PROVE  \E p \in Post, s \in Rows \cup {Defaults} : \E v \in Verdicts[p] :
              /\ p = job[n][w].post /\ s = job[n][w].set /\ v = job[n][w].verdict
              /\ v \in Score \cup {None} /\ s \in Threshold
              /\ status' = [status EXCEPT ![p] = Outcome(v, s)]
              /\ aiStatus' = [aiStatus EXCEPT ![p] = IF v = None THEN "failed" ELSE "analyzed"]
              /\ score' = IF v = None THEN score ELSE [score EXCEPT ![p] = Rounded(v)]
              /\ Becomes(n, w, NoJob)
              /\ \A m \in Instance : p \notin locked[m]
              /\ UNCHANGED <<stale, row, inForce, disp, locked, batch, ctxDone, faults>>
<1> DEFINE p == job[n][w].post
           s == job[n][w].set
           v == job[n][w].verdict
<1>1. job[n][w].pc = "write" /\ JobSound(job[n][w])
    BY DEF Judged, Write
<1>2. p \in Post /\ s \in Rows \cup {Defaults} /\ v \in Verdicts[p]
    BY <1>1 DEF JobSound
<1>3. v \in Score \cup {None} /\ s \in Threshold
    BY <1>2, FidolinAssumption, SetIsThreshold
<1>4. /\ status' = [status EXCEPT ![p] = Outcome(v, s)]
      /\ aiStatus' = [aiStatus EXCEPT ![p] = IF v = None THEN "failed" ELSE "analyzed"]
      /\ score' = IF v = None THEN score ELSE [score EXCEPT ![p] = Rounded(v)]
      /\ Becomes(n, w, NoJob)
      /\ \A m \in Instance : p \notin locked[m]
      /\ UNCHANGED <<stale, row, inForce, disp, locked, batch, ctxDone, faults>>
    BY DEF Write, MarkFailed, ApplyAnalysis, Finish, Outcome
<1> HIDE DEF p, s, v
<1> QED
    BY <1>2, <1>3, <1>4 DEF p, s, v

(* The cases of decideStatus.                                              *)
LEMMA OutcomeOf ==
    ASSUME NEW v \in Score \cup {None}, NEW s \in Threshold
    PROVE  /\ Outcome(v, s) \in Status
           /\ v = None => Outcome(v, s) = "pending_review"
           /\ v # None => /\ Outcome(v, s) = "blocked" <=> v >= s.auto
                          /\ Outcome(v, s) = "visible" <=> v < s.auto /\ v < s.handoff
<1>1. CASE v = None
    BY <1>1 DEF Outcome, Status
<1>2. CASE v # None
  <2>1. v \in Int /\ s.auto \in Int /\ s.handoff \in Int
      BY <1>2 DEF Threshold, Column, Score
  <2> QED
      BY <1>2, <2>1 DEF Outcome, decideStatus, Status
<1> QED
    BY <1>1, <1>2

(* A column holds what it rounds a score to.                               *)
LEMMA RoundedIsColumn == \A v \in Score : Rounded(v) \in Column
    BY DEF Rounded, Score, Column

LEMMA WriteJudged ==
    ASSUME Judged, NEW n \in Instance, NEW w \in Worker, Write(n, w)
    PROVE  Judged'
<1>1. PICK p \in Post, s \in Rows \cup {Defaults} : \E v \in Verdicts[p] :
              /\ p = job[n][w].post /\ s = job[n][w].set /\ v = job[n][w].verdict
              /\ v \in Score \cup {None} /\ s \in Threshold
              /\ status' = [status EXCEPT ![p] = Outcome(v, s)]
              /\ aiStatus' = [aiStatus EXCEPT ![p] = IF v = None THEN "failed" ELSE "analyzed"]
              /\ score' = IF v = None THEN score ELSE [score EXCEPT ![p] = Rounded(v)]
              /\ Becomes(n, w, NoJob)
              /\ \A m \in Instance : p \notin locked[m]
              /\ UNCHANGED <<stale, row, inForce, disp, locked, batch, ctxDone, faults>>
    BY WriteIsOutcome
<1>2. PICK v \in Verdicts[p] :
              /\ v \in Score \cup {None} /\ s \in Threshold
              /\ status' = [status EXCEPT ![p] = Outcome(v, s)]
              /\ aiStatus' = [aiStatus EXCEPT ![p] = IF v = None THEN "failed" ELSE "analyzed"]
              /\ score' = IF v = None THEN score ELSE [score EXCEPT ![p] = Rounded(v)]
              /\ Becomes(n, w, NoJob)
              /\ \A m \in Instance : p \notin locked[m]
              /\ UNCHANGED <<stale, row, inForce, disp, locked, batch, ctxDone, faults>>
    BY <1>1
<1>3. TypeOK'
  <2>1. job' \in [Instance -> [Worker -> Job]]
      BY <1>2, NoJobIsJob, BecomesOne DEF Judged
  <2>2. /\ status' \in [Post -> Status \cup {None}]
        /\ aiStatus' \in [Post -> AIStatus \cup {None}]
      BY <1>2, OutcomeOf DEF Judged, TypeOK, AIStatus
  <2>3. score' \in [Post -> Column \cup {None}]
    <3>1. v # None => Rounded(v) \in Column
        BY <1>2, RoundedIsColumn
    <3> QED
        BY <1>2, <3>1 DEF Judged, TypeOK
  <2> QED
      BY <2>1, <2>2, <2>3, <1>2 DEF Judged, TypeOK
<1>4. \A q \in Post : RowSound(q)'
  <2> SUFFICES ASSUME NEW q \in Post PROVE RowSound(q)'
      OBVIOUS
  <2>1. CASE q # p
      BY <2>1, <1>2 DEF Judged, TypeOK, RowSound
  <2>2. CASE q = p
    <3>1. /\ status'[p] = Outcome(v, s)
          /\ aiStatus'[p] = IF v = None THEN "failed" ELSE "analyzed"
        BY <1>2 DEF Judged, TypeOK
    <3>2. /\ Outcome(v, s) # None
          /\ aiStatus'[p] # None
          /\ aiStatus'[p] \in {"queued", "processing", "failed"} => v = None
      <4>1. Outcome(v, s) \in Status
          BY <1>2, OutcomeOf
      <4> QED
          BY <3>1, <4>1, NoneIsNoStatus DEF Status
    <3> QED
        BY <2>2, <1>2, <3>1, <3>2, OutcomeOf DEF RowSound
  <2> QED
      BY <2>1, <2>2
<1>5. \A q \in Post : Held(q)' => aiStatus'[q] # None
  <2> SUFFICES ASSUME NEW q \in Post, Held(q)' PROVE aiStatus'[q] # None
      OBVIOUS
  <2>1. Held(q)
      BY <1>2, NoJobIsJob, PostIsNat, BecomesOne DEF Judged, Held, Working
  <2>2. aiStatus'[q] = aiStatus[q] \/ aiStatus'[q] \in {"failed", "analyzed"}
      BY <1>2 DEF Judged, TypeOK
  <2> QED
      BY <2>1, <2>2, NoneIsNoStatus DEF Judged
<1>6. \A m \in Instance, u \in Worker : JobSound(job[m][u])'
  <2>1. \A m \in Instance, u \in Worker : JobSound(job'[m][u])
      BY <1>2, NoJobIsJob, BecomesSound DEF JobSound
  <2> QED
      BY <2>1 DEF JobSound
<1>7. LocksSound'
  <2>1. \A q \in Post : q # p => aiStatus'[q] = aiStatus[q]
      BY <1>2 DEF Judged, TypeOK
  <2> QED
      BY <2>1, <1>2 DEF Judged, LocksSound
<1> QED
    BY <1>2, <1>3, <1>4, <1>5, <1>6, <1>7 DEF Judged

(* Judged is inductive, whether or not claims outlive StaleAfter.          *)
LEMMA NextJudged == Judged /\ [Next]_vars => Judged'
<1> SUFFICES ASSUME Judged, [Next]_vars PROVE Judged'
    OBVIOUS
<1>1. ASSUME NEW p \in Post, Create(p) \/ Age(p) PROVE Judged'
    BY <1>1, CreateJudged, AgeJudged
<1>2. ASSUME NEW s \in Rows, UpdateSettings(s) PROVE Judged'
    BY <1>2, UpdateSettingsJudged
<1>3. ASSUME NEW n \in Instance, Dispatch(n) PROVE Judged'
    BY <1>3, ReclaimJudged, ClaimLockJudged, ClaimMarkJudged, SendJudged,
       StopSendingJudged, WaitingJudged DEF Dispatch
<1>4. ASSUME NEW n \in Instance, Cancel(n) \/ Exit(n) \/ Start(n) PROVE Judged'
    BY <1>4, WaitingJudged, ExitJudged
<1>5. ASSUME NEW n \in Instance, NEW w \in Worker, Process(n, w) PROVE Judged'
    BY <1>5, ReadSettingsJudged, AnalyzeJudged, WriteJudged, WriteFailsJudged DEF Process
<1>6. CASE UNCHANGED vars
  <2>1. TypeOK'
      BY <1>6 DEF Judged, TypeOK, vars, posts, procs
  <2> QED
      BY <2>1, <1>6, QuietJudged DEF vars, posts, procs
<1> QED
    BY <1>1, <1>2, <1>3, <1>4, <1>5, <1>6 DEF Next

(* Rows and locals agree in every reachable state.                         *)
THEOREM JudgedAlways == Spec => []Judged
    BY InitJudged, NextJudged, PTL DEF Spec

(* The columns keep to the CHECKs of migration 0005, the locals of Run and *)
(* process to their types, for any number of posts, processes, workers.    *)
THEOREM TypeCorrect == Spec => []TypeOK
<1>1. Judged => TypeOK
    BY DEF Judged
<1> QED
    BY <1>1, JudgedAlways, PTL

(* Fail-closed, for any analyzer, any thresholds, any crashes and claims   *)
(* taken back too early: only an analysed post is visible or blocked.      *)
THEOREM UnjudgedIsHidden == Spec => []UnjudgedHidden
<1>1. Judged => UnjudgedHidden
    BY NoneIsNoStatus DEF Judged, RowSound, TypeOK, UnjudgedHidden, AIStatus
<1> QED
    BY <1>1, JudgedAlways, PTL

-----------------------------------------------------------------------------
(* What a worker has read was in force while it had its post, and the row  *)
(* is in force for whoever is at work.                                     *)
Current ==
    /\ \A p \in Post : Working(p) => row \in inForce[p]
    /\ \A n \in Instance, w \in Worker :
          job[n][w].pc \in {"analyze", "write"} =>
              job[n][w].set \in inForce[job[n][w].post]

(* A step that analyses no post leaves the analysed ones as they are.      *)
LEMMA AnalysedKept ==
    ASSUME DecidedAsSet,
           \A p \in Post : inForce[p] \subseteq inForce'[p],
           \A p \in Post : aiStatus'[p] = "analyzed" =>
               /\ aiStatus[p] = "analyzed"
               /\ status'[p] = status[p] /\ score'[p] = score[p]
    PROVE  DecidedAsSet'
    BY DEF DecidedAsSet

(* A step in which nobody takes up a post, reads or changes the thresholds.*)
LEMMA CurrentKept ==
    ASSUME Judged, Current, UNCHANGED <<row, inForce>>,
           \A n \in Instance, w \in Worker : job'[n][w] \in {job[n][w], NoJob}
    PROVE  Current'
<1>1. \A p \in Post : Working(p)' => Working(p)
    BY NoJobIsJob, PostIsNat DEF Working
<1>2. \A n \in Instance, w \in Worker :
          job'[n][w].pc \in {"analyze", "write"} => job'[n][w] = job[n][w]
    BY NoJobIsJob
<1> QED
    BY <1>1, <1>2 DEF Current

LEMMA UpdateSettingsAsSet ==
    ASSUME Judged, Current, DecidedAsSet, NEW s \in Rows, UpdateSettings(s)
    PROVE  (Current /\ DecidedAsSet)'
<1>1. \A p \in Post : inForce[p] \subseteq inForce'[p]
    BY DEF UpdateSettings
<1>2. DecidedAsSet'
    BY <1>1, AnalysedKept DEF UpdateSettings, posts
<1>3. \A p \in Post : Working(p)' => row' \in inForce'[p]
    BY DEF UpdateSettings, Working, procs
<1>4. \A n \in Instance, w \in Worker :
          job'[n][w].pc \in {"analyze", "write"} =>
              job'[n][w].set \in inForce'[job'[n][w].post]
  <2>1. UNCHANGED job
      BY DEF UpdateSettings, procs
  <2>2. \A n \in Instance, w \in Worker :
            job[n][w].pc \in {"analyze", "write"} => job[n][w].post \in Post
      BY DEF Judged, JobSound
  <2> QED
      BY <1>1, <2>1, <2>2 DEF Current
<1> QED
    BY <1>2, <1>3, <1>4 DEF Current

LEMMA SendAsSet ==
    ASSUME Judged, Current, DecidedAsSet,
           NEW n \in Instance, NEW w \in Worker, NEW p \in Post, Send(n, w, p)
    PROVE  (Current /\ DecidedAsSet)'
<1> DEFINE j == [pc |-> "settings", post |-> p, set |-> None, verdict |-> None]
<1>1. j \in Job /\ j.pc = "settings" /\ j.post = p
    BY DEF Job
<1>2. Becomes(n, w, j)
    BY DEF Send
<1> HIDE DEF j
<1>3. /\ job'[n][w] = j
      /\ \A m \in Instance, v \in Worker : m # n \/ v # w => job'[m][v] = job[m][v]
    BY <1>1, <1>2, BecomesOne DEF Judged
<1>4. /\ row' = row /\ row \in inForce'[p]
      /\ \A q \in Post : inForce[q] \subseteq inForce'[q]
    BY DEF Judged, TypeOK, Send
<1>5. DecidedAsSet'
    BY <1>4, AnalysedKept DEF Send, posts
<1>6. \A q \in Post : Working(q)' => row' \in inForce'[q]
    BY <1>1, <1>3, <1>4 DEF Working, Current
<1>7. \A m \in Instance, v \in Worker :
          job'[m][v].pc \in {"analyze", "write"} =>
              job'[m][v].set \in inForce'[job'[m][v].post]
  <2> SUFFICES ASSUME NEW m \in Instance, NEW v \in Worker,
                      job'[m][v].pc \in {"analyze", "write"}
               PROVE  job'[m][v].set \in inForce'[job'[m][v].post]
      OBVIOUS
  <2>1. job'[m][v] = job[m][v]
      BY <1>1, <1>3
  <2>2. job[m][v].post \in Post
      BY <2>1 DEF Judged, JobSound
  <2> QED
      BY <1>4, <2>1, <2>2 DEF Current
<1> QED
    BY <1>5, <1>6, <1>7 DEF Current

LEMMA ReadSettingsAsSet ==
    ASSUME Judged, Current, DecidedAsSet,
           NEW n \in Instance, NEW w \in Worker, ReadSettings(n, w)
    PROVE  (Current /\ DecidedAsSet)'
<1> DEFINE p == job[n][w].post
<1>1. job[n][w] \in Job /\ p \in Post /\ Working(p)
    BY DEF Judged, TypeOK, ReadSettings, JobSound, Working
<1>2. PICK s \in Rows \cup {Defaults} :
          /\ Becomes(n, w, [job[n][w] EXCEPT !.pc = "analyze", !.set = s])
          /\ \/ s = row /\ inForce' = inForce
             \/ s = Defaults /\ inForce' = [inForce EXCEPT ![p] = @ \cup {Defaults}]
    BY DEF ReadSettings, Get, Judged, TypeOK
<1> DEFINE j == [job[n][w] EXCEPT !.pc = "analyze", !.set = s]
<1>3. j \in Job /\ j.set = s /\ j.post = p
  <2>1. s \in Threshold
      BY SetIsThreshold
  <2> QED
      BY <1>1, <2>1, JobReads, Zenon
<1>4. Becomes(n, w, j)
    BY <1>2
<1> HIDE DEF j, p
<1>5. /\ job'[n][w] = j
      /\ \A m \in Instance, v \in Worker : m # n \/ v # w => job'[m][v] = job[m][v]
    BY <1>3, <1>4, BecomesOne DEF Judged
<1>6. /\ \A q \in Post : inForce[q] \subseteq inForce'[q]
      /\ s \in inForce'[p] /\ row' = row
    BY <1>1, <1>2 DEF Judged, TypeOK, Current, ReadSettings
<1>7. DecidedAsSet'
    BY <1>6, AnalysedKept DEF ReadSettings, posts
<1>8. \A q \in Post : Working(q)' => row' \in inForce'[q]
    BY <1>1, <1>3, <1>5, <1>6 DEF Working, Current
<1>9. \A m \in Instance, v \in Worker :
          job'[m][v].pc \in {"analyze", "write"} =>
              job'[m][v].set \in inForce'[job'[m][v].post]
  <2> SUFFICES ASSUME NEW m \in Instance, NEW v \in Worker,
                      job'[m][v].pc \in {"analyze", "write"}
               PROVE  job'[m][v].set \in inForce'[job'[m][v].post]
      OBVIOUS
  <2>1. CASE m = n /\ v = w
      BY <1>3, <1>5, <1>6, <2>1
  <2>2. CASE m # n \/ v # w
    <3>1. job'[m][v] = job[m][v]
        BY <1>5, <2>2
    <3>2. job[m][v].post \in Post
        BY <3>1 DEF Judged, JobSound
    <3> QED
        BY <1>6, <3>1, <3>2 DEF Current
  <2> QED
      BY <2>1, <2>2
<1> QED
    BY <1>7, <1>8, <1>9 DEF Current

LEMMA AnalyzeAsSet ==
    ASSUME Judged, Current, DecidedAsSet,
           NEW n \in Instance, NEW w \in Worker, Analyze(n, w)
    PROVE  (Current /\ DecidedAsSet)'
<1>1. /\ job[n][w] \in Job /\ job[n][w].pc = "analyze" /\ job[n][w].post \in Post
      /\ job[n][w].set \in inForce[job[n][w].post]
    BY DEF Judged, TypeOK, Analyze, JobSound, Current
<1>2. PICK u \in Verdicts[job[n][w].post] :
          Becomes(n, w, [job[n][w] EXCEPT !.pc = "write", !.verdict = u])
    BY DEF Analyze
<1> DEFINE j == [job[n][w] EXCEPT !.pc = "write", !.verdict = u]
<1>3. u \in Score \cup {None}
    BY <1>1, FidolinAssumption
<1>4. j \in Job /\ j.set = job[n][w].set /\ j.post = job[n][w].post
    BY <1>1, <1>3, JobAnalyzes, Zenon
<1>5. Becomes(n, w, j)
    BY <1>2
<1> HIDE DEF j
<1>6. /\ job'[n][w] = j
      /\ \A m \in Instance, v \in Worker : m # n \/ v # w => job'[m][v] = job[m][v]
    BY <1>4, <1>5, BecomesOne DEF Judged
<1>7. UNCHANGED <<posts, row, inForce>>
    BY DEF Analyze
<1>8. DecidedAsSet'
    BY <1>7, AnalysedKept DEF posts
<1> QED
    BY <1>1, <1>4, <1>6, <1>7, <1>8 DEF Working, Current

LEMMA WriteAsSet ==
    ASSUME Judged, Current, DecidedAsSet,
           NEW n \in Instance, NEW w \in Worker, Write(n, w)
    PROVE  (Current /\ DecidedAsSet)'
<1>1. PICK p \in Post, s \in Rows \cup {Defaults} : \E v \in Verdicts[p] :
              /\ p = job[n][w].post /\ s = job[n][w].set /\ v = job[n][w].verdict
              /\ v \in Score \cup {None} /\ s \in Threshold
              /\ status' = [status EXCEPT ![p] = Outcome(v, s)]
              /\ aiStatus' = [aiStatus EXCEPT ![p] = IF v = None THEN "failed" ELSE "analyzed"]
              /\ score' = IF v = None THEN score ELSE [score EXCEPT ![p] = Rounded(v)]
              /\ Becomes(n, w, NoJob)
              /\ \A m \in Instance : p \notin locked[m]
              /\ UNCHANGED <<stale, row, inForce, disp, locked, batch, ctxDone, faults>>
    BY WriteIsOutcome
<1>2. PICK v \in Verdicts[p] :
              /\ v \in Score \cup {None} /\ s \in Threshold
              /\ status' = [status EXCEPT ![p] = Outcome(v, s)]
              /\ aiStatus' = [aiStatus EXCEPT ![p] = IF v = None THEN "failed" ELSE "analyzed"]
              /\ score' = IF v = None THEN score ELSE [score EXCEPT ![p] = Rounded(v)]
              /\ Becomes(n, w, NoJob)
              /\ UNCHANGED <<row, inForce>>
    BY <1>1
<1>3. s \in inForce[p]
  <2>1. job[n][w].pc = "write"
      BY DEF Write
  <2> QED
      BY <1>1, <2>1 DEF Current
<1>4. Current'
  <2>1. \A m \in Instance, u \in Worker : job'[m][u] \in {job[m][u], NoJob}
      BY <1>2, NoJobIsJob, BecomesOne DEF Judged
  <2> QED
      BY <1>2, <2>1, CurrentKept
<1>5. ASSUME NEW q \in Post, aiStatus'[q] = "analyzed"
      PROVE  \E x \in Verdicts[q] \ {None}, t \in inForce'[q] :
                /\ score'[q] = Rounded(x)
                /\ status'[q] = "blocked" <=> x >= t.auto
                /\ status'[q] = "visible" <=> x < t.auto /\ x < t.handoff
  <2>1. CASE q # p
    <3>1. aiStatus[q] = "analyzed" /\ status'[q] = status[q] /\ score'[q] = score[q]
        BY <1>2, <1>5, <2>1 DEF Judged, TypeOK
    <3> QED
        BY <1>2, <3>1 DEF DecidedAsSet
  <2>2. CASE q = p
    <3>1. v # None
        BY <1>2, <1>5, <2>2 DEF Judged, TypeOK
    <3>2. status'[p] = Outcome(v, s) /\ score'[p] = Rounded(v)
        BY <1>2, <3>1 DEF Judged, TypeOK
    <3>3. /\ Outcome(v, s) = "blocked" <=> v >= s.auto
          /\ Outcome(v, s) = "visible" <=> v < s.auto /\ v < s.handoff
        BY <1>2, <3>1, OutcomeOf
    <3>4. v \in Verdicts[p] \ {None} /\ s \in inForce'[p]
        BY <1>2, <1>3, <3>1
    <3> QED
        BY <2>2, <3>2, <3>3, <3>4
  <2> QED
      BY <2>1, <2>2
<1> QED
    BY <1>4, <1>5 DEF DecidedAsSet

LEMMA InitAsSet == Init => Current /\ DecidedAsSet
<1> SUFFICES ASSUME Init PROVE Current /\ DecidedAsSet
    OBVIOUS
<1>1. \A n \in Instance, w \in Worker : job[n][w] = NoJob
    BY DEF Init
<1>2. Current
    BY <1>1, NoJobIsJob, PostIsNat DEF Current, Working
<1>3. DecidedAsSet
    BY NoneIsNoStatus DEF Init, DecidedAsSet
<1> QED
    BY <1>2, <1>3

LEMMA NextAsSet ==
    ASSUME Judged, Current, DecidedAsSet, [Next]_vars
    PROVE  (Current /\ DecidedAsSet)'
<1>1. ASSUME UNCHANGED <<row, inForce>>,
             \A n \in Instance, w \in Worker : job'[n][w] \in {job[n][w], NoJob},
             \A p \in Post : aiStatus'[p] = "analyzed" =>
                 /\ aiStatus[p] = "analyzed"
                 /\ status'[p] = status[p] /\ score'[p] = score[p]
      PROVE  (Current /\ DecidedAsSet)'
    BY <1>1, CurrentKept, AnalysedKept
<1>2. ASSUME NEW p \in Post, Create(p) \/ Age(p) PROVE (Current /\ DecidedAsSet)'
    BY <1>1, <1>2 DEF Judged, TypeOK, Create, Age, procs
<1>3. ASSUME NEW n \in Instance, Reclaim(n) \/ ClaimLock(n) \/ ClaimMark(n)
      PROVE  (Current /\ DecidedAsSet)'
  <2>1. CASE Reclaim(n)
    <3>1. \A p \in Post : \/ aiStatus'[p] = aiStatus[p]
                          \/ aiStatus[p] = "processing" /\ aiStatus'[p] = "queued"
        BY <2>1 DEF Judged, TypeOK, Reclaim
    <3> QED
        BY <1>1, <2>1, <3>1 DEF Reclaim
  <2>2. CASE ClaimLock(n)
      BY <1>1, <2>2 DEF ClaimLock, posts
  <2>3. CASE ClaimMark(n)
    <3>1. /\ UNCHANGED <<status, score, row, inForce, job>>
          /\ \A p \in Post : \/ aiStatus'[p] = aiStatus[p]
                             \/ aiStatus'[p] = "processing"
        BY <2>3, ClaimMarks
    <3> QED
        BY <1>1, <3>1
  <2> QED
      BY <1>3, <2>1, <2>2, <2>3
<1>4. ASSUME NEW n \in Instance,
             \/ Tick(n) \/ StopSending(n) \/ StopWaiting(n) \/ Stopped(n)
             \/ Cancel(n) \/ Start(n)
      PROVE  (Current /\ DecidedAsSet)'
    BY <1>1, <1>4 DEF Tick, StopSending, StopWaiting, Stopped, Cancel, Start, posts
<1>5. ASSUME NEW n \in Instance, Exit(n) PROVE (Current /\ DecidedAsSet)'
  <2>1. \A m \in Instance, w \in Worker : job'[m][w] \in {job[m][w], NoJob}
      BY <1>5 DEF Judged, TypeOK, Exit
  <2> QED
      BY <1>1, <1>5, <2>1 DEF Exit, posts
<1>6. ASSUME NEW n \in Instance, NEW w \in Worker, WriteFails(n, w)
      PROVE  (Current /\ DecidedAsSet)'
  <2>1. \A m \in Instance, v \in Worker : job'[m][v] \in {job[m][v], NoJob}
      BY <1>6, NoJobIsJob, BecomesOne DEF Judged, WriteFails, Finish
  <2> QED
      BY <1>1, <1>6, <2>1 DEF WriteFails, posts
<1>7. CASE UNCHANGED vars
    BY <1>1, <1>7 DEF vars, posts, procs
<1> QED
    BY <1>2, <1>3, <1>4, <1>5, <1>6, <1>7, UpdateSettingsAsSet, SendAsSet,
       ReadSettingsAsSet, AnalyzeAsSet, WriteAsSet DEF Next, Dispatch, Process

(* Every analysed post shows one score the analyzer gave this very post,   *)
(* measured against thresholds that were in force while a worker had it,   *)
(* for any analyzer, thresholds that change at any time, claims that are   *)
(* taken back too early, and any number of writers.                        *)
THEOREM AnalysedAsSet == Spec => []DecidedAsSet
<1>1. Judged /\ Current /\ DecidedAsSet /\ [Next]_vars => (Current /\ DecidedAsSet)'
    BY NextAsSet
<1> QED
    BY <1>1, InitAsSet, JudgedAlways, PTL DEF Spec
-----------------------------------------------------------------------------
(* A step that takes no post in hand and leaves the claims that are held.  *)
LEMMA HandsShrink ==
    ASSUME Exclusive,
           \A n \in Instance : batch'[n] \subseteq batch[n],
           \A n \in Instance, w \in Worker : job'[n][w].post \in {job[n][w].post, None},
           \A p \in Post : Held(p)' => /\ aiStatus'[p] = aiStatus[p]
                                       /\ p \in stale' => p \in stale
    PROVE  Exclusive'
<1>1. \A p \in Post : Held(p)' => Held(p)
    BY PostIsNat DEF Held, Working
<1>2. \A p \in Post : Held(p)' => aiStatus'[p] = "processing" /\ p \notin stale'
    BY <1>1 DEF Exclusive
<1>3. \A p \in Post, m, n \in Instance :
          p \in batch'[m] =>
              /\ p \in batch'[n] => m = n
              /\ \A w \in Worker : job'[n][w].post # p
    BY PostIsNat DEF Exclusive
<1>4. \A p \in Post, m, n \in Instance, v, w \in Worker :
          (job'[m][v].post = p /\ job'[n][w].post = p) => m = n /\ v = w
    BY PostIsNat DEF Exclusive
<1> QED
    BY <1>2, <1>3, <1>4 DEF Exclusive

(* The steps around Fidolin.                                               *)
LEMMA CreateExclusive ==
    ASSUME Judged, Exclusive, NEW p \in Post, Create(p)
    PROVE  Exclusive'
<1>1. ~Held(p)
    BY DEF Judged, RowSound, Create
<1>2. \A q \in Post : Held(q)' => Held(q)
    BY DEF Held, Working, Create, procs
<1>3. \A q \in Post : q # p => aiStatus'[q] = aiStatus[q]
    BY DEF Judged, TypeOK, Create
<1> QED
    BY <1>1, <1>2, <1>3, HandsShrink DEF Create, procs

LEMMA AgeExclusive ==
    ASSUME ~SlowWork, Judged, Exclusive, NEW p \in Post, Age(p)
    PROVE  Exclusive'
<1>1. ~Held(p)
    BY DEF Age
<1>2. \A q \in Post : Held(q)' => Held(q)
    BY DEF Held, Working, Age, procs
<1> QED
    BY <1>1, <1>2, HandsShrink DEF Age, procs

LEMMA QuietExclusive ==
    ASSUME Exclusive, UNCHANGED <<posts, batch, job>>
    PROVE  Exclusive'
    BY HandsShrink DEF posts

LEMMA ReclaimExclusive ==
    ASSUME Judged, Exclusive, NEW n \in Instance, Reclaim(n)
    PROVE  Exclusive'
<1>1. \A q \in Post : Held(q)' => Held(q)
    BY DEF Held, Working, Reclaim
<1>2. \A q \in Post : q \notin stale => aiStatus'[q] = aiStatus[q]
    BY DEF Judged, TypeOK, Reclaim
<1>3. stale' \subseteq stale
    BY DEF Reclaim
<1>4. \A q \in Post : Held(q) => q \notin stale
    BY DEF Exclusive
<1> QED
    BY <1>1, <1>2, <1>3, <1>4, HandsShrink DEF Reclaim

LEMMA ClaimMarkExclusive ==
    ASSUME Judged, Exclusive, NEW n \in Instance, ClaimMark(n)
    PROVE  Exclusive'
<1> DEFINE S == locked[n]
<1>1. \A q \in S : q \in Post /\ ~Held(q)
    BY DEF Exclusive, Judged, TypeOK, LocksSound
<1>2. stale' \subseteq stale /\ job' = job
    BY ClaimMarks
<1>3. \A q \in Post : q \notin S => aiStatus'[q] = aiStatus[q]
    BY ClaimMarks
<1>4. CASE batch' = batch
  <2>1. \A q \in Post : Held(q)' => Held(q)
      BY <1>2, <1>4 DEF Held, Working
  <2> QED
      BY <1>1, <1>2, <1>3, <1>4, <2>1, HandsShrink
<1>5. CASE batch' # batch
  <2>1. /\ batch' = [batch EXCEPT ![n] = S]
        /\ \A q \in Post : q \in S => aiStatus'[q] = "processing"
        /\ stale' = stale \ S
        /\ disp[n] = "mark"
      BY <1>5, ClaimMarks DEF Step
  <2>6. batch[n] = {}
      BY <2>1 DEF Judged
  <2>2. batch'[n] = S /\ \A m \in Instance : m # n => batch'[m] = batch[m]
      BY <2>1 DEF Judged, TypeOK
  <2> HIDE DEF S
  <2>3. \A q \in Post : Held(q)' => Held(q) \/ q \in S
      BY <1>2, <2>2 DEF Held, Working
  <2>4. \A p \in Post : Held(p)' => aiStatus'[p] = "processing" /\ p \notin stale'
      BY <1>1, <1>2, <1>3, <2>1, <2>3 DEF Exclusive
  <2>5. \A p \in Post, k, m \in Instance :
          p \in batch'[k] =>
              /\ p \in batch'[m] => k = m
              /\ \A w \in Worker : job'[m][w].post # p
      BY <1>1, <1>2, <2>2 DEF Exclusive, Held, Working
  <2> QED
      BY <1>2, <2>4, <2>5 DEF Exclusive
<1> QED
    BY <1>4, <1>5

LEMMA SendExclusive ==
    ASSUME Judged, Exclusive, NEW n \in Instance, NEW w \in Worker, NEW p \in Post, Send(n, w, p)
    PROVE  Exclusive'
<1> DEFINE j == [pc |-> "settings", post |-> p, set |-> None, verdict |-> None]
<1>1. j \in Job /\ j.post = p
    BY DEF Job
<1>2. Becomes(n, w, j)
    BY DEF Send
<1> HIDE DEF j
<1>3. /\ job'[n][w].post = p
      /\ \A m \in Instance, v \in Worker : m # n \/ v # w => job'[m][v] = job[m][v]
    BY <1>1, <1>2, BecomesOne DEF Judged
<1>4. /\ batch'[n] = batch[n] \ {p} /\ p \in batch[n]
      /\ \A m \in Instance : m # n => batch'[m] = batch[m]
    BY DEF Judged, TypeOK, Send
<1>5. UNCHANGED <<aiStatus, stale>>
    BY DEF Send, posts
<1>6. \A q \in Post : Held(q)' => Held(q)
    BY <1>3, <1>4 DEF Held, Working
<1>7. \A q \in Post : Held(q)' => aiStatus'[q] = "processing" /\ q \notin stale'
    BY <1>5, <1>6 DEF Exclusive
<1>8. \A m \in Instance : p \notin batch'[m]
    BY <1>4 DEF Exclusive
<1>9. \A m \in Instance, v \in Worker : job[m][v].post # p
    BY <1>4 DEF Exclusive
<1>10. \A q \in Post, k, m \in Instance :
          q \in batch'[k] =>
              /\ q \in batch'[m] => k = m
              /\ \A v \in Worker : job'[m][v].post # q
  <2> SUFFICES ASSUME NEW q \in Post, NEW k \in Instance, NEW m \in Instance, q \in batch'[k]
               PROVE  /\ q \in batch'[m] => k = m
                      /\ \A v \in Worker : job'[m][v].post # q
      OBVIOUS
  <2>1. q # p /\ q \in batch[k]
      BY <1>4, <1>8
  <2> QED
      BY <2>1, <1>3, <1>4 DEF Exclusive
<1>11. \A q \in Post, k, m \in Instance, u, v \in Worker :
          (job'[k][u].post = q /\ job'[m][v].post = q) => k = m /\ u = v
  <2> SUFFICES ASSUME NEW q \in Post, NEW k \in Instance, NEW m \in Instance,
                      NEW u \in Worker, NEW v \in Worker,
                      job'[k][u].post = q, job'[m][v].post = q
               PROVE  k = m /\ u = v
      OBVIOUS
  <2>1. CASE q = p
      BY <1>3, <1>9, <2>1
  <2>2. CASE q # p
    <3>1. job'[k][u] = job[k][u] /\ job'[m][v] = job[m][v]
        BY <1>1, <1>3, <2>2
    <3> QED
        BY <3>1 DEF Exclusive
  <2> QED
      BY <2>1, <2>2
<1> QED
    BY <1>7, <1>10, <1>11 DEF Exclusive

LEMMA ExitExclusive ==
    ASSUME Judged, Exclusive, NEW n \in Instance, StopSending(n) \/ Exit(n)
    PROVE  Exclusive'
<1>1. \A m \in Instance : batch'[m] \subseteq batch[m]
    BY LetsGo
<1>2. \A m \in Instance, w \in Worker : job'[m][w].post \in {job[m][w].post, None}
    BY LetsGo
<1>3. UNCHANGED <<aiStatus, stale>>
    BY DEF StopSending, Exit, posts
<1> QED
    BY <1>1, <1>2, <1>3, HandsShrink

(* A worker keeps its post while it works on it, and lets go of it when it *)
(* is done; nobody takes another in hand.                                  *)
LEMMA WorkKeepsHands ==
    ASSUME Judged, NEW n \in Instance, NEW w \in Worker, Process(n, w)
    PROVE  /\ UNCHANGED batch
           /\ \A m \in Instance, v \in Worker : job'[m][v].post \in {job[m][v].post, None}
<1>0. UNCHANGED batch
    BY DEF Process, ReadSettings, Analyze, Write, WriteFails
<1>1. CASE Write(n, w) \/ WriteFails(n, w)
    BY <1>0, <1>1, NoJobIsJob, BecomesOne DEF Judged, Write, WriteFails, Finish
<1>2. CASE ReadSettings(n, w)
  <2>1. PICK s \in Rows \cup {Defaults} :
            Becomes(n, w, [job[n][w] EXCEPT !.pc = "analyze", !.set = s])
      BY <1>2 DEF ReadSettings, Judged, TypeOK
  <2> DEFINE j == [job[n][w] EXCEPT !.pc = "analyze", !.set = s]
  <2>2. job[n][w] \in Job /\ s \in Threshold
      BY SetIsThreshold DEF Judged, TypeOK
  <2>3. j \in Job /\ j.post = job[n][w].post
      BY <2>2, JobReads, Zenon
  <2>4. Becomes(n, w, j)
      BY <2>1
  <2> HIDE DEF j
  <2> QED
      BY <1>0, <2>3, <2>4, BecomesOne DEF Judged
<1>3. CASE Analyze(n, w)
  <2>1. PICK u \in Verdicts[job[n][w].post] :
            Becomes(n, w, [job[n][w] EXCEPT !.pc = "write", !.verdict = u])
      BY <1>3 DEF Analyze
  <2> DEFINE j == [job[n][w] EXCEPT !.pc = "write", !.verdict = u]
  <2>2. job[n][w] \in Job /\ job[n][w].post \in Post
    <3>1. job[n][w].pc = "analyze" /\ JobSound(job[n][w])
        BY <1>3 DEF Judged, Analyze
    <3> QED
        BY <3>1 DEF Judged, TypeOK, JobSound
  <2>3. u \in Score \cup {None}
      BY <2>2, FidolinAssumption
  <2>4. j \in Job /\ j.post = job[n][w].post
      BY <2>2, <2>3, JobAnalyzes, Zenon
  <2>5. Becomes(n, w, j)
      BY <2>1
  <2> HIDE DEF j
  <2> QED
      BY <1>0, <2>4, <2>5, BecomesOne DEF Judged
<1> QED
    BY <1>0, <1>1, <1>2, <1>3 DEF Process

LEMMA WorkExclusive ==
    ASSUME Judged, Exclusive, NEW n \in Instance, NEW w \in Worker,
           ReadSettings(n, w) \/ Analyze(n, w) \/ WriteFails(n, w)
    PROVE  Exclusive'
<1>1. UNCHANGED <<aiStatus, stale>>
    BY DEF ReadSettings, Analyze, WriteFails, posts
<1>2. /\ UNCHANGED batch
      /\ \A m \in Instance, v \in Worker : job'[m][v].post \in {job[m][v].post, None}
    BY WorkKeepsHands DEF Process
<1> QED
    BY <1>1, <1>2, HandsShrink

(* The writer was the only one that held the post.                         *)
LEMMA WriteExclusive ==
    ASSUME Judged, Exclusive, NEW n \in Instance, NEW w \in Worker, Write(n, w)
    PROVE  Exclusive'
<1>1. PICK p \in Post :
          /\ p = job[n][w].post
          /\ \A q \in Post : q # p => aiStatus'[q] = aiStatus[q]
          /\ Becomes(n, w, NoJob)
          /\ UNCHANGED <<stale, batch>>
    BY WriteIsOutcome DEF Judged, TypeOK
<1>2. /\ job'[n][w].post = None
      /\ \A m \in Instance, v \in Worker : m # n \/ v # w => job'[m][v] = job[m][v]
    BY <1>1, NoJobIsJob, BecomesOne DEF Judged
<1>3. ~Held(p)'
    BY <1>1, <1>2, PostIsNat DEF Exclusive, Held, Working
<1>4. \A m \in Instance, v \in Worker : job'[m][v].post \in {job[m][v].post, None}
    BY <1>2
<1> QED
    BY <1>1, <1>3, <1>4, HandsShrink

LEMMA NextExclusive == ~SlowWork /\ Judged /\ Exclusive /\ [Next]_vars => Exclusive'
<1> SUFFICES ASSUME ~SlowWork, Judged, Exclusive, [Next]_vars PROVE Exclusive'
    OBVIOUS
<1>1. ASSUME NEW p \in Post, Create(p) \/ Age(p) PROVE Exclusive'
    BY <1>1, CreateExclusive, AgeExclusive
<1>2. ASSUME NEW s \in Rows, UpdateSettings(s) PROVE Exclusive'
    BY <1>2, QuietExclusive DEF UpdateSettings, procs
<1>3. ASSUME NEW n \in Instance,
             Tick(n) \/ StopWaiting(n) \/ Stopped(n) \/ Cancel(n) \/ Start(n)
      PROVE  Exclusive'
    BY <1>3, QuietExclusive DEF Tick, StopWaiting, Stopped, Cancel, Start
<1>4. ASSUME NEW n \in Instance, Dispatch(n) PROVE Exclusive'
  <2>1. CASE ClaimLock(n)
      BY <2>1, QuietExclusive DEF ClaimLock
  <2> QED
      BY <1>3, <1>4, <2>1, ReclaimExclusive, ClaimMarkExclusive, SendExclusive,
         ExitExclusive DEF Dispatch
<1>5. ASSUME NEW n \in Instance, NEW w \in Worker, Process(n, w) PROVE Exclusive'
    BY <1>5, WorkExclusive, WriteExclusive DEF Process
<1>6. CASE UNCHANGED vars
    BY <1>6, QuietExclusive DEF vars, procs
<1> QED
    BY <1>1, <1>2, <1>3, <1>4, <1>5, <1>6, ExitExclusive DEF Next

LEMMA InitExclusive == Init => Exclusive
<1> SUFFICES ASSUME Init PROVE Exclusive
    OBVIOUS
<1>1. \A n \in Instance : batch[n] = {} /\ \A w \in Worker : job[n][w].post = None
    BY NoJobIsJob DEF Init
<1> QED
    BY <1>1, PostIsNat DEF Exclusive, Held, Working

(* A set without two different elements has at most one.                   *)
LEMMA NoTwo ==
    ASSUME NEW S, \A x, y \in S : x = y
    PROVE  Cardinality(S) <= 1
<1>1. CASE S = {}
    BY <1>1, FS_EmptySet
<1>2. CASE S # {}
  <2>1. PICK x : S = {x}
      BY <1>2
  <2> QED
      BY <2>1, FS_Singleton
<1> QED
    BY <1>1, <1>2

LEMMA ExclusiveOneHolder == Exclusive => OneHolder
<1> SUFFICES ASSUME Exclusive, NEW p \in Post PROVE Cardinality(Holders(p)) <= 1
    BY DEF OneHolder
<1>1. \A x, y \in Holders(p) : x = y
  <2> SUFFICES ASSUME NEW x \in Holders(p), NEW y \in Holders(p) PROVE x = y
      OBVIOUS
  <2>1. CASE x \in Instance /\ p \in batch[x] /\ y \in Instance /\ p \in batch[y]
      BY <2>1 DEF Exclusive
  <2>2. ASSUME NEW n \in Instance, p \in batch[n],
               NEW h \in Instance \X Worker, job[h[1]][h[2]].post = p
        PROVE  FALSE
      BY <2>2 DEF Exclusive
  <2>3. ASSUME NEW h \in Instance \X Worker, job[h[1]][h[2]].post = p,
               NEW k \in Instance \X Worker, job[k[1]][k[2]].post = p
        PROVE  h = k
      BY <2>3 DEF Exclusive
  <2> QED
      BY <2>1, <2>2, <2>3 DEF Holders
<1> QED
    BY <1>1, NoTwo

LEMMA ExclusiveAlways == ASSUME ~SlowWork PROVE Spec => [](Judged /\ Exclusive)
<1>1. Init => Judged /\ Exclusive
    BY InitJudged, InitExclusive
<1>2. Judged /\ Exclusive /\ [Next]_vars => (Judged /\ Exclusive)'
    BY NextJudged, NextExclusive
<1> QED
    BY <1>1, <1>2, PTL DEF Spec

(* While no claim outlives StaleAfter in the hand of whoever made it, a    *)
(* post is in at most one hand: one dispatcher's batch or one worker, of   *)
(* any number of processes that claim, crash and are restarted.            *)
THEOREM OneHolderUnlessSlow == ASSUME ~SlowWork PROVE Spec => []OneHolder
<1>1. Judged /\ Exclusive => OneHolder
    BY ExclusiveOneHolder
<1> QED
    BY <1>1, ExclusiveAlways, PTL
-----------------------------------------------------------------------------
(* A decided post is in nobody's hand, as long as posts are in one hand.   *)
LEMMA DecidedNotHeld ==
    Exclusive => \A p \in Decided : ~Held(p)
    BY DEF Exclusive, Decided

(* Every step but a worker's write either submits a post or changes        *)
(* nothing Verdict speaks of.                                              *)
LEMMA OthersSubmit ==
    ASSUME Judged, [Next]_vars,
           ~ \E n \in Instance, w \in Worker : Write(n, w)
    PROVE  \/ \E p \in Post : Create(p)
           \/ UNCHANGED status /\ Decided' = Decided
<1>1. ASSUME NEW p \in Post, Age(p) PROVE UNCHANGED status /\ Decided' = Decided
    BY <1>1 DEF Age, Decided
<1>2. ASSUME NEW s \in Rows, UpdateSettings(s) PROVE UNCHANGED status /\ Decided' = Decided
    BY <1>2 DEF UpdateSettings, posts, Decided
<1>3. ASSUME NEW n \in Instance, Reclaim(n) PROVE UNCHANGED status /\ Decided' = Decided
  <2>1. \A p \in Post : \/ aiStatus'[p] = aiStatus[p]
                        \/ aiStatus[p] = "processing" /\ aiStatus'[p] = "queued"
      BY <1>3 DEF Judged, TypeOK, Reclaim
  <2> QED
      BY <2>1, <1>3 DEF Reclaim, Decided
<1>4. ASSUME NEW n \in Instance, ClaimMark(n)
      PROVE  UNCHANGED status /\ Decided' = Decided
    BY <1>4, ClaimMarks DEF Decided
<1>5. ASSUME NEW n \in Instance,
             \/ ClaimLock(n) \/ Tick(n) \/ StopSending(n) \/ StopWaiting(n)
             \/ Stopped(n) \/ Cancel(n) \/ Exit(n) \/ Start(n)
             \/ \E w \in Worker, p \in Post : Send(n, w, p)
             \/ \E w \in Worker : ReadSettings(n, w) \/ Analyze(n, w) \/ WriteFails(n, w)
      PROVE  UNCHANGED status /\ Decided' = Decided
    BY <1>5 DEF ClaimLock, Tick, StopSending, StopWaiting, Stopped, Cancel, Exit,
                Start, Send, ReadSettings, Analyze, WriteFails, posts, Decided
<1>6. CASE UNCHANGED vars
    BY <1>6 DEF vars, posts, Decided
<1> QED
    BY <1>1, <1>2, <1>3, <1>4, <1>5, <1>6 DEF Next, Dispatch, Process

LEMMA CreateSubmits ==
    ASSUME Judged, NEW p \in Post, Create(p)
    PROVE  Promise!Submit(p) /\ Decided' = Decided
<1>1. aiStatus[p] = None /\ aiStatus' = [aiStatus EXCEPT ![p] = "queued"]
    BY DEF Judged, RowSound, Create
<1>2. Decided' = Decided
    BY <1>1, NoneIsNoStatus DEF Judged, TypeOK, Decided
<1> QED
    BY <1>2 DEF Create, Promise!Submit

(* A write decides its post, or writes to one that is decided.             *)
LEMMA WriteDecides ==
    ASSUME Judged, NEW n \in Instance, NEW w \in Worker, Write(n, w)
    PROVE  \E p \in Post, s \in Rows \cup {Defaults} : \E v \in Verdicts[p] :
              /\ Held(p)
              /\ status' = [status EXCEPT ![p] = Outcome(v, s)]
              /\ Decided' = Decided \cup {p}
              /\ p \notin Decided => Promise!Decide(p)
<1>1. PICK p \in Post, s \in Rows \cup {Defaults} : \E v \in Verdicts[p] :
              /\ p = job[n][w].post
              /\ v \in Score \cup {None} /\ s \in Threshold
              /\ status' = [status EXCEPT ![p] = Outcome(v, s)]
              /\ aiStatus' = [aiStatus EXCEPT ![p] = IF v = None THEN "failed" ELSE "analyzed"]
    BY WriteIsOutcome
<1>2. PICK v \in Verdicts[p] :
              /\ v \in Score \cup {None} /\ s \in Threshold
              /\ status' = [status EXCEPT ![p] = Outcome(v, s)]
              /\ aiStatus' = [aiStatus EXCEPT ![p] = IF v = None THEN "failed" ELSE "analyzed"]
    BY <1>1
<1>3. Held(p)
    BY <1>1 DEF Held, Working
<1>4. Decided' = Decided \cup {p}
    BY <1>2 DEF Judged, TypeOK, Decided
<1>5. ASSUME p \notin Decided PROVE Promise!Decide(p)
  <2>1. aiStatus[p] \in {"queued", "processing"}
      BY <1>3, <1>5 DEF Judged, TypeOK, Decided, AIStatus
  <2>2. status[p] = "pending_review"
      BY <2>1 DEF Judged, RowSound
  <2>3. Outcome(v, s) \in {"visible", "pending_review", "blocked"}
      BY <1>2, OutcomeOf DEF Status
  <2> QED
      BY <1>2, <1>4, <1>5, <2>2, <2>3 DEF Promise!Decide
<1> QED
    BY <1>2, <1>3, <1>4, <1>5

(* With one opinion, a decided post keeps the status that opinion gives.   *)
LEMMA NextSettled == Unanimous /\ Judged /\ Settled /\ [Next]_vars => Settled'
<1> SUFFICES ASSUME Unanimous, Judged, Settled, [Next]_vars PROVE Settled'
    OBVIOUS
<1>1. ASSUME NEW n \in Instance, NEW w \in Worker, Write(n, w) PROVE Settled'
  <2>1. PICK p \in Post, s \in Rows \cup {Defaults} : \E v \in Verdicts[p] :
              /\ status' = [status EXCEPT ![p] = Outcome(v, s)]
              /\ Decided' = Decided \cup {p}
      BY <1>1, WriteDecides
  <2>2. PICK v \in Verdicts[p] : /\ status' = [status EXCEPT ![p] = Outcome(v, s)]
                                 /\ Decided' = Decided \cup {p}
      BY <2>1
  <2>3. \A u \in Verdicts[p], t \in Rows \cup {Defaults} : status'[p] = Outcome(u, t)
    <3>1. status'[p] = Outcome(v, s)
        BY <2>2 DEF Judged, TypeOK
    <3> QED
        BY <3>1 DEF Unanimous
  <2>4. \A q \in Decided : q # p => status'[q] = status[q]
      BY <2>2 DEF Judged, TypeOK, Decided
  <2> QED
      BY <2>2, <2>3, <2>4 DEF Settled
<1>2. ASSUME NEW p \in Post, Create(p) PROVE Settled'
  <2>1. Decided' = Decided /\ p \notin Decided
      BY <1>2, CreateSubmits, NoneIsNoStatus DEF Judged, RowSound, Create, Decided
  <2>2. \A q \in Decided : status'[q] = status[q]
      BY <1>2, <2>1 DEF Judged, TypeOK, Create, Decided
  <2> QED
      BY <2>1, <2>2 DEF Settled
<1>3. CASE UNCHANGED status /\ Decided' = Decided
    BY <1>3 DEF Settled
<1> QED
    BY <1>1, <1>2, <1>3, OthersSubmit

LEMMA InitSettled == Init => Settled
    BY NoneIsNoStatus DEF Init, Settled, Decided

LEMMA InitPromised == Init => Promise!Init
    BY NoneIsNoStatus DEF Init, Decided, Promise!Init

(* A step keeps the promise if a write never meets a post that is decided  *)
(* with another outcome.                                                   *)
LEMMA StepKeepsPromise ==
    ASSUME Judged, [Next]_vars,
           \A p \in Decided :
              \/ ~Held(p)
              \/ Unanimous /\ Settled
    PROVE  [Promise!Next]_<<status, Decided>>
<1>1. ASSUME NEW n \in Instance, NEW w \in Worker, Write(n, w)
      PROVE  [Promise!Next]_<<status, Decided>>
  <2>1. PICK p \in Post, s \in Rows \cup {Defaults} : \E v \in Verdicts[p] :
              /\ Held(p)
              /\ status' = [status EXCEPT ![p] = Outcome(v, s)]
              /\ Decided' = Decided \cup {p}
              /\ p \notin Decided => Promise!Decide(p)
      BY <1>1, WriteDecides
  <2>2. CASE p \notin Decided
      BY <2>1, <2>2 DEF Promise!Next
  <2>3. CASE p \in Decided
    <3>1. Settled
        BY <2>1, <2>3
    <3>2. PICK v \in Verdicts[p] : status' = [status EXCEPT ![p] = Outcome(v, s)]
        BY <2>1
    <3>3. status[p] = Outcome(v, s)
        BY <2>3, <3>1 DEF Settled
    <3>4. status' = status
        BY <3>2, <3>3 DEF Judged, TypeOK
    <3> QED
        BY <2>1, <2>3, <3>4
  <2> QED
      BY <2>2, <2>3
<1>2. ASSUME NEW p \in Post, Create(p) PROVE [Promise!Next]_<<status, Decided>>
    BY <1>2, CreateSubmits DEF Promise!Next
<1> QED
    BY <1>1, <1>2, OthersSubmit

(* Fidolin keeps what moderation promises, for any number of posts,        *)
(* processes, workers and faults, on either of two conditions: no claim    *)
(* outlives StaleAfter in somebody's hand, or all verdicts on a post come  *)
(* to the same under all thresholds in use.                                *)
THEOREM DecidedOnceUnlessSlowAndFickle ==
    ASSUME ~SlowWork \/ Unanimous PROVE Spec => DecidedOnce
<1>1. CASE ~SlowWork
  <2>1. Judged /\ Exclusive /\ [Next]_vars => [Promise!Next]_<<status, Decided>>
      BY DecidedNotHeld, StepKeepsPromise
  <2>2. Spec => [](Judged /\ Exclusive)
      BY <1>1, ExclusiveAlways
  <2> QED
      BY <2>1, <2>2, InitPromised, PTL DEF Spec, DecidedOnce, Promise!Spec, Promise!verdictVars
<1>2. CASE Unanimous
  <2>1. Judged /\ Settled /\ [Next]_vars => [Promise!Next]_<<status, Decided>>
      BY <1>2, StepKeepsPromise
  <2>2. Init => Judged /\ Settled
      BY InitJudged, InitSettled
  <2>3. Judged /\ Settled /\ [Next]_vars => (Judged /\ Settled)'
      BY <1>2, NextJudged, NextSettled
  <2> QED
      BY <2>1, <2>2, <2>3, InitPromised, PTL DEF Spec, DecidedOnce, Promise!Spec, Promise!verdictVars
<1> QED
    BY <1>1, <1>2
-----------------------------------------------------------------------------
(* A post comes into a hand from the queue, or from another hand.          *)
LEMMA HandsTake ==
    ASSUME Judged, [Next]_vars, NEW p \in Post, Held(p)'
    PROVE  Held(p) \/ aiStatus[p] = "queued"
<1>1. ASSUME NEW n \in Instance, ClaimMark(n)
      PROVE  Held(p) \/ aiStatus[p] = "queued"
  <2>1. Held(p) \/ p \in locked[n]
      BY <1>1, ClaimMarksHands
  <2> QED
      BY <2>1 DEF Judged, LocksSound
<1>2. ASSUME NEW n \in Instance, NEW w \in Worker, NEW q \in Post, Send(n, w, q)
      PROVE  Held(p)
  <2> DEFINE j == [pc |-> "settings", post |-> q, set |-> None, verdict |-> None]
  <2>1. j \in Job /\ j.post = q
      BY DEF Job
  <2>2. Becomes(n, w, j)
      BY <1>2 DEF Send
  <2> HIDE DEF j
  <2> QED
      BY <1>2, <2>1, <2>2, SendsHands
<1>3. ASSUME NEW n \in Instance, StopSending(n) \/ Exit(n) PROVE Held(p)
  <2>1. /\ \A m \in Instance : batch'[m] \subseteq batch[m]
        /\ \A m \in Instance, w \in Worker : job'[m][w].post \in {job[m][w].post, None}
      BY <1>3, LetsGo
  <2> QED
      BY <2>1, HandsKept
<1>4. ASSUME NEW n \in Instance, NEW w \in Worker, Process(n, w) PROVE Held(p)
    BY <1>4, WorkKeepsHands, PostIsNat DEF Held, Working
<1>5. (batch' = batch /\ job' = job) => Held(p)
    BY DEF Held, Working
<1>6. ASSUME NEW n \in Instance,
             \/ Reclaim(n) \/ ClaimLock(n) \/ Tick(n) \/ StopWaiting(n)
             \/ Stopped(n) \/ Cancel(n) \/ Start(n)
      PROVE  Held(p)
    BY <1>5, <1>6 DEF Reclaim, ClaimLock, Tick, StopWaiting, Stopped, Cancel, Start
<1>7. ASSUME \/ \E q \in Post : Create(q) \/ Age(q)
             \/ \E s \in Rows : UpdateSettings(s)
             \/ UNCHANGED vars
      PROVE  Held(p)
    BY <1>5, <1>7 DEF Create, Age, UpdateSettings, procs, vars
<1> QED
    BY <1>1, <1>2, <1>3, <1>4, <1>6, <1>7 DEF Next, Dispatch

(* Only a hand changes what is decided.                                    *)
LEMMA UnheldStands ==
    ASSUME Judged, [Next]_vars, NEW p \in Decided, ~Held(p)
    PROVE  p \in Decided' /\ status'[p] = status[p]
<1>1. ASSUME NEW n \in Instance, NEW w \in Worker, Write(n, w)
      PROVE  p \in Decided' /\ status'[p] = status[p]
  <2>1. PICK q \in Post, s \in Rows \cup {Defaults} : \E v \in Verdicts[q] :
              /\ Held(q)
              /\ status' = [status EXCEPT ![q] = Outcome(v, s)]
              /\ Decided' = Decided \cup {q}
      BY <1>1, WriteDecides
  <2>2. q # p
      BY <2>1
  <2> QED
      BY <2>1, <2>2 DEF Judged, TypeOK, Decided
<1>2. ASSUME NEW q \in Post, Create(q)
      PROVE  p \in Decided' /\ status'[p] = status[p]
  <2>1. Decided' = Decided /\ q # p
      BY <1>2, CreateSubmits, NoneIsNoStatus DEF Judged, RowSound, Create, Decided
  <2> QED
      BY <1>2, <2>1 DEF Judged, TypeOK, Create, Decided
<1>3. CASE UNCHANGED status /\ Decided' = Decided
    BY <1>3
<1> QED
    BY <1>1, <1>2, <1>3, OthersSubmit

(* A decision nobody can touch any more is final, for any analyzer, any    *)
(* number of hands the post was in before, and however slow they were.     *)
THEOREM DecisionsAreFinal == Spec => DecisionsFinal
<1>1. Judged /\ [Next]_vars =>
          [\A p \in Decided : ~Held(p) =>
              ~Held(p)' /\ p \in Decided' /\ status'[p] = status[p]]_vars
  <2> SUFFICES ASSUME Judged, [Next]_vars, NEW p \in Decided, ~Held(p)
               PROVE  ~Held(p)' /\ p \in Decided' /\ status'[p] = status[p]
      OBVIOUS
  <2>1. p \in Post /\ aiStatus[p] # "queued"
      BY DEF Decided
  <2> QED
      BY <2>1, HandsTake, UnheldStands
<1> QED
    BY <1>1, JudgedAlways, PTL DEF Spec, DecisionsFinal
=============================================================================
