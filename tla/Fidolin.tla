------------------------------ MODULE Fidolin ------------------------------
(***************************************************************************)
(* Fidolin, the moderation worker: several server processes ("instances"), *)
(* each with one dispatcher and a pool of workers, share the posts table.  *)
(* Every store call is one statement that commits on its own.  A post is   *)
(* claimed by marking its row 'processing' with a time stamp, and a claim  *)
(* that has become too old is taken back by any dispatcher.                *)
(* Scores and thresholds are thousandths; the NUMERIC(3,2) columns that    *)
(* keep them hold hundredths.                                              *)
(***************************************************************************)
EXTENDS Integers, FiniteSets

CONSTANTS
    Post,       \* posts, numbered in the order of created_at
    Instance,   \* server processes
    Worker,     \* worker goroutines of an instance
    ConfiguredBatch,  \* Config.BatchSize, as FIDOLIN_BATCH_SIZE gives it
    Rows,       \* moderation_settings rows an administrator may set
    Defaults,   \* moderation.Defaults
    Verdicts,   \* Verdicts[p]: scores Analyze may give p; None: an error
    SlowWork,   \* whether a claim can outlive StaleAfter while it is held
    MaxFaults,  \* bound: failing store calls, crashes and shutdowns together
    None

(* New: a configured size that makes no batch becomes 10.                  *)
BatchSize == IF ConfiguredBatch < 1 THEN 10 ELSE ConfiguredBatch

Status   == {"pending_review", "visible", "blocked"}
AIStatus == {"queued", "processing", "analyzed", "failed"}

Score == 0..1000

(* What a NUMERIC(3,2) column keeps of a score, and all it can keep.       *)
Rounded(v) == ((v + 5) \div 10) * 10

Column == {c \in Score : c % 10 = 0}

Threshold == [auto : Column, handoff : Column]

ASSUME FidolinAssumption ==
    /\ Post \subseteq Nat
    /\ IsFiniteSet(Post)
    /\ ConfiguredBatch \in Int
    /\ Rows \subseteq Threshold
    /\ Rows # {}
    /\ Defaults \in Threshold
    /\ None \notin Nat \cup Threshold \cup Status \cup AIStatus
    /\ Verdicts \in [Post -> SUBSET (Score \cup {None})]
    /\ SlowWork \in BOOLEAN
    /\ MaxFaults \in Nat

VARIABLES
    status,    \* posts.status, None while there is no such post
    aiStatus,  \* posts.ai_status
    score,     \* posts.ai_score
    stale,     \* posts whose ai_claimed_at is longer ago than StaleAfter
    row,       \* the moderation_settings row
    inForce,   \* history: inForce[p] are the thresholds that were in force
               \* while a worker had p, the Defaults if it could not read them
    disp,      \* program counter of each instance's Run
    locked,    \* posts whose rows a claim statement has locked
    batch,     \* posts a dispatcher has claimed and not yet sent
    job,       \* what each worker is doing
    ctxDone,   \* instances whose context is cancelled
    faults     \* bound: faults so far

posts == <<status, aiStatus, score, stale>>
procs == <<disp, locked, batch, job, ctxDone>>
vars  == <<posts, row, inForce, procs, faults>>

NoJob == [pc |-> "idle", post |-> None, set |-> None, verdict |-> None]

Job == [pc : {"idle", "settings", "analyze", "write"}, post : Post \cup {None},
        set : Threshold \cup {None}, verdict : Score \cup {None}]

Init ==
    /\ status = [p \in Post |-> None]
    /\ aiStatus = [p \in Post |-> None]
    /\ score = [p \in Post |-> None]
    /\ stale = {}
    /\ row \in Rows
    /\ inForce = [p \in Post |-> {}]
    /\ disp = [n \in Instance |-> "reclaim"]
    /\ locked = [n \in Instance |-> {}]
    /\ batch = [n \in Instance |-> {}]
    /\ job = [n \in Instance |-> [w \in Worker |-> NoJob]]
    /\ ctxDone = {}
    /\ faults = 0

Fault == faults < MaxFaults /\ faults' = faults + 1

Step(n, from, to) == disp[n] = from /\ disp' = [disp EXCEPT ![n] = to]

Becomes(n, w, j) == job' = [job EXCEPT ![n][w] = j]

(* A store call with a cancelled context fails and writes nothing.         *)
Live(n) == n \notin ctxDone
-----------------------------------------------------------------------------
(* Around Fidolin: authors, the administrator, time.                       *)

(* Faulty variant: the column default of status is 'visible'.              *)
CreateVisible(p) ==
    /\ status[p] = None
    /\ status' = [status EXCEPT ![p] = "visible"]
    /\ aiStatus' = [aiStatus EXCEPT ![p] = "queued"]
    /\ UNCHANGED <<score, stale, row, inForce, procs, faults>>

(* posts.Repository.Create: the column defaults of migration 0005.  An     *)
(* insert that began earlier (created_at) may commit later.                *)
Create(p) ==
    /\ status[p] = None
    /\ status' = [status EXCEPT ![p] = "pending_review"]
    /\ aiStatus' = [aiStatus EXCEPT ![p] = "queued"]
    /\ UNCHANGED <<score, stale, row, inForce, procs, faults>>

(* Some worker is at work on p.                                            *)
Working(p) == \E n \in Instance, w \in Worker : job[n][w].post = p

(* moderation.PgRepository.Update *)
UpdateSettings(s) ==
    /\ row # s
    /\ row' = s
    /\ inForce' = [p \in Post |->
          IF Working(p) THEN inForce[p] \cup {s} ELSE inForce[p]]
    /\ UNCHANGED <<posts, procs, faults>>

Held(p) == (\E n \in Instance : p \in batch[n]) \/ Working(p)

(* StaleAfter has passed since p was claimed.                              *)
Age(p) ==
    /\ aiStatus[p] = "processing"
    /\ p \notin stale
    /\ SlowWork \/ ~Held(p)
    /\ stale' = stale \cup {p}
    /\ UNCHANGED <<status, aiStatus, score, row, inForce, procs, faults>>
-----------------------------------------------------------------------------
(* The dispatcher of Run *)

(* Faulty variants: ReclaimStale does not look at ai_status; it is never   *)
(* called.                                                                 *)
ReclaimAnyStatus(n) ==
    /\ Step(n, "reclaim", "claim")
    /\ aiStatus' = [p \in Post |-> IF p \in stale THEN "queued" ELSE aiStatus[p]]
    /\ stale' = {}
    /\ UNCHANGED <<status, score, row, inForce, locked, batch, job, ctxDone, faults>>

ReclaimNever(n) ==
    /\ Step(n, "reclaim", "claim")
    /\ UNCHANGED <<posts, row, inForce, locked, batch, job, ctxDone, faults>>

(* ReclaimStale; an error is only logged.                                  *)
Reclaim(n) ==
    /\ Step(n, "reclaim", "claim")
    /\ \/ /\ Live(n)
          /\ aiStatus' = [p \in Post |->
                IF aiStatus[p] = "processing" /\ p \in stale
                THEN "queued" ELSE aiStatus[p]]
          /\ stale' = {p \in stale : aiStatus[p] # "processing"}
          /\ UNCHANGED faults
       \/ /\ Fault
          /\ UNCHANGED <<aiStatus, stale>>
       \/ /\ ~Live(n)
          /\ UNCHANGED <<aiStatus, stale, faults>>
    /\ UNCHANGED <<status, score, row, inForce, locked, batch, job, ctxDone>>

(* Faulty variants: failed analyses are tried again; the SELECT locks no   *)
(* rows, so that it does not see what another claim is about to take.      *)
QueuedOrFailed ==
    {p \in Post : aiStatus[p] \in {"queued", "failed"}
                     /\ \A n \in Instance : p \notin locked[n]}

QueuedUnlocked == {p \in Post : aiStatus[p] = "queued"}

(* SKIP LOCKED: rows another claim has locked do not count.                *)
Queued ==
    {p \in Post : aiStatus[p] = "queued"
                     /\ \A n \in Instance : p \notin locked[n]}

(* The rows ORDER BY created_at LIMIT BatchSize picks.                     *)
Oldest(S) ==
    {p \in S : Cardinality({q \in S : q < p}) < BatchSize}

(* ClaimQueued, the SELECT: it locks the rows until the statement ends.    *)
ClaimLock(n) ==
    LET S == Oldest(Queued)
    IN  /\ \/ /\ Live(n)
              /\ locked' = [locked EXCEPT ![n] = S]
              /\ Step(n, "claim", IF S = {} THEN "wait" ELSE "mark")
              /\ UNCHANGED faults
           \/ /\ Fault \/ (~Live(n) /\ UNCHANGED faults)
              /\ Step(n, "claim", "wait")
              /\ UNCHANGED locked
        /\ UNCHANGED <<posts, row, inForce, batch, job, ctxDone>>

MarkProcessing(S) ==
    /\ aiStatus' = [p \in Post |-> IF p \in S THEN "processing" ELSE aiStatus[p]]
    /\ stale' = stale \ S
    /\ UNCHANGED <<status, score>>

(* ClaimQueued, the UPDATE, which tests nothing but the ids.  An error     *)
(* ends this round; the claim may have been committed all the same, and    *)
(* then nobody holds these posts.                                          *)
ClaimMark(n) ==
    /\ \/ /\ Live(n)
          /\ MarkProcessing(locked[n])
          /\ batch' = [batch EXCEPT ![n] = locked[n]]
          /\ Step(n, "mark", "send")
          /\ UNCHANGED faults
       \/ /\ Fault \/ (~Live(n) /\ UNCHANGED faults)
          /\ MarkProcessing(locked[n]) \/ UNCHANGED posts
          /\ Step(n, "mark", "wait")
          /\ UNCHANGED batch
    /\ locked' = [locked EXCEPT ![n] = {}]
    /\ UNCHANGED <<row, inForce, job, ctxDone>>

(* jobs <- p: the channel has no buffer, so a send meets an idle worker.   *)
(* RETURNING promises no order.  select picks either branch when both are  *)
(* ready, so a cancelled dispatcher may still send.                        *)
Send(n, w, p) ==
    /\ p \in batch[n]
    /\ job[n][w] = NoJob
    /\ batch' = [batch EXCEPT ![n] = @ \ {p}]
    /\ Step(n, "send", IF batch[n] = {p} THEN "wait" ELSE "send")
    /\ Becomes(n, w, [pc |-> "settings", post |-> p, set |-> None, verdict |-> None])
    /\ inForce' = [inForce EXCEPT ![p] = @ \cup {row}]
    /\ UNCHANGED <<posts, row, locked, ctxDone, faults>>

(* ctx.Done() in the middle of a batch: dispatch returns false.            *)
StopSending(n) ==
    /\ ~Live(n)
    /\ Step(n, "send", "closing")
    /\ batch' = [batch EXCEPT ![n] = {}]
    /\ UNCHANGED <<posts, row, inForce, locked, job, ctxDone, faults>>

(* ticker.C *)
Tick(n) ==
    /\ Step(n, "wait", "reclaim")
    /\ UNCHANGED <<posts, row, inForce, locked, batch, job, ctxDone, faults>>

(* Faulty variant: break leaves the select, not the loop.                  *)
StopWaitingBreak(n) ==
    /\ ~Live(n)
    /\ Step(n, "wait", "reclaim")
    /\ UNCHANGED <<posts, row, inForce, locked, batch, job, ctxDone, faults>>

(* ctx.Done() between two rounds.                                          *)
StopWaiting(n) ==
    /\ ~Live(n)
    /\ Step(n, "wait", "closing")
    /\ UNCHANGED <<posts, row, inForce, locked, batch, job, ctxDone, faults>>

(* close(jobs), wg.Wait(): the workers finish what they hold.              *)
Stopped(n) ==
    /\ \A w \in Worker : job[n][w] = NoJob
    /\ Step(n, "closing", "stopped")
    /\ UNCHANGED <<posts, row, inForce, locked, batch, job, ctxDone, faults>>
-----------------------------------------------------------------------------
(* process, run by a worker *)

(* Faulty variant: the row is not looked at.                               *)
GetDefaults(n, s, failed) ==
    /\ s = Defaults
    /\ IF failed THEN Fault \/ (~Live(n) /\ UNCHANGED faults)
                 ELSE Live(n) /\ UNCHANGED faults

(* moderation.PgRepository.Get: the row, or the Defaults with an error.    *)
Get(n, s, failed) ==
    IF failed THEN s = Defaults /\ (Fault \/ (~Live(n) /\ UNCHANGED faults))
              ELSE s = row /\ Live(n) /\ UNCHANGED faults

(* The error of settings.Get is dropped: the Defaults decide.              *)
ReadSettings(n, w) ==
    LET p == job[n][w].post
    IN  /\ job[n][w].pc = "settings"
        /\ \E s \in {row, Defaults}, failed \in BOOLEAN :
              /\ Get(n, s, failed)
              /\ Becomes(n, w, [job[n][w] EXCEPT !.pc = "analyze", !.set = s])
              /\ inForce' = IF failed THEN [inForce EXCEPT ![p] = @ \cup {Defaults}]
                                      ELSE inForce
        /\ UNCHANGED <<posts, row, disp, locked, batch, ctxDone>>

(* HeuristicAnalyzer, for the posts whose text contains a term of the      *)
(* blocklist: it repeats itself and never fails.                           *)
Heuristic(listed) == [p \in Post |-> {IF p \in listed THEN 950 ELSE 50}]

(* analyzer.Analyze *)
Analyze(n, w) ==
    /\ job[n][w].pc = "analyze"
    /\ \E v \in Verdicts[job[n][w].post] :
          Becomes(n, w, [job[n][w] EXCEPT !.pc = "write", !.verdict = v])
    /\ UNCHANGED <<posts, row, inForce, disp, locked, batch, ctxDone, faults>>

decideStatus(v, s) ==
    CASE v >= s.auto -> "blocked"
      [] v < s.auto /\ v >= s.handoff -> "pending_review"
      [] OTHER -> "visible"

(* The status is decided on the score as it is, the column rounds it.      *)
ApplyAnalysis(p, v, s) ==
    /\ score' = [score EXCEPT ![p] = Rounded(v)]
    /\ status' = [status EXCEPT ![p] = decideStatus(v, s)]
    /\ aiStatus' = [aiStatus EXCEPT ![p] = "analyzed"]
    /\ UNCHANGED stale

(* Faulty variant: the two columns are swapped.                            *)
MarkFailedSwapped(p) ==
    /\ status' = [status EXCEPT ![p] = "failed"]
    /\ aiStatus' = [aiStatus EXCEPT ![p] = "pending_review"]
    /\ UNCHANGED <<score, stale>>

MarkFailed(p) ==
    /\ status' = [status EXCEPT ![p] = "pending_review"]
    /\ aiStatus' = [aiStatus EXCEPT ![p] = "failed"]
    /\ UNCHANGED <<score, stale>>

Finish(n, w) == Becomes(n, w, NoJob)

(* Faulty variant: a worker whose claim was taken back reports a failure.  *)
WriteOrFail(n, w) ==
    LET j == job[n][w]
    IN  /\ j.pc = "write"
        /\ Live(n)
        /\ \A m \in Instance : j.post \notin locked[m]
        /\ IF j.verdict = None \/ aiStatus[j.post] # "processing"
           THEN MarkFailed(j.post)
           ELSE ApplyAnalysis(j.post, j.verdict, j.set)
        /\ Finish(n, w)
        /\ UNCHANGED <<row, inForce, disp, locked, batch, ctxDone, faults>>

(* ApplyAnalysis or MarkFailed, by id and without looking at ai_status; it *)
(* waits for a claim that has locked the row.                              *)
Write(n, w) ==
    LET j == job[n][w]
    IN  /\ j.pc = "write"
        /\ Live(n)
        /\ \A m \in Instance : j.post \notin locked[m]
        /\ IF j.verdict = None THEN MarkFailed(j.post)
                               ELSE ApplyAnalysis(j.post, j.verdict, j.set)
        /\ Finish(n, w)
        /\ UNCHANGED <<row, inForce, disp, locked, batch, ctxDone, faults>>

(* The write fails, which is only logged: the row stays 'processing'.      *)
WriteFails(n, w) ==
    /\ job[n][w].pc = "write"
    /\ Fault \/ (~Live(n) /\ UNCHANGED faults)
    /\ Finish(n, w)
    /\ UNCHANGED <<posts, row, inForce, disp, locked, batch, ctxDone>>
-----------------------------------------------------------------------------
(* SIGTERM: main cancels the context Run was given.                        *)
Cancel(n) ==
    /\ disp[n] \notin {"down", "stopped"}
    /\ Live(n)
    /\ Fault
    /\ ctxDone' = ctxDone \cup {n}
    /\ UNCHANGED <<posts, row, inForce, disp, locked, batch, job>>

(* The process is gone, by a crash or because main returned: main does not *)
(* wait for Run, so this may come before Stopped.  A claim statement that  *)
(* is running is rolled back; one that is committed and whose rows never   *)
(* arrive is the second case of ClaimMark.                                 *)
Exit(n) ==
    /\ disp[n] # "down"
    /\ Fault \/ (~Live(n) /\ UNCHANGED faults)
    /\ disp' = [disp EXCEPT ![n] = "down"]
    /\ locked' = [locked EXCEPT ![n] = {}]
    /\ batch' = [batch EXCEPT ![n] = {}]
    /\ job' = [job EXCEPT ![n] = [w \in Worker |-> NoJob]]
    /\ ctxDone' = ctxDone \ {n}
    /\ UNCHANGED <<posts, row, inForce>>

Start(n) ==
    /\ Step(n, "down", "reclaim")
    /\ UNCHANGED <<posts, row, inForce, locked, batch, job, ctxDone, faults>>

Dispatch(n) ==
    \/ Reclaim(n) \/ ClaimLock(n) \/ ClaimMark(n) \/ Tick(n)
    \/ StopSending(n) \/ StopWaiting(n) \/ Stopped(n)
    \/ \E w \in Worker, p \in Post : Send(n, w, p)

Process(n, w) ==
    ReadSettings(n, w) \/ Analyze(n, w) \/ Write(n, w) \/ WriteFails(n, w)

Next ==
    \/ \E p \in Post : Create(p) \/ Age(p)
    \/ \E s \in Rows : UpdateSettings(s)
    \/ \E n \in Instance :
          \/ Dispatch(n) \/ Cancel(n) \/ Exit(n) \/ Start(n)
          \/ \E w \in Worker : Process(n, w)

Spec == Init /\ [][Next]_vars

(* The runtime keeps scheduling the goroutines of a running process, the   *)
(* ticker fires, and a claim nobody holds grows old.  Between ctx.Done and *)
(* the ticker select picks at random when both are ready, so a cancelled   *)
(* context is not passed over for ever.  Nothing is assumed of authors,    *)
(* administrators, faults and restarts.                                    *)
Fairness ==
    /\ \A n \in Instance : WF_vars(Dispatch(n)) /\ SF_vars(StopWaiting(n))
    /\ \A n \in Instance, w \in Worker : WF_vars(Process(n, w))
    /\ \A p \in Post : WF_vars(Age(p))

FairSpec == Spec /\ Fairness
-----------------------------------------------------------------------------
TypeOK ==
    /\ status \in [Post -> Status \cup {None}]
    /\ aiStatus \in [Post -> AIStatus \cup {None}]
    /\ score \in [Post -> Column \cup {None}]
    /\ stale \subseteq Post
    /\ row \in Rows
    /\ inForce \in [Post -> SUBSET Threshold]
    /\ disp \in [Instance -> {"reclaim", "claim", "mark", "send", "wait",
                              "closing", "stopped", "down"}]
    /\ locked \in [Instance -> SUBSET Post]
    /\ batch \in [Instance -> SUBSET Post]
    /\ job \in [Instance -> [Worker -> Job]]
    /\ ctxDone \subseteq Instance
    /\ faults \in 0..MaxFaults

Decided == {p \in Post : aiStatus[p] \in {"analyzed", "failed"}}

(* A post is out of the feed until Fidolin has judged it and wherever the  *)
(* judging was lost: only an analysed post is visible or blocked, also     *)
(* when its claim was taken back and others claimed it again               *)
(* (fail-closed, worker.go:139).                                           *)
UnjudgedHidden ==
    \A p \in Post : status[p] \in {"visible", "blocked"} => aiStatus[p] = "analyzed"

(* Every analysed post shows one analysis: the analyzer gave this very     *)
(* post a score, thresholds that were in force while a worker had the post *)
(* (the Defaults only where they could not be read, worker.go:142) put the *)
(* score on this side of them, and the column holds that score, rounded.   *)
(* Neither old thresholds nor the locals of another post, nor two writers  *)
(* of one post, mix.                                                       *)
DecidedAsSet ==
    \A p \in Post : aiStatus[p] = "analyzed" =>
        \E v \in Verdicts[p] \ {None}, s \in inForce[p] :
            /\ score[p] = Rounded(v)
            /\ status[p] = "blocked" <=> v >= s.auto
            /\ status[p] = "visible" <=> v < s.auto /\ v < s.handoff

(* "Geht bei Fidolin etwas schief, wird der Beitrag nicht einfach          *)
(* durchgewinkt, sondern einem Menschen vorgelegt" (ERKLAERUNG.md:63): a   *)
(* post reaches the feed only when the thresholds somebody has set let its *)
(* score through.  (A score just below a threshold is stored as equal.)    *)
NothingWavedThrough ==
    \A p \in Post : status[p] = "visible" => \E s \in Rows : score[p] <= s.handoff

Holders(p) ==
    {n \in Instance : p \in batch[n]}
        \cup {h \in Instance \X Worker : job[h[1]][h[2]].post = p}

(* "Dank FOR UPDATE SKIP LOCKED greifen mehrere Worker/Instanzen nie       *)
(* denselben Beitrag" (store.go:22): a post is in at most one hand.        *)
OneHolder == \A p \in Post : Cardinality(Holders(p)) <= 1

(* However often a claim was taken back and a post judged by several       *)
(* hands: once it is decided and the last hand has let go of it, nobody    *)
(* takes it up again (the ai_status tests of store.go:44 and :92) and its  *)
(* status stands, though ai_claimed_at is never reset.                     *)
DecisionsFinal ==
    [][\A p \in Decided : ~Held(p) =>
          ~Held(p)' /\ p \in Decided' /\ status'[p] = status[p]]_vars

Promise == INSTANCE Verdict WITH decided <- Decided

(* Every post is decided once and the decision stands.                     *)
DecidedOnce == Promise!Spec

Running(n) == disp[n] \notin {"down", "stopped"} /\ Live(n)

(* A post is decided in the end, through lost claims, failed writes,       *)
(* shutdowns and crashes, in the middle of a batch or of an analysis: it   *)
(* is enough that some process runs again and again.                       *)
EventuallyDecided ==
    ([]<>(\E n \in Instance : Running(n))) =>
        \A p \in Post : (status[p] # None) ~> (p \in Decided)

(* After the context is cancelled Run returns: the dispatcher is never     *)
(* stuck sending to workers and the workers never wait for it.             *)
RunReturns ==
    \A n \in Instance : n \in ctxDone ~> disp[n] \in {"stopped", "down"}
=============================================================================
