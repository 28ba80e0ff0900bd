------------------------------ MODULE ProxyProofs ------------------------------
(***************************************************************************)
(* Proofs about Proxy, and the detector it asks, for any pictures, clips,    *)
(* addresses, pages, rules, requests and workers.                            *)
(***************************************************************************)
EXTENDS Proxy, SequenceTheorems, TLAPS

\* The values a request or a job is made of are the ones there are.
LEMMA Given ==
    /\ NoVerdict \in Answers /\ Verdicts \subseteq Answers
    /\ Nothing \in Things /\ Idle \in FlowType
    /\ Nobody \notin Flows
    /\ \A t \in Things : Truth[t] \in Verdicts /\ Looks(t) \subseteq Answers
    /\ \A p \in Policies : p.level \in MediaLevels
    /\ SlowWindow \in Nat \ {0}
<1>1. NoVerdict \in Answers /\ Verdicts \subseteq Answers
  BY DEF Answers
<1>2. Nothing \in Things
  BY ProxyConstants DEF Nothing
<1>3. (CHOOSE u \in Urls : TRUE) \in Urls /\ (CHOOSE p \in Pages : TRUE) \in Pages
  BY ProxyConstants
<1>4. Idle \in FlowType
  <2> DEFINE u0 == CHOOSE u \in Urls : TRUE
             p0 == CHOOSE p \in Pages : TRUE
  <2>1. u0 \in Urls /\ p0 \in Pages
    BY <1>3
  <2>2. Idle = [st |-> "idle", url |-> u0, page |-> p0, shape |-> "whole", mark |-> "plain",
                thing |-> Nothing, vouch |-> Nothing, level |-> "none",
                got |-> NoVerdict, out |-> "nothing"]
    BY DEF Idle
  <2> HIDE DEF u0, p0
  <2>3. NoVerdict \in Answers
    BY <1>1
  <2> HIDE DEF NoVerdict, Answers
  <2> QED BY <2>1, <2>2, <2>3, <1>2 DEF FlowType, Stages, Outs, MediaLevels
<1>5. Nobody \notin Flows /\ SlowWindow \in Nat \ {0}
  BY VisionConstants DEF Nobody
<1>6. \A t \in Things : Truth[t] \in Verdicts /\ Partly[t] \subseteq Verdicts
  BY VisionConstants
<1>7. \A t \in Things : Looks(t) \subseteq Answers
  BY <1>1, <1>6 DEF Looks
<1>8. \A p \in Policies : p.level \in MediaLevels
  BY ProxyConstants
<1> QED BY <1>1, <1>2, <1>4, <1>5, <1>6, <1>7, <1>8

\* What an account without a media level may see is everything.
LEMMA NothingHidden == \A v : ~ Hides("none", v)
  BY DEF Hides
-----------------------------------------------------------------------------
(* The inductive invariant. *)

\* A verdict on t is the right one, unless a job left frames of t out.
Sound(t, v) == v = NoVerdict \/ v = Truth[t] \/ t \in torn

\* What the caches say of a thing was once judged of it.
Remembered ==
    /\ \A t \in Things : Sound(t, cache[t])
    /\ \A u \in Urls, l \in MediaLevels : clean[<<u, l>>] # Absent => Fit(l, clean[<<u, l>>])

\* A request under way has let nothing through, and its answer is about its thing.
Told(fl) ==
    /\ fl.st # "idle" => fl.out = "nothing"
    /\ fl.st \in {"asked", "held"} => fl.shape # "piece"
    /\ fl.st = "answered" => Sound(fl.thing, fl.got)

\* What a request let through was its account's to see.
Passed(fl) ==
    /\ fl.out = "as is" => \/ fl.mark = "bypass"
                           \/ fl.mark = "pictures" /\ fl.vouch \notin Clips
                           \/ Fit(fl.level, fl.vouch)
    /\ fl.out = "unchecked" => fl.level \notin Strict

\* A job is for nobody, or for a request that waits for this job about this thing.
Working(job, flows) ==
    /\ job.kind = "remote" => job.for = Nobody
    /\ job.kind = "cover" => job.for # Nobody
    /\ job.for # Nobody =>
          /\ flows[job.for].thing = job.thing
          /\ job.kind = "cover" => flows[job.for].st = "covering"
          /\ job.kind # "cover" => flows[job.for].st = "waiting" /\ flows[job.for].shape # "piece"

\* Nobody has two jobs, and no clip two judgements through its source.
Distinct(jobs) ==
    \A i, j \in DOMAIN jobs :
        /\ jobs[i].for = jobs[j].for /\ jobs[i].for # Nobody => i = j
        /\ jobs[i].kind = "remote" /\ jobs[j].kind = "remote"
              /\ jobs[i].thing = jobs[j].thing => i = j

IInv ==
    /\ TypeOK
    /\ Remembered
    /\ \A f \in Flows : Told(flow[f]) /\ Passed(flow[f])
    /\ \A i \in DOMAIN pool : Working(pool[i], flow)
    /\ Distinct(pool)
-----------------------------------------------------------------------------
(* The detector. *)

\* The window is never longer than SLOW_WINDOW (_record).
LEMMA WindowBounded ==
  ASSUME NEW w \in Seq(BOOLEAN), NEW slow \in BOOLEAN, NEW n \in Nat
  PROVE  Record(w, slow, n) \in Seq(BOOLEAN) /\ Len(Record(w, slow, n)) <= SlowWindow
<1> DEFINE more == [i \in 1 .. n |-> slow]
           all == w \o more
<1>1. more \in Seq(BOOLEAN) /\ all \in Seq(BOOLEAN)
  OBVIOUS
<1>2. SlowWindow \in Nat /\ SlowWindow > 0
  BY Given
<1>3. Record(w, slow, n) = IF Len(all) <= SlowWindow THEN all
                           ELSE SubSeq(all, Len(all) - SlowWindow + 1, Len(all))
  BY DEF Record
<1> HIDE DEF all
<1>4. CASE Len(all) <= SlowWindow
  BY <1>1, <1>3, <1>4
<1>5. CASE ~ Len(all) <= SlowWindow
  <2> DEFINE cut == SubSeq(all, Len(all) - SlowWindow + 1, Len(all))
  <2>1. cut \in Seq(BOOLEAN) /\ Len(cut) <= SlowWindow
    BY <1>1, <1>2, <1>5
  <2>2. Record(w, slow, n) = cut
    BY <1>3, <1>5
  <2> QED BY <2>1, <2>2
<1> QED BY <1>4, <1>5

\* A job that ended is the only one that leaves the pool (Without).
LEMMA JobGone ==
  ASSUME pool \in Seq(Jobs), NEW i \in DOMAIN pool
  PROVE  /\ Without(i) \in Seq(Jobs)
         /\ \A j \in DOMAIN Without(i) : \E k \in DOMAIN pool :
               k # i /\ Without(i)[j] = pool[k] /\ k = IF j < i THEN j ELSE j + 1
<1>1. /\ Len(pool) \in Nat /\ DOMAIN pool = 1 .. Len(pool)
      /\ \A j \in 1 .. Len(pool) : pool[j] \in Jobs
  OBVIOUS
<1> DEFINE n == Len(pool) - 1
<1>2. n \in Nat /\ n = Len(pool) - 1
  BY <1>1
<1>3. Without(i) = [j \in 1 .. n |-> IF j < i THEN pool[j] ELSE pool[j + 1]]
  BY DEF Without
<1>4. \A j \in 1 .. n : (IF j < i THEN pool[j] ELSE pool[j + 1]) \in Jobs
  BY <1>1, <1>2
<1> HIDE DEF n
<1>5. Without(i) \in [1 .. n -> Jobs] /\ DOMAIN Without(i) = 1 .. n
  BY <1>3, <1>4
<1>6. Without(i) \in Seq(Jobs)
  BY <1>2, <1>5, SeqDef, Zenon
<1>7. ASSUME NEW j \in 1 .. n
      PROVE  \E k \in DOMAIN pool :
                k # i /\ Without(i)[j] = pool[k] /\ k = IF j < i THEN j ELSE j + 1
  <2>1. CASE j < i
    BY <1>1, <1>2, <1>3, <2>1
  <2>2. CASE ~ j < i
    <3>1. j + 1 \in DOMAIN pool /\ j + 1 # i
      BY <1>1, <1>2, <2>2
    <3>2. Without(i)[j] = pool[j + 1]
      BY <1>3, <2>2
    <3> QED BY <2>2, <3>1, <3>2
  <2> QED BY <2>1, <2>2
<1> QED BY <1>5, <1>6, <1>7

\* The jobs of f are nobody's once it has stopped waiting (Orphaned).
LEMMA JobsOrphaned ==
  ASSUME pool \in Seq(Jobs), NEW f \in Flows
  PROVE  /\ Orphaned(f) \in Seq(Jobs) /\ DOMAIN Orphaned(f) = DOMAIN pool
         /\ \A j \in DOMAIN pool :
               /\ Orphaned(f)[j].kind = pool[j].kind /\ Orphaned(f)[j].thing = pool[j].thing
               /\ pool[j].for = f => Orphaned(f)[j].for = Nobody
               /\ pool[j].for # f => Orphaned(f)[j] = pool[j]
<1>1. /\ Len(pool) \in Nat /\ DOMAIN pool = 1 .. Len(pool)
      /\ \A j \in 1 .. Len(pool) : pool[j] \in Jobs
  OBVIOUS
<1>2. ASSUME NEW job \in Jobs
      PROVE  LET o == [job EXCEPT !.for = Nobody]
             IN  o \in Jobs /\ o.kind = job.kind /\ o.thing = job.thing /\ o.for = Nobody
  BY DEF Jobs
<1>3. Orphaned(f) = [j \in 1 .. Len(pool) |->
                        IF pool[j].for = f THEN [pool[j] EXCEPT !.for = Nobody] ELSE pool[j]]
  BY <1>1 DEF Orphaned
<1>4. Orphaned(f) \in [1 .. Len(pool) -> Jobs] /\ DOMAIN Orphaned(f) = DOMAIN pool
  BY <1>1, <1>2, <1>3
<1>5. Orphaned(f) \in Seq(Jobs)
  BY <1>1, <1>4, SeqDef
<1>6. ASSUME NEW j \in DOMAIN pool
      PROVE  /\ Orphaned(f)[j].kind = pool[j].kind /\ Orphaned(f)[j].thing = pool[j].thing
             /\ pool[j].for = f => Orphaned(f)[j].for = Nobody
             /\ pool[j].for # f => Orphaned(f)[j] = pool[j]
  BY <1>1, <1>2, <1>3
<1> QED BY <1>4, <1>5, <1>6

\* One more job goes to the end of the pool.
LEMMA JobAdded ==
  ASSUME pool \in Seq(Jobs), NEW job \in Jobs
  PROVE  LET more == Append(pool, job) IN
         /\ more \in Seq(Jobs) /\ DOMAIN more = DOMAIN pool \cup {Len(pool) + 1}
         /\ Len(pool) + 1 \notin DOMAIN pool /\ more[Len(pool) + 1] = job
         /\ \A j \in DOMAIN pool : more[j] = pool[j]
<1> QED OBVIOUS
-----------------------------------------------------------------------------
(* What becomes of a request. *)

\* What may be sent as it came, by its mark or by its verdict.
Allowed(mark, level, vouch) == \/ mark = "bypass"
                               \/ mark = "pictures" /\ vouch \notin Clips
                               \/ Fit(level, vouch)

\* Ended leaves of a request what Passed asks about, and nothing else.
LEMMA EndedRequest ==
  ASSUME NEW fl \in FlowType, NEW vouch \in Things,
         NEW out \in {"as is", "unchecked", "hidden", "refused", "covered"},
         out = "as is" => Allowed(fl.mark, fl.level, vouch),
         out = "unchecked" => fl.level \notin Strict
  PROVE  LET new == Ended(fl, out, vouch)
         IN  new \in FlowType /\ new.st = "idle" /\ Told(new) /\ Passed(new)
<1> DEFINE new == Ended(fl, out, vouch)
<1> USE Given
<1>1. CASE out \in {"as is", "unchecked"}
  <2>1. new = [Idle EXCEPT !.out = out, !.mark = fl.mark, !.level = fl.level, !.vouch = vouch]
    BY <1>1 DEF Ended
  <2>2. /\ fl.mark \in {"plain", "pictures", "bypass"} /\ fl.level \in MediaLevels
        /\ out \in Outs
    BY <1>1 DEF FlowType, Outs
  <2>3. /\ new.st = "idle" /\ new.out = out /\ new.mark = fl.mark /\ new.level = fl.level
        /\ new.vouch = vouch
    BY <2>1 DEF Idle
  <2>4. new \in FlowType
    BY <2>1, <2>2 DEF FlowType
  <2>5. Told(new)
    BY <2>3 DEF Told
  <2>6. Passed(new)
    BY <2>3 DEF Passed, Allowed
  <2> QED BY <2>3, <2>4, <2>5, <2>6
<1>2. CASE out \notin {"as is", "unchecked"}
  <2>1. new = Idle
    BY <1>2 DEF Ended
  <2>2. Idle.st = "idle" /\ Idle.out = "nothing"
    BY DEF Idle
  <2> QED BY <2>1, <2>2 DEF Told, Passed
<1> QED BY <1>1, <1>2

\* A verdict that is sound, and does not hide its thing, makes the thing fit.
LEMMA FitBySound ==
  ASSUME NEW t, NEW v, NEW level, Sound(t, v), v # NoVerdict, ~ Hides(level, v)
  PROVE  Fit(level, t)
BY DEF Sound, Fit

\* At the level "none" everything is fit to be seen.
LEMMA FitUnfiltered == \A t : Fit("none", t)
BY NothingHidden DEF Fit

\* What is added to the addresses judged clean is fit to be seen at that level.
CleanMoves ==
    \/ clean' = clean
    \/ \E u \in Urls, l \in MediaLevels, x \in Things \cup {Absent} :
          /\ x = Absent \/ Fit(l, x)
          /\ clean' = [clean EXCEPT ![<<u, l>>] = x]

\* What a hook may do to the pool: nothing, add the job its request waits for
\* or one for everybody, or leave its job to nobody.
JobMoves(f, new) ==
    \/ /\ flow[f].st \notin {"waiting", "covering"}
       /\ \/ pool' = pool
          \/ \E kind \in {"judge", "clip"} : /\ new.st = "waiting" /\ new.shape # "piece"
                                             /\ pool' = Append(pool, Job(kind, new.thing, f))
          \/ /\ new.st = "covering"
             /\ pool' = Append(pool, Job("cover", new.thing, f))
          \/ /\ ~ InFlight(new.thing)
             /\ pool' = Append(pool, Job("remote", new.thing, Nobody))
    \/ flow[f].st = "waiting" /\ pool' = Orphaned(f)

\* A step of f's hook.
HookMoves(f) ==
    /\ \E new \in FlowType :
          /\ Told(new) /\ Passed(new)
          /\ flow' = [flow EXCEPT ![f] = new]
          /\ JobMoves(f, new)
    /\ CleanMoves
    /\ recent' = recent \/ recent' = Record(recent, TRUE, 1)
    /\ UNCHANGED <<available, cache, policy, serves, turns, pageLevel, torn>>

\* _image_settle ends a request, or waits for a cover of what it must not show.
LEMMA PictureSettled ==
  ASSUME NEW f \in Flows, NEW fl \in FlowType, NEW v, NEW jobs,
         fl.out = "nothing", Sound(fl.thing, v), SettlePicture(f, fl, v, jobs)
  PROVE  /\ CleanMoves
         /\ \E new \in FlowType :
               /\ Told(new) /\ Passed(new)
               /\ flow' = [flow EXCEPT ![f] = new]
               /\ \/ pool' = jobs
                  \/ /\ v # NoVerdict /\ new.st = "covering"
                     /\ pool' = Append(jobs, Job("cover", new.thing, f))
<1> DEFINE Goal == \E new \in FlowType :
               /\ Told(new) /\ Passed(new)
               /\ flow' = [flow EXCEPT ![f] = new]
               /\ \/ pool' = jobs
                  \/ /\ v # NoVerdict /\ new.st = "covering"
                     /\ pool' = Append(jobs, Job("cover", new.thing, f))
<1>0. fl.thing \in Things /\ fl.url \in Urls /\ fl.level \in MediaLevels
  BY DEF FlowType
<1>1. ASSUME Ends(f, fl, "hidden"), pool' = jobs
      PROVE  Goal
  BY <1>0, <1>1, EndedRequest DEF Ends
<1>2. CASE HiddenWhole(fl, v) /\ Ends(f, fl, "hidden") /\ pool' = jobs /\ UNCHANGED clean
  BY <1>1, <1>2 DEF CleanMoves
<1>3. CASE /\ ~ HiddenWhole(fl, v) /\ ~ Hides(fl.level, v)
           /\ clean' = [clean EXCEPT ![<<fl.url, fl.level>>] = fl.thing]
           /\ Ends(f, fl, "as is") /\ pool' = jobs
  <2>1. v # NoVerdict
    BY <1>3 DEF HiddenWhole
  <2>2. Fit(fl.level, fl.thing)
    BY <1>3, <2>1, FitBySound
  <2>3. CleanMoves
    BY <1>0, <1>3, <2>2 DEF CleanMoves
  <2>4. Allowed(fl.mark, fl.level, fl.thing)
    BY <2>2 DEF Allowed
  <2>5. Goal
    BY <1>0, <1>3, <2>4, EndedRequest DEF Ends
  <2> QED BY <2>3, <2>5
<1>4. CASE /\ ~ HiddenWhole(fl, v) /\ UNCHANGED clean
           /\ flow' = [flow EXCEPT ![f] = [fl EXCEPT !.st = "covering"]]
           /\ pool' = Append(jobs, Job("cover", fl.thing, f))
  <2> DEFINE new == [fl EXCEPT !.st = "covering"]
  <2>1. v # NoVerdict
    BY <1>4 DEF HiddenWhole
  <2>2. /\ new \in FlowType /\ new.st = "covering" /\ new.out = "nothing"
        /\ new.thing = fl.thing
    BY DEF FlowType, Stages
  <2>3. Told(new) /\ Passed(new)
    BY <2>2 DEF Told, Passed
  <2> HIDE DEF new
  <2>4. Goal
    BY <1>4, <2>1, <2>2, <2>3 DEF new
  <2> QED BY <1>4, <2>4 DEF CleanMoves
<1> QED BY <1>1, <1>2, <1>3, <1>4 DEF SettlePicture, CleanMoves
-----------------------------------------------------------------------------
(* Every hook is such a step. *)

\* What is known of f and of the rules when a hook of f runs.
LEMMA AtHook ==
  ASSUME IInv, NEW f \in Flows
  PROVE  /\ flow[f] \in FlowType /\ flow[f].thing \in Things /\ flow[f].url \in Urls
         /\ flow[f].st # "idle" => flow[f].out = "nothing"
         /\ policy.level \in MediaLevels
         /\ serves[flow[f].url] \in Things
         /\ Sound(flow[f].thing, cache[flow[f].thing])
<1>1. flow[f] \in FlowType /\ policy \in Policies /\ serves \in [Urls -> Things]
  BY DEF IInv, TypeOK
<1>2. flow[f].thing \in Things /\ flow[f].url \in Urls
  BY <1>1 DEF FlowType
<1>3. Told(flow[f]) /\ \A t \in Things : Sound(t, cache[t])
  BY DEF IInv, Remembered
<1> QED BY <1>1, <1>2, <1>3, Given DEF Told

\* A request that goes on waiting has let nothing through yet.
LEMMA GoesOn ==
  ASSUME NEW fl \in FlowType, fl.out = "nothing", NEW st \in Stages,
         st \in {"asked", "held"} => fl.shape # "piece", st # "answered"
  PROVE  LET new == [fl EXCEPT !.st = st]
         IN  /\ new \in FlowType /\ Told(new) /\ Passed(new)
             /\ new.st = st /\ new.thing = fl.thing /\ new.shape = fl.shape
<1> DEFINE new == [fl EXCEPT !.st = st]
<1>1. /\ new \in FlowType /\ new.st = st /\ new.out = "nothing"
      /\ new.thing = fl.thing /\ new.shape = fl.shape
  BY DEF FlowType
<1> QED BY <1>1 DEF Told, Passed

\* request.
LEMMA AskMoves ==
  ASSUME IInv, NEW f \in Flows, NEW u \in Urls, NEW p \in Pages, Ask(f, u, p)
  PROVE  HookMoves(f)
<1> DEFINE own == policy.rule[u]
           its == policy.rule[p]
           mark == IF "bypass" \in {own, its} THEN "bypass"
                   ELSE IF "pictures" \in {own, its} THEN "pictures" ELSE "plain"
           new == [Idle EXCEPT !.st = "asked", !.url = u, !.page = p, !.mark = mark]
<1>1. /\ flow' = [flow EXCEPT ![f] = new] /\ flow[f].st = "idle"
      /\ UNCHANGED <<visionVars, around, clean, pageLevel, torn>>
  BY DEF Ask
<1>2. mark \in {"plain", "pictures", "bypass"}
  OBVIOUS
<1>3. new \in FlowType
  BY <1>2, Given DEF FlowType, Stages
<1>4. new.st = "asked" /\ new.out = "nothing" /\ new.shape # "piece"
  BY DEF Idle
<1>5. Told(new) /\ Passed(new)
  BY <1>4 DEF Told, Passed
<1> HIDE DEF new
<1>6. JobMoves(f, new)
  BY <1>1 DEF JobMoves, visionVars
<1> QED BY <1>1, <1>3, <1>5, <1>6 DEF HookMoves, CleanMoves, visionVars, around

\* responseheaders for a picture.
LEMMA PictureHeadersMoves ==
  ASSUME IInv, NEW f \in Flows, PictureHeaders(f)
  PROVE  HookMoves(f)
<1> DEFINE media == policy.level
           fl == [flow[f] EXCEPT !.thing = serves[flow[f].url], !.level = media]
           known == Known(fl.url, media)
<1>1. /\ flow[f].st = "asked" /\ serves[fl.url] \notin Clips
      /\ UNCHANGED <<visionVars, around, pageLevel, torn>>
  BY DEF PictureHeaders
<1>2. /\ fl \in FlowType /\ fl.st = "asked" /\ fl.out = "nothing" /\ fl.level = media
      /\ fl.url = flow[f].url /\ fl.url \in Urls /\ fl.thing = serves[flow[f].url]
      /\ fl.thing \in Things /\ fl.mark \in {"plain", "pictures", "bypass"}
      /\ fl.shape = flow[f].shape
  BY <1>1, AtHook DEF FlowType
<1>3. flow[f].shape # "piece" /\ fl.thing \notin Clips /\ media \in MediaLevels
  BY <1>1, <1>2, AtHook DEF IInv, Told
<1>4. CASE /\ fl.mark # "plain" \/ media = "none"
           /\ Ends(f, fl, "as is") /\ UNCHANGED clean
  <2>1. Allowed(fl.mark, fl.level, fl.thing)
    BY <1>2, <1>3, <1>4, FitUnfiltered DEF Allowed
  <2> DEFINE new == Ended(fl, "as is", fl.thing)
  <2>2. new \in FlowType /\ new.st = "idle" /\ Told(new) /\ Passed(new)
    BY <1>2, <2>1, EndedRequest
  <2> HIDE DEF new
  <2>3. JobMoves(f, new)
    BY <1>1 DEF JobMoves, visionVars
  <2>4. flow' = [flow EXCEPT ![f] = new]
    BY <1>4 DEF new, Ends
  <2> QED BY <1>1, <1>4, <2>2, <2>3, <2>4 DEF HookMoves, CleanMoves, visionVars, around
<1>5. CASE /\ fl.mark = "plain" /\ media # "none" /\ known # Absent
           /\ flow' = [flow EXCEPT ![f] = Ended(fl, "as is", known)]
           /\ UNCHANGED clean
  <2>1. Fit(media, known)
    BY <1>2, <1>3, <1>5 DEF IInv, Remembered, Known
  <2>2. known \in Things
    <3>1. clean \in [Urls \X MediaLevels -> Things \cup {Absent}]
      BY DEF IInv, TypeOK
    <3> QED BY <1>2, <1>3, <1>5, <3>1 DEF Known
  <2> DEFINE new == Ended(fl, "as is", known)
  <2>3. new \in FlowType /\ new.st = "idle" /\ Told(new) /\ Passed(new)
    BY <1>2, <2>1, <2>2, EndedRequest DEF Allowed
  <2> HIDE DEF new
  <2>4. JobMoves(f, new)
    BY <1>1 DEF JobMoves, visionVars
  <2>5. flow' = [flow EXCEPT ![f] = new]
    BY <1>5 DEF new
  <2> QED BY <1>1, <1>5, <2>3, <2>4, <2>5 DEF HookMoves, CleanMoves, visionVars, around
<1>6. CASE /\ flow' = [flow EXCEPT ![f] = [fl EXCEPT !.st = "held", !.level = "none"]]
           /\ clean' = [clean EXCEPT ![<<fl.url, media>>] = Absent]
  <2> DEFINE new == [fl EXCEPT !.st = "held", !.level = "none"]
  <2>1. new \in FlowType /\ new.st = "held" /\ new.out = "nothing" /\ new.shape # "piece"
    BY <1>2, <1>3 DEF FlowType, Stages, MediaLevels
  <2>2. Told(new) /\ Passed(new)
    BY <2>1 DEF Told, Passed
  <2>3. CleanMoves
    BY <1>2, <1>3, <1>6 DEF CleanMoves
  <2> HIDE DEF new
  <2>4. JobMoves(f, new)
    BY <1>1 DEF JobMoves, visionVars
  <2>5. flow' = [flow EXCEPT ![f] = new]
    BY <1>6 DEF new
  <2> QED BY <1>1, <2>1, <2>2, <2>3, <2>4, <2>5 DEF HookMoves, visionVars, around
<1> QED BY <1>4, <1>5, <1>6 DEF PictureHeaders

\* _video_decision lets a clip through only by a verdict, or unchecked at the
\* mildest levels, and holds only what comes whole.
LEMMA ClipDecided ==
  ASSUME NEW fl, NEW media, Sound(fl.thing, cache[fl.thing])
  PROVE  LET decision == VideoDecision(fl, media) IN
         /\ decision = "stream" => Fit(media, fl.thing)
         /\ decision = "unchecked" => media \notin Strict
         /\ decision = "hold" => fl.shape # "piece"
<1> DEFINE decision == VideoDecision(fl, media)
           uncheckable == IF media \in Strict THEN "refuse" ELSE "unchecked"
<1>1. CASE media = "none"
  <2>1. decision = "stream"
    BY <1>1 DEF VideoDecision
  <2> QED BY <1>1, <2>1, FitUnfiltered
<1>2. CASE media # "none" /\ (fl.url \in policy.blocked \/ media \notin Checked)
  <2>1. decision = "refuse"
    BY <1>2 DEF VideoDecision
  <2> QED BY <2>1
<1>3. CASE media # "none" /\ fl.url \notin policy.blocked /\ media \in Checked
  <2>1. decision = IF ~ available THEN uncheckable
               ELSE IF cache[fl.thing] # NoVerdict
                    THEN IF Hides(media, cache[fl.thing]) THEN "refuse" ELSE "stream"
               ELSE IF fl.shape = "blind" THEN uncheckable
               ELSE IF fl.shape = "piece" THEN "sample" ELSE "hold"
    BY <1>3 DEF VideoDecision
  <2>2. cache[fl.thing] # NoVerdict /\ ~ Hides(media, cache[fl.thing]) => Fit(media, fl.thing)
    BY FitBySound
  <2> HIDE DEF decision
  <2>3. decision = "stream" => cache[fl.thing] # NoVerdict /\ ~ Hides(media, cache[fl.thing])
    BY <2>1
  <2>4. decision = "unchecked" => media \notin Strict
    BY <2>1
  <2>5. decision = "hold" => fl.shape # "piece"
    BY <2>1
  <2> QED BY <2>2, <2>3, <2>4, <2>5 DEF decision
<1> QED BY <1>1, <1>2, <1>3

\* What was decided at once ends the request (_video_settle).
LEMMA DecidedEnds ==
  ASSUME NEW f \in Flows, NEW fl \in FlowType, NEW decision, Decided(f, fl, decision),
         decision = "stream" => Fit(fl.level, fl.thing),
         decision = "unchecked" => fl.level \notin Strict
  PROVE  \E new \in FlowType : /\ new.st = "idle" /\ Told(new) /\ Passed(new)
                               /\ flow' = [flow EXCEPT ![f] = new]
<1> DEFINE out == CASE decision = "stream" -> "as is"
                    [] decision = "refuse" -> "refused"
                    [] OTHER               -> "unchecked"
           new == Ended(fl, out, fl.thing)
<1>1. decision \in {"stream", "refuse", "unchecked"} /\ flow' = [flow EXCEPT ![f] = new]
  BY DEF Decided, Ends
<1>2. /\ out \in {"as is", "unchecked", "hidden", "refused", "covered"}
      /\ out = "as is" => decision = "stream"
      /\ out = "unchecked" => decision = "unchecked"
  BY <1>1
<1>3. fl.thing \in Things
  BY DEF FlowType
<1> HIDE DEF out
<1>4. out = "as is" => Allowed(fl.mark, fl.level, fl.thing)
  BY <1>2 DEF Allowed
<1>5. new \in FlowType /\ new.st = "idle" /\ Told(new) /\ Passed(new)
  BY <1>2, <1>3, <1>4, EndedRequest
<1> QED BY <1>1, <1>5

\* responseheaders for a clip.
LEMMA ClipHeadersMoves ==
  ASSUME IInv, NEW f \in Flows, NEW shape \in Shapes, ClipHeaders(f, shape)
  PROVE  HookMoves(f)
<1> DEFINE media == policy.level
           fl == [flow[f] EXCEPT !.thing = serves[flow[f].url], !.level = media,
                                 !.shape = shape]
           decision == VideoDecision(fl, media)
<1>1. /\ flow[f].st = "asked" /\ clean' = clean /\ recent' = recent
      /\ UNCHANGED <<available, cache, policy, serves, turns, pageLevel, torn>>
  BY DEF ClipHeaders, around
<1>2. /\ fl \in FlowType /\ fl.st = "asked" /\ fl.out = "nothing" /\ fl.level = media
      /\ fl.thing \in Things /\ fl.shape = shape
  BY <1>1, AtHook DEF FlowType
<1>3. Sound(fl.thing, cache[fl.thing])
  BY <1>2 DEF IInv, Remembered
<1>4. /\ decision = "stream" => Fit(media, fl.thing)
      /\ decision = "unchecked" => media \notin Strict
      /\ decision = "hold" => fl.shape # "piece"
  BY <1>3, ClipDecided
<1> HIDE DEF decision
<1>5. ASSUME NEW new \in FlowType, Told(new), Passed(new), flow' = [flow EXCEPT ![f] = new],
             JobMoves(f, new)
      PROVE  HookMoves(f)
  BY <1>1, <1>5 DEF HookMoves, CleanMoves
<1>6. CASE fl.mark = "bypass" /\ Ends(f, fl, "as is") /\ UNCHANGED pool
  <2> DEFINE new == Ended(fl, "as is", fl.thing)
  <2>1. new \in FlowType /\ new.st = "idle" /\ Told(new) /\ Passed(new)
    BY <1>2, <1>6, EndedRequest DEF Allowed
  <2> HIDE DEF new
  <2>2. flow' = [flow EXCEPT ![f] = new] /\ JobMoves(f, new)
    BY <1>1, <1>6 DEF new, Ends, JobMoves
  <2> QED BY <1>5, <2>1, <2>2
<1>7. CASE Decided(f, fl, decision) /\ UNCHANGED pool
  <2> HIDE DEF fl
  <2>1. PICK new \in FlowType : /\ new.st = "idle" /\ Told(new) /\ Passed(new)
                                /\ flow' = [flow EXCEPT ![f] = new]
    BY <1>2, <1>4, <1>7, DecidedEnds
  <2>2. JobMoves(f, new)
    BY <1>1, <1>7 DEF JobMoves
  <2> QED BY <1>5, <2>1, <2>2
<1>8. CASE /\ decision = "hold" /\ UNCHANGED pool
           /\ flow' = [flow EXCEPT ![f] = [fl EXCEPT !.st = "held", !.level = "none"]]
  <2> DEFINE new == [fl EXCEPT !.st = "held", !.level = "none"]
  <2>1. new \in FlowType /\ new.st = "held" /\ new.out = "nothing" /\ new.shape # "piece"
    BY <1>2, <1>4, <1>8 DEF FlowType, Stages, MediaLevels
  <2>2. Told(new) /\ Passed(new)
    BY <2>1 DEF Told, Passed
  <2> HIDE DEF new
  <2>3. flow' = [flow EXCEPT ![f] = new] /\ JobMoves(f, new)
    BY <1>1, <1>8 DEF new, JobMoves
  <2> QED BY <1>5, <2>1, <2>2, <2>3
<1>9. CASE /\ flow' = [flow EXCEPT ![f] = [fl EXCEPT !.st = "waiting"]]
           /\ pool' = IF InFlight(fl.thing) THEN pool
                      ELSE Append(pool, Job("remote", fl.thing, Nobody))
  <2> DEFINE new == [fl EXCEPT !.st = "waiting"]
  <2> HIDE DEF fl
  <2>1. new \in FlowType /\ Told(new) /\ Passed(new) /\ new.thing = fl.thing
    BY <1>2, GoesOn DEF Stages
  <2> HIDE DEF new
  <2>2. flow' = [flow EXCEPT ![f] = new] /\ JobMoves(f, new)
    BY <1>1, <1>9, <2>1 DEF new, JobMoves
  <2> QED BY <1>5, <2>1, <2>2
<1> QED BY <1>6, <1>7, <1>8, <1>9 DEF ClipHeaders, decision

\* response for a picture.
LEMMA PictureBodyMoves ==
  ASSUME IInv, NEW f \in Flows, PictureBody(f)
  PROVE  HookMoves(f)
<1> DEFINE fl == [flow[f] EXCEPT !.level = policy.level]
           known == cache[fl.thing]
<1>1. /\ flow[f].st = "held" /\ recent' = recent
      /\ UNCHANGED <<available, cache, policy, serves, turns, pageLevel, torn>>
  BY DEF PictureBody, around
<1>2. /\ fl \in FlowType /\ fl.st = "held" /\ fl.out = "nothing" /\ fl.level = policy.level
      /\ fl.thing = flow[f].thing /\ fl.thing \in Things /\ fl.shape = flow[f].shape
  BY <1>1, AtHook DEF FlowType
<1>3. Sound(fl.thing, known) /\ fl.shape # "piece"
  BY <1>1, <1>2, AtHook DEF IInv, Told
<1>4. ASSUME NEW new \in FlowType, Told(new), Passed(new), flow' = [flow EXCEPT ![f] = new],
             JobMoves(f, new), CleanMoves
      PROVE  HookMoves(f)
  BY <1>1, <1>4 DEF HookMoves
<1> HIDE DEF fl
<1>5. ASSUME NEW out \in {"as is", "hidden"}, Ends(f, fl, out), UNCHANGED <<pool, clean>>,
             out = "as is" => Fit(fl.level, fl.thing)
      PROVE  HookMoves(f)
  <2> DEFINE new == Ended(fl, out, fl.thing)
  <2>0. /\ out \in {"as is", "unchecked", "hidden", "refused", "covered"}
        /\ out # "unchecked"
        /\ out = "as is" => Allowed(fl.mark, fl.level, fl.thing)
    BY <1>5 DEF Allowed
  <2>1. new \in FlowType /\ new.st = "idle" /\ Told(new) /\ Passed(new)
    BY <1>2, <2>0, EndedRequest
  <2> HIDE DEF new
  <2>2. flow' = [flow EXCEPT ![f] = new] /\ JobMoves(f, new) /\ CleanMoves
    BY <1>1, <1>5 DEF new, Ends, JobMoves, CleanMoves
  <2> QED BY <1>4, <2>1, <2>2
<1>6. CASE /\ fl.level = "none" \/ (fl.level # "all" /\ fl.thing \in Tiny)
           /\ Ends(f, fl, "as is") /\ UNCHANGED <<pool, clean>>
  <2>1. Fit(fl.level, fl.thing)
    BY <1>6, FitUnfiltered DEF Fit
  <2> QED BY <1>5, <1>6, <2>1
<1>7. CASE Ends(f, fl, "hidden") /\ UNCHANGED <<pool, clean>>
  BY <1>5, <1>7
<1>8. CASE SettlePicture(f, fl, known, pool)
  <2>1. CleanMoves
    BY <1>2, <1>3, <1>8, PictureSettled
  <2>2. PICK new \in FlowType :
               /\ Told(new) /\ Passed(new)
               /\ flow' = [flow EXCEPT ![f] = new]
               /\ \/ pool' = pool
                  \/ /\ known # NoVerdict /\ new.st = "covering"
                     /\ pool' = Append(pool, Job("cover", new.thing, f))
    BY <1>2, <1>3, <1>8, PictureSettled
  <2>3. JobMoves(f, new)
    BY <1>1, <2>2 DEF JobMoves
  <2> QED BY <1>4, <2>1, <2>2, <2>3
<1>9. CASE /\ flow' = [flow EXCEPT ![f] = [fl EXCEPT !.st = "waiting"]]
           /\ pool' = Append(pool, Job("judge", fl.thing, f))
           /\ UNCHANGED clean
  <2> DEFINE new == [fl EXCEPT !.st = "waiting"]
  <2>1. /\ new \in FlowType /\ Told(new) /\ Passed(new)
        /\ new.st = "waiting" /\ new.thing = fl.thing /\ new.shape # "piece"
    BY <1>2, <1>3, GoesOn DEF Stages
  <2> HIDE DEF new
  <2>2. flow' = [flow EXCEPT ![f] = new] /\ JobMoves(f, new) /\ CleanMoves
    BY <1>1, <1>9, <2>1 DEF new, JobMoves, CleanMoves
  <2> QED BY <1>4, <2>1, <2>2
<1> QED BY <1>6, <1>7, <1>8, <1>9 DEF PictureBody, fl

\* response for a clip held whole.
LEMMA ClipBodyMoves ==
  ASSUME IInv, NEW f \in Flows, ClipBody(f)
  PROVE  HookMoves(f)
<1> DEFINE fl == [flow[f] EXCEPT !.level = policy.level]
           decision == VideoDecision(fl, fl.level)
<1>1. /\ flow[f].st = "held" /\ clean' = clean /\ recent' = recent
      /\ UNCHANGED <<available, cache, policy, serves, turns, pageLevel, torn>>
  BY DEF ClipBody, around
<1>2. /\ fl \in FlowType /\ fl.st = "held" /\ fl.out = "nothing"
      /\ fl.thing = flow[f].thing /\ fl.thing \in Things
  BY <1>1, AtHook DEF FlowType
<1>3. /\ decision = "stream" => Fit(fl.level, fl.thing)
      /\ decision = "unchecked" => fl.level \notin Strict
      /\ decision = "hold" => fl.shape # "piece"
  <2> HIDE DEF fl
  <2>1. Sound(fl.thing, cache[fl.thing])
    BY <1>2, AtHook
  <2> QED BY <2>1, ClipDecided
<1> HIDE DEF fl, decision
<1>4. ASSUME NEW new \in FlowType, Told(new), Passed(new), flow' = [flow EXCEPT ![f] = new],
             JobMoves(f, new)
      PROVE  HookMoves(f)
  BY <1>1, <1>4 DEF HookMoves, CleanMoves
<1>5. CASE Decided(f, fl, decision) /\ UNCHANGED pool
  <2>1. PICK new \in FlowType : /\ new.st = "idle" /\ Told(new) /\ Passed(new)
                                /\ flow' = [flow EXCEPT ![f] = new]
    BY <1>2, <1>3, <1>5, DecidedEnds
  <2>2. JobMoves(f, new)
    BY <1>1, <1>5 DEF JobMoves
  <2> QED BY <1>4, <2>1, <2>2
<1>6. CASE /\ decision = "hold"
           /\ flow' = [flow EXCEPT ![f] = [fl EXCEPT !.st = "waiting"]]
           /\ pool' = Append(pool, Job("clip", fl.thing, f))
  <2> DEFINE new == [fl EXCEPT !.st = "waiting"]
  <2>1. /\ new \in FlowType /\ Told(new) /\ Passed(new)
        /\ new.st = "waiting" /\ new.thing = fl.thing /\ new.shape # "piece"
    BY <1>2, <1>3, <1>6, GoesOn DEF Stages
  <2> HIDE DEF new
  <2>2. flow' = [flow EXCEPT ![f] = new] /\ JobMoves(f, new)
    BY <1>1, <1>6, <2>1 DEF new, JobMoves
  <2> QED BY <1>4, <2>1, <2>2
<1> QED BY <1>5, <1>6 DEF ClipBody, fl, decision

\* _video_settle ends a request: refused, unchecked, or by what was found.
LEMMA ClipSettled ==
  ASSUME NEW f \in Flows, NEW fl \in FlowType, NEW v,
         Sound(fl.thing, v), SettleClip(f, fl, v)
  PROVE  \E new \in FlowType : /\ new.st = "idle" /\ Told(new) /\ Passed(new)
                               /\ flow' = [flow EXCEPT ![f] = new]
<1> DEFINE out == IF v = NoVerdict
                  THEN IF fl.level \in Strict THEN "refused" ELSE "unchecked"
                  ELSE IF Hides(fl.level, v) THEN "refused" ELSE "as is"
           new == Ended(fl, out, fl.thing)
<1>1. flow' = [flow EXCEPT ![f] = new] /\ fl.thing \in Things
  BY DEF SettleClip, Ends, FlowType
<1>2. /\ out \in {"as is", "unchecked", "hidden", "refused", "covered"}
      /\ out = "as is" => v # NoVerdict /\ ~ Hides(fl.level, v)
      /\ out = "unchecked" => fl.level \notin Strict
  OBVIOUS
<1> HIDE DEF out
<1>3. out = "as is" => Allowed(fl.mark, fl.level, fl.thing)
  BY <1>2, FitBySound DEF Allowed
<1>4. new \in FlowType /\ new.st = "idle" /\ Told(new) /\ Passed(new)
  BY <1>1, <1>2, <1>3, EndedRequest
<1> QED BY <1>1, <1>4

\* The hook goes on with its answer.
LEMMA ResumeMoves ==
  ASSUME IInv, NEW f \in Flows, Resume(f)
  PROVE  HookMoves(f)
<1> DEFINE fl == flow[f]
<1>1. /\ fl.st = "answered" /\ recent' = recent
      /\ UNCHANGED <<available, cache, policy, serves, turns, pageLevel, torn>>
  BY DEF Resume, around
<1>2. fl \in FlowType /\ fl.out = "nothing" /\ Sound(fl.thing, fl.got)
  BY <1>1, AtHook DEF IInv, Told
<1>3. ASSUME NEW new \in FlowType, Told(new), Passed(new), flow' = [flow EXCEPT ![f] = new],
             JobMoves(f, new), CleanMoves
      PROVE  HookMoves(f)
  BY <1>1, <1>3 DEF HookMoves
<1>4. CASE SettleClip(f, fl, fl.got) /\ UNCHANGED <<pool, clean>>
  <2>1. PICK new \in FlowType : /\ new.st = "idle" /\ Told(new) /\ Passed(new)
                                /\ flow' = [flow EXCEPT ![f] = new]
    BY <1>2, <1>4, ClipSettled
  <2>2. JobMoves(f, new) /\ CleanMoves
    BY <1>1, <1>4 DEF JobMoves, CleanMoves
  <2> QED BY <1>3, <2>1, <2>2
<1>5. CASE SettlePicture(f, fl, fl.got, pool)
  <2>1. CleanMoves
    BY <1>2, <1>5, PictureSettled
  <2>2. PICK new \in FlowType :
               /\ Told(new) /\ Passed(new)
               /\ flow' = [flow EXCEPT ![f] = new]
               /\ \/ pool' = pool
                  \/ /\ fl.got # NoVerdict /\ new.st = "covering"
                     /\ pool' = Append(pool, Job("cover", new.thing, f))
    BY <1>2, <1>5, PictureSettled
  <2>3. JobMoves(f, new)
    BY <1>1, <2>2 DEF JobMoves
  <2> QED BY <1>3, <2>1, <2>2, <2>3
<1> QED BY <1>4, <1>5 DEF Resume

\* The wait is over: no verdict, and the job is nobody's.
LEMMA DeadlineMoves ==
  ASSUME IInv, NEW f \in Flows, Deadline(f)
  PROVE  HookMoves(f)
<1> DEFINE fl == flow[f]
<1>1. /\ fl.st = "waiting"
      /\ UNCHANGED <<available, cache, policy, serves, turns, pageLevel, torn>>
  BY DEF Deadline, around
<1>2. fl \in FlowType /\ fl.out = "nothing" /\ Sound(fl.thing, NoVerdict)
  BY <1>1, AtHook DEF Sound
<1>3. ASSUME NEW new \in FlowType, Told(new), Passed(new), flow' = [flow EXCEPT ![f] = new],
             pool' = Orphaned(f), CleanMoves, recent' = recent \/ recent' = Record(recent, TRUE, 1)
      PROVE  HookMoves(f)
  <2>1. JobMoves(f, new)
    BY <1>1, <1>3 DEF JobMoves
  <2> QED BY <1>1, <1>3, <2>1 DEF HookMoves
<1>4. CASE /\ SettleClip(f, fl, NoVerdict) /\ pool' = Orphaned(f)
           /\ UNCHANGED <<recent, clean>>
  <2>1. PICK new \in FlowType : /\ new.st = "idle" /\ Told(new) /\ Passed(new)
                                /\ flow' = [flow EXCEPT ![f] = new]
    BY <1>2, <1>4, ClipSettled
  <2>2. CleanMoves
    BY <1>4 DEF CleanMoves
  <2> QED BY <1>3, <1>4, <2>1, <2>2
<1>5. CASE /\ recent' = Record(recent, TRUE, 1)
           /\ SettlePicture(f, fl, NoVerdict, Orphaned(f))
  <2>1. CleanMoves
    BY <1>2, <1>5, PictureSettled
  <2>2. PICK new \in FlowType :
               /\ Told(new) /\ Passed(new)
               /\ flow' = [flow EXCEPT ![f] = new]
               /\ \/ pool' = Orphaned(f)
                  \/ /\ NoVerdict # NoVerdict /\ new.st = "covering"
                     /\ pool' = Append(Orphaned(f), Job("cover", new.thing, f))
    BY <1>2, <1>5, PictureSettled
  <2> QED BY <1>3, <1>5, <2>1, <2>2
<1> QED BY <1>4, <1>5 DEF Deadline
-----------------------------------------------------------------------------
(* The invariant is kept. *)

\* A job may name a request it does not yet, or no longer, wait for only if
\* the request is as it was for the others.
LEMMA StillWorking ==
  ASSUME NEW job, NEW flows, NEW later, Working(job, flows),
         job.for # Nobody => later[job.for] = flows[job.for]
  PROVE  Working(job, later)
BY DEF Working

\* What a hook does to the pool leaves every job with its request.
LEMMA PoolKept ==
  ASSUME IInv, NEW f \in Flows, NEW new \in FlowType, JobMoves(f, new),
         flow' = [flow EXCEPT ![f] = new]
  PROVE  /\ pool' \in Seq(Jobs)
         /\ \A i \in DOMAIN pool' : Working(pool'[i], flow')
         /\ Distinct(pool')
<1>1. /\ pool \in Seq(Jobs) /\ flow \in [Flows -> FlowType] /\ Distinct(pool)
      /\ \A i \in DOMAIN pool : Working(pool[i], flow) /\ pool[i] \in Jobs
  <2>1. pool \in Seq(Jobs) /\ flow \in [Flows -> FlowType]
    BY DEF IInv, TypeOK, VisionTypeOK
  <2>2. Distinct(pool) /\ \A i \in DOMAIN pool : Working(pool[i], flow)
    BY DEF IInv
  <2> QED BY <2>1, <2>2
<1>2. flow'[f] = new /\ \A g \in Flows : g # f => flow'[g] = flow[g]
  BY <1>1
<1>3. \A i \in DOMAIN pool : pool[i].for \in Flows \cup {Nobody}
  BY <1>1 DEF Jobs
<1>4. ASSUME NEW i \in DOMAIN pool, pool[i].for # f
      PROVE  Working(pool[i], flow')
  BY <1>1, <1>2, <1>3, <1>4, StillWorking
<1>5. f # Nobody /\ new.thing \in Things
  BY Given DEF FlowType
<1>6. CASE flow[f].st \notin {"waiting", "covering"}
  <2>1. \A i \in DOMAIN pool : pool[i].for # f
    BY <1>1, <1>5, <1>6 DEF Working
  <2>2. \A i \in DOMAIN pool : Working(pool[i], flow')
    BY <1>4, <2>1
  <2>3. CASE pool' = pool
    BY <1>1, <2>2, <2>3
  <2>4. ASSUME NEW job \in Jobs, pool' = Append(pool, job), Working(job, flow'),
               job.for \in {f, Nobody}, job.for = Nobody => job.kind = "remote",
               job.kind = "remote" => ~ InFlight(job.thing)
        PROVE  /\ pool' \in Seq(Jobs)
               /\ \A i \in DOMAIN pool' : Working(pool'[i], flow')
               /\ Distinct(pool')
    <3> DEFINE n == Len(pool) + 1
    <3>1. /\ pool' \in Seq(Jobs) /\ DOMAIN pool' = DOMAIN pool \cup {n}
          /\ n \notin DOMAIN pool /\ pool'[n] = job
          /\ \A i \in DOMAIN pool : pool'[i] = pool[i]
      BY <1>1, <2>4, JobAdded
    <3> HIDE DEF n
    <3>2. \A i \in DOMAIN pool' : Working(pool'[i], flow')
      BY <2>2, <2>4, <3>1
    <3>3. ASSUME NEW i \in DOMAIN pool
          PROVE  /\ pool[i].for = job.for => job.for = Nobody
                 /\ ~ (pool[i].kind = "remote" /\ job.kind = "remote" /\ pool[i].thing = job.thing)
      BY <2>1, <2>4 DEF InFlight
    <3>4. Distinct(pool')
      BY <1>1, <3>1, <3>3 DEF Distinct
    <3> QED BY <3>1, <3>2, <3>4
  <2>5. ASSUME NEW kind \in {"judge", "clip"}, new.st = "waiting", new.shape # "piece",
               pool' = Append(pool, Job(kind, new.thing, f))
        PROVE  /\ pool' \in Seq(Jobs)
               /\ \A i \in DOMAIN pool' : Working(pool'[i], flow')
               /\ Distinct(pool')
    <3> DEFINE job == Job(kind, new.thing, f)
    <3>1. /\ job \in Jobs /\ job.kind = kind /\ job.thing = new.thing /\ job.for = f
      BY <1>5 DEF Job, Jobs, Kinds
    <3> HIDE DEF job
    <3>2. Working(job, flow')
      BY <1>2, <2>5, <3>1 DEF Working
    <3> QED BY <1>5, <2>4, <2>5, <3>1, <3>2 DEF job
  <2>6. ASSUME new.st = "covering", pool' = Append(pool, Job("cover", new.thing, f))
        PROVE  /\ pool' \in Seq(Jobs)
               /\ \A i \in DOMAIN pool' : Working(pool'[i], flow')
               /\ Distinct(pool')
    <3> DEFINE job == Job("cover", new.thing, f)
    <3>1. /\ job \in Jobs /\ job.kind = "cover" /\ job.thing = new.thing /\ job.for = f
      BY <1>5 DEF Job, Jobs, Kinds
    <3> HIDE DEF job
    <3>2. Working(job, flow')
      BY <1>2, <1>5, <2>6, <3>1 DEF Working
    <3> QED BY <1>5, <2>4, <2>6, <3>1, <3>2 DEF job
  <2>7. ASSUME ~ InFlight(new.thing), pool' = Append(pool, Job("remote", new.thing, Nobody))
        PROVE  /\ pool' \in Seq(Jobs)
               /\ \A i \in DOMAIN pool' : Working(pool'[i], flow')
               /\ Distinct(pool')
    <3> DEFINE job == Job("remote", new.thing, Nobody)
    <3>1. /\ job \in Jobs /\ job.kind = "remote" /\ job.thing = new.thing /\ job.for = Nobody
      BY <1>5 DEF Job, Jobs, Kinds
    <3> HIDE DEF job
    <3>2. Working(job, flow')
      BY <3>1 DEF Working
    <3> QED BY <2>4, <2>7, <3>1, <3>2 DEF job
  <2> QED BY <1>6, <2>3, <2>5, <2>6, <2>7 DEF JobMoves
<1>7. CASE flow[f].st = "waiting" /\ pool' = Orphaned(f)
  <2>1. /\ pool' \in Seq(Jobs) /\ DOMAIN pool' = DOMAIN pool
        /\ \A j \in DOMAIN pool :
              /\ pool'[j].kind = pool[j].kind /\ pool'[j].thing = pool[j].thing
              /\ pool[j].for = f => pool'[j].for = Nobody
              /\ pool[j].for # f => pool'[j] = pool[j]
    BY <1>1, <1>7, JobsOrphaned
  <2>2. ASSUME NEW i \in DOMAIN pool
        PROVE  Working(pool'[i], flow')
    <3>1. CASE pool[i].for # f
      BY <1>4, <2>1, <3>1
    <3>2. CASE pool[i].for = f
      <4>1. pool[i].kind # "cover"
        BY <1>1, <1>5, <1>7, <3>2 DEF Working
      <4> QED BY <2>1, <3>2, <4>1 DEF Working
    <3> QED BY <3>1, <3>2
  <2>3. Distinct(pool')
    BY <1>1, <2>1 DEF Distinct
  <2> QED BY <2>1, <2>2, <2>3
<1> QED BY <1>6, <1>7 DEF JobMoves

\* What the caches remember stays fit.
LEMMA RememberedKept ==
  ASSUME IInv, CleanMoves, UNCHANGED <<cache, torn>>
  PROVE  Remembered' /\ clean' \in [Urls \X MediaLevels -> Things \cup {Absent}]
<1>1. clean \in [Urls \X MediaLevels -> Things \cup {Absent}] /\ Remembered
  BY DEF IInv, TypeOK
<1>2. \A t \in Things : Sound(t, cache[t])'
  BY <1>1 DEF Remembered, Sound
<1>3. CASE clean' = clean
  <2>2. \A u \in Urls, l \in MediaLevels : clean'[<<u, l>>] # Absent => Fit(l, clean[<<u, l>>])'
    BY <1>1, <1>3 DEF Remembered, Fit
  <2> QED BY <1>1, <1>2, <1>3, <2>2 DEF Remembered
<1>4. ASSUME NEW u \in Urls, NEW l \in MediaLevels, NEW x \in Things \cup {Absent},
             x = Absent \/ Fit(l, x), clean' = [clean EXCEPT ![<<u, l>>] = x]
      PROVE  Remembered' /\ clean' \in [Urls \X MediaLevels -> Things \cup {Absent}]
  <2>1. clean' \in [Urls \X MediaLevels -> Things \cup {Absent}]
    BY <1>1, <1>4
  <2>2. ASSUME NEW w \in Urls, NEW m \in MediaLevels, clean'[<<w, m>>] # Absent
        PROVE  Fit(m, clean[<<w, m>>])'
    <3>1. CASE w = u /\ m = l
      <4>1. clean'[<<w, m>>] = x
        BY <1>1, <1>4, <3>1
      <4> QED BY <1>4, <2>2, <3>1, <4>1 DEF Fit
    <3>2. CASE ~ (w = u /\ m = l)
      <4>1. clean'[<<w, m>>] = clean[<<w, m>>]
        BY <1>1, <1>4, <3>2
      <4>2. Fit(m, clean[<<w, m>>])
        BY <1>1, <2>2, <4>1 DEF Remembered
      <4> QED BY <4>1, <4>2 DEF Fit
    <3> QED BY <3>1, <3>2
  <2> QED BY <1>2, <2>1, <2>2 DEF Remembered
<1> QED BY <1>3, <1>4 DEF CleanMoves

\* A hook keeps the invariant.
LEMMA HookKeeps ==
  ASSUME IInv, NEW f \in Flows, HookMoves(f)
  PROVE  IInv'
<1>1. PICK new \in FlowType :
          /\ Told(new) /\ Passed(new)
          /\ flow' = [flow EXCEPT ![f] = new]
          /\ JobMoves(f, new)
  BY DEF HookMoves
<1>2. /\ CleanMoves
      /\ recent' = recent \/ recent' = Record(recent, TRUE, 1)
      /\ UNCHANGED <<available, cache, policy, serves, turns, pageLevel, torn>>
  BY DEF HookMoves
<1>3. /\ pool' \in Seq(Jobs)
      /\ \A i \in DOMAIN pool' : Working(pool'[i], flow')
      /\ Distinct(pool')
  BY <1>1, PoolKept
<1>4. Remembered' /\ clean' \in [Urls \X MediaLevels -> Things \cup {Absent}]
  BY <1>2, RememberedKept
<1>5. flow \in [Flows -> FlowType] /\ flow' \in [Flows -> FlowType]
  BY <1>1 DEF IInv, TypeOK
<1>6. ASSUME NEW g \in Flows
      PROVE  Told(flow[g])' /\ Passed(flow[g])'
  <2>1. Told(flow'[g]) /\ Passed(flow'[g])
    BY <1>1, <1>5 DEF IInv
  <2>2. \A l, t : Fit(l, t)' <=> Fit(l, t)
    BY <1>2 DEF Fit
  <2>3. \A t, v : Sound(t, v)' <=> Sound(t, v)
    BY <1>2 DEF Sound
  <2> QED BY <2>1, <2>2, <2>3 DEF Told, Passed
<1>7. TypeOK'
  <2>1. recent' \in Seq(BOOLEAN) /\ Len(recent') <= SlowWindow
    BY <1>2, WindowBounded DEF IInv, TypeOK, VisionTypeOK
  <2>2. VisionTypeOK'
    BY <1>2, <1>3, <2>1 DEF IInv, TypeOK, VisionTypeOK
  <2> QED BY <1>2, <1>4, <1>5, <2>2 DEF IInv, TypeOK
<1> QED BY <1>3, <1>4, <1>6, <1>7 DEF IInv

\* Without one of the jobs the others are with their requests still, if those
\* are as they were.
LEMMA JobLess ==
  ASSUME IInv, NEW i \in DOMAIN pool, pool' = Without(i), flow' \in [Flows -> FlowType],
         \A j \in DOMAIN pool : j # i /\ pool[j].for # Nobody
                                   => flow'[pool[j].for] = flow[pool[j].for]
  PROVE  /\ pool' \in Seq(Jobs)
         /\ \A j \in DOMAIN pool' : Working(pool'[j], flow')
         /\ Distinct(pool')
<1>1. /\ pool \in Seq(Jobs) /\ Distinct(pool)
      /\ \A j \in DOMAIN pool : Working(pool[j], flow)
  BY DEF IInv, TypeOK, VisionTypeOK
<1>2. /\ pool' \in Seq(Jobs)
      /\ \A j \in DOMAIN pool' : \E k \in DOMAIN pool :
            k # i /\ pool'[j] = pool[k] /\ k = IF j < i THEN j ELSE j + 1
  BY <1>1, JobGone
<1>3. ASSUME NEW j \in DOMAIN pool'
      PROVE  Working(pool'[j], flow')
  <2>1. PICK k \in DOMAIN pool : k # i /\ pool'[j] = pool[k]
    BY <1>2
  <2> QED BY <1>1, <2>1, StillWorking
<1>4. ASSUME NEW j \in DOMAIN pool', NEW m \in DOMAIN pool',
             \/ pool'[j].for = pool'[m].for /\ pool'[j].for # Nobody
             \/ /\ pool'[j].kind = "remote" /\ pool'[m].kind = "remote"
                /\ pool'[j].thing = pool'[m].thing
      PROVE  j = m
  <2>1. PICK k \in DOMAIN pool : pool'[j] = pool[k] /\ k = IF j < i THEN j ELSE j + 1
    BY <1>2
  <2>2. PICK n \in DOMAIN pool : pool'[m] = pool[n] /\ n = IF m < i THEN m ELSE m + 1
    BY <1>2
  <2>3. k = n
    BY <1>1, <1>4, <2>1, <2>2 DEF Distinct
  <2>4. j \in Nat /\ m \in Nat /\ i \in Nat
    BY <1>1, <1>2
  <2>5. (IF j < i THEN j ELSE j + 1) = (IF m < i THEN m ELSE m + 1)
    BY <2>1, <2>2, <2>3
  <2>6. CASE j < i /\ ~ m < i
    BY <2>1, <2>2, <2>3, <2>4, <2>6, <1>2
  <2>7. CASE ~ j < i /\ m < i
    BY <2>1, <2>2, <2>3, <2>4, <2>7, <1>2
  <2> QED BY <2>4, <2>5, <2>6, <2>7
<1> QED BY <1>2, <1>3, <1>4 DEF Distinct

\* A judgement that ends answers those who wait for it, and nobody else.
LEMMA WorkerKeeps ==
  ASSUME IInv, NEW i \in DOMAIN pool, NEW slow \in BOOLEAN, NEW written \in BOOLEAN,
         NEW v \in Looks(pool[i].thing), WorkerEnds(i, v, slow, written)
  PROVE  IInv'
<1> DEFINE job == pool[i]
<1>1. /\ job.kind # "cover" /\ pool' = Without(i)
      /\ \E n \in Detections(job.kind, v) : recent' = Record(recent, slow, n)
      /\ cache' = IF v # NoVerdict /\ written THEN [cache EXCEPT ![job.thing] = v] ELSE cache
      /\ UNCHANGED <<available, policy, serves, turns, clean, pageLevel>>
  BY DEF WorkerEnds, JudgementEnds, around
<1>2. /\ flow' = [f \in Flows |-> IF WaitsFor(f, job)
                                  THEN [flow[f] EXCEPT !.st = "answered", !.got = v]
                                  ELSE flow[f]]
      /\ torn' = IF v \in {Truth[job.thing], NoVerdict} THEN torn
                 ELSE torn \cup {job.thing}
  BY DEF WorkerEnds
<1>3. /\ pool \in Seq(Jobs) /\ job \in Jobs /\ Working(job, flow) /\ Distinct(pool)
      /\ \A j \in DOMAIN pool : Working(pool[j], flow) /\ pool[j] \in Jobs
  BY DEF IInv, TypeOK, VisionTypeOK
<1>4. job.thing \in Things /\ v \in Answers
  <2>1. job.thing \in Things
    BY <1>3 DEF Jobs
  <2> QED BY <2>1, Given
<1>5. flow \in [Flows -> FlowType] /\ cache \in [Things -> Answers] /\ torn \subseteq Things
  BY DEF IInv, TypeOK, VisionTypeOK
<1>t. PICK thing \in Things : thing = job.thing
  BY <1>4
<1>6. torn \subseteq torn' /\ torn' \subseteq Things /\ Sound(thing, v)'
  BY <1>2, <1>5, <1>t DEF Sound
<1>7. \A l, t : Fit(l, t) => Fit(l, t)'
  BY <1>6 DEF Fit
<1>8. \A t, w : Sound(t, w) => Sound(t, w)'
  BY <1>6 DEF Sound
<1>9. ASSUME NEW f \in Flows
      PROVE  /\ flow'[f] \in FlowType
             /\ Told(flow[f])' /\ Passed(flow[f])'
  <2>1. flow[f] \in FlowType /\ Told(flow[f]) /\ Passed(flow[f])
    BY <1>5 DEF IInv
  <2>2. CASE WaitsFor(f, job)
    <3> DEFINE new == [flow[f] EXCEPT !.st = "answered", !.got = v]
    <3>1. flow'[f] = new
      BY <1>2, <2>2
    <3>2. flow[f].st = "waiting" /\ flow[f].thing = job.thing
      <4>1. flow[f].st = "waiting"
        BY <2>2 DEF WaitsFor
      <4>2. job.for = f => flow[f].thing = job.thing
        BY <1>3, Given DEF Working
      <4> QED BY <2>2, <4>1, <4>2 DEF WaitsFor
    <3>3. /\ new \in FlowType /\ new.st = "answered" /\ new.got = v /\ new.thing = thing
          /\ new.out = "nothing"
      <4>1. flow[f].out = "nothing"
        BY <2>1, <3>2 DEF Told
      <4> QED BY <1>4, <1>t, <2>1, <3>2, <4>1 DEF FlowType, Stages
    <3> HIDE DEF new
    <3>4. Told(flow[f])'
      BY <1>6, <3>1, <3>3 DEF Told
    <3>5. Passed(flow[f])'
      BY <3>1, <3>3 DEF Passed
    <3> QED BY <3>1, <3>3, <3>4, <3>5
  <2>3. CASE ~ WaitsFor(f, job)
    <3>1. flow'[f] = flow[f]
      BY <1>2, <2>3
    <3>2. Told(flow[f])'
      BY <1>8, <2>1, <3>1 DEF Told
    <3>3. Passed(flow[f])'
      BY <1>7, <2>1, <3>1 DEF Passed
    <3> QED BY <2>1, <3>1, <3>2, <3>3
  <2> QED BY <2>2, <2>3
<1>10. flow' \in [Flows -> FlowType]
  BY <1>2, <1>9
<1>11. ASSUME NEW j \in DOMAIN pool, j # i, pool[j].for # Nobody
       PROVE  flow'[pool[j].for] = flow[pool[j].for]
  <2>1. pool[j].for \in Flows
    BY <1>3, <1>11 DEF Jobs
  <2>2. job.for # pool[j].for
    BY <1>3, <1>11 DEF Distinct
  <2>3. ~ WaitsFor(pool[j].for, job)
    BY <1>3, <1>11, <2>2 DEF Working, WaitsFor
  <2> QED BY <1>2, <2>1, <2>3
<1>12. /\ pool' \in Seq(Jobs)
       /\ \A j \in DOMAIN pool' : Working(pool'[j], flow')
       /\ Distinct(pool')
  BY <1>1, <1>10, <1>11, JobLess
<1>13. cache' \in [Things -> Answers] /\ \A t \in Things : Sound(t, cache[t])'
  <2>1. \A t \in Things : Sound(t, cache[t])
    BY DEF IInv, Remembered
  <2>2. CASE v # NoVerdict /\ written
    <3>1. cache' = [cache EXCEPT ![thing] = v]
      BY <1>1, <1>t, <2>2
    <3>2. ASSUME NEW t \in Things
          PROVE  Sound(t, cache[t])'
      <4>1. CASE t = thing
        BY <1>4, <1>5, <1>6, <3>1, <4>1 DEF Sound
      <4>2. CASE t # thing
        BY <1>4, <1>5, <1>6, <2>1, <3>1, <4>2 DEF Sound
      <4> QED BY <4>1, <4>2
    <3> QED BY <1>4, <1>5, <3>1, <3>2
  <2>3. CASE ~ (v # NoVerdict /\ written)
    <3>1. cache' = cache
      BY <1>1, <2>3
    <3> QED BY <1>5, <1>6, <2>1, <3>1 DEF Sound
  <2> QED BY <2>2, <2>3
<1>14. Remembered'
  <2>1. \A u \in Urls, l \in MediaLevels : clean'[<<u, l>>] # Absent => Fit(l, clean[<<u, l>>])'
    BY <1>1, <1>6 DEF IInv, Remembered, Fit
  <2> QED BY <1>13, <2>1 DEF Remembered
<1>15. TypeOK'
  <2>1. \A n \in Detections(job.kind, v) : n \in Nat
    BY VisionConstants DEF Detections
  <2>2. recent' \in Seq(BOOLEAN) /\ Len(recent') <= SlowWindow
    BY <1>1, <2>1, WindowBounded DEF IInv, TypeOK, VisionTypeOK
  <2>3. VisionTypeOK'
    BY <1>1, <1>12, <1>13, <2>2 DEF IInv, TypeOK, VisionTypeOK
  <2> QED BY <1>1, <1>6, <1>10, <2>3 DEF IInv, TypeOK
<1> QED BY <1>9, <1>12, <1>14, <1>15 DEF IInv

\* A cover that is drawn ends its request, which waits for nothing else.
LEMMA CoverKeeps ==
  ASSUME IInv, NEW i \in DOMAIN pool, CoverDone(i)
  PROVE  IInv'
<1> DEFINE f == pool[i].for
           new == Ended(flow[f], "covered", flow[f].thing)
<1>1. /\ pool[i].kind = "cover" /\ pool' = Without(i)
      /\ flow' = [flow EXCEPT ![f] = new]
      /\ UNCHANGED <<available, cache, recent, policy, serves, turns, clean, pageLevel, torn>>
  BY DEF CoverDone, CoverEnds, Ends, around
<1>2. /\ pool \in Seq(Jobs) /\ pool[i] \in Jobs /\ Working(pool[i], flow) /\ Distinct(pool)
      /\ flow \in [Flows -> FlowType]
  BY DEF IInv, TypeOK, VisionTypeOK
<1>3. f \in Flows
  BY <1>1, <1>2 DEF Working, Jobs
<1>4. flow[f].thing \in Things /\ flow[f] \in FlowType
  BY <1>2, <1>3 DEF FlowType
<1>5. new \in FlowType /\ Told(new) /\ Passed(new)
  BY <1>4, EndedRequest
<1> HIDE DEF new
<1>6. flow' \in [Flows -> FlowType]
  BY <1>1, <1>2, <1>5
<1>7. \A j \in DOMAIN pool : j # i /\ pool[j].for # Nobody
                                => flow'[pool[j].for] = flow[pool[j].for]
  BY <1>1, <1>2, <1>3 DEF Distinct
<1>8. /\ pool' \in Seq(Jobs)
      /\ \A j \in DOMAIN pool' : Working(pool'[j], flow')
      /\ Distinct(pool')
  BY <1>1, <1>6, <1>7, JobLess
<1>9. ASSUME NEW g \in Flows
      PROVE  Told(flow[g])' /\ Passed(flow[g])'
  <2>1. Told(flow'[g]) /\ Passed(flow'[g])
    BY <1>1, <1>2, <1>5 DEF IInv
  <2>2. \A l, t : Fit(l, t)' <=> Fit(l, t)
    BY <1>1 DEF Fit
  <2>3. \A t, v : Sound(t, v)' <=> Sound(t, v)
    BY <1>1 DEF Sound
  <2> QED BY <2>1, <2>2, <2>3 DEF Told, Passed
<1>10. Remembered'
  BY <1>1, RememberedKept DEF CleanMoves
<1>11. TypeOK'
  <2>1. VisionTypeOK'
    BY <1>1, <1>8 DEF IInv, TypeOK, VisionTypeOK
  <2> QED BY <1>1, <1>6, <2>1 DEF IInv, TypeOK
<1> QED BY <1>8, <1>9, <1>10, <1>11 DEF IInv

\* What neither the requests nor the workers know of keeps the invariant.
LEMMA AroundKeeps ==
  ASSUME IInv, UNCHANGED <<visionVars, clean, flow, torn>>,
         policy' \in Policies, serves' \in [Urls -> Things], turns' \in 0 .. MaxTurns,
         pageLevel' \in [Pages -> DOMAIN Severity]
  PROVE  IInv'
<1>1. /\ UNCHANGED <<available, cache, recent, pool, clean, flow, torn>>
  BY DEF visionVars
<1>2. TypeOK'
  BY <1>1 DEF IInv, TypeOK, VisionTypeOK
<1>3. Remembered'
  BY <1>1, RememberedKept DEF CleanMoves
<1>4. \A f \in Flows : Told(flow[f])' /\ Passed(flow[f])'
  BY <1>1 DEF IInv, Told, Passed, Fit, Sound
<1>5. (\A i \in DOMAIN pool' : Working(pool'[i], flow')) /\ Distinct(pool')
  BY <1>1 DEF IInv
<1> QED BY <1>2, <1>3, <1>4, <1>5 DEF IInv

\* Requests that are none yet, and an empty pool.
LEMMA NothingUnderWay ==
  /\ [f \in Flows |-> Idle] \in [Flows -> FlowType]
  /\ Told(Idle) /\ Passed(Idle)
  /\ <<>> \in Seq(Jobs) /\ DOMAIN <<>> = {} /\ <<>> \in Seq(BOOLEAN) /\ Len(<<>>) <= SlowWindow
<1>1. Idle.st = "idle" /\ Idle.out = "nothing"
  BY DEF Idle
<1>2. Told(Idle) /\ Passed(Idle)
  BY <1>1 DEF Told, Passed
<1>3. <<>> \in Seq(Jobs) /\ DOMAIN <<>> = {} /\ <<>> \in Seq(BOOLEAN) /\ Len(<<>>) = 0
  OBVIOUS
<1>4. SlowWindow \in Nat
  BY Given
<1>5. 0 <= SlowWindow
  BY <1>4
<1>6. [f \in Flows |-> Idle] \in [Flows -> FlowType]
  BY Given
<1> QED BY <1>2, <1>3, <1>5, <1>6

\* The proxy starts, again or for the first time, with what vouches for nothing.
LEMMA Fresh ==
  ASSUME NEW forgotten, forgotten = [k \in Urls \X MediaLevels |-> Absent]
  PROVE  /\ forgotten \in [Urls \X MediaLevels -> Things \cup {Absent}]
         /\ \A u \in Urls, l \in MediaLevels : forgotten[<<u, l>>] = Absent
         /\ [p \in Pages |-> "clean"] \in [Pages -> DOMAIN Severity]
<1>1. "clean" \in DOMAIN Severity
  BY DEF Severity
<1> QED BY <1>1

\* Init establishes the invariant.
LEMMA InitIInv == Init => IInv
<1> SUFFICES ASSUME Init
             PROVE  IInv
  OBVIOUS
<1>1. /\ available \in BOOLEAN /\ cache = [t \in Things |-> NoVerdict]
      /\ recent = <<>> /\ pool = <<>> /\ policy \in Policies /\ serves \in [Urls -> Things]
      /\ turns = 0 /\ clean = [k \in Urls \X MediaLevels |-> Absent]
      /\ pageLevel = [p \in Pages |-> "clean"]
      /\ flow = [f \in Flows |-> Idle] /\ torn = {}
  BY DEF Init, VisionInit
<1>2. 0 \in 0 .. MaxTurns
  BY ProxyConstants
<1>3. cache \in [Things -> Answers]
  BY <1>1, Given
<1>4. VisionTypeOK
  BY <1>1, <1>3, NothingUnderWay DEF VisionTypeOK
<1>5. TypeOK
  BY <1>1, <1>2, <1>4, NothingUnderWay, Fresh DEF TypeOK
<1>6. Remembered
  BY <1>1, Fresh DEF Remembered, Sound
<1>7. \A f \in Flows : Told(flow[f]) /\ Passed(flow[f])
  BY <1>1, NothingUnderWay
<1>8. (\A i \in DOMAIN pool : Working(pool[i], flow)) /\ Distinct(pool)
  BY <1>1, NothingUnderWay DEF Distinct
<1> QED BY <1>5, <1>6, <1>7, <1>8 DEF IInv

\* Every step of the proxy keeps the invariant.
LEMMA NextIInv == IInv /\ [Next]_vars => IInv'
<1> SUFFICES ASSUME IInv, [Next]_vars
             PROVE  IInv'
  OBVIOUS
<1>1. /\ policy \in Policies /\ serves \in [Urls -> Things] /\ turns \in 0 .. MaxTurns
      /\ pageLevel \in [Pages -> DOMAIN Severity]
  BY DEF IInv, TypeOK
<1>2. ASSUME Turn
      PROVE  turns' \in 0 .. MaxTurns
  BY <1>1, <1>2, ProxyConstants DEF Turn
<1>3. ASSUME NEW p \in Policies, NewRules(p)
      PROVE  IInv'
  BY <1>1, <1>2, <1>3, AroundKeeps DEF NewRules
<1>4. ASSUME NEW u \in Urls, NEW t \in Things, Swap(u, t)
      PROVE  IInv'
  <2>1. serves' \in [Urls -> Things]
    BY <1>1, <1>4 DEF Swap
  <2> QED BY <1>1, <1>2, <1>4, <2>1, AroundKeeps DEF Swap
<1>5. ASSUME NEW p \in Pages, NEW d \in Pages, NEW l \in PageLevels, ReadPage(p, l, d)
      PROVE  IInv'
  <2>1. l \in DOMAIN Severity /\ "clean" \in DOMAIN Severity
    BY ProxyConstants DEF Severity
  <2>2. pageLevel' \in [Pages -> DOMAIN Severity]
    <3> HIDE DEF Severity
    <3> QED BY <1>1, <1>5, <2>1 DEF ReadPage
  <2> QED BY <1>1, <1>2, <1>5, <2>2, AroundKeeps DEF ReadPage
<1>6. ASSUME Restart
      PROVE  IInv'
  <2>1. /\ recent' = <<>> /\ pool' = <<>> /\ UNCHANGED <<available, cache, policy, serves, torn>>
        /\ clean' = [k \in Urls \X MediaLevels |-> Absent]
        /\ pageLevel' = [p \in Pages |-> "clean"] /\ flow' = [f \in Flows |-> Idle]
        /\ turns' \in 0 .. MaxTurns
    BY <1>2, <1>6 DEF Restart, VisionRestarts
  <2>2. VisionTypeOK'
    BY <2>1, NothingUnderWay DEF IInv, TypeOK, VisionTypeOK
  <2>3. TypeOK'
    BY <2>1, <2>2, NothingUnderWay, Fresh DEF IInv, TypeOK
  <2>4. Remembered'
    <3>1. \A t \in Things : Sound(t, cache[t])'
      BY <2>1 DEF IInv, Remembered, Sound
    <3>2. \A u \in Urls, l \in MediaLevels : clean'[<<u, l>>] = Absent
      BY <2>1, Fresh
    <3> QED BY <3>1, <3>2 DEF Remembered
  <2>5. ASSUME NEW f \in Flows
        PROVE  Told(flow[f])' /\ Passed(flow[f])'
    <3>1. flow'[f].st = "idle" /\ flow'[f].out = "nothing"
      BY <2>1 DEF Idle
    <3> QED BY <3>1 DEF Told, Passed
  <2>6. (\A i \in DOMAIN pool' : Working(pool'[i], flow')) /\ Distinct(pool')
    BY <2>1, NothingUnderWay DEF Distinct
  <2> QED BY <2>3, <2>4, <2>5, <2>6 DEF IInv
<1>7. ASSUME NEW f \in Flows, NEW u \in Urls, NEW p \in Pages, Ask(f, u, p)
      PROVE  IInv'
  BY <1>7, AskMoves, HookKeeps
<1>8. ASSUME NEW f \in Flows, PictureHeaders(f)
      PROVE  IInv'
  BY <1>8, PictureHeadersMoves, HookKeeps
<1>9. ASSUME NEW f \in Flows, NEW shape \in Shapes, ClipHeaders(f, shape)
      PROVE  IInv'
  BY <1>9, ClipHeadersMoves, HookKeeps
<1>10. ASSUME NEW f \in Flows, PictureBody(f)
       PROVE  IInv'
  BY <1>10, PictureBodyMoves, HookKeeps
<1>11. ASSUME NEW f \in Flows, ClipBody(f)
       PROVE  IInv'
  BY <1>11, ClipBodyMoves, HookKeeps
<1>12. ASSUME NEW i \in DOMAIN pool, NEW slow \in BOOLEAN, NEW written \in BOOLEAN,
              NEW v \in Looks(pool[i].thing), WorkerEnds(i, v, slow, written)
       PROVE  IInv'
  BY <1>12, WorkerKeeps
<1>13. ASSUME NEW i \in DOMAIN pool, CoverDone(i)
       PROVE  IInv'
  BY <1>13, CoverKeeps
<1>14. ASSUME NEW f \in Flows, Resume(f)
       PROVE  IInv'
  BY <1>14, ResumeMoves, HookKeeps
<1>15. ASSUME NEW f \in Flows, Deadline(f)
       PROVE  IInv'
  BY <1>15, DeadlineMoves, HookKeeps
<1>16. CASE UNCHANGED vars
  BY <1>1, <1>16, AroundKeeps DEF vars, around
<1> QED BY <1>3, <1>4, <1>5, <1>6, <1>7, <1>8, <1>9, <1>10, <1>11, <1>12, <1>13, <1>14,
           <1>15, <1>16 DEF Next
-----------------------------------------------------------------------------
\* The invariant holds throughout.
THEOREM Invariant == Spec => []IInv
BY InitIInv, NextIInv, PTL DEF Spec

\* Every variable keeps its type; in particular the window of the detector
\* (_recent) stays within SLOW_WINDOW and each verdict is one there is.
THEOREM Typed == Spec => []TypeOK
<1>1. IInv => TypeOK
  BY DEF IInv
<1> QED BY <1>1, Invariant, PTL

\* Whatever changes while a request waits, no picture and no clip goes through
\* as it came to an account whose level hides it (kosher_filter.py's hooks).
THEOREM NothingPast == Spec => []NothingPastItsLevel
<1>1. IInv => NothingPastItsLevel
  BY DEF IInv, Passed, NothingPastItsLevel
<1> QED BY <1>1, Invariant, PTL

\* Two pieces of a clip never start two judgements through its source
\* (verdict_remote_async in videocheck.py).
THEOREM OneJudgement == Spec => []OneJudgementPerClip
<1>1. IInv => OneJudgementPerClip
  BY DEF IInv, Distinct, OneJudgementPerClip
<1> QED BY <1>1, Invariant, PTL
=============================================================================
