-------------------------------- MODULE Vision --------------------------------
(***************************************************************************)
(* The picture and clip detector of the filtering proxy: vision.py and      *)
(* videocheck.py.  One small pool of worker threads judges pictures, samples *)
(* clips and draws covers, in the order it was asked.  A verdict is cached by *)
(* content, the time of each detection goes into a short window, and a       *)
(* machine whose window is mostly slow stops judging new pictures.           *)
(* A picture or clip is a Thing with the verdict the detector would reach    *)
(* (Truth) and those it would reach if some frames could not be looked at    *)
(* (Partly).  Proxy.tla, which asks the questions, extends this module.      *)
(***************************************************************************)
EXTENDS Naturals, Sequences, FiniteSets

CONSTANTS Things,      \* pictures and clips, by content
          Truth,       \* Truth[t]: the verdict on the whole of t
          Partly,      \* Partly[t]: the verdicts on some frames of t only
          Workers,     \* default_workers: one or two
          SlowWindow,  \* SLOW_WINDOW detections are remembered
          Frames,      \* ANIMATION_FRAMES, SAMPLE_FRAMES: detections in one job
          Flows        \* requests in the proxy, who wait for an answer

Severity == [clean |-> 0, immodest |-> 1, suggestive |-> 2, nsfw |-> 3]
MediaLevels == {"none", "nsfw", "suggestive", "immodest", "people", "all"}
Verdicts == [level : DOMAIN Severity, person : BOOLEAN]
NoVerdict == [level |-> "unknown", person |-> FALSE]
Answers == Verdicts \cup {NoVerdict}

ASSUME VisionConstants ==
    /\ Truth \in [Things -> Verdicts]
    /\ Partly \in [Things -> SUBSET Verdicts]
    /\ Workers \in Nat \ {0}
    /\ SlowWindow \in Nat \ {0}
    /\ Frames \in Nat \ {0}
    /\ "nobody" \notin Flows

VARIABLES available,   \* a model (and a decoder) is installed
          cache,       \* VerdictCache, in a file: outlives the proxy
          recent,      \* ImageFilter._recent: TRUE for a slow detection
          pool         \* jobs in the order they were submitted

visionVars == <<available, cache, recent, pool>>
-----------------------------------------------------------------------------
AtLeast(v, level) == Severity[v.level] >= Severity[level]

\* Which verdicts an account at this media level does not get to see.
Hides(media, v) ==
    CASE media = "none"       -> FALSE
      [] media = "all"        -> TRUE
      [] media = "people"     -> v.person \/ AtLeast(v, "immodest")
      [] OTHER                -> AtLeast(v, media)

\* A person on a page whose words are past what the account tolerates.
InContext(v, page, tolerance) ==
    /\ v.person
    /\ page \in DOMAIN Severity
    /\ Severity[page] >= Severity[tolerance]

SlowOnes(w) == Cardinality({i \in DOMAIN w : w[i]})

\* The median of a full window is slow.
Slow(w) == Len(w) = SlowWindow /\ SlowOnes(w) >= SlowWindow - SlowWindow \div 2
Degraded == Slow(recent)

\* As if the window was cut one too late.
OneTooMany(w, slow, detections) ==
    LET all == w \o [i \in 1 .. detections |-> slow]
    IN  IF Len(all) <= SlowWindow + 1 THEN all
        ELSE SubSeq(all, Len(all) - SlowWindow, Len(all))

\* The window after so many more detections, all slow or all fast.
Record(w, slow, detections) ==
    LET all == w \o [i \in 1 .. detections |-> slow]
    IN  IF Len(all) <= SlowWindow THEN all
        ELSE SubSeq(all, Len(all) - SlowWindow + 1, Len(all))

\* What the detector says of t: the verdict on all of its frames, on those
\* it could look at, or nothing.  combine() takes what there is.
Looks(t) == {Truth[t], NoVerdict} \cup Partly[t]
-----------------------------------------------------------------------------
Nobody == "nobody"
Kinds == {"judge", "cover", "clip", "remote"}
Jobs == [kind : Kinds, thing : Things, for : Flows \cup {Nobody}]
Job(kind, t, f) == [kind |-> kind, thing |-> t, for |-> f]

\* As if a job was dropped from its turn once nobody waits for it.
Awaited(i) == i \in 1 .. Len(pool) /\ i <= Workers /\ pool[i].for # Nobody

Running(i) == i \in 1 .. Len(pool) /\ i <= Workers
Without(i) == [j \in 1 .. Len(pool) - 1 |-> IF j < i THEN pool[j] ELSE pool[j + 1]]

\* The pool when f has stopped waiting: the worker carries on all the same.
Orphaned(f) == [j \in DOMAIN pool |->
                   IF pool[j].for = f THEN [pool[j] EXCEPT !.for = Nobody] ELSE pool[j]]

\* As if the map of what is being judged was made anew by each request.
OwnMap(t) == FALSE

\* One judgement through its source serves everybody who asks for the clip.
InFlight(t) == \E j \in DOMAIN pool : pool[j].kind = "remote" /\ pool[j].thing = t

\* A clip that cannot be opened is not timed; a picture always is.
Detections(kind, v) ==
    IF kind # "judge" /\ v = NoVerdict THEN 0 .. Frames ELSE 1 .. Frames

\* A worker ends a judgement: the window has its time, the cache its verdict.
\* Nobody may be waiting for it any more.  A verdict that could not be
\* written is only missing from the cache.
JudgementEnds(i, v, slow, written) ==
    /\ Running(i)
    /\ pool[i].kind # "cover"
    /\ v \in IF available THEN Looks(pool[i].thing) ELSE {NoVerdict}
    /\ slow => available
    /\ \E n \in Detections(pool[i].kind, v) : recent' = Record(recent, slow, n)
    /\ cache' = IF v # NoVerdict /\ written
                THEN [cache EXCEPT ![pool[i].thing] = v] ELSE cache
    /\ pool' = Without(i)
    /\ UNCHANGED available

\* A worker ends a cover, which is neither timed nor cached here.
CoverEnds(i) ==
    /\ Running(i)
    /\ pool[i].kind = "cover"
    /\ pool' = Without(i)
    /\ UNCHANGED <<available, cache, recent>>

\* The proxy starts again: threads, queue and window are gone.
VisionRestarts ==
    /\ recent' = <<>>
    /\ pool' = <<>>
    /\ UNCHANGED <<available, cache>>

VisionInit ==
    /\ available \in BOOLEAN
    /\ cache = [t \in Things |-> NoVerdict]
    /\ recent = <<>>
    /\ pool = <<>>

VisionTypeOK ==
    /\ available \in BOOLEAN
    /\ cache \in [Things -> Answers]
    /\ recent \in Seq(BOOLEAN)
    /\ Len(recent) <= SlowWindow
    /\ pool \in Seq(Jobs)
=============================================================================
