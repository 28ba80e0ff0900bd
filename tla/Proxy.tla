--------------------------------- MODULE Proxy ---------------------------------
(***************************************************************************)
(* How the filtering proxy (mitm/kosher_filter.py) answers a request for a   *)
(* picture or a clip.  mitmproxy calls three hooks for a request, all on one *)
(* event loop: request, responseheaders and response.  The last two wait for *)
(* a worker of Vision.tla, and while they wait the rules file, the catalogue *)
(* of clean addresses and what the pages were judged to be may all change.   *)
(***************************************************************************)
EXTENDS Vision

CONSTANTS Urls,        \* addresses of pictures and clips
          Pages,       \* pages they are shown on
          PageLevels,  \* what the words of a page may be judged to be
          Policies,    \* what kosherd may write for the account: [level, rule, blocked]
          SourceOf,    \* SourceOf[p]: what the catalogue says of the host of p
          ClipsAt,     \* ClipsAt[u]: the clips u may serve, known by u and their size
          Tiny, Moving, \* pictures under MIN_IMAGE_BYTES; animated ones
          Thumbs,      \* addresses that are thumbnails of a search
          Shapes,      \* how the source answers for a clip
          MaxPool,     \* bound: nothing is asked beyond so many jobs
          MaxTurns     \* bound: so many changes around the proxy

ASSUME ProxyConstants ==
    /\ Urls # {} /\ Pages # {} /\ Things # {}
    /\ Policies \subseteq [level : MediaLevels, blocked : SUBSET Urls,
                           rule : [Urls \cup Pages ->
                                     {"none", "allow", "pictures", "bypass", "block"}]]
    /\ SourceOf \in [Urls \cup Pages -> {"plain", "adult", "immodest"}]
    /\ PageLevels \subseteq DOMAIN Severity
    /\ ClipsAt \in [Urls -> SUBSET Things]
    /\ \A u, w \in Urls : u # w => ClipsAt[u] \cap ClipsAt[w] = {}
    /\ Tiny \subseteq Things /\ Moving \subseteq Things
    /\ Thumbs \subseteq Urls
    /\ Shapes \subseteq {"whole", "piece", "blind"}
    /\ MaxPool \in Nat /\ MaxTurns \in Nat

VARIABLES policy,      \* PolicyCache: the account's entry of the rules file
          serves,      \* serves[u]: what the web answers at u now
          clean,       \* _clean_urls: what vouches for (u, level), if recent
          pageLevel,   \* page_levels: what a page was judged to be
          flow,        \* the requests in the proxy
          turns,       \* changes around the proxy so far
          torn         \* observation: things some verdict left frames out of

around == <<policy, serves, turns>>
vars == <<visionVars, around, clean, pageLevel, flow, torn>>
-----------------------------------------------------------------------------
\* CONTENT_TOLERANCE: the ladder of words that goes with a media level.
Tolerance(media) ==
    CASE media \in {"none", "nsfw"} -> "nsfw"
      [] media = "suggestive"       -> "suggestive"
      [] OTHER                      -> "immodest"

Strict == {"all", "people", "immodest", "suggestive"}    \* VIDEO_STRICT_LEVELS
Checked == {"nsfw", "suggestive", "immodest", "people"}  \* VIDEO_CHECKED_LEVELS

\* IMMODEST_SOURCES: hosts whose pictures are hidden unseen at a level.
BadSources(media) == IF media = "nsfw" THEN {"adult"} ELSE {"adult", "immodest"}

\* What an address may serve.
Clips == UNION {ClipsAt[u] : u \in Urls}
Served(u) == IF ClipsAt[u] # {} THEN ClipsAt[u] ELSE Things \ Clips

Absent == "absent"
Nothing == CHOOSE t \in Things : TRUE

Idle == [st |-> "idle", url |-> CHOOSE u \in Urls : TRUE,
         page |-> CHOOSE p \in Pages : TRUE, shape |-> "whole", mark |-> "plain",
         thing |-> Nothing, vouch |-> Nothing, level |-> "none",
         got |-> NoVerdict, out |-> "nothing"]

Init ==
    /\ VisionInit
    /\ policy \in Policies
    /\ serves \in {s \in [Urls -> Things] : \A u \in Urls : s[u] \in Served(u)}
    /\ turns = 0
    /\ clean = [k \in Urls \X MediaLevels |-> Absent]
    /\ pageLevel = [p \in Pages |-> "clean"]
    /\ flow = [f \in Flows |-> Idle]
    /\ torn = {}
-----------------------------------------------------------------------------
(* What happens around the proxy. *)

Turn == turns < MaxTurns /\ turns' = turns + 1

\* kosherd renders new rules; the next look at them sees the new file.
NewRules(p) ==
    /\ Turn
    /\ policy # p
    /\ policy' = p
    /\ UNCHANGED <<visionVars, serves, clean, pageLevel, flow, torn>>

\* The web answers with something else of the same kind at u.
Swap(u, t) ==
    /\ Turn
    /\ t \in Served(u) \ {serves[u]}
    /\ serves' = [serves EXCEPT ![u] = t]
    /\ UNCHANGED <<visionVars, policy, clean, pageLevel, flow, torn>>

\* _remember_page: the words of a page no rule allows are judged.  Only so many
\* pages are remembered; which one is dropped is left open.
ReadPage(p, level, dropped) ==
    /\ Turn
    /\ policy.level # "none"
    /\ policy.rule[p] = "none"
    /\ pageLevel' = [q \in Pages |-> IF q = p THEN level
                                     ELSE IF q = dropped THEN "clean" ELSE pageLevel[q]]
    /\ pageLevel' # pageLevel
    /\ UNCHANGED <<visionVars, policy, serves, clean, flow, torn>>

\* The proxy is started again, as a change of its listeners does.
Restart ==
    /\ Turn
    /\ VisionRestarts
    /\ clean' = [k \in Urls \X MediaLevels |-> Absent]
    /\ pageLevel' = [p \in Pages |-> "clean"]
    /\ flow' = [f \in Flows |-> Idle]
    /\ UNCHANGED <<policy, serves, torn>>
-----------------------------------------------------------------------------
(* How a request ends. *)

\* Of a request that went through, at which level and vouched for by what.
\* Hidden, covered or refused, it leaves nothing behind.
Ended(fl, out, vouch) ==
    IF out \in {"as is", "unchecked"}
    THEN [Idle EXCEPT !.out = out, !.mark = fl.mark, !.level = fl.level, !.vouch = vouch]
    ELSE Idle

Ends(f, fl, out) == flow' = [flow EXCEPT ![f] = Ended(fl, out, fl.thing)]

\* Reasons to hide a looked-at picture whole: no verdict, a person in the
\* thumbnail of a search, a person on such a page, more than one frame.
HiddenWhole(fl, v) ==
    \/ v = NoVerdict
    \/ /\ fl.level \in {"immodest", "suggestive", "people"}
       /\ v.person
       /\ fl.url \in Thumbs
    \/ /\ v # NoVerdict
       /\ IF Hides(fl.level, v) THEN fl.thing \in Moving
          ELSE InContext(v, pageLevel[fl.page], Tolerance(fl.level))

\* _image_settle with verdict v; jobs is the pool as it is then.
SettlePicture(f, fl, v, jobs) ==
    \/ /\ HiddenWhole(fl, v)
       /\ Ends(f, fl, "hidden")
       /\ pool' = jobs
       /\ UNCHANGED clean
    \/ /\ ~ HiddenWhole(fl, v)
       /\ ~ Hides(fl.level, v)
       /\ clean' = [clean EXCEPT ![<<fl.url, fl.level>>] = fl.thing]
       /\ Ends(f, fl, "as is")
       /\ pool' = jobs
    \/ /\ ~ HiddenWhole(fl, v)
       /\ Hides(fl.level, v)
       /\ \/ /\ Ends(f, fl, "hidden")           \* a cover would take most of it
             /\ pool' = jobs
          \/ /\ flow' = [flow EXCEPT ![f] = [fl EXCEPT !.st = "covering"]]
             /\ pool' = Append(jobs, Job("cover", fl.thing, f))
       /\ UNCHANGED clean

\* _video_settle, _settle_before_body.
SettleClip(f, fl, v) ==
    Ends(f, fl, IF v = NoVerdict
                THEN IF fl.level \in Strict THEN "refused" ELSE "unchecked"
                ELSE IF Hides(fl.level, v) THEN "refused" ELSE "as is")

\* _video_decision, from the headers and again from the body.
VideoDecision(fl, media) ==
    LET uncheckable == IF media \in Strict THEN "refuse" ELSE "unchecked"
    IN  CASE media = "none"                            -> "stream"
          [] media # "none" /\ fl.url \in policy.blocked -> "refuse"
          [] media # "none" /\ fl.url \notin policy.blocked
               /\ media \notin Checked                 -> "refuse"
          [] OTHER ->
               IF ~ available THEN uncheckable
               ELSE IF cache[fl.thing] # NoVerdict
                    THEN IF Hides(media, cache[fl.thing]) THEN "refuse" ELSE "stream"
               ELSE IF fl.shape = "blind" THEN uncheckable
               ELSE IF fl.shape = "piece" THEN "sample" ELSE "hold"

Decided(f, fl, decision) ==
    /\ decision \in {"stream", "refuse", "unchecked"}
    /\ Ends(f, fl, CASE decision = "stream" -> "as is"
                     [] decision = "refuse" -> "refused"
                     [] OTHER               -> "unchecked")
-----------------------------------------------------------------------------
(* The hooks. *)

\* request: what is refused here never becomes a request to the web.
Ask(f, u, p) ==
    LET own == policy.rule[u]
        its == policy.rule[p]
        mark == IF "bypass" \in {own, its} THEN "bypass"
                ELSE IF "pictures" \in {own, its} THEN "pictures" ELSE "plain"
    IN  /\ flow[f].st = "idle"
        /\ Len(pool) < MaxPool
        /\ own # "block"
        /\ mark = "bypass" \/ own # "none" \/ u \notin policy.blocked
        /\ flow' = [flow EXCEPT ![f] = [Idle EXCEPT !.st = "asked", !.url = u, !.page = p,
                                                     !.mark = mark]]
        /\ UNCHANGED <<visionVars, around, clean, pageLevel, torn>>

\* As if the addresses judged clean were kept without the level they were judged at.
KnownAtAll(u, media) ==
    IF \E l \in MediaLevels : clean[<<u, l>>] # Absent
    THEN clean[<<u, CHOOSE l \in MediaLevels : clean[<<u, l>>] # Absent>>] ELSE Absent

\* _recently_clean: what u served when it was last judged clean at this level.
Known(u, media) == clean[<<u, media>>]

\* responseheaders for a picture: let through unread, or held for its body.  An
\* address judged clean at this level passes, while that is not too old.
PictureHeaders(f) ==
    LET media == policy.level
        fl == [flow[f] EXCEPT !.thing = serves[flow[f].url], !.level = media]
        known == Known(fl.url, media)
    IN  /\ flow[f].st = "asked"
        /\ serves[fl.url] \notin Clips
        /\ \/ /\ fl.mark # "plain" \/ media = "none"
              /\ Ends(f, fl, "as is")
              /\ UNCHANGED clean
           \/ /\ fl.mark = "plain" /\ media # "none"
              /\ known # Absent
              /\ flow' = [flow EXCEPT ![f] = Ended(fl, "as is", known)]
              /\ UNCHANGED clean
           \/ /\ fl.mark = "plain" /\ media # "none"
              /\ flow' = [flow EXCEPT ![f] = [fl EXCEPT !.st = "held", !.level = "none"]]
              /\ clean' = [clean EXCEPT ![<<fl.url, media>>] = Absent]
        /\ UNCHANGED <<visionVars, around, pageLevel, torn>>

\* responseheaders for a clip: a part of a file is judged through its source.
ClipHeaders(f, shape) ==
    LET media == policy.level
        fl == [flow[f] EXCEPT !.thing = serves[flow[f].url], !.level = media,
                              !.shape = shape]
        decision == VideoDecision(fl, media)
    IN  /\ flow[f].st = "asked"
        /\ serves[fl.url] \in Clips
        /\ \/ /\ fl.mark = "bypass"
              /\ Ends(f, fl, "as is")
              /\ UNCHANGED pool
           \/ /\ fl.mark # "bypass"
              /\ Decided(f, fl, decision)
              /\ UNCHANGED pool
           \/ /\ fl.mark # "bypass"
              /\ decision = "hold"
              /\ flow' = [flow EXCEPT ![f] = [fl EXCEPT !.st = "held", !.level = "none"]]
              /\ UNCHANGED pool
           \/ /\ fl.mark # "bypass"
              /\ decision = "sample"
              /\ flow' = [flow EXCEPT ![f] = [fl EXCEPT !.st = "waiting"]]
              /\ pool' = IF InFlight(fl.thing) THEN pool
                         ELSE Append(pool, Job("remote", fl.thing, Nobody))
        /\ UNCHANGED <<available, cache, recent, around, clean, pageLevel, torn>>

\* response for a picture: what needs no model, what is known, or a job for it.
PictureBody(f) ==
    LET fl == [flow[f] EXCEPT !.level = policy.level]
        known == cache[fl.thing]
    IN  /\ flow[f].st = "held"
        /\ fl.thing \notin Clips
        /\ \/ /\ fl.level = "none" \/ (fl.level # "all" /\ fl.thing \in Tiny)
              /\ Ends(f, fl, "as is")
              /\ UNCHANGED <<pool, clean>>
           \/ /\ fl.level # "none"
              /\ \/ fl.level = "all"
                 \/ /\ fl.thing \notin Tiny
                    /\ fl.url \in policy.blocked
                          \/ {SourceOf[fl.url], SourceOf[fl.page]} \cap BadSources(fl.level) # {}
              /\ Ends(f, fl, "hidden")
              /\ UNCHANGED <<pool, clean>>
           \/ /\ fl.level \notin {"none", "all"}
              /\ fl.thing \notin Tiny
              /\ fl.url \notin policy.blocked
              /\ {SourceOf[fl.url], SourceOf[fl.page]} \cap BadSources(fl.level) = {}
              /\ IF known # NoVerdict \/ Degraded
                 THEN SettlePicture(f, fl, known, pool)
                 ELSE /\ flow' = [flow EXCEPT ![f] = [fl EXCEPT !.st = "waiting"]]
                      /\ pool' = Append(pool, Job("judge", fl.thing, f))
                      /\ UNCHANGED clean
        /\ UNCHANGED <<available, cache, recent, around, pageLevel, torn>>

\* response for a clip held whole: decided once more, then sampled.
ClipBody(f) ==
    LET fl == [flow[f] EXCEPT !.level = policy.level]
        decision == VideoDecision(fl, fl.level)
    IN  /\ flow[f].st = "held"
        /\ fl.thing \in Clips
        /\ \/ /\ Decided(f, fl, decision)
              /\ UNCHANGED pool
           \/ /\ decision = "hold"
              /\ flow' = [flow EXCEPT ![f] = [fl EXCEPT !.st = "waiting"]]
              /\ pool' = Append(pool, Job("clip", fl.thing, f))
        /\ UNCHANGED <<available, cache, recent, around, clean, pageLevel, torn>>

\* Who waits for the job: its own request, or everybody after the clip it samples.
WaitsFor(f, job) ==
    /\ flow[f].st = "waiting"
    /\ \/ job.for = f
       \/ /\ job.kind = "remote"
          /\ flow[f].shape = "piece"
          /\ flow[f].thing = job.thing

WorkerEnds(i, v, slow, written) ==
    /\ JudgementEnds(i, v, slow, written)
    /\ flow' = [f \in Flows |-> IF WaitsFor(f, pool[i])
                                THEN [flow[f] EXCEPT !.st = "answered", !.got = v]
                                ELSE flow[f]]
    /\ torn' = IF v \in {Truth[pool[i].thing], NoVerdict} THEN torn
               ELSE torn \cup {pool[i].thing}
    /\ UNCHANGED <<around, clean, pageLevel>>

\* _apply_cover: covered, or hidden whole when the cover could not be drawn.
CoverDone(i) ==
    /\ CoverEnds(i)
    /\ Ends(pool[i].for, flow[pool[i].for], "covered")
    /\ UNCHANGED <<around, clean, pageLevel, torn>>

\* The hook goes on with the answer, at the level it read before it waited.
Resume(f) ==
    /\ flow[f].st = "answered"
    /\ IF flow[f].thing \in Clips
       THEN SettleClip(f, flow[f], flow[f].got) /\ UNCHANGED <<pool, clean>>
       ELSE SettlePicture(f, flow[f], flow[f].got, pool)
    /\ UNCHANGED <<available, cache, recent, around, pageLevel, torn>>

\* The wait is over without an answer.  For a picture it counts as a slow one.
Deadline(f) ==
    /\ flow[f].st = "waiting"
    /\ IF flow[f].thing \in Clips
       THEN /\ SettleClip(f, flow[f], NoVerdict)
            /\ pool' = Orphaned(f)
            /\ UNCHANGED <<recent, clean>>
       ELSE /\ recent' = Record(recent, TRUE, 1)
            /\ SettlePicture(f, flow[f], NoVerdict, Orphaned(f))
    /\ UNCHANGED <<available, cache, around, pageLevel, torn>>
-----------------------------------------------------------------------------
Next ==
    \/ \E p \in Policies : NewRules(p)
    \/ \E u \in Urls, t \in Things : Swap(u, t)
    \/ \E p, d \in Pages, l \in PageLevels : ReadPage(p, l, d)
    \/ Restart
    \/ \E f \in Flows, u \in Urls, p \in Pages : Ask(f, u, p)
    \/ \E f \in Flows : PictureHeaders(f)
    \/ \E f \in Flows, shape \in Shapes : ClipHeaders(f, shape)
    \/ \E f \in Flows : PictureBody(f)
    \/ \E f \in Flows : ClipBody(f)
    \/ \E i \in DOMAIN pool, slow, written \in BOOLEAN :
          \E v \in Looks(pool[i].thing) : WorkerEnds(i, v, slow, written)
    \/ \E i \in DOMAIN pool : CoverDone(i)
    \/ \E f \in Flows : Resume(f)
    \/ \E f \in Flows : Deadline(f)

Spec == Init /\ [][Next]_vars

OldestEnds ==
    /\ pool # <<>>
    /\ \/ \E v \in Looks(pool[1].thing), slow, written \in BOOLEAN :
             WorkerEnds(1, v, slow, written)
       \/ CoverDone(1)

\* What the event loop does for a request: its next hook or timer.
Hook(f) ==
    \/ PictureHeaders(f) \/ \E shape \in Shapes : ClipHeaders(f, shape)
    \/ PictureBody(f) \/ ClipBody(f)
    \/ Resume(f) \/ Deadline(f)

\* The detector returns, so the oldest job ends; the event loop comes round to
\* every request.
Fairness == WF_vars(OldestEnds) /\ \A f \in Flows : WF_vars(Hook(f))

FairSpec == Spec /\ Fairness

-----------------------------------------------------------------------------
Stages == {"idle", "asked", "held", "waiting", "answered", "covering"}
Outs == {"nothing", "as is", "unchecked"}
FlowType == [st : Stages, url : Urls, page : Pages, shape : Shapes \cup {"whole"},
             mark : {"plain", "pictures", "bypass"}, thing : Things, vouch : Things,
             level : MediaLevels, got : Answers, out : Outs]

\* Every variable holds what its part of the proxy may hold.
TypeOK ==
    /\ VisionTypeOK
    /\ policy \in Policies
    /\ serves \in [Urls -> Things]
    /\ turns \in 0 .. MaxTurns
    /\ clean \in [Urls \X MediaLevels -> Things \cup {Absent}]
    /\ pageLevel \in [Pages -> DOMAIN Severity]
    /\ flow \in [Flows -> FlowType]
    /\ torn \subseteq Things

\* Fit to be seen at this level: the detector says so of the whole of t, or
\* could not look at some frames of it, or t is too small to be looked at.
Fit(media, t) == t \in Tiny \/ t \in torn \/ ~ Hides(media, Truth[t])

\* Whatever changes while a request waits, and whatever the caches remember,
\* a picture or clip goes through as it came only to an account whose level
\* shows it, by a verdict on it or on what its address served a moment ago;
\* and a clip goes through unchecked at the mildest level only.
NothingPastItsLevel ==
    \A f \in Flows :
        LET fl == flow[f]
        IN  /\ fl.out = "as is" => \/ fl.mark = "bypass"
                                   \/ fl.mark = "pictures" /\ fl.vouch \notin Clips
                                   \/ Fit(fl.level, fl.vouch)
            /\ fl.out = "unchecked" => fl.level \notin Strict

\* A player asks for a file in several pieces at once, and one judgement
\* serves them all: no clip is sampled through its source twice at a time.
OneJudgementPerClip ==
    \A i, j \in DOMAIN pool :
        pool[i].kind = "remote" /\ pool[j] = pool[i] => i = j

\* What the proxy holds it lets go of, whatever the workers are busy with:
\* also a cover, which waits for its turn without a deadline.
HeldIsAnswered ==
    \A f \in Flows : flow[f].st # "idle" ~> flow[f].st = "idle"
=============================================================================
