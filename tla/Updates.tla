-------------------------------- MODULE Updates --------------------------------
(***************************************************************************)
(* System updates: what is on the disk for the next restart, and kosherd's    *)
(* note of it, auto-update.json, which the mark in everybody's panel follows.  *)
(*                                                                           *)
(* The calls that run bootc are answered on threads of their own, and each    *)
(* download has one more.  Here a person makes one such call at a time, the   *)
(* timer's run may come at any moment between, downloads go on after the call  *)
(* that started them.  One step is one                                        *)
(* outside command, with what the thread does after it: bootc and ostree hold   *)
(* one lock meanwhile, and kosherd refuses to run bootc while it knows of a     *)
(* download, but a download starts in a step of its own.                     *)
(***************************************************************************)
EXTENDS Naturals, FiniteSets, Sequences, SequencesExt, Lists

CONSTANTS Channels, Trials,    \* image references: channels, test builds
          First,           \* what is installed
          MaxPush, MaxFaults, MaxBoots   \* bounds: new builds pushed, commands
                               \* that fail, restarts of kosherd or the machine

Refs == Channels \cup Trials
Images == [ref: Refs, no: 1..(MaxPush + 1)]
Deployments == [img: Images, pin: BOOLEAN]
Downloads == {"d1", "d2"}      \* bound: two at a time
Threads == {"person", "timer"} \cup Downloads

ASSUME RefAssumption == /\ IsFiniteSet(Refs) /\ Channels \cap Trials = {}
                        /\ "" \notin Refs /\ First \in Channels
ASSUME BoundAssumption == {MaxPush, MaxFaults, MaxBoots} \subseteq Nat

VARIABLES registry,            \* the newest build of each reference
          booted, rest,        \* deployments: running, the others in boot order
          staged, queued,      \* waiting for a restart: an image, a rollback
          file,                \* auto-update.json
          pc, mem,             \* each thread's place, and what it remembers
          current, trying,     \* _update_thread, _trying
          pushes, faults, boots,
          home,                \* history: what ran before the first try
          going,               \* history: what "try done" goes back to
          excused,             \* history: the note was overwritten, or a look
                               \* at what is staged was refused, since the last
          spoilt,              \* history: staged by a failed automatic download
          mixed                \* history: two downloads at once

disk == <<booted, rest, staged, queued>>
bounds == <<pushes, faults, boots>>
history == <<home, going, spoilt, mixed>>
vars == <<registry, booted, rest, staged, queued, file, pc, mem, current, trying, pushes,
          faults, boots, home, going, excused, spoilt, mixed>>

Optional(S) == {{}} \cup {{s} : s \in S}
Files == [note: Optional(Images), here: BOOLEAN]   \* here: staged_boot is this boot
NoFile == [note |-> {}, here |-> FALSE]
Idle == [copy |-> NoFile, ref |-> "", how |-> "", seen |-> {}, drop |-> {}, tell |-> FALSE,
         asked |-> {}]         \* history: what was staged when the timer asked
Memory == [copy: Files, ref: Refs \cup {""}, how: {"", "hand", "try", "auto", "back"},
           seen: Optional(Images), drop: SUBSET Images, tell: BOOLEAN, asked: Optional(Images)]

TypeOK == /\ registry \in [Refs -> 1..(MaxPush + 1)]
          /\ booted \in Deployments /\ rest \in Seq(Deployments)
          /\ staged \in Optional(Images) /\ queued \in BOOLEAN
          /\ current \in Optional(Downloads) /\ file \in Files /\ trying \in BOOLEAN
          /\ DOMAIN pc = Threads /\ mem \in [Threads -> Memory]
          /\ pushes \in 0..MaxPush /\ faults \in 0..MaxFaults /\ boots \in 0..MaxBoots
          /\ home \in Optional(Images) /\ going \in Optional(Images)
          /\ spoilt \in Optional(Images) /\ excused \in BOOLEAN /\ mixed \in BOOLEAN

(* A machine just installed: nothing is staged. *)
Init == /\ registry = [r \in Refs |-> 1]
        /\ booted = [img |-> [ref |-> First, no |-> 1], pin |-> FALSE]
        /\ rest = <<>> /\ staged = {} /\ queued = FALSE /\ file = NoFile
        /\ pc = [t \in Threads |-> "idle"] /\ mem = [t \in Threads |-> Idle]
        /\ current = {} /\ trying = FALSE
        /\ pushes = 0 /\ faults = 0 /\ boots = 0
        /\ home = {} /\ going = {} /\ spoilt = {}
        /\ excused = FALSE /\ mixed = FALSE

-------------------------------------------------------------------------------
(* updates.py: what is decided from what. *)

Channel(img) == img.ref \in Channels
OnDisk == {booted} \cup Range(rest)
Kept == {d \in OnDisk : d.pin}
NextBack == IF rest = <<>> THEN {} ELSE {Head(rest).img}   \* bootc's "rollback"
Newest(ref) == [ref |-> ref, no |-> registry[ref]]

(* The reference a check or an upgrade follows. *)
Following == IF staged # {} THEN (CHOOSE s \in staged : TRUE).ref ELSE booted.img.ref

(* reconcile, after_check: the newest image against what a look showed running, *)
(* staged, and next to go back to.                                           *)
Forgetful(new, ready, back) ==
  IF booted.img = new THEN "none" ELSE IF new \in ready THEN "staged" ELSE "download"
AfterCheck(new, ready, back) ==
  IF booted.img = new THEN "none" ELSE IF new \in ready THEN "staged"
  ELSE IF new \in back THEN "left" ELSE "download"

(* record_staged, clear_staged *)
BothNoted == [note |-> staged \cup file.note, here |-> staged # {}]
Recorded == [note |-> staged, here |-> staged # {}]

(* staged_to_discard, from what was staged before the download. *)
KeepWhatCame(before) == {}
ToDiscard(before) == staged \ before

(* _stale_trials, without what is staged or with it. *)
Stale(keep) == {d.img : d \in {e \in Range(rest) : ~e.pin /\ ~Channel(e.img)}}
                 \cup (IF keep THEN {} ELSE {s \in staged : ~Channel(s)})

(* trial_plan: keep the running deployment, unless one is kept already. *)
KeepNothing == FALSE
KeepRunning == Kept = {}

(* What a try runs: an upgrade of what is running or staged, or a switch. *)
TrialArgv(ref) == IF ref = booted.img.ref \/ \E s \in staged : s.ref = ref THEN "" ELSE ref

(* return_plan: is the kept deployment another than the running one? *)
Back == ~booted.pin

-------------------------------------------------------------------------------
(* Threads. *)

Updating(t) == t \notin current /\ \E d \in current : pc[d] # "idle"  \* _updating
Locked == \E d \in Downloads : pc[d] = "pull"

Bootc == {"look", "check", "before", "channel", "trial", "kept", "next", "return", "back",
          "sync", "judge"}        \* places where _bootc is called
Ostree == {"pin", "drop", "unpin", "discard"}

Go(t, place, m) == pc' = [pc EXCEPT ![t] = place] /\ mem' = [mem EXCEPT ![t] = m]
End(t) == Go(t, "idle", Idle)

(* save_state of what was loaded before other commands ran. *)
SaveCopy(t) == file' = mem[t].copy /\ excused' = (excused \/ file' # file)

(* The command at `place` is not refused, gets the lock and works ... *)
Runs(t, place) == pc[t] = place /\ ~Locked /\ (place \in Bootc => ~Updating(t))

(* ... or it is refused, waits for the lock until it is given up, or fails.     *)
(* That ends the call; the timer's run notes it (_auto_failed), a look for the  *)
(* note is given up.                                                         *)
Fails(t) ==
  /\ pc[t] \in Bootc \cup Ostree
  /\ \/ ((pc[t] \in Bootc /\ Updating(t)) \/ Locked) /\ UNCHANGED faults
     \/ faults < MaxFaults /\ faults' = faults + 1
  /\ End(t)
  /\ IF pc[t] \in {"look", "check", "before", "judge", "discard"} THEN SaveCopy(t)
     ELSE UNCHANGED file /\ excused' = (excused \/ pc[t] = "sync")
  /\ spoilt' = IF pc[t] \in {"judge", "discard"} THEN {} ELSE spoilt
  /\ UNCHANGED <<disk, registry, current, trying, pushes, boots, home, going, mixed>>

(* run_upgrade: a thread of its own, for an upgrade ("") or a switch. *)
Download(t, ref, how, before) == \E d \in Downloads :
  /\ pc[d] = "idle" /\ (d = "d2" => pc["d1"] # "idle")
  /\ pc' = [pc EXCEPT ![d] = IF Locked THEN "wait" ELSE "pull", ![t] = "idle"]
  /\ mem' = [mem EXCEPT ![d] = [Idle EXCEPT !.ref = ref, !.how = how, !.seen = before,
                                         !.asked = mem[t].asked],
                        ![t] = Idle]
  /\ current' = {d}
  /\ mixed' = \E o \in Downloads : pc[o] # "idle"
  /\ going' = {}
  /\ UNCHANGED <<disk, registry, bounds, spoilt>>

-------------------------------------------------------------------------------
(* A download. *)

Pull(d) == /\ pc[d] = "wait" /\ ~Locked
           /\ Go(d, "pull", mem[d])
           /\ UNCHANGED <<disk, registry, file, current, trying, bounds, excused, history>>

(* bootc follows the reference it was switched to, or the one it is on, stages *)
(* its newest image unless it has it, and gives up a queued rollback for it.   *)
Stage(d) == LET img == Newest(IF mem[d].ref = "" THEN Following ELSE mem[d].ref)
            IN IF staged = {img} \/ (staged = {} /\ booted.img = img)
               THEN UNCHANGED <<staged, queued>>
               ELSE staged' = {img} /\ queued' = FALSE

(* _on_update_finished takes _trying; _auto_finished does not look at it. *)
Flag(d) == mem[d].how # "auto" /\ trying
TakeFlag(d) == trying' = (trying /\ mem[d].how = "auto")

Pulled(d) == /\ pc[d] = "pull" /\ Stage(d)
             /\ TakeFlag(d)
             /\ Go(d, "sync", [mem[d] EXCEPT !.tell = Flag(d) \/ mem[d].how = "auto",
                                             !.ref = "", !.seen = {}, !.asked = {}])
             /\ UNCHANGED <<booted, rest, registry, file, current, bounds, excused, history>>

(* A pull that fails, before bootc staged anything or after.  An automatic one *)
(* reads the note, and looks at what it left.                                *)
PullFails(d) ==
  /\ pc[d] = "pull"
  /\ faults < MaxFaults /\ faults' = faults + 1
  /\ TakeFlag(d)
  /\ \/ UNCHANGED <<staged, queued, excused, spoilt>>
     \/ /\ Stage(d)
        /\ excused' = (excused \/ staged' # staged)
        /\ spoilt' = IF mem[d].how = "auto" /\ staged' # staged THEN staged' ELSE spoilt
  /\ IF mem[d].how = "auto" THEN Go(d, "judge", [mem[d] EXCEPT !.copy = file, !.asked = {}]) ELSE End(d)
  /\ UNCHANGED <<booted, rest, registry, file, current, pushes, boots, home, going, mixed>>

Judge(d) == /\ Runs(d, "judge")
            /\ IF ToDiscard(mem[d].seen) = {} THEN End(d) /\ SaveCopy(d)
               ELSE /\ Go(d, "discard", [mem[d] EXCEPT !.drop = ToDiscard(mem[d].seen)])
                    /\ UNCHANGED <<file, excused>>
            /\ spoilt' = spoilt \cap staged
            /\ UNCHANGED <<disk, registry, current, trying, bounds, home, going, mixed>>

Discard(d) == /\ Runs(d, "discard")
              /\ staged' = staged \ mem[d].drop /\ spoilt' = spoilt \cap staged'
              /\ End(d) /\ SaveCopy(d)
              /\ UNCHANGED <<booted, rest, queued, registry, current, trying, bounds,
                             home, going, mixed>>

(* _sync_pending: note what is staged, and tell the sessions. *)
Sync(t) == /\ Runs(t, "sync")
           /\ file' = Recorded
           /\ excused' = FALSE
           /\ End(t)
           /\ UNCHANGED <<disk, registry, current, trying, bounds, history>>

-------------------------------------------------------------------------------
(* The timer's run, RunAutoUpdate. *)

Same == UNCHANGED <<disk, registry, current, trying, bounds, history>>
Timer(place, next, m) == Runs("timer", place) /\ Go("timer", next, m) /\ UNCHANGED <<file, excused>>

(* The note is read first; then power and network are asked about. *)
AutoLoad == /\ pc["timer"] = "idle"
            /\ Go("timer", "look", [Idle EXCEPT !.copy = file])
            /\ UNCHANGED <<file, excused>> /\ Same

(* What is staged, and what is next to go back to; nothing while a download is  *)
(* under way, or a deployment is kept.                                       *)
AutoLook == /\ IF Kept # {} THEN Timer("look", "idle", Idle)
               ELSE Timer("look", "check",
                          [mem["timer"] EXCEPT !.seen = staged, !.ref = Following,
                                               !.drop = NextBack])
            /\ Same
AutoSkip == /\ pc["timer"] = "look" /\ Updating("timer") /\ End("timer")
            /\ UNCHANGED <<file, excused>> /\ Same

(* bootc's and the registry's answer, judged; one that asks for no download is *)
(* saved.                                                                    *)
AutoCheck ==
  LET m == mem["timer"]
      what == AfterCheck(Newest(m.ref), m.seen, m.drop)
  IN /\ Runs("timer", "check")
     /\ CASE what = "download" ->
               /\ Go("timer", "before", [Idle EXCEPT !.copy = m.copy, !.asked = m.seen])
               /\ UNCHANGED <<file, excused>>
          [] what = "staged" -> Go("timer", "sync", [Idle EXCEPT !.tell = TRUE]) /\ SaveCopy("timer")
          [] OTHER -> End("timer") /\ SaveCopy("timer")
     /\ Same

(* What is staged before the download, and its start. *)
AutoBefore == /\ Runs("timer", "before")
              /\ Download("timer", "", "auto", staged)
              /\ SaveCopy("timer")
              /\ UNCHANGED <<trying, home>>

-------------------------------------------------------------------------------
(* A person's calls. *)

Person(place, next, m) == /\ Runs("person", place) /\ Go("person", next, m)
                          /\ UNCHANGED <<registry, file, current, trying, bounds,
                                         excused, spoilt, mixed>>
Starts(next, m) == /\ pc["person"] = "idle"
                   /\ Go("person", next, m)
                   /\ going' = {}
                   /\ UNCHANGED <<disk, registry, file, current, trying, bounds,
                                  excused, home, spoilt, mixed>>

(* ApplyUpdate on the main loop: whatever the status says, the update is started. *)
ApplyUpdate == ~Updating("person") /\ Starts("start", [Idle EXCEPT !.how = "hand"])

SetChannel == \E ref \in Channels :
  ~Updating("person") /\ Starts("channel", [Idle EXCEPT !.ref = ref])
ChannelLook == LET ref == mem["person"].ref
               IN /\ IF booted.img.ref = ref THEN Person("channel", "idle", Idle)
                     ELSE Person("channel", "start", [Idle EXCEPT !.ref = ref, !.how = "hand"])
                  /\ UNCHANGED <<disk, home, going>>

(* TryImage: keep what is running, remove the test builds before, switch. *)
TryImage == \E ref \in Trials :
  ~Updating("person") /\ Starts("trial", [Idle EXCEPT !.ref = ref])

(* What follows once the deployments in m.drop are gone. *)
Onward(m) == CASE m.drop # {} -> "drop"
               [] m.drop = {} /\ m.how = "try" -> "start"
               [] m.drop = {} /\ m.how = "back" -> "next"
               [] OTHER -> "unpin"

TrialLook == LET m == [Idle EXCEPT !.ref = TrialArgv(mem["person"].ref), !.how = "try",
                                   !.drop = Stale(TRUE)]
             IN /\ Person("trial", IF KeepRunning THEN "pin" ELSE Onward(m), m)
                /\ UNCHANGED <<disk, home, going>>
Pin == /\ Person("pin", Onward(mem["person"]), mem["person"])
       /\ booted' = [booted EXCEPT !.pin = TRUE]
       /\ UNCHANGED <<rest, staged, queued, home, going>>

(* _undeploy: one of the deployments after the other, if still there. *)
Drop == LET m == mem["person"]
            left == m.drop \cap ({d.img : d \in {e \in Range(rest) : ~e.pin}} \cup staged)
        IN /\ IF left = {}
              THEN /\ Person("drop", Onward([m EXCEPT !.drop = {}]), [m EXCEPT !.drop = {}])
                   /\ UNCHANGED disk
              ELSE \E img \in left :
                     LET n == [m EXCEPT !.drop = left \ {img}]
                     IN /\ Person("drop", Onward(n), n)
                        /\ staged' = staged \ {img}
                        /\ rest' = Only(rest, {d \in OnDisk : d.img # img \/ d.pin})
                        /\ UNCHANGED <<booted, queued>>
           /\ UNCHANGED <<home, going>>

(* The download of ApplyUpdate, SetChannel and TryImage. *)
PersonStart == LET m == mem["person"]
               IN /\ pc["person"] = "start"
                  /\ Download("person", m.ref, m.how, {})
                  /\ UNCHANGED <<file, excused>>
                  /\ trying' = (trying \/ m.how = "try")
                  /\ home' = IF m.how # "try" \/ home # {} THEN home
                             ELSE IF Kept = {} THEN {booted.img} ELSE {d.img : d \in Kept}

(* bootc rollback discards what is staged.  What a second one does to a queued *)
(* rollback kosherd does not say: both are allowed.                          *)
RollBack == /\ rest # <<>> /\ staged' = {}
            /\ queued' \in IF queued THEN BOOLEAN ELSE {TRUE}
            /\ UNCHANGED <<booted, rest>>

(* ReturnToKept: remove the builds in between, roll back, stop keeping. *)
ReturnToKept == Starts("kept", Idle)
KeptLook == LET m == [Idle EXCEPT !.how = IF Back THEN "back" ELSE "hand", !.drop = Stale(Back),
                                  !.tell = ~queued]
            IN /\ IF Kept = {} THEN Person("kept", "idle", Idle)
                  ELSE Person("kept", Onward(m), m)
               /\ UNCHANGED <<disk, home, going>>
NextLook == /\ IF rest # <<>> /\ Head(rest).pin
               THEN Person("next", "return", mem["person"]) ELSE Person("next", "idle", Idle)
            /\ UNCHANGED <<disk, home, going>>
ReturnBack == /\ Person("return", "unpin", mem["person"])
              /\ RollBack
              /\ UNCHANGED <<home, going>>
Unpin == /\ Person("unpin", "sync", Idle)
         /\ booted' = [booted EXCEPT !.pin = FALSE]
         /\ rest' = [i \in DOMAIN rest |-> [rest[i] EXCEPT !.pin = FALSE]]
         /\ UNCHANGED <<staged, queued>>
         /\ home' = {}
         /\ going' = IF mem["person"].tell /\ staged = {} /\ \A d \in Downloads : pc[d] = "idle"
                     THEN home ELSE {}

Rollback == Starts("back", Idle)
GoBack == /\ Person("back", "sync", Idle)
          /\ RollBack
          /\ UNCHANGED <<home, going>>

-------------------------------------------------------------------------------
(* The main loop, the registry, restarts. *)

(* PendingUpdate: a note of something that is no longer staged is taken away. *)
PendingUpdate == /\ file.here /\ staged = {}
                 /\ file' = [file EXCEPT !.note = {}, !.here = FALSE]
                 /\ UNCHANGED <<disk, registry, pc, mem, current, trying, bounds,
                                excused, history>>

Push == \E ref \in Refs :
  /\ pushes < MaxPush /\ pushes' = pushes + 1
  /\ registry' = [registry EXCEPT ![ref] = @ + 1]
  /\ UNCHANGED <<disk, file, pc, mem, current, trying, faults, boots, excused,
                 history>>

(* kosherd starts again, or the machine: its threads and the commands they run  *)
(* are gone, and it looks at what is staged (_sync_pending), if that works.    *)
Anew == /\ boots < MaxBoots /\ boots' = boots + 1
        /\ pc' = [t \in Threads |-> "idle"] /\ mem' = [t \in Threads |-> Idle]
        /\ current' = {} /\ trying' = FALSE
        /\ spoilt' = {} /\ mixed' = FALSE
        /\ UNCHANGED <<registry, pushes, home>>
Look(before) == \/ file' = [note |-> staged', here |-> staged' # {}]
                   /\ excused' = FALSE /\ UNCHANGED faults
                \/ file' = before /\ excused' = TRUE
                   /\ faults < MaxFaults /\ faults' = faults + 1

Crash == Anew /\ UNCHANGED <<disk, going>> /\ Look(file)

(* A staged image runs now, or the one a rollback queued; of the others the one *)
(* that ran before stays, and what is kept.                                  *)
Reboot == /\ Anew /\ staged' = {} /\ queued' = FALSE /\ going' = {}
          /\ Look([file EXCEPT !.here = FALSE])
          /\ IF staged # {}
             THEN /\ booted' \in {[img |-> s, pin |-> FALSE] : s \in staged}
                  /\ rest' = <<booted>> \o Only(rest, Kept)
             ELSE IF queued /\ rest # <<>>
             THEN booted' = Head(rest) /\ rest' = <<booted>> \o Tail(rest)
             ELSE UNCHANGED <<booted, rest>>

Next == \/ \E t \in Threads : Fails(t) \/ Sync(t)
        \/ \E d \in Downloads : Pull(d) \/ Pulled(d) \/ PullFails(d) \/ Judge(d) \/ Discard(d)
        \/ AutoLoad \/ AutoLook \/ AutoSkip \/ AutoCheck \/ AutoBefore
        \/ ApplyUpdate \/ SetChannel \/ ChannelLook \/ TryImage \/ TrialLook \/ Pin \/ Drop
        \/ PersonStart \/ ReturnToKept \/ KeptLook \/ NextLook \/ ReturnBack \/ Unpin
        \/ Rollback \/ GoBack \/ PendingUpdate \/ Push \/ Crash \/ Reboot

Spec == Init /\ [][Next]_vars

-------------------------------------------------------------------------------
(* Properties. *)

Quiet == \A t \in Threads : pc[t] = "idle"

(* What ran before the first test build stays on the disk, however many builds  *)
(* are tried, calls fail or are cut short, and channels switched, until "try   *)
(* done" (TryImage).                                                          *)
HomeStays == home # {} => \E d \in OnDisk : d.img \in home

(* After "try done" the next restart runs what was kept, unless somebody calls, *)
(* or a download starts, in between; or a rollback was queued, or a channel's   *)
(* image staged, before.                                                      *)
ReturnGoesHome == Reboot /\ going # {} => booted'.img \in going

(* A failed automatic download leaves nothing it staged for the next restart,   *)
(* unless looking or removing fails as well (_auto_finished).                  *)
FailureStagesNothing == Quiet => staged \cap spoilt = {}

(* The timer never fetches again the version the machine went back from, unless  *)
(* what was staged when it asked is not staged any more when bootc starts: the *)
(* download then follows another reference than the one it asked about.        *)
LeftIsLeft ==
  [][\A d \in Downloads : pc[d] = "pull" /\ mem[d].how = "auto" /\ staged = mem[d].asked
                              /\ staged' # staged
       => staged' \cap NextBack = {}]_vars

(* Whatever comes together: once all is done, the note names what is staged,    *)
(* unless a thread wrote back what it had read before, or its last look failed. *)
NoteKeptUndisturbed == Quiet /\ ~excused /\ staged # {} => file.here /\ file.note = staged

(* A build somebody tried is announced when it is there, and what was fetched   *)
(* by hand is not, while downloads come one at a time (_trying).              *)
TriedIsTold ==
  [][\A d \in Downloads : pc[d] = "pull" /\ pc'[d] = "sync" /\ ~mixed
       => (mem'[d].tell <=> mem[d].how \in {"try", "auto"})]_vars

(* What was kept stays, and going back goes there.                             *)
HomeIsKept == [][HomeStays' /\ ReturnGoesHome]_vars

(* Once all is done, what is staged was wanted, and the note says so.          *)
QuietInStep == FailureStagesNothing /\ NoteKeptUndisturbed

(* A download fetches what may be fetched, and is told of as what it was.      *)
DownloadsBehave == LeftIsLeft /\ TriedIsTold
===============================================================================
