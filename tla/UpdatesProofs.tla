----------------------------- MODULE UpdatesProofs -----------------------------
(***************************************************************************)
(* Proofs about Updates, for any channels and test builds, any number of     *)
(* builds pushed, of commands that fail and of restarts: what ran before the *)
(* first test build stays on the disk and "try done" goes back to it, a       *)
(* failed automatic download leaves nothing for the next restart, the note    *)
(* names what is staged, and a download fetches only what may be fetched.    *)
(***************************************************************************)
EXTENDS Updates, ListsProofs

-------------------------------------------------------------------------------
(* The invariant. *)

(* One deployment is kept at most, the disk holds two beside the running one,   *)
(* and what ran before the first try is what is kept.                         *)
Ordered ==
    /\ Len(rest) <= 2
    /\ Len(rest) = 2 => rest[2].pin
    /\ booted.pin => \A i \in DOMAIN rest : ~rest[i].pin
    /\ \A i, j \in DOMAIN rest : rest[i].pin /\ rest[j].pin => i = j
Built == /\ \A d \in OnDisk : d.img.no <= registry[d.img.ref]
         /\ \A s \in staged : s.no <= registry[s.ref]
Pushed == \A ref \in Refs : registry[ref] <= pushes + 1
HomeKept == home # {} => Kept # {} /\ home = {d.img : d \in Kept}

(* What an upgrade follows once S is staged, and that it is not what the        *)
(* machine went back from.  Behind: nothing but what is running is kept.       *)
FollowingOf(S) == IF S # {} THEN (CHOOSE s \in S : TRUE).ref ELSE booted.img.ref
Left(S) == Newest(FollowingOf(S)) \notin NextBack
Behind == \A i \in DOMAIN rest : ~rest[i].pin

(* Where each thread may be, and what it remembers, as the disk is.            *)
PersonAt(p, m) ==
    /\ p \in {"idle", "channel", "start", "trial", "pin", "drop", "kept", "next", "return",
              "unpin", "back", "sync"}
    /\ p = "start" => m.how \in {"hand", "try"}
    /\ p = "pin" => m.how = "try" /\ Kept = {}
    /\ p = "drop" => m.how \in {"try", "back", "hand"}
    /\ p \in {"next", "return"} => m.how = "back"
    /\ p = "unpin" => m.how \in {"back", "hand"}
    /\ p \in {"drop", "start"} /\ m.how = "try" => Kept # {}
    /\ p \in {"drop", "next", "return"} /\ m.how = "back" => ~Behind /\ (m.tell => ~queued)
    /\ p \in {"drop", "unpin"} /\ m.how = "hand" => booted.pin /\ (m.tell => ~queued)
    /\ p = "return" => rest # <<>> /\ rest[1].pin
    /\ p = "unpin" /\ m.how = "back" => /\ rest # <<>> /\ rest[1].pin
                                        /\ m.tell /\ staged = {} => queued
TimerAt(p, m) ==
    /\ p \in {"idle", "look", "check", "before", "sync"}
    /\ p \in {"check", "before"} => Behind
    /\ p = "check" => m.ref = FollowingOf(m.seen) /\ NextBack \subseteq m.drop
    /\ p = "before" => Left(m.asked)
DownloadAt(p, m) ==
    /\ p \in {"idle", "wait", "pull", "sync", "judge", "discard"}
    /\ p \in {"judge", "discard"} => m.how = "auto"
    /\ p = "wait" => m.how \in {"hand", "try"}
    /\ p = "pull" => m.how \in {"hand", "try", "auto"}
    /\ p # "idle" /\ m.how = "auto" => Behind
    /\ p = "pull" /\ m.how = "auto" => m.ref = "" /\ m.seen = staged /\ Left(m.asked)
Placed == /\ PersonAt(pc["person"], mem["person"]) /\ TimerAt(pc["timer"], mem["timer"])
          /\ \A d \in Downloads : DownloadAt(pc[d], mem[d])

(* After "try done" nothing happens, and the next restart goes back.           *)
Bound == IF queued /\ rest # <<>> THEN rest[1].img ELSE booted.img
GoingBack == going # {} => /\ staged = {} /\ \A d \in Downloads : pc[d] = "idle"
                           /\ pc["person"] \in {"idle", "sync"}
                           /\ Bound \in going

(* What a failed download staged is looked for, or about to be discarded.      *)
Spoiling(d) == \/ pc[d] = "judge" /\ spoilt \cap mem[d].seen = {}
               \/ pc[d] = "discard" /\ spoilt \subseteq mem[d].drop
Watched == spoilt # {} => \E d \in Downloads : Spoiling(d)

(* One download at a time has the lock; the flag is that of a try under way.    *)
Tries(d) == pc[d] \in {"wait", "pull"} /\ mem[d].how = "try"
Flagged == /\ \A d, e \in Downloads : pc[d] = "pull" /\ pc[e] = "pull" => d = e
           /\ trying => \E d \in Downloads : Tries(d)
           /\ ~mixed => /\ \A d, e \in Downloads : pc[d] # "idle" /\ pc[e] # "idle" => d = e
                        /\ \A d \in Downloads : Tries(d) => trying

(* The note names what is staged, or somebody is about to look.                *)
Noted == ~excused /\ staged # {} /\ (\A t \in Threads : pc[t] # "sync")
           => file.here /\ file.note = staged

DiskInv == Ordered /\ Built /\ Pushed /\ HomeKept
UpdatesInv == TypeOK /\ DiskInv /\ Placed /\ GoingBack /\ Watched /\ Flagged /\ Noted

-------------------------------------------------------------------------------
(* What the definitions say. *)

(* The bounds are numbers.                                                     *)
LEMMA Bounds == MaxPush \in Nat /\ MaxFaults \in Nat /\ MaxBoots \in Nat
  BY BoundAssumption, Zenon

(* A set with at most one member, and what is left of it.                      *)
LEMMA Optionals ==
  ASSUME NEW S
  PROVE  /\ {} \in Optional(S)
         /\ \A x \in S : {x} \in Optional(S)
         /\ \A s \in Optional(S) : s = {} \/ \E x \in S : s = {x}
         /\ \A s \in Optional(S) : \A T : s \ T \in Optional(S) /\ s \cap T \in Optional(S)
  BY DEF Optional

(* The member of such a set.                                                   *)
LEMMA OneOf ==
  ASSUME NEW S, NEW s \in Optional(S), s # {}
  PROVE  (CHOOSE y \in s : TRUE) \in S /\ s = {CHOOSE y \in s : TRUE}
<1>1. PICK x \in S : s = {x}  BY DEF Optional
<1>2. (CHOOSE y \in s : TRUE) = x  BY <1>1
<1> QED BY <1>1, <1>2

(* What a thread remembers when it remembers nothing.                          *)
LEMMA IdleMemory == NoFile \in Files /\ Idle \in Memory
  BY Optionals DEF NoFile, Files, Idle, Memory

(* A step of one thread leaves the others where they are.                      *)
LEMMA Moved ==
  ASSUME TypeOK, NEW t \in Threads, NEW place, NEW m \in Memory, Go(t, place, m)
  PROVE  /\ DOMAIN pc' = Threads /\ mem' \in [Threads -> Memory]
         /\ pc'[t] = place /\ mem'[t] = m
         /\ \A u \in Threads : u # t => pc'[u] = pc[u] /\ mem'[u] = mem[u]
  BY DEF TypeOK, Go

(* What is on the disk is made of images.                                      *)
LEMMA OnTheDisk ==
  ASSUME TypeOK
  PROVE  /\ OnDisk \subseteq Deployments /\ booted \in OnDisk
         /\ \A i \in DOMAIN rest : rest[i] \in OnDisk /\ rest[i] \in Deployments
         /\ rest # <<>> => Len(rest) > 0 /\ Head(rest) = rest[1] /\ 1 \in DOMAIN rest
         /\ NextBack \subseteq Images /\ Following \in Refs
         /\ \A ref \in Refs : Newest(ref) \in Images
         /\ \A S \in Optional(Images) : FollowingOf(S) \in Refs
<1>1. booted \in Deployments /\ rest \in Seq(Deployments) /\ staged \in Optional(Images)
  BY DEF TypeOK
<1>2. \A i \in DOMAIN rest : rest[i] \in Deployments  BY <1>1
<1>3. \A i \in DOMAIN rest : rest[i] \in OnDisk  BY DEF OnDisk, Range
<1>4. OnDisk \subseteq Deployments /\ booted \in OnDisk  BY <1>1, <1>2 DEF OnDisk, Range
<1>5. rest # <<>> => Len(rest) > 0 /\ Head(rest) = rest[1] /\ 1 \in DOMAIN rest  BY <1>1
<1>6. NextBack \subseteq Images
  <2>1. CASE rest = <<>>  BY <2>1 DEF NextBack
  <2>2. CASE rest # <<>>
    <3>1. Head(rest) \in Deployments  BY <1>2, <1>5, <2>2
    <3> QED BY <2>2, <3>1 DEF NextBack, Deployments
  <2> QED BY <2>1, <2>2
<1>7. Following \in Refs
  <2>1. booted.img \in Images  BY <1>1 DEF Deployments
  <2>2. CASE staged # {}
    <3>1. (CHOOSE s \in staged : TRUE) \in Images  BY <1>1, <2>2, OneOf
    <3> QED BY <2>2, <3>1 DEF Following, Images
  <2> QED BY <2>1, <2>2 DEF Following, Images
<1>8. ASSUME NEW ref \in Refs PROVE Newest(ref) \in Images
  <2>1. registry \in [Refs -> 1..(MaxPush + 1)]  BY DEF TypeOK
  <2>2. registry[ref] \in 1..(MaxPush + 1)  BY <2>1
  <2> QED BY <2>2 DEF Newest, Images
<1>9. ASSUME NEW S \in Optional(Images) PROVE FollowingOf(S) \in Refs
  <2>1. booted.img \in Images  BY <1>1 DEF Deployments
  <2>2. S # {} => (CHOOSE s \in S : TRUE) \in Images  BY OneOf
  <2> QED BY <2>1, <2>2 DEF FollowingOf, Images
<1> QED BY <1>2, <1>3, <1>4, <1>5, <1>6, <1>7, <1>8, <1>9, Zenon

-------------------------------------------------------------------------------
(* Steps that leave the disk alone: the calls of a person, the timer. *)

(* A thread that did not wait to look at what is staged leaves the note true.   *)
LEMMA StillNoted ==
  ASSUME UpdatesInv, NEW t \in Threads, NEW place, NEW m \in Memory,
         Go(t, place, m), pc[t] # "sync", UNCHANGED file, excused => excused',
         staged' # {} => staged' = staged
  PROVE  Noted'
<1>1. \A u \in Threads : pc[u] = "sync" => pc'[u] = "sync"  BY Moved DEF UpdatesInv
<1> QED BY <1>1 DEF UpdatesInv, Noted

(* While the disk is as it was, a place is what it was.                        *)
LEMMA PlacesStay ==
  ASSUME UNCHANGED <<booted, rest, staged, queued, registry>>
  PROVE  /\ Kept' = Kept /\ OnDisk' = OnDisk /\ NextBack' = NextBack /\ (Behind' <=> Behind)
         /\ PersonAt(pc'["person"], mem'["person"]) => PersonAt(pc["person"], mem["person"])'
         /\ TimerAt(pc'["timer"], mem'["timer"]) => TimerAt(pc["timer"], mem["timer"])'
         /\ \A d \in Downloads : DownloadAt(pc'[d], mem'[d]) => DownloadAt(pc[d], mem[d])'
<1>1. /\ UNCHANGED <<booted, rest, staged, queued, registry>>
      /\ Kept' = Kept /\ OnDisk' = OnDisk /\ NextBack' = NextBack /\ (Behind' <=> Behind)
  BY DEF Kept, OnDisk, NextBack, Behind
<1>2. PersonAt(pc'["person"], mem'["person"]) => PersonAt(pc["person"], mem["person"])'
  BY <1>1 DEF PersonAt
<1>3. TimerAt(pc'["timer"], mem'["timer"]) => TimerAt(pc["timer"], mem["timer"])'
  BY <1>1 DEF TimerAt, Left, FollowingOf, Newest
<1>4. ASSUME NEW d \in Downloads, DownloadAt(pc'[d], mem'[d]) PROVE DownloadAt(pc[d], mem[d])'
  <2>1. Left(mem[d].asked)' <=> Left(mem'[d].asked)
    BY <1>1 DEF Left, FollowingOf, Newest
  <2> QED BY <1>1, <1>4, <2>1 DEF DownloadAt
<1> QED BY <1>1, <1>2, <1>3, <1>4

(* A step of a call or of the timer that changes nothing on the disk.          *)
LEMMA CalmStep ==
  ASSUME UpdatesInv,
         UNCHANGED <<disk, registry, current, trying, pushes, boots, home, spoilt, mixed>>,
         going' \in {going, {}}, faults' \in 0 .. MaxFaults, file' \in Files,
         excused' \in BOOLEAN,
         NEW t \in {"person", "timer"}, NEW place, NEW m \in Memory, Go(t, place, m),
         t = "person" => PersonAt(place, m) /\ (going' # {} => place \in {"idle", "sync"}),
         t = "timer" => TimerAt(place, m),
         Noted'
  PROVE  UpdatesInv'
<1>1. /\ DOMAIN pc' = Threads /\ mem' \in [Threads -> Memory]
      /\ pc'[t] = place /\ mem'[t] = m
      /\ \A u \in Threads : u # t => pc'[u] = pc[u] /\ mem'[u] = mem[u]
  <2>1. t \in Threads  BY DEF Threads
  <2> QED BY <2>1, Moved DEF UpdatesInv
<1>2. /\ UNCHANGED <<booted, rest, staged, queued, registry, home>>
      /\ Kept' = Kept /\ OnDisk' = OnDisk /\ NextBack' = NextBack /\ (Behind' <=> Behind)
  BY DEF disk, Kept, OnDisk, NextBack, Behind
<1>3. TypeOK'
  <2>1. going' \in Optional(Images)
    <3>1. {} \in Optional(Images) /\ going \in Optional(Images)
      BY Optionals, Zenon DEF UpdatesInv, TypeOK
    <3> QED BY <3>1
  <2> QED BY <1>1, <1>2, <2>1 DEF UpdatesInv, TypeOK
<1>4. DiskInv'  BY <1>2 DEF UpdatesInv, DiskInv, Ordered, Built, Pushed, HomeKept
<1>5. \A d \in Downloads : d \in Threads /\ pc'[d] = pc[d] /\ mem'[d] = mem[d]
  BY <1>1 DEF Downloads, Threads
<1>6. Placed'
  <2>1. PersonAt(pc'["person"], mem'["person"])
    BY <1>1, Zenon DEF UpdatesInv, Placed, Threads
  <2>2. TimerAt(pc'["timer"], mem'["timer"])
    BY <1>1, Zenon DEF UpdatesInv, Placed, Threads
  <2>3. \A d \in Downloads : DownloadAt(pc'[d], mem'[d])
    BY <1>5 DEF UpdatesInv, Placed
  <2> QED BY <1>2, <2>1, <2>2, <2>3, PlacesStay DEF Placed
<1>7. GoingBack'
  <2>1. pc'["person"] = IF t = "person" THEN place ELSE pc["person"]  BY <1>1 DEF Threads
  <2> QED BY <1>2, <1>5, <2>1 DEF UpdatesInv, GoingBack, Bound
<1>8. Watched'  BY <1>5 DEF UpdatesInv, Watched, Spoiling
<1>9. Flagged'  BY <1>5 DEF UpdatesInv, Flagged, Tries
<1> QED BY <1>3, <1>4, <1>6, <1>7, <1>8, <1>9 DEF UpdatesInv

(* The calls of a person begin.                                                *)
LEMMA StartsStep ==
  ASSUME UpdatesInv, NEW next, NEW m \in Memory, Starts(next, m), PersonAt(next, m)
  PROVE  UpdatesInv'
<1>1. "person" \in Threads  BY DEF Threads
<1>2. Noted'
  BY <1>1, StillNoted DEF Starts, disk
<1> QED BY <1>2, CalmStep DEF Starts, bounds, UpdatesInv, TypeOK

(* Every call begins where it has nothing to rely on.                          *)
LEMMA CallsBegin ==
  ASSUME UpdatesInv,
         ApplyUpdate \/ SetChannel \/ TryImage \/ ReturnToKept \/ Rollback
  PROVE  UpdatesInv'
<1>1. CASE ApplyUpdate
  <2>1. [Idle EXCEPT !.how = "hand"] \in Memory  BY IdleMemory DEF Memory
  <2>2. PersonAt("start", [Idle EXCEPT !.how = "hand"])  BY DEF PersonAt, Idle
  <2> QED BY <1>1, <2>1, <2>2, StartsStep DEF ApplyUpdate
<1>2. CASE SetChannel
  <2>1. PICK ref \in Channels : Starts("channel", [Idle EXCEPT !.ref = ref])
    BY <1>2 DEF SetChannel
  <2>2. [Idle EXCEPT !.ref = ref] \in Memory  BY IdleMemory DEF Memory, Refs
  <2>3. PersonAt("channel", [Idle EXCEPT !.ref = ref])  BY DEF PersonAt
  <2> QED BY <2>1, <2>2, <2>3, StartsStep
<1>3. CASE TryImage
  <2>1. PICK ref \in Trials : Starts("trial", [Idle EXCEPT !.ref = ref])
    BY <1>3 DEF TryImage
  <2>2. [Idle EXCEPT !.ref = ref] \in Memory  BY IdleMemory DEF Memory, Refs
  <2>3. PersonAt("trial", [Idle EXCEPT !.ref = ref])  BY DEF PersonAt
  <2> QED BY <2>1, <2>2, <2>3, StartsStep
<1>4. CASE ReturnToKept
  <2>1. PersonAt("kept", Idle)  BY DEF PersonAt
  <2> QED BY <1>4, <2>1, IdleMemory, StartsStep DEF ReturnToKept
<1>5. CASE Rollback
  <2>1. PersonAt("back", Idle)  BY DEF PersonAt
  <2> QED BY <1>5, <2>1, IdleMemory, StartsStep DEF Rollback
<1> QED BY <1>1, <1>2, <1>3, <1>4, <1>5

(* A person's call looks at the disk and goes on.                              *)
LEMMA PersonLooks ==
  ASSUME UpdatesInv, NEW place, NEW next, NEW m \in Memory,
         Person(place, next, m), place \notin {"sync", "idle"},
         UNCHANGED <<disk, home, going>>, PersonAt(next, m)
  PROVE  UpdatesInv'
<1>1. pc["person"] = place /\ Go("person", next, m) /\ "person" \in Threads
  BY DEF Person, Runs, Threads
<1>2. Noted'
  BY <1>1, StillNoted DEF Person, disk
<1>3. going = {}  BY <1>1 DEF UpdatesInv, GoingBack
<1> QED BY <1>1, <1>2, <1>3, CalmStep DEF Person, bounds, UpdatesInv, TypeOK

(* What a call does after it looked: the places Onward names.                  *)
LEMMA Onwards ==
  ASSUME NEW m
  PROVE  /\ Onward(m) \in {"drop", "start", "next", "unpin"}
         /\ m.how = "try" => Onward(m) \in {"drop", "start"}
         /\ m.how = "back" => Onward(m) \in {"drop", "next"}
         /\ m.how = "hand" => Onward(m) \in {"drop", "unpin"}
  BY DEF Onward

(* What Stale names are images.                                                *)
LEMMA StaleImages == ASSUME TypeOK, NEW keep PROVE Stale(keep) \in SUBSET Images
<1>1. \A d \in Range(rest) : d.img \in Images
  BY OnTheDisk DEF Range, Deployments
<1>2. staged \subseteq Images  BY DEF TypeOK, Optional
<1> QED BY <1>1, <1>2 DEF Stale

(* The looks of ChannelLook, TrialLook, KeptLook and NextLook.                 *)
LEMMA CallsLook ==
  ASSUME UpdatesInv, ChannelLook \/ TrialLook \/ KeptLook \/ NextLook
  PROVE  UpdatesInv'
<1> DEFINE me == mem["person"]
<1>0. TypeOK /\ me \in Memory /\ PersonAt(pc["person"], me)
  BY DEF UpdatesInv, TypeOK, Placed, Threads
<1>1. PersonAt("idle", Idle)  BY DEF PersonAt
<1>2. CASE ChannelLook
  <2> DEFINE m == [Idle EXCEPT !.ref = me.ref, !.how = "hand"]
  <2>1. m \in Memory  BY <1>0, IdleMemory DEF Memory
  <2>2. PersonAt("start", m)  BY DEF PersonAt, Idle
  <2>3. Person("channel", "idle", Idle) \/ Person("channel", "start", m)
    BY <1>2 DEF ChannelLook
  <2> HIDE DEF m
  <2> QED BY <1>1, <1>2, <2>1, <2>2, <2>3, IdleMemory, PersonLooks DEF ChannelLook
<1>3. CASE TrialLook
  <2> DEFINE m == [Idle EXCEPT !.ref = TrialArgv(me.ref), !.how = "try", !.drop = Stale(TRUE)]
  <2>1. m \in Memory
    <3>1. TrialArgv(me.ref) \in Refs \cup {""}  BY <1>0 DEF TrialArgv, Memory
    <3>2. Stale(TRUE) \in SUBSET Images  BY <1>0, StaleImages
    <3> QED BY <3>1, <3>2, IdleMemory DEF Memory
  <2>2. m.how = "try"  BY DEF Idle
  <2>3. Person("trial", IF KeepRunning THEN "pin" ELSE Onward(m), m)  BY <1>3 DEF TrialLook
  <2> HIDE DEF m
  <2>4. CASE KeepRunning
    <3>1. PersonAt("pin", m)  BY <2>2, <2>4 DEF PersonAt, KeepRunning
    <3>2. Person("trial", "pin", m)  BY <2>3, <2>4
    <3> QED BY <1>3, <2>1, <3>1, <3>2, PersonLooks DEF TrialLook
  <2>5. CASE ~KeepRunning
    <3>1. Onward(m) \in {"drop", "start"}  BY <2>2, Onwards
    <3>2. PersonAt(Onward(m), m)  BY <2>2, <2>5, <3>1 DEF PersonAt, KeepRunning
    <3>3. Person("trial", Onward(m), m)  BY <2>3, <2>5
    <3> QED BY <1>3, <2>1, <3>1, <3>2, <3>3, PersonLooks DEF TrialLook
  <2> QED BY <2>4, <2>5
<1>4. CASE KeptLook
  <2> DEFINE m == [Idle EXCEPT !.how = IF Back THEN "back" ELSE "hand", !.drop = Stale(Back),
                               !.tell = ~queued]
  <2>1. m \in Memory
    <3>1. Stale(Back) \in SUBSET Images  BY <1>0, StaleImages
    <3>2. CASE queued
      <4>1. (~queued) = FALSE  BY <3>2
      <4> QED BY <3>1, <4>1, IdleMemory DEF Memory
    <3>3. CASE ~queued
      <4>1. (~queued) = TRUE  BY <3>3
      <4> QED BY <3>1, <4>1, IdleMemory DEF Memory
    <3> QED BY <3>2, <3>3
  <2>2. m.how = (IF Back THEN "back" ELSE "hand") /\ (m.tell <=> ~queued)  BY DEF Idle
  <2>3. Person("kept", "idle", Idle) \/ (Kept # {} /\ Person("kept", Onward(m), m))
    BY <1>4 DEF KeptLook
  <2> HIDE DEF m
  <2>4. ASSUME Kept # {} PROVE PersonAt(Onward(m), m)
    <3>1. CASE Back
      <4>1. Onward(m) \in {"drop", "next"}  BY <2>2, <3>1, Onwards
      <4>2. ~Behind
        BY <2>4, <3>1 DEF Back, Kept, OnDisk, Behind, Range
      <4> QED BY <2>2, <3>1, <4>1, <4>2 DEF PersonAt
    <3>2. CASE ~Back
      <4>1. Onward(m) \in {"drop", "unpin"}  BY <2>2, <3>2, Onwards
      <4> QED BY <2>2, <3>2, <4>1 DEF PersonAt, Back
    <3> QED BY <3>1, <3>2
  <2> QED BY <1>1, <1>4, <2>1, <2>3, <2>4, IdleMemory, PersonLooks DEF KeptLook
<1>5. CASE NextLook
  <2>1. CASE rest # <<>> /\ Head(rest).pin
    <3>1. Person("next", "return", me)  BY <1>5, <2>1 DEF NextLook
    <3>2. pc["person"] = "next"  BY <3>1 DEF Person, Runs
    <3>3. rest[1].pin  BY <1>0, <2>1, OnTheDisk
    <3>4. PersonAt("return", me)  BY <1>0, <2>1, <3>2, <3>3 DEF PersonAt
    <3> QED BY <1>0, <1>5, <3>1, <3>4, PersonLooks DEF NextLook
  <2>2. CASE ~ (rest # <<>> /\ Head(rest).pin)
    <3>1. Person("next", "idle", Idle)  BY <1>5, <2>2 DEF NextLook
    <3> QED BY <1>1, <1>5, <3>1, IdleMemory, PersonLooks DEF NextLook
  <2> QED BY <2>1, <2>2
<1> QED BY <1>2, <1>3, <1>4, <1>5

(* A thread that ends writes back a note it had read: Noted then excuses it.   *)
LEMMA SavedNote ==
  ASSUME UpdatesInv, NEW t \in Threads, NEW place, NEW m \in Memory, Go(t, place, m),
         pc[t] # "sync" \/ place = "sync", SaveCopy(t),
         staged' # {} => staged' = staged
  PROVE  Noted' /\ file' \in Files /\ excused' \in BOOLEAN
<1>1. \A u \in Threads : pc[u] = "sync" => pc'[u] = "sync"  BY Moved DEF UpdatesInv
<1>2. file' = mem[t].copy /\ (excused' <=> (excused \/ file' # file))
  BY DEF SaveCopy
<1>3. Noted'  BY <1>1, <1>2 DEF UpdatesInv, Noted
<1>4. file' \in Files  BY <1>2 DEF UpdatesInv, TypeOK, Memory
<1>5. excused' \in BOOLEAN  BY DEF SaveCopy
<1> QED BY <1>3, <1>4, <1>5

(* The timer's run up to the download.                                         *)
LEMMA TimerStep ==
  ASSUME UpdatesInv, AutoLoad \/ AutoLook \/ AutoSkip \/ AutoCheck
  PROVE  UpdatesInv'
<1> DEFINE my == mem["timer"]
<1>0. /\ "timer" \in Threads /\ my \in Memory /\ TimerAt(pc["timer"], my)
      /\ faults \in 0 .. MaxFaults /\ file \in Files /\ excused \in BOOLEAN
      /\ staged \in Optional(Images)
  BY DEF UpdatesInv, TypeOK, Placed, Threads
<1>1. TimerAt("idle", Idle) /\ TimerAt("sync", [Idle EXCEPT !.tell = TRUE])  BY DEF TimerAt
<1>2. ASSUME NEW place, NEW m \in Memory, Go("timer", place, m), pc["timer"] # "sync",
             TimerAt(place, m), UNCHANGED <<file, excused>>, Same
      PROVE  UpdatesInv'
  <2>1. Noted'  BY <1>0, <1>2, StillNoted DEF Same, disk
  <2> QED BY <1>0, <1>2, <2>1, CalmStep DEF Same, bounds, history
<1>3. CASE AutoLoad
  <2> DEFINE m == [Idle EXCEPT !.copy = file]
  <2>1. m \in Memory  BY <1>0, IdleMemory DEF Memory
  <2>2. TimerAt("look", m)  BY DEF TimerAt
  <2>3. Go("timer", "look", m)  BY <1>3 DEF AutoLoad
  <2> HIDE DEF m
  <2> QED BY <1>2, <1>3, <2>1, <2>2, <2>3 DEF AutoLoad
<1>4. CASE AutoLook
  <2> DEFINE m == [my EXCEPT !.seen = staged, !.ref = Following, !.drop = NextBack]
  <2>1. pc["timer"] = "look"  BY <1>4 DEF AutoLook, Timer, Runs
  <2>2. CASE Kept # {}
    <3>1. Go("timer", "idle", Idle)  BY <1>4, <2>2 DEF AutoLook, Timer
    <3> QED BY <1>1, <1>2, <1>4, <2>1, <2>2, <3>1, IdleMemory DEF AutoLook, Timer
  <2>3. CASE Kept = {}
    <3>1. Go("timer", "check", m)  BY <1>4, <2>3 DEF AutoLook, Timer
    <3>2. m \in Memory
      <4>1. NextBack \in SUBSET Images /\ Following \in Refs  BY OnTheDisk DEF UpdatesInv
      <4> QED BY <1>0, <4>1 DEF Memory
    <3>3. Behind
      BY <2>3, OnTheDisk DEF UpdatesInv, Behind, Kept
    <3>4. m.ref = FollowingOf(m.seen) /\ m.drop = NextBack
      <4>1. m.ref = Following /\ m.seen = staged /\ m.drop = NextBack  BY <1>0 DEF Memory
      <4> QED BY <4>1 DEF Following, FollowingOf
    <3> HIDE DEF m
    <3>5. TimerAt("check", m)  BY <3>3, <3>4 DEF TimerAt
    <3> QED BY <1>2, <1>4, <2>1, <2>3, <3>1, <3>2, <3>5 DEF AutoLook, Timer
  <2> QED BY <2>2, <2>3
<1>5. CASE AutoSkip
  <2>1. Go("timer", "idle", Idle)  BY <1>5 DEF AutoSkip, End
  <2> QED BY <1>1, <1>2, <1>5, <2>1, IdleMemory DEF AutoSkip
<1>6. CASE AutoCheck
  <2> DEFINE new == Newest(my.ref)
             m == [Idle EXCEPT !.copy = my.copy, !.asked = my.seen]
             told == [Idle EXCEPT !.tell = TRUE]
  <2>1. pc["timer"] = "check"  BY <1>6 DEF AutoCheck, Runs
  <2>2. Same  BY <1>6 DEF AutoCheck
  <2>3. m \in Memory /\ told \in Memory  BY <1>0, IdleMemory DEF Memory
  <2>4. CASE AfterCheck(new, my.seen, my.drop) = "download"
    <3>1. Go("timer", "before", m) /\ UNCHANGED <<file, excused>>  BY <1>6, <2>4 DEF AutoCheck
    <3>2. new \notin my.drop  BY <2>4 DEF AfterCheck
    <3>3. m.asked = my.seen  BY DEF Idle
    <3>4. TimerAt("before", m)  BY <1>0, <2>1, <3>2, <3>3 DEF TimerAt, Left
    <3> HIDE DEF m
    <3> QED BY <1>2, <2>1, <2>2, <2>3, <3>1, <3>4
  <2>5. ASSUME NEW place, NEW k \in Memory, Go("timer", place, k), SaveCopy("timer"),
               TimerAt(place, k)
        PROVE  UpdatesInv'
    <3>1. Noted' /\ file' \in Files /\ excused' \in BOOLEAN
      BY <1>0, <2>1, <2>2, <2>5, SavedNote DEF Same, disk
    <3> QED BY <1>0, <2>2, <2>5, <3>1, CalmStep DEF Same, bounds, history
  <2>6. CASE AfterCheck(new, my.seen, my.drop) = "staged"
    <3>1. Go("timer", "sync", told) /\ SaveCopy("timer")  BY <1>6, <2>6 DEF AutoCheck
    <3> HIDE DEF told
    <3>2. TimerAt("sync", told)  BY <1>1 DEF told
    <3> QED BY <2>3, <2>5, <3>1, <3>2
  <2>7. CASE AfterCheck(new, my.seen, my.drop) \notin {"download", "staged"}
    <3>1. Go("timer", "idle", Idle) /\ SaveCopy("timer")  BY <1>6, <2>7 DEF AutoCheck, End
    <3> QED BY <1>1, <2>5, <3>1, IdleMemory
  <2> QED BY <2>4, <2>6, <2>7
<1> QED BY <1>3, <1>4, <1>5, <1>6

(* What _sync_pending notes.                                                   *)
LEMMA RecordedFile == ASSUME TypeOK PROVE Recorded \in Files
<1>1. staged \in Optional(Images)  BY DEF TypeOK
<1>2. CASE staged = {}
  <2>1. (staged # {}) = FALSE  BY <1>2
  <2> QED BY <1>1, <2>1 DEF Recorded, Files
<1>3. CASE staged # {}
  <2>1. (staged # {}) = TRUE  BY <1>3
  <2> QED BY <1>1, <2>1 DEF Recorded, Files
<1> QED BY <1>2, <1>3

(* It names what is staged.                                                    *)
LEMMA RecordedNames == staged # {} => Recorded.here /\ Recorded.note = staged
<1>1. Recorded.here = (staged # {}) /\ Recorded.note = staged  BY Zenon DEF Recorded
<1> QED BY <1>1

(* A call, or the timer's run, looks at what is staged and notes it.           *)
LEMMA CallSyncs ==
  ASSUME UpdatesInv, NEW t \in {"person", "timer"}, Sync(t)
  PROVE  UpdatesInv'
<1>1. t \in Threads /\ Go(t, "idle", Idle) /\ file' = Recorded /\ excused' = FALSE
  BY DEF Threads, Sync, End
<1>2. file' \in Files
  <2>1. Recorded \in Files  BY RecordedFile DEF UpdatesInv
  <2> QED BY <1>1, <2>1
<1>3. Noted'
  <2>1. staged' = staged  BY DEF Sync, disk
  <2>2. staged # {} => file'.here /\ file'.note = staged  BY <1>1, RecordedNames
  <2> QED BY <2>1, <2>2 DEF Noted
<1>4. PersonAt("idle", Idle) /\ TimerAt("idle", Idle)  BY DEF PersonAt, TimerAt
<1> QED BY <1>1, <1>2, <1>3, <1>4, IdleMemory, CalmStep
        DEF Sync, bounds, history, UpdatesInv, TypeOK

(* A call, or the timer's run, that fails.                                     *)
LEMMA CallFails ==
  ASSUME UpdatesInv, NEW t \in {"person", "timer"}, Fails(t)
  PROVE  UpdatesInv'
<1>1. t \in Threads /\ Go(t, "idle", Idle)  BY DEF Threads, Fails, End
<1>2. pc[t] \notin {"judge", "discard"}
  BY DEF UpdatesInv, Placed, PersonAt, TimerAt
<1>3. spoilt' = spoilt /\ faults' \in 0 .. MaxFaults
  BY <1>2, Bounds DEF Fails, UpdatesInv, TypeOK
<1>4. Noted' /\ file' \in Files /\ excused' \in BOOLEAN
  <2>1. CASE pc[t] \in {"look", "check", "before"}
    <3>1. SaveCopy(t)  BY <2>1 DEF Fails
    <3> QED BY <1>1, <2>1, <3>1, IdleMemory, SavedNote DEF Fails, disk
  <2>2. CASE pc[t] \notin {"look", "check", "before"}
    <3>1. UNCHANGED file /\ excused' = (excused \/ pc[t] = "sync")
      BY <1>2, <2>2 DEF Fails
    <3>2. file' \in Files /\ excused' \in BOOLEAN
      BY <3>1 DEF UpdatesInv, TypeOK
    <3>3. CASE pc[t] = "sync"  BY <3>1, <3>2, <3>3 DEF Noted
    <3>4. CASE pc[t] # "sync"
      BY <1>1, <3>1, <3>2, <3>4, IdleMemory, StillNoted DEF Fails, disk
    <3> QED BY <3>3, <3>4
  <2> QED BY <2>1, <2>2
<1>5. PersonAt("idle", Idle) /\ TimerAt("idle", Idle)  BY DEF PersonAt, TimerAt
<1> QED BY <1>1, <1>3, <1>4, <1>5, IdleMemory, CalmStep DEF Fails

-------------------------------------------------------------------------------
(* Downloads begin, go on and end. *)

(* A download begins: a thread of its own.                                     *)
LEMMA DownloadStarts ==
  ASSUME UpdatesInv, NEW t \in {"person", "timer"}, NEW ref \in Refs \cup {""},
         NEW how \in {"hand", "try", "auto"}, NEW before \in Optional(Images),
         Download(t, ref, how, before), pc[t] # "sync",
         file' \in Files, excused' \in BOOLEAN, excused => excused', file' = file \/ excused',
         trying' = (trying \/ how = "try"), home' \in Optional(Images), HomeKept',
         how = "auto" => /\ ref = "" /\ Behind /\ before = staged /\ ~Locked
                         /\ Left(mem[t].asked)
  PROVE  UpdatesInv'
<1>1. PICK d \in Downloads :
         /\ pc[d] = "idle"
         /\ pc' = [pc EXCEPT ![d] = IF Locked THEN "wait" ELSE "pull", ![t] = "idle"]
         /\ mem' = [mem EXCEPT ![d] = [Idle EXCEPT !.ref = ref, !.how = how, !.seen = before,
                                                  !.asked = mem[t].asked],
                               ![t] = Idle]
         /\ current' = {d}
         /\ mixed' = \E o \in Downloads : pc[o] # "idle"
         /\ going' = {}
         /\ UNCHANGED <<disk, registry, bounds, spoilt>>
  BY DEF Download
<1> DEFINE m == [Idle EXCEPT !.ref = ref, !.how = how, !.seen = before, !.asked = mem[t].asked]
           place == IF Locked THEN "wait" ELSE "pull"
<1>2. t \in Threads /\ d \in Threads /\ t # d /\ DOMAIN pc = Threads /\ mem \in [Threads -> Memory]
  BY DEF Threads, Downloads, UpdatesInv, TypeOK
<1>3. m \in Memory
  <2>1. mem[t].asked \in Optional(Images)  BY <1>2 DEF Memory
  <2> QED BY <2>1, IdleMemory DEF Memory
<1>4. /\ m.ref = ref /\ m.how = how /\ m.seen = before /\ m.asked = mem[t].asked
  BY DEF Idle
<1> HIDE DEF m
<1>5. /\ DOMAIN pc' = Threads /\ mem' \in [Threads -> Memory]
      /\ pc'[d] = place /\ pc'[t] = "idle" /\ mem'[d] = m /\ mem'[t] = Idle
      /\ \A u \in Threads : u \notin {t, d} => pc'[u] = pc[u] /\ mem'[u] = mem[u]
  BY <1>1, <1>2, <1>3, IdleMemory DEF m
<1>6. /\ UNCHANGED <<booted, rest, staged, queued, registry>>
      /\ Kept' = Kept /\ OnDisk' = OnDisk /\ NextBack' = NextBack /\ (Behind' <=> Behind)
  BY <1>1 DEF disk, Kept, OnDisk, NextBack, Behind
<1>8. TypeOK'
  <2>1. current' \in Optional(Downloads) /\ going' \in Optional(Images)
    BY <1>1, Optionals
  <2>2. mixed' \in BOOLEAN /\ trying' \in BOOLEAN  BY <1>1
  <2>3. spoilt' = spoilt /\ pushes' = pushes /\ faults' = faults /\ boots' = boots
    BY <1>1 DEF bounds
  <2> QED BY <1>5, <1>6, <2>1, <2>2, <2>3 DEF UpdatesInv, TypeOK
<1>9. DiskInv'
  <2>1. pushes' = pushes  BY <1>1 DEF bounds
  <2> QED BY <1>6, <2>1 DEF UpdatesInv, DiskInv, Ordered, Built, Pushed
<1>10. \A e \in Downloads : e \in Threads /\ e # t /\
          (e # d => pc'[e] = pc[e] /\ mem'[e] = mem[e])
  BY <1>5 DEF Downloads, Threads
<1>11. Placed'
  <2>1. PersonAt(pc'["person"], mem'["person"])
    <3>1. CASE t = "person"  BY <1>5, <3>1 DEF PersonAt
    <3>2. CASE t # "person"
      <4>1. "person" \in Threads /\ "person" # d  BY DEF Threads, Downloads
      <4> QED BY <1>5, <3>2, <4>1, Zenon DEF UpdatesInv, Placed
    <3> QED BY <3>1, <3>2
  <2>2. TimerAt(pc'["timer"], mem'["timer"])
    <3>1. CASE t = "timer"  BY <1>5, <3>1 DEF TimerAt
    <3>2. CASE t # "timer"
      <4>1. "timer" \in Threads /\ "timer" # d  BY DEF Threads, Downloads
      <4> QED BY <1>5, <3>2, <4>1, Zenon DEF UpdatesInv, Placed
    <3> QED BY <3>1, <3>2
  <2>3. ASSUME NEW e \in Downloads PROVE DownloadAt(pc'[e], mem'[e])
    <3>1. CASE e = d
      <4>1. DownloadAt(place, m)  BY <1>4 DEF DownloadAt
      <4> QED BY <1>5, <3>1, <4>1
    <3>2. CASE e # d  BY <1>10, <3>2, Zenon DEF UpdatesInv, Placed
    <3> QED BY <3>1, <3>2
  <2> QED BY <1>6, <2>1, <2>2, <2>3, PlacesStay DEF Placed
<1>12. GoingBack'  BY <1>1 DEF GoingBack
<1>13. Watched'  BY <1>1, <1>10 DEF UpdatesInv, Watched, Spoiling
<1>14. Flagged'
  <2>1. \A e \in Downloads : e # d => (Tries(e)' <=> Tries(e))  BY <1>10 DEF Tries
  <2>2. Tries(d)' <=> how = "try"  BY <1>4, <1>5 DEF Tries
  <2>3. ~Tries(d)  BY <1>1 DEF Tries
  <2>4. \A e, f \in Downloads : pc'[e] = "pull" /\ pc'[f] = "pull" => e = f
    <3>1. \A e, f \in Downloads : pc[e] = "pull" /\ pc[f] = "pull" => e = f
      BY DEF UpdatesInv, Flagged
    <3>2. pc'[d] = "pull" => \A e \in Downloads : pc[e] # "pull"
      <4>1. pc'[d] = IF Locked THEN "wait" ELSE "pull"  BY <1>5
      <4> QED BY <4>1 DEF Locked
    <3> QED BY <1>10, <3>1, <3>2
  <2>5. trying' => \E e \in Downloads : Tries(e)'
    BY <2>1, <2>2, <2>3, Zenon DEF UpdatesInv, Flagged
  <2>6. ~mixed' => \A e \in Downloads : e # d => pc'[e] = "idle" /\ ~Tries(e)'
    BY <1>1, <1>10 DEF Tries
  <2>7. ~mixed' => \A e, f \in Downloads : pc'[e] # "idle" /\ pc'[f] # "idle" => e = f
    BY <2>6
  <2>8. ~mixed' => \A e \in Downloads : Tries(e)' => trying'
    BY <2>2, <2>6, Zenon
  <2> QED BY <2>4, <2>5, <2>7, <2>8 DEF Flagged
<1>15. Noted'
  <2>1. \A u \in Threads : pc[u] = "sync" => pc'[u] = "sync"  BY <1>1, <1>5
  <2> QED BY <1>6, <2>1 DEF UpdatesInv, Noted
<1> QED BY <1>8, <1>9, <1>11, <1>12, <1>13, <1>14, <1>15 DEF UpdatesInv

(* One deployment is kept at most.                                             *)
LEMMA OneKept ==
  ASSUME TypeOK, Ordered, Kept # {}
  PROVE  {d.img : d \in Kept} \in Optional(Images)
<1>1. PICK k \in OnDisk : k.pin  BY DEF Kept
<1>2. Kept = {k}
  <2>1. CASE booted.pin
    <3>1. \A d \in Range(rest) : ~d.pin  BY <2>1 DEF Ordered, Range
    <3> QED BY <1>1, <2>1, <3>1 DEF Kept, OnDisk
  <2>2. CASE ~booted.pin
    <3>1. \A d, e \in Range(rest) : d.pin /\ e.pin => d = e  BY DEF Ordered, Range
    <3> QED BY <1>1, <2>2, <3>1 DEF Kept, OnDisk
  <2> QED BY <2>1, <2>2
<1>3. k.img \in Images  BY OnTheDisk DEF Deployments
<1>4. {d.img : d \in Kept} = {k.img}  BY <1>2
<1>5. {k.img} \in Optional(Images)  BY <1>3, Optionals, Zenon
<1> QED BY <1>4, <1>5, Zenon

(* What writing back a note read before leaves of it.                          *)
LEMMA SavedFile ==
  ASSUME UpdatesInv, NEW t \in Threads, SaveCopy(t)
  PROVE  file' \in Files /\ excused' \in BOOLEAN /\ (excused => excused')
         /\ (file' = file \/ excused')
<1>1. mem[t] \in Memory /\ excused \in BOOLEAN  BY DEF UpdatesInv, TypeOK
<1>2. mem[t].copy \in Files  BY <1>1 DEF Memory
<1>3. file' = mem[t].copy /\ excused' = (excused \/ file' # file)  BY DEF SaveCopy
<1>4. excused' \in BOOLEAN  BY <1>3
<1> QED BY <1>1, <1>2, <1>3, <1>4, Zenon

(* The timer's download starts.                                                *)
LEMMA AutoBegins == ASSUME UpdatesInv, AutoBefore PROVE UpdatesInv'
<1>1. pc["timer"] = "before" /\ ~Locked /\ "timer" \in Threads
  BY DEF AutoBefore, Runs, Threads
<1>2. Behind /\ Left(mem["timer"].asked)  BY <1>1 DEF UpdatesInv, Placed, TimerAt
<1>3. Download("timer", "", "auto", staged) /\ trying' = trying /\ home' = home
      /\ SaveCopy("timer")
  BY DEF AutoBefore
<1>4. file' \in Files /\ excused' \in BOOLEAN /\ (excused => excused')
      /\ (file' = file \/ excused')
  BY <1>1, <1>3, SavedFile
<1>5. Kept' = Kept
  <2>1. UNCHANGED disk  BY <1>3 DEF Download
  <2> QED BY <2>1 DEF disk, Kept, OnDisk
<1>6. staged \in Optional(Images) /\ home' \in Optional(Images) /\ trying \in BOOLEAN
  BY <1>3 DEF UpdatesInv, TypeOK
<1>7. HomeKept'  BY <1>3, <1>5 DEF UpdatesInv, DiskInv, HomeKept
<1>8. trying' = (trying \/ "auto" = "try")  BY <1>3, <1>6
<1> QED BY <1>1, <1>2, <1>3, <1>4, <1>6, <1>7, <1>8, DownloadStarts

(* A call's download starts; the first try notes what is kept as home.         *)
LEMMA PersonBegins == ASSUME UpdatesInv, PersonStart PROVE UpdatesInv'
<1> DEFINE m == mem["person"]
<1>1. pc["person"] = "start" /\ "person" \in Threads  BY DEF PersonStart, Threads
<1>2. m.how \in {"hand", "try"} /\ (m.how = "try" => Kept # {})
  BY <1>1 DEF UpdatesInv, Placed, PersonAt
<1>3. m.ref \in Refs \cup {""}  BY <1>1 DEF UpdatesInv, TypeOK, Memory
<1>4. Download("person", m.ref, m.how, {}) /\ UNCHANGED <<file, excused>>
      /\ trying' = (trying \/ m.how = "try")
  BY DEF PersonStart
<1>5. home' = IF m.how # "try" \/ home # {} THEN home
              ELSE IF Kept = {} THEN {booted.img} ELSE {d.img : d \in Kept}
  BY DEF PersonStart
<1>6. Kept' = Kept
  <2>1. UNCHANGED disk  BY <1>4 DEF Download
  <2> QED BY <2>1 DEF disk, Kept, OnDisk
<1>7. {} \in Optional(Images)  BY Optionals, Zenon
<1>8. home' \in Optional(Images) /\ HomeKept'
  <2>1. CASE m.how # "try" \/ home # {}
    <3>1. home' = home  BY <1>5, <2>1
    <3> QED BY <1>6, <3>1 DEF UpdatesInv, TypeOK, DiskInv, HomeKept
  <2>2. CASE m.how = "try" /\ home = {}
    <3>1. home' = {d.img : d \in Kept}  BY <1>2, <1>5, <2>2
    <3>2. {d.img : d \in Kept} \in Optional(Images)
      BY <1>2, <2>2, OneKept DEF UpdatesInv, DiskInv
    <3> QED BY <1>2, <1>6, <2>2, <3>1, <3>2 DEF HomeKept
  <2> QED BY <2>1, <2>2
<1>9. file' \in Files /\ excused' \in BOOLEAN /\ (excused => excused')
      /\ (file' = file \/ excused')
  BY <1>4 DEF UpdatesInv, TypeOK
<1>10. pc["person"] # "sync" /\ m.how # "auto" /\ m.how \in {"hand", "try", "auto"}
  BY <1>1, <1>2
<1> HIDE DEF m
<1> QED BY <1>3, <1>4, <1>7, <1>8, <1>9, <1>10, DownloadStarts

(* A download goes on or ends, without a change to what runs or is kept.       *)
LEMMA DownloadStep ==
  ASSUME UpdatesInv, NEW d \in Downloads, NEW place, NEW m \in Memory, Go(d, place, m),
         pc[d] # "idle", DownloadAt(place, m), place = "pull" => staged' = staged,
         UNCHANGED <<booted, rest, registry, current, pushes, boots, home, going, mixed>>,
         faults' \in 0 .. MaxFaults, file' \in Files, excused' \in BOOLEAN,
         trying' \in BOOLEAN, spoilt' \in Optional(Images),
         staged' \in Optional(Images), \A s \in staged' : s.no <= registry[s.ref],
         queued' \in BOOLEAN, queued' => queued,
         (staged' = {} => staged = {} /\ queued' = queued) \/ Behind,
         staged' = staged \/ \A e \in Downloads : e # d => pc[e] # "pull",
         Noted', Watched', Flagged'
  PROVE  UpdatesInv'
<1>1. d \in Threads /\ d \notin {"person", "timer"} /\ {"person", "timer"} \subseteq Threads
  BY DEF Downloads, Threads
<1>2. /\ DOMAIN pc' = Threads /\ mem' \in [Threads -> Memory]
      /\ pc'[d] = place /\ mem'[d] = m
      /\ \A u \in Threads : u # d => pc'[u] = pc[u] /\ mem'[u] = mem[u]
  BY <1>1, Moved DEF UpdatesInv
<1>3. /\ Kept' = Kept /\ OnDisk' = OnDisk /\ NextBack' = NextBack /\ (Behind' <=> Behind)
      /\ UNCHANGED <<booted, rest, registry>>
  BY DEF Kept, OnDisk, NextBack, Behind
<1>4. TypeOK'  BY <1>2 DEF UpdatesInv, TypeOK
<1>5. DiskInv'  BY <1>3 DEF UpdatesInv, DiskInv, Ordered, Built, Pushed, HomeKept
<1>6. Placed'
  <2>1. PersonAt(pc["person"], mem["person"])'
    <3>1. PersonAt(pc'["person"], mem'["person"])  BY <1>1, <1>2 DEF UpdatesInv, Placed
    <3>2. staged' = {} => (staged = {} /\ (queued' <=> queued)) \/ Behind  OBVIOUS
    <3>3. rest # <<>> /\ rest[1].pin => ~Behind
      <4>1. rest # <<>> => 1 \in DOMAIN rest  BY OnTheDisk DEF UpdatesInv
      <4> QED BY <4>1 DEF Behind
    <3> QED BY <1>3, <3>1, <3>2, <3>3 DEF PersonAt
  <2>2. TimerAt(pc["timer"], mem["timer"])'
    <3>1. TimerAt(pc'["timer"], mem'["timer"])  BY <1>1, <1>2 DEF UpdatesInv, Placed
    <3>2. Left(mem["timer"].asked)' <=> Left(mem'["timer"].asked)
      BY <1>3 DEF Left, FollowingOf, Newest
    <3> QED BY <1>3, <3>1, <3>2 DEF TimerAt, FollowingOf
  <2>3. ASSUME NEW e \in Downloads PROVE DownloadAt(pc[e], mem[e])'
    <3>1. DownloadAt(pc'[e], mem'[e])
      BY <1>1, <1>2 DEF UpdatesInv, Placed, Downloads, Threads
    <3>2. Left(mem[e].asked)' <=> Left(mem'[e].asked)
      BY <1>3 DEF Left, FollowingOf, Newest
    <3>3. pc'[e] = "pull" => staged' = staged  BY <1>2 DEF Downloads, Threads
    <3> QED BY <1>3, <3>1, <3>2, <3>3 DEF DownloadAt
  <2> QED BY <2>1, <2>2, <2>3 DEF Placed
<1>7. GoingBack'  BY DEF UpdatesInv, GoingBack
<1> QED BY <1>4, <1>5, <1>6, <1>7 DEF UpdatesInv

(* The flag stays that of a try under way, one download has the lock.          *)
LEMMA FlagsStay ==
  ASSUME UpdatesInv, NEW d \in Downloads, NEW place, NEW m \in Memory, Go(d, place, m),
         pc[d] # "idle", mixed' = mixed, trying' => trying,
         place = "pull" => pc[d] = "pull" \/ ~Locked,
         place \in {"wait", "pull"} /\ m.how = "try" => Tries(d) /\ trying' = trying,
         trying' /\ Tries(d) => place \in {"wait", "pull"} /\ m.how = "try"
  PROVE  Flagged'
<1>1. \A e \in Downloads : e \in Threads  BY DEF Downloads, Threads
<1>2. /\ pc'[d] = place /\ mem'[d] = m
      /\ \A e \in Downloads : e # d => pc'[e] = pc[e] /\ mem'[e] = mem[e]
  BY <1>1, Moved DEF UpdatesInv
<1>3. \A e \in Downloads : e # d => (Tries(e)' <=> Tries(e))  BY <1>2 DEF Tries
<1>4. Tries(d)' <=> place \in {"wait", "pull"} /\ m.how = "try"  BY <1>2 DEF Tries
<1>5. \A e, f \in Downloads : pc'[e] = "pull" /\ pc'[f] = "pull" => e = f
  BY <1>2 DEF UpdatesInv, Flagged, Locked
<1>6. trying' => \E e \in Downloads : Tries(e)'
  <2> SUFFICES ASSUME trying' PROVE \E e \in Downloads : Tries(e)'  OBVIOUS
  <2>1. PICK e \in Downloads : Tries(e)  BY DEF UpdatesInv, Flagged
  <2>2. Tries(e)'
    <3>1. CASE e = d  BY <1>4, <2>1, <3>1
    <3>2. CASE e # d  BY <1>3, <2>1, <3>2
    <3> QED BY <3>1, <3>2
  <2> QED BY <2>2, Zenon
<1>7. ASSUME ~mixed
      PROVE  /\ \A e, f \in Downloads : pc'[e] # "idle" /\ pc'[f] # "idle" => e = f
             /\ \A e \in Downloads : Tries(e)' => trying'
  <2>1. /\ \A e, f \in Downloads : pc[e] # "idle" /\ pc[f] # "idle" => e = f
        /\ \A e \in Downloads : Tries(e) => trying
    BY <1>7 DEF UpdatesInv, Flagged
  <2>2. \A e \in Downloads : e # d => pc'[e] = "idle" /\ ~Tries(e)'
    BY <1>2, <2>1 DEF Tries
  <2> QED BY <1>4, <2>1, <2>2
<1> QED BY <1>5, <1>6, <1>7 DEF Flagged

(* What bootc stages is the newest image of what it follows.                   *)
LEMMA Staged ==
  ASSUME UpdatesInv, NEW d \in Downloads, Stage(d)
  PROVE  /\ staged' \in Optional(Images) /\ queued' \in BOOLEAN /\ (queued' => queued)
         /\ registry' = registry => \A s \in staged' : s.no <= registry[s.ref]
         /\ staged' = {} => staged = {} /\ queued' = queued
         /\ staged' # staged => staged' \cap staged = {}
         /\ mem[d].ref = "" /\ staged' # staged => staged' = {Newest(Following)}
<1> DEFINE img == Newest(IF mem[d].ref = "" THEN Following ELSE mem[d].ref)
<1>1. /\ staged \in Optional(Images) /\ queued \in BOOLEAN /\ mem[d].ref \in Refs \cup {""}
      /\ \A s \in staged : s.no <= registry[s.ref]
      /\ registry \in [Refs -> 1 .. (MaxPush + 1)]
  BY DEF UpdatesInv, TypeOK, DiskInv, Built, Memory, Threads, Downloads
<1>2. (IF mem[d].ref = "" THEN Following ELSE mem[d].ref) \in Refs
  BY <1>1, OnTheDisk DEF UpdatesInv
<1>3. img \in Images /\ img.no = registry[img.ref] /\ img.no \in Nat
  <2>1. img \in Images  BY <1>2, OnTheDisk DEF UpdatesInv
  <2>2. img.no = registry[img.ref]  BY DEF Newest
  <2>3. \A i \in Images : i.no \in Nat  BY Bounds DEF Images
  <2> QED BY <2>1, <2>2, <2>3
<1>4. \/ UNCHANGED <<staged, queued>>
      \/ staged' = {img} /\ queued' = FALSE /\ staged # {img}
  BY DEF Stage
<1>5. mem[d].ref = "" => img = Newest(Following)  OBVIOUS
<1> HIDE DEF img
<1>6. CASE UNCHANGED <<staged, queued>>  BY <1>1, <1>6
<1>7. CASE staged' = {img} /\ queued' = FALSE /\ staged # {img}
  <2>1. {img} \in Optional(Images)  BY <1>3, Optionals, Zenon
  <2>2. img \notin staged
    <3>1. staged = {} \/ \E x \in Images : staged = {x}  BY <1>1, Optionals, Zenon
    <3> QED BY <1>7, <3>1
  <2>3. img.no <= registry[img.ref]  BY <1>3
  <2> QED BY <1>5, <1>7, <2>1, <2>2, <2>3
<1> QED BY <1>4, <1>6, <1>7

(* What is known of a download, whatever step it makes.                        *)
LEMMA OfDownload ==
  ASSUME UpdatesInv, NEW d \in Downloads
  PROVE  /\ d \in Threads /\ mem[d] \in Memory /\ DownloadAt(pc[d], mem[d])
         /\ faults \in 0 .. MaxFaults /\ file \in Files /\ excused \in BOOLEAN
         /\ trying \in BOOLEAN /\ spoilt \in Optional(Images)
         /\ staged \in Optional(Images) /\ (\A s \in staged : s.no <= registry[s.ref])
         /\ queued \in BOOLEAN
         /\ pc[d] \notin {"judge", "discard"} => ~Spoiling(d)
  BY DEF UpdatesInv, TypeOK, DiskInv, Built, Placed, Threads, Spoiling

(* Who watches what was spoilt, when another thread's step leaves it alone.    *)
LEMMA WatchedStays ==
  ASSUME UpdatesInv, NEW d \in Downloads, NEW place, NEW m \in Memory, Go(d, place, m),
         spoilt' \subseteq spoilt,
         spoilt' # {} /\ Spoiling(d) =>
            place = "discard" /\ spoilt' \subseteq m.drop
  PROVE  Watched'
<1>1. d \in Threads /\ \A e \in Downloads : e \in Threads  BY DEF Downloads, Threads
<1>2. /\ pc'[d] = place /\ mem'[d] = m
      /\ \A e \in Downloads : e # d => pc'[e] = pc[e] /\ mem'[e] = mem[e]
  BY <1>1, Moved DEF UpdatesInv
<1> SUFFICES ASSUME spoilt' # {} PROVE \E e \in Downloads : Spoiling(e)'
  BY DEF Watched
<1>3. PICK e \in Downloads : Spoiling(e)  BY DEF UpdatesInv, Watched
<1>4. CASE e = d
  <2>1. Spoiling(d)'  BY <1>2, <1>3, <1>4 DEF Spoiling
  <2> QED BY <2>1
<1>5. CASE e # d
  <2>1. Spoiling(e)'
    <3>1. pc'[e] = pc[e] /\ mem'[e] = mem[e]  BY <1>2, <1>5
    <3>2. spoilt \cap mem[e].seen = {} => spoilt' \cap mem'[e].seen = {}
      BY <3>1
    <3>3. spoilt \subseteq mem[e].drop => spoilt' \subseteq mem'[e].drop  BY <3>1
    <3> QED BY <1>3, <3>1, <3>2, <3>3 DEF Spoiling
  <2> QED BY <2>1
<1> QED BY <1>4, <1>5

(* A download that waited for the lock gets it.                                *)
LEMMA PullKeeps == ASSUME UpdatesInv, NEW d \in Downloads, Pull(d) PROVE UpdatesInv'
<1>1. /\ pc[d] = "wait" /\ ~Locked /\ Go(d, "pull", mem[d])
      /\ UNCHANGED <<booted, rest, staged, queued, registry, file, current, trying, pushes,
                     faults, boots, excused, home, going, spoilt, mixed>>
  BY DEF Pull, disk, bounds, history
<1>2. DownloadAt("pull", mem[d])  BY <1>1, OfDownload DEF DownloadAt
<1>3. mem[d].how \in {"hand", "try"} /\ (Tries(d) <=> mem[d].how = "try")
  BY <1>1, OfDownload DEF DownloadAt, Tries
<1>4. Noted'  BY <1>1, OfDownload, StillNoted
<1>5. Watched'  BY <1>1, OfDownload, WatchedStays
<1>6. Flagged'  BY <1>1, <1>3, OfDownload, FlagsStay
<1> QED BY <1>1, <1>2, <1>4, <1>5, <1>6, OfDownload, DownloadStep

(* One that pulls has the lock alone.                                          *)
LEMMA PullsAlone ==
  ASSUME UpdatesInv, NEW d \in Downloads, pc[d] = "pull"
  PROVE  \A e \in Downloads : e # d => pc[e] # "pull"
  BY DEF UpdatesInv, Flagged

(* A download is staged.                                                       *)
LEMMA PulledKeeps == ASSUME UpdatesInv, NEW d \in Downloads, Pulled(d) PROVE UpdatesInv'
<1> DEFINE m == [mem[d] EXCEPT !.tell = Flag(d) \/ mem[d].how = "auto",
                               !.ref = "", !.seen = {}, !.asked = {}]
<1>1. /\ pc[d] = "pull" /\ Stage(d) /\ TakeFlag(d) /\ Go(d, "sync", m)
      /\ UNCHANGED <<booted, rest, registry, file, current, pushes,
                     faults, boots, excused, home, going, spoilt, mixed>>
  BY DEF Pulled, bounds, history
<1>2. m \in Memory /\ m.how = mem[d].how
  <2>1. {} \in Optional(Images)  BY Optionals, Zenon
  <2>2. mem[d] \in Memory  BY OfDownload
  <2>3. (Flag(d) \/ mem[d].how = "auto") \in BOOLEAN  OBVIOUS
  <2> HIDE DEF Flag
  <2> QED BY <2>1, <2>2, <2>3 DEF Memory
<1> HIDE DEF m
<1>3. trying' \in BOOLEAN /\ (trying' <=> trying /\ mem[d].how = "auto")  BY <1>1 DEF TakeFlag
<1>4. DownloadAt("sync", m)  BY <1>1, <1>2, OfDownload DEF DownloadAt
<1>5. Noted'
  <2>1. pc'[d] = "sync"  BY <1>1, <1>2, OfDownload, Moved DEF UpdatesInv
  <2> QED BY <2>1, OfDownload DEF Noted
<1>6. Watched'  BY <1>1, <1>2, OfDownload, WatchedStays
<1>7. Flagged'
  <2>1. Tries(d) => mem[d].how = "try"  BY DEF Tries
  <2> QED BY <1>1, <1>2, <1>3, <2>1, OfDownload, FlagsStay
<1>8. /\ staged' \in Optional(Images) /\ queued' \in BOOLEAN /\ (queued' => queued)
      /\ \A s \in staged' : s.no <= registry[s.ref]
      /\ staged' = {} => staged = {} /\ queued' = queued
  BY <1>1, Staged
<1> QED BY <1>1, <1>2, <1>3, <1>4, <1>5, <1>6, <1>7, <1>8, OfDownload, PullsAlone, DownloadStep

(* A pull fails: an automatic one that staged something is looked at.          *)
LEMMA PullFailsKeeps ==
  ASSUME UpdatesInv, NEW d \in Downloads, PullFails(d) PROVE UpdatesInv'
<1> DEFINE n == [mem[d] EXCEPT !.copy = file, !.asked = {}]
           m == IF mem[d].how = "auto" THEN n ELSE Idle
           place == IF mem[d].how = "auto" THEN "judge" ELSE "idle"
<1>1. /\ pc[d] = "pull" /\ TakeFlag(d) /\ Go(d, place, m)
      /\ faults < MaxFaults /\ faults' = faults + 1
      /\ UNCHANGED <<booted, rest, registry, file, current, pushes, boots, home, going, mixed>>
  BY DEF PullFails, End
<1>2. n \in Memory /\ n.how = mem[d].how /\ n.seen = mem[d].seen
  <2>1. {} \in Optional(Images)  BY Optionals, Zenon
  <2>2. mem[d] \in Memory /\ file \in Files  BY OfDownload
  <2> QED BY <2>1, <2>2 DEF Memory
<1> HIDE DEF n
<1>3. /\ m \in Memory /\ DownloadAt(place, m)
      /\ place \notin {"wait", "pull"}
  BY <1>1, <1>2, IdleMemory, OfDownload DEF DownloadAt
<1>4. trying' \in BOOLEAN /\ (trying' <=> trying /\ mem[d].how = "auto")  BY <1>1 DEF TakeFlag
<1>5. faults' \in 0 .. MaxFaults  BY <1>1, OfDownload, Bounds
<1>6. Tries(d) => mem[d].how = "try"  BY DEF Tries
<1> DEFINE calm == UNCHANGED <<staged, queued, excused, spoilt>>
           loud == /\ Stage(d)
                   /\ excused' = (excused \/ staged' # staged)
                   /\ spoilt' = IF mem[d].how = "auto" /\ staged' # staged THEN staged' ELSE spoilt
<1>7. calm \/ loud  BY DEF PullFails
<1> HIDE DEF m, place
<1>8. Flagged'  BY <1>1, <1>3, <1>4, <1>6, OfDownload, FlagsStay
<1>9. pc[d] # "idle" /\ pc[d] # "sync" /\ ~Spoiling(d)  BY <1>1, OfDownload
<1>10. CASE calm
  <2>1. Noted'  BY <1>1, <1>3, <1>9, <1>10, OfDownload, StillNoted
  <2>2. Watched'  BY <1>1, <1>3, <1>9, <1>10, OfDownload, WatchedStays
  <2> QED BY <1>1, <1>3, <1>4, <1>5, <1>8, <1>9, <1>10, <2>1, <2>2, OfDownload, DownloadStep
<1>11. CASE loud
  <2>1. /\ staged' \in Optional(Images) /\ queued' \in BOOLEAN /\ (queued' => queued)
        /\ \A s \in staged' : s.no <= registry[s.ref]
        /\ staged' = {} => staged = {} /\ queued' = queued
        /\ staged' # staged => staged' \cap staged = {}
    BY <1>1, <1>11, Staged
  <2>2. excused' \in BOOLEAN /\ (excused => excused') /\ (staged' # staged => excused')
    BY <1>11
  <2>3. spoilt' \in Optional(Images)  BY <1>11, <2>1, OfDownload
  <2>4. Noted'
    <3>1. CASE staged' = staged  BY <1>1, <1>3, <1>9, <2>2, <3>1, OfDownload, StillNoted
    <3>2. CASE staged' # staged  BY <2>2, <3>2 DEF Noted
    <3> QED BY <3>1, <3>2
  <2>5. Watched'
    <3>1. CASE mem[d].how = "auto" /\ staged' # staged
      <4>1. pc'[d] = "judge" /\ mem'[d] = n
        BY <1>1, <1>3, <3>1, OfDownload, Moved DEF m, place, UpdatesInv
      <4>2. spoilt' = staged' /\ mem[d].seen = staged
        BY <1>1, <1>11, <3>1, OfDownload DEF DownloadAt
      <4>3. spoilt' \cap mem'[d].seen = {}  BY <1>2, <2>1, <3>1, <4>1, <4>2
      <4>4. Spoiling(d)'  BY <4>1, <4>3 DEF Spoiling
      <4> QED BY <4>4 DEF Watched
    <3>2. CASE ~ (mem[d].how = "auto" /\ staged' # staged)
      <4>1. spoilt' = spoilt  BY <1>11, <3>2
      <4> QED BY <1>1, <1>3, <1>9, <4>1, OfDownload, WatchedStays
    <3> QED BY <3>1, <3>2
  <2> HIDE DEF loud
  <2> QED BY <1>1, <1>3, <1>4, <1>5, <1>8, <1>9, <2>1, <2>2, <2>3, <2>4, <2>5, OfDownload,
             PullsAlone, DownloadStep
<1> QED BY <1>7, <1>10, <1>11

(* A download that failed, judged: what it staged is what was not there before. *)
LEMMA JudgeKeeps == ASSUME UpdatesInv, NEW d \in Downloads, Judge(d) PROVE UpdatesInv'
<1> DEFINE what == ToDiscard(mem[d].seen)
           n == [mem[d] EXCEPT !.drop = what]
           m == IF what = {} THEN Idle ELSE n
           place == IF what = {} THEN "idle" ELSE "discard"
<1>1. /\ pc[d] = "judge" /\ Go(d, place, m) /\ spoilt' = spoilt \cap staged
      /\ UNCHANGED <<booted, rest, staged, queued, registry, current, trying, pushes, faults,
                     boots, home, going, mixed>>
  BY DEF Judge, Runs, End, disk, bounds
<1>2. (what = {} /\ SaveCopy(d)) \/ UNCHANGED <<file, excused>>  BY DEF Judge
<1>3. n \in Memory /\ n.how = mem[d].how /\ n.drop = what
  <2>1. staged \subseteq Images  BY OfDownload DEF Optional
  <2> QED BY <2>1, OfDownload DEF Memory, ToDiscard
<1> HIDE DEF n
<1>4. /\ m \in Memory /\ DownloadAt(place, m)
      /\ place \notin {"wait", "pull"}
  BY <1>1, <1>3, IdleMemory, OfDownload DEF DownloadAt
<1>5. /\ spoilt' # {} /\ Spoiling(d) => place = "discard" /\ spoilt' \subseteq m.drop
      /\ spoilt' \subseteq spoilt
  BY <1>1, <1>3 DEF Spoiling, ToDiscard
<1>6. spoilt' \in Optional(Images)
  <2>1. \A s \in Optional(Images) : \A T : s \cap T \in Optional(Images)  BY Optionals, Zenon
  <2> QED BY <1>1, <2>1, OfDownload
<1> HIDE DEF m, place, what
<1>7. Noted' /\ file' \in Files /\ excused' \in BOOLEAN
  <2>1. CASE SaveCopy(d)  BY <1>1, <1>4, <2>1, OfDownload, SavedNote
  <2>2. CASE UNCHANGED <<file, excused>>  BY <1>1, <1>4, <2>2, OfDownload, StillNoted
  <2> QED BY <1>2, <2>1, <2>2
<1>8. ~Tries(d)  BY <1>1 DEF Tries
<1>9. Flagged'  BY <1>1, <1>4, <1>8, OfDownload, FlagsStay
<1>10. Watched'  BY <1>1, <1>4, <1>5, OfDownload, WatchedStays
<1> QED BY <1>1, <1>4, <1>6, <1>7, <1>9, <1>10, OfDownload, DownloadStep

(* A download that ends as it is: what is staged stays, or goes.               *)
LEMMA EndsStep ==
  ASSUME UpdatesInv, NEW d \in Downloads, Go(d, "idle", Idle),
         pc[d] \in {"sync", "judge", "discard"},
         UNCHANGED <<booted, rest, queued, registry, current, trying, pushes, boots,
                     home, going, mixed>>,
         faults' \in 0 .. MaxFaults, file' \in Files, excused' \in BOOLEAN,
         staged' = staged \/ (pc[d] = "discard" /\ ~Locked /\ \E T : staged' = staged \ T),
         spoilt' \subseteq spoilt, pc[d] # "sync" => spoilt' = {} \/ ~Spoiling(d),
         Noted'
  PROVE  UpdatesInv'
<1>1. DownloadAt("idle", Idle)  BY DEF DownloadAt
<1>2. Flagged'
  <2>1. ~Tries(d)  BY DEF Tries
  <2> QED BY <2>1, IdleMemory, OfDownload, FlagsStay
<1>3. Watched'
  <2>1. spoilt' # {} => ~Spoiling(d)  BY OfDownload
  <2> QED BY <2>1, IdleMemory, OfDownload, WatchedStays
<1>4. spoilt' \in Optional(Images)
  <2>1. spoilt' = spoilt \cap spoilt'  OBVIOUS
  <2>2. \A s \in Optional(Images) : \A T : s \cap T \in Optional(Images)  BY Optionals, Zenon
  <2>3. spoilt \cap spoilt' \in Optional(Images)  BY <2>2, OfDownload, Zenon
  <2> QED BY <2>1, <2>3
<1>5. staged' \in Optional(Images) /\ staged' \subseteq staged
  <2>1. \A s \in Optional(Images) : \A T : s \ T \in Optional(Images)  BY Optionals, Zenon
  <2>2. \A T : staged \ T \in Optional(Images)  BY <2>1, OfDownload, Zenon
  <2>3. staged \in Optional(Images)  BY OfDownload
  <2> QED BY <2>2, <2>3
<1>6. staged' = staged \/ (Behind /\ \A e \in Downloads : pc[e] # "pull")
  BY OfDownload DEF DownloadAt, Locked
<1> QED BY <1>1, <1>2, <1>3, <1>4, <1>5, <1>6, IdleMemory, OfDownload, DownloadStep

(* What a failed download left is removed.                                     *)
LEMMA DiscardKeeps == ASSUME UpdatesInv, NEW d \in Downloads, Discard(d) PROVE UpdatesInv'
<1>1. /\ pc[d] = "discard" /\ ~Locked /\ Go(d, "idle", Idle)
      /\ staged' = staged \ mem[d].drop /\ spoilt' = spoilt \cap staged' /\ SaveCopy(d)
      /\ UNCHANGED <<booted, rest, queued, registry, current, trying, pushes, faults, boots,
                     home, going, mixed>>
  BY DEF Discard, Runs, End, bounds
<1>2. Spoiling(d) => spoilt' = {}  BY <1>1 DEF Spoiling
<1>3. staged' # {} => staged' = staged
  <2>1. staged = {} \/ \E x \in Images : staged = {x}  BY OfDownload, Optionals, Zenon
  <2> QED BY <1>1, <2>1
<1>4. Noted' /\ file' \in Files /\ excused' \in BOOLEAN
  BY <1>1, <1>3, IdleMemory, OfDownload, SavedNote
<1>5. spoilt' \subseteq spoilt /\ \E T : staged' = staged \ T  BY <1>1
<1> QED BY <1>1, <1>2, <1>4, <1>5, OfDownload, EndsStep

(* A download is noted, and told of.                                           *)
LEMMA SyncKeeps == ASSUME UpdatesInv, NEW d \in Downloads, Sync(d) PROVE UpdatesInv'
<1>1. /\ pc[d] = "sync" /\ Go(d, "idle", Idle) /\ file' = Recorded /\ excused' = FALSE
      /\ UNCHANGED <<booted, rest, staged, queued, registry, current, trying, pushes, faults,
                     boots, home, going, spoilt, mixed>>
  BY DEF Sync, Runs, End, disk, bounds, history
<1>2. file' \in Files
  <2>1. Recorded \in Files  BY RecordedFile DEF UpdatesInv
  <2> QED BY <1>1, <2>1
<1>3. Noted'
  <2>1. staged # {} => file'.here /\ file'.note = staged  BY <1>1, RecordedNames
  <2> QED BY <1>1, <2>1 DEF Noted
<1> QED BY <1>1, <1>2, <1>3, OfDownload, EndsStep

(* A download whose look, or whose removal, fails.                             *)
LEMMA FailsKeeps == ASSUME UpdatesInv, NEW d \in Downloads, Fails(d) PROVE UpdatesInv'
<1>1. /\ pc[d] \in {"sync", "judge", "discard"} /\ Go(d, "idle", Idle)
      /\ UNCHANGED <<booted, rest, staged, queued, registry, current, trying, pushes, boots,
                     home, going, mixed>>
  BY OfDownload DEF Fails, End, disk, DownloadAt, Bootc, Ostree
<1>2. faults' \in 0 .. MaxFaults  BY Bounds, OfDownload DEF Fails
<1>3. CASE pc[d] = "sync"
  <2>1. UNCHANGED file /\ excused' = TRUE /\ spoilt' = spoilt  BY <1>3 DEF Fails
  <2>2. Noted'  BY <2>1 DEF Noted
  <2> QED BY <1>1, <1>2, <1>3, <2>1, <2>2, OfDownload, EndsStep
<1>4. CASE pc[d] \in {"judge", "discard"}
  <2>1. SaveCopy(d) /\ spoilt' = {}  BY <1>4 DEF Fails
  <2>2. Noted' /\ file' \in Files /\ excused' \in BOOLEAN
    BY <1>1, <1>4, <2>1, IdleMemory, OfDownload, SavedNote
  <2>3. spoilt' \subseteq spoilt  BY <2>1
  <2> QED BY <1>1, <1>2, <1>4, <2>1, <2>2, <2>3, OfDownload, EndsStep
<1> QED BY <1>1, <1>3, <1>4

-------------------------------------------------------------------------------
(* Calls that change the disk. *)

(* A person's call changes the disk, and no download has the lock meanwhile.   *)
LEMMA PersonStep ==
  ASSUME UpdatesInv, NEW place, NEW next, NEW m \in Memory, Person(place, next, m),
         place \notin {"sync", "idle"},
         booted' \in Deployments, rest' \in Seq(Deployments), staged' \in Optional(Images),
         queued' \in BOOLEAN, home' \in Optional(Images), going' \in Optional(Images),
         Ordered', Built', HomeKept', GoingBack',
         booted'.img = booted.img, Behind => Behind' /\ NextBack' \subseteq NextBack,
         staged' # {} => staged' = staged,
         PersonAt(next, m)'
  PROVE  UpdatesInv'
<1>1. /\ pc["person"] = place /\ ~Locked /\ Go("person", next, m) /\ "person" \in Threads
      /\ UNCHANGED <<registry, file, current, trying, pushes, faults, boots, excused,
                     spoilt, mixed>>
  BY DEF Person, Runs, Threads, bounds
<1>2. /\ DOMAIN pc' = Threads /\ mem' \in [Threads -> Memory]
      /\ pc'["person"] = next /\ mem'["person"] = m
      /\ \A u \in Threads : u # "person" => pc'[u] = pc[u] /\ mem'[u] = mem[u]
  BY <1>1, Moved DEF UpdatesInv
<1>3. pc'["timer"] = pc["timer"] /\ mem'["timer"] = mem["timer"]  BY <1>2 DEF Threads
<1>4. \A d \in Downloads : pc'[d] = pc[d] /\ mem'[d] = mem[d]  BY <1>2 DEF Downloads, Threads
<1>5. TypeOK'  BY <1>1, <1>2 DEF UpdatesInv, TypeOK
<1>6. DiskInv'  BY <1>1 DEF UpdatesInv, DiskInv, Pushed
<1>7. Placed'
  <2>1. PersonAt(pc["person"], mem["person"])'  BY <1>2 DEF PersonAt
  <2>2. TimerAt(pc["timer"], mem["timer"])'
    <3>1. TimerAt(pc["timer"], mem["timer"])  BY DEF UpdatesInv, Placed
    <3>2. Behind /\ Left(mem["timer"].asked) => Left(mem["timer"].asked)'
      <4>1. FollowingOf(mem["timer"].asked)' = FollowingOf(mem["timer"].asked)
        BY <1>3 DEF FollowingOf
      <4> QED BY <1>1, <4>1 DEF Left, Newest
    <3>3. FollowingOf(mem["timer"].seen)' = FollowingOf(mem["timer"].seen)
      BY <1>3 DEF FollowingOf
    <3> QED BY <1>3, <3>1, <3>2, <3>3 DEF TimerAt
  <2>3. ASSUME NEW d \in Downloads PROVE DownloadAt(pc[d], mem[d])'
    <3>1. DownloadAt(pc[d], mem[d]) /\ pc[d] # "pull"  BY <1>1 DEF UpdatesInv, Placed, Locked
    <3>2. pc'[d] = pc[d] /\ mem'[d] = mem[d]  BY <1>4
    <3> QED BY <3>1, <3>2 DEF DownloadAt
  <2> QED BY <2>1, <2>2, <2>3 DEF Placed
<1>8. Watched'  BY <1>1, <1>4 DEF UpdatesInv, Watched, Spoiling
<1>9. Flagged'  BY <1>1, <1>4 DEF UpdatesInv, Flagged, Tries
<1>10. Noted'  BY <1>1, StillNoted
<1> QED BY <1>5, <1>6, <1>7, <1>8, <1>9, <1>10 DEF UpdatesInv

(* What is known of the person's thread and of the disk.                       *)
LEMMA OfPerson ==
  ASSUME UpdatesInv
  PROVE  /\ mem["person"] \in Memory /\ PersonAt(pc["person"], mem["person"])
         /\ booted \in Deployments /\ rest \in Seq(Deployments)
         /\ staged \in Optional(Images) /\ queued \in BOOLEAN
         /\ home \in Optional(Images) /\ going \in Optional(Images)
         /\ Ordered /\ Built /\ HomeKept
         /\ going # {} => pc["person"] \in {"idle", "sync"}
         /\ {} \in Optional(Images)
<1>1. {} \in Optional(Images)  BY Optionals, Zenon
<1> QED BY <1>1 DEF UpdatesInv, TypeOK, DiskInv, Placed, GoingBack, Threads

(* The running deployment is kept.                                             *)
LEMMA PinKeeps == ASSUME UpdatesInv, Pin PROVE UpdatesInv'
<1>0. PICK m \in Memory : m = mem["person"]  BY OfPerson
<1>a. PICK next : next = Onward(m)  OBVIOUS
<1>1. /\ Person("pin", next, m) /\ pc["person"] = "pin"
      /\ booted' = [booted EXCEPT !.pin = TRUE]
      /\ UNCHANGED <<rest, staged, queued, home, going, registry>>
  BY <1>0, <1>a DEF Pin, Person, Runs
<1>2. m.how = "try" /\ Kept = {} /\ going = {}
  BY <1>0, <1>1, OfPerson DEF PersonAt
<1>3. booted' \in Deployments /\ booted'.img = booted.img /\ booted'.pin = TRUE
  BY <1>1, OfPerson DEF Deployments
<1>4. \A i \in DOMAIN rest : ~rest[i].pin
  BY <1>2 DEF Kept, OnDisk, Range
<1>5. Ordered'  BY <1>1, <1>3, <1>4, OfPerson DEF Ordered
<1>6. Built'
  <2>1. \A d \in OnDisk' : d \in OnDisk \/ d = booted'  BY <1>1 DEF OnDisk
  <2>2. booted \in OnDisk  BY DEF OnDisk
  <2> QED BY <1>1, <1>3, <2>1, <2>2, OfPerson DEF Built
<1>7. HomeKept'  BY <1>1, <1>2, OfPerson DEF HomeKept
<1>8. GoingBack'  BY <1>1, <1>2 DEF GoingBack
<1>9. booted' \in Kept'  BY <1>3 DEF Kept, OnDisk
<1>10. NextBack' = NextBack /\ (Behind' <=> Behind)  BY <1>1 DEF NextBack, Behind
<1>11. next \in {"drop", "start"}  BY <1>2, <1>a, Onwards
<1>12. PersonAt(next, m)'  BY <1>1, <1>2, <1>9, <1>11 DEF PersonAt
<1> QED BY <1>1, <1>2, <1>3, <1>5, <1>6, <1>7, <1>8, <1>10, <1>12, OfPerson, PersonStep

(* bootc rollback: what is staged is discarded, a rollback queued.             *)
LEMMA RollsBack ==
  ASSUME UpdatesInv, RollBack, NEW place, NEW next, NEW m \in Memory,
         Person(place, next, m), place \notin {"sync", "idle"},
         UNCHANGED <<home, going>>,
         next = "sync" \/ (next = "unpin" /\ place = "return" /\ m = mem["person"])
  PROVE  UpdatesInv'
<1>1. /\ rest # <<>> /\ staged' = {} /\ queued' \in BOOLEAN /\ (~queued => queued')
      /\ UNCHANGED <<booted, rest, home, going>> /\ registry' = registry /\ pc["person"] = place
  BY DEF RollBack, Person, Runs
<1>2. going = {}  BY <1>1, OfPerson
<1>3. /\ Kept' = Kept /\ OnDisk' = OnDisk /\ NextBack' = NextBack /\ (Behind' <=> Behind)
  BY <1>1 DEF Kept, OnDisk, NextBack, Behind
<1>4. Ordered' /\ HomeKept'  BY <1>1, <1>3, OfPerson DEF Ordered, HomeKept
<1>5. Built'  BY <1>1, <1>3, OfPerson DEF Built
<1>6. GoingBack'  BY <1>1, <1>2 DEF GoingBack
<1>7. PersonAt(next, m)'
  <2>1. CASE next = "sync"  BY <2>1 DEF PersonAt
  <2>2. CASE next = "unpin" /\ place = "return" /\ m = mem["person"]
    <3>1. m.how = "back" /\ rest[1].pin /\ (m.tell => ~queued)
      BY <1>1, <2>2, OfPerson DEF PersonAt
    <3> QED BY <1>1, <2>2, <3>1 DEF PersonAt
  <2> QED BY <2>1, <2>2
<1> QED BY <1>1, <1>2, <1>3, <1>4, <1>5, <1>6, <1>7, OfPerson, PersonStep

(* The rollbacks of ReturnToKept and Rollback.                                 *)
LEMMA RollbacksKeep ==
  ASSUME UpdatesInv, ReturnBack \/ GoBack PROVE UpdatesInv'
<1>1. CASE ReturnBack
  <2>1. PICK m \in Memory : m = mem["person"]  BY OfPerson
  <2>2. Person("return", "unpin", m) /\ RollBack /\ UNCHANGED <<home, going>>
    BY <1>1, <2>1 DEF ReturnBack
  <2> QED BY <2>1, <2>2, RollsBack
<1>2. CASE GoBack
  <2>1. Person("back", "sync", Idle) /\ RollBack /\ UNCHANGED <<home, going>>
    BY <1>2 DEF GoBack
  <2> QED BY <2>1, IdleMemory, RollsBack
<1> QED BY <1>1, <1>2

(* Nothing is kept any more; what was kept is what the next restart runs, when  *)
(* nothing else is staged or queued.                                         *)
LEMMA UnpinKeeps == ASSUME UpdatesInv, Unpin PROVE UpdatesInv'
<1> DEFINE m == mem["person"]
<1>1. /\ Person("unpin", "sync", Idle) /\ pc["person"] = "unpin"
      /\ booted' = [booted EXCEPT !.pin = FALSE]
      /\ rest' = [i \in DOMAIN rest |-> [rest[i] EXCEPT !.pin = FALSE]]
      /\ UNCHANGED <<staged, queued, registry>> /\ home' = {}
      /\ going' = IF m.tell /\ staged = {} /\ \A d \in Downloads : pc[d] = "idle"
                  THEN home ELSE {}
      /\ Go("person", "sync", Idle)
  BY DEF Unpin, Person, Runs
<1>2. /\ m.how \in {"back", "hand"}
      /\ m.how = "back" => rest # <<>> /\ rest[1].pin /\ (m.tell /\ staged = {} => queued)
      /\ m.how = "hand" => booted.pin /\ (m.tell => ~queued)
  BY <1>1, OfPerson DEF PersonAt
<1>3. booted' \in Deployments /\ booted'.img = booted.img /\ booted'.pin = FALSE
  BY <1>1, OfPerson DEF Deployments
<1>4. /\ rest' \in Seq(Deployments) /\ Len(rest') = Len(rest) /\ DOMAIN rest' = DOMAIN rest
      /\ \A i \in DOMAIN rest : rest'[i].img = rest[i].img /\ rest'[i].pin = FALSE
  <2>1. \A i \in DOMAIN rest : [rest[i] EXCEPT !.pin = FALSE] \in Deployments
    BY OnTheDisk DEF UpdatesInv, Deployments
  <2>2. DOMAIN rest = 1 .. Len(rest) /\ Len(rest) \in Nat  BY OfPerson
  <2>3. \A i \in DOMAIN rest : rest'[i] = [rest[i] EXCEPT !.pin = FALSE]  BY <1>1
  <2>4. \A i \in DOMAIN rest : rest[i] \in Deployments  BY OnTheDisk DEF UpdatesInv
  <2>5. rest' \in Seq(Deployments) /\ Len(rest') = Len(rest) /\ DOMAIN rest' = DOMAIN rest
    BY <1>1, <2>1, <2>2
  <2>6. \A i \in DOMAIN rest : rest'[i].img = rest[i].img /\ rest'[i].pin = FALSE
    BY <2>3, <2>4 DEF Deployments
  <2> QED BY <2>5, <2>6
<1>5. rest # <<>> => 1 \in DOMAIN rest  BY OnTheDisk DEF UpdatesInv
<1>6. Len(rest) < 2
  <2>1. \A k \in Nat : k <= 2 /\ k # 2 => k < 2  OBVIOUS
  <2>0. Len(rest) \in Nat /\ Len(rest) <= 2  BY OfPerson DEF Ordered
  <2> SUFFICES ASSUME Len(rest) = 2 PROVE FALSE  BY <2>0, <2>1, Zenon
  <2>2. rest[2].pin /\ 1 \in DOMAIN rest /\ 2 \in DOMAIN rest  BY OfPerson DEF Ordered
  <2>3. ~booted.pin  BY <2>2, OfPerson DEF Ordered
  <2>4. ~rest[1].pin  BY <2>2, OfPerson DEF Ordered
  <2> QED BY <1>2, <2>3, <2>4
<1>7. Ordered'  BY <1>3, <1>4, <1>6 DEF Ordered
<1>8. Built'
  <2>1. \A d \in OnDisk' : \E e \in OnDisk : d.img = e.img
    BY <1>3, <1>4 DEF OnDisk, Range
  <2> QED BY <1>1, <2>1, OfPerson DEF Built
<1>9. HomeKept'  BY <1>1 DEF HomeKept
<1>10. NextBack' = NextBack /\ Behind'
  <2>1. Behind'  BY <1>4 DEF Behind
  <2>2. rest = <<>> <=> rest' = <<>>  BY <1>4, OfPerson
  <2>3. rest # <<>> => Head(rest) = rest[1] /\ Head(rest') = rest'[1]  BY <1>4, <2>2, OfPerson
  <2> QED BY <1>4, <1>5, <2>1, <2>2, <2>3 DEF NextBack
<1>11. going' \in Optional(Images)  BY <1>1, OfPerson
<1>12. GoingBack'
  <2> SUFFICES ASSUME going' # {}
               PROVE  /\ staged' = {} /\ \A d \in Downloads : pc'[d] = "idle"
                      /\ pc'["person"] \in {"idle", "sync"} /\ Bound' \in going'
    BY DEF GoingBack
  <2>1. m.tell /\ staged = {} /\ (\A d \in Downloads : pc[d] = "idle") /\ going' = home /\ home # {}
    BY <1>1
  <2>2. /\ pc'["person"] = "sync" /\ \A d \in Downloads : pc'[d] = pc[d]
    BY <1>1, IdleMemory, Moved DEF UpdatesInv, Threads, Downloads
  <2>3. home = {d.img : d \in Kept}  BY <2>1, OfPerson DEF HomeKept
  <2>4. Bound' \in home
    <3>1. CASE m.how = "back"
      <4>1. rest[1] \in Kept /\ queued  BY <1>2, <1>5, <2>1, <3>1, OnTheDisk DEF UpdatesInv, Kept
      <4>2. rest' # <<>> /\ queued' /\ rest'[1].img = rest[1].img
        BY <1>1, <1>2, <1>4, <1>5, <3>1, <4>1
      <4>3. Bound' = rest[1].img  BY <4>2 DEF Bound
      <4> QED BY <2>3, <4>1, <4>3
    <3>2. CASE m.how = "hand"
      <4>1. booted \in Kept /\ ~queued'  BY <1>1, <1>2, <2>1, <3>2 DEF Kept, OnDisk
      <4>2. Bound' = booted.img  BY <1>3, <4>1 DEF Bound
      <4> QED BY <2>3, <4>1, <4>2
    <3> QED BY <1>2, <3>1, <3>2
  <2> QED BY <1>1, <2>1, <2>2, <2>4
<1>13. PersonAt("sync", Idle)'  BY DEF PersonAt
<1> QED BY <1>1, <1>3, <1>4, <1>7, <1>8, <1>9, <1>10, <1>11, <1>12, <1>13, OfPerson, IdleMemory,
           PersonStep

(* A build between is removed, what is kept stays.                             *)
LEMMA Dropped ==
  ASSUME UpdatesInv, NEW img, UNCHANGED booted,
         rest' = Only(rest, {d \in OnDisk : d.img # img \/ d.pin})
  PROVE  /\ rest' \in Seq(Deployments) /\ OnDisk' \subseteq OnDisk /\ Kept' = Kept
         /\ Ordered' /\ (~Behind => ~Behind')
         /\ Behind => Behind' /\ NextBack' \subseteq NextBack
<1> DEFINE S == {d \in OnDisk : d.img # img \/ d.pin}
<1>1. rest \in Seq(Deployments) /\ rest' = Only(rest, S) /\ Ordered  BY OfPerson
<1>2. /\ rest' \in Seq(Deployments) /\ Len(rest') <= Len(rest)
      /\ Range(rest') = Range(rest) \cap S
  <2> HIDE DEF S
  <2>1. /\ Only(rest, S) \in Seq(Deployments) /\ Len(Only(rest, S)) <= Len(rest)
        /\ Range(Only(rest, S)) = Range(rest) \cap S
    BY <1>1, OnlyHolds, Zenon
  <2> QED BY <1>1, <2>1, Zenon
<1>3. /\ \A x \in Range(rest') : x \in Range(rest)
      /\ \A x \in Range(rest) : x.pin => x \in Range(rest')
  BY <1>2 DEF OnDisk
<1>4. OnDisk' \subseteq OnDisk /\ Kept' = Kept
  BY <1>3 DEF OnDisk, Kept
<1>5. (Behind <=> \A x \in Range(rest) : ~x.pin) /\ (Behind' <=> \A x \in Range(rest') : ~x.pin)
  BY DEF Behind, Range
<1>6. Len(rest) \in Nat /\ Len(rest) <= 2 /\ Len(rest') \in Nat  BY <1>1, <1>2 DEF Ordered
<1>s. \A n \in Nat : n <= 2 /\ n # 2 => n = 0 \/ n = 1
  OBVIOUS
<1>t. \A n \in {0, 1} : \A i, j \in 1 .. n : i = j  OBVIOUS
<1>7. Len(rest) = 1 => rest' = IF rest[1] \in S THEN <<rest[1]>> ELSE <<>>
  BY <1>1, OnlyShort, Zenon
<1>8. ASSUME Len(rest) = 2
      PROVE  rest' = <<rest[1], rest[2]>> \/ rest' = <<rest[2]>>
  <2>1. rest[2].pin /\ rest[2] \in OnDisk
    <3>1. 2 \in DOMAIN rest  BY <1>1, <1>8
    <3> QED BY <1>1, <1>8, <3>1, OnTheDisk DEF Ordered, UpdatesInv
  <2>2. rest[2] \in S  BY <2>1
  <2> HIDE DEF S
  <2> QED BY <1>1, <1>8, <2>2, OnlyShort, Zenon
<1> HIDE DEF S
<1>9. Ordered'
  <2>1. Len(rest') <= 2  BY <1>2, <1>6
  <2>2. booted'.pin => \A i \in DOMAIN rest' : ~rest'[i].pin
    <3>1. booted.pin => \A x \in Range(rest) : ~x.pin  BY <1>1 DEF Ordered, Range
    <3> QED BY <1>3, <3>1 DEF Range
  <2>3. CASE Len(rest') = 2
    <3>1. Len(rest) = 2
      <4>1. \A m, n \in Nat : m <= n /\ n <= 2 /\ m = 2 => n = 2  OBVIOUS
      <4> QED BY <1>2, <1>6, <2>3, <4>1, Zenon
    <3>2. rest' = <<rest[1], rest[2]>>
      <4>1. Len(<<rest[2]>>) = 1  OBVIOUS
      <4> QED BY <1>8, <2>3, <3>1, <4>1
    <3>3. rest'[1] = rest[1] /\ rest'[2] = rest[2] /\ DOMAIN rest' = {1, 2} /\ DOMAIN rest = {1, 2}
      <4>1. DOMAIN rest' = 1 .. 2 /\ DOMAIN rest = 1 .. 2  BY <1>1, <1>2, <2>3, <3>1
      <4>2. rest'[1] = rest[1] /\ rest'[2] = rest[2]  BY <3>2
      <4> QED BY <4>1, <4>2
    <3>4. /\ rest[2].pin
          /\ \A i, j \in DOMAIN rest : rest[i].pin /\ rest[j].pin => i = j
      BY <1>1, <3>1 DEF Ordered
    <3> QED BY <2>1, <2>2, <3>3, <3>4 DEF Ordered
  <2>4. CASE Len(rest') # 2
    <3>1. Len(rest') = 0 \/ Len(rest') = 1  BY <1>6, <1>s, <2>1, <2>4, Zenon
    <3>2. DOMAIN rest' = 1 .. Len(rest')  BY <1>2
    <3>3. \A i, j \in DOMAIN rest' : i = j  BY <1>t, <3>1, <3>2, Zenon
    <3> QED BY <2>1, <2>2, <2>4, <3>3 DEF Ordered
  <2> QED BY <2>3, <2>4
<1>10. ASSUME Behind PROVE Behind' /\ NextBack' \subseteq NextBack
  <2>1. Behind'  BY <1>3, <1>5, <1>10
  <2>2. Len(rest) # 2
    <3>1. Len(rest) = 2 => 2 \in DOMAIN rest /\ rest[2].pin  BY <1>1 DEF Ordered
    <3> QED BY <1>10, <3>1 DEF Behind
  <2>3. CASE Len(rest) = 0
    <3>1. Len(rest') = 0  BY <1>2, <1>6, <2>3
    <3>2. rest' = <<>>  BY <1>2, <3>1
    <3> QED BY <2>1, <3>2 DEF NextBack
  <2>4. CASE Len(rest) = 1
    <3>1. rest' = <<>> \/ rest' = <<rest[1]>>  BY <1>7, <2>4
    <3>2. rest # <<>> /\ Head(rest) = rest[1]  BY <1>1, <2>4
    <3>3. NextBack = {rest[1].img}  BY <3>2 DEF NextBack
    <3>4. CASE rest' = <<>>  BY <2>1, <3>4 DEF NextBack
    <3>5. CASE rest' = <<rest[1]>>
      <4>1. rest' # <<>> /\ Head(rest') = rest[1]  BY <3>5
      <4>2. NextBack' = {rest[1].img}  BY <4>1 DEF NextBack
      <4> QED BY <2>1, <3>3, <4>2
    <3> QED BY <3>1, <3>4, <3>5
  <2>5. Len(rest) = 0 \/ Len(rest) = 1  BY <1>6, <1>s, <2>2, Zenon
  <2> QED BY <2>3, <2>4, <2>5
<1>11. ~Behind => ~Behind'  BY <1>3, <1>5
<1> QED BY <1>2, <1>4, <1>9, <1>10, <1>11

(* Removing the builds between, one after the other.                           *)
LEMMA DropKeeps == ASSUME UpdatesInv, Drop PROVE UpdatesInv'
<1>0. PICK m \in Memory : m = mem["person"]  BY OfPerson
<1> DEFINE left == m.drop \cap ({d.img : d \in {e \in Range(rest) : ~e.pin}} \cup staged)
<1>1. pc["person"] = "drop" /\ UNCHANGED <<home, going>>  BY <1>0 DEF Drop, Person, Runs
<1>2. /\ going = {} /\ m.how \in {"try", "back", "hand"}
      /\ m.how = "try" => Kept # {}
      /\ m.how = "back" => ~Behind /\ (m.tell => ~queued)
      /\ m.how = "hand" => booted.pin /\ (m.tell => ~queued)
  BY <1>0, <1>1, OfPerson DEF PersonAt
<1>3. CASE left = {}
  <2>1. PICK k \in Memory : k = [m EXCEPT !.drop = {}]
    <3>1. [m EXCEPT !.drop = {}] \in Memory  BY DEF Memory
    <3> QED BY <3>1
  <2>2. k.how = m.how /\ k.tell = m.tell  BY <2>1 DEF Memory
  <2>3. Person("drop", Onward(k), k) /\ UNCHANGED disk  BY <1>0, <1>3, <2>1 DEF Drop
  <2>4. PersonAt(Onward(k), k)
    <3>1. Onward(k) \in {"drop", "start", "next", "unpin"}  BY Onwards
    <3>2. /\ k.how = "try" => Onward(k) \in {"drop", "start"}
          /\ k.how = "back" => Onward(k) \in {"drop", "next"}
          /\ k.how = "hand" => Onward(k) \in {"drop", "unpin"}
      BY Onwards
    <3> HIDE DEF left
    <3> QED BY <1>2, <2>2, <3>1, <3>2 DEF PersonAt
  <2> QED BY <1>1, <2>3, <2>4, PersonLooks
<1>4. CASE left # {}
  <2>1. PICK img \in left :
           LET n == [m EXCEPT !.drop = left \ {img}]
           IN /\ Person("drop", Onward(n), n)
              /\ staged' = staged \ {img}
              /\ rest' = Only(rest, {d \in OnDisk : d.img # img \/ d.pin})
              /\ UNCHANGED <<booted, queued>>
    BY <1>0, <1>4 DEF Drop
  <2>2. PICK k \in Memory : k = [m EXCEPT !.drop = left \ {img}]
    <3>1. left \ {img} \in SUBSET Images  BY DEF Memory
    <3>2. [m EXCEPT !.drop = left \ {img}] \in Memory
      <4> HIDE DEF left
      <4> QED BY <3>1 DEF Memory
    <3> QED BY <3>2
  <2>3. k.how = m.how /\ k.tell = m.tell
    <3> HIDE DEF left
    <3> QED BY <2>2 DEF Memory
  <2>4. PICK next : next = Onward(k)  OBVIOUS
  <2>5. /\ Person("drop", next, k) /\ staged' = staged \ {img}
        /\ rest' = Only(rest, {d \in OnDisk : d.img # img \/ d.pin})
        /\ UNCHANGED <<booted, queued>> /\ registry' = registry
    BY <2>1, <2>2, <2>4 DEF Person
  <2> HIDE DEF left
  <2>6. /\ rest' \in Seq(Deployments) /\ OnDisk' \subseteq OnDisk /\ Kept' = Kept
        /\ Ordered' /\ (~Behind => ~Behind')
        /\ Behind => Behind' /\ NextBack' \subseteq NextBack
    BY <2>5, Dropped
  <2>7. staged' \in Optional(Images) /\ (staged' # {} => staged' = staged)
    <3>1. \A s \in Optional(Images) : \A T : s \ T \in Optional(Images)  BY Optionals, Zenon
    <3>2. staged \ {img} \in Optional(Images)  BY <3>1, OfPerson, Zenon
    <3>3. staged = {} \/ \E x \in Images : staged = {x}  BY OfPerson, Optionals, Zenon
    <3> QED BY <2>5, <3>2, <3>3
  <2>8. Built'  BY <2>5, <2>6, OfPerson DEF Built
  <2>9. HomeKept'  BY <1>1, <2>6, OfPerson DEF HomeKept
  <2>10. GoingBack'  BY <1>1, <1>2 DEF GoingBack
  <2>11. PersonAt(next, k)'
    <3>1. next \in {"drop", "start", "next", "unpin"}  BY <2>4, Onwards
    <3>2. /\ k.how = "try" => next \in {"drop", "start"}
          /\ k.how = "back" => next \in {"drop", "next"}
          /\ k.how = "hand" => next \in {"drop", "unpin"}
      BY <2>4, Onwards
    <3> QED BY <1>2, <2>3, <2>5, <2>6, <3>1, <3>2 DEF PersonAt
  <2>12. booted' = booted /\ queued' = queued  BY <2>5
  <2> QED BY <1>1, <1>2, <2>5, <2>6, <2>7, <2>8, <2>9, <2>10, <2>11, <2>12, OfPerson, PersonStep
<1> QED BY <1>3, <1>4

-------------------------------------------------------------------------------
(* The main loop, the registry, restarts. *)

(* The note of something that is no longer staged is taken away.               *)
LEMMA PendingKeeps == ASSUME UpdatesInv, PendingUpdate PROVE UpdatesInv'
<1>1. /\ staged = {} /\ file' = [file EXCEPT !.note = {}, !.here = FALSE]
      /\ UNCHANGED <<booted, rest, staged, queued, registry, pc, mem, current, trying, pushes,
                     faults, boots, excused, home, going, spoilt, mixed>>
  BY DEF PendingUpdate, disk, bounds, history
<1>2. file' \in Files
  <2>1. {} \in Optional(Images)  BY Optionals, Zenon
  <2> QED BY <1>1, <2>1 DEF UpdatesInv, TypeOK, Files
<1>3. TypeOK'  BY <1>1, <1>2 DEF UpdatesInv, TypeOK
<1>4. Kept' = Kept /\ OnDisk' = OnDisk  BY <1>1 DEF Kept, OnDisk
<1>5. DiskInv'  BY <1>1, <1>4 DEF UpdatesInv, DiskInv, Ordered, Built, Pushed, HomeKept
<1>6. Placed'
  <2>1. PersonAt(pc'["person"], mem'["person"])  BY <1>1 DEF UpdatesInv, Placed
  <2>2. TimerAt(pc'["timer"], mem'["timer"])  BY <1>1 DEF UpdatesInv, Placed
  <2>3. \A d \in Downloads : DownloadAt(pc'[d], mem'[d])  BY <1>1 DEF UpdatesInv, Placed
  <2> QED BY <1>1, <2>1, <2>2, <2>3, PlacesStay DEF Placed
<1>7. GoingBack'  BY <1>1 DEF UpdatesInv, GoingBack, Bound
<1>8. Watched'  BY <1>1 DEF UpdatesInv, Watched, Spoiling
<1>9. Flagged'  BY <1>1 DEF UpdatesInv, Flagged, Tries
<1>10. Noted'  BY <1>1 DEF Noted
<1> QED BY <1>3, <1>5, <1>6, <1>7, <1>8, <1>9, <1>10 DEF UpdatesInv

(* A new build is pushed: nobody went back from that one.                      *)
LEMMA PushKeeps == ASSUME UpdatesInv, Push PROVE UpdatesInv'
<1>1. PICK ref \in Refs :
         /\ pushes < MaxPush /\ pushes' = pushes + 1
         /\ registry' = [registry EXCEPT ![ref] = @ + 1]
         /\ UNCHANGED <<booted, rest, staged, queued, file, pc, mem, current, trying,
                        faults, boots, excused, home, going, spoilt, mixed>>
  BY DEF Push, disk, history
<1>2. /\ registry \in [Refs -> 1 .. (MaxPush + 1)] /\ pushes \in 0 .. MaxPush
      /\ \A r \in Refs : registry[r] <= pushes + 1
      /\ staged \in Optional(Images) /\ mem \in [Threads -> Memory]
  BY DEF UpdatesInv, TypeOK, DiskInv, Pushed
<1>3. /\ registry' \in [Refs -> 1 .. (MaxPush + 1)] /\ pushes' \in 0 .. MaxPush
      /\ \A r \in Refs : registry'[r] <= pushes' + 1 /\ registry[r] <= registry'[r]
      /\ registry'[ref] > registry[ref] /\ \A r \in Refs : r # ref => registry'[r] = registry[r]
      /\ \A r \in Refs : registry[r] \in Nat /\ registry'[r] \in Nat
  BY <1>1, <1>2, Bounds
<1>4. TypeOK'  BY <1>1, <1>3 DEF UpdatesInv, TypeOK
<1>5. Kept' = Kept /\ OnDisk' = OnDisk /\ NextBack' = NextBack /\ (Behind' <=> Behind)
  BY <1>1 DEF Kept, OnDisk, NextBack, Behind
<1>6. /\ \A d \in OnDisk : d.img \in Images /\ d.img.no <= registry[d.img.ref]
      /\ \A s \in staged : s \in Images /\ s.no <= registry[s.ref]
      /\ \A i \in Images : i.ref \in Refs /\ i.no \in Nat
  <2>1. \A d \in OnDisk : d.img \in Images  BY OnTheDisk DEF UpdatesInv, Deployments
  <2>2. \A s \in staged : s \in Images  BY <1>2 DEF Optional
  <2>3. \A i \in Images : i.ref \in Refs /\ i.no \in Nat  BY Bounds DEF Images
  <2> QED BY <2>1, <2>2, <2>3 DEF UpdatesInv, DiskInv, Built
<1>7. Built'
  <2>1. \A a, b, c \in Nat : a <= b /\ b <= c => a <= c  OBVIOUS
  <2>2. \A i \in Images : i.no <= registry[i.ref] => i.no <= registry'[i.ref]
    BY <1>3, <1>6, <2>1
  <2> QED BY <1>1, <1>5, <1>6, <2>2 DEF Built
<1>8. DiskInv'
  <2>1. Ordered' /\ HomeKept'  BY <1>1, <1>5 DEF UpdatesInv, DiskInv, Ordered, HomeKept
  <2> QED BY <1>3, <1>7, <2>1 DEF DiskInv, Pushed
<1>9. \A i \in NextBack : i \in Images /\ i.no <= registry[i.ref]
  <2>1. rest # <<>> => Head(rest) \in OnDisk  BY OnTheDisk DEF UpdatesInv
  <2> QED BY <1>6, <2>1 DEF NextBack
<1>10. ASSUME NEW S \in Optional(Images), Left(S) PROVE Left(S)'
  <2> DEFINE r == FollowingOf(S)
             new == [ref |-> r, no |-> registry'[r]]
  <2>1. r \in Refs  BY OnTheDisk DEF UpdatesInv
  <2>2. [ref |-> r, no |-> registry[r]] \notin NextBack  BY <1>10 DEF Left, Newest
  <2>3. FollowingOf(S)' = r  BY <1>1 DEF FollowingOf
  <2> HIDE DEF r
  <2>4. new \notin NextBack
    <3>1. CASE r = ref
      <4>1. new.ref = ref /\ new.no = registry'[ref]  BY <3>1
      <4>2. new \in NextBack => registry'[ref] <= registry[ref]  BY <1>9, <4>1
      <4> QED BY <1>3, <4>2
    <3>2. CASE r # ref
      <4>1. registry'[r] = registry[r]  BY <1>3, <2>1, <3>2
      <4> QED BY <2>2, <4>1
    <3> QED BY <3>1, <3>2
  <2> QED BY <1>5, <2>3, <2>4 DEF Left, Newest
<1>11. Placed'
  <2>1. PersonAt(pc["person"], mem["person"])'
    BY <1>1, <1>5 DEF UpdatesInv, Placed, PersonAt
  <2>2. TimerAt(pc["timer"], mem["timer"])'
    <3>1. PICK m \in Memory : m = mem["timer"]  BY <1>2 DEF Threads
    <3>2. mem'["timer"] = m /\ pc'["timer"] = pc["timer"]  BY <1>1, <3>1
    <3>3. TimerAt(pc["timer"], m)  BY <3>1 DEF UpdatesInv, Placed
    <3>4. Left(m.asked) => Left(m.asked)'  BY <1>10 DEF Memory
    <3>5. FollowingOf(m.seen)' = FollowingOf(m.seen)  BY <1>1 DEF FollowingOf
    <3>6. Left(m.asked)' => Left(mem["timer"].asked)'  BY <3>2 DEF Left, FollowingOf
    <3>7. FollowingOf(mem["timer"].seen)' = FollowingOf(m.seen)  BY <3>2, <3>5 DEF FollowingOf
    <3> QED BY <1>5, <3>2, <3>3, <3>4, <3>6, <3>7 DEF TimerAt
  <2>3. ASSUME NEW d \in Downloads PROVE DownloadAt(pc[d], mem[d])'
    <3>1. PICK m \in Memory : m = mem[d]  BY <1>2 DEF Threads
    <3>2. mem'[d] = m /\ pc'[d] = pc[d]  BY <1>1, <3>1
    <3>3. DownloadAt(pc[d], m)  BY <3>1 DEF UpdatesInv, Placed
    <3>4. Left(m.asked) => Left(m.asked)'  BY <1>10 DEF Memory
    <3>5. Left(m.asked)' => Left(mem[d].asked)'  BY <3>2 DEF Left, FollowingOf
    <3> QED BY <1>1, <1>5, <3>2, <3>3, <3>4, <3>5 DEF DownloadAt
  <2> QED BY <2>1, <2>2, <2>3 DEF Placed
<1>12. GoingBack'  BY <1>1 DEF UpdatesInv, GoingBack, Bound
<1>13. Watched'  BY <1>1 DEF UpdatesInv, Watched, Spoiling
<1>14. Flagged'  BY <1>1 DEF UpdatesInv, Flagged, Tries
<1>15. Noted'  BY <1>1 DEF UpdatesInv, Noted
<1> QED BY <1>4, <1>8, <1>11, <1>12, <1>13, <1>14, <1>15 DEF UpdatesInv

(* kosherd starts again: nobody remembers anything, and the note is looked at. *)
LEMMA StartsAgain ==
  ASSUME UpdatesInv, Anew, NEW before \in Files, Look(before),
         booted' \in Deployments, rest' \in Seq(Deployments), staged' \in Optional(Images),
         queued' \in BOOLEAN, going' \in Optional(Images),
         Ordered', Built', HomeKept',
         going' # {} => staged' = {} /\ Bound' \in going'
  PROVE  UpdatesInv'
<1>1. /\ pc' = [t \in Threads |-> "idle"] /\ mem' = [t \in Threads |-> Idle]
      /\ boots < MaxBoots /\ boots' = boots + 1 /\ current' = {} /\ trying' = FALSE
      /\ spoilt' = {} /\ mixed' = FALSE /\ UNCHANGED <<registry, pushes, home>>
  BY DEF Anew
<1>2. DOMAIN pc' = Threads /\ mem' \in [Threads -> Memory]  BY <1>1, IdleMemory
<1>3. /\ \A d \in Downloads : pc'[d] = "idle" /\ mem'[d] = Idle
      /\ pc'["person"] = "idle" /\ pc'["timer"] = "idle"
      /\ mem'["person"] = Idle /\ mem'["timer"] = Idle
  BY <1>1 DEF Threads, Downloads
<1>4. \/ file' = [note |-> staged', here |-> staged' # {}] /\ excused' = FALSE
         /\ faults' = faults
      \/ file' = before /\ excused' = TRUE /\ faults < MaxFaults /\ faults' = faults + 1
  BY DEF Look
<1>5. [note |-> staged', here |-> staged' # {}] \in Files
  <2>1. CASE staged' = {}
    <3>1. (staged' # {}) = FALSE  BY <2>1
    <3> QED BY <3>1 DEF Files
  <2>2. CASE staged' # {}
    <3>1. (staged' # {}) = TRUE  BY <2>2
    <3> QED BY <3>1 DEF Files
  <2> QED BY <2>1, <2>2
<1>6. file' \in Files /\ excused' \in BOOLEAN  BY <1>4, <1>5
<1>7. boots' \in 0 .. MaxBoots /\ faults' \in 0 .. MaxFaults
  BY <1>1, <1>4, Bounds DEF UpdatesInv, TypeOK
<1>8. {} \in Optional(Images) /\ {} \in Optional(Downloads)  BY Optionals, Zenon
<1>9. TypeOK'
  BY <1>1, <1>2, <1>6, <1>7, <1>8 DEF UpdatesInv, TypeOK
<1>10. DiskInv'  BY <1>1 DEF UpdatesInv, DiskInv, Pushed
<1>11. Placed'
  <2>1. PersonAt(pc["person"], mem["person"])'  BY <1>3 DEF PersonAt
  <2>2. TimerAt(pc["timer"], mem["timer"])'  BY <1>3 DEF TimerAt
  <2>3. \A d \in Downloads : DownloadAt(pc[d], mem[d])'  BY <1>3 DEF DownloadAt
  <2> QED BY <2>1, <2>2, <2>3 DEF Placed
<1>12. GoingBack'  BY <1>3 DEF GoingBack
<1>13. Watched'  BY <1>1 DEF Watched
<1>14. Flagged'  BY <1>1, <1>3 DEF Flagged, Tries
<1>15. Noted'
  <2> SUFFICES ASSUME ~excused', staged' # {} PROVE file'.here /\ file'.note = staged'
    BY DEF Noted
  <2>1. file' = [note |-> staged', here |-> staged' # {}]  BY <1>4
  <2>2. file'.here = (staged' # {}) /\ file'.note = staged'  BY <2>1, Zenon
  <2> QED BY <2>2
<1> QED BY <1>9, <1>10, <1>11, <1>12, <1>13, <1>14, <1>15 DEF UpdatesInv

(* kosherd's own restart leaves the disk as it is.                             *)
LEMMA CrashKeeps == ASSUME UpdatesInv, Crash PROVE UpdatesInv'
<1>1. Anew /\ Look(file) /\ UNCHANGED <<booted, rest, staged, queued, going, registry, home>>
  BY DEF Crash, Anew, disk
<1>2. file \in Files  BY DEF UpdatesInv, TypeOK
<1>3. Kept' = Kept /\ OnDisk' = OnDisk  BY <1>1 DEF Kept, OnDisk
<1>4. Ordered' /\ HomeKept'  BY <1>1, <1>3, OfPerson DEF Ordered, HomeKept
<1>5. Built'  BY <1>1, <1>3, OfPerson DEF Built
<1>6. going' # {} => staged' = {} /\ Bound' \in going'
  BY <1>1 DEF UpdatesInv, GoingBack, Bound
<1> QED BY <1>1, <1>2, <1>4, <1>5, <1>6, OfPerson, StartsAgain

(* The running deployment and what follows it, after a restart into a new one. *)
LEMMA InFront ==
  ASSUME NEW X, NEW b \in X, NEW list \in Seq(X)
  PROVE  /\ <<b>> \o list \in Seq(X) /\ Len(<<b>> \o list) = Len(list) + 1
         /\ (<<b>> \o list)[1] = b
         /\ \A i \in 1 .. Len(list) : (<<b>> \o list)[i + 1] = list[i]
         /\ Range(<<b>> \o list) = {b} \cup Range(list)
<1> DEFINE l == <<b>> \o list
<1>1. l \in Seq(X) /\ Len(l) = Len(list) + 1  OBVIOUS
<1>2. l[1] = b  OBVIOUS
<1>3. \A i \in 1 .. Len(list) : l[i + 1] = list[i]  OBVIOUS
<1>4. DOMAIN l = 1 .. Len(list) + 1 /\ DOMAIN list = 1 .. Len(list) /\ Len(list) \in Nat  BY <1>1
<1> HIDE DEF l
<1>5. Range(l) \subseteq {b} \cup Range(list)
  <2>1. ASSUME NEW i \in 1 .. Len(list) + 1 PROVE l[i] \in {b} \cup Range(list)
    <3>1. CASE i = 1  BY <1>2, <3>1
    <3>2. CASE i # 1
      <4>1. i - 1 \in 1 .. Len(list) /\ (i - 1) + 1 = i  BY <1>4, <3>2
      <4>2. l[i] = list[i - 1]  BY <1>3, <4>1
      <4> QED BY <1>4, <4>1, <4>2 DEF Range
    <3> QED BY <3>1, <3>2
  <2> QED BY <1>4, <2>1 DEF Range
<1>6. {b} \cup Range(list) \subseteq Range(l)
  <2>1. b \in Range(l)  BY <1>2, <1>4 DEF Range
  <2>2. ASSUME NEW i \in 1 .. Len(list) PROVE list[i] \in Range(l)
    <3>1. i + 1 \in DOMAIN l /\ l[i + 1] = list[i]  BY <1>3, <1>4
    <3> QED BY <3>1 DEF Range
  <2> QED BY <1>4, <2>1, <2>2 DEF Range
<1>7. Range(l) = {b} \cup Range(list)  BY <1>5, <1>6
<1> QED BY <1>1, <1>2, <1>3, <1>7 DEF l

(* After a restart into another deployment the disk is in order.               *)
LEMMA NewOrder ==
  ASSUME booted \in Deployments, NEW K \in Seq(Deployments), rest' = <<booted>> \o K,
         Len(K) = 0 \/ Len(K) = 1,
         Len(K) = 1 => K[1].pin /\ ~booted.pin /\ ~booted'.pin,
         booted'.pin => ~booted.pin
  PROVE  Ordered' /\ rest' \in Seq(Deployments)
<1>1. /\ rest' \in Seq(Deployments) /\ Len(rest') = Len(K) + 1 /\ rest'[1] = booted
      /\ \A i \in 1 .. Len(K) : rest'[i + 1] = K[i]
  BY InFront
<1>2. CASE Len(K) = 0
  <2>1. Len(rest') = 1 /\ DOMAIN rest' = {1}
    <3>1. Len(rest') = 1  BY <1>1, <1>2
    <3>2. DOMAIN rest' = 1 .. 1  BY <1>1, <3>1
    <3> QED BY <3>1, <3>2
  <2> QED BY <1>1, <2>1 DEF Ordered
<1>3. CASE Len(K) = 1
  <2>1. Len(rest') = 2 /\ DOMAIN rest' = {1, 2}
    <3>1. Len(rest') = 2  BY <1>1, <1>3
    <3>2. DOMAIN rest' = 1 .. 2  BY <1>1, <3>1
    <3> QED BY <3>1, <3>2
  <2>2. rest'[2] = K[1]
    <3>1. 1 \in 1 .. Len(K) /\ 1 + 1 = 2  BY <1>3
    <3> QED BY <1>1, <3>1, Zenon
  <2> QED BY <1>1, <1>3, <2>1, <2>2 DEF Ordered
<1> QED BY <1>1, <1>2, <1>3

(* The machine restarts: what was staged runs, or what a rollback queued.      *)
LEMMA RebootKeeps == ASSUME UpdatesInv, Reboot PROVE UpdatesInv'
<1>1. /\ Anew /\ staged' = {} /\ queued' = FALSE /\ going' = {}
      /\ Look([file EXCEPT !.here = FALSE]) /\ registry' = registry /\ home' = home
  BY DEF Reboot, Anew
<1>2. [file EXCEPT !.here = FALSE] \in Files  BY DEF UpdatesInv, TypeOK, Files
<1>3. /\ booted \in Deployments /\ rest \in Seq(Deployments) /\ Len(rest) \in Nat
      /\ Len(rest) <= 2 /\ (Len(rest) = 2 => rest[2].pin)
      /\ (booted.pin => \A i \in DOMAIN rest : ~rest[i].pin)
      /\ \A i, j \in DOMAIN rest : rest[i].pin /\ rest[j].pin => i = j
      /\ \A i \in DOMAIN rest : rest[i] \in Deployments
  BY OfPerson, OnTheDisk DEF Ordered, UpdatesInv
<1>4. \A n \in Nat : n <= 2 => n = 0 \/ n = 1 \/ n = 2  OBVIOUS
<1>5. ASSUME booted' \in Deployments, rest' \in Seq(Deployments), Ordered', Built', Kept' = Kept
      PROVE  UpdatesInv'
  <2>1. HomeKept'  BY <1>1, <1>5, OfPerson DEF HomeKept
  <2> QED BY <1>1, <1>2, <1>5, <2>1, OfPerson, StartsAgain
<1>6. CASE staged # {}
  <2>1. PICK s \in staged : booted' = [img |-> s, pin |-> FALSE]  BY <1>6 DEF Reboot
  <2>2. PICK K : K = Only(rest, Kept)  OBVIOUS
  <2>3. rest' = <<booted>> \o K  BY <1>6, <2>2 DEF Reboot
  <2>4. s \in Images /\ s.no <= registry[s.ref]  BY OfPerson DEF Optional, Built
  <2>5. booted' \in Deployments /\ ~booted'.pin /\ booted'.img = s  BY <2>1, <2>4 DEF Deployments
  <2>6. K \in Seq(Deployments) /\ Len(K) <= Len(rest) /\ Range(K) = Range(rest) \cap Kept
    BY <1>3, <2>2, OnlyHolds, Zenon
  <2>7. Len(K) = 0 \/ Len(K) = 1
    <3>1. CASE Len(rest) = 2
      <4>1. 1 \in DOMAIN rest /\ 2 \in DOMAIN rest  BY <1>3, <3>1
      <4>2. rest[1] \notin Kept
        <5>1. ~rest[1].pin  BY <1>3, <3>1, <4>1
        <5> QED BY <5>1 DEF Kept
      <4>3. K = <<rest[2]>> \/ K = <<>>  BY <1>3, <2>2, <3>1, <4>2, OnlyShort, Zenon
      <4> QED BY <4>3
    <3>2. CASE Len(rest) # 2
      <4>1. Len(rest) = 0 \/ Len(rest) = 1  BY <1>3, <1>4, <3>2, Zenon
      <4>2. Len(K) \in Nat  BY <2>6
      <4>3. \A n \in Nat : n <= 0 \/ n <= 1 => n = 0 \/ n = 1  OBVIOUS
      <4>4. Len(K) <= 0 \/ Len(K) <= 1  BY <2>6, <4>1
      <4> QED BY <4>2, <4>3, <4>4, Zenon
    <3> QED BY <3>1, <3>2
  <2>8. ASSUME Len(K) = 1 PROVE K[1].pin /\ ~booted.pin
    <3>1. K[1] \in Range(K)
      <4>1. 1 \in DOMAIN K  BY <2>6, <2>8
      <4> QED BY <4>1 DEF Range
    <3>2. K[1] \in Range(rest) /\ K[1].pin  BY <2>6, <3>1 DEF Kept
    <3>3. booted.pin => ~K[1].pin  BY <1>3, <3>2 DEF Range
    <3> QED BY <3>2, <3>3
  <2>9. Ordered' /\ rest' \in Seq(Deployments)
    BY <1>3, <2>3, <2>5, <2>6, <2>7, <2>8, NewOrder
  <2>10. Range(rest') = {booted} \cup (Range(rest) \cap Kept)
    BY <1>3, <2>3, <2>6, InFront
  <2>11. OnDisk' = {booted', booted} \cup (Range(rest) \cap Kept)  BY <2>10 DEF OnDisk
  <2>12. Kept' = Kept  BY <2>5, <2>11 DEF Kept, OnDisk
  <2>13. Built'
    <3>1. \A d \in OnDisk' : d = booted' \/ d \in OnDisk  BY <2>11 DEF OnDisk
    <3> QED BY <1>1, <2>4, <2>5, <3>1, OfPerson DEF Built
  <2> QED BY <1>5, <2>5, <2>9, <2>12, <2>13
<1>7. CASE staged = {} /\ queued /\ rest # <<>>
  <2>1. PICK K : K = Tail(rest)  OBVIOUS
  <2>2. booted' = rest[1] /\ rest' = <<booted>> \o K
    <3>1. booted' = Head(rest) /\ rest' = <<booted>> \o Tail(rest)  BY <1>7 DEF Reboot
    <3>2. Head(rest) = rest[1]  BY <1>7, OnTheDisk DEF UpdatesInv
    <3> QED BY <2>1, <3>1, <3>2
  <2>3. /\ K \in Seq(Deployments) /\ Len(K) = Len(rest) - 1
        /\ \A i \in 1 .. Len(K) : K[i] = rest[i + 1]
    BY <1>3, <1>7, <2>1
  <2>4. 1 \in DOMAIN rest /\ booted' \in Deployments  BY <1>3, <1>7, <2>2
  <2>5. Len(K) = 0 \/ Len(K) = 1
    <3>1. Len(rest) # 0  BY <1>3, <1>7
    <3>2. Len(rest) = 1 \/ Len(rest) = 2  BY <1>3, <1>4, <3>1, Zenon
    <3> QED BY <2>3, <3>2
  <2>6. ASSUME Len(K) = 1 PROVE K[1].pin /\ ~booted.pin /\ ~booted'.pin
    <3>1. Len(rest) = 2  BY <1>3, <2>3, <2>6
    <3>2. 1 \in 1 .. Len(K) /\ 1 + 1 = 2  BY <2>6
    <3>3. K[1] = rest[2]  BY <2>3, <3>2, Zenon
    <3>4. 2 \in DOMAIN rest /\ rest[2].pin  BY <1>3, <3>1
    <3>5. 1 # 2  OBVIOUS
    <3>6. ~booted.pin /\ ~rest[1].pin  BY <1>3, <2>4, <3>4, <3>5, Zenon
    <3> QED BY <2>2, <3>3, <3>4, <3>6
  <2>7. booted'.pin => ~booted.pin  BY <1>3, <2>2, <2>4
  <2>8. Ordered' /\ rest' \in Seq(Deployments)
    BY <1>3, <2>2, <2>3, <2>5, <2>6, <2>7, NewOrder
  <2>9. Range(rest) = {rest[1]} \cup Range(K)
    <3>1. DOMAIN rest = 1 .. Len(rest) /\ DOMAIN K = 1 .. Len(K) /\ Len(rest) = Len(K) + 1
      BY <1>3, <2>3, <2>5
    <3>2. \A i \in DOMAIN K : i + 1 \in DOMAIN rest /\ K[i] = rest[i + 1]  BY <2>3, <2>5, <3>1
    <3>3. \A i \in DOMAIN rest : i = 1 \/ (i - 1 \in DOMAIN K /\ rest[i] = K[i - 1])
      BY <2>3, <2>5, <3>1
    <3>4. Range(K) \subseteq Range(rest)  BY <3>2 DEF Range
    <3>5. Range(rest) \subseteq {rest[1]} \cup Range(K)  BY <3>3 DEF Range
    <3>6. rest[1] \in Range(rest)  BY <2>4 DEF Range
    <3> QED BY <3>4, <3>5, <3>6
  <2>10. Range(rest') = {booted} \cup Range(K)  BY <1>3, <2>2, <2>3, InFront
  <2>11. OnDisk' = OnDisk  BY <2>2, <2>9, <2>10 DEF OnDisk
  <2>12. Kept' = Kept  BY <2>11 DEF Kept
  <2>13. Built'  BY <1>1, <2>11, OfPerson DEF Built
  <2> QED BY <1>5, <2>4, <2>8, <2>12, <2>13
<1>8. CASE staged = {} /\ ~ (queued /\ rest # <<>>)
  <2>1. UNCHANGED <<booted, rest>>  BY <1>8 DEF Reboot
  <2>2. Kept' = Kept /\ OnDisk' = OnDisk  BY <2>1 DEF Kept, OnDisk
  <2>3. Ordered'  BY <2>1, OfPerson DEF Ordered
  <2>4. Built'  BY <1>1, <2>2, OfPerson DEF Built
  <2>5. booted' \in Deployments /\ rest' \in Seq(Deployments)  BY <1>3, <2>1
  <2> QED BY <1>5, <2>2, <2>3, <2>4, <2>5
<1> QED BY <1>6, <1>7, <1>8

-------------------------------------------------------------------------------
(* The invariant holds, and what follows from it. *)

(* A machine just installed.                                                   *)
LEMMA UpdatesBegin == ASSUME Init PROVE UpdatesInv
<1>1. /\ registry = [r \in Refs |-> 1]
      /\ booted = [img |-> [ref |-> First, no |-> 1], pin |-> FALSE]
      /\ rest = <<>> /\ staged = {} /\ queued = FALSE /\ file = NoFile
      /\ pc = [t \in Threads |-> "idle"] /\ mem = [t \in Threads |-> Idle]
      /\ current = {} /\ trying = FALSE
      /\ pushes = 0 /\ faults = 0 /\ boots = 0
      /\ home = {} /\ going = {} /\ spoilt = {}
      /\ excused = FALSE /\ mixed = FALSE
  BY DEF Init
<1>2. First \in Refs  BY RefAssumption DEF Refs
<1>3. 1 \in 1 .. (MaxPush + 1) /\ 0 \in 0 .. MaxPush /\ 0 \in 0 .. MaxFaults /\ 0 \in 0 .. MaxBoots
  BY Bounds
<1>4. booted \in Deployments  BY <1>1, <1>2, <1>3 DEF Deployments, Images
<1>5. {} \in Optional(Images) /\ {} \in Optional(Downloads)  BY Optionals, Zenon
<1>6. TypeOK
  <2>1. registry \in [Refs -> 1 .. (MaxPush + 1)]  BY <1>1, <1>3
  <2>2. mem \in [Threads -> Memory] /\ DOMAIN pc = Threads /\ file \in Files
    BY <1>1, IdleMemory
  <2>3. rest \in Seq(Deployments)  BY <1>1
  <2> QED BY <1>1, <1>3, <1>4, <1>5, <2>1, <2>2, <2>3 DEF TypeOK
<1>7. DiskInv
  <2>1. OnDisk = {booted} /\ Kept = {}
    <3>1. Range(rest) = {}  BY <1>1 DEF Range
    <3> QED BY <1>1, <3>1 DEF OnDisk, Kept
  <2>2. Ordered  BY <1>1 DEF Ordered
  <2>3. Built
    <3>1. booted.img.no = 1 /\ registry[booted.img.ref] = 1  BY <1>1, <1>2
    <3> QED BY <1>1, <2>1, <3>1 DEF Built
  <2>4. Pushed  BY <1>1 DEF Pushed
  <2> QED BY <1>1, <2>2, <2>3, <2>4 DEF DiskInv, HomeKept
<1>8. \A t \in Threads : pc[t] = "idle"  BY <1>1
<1>9. Placed
  <2>1. PersonAt(pc["person"], mem["person"])  BY <1>8 DEF PersonAt, Threads
  <2>2. TimerAt(pc["timer"], mem["timer"])  BY <1>8 DEF TimerAt, Threads
  <2>3. \A d \in Downloads : DownloadAt(pc[d], mem[d])  BY <1>8 DEF DownloadAt, Threads
  <2> QED BY <2>1, <2>2, <2>3 DEF Placed
<1>10. GoingBack /\ Watched /\ Noted  BY <1>1 DEF GoingBack, Watched, Noted
<1>11. Flagged
  <2>1. \A d \in Downloads : pc[d] = "idle"  BY <1>8 DEF Threads
  <2> QED BY <1>1, <2>1 DEF Flagged, Tries
<1> QED BY <1>6, <1>7, <1>9, <1>10, <1>11 DEF UpdatesInv

(* Every step keeps the invariant.                                             *)
LEMMA UpdatesStep == ASSUME UpdatesInv, Next PROVE UpdatesInv'
<1>1. CASE \E t \in Threads : Fails(t) \/ Sync(t)
  <2>1. PICK t \in Threads : Fails(t) \/ Sync(t)  BY <1>1
  <2>2. CASE t \in Downloads  BY <2>1, <2>2, FailsKeeps, SyncKeeps
  <2>3. CASE t \in {"person", "timer"}  BY <2>1, <2>3, CallFails, CallSyncs
  <2> QED BY <2>2, <2>3 DEF Threads
<1>2. CASE \E d \in Downloads : Pull(d) \/ Pulled(d) \/ PullFails(d) \/ Judge(d) \/ Discard(d)
  <2>1. PICK d \in Downloads : Pull(d) \/ Pulled(d) \/ PullFails(d) \/ Judge(d) \/ Discard(d)
    BY <1>2
  <2> QED BY <2>1, PullKeeps, PulledKeeps, PullFailsKeeps, JudgeKeeps, DiscardKeeps
<1>3. CASE AutoLoad \/ AutoLook \/ AutoSkip \/ AutoCheck  BY <1>3, TimerStep
<1>4. CASE AutoBefore  BY <1>4, AutoBegins
<1>5. CASE ApplyUpdate \/ SetChannel \/ TryImage \/ ReturnToKept \/ Rollback
  BY <1>5, CallsBegin
<1>6. CASE ChannelLook \/ TrialLook \/ KeptLook \/ NextLook  BY <1>6, CallsLook
<1>7. CASE Pin \/ Drop \/ Unpin  BY <1>7, PinKeeps, DropKeeps, UnpinKeeps
<1>8. CASE ReturnBack \/ GoBack  BY <1>8, RollbacksKeep
<1>9. CASE PersonStart  BY <1>9, PersonBegins
<1>10. CASE PendingUpdate \/ Push \/ Crash \/ Reboot
  BY <1>10, PendingKeeps, PushKeeps, CrashKeeps, RebootKeeps
<1> QED BY <1>1, <1>2, <1>3, <1>4, <1>5, <1>6, <1>7, <1>8, <1>9, <1>10 DEF Next

(* A step of nobody.                                                           *)
LEMMA UpdatesStutter == ASSUME UpdatesInv, UNCHANGED vars PROVE UpdatesInv'
<1>1. /\ UNCHANGED <<booted, rest, staged, queued, registry, file, pc, mem, current, trying, pushes,
                     faults, boots, excused, home, going, spoilt, mixed>>
  BY DEF vars
<1>2. TypeOK'  BY <1>1 DEF UpdatesInv, TypeOK
<1>3. Kept' = Kept /\ OnDisk' = OnDisk  BY <1>1 DEF Kept, OnDisk
<1>4. DiskInv'  BY <1>1, <1>3 DEF UpdatesInv, DiskInv, Ordered, Built, Pushed, HomeKept
<1>5. Placed'
  <2>1. PersonAt(pc'["person"], mem'["person"])  BY <1>1 DEF UpdatesInv, Placed
  <2>2. TimerAt(pc'["timer"], mem'["timer"])  BY <1>1 DEF UpdatesInv, Placed
  <2>3. \A d \in Downloads : DownloadAt(pc'[d], mem'[d])  BY <1>1 DEF UpdatesInv, Placed
  <2> QED BY <1>1, <2>1, <2>2, <2>3, PlacesStay DEF Placed
<1>6. GoingBack'  BY <1>1 DEF UpdatesInv, GoingBack, Bound
<1>7. Watched'  BY <1>1 DEF UpdatesInv, Watched, Spoiling
<1>8. Flagged'  BY <1>1 DEF UpdatesInv, Flagged, Tries
<1>9. Noted'  BY <1>1 DEF UpdatesInv, Noted
<1> QED BY <1>2, <1>4, <1>5, <1>6, <1>7, <1>8, <1>9 DEF UpdatesInv

(* The invariant of the update machinery.                                      *)
THEOREM UpdatesInvariant == Spec => []UpdatesInv
<1>1. Init => UpdatesInv  BY UpdatesBegin
<1>2. UpdatesInv /\ [Next]_vars => UpdatesInv'  BY UpdatesStep, UpdatesStutter
<1> QED BY <1>1, <1>2, PTL DEF Spec

(* Every variable stays what it is, whoever calls and whatever fails.          *)
THEOREM UpdatesTyped == Spec => []TypeOK
<1>1. UpdatesInv => TypeOK  BY DEF UpdatesInv
<1> QED BY <1>1, UpdatesInvariant, PTL

(* Once all is done nothing a failed download staged waits for the restart, and  *)
(* the note names what is staged (_auto_finished, _sync_pending).              *)
THEOREM QuietAgrees == Spec => []QuietInStep
<1>1. ASSUME UpdatesInv PROVE QuietInStep
  <2>1. \A d \in Downloads : d \in Threads  BY DEF Threads
  <2>2. FailureStagesNothing
    BY <1>1, <2>1 DEF FailureStagesNothing, Quiet, UpdatesInv, Watched, Spoiling
  <2>3. NoteKeptUndisturbed
    BY <1>1 DEF NoteKeptUndisturbed, Quiet, UpdatesInv, Noted
  <2> QED BY <2>2, <2>3 DEF QuietInStep
<1> QED BY <1>1, UpdatesInvariant, PTL

(* What ran before the first try stays on the disk, and "try done" goes back to *)
(* it at the next restart (try_image, return_to_kept).                         *)
THEOREM HomeIsSafe == Spec => HomeIsKept
<1>1. ASSUME UpdatesInv PROVE HomeStays
  <2> SUFFICES ASSUME home # {} PROVE \E d \in OnDisk : d.img \in home  BY DEF HomeStays
  <2>1. Kept # {} /\ home = {d.img : d \in Kept}
    BY <1>1 DEF UpdatesInv, DiskInv, HomeKept
  <2> QED BY <2>1 DEF Kept
<1>2. ASSUME UpdatesInv PROVE ReturnGoesHome
  <2> SUFFICES ASSUME Reboot, going # {} PROVE booted'.img \in going  BY DEF ReturnGoesHome
  <2>1. staged = {} /\ Bound \in going  BY <1>2 DEF UpdatesInv, GoingBack
  <2>2. CASE queued /\ rest # <<>>
    <3>1. booted' = Head(rest)  BY <2>1, <2>2 DEF Reboot
    <3>2. Head(rest) = rest[1]  BY <1>2, <2>2, OnTheDisk DEF UpdatesInv
    <3> QED BY <2>1, <2>2, <3>1, <3>2 DEF Bound
  <2>3. CASE ~ (queued /\ rest # <<>>)
    <3>1. booted' = booted  BY <2>1, <2>3 DEF Reboot
    <3> QED BY <2>1, <2>3, <3>1 DEF Bound
  <2> QED BY <2>2, <2>3
<1>3. UpdatesInv /\ UpdatesInv' => HomeStays' /\ ReturnGoesHome
  <2>1. UpdatesInv' => HomeStays'  BY <1>1, PTL
  <2> QED BY <1>2, <2>1
<1> QED BY <1>3, UpdatesInvariant, PTL DEF HomeIsKept

(* While a download has the lock nobody else stages anything.                  *)
LEMMA WhilePulling ==
  ASSUME UpdatesInv, NEW d \in Downloads, pc[d] = "pull", Next
  PROVE  Pulled(d) \/ PullFails(d) \/ (staged' \in {staged, {}} /\ pc'[d] # "sync")
<1>1. d \in Threads /\ d \notin {"person", "timer"} /\ Locked /\ DOMAIN pc = Threads
  BY DEF Threads, Downloads, Locked, UpdatesInv, TypeOK
<1>2. ASSUME NEW t \in Threads, t # d, NEW place, NEW m, Go(t, place, m), UNCHANGED disk
      PROVE  staged' \in {staged, {}} /\ pc'[d] # "sync"
  <2>1. pc' = [pc EXCEPT ![t] = place] /\ staged' = staged  BY <1>2 DEF Go, disk
  <2>2. pc'[d] = pc[d]  BY <1>1, <1>2, <2>1
  <2> QED BY <2>1, <2>2
<1>3. CASE \E t \in Threads : Fails(t) \/ Sync(t)
  <2>1. PICK t \in Threads : Fails(t) \/ Sync(t)  BY <1>3
  <2>2. t # d  BY <2>1 DEF Fails, Sync, Runs, Bootc, Ostree
  <2>3. Go(t, "idle", Idle) /\ UNCHANGED disk  BY <2>1 DEF Fails, Sync, End
  <2> QED BY <1>2, <2>2, <2>3
<1>4. CASE \E e \in Downloads : Pull(e) \/ Pulled(e) \/ PullFails(e) \/ Judge(e) \/ Discard(e)
  <2>1. PICK e \in Downloads : Pull(e) \/ Pulled(e) \/ PullFails(e) \/ Judge(e) \/ Discard(e)
    BY <1>4
  <2>2. ~Pull(e) /\ ~Judge(e) /\ ~Discard(e)  BY <1>1 DEF Pull, Judge, Discard, Runs
  <2>3. pc[e] = "pull"  BY <2>1, <2>2 DEF Pulled, PullFails
  <2>4. e = d  BY <2>3, PullsAlone
  <2> QED BY <2>1, <2>2, <2>4
<1>5. CASE AutoLoad \/ AutoSkip
  <2>1. PICK place, m : Go("timer", place, m)  BY <1>5 DEF AutoLoad, AutoSkip, End
  <2>2. UNCHANGED disk /\ "timer" \in Threads  BY <1>5 DEF AutoLoad, AutoSkip, Same, Threads
  <2> QED BY <1>1, <1>2, <2>1, <2>2
<1>6. ~ (AutoLook \/ AutoCheck \/ AutoBefore)
  BY <1>1 DEF AutoLook, AutoCheck, AutoBefore, Timer, Runs
<1>7. ASSUME NEW place, NEW next, NEW m, Person(place, next, m) PROVE FALSE
  BY <1>1, <1>7 DEF Person, Runs
<1>8. ASSUME NEW next, NEW m, Starts(next, m) PROVE staged' \in {staged, {}} /\ pc'[d] # "sync"
  <2>1. Go("person", next, m) /\ UNCHANGED disk /\ "person" \in Threads
    BY <1>8 DEF Starts, Threads
  <2> QED BY <1>1, <1>2, <2>1
<1>9. CASE ApplyUpdate \/ SetChannel \/ TryImage \/ ReturnToKept \/ Rollback
  BY <1>8, <1>9 DEF ApplyUpdate, SetChannel, TryImage, ReturnToKept, Rollback
<1>10. ~ (ChannelLook \/ TrialLook \/ KeptLook \/ NextLook)
  BY <1>7, Zenon DEF ChannelLook, TrialLook, KeptLook, NextLook
<1>11. ~ (Pin \/ Drop \/ Unpin \/ ReturnBack \/ GoBack)
  BY <1>7, Zenon DEF Pin, Drop, Unpin, ReturnBack, GoBack
<1>12. CASE PersonStart
  <2> DEFINE k == mem["person"]
  <2>1. Download("person", k.ref, k.how, {})  BY <1>12 DEF PersonStart
  <2>2. PICK e \in Downloads :
           /\ pc[e] = "idle"
           /\ pc' = [pc EXCEPT ![e] = IF Locked THEN "wait" ELSE "pull", !["person"] = "idle"]
           /\ UNCHANGED disk
    BY <2>1 DEF Download
  <2>3. e # d /\ staged' = staged  BY <2>2 DEF disk
  <2>4. pc'[d] = pc[d]  BY <1>1, <2>2, <2>3
  <2> QED BY <2>3, <2>4
<1>13. CASE PendingUpdate \/ Push
  <2>1. UNCHANGED disk /\ pc' = pc  BY <1>13 DEF PendingUpdate, Push
  <2> QED BY <2>1 DEF disk
<1>14. CASE Crash \/ Reboot
  <2>1. pc'[d] = "idle"  BY <1>1, <1>14 DEF Crash, Reboot, Anew
  <2>2. staged' = staged \/ staged' = {}  BY <1>14 DEF Crash, Reboot, disk
  <2> QED BY <2>1, <2>2
<1> QED BY <1>3, <1>4, <1>5, <1>6, <1>9, <1>10, <1>11, <1>12, <1>13, <1>14 DEF Next

(* A download fetches what may be fetched, and is told of as what it was        *)
(* (after_check, _on_update_finished).                                         *)
THEOREM FetchesWhatItMay == Spec => DownloadsBehave
<1>1. ASSUME UpdatesInv, [Next]_vars, NEW d \in Downloads,
             pc[d] = "pull", mem[d].how = "auto", staged = mem[d].asked, staged' # staged
      PROVE  staged' \cap NextBack = {}
  <2>1. Next  BY <1>1 DEF vars
  <2>2. CASE staged' = {}  BY <2>2
  <2>3. CASE Pulled(d) \/ PullFails(d)
    <3>1. Stage(d)  BY <1>1, <2>3 DEF Pulled, PullFails
    <3>2. mem[d].ref = "" /\ Left(staged)  BY <1>1, OfDownload DEF DownloadAt
    <3>3. staged' = {Newest(Following)}  BY <1>1, <3>1, <3>2, Staged
    <3>4. Newest(Following) \notin NextBack
      BY <3>2 DEF Left, FollowingOf, Following
    <3> QED BY <3>3, <3>4
  <2> QED BY <1>1, <2>1, <2>2, <2>3, WhilePulling
<1>2. ASSUME UpdatesInv, [Next]_vars, NEW d \in Downloads,
             pc[d] = "pull", pc'[d] = "sync", ~mixed
      PROVE  mem'[d].tell <=> mem[d].how \in {"try", "auto"}
  <2>1. Next  BY <1>2 DEF vars
  <2>2. Pulled(d)
    <3>1. Pulled(d) \/ PullFails(d)  BY <1>2, <2>1, WhilePulling
    <3>2. ~PullFails(d)
      <4>1. d \in Threads /\ DOMAIN pc = Threads
        BY <1>2, OfDownload DEF UpdatesInv, TypeOK
      <4> QED BY <1>2, <4>1 DEF PullFails, Go, End
    <3> QED BY <3>1, <3>2
  <2> DEFINE m == [mem[d] EXCEPT !.tell = Flag(d) \/ mem[d].how = "auto",
                                 !.ref = "", !.seen = {}, !.asked = {}]
  <2>3. d \in Threads /\ mem[d] \in Memory /\ mem \in [Threads -> Memory]
    BY <1>2, OfDownload DEF UpdatesInv, TypeOK
  <2>4. mem'[d] = m  BY <2>2, <2>3 DEF Pulled, Go
  <2>5. m.tell <=> Flag(d) \/ mem[d].how = "auto"
    <3>1. m.tell = (Flag(d) \/ mem[d].how = "auto")  BY <2>3, Zenon DEF Memory
    <3> QED BY <3>1
  <2>6. trying <=> mem[d].how = "try"
    <3>1. Tries(d) <=> mem[d].how = "try"  BY <1>2 DEF Tries
    <3>2. Tries(d) => trying  BY <1>2 DEF UpdatesInv, Flagged
    <3>3. trying => Tries(d)
      <4>1. \A e \in Downloads : Tries(e) => pc[e] # "idle"  BY DEF Tries
      <4>2. \A e \in Downloads : pc[e] # "idle" => e = d  BY <1>2 DEF UpdatesInv, Flagged
      <4> QED BY <1>2, <4>1, <4>2 DEF UpdatesInv, Flagged
    <3> QED BY <3>1, <3>2, <3>3
  <2>7. mem[d].how \in {"hand", "try", "auto"}  BY <1>2, OfDownload DEF DownloadAt
  <2> HIDE DEF m
  <2>8. Flag(d) <=> mem[d].how # "auto" /\ trying  BY DEF Flag
  <2> QED BY <2>4, <2>5, <2>6, <2>7, <2>8
<1>3. UpdatesInv /\ [Next]_vars =>
        [/\ \A d \in Downloads : pc[d] = "pull" /\ mem[d].how = "auto" /\ staged = mem[d].asked
                                    /\ staged' # staged
               => staged' \cap NextBack = {}]_vars
  BY <1>1
<1>4. UpdatesInv /\ [Next]_vars =>
        [\A d \in Downloads : pc[d] = "pull" /\ pc'[d] = "sync" /\ ~mixed
               => (mem'[d].tell <=> mem[d].how \in {"try", "auto"})]_vars
  BY <1>2
<1>5. Spec => LeftIsLeft  BY <1>3, UpdatesInvariant, PTL DEF Spec, LeftIsLeft
<1>6. Spec => TriedIsTold  BY <1>4, UpdatesInvariant, PTL DEF Spec, TriedIsTold
<1> QED BY <1>5, <1>6 DEF DownloadsBehave
===============================================================================
