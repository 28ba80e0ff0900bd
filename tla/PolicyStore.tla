------------------------------ MODULE PolicyStore ------------------------------
(***************************************************************************)
(* How kosherd changes the policy of a machine.  Every D-Bus call runs on    *)
(* the daemon's one main loop: _handle_call snapshots the policy in memory,  *)
(* the method changes it, policy.save writes policy.json, apply_policy       *)
(* renders and loads enforcement in several steps, and any exception puts    *)
(* the snapshot back.  The daemon or the whole machine may stop between any  *)
(* two steps; systemd restarts the daemon, and kosher-firewall.service loads *)
(* the boot ruleset before it after a reboot.                                *)
(*                                                                           *)
(* A policy document is abstracted to its revision, the part enforcement is  *)
(* rendered from (val), a part that enforces nothing (look: groups, desktop  *)
(* layout) and a machine-wide switch whose systemd unit is changed before    *)
(* the policy is saved (sw: tailscaled, keyd, the automatic-update timer).   *)
(***************************************************************************)
EXTENDS Naturals, FiniteSets

CONSTANTS Values,      \* what enforcement can be rendered from
          MaxRev,      \* bound: no call starts at this revision
          MaxCrash,    \* bound: how often the daemon or the machine stops
          MaxDocs,     \* bound: how many policies the portal signs
          Faults       \* the steps that may fail in this instance

(* Where a step can fail.  "save", "unit", "unitback" (putting a unit back or *)
(* in step, which is only logged) and "settle" come before the policy file   *)
(* is replaced, the others after it.                                         *)
FaultKinds == {"save", "unit", "unitback", "settle", "check", "load", "files", "after"}
AfterCommit == {"check", "load", "files", "after"}

ASSUME RevAssumption == {MaxRev, MaxCrash, MaxDocs} \subseteq Nat
ASSUME FaultAssumption == Faults \subseteq FaultKinds
ASSUME ValuesAssumption == Values # {}

VARIABLES mem,         \* Daemon.policy
          disk,        \* /var/lib/kosher/policy.json
          boot,        \* what /etc/kosher/nft/kosher.nft was rendered from
          live,        \* what the kernel's ruleset was rendered from
          files,       \* the proxy's, resolver's and search service's files
          unit,        \* is the switch's systemd unit running
          snapshot,    \* _handle_call's deep copy
          job,         \* the kind of the work in progress
          pc,          \* its next step
          answer,      \* the outcome of the last call
          issued,      \* the documents the portal has signed
          crashes,     \* how often the daemon or the machine has stopped
          saved,       \* history: every val the disk has held
          top          \* history: the highest revision the disk has held

daemon == <<mem, snapshot, job, pc, answer>>
enforced == <<boot, live, files>>
history == <<saved, top>>
vars == <<mem, disk, boot, live, files, unit, snapshot, job, pc, answer,
          issued, crashes, saved, top>>

Switch == {"unset", "on", "off"}
Docs == [rev: Nat, val: Values, look: BOOLEAN, sw: Switch]
Jobs == {"none", "set", "look", "setup", "switch", "sync", "start", "refresh"}
Steps == {"down", "idle", "unit", "save", "unitback", "check", "boot", "load",
          "files", "after", "reply"}
Calls == {"set", "look", "setup", "switch", "sync"}

TypeOK == /\ mem \in Docs /\ disk \in Docs /\ snapshot \in Docs
          /\ boot \in Values /\ live \in Values /\ files \in Values
          /\ unit \in BOOLEAN
          /\ job \in Jobs /\ pc \in Steps
          /\ answer \in {"none", "ok", "refused"}
          /\ issued \subseteq Docs
          /\ crashes \in Nat
          /\ saved \subseteq Values
          /\ top \in Nat

(* A machine that has applied its policy once, with the switch undecided. *)
Init == \E v \in Values :
          /\ disk = [rev |-> 1, val |-> v, look |-> FALSE, sw |-> "unset"]
          /\ mem = disk /\ snapshot = disk
          /\ boot = v /\ live = v /\ files = v
          /\ unit = FALSE
          /\ job = "none" /\ pc = "down" /\ answer = "none"
          /\ issued = {} /\ crashes = 0
          /\ saved = {v} /\ top = 1

-------------------------------------------------------------------------------
(* The small decisions of the code, some preceded by a mistaken form of it   *)
(* that a property below must notice.                                        *)

(* verify_envelope: is a signed document newer than the policy in memory? *)
Newer(d) == d.rev > mem.rev

(* save: the revision is counted up unless the document is the portal's. *)
SameRevision == mem
NewDoc == IF job = "sync" THEN mem ELSE [mem EXCEPT !.rev = @ + 1]

(* save: a document that is refused leaves the file alone. *)
AfterFailedSave == NewDoc
DiskAfterRefusal == disk

(* _roll_back *)
KeepChange == mem
RolledBack == snapshot

(* What a switch's unit is put back to. *)
KeepUnit == unit
UnitBefore == snapshot.sw = "on"

(* _save_and_apply: the file first. *)
FirstStep == "save"

(* run: the daemon applies the policy when it starts. *)
NoStartApply == "reply"
StartStep == "check"

-------------------------------------------------------------------------------
(* Helpers: the end of a call, as _handle_call and _roll_back do it. *)

Fails(step) == step \in Faults

(* An exception: the snapshot is put back and the caller is refused. *)
Refuse == /\ mem' = RolledBack
          /\ pc' = "idle" /\ job' = "none" /\ answer' = "refused"
          /\ UNCHANGED snapshot

(* The apply of a start or of an idle callback only logs what fails. *)
GiveUp == IF job \in Calls THEN Refuse
          ELSE /\ pc' = "idle" /\ job' = "none"
               /\ UNCHANGED <<mem, snapshot, answer>>

Go(step) == /\ pc' = step
            /\ UNCHANGED <<mem, snapshot, job, answer>>

Begin(kind, changed, step) ==
  /\ pc = "idle"
  /\ snapshot' = mem
  /\ mem' = changed
  /\ job' = kind /\ pc' = step /\ answer' = "none"

-------------------------------------------------------------------------------
(* Calls. *)

(* A setting enforcement is rendered from, saved and applied. *)
CallSet == \E v \in Values :
             /\ mem.rev < MaxRev
             /\ Begin("set", [mem EXCEPT !.val = v], FirstStep)
             /\ UNCHANGED <<disk, enforced, unit, issued, crashes, history>>

(* A group saved or deleted, a desktop layout: saved, nothing to apply. *)
CallLook == /\ mem.rev < MaxRev
            /\ Begin("look", [mem EXCEPT !.look = ~@], "save")
            /\ UNCHANGED <<disk, enforced, unit, issued, crashes, history>>

(* FinishSetup with a guardian password: save, apply, then the boot menu's  *)
(* password, which may fail.                                                *)
CallSetup == /\ mem.rev < MaxRev
             /\ Begin("setup", [mem EXCEPT !.look = TRUE], "save")
             /\ UNCHANGED <<disk, enforced, unit, issued, crashes, history>>

(* The Tailscale, keyd and update switches: the unit first. *)
CallSwitch == \E on \in {"on", "off"} :
                /\ mem.rev < MaxRev
                /\ Begin("switch", [mem EXCEPT !.sw = on], "unit")
                /\ UNCHANGED <<disk, enforced, unit, issued, crashes, history>>

(* sync_now: a document the portal signed, if it is newer than memory.  A    *)
(* fetch may return any document the portal ever signed.                    *)
CallSync == \E d \in issued :
              /\ Newer(d)
              /\ Begin("sync", d, "save")
              /\ UNCHANGED <<disk, enforced, unit, issued, crashes, history>>

(* The portal signs one more policy for the device. *)
PortalSign == \E v \in Values, r \in 1..MaxRev :
                /\ \A d \in issued : d.rev < r
                /\ Cardinality(issued) < MaxDocs
                /\ issued' = issued \cup
                     {[rev |-> r, val |-> v, look |-> FALSE, sw |-> "on"]}
                /\ UNCHANGED <<daemon, disk, enforced, unit, crashes, history>>

-------------------------------------------------------------------------------
(* The steps of a call. *)

SetUnit == /\ pc = "unit"
           /\ \/ /\ unit' = (mem.sw = "on")
                 /\ Go("save")
              \/ /\ Fails("unit")
                 /\ unit' = unit
                 /\ Refuse
           /\ UNCHANGED <<disk, enforced, issued, crashes, history>>

(* policy.save: the revision is counted up in memory, the document checked  *)
(* against the schema and renamed into place.                               *)
Save == /\ pc = "save"
        /\ LET doc == NewDoc
           IN \/ /\ mem' = doc /\ disk' = doc
                 /\ saved' = saved \cup {doc.val}
                 /\ top' = IF doc.rev > top THEN doc.rev ELSE top
                 /\ pc' = IF job \in {"look", "switch"} THEN "reply" ELSE "check"
                 /\ UNCHANGED <<snapshot, job, answer>>
              \/ /\ Fails("save")
                 /\ IF job = "switch" THEN Go("unitback") ELSE Refuse
                 /\ disk' = DiskAfterRefusal
                 /\ UNCHANGED history
        /\ UNCHANGED <<enforced, unit, issued, crashes>>

(* A switch whose save failed puts its unit back, or logs that it cannot. *)
UnitBack == /\ pc = "unitback"
            /\ \/ unit' = UnitBefore
               \/ Fails("unitback") /\ unit' = unit
            /\ Refuse
            /\ UNCHANGED <<disk, enforced, issued, crashes, history>>

(* nft --check on the rendered ruleset, before anything is touched. *)
Check == /\ pc = "check"
         /\ Go("boot") \/ (Fails("check") /\ GiveUp)
         /\ UNCHANGED <<disk, enforced, unit, issued, crashes, history>>

WriteBoot == /\ pc = "boot"
             /\ boot' = mem.val
             /\ Go("load")
             /\ UNCHANGED <<disk, live, files, unit, issued, crashes, history>>

Load == /\ pc = "load"
        /\ \/ live' = mem.val /\ Go("files")
           \/ Fails("load") /\ live' = live /\ GiveUp
        /\ UNCHANGED <<disk, boot, files, unit, issued, crashes, history>>

(* The proxy's rules, the search policy and the resolver's drop-ins. *)
WriteFiles == /\ pc = "files"
              /\ \/ /\ files' = mem.val
                    /\ Go(IF job = "setup" THEN "after" ELSE "reply")
                 \/ Fails("files") /\ files' = files /\ GiveUp
              /\ UNCHANGED <<disk, boot, live, unit, issued, crashes, history>>

After == /\ pc = "after"
         /\ Go("reply") \/ (Fails("after") /\ Refuse)
         /\ UNCHANGED <<disk, enforced, unit, issued, crashes, history>>

Reply == /\ pc = "reply"
         /\ pc' = "idle" /\ job' = "none"
         /\ answer' = IF job \in Calls THEN "ok" ELSE answer
         /\ UNCHANGED <<mem, snapshot, disk, enforced, unit, issued, crashes, history>>

-------------------------------------------------------------------------------
(* The daemon's life. *)

(* kosherd stops: an exception in the main loop, a kill, an update. *)
Crash == /\ pc # "down" /\ crashes < MaxCrash
         /\ crashes' = crashes + 1
         /\ pc' = "down" /\ job' = "none" /\ answer' = "none"
         /\ UNCHANGED <<mem, snapshot, disk, enforced, unit, issued, history>>

(* The machine reboots: kosher-firewall.service loads the boot ruleset. *)
Reboot == /\ crashes < MaxCrash
          /\ crashes' = crashes + 1
          /\ live' = boot
          /\ pc' = "down" /\ job' = "none" /\ answer' = "none"
          /\ UNCHANGED <<mem, snapshot, disk, boot, files, unit, issued, history>>

(* _settle_advanced decides a switch an older image did not have. *)
Settled(on) == [rev |-> disk.rev + 1, val |-> disk.val, look |-> disk.look, sw |-> on]

(* __init__ and _settle_advanced: the policy is read back, an undecided      *)
(* switch is decided (a failing save is logged), the unit is put in step.   *)
Start == /\ pc = "down"
         /\ \E on \in {"on", "off"} :
              LET settled == Settled(on) IN
              /\ IF disk.sw = "unset"
                 THEN /\ mem' = settled
                      /\ \/ /\ disk' = settled
                            /\ top' = IF settled.rev > top THEN settled.rev ELSE top
                         \/ Fails("settle") /\ UNCHANGED <<disk, top>>
                 ELSE mem' = disk /\ UNCHANGED <<disk, top>>
              /\ unit' = (mem'.sw = "on") \/ (Fails("unitback") /\ unit' = unit)
         /\ snapshot' = mem'
         /\ job' = "start" /\ pc' = StartStep
         /\ UNCHANGED <<answer, enforced, issued, crashes, saved>>

(* An idle callback applies the policy again: a Syncthing install needs its  *)
(* port closed, or Tailscale's names changed.                               *)
Refresh == /\ pc = "idle"
           /\ pc' = "check" /\ job' = "refresh"
           /\ UNCHANGED <<mem, snapshot, answer, disk, enforced, unit, issued,
                          crashes, history>>

CallStep == CallSet \/ CallLook \/ CallSetup \/ CallSwitch \/ CallSync
Work == \/ SetUnit \/ Save \/ UnitBack \/ Check \/ WriteBoot \/ Load
        \/ WriteFiles \/ After \/ Reply
Stop == Crash \/ Reboot

Next == CallStep \/ Work \/ Stop \/ Start \/ Refresh \/ PortalSign

(* The main loop runs on and systemd restarts the daemon (Restart=on-failure). *)
Fairness == WF_vars(Work) /\ WF_vars(Start)

Spec == Init /\ [][Next]_vars
FairSpec == Spec /\ Fairness

-------------------------------------------------------------------------------
(* Properties. *)

(* Between calls, memory, the file and every part of enforcement hold the    *)
(* same policy, whatever was refused, interrupted or restarted before.  Holds *)
(* when no step fails once policy.save has replaced the file                 *)
(* (_save_and_apply, _roll_back).                                            *)
AgreedWhenIdle ==
  pc = "idle" => /\ mem = disk
                 /\ boot = disk.val /\ live = disk.val /\ files = disk.val

(* Whatever fails, nothing is ever enforced that was not written to          *)
(* policy.json first (the order of _save_and_apply, and the startup apply).  *)
EnforcedWasSaved == {boot, live, files} \subseteq saved

(* The file's revision never goes down: it is what tells two writers apart.  *)
RevisionNeverGoesBack == [][disk'.rev >= disk.rev]_vars

(* sync_now takes a document only if it is newer than every policy the       *)
(* machine has ever had on disk.                                             *)
SyncMovesForward == [][pc = "idle" /\ job' = "sync" => mem'.rev > top]_vars

(* On a machine without a portal, a switch's unit and the policy agree        *)
(* between calls (the switches put the unit back when the save fails; a start *)
(* puts it in step).  A document of the portal changes the policy alone.      *)
SwitchInStep == pc = "idle" /\ issued = {} => (unit <=> mem.sw = "on")

(* A call that was refused changed neither the file nor enforcement.         *)
FailedCallIsNoCall ==
  [][answer' = "refused" /\ answer # "refused" =>
       disk' = snapshot /\ live' = snapshot.val]_vars

(* After any stop, the kernel's ruleset catches up with the policy file.     *)
EnforcementCatchesUp == []<>(live = disk.val)

(* The stored policy as AtomicPolicy sees it. *)
Phase == IF job \in Calls THEN "open" ELSE IF answer = "none" THEN "idle" ELSE answer

Atomic == INSTANCE AtomicPolicy WITH stored <- disk, before <- snapshot, phase <- Phase

(* Every call is all or nothing on the policy file, under a higher revision. *)
ImplementsAtomic == Atomic!Spec
===============================================================================
