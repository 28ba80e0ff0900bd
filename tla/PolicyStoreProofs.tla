--------------------------- MODULE PolicyStoreProofs ---------------------------
(***************************************************************************)
(* Proofs about PolicyStore, for every set of values, every bound and every  *)
(* number of crashes and portal documents.  TypeCorrect and SavedFirst hold  *)
(* whatever fails, SwitchesFollow whatever fails but putting a unit back;     *)
(* the others assume that no step fails after the policy file has been        *)
(* replaced (NoLateFault): after such a failure memory goes back to the copy  *)
(* and the file does not.                                                    *)
(***************************************************************************)
EXTENDS PolicyStore, TLAPS

NoLateFault == Faults \cap (AfterCommit \cup {"settle"}) = {}

-------------------------------------------------------------------------------
(* Every variable keeps its type. *)

(* A machine that has applied its policy once has the right types. *)
LEMMA TypeInit == Init => TypeOK
<1> SUFFICES ASSUME Init PROVE TypeOK
  OBVIOUS
<1>1. PICK v \in Values :
        /\ disk = [rev |-> 1, val |-> v, look |-> FALSE, sw |-> "unset"]
        /\ mem = disk /\ snapshot = disk /\ boot = v /\ live = v /\ files = v
        /\ saved = {v} /\ unit = FALSE
        /\ job = "none" /\ pc = "down" /\ answer = "none"
        /\ issued = {} /\ crashes = 0 /\ top = 1
  BY DEF Init
<1>2. disk \in Docs
  BY <1>1 DEF Docs, Switch
<1>3. job \in Jobs /\ pc \in Steps
      /\ answer \in {"none", "ok", "refused"} /\ issued \subseteq Docs
      /\ crashes \in Nat /\ top \in Nat
  BY <1>1 DEF Jobs, Steps
<1> QED BY <1>1, <1>2, <1>3 DEF TypeOK

(* A call that begins (_handle_call) keeps the types. *)
LEMMA TypeCalls == ASSUME TypeOK, CallStep PROVE TypeOK'
<1> USE DEF TypeOK, Docs, Jobs, Steps, Switch, Begin, FirstStep, enforced, history
<1>1. CASE CallSet BY <1>1 DEF CallSet
<1>2. CASE CallLook BY <1>2 DEF CallLook
<1>3. CASE CallSetup BY <1>3 DEF CallSetup
<1>4. CASE CallSwitch BY <1>4 DEF CallSwitch
<1>5. CASE CallSync BY <1>5 DEF CallSync
<1> QED BY <1>1, <1>2, <1>3, <1>4, <1>5 DEF CallStep

(* Every step of a call, done or failed, keeps the types. *)
LEMMA TypeWork == ASSUME TypeOK, Work PROVE TypeOK'
<1> USE DEF TypeOK, Docs, Jobs, Steps, Switch, Go, Refuse, RolledBack, GiveUp,
            enforced, history
<1>1. CASE SetUnit BY <1>1 DEF SetUnit
<1>2. CASE Save BY <1>2 DEF Save, NewDoc, DiskAfterRefusal
<1>3. CASE UnitBack BY <1>3 DEF UnitBack, UnitBefore
<1>4. CASE Check BY <1>4 DEF Check
<1>5. CASE WriteBoot BY <1>5 DEF WriteBoot
<1>6. CASE Load BY <1>6 DEF Load
<1>7. CASE WriteFiles BY <1>7 DEF WriteFiles
<1>8. CASE After BY <1>8 DEF After
<1>9. CASE Reply BY <1>9 DEF Reply
<1> QED BY <1>1, <1>2, <1>3, <1>4, <1>5, <1>6, <1>7, <1>8, <1>9 DEF Work

(* A stop, a start, a refresh and the portal keep the types. *)
LEMMA TypeLife ==
  ASSUME TypeOK, Stop \/ Start \/ Refresh \/ PortalSign PROVE TypeOK'
<1> USE DEF TypeOK, Docs, Jobs, Steps, Switch, enforced, history, daemon
<1>1. CASE Crash BY <1>1 DEF Crash
<1>2. CASE Reboot BY <1>2 DEF Reboot
<1>3. CASE Start
  <2>1. PICK on \in {"on", "off"} :
          /\ mem' \in {Settled(on), disk}
          /\ disk' \in {Settled(on), disk}
          /\ top' \in {disk.rev + 1, top}
    BY <1>3 DEF Start, Settled
  <2>2. Settled(on) \in Docs
    BY <2>1 DEF Settled
  <2>3. mem' \in Docs /\ disk' \in Docs /\ snapshot' \in Docs /\ top' \in Nat
    BY <1>3, <2>1, <2>2 DEF Start
  <2>4. unit' \in BOOLEAN
    BY <1>3 DEF Start
  <2> QED BY <1>3, <2>3, <2>4 DEF Start, StartStep
<1>4. CASE Refresh BY <1>4 DEF Refresh
<1>5. CASE PortalSign
  <2>1. PICK v \in Values, r \in 1..MaxRev :
          issued' = issued \cup
            {[rev |-> r, val |-> v, look |-> FALSE, sw |-> "on"]}
    BY <1>5 DEF PortalSign
  <2>2. r \in Nat
    BY <2>1, RevAssumption
  <2>3. [rev |-> r, val |-> v, look |-> FALSE, sw |-> "on"] \in Docs
    BY <2>1, <2>2
  <2>4. issued' \subseteq Docs
    BY <2>1, <2>3
  <2> QED BY <1>5, <2>4 DEF PortalSign
<1> QED BY <1>1, <1>2, <1>3, <1>4, <1>5 DEF Stop

(* The type invariant holds in every reachable state, whatever fails. *)
THEOREM TypeCorrect == Spec => []TypeOK
<1>1. TypeOK /\ [Next]_vars => TypeOK'
  <2> SUFFICES ASSUME TypeOK, [Next]_vars PROVE TypeOK'
    OBVIOUS
  <2>1. CASE Next BY <2>1, TypeCalls, TypeWork, TypeLife DEF Next
  <2>2. CASE UNCHANGED vars BY <2>2 DEF vars, TypeOK
  <2> QED BY <2>1, <2>2
<1> QED BY <1>1, TypeInit, PTL DEF Spec

-------------------------------------------------------------------------------
(* Nothing is enforced that was not saved first. *)

(* Once saved, and between calls, the policy in memory was on disk before;   *)
(* so was the snapshot a failed call goes back to.                           *)
SavedInv ==
  /\ EnforcedWasSaved
  /\ disk.val \in saved
  /\ pc \in {"idle", "check", "boot", "load", "files", "after", "reply"} => mem.val \in saved
  /\ pc # "down" => snapshot.val \in saved

(* SavedInv holds at first. *)
LEMMA SavedInit == Init => SavedInv
  BY DEF Init, SavedInv, EnforcedWasSaved

(* Every step keeps SavedInv: what is applied was saved before. *)
LEMMA SavedStep == TypeOK /\ SavedInv /\ [Next]_vars => SavedInv'
<1> SUFFICES ASSUME TypeOK, SavedInv, [Next]_vars PROVE SavedInv'
  OBVIOUS
<1> USE DEF SavedInv, EnforcedWasSaved, TypeOK, Docs, Begin, FirstStep, Go, Refuse,
            RolledBack, GiveUp, enforced, history, daemon
<1>1. CASE CallSet BY <1>1 DEF CallSet
<1>2. CASE CallLook BY <1>2 DEF CallLook
<1>3. CASE CallSetup BY <1>3 DEF CallSetup
<1>4. CASE CallSwitch BY <1>4 DEF CallSwitch
<1>5. CASE CallSync BY <1>5 DEF CallSync
<1>6. CASE SetUnit BY <1>6 DEF SetUnit
<1>7. CASE Save BY <1>7 DEF Save, NewDoc, DiskAfterRefusal
<1>8. CASE UnitBack BY <1>8 DEF UnitBack
<1>9. CASE Check BY <1>9 DEF Check
<1>10. CASE WriteBoot BY <1>10 DEF WriteBoot
<1>11. CASE Load BY <1>11 DEF Load
<1>12. CASE WriteFiles BY <1>12 DEF WriteFiles
<1>13. CASE After BY <1>13 DEF After
<1>14. CASE Reply BY <1>14 DEF Reply
<1>15. CASE Stop BY <1>15 DEF Stop, Crash, Reboot
<1>16. CASE Start
  <2>1. mem'.val = disk.val /\ disk'.val = disk.val /\ snapshot' = mem' /\ saved' = saved
    BY <1>16 DEF Start, Settled
  <2> QED BY <1>16, <2>1 DEF Start
<1>17. CASE Refresh BY <1>17 DEF Refresh
<1>18. CASE PortalSign BY <1>18 DEF PortalSign
<1>19. CASE UNCHANGED vars BY <1>19 DEF vars
<1> QED
  BY <1>1, <1>2, <1>3, <1>4, <1>5, <1>6, <1>7, <1>8, <1>9, <1>10, <1>11, <1>12,
     <1>13, <1>14, <1>15, <1>16, <1>17, <1>18, <1>19 DEF Next, CallStep, Work

(* Whatever fails, every ruleset and rules file in force was rendered from a *)
(* policy that had been written to policy.json.                              *)
THEOREM SavedFirst == Spec => []EnforcedWasSaved
<1>1. SavedInv => EnforcedWasSaved BY DEF SavedInv
<1> QED BY <1>1, SavedInit, SavedStep, TypeCorrect, PTL DEF Spec

-------------------------------------------------------------------------------
(* Without late faults: agreement, and all-or-nothing calls. *)

InForce == boot = disk.val /\ live = disk.val /\ files = disk.val

(* What holds at each step of the work in progress: before the commit the    *)
(* file still holds the snapshot, after it memory's policy is on disk under  *)
(* a higher revision, and enforcement is brought in line part by part.       *)
CommitInv ==
  /\ pc = "down" => job = "none" /\ answer = "none"
  /\ pc = "idle" => job = "none" /\ mem = disk /\ InForce
  /\ pc \in {"unit", "save", "unitback"} =>
       /\ job \in Calls /\ snapshot = disk /\ InForce
       /\ IF job = "sync" THEN mem.rev > disk.rev ELSE mem.rev = disk.rev
       /\ job \in {"look", "switch"} => mem.val = disk.val
  /\ pc \in {"unit", "unitback"} => job = "switch"
  /\ pc \in {"check", "boot", "load", "files", "after", "reply"} =>
       /\ mem = disk /\ job # "none"
       /\ job \in Calls => disk.rev > snapshot.rev
  /\ pc = "load" => boot = disk.val
  /\ pc = "files" => boot = disk.val /\ live = disk.val
  /\ pc \in {"after", "reply"} => InForce
  /\ job # "none" => answer # "open"
  /\ job \in Calls => answer = "none"
  /\ job = "start" => answer = "none"
  /\ top = disk.rev

(* CommitInv holds at first. *)
LEMMA CommitInit == Init => CommitInv
  BY DEF Init, CommitInv

(* Every step keeps CommitInv while nothing fails after the save. *)
LEMMA CommitStep ==
  ASSUME NoLateFault PROVE TypeOK /\ CommitInv /\ [Next]_vars => CommitInv'
<1> SUFFICES ASSUME TypeOK, CommitInv, [Next]_vars PROVE CommitInv'
  OBVIOUS
<1>0. ~Fails("check") /\ ~Fails("load") /\ ~Fails("files") /\ ~Fails("after")
      /\ ~Fails("settle")
  BY NoLateFault DEF NoLateFault, AfterCommit, Fails
<1> USE DEF CommitInv, InForce, TypeOK, Docs, Begin, FirstStep, Go, Refuse,
            RolledBack, GiveUp, enforced, history, daemon, Calls
<1>1. CASE CallSet BY <1>1 DEF CallSet
<1>2. CASE CallLook BY <1>2 DEF CallLook
<1>3. CASE CallSetup BY <1>3 DEF CallSetup
<1>4. CASE CallSwitch BY <1>4 DEF CallSwitch
<1>5. CASE CallSync BY <1>5 DEF CallSync, Newer
<1>6. CASE SetUnit BY <1>6 DEF SetUnit
<1>7. CASE Save BY <1>7 DEF Save, NewDoc, DiskAfterRefusal
<1>8. CASE UnitBack BY <1>8 DEF UnitBack
<1>9. CASE Check BY <1>0, <1>9 DEF Check
<1>10. CASE WriteBoot BY <1>10 DEF WriteBoot
<1>11. CASE Load BY <1>0, <1>11 DEF Load
<1>12. CASE WriteFiles BY <1>0, <1>12 DEF WriteFiles
<1>13. CASE After BY <1>0, <1>13 DEF After
<1>14. CASE Reply BY <1>14 DEF Reply
<1>15. CASE Stop BY <1>15 DEF Stop, Crash, Reboot
<1>16. CASE Start
  <2>1. /\ mem' = disk' /\ snapshot' = disk' /\ job' = "start" /\ pc' = "check"
        /\ job = "none" /\ answer' = "none"
    BY <1>0, <1>16 DEF Start, StartStep
  <2>2. CASE disk.sw = "unset"
    <3>1. top' = disk'.rev
      BY <1>0, <1>16, <2>2 DEF Start, Settled
    <3> QED BY <2>1, <3>1
  <2>3. CASE disk.sw # "unset"
    BY <1>16, <2>1, <2>3 DEF Start
  <2> QED BY <2>2, <2>3
<1>17. CASE Refresh BY <1>17 DEF Refresh
<1>18. CASE PortalSign BY <1>18 DEF PortalSign
<1>19. CASE UNCHANGED vars BY <1>19 DEF vars
<1> QED
  BY <1>1, <1>2, <1>3, <1>4, <1>5, <1>6, <1>7, <1>8, <1>9, <1>10, <1>11, <1>12,
     <1>13, <1>14, <1>15, <1>16, <1>17, <1>18, <1>19 DEF Next, CallStep, Work

(* CommitInv holds in every reachable state. *)
LEMMA CommitHolds == ASSUME NoLateFault PROVE Spec => []CommitInv
<1>1. TypeOK /\ CommitInv /\ [Next]_vars => CommitInv' BY CommitStep
<1> QED BY <1>1, CommitInit, TypeCorrect, PTL DEF Spec

(* Between calls, memory, the file and enforcement agree. *)
THEOREM Agreement == ASSUME NoLateFault PROVE Spec => []AgreedWhenIdle
<1>1. CommitInv => AgreedWhenIdle BY DEF CommitInv, AgreedWhenIdle, InForce
<1> QED BY <1>1, CommitHolds, PTL

(* The file's revision never goes down: local saves count it up, a portal's  *)
(* document is taken only if it is newer, and memory is never behind.        *)
THEOREM RevisionForward == ASSUME NoLateFault PROVE Spec => RevisionNeverGoesBack
<1>1. TypeOK /\ CommitInv /\ [Next]_vars => [disk'.rev >= disk.rev]_vars
  <2> SUFFICES ASSUME TypeOK, CommitInv, [Next]_vars PROVE disk'.rev >= disk.rev
    OBVIOUS
  <2> USE DEF TypeOK, Docs, CommitInv
  <2>1. CASE Save BY <2>1 DEF Save, NewDoc, DiskAfterRefusal
  <2>2. CASE Start BY <2>2 DEF Start, Settled
  <2>3. CASE disk' = disk BY <2>3
  <2> QED
    BY <2>1, <2>2, <2>3 DEF Next, vars, CallStep, CallSet, CallLook, CallSetup,
       CallSwitch, CallSync, Work, SetUnit, UnitBack, Check, WriteBoot, Load,
       WriteFiles, After, Reply, Stop, Crash, Reboot, Refresh, PortalSign
<1> QED BY <1>1, CommitHolds, TypeCorrect, PTL DEF Spec, RevisionNeverGoesBack

(* sync_now never takes a document that is not newer than everything the     *)
(* disk has held.                                                            *)
THEOREM SyncForward == ASSUME NoLateFault PROVE Spec => SyncMovesForward
<1>1. TypeOK /\ CommitInv /\ [Next]_vars
        => [pc = "idle" /\ job' = "sync" => mem'.rev > top]_vars
  <2> SUFFICES ASSUME TypeOK, CommitInv, [Next]_vars, pc = "idle", job' = "sync"
               PROVE  mem'.rev > top
    OBVIOUS
  <2>1. CASE CallSync BY <2>1 DEF CallSync, Begin, Newer, CommitInv
  <2>2. CASE ~CallSync
    BY <2>2 DEF Next, vars, CommitInv, CallStep, CallSet, CallLook, CallSetup,
       CallSwitch, Begin, Work, SetUnit, Save, UnitBack, Check, WriteBoot, Load,
       WriteFiles, After, Reply, Stop, Crash, Reboot, Start, Refresh, PortalSign,
       daemon
  <2> QED BY <2>1, <2>2
<1> QED BY <1>1, CommitHolds, TypeCorrect, PTL DEF Spec, SyncMovesForward

(* A call that was refused (_roll_back) changed neither the file nor what the *)
(* kernel enforces: the steps that refuse one come before the save.           *)
THEOREM RefusedChangesNothing == ASSUME NoLateFault PROVE Spec => FailedCallIsNoCall
<1>1. TypeOK /\ CommitInv /\ [Next]_vars
        => [answer' = "refused" /\ answer # "refused" =>
              disk' = snapshot /\ live' = snapshot.val]_vars
  <2> SUFFICES ASSUME TypeOK, CommitInv, [Next]_vars, answer' = "refused", answer # "refused"
               PROVE  disk' = snapshot /\ live' = snapshot.val
    OBVIOUS
  <2>0. ~Fails("check") /\ ~Fails("load") /\ ~Fails("files") /\ ~Fails("after")
    BY NoLateFault DEF NoLateFault, AfterCommit, Fails
  <2> USE DEF CommitInv, InForce, enforced, history, Go
  <2>1. CASE SetUnit
    BY <2>1 DEF SetUnit
  <2>2. CASE Save
    BY <2>2 DEF Save, DiskAfterRefusal
  <2>3. CASE UnitBack
    BY <2>3 DEF UnitBack
  <2>4. CASE ~ (SetUnit \/ Save \/ UnitBack)
    BY <2>0, <2>4 DEF Next, vars, CallStep, CallSet, CallLook, CallSetup, CallSwitch, CallSync,
       Begin, Work, Check, WriteBoot, Load, WriteFiles, After, Reply, Stop, Crash, Reboot,
       Start, Refresh, PortalSign, daemon
  <2> QED BY <2>1, <2>2, <2>3, <2>4
<1> QED BY <1>1, CommitHolds, TypeCorrect, PTL DEF Spec, FailedCallIsNoCall

-------------------------------------------------------------------------------
(* A switch and its systemd unit, whatever else fails, before the save or     *)
(* after it, as long as putting the unit back or in step does not.            *)

\* Where a call may still be refused, the unit must be the copy's, or be put
\* back on the way; and only the switch's own call changes the switch.
SwitchInv ==
  issued = {} =>
    /\ job # "sync"
    /\ pc = "unit" => (unit <=> snapshot.sw = "on")
    /\ pc \notin {"down", "unit", "unitback"} => (unit <=> mem.sw = "on")
    /\ pc \in {"unit", "unitback"} => job = "switch"
    /\ job = "switch" => pc \in {"unit", "save", "unitback", "reply"}
    /\ job \in Calls \ {"switch"} => mem.sw = snapshot.sw
    /\ pc = "save" => job \in Calls
    /\ pc = "after" => job = "setup"

(* SwitchInv holds at first. *)
LEMMA SwitchInit == Init => SwitchInv
  BY DEF Init, SwitchInv, Calls

(* Every step keeps a switch and its unit together, or on the way there. *)
LEMMA SwitchStep ==
  ASSUME "unitback" \notin Faults PROVE TypeOK /\ SwitchInv /\ [Next]_vars => SwitchInv'
<1> SUFFICES ASSUME TypeOK, SwitchInv, [Next]_vars, issued' = {} PROVE SwitchInv'
  BY DEF SwitchInv
<1>0. issued = {} /\ ~ Fails("unitback")
  <2>1. ~ PortalSign
    BY DEF PortalSign
  <2>2. issued' = issued
    BY <2>1 DEF Next, vars, CallStep, CallSet, CallLook, CallSetup, CallSwitch, CallSync, Work,
       SetUnit, Save, UnitBack, Check, WriteBoot, Load, WriteFiles, After, Reply, Stop, Crash,
       Reboot, Start, Refresh
  <2> QED BY <2>2 DEF Fails
<1> USE DEF SwitchInv, TypeOK, Docs, Begin, FirstStep, Go, Refuse, RolledBack, GiveUp,
            enforced, history, daemon, Calls
<1>1. CASE CallSet BY <1>0, <1>1 DEF CallSet
<1>2. CASE CallLook BY <1>0, <1>2 DEF CallLook
<1>3. CASE CallSetup BY <1>0, <1>3 DEF CallSetup
<1>4. CASE CallSwitch BY <1>0, <1>4 DEF CallSwitch
<1>5. CASE CallSync BY <1>0, <1>5 DEF CallSync
<1>6. CASE SetUnit BY <1>0, <1>6 DEF SetUnit
<1>7. CASE Save BY <1>0, <1>7 DEF Save, NewDoc
<1>8. CASE UnitBack BY <1>0, <1>8 DEF UnitBack, UnitBefore
<1>9. CASE Check BY <1>0, <1>9 DEF Check
<1>10. CASE WriteBoot BY <1>0, <1>10 DEF WriteBoot
<1>11. CASE Load
  <2>1. CASE Go("files") BY <1>0, <1>11, <2>1 DEF Load
  <2>2. CASE GiveUp BY <1>0, <1>11, <2>2 DEF Load
  <2> QED BY <1>11, <2>1, <2>2 DEF Load
<1>12. CASE WriteFiles BY <1>0, <1>12 DEF WriteFiles
<1>13. CASE After BY <1>0, <1>13 DEF After
<1>14. CASE Reply BY <1>0, <1>14 DEF Reply
<1>15. CASE Stop BY <1>0, <1>15 DEF Stop, Crash, Reboot
<1>16. CASE Start
  <2>1. unit' = (mem'.sw = "on") /\ snapshot' = mem' /\ job' = "start" /\ pc' = "check"
    BY <1>0, <1>16 DEF Start, StartStep
  <2> QED BY <1>0, <2>1
<1>17. CASE Refresh BY <1>0, <1>17 DEF Refresh
<1>18. CASE PortalSign BY <1>0, <1>18 DEF PortalSign
<1>19. CASE UNCHANGED vars BY <1>19 DEF vars
<1> QED
  BY <1>1, <1>2, <1>3, <1>4, <1>5, <1>6, <1>7, <1>8, <1>9, <1>10, <1>11, <1>12,
     <1>13, <1>14, <1>15, <1>16, <1>17, <1>18, <1>19 DEF Next, CallStep, Work

(* On a machine without a portal a switch's unit and the policy agree between *)
(* calls, whatever was refused, rolled back, stopped or started again.        *)
THEOREM SwitchesFollow ==
  ASSUME "unitback" \notin Faults PROVE Spec => []SwitchInStep
<1>1. SwitchInv => SwitchInStep
  BY DEF SwitchInv, SwitchInStep
<1>2. TypeOK /\ SwitchInv /\ [Next]_vars => SwitchInv'
  BY SwitchStep
<1> QED BY <1>1, <1>2, SwitchInit, TypeCorrect, PTL DEF Spec

-------------------------------------------------------------------------------
(* The refinement: each step is a step of AtomicPolicy or leaves it alone. *)

(* The first state is one of AtomicPolicy. *)
LEMMA AtomicInit == Init => Atomic!Init
<1> SUFFICES ASSUME Init PROVE Atomic!Init
  OBVIOUS
<1>1. TypeOK BY TypeInit
<1>2. Phase = "idle" BY DEF Init, Phase, Calls
<1> QED BY <1>1, <1>2 DEF Atomic!Init, TypeOK, Init

(* Every step is a step of AtomicPolicy or leaves its variables alone. *)
LEMMA AtomicStep ==
  ASSUME TypeOK, TypeOK', CommitInv, CommitInv', [Next]_vars, NoLateFault
  PROVE  [Atomic!Next]_(Atomic!vars)
<1>0. ~Fails("check") /\ ~Fails("load") /\ ~Fails("files") /\ ~Fails("after")
      /\ ~Fails("settle")
  BY NoLateFault DEF NoLateFault, AfterCommit, Fails
<1> USE DEF Atomic!Next, Atomic!vars, Phase, Calls, enforced, history, daemon
<1>1. CASE CallStep
  <2>1. /\ pc = "idle" /\ snapshot' = mem /\ job' \in Calls /\ disk' = disk
    BY <1>1 DEF CallStep, CallSet, CallLook, CallSetup, CallSwitch, CallSync, Begin
  <2>2. Atomic!Open
    BY <2>1 DEF Atomic!Open, CommitInv, TypeOK
  <2> QED BY <2>2
<1>2. CASE Save
  <2>1. CASE disk' = NewDoc /\ UNCHANGED <<snapshot, job, answer>>
    <3>1. disk'.rev > disk.rev
      BY <1>2, <2>1 DEF Save, NewDoc, CommitInv, TypeOK, Docs
    <3>2. Atomic!Commit
      BY <1>2, <2>1, <3>1 DEF Save, Atomic!Commit, CommitInv, TypeOK
    <3> QED BY <3>2
  <2>2. CASE disk' = disk /\ pc' = "unitback" /\ UNCHANGED <<snapshot, job, answer>>
    BY <2>2
  <2>3. CASE disk' = disk /\ Refuse
    BY <1>2, <2>3 DEF Save, Refuse, Atomic!AnswerRefused, CommitInv
  <2> QED BY <1>2, <2>1, <2>2, <2>3 DEF Save, Go, DiskAfterRefusal
<1>3. CASE SetUnit
  BY <1>3 DEF SetUnit, Go, Refuse, Atomic!AnswerRefused, CommitInv
<1>4. CASE UnitBack
  BY <1>4 DEF UnitBack, Refuse, Atomic!AnswerRefused, CommitInv
<1>5. CASE Check \/ WriteBoot \/ Load \/ WriteFiles \/ After
  BY <1>0, <1>5 DEF Check, WriteBoot, Load, WriteFiles, After, Go
<1>6. CASE Reply
  <2>1. CASE job \in Calls
    <3>1. disk # snapshot
      BY <1>6, <2>1 DEF Reply, CommitInv, TypeOK, Docs
    <3> QED BY <1>6, <2>1, <3>1 DEF Reply, Atomic!AnswerOk, CommitInv
  <2>2. CASE job \notin Calls
    BY <1>6, <2>2 DEF Reply
  <2> QED BY <2>1, <2>2
<1>7. CASE Stop
  BY <1>7 DEF Stop, Crash, Reboot, Atomic!Crash
<1>8. CASE Start
  <2>1. /\ mem' = disk' /\ snapshot' = disk' /\ job' = "start"
        /\ job = "none" /\ answer = "none" /\ answer' = "none"
    BY <1>0, <1>8 DEF Start, CommitInv
  <2>2. CASE disk' = disk
    BY <2>1, <2>2 DEF Atomic!Crash
  <2>3. CASE disk' # disk
    <3>1. disk'.rev > disk.rev
      BY <1>8, <2>3 DEF Start, Settled, TypeOK, Docs
    <3> QED BY <2>1, <3>1 DEF Atomic!Settle, TypeOK
  <2> QED BY <2>2, <2>3
<1>9. CASE Refresh BY <1>9 DEF Refresh, CommitInv
<1>10. CASE PortalSign BY <1>10 DEF PortalSign
<1>11. CASE UNCHANGED vars BY <1>11 DEF vars
<1> QED
  BY <1>1, <1>2, <1>3, <1>4, <1>5, <1>6, <1>7, <1>8, <1>9, <1>10, <1>11
     DEF Next, Work

(* Every call is all or nothing on policy.json: PolicyStore implements       *)
(* AtomicPolicy when nothing fails after the file has been replaced.         *)
THEOREM Refinement == ASSUME NoLateFault PROVE Spec => ImplementsAtomic
<1>1. TypeOK /\ TypeOK' /\ CommitInv /\ CommitInv' /\ [Next]_vars
        => [Atomic!Next]_(Atomic!vars)
  BY AtomicStep
<1> QED
  BY <1>1, AtomicInit, CommitHolds, TypeCorrect, PTL
  DEF Spec, ImplementsAtomic, Atomic!Spec
===============================================================================
