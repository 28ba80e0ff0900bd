-------------------------------- MODULE Accounts --------------------------------
(***************************************************************************)
(* The accounts of a machine, and who may administer it.  The same account  *)
(* is known in three places that kosherd changes one after the other: the    *)
(* operating system's account list (accountsservice), the kosher-admin group *)
(* that polkit reads, and the policy, in memory and in policy.json.  A call  *)
(* may fail, or the daemon stop, between any two of them; the dispatcher    *)
(* only puts the policy in memory back.                                      *)
(***************************************************************************)
EXTENDS Groups

CONSTANTS MaxCrash,   \* bound: how often the daemon stops
          MaxCalls,   \* bound: how many calls there are
          Faults      \* the steps that may fail in this instance

(* account, delete: accountsservice refuses.  mode: its SetPasswordMode or    *)
(* Uid read after CreateUser.  forget: stopping the account's Syncthing.      *)
(* passwd: chpasswd.  group: usermod in SetUserAdmin.  firstgroup: usermod in *)
(* CreateFirstAdmin, whose result nobody reads.  guest, wipe: useradd, and    *)
(* clearing the guest's home.  save, apply: the halves of _save_and_apply.    *)
FaultKinds == {"account", "delete", "mode", "forget", "passwd", "group",
               "firstgroup", "guest", "wipe", "save", "apply"}

ASSUME CrashAssumption == MaxCrash \in Nat /\ MaxCalls \in Nat
ASSUME AccountFaultAssumption == Faults \subseteq FaultKinds

VARIABLES os,         \* the accounts the operating system has
          group,      \* the members of kosher-admin
          guestOpen,  \* can the guest account be signed in to?
          mem, disk,  \* the policy: managed accounts, administrators, whether
                      \* there is a guest, and their settings and groups
          snapshot,   \* _handle_call's copy; the same as mem outside a call
          job, who,   \* the call in progress and the account it is about
          pc,         \* its next step
          stamp,      \* has first-boot setup finished?
          answer,     \* the outcome of the last call
          enforced,   \* what the last apply_policy rendered
          crashes, calls,
          torn        \* history: was a call cut short between its change of
                      \* the machine and its change of the policy, or an
                      \* apply?

policy == <<mem, disk, snapshot>>
system == <<os, group, guestOpen>>
call == <<job, who, pc, answer>>
aside == <<enforced, crashes, calls>>
vars == <<os, group, guestOpen, mem, disk, snapshot, job, who, pc, stamp,
          answer, enforced, crashes, calls, torn>>

Policies == [managed: SUBSET Users, admins: SUBSET Users, guest: BOOLEAN, kept: Kept]
Enforcements == [managed: SUBSET Users, guest: BOOLEAN,
                 of: [Users -> Settings], web: Web]
AdminCalls == {"create", "adopt", "promote", "demote", "remove", "guestOn", "guestOff"}
Jobs == AdminCalls \cup {"none", "first", "setting"}
Steps == {"down", "idle", "account", "mode", "forget", "passwd", "group", "guest",
          "save", "record", "apply", "undo"}

TypeOK == /\ os \subseteq Users /\ group \subseteq Users
          /\ guestOpen \in BOOLEAN
          /\ mem \in Policies /\ disk \in Policies /\ snapshot \in Policies
          /\ job \in Jobs /\ who \in Users /\ pc \in Steps
          /\ stamp \in BOOLEAN
          /\ answer \in {"none", "ok", "refused"}
          /\ enforced \in Enforcements
          /\ crashes \in Nat /\ calls \in Nat /\ torn \in BOOLEAN

(* apply_policy, all of it. *)
Rendered(p) == [managed |-> p.managed, guest |-> p.guest,
                of |-> p.kept.of, web |-> p.kept.guest]

(* A machine as the installer leaves it: perhaps some accounts, no policy. *)
Init == /\ os \in SUBSET Users
        /\ group = {} /\ guestOpen = FALSE
        /\ mem = [managed |-> {}, admins |-> {}, guest |-> FALSE, kept |-> Nothing]
        /\ disk = mem /\ snapshot = mem
        /\ job = "none" /\ who \in Users /\ pc = "down"
        /\ stamp = FALSE /\ answer = "none" /\ enforced = Rendered(mem)
        /\ crashes = 0 /\ calls = 0 /\ torn = FALSE

-------------------------------------------------------------------------------
(* The small decisions of the code, some preceded by a mistaken form of it   *)
(* that a property below must notice.                                        *)

(* SetUserAdmin and RemoveUser: is there another administrator? *)
AnyAdmin(u) == mem.admins # {}
OtherAdmin(u) == mem.admins \ {u} # {}

(* _new_user and CreateFirstAdmin: the policy with one more account. *)
With(u, admin, c) == [managed |-> mem.managed \cup {u},
                      admins |-> IF admin THEN mem.admins \cup {u} ELSE mem.admins,
                      guest |-> mem.guest, kept |-> NewUser(mem.kept, u, c)]

(* RemoveUser takes the account and its administrator mark away together. *)
Without(u) == [managed |-> mem.managed \ {u}, admins |-> mem.admins \ {u},
               guest |-> mem.guest, kept |-> RemovedUser(mem.kept, u)]

(* CreateUser: a save that fails takes the new account away again. *)
LeaveAccount == "none"
Undoing == IF job = "create" THEN "undo" ELSE "none"

(* _roll_back *)
RolledBack == snapshot

(* SetUserAdmin: usermod's result decides whether the call goes on. *)
GroupChangeable(u) == u \in os

(* SetGuestConfig opens the guest account or locks it. *)
OpenAfter == job = "guestOn"

-------------------------------------------------------------------------------
Fails(step) == step \in Faults

(* polkit: somebody in kosher-admin must be able to sign in and ask. *)
AnAdministratorAsks == group \cap os # {}

Refuse == /\ mem' = RolledBack
          /\ pc' = "idle" /\ job' = "none" /\ answer' = "refused"
          /\ UNCHANGED <<disk, snapshot, who>>

Go(step, changed) == /\ pc' = step /\ mem' = changed
                     /\ UNCHANGED <<disk, snapshot, job, who, answer>>

Begin(kind, u, changed, step) ==
  /\ pc = "idle"
  /\ snapshot' = mem /\ mem' = changed
  /\ job' = kind /\ who' = u /\ pc' = step /\ answer' = "none"
  /\ calls < MaxCalls /\ calls' = calls + 1
  /\ UNCHANGED <<disk, system, stamp, enforced, crashes, torn>>

(* A call of the admin app or kosherctl, once setup is over. *)
Ask(kind, u, changed, step) == /\ stamp /\ AnAdministratorAsks
                               /\ Begin(kind, u, changed, step)

-------------------------------------------------------------------------------
(* Calls. *)

(* A name whose policy entry outlived its account is not made again here. *)
CreateUser == \E u \in Users \ (os \cup mem.managed) :
                Ask("create", u, mem, "account")

AdoptUser == \E u \in os \ mem.managed, c \in Choices(mem.kept) :
               Ask("adopt", u, With(u, FALSE, c), "save")

(* SetUserAdmin changes the mark in memory first, then the group. *)
Promote == \E u \in mem.managed : Ask("promote", u, [mem EXCEPT !.admins = @ \cup {u}], "group")

Demote == \E u \in mem.managed :
            /\ u \in mem.admins => OtherAdmin(u)
            /\ Ask("demote", u, [mem EXCEPT !.admins = @ \ {u}], "group")

RemoveUser == \E u \in mem.managed :
                /\ u \in mem.admins => OtherAdmin(u)
                /\ Ask("remove", u, mem, "forget")

SetGuestConfig == \E kind \in {"guestOn", "guestOff"} : Ask(kind, who, mem, "guest")

(* The wizard: the first administrator, made or adopted. *)
CreateFirstAdmin == /\ ~stamp /\ mem.admins = {}
                    /\ \E u \in Users :
                         Begin("first", u, mem,
                               IF u \in os THEN "passwd" ELSE "account")

FinishSetup == /\ pc = "idle" /\ ~stamp /\ mem.admins # {}
               /\ stamp' = TRUE
               /\ UNCHANGED <<policy, system, call, aside, torn>>

-------------------------------------------------------------------------------
(* Calls that change settings and groups. *)

(* policy.account: a managed account, or the guest while there is one. *)
Accountable == mem.managed \cup (IF mem.guest THEN {Guest} ELSE {})

Setting(kept, step) == Ask("setting", who, [mem EXCEPT !.kept = kept], step)

(* SetFilterMode, SetBlockedCategories, SetMediaLevel, SetLanguageFilter,     *)
(* SetYouTube, SetCalm.                                                      *)
ChangeFilter == \E a \in Accountable, w \in Web :
                  Setting(SetWeb(mem.kept, a, w), "save")

(* SetUserCanInstall, SetUserAppAccess, SetUserBlockedAppKinds,               *)
(* SetUserBlockedApps: not for the guest.                                    *)
ChangeApps == \E u \in mem.managed, x \in Apps :
                Setting(SetApps(mem.kept, u, x), "save")

(* Saved and applied only if somebody else follows. *)
SaveProfile == \E a \in Accountable, label \in Labels :
                 Setting(SavedGroup(mem.kept, a, Slug(label)),
                         IF Followers(mem.kept, a, Slug(label)) = {}
                         THEN "record" ELSE "save")

DeleteProfile == \E key \in mem.kept.made :
                   Setting(DeletedGroup(mem.kept, key), "record")

ApplyProfile == \E a \in Accountable, key \in mem.kept.made :
                  Setting(Joined(mem.kept, a, key), "save")

LeaveProfile == \E u \in mem.managed :
                  /\ mem.kept.in[u] # NoGroup
                  /\ Setting(Left(mem.kept, u), "record")

-------------------------------------------------------------------------------
(* The steps of a call. *)

(* accountsservice's CreateUser. *)
MakeAccount == /\ pc = "account"
               /\ \/ os' = os \cup {who} /\ Go("mode", mem)
                  \/ Fails("account") /\ Refuse /\ UNCHANGED os
               /\ UNCHANGED <<group, guestOpen, stamp, aside, torn>>

(* SetPasswordMode and the new account's uid: no failure here is undone. *)
SetPasswordMode == /\ pc = "mode"
                   /\ \/ /\ IF job = "first" THEN Go("passwd", mem)
                            ELSE \E c \in Choices(mem.kept) :
                                   Go("save", With(who, FALSE, c))
                         /\ UNCHANGED torn
                      \/ Fails("mode") /\ Refuse /\ torn' = TRUE
                   /\ UNCHANGED <<system, stamp, aside>>

(* chpasswd, for the first administrator. *)
SetPassword == /\ pc = "passwd"
               /\ Go("group", mem) \/ (Fails("passwd") /\ Refuse)
               /\ UNCHANGED <<system, stamp, aside, torn>>

(* usermod on kosher-admin.  CreateFirstAdmin goes on whatever it answered,  *)
(* and only then marks the account in the policy.                            *)
FirstGroup == /\ pc = "group" /\ job = "first"
              /\ Go("save", With(who, TRUE, [in |-> NoGroup, settings |-> AdminKind]))
              /\ \/ group' = group \cup {who} /\ UNCHANGED torn
                 \/ Fails("firstgroup") /\ torn' = TRUE /\ UNCHANGED group
              /\ UNCHANGED <<os, guestOpen, stamp, aside>>

(* SetUserAdmin reads the answer. *)
ChangeGroup ==
  /\ pc = "group" /\ job # "first"
  /\ \/ /\ GroupChangeable(who)
        /\ group' = IF job = "promote" THEN group \cup {who} ELSE group \ {who}
        /\ Go("save", mem)
     \/ /\ ~GroupChangeable(who) \/ Fails("group")
        /\ Refuse
        /\ UNCHANGED group
  /\ UNCHANGED <<os, guestOpen, stamp, aside, torn>>

(* syncthing.forget, then accountsservice's DeleteUser, which refuses an      *)
(* account it does not know, then the policy's entry.                        *)
DeleteAccount ==
  /\ pc = "forget"
  /\ \/ /\ who \in os
        /\ os' = os \ {who} /\ group' = group \ {who}
        /\ Go("save", Without(who))
     \/ /\ who \notin os \/ Fails("forget") \/ Fails("delete")
        /\ Refuse
        /\ UNCHANGED <<os, group>>
  /\ UNCHANGED <<guestOpen, stamp, aside, torn>>

(* The guest account is made, opened or locked before the policy is saved;   *)
(* wiping its home directory comes after it was opened.                      *)
ChangeGuest ==
  /\ pc = "guest"
  /\ \/ /\ guestOpen' = OpenAfter
        /\ \E c \in Choices(mem.kept) :
             Go("save", [mem EXCEPT !.guest = (job = "guestOn"),
                                    !.kept = Applied(@, Guest, c.settings)])
        /\ UNCHANGED torn
     \/ /\ job = "guestOn" /\ Fails("guest")
        /\ Refuse
        /\ UNCHANGED <<guestOpen, torn>>
     \/ /\ job = "guestOn" /\ Fails("wipe")
        /\ Refuse
        /\ guestOpen' = TRUE /\ torn' = TRUE
  /\ UNCHANGED <<os, group, stamp, aside>>

(* policy.save, then apply_policy: a failure of either ends the call, after   *)
(* CreateUser has taken its account away again.                              *)
FailCall == IF Undoing = "undo" THEN Go("undo", mem) ELSE Refuse

Save == /\ pc = "save"
        /\ \/ /\ disk' = mem /\ pc' = "apply"
              /\ UNCHANGED <<mem, snapshot, job, who, answer, torn>>
           \/ /\ Fails("save") /\ FailCall
              /\ torn' = (torn \/ job \notin {"create", "adopt", "setting"})
        /\ UNCHANGED <<system, stamp, aside>>

(* _save_only: nothing is applied. *)
Record == /\ pc = "record"
          /\ \/ /\ disk' = mem
                /\ pc' = "idle" /\ job' = "none" /\ answer' = "ok"
                /\ snapshot' = mem /\ UNCHANGED <<mem, who>>
             \/ Fails("save") /\ Refuse
          /\ UNCHANGED <<system, stamp, aside, torn>>

Apply == /\ pc = "apply"
         /\ \/ /\ pc' = "idle" /\ job' = "none" /\ answer' = "ok"
               /\ enforced' = Rendered(mem) /\ snapshot' = mem
               /\ UNCHANGED <<mem, disk, who, torn>>
            \/ /\ Fails("apply") /\ FailCall /\ torn' = TRUE
               /\ enforced' \in {enforced, Rendered(mem)}
         /\ UNCHANGED <<system, stamp, crashes, calls>>

UndoAccount == /\ pc = "undo"
               /\ \/ os' = os \ {who} /\ group' = group \ {who} /\ UNCHANGED torn
                  \/ Fails("delete") /\ torn' = TRUE /\ UNCHANGED <<os, group>>
               /\ Refuse
               /\ UNCHANGED <<guestOpen, stamp, aside>>

-------------------------------------------------------------------------------
Crash == /\ pc # "down" /\ crashes < MaxCrash
         /\ crashes' = crashes + 1
         /\ torn' = (torn \/ pc # "idle")
         /\ pc' = "down" /\ job' = "none" /\ answer' = "none"
         /\ mem' = disk /\ snapshot' = disk
         /\ UNCHANGED <<disk, system, who, stamp, enforced, calls>>

(* A start applies the policy it reads back (Crash has what was in memory     *)
(* give way to it already); nothing compares it with the accounts.           *)
Start == /\ pc = "down"
         /\ mem' = disk /\ snapshot' = disk
         /\ pc' = "idle"
         /\ \/ enforced' = Rendered(disk) /\ UNCHANGED torn
            \/ Fails("apply") /\ torn' = TRUE /\ UNCHANGED enforced
         /\ UNCHANGED <<disk, system, job, who, stamp, answer, crashes, calls>>

CallStep == \/ CreateUser \/ AdoptUser \/ Promote \/ Demote \/ RemoveUser
            \/ SetGuestConfig \/ CreateFirstAdmin \/ FinishSetup
            \/ ChangeFilter \/ ChangeApps \/ SaveProfile \/ DeleteProfile
            \/ ApplyProfile \/ LeaveProfile
Work == \/ MakeAccount \/ SetPasswordMode \/ SetPassword \/ FirstGroup
        \/ ChangeGroup \/ DeleteAccount \/ ChangeGuest \/ Save \/ Record
        \/ Apply \/ UndoAccount

Next == CallStep \/ Work \/ Crash \/ Start

Spec == Init /\ [][Next]_vars

-------------------------------------------------------------------------------
(* Properties. *)

(* Once setup is over, neither the policy in memory nor the one on disk is    *)
(* ever without an administrator, whatever fails and whenever the daemon      *)
(* stops (the checks of SetUserAdmin and RemoveUser; a portal may send any    *)
(* list).                                                                    *)
AdministratorRemains == stamp => /\ mem.admins # {} /\ disk.admins # {}

(* Between calls some account is in kosher-admin and can be signed in to:     *)
(* otherwise nobody could change anything on the machine again               *)
(* (SetUserAdmin, RemoveUser, CreateFirstAdmin).                             *)
SomeoneCanAlways == stamp /\ pc = "idle" => AnAdministratorAsks

(* ... and it is so unless a call was cut short.                             *)
SomeoneCanAdminister == ~torn => SomeoneCanAlways

(* Between calls the group polkit reads and the policy's administrators are   *)
(* the same people, unless a call was cut short: the portal and the admin app *)
(* show one, polkit asks the other.                                          *)
GroupMirrorsPolicy == stamp /\ pc = "idle" /\ ~torn => group = mem.admins

(* Between calls the policy's accounts are accounts of this machine, so that  *)
(* RemoveUser can remove each of them.                                       *)
ManagedExists == pc = "idle" /\ ~torn => mem.managed \subseteq os

(* Between calls a guest can sign in only while the policy has a guest.       *)
GuestInStep == pc = "idle" /\ ~torn => (guestOpen <=> mem.guest)

(* Between calls what is enforced is what the policy says, also after a call  *)
(* that saved it and applied nothing (_save_only: "alters no enforcement").   *)
EnforcedAsKept == pc = "idle" /\ ~torn => enforced = Rendered(mem)

(* What is spread over accountsservice, the group, the guest account, the     *)
(* policy and the rendered rules says the same between calls, unless a call   *)
(* was cut short.                                                            *)
InStep == /\ SomeoneCanAdminister /\ GroupMirrorsPolicy /\ ManagedExists
          /\ GuestInStep /\ EnforcedAsKept

(* An account is in no group that is not there, and differs from its group    *)
(* only by what was changed for it alone since it took the group's settings,  *)
(* whatever was saved, deleted, refused or read back meanwhile                *)
(* (SaveProfile, DeleteProfile, ApplyProfile, profiles.diff).                *)
MembersFollow == Following(mem.kept)

(* A CreateUser that is refused leaves no account behind, also when its save  *)
(* failed.                                                                   *)
RefusedCreateLeavesNothing ==
  [][job = "create" /\ answer' = "refused" /\ ~torn' => who \notin os']_vars
===============================================================================
