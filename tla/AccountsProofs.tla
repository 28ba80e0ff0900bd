----------------------------- MODULE AccountsProofs -----------------------------
(***************************************************************************)
(* Proofs about Accounts for any number of accounts, groups and settings, any *)
(* set of failing steps and any number of stops: nothing but a document from  *)
(* the portal can leave the policy of a machine that is set up without an    *)
(* administrator, an account that was not changed on its own has the settings *)
(* of its group, and between calls the machine and the policy say the same,   *)
(* unless a call was cut short.                                               *)
(***************************************************************************)
EXTENDS Accounts, TLAPS

(* "none" is no group's key (NoGroup), and every name has a key (slug). *)
LEMMA KeyFacts == NoGroup \notin Keys /\ \A label \in Labels : Slug(label) \in Keys
  BY LabelAssumption DEF NoGroup, Keys, Slug

(* Whatever a new account is set up as (Choices) is settings, of a group there *)
(* is or of none.                                                            *)
LEMMA ChoiceFacts ==
  ASSUME NEW k \in Kept, NEW c \in Choices(k)
  PROVE  /\ c.settings \in Settings /\ c.in \in Keys \cup {NoGroup}
         /\ c.in # NoGroup => c.in \in k.made /\ c.settings = k.group[c.in]
<1>1. k.made \subseteq Keys /\ k.group \in [Keys -> Settings]
  BY DEF Kept
<1>2. CASE \E key \in k.made : c = [in |-> key, settings |-> k.group[key]]
  BY <1>1, <1>2
<1>3. CASE \E s \in Kinds : c = [in |-> NoGroup, settings |-> s]
  BY <1>3, KindAssumption
<1> QED BY <1>2, <1>3 DEF Choices

(* No settings and no groups are kept settings. *)
LEMMA NothingType == Nothing \in Kept
<1>1. AdminKind \in Settings /\ AdminKind.web \in Web
  BY KindAssumption DEF Settings
<1> QED BY <1>1, KeyFacts DEF Nothing, Blank, Kept

(* What reading an account as a group finds (from_user) are settings. *)
LEMMA FromType == ASSUME NEW k \in Kept, NEW a \in Users \cup {Guest}
                  PROVE FromUser(k, a) \in Settings
<1>1. k.guest \in Web /\ k.of \in [Users -> Settings]
  BY DEF Kept
<1>2. CASE a = Guest
  BY <1>1, <1>2 DEF FromUser, Settings, Apps
<1>3. CASE a # Guest
  BY <1>1, <1>3 DEF FromUser
<1> QED BY <1>2, <1>3

(* Every change of settings or groups leaves kept settings. *)
LEMMA KeptTypes ==
  ASSUME NEW k \in Kept
  PROVE  /\ \A u \in Users, c \in Choices(k) : NewUser(k, u, c) \in Kept
         /\ \A u \in Users : RemovedUser(k, u) \in Kept /\ Left(k, u) \in Kept
         /\ \A a \in Users \cup {Guest}, w \in Web : SetWeb(k, a, w) \in Kept
         /\ \A u \in Users, x \in Apps : SetApps(k, u, x) \in Kept
         /\ \A a \in Users \cup {Guest}, s \in Settings : Applied(k, a, s) \in Kept
         /\ \A a \in Users \cup {Guest}, key \in Keys :
              SavedGroup(k, a, key) \in Kept /\ Joined(k, a, key) \in Kept
         /\ \A key \in Keys : DeletedGroup(k, key) \in Kept
<1>0. AdminKind \in Settings
  BY KindAssumption
<1>1. ASSUME NEW u \in Users, NEW c \in Choices(k) PROVE NewUser(k, u, c) \in Kept
  BY ChoiceFacts DEF NewUser, Kept
<1>2. ASSUME NEW u \in Users PROVE RemovedUser(k, u) \in Kept /\ Left(k, u) \in Kept
  BY <1>0 DEF RemovedUser, Left, Blank, Kept
<1>3. ASSUME NEW a \in Users \cup {Guest}, NEW w \in Web PROVE SetWeb(k, a, w) \in Kept
  <2>1. CASE a = Guest BY <2>1 DEF SetWeb, Kept
  <2>2. CASE a # Guest
    <3>1. [k.of[a] EXCEPT !.web = w] \in Settings
      BY <2>2 DEF Kept, Settings
    <3> QED BY <2>2, <3>1 DEF SetWeb, Kept
  <2> QED BY <2>1, <2>2
<1>4. ASSUME NEW u \in Users, NEW x \in Apps PROVE SetApps(k, u, x) \in Kept
  <2>1. [k.of[u] EXCEPT !.apps = x] \in Settings
    BY DEF Kept, Settings
  <2> QED BY <2>1 DEF SetApps, Kept
<1>5. ASSUME NEW a \in Users \cup {Guest}, NEW s \in Settings PROVE Applied(k, a, s) \in Kept
  <2>1. s.web \in Web BY DEF Settings
  <2> QED BY <2>1 DEF Applied, Kept
<1>6. ASSUME NEW a \in Users \cup {Guest}, NEW key \in Keys
      PROVE SavedGroup(k, a, key) \in Kept /\ Joined(k, a, key) \in Kept
  <2>1. FromUser(k, a) \in Settings BY FromType
  <2>2. TakenBy(k, a, key, FromUser(k, a)) \in [Users -> Settings]
    BY <2>1 DEF TakenBy, Kept
  <2>3. [u \in Users |-> IF u = a THEN key ELSE k.in[u]] \in [Users -> Keys \cup {NoGroup}]
    BY DEF Kept
  <2>4. SavedGroup(k, a, key) \in Kept
    BY <2>1, <2>2, <2>3 DEF SavedGroup, Kept
  <2>5. Applied(k, a, k.group[key]) \in Kept
    BY <1>5 DEF Kept
  <2>6. Joined(k, a, key) \in Kept
    BY <2>3, <2>5 DEF Joined, Kept
  <2> QED BY <2>4, <2>6
<1>7. ASSUME NEW key \in Keys PROVE DeletedGroup(k, key) \in Kept
  BY <1>0 DEF DeletedGroup, Blank, Kept
<1> QED BY <1>1, <1>2, <1>3, <1>4, <1>5, <1>6, <1>7

-------------------------------------------------------------------------------
(* Every account that was not changed on its own has its group's settings. *)
Matched(k) == \A u \in Users : k.in[u] # NoGroup =>
                /\ k.in[u] \in k.made
                /\ u \notin k.strayed => k.of[u] = k.group[k.in[u]]

(* Matched settings are what MembersFollow asks for (profiles.diff). *)
LEMMA MatchedFollows == ASSUME NEW k \in Kept, Matched(k) PROVE Following(k)
<1> SUFFICES ASSUME NEW u \in Users, k.in[u] # NoGroup
             PROVE k.in[u] \in k.made /\ (Changes(k, u) # {} => u \in k.strayed)
  BY DEF Following
<1>1. k.in[u] \in k.made /\ (u \notin k.strayed => k.of[u] = k.group[k.in[u]])
  BY DEF Matched
<1>2. k.of[u] = k.group[k.in[u]] => Changes(k, u) = {}
  BY DEF Changes
<1> QED BY <1>1, <1>2

(* Nobody is in a group to begin with. *)
LEMMA NothingMatched == Matched(Nothing)
  BY DEF Matched, Nothing

(* Every change of settings or groups leaves its members with their group's    *)
(* settings, or noted as changed on their own.                               *)
LEMMA KeptMatches ==
  ASSUME NEW k \in Kept, Matched(k)
  PROVE  /\ \A u \in Users, c \in Choices(k) : Matched(NewUser(k, u, c))
         /\ \A u \in Users : Matched(RemovedUser(k, u)) /\ Matched(Left(k, u))
         /\ \A a \in Users \cup {Guest}, w \in Web : Matched(SetWeb(k, a, w))
         /\ \A u \in Users, x \in Apps : Matched(SetApps(k, u, x))
         /\ \A s \in Settings : Matched(Applied(k, Guest, s))
         /\ \A a \in Users \cup {Guest}, key \in Keys : Matched(SavedGroup(k, a, key))
         /\ \A a \in Users \cup {Guest}, key \in k.made : Matched(Joined(k, a, key))
         /\ \A key \in Keys : Matched(DeletedGroup(k, key))
<1>0. /\ k.of \in [Users -> Settings] /\ k.in \in [Users -> Keys \cup {NoGroup}]
      /\ k.group \in [Keys -> Settings] /\ k.made \subseteq Keys /\ NoGroup \notin Keys
      /\ k.strayed \subseteq Users
  BY KeyFacts DEF Kept
<1>1. ASSUME NEW u \in Users, NEW c \in Choices(k) PROVE Matched(NewUser(k, u, c))
  <2>1. c.in # NoGroup => c.in \in k.made /\ c.settings = k.group[c.in]
    BY ChoiceFacts
  <2>2. /\ NewUser(k, u, c).of = [k.of EXCEPT ![u] = c.settings]
        /\ NewUser(k, u, c).in = [k.in EXCEPT ![u] = c.in]
        /\ NewUser(k, u, c).made = k.made /\ NewUser(k, u, c).group = k.group
        /\ NewUser(k, u, c).strayed = k.strayed \ {u}
    BY DEF NewUser, Kept
  <2> HIDE DEF NewUser
  <2> QED BY <1>0, <2>1, <2>2 DEF Matched
<1>2. ASSUME NEW u \in Users PROVE Matched(RemovedUser(k, u)) /\ Matched(Left(k, u))
  <2>1. /\ RemovedUser(k, u).of = [k.of EXCEPT ![u] = Blank]
        /\ RemovedUser(k, u).in = [k.in EXCEPT ![u] = NoGroup]
        /\ RemovedUser(k, u).made = k.made /\ RemovedUser(k, u).group = k.group
        /\ RemovedUser(k, u).strayed = k.strayed \ {u}
    BY DEF RemovedUser, Kept
  <2>2. /\ Left(k, u).of = k.of /\ Left(k, u).in = [k.in EXCEPT ![u] = NoGroup]
        /\ Left(k, u).made = k.made /\ Left(k, u).group = k.group
        /\ Left(k, u).strayed = k.strayed \ {u}
    BY DEF Left, Kept
  <2>3. Matched(RemovedUser(k, u)) BY <1>0, <2>1 DEF Matched
  <2>4. Matched(Left(k, u)) BY <1>0, <2>2 DEF Matched
  <2> QED BY <2>3, <2>4
<1>3. ASSUME NEW a \in Users \cup {Guest}, NEW w \in Web PROVE Matched(SetWeb(k, a, w))
  <2>1. CASE a = Guest BY <1>0, <2>1 DEF SetWeb, Matched, Kept
  <2>2. CASE a # Guest
    <3>1. /\ SetWeb(k, a, w).of = [k.of EXCEPT ![a].web = w] /\ SetWeb(k, a, w).in = k.in
          /\ SetWeb(k, a, w).made = k.made /\ SetWeb(k, a, w).group = k.group
          /\ SetWeb(k, a, w).strayed = k.strayed \cup {a}
      BY <2>2 DEF SetWeb, Kept
    <3> QED BY <1>0, <2>2, <3>1 DEF Matched
  <2> QED BY <2>1, <2>2
<1>4. ASSUME NEW u \in Users, NEW x \in Apps PROVE Matched(SetApps(k, u, x))
  <2>1. /\ SetApps(k, u, x).of = [k.of EXCEPT ![u].apps = x] /\ SetApps(k, u, x).in = k.in
        /\ SetApps(k, u, x).made = k.made /\ SetApps(k, u, x).group = k.group
        /\ SetApps(k, u, x).strayed = k.strayed \cup {u}
    BY DEF SetApps, Kept
  <2> QED BY <1>0, <2>1 DEF Matched
<1>5. ASSUME NEW s \in Settings PROVE Matched(Applied(k, Guest, s))
  BY DEF Applied, Matched, Kept
<1>6. ASSUME NEW a \in Users \cup {Guest}, NEW key \in Keys
      PROVE Matched(SavedGroup(k, a, key))
  <2> DEFINE n == SavedGroup(k, a, key)
             s == FromUser(k, a)
  <2>1. /\ n.made = k.made \cup {key} /\ n.group = [k.group EXCEPT ![key] = s]
        /\ n.of = TakenBy(k, a, key, s)
        /\ n.in = [u \in Users |-> IF u = a THEN key ELSE k.in[u]]
        /\ n.strayed = k.strayed \ (Members(k, key) \cup {a})
    BY DEF SavedGroup, Kept
  <2>2. ASSUME NEW u \in Users, n.in[u] # NoGroup
        PROVE n.in[u] \in n.made /\ (u \notin n.strayed => n.of[u] = n.group[n.in[u]])
    <3>1. CASE u = a
      <4>1. u # Guest /\ s = k.of[u]
        BY <3>1, GuestAssumption DEF FromUser
      <4> HIDE DEF n, s
      <4> QED BY <1>0, <2>1, <3>1, <4>1 DEF TakenBy, Members
    <3>2. CASE u # a /\ k.in[u] = key
      <4> HIDE DEF n, s
      <4> QED BY <1>0, <2>1, <3>2 DEF TakenBy, Members
    <3>3. CASE u # a /\ k.in[u] # key
      <4>1. n.in[u] = k.in[u] /\ k.in[u] \in k.made
            /\ (u \notin k.strayed => k.of[u] = k.group[k.in[u]])
        BY <2>1, <2>2, <3>3 DEF Matched
      <4> HIDE DEF n, s
      <4> QED BY <1>0, <2>1, <3>3, <4>1 DEF TakenBy, Members
    <3> QED BY <3>1, <3>2, <3>3
  <2> QED BY <2>2 DEF Matched
<1>7. ASSUME NEW a \in Users \cup {Guest}, NEW key \in k.made
      PROVE Matched(Joined(k, a, key))
  <2> DEFINE n == Joined(k, a, key)
  <2>1. /\ n.made = k.made /\ n.group = k.group
        /\ n.of = (IF a = Guest THEN k.of ELSE [k.of EXCEPT ![a] = k.group[key]])
        /\ n.in = [u \in Users |-> IF u = a THEN key ELSE k.in[u]]
        /\ n.strayed = k.strayed \ {a}
    BY DEF Joined, Applied, Kept
  <2> HIDE DEF n
  <2>2. Matched(n)
    BY <1>0, <2>1, GuestAssumption DEF Matched
  <2> QED BY <2>2 DEF n
<1>8. ASSUME NEW key \in Keys PROVE Matched(DeletedGroup(k, key))
  <2> DEFINE n == DeletedGroup(k, key)
  <2>1. /\ n.made = k.made \ {key} /\ n.group = [k.group EXCEPT ![key] = Blank]
        /\ n.of = k.of
        /\ n.in = [u \in Users |-> IF k.in[u] = key THEN NoGroup ELSE k.in[u]]
        /\ n.strayed = k.strayed \ Members(k, key)
    BY DEF DeletedGroup, Kept
  <2> HIDE DEF n
  <2>2. Matched(n)
    BY <1>0, <2>1 DEF Matched, Members
  <2> QED BY <2>2 DEF n
<1> QED BY <1>1, <1>2, <1>3, <1>4, <1>5, <1>6, <1>7, <1>8

(* The calls that change settings or groups. *)
SettingCall == \/ ChangeFilter \/ ChangeApps \/ SaveProfile \/ DeleteProfile
               \/ ApplyProfile \/ LeaveProfile

(* Each of them is one change of the kept settings that keeps members with    *)
(* their groups.                                                             *)
LEMMA SettingChanges ==
  ASSUME TypeOK, SettingCall
  PROVE  \E kept \in Kept, step \in {"save", "record"} :
           Setting(kept, step) /\ (Matched(mem.kept) => Matched(kept))
<1> DEFINE k == mem.kept
           Done(kept) == kept \in Kept /\ (Matched(k) => Matched(kept))
<1>0. k \in Kept /\ Accountable \subseteq Users \cup {Guest} /\ mem.managed \subseteq Users
      /\ k.made \subseteq Keys
  BY DEF TypeOK, Policies, Accountable, Kept
<1>1. CASE ChangeFilter
  <2>1. PICK a \in Accountable, w \in Web : Setting(SetWeb(k, a, w), "save")
    BY <1>1 DEF ChangeFilter
  <2>2. Done(SetWeb(k, a, w))
    BY <1>0, KeptTypes, KeptMatches
  <2> QED BY <2>1, <2>2
<1>2. CASE ChangeApps
  <2>1. PICK u \in mem.managed, x \in Apps : Setting(SetApps(k, u, x), "save")
    BY <1>2 DEF ChangeApps
  <2>2. Done(SetApps(k, u, x))
    BY <1>0, KeptTypes, KeptMatches
  <2> QED BY <2>1, <2>2
<1>3. CASE SaveProfile
  <2>1. PICK a \in Accountable, label \in Labels, step \in {"save", "record"} :
          Setting(SavedGroup(k, a, Slug(label)), step)
    BY <1>3 DEF SaveProfile
  <2>2. Slug(label) \in Keys
    BY KeyFacts
  <2>3. Done(SavedGroup(k, a, Slug(label)))
    BY <1>0, <2>2, KeptTypes, KeptMatches
  <2> QED BY <2>1, <2>3
<1>4. CASE DeleteProfile
  <2>1. PICK key \in k.made : Setting(DeletedGroup(k, key), "record")
    BY <1>4 DEF DeleteProfile
  <2>2. Done(DeletedGroup(k, key))
    BY <1>0, KeptTypes, KeptMatches
  <2> QED BY <2>1, <2>2
<1>5. CASE ApplyProfile
  <2>1. PICK a \in Accountable, key \in k.made : Setting(Joined(k, a, key), "save")
    BY <1>5 DEF ApplyProfile
  <2>2. Done(Joined(k, a, key))
    BY <1>0, KeptTypes, KeptMatches
  <2> QED BY <2>1, <2>2
<1>6. CASE LeaveProfile
  <2>1. PICK u \in mem.managed : Setting(Left(k, u), "record")
    BY <1>6 DEF LeaveProfile
  <2>2. Done(Left(k, u))
    BY <1>0, KeptTypes, KeptMatches
  <2> QED BY <2>1, <2>2
<1> QED BY <1>1, <1>2, <1>3, <1>4, <1>5, <1>6 DEF SettingCall

-------------------------------------------------------------------------------
(* What a new account may be set up as: a choice of the kept settings, or what *)
(* the first administrator gets.                                             *)
Given == Choices(mem.kept) \cup {[in |-> NoGroup, settings |-> AdminKind]}

(* The first administrator's settings are one of the kinds. *)
LEMMA GivenChoices == Given = Choices(mem.kept)
  BY KindAssumption DEF Given, Choices

(* A policy with one more account (_new_user) is a policy. *)
LEMMA WithType == ASSUME mem \in Policies, NEW u \in Users, NEW a \in BOOLEAN, NEW c \in Given
                  PROVE With(u, a, c) \in Policies
<1>1. NewUser(mem.kept, u, c) \in Kept
  BY KeptTypes, GivenChoices DEF Policies
<1> QED BY <1>1 DEF With, Policies

(* A policy with one account less (RemoveUser) is a policy. *)
LEMMA WithoutType == ASSUME mem \in Policies, NEW u \in Users
                     PROVE Without(u) \in Policies
<1>1. RemovedUser(mem.kept, u) \in Kept
  BY KeptTypes DEF Policies
<1> QED BY <1>1 DEF Without, Policies

(* What a policy renders to. *)
LEMMA RenderedType == ASSUME NEW p \in Policies PROVE Rendered(p) \in Enforcements
  BY DEF Rendered, Enforcements, Policies, Kept

(* The machine the installer leaves has the right types. *)
LEMMA TypeInit == Init => TypeOK
<1> SUFFICES ASSUME Init PROVE TypeOK
  OBVIOUS
<1>1. mem \in Policies /\ disk \in Policies /\ snapshot \in Policies
  BY NothingType DEF Init, Policies
<1>2. enforced \in Enforcements
  BY <1>1, RenderedType DEF Init
<1> QED BY <1>1, <1>2 DEF Init, TypeOK, Jobs, Steps

(* Every call starts by taking a copy and changes only the policy in memory. *)
LEMMA TypeBegin ==
  ASSUME TypeOK, NEW kind \in Jobs, NEW u \in Users, NEW p \in Policies,
         NEW step \in Steps, Begin(kind, u, p, step)
  PROVE  TypeOK'
  BY DEF TypeOK, Begin, system

(* A call that begins (_handle_call) keeps the types. *)
LEMMA TypeCalls == ASSUME TypeOK, CallStep PROVE TypeOK'
<1> USE DEF Ask, Jobs, AdminCalls, Steps
<1>1. CASE CreateUser
  <2>1. PICK u \in Users : Begin("create", u, mem, "account")
    BY <1>1 DEF CreateUser
  <2> QED BY <2>1, TypeBegin DEF TypeOK
<1>2. CASE AdoptUser
  <2>1. PICK u \in Users, c \in Choices(mem.kept) :
          Begin("adopt", u, With(u, FALSE, c), "save")
    BY <1>2 DEF AdoptUser, TypeOK
  <2>2. With(u, FALSE, c) \in Policies
    BY WithType, GivenChoices DEF TypeOK
  <2> QED BY <2>1, <2>2, TypeBegin
<1>3. CASE Promote
  <2>1. PICK u \in Users :
          Begin("promote", u, [mem EXCEPT !.admins = @ \cup {u}], "group")
    BY <1>3 DEF Promote, TypeOK, Policies
  <2>2. [mem EXCEPT !.admins = @ \cup {u}] \in Policies
    BY DEF TypeOK, Policies
  <2> QED BY <2>1, <2>2, TypeBegin
<1>4. CASE Demote
  <2>1. PICK u \in Users :
          Begin("demote", u, [mem EXCEPT !.admins = @ \ {u}], "group")
    BY <1>4 DEF Demote, TypeOK, Policies
  <2>2. [mem EXCEPT !.admins = @ \ {u}] \in Policies
    BY DEF TypeOK, Policies
  <2> QED BY <2>1, <2>2, TypeBegin
<1>5. CASE RemoveUser
  <2>1. PICK u \in Users : Begin("remove", u, mem, "forget")
    BY <1>5 DEF RemoveUser, TypeOK, Policies
  <2> QED BY <2>1, TypeBegin DEF TypeOK
<1>6. CASE SetGuestConfig
  <2>1. PICK kind \in {"guestOn", "guestOff"} : Begin(kind, who, mem, "guest")
    BY <1>6 DEF SetGuestConfig
  <2> QED BY <2>1, TypeBegin DEF TypeOK
<1>7. CASE CreateFirstAdmin
  <2>1. PICK u \in Users, step \in {"passwd", "account"} : Begin("first", u, mem, step)
    BY <1>7 DEF CreateFirstAdmin
  <2> QED BY <2>1, TypeBegin DEF TypeOK
<1>8. CASE FinishSetup
  BY <1>8 DEF FinishSetup, TypeOK, policy, system, call, aside
<1>9. CASE SettingCall
  <2>1. PICK kept \in Kept, step \in {"save", "record"} : Setting(kept, step)
    BY <1>9, SettingChanges
  <2>2. [mem EXCEPT !.kept = kept] \in Policies
    BY DEF TypeOK, Policies
  <2> QED BY <2>1, <2>2, TypeBegin DEF Setting, TypeOK
<1> QED BY <1>1, <1>2, <1>3, <1>4, <1>5, <1>6, <1>7, <1>8, <1>9 DEF CallStep, SettingCall

(* A refused call (_roll_back) leaves policies and a waiting daemon. *)
LEMMA TypeRefuse == ASSUME TypeOK, Refuse PROVE
  /\ mem' \in Policies /\ disk' \in Policies /\ snapshot' \in Policies
  /\ job' \in Jobs /\ who' \in Users /\ pc' \in Steps
  /\ answer' \in {"none", "ok", "refused"}
  BY DEF TypeOK, Refuse, RolledBack, Jobs, Steps

(* Going on to the next step of a call keeps the types. *)
LEMMA TypeGo ==
  ASSUME TypeOK, NEW p \in Policies, NEW step \in Steps, Go(step, p)
  PROVE  /\ mem' \in Policies /\ disk' \in Policies /\ snapshot' \in Policies
         /\ job' \in Jobs /\ who' \in Users /\ pc' \in Steps
         /\ answer' \in {"none", "ok", "refused"}
  BY DEF TypeOK, Go

(* Every step of a call, done or failed, keeps the types. *)
LEMMA TypeWork == ASSUME TypeOK, Work PROVE TypeOK'
<1> DEFINE Control == /\ mem' \in Policies /\ disk' \in Policies
                      /\ snapshot' \in Policies
                      /\ job' \in Jobs /\ who' \in Users /\ pc' \in Steps
                      /\ answer' \in {"none", "ok", "refused"}
<1>0. /\ \A a \in BOOLEAN, c \in Given : With(who, a, c) \in Policies
      /\ Without(who) \in Policies /\ mem \in Policies
  BY WithType, WithoutType DEF TypeOK
<1>g. ASSUME NEW p \in Policies, NEW step \in Steps, Go(step, p) PROVE Control
  BY <1>g, TypeGo
<1>r. ASSUME Refuse PROVE Control
  BY <1>r, TypeRefuse
<1>f. ASSUME FailCall PROVE Control
  BY <1>f, <1>g, <1>r, <1>0 DEF FailCall, Steps
<1> USE DEF TypeOK, system, aside
<1>1. CASE MakeAccount
  <2>1. Control BY <1>1, <1>0, <1>g, <1>r DEF MakeAccount, Steps
  <2> QED BY <1>1, <2>1 DEF MakeAccount
<1>2. CASE SetPasswordMode
  <2>1. Control BY <1>2, <1>0, <1>g, <1>r, GivenChoices DEF SetPasswordMode, Steps
  <2> QED BY <1>2, <2>1 DEF SetPasswordMode
<1>3. CASE SetPassword
  <2>1. Control BY <1>3, <1>0, <1>g, <1>r DEF SetPassword, Steps
  <2> QED BY <1>3, <2>1 DEF SetPassword
<1>10. CASE FirstGroup
  <2>1. Control BY <1>10, <1>0, <1>g DEF FirstGroup, Given, Steps
  <2>2. group' \subseteq Users BY <1>10 DEF FirstGroup
  <2> QED BY <1>10, <2>1, <2>2 DEF FirstGroup
<1>4. CASE ChangeGroup
  <2>1. Control BY <1>4, <1>0, <1>g, <1>r DEF ChangeGroup, Steps
  <2>2. group' \subseteq Users BY <1>4 DEF ChangeGroup
  <2> QED BY <1>4, <2>1, <2>2 DEF ChangeGroup
<1>5. CASE DeleteAccount
  <2>1. Control BY <1>5, <1>0, <1>g, <1>r DEF DeleteAccount, Steps
  <2> QED BY <1>5, <2>1 DEF DeleteAccount
<1>6. CASE ChangeGuest
  <2>1. ASSUME NEW c \in Choices(mem.kept)
        PROVE [mem EXCEPT !.guest = (job = "guestOn"),
                          !.kept = Applied(@, Guest, c.settings)] \in Policies
    <3>1. Applied(mem.kept, Guest, c.settings) \in Kept
      BY KeptTypes, ChoiceFacts DEF Policies
    <3> QED BY <3>1 DEF Policies
  <2>2. Control BY <1>6, <2>1, <1>g, <1>r DEF ChangeGuest, Steps
  <2>3. guestOpen' \in BOOLEAN BY <1>6 DEF ChangeGuest, OpenAfter
  <2> QED BY <1>6, <2>2, <2>3 DEF ChangeGuest
<1>7. CASE Save
  <2>1. Control BY <1>7, <1>f DEF Save, Steps
  <2> QED BY <1>7, <2>1 DEF Save
<1>8. CASE Apply
  <2>1. Control BY <1>8, <1>f DEF Apply, Steps, Jobs
  <2>2. enforced' \in Enforcements BY <1>8, <1>0, RenderedType DEF Apply
  <2> QED BY <1>8, <2>1, <2>2 DEF Apply
<1>9. CASE UndoAccount
  <2>1. Control BY <1>9, <1>r DEF UndoAccount
  <2> QED BY <1>9, <2>1 DEF UndoAccount
<1>11. CASE Record
  <2>1. Control BY <1>11, <1>r DEF Record, Steps, Jobs
  <2> QED BY <1>11, <2>1 DEF Record
<1> QED BY <1>1, <1>2, <1>3, <1>4, <1>5, <1>6, <1>7, <1>8, <1>9, <1>10, <1>11 DEF Work

(* The type invariant holds in every reachable state, whatever fails. *)
THEOREM TypeCorrect == Spec => []TypeOK
<1>1. TypeOK /\ [Next]_vars => TypeOK'
  <2> SUFFICES ASSUME TypeOK, [Next]_vars PROVE TypeOK'
    OBVIOUS
  <2>1. CASE CallStep BY <2>1, TypeCalls
  <2>2. CASE Work BY <2>2, TypeWork
  <2>3. CASE Crash
    BY <2>3 DEF Crash, TypeOK, policy, system, Jobs, Steps
  <2>4. CASE Start BY <2>4, RenderedType DEF Start, TypeOK, system, Steps
  <2>5. CASE UNCHANGED vars BY <2>5 DEF vars, TypeOK
  <2> QED BY <2>1, <2>2, <2>3, <2>4, <2>5 DEF Next
<1> QED BY <1>1, TypeInit, PTL DEF Spec

-------------------------------------------------------------------------------
(* The policy keeps an administrator.  A call may be rolled back after its    *)
(* policy reached the disk, so the three copies can name different           *)
(* administrators; what is inductive is that a call never takes the last one *)
(* out of memory, and that a memory naming one is matched by a disk naming   *)
(* one whenever the daemon waits.                                            *)
AdminInv ==
  /\ AdministratorRemains
  /\ pc \in {"idle", "apply"} /\ mem.admins # {} => disk.admins # {}
  /\ snapshot.admins # {} => disk.admins # {}
  /\ stamp /\ pc \notin {"idle", "down"} => snapshot.admins # {}
  /\ pc \notin {"idle", "down"} /\ snapshot.admins # {} => mem.admins # {}
  /\ pc = "forget" /\ who \in mem.admins => mem.admins \ {who} # {}

(* AdminInv holds of the machine the installer leaves. *)
LEMMA AdminInit == Init => AdminInv
<1> SUFFICES ASSUME Init PROVE AdminInv
  OBVIOUS
<1>1. mem.admins = {} /\ disk.admins = {} /\ snapshot.admins = {} /\ pc = "down" /\ ~stamp
  BY DEF Init
<1> QED BY <1>1 DEF AdminInv, AdministratorRemains

(* A call may begin from any policy that keeps an administrator if memory had one. *)
LEMMA AdminBegin ==
  ASSUME AdminInv, NEW kind, NEW u, NEW p, NEW step, Begin(kind, u, p, step),
         step \notin {"idle", "apply"},
         mem.admins # {} => p.admins # {},
         step = "forget" /\ u \in p.admins => p.admins \ {u} # {}
  PROVE  AdminInv'
  BY DEF AdminInv, AdministratorRemains, Begin

(* A call begins only with an administrator left (SetUserAdmin, RemoveUser). *)
LEMMA AdminCallsKeep == ASSUME TypeOK, AdminInv, CallStep PROVE AdminInv'
<1> USE DEF Ask
<1>1. CASE CreateUser
  <2>1. PICK u : Begin("create", u, mem, "account")
    BY <1>1 DEF CreateUser
  <2> QED BY <2>1, AdminBegin
<1>2. CASE AdoptUser
  <2>1. PICK u, c : Begin("adopt", u, With(u, FALSE, c), "save")
    BY <1>2 DEF AdoptUser
  <2>2. With(u, FALSE, c).admins = mem.admins
    BY DEF With
  <2> QED BY <2>1, <2>2 DEF AdminInv, AdministratorRemains, Begin
<1>3. CASE Promote
  <2>1. PICK u : Begin("promote", u, [mem EXCEPT !.admins = @ \cup {u}], "group")
    BY <1>3 DEF Promote
  <2>2. [mem EXCEPT !.admins = @ \cup {u}].admins = mem.admins \cup {u}
    BY DEF TypeOK, Policies
  <2> QED BY <2>1, <2>2 DEF AdminInv, AdministratorRemains, Begin
<1>4. CASE Demote
  <2>1. PICK u : /\ Begin("demote", u, [mem EXCEPT !.admins = @ \ {u}], "group")
                 /\ u \in mem.admins => OtherAdmin(u)
    BY <1>4 DEF Demote
  <2>2. [mem EXCEPT !.admins = @ \ {u}].admins = mem.admins \ {u}
    BY DEF TypeOK, Policies
  <2>3. mem.admins # {} => mem.admins \ {u} # {}
    BY <2>1 DEF OtherAdmin
  <2> QED BY <2>1, <2>2, <2>3 DEF AdminInv, AdministratorRemains, Begin
<1>5. CASE RemoveUser
  <2>1. PICK u : /\ Begin("remove", u, mem, "forget")
                 /\ u \in mem.admins => OtherAdmin(u)
    BY <1>5 DEF RemoveUser
  <2> QED BY <2>1, AdminBegin DEF OtherAdmin
<1>6. CASE SetGuestConfig
  <2>1. PICK kind : Begin(kind, who, mem, "guest")
    BY <1>6 DEF SetGuestConfig
  <2> QED BY <2>1, AdminBegin
<1>7. CASE CreateFirstAdmin
  <2>1. PICK u \in Users :
          Begin("first", u, mem, IF u \in os THEN "passwd" ELSE "account")
    BY <1>7 DEF CreateFirstAdmin
  <2> QED BY <2>1 DEF AdminInv, AdministratorRemains, Begin
<1>8. CASE FinishSetup
  BY <1>8 DEF FinishSetup, AdminInv, AdministratorRemains, policy, system, call, aside
<1>9. CASE SettingCall
  <2>1. PICK kept \in Kept, step \in {"save", "record"} : Setting(kept, step)
    BY <1>9, SettingChanges
  <2>2. [mem EXCEPT !.kept = kept].admins = mem.admins
    BY DEF TypeOK, Policies
  <2> QED BY <2>1, <2>2, AdminBegin DEF Setting
<1> QED BY <1>1, <1>2, <1>3, <1>4, <1>5, <1>6, <1>7, <1>8, <1>9 DEF CallStep, SettingCall

(* Putting the copy back (_roll_back) keeps an administrator. *)
LEMMA AdminRefuse ==
  ASSUME AdminInv, Refuse, UNCHANGED stamp, pc \notin {"idle", "down"} PROVE AdminInv'
  BY DEF AdminInv, AdministratorRemains, Refuse, RolledBack

(* A step that leaves an administrator in memory keeps AdminInv. *)
LEMMA AdminGo ==
  ASSUME AdminInv, NEW p, NEW step, Go(step, p), UNCHANGED stamp,
         step \notin {"idle", "down", "apply", "forget"}, pc \notin {"idle", "down"},
         mem.admins # {} => p.admins # {}
  PROVE  AdminInv'
  BY DEF AdminInv, AdministratorRemains, Go

(* Every step of a call, done or failed, keeps AdminInv. *)
LEMMA AdminWork == ASSUME TypeOK, AdminInv, Work PROVE AdminInv'
<1>0. /\ \A c : With(who, FALSE, c).admins = mem.admins
      /\ \A c : With(who, TRUE, c).admins = mem.admins \cup {who}
      /\ Without(who).admins = mem.admins \ {who}
  BY DEF With, Without
<1>f. ASSUME FailCall, UNCHANGED stamp, pc \notin {"idle", "down"} PROVE AdminInv'
  BY <1>f, AdminGo, AdminRefuse DEF FailCall
<1>1. CASE MakeAccount
  BY <1>1, AdminGo, AdminRefuse DEF MakeAccount
<1>2. CASE SetPasswordMode
  BY <1>2, <1>0, AdminGo, AdminRefuse DEF SetPasswordMode
<1>3. CASE SetPassword
  BY <1>3, AdminGo, AdminRefuse DEF SetPassword
<1>10. CASE FirstGroup
  <2>1. Go("save", With(who, TRUE, [in |-> NoGroup, settings |-> AdminKind]))
        /\ UNCHANGED stamp /\ pc = "group"
    BY <1>10 DEF FirstGroup
  <2>2. With(who, TRUE, [in |-> NoGroup, settings |-> AdminKind]).admins # {}
    BY <1>0
  <2>3. /\ pc' = "save" /\ stamp' = stamp /\ disk' = disk /\ snapshot' = snapshot
        /\ mem'.admins # {}
    BY <2>1, <2>2 DEF Go
  <2> QED BY <2>1, <2>3 DEF AdminInv, AdministratorRemains
<1>4. CASE ChangeGroup
  BY <1>4, <1>0, AdminGo, AdminRefuse DEF ChangeGroup
<1>5. CASE DeleteAccount
  <2>1. mem.admins # {} => mem.admins \ {who} # {}
    BY <1>5 DEF DeleteAccount, AdminInv
  <2> QED BY <1>5, <2>1, <1>0, AdminGo, AdminRefuse DEF DeleteAccount
<1>6. CASE ChangeGuest
  <2>1. \A c : [mem EXCEPT !.guest = (job = "guestOn"),
                           !.kept = Applied(@, Guest, c.settings)].admins = mem.admins
    BY DEF TypeOK, Policies
  <2>2. CASE Refuse
    BY <1>6, <2>2, AdminRefuse DEF ChangeGuest
  <2>3. CASE \E p : Go("save", p) /\ p.admins = mem.admins
    BY <1>6, <2>3, AdminGo DEF ChangeGuest
  <2> QED BY <1>6, <2>1, <2>2, <2>3, Zenon DEF ChangeGuest
<1>7. CASE Save
  <2>1. CASE disk' = mem /\ pc' = "apply" /\ UNCHANGED <<mem, snapshot, who>>
    BY <1>7, <2>1 DEF Save, AdminInv, AdministratorRemains
  <2>2. CASE FailCall BY <1>7, <2>2, <1>f DEF Save
  <2> QED BY <1>7, <2>1, <2>2 DEF Save
<1>8. CASE Apply
  <2>1. CASE pc' = "idle" /\ snapshot' = mem /\ UNCHANGED <<mem, disk, who>>
    BY <1>8, <2>1 DEF Apply, AdminInv, AdministratorRemains
  <2>2. CASE FailCall BY <1>8, <2>2, <1>f DEF Apply
  <2> QED BY <1>8, <2>1, <2>2 DEF Apply
<1>9. CASE UndoAccount
  BY <1>9, AdminRefuse DEF UndoAccount
<1>11. CASE Record
  <2>1. CASE disk' = mem /\ pc' = "idle" /\ snapshot' = mem /\ UNCHANGED <<mem, who>>
    BY <1>11, <2>1 DEF Record, AdminInv, AdministratorRemains
  <2>2. CASE Refuse BY <1>11, <2>2, AdminRefuse DEF Record
  <2> QED BY <1>11, <2>1, <2>2 DEF Record
<1> QED BY <1>1, <1>2, <1>3, <1>4, <1>5, <1>6, <1>7, <1>8, <1>9, <1>10, <1>11 DEF Work, system

(* No local call, failure or stop leaves the policy of a machine that is set *)
(* up without an administrator, in memory or on disk.                        *)
THEOREM AdministratorStays == Spec => []AdministratorRemains
<1>1. TypeOK /\ AdminInv /\ [Next]_vars => AdminInv'
  <2> SUFFICES ASSUME TypeOK, AdminInv, [Next]_vars PROVE AdminInv'
    OBVIOUS
  <2>1. CASE CallStep BY <2>1, AdminCallsKeep
  <2>2. CASE Work BY <2>2, AdminWork
  <2>3. CASE Crash
    BY <2>3 DEF Crash, AdminInv, AdministratorRemains, policy
  <2>4. CASE Start BY <2>4 DEF Start, AdminInv, AdministratorRemains
  <2>5. CASE UNCHANGED vars BY <2>5 DEF vars, AdminInv, AdministratorRemains
  <2> QED BY <2>1, <2>2, <2>3, <2>4, <2>5 DEF Next
<1>2. AdminInv => AdministratorRemains
  BY DEF AdminInv
<1> QED BY <1>1, <1>2, TypeCorrect, AdminInit, PTL DEF Spec

-------------------------------------------------------------------------------
(* Groups.  The policy in memory, the dispatcher's copy and the one on disk    *)
(* each stand for the others after a refusal, a stop or a start.             *)
GroupInv == Matched(mem.kept) /\ Matched(disk.kept) /\ Matched(snapshot.kept)

(* A call begins with a policy whose members have their group's settings. *)
LEMMA GroupCalls == ASSUME TypeOK, GroupInv, CallStep PROVE GroupInv'
<1> USE DEF Ask, Begin, GroupInv
<1>0. mem.kept \in Kept
  BY DEF TypeOK, Policies
<1>1. CASE CreateUser BY <1>1 DEF CreateUser
<1>2. CASE AdoptUser
  <2>1. PICK u \in Users, c \in Choices(mem.kept) :
          Begin("adopt", u, With(u, FALSE, c), "save")
    BY <1>2 DEF AdoptUser, TypeOK
  <2>2. Matched(With(u, FALSE, c).kept)
    BY <1>0, KeptMatches DEF With
  <2> QED BY <2>1, <2>2
<1>3. CASE Promote
  <2>1. PICK u : Begin("promote", u, [mem EXCEPT !.admins = @ \cup {u}], "group")
    BY <1>3 DEF Promote
  <2>2. [mem EXCEPT !.admins = @ \cup {u}].kept = mem.kept
    BY DEF TypeOK, Policies
  <2> QED BY <2>1, <2>2
<1>4. CASE Demote
  <2>1. PICK u : Begin("demote", u, [mem EXCEPT !.admins = @ \ {u}], "group")
    BY <1>4 DEF Demote
  <2>2. [mem EXCEPT !.admins = @ \ {u}].kept = mem.kept
    BY DEF TypeOK, Policies
  <2> QED BY <2>1, <2>2
<1>5. CASE RemoveUser BY <1>5 DEF RemoveUser
<1>6. CASE SetGuestConfig BY <1>6 DEF SetGuestConfig
<1>7. CASE CreateFirstAdmin BY <1>7 DEF CreateFirstAdmin
<1>8. CASE FinishSetup BY <1>8 DEF FinishSetup, policy
<1>9. CASE SettingCall
  <2>1. PICK kept \in Kept, step \in {"save", "record"} :
          Setting(kept, step) /\ Matched(kept)
    BY <1>9, SettingChanges
  <2>2. [mem EXCEPT !.kept = kept].kept = kept
    BY DEF TypeOK, Policies
  <2> QED BY <2>1, <2>2 DEF Setting
<1> QED BY <1>1, <1>2, <1>3, <1>4, <1>5, <1>6, <1>7, <1>8, <1>9 DEF CallStep, SettingCall

(* Every step of a call, done or failed, leaves members with their groups. *)
LEMMA GroupWork == ASSUME TypeOK, GroupInv, Work PROVE GroupInv'
<1>0. mem.kept \in Kept /\ who \in Users
  BY DEF TypeOK, Policies
<1>g. ASSUME NEW p, NEW step, Go(step, p), Matched(p.kept) PROVE GroupInv'
  BY <1>g DEF Go, GroupInv
<1>r. ASSUME Refuse PROVE GroupInv'
  BY <1>r DEF Refuse, RolledBack, GroupInv
<1>f. ASSUME FailCall PROVE GroupInv'
  BY <1>f, <1>g, <1>r DEF FailCall, GroupInv
<1>m. Matched(mem.kept)
  BY DEF GroupInv
<1>w. ASSUME NEW a, NEW c \in Given PROVE Matched(With(who, a, c).kept)
  BY <1>0, <1>m, KeptMatches, GivenChoices DEF With
<1>1. CASE MakeAccount BY <1>1, <1>g, <1>r, <1>m DEF MakeAccount
<1>2. CASE SetPasswordMode
  BY <1>2, <1>g, <1>r, <1>m, <1>w, GivenChoices DEF SetPasswordMode
<1>3. CASE SetPassword BY <1>3, <1>g, <1>r, <1>m DEF SetPassword
<1>4. CASE FirstGroup BY <1>4, <1>g, <1>w DEF FirstGroup, Given
<1>5. CASE ChangeGroup BY <1>5, <1>g, <1>r, <1>m DEF ChangeGroup
<1>6. CASE DeleteAccount
  <2>1. Matched(Without(who).kept)
    BY <1>0, <1>m, KeptMatches DEF Without
  <2> QED BY <1>6, <2>1, <1>g, <1>r DEF DeleteAccount
<1>7. CASE ChangeGuest
  <2>1. ASSUME NEW c \in Choices(mem.kept)
        PROVE Matched([mem EXCEPT !.guest = (job = "guestOn"),
                                  !.kept = Applied(@, Guest, c.settings)].kept)
    <3>1. Matched(Applied(mem.kept, Guest, c.settings))
      BY <1>0, <1>m, KeptMatches, ChoiceFacts
    <3> QED BY <3>1 DEF TypeOK, Policies
  <2> QED BY <1>7, <2>1, <1>g, <1>r DEF ChangeGuest
<1>8. CASE Save BY <1>8, <1>f DEF Save, GroupInv
<1>9. CASE Record BY <1>9, <1>r DEF Record, GroupInv
<1>10. CASE Apply BY <1>10, <1>f DEF Apply, GroupInv
<1>11. CASE UndoAccount BY <1>11, <1>r DEF UndoAccount
<1> QED BY <1>1, <1>2, <1>3, <1>4, <1>5, <1>6, <1>7, <1>8, <1>9, <1>10, <1>11 DEF Work

(* In every reachable state an account is in no group that is not there and   *)
(* differs from its group only if it was changed on its own, whatever failed  *)
(* or was rolled back (SaveProfile, DeleteProfile, ApplyProfile).            *)
THEOREM GroupsAreFollowed == Spec => []MembersFollow
<1>1. Init => GroupInv
  BY NothingMatched DEF Init, GroupInv
<1>2. TypeOK /\ GroupInv /\ [Next]_vars => GroupInv'
  <2> SUFFICES ASSUME TypeOK, GroupInv, [Next]_vars PROVE GroupInv'
    OBVIOUS
  <2>1. CASE CallStep BY <2>1, GroupCalls
  <2>2. CASE Work BY <2>2, GroupWork
  <2>3. CASE Crash BY <2>3 DEF Crash, GroupInv
  <2>4. CASE Start BY <2>4 DEF Start, GroupInv
  <2>5. CASE UNCHANGED vars BY <2>5 DEF vars, GroupInv
  <2> QED BY <2>1, <2>2, <2>3, <2>4, <2>5 DEF Next
<1>3. TypeOK /\ GroupInv => MembersFollow
  BY MatchedFollows DEF TypeOK, Policies, GroupInv, MembersFollow
<1> QED BY <1>1, <1>2, <1>3, TypeCorrect, PTL DEF Spec

-------------------------------------------------------------------------------
(* What is spread over accountsservice, the group, the guest account and the *)
(* policy.  Between two steps of a call they differ, and how they may differ *)
(* depends on the step: a call that may still be refused must find the       *)
(* machine as the dispatcher's copy has it, one that may still succeed must   *)
(* leave it as the policy in memory has it.                                  *)

\* The machine is as a policy says.
Agrees(p) == p.managed \subseteq os /\ group = p.admins /\ guestOpen = p.guest

Waiting == pc \in {"idle", "down"}

\* Every administrator of a policy is one of its accounts.
Proper == \A p \in {mem, disk, snapshot} : p.admins \subseteq p.managed

\* Which calls come by which step.
Course ==
  /\ Waiting <=> job = "none"
  /\ ~Waiting => answer = "none"
  /\ pc \in {"account", "mode"} => job \in {"create", "first"}
  /\ pc = "passwd" => job = "first"
  /\ pc = "group" => job \in {"first", "promote", "demote"}
  /\ pc = "forget" => job = "remove"
  /\ pc = "guest" => job \in {"guestOn", "guestOff"}
  /\ pc = "record" => job = "setting"
  /\ pc = "undo" => job = "create"

\* The steps before a call has touched the policy in memory.
Untouched == pc \in {"account", "mode", "passwd", "forget", "guest"}
             \/ (pc = "group" /\ job = "first")

\* The account a call is about.
Named ==
  /\ job = "create" => who \notin snapshot.managed
  /\ pc = "account" => who \notin os
  /\ pc \in {"mode", "passwd", "group"} /\ Untouched => who \in os
  /\ pc = "group" /\ job # "first" => who \in mem.managed

\* A refusal now leaves the machine as the copy has it.
Refusable ==
  pc \notin {"save", "apply"} \/ (pc = "save" /\ job \in {"create", "adopt", "setting"})
    => Agrees(snapshot)

\* Success now leaves it as memory has it.
Finishing == pc \in {"save", "record", "apply"} => Agrees(mem)

\* What SetUserAdmin has marked, and not yet done.
Marked ==
  pc = "group" /\ job # "first" =>
    mem = [snapshot EXCEPT !.admins = IF job = "promote" THEN @ \cup {who} ELSE @ \ {who}]

\* The copies of the policy, and what is enforced.
Copies ==
  /\ Waiting \/ Untouched => mem = snapshot
  /\ disk = IF pc = "apply" THEN mem ELSE snapshot
  /\ enforced = Rendered(snapshot)
  /\ pc = "record" => Rendered(mem) = Rendered(snapshot)

\* What holds after a call was cut short too, and what holds before.
AlwaysInv == Proper /\ Course /\ Named
WholeInv == Refusable /\ Finishing /\ Marked /\ Copies
CallInv == AlwaysInv /\ (~torn => WholeInv)

(* Which calls come by which step. *)
LEMMA AlwaysCalls == ASSUME TypeOK, AlwaysInv, CallStep PROVE AlwaysInv'
<1> USE DEF Ask, Begin, AlwaysInv, Proper, Course, Named, Waiting, Untouched
<1>1. CASE CreateUser
  <2>1. PICK u \in Users \ (os \cup mem.managed) : Begin("create", u, mem, "account")
    BY <1>1 DEF CreateUser
  <2>2. snapshot' = mem /\ mem' = mem /\ disk' = disk /\ os' = os /\ who' = u
        /\ pc' = "account" /\ job' = "create" /\ answer' = "none"
    BY <2>1 DEF system
  <2> QED BY <2>2
<1>2. CASE AdoptUser
  <2>1. PICK u, c : Begin("adopt", u, With(u, FALSE, c), "save")
    BY <1>2 DEF AdoptUser
  <2>2. With(u, FALSE, c).admins \subseteq With(u, FALSE, c).managed
    BY DEF With
  <2> QED BY <2>1, <2>2
<1>3. CASE Promote
  <2>1. PICK u \in mem.managed : Begin("promote", u, [mem EXCEPT !.admins = @ \cup {u}], "group")
    BY <1>3 DEF Promote
  <2>2. /\ [mem EXCEPT !.admins = @ \cup {u}].admins = mem.admins \cup {u}
        /\ [mem EXCEPT !.admins = @ \cup {u}].managed = mem.managed
    BY DEF TypeOK, Policies
  <2> QED BY <2>1, <2>2
<1>4. CASE Demote
  <2>1. PICK u \in mem.managed : Begin("demote", u, [mem EXCEPT !.admins = @ \ {u}], "group")
    BY <1>4 DEF Demote
  <2>2. /\ [mem EXCEPT !.admins = @ \ {u}].admins = mem.admins \ {u}
        /\ [mem EXCEPT !.admins = @ \ {u}].managed = mem.managed
    BY DEF TypeOK, Policies
  <2> QED BY <2>1, <2>2
<1>5. CASE RemoveUser
  BY <1>5 DEF RemoveUser
<1>6. CASE SetGuestConfig
  BY <1>6 DEF SetGuestConfig
<1>7. CASE CreateFirstAdmin
  <2>1. PICK u \in Users : Begin("first", u, mem, IF u \in os THEN "passwd" ELSE "account")
    BY <1>7 DEF CreateFirstAdmin
  <2>2. snapshot' = mem /\ mem' = mem /\ disk' = disk /\ os' = os /\ who' = u
        /\ pc' = (IF u \in os THEN "passwd" ELSE "account") /\ job' = "first" /\ answer' = "none"
    BY <2>1 DEF system
  <2> QED BY <2>2
<1>8. CASE FinishSetup
  BY <1>8 DEF FinishSetup, policy, system, call
<1>9. CASE SettingCall
  <2>1. PICK kept \in Kept, step \in {"save", "record"} : Setting(kept, step)
    BY <1>9, SettingChanges
  <2>2. /\ [mem EXCEPT !.kept = kept].admins = mem.admins
        /\ [mem EXCEPT !.kept = kept].managed = mem.managed
    BY DEF TypeOK, Policies
  <2> QED BY <2>1, <2>2 DEF Setting
<1> QED BY <1>1, <1>2, <1>3, <1>4, <1>5, <1>6, <1>7, <1>8, <1>9 DEF CallStep, SettingCall

(* A refusal puts a copy back whose administrators are accounts, and ends the call. *)
LEMMA AlwaysRefuse == ASSUME AlwaysInv, Refuse PROVE AlwaysInv'
  BY DEF AlwaysInv, Proper, Course, Named, Waiting, Untouched, Refuse, RolledBack

(* A failed save or apply ends the call, or undoes CreateUser. *)
LEMMA AlwaysFail ==
  ASSUME AlwaysInv, FailCall, ~ Waiting, UNCHANGED os PROVE AlwaysInv'
<1>1. CASE Refuse
  BY <1>1, AlwaysRefuse
<1>2. CASE Go("undo", mem) /\ job = "create"
  BY <1>2 DEF AlwaysInv, Proper, Course, Named, Waiting, Untouched, Go
<1> QED BY <1>1, <1>2 DEF FailCall, Undoing

(* Every step of a call, done or failed, keeps AlwaysInv. *)
LEMMA AlwaysWork == ASSUME TypeOK, AlwaysInv, Work PROVE AlwaysInv'
<1> USE DEF Waiting, Untouched
<1>w. /\ \A a \in BOOLEAN : \A c : With(who, a, c).admins \subseteq With(who, a, c).managed
      /\ Without(who).admins \subseteq Without(who).managed
  BY DEF With, Without, AlwaysInv, Proper
<1>g. ASSUME NEW p, NEW step, Go(step, p), p.admins \subseteq p.managed, ~ Waiting,
             step = "passwd" => job = "first",
             step = "mode" => job \in {"create", "first"},
             step = "group" => job = "first",
             step \in {"mode", "passwd", "group"} => who \in os',
             step \in {"save", "mode", "passwd", "group"}
      PROVE  AlwaysInv'
  BY <1>g DEF Go, AlwaysInv, Proper, Course, Named
<1>p. mem.admins \subseteq mem.managed
  BY DEF AlwaysInv, Proper
<1>1. CASE MakeAccount
  <2>1. CASE os' = os \cup {who} /\ Go("mode", mem)
    BY <1>1, <2>1, <1>g, <1>p DEF MakeAccount, AlwaysInv, Course
  <2>2. CASE Refuse BY <2>2, AlwaysRefuse
  <2> QED BY <1>1, <2>1, <2>2 DEF MakeAccount
<1>2. CASE SetPasswordMode
  <2>1. CASE job = "first" /\ Go("passwd", mem)
    BY <1>2, <2>1, <1>g, <1>p DEF SetPasswordMode, system, AlwaysInv, Named
  <2>2. CASE \E c : Go("save", With(who, FALSE, c))
    BY <1>2, <2>2, <1>g, <1>w DEF SetPasswordMode
  <2>3. CASE Refuse BY <2>3, AlwaysRefuse
  <2> QED BY <1>2, <2>1, <2>2, <2>3 DEF SetPasswordMode
<1>3. CASE SetPassword
  <2>1. CASE Go("group", mem)
    BY <1>3, <2>1, <1>g, <1>p DEF SetPassword, system, AlwaysInv, Course, Named
  <2>2. CASE Refuse BY <2>2, AlwaysRefuse
  <2> QED BY <1>3, <2>1, <2>2 DEF SetPassword
<1>4. CASE FirstGroup
  BY <1>4, <1>g, <1>w DEF FirstGroup
<1>5. CASE ChangeGroup
  <2>1. CASE Go("save", mem)
    BY <1>5, <2>1, <1>g, <1>p DEF ChangeGroup
  <2>2. CASE Refuse BY <2>2, AlwaysRefuse
  <2> QED BY <1>5, <2>1, <2>2 DEF ChangeGroup
<1>6. CASE DeleteAccount
  <2>1. CASE Go("save", Without(who))
    BY <1>6, <2>1, <1>g, <1>w DEF DeleteAccount
  <2>2. CASE Refuse BY <2>2, AlwaysRefuse
  <2> QED BY <1>6, <2>1, <2>2 DEF DeleteAccount
<1>7. CASE ChangeGuest
  <2>1. ASSUME NEW c,
               Go("save", [mem EXCEPT !.guest = (job = "guestOn"),
                                      !.kept = Applied(@, Guest, c.settings)])
        PROVE  AlwaysInv'
    <3> DEFINE p == [mem EXCEPT !.guest = (job = "guestOn"),
                                !.kept = Applied(@, Guest, c.settings)]
    <3>1. p.admins = mem.admins /\ p.managed = mem.managed
      BY DEF TypeOK, Policies
    <3>2. Go("save", p)
      BY <2>1
    <3> HIDE DEF p
    <3> QED BY <1>7, <3>1, <3>2, <1>g, <1>p DEF ChangeGuest
  <2>2. CASE Refuse BY <2>2, AlwaysRefuse
  <2> QED BY <1>7, <2>1, <2>2 DEF ChangeGuest
<1>8. CASE Save
  <2>1. CASE disk' = mem /\ pc' = "apply" /\ UNCHANGED <<mem, snapshot, job, who, answer>>
    BY <1>8, <2>1 DEF Save, system, AlwaysInv, Proper, Course, Named
  <2>2. CASE FailCall BY <1>8, <2>2, AlwaysFail DEF Save, system
  <2> QED BY <1>8, <2>1, <2>2 DEF Save
<1>9. CASE Record
  <2>1. CASE disk' = mem /\ pc' = "idle" /\ job' = "none" /\ snapshot' = mem /\ UNCHANGED <<mem, who>>
    BY <1>9, <2>1 DEF Record, system, AlwaysInv, Proper, Course, Named
  <2>2. CASE Refuse BY <2>2, AlwaysRefuse
  <2> QED BY <1>9, <2>1, <2>2 DEF Record
<1>10. CASE Apply
  <2>1. CASE pc' = "idle" /\ job' = "none" /\ snapshot' = mem /\ UNCHANGED <<mem, disk, who>>
    BY <1>10, <2>1 DEF Apply, system, AlwaysInv, Proper, Course, Named
  <2>2. CASE FailCall BY <1>10, <2>2, AlwaysFail DEF Apply, system
  <2> QED BY <1>10, <2>1, <2>2 DEF Apply
<1>11. CASE UndoAccount
  BY <1>11, AlwaysRefuse DEF UndoAccount
<1> QED BY <1>1, <1>2, <1>3, <1>4, <1>5, <1>6, <1>7, <1>8, <1>9, <1>10, <1>11 DEF Work

(* A call that begins finds the machine as the copy it takes has it. *)
LEMMA WholeBegin ==
  ASSUME WholeInv, NEW kind, NEW u, NEW p, NEW step, Begin(kind, u, p, step),
         step \in {"account", "passwd", "group", "forget", "guest", "save", "record"},
         step = "save" => kind \in {"adopt", "setting"},
         step \in {"save", "record"} =>
             p.managed \subseteq os /\ p.admins = mem.admins /\ p.guest = mem.guest,
         step = "record" => Rendered(p) = Rendered(mem),
         step \notin {"save", "record"} /\ (step # "group" \/ kind = "first") => p = mem,
         step = "group" /\ kind # "first" =>
             p = [mem EXCEPT !.admins = IF kind = "promote" THEN @ \cup {u} ELSE @ \ {u}]
  PROVE  WholeInv'
<1>1. /\ pc = "idle" /\ snapshot' = mem /\ mem' = p /\ job' = kind /\ who' = u /\ pc' = step
      /\ UNCHANGED <<disk, os, group, guestOpen, enforced>>
  BY DEF Begin, system
<1>2. mem = snapshot /\ disk = snapshot /\ enforced = Rendered(mem)
  BY <1>1 DEF WholeInv, Copies, Waiting
<1>3. mem.managed \subseteq os /\ group = mem.admins /\ guestOpen = mem.guest
  BY <1>1, <1>2 DEF WholeInv, Refusable, Agrees
<1>4. Refusable'
  BY <1>1, <1>3 DEF Refusable, Agrees
<1>5. Finishing'
  BY <1>1, <1>3 DEF Finishing, Agrees
<1>6. Marked'
  BY <1>1 DEF Marked
<1>7. Copies'
  <2>1. enforced' = Rendered(snapshot') /\ (pc' = "record" => Rendered(mem') = Rendered(snapshot'))
    BY <1>1, <1>2
  <2>2. Waiting' \/ Untouched' => mem' = snapshot'
    BY <1>1 DEF Waiting, Untouched
  <2>3. disk' = IF pc' = "apply" THEN mem' ELSE snapshot'
    BY <1>1, <1>2
  <2> QED BY <2>1, <2>2, <2>3, Zenon DEF Copies, Rendered
<1> QED BY <1>4, <1>5, <1>6, <1>7 DEF WholeInv

(* What is saved and not applied (_save_only: "alters no enforcement") renders *)
(* as before.                                                                *)
LEMMA RecordedRenders ==
  ASSUME TypeOK, SettingCall
  PROVE  \E kept \in Kept, step \in {"save", "record"} :
           /\ Setting(kept, step)
           /\ step = "record" => kept.of = mem.kept.of /\ kept.guest = mem.kept.guest
<1> DEFINE k == mem.kept
           Done(kept) == kept \in Kept
           Same(kept) == kept.of = k.of /\ kept.guest = k.guest
<1>0. k \in Kept /\ Accountable \subseteq Users \cup {Guest} /\ mem.managed \subseteq Users
      /\ k.made \subseteq Keys
  BY DEF TypeOK, Policies, Accountable, Kept
<1>1. CASE ChangeFilter \/ ChangeApps \/ ApplyProfile
  <2>1. CASE ChangeFilter
    <3>1. PICK a \in Accountable, w \in Web : Setting(SetWeb(k, a, w), "save")
      BY <2>1 DEF ChangeFilter
    <3> QED BY <3>1, <1>0, KeptTypes
  <2>2. CASE ChangeApps
    <3>1. PICK u \in mem.managed, x \in Apps : Setting(SetApps(k, u, x), "save")
      BY <2>2 DEF ChangeApps
    <3> QED BY <3>1, <1>0, KeptTypes
  <2>3. CASE ApplyProfile
    <3>1. PICK a \in Accountable, key \in k.made : Setting(Joined(k, a, key), "save")
      BY <2>3 DEF ApplyProfile
    <3> QED BY <3>1, <1>0, KeptTypes
  <2> QED BY <1>1, <2>1, <2>2, <2>3
<1>2. CASE SaveProfile
  <2>1. PICK a \in Accountable, label \in Labels :
          Setting(SavedGroup(k, a, Slug(label)),
                  IF Followers(k, a, Slug(label)) = {} THEN "record" ELSE "save")
    BY <1>2 DEF SaveProfile
  <2> DEFINE key == Slug(label)
             n == SavedGroup(k, a, key)
  <2>2. n \in Kept
    BY <1>0, KeyFacts, KeptTypes
  <2>3. n.of = TakenBy(k, a, key, FromUser(k, a)) /\ n.guest = k.guest
    BY <1>0 DEF SavedGroup, Kept
  <2>4. ASSUME Followers(k, a, key) = {} PROVE Same(n)
    <3>1. TakenBy(k, a, key, FromUser(k, a)) = [u \in Users |-> k.of[u]]
      BY <2>4 DEF TakenBy, Followers
    <3>2. k.of = [u \in Users |-> k.of[u]]
      BY <1>0 DEF Kept
    <3> QED BY <2>3, <3>1, <3>2
  <2> HIDE DEF n, key
  <2> QED BY <2>1, <2>2, <2>4 DEF n, key
<1>3. CASE DeleteProfile
  <2>1. PICK key \in k.made : Setting(DeletedGroup(k, key), "record")
    BY <1>3 DEF DeleteProfile
  <2>2. DeletedGroup(k, key) \in Kept
    BY <1>0, KeptTypes
  <2>3. Same(DeletedGroup(k, key))
    BY <1>0 DEF DeletedGroup, Kept
  <2> QED BY <2>1, <2>2, <2>3
<1>4. CASE LeaveProfile
  <2>1. PICK u \in mem.managed : Setting(Left(k, u), "record")
    BY <1>4 DEF LeaveProfile
  <2>2. Left(k, u) \in Kept
    BY <1>0, KeptTypes
  <2>3. Same(Left(k, u))
    BY <1>0 DEF Left, Kept
  <2> QED BY <2>1, <2>2, <2>3
<1> QED BY <1>1, <1>2, <1>3, <1>4 DEF SettingCall

(* A call begins with everything in step. *)
LEMMA WholeCalls == ASSUME TypeOK, AlwaysInv, WholeInv, CallStep PROVE WholeInv'
<1> USE DEF Ask
<1>0. pc = "idle" => mem.managed \subseteq os
  BY DEF WholeInv, Copies, Refusable, Agrees, Waiting
<1>1. CASE CreateUser
  <2>1. PICK u : Begin("create", u, mem, "account")
    BY <1>1 DEF CreateUser
  <2> QED BY <2>1, WholeBegin
<1>2. CASE AdoptUser
  <2>1. PICK u \in os, c \in Choices(mem.kept) : Begin("adopt", u, With(u, FALSE, c), "save")
    BY <1>2 DEF AdoptUser
  <2>2. /\ With(u, FALSE, c).managed = mem.managed \cup {u}
        /\ With(u, FALSE, c).admins = mem.admins /\ With(u, FALSE, c).guest = mem.guest
    BY DEF With
  <2>3. mem.managed \subseteq os
    BY <1>0, <2>1 DEF Begin
  <2> DEFINE p == With(u, FALSE, c)
  <2> HIDE DEF p
  <2>4. Begin("adopt", u, p, "save") /\ p.managed \subseteq os
        /\ p.admins = mem.admins /\ p.guest = mem.guest
    BY <2>1, <2>2, <2>3 DEF p
  <2> QED BY <2>4, WholeBegin
<1>3. CASE Promote
  <2>1. PICK u : Begin("promote", u, [mem EXCEPT !.admins = @ \cup {u}], "group")
    BY <1>3 DEF Promote
  <2> QED BY <2>1, WholeBegin
<1>4. CASE Demote
  <2>1. PICK u : Begin("demote", u, [mem EXCEPT !.admins = @ \ {u}], "group")
    BY <1>4 DEF Demote
  <2> QED BY <2>1, WholeBegin
<1>5. CASE RemoveUser
  <2>1. PICK u : Begin("remove", u, mem, "forget")
    BY <1>5 DEF RemoveUser
  <2> QED BY <2>1, WholeBegin
<1>6. CASE SetGuestConfig
  <2>1. PICK kind : Begin(kind, who, mem, "guest")
    BY <1>6 DEF SetGuestConfig
  <2> QED BY <2>1, WholeBegin
<1>7. CASE CreateFirstAdmin
  <2>1. PICK u : Begin("first", u, mem, IF u \in os THEN "passwd" ELSE "account")
    BY <1>7 DEF CreateFirstAdmin
  <2>2. CASE u \in os BY <2>1, <2>2, WholeBegin
  <2>3. CASE u \notin os BY <2>1, <2>3, WholeBegin
  <2> QED BY <2>2, <2>3
<1>8. CASE FinishSetup
  BY <1>8 DEF FinishSetup, policy, system, call, aside, WholeInv, Refusable, Finishing,
              Marked, Copies, Agrees, Waiting, Untouched
<1>9. CASE SettingCall
  <2>1. PICK kept \in Kept, step \in {"save", "record"} :
          /\ Begin("setting", who, [mem EXCEPT !.kept = kept], step)
          /\ step = "record" => kept.of = mem.kept.of /\ kept.guest = mem.kept.guest
    BY <1>9, RecordedRenders DEF Setting
  <2> DEFINE p == [mem EXCEPT !.kept = kept]
  <2>2. /\ p.managed = mem.managed /\ p.admins = mem.admins /\ p.guest = mem.guest
        /\ p.kept = kept
    BY DEF TypeOK, Policies
  <2> HIDE DEF p
  <2>3. step = "record" => Rendered(p) = Rendered(mem)
    BY <2>1, <2>2 DEF Rendered
  <2>4. mem.managed \subseteq os /\ Begin("setting", who, p, step)
    BY <1>0, <2>1 DEF Begin, p
  <2> QED BY <2>2, <2>3, <2>4, WholeBegin
<1> QED BY <1>1, <1>2, <1>3, <1>4, <1>5, <1>6, <1>7, <1>8, <1>9 DEF CallStep, SettingCall

(* A refusal where one is safe puts everything in step. *)
LEMMA WholeRefuse ==
  ASSUME WholeInv, Refuse, UNCHANGED <<group, guestOpen, enforced>>, pc # "apply",
         snapshot.managed \subseteq os', Agrees(snapshot)
  PROVE  WholeInv'
<1>1. /\ mem' = snapshot /\ snapshot' = snapshot /\ disk' = disk /\ pc' = "idle"
      /\ disk = snapshot /\ enforced = Rendered(snapshot)
  BY DEF Refuse, RolledBack, WholeInv, Copies
<1>2. Refusable' /\ Finishing' /\ Marked'
  BY <1>1 DEF Refusable, Finishing, Marked, Agrees
<1>3. Copies'
  BY <1>1, Zenon DEF Copies, Rendered, Untouched
<1> QED BY <1>2, <1>3 DEF WholeInv

(* A step on the way changes the machine where the copy does not look. *)
LEMMA WholeGo ==
  ASSUME WholeInv, NEW p, NEW step, Go(step, p), UNCHANGED enforced, pc # "apply",
         step \in {"mode", "passwd", "group", "save", "undo"},
         step = "group" => job = "first",
         step \notin {"save", "undo"} => p = snapshot,
         step # "save" \/ job \in {"create", "adopt", "setting"} =>
             /\ snapshot.managed \subseteq os'
             /\ group' = snapshot.admins /\ guestOpen' = snapshot.guest,
         step = "save" => /\ p.managed \subseteq os'
                          /\ group' = p.admins /\ guestOpen' = p.guest
  PROVE  WholeInv'
<1>1. /\ mem' = p /\ snapshot' = snapshot /\ disk' = disk /\ pc' = step /\ job' = job
      /\ disk = snapshot /\ enforced' = enforced /\ enforced = Rendered(snapshot)
  BY DEF Go, WholeInv, Copies
<1>2. Refusable' /\ Finishing' /\ Marked'
  BY <1>1 DEF Refusable, Finishing, Marked, Agrees
<1>3. Copies'
  <2>1. Waiting' \/ Untouched' => mem' = snapshot'
    BY <1>1 DEF Waiting, Untouched
  <2>2. disk' = (IF pc' = "apply" THEN mem' ELSE snapshot') /\ enforced' = Rendered(snapshot')
        /\ pc' # "record"
    BY <1>1
  <2> QED BY <2>1, <2>2, Zenon DEF Copies, Rendered
<1> QED BY <1>2, <1>3 DEF WholeInv

(* Every step of a call leaves it with one way back or one way on. *)
LEMMA WholeWork == ASSUME TypeOK, AlwaysInv, WholeInv, Work, ~ torn' PROVE WholeInv'
<1>a. pc # "apply" => disk = snapshot /\ enforced = Rendered(snapshot)
  BY DEF WholeInv, Copies
<1>b. ASSUME Untouched PROVE mem = snapshot /\ pc \notin {"save", "apply"} /\ Agrees(snapshot)
  BY <1>b DEF WholeInv, Copies, Refusable, Untouched
<1>1. CASE MakeAccount
  <2>0. Untouched
    BY <1>1 DEF MakeAccount, Untouched
  <2>1. CASE os' = os \cup {who} /\ Go("mode", mem)
    BY <1>1, <1>b, <2>0, <2>1, WholeGo DEF MakeAccount, aside, Agrees
  <2>2. CASE Refuse /\ UNCHANGED os
    BY <1>1, <1>b, <2>0, <2>2, WholeRefuse DEF MakeAccount, aside, Agrees
  <2> QED BY <1>1, <2>1, <2>2 DEF MakeAccount
<1>2. CASE SetPasswordMode
  <2>0. Untouched /\ who \in os
    BY <1>2 DEF SetPasswordMode, Untouched, AlwaysInv, Named
  <2>1. CASE job = "first" /\ Go("passwd", mem)
    BY <1>2, <1>b, <2>0, <2>1, WholeGo DEF SetPasswordMode, system, aside, Agrees
  <2>2. ASSUME NEW c, Go("save", With(who, FALSE, c)) PROVE WholeInv'
    <3> DEFINE p == With(who, FALSE, c)
    <3>1. p.managed = mem.managed \cup {who} /\ p.admins = mem.admins /\ p.guest = mem.guest
      BY DEF With
    <3> HIDE DEF p
    <3>2. Go("save", p) /\ pc = "mode" /\ UNCHANGED <<os, group, guestOpen, enforced>>
      BY <1>2, <2>2 DEF SetPasswordMode, system, aside, p
    <3> QED BY <1>b, <2>0, <3>1, <3>2, WholeGo DEF Agrees
  <2> QED BY <1>2, <2>1, <2>2 DEF SetPasswordMode
<1>3. CASE SetPassword
  <2>0. Untouched /\ job = "first"
    BY <1>3 DEF SetPassword, Untouched, AlwaysInv, Course
  <2>1. CASE Go("group", mem)
    BY <1>3, <1>b, <2>0, <2>1, WholeGo DEF SetPassword, system, aside, Agrees
  <2>2. CASE Refuse
    BY <1>3, <1>b, <2>0, <2>2, WholeRefuse DEF SetPassword, system, aside, Agrees
  <2> QED BY <1>3, <2>1, <2>2 DEF SetPassword
<1>4. CASE FirstGroup
  <2>0. Untouched /\ who \in os
    BY <1>4 DEF FirstGroup, Untouched, AlwaysInv, Named
  <2> DEFINE p == With(who, TRUE, [in |-> NoGroup, settings |-> AdminKind])
  <2>1. /\ p.managed = mem.managed \cup {who} /\ p.admins = mem.admins \cup {who}
        /\ p.guest = mem.guest
    BY DEF With
  <2> HIDE DEF p
  <2>2. Go("save", p) /\ group' = group \cup {who} /\ UNCHANGED <<os, guestOpen, enforced>>
        /\ job = "first"
    BY <1>4 DEF FirstGroup, aside, p
  <2> QED BY <1>b, <2>0, <2>1, <2>2, WholeGo DEF Agrees
<1>5. CASE ChangeGroup
  <2>0. /\ pc = "group" /\ job \in {"promote", "demote"} /\ Agrees(snapshot)
        /\ mem = [snapshot EXCEPT !.admins = IF job = "promote" THEN @ \cup {who} ELSE @ \ {who}]
    BY <1>5 DEF ChangeGroup, AlwaysInv, Course, WholeInv, Marked, Refusable
  <2>1. CASE Go("save", mem)
    <3>1. /\ mem.managed = snapshot.managed /\ mem.guest = snapshot.guest
          /\ mem.admins = IF job = "promote" THEN snapshot.admins \cup {who}
                          ELSE snapshot.admins \ {who}
      BY <2>0 DEF TypeOK, Policies
    <3>2. group' = IF job = "promote" THEN group \cup {who} ELSE group \ {who}
      BY <1>5, <2>1 DEF ChangeGroup, Go, Refuse
    <3>3. UNCHANGED <<os, guestOpen, enforced>>
      BY <1>5 DEF ChangeGroup, aside
    <3>4. /\ snapshot.managed \subseteq os /\ group = snapshot.admins
          /\ guestOpen = snapshot.guest
      BY <2>0 DEF Agrees
    <3>5. /\ mem.managed \subseteq os' /\ guestOpen' = mem.guest
          /\ group' = mem.admins
      BY <3>1, <3>2, <3>3, <3>4
    <3>6. pc # "apply" /\ job \notin {"create", "adopt", "setting"} /\ job # "first"
      BY <2>0
    <3> QED BY <2>1, <3>3, <3>5, <3>6, WholeGo
  <2>2. CASE Refuse /\ UNCHANGED group
    BY <1>5, <2>0, <2>2, WholeRefuse DEF ChangeGroup, aside, Agrees
  <2> QED BY <1>5, <2>1, <2>2 DEF ChangeGroup
<1>6. CASE DeleteAccount
  <2>0. Untouched /\ job = "remove"
    BY <1>6 DEF DeleteAccount, Untouched, AlwaysInv, Course
  <2>1. CASE os' = os \ {who} /\ group' = group \ {who} /\ Go("save", Without(who))
    <3> DEFINE p == Without(who)
    <3>1. /\ p.managed = mem.managed \ {who} /\ p.admins = mem.admins \ {who}
          /\ p.guest = mem.guest
      BY DEF Without
    <3>2. Go("save", p)
      BY <2>1
    <3> HIDE DEF p
    <3>3. UNCHANGED <<guestOpen, enforced>>
      BY <1>6 DEF DeleteAccount, aside
    <3> QED BY <1>b, <2>0, <2>1, <3>1, <3>2, <3>3, WholeGo DEF Agrees
  <2>2. CASE Refuse /\ UNCHANGED <<os, group>>
    BY <1>6, <1>b, <2>0, <2>2, WholeRefuse DEF DeleteAccount, aside, Agrees
  <2> QED BY <1>6, <2>1, <2>2 DEF DeleteAccount
<1>7. CASE ChangeGuest
  <2>0. Untouched /\ job \in {"guestOn", "guestOff"}
    BY <1>7 DEF ChangeGuest, Untouched, AlwaysInv, Course
  <2>1. ASSUME NEW c, guestOpen' = OpenAfter,
               Go("save", [mem EXCEPT !.guest = (job = "guestOn"),
                                      !.kept = Applied(@, Guest, c.settings)])
        PROVE  WholeInv'
    <3> DEFINE p == [mem EXCEPT !.guest = (job = "guestOn"),
                                !.kept = Applied(@, Guest, c.settings)]
    <3>1. p.managed = mem.managed /\ p.admins = mem.admins /\ p.guest = (job = "guestOn")
      BY DEF TypeOK, Policies
    <3>2. Go("save", p)
      BY <2>1
    <3> HIDE DEF p
    <3>3. UNCHANGED <<os, group, enforced>> /\ guestOpen' = p.guest
      BY <1>7, <2>1, <3>1 DEF ChangeGuest, aside, OpenAfter
    <3> QED BY <1>b, <2>0, <3>1, <3>2, <3>3, WholeGo DEF Agrees
  <2>2. CASE Refuse /\ UNCHANGED guestOpen
    BY <1>7, <1>b, <2>0, <2>2, WholeRefuse DEF ChangeGuest, aside, Agrees
  <2> QED BY <1>7, <2>1, <2>2 DEF ChangeGuest
<1>8. CASE Save
  <2>0. /\ pc = "save" /\ UNCHANGED <<os, group, guestOpen, enforced>>
        /\ mem.managed \subseteq os /\ group = mem.admins /\ guestOpen = mem.guest
    BY <1>8 DEF Save, system, aside, WholeInv, Finishing, Agrees
  <2>1. CASE disk' = mem /\ pc' = "apply" /\ UNCHANGED <<mem, snapshot, job, who, answer>>
    <3>1. Refusable' /\ Finishing' /\ Marked'
      BY <2>0, <2>1 DEF Refusable, Finishing, Marked, Agrees
    <3>2. Copies'
      <4>1. enforced' = Rendered(snapshot')
        BY <1>a, <2>0, <2>1
      <4> QED BY <2>1, <4>1, Zenon DEF Copies, Rendered, Waiting, Untouched
    <3> QED BY <3>1, <3>2 DEF WholeInv
  <2>2. CASE FailCall /\ torn' = (torn \/ job \notin {"create", "adopt", "setting"})
    <3>1. job \in {"create", "adopt", "setting"}
      BY <2>2
    <3>2. Agrees(snapshot)
      BY <2>0, <3>1 DEF WholeInv, Refusable
    <3>3. CASE Go("undo", mem)
      BY <2>0, <3>1, <3>2, <3>3, WholeGo DEF Agrees
    <3>4. CASE Refuse
      BY <2>0, <3>2, <3>4, WholeRefuse DEF Agrees
    <3> QED BY <2>2, <3>3, <3>4 DEF FailCall
  <2> QED BY <1>8, <2>1, <2>2 DEF Save
<1>9. CASE Record
  <2>0. /\ pc = "record" /\ UNCHANGED <<os, group, guestOpen, enforced>>
        /\ mem.managed \subseteq os /\ group = mem.admins /\ guestOpen = mem.guest
        /\ Rendered(mem) = Rendered(snapshot) /\ Agrees(snapshot)
    BY <1>9 DEF Record, system, aside, WholeInv, Finishing, Agrees, Copies, Refusable
  <2>1. CASE disk' = mem /\ pc' = "idle" /\ job' = "none" /\ snapshot' = mem /\ UNCHANGED <<mem, who>>
    <3>1. Refusable' /\ Finishing' /\ Marked'
      BY <2>0, <2>1 DEF Refusable, Finishing, Marked, Agrees
    <3>2. Copies'
      <4>1. enforced' = Rendered(snapshot')
        BY <1>a, <2>0, <2>1
      <4> QED BY <2>1, <4>1, Zenon DEF Copies, Rendered
    <3> QED BY <3>1, <3>2 DEF WholeInv
  <2>2. CASE Refuse
    BY <2>0, <2>2, WholeRefuse DEF Agrees
  <2> QED BY <1>9, <2>1, <2>2 DEF Record
<1>10. CASE Apply
  <2>0. /\ pc = "apply" /\ disk = mem /\ UNCHANGED <<os, group, guestOpen>>
        /\ mem.managed \subseteq os /\ group = mem.admins /\ guestOpen = mem.guest
    BY <1>10 DEF Apply, system, WholeInv, Finishing, Agrees, Copies
  <2>1. /\ pc' = "idle" /\ job' = "none" /\ enforced' = Rendered(mem) /\ snapshot' = mem
        /\ UNCHANGED <<mem, disk, who>>
    BY <1>10 DEF Apply
  <2>2. Refusable' /\ Finishing' /\ Marked'
    BY <2>0, <2>1 DEF Refusable, Finishing, Marked, Agrees
  <2>3. Copies'
    <3>1. enforced' = Rendered(snapshot')
      BY <2>1
    <3> QED BY <2>0, <2>1, <3>1, Zenon DEF Copies, Rendered
  <2> QED BY <2>2, <2>3 DEF WholeInv
<1>11. CASE UndoAccount
  <2>1. /\ os' = os \ {who} /\ group' = group \ {who} /\ Refuse /\ pc = "undo"
        /\ UNCHANGED <<guestOpen, enforced>>
    BY <1>11 DEF UndoAccount, aside
  <2>2. who \notin snapshot.managed /\ who \notin snapshot.admins /\ Agrees(snapshot)
    BY <2>1 DEF AlwaysInv, Course, Named, Proper, WholeInv, Refusable
  <2> QED BY <2>1, <2>2, WholeRefuse DEF Agrees
<1> QED BY <1>1, <1>2, <1>3, <1>4, <1>5, <1>6, <1>7, <1>8, <1>9, <1>10, <1>11 DEF Work

(* Nothing is torn and nothing has begun on the machine the installer leaves. *)
LEMMA CallInit == Init => CallInv
<1> SUFFICES ASSUME Init PROVE CallInv
  OBVIOUS
<1>1. /\ mem = [managed |-> {}, admins |-> {}, guest |-> FALSE, kept |-> Nothing]
      /\ disk = mem /\ snapshot = mem /\ enforced = Rendered(mem) /\ pc = "down"
      /\ job = "none" /\ group = {} /\ guestOpen = FALSE /\ answer = "none"
  BY DEF Init
<1>2. mem.managed = {} /\ mem.admins = {} /\ mem.guest = FALSE
  BY <1>1
<1> HIDE DEF Init
<1>3. AlwaysInv
  BY <1>1, <1>2 DEF AlwaysInv, Proper, Course, Named, Waiting, Untouched
<1>4. Refusable /\ Finishing /\ Marked
  BY <1>1, <1>2 DEF Refusable, Finishing, Marked, Agrees
<1>5. Copies
  BY <1>1 DEF Copies
<1> QED BY <1>3, <1>4, <1>5 DEF CallInv, WholeInv

(* Every step keeps a call's ways back and on, until one is cut short. *)
LEMMA CallNext == TypeOK /\ CallInv /\ [Next]_vars => CallInv'
<1> SUFFICES ASSUME TypeOK, CallInv, [Next]_vars PROVE CallInv'
  OBVIOUS
<1>0. torn \in BOOLEAN /\ AlwaysInv /\ (~ torn => WholeInv)
  BY DEF TypeOK, CallInv
<1>1. CASE CallStep
  <2>1. torn' = torn
    BY <1>1, SettingChanges DEF CallStep, SettingCall, CreateUser, AdoptUser, Promote, Demote,
        RemoveUser, SetGuestConfig, CreateFirstAdmin, FinishSetup, Setting, Ask, Begin
  <2> QED BY <1>0, <1>1, <2>1, AlwaysCalls, WholeCalls DEF CallInv
<1>2. CASE Work
  <2>1. torn => torn'
    BY <1>0, <1>2 DEF Work, MakeAccount, SetPasswordMode, SetPassword, FirstGroup, ChangeGroup,
        DeleteAccount, ChangeGuest, Save, Record, Apply, UndoAccount
  <2> QED BY <1>0, <1>2, <2>1, AlwaysWork, WholeWork DEF CallInv
<1>3. CASE Crash
  <2>1. /\ mem' = disk /\ snapshot' = disk /\ disk' = disk /\ pc' = "down" /\ job' = "none"
        /\ answer' = "none" /\ torn' = (torn \/ pc # "idle")
        /\ UNCHANGED <<os, group, guestOpen, who, enforced>>
    BY <1>3 DEF Crash, system
  <2>2. AlwaysInv'
    BY <1>0, <2>1 DEF AlwaysInv, Proper, Course, Named, Waiting, Untouched
  <2>3. ASSUME ~ torn' PROVE WholeInv'
    <3>1. pc = "idle" /\ WholeInv
      BY <1>0, <2>1, <2>3
    <3>2. disk = snapshot /\ enforced = Rendered(disk) /\ Agrees(disk)
      BY <3>1 DEF WholeInv, Copies, Refusable
    <3>3. Refusable' /\ Finishing' /\ Marked'
      BY <2>1, <3>2 DEF Refusable, Finishing, Marked, Agrees
    <3>4. Copies'
      <4>1. enforced' = Rendered(snapshot')
        BY <2>1, <3>2
      <4> QED BY <2>1, <4>1, Zenon DEF Copies, Rendered
    <3> QED BY <3>3, <3>4 DEF WholeInv
  <2> QED BY <2>2, <2>3 DEF CallInv
<1>4. CASE Start
  <2>1. /\ mem' = disk /\ snapshot' = disk /\ disk' = disk /\ pc = "down" /\ pc' = "idle"
        /\ (enforced' = Rendered(disk) /\ torn' = torn) \/ torn' = TRUE
        /\ UNCHANGED <<os, group, guestOpen, who, job, answer>>
    BY <1>4 DEF Start, system
  <2>2. AlwaysInv'
    BY <1>0, <2>1 DEF AlwaysInv, Proper, Course, Named, Waiting, Untouched
  <2>3. ASSUME ~ torn' PROVE WholeInv'
    <3>1. WholeInv /\ enforced' = Rendered(disk)
      BY <1>0, <2>1, <2>3
    <3>2. disk = snapshot /\ Agrees(disk)
      BY <2>1, <3>1 DEF WholeInv, Copies, Refusable
    <3>3. Refusable' /\ Finishing' /\ Marked'
      BY <2>1, <3>2 DEF Refusable, Finishing, Marked, Agrees
    <3>4. Copies'
      <4>1. enforced' = Rendered(snapshot')
        BY <2>1, <3>1
      <4> QED BY <2>1, <4>1, Zenon DEF Copies, Rendered
    <3> QED BY <3>3, <3>4 DEF WholeInv
  <2> QED BY <2>2, <2>3 DEF CallInv
<1>5. CASE UNCHANGED vars
  <2>1. AlwaysInv'
    BY <1>0, <1>5 DEF vars, AlwaysInv, Proper, Course, Named, Waiting, Untouched
  <2>2. WholeInv => WholeInv'
    BY <1>5 DEF vars, WholeInv, Refusable, Finishing, Marked, Copies, Agrees, Waiting, Untouched,
                Rendered
  <2>3. torn' = torn
    BY <1>5 DEF vars
  <2> QED BY <1>0, <2>1, <2>2, <2>3 DEF CallInv
<1> QED BY <1>1, <1>2, <1>3, <1>4, <1>5 DEF Next

(* Between calls everything is in step, unless a call was cut short: whatever  *)
(* was refused, undone or started again, the group polkit asks, the accounts,  *)
(* the guest's account and what is enforced are those of the policy.         *)
THEOREM AllInStep == Spec => []InStep
<1>1. TypeOK /\ AdministratorRemains /\ CallInv => InStep
  <2> SUFFICES ASSUME TypeOK, AdministratorRemains, CallInv, pc = "idle", ~ torn PROVE InStep
    BY DEF TypeOK, InStep, SomeoneCanAdminister, SomeoneCanAlways, GroupMirrorsPolicy,
           ManagedExists, GuestInStep, EnforcedAsKept
  <2>1. Proper /\ WholeInv
    BY DEF CallInv, AlwaysInv
  <2>2. mem = snapshot /\ enforced = Rendered(mem) /\ Agrees(mem)
    BY <2>1 DEF WholeInv, Copies, Refusable, Waiting
  <2>3. mem.managed \subseteq os /\ group = mem.admins /\ guestOpen = mem.guest
    BY <2>2 DEF Agrees
  <2>4. mem.admins \subseteq mem.managed
    BY <2>1 DEF Proper
  <2>5. stamp => AnAdministratorAsks
    BY <2>3, <2>4 DEF AnAdministratorAsks, AdministratorRemains
  <2>6. guestOpen <=> mem.guest
    BY <2>3
  <2> QED BY <2>2, <2>3, <2>5, <2>6 DEF InStep, SomeoneCanAdminister, SomeoneCanAlways,
             GroupMirrorsPolicy, ManagedExists, GuestInStep, EnforcedAsKept
<1> QED BY <1>1, CallInit, CallNext, TypeCorrect, AdministratorStays, PTL DEF Spec

(* A CreateUser that is refused leaves no account behind (_undo), unless the  *)
(* account could not be taken away again or was half made.                   *)
THEOREM CreateUndone == Spec => RefusedCreateLeavesNothing
<1>1. TypeOK /\ CallInv /\ [Next]_vars =>
        (job = "create" /\ answer' = "refused" /\ ~ torn' => who \notin os')
  <2> SUFFICES ASSUME TypeOK, CallInv, [Next]_vars, job = "create", answer' = "refused", ~ torn'
               PROVE  who \notin os'
    OBVIOUS
  <2>1. ~ Waiting /\ answer # "refused" /\ pc # "down" /\ pc # "idle"
    BY DEF CallInv, AlwaysInv, Course, Waiting
  <2>2. pc \in {"account", "mode", "save", "apply", "undo"}
    BY <2>1 DEF CallInv, AlwaysInv, Course, Waiting, TypeOK, Steps
  <2>3. Work
    BY <2>1, SettingChanges DEF Next, CallStep, SettingCall, Crash, Start, vars, CreateUser,
        AdoptUser, Promote, Demote, RemoveUser, SetGuestConfig, CreateFirstAdmin, FinishSetup,
        Setting, Ask, Begin, call
  <2>4. \A p, step : ~ Go(step, p)
    BY <2>1 DEF Go
  <2>5. ~ FailCall
    BY <2>4 DEF FailCall, Undoing
  <2>6. CASE MakeAccount
    BY <2>4, <2>6 DEF MakeAccount, CallInv, AlwaysInv, Named
  <2>7. CASE SetPasswordMode
    BY <2>4, <2>7 DEF SetPasswordMode
  <2>8. CASE Save
    BY <2>1, <2>5, <2>8 DEF Save
  <2>9. CASE Apply
    BY <2>5, <2>9 DEF Apply
  <2>10. CASE UndoAccount
    BY <2>10 DEF UndoAccount
  <2> QED BY <2>2, <2>3, <2>6, <2>7, <2>8, <2>9, <2>10 DEF Work, SetPassword, FirstGroup,
             ChangeGroup, DeleteAccount, ChangeGuest, Record
<1>2. TypeOK /\ CallInv /\ [Next]_vars =>
        [job = "create" /\ answer' = "refused" /\ ~ torn' => who \notin os']_vars
  BY <1>1
<1> QED BY <1>2, CallInit, CallNext, TypeCorrect, PTL DEF Spec, RefusedCreateLeavesNothing
===============================================================================
