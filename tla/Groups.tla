--------------------------------- MODULE Groups ---------------------------------
(***************************************************************************)
(* Settings and groups, as the policy keeps them.  A group is the settings   *)
(* of one account saved under a name; an account is put in a group and takes *)
(* them, may be changed on its own afterwards, and takes them again when the *)
(* group is saved anew.  Pure operators: Accounts says when they are used.   *)
(***************************************************************************)
EXTENDS Naturals, FiniteSets

CONSTANTS Users,   \* the people's accounts this machine may have
          Guest,   \* the guest's account
          Web,     \* settings of the filter: mode, categories, pictures, ...
          Latin,   \* names of groups with a letter or digit slug keeps
          Labels,  \* all names a group may be given
          Kinds,   \* the settings an account set up by its kind may get
          AdminKind  \* and the first administrator

ASSUME GuestAssumption == Guest \notin Users
ASSUME LabelAssumption == Latin \subseteq Labels /\ "group" \notin Latin /\ "none" \notin Latin

Apps == {"installs", "none"}   \* what a person may do in the Store
Settings == [web: Web, apps: Apps]

ASSUME KindAssumption == Kinds \subseteq Settings /\ AdminKind \in Kinds

(* A name is kept as its letters a-z and its digits: of a name that has none, *)
(* as one in Hebrew, nothing is left and "group" stands for it.              *)
Slug(label) == IF label \in Latin THEN label ELSE "group"
Keys == Latin \cup {"group"}
NoGroup == "none"

(* of: the accounts' settings.  guest: the guest's, which has none for apps.  *)
(* in: the group each account is in.  made, group: the groups there are and   *)
(* what they fix.  strayed: history, the accounts changed on their own since  *)
(* they last took their group's settings.                                    *)
Kept == [of: [Users -> Settings], guest: Web,
         in: [Users -> Keys \cup {NoGroup}],
         made: SUBSET Keys, group: [Keys -> Settings],
         strayed: SUBSET Users]

(* What stands for the settings of an account or a group that is not there. *)
Blank == AdminKind

Nothing == [of |-> [u \in Users |-> Blank], guest |-> Blank.web,
            in |-> [u \in Users |-> NoGroup],
            made |-> {}, group |-> [key \in Keys |-> Blank], strayed |-> {}]

-------------------------------------------------------------------------------
(* Reading the guest as an account finds no settings of apps, and takes what  *)
(* is missing for "may install".                                             *)
FromUser(k, a) == IF a = Guest THEN [web |-> k.guest, apps |-> "installs"]
                  ELSE k.of[a]

Members(k, key) == {u \in Users : k.in[u] = key}

(* Settings reach the guest without those of apps. *)
Applied(k, a, s) == IF a = Guest THEN [k EXCEPT !.guest = s.web]
                    ELSE [k EXCEPT !.of[a] = s]

(* What a new account or the guest may be set up as: by a group's key, in that *)
(* group, or by a kind of internet, in none.                                 *)
Choices(k) == {[in |-> key, settings |-> k.group[key]] : key \in k.made}
              \cup {[in |-> NoGroup, settings |-> s] : s \in Kinds}

NewUser(k, u, c) == [k EXCEPT !.of[u] = c.settings, !.in[u] = c.in,
                              !.strayed = @ \ {u}]

RemovedUser(k, u) == [k EXCEPT !.of[u] = Blank, !.in[u] = NoGroup,
                               !.strayed = @ \ {u}]

(* One setting of one account. *)
SetWeb(k, a, w) == IF a = Guest THEN [k EXCEPT !.guest = w]
                   ELSE [k EXCEPT !.of[a].web = w, !.strayed = @ \cup {a}]
SetApps(k, u, x) == [k EXCEPT !.of[u].apps = x, !.strayed = @ \cup {u}]

(* SaveProfile: the members besides the saver take the settings too. *)
NobodyFollows(k, a, key) == {}
Followers(k, a, key) == Members(k, key) \ {a}

TakenBy(k, a, key, s) ==
  [u \in Users |-> IF u \in Members(k, key) \ {a} THEN s ELSE k.of[u]]

SavedAlone(k, a, key) ==
  [k EXCEPT !.made = @ \cup {key}, !.group[key] = FromUser(k, a),
            !.in = [u \in Users |-> IF u = a THEN key ELSE k.in[u]],
            !.strayed = @ \ (Members(k, key) \cup {a})]
SavedGroup(k, a, key) ==
  [k EXCEPT !.made = @ \cup {key}, !.group[key] = FromUser(k, a),
            !.of = TakenBy(k, a, key, FromUser(k, a)),
            !.in = [u \in Users |-> IF u = a THEN key ELSE k.in[u]],
            !.strayed = @ \ (Members(k, key) \cup {a})]

(* DeleteProfile: its members keep their settings, in no group. *)
DeletedGroup(k, key) ==
  [k EXCEPT !.made = @ \ {key}, !.group[key] = Blank,
            !.in = [u \in Users |-> IF k.in[u] = key THEN NoGroup ELSE k.in[u]],
            !.strayed = @ \ Members(k, key)]

(* ApplyProfile, and with no key. *)
Joined(k, a, key) ==
  [Applied(k, a, k.group[key]) EXCEPT
     !.in = [u \in Users |-> IF u = a THEN key ELSE k.in[u]],
     !.strayed = @ \ {a}]
Left(k, u) == [k EXCEPT !.in[u] = NoGroup, !.strayed = @ \ {u}]

(* What profiles.diff reports of an account. *)
Changes(k, u) == IF k.in[u] \in k.made
                 THEN {f \in {"web", "apps"} : k.of[u][f] # k.group[k.in[u]][f]}
                 ELSE {}

(* Nobody is in a group that is not there, and an account that was not        *)
(* changed on its own differs in nothing from its group.                     *)
Following(k) == \A u \in Users :
                  k.in[u] # NoGroup => /\ k.in[u] \in k.made
                                       /\ Changes(k, u) # {} => u \in k.strayed
===============================================================================
