------------------------------- MODULE Requests -------------------------------
(***************************************************************************)
(* Requests for access and the grants that answer them (accessreq.py,         *)
(* impl_ApproveRequest, impl_GrantUrl and _grant in daemon.py, urlrules.py).  *)
(* A blocked page offers to ask; the request is a file in a spool until an    *)
(* administrator's call takes it off.  A grant puts a rule ahead of the       *)
(* account's others, and the first rule that matches an address decides.      *)
(* Calls run one at a time; an administrator acts on the list last shown.     *)
(***************************************************************************)
EXTENDS Naturals, Sequences, FiniteSets, Functions, Lists

CONSTANTS Askers,    \* uids
          Guests,      \* the guest among them
          Urls,        \* addresses: [site, folder, page, query]
          Listed,      \* those in a blocked category
          RuleLists,   \* what an administrator may write as the rules
          MaxPending,  \* MAX_PENDING
          MaxAsked,    \* bound: requests
          MaxEdits,    \* bound: grants, edits and removals
          MaxFaults    \* bound: saves that fail

ASSUME RequestsConstants ==
    /\ Guests \subseteq Askers
    /\ Urls \subseteq [site : STRING, folder : STRING, page : STRING, query : BOOLEAN]
    /\ Listed \subseteq Urls
    /\ MaxPending \in Nat \ {0}
    /\ {MaxAsked, MaxEdits, MaxFaults} \subseteq Nat

VARIABLES policy,    \* kosherd's: each account's mode, rules and whitelist
          saved,     \* policy.json, which the proxy and the resolver follow
          asked,     \* history: the requests there were, by number
          spool,     \* the numbers of those in the spool
          shown,     \* what an administrator sees
          opened,    \* history: requests whose approval succeeded
          dismissed, \* history: requests that were dismissed
          granted,   \* history: the last grant, once there is one
          edits, faults

requestsVars == <<policy, saved, asked, spool, shown, opened, dismissed, granted, edits, faults>>
-----------------------------------------------------------------------------
(* Rules. *)

Levels == {"allow", "pictures", "bypass"}
Scopes == {"page", "folder", "site"}

Site(u) == [covers |-> "site", site |-> u.site, folder |-> "*", page |-> "*"]
Folder(u) == [covers |-> "folder", site |-> u.site, folder |-> u.folder, page |-> "*"]
Page(u) == [covers |-> "page", site |-> u.site, folder |-> u.folder, page |-> u.page]

\* A page's rule is its address without the query; a page at the top of its
\* site has no folder.
Pattern(u, scope) ==
    CASE scope = "site" -> Site(u)
      [] scope = "folder" -> IF u.folder = "" THEN Site(u) ELSE Folder(u)
      [] scope = "page" -> Page(u)

\* An address is matched with its query.
Matches(p, u) ==
    /\ p.site = u.site
    /\ p.covers # "site" => p.folder = u.folder
    /\ p.covers = "page" => p.page = u.page /\ ~ u.query

Rule(action, p) == [action |-> action, pattern |-> p]
Actions == {"block"} \cup Levels
Patterns == {Pattern(u, scope) : u \in Urls, scope \in Scopes}
UrlRules == [action : Actions, pattern : Patterns]

\* An administrator writes rules (Rule.__post_init__ refuses anything else).
ASSUME RulesAssumption == RuleLists \subseteq Seq(UrlRules)

Deciding(rules, u) == {i \in DOMAIN rules : Matches(rules[i].pattern, u)}
First(S) == CHOOSE i \in S : \A j \in S : i <= j

\* decide: the first rule that matches.
Decide(rules, u) ==
    IF Deciding(rules, u) = {} THEN "none" ELSE rules[First(Deciding(rules, u))].action

\* A rule beats the categories; a whitelist account has its sites.
Opens(account, u) ==
    IF account.mode = "whitelist" THEN u.site \in account.sites
    ELSE CASE Decide(account.rules, u) = "block" -> FALSE
           [] Decide(account.rules, u) = "none" -> u \notin Listed
           [] OTHER -> TRUE
-----------------------------------------------------------------------------
RequestsInit ==
    /\ policy \in [Askers -> [there : {TRUE}, mode : {"filtered", "whitelist"},
                                rules : {<<>>}, sites : {{}}]]
    /\ saved = policy
    /\ asked = <<>> /\ spool = {} /\ shown = {}
    /\ opened = {} /\ dismissed = {}
    /\ granted = <<>>
    /\ edits = 0 /\ faults = 0

PolicyCall == edits < MaxEdits /\ edits' = edits + 1

\* _save_and_apply: what is in memory is saved, or the call is refused with
\* the change left in memory.
Saved == saved' = policy' /\ UNCHANGED faults
Refused == faults < MaxFaults /\ faults' = faults + 1 /\ UNCHANGED saved
-----------------------------------------------------------------------------
\* submit: somebody asks for a page that was blocked.
Submit(uid, u) ==
    /\ Len(asked) < MaxAsked
    /\ saved[uid].there /\ ~ Opens(saved[uid], u)
    /\ asked' = Append(asked, [uid |-> uid, url |-> u])
    /\ spool' = spool \cup {Len(asked) + 1}
    /\ UNCHANGED <<policy, saved, shown, opened, dismissed, granted, edits, faults>>

Newer(r) == {q \in spool : q > r}

\* The newest MAX_PENDING requests.
Newest == {r \in spool : Cardinality(Newer(r)) < MaxPending}
Oldest ==                                    \* mutant: the oldest are kept
    {r \in spool : Cardinality({q \in spool : q < r}) < MaxPending}
Remaining == Newest

\* pending, for ListRequests: what is too much is removed.
List ==
    /\ spool' = Remaining
    /\ shown' = Remaining
    /\ <<spool', shown'>> # <<spool, shown>>
    /\ UNCHANGED <<policy, saved, asked, opened, dismissed, granted, edits, faults>>

\* A rule is put first, and any other for the same pattern goes.
PutFirst(rules, rule) ==
    <<rule>> \o Only(rules, {r \in Range(rules) : r.pattern # rule.pattern})

\* Mutant: whatever is in the same site goes.
PutAlone(rules, rule) ==
    <<rule>> \o Only(rules, {r \in Range(rules) : r.pattern.site # rule.pattern.site})

With(rules, rule) == PutFirst(rules, rule)

\* _grant: in the terms of the account's mode.  A rule that is there already
\* stays where it is.
Granted(account, u, scope, level) ==
    LET rule == Rule(level, Pattern(u, scope))
    IN  IF account.mode = "whitelist"
        THEN [account EXCEPT !.sites = @ \cup {u.site}]
        ELSE IF \E i \in DOMAIN account.rules : account.rules[i] = rule THEN account
        ELSE [account EXCEPT !.rules = With(@, rule)]

\* _grant and the save that ends it.
Grants(uid, u, scope, level) ==
    /\ policy' = [policy EXCEPT ![uid] = Granted(@, u, scope, level)]
    /\ granted' = <<[uid |-> uid, pattern |-> Pattern(u, scope), call |-> edits']>>


\* resolve takes the request off the queue first.
TakenOff(r) == spool' = spool \ {r}

\* ApproveRequest of a request that somebody else has answered is refused
\* and changes nothing; of one by an account that is no longer managed, or
\* by the guest, it is refused and the request is gone.
Approve(r, whole) ==
    LET uid == asked[r].uid
    IN  /\ PolicyCall
        /\ r \in shown \cap spool
        /\ TakenOff(r)
        /\ IF policy[uid].there /\ uid \notin Guests
           THEN /\ Grants(uid, asked[r].url, IF whole THEN "site" ELSE "page", "allow")
                /\ \/ Saved /\ opened' = opened \cup {r}
                   \/ Refused /\ UNCHANGED opened
           ELSE UNCHANGED <<policy, saved, granted, opened, faults>>
        /\ UNCHANGED <<asked, shown, dismissed>>

Dismiss(r) ==
    /\ r \in shown \cap spool
    /\ TakenOff(r)
    /\ dismissed' = dismissed \cup {r}
    /\ UNCHANGED <<policy, saved, asked, shown, opened, granted, edits, faults>>

\* AllowUrl, BypassUrl and GrantUrl, from the activity log.
GrantUrl(uid, u, scope, level) ==
    /\ PolicyCall
    /\ policy[uid].there
    /\ level # "allow" => policy[uid].mode = "filtered"
    /\ Grants(uid, u, scope, level)
    /\ Saved \/ Refused
    /\ UNCHANGED <<asked, spool, shown, opened, dismissed>>

\* SetUrlRules: all of them at once.
SetUrlRules(uid, rules) ==
    /\ PolicyCall
    /\ policy[uid].there /\ policy[uid].rules # rules
    /\ policy' = [policy EXCEPT ![uid].rules = rules]
    /\ Saved \/ Refused
    /\ UNCHANGED <<asked, spool, shown, opened, dismissed, granted>>

\* RemoveUser: its requests stay.
RemoveUser(uid) ==
    /\ PolicyCall
    /\ policy[uid].there /\ uid \notin Guests
    /\ policy' = [policy EXCEPT ![uid].there = FALSE]
    /\ Saved \/ Refused
    /\ UNCHANGED <<asked, spool, shown, opened, dismissed, granted>>

\* kosherd starts again, from what was saved.
StartAgain ==
    /\ policy # saved
    /\ policy' = saved
    /\ UNCHANGED <<saved, asked, spool, shown, opened, dismissed, granted, edits, faults>>
-----------------------------------------------------------------------------
RequestsNext ==
    \/ \E uid \in Askers, u \in Urls : Submit(uid, u)
    \/ List
    \/ \E r \in DOMAIN asked, whole \in BOOLEAN : Approve(r, whole)
    \/ \E r \in DOMAIN asked : Dismiss(r)
    \/ \E uid \in Askers, u \in Urls, scope \in Scopes, level \in Levels :
           GrantUrl(uid, u, scope, level)
    \/ \E uid \in Askers, rules \in RuleLists : SetUrlRules(uid, rules)
    \/ \E uid \in Askers : RemoveUser(uid)
    \/ StartAgain

RequestsSpec == RequestsInit /\ [][RequestsNext]_requestsVars
-----------------------------------------------------------------------------
IsAccount(a) ==
    /\ a.there \in BOOLEAN /\ a.mode \in {"filtered", "whitelist"}
    /\ a.rules \in Seq(UrlRules)
    /\ a.sites \subseteq {u.site : u \in Urls}

\* The policy is one the schema accepts, and the spool holds requests.
RequestsTypeOK ==
    /\ \A uid \in Askers : IsAccount(policy[uid]) /\ IsAccount(saved[uid])
    /\ \A r \in DOMAIN asked : asked[r].uid \in Askers /\ asked[r].url \in Urls
    /\ spool \cup shown \cup opened \cup dismissed \subseteq DOMAIN asked
    /\ edits \in 0 .. MaxEdits /\ faults \in 0 .. MaxFaults

Latest == granted[1]

\* A grant opens what it names and closes nothing, and what it does not name
\* is decided as before: not by another rule, not for another account.
GrantOnlyOpens ==
    [][granted' # granted =>
        \A uid \in Askers, u \in Urls :
            IF uid = Latest'.uid /\ (policy[uid].mode = "whitelist" \/ Matches(Latest'.pattern, u))
            THEN Opens(policy[uid], u) => Opens(policy'[uid], u)
            ELSE /\ Opens(policy'[uid], u) = Opens(policy[uid], u)
                 /\ Decide(policy'[uid].rules, u) = Decide(policy[uid].rules, u)]_requestsVars

\* Nobody who asked is forgotten: a request is waiting, or was answered, or
\* MAX_PENDING newer ones were waiting, or was taken by a call that could
\* not keep it: a save failed, or the account is the guest or is gone.
NobodyForgotten ==
    \A r \in DOMAIN asked :
        \/ r \in spool \cup opened \cup dismissed
        \/ Len(asked) - r >= MaxPending
        \/ faults > 0
        \/ asked[r].uid \in Guests \/ ~ policy[asked[r].uid].there

\* A request is answered once, whatever several administrators were shown.
AnsweredOnce ==
    opened \cap dismissed = {} /\ (opened \cup dismissed) \cap spool = {}

\* Everybody who asked is answered, and once.
AllAnswered == NobodyForgotten /\ AnsweredOnce

\* "Grant a request, in the terms of the account's own mode" (ApproveRequest):
\* the page that was asked for opens.
ApprovedOpens ==
    [][\A r \in DOMAIN asked :
        (r \in shown \cap spool /\ r \notin spool' /\ r \notin dismissed'
            /\ faults' = faults /\ policy[asked[r].uid].there /\ shown' = shown)
            => Opens(saved'[asked[r].uid], asked[r].url)]_requestsVars
=============================================================================
