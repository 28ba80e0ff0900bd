---------------------------- MODULE Applications ----------------------------
(***************************************************************************)
(* The applications of the computer: who may have which (appaccess), the    *)
(* queue of installs and removals with its worker thread (apps.AppManager), *)
(* the approved list, and the malcontent filters that keep an account from  *)
(* running what it may not have (mct).                                      *)
(*                                                                         *)
(* The daemon's handlers run one at a time on its main loop; the worker     *)
(* takes its steps in between. Flatpaks only: an app is installed for the   *)
(* whole computer, so what an account may RUN is up to its filter.          *)
(***************************************************************************)
EXTENDS Naturals, Sequences, FiniteSets

CONSTANTS Accounts,   \* the managed accounts that are not administrators
          Apps,       \* the store's apps
          Games,      \* those on the shelf "games"
          Unsuitable, \* those rated above the ceiling, or made to get round a filter
          MaxCalls    \* bound: calls and restarts

ASSUME AppsAssumption == Games \subseteq Apps /\ Unsuitable \subseteq Apps /\ MaxCalls \in Nat

Entries == {"none", "bare", "full"}   \* off the approved list; on it, with its shelf if known then
Jobs == [ref : Apps, act : {"install", "remove", "update"}]
Rules == [access : {"approved", "store"}, blocked : SUBSET Apps,
          noGames : BOOLEAN, canInstall : BOOLEAN]

VARIABLES
    rules,      \* account -> what its policy says of apps
    approved,   \* the catalog: app -> its entry
    index,      \* is the store's app list in memory
    installed,  \* the apps on the computer
    ledger,     \* who asked for an app: app -> <<>> or <<account>>
    filters,    \* account -> the apps its malcontent filter blocks
    judged,     \* the catalog those filters were worked out with
    queue,      \* AppManager._queue
    pending,    \* AppManager._pending
    running,    \* the job being worked on: <<>> or <<job>>
    outcome,    \* of the running job: "none" yet, "ok", "failed"
    worker,     \* is AppManager._worker alive
    refresh,    \* is an _apply_mct waiting on the main loop
    calls

daemon == <<index, queue, pending, running, outcome, worker, refresh>>
applicationsVars == <<rules, approved, installed, ledger, filters, judged, calls, daemon>>

-----------------------------------------------------------------------------
(* appaccess.decide, as far as what is known of the app lets it judge:      *)
(* its shelf and rating come from the index, or from the approved entry.    *)

May(rule, catalog, indexed, r) ==
    /\ r \notin rule.blocked
    /\ ~(rule.noGames /\ r \in Games /\ (indexed \/ catalog[r] = "full"))
    /\ \/ catalog[r] # "none"
       \/ rule.access = "store" /\ indexed /\ r \notin Unsuitable

\* apply_malcontent: every account's filter, worked out again from what is there.
ApplyMct(nowRules, nowIndexed) ==
    /\ filters' = [u \in Accounts |->
                      {r \in installed : ~May(nowRules[u], approved, nowIndexed, r)}]
    /\ judged' = approved

Called == calls < MaxCalls /\ calls' = calls + 1

Strict == [access |-> "approved", blocked |-> {}, noGames |-> FALSE, canInstall |-> TRUE]

ApplicationsInit ==
    /\ rules = [u \in Accounts |-> Strict]
    /\ approved = [r \in Apps |-> "none"]
    /\ index \in BOOLEAN
    /\ installed = {}
    /\ ledger = [r \in Apps |-> <<>>]
    /\ filters = [u \in Accounts |-> {}]
    /\ judged = approved
    /\ queue = <<>> /\ pending = {} /\ running = <<>>
    /\ outcome = "none" /\ worker = FALSE /\ refresh = FALSE
    /\ calls = 0

-----------------------------------------------------------------------------
(* The daemon's handlers.                                                   *)

\* _enqueue: one job an app, and a worker to do it.
Enqueue(job) ==
    /\ job.ref \notin pending
    /\ pending' = pending \union {job.ref}
    /\ queue' = Append(queue, job)
    /\ worker' = TRUE
    /\ UNCHANGED <<running, outcome>>

\* InstallApp by the account, InstallAppFor by an administrator.
InstallApp(u, r) ==
    /\ Called
    /\ rules[u].canInstall
    /\ May(rules[u], approved, index, r)
    /\ Enqueue([ref |-> r, act |-> "install"])
    /\ ledger' = [ledger EXCEPT ![r] = <<u>>]
    /\ UNCHANGED <<rules, approved, index, installed, filters, judged, refresh>>

\* RemoveApp: forgets who asked for it as soon as the removal is queued.
RemoveApp(r) ==
    /\ Called
    /\ Enqueue([ref |-> r, act |-> "remove"])
    /\ ledger' = [ledger EXCEPT ![r] = <<>>]
    /\ UNCHANGED <<rules, approved, index, installed, filters, judged, refresh>>

\* UpdateApp, and each app of UpdateAllApps.
UpdateApp(r) ==
    /\ Called
    /\ Enqueue([ref |-> r, act |-> "update"])
    /\ UNCHANGED <<rules, approved, index, installed, ledger, filters, judged, refresh>>

\* ApproveApp and UnapproveApp write the catalog, and no filter.
ApproveApp(r) ==
    /\ Called
    /\ approved[r] = "none"
    /\ approved' = [approved EXCEPT ![r] = IF index THEN "full" ELSE "bare"]
    /\ UNCHANGED <<rules, installed, ledger, filters, judged, daemon>>

UnapproveApp(r) ==
    /\ Called
    /\ approved[r] # "none"
    /\ approved' = [approved EXCEPT ![r] = "none"]
    /\ UNCHANGED <<rules, installed, ledger, filters, judged, daemon>>

Changes(rule) ==
    {[rule EXCEPT !.access = a] : a \in {"approved", "store"}}
    \union {[rule EXCEPT !.blocked = b] : b \in SUBSET Apps}
    \union {[rule EXCEPT !.noGames = g] : g \in BOOLEAN}
    \union {[rule EXCEPT !.canInstall = c] : c \in BOOLEAN}

\* SetUserAppAccess, SetUserBlockedApps, SetUserBlockedAppKinds, SetUserCanInstall:
\* saved and applied, the filters with the rest.
SetRule(u) ==
    \E rule \in Changes(rules[u]) \ {rules[u]} :
        /\ Called
        /\ rules' = [rules EXCEPT ![u] = rule]
        /\ ApplyMct(rules', index)
        /\ UNCHANGED <<approved, installed, ledger, daemon>>

-----------------------------------------------------------------------------
(* The worker thread (_drain).                                              *)

TakeNext ==
    /\ worker /\ running = <<>> /\ queue # <<>>
    /\ running' = <<Head(queue)>>
    /\ queue' = Tail(queue)
    /\ outcome' = "none"
    /\ UNCHANGED <<rules, approved, index, installed, ledger, filters, judged, pending,
                   worker, refresh, calls>>

\* As Leave would be if the queue had been looked at before the lock.
LeaveLate ==
    /\ worker /\ running = <<>>
    /\ worker' = FALSE
    /\ UNCHANGED <<rules, approved, index, installed, ledger, filters, judged, queue, pending,
                   running, outcome, refresh, calls>>

\* The queue is looked at and the worker written off under one lock.
Leave ==
    /\ worker /\ running = <<>> /\ queue = <<>>
    /\ worker' = FALSE
    /\ UNCHANGED <<rules, approved, index, installed, ledger, filters, judged, queue, pending,
                   running, outcome, refresh, calls>>

\* Flatpak installs what is not there, and removes or updates what is; or fails.
Becomes(job) ==
    CASE job.act = "install" -> installed \union {job.ref}
      [] job.act = "remove"  -> installed \ {job.ref}
      [] job.act = "update"  -> installed

Possible(job) == (job.act = "install") <=> (job.ref \notin installed)

Work ==
    /\ running # <<>> /\ outcome = "none"
    /\ \/ /\ Possible(running[1])
          /\ installed' = Becomes(running[1])
          /\ outcome' = "ok"
       \/ /\ outcome' = "failed"
          /\ UNCHANGED installed
    /\ UNCHANGED <<rules, approved, index, ledger, filters, judged, queue, pending, running,
                   worker, refresh, calls>>

\* As Finish would be if it left the filters alone.
FinishQuietly ==
    /\ running # <<>> /\ outcome # "none"
    /\ pending' = pending \ {running[1].ref}
    /\ running' = <<>>
    /\ outcome' = "none"
    /\ UNCHANGED <<rules, approved, index, installed, ledger, filters, judged, queue, worker,
                   refresh, calls>>

\* _finish and _on_app_finished: a job that succeeded has the filters done again.
Finish ==
    /\ running # <<>> /\ outcome # "none"
    /\ pending' = pending \ {running[1].ref}
    /\ running' = <<>>
    /\ outcome' = "none"
    /\ refresh' = (refresh \/ outcome = "ok")
    /\ UNCHANGED <<rules, approved, index, installed, ledger, filters, judged, queue, worker, calls>>

-----------------------------------------------------------------------------
(* The main loop, the app index, a restart.                                 *)

Refresh ==
    /\ refresh
    /\ refresh' = FALSE
    /\ ApplyMct(rules, index)
    /\ UNCHANGED <<rules, approved, index, installed, ledger, queue, pending, running,
                   outcome, worker, calls>>

\* _warm_app_index has loaded the list on its thread.
IndexReady ==
    /\ ~index
    /\ index' = TRUE
    /\ refresh' = TRUE
    /\ UNCHANGED <<rules, approved, installed, ledger, filters, judged, queue, pending,
                   running, outcome, worker, calls>>

\* The daemon starts again: what was queued is lost, a job under way was done or
\* not, and the filters are worked out before there is an index.
DaemonRestarts ==
    /\ Called
    /\ index' = FALSE
    /\ queue' = <<>> /\ pending' = {} /\ running' = <<>>
    /\ outcome' = "none" /\ worker' = FALSE /\ refresh' = FALSE
    /\ ApplyMct(rules, FALSE)
    /\ UNCHANGED <<rules, approved, installed, ledger>>

ApplicationsNext ==
    \/ \E u \in Accounts, r \in Apps : InstallApp(u, r)
    \/ \E r \in Apps : RemoveApp(r) \/ UpdateApp(r) \/ ApproveApp(r) \/ UnapproveApp(r)
    \/ \E u \in Accounts : SetRule(u)
    \/ TakeNext \/ Leave \/ Work \/ Finish \/ Refresh \/ IndexReady \/ DaemonRestarts

\* The worker is a running thread, and the main loop runs its idle callbacks.
Fairness == WF_applicationsVars(TakeNext) /\ WF_applicationsVars(Work) /\ WF_applicationsVars(Finish) /\ WF_applicationsVars(Refresh)

ApplicationsSpec == ApplicationsInit /\ [][ApplicationsNext]_applicationsVars /\ Fairness

-----------------------------------------------------------------------------
(* Properties.                                                              *)

\* The job under way, and those behind it.
Todo == running \o queue

\* The queue, the job under way and the set of apps in progress say the same: one
\* job an app, none forgotten and none twice, and a worker whenever there is a job.
ApplicationsTypeOK ==
    /\ rules \in [Accounts -> Rules]
    /\ approved \in [Apps -> Entries] /\ judged \in [Apps -> Entries]
    /\ installed \subseteq Apps /\ filters \in [Accounts -> SUBSET Apps]
    /\ ledger \in [Apps -> {<<>>} \union {<<u>> : u \in Accounts}]
    /\ queue \in Seq(Jobs) /\ running \in Seq(Jobs) /\ Len(running) <= 1
    /\ outcome \in {"none", "ok", "failed"} /\ (running = <<>> => outcome = "none")
    /\ pending = {Todo[i].ref : i \in DOMAIN Todo}
    /\ \A i, j \in DOMAIN Todo : Todo[i].ref = Todo[j].ref => i = j
    /\ pending # {} => worker
    /\ {index, worker, refresh} \subseteq BOOLEAN /\ calls \in 0 .. MaxCalls

\* From a job's work to the filters' renewal they are behind.
InStep == ~refresh /\ outcome # "ok"

Runnable(u) == installed \ filters[u]

\* What an account can run, whatever was installed, removed, blocked or learnt in
\* the meantime and in which order, is what its rules allow under the approved list
\* the filters were last worked out with.
RunsWhatItMay ==
    InStep => \A u \in Accounts : \A r \in Runnable(u) : May(rules[u], judged, index, r)

\* Every app asked for is dealt with: a failure or a change of the rules does not
\* leave a job waiting for ever, nor an app "already in progress".
EveryJobEnds == \A r \in Apps : (r \in pending) ~> (r \notin pending)
=============================================================================
