----------------------------- MODULE AccessProofs -----------------------------
(***************************************************************************)
(* Proofs about what people may do: what an administrator lets an account    *)
(* have, applications (Applications) and pages it asked for (Requests), and  *)
(* the gates in front of the calls themselves (Guardian), for any accounts,  *)
(* people, passwords, apps, addresses, rules, limits and number of calls.    *)
(* The queue and the set of apps in progress agree, and what an account can  *)
(* run is what its rules allow, whatever was installed, removed or failed; a *)
(* request is answered once, and is not forgotten; a gated call is answered  *)
(* only with proof, and guessing is bounded however far the clock is moved.  *)
(***************************************************************************)
EXTENDS Applications, Requests, Guardian, ListsProofs, SequenceTheorems,
        FiniteSetTheorems, TLAPS

(* What every account can run is allowed, unless a job's work is still to be *)
(* followed by new filters.                                                 *)
Sound ==
    InStep => \A u \in Accounts : \A r \in installed \ filters[u] :
                  May(rules[u], judged, index, r)

(* apply_malcontent leaves nothing runnable that is refused. *)
LEMMA FiltersAreRight ==
  ASSUME NEW nowRules, NEW nowIndexed, ApplyMct(nowRules, nowIndexed)
  PROVE  /\ judged' = approved
         /\ filters' \in [Accounts -> SUBSET installed]
         /\ \A u \in Accounts : \A r \in installed \ filters'[u] :
                May(nowRules[u], judged', nowIndexed, r)
<1>1. /\ filters' = [u \in Accounts |->
                        {r \in installed : ~May(nowRules[u], approved, nowIndexed, r)}]
      /\ judged' = approved
  BY DEF ApplyMct
<1> HIDE DEF May
<1> QED BY <1>1

-----------------------------------------------------------------------------
(* The queue, the job under way and the apps in progress. *)
Jobbing ==
    /\ queue \in Seq(Jobs) /\ running \in Seq(Jobs) /\ Len(running) <= 1
    /\ outcome \in {"none", "ok", "failed"} /\ (running = <<>> => outcome = "none")
    /\ pending = {Todo[i].ref : i \in DOMAIN Todo}
    /\ \A i, j \in DOMAIN Todo : Todo[i].ref = Todo[j].ref => i = j
    /\ pending # {} => worker

(* One more job goes to the end, and its app was not in progress (_enqueue). *)
LEMMA Enqueued ==
  ASSUME Jobbing, NEW job \in Jobs, Enqueue(job)
  PROVE  Jobbing'
<1>1. /\ job.ref \notin pending /\ pending' = pending \union {job.ref}
      /\ queue' = Append(queue, job) /\ worker' = TRUE /\ UNCHANGED <<running, outcome>>
  BY DEF Enqueue
<1>2. Todo \in Seq(Jobs) /\ Todo' = Append(Todo, job) /\ queue' \in Seq(Jobs)
  BY <1>1 DEF Jobbing, Todo
<1> DEFINE n == Len(Todo)
<1>3. /\ n \in Nat /\ DOMAIN Todo = 1 .. n /\ DOMAIN Todo' = 1 .. n + 1
      /\ Todo'[n + 1] = job /\ \A i \in 1 .. n : Todo'[i] = Todo[i]
  BY <1>2
<1>4. pending' = {Todo'[i].ref : i \in DOMAIN Todo'}
  <2>1. pending = {Todo[i].ref : i \in 1 .. n}
    BY <1>3 DEF Jobbing
  <2>2. {Todo'[i].ref : i \in 1 .. n + 1} = {Todo'[i].ref : i \in 1 .. n} \union {Todo'[n + 1].ref}
    BY <1>3
  <2> QED BY <1>1, <1>3, <2>1, <2>2
<1>5. ASSUME NEW i \in DOMAIN Todo', NEW j \in DOMAIN Todo', Todo'[i].ref = Todo'[j].ref
      PROVE  i = j
  <2>1. \A k \in 1 .. n : Todo'[k].ref \in pending
    BY <1>3 DEF Jobbing
  <2>2. \A k, l \in 1 .. n : Todo[k].ref = Todo[l].ref => k = l
    BY <1>3 DEF Jobbing
  <2>3. i \in 1 .. n \/ i = n + 1
    BY <1>3, <1>5
  <2>4. j \in 1 .. n \/ j = n + 1
    BY <1>3, <1>5
  <2> QED BY <1>1, <1>3, <1>5, <2>1, <2>2, <2>3, <2>4
<1> QED BY <1>1, <1>2, <1>4, <1>5 DEF Jobbing

(* The worker takes the next job: all of them are still there (_drain). *)
LEMMA Taken ==
  ASSUME Jobbing, TakeNext
  PROVE  Jobbing'
<1>1. /\ running = <<>> /\ queue # <<>> /\ queue \in Seq(Jobs)
      /\ running' = <<Head(queue)>> /\ queue' = Tail(queue)
      /\ outcome' = "none" /\ UNCHANGED <<pending, worker>>
  BY DEF TakeNext, Jobbing
<1>2. /\ Head(queue) \in Jobs /\ Tail(queue) \in Seq(Jobs)
      /\ <<Head(queue)>> \o Tail(queue) = queue
  BY <1>1, HeadTailProperties
<1>3. Todo' = Todo
  BY <1>1, <1>2 DEF Todo
<1>4. running' \in Seq(Jobs) /\ Len(running') = 1
  BY <1>1, <1>2
<1> QED BY <1>1, <1>2, <1>3, <1>4 DEF Jobbing

(* The job that has ended was the first, and no other is about its app (_finish). *)
LEMMA Finished ==
  ASSUME Jobbing, Finish
  PROVE  Jobbing'
<1>1. /\ running # <<>> /\ running' = <<>> /\ outcome' = "none" /\ UNCHANGED <<queue, worker>>
      /\ pending' = pending \ {running[1].ref}
  BY DEF Finish
<1>2. /\ queue \in Seq(Jobs) /\ running \in Seq(Jobs) /\ Len(running) = 1
  <2>1. queue \in Seq(Jobs) /\ running \in Seq(Jobs) /\ Len(running) <= 1
    BY DEF Jobbing
  <2>2. Len(running) # 0 /\ Len(running) \in Nat
    BY <1>1, <2>1, EmptySeq
  <2>3. \A n \in Nat : n <= 1 /\ n # 0 => n = 1
    OBVIOUS
  <2>4. Len(running) = 1
    BY <2>1, <2>2, <2>3
  <2> QED BY <2>1, <2>4
<1> DEFINE n == Len(queue)
<1>3. /\ n \in Nat /\ DOMAIN Todo = 1 .. n + 1 /\ Todo[1] = running[1]
      /\ \A i \in 1 .. n : Todo[i + 1] = queue[i]
  <2>0. /\ Todo \in Seq(Jobs) /\ Len(Todo) = Len(running) + Len(queue)
        /\ \A i \in 1 .. Len(running) + Len(queue) :
               Todo[i] = IF i <= Len(running) THEN running[i] ELSE queue[i - Len(running)]
    BY <1>2, ConcatProperties, ZenonT(30) DEF Todo
  <2>1. /\ Todo \in Seq(Jobs) /\ Len(Todo) = 1 + n /\ n \in Nat
        /\ \A i \in 1 .. 1 + n : Todo[i] = IF i <= 1 THEN running[i] ELSE queue[i - 1]
    BY <1>2, <2>0
  <2>2. DOMAIN Todo = 1 .. n + 1
    BY <2>1
  <2>3. ASSUME NEW i \in 1 .. n PROVE Todo[i + 1] = queue[i]
    <3>1. i + 1 \in 1 .. 1 + n /\ ~(i + 1 <= 1) /\ (i + 1) - 1 = i
      BY <2>1
    <3> QED BY <2>1, <3>1
  <2>4. Todo[1] = running[1]
    BY <2>1
  <2> QED BY <2>1, <2>2, <2>3, <2>4
<1>4. Todo' = queue /\ DOMAIN Todo' = 1 .. n
  BY <1>1, <1>2 DEF Todo
<1>5. \A i, j \in 1 .. n + 1 : Todo[i].ref = Todo[j].ref => i = j
  BY <1>3 DEF Jobbing
<1>6. \A i \in 1 .. n : i + 1 \in 1 .. n + 1 /\ i + 1 # 1
  BY <1>3
<1>7. \A i, j \in 1 .. n : queue[i].ref = queue[j].ref => i = j
  <2>1. SUFFICES ASSUME NEW i \in 1 .. n, NEW j \in 1 .. n, queue[i].ref = queue[j].ref
                 PROVE  i = j
    OBVIOUS
  <2>2. i + 1 = j + 1
    BY <1>3, <1>5, <1>6, <2>1
  <2> QED BY <1>3, <2>2
<1>8. pending' = {queue[i].ref : i \in 1 .. n}
  <2>1. pending = {Todo[i].ref : i \in 1 .. n + 1}
    BY <1>3 DEF Jobbing
  <2>2. \A i \in 2 .. n + 1 : i - 1 \in 1 .. n /\ Todo[i] = queue[i - 1]
    BY <1>3
  <2>3. {queue[i].ref : i \in 1 .. n} \subseteq pending \ {running[1].ref}
    <3>1. SUFFICES ASSUME NEW i \in 1 .. n
                   PROVE  queue[i].ref \in pending /\ queue[i].ref # running[1].ref
      OBVIOUS
    <3>2. queue[i].ref = Todo[i + 1].ref /\ i + 1 \in 1 .. n + 1 /\ i + 1 # 1
      BY <1>3, <1>6
    <3>3. Todo[i + 1].ref # Todo[1].ref
      BY <1>3, <1>5, <3>2
    <3> QED BY <1>3, <2>1, <3>2, <3>3
  <2>4. pending \ {running[1].ref} \subseteq {queue[i].ref : i \in 1 .. n}
    <3>1. SUFFICES ASSUME NEW i \in 1 .. n + 1, Todo[i].ref # running[1].ref
                   PROVE  \E k \in 1 .. n : Todo[i].ref = queue[k].ref
      BY <2>1
    <3>2. i \in 2 .. n + 1
      BY <1>3, <3>1
    <3> QED BY <2>2, <3>2
  <2> QED BY <1>1, <2>3, <2>4
<1>9. pending' # {} => worker'
  BY <1>1 DEF Jobbing
<1>10. running' \in Seq(Jobs) /\ Len(running') = 0
  BY <1>1
<1>11. /\ pending' = {Todo'[i].ref : i \in DOMAIN Todo'}
       /\ \A i, j \in DOMAIN Todo' : Todo'[i].ref = Todo'[j].ref => i = j
  BY <1>4, <1>7, <1>8
<1> QED BY <1>1, <1>2, <1>9, <1>10, <1>11 DEF Jobbing

(* No job, no app in progress. *)
LEMMA NothingToDo ==
  ASSUME queue = <<>>, running = <<>>
  PROVE  Todo = <<>> /\ DOMAIN Todo = {} /\ {Todo[i].ref : i \in DOMAIN Todo} = {}
<1>1. Todo = <<>>
  BY DEF Todo
<1> QED BY <1>1

-----------------------------------------------------------------------------
(* What every account can run is allowed (Sound). *)

(* The filters worked out anew are right for the rules they were worked out with. *)
LEMMA SoundRenewed ==
  ASSUME NEW nowRules, NEW nowIndexed, ApplyMct(nowRules, nowIndexed),
         rules' = nowRules, index' = nowIndexed, installed' = installed
  PROVE  Sound'
<1>1. /\ judged' = approved
      /\ \A u \in Accounts : \A r \in installed \ filters'[u] :
             May(nowRules[u], judged', nowIndexed, r)
  BY FiltersAreRight
<1> HIDE DEF May
<1> QED BY <1>1 DEF Sound

(* A step that leaves the rules, the apps and the filters alone, and does not say *)
(* that the filters are up to date when they were not.                          *)
LEMMA SoundOtherwise ==
  ASSUME Sound, UNCHANGED <<rules, index, installed, filters, judged>>, InStep' => InStep
  PROVE  Sound'
<1> HIDE DEF May
<1> QED BY DEF Sound

(* Every step keeps what an account can run within its rules. *)
LEMMA SoundStep == Jobbing /\ Sound /\ [ApplicationsNext]_applicationsVars => Sound'
<1> SUFFICES ASSUME Jobbing, Sound, [ApplicationsNext]_applicationsVars PROVE Sound'
  OBVIOUS
<1> USE DEF InStep
<1>1. CASE UNCHANGED applicationsVars
  BY <1>1, SoundOtherwise DEF applicationsVars, daemon
<1>2. ASSUME NEW u \in Accounts, NEW r \in Apps, InstallApp(u, r) PROVE Sound'
  BY <1>2, SoundOtherwise DEF InstallApp, Enqueue
<1>3. ASSUME NEW r \in Apps, RemoveApp(r) \/ UpdateApp(r) PROVE Sound'
  BY <1>3, SoundOtherwise DEF RemoveApp, UpdateApp, Enqueue
<1>4. ASSUME NEW r \in Apps, ApproveApp(r) \/ UnapproveApp(r) PROVE Sound'
  BY <1>4, SoundOtherwise DEF ApproveApp, UnapproveApp, daemon
<1>5. ASSUME NEW u \in Accounts, SetRule(u) PROVE Sound'
  <2>1. ApplyMct(rules', index) /\ index' = index /\ installed' = installed
    BY <1>5 DEF SetRule, daemon
  <2> QED BY <2>1, SoundRenewed
<1>6. CASE TakeNext
  <2>1. outcome = "none"
    BY <1>6 DEF TakeNext, Jobbing
  <2> QED BY <1>6, <2>1, SoundOtherwise DEF TakeNext
<1>7. CASE Leave
  BY <1>7, SoundOtherwise DEF Leave
<1>8. CASE Work
  <2>1. CASE outcome' = "ok"
    BY <2>1 DEF Sound
  <2>2. CASE outcome' # "ok"
    <3>1. UNCHANGED <<rules, index, installed, filters, judged, refresh>> /\ outcome = "none"
      BY <1>8, <2>2 DEF Work
    <3> QED BY <3>1, SoundOtherwise
  <2> QED BY <2>1, <2>2
<1>9. CASE Finish
  <2>1. UNCHANGED <<rules, index, installed, filters, judged>>
        /\ refresh' = (refresh \/ outcome = "ok")
    BY <1>9 DEF Finish
  <2> QED BY <2>1, SoundOtherwise
<1>10. CASE Refresh
  <2>1. ApplyMct(rules, index) /\ UNCHANGED <<rules, index, installed>>
    BY <1>10 DEF Refresh
  <2> QED BY <2>1, SoundRenewed
<1>11. CASE IndexReady
  BY <1>11 DEF IndexReady, Sound
<1>12. CASE DaemonRestarts
  <2>1. ApplyMct(rules, FALSE) /\ index' = FALSE /\ UNCHANGED <<rules, installed>>
    BY <1>12 DEF DaemonRestarts
  <2> QED BY <2>1, SoundRenewed
<1> QED BY <1>1, <1>2, <1>3, <1>4, <1>5, <1>6, <1>7, <1>8, <1>9, <1>10, <1>11, <1>12 DEF ApplicationsNext

-----------------------------------------------------------------------------
(* Every step keeps the queue and the apps in progress together. *)

(* A step that leaves the jobs alone keeps them as they are. *)
LEMMA JobbingKept ==
  ASSUME Jobbing, UNCHANGED <<queue, pending, running, outcome, worker>>
  PROVE  Jobbing'
  BY DEF Jobbing, Todo

(* Every step keeps the queue and the apps in progress together. *)
LEMMA JobbingStep == Jobbing /\ [ApplicationsNext]_applicationsVars => Jobbing'
<1> SUFFICES ASSUME Jobbing, [ApplicationsNext]_applicationsVars PROVE Jobbing'
  OBVIOUS
<1>1. CASE UNCHANGED applicationsVars
  BY <1>1, JobbingKept DEF applicationsVars, daemon
<1>2. ASSUME NEW u \in Accounts, NEW r \in Apps, InstallApp(u, r) PROVE Jobbing'
  <2>1. [ref |-> r, act |-> "install"] \in Jobs
    BY DEF Jobs
  <2> QED BY <1>2, <2>1, Enqueued DEF InstallApp
<1>3. ASSUME NEW r \in Apps, RemoveApp(r) PROVE Jobbing'
  <2>1. [ref |-> r, act |-> "remove"] \in Jobs
    BY DEF Jobs
  <2> QED BY <1>3, <2>1, Enqueued DEF RemoveApp
<1>4. ASSUME NEW r \in Apps, UpdateApp(r) PROVE Jobbing'
  <2>1. [ref |-> r, act |-> "update"] \in Jobs
    BY DEF Jobs
  <2> QED BY <1>4, <2>1, Enqueued DEF UpdateApp
<1>5. ASSUME NEW r \in Apps, ApproveApp(r) \/ UnapproveApp(r) PROVE Jobbing'
  BY <1>5, JobbingKept DEF ApproveApp, UnapproveApp, daemon
<1>6. ASSUME NEW u \in Accounts, SetRule(u) PROVE Jobbing'
  BY <1>6, JobbingKept DEF SetRule, daemon
<1>7. CASE TakeNext
  BY <1>7, Taken
<1>8. CASE Leave
  <2>1. running = <<>> /\ queue = <<>> /\ UNCHANGED <<queue, pending, running, outcome>>
    BY <1>8 DEF Leave
  <2>2. pending = {}
    BY <2>1, NothingToDo DEF Jobbing
  <2>3. UNCHANGED Todo
    BY <2>1 DEF Todo
  <2> QED BY <2>1, <2>2, <2>3 DEF Jobbing
<1>9. CASE Work
  <2>1. /\ running # <<>> /\ outcome' \in {"ok", "failed"}
        /\ UNCHANGED <<queue, pending, running, worker>>
    BY <1>9 DEF Work
  <2>2. UNCHANGED Todo
    BY <2>1 DEF Todo
  <2> QED BY <2>1, <2>2 DEF Jobbing
<1>10. CASE Finish
  BY <1>10, Finished
<1>11. CASE Refresh
  BY <1>11, JobbingKept DEF Refresh
<1>12. CASE IndexReady
  BY <1>12, JobbingKept DEF IndexReady
<1>13. CASE DaemonRestarts
  <2>1. queue' = <<>> /\ running' = <<>> /\ pending' = {} /\ outcome' = "none"
    BY <1>13 DEF DaemonRestarts
  <2>2. Todo' = <<>> /\ DOMAIN Todo' = {}
    BY <2>1 DEF Todo
  <2>3. <<>> \in Seq(Jobs) /\ Len(<<>>) = 0
    BY EmptySeq
  <2>4. /\ pending' = {Todo'[i].ref : i \in DOMAIN Todo'}
        /\ \A i, j \in DOMAIN Todo' : Todo'[i].ref = Todo'[j].ref => i = j
    BY <2>1, <2>2
  <2>5. queue' \in Seq(Jobs) /\ running' \in Seq(Jobs) /\ Len(running') <= 1
    BY <2>1, <2>3
  <2>6. pending' # {} => worker'
    BY <2>1
  <2> QED BY <2>1, <2>4, <2>5, <2>6 DEF Jobbing
<1> QED BY <1>1, <1>2, <1>3, <1>4, <1>5, <1>6, <1>7, <1>8, <1>9, <1>10, <1>11, <1>12, <1>13 DEF ApplicationsNext

(* The rest of the state: rules, lists, filters and flags. *)
Standing ==
    /\ rules \in [Accounts -> Rules]
    /\ approved \in [Apps -> Entries] /\ judged \in [Apps -> Entries]
    /\ installed \subseteq Apps /\ filters \in [Accounts -> SUBSET Apps]
    /\ ledger \in [Apps -> {<<>>} \union {<<u>> : u \in Accounts}]
    /\ {index, worker, refresh} \subseteq BOOLEAN /\ calls \in 0 .. MaxCalls

(* A call is counted, up to the bound. *)
LEMMA Counting == ASSUME Standing, Called PROVE calls' \in 0 .. MaxCalls
  BY AppsAssumption DEF Standing, Called

(* A change of an account's rules leaves them rules. *)
LEMMA RulesStay ==
  ASSUME NEW rule \in Rules, NEW other \in Changes(rule)
  PROVE  other \in Rules
<1>1. CASE other \in {[rule EXCEPT !.access = a] : a \in {"approved", "store"}}
  BY <1>1 DEF Rules
<1>2. CASE other \in {[rule EXCEPT !.blocked = b] : b \in SUBSET Apps}
  BY <1>2 DEF Rules
<1>3. CASE other \in {[rule EXCEPT !.noGames = g] : g \in BOOLEAN}
  <2>1. PICK g \in BOOLEAN : other = [rule EXCEPT !.noGames = g]
    BY <1>3
  <2> QED BY <2>1 DEF Rules
<1>4. CASE other \in {[rule EXCEPT !.canInstall = c] : c \in BOOLEAN}
  <2>1. PICK c \in BOOLEAN : other = [rule EXCEPT !.canInstall = c]
    BY <1>4
  <2> QED BY <2>1 DEF Rules
<1> QED BY <1>1, <1>2, <1>3, <1>4 DEF Changes

(* New filters are filters. *)
LEMMA NewFilters ==
  ASSUME Standing, NEW nowRules, NEW nowIndexed, ApplyMct(nowRules, nowIndexed)
  PROVE  judged' \in [Apps -> Entries] /\ filters' \in [Accounts -> SUBSET Apps]
<1>1. judged' = approved /\ filters' \in [Accounts -> SUBSET installed]
  BY FiltersAreRight
<1>2. \A u \in Accounts : filters'[u] \subseteq Apps
  BY <1>1 DEF Standing
<1> QED BY <1>1, <1>2 DEF Standing

(* Every step keeps the types of the rest of the state. *)
LEMMA KeptStep == Jobbing /\ Standing /\ [ApplicationsNext]_applicationsVars => Standing'
<1> SUFFICES ASSUME Jobbing, Standing, [ApplicationsNext]_applicationsVars PROVE Standing'
  OBVIOUS
<1>1. CASE UNCHANGED applicationsVars
  BY <1>1 DEF applicationsVars, daemon, Standing
<1>2. ASSUME NEW u \in Accounts, NEW r \in Apps, InstallApp(u, r) PROVE Standing'
  <2>1. calls' \in 0 .. MaxCalls
    BY <1>2, Counting DEF InstallApp
  <2>2. ledger' = [ledger EXCEPT ![r] = <<u>>] /\ worker' = TRUE
    BY <1>2 DEF InstallApp, Enqueue
  <2>3. ledger' \in [Apps -> {<<>>} \union {<<v>> : v \in Accounts}]
    BY <2>2 DEF Standing
  <2> QED BY <1>2, <2>1, <2>2, <2>3 DEF InstallApp, Standing
<1>3. ASSUME NEW r \in Apps, RemoveApp(r) PROVE Standing'
  <2>1. calls' \in 0 .. MaxCalls
    BY <1>3, Counting DEF RemoveApp
  <2>2. ledger' = [ledger EXCEPT ![r] = <<>>] /\ worker' = TRUE
    BY <1>3 DEF RemoveApp, Enqueue
  <2>3. ledger' \in [Apps -> {<<>>} \union {<<v>> : v \in Accounts}]
    BY <2>2 DEF Standing
  <2> QED BY <1>3, <2>1, <2>2, <2>3 DEF RemoveApp, Standing
<1>4. ASSUME NEW r \in Apps, UpdateApp(r) PROVE Standing'
  <2>1. calls' \in 0 .. MaxCalls
    BY <1>4, Counting DEF UpdateApp
  <2> QED BY <1>4, <2>1 DEF UpdateApp, Enqueue, Standing
<1>5. ASSUME NEW r \in Apps, ApproveApp(r) \/ UnapproveApp(r) PROVE Standing'
  <2>1. calls' \in 0 .. MaxCalls
    BY <1>5, Counting DEF ApproveApp, UnapproveApp
  <2>2. \E e \in Entries : approved' = [approved EXCEPT ![r] = e]
    BY <1>5 DEF ApproveApp, UnapproveApp, Entries
  <2>3. approved' \in [Apps -> Entries]
    BY <2>2 DEF Standing
  <2> QED BY <1>5, <2>1, <2>3 DEF ApproveApp, UnapproveApp, daemon, Standing
<1>6. ASSUME NEW u \in Accounts, SetRule(u) PROVE Standing'
  <2>1. PICK rule \in Changes(rules[u]) : rules' = [rules EXCEPT ![u] = rule]
    BY <1>6 DEF SetRule
  <2>2. rule \in Rules
    BY <2>1, RulesStay DEF Standing
  <2>3. rules' \in [Accounts -> Rules]
    BY <2>1, <2>2 DEF Standing
  <2>4. calls' \in 0 .. MaxCalls /\ ApplyMct(rules', index)
        /\ UNCHANGED <<approved, installed, ledger, daemon>>
    BY <1>6, Counting DEF SetRule
  <2>5. judged' \in [Apps -> Entries] /\ filters' \in [Accounts -> SUBSET Apps]
    BY <2>4, NewFilters
  <2> QED BY <2>3, <2>4, <2>5 DEF daemon, Standing
<1>7. CASE TakeNext \/ Leave
  BY <1>7 DEF TakeNext, Leave, Standing
<1>8. CASE Work
  <2>1. installed' = installed \/ installed' = Becomes(running[1])
    BY <1>8 DEF Work
  <2>2. running[1] \in Jobs
    <3>1. running # <<>> /\ running \in Seq(Jobs)
      BY <1>8 DEF Work, Jobbing
    <3> QED BY <3>1, EmptySeq
  <2>3. Becomes(running[1]) \subseteq Apps
    BY <2>2 DEF Becomes, Jobs, Standing
  <2> QED BY <1>8, <2>1, <2>3 DEF Work, Standing
<1>9. CASE Finish
  BY <1>9 DEF Finish, Standing
<1>10. CASE Refresh
  <2>1. judged' \in [Apps -> Entries] /\ filters' \in [Accounts -> SUBSET Apps]
    BY <1>10, NewFilters DEF Refresh
  <2> QED BY <1>10, <2>1 DEF Refresh, Standing
<1>11. CASE IndexReady
  BY <1>11 DEF IndexReady, Standing
<1>12. CASE DaemonRestarts
  <2>1. judged' \in [Apps -> Entries] /\ filters' \in [Accounts -> SUBSET Apps]
    BY <1>12, NewFilters DEF DaemonRestarts
  <2>2. calls' \in 0 .. MaxCalls
    BY <1>12, Counting DEF DaemonRestarts
  <2> QED BY <1>12, <2>1, <2>2 DEF DaemonRestarts, Standing
<1> QED BY <1>1, <1>2, <1>3, <1>4, <1>5, <1>6, <1>7, <1>8, <1>9, <1>10, <1>11, <1>12 DEF ApplicationsNext

-----------------------------------------------------------------------------
(* Nothing is queued, installed or allowed to begin with. *)
LEMMA Begins == ApplicationsInit => Jobbing /\ Standing /\ Sound
<1> SUFFICES ASSUME ApplicationsInit PROVE Jobbing /\ Standing /\ Sound
  OBVIOUS
<1>1. Jobbing
  <2>1. queue = <<>> /\ running = <<>> /\ pending = {} /\ outcome = "none"
    BY DEF ApplicationsInit
  <2>2. <<>> \in Seq(Jobs) /\ Len(<<>>) = 0
    BY EmptySeq
  <2>3. /\ pending = {Todo[i].ref : i \in DOMAIN Todo}
        /\ \A i, j \in DOMAIN Todo : Todo[i].ref = Todo[j].ref => i = j
    BY <2>1, NothingToDo
  <2> QED BY <2>1, <2>2, <2>3 DEF Jobbing
<1>2. Standing
  <2>1. Strict \in Rules
    BY DEF Strict, Rules
  <2>2. rules \in [Accounts -> Rules] /\ approved \in [Apps -> Entries]
        /\ judged \in [Apps -> Entries] /\ installed \subseteq Apps
    BY <2>1 DEF ApplicationsInit, Entries
  <2>3. /\ filters \in [Accounts -> SUBSET Apps]
        /\ ledger \in [Apps -> {<<>>} \union {<<u>> : u \in Accounts}]
    BY DEF ApplicationsInit
  <2>4. {index, worker, refresh} \subseteq BOOLEAN /\ calls \in 0 .. MaxCalls
    <3>1. index \in BOOLEAN /\ worker \in BOOLEAN /\ refresh \in BOOLEAN
      BY DEF ApplicationsInit
    <3>2. calls = 0 /\ MaxCalls \in Nat
      BY AppsAssumption DEF ApplicationsInit
    <3> QED BY <3>1, <3>2
  <2> QED BY <2>2, <2>3, <2>4 DEF Standing
<1>3. Sound
  BY DEF ApplicationsInit, Sound
<1> QED BY <1>1, <1>2, <1>3

(* What the queue and the filters say holds in every behaviour. *)
LEMMA Holds == ApplicationsSpec => [](Jobbing /\ Standing /\ Sound)
  BY Begins, JobbingStep, KeptStep, SoundStep, PTL DEF ApplicationsSpec

(* The queue, the job under way and the apps in progress say the same (AppManager). *)
THEOREM ApplicationsTyped == ApplicationsSpec => []ApplicationsTypeOK
<1>1. Jobbing /\ Standing => ApplicationsTypeOK
  BY DEF Jobbing, Standing, ApplicationsTypeOK
<1> QED BY <1>1, Holds, PTL

(* What an account can run is what its rules allow under the approved list the filters
   were last worked out with, whatever jobs run, fail or are lost (apply_malcontent). *)
THEOREM RunsAllowed == ApplicationsSpec => []RunsWhatItMay
<1>1. Sound => RunsWhatItMay
  BY DEF Sound, RunsWhatItMay, Runnable
<1> QED BY <1>1, Holds, PTL

-----------------------------------------------------------------------------
(* Pages that were asked for (Requests): who may have them, and who is told.   *)

\* An account, as far as being there and having a mode goes.
Entry(a) == /\ a = [there |-> a.there, mode |-> a.mode, rules |-> a.rules, sites |-> a.sites]
            /\ a.there \in BOOLEAN
EntriesOf(p) == p = [uid \in Askers |-> p[uid]] /\ \A uid \in Askers : Entry(p[uid])

Demands == [uid : Askers, url : Urls]

\* The requests there were, and where their numbers may be.
Numbers ==
    /\ asked \in Seq(Demands)
    /\ spool \subseteq 1 .. Len(asked) /\ shown \subseteq 1 .. Len(asked)
    /\ opened \subseteq 1 .. Len(asked) /\ dismissed \subseteq 1 .. Len(asked)
    /\ faults \in Nat

\* Memory and file hold accounts, and differ only after a save that failed.
Policies ==
    /\ EntriesOf(policy) /\ EntriesOf(saved)
    /\ faults = 0 => policy = saved

Basis == Numbers /\ Policies
-----------------------------------------------------------------------------
(* A grant (_grant) changes nothing of an account but its rules and its whitelist. *)
LEMMA GrantedEntry ==
  ASSUME NEW a, Entry(a), NEW u \in Urls, NEW scope, NEW level
  PROVE  Entry(Granted(a, u, scope, level)) /\ Granted(a, u, scope, level).there = a.there
<1> DEFINE g == Granted(a, u, scope, level)
<1>1. \/ g = a
      \/ \E x : g = [a EXCEPT !.rules = x]
      \/ \E x : g = [a EXCEPT !.sites = x]
  BY DEF Granted
<1>2. ASSUME NEW x PROVE
        /\ [a EXCEPT !.rules = x] = [there |-> a.there, mode |-> a.mode, rules |-> x, sites |-> a.sites]
        /\ [a EXCEPT !.sites = x] = [there |-> a.there, mode |-> a.mode, rules |-> a.rules, sites |-> x]
  BY DEF Entry
<1> QED BY <1>1, <1>2 DEF Entry

(* An entry may be given other rules (SetUrlRules) or be gone (RemoveUser). *)
LEMMA ChangedEntry ==
  ASSUME NEW a, Entry(a), NEW x
  PROVE  /\ Entry([a EXCEPT !.rules = x]) /\ [a EXCEPT !.rules = x].there = a.there
         /\ Entry([a EXCEPT !.there = FALSE]) /\ [a EXCEPT !.there = FALSE].there = FALSE
<1>1. [a EXCEPT !.rules = x] = [there |-> a.there, mode |-> a.mode, rules |-> x, sites |-> a.sites]
  BY DEF Entry
<1>2. ASSUME NEW y PROVE [a EXCEPT !.there = y]
        = [there |-> y, mode |-> a.mode, rules |-> a.rules, sites |-> a.sites]
  BY DEF Entry
<1>3. Entry([a EXCEPT !.rules = x]) /\ [a EXCEPT !.rules = x].there = a.there
  BY <1>1 DEF Entry
<1>4. Entry([a EXCEPT !.there = FALSE]) /\ [a EXCEPT !.there = FALSE].there = FALSE
  BY <1>2 DEF Entry
<1> QED BY <1>3, <1>4

(* One account's entry is replaced by an entry. *)
LEMMA ChangedPolicy ==
  ASSUME NEW p, EntriesOf(p), NEW uid \in Askers, NEW a, Entry(a)
  PROVE  /\ EntriesOf([p EXCEPT ![uid] = a])
         /\ [p EXCEPT ![uid] = a][uid] = a
         /\ \A v \in Askers : v # uid => [p EXCEPT ![uid] = a][v] = p[v]
<1> DEFINE q == [v \in Askers |-> IF v = uid THEN a ELSE p[v]]
<1>1. [p EXCEPT ![uid] = a] = q
  BY DEF EntriesOf
<1>2. q[uid] = a /\ \A v \in Askers : v # uid => q[v] = p[v]
  OBVIOUS
<1>3. \A v \in Askers : Entry(q[v])
  BY DEF EntriesOf
<1>4. q = [v \in Askers |-> q[v]]
  OBVIOUS
<1> QED BY <1>1, <1>2, <1>3, <1>4 DEF EntriesOf

(* A grant of _grant, saved or not, leaves accounts that were there. *)
LEMMA GrantsPolicy ==
  ASSUME Policies, NEW uid \in Askers, NEW u \in Urls, NEW scope, NEW level,
         Grants(uid, u, scope, level)
  PROVE  EntriesOf(policy') /\ \A v \in Askers : policy'[v].there = policy[v].there
<1>1. policy' = [policy EXCEPT ![uid] = Granted(policy[uid], u, scope, level)]
  BY DEF Grants
<1>2. EntriesOf(policy) /\ Entry(policy[uid])
  BY DEF Policies, EntriesOf
<1>3. /\ Entry(Granted(policy[uid], u, scope, level))
      /\ Granted(policy[uid], u, scope, level).there = policy[uid].there
  BY <1>2, GrantedEntry
<1> DEFINE a == Granted(policy[uid], u, scope, level)
<1> HIDE DEF a
<1>4. EntriesOf([policy EXCEPT ![uid] = a]) /\ [policy EXCEPT ![uid] = a][uid] = a
      /\ \A v \in Askers : v # uid => [policy EXCEPT ![uid] = a][v] = policy[v]
  BY <1>2, <1>3, ChangedPolicy DEF a
<1> QED BY <1>1, <1>3, <1>4 DEF a

(* The call of an administrator, answered (_save_and_apply) or refused. *)
LEMMA SavedPolicies ==
  ASSUME Policies, Numbers, EntriesOf(policy'), Saved \/ Refused
  PROVE  Policies' /\ faults' \in Nat /\ faults <= faults' /\ (Refused => faults' > 0)
  BY DEF Policies, Numbers, Saved, Refused

(* No account comes back without a refused call, and none is lost but by RemoveUser. *)
LEMMA PoliciesStep ==
  Basis /\ [RequestsNext]_requestsVars =>
    /\ Policies' /\ faults' \in Nat /\ faults <= faults'
    /\ faults' > 0 \/ \A uid \in Askers : policy'[uid].there => policy[uid].there
<1> SUFFICES ASSUME Basis, [RequestsNext]_requestsVars
             PROVE  /\ Policies' /\ faults' \in Nat /\ faults <= faults'
                    /\ faults' > 0 \/ \A uid \in Askers : policy'[uid].there => policy[uid].there
  OBVIOUS
<1> USE DEF Basis
<1>1. CASE UNCHANGED <<policy, saved, faults>>
  BY <1>1 DEF Numbers, Policies, EntriesOf
<1>2. ASSUME NEW r \in DOMAIN asked, NEW whole \in BOOLEAN, Approve(r, whole),
             policy[asked[r].uid].there, asked[r].uid \notin Guests
      PROVE  /\ Policies' /\ faults' \in Nat /\ faults <= faults'
             /\ \A uid \in Askers : policy'[uid].there => policy[uid].there
  <2>1. asked[r].uid \in Askers /\ asked[r].url \in Urls
    <3>1. asked[r] \in Demands
      BY DEF Numbers
    <3> QED BY <3>1 DEF Demands
  <2>2. /\ Grants(asked[r].uid, asked[r].url, IF whole THEN "site" ELSE "page", "allow")
        /\ Saved \/ Refused
    BY <1>2 DEF Approve
  <2> QED BY <2>1, <2>2, GrantsPolicy, SavedPolicies
<1>3. ASSUME NEW r \in DOMAIN asked, NEW whole \in BOOLEAN, Approve(r, whole),
             ~ (policy[asked[r].uid].there /\ asked[r].uid \notin Guests)
      PROVE  UNCHANGED <<policy, saved, faults>>
  BY <1>3 DEF Approve
<1>4. ASSUME NEW uid \in Askers, NEW u \in Urls, NEW scope \in Scopes, NEW level \in Levels,
             GrantUrl(uid, u, scope, level)
      PROVE  /\ Policies' /\ faults' \in Nat /\ faults <= faults'
             /\ \A v \in Askers : policy'[v].there => policy[v].there
  BY <1>4, GrantsPolicy, SavedPolicies DEF GrantUrl
<1>5. ASSUME NEW uid \in Askers, NEW list \in RuleLists, SetUrlRules(uid, list)
      PROVE  /\ Policies' /\ faults' \in Nat /\ faults <= faults'
             /\ \A v \in Askers : policy'[v].there => policy[v].there
  <2>1. policy' = [policy EXCEPT ![uid] = [policy[uid] EXCEPT !.rules = list]]
    BY <1>5 DEF SetUrlRules
  <2>2. EntriesOf(policy') /\ \A v \in Askers : policy'[v].there = policy[v].there
    <3>1. EntriesOf(policy) /\ Entry(policy[uid])
      BY DEF Policies, EntriesOf
    <3> DEFINE a == [policy[uid] EXCEPT !.rules = list]
    <3>2. Entry(a) /\ a.there = policy[uid].there
      BY <3>1, ChangedEntry
    <3>3. policy' = [policy EXCEPT ![uid] = a]
      BY <2>1
    <3> HIDE DEF a
    <3>4. /\ EntriesOf([policy EXCEPT ![uid] = a]) /\ [policy EXCEPT ![uid] = a][uid] = a
          /\ \A v \in Askers : v # uid => [policy EXCEPT ![uid] = a][v] = policy[v]
      BY <3>1, <3>2, ChangedPolicy
    <3> QED BY <3>2, <3>3, <3>4
  <2> QED BY <1>5, <2>2, SavedPolicies DEF SetUrlRules
<1>6. ASSUME NEW uid \in Askers, RemoveUser(uid)
      PROVE  /\ Policies' /\ faults' \in Nat /\ faults <= faults'
             /\ \A v \in Askers : policy'[v].there => policy[v].there
  <2>1. policy' = [policy EXCEPT ![uid] = [policy[uid] EXCEPT !.there = FALSE]]
    BY <1>6 DEF RemoveUser
  <2>2. EntriesOf(policy') /\ \A v \in Askers : policy'[v].there => policy[v].there
    BY <2>1, ChangedEntry, ChangedPolicy DEF Policies, EntriesOf
  <2> QED BY <1>6, <2>2, SavedPolicies DEF RemoveUser
<1>7. CASE StartAgain
  BY <1>7 DEF StartAgain, Numbers, Policies
<1>8. ASSUME NEW uid \in Askers, NEW u \in Urls, Submit(uid, u)
      PROVE  UNCHANGED <<policy, saved, faults>>
  BY <1>8 DEF Submit
<1>9. ASSUME NEW r \in DOMAIN asked, Dismiss(r) PROVE UNCHANGED <<policy, saved, faults>>
  BY <1>9 DEF Dismiss
<1>10. List => UNCHANGED <<policy, saved, faults>>
  BY DEF List
<1> QED BY <1>1, <1>2, <1>3, <1>4, <1>5, <1>6, <1>7, <1>8, <1>9, <1>10 DEF RequestsNext, requestsVars

(* Requests are numbered as they come (submit), and only numbers are handed on. *)
LEMMA NumbersStep == Basis /\ [RequestsNext]_requestsVars => Numbers'
<1> SUFFICES ASSUME Basis, [RequestsNext]_requestsVars PROVE Numbers'
  OBVIOUS
<1> USE DEF Basis
<1>0. faults' \in Nat
  BY PoliciesStep
<1>1. ASSUME UNCHANGED asked, spool' \subseteq spool, shown' \subseteq shown \cup spool,
             opened' \subseteq opened \cup spool, dismissed' \subseteq dismissed \cup spool
      PROVE  Numbers'
  BY <1>0, <1>1 DEF Numbers
<1>2. ASSUME NEW uid \in Askers, NEW u \in Urls, Submit(uid, u) PROVE Numbers'
  <2>1. /\ asked' = Append(asked, [uid |-> uid, url |-> u]) /\ spool' = spool \cup {Len(asked) + 1}
        /\ UNCHANGED <<shown, opened, dismissed>>
    BY <1>2 DEF Submit
  <2>2. [uid |-> uid, url |-> u] \in Demands
    BY DEF Demands
  <2>3. asked' \in Seq(Demands) /\ Len(asked') = Len(asked) + 1 /\ Len(asked) \in Nat
    BY <2>1, <2>2 DEF Numbers
  <2>4. 1 .. Len(asked) \subseteq 1 .. Len(asked') /\ Len(asked) + 1 \in 1 .. Len(asked')
    BY <2>3
  <2>5. /\ spool' \subseteq 1 .. Len(asked') /\ shown' \subseteq 1 .. Len(asked')
        /\ opened' \subseteq 1 .. Len(asked') /\ dismissed' \subseteq 1 .. Len(asked')
    BY <2>1, <2>4 DEF Numbers
  <2> QED BY <1>0, <2>3, <2>5 DEF Numbers
<1>3. CASE List
  <2>1. Remaining \subseteq spool
    BY DEF Remaining, Newest
  <2> QED BY <1>1, <1>3, <2>1 DEF List
<1>4. ASSUME NEW r \in DOMAIN asked, NEW whole \in BOOLEAN, Approve(r, whole) PROVE Numbers'
  BY <1>1, <1>4 DEF Approve, TakenOff
<1>5. ASSUME NEW r \in DOMAIN asked, Dismiss(r) PROVE Numbers'
  BY <1>1, <1>5 DEF Dismiss, TakenOff
<1>6. CASE UNCHANGED <<asked, spool, shown, opened, dismissed>>
  BY <1>1, <1>6
<1> QED BY <1>2, <1>3, <1>4, <1>5, <1>6
        DEF RequestsNext, requestsVars, GrantUrl, SetUrlRules, RemoveUser, StartAgain

(* What the proofs rest on holds from the start, and stays. *)
LEMMA BasisHolds == RequestsSpec => []Basis
<1>1. ASSUME RequestsInit PROVE Basis
  <2>1. EntriesOf(policy)
    BY <1>1 DEF RequestsInit, EntriesOf, Entry
  <2>2. Numbers /\ saved = policy
    BY <1>1 DEF RequestsInit, Numbers
  <2> QED BY <2>1, <2>2 DEF Basis, Policies
<1>2. Basis /\ [RequestsNext]_requestsVars => Basis'
  BY PoliciesStep, NumbersStep DEF Basis
<1> QED BY <1>1, <1>2, PTL DEF RequestsSpec

-----------------------------------------------------------------------------
(* A request leaves the spool (resolve) in the call that answers it. *)
LEMMA AnsweredStep == Basis /\ AnsweredOnce /\ [RequestsNext]_requestsVars => AnsweredOnce'
<1> SUFFICES ASSUME Basis, AnsweredOnce, [RequestsNext]_requestsVars PROVE AnsweredOnce'
  OBVIOUS
<1> USE DEF AnsweredOnce
<1>1. ASSUME NEW uid \in Askers, NEW u \in Urls, Submit(uid, u) PROVE AnsweredOnce'
  <2>1. spool' = spool \cup {Len(asked) + 1} /\ UNCHANGED <<opened, dismissed>>
    BY <1>1 DEF Submit
  <2>2. Len(asked) \in Nat /\ opened \cup dismissed \subseteq 1 .. Len(asked)
    BY DEF Basis, Numbers
  <2> QED BY <2>1, <2>2
<1>2. CASE List
  BY <1>2 DEF List, Remaining, Newest
<1>3. ASSUME NEW r \in DOMAIN asked, NEW whole \in BOOLEAN, Approve(r, whole) PROVE AnsweredOnce'
  BY <1>3 DEF Approve, TakenOff
<1>4. ASSUME NEW r \in DOMAIN asked, Dismiss(r) PROVE AnsweredOnce'
  BY <1>4 DEF Dismiss, TakenOff
<1>5. CASE UNCHANGED <<spool, opened, dismissed>>
  BY <1>5
<1> QED BY <1>1, <1>2, <1>3, <1>4, <1>5
        DEF RequestsNext, requestsVars, GrantUrl, SetUrlRules, RemoveUser, StartAgain

(* A request is answered once, whatever several administrators were shown. *)
THEOREM AnsweredAtMostOnce == RequestsSpec => []AnsweredOnce
<1>1. RequestsInit => AnsweredOnce
  BY DEF RequestsInit, AnsweredOnce
<1> QED BY <1>1, AnsweredStep, BasisHolds, PTL DEF RequestsSpec

(* What is too much for the spool (pending) has MAX_PENDING newer requests. *)
LEMMA TooMany ==
  ASSUME Basis, NEW r \in spool, r \notin Remaining
  PROVE  Len(asked) - r >= MaxPending
<1>1. Len(asked) \in Nat /\ spool \subseteq 1 .. Len(asked) /\ r \in 1 .. Len(asked)
  BY DEF Basis, Numbers
<1>2. IsFiniteSet(r + 1 .. Len(asked)) /\ Cardinality(r + 1 .. Len(asked)) = Len(asked) - r
  <2>1. r + 1 \in Int /\ Len(asked) \in Int /\ ~ r + 1 > Len(asked) + 1
    BY <1>1
  <2>2. Cardinality(r + 1 .. Len(asked))
          = IF r + 1 > Len(asked) THEN 0 ELSE Len(asked) - (r + 1) + 1
    BY <2>1, FS_Interval
  <2> QED BY <1>1, <2>1, <2>2, FS_Interval
<1>3. Newer(r) \in SUBSET (r + 1 .. Len(asked))
  <2>1. ASSUME NEW q \in Newer(r) PROVE q \in r + 1 .. Len(asked)
    <3>1. q \in spool /\ q > r
      BY DEF Newer
    <3>2. q \in 1 .. Len(asked)
      BY <1>1, <3>1
    <3> QED BY <1>1, <3>1, <3>2
  <2> QED BY <2>1
<1>4. IsFiniteSet(Newer(r)) /\ Cardinality(Newer(r)) <= Len(asked) - r
  <2> DEFINE S == r + 1 .. Len(asked)
  <2>1. IsFiniteSet(S) /\ Newer(r) \in SUBSET S
    BY <1>2, <1>3
  <2> HIDE DEF S
  <2>2. IsFiniteSet(Newer(r)) /\ Cardinality(Newer(r)) <= Cardinality(S)
    BY <2>1, FS_Subset
  <2> QED BY <1>2, <2>2 DEF S
<1>5. ~ Cardinality(Newer(r)) < MaxPending
  BY DEF Remaining, Newest
<1>6. MaxPending \in Nat
  BY RequestsConstants
<1> QED BY <1>1, <1>4, <1>5, <1>6, FS_CardinalityType

(* No call takes a request without answering it, unless it could not keep it. *)
LEMMA ForgottenStep ==
  Basis /\ NobodyForgotten /\ [RequestsNext]_requestsVars => NobodyForgotten'
<1> SUFFICES ASSUME Basis, NobodyForgotten, [RequestsNext]_requestsVars PROVE NobodyForgotten'
  OBVIOUS
<1>a. faults \in Nat /\ Len(asked) \in Nat /\ DOMAIN asked = 1 .. Len(asked)
  BY DEF Basis, Numbers
<1>b. \A r \in DOMAIN asked : asked[r].uid \in Askers
  <2>1. \A r \in DOMAIN asked : asked[r] \in Demands
    BY DEF Basis, Numbers
  <2> QED BY <2>1 DEF Demands
<1>0. /\ faults \in Nat /\ faults' \in Nat /\ faults <= faults'
      /\ Len(asked) \in Nat /\ DOMAIN asked = 1 .. Len(asked)
      /\ faults' > 0 \/ \A uid \in Askers : policy'[uid].there => policy[uid].there
      /\ \A r \in DOMAIN asked : asked[r].uid \in Askers
  BY <1>a, <1>b, PoliciesStep
<1>1. ASSUME UNCHANGED asked, opened \subseteq opened', dismissed \subseteq dismissed',
             NEW gone, spool \ {gone} \subseteq spool',
             gone \in spool =>
                 \/ gone \in spool' \cup opened' \cup dismissed' \/ faults' > 0
                 \/ asked[gone].uid \in Guests \/ ~ policy'[asked[gone].uid].there
      PROVE  NobodyForgotten'
  BY <1>0, <1>1 DEF NobodyForgotten
<1>2. ASSUME NEW uid \in Askers, NEW u \in Urls, Submit(uid, u) PROVE NobodyForgotten'
  <2>1. /\ asked' = Append(asked, [uid |-> uid, url |-> u]) /\ spool' = spool \cup {Len(asked) + 1}
        /\ UNCHANGED <<policy, opened, dismissed, faults>>
    BY <1>2 DEF Submit
  <2>2. /\ Len(asked') = Len(asked) + 1 /\ DOMAIN asked' = 1 .. Len(asked) + 1
        /\ \A r \in DOMAIN asked : asked'[r] = asked[r]
    BY <2>1 DEF Basis, Numbers
  <2> QED BY <1>0, <2>1, <2>2, RequestsConstants DEF NobodyForgotten
<1>3. CASE List
  <2>1. /\ UNCHANGED <<policy, asked, opened, dismissed, faults>>
        /\ \A r \in spool : r \in spool' \/ Len(asked) - r >= MaxPending
    BY <1>3, TooMany DEF List
  <2> QED BY <1>0, <2>1 DEF NobodyForgotten
<1>4. ASSUME NEW r \in DOMAIN asked, NEW whole \in BOOLEAN, Approve(r, whole) PROVE NobodyForgotten'
  <2>1. UNCHANGED <<asked, dismissed>> /\ spool' = spool \ {r} /\ opened \subseteq opened'
    BY <1>4 DEF Approve, TakenOff
  <2>2. \/ r \in opened' \/ faults' > 0
        \/ asked[r].uid \in Guests \/ ~ policy'[asked[r].uid].there
    BY <1>0, <1>4 DEF Approve, Refused
  <2> QED BY <1>1, <2>1, <2>2
<1>5. ASSUME NEW r \in DOMAIN asked, Dismiss(r) PROVE NobodyForgotten'
  BY <1>1, <1>5 DEF Dismiss, TakenOff
<1>6. CASE UNCHANGED <<asked, spool, opened, dismissed>>
  BY <1>1, <1>6
<1> QED BY <1>2, <1>3, <1>4, <1>5, <1>6
        DEF RequestsNext, requestsVars, GrantUrl, SetUrlRules, RemoveUser, StartAgain

(* Nobody who asked is forgotten (accessreq.py, ApproveRequest). *)
THEOREM NobodyIsForgotten ==
  RequestsSpec => []NobodyForgotten
<1>1. RequestsInit => NobodyForgotten
  BY DEF RequestsInit, NobodyForgotten
<1> QED BY <1>1, ForgottenStep, BasisHolds, PTL DEF RequestsSpec

(* Everybody who asked is answered, and once (accessreq.py, ApproveRequest). *)
THEOREM EverybodyIsAnswered ==
  RequestsSpec => []AllAnswered
  BY NobodyIsForgotten, AnsweredAtMostOnce, PTL DEF AllAnswered

(* Every account's rules are rules, in memory and in policy.json (policy.py). *)
Ruled == \A uid \in Askers : policy[uid].rules \in Seq(UrlRules) /\ saved[uid].rules \in Seq(UrlRules)

MatchingRules(u) == {r \in UrlRules : Matches(r.pattern, u)}

(* decide says what the rule says that leads those that match. *)
LEMMA Decides ==
  ASSUME NEW list \in Seq(UrlRules), NEW u
  PROVE  /\ Avoids(list, MatchingRules(u)) => Decide(list, u) = "none"
         /\ \A r : Leads(list, MatchingRules(u), r) => Decide(list, u) = r.action
<1>1. /\ DOMAIN list = 1 .. Len(list) /\ Len(list) \in Nat
      /\ \A i \in DOMAIN list : list[i] \in UrlRules
  OBVIOUS
<1>2. \A i \in DOMAIN list : i \in Deciding(list, u) <=> list[i] \in MatchingRules(u)
  BY <1>1 DEF Deciding, MatchingRules
<1>3. ASSUME Avoids(list, MatchingRules(u)) PROVE Decide(list, u) = "none"
  BY <1>2, <1>3 DEF Avoids, Decide, Deciding
<1>4. ASSUME NEW r, Leads(list, MatchingRules(u), r) PROVE Decide(list, u) = r.action
  <2>1. PICK i \in DOMAIN list :
            list[i] = r /\ \A j \in 1 .. i - 1 : list[j] \notin MatchingRules(u)
    BY <1>4 DEF Leads
  <2> DEFINE D == Deciding(list, u)
  <2>2. i \in D /\ D \subseteq 1 .. Len(list)
    BY <1>1, <1>2, <1>4, <2>1 DEF Leads, Deciding
  <2>3. ASSUME NEW j \in D PROVE i <= j
    <3>1. j \in DOMAIN list /\ list[j] \in MatchingRules(u)
      BY <1>1, <1>2, <2>2
    <3>2. j \notin 1 .. i - 1
      BY <2>1, <3>1
    <3> QED BY <1>1, <2>1, <3>1, <3>2
  <2> HIDE DEF D
  <2>4. First(D) = i
    <3>1. \A k \in D : (\A j \in D : k <= j) => k = i
      <4>1. ASSUME NEW k \in D, \A j \in D : k <= j PROVE k = i
        <5>1. k <= i /\ i <= k /\ k \in Nat /\ i \in Nat
          BY <1>1, <2>2, <2>3, <4>1
        <5> QED BY <5>1
      <4> QED BY <4>1
    <3> QED BY <2>2, <2>3, <3>1 DEF First
  <2>5. Decide(list, u) = list[First(D)].action
    BY <2>2 DEF Decide, D
  <2> QED BY <2>1, <2>4, <2>5
<1> QED BY <1>3, <1>4

(* A rule that is put first (_grant) decides what it matches, and nothing else. *)
LEMMA PutFirstDecides ==
  ASSUME NEW list \in Seq(UrlRules), NEW rule \in UrlRules, NEW u
  PROVE  /\ With(list, rule) \in Seq(UrlRules)
         /\ Decide(With(list, rule), u) =
               IF Matches(rule.pattern, u) THEN rule.action ELSE Decide(list, u)
<1> DEFINE M == MatchingRules(u)
           others == {r \in Range(list) : r.pattern # rule.pattern}
           kept == Only(list, others)
<1>1. With(list, rule) = <<rule>> \o kept
  BY DEF With, PutFirst
<1>2. kept \in Seq(UrlRules)
  BY OnlyHolds
<1>3. <<rule>> \o kept \in Seq(UrlRules)
  BY <1>2
<1>4. CASE Matches(rule.pattern, u)
  <2>1. rule \in M
    BY <1>4 DEF MatchingRules
  <2> HIDE DEF kept, M
  <2>2. Leads(<<rule>> \o kept, M, rule)
    BY <1>2, <2>1, PutFirstLeads
  <2> QED BY <1>1, <1>3, <1>4, <2>2, Decides DEF M
<1>5. CASE ~ Matches(rule.pattern, u)
  <2>1. rule \notin M
    BY <1>5 DEF MatchingRules
  <2>2. \A n \in 1 .. Len(list) : list[n] \in M => list[n] \in others
    BY <1>5 DEF MatchingRules, Range
  <2> HIDE DEF others, M
  <2>3. /\ Avoids(list, M) => Avoids(kept, M)
        /\ \A x : Leads(list, M, x) => Leads(kept, M, x)
    BY <2>2, OnlyLeads
  <2> HIDE DEF kept
  <2>4. /\ Avoids(list, M) => Avoids(<<rule>> \o kept, M)
        /\ \A x : Leads(list, M, x) => Leads(<<rule>> \o kept, M, x)
    BY <1>2, <2>1, <2>3, PutFirstLeads
  <2>5. Avoids(list, M) \/ \E x : Leads(list, M, x)
    BY AvoidsOrLed DEF Leads
  <2>6. Decide(<<rule>> \o kept, u) = Decide(list, u)
    <3>1. CASE Avoids(list, M)
      BY <1>3, <2>4, <3>1, Decides DEF M
    <3>2. CASE \E x : Leads(list, M, x)
      <4>1. PICK x : Leads(list, M, x)
        BY <3>2
      <4> QED BY <1>3, <2>4, <4>1, Decides DEF M
    <3> QED BY <2>5, <3>1, <3>2
  <2> QED BY <1>1, <1>3, <1>5, <2>6
<1> QED BY <1>4, <1>5

(* What a grant (_grant) does to the account it is for. *)
LEMMA GrantedOpens ==
  ASSUME NEW a, Entry(a), a.rules \in Seq(UrlRules),
         NEW w \in Urls, NEW scope \in Scopes, NEW level \in Levels
  PROVE  /\ Granted(a, w, scope, level).rules \in Seq(UrlRules)
         /\ \A u : IF a.mode = "whitelist" \/ Matches(Pattern(w, scope), u)
                 THEN Opens(a, u) => Opens(Granted(a, w, scope, level), u)
                 ELSE /\ Opens(Granted(a, w, scope, level), u) = Opens(a, u)
                      /\ Decide(Granted(a, w, scope, level).rules, u) = Decide(a.rules, u)
<1> DEFINE rule == Rule(level, Pattern(w, scope))
           g == Granted(a, w, scope, level)
<1>1. rule \in UrlRules /\ rule.pattern = Pattern(w, scope) /\ rule.action = level
  BY DEF Rule, UrlRules, Actions, Patterns
<1>2. CASE a.mode = "whitelist"
  <2>1. g = [a EXCEPT !.sites = a.sites \cup {w.site}]
    BY <1>2 DEF Granted
  <2>2. g.mode = a.mode /\ g.rules = a.rules /\ g.sites = a.sites \cup {w.site}
    BY <2>1 DEF Entry
  <2> QED BY <1>2, <2>2 DEF Opens
<1>3. CASE a.mode # "whitelist" /\ \E i \in DOMAIN a.rules : a.rules[i] = rule
  <2>1. g = a
    BY <1>3 DEF Granted
  <2> QED BY <2>1
<1>4. CASE a.mode # "whitelist" /\ ~ \E i \in DOMAIN a.rules : a.rules[i] = rule
  <2>1. g = [a EXCEPT !.rules = With(a.rules, rule)]
    BY <1>4 DEF Granted
  <2>2. g.mode = a.mode /\ g.rules = With(a.rules, rule)
    BY <2>1 DEF Entry
  <2> HIDE DEF rule, g
  <2>3. g.rules \in Seq(UrlRules)
    BY <1>1, <2>2, PutFirstDecides
  <2>4. \A u : Decide(g.rules, u) = IF Matches(Pattern(w, scope), u) THEN level
                                   ELSE Decide(a.rules, u)
    BY <1>1, <2>2, PutFirstDecides
  <2>5. level # "block" /\ level # "none"
    BY DEF Levels
  <2>6. ASSUME NEW u, Matches(Pattern(w, scope), u) PROVE Opens(g, u)
    <3>1. Decide(g.rules, u) = level
      BY <2>4, <2>6
    <3> QED BY <1>4, <2>2, <2>5, <3>1 DEF Opens
  <2>7. ASSUME NEW u, ~ Matches(Pattern(w, scope), u)
        PROVE  Opens(g, u) = Opens(a, u) /\ Decide(g.rules, u) = Decide(a.rules, u)
    <3>1. Decide(g.rules, u) = Decide(a.rules, u)
      BY <2>4, <2>7
    <3> QED BY <1>4, <2>2, <3>1 DEF Opens
  <2> QED BY <1>4, <2>3, <2>6, <2>7 DEF g
<1> QED BY <1>2, <1>3, <1>4

(* The grant of an administrator's call is a grant of this account, in order. *)
LEMMA GrantsOpen ==
  ASSUME Policies, Ruled, NEW uid \in Askers, NEW w \in Urls, NEW scope \in Scopes,
         NEW level \in Levels, Grants(uid, w, scope, level)
  PROVE  /\ \A v \in Askers : policy'[v].rules \in Seq(UrlRules)
         /\ \A v \in Askers, u \in Urls :
              IF v = Latest'.uid /\ (policy[v].mode = "whitelist" \/ Matches(Latest'.pattern, u))
              THEN Opens(policy[v], u) => Opens(policy'[v], u)
              ELSE /\ Opens(policy'[v], u) = Opens(policy[v], u)
                   /\ Decide(policy'[v].rules, u) = Decide(policy[v].rules, u)
<1> DEFINE g == Granted(policy[uid], w, scope, level)
<1>1. /\ policy' = [policy EXCEPT ![uid] = g]
      /\ Latest'.uid = uid /\ Latest'.pattern = Pattern(w, scope)
  BY DEF Grants, Latest
<1>2. EntriesOf(policy) /\ Entry(policy[uid]) /\ policy[uid].rules \in Seq(UrlRules)
  BY DEF Policies, EntriesOf, Ruled
<1>3. /\ g.rules \in Seq(UrlRules)
      /\ \A u : IF policy[uid].mode = "whitelist" \/ Matches(Pattern(w, scope), u)
              THEN Opens(policy[uid], u) => Opens(g, u)
              ELSE /\ Opens(g, u) = Opens(policy[uid], u)
                   /\ Decide(g.rules, u) = Decide(policy[uid].rules, u)
  BY <1>2, GrantedOpens
<1>4. Entry(g)
  BY <1>2, GrantedEntry
<1> HIDE DEF g
<1>5. policy'[uid] = g /\ \A v \in Askers : v # uid => policy'[v] = policy[v]
  BY <1>1, <1>2, <1>4, ChangedPolicy
<1> QED BY <1>1, <1>3, <1>5 DEF Ruled

(* Which grant a step made, if it made one. *)
LEMMA GrantingSteps ==
  ASSUME Basis, RequestsNext, granted' # granted
  PROVE  \E uid \in Askers, w \in Urls, scope \in Scopes, level \in Levels :
            Grants(uid, w, scope, level)
<1>1. ASSUME NEW r \in DOMAIN asked, NEW whole \in BOOLEAN, Approve(r, whole)
      PROVE  \E uid \in Askers, w \in Urls, scope \in Scopes, level \in Levels :
                Grants(uid, w, scope, level)
  <2>1. asked[r].uid \in Askers /\ asked[r].url \in Urls
    <3>1. asked[r] \in Demands
      BY DEF Basis, Numbers
    <3> QED BY <3>1 DEF Demands
  <2>2. Grants(asked[r].uid, asked[r].url, IF whole THEN "site" ELSE "page", "allow")
    BY <1>1 DEF Approve
  <2>3. (IF whole THEN "site" ELSE "page") \in Scopes /\ "allow" \in Levels
    BY DEF Scopes, Levels
  <2> QED BY <2>1, <2>2, <2>3
<1>2. ASSUME NEW uid \in Askers, NEW w \in Urls, NEW scope \in Scopes, NEW level \in Levels,
             GrantUrl(uid, w, scope, level)
      PROVE  Grants(uid, w, scope, level)
  BY <1>2 DEF GrantUrl
<1>3. ASSUME NEW uid \in Askers, NEW w \in Urls, Submit(uid, w) PROVE FALSE
  BY <1>3 DEF Submit
<1>4. ASSUME NEW r, Dismiss(r) PROVE FALSE
  BY <1>4 DEF Dismiss
<1>5. ASSUME NEW uid, NEW list, SetUrlRules(uid, list) PROVE FALSE
  BY <1>5 DEF SetUrlRules
<1>6. ASSUME NEW uid, RemoveUser(uid) PROVE FALSE
  BY <1>6 DEF RemoveUser
<1>7. ~ List /\ ~ StartAgain
  BY DEF List, StartAgain
<1> QED BY <1>1, <1>2, <1>3, <1>4, <1>5, <1>6, <1>7 DEF RequestsNext

(* What is left of the steps: SetUrlRules, RemoveUser and a start keep rules rules. *)
LEMMA RuledStep == Basis /\ Ruled /\ [RequestsNext]_requestsVars => Ruled'
<1> SUFFICES ASSUME Basis, Ruled, [RequestsNext]_requestsVars PROVE Ruled'
  OBVIOUS
<1>1. saved' = saved \/ saved' = policy'
  BY DEF RequestsNext, requestsVars, Submit, List, Approve, Dismiss, GrantUrl, SetUrlRules,
         RemoveUser, StartAgain, Saved, Refused
<1>2. SUFFICES \A v \in Askers : policy'[v].rules \in Seq(UrlRules)
  BY <1>1 DEF Ruled
<1>4. CASE UNCHANGED policy \/ policy' = saved
  BY <1>4 DEF Ruled
<1>5. ASSUME NEW uid \in Askers, NEW w \in Urls, NEW scope \in Scopes, NEW level \in Levels,
             Grants(uid, w, scope, level)
      PROVE  \A v \in Askers : policy'[v].rules \in Seq(UrlRules)
  BY <1>5, GrantsOpen DEF Basis
<1>6. ASSUME NEW r \in DOMAIN asked, NEW whole \in BOOLEAN, Approve(r, whole)
      PROVE  \A v \in Askers : policy'[v].rules \in Seq(UrlRules)
  <2>1. asked[r].uid \in Askers /\ asked[r].url \in Urls
    <3>1. asked[r] \in Demands
      BY DEF Basis, Numbers
    <3> QED BY <3>1 DEF Demands
  <2>2. \/ Grants(asked[r].uid, asked[r].url, IF whole THEN "site" ELSE "page", "allow")
        \/ UNCHANGED policy
    BY <1>6 DEF Approve
  <2>3. (IF whole THEN "site" ELSE "page") \in Scopes /\ "allow" \in Levels
    BY DEF Scopes, Levels
  <2> QED BY <1>4, <1>5, <2>1, <2>2, <2>3
<1>7. ASSUME NEW uid \in Askers, NEW a, policy' = [policy EXCEPT ![uid] = a],
             a.rules \in Seq(UrlRules)
      PROVE  \A v \in Askers : policy'[v].rules \in Seq(UrlRules)
  <2>1. policy = [v \in Askers |-> policy[v]]
    BY DEF Basis, Policies, EntriesOf
  <2>2. \A v \in Askers : policy'[v] = IF v = uid THEN a ELSE policy[v]
    BY <1>7, <2>1
  <2> QED BY <1>7, <2>2 DEF Ruled
<1>8. ASSUME NEW uid \in Askers, NEW list \in RuleLists, SetUrlRules(uid, list)
      PROVE  \A v \in Askers : policy'[v].rules \in Seq(UrlRules)
  <2>1. policy' = [policy EXCEPT ![uid] = [policy[uid] EXCEPT !.rules = list]]
    BY <1>8 DEF SetUrlRules
  <2>2. Entry(policy[uid])
    BY DEF Basis, Policies, EntriesOf
  <2>3. [policy[uid] EXCEPT !.rules = list].rules = list
    BY <2>2 DEF Entry
  <2>4. list \in Seq(UrlRules)
    BY RulesAssumption
  <2> QED BY <1>7, <2>1, <2>3, <2>4
<1>9. ASSUME NEW uid \in Askers, RemoveUser(uid)
      PROVE  \A v \in Askers : policy'[v].rules \in Seq(UrlRules)
  <2>1. policy' = [policy EXCEPT ![uid] = [policy[uid] EXCEPT !.there = FALSE]]
    BY <1>9 DEF RemoveUser
  <2>2. Entry(policy[uid])
    BY DEF Basis, Policies, EntriesOf
  <2>3. [policy[uid] EXCEPT !.there = FALSE].rules = policy[uid].rules
    BY <2>2 DEF Entry
  <2> QED BY <1>7, <2>1, <2>3 DEF Ruled
<1>10. ASSUME NEW uid, NEW w, Submit(uid, w) PROVE UNCHANGED policy
  BY <1>10 DEF Submit
<1>11. ASSUME NEW r, Dismiss(r) PROVE UNCHANGED policy
  BY <1>11 DEF Dismiss
<1>12. /\ List => UNCHANGED policy
       /\ StartAgain => policy' = saved
       /\ UNCHANGED requestsVars => UNCHANGED policy
  BY DEF List, StartAgain, requestsVars
<1>13. ASSUME NEW uid \in Askers, NEW w \in Urls, NEW scope \in Scopes, NEW level \in Levels,
              GrantUrl(uid, w, scope, level)
       PROVE  \A v \in Askers : policy'[v].rules \in Seq(UrlRules)
  BY <1>5, <1>13 DEF GrantUrl
<1> QED BY <1>4, <1>6, <1>8, <1>9, <1>10, <1>11, <1>12, <1>13 DEF RequestsNext

(* A grant (_grant, from ApproveRequest, AllowUrl, BypassUrl or GrantUrl) opens what *)
(* it names and closes nothing; what it does not name is decided as before.          *)
THEOREM GrantsOnlyOpen == RequestsSpec => GrantOnlyOpens
<1>1. RequestsInit => Ruled
  <2> SUFFICES ASSUME RequestsInit PROVE Ruled
    OBVIOUS
  <2>1. saved = policy /\ \A uid \in Askers : policy[uid].rules = <<>>
    BY DEF RequestsInit
  <2>2. <<>> \in Seq(UrlRules)
    OBVIOUS
  <2> QED BY <2>1, <2>2, Zenon DEF Ruled
<1>2. Basis /\ Ruled /\ [RequestsNext]_requestsVars =>
        [granted' # granted =>
          \A uid \in Askers, u \in Urls :
            IF uid = Latest'.uid /\ (policy[uid].mode = "whitelist" \/ Matches(Latest'.pattern, u))
            THEN Opens(policy[uid], u) => Opens(policy'[uid], u)
            ELSE /\ Opens(policy'[uid], u) = Opens(policy[uid], u)
                 /\ Decide(policy'[uid].rules, u) = Decide(policy[uid].rules, u)]_requestsVars
  <2> SUFFICES ASSUME Basis, Ruled, RequestsNext, granted' # granted
               PROVE  \A uid \in Askers, u \in Urls :
            IF uid = Latest'.uid /\ (policy[uid].mode = "whitelist" \/ Matches(Latest'.pattern, u))
            THEN Opens(policy[uid], u) => Opens(policy'[uid], u)
            ELSE /\ Opens(policy'[uid], u) = Opens(policy[uid], u)
                 /\ Decide(policy'[uid].rules, u) = Decide(policy[uid].rules, u)
    BY DEF requestsVars
  <2>1. PICK uid \in Askers, w \in Urls, scope \in Scopes, level \in Levels :
            Grants(uid, w, scope, level)
    BY GrantingSteps
  <2> QED BY <2>1, GrantsOpen DEF Basis
<1> QED BY <1>1, <1>2, RuledStep, BasisHolds, PTL DEF RequestsSpec, GrantOnlyOpens

-----------------------------------------------------------------------------
(* Guardian, for every length of a sitting, a lockout and a window. *)

USE UidAssumption, PasswordAssumption, TimeAssumption, GuardianFaultAssumption

-------------------------------------------------------------------------------
(* Every variable keeps its type. *)

(* The record of no call in progress is a call. *)
LEMMA NoCallType == NoCall \in Calls
BY DEF NoCall, Calls, Methods, Gated, Typed

(* A cleared attempts file is a sane one (_cleared). *)
LEMMA ClearedType == Cleared \in Attempts
BY DEF Cleared, Attempts

(* A file read back is sane, and no count in it is larger than before. *)
LEMMA ReadStateType ==
  ASSUME att \in Attempts
  PROVE  /\ ReadState \in Attempts /\ ReadState.left <= Lockout
         /\ ReadState.failures <= att.failures
BY DEF ReadState, Attempts, Smaller, Larger

(* One more wrong guess is counted, or locks. *)
LEMMA WrongGuessType ==
  ASSUME NEW s \in Attempts PROVE WrongGuess(s) \in Attempts
BY DEF WrongGuess, Attempts

Verdicts == {"none", "right", "wrong", "locked", "unset"}
GuessTypes == /\ strikes \in Unclear..(MaxFailures - 1) /\ sinceStrike \in 0..(Window + 1)
              /\ sinceLock \in 0..Lockout

(* Guardian.verify leaves a verdict, a sane file and a sane history. *)
LEMMA CheckType ==
  ASSUME att \in Attempts, GuessTypes, NEW pw, Check(pw)
  PROVE  att' \in Attempts /\ verdict' \in Verdicts \ {"none"} /\ GuessTypes'
<1> DEFINE s == ReadState
<1>1. s \in Attempts
  BY ReadStateType
<1>2. CASE shadow = NoHash
  BY <1>2 DEF Check, GuessTypes, guesses, Verdicts
<1>3. CASE shadow # NoHash /\ s.left > 0
  BY <1>1, <1>3 DEF Check, GuessTypes, guesses, Verdicts
<1>4. CASE shadow # NoHash /\ ~(s.left > 0) /\ pw = shadow
  BY <1>4, ClearedType DEF Check, GuessTypes, guesses, Verdicts, Unclear
<1>5. CASE shadow # NoHash /\ ~(s.left > 0) /\ pw # shadow
  <2>1. att' = WrongGuess(s) /\ verdict' = "wrong"
    BY <1>5 DEF Check
  <2>2. att' \in Attempts
    BY <1>1, <2>1, WrongGuessType
  <2>3. GuessTypes'
    BY <1>5 DEF Check, GuessTypes, Unclear
  <2> QED BY <2>1, <2>2, <2>3 DEF Verdicts
<1> QED BY <1>2, <1>3, <1>4, <1>5

(* The new machine has the right types. *)
LEMMA TypeInit == Init => TypeOK
<1> SUFFICES ASSUME Init PROVE TypeOK
  OBVIOUS
<1>1. session \in [Uids -> Ages] /\ proof \in [Uids -> Ages]
  BY DEF Init, Ages, None
<1>2. /\ {mem, disk, snapshot, stamp} \subseteq BOOLEAN
      /\ shadow \in Passwords \cup {NoHash} /\ att \in Attempts /\ skew \in 0..Skew
  <2>1. 0 \in 0..Skew
    OBVIOUS
  <2> QED BY <2>1, ClearedType DEF Init
<1>3. /\ quiet \in [Uids -> 0..(TTL + 1)]
      /\ sitting \in [Uids -> BOOLEAN] /\ proved \in [Uids -> BOOLEAN]
  BY DEF Init
<1>4. /\ strikes \in Unclear..(MaxFailures - 1) /\ sinceStrike \in 0..(Window + 1)
      /\ sinceLock \in 0..Lockout
  BY DEF Init, Unclear
<1>5. cur \in Calls /\ pc = "idle" /\ verdict = "none" /\ answer = "none"
  BY NoCallType DEF Init
<1> QED BY <1>1, <1>2, <1>3, <1>4, <1>5 DEF TypeOK

(* is_unlocked and has_guardian leave ages and flags of the right types. *)
LEMMA TypeSlide ==
  ASSUME TypeOK, NEW u \in Uids, NEW both, Slide(u, both)
  PROVE  /\ session' \in [Uids -> Ages] /\ proof' \in [Uids -> Ages]
         /\ quiet' \in [Uids -> 0..(TTL + 1)]
         /\ sitting' \in [Uids -> BOOLEAN] /\ proved' \in [Uids -> BOOLEAN]
<1>1. 0 \in Ages /\ None \in Ages /\ 0 \in 0..(TTL + 1)
  BY DEF Ages, None
<1>2. Kept(u) \in [Uids -> Ages]
  BY <1>1 DEF Kept, DropProof, TypeOK
<1>3. session' \in [Uids -> Ages] /\ proof' \in [Uids -> Ages]
  BY <1>1, <1>2 DEF Slide, TypeOK
<1>4. /\ quiet' \in [Uids -> 0..(TTL + 1)]
      /\ sitting' \in [Uids -> BOOLEAN] /\ proved' \in [Uids -> BOOLEAN]
  BY <1>1 DEF Slide, TypeOK
<1> QED BY <1>3, <1>4

(* A call that arrives keeps the types. *)
LEMMA TypeCall == ASSUME TypeOK, Call PROVE TypeOK'
<1>1. PICK u \in Uids, m \in Methods, pw \in Typed : Arrive(u, m, pw)
  BY DEF Call, Methods, Gated, Typed
<1> USE DEF TypeOK
<1>2. /\ session' \in [Uids -> Ages] /\ proof' \in [Uids -> Ages]
      /\ quiet' \in [Uids -> 0..(TTL + 1)]
      /\ sitting' \in [Uids -> BOOLEAN] /\ proved' \in [Uids -> BOOLEAN]
  BY <1>1, TypeSlide DEF Arrive
<1>3. cur' \in Calls
  BY <1>1 DEF Arrive, Calls
<1>5. /\ {mem', disk', snapshot', stamp'} \subseteq BOOLEAN /\ shadow' = shadow
      /\ att' = att /\ skew' = skew /\ pc' = "polkit" /\ verdict' = "none" /\ answer' = "none"
      /\ strikes' = strikes /\ sinceStrike' = sinceStrike /\ sinceLock' = sinceLock
  BY <1>1 DEF Arrive, file, guesses
<1> QED BY <1>2, <1>3, <1>5

(* What a handler leaves of a call in progress. *)
LEMMA TypeTo == ASSUME TypeOK, NEW step, To(step) PROVE cur' \in Calls /\ pc' = step
                   /\ answer' \in {"none", "ok", "refused", "failed"}
BY DEF TypeOK, To

(* A call that is answered leaves no call in progress. *)
LEMMA TypeEnd ==
  ASSUME NEW how, End(how) PROVE cur' \in Calls /\ pc' = "idle" /\ answer' = how
BY NoCallType DEF End

(* A time just now, and no time at all, are ages. *)
LEMMA ZeroAge == 0 \in Ages /\ None \in Ages /\ 0 \in 0..(TTL + 1)
BY DEF Ages, None

(* grant_guardian, or no grant, keeps the types of proofs and people. *)
LEMMA TypeGrant ==
  ASSUME TypeOK, Grant(cur.uid) \/ NoGrant
  PROVE  /\ proof' \in [Uids -> Ages] /\ proved' \in [Uids -> BOOLEAN]
         /\ quiet' \in [Uids -> 0..(TTL + 1)]
<1>1. 0 \in Ages /\ 0 \in 0..(TTL + 1)
  BY ZeroAge
<1>2. CASE Grant(cur.uid)
  BY <1>1, <1>2 DEF TypeOK, Grant
<1>3. CASE NoGrant
  BY <1>3 DEF TypeOK, NoGrant
<1> QED BY <1>2, <1>3

(* A password check, or none, keeps the types of the file and its history. *)
LEMMA TypeCheck ==
  ASSUME TypeOK, (\E pw : Check(pw)) \/ NoCheck
  PROVE  att' \in Attempts /\ verdict' \in Verdicts /\ GuessTypes'
<1>1. att \in Attempts /\ GuessTypes
  BY DEF TypeOK, GuessTypes
<1>2. CASE NoCheck
  BY <1>1, <1>2 DEF NoCheck, guesses, GuessTypes, TypeOK, Verdicts
<1>3. CASE \E pw : Check(pw)
  BY <1>1, <1>3, CheckType
<1> QED BY <1>2, <1>3

(* set_password keeps the types of the hash, the file and the history. *)
LEMMA TypeSetPassword ==
  ASSUME TypeOK, NEW old, NEW new \in Passwords, NEW step, SetPassword(old, new, step)
  PROVE  /\ att' \in Attempts /\ verdict' \in Verdicts /\ GuessTypes'
         /\ shadow' \in Passwords \cup {NoHash}
<1>1. CASE shadow = NoHash /\ shadow' = new /\ att' = Cleared /\ verdict' = "none"
           /\ UNCHANGED guesses
  BY <1>1, ClearedType DEF TypeOK, guesses, GuessTypes, Verdicts
<1>2. CASE Check(old) /\ (shadow' = new \/ UNCHANGED shadow)
  BY <1>2, TypeCheck DEF TypeOK
<1> QED BY <1>1, <1>2 DEF SetPassword

(* A method goes on to its next step or is answered. *)
LEMMA TypeProceed ==
  ASSUME TypeOK, NEW step, Proceed(step)
  PROVE  /\ cur' \in Calls /\ pc' \in {"idle", step} \ {"done"}
         /\ answer' \in {"none", "ok", "refused", "failed"}
BY TypeTo, TypeEnd DEF Proceed

(* set_password goes on to the next step of its call or refuses it. *)
LEMMA TypeSetEnd ==
  ASSUME TypeOK, NEW old, NEW new, NEW step, SetPassword(old, new, step)
  PROVE  /\ cur' \in Calls /\ pc' \in {"idle", step} \ {"done"}
         /\ answer' \in {"none", "ok", "refused", "failed"}
BY TypeProceed, TypeEnd DEF SetPassword

(* Every gate and method keeps the types. *)
LEMMA TypeHandle == ASSUME TypeOK, Handle PROVE TypeOK'
<1>1. CASE Polkit
  <2>1. /\ cur' \in Calls /\ pc' \in {"guardian", "idle"}
        /\ answer' \in {"none", "ok", "refused", "failed"}
    BY <1>1, TypeTo, TypeEnd DEF Polkit
  <2> QED BY <1>1, <2>1 DEF Polkit, TypeOK, sessions, stored, file, people, guesses
<1>2. CASE GuardianGate
  <2>1. /\ cur' \in Calls /\ pc' \in {"run", "idle"}
        /\ answer' \in {"none", "ok", "refused", "failed"}
    BY <1>2, TypeTo, TypeEnd DEF GuardianGate
  <2>2. att' \in Attempts /\ verdict' \in Verdicts /\ GuessTypes'
    BY <1>2, TypeCheck DEF GuardianGate
  <2>3. /\ proof' \in [Uids -> Ages] /\ proved' \in [Uids -> BOOLEAN]
        /\ quiet' \in [Uids -> 0..(TTL + 1)]
    BY <1>2, TypeGrant DEF GuardianGate
  <2> QED BY <1>2, <2>1, <2>2, <2>3
          DEF GuardianGate, TypeOK, stored, GuessTypes, Verdicts
<1>3. CASE Unlock
  <2>1. /\ session' \in [Uids -> Ages] /\ sitting' \in [Uids -> BOOLEAN]
        /\ quiet' \in [Uids -> 0..(TTL + 1)]
    BY <1>3, ZeroAge DEF Unlock, TypeOK
  <2> QED BY <1>3, <2>1, TypeEnd DEF Unlock, TypeOK, stored, file, guesses
<1>4. CASE Lock
  <2>1. /\ session' \in [Uids -> Ages] /\ proof' \in [Uids -> Ages]
        /\ sitting' \in [Uids -> BOOLEAN] /\ proved' \in [Uids -> BOOLEAN]
    BY <1>4, ZeroAge DEF Lock, DropProof, TypeOK
  <2> QED BY <1>4, <2>1, TypeEnd DEF Lock, TypeOK, stored, file, guesses
<1>5. CASE Plain
  BY <1>5, TypeEnd DEF Plain, TypeOK, sessions, stored, file, people, guesses
<1>6. CASE VerifyGuardian
  <2>1. cur' \in Calls /\ pc' = "idle" /\ answer' \in {"none", "ok", "refused", "failed"}
    BY <1>6, TypeEnd DEF VerifyGuardian
  <2>2. att' \in Attempts /\ verdict' \in Verdicts /\ GuessTypes'
    BY <1>6, TypeCheck DEF VerifyGuardian
  <2>3. /\ proof' \in [Uids -> Ages] /\ proved' \in [Uids -> BOOLEAN]
        /\ quiet' \in [Uids -> 0..(TTL + 1)]
    BY <1>6, TypeGrant DEF VerifyGuardian
  <2> QED BY <1>6, <2>1, <2>2, <2>3
          DEF VerifyGuardian, TypeOK, stored, GuessTypes, Verdicts
<1>7. CASE SetGuardianPassword
  <2>1. PICK new \in Passwords : SetPassword(cur.pw, new, IF mem THEN "done" ELSE "save")
    BY <1>7 DEF SetGuardianPassword
  <2>2. /\ att' \in Attempts /\ verdict' \in Verdicts /\ GuessTypes'
        /\ shadow' \in Passwords \cup {NoHash}
    BY <2>1, TypeSetPassword
  <2>3. /\ cur' \in Calls /\ pc' \in {"idle", "save"}
        /\ answer' \in {"none", "ok", "refused", "failed"}
    BY <2>1, TypeSetEnd
  <2> QED BY <1>7, <2>2, <2>3
          DEF SetGuardianPassword, TypeOK, sessions, people, GuessTypes, Verdicts
<1>8. CASE DisableGuardian
  BY <1>8, TypeTo DEF DisableGuardian, TypeOK, sessions, file, people, guesses
<1>9. CASE FinishSetup
  <2>1. /\ att' \in Attempts /\ verdict' \in Verdicts /\ GuessTypes'
        /\ shadow' \in Passwords \cup {NoHash} /\ cur' \in Calls
        /\ pc' \in {"idle", "save", "boot"}
        /\ answer' \in {"none", "ok", "refused", "failed"}
    <3>1. CASE cur.pw = Blank /\ To("boot") /\ NoCheck /\ UNCHANGED shadow
      <4>1. att' \in Attempts /\ verdict' \in Verdicts /\ GuessTypes'
        BY <3>1, TypeCheck
      <4> QED BY <3>1, <4>1, TypeTo DEF TypeOK
    <3>2. CASE cur.pw # Blank /\ SetPassword(Blank, cur.pw, "save")
      <4>1. cur.pw \in Passwords
        BY <3>2 DEF TypeOK, Calls, Typed
      <4> QED BY <3>2, <4>1, TypeSetPassword, TypeSetEnd
    <3> QED BY <1>9, <3>1, <3>2 DEF FinishSetup
  <2> QED BY <1>9, <2>1 DEF FinishSetup, TypeOK, sessions, people, GuessTypes, Verdicts
<1>10. CASE Save
  <2>1. cur' \in Calls /\ pc' \in {"idle", "boot"}
        /\ answer' \in {"none", "ok", "refused", "failed"}
    BY <1>10, TypeTo, TypeEnd DEF Save
  <2> QED BY <1>10, <2>1 DEF Save, TypeOK, sessions, file, people, guesses
<1>11. CASE Boot
  BY <1>11, TypeEnd DEF Boot, TypeOK, sessions, file, people, guesses
<1>12. CASE Status
  <2>1. cur.uid \in Uids
    BY DEF TypeOK, Calls
  <2>2. /\ session' \in [Uids -> Ages] /\ proof' \in [Uids -> Ages]
        /\ quiet' \in [Uids -> 0..(TTL + 1)]
        /\ sitting' \in [Uids -> BOOLEAN] /\ proved' \in [Uids -> BOOLEAN]
    BY <1>12, <2>1, TypeSlide DEF Status
  <2> QED BY <1>12, <2>2, TypeEnd DEF Status, TypeOK, stored, file, guesses
<1> QED BY <1>1, <1>2, <1>3, <1>4, <1>5, <1>6, <1>7, <1>8, <1>9, <1>10, <1>11, <1>12
        DEF Handle

(* Time passes, and every age stops at its cap. *)
LEMMA TypeTick == ASSUME TypeOK, Tick PROVE TypeOK'
<1> USE DEF Tick, TypeOK
<1>1. /\ session' \in [Uids -> Ages] /\ proof' \in [Uids -> Ages]
      /\ quiet' \in [Uids -> 0..(TTL + 1)]
  BY DEF Older, Smaller, Ages, None
<1>2. att' \in Attempts
  BY DEF Older, Smaller, Larger, Attempts
<1>3. sinceStrike' \in 0..(Window + 1) /\ sinceLock' \in 0..Lockout
  BY DEF Older, Smaller
<1> QED BY <1>1, <1>2, <1>3 DEF stored

(* A wall clock that is set keeps the types. *)
LEMMA TypeSetClock == ASSUME TypeOK, SetClock PROVE TypeOK'
<1> USE DEF SetClock, TypeOK
<1>1. PICK to \in 0..Skew :
        /\ skew' = to
        /\ att' = [failures |-> att.failures,
                   first |-> IF att.failures = 0 THEN 0
                     ELSE Larger(Smaller(att.first + (to - skew), Window + Skew + 1), -Skew),
                   left |-> Smaller(Larger(att.left - (to - skew), -Skew), Lockout + Skew)]
        /\ sinceLock' \in {sinceLock, Lockout}
  OBVIOUS
<1>2. att' \in Attempts
  BY <1>1 DEF Smaller, Larger, Attempts
<1>3. strikes' \in Unclear..(MaxFailures - 1) /\ sinceStrike' = 0 /\ sinceLock' \in 0..Lockout
  BY <1>1 DEF Unclear
<1> QED BY <1>1, <1>2, <1>3 DEF sessions, stored, people

(* A restart keeps the types. *)
LEMMA TypeRestart == ASSUME TypeOK, Restart PROVE TypeOK'
BY NoCallType DEF Restart, TypeOK, Ages, None, file, guesses

(* The sessions, the proofs, the policy, the file and the history keep their  *)
(* types (SessionStore, Guardian._read_state).                               *)
THEOREM TypeCorrect == Spec => []TypeOK
<1>1. ASSUME TypeOK, [Next]_vars PROVE TypeOK'
  <2>1. CASE Call BY <1>1, <2>1, TypeCall
  <2>2. CASE Handle BY <1>1, <2>2, TypeHandle
  <2>3. CASE Tick BY <1>1, <2>3, TypeTick
  <2>4. CASE SetClock BY <1>1, <2>4, TypeSetClock
  <2>5. CASE Restart BY <1>1, <2>5, TypeRestart
  <2>6. CASE UNCHANGED vars BY <1>1, <2>6 DEF vars, TypeOK
  <2> QED BY <1>1, <2>1, <2>2, <2>3, <2>4, <2>5, <2>6 DEF Next
<1> QED BY <1>1, TypeInit, PTL DEF Spec

-------------------------------------------------------------------------------
(* The gates.  What SessionStore remembers is never newer than the last call:  *)
(* a session that is still good, or a proof, belongs to an unbroken sitting.   *)

Recent(u) == /\ proof[u] # None => quiet[u] <= proof[u]
             /\ Alive(proof[u]) => proved[u]
             /\ session[u] # None => sitting[u] /\ quiet[u] <= session[u]
AgesInv == \A u \in Uids : Recent(u)

(* A call on its way through the gates needs no more than it has shown. *)
GateInv == /\ pc \in {"polkit", "guardian"} /\ cur.method \in Gated /\ mem /\ ~cur.guardian =>
                proved[cur.uid]
           /\ pc \in {"polkit", "guardian", "run"} /\ cur.method # "FinishSetup" /\ ~cur.polkit =>
                sitting[cur.uid]
           /\ GatedOnlyWithProof

SittingInv == AgesInv /\ GateInv

(* SittingInv holds of the new machine: nobody has a session or a proof. *)
LEMMA SittingInit == Init => SittingInv
BY DEF Init, SittingInv, AgesInv, Recent, Alive, GateInv, GatedOnlyWithProof, None

(* What is_unlocked and has_guardian find good belongs to an unbroken sitting,  *)
(* and so does what they leave.                                              *)
LEMMA SittingSlide ==
  ASSUME TypeOK, AgesInv, NEW u \in Uids, NEW both, Slide(u, both)
  PROVE  AgesInv' /\ (Unlocked(u) => sitting'[u]) /\ (Shown(u) => proved'[u])
<1> USE DEF Recent, Alive, None
<1>1. /\ session[u] \in Ages /\ proof[u] \in Ages /\ quiet[u] \in 0..(TTL + 1)
      /\ Recent(u)
  BY DEF TypeOK, AgesInv
<1>2. /\ session'[u] = IF Unlocked(u) THEN 0 ELSE None
      /\ quiet'[u] = 0
      /\ proof'[u] = IF both THEN IF Shown(u) THEN 0 ELSE None ELSE Kept(u)[u]
  BY DEF Slide, TypeOK, Kept, DropProof
<1>3. Kept(u)[u] \in {proof[u], None}
  BY DEF Kept, DropProof, TypeOK
<1>4. Unlocked(u) => sitting'[u]
  BY <1>1 DEF Slide, TypeOK, Unlocked, Ages
<1>5. Alive(Kept(u)[u]) => proved'[u]
  BY <1>1, <1>3 DEF Slide, TypeOK, Ages
<1>6. Recent(u)'
  BY <1>1, <1>2, <1>3, <1>4, <1>5 DEF Shown, Ages
<1>7. ASSUME NEW v \in Uids, v # u PROVE Recent(v)'
  <2>1. /\ session'[v] = session[v] /\ proof'[v] = proof[v] /\ quiet'[v] = quiet[v]
        /\ sitting'[v] = sitting[v] /\ proved'[v] = proved[v]
    BY <1>7 DEF Slide, TypeOK, Kept, DropProof
  <2> QED BY <2>1 DEF AgesInv
<1> QED BY <1>4, <1>5, <1>6, <1>7 DEF AgesInv, Shown

(* A call that arrives (evaluate) is asked for what it has not shown. *)
LEMMA SittingCall == ASSUME TypeOK, SittingInv, Call PROVE SittingInv'
<1>1. PICK u \in Uids, m \in Methods, pw \in Typed : Arrive(u, m, pw)
  BY DEF Call, Methods, Gated, Typed
<1>2. AgesInv' /\ (Unlocked(u) => sitting'[u]) /\ (Shown(u) => proved'[u])
  BY <1>1, SittingSlide DEF Arrive, SittingInv
<1>7. /\ cur' = [uid |-> u, method |-> m, pw |-> pw,
                 polkit |-> m # "FinishSetup" /\ (m = "Unlock" \/ ~Unlocked(u)),
                 guardian |-> m # "FinishSetup" /\ NeedsGuardian(m, Shown(u))]
      /\ mem' = mem
  BY <1>1 DEF Arrive
<1>3. ~cur'.guardian /\ cur'.method \in Gated /\ mem' => proved'[u]
  <2>1. cur'.guardian <=> m # "FinishSetup" /\ m \in Gated /\ mem /\ ~Shown(u)
    BY <1>7, Zenon DEF NeedsGuardian
  <2>2. cur'.method = m
    BY <1>7
  <2>3. "FinishSetup" \notin Gated
    BY DEF Gated
  <2> QED BY <1>7, <1>2, <2>1, <2>2, <2>3, Zenon
<1>4. ~cur'.polkit /\ cur'.method # "FinishSetup" => sitting'[u]
  <2>1. cur'.polkit <=> m # "FinishSetup" /\ (m = "Unlock" \/ ~Unlocked(u))
    BY <1>7, Zenon
  <2>2. cur'.method = m
    BY <1>7
  <2> QED BY <1>2, <2>1, <2>2, Zenon
<1>5. pc' = "polkit" /\ cur'.uid = u /\ cur' \in Calls
  BY <1>1, TypeCall DEF Arrive, TypeOK
<1>6. GateInv'
  BY <1>3, <1>4, <1>5 DEF GateInv, GatedOnlyWithProof, Calls
<1> QED BY <1>2, <1>6 DEF SittingInv

(* A call that has come to an end, or past its method, claims nothing. *)
LEMMA SittingOver ==
  ASSUME AgesInv', pc' \in {"idle", "save", "boot"} PROVE SittingInv'
BY DEF SittingInv, GateInv, GatedOnlyWithProof

(* A step that leaves sessions and history alone leaves AgesInv. *)
LEMMA AgesKept == ASSUME AgesInv, UNCHANGED <<sessions, people>> PROVE AgesInv'
BY DEF AgesInv, Recent, Alive, sessions, people

(* A granted proof belongs to the sitting it was given in. *)
LEMMA AgesGrant ==
  ASSUME TypeOK, AgesInv, Grant(cur.uid) \/ NoGrant, UNCHANGED <<session, sitting>>
  PROVE  AgesInv' /\ (Grant(cur.uid) => proved'[cur.uid])
<1>0. cur.uid \in Uids
  BY DEF TypeOK, Calls
<1>1. CASE Grant(cur.uid)
  <2> SUFFICES ASSUME NEW v \in Uids PROVE Recent(v)'
    BY <1>0, <1>1 DEF AgesInv, Recent, Alive, Grant, TypeOK
  <2>1. CASE v = cur.uid
    BY <1>1, <2>1 DEF Grant, TypeOK, AgesInv, Recent, Alive, Ages, None
  <2>2. CASE v # cur.uid
    BY <1>1, <2>2 DEF Grant, TypeOK, AgesInv, Recent, Alive
  <2> QED BY <2>1, <2>2
<1>2. CASE ~Grant(cur.uid) /\ NoGrant
  BY <1>2 DEF NoGrant, AgesInv, Recent, Alive
<1> QED BY <1>1, <1>2

(* Every gate and method keeps SittingInv. *)
LEMMA SittingHandle == ASSUME TypeOK, SittingInv, Handle PROVE SittingInv'
<1> USE DEF SittingInv
<1>1. CASE Polkit
  BY <1>1, AgesKept DEF Polkit, To, End, sessions, people, stored, GateInv, GatedOnlyWithProof
<1>2. CASE GuardianGate
  <2>1. AgesInv' /\ (Grant(cur.uid) => proved'[cur.uid])
    BY <1>2, AgesGrant DEF GuardianGate
  <2>2. CASE ~cur.guardian /\ To("run") /\ NoGrant
    BY <1>2, <2>1, <2>2 DEF GuardianGate, To, NoGrant, stored, GateInv, GatedOnlyWithProof
  <2>3. CASE To("run") /\ Grant(cur.uid)
    BY <1>2, <2>1, <2>3 DEF GuardianGate, To, stored, GateInv, GatedOnlyWithProof
  <2>4. CASE End("refused")
    BY <2>1, <2>4, SittingOver DEF End
  <2> QED BY <1>2, <2>2, <2>3, <2>4 DEF GuardianGate
<1>3. CASE Unlock
  <2>1. cur.uid \in Uids
    BY DEF TypeOK, Calls
  <2>2. AgesInv'
    <3> SUFFICES ASSUME NEW v \in Uids PROVE Recent(v)'
      BY DEF AgesInv, Recent, Alive
    <3>1. CASE v = cur.uid
      BY <1>3, <2>1, <3>1 DEF Unlock, AgesInv, Recent, Alive, TypeOK, Ages, None
    <3>2. CASE v # cur.uid
      BY <1>3, <2>1, <3>2 DEF Unlock, AgesInv, Recent, Alive, TypeOK
    <3> QED BY <3>1, <3>2
  <2> QED BY <1>3, <2>2, SittingOver DEF Unlock, End
<1>4. CASE Lock
  <2>1. cur.uid \in Uids
    BY DEF TypeOK, Calls
  <2>2. AgesInv'
    BY <1>4, <2>1 DEF Lock, DropProof, AgesInv, Recent, Alive, TypeOK, None
  <2> QED BY <1>4, <2>2, SittingOver DEF Lock, End
<1>5. CASE Plain
  BY <1>5, AgesKept, SittingOver DEF Plain, End
<1>6. CASE VerifyGuardian
  <2>1. AgesInv'
    BY <1>6, AgesGrant DEF VerifyGuardian
  <2> QED BY <1>6, <2>1, SittingOver DEF VerifyGuardian, End
<1>7. CASE SetGuardianPassword
  <2>1. pc' \in {"idle", "save"}
    BY <1>7, TypeSetEnd DEF SetGuardianPassword
  <2> QED BY <1>7, <2>1, AgesKept, SittingOver DEF SetGuardianPassword
<1>8. CASE DisableGuardian
  BY <1>8, AgesKept, SittingOver DEF DisableGuardian, To
<1>9. CASE FinishSetup
  <2>1. pc' \in {"idle", "save", "boot"}
    BY <1>9, TypeSetEnd DEF FinishSetup, To
  <2> QED BY <1>9, <2>1, AgesKept, SittingOver DEF FinishSetup
<1>10. CASE Save
  BY <1>10, AgesKept, SittingOver DEF Save, To, End
<1>11. CASE Boot
  BY <1>11, AgesKept, SittingOver DEF Boot, End
<1>12. CASE Status
  <2>1. cur.uid \in Uids
    BY DEF TypeOK, Calls
  <2> QED BY <1>12, <2>1, SittingSlide, SittingOver DEF Status, End
<1> QED BY <1>1, <1>2, <1>3, <1>4, <1>5, <1>6, <1>7, <1>8, <1>9, <1>10, <1>11, <1>12
        DEF Handle

(* Time makes nothing that has run out good again. *)
LEMMA SittingTick == ASSUME TypeOK, SittingInv, Tick PROVE SittingInv'
<1>1. AgesInv'
  BY DEF Tick, Older, Smaller, TypeOK, Ages, None, SittingInv, AgesInv, Recent, Alive
<1>2. GateInv'
  BY DEF Tick, SittingInv, GateInv, GatedOnlyWithProof, stored
<1> QED BY <1>1, <1>2 DEF SittingInv

(* SittingInv holds in every reachable state. *)
LEMMA SittingHolds == Spec => [](TypeOK /\ SittingInv)
<1>1. ASSUME TypeOK, SittingInv, [Next]_vars PROVE SittingInv'
  <2>1. CASE Call BY <1>1, <2>1, SittingCall
  <2>2. CASE Handle BY <1>1, <2>2, SittingHandle
  <2>3. CASE Tick BY <1>1, <2>3, SittingTick
  <2>4. CASE SetClock
    BY <1>1, <2>4, AgesKept, SittingOver DEF SetClock, SittingInv
  <2>5. CASE Restart
    <3>1. AgesInv'
      BY <2>5 DEF Restart, AgesInv, Recent, Alive
    <3> QED BY <2>5, <3>1, SittingOver DEF Restart
  <2>6. CASE UNCHANGED vars
    BY <1>1, <2>6 DEF vars, SittingInv, AgesInv, Recent, Alive, GateInv, GatedOnlyWithProof
  <2> QED BY <1>1, <2>1, <2>2, <2>3, <2>4, <2>5, <2>6 DEF Next
<1> QED BY <1>1, SittingInit, TypeCorrect, PTL DEF Spec

(* While the guardian is on, a call that can weaken the filter runs only for    *)
(* somebody who proved the guardian password in a sitting unbroken since        *)
(* (_handle_call, evaluate, SessionStore).                                   *)
THEOREM GatedNeedsProof == Spec => []GatedOnlyWithProof
<1>1. SittingInv => GatedOnlyWithProof
  BY DEF SittingInv, GateInv
<1> QED BY <1>1, SittingHolds, PTL

(* Nobody passes without polkit but in a sitting that Unlock began.            *)
THEOREM PromptOutsideSitting == Spec => []NoPromptOnlyInSitting
<1>1. SittingInv => NoPromptOnlyInSitting
  BY DEF SittingInv, GateInv, NoPromptOnlyInSitting
<1> QED BY <1>1, SittingHolds, PTL

(* The guardian goes off only past its own gate, or when that is undone, or at *)
(* a restart (DisableGuardian, _save_and_apply, _roll_back).                  *)
THEOREM OffNeedsProof == Spec => OffOnlyWithProof
<1> DEFINE Allowed == \/ pc = "run" /\ proved[cur.uid]
                      \/ answer' = "failed" /\ ~snapshot
                      \/ pc' = "idle" /\ answer' = "none" /\ ~disk
<1>1. TypeOK /\ SittingInv /\ [Next]_vars => [mem /\ ~mem' => Allowed]_vars
  <2>a. SUFFICES ASSUME TypeOK, SittingInv, [Next]_vars, mem, ~mem'
                 PROVE  Allowed
    OBVIOUS
  <2>1. CASE DisableGuardian
    BY <2>a, <2>1 DEF DisableGuardian, Running, SittingInv, GateInv, GatedOnlyWithProof, Gated
  <2>2. CASE Save \/ Boot
    BY <2>a, <2>2 DEF Save, Boot, End
  <2>3. CASE Restart
    BY <2>a, <2>3 DEF Restart
  <2>4. CASE SetGuardianPassword \/ FinishSetup
    BY <2>a, <2>4 DEF SetGuardianPassword, FinishSetup
  <2>5. CASE Call
    BY <2>a, <2>5 DEF Call, Arrive
  <2>6. CASE Polkit \/ GuardianGate \/ Unlock \/ Lock \/ Status \/ Plain \/ VerifyGuardian
    BY <2>a, <2>6 DEF Polkit, GuardianGate, Unlock, Lock, Status, Plain, VerifyGuardian, stored
  <2>7. CASE Tick \/ SetClock \/ UNCHANGED vars
    BY <2>a, <2>7 DEF Tick, SetClock, vars, stored
  <2> QED BY <2>a, <2>1, <2>2, <2>3, <2>4, <2>5, <2>6, <2>7 DEF Next, Handle
<1> QED BY <1>1, SittingHolds, PTL DEF Spec, OffOnlyWithProof

-------------------------------------------------------------------------------
(* Wrong guesses.  The file agrees with the history: while the history is      *)
(* clear it counts the same guesses from the same first one and no lockout is  *)
(* on, and a lockout never ends before its time.                              *)

GuessInv == /\ strikes = 0 => att.failures = 0
            /\ strikes > 0 => /\ att.failures = strikes /\ att.left <= 0
                              /\ Smaller(att.first, Window + 1) = sinceStrike
            /\ sinceLock < Lockout => att.left >= Lockout - sinceLock
            /\ shadow = NoHash => strikes <= 0 /\ sinceLock = Lockout

(* The three ways a handler can treat the file of guesses. *)
Untouched == UNCHANGED <<att, guesses, shadow, verdict>>
FirstPassword == /\ shadow = NoHash /\ shadow' # NoHash /\ att' = Cleared
                 /\ verdict' = "none" /\ UNCHANGED guesses
Guessed == /\ \E pw : Check(pw)
           /\ shadow = NoHash <=> shadow' = NoHash

(* set_password sets a first password or is a guess at the old one. *)
LEMMA SetPasswordGuess ==
  ASSUME NEW old, NEW new \in Passwords, NEW step, SetPassword(old, new, step)
  PROVE  FirstPassword \/ Guessed
BY DEF SetPassword, FirstPassword, Guessed

(* A gate or method looks at no password, sets the first one, or is a guess. *)
LEMMA HandleGuess == ASSUME TypeOK, Handle PROVE Untouched \/ FirstPassword \/ Guessed
<1> USE DEF Untouched, Guessed
<1>1. CASE \/ Polkit \/ Unlock \/ Lock \/ Status \/ Plain \/ DisableGuardian
           \/ Save \/ Boot
  BY <1>1 DEF Polkit, Unlock, Lock, Status, Plain, DisableGuardian, Save, Boot, stored,
               file
<1>2. CASE GuardianGate \/ VerifyGuardian
  BY <1>2 DEF GuardianGate, VerifyGuardian, NoCheck, stored
<1>3. CASE SetGuardianPassword
  BY <1>3, SetPasswordGuess DEF SetGuardianPassword
<1>4. CASE FinishSetup
  <2>1. CASE NoCheck /\ UNCHANGED shadow
    BY <2>1 DEF NoCheck
  <2>2. CASE \E new \in Passwords : SetPassword(Blank, new, "save")
    BY <2>2, SetPasswordGuess
  <2>3. cur.pw # Blank /\ SetPassword(Blank, cur.pw, "save") => cur.pw \in Passwords
    BY DEF TypeOK, Calls, Typed
  <2> QED BY <1>4, <2>1, <2>2, <2>3 DEF FinishSetup
<1> QED BY <1>1, <1>2, <1>3, <1>4 DEF Handle

(* A guess made while locked reads the file and counts nothing; the right one  *)
(* clears the count; a wrong one adds one, or locks.                          *)
LEMMA CheckGuess == ASSUME TypeOK, GuessInv, Guessed PROVE GuessInv'
<1>1. PICK pw : Check(pw)
  BY DEF Guessed
<1> DEFINE s == ReadState
           n == IF strikes = Unclear /\ s.failures > 0 THEN Unclear
                ELSE IF strikes = Unclear \/ sinceStrike > Window THEN 1 ELSE strikes + 1
<1> USE DEF TypeOK, GuessInv, Guessed
<1>2. /\ s = [failures |-> s.failures, first |-> s.first, left |-> s.left]
      /\ s.failures = IF att.failures > 0 /\ Larger(att.first, 0) > Window THEN 0
                      ELSE att.failures
      /\ s.first = IF att.failures > 0 /\ Larger(att.first, 0) > Window THEN 0
                   ELSE Larger(att.first, 0)
      /\ s.left = Smaller(att.left, Lockout)
  BY DEF ReadState
<1>3. /\ att.failures \in 0..(MaxFailures - 1) /\ att.first \in Int /\ att.left \in Int
      /\ s.failures \in 0..(MaxFailures - 1) /\ s.first \in Int /\ s.left \in Int
  BY <1>2 DEF Attempts, Smaller, Larger
<1>4. CASE shadow = NoHash
  BY <1>1, <1>4 DEF Check, guesses
<1>5. CASE shadow # NoHash /\ s.left > 0
  <2>1. att' = s /\ UNCHANGED guesses
    BY <1>1, <1>5 DEF Check
  <2>2. att.left > 0 /\ strikes <= 0
    BY <1>2, <1>3, <1>5 DEF Smaller
  <2>3. sinceLock < Lockout => s.left >= Lockout - sinceLock
    BY <1>2, <1>3 DEF Smaller
  <2>4. strikes = 0 => s.failures = 0
    BY <1>2, <1>3
  <2> HIDE DEF s
  <2> QED BY <1>5, <2>1, <2>2, <2>3, <2>4 DEF guesses, NoHash
<1>6. ~(s.left > 0) => att.left <= 0 /\ sinceLock = Lockout
  BY <1>2, <1>3 DEF Smaller
<1>7. CASE shadow # NoHash /\ ~(s.left > 0) /\ pw = shadow
  <2>1. att' = Cleared /\ strikes' = 0 /\ sinceLock' = sinceLock
    BY <1>1, <1>7 DEF Check
  <2> QED BY <1>6, <1>7, <2>1 DEF Cleared
<1>8. CASE shadow # NoHash /\ ~(s.left > 0) /\ pw # shadow
  <2>1. att' = WrongGuess(s)
    BY <1>1, <1>8 DEF Check
  <2>2. IF n = MaxFailures \/ att'.left > 0
        THEN strikes' = 0 /\ sinceLock' = 0
        ELSE /\ strikes' = n /\ sinceLock' = sinceLock
             /\ sinceStrike' = IF n > 1 THEN sinceStrike ELSE 0
    BY <1>1, <1>8 DEF Check, guesses
  <2>3. n = Unclear \/ n = s.failures + 1
    BY <1>2, <1>3 DEF Larger, Smaller, Unclear
  <2>4. n > 1 => Smaller(s.first, Window + 1) = sinceStrike
    BY <1>2, <1>3 DEF Larger, Smaller, Unclear
  <2> HIDE DEF s, n
  <2>5. CASE s.failures + 1 >= MaxFailures
    <3>1. att' = [failures |-> 0, first |-> 0, left |-> Lockout]
      BY <2>1, <2>5 DEF WrongGuess
    <3>2. strikes' = 0 /\ sinceLock' = 0
      BY <2>2, <3>1
    <3> QED BY <1>8, <3>1, <3>2
  <2>6. CASE ~(s.failures + 1 >= MaxFailures)
    <3>1. att' = [failures |-> s.failures + 1,
                  first |-> IF s.failures = 0 THEN 0 ELSE s.first, left |-> s.left]
      BY <2>1, <2>6 DEF WrongGuess
    <3>2. /\ strikes' = n /\ sinceLock' = sinceLock
          /\ sinceStrike' = IF n > 1 THEN sinceStrike ELSE 0
      BY <1>3, <1>8, <2>2, <2>3, <2>6, <3>1 DEF Unclear
    <3>3. s.failures = 0 => ~(n > 1)
      BY <2>3 DEF Unclear
    <3>4. ~(n > 1) /\ n > 0 => s.failures = 0
      BY <1>3, <2>3 DEF Unclear
    <3> QED BY <1>3, <1>6, <1>8, <2>3, <2>4, <3>1, <3>2, <3>3, <3>4 DEF Unclear, Smaller
  <2> QED BY <2>5, <2>6
<1> QED BY <1>4, <1>5, <1>7, <1>8

(* Time keeps GuessInv: the file and the history age together. *)
LEMMA TickGuess == ASSUME TypeOK, GuessInv, Tick PROVE GuessInv'
<1>1. /\ att.failures \in 0..(MaxFailures - 1) /\ att.first \in Int /\ att.left \in Int
      /\ strikes \in Int /\ sinceStrike \in 0..(Window + 1) /\ sinceLock \in 0..Lockout
  BY DEF TypeOK, Attempts, Unclear
<1>2. /\ att'.failures = att.failures
      /\ att'.first = IF att.failures = 0 THEN 0 ELSE Older(att.first, Window + Skew + 1)
      /\ att'.left = Larger(att.left - 1, -Skew)
      /\ sinceStrike' = IF strikes <= 0 THEN 0 ELSE Older(sinceStrike, Window + 1)
      /\ sinceLock' = Older(sinceLock, Lockout)
      /\ strikes' = strikes /\ shadow' = shadow
  BY DEF Tick, stored
<1> QED BY <1>1, <1>2 DEF GuessInv, Older, Smaller, Larger

(* A clock that is set keeps GuessInv, which then claims less. *)
LEMMA SetClockGuess == ASSUME TypeOK, GuessInv, SetClock PROVE GuessInv'
<1>1. PICK to \in 0..Skew :
        /\ att' = [failures |-> att.failures,
                   first |-> IF att.failures = 0 THEN 0
                     ELSE Larger(Smaller(att.first + (to - skew), Window + Skew + 1), -Skew),
                   left |-> Smaller(Larger(att.left - (to - skew), -Skew), Lockout + Skew)]
        /\ sinceLock' = IF to - skew > 0 THEN Lockout ELSE sinceLock
  BY DEF SetClock
<1>2. /\ att'.failures = att.failures
      /\ att'.left = Smaller(Larger(att.left - (to - skew), -Skew), Lockout + Skew)
  BY <1>1
<1>3. strikes' = (IF strikes = 0 THEN 0 ELSE Unclear) /\ shadow' = shadow
  BY DEF SetClock, stored
<1>4. /\ att.left \in Int /\ skew \in 0..Skew /\ sinceLock \in 0..Lockout
  BY DEF TypeOK, Attempts
<1>5. sinceLock' < Lockout => att'.left >= Lockout - sinceLock'
  BY <1>1, <1>2, <1>4 DEF GuessInv, Smaller, Larger
<1>6. shadow' = NoHash => sinceLock' = Lockout
  BY <1>1, <1>3 DEF GuessInv
<1>7. (strikes' = 0 => strikes = 0) /\ strikes' <= 0 /\ ~(strikes' > 0)
  BY <1>3 DEF Unclear
<1>8. strikes' = 0 => att'.failures = 0
  BY <1>2, <1>7 DEF GuessInv
<1> QED BY <1>5, <1>6, <1>7, <1>8 DEF GuessInv

(* GuessInv holds in every reachable state. *)
LEMMA GuessHolds == Spec => [](TypeOK /\ GuessInv)
<1>1. Init => GuessInv
  BY DEF Init, GuessInv, Cleared
<1>2. ASSUME TypeOK, GuessInv, [Next]_vars PROVE GuessInv'
  <2>1. CASE Untouched
    BY <1>2, <2>1 DEF Untouched, guesses, GuessInv
  <2>2. CASE FirstPassword
    <3>1. strikes' = strikes /\ strikes \in Int /\ strikes <= 0 /\ sinceLock' = Lockout
      BY <1>2, <2>2 DEF FirstPassword, guesses, GuessInv, TypeOK, Unclear
    <3>2. att'.failures = 0 /\ shadow' # NoHash
      BY <2>2 DEF FirstPassword, Cleared
    <3> QED BY <3>1, <3>2 DEF GuessInv
  <2>3. CASE Guessed
    BY <1>2, <2>3, CheckGuess
  <2>4. CASE Handle
    BY <1>2, <2>1, <2>2, <2>3, <2>4, HandleGuess
  <2>5. CASE Call \/ Restart \/ UNCHANGED vars
    BY <1>2, <2>5 DEF Call, Arrive, Restart, vars, stored, file, guesses, GuessInv
  <2>6. CASE Tick
    BY <1>2, <2>6, TickGuess
  <2>7. CASE SetClock
    BY <1>2, <2>7, SetClockGuess
  <2> QED BY <1>2, <2>4, <2>5, <2>6, <2>7 DEF Next
<1> QED BY <1>1, <1>2, TypeCorrect, PTL DEF Spec

(* After MaxFailures wrong guesses in a Window nothing typed is looked at for  *)
(* Lockout, whatever is called, restarted or waited for (Guardian.verify).     *)
THEOREM TriesLimited == Spec => FiveTries
<1>1. TypeOK /\ GuessInv /\ [Next]_vars =>
        [verdict = "none" /\ verdict' \in {"right", "wrong"} => sinceLock >= Lockout]_vars
  <2>a. SUFFICES ASSUME TypeOK, GuessInv, [Next]_vars,
                        verdict = "none", verdict' \in {"right", "wrong"}
                 PROVE  sinceLock >= Lockout
    OBVIOUS
  <2>1. Handle
    BY <2>a DEF Next, Call, Arrive, Tick, SetClock, Restart, vars
  <2>2. PICK pw : Check(pw)
    BY <2>a, <2>1, HandleGuess DEF Untouched, FirstPassword, Guessed
  <2>3. ~(ReadState.left > 0)
    BY <2>a, <2>2 DEF Check
  <2>4. att.left <= 0
    BY <2>a, <2>3 DEF ReadState, Smaller, TypeOK, Attempts
  <2> QED BY <2>a, <2>4 DEF GuessInv, TypeOK, Attempts
<1> QED BY <1>1, GuessHolds, PTL DEF Spec, FiveTries

(* A lockout found in the file, however the clock was set since, ends within   *)
(* Lockout of the try it refuses (Guardian._read_state).                      *)
THEOREM LockoutEnds == Spec => LockoutBounded
<1>1. TypeOK /\ [Next]_vars =>
        [verdict = "none" /\ verdict' = "locked" => att'.left <= Lockout]_vars
  <2>a. SUFFICES ASSUME TypeOK, [Next]_vars, verdict = "none", verdict' = "locked"
                 PROVE  att'.left <= Lockout
    OBVIOUS
  <2>1. Handle
    BY <2>a DEF Next, Call, Arrive, Tick, SetClock, Restart, vars
  <2>2. PICK pw : Check(pw)
    BY <2>a, <2>1, HandleGuess DEF Untouched, FirstPassword, Guessed
  <2>3. att' = ReadState
    BY <2>a, <2>2 DEF Check
  <2> QED BY <2>a, <2>3, ReadStateType DEF TypeOK
<1> QED BY <1>1, TypeCorrect, PTL DEF Spec, LockoutBounded

(* A guesser is stopped, and nobody is stopped for good (Guardian.verify).     *)
THEOREM GuessesBounded == Spec => GuessingBounded
  BY TriesLimited, LockoutEnds DEF GuessingBounded
=============================================================================
