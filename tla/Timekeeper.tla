------------------------------- MODULE Timekeeper -------------------------------
(***************************************************************************)
(* How long, and when, an account may be signed in.  Once a minute kosherd    *)
(* asks logind who is signed in, charges the minute to everybody at the       *)
(* keyboard, warns, locks, signs out a minute later, and keeps the hours      *)
(* pam_time lets each account in.  What it counted is in a file; whom it has  *)
(* seen, warned and locked is in memory only.                                *)
(*                                                                           *)
(* One step is one tick of the main loop, with all it does.  The clock is the *)
(* minute of a short day.  A restart, and each call that fails, takes one off *)
(* a budget of faults.                                                       *)
(***************************************************************************)
EXTENDS Integers, FiniteSets

CONSTANTS N,          \* accounts, in the order of the policy
          Day,        \* minutes in a day
          Settings,   \* time settings a parent may choose
          WarnAt,     \* WARN_AT
          Grace,      \* GRACE_SECONDS
          MaxCharge,  \* MAX_CHARGE_SECONDS
          Top,        \* bound: above it all counts of minutes are alike
          MaxSleep,   \* bound: how long the machine is suspended
          Faults, MaxFaults   \* what may fail in this instance, how often

Users == 1..N
Minutes == 0..(Day - 1)
None == -1
NoKey == {0}          \* _conf_key is None
Free == [limit |-> 0, hours |-> Minutes]

ASSUME SizeAssumption == N \in Nat /\ {Day, Grace, MaxCharge} \subseteq Nat \ {0}
                         /\ {MaxSleep, MaxFaults} \subseteq Nat
ASSUME SettingsAssumption == /\ Free \in Settings
                             /\ Settings \subseteq [limit: 0..Day, hours: SUBSET Minutes]
ASSUME TopAssumption == Top \in Nat \ {0} /\ \A s \in Settings : s.limit <= Top
ASSUME WarnAssumption == WarnAt \subseteq Nat \ {0} /\ WarnAt # {} /\ IsFiniteSet(WarnAt)
ASSUME TimeFaultAssumption ==
  Faults \subseteq {"list", "lock", "end", "conf", "usage", "restart", "bypass"}

VARIABLES now, since,    \* the minute of the day; minutes since the last tick
          started,       \* _last_tick is set
          settings,      \* of each account, in the policy
          sess,          \* an account's sessions: "seen" by the last tick, or "new"
          idle,          \* nobody at its keyboard
          used, filed,   \* today's minutes: in memory, in usage.jsonl
          locked,        \* minutes since _locked_at
          warned,        \* _warned
          blocked,       \* _blocked
          key, conf,     \* _conf_key; the minutes time.conf lets an account in
          ended,         \* accounts this step signed out
          locks,         \* accounts this step locked
          faults,        \* faults so far
          late,          \* history: minutes a blocked account was let stay
          okay,          \* history: the last tick found it allowed
          stay,          \* history: ... present too, and nothing happened since
          heard,         \* history: "warned" of the end that is near; "before"
                         \* it was locked for one; "never"
          spent,         \* history: minutes of today it really was in use
          written,       \* history: the last time.conf could be written
          fresh          \* history: the last tick was completed

clock == <<now, since, started>>
keeper == <<used, filed, locked, warned, blocked, key, conf>>
history == <<late, okay, stay, heard, spent, written, fresh>>
vars == <<now, since, started, settings, sess, idle, used, filed, locked, warned,
          blocked, key, conf, ended, locks, faults, late, okay, stay, heard, spent, written, fresh>>

Ages == None..(Grace + 1)
Flags == [Users -> BOOLEAN]

TypeOK == /\ now \in Minutes /\ since \in 0..MaxCharge /\ started \in BOOLEAN
          /\ settings \in [Users -> Settings]
          /\ sess \in [Users -> SUBSET {"seen", "new"}] /\ idle \in Flags
          /\ used \in [Users -> 0..Top] /\ filed \in [Users -> 0..Top]
          /\ locked \in [Users -> Ages] /\ warned \in [Users -> SUBSET WarnAt]
          /\ blocked \subseteq Users /\ ended \subseteq Users /\ locks \subseteq Users
          /\ key \in (SUBSET Users) \cup {NoKey}
          /\ conf \in [Users -> SUBSET Minutes]
          /\ faults \in 0..MaxFaults
          /\ late \in [Users -> None..(Grace + 2)]
          /\ okay \in Flags /\ stay \in Flags
          /\ heard \in [Users -> {"never", "warned", "before"}]
          /\ spent \in [Users -> 0..Top] /\ written \in BOOLEAN /\ fresh \in BOOLEAN

(* kosherd before its first look at who is signed in. *)
Init == /\ now = 0 /\ since = 0 /\ started = FALSE
        /\ settings = [u \in Users |-> Free]
        /\ sess = [u \in Users |-> {}] /\ idle = [u \in Users |-> FALSE]
        /\ used = [u \in Users |-> 0] /\ filed = used
        /\ locked = [u \in Users |-> None] /\ warned = [u \in Users |-> {}]
        /\ blocked = {} /\ key = NoKey /\ conf = [u \in Users |-> Minutes]
        /\ ended = {} /\ locks = {} /\ faults = 0
        /\ late = [u \in Users |-> None]
        /\ okay = [u \in Users |-> FALSE] /\ stay = okay
        /\ heard = [u \in Users |-> "never"]
        /\ spent = used /\ written = FALSE /\ fresh = FALSE

-------------------------------------------------------------------------------
(* timelimits: where an account stands. *)

Smaller(a, b) == IF a < b THEN a ELSE b
Least(S) == CHOOSE a \in S : \A b \in S : a <= b

Limited(s) == s # Free
UsedUp(s, n) == s.limit # 0 /\ n >= s.limit
Blocked(s, n, at) == UsedUp(s, n) \/ at \notin s.hours

(* The minutes left until the budget or the allowed hours end. *)
Left(s, n, at) ==
  Least({k \in 0..Day : \/ s.limit # 0 /\ k = s.limit - n
                        \/ (at + k) % Day \notin s.hours})

(* Some of these are preceded by a mistaken form that a property notices. *)

(* A restart reads the day's count from the file. *)
DayGivenBack == [u \in Users |-> 0]
Reloaded == filed

(* _locked_at of an account that is signed out, or allowed. *)
KeepLock(u) == locked[u]
NoLock(u) == None

(* _enforce: has the account had its minute since the lock? *)
NeverMind(age) == FALSE
HadGrace(age) == age >= Grace

(* _maybe_warn: the warnings already given that still count. *)
StillGiven(u, left) == warned[u] \cap {t \in WarnAt : left <= t}

(* The key time.conf is written for: who has used the day up. *)
SameForAll(out) == {}
ConfKey(out) == out

Plus(n, e) == Smaller(n + e, Top)

-------------------------------------------------------------------------------
(* The parts of Timekeeper.tick. *)

InUse(u) == sess[u] # {} /\ ~idle[u]

(* Every session appeared while the account was already blocked. *)
Arrived(u) == sess[u] = {"new"} /\ u \in blocked

(* render_time_conf *)
HourLate(set, out) ==
  [u \in Users |-> IF u \in out THEN {} ELSE {h + 1 : h \in set[u].hours}]
Rendered(set, out) == [u \in Users |-> IF u \in out THEN {} ELSE set[u].hours]

Largest(S) == {a \in S : \A b \in S : a >= b}

(* _maybe_warn: of the thresholds reached and not yet told, the largest. *)
Warn(u, left) ==
  LET given == StillGiven(u, left)
      due == {t \in WarnAt : left <= t} \ given
  IN IF sess[u] = {} THEN given ELSE given \cup Largest(due)

Older(d) == [u \in Users |-> IF locked[u] = None THEN None ELSE Smaller(locked[u] + d, Grace + 1)]
NewDay(n, today) == IF today THEN n ELSE [u \in Users |-> 0]

(* A tick at minute `at`, of the day already counted or of a new one, with    *)
(* settings `set` and time.conf written for `k`, `d` minutes after the last    *)
(* moment it is reckoned from (`slack`: a little less).  It goes through the   *)
(* accounts in order and stops at the first it cannot lock (0 and N + 1: an     *)
(* account before these, or after them).                                     *)
LookTo(stop, at, today, set, k, d, slack, how) ==
  LET e == IF started THEN Smaller(since + d, MaxCharge) ELSE 0
      age == Older(d)
      charged == {u \in 1..Smaller(stop, N) : Limited(set[u]) /\ InUse(u)}
      count(n) == [u \in Users |-> IF u \in charged THEN Plus(n[u], e) ELSE n[u]]
      n == count(NewDay(used, today))
      left(u) == Left(set[u], n[u], at)
      shut == {u \in Users : Blocked(set[u], n[u], at)}
      over == {u \in shut : sess[u] # {} /\ (Arrived(u) \/ (age[u] # None /\ HadGrace(age[u] - slack)))}
      lock == {u \in shut : sess[u] # {} /\ ~Arrived(u) /\ locked[u] = None}
      out == {u \in Users : UsedUp(set[u], n[u])}
      done == how # "lock"
  IN /\ IF done THEN stop = N + 1 ELSE stop \in lock \cup {0, N + 1}
     /\ how = "end" => over # {}
     /\ how = "conf" => ConfKey(out) # k
     /\ used' = n
     /\ filed' = IF how = "usage" THEN NewDay(filed, today) ELSE count(NewDay(filed, today))
     /\ ended' = IF how = "end" THEN {} ELSE {u \in over : u < stop}
     /\ locks' = {u \in lock : u < stop}
     /\ sess' = [u \in Users |-> IF u \in ended' \/ sess[u] = {} THEN {} ELSE {"seen"}]
     /\ locked' = [u \in Users |->
          IF u >= stop THEN age[u]
          ELSE IF u \in lock THEN 0
          ELSE IF u \in shut /\ sess[u] # {} THEN age[u] ELSE NoLock(u)]
     /\ warned' = [u \in Users |->
          IF u >= stop \/ u \in shut THEN warned[u]
          ELSE IF Limited(set[u]) THEN Warn(u, left(u)) ELSE {}]
     /\ blocked' = IF done THEN shut ELSE blocked
     /\ key' = IF done THEN ConfKey(out) ELSE k
     /\ conf' = IF done /\ key' # k /\ how # "conf" THEN Rendered(set, out) ELSE conf
     /\ settings' = set /\ now' = at /\ since' = 0 /\ started' = TRUE
     (* what the history notes *)
     /\ late' = [u \in Users |->
          IF how = "end" \/ u >= stop \/ u \notin shut \/ sess'[u] = {} THEN None
          ELSE IF late[u] = None THEN 0 ELSE Smaller(late[u] + d, Grace + 2)]
     /\ okay' = [u \in Users |-> IF u < stop THEN u \notin shut ELSE okay[u]]
     /\ stay' = [u \in Users |-> u < stop /\ u \notin shut /\ sess[u] # {}]
     /\ heard' = [u \in Users |->
          IF u \in locks' /\ heard[u] = "warned" THEN "before"
          ELSE IF warned'[u] \ warned[u] # {} THEN "warned"
          ELSE IF u < stop /\ u \notin shut /\ (Limited(set[u]) => \A t \in WarnAt : left(u) > t)
          THEN "never" ELSE heard[u]]
     /\ spent' = [u \in Users |->
          Smaller((IF today THEN spent[u] ELSE 0)
                    + (IF how # "usage" /\ u \in charged /\ e > 0 THEN 1 ELSE 0), Top)]
     /\ written' = IF done /\ key' # k THEN how # "conf" ELSE written
     /\ fresh' = done

Look(at, today, set, k, d, slack, how) ==
  \E stop \in 0..(N + 1) : LookTo(stop, at, today, set, k, d, slack, how)

(* logind does not answer: the tick ends there, its minute is not charged. *)
Blind(at, today, set, k, d) ==
  /\ used' = NewDay(used, today) /\ filed' = NewDay(filed, today)
  /\ spent' = NewDay(spent, today)
  /\ settings' = set /\ now' = at /\ since' = 0 /\ started' = TRUE /\ key' = k
  /\ ended' = {} /\ locks' = {} /\ fresh' = FALSE
  /\ late' = [u \in Users |-> None] /\ stay' = [u \in Users |-> FALSE]
  /\ locked' = Older(d)
  /\ UNCHANGED <<sess, warned, blocked, conf, okay, heard, written>>

Tick(at, today, set, k, d, slack) ==
  \/ Look(at, today, set, k, d, slack, "ok") /\ UNCHANGED faults
  \/ /\ faults < MaxFaults /\ faults' = faults + 1
     /\ \/ "list" \in Faults /\ Blind(at, today, set, k, d)
        \/ \E how \in Faults \cap {"lock", "end", "conf", "usage"} :
             Look(at, today, set, k, d, slack, how)

-------------------------------------------------------------------------------
(* The clock, kosherd and the people. *)

(* The first tick, when the bus is there. *)
Start == /\ ~started
         /\ Tick(now, TRUE, settings, key, 0, 0)
         /\ UNCHANGED idle

(* A minute goes by and the timeout fires, perhaps a moment early. *)
Minute == /\ started
          /\ \E slack \in 0..1 :
               Tick((now + 1) % Day, now + 1 < Day, settings, key, 1, slack)
          /\ UNCHANGED idle

(* _save_and_apply after SetTimeLimits: policy_changed ticks at once, and has  *)
(* time.conf written again.                                                  *)
Change == /\ started
          /\ \E u \in Users, s \in Settings :
               Tick(now, TRUE, [settings EXCEPT ![u] = s], NoKey, 0, 0)
          /\ UNCHANGED idle

(* The machine is suspended, and no timeout fires meanwhile. *)
Sleep == \E d \in 1..MaxSleep :
  LET today == now + d < Day
  IN /\ started
     /\ now' = (now + d) % Day /\ since' = Smaller(since + d, MaxCharge)
     /\ locked' = Older(d)
     /\ used' = NewDay(used, today) /\ filed' = NewDay(filed, today)
     /\ spent' = NewDay(spent, today)
     /\ ended' = {} /\ locks' = {} /\ fresh' = FALSE
     /\ stay' = [u \in Users |-> FALSE]
     /\ UNCHANGED <<started, settings, sess, idle, warned, blocked, key, conf, faults,
                    late, okay, heard, written>>

Quiet == /\ ended' = {} /\ locks' = {}
         /\ UNCHANGED <<clock, settings, keeper, okay, heard, spent, written>>

(* Somebody signs in: pam_time lets it through, or is not asked. *)
SignIn == \E u \in Users :
  /\ now \in conf[u] \/ "bypass" \in Faults
  /\ "new" \notin sess[u]
  /\ sess' = [sess EXCEPT ![u] = @ \cup {"new"}]
  /\ idle' = [idle EXCEPT ![u] = FALSE]
  /\ Quiet /\ UNCHANGED <<faults, late, stay, fresh>>

SignOut == \E u \in Users, s \in {"seen", "new"} :
  /\ s \in sess[u]
  /\ sess' = [sess EXCEPT ![u] = @ \ {s}]
  /\ late' = [late EXCEPT ![u] = IF sess'[u] = {} THEN None ELSE @]
  /\ stay' = [stay EXCEPT ![u] = @ /\ sess'[u] # {}]
  /\ Quiet /\ UNCHANGED <<idle, faults, fresh>>

GoIdle == \E u \in Users :
  /\ sess[u] # {}
  /\ idle' = [idle EXCEPT ![u] = ~@]
  /\ Quiet /\ UNCHANGED <<sess, faults, late, stay, fresh>>

(* kosherd is started again: only the file is left of what it knew. *)
Restart == /\ "restart" \in Faults /\ faults < MaxFaults /\ faults' = faults + 1
           /\ started' = FALSE /\ since' = 0
           /\ used' = Reloaded
           /\ sess' = [u \in Users |-> IF sess[u] = {} THEN {} ELSE {"new"}]
           /\ locked' = [u \in Users |-> None] /\ warned' = [u \in Users |-> {}]
           /\ blocked' = {} /\ key' = NoKey
           /\ ended' = {} /\ locks' = {} /\ fresh' = FALSE
           /\ late' = [u \in Users |-> None] /\ stay' = [u \in Users |-> FALSE]
           /\ UNCHANGED <<now, settings, idle, filed, conf, okay, heard, spent, written>>

Next == Start \/ Minute \/ Change \/ Sleep \/ SignIn \/ SignOut \/ GoIdle \/ Restart

Spec == Init /\ [][Next]_vars

-------------------------------------------------------------------------------
(* Properties. *)

(* While kosherd runs and logind answers, an account whose time is up is       *)
(* signed out within Grace and one tick of the tick that found it so, whoever  *)
(* changes whose settings meanwhile (_enforce).  A tick that fails starts the  *)
(* reckoning afresh: what it could not do is done again by the next.         *)
SignedOutInTime == \A u \in Users : late[u] <= Grace

(* Nobody whom the last tick found allowed, and signed in, is signed out by    *)
(* the next: there is a lock with its warning, and the grace, in between.     *)
NoSurprise == [][\A u \in ended' : "seen" \in sess[u] => ~okay[u]]_vars

(* An account that was signed in and allowed a minute ago has been told that   *)
(* its time is running out, since it last had more than the first warning's    *)
(* time left, before it is locked (_maybe_warn).                             *)
Untold(u) == stay[u] /\ settings'[u] = settings[u] /\ heard[u] = "never"
WarnedFirst == [][\A u \in locks' : ~Untold(u)]_vars

(* Nobody is signed out, or locked, out of the blue.                           *)
Forewarned == NoSurprise /\ WarnedFirst

(* After a completed tick the sign-in gate lets in exactly the accounts the    *)
(* tick did not find blocked, unless time.conf could not be written.         *)
GateInStep ==
  fresh /\ written =>
    \A u \in Users : now \in conf[u] <=> ~Blocked(settings[u], used[u], now)

(* Every minute of use that was charged stays charged that day, through        *)
(* restarts of kosherd and changed settings (UsageStore).                    *)
Counted == \A u \in Users : used[u] >= spent[u]
===============================================================================
