----------------------------- MODULE TimersProofs -----------------------------
(***************************************************************************)
(* Proofs about what kosherd's timers start: Timekeeper's tick, the fold and *)
(* trim of Spools, the poll of Portal.  For any accounts, settings, warnings *)
(* and length of the day; any search threads, counts and days; any codes,    *)
(* portal threads, lists, devices, policies and bundles; and any number of   *)
(* faults of each.                                                           *)
(***************************************************************************)
EXTENDS Timekeeper, Spools, Portal, ListsProofs, FiniteSetTheorems, SequenceTheorems, TLAPS

-------------------------------------------------------------------------------
(* Timekeeper: in time, with warning, and the gate with it. *)

(* Where the constants lie, and what no time can be. *)
LEMMA Sizes == /\ N \in Nat /\ Day \in Nat \ {0} /\ Grace \in Nat \ {0}
               /\ MaxCharge \in Nat \ {0} /\ MaxSleep \in Nat /\ MaxFaults \in Nat
               /\ Top \in Nat \ {0} /\ Users \subseteq Nat \ {0}
               /\ NoKey \notin SUBSET Users
               /\ Free \in Settings
               /\ \A s \in Settings : s.limit \in Nat /\ s.hours \subseteq Minutes
<1>1. /\ N \in Nat /\ Day \in Nat \ {0} /\ Grace \in Nat \ {0} /\ MaxCharge \in Nat \ {0}
      /\ MaxSleep \in Nat /\ MaxFaults \in Nat /\ Top \in Nat \ {0}
  BY SizeAssumption, TopAssumption
<1>2. Users \subseteq Nat \ {0}
  BY <1>1 DEF Users
<1>3. NoKey \notin SUBSET Users
  BY <1>2 DEF NoKey
<1>4. \A s \in Settings : s.limit \in Nat /\ s.hours \subseteq Minutes
  BY <1>1, SettingsAssumption
<1> QED BY <1>1, <1>2, <1>3, <1>4, SettingsAssumption

(* A lock that gets older stays within the ages told apart. *)
LEMMA OlderType == ASSUME TypeOK, NEW d \in Nat PROVE Older(d) \in [Users -> Ages]
<1>1. ASSUME NEW u \in Users
      PROVE (IF locked[u] = None THEN None ELSE Smaller(locked[u] + d, Grace + 1)) \in Ages
  <2>1. locked[u] \in None..(Grace + 1)
    BY DEF TypeOK, Ages
  <2> QED BY <2>1, Sizes DEF None, Smaller, Ages
<1> QED BY <1>1 DEF Older

(* The counts of a new day, or of the same. *)
LEMMA NewDayType ==
  ASSUME NEW n \in [Users -> 0..Top], NEW same \in BOOLEAN
  PROVE  NewDay(n, same) \in [Users -> 0..Top]
  BY Sizes DEF NewDay

(* What is charged stays a count. *)
LEMMA PlusType == ASSUME NEW n \in 0..Top, NEW e \in Nat PROVE Plus(n, e) \in 0..Top
  BY Sizes DEF Plus, Smaller

(* The machine starts in the types. *)
LEMMA TypeInit == Init => TypeOK
<1> SUFFICES ASSUME Init PROVE TypeOK
  OBVIOUS
<1>1. 0 \in Minutes /\ 0 \in 0..Top /\ 0 \in 0..MaxCharge /\ 0 \in 0..MaxFaults
  BY Sizes DEF Minutes
<1>2. None \in Ages /\ None \in None..(Grace + 2)
  BY Sizes DEF None, Ages
<1>3. Free \in Settings
  BY Sizes
<1>4. NoKey \in (SUBSET Users) \cup {NoKey} /\ Minutes \in SUBSET Minutes
  OBVIOUS
<1>5. /\ now \in Minutes /\ since \in 0..MaxCharge /\ started \in BOOLEAN
      /\ settings \in [Users -> Settings] /\ faults \in 0..MaxFaults
  BY <1>1, <1>3 DEF Init
<1>6. sess \in [Users -> SUBSET {"seen", "new"}] /\ idle \in Flags
  BY DEF Init, Flags
<1>7. used \in [Users -> 0..Top] /\ filed \in [Users -> 0..Top] /\ spent \in [Users -> 0..Top]
  BY <1>1 DEF Init
<1>8. locked \in [Users -> Ages] /\ late \in [Users -> None..(Grace + 2)]
  BY <1>2 DEF Init
<1>9. /\ warned \in [Users -> SUBSET WarnAt]
      /\ blocked \subseteq Users /\ ended \subseteq Users /\ locks \subseteq Users
  BY DEF Init
<1>10. key \in (SUBSET Users) \cup {NoKey} /\ conf \in [Users -> SUBSET Minutes]
  BY <1>4 DEF Init
<1>11. okay \in Flags /\ stay \in Flags
  BY DEF Init, Flags
<1>12. heard \in [Users -> {"never", "warned", "before"}]
  BY DEF Init
<1>13. written \in BOOLEAN /\ fresh \in BOOLEAN
  BY DEF Init
<1> QED BY <1>5, <1>6, <1>7, <1>8, <1>9, <1>10, <1>11, <1>12, <1>13 DEF TypeOK

(* What a tick may be made with. *)
Given(at, same, set, k, d, slack) ==
  /\ at \in Minutes /\ same \in BOOLEAN /\ set \in [Users -> Settings]
  /\ k \in (SUBSET Users) \cup {NoKey} /\ d \in 0..1 /\ slack \in 0..1

(* A tick that gets an answer from logind keeps the types. *)
LEMMA TypeLook ==
  ASSUME TypeOK, NEW at, NEW same, NEW set, NEW k, NEW d, NEW slack, NEW how,
         NEW stop \in 0..(N + 1), Given(at, same, set, k, d, slack),
         LookTo(stop, at, same, set, k, d, slack, how),
         faults' \in 0..MaxFaults, idle' \in Flags
  PROVE  TypeOK'
<1> DEFINE e == IF started THEN Smaller(since + d, MaxCharge) ELSE 0
           charged == {u \in 1..Smaller(stop, N) : Limited(set[u]) /\ InUse(u)}
           count(n) == [u \in Users |-> IF u \in charged THEN Plus(n[u], e) ELSE n[u]]
           left(u) == Left(set[u], used'[u], at)
           out == {u \in Users : UsedUp(set[u], used'[u])}
           age == Older(d)
<1>0. /\ d \in Nat /\ same \in BOOLEAN /\ e \in Nat
      /\ at \in Minutes /\ set \in [Users -> Settings] /\ k \in (SUBSET Users) \cup {NoKey}
  BY Sizes DEF Given, TypeOK, Smaller
<1>c. ASSUME NEW n \in [Users -> 0..Top] PROVE count(n) \in [Users -> 0..Top]
  <2> HIDE DEF e, charged
  <2> QED BY <1>0, PlusType
<1>1. used' \in [Users -> 0..Top] /\ filed' \in [Users -> 0..Top]
  <2>1. used' = count(NewDay(used, same))
        /\ filed' \in {NewDay(filed, same), count(NewDay(filed, same))}
    BY DEF LookTo
  <2>2. NewDay(used, same) \in [Users -> 0..Top] /\ NewDay(filed, same) \in [Users -> 0..Top]
    BY <1>0, NewDayType DEF TypeOK
  <2> HIDE DEF count
  <2> QED BY <2>1, <2>2, <1>c
<1>2. /\ ended' \subseteq Users /\ locks' \subseteq Users /\ blocked' \subseteq Users
  <2>1. ended' \subseteq Users BY DEF LookTo
  <2>2. locks' \subseteq Users BY DEF LookTo
  <2>3. blocked' \subseteq Users BY DEF LookTo, TypeOK
  <2> QED BY <2>1, <2>2, <2>3
<1>3. sess' \in [Users -> SUBSET {"seen", "new"}]
  BY DEF LookTo
<1>4. locked' \in [Users -> Ages]
  <2>1. age \in [Users -> Ages] BY <1>0, OlderType
  <2>2. 0 \in Ages /\ None \in Ages BY Sizes DEF Ages, None
  <2> HIDE DEF age
  <2>3. \A u \in Users : locked'[u] \in {age[u], 0, None}
    BY DEF LookTo, NoLock, age
  <2>4. locked' = [u \in Users |-> locked'[u]]
    BY DEF LookTo
  <2> QED BY <2>1, <2>2, <2>3, <2>4
<1>5. warned' \in [Users -> SUBSET WarnAt]
  <2>1. ASSUME NEW u \in Users PROVE Warn(u, left(u)) \subseteq WarnAt
    BY DEF Warn, StillGiven, Largest, TypeOK
  <2>2. \A u \in Users : warned'[u] \in {warned[u], Warn(u, left(u)), {}}
    BY DEF LookTo
  <2>3. warned' = [u \in Users |-> warned'[u]]
    BY DEF LookTo
  <2> HIDE DEF left
  <2> QED BY <2>1, <2>2, <2>3 DEF TypeOK
<1>6. key' \in (SUBSET Users) \cup {NoKey}
  <2>1. key' \in {out, k} BY DEF LookTo, ConfKey
  <2> QED BY <2>1, <1>0
<1>7. conf' \in [Users -> SUBSET Minutes]
  <2>1. conf' \in {conf, Rendered(set, out)} BY DEF LookTo
  <2>2. Rendered(set, out) \in [Users -> SUBSET Minutes]
    BY <1>0, Sizes DEF Rendered
  <2> QED BY <2>1, <2>2 DEF TypeOK
<1>8. late' \in [Users -> None..(Grace + 2)]
  <2>1. ASSUME NEW u \in Users
        PROVE Smaller(late[u] + d, Grace + 2) \in None..(Grace + 2)
    <3>1. late[u] \in None..(Grace + 2) BY DEF TypeOK
    <3> QED BY <3>1, <1>0, Sizes DEF Smaller, None
  <2>2. \A u \in Users : late'[u] \in {None, 0, Smaller(late[u] + d, Grace + 2)}
    BY DEF LookTo
  <2>3. late' = [u \in Users |-> late'[u]]
    BY DEF LookTo
  <2>4. 0 \in None..(Grace + 2) /\ None \in None..(Grace + 2)
    BY Sizes DEF None
  <2> QED BY <2>1, <2>2, <2>3, <2>4
<1>9. okay' \in Flags /\ stay' \in Flags
  <2>1. okay' \in Flags BY DEF LookTo, TypeOK, Flags
  <2>2. stay' \in Flags BY DEF LookTo, Flags
  <2> QED BY <2>1, <2>2
<1>10. heard' \in [Users -> {"never", "warned", "before"}]
  BY DEF LookTo, TypeOK
<1>11. spent' \in [Users -> 0..Top]
  <2>1. \A u \in Users : spent[u] \in 0..Top BY DEF TypeOK
  <2>2. \A u \in Users : \E b \in 0..1 :
          spent'[u] = Smaller((IF same THEN spent[u] ELSE 0) + b, Top)
    BY DEF LookTo
  <2>3. spent' = [u \in Users |-> spent'[u]]
    BY DEF LookTo
  <2>4. ASSUME NEW u \in Users PROVE spent'[u] \in 0..Top
    <3>1. PICK b \in 0..1 : spent'[u] = Smaller((IF same THEN spent[u] ELSE 0) + b, Top)
      BY <2>2
    <3>2. (IF same THEN spent[u] ELSE 0) \in 0..Top
      BY <2>1, Sizes
    <3> QED BY <3>1, <3>2, Sizes DEF Smaller
  <2> QED BY <2>3, <2>4
<1>12. settings' = set /\ now' = at /\ since' = 0 /\ started' = TRUE
  BY DEF LookTo
<1>14. written' \in BOOLEAN /\ fresh' \in BOOLEAN
  <2>1. written' = written \/ written' = TRUE \/ written' = FALSE
    BY ZenonT(30) DEF LookTo
  <2>2. fresh' = TRUE \/ fresh' = FALSE
    BY ZenonT(30) DEF LookTo
  <2>3. written \in BOOLEAN
    BY Zenon DEF TypeOK
  <2> QED BY <2>1, <2>2, <2>3, Zenon
<1>13. 0 \in 0..MaxCharge
  BY Sizes
<1> QED BY <1>0, <1>1, <1>2, <1>3, <1>4, <1>5, <1>6, <1>7, <1>8, <1>9, <1>10, <1>11,
           <1>12, <1>13, <1>14 DEF TypeOK

(* So does a tick that gets none. *)
LEMMA TypeBlind ==
  ASSUME TypeOK, NEW at, NEW same, NEW set, NEW k, NEW d, NEW slack,
         Given(at, same, set, k, d, slack), Blind(at, same, set, k, d),
         faults' \in 0..MaxFaults, idle' \in Flags
  PROVE  TypeOK'
<1>0. d \in Nat /\ 0 \in 0..MaxCharge /\ None \in None..(Grace + 2)
  BY Sizes DEF Given, None
<1>1. locked' \in [Users -> Ages]
  BY <1>0, OlderType DEF Blind
<1>2. /\ used' \in [Users -> 0..Top] /\ filed' \in [Users -> 0..Top]
      /\ spent' \in [Users -> 0..Top]
  BY NewDayType DEF Blind, Given, TypeOK
<1>3. late' \in [Users -> None..(Grace + 2)] /\ stay' \in Flags
  BY <1>0 DEF Blind, Flags
<1> QED BY <1>0, <1>1, <1>2, <1>3 DEF Blind, Given, TypeOK

(* What a tick is, whichever step makes it: one of the two, made with times   *)
(* and settings there are.                                                    *)
Ticked(at, same, set, k, d, slack) ==
  /\ Given(at, same, set, k, d, slack)
  /\ faults' \in 0..MaxFaults /\ idle' \in Flags
  /\ (d = 0 \/ set = settings) /\ ((k = key /\ set = settings) \/ k = NoKey)
  /\ (d = 0 /\ at = now) \/ (d = 1 /\ at = (now + 1) % Day)
  /\ \/ Blind(at, same, set, k, d)
     \/ \E how : \E stop \in 0..(N + 1) : LookTo(stop, at, same, set, k, d, slack, how)

(* Every tick is such a step.                                                 *)
LEMMA Ticks ==
  ASSUME TypeOK, Start \/ Minute \/ Change
  PROVE  \E at, same, set, k, d, slack : Ticked(at, same, set, k, d, slack)
<1>t. ASSUME NEW at, NEW same, NEW set, NEW k, NEW d, NEW slack,
             Tick(at, same, set, k, d, slack)
      PROVE  /\ faults' \in 0..MaxFaults
             /\ \/ Blind(at, same, set, k, d)
                \/ \E how : \E stop \in 0..(N + 1) : LookTo(stop, at, same, set, k, d, slack, how)
  <2>1. faults \in 0..MaxFaults BY DEF TypeOK
  <2>2. faults' \in 0..MaxFaults BY <1>t, <2>1, Sizes DEF Tick
  <2>3. Blind(at, same, set, k, d) \/ \E how : Look(at, same, set, k, d, slack, how)
    BY <1>t DEF Tick
  <2>4. ASSUME NEW how, Look(at, same, set, k, d, slack, how)
        PROVE  \E h : \E stop \in 0..(N + 1) : LookTo(stop, at, same, set, k, d, slack, h)
    BY <2>4 DEF Look
  <2> QED BY <2>2, <2>3, <2>4, Zenon
<1>0. idle \in Flags /\ now \in Minutes /\ settings \in [Users -> Settings]
      /\ key \in (SUBSET Users) \cup {NoKey}
  BY DEF TypeOK
<1>1. CASE Start
  <2>1. Tick(now, TRUE, settings, key, 0, 0) /\ idle' = idle
    BY <1>1 DEF Start
  <2>2. Given(now, TRUE, settings, key, 0, 0)
    BY <1>0 DEF Given
  <2>9. Ticked(now, TRUE, settings, key, 0, 0)
    BY <2>1, <2>2, <1>t, <1>0 DEF Ticked
  <2> QED BY <2>9, Zenon
<1>2. CASE Minute
  <2>1. PICK slack \in 0..1 : Tick((now + 1) % Day, now + 1 < Day, settings, key, 1, slack)
    BY <1>2 DEF Minute
  <2>4. (now + 1) % Day \in Minutes
    BY <1>0, Sizes DEF Minutes
  <2>5. (now + 1 < Day) \in BOOLEAN /\ 1 \in 0..1 /\ slack \in 0..1
    OBVIOUS
  <2>2. Given((now + 1) % Day, now + 1 < Day, settings, key, 1, slack)
    BY <1>0, <2>4, <2>5 DEF Given
  <2>3. idle' = idle
    BY <1>2 DEF Minute
  <2>9. Ticked((now + 1) % Day, now + 1 < Day, settings, key, 1, slack)
    BY <2>1, <2>2, <2>3, <1>t, <1>0 DEF Ticked
  <2> QED BY <2>9, Zenon
<1>3. CASE Change
  <2>1. PICK u \in Users, s \in Settings :
          Tick(now, TRUE, [settings EXCEPT ![u] = s], NoKey, 0, 0)
    BY <1>3 DEF Change
  <2>2. Given(now, TRUE, [settings EXCEPT ![u] = s], NoKey, 0, 0)
    BY <1>0 DEF Given
  <2>3. idle' = idle
    BY <1>3 DEF Change
  <2>9. Ticked(now, TRUE, [settings EXCEPT ![u] = s], NoKey, 0, 0)
    BY <2>1, <2>2, <2>3, <1>t, <1>0 DEF Ticked
  <2> QED BY <2>9, Zenon
<1> QED BY <1>1, <1>2, <1>3, Zenon

(* Everything else keeps the types as well. *)
LEMMA TypeNext == TypeOK /\ [Next]_vars => TypeOK'
<1> SUFFICES ASSUME TypeOK, [Next]_vars PROVE TypeOK'
  OBVIOUS
<1>1. CASE Start \/ Minute \/ Change
  <2>p. PICK at, same, set, k, d, slack : Ticked(at, same, set, k, d, slack)
    BY <1>1, Ticks, Zenon
  <2>1. /\ Given(at, same, set, k, d, slack)
        /\ faults' \in 0..MaxFaults /\ idle' \in Flags
        /\ \/ Blind(at, same, set, k, d)
           \/ \E how : \E stop \in 0..(N + 1) : LookTo(stop, at, same, set, k, d, slack, how)
    BY <2>p DEF Ticked
  <2>2. CASE Blind(at, same, set, k, d)
    BY <2>1, <2>2, TypeBlind, Zenon
  <2>3. ASSUME NEW how, NEW stop \in 0..(N + 1),
               LookTo(stop, at, same, set, k, d, slack, how)
        PROVE  TypeOK'
    BY <2>1, <2>3, TypeLook, Zenon
  <2> QED BY <2>1, <2>2, <2>3, Zenon
<1>2. CASE Sleep
  <2>1. PICK d \in 1..MaxSleep :
          /\ now' = (now + d) % Day /\ since' = Smaller(since + d, MaxCharge)
          /\ locked' = Older(d)
          /\ used' = NewDay(used, now + d < Day) /\ filed' = NewDay(filed, now + d < Day)
          /\ spent' = NewDay(spent, now + d < Day)
          /\ ended' = {} /\ locks' = {} /\ fresh' = FALSE
          /\ stay' = [u \in Users |-> FALSE]
          /\ UNCHANGED <<started, settings, sess, idle, warned, blocked, key, conf, faults,
                         late, okay, heard, written>>
    BY <1>2 DEF Sleep
  <2>2. d \in Nat /\ now \in Minutes /\ since \in 0..MaxCharge
    BY Sizes DEF TypeOK
  <2>3. now' \in Minutes /\ since' \in 0..MaxCharge
    BY <2>1, <2>2, Sizes DEF Minutes, Smaller
  <2>4. (now + d < Day) \in BOOLEAN
    OBVIOUS
  <2>5. /\ used' \in [Users -> 0..Top] /\ filed' \in [Users -> 0..Top]
        /\ spent' \in [Users -> 0..Top]
    BY <2>1, <2>4, NewDayType DEF TypeOK
  <2>6. locked' \in [Users -> Ages] /\ stay' \in Flags
    BY <2>1, <2>2, OlderType DEF Flags
  <2> QED BY <2>1, <2>3, <2>5, <2>6 DEF TypeOK
<1>3. CASE SignIn
  BY <1>3 DEF SignIn, Quiet, clock, keeper, TypeOK, Flags
<1>4. CASE SignOut
  <2>1. PICK u \in Users, s \in {"seen", "new"} :
          /\ sess' = [sess EXCEPT ![u] = @ \ {s}]
          /\ late' = [late EXCEPT ![u] = IF sess'[u] = {} THEN None ELSE @]
          /\ stay' = [stay EXCEPT ![u] = @ /\ sess'[u] # {}]
          /\ Quiet /\ UNCHANGED <<idle, faults, fresh>>
    BY <1>4 DEF SignOut
  <2>2. None \in None..(Grace + 2)
    BY Sizes DEF None
  <2>3. sess' \in [Users -> SUBSET {"seen", "new"}] /\ late' \in [Users -> None..(Grace + 2)]
    BY <2>1, <2>2 DEF TypeOK
  <2>4. stay' \in Flags
    BY <2>1 DEF TypeOK, Flags
  <2> QED BY <2>1, <2>3, <2>4 DEF Quiet, clock, keeper, TypeOK
<1>5. CASE GoIdle
  BY <1>5 DEF GoIdle, Quiet, clock, keeper, TypeOK, Flags
<1>6. CASE Restart
  <2>1. None \in Ages /\ None \in None..(Grace + 2) /\ 0 \in 0..MaxCharge
    BY Sizes DEF None, Ages
  <2>2. faults' \in 0..MaxFaults
    BY <1>6, Sizes DEF Restart, TypeOK
  <2>3. /\ sess' \in [Users -> SUBSET {"seen", "new"}] /\ stay' \in Flags
        /\ warned' \in [Users -> SUBSET WarnAt]
    BY <1>6 DEF Restart, Flags
  <2>4. locked' \in [Users -> Ages] /\ late' \in [Users -> None..(Grace + 2)]
    BY <1>6, <2>1 DEF Restart
  <2>5. /\ blocked' \subseteq Users /\ ended' \subseteq Users /\ locks' \subseteq Users
        /\ key' \in (SUBSET Users) \cup {NoKey} /\ used' \in [Users -> 0..Top]
        /\ since' \in 0..MaxCharge
    BY <1>6, <2>1 DEF Restart, Reloaded, TypeOK
  <2> QED BY <1>6, <2>2, <2>3, <2>4, <2>5 DEF Restart, TypeOK
<1>7. CASE UNCHANGED vars
  BY <1>7 DEF vars, TypeOK
<1> QED BY <1>1, <1>2, <1>3, <1>4, <1>5, <1>6, <1>7 DEF Next

(* Times, counts, locks and time.conf are what they are declared to be,        *)
(* whatever timelimits.tick meets.                                           *)
THEOREM TypeCorrect == Spec => []TypeOK
  BY TypeInit, TypeNext, PTL DEF Spec

-------------------------------------------------------------------------------
(* An account let stay beyond its time is locked, as long as it was let stay at *)
(* least; one found allowed is not locked; what is counted covers the use.      *)
Staying == \A u \in Users : late[u] # None =>
             locked[u] # None /\ late[u] <= locked[u] /\ late[u] <= Grace
Allowed == \A u \in Users : okay[u] => locked[u] = None
Covered == \A u \in Users : used[u] >= spent[u] /\ filed[u] >= spent[u]

(* time.conf is what its key says, and after a whole tick its key is up to date. *)
OutNow == {u \in Users : UsedUp(settings[u], used[u])}
Keyed == /\ written /\ key # NoKey => conf = Rendered(settings, key)
         /\ fresh => key = OutNow

TimeInv == Staying /\ Allowed /\ Covered /\ Keyed

(* An account that is locked stays so as time goes by, with a greater age. *)
LEMMA OlderLock ==
  ASSUME TypeOK, NEW d \in Nat, NEW u \in Users
  PROVE  /\ locked[u] = None => Older(d)[u] = None
         /\ locked[u] # None =>
              /\ locked[u] \in 0..(Grace + 1)
              /\ Older(d)[u] = Smaller(locked[u] + d, Grace + 1) /\ Older(d)[u] # None
<1>1. locked[u] \in None..(Grace + 1)
  BY DEF TypeOK, Ages
<1>2. Older(d)[u] = IF locked[u] = None THEN None ELSE Smaller(locked[u] + d, Grace + 1)
  BY DEF Older
<1> QED BY <1>1, <1>2, Sizes DEF None, Smaller

(* A tick lets stay only whom it has locked for no longer than the grace. *)
LEMMA StayLook ==
  ASSUME TypeOK, Staying, NEW at, NEW same, NEW set, NEW k, NEW d \in 0..1,
         NEW slack \in 0..1, NEW how, NEW stop \in 0..(N + 1),
         LookTo(stop, at, same, set, k, d, slack, how)
  PROVE  Staying'
<1> DEFINE age == Older(d)
<1> SUFFICES ASSUME NEW u \in Users, late'[u] # None
             PROVE  locked'[u] # None /\ late'[u] <= locked'[u] /\ late'[u] <= Grace
  BY DEF Staying
<1> DEFINE e == IF started THEN Smaller(since + d, MaxCharge) ELSE 0
           charged == {v \in 1..Smaller(stop, N) : Limited(set[v]) /\ InUse(v)}
           n == [v \in Users |-> IF v \in charged THEN Plus(NewDay(used, same)[v], e)
                                 ELSE NewDay(used, same)[v]]
           shut == {v \in Users : Blocked(set[v], n[v], at)}
           over == {v \in shut : sess[v] # {} /\ (Arrived(v) \/ (age[v] # None /\ HadGrace(age[v] - slack)))}
           lock == {v \in shut : sess[v] # {} /\ ~Arrived(v) /\ locked[v] = None}
<1>1. /\ late' = [v \in Users |->
           IF how = "end" \/ v >= stop \/ v \notin shut \/ sess'[v] = {} THEN None
           ELSE IF late[v] = None THEN 0 ELSE Smaller(late[v] + d, Grace + 2)]
      /\ sess' = [v \in Users |-> IF v \in ended' \/ sess[v] = {} THEN {} ELSE {"seen"}]
      /\ ended' = IF how = "end" THEN {} ELSE {v \in over : v < stop}
      /\ locked' = [v \in Users |->
           IF v >= stop THEN age[v]
           ELSE IF v \in lock THEN 0
           ELSE IF v \in shut /\ sess[v] # {} THEN age[v] ELSE NoLock(v)]
  BY DEF LookTo
<1> HIDE DEF e, charged, n, age
<1>2. how # "end" /\ ~(u >= stop) /\ u \in shut /\ sess'[u] # {}
  BY <1>1
<1>3. u \notin ended' /\ sess[u] # {}
  BY <1>1, <1>2
<1>4. u < stop
  BY <1>2, Sizes
<1>5. ~Arrived(u) /\ (age[u] = None \/ ~HadGrace(age[u] - slack))
  BY <1>1, <1>2, <1>3, <1>4
<1>6. late'[u] = IF late[u] = None THEN 0 ELSE Smaller(late[u] + d, Grace + 2)
  BY <1>1, <1>2
<1>7. late[u] \in None..(Grace + 2) /\ d \in Nat
  BY DEF TypeOK
<1>8. CASE locked[u] = None
  <2>1. u \in lock
    BY <1>2, <1>3, <1>5, <1>8
  <2>2. locked'[u] = 0 /\ late[u] = None
    BY <1>1, <1>2, <1>8, <2>1 DEF Staying
  <2> QED BY <2>2, <1>6, Sizes DEF None
<1>9. CASE locked[u] # None
  <2>1. locked'[u] = age[u]
    BY <1>1, <1>2, <1>3, <1>9
  <2>2. /\ locked[u] \in 0..(Grace + 1) /\ age[u] # None
        /\ age[u] = Smaller(locked[u] + d, Grace + 1)
    BY <1>7, <1>9, OlderLock DEF age
  <2>3. ~(age[u] - slack >= Grace)
    BY <1>5, <2>2 DEF HadGrace
  <2>4. age[u] = locked[u] + d /\ age[u] <= Grace
    BY <2>2, <2>3, <1>7, Sizes DEF Smaller
  <2>5. CASE late[u] = None
    BY <1>6, <2>1, <2>2, <2>4, <2>5, <1>7, Sizes DEF None
  <2>6. CASE late[u] # None
    <3>1. late[u] <= locked[u]
      BY <2>6 DEF Staying
    <3>2. late'[u] = late[u] + d
      BY <1>6, <1>7, <2>2, <2>4, <2>6, <3>1, Sizes DEF Smaller, None
    <3>3. late[u] \in Int
      BY <1>7, Sizes DEF None
    <3>4. late'[u] <= age[u]
      BY <2>2, <2>4, <3>1, <3>2, <3>3, <1>7, Sizes
    <3>5. late'[u] <= Grace
      BY <2>2, <2>4, <3>1, <3>2, <3>3, <1>7, Sizes
    <3> QED BY <2>1, <2>2, <3>4, <3>5
  <2> QED BY <2>5, <2>6
<1> QED BY <1>8, <1>9

(* A tick that allows an account leaves it unlocked. *)
LEMMA AllowLook ==
  ASSUME TypeOK, Allowed, NEW at, NEW same, NEW set, NEW k, NEW d \in 0..1,
         NEW slack, NEW how, NEW stop \in 0..(N + 1),
         LookTo(stop, at, same, set, k, d, slack, how)
  PROVE  Allowed'
<1> SUFFICES ASSUME NEW u \in Users, okay'[u] PROVE locked'[u] = None
  BY DEF Allowed
<1> DEFINE age == Older(d)
<1>1. PICK shut, lock :
        /\ lock \subseteq shut
        /\ okay' = [v \in Users |-> IF v < stop THEN v \notin shut ELSE okay[v]]
        /\ locked' = [v \in Users |->
             IF v >= stop THEN age[v]
             ELSE IF v \in lock THEN 0
             ELSE IF v \in shut /\ sess[v] # {} THEN age[v] ELSE NoLock(v)]
  BY DEF LookTo
<1>2. CASE u < stop
  <2>1. ~(u >= stop)
    BY <1>2, Sizes
  <2>2. okay'[u] = (u \notin shut)
    BY <1>1, <1>2
  <2>3. u \notin shut /\ u \notin lock
    BY <2>2, <1>1
  <2> QED BY <1>1, <2>1, <2>3 DEF NoLock
<1>3. CASE ~(u < stop)
  <2>1. u >= stop
    BY <1>3, Sizes
  <2>2. okay[u]
    BY <1>1, <1>3
  <2>3. locked[u] = None
    BY <2>2 DEF Allowed
  <2>4. age[u] = None
    BY <2>3, OlderLock
  <2> QED BY <1>1, <2>1, <2>4
<1> QED BY <1>2, <1>3

(* A tick counts the use it saw, in memory and in the file. *)
LEMMA CoverLook ==
  ASSUME TypeOK, Covered, NEW at, NEW same \in BOOLEAN, NEW set, NEW k, NEW d \in 0..1,
         NEW slack, NEW how, NEW stop \in 0..(N + 1),
         LookTo(stop, at, same, set, k, d, slack, how)
  PROVE  Covered'
<1> SUFFICES ASSUME NEW u \in Users PROVE used'[u] >= spent'[u] /\ filed'[u] >= spent'[u]
  BY DEF Covered
<1> DEFINE e == IF started THEN Smaller(since + d, MaxCharge) ELSE 0
           charged == {v \in 1..Smaller(stop, N) : Limited(set[v]) /\ InUse(v)}
           count(n) == [v \in Users |-> IF v \in charged THEN Plus(n[v], e) ELSE n[v]]
<1>1. /\ used' = count(NewDay(used, same))
      /\ filed' = IF how = "usage" THEN NewDay(filed, same) ELSE count(NewDay(filed, same))
      /\ spent' = [v \in Users |->
           Smaller((IF same THEN spent[v] ELSE 0)
                     + (IF how # "usage" /\ v \in charged /\ e > 0 THEN 1 ELSE 0), Top)]
  BY DEF LookTo
<1>2. e \in Nat
  BY Sizes DEF TypeOK, Smaller
<1> HIDE DEF e, charged
<1> DEFINE a == NewDay(used, same)[u]
           b == NewDay(filed, same)[u]
           c == IF same THEN spent[u] ELSE 0
<1>3. used[u] \in 0..Top /\ filed[u] \in 0..Top /\ spent[u] \in 0..Top
  BY DEF TypeOK
<1>4. a = (IF same THEN used[u] ELSE 0) /\ b = (IF same THEN filed[u] ELSE 0)
  BY DEF NewDay
<1>5. a \in 0..Top /\ b \in 0..Top /\ c \in 0..Top /\ a >= c /\ b >= c
  BY <1>3, <1>4, Sizes DEF Covered
<1> HIDE DEF a, b, c
<1>6. spent'[u] = Smaller(c + (IF how # "usage" /\ u \in charged /\ e > 0 THEN 1 ELSE 0), Top)
  BY <1>1 DEF c
<1>7. used'[u] = IF u \in charged THEN Plus(a, e) ELSE a
  BY <1>1 DEF a
<1>8. filed'[u] = IF how # "usage" /\ u \in charged THEN Plus(b, e) ELSE b
  BY <1>1 DEF b, NewDay
<1>9. CASE how # "usage" /\ u \in charged /\ e > 0
  <2>1. spent'[u] = Smaller(c + 1, Top) /\ used'[u] = Smaller(a + e, Top)
        /\ filed'[u] = Smaller(b + e, Top)
    BY <1>6, <1>7, <1>8, <1>9 DEF Plus
  <2>2. e >= 1
    BY <1>2, <1>9
  <2> QED BY <2>1, <2>2, <1>2, <1>5, Sizes DEF Smaller
<1>10. CASE ~(how # "usage" /\ u \in charged /\ e > 0)
  <2>1. spent'[u] = Smaller(c, Top)
    BY <1>6, <1>10, <1>5
  <2>2. used'[u] \in {Smaller(a + e, Top), a} /\ filed'[u] \in {Smaller(b + e, Top), b}
    BY <1>7, <1>8 DEF Plus
  <2> QED BY <2>1, <2>2, <1>2, <1>5, Sizes DEF Smaller
<1> QED BY <1>9, <1>10

(* A tick leaves time.conf as its key says, and a whole one its key up to date. *)
LEMMA KeyLook ==
  ASSUME TypeOK, Keyed, NEW at, NEW same, NEW set, NEW k, NEW d,
         NEW slack, NEW how, NEW stop,
         (k = key /\ set = settings) \/ k = NoKey,
         LookTo(stop, at, same, set, k, d, slack, how)
  PROVE  Keyed'
<1> DEFINE out == {u \in Users : UsedUp(set[u], used'[u])}
           done == how # "lock"
<1>1. /\ key' = IF done THEN out ELSE k
      /\ conf' = IF done /\ key' # k /\ how # "conf" THEN Rendered(set, out) ELSE conf
      /\ written' = IF done /\ key' # k THEN how # "conf" ELSE written
      /\ fresh' = done /\ settings' = set
  BY DEF LookTo, ConfKey
<1>2. fresh' => key' = OutNow'
  BY <1>1 DEF OutNow
<1>3. out # NoKey
  BY Sizes
<1> HIDE DEF out
<1>4. ASSUME written', key' # NoKey PROVE conf' = Rendered(settings', key')
  <2>1. CASE done /\ key' # k
    <3>1. key' = out /\ how # "conf"
      BY <1>1, <1>4, <2>1
    <3> QED BY <1>1, <2>1, <3>1
  <2>2. CASE ~(done /\ key' # k)
    <3>1. key' = k /\ written' = written /\ conf' = conf
      BY <1>1, <2>2
    <3>2. k = key /\ set = settings /\ written
      BY <3>1, <1>4
    <3>3. conf = Rendered(settings, key)
      BY <3>1, <3>2, <1>4 DEF Keyed
    <3> QED BY <1>1, <3>1, <3>2, <3>3
  <2> QED BY <2>1, <2>2
<1> QED BY <1>2, <1>4 DEF Keyed

(* A tick without an answer, and a machine asleep, only grow older. *)
LEMMA InvOlder ==
  ASSUME TypeOK, TimeInv, NEW d \in Nat, NEW same \in BOOLEAN,
         used' = NewDay(used, same), filed' = NewDay(filed, same),
         spent' = NewDay(spent, same), locked' = Older(d), fresh' = FALSE,
         late' \in {late, [u \in Users |-> None]},
         (key' = key /\ settings' = settings) \/ key' = NoKey,
         UNCHANGED <<conf, okay, written>>
  PROVE  TimeInv'
<1>1. Staying'
  <2> SUFFICES ASSUME NEW u \in Users, late'[u] # None
               PROVE  locked'[u] # None /\ late'[u] <= locked'[u] /\ late'[u] <= Grace
    BY DEF Staying
  <2>1. late'[u] = late[u]
    OBVIOUS
  <2>2. locked[u] # None /\ late[u] <= locked[u] /\ late[u] <= Grace
    BY <2>1 DEF TimeInv, Staying
  <2>3. /\ locked[u] \in 0..(Grace + 1) /\ locked'[u] # None
        /\ locked'[u] = Smaller(locked[u] + d, Grace + 1)
    BY <2>2, OlderLock
  <2>4. late[u] \in None..(Grace + 2)
    BY DEF TypeOK
  <2>5. late[u] <= locked'[u]
    BY <2>2, <2>3, <2>4, Sizes DEF Smaller, None
  <2> QED BY <2>1, <2>2, <2>3, <2>5
<1>2. Allowed'
  BY OlderLock DEF TimeInv, Allowed
<1>3. Covered'
  BY Sizes DEF TimeInv, Covered, NewDay
<1>4. Keyed'
  <2>1. fresh' => key' = OutNow'
    OBVIOUS
  <2>2. written' /\ key' # NoKey => conf' = Rendered(settings', key')
    BY DEF TimeInv, Keyed
  <2> QED BY <2>1, <2>2 DEF Keyed
<1> QED BY <1>1, <1>2, <1>3, <1>4 DEF TimeInv

(* What people do at the keyboard changes nothing of it. *)
LEMMA InvQuiet ==
  ASSUME TimeInv, Quiet, UNCHANGED fresh, \A u \in Users : late'[u] \in {late[u], None}
  PROVE  TimeInv'
<1>1. Staying'
  BY DEF TimeInv, Staying, Quiet, keeper
<1>2. Allowed' /\ Covered'
  BY DEF TimeInv, Allowed, Covered, Quiet, keeper
<1>3. Keyed'
  BY DEF TimeInv, Keyed, OutNow, Quiet, keeper
<1> QED BY <1>1, <1>2, <1>3 DEF TimeInv

(* Every step keeps the invariant. *)
LEMMA InvNext == TypeOK /\ TimeInv /\ [Next]_vars => TimeInv'
<1> SUFFICES ASSUME TypeOK, TimeInv, [Next]_vars PROVE TimeInv'
  OBVIOUS
<1>1. CASE Start \/ Minute \/ Change
  <2>p. PICK at, same, set, k, d, slack : Ticked(at, same, set, k, d, slack)
    BY <1>1, Ticks, Zenon
  <2>1. /\ Given(at, same, set, k, d, slack)
        /\ (d = 0 \/ set = settings) /\ ((k = key /\ set = settings) \/ k = NoKey)
        /\ \/ Blind(at, same, set, k, d)
           \/ \E how : \E stop \in 0..(N + 1) : LookTo(stop, at, same, set, k, d, slack, how)
    BY <2>p DEF Ticked
  <2>2. d \in 0..1 /\ d \in Nat /\ slack \in 0..1 /\ same \in BOOLEAN
    BY <2>1 DEF Given
  <2>3. (k = key /\ set = settings) \/ k = NoKey
    BY <2>1, Zenon
  <2>4. CASE Blind(at, same, set, k, d)
    <3>1. /\ used' = NewDay(used, same) /\ filed' = NewDay(filed, same)
          /\ spent' = NewDay(spent, same) /\ locked' = Older(d) /\ fresh' = FALSE
          /\ late' = [u \in Users |-> None] /\ UNCHANGED <<conf, okay, written>>
      BY <2>4 DEF Blind
    <3>2. (key' = key /\ settings' = settings) \/ key' = NoKey
      BY <2>3, <2>4 DEF Blind
    <3> QED BY <2>2, <3>1, <3>2, InvOlder
  <2>5. ASSUME NEW how, NEW stop \in 0..(N + 1),
               LookTo(stop, at, same, set, k, d, slack, how)
        PROVE  TimeInv'
    <3>1. Staying'
      BY <2>2, <2>5, StayLook DEF TimeInv
    <3>2. Allowed'
      BY <2>2, <2>5, AllowLook DEF TimeInv
    <3>3. Covered'
      BY <2>2, <2>5, CoverLook DEF TimeInv
    <3>4. Keyed'
      BY <2>3, <2>5, KeyLook DEF TimeInv
    <3> QED BY <3>1, <3>2, <3>3, <3>4 DEF TimeInv
  <2> QED BY <2>1, <2>4, <2>5, Zenon
<1>2. CASE Sleep
  <2>1. PICK d \in 1..MaxSleep :
          /\ locked' = Older(d)
          /\ used' = NewDay(used, now + d < Day) /\ filed' = NewDay(filed, now + d < Day)
          /\ spent' = NewDay(spent, now + d < Day) /\ fresh' = FALSE
          /\ UNCHANGED <<settings, key, conf, late, okay, written>>
    BY <1>2 DEF Sleep
  <2>2. d \in Nat /\ (now + d < Day) \in BOOLEAN
    BY Sizes
  <2> QED BY <2>1, <2>2, InvOlder
<1>3. CASE SignIn
  <2>1. Quiet /\ UNCHANGED fresh /\ late' = late
    BY <1>3 DEF SignIn
  <2> QED BY <2>1, InvQuiet
<1>4. CASE SignOut
  <2>1. PICK u \in Users :
          /\ late' = [late EXCEPT ![u] = IF sess'[u] = {} THEN None ELSE @]
          /\ Quiet /\ UNCHANGED fresh
    BY <1>4 DEF SignOut
  <2>2. \A v \in Users : late'[v] \in {late[v], None}
    BY <2>1 DEF TypeOK
  <2> QED BY <2>1, <2>2, InvQuiet
<1>5. CASE GoIdle
  <2>1. Quiet /\ UNCHANGED fresh /\ late' = late
    BY <1>5 DEF GoIdle
  <2> QED BY <2>1, InvQuiet
<1>6. CASE Restart
  <2>1. Staying' /\ Allowed'
    BY <1>6 DEF Restart, Staying, Allowed
  <2>2. Covered'
    BY <1>6 DEF Restart, Reloaded, TimeInv, Covered
  <2>3. Keyed'
    BY <1>6 DEF Restart, Keyed
  <2> QED BY <2>1, <2>2, <2>3 DEF TimeInv
<1>7. CASE UNCHANGED vars
  BY <1>7 DEF vars, TimeInv, Staying, Allowed, Covered, Keyed, OutNow
<1> QED BY <1>1, <1>2, <1>3, <1>4, <1>5, <1>6, <1>7 DEF Next

(* It holds at the start. *)
LEMMA InvInit == Init => TimeInv
<1> SUFFICES ASSUME Init PROVE TimeInv
  OBVIOUS
<1>1. Staying /\ Allowed
  BY DEF Init, Staying, Allowed
<1>2. Covered
  BY DEF Init, Covered
<1>3. Keyed
  BY DEF Init, Keyed
<1> QED BY <1>1, <1>2, <1>3 DEF TimeInv

(* So it always holds. *)
LEMMA Always == Spec => [](TypeOK /\ TimeInv)
<1>1. Init => TypeOK /\ TimeInv
  BY TypeInit, InvInit
<1>2. TypeOK /\ TimeInv /\ [Next]_vars => (TypeOK /\ TimeInv)'
  BY TypeNext, InvNext
<1> QED BY <1>1, <1>2, PTL DEF Spec

(* Whatever fails, as long as ticks are completed: nobody stays signed in      *)
(* longer than the grace and a tick after its time is up (_enforce).          *)
THEOREM NobodyStays == Spec => []SignedOutInTime
<1>1. TypeOK /\ TimeInv => SignedOutInTime
  <2> SUFFICES ASSUME TypeOK, TimeInv, NEW u \in Users PROVE late[u] <= Grace
    BY DEF SignedOutInTime
  <2>1. late[u] # None => late[u] <= Grace
    BY DEF TimeInv, Staying
  <2> QED BY <2>1, Sizes DEF None
<1> QED BY <1>1, Always, PTL

(* Every minute of use the keeper saw is counted until the day ends, over      *)
(* restarts, sleep, changed settings and failures (_charge, UsageStore).        *)
THEOREM EveryMinuteCounts == Spec => []Counted
<1>1. TypeOK /\ TimeInv => Counted
  BY DEF TimeInv, Covered, Counted
<1> QED BY <1>1, Always, PTL

(* After a whole tick pam_time lets in exactly the accounts the tick found      *)
(* allowed (write_time_conf), for any accounts and hours.                     *)
THEOREM GateFollows == Spec => []GateInStep
<1>1. TypeOK /\ TimeInv => GateInStep
  <2> SUFFICES ASSUME TypeOK, TimeInv, fresh, written, NEW u \in Users
               PROVE  now \in conf[u] <=> ~Blocked(settings[u], used[u], now)
    BY DEF GateInStep
  <2>1. key = OutNow
    BY DEF TimeInv, Keyed
  <2>2. key # NoKey
    BY <2>1, Sizes DEF OutNow
  <2>3. conf = Rendered(settings, OutNow)
    BY <2>1, <2>2 DEF TimeInv, Keyed
  <2>4. conf[u] = IF UsedUp(settings[u], used[u]) THEN {} ELSE settings[u].hours
    BY <2>3 DEF Rendered, OutNow
  <2> QED BY <2>4 DEF Blocked
<1> QED BY <1>1, Always, PTL

(* Nobody found allowed by the last tick is signed out by the next (_enforce). *)
THEOREM SignedOutOnlyAfterLock == Spec => NoSurprise
<1>1. TypeOK /\ TimeInv /\ [Next]_vars =>
        [\A u \in ended' : "seen" \in sess[u] => ~okay[u]]_vars
  <2> SUFFICES ASSUME TypeOK, TimeInv, Next, NEW u \in ended', "seen" \in sess[u], okay[u]
               PROVE  FALSE
    BY DEF vars
  <2>1. CASE Start \/ Minute \/ Change
    <3>p. PICK at, same, set, k, d, slack : Ticked(at, same, set, k, d, slack)
      BY <2>1, Ticks, Zenon
    <3>1. /\ Given(at, same, set, k, d, slack)
          /\ \/ Blind(at, same, set, k, d)
             \/ \E how : \E stop \in 0..(N + 1) :
                  LookTo(stop, at, same, set, k, d, slack, how)
      BY <3>p DEF Ticked
    <3>2. ~Blind(at, same, set, k, d)
      BY DEF Blind
    <3>3. ASSUME NEW how, NEW stop \in 0..(N + 1),
                 LookTo(stop, at, same, set, k, d, slack, how)
          PROVE  FALSE
      <4>1. u \in Users /\ (Arrived(u) \/ Older(d)[u] # None)
        BY <3>3 DEF LookTo
      <4>2. ~Arrived(u)
        BY DEF Arrived
      <4>3. locked[u] = None
        BY <4>1 DEF TimeInv, Allowed
      <4>4. d \in Nat
        BY <3>1 DEF Given
      <4> QED BY <4>1, <4>2, <4>3, <4>4, OlderLock
    <3> QED BY <3>1, <3>2, <3>3, Zenon
  <2>2. CASE Sleep \/ SignIn \/ SignOut \/ GoIdle \/ Restart
    BY <2>2 DEF Sleep, SignIn, SignOut, GoIdle, Restart, Quiet
  <2> QED BY <2>1, <2>2 DEF Next
<1> QED BY <1>1, Always, PTL DEF Spec, NoSurprise

(* Of the settings, the use and the minute: neither now nor a minute of use    *)
(* later is the account's time up.                                            *)
Ample(s, n, at) == /\ s.limit # 0 => n + 1 < s.limit
                   /\ at \in s.hours /\ (at + 1) % Day \in s.hours

(* A warning given is a warning heard; who stays and has heard none has time.  *)
Told == \A u \in Users :
  /\ warned[u] # {} => heard[u] # "never"
  /\ stay[u] => /\ since = 0
                /\ heard[u] = "never" => Ample(settings[u], used[u], now)

(* Finitely many numbers have a bound.                                        *)
LEMMA Bounded ==
  ASSUME NEW S \in SUBSET Nat, IsFiniteSet(S)
  PROVE  \E b \in Nat : \A x \in S : x <= b
<1>1. PICK n \in Nat : ExistsSurjection(1..n, S)
  BY FS_NatSurjection
<1>2. PICK f \in [1..n -> S] : \A x \in S : \E i \in 1..n : f[i] = x
  BY <1>1 DEF ExistsSurjection, Surjection
<1> DEFINE T == {m \in Nat : m <= n => \E b \in Nat : \A i \in 1..m : f[i] <= b}
<1>3. 0 \in T
  <2>1. \A i \in 1..0 : f[i] <= 0
    OBVIOUS
  <2> QED BY <2>1
<1>4. ASSUME NEW m \in Nat, m \in T PROVE m + 1 \in T
  <2> SUFFICES ASSUME m + 1 <= n PROVE \E b \in Nat : \A i \in 1..m + 1 : f[i] <= b
    OBVIOUS
  <2>1. PICK b \in Nat : \A i \in 1..m : f[i] <= b
    BY <1>4
  <2>2. \A i \in 1..n : f[i] \in Nat
    OBVIOUS
  <2>3. m + 1 \in 1..n /\ \A i \in 1..m : i \in 1..n
    OBVIOUS
  <2>4. \A i \in 1..m + 1 : i \in 1..m \/ i = m + 1
    OBVIOUS
  <2>5. b + f[m + 1] \in Nat /\ \A i \in 1..m + 1 : f[i] <= b + f[m + 1]
    BY <2>1, <2>2, <2>3, <2>4
  <2> QED BY <2>5
<1> HIDE DEF T
<1>5. n \in T
  BY <1>3, <1>4, EveryNumber
<1> USE DEF T
<1>6. PICK b \in Nat : \A i \in 1..n : f[i] <= b
  BY <1>5
<1> QED BY <1>2, <1>6

(* Of finitely many thresholds there is a largest (_maybe_warn).                *)
LEMMA LargestThere ==
  ASSUME NEW S \in SUBSET WarnAt, S # {}
  PROVE  Largest(S) # {}
<1>1. S \in SUBSET Nat /\ IsFiniteSet(S)
  BY WarnAssumption, FS_Subset
<1>2. PICK b \in Nat : \A x \in S : x <= b
  BY <1>1, Bounded
<1> DEFINE T == {m \in Nat : \E x \in S : m = b - x}
<1>3. T \in SUBSET Nat /\ T # {}
  <2>1. PICK x \in S : TRUE
    OBVIOUS
  <2>2. b - x \in Nat
    BY <1>1, <1>2
  <2> QED BY <2>2
<1> HIDE DEF T
<1>4. PICK m \in T : \A k \in T : m <= k
  BY <1>3, LeastNumber
<1> USE DEF T
<1>5. PICK a \in S : m = b - a
  BY <1>4
<1>6. ASSUME NEW x \in S PROVE a >= x
  <2>1. b - x \in T
    BY <1>1, <1>2
  <2>2. b - a <= b - x /\ a \in Nat /\ x \in Nat
    BY <1>1, <1>4, <1>5, <2>1
  <2> QED BY <2>2
<1> QED BY <1>6 DEF Largest

(* Nobody is left more than there is: a time up in a minute is left at most one. *)
LEMMA LeftAtMostOne ==
  ASSUME NEW s \in Settings, NEW n \in Nat, NEW at \in Minutes,
         ~Blocked(s, n, at), ~Ample(s, n, at)
  PROVE  Left(s, n, at) <= 1 /\ Left(s, n, at) \in Nat
<1> DEFINE S == {k \in 0..Day : \/ s.limit # 0 /\ k = s.limit - n
                                \/ (at + k) % Day \notin s.hours}
<1>1. s.limit \in Nat /\ Day \in Nat \ {0} /\ at \in Nat
  BY Sizes DEF Minutes
<1>2. 1 \in S
  <2>1. at \in s.hours /\ (s.limit # 0 => ~ n >= s.limit)
    BY DEF Blocked, UsedUp
  <2>2. CASE (at + 1) % Day \notin s.hours
    BY <1>1, <2>2
  <2>3. CASE s.limit # 0 /\ ~ n + 1 < s.limit
    <3>1. 1 = s.limit - n
      BY <1>1, <2>1, <2>3
    <3> QED BY <1>1, <2>3, <3>1
  <2> QED BY <2>1, <2>2, <2>3 DEF Ample
<1>3. \E a \in S : \A b \in S : a <= b
  <2>1. CASE 0 \in S
    BY <1>1, <2>1
  <2>2. CASE 0 \notin S
    <3>1. \A b \in S : 1 <= b
      BY <1>1, <2>2
    <3> QED BY <1>2, <3>1
  <2> QED BY <2>1, <2>2
<1>4. S \subseteq Nat
  BY <1>1
<1> HIDE DEF S
<1>5. Least(S) \in S /\ Least(S) <= 1
  BY <1>2, <1>3 DEF Least
<1>6. Left(s, n, at) = Least(S)
  BY DEF Left, S
<1> QED BY <1>4, <1>5, <1>6

(* Whom a tick warns of nothing has time, if it was never warned before.        *)
LEMMA UnwarnedHasTime ==
  ASSUME NEW u \in Users, warned[u] = {}, sess[u] # {}, NEW l \in Nat, Warn(u, l) \ warned[u] = {}
  PROVE  l > 1
<1> DEFINE due == {t \in WarnAt : l <= t} \ StillGiven(u, l)
<1>1. StillGiven(u, l) = {}
  BY DEF StillGiven
<1>2. due = {t \in WarnAt : l <= t}
  BY <1>1
<1>3. Largest(due) \subseteq Warn(u, l)
  BY DEF Warn
<1>4. Largest(due) = {}
  BY <1>3
<1>5. due = {}
  <2> HIDE DEF due
  <2>1. due \in SUBSET WarnAt
    BY DEF due
  <2> QED BY <1>4, <2>1, LargestThere
<1>6. PICK t \in WarnAt : t \in Nat \ {0}
  BY WarnAssumption
<1>7. ~ l <= t
  BY <1>2, <1>5
<1> QED BY <1>6, <1>7

(* Where a limit is set and the time is not up, what is left is a number.       *)
LEMMA LeftNumber ==
  ASSUME NEW s \in Settings, NEW n \in Nat, NEW at \in Minutes, Limited(s), ~Blocked(s, n, at)
  PROVE  Left(s, n, at) \in Nat
<1> DEFINE S == {k \in 0..Day : \/ s.limit # 0 /\ k = s.limit - n
                                \/ (at + k) % Day \notin s.hours}
<1>1. s.limit \in 0..Day /\ s.hours \subseteq Minutes /\ Day \in Nat \ {0} /\ at \in 0..(Day - 1)
  BY Sizes, SettingsAssumption DEF Minutes
<1>2. S # {}
  <2>1. CASE s.limit # 0
    <3>1. ~ n >= s.limit
      BY <2>1 DEF Blocked, UsedUp
    <3>2. s.limit - n \in 0..Day
      BY <1>1, <3>1
    <3> QED BY <2>1, <3>2
  <2>2. CASE s.limit = 0
    <3>1. s.hours # Minutes
      <4>1. s = [limit |-> s.limit, hours |-> s.hours]
        BY SettingsAssumption
      <4> QED BY <2>2, <4>1 DEF Limited, Free
    <3>2. PICK m \in 0..(Day - 1) : m \notin s.hours
      BY <1>1, <3>1 DEF Minutes
    <3>3. CASE m >= at
      <4>1. m - at \in 0..Day /\ at + (m - at) = m /\ m % Day = m
        BY <1>1, <3>3
      <4>2. (at + (m - at)) % Day \notin s.hours
        BY <3>2, <4>1
      <4> QED BY <4>1, <4>2
    <3>4. CASE m < at
      <4>1. m + Day - at \in 0..Day /\ at + (m + Day - at) = m + Day /\ (m + Day) % Day = m
        BY <1>1, <3>4
      <4>2. (at + (m + Day - at)) % Day \notin s.hours
        BY <3>2, <4>1
      <4> QED BY <4>1, <4>2
    <3> QED BY <1>1, <3>2, <3>3, <3>4
  <2> QED BY <2>1, <2>2
<1>3. S \in SUBSET Nat
  BY <1>1
<1> HIDE DEF S
<1>4. \E a \in S : \A b \in S : a <= b
  BY <1>2, <1>3, LeastNumber
<1>5. Least(S) \in S
  BY <1>4 DEF Least
<1>6. Left(s, n, at) = Least(S)
  BY DEF Left, S
<1> QED BY <1>3, <1>5, <1>6

(* What a tick that is answered does to one account, as far as warnings go.     *)
LEMMA LookAtOne ==
  ASSUME TypeOK, NEW stop \in 0..(N + 1), NEW u \in Users,
         NEW at, NEW same, NEW set, NEW k, NEW d, NEW slack, NEW how,
         Given(at, same, set, k, d, slack),
         LookTo(stop, at, same, set, k, d, slack, how)
  PROVE  LET l == Left(set[u], used'[u], at)
             shut == Blocked(set[u], used'[u], at)
         IN  /\ used'[u] \in Nat
             /\ since = 0 => used'[u] <= used[u] + d
             /\ u \in locks' => shut /\ sess[u] # {}
             /\ warned'[u] = IF u >= stop \/ shut THEN warned[u]
                             ELSE IF Limited(set[u]) THEN Warn(u, l) ELSE {}
             /\ stay'[u] = (u < stop /\ ~shut /\ sess[u] # {})
             /\ heard'[u] = IF u \in locks' /\ heard[u] = "warned" THEN "before"
                            ELSE IF warned'[u] \ warned[u] # {} THEN "warned"
                            ELSE IF u < stop /\ ~shut /\ (Limited(set[u]) => \A t \in WarnAt : l > t)
                            THEN "never" ELSE heard[u]
             /\ settings' = set /\ now' = at /\ since' = 0
<1> DEFINE e == IF started THEN Smaller(since + d, MaxCharge) ELSE 0
           n == NewDay(used, same)
<1>1. d \in Nat /\ same \in BOOLEAN /\ e \in Nat /\ since \in Nat
  BY Sizes DEF Given, TypeOK, Smaller
<1>2. since = 0 => e <= d
  BY <1>1, Sizes DEF Smaller
<1>3. n \in [Users -> 0..Top] /\ used \in [Users -> 0..Top] /\ n[u] <= used[u]
  <2>1. n \in [Users -> 0..Top] /\ used \in [Users -> 0..Top]
    BY <1>1, NewDayType DEF TypeOK
  <2>2. n[u] = used[u] \/ n[u] = 0
    BY <1>1 DEF NewDay
  <2>3. used[u] \in Nat
    BY <2>1
  <2> HIDE DEF n
  <2> QED BY <2>1, <2>2, <2>3
<1> HIDE DEF n
<1>4. used'[u] \in {n[u], Plus(n[u], e)}
  BY DEF LookTo, n
<1> HIDE DEF e
<1>5. n[u] \in 0..Top /\ used[u] \in Nat
  BY <1>3
<1>6. Plus(n[u], e) \in 0..Top /\ Plus(n[u], e) <= n[u] + e
  BY <1>1, <1>5, Sizes, PlusType DEF Plus, Smaller
<1>7. used'[u] \in Nat /\ (since = 0 => used'[u] <= used[u] + d)
  BY <1>1, <1>2, <1>3, <1>4, <1>5, <1>6
<1>8. u \in locks' => Blocked(set[u], used'[u], at) /\ sess[u] # {}
  BY DEF LookTo
<1>9. warned'[u] = IF u >= stop \/ Blocked(set[u], used'[u], at) THEN warned[u]
                   ELSE IF Limited(set[u]) THEN Warn(u, Left(set[u], used'[u], at)) ELSE {}
  BY DEF LookTo
<1>10. stay'[u] = (u < stop /\ ~Blocked(set[u], used'[u], at) /\ sess[u] # {})
  BY DEF LookTo
<1>11. heard'[u] = IF u \in locks' /\ heard[u] = "warned" THEN "before"
                   ELSE IF warned'[u] \ warned[u] # {} THEN "warned"
                   ELSE IF /\ u < stop /\ ~Blocked(set[u], used'[u], at)
                           /\ Limited(set[u]) => \A t \in WarnAt : Left(set[u], used'[u], at) > t
                   THEN "never" ELSE heard[u]
  BY DEF LookTo
<1>12. settings' = set /\ now' = at /\ since' = 0
  BY DEF LookTo
<1> QED BY <1>7, <1>8, <1>9, <1>10, <1>11, <1>12

(* A tick keeps what was told (_maybe_warn).                                   *)
LEMMA ToldLook ==
  ASSUME TypeOK, Told, NEW stop \in 0..(N + 1),
         NEW at, NEW same, NEW set, NEW k, NEW d, NEW slack, NEW how,
         Given(at, same, set, k, d, slack), LookTo(stop, at, same, set, k, d, slack, how)
  PROVE  Told'
<1> SUFFICES ASSUME NEW u \in Users
             PROVE  /\ warned'[u] # {} => heard'[u] # "never"
                    /\ stay'[u] => since' = 0 /\ (heard'[u] = "never" =>
                                                   Ample(settings'[u], used'[u], now'))
  BY DEF Told
<1> DEFINE l == Left(set[u], used'[u], at)
           shut == Blocked(set[u], used'[u], at)
<1>1. /\ used'[u] \in Nat
      /\ warned'[u] = IF u >= stop \/ shut THEN warned[u]
                      ELSE IF Limited(set[u]) THEN Warn(u, l) ELSE {}
      /\ stay'[u] = (u < stop /\ ~shut /\ sess[u] # {})
      /\ heard'[u] = IF u \in locks' /\ heard[u] = "warned" THEN "before"
                     ELSE IF warned'[u] \ warned[u] # {} THEN "warned"
                     ELSE IF u < stop /\ ~shut /\ (Limited(set[u]) => \A t \in WarnAt : l > t)
                     THEN "never" ELSE heard[u]
      /\ settings' = set /\ now' = at /\ since' = 0
  BY LookAtOne
<1>2. set[u] \in Settings /\ at \in Minutes /\ u \in Nat /\ stop \in Nat
  BY Sizes DEF Given
<1>3. warned[u] # {} => heard[u] # "never"
  BY DEF Told
<1>4. u < stop <=> ~ u >= stop
  BY <1>2
<1> HIDE DEF l, shut
<1>5. warned'[u] # {} => heard'[u] # "never"
  <2> SUFFICES ASSUME warned'[u] # {}, heard'[u] = "never" PROVE FALSE
    OBVIOUS
  <2>1. warned'[u] \ warned[u] = {}
    BY <1>1
  <2>2. heard[u] # "never"
    BY <1>3, <2>1
  <2>3. u < stop /\ ~shut /\ (Limited(set[u]) => \A t \in WarnAt : l > t)
    BY <1>1, <2>1, <2>2
  <2>4. Limited(set[u]) /\ warned'[u] = Warn(u, l)
    BY <1>1, <1>4, <2>3
  <2>5. PICK t \in WarnAt : l <= t
    BY <2>4 DEF Warn, StillGiven, Largest
  <2>6. l \in Nat /\ t \in Nat
    BY <1>1, <1>2, <2>3, <2>4, LeftNumber, WarnAssumption DEF l, shut
  <2>7. l > t
    BY <2>3, <2>4
  <2> QED BY <2>5, <2>6, <2>7
<1>6. ASSUME stay'[u], heard'[u] = "never" PROVE Ample(set[u], used'[u], at)
  <2> SUFFICES ASSUME ~Ample(set[u], used'[u], at) PROVE FALSE
    OBVIOUS
  <2>1. u < stop /\ ~shut /\ sess[u] # {}
    BY <1>1, <1>6
  <2>2. l \in Nat /\ l <= 1
    BY <1>1, <1>2, <2>1, LeftAtMostOne DEF l, shut
  <2>3. Limited(set[u])
    <3>1. at \in Minutes /\ (at + 1) % Day \in Minutes
      BY <1>2, Sizes DEF Minutes
    <3> QED BY <3>1 DEF Limited, Free, Ample
  <2>4. PICK t \in WarnAt : t \in Nat \ {0}
    BY WarnAssumption
  <2>5. ~ l > t
    BY <2>2, <2>4
  <2>6. warned'[u] \ warned[u] = {} /\ heard[u] = "never"
    BY <1>1, <1>6, <2>3, <2>5
  <2>7. warned[u] = {} /\ warned'[u] = Warn(u, l)
    BY <1>1, <1>3, <1>4, <2>1, <2>3, <2>6
  <2>8. l > 1
    BY <2>1, <2>2, <2>6, <2>7, UnwarnedHasTime
  <2> QED BY <2>2, <2>8
<1> QED BY <1>1, <1>5, <1>6

(* Every step keeps it.                                                       *)
LEMMA ToldNext == TypeOK /\ Told /\ [Next]_vars => Told'
<1> SUFFICES ASSUME TypeOK, Told, [Next]_vars PROVE Told'
  OBVIOUS
<1>1. CASE Start \/ Minute \/ Change
  <2>p. PICK at, same, set, k, d, slack : Ticked(at, same, set, k, d, slack)
    BY <1>1, Ticks, Zenon
  <2>1. /\ Given(at, same, set, k, d, slack)
        /\ \/ Blind(at, same, set, k, d)
           \/ \E how : \E stop \in 0..(N + 1) : LookTo(stop, at, same, set, k, d, slack, how)
    BY <2>p DEF Ticked
  <2>2. CASE Blind(at, same, set, k, d)
    BY <2>2 DEF Blind, Told
  <2>3. ASSUME NEW how, NEW stop \in 0..(N + 1), LookTo(stop, at, same, set, k, d, slack, how)
        PROVE  Told'
    BY <2>1, <2>3, ToldLook
  <2> QED BY <2>1, <2>2, <2>3, Zenon
<1>2. CASE Sleep \/ Restart
  BY <1>2 DEF Sleep, Restart, Told
<1>3. CASE SignIn \/ SignOut \/ GoIdle \/ UNCHANGED vars
  <2>1. /\ UNCHANGED <<now, since, settings, used, warned, heard>>
        /\ \A u \in Users : stay'[u] => stay[u]
    BY <1>3 DEF SignIn, SignOut, GoIdle, vars, Quiet, clock, keeper, TypeOK, Flags
  <2> QED BY <2>1 DEF Told
<1> QED BY <1>1, <1>2, <1>3 DEF Next

(* Nobody allowed and signed in a minute ago is locked untold (_maybe_warn).    *)
THEOREM ToldBeforeLock == Spec => WarnedFirst
<1>1. Init => Told
  BY DEF Init, Told
<1>2. TypeOK /\ Told /\ [Next]_vars => [\A u \in locks' : ~Untold(u)]_vars
  <2> SUFFICES ASSUME TypeOK, Told, Next, NEW u \in locks', Untold(u) PROVE FALSE
    BY DEF vars
  <2>0. stay[u] /\ settings'[u] = settings[u] /\ heard[u] = "never"
    BY DEF Untold
  <2>1. CASE Start \/ Minute \/ Change
    <3>p. PICK at, same, set, k, d, slack : Ticked(at, same, set, k, d, slack)
      BY <2>1, Ticks, Zenon
    <3>1. /\ Given(at, same, set, k, d, slack)
          /\ faults' \in 0..MaxFaults /\ idle' \in Flags
          /\ (d = 0 \/ set = settings) /\ ((k = key /\ set = settings) \/ k = NoKey)
          /\ (d = 0 /\ at = now) \/ (d = 1 /\ at = (now + 1) % Day)
          /\ \/ Blind(at, same, set, k, d)
             \/ \E how : \E stop \in 0..(N + 1) :
                  LookTo(stop, at, same, set, k, d, slack, how)
      BY <3>p DEF Ticked
    <3>2. ~Blind(at, same, set, k, d)
      BY DEF Blind
    <3>3. ASSUME NEW how, NEW stop \in 0..(N + 1),
                 LookTo(stop, at, same, set, k, d, slack, how)
          PROVE  FALSE
      <4>1. u \in Users
        BY <3>3 DEF LookTo
      <4>2. since = 0 /\ Ample(settings[u], used[u], now)
        BY <2>0, <4>1 DEF Told
      <4>3. /\ used'[u] \in Nat /\ used'[u] <= used[u] + d
            /\ Blocked(settings[u], used'[u], at)
        BY <2>0, <3>1, <3>3, <4>1, <4>2, LookAtOne
      <4>4. at \in settings[u].hours
        BY <3>1, <4>2 DEF Ample
      <4>5. settings[u].limit # 0 /\ used'[u] >= settings[u].limit
        BY <4>3, <4>4 DEF Blocked, UsedUp
      <4>6. used[u] + 1 < settings[u].limit
        BY <4>2, <4>5 DEF Ample
      <4>7. settings[u].limit \in Nat /\ used[u] \in Nat /\ d \in 0..1
        BY <3>1, <4>1, Sizes DEF TypeOK, Given
      <4> QED BY <4>3, <4>5, <4>6, <4>7
    <3> QED BY <3>1, <3>2, <3>3, Zenon
  <2>2. CASE Sleep \/ SignIn \/ SignOut \/ GoIdle \/ Restart
    BY <2>2 DEF Sleep, SignIn, SignOut, GoIdle, Restart, Quiet
  <2> QED BY <2>1, <2>2 DEF Next
<1> QED BY <1>1, <1>2, ToldNext, TypeCorrect, PTL DEF Spec, WarnedFirst

(* Nobody is signed out or locked out of the blue (_maybe_warn, _enforce).      *)
THEOREM NobodySurprised == Spec => Forewarned
BY SignedOutOnlyAfterLock, ToldBeforeLock, PTL DEF Forewarned

-------------------------------------------------------------------------------
(* Spools: nothing is lost, nothing is counted twice. *)

\* Tokens are numbered in the order they are made.
TokensNumbered == IsFiniteSet(made) /\ \A k \in made : k.n \in 1 .. Cardinality(made)

-----------------------------------------------------------------------------
(* A count or event (Tally.add, record) is new, and a token. *)
LEMMA FreshToken ==
  ASSUME SpoolsTypeOK, TokensNumbered, NEW kind \in {"count", "event"}, Make(kind)
  PROVE  /\ Token(kind) \in Tokens /\ Token(kind) \notin made
         /\ made' = made \cup {Token(kind)} /\ made' \subseteq Tokens /\ TokensNumbered'
<1>1. Cardinality(made) \in Nat
  BY FS_CardinalityType DEF TokensNumbered
<1>2. Cardinality(made) < MaxMade /\ made' = made \cup {Token(kind)}
  BY DEF Make
<1>3. Token(kind) \in Tokens
  BY <1>1, <1>2, SpoolsConstants DEF Token, Tokens, SpoolsTypeOK
<1>4. Token(kind) \notin made
  BY <1>1 DEF TokensNumbered, Token
<1>5. IsFiniteSet(made') /\ Cardinality(made') = Cardinality(made) + 1
  BY <1>2, <1>4, FS_AddElement DEF TokensNumbered
<1>6. \A k \in made' : k.n \in 1 .. Cardinality(made')
  BY <1>1, <1>2, <1>5 DEF TokensNumbered, Token
<1>7. TokensNumbered'
  BY <1>5, <1>6 DEF TokensNumbered
<1> QED BY <1>2, <1>3, <1>4, <1>7 DEF SpoolsTypeOK

(* A thread is of one of the two writers. *)
LEMMA WriterType == ASSUME NEW t \in Threads PROVE WriterOf(t) \in Writers
  BY DEF WriterOf, Writers

(* Before anything is counted the types hold. *)
LEMMA SpoolsTypeInit == SpoolsInit => SpoolsTypeOK /\ TokensNumbered
<1> SUFFICES ASSUME SpoolsInit PROVE SpoolsTypeOK /\ TokensNumbered
  OBVIOUS
<1>1. TokensNumbered
  BY FS_EmptySet DEF SpoolsInit, TokensNumbered
<1>2. SpoolsTypeOK
  BY SpoolsConstants DEF SpoolsInit, SpoolsTypeOK, Files, Fds, Phases, NoFile, NoJob, Idle
<1> QED BY <1>1, <1>2

(* Renaming or removing a file (fold, trim) moves those who have it open. *)
LEMMA MovedType ==
  ASSUME job \in [Threads -> [toks : SUBSET Tokens, fd : Fds]],
         NEW w \in Writers, NEW from, NEW to \in Fds
  PROVE  Moved(w, from, to) \in [Threads -> [toks : SUBSET Tokens, fd : Fds]]
  BY DEF Moved

(* A write (os.write) puts tokens where the file is, and ends the append. *)
LEMMA TypeWrite ==
  ASSUME SpoolsTypeOK, NEW t \in Threads, NEW some \in SUBSET job[t].toks, Write(t, some)
  PROVE  /\ spool' \in [Writers -> Files] /\ folding' \in [Writers -> Files]
         /\ log' \in [Writers -> SUBSET Tokens] /\ stray' \subseteq Tokens
         /\ job' \in [Threads -> [toks : SUBSET Tokens, fd : Fds]]
<1>1. some \subseteq Tokens /\ job[t].toks \subseteq Tokens /\ WriterOf(t) \in Writers
  BY WriterType DEF SpoolsTypeOK
<1>2. ASSUME NEW file \in Files PROVE Appended(file, some) \in Files
  BY <1>1, <1>2 DEF Appended, Files
<1>3. spool' \in [Writers -> Files] /\ folding' \in [Writers -> Files]
  BY <1>1, <1>2 DEF Write, SpoolsTypeOK
<1>4. log' \in [Writers -> SUBSET Tokens] /\ stray' \subseteq Tokens
  BY <1>1 DEF Write, SpoolsTypeOK
<1>5. job' \in [Threads -> [toks : SUBSET Tokens, fd : Fds]]
  <2>1. job' = [job EXCEPT ![t] = NoJob]
    BY DEF Write
  <2>2. NoJob \in [toks : SUBSET Tokens, fd : Fds]
    BY DEF NoJob, Fds
  <2> QED BY <2>1, <2>2 DEF SpoolsTypeOK
<1> QED BY <1>3, <1>4, <1>5

(* The writers' steps keep the types. *)
LEMMA TypeWriters ==
  ASSUME SpoolsTypeOK, TokensNumbered,
         \/ Count \/ Flush \/ \E t \in Searchers : Refused(t)
         \/ \E t \in Threads : \/ Record(t) \/ Open(t) \/ Written(t)
                               \/ CutShort(t) \/ Refuse(t) \/ Fails(t)
         \/ \E w \in Writers : Dies(w)
  PROVE  SpoolsTypeOK' /\ TokensNumbered'
<1> USE DEF counts
<1>1. CASE Count
  <2>1. Make("count")
    BY <1>1 DEF Count
  <2> QED BY <1>1, <2>1, FreshToken DEF Count, SpoolsTypeOK
<1>2. CASE Flush
  <2>1. "proxy" \in Threads
    BY DEF Threads
  <2> QED BY <1>2, <2>1 DEF Flush, SpoolsTypeOK, TokensNumbered, Fds
<1>3. ASSUME NEW t \in Searchers, Refused(t) PROVE SpoolsTypeOK' /\ TokensNumbered'
  <2>1. Make("count") /\ t \in Threads
    BY <1>3 DEF Refused, Threads
  <2> QED BY <1>3, <2>1, FreshToken DEF Refused, SpoolsTypeOK, Fds
<1>4. ASSUME NEW t \in Threads, Record(t) PROVE SpoolsTypeOK' /\ TokensNumbered'
  <2>1. Make("event")
    BY <1>4 DEF Record
  <2> QED BY <1>4, <2>1, FreshToken DEF Record, SpoolsTypeOK, Fds
<1>5. ASSUME NEW t \in Threads, Open(t) PROVE SpoolsTypeOK' /\ TokensNumbered'
  <2>1. job' \in [Threads -> [toks : SUBSET Tokens, fd : Fds]]
    BY <1>5 DEF Open, SpoolsTypeOK, Fds
  <2>2. spool' \in [Writers -> Files]
    <3>1. ASSUME NEW file \in Files PROVE [file EXCEPT !.there = TRUE] \in Files
      BY DEF Files
    <3> QED BY <1>5, <3>1, WriterType DEF Open, SpoolsTypeOK
  <2> QED BY <1>5, <2>1, <2>2 DEF Open, SpoolsTypeOK, TokensNumbered
<1>6. ASSUME NEW t \in Threads, Written(t) \/ CutShort(t) PROVE SpoolsTypeOK' /\ TokensNumbered'
  <2>1. PICK some \in SUBSET job[t].toks : Write(t, some)
    BY <1>6 DEF Written, CutShort
  <2>2. spoolFaults' \in 0 .. MaxSpoolFaults
    BY <1>6, SpoolsConstants DEF Written, CutShort, SpoolFault, SpoolsTypeOK
  <2> QED BY <1>6, <2>1, <2>2, TypeWrite DEF Written, CutShort, SpoolsTypeOK, TokensNumbered
<1>7. ASSUME NEW t \in Threads, Refuse(t) \/ Fails(t) PROVE SpoolsTypeOK' /\ TokensNumbered'
  <2>1. spoolFaults' \in 0 .. MaxSpoolFaults
    BY <1>7, SpoolsConstants DEF Refuse, Fails, SpoolFault, SpoolsTypeOK
  <2>2. pending' \subseteq Tokens
    BY <1>7 DEF Refuse, Fails, PutBack, SpoolsTypeOK
  <2>3. job' \in [Threads -> [toks : SUBSET Tokens, fd : Fds]]
    BY <1>7 DEF Refuse, Fails, SpoolsTypeOK, NoJob, Fds
  <2> QED BY <1>7, <2>1, <2>2, <2>3 DEF Refuse, Fails, SpoolsTypeOK, TokensNumbered
<1>8. ASSUME NEW w \in Writers, Dies(w) PROVE SpoolsTypeOK' /\ TokensNumbered'
  <2>1. spoolFaults' \in 0 .. MaxSpoolFaults
    BY <1>8, SpoolsConstants DEF Dies, SpoolFault, SpoolsTypeOK
  <2>2. job' \in [Threads -> [toks : SUBSET Tokens, fd : Fds]]
    BY <1>8 DEF Dies, SpoolsTypeOK, NoJob, Fds
  <2> QED BY <1>8, <2>1, <2>2 DEF Dies, SpoolsTypeOK, TokensNumbered
<1> QED BY <1>1, <1>2, <1>3, <1>4, <1>5, <1>6, <1>7, <1>8

(* kosherd's steps, and the days, keep the types. *)
LEMMA TypeKosherd ==
  ASSUME SpoolsTypeOK, TokensNumbered,
         \/ Fold \/ Taken \/ Save \/ SaveFails \/ Stops \/ NextDay
         \/ \E w \in Writers : Take(w) \/ Read(w) \/ Clear(w) \/ Trim(w) \/ Replace(w)
  PROVE  SpoolsTypeOK' /\ TokensNumbered'
<1> USE DEF counts, Idle, Phases, Fds
<1>0. \A toks \in SUBSET Tokens : Kept(toks) \in SUBSET Tokens
  BY DEF Kept
<1>a. NoFile \in Files
  BY DEF NoFile, Files
<1>1. CASE Fold
  BY <1>1 DEF Fold, SpoolsTypeOK, TokensNumbered
<1>2. CASE Taken
  <2>1. work' \in [phase : Phases, todo : SUBSET Writers, toks : SUBSET Tokens]
    BY <1>2 DEF Taken
  <2>2. store' \in [days : SUBSET Tokens, total : SUBSET Tokens] /\ pruned' \in 0 .. today
    BY <1>2, <1>0 DEF Taken, SpoolsTypeOK
  <2>3. spoolFaults' \in 0 .. MaxSpoolFaults
    BY <1>2, SpoolsConstants DEF Taken, SpoolFault, SpoolsTypeOK
  <2> QED BY <1>2, <2>1, <2>2, <2>3 DEF Taken, SpoolsTypeOK, TokensNumbered
<1>3. CASE Save
  <2>1. store' \in [days : SUBSET Tokens, total : SUBSET Tokens]
    BY <1>3, <1>0 DEF Save, SpoolsTypeOK
  <2>2. work' \in [phase : Phases, todo : SUBSET Writers, toks : SUBSET Tokens]
    BY <1>3 DEF Save, ToClear
  <2>3. pruned' \in 0 .. today'
    BY <1>3 DEF Save, SpoolsTypeOK
  <2> QED BY <1>3, <2>1, <2>2, <2>3 DEF Save, SpoolsTypeOK, TokensNumbered
<1>4. CASE SaveFails \/ Stops
  <2>1. spoolFaults' \in 0 .. MaxSpoolFaults
    BY <1>4, SpoolsConstants DEF SaveFails, Stops, SpoolFault, SpoolsTypeOK
  <2> QED BY <1>4, <2>1 DEF SaveFails, Stops, ToClear, SpoolsTypeOK, TokensNumbered
<1>5. CASE NextDay
  BY <1>5, SpoolsConstants DEF NextDay, SpoolsTypeOK, TokensNumbered
<1>6. ASSUME NEW w \in Writers, Take(w) PROVE SpoolsTypeOK' /\ TokensNumbered'
  <2>1. job' \in [Threads -> [toks : SUBSET Tokens, fd : Fds]]
    BY <1>6, MovedType DEF Take, SpoolsTypeOK
  <2>2. spool' \in [Writers -> Files] /\ folding' \in [Writers -> Files]
    BY <1>6, <1>a DEF Take, SpoolsTypeOK
  <2>3. work' \in [phase : Phases, todo : SUBSET Writers, toks : SUBSET Tokens]
    BY <1>6 DEF Take, SpoolsTypeOK
  <2> QED BY <1>6, <2>1, <2>2, <2>3 DEF Take, SpoolsTypeOK, TokensNumbered
<1>7. ASSUME NEW w \in Writers, Read(w) PROVE SpoolsTypeOK' /\ TokensNumbered'
  BY <1>7 DEF Read, SpoolsTypeOK, TokensNumbered, Files
<1>8. ASSUME NEW w \in Writers, Clear(w) PROVE SpoolsTypeOK' /\ TokensNumbered'
  BY <1>8, <1>a, MovedType DEF Clear, SpoolsTypeOK, TokensNumbered
<1>9. ASSUME NEW w \in Writers, Trim(w) PROVE SpoolsTypeOK' /\ TokensNumbered'
  BY <1>9, <1>0 DEF Trim, SpoolsTypeOK, TokensNumbered
<1>10. ASSUME NEW w \in Writers, Replace(w) PROVE SpoolsTypeOK' /\ TokensNumbered'
  BY <1>10, MovedType DEF Replace, SpoolsTypeOK, TokensNumbered
<1> QED BY <1>1, <1>2, <1>3, <1>4, <1>5, <1>6, <1>7, <1>8, <1>9, <1>10

(* Every step keeps the types and the numbering. *)
LEMMA SpoolsTypeStep == SpoolsTypeOK /\ TokensNumbered /\ [SpoolsNext]_spoolsVars => SpoolsTypeOK' /\ TokensNumbered'
<1> SUFFICES ASSUME SpoolsTypeOK, TokensNumbered, [SpoolsNext]_spoolsVars PROVE SpoolsTypeOK' /\ TokensNumbered'
  OBVIOUS
<1>1. CASE UNCHANGED spoolsVars
  BY <1>1 DEF spoolsVars, counts, SpoolsTypeOK, TokensNumbered
<1>2. CASE SpoolsNext
  BY <1>2, TypeWriters, TypeKosherd DEF SpoolsNext
<1> QED BY <1>1, <1>2

(* Every variable of the spools keeps its type, whatever fails. *)
THEOREM SpoolsTyped == SpoolsSpec => []SpoolsTypeOK
<1>1. SpoolsSpec => [](SpoolsTypeOK /\ TokensNumbered)
  BY SpoolsTypeInit, SpoolsTypeStep, PTL DEF SpoolsSpec
<1> QED BY <1>1, PTL

-----------------------------------------------------------------------------
(* Saving the counts (_prune_and_maybe_save) keeps days and totals together. *)
LEMMA DaysStep == SpoolsTypeOK /\ DaysAgreeWithTotals /\ [SpoolsNext]_spoolsVars => DaysAgreeWithTotals'
<1> SUFFICES ASSUME SpoolsTypeOK, DaysAgreeWithTotals, [SpoolsNext]_spoolsVars PROVE DaysAgreeWithTotals'
  OBVIOUS
<1> USE DEF DaysAgreeWithTotals
<1>1. CASE UNCHANGED <<store, pruned>>
  BY <1>1
<1>2. CASE Taken
  <2>1. CASE store' = [store EXCEPT !.days = Kept(@)] /\ pruned' = today
    <3>1. store'.days = Kept(store.days) /\ store'.total = store.total
      BY <2>1 DEF SpoolsTypeOK
    <3>2. \A k \in store.total : k.day \in Int
      BY SpoolsConstants DEF SpoolsTypeOK, Tokens
    <3> QED BY <2>1, <3>1, <3>2, SpoolsConstants DEF Kept, SpoolsTypeOK
  <2>2. CASE UNCHANGED <<store, pruned>>
    BY <2>2
  <2> QED BY <1>2, <2>1, <2>2 DEF Taken
<1>3. CASE Save
  <2>1. \A k \in store.total \cup work.toks : k.day \in Int
    BY SpoolsConstants DEF SpoolsTypeOK, Tokens
  <2>2. store'.days = Kept(store.days \cup work.toks) /\ store'.total = store.total \cup work.toks
    BY <1>3 DEF Save
  <2>3. pruned' = today /\ pruned <= today /\ today \in Int /\ pruned \in Int /\ KeepDays \in Int
    BY <1>3, SpoolsConstants DEF Save, SpoolsTypeOK
  <2> QED BY <2>1, <2>2, <2>3 DEF Kept
<1> QED
  BY <1>1, <1>2, <1>3
  DEF SpoolsNext, spoolsVars, counts, Count, Flush, Refused, Record, Open, Written, CutShort, Refuse, Fails,
      Dies, Fold, Take, Read, SaveFails, Clear, Trim, Replace, Stops, NextDay

(* The days and the totals agree, through every fault (usage.py: save). *)
THEOREM DaysWithTotals == SpoolsSpec => []DaysAgreeWithTotals
<1>1. SpoolsInit => DaysAgreeWithTotals
  BY DEF SpoolsInit, DaysAgreeWithTotals
<1>2. SpoolsSpec => [](SpoolsTypeOK /\ TokensNumbered /\ DaysAgreeWithTotals)
  BY <1>1, SpoolsTypeInit, SpoolsTypeStep, DaysStep, PTL DEF SpoolsSpec
<1> QED BY <1>2, PTL

-----------------------------------------------------------------------------
\* What is appended to the numbers' files is a count, to the events' an event.
Kinds ==
    /\ \A k \in pending : k.kind = "count"
    /\ \A t \in Threads : \A k \in job[t].toks :
           k.kind = IF job[t].fd \in {"activity", "log", "oldlog"} THEN "event" ELSE "count"

\* A file that is open, or has anything in it, is there.
There ==
    /\ \A t \in Threads : /\ job[t].fd = "spool" => spool[WriterOf(t)].there
                          /\ job[t].fd = "folding" => folding[WriterOf(t)].there
    /\ \A w \in Writers : /\ ~ spool[w].there => spool[w].toks = {}
                          /\ ~ folding[w].there => folding[w].toks = {}

\* What kosherd has read of a file is all of it but what came late.
ReadSoFar ==
    /\ work.phase = "read" =>
           \A w \in Writers \ work.todo : folding[w].toks \subseteq work.toks \cup stray
    /\ work.phase = "clear" =>
           \A w \in Writers : folding[w].toks \subseteq store.total \cup stray
    /\ work.phase = "replace" =>
           \A w \in work.todo : Kept(log[w]) \subseteq work.toks \cup stray

\* Where a count, and an event, is to be found.
CountHeld(k) ==
    \/ k \in pending \/ k \in stray \/ k \in store.total
    \/ \E t \in Threads : k \in job[t].toks
    \/ \E w \in Writers : k \in spool[w].toks \/ k \in folding[w].toks
EventHeld(k) ==
    \/ k \in stray \/ k.day <= today - KeepDays
    \/ \E t \in Threads : k \in job[t].toks
    \/ \E w \in Writers : k \in log[w]
Held == \A k \in made : IF k.kind = "count" THEN CountHeld(k) ELSE EventHeld(k)

Whole == Kinds /\ There /\ ReadSoFar /\ Held

(* Steps that are spoolFaults (cut writes, failed saves, stops) are counted. *)
LEMMA FaultCounted ==
  ASSUME SpoolsTypeOK, spoolFaults' = 0, SpoolsNext
  PROVE  /\ spoolFaults = 0
         /\ \/ Count \/ Flush \/ \E t \in Searchers : Refused(t)
            \/ \E t \in Threads : \/ Record(t) \/ Open(t) \/ Written(t)
                                  \/ t = "proxy" /\ Refuse(t)
            \/ Fold \/ \E w \in Writers : Take(w)
            \/ Taken \/ \E w \in Writers : Read(w)
            \/ Save \/ \E w \in Writers : Clear(w) \/ Trim(w) \/ Replace(w)
            \/ NextDay
<1>1. ~ SpoolFault
  BY SpoolsConstants DEF SpoolFault, SpoolsTypeOK
<1>2. \A t \in Threads : ~ CutShort(t) /\ ~ Fails(t) /\ (t # "proxy" => ~ Refuse(t))
  BY <1>1 DEF CutShort, Fails, Refuse
<1>3. ~ SaveFails /\ ~ Stops /\ \A w \in Writers : ~ Dies(w)
  BY <1>1 DEF SaveFails, Stops, Dies
<1>4. \A t \in Threads : Refused(t) \/ Record(t) \/ Open(t) \/ Written(t) \/ Refuse(t) => spoolFaults' = spoolFaults
  BY <1>2 DEF Refused, Record, Open, Written, Refuse
<1>5. \A w \in Writers : Take(w) \/ Read(w) \/ Clear(w) \/ Trim(w) \/ Replace(w) => spoolFaults' = spoolFaults
  BY DEF Take, Read, Clear, Trim, Replace
<1>6. Count \/ Flush \/ Fold \/ Taken \/ Save \/ NextDay => spoolFaults' = spoolFaults
  BY <1>1 DEF Count, Flush, Fold, Taken, Save, NextDay
<1>7. Searchers \subseteq Threads
  BY DEF Threads
<1> QED BY <1>2, <1>3, <1>4, <1>5, <1>6, <1>7 DEF SpoolsNext

(* Counting and recording put a new token where it is looked for. *)
LEMMA WholeMake ==
  ASSUME SpoolsTypeOK, TokensNumbered, Whole,
         Count \/ (\E t \in Searchers : Refused(t)) \/ \E t \in Threads : Record(t)
  PROVE  Whole'
<1> USE DEF counts, Whole
<1>1. CASE Count
  <2>1. Token("count").kind = "count" /\ made' = made \cup {Token("count")}
    BY <1>1 DEF Count, Make, Token
  <2>2. Kinds' /\ There' /\ ReadSoFar'
    BY <1>1, <2>1 DEF Count, Kinds, There, ReadSoFar, Kept
  <2>3. Held'
    BY <1>1, <2>1 DEF Count, Held, CountHeld, EventHeld
  <2> QED BY <2>2, <2>3
<1>2. ASSUME NEW t \in Searchers, Refused(t) PROVE Whole'
  <2>1. Token("count").kind = "count" /\ made' = made \cup {Token("count")} /\ t \in Threads
    BY <1>2 DEF Refused, Make, Token, Threads
  <2>2. job' = [job EXCEPT ![t] = [toks |-> {Token("count")}, fd |-> "usage"]] /\ job[t].toks = {}
    BY <1>2 DEF Refused, NoJob
  <2>3. Kinds' /\ There' /\ ReadSoFar'
    BY <1>2, <2>1, <2>2 DEF Refused, Kinds, There, ReadSoFar, Kept, SpoolsTypeOK
  <2>4. Held'
    BY <1>2, <2>1, <2>2 DEF Refused, Held, CountHeld, EventHeld, SpoolsTypeOK
  <2> QED BY <2>3, <2>4
<1>3. ASSUME NEW t \in Threads, Record(t) PROVE Whole'
  <2>1. Token("event").kind = "event" /\ made' = made \cup {Token("event")}
    BY <1>3 DEF Record, Make, Token
  <2>2. job' = [job EXCEPT ![t] = [toks |-> {Token("event")}, fd |-> "activity"]] /\ job[t].toks = {}
    BY <1>3 DEF Record, NoJob
  <2>3. Kinds' /\ There' /\ ReadSoFar'
    BY <1>3, <2>1, <2>2 DEF Record, Kinds, There, ReadSoFar, Kept, SpoolsTypeOK
  <2>4. Held'
    BY <1>3, <2>1, <2>2 DEF Record, Held, CountHeld, EventHeld, SpoolsTypeOK
  <2> QED BY <2>3, <2>4
<1> QED BY <1>1, <1>2, <1>3

(* Flushing and opening (Tally.flush) keep what they take. *)
LEMMA WholeFlush ==
  ASSUME SpoolsTypeOK, Whole,
         \/ Flush
         \/ \E t \in Threads : Open(t) \/ (t = "proxy" /\ Refuse(t))
  PROVE  Whole'
<1> USE DEF counts, Whole
<1>1. CASE Flush
  <2>1. /\ "proxy" \in Threads /\ job["proxy"].toks = {}
        /\ job' = [job EXCEPT !["proxy"] = [toks |-> pending, fd |-> "usage"]]
    BY <1>1 DEF Threads, Flush, NoJob
  <2>2. Kinds' /\ There' /\ ReadSoFar'
    BY <1>1, <2>1 DEF Flush, Kinds, There, ReadSoFar, Kept, SpoolsTypeOK
  <2>3. Held'
    BY <1>1, <2>1 DEF Flush, Held, CountHeld, EventHeld, SpoolsTypeOK
  <2> QED BY <2>2, <2>3
<1>2. ASSUME NEW t \in Threads, Open(t) PROVE Whole'
  <2>1. \A u \in Threads : job'[u].toks = job[u].toks
    BY <1>2 DEF Open, SpoolsTypeOK
  <2>2. \A w \in Writers : /\ spool'[w].toks = spool[w].toks
                           /\ spool[w].there = TRUE => spool'[w].there = TRUE
    BY <1>2, WriterType DEF Open, SpoolsTypeOK, Files
  <2>3. Kinds'
    BY <1>2, <2>1 DEF Open, Kinds, SpoolsTypeOK
  <2>4. There'
    <3>1. /\ folding' = folding
          /\ \A u \in Threads : /\ job'[u].fd = "spool" => u = t \/ job[u].fd = "spool"
                                /\ job'[u].fd = "folding" => job[u].fd = "folding"
      BY <1>2 DEF Open, SpoolsTypeOK
    <3>2. job'[t].fd = "spool" => spool'[WriterOf(t)].there = TRUE
      BY <1>2, WriterType DEF Open, SpoolsTypeOK, Files
    <3>3. \A u \in Threads : job[u].fd = "spool" => spool[WriterOf(u)].there = TRUE
      BY WriterType DEF There, SpoolsTypeOK, Files
    <3>4. \A u \in Threads : job'[u].fd = "spool" => spool'[WriterOf(u)].there = TRUE
      BY <2>2, <3>1, <3>2, <3>3, WriterType
    <3>5. \A w \in Writers : ~ spool'[w].there => spool'[w].toks = {}
      BY <2>2 DEF There, SpoolsTypeOK, Files
    <3> QED BY <3>1, <3>4, <3>5 DEF There
  <2>5. ReadSoFar'
    <3>1. UNCHANGED <<folding, store, log, work, today, stray>>
      BY <1>2 DEF Open
    <3> QED BY <3>1 DEF ReadSoFar, Kept
  <2>6. Held'
    BY <1>2, <2>1, <2>2 DEF Open, Held, CountHeld, EventHeld
  <2> QED BY <2>3, <2>4, <2>5, <2>6
<1>3. ASSUME NEW t \in Threads, t = "proxy", Refuse(t) PROVE Whole'
  <2>1. job[t].fd \in {"spool", "folding"}
    BY <1>3 DEF Refuse, Full
  <2>2. pending' = pending \cup job[t].toks /\ job' = [job EXCEPT ![t] = NoJob]
    BY <1>3 DEF Refuse, PutBack
  <2>3. Kinds' /\ There' /\ ReadSoFar'
    BY <1>3, <2>1, <2>2 DEF Refuse, Kinds, There, ReadSoFar, Kept, SpoolsTypeOK, NoJob
  <2>4. Held'
    BY <1>3, <2>1, <2>2 DEF Refuse, Held, CountHeld, EventHeld, Kinds, SpoolsTypeOK, NoJob
  <2> QED BY <2>3, <2>4
<1> QED BY <1>1, <1>2, <1>3

(* An append that is written (Tally.flush) reaches its file, or comes late. *)
LEMMA WholeWritten ==
  ASSUME SpoolsTypeOK, Whole, NEW t \in Threads, Written(t)
  PROVE  Whole'
<1> USE DEF Whole
<1> DEFINE w == WriterOf(t)
<1>1. /\ job' = [job EXCEPT ![t] = NoJob] /\ w \in Writers
      /\ UNCHANGED <<made, pending, store, work, today>>
  BY WriterType DEF Written, Write
<1>2. \A u \in Threads : job'[u].toks = IF u = t THEN {} ELSE job[u].toks
  BY <1>1 DEF SpoolsTypeOK, NoJob
<1>3. \A v \in Writers :
        /\ spool'[v].there = spool[v].there /\ folding'[v].there = folding[v].there
        /\ spool'[v].toks = spool[v].toks \cup
              (IF v = w /\ job[t].fd = "spool" THEN job[t].toks ELSE {})
        /\ folding'[v].toks = folding[v].toks \cup
              (IF v = w /\ job[t].fd = "folding" THEN job[t].toks ELSE {})
        /\ log'[v] = log[v] \cup (IF v = w /\ job[t].fd = "log" THEN job[t].toks ELSE {})
  BY <1>1 DEF Written, Write, Appended, SpoolsTypeOK
<1>4. stray' = IF AlreadyRead(t) THEN stray \cup job[t].toks ELSE stray
  BY DEF Written, Write
<1>5. Kinds'
  BY <1>1, <1>2 DEF Kinds, SpoolsTypeOK, NoJob
<1>6. There'
  <2>1. \A u \in Threads : /\ job'[u].fd = "spool" => job[u].fd = "spool"
                           /\ job'[u].fd = "folding" => job[u].fd = "folding"
    BY <1>1 DEF SpoolsTypeOK, NoJob
  <2>2. \A u \in Threads : /\ job'[u].fd = "spool" => spool'[WriterOf(u)].there
                           /\ job'[u].fd = "folding" => folding'[WriterOf(u)].there
    BY <1>3, <2>1, WriterType DEF There
  <2>3. \A v \in Writers : /\ ~ spool'[v].there => spool'[v].toks = {}
                           /\ ~ folding'[v].there => folding'[v].toks = {}
    BY <1>3 DEF There
  <2> QED BY <2>2, <2>3 DEF There
<1>7. ReadSoFar'
  <2>1. ASSUME work.phase = "read", NEW v \in Writers \ work.todo
        PROVE  folding'[v].toks \subseteq work.toks \cup stray'
    BY <1>3, <1>4, <2>1 DEF ReadSoFar, AlreadyRead
  <2>2. ASSUME work.phase = "clear", NEW v \in Writers
        PROVE  folding'[v].toks \subseteq store.total \cup stray'
    BY <1>3, <1>4, <2>2 DEF ReadSoFar, AlreadyRead
  <2>3. ASSUME work.phase = "replace", NEW v \in work.todo
        PROVE  Kept(log'[v]) \subseteq work.toks \cup stray'
    BY <1>3, <1>4, <2>3 DEF ReadSoFar, AlreadyRead, Kept, SpoolsTypeOK
  <2> QED BY <1>1, <2>1, <2>2, <2>3 DEF ReadSoFar, Kept
<1>8. ASSUME NEW k \in made, k.kind = "count", CountHeld(k) PROVE CountHeld(k)'
  <2>1. CASE k \in job[t].toks
    <3>1. job[t].fd \in {"spool", "folding", "gone"}
      BY <1>8, <2>1 DEF Written, Opened, Kinds
    <3> QED BY <1>1, <1>3, <1>4, <2>1, <3>1 DEF CountHeld, AlreadyRead
  <2> QED BY <1>1, <1>2, <1>3, <1>4, <1>8, <2>1 DEF CountHeld
<1>9. ASSUME NEW k \in made, k.kind # "count", EventHeld(k) PROVE EventHeld(k)'
  <2>1. CASE k \in job[t].toks
    <3>1. job[t].fd \in {"log", "oldlog"}
      BY <1>9, <2>1 DEF Written, Opened, Kinds
    <3> QED BY <1>1, <1>3, <1>4, <2>1, <3>1 DEF EventHeld, AlreadyRead
  <2> QED BY <1>1, <1>2, <1>3, <1>4, <1>9, <2>1 DEF EventHeld
<1> QED BY <1>1, <1>5, <1>6, <1>7, <1>8, <1>9 DEF Held

(* Folding (fold) moves what was counted to the totals. *)
LEMMA WholeFold ==
  ASSUME SpoolsTypeOK, Whole,
         \/ Fold \/ Taken \/ Save
         \/ \E w \in Writers : Take(w) \/ Read(w) \/ Clear(w)
  PROVE  Whole'
<1> USE DEF counts, Whole
<1>1. CASE Fold
  BY <1>1 DEF Fold, Idle, Kinds, There, ReadSoFar, Kept, Held, CountHeld, EventHeld
<1>2. CASE Taken
  <2>1. /\ UNCHANGED <<made, job, pending, spool, folding, log, today, stray>>
        /\ store'.total = store.total
    BY <1>2 DEF Taken, SpoolsTypeOK
  <2>2. work'.phase \in {"read", "idle"}
        /\ (work'.phase = "read" => work'.todo = {w \in Writers : folding[w].there})
    BY <1>2 DEF Taken, Idle
  <2>3. ReadSoFar'
    BY <2>1, <2>2 DEF ReadSoFar, There
  <2> QED BY <2>1, <2>3 DEF Kinds, There, Held, CountHeld, EventHeld
<1>3. CASE Save
  <2>1. /\ UNCHANGED <<made, job, pending, spool, folding, log, today, stray>>
        /\ store'.total = store.total \cup work.toks
        /\ work'.phase = "clear"
    BY <1>3 DEF Save, ToClear
  <2>2. ReadSoFar'
    BY <1>3, <2>1 DEF Save, ReadSoFar
  <2> QED BY <2>1, <2>2 DEF Kinds, There, Held, CountHeld, EventHeld
<1>4. ASSUME NEW w \in Writers, Take(w) PROVE Whole'
  <2>1. /\ UNCHANGED <<made, pending, store, log, today, stray>>
        /\ \A u \in Threads : job'[u].toks = job[u].toks
        /\ work'.phase = "take"
    BY <1>4 DEF Take, SpoolsTypeOK, Moved
  <2>2. CASE folding[w].there
    BY <1>4, <2>1, <2>2 DEF Take, Kinds, There, ReadSoFar, Held, CountHeld, EventHeld
  <2>3. CASE ~ folding[w].there
    <3>1. /\ folding' = [folding EXCEPT ![w] = spool[w]] /\ spool' = [spool EXCEPT ![w] = NoFile]
          /\ job' = Moved(w, "spool", "folding") /\ folding[w].toks = {}
      BY <1>4, <2>3 DEF Take, There
    <3>2. Kinds'
      BY <2>1, <3>1 DEF Kinds, Moved, SpoolsTypeOK
    <3>3. There'
      BY <2>3, <3>1 DEF There, Moved, SpoolsTypeOK, NoFile
    <3>4. Held'
      BY <2>1, <3>1 DEF Held, CountHeld, EventHeld, SpoolsTypeOK
    <3> QED BY <2>1, <3>2, <3>3, <3>4 DEF ReadSoFar
  <2> QED BY <2>2, <2>3
<1>5. ASSUME NEW w \in Writers, Read(w) PROVE Whole'
  <2>1. /\ UNCHANGED <<made, job, pending, spool, folding, store, log, today, stray>>
        /\ work.phase = "read" /\ work'.phase = "read"
        /\ work'.todo = work.todo \ {w} /\ work'.toks = work.toks \cup folding[w].toks
    BY <1>5 DEF Read, SpoolsTypeOK
  <2>2. ReadSoFar'
    BY <2>1 DEF ReadSoFar
  <2> QED BY <2>1, <2>2 DEF Kinds, There, Held, CountHeld, EventHeld
<1>6. ASSUME NEW w \in Writers, Clear(w) PROVE Whole'
  <2>1. /\ UNCHANGED <<made, pending, spool, store, log, today, stray>>
        /\ folding' = [folding EXCEPT ![w] = NoFile] /\ job' = Moved(w, "folding", "gone")
        /\ work.phase = "clear" /\ work'.phase \in {"clear", "idle"}
    BY <1>6 DEF Clear, Idle, SpoolsTypeOK
  <2>2. \A u \in Threads : job'[u].toks = job[u].toks
    BY <2>1 DEF Moved, SpoolsTypeOK
  <2>3. Kinds'
    BY <2>1, <2>2 DEF Kinds, Moved, SpoolsTypeOK
  <2>4. There'
    BY <2>1 DEF There, Moved, SpoolsTypeOK, NoFile
  <2>5. ReadSoFar'
    BY <2>1 DEF ReadSoFar, SpoolsTypeOK, NoFile
  <2>6. Held'
    BY <2>1, <2>2 DEF Held, CountHeld, EventHeld, ReadSoFar, SpoolsTypeOK
  <2> QED BY <2>3, <2>4, <2>5, <2>6
<1> QED BY <1>1, <1>2, <1>3, <1>4, <1>5, <1>6

(* Trimming (trim) and the next day let go of what is old enough only. *)
LEMMA WholeTrim ==
  ASSUME SpoolsTypeOK, Whole,
         NextDay \/ \E w \in Writers : Trim(w) \/ Replace(w)
  PROVE  Whole'
<1> USE DEF counts, Whole
<1>a. \A toks \in SUBSET Tokens : \A k \in toks : k.day \in Int
  BY SpoolsConstants DEF Tokens
<1>1. CASE NextDay
  <2>1. /\ UNCHANGED <<made, job, pending, spool, folding, store, log, work, stray>>
        /\ today \in Int /\ today' = today + 1 /\ KeepDays \in Int
    BY <1>1, SpoolsConstants DEF NextDay, SpoolsTypeOK
  <2>2. \A w \in Writers : Kept(log[w])' \subseteq Kept(log[w])
    BY <2>1, <1>a DEF Kept, SpoolsTypeOK
  <2>3. ReadSoFar'
    BY <2>1, <2>2 DEF ReadSoFar, SpoolsTypeOK
  <2>4. \A k \in made : EventHeld(k) => EventHeld(k)'
    BY <2>1, <1>a DEF EventHeld, SpoolsTypeOK
  <2> QED BY <2>1, <2>3, <2>4 DEF Kinds, There, Held, CountHeld
<1>2. ASSUME NEW w \in Writers, Trim(w) PROVE Whole'
  <2>1. /\ UNCHANGED <<made, job, pending, spool, folding, store, log, today, stray>>
        /\ work' = [phase |-> "replace", todo |-> {w}, toks |-> Kept(log[w])]
    BY <1>2 DEF Trim
  <2>2. ReadSoFar'
    BY <2>1 DEF ReadSoFar, Kept
  <2> QED BY <2>1, <2>2 DEF Kinds, There, Held, CountHeld, EventHeld
<1>3. ASSUME NEW w \in Writers, Replace(w) PROVE Whole'
  <2>1. /\ UNCHANGED <<made, pending, spool, folding, store, today, stray>>
        /\ log' = [log EXCEPT ![w] = work.toks] /\ job' = Moved(w, "log", "oldlog")
        /\ work.phase = "replace" /\ w \in work.todo /\ work'.phase = "idle"
    BY <1>3 DEF Replace, Idle
  <2>2. \A u \in Threads : job'[u].toks = job[u].toks
    BY <2>1 DEF Moved, SpoolsTypeOK
  <2>3. Kinds'
    BY <2>1, <2>2 DEF Kinds, Moved, SpoolsTypeOK
  <2>4. There'
    BY <2>1 DEF There, Moved, SpoolsTypeOK
  <2>5. ReadSoFar'
    BY <2>1 DEF ReadSoFar
  <2>6. ASSUME NEW k \in made, EventHeld(k) PROVE EventHeld(k)'
    <3>1. k \in log[w] => k \in work.toks \cup stray \/ k.day <= today - KeepDays
      BY <2>1, <1>a, SpoolsConstants DEF ReadSoFar, Kept, SpoolsTypeOK
    <3> QED BY <2>1, <2>2, <2>6, <3>1 DEF EventHeld, SpoolsTypeOK
  <2>7. \A k \in made : CountHeld(k) => CountHeld(k)'
    BY <2>1, <2>2 DEF CountHeld
  <2>8. Held'
    BY <2>1, <2>6, <2>7 DEF Held
  <2> QED BY <2>3, <2>4, <2>5, <2>8
<1> QED BY <1>1, <1>2, <1>3

(* Without a fault every step keeps everything where it can be found. *)
LEMMA WholeStep ==
  SpoolsTypeOK /\ TokensNumbered /\ (spoolFaults = 0 => Whole) /\ [SpoolsNext]_spoolsVars => (spoolFaults = 0 => Whole)'
<1> SUFFICES ASSUME SpoolsTypeOK, TokensNumbered, spoolFaults = 0 => Whole, [SpoolsNext]_spoolsVars, spoolFaults' = 0 PROVE Whole'
  OBVIOUS
<1>1. CASE UNCHANGED spoolsVars
  BY <1>1 DEF spoolsVars, counts, Whole, Kinds, There, ReadSoFar, Kept, Held, CountHeld, EventHeld
<1>2. CASE SpoolsNext
  BY <1>2, FaultCounted, WholeMake, WholeFlush, WholeWritten, WholeFold, WholeTrim
<1> QED BY <1>1, <1>2

(* Without a fault nothing is lost between a tally and the totals, and no event of the
   last days, but what an append wrote to a file that had been read (usage.py: fold). *)
THEOREM NothingIsLost == SpoolsSpec => []NothingLost
<1>1. SpoolsInit => Whole
  BY DEF SpoolsInit, Whole, Kinds, There, ReadSoFar, Held, NoJob, NoFile, Idle
<1>2. Whole => NothingLost
  BY DEF Whole, Held, CountHeld, EventHeld, NothingLost, InJobs, InFiles
<1>3. (spoolFaults = 0 => Whole) => NothingLost
  BY <1>2 DEF NothingLost
<1>4. SpoolsSpec => [](SpoolsTypeOK /\ TokensNumbered /\ (spoolFaults = 0 => Whole))
  BY <1>1, SpoolsTypeInit, SpoolsTypeStep, WholeStep, PTL DEF SpoolsSpec
<1> QED BY <1>3, <1>4, PTL

-----------------------------------------------------------------------------
\* No member of one is in the other.
Apart(S, T) == \A k \in S : k \notin T

\* What kosherd has folded, or is about to.
Folded == InFiles(folding) \cup store.total

\* What waits to be folded is in one place, and not folded yet.
OncePlaces ==
    /\ Apart(pending, Folded)
    /\ \A t \in Threads :
           /\ Apart(job[t].toks, Folded) /\ Apart(job[t].toks, pending)
           /\ \A u \in Threads : t # u => Apart(job[t].toks, job[u].toks)
           /\ \A w \in Writers : Apart(job[t].toks, spool[w].toks)
    /\ \A w \in Writers :
           /\ Apart(spool[w].toks, Folded) /\ Apart(spool[w].toks, pending)
           /\ \A v \in Writers : v # w => Apart(spool[v].toks, spool[w].toks)

\* A renamed file is in the totals only between saving them and removing it.
OnceFolded ==
    /\ \A w \in Writers : \A k \in folding[w].toks :
           k \in store.total => work.phase = "clear" /\ w \in work.todo
    /\ work.phase = "read" => work.toks \subseteq InFiles(folding)

\* All of it was made.
AllMade ==
    /\ pending \subseteq made /\ Folded \subseteq made
    /\ \A t \in Threads : job[t].toks \subseteq made
    /\ \A w \in Writers : spool[w].toks \subseteq made

Once == OncePlaces /\ OnceFolded /\ AllMade

(* What is newly made is nowhere else, and what is taken is in one place still. *)
LEMMA OnceMake ==
  ASSUME SpoolsTypeOK, TokensNumbered, Once,
         \/ Count \/ Flush \/ \E t \in Searchers : Refused(t)
         \/ \E t \in Threads : Record(t) \/ (t = "proxy" /\ Refuse(t))
  PROVE  Once'
<1> USE DEF counts, Once
<1>1. CASE Count
  <2>1. /\ UNCHANGED <<job, spool, folding, store, work>> /\ Token("count") \notin made
        /\ pending' = pending \cup {Token("count")} /\ made' = made \cup {Token("count")}
    BY <1>1, FreshToken DEF Count
  <2> QED BY <2>1 DEF OncePlaces, OnceFolded, AllMade, Apart, Folded, InFiles
<1>2. CASE Flush
  <2>1. /\ UNCHANGED <<made, spool, folding, store, work>> /\ "proxy" \in Threads
        /\ pending' = {} /\ \A t \in Threads : t # "proxy" => job'[t].toks = job[t].toks
        /\ job'["proxy"].toks = pending
    BY <1>2 DEF Flush, SpoolsTypeOK, Threads
  <2>2. OncePlaces'
    BY <2>1 DEF OncePlaces, Apart, Folded, InFiles
  <2> QED BY <2>1, <2>2 DEF OnceFolded, AllMade, Folded, InFiles
<1>3. ASSUME NEW t \in Threads, NEW kind \in {"count", "event"}, Make(kind),
             UNCHANGED <<pending, spool, folding, store, work>>,
             job'[t].toks = {Token(kind)}, \A u \in Threads : u # t => job'[u] = job[u]
      PROVE  Once'
  <2>1. Token(kind) \notin made /\ made' = made \cup {Token(kind)}
    BY <1>3, FreshToken
  <2>2. \A u \in Threads : job'[u].toks = IF u = t THEN {Token(kind)} ELSE job[u].toks
    BY <1>3
  <2>3. Folded' = Folded
    BY <1>3 DEF Folded, InFiles
  <2>4. OncePlaces'
    BY <1>3, <2>1, <2>2, <2>3 DEF OncePlaces, Apart, AllMade
  <2>5. OnceFolded' /\ AllMade'
    BY <1>3, <2>1, <2>2, <2>3 DEF OnceFolded, AllMade, InFiles
  <2> QED BY <2>4, <2>5
<1>4. ASSUME NEW t \in Searchers, Refused(t) PROVE Once'
  BY <1>3, <1>4 DEF Refused, Threads, SpoolsTypeOK
<1>5. ASSUME NEW t \in Threads, Record(t) PROVE Once'
  BY <1>3, <1>5 DEF Record, SpoolsTypeOK
<1>6. ASSUME NEW t \in Threads, t = "proxy", Refuse(t) PROVE Once'
  <2>1. /\ UNCHANGED <<made, spool, folding, store, work>>
        /\ pending' = pending \cup job[t].toks /\ job'[t].toks = {}
        /\ \A u \in Threads : u # t => job'[u].toks = job[u].toks
    BY <1>6 DEF Refuse, PutBack, SpoolsTypeOK, NoJob
  <2>2. OncePlaces'
    BY <2>1 DEF OncePlaces, Apart, Folded, InFiles
  <2> QED BY <2>1, <2>2 DEF OnceFolded, AllMade, Folded, InFiles
<1> QED BY <1>1, <1>2, <1>4, <1>5, <1>6

(* An append that is written (Tally.flush) is in its file and no longer in a job. *)
LEMMA OnceWritten ==
  ASSUME SpoolsTypeOK, Once, NEW t \in Threads, Open(t) \/ Written(t)
  PROVE  Once'
<1> USE DEF Once
<1>1. CASE Open(t)
  <2>1. UNCHANGED <<made, pending, folding, store, work>>
    BY <1>1 DEF Open
  <2>2. \A u \in Threads : job'[u].toks = job[u].toks
    BY <1>1 DEF Open, SpoolsTypeOK
  <2>3. \A w \in Writers : spool'[w].toks = spool[w].toks
    BY <1>1 DEF Open, SpoolsTypeOK, Files
  <2> QED BY <2>1, <2>2, <2>3 DEF OncePlaces, OnceFolded, AllMade, Apart, Folded, InFiles
<1>2. CASE Written(t)
  <2> DEFINE w == WriterOf(t)
             ToSpool == IF job[t].fd = "spool" THEN job[t].toks ELSE {}
             ToFolding == IF job[t].fd = "folding" THEN job[t].toks ELSE {}
  <2>1. UNCHANGED <<made, pending, store, work>> /\ w \in Writers
    BY <1>2, WriterType DEF Written
  <2>2. \A u \in Threads : job'[u].toks = IF u = t THEN {} ELSE job[u].toks
    BY <1>2 DEF Written, Write, SpoolsTypeOK, NoJob
  <2>3. \A v \in Writers :
          /\ spool'[v].toks = spool[v].toks \cup (IF v = w THEN ToSpool ELSE {})
          /\ folding'[v].toks = folding[v].toks \cup (IF v = w THEN ToFolding ELSE {})
    BY <1>2 DEF Written, Write, Appended, SpoolsTypeOK
  <2>4. \A k : k \in Folded' <=> k \in Folded \/ k \in ToFolding
    BY <2>1, <2>3 DEF Folded, InFiles
  <2>5. ToSpool = {} \/ ToFolding = {}
    OBVIOUS
  <2> HIDE DEF w
  <2>6. OncePlaces'
    BY <2>1, <2>2, <2>3, <2>4, <2>5 DEF OncePlaces, Apart
  <2>7. OnceFolded'
    BY <2>1, <2>3 DEF OnceFolded, OncePlaces, Apart, Folded, InFiles
  <2>8. AllMade'
    BY <2>1, <2>2, <2>3, <2>4 DEF AllMade
  <2> QED BY <2>6, <2>7, <2>8
<1> QED BY <1>1, <1>2

(* Folding and trimming (fold, trim) count nothing twice. *)
LEMMA OnceFold ==
  ASSUME SpoolsTypeOK, Once, There,
         \/ Fold \/ Taken \/ Save \/ NextDay
         \/ \E w \in Writers : Take(w) \/ Read(w) \/ Clear(w) \/ Trim(w) \/ Replace(w)
  PROVE  Once'
<1> USE DEF counts, Once, Idle
<1>a. ASSUME UNCHANGED <<made, pending, spool, folding>>,
             \A t \in Threads : job'[t].toks = job[t].toks,
             Folded' = Folded, OnceFolded'
      PROVE  Once'
  BY <1>a DEF OncePlaces, AllMade
<1>1. CASE Fold \/ Taken \/ NextDay
  <2>1. /\ UNCHANGED <<made, job, pending, spool, folding>> /\ store'.total = store.total
        /\ \/ work' = work
           \/ work.phase \in {"idle", "take"} /\ (work'.phase = "read" => work'.toks = {})
    <3>1. CASE Fold
      BY <3>1 DEF Fold
    <3>2. CASE Taken
      BY <3>2 DEF Taken, SpoolsTypeOK
    <3>3. CASE NextDay
      BY <3>3 DEF NextDay
    <3> QED BY <1>1, <3>1, <3>2, <3>3
  <2>2. OnceFolded'
    BY <2>1 DEF OnceFolded, InFiles
  <2>3. Folded' = Folded
    BY <2>1 DEF Folded, InFiles
  <2> QED BY <1>a, <2>1, <2>2, <2>3
<1>2. CASE Save
  <2>1. /\ UNCHANGED <<made, job, pending, spool, folding>> /\ work.phase = "read"
        /\ store'.total = store.total \cup work.toks
        /\ work'.phase = "clear" /\ work'.todo = {w \in Writers : folding[w].there}
    BY <1>2 DEF Save, ToClear
  <2>2. OnceFolded'
    BY <2>1 DEF OnceFolded, There
  <2>3. Folded' = Folded
    BY <2>1 DEF Folded, OnceFolded
  <2> QED BY <1>a, <2>1, <2>2, <2>3
<1>3. ASSUME NEW w \in Writers, Take(w) PROVE Once'
  <2>1. /\ UNCHANGED <<made, pending, store>> /\ work.phase = "take" /\ work'.phase = "take"
        /\ \A t \in Threads : job'[t].toks = job[t].toks
    BY <1>3 DEF Take, Moved, SpoolsTypeOK
  <2>2. CASE folding[w].there
    <3>1. UNCHANGED <<spool, folding>>
      BY <1>3, <2>2 DEF Take
    <3>2. OnceFolded' /\ Folded' = Folded
      BY <2>1, <3>1 DEF OnceFolded, Folded
    <3> QED BY <1>a, <2>1, <3>1, <3>2
  <2>3. CASE ~ folding[w].there
    <3>1. \A v \in Writers : /\ folding'[v].toks = IF v = w THEN spool[w].toks ELSE folding[v].toks
                             /\ spool'[v].toks = IF v = w THEN {} ELSE spool[v].toks
      <4>1. folding' = [folding EXCEPT ![w] = spool[w]] /\ spool' = [spool EXCEPT ![w] = NoFile]
        BY <1>3, <2>3 DEF Take
      <4> QED BY <4>1 DEF SpoolsTypeOK, NoFile
    <3>2. \A k : k \in Folded' => k \in Folded \/ k \in spool[w].toks
      BY <2>1, <3>1 DEF Folded, InFiles
    <3>3. OncePlaces'
      BY <2>1, <3>1, <3>2 DEF OncePlaces, Apart
    <3>4. OnceFolded'
      BY <2>1, <3>1 DEF OnceFolded, OncePlaces, Apart, Folded
    <3>5. AllMade'
      BY <2>1, <3>1, <3>2 DEF AllMade
    <3> QED BY <3>3, <3>4, <3>5
  <2> QED BY <2>2, <2>3
<1>4. ASSUME NEW w \in Writers, Read(w) PROVE Once'
  <2>1. /\ UNCHANGED <<made, job, pending, spool, folding, store>>
        /\ work.phase = "read" /\ work'.phase = "read"
        /\ work'.toks = work.toks \cup folding[w].toks
    BY <1>4 DEF Read, SpoolsTypeOK
  <2>2. OnceFolded' /\ Folded' = Folded
    BY <2>1 DEF OnceFolded, Folded, InFiles
  <2> QED BY <1>a, <2>1, <2>2
<1>5. ASSUME NEW w \in Writers, Clear(w) PROVE Once'
  <2>1. /\ UNCHANGED <<made, pending, spool, store>> /\ work.phase = "clear"
        /\ \A t \in Threads : job'[t].toks = job[t].toks
        /\ \A v \in Writers : folding'[v].toks = IF v = w THEN {} ELSE folding[v].toks
        /\ \/ work'.phase = "clear" /\ work'.todo = work.todo \ {w}
           \/ work'.phase = "idle" /\ work.todo = {w}
    BY <1>5 DEF Clear, Moved, SpoolsTypeOK, NoFile
  <2>2. \A k : k \in Folded' => k \in Folded
    BY <2>1 DEF Folded, InFiles
  <2>3. OncePlaces' /\ AllMade'
    BY <2>1, <2>2 DEF OncePlaces, AllMade, Apart
  <2>4. OnceFolded'
    BY <2>1 DEF OnceFolded
  <2> QED BY <2>3, <2>4
<1>6. ASSUME NEW w \in Writers, Trim(w) \/ Replace(w) PROVE Once'
  <2>1. /\ UNCHANGED <<made, pending, spool, folding, store>>
        /\ \A t \in Threads : job'[t].toks = job[t].toks
        /\ work.phase \in {"idle", "replace"} /\ work'.phase \in {"idle", "replace"}
    BY <1>6 DEF Trim, Replace, Moved, SpoolsTypeOK
  <2>2. OnceFolded' /\ Folded' = Folded
    BY <2>1 DEF OnceFolded, Folded
  <2> QED BY <1>a, <2>1, <2>2
<1> QED BY <1>1, <1>2, <1>3, <1>4, <1>5, <1>6

(* Without a fault every step keeps what is counted in one place. *)
LEMMA OnceStep ==
  ASSUME SpoolsTypeOK, TokensNumbered, spoolFaults = 0 => Whole /\ Once, [SpoolsNext]_spoolsVars
  PROVE  (spoolFaults = 0 => Once)'
<1> SUFFICES ASSUME spoolFaults' = 0 PROVE Once'
  OBVIOUS
<1>1. CASE UNCHANGED spoolsVars
  BY <1>1 DEF spoolsVars, counts, Once, OncePlaces, OnceFolded, AllMade, Apart, Folded, InFiles
<1>2. CASE SpoolsNext
  <2>1. spoolFaults = 0 /\ There
    BY <1>2, FaultCounted DEF Whole
  <2> QED BY <1>2, <2>1, FaultCounted, OnceMake, OnceWritten, OnceFold
<1> QED BY <1>1, <1>2

(* Without a fault nothing is counted twice (usage.py: fold removes what it saved). *)
THEOREM NothingTwice == SpoolsSpec => []CountedOnce
<1>1. SpoolsInit => Whole /\ Once
  BY DEF SpoolsInit, Whole, Kinds, There, ReadSoFar, Held, Once, OncePlaces, OnceFolded, AllMade,
         Apart, Folded, InFiles, NoJob, NoFile, Idle
<1>2. Once => CountedOnce
  BY DEF Once, OncePlaces, OnceFolded, Apart, Folded, InJobs, InFiles, CountedOnce
<1>3. (spoolFaults = 0 => Whole /\ Once) => CountedOnce
  BY <1>2 DEF CountedOnce
<1>4. SpoolsTypeOK /\ TokensNumbered /\ (spoolFaults = 0 => Whole /\ Once) /\ [SpoolsNext]_spoolsVars
        => (spoolFaults = 0 => Whole /\ Once)'
  BY WholeStep, OnceStep
<1>5. SpoolsSpec => [](SpoolsTypeOK /\ TokensNumbered /\ (spoolFaults = 0 => Whole /\ Once))
  BY <1>1, <1>4, SpoolsTypeInit, SpoolsTypeStep, PTL DEF SpoolsSpec
<1> QED BY <1>3, <1>5, PTL

(* Nothing is counted twice, and the days agree with the totals (usage.py: fold, save). *)
THEOREM StoreIsRight == SpoolsSpec => []TotalsRight
  BY NothingTwice, DaysWithTotals, PTL DEF TotalsRight

-------------------------------------------------------------------------------
(* Portal: a device has what it says it has, and a revision names one document. *)

\* Bundles are numbered in the order they are published.
Numbered == IsFiniteSet(published) /\ \A b \in published : b.id \in 1 .. Cardinality(published)

-----------------------------------------------------------------------------
(* A request that is started (set_policy, set_lists, enrol) is a request. *)
LEMMA BeginsType ==
  ASSUME PortalTypeOK, NEW h \in Handlers, NEW r \in Requests, Begins(h, r),
         r.op = "policy" => r.arg \in 1 .. Len(devices),
         r.op \in {"enrol", "redeem"} => r.arg \in Codes
  PROVE  /\ req' \in [Handlers -> Requests]
         /\ \A g \in Handlers : /\ req'[g].op = "policy" => req'[g].arg \in 1 .. Len(devices)
                                /\ req'[g].op \in {"enrol", "redeem"} => req'[g].arg \in Codes
  BY DEF PortalTypeOK, Begins

(* A request that ends leaves its thread free. *)
LEMMA DoneType ==
  ASSUME PortalTypeOK, NEW h \in Handlers, Done(h)
  PROVE  /\ req' \in [Handlers -> Requests]
         /\ \A g \in Handlers : /\ req'[g].op = "policy" => req'[g].arg \in 1 .. Len(devices)
                                /\ req'[g].op \in {"enrol", "redeem"} => req'[g].arg \in Codes
<1>1. Resting \in Requests /\ Resting.op = "free"
  BY DEF Resting, Requests, Ops, Versions
<1> QED BY <1>1 DEF PortalTypeOK, Done

(* Before anything happened the types hold. *)
LEMMA PortalTypeInit == PortalInit => PortalTypeOK
<1> SUFFICES ASSUME PortalInit PROVE PortalTypeOK
  OBVIOUS
<1>1. Resting \in Requests /\ Resting.op = "free"
  BY DEF Resting, Requests, Ops, Versions
<1>2. NoBundle \in Bundles
  BY DEF NoBundle, Bundles, Versions
<1>3. devices \in Seq(Devices) /\ Len(devices) = 0
  BY DEF PortalInit
<1>4. /\ req \in [Handlers -> Requests]
      /\ \A h \in Handlers : /\ req[h].op = "policy" => req[h].arg \in 1 .. Len(devices)
                             /\ req[h].op \in {"enrol", "redeem"} => req[h].arg \in Codes
  BY <1>1 DEF PortalInit
<1>5. /\ policy \in [rev : Nat, doc : Nat, dev : 0 .. Len(devices)] /\ policy.doc = NoDoc
      /\ lists \in [version : Nat, files : [Names -> Nat]]
  BY <1>3 DEF PortalInit, NoDoc
<1>6. portalFaults \in 0 .. MaxPortalFaults /\ catalogue \in Versions /\ docs \in Nat /\ enrolled \in 0 .. Len(devices)
  BY <1>3, PortalConstants DEF PortalInit, Versions
<1> QED BY <1>2, <1>3, <1>4, <1>5, <1>6 DEF PortalInit, PortalTypeOK, Steps

(* The portal's handlers keep the types. *)
LEMMA TypePortal ==
  ASSUME PortalTypeOK, Numbered, NEW h \in Handlers,
         \/ \E d \in DOMAIN devices : ReadRevision(h, d)
         \/ \E offer \in Offers : ReadVersion(h, offer)
         \/ StorePolicy(h) \/ StoreLists(h) \/ ReadCode(h) \/ Redeem(h)
  PROVE  PortalTypeOK'
<1> USE DEF portal, disk, device
<1>0. Len(devices) \in Nat /\ DOMAIN devices = 1 .. Len(devices)
  BY DEF PortalTypeOK
<1>1. ASSUME NEW d \in DOMAIN devices, ReadRevision(h, d) PROVE PortalTypeOK'
  <2> DEFINE r == [op |-> "policy", arg |-> d, names |-> {}, cat |-> 0, saw |-> devices[d].rev]
  <2>1. devices[d] \in Devices
    BY <1>0 DEF PortalTypeOK
  <2>2. r \in Requests
    BY <1>0, <2>1 DEF Requests, Ops, Versions, Devices
  <2>3. Begins(h, r)
    BY <1>1 DEF ReadRevision
  <2>4. r.op = "policy" /\ r.arg \in 1 .. Len(devices)
    BY <1>0
  <2> HIDE DEF r
  <2> QED BY <1>1, <2>2, <2>3, <2>4, BeginsType DEF ReadRevision, PortalTypeOK
<1>2. ASSUME NEW offer \in Offers, ReadVersion(h, offer) PROVE PortalTypeOK'
  <2> DEFINE r == [op |-> "lists", arg |-> 0, names |-> offer.names, cat |-> offer.cat,
                   saw |-> bundle.version]
  <2>1. r \in Requests
    BY PortalConstants DEF Requests, Ops, Versions, PortalTypeOK, Bundles
  <2>2. Begins(h, r)
    BY <1>2 DEF ReadVersion
  <2>3. r.op = "lists"
    OBVIOUS
  <2> HIDE DEF r
  <2> QED BY <1>2, <2>1, <2>2, <2>3, BeginsType DEF ReadVersion, PortalTypeOK
<1>3. CASE StorePolicy(h)
  <2> DEFINE d == req[h].arg
             v == [rev |-> req[h].saw + 1, doc |-> docs + 1]
  <2>a. req[h] \in Requests
    BY DEF PortalTypeOK
  <2>b. req[h].saw \in Nat /\ docs \in Nat
    BY <2>a DEF PortalTypeOK, Requests
  <2>1. d \in 1 .. Len(devices) /\ v \in Devices
    <3>1. d \in 1 .. Len(devices)
      BY <1>3 DEF StorePolicy, PortalTypeOK
    <3>2. v \in Devices
      BY <2>b DEF Devices
    <3> QED BY <3>1, <3>2
  <2>2. devices' = [devices EXCEPT ![d] = v]
    BY <1>3 DEF StorePolicy
  <2> HIDE DEF d, v
  <2>3. devices' \in Seq(Devices) /\ Len(devices') = Len(devices)
    BY <1>0, <2>1, <2>2, ExceptSeq DEF PortalTypeOK
  <2>4. clash' \in BOOLEAN /\ docs' \in Nat
    BY <1>3 DEF StorePolicy, PortalTypeOK
  <2> QED BY <1>3, <2>3, <2>4, DoneType DEF StorePolicy, PortalTypeOK
<1>4. CASE StoreLists(h)
  <2> DEFINE b == [version |-> req[h].saw + 1, id |-> Cardinality(published) + 1,
                   names |-> req[h].names, cat |-> req[h].cat]
  <2>1. req[h] \in Requests /\ Cardinality(published) \in Nat
    BY FS_CardinalityType DEF PortalTypeOK, Numbered
  <2>2. b \in Bundles
    BY <2>1 DEF Bundles, Requests
  <2>3. bundle' = b /\ published' = published \cup {b} /\ Done(h)
    BY <1>4 DEF StoreLists
  <2> HIDE DEF b
  <2>4. clash' \in BOOLEAN
    BY <1>4 DEF StoreLists, PortalTypeOK
  <2> QED BY <1>4, <2>2, <2>3, <2>4, DoneType DEF StoreLists, PortalTypeOK
<1>5. CASE ReadCode(h)
  <2>1. CASE code[req[h].arg] = "unused"
    <3>1. req' = [req EXCEPT ![h] = [req[h] EXCEPT !.op = "redeem"]]
      BY <1>5, <2>1 DEF ReadCode
    <3>a. ASSUME NEW r \in Requests PROVE [r EXCEPT !.op = "redeem"] \in Requests
      BY DEF Requests, Ops
    <3>2. req' \in [Handlers -> Requests]
      BY <3>1, <3>a DEF PortalTypeOK
    <3>3. \A g \in Handlers : /\ req'[g].op = "policy" => req'[g].arg \in 1 .. Len(devices)
                              /\ req'[g].op \in {"enrol", "redeem"} => req'[g].arg \in Codes
      BY <1>5, <3>1 DEF PortalTypeOK, Requests, ReadCode
    <3> QED BY <1>5, <2>1, <3>2, <3>3 DEF ReadCode, PortalTypeOK
  <2>2. CASE code[req[h].arg] # "unused"
    <3>1. Done(h) /\ asks' \in Handlers \cup {Nobody} /\ step' \in {step, "idle"}
      BY <1>5, <2>2 DEF ReadCode, PortalTypeOK
    <3> QED BY <1>5, <3>1, DoneType DEF ReadCode, PortalTypeOK, Steps
  <2> QED BY <2>1, <2>2
<1>6. CASE Redeem(h)
  <2> DEFINE v == [rev |-> 0, doc |-> NoDoc]
  <2>1. devices' = Append(devices, v) /\ v \in Devices
    BY <1>6 DEF Redeem, Devices, NoDoc
  <2> HIDE DEF v
  <2>2. devices' \in Seq(Devices) /\ Len(devices') = Len(devices) + 1
    BY <2>1 DEF PortalTypeOK
  <2>3. /\ req' \in [Handlers -> Requests]
        /\ \A g \in Handlers : /\ req'[g].op = "policy" => req'[g].arg \in 1 .. Len(devices)
                               /\ req'[g].op \in {"enrol", "redeem"} => req'[g].arg \in Codes
    BY <1>6, DoneType DEF Redeem
  <2>4. 0 .. Len(devices) \subseteq 0 .. Len(devices') /\ 1 .. Len(devices) \subseteq 1 .. Len(devices')
    BY <1>0, <2>2
  <2>5. /\ enrolled' \in 0 .. Len(devices') /\ asks' \in Handlers \cup {Nobody} /\ step' \in Steps
        /\ step' \in Steps \ {"idle", "enrolling"} => enrolled' # 0
    BY <1>0, <1>6, <2>2, <2>4 DEF Redeem, PortalTypeOK, Steps
  <2>6. /\ policy' \in [rev : Nat, doc : Nat, dev : 0 .. Len(devices')]
        /\ policy'.doc # NoDoc => policy'.dev # 0
    BY <1>6, <2>4 DEF Redeem, PortalTypeOK
  <2>7. code' \in [Codes -> {"unused", "used"}]
    BY <1>6 DEF Redeem, PortalTypeOK
  <2> QED BY <1>6, <2>2, <2>3, <2>4, <2>5, <2>6, <2>7 DEF Redeem, PortalTypeOK
<1> QED BY <1>1, <1>2, <1>3, <1>4, <1>5, <1>6

(* The device's steps keep the types. *)
LEMMA TypeDevice ==
  ASSUME PortalTypeOK,
         \/ \E h \in Handlers, c \in Codes : Enrol(h, c)
         \/ EnrolTimesOut \/ Unenrol \/ LocalChange \/ Begin \/ FetchLists
         \/ \E n \in Names : WriteList(n)
         \/ WriteVersion \/ UpdateCatalogue \/ PolicyAnswered \/ PolicyUnreached
         \/ Interrupted \/ Boot
  PROVE  PortalTypeOK'
<1> USE DEF portal, disk, device, Steps
<1>0. Len(devices) \in Nat /\ DOMAIN devices = 1 .. Len(devices) /\ NoBundle \in Bundles
  BY DEF PortalTypeOK, NoBundle, Bundles, Versions
<1>1. ASSUME NEW h \in Handlers, NEW c \in Codes, Enrol(h, c) PROVE PortalTypeOK'
  <2> DEFINE r == [op |-> "enrol", arg |-> c, names |-> {}, cat |-> 0, saw |-> 0]
  <2>1. r \in Requests /\ r.op = "enrol" /\ r.arg = c
    BY DEF Requests, Ops, Versions
  <2>2. Begins(h, r)
    BY <1>1 DEF Enrol
  <2> HIDE DEF r
  <2> QED BY <1>1, <2>1, <2>2, BeginsType DEF Enrol, PortalTypeOK
<1>2. CASE EnrolTimesOut \/ Interrupted
  <2>1. portalFaults' \in 0 .. MaxPortalFaults
    BY <1>2, PortalConstants DEF EnrolTimesOut, Interrupted, PortalFault, PortalTypeOK
  <2> QED BY <1>0, <1>2, <2>1 DEF EnrolTimesOut, Interrupted, PortalTypeOK
<1>3. CASE Unenrol
  BY <1>0, <1>3 DEF Unenrol, PortalTypeOK
<1>b. CASE Begin
  BY <1>b DEF Begin, PortalTypeOK
<1>c. CASE Boot
  <2>1. timer' \in BOOLEAN
    BY <1>c DEF Boot
  <2> QED BY <1>c, <2>1 DEF Boot, PortalTypeOK
<1>4. CASE LocalChange
  <2>1. policy' \in [rev : Nat, doc : Nat, dev : 0 .. Len(devices)] /\ policy'.doc = NoDoc
    BY <1>0, <1>4 DEF LocalChange, PortalTypeOK, NoDoc
  <2> QED BY <1>4, <2>1 DEF LocalChange, PortalTypeOK
<1>5. CASE FetchLists
  BY <1>5 DEF FetchLists, PortalTypeOK
<1>6. ASSUME NEW n \in Names, WriteList(n) PROVE PortalTypeOK'
  <2>1. got.id \in Nat
    BY DEF PortalTypeOK, Bundles
  <2>2. lists' \in [version : Nat, files : [Names -> Nat]]
    BY <1>6, <2>1 DEF WriteList, PortalTypeOK
  <2> QED BY <1>6, <2>2 DEF WriteList, PortalTypeOK
<1>7. CASE WriteVersion
  <2>1. got.version \in Nat
    BY DEF PortalTypeOK, Bundles
  <2>2. lists' \in [version : Nat, files : [Names -> Nat]]
    BY <1>7, <2>1 DEF WriteVersion, PortalTypeOK
  <2> QED BY <1>7, <2>2 DEF WriteVersion, AfterLists, PortalTypeOK
<1>8. CASE UpdateCatalogue
  <2>1. catalogue' \in Versions /\ missed' \in BOOLEAN
    BY <1>8 DEF UpdateCatalogue, PortalTypeOK, Bundles
  <2>2. portalFaults' \in 0 .. MaxPortalFaults
    BY <1>8, PortalConstants DEF UpdateCatalogue, PortalFault, PortalTypeOK
  <2> QED BY <1>8, <2>1, <2>2 DEF UpdateCatalogue, PortalTypeOK
<1>9. CASE PolicyAnswered
  <2>1. enrolled \in 1 .. Len(devices)
    BY <1>0, <1>9 DEF PolicyAnswered, PortalTypeOK
  <2>2. devices[enrolled] \in Devices
    BY <1>0, <2>1 DEF PortalTypeOK
  <2>3. /\ policy' \in [rev : Nat, doc : Nat, dev : 0 .. Len(devices)]
        /\ policy'.doc # NoDoc => policy'.dev # 0
    BY <1>0, <1>9, <2>1, <2>2 DEF PolicyAnswered, Saved, PortalTypeOK, Devices
  <2> QED BY <1>0, <1>9, <2>3 DEF PolicyAnswered, PortalTypeOK
<1>10. CASE PolicyUnreached
  BY <1>0, <1>10 DEF PolicyUnreached, PortalTypeOK
<1> QED BY <1>1, <1>2, <1>3, <1>b, <1>c, <1>4, <1>5, <1>6, <1>7, <1>8, <1>9, <1>10

(* A bundle that is published (set_lists) is a new one, with the next number. *)
LEMMA Published ==
  ASSUME PortalTypeOK, Numbered, NEW h \in Handlers, StoreLists(h)
  PROVE  /\ published' = published \cup {bundle'} /\ bundle' \notin published
         /\ bundle'.id = Cardinality(published) + 1
         /\ Cardinality(published) \in Nat /\ Cardinality(published') = Cardinality(published) + 1
         /\ Numbered'
<1>1. published' = published \cup {bundle'} /\ bundle'.id = Cardinality(published) + 1
  BY DEF StoreLists
<1>2. Cardinality(published) \in Nat
  BY FS_CardinalityType DEF Numbered
<1>3. bundle' \notin published
  BY <1>1, <1>2 DEF Numbered
<1>4. IsFiniteSet(published') /\ Cardinality(published') = Cardinality(published) + 1
  BY <1>1, <1>3, FS_AddElement DEF Numbered
<1>5. \A b \in published' : b.id \in 1 .. Cardinality(published')
  BY <1>1, <1>2, <1>4 DEF Numbered
<1>6. Numbered'
  BY <1>4, <1>5 DEF Numbered
<1> QED BY <1>1, <1>2, <1>3, <1>4, <1>6

(* Every step keeps the types and the numbering. *)
LEMMA PortalTypeStep == PortalTypeOK /\ Numbered /\ [PortalNext]_portalVars => PortalTypeOK' /\ Numbered'
<1> SUFFICES ASSUME PortalTypeOK, Numbered, [PortalNext]_portalVars PROVE PortalTypeOK' /\ Numbered'
  OBVIOUS
<1>1. CASE UNCHANGED portalVars
  BY <1>1 DEF portalVars, portal, disk, device, PortalTypeOK, Numbered
<1>2. CASE PortalNext
  <2>a. ASSUME NEW h \in Handlers,
               \/ \E d \in DOMAIN devices : ReadRevision(h, d)
               \/ \E offer \in Offers : ReadVersion(h, offer)
               \/ StorePolicy(h) \/ StoreLists(h) \/ ReadCode(h) \/ Redeem(h)
        PROVE  PortalTypeOK'
    BY <2>a, TypePortal
  <2>1. PortalTypeOK'
    BY <1>2, <2>a, TypeDevice DEF PortalNext
  <2>2. CASE \E h \in Handlers : StoreLists(h)
    <3>1. PICK h \in Handlers : StoreLists(h)
      BY <2>2
    <3> QED BY <2>1, <3>1, Published
  <2>3. CASE published' = published
    BY <2>1, <2>3 DEF Numbered
  <2>4. (\E h \in Handlers : StoreLists(h)) \/ published' = published
    BY <1>2 DEF PortalNext, ReadRevision, StorePolicy, ReadVersion, ReadCode, Redeem, Enrol,
       EnrolTimesOut, Unenrol, LocalChange, Begin, FetchLists, WriteList, WriteVersion,
       UpdateCatalogue, PolicyAnswered, PolicyUnreached, Interrupted, Boot, portal, disk, device
  <2> QED BY <2>1, <2>2, <2>3, <2>4
<1> QED BY <1>1, <1>2

(* The types hold from the start, and stay. *)
LEMMA TypesHold == PortalSpec => [](PortalTypeOK /\ Numbered)
<1>1. ASSUME PortalInit PROVE Numbered
  <2>1. published = {}
    BY <1>1 DEF PortalInit
  <2> QED BY <2>1, FS_EmptySet DEF Numbered
<1> QED BY <1>1, PortalTypeInit, PortalTypeStep, PTL DEF PortalSpec

(* Every variable of the portal and the device keeps its type, whatever is lost. *)
THEOREM PortalTyped == PortalSpec => []PortalTypeOK
  BY TypesHold, PTL

-----------------------------------------------------------------------------
\* A policy the device took from the portal is not newer than the portal's.
NotAhead ==
    (policy.doc # NoDoc /\ ~ clash) => policy.rev <= devices[policy.dev].rev

(* The portal counts up (set_policy) and the device takes what it counted. *)
LEMMA SameNumberStep ==
  ASSUME PortalTypeOK, NotAhead, SameNumberSameDocument, [PortalNext]_portalVars
  PROVE  NotAhead' /\ SameNumberSameDocument'
<1> USE DEF NotAhead, SameNumberSameDocument, portal, disk, device
<1>0. /\ Len(devices) \in Nat /\ DOMAIN devices = 1 .. Len(devices)
      /\ \A d \in 1 .. Len(devices) : devices[d] \in Devices
      /\ \A d \in 1 .. Len(devices) : devices[d].rev \in Nat
      /\ policy.rev \in Nat /\ policy.dev \in 0 .. Len(devices)
      /\ policy.doc # NoDoc => policy.dev \in 1 .. Len(devices)
  <2>1. \A d \in 1 .. Len(devices) : devices[d] \in Devices
    BY DEF PortalTypeOK
  <2>2. \A d \in 1 .. Len(devices) : devices[d].rev \in Nat
    BY <2>1 DEF Devices
  <2>3. policy.rev \in Nat /\ policy.dev \in 0 .. Len(devices)
    BY DEF PortalTypeOK
  <2>4. Len(devices) \in Nat /\ DOMAIN devices = 1 .. Len(devices)
    BY DEF PortalTypeOK
  <2>5. policy.doc # NoDoc => policy.dev # 0
    BY DEF PortalTypeOK
  <2> QED BY <2>1, <2>2, <2>3, <2>4, <2>5
<1>1. CASE UNCHANGED <<policy, devices, clash>>
  BY <1>1
<1>2. ASSUME NEW h \in Handlers, StorePolicy(h)
      PROVE  NotAhead' /\ SameNumberSameDocument'
  <2> DEFINE d == req[h].arg
             v == [rev |-> req[h].saw + 1, doc |-> docs + 1]
  <2>1. d \in 1 .. Len(devices) /\ devices' = [devices EXCEPT ![d] = v] /\ UNCHANGED policy
    BY <1>2 DEF StorePolicy, PortalTypeOK
  <2>2. clash' = (clash \/ devices[d].rev # req[h].saw)
    BY <1>2 DEF StorePolicy
  <2>3. devices'[d] = v /\ \A e \in 1 .. Len(devices) : e # d => devices'[e] = devices[e]
    BY <1>0, <2>1 DEF PortalTypeOK
  <2>4. ~ clash' => ~ clash /\ v.rev = devices[d].rev + 1
    BY <2>2
  <2> HIDE DEF d, v
  <2>5. CASE policy.dev = d
    BY <1>0, <2>1, <2>3, <2>4, <2>5
  <2>6. CASE policy.dev # d
    BY <1>0, <2>1, <2>3, <2>4, <2>6
  <2> QED BY <2>5, <2>6
<1>3. ASSUME NEW h \in Handlers, StoreLists(h)
      PROVE  NotAhead' /\ SameNumberSameDocument'
  <2>1. UNCHANGED <<policy, devices>> /\ (~ clash' => ~ clash)
    BY <1>3 DEF StoreLists
  <2> QED BY <2>1
<1>4. ASSUME NEW h \in Handlers, Redeem(h)
      PROVE  NotAhead' /\ SameNumberSameDocument'
  <2>1. UNCHANGED <<policy, clash>> /\ devices' = Append(devices, [rev |-> 0, doc |-> NoDoc])
    BY <1>4 DEF Redeem
  <2>2. \A d \in 1 .. Len(devices) : devices'[d] = devices[d]
    BY <1>0, <2>1 DEF PortalTypeOK
  <2> QED BY <1>0, <2>1, <2>2
<1>5. CASE LocalChange
  BY <1>5 DEF LocalChange, NoDoc
<1>6. CASE PolicyAnswered
  <2>1. CASE Newer
    <3>1. /\ policy' = [rev |-> devices[enrolled].rev, doc |-> devices[enrolled].doc, dev |-> enrolled]
          /\ UNCHANGED <<devices, clash>> /\ enrolled \in 1 .. Len(devices)
      BY <1>0, <1>6, <2>1 DEF PolicyAnswered, Saved, PortalTypeOK, Steps
    <3>2. /\ policy'.rev = devices[enrolled].rev /\ policy'.doc = devices[enrolled].doc
          /\ policy'.dev = enrolled
      BY <3>1
    <3> QED BY <1>0, <3>1, <3>2
  <2>2. CASE ~ Newer
    BY <1>6, <2>2 DEF PolicyAnswered
  <2> QED BY <2>1, <2>2
<1>7. \/ UNCHANGED <<policy, devices, clash>> \/ LocalChange \/ PolicyAnswered
      \/ \E h \in Handlers : StorePolicy(h) \/ StoreLists(h) \/ Redeem(h)
  BY DEF PortalNext, portalVars, ReadRevision, ReadVersion, ReadCode, Enrol, EnrolTimesOut, Unenrol, Begin,
         FetchLists, WriteList, WriteVersion, UpdateCatalogue, PolicyUnreached, Interrupted, Boot
<1> QED BY <1>1, <1>2, <1>3, <1>4, <1>5, <1>6, <1>7

(* A revision names one document, unless two requests were given one number (set_policy). *)
THEOREM OneDocumentANumber == PortalSpec => []SameNumberSameDocument
<1>1. PortalInit => NotAhead /\ SameNumberSameDocument
  BY DEF PortalInit, NotAhead, SameNumberSameDocument, NoDoc
<1> QED BY <1>1, TypesHold, SameNumberStep, PTL DEF PortalSpec

-----------------------------------------------------------------------------
\* Without two requests at once a bundle's number is its version, and the
\* device installs bundles in their order.
InOrder ==
    ~ clash =>
        /\ bundle.version = Cardinality(published)
        /\ bundle = NoBundle \/ bundle \in published
        /\ \A b \in published : b.version = b.id
        /\ \A b, c \in published : b.id = c.id => b = c
        /\ got = NoBundle \/ got \in published
        /\ step \in {"files", "catalogue"} => got \in published
        /\ lists.version <= Cardinality(published)
        /\ \A n \in Names : lists.files[n] <= Cardinality(published)
        /\ step = "files" => \A n \in Names : lists.files[n] <= got.id

\* The catalogue is the one of the lists that are installed, or is next.
CatalogueNext ==
    (~ clash /\ ~ missed) =>
        \A b \in published :
            b.version = lists.version => catalogue >= b.cat \/ (step = "catalogue" /\ got = b)

\* The device waits for an answer only while it enrols.
Waiting == asks # Nobody => step = "enrolling"

Following == InOrder /\ ListsAsVersioned /\ CatalogueNext /\ Waiting

(* A bundle that is published with the next version (set_lists) is newer than all there were. *)
LEMMA FollowingPublished ==
  ASSUME PortalTypeOK, Numbered, Following, NEW h \in Handlers, StoreLists(h)
  PROVE  Following'
<1> DEFINE card == Cardinality(published)
<1> USE DEF Following, device, disk
<1>1. /\ published' = published \cup {bundle'} /\ bundle'.id = card + 1 /\ card \in Nat
      /\ Cardinality(published') = card + 1
  BY Published
<1>2. /\ bundle'.version = req[h].saw + 1 /\ clash' = (clash \/ bundle.version # req[h].saw)
      /\ UNCHANGED <<asks, device>>
  BY DEF StoreLists
<1>3. \A b \in published : b.id \in 1 .. card
  BY DEF Numbered
<1>4. Waiting'
  BY <1>2 DEF Waiting
<1> SUFFICES ASSUME ~ clash' PROVE InOrder' /\ ListsAsVersioned' /\ CatalogueNext'
  BY <1>4 DEF InOrder, ListsAsVersioned, CatalogueNext
<1>5. ~ clash /\ bundle'.version = card + 1
  BY <1>1, <1>2 DEF InOrder
<1>6. /\ \A b \in published : b.version = b.id /\ b.version <= card
      /\ lists.version <= card /\ lists.version \in Nat
      /\ \A n \in Names : lists.files[n] <= card /\ lists.files[n] \in Nat
  BY <1>1, <1>3, <1>5 DEF InOrder, PortalTypeOK
<1> HIDE DEF card
<1>7. /\ \A b \in published' : b.version = b.id
      /\ \A b, c \in published' : b.id = c.id => b = c
  BY <1>1, <1>3, <1>5, <1>6 DEF InOrder
<1>8. lists'.version <= card + 1 /\ \A n \in Names : lists'.files[n] <= card + 1
  BY <1>1, <1>2, <1>6
<1>9. InOrder'
  BY <1>1, <1>2, <1>5, <1>7, <1>8 DEF InOrder
<1>10. \A b \in published' : b.version = lists.version => b \in published
  BY <1>1, <1>5, <1>6
<1>11. ListsAsVersioned' /\ CatalogueNext'
  BY <1>2, <1>5, <1>10 DEF ListsAsVersioned, CatalogueNext
<1> QED BY <1>9, <1>11

(* Installing (install_portal_lists) replaces older lists by newer ones. *)
LEMMA FollowingLists ==
  ASSUME PortalTypeOK, Numbered, Following,
         FetchLists \/ WriteVersion \/ \E n \in Names : WriteList(n)
  PROVE  Following'
<1> USE DEF Following, portal, disk
<1>0. /\ Cardinality(published) \in Nat /\ \A b \in published : b.id \in 1 .. Cardinality(published)
      /\ lists.version \in Nat /\ \A n \in Names : lists.files[n] \in Nat
      /\ \A b \in published : b \in Bundles
  BY FS_CardinalityType DEF Numbered, PortalTypeOK
<1>1. UNCHANGED <<portal, asks, catalogue, missed>>
  BY DEF FetchLists, WriteVersion, WriteList
<1>2. Waiting'
  BY DEF FetchLists, WriteVersion, WriteList, Waiting
<1> SUFFICES ASSUME ~ clash PROVE InOrder' /\ ListsAsVersioned' /\ CatalogueNext'
  BY <1>1, <1>2 DEF InOrder, ListsAsVersioned, CatalogueNext
<1>3. CASE FetchLists
  <2>1. UNCHANGED lists /\ step = "lists" /\ step' \in {"files", "policy"}
    BY <1>3 DEF FetchLists
  <2>2. \/ got' = got /\ step' = "policy"
        \/ got' = bundle /\ bundle.version > lists.version
    BY <1>3 DEF FetchLists
  <2>3. got' = bundle /\ bundle.version > lists.version
          => bundle \in published /\ bundle.id = Cardinality(published)
    BY <1>0 DEF InOrder, NoBundle
  <2>4. InOrder'
    BY <1>1, <2>1, <2>2, <2>3 DEF InOrder
  <2> QED BY <1>1, <2>1, <2>4 DEF ListsAsVersioned, CatalogueNext
<1>4. ASSUME NEW n \in Names, WriteList(n)
      PROVE  InOrder' /\ ListsAsVersioned' /\ CatalogueNext'
  <2>1. /\ lists'.version = lists.version /\ lists'.files = [lists.files EXCEPT ![n] = got.id]
        /\ step = "files" /\ UNCHANGED <<step, got>>
    BY <1>4 DEF WriteList, PortalTypeOK
  <2>2. got \in published /\ lists.files[n] <= got.id /\ got.id <= Cardinality(published)
    BY <1>0, <2>1 DEF InOrder
  <2>3. \A k \in Names : lists'.files[k] = IF k = n THEN got.id ELSE lists.files[k]
    BY <2>1 DEF PortalTypeOK
  <2>4. \A k \in Names : lists.files[k] <= lists'.files[k] /\ lists'.files[k] <= got.id
                          /\ lists'.files[k] \in Nat
    BY <1>0, <2>1, <2>2, <2>3 DEF InOrder
  <2>5. InOrder'
    BY <1>0, <1>1, <2>1, <2>2, <2>4 DEF InOrder
  <2>6. \A b \in published : b.id \in Nat /\ b.names \subseteq Names
    BY <1>0 DEF Bundles
  <2>7. ListsAsVersioned'
    <3>1. SUFFICES ASSUME NEW b \in published, b.version = lists.version, NEW k \in b.names
                   PROVE  lists'.files[k] >= b.id
      BY <1>1, <2>1 DEF ListsAsVersioned
    <3>2. lists.files[k] >= b.id /\ k \in Names
      BY <2>6, <3>1 DEF ListsAsVersioned
    <3> QED BY <1>0, <2>4, <2>6, <3>2
  <2>8. CatalogueNext'
    BY <1>1, <2>1 DEF CatalogueNext
  <2> QED BY <2>5, <2>7, <2>8
<1>5. CASE WriteVersion
  <2>1. /\ lists'.version = got.version /\ lists'.files = lists.files /\ UNCHANGED got
        /\ step = "files" /\ step' = AfterLists(got) /\ Installed
    BY <1>5 DEF WriteVersion, PortalTypeOK
  <2>2. got \in published /\ got.version = got.id /\ got.id <= Cardinality(published)
    BY <1>0, <2>1 DEF InOrder
  <2>3. \A b \in published : b.version = got.version => b = got
    BY <2>2 DEF InOrder
  <2>4. step' \in {"catalogue", "policy"} /\ (step' = "policy" => got.cat = 0)
    BY <2>1 DEF AfterLists
  <2>5. InOrder'
    BY <1>1, <2>1, <2>2, <2>4 DEF InOrder
  <2>6. ListsAsVersioned'
    <3>1. \A n \in got.names : lists'.files[n] >= got.id
      BY <1>0, <2>1, <2>2 DEF Installed, Bundles
    <3> QED BY <1>1, <2>1, <2>3, <3>1 DEF ListsAsVersioned
  <2>7. catalogue \in Nat
    BY PortalConstants DEF PortalTypeOK, Versions
  <2>8. CatalogueNext'
    BY <1>1, <2>1, <2>3, <2>4, <2>7 DEF CatalogueNext
  <2> QED BY <2>5, <2>6, <2>8
<1> QED BY <1>3, <1>4, <1>5

(* A step that leaves the bundles and the lists alone, and begins no installation. *)
LEMMA FollowingOther ==
  ASSUME Following, Waiting', UNCHANGED <<bundle, published, lists>>, ~ clash' => ~ clash,
         ~ missed' => ~ missed, UNCHANGED catalogue,
         \/ UNCHANGED <<got, step>>
         \/ /\ got' = got \/ got' = NoBundle
            /\ step' \notin {"files", "catalogue"}
            /\ step = "catalogue" => missed'
  PROVE  Following'
<1>1. InOrder' /\ ListsAsVersioned'
  BY DEF Following, InOrder, ListsAsVersioned
<1>2. CatalogueNext'
  BY DEF Following, CatalogueNext
<1> QED BY <1>1, <1>2 DEF Following

(* The catalogue the lists came with is installed, or missed (catalogsync.update). *)
LEMMA FollowingCatalogue ==
  ASSUME PortalTypeOK, Following, UpdateCatalogue
  PROVE  Following'
<1> USE DEF Following, portal
<1>1. /\ UNCHANGED <<bundle, published, clash, asks, lists, got>>
      /\ step = "catalogue" /\ step' = "policy"
  BY DEF UpdateCatalogue
<1>2. InOrder' /\ ListsAsVersioned' /\ Waiting'
  BY <1>1 DEF InOrder, ListsAsVersioned, Waiting
<1>3. catalogue \in Nat /\ got.cat \in Nat
  <2>1. catalogue \in Versions /\ got.cat \in Versions
    BY DEF PortalTypeOK, Bundles
  <2>2. Versions \subseteq Nat
    BY PortalConstants DEF Versions
  <2> QED BY <2>1, <2>2
<1>4. \/ got.cat <= catalogue /\ UNCHANGED <<catalogue, missed>>
      \/ got.cat > catalogue /\ catalogue' = got.cat /\ UNCHANGED missed
      \/ missed' = TRUE
  <2>1. CASE got.cat <= catalogue
    BY <2>1 DEF UpdateCatalogue
  <2>2. CASE ~ (got.cat <= catalogue)
    <3>1. \/ catalogue' = got.cat /\ missed' = missed
          \/ missed' = TRUE
      BY <2>2 DEF UpdateCatalogue
    <3> QED BY <1>3, <2>2, <3>1
  <2> QED BY <2>1, <2>2
<1>5. \A b \in published : b.cat \in Nat
  <2>1. Versions \subseteq Nat
    BY PortalConstants DEF Versions
  <2>2. \A b \in Bundles : b.cat \in Versions
    BY DEF Bundles
  <2>3. published \subseteq Bundles
    BY DEF PortalTypeOK
  <2> QED BY <2>1, <2>2, <2>3
<1>6. CatalogueNext'
  <2>1. SUFFICES ASSUME ~ clash, ~ missed', NEW b \in published, b.version = lists.version
                 PROVE  catalogue' >= b.cat
    BY <1>1 DEF CatalogueNext
  <2>2. ~ missed
    BY <1>4, <2>1
  <2>3. catalogue >= b.cat \/ got = b
    BY <2>1, <2>2 DEF CatalogueNext
  <2> QED BY <1>3, <1>4, <1>5, <2>1, <2>3
<1> QED BY <1>2, <1>6

(* Every step keeps the lists, their version and their catalogue together. *)
LEMMA FollowingStep == PortalTypeOK /\ Numbered /\ Following /\ [PortalNext]_portalVars => Following'
<1> SUFFICES ASSUME PortalTypeOK, Numbered, Following, [PortalNext]_portalVars PROVE Following'
  OBVIOUS
<1>0. Waiting /\ Nobody \notin Handlers /\ asks \in Handlers \cup {Nobody}
  BY PortalConstants DEF Following, PortalTypeOK, Nobody
<1> USE DEF portal, disk, device, Waiting
<1>1. CASE UNCHANGED portalVars
  BY <1>0, <1>1, FollowingOther DEF portalVars
<1>2. ASSUME NEW h \in Handlers, StoreLists(h) PROVE Following'
  BY <1>2, FollowingPublished
<1>3. ASSUME NEW h \in Handlers,
             StorePolicy(h) \/ (\E d \in DOMAIN devices : ReadRevision(h, d))
               \/ (\E offer \in Offers : ReadVersion(h, offer))
      PROVE  Following'
  <2>1. /\ UNCHANGED <<bundle, published, lists, got, step, catalogue, missed, asks>>
        /\ ~ clash' => ~ clash
    <3>1. CASE StorePolicy(h)
      BY <3>1 DEF StorePolicy
    <3>2. ASSUME NEW d \in DOMAIN devices, ReadRevision(h, d)
          PROVE  UNCHANGED <<bundle, published, lists, got, step, catalogue, missed, asks, clash>>
      BY <3>2 DEF ReadRevision
    <3>3. ASSUME NEW offer \in Offers, ReadVersion(h, offer)
          PROVE  UNCHANGED <<bundle, published, lists, got, step, catalogue, missed, asks, clash>>
      BY <3>3 DEF ReadVersion
    <3> QED BY <1>3, <3>1, <3>2, <3>3
  <2> QED BY <1>0, <2>1, FollowingOther
<1>4. ASSUME NEW h \in Handlers, ReadCode(h) \/ Redeem(h) PROVE Following'
  <2>1. /\ UNCHANGED <<bundle, published, lists, got, catalogue, missed, clash>>
        /\ \/ UNCHANGED <<step, asks>>
           \/ step = "enrolling" /\ step' \in {"idle", "lists"} /\ asks' = Nobody
    BY <1>0, <1>4 DEF ReadCode, Redeem
  <2> QED BY <1>0, <2>1, FollowingOther
<1>5. CASE FetchLists \/ WriteVersion \/ \E n \in Names : WriteList(n)
  BY <1>5, FollowingLists
<1>6. CASE UpdateCatalogue
  BY <1>6, FollowingCatalogue
<1>7. CASE \/ \E h \in Handlers, c \in Codes : Enrol(h, c)
           \/ EnrolTimesOut \/ Unenrol \/ Begin \/ Boot \/ LocalChange
  <2>1. /\ UNCHANGED <<bundle, published, lists, got, catalogue, missed, clash>>
        /\ \/ UNCHANGED <<step, asks>>
           \/ step = "idle" /\ step' = "enrolling"
           \/ step = "idle" /\ step' = "lists" /\ UNCHANGED asks
           \/ step = "enrolling" /\ step' = "idle" /\ asks' = Nobody
    BY <1>7 DEF Enrol, EnrolTimesOut, Unenrol, Begin, Boot, LocalChange
  <2> QED BY <1>0, <2>1, FollowingOther
<1>8. CASE PolicyAnswered \/ PolicyUnreached \/ Interrupted
  <2>1. /\ UNCHANGED <<bundle, published, lists, catalogue, clash, asks>>
        /\ got' = NoBundle /\ step' = "idle" /\ step # "enrolling"
        /\ (~ missed' => ~ missed) /\ (step = "catalogue" => missed')
    <3>1. CASE PolicyAnswered \/ PolicyUnreached
      BY <3>1 DEF PolicyAnswered, PolicyUnreached
    <3>2. CASE Interrupted
      BY <3>2 DEF Interrupted
    <3> QED BY <1>8, <3>1, <3>2
  <2> QED BY <1>0, <2>1, FollowingOther
<1>9. CASE PortalNext
  BY <1>9, <1>2, <1>3, <1>4, <1>5, <1>6, <1>7, <1>8 DEF PortalNext
<1> QED BY <1>1, <1>9

(* What a device says it has, it has: the lists of the version it wrote down, and after
   the call the catalogue they came with (install_portal_lists, Daemon.sync_now). *)
THEOREM ListsFollow == PortalSpec => []ListsInStep
<1>1. ASSUME PortalInit PROVE Following
  <2>1. published = {} /\ Cardinality({}) = 0
    BY <1>1, FS_EmptySet DEF PortalInit
  <2> QED BY <1>1, <2>1 DEF PortalInit, Following, InOrder, ListsAsVersioned, CatalogueNext, Waiting,
             NoBundle, Nobody
<1>2. Following => ListsInStep
  BY DEF Following, CatalogueNext, CatalogueFollows, ListsInStep
<1> QED BY <1>1, <1>2, TypesHold, FollowingStep, PTL DEF PortalSpec
===============================================================================
