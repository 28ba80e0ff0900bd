-------------------------------- MODULE Guardian --------------------------------
(***************************************************************************)
(* Who may change the filter: the gates of _handle_call.  A caller without   *)
(* an admin session is put to polkit (an administrator is let through at     *)
(* once, anybody else needs an administrator's password typed, and kosherd   *)
(* waits for it); a call that can weaken the filter also needs the guardian  *)
(* password once per sitting, when the guardian is on.  Sessions and proofs   *)
(* live in kosherd's memory and slide; wrong guesses are counted in a file,   *)
(* by the wall clock, which may be set back or forward.                      *)
(*                                                                           *)
(* A time is kept as an age, how long ago it was, and ages stop at the point  *)
(* from which on the code treats them alike: time has no bound here.          *)
(***************************************************************************)
EXTENDS Integers

CONSTANTS Uids,        \* people who may call kosherd
          Admins,      \* ... and are in kosher-admin
          Passwords,   \* guardian passwords, each long enough
          Blank,       \* no password typed
          TTL, MaxFailures, Lockout, Window,   \* session.py, guardian.py
          Skew,        \* bound: how far the wall clock may be moved
          Faults       \* the steps that may fail in this instance

None == -1             \* no session, no proof
NoHash == "none"       \* no guardian.shadow
Unclear == -1

ASSUME UidAssumption == Admins \subseteq Uids /\ Admins # {}
ASSUME PasswordAssumption == Passwords # {} /\ Blank \notin Passwords /\ NoHash \notin Passwords
ASSUME TimeAssumption == /\ {TTL, Lockout, Window, Skew} \subseteq Nat /\ Lockout > 0
                         /\ MaxFailures \in Nat \ {0}
ASSUME GuardianFaultAssumption == Faults \subseteq {"save", "apply", "boot"}

VARIABLES session, proof,  \* SessionStore: age of the last use, per account
          mem, disk,       \* guardian_enabled in the policy
          snapshot,        \* _handle_call's copy of it
          shadow,          \* guardian.shadow
          att,             \* guardian_attempts.json
          skew,            \* how far the wall clock is ahead of its slowest
          stamp,           \* setup-complete
          pc, cur,         \* the call in progress
          verdict, answer, \* outcome of its password check, and of the call
          quiet,           \* history: how long since an account's last call
          sitting, proved, \* history: is it in an unbroken sitting since it
                           \* was unlocked; since it knew the password?
          strikes, sinceStrike, sinceLock   \* history: wrong guesses, from
                           \* the first of a Window on; Unclear when the clock
                           \* was moved among them

sessions == <<session, proof>>
stored == <<mem, disk, snapshot, shadow, stamp>>
file == <<att, skew>>
people == <<quiet, sitting, proved>>
guesses == <<strikes, sinceStrike, sinceLock>>
vars == <<session, proof, mem, disk, snapshot, shadow, att, skew, stamp, pc, cur,
          verdict, answer, quiet, sitting, proved, strikes, sinceStrike, sinceLock>>

Ages == None..(TTL + 1)
Gated == {"Change", "DisableGuardian"}
Methods == Gated \cup {"Unlock", "Lock", "Status", "Read", "VerifyGuardian",
                       "SetGuardianPassword", "FinishSetup"}
Typed == Passwords \cup {Blank}
NoCall == [uid |-> CHOOSE u \in Admins : TRUE, method |-> "Read", pw |-> Blank,
           polkit |-> FALSE, guardian |-> FALSE]
Attempts == [failures: 0..(MaxFailures - 1),
             first: (-Skew)..(Window + Skew + 1),
             left: (-Skew)..(Lockout + Skew)]
Cleared == [failures |-> 0, first |-> 0, left |-> -Skew]
Calls == [uid: Uids, method: Methods, pw: Typed, polkit: BOOLEAN, guardian: BOOLEAN]

TypeOK == /\ session \in [Uids -> Ages] /\ proof \in [Uids -> Ages]
          /\ {mem, disk, snapshot, stamp} \subseteq BOOLEAN
          /\ shadow \in Passwords \cup {NoHash}
          /\ att \in Attempts /\ skew \in 0..Skew
          /\ pc \in {"idle", "polkit", "guardian", "run", "save", "boot"}
          /\ cur \in Calls
          /\ verdict \in {"none", "right", "wrong", "locked", "unset"}
          /\ answer \in {"none", "ok", "refused", "failed"}
          /\ quiet \in [Uids -> 0..(TTL + 1)]
          /\ sitting \in [Uids -> BOOLEAN] /\ proved \in [Uids -> BOOLEAN]
          /\ strikes \in Unclear..(MaxFailures - 1) /\ sinceStrike \in 0..(Window + 1)
          /\ sinceLock \in 0..Lockout

(* A new machine with its first administrator made and setup not finished. *)
Init == /\ session = [u \in Uids |-> None] /\ proof = [u \in Uids |-> None]
        /\ mem = FALSE /\ disk = FALSE /\ snapshot = FALSE
        /\ shadow = NoHash /\ att = Cleared /\ skew = 0 /\ stamp = FALSE
        /\ pc = "idle" /\ verdict = "none" /\ answer = "none"
        /\ cur = NoCall
        /\ quiet = [u \in Uids |-> TTL + 1]
        /\ sitting = [u \in Uids |-> FALSE] /\ proved = [u \in Uids |-> FALSE]
        /\ strikes = 0 /\ sinceStrike = 0 /\ sinceLock = Lockout

-------------------------------------------------------------------------------
(* The small decisions of the code, some preceded by a mistaken form of it   *)
(* that a property below must notice.                                        *)

Smaller(a, b) == IF a < b THEN a ELSE b
Larger(a, b) == IF a > b THEN a ELSE b

(* SessionStore: is an entry of this age still good? *)
AnyAge(age) == age # None
Alive(age) == age # None /\ age <= TTL

(* is_unlocked drops the proof with the session that has run out, and lock   *)
(* drops both.                                                               *)
KeepProof(u) == proof
DropProof(u) == [proof EXCEPT ![u] = None]

(* evaluate: which calls need the guardian password? *)
OnlyChange(m, shown) == m = "Change" /\ mem /\ ~shown
NeedsGuardian(m, shown) == m \in Gated /\ mem /\ ~shown

(* _read_state: the file as a moved clock leaves it is brought back to sane   *)
(* values.                                                                   *)
ReadState ==
  LET first == Larger(att.first, 0)
      stale == att.failures > 0 /\ first > Window
  IN [failures |-> IF stale THEN 0 ELSE att.failures,
      first |-> IF stale THEN 0 ELSE first,
      left |-> Smaller(att.left, Lockout)]

(* verify: the count after one more wrong guess. *)
OneMoreTry(s) ==
  IF s.failures + 1 > MaxFailures
  THEN [failures |-> 0, first |-> 0, left |-> Lockout]
  ELSE [failures |-> s.failures + 1, first |-> IF s.failures = 0 THEN 0 ELSE s.first,
        left |-> s.left]
WrongGuess(s) ==
  IF s.failures + 1 >= MaxFailures
  THEN [failures |-> 0, first |-> 0, left |-> Lockout]
  ELSE [failures |-> s.failures + 1, first |-> IF s.failures = 0 THEN 0 ELSE s.first,
        left |-> s.left]

-------------------------------------------------------------------------------
(* Guardian.verify, with what the history notes of it. *)

Check(pw) ==
  LET s == ReadState
      n == IF strikes = Unclear /\ s.failures > 0 THEN Unclear
           ELSE IF strikes = Unclear \/ sinceStrike > Window THEN 1 ELSE strikes + 1
  IN IF shadow = NoHash
     THEN verdict' = "unset" /\ UNCHANGED <<att, guesses>>
     ELSE IF s.left > 0
     THEN verdict' = "locked" /\ att' = s /\ UNCHANGED guesses
     ELSE IF pw = shadow
     THEN /\ verdict' = "right" /\ att' = Cleared
          /\ strikes' = 0 /\ UNCHANGED <<sinceStrike, sinceLock>>
     ELSE /\ verdict' = "wrong" /\ att' = WrongGuess(s)
          /\ IF n = MaxFailures \/ att'.left > 0
             THEN strikes' = 0 /\ sinceLock' = 0 /\ UNCHANGED sinceStrike
             ELSE /\ strikes' = n /\ UNCHANGED sinceLock
                  /\ sinceStrike' = IF n > 1 THEN sinceStrike ELSE 0

NoCheck == UNCHANGED <<att, verdict, guesses>>

(* grant_guardian *)
Grant(u) == /\ proof' = [proof EXCEPT ![u] = 0]
            /\ proved' = [proved EXCEPT ![u] = TRUE]
            /\ quiet' = [quiet EXCEPT ![u] = 0]
NoGrant == UNCHANGED <<proof, proved, quiet>>

End(how) == pc' = "idle" /\ answer' = how /\ cur' = NoCall
To(step) == pc' = step /\ UNCHANGED <<cur, answer>>
Proceed(step) == IF step = "done" THEN End("ok") ELSE To(step)

-------------------------------------------------------------------------------
(* The gates of _handle_call. *)

(* is_unlocked, then has_guardian if it is asked too: each slides what is good *)
(* and forgets what has run out.                                             *)
Unlocked(u) == Alive(session[u])
Kept(u) == IF session[u] # None /\ ~Unlocked(u) THEN DropProof(u) ELSE proof
Shown(u) == Alive(Kept(u)[u])

Slide(u, both) ==
  LET together == quiet[u] <= TTL
  IN /\ session' = [session EXCEPT ![u] = IF Unlocked(u) THEN 0 ELSE None]
     /\ proof' = IF ~both THEN Kept(u)
                 ELSE [Kept(u) EXCEPT ![u] = IF Shown(u) THEN 0 ELSE None]
     /\ quiet' = [quiet EXCEPT ![u] = 0]
     /\ sitting' = [sitting EXCEPT ![u] = @ /\ together]
     /\ proved' = [proved EXCEPT ![u] = @ /\ together]

(* A call arrives, and evaluate says what it needs, from a session and a proof *)
(* that slide whatever becomes of the call.                                  *)
Arrive(u, m, pw) ==
  /\ pc = "idle"
  /\ Slide(u, TRUE)
  /\ cur' = [uid |-> u, method |-> m, pw |-> pw,
             polkit |-> m # "FinishSetup" /\ (m = "Unlock" \/ ~Unlocked(u)),
             guardian |-> m # "FinishSetup" /\ NeedsGuardian(m, Shown(u))]
  /\ pc' = "polkit" /\ verdict' = "none" /\ answer' = "none"
  /\ snapshot' = mem
  /\ UNCHANGED <<mem, disk, shadow, stamp, file, guesses>>

(* The setup wizard calls as root until setup is stamped; after that people   *)
(* sign in.  A password matters only to the methods that take one.            *)
Call == \/ /\ stamp
           /\ \E u \in Uids, m \in {"Unlock", "Lock", "Status", "Read"} : Arrive(u, m, Blank)
        \/ /\ stamp
           /\ \E u \in Uids, m \in Gated \cup {"VerifyGuardian", "SetGuardianPassword"},
                pw \in Typed : Arrive(u, m, pw)
        \/ /\ ~stamp
           /\ \E u \in Admins, pw \in Typed : Arrive(u, "FinishSetup", pw)

(* auth.require: polkit asks for an administrator's password, unless the      *)
(* caller is one, and the daemon waits for the answer.                       *)
Polkit == /\ pc = "polkit"
          /\ \/ To("guardian")
             \/ cur.polkit /\ cur.uid \notin Admins /\ End("refused")
          /\ UNCHANGED <<sessions, stored, file, verdict, people, guesses>>

GuardianGate ==
  /\ pc = "guardian"
  /\ \/ ~cur.guardian /\ To("run") /\ NoCheck /\ NoGrant
     \/ /\ cur.guardian
        /\ Check(cur.pw)
        /\ IF verdict' = "right" THEN To("run") /\ Grant(cur.uid)
           ELSE End("refused") /\ NoGrant
  /\ UNCHANGED <<session, stored, skew, sitting>>

-------------------------------------------------------------------------------
(* The methods. *)

Running(m) == pc = "run" /\ cur.method = m

Unlock == /\ Running("Unlock")
          /\ session' = [session EXCEPT ![cur.uid] = 0]
          /\ sitting' = [sitting EXCEPT ![cur.uid] = TRUE]
          /\ quiet' = [quiet EXCEPT ![cur.uid] = 0]
          /\ End("ok")
          /\ UNCHANGED <<proof, stored, file, verdict, proved, guesses>>

Lock == /\ Running("Lock")
        /\ session' = [session EXCEPT ![cur.uid] = None]
        /\ proof' = DropProof(cur.uid)
        /\ sitting' = [sitting EXCEPT ![cur.uid] = FALSE]
        /\ proved' = [proved EXCEPT ![cur.uid] = FALSE]
        /\ End("ok")
        /\ UNCHANGED <<stored, file, verdict, quiet, guesses>>

(* Status asks again, perhaps long after evaluate did. *)
Status == /\ Running("Status")
          /\ Slide(cur.uid, mem)
          /\ End("ok")
          /\ UNCHANGED <<stored, file, verdict, guesses>>

(* Every other method, for which the gates were all there is to pass. *)
Plain == /\ Running("Read") \/ Running("Change")
         /\ End("ok")
         /\ UNCHANGED <<sessions, stored, file, verdict, people, guesses>>

VerifyGuardian ==
  /\ Running("VerifyGuardian")
  /\ \/ ~mem /\ End("ok") /\ NoCheck /\ NoGrant
     \/ /\ mem
        /\ Check(cur.pw)
        /\ IF verdict' = "right" THEN End("ok") /\ Grant(cur.uid)
           ELSE End("refused") /\ NoGrant
  /\ UNCHANGED <<session, stored, skew, sitting>>

(* Guardian.set_password: replacing a password takes the old one. *)
SetPassword(old, new, step) ==
  \/ /\ shadow = NoHash
     /\ shadow' = new /\ att' = Cleared /\ verdict' = "none"
     /\ Proceed(step) /\ UNCHANGED guesses
  \/ /\ shadow # NoHash
     /\ Check(old)
     /\ IF verdict' = "right" THEN Proceed(step) /\ shadow' = new
        ELSE End("refused") /\ UNCHANGED shadow

SetGuardianPassword ==
  /\ Running("SetGuardianPassword")
  /\ \E new \in Passwords : SetPassword(cur.pw, new, IF mem THEN "done" ELSE "save")
  /\ mem' = IF pc' = "save" THEN TRUE ELSE mem
  /\ UNCHANGED <<sessions, disk, snapshot, stamp, skew, people>>

DisableGuardian == /\ Running("DisableGuardian")
                   /\ mem' = FALSE
                   /\ To("save")
                   /\ UNCHANGED <<sessions, disk, snapshot, shadow, stamp, file, verdict,
                                  people, guesses>>

(* The wizard's last page: no guardian, or a first guardian password. *)
FinishSetup ==
  /\ Running("FinishSetup")
  /\ \/ cur.pw = Blank /\ To("boot") /\ NoCheck /\ UNCHANGED shadow
     \/ cur.pw # Blank /\ SetPassword(Blank, cur.pw, "save")
  /\ mem' = IF pc' = "save" THEN TRUE ELSE mem
  /\ UNCHANGED <<sessions, disk, snapshot, stamp, skew, people>>

(* _save_and_apply, when the guardian was turned on or off. *)
Save == /\ pc = "save"
        /\ \/ /\ disk' = mem /\ UNCHANGED mem
              /\ IF cur.method = "FinishSetup" THEN To("boot") ELSE End("ok")
           \/ "save" \in Faults /\ mem' = snapshot /\ UNCHANGED disk /\ End("failed")
           \/ "apply" \in Faults /\ mem' = snapshot /\ disk' = mem /\ End("failed")
        /\ UNCHANGED <<sessions, snapshot, shadow, stamp, file, verdict, people, guesses>>

(* The boot menu's password, then the stamp. *)
Boot == /\ pc = "boot"
        /\ \/ stamp' = TRUE /\ End("ok") /\ UNCHANGED mem
           \/ "boot" \in Faults /\ End("failed") /\ mem' = snapshot /\ UNCHANGED stamp
        /\ UNCHANGED <<sessions, disk, snapshot, shadow, file, verdict, people, guesses>>

-------------------------------------------------------------------------------
(* Time, the wall clock and restarts. *)

Older(age, cap) == Smaller(age + 1, cap)

(* A minute passes between calls, or while somebody looks for a password. *)
Tick ==
  /\ pc = "idle" \/ (pc = "polkit" /\ cur.polkit /\ cur.uid \notin Admins)
  /\ session' = [u \in Uids |-> IF session[u] = None THEN None ELSE Older(session[u], TTL + 1)]
  /\ proof' = [u \in Uids |-> IF proof[u] = None THEN None ELSE Older(proof[u], TTL + 1)]
  /\ quiet' = [u \in Uids |-> Older(quiet[u], TTL + 1)]
  /\ att' = [failures |-> att.failures,
             first |-> IF att.failures = 0 THEN 0
                       ELSE Older(att.first, Window + Skew + 1),
             left |-> Larger(att.left - 1, -Skew)]
  /\ sinceStrike' = IF strikes <= 0 THEN 0 ELSE Older(sinceStrike, Window + 1)
  /\ sinceLock' = Older(sinceLock, Lockout)
  /\ verdict' = "none" /\ answer' = "none"
  /\ UNCHANGED <<stored, skew, pc, cur, sitting, proved, strikes>>

(* The wall clock is set.  Moved forward, it ends every lockout early: the    *)
(* history then claims nothing of it.                                        *)
SetClock == \E to \in 0..Skew :
  LET d == to - skew IN
  /\ pc = "idle" /\ d # 0
  /\ skew' = to
  /\ att' = [failures |-> att.failures,
             first |-> IF att.failures = 0 THEN 0
                       ELSE Larger(Smaller(att.first + d, Window + Skew + 1), -Skew),
             left |-> Smaller(Larger(att.left - d, -Skew), Lockout + Skew)]
  /\ strikes' = IF strikes = 0 THEN 0 ELSE Unclear
  /\ sinceStrike' = 0
  /\ sinceLock' = IF d > 0 THEN Lockout ELSE sinceLock
  /\ verdict' = "none" /\ answer' = "none"
  /\ UNCHANGED <<sessions, stored, pc, cur, people>>

(* kosherd starts again, or the machine does: sessions are gone, the count of *)
(* wrong guesses is not.                                                     *)
Restart == /\ session' = [u \in Uids |-> None] /\ proof' = [u \in Uids |-> None]
           /\ sitting' = [u \in Uids |-> FALSE] /\ proved' = [u \in Uids |-> FALSE]
           /\ mem' = disk
           /\ pc' = "idle" /\ cur' = NoCall /\ verdict' = "none" /\ answer' = "none"
           /\ UNCHANGED <<disk, snapshot, shadow, stamp, file, quiet, guesses>>

Handle == \/ Polkit \/ GuardianGate \/ Unlock \/ Lock \/ Status \/ Plain
          \/ VerifyGuardian \/ SetGuardianPassword \/ DisableGuardian \/ FinishSetup \/ Save \/ Boot

Next == Call \/ Handle \/ Tick \/ SetClock \/ Restart

Spec == Init /\ [][Next]_vars

-------------------------------------------------------------------------------
(* Properties. *)

(* While the guardian is on, a call that can weaken the filter runs only for  *)
(* somebody who has given the right guardian password and has not been quiet  *)
(* for longer than TTL between two calls since, has not locked, and the       *)
(* daemon has not restarted (_handle_call, SessionStore, evaluate).           *)
GatedOnlyWithProof ==
  pc = "run" /\ cur.method \in Gated /\ mem => proved[cur.uid]

(* A call passes without polkit only in a sitting that Unlock began and no    *)
(* pause longer than TTL, Lock or restart has ended.                         *)
NoPromptOnlyInSitting ==
  pc \in {"guardian", "run"} /\ cur.method # "FinishSetup" /\ ~cur.polkit =>
    sitting[cur.uid]

(* After MaxFailures wrong guesses within Window of the first, no further     *)
(* password is even looked at for Lockout, through restarts and whoever asks. *)
(* A clock moved among the guesses, or forward in the lockout, is excepted    *)
(* (Guardian.verify, _read_state).                                           *)
FiveTries ==
  [][verdict = "none" /\ verdict' \in {"right", "wrong"} => sinceLock >= Lockout]_vars

(* However the clock was set, a refused try leaves a lockout that ends within *)
(* Lockout: nobody is kept out for good.                                     *)
LockoutBounded ==
  [][verdict = "none" /\ verdict' = "locked" => att'.left <= Lockout]_vars

(* A guesser is stopped, and nobody is stopped for good.                      *)
GuessingBounded == FiveTries /\ LockoutBounded

(* The guardian goes off only in a call that passed the guardian's gate, when *)
(* that call is undone, or at a restart that finds it off on disk.            *)
OffOnlyWithProof ==
  [][mem /\ ~mem' => \/ pc = "run" /\ proved[cur.uid]
                     \/ answer' = "failed" /\ ~snapshot
                     \/ pc' = "idle" /\ answer' = "none" /\ ~disk]_vars
===============================================================================
