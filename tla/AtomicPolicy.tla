----------------------------- MODULE AtomicPolicy -----------------------------
(***************************************************************************)
(* What kosherd promises the callers of its D-Bus API about the stored      *)
(* policy: a call is answered "ok" with its change stored under a higher    *)
(* revision, or "refused" with the stored policy exactly as it was before   *)
(* the call ("a failed call is a call that did not happen").  A crash       *)
(* leaves either the old or the new policy, never anything else.            *)
(* PolicyStore implements this specification as long as nothing fails after *)
(* the policy has been written.                                             *)
(***************************************************************************)
EXTENDS Naturals

CONSTANT Docs                     \* the policy documents, records with a rev

VARIABLES stored,                 \* the policy on disk
          before,                 \* the policy when the open call began
          phase                   \* "idle", "open", "ok", "refused"

vars == <<stored, before, phase>>

Init == /\ stored \in Docs
        /\ before = stored
        /\ phase = "idle"

(* A change is stored once per call, and only with a higher revision. *)
Commit == /\ phase = "open"
          /\ stored = before
          /\ stored' \in Docs
          /\ stored'.rev > stored.rev
          /\ UNCHANGED <<before, phase>>

(* A new call may arrive as soon as the last one has been answered. *)
Open == /\ phase # "open"
        /\ phase' = "open"
        /\ before' = stored
        /\ UNCHANGED stored

AnswerOk == /\ phase = "open"
            /\ stored # before
            /\ phase' = "ok"
            /\ UNCHANGED <<stored, before>>

AnswerRefused == /\ phase = "open"
                 /\ stored = before
                 /\ phase' = "refused"
                 /\ UNCHANGED <<stored, before>>

(* The daemon stops; the caller gets no answer. *)
Crash == /\ phase' = "idle"
         /\ before' \in {before, stored}
         /\ UNCHANGED stored

(* A start may store what it decided by itself. *)
Settle == /\ phase = "idle"
          /\ stored' \in Docs
          /\ stored'.rev > stored.rev
          /\ before' = stored'
          /\ UNCHANGED phase

Next == Commit \/ Open \/ AnswerOk \/ AnswerRefused \/ Crash \/ Settle

Spec == Init /\ [][Next]_vars
===============================================================================
