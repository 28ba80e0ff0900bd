-------------------------------- MODULE Spools --------------------------------
(***************************************************************************)
(* What the filter writes down for the family to read (usage.py,            *)
(* activity.py): numbers about the traffic, and events.  The proxy keeps a   *)
(* tally and appends it once a minute; a thread of the search service        *)
(* appends one refusal at once, from a tally it then drops.  An append       *)
(* opens the file and writes later, and kosherd meanwhile renames, reads     *)
(* and removes the numbers' files (fold) and rewrites the events' (trim).    *)
(* A count, or an event, is a token; a line is what one append writes.       *)
(***************************************************************************)
EXTENDS Integers, FiniteSets

CONSTANTS Searchers,   \* threads of the search service
          KeepDays,    \* KEEP_DAYS, and the week of KEEP_SECONDS
          MaxLines,    \* MAX_SPOOL_BYTES, in lines
          MaxMade,     \* bound: counts and events
          MaxDay,      \* bound: days
          MaxSpoolFaults    \* bound: failed or cut writes, failed saves, stops

ASSUME SpoolsConstants ==
    /\ "proxy" \notin Searchers
    /\ KeepDays \in Nat \ {0} /\ MaxLines \in Nat \ {0}
    /\ {MaxMade, MaxDay, MaxSpoolFaults} \subseteq Nat

VARIABLES made,     \* history: every count and event there was
          pending,  \* Tally.pending of the proxy
          job,      \* what each thread is appending, and to which file
          spool,    \* the numbers' files, by writer
          folding,  \* the same, renamed
          log,      \* the events' files
          store,    \* the saved numbers: the days kept, and the totals
          work,     \* how far kosherd is, in fold or trim
          today, pruned,  \* the day, and the day of the last save
          spoolFaults, stray    \* faults so far; what was written where nobody reads

counts == <<pending, spool, folding, store, pruned>>
spoolsVars == <<made, job, counts, log, work, today, spoolFaults, stray>>
-----------------------------------------------------------------------------
Threads == {"proxy"} \cup Searchers
Writers == {"proxy", "search"}
WriterOf(t) == IF t = "proxy" THEN "proxy" ELSE "search"

NoFile == [there |-> FALSE, toks |-> {}, lines |-> 0]
NoJob == [toks |-> {}, fd |-> "none"]
Idle == [phase |-> "idle", todo |-> {}, toks |-> {}]

SpoolsInit ==
    /\ made = {} /\ pending = {}
    /\ job = [t \in Threads |-> NoJob]
    /\ spool = [w \in Writers |-> NoFile]
    /\ folding = [w \in Writers |-> NoFile]
    /\ log = [w \in Writers |-> {}]
    /\ store = [days |-> {}, total |-> {}]
    /\ work = Idle
    /\ today = 0 /\ pruned = 0
    /\ spoolFaults = 0 /\ stray = {}

SpoolFault == spoolFaults < MaxSpoolFaults /\ spoolFaults' = spoolFaults + 1
Token(kind) == [n |-> Cardinality(made) + 1, day |-> today, kind |-> kind]
Make(kind) == Cardinality(made) < MaxMade /\ made' = made \cup {Token(kind)}
-----------------------------------------------------------------------------
(* The writers. *)

\* Tally.add
Count ==
    /\ Make("count")
    /\ pending' = pending \cup {Token("count")}
    /\ UNCHANGED <<job, spool, folding, store, pruned, log, work, today, spoolFaults, stray>>

\* Tally.flush takes what is pending, under the lock.
Flush ==
    /\ job["proxy"] = NoJob
    /\ pending # {}
    /\ job' = [job EXCEPT !["proxy"] = [toks |-> pending, fd |-> "usage"]]
    /\ pending' = {}
    /\ UNCHANGED <<made, spool, folding, store, pruned, log, work, today, spoolFaults, stray>>

\* A refused search is counted in a tally of its own,
Refused(t) ==
    /\ job[t] = NoJob
    /\ Make("count")
    /\ job' = [job EXCEPT ![t] = [toks |-> {Token("count")}, fd |-> "usage"]]
    /\ UNCHANGED <<counts, log, work, today, spoolFaults, stray>>

\* and anything the filter did is an event.
Record(t) ==
    /\ job[t] = NoJob
    /\ Make("event")
    /\ job' = [job EXCEPT ![t] = [toks |-> {Token("event")}, fd |-> "activity"]]
    /\ UNCHANGED <<counts, log, work, today, spoolFaults, stray>>

\* os.open: from here on the file is the one opened, whatever becomes of its name.
Open(t) ==
    LET w == WriterOf(t)
    IN  /\ job[t].fd \in {"usage", "activity"}
        /\ IF job[t].fd = "usage"
           THEN /\ job' = [job EXCEPT ![t].fd = "spool"]
                /\ spool' = [spool EXCEPT ![w].there = TRUE]
           ELSE /\ job' = [job EXCEPT ![t].fd = "log"]
                /\ UNCHANGED spool
        /\ UNCHANGED <<made, pending, folding, store, pruned, log, work, today, spoolFaults, stray>>

Dropped(t) == pending' = pending             \* mutant: nothing is kept in memory

\* What flush does with what it could not write: the proxy merges it back, a
\* search thread's tally is gone.
PutBack(t) == pending' = IF t = "proxy" THEN pending \cup job[t].toks ELSE pending

FullAtOnce(t) == job[t].fd = "spool"          \* mutant: the line is counted twice

Full(t) ==
    LET w == WriterOf(t)
    IN  \/ job[t].fd = "spool" /\ spool[w].lines >= MaxLines
        \/ job[t].fd = "folding" /\ folding[w].lines >= MaxLines

\* kosherd has read the file that t has open, and will not read it again.
AlreadyRead(t) ==
    \/ job[t].fd \in {"gone", "oldlog"}
    \/ /\ job[t].fd = "folding"
       /\ \/ work.phase = "read" /\ WriterOf(t) \notin work.todo
          \/ work.phase = "clear"
    \/ /\ job[t].fd = "log"
       /\ work.phase = "replace" /\ WriterOf(t) \in work.todo

Appended(file, toks) ==
    [there |-> file.there, toks |-> file.toks \cup toks, lines |-> file.lines + 1]

\* os.write of some of what t holds: all of it, unless the disk is full.
Write(t, some) ==
    LET w == WriterOf(t)
    IN  /\ spool' = IF job[t].fd = "spool" THEN [spool EXCEPT ![w] = Appended(@, some)] ELSE spool
        /\ folding' = IF job[t].fd = "folding"
                      THEN [folding EXCEPT ![w] = Appended(@, some)] ELSE folding
        /\ log' = IF job[t].fd = "log" THEN [log EXCEPT ![w] = @ \cup some] ELSE log
        /\ stray' = IF AlreadyRead(t) THEN stray \cup job[t].toks ELSE stray
        /\ job' = [job EXCEPT ![t] = NoJob]

Opened(t) == job[t].fd \in {"spool", "folding", "gone", "log", "oldlog"}

Written(t) ==
    /\ Opened(t) /\ ~ Full(t)
    /\ Write(t, job[t].toks)
    /\ UNCHANGED <<made, pending, store, pruned, work, today, spoolFaults>>

\* The part that was written counts as all of it: the count os.write returns
\* is not looked at.
CutShort(t) ==
    /\ SpoolFault
    /\ Opened(t) /\ ~ Full(t)
    /\ \E some \in SUBSET job[t].toks : some # job[t].toks /\ Write(t, some)
    /\ UNCHANGED <<made, pending, store, pruned, work, today>>

\* The file is full.  Only the proxy comes back to it.
Refuse(t) ==
    /\ Opened(t) /\ Full(t)
    /\ t # "proxy" => SpoolFault
    /\ t = "proxy" => UNCHANGED spoolFaults
    /\ PutBack(t)
    /\ job' = [job EXCEPT ![t] = NoJob]
    /\ UNCHANGED <<made, spool, folding, store, pruned, log, work, today, stray>>

\* Opening or writing fails.  An event is not kept.
Fails(t) ==
    /\ SpoolFault
    /\ job[t] # NoJob
    /\ IF job[t].fd \in {"activity", "log", "oldlog"} THEN UNCHANGED pending ELSE PutBack(t)
    /\ job' = [job EXCEPT ![t] = NoJob]
    /\ UNCHANGED <<made, spool, folding, store, pruned, log, work, today, stray>>

\* A writer stops without having been asked to.
Dies(w) ==
    /\ SpoolFault
    /\ job' = [t \in Threads |-> IF WriterOf(t) = w THEN NoJob ELSE job[t]]
    /\ pending' = IF w = "proxy" THEN {} ELSE pending
    /\ UNCHANGED <<made, spool, folding, store, pruned, log, work, today, stray>>
-----------------------------------------------------------------------------
(* kosherd, one call at a time. *)

\* Whoever has the file of w open under one name has it open under another.
Moved(w, from, to) ==
    [t \in Threads |-> IF WriterOf(t) = w /\ job[t].fd = from
                       THEN [job[t] EXCEPT !.fd = to] ELSE job[t]]

\* fold: the files there are,
Fold ==
    /\ work = Idle
    /\ work' = [Idle EXCEPT !.phase = "take", !.todo = {w \in Writers : spool[w].there}]
    /\ UNCHANGED <<made, job, counts, log, today, spoolFaults, stray>>

\* each renamed, unless an earlier one is still to be folded,
Take(w) ==
    /\ work.phase = "take" /\ w \in work.todo
    /\ work' = [work EXCEPT !.todo = @ \ {w}]
    /\ IF folding[w].there
       THEN UNCHANGED <<job, spool, folding>>
       ELSE /\ folding' = [folding EXCEPT ![w] = spool[w]]
            /\ spool' = [spool EXCEPT ![w] = NoFile]
            /\ job' = Moved(w, "spool", "folding")
    /\ UNCHANGED <<made, pending, store, pruned, log, today, spoolFaults, stray>>

OneMore(toks) == {k \in toks : k.day >= today - KeepDays}   \* mutant: a day too many
Kept(toks) == {k \in toks : k.day > today - KeepDays}

\* (with none, only the days are pruned)
Taken ==
    /\ work.phase = "take" /\ work.todo = {}
    /\ LET taken == {w \in Writers : folding[w].there}
       IN  IF taken # {}
           THEN /\ work' = [phase |-> "read", todo |-> taken, toks |-> {}]
                /\ UNCHANGED <<store, pruned, spoolFaults>>
           ELSE /\ work' = Idle
                /\ \/ /\ store' = [store EXCEPT !.days = Kept(@)]
                      /\ pruned' = today
                      /\ UNCHANGED spoolFaults
                   \/ SpoolFault /\ UNCHANGED <<store, pruned>>
    /\ UNCHANGED <<made, job, pending, spool, folding, log, today, stray>>

\* each read,
Read(w) ==
    /\ work.phase = "read" /\ w \in work.todo
    /\ work' = [work EXCEPT !.todo = @ \ {w}, !.toks = @ \cup folding[w].toks]
    /\ UNCHANGED <<made, job, counts, log, today, spoolFaults, stray>>

ToClear == [phase |-> "clear", todo |-> {w \in Writers : folding[w].there}, toks |-> {}]

\* all of it saved, and the days that are too old pruned,
Save ==
    /\ work.phase = "read" /\ work.todo = {}
    /\ store' = [days |-> Kept(store.days \cup work.toks), total |-> store.total \cup work.toks]
    /\ pruned' = today
    /\ work' = ToClear
    /\ UNCHANGED <<made, job, pending, spool, folding, log, today, spoolFaults, stray>>

\* (a save that fails is a line in a log, and fold goes on)
SaveFails ==
    /\ SpoolFault
    /\ work.phase = "read" /\ work.todo = {}
    /\ work' = ToClear
    /\ UNCHANGED <<made, job, counts, log, today, stray>>

\* and each removed.
Clear(w) ==
    /\ work.phase = "clear" /\ w \in work.todo
    /\ work' = IF work.todo = {w} THEN Idle ELSE [work EXCEPT !.todo = @ \ {w}]
    /\ folding' = [folding EXCEPT ![w] = NoFile]
    /\ job' = Moved(w, "folding", "gone")
    /\ UNCHANGED <<made, pending, spool, store, pruned, log, today, spoolFaults, stray>>

\* trim, one file after the other: each is read,
Trim(w) ==
    /\ work = Idle
    /\ Kept(log[w]) # log[w]
    /\ work' = [phase |-> "replace", todo |-> {w}, toks |-> Kept(log[w])]
    /\ UNCHANGED <<made, job, counts, log, today, spoolFaults, stray>>

\* and replaced by what is young enough.
Replace(w) ==
    /\ work.phase = "replace" /\ w \in work.todo
    /\ log' = [log EXCEPT ![w] = work.toks]
    /\ job' = Moved(w, "log", "oldlog")
    /\ work' = Idle
    /\ UNCHANGED <<made, counts, today, spoolFaults, stray>>

\* kosherd stops, in the middle of either.
Stops ==
    /\ SpoolFault
    /\ work # Idle
    /\ work' = Idle
    /\ UNCHANGED <<made, job, counts, log, today, stray>>

NextDay ==
    /\ today < MaxDay
    /\ today' = today + 1
    /\ UNCHANGED <<made, job, counts, log, work, spoolFaults, stray>>
-----------------------------------------------------------------------------
SpoolsNext ==
    \/ Count
    \/ Flush
    \/ \E t \in Searchers : Refused(t)
    \/ \E t \in Threads : Record(t)
    \/ \E t \in Threads : Open(t)
    \/ \E t \in Threads : Written(t)
    \/ \E t \in Threads : CutShort(t)
    \/ \E t \in Threads : Refuse(t)
    \/ \E t \in Threads : Fails(t)
    \/ \E w \in Writers : Dies(w)
    \/ Fold
    \/ \E w \in Writers : Take(w)
    \/ Taken
    \/ \E w \in Writers : Read(w)
    \/ Save
    \/ SaveFails
    \/ \E w \in Writers : Clear(w)
    \/ \E w \in Writers : Trim(w)
    \/ \E w \in Writers : Replace(w)
    \/ Stops
    \/ NextDay

SpoolsSpec == SpoolsInit /\ [][SpoolsNext]_spoolsVars

\* kosherd ends what it began and folds once a minute; an append goes on.
Folds == \/ Fold \/ Taken \/ Save
         \/ \E w \in Writers : Take(w) \/ Read(w) \/ Clear(w) \/ Replace(w)
Appends(t) == Open(t) \/ Written(t) \/ Refuse(t)

FairSpools ==
    /\ SpoolsSpec
    /\ WF_spoolsVars(Folds) /\ WF_spoolsVars(Flush)
    /\ \A t \in Threads : WF_spoolsVars(Appends(t))
-----------------------------------------------------------------------------
Tokens == [n : 1 .. MaxMade, day : 0 .. MaxDay, kind : {"count", "event"}]
Files == [there : BOOLEAN, toks : SUBSET Tokens, lines : Nat]
Fds == {"none", "usage", "activity", "spool", "folding", "gone", "log", "oldlog"}
Phases == {"idle", "take", "read", "clear", "replace"}

\* Every variable holds what its writer or kosherd may put there.
SpoolsTypeOK ==
    /\ made \subseteq Tokens /\ pending \subseteq Tokens
    /\ job \in [Threads -> [toks : SUBSET Tokens, fd : Fds]]
    /\ spool \in [Writers -> Files] /\ folding \in [Writers -> Files]
    /\ log \in [Writers -> SUBSET Tokens]
    /\ store \in [days : SUBSET Tokens, total : SUBSET Tokens]
    /\ work \in [phase : Phases, todo : SUBSET Writers, toks : SUBSET Tokens]
    /\ today \in 0 .. MaxDay /\ pruned \in 0 .. today
    /\ spoolFaults \in 0 .. MaxSpoolFaults /\ stray \subseteq Tokens

InFiles(files) == UNION {files[w].toks : w \in Writers}
InJobs == UNION {job[t].toks : t \in Threads}

\* Without a fault nothing is lost between a tally and the totals, and no
\* event of the last days, however appends, fold and trim interleave, except
\* what was written to a file that had been read: an append that opened the
\* file before it was renamed or replaced.
NothingLost ==
    spoolFaults = 0 =>
        \A k \in made \ stray :
            IF k.kind = "count"
            THEN k \in pending \cup InJobs \cup InFiles(spool) \cup InFiles(folding) \cup store.total
            ELSE \/ k \in InJobs \cup UNION {log[w] : w \in Writers}
                 \/ k.day <= today - KeepDays

\* Without a fault nothing is counted twice: what waits to be folded is in no
\* total yet, except between saving the totals and removing its file.
CountedOnce ==
    spoolFaults = 0 =>
        /\ (pending \cup InJobs \cup InFiles(spool)) \cap (InFiles(folding) \cup store.total) = {}
        /\ \A w \in Writers :
               folding[w].toks \cap store.total # {} => work.phase = "clear" /\ w \in work.todo

\* The days and the totals agree, through every fault: a day that is kept has
\* all that the totals have of it.
DaysAgreeWithTotals ==
    store.days = {k \in store.total : k.day > pruned - KeepDays}

\* The store is right: nothing twice, and the days agree with the totals.
TotalsRight == CountedOnce /\ DaysAgreeWithTotals

\* What was counted comes to the totals, also through a full file, unless
\* something failed or it was written too late.
ComesToTotals ==
    \A n \in 1 .. MaxMade :
        (\E k \in made : k.n = n /\ k.kind = "count")
            ~> (spoolFaults > 0 \/ \E k \in store.total \cup stray : k.n = n)
=============================================================================
