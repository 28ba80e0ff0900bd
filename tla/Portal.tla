-------------------------------- MODULE Portal --------------------------------
(***************************************************************************)
(* The portal (portal/src/kosherportal) and a device that follows it         *)
(* (sync.py, lists.py, catalogsync.py, Daemon.sync_now).  The portal answers *)
(* each request on a thread of its own, and a handler reads the database in  *)
(* one transaction and writes it in another.  The device polls: first the    *)
(* filter lists, file by file and then their version, then the catalogue the *)
(* lists name, then its policy.  Any of it may fail or be cut short.         *)
(***************************************************************************)
EXTENDS Naturals, Sequences, FiniteSets

CONSTANTS Codes,       \* one-time enrolment codes
          Handlers,    \* threads of the portal
          Names,       \* ALLOWED_LISTS
          Offers,      \* what may be published: some lists, and a catalogue or 0
          MaxDevices,  \* bound: devices enrolled
          MaxDocs,     \* bound: policies set
          MaxBundles,  \* bound: sets of lists published
          MaxLocal,    \* bound: local changes of the policy
          MaxPortalFaults    \* bound: lost answers, interruptions and missed catalogues

ASSUME PortalConstants ==
    /\ "nobody" \notin Handlers
    /\ Offers \subseteq [names : SUBSET Names, cat : Nat]
    /\ {MaxDevices, MaxDocs, MaxBundles, MaxLocal, MaxPortalFaults} \subseteq Nat

VARIABLES code,        \* enrolment_codes
          devices,     \* the portal's devices, in the order they enrolled
          bundle,      \* settings 'lists'
          published,   \* history: every bundle there was
          docs,        \* history: policies set so far
          req,         \* what the threads are in the middle of
          asks,        \* the request the device waits for an answer to
          enrolled,    \* enrolment.json: the device's place in devices, or 0
          timer,       \* kosher-sync.timer is running
          step,        \* where sync_now is
          got,         \* the bundle it is installing
          policy,      \* policy.json: its revision, which document it is, for which device
          lists,       \* portal/version.json and, for each list, its bundle
          catalogue,   \* the version of the installed catalogue
          portalFaults, \* faults so far
          clash,       \* history: two documents got one number
          missed       \* history: a catalogue was not installed when it could

portal == <<code, devices, bundle, published, docs, req, clash>>
disk == <<policy, lists, catalogue>>
device == <<enrolled, timer, step, got, disk, missed>>
portalVars == <<portal, asks, device, portalFaults>>
-----------------------------------------------------------------------------
NoBundle == [version |-> 0, id |-> 0, names |-> {}, cat |-> 0]
NoDoc == 0
Resting == [op |-> "free", arg |-> 0, names |-> {}, cat |-> 0, saw |-> 0]
Nobody == "nobody"

PortalInit ==
    /\ code = [c \in Codes |-> "unused"]
    /\ devices = <<>>
    /\ bundle = NoBundle /\ published = {} /\ docs = 0
    /\ req = [h \in Handlers |-> Resting]
    /\ asks = Nobody
    /\ enrolled = 0 /\ timer = FALSE
    /\ step = "idle" /\ got = NoBundle
    /\ policy = [rev |-> 0, doc |-> NoDoc, dev |-> 0]
    /\ lists = [version |-> 0, files |-> [n \in Names |-> 0]]
    /\ catalogue = 0
    /\ portalFaults = 0 /\ clash = FALSE /\ missed = FALSE

PortalFault == portalFaults < MaxPortalFaults /\ portalFaults' = portalFaults + 1
-----------------------------------------------------------------------------
(* The portal. *)

Begins(h, r) == req[h] = Resting /\ req' = [req EXCEPT ![h] = r]
Done(h) == req' = [req EXCEPT ![h] = Resting]

\* set_policy looks up the device's revision,
ReadRevision(h, d) ==
    /\ docs + Cardinality({g \in Handlers : req[g].op = "policy"}) < MaxDocs
    /\ Begins(h, [op |-> "policy", arg |-> d, names |-> {}, cat |-> 0, saw |-> devices[d].rev])
    /\ UNCHANGED <<code, devices, bundle, published, docs, clash, asks, device, portalFaults>>

\* and stores the policy with the next one.
StorePolicy(h) ==
    LET d == req[h].arg
    IN  /\ req[h].op = "policy"
        /\ docs' = docs + 1
        /\ devices' = [devices EXCEPT ![d] = [rev |-> req[h].saw + 1, doc |-> docs + 1]]
        /\ clash' = (clash \/ devices[d].rev # req[h].saw)
        /\ Done(h)
        /\ UNCHANGED <<code, bundle, published, asks, device, portalFaults>>

\* set_lists looks up the version,
ReadVersion(h, offer) ==
    /\ Cardinality(published)
         + Cardinality({g \in Handlers : req[g].op = "lists"}) < MaxBundles
    /\ Begins(h, [op |-> "lists", arg |-> 0, names |-> offer.names, cat |-> offer.cat,
                  saw |-> bundle.version])
    /\ UNCHANGED <<code, devices, bundle, published, docs, clash, asks, device, portalFaults>>

\* and stores the bundle with the next one.
StoreLists(h) ==
    /\ req[h].op = "lists"
    /\ bundle' = [version |-> req[h].saw + 1, id |-> Cardinality(published) + 1,
                  names |-> req[h].names, cat |-> req[h].cat]
    /\ published' = published \cup {bundle'}
    /\ clash' = (clash \/ bundle.version # req[h].saw)
    /\ Done(h)
    /\ UNCHANGED <<code, devices, docs, asks, device, portalFaults>>

\* redeem_enrolment_code reads the code before its transaction begins,
ReadCode(h) ==
    /\ req[h].op = "enrol"
    /\ IF code[req[h].arg] = "unused"
       THEN req' = [req EXCEPT ![h].op = "redeem"] /\ UNCHANGED <<asks, step>>
       ELSE /\ Done(h)
            /\ asks' = IF asks = h THEN Nobody ELSE asks
            /\ step' = IF asks = h THEN "idle" ELSE step
    /\ UNCHANGED <<code, devices, bundle, published, docs, clash,
                   enrolled, timer, got, disk, missed, portalFaults>>

\* and in it marks it used and adds the device.  The answer carries the
\* device's name and token, if somebody still waits for it.
Redeem(h) ==
    /\ req[h].op = "redeem"
    /\ code' = [code EXCEPT ![req[h].arg] = "used"]
    /\ devices' = Append(devices, [rev |-> 0, doc |-> NoDoc])
    /\ Done(h)
    /\ IF asks = h
       THEN /\ enrolled' = Len(devices) + 1      \* enrolment.save, then sync_now
            /\ asks' = Nobody /\ step' = "lists"
       ELSE UNCHANGED <<enrolled, asks, step>>
    /\ UNCHANGED <<bundle, published, docs, clash, timer, got, disk, missed, portalFaults>>
-----------------------------------------------------------------------------
(* The device.  Every call runs on the daemon's one loop, so nothing else     *)
(* happens there while it waits for the portal.                               *)

\* Enrol sends the code and waits for the answer.
Enrol(h, c) ==
    /\ step = "idle"
    /\ Len(devices) + Cardinality({g \in Handlers : req[g].op \in {"enrol", "redeem"}})
         < MaxDevices
    /\ Begins(h, [op |-> "enrol", arg |-> c, names |-> {}, cat |-> 0, saw |-> 0])
    /\ asks' = h
    /\ step' = "enrolling"
    /\ UNCHANGED <<code, devices, bundle, published, docs, clash,
                   enrolled, timer, got, disk, missed, portalFaults>>

\* The answer does not come in time.  The portal's thread carries on.
EnrolTimesOut ==
    /\ PortalFault
    /\ step = "enrolling"
    /\ asks' = Nobody
    /\ step' = "idle"
    /\ UNCHANGED <<portal, enrolled, timer, got, disk, missed>>

Unenrol ==
    /\ step = "idle"
    /\ enrolled # 0
    /\ enrolled' = 0
    /\ UNCHANGED <<portal, asks, timer, step, got, disk, missed, portalFaults>>

\* Any call that changes the policy here counts its revision up.
LocalChange ==
    /\ step = "idle"
    /\ policy.rev < MaxLocal
    /\ policy' = [rev |-> policy.rev + 1, doc |-> NoDoc, dev |-> 0]
    /\ UNCHANGED <<portal, asks, enrolled, timer, step, got, lists, catalogue, missed, portalFaults>>

\* sync_now, from the timer or by hand.
Begin ==
    /\ step = "idle"
    /\ enrolled # 0
    /\ step' = "lists"
    /\ UNCHANGED <<portal, asks, enrolled, timer, got, disk, missed, portalFaults>>
Poll == timer /\ Begin

\* Mutant: a failure to reach the lists ends the call.
ListsOrNothing ==
    /\ step = "lists"
    /\ IF bundle.version > lists.version
       THEN \/ step' = "files" /\ got' = bundle
            \/ step' = "idle" /\ UNCHANGED got
       ELSE step' = "policy" /\ UNCHANGED got
    /\ UNCHANGED <<portal, asks, enrolled, timer, disk, missed, portalFaults>>

\* fetch_lists: a newer bundle, or nothing new, or no answer: the policy is
\* asked for in any case.
FetchLists ==
    /\ step = "lists"
    /\ IF bundle.version > lists.version
       THEN \/ step' = "files" /\ got' = bundle
            \/ step' = "policy" /\ UNCHANGED got
       ELSE step' = "policy" /\ UNCHANGED got
    /\ UNCHANGED <<portal, asks, enrolled, timer, disk, missed, portalFaults>>

\* install_portal_lists replaces one file after the other,
WriteList(n) ==
    /\ step = "files"
    /\ n \in got.names
    /\ lists.files[n] # got.id
    /\ lists' = [lists EXCEPT !.files[n] = got.id]
    /\ UNCHANGED <<portal, asks, enrolled, timer, step, got, policy, catalogue,
                   missed, portalFaults>>

Anyhow == TRUE                              \* mutant: the version is written first

\* When the version of a bundle may be written down: all of it is there.
Installed == \A n \in got.names : lists.files[n] = got.id


\* What comes after the lists of b: its catalogue, if there is one.
AfterLists(b) == IF b.cat # 0 THEN "catalogue" ELSE "policy"

\* then the version.
WriteVersion ==
    /\ step = "files"
    /\ Installed
    /\ lists' = [lists EXCEPT !.version = got.version]
    /\ step' = AfterLists(got)
    /\ UNCHANGED <<portal, asks, enrolled, timer, got, policy, catalogue, missed, portalFaults>>

\* catalogsync.update: downloaded, checked against the signed hash, opened and
\* put in place, or refused with what was there left alone.
UpdateCatalogue ==
    /\ step = "catalogue"
    /\ step' = "policy"
    /\ IF got.cat <= catalogue THEN UNCHANGED <<catalogue, missed, portalFaults>>
       ELSE \/ catalogue' = got.cat /\ UNCHANGED <<missed, portalFaults>>
            \/ PortalFault /\ missed' = TRUE /\ UNCHANGED catalogue
    /\ UNCHANGED <<portal, asks, enrolled, timer, got, policy, lists>>

Newer == devices[enrolled].doc # NoDoc /\ devices[enrolled].rev > policy.rev

CountedUp(rev) == rev + 1                   \* mutant: bump_revision as for a local change

\* The revision a document of the portal is saved with: its own.
Saved(rev) == rev

\* fetch_policy has its answer: a newer policy is saved and applied.
PolicyAnswered ==
    /\ step = "policy"
    /\ step' = "idle" /\ got' = NoBundle
    /\ policy' = IF Newer THEN [rev |-> Saved(devices[enrolled].rev), doc |-> devices[enrolled].doc,
                                dev |-> enrolled] ELSE policy
    /\ UNCHANGED <<portal, asks, enrolled, timer, lists, catalogue, missed, portalFaults>>

\* fetch_policy raises, and the call with it.
PolicyUnreached ==
    /\ step = "policy"
    /\ step' = "idle" /\ got' = NoBundle
    /\ UNCHANGED <<portal, asks, enrolled, timer, disk, missed, portalFaults>>

\* A write fails, or kosherd stops, part-way.
Interrupted ==
    /\ PortalFault
    /\ step \in {"files", "catalogue"}
    /\ step' = "idle" /\ got' = NoBundle
    /\ missed' = (missed \/ step = "catalogue")
    /\ UNCHANGED <<portal, asks, enrolled, timer, disk>>

\* The machine starts: the timer only if there is an enrolment by then.
Boot ==
    /\ step = "idle"
    /\ timer' = (enrolled # 0)
    /\ timer' # timer
    /\ UNCHANGED <<portal, asks, enrolled, step, got, disk, missed, portalFaults>>
-----------------------------------------------------------------------------
PortalNext ==
    \/ \E h \in Handlers, d \in DOMAIN devices : ReadRevision(h, d)
    \/ \E h \in Handlers : StorePolicy(h)
    \/ \E h \in Handlers, offer \in Offers : ReadVersion(h, offer)
    \/ \E h \in Handlers : StoreLists(h)
    \/ \E h \in Handlers : ReadCode(h)
    \/ \E h \in Handlers : Redeem(h)
    \/ \E h \in Handlers, c \in Codes : Enrol(h, c)
    \/ EnrolTimesOut
    \/ Unenrol
    \/ LocalChange
    \/ Begin
    \/ FetchLists
    \/ \E n \in Names : WriteList(n)
    \/ WriteVersion
    \/ UpdateCatalogue
    \/ PolicyAnswered
    \/ PolicyUnreached
    \/ Interrupted
    \/ Boot

PortalSpec == PortalInit /\ [][PortalNext]_portalVars

\* A call that has begun goes on; the bus serves calls in turn, so the timer's
\* is served whatever else is asked; the portal ends a request.
Goes == FetchLists \/ (\E n \in Names : WriteList(n)) \/ WriteVersion
           \/ UpdateCatalogue \/ PolicyAnswered \/ PolicyUnreached
Ends(h) == StorePolicy(h) \/ StoreLists(h) \/ ReadCode(h) \/ Redeem(h)

FairPortal ==
    /\ PortalSpec
    /\ WF_portalVars(Goes) /\ SF_portalVars(Poll)
    /\ \A h \in Handlers : WF_portalVars(Ends(h))
    /\ SF_portalVars(PolicyAnswered)     \* the portal is reached for the policy again and again
-----------------------------------------------------------------------------
Steps == {"idle", "enrolling", "lists", "files", "catalogue", "policy"}
Ops == {"free", "policy", "lists", "enrol", "redeem"}
Versions == {0} \cup {offer.cat : offer \in Offers}
Devices == [rev : Nat, doc : Nat]
Bundles == [version : Nat, id : Nat, names : SUBSET Names, cat : Versions]
Requests == [op : Ops, arg : Codes \cup Nat, names : SUBSET Names, cat : Versions, saw : Nat]

\* Every variable holds what its part of the portal or the device may hold: a
\* thread works on a device there is, and a policy came from one there is.
PortalTypeOK ==
    /\ code \in [Codes -> {"unused", "used"}]
    /\ devices \in Seq(Devices)
    /\ bundle \in Bundles /\ published \subseteq Bundles
    /\ docs \in Nat
    /\ req \in [Handlers -> Requests]
    /\ \A h \in Handlers : /\ req[h].op = "policy" => req[h].arg \in 1 .. Len(devices)
                           /\ req[h].op \in {"enrol", "redeem"} => req[h].arg \in Codes
    /\ asks \in Handlers \cup {Nobody}
    /\ enrolled \in 0 .. Len(devices) /\ timer \in BOOLEAN
    /\ step \in Steps /\ got \in Bundles
    /\ step \in Steps \ {"idle", "enrolling"} => enrolled # 0
    /\ policy \in [rev : Nat, doc : Nat, dev : 0 .. Len(devices)]
    /\ policy.doc # NoDoc => policy.dev # 0
    /\ lists \in [version : Nat, files : [Names -> Nat]]
    /\ catalogue \in Versions
    /\ portalFaults \in 0 .. MaxPortalFaults /\ clash \in BOOLEAN /\ missed \in BOOLEAN

\* A device that has written a version down has the lists of that bundle, or
\* later ones, however its installations were cut short: what it would tell
\* the portal it has, it has.
ListsAsVersioned ==
    \A b \in published :
        (b.version = lists.version /\ ~ clash) => \A n \in b.names : lists.files[n] >= b.id

\* Once a call has ended, the catalogue is the one the installed lists came
\* with, or a later one, unless a download failed or was cut short: that one
\* is not asked for again before the next bundle.
CatalogueFollows ==
    \A b \in published :
        (b.version = lists.version /\ step = "idle" /\ ~ clash /\ ~ missed)
            => catalogue >= b.cat

\* What the device says it has, it has: the lists and their catalogue.
ListsInStep == ListsAsVersioned /\ CatalogueFollows

\* A revision names one document: a device that shows the portal's revision
\* has the portal's policy, through enrolling again and local changes, unless
\* two requests at once were given the same number.
SameNumberSameDocument ==
    (policy.doc # NoDoc /\ policy.rev = devices[policy.dev].rev /\ ~ clash)
        => policy.doc = devices[policy.dev].doc

\* A newer policy arrives while the timer runs, also if the lists are never
\* reached or cannot be installed, unless a local change outruns it.
PolicyArrives ==
    (timer /\ enrolled # 0 /\ Newer) ~> (~ timer \/ enrolled = 0 \/ ~ Newer)
=============================================================================
