----------------------------- MODULE ModelSlots -----------------------------
(***************************************************************************)
(* Generation of 3D models for listings: the slots that limit how many     *)
(* tasks run at the external provider, the requests that start and poll    *)
(* them, and the fallback to the catalog.                                  *)
(*                                                                         *)
(* Sources: controllers/modelController.js, services/                      *)
(* modelProviderService.js, services/modelCatalogService.js, and the SQL   *)
(* functions of 20261101_curated_model_catalog.sql (all under              *)
(* src/Backend).                                                           *)
(***************************************************************************)
EXTENDS Naturals, FiniteSets

CONSTANTS
  Listings,
  Matched,        \* listings the catalog has a model for
  Requests,       \* bound: requests at work at once
  Tasks,          \* bound: tasks created at the provider
  MaxConcurrent,  \* MODEL_MAX_CONCURRENT_JOBS
  MaxAttempts,    \* MODEL_MAX_ATTEMPTS_PER_LISTING
  None

VARIABLES
  row,      \* listing_models
  task,     \* tasks at the provider; "old": running for ten minutes and more
  job,      \* requests at work
  polling,  \* listings with an entry in pollPromises
  cooling,  \* listings polled less than 2.5 seconds ago (listingLastPoll)
  loose     \* releases nobody waits for, on their way to the database

vars == <<row, task, job, polling, cooling, loose>>

NoRow == [status |-> "none", task |-> None, url |-> FALSE, attempts |-> 0,
          provider |-> "tripo", source |-> "ai", created |-> "new", updated |-> "new"]
NoJob == [pc |-> "idle"]

Init ==
  /\ row = [l \in Listings |-> NoRow]
  /\ task = [t \in Tasks |-> "unused"]
  /\ job = [r \in Requests |-> NoJob]
  /\ polling = {} /\ cooling = {} /\ loose = {}

\* Every write refreshes updated_at; none looks at the status it replaces.
Put(l, new) == row' = [row EXCEPT ![l] = [new EXCEPT !.updated = "new"]]
Goto(r, pc) == job' = [job EXCEPT ![r].pc = pc]
Done(r) == job' = [job EXCEPT ![r] = NoJob]
Start(r, l, pc) ==
  job[r] = NoJob /\ job' = [job EXCEPT ![r] = [pc |-> pc, l |-> l, saw |-> row[l], task |-> None]]

(***************************************************************************)
(* claim_model_generation_job and release_model_generation_job.            *)
(***************************************************************************)
Running(l) == row[l].status = "processing" /\ row[l].updated = "new"
Active(l) == {k \in Listings \ {l} : Running(k)}

Released(l, status) == [row[l] EXCEPT !.status = status]
Catalogued(l, attempts) ==
  [row[l] EXCEPT !.status = "ready", !.url = TRUE, !.provider = "catalog",
                 !.source = "catalog", !.attempts = attempts]

\* A match the catalog is sure of is taken, any other is left to the seller.
Fallback(r) == (job[r].l \in Matched /\ Goto(r, "assign")) \/ Done(r)

(***************************************************************************)
(* POST /api/models/generate                                               *)
(***************************************************************************)
\* What the request sees first; a model that is ready is made anew on demand.
Generate(r, l, forceRetry) ==
  /\ row[l].status = "ready" => forceRetry
  /\ row[l].status = "processing" => row[l].created = "old"
  /\ Start(r, l, "claim")
  /\ UNCHANGED <<row, task, polling, cooling, loose>>

\* The reservation is atomic.  A model that is ready passes without one.
Claim(r) ==
  /\ job[r].pc = "claim"
  /\ LET l == job[r].l IN
     \/ /\ row[l].status = "ready"
        /\ IF row[l].provider = "tripo" THEN Goto(r, "record") ELSE Done(r)
        /\ UNCHANGED row
     \/ /\ Running(l)
        /\ Done(r) /\ UNCHANGED row
     \/ /\ row[l].status # "ready" /\ ~Running(l) /\ row[l].attempts >= MaxAttempts
        /\ Fallback(r)
        /\ UNCHANGED row
     \/ /\ row[l].status # "ready" /\ ~Running(l) /\ row[l].attempts < MaxAttempts
        /\ IF Cardinality(Active(l)) >= MaxConcurrent
           THEN Done(r) /\ UNCHANGED row
           ELSE /\ Put(l, [row[l] EXCEPT !.status = "processing", !.provider = "tripo",
                                         !.attempts = @ + 1])
                /\ Goto(r, "create")
  /\ UNCHANGED <<task, polling, cooling, loose>>

CreateTask(r) ==
  /\ job[r].pc = "create"
  /\ \/ \E t \in Tasks :
          /\ task[t] = "unused" /\ task' = [task EXCEPT ![t] = "running"]
          /\ job' = [job EXCEPT ![r].pc = "record", ![r].task = t]
     \/ Goto(r, "giveback") /\ UNCHANGED task
  /\ UNCHANGED <<row, polling, cooling, loose>>

\* The provider refused: the slot goes back, the catalog may have a match.
GiveBack(r) ==
  /\ job[r].pc = "giveback"
  /\ Put(job[r].l, Released(job[r].l, "failed"))
  /\ Fallback(r)
  /\ UNCHANGED <<task, polling, cooling, loose>>

Assign(r) ==
  /\ job[r].pc = "assign" /\ Done(r)
  /\ \E n \in {1, MaxAttempts} : Put(job[r].l, Catalogued(job[r].l, n))
  /\ UNCHANGED <<task, polling, cooling, loose>>

\* The count the claim answered is read under another name: it starts again at 1.
Record(r) ==
  /\ job[r].pc = "record" /\ Done(r)
  /\ LET l == job[r].l IN
       Put(l, [row[l] EXCEPT !.status = "processing", !.provider = "tripo",
                             !.source = "ai", !.attempts = 1,
                             !.task = IF job[r].task = None THEN @ ELSE job[r].task])
  /\ UNCHANGED <<task, polling, cooling, loose>>

(***************************************************************************)
(* GET /api/models/status/:listingId                                       *)
(***************************************************************************)
Status(r, l) ==
  /\ row[l].status \in {"processing", "ready"} /\ row[l].task # None
  /\ ~(row[l].status = "ready" /\ row[l].url)
  /\ Start(r, l, IF row[l].created = "old" THEN "expire" ELSE "decide")
  /\ UNCHANGED <<row, task, polling, cooling, loose>>

\* The ten minutes are counted from created_at, the slot's from updated_at.
Expire(r) ==
  /\ job[r].pc = "expire" /\ Done(r)
  /\ Put(job[r].l, Released(job[r].l, "failed"))
  /\ UNCHANGED <<task, polling, cooling, loose>>

\* One poll at a time and listing, as far as pollPromises tells by now.
Decide(r) ==
  /\ job[r].pc = "decide"
  /\ LET l == job[r].l IN
     \/ /\ l \in cooling \/ l \in polling
        /\ cooling' = IF l \in polling THEN cooling \cup {l} ELSE cooling
        /\ Done(r)
     \/ /\ l \notin cooling /\ l \notin polling
        /\ cooling' = cooling \cup {l}
        /\ Goto(r, "asset")
  /\ UNCHANGED <<row, task, polling, loose>>

BeginPoll(r) ==
  /\ job[r].pc = "asset" /\ Goto(r, "poll")
  /\ polling' = polling \cup {job[r].l}
  /\ UNCHANGED <<row, task, cooling, loose>>

\* pollListingModelTask, for the row as it was when the request began.
Poll(r) ==
  /\ job[r].pc = "poll"
  /\ LET l == job[r].l  t == job[r].saw.task IN
     \/ /\ job[r].saw.source = "catalog"
        /\ Put(l, Released(l, "ready")) /\ Goto(r, "finish")
     \/ /\ job[r].saw.source # "catalog"
        /\ UNCHANGED row /\ Goto(r, "finish")      \* running, or no answer
     \/ /\ job[r].saw.source # "catalog" /\ task[t] = "success"
        /\ Put(l, [Released(l, "ready") EXCEPT !.url = TRUE, !.task = t])
        /\ Goto(r, "optimize")
     \/ /\ job[r].saw.source # "catalog" /\ task[t] = "failed"
        /\ Put(l, Released(l, "failed"))
        /\ (l \in Matched /\ Goto(r, "promote")) \/ Goto(r, "fail")
  /\ UNCHANGED <<task, polling, cooling, loose>>

\* What a poll writes at its end; the optimizer may throw, and nothing is written.
Settle(r) ==
  /\ LET l == job[r].l IN
     \/ job[r].pc = "optimize"
        /\ Put(l, [Released(l, "ready") EXCEPT !.url = TRUE, !.source = "ai"])
     \/ job[r].pc = "optimize" /\ UNCHANGED row
     \/ job[r].pc = "promote" /\ Put(l, Catalogued(l, row[l].attempts))
     \/ job[r].pc = "fail" /\ Put(l, Released(l, "failed"))
  /\ Goto(r, "finish")
  /\ UNCHANGED <<task, polling, cooling, loose>>

\* The finally block: markJobFinished releases the slot, whatever the poll found.
Finish(r) ==
  /\ job[r].pc = "finish" /\ Done(r)
  /\ polling' = polling \ {job[r].l}
  /\ loose' = loose \cup {job[r].l}
  /\ UNCHANGED <<row, task, cooling>>

ReleaseArrives(l) ==
  /\ l \in loose /\ loose' = loose \ {l}
  /\ Put(l, Released(l, "ready"))
  /\ UNCHANGED <<task, job, polling, cooling>>

(***************************************************************************)
(* POST /api/models/catalog/select, the provider, and time.                *)
(***************************************************************************)
SelectCatalogModel(l) ==
  /\ l \in Matched
  /\ Put(l, [Catalogued(l, row[l].attempts) EXCEPT !.provider = row[l].provider])
  /\ UNCHANGED <<task, job, polling, cooling, loose>>

TaskEnds(t) ==
  /\ task[t] \in {"running", "old"}
  /\ \E answer \in {"success", "failed"} : task' = [task EXCEPT ![t] = answer]
  /\ UNCHANGED <<row, job, polling, cooling, loose>>

\* Two and a half seconds, and ten minutes, in which no request is at work.
Cool(l) ==
  /\ l \in cooling /\ cooling' = cooling \ {l}
  /\ UNCHANGED <<row, task, job, polling, loose>>

TenMinutes ==
  /\ \A r \in Requests : job[r] = NoJob
  /\ loose = {} /\ cooling = {}
  /\ row' = [l \in Listings |-> IF row[l].status = "none" THEN row[l]
                                ELSE [row[l] EXCEPT !.created = "old", !.updated = "old"]]
  /\ task' = [t \in Tasks |-> IF task[t] = "running" THEN "old" ELSE task[t]]
  /\ UNCHANGED <<job, polling, cooling, loose>>

Next ==
  \/ \E r \in Requests :
       \/ Claim(r) \/ CreateTask(r) \/ GiveBack(r) \/ Assign(r) \/ Record(r)
       \/ Expire(r) \/ Decide(r) \/ BeginPoll(r) \/ Poll(r) \/ Settle(r) \/ Finish(r)
       \/ \E l \in Listings :
            Status(r, l) \/ \E forceRetry \in BOOLEAN : Generate(r, l, forceRetry)
  \/ \E l \in Listings : ReleaseArrives(l) \/ SelectCatalogModel(l) \/ Cool(l)
  \/ \E t \in Tasks : TaskEnds(t)
  \/ TenMinutes

Spec == Init /\ [][Next]_vars

-----------------------------------------------------------------------------
\* No more tasks run at the provider than there are slots
\* (modelProviderService.js:8), those apart that are older than the ten minutes
\* after which a slot may be given to another listing.
SlotsBounded == Cardinality({t \in Tasks : task[t] = "running"}) <= MaxConcurrent

=============================================================================
