----------------------------- MODULE IngestRuns -----------------------------
(***************************************************************************)
(* Ingest runs of one data source: queued by a user, delivered through the *)
(* outbox, claimed by the worker that loads them, kept alive by a lease,   *)
(* and swept when the lease runs out (apps/workers/src/ingest).            *)
(*                                                                         *)
(* A lease (20 minutes, renewed by every flush) runs out only when its     *)
(* worker died: one process works at a time, two overlap for seconds.      *)
(***************************************************************************)
EXTENDS OutboxDelivery

CONSTANT MaxRuns        \* bound: ingest_run rows

VARIABLES
    rstatus, retry,        \* ingest_run.status, and those with requeuedFrom
    stale, loaded,         \* its lease is over; it committed facts of an envelope
    stage                  \* of the worker that runs it: none, claimed, loading

runVars == <<rstatus, retry, stale, loaded, stage>>
vars    == <<outboxVars, runVars>>

Runs == 1..MaxRuns
OpenRuns == {r \in Runs : rstatus[r] \in {"queued", "running"}}
NewRuns  == {r \in Runs : rstatus[r] = "none" /\ \A x \in 1..(r - 1) : rstatus[x] # "none"}
RunOf(w) == event[row[w]].run

Requested(r) == [topic |-> "ingest.requested", run |-> r]
FactsLoaded(r) == [topic |-> "facts.loaded", run |-> r]

ASSUME RunsAssumption ==
    /\ MaxRuns \in Nat /\ "ingest" \in Consumers
    /\ {"ingest.requested", "facts.loaded"} \subseteq DOMAIN Families
    /\ \A i \in 1..Len(Families["facts.loaded"]) : Families["facts.loaded"][i] # "ingest"
    /\ \A r \in Runs : None \notin {Requested(r), FactsLoaded(r)}

-----------------------------------------------------------------------------
\* POST /sources/:id/run; the partial unique index backs the check.  That the
\* workspace is not archived was asked when the request was authenticated, so
\* it may be by now.  The last id is left for a retry.
QueueRun ==
    /\ OpenRuns = {}
    /\ \E r \in NewRuns \ {MaxRuns} :
          /\ rstatus' = [rstatus EXCEPT ![r] = "queued"]
          /\ Insert(<<Requested(r)>>)
    /\ UNCHANGED <<rowVars, onceVars, active, workerVars, faults, retry, stale, loaded, stage>>

\* The handler of ingest.requested: queued -> running under the dedupe row;
\* the pipeline starts after that commit.
HandleIngest(w) ==
    /\ Apply(w, "ingest")
    /\ IF rstatus[RunOf(w)] = "queued"
       THEN /\ rstatus' = [rstatus EXCEPT ![RunOf(w)] = "running"]
            /\ stage' = [stage EXCEPT ![w] = "claimed"]
            /\ UNCHANGED <<todo, failing>>
       ELSE /\ todo' = [todo EXCEPT ![w] = Tail(@)]
            /\ UNCHANGED <<failing, rstatus, stage>>
    /\ UNCHANGED <<event, retry, stale, loaded>>

\* The other handlers write derived rows only.
HandleOther(w, c) ==
    /\ c # "ingest"
    /\ Apply(w, c)
    /\ todo' = [todo EXCEPT ![w] = Tail(@)]
    /\ UNCHANGED <<event, failing, runVars>>

\* runIngest's setup: the run must still be open, and gets a fresh lease.
SetUp(w) ==
    /\ stage[w] = "claimed"
    /\ RunOf(w) \in OpenRuns
    /\ rstatus' = [rstatus EXCEPT ![RunOf(w)] = "running"]
    /\ stale' = stale \ {RunOf(w)}
    /\ stage' = [stage EXCEPT ![w] = "loading"]
    /\ UNCHANGED <<outboxVars, retry, loaded>>

\* A batch of facts, and the lease with it.
Flush(w) ==
    /\ stage[w] = "loading"
    /\ stale' = stale \ {RunOf(w)}
    /\ loaded' = loaded \cup {RunOf(w)}
    /\ UNCHANGED <<outboxVars, rstatus, retry, stage>>

EndFamily(w, failed) ==
    /\ stage' = [stage EXCEPT ![w] = "none"]
    /\ NextFamily(w, failed)

\* The last transaction of the pipeline, whatever the status is by now.
FinishRun(w) ==
    /\ stage[w] = "loading"
    /\ rstatus' = [rstatus EXCEPT ![RunOf(w)] = "ok"]
    /\ retry' = retry \ {RunOf(w)}
    /\ Insert(<<FactsLoaded(RunOf(w))>>)
    /\ EndFamily(w, FALSE)
    /\ UNCHANGED <<rowVars, onceVars, active, faults, stale, loaded>>

MutPartial(r) == <<>>                       \* as before the I-12 fix

\* failIngestRun's outbox rows that somebody takes.
Partial(r) == IF r \in loaded THEN <<FactsLoaded(r)>> ELSE <<>>

\* runIngest throws: in its setup because the run is not open any more, or
\* for a reason of its own.
FailRun(w) ==
    /\ stage[w] # "none"
    /\ faults' = IF RunOf(w) \in OpenRuns THEN faults + 1 ELSE faults
    /\ faults' <= MaxFaults
    /\ rstatus' = [rstatus EXCEPT ![RunOf(w)] = "failed"]
    /\ retry' = retry \ {RunOf(w)}
    /\ Insert(Partial(RunOf(w)))
    /\ EndFamily(w, TRUE)
    /\ UNCHANGED <<rowVars, onceVars, active, stale, loaded>>

LeaseExpires(r) ==
    /\ rstatus[r] = "running" /\ r \notin stale
    /\ \A w \in Workers : stage[w] # "none" => RunOf(w) # r
    /\ stale' = stale \cup {r}
    /\ UNCHANGED <<outboxVars, rstatus, retry, loaded, stage>>

MutSweepLive(w, r) ==                       \* the lease is not checked again
    /\ Idle(w)
    /\ rstatus[r] = "running" /\ r \notin retry
    /\ \E n \in NewRuns :
          /\ rstatus' = [rstatus EXCEPT ![r] = "failed", ![n] = "queued"]
          /\ retry' = retry \cup {n}
          /\ Insert(Partial(r) \o <<Requested(n)>>)
    /\ UNCHANGED <<rowVars, onceVars, active, workerVars, faults, stale, loaded, stage>>

MutSweepOnce(w, r) ==                       \* a retry is left alone, running
    /\ Idle(w)
    /\ rstatus[r] = "running" /\ r \in stale /\ r \notin retry
    /\ \E n \in NewRuns :
          /\ rstatus' = [rstatus EXCEPT ![r] = "failed", ![n] = "queued"]
          /\ retry' = retry \cup {n}
          /\ Insert(Partial(r) \o <<Requested(n)>>)
    /\ UNCHANGED <<rowVars, onceVars, active, workerVars, faults, stale, loaded, stage>>

\* runSweeper, in the loop of a worker between its passes.
Sweep(w, r) ==
    /\ Idle(w)
    /\ rstatus[r] = "running" /\ r \in stale
    /\ \/ /\ r \in retry
          /\ rstatus' = [rstatus EXCEPT ![r] = "failed"]
          /\ retry' = retry \ {r}
          /\ Insert(Partial(r))
       \/ /\ r \notin retry
          /\ \E n \in NewRuns :
                /\ rstatus' = [rstatus EXCEPT ![r] = "failed", ![n] = "queued"]
                /\ retry' = retry \cup {n}
                /\ Insert(Partial(r) \o <<Requested(n)>>)
    /\ UNCHANGED <<rowVars, onceVars, active, workerVars, faults, stale, loaded, stage>>

CrashWorker(w) ==
    /\ Crash(w)
    /\ stage' = [stage EXCEPT ![w] = "none"]
    /\ UNCHANGED <<rstatus, retry, stale, loaded>>

-----------------------------------------------------------------------------
Init ==
    /\ OutboxInit
    /\ rstatus = [r \in Runs |-> "none"]
    /\ retry = {} /\ stale = {} /\ loaded = {}
    /\ stage = [w \in Workers |-> "none"]

\* A family begins only when the one before it has returned.
Handle(w) ==
    /\ stage[w] = "none"
    /\ \/ HandleIngest(w)
       \/ \E c \in Consumers :
             \/ HandleOther(w, c)
             \/ (Duplicate(w, c) \/ Skip(w, c) \/ Fail(w, c)) /\ UNCHANGED runVars

EndRow(w) == (Publish(w) \/ RetryLater(w)) /\ UNCHANGED runVars

\* What a worker does next with the rows it has claimed.
Advance(w) ==
    \/ StartRow(w) /\ UNCHANGED runVars
    \/ Handle(w) \/ SetUp(w) \/ FinishRun(w) \/ FailRun(w)
    \/ EndRow(w)

PollAll(w) == Poll(w) /\ UNCHANGED runVars

Next ==
    \/ QueueRun
    \/ (SetWorkspaceStatus \/ \E e \in Events : Replay(e)) /\ UNCHANGED runVars
    \/ \E w \in Workers :
          \/ PollAll(w) \/ Advance(w) \/ Flush(w) \/ CrashWorker(w)
          \/ \E r \in Runs : Sweep(w, r)
    \/ \E r \in Runs : LeaseExpires(r)

Spec == Init /\ [][Next]_vars

\* Workers are restarted and then go on, clocks advance, and the sweeper runs
\* in every turn of the loop.
FairSpec ==
    /\ Spec
    /\ \A w \in Workers :
          /\ WF_vars(PollAll(w)) /\ WF_vars(Advance(w))
          /\ \A r \in Runs : WF_vars(Sweep(w, r))
    /\ \A r \in Runs : WF_vars(LeaseExpires(r))

-----------------------------------------------------------------------------
(* Properties *)

\* The types of the tables and of what the workers hold.
TypeOK ==
    /\ OutboxTypeOK
    /\ rstatus \in [Runs -> {"none", "queued", "running", "ok", "failed"}]
    /\ retry \subseteq Runs /\ stale \subseteq Runs /\ loaded \subseteq Runs
    /\ stage \in [Workers -> {"none", "claimed", "loading"}]

\* handleOnce, "at most once per consumer": whatever is redelivered, retried or
\* crashes, a dedupe row stands for exactly one commit of the handler, or for
\* a skip.
HandledOnce ==
    \A o \in Consumers \X Events :
        applied[o] = IF o \in processed \ skipped THEN 1 ELSE 0

\* runRow: a row is published only once every family that applies to it is
\* through, in this pass or in earlier ones, here or on the other worker.
PublishedMeansHandled ==
    \A e \in published, c \in Consumers : c \in FamiliesOf(e) => <<c, e>> \in processed

\* No two workers load the source at a time.
OneLoader ==
    \A w, x \in Workers : stage[w] = "loading" /\ stage[x] = "loading" => w = x

\* The facts a run committed are announced to the roll-up once it has ended,
\* also when it failed or its worker died half-way.
FactsAnnounced ==
    \A r \in loaded : r \notin OpenRuns => \E e \in Inserted : event[e] = FactsLoaded(r)

\* While the workspace is active, every event gets published or becomes a dead
\* letter.
Settles ==
    \A e \in Events : event[e] # None ~> e \in published \cup dead \/ ~ active

\* A run that was queued ends, so the source is free again, unless its own
\* request became a dead letter or was skipped.
RunsEnd ==
    \A r \in Runs : r \in OpenRuns ~>
        \/ r \notin OpenRuns \/ ~ active
        \/ \E e \in Inserted : event[e] = Requested(r) /\ (e \in dead \/ <<"ingest", e>> \in skipped)
=============================================================================
