--------------------------- MODULE OutboxDelivery ---------------------------
(***************************************************************************)
(* The outbox and the worker that delivers it (apps/workers): its tables,  *)
(* the steps of the poll loop, and handleOnce, which runs a consumer's     *)
(* handler and records that it did in one transaction.                     *)
(*                                                                         *)
(* Normally one process runs the loop; a new revision starts before the    *)
(* old one is gone, and both may claim the same row, as the claim takes no *)
(* lock.  Every database transaction is one step; a process may crash      *)
(* between any two, and is then started again with nothing in memory.  A   *)
(* pass in which the database fails is dropped whole: a crash here.        *)
(*                                                                         *)
(* There is one workspace; the rows of topics that no worker subscribes to *)
(* are never claimed and are left out.  What a handler does beyond its     *)
(* dedupe row is the business of the module that extends this one.         *)
(***************************************************************************)
EXTENDS Naturals, Sequences, FiniteSets

CONSTANTS
    MaxEvents,     \* bound: ids of the bigserial that are used
    Workers,       \* processes that run the loop
    Consumers,
    Families,      \* topic |-> the consumers of its rows, in runRow's order
    MaxAttempts,   \* OUTBOX_MAX_ATTEMPTS
    MaxFaults,     \* bound: crashes, failing handlers and archivings
    None

VARIABLES
    event,                                  \* outbox: topic and payload
    published, attempts, dead,              \* ... published_at, failed_at
    processed,                              \* processed_event
    applied, skipped,                       \* history: commits of a handler, skips
    active,                                 \* the workspace is ACTIVE and not deleted
    batch, row, todo, failing,              \* a worker: claimed rows, current row, its
                                            \* families left, and whether one failed
    faults

rowVars    == <<published, attempts, dead>>
onceVars   == <<processed, applied, skipped>>
workerVars == <<batch, row, todo, failing>>
outboxVars == <<event, rowVars, onceVars, active, workerVars, faults>>

Events   == 1..MaxEvents
Inserted == {e \in Events : event[e] # None}

ASSUME OutboxAssumption ==
    /\ MaxEvents \in Nat /\ MaxAttempts \in Nat \ {0} /\ MaxFaults \in Nat
    /\ \A t \in DOMAIN Families : Families[t] \in Seq(Consumers)
    /\ None \notin Events

\* outbox(): the rows of s in their order, in the command's transaction.
Insert(s) ==
    LET n == Cardinality(Inserted)
    IN  /\ n + Len(s) <= MaxEvents
        /\ event' = [e \in Events |-> IF e \in n + 1..n + Len(s) THEN s[e - n] ELSE event[e]]

FamiliesOf(e) == {Families[event[e].topic][i] : i \in 1..Len(Families[event[e].topic])}

-----------------------------------------------------------------------------
(* Rows *)

Pending == IF active THEN Inserted \ (published \cup dead) ELSE {}
Retries == {e \in Pending : attempts[e] > 0}

MutClaims ==                                \* next_attempt_at must be null
    {Pending \ Retries} \ {{}}

\* What claimLocalOutbox may return: rows that failed before are left out as
\* long as they back off.
Claims == {Pending \ back : back \in SUBSET Retries} \ {{}}

Idle(w) == row[w] = None /\ batch[w] = {}

Poll(w) ==
    /\ Idle(w)
    /\ \E claim \in Claims : batch' = [batch EXCEPT ![w] = claim]
    /\ UNCHANGED <<event, rowVars, onceVars, active, row, todo, failing, faults>>

\* runRow begins, on the first row left of the batch.
StartRow(w) ==
    /\ row[w] = None
    /\ \E e \in batch[w] :
          /\ \A x \in batch[w] : e <= x
          /\ row' = [row EXCEPT ![w] = e]
          /\ batch' = [batch EXCEPT ![w] = @ \ {e}]
          /\ todo' = [todo EXCEPT ![w] = Families[event[e].topic]]
    /\ failing' = [failing EXCEPT ![w] = FALSE]
    /\ UNCHANGED <<event, rowVars, onceVars, active, faults>>

RowEnds(w) ==
    /\ row[w] # None /\ todo[w] = <<>>
    /\ row' = [row EXCEPT ![w] = None]
    /\ UNCHANGED <<event, onceVars, active, batch, todo, failing, faults>>

MutPublish(w) ==                            \* whether or not a family failed
    /\ RowEnds(w)
    /\ published' = published \cup {row[w]}
    /\ UNCHANGED <<attempts, dead>>

\* Every family succeeded: markLocalPublished.
Publish(w) ==
    /\ ~ failing[w]
    /\ RowEnds(w)
    /\ published' = published \cup {row[w]}
    /\ UNCHANGED <<attempts, dead>>

\* markLocalFailure
RetryLater(w) ==
    /\ failing[w]
    /\ RowEnds(w)
    /\ attempts' = [attempts EXCEPT ![row[w]] = @ + 1]
    /\ dead' = IF attempts[row[w]] + 1 >= MaxAttempts THEN dead \cup {row[w]} ELSE dead
    /\ UNCHANGED published

\* The runbook's statement that replays a dead letter (external to the code).
Replay(e) ==
    /\ e \in dead
    /\ dead' = dead \ {e}
    /\ attempts' = [attempts EXCEPT ![e] = 0]
    /\ UNCHANGED <<event, published, onceVars, active, workerVars, faults>>

\* A crash; SIGTERM, which leaves the rest of a batch, is one between rows.
Crash(w) ==
    /\ faults < MaxFaults
    /\ faults' = faults + 1
    /\ ~ Idle(w)
    /\ row' = [row EXCEPT ![w] = None]
    /\ batch' = [batch EXCEPT ![w] = {}]
    /\ todo' = [todo EXCEPT ![w] = <<>>]
    /\ failing' = [failing EXCEPT ![w] = FALSE]
    /\ UNCHANGED <<event, rowVars, onceVars, active>>

\* setWorkspaceStatus
SetWorkspaceStatus ==
    /\ active' = ~ active
    /\ faults' = IF active THEN faults + 1 ELSE faults
    /\ faults' <= MaxFaults
    /\ UNCHANGED <<event, rowVars, onceVars, workerVars>>

-----------------------------------------------------------------------------
(* handleOnce, for the family a worker has reached *)

Reached(w, c) == row[w] # None /\ todo[w] # <<>> /\ Head(todo[w]) = c
Once(w, c)    == <<c, row[w]>>

NextFamily(w, failed) ==
    /\ todo' = [todo EXCEPT ![w] = Tail(@)]
    /\ failing' = [failing EXCEPT ![w] = @ \/ failed]
    /\ UNCHANGED <<batch, row>>

\* markProcessed finds the row; a concurrent handler of the same event is
\* waited for, so its transaction counts as before this one.
Duplicate(w, c) ==
    /\ Reached(w, c)
    /\ Once(w, c) \in processed
    /\ NextFamily(w, FALSE)
    /\ UNCHANGED <<event, rowVars, onceVars, active, faults>>

MutSkip(w, c) ==                            \* acknowledged without a dedupe row
    /\ Reached(w, c)
    /\ Once(w, c) \notin processed
    /\ ~ active
    /\ skipped' = skipped \cup {Once(w, c)}
    /\ NextFamily(w, FALSE)
    /\ UNCHANGED <<event, rowVars, processed, applied, active, faults>>

\* A frozen workspace's events are acknowledged, not applied.
Skip(w, c) ==
    /\ Reached(w, c)
    /\ Once(w, c) \notin processed
    /\ ~ active
    /\ processed' = processed \cup {Once(w, c)}
    /\ skipped' = skipped \cup {Once(w, c)}
    /\ NextFamily(w, FALSE)
    /\ UNCHANGED <<event, rowVars, applied, active, faults>>

MutApply(w, c) ==                           \* the dedupe row is not looked at
    /\ Reached(w, c)
    /\ active
    /\ processed' = processed \cup {Once(w, c)}
    /\ applied' = [applied EXCEPT ![Once(w, c)] = @ + 1]
    /\ UNCHANGED <<rowVars, skipped, active, batch, row, faults>>

\* The handler's writes commit together with the dedupe row.
Apply(w, c) ==
    /\ Reached(w, c)
    /\ Once(w, c) \notin processed
    /\ active
    /\ processed' = processed \cup {Once(w, c)}
    /\ applied' = [applied EXCEPT ![Once(w, c)] = @ + 1]
    /\ UNCHANGED <<rowVars, skipped, active, batch, row, faults>>

\* The handler throws: both are rolled back, and the other families go on.
Fail(w, c) ==
    /\ faults < MaxFaults
    /\ faults' = faults + 1
    /\ Reached(w, c)
    /\ Once(w, c) \notin processed
    /\ active
    /\ NextFamily(w, TRUE)
    /\ UNCHANGED <<event, rowVars, onceVars, active>>

OutboxInit ==
    /\ event = [e \in Events |-> None]
    /\ published = {} /\ dead = {}
    /\ attempts = [e \in Events |-> 0]
    /\ processed = {} /\ skipped = {}
    /\ applied = [o \in Consumers \X Events |-> 0]
    /\ active = TRUE
    /\ batch = [w \in Workers |-> {}]
    /\ row = [w \in Workers |-> None]
    /\ todo = [w \in Workers |-> <<>>]
    /\ failing = [w \in Workers |-> FALSE]
    /\ faults = 0

OutboxTypeOK ==
    /\ published \subseteq Inserted /\ dead \subseteq Inserted
    /\ attempts \in [Events -> Nat]
    /\ processed \subseteq Consumers \X Events /\ skipped \subseteq processed
    /\ applied \in [Consumers \X Events -> Nat]
    /\ active \in BOOLEAN
    /\ batch \in [Workers -> SUBSET Inserted]
    /\ row \in [Workers -> Inserted \cup {None}]
    /\ todo \in [Workers -> Seq(Consumers)]
    /\ failing \in [Workers -> BOOLEAN]
    /\ faults \in 0..MaxFaults
=============================================================================
