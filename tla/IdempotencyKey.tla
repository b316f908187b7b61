--------------------------- MODULE IdempotencyKey ---------------------------
(***************************************************************************)
(* One Idempotency-Key and the requests that carry it                      *)
(* (packages/db/src/idempotency.ts, run by the API's interceptor).         *)
(*                                                                         *)
(* Every statement of the code names one key of one scope, so keys do not  *)
(* meet and one is enough.  A claim, the handler, and the storing or the   *)
(* releasing of the key are transactions of their own; the claim is two    *)
(* steps here, its insert and its read, as the row may be gone in between. *)
(* A client's retry is another request with the same fingerprint.          *)
(*                                                                         *)
(* Time is the age of the row.  The lease is longer than any transaction   *)
(* timeout, so it runs out only under a request that is gone, or one whose *)
(* handler waits for something else: those are the requests in Slow.       *)
(***************************************************************************)
EXTENDS FiniteSets

CONSTANTS
    Requests,
    PrintOf,      \* fingerprint of a request: a hash of its route and body
    Slow,         \* requests whose handler may outlive the lease
    None

VARIABLES
    row,          \* the key's row of idempotency_key, or None
    pc,           \* where a request is in withIdempotency
    heard,        \* what its client was answered: a request is that one's answer
    runs,         \* history: handlers that committed since the key was last forgotten
    overrun       \* history: requests the lease ran out under

vars == <<row, pc, heard, runs, overrun>>

Bodies == {"json", "large", "stream"}      \* what a handler that committed answers
Live   == {"running", "failed"} \cup Bodies

Rows == [print : {PrintOf[q] : q \in Requests}, by : Requests,
         state : {"in_flight", "stored", "too_large"},
         answer : Requests \cup {None}, age : {"fresh", "lapsed", "old"}]

ASSUME KeyAssumption ==
    /\ PrintOf \in [Requests -> {PrintOf[q] : q \in Requests}]
    /\ Slow \subseteq Requests
    /\ None \notin Requests \cup Rows
    /\ Requests \cap {"busy", "mismatch", "too_large", "error"} = {}

Goto(q, place) == pc' = [pc EXCEPT ![q] = place]
Answer(q, a)   == Goto(q, "done") /\ heard' = [heard EXCEPT ![q] = a]

Init ==
    /\ row = None
    /\ pc = [q \in Requests |-> "new"]
    /\ heard = [q \in Requests |-> None]
    /\ runs = {} /\ overrun = {}

-----------------------------------------------------------------------------
(* claimIdempotencyKey *)

MutExpired ==                              \* without the lease
    row # None /\ (row.age = "old" \/ row.state = "in_flight")

MutExpiredAtTTL ==                         \* in flight or not, 24 h
    row # None /\ row.age = "old"

Expired ==
    /\ row # None
    /\ row.age = "old" \/ (row.state = "in_flight" /\ row.age = "lapsed")

\* The key's expired row is deleted, and the insert gets the key.
Claim(q) ==
    /\ pc[q] \in {"new", "waiting"}
    /\ row = None \/ Expired
    /\ row' = [print |-> PrintOf[q], by |-> q, state |-> "in_flight", answer |-> None, age |-> "fresh"]
    /\ runs' = IF row = None THEN runs ELSE {}
    /\ Goto(q, "running")
    /\ UNCHANGED <<heard, overrun>>

\* ... or does nothing: ON CONFLICT.
Conflict(q) ==
    /\ pc[q] \in {"new", "waiting"}
    /\ row # None /\ ~ Expired
    /\ Goto(q, "reading")
    /\ UNCHANGED <<row, heard, runs, overrun>>

MutOurs(q) == row # None                   \* the fingerprint is not compared

Ours(q) == row # None /\ row.print = PrintOf[q]

\* The row the insert met is read, and may be another by now, or none.
Read(q) ==
    /\ pc[q] = "reading"
    /\ \/ /\ row # None => Ours(q) /\ row.state = "in_flight"
          /\ Goto(q, "waiting")
          /\ UNCHANGED heard
       \/ /\ row # None /\ ~ Ours(q)
          /\ Answer(q, "mismatch")
       \/ /\ Ours(q) /\ row.state = "too_large"
          /\ Answer(q, "too_large")
       \/ /\ Ours(q) /\ row.state = "stored"
          /\ Answer(q, row.answer)
    /\ UNCHANGED <<row, runs, overrun>>

\* The deadline: 409, or for Slack an empty 200.
GiveUp(q) ==
    /\ pc[q] = "waiting"
    /\ Answer(q, "busy")
    /\ UNCHANGED <<row, runs, overrun>>

-----------------------------------------------------------------------------
(* withIdempotency, once it holds the key *)

\* The handler's own transaction, and the kind of body it answers.
Commit(q) ==
    /\ pc[q] = "running"
    /\ \E body \in Bodies : Goto(q, body)
    /\ runs' = runs \cup {q}
    /\ UNCHANGED <<row, heard, overrun>>

Throw(q) ==
    /\ pc[q] = "running"
    /\ Goto(q, "failed")
    /\ UNCHANGED <<row, heard, runs, overrun>>

InFlight == row # None /\ row.state = "in_flight"

MutStored(q) ==                            \* without "completed_at IS NULL"
    IF row = None THEN None
    ELSE [row EXCEPT !.state = IF pc[q] = "large" THEN "too_large" ELSE "stored", !.answer = q]

MutStoredJson(q) ==                        \* completed_at only when there is a body
    IF ~ InFlight THEN row
    ELSE IF pc[q] = "large" THEN [row EXCEPT !.answer = q]
    ELSE [row EXCEPT !.state = "stored", !.answer = q]

Stored(q) ==
    IF InFlight
    THEN [row EXCEPT !.state = IF pc[q] = "large" THEN "too_large" ELSE "stored", !.answer = q]
    ELSE row

\* completeIdempotencyKey: the update names the key, not who holds it.
Complete(q) ==
    /\ pc[q] \in {"json", "large"}
    /\ row' = Stored(q)
    /\ Answer(q, q)
    /\ UNCHANGED <<runs, overrun>>

\* releaseIdempotencyKey after an error, or of an answer that cannot be replayed,
\* whose handler may then run again.
Release(q) ==
    /\ pc[q] \in {"failed", "stream"}
    /\ row' = IF InFlight THEN None ELSE row
    /\ runs' = runs \ {q}
    /\ Answer(q, IF pc[q] = "failed" THEN "error" ELSE q)
    /\ UNCHANGED overrun

\* That last transaction fails: the error is logged, and the row stays.
StoreFails(q) ==
    /\ pc[q] \in Live \ {"running"}
    /\ Answer(q, IF pc[q] = "failed" THEN "error" ELSE q)
    /\ UNCHANGED <<row, runs, overrun>>

\* The API process dies.
Crash(q) ==
    /\ pc[q] \in Live \cup {"reading", "waiting"}
    /\ Goto(q, "crashed")
    /\ UNCHANGED <<row, heard, runs, overrun>>

-----------------------------------------------------------------------------
(* Time *)

LeaseLapses ==
    /\ InFlight /\ row.age = "fresh"
    /\ pc[row.by] \notin Live \/ row.by \in Slow
    /\ row' = [row EXCEPT !.age = "lapsed"]
    /\ overrun' = IF pc[row.by] \in Live THEN overrun \cup {row.by} ELSE overrun
    /\ UNCHANGED <<pc, heard, runs>>

KeyExpires ==
    /\ row # None
    /\ row.age = "lapsed" \/ (row.age = "fresh" /\ ~ InFlight)
    /\ row' = [row EXCEPT !.age = "old"]
    /\ UNCHANGED <<pc, heard, runs, overrun>>

\* sweepIdempotencyKeys, by the worker, or by a claim of the Slack team's.
Sweep ==
    /\ row # None /\ row.age = "old"
    /\ row' = None
    /\ runs' = {}
    /\ UNCHANGED <<pc, heard, overrun>>

-----------------------------------------------------------------------------

Next ==
    \/ \E q \in Requests :
          \/ Claim(q) \/ Conflict(q) \/ Read(q) \/ GiveUp(q)
          \/ Commit(q) \/ Throw(q)
          \/ Complete(q) \/ Release(q) \/ StoreFails(q)
          \/ Crash(q)
    \/ LeaseLapses \/ KeyExpires \/ Sweep

\* A process that lives goes on, and the lease of one that does not runs out.
\* Nobody has to crash, to give up, or to send a request.
Fairness ==
    /\ \A q \in Requests :
          /\ WF_vars(pc[q] = "waiting" /\ (Claim(q) \/ Conflict(q)))
          /\ WF_vars(Read(q))
          /\ WF_vars(Commit(q) \/ Throw(q))
          /\ WF_vars(Complete(q) \/ Release(q) \/ StoreFails(q))
    /\ WF_vars(LeaseLapses)

Spec     == Init /\ [][Next]_vars
FairSpec == Spec /\ Fairness

-----------------------------------------------------------------------------
(* Properties *)

\* Every variable has its type, and a row holds an answer exactly when it is
\* completed.
TypeOK ==
    /\ row # None => row \in Rows /\ (row.answer = None <=> row.state = "in_flight")
    /\ pc \in [Requests -> {"new", "waiting", "reading", "done", "crashed"} \cup Live]
    /\ heard \in [Requests ->
                    Requests \cup {None, "busy", "mismatch", "too_large", "error"}]
    /\ runs \subseteq Requests
    /\ overrun \subseteq Slow

\* What a key is for (idempotency.ts:6): between two times the key is forgotten
\* (after 24 h, or 10 minutes after a crash) one handler commits, whatever retries,
\* fails, crashes or is swept meanwhile, as long as no handler outlived its lease.
EffectOnce == overrun = {} => \A q, r \in runs : q = r

\* A retry that is answered for another request (a replay, or "too large to
\* replay") is answered for one of the same fingerprint whose effect stands.
ReplayOfAnEffect ==
    [][overrun = {} =>
         \A q \in Requests :
            (heard'[q] # heard[q] /\ heard'[q] # q /\ heard'[q] \in Requests \cup {"too_large"}) =>
               \E r \in runs : PrintOf[r] = PrintOf[q] /\ heard'[q] \in {r, "too_large"}]_vars

\* A stored answer stands until the key is forgotten: no late or repeated handler
\* replaces or deletes it, not even one that outlived its lease, although the
\* statements do not say whose row they mean (idempotency.ts:113, 118).
StoredStands ==
    [][(row # None /\ ~ InFlight /\ row.age # "old") =>
          /\ row' # None
          /\ row'.state = row.state /\ row'.answer = row.answer /\ row'.by = row.by]_vars

\* A request that waits for the one that holds the key is answered by a replay
\* or runs itself, also if the holder crashed and even if it never gives up.
WaiterServed ==
    \A q \in Requests : pc[q] = "waiting" ~> pc[q] \in {"done", "crashed"}
=============================================================================
