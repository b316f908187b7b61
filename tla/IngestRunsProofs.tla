-------------------------- MODULE IngestRunsProofs --------------------------
(***************************************************************************)
(* Theorems about IngestRuns with OutboxDelivery under it, for any number  *)
(* of workers, events, runs and faults and any families: what is published *)
(* was handled, each event by each consumer once, one worker loads at a    *)
(* time, and the facts of a run are announced.                             *)
(***************************************************************************)
EXTENDS IngestRuns, FiniteSetTheorems, TLAPS

USE OutboxAssumption, RunsAssumption

Messages == {Requested(r) : r \in Runs} \cup {FactsLoaded(r) : r \in Runs}

Elems(s) == {s[i] : i \in 1..Len(s)}

\* The ids are used without gaps.
EventsOK ==
    /\ event \in [Events -> Messages \cup {None}]
    /\ Inserted = 1..Cardinality(Inserted)

\* What a worker has still to do for its row is enough to publish it.
WorkOK(w) ==
    /\ row[w] = None => stage[w] = "none"
    /\ row[w] # None => Elems(todo[w]) \subseteq FamiliesOf(row[w])
    /\ row[w] # None /\ ~ failing[w] =>
          \A c \in FamiliesOf(row[w]) : <<c, row[w]>> \in processed \/ c \in Elems(todo[w])

\* A worker that loads is alone on its row, and nobody may sweep its run.
LoadOK(w) ==
    stage[w] # "none" =>
        /\ row[w] # None /\ todo[w] # <<>> /\ Head(todo[w]) = "ingest"
        /\ <<"ingest", row[w]>> \in processed
        /\ rstatus[RunOf(w)] = "running" /\ RunOf(w) \notin stale
        /\ \A x \in Workers : stage[x] # "none" /\ row[x] = row[w] => x = w

\* One request per run, one open run, and a lease only for runs that started.
RunsOK ==
    /\ \A e, f \in Inserted, r \in Runs :
          event[e] = Requested(r) /\ event[f] = Requested(r) => e = f
    /\ \A e \in Inserted, r \in Runs : event[e] = Requested(r) => rstatus[r] # "none"
    /\ \A r, s \in OpenRuns : r = s
    /\ \A r \in stale : rstatus[r] \notin {"none", "queued"}

DeliveryInv ==
    /\ TypeOK /\ EventsOK
    /\ HandledOnce /\ PublishedMeansHandled
    /\ \A w \in Workers : WorkOK(w)

LoadInv ==
    /\ RunsOK /\ FactsAnnounced
    /\ \A w \in Workers : LoadOK(w)

Inv == DeliveryInv /\ LoadInv

-----------------------------------------------------------------------------
(* Events and families *)

LEMMA MessageTypes ==
    /\ None \notin Messages
    /\ \A m \in Messages : m.run \in Runs /\ m.topic \in DOMAIN Families
                           /\ Families[m.topic] \in Seq(Consumers)
    /\ \A r \in Runs : Requested(r) \in Messages /\ FactsLoaded(r) \in Messages
    /\ \A r, s \in Runs : Requested(r) # FactsLoaded(s)
    /\ \A r, s \in Runs : Requested(r) = Requested(s) => r = s
<1>1. \A r \in Runs : Requested(r).run = r /\ FactsLoaded(r).run = r
                     /\ Requested(r).topic = "ingest.requested"
                     /\ FactsLoaded(r).topic = "facts.loaded"
  BY DEF Requested, FactsLoaded
<1>2. \A t \in {"ingest.requested", "facts.loaded"} :
          t \in DOMAIN Families /\ Families[t] \in Seq(Consumers)
  BY SMT
<1>3. \A m \in Messages : m.run \in Runs /\ m.topic \in {"ingest.requested", "facts.loaded"}
  BY <1>1 DEF Messages
<1>4. None \notin Messages
  BY DEF Messages
<1>5. \A r \in Runs : Requested(r) \in Messages /\ FactsLoaded(r) \in Messages
  BY DEF Messages
<1>6. "ingest.requested" # "facts.loaded"
  OBVIOUS
<1> HIDE DEF Messages
<1> QED BY <1>1, <1>2, <1>3, <1>4, <1>5, <1>6

\* Rows that outbox() inserts get the next ids and disturb no other.
LEMMA InsertGrows ==
    ASSUME EventsOK, NEW s \in Seq(Messages), Insert(s)
    PROVE  /\ EventsOK'
           /\ \A e \in Inserted : e \in Inserted' /\ event'[e] = event[e]
           /\ \A i \in 1..Len(s) : \E e \in Inserted' \ Inserted : event'[e] = s[i]
           /\ \A e \in Inserted' \ Inserted :
                 \E i \in 1..Len(s) : event'[e] = s[i] /\ e = Cardinality(Inserted) + i
<1> DEFINE n == Cardinality(Inserted)
<1>1. IsFiniteSet(Events) /\ Inserted \subseteq Events
  <2>1. 1 \in Int /\ MaxEvents \in Int
    BY SMT
  <2>2. IsFiniteSet(1..MaxEvents)
    BY <2>1, FS_Interval
  <2> QED BY <2>2 DEF Events, Inserted
<1>2. n \in Nat
  BY <1>1, FS_Subset, FS_CardinalityType
<1>3. Len(s) \in Nat /\ n + Len(s) <= MaxEvents /\ Inserted = 1..n
  BY DEF Insert, EventsOK
<1>4. event' = [e \in Events |-> IF e \in n + 1..n + Len(s) THEN s[e - n] ELSE event[e]]
  BY DEF Insert
<1> HIDE DEF n
<1>5. \A i \in 1..Len(s) : s[i] \in Messages /\ s[i] # None
  BY MessageTypes
<1>6. \A i \in 1..Len(s) : n + i \in Events /\ event'[n + i] = s[i]
  BY <1>2, <1>3, <1>4 DEF Events
<1>7. \A e \in Events : e \in n + 1..n + Len(s) => e - n \in 1..Len(s) /\ event'[e] = s[e - n]
  BY <1>2, <1>3, <1>4 DEF Events
<1>8. \A e \in Events : e \notin n + 1..n + Len(s) => event'[e] = event[e]
  BY <1>4
<1>9. event' \in [Events -> Messages \cup {None}]
  BY <1>4, <1>5, <1>7, <1>8 DEF EventsOK
<1>10. Inserted' = 1..n + Len(s)
  <2>1. \A e \in Events : e \in n + 1..n + Len(s) => event'[e] # None
    BY <1>5, <1>7
  <2>2. \A e \in Events : e \in 1..n => event'[e] # None
    <3> TAKE e \in Events
    <3> HAVE e \in 1..n
    <3>1. e \in Inserted /\ e \notin n + 1..n + Len(s)
      BY <1>2, <1>3
    <3> QED BY <3>1, <1>8 DEF Inserted
  <2>3. \A e \in Events : e \notin 1..n + Len(s) => event'[e] = None
    <3> TAKE e \in Events
    <3> HAVE e \notin 1..n + Len(s)
    <3>1. e \notin Inserted /\ e \notin n + 1..n + Len(s)
      BY <1>2, <1>3 DEF Events
    <3> QED BY <3>1, <1>8 DEF Inserted
  <2>4. \A e \in 1..n + Len(s) : e \in Events /\ (e \in 1..n \/ e \in n + 1..n + Len(s))
    BY <1>2, <1>3 DEF Events
  <2> QED BY <2>1, <2>2, <2>3, <2>4 DEF Inserted
<1>11. Cardinality(Inserted') = n + Len(s)
  BY <1>2, <1>3, <1>10, FS_Interval
<1>12. EventsOK'
  BY <1>9, <1>10, <1>11 DEF EventsOK
<1>13. \A e \in Inserted : e \in Inserted' /\ event'[e] = event[e]
  BY <1>2, <1>3, <1>8, <1>10 DEF Inserted
<1>14. \A i \in 1..Len(s) : \E e \in Inserted' \ Inserted : event'[e] = s[i]
  <2> TAKE i \in 1..Len(s)
  <2>1. n + i \in 1..n + Len(s) /\ n + i \notin 1..n
    BY <1>2, <1>3
  <2> QED BY <2>1, <1>3, <1>6, <1>10
<1>15. \A e \in Inserted' \ Inserted :
          \E i \in 1..Len(s) : event'[e] = s[i] /\ e = n + i
  <2> TAKE e \in Inserted' \ Inserted
  <2>1. e \in Events /\ e \in n + 1..n + Len(s)
    BY <1>2, <1>3, <1>10 DEF Events
  <2>2. e - n \in 1..Len(s) /\ event'[e] = s[e - n] /\ e = n + (e - n)
    BY <2>1, <1>7, <1>2 DEF Events
  <2> QED BY <2>2
<1> QED BY <1>12, <1>13, <1>14, <1>15 DEF n

LEMMA FamiliesOfElems ==
    \A e \in Events : FamiliesOf(e) = Elems(Families[event[e].topic])
BY DEF FamiliesOf, Elems

\* The ingest family is only reached for requests of runs.
LEMMA IngestRow ==
    ASSUME DeliveryInv, NEW w \in Workers, row[w] # None, todo[w] # <<>>, Head(todo[w]) = "ingest"
    PROVE  /\ row[w] \in Inserted /\ RunOf(w) \in Runs
           /\ event[row[w]] = Requested(RunOf(w))
<1>1. row[w] \in Inserted /\ todo[w] \in Seq(Consumers)
  BY DEF DeliveryInv, TypeOK, OutboxTypeOK
<1>2. event[row[w]] \in Messages
  BY <1>1 DEF DeliveryInv, EventsOK, Inserted
<1>3. "ingest" \in FamiliesOf(row[w])
  <2>1. 1 \in 1..Len(todo[w]) /\ todo[w][1] = "ingest"
    BY <1>1
  <2> QED BY <2>1 DEF DeliveryInv, WorkOK, Elems
<1>4. \A r \in Runs : event[row[w]] # FactsLoaded(r)
  BY <1>3 DEF FamiliesOf, FactsLoaded
<1>5. PICK r \in Runs : event[row[w]] = Requested(r)
  BY <1>2, <1>4 DEF Messages
<1>6. Requested(r).run = r
  BY DEF Requested
<1> QED BY <1>1, <1>5, <1>6 DEF RunOf

\* Finishing a family leaves the others.
LEMMA TailElems ==
    ASSUME NEW s \in Seq(Consumers), s # <<>>
    PROVE  /\ Tail(s) \in Seq(Consumers) /\ Head(s) \in Consumers
           /\ Elems(s) = {Head(s)} \cup Elems(Tail(s))
<1>1. /\ Tail(s) \in Seq(Consumers) /\ Head(s) = s[1] /\ Head(s) \in Consumers
      /\ Len(s) \in Nat \ {0} /\ Len(Tail(s)) = Len(s) - 1
      /\ \A i \in 1..Len(Tail(s)) : Tail(s)[i] = s[i + 1]
  OBVIOUS
<1>2. \A i \in 1..Len(s) : i = 1 \/ (i - 1 \in 1..Len(Tail(s)) /\ s[i] = Tail(s)[i - 1])
  BY <1>1
<1>3. \A i \in 1..Len(Tail(s)) : i + 1 \in 1..Len(s) /\ Tail(s)[i] = s[i + 1]
  BY <1>1
<1>4. 1 \in 1..Len(s)
  BY <1>1
<1>5. Elems(s) \subseteq {Head(s)} \cup Elems(Tail(s))
  <2> SUFFICES ASSUME NEW i \in 1..Len(s)
               PROVE  s[i] \in {Head(s)} \cup Elems(Tail(s))
    BY DEF Elems
  <2> QED BY <1>1, <1>2 DEF Elems
<1>6. {Head(s)} \cup Elems(Tail(s)) \subseteq Elems(s)
  <2>1. \A i \in 1..Len(Tail(s)) : Tail(s)[i] \in Elems(s)
    BY <1>3 DEF Elems
  <2>2. Head(s) \in Elems(s)
    BY <1>1, <1>4 DEF Elems
  <2> QED BY <2>1, <2>2 DEF Elems
<1> QED BY <1>1, <1>5, <1>6

-----------------------------------------------------------------------------
(* What was delivered *)

Grows == \A e \in Inserted : e \in Inserted' /\ event'[e] = event[e]

Stays(w) ==
    /\ row'[w] = row[w] /\ todo'[w] = todo[w] /\ failing'[w] = failing[w]
    /\ stage'[w] = "none" => stage[w] = "none"
    /\ row[w] = None => stage'[w] = "none"

LEMMA FamiliesStay ==
    ASSUME Grows, NEW e \in Inserted
    PROVE  FamiliesOf(e)' = FamiliesOf(e)
BY DEF Grows, FamiliesOf

\* A worker whose row, families and failures stay has as much to do as before,
\* or less.
LEMMA WorkStays ==
    ASSUME DeliveryInv, Grows, processed \subseteq processed', NEW w \in Workers, Stays(w)
    PROVE  WorkOK(w)'
<1>1. row[w] # None => event'[row'[w]] = event[row[w]]
  BY DEF DeliveryInv, TypeOK, OutboxTypeOK, Grows, Stays
<1>2. row[w] # None => FamiliesOf(row[w])' = FamiliesOf(row[w])
  BY <1>1 DEF FamiliesOf
<1>3. WorkOK(w) /\ Elems(todo[w])' = Elems(todo[w])
  BY DEF DeliveryInv, Stays, Elems
<1> QED BY <1>2, <1>3 DEF WorkOK, Stays

\* A family that is over need not be done again, or the row is not published.
LEMMA WorkAfterFamily ==
    ASSUME DeliveryInv, Grows, processed \subseteq processed', NEW w \in Workers,
           row[w] # None, todo[w] # <<>>, row'[w] = row[w], todo'[w] = Tail(todo[w]),
           failing'[w] \in BOOLEAN, ~ failing'[w] => ~ failing[w] /\ <<Head(todo[w]), row[w]>> \in processed'
    PROVE  WorkOK(w)'
<1>1. event'[row'[w]] = event[row[w]] /\ todo[w] \in Seq(Consumers)
  BY DEF DeliveryInv, TypeOK, OutboxTypeOK, Grows
<1>2. FamiliesOf(row[w])' = FamiliesOf(row[w])
  BY <1>1 DEF FamiliesOf
<1>3. Elems(todo[w]) = {Head(todo[w])} \cup Elems(Tail(todo[w]))
  BY <1>1, TailElems
<1>4. WorkOK(w) /\ Elems(todo[w])' = Elems(Tail(todo[w]))
  BY DEF DeliveryInv, Elems
<1>5. Elems(todo[w])' \subseteq FamiliesOf(row[w])'
  BY <1>2, <1>3, <1>4 DEF WorkOK
<1>6. ASSUME ~ failing'[w], NEW c \in FamiliesOf(row[w])
      PROVE  <<c, row[w]>> \in processed' \/ c \in Elems(Tail(todo[w]))
  BY <1>3, <1>4, <1>6 DEF WorkOK
<1> QED BY <1>2, <1>4, <1>5, <1>6 DEF WorkOK

\* What a step has to keep, the rest follows.
LEMMA DeliveryFrame ==
    ASSUME DeliveryInv, TypeOK', EventsOK', Grows, HandledOnce', processed \subseteq processed',
           published' \subseteq published \/ PublishedMeansHandled',
           \A w \in Workers : Stays(w) \/ WorkOK(w)'
    PROVE  DeliveryInv'
<1>1. \A w \in Workers : WorkOK(w)'
  BY WorkStays
<1>2. PublishedMeansHandled'
  <2> SUFFICES ASSUME published' \subseteq published,
                      NEW e \in published', NEW c \in Consumers, c \in FamiliesOf(e)'
               PROVE  <<c, e>> \in processed'
    BY DEF PublishedMeansHandled
  <2>1. e \in Inserted
    BY DEF DeliveryInv, TypeOK, OutboxTypeOK
  <2>2. c \in FamiliesOf(e)
    BY <2>1 DEF FamiliesOf, Grows
  <2> QED BY <2>2 DEF DeliveryInv, PublishedMeansHandled
<1> QED BY <1>1, <1>2 DEF DeliveryInv

LEMMA EventsStay ==
    ASSUME EventsOK, UNCHANGED event
    PROVE  EventsOK' /\ Grows /\ Inserted' = Inserted
BY DEF EventsOK, Grows, Inserted

LEMMA OnceStays ==
    ASSUME HandledOnce, UNCHANGED onceVars
    PROVE  HandledOnce'
BY DEF HandledOnce, onceVars

\* handleOnce counts a commit where it finds no dedupe row.
LEMMA ApplyOnce ==
    ASSUME DeliveryInv, NEW w \in Workers, NEW c \in Consumers, Apply(w, c)
    PROVE  /\ HandledOnce' /\ Once(w, c) \in Consumers \X Inserted
           /\ processed' = processed \cup {Once(w, c)}
           /\ applied' \in [Consumers \X Events -> Nat]
           /\ todo[w] \in Seq(Consumers) /\ Tail(todo[w]) \in Seq(Consumers)
<1>1. Once(w, c) \in Consumers \X Inserted /\ Inserted \subseteq Events
  BY DEF DeliveryInv, TypeOK, OutboxTypeOK, Apply, Reached, Once, Inserted
<1>2. Once(w, c) \notin processed /\ Once(w, c) \notin skipped
  BY DEF Apply, DeliveryInv, TypeOK, OutboxTypeOK
<1>3. applied' = [applied EXCEPT ![Once(w, c)] = @ + 1] /\ processed' = processed \cup {Once(w, c)}
      /\ skipped' = skipped
  BY DEF Apply
<1>4. todo[w] \in Seq(Consumers) /\ Tail(todo[w]) \in Seq(Consumers)
  <2>1. todo[w] \in Seq(Consumers) /\ todo[w] # <<>>
    BY DEF Apply, Reached, DeliveryInv, TypeOK, OutboxTypeOK
  <2> QED BY <2>1, TailElems
<1> HIDE DEF Once
<1>5. applied \in [Consumers \X Events -> Nat] /\ Once(w, c) \in Consumers \X Events
  BY <1>1 DEF DeliveryInv, TypeOK, OutboxTypeOK
<1>6. applied[Once(w, c)] = 0 /\ applied'[Once(w, c)] = 1
  BY <1>2, <1>3, <1>5 DEF DeliveryInv, HandledOnce
<1>7. \A o \in Consumers \X Events : o # Once(w, c) => applied'[o] = applied[o]
  BY <1>3, <1>5
<1>8. HandledOnce'
  BY <1>2, <1>3, <1>6, <1>7 DEF DeliveryInv, HandledOnce
<1>9. applied' \in [Consumers \X Events -> Nat]
  BY <1>3, <1>5
<1> QED BY <1>1, <1>3, <1>4, <1>8, <1>9

\* Worker steps that neither end a family nor touch the tables.
LEMMA PollDelivers ==
    ASSUME Inv, NEW w \in Workers, PollAll(w)
    PROVE  DeliveryInv'
<1>1. EventsOK' /\ Grows /\ HandledOnce' /\ Inserted' = Inserted
  BY EventsStay, OnceStays DEF Inv, DeliveryInv, PollAll, Poll
<1>3. \A claim \in Claims : claim \subseteq Inserted
  BY DEF Claims, Pending
<1>4. TypeOK'
  BY <1>1, <1>3 DEF Inv, DeliveryInv, TypeOK, OutboxTypeOK, PollAll, Poll, rowVars, onceVars, runVars
<1>5. \A x \in Workers : Stays(x)
  BY DEF Inv, DeliveryInv, WorkOK, Stays, PollAll, Poll, runVars
<1> QED BY <1>1, <1>4, <1>5, DeliveryFrame DEF Inv, PollAll, Poll, rowVars, onceVars

LEMMA StartRowDelivers ==
    ASSUME Inv, NEW w \in Workers, StartRow(w), UNCHANGED runVars
    PROVE  DeliveryInv'
<1>1. EventsOK' /\ Grows /\ HandledOnce' /\ Inserted' = Inserted
  BY EventsStay, OnceStays DEF Inv, DeliveryInv, StartRow
<1>2. PICK e \in batch[w] :
          /\ row' = [row EXCEPT ![w] = e]
          /\ batch' = [batch EXCEPT ![w] = @ \ {e}]
          /\ todo' = [todo EXCEPT ![w] = Families[event[e].topic]]
  BY DEF StartRow
<1>3. e \in Inserted /\ event[e] \in Messages
  BY <1>2 DEF Inv, DeliveryInv, TypeOK, OutboxTypeOK, EventsOK, Inserted
<1>4. Families[event[e].topic] \in Seq(Consumers)
  BY <1>3, MessageTypes
<1>5. TypeOK'
  BY <1>1, <1>2, <1>3, <1>4
     DEF Inv, DeliveryInv, TypeOK, OutboxTypeOK, StartRow, rowVars, onceVars, runVars
<1>6. WorkOK(w)'
  <2>1. row'[w] = e /\ e # None /\ event' = event /\ todo'[w] = Families[event'[e].topic]
    BY <1>2, <1>3 DEF Inv, DeliveryInv, TypeOK, OutboxTypeOK, StartRow, Inserted, Events
  <2>2. Elems(todo[w])' = FamiliesOf(row[w])'
    BY <2>1 DEF FamiliesOf, Elems
  <2> QED BY <2>1, <2>2 DEF WorkOK
<1>7. \A x \in Workers : x # w => Stays(x)
  BY <1>2 DEF Inv, DeliveryInv, TypeOK, OutboxTypeOK, WorkOK, Stays, StartRow, runVars
<1> QED BY <1>1, <1>5, <1>6, <1>7, DeliveryFrame DEF Inv, StartRow, rowVars, onceVars

LEMMA OneMoreAttempt ==
    ASSUME NEW f \in [Events -> Nat], NEW e \in Events
    PROVE  [f EXCEPT ![e] = @ + 1] \in [Events -> Nat]
OBVIOUS

LEMMA RowEndDelivers ==
    ASSUME Inv, NEW w \in Workers, EndRow(w)
    PROVE  DeliveryInv'
<1> USE DEF EndRow, Publish, RetryLater, RowEnds
<1>1. EventsOK' /\ Grows /\ HandledOnce' /\ Inserted' = Inserted
  BY EventsStay, OnceStays DEF Inv, DeliveryInv
<1>2. row[w] \in Inserted /\ stage[w] = "none" /\ row' = [row EXCEPT ![w] = None]
  BY DEF Inv, DeliveryInv, TypeOK, OutboxTypeOK, LoadInv, LoadOK
<1>3. row'[w] = None /\ \A x \in Workers : x # w => row'[x] = row[x]
  BY <1>2 DEF Inv, DeliveryInv, TypeOK, OutboxTypeOK
<1>4. /\ published' \subseteq published \cup {row[w]} /\ dead' \subseteq dead \cup {row[w]}
      /\ attempts' = attempts \/ attempts' = [attempts EXCEPT ![row[w]] = @ + 1]
  OBVIOUS
<1>5. row' \in [Workers -> Inserted' \cup {None}] /\ attempts' \in [Events -> Nat]
  <2>1. /\ attempts \in [Events -> Nat] /\ row \in [Workers -> Inserted \cup {None}]
        /\ row[w] \in Events
    BY <1>2 DEF Inv, DeliveryInv, TypeOK, OutboxTypeOK, Inserted
  <2>2. row' \in [Workers -> Inserted' \cup {None}]
    BY <1>1, <1>2, <2>1
  <2>3. [attempts EXCEPT ![row[w]] = @ + 1] \in [Events -> Nat]
    BY <2>1, OneMoreAttempt
  <2> QED BY <1>4, <2>1, <2>2, <2>3
<1>6. TypeOK'
  BY <1>1, <1>2, <1>4, <1>5 DEF Inv, DeliveryInv, TypeOK, OutboxTypeOK, onceVars, runVars
<1>7. WorkOK(w)' /\ \A x \in Workers : x # w => Stays(x)
  BY <1>2, <1>3 DEF Inv, DeliveryInv, WorkOK, Stays, runVars
<1>8. published' \subseteq published \/ PublishedMeansHandled'
  <2> SUFFICES ASSUME Publish(w), NEW e \in published', NEW c \in Consumers, c \in FamiliesOf(e)'
               PROVE  <<c, e>> \in processed'
    BY <1>4 DEF PublishedMeansHandled
  <2>1. e \in published \/ e = row[w]
    BY <1>4
  <2>2. c \in FamiliesOf(e) /\ processed' = processed
    BY DEF FamiliesOf, onceVars
  <2>3. CASE e = row[w]
    <3>1. ~ failing[w] /\ Elems(todo[w]) = {} /\ WorkOK(w) /\ row[w] # None
      BY DEF Inv, DeliveryInv, Elems
    <3> QED BY <2>2, <2>3, <3>1 DEF WorkOK
  <2> QED BY <2>1, <2>2, <2>3 DEF Inv, DeliveryInv, PublishedMeansHandled
<1> QED BY <1>1, <1>6, <1>7, <1>8, DeliveryFrame DEF Inv, onceVars

LEMMA CrashDelivers ==
    ASSUME Inv, NEW w \in Workers, CrashWorker(w)
    PROVE  DeliveryInv'
<1> USE DEF CrashWorker, Crash
<1>1. EventsOK' /\ Grows /\ HandledOnce' /\ Inserted' = Inserted
  BY EventsStay, OnceStays DEF Inv, DeliveryInv
<1>2. <<>> \in Seq(Consumers) /\ faults' \in 0..MaxFaults
  BY DEF Inv, DeliveryInv, TypeOK, OutboxTypeOK
<1>3. TypeOK'
  BY <1>1, <1>2 DEF Inv, DeliveryInv, TypeOK, OutboxTypeOK, rowVars, onceVars
<1>4. WorkOK(w)' /\ \A x \in Workers : x # w => Stays(x)
  BY DEF Inv, DeliveryInv, TypeOK, OutboxTypeOK, WorkOK, Stays
<1> QED BY <1>1, <1>3, <1>4, DeliveryFrame DEF Inv, rowVars, onceVars

\* The archiving of the workspace, a replay and the end of a lease.
LEMMA OthersDeliver ==
    ASSUME Inv, \/ (SetWorkspaceStatus \/ \E e \in Events : Replay(e)) /\ UNCHANGED runVars
                \/ \E r \in Runs : LeaseExpires(r)
    PROVE  DeliveryInv'
<1> USE DEF SetWorkspaceStatus, Replay, LeaseExpires
<1>1. event' = event /\ UNCHANGED onceVars /\ UNCHANGED workerVars /\ UNCHANGED stage
      /\ published' = published
  BY DEF rowVars, onceVars, workerVars, outboxVars, runVars
<1>2. EventsOK' /\ Grows /\ HandledOnce' /\ Inserted' = Inserted
  BY <1>1, EventsStay, OnceStays DEF Inv, DeliveryInv
<1>3. dead' \subseteq dead /\ attempts' \in [Events -> Nat]
  <2>1. dead' \subseteq dead /\ (attempts' = attempts \/ \E e \in Events : attempts' = [attempts EXCEPT ![e] = 0])
    BY DEF rowVars, outboxVars
  <2>2. attempts \in [Events -> Nat]
    BY DEF Inv, DeliveryInv, TypeOK, OutboxTypeOK
  <2> QED BY <2>1, <2>2
<1>4. faults' \in 0..MaxFaults /\ active' \in BOOLEAN
  <2>1. faults \in 0..MaxFaults /\ active \in BOOLEAN
    BY DEF Inv, DeliveryInv, TypeOK, OutboxTypeOK
  <2>2. /\ active' \in BOOLEAN
        /\ faults' = faults \/ (faults' = faults + 1 /\ faults' <= MaxFaults)
    BY <2>1 DEF outboxVars
  <2> QED BY <2>1, <2>2
<1>5. OutboxTypeOK'
  BY <1>1, <1>2, <1>3, <1>4 DEF Inv, DeliveryInv, TypeOK, OutboxTypeOK, onceVars, workerVars
<1>6. TypeOK'
  BY <1>5 DEF Inv, DeliveryInv, TypeOK, runVars, outboxVars
<1>7. \A x \in Workers : Stays(x)
  BY <1>1 DEF Inv, DeliveryInv, WorkOK, Stays, workerVars
<1> QED BY <1>1, <1>2, <1>6, <1>7, DeliveryFrame DEF Inv, onceVars

LEMMA HandleIngestDelivers ==
    ASSUME Inv, NEW w \in Workers, HandleIngest(w)
    PROVE  DeliveryInv'
<1>1. EventsOK' /\ Grows /\ Inserted' = Inserted
  BY EventsStay DEF Inv, DeliveryInv, HandleIngest
<1>2. /\ HandledOnce' /\ Once(w, "ingest") \in Consumers \X Inserted
      /\ processed' = processed \cup {Once(w, "ingest")}
      /\ applied' \in [Consumers \X Events -> Nat]
      /\ todo[w] \in Seq(Consumers) /\ Tail(todo[w]) \in Seq(Consumers)
  BY ApplyOnce DEF Inv, HandleIngest
<1>3. todo' \in [Workers -> Seq(Consumers)]
  BY <1>2 DEF Inv, DeliveryInv, TypeOK, OutboxTypeOK, HandleIngest
<1>4. OutboxTypeOK'
  BY <1>1, <1>2, <1>3 DEF Inv, DeliveryInv, TypeOK, OutboxTypeOK, HandleIngest, Apply, rowVars
<1>5. TypeOK'
  BY <1>4 DEF Inv, DeliveryInv, TypeOK, HandleIngest
<1>6. row[w] # None /\ todo[w] # <<>> /\ Head(todo[w]) = "ingest" /\ row' = row /\ failing' = failing
  BY DEF HandleIngest, Apply, Reached
<1>7. WorkOK(w)'
  <2>1. CASE rstatus[RunOf(w)] = "queued"
    <3>1. todo' = todo /\ event' = event
      BY <2>1 DEF HandleIngest
    <3>2. FamiliesOf(row[w])' = FamiliesOf(row[w]) /\ Elems(todo[w])' = Elems(todo[w])
      BY <1>6, <3>1 DEF FamiliesOf, Elems
    <3> QED BY <1>2, <1>6, <3>2 DEF Inv, DeliveryInv, WorkOK
  <2>2. CASE rstatus[RunOf(w)] # "queued"
    <3>1. todo'[w] = Tail(todo[w])
      BY <2>2 DEF HandleIngest, Inv, DeliveryInv, TypeOK, OutboxTypeOK
    <3> QED BY <1>1, <1>2, <1>6, <3>1, WorkAfterFamily
            DEF Inv, DeliveryInv, TypeOK, OutboxTypeOK, Once
  <2> QED BY <2>1, <2>2
<1>8. \A x \in Workers : x # w => Stays(x)
  BY <1>6 DEF Inv, DeliveryInv, TypeOK, OutboxTypeOK, WorkOK, Stays, HandleIngest
<1> QED BY <1>1, <1>2, <1>5, <1>7, <1>8, DeliveryFrame DEF Inv, HandleIngest, Apply, rowVars

LEMMA HandleOtherDelivers ==
    ASSUME Inv, NEW w \in Workers, NEW c \in Consumers, HandleOther(w, c)
    PROVE  DeliveryInv'
<1>1. EventsOK' /\ Grows /\ Inserted' = Inserted
  BY EventsStay DEF Inv, DeliveryInv, HandleOther
<1>2. /\ HandledOnce' /\ Once(w, c) \in Consumers \X Inserted
      /\ processed' = processed \cup {Once(w, c)}
      /\ applied' \in [Consumers \X Events -> Nat]
      /\ todo[w] \in Seq(Consumers) /\ Tail(todo[w]) \in Seq(Consumers)
  BY ApplyOnce DEF Inv, HandleOther
<1>3. todo' \in [Workers -> Seq(Consumers)]
  BY <1>2 DEF Inv, DeliveryInv, TypeOK, OutboxTypeOK, HandleOther
<1>4. OutboxTypeOK'
  BY <1>1, <1>2, <1>3 DEF Inv, DeliveryInv, TypeOK, OutboxTypeOK, HandleOther, Apply, rowVars
<1>5. TypeOK'
  BY <1>4 DEF Inv, DeliveryInv, TypeOK, HandleOther, runVars
<1>6. row[w] # None /\ todo[w] # <<>> /\ Head(todo[w]) = c /\ row' = row /\ failing' = failing
      /\ stage' = stage
  BY DEF HandleOther, Apply, Reached, runVars
<1>7. WorkOK(w)'
  <2>1. todo'[w] = Tail(todo[w])
    BY DEF HandleOther, Inv, DeliveryInv, TypeOK, OutboxTypeOK
  <2> QED BY <1>1, <1>2, <1>6, <2>1, WorkAfterFamily
          DEF Inv, DeliveryInv, TypeOK, OutboxTypeOK, Once
<1>8. \A x \in Workers : x # w => Stays(x)
  BY <1>6 DEF Inv, DeliveryInv, TypeOK, OutboxTypeOK, WorkOK, Stays, HandleOther
<1> QED BY <1>1, <1>2, <1>5, <1>7, <1>8, DeliveryFrame DEF Inv, HandleOther, Apply, rowVars

\* A family that ends without a commit of its handler.
LEMMA NoEffectDelivers ==
    ASSUME Inv, NEW w \in Workers, NEW c \in Consumers,
           Duplicate(w, c) \/ Skip(w, c) \/ Fail(w, c), UNCHANGED runVars
    PROVE  DeliveryInv'
<1> USE DEF Duplicate, Skip, Fail, NextFamily
<1>1. /\ event' = event /\ published' = published /\ UNCHANGED <<attempts, dead, applied, batch, row, stage>>
      /\ row[w] # None /\ todo[w] # <<>> /\ Head(todo[w]) = c
      /\ todo' = [todo EXCEPT ![w] = Tail(@)]
      /\ \/ failing' = [failing EXCEPT ![w] = @ \/ TRUE]
         \/ failing' = [failing EXCEPT ![w] = @ \/ FALSE] /\ Once(w, c) \in processed'
  BY DEF Reached, rowVars, onceVars, runVars
<1>2. EventsOK' /\ Grows /\ Inserted' = Inserted
  BY <1>1, EventsStay DEF Inv, DeliveryInv
<1>3. /\ Once(w, c) \in Consumers \X Inserted /\ Inserted \subseteq Events
      /\ todo[w] \in Seq(Consumers)
  BY <1>1 DEF Inv, DeliveryInv, TypeOK, OutboxTypeOK, Once, Inserted
<1>4. \/ processed' = processed /\ skipped' = skipped
      \/ /\ processed' = processed \cup {Once(w, c)} /\ skipped' = skipped \cup {Once(w, c)}
         /\ Once(w, c) \notin processed
  BY DEF onceVars
<1>5. HandledOnce'
  BY <1>1, <1>4 DEF Inv, DeliveryInv, TypeOK, OutboxTypeOK, HandledOnce
<1>6. todo' \in [Workers -> Seq(Consumers)] /\ todo'[w] = Tail(todo[w])
  <2>1. Tail(todo[w]) \in Seq(Consumers)
    BY <1>1, <1>3, TailElems
  <2> QED BY <1>1, <2>1 DEF Inv, DeliveryInv, TypeOK, OutboxTypeOK
<1>7. failing' \in [Workers -> BOOLEAN] /\ (~ failing'[w] => ~ failing[w] /\ Once(w, c) \in processed')
  BY <1>1 DEF Inv, DeliveryInv, TypeOK, OutboxTypeOK
<1>8. faults' \in 0..MaxFaults /\ active' = active
  <2>1. faults \in 0..MaxFaults
    BY DEF Inv, DeliveryInv, TypeOK, OutboxTypeOK
  <2> QED BY <2>1
<1>9. OutboxTypeOK'
  BY <1>1, <1>2, <1>3, <1>4, <1>6, <1>7, <1>8 DEF Inv, DeliveryInv, TypeOK, OutboxTypeOK
<1>10. TypeOK'
  BY <1>9 DEF Inv, DeliveryInv, TypeOK, runVars
<1>11. WorkOK(w)'
  BY <1>1, <1>2, <1>4, <1>6, <1>7, WorkAfterFamily DEF Inv, DeliveryInv, TypeOK, OutboxTypeOK, Once
<1>12. \A x \in Workers : x # w => Stays(x)
  BY <1>1 DEF Inv, DeliveryInv, TypeOK, OutboxTypeOK, WorkOK, Stays
<1> QED BY <1>1, <1>2, <1>4, <1>5, <1>10, <1>11, <1>12, DeliveryFrame DEF Inv

LEMMA LoadingDelivers ==
    ASSUME Inv, NEW w \in Workers, SetUp(w) \/ Flush(w)
    PROVE  DeliveryInv'
<1> USE DEF SetUp, Flush
<1>1. EventsOK' /\ Grows /\ HandledOnce' /\ Inserted' = Inserted
  BY EventsStay, OnceStays DEF Inv, DeliveryInv, outboxVars
<1>2. RunOf(w) \in Runs
  BY IngestRow DEF Inv, LoadInv, LoadOK
<1>3. OutboxTypeOK'
  BY <1>1 DEF Inv, DeliveryInv, TypeOK, OutboxTypeOK, outboxVars, rowVars, onceVars, workerVars
<1>4. TypeOK'
  BY <1>2, <1>3 DEF Inv, DeliveryInv, TypeOK
<1>5. \A x \in Workers : Stays(x)
  BY DEF Inv, DeliveryInv, TypeOK, WorkOK, Stays, outboxVars, workerVars
<1> QED BY <1>1, <1>4, <1>5, DeliveryFrame DEF Inv, outboxVars, rowVars, onceVars

\* What the pipeline and the sweeper insert.
LEMMA InsertedSequences ==
    \A r, n \in Runs :
       /\ <<Requested(r)>> \in Seq(Messages) /\ <<FactsLoaded(r)>> \in Seq(Messages)
       /\ Partial(r) \in Seq(Messages) /\ Partial(r) \o <<Requested(n)>> \in Seq(Messages)
       /\ \A i \in 1..Len(Partial(r)) : Partial(r)[i] = FactsLoaded(r)
       /\ r \in loaded => 1 \in 1..Len(Partial(r))
<1> TAKE r, n \in Runs
<1>1. Requested(r) \in Messages /\ Requested(n) \in Messages /\ FactsLoaded(r) \in Messages
  BY MessageTypes
<1>2. Partial(r) = <<>> \/ Partial(r) = <<FactsLoaded(r)>>
  BY DEF Partial
<1>3. r \in loaded => Partial(r) = <<FactsLoaded(r)>>
  BY DEF Partial
<1> HIDE DEF Requested, FactsLoaded, Partial, Messages
<1>4. Partial(r) \in Seq(Messages) /\ \A i \in 1..Len(Partial(r)) : Partial(r)[i] = FactsLoaded(r)
  <2>1. CASE Partial(r) = <<>>
    BY <2>1
  <2>2. CASE Partial(r) = <<FactsLoaded(r)>>
    BY <1>1, <2>2
  <2> QED BY <1>2, <2>1, <2>2
<1>5. <<Requested(r)>> \in Seq(Messages) /\ <<FactsLoaded(r)>> \in Seq(Messages)
      /\ <<Requested(n)>> \in Seq(Messages)
  BY <1>1
<1>6. r \in loaded => 1 \in 1..Len(Partial(r))
  <2>1. Len(<<FactsLoaded(r)>>) = 1 /\ 1 \in 1..1
    OBVIOUS
  <2> QED BY <1>3, <2>1
<1>7. Partial(r) \o <<Requested(n)>> \in Seq(Messages)
  BY <1>4, <1>5
<1> QED BY <1>4, <1>5, <1>6, <1>7

\* The rows of a step that leaves the workers to their families.
LEMMA InsertDelivers ==
    ASSUME Inv, NEW s \in Seq(Messages), Insert(s),
           UNCHANGED <<rowVars, onceVars, active, workerVars, faults, stage>>,
           rstatus' \in [Runs -> {"none", "queued", "running", "ok", "failed"}],
           retry' \subseteq Runs, stale' \subseteq Runs, loaded' \subseteq Runs
    PROVE  DeliveryInv'
<1>1. EventsOK' /\ Grows /\ HandledOnce'
  BY InsertGrows, OnceStays DEF Inv, DeliveryInv, Grows
<1>2. Inserted \subseteq Inserted'
  BY <1>1 DEF Grows
<1>3. OutboxTypeOK'
  <2>1. batch \in [Workers -> SUBSET Inserted'] /\ row \in [Workers -> Inserted' \cup {None}]
    BY <1>2 DEF Inv, DeliveryInv, TypeOK, OutboxTypeOK
  <2> QED BY <1>2, <2>1 DEF Inv, DeliveryInv, TypeOK, OutboxTypeOK, rowVars, onceVars, workerVars
<1>4. TypeOK'
  BY <1>3 DEF Inv, DeliveryInv, TypeOK
<1>5. \A x \in Workers : Stays(x)
  BY DEF Inv, DeliveryInv, WorkOK, Stays, workerVars
<1> QED BY <1>1, <1>4, <1>5, DeliveryFrame DEF Inv, rowVars, onceVars

LEMMA QueueRunDelivers ==
    ASSUME Inv, QueueRun
    PROVE  DeliveryInv'
<1>1. PICK r \in NewRuns \ {MaxRuns} :
          rstatus' = [rstatus EXCEPT ![r] = "queued"] /\ Insert(<<Requested(r)>>)
  BY DEF QueueRun
<1>2. <<Requested(r)>> \in Seq(Messages)
  BY InsertedSequences DEF NewRuns
<1>3. rstatus' \in [Runs -> {"none", "queued", "running", "ok", "failed"}]
  BY <1>1 DEF Inv, DeliveryInv, TypeOK
<1> QED BY <1>1, <1>2, <1>3, InsertDelivers DEF Inv, DeliveryInv, TypeOK, QueueRun

LEMMA SweepDelivers ==
    ASSUME Inv, NEW w \in Workers, NEW r \in Runs, Sweep(w, r)
    PROVE  DeliveryInv'
<1> DEFINE States == {"none", "queued", "running", "ok", "failed"}
<1>1. CASE /\ rstatus' = [rstatus EXCEPT ![r] = "failed"]
           /\ retry' = retry \ {r}
           /\ Insert(Partial(r))
  <2>1. rstatus' \in [Runs -> States] /\ retry' \subseteq Runs /\ Partial(r) \in Seq(Messages)
    BY <1>1, InsertedSequences DEF Inv, DeliveryInv, TypeOK
  <2> QED BY <1>1, <2>1, InsertDelivers DEF Inv, DeliveryInv, TypeOK, Sweep
<1>2. ASSUME NEW n \in NewRuns,
             rstatus' = [rstatus EXCEPT ![r] = "failed", ![n] = "queued"],
             retry' = retry \cup {n},
             Insert(Partial(r) \o <<Requested(n)>>)
      PROVE  DeliveryInv'
  <2>1. n \in Runs /\ rstatus \in [Runs -> States]
    BY DEF NewRuns, Inv, DeliveryInv, TypeOK
  <2>2. rstatus' \in [Runs -> States] /\ retry' \subseteq Runs
    BY <1>2, <2>1 DEF Inv, DeliveryInv, TypeOK
  <2>3. Partial(r) \o <<Requested(n)>> \in Seq(Messages)
    BY <2>1, InsertedSequences
  <2> QED BY <1>2, <2>2, <2>3, InsertDelivers DEF Inv, DeliveryInv, TypeOK, Sweep
<1> QED BY <1>1, <1>2 DEF Sweep

\* The pipeline returns or throws: the ingest family is over.
LEMMA EndRunDelivers ==
    ASSUME Inv, NEW w \in Workers, FinishRun(w) \/ FailRun(w)
    PROVE  DeliveryInv'
<1> USE DEF FinishRun, FailRun, EndFamily, NextFamily
<1>1. /\ stage[w] # "none" /\ stage' = [stage EXCEPT ![w] = "none"]
      /\ UNCHANGED <<published, attempts, dead, processed, applied, skipped, active, batch, row, stale, loaded>>
      /\ todo' = [todo EXCEPT ![w] = Tail(@)]
      /\ \/ failing' = [failing EXCEPT ![w] = @ \/ FALSE]
         \/ failing' = [failing EXCEPT ![w] = @ \/ TRUE]
  BY DEF rowVars, onceVars
<1>2. /\ row[w] # None /\ todo[w] # <<>> /\ Head(todo[w]) = "ingest" /\ todo[w] \in Seq(Consumers)
      /\ <<"ingest", row[w]>> \in processed /\ RunOf(w) \in Runs
  BY <1>1, IngestRow DEF Inv, LoadInv, LoadOK, DeliveryInv, TypeOK, OutboxTypeOK
<1>3. PICK s \in Seq(Messages) : Insert(s)
  BY <1>2, InsertedSequences
<1>4. EventsOK' /\ Grows /\ Inserted \subseteq Inserted'
  BY <1>3, InsertGrows DEF Inv, DeliveryInv, Grows
<1>5. HandledOnce'
  BY <1>1, OnceStays DEF Inv, DeliveryInv, onceVars
<1>6. todo' \in [Workers -> Seq(Consumers)] /\ todo'[w] = Tail(todo[w])
  <2>1. Tail(todo[w]) \in Seq(Consumers)
    BY <1>2, TailElems
  <2> QED BY <1>1, <2>1 DEF Inv, DeliveryInv, TypeOK, OutboxTypeOK
<1>7. failing' \in [Workers -> BOOLEAN] /\ (~ failing'[w] => ~ failing[w])
  BY <1>1 DEF Inv, DeliveryInv, TypeOK, OutboxTypeOK
<1>8. faults' \in 0..MaxFaults
  <2>1. faults \in 0..MaxFaults
    BY DEF Inv, DeliveryInv, TypeOK, OutboxTypeOK
  <2> QED BY <2>1
<1>9. batch \in [Workers -> SUBSET Inserted'] /\ row \in [Workers -> Inserted' \cup {None}]
  BY <1>4 DEF Inv, DeliveryInv, TypeOK, OutboxTypeOK
<1>10. OutboxTypeOK'
  BY <1>1, <1>4, <1>6, <1>7, <1>8, <1>9 DEF Inv, DeliveryInv, TypeOK, OutboxTypeOK
<1>11. rstatus' \in [Runs -> {"none", "queued", "running", "ok", "failed"}] /\ retry' \subseteq Runs
  BY <1>2 DEF Inv, DeliveryInv, TypeOK
<1>12. TypeOK'
  BY <1>1, <1>10, <1>11 DEF Inv, DeliveryInv, TypeOK
<1>13. WorkOK(w)'
  BY <1>1, <1>2, <1>4, <1>6, <1>7, WorkAfterFamily DEF Inv, DeliveryInv, TypeOK, OutboxTypeOK
<1>14. \A x \in Workers : x # w => Stays(x)
  BY <1>1 DEF Inv, DeliveryInv, TypeOK, OutboxTypeOK, WorkOK, Stays
<1> QED BY <1>1, <1>4, <1>5, <1>12, <1>13, <1>14, DeliveryFrame DEF Inv

-----------------------------------------------------------------------------
(* Who loads *)

\* A worker that is at the run of its row.
LEMMA AtRun ==
    ASSUME Inv, NEW w \in Workers, stage[w] # "none"
    PROVE  /\ row[w] \in Inserted /\ RunOf(w) \in OpenRuns /\ RunOf(w) \in Runs
           /\ event[row[w]] = Requested(RunOf(w))
           /\ rstatus[RunOf(w)] = "running" /\ RunOf(w) \notin stale
<1>1. LoadOK(w)
  BY DEF Inv, LoadInv
<1> QED BY <1>1, IngestRow DEF Inv, LoadOK, OpenRuns

\* One run is open, so one request is worked on, by the worker that handled it.
LEMMA Alone ==
    ASSUME Inv, NEW w \in Workers, NEW x \in Workers, stage[w] # "none", stage[x] # "none"
    PROVE  w = x
<1>1. RunOf(w) = RunOf(x)
  BY AtRun DEF Inv, LoadInv, RunsOK
<1>2. row[w] = row[x]
  BY <1>1, AtRun DEF Inv, LoadInv, RunsOK
<1> QED BY <1>2 DEF Inv, LoadInv, LoadOK

Loads(w) ==
    stage'[w] # "none" => stage[w] # "none" /\ row'[w] = row[w] /\ todo'[w] = todo[w]

LEMMA LoadStays ==
    ASSUME Inv, Grows, processed \subseteq processed', \A x \in Workers : Loads(x),
           NEW w \in Workers,
           stage'[w] # "none" => rstatus'[RunOf(w)] = "running" /\ RunOf(w) \notin stale'
    PROVE  LoadOK(w)'
<1> SUFFICES ASSUME stage'[w] # "none"
             PROVE  LoadOK(w)'
  BY DEF LoadOK
<1>1. stage[w] # "none" /\ row'[w] = row[w] /\ todo'[w] = todo[w] /\ LoadOK(w)
  BY DEF Loads, Inv, LoadInv
<1>2. event'[row'[w]] = event[row[w]]
  BY <1>1, AtRun DEF Grows
<1>3. RunOf(w)' = RunOf(w)
  BY <1>2 DEF RunOf
<1>4. \A x \in Workers : stage'[x] # "none" => x = w
  BY <1>1, Alone DEF Loads
<1> QED BY <1>1, <1>3, <1>4 DEF LoadOK

\* Steps that leave the runs alone.
LEMMA RunsStay ==
    ASSUME Inv, UNCHANGED <<event, rstatus, stale, loaded>>, processed \subseteq processed',
           \A x \in Workers : Loads(x)
    PROVE  LoadInv'
<1>1. Grows /\ Inserted' = Inserted
  BY EventsStay DEF Inv, DeliveryInv
<1>2. RunsOK'
  BY <1>1 DEF Inv, LoadInv, RunsOK, OpenRuns
<1>3. FactsAnnounced'
  BY <1>1 DEF Inv, LoadInv, FactsAnnounced, OpenRuns
<1>4. \A w \in Workers : LoadOK(w)'
  <2> TAKE w \in Workers
  <2>1. stage'[w] # "none" => rstatus'[RunOf(w)] = "running" /\ RunOf(w) \notin stale'
    BY AtRun DEF Loads
  <2> QED BY <1>1, <2>1, LoadStays
<1> QED BY <1>2, <1>3, <1>4 DEF LoadInv

LEMMA DeliveryLoads ==
    ASSUME Inv, NEW w \in Workers,
           \/ PollAll(w) \/ EndRow(w) \/ CrashWorker(w)
           \/ StartRow(w) /\ UNCHANGED runVars
           \/ /\ stage[w] = "none"
              /\ \E c \in Consumers :
                    \/ HandleOther(w, c)
                    \/ (Duplicate(w, c) \/ Skip(w, c) \/ Fail(w, c)) /\ UNCHANGED runVars
    PROVE  LoadInv'
<1>1. UNCHANGED <<event, rstatus, stale, loaded>>
  BY DEF PollAll, Poll, EndRow, Publish, RetryLater, RowEnds, CrashWorker, Crash, StartRow,
         HandleOther, Duplicate, Skip, Fail, runVars
<1>2. processed \subseteq processed'
  BY DEF PollAll, Poll, EndRow, Publish, RetryLater, RowEnds, CrashWorker, Crash, StartRow,
         HandleOther, Apply, Duplicate, Skip, Fail, onceVars
<1>3. row[w] = None => stage[w] = "none"
  BY DEF Inv, DeliveryInv, WorkOK
<1>4. \A x \in Workers : Loads(x)
  <2> TAKE x \in Workers
  <2> USE DEF Inv, DeliveryInv, TypeOK, OutboxTypeOK
  <2>1. CASE PollAll(w)
    BY <2>1 DEF PollAll, Poll, runVars, Loads
  <2>2. CASE EndRow(w)
    <3>1. stage[w] = "none"
      BY <2>2 DEF EndRow, Publish, RetryLater, RowEnds, LoadInv, LoadOK
    <3> QED BY <2>2, <3>1 DEF EndRow, Publish, RetryLater, RowEnds, runVars, Loads
  <2>3. CASE CrashWorker(w)
    BY <2>3 DEF CrashWorker, Crash, Loads
  <2>4. CASE StartRow(w) /\ UNCHANGED runVars
    BY <2>4, <1>3 DEF StartRow, runVars, Loads
  <2>5. ASSUME stage[w] = "none", NEW c \in Consumers, HandleOther(w, c)
        PROVE  Loads(x)
    BY <2>5 DEF HandleOther, Apply, runVars, Loads
  <2>6. ASSUME stage[w] = "none", NEW c \in Consumers,
               Duplicate(w, c) \/ Skip(w, c) \/ Fail(w, c), UNCHANGED runVars
        PROVE  Loads(x)
    BY <2>6 DEF Duplicate, Skip, Fail, NextFamily, runVars, Loads
  <2> QED BY <2>1, <2>2, <2>3, <2>4, <2>5, <2>6
<1> QED BY <1>1, <1>2, <1>4, RunsStay

LEMMA OthersLoad ==
    ASSUME Inv, \/ (SetWorkspaceStatus \/ \E e \in Events : Replay(e)) /\ UNCHANGED runVars
                \/ \E r \in Runs : LeaseExpires(r)
    PROVE  LoadInv'
<1>1. CASE (SetWorkspaceStatus \/ \E e \in Events : Replay(e)) /\ UNCHANGED runVars
  <2>1. UNCHANGED <<event, rstatus, stale, loaded, processed, stage, row, todo>>
    BY <1>1 DEF SetWorkspaceStatus, Replay, rowVars, onceVars, workerVars, runVars
  <2> QED BY <2>1, RunsStay DEF Loads
<1>2. ASSUME NEW r \in Runs, LeaseExpires(r)
      PROVE  LoadInv'
  <2>1. UNCHANGED <<event, rstatus, loaded, processed, stage, row, todo>> /\ stale' = stale \cup {r}
    BY <1>2 DEF LeaseExpires, outboxVars, onceVars, workerVars
  <2>2. Grows /\ Inserted' = Inserted
    BY <2>1, EventsStay DEF Inv, DeliveryInv
  <2>3. RunsOK'
    <3>1. rstatus[r] = "running"
      BY <1>2 DEF LeaseExpires
    <3> QED BY <2>1, <2>2, <3>1 DEF Inv, LoadInv, RunsOK, OpenRuns
  <2>4. FactsAnnounced'
    BY <2>1, <2>2 DEF Inv, LoadInv, FactsAnnounced, OpenRuns
  <2>5. \A w \in Workers : LoadOK(w)'
    <3> TAKE w \in Workers
    <3>1. stage[w] # "none" => rstatus'[RunOf(w)] = "running" /\ RunOf(w) \notin stale'
      BY <1>2, <2>1, AtRun DEF LeaseExpires
    <3> QED BY <2>1, <2>2, <3>1, LoadStays DEF Loads
  <2> QED BY <2>3, <2>4, <2>5 DEF LoadInv
<1> QED BY <1>1, <1>2

LEMMA HandleIngestLoads ==
    ASSUME Inv, NEW w \in Workers, stage[w] = "none", HandleIngest(w)
    PROVE  LoadInv'
<1>1. /\ UNCHANGED <<event, row, stale, loaded>> /\ processed' = processed \cup {Once(w, "ingest")}
      /\ row[w] # None /\ todo[w] # <<>> /\ Head(todo[w]) = "ingest"
      /\ <<"ingest", row[w]>> \notin processed
  BY DEF HandleIngest, Apply, Reached, Once
<1>2. /\ RunOf(w) \in Runs /\ row[w] \in Inserted /\ event[row[w]] = Requested(RunOf(w))
      /\ RunOf(w)' = RunOf(w) /\ Grows /\ Inserted' = Inserted
  BY <1>1, IngestRow, EventsStay DEF Inv, DeliveryInv, RunOf
<1>3. CASE rstatus[RunOf(w)] # "queued"
  <2>1. rstatus' = rstatus /\ stage' = stage /\ todo' = [todo EXCEPT ![w] = Tail(@)]
    BY <1>3 DEF HandleIngest
  <2>2. \A x \in Workers : Loads(x)
    BY <1>1, <2>1 DEF Loads, Inv, DeliveryInv, TypeOK, OutboxTypeOK
  <2> QED BY <1>1, <2>1, <2>2, RunsStay
<1>4. CASE rstatus[RunOf(w)] = "queued"
  <2>1. /\ rstatus' = [rstatus EXCEPT ![RunOf(w)] = "running"]
        /\ stage' = [stage EXCEPT ![w] = "claimed"] /\ todo' = todo
    BY <1>4 DEF HandleIngest
  <2>2. /\ rstatus'[RunOf(w)] = "running" /\ RunOf(w) \notin stale
        /\ \A r \in Runs : r # RunOf(w) => rstatus'[r] = rstatus[r]
    BY <1>2, <1>4, <2>1 DEF Inv, DeliveryInv, TypeOK, LoadInv, RunsOK
  <2>3. OpenRuns' = OpenRuns
    BY <1>2, <1>4, <2>2 DEF OpenRuns
  <2>4. RunsOK'
    BY <1>1, <1>2, <2>2, <2>3 DEF Inv, DeliveryInv, TypeOK, LoadInv, RunsOK
  <2>5. FactsAnnounced'
    BY <1>1, <1>2, <2>3 DEF Inv, LoadInv, FactsAnnounced
  <2>6. \A x \in Workers : stage'[x] # "none" => x = w
    <3> SUFFICES ASSUME NEW x \in Workers, stage'[x] # "none", x # w
                 PROVE  FALSE
      OBVIOUS
    <3>1. stage[x] # "none"
      BY <2>1 DEF Inv, DeliveryInv, TypeOK
    <3>2. rstatus[RunOf(x)] = "running" /\ RunOf(x) \in OpenRuns /\ RunOf(w) \in OpenRuns
      BY <1>2, <1>4, <3>1, AtRun DEF OpenRuns
    <3> QED BY <1>4, <3>2 DEF Inv, LoadInv, RunsOK
  <2>7. stage'[w] = "claimed" /\ row'[w] # None /\ todo'[w] # <<>> /\ Head(todo'[w]) = "ingest"
        /\ <<"ingest", row'[w]>> \in processed'
    BY <1>1, <2>1 DEF Inv, DeliveryInv, TypeOK, Once
  <2>8. \A x \in Workers : LoadOK(x)'
    BY <1>1, <1>2, <2>2, <2>6, <2>7 DEF LoadOK
  <2> QED BY <2>4, <2>5, <2>8 DEF LoadInv
<1> QED BY <1>3, <1>4

LEMMA LoadingLoads ==
    ASSUME Inv, NEW w \in Workers, SetUp(w) \/ Flush(w)
    PROVE  LoadInv'
<1>1. /\ UNCHANGED <<event, row, todo, processed>> /\ stage[w] # "none"
      /\ stale' = stale \ {RunOf(w)}
      /\ loaded' \subseteq loaded \cup {RunOf(w)}
      /\ stage' = stage \/ stage' = [stage EXCEPT ![w] = "loading"]
      /\ rstatus' = rstatus \/ rstatus' = [rstatus EXCEPT ![RunOf(w)] = "running"]
  BY DEF SetUp, Flush, outboxVars, onceVars, workerVars
<1>2. RunOf(w) \in OpenRuns /\ RunOf(w) \in Runs /\ rstatus[RunOf(w)] = "running"
  BY <1>1, AtRun
<1>3. rstatus' = rstatus
  BY <1>1, <1>2 DEF Inv, DeliveryInv, TypeOK
<1>4. Grows /\ Inserted' = Inserted /\ OpenRuns' = OpenRuns
  BY <1>1, <1>3, EventsStay DEF Inv, DeliveryInv, OpenRuns
<1>5. RunsOK'
  BY <1>1, <1>3, <1>4 DEF Inv, LoadInv, RunsOK
<1>6. FactsAnnounced'
  BY <1>1, <1>2, <1>4 DEF Inv, LoadInv, FactsAnnounced
<1>7. \A x \in Workers : Loads(x)
  BY <1>1 DEF Loads, Inv, DeliveryInv, TypeOK
<1>8. \A x \in Workers : LoadOK(x)'
  <2> TAKE x \in Workers
  <2>1. stage'[x] # "none" => rstatus'[RunOf(x)] = "running" /\ RunOf(x) \notin stale'
    BY <1>1, <1>3, <1>7, AtRun DEF Loads
  <2> QED BY <1>1, <1>4, <1>7, <2>1, LoadStays
<1> QED BY <1>5, <1>6, <1>8 DEF LoadInv

\* Rows of which at most one requests a run, and one that was never requested.
LEMMA RequestsStayUnique ==
    ASSUME Inv, NEW s \in Seq(Messages), Insert(s),
           \A i, j \in 1..Len(s), r \in Runs :
              s[i] = Requested(r) /\ s[j] = Requested(r) => i = j /\ rstatus[r] = "none"
    PROVE  /\ \A e, f \in Inserted', r \in Runs :
                 event'[e] = Requested(r) /\ event'[f] = Requested(r) => e = f
           /\ \A e \in Inserted', r \in Runs :
                 event'[e] = Requested(r) =>
                    rstatus[r] # "none" \/ \E i \in 1..Len(s) : s[i] = Requested(r)
<1>1. \A e \in Inserted' : e \notin Inserted =>
          \E i \in 1..Len(s) : event'[e] = s[i] /\ e = Cardinality(Inserted) + i
  BY InsertGrows DEF Inv, DeliveryInv
<1>2. \A e \in Inserted : event'[e] = event[e]
  BY InsertGrows DEF Inv, DeliveryInv
<1>3. RunsOK
  BY DEF Inv, LoadInv
<1>4. ASSUME NEW e \in Inserted', NEW r \in Runs, event'[e] = Requested(r)
      PROVE  rstatus[r] # "none" \/ \E i \in 1..Len(s) : s[i] = Requested(r)
  <2>1. CASE e \in Inserted
    BY <1>2, <1>3, <1>4, <2>1 DEF RunsOK
  <2>2. CASE e \notin Inserted
    BY <1>1, <1>4, <2>2
  <2> QED BY <2>1, <2>2
<1>5. ASSUME NEW e \in Inserted', NEW f \in Inserted', NEW r \in Runs,
             event'[e] = Requested(r), event'[f] = Requested(r)
      PROVE  e = f
  <2>1. CASE e \in Inserted /\ f \in Inserted
    BY <1>2, <1>3, <1>5, <2>1 DEF RunsOK
  <2>2. CASE e \notin Inserted /\ f \notin Inserted
    BY <1>1, <1>5, <2>2
  <2>3. ASSUME NEW a \in Inserted, NEW b \in Inserted', b \notin Inserted,
               event'[a] = Requested(r), event'[b] = Requested(r)
        PROVE  FALSE
    <3>1. rstatus[r] # "none"
      BY <1>2, <1>3, <2>3 DEF RunsOK
    <3>2. rstatus[r] = "none"
      BY <1>1, <2>3
    <3> QED BY <3>1, <3>2
  <2> QED BY <1>5, <2>1, <2>2, <2>3
<1> QED BY <1>4, <1>5

LEMMA QueueRunLoads ==
    ASSUME Inv, QueueRun
    PROVE  LoadInv'
<1>1. PICK r \in NewRuns \ {MaxRuns} :
          rstatus' = [rstatus EXCEPT ![r] = "queued"] /\ Insert(<<Requested(r)>>)
  BY DEF QueueRun
<1>2. /\ r \in Runs /\ rstatus[r] = "none" /\ OpenRuns = {} /\ r \notin stale
      /\ UNCHANGED <<stale, loaded, stage, row, todo, processed>>
      /\ rstatus'[r] = "queued" /\ \A q \in Runs : q # r => rstatus'[q] = rstatus[q]
  BY <1>1 DEF NewRuns, QueueRun, workerVars, onceVars, Inv, DeliveryInv, TypeOK, LoadInv, RunsOK
<1>3. <<Requested(r)>> \in Seq(Messages)
  BY <1>2, InsertedSequences
<1>4. Grows
  BY <1>1, <1>3, InsertGrows DEF Inv, DeliveryInv, Grows
<1>5. \A i \in 1..Len(<<Requested(r)>>) : i = 1 /\ <<Requested(r)>>[i] = Requested(r)
  OBVIOUS
<1>6. /\ \A e, f \in Inserted', q \in Runs :
            event'[e] = Requested(q) /\ event'[f] = Requested(q) => e = f
      /\ \A e \in Inserted', q \in Runs :
            event'[e] = Requested(q) => rstatus[q] # "none" \/ q = r
  <2> DEFINE s == <<Requested(r)>>
  <2>1. \A i, j \in 1..Len(s), q \in Runs :
           s[i] = Requested(q) /\ s[j] = Requested(q) => i = j /\ rstatus[q] = "none"
    BY <1>2, <1>5, MessageTypes
  <2>2. \A i \in 1..Len(s), q \in Runs : s[i] = Requested(q) => q = r
    BY <1>2, <1>5, MessageTypes
  <2>3. s \in Seq(Messages) /\ Insert(s)
    BY <1>1, <1>3
  <2> HIDE DEF s
  <2>4. /\ \A e, f \in Inserted', q \in Runs :
              event'[e] = Requested(q) /\ event'[f] = Requested(q) => e = f
        /\ \A e \in Inserted', q \in Runs :
              event'[e] = Requested(q) =>
                 rstatus[q] # "none" \/ \E i \in 1..Len(s) : s[i] = Requested(q)
    BY <2>1, <2>3, RequestsStayUnique
  <2> QED BY <2>2, <2>4
<1>7. OpenRuns' = {r}
  <2>1. \A q \in Runs : rstatus[q] \notin {"queued", "running"}
    BY <1>2 DEF OpenRuns
  <2>2. r \in Runs /\ rstatus'[r] = "queued" /\ \A q \in Runs : q # r => rstatus'[q] \notin {"queued", "running"}
    BY <1>2, <2>1
  <2> QED BY <2>2 DEF OpenRuns
<1>8. RunsOK'
  <2>1. \A q \in stale' : rstatus'[q] \notin {"none", "queued"}
    BY <1>2 DEF Inv, LoadInv, RunsOK, DeliveryInv, TypeOK
  <2>2. \A e \in Inserted', q \in Runs : event'[e] = Requested(q) => rstatus'[q] # "none"
    BY <1>2, <1>6
  <2>3. \A p, q \in OpenRuns' : p = q
    BY <1>7
  <2> QED BY <1>6, <2>1, <2>2, <2>3 DEF RunsOK
<1>9. FactsAnnounced'
  BY <1>2, <1>4, <1>7 DEF Inv, LoadInv, FactsAnnounced, Grows
<1>10. \A x \in Workers : LoadOK(x)'
  BY <1>2, AtRun DEF LoadOK
<1> QED BY <1>8, <1>9, <1>10 DEF LoadInv

\* A run r that ends, announced if it loaded, perhaps with a retry: N is empty
\* or the retry.
LEMMA RunEnds ==
    ASSUME Inv, NEW s \in Seq(Messages), Insert(s), NEW r \in Runs, rstatus[r] = "running",
           NEW N \in SUBSET Runs, \A n, m \in N : n = m,
           \A n \in N : rstatus[n] = "none" /\ rstatus'[n] = "queued",
           \A q \in Runs \ (N \cup {r}) : rstatus'[q] = rstatus[q],
           rstatus'[r] \in {"ok", "failed"},
           \A i \in 1..Len(s) : s[i] = FactsLoaded(r) \/ \E n \in N : s[i] = Requested(n),
           \A i, j \in 1..Len(s), n \in N : s[i] = Requested(n) /\ s[j] = Requested(n) => i = j,
           r \in loaded => \E i \in 1..Len(s) : s[i] = FactsLoaded(r),
           UNCHANGED <<stale, loaded>>
    PROVE  RunsOK' /\ FactsAnnounced' /\ Grows
<1>1. Grows /\ \A i \in 1..Len(s) : \E e \in Inserted' : event'[e] = s[i]
  BY InsertGrows DEF Inv, DeliveryInv, Grows
<1>2. \A i \in 1..Len(s), q \in Runs : s[i] = Requested(q) => q \in N
  BY MessageTypes
<1>3. /\ \A e, f \in Inserted', q \in Runs :
            event'[e] = Requested(q) /\ event'[f] = Requested(q) => e = f
      /\ \A e \in Inserted', q \in Runs :
            event'[e] = Requested(q) => rstatus[q] # "none" \/ q \in N
  <2>1. \A i, j \in 1..Len(s), q \in Runs :
           s[i] = Requested(q) /\ s[j] = Requested(q) => i = j /\ rstatus[q] = "none"
    BY <1>2
  <2> QED BY <1>2, <2>1, RequestsStayUnique
<1>4. r \in OpenRuns /\ OpenRuns \subseteq {r} /\ OpenRuns' \subseteq N
  <2>1. r \in OpenRuns /\ OpenRuns \subseteq {r}
    BY DEF Inv, LoadInv, RunsOK, OpenRuns
  <2>2. \A q \in Runs \ (N \cup {r}) : q \notin OpenRuns'
    BY <2>1 DEF OpenRuns
  <2>3. r \notin OpenRuns'
    BY DEF OpenRuns
  <2> QED BY <2>1, <2>2, <2>3 DEF OpenRuns
<1>5. RunsOK'
  <2>1. \A q \in stale' : rstatus'[q] \notin {"none", "queued"}
    BY DEF Inv, LoadInv, RunsOK, DeliveryInv, TypeOK
  <2>2. \A e \in Inserted', q \in Runs : event'[e] = Requested(q) => rstatus'[q] # "none"
    BY <1>3
  <2> QED BY <1>3, <1>4, <2>1, <2>2 DEF RunsOK
<1>6. FactsAnnounced'
  <2> SUFFICES ASSUME NEW q \in loaded', q \notin OpenRuns'
               PROVE  \E e \in Inserted' : event'[e] = FactsLoaded(q)
    BY DEF FactsAnnounced
  <2>1. CASE q = r
    BY <1>1, <2>1
  <2>2. CASE q # r
    <3>1. q \notin OpenRuns
      BY <1>4, <2>2
    <3>2. PICK e \in Inserted : event[e] = FactsLoaded(q)
      BY <3>1 DEF Inv, LoadInv, FactsAnnounced
    <3> QED BY <1>1, <3>2 DEF Grows
  <2> QED BY <2>1, <2>2
<1> QED BY <1>1, <1>5, <1>6

LEMMA EndRunLoads ==
    ASSUME Inv, NEW w \in Workers, FinishRun(w) \/ FailRun(w)
    PROVE  LoadInv'
<1> DEFINE r == RunOf(w)
<1>1. /\ stage[w] # "none" /\ stage' = [stage EXCEPT ![w] = "none"]
      /\ UNCHANGED <<processed, row, stale, loaded>>
      /\ todo' = [todo EXCEPT ![w] = Tail(@)]
  BY DEF FinishRun, FailRun, EndFamily, NextFamily, onceVars
<1>2. r \in Runs /\ rstatus[r] = "running"
  BY <1>1, AtRun
<1>3. /\ rstatus'[r] \in {"ok", "failed"}
      /\ \A q \in Runs : q # r => rstatus'[q] = rstatus[q]
  <2>1. rstatus' = [rstatus EXCEPT ![r] = "ok"] \/ rstatus' = [rstatus EXCEPT ![r] = "failed"]
    BY DEF FinishRun, FailRun
  <2> HIDE DEF r
  <2> QED BY <1>2, <2>1 DEF Inv, DeliveryInv, TypeOK
<1>4. PICK s \in Seq(Messages) :
          /\ Insert(s) /\ \A i \in 1..Len(s) : s[i] = FactsLoaded(r)
          /\ r \in loaded => 1 \in 1..Len(s)
  <2>1. CASE Insert(<<FactsLoaded(r)>>)
    <3>1. Len(<<FactsLoaded(r)>>) = 1 /\ <<FactsLoaded(r)>>[1] = FactsLoaded(r) /\ 1 \in 1..1
      OBVIOUS
    <3>2. \A i \in 1..Len(<<FactsLoaded(r)>>) : <<FactsLoaded(r)>>[i] = FactsLoaded(r)
      OBVIOUS
    <3> QED BY <1>2, <2>1, <3>1, <3>2, InsertedSequences
  <2>2. CASE Insert(Partial(r))
    BY <1>2, <2>2, InsertedSequences
  <2> QED BY <2>1, <2>2 DEF FinishRun, FailRun
<1> HIDE DEF r
<1>5. RunsOK' /\ FactsAnnounced' /\ Grows
  <2> DEFINE N == {}
  <2>1. N \in SUBSET Runs /\ \A n \in N : FALSE
    OBVIOUS
  <2> HIDE DEF N
  <2> QED BY <1>1, <1>2, <1>3, <1>4, <2>1, RunEnds
<1>6. \A x \in Workers : LoadOK(x)'
  <2>1. \A x \in Workers : stage'[x] = "none"
    BY <1>1, Alone DEF Inv, DeliveryInv, TypeOK
  <2> QED BY <2>1 DEF LoadOK
<1> QED BY <1>5, <1>6 DEF LoadInv

LEMMA SweepLoads ==
    ASSUME Inv, NEW w \in Workers, NEW r \in Runs, Sweep(w, r)
    PROVE  LoadInv'
<1>1. /\ rstatus[r] = "running" /\ r \in stale
      /\ UNCHANGED <<processed, row, todo, stage, stale, loaded>>
  BY DEF Sweep, onceVars, workerVars
<1>2. \A x \in Workers : stage[x] = "none"
  <2> SUFFICES ASSUME NEW x \in Workers, stage[x] # "none"
               PROVE  FALSE
    OBVIOUS
  <2>1. RunOf(x) \in OpenRuns /\ r \in OpenRuns /\ RunOf(x) \notin stale
    BY <1>1, AtRun DEF OpenRuns
  <2> QED BY <1>1, <2>1 DEF Inv, LoadInv, RunsOK
<1>3. \A x \in Workers : LoadOK(x)'
  BY <1>1, <1>2 DEF LoadOK
<1>4. CASE rstatus' = [rstatus EXCEPT ![r] = "failed"] /\ Insert(Partial(r))
  <2> DEFINE N == {}
             s == Partial(r)
  <2>1. N \in SUBSET Runs /\ \A n \in N : FALSE
    OBVIOUS
  <2>2. rstatus'[r] = "failed" /\ \A q \in Runs \ (N \cup {r}) : rstatus'[q] = rstatus[q]
    BY <1>4 DEF Inv, DeliveryInv, TypeOK
  <2>3. /\ s \in Seq(Messages) /\ Insert(s) /\ \A i \in 1..Len(s) : s[i] = FactsLoaded(r)
        /\ r \in loaded => 1 \in 1..Len(s)
    BY <1>4, InsertedSequences
  <2> HIDE DEF N, s
  <2>4. RunsOK' /\ FactsAnnounced'
    BY <1>1, <2>1, <2>2, <2>3, RunEnds
  <2> QED BY <1>3, <2>4 DEF LoadInv
<1>5. ASSUME NEW n \in NewRuns,
             rstatus' = [rstatus EXCEPT ![r] = "failed", ![n] = "queued"],
             Insert(Partial(r) \o <<Requested(n)>>)
      PROVE  LoadInv'
  <2> DEFINE N == {n}
             p == Partial(r)
             s == p \o <<Requested(n)>>
  <2>1. n \in Runs /\ rstatus[n] = "none" /\ n # r
    BY <1>1 DEF NewRuns
  <2>2. /\ rstatus'[r] = "failed" /\ rstatus'[n] = "queued"
        /\ \A q \in Runs : q # r /\ q # n => rstatus'[q] = rstatus[q]
    BY <1>5, <2>1 DEF Inv, DeliveryInv, TypeOK
  <2>3. /\ p \in Seq(Messages) /\ <<Requested(n)>> \in Seq(Messages) /\ s \in Seq(Messages)
        /\ Insert(s) /\ \A i \in 1..Len(p) : p[i] = FactsLoaded(r)
        /\ r \in loaded => 1 \in 1..Len(p)
    BY <1>5, <2>1, InsertedSequences
  <2> HIDE DEF p
  <2>4. /\ Len(s) = Len(p) + 1 /\ Len(p) \in Nat
        /\ \A i \in 1..Len(p) : s[i] = p[i]
        /\ s[Len(p) + 1] = Requested(n)
    BY <2>3
  <2> HIDE DEF s
  <2>5. \A i \in 1..Len(s) : i \in 1..Len(p) \/ i = Len(p) + 1
    BY <2>4
  <2>6. \A i \in 1..Len(s) : s[i] = FactsLoaded(r) \/ (i = Len(p) + 1 /\ s[i] = Requested(n))
    BY <2>3, <2>4, <2>5
  <2>7. \A i, j \in 1..Len(s) : s[i] = Requested(n) /\ s[j] = Requested(n) => i = j
    BY <2>1, <2>6, MessageTypes
  <2>8. r \in loaded => \E i \in 1..Len(s) : s[i] = FactsLoaded(r)
    <3> HAVE r \in loaded
    <3>1. 1 \in 1..Len(p) /\ 1 \in 1..Len(s)
      BY <2>3, <2>4
    <3> QED BY <2>3, <2>4, <3>1
  <2>9. N \in SUBSET Runs /\ \A m, q \in N : m = q
    BY <2>1
  <2>10. \A q \in Runs \ (N \cup {r}) : rstatus'[q] = rstatus[q]
    BY <2>2
  <2>11. \A i \in 1..Len(s) : s[i] = FactsLoaded(r) \/ \E m \in N : s[i] = Requested(m)
    BY <2>6
  <2>12. \A m \in N : rstatus[m] = "none" /\ rstatus'[m] = "queued"
    BY <2>1, <2>2
  <2>13. \A i, j \in 1..Len(s), m \in N : s[i] = Requested(m) /\ s[j] = Requested(m) => i = j
    BY <2>7
  <2> HIDE DEF N
  <2>14. RunsOK' /\ FactsAnnounced'
    BY <1>1, <2>2, <2>3, <2>8, <2>9, <2>10, <2>11, <2>12, <2>13, RunEnds
  <2> QED BY <1>3, <2>14 DEF LoadInv
<1> QED BY <1>4, <1>5 DEF Sweep

-----------------------------------------------------------------------------
(* The invariant *)

LEMMA InitInv == Init => Inv
<1> SUFFICES ASSUME Init
             PROVE  Inv
  OBVIOUS
<1> USE DEF Init, OutboxInit
<1>1. Inserted = {} /\ \A e \in Events : event[e] = None
  BY DEF Inserted
<1>2. EventsOK
  <2>1. Cardinality(Inserted) = 0 /\ 1..0 = {}
    BY <1>1, FS_EmptySet
  <2> QED BY <1>1, <2>1 DEF EventsOK
<1>3. TypeOK
  <2>1. <<>> \in Seq(Consumers) /\ 0 \in 0..MaxFaults /\ 0 \in Nat
    <3>1. MaxFaults \in Nat
      BY SMT
    <3> QED BY <3>1
  <2> QED BY <1>1, <2>1 DEF TypeOK, OutboxTypeOK
<1>4. HandledOnce /\ PublishedMeansHandled
  BY DEF HandledOnce, PublishedMeansHandled
<1>5. \A w \in Workers : WorkOK(w) /\ LoadOK(w)
  BY DEF WorkOK, LoadOK
<1>6. RunsOK /\ FactsAnnounced
  BY <1>1 DEF RunsOK, FactsAnnounced, OpenRuns
<1> QED BY <1>2, <1>3, <1>4, <1>5, <1>6 DEF Inv, DeliveryInv, LoadInv

LEMMA NextInv == Inv /\ [Next]_vars => Inv'
<1> SUFFICES ASSUME Inv, [Next]_vars
             PROVE  Inv'
  OBVIOUS
<1>1. CASE QueueRun
  BY <1>1, QueueRunDelivers, QueueRunLoads DEF Inv
<1>2. CASE (SetWorkspaceStatus \/ \E e \in Events : Replay(e)) /\ UNCHANGED runVars
  BY <1>2, OthersDeliver, OthersLoad DEF Inv
<1>3. CASE \E r \in Runs : LeaseExpires(r)
  BY <1>3, OthersDeliver, OthersLoad DEF Inv
<1>4. ASSUME NEW w \in Workers, PollAll(w)
      PROVE  Inv'
  BY <1>4, PollDelivers, DeliveryLoads DEF Inv
<1>5. ASSUME NEW w \in Workers, Advance(w)
      PROVE  Inv'
  <2>1. CASE StartRow(w) /\ UNCHANGED runVars
    BY <2>1, StartRowDelivers, DeliveryLoads DEF Inv
  <2>2. CASE Handle(w)
    <3>1. CASE HandleIngest(w)
      BY <2>2, <3>1, HandleIngestDelivers, HandleIngestLoads DEF Inv, Handle
    <3>2. ASSUME NEW c \in Consumers, HandleOther(w, c)
          PROVE  Inv'
      BY <2>2, <3>2, HandleOtherDelivers, DeliveryLoads DEF Inv, Handle
    <3>3. ASSUME NEW c \in Consumers, Duplicate(w, c) \/ Skip(w, c) \/ Fail(w, c), UNCHANGED runVars
          PROVE  Inv'
      BY <2>2, <3>3, NoEffectDelivers, DeliveryLoads DEF Inv, Handle
    <3> QED BY <2>2, <3>1, <3>2, <3>3 DEF Handle
  <2>3. CASE SetUp(w)
    BY <2>3, LoadingDelivers, LoadingLoads DEF Inv
  <2>4. CASE FinishRun(w) \/ FailRun(w)
    BY <2>4, EndRunDelivers, EndRunLoads DEF Inv
  <2>5. CASE EndRow(w)
    BY <2>5, RowEndDelivers, DeliveryLoads DEF Inv
  <2> QED BY <1>5, <2>1, <2>2, <2>3, <2>4, <2>5 DEF Advance
<1>6. ASSUME NEW w \in Workers, Flush(w)
      PROVE  Inv'
  BY <1>6, LoadingDelivers, LoadingLoads DEF Inv
<1>7. ASSUME NEW w \in Workers, CrashWorker(w)
      PROVE  Inv'
  BY <1>7, CrashDelivers, DeliveryLoads DEF Inv
<1>8. ASSUME NEW w \in Workers, NEW r \in Runs, Sweep(w, r)
      PROVE  Inv'
  BY <1>8, SweepDelivers, SweepLoads DEF Inv
<1>9. CASE UNCHANGED vars
  <2>1. UNCHANGED <<event, rstatus, stale, loaded, processed, stage, row, todo, failing, published>>
        /\ UNCHANGED onceVars
    BY <1>9 DEF vars, outboxVars, rowVars, onceVars, workerVars, runVars
  <2>2. EventsOK' /\ Grows /\ HandledOnce' /\ Inserted' = Inserted
    BY <2>1, EventsStay, OnceStays DEF Inv, DeliveryInv
  <2>3. TypeOK'
    BY <1>9, <2>2 DEF vars, outboxVars, rowVars, onceVars, workerVars, runVars,
       Inv, DeliveryInv, TypeOK, OutboxTypeOK
  <2>4. \A x \in Workers : Stays(x)
    BY <2>1 DEF Inv, DeliveryInv, WorkOK, Stays
  <2>5. DeliveryInv'
    BY <2>1, <2>2, <2>3, <2>4, DeliveryFrame DEF Inv
  <2> QED BY <2>1, <2>5, RunsStay DEF Inv, Loads
<1> QED BY <1>1, <1>2, <1>3, <1>4, <1>5, <1>6, <1>7, <1>8, <1>9 DEF Next

LEMMA Invariant == Spec => []Inv
BY InitInv, NextInv, PTL DEF Spec

\* Tables, workers and runs keep values of their types.
THEOREM IngestTypeCorrect == Spec => []TypeOK
BY Invariant, PTL DEF Inv, DeliveryInv

\* handleOnce: a dedupe row stands for one commit of the handler or for a skip,
\* for any number of workers, faults and redeliveries.
THEOREM HandledOnceCorrect == Spec => []HandledOnce
BY Invariant, PTL DEF Inv, DeliveryInv

\* runRow: what is published went through every family of its topic, however
\* many workers had the row and whatever failed on the way.
THEOREM PublishedCorrect == Spec => []PublishedMeansHandled
BY Invariant, PTL DEF Inv, DeliveryInv

\* runIngest: one worker at a time loads the source, as long as a lease only
\* runs out when nobody runs the pipeline.
THEOREM OneLoaderCorrect == Spec => []OneLoader
<1>1. Inv => OneLoader
  BY Alone DEF OneLoader
<1> QED BY <1>1, Invariant, PTL

\* failIngestRun and the last transaction of runIngest: no committed fact stays
\* unannounced once its run has ended.
THEOREM AnnouncedCorrect == Spec => []FactsAnnounced
BY Invariant, PTL DEF Inv, LoadInv
=============================================================================
