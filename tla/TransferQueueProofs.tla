------------------------ MODULE TransferQueueProofs -------------------------
(***************************************************************************)
(* Proofs about TransferQueue for every set of product names, calls and    *)
(* kinds of calls: that what is queued is logged, that enqueue adds an     *)
(* unrecorded name once, and that the creator of the queue loses no work.  *)
(***************************************************************************)
EXTENDS TransferQueue, FiniteSetTheorems, TLAPS

\* Rows are counted by name.
Counts == [Names -> Nat]

Steps == {"idle", "look", "create", "alter", "backfill", "triggers", "replace", "select", "log",
          "queue", "commit", "createLog", "alterLog", "createTrigger", "done", "raised"}

QueueType ==
  /\ fired \in [Names -> [log : Nat, queue : Nat]]
  /\ product \in [Names -> {"out", "open", "in"}]
  /\ log \in Counts /\ queue \in Counts
  /\ queued \subseteq Names
  /\ trigger \in [Triggers -> {"none", "log", "both"}]
  /\ target \in [Calls -> Triggers]
  /\ pc \in [Calls -> Steps]
  /\ found \in [Calls -> SUBSET Names]
  /\ pendLog \in [Calls -> Counts] /\ pendQueue \in [Calls -> Counts]

\* An open insert that fired a queue row fired a log row.
FiredBoth == \A n \in Names : fired[n].queue > 0 => fired[n].log > 0

\* What a call is going to queue is logged, or the call is going to log it with the queue.
PendingLogged ==
  \A c \in Calls :
    /\ Support(pendQueue[c]) \subseteq Support(log) \cup Support(pendLog[c])
    /\ pc[c] \notin {"queue", "commit"} => pendLog[c] = None
    /\ pc[c] = "queue" => pendLog[c] = FoundRows(c)

QueueInv == QueueType /\ QueuedIsLogged /\ FiredBoth /\ PendingLogged

-----------------------------------------------------------------------------
\* Sums of rows keep their type and the names they hold.
LEMMA PlusSupport ==
  ASSUME NEW f \in Counts, NEW g \in Counts
  PROVE  Plus(f, g) \in Counts /\ Support(Plus(f, g)) = Support(f) \cup Support(g)
BY DEF Plus, Support, Counts

LEMMA NoneSupport == None \in Counts /\ Support(None) = {}
BY DEF None, Counts, Support

LEMMA FoundSupport ==
  ASSUME NEW c \in Calls, found[c] \subseteq Names
  PROVE  FoundRows(c) \in Counts /\ Support(FoundRows(c)) = found[c]
BY DEF FoundRows, Counts, Support

\* A trigger that writes the queue writes the log.
LEMMA WritersLog ==
  /\ LogWriters \in Nat /\ QueueWriters \in Nat
  /\ QueueWriters > 0 => LogWriters > 0
<1> DEFINE L == {t \in Triggers : trigger[t] # "none"}
           Q == {t \in Triggers : trigger[t] = "both"}
<1>1. IsFiniteSet(Triggers)
  <2>1. IsFiniteSet({LogTrigger}) /\ Triggers = {LogTrigger} \cup {QueueTrigger}
    BY FS_Singleton DEF Triggers
  <2> QED BY <2>1, FS_AddElement
<1>2. IsFiniteSet(L) /\ IsFiniteSet(Q)
  BY <1>1, FS_Subset
<1>3. Q \subseteq L
  OBVIOUS
<1>4. LogWriters = Cardinality(L) /\ QueueWriters = Cardinality(Q)
  BY DEF LogWriters, QueueWriters
<1> HIDE DEF L, Q
<1>5. Cardinality(Q) <= Cardinality(L) /\ Cardinality(L) \in Nat /\ Cardinality(Q) \in Nat
  BY <1>2, <1>3, FS_CardinalityType, FS_Subset
<1> QED BY <1>4, <1>5

\* Rows that are committed, logged ones for all that is queued, keep the invariant of the tables.
LEMMA CommitKeeps ==
  ASSUME QueueInv, NEW f \in Counts, NEW g \in Counts, AddCommitted(f, g),
         Support(g) \subseteq Support(log) \cup Support(f)
  PROVE  /\ log' \in Counts /\ queue' \in Counts /\ queued' \subseteq Names /\ QueuedIsLogged'
         /\ Support(log)' = Support(log) \cup Support(f)
<1>1. log' = Plus(log, f) /\ queue' = Plus(queue, g) /\ queued' = queued \cup Support(g)
  BY DEF AddCommitted
<1>2. log \in Counts /\ queue \in Counts /\ queued \subseteq Support(log) /\ queued \subseteq Names
  BY DEF QueueInv, QueueType, QueuedIsLogged
<1>3. Support(log)' = Support(log')
  BY DEF Support
<1>4. Support(log') = Support(log) \cup Support(f) /\ log' \in Counts /\ queue' \in Counts
  BY <1>1, <1>2, PlusSupport
<1>5. Support(g) \subseteq Names
  BY DEF Support
<1> QED BY <1>1, <1>2, <1>3, <1>4, <1>5 DEF QueuedIsLogged

\* The steps that only move a call, or that change what the invariant does not read.
LEMMA QuietKeeps ==
  ASSUME QueueInv, NEW c \in Calls, NEW s \in Steps, pc' = [pc EXCEPT ![c] = s],
         UNCHANGED <<product, fired, log, queue, queued, trigger, found, pendLog, pendQueue>>,
         target' \in [Calls -> Triggers],
         s \notin {"queue", "commit"} => pendLog[c] = None, s # "queue"
  PROVE  QueueInv'
<1>1. QueueType'
  BY DEF QueueInv, QueueType
<1>2. QueuedIsLogged' /\ FiredBoth'
  BY DEF QueueInv, QueuedIsLogged, FiredBoth, Support
<1>3. PendingLogged'
  BY DEF QueueInv, QueueType, PendingLogged, Support, FoundRows, None
<1> QED BY <1>1, <1>2, <1>3 DEF QueueInv

LEMMA QueueInitInv == Init => QueueInv
<1> SUFFICES ASSUME Init PROVE QueueInv
  OBVIOUS
<1>1. QueueType
  BY NoneSupport DEF Init, QueueType, Triggers, Steps
<1>2. QueuedIsLogged /\ FiredBoth
  BY DEF Init, QueuedIsLogged, FiredBoth
<1>3. PendingLogged
  BY NoneSupport DEF Init, PendingLogged
<1> QED BY <1>1, <1>2, <1>3 DEF QueueInv

\* What the application and the refresh do keeps the invariant.
LEMMA ExternalKeeps ==
  ASSUME QueueInv, NEW n \in Names, AppInsert(n) \/ AppCommit(n) \/ Drain(n) PROVE QueueInv'
<1>1. CASE AppInsert(n)
  <2>1. QueueType' /\ FiredBoth'
    BY <1>1, WritersLog DEF AppInsert, QueueInv, QueueType, FiredBoth, tables, callVars
  <2>2. QueuedIsLogged' /\ PendingLogged'
    BY <1>1 DEF AppInsert, QueueInv, QueuedIsLogged, PendingLogged, Support, FoundRows, tables, callVars
  <2> QED BY <2>1, <2>2 DEF QueueInv
<1>2. CASE AppCommit(n)
  <2> DEFINE f == [m \in Names |-> IF m = n THEN fired[n].log ELSE 0]
             g == [m \in Names |-> IF m = n THEN fired[n].queue ELSE 0]
  <2>1. f \in Counts /\ g \in Counts
    BY DEF QueueInv, QueueType, Counts
  <2>2. Support(g) \subseteq Support(f)
    BY DEF Support, QueueInv, QueueType, FiredBoth
  <2>3. AddCommitted(f, g) /\ product' = [product EXCEPT ![n] = "in"]
        /\ UNCHANGED <<fired, trigger, target, pc, found, pendLog, pendQueue>>
    BY <1>2 DEF AppCommit, callVars
  <2> HIDE DEF f, g
  <2>4. /\ log' \in Counts /\ queue' \in Counts /\ queued' \subseteq Names /\ QueuedIsLogged'
        /\ Support(log) \subseteq Support(log)'
    BY <2>1, <2>2, <2>3, CommitKeeps
  <2>5. QueueType' /\ FiredBoth'
    BY <2>3, <2>4 DEF QueueInv, QueueType, FiredBoth
  <2>6. PendingLogged'
    BY <2>3, <2>4 DEF QueueInv, PendingLogged, Support, FoundRows
  <2> QED BY <2>4, <2>5, <2>6 DEF QueueInv
<1>3. CASE Drain(n)
  <2>1. QueueType'
    BY <1>3 DEF Drain, QueueInv, QueueType, Counts, appVars, callVars
  <2>2. QueuedIsLogged' /\ FiredBoth' /\ PendingLogged'
    BY <1>3 DEF Drain, QueueInv, QueuedIsLogged, FiredBoth, PendingLogged, Support, FoundRows, appVars, callVars
  <2> QED BY <2>1, <2>2 DEF QueueInv
<1> QED BY <1>1, <1>2, <1>3

\* A call that commits its queue rows with their log rows, or after them, keeps the invariant.
LEMMA CallCommits ==
  ASSUME QueueInv, NEW c \in Calls, NEW s \in {"done", "raised"}, pc' = [pc EXCEPT ![c] = s],
         NEW f \in Counts, AddCommitted(f, pendQueue[c]), f = pendLog[c] \/ pendLog[c] = None,
         pendLog' = [pendLog EXCEPT ![c] = None], pendQueue' = [pendQueue EXCEPT ![c] = None],
         trigger' \in [Triggers -> {"none", "log", "both"}],
         UNCHANGED <<product, fired, found, target>>
  PROVE  QueueInv'
<1>1. pendQueue[c] \in Counts /\ Support(pendQueue[c]) \subseteq Support(log) \cup Support(f)
  BY NoneSupport DEF QueueInv, QueueType, PendingLogged
<1>2. /\ log' \in Counts /\ queue' \in Counts /\ queued' \subseteq Names /\ QueuedIsLogged'
      /\ Support(log) \subseteq Support(log)'
  BY <1>1, CommitKeeps
<1>3. QueueType' /\ FiredBoth'
  BY <1>2, NoneSupport DEF QueueInv, QueueType, FiredBoth, Steps
<1>4. PendingLogged'
  <2> SUFFICES ASSUME NEW d \in Calls
               PROVE /\ Support(pendQueue'[d]) \subseteq Support(log') \cup Support(pendLog'[d])
                     /\ pc'[d] \notin {"queue", "commit"} => pendLog'[d] = None
                     /\ pc'[d] = "queue" => pendLog'[d] = FoundRows(d)
    BY DEF PendingLogged, Support, FoundRows, None
  <2>1. Support(log)' = Support(log')
    BY DEF Support
  <2>2. CASE d = c
    BY <2>2, NoneSupport DEF QueueInv, QueueType
  <2>3. CASE d # c
    BY <2>1, <2>3, <1>2 DEF QueueInv, QueueType, PendingLogged
  <2> QED BY <2>2, <2>3
<1> QED BY <1>2, <1>3, <1>4 DEF QueueInv

\* A call that changes its own pending rows keeps the invariant, if they do.
LEMMA PendingKeeps ==
  ASSUME QueueInv, NEW c \in Calls, NEW s \in Steps, pc' = [pc EXCEPT ![c] = s],
         UNCHANGED <<product, fired, log, queue, queued, trigger, target>>,
         NEW names \in SUBSET Names, found' = [found EXCEPT ![c] = names],
         NEW f \in Counts, pendLog' = [pendLog EXCEPT ![c] = f],
         NEW g \in Counts, pendQueue' = [pendQueue EXCEPT ![c] = g],
         Support(g) \subseteq Support(log) \cup Support(f),
         s \notin {"queue", "commit"} => f = None,
         s = "queue" => f = FoundRows(c)'
  PROVE  QueueInv'
<1>1. QueueType'
  BY DEF QueueInv, QueueType
<1>2. QueuedIsLogged' /\ FiredBoth'
  BY DEF QueueInv, QueuedIsLogged, FiredBoth, Support
<1>3. PendingLogged'
  <2> SUFFICES ASSUME NEW d \in Calls
               PROVE /\ Support(pendQueue'[d]) \subseteq Support(log) \cup Support(pendLog'[d])
                     /\ pc'[d] \notin {"queue", "commit"} => pendLog'[d] = None
                     /\ pc'[d] = "queue" => pendLog'[d] = FoundRows(d)'
    BY DEF PendingLogged, Support, FoundRows, None
  <2>1. CASE d = c
    BY <2>1 DEF QueueInv, QueueType
  <2>2. CASE d # c
    BY <2>2 DEF QueueInv, QueueType, PendingLogged, FoundRows
  <2> QED BY <2>1, <2>2
<1> QED BY <1>1, <1>2, <1>3 DEF QueueInv

\* Every step of a call keeps the invariant.
LEMMA CallKeeps == ASSUME QueueInv, NEW c \in Calls, CallStep(c) PROVE QueueInv'
<1> USE DEF Goto, appVars, tables, callVars, Steps
<1>0. /\ pendLog[c] \in Counts /\ pendQueue[c] \in Counts /\ found[c] \in SUBSET Names /\ log \in Counts
      /\ pendLog = [pendLog EXCEPT ![c] = pendLog[c]] /\ pendQueue = [pendQueue EXCEPT ![c] = pendQueue[c]]
      /\ found = [found EXCEPT ![c] = found[c]] /\ target \in [Calls -> Triggers]
      /\ trigger \in [Triggers -> {"none", "log", "both"}]
  BY DEF QueueInv, QueueType
<1>00. /\ Support(pendQueue[c]) \subseteq Support(log) \cup Support(pendLog[c])
       /\ pc[c] \notin {"queue", "commit"} => pendLog[c] = None
       /\ pc[c] = "queue" => pendLog[c] = FoundRows(c)
  BY DEF QueueInv, PendingLogged
<1>1. CASE Start(c) \/ LookForQueue(c) \/ AlterQueue(c) \/ LookForLog(c) \/ AlterLog(c)
  <2>1. \E s \in Steps \ {"queue", "commit"} : pc' = [pc EXCEPT ![c] = s]
    BY <1>1 DEF Start, LookForQueue, AlterQueue, LookForLog, AlterLog
  <2>2. pendLog[c] = None /\ UNCHANGED <<product, fired, log, queue, queued, trigger, target, found,
                                        pendLog, pendQueue>>
    BY <1>1, <1>00 DEF Start, LookForQueue, AlterQueue, LookForLog, AlterLog
  <2> QED BY <2>1, <2>2, <1>0, QuietKeeps
<1>2. CASE Raise(c)
  <2>1. pc' = [pc EXCEPT ![c] = "raised"] /\ UNCHANGED <<product, fired, log, queue, queued, trigger, target>>
        /\ pendLog' = [pendLog EXCEPT ![c] = None] /\ pendQueue' = [pendQueue EXCEPT ![c] = None]
        /\ found' = [found EXCEPT ![c] = found[c]]
    BY <1>2, <1>0 DEF Raise
  <2> QED BY <2>1, <1>0, NoneSupport, PendingKeeps
<1>3. CASE CreateQueue(c) \/ CreateLog(c)
  <2>1. \E s \in {"alter", "alterLog"} : pc' = [pc EXCEPT ![c] = s]
    BY <1>3 DEF CreateQueue, CreateLog
  <2>2. pendLog[c] = None /\ UNCHANGED <<product, fired, log, queue, queued, trigger, target, found,
                                        pendLog, pendQueue>>
    BY <1>3, <1>00 DEF CreateQueue, CreateLog
  <2> QED BY <2>1, <2>2, <1>0, QuietKeeps
<1>4. CASE Backfill(c)
  <2>1. pc' = [pc EXCEPT ![c] = "triggers"] /\ UNCHANGED <<product, fired, log, queue, queued, trigger, target>>
        /\ pendLog' = [pendLog EXCEPT ![c] = None] /\ pendQueue' = [pendQueue EXCEPT ![c] = log]
        /\ found' = [found EXCEPT ![c] = found[c]]
    BY <1>4, <1>0, <1>00 DEF Backfill
  <2> QED BY <2>1, <1>0, NoneSupport, PendingKeeps
<1>5. CASE ReadTriggers(c)
  <2> DEFINE names == {t \in Triggers : trigger[t] # "none"}
  <2>1. target' \in [Calls -> Triggers]
    <3>1. QueueTrigger \in Triggers /\ (names # {} => (CHOOSE t \in names : TRUE) \in Triggers)
      BY DEF Triggers
    <3>2. target' = [target EXCEPT ![c] = IF names = {} THEN QueueTrigger ELSE CHOOSE t \in names : TRUE]
      BY <1>5 DEF ReadTriggers
    <3> HIDE DEF names
    <3> QED BY <3>1, <3>2, <1>0
  <2>2. pc' = [pc EXCEPT ![c] = "replace"] /\ pendLog[c] = None
        /\ UNCHANGED <<product, fired, log, queue, queued, trigger, found, pendLog, pendQueue>>
    BY <1>5, <1>00 DEF ReadTriggers
  <2> QED BY <2>1, <2>2, QuietKeeps
<1>6. CASE ReplaceTrigger(c) \/ ReplaceTriggerFails(c)
  <2>1. /\ \E s \in {"done", "raised"} : pc' = [pc EXCEPT ![c] = s]
        /\ pendLog[c] = None /\ AddCommitted(None, pendQueue[c])
        /\ pendLog' = [pendLog EXCEPT ![c] = None] /\ pendQueue' = [pendQueue EXCEPT ![c] = None]
        /\ UNCHANGED <<product, fired, found, target>>
    BY <1>6, <1>0, <1>00 DEF ReplaceTrigger, ReplaceTriggerFails
  <2>2. trigger' \in [Triggers -> {"none", "log", "both"}]
    BY <1>6, <1>0 DEF ReplaceTrigger, ReplaceTriggerFails
  <2> QED BY <2>1, <2>2, NoneSupport, CallCommits
<1>7. CASE SelectMissing(c)
  <2>1. pc' = [pc EXCEPT ![c] = IF Missing = {} THEN "commit" ELSE "log"]
        /\ UNCHANGED <<product, fired, log, queue, queued, trigger, target>>
        /\ pendLog' = [pendLog EXCEPT ![c] = None] /\ pendQueue' = [pendQueue EXCEPT ![c] = pendQueue[c]]
        /\ found' = [found EXCEPT ![c] = Missing] /\ pendLog[c] = None
    BY <1>7, <1>0, <1>00 DEF SelectMissing
  <2>2. Missing \in SUBSET Names
    BY DEF Missing
  <2> QED BY <2>1, <2>2, <1>0, <1>00, NoneSupport, PendingKeeps
<1>8. CASE InsertLog(c)
  <2>1. pc' = [pc EXCEPT ![c] = "queue"] /\ UNCHANGED <<product, fired, log, queue, queued, trigger, target>>
        /\ pendLog' = [pendLog EXCEPT ![c] = FoundRows(c)]
        /\ pendQueue' = [pendQueue EXCEPT ![c] = pendQueue[c]]
        /\ found' = [found EXCEPT ![c] = found[c]] /\ FoundRows(c)' = FoundRows(c) /\ pendLog[c] = None
    BY <1>8, <1>0, <1>00 DEF InsertLog, FoundRows
  <2>2. Support(pendQueue[c]) \subseteq Support(log) \cup Support(FoundRows(c))
    BY <2>1, <1>00, NoneSupport
  <2> QED BY <2>1, <2>2, <1>0, FoundSupport, PendingKeeps
<1>9. CASE InsertQueue(c)
  <2>1. pc' = [pc EXCEPT ![c] = "commit"] /\ UNCHANGED <<product, fired, log, queue, queued, trigger, target>>
        /\ pendLog' = [pendLog EXCEPT ![c] = FoundRows(c)]
        /\ pendQueue' = [pendQueue EXCEPT ![c] = FoundRows(c)]
        /\ found' = [found EXCEPT ![c] = found[c]]
    BY <1>9, <1>0, <1>00 DEF InsertQueue
  <2> QED BY <2>1, <1>0, FoundSupport, PendingKeeps
<1>10. CASE Commit(c)
  <2>1. /\ pc' = [pc EXCEPT ![c] = "done"] /\ AddCommitted(pendLog[c], pendQueue[c])
        /\ pendLog' = [pendLog EXCEPT ![c] = None] /\ pendQueue' = [pendQueue EXCEPT ![c] = None]
        /\ UNCHANGED <<product, fired, found, target>> /\ trigger' = trigger
    BY <1>10 DEF Commit
  <2> QED BY <2>1, <1>0, CallCommits
<1>11. CASE CreateTrigger(c)
  <2>1. pc' = [pc EXCEPT ![c] = "done"] /\ pendLog[c] = None
        /\ trigger' = [trigger EXCEPT ![LogTrigger] = "log"]
        /\ UNCHANGED <<product, fired, log, queue, queued, target, found, pendLog, pendQueue>>
    BY <1>11, <1>00 DEF CreateTrigger
  <2>2. QueueType' /\ QueuedIsLogged' /\ FiredBoth'
    BY <2>1 DEF QueueInv, QueueType, QueuedIsLogged, FiredBoth, Support
  <2>3. PendingLogged'
    BY <2>1 DEF QueueInv, QueueType, PendingLogged, Support, FoundRows, None
  <2> QED BY <2>2, <2>3 DEF QueueInv
<1> QED BY <1>1, <1>2, <1>3, <1>4, <1>5, <1>6, <1>7, <1>8, <1>9, <1>10, <1>11 DEF CallStep

-----------------------------------------------------------------------------
LEMMA QueueNext == QueueInv /\ [Next]_vars => QueueInv'
<1> SUFFICES ASSUME QueueInv, [Next]_vars PROVE QueueInv'
  OBVIOUS
<1>1. CASE Next
  BY <1>1, ExternalKeeps, CallKeeps DEF Next
<1>2. CASE UNCHANGED vars
  BY <1>2 DEF vars, appVars, tables, callVars, QueueInv, QueueType, QueuedIsLogged, FiredBoth,
    PendingLogged, Support, FoundRows, None
<1> QED BY <1>1, <1>2

\* Whatever queues a name, the triggers, the backfill of ensure_transfer_products_queue or
\* enqueue_unlogged_products, its log row is committed with it or before it.
THEOREM WhatIsQueuedIsLogged == Spec => []QueuedIsLogged
<1>1. QueueInv => QueuedIsLogged
  BY DEF QueueInv
<1> QED BY QueueInitInv, QueueNext, <1>1, PTL DEF Spec

-----------------------------------------------------------------------------
(* What a call remembers of the tables, up to what others committed meanwhile. *)

TypesAt(c) ==
  /\ grew[c] \subseteq Names /\ created[c] \in BOOLEAN
  /\ kind[c] = "ensure" => pc[c] \notin {"select", "log", "queue", "commit", "createLog",
                                         "alterLog", "createTrigger"}
  /\ created[c] => pc[c] \in {"backfill", "triggers", "replace", "done", "raised"}

\* The names an enqueue call found are recorded nowhere, and it is about to log each once.
FoundAt(c) ==
  pc[c] \in {"log", "queue", "commit"} =>
    /\ \A n \in found[c] \ grew[c] : log[n] = 0 /\ queue[n] = 0
    /\ pc[c] = "commit" => \A n \in Names : pendLog[c][n] # 0 => n \in found[c] /\ pendLog[c][n] = 1

\* The creator of the queue is about to queue what was logged.
CreatorAt(c) ==
  created[c] /\ pc[c] \in {"triggers", "replace"} => Support(log) \subseteq grew[c] \cup Support(pendQueue[c])

MemoryInv ==
  /\ grew = [c \in Calls |-> grew[c]] /\ created = [c \in Calls |-> created[c]]
  /\ \A c \in Calls : TypesAt(c) /\ FoundAt(c) /\ CreatorAt(c)

\* What a step adds to the log while c is open, c's history tells; what it queues is logged.
Tells(c) ==
  /\ grew[c] \subseteq grew'[c] /\ grew'[c] \subseteq Names
  /\ \A n \in Names \ grew'[c] : log'[n] = log[n] /\ (log[n] = 0 /\ queue[n] = 0 => queue'[n] = 0)

LEMMA CommitTells ==
  ASSUME QueueInv, MemoryInv, NEW f \in Counts, NEW g \in Counts, AddCommitted(f, g),
         Support(g) \subseteq Support(log) \cup Support(f), NEW c \in Open
  PROVE  Tells(c)
<1>1. /\ c \in Calls /\ grew'[c] = grew[c] \cup Support(f) /\ grew[c] \subseteq Names
      /\ log' = Plus(log, f) /\ queue' = Plus(queue, g)
  BY DEF AddCommitted, Open, MemoryInv, TypesAt
<1>2. log \in Counts /\ queue \in Counts
  BY DEF QueueInv, QueueType
<1>3. ASSUME NEW n \in Names, n \notin grew'[c]
      PROVE  log'[n] = log[n] /\ (log[n] = 0 /\ queue[n] = 0 => queue'[n] = 0)
  <2>1. f[n] \in Nat /\ g[n] \in Nat /\ log[n] \in Nat /\ queue[n] \in Nat /\ f[n] = 0
    BY <1>1, <1>2, <1>3 DEF Counts, Support
  <2>2. log[n] = 0 => g[n] = 0
    BY <2>1 DEF Support
  <2> QED BY <1>1, <2>1, <2>2 DEF Plus
<1>4. Support(f) \subseteq Names
  BY DEF Support
<1> QED BY <1>1, <1>3, <1>4 DEF Tells

\* Every step tells the calls that are open, and keeps the histories in shape.
LEMMA StepTells ==
  ASSUME QueueInv, MemoryInv, Next
  PROVE  /\ \A c \in Open : Tells(c)
         /\ grew' = [c \in Calls |-> grew'[c]] /\ \A c \in Calls : grew'[c] \subseteq Names
<1> USE DEF appVars, tables, callVars
<1>1. ASSUME UNCHANGED <<log, grew>>, \A n \in Names : queue[n] = 0 => queue'[n] = 0 PROVE
         /\ \A c \in Open : Tells(c)
         /\ grew' = [c \in Calls |-> grew'[c]] /\ \A c \in Calls : grew'[c] \subseteq Names
  BY <1>1 DEF Tells, Open, MemoryInv, TypesAt
<1>2. ASSUME NEW f \in Counts, NEW g \in Counts, AddCommitted(f, g),
             Support(g) \subseteq Support(log) \cup Support(f)
      PROVE  /\ \A c \in Open : Tells(c)
             /\ grew' = [c \in Calls |-> grew'[c]] /\ \A c \in Calls : grew'[c] \subseteq Names
  <2>1. \A c \in Open : Tells(c)
    BY <1>2, CommitTells
  <2> QED BY <1>2, <2>1 DEF AddCommitted, Support, MemoryInv, TypesAt
<1>3. ASSUME NEW n \in Names, AppInsert(n) \/ Drain(n) PROVE
         UNCHANGED <<log, grew>> /\ \A m \in Names : queue[m] = 0 => queue'[m] = 0
  BY <1>3 DEF AppInsert, Drain, QueueInv, QueueType, Counts
<1>4. ASSUME NEW n \in Names, AppCommit(n) PROVE
         \E f, g \in Counts : AddCommitted(f, g) /\ Support(g) \subseteq Support(log) \cup Support(f)
  <2> DEFINE f == [m \in Names |-> IF m = n THEN fired[n].log ELSE 0]
             g == [m \in Names |-> IF m = n THEN fired[n].queue ELSE 0]
  <2>1. f \in Counts /\ g \in Counts
    BY DEF QueueInv, QueueType, Counts
  <2>2. Support(g) \subseteq Support(f)
    BY DEF Support, QueueInv, QueueType, FiredBoth
  <2>3. AddCommitted(f, g)
    BY <1>4 DEF AppCommit
  <2> HIDE DEF f, g
  <2> QED BY <2>1, <2>2, <2>3
<1>5. ASSUME NEW c \in Calls, ReplaceTrigger(c) \/ ReplaceTriggerFails(c) \/ Commit(c) PROVE
         \E f, g \in Counts : AddCommitted(f, g) /\ Support(g) \subseteq Support(log) \cup Support(f)
  <2>1. /\ pendLog[c] \in Counts /\ pendQueue[c] \in Counts
        /\ Support(pendQueue[c]) \subseteq Support(log) \cup Support(pendLog[c])
        /\ pc[c] = "replace" => pendLog[c] = None
    BY DEF QueueInv, QueueType, PendingLogged
  <2>2. \/ AddCommitted(pendLog[c], pendQueue[c])
        \/ AddCommitted(None, pendQueue[c]) /\ pc[c] = "replace"
    BY <1>5 DEF ReplaceTrigger, ReplaceTriggerFails, Commit, Goto
  <2> QED BY <2>1, <2>2, NoneSupport
<1>6. ASSUME NEW c \in Calls, CallStep(c), ~(ReplaceTrigger(c) \/ ReplaceTriggerFails(c) \/ Commit(c))
      PROVE  UNCHANGED <<log, queue, grew>>
  BY <1>6 DEF CallStep, Start, Raise, LookForQueue, CreateQueue, AlterQueue, Backfill, ReadTriggers,
              SelectMissing, InsertLog, InsertQueue, LookForLog, CreateLog, AlterLog, CreateTrigger
<1> QED BY <1>1, <1>2, <1>3, <1>4, <1>5, <1>6 DEF Next

\* A call that does not move remembers what it did.
LEMMA Remembers ==
  ASSUME QueueInv, MemoryInv, NEW c \in Calls, c \in Open => Tells(c), grew'[c] \subseteq Names,
         pc'[c] = pc[c], found'[c] = found[c], created'[c] = created[c], kind' = kind,
         pendLog'[c] = pendLog[c], pendQueue'[c] = pendQueue[c]
  PROVE  TypesAt(c)' /\ FoundAt(c)' /\ CreatorAt(c)'
<1>1. TypesAt(c) /\ FoundAt(c) /\ CreatorAt(c) /\ found[c] \subseteq Names
  BY DEF MemoryInv, QueueInv, QueueType
<1>2. TypesAt(c)'
  BY <1>1 DEF TypesAt
<1>3. pc[c] \notin Ended => Tells(c)
  BY DEF Open
<1>4. FoundAt(c)'
  <2>1. CASE pc[c] \in {"log", "queue", "commit"}
    <3>1. Tells(c)
      BY <1>3, <2>1 DEF Ended
    <3>2. \A n \in found[c] \ grew'[c] : n \in Names /\ log'[n] = 0 /\ queue'[n] = 0
      BY <1>1, <2>1, <3>1 DEF FoundAt, Tells
    <3> QED BY <1>1, <2>1, <3>2 DEF FoundAt
  <2> QED BY <2>1 DEF FoundAt
<1>5. CreatorAt(c)'
  <2>1. CASE created[c] /\ pc[c] \in {"triggers", "replace"}
    <3>1. Tells(c)
      BY <1>3, <2>1 DEF Ended
    <3>2. Support(log') \subseteq Support(log) \cup grew'[c]
      BY <3>1 DEF Support, Tells
    <3>3. Support(log) \subseteq grew'[c] \cup Support(pendQueue[c])
      BY <1>1, <2>1, <3>1 DEF CreatorAt, Tells
    <3>4. Support(log)' = Support(log') /\ Support(pendQueue[c])' = Support(pendQueue[c])
      BY DEF Support
    <3> QED BY <3>2, <3>3, <3>4 DEF CreatorAt
  <2> QED BY <2>1 DEF CreatorAt
<1> QED BY <1>2, <1>4, <1>5

\* A call's own step.
LEMMA CallRemembers ==
  ASSUME QueueInv, MemoryInv, NEW c \in Calls, CallStep(c), grew'[c] \subseteq Names
  PROVE  /\ TypesAt(c)' /\ FoundAt(c)' /\ CreatorAt(c)'
         /\ kind' = kind /\ created' = [d \in Calls |-> created'[d]]
         /\ \A d \in Calls : d # c => /\ pc'[d] = pc[d] /\ found'[d] = found[d] /\ created'[d] = created[d]
                                       /\ pendLog'[d] = pendLog[d] /\ pendQueue'[d] = pendQueue[d]
<1> USE DEF Goto, appVars, tables, callVars
<1>0. /\ pc \in [Calls -> Steps] /\ found \in [Calls -> SUBSET Names] /\ log \in Counts
      /\ pendLog \in [Calls -> Counts] /\ pendQueue \in [Calls -> Counts]
      /\ created = [d \in Calls |-> created[d]] /\ TypesAt(c) /\ FoundAt(c) /\ CreatorAt(c)
  BY DEF QueueInv, QueueType, MemoryInv
<1>1. CASE Start(c) \/ Raise(c) \/ LookForQueue(c) \/ CreateQueue(c) \/ AlterQueue(c) \/ LookForLog(c)
           \/ CreateLog(c) \/ AlterLog(c) \/ CreateTrigger(c) \/ Commit(c) \/ ReplaceTrigger(c)
           \/ ReplaceTriggerFails(c)
  <2>1. /\ kind' = kind /\ created' = [d \in Calls |-> created'[d]]
        /\ \A d \in Calls : d # c => /\ pc'[d] = pc[d] /\ found'[d] = found[d] /\ created'[d] = created[d]
                                      /\ pendLog'[d] = pendLog[d] /\ pendQueue'[d] = pendQueue[d]
    BY <1>0, <1>1 DEF Start, Raise, LookForQueue, CreateQueue, AlterQueue, LookForLog, CreateLog, AlterLog,
       CreateTrigger, Commit, ReplaceTrigger, ReplaceTriggerFails
  <2>2. pc'[c] \notin {"log", "queue", "commit"} /\ (created'[c] => pc'[c] \notin {"triggers", "replace"})
    BY <1>0, <1>1 DEF Start, Raise, LookForQueue, CreateQueue, AlterQueue, LookForLog, CreateLog, AlterLog,
       CreateTrigger, Commit, ReplaceTrigger, ReplaceTriggerFails, TypesAt
  <2>3. /\ kind[c] = "ensure" => pc'[c] \notin {"select", "log", "queue", "commit", "createLog",
                                                "alterLog", "createTrigger"}
        /\ created'[c] => pc'[c] \in {"backfill", "triggers", "replace", "done", "raised"}
        /\ created'[c] \in BOOLEAN
    BY <1>0, <1>1 DEF Start, Raise, LookForQueue, CreateQueue, AlterQueue, LookForLog, CreateLog, AlterLog,
       CreateTrigger, Commit, ReplaceTrigger, ReplaceTriggerFails, TypesAt, Open, Ended
  <2> QED BY <2>1, <2>2, <2>3 DEF TypesAt, FoundAt, CreatorAt
<1>2. CASE Backfill(c)
  <2>1. /\ pc[c] = "backfill" /\ pc' = [pc EXCEPT ![c] = "triggers"] /\ log' = log
        /\ pendQueue' = [pendQueue EXCEPT ![c] = log] /\ UNCHANGED <<kind, found, created, pendLog, grew>>
    BY <1>2 DEF Backfill
  <2>2. Support(log)' = Support(pendQueue[c])'
    BY <1>0, <2>1 DEF Support
  <2> QED BY <1>0, <2>1, <2>2 DEF TypesAt, FoundAt, CreatorAt
<1>3. CASE ReadTriggers(c)
  <2>1. /\ pc[c] = "triggers" /\ pc' = [pc EXCEPT ![c] = "replace"]
        /\ UNCHANGED <<kind, found, created, pendLog, pendQueue, grew, log>>
    BY <1>3 DEF ReadTriggers
  <2> QED BY <1>0, <2>1 DEF TypesAt, FoundAt, CreatorAt, Support
<1>4. CASE SelectMissing(c)
  <2>1. /\ pc[c] = "select" /\ found' = [found EXCEPT ![c] = Missing]
        /\ pc' = [pc EXCEPT ![c] = IF Missing = {} THEN "commit" ELSE "log"]
        /\ UNCHANGED <<kind, created, pendLog, pendQueue, grew, log, queue>>
    BY <1>4 DEF SelectMissing
  <2>2. pendLog[c] = None
    BY <2>1 DEF QueueInv, PendingLogged
  <2> QED BY <1>0, <2>1, <2>2 DEF TypesAt, FoundAt, CreatorAt, Missing, None
<1>5. CASE InsertLog(c)
  <2>1. /\ pc[c] = "log" /\ pc' = [pc EXCEPT ![c] = "queue"] /\ pendLog' = [pendLog EXCEPT ![c] = FoundRows(c)]
        /\ UNCHANGED <<kind, found, created, pendQueue, grew, log, queue>>
    BY <1>5 DEF InsertLog
  <2> QED BY <1>0, <2>1 DEF TypesAt, FoundAt, CreatorAt
<1>6. CASE InsertQueue(c)
  <2>1. /\ pc[c] = "queue" /\ pc' = [pc EXCEPT ![c] = "commit"] /\ pendLog[c] = FoundRows(c)
        /\ pendQueue' = [pendQueue EXCEPT ![c] = FoundRows(c)]
        /\ UNCHANGED <<kind, found, created, pendLog, grew, log, queue>>
    BY <1>6 DEF InsertQueue, QueueInv, PendingLogged
  <2>2. FoundAt(c)'
    BY <1>0, <2>1 DEF FoundAt, FoundRows
  <2> QED BY <1>0, <2>1, <2>2 DEF TypesAt, CreatorAt
<1> QED BY <1>1, <1>2, <1>3, <1>4, <1>5, <1>6 DEF CallStep

LEMMA MemoryNext == QueueInv /\ MemoryInv /\ [Next]_vars => MemoryInv'
<1> SUFFICES ASSUME QueueInv, MemoryInv, [Next]_vars PROVE MemoryInv'
  OBVIOUS
<1>1. CASE UNCHANGED vars
  BY <1>1 DEF vars, tables, callVars, MemoryInv, TypesAt, FoundAt, CreatorAt, Support
<1>2. CASE Next
  <2>0. /\ \A c \in Open : Tells(c)
        /\ grew' = [c \in Calls |-> grew'[c]] /\ \A c \in Calls : grew'[c] \subseteq Names
    BY <1>2, StepTells
  <2>1. ASSUME NEW c \in Calls, CallStep(c) PROVE MemoryInv'
    <3>1. ASSUME NEW d \in Calls, d # c PROVE TypesAt(d)' /\ FoundAt(d)' /\ CreatorAt(d)'
      BY <2>0, <2>1, <3>1, CallRemembers, Remembers
    <3> QED BY <2>0, <2>1, <3>1, CallRemembers DEF MemoryInv
  <2>2. CASE \E n \in Names : AppInsert(n) \/ AppCommit(n) \/ Drain(n)
    <3>1. UNCHANGED callVars
      BY <2>2 DEF AppInsert, AppCommit, Drain, appVars, tables
    <3>2. \A d \in Calls : TypesAt(d)' /\ FoundAt(d)' /\ CreatorAt(d)'
      BY <2>0, <3>1, Remembers DEF callVars
    <3> QED BY <2>0, <3>1, <3>2 DEF MemoryInv, callVars
  <2> QED BY <1>2, <2>1, <2>2 DEF Next
<1> QED BY <1>1, <1>2

LEMMA MemoryAlways == Spec => [](QueueInv /\ MemoryInv)
<1>1. Init => MemoryInv
  BY DEF Init, MemoryInv, TypesAt, FoundAt, CreatorAt
<1> QED BY <1>1, QueueInitInv, QueueNext, MemoryNext, PTL DEF Spec

\* enqueue_unlogged_products adds one row for each name it found recorded nowhere, and none for a
\* name that the log or the queue had, but for what others logged while it ran.
THEOREM EnqueuesOnce == Spec => EnqueueAddsUnrecordedOnce
<1>1. ASSUME QueueInv, MemoryInv, [Next]_vars
      PROVE  [\A c \in Calls :
               /\ kind[c] = "enqueue" /\ pc[c] = "commit" /\ pc'[c] = "done"
               => \A n \in Names \ grew[c] :
                    log'[n] # log[n] => log[n] = 0 /\ queue[n] = 0 /\ log'[n] = 1]_vars
  <2> SUFFICES ASSUME Next, NEW c \in Calls, pc[c] = "commit", pc'[c] = "done",
                      NEW n \in Names \ grew[c], log'[n] # log[n]
               PROVE  log[n] = 0 /\ queue[n] = 0 /\ log'[n] = 1
    BY <1>1
  <2>0. QueueInv /\ MemoryInv /\ pc \in [Calls -> Steps]
    BY <1>1 DEF QueueInv, QueueType
  <2>1. PICK d \in Calls : CallStep(d)
    BY DEF Next, AppInsert, AppCommit, Drain, callVars
  <2>2. d = c
    <3>1. d # c => pc'[c] = pc[c]
      <4>1. grew'[d] \subseteq Names
        BY <2>0, StepTells
      <4> QED BY <2>0, <2>1, <4>1, CallRemembers
    <3> QED BY <3>1
  <2>3. Commit(c)
    BY <2>0, <2>1, <2>2 DEF CallStep, Start, Raise, LookForQueue, CreateQueue, AlterQueue, Backfill, ReadTriggers,
       ReplaceTrigger, ReplaceTriggerFails, SelectMissing, InsertLog, InsertQueue, LookForLog, CreateLog,
       AlterLog, CreateTrigger, Goto
  <2>4. log' = Plus(log, pendLog[c]) /\ FoundAt(c)
    BY <2>0, <2>3 DEF Commit, AddCommitted, MemoryInv
  <2>5. log[n] \in Nat /\ pendLog[c][n] \in Nat /\ log'[n] = log[n] + pendLog[c][n]
    BY <2>0, <2>4 DEF QueueInv, QueueType, Counts, Plus
  <2>6. n \in found[c] /\ pendLog[c][n] = 1
    BY <2>4, <2>5 DEF FoundAt
  <2> QED BY <2>4, <2>5, <2>6 DEF FoundAt
<1> QED BY <1>1, MemoryAlways, PTL DEF Spec, EnqueueAddsUnrecordedOnce

\* The call of ensure_transfer_products_queue that creates the queue has queued, when it answers,
\* every name that was logged, but for those logged while it ran.
THEOREM CreatorKeepsOldWork == Spec => CreatorQueuesOldWork
<1>1. ASSUME QueueInv, MemoryInv, [Next]_vars
      PROVE  [\A c \in Calls :
               /\ kind[c] = "ensure" /\ created[c] /\ pc[c] # "done" /\ pc'[c] = "done"
               => Support(log) \ grew[c] \subseteq queued']_vars
  <2> SUFFICES ASSUME Next, NEW c \in Calls, kind[c] = "ensure", created[c], pc[c] # "done", pc'[c] = "done"
               PROVE  Support(log) \ grew[c] \subseteq queued'
    BY <1>1
  <2>0. QueueInv /\ MemoryInv /\ pc \in [Calls -> Steps] /\ TypesAt(c) /\ CreatorAt(c)
    BY <1>1 DEF QueueInv, QueueType, MemoryInv
  <2>1. PICK d \in Calls : CallStep(d)
    BY DEF Next, AppInsert, AppCommit, Drain, callVars
  <2>2. d = c
    <3>1. d # c => pc'[c] = pc[c]
      <4>1. grew'[d] \subseteq Names
        BY <2>0, StepTells
      <4> QED BY <2>0, <2>1, <4>1, CallRemembers
    <3> QED BY <3>1
  <2>3. ReplaceTrigger(c)
    BY <2>0, <2>1, <2>2 DEF CallStep, Start, Raise, LookForQueue, CreateQueue, AlterQueue, Backfill, ReadTriggers,
       ReplaceTriggerFails, SelectMissing, InsertLog, InsertQueue, LookForLog, CreateLog, Commit,
       AlterLog, CreateTrigger, Goto, TypesAt
  <2>4. queued' = queued \cup Support(pendQueue[c]) /\ pc[c] = "replace"
    BY <2>3 DEF ReplaceTrigger, AddCommitted, Goto
  <2> QED BY <2>0, <2>4 DEF CreatorAt
<1> QED BY <1>1, MemoryAlways, PTL DEF Spec, CreatorQueuesOldWork
=============================================================================
