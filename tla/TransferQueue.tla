--------------------------- MODULE TransferQueue ----------------------------
(***************************************************************************)
(* TRANSFER_PRODUCTS of one site: an application inserts product names,    *)
(* the insert trigger copies them to TRANSFER_PRODUCTS_LOG (a history) and *)
(* to TRANSFER_PRODUCTS_QUEUE (work for the refresh).  Three tools:        *)
(*   "ensure"    transfer_queue.ensure_transfer_products_queue             *)
(*   "enqueue"   transfer_queue.enqueue_unlogged_products                  *)
(*   "insertLog" server.create_saved_table_insert_log on this table        *)
(* One action is one SQL statement; DDL commits what its call has pending. *)
(* The application and the refresh that drains the queue are external.     *)
(***************************************************************************)
EXTENDS Integers, FiniteSets

CONSTANTS
  Names,       \* LAST_UUT_NAME values; each is inserted once by the application
  Calls, Kinds,
  LogTrigger,  \* trigger name given to create_saved_table_insert_log
  QueueTrigger \* NEW_TRIGGER_NAME

ToolKinds == {"ensure", "enqueue", "insertLog"}
Triggers == {LogTrigger, QueueTrigger}
Ended == {"idle", "done", "raised"}

ASSUME QueueAssumption ==
  LogTrigger # QueueTrigger /\ Kinds \subseteq ToolKinds /\ IsFiniteSet(Names)

VARIABLES
  product,   \* product[n]: "out", "open" (uncommitted insert) or "in"
  fired,     \* fired[n]: the rows the triggers wrote for the open insert of n
  logExists, queueExists,
  log,       \* log[n]: committed rows of n in the log
  queue,     \* queue[n]: committed rows of n in the queue
  trigger,   \* trigger[t]: "none", "log" (writes the log) or "both"
  kind, pc,
  found,     \* found[c]: names the select of an enqueue call returned
  created,   \* created[c]: queue_created of an ensure call
  target,    \* target[c]: the trigger an ensure call is going to replace
  pendLog, pendQueue,  \* uncommitted rows of a call
  queued,    \* names that ever had a committed queue row (history)
  grew       \* grew[c]: names that got a log row while call c was open (history)

appVars == <<product, fired>>
tables == <<logExists, queueExists, log, queue, trigger>>
callVars == <<kind, pc, found, created, target, pendLog, pendQueue>>
vars == <<appVars, tables, callVars, queued, grew>>

None == [n \in Names |-> 0]
Open == {c \in Calls : pc[c] \notin Ended}
Plus(f, g) == [n \in Names |-> f[n] + g[n]]
Support(f) == {n \in Names : f[n] > 0}

\* How many of the triggers write the log, and how many the queue.
LogWriters == Cardinality({t \in Triggers : trigger[t] # "none"})
QueueWriters == Cardinality({t \in Triggers : trigger[t] = "both"})

\* A trigger body that names a missing table is invalid: the insert fails.
Blocked ==
  \/ LogWriters > 0 /\ ~logExists
  \/ QueueWriters > 0 /\ ~queueExists

Init ==
  /\ product \in [Names -> {"out", "in"}]
  /\ fired = [n \in Names |-> [log |-> 0, queue |-> 0]]
  /\ logExists = FALSE /\ queueExists = FALSE
  /\ log = None /\ queue = None
  /\ trigger = [t \in Triggers |-> "none"]
  /\ kind \in [Calls -> Kinds]
  /\ pc = [c \in Calls |-> "idle"]
  /\ found = [c \in Calls |-> {}]
  /\ created = [c \in Calls |-> FALSE]
  /\ target = [c \in Calls |-> QueueTrigger]
  /\ pendLog = [c \in Calls |-> None] /\ pendQueue = [c \in Calls |-> None]
  /\ queued = {}
  /\ grew = [c \in Calls |-> {}]

\* Committed rows are added to the log and the queue; the histories follow.
AddCommitted(newLog, newQueue) ==
  /\ log' = Plus(log, newLog) /\ queue' = Plus(queue, newQueue)
  /\ queued' = queued \cup Support(newQueue)
  /\ grew' = [c \in Calls |-> IF c \in Open THEN grew[c] \cup Support(newLog) ELSE grew[c]]

-----------------------------------------------------------------------------
(* External: the application and the refresh. *)

AppInsert(n) ==
  /\ product[n] = "out" /\ ~Blocked
  /\ product' = [product EXCEPT ![n] = "open"]
  /\ fired' = [fired EXCEPT ![n] = [log |-> LogWriters, queue |-> QueueWriters]]
  /\ UNCHANGED <<tables, callVars, queued, grew>>

AppCommit(n) ==
  /\ product[n] = "open"
  /\ product' = [product EXCEPT ![n] = "in"]
  /\ AddCommitted([m \in Names |-> IF m = n THEN fired[n].log ELSE 0],
                  [m \in Names |-> IF m = n THEN fired[n].queue ELSE 0])
  /\ UNCHANGED <<fired, logExists, queueExists, trigger, callVars>>

Drain(n) ==
  /\ queue[n] > 0
  /\ queue' = [queue EXCEPT ![n] = 0]
  /\ UNCHANGED <<appVars, logExists, queueExists, log, trigger, callVars, queued, grew>>

-----------------------------------------------------------------------------
Goto(c, here, there) == pc[c] = here /\ pc' = [pc EXCEPT ![c] = there]

Start(c) ==
  /\ Goto(c, "idle", IF kind[c] = "enqueue" THEN "select" ELSE "look")
  /\ UNCHANGED <<appVars, tables, kind, found, created, target, pendLog, pendQueue,
                 queued, grew>>

(* An exception anywhere: the connection is closed, pending rows are gone. *)
Raise(c) ==
  /\ c \in Open
  /\ pc' = [pc EXCEPT ![c] = "raised"]
  /\ pendLog' = [pendLog EXCEPT ![c] = None]
  /\ pendQueue' = [pendQueue EXCEPT ![c] = None]
  /\ UNCHANGED <<appVars, tables, kind, found, created, target, queued, grew>>

(* ensure_transfer_products_queue *)

LookForQueue(c) ==
  /\ kind[c] = "ensure"
  /\ Goto(c, "look", IF queueExists THEN "triggers" ELSE "create")
  /\ UNCHANGED <<appVars, tables, kind, found, created, target, pendLog, pendQueue,
                 queued, grew>>

CreateQueue(c) ==
  /\ ~queueExists
  /\ Goto(c, "create", "alter")
  /\ queueExists' = TRUE
  /\ UNCHANGED <<appVars, logExists, log, queue, trigger, kind, found, created, target,
                 pendLog, pendQueue, queued, grew>>

AlterQueue(c) ==
  /\ Goto(c, "alter", "backfill")
  /\ created' = [created EXCEPT ![c] = TRUE]
  /\ UNCHANGED <<appVars, tables, kind, found, target, pendLog, pendQueue, queued, grew>>

\* Fault: the copy finds no log.
BackfillNothing(c) ==
  /\ Goto(c, "backfill", "triggers")
  /\ UNCHANGED <<appVars, tables, kind, found, created, target, pendLog, pendQueue,
                 queued, grew>>

\* Every committed log row, once; nothing when there is no log table.
Backfill(c) ==
  /\ Goto(c, "backfill", "triggers")
  /\ pendQueue' = [pendQueue EXCEPT ![c] = log]
  /\ UNCHANGED <<appVars, tables, kind, found, created, target, pendLog, queued, grew>>

\* The call raises when the table has more than one trigger.
ReadTriggers(c) ==
  LET names == {t \in Triggers : trigger[t] # "none"} IN
  /\ Cardinality(names) <= 1
  /\ Goto(c, "triggers", "replace")
  /\ target' = [target EXCEPT ![c] =
                  IF names = {} THEN QueueTrigger ELSE CHOOSE t \in names : TRUE]
  /\ UNCHANGED <<appVars, tables, kind, found, created, pendLog, pendQueue, queued, grew>>

\* DDL: the pending backfill is committed first.
ReplaceTrigger(c) ==
  /\ Goto(c, "replace", "done")
  /\ AddCommitted(None, pendQueue[c])
  /\ pendQueue' = [pendQueue EXCEPT ![c] = None]
  /\ trigger' = [trigger EXCEPT ![target[c]] = "both"]
  /\ UNCHANGED <<appVars, logExists, queueExists, kind, found, created, target, pendLog>>

\* The DDL itself fails after that commit.
ReplaceTriggerFails(c) ==
  /\ Goto(c, "replace", "raised")
  /\ AddCommitted(None, pendQueue[c])
  /\ pendQueue' = [pendQueue EXCEPT ![c] = None]
  /\ UNCHANGED <<appVars, logExists, queueExists, trigger, kind, found, created, target,
                 pendLog>>

(* enqueue_unlogged_products; without the log or the queue the select raises. *)

\* Fault: the log is not looked at.
MissingFromQueue == {n \in Names : product[n] = "in" /\ queue[n] = 0}
Missing == {n \in Names : product[n] = "in" /\ queue[n] = 0 /\ log[n] = 0}

SelectMissing(c) ==
  /\ logExists /\ queueExists
  /\ Goto(c, "select", IF Missing = {} THEN "commit" ELSE "log")
  /\ found' = [found EXCEPT ![c] = Missing]
  /\ UNCHANGED <<appVars, tables, kind, created, target, pendLog, pendQueue, queued, grew>>

FoundRows(c) == [n \in Names |-> IF n \in found[c] THEN 1 ELSE 0]

\* Fault: the queue alone is written.
InsertLogNothing(c) ==
  /\ Goto(c, "log", "queue")
  /\ UNCHANGED <<appVars, tables, kind, found, created, target, pendLog, pendQueue,
                 queued, grew>>

InsertLog(c) ==
  /\ Goto(c, "log", "queue")
  /\ pendLog' = [pendLog EXCEPT ![c] = FoundRows(c)]
  /\ UNCHANGED <<appVars, tables, kind, found, created, target, pendQueue, queued, grew>>

InsertQueue(c) ==
  /\ Goto(c, "queue", "commit")
  /\ pendQueue' = [pendQueue EXCEPT ![c] = FoundRows(c)]
  /\ UNCHANGED <<appVars, tables, kind, found, created, target, pendLog, queued, grew>>

Commit(c) ==
  /\ Goto(c, "commit", "done")
  /\ AddCommitted(pendLog[c], pendQueue[c])
  /\ pendLog' = [pendLog EXCEPT ![c] = None]
  /\ pendQueue' = [pendQueue EXCEPT ![c] = None]
  /\ UNCHANGED <<appVars, logExists, queueExists, trigger, kind, found, created, target>>

(* create_saved_table_insert_log: refuses an existing log table or trigger. *)

LookForLog(c) ==
  /\ kind[c] = "insertLog"
  /\ ~logExists /\ trigger[LogTrigger] = "none"
  /\ Goto(c, "look", "createLog")
  /\ UNCHANGED <<appVars, tables, kind, found, created, target, pendLog, pendQueue,
                 queued, grew>>

CreateLog(c) ==
  /\ ~logExists
  /\ Goto(c, "createLog", "alterLog")
  /\ logExists' = TRUE
  /\ UNCHANGED <<appVars, queueExists, log, queue, trigger, kind, found, created, target,
                 pendLog, pendQueue, queued, grew>>

AlterLog(c) ==
  /\ Goto(c, "alterLog", "createTrigger")
  /\ UNCHANGED <<appVars, tables, kind, found, created, target, pendLog, pendQueue,
                 queued, grew>>

CreateTrigger(c) ==
  /\ Goto(c, "createTrigger", "done")
  /\ trigger' = [trigger EXCEPT ![LogTrigger] = "log"]
  /\ UNCHANGED <<appVars, logExists, queueExists, log, queue, kind, found, created, target,
                 pendLog, pendQueue, queued, grew>>

CallStep(c) ==
  \/ Start(c) \/ Raise(c)
  \/ LookForQueue(c) \/ CreateQueue(c) \/ AlterQueue(c) \/ Backfill(c)
  \/ ReadTriggers(c) \/ ReplaceTrigger(c) \/ ReplaceTriggerFails(c)
  \/ SelectMissing(c) \/ InsertLog(c) \/ InsertQueue(c) \/ Commit(c)
  \/ LookForLog(c) \/ CreateLog(c) \/ AlterLog(c) \/ CreateTrigger(c)

Next ==
  \/ \E n \in Names : AppInsert(n) \/ AppCommit(n) \/ Drain(n)
  \/ \E c \in Calls : CallStep(c)

Spec == Init /\ [][Next]_vars

-----------------------------------------------------------------------------
(* Properties. *)

\* The history never lacks what was queued: whichever of the triggers, the
\* backfill and the enqueue tool queued a name, its log row was committed
\* with it or before it.
QueuedIsLogged == queued \subseteq Support(log)

\* The call that creates the queue loses no pending work but what was logged
\* while it ran: every other logged name has been queued when it answers.
CreatorQueuesOldWork ==
  [][\A c \in Calls :
       /\ kind[c] = "ensure" /\ created[c] /\ pc[c] # "done" /\ pc'[c] = "done"
       => Support(log) \ grew[c] \subseteq queued']_vars

\* An enqueue call adds one row per name, and none for a name already
\* recorded, but for names recorded by others while it ran.
EnqueueAddsUnrecordedOnce ==
  [][\A c \in Calls :
       /\ kind[c] = "enqueue" /\ pc[c] = "commit" /\ pc'[c] = "done"
       => \A n \in Names \ grew[c] :
            log'[n] # log[n] => log[n] = 0 /\ queue[n] = 0 /\ log'[n] = 1]_vars

=============================================================================
