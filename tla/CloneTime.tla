------------------------------ MODULE CloneTime ------------------------------
(***************************************************************************)
(* clone_time.py dates the snapshot a clone was made from, from what the   *)
(* clone itself shows: the checkpoint times in its datafile headers, its   *)
(* own startup time, and its archived logs, which begin with the source's. *)
(* The source switches logs and checkpoints, is snapshotted, and the clone *)
(* opens and goes on; the tool makes its queries while it does.            *)
(***************************************************************************)
EXTENDS ToolCalls, FiniteSetsExt

CONSTANTS
  DataFiles,   \* the datafiles of the database
  MaxTime,     \* the clock stops there
  MaxRestarts  \* starts of the clone after its first

Never == -1

ASSUME CloneAssumption == DataFiles # {} /\ MaxTime \in Nat /\ MaxRestarts \in Nat

VARIABLES
  clock,      \* now
  snapAt,     \* when the source was snapshotted, or Never
  startup,    \* v$instance.startup_time of the clone, or Never
  restarts,   \* starts of the clone after the first
  headers,    \* checkpoint_time of each datafile
  archived,   \* v$archived_log: pairs of first and next time
  logStart,   \* first time of the current log
  sourceLast, \* when the source last wrote a header (history)
  startRead,  \* startRead[c]: the startup time c read
  begins,     \* begins[c]: where the window of c begins, as far as c has asked
  clone       \* clone[c]: the answer of c

databaseVars == <<clock, snapAt, startup, restarts, headers, archived, logStart, sourceLast>>
cloneLocals == <<startRead, begins, clone>>
cloneVars == <<databaseVars, cloneLocals>>

Unknown == [method |-> "unknown", from |-> Never, to |-> Never]
\* The source before its snapshot, or the clone once it is open, which takes it a second.
Running == snapAt = Never \/ (startup # Never /\ startup < clock)

Tick ==
  /\ clock < MaxTime
  /\ clock' = clock + 1
  /\ UNCHANGED <<snapAt, startup, restarts, headers, archived, logStart, sourceLast, cloneLocals, calls>>

\* The running database: a log is archived when it is full, headers are written one file at a time.
SwitchLog ==
  /\ Running /\ logStart < clock
  /\ archived' = archived \cup {<<logStart, clock>>}
  /\ logStart' = clock
  /\ UNCHANGED <<clock, snapAt, startup, restarts, headers, sourceLast, cloneLocals, calls>>

Checkpoint(f) ==
  /\ Running /\ headers[f] < clock
  /\ headers' = [headers EXCEPT ![f] = clock]
  /\ sourceLast' = IF snapAt = Never THEN clock ELSE sourceLast
  /\ UNCHANGED <<clock, snapAt, startup, restarts, archived, logStart, cloneLocals, calls>>

Snapshot ==
  /\ snapAt = Never
  /\ snapAt' = clock
  /\ UNCHANGED <<clock, startup, restarts, headers, archived, logStart, sourceLast, cloneLocals, calls>>

\* The clone starts, and may be restarted; both some time after what it starts from.  A restart
\* ends the session of a call (CloneFails), so it is taken between calls.
Start ==
  /\ Open = {} /\ snapAt # Never /\ snapAt < clock /\ startup < clock
  /\ startup # Never => restarts < MaxRestarts
  /\ restarts' = IF startup = Never THEN 0 ELSE restarts + 1
  /\ startup' = clock
  /\ UNCHANGED <<clock, snapAt, headers, archived, logStart, sourceLast, cloneLocals, calls>>

-----------------------------------------------------------------------------
\* Calls only read and do not meet: one is taken.
CloneStart(c) ==
  /\ startup # Never /\ \A d \in Calls : At(d, "idle")
  /\ Begin(c, [kind |-> "cloneTime"], "readStartup", FALSE)
  /\ UNCHANGED cloneVars

\* _interpret: the latest header decides whether the clone has written them.
Interpret(h, start) ==
  [advanced |-> Max({h[f] : f \in DataFiles}) >= start, consistent |-> Cardinality({h[f] : f \in DataFiles}) = 1]

ReadStartup(c) ==
  /\ At(c, "readStartup")
  /\ startRead' = [startRead EXCEPT ![c] = startup]
  /\ Go(c, "readHeaders")
  /\ UNCHANGED <<databaseVars, begins, clone>>

\* Headers that are frozen and agree are the answer, as both ends of the window; else the archived
\* logs are asked.
ReadHeaders(c) ==
  /\ At(c, "readHeaders")
  /\ LET i == Interpret(headers, startRead[c])  at == Max({headers[f] : f \in DataFiles}) IN
     IF ~i.advanced /\ i.consistent
     THEN clone' = [clone EXCEPT ![c] = [method |-> "frozen", from |-> at, to |-> at]] /\ Go(c, "done")
     ELSE Go(c, "readEarlier") /\ UNCHANGED clone
  /\ UNCHANGED <<databaseVars, startRead, begins>>

\* _snapshot_from_archived_logs: the window is from the start of the first log that spans the
\* startup, or the end of the last one before it, to the startup.  Logs are archived meanwhile.
EndOfEarlier(start) ==
  LET earlier == {l \in archived : l[2] <= start} IN
  IF earlier = {} THEN Never ELSE Max({l[2] : l \in earlier})

Spanning(start) == {l \in archived : l[1] <= start /\ l[2] > start}
\* Mutant: the window begins with the end of the log that spans the startup.
EndOfSpanning(start, otherwise) ==
  IF Spanning(start) = {} THEN otherwise ELSE Min({l[2] : l \in Spanning(start)})
StartOfSpanning(start, otherwise) ==
  IF Spanning(start) = {} THEN otherwise ELSE Min({l[1] : l \in Spanning(start)})

ReadEarlier(c) ==
  /\ At(c, "readEarlier")
  /\ begins' = [begins EXCEPT ![c] = EndOfEarlier(startRead[c])]
  /\ Go(c, "readSpanning")
  /\ UNCHANGED <<databaseVars, startRead, clone>>

ReadSpanning(c) ==
  /\ At(c, "readSpanning")
  /\ begins' = [begins EXCEPT ![c] = StartOfSpanning(startRead[c], @)]
  /\ Go(c, "readLater")
  /\ UNCHANGED <<databaseVars, startRead, clone>>

\* The logs after the startup are only listed; the answer is made when they too were read.
ReadLater(c) ==
  /\ At(c, "readLater")
  /\ clone' = [clone EXCEPT ![c] =
       IF begins[c] = Never THEN Unknown
       ELSE [method |-> "window", from |-> begins[c], to |-> startRead[c]]]
  /\ Go(c, "done")
  /\ UNCHANGED <<databaseVars, startRead, begins>>

\* An error of the archived logs is part of the answer.
CloneFails(c) ==
  /\ \/ pc[c] \in {"readStartup", "readHeaders"} /\ Strike(c, "failed", "raised")
     \/ pc[c] \in {"readEarlier", "readSpanning", "readLater"} /\ Strike(c, "failed", "done")
  /\ UNCHANGED cloneVars

CloneInit ==
  /\ clock = 1 /\ snapAt = Never /\ startup = Never /\ restarts = 0
  /\ headers = [f \in DataFiles |-> 0]
  /\ archived = {} /\ logStart = 0 /\ sourceLast = 0
  /\ startRead = [c \in Calls |-> Never] /\ begins = [c \in Calls |-> Never]
  /\ clone = [c \in Calls |-> Unknown]

CloneNext ==
  \/ Tick \/ SwitchLog \/ Snapshot \/ Start \/ \E f \in DataFiles : Checkpoint(f)
  \/ \E c \in Calls :
       \/ CloneStart(c) \/ ReadStartup(c) \/ ReadHeaders(c)
       \/ ReadEarlier(c) \/ ReadSpanning(c) \/ ReadLater(c) \/ CloneFails(c)

-----------------------------------------------------------------------------
\* For a clone in its first run: a window from the archived logs holds the moment of the snapshot,
\* and a frozen date is the last header write of the source before it, never one of the clone or an
\* older one, whatever the source and the clone did before and meanwhile.  A frozen date is answered
\* as both ends of a window, which holds the snapshot only if the source checkpointed in that
\* second.  After a restart the headers and the logs before the startup are the clone's own.
WindowHoldsSnapshot ==
  \A c \in Calls : restarts = 0 =>
    /\ clone[c].method = "window" => clone[c].from <= snapAt /\ snapAt <= clone[c].to
    /\ clone[c].method = "frozen" => clone[c].from = sourceLast /\ sourceLast <= snapAt
=============================================================================
