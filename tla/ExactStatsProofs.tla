-------------------------- MODULE ExactStatsProofs --------------------------
(***************************************************************************)
(* Proofs about ExactStats, for all sets of runs, processes, connections   *)
(* and files, any number of tables and any requests: a line that says      *)
(* gathered is true, a resumed run does not gather again, and a completed  *)
(* connection accounts for its tables.                                     *)
(***************************************************************************)
EXTENDS ExactStats, TLAPS

Pcs == {"idle", "read", "unlink", "connect", "list", "next", "unlock", "gather", "record", "close",
        "failLine", "done", "failed", "raised", "lost"}
Statuses == {"gathered", "failed", "timed_out", "not_started"}
TableLine == [conn : Conns, table : Tables, st : Statuses]
WorkLine == [conn : Conns, failed : {TRUE}]
Locals == [pc : Pcs, skip : SUBSET Tables, todo : SUBSET Tables, cur : Nat, st : Statuses,
           stop : BOOLEAN, expired : BOOLEAN, listed : SUBSET Tables, opened : SUBSET Tables,
           late : Nat]
\* The worker is at one table.
Busied == {"unlock", "gather", "record"}

StatsType ==
  /\ want \in [Runs -> Requests]
  /\ run \in [Runs -> {"idle", "live", "refused", "result", "error", "lost"}]
  /\ worker \in [Workers -> Locals]
  /\ lines \in [Files -> SUBSET (TableLine \cup WorkLine)]
  /\ locked \in [Conns -> SUBSET Tables] /\ fresh \in [Conns -> SUBSET Tables]
  /\ beside \in [Runs -> SUBSET Runs] /\ was \in [Runs -> SUBSET (Conns \X Tables)]
  /\ \A w \in Workers : worker[w].pc \in Busied => worker[w].cur \in Tables

\* A run that has not begun has no work.
IdleIsFresh == \A w \in Workers : run[w[1]] = "idle" => worker[w] = Fresh
\* Runs that are live together know it, and are of different processes.
LiveApart == \A q, r \in Live : q # r => q \in beside[r] /\ want[q].proc # want[r].proc

\* What is, or is about to be, recorded as gathered has been gathered.
RecordsAreTrue ==
  /\ \A w \in Workers : worker[w].pc = "record" /\ worker[w].st = "gathered" => worker[w].cur \in fresh[w[2]]
  /\ \A f \in Files : \A l \in lines[f] \cap TableLine : l.st = "gathered" => l.table \in fresh[l.conn]

\* Only a run that does not resume removes a progress file.
UnlinkAnew == \A w \in Workers : worker[w].pc = "unlink" => ~want[w[1]].resume

\* A resumed run alone with its process has, or is going to read, every line it began with.
Known(w) == {t \in Tables : <<w[2], t>> \in was[w[1]]}
Skips(w) ==
  /\ worker[w].pc = "read" => Known(w) \subseteq GatheredIn(w[2])
  /\ worker[w].pc \in {"connect", "list", "next"} \cup Busied => Known(w) \subseteq worker[w].skip
  /\ worker[w].pc \in {"unlock", "gather"} => worker[w].cur \notin worker[w].skip
ResumeSkips == \A w \in Workers : w[1] \in Live /\ want[w[1]].resume /\ NoOtherProcess(w[1]) => Skips(w)

\* The table has a line, and one that does not pass its gather off as not started.
Accounted(w, t) ==
  \E l \in lines[File(w)] \cap TableLine : l.table = t /\ (t \in worker[w].opened => l.st # "not_started")
\* A worker whose file is its own accounts for what it listed, or has it before it.
Accounts(w) ==
  /\ worker[w].pc \in {"connect", "list", "next"} \cup Busied =>
       \A t \in worker[w].skip : \E l \in lines[File(w)] \cap TableLine : l.table = t
  /\ worker[w].pc \in {"next", "close"} \cup Busied =>
       \A t \in worker[w].listed :
         \/ t \in worker[w].todo /\ worker[w].pc # "close"
         \/ t = worker[w].cur /\ worker[w].pc \in Busied
         \/ Accounted(w, t)
AllAccounted ==
  \A w \in Workers : w[1] \in Live /\ NoOtherProcess(w[1]) /\ Private(w[2]) => Accounts(w)

\* Of the tables a worker has before it none is unlocked; it begins none after its deadline.
InTurn(e) ==
  /\ e.pc \in {"read", "unlink"} => e.skip = {}
  /\ e.pc \in {"read", "unlink", "connect", "list"} => e.opened = {}
  /\ e.opened \cap e.todo = {}
  /\ e.pc \in Busied => e.cur \notin e.todo
  /\ e.pc = "unlock" => e.cur \notin e.opened
  /\ e.pc = "record" /\ e.st = "not_started" => e.cur \notin e.opened
  /\ e.late = 0 \/ (e.late = 1 /\ e.expired /\ e.pc # "unlock")
OpensInTurn == \A w \in Workers : InTurn(worker[w])

StatsInv ==
  /\ StatsType /\ IdleIsFresh /\ LiveApart /\ RecordsAreTrue
  /\ UnlinkAnew /\ ResumeSkips /\ AllAccounted /\ OpensInTurn

-----------------------------------------------------------------------------
(* The lines of a progress file, and the names in it. *)

LEMMA LineKinds ==
  /\ \A l \in TableLine : "table" \in DOMAIN l /\ l.conn \in Conns /\ l.table \in Tables /\ l.st \in Statuses
  /\ \A l \in WorkLine : "table" \notin DOMAIN l /\ "st" \notin DOMAIN l
  /\ TableLine \cap WorkLine = {}
<1>1. \A l \in TableLine : DOMAIN l = {"conn", "table", "st"}
  BY DEF TableLine
<1>2. \A l \in WorkLine : DOMAIN l = {"conn", "failed"}
  BY DEF WorkLine
<1> QED BY <1>1, <1>2 DEF TableLine

\* What _recorded_tables returns.
LEMMA Recorded ==
  ASSUME StatsType, NEW f \in Files
  PROVE  /\ RecordedIn(f) \subseteq Tables
         /\ \A t \in RecordedIn(f) : \E l \in lines[f] \cap TableLine : l.table = t
         /\ \A l \in lines[f] \cap TableLine : l.table \in RecordedIn(f)
<1>1. lines[f] \subseteq TableLine \cup WorkLine
  BY DEF StatsType
<1>2. {k \in lines[f] : "table" \in DOMAIN k} = lines[f] \cap TableLine
  BY <1>1, LineKinds
<1>3. RecordedIn(f) = {l.table : l \in lines[f] \cap TableLine}
  BY <1>2 DEF RecordedIn
<1> QED BY <1>3, LineKinds

\* A connection's gathered lines are lines of its file.
LEMMA GatheredLines ==
  ASSUME StatsType, NEW n \in Conns
  PROVE  \A t \in GatheredIn(n) :
           /\ t \in RecordedIn(FileOf[n])
           /\ \E l \in lines[FileOf[n]] \cap TableLine : l.conn = n /\ l.table = t /\ l.st = "gathered"
<1> SUFFICES ASSUME NEW t \in GatheredIn(n)
             PROVE /\ t \in RecordedIn(FileOf[n])
                   /\ \E l \in lines[FileOf[n]] \cap TableLine : l.conn = n /\ l.table = t /\ l.st = "gathered"
  OBVIOUS
<1> DEFINE l == [conn |-> n, table |-> t, st |-> "gathered"]
<1>1. t \in Tables /\ l \in lines[FileOf[n]] /\ FileOf[n] \in Files
  BY StatsAssumption DEF GatheredIn
<1>2. l \in TableLine /\ l.conn = n /\ l.table = t /\ l.st = "gathered"
  BY <1>1 DEF TableLine, Statuses
<1>3. l.table \in RecordedIn(FileOf[n])
  BY <1>1, <1>2, Recorded
<1> QED BY <1>1, <1>2, <1>3

-----------------------------------------------------------------------------
(* Types. *)

\* The locals of a worker before run_one and after it.
Blank == {[Fresh EXCEPT !.pc = p] : p \in {"idle", "read", "lost"} \cup Finished}

LEMMA BlankLocals ==
  /\ Fresh \in Blank
  /\ [Fresh EXCEPT !.pc = "read"] \in Blank /\ [Fresh EXCEPT !.pc = "lost"] \in Blank
  /\ \A there \in Finished : [Fresh EXCEPT !.pc = there] \in Blank
  /\ \A e \in Blank : e \in Locals /\ InTurn(e) /\ e.pc \in {"idle", "read", "lost"} \cup Finished
<1>1. \A p \in {"idle", "read", "lost"} \cup Finished :
        LET e == [Fresh EXCEPT !.pc = p] IN e \in Locals /\ InTurn(e) /\ e.pc = p
  BY ZenonT(30) DEF Fresh, Locals, Pcs, Statuses, InTurn, Busied, Finished
<1>2. Fresh = [Fresh EXCEPT !.pc = "idle"]
  BY DEF Fresh
<1> QED BY <1>1, <1>2, ZenonT(30) DEF Blank

LEMMA Leaving ==
  ASSUME NEW w \in Workers, worker \in [Workers -> Locals],
         NEW there \in Finished, Leave(w, there)
  PROVE  /\ worker' \in [Workers -> Locals]
         /\ \A v \in Workers \ {w} : worker'[v] = worker[v]
         /\ worker'[w] \in Blank /\ worker'[w].pc = there
<1> DEFINE e == [Fresh EXCEPT !.pc = there]
<1>1. worker' = [worker EXCEPT ![w] = e]
  BY DEF Leave
<1>2. e \in Blank /\ e \in Locals /\ e.pc = there
  BY BlankLocals DEF Fresh
<1> HIDE DEF e
<1> QED BY <1>1, <1>2

LEMMA WorkerParts == \A w \in Workers : w[1] \in Runs /\ w[2] \in Conns /\ w = <<w[1], w[2]>>
BY DEF Workers

\* A step of a worker changes its own locals and no run.
LEMMA WorkerFrame ==
  ASSUME StatsType, NEW w \in Workers, WorkerStep(w) \/ Expire(w)
  PROVE  /\ w[1] \in Live /\ UNCHANGED runVars
         /\ worker' \in [Workers -> Locals]
         /\ \A v \in Workers \ {w} : worker'[v] = worker[v]
         /\ worker'[w].pc \in Busied => worker'[w].cur \in Tables
<1> USE DEF At, Go
<1>0. /\ worker \in [Workers -> Locals] /\ worker[w] \in Locals
      /\ w[1] \in Runs /\ w[2] \in Conns /\ File(w) \in Files
      /\ locked \in [Conns -> SUBSET Tables]
      /\ Tables \subseteq Nat
      /\ worker[w].pc \in Busied => worker[w].cur \in Tables
  BY WorkerParts, StatsAssumption DEF StatsType, File, Tables
<1>1. CASE ReadProgress(w)
  <2>1. RecordedIn(File(w)) \subseteq Tables
    BY <1>0, Recorded
  <2> QED BY <1>0, <1>1, <2>1 DEF ReadProgress, Locals, Pcs, Busied
<1>2. CASE Unlink(w)
  <2>1. CASE Go(w, "connect")
    BY <1>0, <1>2, <2>1 DEF Unlink, Locals, Pcs, Busied
  <2>2. CASE Leave(w, "raised")
    BY <1>0, <1>2, <2>2, Leaving DEF Unlink, Busied, Finished
  <2> QED BY <1>2, <2>1, <2>2 DEF Unlink
<1>3. CASE Connect(w) \/ EndOfList(w) \/ Fail(w) \/ Record(w)
  BY <1>0, <1>3 DEF Connect, EndOfList, Fail, Record, Locals, Pcs, Busied
<1>4. CASE ListTables(w)
  <2>1. Listing(w[1], w[2]) \subseteq Tables
    BY <1>0 DEF Listing, Interrupted
  <2> QED BY <1>0, <1>4, <2>1 DEF ListTables, Locals, Pcs, Busied
<1>5. CASE NextTable(w)
  BY <1>0, <1>5 DEF NextTable, Begun, Locals, Pcs, Busied, Statuses
<1>6. CASE UnlockStatistics(w) \/ Gather(w) \/ TableFails(w)
  BY <1>0, <1>6 DEF UnlockStatistics, Gather, TableFails, Locals, Pcs, Busied, Statuses
<1>7. CASE Close(w) \/ FailLine(w)
  <2>1. PICK there \in Finished : Leave(w, there)
    BY <1>7 DEF Close, FailLine, Finished
  <2> QED BY <1>0, <1>7, <2>1, Leaving DEF Close, FailLine, Busied, Finished
<1>8. CASE Expire(w)
  BY <1>0, <1>8 DEF Expire, Locals, Pcs, Busied
<1> QED BY <1>1, <1>2, <1>3, <1>4, <1>5, <1>6, <1>7, <1>8 DEF WorkerStep

\* A worker's step writes to its own file only; it shortens no file but the one it removes.
LEMMA LinesFrame ==
  ASSUME StatsType, NEW w \in Workers, WorkerStep(w) \/ Expire(w)
  PROVE  /\ lines' \in [Files -> SUBSET (TableLine \cup WorkLine)]
         /\ \A f \in Files \ {File(w)} : lines'[f] = lines[f]
         /\ worker[w].pc # "unlink" => lines[File(w)] \subseteq lines'[File(w)]
         /\ worker[w].pc = "unlink" => lines'[File(w)] = {}
<1>0. /\ lines \in [Files -> SUBSET (TableLine \cup WorkLine)]
      /\ File(w) \in Files /\ w[2] \in Conns /\ worker[w] \in Locals
      /\ worker[w].pc = "record" => worker[w].cur \in Tables
  BY WorkerParts, StatsAssumption DEF StatsType, File, Busied
<1>1. CASE Unlink(w)
  BY <1>0, <1>1 DEF Unlink, At
<1>2. CASE Record(w)
  <2> DEFINE l == [conn |-> w[2], table |-> worker[w].cur, st |-> worker[w].st]
  <2>1. l \in TableLine /\ worker[w].pc = "record"
    BY <1>0, <1>2 DEF Record, At, Locals, TableLine
  <2>2. lines' = [lines EXCEPT ![File(w)] = @ \cup {l}]
    BY <1>2 DEF Record
  <2> HIDE DEF l
  <2> QED BY <1>0, <2>1, <2>2
<1>3. CASE FailLine(w)
  <2> DEFINE l == [conn |-> w[2], failed |-> TRUE]
  <2>1. l \in WorkLine /\ worker[w].pc = "failLine"
    BY <1>0, <1>3 DEF FailLine, At, WorkLine
  <2>2. lines' = [lines EXCEPT ![File(w)] = @ \cup {l}] \/ lines' = lines
    BY <1>3 DEF FailLine
  <2> HIDE DEF l
  <2> QED BY <1>0, <2>1, <2>2
<1>4. CASE /\ ~Unlink(w) /\ ~Record(w) /\ ~FailLine(w)
  <2>1. lines' = lines /\ worker[w].pc # "unlink"
    BY <1>4 DEF WorkerStep, Expire, ReadProgress, Connect, ListTables, NextTable, UnlockStatistics,
             Gather, TableFails, EndOfList, Close, Fail, At, fileVars
  <2> QED BY <1>0, <2>1
<1> QED BY <1>1, <1>2, <1>3, <1>4

LEMMA DatabaseFrame ==
  ASSUME StatsType, NEW w \in Workers, WorkerStep(w) \/ Expire(w)
  PROVE  /\ locked' \in [Conns -> SUBSET Tables] /\ fresh' \in [Conns -> SUBSET Tables]
         /\ \A n \in Conns : fresh[n] \subseteq fresh'[n]
<1>0. /\ locked \in [Conns -> SUBSET Tables] /\ fresh \in [Conns -> SUBSET Tables]
      /\ w[2] \in Conns /\ worker[w].pc \in Busied => worker[w].cur \in Tables
  BY WorkerParts DEF StatsType
<1>1. CASE UnlockStatistics(w) \/ Gather(w) \/ TableFails(w)
  BY <1>0, <1>1 DEF UnlockStatistics, Gather, TableFails, At, Busied
<1>2. CASE UNCHANGED dbVars
  BY <1>0, <1>2 DEF dbVars
<1> QED
  BY <1>1, <1>2 DEF WorkerStep, Expire, ReadProgress, Unlink, Connect, ListTables, NextTable, Record,
                    EndOfList, Close, Fail, FailLine

\* A step that ends runs, or begins none, takes no worker further.
Retreat ==
  \/ \E r \in Runs : AlreadyRunning(r) \/ EndRun(r) \/ PrepareFails(r)
  \/ \E p \in Procs : Crash(p)

LEMMA RetreatFrame ==
  ASSUME StatsType, Retreat
  PROVE  /\ run' \in [Runs -> {"idle", "live", "refused", "result", "error", "lost"}]
         /\ UNCHANGED <<want, beside, was, lines, locked>>
         /\ Live' \subseteq Live
         /\ DOMAIN worker' = Workers
         /\ \A w \in Workers :
              /\ worker'[w] = worker[w] \/ worker'[w] \in Blank
              /\ worker'[w] # worker[w] => w[1] \notin Live' /\ worker'[w].pc \in {"idle", "lost"}
              /\ run'[w[1]] = "idle" => run[w[1]] = "idle" /\ worker'[w] = worker[w]
         /\ fresh' \in [Conns -> SUBSET Tables] /\ \A n \in Conns : fresh[n] \subseteq fresh'[n]
<1>0. /\ worker \in [Workers -> Locals] /\ fresh \in [Conns -> SUBSET Tables]
      /\ run \in [Runs -> {"idle", "live", "refused", "result", "error", "lost"}]
      /\ \A w \in Workers : w[1] \in Runs
      /\ \A w \in Workers : worker[w].pc \in Busied => worker[w].cur \in Tables
  BY WorkerParts DEF StatsType
<1>1. ASSUME NEW r \in Runs, AlreadyRunning(r) \/ EndRun(r)
      PROVE  /\ UNCHANGED <<want, beside, was, lines, locked, fresh, worker>>
             /\ run' \in [Runs -> {"idle", "live", "refused", "result", "error", "lost"}]
             /\ \A q \in Runs : run'[q] # run[q] => run'[q] \notin {"live", "idle"}
  BY <1>0, <1>1 DEF AlreadyRunning, EndRun, fileVars, dbVars
<1>2. ASSUME NEW r \in Runs, PrepareFails(r)
      PROVE  /\ UNCHANGED <<want, beside, was, lines, locked, fresh>>
             /\ run' \in [Runs -> {"idle", "live", "refused", "result", "error", "lost"}]
             /\ run[r] = "live" /\ run'[r] = "error" /\ \A q \in Runs \ {r} : run'[q] = run[q]
             /\ DOMAIN worker' = Workers
             /\ \A w \in Workers : worker'[w] = IF w[1] = r THEN Fresh ELSE worker[w]
  BY <1>0, <1>2 DEF PrepareFails, fileVars, dbVars, Live
<1>3. Fresh \in Blank /\ Fresh.pc = "idle"
  BY BlankLocals DEF Fresh
<1>4. ASSUME NEW p \in Procs, Crash(p)
      PROVE  /\ UNCHANGED <<want, beside, was, lines, locked>>
             /\ run' \in [Runs -> {"idle", "live", "refused", "result", "error", "lost"}]
             /\ \A q \in Runs : run'[q] # run[q] => run[q] = "live" /\ run'[q] = "lost"
             /\ DOMAIN worker' = Workers
             /\ \A w \in Workers :
                  worker'[w] # worker[w] => /\ worker'[w] = [Fresh EXCEPT !.pc = "lost"]
                                            /\ run[w[1]] = "live" /\ run'[w[1]] = "lost"
  BY <1>0, <1>4 DEF Crash, Live
<1>5. [Fresh EXCEPT !.pc = "lost"] \in Blank /\ [Fresh EXCEPT !.pc = "lost"].pc = "lost"
  BY BlankLocals DEF Fresh
<1>6. ASSUME NEW p \in Procs, Crash(p)
      PROVE  fresh' \in [Conns -> SUBSET Tables] /\ \A n \in Conns : fresh[n] \subseteq fresh'[n]
  <2> DEFINE busy(n) == {worker[w].cur : w \in {v \in Workers : v[1] \in {r \in Live : want[r].proc = p}
                                             /\ v[2] = n /\ At(v, "gather")}} \ locked[n]
  <2>1. PICK on \in BOOLEAN : fresh' = [n \in Conns |-> fresh[n] \cup IF on THEN busy(n) ELSE {}]
    BY <1>6 DEF Crash
  <2>2. \A n \in Conns : busy(n) \subseteq Tables
    BY <1>0 DEF At, Busied
  <2> HIDE DEF busy
  <2> QED BY <1>0, <2>1, <2>2
<1>7. CASE \E r \in Runs : AlreadyRunning(r) \/ EndRun(r)
  BY <1>0, <1>1, <1>7 DEF Live
<1>8. CASE \E r \in Runs : PrepareFails(r)
  BY <1>0, <1>2, <1>3, <1>8 DEF Live
<1>9. CASE \E p \in Procs : Crash(p)
  <2>1. PICK p \in Procs : Crash(p)
    BY <1>9
  <2> HIDE DEF Crash
  <2>2. Live' \subseteq Live
    BY <1>0, <1>4, <2>1 DEF Live
  <2>3. \A w \in Workers :
              /\ worker'[w] = worker[w] \/ worker'[w] \in Blank
              /\ worker'[w] # worker[w] => w[1] \notin Live' /\ worker'[w].pc \in {"idle", "lost"}
              /\ run'[w[1]] = "idle" => run[w[1]] = "idle" /\ worker'[w] = worker[w]
    BY <1>0, <1>4, <1>5, <2>1 DEF Live
  <2> QED BY <1>4, <1>6, <2>1, <2>2, <2>3
<1> QED BY <1>7, <1>8, <1>9 DEF Retreat

\* A run that starts puts its workers where they read the progress.
LEMMA StartFrame ==
  ASSUME StatsType, IdleIsFresh, NEW r \in Runs, StartBackground(r)
  PROVE  /\ run[r] = "idle" /\ run'[r] = "live" /\ \A q \in Runs \ {r} : run'[q] = run[q]
         /\ run' \in [Runs -> {"idle", "live", "refused", "result", "error", "lost"}]
         /\ UNCHANGED <<want, lines, locked, fresh>>
         /\ r \notin Live /\ Live' = Live \cup {r}
         /\ DOMAIN worker' = Workers
         /\ \A w \in Workers : /\ w[1] # r => worker'[w] = worker[w]
                               /\ w[1] = r => worker'[w] \in Blank /\ worker'[w].pc \in {"idle", "read"}
<1>0. /\ run \in [Runs -> {"idle", "live", "refused", "result", "error", "lost"}]
      /\ \A w \in Workers : w[1] = r => worker[w] = Fresh
  BY WorkerParts DEF StatsType, IdleIsFresh, StartBackground
<1>1. /\ Fresh \in Blank /\ Fresh.pc = "idle"
      /\ [Fresh EXCEPT !.pc = "read"] \in Blank /\ [Fresh EXCEPT !.pc = "read"].pc = "read"
  BY BlankLocals DEF Fresh
<1> DEFINE e == [Fresh EXCEPT !.pc = "read"]
<1>2. worker' = [w \in Workers |-> IF w[1] = r /\ w[2] \in want[r].conns THEN e ELSE worker[w]]
  BY DEF StartBackground
<1>3. e \in Blank /\ e.pc = "read"
  BY <1>1
<1> HIDE DEF e
<1>4. \A w \in Workers : /\ w[1] # r => worker'[w] = worker[w]
                         /\ w[1] = r => worker'[w] \in Blank /\ worker'[w].pc \in {"idle", "read"}
  BY <1>0, <1>1, <1>2, <1>3
<1> QED BY <1>0, <1>2, <1>4 DEF StartBackground, Live, fileVars, dbVars

LEMMA StepKinds ==
  ASSUME [Next]_vars
  PROVE  \/ \E r \in Runs : StartBackground(r)
         \/ Retreat
         \/ \E w \in Workers : WorkerStep(w) \/ Expire(w)
         \/ UNCHANGED vars
BY DEF Next, Retreat

-----------------------------------------------------------------------------
(* The invariant holds at first and every step keeps its parts. *)

LEMMA InitInv == Init => StatsInv
<1> SUFFICES ASSUME Init PROVE StatsInv
  OBVIOUS
<1>1. /\ \A w \in Workers : worker[w] = Fresh /\ w[1] \in Runs
      /\ Fresh \in Locals /\ InTurn(Fresh) /\ Fresh.pc = "idle"
      /\ Live = {}
  BY BlankLocals, WorkerParts DEF Init, Live, Fresh
<1>2. StatsType
  BY <1>1 DEF Init, StatsType, Busied
<1>3. IdleIsFresh /\ LiveApart /\ OpensInTurn /\ ResumeSkips /\ AllAccounted
  BY <1>1 DEF IdleIsFresh, LiveApart, OpensInTurn, ResumeSkips, AllAccounted
<1>4. RecordsAreTrue /\ UnlinkAnew
  BY <1>1 DEF Init, RecordsAreTrue, UnlinkAnew
<1> QED BY <1>2, <1>3, <1>4 DEF StatsInv

LEMMA TypeStep ==
  ASSUME StatsType, IdleIsFresh, [Next]_vars
  PROVE  StatsType'
<1>1. CASE \E r \in Runs : StartBackground(r)
  <2>1. PICK r \in Runs : StartBackground(r)
    BY <1>1
  <2>2. beside' \in [Runs -> SUBSET Runs] /\ was' \in [Runs -> SUBSET (Conns \X Tables)]
    BY <2>1 DEF StatsType, StartBackground, Live
  <2>3. \A w \in Workers : worker'[w] \in Locals /\ (worker'[w].pc \in Busied => worker'[w].cur \in Tables)
    BY <2>1, StartFrame, BlankLocals DEF StatsType, Busied
  <2>4. worker' \in [Workers -> Locals]
    BY <2>1, <2>3 DEF StartBackground
  <2> QED BY <2>1, <2>2, <2>3, <2>4, StartFrame DEF StatsType
<1>2. CASE Retreat
  <2>1. \A w \in Workers : worker'[w] \in Locals /\ (worker'[w].pc \in Busied => worker'[w].cur \in Tables)
    BY <1>2, RetreatFrame, BlankLocals DEF StatsType, Busied
  <2>2. worker' \in [Workers -> Locals]
    <3>1. CASE \E r \in Runs : AlreadyRunning(r) \/ EndRun(r)
      BY <3>1 DEF AlreadyRunning, EndRun, StatsType
    <3>2. CASE \E r \in Runs : PrepareFails(r)
      BY <3>2, <2>1 DEF PrepareFails
    <3>3. CASE \E p \in Procs : Crash(p)
      BY <3>3, <2>1 DEF Crash
    <3> QED BY <1>2, <3>1, <3>2, <3>3 DEF Retreat
  <2> QED BY <1>2, <2>1, <2>2, RetreatFrame DEF StatsType
<1>3. CASE \E w \in Workers : WorkerStep(w) \/ Expire(w)
  <2>1. PICK w \in Workers : WorkerStep(w) \/ Expire(w)
    BY <1>3
  <2>2. /\ UNCHANGED runVars /\ worker' \in [Workers -> Locals]
        /\ \A v \in Workers : worker'[v].pc \in Busied => worker'[v].cur \in Tables
    BY <2>1, WorkerFrame DEF StatsType
  <2>3. lines' \in [Files -> SUBSET (TableLine \cup WorkLine)]
    BY <2>1, LinesFrame
  <2>4. locked' \in [Conns -> SUBSET Tables] /\ fresh' \in [Conns -> SUBSET Tables]
    BY <2>1, DatabaseFrame
  <2> QED BY <2>2, <2>3, <2>4 DEF StatsType, runVars
<1>4. CASE UNCHANGED vars
  BY <1>4 DEF StatsType, vars, runVars, fileVars, dbVars
<1> QED BY <1>1, <1>2, <1>3, <1>4, StepKinds

LEMMA IdleStep ==
  ASSUME StatsType, IdleIsFresh, [Next]_vars
  PROVE  IdleIsFresh'
<1>1. CASE \E r \in Runs : StartBackground(r)
  BY <1>1, StartFrame, WorkerParts DEF IdleIsFresh
<1>2. CASE Retreat
  BY <1>2, RetreatFrame DEF IdleIsFresh
<1>3. CASE \E w \in Workers : WorkerStep(w) \/ Expire(w)
  <2>1. PICK w \in Workers : WorkerStep(w) \/ Expire(w)
    BY <1>3
  <2>2. w[1] \in Live /\ run' = run /\ \A v \in Workers \ {w} : worker'[v] = worker[v]
    BY <2>1, WorkerFrame DEF runVars
  <2> QED BY <2>2 DEF IdleIsFresh, Live
<1>4. CASE UNCHANGED vars
  BY <1>4 DEF IdleIsFresh, vars, runVars
<1> QED BY <1>1, <1>2, <1>3, <1>4, StepKinds

LEMMA ApartStep ==
  ASSUME StatsType, IdleIsFresh, LiveApart, [Next]_vars
  PROVE  LiveApart'
<1>1. CASE \E r \in Runs : StartBackground(r)
  <2>1. PICK r \in Runs : StartBackground(r)
    BY <1>1
  <2>2. /\ beside' = [q \in Runs |-> IF q = r THEN Live
                               ELSE IF q \in Live THEN beside[q] \cup {r} ELSE beside[q]]
        /\ \A q \in Live : want[q].proc # want[r].proc
    BY <2>1 DEF StartBackground, Busy
  <2>3. Live' = Live \cup {r} /\ want' = want /\ Live \subseteq Runs
    BY <2>1, StartFrame DEF Live
  <2> QED BY <2>2, <2>3 DEF LiveApart
<1>2. CASE Retreat
  BY <1>2, RetreatFrame DEF LiveApart
<1>3. CASE \E w \in Workers : WorkerStep(w) \/ Expire(w)
  <2>1. UNCHANGED <<run, want, beside>>
    BY <1>3, WorkerFrame DEF runVars
  <2> QED BY <2>1 DEF LiveApart, Live
<1>4. CASE UNCHANGED vars
  BY <1>4 DEF LiveApart, Live, vars, runVars
<1> QED BY <1>1, <1>2, <1>3, <1>4, StepKinds

\* What a worker takes up next: a table it has before it, skipped, left out or begun.
LEMMA Taking ==
  ASSUME NEW w \in Workers, worker \in [Workers -> Locals], NextTable(w)
  PROVE  /\ worker[w].pc = "next"
         /\ \E t \in worker[w].todo :
              /\ worker'[w].cur = t /\ worker'[w].todo = worker[w].todo \ {t}
              /\ worker'[w].skip = worker[w].skip /\ worker'[w].listed = worker[w].listed
              /\ worker'[w].opened = worker[w].opened
              /\ \/ t \in worker[w].skip /\ worker'[w].pc = "next"
                 \/ t \notin worker[w].skip /\ worker'[w].pc = "record" /\ worker'[w].st = "not_started"
                 \/ t \notin worker[w].skip /\ worker'[w].pc \in {"unlock", "gather"}
<1>1. worker[w] \in Locals /\ worker[w].pc = "next"
  BY DEF NextTable, At
<1>2. PICK t \in worker[w].todo :
       \/ /\ t \in worker[w].skip
          /\ Begun(w, t, "next")
       \/ /\ t \notin worker[w].skip
          /\ worker' = [worker EXCEPT ![w].pc = "record", ![w].cur = t, ![w].todo = @ \ {t},
                                      ![w].st = "not_started", ![w].stop = TRUE]
       \/ /\ t \notin worker[w].skip
          /\ Begun(w, t, IF want[w[1]].unlock THEN "unlock" ELSE "gather")
  BY DEF NextTable
<1> QED BY <1>1, <1>2 DEF Begun, Locals

LEMMA AnewStep ==
  ASSUME StatsType, IdleIsFresh, UnlinkAnew, [Next]_vars
  PROVE  UnlinkAnew'
<1>1. CASE \E r \in Runs : StartBackground(r)
  BY <1>1, StartFrame DEF UnlinkAnew
<1>2. CASE Retreat
  <2>1. want' = want /\ \A w \in Workers : worker'[w] = worker[w] \/ worker'[w].pc \in {"idle", "lost"}
    BY <1>2, RetreatFrame
  <2> QED BY <2>1 DEF UnlinkAnew
<1>3. CASE \E w \in Workers : WorkerStep(w) \/ Expire(w)
  <2>1. PICK w \in Workers : WorkerStep(w) \/ Expire(w)
    BY <1>3
  <2>2. want' = want /\ \A v \in Workers \ {w} : worker'[v] = worker[v]
    BY <2>1, WorkerFrame DEF runVars
  <2>3. worker'[w].pc = "unlink" => worker[w].pc = "unlink" \/ ~want[w[1]].resume
    <3>0. worker \in [Workers -> Locals]
      BY DEF StatsType
    <3>1. CASE ReadProgress(w) \/ Connect(w) \/ EndOfList(w) \/ Fail(w) \/ Record(w) \/ Expire(w)
      BY <3>0, <3>1 DEF ReadProgress, Connect, EndOfList, Fail, Record, Expire, Go, Locals
    <3>2. CASE ListTables(w) \/ UnlockStatistics(w) \/ Gather(w) \/ TableFails(w)
      BY <3>0, <3>2 DEF ListTables, UnlockStatistics, Gather, TableFails, Locals
    <3>5. CASE NextTable(w)
      BY <3>0, <3>5, Taking
    <3>3. CASE Unlink(w)
      BY <3>3 DEF Unlink, At
    <3>4. CASE Close(w) \/ FailLine(w)
      <4>1. PICK there \in Finished : Leave(w, there)
        BY <3>4 DEF Close, FailLine, Finished
      <4> QED BY <3>0, <4>1, Leaving DEF Finished
    <3> QED BY <2>1, <3>1, <3>2, <3>3, <3>4, <3>5 DEF WorkerStep
  <2> QED BY <2>2, <2>3 DEF UnlinkAnew
<1>4. CASE UNCHANGED vars
  BY <1>4 DEF UnlinkAnew, vars, runVars
<1> QED BY <1>1, <1>2, <1>3, <1>4, StepKinds

\* The order in which a worker takes its tables, whatever else it does.
LEMMA TurnStep ==
  ASSUME StatsType, IdleIsFresh, OpensInTurn, [Next]_vars
  PROVE  OpensInTurn'
<1>1. CASE \E r \in Runs : StartBackground(r)
  BY <1>1, StartFrame, BlankLocals DEF OpensInTurn
<1>2. CASE Retreat
  BY <1>2, RetreatFrame, BlankLocals DEF OpensInTurn
<1>3. CASE \E w \in Workers : WorkerStep(w) \/ Expire(w)
  <2>1. PICK w \in Workers : WorkerStep(w) \/ Expire(w)
    BY <1>3
  <2>2. \A v \in Workers \ {w} : worker'[v] = worker[v]
    BY <2>1, WorkerFrame
  <2>3. InTurn(worker'[w])
    <3>0. /\ worker \in [Workers -> Locals] /\ worker[w] \in Locals /\ InTurn(worker[w])
          /\ worker[w].pc \in Busied => worker[w].cur \in Tables
      BY DEF StatsType, OpensInTurn
    <3>1. CASE ReadProgress(w)
      BY <3>0, <3>1 DEF ReadProgress, At, Go, InTurn, Locals, Busied
    <3>2. CASE Connect(w) \/ EndOfList(w) \/ Fail(w) \/ Record(w) \/ Expire(w)
      BY <3>0, <3>2 DEF Connect, EndOfList, Fail, Record, Expire, At, Go, InTurn, Locals, Busied
    <3>3. CASE ListTables(w)
      BY <3>0, <3>3 DEF ListTables, At, InTurn, Locals, Busied
    <3>4. CASE NextTable(w)
      BY <3>0, <3>4 DEF NextTable, Begun, TimeIsUp, At, InTurn, Locals, Busied
    <3>5. CASE UnlockStatistics(w)
      BY <3>0, <3>5 DEF UnlockStatistics, At, InTurn, Locals, Busied
    <3>6. CASE Gather(w)
      BY <3>0, <3>6 DEF Gather, At, InTurn, Locals, Busied
    <3>7. CASE TableFails(w)
      BY <3>0, <3>7 DEF TableFails, At, InTurn, Locals, Busied
    <3>8. CASE Unlink(w) /\ Go(w, "connect")
      BY <3>0, <3>8 DEF Unlink, At, Go, InTurn, Locals, Busied
    <3>9. ASSUME NEW there \in Finished, Leave(w, there) PROVE InTurn(worker'[w])
      BY <3>0, <3>9, Leaving, BlankLocals
    <3> QED
      BY <2>1, <3>1, <3>2, <3>3, <3>4, <3>5, <3>6, <3>7, <3>8, <3>9
         DEF WorkerStep, Unlink, Close, FailLine, Finished
  <2> QED BY <2>2, <2>3 DEF OpensInTurn
<1>4. CASE UNCHANGED vars
  BY <1>4 DEF OpensInTurn, vars
<1> QED BY <1>1, <1>2, <1>3, <1>4, StepKinds

\* A gather ends before its line is written, and what is gathered stays so.
LEMMA TrueStep ==
  ASSUME StatsType, StatsType', IdleIsFresh, RecordsAreTrue, [Next]_vars
  PROVE  RecordsAreTrue'
<1>0. \A f \in Files : \A l \in lines[f] \cap TableLine :
        l.conn \in Conns /\ (l.st = "gathered" => l.table \in fresh[l.conn])
  BY LineKinds DEF RecordsAreTrue
<1>1. CASE \E r \in Runs : StartBackground(r)
  <2>1. /\ fresh' = fresh /\ lines' = lines
        /\ \A w \in Workers : worker'[w] = worker[w] \/ worker'[w].pc \in {"idle", "read"}
    BY <1>1, StartFrame
  <2> QED BY <2>1 DEF RecordsAreTrue
<1>2. CASE Retreat
  <2>1. /\ lines' = lines /\ \A n \in Conns : fresh[n] \subseteq fresh'[n]
        /\ \A w \in Workers : worker'[w] = worker[w] \/ worker'[w].pc \in {"idle", "lost"}
    BY <1>2, RetreatFrame
  <2> QED BY <1>0, <2>1, WorkerParts DEF RecordsAreTrue
<1>3. CASE \E w \in Workers : WorkerStep(w) \/ Expire(w)
  <2>1. PICK w \in Workers : WorkerStep(w) \/ Expire(w)
    BY <1>3
  <2>2. /\ \A v \in Workers \ {w} : worker'[v] = worker[v]
        /\ \A n \in Conns : fresh[n] \subseteq fresh'[n]
    BY <2>1, WorkerFrame, DatabaseFrame
  <2>3. worker'[w].pc = "record" /\ worker'[w].st = "gathered" => worker'[w].cur \in fresh'[w[2]]
    <3>0. /\ worker \in [Workers -> Locals] /\ w[2] \in Conns /\ fresh \in [Conns -> SUBSET Tables]
          /\ worker[w].pc = "record" /\ worker[w].st = "gathered" => worker[w].cur \in fresh'[w[2]]
      BY <2>2, WorkerParts DEF StatsType, RecordsAreTrue
    <3>1. CASE ReadProgress(w) \/ Connect(w) \/ EndOfList(w) \/ Fail(w) \/ Record(w) \/ Expire(w)
      BY <3>0, <3>1 DEF ReadProgress, Connect, EndOfList, Fail, Record, Expire, Go, Locals
    <3>2. CASE ListTables(w) \/ UnlockStatistics(w) \/ TableFails(w)
      BY <3>0, <3>2 DEF ListTables, UnlockStatistics, TableFails, Locals
    <3>6. CASE NextTable(w)
      BY <3>0, <3>6, Taking
    <3>3. CASE Gather(w)
      BY <3>0, <3>3 DEF Gather, Locals
    <3>4. CASE Unlink(w) /\ Go(w, "connect")
      BY <3>0, <3>4 DEF Go, Locals
    <3>5. ASSUME NEW there \in Finished, Leave(w, there) PROVE worker'[w].pc # "record"
      BY <3>0, <3>5, Leaving DEF Finished
    <3> QED
      BY <2>1, <3>1, <3>2, <3>3, <3>4, <3>5, <3>6 DEF WorkerStep, Unlink, Close, FailLine, Finished
  <2>4. ASSUME NEW f \in Files, NEW l \in lines'[f] \cap TableLine, l.st = "gathered"
        PROVE  l.table \in fresh'[l.conn]
    <3>1. CASE l \in lines[f]
      BY <1>0, <2>2, <2>4, <3>1
    <3>2. CASE l \notin lines[f]
      <4>0. lines \in [Files -> SUBSET (TableLine \cup WorkLine)] /\ File(w) \in Files /\ w[2] \in Conns
        BY WorkerParts, StatsAssumption DEF StatsType, File
      <4>1. Record(w) \/ FailLine(w)
        BY <2>1, <2>4, <3>2, <4>0 DEF WorkerStep, Expire, ReadProgress, Unlink, Connect, ListTables,
           NextTable, UnlockStatistics, Gather, TableFails, EndOfList, Close, Fail, fileVars
      <4>2. CASE Record(w)
        <5> DEFINE k == [conn |-> w[2], table |-> worker[w].cur, st |-> worker[w].st]
        <5>1. lines' = [lines EXCEPT ![File(w)] = @ \cup {k}] /\ worker[w].pc = "record"
          BY <4>2 DEF Record, At
        <5>2. k.st = worker[w].st /\ k.table = worker[w].cur /\ k.conn = w[2]
          OBVIOUS
        <5> HIDE DEF k
        <5>3. l = k
          BY <2>4, <3>2, <4>0, <5>1
        <5>4. worker[w].cur \in fresh[w[2]]
          BY <2>4, <5>1, <5>2, <5>3 DEF RecordsAreTrue
        <5> QED BY <2>2, <4>0, <5>2, <5>3, <5>4
      <4>3. CASE FailLine(w)
        <5> DEFINE k == [conn |-> w[2], failed |-> TRUE]
        <5>1. lines' = [lines EXCEPT ![File(w)] = @ \cup {k}] \/ lines' = lines
          BY <4>3 DEF FailLine
        <5>2. k \in WorkLine
          BY <4>0 DEF WorkLine
        <5> HIDE DEF k
        <5>3. l = k
          BY <2>4, <3>2, <4>0, <5>1
        <5> QED BY <2>4, <5>2, <5>3, LineKinds
      <4> QED BY <4>1, <4>2, <4>3
    <3> QED BY <3>1, <3>2
  <2>5. \A v \in Workers : worker'[v].pc = "record" /\ worker'[v].st = "gathered" => worker'[v].cur \in fresh'[v[2]]
    BY <2>2, <2>3, WorkerParts DEF RecordsAreTrue
  <2> QED BY <2>4, <2>5 DEF RecordsAreTrue
<1>4. CASE UNCHANGED vars
  BY <1>4 DEF RecordsAreTrue, vars, fileVars, dbVars
<1> QED BY <1>1, <1>2, <1>3, <1>4, StepKinds

-----------------------------------------------------------------------------
(* A run beside which no other process runs. *)

LEMMA Alone ==
  ASSUME LiveApart, NEW q \in Live, NEW r \in Live, NoOtherProcess(r)
  PROVE  q = r
BY DEF LiveApart, NoOtherProcess

LEMMA StartAlone ==
  ASSUME StatsType, IdleIsFresh, NEW r \in Runs, StartBackground(r), NEW q \in Live', NoOtherProcess(q)'
  PROVE  q = r
<1> SUFFICES ASSUME q # r PROVE FALSE
  OBVIOUS
<1>1. q \in Live /\ q \in Runs /\ want' = want /\ want[q].proc # want[r].proc
  BY StartFrame DEF StartBackground, Busy, Live
<1>2. r \in beside'[q]
  BY <1>1 DEF StartBackground
<1> QED BY <1>1, <1>2 DEF NoOtherProcess

LEMMA GatheredGrows ==
  ASSUME StatsType, NEW w \in Workers, WorkerStep(w) \/ Expire(w), worker[w].pc # "unlink"
  PROVE  \A n \in Conns : GatheredIn(n) \subseteq GatheredIn(n)'
<1>1. \A f \in Files : lines[f] \subseteq lines'[f]
  BY LinesFrame
<1> QED BY <1>1, StatsAssumption DEF GatheredIn

LEMMA SkipsStep ==
  ASSUME StatsType, IdleIsFresh, LiveApart, UnlinkAnew, ResumeSkips, [Next]_vars
  PROVE  ResumeSkips'
<1>1. CASE \E r \in Runs : StartBackground(r)
  <2>1. PICK r \in Runs : StartBackground(r)
    BY <1>1
  <2> SUFFICES ASSUME NEW w \in Workers, w[1] \in Live', NoOtherProcess(w[1])'
               PROVE  Skips(w)'
    BY DEF ResumeSkips
  <2>2. w[1] = r /\ w[2] \in Conns /\ worker'[w].pc \in {"idle", "read"}
    BY <2>1, StartAlone, StartFrame, WorkerParts
  <2>3. was'[r] = {x \in Conns \X Tables : x[2] \in GatheredIn(x[1])}
    BY <2>1 DEF StartBackground, StatsType
  <2>4. GatheredIn(w[2])' = GatheredIn(w[2])
    BY <2>1, StartFrame DEF GatheredIn
  <2>5. Known(w)' \subseteq GatheredIn(w[2])'
    BY <2>2, <2>3, <2>4 DEF Known
  <2> QED BY <2>2, <2>5 DEF Skips, Busied
<1>2. CASE Retreat
  <2> SUFFICES ASSUME NEW w \in Workers, w[1] \in Live', want'[w[1]].resume, NoOtherProcess(w[1])'
               PROVE  Skips(w)'
    BY DEF ResumeSkips
  <2>1. w[1] \in Live /\ worker'[w] = worker[w] /\ UNCHANGED <<want, beside, was, lines>>
    BY <1>2, RetreatFrame
  <2>2. Skips(w)
    BY <2>1 DEF ResumeSkips, NoOtherProcess
  <2> QED BY <2>1, <2>2 DEF Skips, Known, GatheredIn
<1>3. CASE \E w \in Workers : WorkerStep(w) \/ Expire(w)
  <2>1. PICK w \in Workers : WorkerStep(w) \/ Expire(w)
    BY <1>3
  <2>2. /\ w[1] \in Live /\ UNCHANGED <<run, want, beside, was>>
        /\ \A v \in Workers \ {w} : worker'[v] = worker[v]
    BY <2>1, WorkerFrame DEF runVars
  <2> SUFFICES ASSUME NEW v \in Workers, v[1] \in Live, want[v[1]].resume, NoOtherProcess(v[1]), Skips(v)
               PROVE  Skips(v)'
    BY <2>2 DEF ResumeSkips, Live, NoOtherProcess
  <2>3. v[1] = w[1] /\ v[2] \in Conns /\ Known(v)' = Known(v) /\ worker[w].pc # "unlink"
    BY <2>2, Alone, WorkerParts DEF Known, UnlinkAnew
  <2>4. GatheredIn(v[2]) \subseteq GatheredIn(v[2])'
    BY <2>1, <2>3, GatheredGrows
  <2>5. CASE v # w
    BY <2>2, <2>3, <2>4, <2>5 DEF Skips
  <2>6. CASE v = w
    <3>0. /\ worker \in [Workers -> Locals] /\ worker[w] \in Locals
          /\ Skips(w) /\ Known(w)' = Known(w)
      BY <2>3, <2>6 DEF StatsType
    <3>1. CASE ReadProgress(w)
      <4>1. Known(w) \subseteq RecordedIn(File(w))
        BY <2>3, <2>6, <3>1, GatheredLines DEF ReadProgress, At, Skips, File
      <4> QED BY <2>6, <3>0, <3>1, <4>1 DEF ReadProgress, Skips, Locals, Busied
    <3>2. CASE Connect(w) \/ EndOfList(w) \/ Fail(w) \/ Record(w) \/ Expire(w)
      <4>1. /\ worker'[w].skip = worker[w].skip /\ worker'[w].cur = worker[w].cur
            /\ worker'[w].pc \in {"list", "next", "close", "failLine", worker[w].pc}
            /\ worker'[w].pc \in {"list", "next"} => worker[w].pc \in {"connect", "list", "next"} \cup Busied
        BY <3>0, <3>2 DEF Connect, EndOfList, Fail, Record, Expire, At, Go, Locals, Busied
      <4> QED BY <2>4, <2>6, <3>0, <4>1 DEF Skips, Busied
    <3>3. CASE ListTables(w) \/ UnlockStatistics(w) \/ Gather(w) \/ TableFails(w)
      <4>1. /\ worker'[w].skip = worker[w].skip /\ worker'[w].cur = worker[w].cur
            /\ worker'[w].pc \in {"next", "gather", "record"}
            /\ worker[w].pc \in {"list", "unlock", "gather"}
            /\ worker'[w].pc = "gather" => worker[w].pc = "unlock"
        BY <3>0, <3>3 DEF ListTables, UnlockStatistics, Gather, TableFails, At, Locals
      <4> QED BY <2>6, <3>0, <4>1 DEF Skips, Busied
    <3>4. CASE NextTable(w)
      BY <2>6, <3>0, <3>4, Taking DEF Skips, Busied
    <3>5. ASSUME NEW there \in Finished, Leave(w, there) PROVE Skips(w)'
      BY <3>0, <3>5, Leaving DEF Skips, Finished, Busied
    <3> QED
      BY <2>1, <2>3, <2>6, <3>1, <3>2, <3>3, <3>4, <3>5
         DEF WorkerStep, Unlink, At, Close, FailLine, Finished
  <2> QED BY <2>5, <2>6
<1>4. CASE UNCHANGED vars
  BY <1>4 DEF ResumeSkips, Skips, Known, GatheredIn, Live, NoOtherProcess, vars, runVars, fileVars
<1> QED BY <1>1, <1>2, <1>3, <1>4, StepKinds

LEMMA AccountsStep ==
  ASSUME StatsType, IdleIsFresh, LiveApart, OpensInTurn, AllAccounted, [Next]_vars
  PROVE  AllAccounted'
<1>1. CASE \E r \in Runs : StartBackground(r)
  <2>1. PICK r \in Runs : StartBackground(r)
    BY <1>1
  <2> SUFFICES ASSUME NEW w \in Workers, w[1] \in Live', NoOtherProcess(w[1])'
               PROVE  Accounts(w)'
    BY DEF AllAccounted
  <2>2. w[1] = r /\ worker'[w].pc \in {"idle", "read"}
    BY <2>1, StartAlone, StartFrame, WorkerParts
  <2> QED BY <2>2 DEF Accounts, Busied
<1>2. CASE Retreat
  <2> SUFFICES ASSUME NEW w \in Workers, w[1] \in Live', NoOtherProcess(w[1])', Private(w[2])
               PROVE  Accounts(w)'
    BY DEF AllAccounted, Private
  <2>1. w[1] \in Live /\ worker'[w] = worker[w] /\ UNCHANGED <<want, beside, lines>>
    BY <1>2, RetreatFrame
  <2>2. Accounts(w)
    BY <2>1 DEF AllAccounted, NoOtherProcess
  <2> QED BY <2>1, <2>2 DEF Accounts, Accounted, File
<1>3. CASE \E w \in Workers : WorkerStep(w) \/ Expire(w)
  <2>1. PICK w \in Workers : WorkerStep(w) \/ Expire(w)
    BY <1>3
  <2>2. /\ w[1] \in Live /\ UNCHANGED <<run, want, beside>>
        /\ \A v \in Workers \ {w} : worker'[v] = worker[v]
    BY <2>1, WorkerFrame DEF runVars
  <2> SUFFICES ASSUME NEW v \in Workers, v[1] \in Live, NoOtherProcess(v[1]), Private(v[2]), Accounts(v)
               PROVE  Accounts(v)'
    BY <2>2 DEF AllAccounted, Live, NoOtherProcess, Private
  <2>3. v[1] = w[1]
    BY <2>2, Alone
  <2>4. CASE v # w
    <3>1. File(v) # File(w) /\ File(v) \in Files
      BY <2>3, <2>4, WorkerParts, StatsAssumption DEF Private, File
    <3>2. lines'[File(v)] = lines[File(v)] /\ worker'[v] = worker[v]
      BY <2>1, <2>2, <2>4, <3>1, LinesFrame
    <3> QED BY <3>2 DEF Accounts, Accounted, File
  <2>5. CASE v = w
    <3> DEFINE L == lines[File(w)] \cap TableLine
    <3>0. /\ worker \in [Workers -> Locals] /\ worker[w] \in Locals
          /\ Accounts(w) /\ InTurn(worker[w])
          /\ worker[w].pc # "unlink" => L \subseteq L'
      BY <2>1, <2>5, LinesFrame DEF StatsType, OpensInTurn, File
    <3>1. CASE ReadProgress(w)
      <4>1. File(w) \in Files
        BY WorkerParts, StatsAssumption DEF File
      <4>2. /\ worker'[w].pc \in {"raised", "connect", "unlink"}
            /\ worker'[w].pc = "connect" => worker'[w].skip \in {{}, RecordedIn(File(w))}
            /\ lines' = lines
        BY <3>0, <3>1 DEF ReadProgress, At, Go, InTurn, Locals, fileVars
      <4> QED BY <2>5, <4>1, <4>2, Recorded DEF Accounts, Busied, File
    <3>2. CASE Unlink(w) /\ Go(w, "connect")
      BY <2>5, <3>0, <3>2 DEF Unlink, At, Go, Accounts, InTurn, Locals, Busied
    <3>3. CASE Connect(w) \/ Fail(w)
      <4>1. /\ worker'[w].skip = worker[w].skip
            /\ worker'[w].pc = "failLine" \/ (worker'[w].pc = "list" /\ worker[w].pc = "connect")
            /\ lines' = lines
        BY <3>0, <3>3 DEF Connect, Fail, At, Go, Locals, fileVars
      <4> QED BY <2>5, <3>0, <4>1 DEF Accounts, Busied, File
    <3>4. CASE ListTables(w)
      <4>1. /\ worker'[w].skip = worker[w].skip /\ worker'[w].todo = worker'[w].listed
            /\ worker'[w].pc = "next" /\ worker[w].pc = "list" /\ lines' = lines
        BY <3>0, <3>4 DEF ListTables, At, Locals, fileVars
      <4> QED BY <2>5, <3>0, <4>1 DEF Accounts, Busied, File
    <3>5. CASE NextTable(w)
      <4>1. lines' = lines
        BY <3>5 DEF NextTable, fileVars
      <4>2. PICK t \in worker[w].todo :
              /\ worker'[w].cur = t /\ worker'[w].todo = worker[w].todo \ {t}
              /\ worker'[w].skip = worker[w].skip /\ worker'[w].listed = worker[w].listed
              /\ worker'[w].opened = worker[w].opened
              /\ worker[w].pc = "next"
              /\ \/ t \in worker[w].skip /\ worker'[w].pc = "next"
                 \/ worker'[w].pc \in Busied
        BY <3>0, <3>5, Taking DEF Busied
      <4>3. t \in worker[w].skip => Accounted(w, t)'
        BY <3>0, <4>1, <4>2 DEF Accounts, Accounted, InTurn, File
      <4>4. \A u \in worker[w].listed : Accounted(w, u) => Accounted(w, u)'
        BY <4>1, <4>2 DEF Accounted, File
      <4> QED BY <2>5, <3>0, <4>1, <4>2, <4>3, <4>4 DEF Accounts, Busied, File
    <3>6. CASE UnlockStatistics(w) \/ Gather(w) \/ TableFails(w)
      <4>1. /\ lines' = lines
            /\ UNCHANGED <<worker[w].cur, worker[w].todo, worker[w].skip, worker[w].listed>>
            /\ worker'[w].opened \subseteq worker[w].opened \cup {worker[w].cur}
            /\ worker[w].pc \in Busied /\ worker'[w].pc \in Busied
        BY <3>0, <3>6 DEF UnlockStatistics, Gather, TableFails, At, Locals, Busied, fileVars
      <4>2. \A u \in worker[w].listed \ {worker[w].cur} : Accounted(w, u) => Accounted(w, u)'
        BY <4>1 DEF Accounted, File
      <4> QED BY <2>5, <3>0, <4>1, <4>2 DEF Accounts, Busied, File
    <3>7. CASE Record(w)
      <4> DEFINE k == [conn |-> w[2], table |-> worker[w].cur, st |-> worker[w].st]
      <4>1. /\ UNCHANGED <<worker[w].cur, worker[w].todo, worker[w].skip, worker[w].listed, worker[w].opened>>
            /\ worker[w].pc = "record" /\ worker'[w].pc = "next"
        BY <3>0, <3>7 DEF Record, At, Go, Locals
      <4>2. k \in TableLine /\ k.table = worker[w].cur /\ k.st = worker[w].st
        BY <3>0, <4>1, WorkerParts DEF TableLine, Locals, StatsType, Busied
      <4>3. lines' = [lines EXCEPT ![File(w)] = @ \cup {k}]
        BY <3>7 DEF Record
      <4> HIDE DEF k
      <4>4. k \in L'
        BY <4>2, <4>3, WorkerParts, StatsAssumption DEF StatsType, File
      <4>5. Accounted(w, worker[w].cur)'
        BY <3>0, <4>1, <4>2, <4>4 DEF Accounted, InTurn, File
      <4>6. \A u \in worker[w].listed : Accounted(w, u) => Accounted(w, u)'
        BY <3>0, <4>1 DEF Accounted, File
      <4> QED BY <2>5, <3>0, <4>1, <4>5, <4>6 DEF Accounts, Busied, File
    <3>8. CASE EndOfList(w) \/ Expire(w)
      <4>1. /\ lines' = lines
            /\ UNCHANGED <<worker[w].cur, worker[w].todo, worker[w].skip, worker[w].listed, worker[w].opened>>
            /\ worker'[w].pc = worker[w].pc \/ (worker[w].todo = {} /\ worker[w].pc = "next" /\ worker'[w].pc = "close")
        BY <3>0, <3>8 DEF EndOfList, Expire, At, Go, Locals, fileVars
      <4>2. \A u \in worker[w].listed : Accounted(w, u) => Accounted(w, u)'
        BY <4>1 DEF Accounted, File
      <4> QED BY <2>5, <3>0, <4>1, <4>2 DEF Accounts, Busied, File
    <3>9. ASSUME NEW there \in Finished, Leave(w, there) PROVE Accounts(w)'
      BY <3>0, <3>9, Leaving DEF Accounts, Finished, Busied
    <3> QED
      BY <2>1, <2>5, <3>1, <3>2, <3>3, <3>4, <3>5, <3>6, <3>7, <3>8, <3>9
         DEF WorkerStep, Unlink, Close, FailLine, Finished
  <2> QED BY <2>4, <2>5
<1>4. CASE UNCHANGED vars
  BY <1>4 DEF AllAccounted, Accounts, Accounted, File, Live, NoOtherProcess, vars, runVars, fileVars
<1> QED BY <1>1, <1>2, <1>3, <1>4, StepKinds

-----------------------------------------------------------------------------

\* The invariant of every behaviour of the specification.
THEOREM StatsInvariance == Spec => []StatsInv
<1>1. ASSUME StatsInv, [Next]_vars PROVE StatsInv'
  <2>1. StatsType /\ IdleIsFresh /\ StatsType'
    BY <1>1, TypeStep DEF StatsInv
  <2>2. IdleIsFresh' /\ LiveApart'
    BY <1>1, <2>1, IdleStep, ApartStep DEF StatsInv
  <2>3. RecordsAreTrue' /\ UnlinkAnew' /\ OpensInTurn'
    BY <1>1, <2>1, TrueStep, AnewStep, TurnStep DEF StatsInv
  <2>4. ResumeSkips' /\ AllAccounted'
    BY <1>1, <2>1, SkipsStep, AccountsStep DEF StatsInv
  <2> QED BY <2>1, <2>2, <2>3, <2>4 DEF StatsInv
<1> QED BY <1>1, InitInv, PTL DEF Spec

\* Whatever crashes, tears and shares its file: a line of a progress file that
\* says gathered is of a table whose statistics have been gathered.
THEOREM GatheredLinesAreTrue == Spec => []GatheredLineIsTrue
<1>1. StatsInv => GatheredLineIsTrue
  BY GatheredLines, StatsAssumption DEF StatsInv, RecordsAreTrue, GatheredLineIsTrue
<1> QED BY <1>1, StatsInvariance, PTL

\* A resumed run beside which no other process ran repeats no gather that its
\* progress file had when the run began.
THEOREM ResumedRunsNeverRepeat == Spec => []ResumeNeverRepeats
<1>1. ASSUME StatsInv PROVE ResumeNeverRepeats
  <2> SUFFICES ASSUME NEW w \in Workers, want[w[1]].resume, NoOtherProcess(w[1]),
                      At(w, "unlock") \/ At(w, "gather")
               PROVE  <<w[2], worker[w].cur>> \notin was[w[1]]
    BY DEF ResumeNeverRepeats
  <2>1. Skips(w) /\ worker[w].pc \in {"unlock", "gather"} /\ worker[w].cur \in Tables
    BY <1>1 DEF StatsInv, StatsType, ResumeSkips, At, Busied
  <2> QED BY <2>1 DEF Skips, Known, Busied
<1> QED BY <1>1, StatsInvariance, PTL

\* A connection that answers completed, and shares its progress file with no
\* other, has a line for every table it listed.
THEOREM CompletedRunsAccount == Spec => CompletedRunAccounts
<1> DEFINE Step ==
      \A w \in Workers :
       /\ worker[w].pc # "done" /\ worker'[w].pc = "done"
       /\ NoOtherProcess(w[1]) /\ Private(w[2])
       => /\ worker[w].late <= 1
          /\ \A t \in worker[w].listed : \E l \in lines[File(w)] :
               /\ "table" \in DOMAIN l /\ l.table = t
               /\ t \in worker[w].opened => l.st # "not_started"
<1>1. ASSUME StatsInv, [Next]_vars PROVE [Step]_vars
  <2> SUFFICES ASSUME NEW w \in Workers, worker[w].pc # "done", worker'[w].pc = "done",
                      NoOtherProcess(w[1]), Private(w[2])
               PROVE  /\ worker[w].late <= 1
                      /\ \A t \in worker[w].listed : \E l \in lines[File(w)] :
                           /\ "table" \in DOMAIN l /\ l.table = t
                           /\ t \in worker[w].opened => l.st # "not_started"
    OBVIOUS
  <2>0. StatsType /\ IdleIsFresh /\ worker \in [Workers -> Locals] /\ worker[w] \in Locals
    BY <1>1 DEF StatsInv, StatsType
  <2>1. WorkerStep(w) \/ Expire(w)
    <3>1. CASE \E r \in Runs : StartBackground(r)
      BY <2>0, <3>1, StartFrame
    <3>2. CASE Retreat
      BY <2>0, <3>2, RetreatFrame
    <3>3. ASSUME NEW v \in Workers, v # w, WorkerStep(v) \/ Expire(v) PROVE FALSE
      BY <2>0, <3>3, WorkerFrame
    <3>4. CASE UNCHANGED vars
      BY <3>4 DEF vars
    <3> QED BY <1>1, <3>1, <3>2, <3>3, <3>4, StepKinds
  <2>2. Close(w)
    <3>1. CASE ReadProgress(w) \/ Connect(w) \/ EndOfList(w) \/ Fail(w) \/ Record(w) \/ Expire(w)
      BY <2>0, <3>1 DEF ReadProgress, Connect, EndOfList, Fail, Record, Expire, Go, Locals
    <3>2. CASE ListTables(w) \/ UnlockStatistics(w) \/ Gather(w) \/ TableFails(w)
      BY <2>0, <3>2 DEF ListTables, UnlockStatistics, Gather, TableFails, Locals
    <3>3. CASE NextTable(w)
      BY <2>0, <3>3, Taking
    <3>4. CASE Unlink(w)
      BY <2>0, <3>4, Leaving DEF Unlink, Go, Locals, Finished
    <3>5. CASE FailLine(w)
      BY <2>0, <3>5, Leaving DEF FailLine, Finished
    <3> QED BY <2>1, <3>1, <3>2, <3>3, <3>4, <3>5 DEF WorkerStep
  <2>3. w[1] \in Live /\ worker[w].pc = "close"
    BY <2>2 DEF Close, At
  <2>4. Accounts(w) /\ InTurn(worker[w])
    BY <1>1, <2>3 DEF StatsInv, AllAccounted, OpensInTurn
  <2>5. worker[w].late <= 1
    BY <2>0, <2>4 DEF InTurn, Locals
  <2>6. \A t \in worker[w].listed : Accounted(w, t)
    BY <2>3, <2>4 DEF Accounts, Busied
  <2> QED BY <2>5, <2>6, LineKinds DEF Accounted
<1>2. StatsInv /\ [Next]_vars => [Step]_vars
  BY <1>1
<1> QED BY <1>2, StatsInvariance, PTL DEF Spec, CompletedRunAccounts
=============================================================================
