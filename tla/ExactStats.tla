----------------------------- MODULE ExactStats -----------------------------
(***************************************************************************)
(* Background gathering of optimizer statistics (exact_table_stats).  A    *)
(* run is one call of start_background: a thread of a server process with  *)
(* one worker per connection.  Workers append a line per table to a        *)
(* progress file, which a later run with resume=true reads to skip tables. *)
(* A server process may crash and start again; its thread is no daemon, so *)
(* a process whose client has left may still run beside the next one.      *)
(***************************************************************************)
EXTENDS Integers, FiniteSets

CONSTANTS
  Runs, Procs, Conns,
  LastTable,     \* the tables of a connection, in listing order, are 1..LastTable
  Files, FileOf, \* _progress_path: FileOf[n] is the file of connection n
  Requests,      \* the arguments of the calls
  MaxCrashes     \* bound on process crashes

Tables == 1..LastTable
Workers == Runs \X Conns
RequestType == [proc : Procs, conns : (SUBSET Conns) \ {{}}, resume : BOOLEAN,
                unlock : BOOLEAN, lockedOnly : BOOLEAN]
Finished == {"done", "failed", "raised"}

ASSUME StatsAssumption ==
  /\ LastTable \in Nat /\ MaxCrashes \in Nat
  /\ FileOf \in [Conns -> Files]
  /\ Requests \subseteq RequestType

VARIABLES
  want,     \* want[r]: the arguments of run r
  run,      \* run[r]: "idle", "live", "refused", "result", "error" or "lost"
  worker,   \* worker[<<r, n>>]: the locals of run_one and gather_on_cursor
  lines,    \* lines[f]: what file f says; an empty file is an absent one
  torn,     \* torn[f]: a crash cut a line of file f short
  locked,   \* locked[n]: tables whose statistics are locked
  fresh,    \* fresh[n]: tables gathered lately
  crashes,
  beside,   \* beside[r]: runs that were live together with run r (history)
  was       \* was[r]: tables with a "gathered" line when run r began (history)

fileVars == <<lines, torn>>
dbVars == <<locked, fresh>>
runVars == <<want, run, crashes, beside, was>>
vars == <<runVars, worker, fileVars, dbVars>>

\* skip, todo, cur, st, stop: the variables of gather_on_cursor.  expired: the
\* deadline has passed.  listed, opened, late: histories of the tables listed,
\* of those unlocked, and of the gathers begun after the deadline.
Fresh == [pc |-> "idle", skip |-> {}, todo |-> {}, cur |-> 0, st |-> "gathered",
          stop |-> FALSE, expired |-> FALSE, listed |-> {}, opened |-> {}, late |-> 0]

Live == {r \in Runs : run[r] = "live"}
At(w, here) == w[1] \in Live /\ worker[w].pc = here
File(w) == FileOf[w[2]]
Go(w, there) == worker' = [worker EXCEPT ![w].pc = there]
\* run_one returns or raises; its locals go.
Leave(w, there) == worker' = [worker EXCEPT ![w] = [Fresh EXCEPT !.pc = there]]

RecordedIn(f) == {l.table : l \in {k \in lines[f] : "table" \in DOMAIN k}}
GatheredIn(n) ==
  {t \in Tables : [conn |-> n, table |-> t, st |-> "gathered"] \in lines[FileOf[n]]}

Init ==
  /\ want \in [Runs -> Requests]
  /\ run = [r \in Runs |-> "idle"]
  /\ worker = [w \in Workers |-> Fresh]
  /\ lines = [f \in Files |-> {}] /\ torn = [f \in Files |-> FALSE]
  /\ locked \in [Conns -> SUBSET Tables]
  /\ fresh = [n \in Conns |-> {}]
  /\ crashes = 0
  /\ beside = [r \in Runs |-> {}]
  /\ was = [r \in Runs |-> {}]

-----------------------------------------------------------------------------
(* start_background, under _background_lock. *)

Busy(p) == \E r \in Live : want[r].proc = p

StartBackground(r) ==
  /\ run[r] = "idle" /\ ~Busy(want[r].proc)
  /\ run' = [run EXCEPT ![r] = "live"]
  /\ worker' = [w \in Workers |->
       IF w[1] = r /\ w[2] \in want[r].conns THEN [Fresh EXCEPT !.pc = "read"] ELSE worker[w]]
  /\ beside' = [q \in Runs |-> IF q = r THEN Live
                               ELSE IF q \in Live THEN beside[q] \cup {r} ELSE beside[q]]
  /\ was' = [was EXCEPT ![r] = {x \in Conns \X Tables : x[2] \in GatheredIn(x[1])}]
  /\ UNCHANGED <<want, crashes, fileVars, dbVars>>

AlreadyRunning(r) ==
  /\ run[r] = "idle" /\ Busy(want[r].proc)
  /\ run' = [run EXCEPT ![r] = "refused"]
  /\ UNCHANGED <<want, worker, crashes, beside, was, fileVars, dbVars>>

(* The thread of run r ends when its pool does: an exception that left     *)
(* run_one, or one from the summary file, becomes the error.               *)
EndRun(r) ==
  /\ r \in Live
  /\ \A n \in want[r].conns : worker[<<r, n>>].pc \in Finished
  /\ \E there \in {"result", "error"} :
       /\ (\E n \in want[r].conns : worker[<<r, n>>].pc = "raised") => there = "error"
       /\ run' = [run EXCEPT ![r] = there]
  /\ UNCHANGED <<want, worker, crashes, beside, was, fileVars, dbVars>>

(* The progress directory cannot be made. *)
PrepareFails(r) ==
  /\ r \in Live
  /\ \A n \in want[r].conns : worker[<<r, n>>].pc = "read"
  /\ run' = [run EXCEPT ![r] = "error"]
  /\ worker' = [w \in Workers |-> IF w[1] = r THEN Fresh ELSE worker[w]]
  /\ UNCHANGED <<want, crashes, beside, was, fileVars, dbVars>>

-----------------------------------------------------------------------------
(* run_one *)

\* Fault: the lines are read but skip nothing.
ReadWithoutSkip(w) ==
  /\ At(w, "read") /\ Go(w, "connect")
  /\ UNCHANGED <<runVars, fileVars, dbVars>>

(* _recorded_tables raises on a torn line; it does not look at the         *)
(* connection of a line.                                                   *)
ReadProgress(w) ==
  LET f == File(w) IN
  /\ At(w, "read")
  /\ IF want[w[1]].resume
     THEN worker' = [worker EXCEPT ![w].pc = IF torn[f] THEN "raised" ELSE "connect",
                                   ![w].skip = IF torn[f] THEN {} ELSE RecordedIn(f)]
     ELSE Go(w, IF lines[f] # {} \/ torn[f] THEN "unlink" ELSE "connect")
  /\ UNCHANGED <<runVars, fileVars, dbVars>>

(* The file may have gone since path.exists(). *)
Unlink(w) ==
  LET f == File(w)
      gone == lines[f] = {} /\ ~torn[f]
  IN
  /\ At(w, "unlink")
  /\ IF gone THEN Leave(w, "raised") ELSE Go(w, "connect")
  /\ lines' = [lines EXCEPT ![f] = {}] /\ torn' = [torn EXCEPT ![f] = FALSE]
  /\ UNCHANGED <<runVars, dbVars>>

Connect(w) ==
  /\ At(w, "connect") /\ Go(w, "list")
  /\ UNCHANGED <<runVars, fileVars, dbVars>>

(* TABLE_SQL and LOCKED_TABLE_SQL.  The latter adds unlocked tables that   *)
(* look like the one an interrupted run had just unlocked.                 *)
Interrupted(n) ==
  {t \in Tables \ (locked[n] \cup fresh[n]) :
     (\E e \in fresh[n] : e < t) /\ (\E l \in locked[n] : l > t)}

Listing(r, n) == IF want[r].lockedOnly THEN locked[n] \cup Interrupted(n) ELSE Tables

ListTables(w) ==
  /\ At(w, "list")
  /\ worker' = [worker EXCEPT ![w].pc = "next", ![w].todo = Listing(w[1], w[2]),
                              ![w].listed = Listing(w[1], w[2])]
  /\ UNCHANGED <<runVars, fileVars, dbVars>>

(* now() >= deadline from here on. *)
Expire(w) ==
  /\ w[1] \in Live /\ ~worker[w].expired
  /\ worker[w].pc \in {"list", "next", "unlock", "gather", "record"}
  /\ worker' = [worker EXCEPT ![w].expired = TRUE]
  /\ UNCHANGED <<runVars, fileVars, dbVars>>

\* Fault: the same table again and again.
BegunAgain(w, t, there) == worker' = [worker EXCEPT ![w].pc = there, ![w].cur = t]
Begun(w, t, there) ==
  worker' = [worker EXCEPT ![w].pc = there, ![w].cur = t, ![w].todo = @ \ {t}]

TimeIsUp(w) == worker[w].stop \/ worker[w].expired

(* The next table of the listing: skipped, left out or begun. *)
NextTable(w) ==
  /\ At(w, "next")
  /\ \E t \in worker[w].todo :
       /\ \A u \in worker[w].todo : t <= u
       /\ \/ /\ t \in worker[w].skip
             /\ Begun(w, t, "next")
          \/ /\ t \notin worker[w].skip
             /\ TimeIsUp(w)
             /\ worker' = [worker EXCEPT ![w].pc = "record", ![w].cur = t, ![w].todo = @ \ {t},
                                         ![w].st = "not_started", ![w].stop = TRUE]
          \/ /\ t \notin worker[w].skip
             /\ ~TimeIsUp(w)
             /\ Begun(w, t, IF want[w[1]].unlock THEN "unlock" ELSE "gather")
  /\ UNCHANGED <<runVars, fileVars, dbVars>>

(* The deadline is not looked at between the two statements of a table. *)
UnlockStatistics(w) ==
  LET n == w[2]  t == worker[w].cur IN
  /\ At(w, "unlock")
  /\ worker' = [worker EXCEPT ![w].pc = "gather", ![w].opened = @ \cup ({t} \cap locked[n]),
                  ![w].late = IF worker[w].expired THEN @ + 1 ELSE @]
  /\ locked' = [locked EXCEPT ![n] = @ \ {t}]
  /\ UNCHANGED <<runVars, fileVars, fresh>>

(* A locked table cannot be gathered. *)
Gather(w) ==
  LET n == w[2]  t == worker[w].cur IN
  /\ At(w, "gather") /\ t \notin locked[n]
  /\ worker' = [worker EXCEPT ![w].pc = "record", ![w].st = "gathered"]
  /\ fresh' = [fresh EXCEPT ![n] = @ \cup {t}]
  /\ UNCHANGED <<runVars, fileVars, locked>>

\* Fault: the entry of the table before is kept.
TableFailsSilently(w) ==
  /\ At(w, "unlock") \/ At(w, "gather")
  /\ Go(w, "record")
  /\ UNCHANGED <<runVars, fileVars, dbVars>>

(* The unlock, the gather or the read of the result raises; in the last    *)
(* case the table has been gathered.  A timeout ends the work.             *)
TableFails(w) ==
  LET n == w[2]  t == worker[w].cur IN
  /\ At(w, "unlock") \/ At(w, "gather")
  /\ \E st \in {"failed", "timed_out"} :
       worker' = [worker EXCEPT ![w].pc = "record", ![w].st = st, ![w].stop = (st = "timed_out")]
  /\ \E more \in SUBSET ({t} \ locked[n]) :
       /\ At(w, "unlock") => more = {}
       /\ fresh' = [fresh EXCEPT ![n] = @ \cup more]
  /\ UNCHANGED <<runVars, fileVars, locked>>

\* Fault: only successes get a line.
RecordGathered(w) ==
  /\ At(w, "record") /\ Go(w, "next")
  /\ lines' = [lines EXCEPT ![File(w)] = @ \cup
                 (IF worker[w].st # "gathered" THEN {}
                  ELSE {[conn |-> w[2], table |-> worker[w].cur, st |-> "gathered"]})]
  /\ UNCHANGED <<runVars, torn, dbVars>>

(* on_table: one line per table, appended. *)
Record(w) ==
  /\ At(w, "record") /\ Go(w, "next")
  /\ lines' = [lines EXCEPT ![File(w)] = @ \cup
                 {[conn |-> w[2], table |-> worker[w].cur, st |-> worker[w].st]}]
  /\ UNCHANGED <<runVars, torn, dbVars>>

EndOfList(w) ==
  /\ At(w, "next") /\ worker[w].todo = {} /\ Go(w, "close")
  /\ UNCHANGED <<runVars, fileVars, dbVars>>

(* The connection is closed in a finally clause, which may raise too. *)
Close(w) ==
  /\ At(w, "close") /\ \E there \in {"done", "raised"} : Leave(w, there)
  /\ UNCHANGED <<runVars, fileVars, dbVars>>

(* An exception outside the work on one table: connect, list, append, close. *)
Fail(w) ==
  /\ At(w, "connect") \/ At(w, "list") \/ At(w, "record") \/ At(w, "close")
  /\ Go(w, "failLine")
  /\ UNCHANGED <<runVars, fileVars, dbVars>>

(* A line without a table. *)
FailLine(w) ==
  /\ At(w, "failLine")
  /\ \/ /\ lines' = [lines EXCEPT ![File(w)] = @ \cup {[conn |-> w[2], failed |-> TRUE]}]
        /\ \E there \in {"failed", "raised"} : Leave(w, there)
     \/ lines' = lines /\ Leave(w, "raised")
  /\ UNCHANGED <<runVars, torn, dbVars>>

-----------------------------------------------------------------------------
(* A server process dies.  The database may finish the gathers it was      *)
(* busy with, and a line being written may stay unfinished.                *)
Crash(p) ==
  LET dying == {r \in Live : want[r].proc = p}
      busy(n) == {worker[w].cur : w \in {v \in Workers : v[1] \in dying /\ v[2] = n
                                                        /\ At(v, "gather")}} \ locked[n]
      writing == {File(w) : w \in {v \in Workers : v[1] \in dying
                                     /\ (At(v, "record") \/ At(v, "failLine"))}}
  IN
  /\ dying # {} /\ crashes < MaxCrashes
  /\ crashes' = crashes + 1
  /\ run' = [r \in Runs |-> IF r \in dying THEN "lost" ELSE run[r]]
  /\ worker' = [w \in Workers |->
       IF w[1] \in dying /\ worker[w].pc # "idle" THEN [Fresh EXCEPT !.pc = "lost"]
       ELSE worker[w]]
  /\ \E cut \in SUBSET writing : torn' = [f \in Files |-> torn[f] \/ f \in cut]
  /\ \E on \in BOOLEAN : fresh' = [n \in Conns |-> fresh[n] \cup IF on THEN busy(n) ELSE {}]
  /\ UNCHANGED <<want, lines, locked, beside, was>>

WorkerStep(w) ==
  \/ ReadProgress(w) \/ Unlink(w) \/ Connect(w) \/ ListTables(w)
  \/ NextTable(w) \/ UnlockStatistics(w) \/ Gather(w) \/ TableFails(w)
  \/ Record(w) \/ EndOfList(w) \/ Close(w) \/ Fail(w) \/ FailLine(w)

Next ==
  \/ \E r \in Runs : StartBackground(r) \/ AlreadyRunning(r) \/ EndRun(r) \/ PrepareFails(r)
  \/ \E w \in Workers : WorkerStep(w) \/ Expire(w)
  \/ \E p \in Procs : Crash(p)

Spec == Init /\ [][Next]_vars

\* Every statement and file operation of a worker ends, one way or another,
\* and so does the thread of a run whose workers have.
FairSpec ==
  /\ Spec
  /\ \A w \in Workers : WF_vars(WorkerStep(w))
  /\ \A r \in Runs : WF_vars(EndRun(r))

-----------------------------------------------------------------------------
(* Properties. *)

Private(n) == \A m \in Conns : FileOf[m] = FileOf[n] => m = n

\* A line that says "gathered" is true whoever reads it, although gathers
\* outlive crashes, lines get lost and files are shared.
GatheredLineIsTrue == \A n \in Conns : GatheredIn(n) \subseteq fresh[n]

\* Run r was live beside no run of another process: its own process lets no
\* second run start.
NoOtherProcess(r) == \A q \in beside[r] : want[q].proc = want[r].proc

\* A resumed run beside which no other process ran never gathers again what
\* the progress file said was gathered when it began: no second start in its
\* own process reads the file in the middle of it.
ResumeNeverRepeats ==
  \A w \in Workers :
    want[w[1]].resume /\ NoOtherProcess(w[1]) /\ (At(w, "unlock") \/ At(w, "gather"))
      => <<w[2], worker[w].cur>> \notin was[w[1]]

\* A connection that answers "completed" and shares its progress file with no
\* other has a line for every table it listed, and none of those it unlocked
\* is passed off as not started: failures and timeouts in between lose nothing.
\* After its deadline it has begun at most the gather it had unlocked a table for.
CompletedRunAccounts ==
  [][\A w \in Workers :
       /\ worker[w].pc # "done" /\ worker'[w].pc = "done"
       /\ NoOtherProcess(w[1]) /\ Private(w[2])
       => /\ worker[w].late <= 1
          /\ \A t \in worker[w].listed : \E l \in lines[File(w)] :
               /\ "table" \in DOMAIN l /\ l.table = t
               /\ t \in worker[w].opened => l.st # "not_started"]_vars

\* A started run ends or is lost with its process: no table, no failure and no
\* connection makes it go round for ever or wait for a worker that has gone.
StartedRunEnds == \A r \in Runs : run[r] = "live" ~> run[r] # "live"

=============================================================================
