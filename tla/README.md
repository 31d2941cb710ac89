# Verification of the Oracle administration server

`src/myoracle_mcp` is an MCP server: every tool is a Python function that a client calls, opens
its own connections to saved Oracle databases, runs statements and answers. The server keeps almost
no state of its own; the state is in the databases, in files on their hosts and in progress files.
Nothing serialises the tools: several clients, or several server processes, may call them at once,
and a call may fail at any statement, time out, or die with its process. This project models the
tools whose correctness depends on that, checks them with TLC and proves part of it with TLAPS.

Contents: 1 inventory, 2 modules and how they correspond to the code, 3 runs, 4 bounds,
5 fairness, 6 proofs, 7 disagreements found, 8 what is not modelled, 9 plan.

## 1. Inventory

| Component | State | Operations | What is hard | What makes it correct |
| --- | --- | --- | --- | --- |
| Site transfer tools (`site_force_refresh.py`, `ph_remaining_copy.py`, `hungary_targeted_copy.py`, `server.py` 5187-5308) | on the Spain database: three materialized views per site, `GLOBAL_UUT_ATTRIBUTES`, `TRANSFER_LOG`, `NKEYS_ALLOCATED`, `TRANSFER_LOG_SERIAL`, `LOG_PROCEDURE` | force refresh of a site, PH remaining copy, Hungary copy by RF, Hungary remaining copy | calls interleave statement by statement; a refresh truncates views another call reads; the error handler commits half of a refresh; a commit whose answer is lost | no unit or key is lost, none is copied twice without an overlap, what a call inserted is logged, no older value replaces a newer one |
| Site backlog (`site_backlog.py`) | none; reads the staged rows and the global table | classify, breach | it runs in the middle of the above | a logged unit is never backlog |
| Transfer queue and insert log (`transfer_queue.py`, `server.py` 5311-5436) | log table, queue table, insert triggers of a site | create the queue, enqueue untransferred products, create an insert log | DDL commits half of a call; the application inserts meanwhile; triggers can be left invalid | nothing queued is unlogged, the call that creates the queue queues old work, a name is added once |
| Exact table statistics (`exact_table_stats.py`) | one background thread per process, a worker per connection, progress files, locked and fresh statistics | start, gather per connection, resume | crash between a gather and its line, torn lines, deadlines, a second start, workers that fail | a resumed run repeats nothing recorded, a completed connection accounts for all tables, every run ends |
| Schema copy with Data Pump (`schema_datapump.py`) | dump, zip and log files in two directories; export and import jobs; users of the target | copy schemas | minutes pass between the check of the target and the import; leftovers of failed calls; jobs that outlive their call; names made of the second | imports its own dump, into schemas that did not exist, and its answer hides nothing |
| Schema copy with metadata (`schema_sql_copy.py`) | one schema of the target: user, objects, keys, rows, grants | copy, resume | every statement commits; single failures are collected; resume after a half copy; two resumes at once | an answer without errors means a whole schema, rows are there once |
| PH objects (`philippines_refresh.py`, `object_retire.py`) | three tables, an index and three materialized views on Spain, a procedure of the link's owner | create the objects, describe, drop a view | every statement commits; a call that stopped half-way is repeated | a call that can open the link completes what is missing |
| Public database links (`public_database_link.py`, `server.py` 5556-5896) | rows of `SYS.LINK$` on Spain; the accounts they log on to in the Philippines; helper procedures with fixed names | copy, recreate, retarget and remove a link, copy or reset its password, create it with an account, probe it in four ways, unlock | steps on two databases without a transaction; a drop before the checks; helpers shared by all calls | the link is not lost, its password is moved in all places, no orphan account, a probe tells the truth |
| Sequence recreation (`server.py` 3068-3164) | one sequence, its grants and dependents | drop and create at the dictionary's next value | values drawn between read and drop; nothing in between drop and create | no value is issued twice; a dependent left invalid is named |
| Daily check and Slack report (`server.py` 90-420, 1740-1990) | problems of one run; `report.md`; Slack channel | check every target, report, format, send up to three messages | a check that raises half way, text too long, partial delivery | "ok" means no problem; "delivered" means all of them |
| Package overloads (`package_overloads.py`) | text of a package, in two parts, on two databases | copy all overloads of a procedure | spans of lines; specification and body are replaced by separate statements | what was synced is the source's, the rest untouched |
| Connection migration (`connection_migration.py`) | one mRemoteNG file and its backups | migrate from MobaXterm, protect with a password, restore passwords | three tools rewrite one file under different keys; a write stops half way | every password opens with the file's key; no content is lost |
| Clone time (`clone_time.py`) | none; reads headers, startup and archived logs | date the snapshot of a clone | the clone starts, checkpoints and switches logs while it is read | in the clone's first run the window from the logs holds the snapshot |
| Administration (`server.py`, `readonly_user.py`) | parameters, profile, account, datafiles, probe table, trigger, session | PGA size, connection limits, profile limit, monitoring account, expand a tablespace, compression probe, logon trace, kill or trace a session | every statement stays when a later one fails; several tools write related values | what is answered holds; the PGA limit covers the target |
| Remote copy, ephemeral sessions, saved queries, catalog comparison, timestamps, task logon, local clock and PostgreSQL, confirmation tokens, diagnostics | none shared between calls | one connection, reads or one statement | little | see section 8 |
| Local RAG index (`src/local_rag`) | one table of chunks | ingest, search | one transaction for all files | a file reported as indexed is indexed |

Components meet in the database: the backlog reads what the transfer tools write, the queue and the
insert log share one trigger per table, the two schema copies both create users on a target, the link
tools and the PH objects share links and procedure names, and runs of the statistics share progress files.
The tools of the last six modelled rows (sequence to administration) share nothing with each other, only with other calls of their own
kind. The hazards, with the line where each bites and the properties that would catch it, are in
`PROJECT.json`.

## 2. Modules

| Module | Models | State ↔ code | Actions ↔ code |
| --- | --- | --- | --- |
| `SiteTransfer` | the four transfer tools | `src`, `upd`, `ser`: the three staging views of each site; `glob`, `tlog`, `nkeys`, `klog`, `audit`: committed tables; `gdirty`, `ldirty`, `kdirty`, `kldirty`: uncommitted rows of one call; `remote`, `remoteKeys`: the sites | one action per SQL statement: truncate and fill of each view (a refresh with `atomic_refresh => false` is two steps), `Insert`, `InsertFirstName`, `LogTransferred`, `Update`, `LogRefreshed`, `InsertKeys`, `LogKeys`, `AuditEnd`, `Commit`, `Rollback`, `ErrorCommit` |
| `SiteBacklog` | the backlog queries over the states of `SiteTransfer` | none of its own | operator `Eligible` |
| `TransferQueue` | queue, enqueue and insert-log tools, the triggers they create, the application and the refresh that drains the queue | `log`, `queue`: rows per product name; `trigger`: body of each trigger; `pendLog`, `pendQueue`: uncommitted rows | one action per DDL or DML statement; `AppInsert` fires the triggers |
| `ExactStats` | background runs, workers, progress files, crash | `worker`: locals of `run_one` and `gather_on_cursor`; `lines`, `torn`: the files; `locked`, `fresh`: the databases | one action per database call, file operation or branch; `Crash` kills a process |
| `SchemaCopy` | abstract: what both copy tools promise of the target | `touched`: schemas a call has changed; `free`: names it has seen absent | `See`, `Touch`, `Finish`, `Others` |
| `SchemaDatapump` | `copy_schemas` | `dmp`, `zip`, `implog`: files by database and name, a dump being the call that exported it and an import log where its first ORA- line is, in the part that is read over SSH (`early`) or past it (`late`); `job`, `reads`, `errors`: the import job in the target | one action per query, remote command, transfer or job step |
| `SchemaSqlCopy` | `copy_schema` | `have`, `keyed`, `valid`, `rows`, `roles`, `granted`: the schema on the target; `todo`, `cur`, `count`, `failed`, `errs`: locals | one action per statement on the target; loops are sets still to do |
| `ToolCalls` | what every call of a server tool has: arguments, next statement, failure of a statement | `req`, `pc`: locals; `faults`, `struck`, `met`, `before`: history | `Begin`, `Go`, `Strike` are the parts the actions below are built from |
| `DatabaseLinks` | the twelve link tools, the four helper procedures and a probe link | `links`: rows of `SYS.LINK$`; `ate`, `dblink`: the two accounts in the Philippines; `proc`, `flagProbe`: helpers; `seen`, `ok`: locals | one action per statement on either database; `Logon` is what opening a link does, an account locked by a wrong password included |
| `PhilippinesViews` | the PH objects, on top of `DatabaseLinks` | `tables`, `index`, `mviews`: the objects; `nth`, `found`, `created`: locals of the loops | one action per look, `CREATE`, `DROP` and procedure call |
| `SequenceRecreate` | the sequence tool, applications that draw from the sequence and use its dependents | `seq`: dictionary row; `start`, `work`, `recompiled`, `errors`: locals | read, DDL, drop, create, list, compile; `Draw`, `Use` |
| `InstanceTools` | eleven administration tools | `pga`, `spfile`, `profile`, `account`, `space`, `probes`, `trigger`, `session`: what they change | one action per statement; `Reuse`: the session at a SID ends and another gets it |
| `PackageSync` | `sync_overloads` | `source`, `target`: each part a sequence of lines of a few kinds; `text`: the merge | count, merge, replace, status, trigger; `SpanEnd`, `Merged` are the text functions |
| `DailyRoutine` | the daily check | `truth`: what is wrong; `items`, `found`: results so far; `outbox`, `posted`, `outcome`: messages | one action per check of a target, the report, the direct message channel, the format and each post; `Messages` is the choice of form |
| `ConnectionMigration` | the three tools on one file | `connFile`, `backups`: files; `content`, `base`: locals | `Backup` or `NothingToBackUp`, `ReadFile`, `Write`; a write may stop half way |
| `CloneTime` | the dating of a clone, with the source and the clone it looks at | `clock`, `snapAt`, `startup`, `headers`, `archived`: databases; `startRead`, `begins`, `clone`: locals and answer; `sourceLast`: the source's last header write (history) | one action per query: `ReadStartup`, `ReadHeaders`, `ReadEarlier`, `ReadSpanning`, `ReadLater`; the rest are steps of the databases |
| `ServerTools` | the six modules above as one specification | `group`: which module this behaviour is about | `Next` takes the steps of the module of `group` |
| `*Proofs` | theorems about `SiteTransfer` and `SiteBacklog`, `TransferQueue`, `ExactStats`, `SchemaDatapump`, `SchemaSqlCopy`, in `LinkProofs` about `DatabaseLinks` and `PhilippinesViews`, and in `ServerToolsProofs` and `MigrationProofs` about modules of `ServerTools` | | |
| `MC*` | model values and symmetry for TLC | | |

`ServerTools` composes modules that share no data by choosing one of them per behaviour. Steps of different
modules commute, so a behaviour of all of them together restricted to one module's variables is a
behaviour of that module's group, and a property about one module holds of both or of neither; the
product of the six state spaces would add nothing. The tools that do share data are composed step by
step (`SiteTransfer`, `TransferQueue`, `PhilippinesViews` over `DatabaseLinks`).

Conventions. `pc[c]` is the next statement of call `c`; a local that a call no longer needs is reset
when the call ends. Variables marked *history* are not in the code: they remember which calls were open
together (`met`, `beside`), what a call saw (`free`, `was`, `grew`, `before`) or did (`touched`, `made`, `fired`,
`listed`, `opened`, `late`), which statement failed (`struck`), and guard no action of the system; `faults`
only bounds the failures. Operators whose comment begins with
*Fault* or *Mutant* are not part of the specification: each is a mapped definition with a plausible mistake in it, and
`PROJECT.json` says which property finds the mistake.

What is assumed of the database, since its definitions are not in the repository:

- READ COMMITTED: a statement sees the committed rows and those of its own transaction; DDL commits.
- The tables have no unique index that would refuse a second row of a serial or a key (the tools'
  anti-joins would be needless). A site holds one row per serial.
- The PH views are modelled from `philippines_refresh.py`; the views of the other sites, which are not
  in `src/`, are taken to be defined alike.
- Row locks of the updates are not modelled beyond the atomicity of a statement; a deadlock is one of
  the failures of a statement.
- Data Pump does not overwrite a dump file; an import into an existing user logs ORA-31684 and goes on;
  two running jobs of one name in one database are refused.
- A primary key can be added, and stays, only over unique rows.
- A link opens when host, account and password are those of the other database; a private link hides a
  public one of the same name; a logon with a wrong password may lock the account.
- A sequence with cache keeps in the dictionary the value after the cached ones; its drop takes its grants
  along and makes dependents invalid.
- Checkpoint times of the headers of a clone are the source's until the clone checkpoints.

Data is abstracted to what the properties tell apart: a unit is its RF number, test date and whether its
product name is listed; a row of the queue is its product name; a dump is the call that made it; a row of a
copied table is its position in the source.

## 3. Runs

| Run | Question | Result |
| --- | --- | --- |
| `SiteTransferUnits` | Two calls of any of the four tools, two sites, retests, a failure at every statement, lost commit answers. Can a unit be lost, logged without its row, copied twice without overlap, or counted as backlog when logged? | holds |
| `SiteTransferForce` | Two forced refreshes of two sites with the same unit and two keys, one key per batch. Can a key be lost, doubled without failure or overlap, or a global row turned back? | holds |
| `TransferQueue` | Three calls of the queue tools with an inserting application and a draining refresh. | holds |
| `ExactStatsRuns` | Two runs of one process over one connection with two tables, with one crash. | holds |
| `ExactStatsPool` | One run over two connections that share a progress file; every run ends. | holds |
| `SchemaDatapump` | Two Data Pump copies from two sources into one target: which dump is imported into which schema, what the answer says; refinement of `SchemaCopy`. | holds |
| `SchemaSqlCopy` | Two metadata copies, fresh or resumed, overlapping or not; refinement of `SchemaCopy`. | holds |
| `PhilippinesLinks` | Two calls of any of the fifteen link and view tools, overlapping or in turn, from good, wrong, stale and doubled links, with one failing statement. Is the link lost, an account orphaned, a password moved in part, a probe wrong, a repeated creation incomplete? | holds |
| `ServerTools` | Two calls of one of the six groups of tools, overlapping or in turn, with one failing statement: is a sequence value drawn twice, an answer untrue, a package half synced, a problem of the daily check silent, a password unreadable, a content of the file lost, a clone dated wrongly? | holds |
| `ClaimResume`, `ClaimSync`, `ClaimDaily` | three promises of docstrings (section 7) | violated |

The properties, by run:

| Run | Property | Says |
| --- | --- | --- |
| `SiteTransferUnits` | `NoLostUnit`, `EndedCallLogsItsRows` | a logged serial has a row; what a call inserted is logged when it ends |
| | `SerialTwiceOnlyByOverlap` | two rows of a serial come from calls that were open together |
| | `LoggedIsNotBacklog` | a logged unit is not counted as waiting |
| `SiteTransferForce` | `NoLostKey`, `KeyTwiceOnlyByFailureOrOverlap` | the same for keys, but a failure can double them |
| | `SoloRefreshNeverOlder` | a refresh that ran alone replaces no row by an older one |
| `TransferQueue` | `QueuedIsLogged`, `CreatorQueuesOldWork`, `EnqueueAddsUnrecordedOnce` | log and queue agree, whoever writes them |
| `ExactStatsRuns` | `ResumeNeverRepeats`, `CompletedRunAccounts` | a recorded gather is not repeated; completed means every table is accounted for |
| `ExactStatsPool` | `GatheredLineIsTrue`, `StartedRunEnds` | a line is written after its gather; every run ends (liveness) |
| `SchemaDatapump` | `ImportsOwnDump`, `MixedOnlyByOverlap`, `ImportsIntoFreshSchemas`, `ImportedHidesNothing` | which dump goes into which schema, and what the answer tells |
| | `ImplementsPromise` | refinement of `SchemaCopy` |
| `SchemaSqlCopy` | `FreshCopyIsWhole`, `RowTwiceOnlyByOverlap`, `ImplementsPromise` | no error means all of it; rows are there once; refinement of `SchemaCopy` |
| `PhilippinesLinks` | `LinkSurvives`, `LinkHasItsAccount`, `FailedCreateLeavesNoAccount` | link and account come and go together |
| | `PasswordMovesEverywhere` | a reset changes all three copies of the password |
| | `ProbeTellsTheTruth`, `LeftoversOnlyByFailureOrOverlap` | probes answer for the link as it is, and clean up |
| | `ObjectsCompleteOrLinkDown` | creation can be repeated after any failure |
| `ServerTools` | `SequenceValuesOnce`, `DependentsValidOrNamed` | the sequence tool |
| | `LimitCoversTarget`, `AnsweredIsDone` | the administration tools |
| | `SyncedStays` | package overloads, for packages without local procedures |
| | `OkMeansClean`, `DeliveredIsWhole` | the daily check |
| | `PasswordsReadable`, `VersionsKept` | the connection file |
| | `WindowHoldsSnapshot` | the clone dating, in the first run of the clone: the window from the logs holds the snapshot, a frozen date is the source's last header write |

What the conditions in the properties say is as important as that they hold. "Only by overlap"
(`SerialTwiceOnlyByOverlap`, `KeyTwiceOnlyByFailureOrOverlap`, `RowTwiceOnlyByOverlap`,
`MixedOnlyByOverlap`, `LeftoversOnlyByFailureOrOverlap`) means: the bad state exists in the model, two
concurrent calls do produce it, and no sequence of calls that do not overlap does, whatever fails on the way
(or, where the name says so, nothing without a failure). `Undisturbed` in `SiteTransfer` excludes
exactly the refresh of the same site that truncates a staging view under another call's feet; in `ToolCalls`
it is a call that met no other and no failing statement of its own, earlier failures of other calls included.
`CreatorQueuesOldWork` excepts the names logged while the call ran. `MixedOnlyByOverlap` speaks of two calls
neither of which shared its file names with an overlapping call: with three calls, the proof showed, one that
read the dump of a third may mix schemas with a call it never met. `OkMeansClean` excepts the backlog of Spain for a call that
could not read it (the history `unread`). `ImportsIntoFreshSchemas` and
`ImportedHidesNothing` except two calls whose file names are the same, which takes the same second, the
same target, and the same single schema or two lists. `ImportedHidesNothing` also excepts a log whose first ORA-
line is past the 100,000 bytes that are read over SSH: the model lets a log be cut there, and then a plain
"imported" does hide refused objects. `DependentsValidOrNamed` holds an invalid dependent of the sequence's own
schema to be among the errors, and one of the other schema, which lost its grant with the drop, only to be
listed: its compilation ends with errors without raising, and the answer lists it as recompiled.
`WindowHoldsSnapshot` holds the window from the archived logs to contain the snapshot; of frozen headers it says that the
date is the source's last header write, which may be long before the snapshot (section 7). `SequenceValuesOnce` excepts a `LAST_NUMBER` that moved
between a call's read and its drop, `LinkSurvives` the one tool that drops before it looks, and
`PasswordsReadable` a migration that finds a file with a password of its own: each exception is a state the
code does reach, and the run shows it is the only one.

## 4. Bounds

| Bound | Value | Why it is enough |
| --- | --- | --- |
| calls | 2 (3 for the queue) | every hazard listed is between two calls, or a call and its retry; the queue needs a failed creation, its repetition and an enqueue |
| `MaxDate`, `MaxTests` | 2, 2 or 3 | a unit is new, retested, or both on two sites: enough for an older and a newer row |
| `Cutoff` | 1 | dates on both sides of the first-name condition |
| serials, RF numbers | 2, 1 and the null | two units that share an RF number, or have none |
| keys, `KeyBatch` | 2, 1 | one key copied and one left for the next batch |
| tables, connections | 2, 1 and 1, 2 | a table before and after the deadline or crash; a shared file |
| `MaxCrashes` | 1 | one crash and the run that resumes after it |
| schemas, sources, `Stamps` | 2, 2, 2 | single schemas and lists, same and different sources, same and different seconds; a stamp may repeat, as local time does when clocks go back |
| one object of each kind, `MaxRows` | 1, 2 | each loop of the copy is entered, every object present, missing or broken; rows added after a count |
| `MaxFaults` | 1 | one failing statement, after which the tool is called again; the statement has no effect, or has it and loses its answer, or a compilation is in error |
| `CacheSize`, `MaxValue` | 2, 6 | draws inside a cache, at its end, and from the sequence created twice |
| `PgaGibs` | 1, 2, 4 | a target below, at and above half of the limit |
| `Gibs`, `BlocksPerGib` | 6, 7, 13; 524288 | blocks of 2 KiB: a file holds 6 GiB, so the sizes need one file, two, and three with a remainder |
| `Orders` | P Q, Q P, P Q P, Q | the procedure last, first, with overloads apart, missing |
| `Capacity`, `Detail` | 2, 2 (6, 2 in `ClaimDaily`) | reports that fit one message, three in the compact form only, or not at all |
| `RefreshCases` | 8 | no alert, one, a breach alone (which an unread backlog hides), more than the compact form and more than the list of alerts hold |
| `Nodes`, `Bookmarks` | 2, 1 | a connection known to MobaXterm and one that is not |
| `DataFiles` | 2 | headers written one file at a time, so that they agree or do not |
| `MaxTime`, `MaxRestarts` | 5, 1 | switches and checkpoints before and after the snapshot, one restart |

Calls are made once; a retry is another call with the same request. Symmetry is used for calls and for
values that no action tells apart, never in a run with a liveness property.

## 5. Fairness

Only `ExactStatsPool` checks liveness (`StartedRunEnds`). `FairSpec` gives weak fairness to each step of each
worker and to the end of the run: `gather_parallel` runs in a thread of its own, its workers in a pool
with a thread for every connection, so none waits for another, and every step is a database call or a
file operation that returns or raises. The tables of a connection are a finite list that only shrinks.
The call timeout is set on the cursor (`exact_table_stats.py:200`), while elsewhere the code sets it on the
connection; should the driver ignore it, a hanging statement is outside this fairness. Nothing is assumed
of crashes. The other specifications have no fairness: their calls may stop anywhere, which is
what a process that dies looks like to the database. Their properties are of safety: what a state or a step may never be.

## 6. Proofs

Eight modules hold proofs. What each theorem says, but for the type invariant of
`SchemaDatapump`, is also checked by a run of section 3 on a small instance. Below, per module, what is proved and
the invariant it takes; each invariant is a conjunction of named parts, stated at the head of its proof.

`SiteTransferProofs`, for all sets of sites, units, keys and calls, and for every bound:

- `TypeCorrect`: `Spec => []TypeOK`.
- `NoUnitIsLost`: `Spec => []NoLostUnit`. `NoLostUnit` is about committed rows only and is not inductive: a commit
  adds the pending log of a call. `UnitInv` adds that the pending log of every call is covered by what the
  call sees. A log statement names only serials it has joined with the global table; a commit or the
  error handler's commit makes rows and log durable together; a rollback drops both; and no statement
  removes a row, so what others commit can only help.
- `NoKeyIsLost`: the same for keys, with `KeyInv`.
- `SerialTwiceNeedsOverlap`: `Spec => []SerialTwiceOnlyByOverlap`. `OverlapInv` counts pending rows as rows, ties them to
  their call being open or ended, and says that `met` is symmetric and holds at least the calls open
  together. The insert of a call that is alone sees every row others have committed, because a call that
  ended left none pending.
- `EndedCallsLogTheirRows`: `Spec => []EndedCallLogsItsRows`. `LogInv` follows a call's own row from its insert to the
  end of the call (`OwnRowAt`): it is pending until then; while no refresh of its site runs beside the call, its serial
  is still staged when the log statement joins it, and named in the log afterwards.
- `KeyTwiceNeedsFailureOrOverlap`: `TwiceInv` counts pending keys as rows; a key that a call has copied and not
  logged is still staged (`KeysAt`), so of two calls with one key the second met the first, or one of the two is
  excused by a failure or by a refresh under its feet (`KeyPairs`).
- `SoloRefreshKeepsNewer`: what the update view of a lone refresh holds is newer than the row of its serial, from
  the fill to the update (`SoloAt`), because nothing but that call writes the table meanwhile.
- `BacklogIsNotLogged`: the property of `SiteBacklog` from `NoUnitIsLost`; the backlog is a query over the same tables.

`SchemaDatapumpProofs`, for all sets of calls, source databases and seconds and every finite set of schemas:

- `TypeCorrect`: `Spec => []TypeOK`. `TypeOK` alone is not inductive, since a step reads a file by the name its call has
  made. `Named` says that the name is made, and `Filled` that the file a call reads next is there: files are
  written over by other calls and never removed.
- `CopyImplementsPromise`: `Spec => ImplementsPromise`, that is `Spec => Promise!Spec`. The refinement mapping is the identity but
  for the answers (`stopped` and `not_confirmed` decline, both `imported` answers have copied). `CopyInv` carries what a
  step must know to be an abstract step: a call past its plan was confirmed and has seen every schema of its
  list absent, and so was *every call whose dump lies in a directory*, because the dump that an import reads may be
  another call's (two calls of one second); a job runs only for a call that waits or has raised; a job that ended
  well has changed a schema.
- `CallsImportTheirDump`, `MixedByOverlapOnly`, `ImportedIsWhole`, `ImportsAreFresh`, from one invariant `DumpInv`. A file is named by
  the call whose dump it holds (`OwnNames`), so a call can meet under its own name only its own files or those of a
  call it met that chose the same name (`OwnDump`, over `Mates`). What a call of its own dump touched was absent when
  it looked, so another that touched it did so later and while the first was at work (`SeenBefore`, `MixedApart`).
  Since its second look nothing appeared that the call has not counted (`LookedAgain`), and its import log
  keeps its first error, and where it stands in the log, unless another call of its name is at work (`LogKept`).
  `ImportedIsWhole` is therefore about what the code reads of the log: over SSH a first error past the limit is not seen.

`SchemaSqlCopyProofs`, for all sets of calls, tables, code, keys, triggers, grants and roles:

- `SqlCopyImplementsPromise`, `Spec => ImplementsPromise`. `CopyInv` says of a call what the promise speaks of: until it has
  looked it has changed and seen nothing; when it creates the user it was confirmed and was asked to resume or
  saw the schema absent; when it works on the schema the schema exists and is its own or was resumed; until it
  ends it has no answer. Every step that writes the schema is then one change on behalf of an entitled call,
  and the rest stutter.
- `RowsTwiceByOverlap`: unless a resumed call overlapped another, no row is there twice and a table that is about to be
  filled is empty (`RowsInv`). That takes `MadeInv`: the user is created once, and every call at work created it or resumes.
- `FreshCopiesAreWhole`: `FreshInv` says how far the creator of the user has come at each of its loops, with the set still
  to do as the complement of what is done (`Progress`, one part per stage), and that once it answers nobody is
  about to fill a table again (`NoRefill`).

`TransferQueueProofs`, for all sets of names, calls and kinds of calls:

- `WhatIsQueuedIsLogged`, `Spec => []QueuedIsLogged`. The property is about committed rows; `QueueInv` adds `FiredBoth`, that an
  open insert of the application which fired a row of the queue fired one of the log (a trigger that writes
  the queue writes the log, whatever mix of triggers is there), and `PendingLogged`, that what a call is about to
  commit to the queue is logged or is in the same commit.
- `EnqueuesOnce` and `CreatorKeepsOldWork`: `MemoryInv` ties what a call remembers to the tables *up to what others committed
  meanwhile*: the names it found are recorded nowhere (`FoundAt`), and what was logged is in what the creator is about to
  queue (`CreatorAt`). The lemma on `Tells` says of every step of anybody that the history of an open call tells it.

`ExactStatsProofs`, for any number of processes, runs, connections, workers and tables, from one invariant `StatsInv`:

- `GatheredLinesAreTrue`: what is recorded as gathered, or is about to be, has been gathered (`RecordsAreTrue`).
- `ResumedRunsNeverRepeat`: only a run that does not resume removes a progress file (`UnlinkAnew`), so a resumed run with
  no other process beside it has read, or will, every line it began with (`ResumeSkips`).
- `CompletedRunsAccount`: what a worker listed is still before it, under its hands, or in the file (`AllAccounted`), and a
  table is unlocked in its turn only (`OpensInTurn`), so that no opened table is passed off as not started.

`LinkProofs`, about `DatabaseLinks` and `PhilippinesViews` together, for any number of calls of the fifteen tools:

- `LinksHaveTheirAccount`: `AccountInv` says that the account belongs to the one call that is between its creation and
  the end of its link statement or cleanup (`Owners`), so that no other call's cleanup drops it from under a link.
- `FailedCreatesLeaveNoAccount`: until a lone call has created the account it is as the call found it (`CreateInv`).
- `LeftoversNeedFailureOrOverlap`: a helper is there only while a call is at the steps that use and drop it (`LeftInv`).
- `LinksSurvive`, `ResetsMovePasswords`, `ProbesTellTheTruth`, `ObjectsAreCompleted`: `AloneInv` says of a call that runs alone and met no
  failure what its past statements have established, one part per tool (`SurvivesAt`, `ResetAt`, `ProbeAt`, `ObjectsAt`),
  whatever earlier failures left behind.

`ServerToolsProofs` and `MigrationProofs`, about `ServerTools`. Each theorem is proved of one group and carried to the others
by their frame: the group is chosen in `Init` and no step of another one changes the variables.

- `SequenceIssuesOnce`, for any cache size. Until `LAST_NUMBER` moves under a call, `SeqInv` holds: what was issued is below
  the next value (`IssuedBelow`), the next value is not above `LAST_NUMBER` (`LastCovers`), a call between its read and its
  create holds the present `LAST_NUMBER` (`ReadIsLast`), and at most one call has dropped the sequence and not created
  it (`OneCreates`).
- `DependentsAreNamed`: while a call compiles alone, what is invalid is still to be compiled, or is among the errors, or is of
  the schema that lost its grant and listed as recompiled (`CompileCovers`); the sequence is there, so a dependent
  of its own schema compiles or the statement raises.
- `LimitAlwaysCovers`: unless a statement failed or calls overlapped, what a tool has compared still holds when it
  writes (`ComparedHolds`), so each of the three writers hands on what the others rely on.
- `AnswersAreDone`, for any number of datafiles and GiB: `InstanceInv` says of a call that is alone what its statements so far
  have set (`DoneSoFar`), and of every call that what it has still to add and what it has added are together what it was
  asked for (`FilesAt`). The sum over the files is the library's, a recursion over the subsets of the set; `FoldExists` and
  `FoldOne` show by induction on the size (`AllNaturals`, from least elements) that it exists and may take the files in any order.
- `WindowsHoldSnapshots`, for any set of datafiles and the clone's first run only: nothing is dated after now (`Clocks`), and
  every time is before the snapshot or after the startup (`FirstRun`, over `Apart`), so what begins the window
  (`EarlierBegins`, `SpanningBegins`) is not after the snapshot, and the startup, its end, is not before. Frozen headers
  date the source's last header write (`HeadersDated`), and that is all that is proved of them: the one-point
  window of that answer (`clone_time.py:239-245`) is not held to contain the snapshot. `MinOfNaturals` and `MaxOfNaturals` give those of the library's `Min` and `Max`.
- `OkTargetsAreClean`: while nothing was found on a target, the checks that are behind had nothing to find
  (`NothingMissed`), or the call could not read the backlog.
- `DeliveredReportsAreWhole`, for any length of a message and of a problem's text: what is posted and what is left to post
  are together the messages of the results (`PostedAt`). `ChunksCarry` says that packing loses no line, `DetailedCarries`
  and `CompactedCarries` which problems a target's lines name. The compact form cuts to two, and the property counts
  different alerts: that a target whose lines can be formatted has one kind of refresh alert at most (`Single`, which every
  check keeps) is what makes the cut harmless.
- `SyncedPackagesStay`, for packages without local procedures and any sequence of procedures in either: every text is
  `Shaped` (the rest of a procedure follows its header), so a text is what is before a span, the span and what is
  after it (`SpanCut`), and a merge has the source's lines of the procedure and the target's of every other one
  (`MergedFacts`, since `LinesOf` distributes over concatenation). `SyncInv` says of the text that a call is about
  to write what the property says of the target (`WritesAt`, `KeepsAt`), because the writes of overlapping calls may land
  in any order, and of a lone call which parts it has copied (`CopiedAt`).
- `PasswordsOpen`: `Spec => []PasswordsReadable`. `ReadableInv` says of what a call is about to write what the property says of
  the file, since overlapping calls write in any order: each content is readable by itself, so it
  does not matter which one wins.
- `NothingIsLost`: `Spec => []VersionsKept`. `VersionsInv` adds that a call which is about to write has a copy of the file as it is
  (`BackedUp`), and that calls open together have met, so that no other call changed the file after the copy.

All proofs assume the named assumptions on the constants of their modules and nothing else. Those that carry
weight: the sets that a tool is given are finite (`SqlCopyAssumption`, `DatapumpAssumption`), the kinds of objects of
a schema are disjoint, and there is a PGA size to ask for (`InstanceAssumption`).

Two properties turned out to be false beyond the instance that was checked, and were corrected with the
model: `MixedOnlyByOverlap` with three calls, `OkMeansClean` with two failures (section 3).

Only model-checked:

- `StartedRunEnds` of `ExactStats` is a liveness property and outside the prover's reach: every safety and action property
  of the passing runs is a theorem.
- The three claims of section 7 are false of the code; a counterexample is what their runs look for.

No module uses a recursive operator. What a recursive function computes (`LinesOf`, `Chunks`, the library's `FlattenSeq` and sums) is
proved by `AllNaturals`: a set of naturals that has 0 and the successor of each member is all of them, since what it
leaves out would have a least element. The library's induction theorems, which take an operator, are not needed.

## 7. Disagreements between the code and what is written of it

Each of the first three is a run of its own, whose counterexample is an execution of one call at a time.

1. `ClaimResume` — a resumed copy skips a table that exists (`schema_sql_copy.py:369`) together with its primary key; if
   the first call stopped between the two statements, the key is never made and the answer is "copied".
2. `ClaimSync` — the span of a procedure ends at the next header (`package_overloads.py:36`), also at that of a procedure
   declared inside it; the rest of the target's old text stays, and the answer is "synced".
3. `ClaimDaily` — every refresh alert but an error is formatted with hours that only one kind has (`server.py:324`); a
   stuck worker or a backlog breach raises, and nothing the check found is delivered.

Seen while reading, without a run of their own. Transfer tools, queue and statistics:

- A forced refresh that fails after its key insert commits the keys without their log rows
  (`site_force_refresh.py:138`); the next refresh copies the same keys again. `KeyTwiceOnlyByFailureOrOverlap` is the exact bound.
- The copy by RF logs status `R` for rows of the update view outside the requested list
  (`hungary_targeted_copy.py:143`), which its update did not touch.
- The age of the backlog is that of every staged row, not of the eligible ones (`site_backlog.py:48`), so a site with
  nothing to copy may be reported.
- The log is copied only by the call that creates the queue (`transfer_queue.py:21`); when that call fails after the
  creation, the repeated call answers ready and the pending rows are never queued.
- The PH copy leaves out units whose RF number the global table has (`ph_remaining_copy.py:31`), while README
  116-118 says that repeated RF numbers are included. It reads the remote table a second time for the log
  (`ph_remaining_copy.py:135`); `EndedCallLogsItsRows` leaves the PH tool out for that reason.
- `locked_only` also lists unlocked tables that an earlier run was interrupted on (`exact_table_stats.py:48-70`), which
  README 205-206 does not say. A gather may begin just after the deadline, when the unlock before it was
  slow (`exact_table_stats.py:202`); `CompletedRunAccounts` bounds that to one.

Schema copies:

- Over SSH only the first 100,000 bytes of the import log are read (`schema_datapump.py:226-235`, used at 656); ORA- lines after
  them are dropped, and the answer is a plain "imported".
- "imported" looks at the import log alone; errors of the export are returned beside it. A resumed copy does
  not repeat the role grants, which only the call that creates the user makes.

Links:

- The copy of a private link keeps its name: when the public name asked for is another, the call makes a second
  row of the source's name, or after `recreate` loses the link it dropped.
- Copying the password of a private link that does not exist nulls the credentials of the public one.
- The procedures of the probes have one name for all calls; a failed align leaves `MCP_FLAG_PROBE` behind. A probe
  with a wrong password is a failed logon and may lock the account for everybody.
- An account that a lost answer left behind makes every later create refuse.

Sequence and administration:

- The drop takes the grants on the sequence along and nothing restores them. The pattern that rewrites the DDL
  expects `START WITH` and `CACHE` each on a line; text on one line raises, before the drop.
- A dependent of another schema stays invalid, because its compilation ends with errors, which the driver reports as a
  warning and does not raise; the answer lists it under `recompiled_dependents` (`server.py:3147-3153`).
- The connection limits say they are set "dynamically" and go to the spfile. Expanding a bigfile tablespace always
  fails, since it gets no second file; "add one datafile" adds several; a call repeated after a failure
  adds all of them again. Resetting the monitoring account keeps the other privileges it had.

Package synchronisation, daily check, migration, clone:

- The initialisation of a package goes with the last procedure; overloads apart in the body raise after the
  specification was replaced; overlapping calls lose updates.
- The compact form keeps two of the refresh alerts; a later check that raises drops the alerts found on that target
  before it; an unreadable backlog counts as none; the direct message channel is opened outside the handler.
- A migration that finds a file with its own password marks it with the default key and leaves the
  passwords as they were; two backups of one second are one file.
- After a restart of the clone its headers and logs are its own, and the answer is about them. Headers that are frozen are answered
  as both ends of the window (`clone_time.py:239-245`), though the source may have run on since their checkpoint.
- A migration looks for the file once: one that another call writes meanwhile is written over without a backup.
- The confirmation tokens that `prepare_connection` issues are never consumed (`server.py:693` has no caller).

## 8. Not modelled, and why

- Tools that open one connection, read, and keep nothing: diagnostics, catalog comparison, timestamps, ephemeral
  sessions, saved queries. They have no states to explore beyond their statements; what is hard in them is
  their SQL. Tools of one statement (statistics level, tuning task, scheduler job, one index, a column's
  length) likewise.
- Remote copy, scheduled task logon, local clock and local PostgreSQL are I/O over a shell or a driver.
- The confirmation tokens have no caller at this commit.
- In the modelled parts: the thresholds of a backlog breach, the queries behind each daily check, the two
  read-only summaries of the PH objects, the export job of Data Pump beyond its outcome, encryption beyond
  which key opens what, and sequences, plain indexes and temporary tables of the metadata copy.
- `Grants` of the metadata copy are those with simple names: a grant whose grantee, table or privilege is not of the
  expected form is passed over without an error (`schema_sql_copy.py:471-476`), so "whole" does not speak of it.
- The block size by which a tablespace is expanded is the tablespace's in the model and `db_block_size` in the code; a
  tablespace with a block size of its own may get files that Oracle refuses, or more of them than needed.
- The local RAG index is one transaction per run; its one hazard is that files are printed as indexed
  before it commits.
- Editor hooks, RMAN scripts and collected reports are not part of the server.

Formatting and wording of answers are left out everywhere, but for what the daily check's length limits decide.

## 9. Plan

Order of work: first the tools that write production data (`SiteTransfer`, `SiteBacklog`), then those that decide what
is copied (`TransferQueue`), then the long-running ones (`ExactStats`, the schema copies with their common promise
`SchemaCopy`), then what the transfer stands on (`DatabaseLinks`, `PhilippinesViews`), then the tools of the server that
change one thing each (`ServerTools`). These are built. Next:

1. The PH refresh worker jobs beside the transfer tools, as an extension of `SiteTransfer`.
2. The ingest of the local RAG index: one transaction for all files and what is printed before it commits.
