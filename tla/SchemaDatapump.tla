--------------------------- MODULE SchemaDatapump ---------------------------
(***************************************************************************)
(* schema_datapump.copy_schemas: export on the source, zip, carry the zip, *)
(* unzip on the target, import.  Calls of several clients may run at once. *)
(* A dump is known by the call that exported it.  File and job names are   *)
(* made of the second in which the call planned them, so two calls may     *)
(* choose the same name.  The log of an import is read whole over the      *)
(* host's admin share, and over SSH only its first 100,000 bytes.          *)
(***************************************************************************)
EXTENDS Integers, FiniteSets

CONSTANTS
  Calls, Schemas,
  Sources,    \* source databases, each with the host of its directory
  Target,     \* the target database
  Stamps,     \* seconds of the local clock
  None        \* no file

Dbs == Sources \cup {Target}
Requests == [src : Sources, names : (SUBSET Schemas) \ {{}}, confirmed : BOOLEAN]
Kinds == {{s} : s \in Schemas} \cup {{}}        \* {} is "SCHEMAS"
FileNames == Kinds \X Stamps
Answers == {"none", "stopped", "not_confirmed", "raised", "imported", "imported_with_errors"}
Pcs == {"idle", "source", "look", "plan", "probe", "export", "zip", "download", "upload",
        "unzip", "lookAgain", "import", "wait", "log", "count", "end"}
\* Where the first ORA- line of an import log is: nowhere, in the part that SSH
\* reads, or past it.
Places == {"clean", "early", "late"}

ASSUME DatapumpAssumption ==
  /\ IsFiniteSet(Schemas)
  /\ Target \notin Sources
  /\ None \notin Calls /\ None \notin FileNames

VARIABLES
  asked,      \* asked[c]: the arguments of call c
  pc,         \* pc[c]: the next step of call c
  left,       \* left[c]: names the current check has not queried yet
  hit,        \* hit[c]: the current check found a name on the target
  name,       \* name[c]: dump_name without its suffix
  carried,    \* carried[c]: the zip in the temporary directory of call c
  status,     \* status[c]: the log as c has read it; "cut" ends before its errors
  answer,     \* answer[c]: the status returned
  present,    \* users of the target
  dmp, zip,   \* dmp[d][f], zip[d][f]: files in the directory of database d
  implog,     \* implog[f]: import log f on the target, by its first ORA- line
  job,        \* job[c]: the import job: "none", "running", "ok" or "dead"
  reads,      \* reads[c]: the dump that job reads
  errors,     \* errors[c]: where that job wrote its first ORA- line
  free, touched,  \* schemas seen absent, and schemas changed (histories)
  since,      \* since[c]: schemas others made after call c looked again (history)
  met         \* met[c]: calls whose work overlapped that of c (history)

callVars == <<asked, pc, left, hit, name, carried, status, answer>>
fileVars == <<dmp, zip, implog>>
jobVars == <<job, reads, errors>>
history == <<free, touched, since, met>>
vars == <<callVars, present, fileVars, jobVars, history>>

Open == {c \in Calls : pc[c] \notin {"idle", "end"}}
Working == Open \cup {c \in Calls : job[c] = "running"}
NoFiles == [d \in Dbs |-> [f \in FileNames |-> None]]

Kind(names) == IF Cardinality(names) = 1 THEN names ELSE {}
FileName(names, t) == <<Kind(names), t>>

Init ==
  /\ asked \in [Calls -> Requests]
  /\ pc = [c \in Calls |-> "idle"]
  /\ left = [c \in Calls |-> {}] /\ hit = [c \in Calls |-> FALSE]
  /\ name = [c \in Calls |-> None]
  /\ carried = [c \in Calls |-> None]
  /\ status = [c \in Calls |-> "none"]
  /\ answer = [c \in Calls |-> "none"]
  /\ present \in SUBSET Schemas
  /\ dmp = NoFiles /\ zip = NoFiles
  /\ implog = [f \in FileNames |-> "none"]
  /\ job = [c \in Calls |-> "none"] /\ reads = [c \in Calls |-> None]
  /\ errors = [c \in Calls |-> "clean"]
  /\ free = [c \in Calls |-> {}] /\ touched = [c \in Calls |-> {}]
  /\ since = [c \in Calls |-> {}]
  /\ met = [c \in Calls |-> {}]

-----------------------------------------------------------------------------
Goto(c, here, there) == pc[c] = here /\ pc' = [pc EXCEPT ![c] = there]
Return(c, here, value) ==
  Goto(c, here, "end") /\ answer' = [answer EXCEPT ![c] = value]

\* Schema s appears on the target after call c asked for it the second time.
PastSecondLook(c, s) ==
  \/ pc[c] = "lookAgain" /\ s \notin left[c]
  \/ pc[c] \in {"import", "wait"}
  \/ job[c] = "running"
Appear(s, by) ==
  /\ present' = present \cup {s}
  /\ since' = [c \in Calls |-> IF s \notin present /\ c # by /\ PastSecondLook(c, s)
                              THEN since[c] \cup {s} ELSE since[c]]

Start(c) ==
  /\ Goto(c, "idle", "source")
  /\ met' = [d \in Calls |-> IF d = c THEN Working
                             ELSE IF d \in Working THEN met[d] \cup {c} ELSE met[d]]
  /\ UNCHANGED <<asked, left, hit, name, carried, status, answer, present, fileVars, jobVars,
                 free, touched, since>>

(* Others create a schema on the target. *)
OthersCreate(s) ==
  /\ s \notin present /\ Appear(s, None)
  /\ UNCHANGED <<callVars, fileVars, jobVars, free, touched, met>>

(* The schemas are on the source and are not Oracle's own. *)
CheckSource(c) ==
  /\ Goto(c, "source", "look")
  /\ left' = [left EXCEPT ![c] = asked[c].names]
  /\ UNCHANGED <<asked, hit, name, carried, status, answer, present, fileVars, jobVars, history>>

(* One name of the list: the query of the users is made for each of them.  *)
LookFor(c, s) ==
  /\ pc[c] \in {"look", "lookAgain"} /\ s \in left[c]
  /\ left' = [left EXCEPT ![c] = @ \ {s}]
  /\ hit' = [hit EXCEPT ![c] = @ \/ s \in present]
  /\ free' = [free EXCEPT ![c] = IF s \in present THEN @ ELSE @ \cup {s}]
  /\ UNCHANGED <<asked, pc, name, carried, status, answer, present, fileVars, jobVars,
                 touched, since, met>>

\* Fault: one name that exists is overlooked when another does not.
FoundAll(c) == hit[c] /\ asked[c].names \cap free[c] = {}
Found(c) == hit[c]

StopIfExisting(c) ==
  /\ left[c] = {}
  /\ IF Found(c) THEN Return(c, "look", "stopped")
                 ELSE Goto(c, "look", "plan") /\ answer' = answer
  /\ UNCHANGED <<asked, left, hit, name, carried, status, present, fileVars, jobVars, history>>

(* Tablespaces and directory objects are there; names are made. *)
Plan(c) ==
  /\ \E t \in Stamps : name' = [name EXCEPT ![c] = FileName(asked[c].names, t)]
  /\ IF asked[c].confirmed
     THEN Goto(c, "plan", "probe") /\ answer' = answer
     ELSE Return(c, "plan", "not_confirmed")
  /\ UNCHANGED <<asked, left, hit, carried, status, present, fileVars, jobVars, history>>

Probe(c) ==
  /\ Goto(c, "probe", "export")
  /\ UNCHANGED <<asked, left, hit, name, carried, status, answer, present, fileVars, jobVars, history>>

(* Data Pump does not overwrite a dump file. *)
Export(c) ==
  LET d == asked[c].src IN
  /\ pc[c] = "export" /\ dmp[d][name[c]] = None
  /\ dmp' = [dmp EXCEPT ![d][name[c]] = c]
  /\ \/ Goto(c, "export", "zip") /\ answer' = answer
     \/ Return(c, "export", "raised")
  /\ UNCHANGED <<asked, left, hit, name, carried, status, present, zip, implog, jobVars, history>>

ZipDump(c) ==
  LET d == asked[c].src IN
  /\ Goto(c, "zip", "download")
  /\ zip' = [zip EXCEPT ![d][name[c]] = dmp[d][name[c]]]
  /\ UNCHANGED <<asked, left, hit, name, carried, status, answer, present, dmp, implog, jobVars, history>>

Download(c) ==
  /\ Goto(c, "download", "upload")
  /\ carried' = [carried EXCEPT ![c] = zip[asked[c].src][name[c]]]
  /\ UNCHANGED <<asked, left, hit, name, status, answer, present, fileVars, jobVars, history>>

(* The temporary directory goes with the upload. *)
Upload(c) ==
  /\ Goto(c, "upload", "unzip")
  /\ zip' = [zip EXCEPT ![Target][name[c]] = carried[c]]
  /\ carried' = [carried EXCEPT ![c] = None]
  /\ UNCHANGED <<asked, left, hit, name, status, answer, present, dmp, implog, jobVars, history>>

\* Fault: a file that an earlier call has left is kept.
UnzipKeeping(c) ==
  /\ Goto(c, "unzip", "lookAgain")
  /\ dmp' = IF dmp[Target][name[c]] = None
            THEN [dmp EXCEPT ![Target][name[c]] = zip[Target][name[c]]] ELSE dmp
  /\ left' = [left EXCEPT ![c] = asked[c].names]
  /\ UNCHANGED <<asked, hit, name, carried, status, answer, present, zip, implog, jobVars, history>>
(* Expand-Archive -Force overwrites. *)
Unzip(c) ==
  /\ Goto(c, "unzip", "lookAgain")
  /\ dmp' = [dmp EXCEPT ![Target][name[c]] = zip[Target][name[c]]]
  /\ left' = [left EXCEPT ![c] = asked[c].names]
  /\ UNCHANGED <<asked, hit, name, carried, status, answer, present, zip, implog, jobVars, history>>

\* Fault: the second check is left out.
GoOn(c) ==
  /\ left[c] = {} /\ Goto(c, "lookAgain", "import")
  /\ UNCHANGED <<asked, left, hit, name, carried, status, answer, present, fileVars, jobVars, history>>
StopIfArrived(c) ==
  /\ left[c] = {}
  /\ IF Found(c) THEN Return(c, "lookAgain", "raised")
                 ELSE Goto(c, "lookAgain", "import") /\ answer' = answer
  /\ UNCHANGED <<asked, left, hit, name, carried, status, present, fileVars, jobVars, history>>

-----------------------------------------------------------------------------
(* The import job runs in the target database; the call waits for it.      *)

Stamp(f) == f[2]
StartImport(c) ==
  /\ Goto(c, "import", "wait")
  /\ \A d \in Calls : job[d] = "running" => Stamp(name[d]) # Stamp(name[c])
  /\ job' = [job EXCEPT ![c] = "running"]
  /\ reads' = [reads EXCEPT ![c] = dmp[Target][name[c]]]
  /\ implog' = [implog EXCEPT ![name[c]] = "clean"]
  /\ UNCHANGED <<asked, left, hit, name, carried, status, answer, present, dmp, zip, errors, history>>

First(log, line) == IF log = "clean" THEN line ELSE log

(* One schema of the dump.  A user that exists already is an error in the  *)
(* log, and its objects are imported beside those it has.                  *)
JobStep(c) ==
  /\ job[c] = "running"
  /\ \E s \in asked[reads[c]].names \ touched[c], line \in Places :
       /\ s \in present => line # "clean"
       /\ Appear(s, c)
       /\ touched' = [touched EXCEPT ![c] = @ \cup {s}]
       /\ errors' = [errors EXCEPT ![c] = First(@, line)]
       /\ implog' = [implog EXCEPT ![name[c]] = First(@, line)]
  /\ UNCHANGED <<callVars, dmp, zip, job, reads, free, met>>

(* The job completes, or is stopped by someone or by a fatal error. *)
JobEnd(c) ==
  /\ job[c] = "running"
  /\ \/ asked[reads[c]].names \subseteq touched[c] /\ job' = [job EXCEPT ![c] = "ok"]
     \/ job' = [job EXCEPT ![c] = "dead"]
  /\ UNCHANGED <<callVars, present, fileVars, reads, errors, history>>

WaitForJob(c) ==
  /\ job[c] # "running" /\ Goto(c, "wait", "log")
  /\ UNCHANGED <<asked, left, hit, name, carried, status, answer, present, fileVars, jobVars, history>>

(* The log is read before the state of the job is looked at: over SSH when *)
(* the host's port 22 answers, and then its first 100,000 bytes alone.     *)
OraLines(log, ssh) ==
  IF log \notin {"early", "late"} THEN "clean"
  ELSE IF ssh /\ log = "late" THEN "cut" ELSE "errors"
ReadLog(c) ==
  /\ pc[c] = "log"
  /\ \E ssh \in BOOLEAN : status' = [status EXCEPT ![c] = OraLines(implog[name[c]], ssh)]
  /\ IF job[c] = "ok" THEN Goto(c, "log", "count") /\ answer' = answer
                       ELSE Return(c, "log", "raised")
  /\ UNCHANGED <<asked, left, hit, name, carried, present, fileVars, jobVars, history>>

\* Fault: the state of the job alone decides.
CountAndAnswer(c) ==
  /\ Return(c, "count", "imported")
  /\ UNCHANGED <<asked, left, hit, name, carried, status, present, fileVars, jobVars, history>>
Count(c) ==
  /\ Return(c, "count", IF status[c] = "errors" THEN "imported_with_errors" ELSE "imported")
  /\ UNCHANGED <<asked, left, hit, name, carried, status, present, fileVars, jobVars, history>>

(* Any step raises.  A wait that is cut short by the call timeout or by    *)
(* the loss of the connection may leave the job behind.                    *)
Raise(c) ==
  /\ c \in Open
  /\ pc' = [pc EXCEPT ![c] = "end"] /\ answer' = [answer EXCEPT ![c] = "raised"]
  /\ carried' = [carried EXCEPT ![c] = None]
  /\ \/ job' = job
     \/ job[c] = "running" /\ job' = [job EXCEPT ![c] = "dead"]
  /\ UNCHANGED <<asked, left, hit, name, status, present, fileVars, reads, errors, history>>

Step(c) ==
  \/ Start(c) \/ CheckSource(c) \/ Plan(c) \/ Probe(c)
  \/ \E s \in Schemas : LookFor(c, s)
  \/ StopIfExisting(c) \/ StopIfArrived(c)
  \/ Export(c) \/ ZipDump(c) \/ Download(c) \/ Upload(c) \/ Unzip(c)
  \/ StartImport(c) \/ JobStep(c) \/ JobEnd(c) \/ WaitForJob(c)
  \/ ReadLog(c) \/ Count(c) \/ Raise(c)

Next ==
  \/ \E c \in Calls : Step(c)
  \/ \E s \in Schemas : OthersCreate(s)

Spec == Init /\ [][Next]_vars

-----------------------------------------------------------------------------
(* Properties. *)

\* Type correctness of the calls, the files and the import jobs.
TypeOK ==
  /\ asked \in [Calls -> Requests]
  /\ pc \in [Calls -> Pcs]
  /\ left \in [Calls -> SUBSET Schemas] /\ hit \in [Calls -> BOOLEAN]
  /\ name \in [Calls -> FileNames \cup {None}]
  /\ carried \in [Calls -> Calls \cup {None}]
  /\ status \in [Calls -> {"none", "clean", "errors", "cut"}]
  /\ answer \in [Calls -> Answers]
  /\ present \subseteq Schemas
  /\ dmp \in [Dbs -> [FileNames -> Calls \cup {None}]]
  /\ zip \in [Dbs -> [FileNames -> Calls \cup {None}]]
  /\ implog \in [FileNames -> Places \cup {"none"}]
  /\ job \in [Calls -> {"none", "running", "ok", "dead"}]
  /\ reads \in [Calls -> Calls \cup {None}]
  /\ errors \in [Calls -> Places]
  /\ free \in [Calls -> SUBSET Schemas] /\ touched \in [Calls -> SUBSET Schemas]
  /\ since \in [Calls -> SUBSET Schemas]
  /\ met \in [Calls -> SUBSET Calls]

\* Two calls of the same second that copy the same single schema, or any two
\* lists, through the same target.
Collides(c, d) == d \in met[c] /\ name[c] = name[d]
Alone(c) == \A d \in Calls \ {c} : ~Collides(c, d)

\* A call imports the dump it exported, although dumps, zips and left-over
\* files of other calls pass through the same directories, except when two
\* overlapping calls planned in the same second.
ImportsOwnDump ==
  \A c \in Calls : reads[c] # None /\ reads[c] # c =>
    reads[c] \in met[c] /\ name[c] = name[reads[c]]

\* A schema that exists gets objects of a call only if others made it after the
\* call had asked for it the second time: what appears in the minutes that the
\* export and the transfer take is noticed.
ImportsIntoFreshSchemas ==
  [][\A c \in Calls :
       Alone(c) => (touched'[c] \ touched[c]) \cap present \subseteq since[c]]_vars

\* A schema holds objects of two calls only when their work overlapped, or when
\* one of them read the dump of a third that chose its file name; a call
\* repeated after a failure never imports into what the failed one has left.
MixedOnlyByOverlap ==
  \A c, d \in Calls :
    c # d /\ Alone(c) /\ Alone(d) /\ touched[c] \cap touched[d] # {} => d \in met[c]

\* A plain "imported" means that every schema of the list was imported, and
\* that no object was refused and no schema had appeared under it, unless every
\* ORA- line of the import lies past the part of the log that SSH reads: errors
\* are hidden by that limit and by nothing else.
ImportedHidesNothing ==
  \A c \in Calls : answer[c] = "imported" /\ Alone(c) =>
    /\ touched[c] = asked[c].names
    /\ errors[c] = "clean" \/ (errors[c] = "late" /\ status[c] = "cut")

\* The requests and answers of the calls as SchemaCopy has them.
AnswerOf(a) ==
  CASE a \in {"stopped", "not_confirmed"} -> "declined"
    [] a \in {"imported", "imported_with_errors"} -> "copied"
    [] OTHER -> a
RequestOf(q) == [names |-> q.names, confirmed |-> q.confirmed, resume |-> FALSE]
promiseAsked == [c \in Calls |-> RequestOf(asked[c])]
promiseAnswer == [c \in Calls |-> AnswerOf(answer[c])]
Promise == INSTANCE SchemaCopy WITH asked <- promiseAsked, answer <- promiseAnswer

\* The calls implement the promise of the tools to the target.
ImplementsPromise == Promise!Spec

=============================================================================
