------------------------ MODULE SchemaDatapumpProofs ------------------------
(***************************************************************************)
(* TypeOK of SchemaDatapump, that it implements SchemaCopy, whose dump a   *)
(* call imports and into which schemas, for every set of calls, source     *)
(* databases and seconds and every finite set of schemas.                  *)
(***************************************************************************)
EXTENDS SchemaDatapump, FiniteSetTheorems, TLAPS

\* The name a call makes for its files is one of the file names: a list of one
\* schema is that schema.
LEMMA FileNameType ==
  ASSUME NEW names \in SUBSET Schemas, NEW t \in Stamps
  PROVE  FileName(names, t) \in FileNames
<1>1. IsFiniteSet(names)
  BY DatapumpAssumption, FS_Subset
<1>2. Kind(names) \in Kinds
  <2>1. CASE Cardinality(names) = 1
    <3>1. PICK s : names = {s}
      BY <1>1, <2>1, FS_Singleton
    <3> QED BY <2>1, <3>1 DEF Kind, Kinds
  <2>2. CASE Cardinality(names) # 1
    BY <2>2 DEF Kind, Kinds
  <2> QED BY <2>1, <2>2
<1> QED BY <1>2 DEF FileName, FileNames

\* From the plan on a call has its file names, and the file that its next step
\* reads is there: files are written over and never removed.  TypeOK is
\* inductive with these two.
AfterPlan == {"probe", "export", "zip", "download", "upload", "unzip", "lookAgain", "import",
              "wait", "log", "count"}
Named == \A c \in Calls : pc[c] \in AfterPlan => name[c] \in FileNames
FilledAt(c) ==
  /\ pc[c] = "zip" => dmp[asked[c].src][name[c]] \in Calls
  /\ pc[c] = "download" => zip[asked[c].src][name[c]] \in Calls
  /\ pc[c] = "upload" => carried[c] \in Calls
  /\ pc[c] = "unzip" => zip[Target][name[c]] \in Calls
  /\ pc[c] \in {"lookAgain", "import"} => dmp[Target][name[c]] \in Calls
  /\ job[c] # "none" => reads[c] \in Calls
Filled == \A c \in Calls : FilledAt(c)
TypeInv == TypeOK /\ Named /\ Filled

LEMMA TypeInit == Init => TypeInv
BY DatapumpAssumption DEF Init, Places, TypeInv, TypeOK, Named, Filled, FilledAt, AfterPlan, NoFiles, Pcs, Answers

LEMMA NamedNext == TypeOK /\ Named /\ [Next]_vars => Named'
<1> SUFFICES ASSUME TypeOK, Named, [Next]_vars PROVE Named'
  OBVIOUS
<1> USE DEF callVars, fileVars, jobVars, history, Goto, Return, AfterPlan
<1>1. ASSUME NEW c \in Calls, Plan(c) PROVE Named'
  <2>1. PICK t \in Stamps : name' = [name EXCEPT ![c] = FileName(asked[c].names, t)]
    BY <1>1 DEF Plan
  <2>2. name'[c] \in FileNames
    BY <2>1, FileNameType DEF TypeOK, Requests
  <2>3. \A d \in Calls \ {c} : name'[d] = name[d] /\ pc'[d] = pc[d]
    BY <1>1, <2>1 DEF Plan, TypeOK
  <2> QED BY <2>2, <2>3 DEF Named
<1>2. ASSUME NEW c \in Calls, Step(c), ~Plan(c) PROVE Named'
  BY <1>2 DEF Step, Start, CheckSource, LookFor, StopIfExisting, Probe, Export, ZipDump, Download,
    Upload, Unzip, StopIfArrived, StartImport, JobStep, JobEnd, WaitForJob, ReadLog, Count, Raise,
    TypeOK, Named
<1>3. ASSUME NEW s \in Schemas, OthersCreate(s) PROVE Named'
  BY <1>3 DEF OthersCreate, Named
<1>4. CASE UNCHANGED vars
  BY <1>4 DEF vars, Named
<1> QED BY <1>1, <1>2, <1>3, <1>4 DEF Next

LEMMA TypeNext == TypeInv /\ [Next]_vars => TypeOK'
<1> SUFFICES ASSUME TypeOK, Named, Filled, [Next]_vars PROVE TypeOK'
  BY DEF TypeInv
<1> USE DEF callVars, fileVars, jobVars, history, Goto, Return
<1>1. ASSUME NEW s \in Schemas, OthersCreate(s) PROVE TypeOK'
  BY <1>1 DEF OthersCreate, Appear, TypeOK
<1>2. ASSUME NEW c \in Calls, Step(c) PROVE TypeOK'
  <2>0. asked[c] \in Requests /\ asked[c].src \in Dbs /\ asked[c].names \in SUBSET Schemas /\ Target \in Dbs
    BY DEF TypeOK, Requests, Dbs
  <2>00. pc[c] \in AfterPlan => name[c] \in FileNames
    BY DEF Named
  <2>1. CASE Start(c)
    BY <2>1 DEF Start, TypeOK, Pcs, Working, Open
  <2>2. CASE CheckSource(c)
    BY <2>2, <2>0 DEF CheckSource, TypeOK, Pcs
  <2>3. ASSUME NEW s \in Schemas, LookFor(c, s) PROVE TypeOK'
    BY <2>3 DEF LookFor, TypeOK
  <2>4. CASE StopIfExisting(c)
    BY <2>4 DEF StopIfExisting, TypeOK, Pcs, Answers
  <2>5. CASE Plan(c)
    <3>1. PICK t \in Stamps : name' = [name EXCEPT ![c] = FileName(asked[c].names, t)]
      BY <2>5 DEF Plan
    <3>2. name' \in [Calls -> FileNames \cup {None}]
      BY <3>1, <2>0, FileNameType DEF TypeOK
    <3>3. pc' \in [Calls -> Pcs] /\ answer' \in [Calls -> Answers]
      <4>1. CASE asked[c].confirmed
        BY <2>5, <4>1 DEF Plan, TypeOK, Pcs
      <4>2. CASE ~asked[c].confirmed
        BY <2>5, <4>2, ZenonT(30) DEF Plan, TypeOK, Pcs, Answers
      <4> QED BY <4>1, <4>2
    <3>4. UNCHANGED <<asked, left, hit, carried, status, present, fileVars, jobVars, history>>
      BY <2>5 DEF Plan
    <3> QED BY <3>2, <3>3, <3>4 DEF TypeOK
  <2>6. CASE Probe(c)
    BY <2>6 DEF Probe, TypeOK, Pcs
  <2>7. CASE Export(c)
    <3>1. dmp' \in [Dbs -> [FileNames -> Calls \cup {None}]]
      BY <2>7, <2>0 DEF Export, TypeOK
    <3>2. pc' \in [Calls -> Pcs] /\ answer' \in [Calls -> Answers]
      <4>1. CASE Goto(c, "export", "zip") /\ answer' = answer
        BY <4>1 DEF TypeOK, Pcs
      <4>2. CASE Return(c, "export", "raised")
        BY <4>2 DEF TypeOK, Pcs, Answers
      <4> QED BY <2>7, <4>1, <4>2 DEF Export
    <3>3. UNCHANGED <<asked, left, hit, name, carried, status, present, zip, implog, jobVars, history>>
      BY <2>7 DEF Export
    <3> QED BY <3>1, <3>2, <3>3 DEF TypeOK
  <2>8. CASE ZipDump(c)
    BY <2>8, <2>0, <2>00 DEF AfterPlan, ZipDump, TypeOK, Pcs
  <2>9. CASE Download(c)
    BY <2>9, <2>0, <2>00 DEF AfterPlan, Download, TypeOK, Pcs
  <2>10. CASE Upload(c)
    BY <2>10, <2>0, <2>00 DEF AfterPlan, Upload, TypeOK, Pcs
  <2>11. CASE Unzip(c)
    BY <2>11, <2>0, <2>00 DEF AfterPlan, Unzip, TypeOK, Pcs
  <2>12. CASE StopIfArrived(c)
    BY <2>12 DEF StopIfArrived, TypeOK, Pcs, Answers
  <2>13. CASE StartImport(c)
    BY <2>13, <2>0, <2>00 DEF AfterPlan, StartImport, TypeOK, Pcs, Places
  <2>14. CASE JobStep(c)
    <3>1. PICK s \in Schemas, line \in Places :
            /\ Appear(s, c)
            /\ touched' = [touched EXCEPT ![c] = @ \cup {s}]
            /\ errors' = [errors EXCEPT ![c] = First(@, line)]
            /\ implog' = [implog EXCEPT ![name[c]] = First(@, line)]
      <4>1. reads[c] \in Calls
        BY <2>14 DEF JobStep, Filled, FilledAt
      <4> QED BY <2>14, <4>1 DEF JobStep, TypeOK, Requests
    <3>2. present' \subseteq Schemas /\ since' \in [Calls -> SUBSET Schemas]
      BY <3>1 DEF Appear, TypeOK
    <3>3. touched' \in [Calls -> SUBSET Schemas] /\ errors' \in [Calls -> Places]
      BY <3>1 DEF TypeOK, First
    <3>4. implog' \in [FileNames -> Places \cup {"none"}]
      BY <3>1 DEF TypeOK, First
    <3>5. UNCHANGED <<callVars, dmp, zip, job, reads, free, met>>
      BY <2>14 DEF JobStep
    <3> QED BY <3>2, <3>3, <3>4, <3>5 DEF TypeOK
  <2>15. CASE JobEnd(c)
    BY <2>15 DEF JobEnd, TypeOK
  <2>16. CASE WaitForJob(c)
    BY <2>16 DEF WaitForJob, TypeOK, Pcs
  <2>17. CASE ReadLog(c)
    <3>1. PICK ssh \in BOOLEAN : status' = [status EXCEPT ![c] = OraLines(implog[name[c]], ssh)]
      BY <2>17 DEF ReadLog
    <3>2. status' \in [Calls -> {"none", "clean", "errors", "cut"}]
      BY <3>1 DEF OraLines, TypeOK
    <3>3. pc' \in [Calls -> Pcs] /\ answer' \in [Calls -> Answers]
      <4>1. CASE job[c] = "ok"
        BY <2>17, <4>1 DEF ReadLog, TypeOK, Pcs
      <4>2. CASE job[c] # "ok"
        <5>1. /\ pc' = [pc EXCEPT ![c] = "end"] /\ answer' = [answer EXCEPT ![c] = "raised"]
              /\ "end" \in Pcs /\ "raised" \in Answers
          BY <2>17, <4>2 DEF ReadLog, Pcs, Answers
        <5> QED BY <5>1 DEF TypeOK
      <4> QED BY <4>1, <4>2
    <3>4. UNCHANGED <<asked, left, hit, name, carried, present, fileVars, jobVars, history>>
      BY <2>17 DEF ReadLog
    <3> QED BY <3>2, <3>3, <3>4 DEF TypeOK
  <2>18. CASE Count(c)
    BY <2>18 DEF Count, TypeOK, Pcs, Answers
  <2>19. CASE Raise(c)
    BY <2>19 DEF Raise, TypeOK, Pcs, Answers
  <2> QED BY <1>2, <2>1, <2>2, <2>3, <2>4, <2>5, <2>6, <2>7, <2>8, <2>9, <2>10,
             <2>11, <2>12, <2>13, <2>14, <2>15, <2>16, <2>17, <2>18, <2>19 DEF Step
<1>3. CASE UNCHANGED vars
  BY <1>3 DEF vars, TypeOK
<1> QED BY <1>1, <1>2, <1>3 DEF Next

(* What a step of one call leaves of the files is enough for the others.   *)
LEMMA FilledOthers ==
  ASSUME TypeInv, TypeOK', asked' = asked, NEW c \in Calls,
         \A d \in Calls \ {c} : /\ pc'[d] = pc[d] /\ name'[d] = name[d]
                                /\ carried'[d] = carried[d]
                                /\ job'[d] = job[d] /\ reads'[d] = reads[d],
         \A d \in Dbs, f \in FileNames :
           /\ dmp[d][f] \in Calls => dmp'[d][f] \in Calls
           /\ zip[d][f] \in Calls => zip'[d][f] \in Calls,
         FilledAt(c)'
  PROVE  Filled'
<1> SUFFICES ASSUME NEW d \in Calls, d # c PROVE FilledAt(d)'
  BY DEF Filled
<1>1. FilledAt(d) /\ (pc[d] \in AfterPlan => name[d] \in FileNames)
  BY DEF TypeInv, Filled, Named
<1>2. asked[d].src \in Dbs /\ Target \in Dbs
  BY DEF TypeInv, TypeOK, Requests, Dbs
<1> QED BY <1>1, <1>2 DEF FilledAt, AfterPlan

LEMMA FilledNext == TypeInv /\ TypeOK' /\ [Next]_vars => Filled'
<1> SUFFICES ASSUME TypeInv, TypeOK', [Next]_vars PROVE Filled'
  OBVIOUS
<1> USE DEF callVars, fileVars, jobVars, history, Goto, Return
<1>1. ASSUME NEW s \in Schemas, OthersCreate(s) PROVE Filled'
  BY <1>1 DEF OthersCreate, TypeInv, Filled, FilledAt
<1>2. ASSUME NEW c \in Calls, Step(c) PROVE Filled'
  <2>0. asked[c].src \in Dbs /\ Target \in Dbs
    BY DEF TypeInv, TypeOK, Requests, Dbs
  <2>00. FilledAt(c) /\ (pc[c] \in AfterPlan => name[c] \in FileNames)
    BY DEF TypeInv, Filled, Named
  <2>1. CASE Export(c)
    <3>1. FilledAt(c)'
      BY <2>1, <2>0, <2>00 DEF Export, TypeInv, TypeOK, FilledAt, AfterPlan
    <3>2. \A d \in Dbs, f \in FileNames : dmp[d][f] \in Calls => dmp'[d][f] \in Calls
      BY <2>1, <2>0 DEF Export, TypeInv, TypeOK
    <3> QED BY <2>1, <3>1, <3>2, FilledOthers DEF Export, TypeInv, TypeOK
  <2>2. CASE ZipDump(c)
    <3>1. FilledAt(c)'
      BY <2>2, <2>0, <2>00 DEF ZipDump, TypeInv, TypeOK, FilledAt, AfterPlan
    <3>2. \A d \in Dbs, f \in FileNames : zip[d][f] \in Calls => zip'[d][f] \in Calls
      BY <2>2, <2>0, <2>00 DEF ZipDump, TypeInv, TypeOK, FilledAt
    <3> QED BY <2>2, <3>1, <3>2, FilledOthers DEF ZipDump, TypeInv, TypeOK
  <2>3. CASE Download(c)
    <3>1. FilledAt(c)'
      BY <2>3, <2>00 DEF Download, TypeInv, TypeOK, FilledAt
    <3> QED BY <2>3, <3>1, FilledOthers DEF Download, TypeInv, TypeOK
  <2>4. CASE Upload(c)
    <3>1. FilledAt(c)'
      BY <2>4, <2>0, <2>00 DEF Upload, TypeInv, TypeOK, FilledAt, AfterPlan
    <3>2. \A d \in Dbs, f \in FileNames : zip[d][f] \in Calls => zip'[d][f] \in Calls
      BY <2>4, <2>0, <2>00 DEF Upload, TypeInv, TypeOK, FilledAt
    <3> QED BY <2>4, <3>1, <3>2, FilledOthers DEF Upload, TypeInv, TypeOK
  <2>5. CASE Unzip(c)
    <3>1. FilledAt(c)'
      BY <2>5, <2>0, <2>00 DEF Unzip, TypeInv, TypeOK, FilledAt, AfterPlan
    <3>2. \A d \in Dbs, f \in FileNames : dmp[d][f] \in Calls => dmp'[d][f] \in Calls
      BY <2>5, <2>0, <2>00 DEF Unzip, TypeInv, TypeOK, FilledAt
    <3> QED BY <2>5, <3>1, <3>2, FilledOthers DEF Unzip, TypeInv, TypeOK
  <2>6. CASE StartImport(c)
    <3>1. FilledAt(c)'
      BY <2>6, <2>00 DEF StartImport, TypeInv, TypeOK, FilledAt
    <3> QED BY <2>6, <3>1, FilledOthers DEF StartImport, TypeInv, TypeOK
  <2>7. CASE Plan(c)
    <3>1. name' \in [Calls -> FileNames \cup {None}] /\ \A d \in Calls \ {c} : name'[d] = name[d]
      BY <2>7 DEF Plan, TypeInv, TypeOK
    <3>2. pc'[c] \in {"probe", "end"} /\ \A d \in Calls \ {c} : pc'[d] = pc[d]
      BY <2>7 DEF Plan, TypeInv, TypeOK
    <3>3. UNCHANGED <<asked, carried, job, reads, dmp, zip>>
      BY <2>7 DEF Plan
    <3>4. FilledAt(c)'
      BY <3>2, <3>3, <2>00 DEF FilledAt
    <3> QED BY <3>1, <3>2, <3>3, <3>4, FilledOthers
  <2>8. CASE StopIfArrived(c)
    <3>1. FilledAt(c)'
      BY <2>8, <2>00 DEF StopIfArrived, TypeInv, TypeOK, FilledAt
    <3> QED BY <2>8, <3>1, FilledOthers DEF StopIfArrived, TypeInv, TypeOK
  <2>9. CASE Start(c) \/ CheckSource(c) \/ StopIfExisting(c) \/ Probe(c) \/ WaitForJob(c)
             \/ ReadLog(c) \/ Count(c)
    <3>1. /\ pc'[c] \in {"source", "look", "plan", "export", "log", "count", "end"}
          /\ \A d \in Calls \ {c} : pc'[d] = pc[d]
      BY <2>9 DEF Start, CheckSource, StopIfExisting, Probe, WaitForJob, ReadLog, Count,
                  TypeInv, TypeOK
    <3>2. UNCHANGED <<asked, name, carried, job, reads, dmp, zip>>
      BY <2>9 DEF Start, CheckSource, StopIfExisting, Probe, WaitForJob, ReadLog, Count
    <3>3. FilledAt(c)'
      BY <3>1, <3>2, <2>00 DEF FilledAt
    <3> QED BY <3>1, <3>2, <3>3, FilledOthers
  <2>10. CASE JobStep(c) \/ JobEnd(c) \/ Raise(c) \/ \E s \in Schemas : LookFor(c, s)
    <3>1. /\ pc'[c] = pc[c] \/ pc'[c] = "end"
          /\ carried'[c] = carried[c] \/ pc'[c] = "end"
          /\ job'[c] # "none" => job[c] # "none"
          /\ \A d \in Calls \ {c} : pc'[d] = pc[d] /\ carried'[d] = carried[d] /\ job'[d] = job[d]
      <4>1. CASE JobStep(c) \/ \E s \in Schemas : LookFor(c, s)
        <5>1. pc' = pc /\ carried' = carried /\ job' = job
          BY <4>1 DEF JobStep, LookFor
        <5> QED BY <5>1
      <4>2. CASE JobEnd(c)
        BY <4>2 DEF JobEnd, TypeInv, TypeOK
      <4>3. CASE Raise(c)
        BY <4>3 DEF Raise, TypeInv, TypeOK
      <4> QED BY <2>10, <4>1, <4>2, <4>3
    <3>2. UNCHANGED <<asked, name, reads, dmp, zip>>
      BY <2>10 DEF JobStep, JobEnd, Raise, LookFor
    <3>3. FilledAt(c)'
      BY <3>1, <3>2, <2>00 DEF FilledAt, TypeInv, TypeOK
    <3> QED BY <3>1, <3>2, <3>3, FilledOthers
  <2> QED BY <1>2, <2>1, <2>2, <2>3, <2>4, <2>5, <2>6, <2>7, <2>8, <2>9, <2>10 DEF Step
<1>3. CASE UNCHANGED vars
  BY <1>3 DEF vars, TypeInv, Filled, FilledAt
<1> QED BY <1>1, <1>2, <1>3 DEF Next

LEMMA TypeInvariant == Spec => []TypeInv
BY TypeInit, TypeNext, NamedNext, FilledNext, PTL DEF Spec, TypeInv

\* Type correctness: what the copy holds in its locals, the two directories and
\* the import jobs keeps its type in every execution.
THEOREM TypeCorrect == Spec => []TypeOK
BY TypeInvariant, PTL DEF TypeInv

-----------------------------------------------------------------------------
(* SchemaDatapump implements SchemaCopy.                                    *)

\* The call may change the target: it was confirmed and has seen every schema
\* of its list absent.
Cleared(c) == asked[c].confirmed /\ free[c] = asked[c].names

BeforeImport == Pcs \ {"wait", "log", "count", "end"}

\* A call that has come past its plan was cleared, and so was every call whose
\* dump lies anywhere; an import reads such a dump, and runs only for a call
\* that waits for it or has raised.
CopyInvAt(c) ==
  /\ pc[c] # "end" => answer[c] = "none"
  /\ free[c] \subseteq asked[c].names /\ left[c] \subseteq asked[c].names
  /\ pc[c] \in {"idle", "source"} => ~hit[c]
  /\ pc[c] = "look" /\ ~hit[c] => asked[c].names \ left[c] \subseteq free[c]
  /\ pc[c] = "plan" => free[c] = asked[c].names
  /\ pc[c] \in AfterPlan => Cleared(c)
  /\ carried[c] \in Calls => Cleared(carried[c])
  /\ job[c] # "none" => Cleared(c) /\ Cleared(reads[c])
  /\ job[c] = "running" => pc[c] = "wait" \/ (pc[c] = "end" /\ answer[c] = "raised")
  /\ job[c] = "none" => touched[c] = {}
  /\ job[c] = "ok" => touched[c] # {}
  /\ pc[c] \in BeforeImport => job[c] = "none"
  /\ pc[c] = "count" => job[c] = "ok"
FilesCleared ==
  \A d \in Dbs, f \in FileNames :
    /\ dmp[d][f] \in Calls => Cleared(dmp[d][f])
    /\ zip[d][f] \in Calls => Cleared(zip[d][f])
CopyInv == FilesCleared /\ \A c \in Calls : CopyInvAt(c)

LEMMA CopyInit == Init => CopyInv
BY DatapumpAssumption
   DEF Init, CopyInv, CopyInvAt, FilesCleared, NoFiles, BeforeImport, AfterPlan, Pcs

\* Nothing takes the clearance of a call away.
LEMMA ClearedGrows ==
  ASSUME TypeInv, CopyInv, [Next]_vars, NEW d \in Calls, Cleared(d)
  PROVE  Cleared(d)'
<1> USE DEF callVars, fileVars, jobVars, history, TypeInv, TypeOK, CopyInv, CopyInvAt, Cleared
<1>1. ASSUME NEW c \in Calls, NEW s \in Schemas, LookFor(c, s) PROVE Cleared(d)'
  <2>1. asked' = asked /\ s \in asked[c].names
    BY <1>1 DEF LookFor
  <2>2. free'[d] = free[d] \/ (d = c /\ free'[d] = free[d] \cup {s})
    BY <1>1 DEF LookFor
  <2>3. d = c => s \in free[d]
    BY <2>1
  <2>4. free'[d] = free[d]
    <3>1. CASE d = c
      <4>1. free[d] \cup {s} = free[d]
        BY <2>3, <3>1
      <4> QED BY <2>2, <4>1
    <3>2. CASE d # c
      BY <2>2, <3>2
    <3> QED BY <3>1, <3>2
  <2> QED BY <2>1, <2>4
<1>2. ASSUME NEW c \in Calls, Step(c), \A s \in Schemas : ~LookFor(c, s) PROVE asked' = asked /\ free' = free
  BY <1>2 DEF Step, Start, CheckSource, StopIfExisting, Plan, Probe, Export, ZipDump, Download,
    Upload, Unzip, StopIfArrived, StartImport, JobStep, JobEnd, WaitForJob, ReadLog, Count, Raise
<1>3. ASSUME NEW s \in Schemas, OthersCreate(s) PROVE asked' = asked /\ free' = free
  BY <1>3 DEF OthersCreate
<1>4. CASE UNCHANGED vars
  BY <1>4 DEF vars
<1> QED BY <1>1, <1>2, <1>3, <1>4 DEF Next

(* A call whose own variables stay keeps its part of the invariant.        *)
LEMMA CopyOthers ==
  ASSUME TypeInv, CopyInv, [Next]_vars, NEW d \in Calls, asked' = asked,
         pc'[d] = pc[d], answer'[d] = answer[d], free'[d] = free[d], left'[d] = left[d],
         hit'[d] = hit[d], carried'[d] = carried[d], job'[d] = job[d], reads'[d] = reads[d],
         touched'[d] = touched[d]
  PROVE  CopyInvAt(d)'
<1>1. \A e \in Calls : Cleared(e) => Cleared(e)'
  BY ClearedGrows
<1>2. job[d] # "none" => reads[d] \in Calls
  BY DEF TypeInv, Filled, FilledAt
<1> QED BY <1>1, <1>2 DEF CopyInv, CopyInvAt

(* Files that an action adds hold the dump of a cleared call.              *)
LEMMA FilesStay ==
  ASSUME TypeInv, CopyInv, [Next]_vars,
         \A d \in Dbs, f \in FileNames :
           /\ dmp'[d][f] = dmp[d][f] \/ dmp'[d][f] \notin Calls \/ Cleared(dmp'[d][f])
           /\ zip'[d][f] = zip[d][f] \/ zip'[d][f] \notin Calls \/ Cleared(zip'[d][f])
  PROVE  FilesCleared'
BY ClearedGrows DEF CopyInv, FilesCleared

LEMMA CopyNext == TypeInv /\ TypeInv' /\ CopyInv /\ [Next]_vars => CopyInv'
<1> SUFFICES ASSUME TypeInv, TypeInv', CopyInv, [Next]_vars PROVE CopyInv'
  OBVIOUS
<1> USE DEF callVars, fileVars, jobVars, history, Goto, Return
<1>1. ASSUME NEW s \in Schemas, OthersCreate(s) PROVE CopyInv'
  <2>1. \A d \in Calls : CopyInvAt(d)'
    BY <1>1, CopyOthers DEF OthersCreate
  <2>2. FilesCleared'
    BY <1>1, FilesStay DEF OthersCreate
  <2> QED BY <2>1, <2>2 DEF CopyInv
<1>2. ASSUME NEW c \in Calls, Step(c) PROVE CopyInv'
  <2>0. /\ CopyInvAt(c) /\ FilledAt(c) /\ (pc[c] \in AfterPlan => name[c] \in FileNames)
        /\ FilesCleared /\ asked[c].src \in Dbs /\ Target \in Dbs
    BY DEF CopyInv, TypeInv, TypeOK, Requests, Dbs, Filled, Named
  <2>00. \A d \in Calls : Cleared(d) => Cleared(d)'
    BY ClearedGrows
  <2> DEFINE Same(d) == /\ pc'[d] = pc[d] /\ answer'[d] = answer[d] /\ free'[d] = free[d]
                        /\ left'[d] = left[d] /\ hit'[d] = hit[d] /\ carried'[d] = carried[d]
                        /\ job'[d] = job[d] /\ reads'[d] = reads[d] /\ touched'[d] = touched[d]
  <2>s. ASSUME asked' = asked, \A d \in Calls \ {c} : Same(d), CopyInvAt(c)', FilesCleared'
        PROVE  CopyInv'
    BY <2>s, CopyOthers DEF CopyInv
  <2>1. CASE Start(c) \/ CheckSource(c) \/ Probe(c)
    <3>1. CopyInvAt(c)'
      BY <2>1, <2>0, <2>00 DEF Start, CheckSource, Probe, CopyInvAt, Cleared, AfterPlan, BeforeImport,
        TypeInv, TypeOK, Pcs
    <3>2. FilesCleared'
      BY <2>1, FilesStay DEF Start, CheckSource, Probe
    <3> QED BY <2>1, <2>s, <3>1, <3>2 DEF Start, CheckSource, Probe, TypeInv, TypeOK
  <2>2. ASSUME NEW s \in Schemas, LookFor(c, s) PROVE CopyInv'
    <3>1. CopyInvAt(c)'
      <4>1. /\ pc[c] \in {"look", "lookAgain"} /\ s \in left[c]
            /\ left'[c] = left[c] \ {s}
            /\ free'[c] = IF s \in present THEN free[c] ELSE free[c] \cup {s}
            /\ UNCHANGED <<asked, pc, carried, answer, job, reads, touched>>
        BY <2>2 DEF LookFor, TypeInv, TypeOK
      <4>0. ~hit'[c] => ~hit[c] /\ s \notin present
        <5>1. hit \in [Calls -> BOOLEAN] /\ hit' = [hit EXCEPT ![c] = @ \/ s \in present]
          BY <2>2 DEF LookFor, TypeInv, TypeOK
        <5>2. hit'[c] = (hit[c] \/ s \in present)
          BY <5>1, Zenon
        <5> QED BY <5>2, Zenon
      <4>2. free'[c] \subseteq asked[c].names /\ left'[c] \subseteq asked[c].names
        BY <4>1, <2>0 DEF CopyInvAt
      <4>3. ~hit'[c] => ~hit[c] /\ left[c] \ left'[c] \subseteq free'[c] /\ free[c] \subseteq free'[c]
        BY <4>0, <4>1
      <4>4. pc[c] = "look" /\ ~hit'[c] => asked[c].names \ left'[c] \subseteq free'[c]
        BY <4>3, <2>0 DEF CopyInvAt
      <4> QED BY <4>1, <4>2, <4>4, <2>0, <2>00 DEF CopyInvAt, FilledAt, AfterPlan
    <3>2. FilesCleared'
      BY <2>2, FilesStay DEF LookFor
    <3> QED BY <2>2, <2>s, <3>1, <3>2 DEF LookFor, TypeInv, TypeOK
  <2>3. CASE StopIfExisting(c)
    <3>1. CopyInvAt(c)'
      <4>1. ~hit[c] => free[c] = asked[c].names
        BY <2>3, <2>0 DEF StopIfExisting, Found, CopyInvAt
      <4>2. CASE hit[c]
        BY <4>2, <2>3, <2>0, <2>00 DEF StopIfExisting, Found, CopyInvAt, AfterPlan, BeforeImport,
          TypeInv, TypeOK, Pcs
      <4>3. CASE ~hit[c]
        BY <4>1, <4>3, <2>3, <2>0, <2>00 DEF StopIfExisting, Found, CopyInvAt, AfterPlan, BeforeImport,
          TypeInv, TypeOK, Pcs
      <4> QED BY <4>2, <4>3
    <3>2. FilesCleared'
      BY <2>3, FilesStay DEF StopIfExisting
    <3> QED BY <2>3, <2>s, <3>1, <3>2 DEF StopIfExisting, TypeInv, TypeOK
  <2>4. CASE Plan(c)
    <3>1. CopyInvAt(c)'
      BY <2>4, <2>0, <2>00 DEF Plan, CopyInvAt, Cleared, AfterPlan, BeforeImport, TypeInv, TypeOK, Pcs
    <3>2. FilesCleared'
      BY <2>4, FilesStay DEF Plan
    <3> QED BY <2>4, <2>s, <3>1, <3>2 DEF Plan, TypeInv, TypeOK
  <2>5. CASE Export(c)
    <3>0. pc[c] = "export" /\ Cleared(c)
      BY <2>5, <2>0 DEF Export, CopyInvAt, AfterPlan
    <3>1. CopyInvAt(c)'
      BY <2>5, <2>0, <2>00, <3>0 DEF Export, CopyInvAt, AfterPlan, BeforeImport, TypeInv, TypeOK, Pcs
    <3>2. FilesCleared'
      BY <2>5, <2>0, <3>0, FilesStay DEF Export, TypeInv, TypeOK
    <3> QED BY <2>5, <2>s, <3>1, <3>2 DEF Export, TypeInv, TypeOK
  <2>6. CASE ZipDump(c)
    <3>1. CopyInvAt(c)'
      BY <2>6, <2>0, <2>00 DEF ZipDump, CopyInvAt, AfterPlan, BeforeImport, TypeInv, TypeOK, Pcs
    <3>2. FilesCleared'
      BY <2>6, <2>0, FilesStay DEF ZipDump, FilesCleared, AfterPlan, TypeInv, TypeOK
    <3> QED BY <2>6, <2>s, <3>1, <3>2 DEF ZipDump, TypeInv, TypeOK
  <2>7. CASE Download(c)
    <3>1. CopyInvAt(c)'
      BY <2>7, <2>0, <2>00 DEF Download, CopyInvAt, FilesCleared, AfterPlan, BeforeImport,
        TypeInv, TypeOK, Pcs
    <3>2. FilesCleared'
      BY <2>7, FilesStay DEF Download
    <3> QED BY <2>7, <2>s, <3>1, <3>2 DEF Download, TypeInv, TypeOK
  <2>8. CASE Upload(c)
    <3>1. CopyInvAt(c)'
      BY <2>8, <2>0, <2>00, DatapumpAssumption DEF Upload, CopyInvAt, AfterPlan, BeforeImport,
        TypeInv, TypeOK, Pcs
    <3>2. FilesCleared'
      BY <2>8, <2>0, FilesStay DEF Upload, CopyInvAt, AfterPlan, TypeInv, TypeOK
    <3> QED BY <2>8, <2>s, <3>1, <3>2 DEF Upload, TypeInv, TypeOK
  <2>9. CASE Unzip(c)
    <3>1. CopyInvAt(c)'
      BY <2>9, <2>0, <2>00 DEF Unzip, CopyInvAt, AfterPlan, BeforeImport, TypeInv, TypeOK, Pcs
    <3>2. FilesCleared'
      BY <2>9, <2>0, FilesStay DEF Unzip, FilesCleared, AfterPlan, TypeInv, TypeOK
    <3> QED BY <2>9, <2>s, <3>1, <3>2 DEF Unzip, TypeInv, TypeOK
  <2>10. CASE StopIfArrived(c)
    <3>1. CopyInvAt(c)'
      BY <2>10, <2>0, <2>00 DEF StopIfArrived, CopyInvAt, AfterPlan, BeforeImport, TypeInv, TypeOK, Pcs
    <3>2. FilesCleared'
      BY <2>10, FilesStay DEF StopIfArrived
    <3> QED BY <2>10, <2>s, <3>1, <3>2 DEF StopIfArrived, TypeInv, TypeOK
  <2>11. CASE StartImport(c)
    <3>1. CopyInvAt(c)'
      BY <2>11, <2>0, <2>00 DEF StartImport, CopyInvAt, FilledAt, FilesCleared, AfterPlan,
        BeforeImport, TypeInv, TypeOK, Pcs
    <3>2. FilesCleared'
      BY <2>11, FilesStay DEF StartImport
    <3> QED BY <2>11, <2>s, <3>1, <3>2 DEF StartImport, TypeInv, TypeOK
  <2>12. CASE JobStep(c)
    <3>1. /\ job[c] = "running" /\ job' = job /\ reads' = reads /\ UNCHANGED callVars /\ free' = free
          /\ \A d \in Calls \ {c} : touched'[d] = touched[d]
      BY <2>12 DEF JobStep, TypeInv, TypeOK
    <3>2. CopyInvAt(c)'
      BY <3>1, <2>0, <2>00 DEF CopyInvAt, FilledAt
    <3>3. FilesCleared'
      BY <2>12, FilesStay DEF JobStep
    <3> QED BY <2>s, <3>1, <3>2, <3>3
  <2>13. CASE JobEnd(c)
    <3>0. asked[reads[c]].names # {}
      <4>1. reads[c] \in Calls
        BY <2>13, <2>0 DEF JobEnd, FilledAt
      <4>2. asked[reads[c]] \in Requests
        BY <4>1 DEF TypeInv, TypeOK
      <4> QED BY <4>2 DEF Requests
    <3>1. CopyInvAt(c)'
      BY <2>13, <3>0, <2>0, <2>00 DEF JobEnd, CopyInvAt, FilledAt, BeforeImport, TypeInv, TypeOK
    <3>2. FilesCleared'
      BY <2>13, FilesStay DEF JobEnd
    <3> QED BY <2>13, <2>s, <3>1, <3>2 DEF JobEnd, TypeInv, TypeOK
  <2>14. CASE WaitForJob(c) \/ ReadLog(c) \/ Count(c)
    <3>1. CopyInvAt(c)'
      BY <2>14, <2>0, <2>00 DEF WaitForJob, ReadLog, Count, CopyInvAt, FilledAt, AfterPlan,
        BeforeImport, TypeInv, TypeOK, Pcs
    <3>2. FilesCleared'
      BY <2>14, FilesStay DEF WaitForJob, ReadLog, Count
    <3> QED BY <2>14, <2>s, <3>1, <3>2 DEF WaitForJob, ReadLog, Count, TypeInv, TypeOK
  <2>15. CASE Raise(c)
    <3>1. CopyInvAt(c)'
      BY <2>15, <2>0, <2>00, DatapumpAssumption DEF Raise, CopyInvAt, FilledAt, AfterPlan,
        BeforeImport, TypeInv, TypeOK, Pcs
    <3>2. FilesCleared'
      BY <2>15, FilesStay DEF Raise
    <3> QED BY <2>15, <2>s, <3>1, <3>2 DEF Raise, TypeInv, TypeOK
  <2> QED BY <1>2, <2>1, <2>2, <2>3, <2>4, <2>5, <2>6, <2>7, <2>8, <2>9, <2>10, <2>11,
             <2>12, <2>13, <2>14, <2>15 DEF Step
<1>3. CASE UNCHANGED vars
  <2>1. \A d \in Calls : CopyInvAt(d)'
    BY <1>3, CopyOthers DEF vars
  <2>2. FilesCleared'
    BY <1>3, FilesStay DEF vars
  <2> QED BY <2>1, <2>2 DEF CopyInv
<1> QED BY <1>1, <1>2, <1>3 DEF Next

LEMMA CopyInvariant == Spec => []CopyInv
<1>1. TypeInv /\ TypeInv' /\ CopyInv /\ [Next]_vars => CopyInv'
  BY CopyNext
<1> QED BY CopyInit, TypeInvariant, <1>1, PTL DEF Spec

-----------------------------------------------------------------------------
LEMMA PromiseInit == Init => Promise!Init
<1> SUFFICES ASSUME Init PROVE Promise!Init
  OBVIOUS
<1>1. promiseAsked \in [Calls -> Promise!Requests]
  BY DEF Init, Requests, promiseAsked, RequestOf, Promise!Requests
<1>2. promiseAnswer = [c \in Calls |-> "none"]
  BY DEF Init, promiseAnswer, AnswerOf
<1> QED BY <1>1, <1>2 DEF Init, Promise!Init

(* An action that changes nothing of what the promise is about stutters.   *)
LEMMA Stutters ==
  ASSUME UNCHANGED <<asked, present, free, touched, answer>>
  PROVE  UNCHANGED Promise!absVars
BY DEF Promise!absVars, promiseAsked, promiseAnswer

(* An action that only gives an answer is the end of the abstract call.    *)
LEMMA Finishes ==
  ASSUME TypeInv, CopyInv, NEW c \in Calls, NEW v \in Answers,
         UNCHANGED <<asked, present, free, touched>>,
         answer[c] = "none", answer' = [answer EXCEPT ![c] = v],
         \/ v = "raised"
         \/ v \in {"stopped", "not_confirmed"} /\ touched[c] = {}
         \/ v \in {"imported", "imported_with_errors"} /\ Cleared(c) /\ touched[c] # {}
  PROVE  Promise!Next
<1>1. promiseAnswer[c] = "none" /\ promiseAnswer' = [promiseAnswer EXCEPT ![c] = AnswerOf(v)]
  BY DEF TypeInv, TypeOK, promiseAnswer, AnswerOf
<1>2. promiseAsked' = promiseAsked
  BY DEF promiseAsked
<1>3. Cleared(c) => Promise!Entitled(c)
  BY DEF Cleared, Promise!Entitled, promiseAsked, RequestOf
<1>4. \/ AnswerOf(v) = "raised"
      \/ touched[c] = {} /\ AnswerOf(v) = "declined"
      \/ Promise!Entitled(c) /\ touched[c] # {} /\ AnswerOf(v) = "copied"
  BY <1>3 DEF AnswerOf
<1>5. Promise!Finish(c)
  BY <1>1, <1>2, <1>4 DEF Promise!Finish
<1> QED BY <1>5 DEF Promise!Next

LEMMA PromiseNext ==
  TypeInv /\ CopyInv /\ [Next]_vars => [Promise!Next]_(Promise!absVars)
<1> SUFFICES ASSUME TypeInv, CopyInv, [Next]_vars,
                    ~UNCHANGED Promise!absVars
             PROVE  Promise!Next
  OBVIOUS
<1>0. ~UNCHANGED <<asked, present, free, touched, answer>>
  BY Stutters
<1> USE DEF callVars, fileVars, jobVars, history
<1>1. ASSUME NEW s \in Schemas, OthersCreate(s) PROVE Promise!Next
  <2>1. present' \in SUBSET Schemas
    BY <1>1 DEF OthersCreate, Appear, TypeInv, TypeOK
  <2>2. UNCHANGED <<promiseAsked, free, touched, promiseAnswer>>
    BY <1>1 DEF OthersCreate, promiseAsked, promiseAnswer
  <2> QED BY <2>1, <2>2 DEF Promise!Next, Promise!Others
<1>2. ASSUME NEW c \in Calls, Step(c) PROVE Promise!Next
  <2>0. CopyInvAt(c) /\ FilledAt(c)
    BY DEF TypeInv, Filled, CopyInv
  <2>1. CASE Start(c) \/ CheckSource(c) \/ Probe(c) \/ ZipDump(c) \/ Download(c) \/ Upload(c)
             \/ Unzip(c) \/ StartImport(c) \/ JobEnd(c) \/ WaitForJob(c)
    BY <2>1, <1>0 DEF Start, CheckSource, Probe, ZipDump, Download, Upload, Unzip, StartImport,
                      JobEnd, WaitForJob
  <2>2. ASSUME NEW s \in Schemas, LookFor(c, s) PROVE Promise!Next
    <3>1. /\ pc[c] # "end" /\ s \in asked[c].names
          /\ UNCHANGED <<asked, present, touched, answer>>
          /\ free' = [free EXCEPT ![c] = IF s \in present THEN @ ELSE @ \cup {s}]
      BY <2>2, <2>0 DEF LookFor, CopyInvAt
    <3>2. s \notin present
      <4>1. s \in present => free' = free
        BY <3>1 DEF TypeInv, TypeOK
      <4> QED BY <4>1, <3>1, <1>0
    <3>3. promiseAnswer[c] = "none" /\ s \in promiseAsked[c].names \ present
      BY <3>1, <3>2, <2>0 DEF CopyInvAt, promiseAnswer, AnswerOf, promiseAsked, RequestOf
    <3>4. UNCHANGED <<promiseAsked, promiseAnswer>>
      BY <3>1 DEF promiseAsked, promiseAnswer
    <3>5. Promise!See(c, s)
      BY <3>1, <3>2, <3>3, <3>4 DEF Promise!See
    <3> QED BY <3>5 DEF Promise!Next
  <2>3. CASE JobStep(c)
    <3>1. PICK s \in asked[reads[c]].names :
            /\ touched' = [touched EXCEPT ![c] = @ \cup {s}] /\ present' = present \cup {s}
      BY <2>3 DEF JobStep, Appear
    <3>2. UNCHANGED <<asked, free, answer>> /\ job[c] = "running"
      BY <2>3 DEF JobStep
    <3>3. reads[c] \in Calls /\ Cleared(c) /\ Cleared(reads[c]) /\ answer[c] \in {"none", "raised"}
      BY <3>2, <2>0 DEF CopyInvAt, FilledAt
    <3>4. Promise!Entitled(c) /\ Promise!Entitled(reads[c]) /\ s \in promiseAsked[reads[c]].names
      BY <3>1, <3>3 DEF Cleared, Promise!Entitled, promiseAsked, RequestOf
    <3>5. {s} \in SUBSET UNION {promiseAsked[d].names : d \in {e \in Calls : Promise!Entitled(e)}}
      BY <3>3, <3>4
    <3>6. promiseAnswer[c] \in {"none", "raised"} /\ UNCHANGED <<promiseAsked, promiseAnswer>>
      BY <3>2, <3>3 DEF promiseAnswer, AnswerOf, promiseAsked
    <3>7. Promise!Touch(c)
      BY <3>1, <3>2, <3>4, <3>5, <3>6 DEF Promise!Touch
    <3> QED BY <3>7 DEF Promise!Next
  <2>4. CASE StopIfExisting(c) \/ Plan(c) \/ Export(c) \/ StopIfArrived(c) \/ ReadLog(c)
             \/ Count(c) \/ Raise(c)
    <3>1. UNCHANGED <<asked, present, free, touched>>
      BY <2>4 DEF StopIfExisting, Plan, Export, StopIfArrived, ReadLog, Count, Raise
    <3>2. answer' # answer
      BY <3>1, <1>0
    <3>3. pc[c] # "end"
      BY <2>4 DEF StopIfExisting, Plan, Export, StopIfArrived, ReadLog, Count, Raise, Goto, Return, Open
    <3>4. answer[c] = "none"
      BY <3>3, <2>0 DEF CopyInvAt
    <3>5. CASE StopIfExisting(c) \/ Plan(c)
      <4>1. pc[c] \in {"look", "plan"}
        BY <3>5 DEF StopIfExisting, Plan, Goto, Return
      <4>2. touched[c] = {}
        BY <4>1, <2>0 DEF CopyInvAt, BeforeImport, Pcs
      <4>3. \E v \in {"stopped", "not_confirmed"} : answer' = [answer EXCEPT ![c] = v]
        BY <3>5, <3>2 DEF StopIfExisting, Plan, Goto, Return
      <4> QED BY <4>2, <4>3, <3>1, <3>4, Finishes DEF Answers
    <3>6. CASE Export(c) \/ StopIfArrived(c) \/ ReadLog(c) \/ Raise(c)
      <4>1. answer' = [answer EXCEPT ![c] = "raised"]
        BY <3>6, <3>2 DEF Export, StopIfArrived, ReadLog, Raise, Goto, Return
      <4> QED BY <4>1, <3>1, <3>4, Finishes DEF Answers
    <3>7. CASE Count(c)
      <4>1. Cleared(c) /\ touched[c] # {}
        BY <3>7, <2>0 DEF Count, Return, Goto, CopyInvAt
      <4>2. \E v \in {"imported", "imported_with_errors"} : answer' = [answer EXCEPT ![c] = v]
        BY <3>7 DEF Count, Return
      <4> QED BY <4>1, <4>2, <3>1, <3>4, Finishes DEF Answers
    <3> QED BY <2>4, <3>5, <3>6, <3>7
  <2> QED BY <1>2, <2>1, <2>2, <2>3, <2>4 DEF Step
<1>3. CASE UNCHANGED vars
  BY <1>3, <1>0 DEF vars
<1> QED BY <1>1, <1>2, <1>3 DEF Next

\* The Data Pump copy keeps the promise of the tools to the target, whatever
\* calls overlap, whatever is left in the directories and whichever step fails:
\* only confirmed calls that have seen their schemas absent change a schema,
\* and a call that declines has changed nothing.
THEOREM CopyImplementsPromise == Spec => ImplementsPromise
<1>1. Spec => Promise!Init
  BY PromiseInit DEF Spec
<1>2. TypeInv /\ CopyInv /\ [Next]_vars => [Promise!Next]_(Promise!absVars)
  BY PromiseNext
<1> QED BY <1>1, <1>2, TypeInvariant, CopyInvariant, PTL DEF Spec, ImplementsPromise, Promise!Spec

-----------------------------------------------------------------------------
(* Whose dump a call imports, and into what.                               *)

\* Calls that work at the same time know it of each other.
Overlaps ==
  \A c, d \in Calls : c # d =>
    /\ d \in met[c] => c \in met[d]
    /\ c \in Working /\ d \in Working => d \in met[c]

\* What a call has not come to yet.
EarlyAt(c) ==
  /\ pc[c] \in {"idle", "source", "look", "plan"} => name[c] = None
  /\ pc[c] \in {"idle", "source"} => free[c] = {}
  /\ pc[c] = "idle" => met[c] = {}
  /\ job[c] = "none" => reads[c] = None /\ errors[c] = "clean"
Early == \A c \in Calls : EarlyAt(c)

\* The calls whose files a call may meet under its own names.
Mates(c) == {c} \cup {d \in met[c] : name[d] = name[c]}

\* A file is named by the call whose dump it holds; the directory of a source
\* holds the dumps exported there, and each zip beside its dump.
OwnNames ==
  \A f \in FileNames :
    /\ \A d \in Sources :
         /\ dmp[d][f] \in Calls => name[dmp[d][f]] = f /\ asked[dmp[d][f]].src = d
         /\ zip[d][f] \in Calls => zip[d][f] = dmp[d][f]
    /\ dmp[Target][f] \in Calls => name[dmp[Target][f]] = f
    /\ zip[Target][f] \in Calls => name[zip[Target][f]] = f
OwnDumpAt(c) ==
  /\ pc[c] = "zip" => dmp[asked[c].src][name[c]] = c
  /\ pc[c] = "download" => zip[asked[c].src][name[c]] = c
  /\ carried[c] \in {None, c}
  /\ pc[c] \in {"unzip", "lookAgain", "import"} => zip[Target][name[c]] \in Mates(c)
  /\ pc[c] \in {"lookAgain", "import"} => dmp[Target][name[c]] \in Mates(c)
  /\ reads[c] = None \/ (name[c] \in FileNames /\ reads[c] \in Mates(c))
OwnDump == \A c \in Calls : OwnDumpAt(c)

\* What a call of its own dump has touched was absent when it looked, so another
\* that touched it did so later, and while the first was still at work.
TouchedIsNamed ==
  \A c \in Calls :
    touched[c] \subseteq present /\ (reads[c] = c => touched[c] \subseteq asked[c].names)
SeenBefore ==
  \A c, d \in Calls : c # d /\ touched[c] \cap free[d] # {} /\ d \notin met[c] => d \notin Working
MixedApart ==
  \A c, d \in Calls :
    c # d /\ reads[c] = c /\ reads[d] = d /\ touched[c] \cap touched[d] # {} => d \in met[c]

\* Since its second look nothing appeared to the call that is not counted.
LookedAgainAt(c) ==
  /\ pc[c] = "lookAgain" => \A s \in asked[c].names \ left[c] : s \in present => hit[c] \/ s \in since[c]
  /\ pc[c] = "import" \/ job[c] = "running" =>
       \A s \in asked[c].names \cap present : s \in since[c] \cup touched[c]
LookedAgain == \A c \in Calls : LookedAgainAt(c)

\* The import log of a call shows where its job wrote its first ORA- line, unless another of its
\* name is at work, and the call has read that line or stopped before it.
Shares(c) == \E d \in met[c] \ {c} : name[d] = name[c]
LogKeptAt(c) ==
  /\ pc[c] \in {"wait", "log"} => implog[name[c]] = errors[c] \/ Shares(c)
  /\ pc[c] = "count" =>
       status[c] = "errors" \/ errors[c] = "clean" \/ (errors[c] = "late" /\ status[c] = "cut") \/ Shares(c)
  /\ answer[c] = "imported" =>
       /\ job[c] = "ok" /\ name[c] # None
       /\ errors[c] = "clean" \/ (errors[c] = "late" /\ status[c] = "cut") \/ Shares(c)
  /\ job[c] = "ok" => asked[reads[c]].names \subseteq touched[c]
LogKept == \A c \in Calls : LogKeptAt(c)

DumpInv == Overlaps /\ Early /\ OwnNames /\ OwnDump /\ TouchedIsNamed /\ SeenBefore /\ MixedApart
           /\ LookedAgain /\ LogKept

\* The variables of a call.
Same(d) ==
  /\ pc'[d] = pc[d] /\ left'[d] = left[d] /\ hit'[d] = hit[d] /\ name'[d] = name[d]
  /\ carried'[d] = carried[d] /\ status'[d] = status[d] /\ answer'[d] = answer[d]
  /\ job'[d] = job[d] /\ reads'[d] = reads[d] /\ errors'[d] = errors[d]
  /\ free'[d] = free[d] /\ touched'[d] = touched[d]

\* A step of a call changes its own variables only, and forgets nothing of the histories.
LEMMA CallFrame ==
  ASSUME TypeInv, NEW c \in Calls, Step(c)
  PROVE  asked' = asked /\ \A d \in Calls \ {c} : Same(d)
<1> USE DEF callVars, fileVars, jobVars, history, Goto, Return, Same, TypeInv, TypeOK
<1>1. CASE Start(c) \/ CheckSource(c) \/ Plan(c) \/ Probe(c)
  BY <1>1 DEF Start, CheckSource, Plan, Probe
<1>2. CASE StopIfExisting(c) \/ StopIfArrived(c) \/ \E s \in Schemas : LookFor(c, s)
  BY <1>2 DEF StopIfExisting, StopIfArrived, LookFor
<1>3. CASE Export(c) \/ ZipDump(c) \/ Download(c) \/ Upload(c) \/ Unzip(c)
  BY <1>3 DEF Export, ZipDump, Download, Upload, Unzip
<1>4. CASE StartImport(c) \/ JobStep(c) \/ JobEnd(c)
  BY <1>4 DEF StartImport, JobStep, JobEnd
<1>5. CASE WaitForJob(c) \/ ReadLog(c) \/ Count(c) \/ Raise(c)
  BY <1>5 DEF WaitForJob, ReadLog, Count, Raise
<1> QED BY <1>1, <1>2, <1>3, <1>4, <1>5 DEF Step

LEMMA OthersFrame ==
  ASSUME NEW s \in Schemas, OthersCreate(s)
  PROVE  /\ UNCHANGED <<callVars, fileVars, jobVars, free, touched, met>> /\ present' = present \cup {s}
         /\ \A d \in Calls : Same(d)
BY DEF OthersCreate, Appear, Same, callVars, jobVars

\* met, present and since only grow.
LEMMA Histories ==
  ASSUME TypeInv, Early, [Next]_vars
  PROVE  /\ present \subseteq present'
         /\ \A d \in Calls : met[d] \subseteq met'[d] /\ since[d] \subseteq since'[d]
<1> USE DEF history, TypeInv, TypeOK
<1>1. ASSUME NEW s, NEW by, Appear(s, by)
      PROVE  present \subseteq present' /\ \A d \in Calls : since[d] \subseteq since'[d]
  BY <1>1 DEF Appear
<1>2. ASSUME NEW s \in Schemas, OthersCreate(s) PROVE met' = met /\ Appear(s, None)
  BY <1>2 DEF OthersCreate
<1>3. ASSUME NEW c \in Calls, Start(c)
      PROVE  present' = present /\ since' = since /\ \A d \in Calls : met[d] \subseteq met'[d]
  <2>1. met[c] \subseteq met'[c]
    BY <1>3 DEF Start, Goto, Early, EarlyAt
  <2> QED BY <1>3, <2>1 DEF Start
<1>4. ASSUME NEW c \in Calls, JobStep(c) PROVE met' = met /\ \E s : Appear(s, c)
  BY <1>4 DEF JobStep
<1>5. ASSUME NEW c \in Calls, Step(c), ~Start(c), ~JobStep(c) PROVE UNCHANGED <<present, since, met>>
  BY <1>5 DEF Step, CheckSource, LookFor, StopIfExisting, StopIfArrived, Plan, Probe, Export, ZipDump,
    Download, Upload, Unzip, StartImport, JobEnd, WaitForJob, ReadLog, Count, Raise
<1>6. CASE UNCHANGED vars
  BY <1>6 DEF vars
<1> QED BY <1>1, <1>2, <1>3, <1>4, <1>5, <1>6 DEF Next

LEMMA DumpInit == Init => DumpInv
<1> SUFFICES ASSUME Init PROVE DumpInv
  OBVIOUS
<1>1. Overlaps /\ Early
  BY DEF Init, Overlaps, Early, EarlyAt, Working, Open
<1>2. OwnNames
  BY DatapumpAssumption DEF Init, OwnNames, NoFiles, Dbs
<1>3. OwnDump /\ TouchedIsNamed /\ SeenBefore /\ MixedApart
  BY DEF Init, OwnDump, OwnDumpAt, TouchedIsNamed, SeenBefore, MixedApart
<1>4. LookedAgain /\ LogKept
  BY DEF Init, LookedAgain, LookedAgainAt, LogKept, LogKeptAt
<1> QED BY <1>1, <1>2, <1>3, <1>4 DEF DumpInv

LEMMA EarlyStep == TypeInv /\ CopyInv /\ Early /\ [Next]_vars => Early'
<1> SUFFICES ASSUME TypeInv, CopyInv, Early, [Next]_vars PROVE Early'
  OBVIOUS
<1> USE DEF callVars, fileVars, jobVars, history, Goto, Return
<1>1. ASSUME NEW s \in Schemas, OthersCreate(s) PROVE Early'
  BY <1>1 DEF OthersCreate, Appear, Early, EarlyAt
<1>2. ASSUME NEW c \in Calls, Step(c) PROVE Early'
  <2>0. asked' = asked /\ \A d \in Calls \ {c} : Same(d)
    BY <1>2, CallFrame
  <2>1. EarlyAt(c) /\ TypeOK
    BY DEF Early, TypeInv
  <2>2. \A d \in Calls : pc'[d] = "idle" => pc[d] = "idle" /\ met'[d] = {}
    <3>1. pc'[c] # "idle"
           \/ (pc'[c] = pc[c] /\ pc[c] \notin {"idle", "source"} /\ met' = met)
           \/ (JobStep(c) \/ JobEnd(c))
      BY <1>2, <2>1 DEF Step, Start, CheckSource, LookFor, StopIfExisting, StopIfArrived, Plan, Probe,
        Export, ZipDump, Download, Upload, Unzip, StartImport, WaitForJob, ReadLog, Count, Raise, TypeOK
    <3>2. JobStep(c) \/ JobEnd(c) => pc[c] # "idle" /\ pc' = pc
      BY DEF JobStep, JobEnd, CopyInv, CopyInvAt, BeforeImport, Pcs
    <3>3. ASSUME NEW d \in Calls, d # c, pc[d] = "idle" PROVE met'[d] = {}
      <4>1. met[d] = {} /\ d \notin Working
        BY <3>3 DEF Early, EarlyAt, Working, Open, CopyInv, CopyInvAt, BeforeImport, Pcs
      <4>2. CASE Start(c)
        BY <3>3, <4>1, <4>2 DEF Start
      <4>3. CASE ~Start(c)
        BY <1>2, <4>1, <4>3 DEF Step, CheckSource, LookFor, StopIfExisting, StopIfArrived, Plan, Probe,
          Export, ZipDump, Download, Upload, Unzip, StartImport, JobStep, JobEnd, WaitForJob, ReadLog,
          Count, Raise
      <4> QED BY <4>2, <4>3
    <3> QED BY <2>0, <3>1, <3>2, <3>3 DEF Same
  <2>3. /\ pc'[c] \in {"idle", "source", "look", "plan"} => name'[c] = None
        /\ pc'[c] \in {"idle", "source"} => free'[c] = {}
    <3>1. CASE Start(c) \/ CheckSource(c) \/ Plan(c) \/ Probe(c) \/ StopIfExisting(c)
      BY <2>1, <3>1 DEF Start, CheckSource, Plan, Probe, StopIfExisting, TypeOK, EarlyAt
    <3>2. CASE StopIfArrived(c) \/ Export(c) \/ ZipDump(c) \/ Download(c) \/ Upload(c) \/ Unzip(c)
               \/ StartImport(c) \/ WaitForJob(c) \/ ReadLog(c) \/ Count(c) \/ Raise(c)
      BY <2>1, <3>2 DEF StopIfArrived, Export, ZipDump, Download, Upload, Unzip, StartImport, WaitForJob,
        ReadLog, Count, Raise, TypeOK
    <3>3. CASE \E s \in Schemas : LookFor(c, s)
      BY <2>1, <3>3 DEF LookFor, EarlyAt
    <3>4. CASE JobStep(c) \/ JobEnd(c)
      BY <2>1, <3>4 DEF JobStep, JobEnd, EarlyAt
    <3> QED BY <1>2, <3>1, <3>2, <3>3, <3>4 DEF Step
  <2>4. job'[c] = "none" => reads'[c] = None /\ errors'[c] = "clean"
    <3>1. CASE StartImport(c) \/ JobStep(c) \/ JobEnd(c) \/ Raise(c)
      BY <2>1, <3>1 DEF StartImport, JobStep, JobEnd, Raise, TypeOK, EarlyAt
    <3>2. CASE ~(StartImport(c) \/ JobStep(c) \/ JobEnd(c) \/ Raise(c))
      BY <1>2, <2>1, <3>2 DEF Step, Start, CheckSource, LookFor, StopIfExisting, StopIfArrived, Plan, Probe,
        Export, ZipDump, Download, Upload, Unzip, WaitForJob, ReadLog, Count, EarlyAt
    <3> QED BY <3>1, <3>2
  <2> QED BY <2>0, <2>2, <2>3, <2>4 DEF Early, EarlyAt, Same
<1>3. CASE UNCHANGED vars
  BY <1>3 DEF vars, Early, EarlyAt
<1> QED BY <1>1, <1>2, <1>3 DEF Next

\* A call plans its names once.
LEMMA NamesStay ==
  ASSUME TypeInv, Early, [Next]_vars, NEW d \in Calls, name[d] # None
  PROVE  name'[d] = name[d]
<1> USE DEF callVars, Goto, Return
<1>1. ASSUME NEW c \in Calls, Plan(c) PROVE name'[d] = name[d]
  <2>1. pc[c] = "plan" /\ \A e \in Calls \ {c} : name'[e] = name[e]
    BY <1>1 DEF Plan, TypeInv, TypeOK
  <2> QED BY <2>1 DEF Early, EarlyAt
<1>2. ASSUME NEW c \in Calls, Step(c), ~Plan(c) PROVE name' = name
  BY <1>2 DEF Step, Start, CheckSource, LookFor, StopIfExisting, StopIfArrived, Probe,
    Export, ZipDump, Download, Upload, Unzip, StartImport, JobStep, JobEnd, WaitForJob, ReadLog, Count, Raise
<1>3. ASSUME NEW s \in Schemas, OthersCreate(s) PROVE name' = name
  BY <1>3 DEF OthersCreate
<1>4. CASE UNCHANGED vars
  BY <1>4 DEF vars
<1> QED BY <1>1, <1>2, <1>3, <1>4 DEF Next

\* Only a call that starts begins to work.
LEMMA WorkingShrinks ==
  ASSUME TypeInv, [Next]_vars, \A c \in Calls : ~Start(c)
  PROVE  Working' \subseteq Working /\ met' = met
<1> USE DEF callVars, fileVars, jobVars, history, Goto, Return
<1>1. ASSUME NEW c \in Calls, Step(c) PROVE Working' \subseteq Working /\ met' = met
  <2>1. met' = met
    BY <1>1 DEF Step, Start, CheckSource, LookFor, StopIfExisting, StopIfArrived, Plan, Probe,
      Export, ZipDump, Download, Upload, Unzip, StartImport, JobStep, JobEnd, WaitForJob, ReadLog, Count, Raise
  <2>2. c \in Working' => c \in Working
    <3>1. CASE CheckSource(c) \/ Plan(c) \/ Probe(c) \/ StopIfExisting(c) \/ StopIfArrived(c) \/ Export(c)
               \/ ZipDump(c) \/ Download(c) \/ Upload(c) \/ Unzip(c) \/ StartImport(c) \/ WaitForJob(c)
               \/ ReadLog(c) \/ Count(c) \/ Raise(c)
      <4>1. c \in Open
        BY <3>1 DEF CheckSource, StopIfExisting, StopIfArrived, Plan, Probe, Export, ZipDump, Download,
          Upload, Unzip, StartImport, WaitForJob, ReadLog, Count, Raise, Open
      <4> QED BY <4>1 DEF Working
    <3>2. CASE JobStep(c) \/ JobEnd(c)
      BY <3>2 DEF JobStep, JobEnd, Working
    <3>3. CASE \E s \in Schemas : LookFor(c, s)
      BY <3>3 DEF LookFor, Working, Open
    <3> QED BY <1>1, <3>1, <3>2, <3>3 DEF Step
  <2>3. \A d \in Calls \ {c} : pc'[d] = pc[d] /\ job'[d] = job[d]
    BY <1>1, CallFrame DEF Same
  <2> QED BY <2>1, <2>2, <2>3 DEF Working, Open
<1>2. ASSUME NEW s \in Schemas, OthersCreate(s) PROVE Working' \subseteq Working /\ met' = met
  BY <1>2 DEF OthersCreate, Working, Open
<1>3. CASE UNCHANGED vars
  BY <1>3 DEF vars, Working, Open
<1> QED BY <1>1, <1>2, <1>3 DEF Next

LEMMA OverlapStep == TypeInv /\ Early /\ Overlaps /\ CopyInv /\ [Next]_vars => Overlaps'
<1> SUFFICES ASSUME TypeInv, Early, CopyInv, Overlaps, [Next]_vars PROVE Overlaps'
  OBVIOUS
<1>1. ASSUME NEW c \in Calls, Start(c) PROVE Overlaps'
  <2>1. /\ pc[c] = "idle" /\ met[c] = {} /\ met'[c] = Working
        /\ \A d \in Calls \ {c} : met'[d] = IF d \in Working THEN met[d] \cup {c} ELSE met[d]
    BY <1>1 DEF Start, Goto, Early, EarlyAt
  <2>2. Working' = Working \cup {c}
    BY <1>1 DEF Start, Goto, Working, Open, jobVars, TypeInv, TypeOK
  <2>3. \A d \in Calls : c \in met[d] => FALSE
    BY <2>1 DEF Overlaps
  <2>4. c \notin Working
    BY <2>1 DEF Working, Open, CopyInv, CopyInvAt, BeforeImport, Pcs
  <2>5. ASSUME NEW d \in Calls, NEW e \in Calls, d # e
        PROVE  (e \in met'[d] => d \in met'[e]) /\ (d \in Working' /\ e \in Working' => e \in met'[d])
    <3>1. CASE d = c
      BY <2>1, <2>2, <2>4, <2>5, <3>1
    <3>2. CASE e = c
      BY <2>1, <2>2, <2>3, <2>4, <2>5, <3>2
    <3>3. CASE d # c /\ e # c
      BY <2>1, <2>2, <2>5, <3>3 DEF Overlaps
    <3> QED BY <3>1, <3>2, <3>3
  <2> QED BY <2>5 DEF Overlaps
<1>2. CASE \A c \in Calls : ~Start(c)
  BY <1>2, WorkingShrinks DEF Overlaps
<1> QED BY <1>1, <1>2

\* The two directories change only where an export, a zip, an upload or an unzip writes.
LEMMA FilesFrame ==
  ASSUME [Next]_vars, \A c \in Calls : ~Export(c) /\ ~ZipDump(c) /\ ~Upload(c) /\ ~Unzip(c)
  PROVE  dmp' = dmp /\ zip' = zip
<1> USE DEF fileVars
<1>1. ASSUME NEW c \in Calls, Step(c) PROVE dmp' = dmp /\ zip' = zip
  BY <1>1 DEF Step, Start, CheckSource, LookFor, StopIfExisting, StopIfArrived, Plan, Probe,
    Download, StartImport, JobStep, JobEnd, WaitForJob, ReadLog, Count, Raise
<1>2. ASSUME NEW s \in Schemas, OthersCreate(s) PROVE dmp' = dmp /\ zip' = zip
  BY <1>2 DEF OthersCreate
<1> QED BY <1>1, <1>2 DEF Next, vars

LEMMA OwnNamesStep ==
  ASSUME TypeInv, CopyInv, Early, OwnNames, OwnDump, [Next]_vars
  PROVE  OwnNames'
<1>0. \A d \in Calls : name[d] \in FileNames => name'[d] = name[d]
  BY NamesStay, DatapumpAssumption
<1>00. /\ Target \in Dbs /\ Target \notin Sources /\ Sources \subseteq Dbs
       /\ \A c \in Calls : asked[c].src \in Sources
  BY DatapumpAssumption DEF Dbs, TypeInv, TypeOK, Requests
<1>000. asked' = asked
  BY CallFrame DEF Next, OthersCreate, vars, callVars
<1>1. ASSUME NEW c \in Calls, Export(c) PROVE OwnNames'
  <2>1. /\ zip' = zip /\ dmp[asked[c].src][name[c]] = None /\ name[c] \in FileNames
        /\ dmp' = [dmp EXCEPT ![asked[c].src][name[c]] = c]
    BY <1>1 DEF Export, Goto, Return, TypeInv, Named, AfterPlan
  <2> QED BY <1>0, <1>00, <1>000, <2>1, DatapumpAssumption DEF OwnNames, TypeInv, TypeOK
<1>2. ASSUME NEW c \in Calls, ZipDump(c) PROVE OwnNames'
  <2>1. /\ dmp' = dmp /\ name[c] \in FileNames
        /\ zip' = [zip EXCEPT ![asked[c].src][name[c]] = dmp[asked[c].src][name[c]]]
    BY <1>2 DEF ZipDump, Goto, TypeInv, Named, AfterPlan
  <2> QED BY <1>0, <1>00, <1>000, <2>1 DEF OwnNames, TypeInv, TypeOK
<1>3. ASSUME NEW c \in Calls, Upload(c) PROVE OwnNames'
  <2>1. /\ dmp' = dmp /\ name[c] \in FileNames /\ carried[c] \in {None, c}
        /\ zip' = [zip EXCEPT ![Target][name[c]] = carried[c]]
    BY <1>3 DEF Upload, Goto, TypeInv, Named, AfterPlan, OwnDump, OwnDumpAt
  <2> QED BY <1>0, <1>00, <1>000, <2>1, DatapumpAssumption DEF OwnNames, TypeInv, TypeOK
<1>4. ASSUME NEW c \in Calls, Unzip(c) PROVE OwnNames'
  <2>1. /\ zip' = zip /\ name[c] \in FileNames
        /\ dmp' = [dmp EXCEPT ![Target][name[c]] = zip[Target][name[c]]]
    BY <1>4 DEF Unzip, Goto, TypeInv, Named, AfterPlan
  <2> QED BY <1>0, <1>00, <1>000, <2>1 DEF OwnNames, TypeInv, TypeOK
<1>5. CASE \A c \in Calls : ~Export(c) /\ ~ZipDump(c) /\ ~Upload(c) /\ ~Unzip(c)
  <2>1. dmp' = dmp /\ zip' = zip
    BY <1>5, FilesFrame
  <2> QED BY <1>0, <1>00, <1>000, <2>1 DEF OwnNames, TypeInv, TypeOK
<1> QED BY <1>1, <1>2, <1>3, <1>4, <1>5

LEMMA MatesGrow ==
  ASSUME TypeInv, Early, [Next]_vars, NEW d \in Calls, name[d] # None
  PROVE  Mates(d) \subseteq Mates(d)' /\ name'[d] = name[d]
<1>1. \A e \in Calls : name[e] # None => name'[e] = name[e]
  BY NamesStay
<1>2. met[d] \subseteq Calls /\ met[d] \subseteq met'[d]
  BY Histories DEF TypeInv, TypeOK
<1>3. ASSUME NEW e \in Mates(d) PROVE e \in Mates(d)'
  <2>1. CASE e = d
    BY <2>1 DEF Mates
  <2>2. CASE e # d
    <3>1. e \in met[d] /\ name[e] = name[d]
      BY <1>3, <2>2 DEF Mates
    <3>2. e \in met'[d] /\ name'[e] = name'[d]
      BY <1>1, <1>2, <3>1
    <3> QED BY <3>2 DEF Mates
  <2> QED BY <2>1, <2>2
<1> QED BY <1>1, <1>3

\* The files that a call has under its names stay those of its mates while others work.
LEMMA OwnDumpOthers ==
  ASSUME TypeInv, CopyInv, Early, Overlaps, OwnNames, OwnDump, [Next]_vars,
         NEW c \in Calls, Step(c), NEW d \in Calls, d # c
  PROVE  OwnDumpAt(d)'
<1> USE DEF fileVars, Goto, Return
<1>0. /\ Target \in Dbs /\ Target \notin Sources /\ Sources \subseteq Dbs /\ None \notin Calls
      /\ asked[c].src \in Sources /\ asked[d].src \in Sources /\ None \notin FileNames
      /\ pc[c] \in AfterPlan => name[c] \in FileNames
      /\ pc[d] \in AfterPlan => name[d] \in FileNames
      /\ asked' = asked /\ Same(d) /\ OwnDumpAt(d) /\ OwnDumpAt(c)
      /\ dmp \in [Dbs -> [FileNames -> Calls \cup {None}]]
      /\ zip \in [Dbs -> [FileNames -> Calls \cup {None}]]
  BY DatapumpAssumption, CallFrame DEF Dbs, TypeInv, TypeOK, Requests, Named, OwnDump
<1>1. name[d] # None => Mates(d) \subseteq Mates(d)' /\ name'[d] = name[d]
  BY MatesGrow
<1>2. pc[c] \in AfterPlan /\ pc[d] \in AfterPlan /\ name[c] = name[d] => c \in Mates(d)
  <2>1. pc[c] \in AfterPlan /\ pc[d] \in AfterPlan => c \in Working /\ d \in Working
    BY DEF AfterPlan, Working, Open
  <2> QED BY <2>1 DEF Overlaps, Mates
<1>3. ASSUME pc[d] = "zip" PROVE dmp'[asked[d].src][name[d]] = d
  <2>1. CASE Export(c)
    BY <1>0, <1>3, <2>1 DEF Export, OwnDumpAt, AfterPlan
  <2>2. CASE Unzip(c)
    BY <1>0, <1>3, <2>2 DEF Unzip, OwnDumpAt, AfterPlan
  <2>3. CASE ~Export(c) /\ ~Unzip(c)
    <3>1. dmp' = dmp
      BY <1>2, <2>3, <1>0 DEF OwnDumpAt, Step, Start, CheckSource, LookFor, StopIfExisting, StopIfArrived, Plan,
        Probe, ZipDump, Download, Upload, StartImport, JobStep, JobEnd, WaitForJob, ReadLog, Count, Raise
    <3> QED BY <1>0, <1>3, <3>1 DEF OwnDumpAt
  <2> QED BY <2>1, <2>2, <2>3
<1>4. ASSUME pc[d] = "download" PROVE zip'[asked[d].src][name[d]] = d
  <2>1. CASE ZipDump(c)
    <3>1. dmp[asked[d].src][name[d]] = d
      BY <1>0, <1>4 DEF OwnNames, OwnDumpAt, AfterPlan
    <3> QED BY <1>0, <1>4, <2>1, <3>1 DEF ZipDump, OwnDumpAt, AfterPlan
  <2>2. CASE Upload(c)
    BY <1>0, <1>4, <2>2 DEF Upload, OwnDumpAt, AfterPlan
  <2>3. CASE ~ZipDump(c) /\ ~Upload(c)
    <3>1. zip' = zip
      BY <2>3 DEF Step, Start, CheckSource, LookFor, StopIfExisting, StopIfArrived, Plan,
        Probe, Export, Download, Unzip, StartImport, JobStep, JobEnd, WaitForJob, ReadLog, Count, Raise
    <3> QED BY <1>0, <1>4, <3>1 DEF OwnDumpAt
  <2> QED BY <2>1, <2>2, <2>3
<1>5. ASSUME pc[d] \in {"unzip", "lookAgain", "import"} PROVE zip'[Target][name[d]] \in Mates(d)
  <2>1. CASE Upload(c)
    <3>1. /\ pc[c] = "upload" /\ name[c] \in FileNames
          /\ zip' = [zip EXCEPT ![Target][name[c]] = carried[c]]
      BY <1>0, <2>1 DEF Upload, AfterPlan
    <3>2. carried[c] = c
      BY <1>0, <3>1 DEF TypeInv, Filled, FilledAt, OwnDumpAt
    <3>3. name[c] = name[d] => c \in Mates(d)
      BY <1>2, <1>5, <3>1 DEF AfterPlan
    <3> QED BY <1>0, <1>5, <3>1, <3>2, <3>3 DEF OwnDumpAt, AfterPlan
  <2>2. CASE ZipDump(c)
    <3>1. /\ name[c] \in FileNames
          /\ zip' = [zip EXCEPT ![asked[c].src][name[c]] = dmp[asked[c].src][name[c]]]
      BY <1>0, <2>2 DEF ZipDump, AfterPlan
    <3> QED BY <1>0, <1>5, <3>1 DEF OwnDumpAt, AfterPlan
  <2>3. CASE ~ZipDump(c) /\ ~Upload(c)
    <3>1. zip' = zip
      BY <2>3 DEF Step, Start, CheckSource, LookFor, StopIfExisting, StopIfArrived, Plan,
        Probe, Export, Download, Unzip, StartImport, JobStep, JobEnd, WaitForJob, ReadLog, Count, Raise
    <3> QED BY <1>0, <1>5, <3>1 DEF OwnDumpAt
  <2> QED BY <2>1, <2>2, <2>3
<1>6. ASSUME pc[d] \in {"lookAgain", "import"} PROVE dmp'[Target][name[d]] \in Mates(d)
  <2>1. CASE Export(c)
    BY <1>0, <1>6, <2>1 DEF Export, OwnDumpAt, AfterPlan
  <2>2. CASE Unzip(c)
    <3>1. /\ name[c] \in FileNames
          /\ dmp' = [dmp EXCEPT ![Target][name[c]] = zip[Target][name[c]]]
      BY <1>0, <2>2 DEF Unzip, AfterPlan
    <3> QED BY <1>0, <1>6, <3>1 DEF OwnDumpAt, AfterPlan
  <2>3. CASE ~Export(c) /\ ~Unzip(c)
    <3>1. dmp' = dmp
      BY <2>3 DEF Step, Start, CheckSource, LookFor, StopIfExisting, StopIfArrived, Plan,
        Probe, ZipDump, Download, Upload, StartImport, JobStep, JobEnd, WaitForJob, ReadLog, Count, Raise
    <3> QED BY <1>0, <1>6, <3>1 DEF OwnDumpAt
  <2> QED BY <2>1, <2>2, <2>3
<1>7. pc[d] \in AfterPlan \/ reads[d] # None => Mates(d) \subseteq Mates(d)' /\ name'[d] = name[d]
  BY <1>0, <1>1 DEF OwnDumpAt
<1> QED BY <1>0, <1>3, <1>4, <1>5, <1>6, <1>7 DEF Same, OwnDumpAt, AfterPlan

LEMMA OwnDumpStep ==
  ASSUME TypeInv, CopyInv, Early, Overlaps, OwnNames, OwnDump, [Next]_vars
  PROVE  OwnDump'
<1> USE DEF callVars, fileVars, jobVars, history, Goto, Return
<1>1. ASSUME NEW s \in Schemas, OthersCreate(s) PROVE OwnDump'
  BY <1>1, OthersFrame DEF OwnDump, OwnDumpAt, Mates
<1>2. ASSUME NEW c \in Calls, Step(c) PROVE OwnDump'
  <2>0. /\ Target \in Dbs /\ Target \notin Sources /\ Sources \subseteq Dbs /\ None \notin Calls
        /\ asked[c].src \in Sources /\ None \notin FileNames /\ asked' = asked
        /\ pc[c] \in AfterPlan => name[c] \in FileNames
        /\ OwnDumpAt(c) /\ FilledAt(c) /\ TypeOK
    BY <1>2, DatapumpAssumption, CallFrame DEF Dbs, TypeInv, TypeOK, Requests, Named, OwnDump, Filled
  <2>1. name[c] # None => Mates(c) \subseteq Mates(c)' /\ name'[c] = name[c]
    BY MatesGrow
  <2>2. reads[c] # None => name[c] # None
    BY <2>0 DEF OwnDumpAt
  <2>3. OwnDumpAt(c)'
    <3>1. CASE Start(c) \/ CheckSource(c) \/ StopIfExisting(c) \/ Probe(c)
      <4>1. UNCHANGED <<carried, reads>> /\ pc'[c] \in {"source", "look", "plan", "export", "end"}
        BY <2>0, <3>1 DEF Start, CheckSource, StopIfExisting, Probe, TypeOK
      <4> QED BY <2>0, <2>1, <2>2, <4>1 DEF OwnDumpAt
    <3>2. CASE Plan(c)
      <4>1. UNCHANGED <<carried, reads>> /\ pc'[c] \in {"probe", "end"} /\ name[c] = None
        BY <2>0, <3>2 DEF Plan, TypeOK, Early, EarlyAt
      <4> QED BY <2>0, <2>2, <4>1 DEF OwnDumpAt
    <3>3. ASSUME NEW s \in Schemas, LookFor(c, s) PROVE OwnDumpAt(c)'
      <4>1. UNCHANGED <<pc, carried, reads, dmp, zip, name>> /\ pc[c] \in {"look", "lookAgain"}
        BY <3>3 DEF LookFor
      <4>2. pc[c] = "lookAgain" => Mates(c) \subseteq Mates(c)'
        BY <2>0, <2>1, <4>1 DEF AfterPlan
      <4> QED BY <2>0, <2>1, <2>2, <4>1, <4>2 DEF OwnDumpAt
    <3>4. CASE Export(c)
      <4>1. /\ UNCHANGED <<carried, reads, name>> /\ pc'[c] \in {"zip", "end"} /\ name[c] \in FileNames
            /\ dmp' = [dmp EXCEPT ![asked[c].src][name[c]] = c]
        BY <2>0, <3>4 DEF Export, TypeOK, AfterPlan
      <4> QED BY <2>0, <2>1, <2>2, <4>1 DEF OwnDumpAt, TypeOK
    <3>5. CASE ZipDump(c)
      <4>1. /\ UNCHANGED <<carried, reads, name, dmp>> /\ pc'[c] = "download" /\ name[c] \in FileNames
            /\ zip' = [zip EXCEPT ![asked[c].src][name[c]] = dmp[asked[c].src][name[c]]]
            /\ dmp[asked[c].src][name[c]] = c
        BY <2>0, <3>5 DEF ZipDump, TypeOK, AfterPlan, OwnDumpAt
      <4> QED BY <2>0, <2>1, <2>2, <4>1 DEF OwnDumpAt, TypeOK
    <3>6. CASE Download(c)
      <4>1. /\ UNCHANGED <<reads, name, dmp, zip>> /\ pc'[c] = "upload" /\ carried'[c] = c
        BY <2>0, <3>6 DEF Download, TypeOK, OwnDumpAt
      <4> QED BY <2>0, <2>1, <2>2, <4>1 DEF OwnDumpAt
    <3>7. CASE Upload(c)
      <4>1. /\ UNCHANGED <<reads, name, dmp>> /\ pc'[c] = "unzip" /\ carried'[c] = None
            /\ name[c] \in FileNames /\ zip'[Target][name[c]] = carried[c] /\ carried[c] = c
        BY <2>0, <3>7 DEF Upload, TypeOK, OwnDumpAt, FilledAt, AfterPlan
      <4> QED BY <2>0, <2>1, <2>2, <4>1 DEF OwnDumpAt, Mates
    <3>8. CASE Unzip(c)
      <4>1. /\ UNCHANGED <<reads, name, zip, carried>> /\ pc'[c] = "lookAgain" /\ pc[c] = "unzip"
            /\ name[c] \in FileNames /\ dmp'[Target][name[c]] = zip[Target][name[c]]
        BY <2>0, <3>8 DEF Unzip, TypeOK, AfterPlan
      <4> QED BY <2>0, <2>1, <2>2, <4>1 DEF OwnDumpAt
    <3>9. CASE StopIfArrived(c)
      <4>1. /\ UNCHANGED <<reads, name, zip, carried, dmp>> /\ pc'[c] \in {"import", "end"}
            /\ pc[c] = "lookAgain" /\ name[c] \in FileNames
        BY <2>0, <3>9 DEF StopIfArrived, TypeOK, AfterPlan
      <4> QED BY <2>0, <2>1, <2>2, <4>1 DEF OwnDumpAt
    <3>10. CASE StartImport(c)
      <4>1. /\ UNCHANGED <<name, zip, carried, dmp>> /\ pc'[c] = "wait" /\ pc[c] = "import"
            /\ name[c] \in FileNames /\ reads'[c] = dmp[Target][name[c]]
        BY <2>0, <3>10 DEF StartImport, TypeOK, AfterPlan
      <4> QED BY <2>0, <2>1, <4>1 DEF OwnDumpAt
    <3>11. CASE JobStep(c) \/ JobEnd(c)
      <4>1. UNCHANGED <<pc, name, zip, carried, dmp, reads>>
        BY <3>11 DEF JobStep, JobEnd
      <4>2. pc[c] \in AfterPlan \/ reads[c] # None => Mates(c) \subseteq Mates(c)'
        BY <2>0, <2>1, <2>2
      <4> QED BY <2>0, <4>1, <4>2 DEF OwnDumpAt, AfterPlan
    <3>12. CASE WaitForJob(c) \/ ReadLog(c) \/ Count(c) \/ Raise(c)
      <4>1. /\ UNCHANGED <<name, reads>> /\ pc'[c] \in {"log", "count", "end"}
            /\ carried'[c] \in {carried[c], None}
        BY <2>0, <3>12 DEF WaitForJob, ReadLog, Count, Raise, TypeOK
      <4> QED BY <2>0, <2>1, <2>2, <4>1 DEF OwnDumpAt
    <3> QED BY <1>2, <3>1, <3>2, <3>3, <3>4, <3>5, <3>6, <3>7, <3>8, <3>9, <3>10, <3>11, <3>12 DEF Step
  <2>4. \A d \in Calls \ {c} : OwnDumpAt(d)'
    BY <1>2, OwnDumpOthers
  <2> QED BY <2>3, <2>4 DEF OwnDump
<1>3. CASE UNCHANGED vars
  BY <1>3 DEF vars, OwnDump, OwnDumpAt, Mates
<1> QED BY <1>1, <1>2, <1>3 DEF Next

\* Only a step of its import job adds to what a call has touched.
LEMMA TouchFrame ==
  ASSUME TypeInv, [Next]_vars, NEW d \in Calls
  PROVE  \/ touched'[d] = touched[d]
         \/ /\ JobStep(d)
            /\ \E s \in asked[reads[d]].names : touched'[d] = touched[d] \cup {s} /\ s \in present'
<1> USE DEF history
<1>1. ASSUME NEW c \in Calls, JobStep(c)
      PROVE  /\ \A e \in Calls \ {c} : touched'[e] = touched[e]
             /\ \E s \in asked[reads[c]].names : touched'[c] = touched[c] \cup {s} /\ s \in present'
  BY <1>1 DEF JobStep, Appear, TypeInv, TypeOK
<1>2. ASSUME NEW c \in Calls, Step(c), ~JobStep(c) PROVE touched' = touched
  BY <1>2 DEF Step, Start, CheckSource, LookFor, StopIfExisting, StopIfArrived, Plan, Probe, Export,
    ZipDump, Download, Upload, Unzip, StartImport, JobEnd, WaitForJob, ReadLog, Count, Raise
<1>3. ASSUME NEW s \in Schemas, OthersCreate(s) PROVE touched' = touched
  BY <1>3 DEF OthersCreate
<1>4. CASE UNCHANGED vars
  BY <1>4 DEF vars
<1> QED BY <1>1, <1>2, <1>3, <1>4 DEF Next

\* A call chooses once what its job reads, before it touches anything.
LEMMA ReadsFrame ==
  ASSUME TypeInv, CopyInv, [Next]_vars, NEW d \in Calls
  PROVE  /\ reads'[d] = reads[d] \/ (touched'[d] = {} /\ job[d] = "none" /\ job'[d] = "running")
         /\ job[d] = "none" => touched[d] = {}
         /\ job[d] # "none" => reads[d] \in Calls
<1> USE DEF jobVars
<1>0. /\ job[d] = "none" => touched[d] = {}
      /\ job[d] # "none" => reads[d] \in Calls
  BY DEF CopyInv, CopyInvAt, TypeInv, Filled, FilledAt
<1>1. ASSUME NEW c \in Calls, StartImport(c)
      PROVE  /\ \A e \in Calls \ {c} : reads'[e] = reads[e]
             /\ touched'[c] = {} /\ job[c] = "none" /\ job'[c] = "running"
  BY <1>1 DEF StartImport, Goto, TypeInv, TypeOK, CopyInv, CopyInvAt, BeforeImport, Pcs, history
<1>2. ASSUME NEW c \in Calls, Step(c), ~StartImport(c) PROVE reads' = reads
  <2>1. CASE \/ Start(c) \/ CheckSource(c) \/ Plan(c) \/ Probe(c) \/ \E s \in Schemas : LookFor(c, s)
             \/ StopIfExisting(c) \/ StopIfArrived(c) \/ Export(c)
    BY <2>1 DEF Start, CheckSource, Plan, Probe, LookFor, StopIfExisting, StopIfArrived, Export
  <2>2. CASE \/ ZipDump(c) \/ Download(c) \/ Upload(c) \/ Unzip(c) \/ JobStep(c) \/ JobEnd(c)
             \/ WaitForJob(c) \/ ReadLog(c) \/ Count(c) \/ Raise(c)
    BY <2>2 DEF ZipDump, Download, Upload, Unzip, JobStep, JobEnd, WaitForJob, ReadLog, Count, Raise
  <2> QED BY <1>2, <2>1, <2>2 DEF Step
<1>3. ASSUME NEW s \in Schemas, OthersCreate(s) PROVE reads' = reads
  BY <1>3 DEF OthersCreate
<1>4. CASE UNCHANGED vars
  BY <1>0, <1>4 DEF vars
<1> QED BY <1>0, <1>1, <1>2, <1>3, <1>4 DEF Next

\* What a call was asked for stays as it was.
LEMMA AskedStays == [Next]_vars => asked' = asked
<1> SUFFICES ASSUME [Next]_vars PROVE asked' = asked
  OBVIOUS
<1>1. ASSUME NEW c \in Calls, Step(c) PROVE asked' = asked
  <2>1. CASE \/ Start(c) \/ CheckSource(c) \/ Plan(c) \/ Probe(c) \/ \E s \in Schemas : LookFor(c, s)
             \/ StopIfExisting(c) \/ StopIfArrived(c) \/ Export(c)
    BY <2>1 DEF Start, CheckSource, Plan, Probe, LookFor, StopIfExisting, StopIfArrived, Export
  <2>2. CASE \/ ZipDump(c) \/ Download(c) \/ Upload(c) \/ Unzip(c) \/ StartImport(c) \/ JobStep(c)
             \/ JobEnd(c) \/ WaitForJob(c) \/ ReadLog(c) \/ Count(c) \/ Raise(c)
    BY <2>2 DEF ZipDump, Download, Upload, Unzip, StartImport, JobStep, JobEnd, WaitForJob, ReadLog,
      Count, Raise, callVars
  <2> QED BY <1>1, <2>1, <2>2 DEF Step
<1>2. ASSUME NEW s \in Schemas, OthersCreate(s) PROVE asked' = asked
  BY <1>2 DEF OthersCreate, callVars
<1>3. CASE UNCHANGED vars
  BY <1>3 DEF vars, callVars
<1> QED BY <1>1, <1>2, <1>3 DEF Next

LEMMA TouchedStep ==
  ASSUME TypeInv, CopyInv, Early, TouchedIsNamed, [Next]_vars
  PROVE  TouchedIsNamed'
<1> SUFFICES ASSUME NEW d \in Calls
             PROVE  touched'[d] \subseteq present' /\ (reads'[d] = d => touched'[d] \subseteq asked[d].names)
  BY AskedStays DEF TouchedIsNamed
<1>1. present \subseteq present'
  BY Histories
<1>2. CASE touched'[d] = touched[d]
  BY <1>1, <1>2, ReadsFrame DEF TouchedIsNamed
<1>3. CASE JobStep(d) /\ \E s \in asked[reads[d]].names : touched'[d] = touched[d] \cup {s} /\ s \in present'
  <2>1. reads'[d] = reads[d]
    BY <1>3 DEF JobStep
  <2> QED BY <1>1, <1>3, <2>1 DEF TouchedIsNamed
<1> QED BY <1>2, <1>3, TouchFrame

LEMMA SeenStep ==
  ASSUME TypeInv, CopyInv, Early, Overlaps, TouchedIsNamed, SeenBefore, [Next]_vars
  PROVE  SeenBefore'
<1>0. \A d \in Calls : met[d] \subseteq met'[d]
  BY Histories
<1>1. ASSUME NEW e \in Calls, Start(e) PROVE SeenBefore'
  <2>1. UNCHANGED <<touched, free>> /\ free[e] = {} /\ Working' \subseteq Working \cup {e}
    BY <1>1 DEF Start, Goto, Early, EarlyAt, Working, Open, jobVars, TypeInv, TypeOK
  <2> QED BY <1>0, <2>1 DEF SeenBefore
<1>2. CASE \A c \in Calls : ~Start(c)
  <2>0. Working' \subseteq Working /\ met' = met
    BY <1>2, WorkingShrinks
  <2>1. ASSUME NEW e \in Calls, JobStep(e) PROVE SeenBefore'
    <3>1. free' = free /\ e \in Working /\ \A c \in Calls \ {e} : touched'[c] = touched[c]
      BY <2>1 DEF JobStep, Working, TypeInv, TypeOK
    <3>2. ASSUME NEW d \in Calls, d # e, d \notin met[e] PROVE d \notin Working
      BY <3>1, <3>2 DEF Overlaps
    <3> QED BY <2>0, <3>1, <3>2 DEF SeenBefore
  <2>2. ASSUME NEW e \in Calls, NEW s \in Schemas, LookFor(e, s) PROVE SeenBefore'
    <3>1. /\ touched' = touched /\ \A d \in Calls \ {e} : free'[d] = free[d]
          /\ free'[e] = IF s \in present THEN free[e] ELSE free[e] \cup {s}
      BY <2>2 DEF LookFor, TypeInv, TypeOK
    <3>2. \A c \in Calls : s \notin present => s \notin touched[c]
      BY DEF TouchedIsNamed
    <3> QED BY <2>0, <3>1, <3>2 DEF SeenBefore
  <2>3. CASE \A c \in Calls : ~JobStep(c) /\ \A s \in Schemas : ~LookFor(c, s)
    <3>1. UNCHANGED <<touched, free>>
      BY <2>3 DEF Next, Step, Start, CheckSource, StopIfExisting, StopIfArrived, Plan, Probe, Export,
        ZipDump, Download, Upload, Unzip, StartImport, JobEnd, WaitForJob, ReadLog, Count, Raise,
        OthersCreate, vars, history
    <3> QED BY <2>0, <3>1 DEF SeenBefore
  <2> QED BY <2>1, <2>2, <2>3
<1> QED BY <1>1, <1>2

LEMMA MixedStep ==
  ASSUME TypeInv, CopyInv, Early, Overlaps, TouchedIsNamed, SeenBefore, MixedApart, [Next]_vars
  PROVE  MixedApart'
<1>0. \A d \in Calls : met[d] \subseteq met'[d]
  BY Histories
<1>1. ASSUME NEW c \in Calls, NEW d \in Calls, c # d, JobStep(c),
             reads'[c] = c, reads'[d] = d, touched'[c] \cap touched'[d] # {}
      PROVE  d \in met[c]
  <2>1. /\ reads' = reads /\ touched'[d] = touched[d] /\ c \in Working /\ job[c] # "none"
        /\ \E s \in asked[c].names : touched'[c] = touched[c] \cup {s}
    BY <1>1 DEF JobStep, Working, TypeInv, TypeOK
  <2>2. free[c] = asked[c].names
    BY <2>1 DEF CopyInv, CopyInvAt, Cleared
  <2>3. CASE touched[c] \cap touched[d] # {}
    BY <1>1, <2>1, <2>3 DEF MixedApart
  <2>4. CASE touched[d] \cap free[c] # {}
    BY <1>1, <2>1, <2>4 DEF SeenBefore, Overlaps
  <2> QED BY <1>1, <2>1, <2>2, <2>3, <2>4
<1>2. ASSUME NEW c \in Calls, NEW d \in Calls, c # d, touched'[c] = touched[c], touched'[d] = touched[d],
             reads'[c] = c, reads'[d] = d, touched'[c] \cap touched'[d] # {}
      PROVE  d \in met[c]
  BY <1>2, ReadsFrame DEF MixedApart
<1>3. ASSUME NEW c \in Calls, NEW d \in Calls, c # d,
             reads'[c] = c, reads'[d] = d, touched'[c] \cap touched'[d] # {}
      PROVE  d \in met'[c]
  <2>1. CASE JobStep(c)
    BY <1>0, <1>1, <1>3, <2>1
  <2>2. CASE JobStep(d)
    BY <1>0, <1>1, <1>3, <2>2 DEF Overlaps
  <2>3. CASE ~JobStep(c) /\ ~JobStep(d)
    <3>1. touched'[c] = touched[c] /\ touched'[d] = touched[d]
      BY <2>3, TouchFrame
    <3> QED BY <1>0, <1>2, <1>3, <3>1
  <2> QED BY <2>1, <2>2, <2>3
<1> QED BY <1>3 DEF MixedApart

\* What appears to a call past its second look is counted, or is its own work.
LEMMA Appears ==
  ASSUME TypeInv, [Next]_vars, NEW d \in Calls, NEW s \in present' \ present, PastSecondLook(d, s)
  PROVE  s \in since'[d] \/ s \in touched'[d]
<1>1. ASSUME NEW u \in Schemas, OthersCreate(u) PROVE s \in since'[d]
  <2>1. s = u /\ d # None
    BY <1>1, DatapumpAssumption DEF OthersCreate, Appear
  <2> QED BY <1>1, <2>1 DEF OthersCreate, Appear
<1>2. ASSUME NEW c \in Calls, JobStep(c) PROVE s \in since'[d] \/ s \in touched'[d]
  <2>1. PICK u : Appear(u, c) /\ touched' = [touched EXCEPT ![c] = @ \cup {u}]
    BY <1>2 DEF JobStep
  <2>2. s = u
    BY <2>1 DEF Appear
  <2>3. CASE d = c
    BY <2>1, <2>2, <2>3 DEF TypeInv, TypeOK
  <2>4. CASE d # c
    BY <2>1, <2>2, <2>4 DEF Appear
  <2> QED BY <2>3, <2>4
<1>3. ASSUME NEW c \in Calls, Step(c), ~JobStep(c) PROVE present' = present
  BY <1>3 DEF Step, Start, CheckSource, LookFor, StopIfExisting, StopIfArrived, Plan, Probe, Export,
    ZipDump, Download, Upload, Unzip, StartImport, JobEnd, WaitForJob, ReadLog, Count, Raise
<1> QED BY <1>1, <1>2, <1>3 DEF Next, vars

\* How a call comes to its second look, its import and its job.
LEMMA Advances ==
  ASSUME TypeInv, CopyInv, [Next]_vars, NEW d \in Calls
  PROVE  /\ pc'[d] = "lookAgain" =>
              \/ pc[d] = "lookAgain" /\ left'[d] = left[d] /\ hit'[d] = hit[d]
              \/ left'[d] = asked[d].names
              \/ pc[d] = "lookAgain" /\ \E s \in Schemas : LookFor(d, s)
         /\ pc'[d] = "import" =>
              \/ pc[d] = "import"
              \/ pc[d] = "lookAgain" /\ left[d] = {} /\ ~hit[d] /\ UNCHANGED <<present, since, touched>>
         /\ job'[d] = "running" =>
              \/ job[d] = "running"
              \/ pc[d] = "import" /\ UNCHANGED <<present, since, touched>>
<1> USE DEF callVars, jobVars, history, Goto, Return
<1>1. ASSUME NEW s \in Schemas, OthersCreate(s) PROVE Same(d)
  BY <1>1, OthersFrame
<1>2. ASSUME NEW c \in Calls, c # d, Step(c) PROVE Same(d)
  BY <1>2, CallFrame
<1>3. CASE UNCHANGED vars
  BY <1>3 DEF vars
<1>4. CASE Start(d) \/ CheckSource(d) \/ StopIfExisting(d) \/ Plan(d) \/ Probe(d) \/ Export(d) \/ ZipDump(d)
           \/ Download(d) \/ Upload(d) \/ WaitForJob(d) \/ ReadLog(d) \/ Count(d)
  <2>1. job' = job /\ pc'[d] \notin {"lookAgain", "import"}
    BY <1>4 DEF Start, CheckSource, StopIfExisting, Plan, Probe, Export, ZipDump, Download, Upload,
      WaitForJob, ReadLog, Count, TypeInv, TypeOK
  <2> QED BY <2>1
<1>5. CASE Unzip(d)
  BY <1>5 DEF Unzip, TypeInv, TypeOK
<1>6. CASE StopIfArrived(d)
  BY <1>6 DEF StopIfArrived, Found, TypeInv, TypeOK
<1>7. CASE StartImport(d)
  BY <1>7 DEF StartImport, TypeInv, TypeOK
<1>8. CASE JobStep(d) \/ JobEnd(d)
  BY <1>8 DEF JobStep, JobEnd
<1>9. CASE Raise(d)
  BY <1>9 DEF Raise, TypeInv, TypeOK
<1>10. ASSUME NEW s \in Schemas, LookFor(d, s) PROVE pc' = pc /\ job' = job
  BY <1>10 DEF LookFor
<1> QED BY <1>1, <1>2, <1>3, <1>4, <1>5, <1>6, <1>7, <1>8, <1>9, <1>10 DEF Next, Step, Same

LEMMA LookedStep ==
  ASSUME TypeInv, CopyInv, Early, LookedAgain, [Next]_vars
  PROVE  LookedAgain'
<1> SUFFICES ASSUME NEW d \in Calls PROVE LookedAgainAt(d)'
  BY DEF LookedAgain
<1>0. /\ asked' = asked /\ LookedAgainAt(d) /\ since[d] \subseteq since'[d] /\ touched[d] \subseteq touched'[d]
      /\ asked[d].names \subseteq Schemas
  BY AskedStays, Histories, TouchFrame DEF LookedAgain, TypeInv, TypeOK, Requests
<1>00. pc[d] \in {"lookAgain", "import"} => job[d] = "none" /\ ~JobStep(d)
  BY DEF CopyInv, CopyInvAt, BeforeImport, Pcs, JobStep
<1>1. ASSUME pc'[d] = "lookAgain", NEW s \in asked[d].names \ left'[d], s \in present'
      PROVE  hit'[d] \/ s \in since'[d]
  <2>1. CASE pc[d] = "lookAgain" /\ left'[d] = left[d] /\ hit'[d] = hit[d]
    <3>1. CASE s \in present
      BY <1>0, <1>1, <2>1, <3>1 DEF LookedAgainAt
    <3>2. CASE s \notin present
      <4>1. s \in since'[d] \/ s \in touched'[d]
        BY <1>1, <2>1, <3>2, Appears DEF PastSecondLook
      <4>2. touched'[d] = {}
        BY <1>00, <2>1, TouchFrame, ReadsFrame
      <4> QED BY <4>1, <4>2
    <3> QED BY <3>1, <3>2
  <2>2. ASSUME pc[d] = "lookAgain", NEW u \in Schemas, LookFor(d, u) PROVE hit'[d] \/ s \in since'[d]
    <3>1. /\ left'[d] = left[d] \ {u} /\ present' = present /\ since' = since
          /\ hit' = [hit EXCEPT ![d] = @ \/ u \in present] /\ hit \in [Calls -> BOOLEAN]
      BY <2>2 DEF LookFor, TypeInv, TypeOK, history
    <3>2. hit'[d] = (hit[d] \/ u \in present)
      BY <3>1, Zenon
    <3>3. CASE s = u
      BY <1>1, <3>1, <3>2, <3>3, Zenon
    <3>4. CASE s # u
      <4>1. hit[d] \/ s \in since[d]
        BY <1>0, <1>1, <2>2, <3>1, <3>4 DEF LookedAgainAt
      <4> QED BY <3>1, <3>2, <4>1, Zenon
    <3> QED BY <3>3, <3>4
  <2> QED BY <1>1, <2>1, <2>2, Advances
<1>2. ASSUME pc'[d] = "import" \/ job'[d] = "running", NEW s \in asked[d].names, s \in present'
      PROVE  s \in since'[d] \cup touched'[d]
  <2>1. CASE pc[d] = "lookAgain" /\ left[d] = {} /\ ~hit[d] /\ UNCHANGED <<present, since, touched>>
    BY <1>0, <1>2, <2>1 DEF LookedAgainAt
  <2>2. CASE pc[d] = "import" \/ job[d] = "running"
    <3>1. CASE s \in present
      BY <1>0, <1>2, <2>2, <3>1 DEF LookedAgainAt
    <3>2. CASE s \notin present
      BY <1>2, <2>2, <3>2, Appears DEF PastSecondLook
    <3> QED BY <3>1, <3>2
  <2> QED BY <1>2, <2>1, <2>2, Advances
<1> QED BY <1>0, <1>1, <1>2 DEF LookedAgainAt

LEMMA SharesStay ==
  ASSUME TypeInv, Early, [Next]_vars, NEW d \in Calls, name[d] # None, Shares(d)
  PROVE  Shares(d)'
<1>1. PICK e \in met[d] \ {d} : name[e] = name[d]
  BY DEF Shares
<1>2. e \in Calls /\ e \in met'[d]
  BY Histories DEF TypeInv, TypeOK
<1>3. name'[e] = name[e] /\ name'[d] = name[d]
  BY <1>1, <1>2, NamesStay
<1> QED BY <1>1, <1>2, <1>3 DEF Shares

\* What the others' jobs do to the log that a call is waiting for.
LEMMA LogOfOthers ==
  ASSUME TypeInv, CopyInv, Early, Overlaps, OwnDump, NEW c \in Calls, Step(c), NEW d \in Calls, d # c,
         pc[d] \in {"wait", "log"}
  PROVE  implog'[name[d]] = implog[name[d]] \/ Shares(d)
<1>0. name[d] \in FileNames /\ implog \in [FileNames -> Places \cup {"none"}]
  BY DEF TypeInv, TypeOK, Named, AfterPlan
<1>1. CASE StartImport(c)
  <2>1. /\ pc[c] = "import" /\ name[c] \in FileNames
        /\ implog' = [implog EXCEPT ![name[c]] = "clean"]
    BY <1>1 DEF StartImport, Goto, TypeInv, Named, AfterPlan
  <2>2. c \in met[d]
    BY <2>1 DEF Overlaps, Working, Open
  <2> QED BY <1>0, <2>1, <2>2 DEF Shares
<1>2. CASE JobStep(c)
  <2>1. reads[c] # None /\ name[c] \in FileNames
    BY <1>2, DatapumpAssumption, ReadsFrame DEF JobStep, OwnDump, OwnDumpAt, CopyInv, TypeInv, Filled, FilledAt
  <2>2. name[d] # name[c] => implog'[name[d]] = implog[name[d]]
    BY <1>0, <1>2, <2>1 DEF JobStep
  <2>3. job[c] = "running"
    BY <1>2 DEF JobStep
  <2>4. c \in met[d]
    BY <2>3 DEF Overlaps, Working, Open
  <2> QED BY <2>2, <2>4 DEF Shares
<1>3. CASE ~StartImport(c) /\ ~JobStep(c)
  <2>1. implog' = implog
    BY <1>3 DEF Step, Start, CheckSource, LookFor, StopIfExisting, StopIfArrived, Plan, Probe, Export,
      ZipDump, Download, Upload, Unzip, JobEnd, WaitForJob, ReadLog, Count, Raise, fileVars
  <2> QED BY <2>1
<1> QED BY <1>1, <1>2, <1>3

LEMMA LogStep ==
  ASSUME TypeInv, CopyInv, Early, Overlaps, OwnDump, LogKept, [Next]_vars
  PROVE  LogKept'
<1> USE DEF callVars, fileVars, jobVars, history, Goto, Return
<1>0. \A d \in Calls : name[d] # None /\ Shares(d) => Shares(d)'
  BY SharesStay
<1>00. /\ None \notin FileNames /\ \A d \in Calls : pc[d] \in AfterPlan => name[d] # None
       /\ \A d \in Calls : name[d] # None => name'[d] = name[d]
  BY NamesStay, DatapumpAssumption DEF TypeInv, Named
<1>1. ASSUME NEW s \in Schemas, OthersCreate(s) PROVE LogKept'
  BY <1>1, OthersFrame DEF LogKept, LogKeptAt, Shares
<1>2. ASSUME NEW c \in Calls, Step(c) PROVE LogKept'
  <2>0. asked' = asked /\ \A d \in Calls \ {c} : Same(d)
    BY <1>2, CallFrame
  <2>1. ASSUME NEW d \in Calls, d # c PROVE LogKeptAt(d)'
    <3>1. Same(d) /\ LogKeptAt(d)
      BY <2>0, <2>1 DEF LogKept
    <3>2. pc[d] \in {"wait", "log"} => implog'[name[d]] = implog[name[d]] \/ Shares(d)
      BY <1>2, <2>1, LogOfOthers
    <3>3. pc[d] \in AfterPlan \/ answer[d] = "imported" => name[d] # None /\ (Shares(d) => Shares(d)')
      BY <1>0, <1>00, <3>1 DEF LogKeptAt
    <3> QED BY <2>0, <3>1, <3>2, <3>3 DEF Same, LogKeptAt, AfterPlan
  <2>2. LogKeptAt(c)'
    <3>0. /\ LogKeptAt(c) /\ CopyInvAt(c) /\ EarlyAt(c) /\ OwnDumpAt(c) /\ FilledAt(c) /\ TypeOK
          /\ pc[c] \in AfterPlan => name[c] \in FileNames
          /\ pc[c] \in AfterPlan \/ answer[c] = "imported" =>
               name[c] # None /\ name'[c] = name[c] /\ (Shares(c) => Shares(c)')
      BY <1>0, <1>00 DEF LogKept, LogKeptAt, CopyInv, Early, OwnDump, TypeInv, Filled, Named
    <3>1. CASE Start(c) \/ CheckSource(c) \/ StopIfExisting(c) \/ Plan(c) \/ Probe(c) \/ Export(c) \/ ZipDump(c)
               \/ Download(c) \/ Upload(c) \/ Unzip(c) \/ StopIfArrived(c)
      <4>1. /\ UNCHANGED <<job, reads, errors, touched>> /\ pc'[c] \notin {"wait", "log", "count"}
            /\ job[c] = "none" /\ answer'[c] # "imported"
        BY <3>0, <3>1 DEF Start, CheckSource, StopIfExisting, Plan, Probe, Export, ZipDump,
          Download, Upload, Unzip, StopIfArrived, TypeOK, CopyInvAt, BeforeImport, Pcs
      <4> QED BY <4>1 DEF LogKeptAt
    <3>2. ASSUME NEW s \in Schemas, LookFor(c, s) PROVE LogKeptAt(c)'
      <4>1. UNCHANGED <<job, answer>> /\ pc' = pc /\ pc[c] \in {"look", "lookAgain"}
        BY <3>2 DEF LookFor
      <4>2. job[c] = "none" /\ answer[c] = "none"
        BY <3>0, <4>1 DEF CopyInvAt, BeforeImport, Pcs
      <4> QED BY <4>1, <4>2 DEF LogKeptAt
    <3>3. CASE StartImport(c)
      <4>1. /\ UNCHANGED <<errors, answer, name>> /\ job'[c] = "running" /\ pc'[c] = "wait"
            /\ pc[c] = "import" /\ job[c] = "none" /\ answer[c] = "none"
            /\ implog' = [implog EXCEPT ![name[c]] = "clean"]
        BY <3>0, <3>3 DEF StartImport, TypeOK, CopyInvAt, BeforeImport, Pcs
      <4>2. implog'[name[c]] = "clean"
        BY <3>0, <4>1 DEF AfterPlan, TypeOK
      <4> QED BY <3>0, <4>1, <4>2 DEF LogKeptAt, EarlyAt
    <3>4. CASE JobStep(c)
      <4>1. PICK line \in Places : /\ errors' = [errors EXCEPT ![c] = First(@, line)]
                                   /\ implog' = [implog EXCEPT ![name[c]] = First(@, line)]
        BY <3>4 DEF JobStep
      <4>2. /\ UNCHANGED <<pc, answer, status, name, job>> /\ job[c] = "running"
            /\ pc[c] = "wait" \/ (pc[c] = "end" /\ answer[c] = "raised")
        BY <3>0, <3>4 DEF JobStep, CopyInvAt
      <4>3. errors'[c] = First(errors[c], line)
        BY <3>0, <4>1 DEF TypeOK
      <4>4. pc[c] = "wait" => implog'[name[c]] = First(implog[name[c]], line)
        BY <3>0, <4>1 DEF AfterPlan, TypeOK
      <4>5. pc[c] = "wait" => implog'[name[c]] = errors'[c] \/ Shares(c)
        BY <3>0, <4>3, <4>4 DEF LogKeptAt
      <4> QED BY <3>0, <4>2, <4>5 DEF LogKeptAt, AfterPlan
    <3>5. CASE JobEnd(c)
      <4>1. /\ UNCHANGED <<pc, answer, status, name, errors, implog, reads, touched>> /\ job[c] = "running"
            /\ pc[c] = "wait" \/ (pc[c] = "end" /\ answer[c] = "raised")
            /\ job'[c] = "ok" => asked[reads[c]].names \subseteq touched[c]
        BY <3>0, <3>5 DEF JobEnd, CopyInvAt, TypeOK
      <4> QED BY <2>0, <3>0, <4>1 DEF LogKeptAt, AfterPlan
    <3>6. CASE WaitForJob(c)
      <4>1. /\ UNCHANGED <<answer, status, name, errors, implog, reads, touched, job>>
            /\ pc[c] = "wait" /\ pc'[c] = "log"
        BY <3>0, <3>6 DEF WaitForJob, TypeOK
      <4> QED BY <2>0, <3>0, <4>1 DEF LogKeptAt, AfterPlan
    <3>7. CASE ReadLog(c)
      <4>1. /\ UNCHANGED <<name, errors, implog, reads, touched, job>>
            /\ pc[c] = "log" /\ \E ssh \in BOOLEAN : status'[c] = OraLines(implog[name[c]], ssh)
            /\ pc'[c] \in {"count", "end"} /\ answer'[c] \in {answer[c], "raised"}
        BY <3>0, <3>7 DEF ReadLog, TypeOK
      <4>2. implog[name[c]] = errors[c] \/ Shares(c)
        BY <3>0, <4>1 DEF LogKeptAt
      <4>3. errors[c] \in Places /\ answer[c] = "none"
        BY <3>0, <4>1 DEF TypeOK, CopyInvAt
      <4>4. \/ status'[c] = "errors" \/ errors[c] = "clean" \/ (errors[c] = "late" /\ status'[c] = "cut")
            \/ Shares(c)
        BY <4>1, <4>2, <4>3 DEF OraLines, Places
      <4> QED BY <2>0, <3>0, <4>1, <4>3, <4>4 DEF LogKeptAt, AfterPlan
    <3>8. CASE Count(c)
      <4>1. /\ UNCHANGED <<name, errors, reads, touched, job, status>>
            /\ pc[c] = "count" /\ pc'[c] = "end" /\ job[c] = "ok"
            /\ answer'[c] = "imported" => status[c] # "errors"
        BY <3>0, <3>8 DEF Count, TypeOK, CopyInvAt
      <4> QED BY <2>0, <3>0, <4>1 DEF LogKeptAt, AfterPlan
    <3>9. CASE Raise(c)
      <4>1. /\ UNCHANGED <<reads, touched>> /\ pc'[c] = "end" /\ answer'[c] = "raised"
            /\ job'[c] = "ok" => job[c] = "ok"
        BY <3>0, <3>9 DEF Raise, TypeOK
      <4> QED BY <2>0, <3>0, <4>1 DEF LogKeptAt
    <3> QED BY <1>2, <3>1, <3>2, <3>3, <3>4, <3>5, <3>6, <3>7, <3>8, <3>9 DEF Step
  <2> QED BY <2>1, <2>2 DEF LogKept
<1>3. CASE UNCHANGED vars
  BY <1>3 DEF vars, LogKept, LogKeptAt, Shares
<1> QED BY <1>1, <1>2, <1>3 DEF Next

LEMMA DumpInvariant == Spec => []DumpInv
<1>1. TypeInv /\ CopyInv /\ DumpInv /\ [Next]_vars => DumpInv'
  BY EarlyStep, OverlapStep, OwnNamesStep, OwnDumpStep, TouchedStep, SeenStep, MixedStep, LookedStep, LogStep
     DEF DumpInv
<1> QED BY <1>1, DumpInit, TypeInvariant, CopyInvariant, PTL DEF Spec

LEMMA OwnReads ==
  ASSUME TypeInv, CopyInv, DumpInv, NEW c \in Calls
  PROVE  /\ reads[c] # None /\ reads[c] # c => reads[c] \in met[c] /\ name[c] = name[reads[c]]
         /\ Alone(c) => reads[c] \in {None, c}
         /\ touched[c] # {} => job[c] # "none" /\ reads[c] \in Calls
<1>1. reads[c] # None /\ reads[c] # c => reads[c] \in met[c] /\ name[c] = name[reads[c]]
  BY DEF DumpInv, OwnDump, OwnDumpAt, Mates
<1>2. reads[c] \in Calls \cup {None}
  BY DEF TypeInv, TypeOK
<1>3. touched[c] # {} => job[c] # "none" /\ reads[c] \in Calls
  BY DEF CopyInv, CopyInvAt, TypeInv, Filled, FilledAt
<1> QED BY <1>1, <1>2, <1>3 DEF Alone, Collides

\* Dumps, zips and left-over files of other calls pass through the directories:
\* a call imports its own dump, or that of a call of the same second beside it.
THEOREM CallsImportTheirDump == Spec => []ImportsOwnDump
<1>1. TypeInv /\ CopyInv /\ DumpInv => ImportsOwnDump
  BY OwnReads DEF ImportsOwnDump
<1> QED BY <1>1, TypeInvariant, CopyInvariant, DumpInvariant, PTL

\* Calls whose work did not overlap put nothing into the same schema.
THEOREM MixedByOverlapOnly == Spec => []MixedOnlyByOverlap
<1>1. ASSUME TypeInv, CopyInv, DumpInv PROVE MixedOnlyByOverlap
  <2> SUFFICES ASSUME NEW c \in Calls, NEW d \in Calls, c # d, Alone(c), Alone(d),
                      touched[c] \cap touched[d] # {}
               PROVE  d \in met[c]
    BY DEF MixedOnlyByOverlap
  <2>1. reads[c] = c /\ reads[d] = d
    BY <1>1, OwnReads, DatapumpAssumption
  <2> QED BY <1>1, <2>1 DEF DumpInv, MixedApart
<1> QED BY <1>1, TypeInvariant, CopyInvariant, DumpInvariant, PTL

\* A call that answers plain "imported" changed all it was asked for, and its job met no error
\* that stands in the part of the import log that the call has read: over SSH the first 100,000
\* bytes, over the admin share all of it.
THEOREM ImportedIsWhole == Spec => []ImportedHidesNothing
<1>1. ASSUME TypeInv, CopyInv, DumpInv PROVE ImportedHidesNothing
  <2> SUFFICES ASSUME NEW c \in Calls, answer[c] = "imported", Alone(c)
               PROVE  /\ touched[c] = asked[c].names
                      /\ errors[c] = "clean" \/ (errors[c] = "late" /\ status[c] = "cut")
    BY DEF ImportedHidesNothing
  <2>1. /\ job[c] = "ok" /\ asked[reads[c]].names \subseteq touched[c]
        /\ errors[c] = "clean" \/ (errors[c] = "late" /\ status[c] = "cut") \/ Shares(c)
    BY <1>1 DEF DumpInv, LogKept, LogKeptAt
  <2>2. ~Shares(c)
    BY <1>1 DEF Alone, Collides, Shares, TypeInv, TypeOK
  <2>3. reads[c] \in Calls /\ reads[c] = c
    BY <1>1, <2>1, OwnReads, DatapumpAssumption DEF TypeInv, Filled, FilledAt
  <2>4. touched[c] \subseteq asked[c].names
    BY <1>1, <2>3 DEF DumpInv, TouchedIsNamed
  <2> QED BY <2>1, <2>2, <2>3, <2>4
<1> QED BY <1>1, TypeInvariant, CopyInvariant, DumpInvariant, PTL

\* A call puts objects into a schema that exists only when the schema came after
\* the call had looked for it the second time.
THEOREM ImportsAreFresh == Spec => ImportsIntoFreshSchemas
<1> DEFINE Into == \A c \in Calls : Alone(c) => (touched'[c] \ touched[c]) \cap present \subseteq since[c]
<1>1. ASSUME TypeInv, CopyInv, DumpInv, [Next]_vars PROVE [Into]_vars
  <2> SUFFICES ASSUME NEW c \in Calls, Alone(c), NEW s \in (touched'[c] \ touched[c]) \cap present
               PROVE  s \in since[c]
    OBVIOUS
  <2>1. JobStep(c) /\ s \in asked[reads[c]].names
    BY <1>1, TouchFrame
  <2>2. job[c] = "running" /\ reads[c] = c
    BY <1>1, <2>1, OwnReads, DatapumpAssumption DEF JobStep, TypeInv, Filled, FilledAt
  <2> QED BY <1>1, <2>1, <2>2 DEF DumpInv, LookedAgain, LookedAgainAt
<1>2. TypeInv /\ CopyInv /\ DumpInv /\ [Next]_vars => [Into]_vars
  BY <1>1
<1> QED BY <1>2, TypeInvariant, CopyInvariant, DumpInvariant, PTL DEF Spec, ImportsIntoFreshSchemas

=============================================================================
