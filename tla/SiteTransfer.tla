---------------------------- MODULE SiteTransfer ----------------------------
(***************************************************************************)
(* The Spain Repair Center collects units (UUTs) and PCB serial keys from  *)
(* its remote sites.  Four tools write the same committed tables, each     *)
(* call on a connection of its own:                                        *)
(*   "force"  site_force_refresh.force_site_refresh                        *)
(*   "ph"     ph_remaining_copy.copy_remaining_ph_units                    *)
(*   "rf"     hungary_targeted_copy.copy_hungary_units_by_rf               *)
(*   "rest"   hungary_targeted_copy.copy_hungary_remaining_units           *)
(* One action is one SQL statement.  A statement reads the committed       *)
(* tables together with the writes of its own call (READ COMMITTED), so    *)
(* other calls can commit between any two statements of a call.            *)
(***************************************************************************)
EXTENDS Integers, FiniteSets

CONSTANTS
  Sites,      \* the keys of SITES; Hungary and PH are two of them
  Hungary, PH,
  Serials,    \* UUT_SERIAL_NUMBER values
  Rfs,        \* RF_NUMBER values; NoRf is the SQL null
  NoRf,
  Pcbs,       \* PCB_SN values
  MaxDate,    \* LAST_TEST_DATE is 1..MaxDate (bound on retests of a unit)
  Cutoff,     \* the first-name copy takes only dates after Cutoff
  KeyBatch,   \* rownum limit of one NKEYS insert
  MaxTests,   \* bound on remote test events
  Listings,   \* which values Unit.listed takes, a subset of BOOLEAN
  Calls,      \* tool calls; each is made once, on its own connection
  Kinds,      \* the tools called in an instance
  MaxOpen,    \* how many calls may be open at once
  NoRow       \* no row under a key

ToolKinds == {"force", "ph", "rf", "rest"}
RfValues == Rfs \cup {NoRf}
Rows == [rf : RfValues, date : 1..MaxDate]
\* A unit at a remote site.  "listed": its LAST_UUT_NAME is a transferred
\* product; otherwise only its FIRST_UUT_NAME is.
Units == [rf : RfValues, date : 1..MaxDate, listed : Listings]
Keys == Calls \X Serials       \* one row per (inserting call, serial)
Statuses == {"T", "R"}
LogRows == [by : Calls, sn : Serials, site : Sites, st : Statuses]
KeyRows == Calls \X Pcbs
KeyLogRows == [by : Calls, pcb : Pcbs, site : Sites]

Jobs == {j \in [kind : Kinds, site : Sites, list : SUBSET Rfs] :
           /\ j.kind = "ph" => j.site = PH
           /\ j.kind \in {"rf", "rest"} => j.site = Hungary
           /\ j.kind = "rf" <=> j.list # {}}

Ended == {"idle", "done", "raised"}
RefreshPcs == {"src", "srcFill", "upd", "updFill", "ser", "serFill"}
WritePcs == {"insert", "firstName", "log", "update", "logR",
             "keys", "logKeys", "audit", "commit"}

ASSUME ConstantsAssumption ==
  /\ {Hungary, PH} \subseteq Sites
  /\ NoRf \notin Rfs
  /\ MaxDate \in Nat /\ Cutoff \in Nat /\ KeyBatch \in Nat /\ MaxTests \in Nat
  /\ MaxOpen \in Nat
  /\ Listings \subseteq BOOLEAN
  /\ Kinds \subseteq ToolKinds
  /\ NoRow \notin Rows /\ NoRow \notin Units

VARIABLES
  remote,     \* remote[site][sn]: the unit in the site's SITE_UUT_ATTRUBUTES
  remoteKeys, \* remoteKeys[site]: PCBs in the site's NKEYS_ALLOCATED
  tests,      \* number of remote test events so far
  src,        \* src[site][sn]: staged row of the source view
  upd,        \* upd[site][sn]: staged row of the update view
  ser,        \* ser[site]: staged PCBs of the serial view
  glob,       \* committed GLOBAL_UUT_ATTRIBUTES, by key
  tlog,       \* committed TRANSFER_LOG
  nkeys,      \* committed NKEYS_ALLOCATED
  klog,       \* committed TRANSFER_LOG_SERIAL
  audit,      \* audit[c]: the LOG_PROCEDURE record call c committed
  gdirty,     \* gdirty[c]: uncommitted rows of call c in GLOBAL_UUT_ATTRIBUTES
  ldirty,     \* ldirty[c]: uncommitted rows of call c in TRANSFER_LOG
  kdirty,     \* kdirty[c]: uncommitted rows of call c in NKEYS_ALLOCATED
  kldirty,    \* kldirty[c]: uncommitted rows of call c in TRANSFER_LOG_SERIAL
  pc,         \* pc[c]: the statement call c executes next
  job,        \* job[c]: what call c was asked to do
  met         \* met[c]: the calls that were open together with c (history)

remoteVars == <<remote, remoteKeys, tests>>
stageVars == <<src, upd, ser>>
committed == <<glob, tlog, nkeys, klog, audit>>
pending == <<gdirty, ldirty, kdirty, kldirty>>
ctlVars == <<pc, job, met>>
vars == <<remoteVars, stageVars, committed, pending, ctlVars>>

NoRows == [sn \in Serials |-> NoRow]
NoDirty == [k \in Keys |-> NoRow]

-----------------------------------------------------------------------------
(* What a statement of call c sees.                                        *)

Seen(c) == [k \in Keys |-> IF gdirty[c][k] # NoRow THEN gdirty[c][k] ELSE glob[k]]
SeenLog(c) == tlog \cup ldirty[c]
SeenKeys(c) == nkeys \cup kdirty[c]
SeenKeyLog(c) == klog \cup kldirty[c]

HasSerial(table, sn) == \E by \in Calls : table[<<by, sn>>] # NoRow
HasRf(table, rf) ==
  rf # NoRf /\ \E k \in Keys : table[k] # NoRow /\ table[k].rf = rf
Logged(log, sn) == \E e \in log : e.sn = sn
Allocated(rows, pcb) == \E k \in rows : k[2] = pcb
KeyLogged(log, pcb) == \E e \in log : e.pcb = pcb

Active == {c \in Calls : pc[c] \notin Ended}

\* Fault: the row carries the product name along.
RowWithProduct(u) == u
RowOf(u) == [rf |-> u.rf, date |-> u.date]

-----------------------------------------------------------------------------
Init ==
  /\ remote = [s \in Sites |-> NoRows]
  /\ remoteKeys = [s \in Sites |-> {}]
  /\ tests = 0
  /\ src = [s \in Sites |-> NoRows] /\ upd = [s \in Sites |-> NoRows]
  /\ ser = [s \in Sites |-> {}]
  /\ glob = NoDirty /\ tlog = {} /\ nkeys = {} /\ klog = {}
  /\ audit = [c \in Calls |-> "none"]
  /\ gdirty = [c \in Calls |-> NoDirty] /\ ldirty = [c \in Calls |-> {}]
  /\ kdirty = [c \in Calls |-> {}] /\ kldirty = [c \in Calls |-> {}]
  /\ pc = [c \in Calls |-> "idle"]
  /\ job \in [Calls -> Jobs]
  /\ met = [c \in Calls |-> {}]

(* A site tests a unit: a new unit, or a retest that may change its RF and *)
(* its product name.                                                       *)
SiteTest(s, sn) ==
  LET last == IF remote[s][sn] = NoRow THEN 0 ELSE remote[s][sn].date IN
  /\ tests < MaxTests /\ last < MaxDate
  /\ \E rf \in RfValues, listed \in Listings :
       remote' = [remote EXCEPT ![s][sn] =
                    [rf |-> rf, date |-> last + 1, listed |-> listed]]
  /\ tests' = tests + 1
  /\ UNCHANGED <<remoteKeys, stageVars, committed, pending, ctlVars>>

SiteAllocate(s, pcb) ==
  /\ tests < MaxTests /\ pcb \notin remoteKeys[s]
  /\ remoteKeys' = [remoteKeys EXCEPT ![s] = @ \cup {pcb}]
  /\ tests' = tests + 1
  /\ UNCHANGED <<remote, stageVars, committed, pending, ctlVars>>

(* A confirmed tool call opens its connection. *)
Start(c) ==
  /\ pc[c] = "idle" /\ Cardinality(Active) < MaxOpen
  /\ pc' = [pc EXCEPT ![c] = IF job[c].kind = "force" THEN "src" ELSE "insert"]
  /\ met' = [d \in Calls |-> IF d = c THEN Active
                             ELSE IF d \in Active THEN met[d] \cup {c} ELSE met[d]]
  /\ UNCHANGED <<remoteVars, stageVars, committed, pending, job>>

Goto(c, here, there) == pc[c] = here /\ pc' = [pc EXCEPT ![c] = there]

-----------------------------------------------------------------------------
(* dbms_mview.refresh(..., 'C', atomic_refresh => false): the view is      *)
(* truncated, then filled and committed; one refresh of a view at a time.  *)

Refreshing(s, fill) == \E d \in Calls : pc[d] = fill /\ job[d].site = s

TruncateSource(c) ==
  LET s == job[c].site IN
  /\ ~Refreshing(s, "srcFill")
  /\ Goto(c, "src", "srcFill")
  /\ src' = [src EXCEPT ![s] = NoRows]
  /\ UNCHANGED <<remoteVars, upd, ser, committed, pending, job, met>>

(* Rows of the site whose serial is not in the transfer log. *)
FillSource(c) ==
  LET s == job[c].site IN
  /\ Goto(c, "srcFill", "upd")
  /\ src' = [src EXCEPT ![s] = [sn \in Serials |->
               IF remote[s][sn] # NoRow /\ remote[s][sn].listed /\ ~Logged(tlog, sn)
               THEN RowOf(remote[s][sn]) ELSE NoRow]]
  /\ UNCHANGED <<remoteVars, upd, ser, committed, pending, job, met>>

TruncateUpdate(c) ==
  LET s == job[c].site IN
  /\ ~Refreshing(s, "updFill")
  /\ Goto(c, "upd", "updFill")
  /\ upd' = [upd EXCEPT ![s] = NoRows]
  /\ UNCHANGED <<remoteVars, src, ser, committed, pending, job, met>>

\* Fault: the test dates are not compared.
OlderInGlobalAnyDate(s, sn) == \E by \in Calls : glob[<<by, sn>>] # NoRow
OlderInGlobal(s, sn) ==
  \E by \in Calls : /\ glob[<<by, sn>>] # NoRow
                    /\ glob[<<by, sn>>].date < remote[s][sn].date

(* Rows of the site for which the global table holds an older one. *)
FillUpdate(c) ==
  LET s == job[c].site IN
  /\ Goto(c, "updFill", "ser")
  /\ upd' = [upd EXCEPT ![s] = [sn \in Serials |->
               IF remote[s][sn] # NoRow /\ remote[s][sn].listed /\ OlderInGlobal(s, sn)
               THEN RowOf(remote[s][sn]) ELSE NoRow]]
  /\ UNCHANGED <<remoteVars, src, ser, committed, pending, job, met>>

TruncateSerial(c) ==
  LET s == job[c].site IN
  /\ ~Refreshing(s, "serFill")
  /\ Goto(c, "ser", "serFill")
  /\ ser' = [ser EXCEPT ![s] = {}]
  /\ UNCHANGED <<remoteVars, src, upd, committed, pending, job, met>>

FillSerial(c) ==
  LET s == job[c].site IN
  /\ Goto(c, "serFill", "insert")
  /\ ser' = [ser EXCEPT ![s] = {p \in remoteKeys[s] : ~KeyLogged(klog, p)}]
  /\ UNCHANGED <<remoteVars, src, upd, committed, pending, job, met>>

-----------------------------------------------------------------------------
(* The copy statements. *)

(* Call c adds the row rows[sn] of every serial in sns, under its own key. *)
AddRows(c, sns, rows) ==
  gdirty' = [gdirty EXCEPT ![c] = [k \in Keys |->
               IF k[1] = c /\ k[2] \in sns THEN rows[k[2]] ELSE @[k]]]

(* Call c logs every serial in sns with status st. *)
AddLog(c, sns, st) ==
  ldirty' = [ldirty EXCEPT ![c] = @ \cup
               [by : {c}, sn : sns, site : {job[c].site}, st : {st}]]

InList(c, rf) == job[c].kind = "rf" => rf \in job[c].list

\* Fault: the anti-join by serial is left out.
InsertableByRf(c) ==
  LET s == job[c].site IN
  {sn \in Serials : /\ src[s][sn] # NoRow /\ InList(c, src[s][sn].rf)
                    /\ ~HasRf(Seen(c), src[s][sn].rf)}

(* Staged rows whose serial and whose RF number are both absent from the   *)
(* table as the statement sees it when it starts.                          *)
Insertable(c) ==
  LET s == job[c].site IN
  {sn \in Serials : /\ src[s][sn] # NoRow
                    /\ InList(c, src[s][sn].rf)
                    /\ ~HasSerial(Seen(c), sn)
                    /\ ~HasRf(Seen(c), src[s][sn].rf)}

Insert(c) ==
  /\ Goto(c, "insert", IF job[c].kind = "ph" THEN "firstName" ELSE "log")
  /\ AddRows(c, Insertable(c), src[job[c].site])
  /\ UNCHANGED <<remoteVars, stageVars, committed, ldirty, kdirty, kldirty, job, met>>

(* Units of the PH site listed only by their first name; read over the     *)
(* database link each time a statement names them.                         *)
FirstNameOnly == {sn \in Serials : remote[PH][sn] # NoRow /\ ~remote[PH][sn].listed}

FirstNameInsertable(c) ==
  {sn \in FirstNameOnly : /\ remote[PH][sn].date > Cutoff
                          /\ ~HasSerial(Seen(c), sn)}

InsertFirstName(c) ==
  /\ Goto(c, "firstName", "log")
  /\ AddRows(c, FirstNameInsertable(c), [sn \in Serials |-> RowOf(remote[PH][sn])])
  /\ UNCHANGED <<remoteVars, stageVars, committed, ldirty, kdirty, kldirty, job, met>>

\* Faults: the log takes every staged serial, copied or not, or reads the
\* global table from another connection.
TransferredUnjoined(c) == {sn \in Serials : src[job[c].site][sn] # NoRow}
TransferredCommitted(c) == {sn \in Serials : HasSerial(glob, sn) /\ src[job[c].site][sn] # NoRow}

(* The serials the 'T' statement of call c finds, before it drops those    *)
(* already logged.                                                         *)
Transferred(c) ==
  {sn \in Serials :
     /\ HasSerial(Seen(c), sn)
     /\ \/ job[c].kind # "rf" /\ src[job[c].site][sn] # NoRow
        \/ job[c].kind = "ph" /\ sn \in FirstNameOnly
        \/ \E by \in Calls : /\ Seen(c)[<<by, sn>>] # NoRow
                             /\ Seen(c)[<<by, sn>>].rf \in job[c].list}

LogTransferred(c) ==
  /\ Goto(c, "log", IF job[c].kind = "ph" THEN "commit" ELSE "update")
  /\ AddLog(c, {sn \in Transferred(c) : ~Logged(SeenLog(c), sn)}, "T")
  /\ UNCHANGED <<remoteVars, stageVars, committed, gdirty, kdirty, kldirty, job, met>>

(* Keys whose row the update statement of call c rewrites. *)
Updatable(c) ==
  {k \in Keys : /\ Seen(c)[k] # NoRow
                /\ upd[job[c].site][k[2]] # NoRow
                /\ InList(c, Seen(c)[k].rf)}

(* Every column but the serial is copied from the update view.  The        *)
(* statement waits for rows another open call has written.                 *)
Update(c) ==
  /\ \A d \in Calls \ {c}, k \in Updatable(c) : gdirty[d][k] = NoRow
  /\ Goto(c, "update", "logR")
  /\ gdirty' = [gdirty EXCEPT ![c] = [k \in Keys |->
                  IF k \in Updatable(c) THEN upd[job[c].site][k[2]] ELSE @[k]]]
  /\ UNCHANGED <<remoteVars, stageVars, committed, ldirty, kdirty, kldirty, job, met>>

(* The 'R' statement joins the update view with the global table; the      *)
(* by-RF tool does not repeat its RF filter here.                          *)
LogRefreshed(c) ==
  /\ Goto(c, "logR", IF job[c].kind = "force" THEN "keys" ELSE "commit")
  /\ AddLog(c, {sn \in Serials : /\ upd[job[c].site][sn] # NoRow
                                 /\ HasSerial(Seen(c), sn)
                                 /\ ~Logged(SeenLog(c), sn)}, "R")
  /\ UNCHANGED <<remoteVars, stageVars, committed, gdirty, kdirty, kldirty, job, met>>

(* At most KeyBatch staged PCBs absent from the serial log. *)
InsertKeys(c) ==
  LET new == {p \in ser[job[c].site] : ~KeyLogged(SeenKeyLog(c), p)} IN
  /\ Goto(c, "keys", "logKeys")
  /\ \E batch \in SUBSET new :
       /\ Cardinality(batch) = KeyBatch \/ (batch = new /\ Cardinality(new) < KeyBatch)
       /\ kdirty' = [kdirty EXCEPT ![c] = @ \cup ({c} \X batch)]
  /\ UNCHANGED <<remoteVars, stageVars, committed, gdirty, ldirty, kldirty, job, met>>

\* Faults: the join with NKEYS_ALLOCATED is left out, or made from another
\* connection.
CopiedKeysUnjoined(c) == {p \in ser[job[c].site] : ~KeyLogged(SeenKeyLog(c), p)}
CopiedKeysCommitted(c) ==
  {p \in ser[job[c].site] : Allocated(nkeys, p) /\ ~KeyLogged(SeenKeyLog(c), p)}

\* Staged PCBs that are allocated and not logged yet.
CopiedKeys(c) ==
  {p \in ser[job[c].site] : Allocated(SeenKeys(c), p) /\ ~KeyLogged(SeenKeyLog(c), p)}

LogKeys(c) ==
  /\ Goto(c, "logKeys", "audit")
  /\ kldirty' = [kldirty EXCEPT ![c] = @ \cup
       {[by |-> c, pcb |-> p, site |-> job[c].site] : p \in CopiedKeys(c)}]
  /\ UNCHANGED <<remoteVars, stageVars, committed, gdirty, ldirty, kdirty, job, met>>

(* The "End" record joins the transaction; it is committed with the rest.  *)
AuditEnd(c) ==
  /\ Goto(c, "audit", "commit")
  /\ UNCHANGED <<remoteVars, stageVars, committed, pending, job, met>>

-----------------------------------------------------------------------------
(* The ends of a call. *)

Flush(c) ==
  /\ glob' = Seen(c) /\ tlog' = SeenLog(c)
  /\ nkeys' = SeenKeys(c) /\ klog' = SeenKeyLog(c)

Forget(c) ==
  /\ gdirty' = [gdirty EXCEPT ![c] = NoDirty] /\ ldirty' = [ldirty EXCEPT ![c] = {}]
  /\ kdirty' = [kdirty EXCEPT ![c] = {}] /\ kldirty' = [kldirty EXCEPT ![c] = {}]

(* connection.commit(); the answer may be lost after the database made it  *)
(* durable, and the caller then sees an error.                             *)
Commit(c) ==
  /\ \E there \in {"done", "raised"} : Goto(c, "commit", there)
  /\ Flush(c) /\ Forget(c)
  /\ audit' = [audit EXCEPT ![c] = IF job[c].kind = "force" THEN "End" ELSE @]
  /\ UNCHANGED <<remoteVars, stageVars, job, met>>

(* A statement raises: the wrapper rolls back.  So does a force refresh    *)
(* whose Error record or whose commit of it fails too.                     *)
Rollback(c) ==
  /\ c \in Active
  /\ pc' = [pc EXCEPT ![c] = "raised"]
  /\ Forget(c)
  /\ UNCHANGED <<remoteVars, stageVars, committed, job, met>>

(* A statement of a force refresh raises and its handler writes the        *)
(* "Error" record and commits: everything written so far goes with it, and *)
(* the rollback of the wrapper finds nothing left to undo.                 *)
ErrorCommit(c) ==
  /\ c \in Active /\ job[c].kind = "force" /\ pc[c] # "commit"
  /\ pc' = [pc EXCEPT ![c] = "raised"]
  /\ Flush(c) /\ Forget(c)
  /\ audit' = [audit EXCEPT ![c] = "Error"]
  /\ UNCHANGED <<remoteVars, stageVars, job, met>>

CallStep(c) ==
  \/ Start(c)
  \/ TruncateSource(c) \/ FillSource(c)
  \/ TruncateUpdate(c) \/ FillUpdate(c)
  \/ TruncateSerial(c) \/ FillSerial(c)
  \/ Insert(c) \/ InsertFirstName(c) \/ LogTransferred(c)
  \/ Update(c) \/ LogRefreshed(c)
  \/ InsertKeys(c) \/ LogKeys(c) \/ AuditEnd(c)
  \/ Commit(c) \/ Rollback(c) \/ ErrorCommit(c)

Next ==
  \/ \E s \in Sites, sn \in Serials : SiteTest(s, sn)
  \/ \E s \in Sites, pcb \in Pcbs : SiteAllocate(s, pcb)
  \/ \E c \in Calls : CallStep(c)

Spec == Init /\ [][Next]_vars

-----------------------------------------------------------------------------
(* Properties. *)

\* Type correctness of the tables, the staging views and the open calls.
TypeOK ==
  /\ remote \in [Sites -> [Serials -> Units \cup {NoRow}]]
  /\ remoteKeys \in [Sites -> SUBSET Pcbs]
  /\ tests \in 0..MaxTests
  /\ src \in [Sites -> [Serials -> Rows \cup {NoRow}]]
  /\ upd \in [Sites -> [Serials -> Rows \cup {NoRow}]]
  /\ ser \in [Sites -> SUBSET Pcbs]
  /\ glob \in [Keys -> Rows \cup {NoRow}]
  /\ tlog \subseteq LogRows
  /\ nkeys \subseteq KeyRows
  /\ klog \subseteq KeyLogRows
  /\ audit \in [Calls -> {"none", "End", "Error"}]
  /\ gdirty \in [Calls -> [Keys -> Rows \cup {NoRow}]]
  /\ ldirty \in [Calls -> SUBSET LogRows]
  /\ kdirty \in [Calls -> SUBSET KeyRows]
  /\ kldirty \in [Calls -> SUBSET KeyLogRows]
  /\ pc \in [Calls -> Ended \cup RefreshPcs \cup WritePcs]
  /\ job \in [Calls -> Jobs]
  /\ met \in [Calls -> SUBSET Calls]

\* A unit named in TRANSFER_LOG has a row in GLOBAL_UUT_ATTRIBUTES.  The source
\* views leave logged serials out, so a serial logged without its row would
\* never be offered again: whatever statement of whatever call fails, and
\* whatever the error handler commits, no unit is lost that way.
NoLostUnit == \A e \in tlog : HasSerial(glob, e.sn)

\* The same for keys: a PCB named in TRANSFER_LOG_SERIAL has been allocated.
NoLostKey == \A e \in klog : Allocated(nkeys, e.pcb)

\* Two rows for one serial were inserted by calls that were open together.
\* A call made after another one has ended, failed and half-committed or not,
\* never copies a unit again.
SerialTwiceOnlyByOverlap ==
  \A a, b \in Calls, sn \in Serials :
    a # b /\ glob[<<a, sn>>] # NoRow /\ glob[<<b, sn>>] # NoRow => b \in met[a]

\* No force refresh of the same site was open together with call c: such a
\* refresh truncates the staging view between two statements of c.
Undisturbed(c) ==
  \A d \in met[c] : ~(job[d].kind = "force" /\ job[d].site = job[c].site)

\* What a call that answered "copied" or wrote its "End" record inserted is
\* logged, unless a refresh of the same site ran during the call.
EndedCallLogsItsRows ==
  \A c \in Calls, sn \in Serials :
    /\ pc[c] = "done" \/ audit[c] = "End"
    /\ job[c].kind # "ph"
    /\ Undisturbed(c)
    /\ glob[<<c, sn>>] # NoRow
    => Logged(tlog, sn)

\* NKEYS_ALLOCATED holds a PCB twice only when the two calls were open
\* together, when one of them failed and its handler committed the half it had
\* done, or when a refresh of the same site emptied its staging view.
KeyTwiceOnlyByFailureOrOverlap ==
  \A a, b \in Calls, p \in Pcbs :
    a # b /\ <<a, p>> \in nkeys /\ <<b, p>> \in nkeys =>
      \/ b \in met[a]
      \/ \E c \in {a, b} : audit[c] = "Error" \/ ~Undisturbed(c)

OneRowPerSerial ==
  \A a, b \in Calls, sn \in Serials :
    a # b => glob[<<a, sn>>] = NoRow \/ glob[<<b, sn>>] = NoRow

\* A force refresh that has the database to itself never replaces a global row
\* by an older one: it updates only from the view it has just refreshed.
SoloRefreshNeverOlder ==
  [][\A c \in Calls, k \in Keys :
       /\ job[c].kind = "force" /\ met[c] = {} /\ pc'[c] # pc[c]
       /\ OneRowPerSerial
       /\ glob[k] # NoRow
       => glob'[k] # NoRow /\ glob'[k].date >= glob[k].date]_vars

=============================================================================
