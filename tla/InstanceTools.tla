---------------------------- MODULE InstanceTools ----------------------------
(***************************************************************************)
(* Tools of server.py (and readonly_user.py) that change one thing of a    *)
(* saved database in a few statements: PGA parameters, connection limits,  *)
(* a profile, a monitoring account, datafiles, triggers and sessions.      *)
(* Every statement is DDL or an ALTER SYSTEM and stays when a later one    *)
(* fails.  A read that only fills the answer is left out.                  *)
(***************************************************************************)
EXTENDS ToolCalls, FiniteSetsExt

CONSTANTS
  InstanceKinds,  \* the tools called
  PgaGibs,        \* PGA sizes asked for
  BlocksPerGib,   \* of the tablespace, whose block size is taken to be db_block_size
  Gibs            \* additional_gib asked for

InstanceTools == {"pgaBoth", "pgaLimit", "pgaTarget", "connLimits", "userLimit", "readonly",
                  "expand", "compression", "logonTrace", "kill", "sessionTrace"}

ASSUME InstanceAssumption ==
  /\ InstanceKinds \subseteq InstanceTools
  /\ BlocksPerGib \in Nat \ {0}
  /\ PgaGibs \cup Gibs \subseteq Nat \ {0} /\ PgaGibs # {}

VARIABLES
  pga,      \* pga_aggregate_target and pga_aggregate_limit in GiB; a limit of 0 is none
  spfile,   \* processes and sessions for the next start
  profile,  \* the user's MCP profile: limit (0: not there), assigned
  account,  \* the monitoring account: exists, pass, locked, privs
  space,    \* the tablespace: layout of its files, and the files added
  probes,   \* tables of the compression probe, by the second in their names
  trigger,  \* SYS.ALL_USERS_LOGIN_TRACE exists
  session,  \* who is at the SID: serial, traced
  killed,   \* serials of sessions that were killed (history)
  got,      \* got[c]: what c read, or the second in its file names
  left      \* left[c]: privileges or GiB still to do

params == <<pga, spfile, profile, account>>
objects == <<space, probes, trigger, session, killed>>
instLocals == <<got, left>>
instVars == <<params, objects, instLocals>>

MaxFileBlocks == 4194303
Privileges(r) == IF r.wide THEN 3 ELSE 2  \* CREATE SESSION, SELECT ANY TABLE[, ANY DICTIONARY]
Seconds == {0, 1}

FirstOf(k) ==
  CASE k = "pgaBoth" -> "setBoth"         [] k = "pgaLimit" -> "readTarget"
    [] k = "pgaTarget" -> "readLimit"     [] k = "connLimits" -> "setProcesses"
    [] k = "userLimit" -> "readProfile"   [] k = "readonly" -> "countAccount"
    [] k = "expand" -> "nameFiles"        [] k = "compression" -> "makeTable"
    [] k = "logonTrace" -> "logonTrigger" [] k \in {"kill", "sessionTrace"} -> "findSession"

Request == [kind : InstanceKinds, n : PgaGibs \cup Gibs, m : PgaGibs, wide : BOOLEAN]
\* The arguments a tool takes; the others have one value.
Takes(r) ==
  /\ r.n \in IF r.kind = "expand" THEN Gibs ELSE PgaGibs
  /\ r.kind \in {"compression", "logonTrace", "readonly"} => r.n = Min(PgaGibs)
  /\ r.kind # "pgaBoth" => r.m = Min(PgaGibs)
  /\ r.kind \notin {"readonly", "logonTrace", "sessionTrace"} => ~r.wide
  /\ r.kind = "pgaBoth" => r.m >= 2 * r.n

\* Tools that share data; calls of others cannot meet, and are not mixed in a behaviour.
Matter(k) == IF k \in {"pgaBoth", "pgaLimit", "pgaTarget"} THEN "pga"
             ELSE IF k \in {"kill", "sessionTrace"} THEN "session" ELSE k

InstanceStart(c) ==
  /\ At(c, "idle")
  /\ \E r \in {q \in Request : Takes(q)} :
       /\ \A d \in Calls \ {c} : At(d, "idle") \/ Matter(req[d].kind) = Matter(r.kind)
       /\ Begin(c, r, FirstOf(r.kind), FALSE)
  /\ UNCHANGED instVars

-----------------------------------------------------------------------------
\* set_saved_pga_parameters: the limit, then the target.
SetBoth(c) ==
  /\ At(c, "setBoth")
  /\ pga' = [pga EXCEPT !.limit = req[c].m]
  /\ Go(c, "setTarget")
  /\ UNCHANGED <<spfile, profile, account, objects, instLocals>>

\* Mutant: the limit is compared with the target itself.
ReadTargetOnce(c) ==
  /\ At(c, "readTarget")
  /\ Go(c, IF req[c].n < pga.target THEN "raised" ELSE "setLimit")
  /\ UNCHANGED instVars

\* set_saved_pga_aggregate_limit.
ReadTarget(c) ==
  /\ At(c, "readTarget")
  /\ Go(c, IF req[c].n < 2 * pga.target THEN "raised" ELSE "setLimit")
  /\ UNCHANGED instVars

SetLimit(c) ==
  /\ At(c, "setLimit")
  /\ pga' = [pga EXCEPT !.limit = req[c].n]
  /\ Go(c, "done")
  /\ UNCHANGED <<spfile, profile, account, objects, instLocals>>

\* set_saved_pga_aggregate_target.
ReadLimit(c) ==
  /\ At(c, "readLimit")
  /\ Go(c, IF pga.limit > 0 /\ 2 * req[c].n > pga.limit THEN "raised" ELSE "setTarget")
  /\ UNCHANGED instVars

SetTarget(c) ==
  /\ At(c, "setTarget")
  /\ pga' = [pga EXCEPT !.target = req[c].n]
  /\ Go(c, "done")
  /\ UNCHANGED <<spfile, profile, account, objects, instLocals>>

\* set_saved_database_connection_limits; the running values change with a restart only.
SetProcesses(c) ==
  /\ At(c, "setProcesses")
  /\ spfile' = [spfile EXCEPT !.processes = req[c].n]
  /\ Go(c, "setSessions")
  /\ UNCHANGED <<pga, profile, account, objects, instLocals>>

SetSessions(c) ==
  /\ At(c, "setSessions")
  /\ spfile' = [spfile EXCEPT !.sessions = req[c].n]
  /\ Go(c, "done")
  /\ UNCHANGED <<pga, profile, account, objects, instLocals>>

-----------------------------------------------------------------------------
\* set_saved_user_connection_limit.
ReadProfile(c) ==
  /\ At(c, "readProfile")
  /\ got' = [got EXCEPT ![c] = profile.limit]
  /\ Go(c, "writeProfile")
  /\ UNCHANGED <<params, objects, left>>

\* create profile, or alter profile when it was there.
WriteProfile(c) ==
  /\ At(c, "writeProfile")
  /\ IF got[c] = 0 /\ profile.limit # 0 THEN Go(c, "raised") /\ UNCHANGED profile
     ELSE profile' = [profile EXCEPT !.limit = req[c].n] /\ Go(c, "assign")
  /\ UNCHANGED <<pga, spfile, account, objects, instLocals>>

Assign(c) ==
  /\ At(c, "assign")
  /\ profile' = [profile EXCEPT !.assigned = TRUE]
  /\ Go(c, "done")
  /\ UNCHANGED <<pga, spfile, account, objects, instLocals>>

-----------------------------------------------------------------------------
\* create_readonly_user.
CountAccount(c) ==
  /\ At(c, "countAccount")
  /\ got' = [got EXCEPT ![c] = IF account.exists THEN 1 ELSE 0]
  /\ Go(c, "makeAccount")
  /\ UNCHANGED <<params, objects, left>>

\* Mutant: an account that is there keeps its password and its lock.
MakeAccountOnce(c) ==
  /\ At(c, "makeAccount")
  /\ IF account.exists THEN UNCHANGED account
     ELSE account' = [account EXCEPT !.exists = TRUE, !.pass = c, !.locked = FALSE]
  /\ left' = [left EXCEPT ![c] = Privileges(req[c])]
  /\ Go(c, "grant")
  /\ UNCHANGED <<pga, spfile, profile, objects, got>>

MakeAccount(c) ==
  /\ At(c, "makeAccount")
  /\ IF got[c] = 0 /\ account.exists THEN Go(c, "raised") /\ UNCHANGED <<account, left>>
     ELSE /\ account' = [account EXCEPT !.exists = TRUE, !.pass = c, !.locked = FALSE]
          /\ left' = [left EXCEPT ![c] = Privileges(req[c])]
          /\ Go(c, "grant")
  /\ UNCHANGED <<pga, spfile, profile, objects, got>>

Grant(c) ==
  /\ At(c, "grant")
  /\ account' = [account EXCEPT !.privs = @ \cup {Privileges(req[c]) - left[c] + 1}]
  /\ left' = [left EXCEPT ![c] = @ - 1]
  /\ Go(c, IF left[c] = 1 THEN "done" ELSE "grant")
  /\ UNCHANGED <<pga, spfile, profile, objects, got>>

-----------------------------------------------------------------------------
\* expand_saved_tablespace: the files of a call carry the second it began, unless Oracle names them.
NameFiles(c) ==
  /\ At(c, "nameFiles")
  /\ \E s \in Seconds : got' = [got EXCEPT ![c] = s]
  /\ left' = [left EXCEPT ![c] = req[c].n]
  /\ Go(c, "addFile")
  /\ UNCHANGED <<params, objects>>

MaxFileGib == IF space.layout = "bigfile" THEN 1024 ELSE Max({1, MaxFileBlocks \div BlocksPerGib - 1})

FilesOf(c) == {f \in space.files : f.by = c}
FileName(c) ==
  IF space.layout = "managed" THEN <<"managed", Cardinality(space.files)>>
  ELSE <<got[c], Cardinality(FilesOf(c)) + 1>>

\* A bigfile tablespace takes no second file; a name that is there is refused.
AddFile(c) ==
  /\ At(c, "addFile")
  /\ LET gib == Min({left[c], MaxFileGib}) IN
     IF \/ space.layout = "bigfile" \/ gib * BlocksPerGib > MaxFileBlocks
        \/ \E f \in space.files : f.name = FileName(c)
     THEN Go(c, "raised") /\ UNCHANGED <<space, left>>
     ELSE /\ space' = [space EXCEPT !.files = @ \cup {[name |-> FileName(c), gib |-> gib, by |-> c]}]
          /\ left' = [left EXCEPT ![c] = @ - gib]
          /\ Go(c, IF left[c] = gib THEN "done" ELSE "addFile")
  /\ UNCHANGED <<params, probes, trigger, session, killed, got>>

\* test_saved_table_compression: any error of the create is the answer: the
\* feature is not there, or the name is taken.
MakeProbeTable(c) ==
  /\ At(c, "makeTable")
  /\ \E s \in Seconds :
       \/ /\ s \notin probes
          /\ probes' = probes \cup {s}
          /\ got' = [got EXCEPT ![c] = s]
          /\ Go(c, "purgeTable")
       \/ Go(c, "done") /\ got' = [got EXCEPT ![c] = -1] /\ UNCHANGED probes
  /\ UNCHANGED <<params, space, trigger, session, killed, left>>

PurgeTable(c) ==
  /\ At(c, "purgeTable")
  /\ probes' = probes \ {got[c]}
  /\ Go(c, "done")
  /\ UNCHANGED <<params, space, trigger, session, killed, instLocals>>

-----------------------------------------------------------------------------
\* set_saved_all_users_login_trace: create or replace, or a look and a drop.
LogonTrigger(c) ==
  /\ At(c, "logonTrigger")
  /\ trigger' = (trigger \/ req[c].wide)
  /\ Go(c, IF req[c].wide THEN "done" ELSE IF trigger THEN "dropTrigger" ELSE "raised")
  /\ UNCHANGED <<params, space, probes, session, killed, instLocals>>

DropTrigger(c) ==
  /\ At(c, "dropTrigger")
  /\ trigger' = FALSE
  /\ Go(c, IF trigger THEN "done" ELSE "raised")
  /\ UNCHANGED <<params, space, probes, session, killed, instLocals>>

\* kill_saved_oracle_session and set_saved_oracle_session_trace: n is the serial asked for.
FindSession(c) ==
  /\ At(c, "findSession")
  /\ Go(c, IF session.serial = req[c].n THEN "touchSession" ELSE "raised")
  /\ UNCHANGED instVars

Touched(c) ==
  IF req[c].kind = "kill"
  THEN killed' = killed \cup {session.serial} /\ session' = [serial |-> session.serial + 1, traced |-> FALSE]
  ELSE session' = [session EXCEPT !.traced = req[c].wide] /\ UNCHANGED killed

\* Oracle refuses a serial that is gone.
TouchSession(c) ==
  /\ At(c, "touchSession")
  /\ IF session.serial = req[c].n THEN Touched(c) /\ Go(c, "done")
     ELSE Go(c, "raised") /\ UNCHANGED <<session, killed>>
  /\ UNCHANGED <<params, space, probes, trigger, instLocals>>

\* The session ends and the SID goes to another one, with a new serial.
Reuse ==
  /\ session.serial <= Cardinality(PgaGibs) + 1
  /\ session' = [serial |-> session.serial + 1, traced |-> FALSE]
  /\ UNCHANGED <<params, space, probes, trigger, killed, instLocals, calls>>

-----------------------------------------------------------------------------
InstanceSteps == {"setBoth", "readTarget", "setLimit", "readLimit", "setTarget", "setProcesses",
  "setSessions", "readProfile", "writeProfile", "assign", "countAccount", "makeAccount", "grant",
  "nameFiles", "addFile", "makeTable", "purgeTable", "logonTrigger", "dropTrigger", "findSession",
  "touchSession"}

\* A statement fails; an error of the compression probe's create is its answer.
InstanceFails(c) ==
  /\ pc[c] \in InstanceSteps
  /\ Strike(c, "failed", IF At(c, "makeTable") THEN "done" ELSE "raised")
  /\ got' = [got EXCEPT ![c] = IF At(c, "makeTable") THEN -1 ELSE @]
  /\ UNCHANGED <<params, objects, left>>

InstanceInit ==
  /\ pga \in [target : {Min(PgaGibs)}, limit : {0, 2 * Min(PgaGibs)}]
  /\ spfile = [processes |-> 0, sessions |-> 0]
  /\ profile = [limit |-> 0, assigned |-> FALSE]
  /\ account \in {[exists |-> e, pass |-> "none", locked |-> e, privs |-> {}] : e \in BOOLEAN}
  /\ space \in [layout : {"plain", "managed", "bigfile"}, files : {{}}]
  /\ probes = {}
  /\ trigger = FALSE
  /\ session = [serial |-> 1, traced |-> FALSE]
  /\ killed = {}
  /\ got = [c \in Calls |-> 0]
  /\ left = [c \in Calls |-> 0]

InstanceStep(c) ==
  \/ SetBoth(c)      \/ ReadTarget(c)  \/ SetLimit(c)    \/ ReadLimit(c)   \/ SetTarget(c)
  \/ SetProcesses(c) \/ SetSessions(c) \/ ReadProfile(c) \/ WriteProfile(c) \/ Assign(c)
  \/ CountAccount(c) \/ MakeAccount(c) \/ Grant(c)       \/ NameFiles(c)   \/ AddFile(c)
  \/ MakeProbeTable(c)   \/ PurgeTable(c)  \/ LogonTrigger(c) \/ DropTrigger(c)
  \/ FindSession(c)  \/ TouchSession(c) \/ InstanceFails(c)

-----------------------------------------------------------------------------
\* The PGA limit, when there is one, is at least twice the target: between calls that did not fail
\* or overlap, three tools that write either of them keep it so.
LimitCoversTarget ==
  pga.limit = 0 \/ pga.limit >= 2 * pga.target \/ SomeFailureOrOverlap
  \/ \E c \in Calls : At(c, "setTarget") /\ req[c].kind = "pgaBoth"

\* What a tool's answer says holds of the database when the call ran alone, also after an earlier
\* call of the same tool stopped half way: a repeated call completes what the failed one began.
\* The GiB asked for are added, in files that Oracle takes; the session killed or traced is the one
\* with the serial asked for, however often its SID changed hands.
AnsweredIsDone ==
  [][\A c \in Calls : EndsAlone(c) /\ struck'[c] = "no" /\ pc'[c] = "done" =>
       LET r == req[c] IN
       /\ r.kind = "pgaBoth" => pga' = [target |-> r.n, limit |-> r.m]
       /\ r.kind = "connLimits" => spfile' = [processes |-> r.n, sessions |-> r.n]
       /\ r.kind = "userLimit" => profile' = [limit |-> r.n, assigned |-> TRUE]
       /\ r.kind = "readonly" =>
            /\ account'.exists /\ ~account'.locked /\ account'.pass = c
            /\ 1..Privileges(r) \subseteq account'.privs
       /\ r.kind = "expand" =>
            r.n = MapThenSumSet(LAMBDA f : f.gib, {f \in space'.files : f.by = c})
       /\ r.kind = "compression" => got'[c] \notin probes'
       /\ r.kind = "logonTrace" => trigger' = r.wide
       /\ r.kind = "kill" => r.n \in killed'
       /\ r.kind = "sessionTrace" => session' = [serial |-> r.n, traced |-> r.wide]]_<<instVars, calls>>

=============================================================================
