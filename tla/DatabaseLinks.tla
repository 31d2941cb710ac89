--------------------------- MODULE DatabaseLinks ----------------------------
(***************************************************************************)
(* The database links from Spain to the Philippines and the tools that     *)
(* make, copy, repair and probe them (public_database_link.py and server.  *)
(* check_saved_database_link).  SYS.LINK$ is a set of rows; a public link  *)
(* and private links of TRANSFER_USER may have the same name, and a name   *)
(* may have several rows (the tool that removes a stale row expects two).  *)
(* A link opens when its host, account and password are those of the       *)
(* Philippines database.  One action is one statement; an update with its  *)
(* commit is one action, as the rows are locked in between.  Any statement *)
(* may fail; two statements may also take effect and lose their answer.    *)
(***************************************************************************)
EXTENDS ToolCalls

CONSTANT
  LinkKinds  \* the tools called; a call is also the password it generates

PhDb == "PH_DB"
Alt == "ALT_LINK"
Absent == "absent"
Procedures == {"mcp_probe_ph_link", "mcp_probe_db_link", "mcp_probe_ph_view",
               "mcp_recreate_ph_link", "create_ph_refresh_mviews"}
Copiers == {"createFrom", "recreate"}
LinkTools == Copiers \cup {"copyPassword", "probe", "asAteResults", "retarget", "alignFlag",
                           "removeStale", "reset", "create", "check", "unlock"}
LinkSteps == {"dropFirst", "countPublic", "insert", "confirm", "copyPassword", "makeProbe",
              "readErrors", "runProbe", "dropProbe", "block", "open", "retarget",
              "makeFlagProbe", "readFlag", "dropFlagProbe", "setFlag", "deleteStale",
              "setPassword", "dropPublic", "makePublic", "makeRecreate", "runRecreate",
              "dropRecreate", "dropAndRaise", "countLinks", "readHost", "countUser",
              "createUser", "grantUser", "createLink", "cleanup", "listLinks", "tryCurrent",
              "unlock"}

ASSUME LinkAssumption ==
  /\ LinkKinds \subseteq LinkTools
  /\ Calls \cap {"p0", "px", Absent} = {}

VARIABLES
  links,      \* rows of SYS.LINK$ on Spain
  ate,        \* ATE_RESULTS on the Philippines: password, locked
  dblink,     \* PH_DBLINK there: exists, password, granted
  flagProbe,  \* the public link MCP_FLAG_PROBE exists
  proc,       \* proc[p]: who wrote procedure p (or Absent) and whether it compiled
  seen, ok    \* seen[c]: value read before; ok[c]: answer of the last probe

database == <<links, ate, dblink, flagProbe, proc>>
locals == <<seen, ok>>
linkVars == <<database, locals, calls>>

Named(owner, name) == {l \in links : l.owner = owner /\ l.name = name}
PublicRows == Named("PUBLIC", PhDb)
PrivateRows == Named("TRANSFER_USER", PhDb)
\* What PH_DB means to TRANSFER_USER: its own link hides the public one.
TransferRows == IF PrivateRows # {} THEN PrivateRows ELSE PublicRows

Opens(l) ==
  /\ l.host = "philippines"
  /\ \/ l.user = "ATE_RESULTS" /\ l.pass = ate.pass /\ ~ate.locked
     \/ l.user = "PH_DBLINK" /\ dblink.exists /\ dblink.granted /\ l.pass = dblink.pass

\* Row l with another account.
WithAccount(l, user, pass, flag) ==
  [owner |-> l.owner, name |-> l.name, host |-> l.host,
   user |-> user, pass |-> pass, publicFlag |-> flag]

\* A logon over one of the rows; one with a wrong password may lock the account.
Logon(rows, result) ==
  \/ rows = {} /\ ~result /\ UNCHANGED ate
  \/ \E l \in rows :
       /\ result = Opens(l)
       /\ \/ UNCHANGED ate
          \/ /\ l.host = "philippines" /\ l.user = "ATE_RESULTS" /\ l.pass # ate.pass
             /\ ate' = [ate EXCEPT !.locked = TRUE]

\* c raises on what it read: no statement failed.
Raise(c) == Go(c, "raised") /\ UNCHANGED <<database, locals>>

FirstStep(k) ==
  CASE k = "createFrom" -> "countPublic"    [] k = "recreate" -> "dropFirst"
    [] k = "copyPassword" -> "copyPassword" [] k = "probe" -> "makeProbe"
    [] k = "asAteResults" -> "block"        [] k = "retarget" -> "retarget"
    [] k = "alignFlag" -> "makeFlagProbe"   [] k = "removeStale" -> "deleteStale"
    [] k = "reset" -> "setPassword"         [] k = "create" -> "countLinks"
    [] k = "check" -> "listLinks"           [] k = "unlock" -> "unlock"

Found == [exists |-> PublicRows # {}, account |-> dblink.exists]

LinkStart(c) ==
  \E k \in LinkKinds, p, s \in {PhDb, Alt} :
    /\ k \notin Copiers => p = PhDb /\ s = PhDb
    /\ Begin(c, [kind |-> k, public |-> p, source |-> s], FirstStep(k), Found)
    /\ UNCHANGED <<database, locals>>

-----------------------------------------------------------------------------
(* create_public_link_from_existing and recreate_public_link_from_existing *)

\* recreate: drop public database link, in a session of its own.
DropFirst(c) ==
  /\ At(c, "dropFirst")
  /\ IF Named("PUBLIC", req[c].public) = {} THEN Raise(c)
     ELSE /\ links' = links \ Named("PUBLIC", req[c].public)
          /\ Go(c, "countPublic")
          /\ UNCHANGED <<ate, dblink, flagProbe, proc, locals>>

CountPublic(c) ==
  /\ At(c, "countPublic")
  /\ Go(c, IF Named("PUBLIC", req[c].public) # {} THEN "raised" ELSE "insert")
  /\ UNCHANGED <<database, locals>>

\* The copy keeps every column but the owner: its name is that of the source.
InsertCopy(c) ==
  /\ At(c, "insert")
  /\ LET source == Named("TRANSFER_USER", req[c].source) IN
     IF Cardinality(source) # 1 THEN Raise(c)
     ELSE /\ links' = links \cup {[l EXCEPT !.owner = "PUBLIC"] : l \in source}
          /\ Go(c, "confirm")
          /\ UNCHANGED <<ate, dblink, flagProbe, proc, locals>>

Confirm(c) ==
  /\ At(c, "confirm")
  /\ Go(c, IF Named("PUBLIC", req[c].public) = {} THEN "raised" ELSE "done")
  /\ UNCHANGED <<database, locals>>

-----------------------------------------------------------------------------
(* Tools that change a public row in place *)

\* copy_private_link_password_to_public: user, password and flag of the private row, or
\* nulls when there is none; two private rows are an error of the update.
CopyPassword(c) ==
  /\ At(c, "copyPassword")
  /\ IF PublicRows # {} /\ Cardinality(PrivateRows) > 1 THEN Raise(c)
     ELSE /\ links' = (links \ PublicRows) \cup
                        (IF PrivateRows = {}
                         THEN {WithAccount(l, Absent, Absent, l.publicFlag) : l \in PublicRows}
                         ELSE {WithAccount(l, p.user, p.pass, p.publicFlag)
                                 : l \in PublicRows, p \in PrivateRows})
          /\ Go(c, "makeProbe")
          /\ UNCHANGED <<ate, dblink, flagProbe, proc, locals>>

\* Mutant: the block's error leaves its delete to be committed.
BlockKeepingDelete(c) ==
  /\ At(c, "block")
  /\ links' = links \ PublicRows
  /\ Go(c, "raised")
  /\ UNCHANGED <<ate, dblink, flagProbe, proc, locals>>

\* create_public_link_with_source_verifier: one block deletes the public rows, reads the private
\* row and creates the link; an error of the read takes the delete back, the DDL commits it.
Block(c) ==
  /\ At(c, "block")
  /\ IF Cardinality(PrivateRows) # 1 THEN Raise(c)
     ELSE /\ \/ /\ links' = (links \ PublicRows) \cup
                              {WithAccount([l EXCEPT !.owner = "PUBLIC"], "ATE_RESULTS", l.pass, TRUE)
                                 : l \in PrivateRows}
                /\ Go(c, "open")
             \/ links' = links \ PublicRows /\ Strike(c, "failed", "raised")
          /\ UNCHANGED <<ate, dblink, flagProbe, proc, locals>>

\* retarget_public_philippines_link.
Retarget(c) ==
  /\ At(c, "retarget")
  /\ links' = (links \ PublicRows) \cup {[l EXCEPT !.host = "philippines"] : l \in PublicRows}
  /\ Go(c, "open")
  /\ UNCHANGED <<ate, dblink, flagProbe, proc, locals>>

\* align_public_link_flag makes a public link of a fixed name to learn the flag.
MakeFlagProbe(c) ==
  /\ At(c, "makeFlagProbe")
  /\ IF flagProbe THEN Raise(c)
     ELSE /\ flagProbe' = TRUE
          /\ Go(c, "readFlag")
          /\ UNCHANGED <<links, ate, dblink, proc, locals>>

ReadFlag(c) ==
  /\ At(c, "readFlag")
  /\ seen' = [seen EXCEPT ![c] = IF flagProbe THEN "flag" ELSE Absent]
  /\ Go(c, "dropFlagProbe")
  /\ UNCHANGED <<database, ok>>

DropFlagProbe(c) ==
  /\ At(c, "dropFlagProbe")
  /\ IF ~flagProbe THEN Raise(c)
     ELSE /\ flagProbe' = FALSE
          /\ Go(c, IF seen[c] = Absent THEN "raised" ELSE "setFlag")
          /\ UNCHANGED <<links, ate, dblink, proc, locals>>

SetFlag(c) ==
  /\ At(c, "setFlag")
  /\ links' = (links \ PublicRows) \cup {[l EXCEPT !.publicFlag = TRUE] : l \in PublicRows}
  /\ Go(c, "open")
  /\ UNCHANGED <<ate, dblink, flagProbe, proc, locals>>

\* remove_stale_philippines_private_link: the old descriptor, when a newer row is beside it.
DeleteStale(c) ==
  /\ At(c, "deleteStale")
  /\ links' = links \ {l \in PrivateRows : /\ l.host = "stale"
                                           /\ \E n \in PrivateRows : n.host = "philippines"}
  /\ Go(c, "makeProbe")
  /\ UNCHANGED <<ate, dblink, flagProbe, proc, locals>>

\* select 1 from dual@PH_DB: an error is part of the answer.
OpenLink(c) ==
  /\ At(c, "open")
  /\ \E result \in BOOLEAN :
       Logon(PublicRows, result) /\ ok' = [ok EXCEPT ![c] = result]
  /\ Go(c, "done")
  /\ UNCHANGED <<links, dblink, flagProbe, proc, seen>>

-----------------------------------------------------------------------------
(* Probes through a procedure of a fixed name: probe_public_link_inside_database, *)
(* _probe_database_link and describe_refresh_access                               *)

ProcOf(c) == CASE req[c].kind = "check" -> "mcp_probe_db_link"
               [] req[c].kind = "describe" -> "mcp_probe_ph_view"
               [] OTHER -> "mcp_probe_ph_link"
\* check makes its procedure in the owner's schema, the others in SYS.
ProbeRows(c) == IF req[c].kind = "check" THEN TransferRows ELSE PublicRows

\* Mutant: create without replace, an existing procedure taken as it is.
MakeProbeOnce(c) ==
  /\ At(c, "makeProbe")
  /\ \E result \in BOOLEAN :
       /\ Logon(ProbeRows(c), result)
       /\ proc' = [proc EXCEPT ![ProcOf(c)] = IF @.by = Absent THEN [by |-> c, valid |-> result] ELSE @]
  /\ Go(c, "readErrors")
  /\ UNCHANGED <<links, dblink, flagProbe, locals>>

\* create or replace procedure: it compiles when the link opens.
MakeProbe(c) ==
  /\ At(c, "makeProbe")
  /\ \E result \in BOOLEAN :
       /\ Logon(ProbeRows(c), result)
       /\ proc' = [proc EXCEPT ![ProcOf(c)] = [by |-> c, valid |-> result]]
  /\ Go(c, "readErrors")
  /\ UNCHANGED <<links, dblink, flagProbe, locals>>

\* Mutant: compile errors are raised, past the drop.
ReadErrorsRaising(c) ==
  /\ At(c, "readErrors")
  /\ LET p == proc[ProcOf(c)] IN
       Go(c, IF p.by # Absent /\ ~p.valid THEN "raised" ELSE "runProbe")
  /\ ok' = [ok EXCEPT ![c] = FALSE]
  /\ UNCHANGED <<database, seen>>

ReadErrors(c) ==
  /\ At(c, "readErrors")
  /\ LET p == proc[ProcOf(c)] IN
       Go(c, IF p.by # Absent /\ ~p.valid THEN "dropProbe" ELSE "runProbe")
  /\ ok' = [ok EXCEPT ![c] = FALSE]
  /\ UNCHANGED <<database, seen>>

\* An error of the run is part of the answer.
RunProbe(c) ==
  /\ At(c, "runProbe")
  /\ IF proc[ProcOf(c)].by = Absent THEN UNCHANGED <<ate, ok>>
     ELSE \E result \in BOOLEAN :
            Logon(ProbeRows(c), result) /\ ok' = [ok EXCEPT ![c] = result]
  /\ Go(c, "dropProbe")
  /\ UNCHANGED <<links, dblink, flagProbe, proc, seen>>

Dropped(p) == [proc EXCEPT ![p] = [by |-> Absent, valid |-> FALSE]]

DropProbe(c) ==
  /\ At(c, "dropProbe")
  /\ Go(c, IF proc[ProcOf(c)].by = Absent THEN "raised" ELSE "done")
  /\ proc' = Dropped(ProcOf(c))
  /\ UNCHANGED <<links, ate, dblink, flagProbe, locals>>

\* check_saved_database_link lists the links, tries its own session, then the owners' schemas.
ListLinks(c) ==
  /\ At(c, "listLinks")
  /\ seen' = [seen EXCEPT ![c] = IF PrivateRows # {} THEN "owner" ELSE Absent]
  /\ Go(c, "tryCurrent")
  /\ UNCHANGED <<database, ok>>

TryCurrent(c) ==
  /\ At(c, "tryCurrent")
  /\ \E result \in BOOLEAN :
       Logon(PublicRows, result) /\ ok' = [ok EXCEPT ![c] = result]
  /\ Go(c, IF PublicRows = {} /\ seen[c] # Absent THEN "makeProbe" ELSE "done")
  /\ UNCHANGED <<links, dblink, flagProbe, proc, seen>>

-----------------------------------------------------------------------------
(* reset_ate_results_password_and_recreate_links, and the unlock tool *)

\* Mutant: alter user without account unlock.
SetPasswordOnly(c) ==
  /\ At(c, "setPassword")
  /\ ate' = [ate EXCEPT !.pass = c]
  /\ Go(c, "dropPublic")
  /\ UNCHANGED <<links, dblink, flagProbe, proc, locals>>

SetPassword(c) ==
  /\ At(c, "setPassword")
  /\ ate' = [pass |-> c, locked |-> FALSE]
  /\ Go(c, "dropPublic")
  /\ UNCHANGED <<links, dblink, flagProbe, proc, locals>>

\* An absent link is no error.
DropPublic(c) ==
  /\ At(c, "dropPublic")
  /\ links' = links \ PublicRows
  /\ Go(c, "makePublic")
  /\ UNCHANGED <<ate, dblink, flagProbe, proc, locals>>

LinkAs(owner, password) ==
  [owner |-> owner, name |-> PhDb, user |-> "ATE_RESULTS", pass |-> password,
   host |-> "philippines", publicFlag |-> owner = "PUBLIC"]

MakePublic(c) ==
  /\ At(c, "makePublic")
  /\ IF PublicRows # {} THEN Raise(c)
     ELSE /\ links' = links \cup {LinkAs("PUBLIC", c)}
          /\ Go(c, "makeRecreate")
          /\ UNCHANGED <<ate, dblink, flagProbe, proc, locals>>

MakeRecreate(c) ==
  /\ At(c, "makeRecreate")
  /\ proc' = [proc EXCEPT !["mcp_recreate_ph_link"] = [by |-> c, valid |-> TRUE]]
  /\ Go(c, "runRecreate")
  /\ UNCHANGED <<links, ate, dblink, flagProbe, locals>>

\* The procedure drops the owner's link and creates it with the password written in it; it may
\* stop between the two, and its drop stays.
RunRecreate(c) ==
  /\ At(c, "runRecreate")
  /\ LET p == proc["mcp_recreate_ph_link"] IN
     IF p.by = Absent THEN Go(c, "dropAndRaise") /\ UNCHANGED links
     ELSE \/ /\ links' = (links \ PrivateRows) \cup {LinkAs("TRANSFER_USER", p.by)}
             /\ Go(c, "dropRecreate")
          \/ links' = links \ PrivateRows /\ Strike(c, "failed", "dropAndRaise")
  /\ UNCHANGED <<ate, dblink, flagProbe, proc, locals>>

\* In a finally, its own error ignored.
DropRecreate(c) ==
  /\ pc[c] \in {"dropRecreate", "dropAndRaise"}
  /\ proc' = Dropped("mcp_recreate_ph_link")
  /\ Go(c, IF At(c, "dropRecreate") THEN "makeProbe" ELSE "raised")
  /\ UNCHANGED <<links, ate, dblink, flagProbe, locals>>

Unlock(c) ==
  /\ At(c, "unlock")
  /\ ate' = [ate EXCEPT !.locked = FALSE]
  /\ Go(c, "done")
  /\ UNCHANGED <<links, dblink, flagProbe, proc, locals>>

-----------------------------------------------------------------------------
(* create_philippines_public_link: an account of its own on the Philippines *)

CountLinks(c) ==
  /\ At(c, "countLinks")
  /\ Go(c, IF PublicRows # {} THEN "raised" ELSE "readHost")
  /\ UNCHANGED <<database, locals>>

ReadHost(c) ==
  /\ At(c, "readHost")
  /\ IF PrivateRows = {} THEN Raise(c)
     ELSE /\ \E l \in PrivateRows : seen' = [seen EXCEPT ![c] = l.host]
          /\ Go(c, "countUser")
          /\ UNCHANGED <<database, ok>>

CountUser(c) ==
  /\ At(c, "countUser")
  /\ Go(c, IF dblink.exists THEN "raised" ELSE "createUser")
  /\ UNCHANGED <<database, locals>>

\* When its answer is lost the account stays: created_remote_user is not set.
CreateUser(c) ==
  /\ At(c, "createUser")
  /\ IF dblink.exists THEN Raise(c)
     ELSE /\ dblink' = [exists |-> TRUE, pass |-> c, granted |-> FALSE]
          /\ Go(c, "grantUser") \/ Strike(c, "lost", "raised")
          /\ UNCHANGED <<links, ate, flagProbe, proc, locals>>

GrantUser(c) ==
  /\ At(c, "grantUser")
  /\ dblink' = [dblink EXCEPT !.granted = TRUE]
  /\ Go(c, "createLink")
  /\ UNCHANGED <<links, ate, flagProbe, proc, locals>>

CreateLink(c) ==
  /\ At(c, "createLink")
  /\ IF PublicRows # {} THEN Go(c, "cleanup") /\ UNCHANGED links
     ELSE /\ links' = links \cup {WithAccount([LinkAs("PUBLIC", c) EXCEPT !.host = seen[c]],
                                              "PH_DBLINK", c, TRUE)}
          /\ Go(c, "open") \/ Strike(c, "lost", "cleanup")
  /\ UNCHANGED <<ate, dblink, flagProbe, proc, locals>>

\* drop user cascade.
Cleanup(c) ==
  /\ At(c, "cleanup")
  /\ dblink' = [exists |-> FALSE, pass |-> Absent, granted |-> FALSE]
  /\ Go(c, "raised")
  /\ UNCHANGED <<links, ate, flagProbe, proc, locals>>

-----------------------------------------------------------------------------
\* Mutants: the account counts as made after its grants; the link after it was opened.
OnErrorFlagAfterGrants(c) ==
  IF pc[c] \in {"makeRecreate", "runRecreate"} THEN "dropAndRaise"
  ELSE IF At(c, "createLink") THEN "cleanup" ELSE "raised"
OnErrorFlagAfterOpen(c) ==
  IF pc[c] \in {"grantUser", "createLink", "open"} THEN "cleanup" ELSE "raised"

\* Where a call goes when its statement fails.
OnError(c) ==
  CASE pc[c] \in {"open", "tryCurrent"} -> "done"
    [] At(c, "runProbe") \/ (At(c, "readErrors") /\ req[c].kind = "check") -> "dropProbe"
    [] pc[c] \in {"makeRecreate", "runRecreate"} -> "dropAndRaise"
    [] At(c, "dropRecreate") -> "makeProbe"
    [] pc[c] \in {"grantUser", "createLink"} -> "cleanup"
    [] OTHER -> "raised"

\* A statement fails and does nothing.
LinkFails(c) ==
  /\ pc[c] \in LinkSteps
  /\ Strike(c, "failed", OnError(c))
  /\ ok' = [ok EXCEPT ![c] = FALSE]
  /\ UNCHANGED <<database, seen>>

LinkStep(c) ==
  \/ DropFirst(c)    \/ CountPublic(c)  \/ InsertCopy(c)    \/ Confirm(c)
  \/ CopyPassword(c) \/ Block(c)        \/ Retarget(c)      \/ MakeFlagProbe(c)
  \/ ReadFlag(c)     \/ DropFlagProbe(c) \/ SetFlag(c)      \/ DeleteStale(c)
  \/ OpenLink(c)     \/ MakeProbe(c)    \/ ReadErrors(c)    \/ RunProbe(c)
  \/ DropProbe(c)    \/ ListLinks(c)    \/ TryCurrent(c)    \/ SetPassword(c)
  \/ DropPublic(c)   \/ MakePublic(c)   \/ MakeRecreate(c)  \/ RunRecreate(c)
  \/ DropRecreate(c) \/ Unlock(c)       \/ CountLinks(c)    \/ ReadHost(c)
  \/ CountUser(c)    \/ CreateUser(c)   \/ GrantUser(c)     \/ CreateLink(c)
  \/ Cleanup(c)      \/ LinkFails(c)

LinkInit ==
  /\ \E old \in BOOLEAN, public \in {"none", "good", "password", "host"}, private \in BOOLEAN :
       LET new == LinkAs("TRANSFER_USER", "p0") IN
       links = {[new EXCEPT !.name = Alt]}
                 \cup (IF private THEN {new} ELSE {})
                 \cup (IF private /\ old THEN {[new EXCEPT !.host = "stale"]} ELSE {})
                 \cup (CASE public = "none" -> {}
                         [] public = "good" -> {LinkAs("PUBLIC", "p0")}
                         [] public = "password" -> {LinkAs("PUBLIC", "px")}
                         [] public = "host" -> {[LinkAs("PUBLIC", "p0") EXCEPT !.host = "stale"]})
  /\ ate = [pass |-> "p0", locked |-> FALSE]
  /\ dblink = [exists |-> FALSE, pass |-> Absent, granted |-> FALSE]
  /\ flagProbe = FALSE
  /\ proc = [p \in Procedures |-> [by |-> Absent, valid |-> FALSE]]
  /\ seen = [c \in Calls |-> Absent]
  /\ ok = [c \in Calls |-> FALSE]
  /\ CallInit([kind |-> "none", public |-> PhDb, source |-> PhDb],
              [exists |-> FALSE, account |-> FALSE])

-----------------------------------------------------------------------------
\* A call that ran alone and met no failing statement does not leave Spain without the public
\* link it found: the tools that replace it drop it before they make the new one.  Only recreate,
\* which looks at its source after its drop, loses it by raising, and reports an error.
LinkSurvives ==
  [][\A c \in Calls :
       Undisturbed(c) /\ before[c].exists /\ PublicRows' = {} =>
         req[c].kind = "recreate" /\ pc'[c] = "raised"]_linkVars

\* A create call that ran alone and raised leaves no PH_DBLINK account that was not there before,
\* whichever statement failed: the account is dropped in the finally.  The exceptions are an answer
\* lost after the account was created, and a failing drop.
FailedCreateLeavesNoAccount ==
  [][\A c \in Calls :
       EndsAlone(c) /\ req[c].kind = "create" /\ pc'[c] = "raised" /\ dblink'.exists =>
         before[c].account \/ struck'[c] = "lost" \/ At(c, "cleanup")]_linkVars

\* The other half: a public link that connects as PH_DBLINK has its account with the password the
\* link holds, unless the create call lost the answer of its link statement.
LinkHasItsAccount ==
  \A l \in links : l.user = "PH_DBLINK" =>
    \/ dblink.exists /\ dblink.pass = l.pass
    \/ \E c \in Calls : req[c].kind = "create" /\ struck[c] = "lost"

\* A reset that ran alone and returned moved the password in all three places: the account has the
\* new one, public and private PH_DB are one row each, carry it, and open.
PasswordMovesEverywhere ==
  [][\A c \in Calls :
       Undisturbed(c) /\ req[c].kind = "reset" /\ pc'[c] = "done" =>
         /\ ate' = [pass |-> c, locked |-> FALSE]
         /\ {l \in links' : l.name = PhDb} = {LinkAs("PUBLIC", c), LinkAs("TRANSFER_USER", c)}]_linkVars

\* A call that ran alone and answered with a probe of the public link told what holds when it ends,
\* also when an earlier call left its procedure behind.  (A copy under another name makes a second
\* row for PH_DB: the probe then speaks of one of them.)
ProbeTellsTheTruth ==
  [][\A c \in Calls :
       Undisturbed(c) /\ pc'[c] = "done" /\ pc[c] \in {"dropProbe", "open"} /\ req[c].kind # "check" =>
         IF ok'[c] THEN \E l \in PublicRows' : Opens(l)'
         ELSE PublicRows' = {} \/ \E l \in PublicRows' : ~Opens(l)']_linkVars

\* The procedures and the probe link have names shared by every call; between calls they exist
\* only after a statement failed or calls overlapped.
LeftoversOnlyByFailureOrOverlap ==
  Open = {} /\ (flagProbe \/ \E p \in Procedures : proc[p].by # Absent) =>
    SomeFailureOrOverlap
=============================================================================
