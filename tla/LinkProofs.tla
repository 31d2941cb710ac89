------------------------------ MODULE LinkProofs ------------------------------
(***************************************************************************)
(* The properties of the links between Spain and the Philippines and of    *)
(* the objects that are read over them, for every set of calls and every   *)
(* number of failing statements.                                           *)
(***************************************************************************)
EXTENDS PhilippinesViews, FiniteSetTheorems, TLAPS

Passwords == Calls \cup {"p0", "px", Absent}
Words == {"philippines", "stale", "flag", "owner", Absent}
Link == [owner : {"PUBLIC", "TRANSFER_USER"}, name : {PhDb, Alt},
         user : {"ATE_RESULTS", "PH_DBLINK", Absent}, pass : Passwords,
         host : Words, publicFlag : BOOLEAN]
Request == [kind : LinkTools \cup ViewTools \cup {"none"}, public : {PhDb, Alt},
            source : {PhDb, Alt}]

\* Types of the database and of the calls.
LinkType ==
  /\ links \subseteq Link
  /\ ate \in [pass : Passwords, locked : BOOLEAN]
  /\ dblink \in [exists : BOOLEAN, pass : Passwords, granted : BOOLEAN]
  /\ flagProbe \in BOOLEAN
  /\ proc \in [Procedures -> [by : Calls \cup {Absent}, valid : BOOLEAN]]
  /\ seen \in [Calls -> Words] /\ ok \in [Calls -> BOOLEAN]

CallType ==
  /\ req \in [Calls -> Request]
  /\ pc \in [Calls -> Ended \cup LinkSteps \cup ViewSteps]
  /\ struck \in [Calls -> {"no", "failed", "lost"}]
  /\ met \in [Calls -> SUBSET Calls]
  /\ before \in [Calls -> [exists : BOOLEAN, account : BOOLEAN]]

ViewType ==
  /\ tables \subseteq ViewSet /\ mviews \subseteq ViewSet /\ index \in BOOLEAN
  /\ nth \in [Calls -> 1..3]
  /\ found \in [Calls -> SUBSET ViewSet] /\ created \in [Calls -> SUBSET ViewSet]

\* The tools that run each statement.
ProbeSteps == {"makeProbe", "readErrors", "runProbe", "dropProbe"}
ProbeTools == {"copyPassword", "probe", "removeStale", "reset", "check", "describe"}
RecreateSteps == {"makeRecreate", "runRecreate", "dropRecreate", "dropAndRaise"}
AccountSteps == {"countLinks", "readHost", "countUser", "createUser"}
OwnerSteps == {"grantUser", "createLink", "cleanup"}
TableSteps == {"lookTable", "makeTable", "lookIndex", "makeIndex"}
ProcSteps == {"makeView", "after", "dropProc", "dropProcRaise"}
KindAt(c) ==
  LET k == req[c].kind IN
  /\ pc[c] = "dropFirst" => k = "recreate"
  /\ pc[c] \in {"countPublic", "insert", "confirm"} => k \in Copiers
  /\ pc[c] = "copyPassword" => k = "copyPassword"
  /\ pc[c] \in ProbeSteps => k \in ProbeTools
  /\ pc[c] = "block" => k = "asAteResults"
  /\ pc[c] = "open" => k \in {"asAteResults", "retarget", "alignFlag", "create"}
  /\ pc[c] = "retarget" => k = "retarget"
  /\ pc[c] \in {"makeFlagProbe", "readFlag", "dropFlagProbe", "setFlag"} => k = "alignFlag"
  /\ pc[c] = "deleteStale" => k = "removeStale"
  /\ pc[c] \in RecreateSteps \cup {"setPassword", "dropPublic", "makePublic"} => k = "reset"
  /\ pc[c] \in AccountSteps \cup OwnerSteps => k = "create"
  /\ pc[c] \in {"listLinks", "tryCurrent"} => k = "check"
  /\ pc[c] = "unlock" => k = "unlock"
  /\ pc[c] \in TableSteps \cup ProcSteps \cup {"before", "makeProc"} => k = "objects"
  /\ pc[c] \in {"lookView", "dropView", "confirmGone"} => k = "dropView"

\* Calls that are open together have met.
CallsMeet ==
  /\ \A c \in Calls : pc[c] = "idle" => met[c] = {} /\ struck[c] = "no"
  /\ \A a, b \in Open : a # b => b \in met[a]

TypeInv == LinkType /\ CallType /\ ViewType /\ (\A c \in Calls : KindAt(c)) /\ CallsMeet

-----------------------------------------------------------------------------
(* LinkHasItsAccount. *)

\* The call between the creation of the account and the end of its own link
\* statement or of its cleanup: there is at most one, and the account is its own.
Owners == {c \in Calls : pc[c] \in OwnerSteps}

LostLink == \E c \in Calls : req[c].kind = "create" /\ struck[c] = "lost" /\ pc[c] = "raised"

AccountInv ==
  /\ \A c \in Owners : dblink.exists /\ dblink.pass = c
  /\ \A l \in links : l.user = "PH_DBLINK" =>
       /\ l.owner = "PUBLIC"
       /\ \/ LostLink
          \/ /\ dblink.exists /\ dblink.pass = l.pass
             /\ \A c \in Owners : pc[c] = "cleanup" /\ struck[c] = "lost"

-----------------------------------------------------------------------------
(* FailedCreateLeavesNoAccount. *)

CreateInv ==
  \A c \in Calls : pc[c] \in AccountSteps /\ met[c] = {} => dblink.exists = before[c].account

-----------------------------------------------------------------------------
(* LeftoversOnlyByFailureOrOverlap. *)

Holds(c, p) ==
  IF p = CreateProc THEN pc[c] \in ProcSteps
  ELSE \/ pc[c] \in ProbeSteps \ {"makeProbe"} /\ p = ProcOf(c)
       \/ pc[c] \in RecreateSteps \ {"makeRecreate"} /\ p = "mcp_recreate_ph_link"

LeftInv ==
  \/ SomeFailureOrOverlap
  \/ /\ flagProbe => \E c \in Calls : pc[c] \in {"readFlag", "dropFlagProbe"}
     /\ \A p \in Procedures : proc[p].by # Absent => \E c \in Calls : Holds(c, p)

-----------------------------------------------------------------------------
(* Calls that have run alone so far and met no failing statement. *)

Alone(c) == c \in Open /\ met[c] = {} /\ struck[c] = "no"

Closed(rows) == rows = {} \/ \E l \in rows : ~Opens(l)

ResetAt(c) ==
  req[c].kind = "reset" =>
    /\ pc[c] \in {"dropPublic", "makePublic"} \cup RecreateSteps \cup ProbeSteps =>
         ate = [pass |-> c, locked |-> FALSE]
    /\ pc[c] = "makePublic" => PublicRows = {}
    /\ pc[c] \in {"makeRecreate", "runRecreate"} => PublicRows = {LinkAs("PUBLIC", c)}
    /\ pc[c] = "runRecreate" => proc["mcp_recreate_ph_link"].by = c
    /\ pc[c] \in {"dropRecreate"} \cup ProbeSteps =>
         {l \in links : l.name = PhDb} = {LinkAs("PUBLIC", c), LinkAs("TRANSFER_USER", c)}
    /\ pc[c] # "dropAndRaise"

SurvivesAt(c) ==
  before[c].exists =>
    \/ PublicRows # {}
    \/ req[c].kind = "recreate" /\ req[c].public = PhDb
    \/ pc[c] = "makePublic"

ProbeAt(c) ==
  /\ pc[c] \in {"readErrors", "runProbe"} => proc[ProcOf(c)].by = c
  /\ req[c].kind # "check" =>
       /\ pc[c] = "readErrors" /\ ~proc[ProcOf(c)].valid => Closed(PublicRows)
       /\ pc[c] = "dropProbe" => IF ok[c] THEN \E l \in PublicRows : Opens(l)
                                 ELSE Closed(PublicRows)

ObjectsAt(c) ==
  /\ pc[c] \in {"lookTable", "makeTable"} => \A i \in 1..3 : i < nth[c] => ViewNames[i] \in tables
  /\ pc[c] = "makeTable" => ViewNames[nth[c]] \notin tables
  /\ pc[c] = "makeIndex" => ~index
  /\ pc[c] \in {"lookIndex", "makeIndex", "before", "makeProc"} \cup ProcSteps => tables = ViewSet
  /\ pc[c] \in {"before", "makeProc"} \cup ProcSteps => index
  /\ pc[c] \in {"lookIndex", "makeIndex", "before", "makeProc"} => nth[c] = 1
  /\ pc[c] \in ProcSteps => proc[CreateProc].by = c
  /\ pc[c] = "makeView" => \A i \in 1..3 : i < nth[c] => ViewNames[i] \in mviews
  /\ pc[c] \in {"after", "dropProc"} => mviews = ViewSet
  /\ pc[c] = "dropProc" => created[c] = ViewSet \ found[c]
  /\ pc[c] = "dropProcRaise" => Closed(TransferRows)

AloneInv ==
  \A c \in Calls : Alone(c) => ResetAt(c) /\ SurvivesAt(c) /\ ProbeAt(c) /\ ObjectsAt(c)

-----------------------------------------------------------------------------
(* Control: which statement follows which.                                 *)

StepOf(c) == LinkStep(c) \/ ViewStep(c)
Steps == LinkSteps \cup ViewSteps

\* A statement of call c moves c alone, and strikes no other call.
Moves(c) ==
  /\ pc[c] \in Steps
  /\ pc'[c] \in Steps \cup {"done", "raised"}
  /\ pc' = [pc EXCEPT ![c] = pc'[c]]
  /\ UNCHANGED <<req, met, before>>
  /\ struck' = struck \/ \E how \in {"failed", "lost"} : struck' = [struck EXCEPT ![c] = how]

LEMMA GoMoves ==
  ASSUME CallType, NEW c \in Calls, pc[c] \in Steps,
         NEW s \in Steps \cup {"done", "raised"}, Go(c, s)
  PROVE  Moves(c) /\ pc'[c] = s /\ struck' = struck
BY DEF Go, Moves, CallType, history

LEMMA StrikeMoves ==
  ASSUME CallType, NEW c \in Calls, pc[c] \in Steps,
         NEW s \in Steps \cup {"done", "raised"}, NEW how \in {"failed", "lost"},
         Strike(c, how, s)
  PROVE  Moves(c) /\ pc'[c] = s /\ struck'[c] = how
BY DEF Strike, Moves, CallType

\* The tool of the call is still the one that runs the statement it comes to.
LEMMA LinkControl ==
  ASSUME CallType, NEW c \in Calls, KindAt(c), LinkStep(c)
  PROVE  Moves(c) /\ KindAt(c)'
<1> USE DEF At, Raise, Steps, LinkSteps, KindAt, Moves
<1> USE DEF ProbeSteps, ProbeTools, RecreateSteps, AccountSteps, OwnerSteps, TableSteps,
            ProcSteps, Copiers
<1>1. CASE DropFirst(c) \/ CountPublic(c) \/ InsertCopy(c) \/ Confirm(c)
  BY <1>1, GoMoves DEF DropFirst, CountPublic, InsertCopy, Confirm
<1>2. CASE Retarget(c) \/ MakeFlagProbe(c) \/ ReadFlag(c)
  BY <1>2, GoMoves DEF Retarget, MakeFlagProbe, ReadFlag
<1>3. CASE CopyPassword(c) \/ Block(c)
  <2>1. CopyPassword(c) => pc[c] = "copyPassword" /\ (Go(c, "makeProbe") \/ Go(c, "raised"))
    BY DEF CopyPassword
  <2>2. Block(c) => pc[c] = "block" /\ (Go(c, "open") \/ Go(c, "raised") \/ Strike(c, "failed", "raised"))
    BY DEF Block
  <2> QED BY <1>3, <2>1, <2>2, GoMoves, StrikeMoves
<1>4. CASE DropFlagProbe(c) \/ SetFlag(c) \/ DeleteStale(c) \/ OpenLink(c)
  BY <1>4, GoMoves DEF DropFlagProbe, SetFlag, DeleteStale, OpenLink
<1>5. CASE MakeProbe(c) \/ ReadErrors(c) \/ RunProbe(c) \/ DropProbe(c)
  BY <1>5, GoMoves DEF MakeProbe, ReadErrors, RunProbe, DropProbe
<1>6. CASE ListLinks(c) \/ TryCurrent(c) \/ SetPassword(c) \/ DropPublic(c)
  BY <1>6, GoMoves DEF ListLinks, TryCurrent, SetPassword, DropPublic
<1>7. CASE MakePublic(c) \/ MakeRecreate(c) \/ DropRecreate(c) \/ Unlock(c)
  BY <1>7, GoMoves DEF MakePublic, MakeRecreate, DropRecreate, Unlock
<1>8. CASE RunRecreate(c)
  BY <1>8, GoMoves, StrikeMoves DEF RunRecreate
<1>9. CASE CountLinks(c) \/ ReadHost(c) \/ CountUser(c) \/ GrantUser(c) \/ Cleanup(c)
  BY <1>9, GoMoves DEF CountLinks, ReadHost, CountUser, GrantUser, Cleanup
<1>10. CASE CreateUser(c) \/ CreateLink(c)
  <2>1. CreateUser(c) => /\ pc[c] = "createUser"
                         /\ Go(c, "grantUser") \/ Go(c, "raised") \/ Strike(c, "lost", "raised")
    BY DEF CreateUser
  <2>2. CreateLink(c) => /\ pc[c] = "createLink"
                         /\ Go(c, "open") \/ Go(c, "cleanup") \/ Strike(c, "lost", "cleanup")
    BY DEF CreateLink
  <2> QED BY <1>10, <2>1, <2>2, GoMoves, StrikeMoves
<1>11. CASE LinkFails(c)
  BY <1>11, StrikeMoves DEF LinkFails, OnError
<1> QED
  BY <1>1, <1>2, <1>3, <1>4, <1>5, <1>6, <1>7, <1>8, <1>9, <1>10, <1>11 DEF LinkStep

LEMMA ViewControl ==
  ASSUME CallType, NEW c \in Calls, KindAt(c), ViewStep(c)
  PROVE  Moves(c) /\ KindAt(c)'
<1> USE DEF At, Raise, Steps, ViewSteps, KindAt, Moves
<1> USE DEF ProbeSteps, ProbeTools, RecreateSteps, AccountSteps, OwnerSteps, TableSteps,
            ProcSteps, Copiers
<1>1. CASE LookTable(c) \/ MakeTable(c) \/ LookIndex(c) \/ MakeIndex(c)
  BY <1>1, GoMoves DEF LookTable, MakeTable, NextTable, LookIndex, MakeIndex
<1>2. CASE Before(c) \/ MakeProc(c) \/ After(c) \/ DropProc(c)
  BY <1>2, GoMoves DEF Before, MakeProc, After, DropProc
<1>3. CASE MakeView(c)
  BY <1>3, GoMoves DEF MakeView, NextView
<1>4. CASE LookView(c) \/ DropView(c) \/ ConfirmGone(c)
  BY <1>4, GoMoves DEF LookView, DropView, ConfirmGone
<1>5. CASE ViewFails(c)
  BY <1>5, StrikeMoves DEF ViewFails
<1> QED BY <1>1, <1>2, <1>3, <1>4, <1>5 DEF ViewStep

\* A call begins with a first statement of its tool, and nothing else has changed.
Begins(c) ==
  /\ pc[c] = "idle" /\ pc'[c] \in Steps
  /\ pc' = [pc EXCEPT ![c] = pc'[c]]
  /\ met' = [d \in Calls |-> IF d = c THEN Open
                             ELSE IF d \in Open THEN met[d] \cup {c} ELSE met[d]]
  /\ req' = [req EXCEPT ![c] = req'[c]] /\ req'[c] \in Request
  /\ before' = [before EXCEPT ![c] = Found]
  /\ nth' = [nth EXCEPT ![c] = nth'[c]]
  /\ UNCHANGED <<struck, database, locals, objects, found, created>>

LEMMA StartControl ==
  ASSUME CallType, ViewType, NEW c \in Calls,
         ViewStart(c) \/ (LinkStart(c) /\ UNCHANGED <<objects, viewLocals>>)
  PROVE  Begins(c) /\ KindAt(c)' /\ nth'[c] \in 1..3
<1> USE DEF Begin, At, Steps, LinkSteps, ViewSteps, Begins, CallType, KindAt
<1> USE DEF ProbeSteps, ProbeTools, RecreateSteps, AccountSteps, OwnerSteps, TableSteps,
            ProcSteps, Copiers
<1>1. CASE ViewStart(c)
  <2>1. PICK k \in ViewKinds, n \in 1..3 :
          /\ Begin(c, [kind |-> k, public |-> PhDb, source |-> PhDb],
                   CASE k = "objects" -> "lookTable" [] k = "dropView" -> "lookView"
                     [] k = "describe" -> "makeProbe", Found)
          /\ nth' = [nth EXCEPT ![c] = n]
          /\ UNCHANGED <<database, locals, objects, found, created>>
    BY <1>1 DEF ViewStart
  <2>2. k \in {"objects", "describe", "dropView"}
    BY ViewAssumption DEF ViewTools
  <2>3. pc'[c] \in {"lookTable", "lookView", "makeProbe"} /\ pc' = [pc EXCEPT ![c] = pc'[c]]
        /\ KindAt(c)'
    BY <2>1, <2>2
  <2>4. req'[c] \in Request /\ req' = [req EXCEPT ![c] = req'[c]]
    <3>1. req' = [req EXCEPT ![c] = [kind |-> k, public |-> PhDb, source |-> PhDb]]
      BY <2>1
    <3>2. [kind |-> k, public |-> PhDb, source |-> PhDb] \in Request
      BY <2>2 DEF Request, ViewTools
    <3> QED BY <3>1, <3>2
  <2>5. nth'[c] \in 1..3 /\ nth' = [nth EXCEPT ![c] = nth'[c]]
    BY <2>1 DEF ViewType
  <2> QED BY <2>1, <2>3, <2>4, <2>5
<1>2. CASE LinkStart(c) /\ UNCHANGED <<objects, viewLocals>>
  <2>1. PICK k \in LinkKinds, p \in {PhDb, Alt}, s \in {PhDb, Alt} :
          /\ Begin(c, [kind |-> k, public |-> p, source |-> s], FirstStep(k), Found)
          /\ UNCHANGED <<database, locals>>
    BY <1>2 DEF LinkStart
  <2>2. k \in LinkTools
    BY LinkAssumption
  <2>3. pc'[c] = FirstStep(k) /\ pc' = [pc EXCEPT ![c] = pc'[c]]
    BY <2>1
  <2>4. req'[c] \in Request /\ req'[c].kind = k /\ req' = [req EXCEPT ![c] = req'[c]]
    <3>1. req' = [req EXCEPT ![c] = [kind |-> k, public |-> p, source |-> s]]
      BY <2>1
    <3>2. [kind |-> k, public |-> p, source |-> s] \in Request
      BY <2>2 DEF Request
    <3> QED BY <3>1, <3>2
  <2>5. FirstStep(k) \in LinkSteps /\ KindAt(c)'
    BY <2>2, <2>3, <2>4, ZenonT(30) DEF FirstStep, LinkTools
  <2>6. nth'[c] \in 1..3 /\ nth' = [nth EXCEPT ![c] = nth'[c]]
    BY <1>2 DEF ViewType, viewLocals
  <2> QED BY <1>2, <2>1, <2>3, <2>4, <2>5, <2>6 DEF viewLocals
<1> QED BY <1>1, <1>2

-----------------------------------------------------------------------------
(* Type correctness. *)

LEMMA RowTypes ==
  ASSUME NEW l \in Link, NEW user \in {"ATE_RESULTS", "PH_DBLINK", Absent},
         NEW pass \in Passwords, NEW flag \in BOOLEAN, NEW host \in Words,
         NEW owner \in {"PUBLIC", "TRANSFER_USER"}
  PROVE  /\ WithAccount(l, user, pass, flag) \in Link
         /\ LinkAs(owner, pass) \in Link
         /\ [l EXCEPT !.owner = owner] \in Link /\ [l EXCEPT !.host = host] \in Link
         /\ [l EXCEPT !.publicFlag = flag] \in Link
BY DEF Link, WithAccount, LinkAs, Words

\* A logon may lock the account and does nothing else.
LEMMA LogonType ==
  ASSUME LinkType, NEW rows, NEW result, Logon(rows, result)
  PROVE  ate' = ate \/ ate' = [ate EXCEPT !.locked = TRUE]
BY DEF Logon

LEMMA LockType ==
  ASSUME LinkType, ate' = ate \/ ate' = [ate EXCEPT !.locked = TRUE]
  PROVE  ate' \in [pass : Passwords, locked : BOOLEAN]
BY DEF LinkType

LEMMA SmallTypes ==
  ASSUME LinkType, NEW c \in Calls
  PROVE  /\ \A w \in Words : [seen EXCEPT ![c] = w] \in [Calls -> Words]
         /\ \A b \in BOOLEAN : [ok EXCEPT ![c] = b] \in [Calls -> BOOLEAN]
         /\ \A p \in Procedures, v \in BOOLEAN, d \in Calls \cup {Absent} :
              [proc EXCEPT ![p] = [by |-> d, valid |-> v]]
                \in [Procedures -> [by : Calls \cup {Absent}, valid : BOOLEAN]]
         /\ ProcOf(c) \in Procedures
BY DEF LinkType, Procedures, ProcOf

LEMMA AccountTypes ==
  ASSUME NEW p \in Passwords, NEW yes \in BOOLEAN, NEW no \in BOOLEAN
  PROVE  /\ [pass |-> p, locked |-> yes] \in [pass : Passwords, locked : BOOLEAN]
         /\ [exists |-> yes, pass |-> p, granted |-> no]
              \in [exists : BOOLEAN, pass : Passwords, granted : BOOLEAN]
OBVIOUS

LEMMA LinkTypeNext ==
  ASSUME LinkType, NEW c \in Calls, LinkStep(c)
  PROVE  LinkType'
<1> USE DEF database, locals, PublicRows, PrivateRows, Named
<1>1. CASE DropFirst(c) \/ CountPublic(c) \/ Confirm(c)
  BY <1>1 DEF DropFirst, CountPublic, Confirm, Raise, LinkType
<1>2. CASE InsertCopy(c)
  <2>1. \A l \in Link : [l EXCEPT !.owner = "PUBLIC"] \in Link
    BY DEF Link
  <2> QED BY <1>2, <2>1 DEF InsertCopy, Raise, LinkType
<1>3. CASE CopyPassword(c)
  <2>1. \A l, p \in Link : /\ WithAccount(l, Absent, Absent, l.publicFlag) \in Link
                           /\ WithAccount(l, p.user, p.pass, p.publicFlag) \in Link
    BY DEF Link, WithAccount, Passwords
  <2> HIDE DEF PublicRows, PrivateRows, Named
  <2>2. PublicRows \subseteq links /\ PrivateRows \subseteq links
    BY DEF PublicRows, PrivateRows, Named
  <2>3. {WithAccount(l, Absent, Absent, l.publicFlag) : l \in PublicRows} \subseteq Link
    BY <2>1, <2>2 DEF LinkType
  <2>4. {WithAccount(l, p.user, p.pass, p.publicFlag) : l \in PublicRows, p \in PrivateRows}
          \subseteq Link
    BY <2>1, <2>2 DEF LinkType
  <2>5. links' \subseteq Link
    BY <1>3, <2>3, <2>4 DEF CopyPassword, Raise, LinkType
  <2>6. UNCHANGED <<ate, dblink, flagProbe, proc, locals>>
    BY <1>3 DEF CopyPassword, Raise
  <2> QED BY <2>5, <2>6 DEF LinkType
<1>4. CASE Block(c)
  <2>1. \A l \in Link : WithAccount([l EXCEPT !.owner = "PUBLIC"], "ATE_RESULTS", l.pass, TRUE) \in Link
    BY DEF Link, WithAccount
  <2>0. {WithAccount([l EXCEPT !.owner = "PUBLIC"], "ATE_RESULTS", l.pass, TRUE) : l \in PrivateRows}
          \subseteq Link
    BY <2>1, ZenonT(30) DEF LinkType
  <2> HIDE DEF PublicRows, PrivateRows, Named
  <2>2. links' \subseteq Link
    BY <1>4, <2>0 DEF Block, Raise, LinkType
  <2>3. UNCHANGED <<ate, dblink, flagProbe, proc, locals>>
    BY <1>4 DEF Block, Raise
  <2> QED BY <2>2, <2>3 DEF LinkType
<1>5. CASE Retarget(c) \/ SetFlag(c) \/ DeleteStale(c) \/ DropPublic(c)
  <2>1. \A l \in Link : /\ [l EXCEPT !.host = "philippines"] \in Link
                        /\ [l EXCEPT !.publicFlag = TRUE] \in Link
    BY DEF Link, Words
  <2> QED BY <1>5, <2>1, ZenonT(30) DEF Retarget, SetFlag, DeleteStale, DropPublic, LinkType
<1>6. CASE MakeFlagProbe(c) \/ DropFlagProbe(c)
  BY <1>6 DEF MakeFlagProbe, DropFlagProbe, Raise, LinkType
<1>7. CASE ReadFlag(c) \/ ListLinks(c)
  BY <1>7, SmallTypes DEF ReadFlag, ListLinks, LinkType, Words
<1>8. CASE OpenLink(c) \/ TryCurrent(c)
  <2>1. ate' \in [pass : Passwords, locked : BOOLEAN]
    BY <1>8, LogonType, LockType DEF OpenLink, TryCurrent
  <2>2. ok' \in [Calls -> BOOLEAN] /\ UNCHANGED <<links, dblink, flagProbe, proc, seen>>
    BY <1>8, SmallTypes DEF OpenLink, TryCurrent
  <2> QED BY <2>1, <2>2 DEF LinkType
<1>9. CASE MakeProbe(c)
  BY <1>9, SmallTypes, LogonType, LockType DEF MakeProbe, LinkType
<1>10. CASE ReadErrors(c)
  BY <1>10, SmallTypes DEF ReadErrors, LinkType
<1>11. CASE RunProbe(c)
  BY <1>11, SmallTypes, LogonType, LockType DEF RunProbe, LinkType
<1>12. CASE DropProbe(c) \/ MakeRecreate(c) \/ DropRecreate(c)
  <2>1. UNCHANGED <<links, ate, dblink, flagProbe, locals>>
    BY <1>12 DEF DropProbe, MakeRecreate, DropRecreate
  <2>2. \E p \in Procedures, d \in Calls \cup {Absent}, v \in BOOLEAN :
          proc' = [proc EXCEPT ![p] = [by |-> d, valid |-> v]]
    BY <1>12, SmallTypes DEF DropProbe, MakeRecreate, DropRecreate, Dropped, Procedures
  <2>3. proc' \in [Procedures -> [by : Calls \cup {Absent}, valid : BOOLEAN]]
    BY <2>2, SmallTypes
  <2> QED BY <2>1, <2>3 DEF LinkType
<1>13. CASE SetPassword(c) \/ Unlock(c) \/ GrantUser(c) \/ Cleanup(c)
  <2>0. c \in Passwords /\ Absent \in Passwords
    BY DEF Passwords
  <2>1. SetPassword(c) => LinkType'
    BY <2>0, AccountTypes DEF SetPassword, LinkType
  <2>2. Unlock(c) \/ GrantUser(c) => LinkType'
    BY DEF Unlock, GrantUser, LinkType
  <2>3. Cleanup(c) => LinkType'
    BY <2>0, AccountTypes DEF Cleanup, LinkType
  <2> QED BY <1>13, <2>1, <2>2, <2>3
<1>14. CASE MakePublic(c) \/ RunRecreate(c)
  <2>1. \A d \in Calls : LinkAs("PUBLIC", d) \in Link /\ LinkAs("TRANSFER_USER", d) \in Link
    BY DEF Link, LinkAs, Words, Passwords
  <2>2. MakePublic(c) => LinkType'
    BY <2>1 DEF MakePublic, Raise, LinkType
  <2>3. RunRecreate(c) => LinkType'
    BY <2>1 DEF RunRecreate, LinkType, Procedures
  <2> QED BY <1>14, <2>2, <2>3
<1>15. CASE CountLinks(c) \/ CountUser(c)
  BY <1>15 DEF CountLinks, CountUser, LinkType
<1>16. CASE ReadHost(c)
  <2>1. \A l \in Link : l.host \in Words
    BY DEF Link
  <2> QED BY <1>16, <2>1, SmallTypes, SMTT(30) DEF ReadHost, Raise, LinkType
<1>17. CASE CreateUser(c)
  <2>1. dblink' = dblink \/ dblink' = [exists |-> TRUE, pass |-> c, granted |-> FALSE]
    BY <1>17 DEF CreateUser, Raise
  <2>2. dblink' \in [exists : BOOLEAN, pass : Passwords, granted : BOOLEAN]
    BY <2>1, AccountTypes DEF LinkType, Passwords
  <2>3. UNCHANGED <<links, ate, flagProbe, proc, locals>>
    BY <1>17 DEF CreateUser, Raise
  <2> QED BY <2>2, <2>3 DEF LinkType
<1>18. CASE CreateLink(c)
  <2>1. WithAccount([LinkAs("PUBLIC", c) EXCEPT !.host = seen[c]], "PH_DBLINK", c, TRUE) \in Link
    BY DEF WithAccount, LinkAs, Link, Passwords, LinkType
  <2> HIDE DEF PublicRows
  <2> QED BY <1>18, <2>1 DEF CreateLink, LinkType
<1>19. CASE LinkFails(c)
  BY <1>19, SmallTypes DEF LinkFails, LinkType
<1> QED
  BY <1>1, <1>2, <1>3, <1>4, <1>5, <1>6, <1>7, <1>8, <1>9, <1>10, <1>11, <1>12, <1>13,
     <1>14, <1>15, <1>16, <1>17, <1>18, <1>19 DEF LinkStep

LEMMA ViewTypeNext ==
  ASSUME LinkType, ViewType, NEW c \in Calls, ViewStep(c)
  PROVE  LinkType' /\ ViewType'
<1> USE DEF database, locals, objects, viewLocals
<1>0. \A i \in 1..3 : ViewNames[i] \in ViewSet
  BY DEF ViewSet
<1>00. CreateProc \in Procedures /\ nth[c] \in 1..3
  BY DEF CreateProc, Procedures, ViewType
<1>01. UNCHANGED <<database, locals>> => LinkType'
  BY DEF LinkType
<1>02. \A n \in 1..3 : [nth EXCEPT ![c] = n] \in [Calls -> 1..3]
  BY DEF ViewType
<1>1. CASE LookTable(c) \/ MakeTable(c)
  <2>1. nth' \in [Calls -> 1..3]
    <3>1. nth' = nth \/ nth' = [nth EXCEPT ![c] = IF nth[c] < 3 THEN nth[c] + 1 ELSE 1]
      BY <1>1 DEF LookTable, MakeTable, NextTable
    <3> QED BY <1>00, <3>1 DEF ViewType
  <2>2. tables' \subseteq ViewSet
    BY <1>0, <1>00, <1>1 DEF LookTable, MakeTable, ViewType
  <2>3. UNCHANGED <<database, locals, index, mviews, found, created>>
    BY <1>1 DEF LookTable, MakeTable
  <2> QED BY <1>01, <2>1, <2>2, <2>3 DEF ViewType
<1>2. CASE LookIndex(c) \/ MakeIndex(c)
  BY <1>01, <1>2 DEF LookIndex, MakeIndex, ViewType
<1>3. CASE Before(c) \/ After(c)
  BY <1>01, <1>3 DEF Before, After, ViewType
<1>4. CASE MakeProc(c) \/ DropProc(c)
  <2>1. \E d \in Calls \cup {Absent}, v \in BOOLEAN :
          proc' = [proc EXCEPT ![CreateProc] = [by |-> d, valid |-> v]]
    BY <1>4 DEF MakeProc, DropProc, Dropped
  <2>2. proc' \in [Procedures -> [by : Calls \cup {Absent}, valid : BOOLEAN]]
    BY <1>00, <2>1, SmallTypes
  <2>3. UNCHANGED <<links, ate, dblink, flagProbe, locals, objects, viewLocals>>
    BY <1>4 DEF MakeProc, DropProc
  <2> QED BY <2>2, <2>3 DEF LinkType, ViewType
<1>5. CASE MakeView(c)
  <2>1. nth' \in [Calls -> 1..3]
    <3>1. nth' = nth \/ nth' = [nth EXCEPT ![c] = IF nth[c] < 3 THEN nth[c] + 1 ELSE 1]
      BY <1>5 DEF MakeView, NextView
    <3> QED BY <1>00, <3>1 DEF ViewType
  <2>2. mviews' \subseteq ViewSet
    BY <1>0, <1>00, <1>5 DEF MakeView, ViewType
  <2>3. UNCHANGED <<links, dblink, flagProbe, proc, locals, tables, index, found, created>>
    BY <1>5 DEF MakeView
  <2>4. ate' \in [pass : Passwords, locked : BOOLEAN]
    BY <1>5, LogonType, LockType DEF MakeView
  <2> QED BY <2>1, <2>2, <2>3, <2>4 DEF LinkType, ViewType
<1>6. CASE LookView(c) \/ DropView(c) \/ ConfirmGone(c) \/ ViewFails(c)
  BY <1>01, <1>6 DEF LookView, DropView, ConfirmGone, ViewFails, ViewType
<1> QED BY <1>1, <1>2, <1>3, <1>4, <1>5, <1>6 DEF ViewStep

\* A step of the system is a step of one call, or none.
LEMMA NextSteps ==
  ASSUME [Next]_viewVars
  PROVE  \/ UNCHANGED viewVars
         \/ \E c \in Calls :
              \/ ViewStart(c) \/ (LinkStart(c) /\ UNCHANGED <<objects, viewLocals>>)
              \/ ViewStep(c) \/ (LinkStep(c) /\ UNCHANGED <<objects, viewLocals>>)
BY DEF Next

StartOf(c) == ViewStart(c) \/ (LinkStart(c) /\ UNCHANGED <<objects, viewLocals>>)
RunOf(c) == ViewStep(c) \/ (LinkStep(c) /\ UNCHANGED <<objects, viewLocals>>)

\* The types and the tools of the calls, whoever steps.
LEMMA MoveKeeps ==
  ASSUME CallType, CallsMeet, NEW c \in Calls, Moves(c), KindAt(c)',
         \A d \in Calls : KindAt(d)
  PROVE  CallType' /\ CallsMeet' /\ \A d \in Calls : KindAt(d)'
<1>1. \A d \in Calls : d # c => pc'[d] = pc[d] /\ struck'[d] = struck[d]
  BY DEF Moves, CallType
<1>2. \A d \in Calls : d # c => KindAt(d)'
  BY <1>1 DEF KindAt, Moves
<1>3. CallType'
  <2>1. pc' \in [Calls -> Ended \cup LinkSteps \cup ViewSteps]
    BY DEF Moves, CallType, Steps, Ended
  <2>2. struck' \in [Calls -> {"no", "failed", "lost"}]
    BY DEF Moves, CallType
  <2> QED BY <2>1, <2>2 DEF Moves, CallType
<1>4. "idle" \notin Steps
  BY DEF Steps, LinkSteps, ViewSteps
<1>5. pc[c] \notin Ended
  BY DEF Moves, Steps, LinkSteps, ViewSteps, Ended
<1>6. Open' \subseteq Open
  BY <1>1, <1>5 DEF Open
<1>7. CallsMeet'
  <2>1. \A d \in Calls : pc'[d] = "idle" => met'[d] = {} /\ struck'[d] = "no"
    BY <1>1, <1>4 DEF CallsMeet, Moves
  <2> QED BY <1>6, <2>1 DEF CallsMeet, Moves
<1> QED BY <1>2, <1>3, <1>7

LEMMA BeginKeeps ==
  ASSUME CallType, CallsMeet, LinkType, NEW c \in Calls, Begins(c), KindAt(c)',
         \A d \in Calls : KindAt(d)
  PROVE  CallType' /\ CallsMeet' /\ \A d \in Calls : KindAt(d)'
<1>1. \A d \in Calls : d # c => pc'[d] = pc[d] /\ struck'[d] = struck[d] /\ req'[d] = req[d]
  BY DEF Begins, CallType
<1>2. \A d \in Calls : d # c => KindAt(d)'
  BY <1>1 DEF KindAt
<1>3. CallType'
  <2>1. pc' \in [Calls -> Ended \cup LinkSteps \cup ViewSteps]
    BY DEF Begins, CallType, Steps, Ended
  <2>2. req' \in [Calls -> Request]
    BY DEF Begins, CallType
  <2>3. met' \in [Calls -> SUBSET Calls]
    BY DEF Begins, CallType, Open
  <2>4. Found \in [exists : BOOLEAN, account : BOOLEAN]
    <3>1. dblink.exists \in BOOLEAN /\ (PublicRows # {}) \in BOOLEAN
      BY DEF LinkType
    <3> QED BY <3>1 DEF Found
  <2>5. before' \in [Calls -> [exists : BOOLEAN, account : BOOLEAN]]
    BY <2>4 DEF Begins, CallType
  <2> QED BY <2>1, <2>2, <2>3, <2>5 DEF Begins, CallType
<1>4. Open' = Open \cup {c} /\ c \notin Open
  BY <1>1 DEF Open, Begins, Ended, Steps, LinkSteps, ViewSteps
<1>5. pc'[c] # "idle"
  BY DEF Begins, Steps, LinkSteps, ViewSteps
<1>6. CallsMeet'
  <2>1. ASSUME NEW d \in Calls, pc'[d] = "idle" PROVE met'[d] = {} /\ struck'[d] = "no"
    <3>1. d # c /\ pc[d] = "idle" /\ d \notin Open
      BY <1>1, <1>5, <2>1 DEF Open, Ended
    <3> QED BY <1>1, <3>1 DEF Begins, CallsMeet
  <2>2. \A a, b \in Open' : a # b => b \in met'[a]
    BY <1>4 DEF Begins, CallsMeet, Open
  <2> QED BY <2>1, <2>2 DEF CallsMeet
<1> QED BY <1>2, <1>3, <1>6

LEMMA TypeNext == TypeInv /\ [Next]_viewVars => TypeInv'
<1> SUFFICES ASSUME TypeInv, [Next]_viewVars PROVE TypeInv'
  OBVIOUS
<1> USE DEF TypeInv
<1>1. ASSUME NEW c \in Calls, StartOf(c) PROVE TypeInv'
  <2>1. Begins(c) /\ KindAt(c)' /\ nth'[c] \in 1..3
    BY <1>1, StartControl DEF StartOf
  <2>2. CallType' /\ CallsMeet' /\ \A d \in Calls : KindAt(d)'
    BY <2>1, BeginKeeps
  <2>3. LinkType'
    BY <2>1 DEF Begins, LinkType, database, locals
  <2>4. ViewType'
    BY <2>1 DEF Begins, ViewType, objects
  <2> QED BY <2>2, <2>3, <2>4
<1>2. ASSUME NEW c \in Calls, RunOf(c) PROVE TypeInv'
  <2>1. Moves(c) /\ KindAt(c)'
    BY <1>2, LinkControl, ViewControl DEF RunOf
  <2>2. CallType' /\ CallsMeet' /\ \A d \in Calls : KindAt(d)'
    BY <2>1, MoveKeeps
  <2>3. ViewStep(c) => LinkType' /\ ViewType'
    BY ViewTypeNext
  <2>4. LinkStep(c) /\ UNCHANGED <<objects, viewLocals>> => LinkType' /\ ViewType'
    BY LinkTypeNext DEF ViewType, objects, viewLocals
  <2> QED BY <1>2, <2>2, <2>3, <2>4 DEF RunOf
<1>3. CASE UNCHANGED viewVars
  BY <1>3 DEF viewVars, linkVars, database, locals, calls, history, objects, viewLocals,
              LinkType, CallType, ViewType, KindAt, CallsMeet, Open
<1> QED BY <1>1, <1>2, <1>3, NextSteps DEF StartOf, RunOf

LEMMA TypeInit == Init => TypeInv
<1> SUFFICES ASSUME Init PROVE TypeInv
  OBVIOUS
<1> USE DEF Init, LinkInit, CallInit
<1>1. LinkType
  <2>1. \A p \in {"p0", "px"} : LinkAs("TRANSFER_USER", p) \in Link /\ LinkAs("PUBLIC", p) \in Link
    BY DEF LinkAs, Link, Passwords, Words
  <2>2. \A l \in Link : [l EXCEPT !.name = Alt] \in Link /\ [l EXCEPT !.host = "stale"] \in Link
    BY DEF Link, Words
  <2>3. links \subseteq Link
    BY <2>1, <2>2, ZenonT(30)
  <2>4. ate \in [pass : Passwords, locked : BOOLEAN]
        /\ dblink \in [exists : BOOLEAN, pass : Passwords, granted : BOOLEAN]
    BY AccountTypes DEF Passwords
  <2>5. proc \in [Procedures -> [by : Calls \cup {Absent}, valid : BOOLEAN]]
    OBVIOUS
  <2> QED BY <2>3, <2>4, <2>5 DEF LinkType, Words
<1>2. CallType
  <2>1. [kind |-> "none", public |-> PhDb, source |-> PhDb] \in Request
    BY DEF Request
  <2>2. \A a, e \in BOOLEAN : [exists |-> e, account |-> a] \in [exists : BOOLEAN, account : BOOLEAN]
    OBVIOUS
  <2> QED BY <2>1, <2>2 DEF CallType, Ended
<1>3. ViewType
  BY DEF ViewType
<1>4. \A c \in Calls : KindAt(c)
  BY DEF KindAt, ProbeSteps, RecreateSteps, AccountSteps, OwnerSteps, TableSteps, ProcSteps
<1>5. CallsMeet
  BY DEF CallsMeet, Open, Ended
<1> QED BY <1>1, <1>2, <1>3, <1>4, <1>5 DEF TypeInv

-----------------------------------------------------------------------------
(* The steps of LinkHasItsAccount. *)

\* A link that connects as PH_DBLINK is public, and was there with its password.
NoNewDblink ==
  \A m \in links' : m.user = "PH_DBLINK" =>
    m.owner = "PUBLIC" /\ \E l \in links : l.user = "PH_DBLINK" /\ l.pass = m.pass

\* The call whose link statement lost its answer has ended.
LEMMA LostStays ==
  ASSUME TypeInv, LostLink, NEW c \in Calls, Moves(c)
  PROVE  LostLink'
<1>1. PICK d \in Calls : req[d].kind = "create" /\ struck[d] = "lost" /\ pc[d] = "raised"
  BY DEF LostLink
<1>2. d # c
  BY <1>1 DEF Moves, Steps, LinkSteps, ViewSteps
<1> QED BY <1>1, <1>2 DEF LostLink, Moves, TypeInv, CallType

LEMMA AccountKeeps ==
  ASSUME TypeInv, AccountInv, NEW c \in Calls, Moves(c), NoNewDblink,
         dblink'.exists = dblink.exists, dblink'.pass = dblink.pass,
         pc'[c] \in OwnerSteps => pc[c] \in {"grantUser", "createLink"}
  PROVE  AccountInv'
<1>1. \A d \in Calls : d # c => pc'[d] = pc[d] /\ struck'[d] = struck[d]
  BY DEF Moves, TypeInv, CallType
<1>2. Owners' \subseteq Owners
  BY <1>1 DEF Owners, OwnerSteps
<1>3. \A d \in Owners' : dblink'.exists /\ dblink'.pass = d
  BY <1>2 DEF AccountInv
<1>4. ASSUME NEW m \in links', m.user = "PH_DBLINK"
      PROVE  /\ m.owner = "PUBLIC"
             /\ \/ LostLink'
                \/ /\ dblink'.exists /\ dblink'.pass = m.pass
                   /\ \A d \in Owners' : pc'[d] = "cleanup" /\ struck'[d] = "lost"
  <2>1. PICK l \in links : l.user = "PH_DBLINK" /\ l.pass = m.pass
    BY <1>4 DEF NoNewDblink
  <2>2. CASE LostLink
    BY <1>4, <2>2, LostStays DEF NoNewDblink
  <2>3. CASE ~LostLink
    <3>1. /\ dblink.exists /\ dblink.pass = l.pass
          /\ \A d \in Owners : pc[d] = "cleanup" /\ struck[d] = "lost"
      BY <2>1, <2>3 DEF AccountInv
    <3>2. c \notin Owners'
      BY <1>2, <3>1 DEF Owners
    <3>3. \A d \in Owners' : pc'[d] = "cleanup" /\ struck'[d] = "lost"
      BY <1>1, <1>2, <3>1, <3>2 DEF Owners
    <3> QED BY <1>4, <2>1, <3>1, <3>3 DEF NoNewDblink
  <2> QED BY <2>2, <2>3
<1> QED BY <1>3, <1>4 DEF AccountInv

\* No tool but create gives a link the PH_DBLINK account.
LEMMA LinksOfOthers ==
  ASSUME TypeInv, AccountInv, NEW c \in Calls, LinkStep(c), ~CreateLink(c)
  PROVE  NoNewDblink
<1> USE DEF NoNewDblink, TypeInv, LinkType, Link, PublicRows, PrivateRows, Named
<1>0. \A l \in links : l.owner = "TRANSFER_USER" => l.user # "PH_DBLINK"
  BY DEF AccountInv
<1>00. \A l \in links : l.user = "PH_DBLINK" => l.owner = "PUBLIC"
  BY DEF AccountInv
<1>1. CASE UNCHANGED links
  BY <1>00, <1>1
<1>2. CASE DropFirst(c) \/ DeleteStale(c) \/ DropPublic(c)
  <2>1. links' \subseteq links
    BY <1>2 DEF DropFirst, DeleteStale, DropPublic, Raise, database
  <2> QED BY <1>00, <2>1
<1>3. CASE InsertCopy(c)
  <2>1. \A m \in links' : m \in links \/ \E l \in links : l.owner = "TRANSFER_USER"
                                           /\ m = [l EXCEPT !.owner = "PUBLIC"]
    BY <1>3 DEF InsertCopy, Raise, database
  <2>2. \A l \in Link : [l EXCEPT !.owner = "PUBLIC"].user = l.user
    OBVIOUS
  <2> QED BY <1>0, <1>00, <2>1, <2>2
<1>4. CASE CopyPassword(c)
  <2> HIDE DEF PublicRows, PrivateRows, Named
  <2>1. \A m \in links' : \/ m \in links
                          \/ \E l \in links : m = WithAccount(l, Absent, Absent, l.publicFlag)
                          \/ \E l \in links, p \in PrivateRows :
                               m = WithAccount(l, p.user, p.pass, p.publicFlag)
    <3>1. PublicRows \subseteq links
      BY DEF PublicRows, Named
    <3> QED BY <1>4, <3>1 DEF CopyPassword, Raise, database
  <2>2. \A p \in PrivateRows : p.user # "PH_DBLINK"
    BY <1>0 DEF PrivateRows, Named
  <2> QED BY <1>00, <2>1, <2>2 DEF WithAccount, Absent
<1>5. CASE Block(c)
  <2> HIDE DEF PublicRows, PrivateRows, Named
  <2>1. \A m \in links' : m \in links \/ m.user = "ATE_RESULTS"
    BY <1>5 DEF Block, Raise, database, WithAccount
  <2> QED BY <1>00, <2>1
<1>6. CASE Retarget(c) \/ SetFlag(c)
  <2> HIDE DEF PublicRows, PrivateRows, Named
  <2>1. \A m \in links' : \/ m \in links
                          \/ \E l \in PublicRows : \/ m = [l EXCEPT !.host = "philippines"]
                                                   \/ m = [l EXCEPT !.publicFlag = TRUE]
    BY <1>6 DEF Retarget, SetFlag
  <2>2. PublicRows \subseteq links /\ \A l \in PublicRows : l.owner = "PUBLIC"
    BY DEF PublicRows, Named
  <2>3. \A l \in Link : /\ [l EXCEPT !.host = "philippines"].user = l.user
                        /\ [l EXCEPT !.host = "philippines"].pass = l.pass
                        /\ [l EXCEPT !.host = "philippines"].owner = l.owner
                        /\ [l EXCEPT !.publicFlag = TRUE].user = l.user
                        /\ [l EXCEPT !.publicFlag = TRUE].pass = l.pass
                        /\ [l EXCEPT !.publicFlag = TRUE].owner = l.owner
    OBVIOUS
  <2> QED BY <1>00, <2>1, <2>2, <2>3
<1>7. CASE MakePublic(c) \/ RunRecreate(c)
  <2>1. \A m \in links' : m \in links \/ m.user = "ATE_RESULTS"
    BY <1>7 DEF MakePublic, RunRecreate, Raise, database, LinkAs
  <2> QED BY <1>00, <2>1
<1> QED
  BY <1>1, <1>2, <1>3, <1>4, <1>5, <1>6, <1>7
     DEF LinkStep, CountPublic, Confirm, MakeFlagProbe, ReadFlag, DropFlagProbe, OpenLink,
         MakeProbe, ReadErrors, RunProbe, DropProbe, ListLinks, TryCurrent, SetPassword,
         MakeRecreate, DropRecreate, Unlock, CountLinks, ReadHost, CountUser, CreateUser,
         GrantUser, Cleanup, LinkFails, Raise, database

\* While a call is to grant, link or clean up, the account is its own.
LEMMA OneOwner ==
  ASSUME TypeInv, AccountInv, NEW c \in Owners
  PROVE  Owners = {c} /\ dblink.exists /\ dblink.pass = c
BY DEF AccountInv, Owners

\* The statements of create.
LEMMA CreateSteps ==
  ASSUME TypeInv, NEW c \in Calls, RunOf(c), req[c].kind = "create"
  PROVE  \/ CountLinks(c) \/ ReadHost(c) \/ CountUser(c) \/ CreateUser(c)
         \/ GrantUser(c) \/ CreateLink(c) \/ Cleanup(c) \/ OpenLink(c) \/ LinkFails(c)
<1>1. Moves(c) /\ KindAt(c)
  BY LinkControl, ViewControl DEF RunOf, TypeInv
<1>2. pc[c] \in AccountSteps \cup OwnerSteps \cup {"open"}
  BY <1>1
     DEF KindAt, Moves, Steps, LinkSteps, ViewSteps, ProbeSteps, ProbeTools, RecreateSteps,
         AccountSteps, OwnerSteps, TableSteps, ProcSteps, Copiers
<1>3. ~ViewStep(c)
  BY <1>2
     DEF AccountSteps, OwnerSteps, ViewStep, LookTable, MakeTable, LookIndex, MakeIndex, Before,
         MakeProc, MakeView, After, DropProc, LookView, DropView, ConfirmGone, ViewFails,
         ViewSteps, At
<1>4. CopyPassword(c) => pc[c] = "copyPassword"
  BY DEF CopyPassword, At
<1>5. Block(c) => pc[c] = "block"
  BY DEF Block, At
<1> QED
  BY <1>2, <1>3, <1>4, <1>5
     DEF AccountSteps, OwnerSteps, RunOf, At,
         LinkStep, DropFirst, CountPublic, InsertCopy, Confirm, Retarget,
         MakeFlagProbe, ReadFlag, DropFlagProbe, SetFlag, DeleteStale, MakeProbe,
         ReadErrors, RunProbe, DropProbe, ListLinks, TryCurrent, SetPassword, DropPublic,
         MakePublic, MakeRecreate, RunRecreate, DropRecreate, Unlock

LEMMA AccountRun ==
  ASSUME TypeInv, AccountInv, NEW c \in Calls, RunOf(c)
  PROVE  AccountInv'
<1> USE DEF TypeInv
<1>1. Moves(c) /\ KindAt(c)'
  BY LinkControl, ViewControl DEF RunOf
<1>2. \A d \in Calls : d # c => pc'[d] = pc[d] /\ struck'[d] = struck[d] /\ req'[d] = req[d]
  BY <1>1 DEF Moves, CallType
<1>3. CASE CreateUser(c) /\ dblink.exists = FALSE
  <2>1. pc[c] = "createUser" /\ dblink' = [exists |-> TRUE, pass |-> c, granted |-> FALSE]
        /\ links' = links
    BY <1>3 DEF CreateUser, At
  <2>2. Owners = {}
    BY <1>3, OneOwner DEF Owners
  <2>3. Owners' \subseteq {c}
    BY <1>2, <2>2 DEF Owners
  <2>4. \A l \in links : l.user = "PH_DBLINK" => l.owner = "PUBLIC" /\ LostLink
    BY <1>3 DEF AccountInv
  <2> QED BY <1>1, <2>1, <2>3, <2>4, LostStays DEF AccountInv
<1>4. CASE CreateLink(c) /\ PublicRows = {}
  <2> DEFINE new == WithAccount([LinkAs("PUBLIC", c) EXCEPT !.host = seen[c]], "PH_DBLINK", c, TRUE)
  <2>1. /\ pc[c] = "createLink" /\ links' = links \cup {new} /\ dblink' = dblink
        /\ Go(c, "open") \/ Strike(c, "lost", "cleanup")
    BY <1>4 DEF CreateLink, At
  <2>2. new.owner = "PUBLIC" /\ new.pass = c
    BY DEF WithAccount, LinkAs
  <2> HIDE DEF new
  <2>3. Owners = {c} /\ dblink.exists /\ dblink.pass = c
    BY <2>1, OneOwner DEF Owners, OwnerSteps
  <2>4. \A l \in links : l.user = "PH_DBLINK" => l.owner = "PUBLIC" /\ LostLink
    BY <2>1, <2>3 DEF AccountInv
  <2>5. Owners' \subseteq {c}
    BY <1>2, <2>3 DEF Owners
  <2>6. pc'[c] = "open" \/ (pc'[c] = "cleanup" /\ struck'[c] = "lost")
    BY <2>1, GoMoves, StrikeMoves DEF Steps, LinkSteps
  <2>7. \A d \in Owners' : pc'[d] = "cleanup" /\ struck'[d] = "lost"
    BY <2>5, <2>6 DEF Owners, OwnerSteps
  <2> QED BY <1>1, <2>1, <2>2, <2>3, <2>4, <2>5, <2>7, LostStays DEF AccountInv
<1>5. CASE Cleanup(c)
  <2>1. pc[c] = "cleanup" /\ links' = links /\ pc'[c] = "raised" /\ struck' = struck
    BY <1>5, GoMoves DEF Cleanup, At, Steps, LinkSteps
  <2>2. Owners = {c}
    BY <2>1, OneOwner DEF Owners, OwnerSteps
  <2>3. Owners' = {}
    BY <1>2, <2>1, <2>2 DEF Owners, OwnerSteps
  <2>4. req[c].kind = "create"
    BY <2>1 DEF KindAt, OwnerSteps
  <2>5. struck[c] = "lost" => LostLink'
    BY <1>1, <2>1, <2>4 DEF LostLink, Moves
  <2>6. \A l \in links : l.user = "PH_DBLINK" => l.owner = "PUBLIC" /\ LostLink'
    BY <1>1, <2>2, <2>5, LostStays DEF AccountInv
  <2> QED BY <2>1, <2>3, <2>6 DEF AccountInv
<1>6. CASE /\ ~(CreateUser(c) /\ dblink.exists = FALSE)
           /\ ~(CreateLink(c) /\ PublicRows = {}) /\ ~Cleanup(c)
  <2>0. ~Cleanup(c)
    BY <1>6
  <2>1. NoNewDblink
    <3>1. CASE LinkStep(c) /\ ~CreateLink(c)
      BY <3>1, LinksOfOthers
    <3>2. CASE UNCHANGED links
      BY <3>2 DEF NoNewDblink, AccountInv
    <3>3. CreateLink(c) => UNCHANGED links
      BY <1>6 DEF CreateLink
    <3>4. ViewStep(c) => UNCHANGED links
      BY DEF ViewStep, LookTable, MakeTable, LookIndex, MakeIndex, Before, MakeProc, MakeView,
             After, DropProc, LookView, DropView, ConfirmGone, ViewFails, database
    <3> QED BY <3>1, <3>2, <3>3, <3>4 DEF RunOf
  <2>2. dblink'.exists = dblink.exists /\ dblink'.pass = dblink.pass
    <3>1. CASE GrantUser(c)
      BY <3>1 DEF GrantUser, LinkType
    <3>2. ViewStep(c) => UNCHANGED dblink
      BY DEF ViewStep, LookTable, MakeTable, LookIndex, MakeIndex, Before, MakeProc, MakeView,
             After, DropProc, LookView, DropView, ConfirmGone, ViewFails, database
    <3>3. CreateUser(c) => UNCHANGED dblink
      BY <1>6 DEF CreateUser, Raise, database, LinkType
    <3>5. CopyPassword(c) => UNCHANGED dblink
      BY DEF CopyPassword, Raise, database
    <3>6. Block(c) => UNCHANGED dblink
      BY DEF Block, Raise, database
    <3>4. LinkStep(c) /\ ~GrantUser(c) /\ ~CreateUser(c) => UNCHANGED dblink
      BY <2>0, <3>5, <3>6
         DEF LinkStep, DropFirst, CountPublic, InsertCopy, Confirm, Retarget,
             MakeFlagProbe, ReadFlag, DropFlagProbe, SetFlag, DeleteStale, OpenLink, MakeProbe,
             ReadErrors, RunProbe, DropProbe, ListLinks, TryCurrent, SetPassword, DropPublic,
             MakePublic, MakeRecreate, RunRecreate, DropRecreate, Unlock, CountLinks, ReadHost,
             CountUser, CreateLink, LinkFails, Raise, database
    <3> QED BY <3>1, <3>2, <3>3, <3>4 DEF RunOf
  <2>3. pc'[c] \in OwnerSteps => pc[c] \in {"grantUser", "createLink"}
    <3> SUFFICES ASSUME pc'[c] \in OwnerSteps, pc[c] \notin {"grantUser", "createLink"}
                 PROVE  FALSE
      OBVIOUS
    <3>1. req[c].kind = "create"
      BY <1>1 DEF KindAt, Moves
    <3>2. pc[c] # "grantUser" /\ pc[c] # "createLink"
      OBVIOUS
    <3>4. OpenLink(c) \/ CountLinks(c) \/ ReadHost(c) \/ CountUser(c) \/ CreateUser(c) \/ LinkFails(c)
      BY <2>0, <3>1, <3>2, CreateSteps DEF GrantUser, CreateLink, At
    <3>5. CASE OpenLink(c) \/ CountLinks(c) \/ ReadHost(c) \/ CountUser(c)
      BY <3>5, GoMoves DEF OpenLink, CountLinks, ReadHost, CountUser, Raise, At, Steps, LinkSteps,
                           OwnerSteps
    <3>6. CASE CreateUser(c)
      BY <1>6, <3>6, GoMoves DEF CreateUser, Raise, At, Steps, LinkSteps, OwnerSteps, LinkType
    <3>7. CASE LinkFails(c)
      BY <3>2, <3>7, StrikeMoves DEF LinkFails, OnError, At, Steps, LinkSteps, OwnerSteps
    <3> QED BY <3>4, <3>5, <3>6, <3>7
  <2> QED BY <1>1, <2>1, <2>2, <2>3, AccountKeeps
<1> QED BY <1>3, <1>4, <1>5, <1>6

LEMMA AccountStart ==
  ASSUME TypeInv, AccountInv, NEW c \in Calls, StartOf(c)
  PROVE  AccountInv'
<1>1. Begins(c) /\ KindAt(c)'
  BY StartControl DEF StartOf, TypeInv
<1>2. UNCHANGED <<links, dblink, struck>>
      /\ \A d \in Calls : d # c => pc'[d] = pc[d] /\ req'[d] = req[d]
  BY <1>1 DEF Begins, database, TypeInv, CallType
<1>3. pc'[c] \notin OwnerSteps
  BY ViewAssumption, LinkAssumption
     DEF StartOf, ViewStart, LinkStart, Begin, FirstStep, OwnerSteps, TypeInv, CallType, At,
         LinkTools, Copiers, ViewTools
<1>4. Owners' = Owners
  <2>1. pc[c] \notin OwnerSteps
    BY <1>1 DEF Begins, OwnerSteps
  <2> QED BY <1>2, <1>3, <2>1 DEF Owners
<1>5. LostLink => LostLink'
  <2> SUFFICES ASSUME NEW d \in Calls, req[d].kind = "create", struck[d] = "lost", pc[d] = "raised"
               PROVE  LostLink'
    BY DEF LostLink
  <2>1. d # c
    BY <1>1 DEF Begins
  <2> QED BY <1>2, <2>1 DEF LostLink
<1>6. \A d \in Owners : pc'[d] = pc[d]
  BY <1>1, <1>2 DEF Begins, Owners, OwnerSteps
<1> QED BY <1>2, <1>4, <1>5, <1>6 DEF AccountInv

LEMMA AccountNext == TypeInv /\ AccountInv /\ [Next]_viewVars => AccountInv'
<1> SUFFICES ASSUME TypeInv, AccountInv, [Next]_viewVars PROVE AccountInv'
  OBVIOUS
<1>1. CASE UNCHANGED viewVars
  BY <1>1 DEF viewVars, linkVars, database, calls, history, AccountInv, Owners, LostLink
<1> QED BY <1>1, NextSteps, AccountRun, AccountStart DEF StartOf, RunOf

LEMMA AccountInit == Init => AccountInv
<1> SUFFICES ASSUME Init PROVE AccountInv
  OBVIOUS
<1> USE DEF Init, LinkInit, CallInit
<1>1. Owners = {}
  BY DEF Owners, OwnerSteps
<1>2. \A l \in links : l.user = "ATE_RESULTS"
  BY DEF LinkAs
<1> QED BY <1>1, <1>2 DEF AccountInv

\* A public link that connects as PH_DBLINK has its account with the password it
\* holds, unless the create call lost the answer of its link statement.
THEOREM LinksHaveTheirAccount == Spec => []LinkHasItsAccount
<1>1. Init => TypeInv /\ AccountInv
  BY TypeInit, AccountInit
<1>2. TypeInv /\ AccountInv /\ [Next]_viewVars => (TypeInv /\ AccountInv)'
  BY TypeNext, AccountNext
<1>3. AccountInv => LinkHasItsAccount
  BY DEF AccountInv, LinkHasItsAccount, LostLink
<1> QED BY <1>1, <1>2, <1>3, PTL DEF Spec

-----------------------------------------------------------------------------
(* Steps beside an open call, and FailedCreateLeavesNoAccount. *)

\* A call beside which another one steps has met it.
LEMMA MetByStep ==
  ASSUME TypeInv, NEW c \in Calls, StartOf(c) \/ RunOf(c), NEW d \in Open, d # c
  PROVE  met'[d] # {}
<1>1. CASE StartOf(c)
  <2>1. Begins(c)
    BY <1>1, StartControl DEF StartOf, TypeInv
  <2> QED BY <2>1 DEF Begins, Open
<1>2. CASE RunOf(c)
  <2>1. Moves(c)
    BY <1>2, LinkControl, ViewControl DEF RunOf, TypeInv
  <2>2. c \in Open
    BY <2>1 DEF Moves, Open, Steps, LinkSteps, ViewSteps, Ended
  <2> QED BY <2>1, <2>2 DEF Moves, TypeInv, CallsMeet
<1> QED BY <1>1, <1>2

\* A call that ends in a step takes it.
LEMMA EndStep ==
  ASSUME TypeInv, [Next]_viewVars, NEW c \in Open, pc'[c] \in Ended
  PROVE  RunOf(c)
<1>1. pc'[c] # pc[c] /\ c \in Calls
  BY DEF Open
<1>2. PICK d \in Calls : StartOf(d) \/ RunOf(d)
  BY <1>1, NextSteps DEF StartOf, RunOf, viewVars, linkVars, calls
<1>3. StartOf(d) => pc'[d] \notin Ended /\ \A e \in Calls : e # d => pc'[e] = pc[e]
  <2>1. StartOf(d) => Begins(d)
    BY StartControl DEF StartOf, TypeInv
  <2>2. Begins(d) => pc'[d] \notin Ended
    BY DEF Begins, Steps, LinkSteps, ViewSteps, Ended
  <2>3. Begins(d) => \A e \in Calls : e # d => pc'[e] = pc[e]
    BY DEF Begins, TypeInv, CallType
  <2> QED BY <2>1, <2>2, <2>3
<1>4. RunOf(d) => \A e \in Calls : e # d => pc'[e] = pc[e]
  BY LinkControl, ViewControl DEF RunOf, TypeInv, CallType, Moves
<1> QED BY <1>1, <1>2, <1>3, <1>4

LEMMA CreateInvRun ==
  ASSUME TypeInv, CreateInv, NEW c \in Calls, RunOf(c)
  PROVE  CreateInv'
<1>1. Moves(c) /\ KindAt(c)'
  BY LinkControl, ViewControl DEF RunOf, TypeInv
<1>2. ASSUME NEW d \in Calls, d # c, pc'[d] \in AccountSteps PROVE met'[d] # {}
  <2>1. pc[d] \in AccountSteps
    BY <1>1, <1>2 DEF Moves, TypeInv, CallType
  <2>2. d \in Open
    BY <2>1 DEF Open, AccountSteps, Ended
  <2> QED BY <1>2, <2>2, MetByStep
<1>3. ASSUME pc'[c] \in AccountSteps, met'[c] = {} PROVE dblink'.exists = before'[c].account
  <2>1. req[c].kind = "create"
    BY <1>1, <1>3 DEF KindAt, Moves
  <2>2. CountLinks(c) \/ ReadHost(c) \/ CountUser(c)
    <3>1. CreateUser(c) => Go(c, "grantUser") \/ Go(c, "raised") \/ Strike(c, "lost", "raised")
      BY DEF CreateUser, Raise
    <3>2. CreateLink(c) => Go(c, "open") \/ Go(c, "cleanup") \/ Strike(c, "lost", "cleanup")
      BY DEF CreateLink
    <3>3. GrantUser(c) \/ Cleanup(c) \/ OpenLink(c) =>
            Go(c, "createLink") \/ Go(c, "raised") \/ Go(c, "done")
      BY DEF GrantUser, Cleanup, OpenLink
    <3>4. LinkFails(c) => \E s \in {"done", "dropProbe", "dropAndRaise", "makeProbe", "cleanup", "raised"} :
                            Strike(c, "failed", s)
      BY DEF LinkFails, OnError
    <3>5. ASSUME NEW s \in {"grantUser", "createLink", "open", "cleanup", "dropProbe",
                            "dropAndRaise", "makeProbe", "done", "raised"},
                 NEW how \in {"failed", "lost"}, Go(c, s) \/ Strike(c, how, s)
          PROVE  FALSE
      <4>1. pc'[c] = s
        BY <1>1, <3>5, GoMoves, StrikeMoves DEF Moves, Steps, LinkSteps, TypeInv
      <4> QED BY <1>3, <4>1 DEF AccountSteps
    <3> QED BY <2>1, <3>1, <3>2, <3>3, <3>4, <3>5, CreateSteps
  <2>3. dblink' = dblink /\ pc[c] \in AccountSteps
    BY <2>2 DEF CountLinks, ReadHost, CountUser, Raise, database, At, AccountSteps
  <2> QED BY <1>1, <1>3, <2>3 DEF CreateInv, Moves
<1> QED BY <1>2, <1>3 DEF CreateInv

LEMMA CreateInvStart ==
  ASSUME TypeInv, CreateInv, NEW c \in Calls, StartOf(c)
  PROVE  CreateInv'
<1>1. Begins(c)
  BY StartControl DEF StartOf, TypeInv
<1>2. ASSUME NEW d \in Calls, d # c, pc'[d] \in AccountSteps PROVE met'[d] # {}
  <2>1. pc[d] \in AccountSteps
    BY <1>1, <1>2 DEF Begins, TypeInv, CallType
  <2>2. d \in Open
    BY <2>1 DEF Open, AccountSteps, Ended
  <2> QED BY <1>2, <2>2, MetByStep
<1>3. dblink'.exists = before'[c].account
  BY <1>1 DEF Begins, Found, database, TypeInv, CallType
<1> QED BY <1>2, <1>3 DEF CreateInv

LEMMA CreateInvNext == TypeInv /\ CreateInv /\ [Next]_viewVars => CreateInv'
<1> SUFFICES ASSUME TypeInv, CreateInv, [Next]_viewVars PROVE CreateInv'
  OBVIOUS
<1>1. CASE UNCHANGED viewVars
  BY <1>1 DEF viewVars, linkVars, database, calls, history, CreateInv
<1> QED BY <1>1, NextSteps, CreateInvRun, CreateInvStart DEF StartOf, RunOf

LEMMA CreateInvInit == Init => CreateInv
BY DEF Init, LinkInit, CallInit, CreateInv, AccountSteps

LEMMA CreateEnds ==
  ASSUME TypeInv, CreateInv, [Next]_viewVars, NEW c \in Calls, EndsAlone(c),
         req[c].kind = "create", pc'[c] = "raised", dblink'.exists
  PROVE  before[c].account \/ struck'[c] = "lost" \/ At(c, "cleanup")
<1> USE DEF EndsAlone, At, Steps, LinkSteps, TypeInv
<1>1. RunOf(c)
  BY EndStep
<1>2. CASE CountLinks(c) \/ ReadHost(c) \/ CountUser(c)
  <2>1. dblink' = dblink /\ pc[c] \in AccountSteps
    BY <1>2 DEF CountLinks, ReadHost, CountUser, Raise, database, AccountSteps
  <2> QED BY <2>1 DEF CreateInv
<1>3. CASE CreateUser(c)
  <2>1. CASE dblink.exists
    BY <1>3, <2>1 DEF CreateInv, CreateUser, AccountSteps
  <2>2. CASE ~dblink.exists
    BY <1>3, <2>2, GoMoves, StrikeMoves DEF CreateUser
  <2> QED BY <2>1, <2>2
<1>4. CASE GrantUser(c) \/ OpenLink(c) \/ CreateLink(c)
  <2>1. GrantUser(c) \/ OpenLink(c) \/ CreateLink(c) =>
          /\ pc[c] \in {"grantUser", "open", "createLink"}
          /\ \/ Go(c, "createLink") \/ Go(c, "done") \/ Go(c, "open") \/ Go(c, "cleanup")
             \/ Strike(c, "lost", "cleanup")
    BY DEF GrantUser, OpenLink, CreateLink
  <2> QED BY <1>4, <2>1, GoMoves, StrikeMoves
<1>5. CASE Cleanup(c)
  BY <1>5 DEF Cleanup
<1>6. CASE LinkFails(c)
  <2>1. pc[c] \in AccountSteps \cup OwnerSteps \cup {"open"}
    BY <1>1
       DEF KindAt, ViewSteps, ProbeSteps, ProbeTools, RecreateSteps,
           AccountSteps, OwnerSteps, TableSteps, ProcSteps, Copiers, CallType, Ended, Open
  <2>2. dblink' = dblink /\ pc'[c] = OnError(c)
    BY <1>6, StrikeMoves DEF LinkFails, database, OnError
  <2>3. pc[c] \in AccountSteps \cup {"cleanup"}
    BY <2>1, <2>2 DEF OnError, OwnerSteps
  <2> QED BY <2>2, <2>3 DEF CreateInv
<1> QED BY <1>1, <1>2, <1>3, <1>4, <1>5, <1>6, CreateSteps

\* A create call that ran alone and raised leaves no account behind, except when an
\* answer was lost or the dropping of the account failed.
THEOREM FailedCreatesLeaveNoAccount == Spec => FailedCreateLeavesNoAccount
<1>1. Init => TypeInv /\ CreateInv
  BY TypeInit, CreateInvInit
<1>2. TypeInv /\ CreateInv /\ [Next]_viewVars => (TypeInv /\ CreateInv)'
  BY TypeNext, CreateInvNext
<1>3. TypeInv /\ CreateInv /\ [Next]_viewVars =>
        [\A c \in Calls :
           EndsAlone(c) /\ req[c].kind = "create" /\ pc'[c] = "raised" /\ dblink'.exists =>
             before[c].account \/ struck'[c] = "lost" \/ At(c, "cleanup")]_linkVars
  BY CreateEnds
<1> QED BY <1>1, <1>2, <1>3, PTL DEF Spec, FailedCreateLeavesNoAccount

-----------------------------------------------------------------------------
(* LeftoversOnlyByFailureOrOverlap. *)

HoldsFlag(c) == pc[c] \in {"readFlag", "dropFlagProbe"}

\* c has made every procedure and probe link there is.
AllHeldBy(c) ==
  /\ flagProbe => HoldsFlag(c)
  /\ \A p \in Procedures : proc[p].by # Absent => Holds(c, p)

\* A statement that succeeds leaves nothing of its call's behind once the call is past its drop.
LEMMA HeldRun ==
  ASSUME TypeInv, NEW c \in Calls, RunOf(c), struck'[c] = "no", AllHeldBy(c)
  PROVE  AllHeldBy(c)'
<1> USE DEF At, TypeInv, AllHeldBy, HoldsFlag, Holds, CreateProc
<1> USE DEF ProbeSteps, RecreateSteps, ProcSteps
<1>0. Moves(c)
  BY LinkControl, ViewControl DEF RunOf
<1>1. \A s \in Steps \cup {"done", "raised"} : Go(c, s) => pc'[c] = s
  BY <1>0, GoMoves DEF Moves
<1>2. ProcOf(c)' = ProcOf(c) /\ ProcOf(c) \in Procedures /\ ProcOf(c) # CreateProc
      /\ ProcOf(c) # "mcp_recreate_ph_link"
  BY <1>0 DEF ProcOf, Moves, Procedures
<1>3. \A p \in Procedures, d \in Calls \cup {Absent}, v \in BOOLEAN :
         proc' = [proc EXCEPT ![p] = [by |-> d, valid |-> v]] =>
           \A q \in Procedures : proc'[q].by = IF q = p THEN d ELSE proc[q].by
  BY DEF LinkType
<1>4. CASE MakeFlagProbe(c) \/ ReadFlag(c) \/ DropFlagProbe(c)
  BY <1>1, <1>4 DEF MakeFlagProbe, ReadFlag, DropFlagProbe, Raise, database, Steps, LinkSteps
<1>5. CASE MakeProbe(c)
  <2>1. pc[c] = "makeProbe" /\ pc'[c] = "readErrors" /\ flagProbe' = flagProbe
    BY <1>1, <1>5 DEF MakeProbe, Steps, LinkSteps
  <2>2. \A q \in Procedures : proc'[q].by = IF q = ProcOf(c) THEN c ELSE proc[q].by
    BY <1>2, <1>3, <1>5, ZenonT(30) DEF MakeProbe
  <2> QED BY <1>2, <2>1, <2>2
<1>6. CASE ReadErrors(c) \/ RunProbe(c)
  BY <1>1, <1>2, <1>6 DEF ReadErrors, RunProbe, database, Steps, LinkSteps
<1>7. CASE DropProbe(c)
  <2>1. pc[c] = "dropProbe" /\ flagProbe' = flagProbe
    BY <1>7 DEF DropProbe
  <2>2. \A q \in Procedures : proc'[q].by = IF q = ProcOf(c) THEN Absent ELSE proc[q].by
    <3>1. proc' = [proc EXCEPT ![ProcOf(c)] = [by |-> Absent, valid |-> FALSE]]
      BY <1>7 DEF DropProbe, Dropped
    <3>2. ProcOf(c) \in Procedures
      BY <1>2
    <3>3. DOMAIN proc = Procedures
      BY DEF LinkType
    <3> HIDE DEF AllHeldBy, Holds
    <3> QED BY <3>1, <3>2, <3>3
  <2> QED BY <1>2, <2>1, <2>2
<1>8. CASE MakeRecreate(c)
  <2>1. pc[c] = "makeRecreate" /\ pc'[c] = "runRecreate" /\ flagProbe' = flagProbe
    BY <1>1, <1>8 DEF MakeRecreate, Steps, LinkSteps
  <2>2. \A q \in Procedures : proc'[q].by = IF q = "mcp_recreate_ph_link" THEN c ELSE proc[q].by
    BY <1>3, <1>8 DEF MakeRecreate, Procedures
  <2> QED BY <2>1, <2>2
<1>9. CASE RunRecreate(c)
  <2>1. /\ pc[c] = "runRecreate" /\ UNCHANGED <<proc, flagProbe>>
        /\ Go(c, "dropRecreate") \/ Go(c, "dropAndRaise") \/ Strike(c, "failed", "dropAndRaise")
    BY <1>9 DEF RunRecreate
  <2>2. ~Strike(c, "failed", "dropAndRaise")
    BY DEF Strike, CallType
  <2> QED BY <1>1, <2>1, <2>2 DEF Steps, LinkSteps
<1>10. CASE DropRecreate(c)
  <2>1. pc[c] \in {"dropRecreate", "dropAndRaise"} /\ flagProbe' = flagProbe
    BY <1>10 DEF DropRecreate
  <2>2. \A q \in Procedures : proc'[q].by = IF q = "mcp_recreate_ph_link" THEN Absent ELSE proc[q].by
    BY <1>3, <1>10 DEF DropRecreate, Dropped, Procedures
  <2> QED BY <2>1, <2>2
<1>11. CASE MakeProc(c)
  <2>1. pc[c] = "makeProc" /\ pc'[c] = "makeView" /\ flagProbe' = flagProbe
    BY <1>1, <1>11 DEF MakeProc, Steps, ViewSteps
  <2>2. \A q \in Procedures : proc'[q].by = IF q = CreateProc THEN c ELSE proc[q].by
    BY <1>3, <1>11 DEF MakeProc, Procedures
  <2> QED BY <2>1, <2>2
<1>12. CASE MakeView(c) \/ After(c)
  <2>1. MakeView(c) => /\ pc[c] = "makeView" /\ UNCHANGED <<proc, flagProbe>>
                       /\ Go(c, "makeView") \/ Go(c, "after") \/ Go(c, "dropProcRaise")
    BY DEF MakeView, NextView
  <2>2. After(c) => /\ pc[c] = "after" /\ UNCHANGED <<proc, flagProbe>> /\ Go(c, "dropProc")
    BY DEF After, database
  <2> QED BY <1>1, <1>12, <2>1, <2>2 DEF Steps, ViewSteps
<1>13. CASE DropProc(c)
  <2>1. pc[c] \in {"dropProc", "dropProcRaise"} /\ flagProbe' = flagProbe
    BY <1>13 DEF DropProc
  <2>2. \A q \in Procedures : proc'[q].by = IF q = CreateProc THEN Absent ELSE proc[q].by
    BY <1>3, <1>13 DEF DropProc, Dropped, Procedures
  <2> QED BY <2>1, <2>2
<1>14. CASE DropFirst(c) \/ CountPublic(c) \/ InsertCopy(c) \/ Confirm(c) \/ Retarget(c)
            \/ SetFlag(c) \/ DeleteStale(c) \/ OpenLink(c) \/ ListLinks(c) \/ TryCurrent(c)
  BY <1>14 DEF DropFirst, CountPublic, InsertCopy, Confirm, Retarget, SetFlag, DeleteStale,
               OpenLink, ListLinks, TryCurrent, Raise, database
<1>15. CASE SetPassword(c) \/ DropPublic(c) \/ MakePublic(c) \/ Unlock(c) \/ CountLinks(c)
            \/ ReadHost(c) \/ CountUser(c) \/ GrantUser(c) \/ Cleanup(c)
  BY <1>15 DEF SetPassword, DropPublic, MakePublic, Unlock, CountLinks, ReadHost, CountUser,
               GrantUser, Cleanup, Raise, database
<1>16. CASE CopyPassword(c) \/ Block(c) \/ CreateUser(c) \/ CreateLink(c)
  <2>1. CopyPassword(c) => pc[c] = "copyPassword" /\ UNCHANGED <<proc, flagProbe>>
    BY DEF CopyPassword, Raise, database
  <2>2. Block(c) => pc[c] = "block" /\ UNCHANGED <<proc, flagProbe>>
    BY DEF Block, Raise, database
  <2>3. CreateUser(c) => pc[c] = "createUser" /\ UNCHANGED <<proc, flagProbe>>
    BY DEF CreateUser, Raise, database
  <2>4. CreateLink(c) => pc[c] = "createLink" /\ UNCHANGED <<proc, flagProbe>>
    BY DEF CreateLink
  <2>5. pc[c] \in {"copyPassword", "block", "createUser", "createLink"} /\ UNCHANGED <<proc, flagProbe>>
    BY <1>16, <2>1, <2>2, <2>3, <2>4
  <2> QED BY <2>5
<1>17. CASE LookTable(c) \/ MakeTable(c) \/ LookIndex(c) \/ MakeIndex(c) \/ Before(c)
            \/ LookView(c) \/ DropView(c) \/ ConfirmGone(c)
  BY <1>17 DEF LookTable, MakeTable, LookIndex, MakeIndex, Before, LookView, DropView,
               ConfirmGone, database
<1>18. CASE LinkFails(c) \/ ViewFails(c)
  BY <1>18 DEF LinkFails, ViewFails, Strike, CallType
<1> QED
  BY <1>4, <1>5, <1>6, <1>7, <1>8, <1>9, <1>10, <1>11, <1>12, <1>13, <1>14, <1>15, <1>16,
     <1>17, <1>18 DEF RunOf, LinkStep, ViewStep

LEMMA LeftNext == TypeInv /\ LeftInv /\ [Next]_viewVars => LeftInv'
<1> SUFFICES ASSUME TypeInv, LeftInv, [Next]_viewVars, ~SomeFailureOrOverlap' PROVE LeftInv'
  BY DEF LeftInv
<1>0. \A d \in Calls : struck'[d] = "no" /\ met'[d] = {}
  BY DEF SomeFailureOrOverlap
<1>1. ASSUME NEW c \in Calls, RunOf(c) PROVE LeftInv'
  <2>1. Moves(c)
    BY <1>1, LinkControl, ViewControl DEF RunOf, TypeInv
  <2>2. ~SomeFailureOrOverlap
    BY <1>0, <2>1 DEF SomeFailureOrOverlap, Moves, TypeInv, CallType
  <2>3. ASSUME NEW d \in Open PROVE d = c
    BY <1>0, <1>1, <2>3, MetByStep DEF Open
  <2>4. AllHeldBy(c)
    BY <2>2, <2>3 DEF LeftInv, AllHeldBy, HoldsFlag, Holds, Open, Ended, ProbeSteps,
                      RecreateSteps, ProcSteps
  <2>5. AllHeldBy(c)'
    BY <1>0, <1>1, <2>4, HeldRun
  <2> QED BY <2>5 DEF AllHeldBy, LeftInv, HoldsFlag
<1>2. ASSUME NEW c \in Calls, StartOf(c) PROVE LeftInv'
  <2>1. Begins(c)
    BY <1>2, StartControl DEF StartOf, TypeInv
  <2>2. Open = {}
    <3>1. c \notin Open
      BY <2>1 DEF Begins, Open, Ended
    <3> QED BY <1>0, <1>2, <3>1, MetByStep DEF Open
  <2>3. ~SomeFailureOrOverlap
    BY <1>0, <2>1, <2>2 DEF SomeFailureOrOverlap, Begins, TypeInv, CallsMeet
  <2>4. ~flagProbe /\ \A p \in Procedures : proc[p].by = Absent
    BY <2>2, <2>3 DEF LeftInv, Holds, Open, Ended, ProbeSteps, RecreateSteps, ProcSteps
  <2> QED BY <2>1, <2>4 DEF LeftInv, Begins, database
<1>3. CASE UNCHANGED viewVars
  BY <1>3 DEF viewVars, linkVars, database, calls, history, LeftInv, Holds, ProcOf,
              SomeFailureOrOverlap
<1> QED BY <1>1, <1>2, <1>3, NextSteps DEF StartOf, RunOf

LEMMA LeftInit == Init => LeftInv
BY DEF Init, LinkInit, LeftInv

\* The procedures and the probe link have names that every call shares; between calls
\* they exist only after a statement failed or calls overlapped.
THEOREM LeftoversNeedFailureOrOverlap == Spec => []LeftoversOnlyByFailureOrOverlap
<1>1. Init => TypeInv /\ LeftInv
  BY TypeInit, LeftInit
<1>2. TypeInv /\ LeftInv /\ [Next]_viewVars => (TypeInv /\ LeftInv)'
  BY TypeNext, LeftNext
<1>3. LeftInv => LeftoversOnlyByFailureOrOverlap
  BY DEF LeftInv, LeftoversOnlyByFailureOrOverlap, Open, Ended, Holds, ProbeSteps,
         RecreateSteps, ProcSteps
<1> QED BY <1>1, <1>2, <1>3, PTL DEF Spec

-----------------------------------------------------------------------------
(* Calls that run alone and meet no failing statement. *)

\* Where each statement that changes a link, the password or a procedure begins.
LEMMA StepPc ==
  ASSUME NEW c \in Calls
  PROVE  /\ (DropFirst(c) => pc[c] = "dropFirst") /\ (CountPublic(c) => pc[c] = "countPublic")
         /\ (InsertCopy(c) => pc[c] = "insert") /\ (Confirm(c) => pc[c] = "confirm")
         /\ (CopyPassword(c) => pc[c] = "copyPassword") /\ (Block(c) => pc[c] = "block")
         /\ (Retarget(c) => pc[c] = "retarget") /\ (MakeFlagProbe(c) => pc[c] = "makeFlagProbe")
         /\ (ReadFlag(c) => pc[c] = "readFlag") /\ (DropFlagProbe(c) => pc[c] = "dropFlagProbe")
         /\ (SetFlag(c) => pc[c] = "setFlag") /\ (DeleteStale(c) => pc[c] = "deleteStale")
         /\ (OpenLink(c) => pc[c] = "open") /\ (MakeProbe(c) => pc[c] = "makeProbe")
         /\ (ReadErrors(c) => pc[c] = "readErrors") /\ (RunProbe(c) => pc[c] = "runProbe")
         /\ (DropProbe(c) => pc[c] = "dropProbe") /\ (ListLinks(c) => pc[c] = "listLinks")
         /\ (TryCurrent(c) => pc[c] = "tryCurrent") /\ (SetPassword(c) => pc[c] = "setPassword")
         /\ (DropPublic(c) => pc[c] = "dropPublic") /\ (MakePublic(c) => pc[c] = "makePublic")
         /\ (MakeRecreate(c) => pc[c] = "makeRecreate") /\ (RunRecreate(c) => pc[c] = "runRecreate")
         /\ DropRecreate(c) => pc[c] \in {"dropRecreate", "dropAndRaise"}
         /\ (Unlock(c) => pc[c] = "unlock") /\ (CountLinks(c) => pc[c] = "countLinks")
         /\ (ReadHost(c) => pc[c] = "readHost") /\ (CountUser(c) => pc[c] = "countUser")
         /\ (CreateUser(c) => pc[c] = "createUser") /\ (GrantUser(c) => pc[c] = "grantUser")
         /\ (CreateLink(c) => pc[c] = "createLink") /\ (Cleanup(c) => pc[c] = "cleanup")
<1> USE DEF At
<1>1. (CopyPassword(c) => pc[c] = "copyPassword") /\ (Block(c) => pc[c] = "block")
      /\ (CreateUser(c) => pc[c] = "createUser") /\ (CreateLink(c) => pc[c] = "createLink")
  <2>1. CopyPassword(c) => pc[c] = "copyPassword"
    BY DEF CopyPassword
  <2>2. Block(c) => pc[c] = "block"
    BY DEF Block
  <2>3. CreateUser(c) => pc[c] = "createUser"
    BY DEF CreateUser
  <2>4. CreateLink(c) => pc[c] = "createLink"
    BY DEF CreateLink
  <2> QED BY <2>1, <2>2, <2>3, <2>4
<1> QED
  BY <1>1
     DEF DropFirst, CountPublic, InsertCopy, Confirm, Retarget, MakeFlagProbe, ReadFlag,
         DropFlagProbe, SetFlag, DeleteStale, OpenLink, MakeProbe, ReadErrors, RunProbe,
         DropProbe, ListLinks, TryCurrent, SetPassword, DropPublic, MakePublic, MakeRecreate,
         RunRecreate, DropRecreate, Unlock, CountLinks, ReadHost, CountUser, GrantUser, Cleanup

LEMMA ViewStepPc ==
  ASSUME NEW c \in Calls
  PROVE  /\ (LookTable(c) => pc[c] = "lookTable") /\ (MakeTable(c) => pc[c] = "makeTable")
         /\ (LookIndex(c) => pc[c] = "lookIndex") /\ (MakeIndex(c) => pc[c] = "makeIndex")
         /\ (Before(c) => pc[c] = "before") /\ (MakeProc(c) => pc[c] = "makeProc")
         /\ (MakeView(c) => pc[c] = "makeView") /\ (After(c) => pc[c] = "after")
         /\ DropProc(c) => pc[c] \in {"dropProc", "dropProcRaise"}
         /\ (LookView(c) => pc[c] = "lookView") /\ (DropView(c) => pc[c] = "dropView")
         /\ ConfirmGone(c) => pc[c] = "confirmGone"
BY DEF At, LookTable, MakeTable, LookIndex, MakeIndex, Before, MakeProc, MakeView, After,
       DropProc, LookView, DropView, ConfirmGone

\* A step of a call whose statements all succeeded.
Succeeds(c) == RunOf(c) /\ struck[c] = "no" /\ struck'[c] = "no"

LEMMA NoStrike ==
  ASSUME TypeInv, NEW c \in Calls, struck'[c] = "no"
  PROVE  /\ \A s : ~Strike(c, "failed", s) /\ ~Strike(c, "lost", s)
         /\ ~LinkFails(c) /\ ~ViewFails(c)
BY DEF Strike, TypeInv, CallType, LinkFails, ViewFails

\* A call that is alone after a step has taken the step, or begun with it.
LEMMA AloneStep ==
  ASSUME TypeInv, NEW d \in Calls, StartOf(d) \/ RunOf(d), NEW c \in Calls, Alone(c)'
  PROVE  c = d /\ (StartOf(d) \/ (Succeeds(c) /\ Alone(c)))
<1>1. c = d
  <2> SUFFICES ASSUME c # d PROVE FALSE
    OBVIOUS
  <2>1. pc'[c] = pc[c]
    <3>1. StartOf(d) => Begins(d)
      BY StartControl DEF StartOf, TypeInv
    <3>2. RunOf(d) => Moves(d)
      BY LinkControl, ViewControl DEF RunOf, TypeInv
    <3> QED BY <3>1, <3>2 DEF Begins, Moves, TypeInv, CallType
  <2>2. c \in Open
    BY <2>1 DEF Alone, Open
  <2> QED BY <2>2, MetByStep DEF Alone
<1>2. ASSUME RunOf(d) PROVE Succeeds(c) /\ Alone(c)
  <2>1. Moves(c)
    BY <1>1, <1>2, LinkControl, ViewControl DEF RunOf, TypeInv
  <2>2. struck'[c] = "no" /\ met'[c] = {}
    BY DEF Alone
  <2>3. struck[c] = "no"
    BY <2>1, <2>2 DEF Moves, TypeInv, CallType
  <2>4. c \in Open
    BY <2>1 DEF Moves, Open, Ended, Steps, LinkSteps, ViewSteps
  <2> QED BY <1>1, <1>2, <2>1, <2>2, <2>3, <2>4 DEF Alone, Succeeds, Moves
<1> QED BY <1>1, <1>2

\* A logon answers with what one of the rows does, and what it tells is still so after it.
LEMMA LogonTruth ==
  ASSUME LinkType, NEW rows, NEW result \in BOOLEAN, Logon(rows, result), dblink' = dblink
  PROVE  /\ result => \E l \in rows : Opens(l)'
         /\ ~result => rows = {} \/ \E l \in rows : ~Opens(l)'
<1>1. CASE rows = {} /\ ~result
  BY <1>1
<1>2. ASSUME NEW l \in rows, result = Opens(l),
             \/ UNCHANGED ate
             \/ /\ l.host = "philippines" /\ l.user = "ATE_RESULTS" /\ l.pass # ate.pass
                /\ ate' = [ate EXCEPT !.locked = TRUE]
      PROVE  result = Opens(l)'
  BY <1>2 DEF Opens, LinkType
<1> QED BY <1>1, <1>2 DEF Logon

\* Logons over rows that have the password do not lock the account.
LEMMA GoodLogon ==
  ASSUME NEW rows, NEW result, Logon(rows, result), \A l \in rows : l.pass = ate.pass
  PROVE  ate' = ate
BY DEF Logon

\* What no tool but the two that drop the public link does: it keeps a public row.
LEMMA RowsKept ==
  ASSUME TypeInv, NEW c \in Calls, RunOf(c), struck'[c] = "no", PublicRows # {},
         ~DropPublic(c), ~(DropFirst(c) /\ req[c].public = PhDb)
  PROVE  PublicRows' # {}
<1> USE DEF TypeInv, LinkType
<1>1. PICK r \in links : r.owner = "PUBLIC" /\ r.name = PhDb
  BY DEF PublicRows, Named
<1>0. r \in PublicRows
  BY <1>1 DEF PublicRows, Named
<1>2. SUFFICES \E m \in links' : m.owner = "PUBLIC" /\ m.name = PhDb
  BY <1>2 DEF PublicRows, Named
<1>3. CASE links' = links
  BY <1>1, <1>3
<1>4. CASE DropFirst(c)
  <2>1. req[c].public # PhDb
    BY <1>4
  <2>2. r \notin Named("PUBLIC", req[c].public)
    BY <1>1, <2>1 DEF Named
  <2> QED BY <1>1, <1>4, <2>2 DEF DropFirst, Raise, database
<1>5. CASE InsertCopy(c) \/ MakePublic(c)
  BY <1>1, <1>5 DEF InsertCopy, MakePublic, Raise, database
<1>6. CASE CreateLink(c)
  <2>1. links \subseteq links'
    BY <1>6 DEF CreateLink
  <2> QED BY <1>1, <2>1
<1>7. CASE CopyPassword(c)
  <2>1. CASE links' = (links \ PublicRows) \cup
                        {WithAccount(l, Absent, Absent, l.publicFlag) : l \in PublicRows}
    <3>1. WithAccount(r, Absent, Absent, r.publicFlag) \in links'
      BY <1>0, <2>1
    <3> QED BY <1>1, <3>1 DEF WithAccount
  <2>2. CASE PrivateRows # {} /\ links' = (links \ PublicRows) \cup
                {WithAccount(l, p.user, p.pass, p.publicFlag) : l \in PublicRows, p \in PrivateRows}
    <3>1. PICK p \in PrivateRows : WithAccount(r, p.user, p.pass, p.publicFlag) \in links'
      BY <1>0, <2>2
    <3> QED BY <1>1, <3>1 DEF WithAccount
  <2> QED BY <1>3, <1>7, <2>1, <2>2 DEF CopyPassword, Raise, database
<1>8. CASE Block(c)
  <2> DEFINE new(l) == WithAccount([l EXCEPT !.owner = "PUBLIC"], "ATE_RESULTS", l.pass, TRUE)
  <2>1. ~Strike(c, "failed", "raised")
    BY NoStrike
  <2>2. \/ links' = links
        \/ Cardinality(PrivateRows) = 1
           /\ links' = (links \ PublicRows) \cup {new(l) : l \in PrivateRows}
    BY <1>8, <2>1 DEF Block, Raise, database
  <2>3. ASSUME Cardinality(PrivateRows) = 1,
               links' = (links \ PublicRows) \cup {new(l) : l \in PrivateRows}
        PROVE  \E m \in links' : m.owner = "PUBLIC" /\ m.name = PhDb
    <3>1. PICK p : p \in PrivateRows
      <4>1. PrivateRows # {}
        <5> HIDE DEF TypeInv, LinkType, new
        <5> QED BY <2>3, FS_EmptySet
      <4> QED BY <4>1
    <3>2. new(p) \in links' /\ p.name = PhDb /\ p \in Link
      BY <2>3, <3>1 DEF PrivateRows, Named
    <3>3. new(p).owner = "PUBLIC" /\ new(p).name = PhDb
      BY <3>2 DEF WithAccount, Link
    <3> HIDE DEF new
    <3> QED BY <3>2, <3>3
  <2> QED BY <1>3, <2>2, <2>3
<1>9. CASE Retarget(c) \/ SetFlag(c)
  <2>1. [r EXCEPT !.host = "philippines"] \in links' \/ [r EXCEPT !.publicFlag = TRUE] \in links'
    BY <1>0, <1>9 DEF Retarget, SetFlag
  <2> QED BY <1>1, <2>1 DEF Link
<1>10. CASE DeleteStale(c) \/ RunRecreate(c)
  <2>1. r \notin PrivateRows
    BY <1>1 DEF PrivateRows, Named
  <2> QED BY <1>1, <1>10, <2>1 DEF DeleteStale, RunRecreate
<1>11. ViewStep(c) => links' = links
  BY DEF ViewStep, LookTable, MakeTable, LookIndex, MakeIndex, Before, MakeProc, MakeView,
         After, DropProc, LookView, DropView, ConfirmGone, ViewFails, database
<1>12. CreateUser(c) => links' = links
  BY DEF CreateUser, Raise, database
<1> QED
  BY <1>3, <1>4, <1>5, <1>6, <1>7, <1>8, <1>9, <1>10, <1>11, <1>12
     DEF RunOf, LinkStep, CountPublic, Confirm, MakeFlagProbe, ReadFlag, DropFlagProbe, OpenLink,
         MakeProbe, ReadErrors, RunProbe, DropProbe, ListLinks, TryCurrent, SetPassword,
         MakeRecreate, DropRecreate, Unlock, CountLinks, ReadHost, CountUser,
         GrantUser, Cleanup, LinkFails, Raise, database

LEMMA SurvivesRun ==
  ASSUME TypeInv, NEW c \in Calls, Succeeds(c), SurvivesAt(c)
  PROVE  SurvivesAt(c)'
<1>1. Moves(c) /\ KindAt(c)
  BY LinkControl, ViewControl DEF Succeeds, RunOf, TypeInv
<1>2. CASE DropPublic(c)
  <2>1. pc'[c] = "makePublic"
    BY <1>1, <1>2, GoMoves DEF DropPublic, At, TypeInv, Moves, Steps, LinkSteps
  <2> QED BY <2>1 DEF SurvivesAt
<1>3. CASE DropFirst(c) /\ req[c].public = PhDb
  <2>1. req[c].kind = "recreate"
    <3>1. pc[c] = "dropFirst"
      BY <1>3 DEF DropFirst, At
    <3> QED BY <1>1, <3>1 DEF KindAt
  <2> QED BY <1>1, <1>3, <2>1 DEF SurvivesAt, Moves
<1>4. CASE PublicRows # {} /\ ~DropPublic(c) /\ ~(DropFirst(c) /\ req[c].public = PhDb)
  BY <1>4, RowsKept DEF SurvivesAt, Succeeds
<1>5. CASE pc[c] = "makePublic" /\ PublicRows = {}
  <2>1. MakePublic(c)
    <3>1. ~ViewStep(c)
      BY <1>5, ViewStepPc, NoStrike DEF Succeeds, ViewStep
    <3> QED BY <1>5, <3>1, StepPc, NoStrike DEF Succeeds, RunOf, LinkStep
  <2>2. LinkAs("PUBLIC", c) \in PublicRows'
    BY <1>5, <2>1 DEF MakePublic, PublicRows, Named, LinkAs
  <2> QED BY <2>2 DEF SurvivesAt
<1> QED BY <1>1, <1>2, <1>3, <1>4, <1>5 DEF SurvivesAt, Moves

\* The statements of reset.
LEMMA ResetSteps ==
  ASSUME TypeInv, NEW c \in Calls, Succeeds(c), req[c].kind = "reset"
  PROVE  \/ SetPassword(c) \/ DropPublic(c) \/ MakePublic(c) \/ MakeRecreate(c)
         \/ RunRecreate(c) \/ DropRecreate(c) \/ MakeProbe(c) \/ ReadErrors(c)
         \/ RunProbe(c) \/ DropProbe(c)
<1>1. Moves(c) /\ KindAt(c)
  BY LinkControl, ViewControl DEF Succeeds, RunOf, TypeInv
<1>2. pc[c] \in {"setPassword", "dropPublic", "makePublic"} \cup RecreateSteps \cup ProbeSteps
  BY <1>1
     DEF KindAt, Moves, Steps, LinkSteps, ViewSteps, ProbeSteps, ProbeTools, RecreateSteps,
         AccountSteps, OwnerSteps, TableSteps, ProcSteps, Copiers
<1>3. ~ViewStep(c)
  BY <1>2, ViewStepPc, NoStrike DEF Succeeds, ViewStep, RecreateSteps, ProbeSteps
<1>4. LinkStep(c) /\ ~LinkFails(c)
  BY <1>3, NoStrike DEF Succeeds, RunOf
<1> QED BY <1>2, <1>4, StepPc DEF LinkStep, RecreateSteps, ProbeSteps

LEMMA ResetRun ==
  ASSUME TypeInv, NEW c \in Calls, Succeeds(c), ResetAt(c), req[c].kind = "reset"
  PROVE  ResetAt(c)'
<1> USE DEF ProbeSteps, RecreateSteps
<1>0. Moves(c)
  BY LinkControl, ViewControl DEF Succeeds, RunOf, TypeInv
<1>1. \A s \in Steps \cup {"done", "raised"} : Go(c, s) => pc'[c] = s
  BY <1>0, GoMoves DEF Moves, TypeInv
<1> USE DEF Steps, LinkSteps, At
<1>2. CASE SetPassword(c)
  BY <1>1, <1>2 DEF SetPassword, ResetAt
<1>3. CASE DropPublic(c)
  <2>1. pc[c] = "dropPublic" /\ pc'[c] = "makePublic" /\ ate' = ate
    BY <1>1, <1>3 DEF DropPublic
  <2>2. PublicRows' = {}
    BY <1>3 DEF DropPublic, PublicRows, Named
  <2> QED BY <2>1, <2>2 DEF ResetAt
<1>4. CASE MakePublic(c)
  <2>1. pc[c] = "makePublic" /\ PublicRows = {}
    BY <1>4 DEF MakePublic, ResetAt
  <2>2. pc'[c] = "makeRecreate" /\ ate' = ate /\ links' = links \cup {LinkAs("PUBLIC", c)}
    BY <1>1, <1>4, <2>1 DEF MakePublic
  <2>3. PublicRows' = {LinkAs("PUBLIC", c)}
    BY <2>1, <2>2 DEF PublicRows, Named, LinkAs
  <2> QED BY <2>1, <2>2, <2>3 DEF ResetAt
<1>5. CASE MakeRecreate(c)
  <2>1. pc[c] = "makeRecreate" /\ pc'[c] = "runRecreate" /\ ate' = ate /\ links' = links
    BY <1>1, <1>5 DEF MakeRecreate
  <2>2. proc'["mcp_recreate_ph_link"].by = c
    BY <1>5 DEF MakeRecreate, TypeInv, LinkType, Procedures
  <2>3. PublicRows' = PublicRows
    BY <2>1 DEF PublicRows, Named
  <2> QED BY <2>1, <2>2, <2>3 DEF ResetAt
<1>6. CASE RunRecreate(c)
  <2>1. /\ pc[c] = "runRecreate" /\ proc["mcp_recreate_ph_link"].by = c
        /\ PublicRows = {LinkAs("PUBLIC", c)} /\ ate = [pass |-> c, locked |-> FALSE]
    BY <1>6 DEF RunRecreate, ResetAt
  <2>2. c # Absent
    BY LinkAssumption
  <2>3. /\ links' = (links \ PrivateRows) \cup {LinkAs("TRANSFER_USER", c)}
        /\ Go(c, "dropRecreate") /\ ate' = ate
    BY <1>6, <2>1, <2>2, NoStrike DEF RunRecreate, Succeeds
  <2>4. \A l \in links : l.owner = "PUBLIC" \/ l.owner = "TRANSFER_USER"
    BY DEF TypeInv, LinkType, Link
  <2>5. {l \in links : l.name = PhDb} = PublicRows \cup PrivateRows
    BY <2>4 DEF PublicRows, PrivateRows, Named
  <2>6. PublicRows \cap PrivateRows = {}
    BY DEF PublicRows, PrivateRows, Named
  <2>7. {l \in links' : l.name = PhDb} = PublicRows \cup {LinkAs("TRANSFER_USER", c)}
    <3>1. LinkAs("TRANSFER_USER", c).name = PhDb
      BY DEF LinkAs
    <3> QED BY <2>3, <2>5, <2>6, <3>1
  <2> QED BY <1>1, <2>1, <2>3, <2>7 DEF ResetAt
<1>7. CASE DropRecreate(c)
  <2>1. pc[c] = "dropRecreate" /\ pc'[c] = "makeProbe" /\ ate' = ate /\ links' = links
    BY <1>1, <1>7 DEF DropRecreate, ResetAt
  <2> QED BY <2>1 DEF ResetAt
<1>8. CASE MakeProbe(c) \/ RunProbe(c)
  <2>1. pc[c] \in {"makeProbe", "runProbe"} /\ pc'[c] \in {"readErrors", "dropProbe"} /\ links' = links
    BY <1>1, <1>8 DEF MakeProbe, RunProbe
  <2>2. /\ ate = [pass |-> c, locked |-> FALSE]
        /\ {l \in links : l.name = PhDb} = {LinkAs("PUBLIC", c), LinkAs("TRANSFER_USER", c)}
    BY <2>1 DEF ResetAt
  <2>3. ProbeRows(c) = PublicRows
    BY DEF ProbeRows
  <2>4. \A l \in PublicRows : l.pass = ate.pass
    <3>1. \A l \in PublicRows : l = LinkAs("PUBLIC", c) \/ l = LinkAs("TRANSFER_USER", c)
      BY <2>2 DEF PublicRows, Named
    <3> QED BY <2>2, <3>1 DEF LinkAs
  <2>5. ate' = ate
    BY <1>8, <2>3, <2>4, GoodLogon DEF MakeProbe, RunProbe
  <2> QED BY <2>1, <2>2, <2>5 DEF ResetAt
<1>9. CASE ReadErrors(c)
  <2>1. pc[c] = "readErrors" /\ pc'[c] \in {"dropProbe", "runProbe"} /\ ate' = ate /\ links' = links
    BY <1>1, <1>9 DEF ReadErrors, database
  <2> QED BY <2>1 DEF ResetAt
<1>10. CASE DropProbe(c)
  <2>1. pc'[c] \in {"done", "raised"}
    BY <1>1, <1>10 DEF DropProbe
  <2> QED BY <2>1 DEF ResetAt
<1> QED
  BY <1>2, <1>3, <1>4, <1>5, <1>6, <1>7, <1>8, <1>9, <1>10, ResetSteps

\* A statement of the probes, of a call that was to take one or comes to one.
LEMMA ProbeRun ==
  ASSUME TypeInv, NEW c \in Calls, Succeeds(c), ProbeAt(c)
  PROVE  ProbeAt(c)'
<1>0. Moves(c) /\ ProcOf(c)' = ProcOf(c) /\ req' = req /\ ProcOf(c) \in Procedures
  BY LinkControl, ViewControl DEF Succeeds, RunOf, TypeInv, Moves, ProcOf, Procedures
<1>1. \A s \in Steps \cup {"done", "raised"} : Go(c, s) => pc'[c] = s
  BY <1>0, GoMoves DEF Moves, TypeInv
<1> USE DEF At
<1>2. CASE MakeProbe(c)
  <2>1. PICK result \in BOOLEAN :
          /\ Logon(ProbeRows(c), result)
          /\ proc' = [proc EXCEPT ![ProcOf(c)] = [by |-> c, valid |-> result]]
    BY <1>2 DEF MakeProbe
  <2>2. pc'[c] = "readErrors" /\ dblink' = dblink /\ links' = links
    BY <1>1, <1>2 DEF MakeProbe, Steps, LinkSteps
  <2>3. proc'[ProcOf(c)] = [by |-> c, valid |-> result]
    BY <1>0, <2>1 DEF TypeInv, LinkType
  <2>4. PublicRows' = PublicRows
    BY <2>2 DEF PublicRows, Named
  <2>5. req[c].kind # "check" /\ ~result => Closed(PublicRows)'
    BY <2>1, <2>2, <2>4, LogonTruth DEF ProbeRows, Closed, TypeInv
  <2> QED BY <1>0, <2>2, <2>3, <2>5 DEF ProbeAt
<1>3. CASE ReadErrors(c)
  <2>1. pc[c] = "readErrors" /\ UNCHANGED <<links, ate, dblink, proc>> /\ ok'[c] = FALSE
    BY <1>3 DEF ReadErrors, database, TypeInv, LinkType
  <2>2. pc'[c] = IF proc[ProcOf(c)].by # Absent /\ ~proc[ProcOf(c)].valid THEN "dropProbe" ELSE "runProbe"
    BY <1>1, <1>3 DEF ReadErrors, Steps, LinkSteps
  <2>3. Closed(PublicRows)' = Closed(PublicRows)
    BY <2>1 DEF Closed, PublicRows, Named, Opens
  <2> QED BY <1>0, <2>1, <2>2, <2>3 DEF ProbeAt
<1>4. CASE RunProbe(c)
  <2>1. pc[c] = "runProbe" /\ pc'[c] = "dropProbe" /\ UNCHANGED <<links, dblink>>
    BY <1>1, <1>4 DEF RunProbe, Steps, LinkSteps
  <2>2. proc[ProcOf(c)].by # Absent
    BY <2>1, LinkAssumption DEF ProbeAt
  <2>3. PICK result \in BOOLEAN : Logon(ProbeRows(c), result) /\ ok' = [ok EXCEPT ![c] = result]
    BY <1>4, <2>2 DEF RunProbe
  <2>4. ok'[c] = result
    BY <2>3 DEF TypeInv, LinkType
  <2>5. PublicRows' = PublicRows
    BY <2>1 DEF PublicRows, Named
  <2>6. req[c].kind # "check" => IF result THEN \E l \in PublicRows : Opens(l)'
                                 ELSE PublicRows = {} \/ \E l \in PublicRows : ~Opens(l)'
    BY <2>1, <2>3, LogonTruth DEF ProbeRows, TypeInv
  <2> QED BY <1>0, <2>1, <2>4, <2>5, <2>6 DEF ProbeAt, Closed
<1>5. CASE ~MakeProbe(c) /\ ~ReadErrors(c) /\ ~RunProbe(c)
  <2>1. pc'[c] \notin {"readErrors", "runProbe", "dropProbe"}
    <3>1. CASE LinkStep(c)
      <4>1. CopyPassword(c) => Go(c, "makeProbe") \/ Go(c, "raised")
        BY DEF CopyPassword, Raise
      <4>2. Block(c) => Go(c, "open") \/ Go(c, "raised") \/ Strike(c, "failed", "raised")
        BY DEF Block, Raise
      <4>3. CreateUser(c) => Go(c, "grantUser") \/ Go(c, "raised") \/ Strike(c, "lost", "raised")
        BY DEF CreateUser, Raise
      <4>4. CreateLink(c) => Go(c, "open") \/ Go(c, "cleanup") \/ Strike(c, "lost", "cleanup")
        BY DEF CreateLink
      <4>5. RunRecreate(c) => Go(c, "dropRecreate") \/ Go(c, "dropAndRaise")
                              \/ Strike(c, "failed", "dropAndRaise")
        BY DEF RunRecreate
      <4>6. CASE CopyPassword(c) \/ Block(c) \/ CreateUser(c) \/ CreateLink(c) \/ RunRecreate(c)
        BY <1>1, <4>1, <4>2, <4>3, <4>4, <4>5, <4>6, NoStrike DEF Succeeds, Steps, LinkSteps
      <4>7. CASE DropFirst(c) \/ CountPublic(c) \/ InsertCopy(c) \/ Confirm(c) \/ Retarget(c)
                 \/ MakeFlagProbe(c) \/ ReadFlag(c) \/ DropFlagProbe(c) \/ SetFlag(c)
                 \/ DeleteStale(c) \/ OpenLink(c) \/ DropProbe(c)
        BY <1>1, <4>7
           DEF DropFirst, CountPublic, InsertCopy, Confirm, Retarget, MakeFlagProbe, ReadFlag,
               DropFlagProbe, SetFlag, DeleteStale, OpenLink, DropProbe, Raise, Steps, LinkSteps
      <4>8. CASE ListLinks(c) \/ TryCurrent(c) \/ SetPassword(c) \/ DropPublic(c) \/ MakePublic(c)
                 \/ MakeRecreate(c) \/ DropRecreate(c) \/ Unlock(c) \/ CountLinks(c)
                 \/ ReadHost(c) \/ CountUser(c) \/ GrantUser(c) \/ Cleanup(c)
        BY <1>1, <4>8
           DEF ListLinks, TryCurrent, SetPassword, DropPublic, MakePublic, MakeRecreate,
               DropRecreate, Unlock, CountLinks, ReadHost, CountUser, GrantUser, Cleanup, Raise,
               Steps, LinkSteps
      <4>9. ~LinkFails(c)
        BY NoStrike DEF Succeeds
      <4> QED BY <1>5, <3>1, <4>6, <4>7, <4>8, <4>9 DEF LinkStep
    <3>2. CASE ViewStep(c)
      <4>1. MakeView(c) => Go(c, "makeView") \/ Go(c, "after") \/ Go(c, "dropProcRaise")
        BY DEF MakeView, NextView
      <4>2. ~ViewFails(c)
        BY NoStrike DEF Succeeds
      <4> QED
        BY <1>1, <3>2, <4>1, <4>2
           DEF ViewStep, LookTable, MakeTable, NextTable, LookIndex, MakeIndex, Before, MakeProc,
               After, DropProc, LookView, DropView, ConfirmGone, Steps, ViewSteps
    <3> QED BY <3>1, <3>2 DEF Succeeds, RunOf
  <2> QED BY <2>1 DEF ProbeAt
<1> QED BY <1>2, <1>3, <1>4, <1>5

\* The names of the three tables, one by one.
LEMMA Names ==
  /\ ViewSet = {ViewNames[1], ViewNames[2], ViewNames[3]}
  /\ \A i, j \in 1..3 : ViewNames[i] = ViewNames[j] => i = j
  /\ \A i \in 1..3 : i = 1 \/ i = 2 \/ i = 3
BY DEF ViewSet, ViewNames

\* The last of the three completes them.
LEMMA AllNames ==
  ASSUME NEW S \in SUBSET ViewSet, NEW n \in 1..3, \A i \in 1..3 : i < n => ViewNames[i] \in S,
         ViewNames[n] \in S
  PROVE  /\ n < 3 => \A i \in 1..3 : i < n + 1 => ViewNames[i] \in S
         /\ ~(n < 3) => S = ViewSet
<1>1. \A i \in 1..3 : i < n + 1 => i < n \/ i = n
  OBVIOUS
<1>2. ASSUME ~(n < 3) PROVE S = ViewSet
  <2>1. n = 3
    BY <1>2
  <2>2. ViewNames[1] \in S /\ ViewNames[2] \in S /\ ViewNames[3] \in S
    <3>1. 1 \in 1..3 /\ 2 \in 1..3 /\ 1 < n /\ 2 < n
      BY <2>1
    <3> QED BY <2>1, <3>1
  <2> QED BY <2>2, Names
<1> QED BY <1>1, <1>2

ObjectSteps == TableSteps \cup ProcSteps \cup {"before", "makeProc"}

LEMMA ObjectsRun ==
  ASSUME TypeInv, NEW c \in Calls, Succeeds(c), ObjectsAt(c)
  PROVE  ObjectsAt(c)'
<1> USE DEF TableSteps, ProcSteps
<1>0. Moves(c) /\ KindAt(c) /\ KindAt(c)'
  BY LinkControl, ViewControl DEF Succeeds, RunOf, TypeInv
<1>1. \A s \in Steps \cup {"done", "raised"} : Go(c, s) => pc'[c] = s
  BY <1>0, GoMoves DEF Moves, TypeInv
<1>2. nth[c] \in 1..3 /\ tables \in SUBSET ViewSet /\ mviews \in SUBSET ViewSet
  BY DEF TypeInv, ViewType
<1> USE DEF At, Steps, ViewSteps
<1>3. CASE LookTable(c)
  <2>1. pc[c] = "lookTable" /\ UNCHANGED <<tables, index, proc>>
    BY <1>3 DEF LookTable, objects, database
  <2>2. CASE ViewNames[nth[c]] \in tables
    <3>1. /\ pc'[c] = IF nth[c] < 3 THEN "lookTable" ELSE "lookIndex"
          /\ nth'[c] = IF nth[c] < 3 THEN nth[c] + 1 ELSE 1
      BY <1>1, <1>3, <2>2 DEF LookTable, NextTable, TypeInv, ViewType
    <3>2. /\ nth[c] < 3 => \A i \in 1..3 : i < nth[c] + 1 => ViewNames[i] \in tables
          /\ ~(nth[c] < 3) => tables = ViewSet
      BY <1>2, <2>1, <2>2, AllNames DEF ObjectsAt
    <3> QED BY <2>1, <3>1, <3>2 DEF ObjectsAt
  <2>3. CASE ViewNames[nth[c]] \notin tables
    BY <1>1, <1>3, <2>1, <2>3 DEF LookTable, ObjectsAt
  <2> QED BY <2>2, <2>3
<1>4. CASE MakeTable(c)
  <2>1. pc[c] = "makeTable" /\ ViewNames[nth[c]] \notin tables /\ UNCHANGED <<index, proc>>
    BY <1>4 DEF MakeTable, ObjectsAt, database
  <2>2. /\ pc'[c] = IF nth[c] < 3 THEN "lookTable" ELSE "lookIndex"
        /\ nth'[c] = IF nth[c] < 3 THEN nth[c] + 1 ELSE 1
        /\ tables' = tables \cup {ViewNames[nth[c]]}
    BY <1>1, <1>4, <2>1 DEF MakeTable, NextTable, TypeInv, ViewType
  <2>3. tables' \in SUBSET ViewSet
    BY <1>2, <2>2 DEF ViewSet
  <2>4. /\ nth[c] < 3 => \A i \in 1..3 : i < nth[c] + 1 => ViewNames[i] \in tables'
        /\ ~(nth[c] < 3) => tables' = ViewSet
    <3>1. \A i \in 1..3 : i < nth[c] => ViewNames[i] \in tables'
      BY <2>1, <2>2 DEF ObjectsAt
    <3>2. ViewNames[nth[c]] \in tables'
      BY <2>2
    <3> QED BY <1>2, <2>3, <3>1, <3>2, AllNames
  <2> QED BY <2>1, <2>2, <2>4 DEF ObjectsAt
<1>5. CASE LookIndex(c) \/ MakeIndex(c) \/ Before(c)
  <2>1. /\ pc[c] \in {"lookIndex", "makeIndex", "before"} /\ UNCHANGED <<tables, nth>>
        /\ pc'[c] = "makeIndex" => ~index'
        /\ pc'[c] \in {"before", "makeProc"} => index'
        /\ pc'[c] \in {"makeIndex", "before", "makeProc", "raised"}
    BY <1>1, <1>5 DEF LookIndex, MakeIndex, Before, objects, viewLocals, ObjectsAt
  <2> QED BY <2>1 DEF ObjectsAt
<1>6. CASE MakeProc(c)
  <2>1. pc[c] = "makeProc" /\ pc'[c] = "makeView" /\ UNCHANGED <<tables, index, nth, mviews>>
    BY <1>1, <1>6 DEF MakeProc, objects, viewLocals
  <2>2. proc'[CreateProc].by = c
    BY <1>6 DEF MakeProc, TypeInv, LinkType, CreateProc, Procedures
  <2>3. \A i \in 1..3 : ~(i < 1)
    OBVIOUS
  <2> QED BY <2>1, <2>2, <2>3 DEF ObjectsAt
<1>7. CASE MakeView(c)
  <2>1. pc[c] = "makeView" /\ UNCHANGED <<tables, index, proc, links, dblink>>
    BY <1>7 DEF MakeView
  <2>2. CASE ViewNames[nth[c]] \in mviews \/ mviews' = mviews \cup {ViewNames[nth[c]]}
    <3>1. CASE NextView(c) /\ ViewNames[nth[c]] \in mviews' /\ mviews \subseteq mviews'
      <4>1. /\ pc'[c] = IF nth[c] < 3 THEN "makeView" ELSE "after"
            /\ nth'[c] = IF nth[c] < 3 THEN nth[c] + 1 ELSE 1
        BY <1>1, <3>1 DEF NextView, TypeInv, ViewType
      <4>2. mviews' \in SUBSET ViewSet
        BY <1>2, <1>7 DEF MakeView, ViewSet
      <4>3. /\ nth[c] < 3 => \A i \in 1..3 : i < nth[c] + 1 => ViewNames[i] \in mviews'
            /\ ~(nth[c] < 3) => mviews' = ViewSet
        <5>1. \A i \in 1..3 : i < nth[c] => ViewNames[i] \in mviews'
          BY <2>1, <3>1 DEF ObjectsAt
        <5> QED BY <1>2, <3>1, <4>2, <5>1, AllNames
      <4> QED BY <2>1, <4>1, <4>3 DEF ObjectsAt
    <3> QED BY <1>7, <2>2, <3>1 DEF MakeView
  <2>3. ASSUME Logon(TransferRows, FALSE), pc'[c] = "dropProcRaise" PROVE ObjectsAt(c)'
    <3>1. TransferRows = {} \/ \E l \in TransferRows : ~Opens(l)'
      BY <2>1, <2>3, LogonTruth DEF TypeInv
    <3>2. TransferRows' = TransferRows
      BY <2>1 DEF TransferRows, PrivateRows, PublicRows, Named
    <3> QED BY <2>1, <2>3, <3>1, <3>2 DEF ObjectsAt, Closed
  <2>4. \/ NextView(c) /\ mviews' = mviews /\ ViewNames[nth[c]] \in mviews
        \/ NextView(c) /\ mviews' = mviews \cup {ViewNames[nth[c]]}
        \/ Logon(TransferRows, FALSE) /\ Go(c, "dropProcRaise")
    BY <1>7 DEF MakeView
  <2> QED BY <1>1, <2>2, <2>3, <2>4
<1>8. CASE After(c)
  <2>1. pc[c] = "after" /\ pc'[c] = "dropProc" /\ UNCHANGED <<tables, index, proc, mviews, found>>
    BY <1>1, <1>8 DEF After, objects, database
  <2>2. created'[c] = mviews \ found[c]
    BY <1>8 DEF After, TypeInv, ViewType
  <2> QED BY <2>1, <2>2 DEF ObjectsAt
<1>9. CASE DropProc(c)
  <2>1. pc'[c] \in {"done", "raised"}
    BY <1>1, <1>9 DEF DropProc
  <2> QED BY <2>1 DEF ObjectsAt
<1>10. CASE LookView(c) \/ DropView(c) \/ ConfirmGone(c)
  <2>1. pc'[c] \in {"dropView", "confirmGone", "done", "raised"}
    BY <1>1, <1>10 DEF LookView, DropView, ConfirmGone
  <2> QED BY <2>1 DEF ObjectsAt
<1>11. CASE LinkStep(c)
  <2>1. pc[c] \in LinkSteps
    BY <1>11, StepPc DEF LinkStep, LinkSteps, LinkFails
  <2>2. pc'[c] \notin ObjectSteps
    <3>1. pc'[c] \in ObjectSteps => req[c].kind = "objects"
      BY <1>0 DEF KindAt, ObjectSteps, Moves
    <3>2. req[c].kind # "objects"
      BY <1>0, <2>1
         DEF KindAt, LinkSteps, ProbeSteps, ProbeTools, RecreateSteps, AccountSteps, OwnerSteps,
             Copiers
    <3> QED BY <3>1, <3>2
  <2> QED BY <2>2 DEF ObjectsAt, ObjectSteps
<1> QED
  BY <1>3, <1>4, <1>5, <1>6, <1>7, <1>8, <1>9, <1>10, <1>11, NoStrike
     DEF Succeeds, RunOf, ViewStep

\* The first statement of a call finds the database as the call does.
LEMMA AloneStart ==
  ASSUME TypeInv, NEW c \in Calls, StartOf(c)
  PROVE  (ResetAt(c) /\ SurvivesAt(c) /\ ProbeAt(c) /\ ObjectsAt(c))'
<1>1. Begins(c)
  BY StartControl DEF StartOf, TypeInv
<1>2. /\ pc'[c] \in {"countPublic", "dropFirst", "copyPassword", "makeProbe", "block", "retarget",
                     "makeFlagProbe", "deleteStale", "setPassword", "countLinks", "listLinks",
                     "unlock", "lookTable", "lookView"}
      /\ req'[c].kind = "reset" => pc'[c] = "setPassword"
      /\ pc'[c] = "lookTable" => nth'[c] = 1
  <2>1. CASE LinkStart(c)
    <3>1. PICK k \in LinkKinds, p \in {PhDb, Alt}, s \in {PhDb, Alt} :
            Begin(c, [kind |-> k, public |-> p, source |-> s], FirstStep(k), Found)
      BY <2>1 DEF LinkStart
    <3>2. k \in LinkTools
      BY LinkAssumption
    <3>3. pc'[c] = FirstStep(k) /\ req'[c].kind = k
      BY <3>1 DEF Begin, TypeInv, CallType
    <3> QED BY <3>2, <3>3 DEF FirstStep, LinkTools, Copiers
  <2>2. CASE ViewStart(c)
    <3>1. PICK k \in ViewKinds, n \in 1..3 :
            /\ k # "dropView" => n = 1
            /\ Begin(c, [kind |-> k, public |-> PhDb, source |-> PhDb],
                     CASE k = "objects" -> "lookTable" [] k = "dropView" -> "lookView"
                       [] k = "describe" -> "makeProbe", Found)
            /\ nth' = [nth EXCEPT ![c] = n]
      BY <2>2 DEF ViewStart
    <3>2. k \in ViewTools
      BY ViewAssumption
    <3>3. /\ pc'[c] = CASE k = "objects" -> "lookTable" [] k = "dropView" -> "lookView"
                        [] k = "describe" -> "makeProbe"
          /\ req'[c].kind = k /\ nth'[c] = n
      BY <3>1 DEF Begin, TypeInv, CallType, ViewType
    <3> QED BY <3>1, <3>2, <3>3 DEF ViewTools
  <2> QED BY <2>1, <2>2 DEF StartOf
<1>3. ResetAt(c)'
  BY <1>2 DEF ResetAt, RecreateSteps, ProbeSteps
<1>4. SurvivesAt(c)'
  <2>1. before'[c] = Found /\ PublicRows' = PublicRows
    BY <1>1 DEF Begins, TypeInv, CallType, database, PublicRows, Named
  <2>2. Found.exists => PublicRows # {}
    BY DEF Found
  <2> QED BY <2>1, <2>2 DEF SurvivesAt
<1>5. ProbeAt(c)'
  BY <1>2 DEF ProbeAt
<1>6. ObjectsAt(c)'
  <2>1. \A i \in 1..3 : ~(i < 1)
    OBVIOUS
  <2> QED BY <1>2, <2>1 DEF ObjectsAt, ProcSteps
<1> QED BY <1>3, <1>4, <1>5, <1>6

LEMMA AloneRun ==
  ASSUME TypeInv, NEW c \in Calls, Succeeds(c),
         ResetAt(c), SurvivesAt(c), ProbeAt(c), ObjectsAt(c)
  PROVE  (ResetAt(c) /\ SurvivesAt(c) /\ ProbeAt(c) /\ ObjectsAt(c))'
<1>1. ResetAt(c)'
  <2>1. CASE req[c].kind = "reset"
    BY <2>1, ResetRun
  <2>2. CASE req[c].kind # "reset"
    <3>1. Moves(c)
      BY LinkControl, ViewControl DEF Succeeds, RunOf, TypeInv
    <3> QED BY <2>2, <3>1 DEF ResetAt, Moves
  <2> QED BY <2>1, <2>2
<1> QED BY <1>1, SurvivesRun, ProbeRun, ObjectsRun

LEMMA AloneNext == TypeInv /\ AloneInv /\ [Next]_viewVars => AloneInv'
<1> SUFFICES ASSUME TypeInv, AloneInv, [Next]_viewVars, NEW c \in Calls, Alone(c)'
             PROVE  (ResetAt(c) /\ SurvivesAt(c) /\ ProbeAt(c) /\ ObjectsAt(c))'
  BY DEF AloneInv
<1>1. ASSUME NEW d \in Calls, StartOf(d) \/ RunOf(d)
      PROVE  (ResetAt(c) /\ SurvivesAt(c) /\ ProbeAt(c) /\ ObjectsAt(c))'
  <2>1. c = d /\ (StartOf(d) \/ (Succeeds(c) /\ Alone(c)))
    BY <1>1, AloneStep
  <2>2. CASE StartOf(c)
    BY <2>2, AloneStart
  <2>3. CASE Succeeds(c) /\ Alone(c)
    BY <2>3, AloneRun DEF AloneInv
  <2> QED BY <2>1, <2>2, <2>3
<1>2. CASE UNCHANGED viewVars
  <2> USE <1>2 DEF viewVars, linkVars, database, locals, calls, history, objects, viewLocals
  <2>1. Alone(c)
    BY DEF Alone, Open
  <2>2. PublicRows' = PublicRows /\ TransferRows' = TransferRows /\ ProcOf(c)' = ProcOf(c)
    BY DEF PublicRows, TransferRows, PrivateRows, Named, ProcOf
  <2>3. Closed(PublicRows)' = Closed(PublicRows) /\ Closed(TransferRows)' = Closed(TransferRows)
    BY <2>2 DEF Closed, Opens
  <2>4. (\E l \in PublicRows : Opens(l))' = (\E l \in PublicRows : Opens(l))
    BY <2>2 DEF Opens
  <2> QED BY <2>1, <2>2, <2>3, <2>4 DEF AloneInv, ResetAt, SurvivesAt, ProbeAt, ObjectsAt
<1> QED BY <1>1, <1>2, NextSteps DEF StartOf, RunOf

LEMMA AloneInit == Init => AloneInv
BY DEF Init, LinkInit, CallInit, AloneInv, Alone, Open, Ended

\* A call that ends undisturbed took the step, alone, and its statement succeeded.
LEMMA UndisturbedStep ==
  ASSUME TypeInv, AloneInv, [Next]_viewVars, NEW c \in Calls, Undisturbed(c)
  PROVE  /\ Succeeds(c) /\ Moves(c) /\ KindAt(c) /\ pc'[c] \in Ended
         /\ ResetAt(c) /\ SurvivesAt(c) /\ ProbeAt(c) /\ ObjectsAt(c)
<1>1. c \in Open /\ pc'[c] \in Ended /\ met[c] = {} /\ struck'[c] = "no"
  BY DEF Undisturbed, EndsAlone
<1>2. RunOf(c)
  BY <1>1, EndStep
<1>3. Moves(c) /\ KindAt(c)
  BY <1>2, LinkControl, ViewControl DEF RunOf, TypeInv
<1>4. struck[c] = "no"
  BY <1>1, <1>3 DEF Moves, TypeInv, CallType
<1> QED BY <1>1, <1>2, <1>3, <1>4 DEF Succeeds, AloneInv, Alone

\* The end of LinkSurvives.
LEMMA SurvivesEnds ==
  ASSUME TypeInv, AloneInv, [Next]_viewVars, NEW c \in Calls, Undisturbed(c),
         before[c].exists, PublicRows' = {}
  PROVE  req[c].kind = "recreate" /\ pc'[c] = "raised"
<1>0. /\ Succeeds(c) /\ Moves(c) /\ KindAt(c) /\ pc'[c] \in Ended /\ SurvivesAt(c)
  BY UndisturbedStep
<1>1. ~DropPublic(c)
  BY <1>0, GoMoves DEF DropPublic, At, TypeInv, Moves, Steps, LinkSteps, Ended
<1>2. DropFirst(c) => pc'[c] = "raised"
  BY <1>0, GoMoves DEF DropFirst, Raise, At, TypeInv, Moves, Steps, LinkSteps, Ended
<1>3. ~(pc[c] = "makePublic" /\ PublicRows = {})
  <2> SUFFICES ASSUME pc[c] = "makePublic", PublicRows = {} PROVE FALSE
    OBVIOUS
  <2>1. ~ViewStep(c)
    BY <1>0, ViewStepPc, NoStrike DEF Succeeds, ViewStep
  <2>2. MakePublic(c)
    BY <1>0, <2>1, StepPc, NoStrike DEF Succeeds, RunOf, LinkStep
  <2>3. LinkAs("PUBLIC", c) \in PublicRows'
    BY <2>2 DEF MakePublic, PublicRows, Named, LinkAs
  <2> QED BY <2>3
<1>4. CASE req[c].kind = "recreate" /\ req[c].public = PhDb
  <2>1. pc[c] \in {"dropFirst", "countPublic", "insert", "confirm"}
    BY <1>0, <1>4
       DEF KindAt, Moves, Steps, LinkSteps, ViewSteps, ProbeSteps, ProbeTools, RecreateSteps,
           AccountSteps, OwnerSteps, TableSteps, ProcSteps
  <2>2. ~ViewStep(c)
    BY <1>0, <2>1, ViewStepPc, NoStrike DEF Succeeds, ViewStep
  <2>3. DropFirst(c) \/ CountPublic(c) \/ InsertCopy(c) \/ Confirm(c)
    BY <1>0, <2>1, <2>2, StepPc, NoStrike DEF Succeeds, RunOf, LinkStep
  <2>4. CASE CountPublic(c) \/ InsertCopy(c)
    <3>1. pc[c] \in Steps /\ (Go(c, "insert") \/ Go(c, "confirm") \/ Go(c, "raised"))
      BY <2>4 DEF CountPublic, InsertCopy, Raise, At, Steps, LinkSteps
    <3>2. pc'[c] \in {"insert", "confirm", "raised"}
      BY <3>1, GoMoves DEF TypeInv, Steps, LinkSteps
    <3> QED BY <1>0, <1>4, <3>2 DEF Ended
  <2>5. CASE Confirm(c)
    <3>1. links' = links /\ Go(c, IF PublicRows = {} THEN "raised" ELSE "done")
      BY <1>4, <2>5 DEF Confirm, database, PublicRows
    <3>2. PublicRows = {}
      BY <3>1 DEF PublicRows, Named
    <3> QED BY <1>0, <1>4, <3>1, <3>2, GoMoves DEF Moves, TypeInv
  <2> QED BY <1>2, <1>4, <2>3, <2>4, <2>5
<1>5. CASE PublicRows # {} /\ ~(req[c].kind = "recreate" /\ req[c].public = PhDb)
  <2>1. DropFirst(c) => req[c].kind = "recreate"
    <3>1. DropFirst(c) => pc[c] = "dropFirst"
      BY DEF DropFirst, At
    <3> QED BY <1>0, <3>1 DEF KindAt
  <2> QED BY <1>0, <1>1, <1>5, <2>1, RowsKept DEF Succeeds
<1> QED BY <1>0, <1>3, <1>4, <1>5 DEF SurvivesAt

\* The end of PasswordMovesEverywhere.
LEMMA ResetEnds ==
  ASSUME TypeInv, AloneInv, [Next]_viewVars, NEW c \in Calls, Undisturbed(c),
         req[c].kind = "reset", pc'[c] = "done"
  PROVE  /\ ate' = [pass |-> c, locked |-> FALSE]
         /\ {l \in links' : l.name = PhDb} = {LinkAs("PUBLIC", c), LinkAs("TRANSFER_USER", c)}
<1>0. Succeeds(c) /\ Moves(c) /\ ResetAt(c)
  BY UndisturbedStep
<1>1. \A s \in Steps \cup {"done", "raised"} : Go(c, s) => pc'[c] = s
  BY <1>0, GoMoves DEF Moves, TypeInv
<1>2. RunRecreate(c) => Go(c, "dropRecreate") \/ Go(c, "dropAndRaise")
                        \/ Strike(c, "failed", "dropAndRaise")
  BY DEF RunRecreate
<1>3. ~RunRecreate(c)
  BY <1>0, <1>1, <1>2, NoStrike DEF Succeeds, Steps, LinkSteps
<1>4. DropProbe(c)
  BY <1>0, <1>1, <1>3, ResetSteps
     DEF SetPassword, DropPublic, MakePublic, MakeRecreate, DropRecreate, MakeProbe, ReadErrors,
         RunProbe, Raise, Steps, LinkSteps, At
<1>5. pc[c] = "dropProbe" /\ UNCHANGED <<links, ate>>
  BY <1>4 DEF DropProbe, At
<1> QED BY <1>0, <1>5 DEF ResetAt, ProbeSteps

\* The end of ProbeTellsTheTruth.
LEMMA ProbeEnds ==
  ASSUME TypeInv, AloneInv, [Next]_viewVars, NEW c \in Calls, Undisturbed(c),
         pc'[c] = "done", pc[c] \in {"dropProbe", "open"}, req[c].kind # "check"
  PROVE  IF ok'[c] THEN \E l \in PublicRows' : Opens(l)'
         ELSE PublicRows' = {} \/ \E l \in PublicRows' : ~Opens(l)'
<1>0. Succeeds(c) /\ Moves(c) /\ ProbeAt(c)
  BY UndisturbedStep
<1>1. ~ViewStep(c)
  BY <1>0, ViewStepPc, NoStrike DEF Succeeds, ViewStep
<1>2. OpenLink(c) \/ DropProbe(c)
  BY <1>0, <1>1, StepPc, NoStrike DEF Succeeds, RunOf, LinkStep
<1>3. CASE OpenLink(c)
  <2>1. PICK result \in BOOLEAN : Logon(PublicRows, result) /\ ok' = [ok EXCEPT ![c] = result]
    BY <1>3 DEF OpenLink
  <2>2. ok'[c] = result /\ dblink' = dblink /\ PublicRows' = PublicRows
    BY <1>3, <2>1 DEF OpenLink, TypeInv, LinkType, PublicRows, Named
  <2> QED BY <2>1, <2>2, LogonTruth DEF TypeInv
<1>4. CASE DropProbe(c)
  <2>1. pc[c] = "dropProbe" /\ UNCHANGED <<links, ate, dblink, ok>>
    BY <1>4 DEF DropProbe, At, locals
  <2>2. PublicRows' = PublicRows /\ \A l : Opens(l)' = Opens(l)
    BY <2>1 DEF PublicRows, Named, Opens
  <2> QED BY <1>0, <2>1, <2>2 DEF ProbeAt, Closed
<1> QED BY <1>2, <1>3, <1>4

\* The end of ObjectsCompleteOrLinkDown.
LEMMA ObjectsEnd ==
  ASSUME TypeInv, AloneInv, [Next]_viewVars, NEW c \in Calls, Undisturbed(c),
         req[c].kind = "objects"
  PROVE  IF pc'[c] = "done" THEN tables = ViewSet /\ index /\ mviews = ViewSet
                                 /\ created[c] = ViewSet \ found[c]
         ELSE TransferRows = {} \/ \E l \in TransferRows : ~Opens(l)
<1>0. Succeeds(c) /\ Moves(c) /\ KindAt(c) /\ ObjectsAt(c) /\ pc'[c] \in Ended
  BY UndisturbedStep
<1>1. \A s \in Steps \cup {"done", "raised"} : Go(c, s) => pc'[c] = s
  BY <1>0, GoMoves DEF Moves, TypeInv
<1>2. pc[c] \in ObjectSteps
  BY <1>0
     DEF KindAt, Moves, Steps, LinkSteps, ViewSteps, ProbeSteps, ProbeTools, RecreateSteps,
         AccountSteps, OwnerSteps, TableSteps, ProcSteps, Copiers, ObjectSteps
<1>3. ~LinkStep(c)
  BY <1>2, StepPc DEF LinkStep, LinkFails, ObjectSteps, TableSteps, ProcSteps, LinkSteps
<1>4. DropProc(c)
  <2> USE DEF Steps, ViewSteps, At, Ended
  <2>1. ~LookTable(c) /\ ~MakeTable(c)
    BY <1>0, <1>1 DEF LookTable, MakeTable, NextTable, ObjectsAt
  <2>2. ~LookIndex(c) /\ ~MakeIndex(c) /\ ~Before(c) /\ ~MakeProc(c) /\ ~After(c)
    BY <1>0, <1>1 DEF LookIndex, MakeIndex, Before, MakeProc, After, ObjectsAt
  <2>3. ~MakeView(c)
    BY <1>0, <1>1 DEF MakeView, NextView
  <2>4. ~LookView(c) /\ ~DropView(c) /\ ~ConfirmGone(c)
    BY <1>2, ViewStepPc DEF ObjectSteps, TableSteps, ProcSteps
  <2> QED BY <1>0, <1>3, <2>1, <2>2, <2>3, <2>4, NoStrike DEF Succeeds, RunOf, ViewStep
<1>5. CASE pc[c] = "dropProc"
  <2>1. proc[CreateProc].by # Absent
    BY <1>0, <1>5, LinkAssumption DEF ObjectsAt, ProcSteps
  <2>2. pc'[c] = "done"
    BY <1>1, <1>4, <1>5, <2>1 DEF DropProc, At
  <2> QED BY <1>0, <1>5, <2>2 DEF ObjectsAt, ProcSteps
<1>6. CASE pc[c] = "dropProcRaise"
  <2>1. pc'[c] = "raised"
    BY <1>1, <1>4, <1>6 DEF DropProc, At
  <2> QED BY <1>0, <1>6, <2>1 DEF ObjectsAt, Closed
<1> QED BY <1>4, <1>5, <1>6 DEF DropProc

\* What a call that ran alone has kept is a consequence of the types and of AloneInv.
LEMMA AloneInvariance == Spec => [](TypeInv /\ AloneInv)
<1>1. Init => TypeInv /\ AloneInv
  BY TypeInit, AloneInit
<1>2. TypeInv /\ AloneInv /\ [Next]_viewVars => (TypeInv /\ AloneInv)'
  BY TypeNext, AloneNext
<1> QED BY <1>1, <1>2, PTL DEF Spec

\* A call that ran alone without a failing statement does not lose the public link it
\* found, but for recreate, which then raises.
THEOREM LinksSurvive == Spec => LinkSurvives
<1>1. TypeInv /\ AloneInv /\ [Next]_viewVars =>
        [\A c \in Calls :
           Undisturbed(c) /\ before[c].exists /\ PublicRows' = {} =>
             req[c].kind = "recreate" /\ pc'[c] = "raised"]_linkVars
  BY SurvivesEnds
<1> QED BY <1>1, AloneInvariance, PTL DEF Spec, LinkSurvives

\* A reset that ran alone and returned moved the password in all three places.
THEOREM ResetsMovePasswords == Spec => PasswordMovesEverywhere
<1>1. TypeInv /\ AloneInv /\ [Next]_viewVars =>
        [\A c \in Calls :
           Undisturbed(c) /\ req[c].kind = "reset" /\ pc'[c] = "done" =>
             /\ ate' = [pass |-> c, locked |-> FALSE]
             /\ {l \in links' : l.name = PhDb}
                  = {LinkAs("PUBLIC", c), LinkAs("TRANSFER_USER", c)}]_linkVars
  BY ResetEnds
<1> QED BY <1>1, AloneInvariance, PTL DEF Spec, PasswordMovesEverywhere

\* A probe of a call that ran alone answers with what holds when the call ends.
THEOREM ProbesTellTheTruth == Spec => ProbeTellsTheTruth
<1>1. TypeInv /\ AloneInv /\ [Next]_viewVars =>
        [\A c \in Calls :
           Undisturbed(c) /\ pc'[c] = "done" /\ pc[c] \in {"dropProbe", "open"}
               /\ req[c].kind # "check" =>
             IF ok'[c] THEN \E l \in PublicRows' : Opens(l)'
             ELSE PublicRows' = {} \/ \E l \in PublicRows' : ~Opens(l)']_linkVars
  BY ProbeEnds
<1> QED BY <1>1, AloneInvariance, PTL DEF Spec, ProbeTellsTheTruth

\* A create_objects call that ran alone without a failing statement completes every
\* object, or PH_DB does not open.
THEOREM ObjectsAreCompleted == Spec => ObjectsCompleteOrLinkDown
<1>1. TypeInv /\ AloneInv /\ [Next]_viewVars =>
        [\A c \in Calls :
           Undisturbed(c) /\ req[c].kind = "objects" =>
             IF pc'[c] = "done" THEN tables = ViewSet /\ index /\ mviews = ViewSet
                                     /\ created[c] = ViewSet \ found[c]
             ELSE TransferRows = {} \/ \E l \in TransferRows : ~Opens(l)]_viewVars
  BY ObjectsEnd
<1> QED BY <1>1, AloneInvariance, PTL DEF Spec, ObjectsCompleteOrLinkDown

=============================================================================
