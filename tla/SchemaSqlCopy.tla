---------------------------- MODULE SchemaSqlCopy ----------------------------
(***************************************************************************)
(* schema_sql_copy.copy_schema: creates one schema on the target from      *)
(* DBMS_METADATA and copies its rows.  Every statement on the target       *)
(* commits.  A statement about one object that raises is noted and the     *)
(* call goes on; a call that fails or dies half-way is repeated with       *)
(* resume=True.  Calls of several clients may run at once.                 *)
(***************************************************************************)
EXTENDS Integers, FiniteSets

CONSTANTS
  Calls,
  Schema,      \* the schema that all calls copy
  Roles,       \* those of CONNECT and RESOURCE that the target has
  Tables,      \* tables of the source schema that are not temporary
  Code,        \* its views, functions and packages
  Refs,        \* its foreign keys
  ParentOf,    \* ParentOf[f]: the table whose key f refers to
  Triggers,
  Grants,      \* its object grants to users that the target has
  MaxRows      \* bound on the rows of a table

Requests == [confirmed : BOOLEAN, resume : BOOLEAN]
Objects == Tables \cup Code \cup Refs \cup Triggers
Rows == 1..MaxRows      \* row i of a source table, in order of arrival

ASSUME SqlCopyAssumption ==
  /\ IsFiniteSet(Calls) /\ MaxRows \in Nat
  /\ ParentOf \in [Refs -> Tables] /\ Schema \notin Objects
  \* An object is of one type.
  /\ Tables \cap (Code \cup Refs \cup Triggers) = {}
  /\ Code \cap (Refs \cup Triggers) = {} /\ Refs \cap Triggers = {}

VARIABLES
  asked, pc, answer,
  todo,      \* todo[c]: what the current loop has not reached
  cur,       \* cur[c]: the table being created or filled
  count,     \* count[c]: source_count
  failed,    \* failed[c]: failed_tables
  errs,      \* errs[c]: errors is not empty
  srcRows,   \* srcRows[t]: number of rows on the source
  present,   \* {Schema} when the target has the user
  roles,     \* roles granted to it
  have,      \* its objects
  keyed,     \* its tables that have their primary key
  valid,     \* its code and triggers with status VALID
  rows,      \* rows[t][i]: how many copies of source row i its table t holds
  granted,
  free, touched,  \* as in SchemaCopy (histories)
  made,      \* calls that created the user (history)
  base,      \* srcRows when the user was created (history)
  fired,     \* triggers that fired on copied rows, with the call (history)
  met        \* met[c]: calls that were open together with c (history)

callVars == <<asked, pc, answer, todo, cur, count, failed, errs>>
targetVars == <<present, roles, have, keyed, valid, rows, granted>>
history == <<free, touched, made, base, fired, met>>
vars == <<callVars, srcRows, targetVars, history>>

Open == {c \in Calls : pc[c] \notin {"idle", "end"}}
None == "none"

Init ==
  /\ asked \in [Calls -> Requests]
  /\ pc = [c \in Calls |-> "idle"] /\ answer = [c \in Calls |-> "none"]
  /\ todo = [c \in Calls |-> {}] /\ cur = [c \in Calls |-> None]
  /\ count = [c \in Calls |-> 0]
  /\ failed = [c \in Calls |-> {}] /\ errs = [c \in Calls |-> FALSE]
  /\ srcRows \in [Tables -> 0..MaxRows]
  /\ present = {} /\ roles = {} /\ have = {} /\ keyed = {} /\ valid = {}
  /\ rows = [t \in Tables |-> [i \in Rows |-> 0]]
  /\ granted = {}
  /\ free = [c \in Calls |-> {}] /\ touched = [c \in Calls |-> {}]
  /\ made = {} /\ fired = {}
  /\ base = [t \in Tables |-> 0]
  /\ met = [c \in Calls |-> {}]

Total(t) == Cardinality({x \in Rows \X (1..Cardinality(Calls)) : x[2] <= rows[t][x[1]]})

-----------------------------------------------------------------------------
Goto(c, here, there) == pc[c] = here /\ pc' = [pc EXCEPT ![c] = there]
\* The locals of call c go with it.
Leave(c, value) ==
  /\ pc' = [pc EXCEPT ![c] = "end"] /\ answer' = [answer EXCEPT ![c] = value]
  /\ todo' = [todo EXCEPT ![c] = {}] /\ cur' = [cur EXCEPT ![c] = None]
  /\ count' = [count EXCEPT ![c] = 0]
  /\ failed' = [failed EXCEPT ![c] = {}] /\ errs' = [errs EXCEPT ![c] = FALSE]
Note(c, error) == errs' = [errs EXCEPT ![c] = @ \/ error]
Touches(c) == touched' = [touched EXCEPT ![c] = {Schema}]
\* The loop of call c reaches x, or begins with a new list.
Reach(c, x) == x \in todo[c] /\ todo' = [todo EXCEPT ![c] = @ \ {x}]
Refill(c, list) == todo' = [todo EXCEPT ![c] = list]

(* The source is in use. *)
SourceGrows(t) ==
  /\ srcRows[t] < MaxRows
  /\ srcRows' = [srcRows EXCEPT ![t] = @ + 1]
  /\ UNCHANGED <<callVars, targetVars, history>>

(* Somebody creates the user on the target by hand. *)
OthersCreate ==
  /\ present = {} /\ present' = {Schema}
  /\ UNCHANGED <<callVars, srcRows, roles, have, keyed, valid, rows, granted, history>>

Start(c) ==
  /\ Goto(c, "idle", "source")
  /\ met' = [d \in Calls |-> IF d = c THEN Open
                             ELSE IF d \in Open THEN met[d] \cup {c} ELSE met[d]]
  /\ UNCHANGED <<asked, answer, todo, cur, count, failed, errs, srcRows, targetVars,
                 free, touched, made, base, fired>>

(* The schema is on the source. *)
CheckSource(c) ==
  /\ Goto(c, "source", "already")
  /\ UNCHANGED <<asked, answer, todo, cur, count, failed, errs, srcRows, targetVars, history>>

\* Fault: an existing schema is filled without being asked to.
CheckTargetUnasked(c) ==
  /\ asked[c].confirmed
  /\ Goto(c, "already", IF present # {} THEN "list" ELSE "user")
  /\ UNCHANGED <<asked, answer, todo, cur, count, failed, errs, srcRows, targetVars, history>>
CheckTarget(c) ==
  LET already == present # {} IN
  /\ pc[c] = "already"
  /\ IF already /\ ~asked[c].resume THEN Leave(c, "stopped")
     ELSE IF ~asked[c].confirmed THEN Leave(c, "not_confirmed")
     ELSE /\ Goto(c, "already", IF already THEN "list" ELSE "user")
          /\ UNCHANGED <<answer, todo, cur, count, failed, errs>>
  /\ free' = [free EXCEPT ![c] = IF pc'[c] = "user" THEN {Schema} ELSE {}]
  /\ UNCHANGED <<asked, srcRows, targetVars, touched, made, base, fired, met>>

(* Raises when the user has been created meanwhile. *)
CreateUser(c) ==
  /\ present = {} /\ Goto(c, "user", "roles")
  /\ present' = {Schema} /\ Touches(c) /\ made' = made \cup {c}
  /\ base' = srcRows /\ Refill(c, Roles)
  /\ UNCHANGED <<asked, answer, cur, count, failed, errs, srcRows, roles, have, keyed, valid,
                 rows, granted, free, fired, met>>

GrantRole(c, r) ==
  /\ pc[c] = "roles" /\ Reach(c, r)
  /\ roles' = roles \cup {r}
  /\ UNCHANGED <<asked, pc, answer, cur, count, failed, errs, srcRows, present, have, keyed, valid,
                 rows, granted, history>>

(* Objects, constraint indexes and temporary tables of the source. *)
ListObjects(c) ==
  /\ \/ todo[c] = {} /\ Goto(c, "roles", "create")
     \/ Goto(c, "list", "create")
  /\ Refill(c, Tables \cup Code)
  /\ UNCHANGED <<asked, answer, cur, count, failed, errs, srcRows, targetVars, history>>

\* Fault: the error is not added to the list.
NotCreatedSilently(c, o) ==
  errs' = errs /\ failed' = IF o \in Tables THEN [failed EXCEPT ![c] = @ \cup {o}] ELSE failed
(* The statement that creates o raised. *)
NotCreated(c, o) ==
  /\ Note(c, TRUE)
  /\ failed' = IF o \in Tables THEN [failed EXCEPT ![c] = @ \cup {o}] ELSE failed

\* Between the question whether o is there and the statement that creates it,
\* another call may create it.
Missing(c, o) == o \notin have \/ Open # {c}

(* A table that exists is skipped, whatever it lacks. *)
CreateTable(c, t) ==
  /\ t \in Tables /\ Reach(c, t)
  /\ \/ /\ t \in have /\ Goto(c, "create", "create")
        /\ UNCHANGED <<cur, failed, errs, have, touched>>
     \/ /\ t \notin have /\ Goto(c, "create", "key")
        /\ cur' = [cur EXCEPT ![c] = t]
        /\ have' = have \cup {t} /\ Touches(c)
        /\ UNCHANGED <<failed, errs>>
     \/ /\ Missing(c, t) /\ Goto(c, "create", "create") /\ NotCreated(c, t)
        /\ UNCHANGED <<cur, have, touched>>
  /\ UNCHANGED <<asked, answer, count, srcRows, present, roles, keyed, valid, rows, granted,
                 free, made, base, fired, met>>

Unique(t) == \A i \in Rows : rows[t][i] <= 1

(* The statements that follow the create table, its primary key with them. *)
AddKey(c) ==
  /\ Goto(c, "key", "create")
  /\ \/ Unique(cur[c]) /\ keyed' = keyed \cup {cur[c]} /\ Note(c, FALSE)
     \/ keyed' = keyed /\ Note(c, TRUE)
  /\ cur' = [cur EXCEPT ![c] = None]
  /\ UNCHANGED <<asked, answer, todo, count, failed, srcRows, present, roles, have, valid,
                 rows, granted, history>>

(* Code and triggers are created anew unless they are there and valid. *)
CreateCode(c, o) ==
  /\ \/ pc[c] = "create" /\ o \in Code /\ todo[c] \cap Tables = {}
     \/ pc[c] = "triggers"
  /\ Reach(c, o)
  /\ \/ o \in have \cap valid /\ UNCHANGED <<have, valid, failed, errs, touched>>
     \/ /\ o \notin have \cap valid
        /\ have' = have \cup {o} /\ valid' \in {valid \cup {o}, valid \ {o}}
        /\ Touches(c) /\ Note(c, FALSE) /\ failed' = failed
     \/ o \notin have \cap valid /\ NotCreated(c, o) /\ UNCHANGED <<have, valid, touched>>
  /\ UNCHANGED <<asked, pc, answer, cur, count, srcRows, present, roles, keyed, rows, granted,
                 free, made, base, fired, met>>

\* Fault: a table that holds some of its rows is filled again.
RefillRows(c, t) ==
  /\ Reach(c, t)
  /\ count' = [count EXCEPT ![c] = srcRows[t]]
  /\ IF Total(t) = srcRows[t] THEN Goto(c, "rows", "rows") /\ cur' = cur
                              ELSE Goto(c, "rows", "copy") /\ cur' = [cur EXCEPT ![c] = t]
  /\ UNCHANGED <<asked, answer, failed, errs, srcRows, targetVars, history>>
(* Both tables are counted; only an empty one is filled. *)
CompareRows(c, t) ==
  /\ Reach(c, t)
  /\ \/ /\ Total(t) = 0 /\ srcRows[t] # 0 /\ Goto(c, "rows", "copy") /\ Note(c, FALSE)
        /\ cur' = [cur EXCEPT ![c] = t] /\ count' = [count EXCEPT ![c] = srcRows[t]]
     \/ /\ \E error \in BOOLEAN : (Total(t) # srcRows[t] => error) /\ Note(c, error)
        /\ Goto(c, "rows", "rows") /\ UNCHANGED <<cur, count>>
  /\ UNCHANGED <<asked, answer, failed, srcRows, targetVars, history>>

NextTable(c) == cur' = [cur EXCEPT ![c] = None] /\ count' = [count EXCEPT ![c] = 0]

(* One batch, one commit. *)
CopyRows(c) ==
  LET t == cur[c] IN
  /\ \/ /\ t \in keyed => \A i \in 1..srcRows[t] : rows[t][i] = 0
        /\ rows' = [rows EXCEPT ![t] = [i \in Rows |-> IF i <= srcRows[t] THEN @[i] + 1 ELSE @[i]]]
        /\ fired' = fired \cup ({c} \X (Triggers \cap have))
        /\ Goto(c, "copy", "recount") /\ Note(c, FALSE) /\ UNCHANGED <<cur, count>>
     \/ Goto(c, "copy", "rows") /\ Note(c, TRUE) /\ NextTable(c) /\ UNCHANGED <<rows, fired>>
  /\ Touches(c)
  /\ UNCHANGED <<asked, answer, todo, failed, srcRows, present, roles, have, keyed, valid,
                 granted, free, made, base, met>>

Recount(c) ==
  /\ Goto(c, "recount", "rows")
  /\ \E error \in BOOLEAN : (Total(cur[c]) # count[c] => error) /\ Note(c, error)
  /\ NextTable(c)
  /\ UNCHANGED <<asked, answer, todo, failed, srcRows, targetVars, history>>

(* A foreign key needs the key of its parent. *)
CreateRef(c, f) ==
  /\ pc[c] = "refs" /\ Reach(c, f)
  /\ \/ f \in have /\ UNCHANGED <<have, errs, touched>>
     \/ f \notin have /\ ParentOf[f] \in keyed /\ have' = have \cup {f} /\ Touches(c) /\ Note(c, FALSE)
     \/ Missing(c, f) /\ Note(c, TRUE) /\ UNCHANGED <<have, touched>>
  /\ UNCHANGED <<asked, pc, answer, cur, count, failed, srcRows, present, roles, keyed, valid, rows,
                 granted, free, made, base, fired, met>>

\* Grants has those with simple names: the code passes over the others without a word.
Grant(c, g) ==
  /\ pc[c] = "grants" /\ Reach(c, g)
  /\ \/ granted' = granted \cup {g} /\ Note(c, FALSE) /\ Touches(c)
     \/ Note(c, TRUE) /\ UNCHANGED <<granted, touched>>
  /\ UNCHANGED <<asked, pc, answer, cur, count, failed, srcRows, present, roles, have, keyed, valid,
                 rows, free, made, base, fired, met>>

(* Rows before foreign keys, and triggers after both. *)
NextLoop(c) ==
  /\ todo[c] = {}
  /\ \/ Goto(c, "create", "rows") /\ Refill(c, Tables \ failed[c])
     \/ Goto(c, "rows", "refs") /\ Refill(c, Refs)
     \/ Goto(c, "refs", "triggers") /\ Refill(c, Triggers)
     \/ Goto(c, "triggers", "grants") /\ Refill(c, Grants)
  /\ UNCHANGED <<asked, answer, cur, count, failed, errs, srcRows, targetVars, history>>

Answer(c) ==
  /\ pc[c] = "grants" /\ todo[c] = {}
  /\ Leave(c, IF errs[c] THEN "copied_with_errors" ELSE "copied")
  /\ UNCHANGED <<asked, srcRows, targetVars, history>>

(* A statement outside the try blocks raises, or the process dies. *)
Raise(c) ==
  /\ c \in Open
  /\ Leave(c, "raised")
  /\ UNCHANGED <<asked, srcRows, targetVars, history>>

Step(c) ==
  \/ Start(c) \/ CheckSource(c) \/ CheckTarget(c) \/ CreateUser(c)
  \/ \E r \in Roles : GrantRole(c, r)
  \/ ListObjects(c) \/ AddKey(c) \/ CopyRows(c) \/ Recount(c)
  \/ \E t \in Tables : CreateTable(c, t) \/ CompareRows(c, t)
  \/ \E o \in Code \cup Triggers : CreateCode(c, o)
  \/ \E f \in Refs : CreateRef(c, f)
  \/ \E g \in Grants : Grant(c, g)
  \/ NextLoop(c) \/ Answer(c) \/ Raise(c)

Next ==
  \/ \E c \in Calls : Step(c)
  \/ \E t \in Tables : SourceGrows(t)
  \/ OthersCreate

Spec == Init /\ [][Next]_vars

-----------------------------------------------------------------------------
(* Properties. *)

\* A schema that is whole: every object, key, role and grant, and once each
\* row that the source held when the user was created.
Whole ==
  /\ Objects \subseteq have /\ Tables \subseteq keyed
  /\ roles = Roles /\ granted = Grants
  /\ \A t \in Tables : \A i \in 1..base[t] : rows[t][i] = 1

\* The call that created the user and answers "copied" has made the schema
\* whole, whatever statement failed on the way: no failure goes unnoted.  The
\* rows it copied fired no trigger of the schema.
FreshCopyIsWhole ==
  \A c \in made : answer[c] = "copied" /\ met[c] = {} =>
    Whole /\ \A x \in fired : x[1] # c

\* A row is copied twice only when two calls overlap, of which one resumes: a
\* resumed call that is alone leaves tables with rows as they are.
RowTwiceOnlyByOverlap ==
  \A t \in Tables, i \in Rows : rows[t][i] > 1 =>
    \E c \in Calls : \E d \in met[c] : asked[d].resume

\* Docstring of copy_saved_schema_without_datapump: resume=true creates what is
\* still missing.  So a resumed call that had the target to itself and answers
\* "copied" leaves every object and every primary key.
ResumeCreatesTheMissing ==
  \A c \in Calls : answer[c] = "copied" /\ asked[c].resume /\ met[c] = {} =>
    Objects \subseteq have /\ Tables \subseteq keyed

\* The requests and answers of the calls as SchemaCopy has them.
AnswerOf(a) ==
  CASE a \in {"stopped", "not_confirmed"} -> "declined"
    [] a \in {"copied", "copied_with_errors"} -> "copied"
    [] OTHER -> a
promiseAsked == [c \in Calls |-> [names |-> {Schema}, confirmed |-> asked[c].confirmed,
                                  resume |-> asked[c].resume]]
promiseAnswer == [c \in Calls |-> AnswerOf(answer[c])]
Promise == INSTANCE SchemaCopy WITH
  Schemas <- {Schema}, asked <- promiseAsked, answer <- promiseAnswer

\* The calls implement the promise of the tools to the target.
ImplementsPromise == Promise!Spec

=============================================================================
