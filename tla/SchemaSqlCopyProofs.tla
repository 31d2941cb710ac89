------------------------ MODULE SchemaSqlCopyProofs -------------------------
(***************************************************************************)
(* Proofs about SchemaSqlCopy for every set of calls, tables, code, keys,  *)
(* triggers, grants and roles: that it implements SchemaCopy (the          *)
(* invariant says of a call only what the promise speaks of; a step that   *)
(* works on the schema is at most one change on behalf of an entitled      *)
(* call), that no row is copied twice by calls that do not overlap, and    *)
(* that the copy of a call that was alone and noted no error is whole.     *)
(***************************************************************************)
EXTENDS SchemaSqlCopy, FiniteSetTheorems, TLAPS

Early == {"idle", "source", "already"}
\* The call works on a schema that it has created or was asked to resume.
Working == {"list", "roles", "create", "key", "rows", "copy", "recount", "refs", "triggers", "grants"}
Steps == Early \cup {"user", "end"} \cup Working
Answers == {"none", "raised", "stopped", "not_confirmed", "copied", "copied_with_errors"}

CopyType ==
  /\ asked \in [Calls -> Requests]
  /\ pc \in [Calls -> Steps] /\ answer \in [Calls -> Answers]
  /\ present \in SUBSET {Schema}
  /\ free \in [Calls -> SUBSET {Schema}] /\ touched \in [Calls -> SUBSET {Schema}]

CallInv(c) ==
  /\ pc[c] # "end" => answer[c] = "none"
  /\ pc[c] \in Early => free[c] = {} /\ touched[c] = {}
  /\ pc[c] \in Working \cup {"user"} => asked[c].confirmed /\ (asked[c].resume \/ free[c] = {Schema})
  /\ pc[c] \in Working => present = {Schema} /\ (asked[c].resume \/ touched[c] # {})

CopyInv == CopyType /\ \A c \in Calls : CallInv(c)

-----------------------------------------------------------------------------
\* The first states of the calls are those of the promise.
LEMMA CopyInitInv == Init => CopyInv /\ Promise!Init
<1> SUFFICES ASSUME Init PROVE CopyInv /\ Promise!Init
  OBVIOUS
<1>1. CopyInv
  BY DEF Init, CopyInv, CopyType, CallInv, Steps, Early, Working, Answers
<1>2. promiseAsked \in [Calls -> Promise!Requests]
  BY DEF Init, promiseAsked, Requests, Promise!Requests
<1>3. promiseAnswer = [c \in Calls |-> "none"]
  BY DEF Init, promiseAnswer, AnswerOf
<1> QED BY <1>1, <1>2, <1>3 DEF Init, Promise!Init

\* A step of one call keeps what the invariant says of the others.
LEMMA OneCall ==
  ASSUME CopyInv, NEW c \in Calls, asked' = asked, present' \in {present, {Schema}},
         NEW s \in Steps, pc' = [pc EXCEPT ![c] = s],
         NEW a \in Answers, answer' = [answer EXCEPT ![c] = a],
         NEW f \in SUBSET {Schema}, free' = [free EXCEPT ![c] = f],
         NEW t \in SUBSET {Schema}, touched' = [touched EXCEPT ![c] = t],
         CallInv(c)'
  PROVE  CopyInv'
<1>1. CopyType'
  BY DEF CopyInv, CopyType
<1>2. ASSUME NEW d \in Calls, d # c PROVE CallInv(d)'
  BY <1>2 DEF CopyInv, CopyType, CallInv
<1> QED BY <1>1, <1>2 DEF CopyInv

\* A step that changes nothing the promise speaks of stutters.
LEMMA Stutters ==
  ASSUME UNCHANGED <<asked, present, free, touched, answer>> PROVE UNCHANGED Promise!absVars
BY DEF Promise!absVars, promiseAsked, promiseAnswer

\* A call that works changes the schema or not, and goes on working.
LEMMA Works ==
  ASSUME CopyInv, NEW c \in Calls, pc[c] \in Working, NEW s \in Working, pc' = [pc EXCEPT ![c] = s],
         UNCHANGED <<asked, answer, free, present>>, touched' = touched \/ Touches(c)
  PROVE  CopyInv' /\ [Promise!Next]_(Promise!absVars)
<1>1. CallInv(c) /\ asked[c].confirmed /\ (asked[c].resume \/ free[c] = {Schema}) /\ present = {Schema}
      /\ answer[c] = "none" /\ s # "end" /\ s \notin Early
  BY DEF CopyInv, CallInv, Working, Early
<1>2. CopyInv'
  <2>1. PICK t \in SUBSET {Schema} : touched' = [touched EXCEPT ![c] = t] /\ (t = touched[c] \/ t = {Schema})
    <3>1. CASE touched' = touched
      <4>1. touched = [touched EXCEPT ![c] = touched[c]] /\ touched[c] \in SUBSET {Schema}
        BY DEF CopyInv, CopyType
      <4> QED BY <3>1, <4>1
    <3>2. CASE Touches(c)
      BY <3>2 DEF Touches
    <3> QED BY <3>1, <3>2
  <2>2. /\ answer' = [answer EXCEPT ![c] = answer[c]] /\ answer[c] \in Answers
        /\ free' = [free EXCEPT ![c] = free[c]] /\ free[c] \in SUBSET {Schema}
    BY DEF CopyInv, CopyType
  <2>3. CallInv(c)'
    <3>1. pc'[c] = s /\ touched'[c] = t /\ (asked[c].resume \/ touched[c] # {})
      BY <2>1 DEF CopyInv, CopyType, CallInv
    <3> QED BY <1>1, <2>1, <3>1 DEF CopyInv, CopyType, CallInv
  <2>4. s \in Steps /\ present' = present /\ asked' = asked
    BY DEF Steps
  <2> QED BY <2>1, <2>2, <2>3, <2>4, OneCall
<1>3. CASE touched' = touched
  BY <1>2, <1>3, Stutters
<1>4. CASE Touches(c)
  <2>1. Promise!Entitled(c) /\ promiseAsked[c].names = {Schema} /\ promiseAnswer[c] = "none"
    BY <1>1 DEF Promise!Entitled, promiseAsked, promiseAnswer, AnswerOf
  <2>2. {Schema} \in SUBSET UNION {promiseAsked[d].names : d \in {e \in Calls : Promise!Entitled(e)}}
    BY <2>1
  <2>3. touched' = [touched EXCEPT ![c] = @ \cup {Schema}] /\ present' = present \cup {Schema}
    BY <1>1, <1>4 DEF Touches, CopyInv, CopyType
  <2>4. UNCHANGED <<promiseAsked, free, promiseAnswer>>
    BY DEF promiseAsked, promiseAnswer
  <2> QED BY <1>2, <2>1, <2>2, <2>3, <2>4 DEF Promise!Next, Promise!Touch
<1> QED BY <1>2, <1>3, <1>4

\* A call that answers ends the call of the promise.
LEMMA AnswerEnds ==
  ASSUME CopyInv, NEW c \in Calls, NEW a \in Answers \ {"none"}, Leave(c, a), pc[c] # "end",
         UNCHANGED <<asked, free, touched, present>>,
         \/ a = "raised"
         \/ a \in {"stopped", "not_confirmed"} /\ pc[c] \in Early
         \/ a \in {"copied", "copied_with_errors"} /\ pc[c] \in Working
  PROVE  CopyInv' /\ [Promise!Next]_(Promise!absVars)
<1>1. /\ CallInv(c) /\ answer[c] = "none" /\ asked' = asked /\ present' = present
      /\ pc' = [pc EXCEPT ![c] = "end"] /\ answer' = [answer EXCEPT ![c] = a]
      /\ free' = [free EXCEPT ![c] = free[c]] /\ free[c] \in SUBSET {Schema}
      /\ touched' = [touched EXCEPT ![c] = touched[c]] /\ touched[c] \in SUBSET {Schema}
  BY DEF Leave, CopyInv, CopyType, CallInv
<1>2. CallInv(c)' /\ "end" \in Steps
  BY <1>1 DEF CopyInv, CopyType, CallInv, Steps, Early, Working
<1>3. CopyInv'
  BY <1>1, <1>2, OneCall
<1>4. promiseAnswer[c] = "none" /\ promiseAnswer' = [promiseAnswer EXCEPT ![c] = AnswerOf(a)]
  BY <1>1 DEF promiseAnswer, AnswerOf, CopyInv, CopyType
<1>5. \/ AnswerOf(a) = "raised"
      \/ AnswerOf(a) = "declined" /\ touched[c] = {}
      \/ AnswerOf(a) = "copied" /\ Promise!Entitled(c) /\ (promiseAsked[c].resume \/ touched[c] # {})
  BY <1>1 DEF AnswerOf, CallInv, Promise!Entitled, promiseAsked
<1>6. UNCHANGED promiseAsked
  BY <1>1 DEF promiseAsked
<1>7. Promise!Finish(c)
  BY <1>4, <1>5, <1>6 DEF Promise!Finish
<1> QED BY <1>3, <1>7 DEF Promise!Next

\* Every step of a call keeps the invariant, and is a step of the promise.
LEMMA StepImplements ==
  ASSUME CopyInv, NEW c \in Calls, Step(c) PROVE CopyInv' /\ [Promise!Next]_(Promise!absVars)
<1> USE DEF Goto, callVars, targetVars, history
<1>0. /\ CallInv(c) /\ pc[c] \in Steps /\ pc = [pc EXCEPT ![c] = pc[c]] /\ answer[c] \in Answers
      /\ free[c] \in SUBSET {Schema} /\ touched[c] \in SUBSET {Schema} /\ present \in SUBSET {Schema}
      /\ answer = [answer EXCEPT ![c] = answer[c]] /\ free = [free EXCEPT ![c] = free[c]]
      /\ touched = [touched EXCEPT ![c] = touched[c]]
  BY DEF CopyInv, CopyType
<1>1. CASE Start(c) \/ CheckSource(c)
  <2>1. /\ \E s \in Early : pc' = [pc EXCEPT ![c] = s]
        /\ UNCHANGED <<asked, present, free, touched, answer>> /\ pc[c] \in Early
    BY <1>1 DEF Start, CheckSource, Early
  <2>2. CallInv(c)'
    BY <2>1, <1>0 DEF CallInv, Early, Working, CopyInv, CopyType
  <2> QED BY <2>1, <2>2, <1>0, OneCall, Stutters DEF Steps
<1>2. CASE CheckTarget(c)
  <2>1. CASE present # {} /\ ~asked[c].resume
    <3>1. Leave(c, "stopped") /\ UNCHANGED <<asked, present, touched>> /\ pc[c] = "already"
      BY <1>2, <2>1 DEF CheckTarget
    <3>2. free' = free
      <4>1. pc'[c] # "user" /\ free[c] = {}
        BY <3>1, <1>0 DEF Leave, CallInv, Early, CopyInv, CopyType
      <4>2. free' = [free EXCEPT ![c] = {}]
        BY <4>1, <1>2 DEF CheckTarget
      <4> QED BY <4>1, <4>2, <1>0
    <3> QED BY <3>1, <3>2, AnswerEnds DEF Answers, Early
  <2>2. CASE ~(present # {} /\ ~asked[c].resume) /\ ~asked[c].confirmed
    <3>1. Leave(c, "not_confirmed") /\ UNCHANGED <<asked, present, touched>> /\ pc[c] = "already"
      BY <1>2, <2>2 DEF CheckTarget
    <3>2. free' = free
      <4>1. pc'[c] # "user" /\ free[c] = {}
        BY <3>1, <1>0 DEF Leave, CallInv, Early, CopyInv, CopyType
      <4>2. free' = [free EXCEPT ![c] = {}]
        BY <4>1, <1>2 DEF CheckTarget
      <4> QED BY <4>1, <4>2, <1>0
    <3> QED BY <3>1, <3>2, AnswerEnds DEF Answers, Early
  <2>3. CASE ~(present # {} /\ ~asked[c].resume) /\ asked[c].confirmed /\ present # {}
    <3>1. pc' = [pc EXCEPT ![c] = "list"] /\ UNCHANGED <<asked, present, touched, answer>>
          /\ pc[c] = "already" /\ present = {Schema} /\ asked[c].resume
      BY <1>0, <1>2, <2>3 DEF CheckTarget
    <3>2. free' = free
      BY <3>1, <1>0, <1>2 DEF CheckTarget, CallInv, Early
    <3>3. CallInv(c)'
      BY <3>1, <3>2, <2>3, <1>0 DEF CallInv, Early, Working
    <3> QED BY <3>1, <3>2, <3>3, <1>0, OneCall, Stutters DEF Steps, Working
  <2>4. CASE present = {} /\ asked[c].confirmed
    <3>1. pc' = [pc EXCEPT ![c] = "user"] /\ UNCHANGED <<asked, present, touched, answer>>
          /\ pc[c] = "already"
      BY <1>2, <2>4 DEF CheckTarget
    <3>2. free' = [free EXCEPT ![c] = {Schema}] /\ free[c] = {} /\ answer[c] = "none"
      <4>1. pc'[c] = "user" /\ free[c] = {} /\ answer[c] = "none"
        BY <3>1, <1>0 DEF CallInv, Early, CopyInv, CopyType
      <4>2. free' = [free EXCEPT ![c] = {Schema}]
        BY <4>1, <1>2 DEF CheckTarget
      <4> QED BY <4>1, <4>2
    <3>3. CallInv(c)'
      BY <3>1, <3>2, <2>4, <1>0 DEF CallInv, Early, Working, CopyInv, CopyType
    <3>4. CopyInv'
      BY <3>1, <3>2, <3>3, <1>0, OneCall DEF Steps
    <3>5. Schema \in promiseAsked[c].names \ present /\ promiseAnswer[c] = "none"
          /\ UNCHANGED <<promiseAsked, promiseAnswer>>
      BY <2>4, <3>1, <3>2 DEF promiseAsked, promiseAnswer, AnswerOf
    <3>6. free' = [free EXCEPT ![c] = @ \cup {Schema}]
      BY <3>2, <1>0
    <3>7. Promise!See(c, Schema)
      BY <3>1, <3>5, <3>6 DEF Promise!See
    <3> QED BY <3>4, <3>7 DEF Promise!Next
  <2> QED BY <2>1, <2>2, <2>3, <2>4
<1>3. CASE CreateUser(c)
  <2>1. /\ pc[c] = "user" /\ pc' = [pc EXCEPT ![c] = "roles"] /\ present' = {Schema} /\ present = {}
        /\ touched' = [touched EXCEPT ![c] = {Schema}] /\ UNCHANGED <<asked, answer, free>>
    BY <1>3 DEF CreateUser, Touches
  <2>2. asked[c].confirmed /\ (asked[c].resume \/ free[c] = {Schema}) /\ answer[c] = "none"
    BY <2>1, <1>0 DEF CallInv
  <2>3. CallInv(c)'
    BY <2>1, <2>2, <1>0 DEF CallInv, Early, Working, CopyInv, CopyType
  <2>4. CopyInv'
    BY <2>1, <2>3, <1>0, OneCall DEF Steps, Working
  <2>5. Promise!Entitled(c) /\ promiseAsked[c].names = {Schema} /\ promiseAnswer[c] = "none"
        /\ UNCHANGED <<promiseAsked, promiseAnswer>>
    BY <2>1, <2>2 DEF Promise!Entitled, promiseAsked, promiseAnswer, AnswerOf
  <2>6. {Schema} \in SUBSET UNION {promiseAsked[d].names : d \in {e \in Calls : Promise!Entitled(e)}}
    BY <2>5
  <2>7. touched' = [touched EXCEPT ![c] = @ \cup {Schema}] /\ present' = present \cup {Schema}
    BY <2>1, <1>0
  <2>8. Promise!Touch(c)
    BY <2>1, <2>5, <2>6, <2>7 DEF Promise!Touch
  <2> QED BY <2>4, <2>8 DEF Promise!Next
<1>4. CASE \/ \E r \in Roles : GrantRole(c, r)
           \/ \E o \in Code \cup Triggers : CreateCode(c, o)
           \/ \E f \in Refs : CreateRef(c, f)
           \/ \E g \in Grants : Grant(c, g)
  <2>1. /\ pc[c] \in Working /\ pc' = pc /\ UNCHANGED <<asked, answer, free, present>>
        /\ touched' = touched \/ Touches(c)
    BY <1>4 DEF GrantRole, CreateCode, CreateRef, Grant, Working
  <2> QED BY <2>1, <1>0, Works
<1>5. CASE \/ ListObjects(c) \/ AddKey(c) \/ CopyRows(c) \/ Recount(c) \/ NextLoop(c)
           \/ \E t \in Tables : CreateTable(c, t) \/ CompareRows(c, t)
  <2>1. /\ pc[c] \in Working /\ \E s \in Working : pc' = [pc EXCEPT ![c] = s]
        /\ UNCHANGED <<asked, answer, free, present>>
        /\ touched' = touched \/ Touches(c)
    BY <1>5 DEF ListObjects, AddKey, CopyRows, Recount, NextLoop, CreateTable, CompareRows, Working
  <2> QED BY <2>1, Works
<1>6. CASE Answer(c)
  <2>1. pc[c] = "grants" /\ UNCHANGED <<asked, free, touched, present>>
        /\ \E a \in {"copied", "copied_with_errors"} : Leave(c, a)
    BY <1>6 DEF Answer
  <2> QED BY <2>1, AnswerEnds DEF Answers, Working
<1>7. CASE Raise(c)
  <2>1. pc[c] # "end" /\ UNCHANGED <<asked, free, touched, present>> /\ Leave(c, "raised")
    BY <1>7 DEF Raise, Open
  <2> QED BY <2>1, AnswerEnds DEF Answers
<1> QED BY <1>1, <1>2, <1>3, <1>4, <1>5, <1>6, <1>7 DEF Step

LEMMA CopyNext == CopyInv /\ [Next]_vars => CopyInv' /\ [Promise!Next]_(Promise!absVars)
<1> SUFFICES ASSUME CopyInv, [Next]_vars PROVE CopyInv' /\ [Promise!Next]_(Promise!absVars)
  OBVIOUS
<1>1. CASE \E c \in Calls : Step(c)
  BY <1>1, StepImplements
<1>2. CASE \/ \E t \in Tables : SourceGrows(t)
           \/ UNCHANGED vars
  <2>1. UNCHANGED <<asked, present, free, touched, answer, pc>>
    BY <1>2 DEF SourceGrows, vars, callVars, targetVars, history
  <2> QED BY <2>1, Stutters DEF CopyInv, CopyType, CallInv
<1>3. CASE OthersCreate
  <2>1. present' = {Schema} /\ UNCHANGED <<asked, free, touched, answer, pc>>
    BY <1>3 DEF OthersCreate, callVars, history
  <2>2. CopyInv'
    BY <2>1 DEF CopyInv, CopyType, CallInv
  <2>3. Promise!Others
    BY <2>1 DEF Promise!Others, promiseAsked, promiseAnswer
  <2> QED BY <2>2, <2>3 DEF Promise!Next
<1> QED BY <1>1, <1>2, <1>3 DEF Next

\* The metadata copy keeps the promise of the tools to the target, whatever calls overlap and
\* whichever statement fails: copy_schema changes a schema only for a confirmed call that has
\* seen it absent or was asked to resume, and a call that declines has changed nothing.
THEOREM SqlCopyImplementsPromise == Spec => ImplementsPromise
BY CopyInitInv, CopyNext, PTL DEF Spec, ImplementsPromise, Promise!Spec

-----------------------------------------------------------------------------
(* The rest of the types, and what calls that overlap know of each other.  *)

CallType ==
  /\ todo \in [Calls -> SUBSET (Objects \cup Roles \cup Grants)]
  /\ cur \in [Calls -> Tables \cup {None}]
  /\ failed \in [Calls -> SUBSET Tables] /\ errs \in [Calls -> BOOLEAN]
  /\ met \in [Calls -> SUBSET Calls] /\ made \in SUBSET Calls
  /\ \A c \in Calls : /\ pc[c] \in {"key", "copy", "recount"} => cur[c] \in Tables
                      /\ failed[c] # {} => errs[c]

TargetType ==
  /\ srcRows \in [Tables -> 0..MaxRows] /\ base \in [Tables -> 0..MaxRows]
  /\ rows \in [Tables -> [Rows -> Nat]]
  /\ roles \subseteq Roles /\ granted \subseteq Grants

CallsMeet ==
  /\ \A c \in Calls : pc[c] = "idle" => met[c] = {}
  /\ \A a, b \in Open : a # b => b \in met[a]

Empty(t) == \A i \in Rows : rows[t][i] = 0

\* The schema is created once, and by the first call that does not resume.
MadeInv ==
  /\ present = {} => /\ have = {} /\ keyed = {} /\ roles = {} /\ granted = {}
                     /\ made = {} /\ fired = {} /\ \A t \in Tables : Empty(t)
  /\ \A c, d \in made : c = d
  /\ \A c \in made : /\ pc[c] \notin Early \cup {"user", "list"}
                     /\ \A t \in Tables : base[t] <= srcRows[t]
  /\ \A c \in Calls : pc[c] \in Working => asked[c].resume \/ c \in made

-----------------------------------------------------------------------------
(* RowTwiceOnlyByOverlap. *)

Overlap == \E c \in Calls : \E d \in met[c] : asked[d].resume

RowsInv ==
  \/ Overlap
  \/ /\ \A t \in Tables, i \in Rows : rows[t][i] <= 1
     /\ \A c \in Calls : pc[c] = "copy" => Empty(cur[c])

-----------------------------------------------------------------------------
(* FreshCopyIsWhole. *)

Filled(t) == \A i \in 1..base[t] : rows[t][i] = 1

\* How far a call has come that created the user, is alone, and has noted no error.
RolesAt(c) ==
  /\ pc[c] = "roles" => /\ Roles \ todo[c] \subseteq roles
                        /\ have = {} /\ \A t \in Tables : Empty(t)
  /\ pc[c] # "roles" => roles = Roles

CreateAt(c) ==
  pc[c] \in {"create", "key"} =>
    /\ todo[c] \subseteq Tables \cup Code /\ have = (Tables \cup Code) \ todo[c]
    /\ \A t \in Tables \ todo[c] : t \in keyed \/ (pc[c] = "key" /\ t = cur[c])
    /\ \A t \in Tables : Empty(t)

FillAt(c) ==
  pc[c] \in {"rows", "copy", "recount"} =>
    /\ todo[c] \subseteq Tables /\ have = Tables \cup Code /\ Tables \subseteq keyed
    /\ \A t \in todo[c] : Empty(t)
    /\ \A t \in Tables \ todo[c] : Filled(t) \/ (pc[c] = "copy" /\ t = cur[c])
    /\ pc[c] = "copy" => cur[c] \notin todo[c] /\ Empty(cur[c])

FinishAt(c) ==
  /\ pc[c] \in {"refs", "triggers", "grants"} =>
       /\ Tables \cup Code \subseteq have /\ Tables \subseteq keyed
       /\ \A t \in Tables : Filled(t)
  /\ pc[c] = "refs" => Refs \ todo[c] \subseteq have
  /\ pc[c] = "triggers" => Refs \subseteq have /\ Triggers \ todo[c] \subseteq have
  /\ pc[c] = "grants" => Objects \subseteq have /\ Grants \ todo[c] \subseteq granted

Progress(c) == RolesAt(c) /\ CreateAt(c) /\ FillAt(c) /\ FinishAt(c)

\* Nobody is about to fill again what has been filled.
NoRefill == \A d \in Calls : pc[d] = "copy" => base[cur[d]] = 0

FreshInv ==
  \A c \in made : met[c] = {} =>
    /\ pc[c] \in Working /\ ~errs[c] => Progress(c) /\ \A x \in fired : x[1] # c
    /\ answer[c] = "copied" => pc[c] = "end" /\ Whole /\ NoRefill /\ \A x \in fired : x[1] # c

-----------------------------------------------------------------------------
(* Types, and the creation of the schema. *)

LEMMA LocalTypes ==
  ASSUME CallType, NEW c \in Calls
  PROVE  /\ \A x : Reach(c, x) => todo' \in [Calls -> SUBSET (Objects \cup Roles \cup Grants)]
         /\ \A e \in BOOLEAN : Note(c, e) => errs' \in [Calls -> BOOLEAN]
         /\ \A t \in Tables : [failed EXCEPT ![c] = @ \cup {t}] \in [Calls -> SUBSET Tables]
         /\ \A o : NotCreated(c, o) =>
              /\ errs' \in [Calls -> BOOLEAN] /\ failed' \in [Calls -> SUBSET Tables]
              /\ \A d \in Calls : failed'[d] # {} => errs'[d]
         /\ \A e \in BOOLEAN : Note(c, e) => \A d \in Calls : failed[d] # {} => errs'[d]
<1>1. \A x : Reach(c, x) => todo' \in [Calls -> SUBSET (Objects \cup Roles \cup Grants)]
  BY DEF CallType, Reach
<1>2. \A e \in BOOLEAN : Note(c, e) => errs' \in [Calls -> BOOLEAN]
  BY DEF CallType, Note
<1>3. \A t \in Tables : [failed EXCEPT ![c] = @ \cup {t}] \in [Calls -> SUBSET Tables]
  BY DEF CallType
<1>4. failed \in [Calls -> SUBSET Tables]
  BY DEF CallType
<1>5. \A e \in BOOLEAN : Note(c, e) => \A d \in Calls : failed[d] # {} => errs'[d]
  BY DEF CallType, Note
<1>6. \A o : NotCreated(c, o) => \A d \in Calls : failed'[d] # {} => errs'[d]
  <2> SUFFICES ASSUME NEW o, NotCreated(c, o), NEW d \in Calls, failed'[d] # {} PROVE errs'[d]
    OBVIOUS
  <2>1. CASE d = c
    BY <2>1 DEF NotCreated, Note, CallType
  <2>2. CASE d # c
    BY <2>2 DEF NotCreated, Note, CallType
  <2> QED BY <2>1, <2>2
<1> QED BY <1>1, <1>2, <1>3, <1>4, <1>5, <1>6 DEF NotCreated

LEMMA CallTypeStep ==
  ASSUME CopyInv, CallType, NEW c \in Calls, Step(c)
  PROVE  CallType'
<1> USE DEF Goto, callVars, targetVars, history, CallType, CopyInv, CopyType
<1>1. CASE Start(c)
  <2>1. /\ pc' = [pc EXCEPT ![c] = "source"] /\ UNCHANGED <<todo, cur, failed, errs, made>>
        /\ met' = [d \in Calls |-> IF d = c THEN Open
                                   ELSE IF d \in Open THEN met[d] \cup {c} ELSE met[d]]
    BY <1>1 DEF Start
  <2>2. met' \in [Calls -> SUBSET Calls]
    BY <2>1 DEF Open
  <2> QED BY <2>1, <2>2
<1>2. CASE CheckSource(c)
  BY <1>2 DEF CheckSource
<1>3. ASSUME NEW a, Leave(c, a), UNCHANGED <<made, met>> PROVE CallType'
  BY <1>3 DEF Leave
<1>4. CASE CheckTarget(c)
  <2>1. CASE pc' \in {[pc EXCEPT ![c] = "list"], [pc EXCEPT ![c] = "user"]}
             /\ UNCHANGED <<todo, cur, failed, errs, made, met>>
    BY <2>1
  <2> QED BY <1>3, <1>4, <2>1 DEF CheckTarget
<1>5. CASE CreateUser(c) \/ ListObjects(c) \/ NextLoop(c)
  <2>1. /\ pc' \in {[pc EXCEPT ![c] = s] : s \in {"roles", "create", "rows", "refs", "triggers", "grants"}}
        /\ \E list \in SUBSET (Objects \cup Roles \cup Grants) : todo' = [todo EXCEPT ![c] = list]
        /\ made' \in {made, made \cup {c}} /\ UNCHANGED <<cur, failed, errs, met>>
    BY <1>5 DEF CreateUser, ListObjects, NextLoop, Refill, Objects
  <2> QED BY <2>1
<1>6. CASE \E r \in Roles : GrantRole(c, r)
  BY <1>6 DEF GrantRole, Reach
<1>7. ASSUME NEW o, CreateCode(c, o) PROVE CallType'
  <2>1. Reach(c, o) /\ UNCHANGED <<pc, cur, made, met>>
    BY <1>7 DEF CreateCode
  <2>2. /\ errs' \in [Calls -> BOOLEAN] /\ failed' \in [Calls -> SUBSET Tables]
        /\ \A d \in Calls : failed'[d] # {} => errs'[d]
    BY <1>7, LocalTypes DEF CreateCode
  <2> QED BY <2>1, <2>2, LocalTypes
<1>8. ASSUME NEW x, CreateRef(c, x) \/ Grant(c, x) PROVE CallType'
  <2>1. Reach(c, x) /\ UNCHANGED <<pc, cur, made, met, failed>>
    BY <1>8 DEF CreateRef, Grant
  <2>2. errs' \in [Calls -> BOOLEAN] /\ \A d \in Calls : failed'[d] # {} => errs'[d]
    BY <1>8, <2>1, LocalTypes DEF CreateRef, Grant
  <2> QED BY <2>1, <2>2, LocalTypes
<1>9. ASSUME NEW t \in Tables, CreateTable(c, t) PROVE CallType'
  <2>1. /\ Reach(c, t) /\ UNCHANGED <<made, met>>
        /\ \/ pc' = [pc EXCEPT ![c] = "create"] /\ cur' = cur
           \/ pc' = [pc EXCEPT ![c] = "key"] /\ cur' = [cur EXCEPT ![c] = t]
    BY <1>9 DEF CreateTable
  <2>2. /\ errs' \in [Calls -> BOOLEAN] /\ failed' \in [Calls -> SUBSET Tables]
        /\ \A d \in Calls : failed'[d] # {} => errs'[d]
    BY <1>9, LocalTypes DEF CreateTable
  <2>3. cur' \in [Calls -> Tables \cup {None}]
        /\ \A d \in Calls : pc'[d] \in {"key", "copy", "recount"} => cur'[d] \in Tables
    BY <2>1
  <2> QED BY <2>1, <2>2, <2>3, LocalTypes
<1>10. CASE AddKey(c) \/ Recount(c)
  <2>1. /\ pc' \in {[pc EXCEPT ![c] = "create"], [pc EXCEPT ![c] = "rows"]}
        /\ cur' = [cur EXCEPT ![c] = None] /\ UNCHANGED <<todo, failed, made, met>>
        /\ \E e \in BOOLEAN : errs' = [errs EXCEPT ![c] = @ \/ e]
    BY <1>10 DEF AddKey, Recount, Note, NextTable
  <2> QED BY <2>1
<1>11. CASE \E t \in Tables : CompareRows(c, t)
  BY <1>11 DEF CompareRows, Reach, Note
<1>12. CASE CopyRows(c)
  BY <1>12 DEF CopyRows, Note, NextTable
<1>13. CASE Answer(c) \/ Raise(c)
  BY <1>3, <1>13 DEF Answer, Raise
<1> QED
  BY <1>1, <1>2, <1>4, <1>5, <1>6, <1>7, <1>8, <1>9, <1>10, <1>11, <1>12, <1>13 DEF Step

\* What a step does to the target and its histories.
LEMMA TargetTypeStep ==
  ASSUME TargetType, CallType, NEW c \in Calls, Step(c)
  PROVE  TargetType'
<1> USE DEF callVars, targetVars, history, TargetType
<1>1. CASE CreateUser(c)
  BY <1>1 DEF CreateUser
<1>2. CASE \E r \in Roles : GrantRole(c, r)
  BY <1>2 DEF GrantRole
<1>3. CASE \E g \in Grants : Grant(c, g)
  BY <1>3 DEF Grant
<1>4. CASE CopyRows(c)
  <2>1. rows' \in [Tables -> [Rows -> Nat]]
    <3>1. CASE rows' = rows
      BY <3>1
    <3>2. cur[c] \in Tables
      BY <1>4 DEF CopyRows, Goto, CallType
    <3>3. [i \in Rows |-> IF i <= srcRows[cur[c]] THEN rows[cur[c]][i] + 1 ELSE rows[cur[c]][i]]
            \in [Rows -> Nat]
      BY <3>2
    <3>4. CASE rows' = [rows EXCEPT ![cur[c]] =
                          [i \in Rows |-> IF i <= srcRows[cur[c]] THEN @[i] + 1 ELSE @[i]]]
      BY <3>2, <3>3, <3>4
    <3> QED BY <1>4, <3>1, <3>4 DEF CopyRows
  <2> QED BY <1>4, <2>1 DEF CopyRows
<1>5. CASE Start(c) \/ CheckSource(c) \/ CheckTarget(c) \/ ListObjects(c) \/ AddKey(c) \/ Recount(c)
           \/ NextLoop(c) \/ Answer(c) \/ Raise(c)
           \/ (\E t \in Tables : CreateTable(c, t) \/ CompareRows(c, t))
           \/ (\E o \in Code \cup Triggers : CreateCode(c, o)) \/ (\E f \in Refs : CreateRef(c, f))
  BY <1>5 DEF Start, CheckSource, CheckTarget, ListObjects, AddKey, Recount, NextLoop, Answer, Raise,
              CreateTable, CompareRows, CreateCode, CreateRef
<1> QED BY <1>1, <1>2, <1>3, <1>4, <1>5 DEF Step

\* Where a statement leaves its call, and the other calls as they were.
LEMMA StepMoves ==
  ASSUME CopyInv, CallType, NEW c \in Calls, Step(c)
  PROVE  /\ pc[c] # "end" /\ (pc[c] = "idle" => Start(c))
         /\ asked' = asked /\ \A d \in Calls : d # c =>
              /\ pc'[d] = pc[d] /\ answer'[d] = answer[d] /\ errs'[d] = errs[d]
              /\ failed'[d] = failed[d] /\ cur'[d] = cur[d] /\ todo'[d] = todo[d]
         /\ ~Start(c) => met' = met /\ pc[c] # "idle" /\ pc'[c] # "idle"
<1> USE DEF Goto, callVars, targetVars, history, CallType, CopyInv, CopyType
<1>1. CASE Start(c) \/ CheckSource(c) \/ CheckTarget(c) \/ Answer(c) \/ Raise(c)
  BY <1>1 DEF Start, CheckSource, CheckTarget, Answer, Raise, Leave, Open
<1>2. CASE CreateUser(c) \/ ListObjects(c) \/ NextLoop(c) \/ \E r \in Roles : GrantRole(c, r)
  BY <1>2 DEF CreateUser, ListObjects, NextLoop, GrantRole, Refill, Reach
<1>3. CASE (\E o \in Code \cup Triggers : CreateCode(c, o)) \/ (\E f \in Refs : CreateRef(c, f))
           \/ (\E g \in Grants : Grant(c, g))
  BY <1>3 DEF CreateCode, CreateRef, Grant, Reach, Note, NotCreated
<1>4. CASE \E t \in Tables : CreateTable(c, t) \/ CompareRows(c, t)
  BY <1>4 DEF CreateTable, CompareRows, Reach, Note, NotCreated
<1>5. CASE AddKey(c) \/ CopyRows(c) \/ Recount(c)
  BY <1>5 DEF AddKey, CopyRows, Recount, Note, NextTable
<1> QED BY <1>1, <1>2, <1>3, <1>4, <1>5 DEF Step

LEMMA MeetStep ==
  ASSUME CopyInv, CallType, CallsMeet, NEW c \in Calls, Step(c)
  PROVE  CallsMeet' /\ \A d \in Open : d # c => d \in met'[c] /\ c \in met'[d]
<1> USE DEF CallType, CopyInv, CopyType
<1>1. CASE Start(c)
  <2>1. /\ pc[c] = "idle" /\ pc' = [pc EXCEPT ![c] = "source"]
        /\ met' = [d \in Calls |-> IF d = c THEN Open
                                   ELSE IF d \in Open THEN met[d] \cup {c} ELSE met[d]]
    BY <1>1 DEF Start, Goto
  <2>2. Open' = Open \cup {c} /\ c \notin Open
    BY <2>1 DEF Open
  <2> QED BY <2>1, <2>2 DEF CallsMeet, Open
<1>2. CASE ~Start(c)
  <2>1. /\ Open' \subseteq Open /\ c \in Open /\ met' = met /\ pc'[c] # "idle"
        /\ \A d \in Calls : d # c => pc'[d] = pc[d]
    BY <1>2, StepMoves DEF Open
  <2> QED BY <2>1 DEF CallsMeet
<1> QED BY <1>1, <1>2

\* The statements of a call that works on the schema.
Begins(c) == Start(c) \/ CheckSource(c) \/ CheckTarget(c) \/ CreateUser(c) \/ Raise(c)

LEMMA WorkingStep ==
  ASSUME CopyInv, NEW c \in Calls, Step(c), ~Begins(c)
  PROVE  /\ pc[c] \in Working /\ pc'[c] \in (Working \ {"list"}) \cup {"end"}
         /\ UNCHANGED <<made, base, srcRows, present, met>>
<1> USE DEF Begins, Goto, Working, callVars, targetVars, history, CopyInv, CopyType
<1>1. CASE ListObjects(c) \/ NextLoop(c) \/ Answer(c) \/ \E r \in Roles : GrantRole(c, r)
  BY <1>1 DEF ListObjects, NextLoop, Answer, GrantRole, Leave
<1>2. CASE (\E o \in Code \cup Triggers : CreateCode(c, o)) \/ (\E f \in Refs : CreateRef(c, f))
           \/ (\E g \in Grants : Grant(c, g))
  BY <1>2 DEF CreateCode, CreateRef, Grant
<1>3. CASE (\E t \in Tables : CreateTable(c, t) \/ CompareRows(c, t)) \/ AddKey(c)
           \/ CopyRows(c) \/ Recount(c)
  BY <1>3 DEF CreateTable, CompareRows, AddKey, CopyRows, Recount
<1> QED BY <1>1, <1>2, <1>3 DEF Step

LEMMA MadeStep ==
  ASSUME CopyInv, CallType, TargetType, MadeInv, NEW c \in Calls, Step(c)
  PROVE  MadeInv'
<1> USE DEF Goto, callVars, targetVars, history
<1>0. /\ pc \in [Calls -> Steps] /\ asked' = asked /\ made \in SUBSET Calls
      /\ \A d \in Calls : d # c => pc'[d] = pc[d]
  BY StepMoves DEF CopyInv, CopyType, CallType
<1>1. CASE Start(c) \/ CheckSource(c)
  <2>1. /\ pc[c] \in Early /\ pc'[c] \in Early /\ UNCHANGED <<targetVars, srcRows, base, fired, made>>
    BY <1>0, <1>1 DEF Start, CheckSource, Early
  <2>2. c \notin made
    BY <2>1 DEF MadeInv
  <2> QED BY <1>0, <2>1, <2>2 DEF MadeInv, Early, Working, Empty
<1>2. CASE CheckTarget(c)
  <2>1. /\ pc[c] \in Early /\ UNCHANGED <<targetVars, srcRows, base, fired, made>>
        /\ pc'[c] \in {"end", "user"} \/ (pc'[c] = "list" /\ asked[c].resume)
    BY <1>0, <1>2 DEF CheckTarget, Leave, Early
  <2>2. c \notin made
    BY <2>1 DEF MadeInv
  <2> QED BY <1>0, <2>1, <2>2 DEF MadeInv, Early, Working, Empty
<1>3. CASE CreateUser(c)
  <2>1. /\ present = {} /\ present' = {Schema} /\ pc'[c] = "roles"
        /\ made' = made \cup {c} /\ base' = srcRows /\ srcRows' = srcRows
    BY <1>0, <1>3 DEF CreateUser
  <2>2. made' = {c}
    BY <2>1 DEF MadeInv
  <2>3. \A t \in Tables : base'[t] <= srcRows'[t]
    BY <2>1 DEF TargetType
  <2> QED BY <1>0, <2>1, <2>2, <2>3 DEF MadeInv, Early, Working
<1>4. CASE Raise(c)
  <2>1. pc'[c] = "end" /\ UNCHANGED <<targetVars, srcRows, base, fired, made>>
    BY <1>0, <1>4 DEF Raise, Leave
  <2> QED BY <1>0, <2>1 DEF MadeInv, Early, Working, Empty
<1>5. CASE ~Begins(c)
  <2>1. /\ pc[c] \in Working /\ pc'[c] \in (Working \ {"list"}) \cup {"end"}
        /\ UNCHANGED <<made, base, srcRows, present>>
    BY <1>5, WorkingStep
  <2>2. present = {Schema}
    BY <2>1 DEF CopyInv, CallInv
  <2> QED BY <1>0, <2>1, <2>2 DEF MadeInv, Early, Working
<1> QED BY <1>1, <1>2, <1>3, <1>4, <1>5 DEF Begins

\* The total of a table tells whether it is empty.
LEMMA TotalEmpty ==
  ASSUME TargetType, NEW t \in Tables, NEW c \in Calls
  PROVE  (Total(t) = 0) <=> Empty(t)
<1> DEFINE all == Rows \X (1..Cardinality(Calls))
           held == {x \in all : x[2] <= rows[t][x[1]]}
<1>1. Cardinality(Calls) \in Nat /\ Cardinality(Calls) # 0
  BY SqlCopyAssumption, FS_CardinalityType, FS_EmptySet
<1>2. IsFiniteSet(held)
  <2>1. IsFiniteSet(Rows) /\ IsFiniteSet(1..Cardinality(Calls))
    BY <1>1, SqlCopyAssumption, FS_Interval DEF Rows
  <2>2. IsFiniteSet(all)
    BY <2>1, FS_Product
  <2> QED BY <2>2, FS_Subset
<1>3. Total(t) = 0 <=> held = {}
  <2>1. Total(t) = Cardinality(held)
    BY DEF Total
  <2> QED BY <1>2, <2>1, FS_EmptySet
<1>4. ASSUME held = {} PROVE Empty(t)
  <2> SUFFICES ASSUME NEW i \in Rows, rows[t][i] # 0 PROVE FALSE
    BY DEF Empty
  <2>1. rows[t][i] \in Nat
    BY DEF TargetType
  <2>2. <<i, 1>> \in all /\ 1 <= rows[t][i]
    BY <1>1, <2>1
  <2>3. <<i, 1>> \in held
    BY <2>2
  <2> QED BY <1>4, <2>3
<1>5. ASSUME Empty(t) PROVE held = {}
  <2> SUFFICES ASSUME NEW x \in held PROVE FALSE
    OBVIOUS
  <2>1. x[1] \in Rows /\ x[2] \in 1..Cardinality(Calls) /\ x[2] <= rows[t][x[1]]
    OBVIOUS
  <2>2. rows[t][x[1]] = 0
    BY <1>5, <2>1 DEF Empty
  <2> QED BY <1>1, <2>1, <2>2
<1> QED BY <1>3, <1>4, <1>5

-----------------------------------------------------------------------------
(* The steps of RowTwiceOnlyByOverlap. *)

\* Of two calls that work on the schema one resumes.
LEMMA OneResumes ==
  ASSUME CopyInv, MadeInv, NEW c \in Calls, NEW d \in Calls, c # d,
         pc[c] \in Working, pc[d] \in Working
  PROVE  asked[c].resume \/ asked[d].resume
BY DEF MadeInv

LEMMA RowsStep ==
  ASSUME CopyInv, CallType, TargetType, CallsMeet, MadeInv, RowsInv, NEW c \in Calls, Step(c)
  PROVE  RowsInv'
<1> USE DEF Goto, callVars, targetVars, history
<1>0. /\ asked' = asked /\ pc \in [Calls -> Steps] /\ cur \in [Calls -> Tables \cup {None}]
      /\ \A d \in Calls : d # c => pc'[d] = pc[d] /\ cur'[d] = cur[d]
      /\ CallType' /\ met \in [Calls -> SUBSET Calls]
  BY StepMoves, CallTypeStep DEF CopyInv, CopyType, CallType
<1>1. CASE Overlap
  <2>1. PICK a \in Calls : \E b \in met[a] : asked[b].resume
    BY <1>1 DEF Overlap
  <2>2. met[a] \subseteq met'[a]
    <3>1. CASE Start(c)
      <4>1. pc[c] = "idle" /\ met'[a] = IF a = c THEN Open
                                        ELSE IF a \in Open THEN met[a] \cup {c} ELSE met[a]
        BY <1>0, <3>1 DEF Start
      <4>2. a = c => met[a] = {}
        BY <4>1 DEF CallsMeet
      <4> QED BY <4>1, <4>2
    <3>2. CASE ~Start(c)
      BY <3>2, StepMoves
    <3> QED BY <3>1, <3>2
  <2> QED BY <1>0, <2>1, <2>2 DEF Overlap, RowsInv
<1>2. CASE ~Overlap /\ CopyRows(c)
  <2>1. pc[c] = "copy" /\ cur[c] \in Tables /\ Empty(cur[c])
    BY <1>2 DEF CopyRows, CallType, RowsInv
  <2>2. \A t \in Tables, i \in Rows : rows'[t][i] <= 1
    <3>1. CASE rows' = rows
      BY <1>2, <3>1 DEF RowsInv
    <3>2. CASE rows' = [rows EXCEPT ![cur[c]] =
                          [i \in Rows |-> IF i <= srcRows[cur[c]] THEN @[i] + 1 ELSE @[i]]]
      <4>1. \A t \in Tables : t # cur[c] => rows'[t] = rows[t]
        BY <3>2 DEF TargetType
      <4>2. \A i \in Rows : rows'[cur[c]][i] \in {0, 1}
        BY <2>1, <3>2 DEF TargetType, Empty
      <4> QED BY <1>2, <4>1, <4>2 DEF RowsInv
    <3> QED BY <1>2, <3>1, <3>2 DEF CopyRows
  <2>3. CASE \E d \in Calls : d # c /\ pc[d] = "copy"
    <3>1. PICK d \in Calls : d # c /\ pc[d] = "copy"
      BY <2>3
    <3>2. asked[c].resume \/ asked[d].resume
      BY <2>1, <3>1, OneResumes DEF Working
    <3>3. d \in met'[c] /\ c \in met'[d]
      BY <3>1, MeetStep DEF Open
    <3> QED BY <1>0, <3>2, <3>3 DEF Overlap, RowsInv
  <2>4. CASE \A d \in Calls : d # c => pc[d] # "copy"
    <3>1. pc'[c] # "copy"
      BY <1>0, <1>2 DEF CopyRows
    <3> QED BY <1>0, <2>2, <2>4, <3>1 DEF RowsInv
  <2> QED BY <2>3, <2>4
<1>3. CASE ~Overlap /\ ~CopyRows(c)
  <2>1. rows' = rows
    BY <1>3 DEF Step, Start, CheckSource, CheckTarget, CreateUser, GrantRole, ListObjects, AddKey,
                Recount, CreateTable, CompareRows, CreateCode, CreateRef, Grant, NextLoop, Answer,
                Raise
  <2>2. pc'[c] = "copy" => Empty(cur[c])'
    <3>1. CASE \E t \in Tables : CompareRows(c, t)
      <4>1. PICK t \in Tables : CompareRows(c, t)
        BY <3>1
      <4>2. pc'[c] = "copy" => Total(t) = 0 /\ cur'[c] = t
        BY <1>0, <4>1 DEF CompareRows
      <4> QED BY <2>1, <4>2, TotalEmpty DEF Empty
    <3>2. CASE ~(\E t \in Tables : CompareRows(c, t))
      <4>1. pc'[c] # "copy"
        BY <1>0, <1>3, <3>2
           DEF Step, Start, CheckSource, CheckTarget, CreateUser, GrantRole, ListObjects, AddKey,
               Recount, CreateTable, CreateCode, CreateRef, Grant, NextLoop, Answer,
               Raise, Leave
      <4> QED BY <4>1
    <3> QED BY <3>1, <3>2
  <2> QED BY <1>0, <1>3, <2>1, <2>2 DEF RowsInv, Empty
<1> QED BY <1>1, <1>2, <1>3

-----------------------------------------------------------------------------
(* The steps of FreshCopyIsWhole. *)

\* A call that created the user, is still alone, and has noted no error.
Fresh(c) == c \in made /\ met[c] = {} /\ pc[c] \in Working /\ ~errs[c] /\ Progress(c)

\* Its own statement takes it one step further.
LEMMA FreshStep ==
  ASSUME CopyInv, CallType, TargetType, MadeInv, NEW c \in Calls, Fresh(c),
         Open = {c}, Step(c), pc'[c] \in Working, ~errs'[c]
  PROVE  Progress(c)'
<1> USE DEF Goto, callVars, targetVars, history
<1> USE DEF RolesAt, CreateAt, FillAt, FinishAt
<1>0. /\ pc \in [Calls -> Steps] /\ cur \in [Calls -> Tables \cup {None}]
      /\ todo \in [Calls -> SUBSET (Objects \cup Roles \cup Grants)]
      /\ errs \in [Calls -> BOOLEAN] /\ failed \in [Calls -> SUBSET Tables]
      /\ failed[c] = {} /\ pc[c] \notin Early \cup {"user", "list"} /\ errs[c] = FALSE
  <2>1. pc \in [Calls -> Steps] /\ pc[c] \notin Early \cup {"user", "list"}
    BY DEF CopyInv, CopyType, Fresh, MadeInv
  <2>2. errs \in [Calls -> BOOLEAN] /\ ~errs[c] /\ failed[c] = {}
    BY DEF CallType, Fresh
  <2>3. errs[c] = FALSE
    BY <2>2
  <2> QED BY <2>1, <2>2, <2>3 DEF CallType
<1>00. \A x : Reach(c, x) => x \in todo[c] /\ todo'[c] = todo[c] \ {x}
  BY <1>0 DEF Reach
<1>01. ~Note(c, TRUE)
  BY <1>0 DEF Note
<1>02. \A list : Refill(c, list) => todo'[c] = list
  BY <1>0 DEF Refill
<1>03. Progress(c)
  BY DEF Fresh
<1>04. pc[c] \in {"roles", "create", "key", "rows", "copy", "recount", "refs", "triggers", "grants"}
  BY <1>0 DEF Fresh, Working
<1>1. ASSUME NEW r \in Roles, GrantRole(c, r) PROVE Progress(c)'
  <2>1. /\ pc[c] = "roles" /\ pc' = pc /\ failed' = failed /\ todo'[c] = todo[c] \ {r}
        /\ roles' = roles \cup {r} /\ UNCHANGED <<have, rows>>
    BY <1>1, <1>00 DEF GrantRole
  <2> QED BY <1>0, <1>03, <2>1 DEF Progress, Empty
<1>2. CASE ListObjects(c)
  <2>1. /\ pc[c] = "roles" /\ todo[c] = {} /\ pc'[c] = "create" /\ failed' = failed
        /\ todo'[c] = Tables \cup Code /\ UNCHANGED <<have, rows, roles, keyed>>
    BY <1>0, <1>02, <1>2 DEF ListObjects
  <2>2. roles = Roles
    BY <1>03, <2>1 DEF Progress, TargetType
  <2> QED BY <1>0, <1>03, <2>1, <2>2 DEF Progress, Empty
<1>3. ASSUME NEW t \in Tables, CreateTable(c, t) PROVE Progress(c)'
  <2>1. /\ pc[c] = "create" /\ t \in todo[c] /\ todo'[c] = todo[c] \ {t} /\ t \notin have
        /\ UNCHANGED <<keyed, rows, roles>>
    BY <1>00, <1>03, <1>3 DEF CreateTable, Progress
  <2>2. ~NotCreated(c, t)
    BY <1>01 DEF NotCreated
  <2>3. pc'[c] = "key" /\ cur'[c] = t /\ have' = have \cup {t} /\ failed' = failed
    BY <1>0, <1>3, <2>1, <2>2 DEF CreateTable
  <2> QED BY <1>0, <1>03, <2>1, <2>3 DEF Progress, Empty
<1>4. CASE AddKey(c)
  <2>1. /\ pc[c] = "key" /\ pc'[c] = "create" /\ keyed' = keyed \cup {cur[c]}
        /\ UNCHANGED <<todo, failed, have, rows, roles>>
    BY <1>0, <1>01, <1>4 DEF AddKey
  <2> QED BY <1>0, <1>03, <2>1 DEF Progress, Empty
<1>5. ASSUME NEW o \in Code \cup Triggers, CreateCode(c, o) PROVE Progress(c)'
  <2>1. ~NotCreated(c, o)
    BY <1>01 DEF NotCreated
  <2>2. /\ o \in todo[c] /\ todo'[c] = todo[c] \ {o} /\ pc' = pc /\ failed' = failed
        /\ have' = have \cup {o} /\ UNCHANGED <<keyed, rows, roles, cur>>
        /\ UNCHANGED base
        /\ \/ pc[c] = "create" /\ o \in Code /\ o \notin Tables
           \/ pc[c] = "triggers"
    BY <1>00, <1>5, <2>1 DEF CreateCode
  <2>3. CASE pc[c] = "create" /\ o \in Code /\ o \notin Tables
    <3>1. /\ todo[c] \subseteq Tables \cup Code /\ have = (Tables \cup Code) \ todo[c]
          /\ \A t \in Tables \ todo[c] : t \in keyed
          /\ \A t \in Tables : Empty(t)
      BY <1>03, <2>3 DEF Progress
    <3>2. CreateAt(c)'
      BY <2>2, <2>3, <3>1 DEF Empty
    <3>3. RolesAt(c)' /\ FillAt(c)' /\ FinishAt(c)'
      BY <1>03, <2>2, <2>3 DEF Progress
    <3> QED BY <1>03, <2>2, <3>2, <3>3 DEF Progress
  <2>4. CASE pc[c] = "triggers"
    <3>1. /\ Tables \cup Code \subseteq have /\ Tables \subseteq keyed
          /\ (\A t \in Tables : Filled(t)) /\ Refs \subseteq have /\ Triggers \ todo[c] \subseteq have
          /\ roles = Roles
      BY <1>03, <2>4 DEF Progress
    <3>2. FinishAt(c)'
      BY <2>2, <2>4, <3>1 DEF Filled
    <3>3. RolesAt(c)' /\ FillAt(c)' /\ CreateAt(c)'
      BY <2>2, <2>4, <3>1
    <3> QED BY <1>03, <2>2, <3>2, <3>3 DEF Progress
  <2> QED BY <2>2, <2>3, <2>4
<1>6. CASE NextLoop(c)
  <2>1. todo[c] = {} /\ failed' = failed /\ UNCHANGED <<targetVars, srcRows, history>>
    BY <1>6 DEF NextLoop
  <2>2. CASE pc[c] = "create"
    <3>1. pc'[c] = "rows" /\ todo'[c] = Tables
      BY <1>0, <1>02, <1>6, <2>2 DEF NextLoop
    <3> QED BY <1>0, <1>03, <2>1, <2>2, <3>1 DEF Progress, Empty
  <2>3. CASE pc[c] = "rows"
    <3>1. pc'[c] = "refs" /\ todo'[c] = Refs
      BY <1>0, <1>02, <1>6, <2>3 DEF NextLoop
    <3> QED BY <1>0, <1>03, <2>1, <2>3, <3>1 DEF Progress, Filled
  <2>4. CASE pc[c] = "refs"
    <3>1. pc'[c] = "triggers" /\ todo'[c] = Triggers
      BY <1>0, <1>02, <1>6, <2>4 DEF NextLoop
    <3> QED BY <1>0, <1>03, <2>1, <2>4, <3>1 DEF Progress, Filled
  <2>5. CASE pc[c] = "triggers"
    <3>1. pc'[c] = "grants" /\ todo'[c] = Grants
      BY <1>0, <1>02, <1>6, <2>5 DEF NextLoop
    <3> QED BY <1>0, <1>03, <2>1, <2>5, <3>1 DEF Progress, Filled, Objects
  <2> QED BY <1>6, <2>2, <2>3, <2>4, <2>5 DEF NextLoop
<1>7. ASSUME NEW t \in Tables, CompareRows(c, t) PROVE Progress(c)'
  <2>1. /\ pc[c] = "rows" /\ t \in todo[c] /\ todo'[c] = todo[c] \ {t} /\ failed' = failed
        /\ UNCHANGED <<have, keyed, rows, roles, base>>
    BY <1>00, <1>7 DEF CompareRows
  <2>2. Empty(t) /\ Total(t) = 0
    BY <1>03, <2>1, TotalEmpty DEF Progress
  <2>3. CASE pc'[c] = "copy" /\ cur'[c] = t
    BY <1>0, <1>03, <2>1, <2>2, <2>3 DEF Progress, Empty, Filled
  <2>4. CASE pc'[c] = "rows" /\ srcRows[t] = 0
    <3>1. base[t] = 0
      BY <2>4 DEF Fresh, MadeInv, TargetType
    <3>2. Filled(t)
      BY <3>1 DEF Filled
    <3> QED BY <1>0, <1>03, <2>1, <2>4, <3>2 DEF Progress, Empty, Filled
  <2>5. \/ pc'[c] = "copy" /\ cur'[c] = t
        \/ pc'[c] = "rows" /\ srcRows[t] = 0
    <3>1. \A error \in BOOLEAN : Note(c, error) => error = FALSE
      BY <1>01
    <3> QED BY <1>0, <1>7, <2>2, <3>1 DEF CompareRows
  <2> QED BY <2>3, <2>4, <2>5
<1>8. CASE CopyRows(c)
  <2>1. /\ pc[c] = "copy" /\ pc'[c] = "recount"
        /\ UNCHANGED <<have, keyed, roles, base, todo, failed, cur>>
        /\ rows' = [rows EXCEPT ![cur[c]] =
                      [i \in Rows |-> IF i <= srcRows[cur[c]] THEN @[i] + 1 ELSE @[i]]]
    BY <1>0, <1>01, <1>8 DEF CopyRows
  <2>2. cur[c] \in Tables /\ cur[c] \notin todo[c] /\ Empty(cur[c])
    BY <1>03, <2>1 DEF CallType, Progress
  <2>3. \A t \in Tables : t # cur[c] => rows'[t] = rows[t]
    BY <2>1 DEF TargetType
  <2>4. \A i \in 1..base[cur[c]] : rows'[cur[c]][i] = 1
    <3>1. base[cur[c]] \in 0..MaxRows /\ srcRows[cur[c]] \in 0..MaxRows
          /\ base[cur[c]] <= srcRows[cur[c]] /\ MaxRows \in Nat
      BY <2>2, SqlCopyAssumption DEF Fresh, MadeInv, TargetType
    <3>2. rows'[cur[c]] = [i \in Rows |-> IF i <= srcRows[cur[c]] THEN rows[cur[c]][i] + 1
                                                                ELSE rows[cur[c]][i]]
      BY <2>1, <2>2 DEF TargetType
    <3>3. ASSUME NEW i \in 1..base[cur[c]] PROVE rows'[cur[c]][i] = 1
      <4>1. i \in Rows /\ i <= srcRows[cur[c]]
        BY <3>1 DEF Rows
      <4> QED BY <2>2, <3>2, <4>1 DEF Empty
    <3> QED BY <3>3
  <2>5. \A t \in Tables \ todo[c] : Filled(t)'
    <3>1. \A t \in Tables \ todo[c] : t # cur[c] => Filled(t)
      BY <1>03, <2>1 DEF Progress
    <3> QED BY <2>1, <2>3, <2>4, <3>1 DEF Filled
  <2>6. \A t \in todo[c] : Empty(t)'
    <3>1. todo[c] \subseteq Tables /\ \A t \in todo[c] : Empty(t)
      BY <1>03, <2>1 DEF Progress
    <3> QED BY <2>2, <2>3, <3>1 DEF Empty
  <2> QED BY <1>0, <1>03, <2>1, <2>5, <2>6 DEF Progress
<1>9. CASE Recount(c)
  <2>1. /\ pc[c] = "recount" /\ pc'[c] = "rows" /\ UNCHANGED <<have, keyed, rows, roles, base, todo, failed>>
    BY <1>0, <1>9 DEF Recount
  <2> QED BY <1>0, <1>03, <2>1 DEF Progress, Empty, Filled
<1>10. ASSUME NEW f \in Refs, CreateRef(c, f) PROVE Progress(c)'
  <2>1. /\ pc[c] = "refs" /\ f \in todo[c] /\ todo'[c] = todo[c] \ {f} /\ pc' = pc /\ failed' = failed
        /\ UNCHANGED <<keyed, rows, roles, base>> /\ have' = have \cup {f}
    BY <1>00, <1>01, <1>10 DEF CreateRef
  <2> QED BY <1>0, <1>03, <2>1 DEF Progress, Filled
<1>11. ASSUME NEW g \in Grants, Grant(c, g) PROVE Progress(c)'
  <2>1. /\ pc[c] = "grants" /\ g \in todo[c] /\ todo'[c] = todo[c] \ {g} /\ pc' = pc /\ failed' = failed
        /\ UNCHANGED <<keyed, rows, roles, base, have>> /\ granted' = granted \cup {g}
    BY <1>00, <1>01, <1>11 DEF Grant
  <2> QED BY <1>0, <1>03, <2>1 DEF Progress, Filled
<1>12. ~(Start(c) \/ CheckSource(c) \/ CheckTarget(c) \/ CreateUser(c))
  BY <1>04 DEF Start, CheckSource, CheckTarget, CreateUser
<1>13. ~(Answer(c) \/ Raise(c))
  BY <1>0 DEF Answer, Raise, Leave, Working
<1> QED
  BY <1>1, <1>2, <1>3, <1>4, <1>5, <1>6, <1>7, <1>8, <1>9, <1>10, <1>11, <1>12, <1>13 DEF Step

\* Nothing that a call has made on the target is taken away.
LEMMA TargetGrows ==
  ASSUME NEW c \in Calls, Step(c)
  PROVE  have \subseteq have' /\ keyed \subseteq keyed' /\ roles \subseteq roles' /\ granted \subseteq granted'
<1> USE DEF callVars, targetVars, history
<1>1. CASE Start(c) \/ CheckSource(c) \/ CheckTarget(c) \/ CreateUser(c) \/ ListObjects(c) \/ Recount(c)
           \/ NextLoop(c) \/ Answer(c) \/ Raise(c) \/ CopyRows(c)
  BY <1>1 DEF Start, CheckSource, CheckTarget, CreateUser, ListObjects, Recount, NextLoop, Answer, Raise,
              CopyRows
<1>2. CASE AddKey(c) \/ (\E t \in Tables : CreateTable(c, t) \/ CompareRows(c, t))
           \/ (\E r \in Roles : GrantRole(c, r))
  BY <1>2 DEF AddKey, CreateTable, CompareRows, GrantRole
<1>3. CASE (\E o \in Code \cup Triggers : CreateCode(c, o)) \/ (\E f \in Refs : CreateRef(c, f))
           \/ (\E g \in Grants : Grant(c, g))
  BY <1>3 DEF CreateCode, CreateRef, Grant
<1> QED BY <1>1, <1>2, <1>3 DEF Step

\* Only copies of rows change the rows, and only a table that was found empty is copied.
LEMMA CopyOfEmpty ==
  ASSUME CopyInv, CallType, TargetType, NEW c \in Calls, Step(c)
  PROVE  /\ ~CopyRows(c) => rows' = rows /\ fired' = fired
         /\ CopyRows(c) => /\ pc[c] = "copy" /\ cur[c] \in Tables
                           /\ \A t \in Tables : t # cur[c] => rows'[t] = rows[t]
                           /\ fired' = fired \/ fired' = fired \cup ({c} \X (Triggers \cap have))
         /\ pc'[c] = "copy" => cur'[c] \in Tables /\ Empty(cur'[c])
<1> USE DEF Goto, callVars, targetVars, history
<1>0. pc \in [Calls -> Steps] /\ cur \in [Calls -> Tables \cup {None}]
  BY DEF CopyInv, CopyType, CallType
<1>1. ~CopyRows(c) => rows' = rows /\ fired' = fired
  BY DEF Step, Start, CheckSource, CheckTarget, CreateUser, GrantRole, ListObjects, AddKey,
         Recount, CreateTable, CompareRows, CreateCode, CreateRef, Grant, NextLoop, Answer, Raise
<1>2. CopyRows(c) => /\ pc[c] = "copy" /\ cur[c] \in Tables
                     /\ \A t \in Tables : t # cur[c] => rows'[t] = rows[t]
                     /\ fired' = fired \/ fired' = fired \cup ({c} \X (Triggers \cap have))
  BY DEF CopyRows, CallType, TargetType
<1>3. CASE \E t \in Tables : CompareRows(c, t)
  <2>1. PICK t \in Tables : CompareRows(c, t)
    BY <1>3
  <2>2. pc'[c] = "copy" => Total(t) = 0 /\ cur'[c] = t
    BY <1>0, <2>1 DEF CompareRows
  <2> QED BY <1>1, <1>2, <2>1, <2>2, TotalEmpty
<1>4. CASE ~(\E t \in Tables : CompareRows(c, t))
  <2>1. pc'[c] # "copy"
    BY <1>0, <1>4
       DEF Step, Start, CheckSource, CheckTarget, CreateUser, GrantRole, ListObjects, AddKey,
           Recount, CreateTable, CreateCode, CreateRef, Grant, NextLoop, Answer,
           Raise, Leave, CopyRows
  <2> QED BY <1>1, <1>2, <2>1
<1> QED BY <1>3, <1>4

\* What a call that is alone has filled, another cannot have been about to fill.
LEMMA FreshInvStep ==
  ASSUME CopyInv, CallType, TargetType, CallsMeet, MadeInv, FreshInv, NEW c \in Calls, Step(c)
  PROVE  FreshInv'
<1> USE DEF Goto, callVars, targetVars, history
<1>0. /\ pc \in [Calls -> Steps] /\ answer \in [Calls -> Answers] /\ errs \in [Calls -> BOOLEAN]
      /\ made \subseteq Calls /\ pc[c] # "end" /\ met \in [Calls -> SUBSET Calls]
      /\ \A d \in Calls : d # c => pc'[d] = pc[d] /\ answer'[d] = answer[d] /\ cur'[d] = cur[d]
                                   /\ errs'[d] = errs[d]
  BY StepMoves DEF CopyInv, CopyType, CallType
<1>1. \A d \in Calls : pc[d] # "end" => answer[d] = "none"
  BY DEF CopyInv, CallInv
<1>2. CASE CreateUser(c)
  <2>1. /\ present = {} /\ pc'[c] = "roles" /\ made' = made \cup {c} /\ errs' = errs
        /\ todo'[c] = Roles /\ UNCHANGED <<have, rows, fired, answer>> /\ pc[c] = "user"
    BY <1>0, <1>2 DEF CreateUser, Refill, CallType
  <2>2. made' = {c} /\ have = {} /\ fired = {} /\ \A t \in Tables : Empty(t)
    BY <2>1 DEF MadeInv
  <2>3. Progress(c)'
    BY <2>1, <2>2 DEF Progress, RolesAt, CreateAt, FillAt, FinishAt, Empty
  <2>4. answer'[c] = "none"
    BY <1>1, <2>1
  <2> QED BY <2>1, <2>2, <2>3, <2>4 DEF FreshInv
<1>3. CASE ~CreateUser(c)
  <2>0. made' = made
    BY <1>3 DEF Step, Start, CheckSource, CheckTarget, GrantRole, ListObjects, AddKey, CopyRows,
           Recount, CreateTable, CompareRows, CreateCode, CreateRef, Grant, NextLoop, Answer, Raise
  <2> SUFFICES ASSUME NEW e \in made, met'[e] = {}
               PROVE  /\ pc'[e] \in Working /\ ~errs'[e] => Progress(e)' /\ \A x \in fired' : x[1] # e
                      /\ answer'[e] = "copied" => /\ pc'[e] = "end" /\ Whole' /\ NoRefill'
                                                  /\ \A x \in fired' : x[1] # e
    BY <2>0 DEF FreshInv
  <2>1. e \in Calls /\ pc[e] \notin Early \cup {"user", "list"} /\ met[e] = {}
    <3>1. e \in Calls /\ pc[e] \notin Early \cup {"user", "list"}
      BY <1>0 DEF MadeInv
    <3>2. met[e] \subseteq met'[e]
      <4>1. CASE Start(c)
        <5>1. e # c
          BY <3>1, <4>1 DEF Start, Early
        <5> QED BY <1>0, <3>1, <4>1, <5>1 DEF Start
      <4> QED BY <4>1, StepMoves
    <3> QED BY <3>1, <3>2
  <2>2. base' = base
    BY <1>3 DEF Step, Start, CheckSource, CheckTarget, GrantRole, ListObjects, AddKey, CopyRows,
           Recount, CreateTable, CompareRows, CreateCode, CreateRef, Grant, NextLoop, Answer, Raise
  <2>3. CASE e = c
    <3>1. c \in Open /\ Open = {c}
      <4>1. c \in Open
        BY <1>0, <2>1, <2>3 DEF Open, Early
      <4> QED BY <2>1, <2>3, <4>1 DEF CallsMeet, Open
    <3>2. ~(Start(c) \/ CheckSource(c) \/ CheckTarget(c)) /\ pc[c] \in Working
      BY <1>0, <2>1, <2>3 DEF Start, CheckSource, CheckTarget, Early, Working, Steps
    <3>3. errs'[c] = FALSE /\ pc'[c] \in Working => errs[c] = FALSE
      <4>1. \A x : (Note(c, x) /\ x \in BOOLEAN) => (errs[c] => errs'[c])
        BY <1>0 DEF Note
      <4>2. CASE Answer(c) \/ Raise(c)
        BY <1>0, <4>2 DEF Answer, Raise, Leave, Working
      <4>3. CASE ListObjects(c) \/ NextLoop(c) \/ (\E r \in Roles : GrantRole(c, r))
        BY <4>3 DEF ListObjects, NextLoop, GrantRole
      <4>4. CASE AddKey(c) \/ CopyRows(c) \/ Recount(c) \/ (\E g \in Grants : Grant(c, g))
        BY <1>0, <4>1, <4>4 DEF AddKey, CopyRows, Recount, Grant
      <4>5. CASE (\E t \in Tables : CreateTable(c, t) \/ CompareRows(c, t))
        BY <1>0, <4>1, <4>5 DEF CreateTable, CompareRows, NotCreated
      <4>6. CASE (\E o \in Code \cup Triggers : CreateCode(c, o)) \/ (\E f \in Refs : CreateRef(c, f))
        BY <1>0, <4>1, <4>6 DEF CreateCode, CreateRef, NotCreated
      <4> QED BY <1>0, <1>3, <3>2, <4>2, <4>3, <4>4, <4>5, <4>6 DEF Step
    <3>4. errs[c] = FALSE => Progress(c) /\ \A x \in fired : x[1] # c
      BY <2>1, <2>3, <3>2 DEF FreshInv
    <3>5. CASE pc'[c] \in Working /\ ~errs'[c]
      <4>1. errs[c] = FALSE
        BY <1>0, <3>3, <3>5, CallTypeStep DEF CallType
      <4>2. Progress(c)'
        BY <2>1, <2>3, <3>1, <3>2, <3>4, <3>5, <4>1, FreshStep DEF Fresh
      <4>3. \A x \in fired' : x[1] # c
        <5>1. CASE CopyRows(c)
          <6>1. have = Tables \cup Code
            BY <3>4, <4>1, <5>1 DEF CopyRows, Progress, FillAt
          <6>2. Triggers \cap have = {}
            BY <6>1, SqlCopyAssumption
          <6> QED BY <3>4, <4>1, <5>1, <6>2, CopyOfEmpty
        <5> QED BY <3>4, <4>1, <5>1, CopyOfEmpty
      <4>4. answer'[c] = "none"
        <5>1. ~(Answer(c) \/ Raise(c))
          BY <1>0, <3>5 DEF Answer, Raise, Leave, Working
        <5>2. answer' = answer
          BY <3>2, <5>1 DEF Step, CreateUser, GrantRole, ListObjects, AddKey, CopyRows,
             Recount, CreateTable, CompareRows, CreateCode, CreateRef, Grant, NextLoop
        <5> QED BY <1>0, <1>1, <5>2
      <4> QED BY <2>3, <4>2, <4>3, <4>4
    <3>6. CASE ~(pc'[c] \in Working /\ ~errs'[c])
      <4> SUFFICES ASSUME answer'[c] = "copied"
                   PROVE  pc'[c] = "end" /\ Whole' /\ NoRefill' /\ \A x \in fired' : x[1] # c
        BY <2>3, <3>6
      <4>1. answer[c] = "none"
        BY <1>0, <1>1
      <4>2. Answer(c) /\ ~errs[c] /\ pc'[c] = "end"
        <5>1. ~Raise(c)
          BY <1>0 DEF Raise, Leave
        <5>2. CASE ~Answer(c)
          <6>1. answer' = answer
            BY <3>2, <5>1, <5>2 DEF Step, CreateUser, GrantRole, ListObjects, AddKey, CopyRows,
               Recount, CreateTable, CompareRows, CreateCode, CreateRef, Grant, NextLoop
          <6> QED BY <4>1, <6>1
        <5>3. CASE Answer(c)
          BY <1>0, <5>3 DEF Answer, Leave
        <5> QED BY <5>2, <5>3
      <4>3. pc[c] = "grants" /\ todo[c] = {} /\ UNCHANGED <<targetVars, srcRows, history>>
        BY <4>2 DEF Answer
      <4>4. Progress(c) /\ \A x \in fired : x[1] # c
        BY <1>0, <3>4, <4>2
      <4>5. Whole
        BY <4>3, <4>4 DEF Progress, RolesAt, FinishAt, Whole, Filled, Objects, TargetType
      <4>6. NoRefill'
        <5> SUFFICES ASSUME NEW d \in Calls, pc'[d] = "copy" PROVE FALSE
          BY DEF NoRefill
        <5>1. d # c /\ pc[d] = "copy"
          BY <1>0, <4>2
        <5> QED BY <3>1, <5>1 DEF Open
      <4> QED BY <4>2, <4>3, <4>4, <4>5, <4>6 DEF Whole
    <3> QED BY <3>5, <3>6
  <2>4. CASE e # c
    <3>1. pc[e] = "end" /\ pc'[e] = "end" /\ answer'[e] = answer[e]
      <4>1. e \notin Open
        BY <2>1, <2>4, MeetStep
      <4> QED BY <1>0, <2>1, <2>4, <4>1 DEF Open, Early
    <3> SUFFICES ASSUME answer[e] = "copied"
                 PROVE  Whole' /\ NoRefill' /\ \A x \in fired' : x[1] # e
      BY <3>1 DEF Working
    <3>2. Whole /\ NoRefill /\ \A x \in fired : x[1] # e
      BY <2>1 DEF FreshInv
    <3>3. \A t \in Tables : \A i \in 1..base[t] : rows'[t][i] = 1
      <4>1. CASE CopyRows(c)
        <5>1. /\ pc[c] = "copy" /\ cur[c] \in Tables /\ \A t \in Tables : t # cur[c] => rows'[t] = rows[t]
          BY <4>1, CopyOfEmpty
        <5>2. base[cur[c]] = 0
          BY <3>2, <5>1 DEF NoRefill
        <5> QED BY <3>2, <5>1, <5>2 DEF Whole
      <4> QED BY <3>2, <4>1, CopyOfEmpty DEF Whole
    <3>4. Whole'
      <4>1. roles' \subseteq Roles /\ granted' \subseteq Grants
        BY TargetTypeStep DEF TargetType
      <4> QED BY <2>2, <3>2, <3>3, <4>1, TargetGrows DEF Whole
    <3>5. NoRefill'
      <4> SUFFICES ASSUME NEW d \in Calls, pc'[d] = "copy" PROVE base[cur'[d]] = 0
        BY <2>2 DEF NoRefill
      <4>1. CASE d # c
        BY <1>0, <3>2, <4>1 DEF NoRefill
      <4>2. CASE d = c
        <5>1. cur'[c] \in Tables /\ \A i \in Rows : rows[cur'[c]][i] = 0
          BY <4>2, CopyOfEmpty DEF Empty
        <5>2. base[cur'[c]] \in 0..MaxRows /\ MaxRows \in Nat
          BY <5>1, SqlCopyAssumption DEF TargetType
        <5>3. CASE base[cur'[c]] # 0
          <6>1. 1 \in Rows /\ 1 \in 1..base[cur'[c]]
            BY <5>2, <5>3 DEF Rows
          <6> QED BY <3>2, <5>1, <6>1 DEF Whole
        <5> QED BY <4>2, <5>3
      <4> QED BY <4>1, <4>2
    <3>6. \A x \in fired' : x[1] # e
      <4>1. \A x \in {c} \X (Triggers \cap have) : x[1] = c
        OBVIOUS
      <4> QED BY <2>4, <3>2, <4>1, CopyOfEmpty
    <3> QED BY <3>4, <3>5, <3>6
  <2> QED BY <2>3, <2>4
<1> QED BY <1>2, <1>3

-----------------------------------------------------------------------------
CopyAll == CopyInv /\ CallType /\ TargetType /\ CallsMeet /\ MadeInv /\ RowsInv /\ FreshInv

LEMMA CopyAllInit == Init => CopyAll
<1> SUFFICES ASSUME Init PROVE CopyAll
  OBVIOUS
<1>1. CopyInv
  BY CopyInitInv
<1>2. CallType /\ CallsMeet
  BY DEF Init, CallType, CallsMeet, Open
<1>3. TargetType
  BY SqlCopyAssumption DEF Init, TargetType
<1>4. MadeInv /\ RowsInv /\ FreshInv
  BY DEF Init, MadeInv, RowsInv, FreshInv, Empty, Working
<1> QED BY <1>1, <1>2, <1>3, <1>4 DEF CopyAll

LEMMA CopyAllNext == CopyAll /\ [Next]_vars => CopyAll'
<1> SUFFICES ASSUME CopyAll, [Next]_vars PROVE CopyAll'
  OBVIOUS
<1> USE DEF CopyAll
<1>1. CopyInv'
  BY CopyNext
<1>2. ASSUME NEW c \in Calls, Step(c) PROVE CopyAll'
  BY <1>1, <1>2, CallTypeStep, TargetTypeStep, MeetStep, MadeStep, RowsStep, FreshInvStep
<1>3. CASE UNCHANGED vars
  BY <1>1, <1>3 DEF vars, callVars, targetVars, history, CallType, TargetType, CallsMeet, Open, MadeInv, Empty,
     RowsInv, Overlap, FreshInv, Progress, RolesAt, CreateAt, FillAt, FinishAt, Filled, Whole, NoRefill
<1>4. CASE OthersCreate
  <2>1. /\ present = {} /\ present' = {Schema} /\ made = {}
        /\ UNCHANGED <<callVars, srcRows, roles, have, keyed, valid, rows, granted, history>>
    BY <1>4 DEF OthersCreate, MadeInv
  <2>2. FreshInv' /\ MadeInv'
    BY <2>1 DEF callVars, history, FreshInv, MadeInv
  <2>3. CallType' /\ TargetType' /\ CallsMeet' /\ RowsInv'
    BY <2>1 DEF callVars, history, CallType, TargetType, CallsMeet, Open, RowsInv, Overlap, Empty
  <2> QED BY <1>1, <2>2, <2>3
<1>5. ASSUME NEW t \in Tables, SourceGrows(t) PROVE CopyAll'
  <2>1. /\ srcRows[t] < MaxRows /\ srcRows' = [srcRows EXCEPT ![t] = @ + 1]
        /\ UNCHANGED <<callVars, targetVars, history>>
    BY <1>5 DEF SourceGrows
  <2>2. TargetType' /\ \A u \in Tables : srcRows[u] <= srcRows'[u]
    BY <2>1, SqlCopyAssumption DEF TargetType, targetVars, history
  <2>3. MadeInv'
    <3>1. \A u \in Tables : base[u] <= srcRows[u] => base[u] <= srcRows'[u]
      BY <2>1, SqlCopyAssumption DEF TargetType
    <3> QED BY <2>1, <3>1 DEF MadeInv, Empty, callVars, targetVars, history
  <2>4. CallType' /\ CallsMeet' /\ RowsInv'
    BY <2>1 DEF callVars, targetVars, history, CallType, CallsMeet, Open, RowsInv, Overlap, Empty
  <2>5. FreshInv'
    BY <2>1 DEF callVars, targetVars, history, FreshInv, Progress, RolesAt, CreateAt, FillAt, FinishAt, Empty,
       Filled, Whole, NoRefill
  <2> QED BY <1>1, <2>2, <2>3, <2>4, <2>5
<1> QED BY <1>2, <1>3, <1>4, <1>5 DEF Next

LEMMA CopyAlways == Spec => []CopyAll
BY CopyAllInit, CopyAllNext, PTL DEF Spec

\* copy_saved_schema_without_datapump may be called by several clients at once, and again with
\* resume=True: a row is on the target twice only if two calls were open together of which one
\* resumed.  A table is filled only after it was counted and found empty.
THEOREM RowsTwiceByOverlap == Spec => []RowTwiceOnlyByOverlap
<1>1. RowsInv /\ TargetType => RowTwiceOnlyByOverlap
  <2> SUFFICES ASSUME RowsInv, TargetType, NEW t \in Tables, NEW i \in Rows, rows[t][i] > 1 PROVE Overlap
    BY DEF RowTwiceOnlyByOverlap, Overlap
  <2>1. rows[t][i] \in Nat
    BY DEF TargetType
  <2> QED BY <2>1 DEF RowsInv
<1> QED BY <1>1, CopyAlways, PTL DEF CopyAll

\* A call of copy_schema that created the user, met no other call and answers "copied" has made
\* every object, key, role and grant and copied once each row that the source held: no statement
\* that failed on the way went unnoted.
THEOREM FreshCopiesAreWhole == Spec => []FreshCopyIsWhole
<1>1. FreshInv => FreshCopyIsWhole
  BY DEF FreshInv, FreshCopyIsWhole
<1> QED BY <1>1, CopyAlways, PTL DEF CopyAll

=============================================================================
