----------------------------- MODULE SchemaCopy -----------------------------
(***************************************************************************)
(* What the two schema copy tools promise of the target database, however  *)
(* they do it: a schema of the target is changed only on behalf of a       *)
(* confirmed call that has seen every schema it asked for absent, or that  *)
(* asked to resume, and a call that declines has changed nothing.          *)
(* SchemaDatapump and SchemaSqlCopy implement it.                          *)
(***************************************************************************)

CONSTANTS
  Calls,     \* calls of the tool, each made once
  Schemas    \* user names of the target

VARIABLES
  asked,     \* asked[c]: the arguments of call c
  present,   \* the users of the target
  free,      \* free[c]: schemas that call c has found absent
  touched,   \* touched[c]: schemas that work of call c has changed
  answer     \* answer[c]: how call c ended

absVars == <<asked, present, free, touched, answer>>

Requests == [names : (SUBSET Schemas) \ {{}}, confirmed : BOOLEAN, resume : BOOLEAN]

Entitled(c) == asked[c].confirmed /\ (asked[c].resume \/ free[c] = asked[c].names)

Init ==
  /\ asked \in [Calls -> Requests]
  /\ present \in SUBSET Schemas
  /\ free = [c \in Calls |-> {}]
  /\ touched = [c \in Calls |-> {}]
  /\ answer = [c \in Calls |-> "none"]

(* Users of the target create and drop schemas. *)
Others ==
  /\ present' \in SUBSET Schemas
  /\ UNCHANGED <<asked, free, touched, answer>>

See(c, s) ==
  /\ answer[c] = "none" /\ s \in asked[c].names \ present
  /\ free' = [free EXCEPT ![c] = @ \cup {s}]
  /\ UNCHANGED <<asked, present, touched, answer>>

(* Work of a call may outlast it when the call raises. *)
Touch(c) ==
  /\ Entitled(c) /\ answer[c] \in {"none", "raised"}
  /\ \E some \in SUBSET UNION {asked[d].names : d \in {e \in Calls : Entitled(e)}} :
       /\ touched' = [touched EXCEPT ![c] = @ \cup some]
       /\ present' = present \cup some
  /\ UNCHANGED <<asked, free, answer>>

Finish(c) ==
  /\ answer[c] = "none"
  /\ \/ answer' = [answer EXCEPT ![c] = "raised"]
     \/ touched[c] = {} /\ answer' = [answer EXCEPT ![c] = "declined"]
     \/ /\ Entitled(c) /\ (asked[c].resume \/ touched[c] # {})
        /\ answer' = [answer EXCEPT ![c] = "copied"]
  /\ UNCHANGED <<asked, present, free, touched>>

Next ==
  \/ Others
  \/ \E c \in Calls : Touch(c) \/ Finish(c) \/ \E s \in Schemas : See(c, s)

Spec == Init /\ [][Next]_absVars

=============================================================================
