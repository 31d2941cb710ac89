------------------------------ MODULE ToolCalls ------------------------------
(***************************************************************************)
(* Calls of server tools that overlap.  A call keeps the arguments it was  *)
(* given and the statement it will run next; it ends by returning or by    *)
(* raising, and closes its connections.  A statement may fail, and a few   *)
(* take effect and lose their answer.  The history says which calls were   *)
(* open together, so that properties can speak of calls that ran alone.    *)
(***************************************************************************)
EXTENDS Integers, FiniteSets, Sequences

CONSTANTS
  Calls,     \* calls of the tools
  MaxFaults  \* bound on the statements that fail

ASSUME CallAssumption == MaxFaults \in Nat

VARIABLES
  req,     \* req[c]: the tool and the arguments of c
  pc,      \* pc[c]: the next statement of c
  faults,  \* statements that failed so far
  struck,  \* struck[c]: "no", or how a statement of c failed (history)
  met,     \* met[c]: calls that were open while c was (history)
  before   \* before[c]: what c's tool found when it began (history)

history == <<faults, struck, met, before>>
calls == <<req, pc, history>>

Ended == {"idle", "done", "raised"}
Open == {c \in Calls : pc[c] \notin Ended}
At(c, s) == pc[c] = s
Go(c, s) == pc' = [pc EXCEPT ![c] = s] /\ UNCHANGED <<req, history>>

Strike(c, how, s) ==
  /\ faults < MaxFaults
  /\ faults' = faults + 1
  /\ struck' = [struck EXCEPT ![c] = how]
  /\ pc' = [pc EXCEPT ![c] = s]
  /\ UNCHANGED <<req, met, before>>

\* Call c begins with arguments r, at statement first, and finds what is there.
Begin(c, r, first, found) ==
  /\ At(c, "idle")
  /\ req' = [req EXCEPT ![c] = r]
  /\ pc' = [pc EXCEPT ![c] = first]
  /\ met' = [d \in Calls |-> IF d = c THEN Open
                             ELSE IF d \in Open THEN met[d] \cup {c} ELSE met[d]]
  /\ before' = [before EXCEPT ![c] = found]
  /\ UNCHANGED <<faults, struck>>

CallInit(arguments, found) ==
  /\ req = [c \in Calls |-> arguments]
  /\ pc = [c \in Calls |-> "idle"]
  /\ faults = 0
  /\ struck = [c \in Calls |-> "no"]
  /\ met = [c \in Calls |-> {}]
  /\ before = [c \in Calls |-> found]

\* c returns or raises in this step, and no other call was open while it ran.
EndsAlone(c) == c \in Open /\ pc'[c] \in Ended /\ met[c] = {}
Undisturbed(c) == EndsAlone(c) /\ struck'[c] = "no"
SomeFailureOrOverlap == \E c \in Calls : struck[c] # "no" \/ met[c] # {}
=============================================================================
