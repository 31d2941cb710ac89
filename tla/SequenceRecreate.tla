-------------------------- MODULE SequenceRecreate --------------------------
(***************************************************************************)
(* server.recreate_saved_sequence_without_cache: a sequence is read,       *)
(* dropped and created again without cache, while applications draw from   *)
(* it; then its invalid dependents are compiled.  A sequence with cache    *)
(* keeps in the dictionary the value after the last cached one.            *)
(***************************************************************************)
EXTENDS ToolCalls

CONSTANTS
  CacheSize,  \* values the sequence caches at first
  MaxValue    \* bound on the values drawn

\* A dependent in the schema of the sequence, and one in another, which needs a grant.
Dependents == {"own", "granted"}
SeqSteps == {"seqRead", "seqDdl", "seqDrop", "seqCreate", "seqInvalid", "seqCompile"}

ASSUME SeqAssumption == CacheSize \in Nat \ {0} /\ MaxValue \in Nat

VARIABLES
  seq,       \* the sequence: exists, cache, next to issue, last (LAST_NUMBER)
  grantee,   \* the other schema may select from it
  invalid,   \* dependents that are invalid
  issued,    \* values drawn
  repeated,  \* a value was drawn twice (history)
  late,      \* LAST_NUMBER moved between a call's read and its drop (history)
  start,     \* start[c]: next_value of c
  work,      \* work[c]: dependents c is to compile
  recompiled, \* recompiled[c]: recompiled_dependents of c
  errors     \* errors[c]: compilation_errors of c

sequence == <<seq, grantee, invalid>>
drawn == <<issued, repeated, late>>
seqLocals == <<start, work, recompiled, errors>>
seqVars == <<sequence, drawn, seqLocals>>

\* NEXTVAL of an application; it fails while the sequence is missing.
Draw ==
  /\ seq.exists /\ seq.next <= MaxValue
  /\ LET refill == seq.next = seq.last IN
       /\ seq' = [seq EXCEPT !.next = @ + 1, !.last = IF refill THEN @ + seq.cache ELSE @]
       /\ late' = (late \/ (refill /\ \E c \in Open : pc[c] \in {"seqDdl", "seqDrop"}))
  /\ issued' = issued \cup {seq.next}
  /\ repeated' = (repeated \/ seq.next \in issued)
  /\ UNCHANGED <<grantee, invalid, seqLocals, calls>>

\* Oracle compiles an invalid dependent when it is used.
Use(d) ==
  /\ seq.exists /\ d \in invalid /\ (d = "own" \/ grantee)
  /\ invalid' = invalid \ {d}
  /\ UNCHANGED <<seq, grantee, drawn, seqLocals, calls>>

SeqStart(c) ==
  /\ Begin(c, [kind |-> "recreate"], "seqRead", seq.exists)
  /\ UNCHANGED seqVars

\* Mutant: the values of the cache are not skipped.
ReadLastCached(c) ==
  /\ At(c, "seqRead")
  /\ Go(c, IF seq.exists THEN "seqDdl" ELSE "raised")
  /\ start' = [start EXCEPT ![c] = IF seq.exists THEN seq.last - seq.cache ELSE @]
  /\ UNCHANGED <<sequence, drawn, work, recompiled, errors>>

ReadLast(c) ==
  /\ At(c, "seqRead")
  /\ Go(c, IF seq.exists THEN "seqDdl" ELSE "raised")
  /\ start' = [start EXCEPT ![c] = IF seq.exists THEN seq.last ELSE @]
  /\ UNCHANGED <<sequence, drawn, work, recompiled, errors>>

\* The metadata of the sequence, in which START WITH and the cache clause are replaced.
ReadDdl(c) ==
  /\ At(c, "seqDdl")
  /\ Go(c, IF seq.exists THEN "seqDrop" ELSE "raised")
  /\ UNCHANGED seqVars

\* The object grants go with the sequence; its dependents become invalid.
DropSequence(c) ==
  /\ At(c, "seqDrop")
  /\ IF seq.exists
     THEN /\ seq' = [seq EXCEPT !.exists = FALSE]
          /\ grantee' = FALSE /\ invalid' = Dependents
          /\ Go(c, "seqCreate")
     ELSE Go(c, "raised") /\ UNCHANGED sequence
  /\ UNCHANGED <<drawn, seqLocals>>

CreateSequence(c) ==
  /\ At(c, "seqCreate")
  /\ IF seq.exists THEN Go(c, "raised") /\ UNCHANGED seq
     ELSE /\ seq' = [exists |-> TRUE, cache |-> 1, next |-> start[c], last |-> start[c]]
          /\ Go(c, "seqInvalid")
  /\ UNCHANGED <<grantee, invalid, drawn, seqLocals>>

ListInvalid(c) ==
  /\ At(c, "seqInvalid")
  /\ work' = [work EXCEPT ![c] = invalid]
  /\ Go(c, "seqCompile")
  /\ UNCHANGED <<sequence, drawn, start, recompiled, errors>>

\* A dependent that compiles with errors stays invalid, and no error is raised: it counts as recompiled.
Compile(c) ==
  /\ At(c, "seqCompile")
  /\ IF work[c] = {} THEN Go(c, "done") /\ UNCHANGED <<invalid, work, recompiled>>
     ELSE \E d \in work[c] :
            /\ work' = [work EXCEPT ![c] = @ \ {d}]
            /\ recompiled' = [recompiled EXCEPT ![c] = @ \cup {d}]
            /\ invalid' = IF seq.exists /\ (d = "own" \/ grantee) THEN invalid \ {d} ELSE invalid \cup {d}
            /\ Go(c, "seqCompile")
  /\ UNCHANGED <<seq, grantee, drawn, start, errors>>

\* Mutant: an error of a compilation is passed over.
SeqFailsSilently(c) ==
  \/ /\ pc[c] \in SeqSteps /\ ~At(c, "seqCompile")
     /\ Strike(c, "failed", "raised")
     /\ UNCHANGED seqVars
  \/ /\ At(c, "seqCompile")
     /\ \E d \in work[c] : work' = [work EXCEPT ![c] = @ \ {d}]
     /\ Strike(c, "failed", "seqCompile")
     /\ UNCHANGED <<sequence, drawn, start, recompiled, errors>>

\* A statement fails; an error of a compilation is kept, and the loop goes on.
SeqFails(c) ==
  \/ /\ pc[c] \in SeqSteps /\ ~At(c, "seqCompile")
     /\ Strike(c, "failed", "raised")
     /\ UNCHANGED seqVars
  \/ /\ At(c, "seqCompile")
     /\ \E d \in work[c] :
          /\ work' = [work EXCEPT ![c] = @ \ {d}]
          /\ errors' = [errors EXCEPT ![c] = @ \cup {d}]
     /\ Strike(c, "failed", "seqCompile")
     /\ UNCHANGED <<sequence, drawn, start, recompiled>>

SeqInit ==
  /\ seq = [exists |-> TRUE, cache |-> CacheSize, next |-> 1, last |-> 1]
  /\ grantee \in BOOLEAN
  /\ invalid = IF grantee THEN {} ELSE {"granted"}
  /\ issued = {} /\ repeated = FALSE /\ late = FALSE
  /\ start = [c \in Calls |-> 0]
  /\ work = [c \in Calls |-> {}]
  /\ recompiled = [c \in Calls |-> {}]
  /\ errors = [c \in Calls |-> {}]

SeqNext ==
  \/ Draw \/ \E d \in Dependents : Use(d)
  \/ \E c \in Calls :
       \/ SeqStart(c) \/ ReadLast(c) \/ ReadDdl(c) \/ DropSequence(c) \/ CreateSequence(c)
       \/ ListInvalid(c) \/ Compile(c) \/ SeqFails(c)

-----------------------------------------------------------------------------
\* No value is issued twice, whatever statement failed and however calls overlapped, unless the
\* dictionary's LAST_NUMBER moved between a call's read of it and a call's drop.  Draws from the
\* cache do no harm there: the new sequence starts after the cached values.
SequenceValuesOnce == repeated => late

\* When a call that created the sequence returns, each dependent in the schema of the sequence is
\* valid or named among the errors, also when a statement failed, and one of another schema, whose
\* grant went with the drop, is valid or named in one of the two lists: "recompiled" may be INVALID.
DependentsValidOrNamed ==
  [][\A c \in Calls :
       EndsAlone(c) /\ At(c, "seqCompile") /\ pc'[c] = "done" =>
         invalid \subseteq errors[c] \cup (recompiled[c] \cap {"granted"})]_<<seqVars, calls>>
=============================================================================
