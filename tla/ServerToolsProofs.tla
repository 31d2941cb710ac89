------------------------- MODULE ServerToolsProofs --------------------------
(***************************************************************************)
(* Proofs about the groups of server tools, for any number of calls and    *)
(* all bounds: SequenceRecreate, InstanceTools, DailyRoutine, CloneTime,   *)
(* PackageSync.  Each invariant speaks of one group; the others leave its  *)
(* data alone.  Inductions over data take the least element of a set of    *)
(* naturals.                                                               *)
(***************************************************************************)
EXTENDS ServerTools, FiniteSetTheorems, SequenceTheorems, WellFoundedInduction, TLAPS

-----------------------------------------------------------------------------
(* The sequence (SequenceRecreate). *)

\* The calls and the sequence keep their types.
SeqType ==
  /\ seq \in [exists : BOOLEAN, cache : Nat \ {0}, next : Int, last : Int]
  /\ issued \subseteq Int
  /\ repeated \in BOOLEAN /\ late \in BOOLEAN
  /\ start \in [Calls -> Int]
  /\ pc \in [Calls -> SeqSteps \cup Ended]

\* The dictionary is never behind the cache.
LastCovers == seq.next <= seq.last
\* What was issued lies below what will be issued.
IssuedBelow == \A v \in issued : v < seq.next
\* A call that has read LAST_NUMBER and not yet used it holds its present value.
ReadIsLast ==
  \A c \in Calls : pc[c] \in {"seqDdl", "seqDrop", "seqCreate"} => start[c] = seq.last
\* Only the call that dropped the sequence is about to create it.
OneCreates ==
  \A c \in Calls : pc[c] = "seqCreate" =>
    ~seq.exists /\ \A d \in Calls : pc[d] = "seqCreate" => d = c

\* While LAST_NUMBER has not moved under a call, all of the above hold.
SeqInv ==
  /\ SeqType /\ LastCovers /\ OneCreates
  /\ late \/ (IssuedBelow /\ ReadIsLast /\ ~repeated)

\* The sequence tool's initial states satisfy the invariant.
LEMMA SeqInitInv ==
  ASSUME SeqInit, pc = [c \in Calls |-> "idle"] PROVE SeqInv
<1>1. seq = [exists |-> TRUE, cache |-> CacheSize, next |-> 1, last |-> 1] /\ issued = {}
      /\ ~repeated /\ ~late /\ start = [c \in Calls |-> 0]
      /\ repeated \in BOOLEAN /\ late \in BOOLEAN
  BY DEF SeqInit
<1>2. SeqType
  BY <1>1, SeqAssumption DEF SeqType, SeqSteps, Ended
<1>3. LastCovers /\ OneCreates /\ IssuedBelow /\ ReadIsLast
  BY <1>1 DEF LastCovers, OneCreates, IssuedBelow, ReadIsLast
<1> QED BY <1>1, <1>2, <1>3 DEF SeqInv

\* A step of a call that leaves the sequence and what was read of it alone, and
\* does not go to a statement after the read.
LEMMA QuietStep ==
  ASSUME SeqInv, NEW c \in Calls, NEW s \in {"raised", "done", "seqRead", "seqInvalid", "seqCompile"},
         pc' = [pc EXCEPT ![c] = s], UNCHANGED <<seq, drawn, start>>
  PROVE  SeqInv'
BY DEF SeqInv, SeqType, LastCovers, OneCreates, IssuedBelow, ReadIsLast, Ended, SeqSteps, drawn

\* An application draws: either it stays below LAST_NUMBER, or LAST_NUMBER moves and no call
\* holds it, or it moves under one.
LEMMA DrawStep == ASSUME SeqInv, Draw PROVE SeqInv'
<1> DEFINE refill == seq.next = seq.last
<1>1. /\ seq.exists /\ seq.next \in Int /\ seq.last \in Int /\ seq.cache \in Nat \ {0}
      /\ seq' = [seq EXCEPT !.next = @ + 1, !.last = IF refill THEN @ + seq.cache ELSE @]
      /\ late' = (late \/ (refill /\ \E c \in Open : pc[c] \in {"seqDdl", "seqDrop"}))
      /\ issued' = issued \cup {seq.next}
      /\ repeated' = (repeated \/ seq.next \in issued)
      /\ pc' = pc /\ start' = start
  BY DEF Draw, SeqInv, SeqType, seqLocals, calls
<1>2. seq'.exists /\ seq'.next = seq.next + 1 /\ seq'.cache = seq.cache
      /\ seq'.last = (IF refill THEN seq.last + seq.cache ELSE seq.last)
  BY <1>1 DEF SeqInv, SeqType
<1>3. SeqType'
  <2>1. seq' \in [exists : BOOLEAN, cache : Nat \ {0}, next : Int, last : Int]
    <3>1. CASE refill
      <4>1. seq' = [seq EXCEPT !.next = seq.next + 1, !.last = seq.last + seq.cache]
        BY <1>1, <3>1
      <4>2. seq.last + seq.cache \in Int /\ seq.next + 1 \in Int
        BY <1>1
      <4> QED BY <1>1, <4>1, <4>2 DEF SeqInv, SeqType
    <3>2. CASE ~refill
      <4>1. seq' = [seq EXCEPT !.next = seq.next + 1]
        BY <1>1, <3>2, <1>2 DEF SeqInv, SeqType
      <4> QED BY <1>1, <4>1 DEF SeqInv, SeqType
    <3> QED BY <3>1, <3>2
  <2>2. repeated' \in BOOLEAN /\ late' \in BOOLEAN
    BY <1>1 DEF SeqInv, SeqType
  <2> QED BY <1>1, <2>1, <2>2 DEF SeqInv, SeqType
<1>4. LastCovers'
  BY <1>1, <1>2 DEF SeqInv, LastCovers
<1>5. \A c \in Calls : pc[c] # "seqCreate"
  BY <1>1 DEF SeqInv, OneCreates
<1>6. OneCreates'
  BY <1>1, <1>5 DEF OneCreates
<1>7. CASE late
  BY <1>1, <1>3, <1>4, <1>6, <1>7 DEF SeqInv
<1>8. CASE ~late
  <2>1. IssuedBelow /\ ReadIsLast /\ ~repeated
    BY <1>8 DEF SeqInv
  <2>2. IssuedBelow' /\ ~repeated'
    BY <1>1, <1>2, <2>1 DEF IssuedBelow, SeqInv, SeqType
  <2>3. CASE refill /\ \E c \in Open : pc[c] \in {"seqDdl", "seqDrop"}
    BY <1>1, <1>3, <1>4, <1>6, <2>3 DEF SeqInv
  <2>4. CASE refill /\ ~\E c \in Open : pc[c] \in {"seqDdl", "seqDrop"}
    <3>1. ReadIsLast'
      BY <1>1, <1>5, <2>4 DEF ReadIsLast, Open, Ended
    <3> QED BY <1>3, <1>4, <1>6, <2>2, <3>1 DEF SeqInv
  <2>5. CASE ~refill
    <3>1. ReadIsLast'
      BY <1>1, <1>2, <2>1, <2>5 DEF ReadIsLast
    <3> QED BY <1>3, <1>4, <1>6, <2>2, <3>1 DEF SeqInv
  <2> QED BY <2>3, <2>4, <2>5
<1> QED BY <1>7, <1>8

\* The read of LAST_NUMBER gives its present value.
LEMMA ReadLastStep == ASSUME SeqInv, NEW c \in Calls, ReadLast(c) PROVE SeqInv'
<1>1. CASE seq.exists
  BY <1>1 DEF ReadLast, Go, At, SeqInv, SeqType, LastCovers, OneCreates, IssuedBelow, ReadIsLast,
    SeqSteps, Ended, drawn, sequence
<1>2. CASE ~seq.exists
  <2>1. start' = start
    BY <1>2 DEF ReadLast, SeqInv, SeqType
  <2> QED BY <1>2, <2>1, QuietStep DEF ReadLast, Go, drawn, sequence
<1> QED BY <1>1, <1>2

\* The read of the metadata keeps what was read.
LEMMA ReadDdlStep == ASSUME SeqInv, NEW c \in Calls, ReadDdl(c) PROVE SeqInv'
BY DEF ReadDdl, Go, At, SeqInv, SeqType, LastCovers, OneCreates, IssuedBelow, ReadIsLast,
  SeqSteps, Ended, drawn, sequence, seqVars, seqLocals

\* After a drop, the call is the only one that will create.
LEMMA DropStep == ASSUME SeqInv, NEW c \in Calls, DropSequence(c) PROVE SeqInv'
<1>1. CASE seq.exists
  <2>1. seq' = [seq EXCEPT !.exists = FALSE] /\ pc' = [pc EXCEPT ![c] = "seqCreate"]
        /\ UNCHANGED <<issued, repeated, late, start>> /\ pc[c] = "seqDrop"
    BY <1>1 DEF DropSequence, Go, At, drawn, seqLocals
  <2>2. ~seq'.exists /\ seq'.next = seq.next /\ seq'.last = seq.last
    BY <2>1 DEF SeqInv, SeqType
  <2>3. SeqType'
    BY <2>1 DEF SeqInv, SeqType, SeqSteps
  <2>4. LastCovers' /\ OneCreates'
    BY <1>1, <2>1, <2>2 DEF SeqInv, SeqType, LastCovers, OneCreates
  <2>5. late' \/ (IssuedBelow' /\ ReadIsLast' /\ ~repeated')
    BY <2>1, <2>2 DEF SeqInv, SeqType, IssuedBelow, ReadIsLast
  <2> QED BY <2>3, <2>4, <2>5 DEF SeqInv
<1>2. CASE ~seq.exists
  BY <1>2, QuietStep DEF DropSequence, Go, drawn, sequence, seqLocals
<1> QED BY <1>1, <1>2

\* The new sequence starts at the value read, which is not below any value issued.
LEMMA CreateStep == ASSUME SeqInv, NEW c \in Calls, CreateSequence(c) PROVE SeqInv'
<1>1. CASE ~seq.exists
  <2>1. /\ seq' = [exists |-> TRUE, cache |-> 1, next |-> start[c], last |-> start[c]]
        /\ pc' = [pc EXCEPT ![c] = "seqInvalid"] /\ pc[c] = "seqCreate"
        /\ UNCHANGED <<issued, repeated, late, start>>
    BY <1>1 DEF CreateSequence, Go, At, drawn, seqLocals
  <2>2. seq'.exists /\ seq'.next = start[c] /\ seq'.last = start[c] /\ start[c] \in Int
    BY <2>1 DEF SeqInv, SeqType
  <2>3. SeqType'
    BY <2>1, <2>2 DEF SeqInv, SeqType, SeqSteps
  <2>4. LastCovers' /\ OneCreates'
    BY <2>1, <2>2 DEF SeqInv, SeqType, LastCovers, OneCreates
  <2>5. late' \/ (IssuedBelow' /\ ReadIsLast' /\ ~repeated')
    BY <2>1, <2>2 DEF SeqInv, SeqType, LastCovers, OneCreates, IssuedBelow, ReadIsLast
  <2> QED BY <2>3, <2>4, <2>5 DEF SeqInv
<1>2. CASE seq.exists
  BY <1>2, QuietStep DEF CreateSequence, Go, drawn, sequence, seqLocals
<1> QED BY <1>1, <1>2

\* Every step of the tool and of its applications keeps the invariant.
LEMMA SeqStepInv == ASSUME SeqInv, SeqNext PROVE SeqInv'
<1>1. CASE Draw
  BY <1>1, DrawStep
<1>2. CASE \E d \in Dependents : Use(d)
  BY <1>2 DEF Use, SeqInv, SeqType, LastCovers, OneCreates, IssuedBelow, ReadIsLast,
    drawn, seqLocals, calls
<1>3. CASE \E c \in Calls : SeqStart(c)
  <2>1. PICK c \in Calls : SeqStart(c)
    BY <1>3
  <2>2. pc' = [pc EXCEPT ![c] = "seqRead"] /\ UNCHANGED <<seq, drawn, start>>
    BY <2>1 DEF SeqStart, Begin, seqVars, sequence, seqLocals
  <2> QED BY <2>2, QuietStep
<1>4. CASE \E c \in Calls : ReadLast(c)
  BY <1>4, ReadLastStep
<1>5. CASE \E c \in Calls : ReadDdl(c)
  BY <1>5, ReadDdlStep
<1>6. CASE \E c \in Calls : DropSequence(c)
  BY <1>6, DropStep
<1>7. CASE \E c \in Calls : CreateSequence(c)
  BY <1>7, CreateStep
<1>8. CASE \E c \in Calls : ListInvalid(c)
  BY <1>8, QuietStep DEF ListInvalid, Go, sequence
<1>9. CASE \E c \in Calls : Compile(c)
  <2>1. PICK c \in Calls : Compile(c)
    BY <1>9
  <2>2. \E s \in {"done", "seqCompile"} : pc' = [pc EXCEPT ![c] = s]
    BY <2>1 DEF Compile, Go
  <2>3. UNCHANGED <<seq, drawn, start>>
    BY <2>1 DEF Compile
  <2> QED BY <2>2, <2>3, QuietStep
<1>10. CASE \E c \in Calls : SeqFails(c)
  <2>1. PICK c \in Calls : SeqFails(c)
    BY <1>10
  <2>2. \E s \in {"raised", "seqCompile"} : pc' = [pc EXCEPT ![c] = s]
    BY <2>1 DEF SeqFails, Strike
  <2>3. UNCHANGED <<seq, drawn, start>>
    BY <2>1 DEF SeqFails, seqVars, sequence, seqLocals
  <2> QED BY <2>2, <2>3, QuietStep
<1> QED BY <1>1, <1>2, <1>3, <1>4, <1>5, <1>6, <1>7, <1>8, <1>9, <1>10 DEF SeqNext

-----------------------------------------------------------------------------
\* In a behaviour of another group nothing is drawn.
ServerSeqInv == IF group = "sequence" THEN SeqInv ELSE repeated = FALSE

\* No value is drawn twice unless LAST_NUMBER moved between a call's read of it and its drop:
\* recreate_saved_sequence_without_cache, for any number of calls and any cache size.
THEOREM SequenceIssuesOnce == Spec => []SequenceValuesOnce
<1>1. Init => ServerSeqInv
  BY SeqInitInv DEF Init, CallInit, ServerSeqInv, SeqInit
<1>2. ServerSeqInv /\ [Next]_serverVars => ServerSeqInv'
  <2> SUFFICES ASSUME ServerSeqInv, [Next]_serverVars PROVE ServerSeqInv'
    OBVIOUS
  <2>1. CASE group = "sequence" /\ SeqNext /\ UNCHANGED group
    BY <2>1, SeqStepInv DEF ServerSeqInv
  <2>2. CASE group # "sequence" /\ UNCHANGED <<group, seqVars>>
    BY <2>2 DEF ServerSeqInv, seqVars, drawn
  <2>3. CASE UNCHANGED serverVars
    BY <2>3 DEF serverVars, ServerSeqInv, seqVars, sequence, seqLocals, drawn, calls, SeqInv, SeqType,
      LastCovers, OneCreates, IssuedBelow, ReadIsLast
  <2> QED BY <2>1, <2>2, <2>3 DEF Next
<1>3. ServerSeqInv => SequenceValuesOnce
  BY DEF ServerSeqInv, SeqInv, SequenceValuesOnce
<1> QED BY <1>1, <1>2, <1>3, PTL DEF Spec

-----------------------------------------------------------------------------
(* The PGA parameters (InstanceTools). *)

Arguments == [kind : InstanceKinds \cup {"none"}, n : Nat, m : Nat, wide : BOOLEAN]

PgaType ==
  /\ pga \in [target : Nat, limit : Nat]
  /\ req \in [Calls -> Arguments] /\ pc \in [Calls -> InstanceSteps \cup Ended]
  /\ struck = [c \in Calls |-> struck[c]] /\ met \in [Calls -> SUBSET Calls]
  /\ \A c \in Calls : /\ pc[c] = "idle" => met[c] = {} /\ struck[c] = "no"
                      /\ pc[c] = "setBoth" => req[c].kind = "pgaBoth"
                      /\ req[c].kind = "pgaBoth" => req[c].m >= 2 * req[c].n

\* What a call has compared still holds when it writes.
ComparedHolds(c) ==
  /\ pc[c] = "setLimit" => req[c].n >= 2 * pga.target
  /\ pc[c] = "setTarget" => pga.limit = 0 \/ pga.limit >= 2 * req[c].n

PgaAlone ==
  /\ \A a, b \in Open : a = b
  /\ \A c \in Calls : ComparedHolds(c)
  /\ \/ pga.limit = 0 \/ pga.limit >= 2 * pga.target
     \/ \E c \in Calls : pc[c] = "setTarget" /\ req[c].kind = "pgaBoth"

PgaInv == PgaType /\ (SomeFailureOrOverlap \/ PgaAlone)

\* The least of some natural numbers.
LEMMA MinOfNaturals ==
  ASSUME NEW S \in SUBSET Nat, S # {}
  PROVE  Min(S) \in S /\ \A y \in S : Min(S) <= y
<1>1. PICK x \in S : \A y \in S : ~(<<y, x>> \in OpToRel(<, Nat))
  BY NatLessThanWellFounded, WFMin
<1>2. ASSUME NEW y \in S, y < x PROVE FALSE
  <2>1. <<y, x>> \in Nat \X Nat /\ <<y, x>>[1] = y /\ <<y, x>>[2] = x
    OBVIOUS
  <2>2. <<y, x>> \in OpToRel(<, Nat)
    BY <1>2, <2>1, Zenon DEF OpToRel
  <2> QED BY <1>1, <2>2, Zenon
<1>3. \A y \in S : x <= y
  BY <1>2
<1> QED BY <1>3 DEF Min

\* A call that fails or met another has done so for good.
LEMMA TroubleStays ==
  ASSUME PgaType, SomeFailureOrOverlap,
         \/ UNCHANGED <<struck, met>>
         \/ \E c \in Calls : met' = met /\ struck' = [struck EXCEPT ![c] = "failed"]
         \/ \E c \in Calls : /\ pc[c] = "idle" /\ struck' = struck
                             /\ met' = [d \in Calls |-> IF d = c THEN Open
                                                        ELSE IF d \in Open THEN met[d] \cup {c} ELSE met[d]]
  PROVE  SomeFailureOrOverlap'
<1>1. PICK a \in Calls : struck[a] # "no" \/ met[a] # {}
  BY DEF SomeFailureOrOverlap
<1>2. struck'[a] # "no" \/ met'[a] # {}
  BY <1>1 DEF PgaType
<1> QED BY <1>2 DEF SomeFailureOrOverlap

\* A call begins: it meets those that are open.
LEMMA PgaStart ==
  ASSUME PgaInv, NEW c \in Calls, InstanceStart(c) PROVE PgaInv'
<1>1. PICK r \in Request : Takes(r) /\ Begin(c, r, FirstOf(r.kind), FALSE)
  BY DEF InstanceStart
<1>2. /\ pc[c] = "idle" /\ req' = [req EXCEPT ![c] = r] /\ pc' = [pc EXCEPT ![c] = FirstOf(r.kind)]
      /\ met' = [d \in Calls |-> IF d = c THEN Open
                                 ELSE IF d \in Open THEN met[d] \cup {c} ELSE met[d]]
      /\ UNCHANGED <<pga, struck>>
  BY <1>1 DEF Begin, At, InstanceStart, instVars, params
<1>3. r \in Arguments /\ (r.kind = "pgaBoth" => r.m >= 2 * r.n) /\ r.kind \in InstanceTools
  BY <1>1, InstanceAssumption DEF Request, Arguments, Takes
<1>4. /\ FirstOf(r.kind) \in {"setBoth", "readTarget", "readLimit", "setProcesses", "readProfile",
                             "countAccount", "nameFiles", "makeTable", "logonTrigger", "findSession"}
      /\ FirstOf(r.kind) = "setBoth" => r.kind = "pgaBoth"
  BY <1>3 DEF FirstOf, InstanceTools
<1>5. PgaType'
  <2>1. met' \in [Calls -> SUBSET Calls]
    BY <1>2 DEF PgaInv, PgaType, Open
  <2>2. req' \in [Calls -> Arguments] /\ pc' \in [Calls -> InstanceSteps \cup Ended]
    BY <1>2, <1>3, <1>4 DEF PgaInv, PgaType, InstanceSteps
  <2>3. ASSUME NEW d \in Calls
        PROVE  /\ pc'[d] = "idle" => met'[d] = {} /\ struck'[d] = "no"
               /\ pc'[d] = "setBoth" => req'[d].kind = "pgaBoth"
               /\ req'[d].kind = "pgaBoth" => req'[d].m >= 2 * req'[d].n
    <3>1. CASE d = c
      BY <1>2, <1>3, <1>4, <3>1 DEF PgaInv, PgaType
    <3>2. CASE d # c
      BY <1>2, <3>2 DEF PgaInv, PgaType, Open, Ended
    <3> QED BY <3>1, <3>2
  <2> QED BY <1>2, <2>1, <2>2, <2>3 DEF PgaInv, PgaType
<1>6. CASE SomeFailureOrOverlap
  BY <1>2, <1>5, <1>6, TroubleStays DEF PgaInv
<1>7. CASE PgaAlone /\ Open # {}
  BY <1>2, <1>5, <1>7 DEF PgaInv, SomeFailureOrOverlap
<1>8. CASE PgaAlone /\ Open = {}
  <2>1. pc \in [Calls -> InstanceSteps \cup Ended] /\ req \in [Calls -> Arguments]
    BY DEF PgaInv, PgaType
  <2>2. \A d \in Calls : pc[d] \notin {"setLimit", "setTarget"}
    BY <1>8 DEF Open, Ended
  <2>3. PgaAlone'
    BY <1>2, <1>4, <1>8, <2>1, <2>2 DEF PgaAlone, ComparedHolds, Open
  <2> QED BY <1>5, <2>3 DEF PgaInv
<1> QED BY <1>6, <1>7, <1>8 DEF PgaInv

\* A statement that goes on to s, and keeps what it compared.
LEMMA PgaMoves ==
  ASSUME PgaInv, NEW c \in Open, NEW s \in (InstanceSteps \cup Ended) \ {"idle", "setBoth"},
         pc' = [pc EXCEPT ![c] = s], UNCHANGED <<req, struck, met>>, pga' \in [target : Nat, limit : Nat],
         PgaAlone => /\ s = "setLimit" => req[c].n >= 2 * pga'.target
                     /\ s = "setTarget" => pga'.limit = 0 \/ pga'.limit >= 2 * req[c].n
                     /\ \/ pga'.limit = 0 \/ pga'.limit >= 2 * pga'.target
                        \/ s = "setTarget" /\ req[c].kind = "pgaBoth"
  PROVE  PgaInv'
<1>0. c \in Calls /\ pc[c] # "idle"
  BY DEF Open, Ended
<1>1. PgaType'
  BY <1>0 DEF PgaInv, PgaType
<1>2. CASE SomeFailureOrOverlap
  BY <1>1, <1>2, TroubleStays DEF PgaInv
<1>3. CASE PgaAlone
  <2>1. Open' \subseteq {c} /\ Open = {c}
    BY <1>0, <1>3 DEF PgaAlone, Open, PgaInv, PgaType
  <2>2. \A d \in Calls : d # c => pc'[d] \in Ended /\ pc[d] \in Ended
    BY <1>0, <2>1 DEF Open, PgaInv, PgaType
  <2>3. pc'[c] = s /\ s \notin {"idle", "setBoth"}
    BY <1>0 DEF PgaInv, PgaType
  <2>4. \A d \in Calls : ComparedHolds(d)'
    BY <1>3, <2>2, <2>3 DEF ComparedHolds, Ended
  <2>5. \/ pga'.limit = 0 \/ pga'.limit >= 2 * pga'.target
        \/ pc'[c] = "setTarget" /\ req'[c].kind = "pgaBoth"
    BY <1>3, <2>3
  <2> QED BY <1>0, <1>1, <2>1, <2>4, <2>5 DEF PgaInv, PgaAlone
<1> QED BY <1>2, <1>3 DEF PgaInv

\* The statements of the other tools leave the PGA parameters alone.
LEMMA OtherToolsMove ==
  ASSUME PgaInv, NEW c \in Calls,
         \/ SetProcesses(c) \/ SetSessions(c) \/ ReadProfile(c) \/ WriteProfile(c) \/ Assign(c)
         \/ CountAccount(c) \/ MakeAccount(c) \/ Grant(c)  \/ NameFiles(c) \/ AddFile(c)
         \/ MakeProbeTable(c) \/ PurgeTable(c) \/ LogonTrigger(c) \/ DropTrigger(c)
         \/ FindSession(c) \/ TouchSession(c)
  PROVE  PgaInv'
<1> USE DEF Go, At, history, params, instVars, objects
<1>1. /\ pc[c] \in InstanceSteps \ {"setBoth", "setLimit", "setTarget"}
      /\ UNCHANGED <<req, struck, met, pga>>
      /\ \E s \in (InstanceSteps \cup Ended) \ {"idle", "setBoth", "setLimit", "setTarget"} :
           pc' = [pc EXCEPT ![c] = s]
  <2>1. CASE SetProcesses(c) \/ SetSessions(c) \/ ReadProfile(c) \/ WriteProfile(c) \/ Assign(c)
    BY <2>1 DEF SetProcesses, SetSessions, ReadProfile, WriteProfile, Assign, InstanceSteps, Ended
  <2>2. CASE CountAccount(c) \/ MakeAccount(c) \/ Grant(c) \/ NameFiles(c)
    BY <2>2 DEF CountAccount, MakeAccount, Grant, NameFiles, InstanceSteps, Ended
  <2>3. CASE AddFile(c)
    BY <2>3 DEF AddFile, InstanceSteps, Ended
  <2>4. CASE MakeProbeTable(c) \/ PurgeTable(c) \/ LogonTrigger(c) \/ DropTrigger(c)
    BY <2>4 DEF MakeProbeTable, PurgeTable, LogonTrigger, DropTrigger, InstanceSteps, Ended
  <2>5. CASE FindSession(c) \/ TouchSession(c)
    BY <2>5 DEF FindSession, TouchSession, InstanceSteps, Ended
  <2> QED BY <2>1, <2>2, <2>3, <2>4, <2>5
<1>2. PICK s \in (InstanceSteps \cup Ended) \ {"idle", "setBoth", "setLimit", "setTarget"} :
        pc' = [pc EXCEPT ![c] = s]
  BY <1>1
<1>3. c \in Open
  BY <1>1 DEF Open, InstanceSteps, Ended
<1>4. PgaAlone => pga.limit = 0 \/ pga.limit >= 2 * pga.target
  BY <1>1, <1>3 DEF PgaAlone, Open, Ended
<1>5. pga' \in [target : Nat, limit : Nat]
  BY <1>1 DEF PgaInv, PgaType
<1> QED BY <1>1, <1>2, <1>3, <1>4, <1>5, PgaMoves

LEMMA PgaStep ==
  ASSUME PgaInv, NEW c \in Calls, InstanceStep(c) PROVE PgaInv'
<1> USE DEF Go, At, history, params, instVars
<1>0. /\ pga \in [target : Nat, limit : Nat] /\ req[c] \in Arguments
      /\ pc[c] \in InstanceSteps => c \in Open
  BY DEF PgaInv, PgaType, Open, InstanceSteps, Ended
<1>1. PgaAlone => \/ pga.limit = 0 \/ pga.limit >= 2 * pga.target
                  \/ \E d \in Open : pc[d] = "setTarget" /\ req[d].kind = "pgaBoth"
  BY DEF PgaAlone, Open, Ended
<1>2. PgaAlone /\ c \in Open /\ pc[c] # "setTarget" => pga.limit = 0 \/ pga.limit >= 2 * pga.target
  BY <1>1 DEF PgaAlone
<1>3. CASE SetBoth(c)
  <2>1. /\ pc[c] = "setBoth" /\ pc' = [pc EXCEPT ![c] = "setTarget"] /\ UNCHANGED <<req, struck, met>>
        /\ pga' = [pga EXCEPT !.limit = req[c].m]
    BY <1>3 DEF SetBoth
  <2>2. c \in Open /\ req[c].kind = "pgaBoth" /\ req[c].m >= 2 * req[c].n /\ req[c].m \in Nat
    BY <1>0, <2>1 DEF PgaInv, PgaType, InstanceSteps, Arguments
  <2>3. pga' \in [target : Nat, limit : Nat] /\ pga'.limit = req[c].m
    BY <1>0, <2>1, <2>2
  <2> QED BY <2>1, <2>2, <2>3, PgaMoves DEF InstanceSteps
<1>4. CASE ReadTarget(c)
  <2>1. /\ pc[c] = "readTarget" /\ UNCHANGED <<req, struck, met, pga>>
        /\ pc' = [pc EXCEPT ![c] = IF req[c].n < 2 * pga.target THEN "raised" ELSE "setLimit"]
    BY <1>4 DEF ReadTarget
  <2>2. c \in Open /\ req[c].n \in Nat /\ pga.target \in Nat
    BY <1>0, <2>1 DEF InstanceSteps, Arguments
  <2>3. CASE req[c].n < 2 * pga.target
    BY <1>0, <1>2, <2>1, <2>2, <2>3, PgaMoves DEF Ended
  <2>4. CASE ~(req[c].n < 2 * pga.target)
    <3>1. pc' = [pc EXCEPT ![c] = "setLimit"] /\ req[c].n >= 2 * pga.target
      BY <1>0, <2>1, <2>2, <2>4
    <3> QED BY <1>0, <1>2, <2>1, <2>2, <3>1, PgaMoves DEF InstanceSteps
  <2> QED BY <2>3, <2>4
<1>5. CASE SetLimit(c)
  <2>1. /\ pc[c] = "setLimit" /\ pc' = [pc EXCEPT ![c] = "done"] /\ UNCHANGED <<req, struck, met>>
        /\ pga' = [pga EXCEPT !.limit = req[c].n]
    BY <1>5 DEF SetLimit
  <2>2. c \in Open /\ req[c].n \in Nat
    BY <1>0, <2>1 DEF InstanceSteps, Arguments
  <2>3. pga' \in [target : Nat, limit : Nat] /\ pga'.limit = req[c].n /\ pga'.target = pga.target
    BY <1>0, <2>1, <2>2
  <2>4. PgaAlone => req[c].n >= 2 * pga.target
    BY <2>1 DEF PgaAlone, ComparedHolds
  <2> QED BY <2>1, <2>2, <2>3, <2>4, PgaMoves DEF Ended
<1>6. CASE ReadLimit(c)
  <2>1. /\ pc[c] = "readLimit" /\ UNCHANGED <<req, struck, met, pga>>
        /\ pc' = [pc EXCEPT ![c] = IF pga.limit > 0 /\ 2 * req[c].n > pga.limit THEN "raised" ELSE "setTarget"]
    BY <1>6 DEF ReadLimit
  <2>2. c \in Open /\ req[c].n \in Nat /\ pga.limit \in Nat
    BY <1>0, <2>1 DEF InstanceSteps, Arguments
  <2>3. CASE pga.limit > 0 /\ 2 * req[c].n > pga.limit
    BY <1>0, <1>2, <2>1, <2>2, <2>3, PgaMoves DEF Ended
  <2>4. CASE ~(pga.limit > 0 /\ 2 * req[c].n > pga.limit)
    <3>1. pga.limit = 0 \/ pga.limit >= 2 * req[c].n
      BY <2>2, <2>4
    <3> QED BY <1>0, <1>2, <2>1, <2>2, <2>4, <3>1, PgaMoves DEF InstanceSteps
  <2> QED BY <2>3, <2>4
<1>7. CASE SetTarget(c)
  <2>1. /\ pc[c] = "setTarget" /\ pc' = [pc EXCEPT ![c] = "done"] /\ UNCHANGED <<req, struck, met>>
        /\ pga' = [pga EXCEPT !.target = req[c].n]
    BY <1>7 DEF SetTarget
  <2>2. c \in Open /\ req[c].n \in Nat
    BY <1>0, <2>1 DEF InstanceSteps, Arguments
  <2>3. pga' \in [target : Nat, limit : Nat] /\ pga'.target = req[c].n /\ pga'.limit = pga.limit
    BY <1>0, <2>1, <2>2
  <2>4. PgaAlone => pga.limit = 0 \/ pga.limit >= 2 * req[c].n
    BY <2>1 DEF PgaAlone, ComparedHolds
  <2> QED BY <2>1, <2>2, <2>3, <2>4, PgaMoves DEF Ended
<1>8. CASE InstanceFails(c)
  <2>1. /\ pc[c] \in InstanceSteps /\ \E s \in {"done", "raised"} : pc' = [pc EXCEPT ![c] = s]
        /\ struck' = [struck EXCEPT ![c] = "failed"] /\ UNCHANGED <<req, met, pga>>
    BY <1>8 DEF InstanceFails, Strike
  <2>2. SomeFailureOrOverlap'
    BY <2>1 DEF SomeFailureOrOverlap, PgaInv, PgaType
  <2>3. PgaType'
    BY <2>1, SMTT(30) DEF PgaInv, PgaType, Ended
  <2> QED BY <2>2, <2>3 DEF PgaInv
<1> QED
  BY <1>3, <1>4, <1>5, <1>6, <1>7, <1>8, OtherToolsMove DEF InstanceStep

\* In a behaviour of another group there is no limit.
ServerPgaInv == IF group = "instance" THEN PgaInv ELSE pga.limit = 0

\* Between calls that did not fail or overlap the PGA limit is at least twice the target, whichever
\* of set_saved_pga_parameters, set_saved_pga_aggregate_limit and set_saved_pga_aggregate_target
\* were called, in any order and with any sizes.
THEOREM LimitAlwaysCovers == Spec => []LimitCoversTarget
<1>1. Init => ServerPgaInv
  <2> SUFFICES ASSUME Init PROVE ServerPgaInv
    OBVIOUS
  <2>1. CASE group # "instance"
    BY <2>1 DEF Init, Taken, ServerPgaInv
  <2>2. CASE group = "instance"
    <3>1. Min(PgaGibs) \in Nat
      BY InstanceAssumption, MinOfNaturals
    <3>2. pga \in [target : {Min(PgaGibs)}, limit : {0, 2 * Min(PgaGibs)}]
      BY DEF Init, InstanceInit
    <3>3. pga \in [target : Nat, limit : Nat] /\ (pga.limit = 0 \/ pga.limit >= 2 * pga.target)
      BY <3>1, <3>2
    <3>4. /\ req = [c \in Calls |-> [kind |-> "none", n |-> 0, m |-> 0, wide |-> FALSE]]
          /\ pc = [c \in Calls |-> "idle"] /\ struck = [c \in Calls |-> "no"] /\ met = [c \in Calls |-> {}]
      BY <2>2 DEF Init, CallInit, NoRequest
    <3>5. PgaType
      BY <3>3, <3>4 DEF PgaType, Arguments, Ended
    <3>6. PgaAlone
      BY <3>3, <3>4 DEF PgaAlone, Open, Ended, ComparedHolds
    <3> QED BY <2>2, <3>5, <3>6 DEF ServerPgaInv, PgaInv
  <2> QED BY <2>1, <2>2
<1>2. ServerPgaInv /\ [Next]_serverVars => ServerPgaInv'
  <2> SUFFICES ASSUME ServerPgaInv, [Next]_serverVars PROVE ServerPgaInv'
    OBVIOUS
  <2>1. CASE group = "instance" /\ (\E c \in Calls : InstanceStart(c) \/ InstanceStep(c)) /\ UNCHANGED group
    BY <2>1, PgaStart, PgaStep DEF ServerPgaInv
  <2>2. CASE group = "instance" /\ (Reuse \/ UNCHANGED serverVars) /\ UNCHANGED group
    <3>1. UNCHANGED <<pga, pc, req, struck, met>>
      BY <2>2 DEF Reuse, serverVars, instVars, params, calls, history
    <3> QED BY <2>2, <3>1 DEF ServerPgaInv, PgaInv, PgaType, PgaAlone, ComparedHolds, SomeFailureOrOverlap, Open
  <2>3. CASE group # "instance" /\ UNCHANGED <<group, instVars>>
    BY <2>3 DEF ServerPgaInv, instVars, params
  <2> QED BY <2>1, <2>2, <2>3 DEF Next, serverVars
<1>3. ServerPgaInv => LimitCoversTarget
  BY DEF ServerPgaInv, PgaInv, PgaAlone, LimitCoversTarget, At
<1> QED BY <1>1, <1>2, <1>3, PTL DEF Spec

-----------------------------------------------------------------------------
(* The date of a clone's snapshot (CloneTime). *)

LogSteps == {"readEarlier", "readSpanning", "readLater"}
CloneSteps == {"idle", "readStartup", "readHeaders", "done", "raised"} \cup LogSteps

CloneType ==
  /\ clock \in Nat /\ snapAt \in Nat \cup {Never} /\ startup \in Nat \cup {Never} /\ restarts \in Nat
  /\ headers \in [DataFiles -> Nat] /\ archived \in SUBSET (Nat \X Nat) /\ logStart \in Nat
  /\ pc \in [Calls -> CloneSteps] /\ startRead \in [Calls -> Nat \cup {Never}]
  /\ sourceLast \in Nat /\ begins \in [Calls -> Nat \cup {Never}]
  /\ clone \in [Calls -> [method : {"unknown", "window", "frozen"}, from : Nat \cup {Never},
                          to : Nat \cup {Never}]]

\* Nothing is dated after now; the clone starts after the snapshot.
Clocks ==
  /\ \A f \in DataFiles : headers[f] <= clock
  /\ \A l \in archived : l[1] <= clock /\ l[2] <= clock
  /\ logStart <= clock
  /\ snapAt # Never => snapAt <= clock
  /\ startup # Never => snapAt # Never /\ snapAt < startup /\ startup <= clock

\* Time t belongs to the source before its snapshot, or to the clone in its first run.
Apart(t) == t <= snapAt \/ (startup # Never /\ t > startup)

\* No log but one was begun by the source and archived by the clone; it spans the startup.
FirstRun ==
  snapAt # Never /\ restarts = 0 =>
    /\ \A f \in DataFiles : Apart(headers[f])
    /\ \A l \in archived : Apart(l[1]) /\ Apart(l[2])
    /\ Apart(logStart)

\* Header h was written by the clone.
ByClone(h) == startup # Never /\ h > startup
\* Until the clone has written them all, a header tells when the source last wrote one.
HeadersDated ==
  restarts = 0 =>
    /\ \A f \in DataFiles : headers[f] <= sourceLast \/ ByClone(headers[f])
    /\ \E f \in DataFiles : headers[f] = sourceLast \/ ByClone(headers[f])
    /\ sourceLast <= clock /\ (snapAt # Never => sourceLast <= snapAt)

CallAt(c) ==
  /\ pc[c] \in {"readStartup", "readHeaders"} \cup LogSteps => startup # Never
  /\ pc[c] \in {"readHeaders"} \cup LogSteps => startRead[c] = startup
  /\ clone[c].method # "unknown" => startup # Never
  /\ restarts = 0 =>
       /\ pc[c] \in {"readSpanning", "readLater"} => begins[c] = Never \/ begins[c] <= snapAt
       /\ clone[c].method = "window" => clone[c].from <= snapAt /\ snapAt <= clone[c].to
       /\ clone[c].method = "frozen" => clone[c].from = sourceLast /\ sourceLast <= snapAt

CloneInv ==
  /\ CloneType /\ Clocks /\ FirstRun /\ HeadersDated
  /\ startup = Never => restarts = 0
  /\ \A c \in Calls : CallAt(c)

\* The greatest of some natural numbers up to a bound.
LEMMA MaxOfNaturals ==
  ASSUME NEW S \in SUBSET Nat, S # {}, NEW b \in Nat, \A y \in S : y <= b
  PROVE  Max(S) \in S /\ \A y \in S : y <= Max(S)
<1> DEFINE T == {b - y : y \in S}
<1>1. T \in SUBSET Nat /\ T # {}
  <2>1. \A y \in S : b - y \in Nat
    OBVIOUS
  <2>2. PICK y \in S : TRUE
    OBVIOUS
  <2>3. b - y \in T
    OBVIOUS
  <2> QED BY <2>1, <2>3
<1>2. Min(T) \in T /\ \A z \in T : Min(T) <= z
  <2> HIDE DEF T
  <2> QED BY <1>1, MinOfNaturals
<1>3. PICK x \in S : Min(T) = b - x
  BY <1>2
<1>4. \A y \in S : y <= x
  <2> SUFFICES ASSUME NEW y \in S PROVE y <= x
    OBVIOUS
  <2>1. b - y \in T
    OBVIOUS
  <2>2. b - x <= b - y
    BY <1>2, <1>3, <2>1
  <2> QED BY <2>2
<1>5. \E m \in S : \A y \in S : m >= y
  BY <1>4
<1> HIDE DEF T
<1>6. Max(S) \in S /\ \A y \in S : Max(S) >= y
  BY <1>5, Zenon DEF Max
<1> QED BY <1>6

\* The latest header, when it is not later than the startup, is the source's last.
LEMMA FrozenHeaders ==
  ASSUME CloneInv, restarts = 0, startup # Never, Max({headers[f] : f \in DataFiles}) < startup
  PROVE  Max({headers[f] : f \in DataFiles}) = sourceLast
<1> DEFINE S == {headers[f] : f \in DataFiles}
<1>1. S \in SUBSET Nat /\ S # {} /\ clock \in Nat /\ \A y \in S : y <= clock
  BY CloneAssumption DEF CloneInv, CloneType, Clocks
<1>2. Max(S) \in S /\ \A y \in S : y <= Max(S)
  <2> HIDE DEF S
  <2> QED BY <1>1, MaxOfNaturals
<1>3. PICK f \in DataFiles : Max(S) = headers[f]
  BY <1>2
<1>4. PICK g \in DataFiles : headers[g] = sourceLast \/ ByClone(headers[g])
  BY DEF CloneInv, HeadersDated
<1>5. headers[g] <= Max(S)
  BY <1>2
<1> HIDE DEF S
<1>6. /\ Max(S) < startup /\ startup \in Nat /\ sourceLast \in Nat
      /\ headers[f] \in Nat /\ headers[g] \in Nat
  BY DEF S, CloneInv, CloneType
<1>7. headers[f] <= sourceLast \/ ByClone(headers[f])
  BY DEF CloneInv, HeadersDated
<1>8. Max(S) <= sourceLast
  BY <1>3, <1>6, <1>7 DEF ByClone
<1>9. headers[g] = sourceLast
  BY <1>3, <1>4, <1>5, <1>6 DEF ByClone
<1>10. Max(S) = sourceLast
  BY <1>3, <1>5, <1>6, <1>8, <1>9
<1> QED BY <1>10 DEF S

\* The end of the last log before the startup is not later than the snapshot.
LEMMA EarlierBegins ==
  ASSUME CloneInv, startup # Never
  PROVE  /\ EndOfEarlier(startup) \in Nat \cup {Never}
         /\ restarts = 0 => EndOfEarlier(startup) = Never \/ EndOfEarlier(startup) <= snapAt
<1> DEFINE earlier == {l \in archived : l[2] <= startup}
           E == {l[2] : l \in earlier}
<1>0. /\ startup \in Nat /\ snapAt \in Nat /\ clock \in Nat
      /\ \A l \in archived : l[2] \in Nat /\ l[2] <= clock /\ (restarts = 0 => Apart(l[2]))
  BY DEF CloneInv, CloneType, Clocks, FirstRun
<1>1. EndOfEarlier(startup) = IF earlier = {} THEN Never ELSE Max(E)
  BY DEF EndOfEarlier
<1>2. CASE earlier # {}
  <2>1. E \in SUBSET Nat /\ E # {} /\ \A y \in E : y <= clock
    BY <1>0, <1>2
  <2>2. Max(E) \in E
    <3> HIDE DEF E
    <3> QED BY <1>0, <2>1, MaxOfNaturals
  <2>3. PICK l \in earlier : Max(E) = l[2]
    BY <2>2
  <2>4. l[2] \in Nat /\ (restarts = 0 => l[2] <= snapAt)
    BY <1>0 DEF Apart
  <2> HIDE DEF E, earlier
  <2> QED BY <1>1, <1>2, <2>3, <2>4
<1> HIDE DEF earlier, E
<1> QED BY <1>1, <1>2

\* The start of the log that spans the startup is not later than the snapshot.
LEMMA SpanningBegins ==
  ASSUME CloneInv, startup # Never, NEW e \in Nat \cup {Never},
         restarts = 0 => e = Never \/ e <= snapAt
  PROVE  /\ StartOfSpanning(startup, e) \in Nat \cup {Never}
         /\ restarts = 0 => StartOfSpanning(startup, e) = Never \/ StartOfSpanning(startup, e) <= snapAt
<1> DEFINE S == {l[1] : l \in Spanning(startup)}
<1>0. /\ startup \in Nat /\ snapAt \in Nat
      /\ \A l \in archived : l[1] \in Nat /\ (restarts = 0 => Apart(l[1]))
  BY DEF CloneInv, CloneType, Clocks, FirstRun
<1>1. StartOfSpanning(startup, e) = IF Spanning(startup) = {} THEN e ELSE Min(S)
  BY DEF StartOfSpanning
<1>2. CASE Spanning(startup) # {}
  <2>1. S \in SUBSET Nat /\ S # {}
    BY <1>0, <1>2 DEF Spanning
  <2>2. Min(S) \in S
    <3> HIDE DEF S
    <3> QED BY <2>1, MinOfNaturals
  <2>3. PICK l \in Spanning(startup) : Min(S) = l[1]
    BY <2>2
  <2>4. l[1] \in Nat /\ (restarts = 0 => l[1] <= snapAt)
    BY <1>0 DEF Apart, Spanning
  <2> HIDE DEF S
  <2> QED BY <1>1, <1>2, <2>3, <2>4
<1> HIDE DEF S
<1> QED BY <1>1, <1>2

\* The clock, and the databases.
LEMMA CloneRuns ==
  ASSUME CloneInv, Tick \/ SwitchLog \/ Snapshot \/ Start \/ \E f \in DataFiles : Checkpoint(f)
  PROVE  CloneInv'
<1> USE DEF Never
<1>0. /\ CloneType /\ Clocks /\ FirstRun /\ HeadersDated /\ (startup = Never => restarts = 0)
      /\ \A c \in Calls : CallAt(c)
  BY DEF CloneInv
<1>1. CASE Tick
  <2>1. clock' = clock + 1 /\ UNCHANGED <<snapAt, startup, restarts, headers, archived, logStart, sourceLast, cloneLocals, pc>>
    BY <1>1 DEF Tick, calls
  <2>2. CloneType' /\ Clocks'
    BY <1>0, <2>1 DEF CloneType, Clocks, cloneLocals
  <2>3. FirstRun' /\ \A c \in Calls : CallAt(c)'
    BY <1>0, <2>1 DEF FirstRun, CallAt, Apart, cloneLocals
  <2>4. HeadersDated'
    BY <1>0, <2>1 DEF HeadersDated, ByClone, CloneType
  <2> QED BY <1>0, <2>1, <2>2, <2>3, <2>4 DEF CloneInv
<1>2. CASE SwitchLog
  <2>1. /\ Running /\ logStart < clock /\ archived' = archived \cup {<<logStart, clock>>} /\ logStart' = clock
        /\ UNCHANGED <<clock, snapAt, startup, restarts, headers, sourceLast, cloneLocals, pc>>
    BY <1>2 DEF SwitchLog, calls
  <2>2. CloneType' /\ Clocks'
    BY <1>0, <2>1 DEF CloneType, Clocks, cloneLocals
  <2>3. FirstRun'
    <3> SUFFICES ASSUME snapAt # Never, restarts = 0 PROVE FirstRun'
      BY <2>1 DEF FirstRun
    <3>1. Apart(clock) /\ Apart(logStart)
      BY <1>0, <2>1 DEF Apart, Running, FirstRun
    <3>2. \A l \in archived' : Apart(l[1]) /\ Apart(l[2])
      BY <1>0, <2>1, <3>1 DEF FirstRun
    <3> QED BY <1>0, <2>1, <3>1, <3>2 DEF FirstRun, Apart
  <2>4. HeadersDated' /\ \A c \in Calls : CallAt(c)'
    BY <1>0, <2>1 DEF HeadersDated, ByClone, CallAt, cloneLocals
  <2> QED BY <1>0, <2>1, <2>2, <2>3, <2>4 DEF CloneInv
<1>3. CASE \E f \in DataFiles : Checkpoint(f)
  <2>1. PICK f \in DataFiles : Checkpoint(f)
    BY <1>3
  <2>2. /\ Running /\ headers' = [headers EXCEPT ![f] = clock]
        /\ sourceLast' = IF snapAt = Never THEN clock ELSE sourceLast
        /\ UNCHANGED <<clock, snapAt, startup, restarts, archived, logStart, cloneLocals, pc>>
    BY <2>1 DEF Checkpoint, calls
  <2>3. CloneType' /\ Clocks'
    BY <1>0, <2>2 DEF CloneType, Clocks, cloneLocals
  <2>4. FirstRun'
    BY <1>0, <2>2 DEF FirstRun, Apart, Running, CloneType
  <2>5. \A c \in Calls : CallAt(c)'
    BY <1>0, <2>2 DEF CallAt, cloneLocals, Clocks
  <2>6. HeadersDated'
    <3> SUFFICES ASSUME restarts = 0 PROVE HeadersDated'
      BY <2>2 DEF HeadersDated
    <3>0. /\ headers'[f] = clock /\ \A g \in DataFiles \ {f} : headers'[g] = headers[g]
          /\ clock \in Nat /\ sourceLast \in Nat /\ \A g \in DataFiles : headers[g] <= clock /\ headers[g] \in Nat
      BY <1>0, <2>2 DEF CloneType, Clocks
    <3>1. CASE snapAt = Never
      BY <1>0, <2>2, <3>0, <3>1 DEF HeadersDated, ByClone
    <3>2. CASE snapAt # Never
      <4>1. sourceLast' = sourceLast /\ ByClone(headers'[f])
        BY <1>0, <2>2, <3>0, <3>2 DEF Running, ByClone, CloneType
      <4>2. UNCHANGED <<clock, snapAt, startup, restarts>>
        BY <2>2
      <4> QED BY <1>0, <3>0, <4>1, <4>2 DEF HeadersDated, ByClone
    <3> QED BY <3>1, <3>2
  <2> QED BY <1>0, <2>2, <2>3, <2>4, <2>5, <2>6 DEF CloneInv
<1>4. CASE Snapshot
  <2>1. /\ snapAt = Never /\ snapAt' = clock
        /\ UNCHANGED <<clock, startup, restarts, headers, archived, logStart, sourceLast, cloneLocals, pc>>
    BY <1>4 DEF Snapshot, calls
  <2>2. startup = Never
    BY <1>0, <2>1 DEF Clocks
  <2>3. CloneType' /\ Clocks'
    BY <1>0, <2>1, <2>2 DEF CloneType, Clocks, cloneLocals
  <2>4. FirstRun'
    <3>1. \A t \in Nat : t <= clock => Apart(t)'
      BY <2>1 DEF Apart
    <3> QED BY <1>0, <2>1, <3>1 DEF FirstRun, Clocks, CloneType
  <2>5. \A c \in Calls : CallAt(c)'
    BY <1>0, <2>1, <2>2 DEF CallAt, cloneLocals, CloneType
  <2>6. HeadersDated'
    BY <1>0, <2>1, <2>2 DEF HeadersDated, ByClone
  <2> QED BY <1>0, <2>1, <2>3, <2>4, <2>5, <2>6 DEF CloneInv
<1>5. CASE Start
  <2>1. /\ Open = {} /\ snapAt # Never /\ snapAt < clock /\ startup' = clock
        /\ restarts' = IF startup = Never THEN 0 ELSE restarts + 1
        /\ UNCHANGED <<clock, snapAt, headers, archived, logStart, sourceLast, cloneLocals, pc>>
    BY <1>5 DEF Start, calls
  <2>2. CloneType' /\ Clocks'
    BY <1>0, <2>1 DEF CloneType, Clocks, cloneLocals
  <2>3. FirstRun'
    <3>1. CASE startup # Never
      <4>1. restarts' # 0
        BY <1>0, <2>1, <3>1 DEF CloneType
      <4> QED BY <4>1 DEF FirstRun
    <3>2. CASE startup = Never
      BY <1>0, <2>1, <3>2 DEF FirstRun, Apart
    <3> QED BY <3>1, <3>2
  <2>4. \A c \in Calls : CallAt(c)'
    <3> SUFFICES ASSUME NEW c \in Calls PROVE CallAt(c)'
      OBVIOUS
    <3>1. pc[c] \notin {"readStartup", "readHeaders"} \cup LogSteps
      BY <2>1 DEF Open, Ended, LogSteps
    <3>2. clone[c].method # "unknown" => restarts' # 0
      BY <1>0, <2>1 DEF CallAt, CloneType
    <3> QED BY <1>0, <2>1, <2>2, <3>1, <3>2 DEF CallAt, LogSteps, cloneLocals, CloneType
  <2>5. startup' # Never
    BY <1>0, <2>1 DEF CloneType
  <2>6. HeadersDated'
    <3>1. CASE startup # Never
      <4>1. restarts' # 0
        BY <1>0, <2>1, <3>1 DEF CloneType
      <4> QED BY <4>1 DEF HeadersDated
    <3>2. CASE startup = Never
      BY <1>0, <2>1, <3>2 DEF HeadersDated, ByClone
    <3> QED BY <3>1, <3>2
  <2> QED BY <2>2, <2>3, <2>4, <2>5, <2>6 DEF CloneInv
<1> QED BY <1>1, <1>2, <1>3, <1>4, <1>5

\* The tool.
LEMMA CloneCall ==
  ASSUME CloneInv, NEW c \in Calls,
         \/ CloneStart(c) \/ ReadStartup(c) \/ ReadHeaders(c)
         \/ ReadEarlier(c) \/ ReadSpanning(c) \/ ReadLater(c) \/ CloneFails(c)
  PROVE  CloneInv'
<1> USE DEF Never, Go, At
<1>0. /\ CloneType /\ Clocks /\ FirstRun /\ HeadersDated /\ (startup = Never => restarts = 0)
      /\ \A d \in Calls : CallAt(d)
      /\ (startup # Never => snapAt # Never)
  BY DEF CloneInv, Clocks
<1>1. ASSUME UNCHANGED databaseVars, NEW s \in CloneSteps, pc' = [pc EXCEPT ![c] = s],
             startRead' \in [Calls -> Nat \cup {Never}], begins' \in [Calls -> Nat \cup {Never}],
             clone' \in [Calls -> [method : {"unknown", "window", "frozen"}, from : Nat \cup {Never},
                                   to : Nat \cup {Never}]],
             \A d \in Calls : d # c =>
               startRead'[d] = startRead[d] /\ begins'[d] = begins[d] /\ clone'[d] = clone[d],
             CallAt(c)'
      PROVE  CloneInv'
  <2>1. CloneType' /\ Clocks' /\ FirstRun' /\ HeadersDated'
    BY <1>0, <1>1 DEF CloneType, Clocks, FirstRun, HeadersDated, ByClone, Apart, databaseVars
  <2>2. \A d \in Calls : d # c => CallAt(d)'
    BY <1>0, <1>1 DEF CallAt, databaseVars, CloneType
  <2> QED BY <1>0, <1>1, <2>1, <2>2 DEF CloneInv, databaseVars
<1>2. CASE CloneStart(c)
  <2>1. /\ startup # Never /\ pc' = [pc EXCEPT ![c] = "readStartup"] /\ UNCHANGED cloneVars
    BY <1>2 DEF CloneStart, Begin
  <2>2. CallAt(c)'
    BY <1>0, <2>1 DEF CallAt, LogSteps, cloneVars, databaseVars, cloneLocals, CloneType
  <2> QED BY <1>0, <1>1, <2>1, <2>2 DEF CloneSteps, LogSteps, cloneVars, cloneLocals, CloneType
<1>3. CASE ReadStartup(c)
  <2>1. /\ pc[c] = "readStartup" /\ pc' = [pc EXCEPT ![c] = "readHeaders"]
        /\ startRead' = [startRead EXCEPT ![c] = startup] /\ UNCHANGED <<databaseVars, begins, clone>>
    BY <1>3 DEF ReadStartup
  <2>2. CallAt(c)' /\ startRead' \in [Calls -> Nat \cup {Never}]
    BY <1>0, <2>1 DEF CallAt, LogSteps, databaseVars, CloneType
  <2> QED BY <1>0, <1>1, <2>1, <2>2 DEF CloneSteps, CloneType
<1>4. CASE ReadHeaders(c)
  <2> DEFINE at == Max({headers[f] : f \in DataFiles})
  <2>0. /\ pc[c] = "readHeaders" /\ UNCHANGED <<databaseVars, startRead, begins>>
        /\ startup # Never /\ startRead[c] = startup /\ at \in Nat
    <3>1. {headers[f] : f \in DataFiles} \in SUBSET Nat /\ {headers[f] : f \in DataFiles} # {}
          /\ clock \in Nat /\ \A y \in {headers[f] : f \in DataFiles} : y <= clock
      BY <1>0, CloneAssumption DEF CloneType, Clocks
    <3>2. at \in {headers[f] : f \in DataFiles}
      BY <3>1, MaxOfNaturals
    <3>3. at \in Nat
      BY <3>1, <3>2
    <3> HIDE DEF at
    <3> QED BY <1>0, <1>4, <3>3 DEF ReadHeaders, CallAt
  <2>1. CASE /\ at < startup /\ clone' = [clone EXCEPT ![c] = [method |-> "frozen", from |-> at, to |-> at]]
             /\ pc' = [pc EXCEPT ![c] = "done"]
    <3>1. restarts = 0 => at = sourceLast /\ sourceLast <= snapAt
      BY <1>0, <2>0, <2>1, FrozenHeaders DEF HeadersDated
    <3> HIDE DEF at
    <3>2. clone'[c] = [method |-> "frozen", from |-> at, to |-> at]
      BY <1>0, <2>1 DEF CloneType
    <3>3. CallAt(c)'
      BY <1>0, <2>0, <2>1, <3>1, <3>2 DEF CallAt, LogSteps, CloneType, databaseVars
    <3>4. clone' \in [Calls -> [method : {"unknown", "window", "frozen"}, from : Nat \cup {Never},
                                to : Nat \cup {Never}]]
      BY <1>0, <2>0, <2>1 DEF CloneType
    <3> QED BY <1>0, <1>1, <2>0, <2>1, <3>3, <3>4 DEF CloneSteps, CloneType
  <2>2. CASE clone' = clone /\ pc' = [pc EXCEPT ![c] = "readEarlier"]
    <3>1. CallAt(c)'
      BY <1>0, <2>0, <2>2 DEF CallAt, LogSteps, CloneType, databaseVars
    <3> QED BY <1>0, <1>1, <2>0, <2>2, <3>1 DEF CloneSteps, LogSteps, CloneType
  <2>3. \/ /\ at < startup /\ clone' = [clone EXCEPT ![c] = [method |-> "frozen", from |-> at, to |-> at]]
           /\ pc' = [pc EXCEPT ![c] = "done"]
        \/ clone' = clone /\ pc' = [pc EXCEPT ![c] = "readEarlier"]
    <3>1. ~Interpret(headers, startRead[c]).advanced => at < startup
      <4>1. Interpret(headers, startRead[c]).advanced <=> at >= startRead[c]
        BY DEF Interpret
      <4>2. startup \in Nat /\ at \in Nat /\ startRead[c] = startup
        BY <1>0, <2>0 DEF CloneType
      <4>3. at >= startup \/ at < startup
        BY <4>2
      <4> QED BY <4>1, <4>2, <4>3
    <3>2. \/ /\ ~Interpret(headers, startRead[c]).advanced
             /\ clone' = [clone EXCEPT ![c] = [method |-> "frozen", from |-> at, to |-> at]]
             /\ pc' = [pc EXCEPT ![c] = "done"]
          \/ clone' = clone /\ pc' = [pc EXCEPT ![c] = "readEarlier"]
      BY <1>4 DEF ReadHeaders
    <3> QED BY <3>1, <3>2
  <2> QED BY <2>1, <2>2, <2>3
<1>5. CASE ReadEarlier(c)
  <2>0. /\ pc[c] = "readEarlier" /\ pc' = [pc EXCEPT ![c] = "readSpanning"]
        /\ startup # Never /\ startRead[c] = startup /\ UNCHANGED <<databaseVars, startRead, clone>>
        /\ begins' = [begins EXCEPT ![c] = EndOfEarlier(startup)]
    BY <1>0, <1>5 DEF ReadEarlier, CallAt, LogSteps
  <2>1. /\ EndOfEarlier(startup) \in Nat \cup {Never}
        /\ restarts = 0 => EndOfEarlier(startup) = Never \/ EndOfEarlier(startup) <= snapAt
    BY <2>0, EarlierBegins
  <2>2. begins' \in [Calls -> Nat \cup {Never}] /\ begins'[c] = EndOfEarlier(startup)
    BY <1>0, <2>0, <2>1 DEF CloneType
  <2>3. CallAt(c)'
    BY <1>0, <2>0, <2>1, <2>2 DEF CallAt, LogSteps, CloneType, databaseVars
  <2> QED BY <1>0, <1>1, <2>0, <2>2, <2>3 DEF CloneSteps, LogSteps, CloneType
<1>6. CASE ReadSpanning(c)
  <2>0. /\ pc[c] = "readSpanning" /\ pc' = [pc EXCEPT ![c] = "readLater"]
        /\ startup # Never /\ startRead[c] = startup /\ UNCHANGED <<databaseVars, startRead, clone>>
        /\ begins' = [begins EXCEPT ![c] = StartOfSpanning(startup, begins[c])]
    BY <1>0, <1>6 DEF ReadSpanning, CallAt, LogSteps
  <2> DEFINE spanStart == StartOfSpanning(startup, begins[c])
  <2>1. /\ spanStart \in Nat \cup {Never}
        /\ restarts = 0 => spanStart = Never \/ spanStart <= snapAt
    <3>1. begins[c] \in Nat \cup {Never} /\ (restarts = 0 => begins[c] = Never \/ begins[c] <= snapAt)
      BY <1>0, <2>0 DEF CallAt, CloneType
    <3> QED BY <2>0, <3>1, SpanningBegins
  <2>2. begins' \in [Calls -> Nat \cup {Never}] /\ begins'[c] = spanStart
    BY <1>0, <2>0, <2>1 DEF CloneType
  <2> HIDE DEF spanStart
  <2>3. CallAt(c)'
    BY <1>0, <2>0, <2>1, <2>2 DEF CallAt, LogSteps, CloneType, databaseVars
  <2> QED BY <1>0, <1>1, <2>0, <2>2, <2>3 DEF CloneSteps, LogSteps, CloneType
<1>7. CASE ReadLater(c)
  <2> DEFINE from == begins[c]
  <2>0. /\ pc[c] = "readLater" /\ UNCHANGED <<databaseVars, startRead, begins>>
        /\ startup # Never /\ startRead[c] = startup /\ pc' = [pc EXCEPT ![c] = "done"]
        /\ clone' = [clone EXCEPT ![c] =
             IF from = Never THEN Unknown ELSE [method |-> "window", from |-> from, to |-> startup]]
    BY <1>0, <1>7 DEF ReadLater, CallAt, LogSteps
  <2>1. from \in Nat \cup {Never} /\ (restarts = 0 => from = Never \/ from <= snapAt)
    BY <1>0, <2>0 DEF CloneType, CallAt
  <2> HIDE DEF from
  <2>3. startup \in Nat /\ snapAt \in Nat /\ snapAt < startup
    BY <1>0, <2>0 DEF CloneType, Clocks
  <2>4. clone'[c] = IF from = Never THEN Unknown ELSE [method |-> "window", from |-> from, to |-> startup]
    BY <1>0, <2>0 DEF CloneType
  <2>5. CallAt(c)'
    BY <1>0, <2>0, <2>1, <2>3, <2>4 DEF CallAt, LogSteps, CloneType, databaseVars, Unknown
  <2>6. clone' \in [Calls -> [method : {"unknown", "window", "frozen"}, from : Nat \cup {Never},
                              to : Nat \cup {Never}]]
    BY <1>0, <2>0, <2>1, <2>3 DEF CloneType, Unknown
  <2> QED BY <1>0, <1>1, <2>0, <2>5, <2>6 DEF CloneSteps, CloneType
<1>8. CASE CloneFails(c)
  <2>1. /\ UNCHANGED cloneVars /\ \E s \in {"done", "raised"} : pc' = [pc EXCEPT ![c] = s]
    BY <1>8 DEF CloneFails, Strike
  <2>2. CallAt(c)'
    BY <1>0, <2>1 DEF CallAt, LogSteps, cloneVars, databaseVars, cloneLocals, CloneType
  <2> QED BY <1>0, <1>1, <2>1, <2>2 DEF CloneSteps, LogSteps, cloneVars, cloneLocals, CloneType
<1> QED BY <1>2, <1>3, <1>4, <1>5, <1>6, <1>7, <1>8

\* In a behaviour of another group no clone is dated.
ServerCloneInv == IF group = "clone" THEN CloneInv ELSE \A c \in Calls : clone[c].method = "unknown"

\* For a clone in its first run: the window that clone_time answers from the archived logs holds the
\* moment of the snapshot, and a frozen date is the source's last header write before it, whatever
\* the source and the clone did, for any set of datafiles and however long they ran.
THEOREM WindowsHoldSnapshots == Spec => []WindowHoldsSnapshot
<1>1. Init => ServerCloneInv
  <2> SUFFICES ASSUME Init PROVE ServerCloneInv
    OBVIOUS
  <2>1. /\ clock = 1 /\ snapAt = Never /\ startup = Never /\ restarts = 0
        /\ headers = [f \in DataFiles |-> 0] /\ archived = {} /\ logStart = 0 /\ sourceLast = 0
        /\ startRead = [c \in Calls |-> Never] /\ begins = [c \in Calls |-> Never]
        /\ clone = [c \in Calls |-> Unknown]
        /\ pc = [c \in Calls |-> "idle"]
    BY DEF Init, CloneInit, CallInit
  <2>2. CloneType
    BY <2>1 DEF CloneType, CloneSteps, Unknown
  <2>3. Clocks /\ FirstRun
    BY <2>1 DEF Clocks, FirstRun, Never
  <2>5. \A c \in Calls : CallAt(c)
    <3>1. \A c \in Calls : pc[c] = "idle" /\ clone[c].method = "unknown"
      BY <2>1 DEF Unknown
    <3> QED BY <3>1 DEF CallAt, LogSteps
  <2>4. HeadersDated
    BY <2>1, CloneAssumption DEF HeadersDated, Never
  <2> QED BY <2>1, <2>2, <2>3, <2>4, <2>5 DEF ServerCloneInv, CloneInv, Unknown
<1>2. ServerCloneInv /\ [Next]_serverVars => ServerCloneInv'
  <2> SUFFICES ASSUME ServerCloneInv, [Next]_serverVars PROVE ServerCloneInv'
    OBVIOUS
  <2>1. CASE group = "clone" /\ CloneNext /\ UNCHANGED group
    BY <2>1, CloneRuns, CloneCall DEF ServerCloneInv, CloneNext
  <2>2. CASE group # "clone" /\ UNCHANGED <<group, cloneVars>>
    BY <2>2 DEF ServerCloneInv, cloneVars, cloneLocals
  <2>3. CASE UNCHANGED serverVars
    BY <2>3 DEF serverVars, ServerCloneInv, CloneInv, CloneType, Clocks, FirstRun, HeadersDated, ByClone, Apart, CallAt, cloneVars,
       databaseVars, cloneLocals, calls
  <2> QED BY <2>1, <2>2, <2>3 DEF Next
<1>3. ServerCloneInv => WindowHoldsSnapshot
  BY DEF ServerCloneInv, CloneInv, CallAt, WindowHoldsSnapshot
<1> QED BY <1>1, <1>2, <1>3, PTL DEF Spec

-----------------------------------------------------------------------------
(* The daily routine check (DailyRoutine). *)

CheckSteps == {"backup", "log", "refresh", "space"}
DailySteps == CheckSteps \cup {"report", "openDm", "format", "post"} \cup Ended
Troubles == {"backup", "log", "space"}
Kinds == Troubles \cup {"stuck", "breach", "error", "notRun", "unreachable"}
ItemType == [target : {"es", "other"}, status : {"ok", "issues", "failed"}, problems : Seq(Kinds)]

\* The results, the alerts and what is wrong keep their types.
DailyType ==
  /\ pc \in [Calls -> DailySteps]
  /\ items \in [Calls -> Seq(ItemType)]
  /\ found \in [Calls -> Seq(Kinds)]
  /\ truth \in [es : SUBSET Troubles, other : SUBSET Troubles, refresh : RefreshCases]

\* A target that is being checked has no result yet; while nothing was found on it, the checks that
\* are behind had nothing to find.
NothingMissed(c) ==
  /\ Len(items[c]) <= 2
  /\ pc[c] \in CheckSteps \cup {"idle"} => Len(items[c]) <= 1
  /\ found[c] = <<>> =>
       /\ pc[c] \in {"log", "refresh", "space"} => "backup" \notin truth[TargetOf(c)]
       /\ pc[c] \in {"refresh", "space"} => "log" \notin truth[TargetOf(c)]
       /\ pc[c] = "space" /\ TargetOf(c) = "es" => RefreshAlerts(truth.refresh) = <<>> \/ c \in unread

\* The result of a target that is called ok.
OkItem(c, n) ==
  items[c][n].status = "ok" =>
    /\ truth[Targets[n]] = {}
    /\ Targets[n] = "es" => RefreshAlerts(truth.refresh) = <<>> \/ c \in unread

DailyInv ==
  /\ DailyType
  /\ \A c \in Calls : NothingMissed(c) /\ \A n \in 1..Len(items[c]) : OkItem(c, n)

\* The targets and the order of the checks of one.
LEMMA ChecksInOrder ==
  /\ ToSet(Checks) = CheckSteps
  /\ NextCheck("backup") = "log" /\ NextCheck("log") = "refresh" /\ NextCheck("refresh") = "space"
  /\ Len(Targets) = 2 /\ Targets[1] = "es" /\ Targets[2] = "other"
<1>1. Len(Checks) = 4 /\ DOMAIN Checks = 1..4 /\ Checks[1] = "backup" /\ Checks[2] = "log"
      /\ Checks[3] = "refresh" /\ Checks[4] = "space"
  BY DEF Checks
<1>2. ToSet(Checks) = CheckSteps
  <2>1. 1..4 = {1, 2, 3, 4}
    OBVIOUS
  <2> QED BY <1>1, <2>1 DEF ToSet, CheckSteps
<1>3. \A k \in 1..3 : NextCheck(Checks[k]) = Checks[k + 1]
  <2> SUFFICES ASSUME NEW k \in 1..3 PROVE NextCheck(Checks[k]) = Checks[k + 1]
    OBVIOUS
  <2>1. \A i \in DOMAIN Checks : Checks[i] = Checks[k] <=> i = k
    BY <1>1
  <2>2. (CHOOSE i \in DOMAIN Checks : Checks[i] = Checks[k]) = k
    BY <1>1, <2>1
  <2> QED BY <2>2 DEF NextCheck
<1>4. NextCheck(Checks[1]) = Checks[1 + 1] /\ NextCheck(Checks[2]) = Checks[2 + 1]
      /\ NextCheck(Checks[3]) = Checks[3 + 1]
  BY <1>3
<1> QED BY <1>1, <1>2, <1>4 DEF Targets

\* One alert is a sequence of alerts.
LEMMA OneAlert ==
  ASSUME NEW k \in Kinds
  PROVE  <<k>> \in Seq(Kinds) /\ <<k>> # <<>>
<1>1. <<>> \in Seq(Kinds)
  BY EmptySeq
<1>2. Append(<<>>, k) = <<k>>
  OBVIOUS
<1> QED BY <1>1, <1>2, AppendProperties

\* The alerts of the refresh are a sequence, whatever the refresh process looks like.
LEMMA RefreshAlertsAreListed ==
  ASSUME NEW r \in [stuck : Nat, breach : Nat, errors : Nat, ran : BOOLEAN]
  PROVE  RefreshAlerts(r) \in Seq(Kinds)
<1> DEFINE stuck == [i \in 1..r.stuck |-> "stuck"]
           breach == [i \in 1..r.breach |-> "breach"]
           failing == [i \in 1..r.errors |-> "error"]
           all == stuck \o breach \o failing
           kept == Min({Len(all), MaxAlerts})
<1>1. r.stuck \in Nat /\ r.breach \in Nat /\ r.errors \in Nat
  OBVIOUS
<1>2. stuck \in Seq(Kinds) /\ breach \in Seq(Kinds) /\ failing \in Seq(Kinds)
  <2>1. \A n \in Nat, s \in Kinds : [i \in 1..n |-> s] \in Seq(Kinds)
    BY SMT
  <2>2. "stuck" \in Kinds /\ "breach" \in Kinds /\ "error" \in Kinds
    BY DEF Kinds
  <2>3. stuck \in Seq(Kinds)
    BY <1>1, <2>1, <2>2
  <2>4. breach \in Seq(Kinds)
    BY <1>1, <2>1, <2>2
  <2>5. failing \in Seq(Kinds)
    BY <1>1, <2>1, <2>2
  <2> QED BY <2>3, <2>4, <2>5
<1>3. all \in Seq(Kinds)
  <2>1. \A s, t \in Seq(Kinds) : s \o t \in Seq(Kinds)
    BY ConcatProperties
  <2> QED BY <1>2, <2>1
<1>4. RefreshAlerts(r) = IF all = <<>> /\ ~r.ran THEN <<"notRun">> ELSE SubSeq(all, 1, kept)
  BY DEF RefreshAlerts
<1> HIDE DEF all
<1>5. Len(all) \in Nat /\ all \in [1..Len(all) -> Kinds]
  BY <1>3, LenProperties
<1>6. kept \in Nat /\ kept <= Len(all)
  <2>1. {Len(all), MaxAlerts} \subseteq Nat /\ {Len(all), MaxAlerts} # {}
    BY <1>5 DEF MaxAlerts
  <2> QED BY <2>1, <1>5, MinOfNaturals
<1> HIDE DEF kept
<1>7. SubSeq(all, 1, kept) \in Seq(Kinds)
  <2>1. \A i \in 1..kept : all[i] \in Kinds
    BY <1>5, <1>6
  <2> QED BY <1>6, <2>1, SubSeqProperties
<1>8. <<"notRun">> \in Seq(Kinds)
  <2>1. "notRun" \in Kinds
    BY DEF Kinds
  <2> QED BY <2>1, OneAlert
<1> QED BY <1>4, <1>7, <1>8

\* One check adds a sequence of alerts, and adds none only when it had nothing to find.
LEMMA AlertsTell ==
  ASSUME DailyType, NEW t \in {"es", "other"}, NEW check \in CheckSteps
  PROVE  /\ AlertsOf(t, check) \in Seq(Kinds)
         /\ check # "refresh" => (AlertsOf(t, check) = <<>> <=> check \notin truth[t])
         /\ AlertsOf("es", "refresh") = RefreshAlerts(truth.refresh)
<1>1. truth.refresh \in [stuck : Nat, breach : Nat, errors : Nat, ran : BOOLEAN]
  BY DailyAssumption DEF DailyType
<1>2. RefreshAlerts(truth.refresh) \in Seq(Kinds)
  BY <1>1, RefreshAlertsAreListed
<1>3. (check # "refresh" => <<check>> \in Seq(Kinds) /\ <<check>> # <<>>) /\ <<>> \in Seq(Kinds)
  <2>1. CASE check = "refresh"
    BY <2>1, EmptySeq
  <2>2. CASE check # "refresh"
    <3>1. check \in Kinds
      BY <2>2 DEF CheckSteps, Kinds, Troubles
    <3> QED BY <3>1, OneAlert, EmptySeq
  <2> QED BY <2>1, <2>2
<1> QED BY <1>2, <1>3 DEF AlertsOf

\* A step of one call leaves the others as they were.
LEMMA OneCallMoves ==
  ASSUME DailyInv, NEW c \in Calls, DailyType', truth' = truth, unread \subseteq unread',
         \A d \in Calls \ {c} : items'[d] = items[d] /\ found'[d] = found[d] /\ pc'[d] = pc[d],
         NothingMissed(c)', \A n \in 1..Len(items'[c]) : OkItem(c, n)'
  PROVE  DailyInv'
<1>1. ASSUME NEW d \in Calls \ {c} PROVE NothingMissed(d)' /\ \A n \in 1..Len(items'[d]) : OkItem(d, n)'
  <2>1. NothingMissed(d) /\ \A n \in 1..Len(items[d]) : OkItem(d, n)
    BY DEF DailyInv
  <2>2. items'[d] = items[d] /\ found'[d] = found[d] /\ pc'[d] = pc[d] /\ TargetOf(d)' = TargetOf(d)
        /\ RefreshAlerts(truth.refresh)' = RefreshAlerts(truth.refresh)
    BY DEF TargetOf
  <2>3. NothingMissed(d)'
    BY <2>1, <2>2 DEF NothingMissed
  <2>4. \A n \in 1..Len(items'[d]) : OkItem(d, n)'
    BY <2>1, <2>2 DEF OkItem
  <2> QED BY <2>3, <2>4
<1> QED BY <1>1 DEF DailyInv

\* A call that begins, and one whose checks are behind it, keep what was found.
LEMMA DailyQuiet ==
  ASSUME DailyInv, NEW c \in Calls,
         NEW s \in {"backup", "report", "openDm", "format", "post", "done", "raised"},
         s = "backup" => pc[c] = "idle",
         pc' = [pc EXCEPT ![c] = s], UNCHANGED <<truth, items, found, unread>>
  PROVE  DailyInv'
<1>1. DailyType' /\ pc'[c] = s
  BY DEF DailyInv, DailyType, DailySteps, CheckSteps, Ended
<1>2. NothingMissed(c) /\ \A n \in 1..Len(items[c]) : OkItem(c, n)
  BY DEF DailyInv
<1>3. NothingMissed(c)'
  BY <1>1, <1>2 DEF NothingMissed, CheckSteps
<1>4. RefreshAlerts(truth.refresh)' = RefreshAlerts(truth.refresh)
  OBVIOUS
<1>5. \A n \in 1..Len(items'[c]) : OkItem(c, n)'
  BY <1>2, <1>4 DEF OkItem
<1>6. \A d \in Calls \ {c} : items'[d] = items[d] /\ found'[d] = found[d] /\ pc'[d] = pc[d]
  BY DEF DailyInv, DailyType
<1> QED BY <1>1, <1>3, <1>5, <1>6, OneCallMoves

\* A call that checks is at one of the targets.
LEMMA AtATarget ==
  ASSUME DailyInv, NEW c \in Calls, pc[c] \in CheckSteps
  PROVE  /\ Len(items[c]) \in {0, 1}
         /\ TargetOf(c) \in {"es", "other"}
         /\ NextTarget(c) = IF Len(items[c]) = 1 THEN "report" ELSE "backup"
<1>1. Len(items[c]) <= 1 /\ Len(items[c]) \in Nat
  <2>1. items[c] \in Seq(ItemType)
    BY DEF DailyInv, DailyType
  <2> QED BY <2>1, LenProperties DEF DailyInv, NothingMissed
<1>2. CASE Len(items[c]) = 0
  BY <1>2, ChecksInOrder DEF TargetOf, NextTarget
<1>3. CASE Len(items[c]) = 1
  BY <1>3, ChecksInOrder DEF TargetOf, NextTarget
<1>4. Len(items[c]) = 0 \/ Len(items[c]) = 1
  <2>1. \A k \in Nat : k <= 1 => k = 0 \/ k = 1
    OBVIOUS
  <2> QED BY <1>1, <2>1, Zenon
<1> QED BY <1>2, <1>3, <1>4

\* A target gets its result: the call goes to the next target or to the report.
LEMMA TargetIsDone ==
  ASSUME DailyInv, NEW c \in Calls, pc[c] \in CheckSteps, NEW item \in ItemType,
         pc' = [pc EXCEPT ![c] = NextTarget(c)],
         items' = [items EXCEPT ![c] = Append(@, item)], found' = [found EXCEPT ![c] = <<>>],
         truth' = truth, unread' = unread,
         item.status = "ok" =>
           /\ truth[TargetOf(c)] = {}
           /\ TargetOf(c) = "es" => RefreshAlerts(truth.refresh) = <<>> \/ c \in unread
  PROVE  DailyInv'
<1>0. PICK last \in Nat : last = Len(items[c]) + 1
  BY LenProperties DEF DailyInv, DailyType
<1>1. items[c] \in Seq(ItemType) /\ NothingMissed(c) /\ \A n \in 1..Len(items[c]) : OkItem(c, n)
  BY DEF DailyInv, DailyType
<1>2. Len(items[c]) \in {0, 1} /\ NextTarget(c) = IF Len(items[c]) = 1 THEN "report" ELSE "backup"
  BY AtATarget
<1>3. /\ items'[c] = Append(items[c], item) /\ items'[c] \in Seq(ItemType) /\ Len(items'[c]) = last
      /\ items'[c][last] = item /\ \A n \in 1..Len(items[c]) : items'[c][n] = items[c][n]
  BY <1>0, <1>1, AppendProperties DEF DailyInv, DailyType
<1>4. DailyType'
  <2>1. pc' \in [Calls -> DailySteps]
    BY <1>2 DEF DailyInv, DailyType, DailySteps, CheckSteps
  <2>2. <<>> \in Seq(Kinds)
    BY EmptySeq
  <2> QED BY <1>3, <2>1, <2>2 DEF DailyInv, DailyType
<1>5. NothingMissed(c)'
  <2>1. pc'[c] = NextTarget(c)
    BY DEF DailyInv, DailyType
  <2> QED BY <1>0, <1>2, <1>3, <2>1 DEF NothingMissed, CheckSteps
<1>6. RefreshAlerts(truth.refresh)' = RefreshAlerts(truth.refresh) /\ Targets[last] = TargetOf(c)
  BY <1>0 DEF TargetOf
<1>7. \A n \in 1..Len(items'[c]) : OkItem(c, n)'
  <2>1. ASSUME NEW n \in 1..Len(items[c]) PROVE OkItem(c, n)'
    BY <1>1, <1>3, <1>6, <2>1 DEF OkItem
  <2>2. OkItem(c, last)'
    BY <1>3, <1>6 DEF OkItem
  <2>3. \A n \in 1..last : n = last \/ n \in 1..Len(items[c])
    BY <1>0, <1>2
  <2> QED BY <1>3, <2>1, <2>2, <2>3
<1>8. \A d \in Calls \ {c} : items'[d] = items[d] /\ found'[d] = found[d] /\ pc'[d] = pc[d]
  BY DEF DailyInv, DailyType
<1> QED BY <1>4, <1>5, <1>7, <1>8, OneCallMoves

\* A check adds alerts to those of the target; it adds none only when it had nothing to find.
LEMMA AlertsAdded ==
  ASSUME DailyInv, NEW c \in Calls, NEW check \in {"backup", "log", "refresh"}, pc[c] = check,
         pc' = [pc EXCEPT ![c] = NextCheck(check)], NEW alerts \in Seq(Kinds),
         found' = [found EXCEPT ![c] = @ \o alerts],
         items' = items, truth' = truth, unread \subseteq unread',
         alerts = <<>> /\ check # "refresh" => check \notin truth[TargetOf(c)],
         alerts = <<>> /\ check = "refresh" /\ TargetOf(c) = "es" =>
           RefreshAlerts(truth.refresh) = <<>> \/ c \in unread'
  PROVE  DailyInv'
<1>1. found[c] \in Seq(Kinds) /\ NothingMissed(c) /\ \A n \in 1..Len(items[c]) : OkItem(c, n)
  BY DEF DailyInv, DailyType
<1>2. /\ found'[c] = found[c] \o alerts /\ found'[c] \in Seq(Kinds)
      /\ found'[c] = <<>> => found[c] = <<>> /\ alerts = <<>>
  BY <1>1, ConcatProperties, ConcatEqualIffEmpty DEF DailyInv, DailyType
<1>3. NextCheck(check) = IF check = "backup" THEN "log" ELSE IF check = "log" THEN "refresh" ELSE "space"
  BY ChecksInOrder
<1>4. DailyType'
  BY <1>2, <1>3 DEF DailyInv, DailyType, DailySteps, CheckSteps
<1>5. pc'[c] = NextCheck(check)
  BY DEF DailyInv, DailyType
<1>6. RefreshAlerts(truth.refresh)' = RefreshAlerts(truth.refresh) /\ TargetOf(c)' = TargetOf(c)
  BY DEF TargetOf
<1>7. NothingMissed(c)'
  BY <1>1, <1>2, <1>3, <1>5, <1>6 DEF NothingMissed, CheckSteps
<1>8. \A n \in 1..Len(items'[c]) : OkItem(c, n)'
  BY <1>1, <1>6 DEF OkItem
<1>9. \A d \in Calls \ {c} : items'[d] = items[d] /\ found'[d] = found[d] /\ pc'[d] = pc[d]
  BY DEF DailyInv, DailyType
<1> QED BY <1>4, <1>7, <1>8, <1>9, OneCallMoves

\* A check of a target, the last of which makes its result.
LEMMA CheckKeeps ==
  ASSUME DailyInv, NEW c \in Calls, NEW check \in CheckSteps, Check(c, check)
  PROVE  DailyInv'
<1> DEFINE alerts == AlertsOf(TargetOf(c), check)
<1>0. pc[c] = check /\ truth' = truth /\ unread' = unread /\ found[c] \in Seq(Kinds)
      /\ truth \in [es : SUBSET Troubles, other : SUBSET Troubles, refresh : RefreshCases]
  BY DEF Check, At, DailyInv, DailyType
<1>1. TargetOf(c) \in {"es", "other"}
  BY <1>0, AtATarget
<1>2. /\ alerts \in Seq(Kinds)
      /\ check # "refresh" => (alerts = <<>> <=> check \notin truth[TargetOf(c)])
      /\ check = "refresh" /\ TargetOf(c) = "es" => alerts = RefreshAlerts(truth.refresh)
  BY <1>1, AlertsTell DEF DailyInv
<1>3. CASE check = "space"
  <2> DEFINE all == found[c] \o alerts
  <2>1. /\ items' = [items EXCEPT ![c] = Append(@, Item(c, all))] /\ found' = [found EXCEPT ![c] = <<>>]
        /\ pc' = [pc EXCEPT ![c] = NextTarget(c)]
    BY <1>3 DEF Check, Go
  <2>2. all \in Seq(Kinds) /\ (all = <<>> => found[c] = <<>> /\ alerts = <<>>)
    BY <1>0, <1>2, ConcatProperties, ConcatEqualIffEmpty
  <2> HIDE DEF alerts, all
  <2>3. Item(c, all) \in ItemType /\ (Item(c, all).status = "ok" => all = <<>>)
    BY <1>1, <2>2 DEF Item, ItemType
  <2>4. NothingMissed(c)
    BY DEF DailyInv
  <2>5. truth[TargetOf(c)] \subseteq Troubles
    BY <1>0, <1>1
  <2>6. ASSUME Item(c, all).status = "ok"
        PROVE  /\ truth[TargetOf(c)] = {}
               /\ TargetOf(c) = "es" => RefreshAlerts(truth.refresh) = <<>> \/ c \in unread
    <3>1. found[c] = <<>> /\ "space" \notin truth[TargetOf(c)]
      BY <1>2, <1>3, <2>2, <2>3, <2>6
    <3>2. "backup" \notin truth[TargetOf(c)] /\ "log" \notin truth[TargetOf(c)]
          /\ (TargetOf(c) = "es" => RefreshAlerts(truth.refresh) = <<>> \/ c \in unread)
      BY <1>0, <1>3, <2>4, <3>1 DEF NothingMissed
    <3> QED BY <2>5, <3>1, <3>2 DEF Troubles
  <2> QED BY <1>0, <2>1, <2>3, <2>6, TargetIsDone
<1>4. CASE check # "space"
  <2>1. found' = [found EXCEPT ![c] = found[c] \o alerts] /\ items' = items
        /\ pc' = [pc EXCEPT ![c] = NextCheck(check)] /\ check \in {"backup", "log", "refresh"}
    BY <1>4 DEF Check, Go, CheckSteps
  <2> HIDE DEF alerts
  <2> QED BY <1>0, <1>2, <2>1, AlertsAdded
<1> QED BY <1>3, <1>4

\* A failing check is a result that is not ok, an alert, or a backlog that was not read.
LEMMA CheckFailsKeeps == ASSUME DailyInv, NEW c \in Calls, CheckFails(c) PROVE DailyInv'
<1>0. pc[c] \in CheckSteps /\ truth' = truth
  BY ChecksInOrder DEF CheckFails
<1>1. TargetOf(c) \in {"es", "other"} /\ found[c] \in Seq(Kinds)
  BY <1>0, AtATarget DEF DailyInv, DailyType
<1>2. CASE /\ items' = [items EXCEPT ![c] = Append(@, [target |-> TargetOf(c), status |-> "failed",
                                                        problems |-> <<"unreachable">>])]
           /\ found' = [found EXCEPT ![c] = <<>>]
           /\ Strike(c, "failed", NextTarget(c)) /\ UNCHANGED unread
  <2>1. <<"unreachable">> \in Seq(Kinds)
    <3>1. "unreachable" \in Kinds
      BY DEF Kinds
    <3> QED BY <3>1, OneAlert
  <2>2. PICK item \in ItemType :
          item.status = "failed" /\ items' = [items EXCEPT ![c] = Append(@, item)]
    BY <1>1, <1>2, <2>1 DEF ItemType
  <2> QED BY <1>0, <1>2, <2>2, TargetIsDone DEF Strike
<1>3. CASE /\ At(c, "log") /\ found' = [found EXCEPT ![c] = Append(@, "log")]
           /\ Strike(c, "failed", "refresh") /\ UNCHANGED <<items, unread>>
  <2>1. <<"log">> \in Seq(Kinds) /\ <<"log">> # <<>>
    <3>1. "log" \in Kinds
      BY DEF Kinds, Troubles
    <3> QED BY <3>1, OneAlert
  <2>2. Append(found[c], "log") = found[c] \o <<"log">>
    <3>1. "log" \in Kinds
      BY DEF Kinds, Troubles
    <3> QED BY <1>1, <3>1, AppendIsConcat
  <2>3. found' = [found EXCEPT ![c] = found[c] \o <<"log">>]
    BY <1>3, <2>2
  <2>4. pc[c] = "log" /\ pc' = [pc EXCEPT ![c] = NextCheck("log")]
    BY <1>3, ChecksInOrder DEF At, Strike
  <2> QED BY <1>0, <1>3, <2>1, <2>3, <2>4, AlertsAdded
<1>4. CASE /\ At(c, "refresh") /\ TargetOf(c) = "es"
           /\ found' = [found EXCEPT ![c] = @ \o RefreshAlerts([truth.refresh EXCEPT !.breach = 0])]
           /\ unread' = unread \cup {c} /\ Strike(c, "backlog", "space") /\ UNCHANGED items
  <2> DEFINE alerts == RefreshAlerts([truth.refresh EXCEPT !.breach = 0])
  <2>1. [truth.refresh EXCEPT !.breach = 0] \in [stuck : Nat, breach : Nat, errors : Nat, ran : BOOLEAN]
    BY DailyAssumption DEF DailyInv, DailyType
  <2>2. alerts \in Seq(Kinds)
    BY <2>1, RefreshAlertsAreListed
  <2> HIDE DEF alerts
  <2>3. pc[c] = "refresh" /\ pc' = [pc EXCEPT ![c] = NextCheck("refresh")]
    BY <1>4, ChecksInOrder DEF At, Strike
  <2>4. found' = [found EXCEPT ![c] = found[c] \o alerts]
    BY <1>4 DEF alerts
  <2> QED BY <1>0, <1>4, <2>2, <2>3, <2>4, AlertsAdded
<1> QED BY <1>2, <1>3, <1>4 DEF CheckFails

\* Every other step of a check leaves the results alone.
LEMMA DailyStep == ASSUME DailyInv, DailyNext PROVE DailyInv'
<1>1. PICK c \in Calls :
        \/ DailyStart(c) \/ \E check \in ToSet(Checks) : Check(c, check)
        \/ CheckFails(c) \/ Report(c) \/ OpenDm(c) \/ Format(c) \/ Post(c)
  BY DEF DailyNext
<1>2. CASE DailyStart(c)
  BY <1>2, DailyQuiet DEF DailyStart, Begin, At, dailyVars, dailyLocals
<1>3. CASE \E check \in ToSet(Checks) : Check(c, check)
  BY <1>3, CheckKeeps, ChecksInOrder
<1>4. CASE CheckFails(c)
  BY <1>4, CheckFailsKeeps
<1>5. CASE Report(c) \/ OpenDm(c) \/ Format(c) \/ Post(c)
  <2>1. /\ UNCHANGED <<truth, items, found, unread>>
        /\ \E s \in {"report", "openDm", "format", "post", "done", "raised"} : pc' = [pc EXCEPT ![c] = s]
    <3>1. CASE Report(c)
      BY <3>1 DEF Report, Go, Strike, dailyVars, dailyLocals
    <3>2. CASE OpenDm(c)
      BY <3>2 DEF OpenDm, Go, Strike, dailyVars, dailyLocals
    <3>3. CASE Format(c)
      BY <3>3 DEF Format, Go
    <3>4. CASE Post(c)
      BY <3>4 DEF Post, Go, Strike
    <3> QED BY <1>5, <3>1, <3>2, <3>3, <3>4
  <2> QED BY <2>1, DailyQuiet
<1> QED BY <1>1, <1>2, <1>3, <1>4, <1>5

\* In a behaviour of another group no target has a result.
ServerDailyInv == IF group = "daily" THEN DailyInv ELSE items = [c \in Calls |-> <<>>]

\* A target the daily check calls ok has nothing wrong, whatever checks failed and however many, but
\* for the backlog of Spain, when the call could not read it.
THEOREM OkTargetsAreClean == Spec => []OkMeansClean
<1>1. Init => ServerDailyInv
  <2> SUFFICES ASSUME Init PROVE ServerDailyInv
    OBVIOUS
  <2>1. /\ items = [c \in Calls |-> <<>>] /\ found = [c \in Calls |-> <<>>]
        /\ pc = [c \in Calls |-> "idle"]
        /\ truth \in [es : SUBSET Troubles, other : SUBSET Troubles, refresh : RefreshCases]
    BY DEF Init, DailyInit, CallInit, Troubles
  <2>2. <<>> \in Seq(ItemType) /\ <<>> \in Seq(Kinds) /\ Len(<<>>) = 0
    BY EmptySeq
  <2>3. DailyType
    BY <2>1, <2>2 DEF DailyType, DailySteps, Ended
  <2>4. \A c \in Calls : NothingMissed(c) /\ \A n \in 1..Len(items[c]) : OkItem(c, n)
    BY <2>1, <2>2 DEF NothingMissed, OkItem, CheckSteps
  <2> QED BY <2>1, <2>3, <2>4 DEF ServerDailyInv, DailyInv
<1>2. ServerDailyInv /\ [Next]_serverVars => ServerDailyInv'
  <2> SUFFICES ASSUME ServerDailyInv, [Next]_serverVars PROVE ServerDailyInv'
    OBVIOUS
  <2>1. CASE group = "daily" /\ DailyNext /\ UNCHANGED group
    BY <2>1, DailyStep DEF ServerDailyInv
  <2>2. CASE group # "daily" /\ UNCHANGED <<group, dailyVars>>
    BY <2>2 DEF ServerDailyInv, dailyVars, dailyLocals
  <2>3. CASE UNCHANGED serverVars
    <3>1. UNCHANGED <<group, pc, truth, items, found, unread>>
      BY <2>3 DEF serverVars, dailyVars, dailyLocals, calls
    <3>2. \A c \in Calls : TargetOf(c)' = TargetOf(c)
      BY <3>1 DEF TargetOf
    <3>3. RefreshAlerts(truth.refresh)' = RefreshAlerts(truth.refresh)
      BY <3>1
    <3> QED BY <3>1, <3>2, <3>3 DEF ServerDailyInv, DailyInv, DailyType, NothingMissed, OkItem
  <2> QED BY <2>1, <2>2, <2>3 DEF Next
<1>3. ServerDailyInv => OkMeansClean
  <2> SUFFICES ASSUME ServerDailyInv, NEW c \in Calls, NEW n \in 1..Len(Targets),
                      n <= Len(items[c]), items[c][n].status = "ok"
               PROVE  /\ truth[Targets[n]] = {}
                      /\ Targets[n] = "es" => RefreshAlerts(truth.refresh) = <<>> \/ c \in unread
    BY DEF OkMeansClean
  <2>1. CASE group = "daily"
    <3>1. Len(items[c]) \in Nat
      BY <2>1, LenProperties DEF ServerDailyInv, DailyInv, DailyType
    <3>2. n \in 1..Len(items[c])
      BY <3>1, ChecksInOrder
    <3> QED BY <2>1, <3>2 DEF ServerDailyInv, DailyInv, OkItem
  <2>2. CASE group # "daily"
    <3>1. items[c] = <<>> /\ Len(<<>>) = 0
      BY <2>2, EmptySeq DEF ServerDailyInv
    <3> QED BY <3>1, ChecksInOrder
  <2> QED BY <2>1, <2>2
<1> QED BY <1>1, <1>2, <1>3, PTL DEF Spec

-----------------------------------------------------------------------------
(* The dependents of the sequence (SequenceRecreate). *)

\* Calls that are open together have met.
SeqMeets ==
  /\ pc \in [Calls -> SeqSteps \cup Ended]
  /\ invalid \subseteq Dependents /\ "exists" \in DOMAIN seq
  /\ work \in [Calls -> SUBSET Dependents] /\ errors \in [Calls -> SUBSET Dependents]
  /\ recompiled \in [Calls -> SUBSET Dependents]
  /\ \A c, d \in Open : c = d \/ d \in met[c]

\* What a call of its own can account for.
Answered(c) == errors[c] \cup (recompiled[c] \cap {"granted"})
\* A call alone has the sequence it created, and what is invalid while it compiles is still to be
\* compiled or was named.
CompileCovers(c) ==
  met[c] = {} =>
    /\ pc[c] \in {"seqInvalid", "seqCompile"} => seq.exists
    /\ pc[c] = "seqCompile" => invalid \subseteq Answered(c) \cup work[c]

DependentsInv == SeqMeets /\ \A c \in Calls : CompileCovers(c)

\* A step of an open call: no other call compiles alone.
LEMMA OpenCallMoves ==
  ASSUME DependentsInv, NEW c \in Open, NEW s \in (SeqSteps \cup Ended) \ {"idle"},
         pc' = [pc EXCEPT ![c] = s], met' = met, invalid' \subseteq Dependents,
         work' \in [Calls -> SUBSET Dependents], errors' \in [Calls -> SUBSET Dependents],
         recompiled' \in [Calls -> SUBSET Dependents], "exists" \in DOMAIN seq', CompileCovers(c)'
  PROVE  DependentsInv'
<1>1. c \in Calls /\ pc[c] \notin Ended
  BY DEF Open
<1>2. Open' \subseteq Open
  BY <1>1 DEF Open, DependentsInv, SeqMeets
<1>3. SeqMeets'
  BY <1>1, <1>2 DEF DependentsInv, SeqMeets
<1>4. ASSUME NEW d \in Calls \ {c} PROVE CompileCovers(d)'
  <2>1. pc'[d] = pc[d]
    BY DEF DependentsInv, SeqMeets
  <2>2. CASE pc[d] \in {"seqInvalid", "seqCompile"}
    <3>1. d \in Open
      BY <2>2 DEF Open, Ended
    <3>2. c \in met[d]
      BY <3>1 DEF DependentsInv, SeqMeets
    <3> QED BY <3>2 DEF CompileCovers
  <2>3. CASE pc[d] \notin {"seqInvalid", "seqCompile"}
    BY <2>1, <2>3 DEF CompileCovers
  <2> QED BY <2>2, <2>3
<1> QED BY <1>3, <1>4 DEF DependentsInv

\* A call begins: it has met the open ones, and they have met it.
LEMMA SeqBegins == ASSUME DependentsInv, NEW c \in Calls, SeqStart(c) PROVE DependentsInv'
<1>1. /\ pc[c] = "idle" /\ pc' = [pc EXCEPT ![c] = "seqRead"]
      /\ UNCHANGED <<seq, invalid, work, errors, recompiled>>
      /\ met' = [d \in Calls |-> IF d = c THEN Open
                                 ELSE IF d \in Open THEN met[d] \cup {c} ELSE met[d]]
  BY DEF SeqStart, Begin, At, seqVars, sequence, seqLocals
<1>2. Open' = Open \cup {c} /\ c \notin Open
  BY <1>1 DEF Open, Ended, DependentsInv, SeqMeets
<1>3. \A a, b \in Open' : a = b \/ b \in met'[a]
  <2> SUFFICES ASSUME NEW a \in Open', NEW b \in Open', a # b PROVE b \in met'[a]
    OBVIOUS
  <2>0. a \in Calls /\ b \in Calls
    BY DEF Open
  <2>1. CASE a = c
    BY <1>1, <1>2, <2>0, <2>1
  <2>2. CASE a # c /\ b = c
    BY <1>1, <1>2, <2>0, <2>2
  <2>3. CASE a # c /\ b # c
    BY <1>1, <1>2, <2>0, <2>3 DEF DependentsInv, SeqMeets
  <2> QED BY <2>1, <2>2, <2>3
<1>4. SeqMeets'
  BY <1>1, <1>3 DEF DependentsInv, SeqMeets, SeqSteps
<1>5. ASSUME NEW d \in Calls PROVE CompileCovers(d)'
  <2>1. CASE d = c
    BY <1>1, <2>1 DEF CompileCovers, DependentsInv, SeqMeets
  <2>2. CASE d # c
    <3>1. pc'[d] = pc[d] /\ (met'[d] = {} => met[d] = {})
      BY <1>1, <2>2 DEF DependentsInv, SeqMeets
    <3> QED BY <1>1, <3>1 DEF CompileCovers, Answered, DependentsInv
  <2> QED BY <2>1, <2>2
<1> QED BY <1>4, <1>5 DEF DependentsInv

\* The compilation of a dependent makes it valid or names it.
LEMMA CompileNames ==
  ASSUME DependentsInv, NEW c \in Calls, Compile(c) \/ SeqFails(c)
  PROVE  DependentsInv'
<1>0. pc[c] \notin Ended /\ c \in Open /\ met' = met
  BY DEF Compile, SeqFails, At, Go, Strike, history, SeqSteps, Ended, Open
<1>t. /\ invalid \subseteq Dependents /\ work \in [Calls -> SUBSET Dependents]
      /\ errors \in [Calls -> SUBSET Dependents] /\ pc \in [Calls -> SeqSteps \cup Ended]
      /\ recompiled \in [Calls -> SUBSET Dependents] /\ CompileCovers(c) /\ "exists" \in DOMAIN seq
  BY DEF DependentsInv, SeqMeets
<1>1. CASE Compile(c) /\ work[c] = {}
  <2>1. pc' = [pc EXCEPT ![c] = "done"] /\ UNCHANGED <<seq, invalid, work, errors, recompiled>>
    BY <1>1 DEF Compile, Go
  <2>2. CompileCovers(c)'
    BY <1>t, <2>1 DEF CompileCovers
  <2> QED BY <1>0, <1>t, <2>1, <2>2, OpenCallMoves DEF SeqSteps, Ended
<1>2. CASE Compile(c) /\ work[c] # {}
  <2>1. PICK d \in work[c] :
          /\ work' = [work EXCEPT ![c] = @ \ {d}]
          /\ recompiled' = [recompiled EXCEPT ![c] = @ \cup {d}]
          /\ invalid' = IF seq.exists /\ (d = "own" \/ grantee) THEN invalid \ {d} ELSE invalid \cup {d}
          /\ pc' = [pc EXCEPT ![c] = "seqCompile"] /\ pc[c] = "seqCompile" /\ UNCHANGED <<seq, errors>>
    BY <1>2 DEF Compile, Go, At
  <2>2. d \in Dependents
    BY <1>t, <2>1
  <2>3. invalid' \subseteq Dependents
    BY <1>t, <2>1, <2>2
  <2>4. work' \in [Calls -> SUBSET Dependents]
    BY <1>t, <2>1
  <2>5. recompiled' \in [Calls -> SUBSET Dependents]
    BY <1>t, <2>1, <2>2
  <2>6. CompileCovers(c)'
    <3>1. /\ work'[c] = work[c] \ {d} /\ recompiled'[c] = recompiled[c] \cup {d}
          /\ errors'[c] = errors[c] /\ pc'[c] = "seqCompile"
      BY <1>t, <2>1
    <3> SUFFICES ASSUME met[c] = {} PROVE seq'.exists /\ invalid' \subseteq Answered(c)' \cup work'[c]
      BY <1>0 DEF CompileCovers
    <3>2. seq.exists /\ invalid \subseteq Answered(c) \cup work[c]
      BY <1>t, <2>1 DEF CompileCovers
    <3>3. ASSUME NEW x \in invalid' PROVE x \in Answered(c)' \cup work'[c]
      <4>1. CASE x = d
        <5>1. d # "own"
          BY <2>1, <3>2, <3>3, <4>1
        <5> QED BY <2>2, <3>1, <4>1, <5>1 DEF Dependents, Answered
      <4>2. CASE x # d
        <5>1. x \in invalid
          BY <2>1, <3>3, <4>2
        <5> QED BY <3>1, <3>2, <4>2, <5>1 DEF Answered
      <4> QED BY <4>1, <4>2
    <3> QED BY <2>1, <3>2, <3>3
  <2> QED BY <1>0, <1>t, <2>1, <2>3, <2>4, <2>5, <2>6, OpenCallMoves DEF SeqSteps, Ended
<1>3. CASE SeqFails(c) /\ pc[c] # "seqCompile"
  <2>1. pc' = [pc EXCEPT ![c] = "raised"] /\ UNCHANGED <<seq, invalid, work, errors, recompiled>>
    BY <1>3 DEF SeqFails, Strike, At, seqVars, sequence, seqLocals
  <2>2. CompileCovers(c)'
    BY <1>t, <2>1 DEF CompileCovers
  <2> QED BY <1>0, <1>t, <2>1, <2>2, OpenCallMoves DEF SeqSteps, Ended
<1>4. CASE SeqFails(c) /\ pc[c] = "seqCompile"
  <2>1. PICK d \in work[c] :
          /\ work' = [work EXCEPT ![c] = @ \ {d}] /\ errors' = [errors EXCEPT ![c] = @ \cup {d}]
          /\ pc' = [pc EXCEPT ![c] = "seqCompile"] /\ UNCHANGED <<seq, invalid, recompiled>>
    BY <1>4 DEF SeqFails, Strike, At, sequence
  <2>2. work' \in [Calls -> SUBSET Dependents] /\ errors' \in [Calls -> SUBSET Dependents]
    BY <1>t, <2>1
  <2>3. work'[c] = work[c] \ {d} /\ errors'[c] = errors[c] \cup {d}
    BY <1>t, <2>1
  <2>4. CompileCovers(c)'
    BY <1>0, <1>4, <1>t, <2>1, <2>3 DEF CompileCovers, Answered
  <2> QED BY <1>0, <1>t, <2>1, <2>2, <2>4, OpenCallMoves DEF SeqSteps, Ended
<1> QED BY <1>1, <1>2, <1>3, <1>4

\* Every other step of the group leaves the calls that compile what they have.
LEMMA DependentsStep == ASSUME DependentsInv, SeqNext PROVE DependentsInv'
<1>1. CASE Draw \/ \E d \in Dependents : Use(d)
  <2>1. UNCHANGED <<pc, met, work, errors, recompiled>> /\ invalid' \subseteq invalid /\ seq.exists
    BY <1>1 DEF Draw, Use, calls, history, seqLocals
  <2>3. "exists" \in DOMAIN seq' /\ seq'.exists
    BY <1>1 DEF Draw, Use, DependentsInv, SeqMeets
  <2>2. Open' = Open
    BY <2>1 DEF Open
  <2> QED BY <2>1, <2>2, <2>3 DEF DependentsInv, SeqMeets, CompileCovers, Answered
<1>2. ASSUME NEW c \in Calls, SeqStart(c) PROVE DependentsInv'
  BY <1>2, SeqBegins
<1>3. ASSUME NEW c \in Calls, Compile(c) \/ SeqFails(c) PROVE DependentsInv'
  BY <1>3, CompileNames
<1>4. ASSUME NEW c \in Calls, ListInvalid(c) PROVE DependentsInv'
  <2>1. /\ c \in Open /\ met' = met /\ pc' = [pc EXCEPT ![c] = "seqCompile"]
        /\ work' = [work EXCEPT ![c] = invalid] /\ UNCHANGED <<seq, invalid, errors, recompiled>>
        /\ pc[c] = "seqInvalid"
    BY <1>4 DEF ListInvalid, At, Go, history, sequence, Open, Ended
  <2>2. work' \in [Calls -> SUBSET Dependents] /\ CompileCovers(c)'
    BY <2>1 DEF DependentsInv, SeqMeets, CompileCovers
  <2> QED BY <2>1, <2>2, OpenCallMoves DEF DependentsInv, SeqMeets, SeqSteps, Ended
<1>5. ASSUME NEW c \in Calls, ReadLast(c) \/ ReadDdl(c) \/ DropSequence(c) \/ CreateSequence(c)
      PROVE  DependentsInv'
  <2>1. c \in Open /\ met' = met /\ UNCHANGED <<work, errors, recompiled>> /\ invalid' \in {invalid, Dependents}
    BY <1>5 DEF ReadLast, ReadDdl, DropSequence, CreateSequence, At, Go, history, Open, Ended, seqVars,
      sequence, seqLocals
  <2>2. \E s \in {"seqDdl", "seqDrop", "seqCreate", "seqInvalid", "raised"} : pc' = [pc EXCEPT ![c] = s]
    BY <1>5 DEF ReadLast, ReadDdl, DropSequence, CreateSequence, Go
  <2>3. pc'[c] = "seqInvalid" => seq'.exists
    BY <1>5 DEF ReadLast, ReadDdl, DropSequence, CreateSequence, At, Go, DependentsInv, SeqMeets
  <2>4. CompileCovers(c)'
    BY <2>1, <2>2, <2>3 DEF CompileCovers, DependentsInv, SeqMeets, Open
  <2>5. "exists" \in DOMAIN seq'
    BY <1>5 DEF ReadLast, ReadDdl, DropSequence, CreateSequence, seqVars, sequence, DependentsInv, SeqMeets
  <2> QED BY <2>1, <2>2, <2>4, <2>5, OpenCallMoves DEF DependentsInv, SeqMeets, SeqSteps, Ended
<1> QED BY <1>1, <1>2, <1>3, <1>4, <1>5 DEF SeqNext

\* The statements of the tools of the other groups.
OtherSteps ==
  InstanceSteps \cup {"count", "merge", "replace", "status", "trigger"} \cup DailySteps
    \cup {"backup", "readFile", "write"} \cup CloneSteps

\* No call of another group compiles a dependent of a sequence.
LEMMA OthersStayAway ==
  ASSUME pc \in [Calls -> OtherSteps],
         \/ SyncNext \/ DailyNext \/ MigNext \/ CloneNext
         \/ Reuse \/ \E c \in Calls : InstanceStart(c) \/ InstanceStep(c)
  PROVE  pc' \in [Calls -> OtherSteps]
<1> DEFINE Moves == pc' = pc \/ \E c \in Calls, s \in OtherSteps : pc' = [pc EXCEPT ![c] = s]
<1> USE DEF Go, Strike, Begin, At
<1>1. CASE SyncNext
  <2>1. PICK c \in Calls : SyncStart(c) \/ Count(c) \/ Merge(c) \/ Replace(c) \/ Status(c)
                           \/ CompileTrigger(c) \/ SyncFails(c)
    BY <1>1 DEF SyncNext
  <2>2. Moves
    BY <2>1 DEF SyncStart, Count, Merge, Replace, Status, CompileTrigger, SyncFails, OtherSteps, CloneSteps
  <2> QED BY <2>2
<1>2. CASE DailyNext
  <2>1. PICK c \in Calls :
          \/ DailyStart(c) \/ \E check \in ToSet(Checks) : Check(c, check)
          \/ CheckFails(c) \/ Report(c) \/ OpenDm(c) \/ Format(c) \/ Post(c)
    BY <1>2 DEF DailyNext
  <2>2. NextTarget(c) \in OtherSteps
    BY DEF NextTarget, OtherSteps, DailySteps, CheckSteps
  <2>3. CASE \E check \in ToSet(Checks) : Check(c, check)
    <3>1. PICK check \in CheckSteps : Check(c, check)
      BY <2>3, ChecksInOrder
    <3>2. pc' = [pc EXCEPT ![c] = IF check = "space" THEN NextTarget(c) ELSE NextCheck(check)]
      BY <3>1 DEF Check
    <3>3. check # "space" => NextCheck(check) \in OtherSteps
      BY ChecksInOrder DEF CheckSteps, OtherSteps, DailySteps
    <3> QED BY <2>2, <3>2, <3>3
  <2>4. CASE CheckFails(c)
    BY <2>2, <2>4 DEF CheckFails, OtherSteps, DailySteps, CheckSteps
  <2>5. CASE DailyStart(c) \/ Report(c) \/ OpenDm(c) \/ Format(c) \/ Post(c)
    <3>1. Moves
      BY <2>5 DEF DailyStart, Report, OpenDm, Format, Post, OtherSteps, DailySteps, CheckSteps, Ended
    <3> QED BY <3>1
  <2> QED BY <2>1, <2>3, <2>4, <2>5
<1>3. CASE MigNext
  <2>1. PICK c \in Calls : MigStart(c) \/ Backup(c) \/ NothingToBackUp(c) \/ ReadFile(c) \/ Write(c) \/ MigFails(c)
    BY <1>3 DEF MigNext
  <2>2. Moves
    BY <2>1 DEF MigStart, Backup, AfterBackup, NothingToBackUp, ReadFile, Write, MigFails, OtherSteps, CloneSteps
  <2> QED BY <2>2
<1>4. CASE CloneNext
  <2>1. CASE Tick \/ SwitchLog \/ Snapshot \/ Start \/ \E f \in DataFiles : Checkpoint(f)
    BY <2>1 DEF Tick, SwitchLog, Snapshot, Start, Checkpoint, calls
  <2>2. ASSUME NEW c \in Calls,
               \/ CloneStart(c) \/ ReadStartup(c) \/ ReadHeaders(c)
               \/ ReadEarlier(c) \/ ReadSpanning(c) \/ ReadLater(c) \/ CloneFails(c)
        PROVE  Moves
    BY <2>2 DEF CloneStart, ReadStartup, ReadHeaders, ReadEarlier, ReadSpanning, ReadLater, CloneFails,
      OtherSteps, CloneSteps, LogSteps
  <2> QED BY <1>4, <2>1, <2>2 DEF CloneNext
<1>5. CASE Reuse
  BY <1>5 DEF Reuse, calls
<1>6. ASSUME NEW c \in Calls, InstanceStart(c) PROVE pc' \in [Calls -> OtherSteps]
  <2>1. PICK r \in Request : pc' = [pc EXCEPT ![c] = FirstOf(r.kind)]
    BY <1>6 DEF InstanceStart
  <2>2. r.kind \in InstanceTools
    BY InstanceAssumption DEF Request
  <2>3. FirstOf(r.kind) \in OtherSteps
    BY <2>2 DEF FirstOf, InstanceTools, OtherSteps, InstanceSteps
  <2> QED BY <2>1, <2>3
<1>7. ASSUME NEW c \in Calls, InstanceStep(c) PROVE pc' \in [Calls -> OtherSteps]
  <2> USE DEF OtherSteps, InstanceSteps, CloneSteps
  <2>1. CASE SetBoth(c) \/ ReadTarget(c) \/ SetLimit(c) \/ ReadLimit(c) \/ SetTarget(c)
             \/ SetProcesses(c) \/ SetSessions(c)
    BY <2>1 DEF SetBoth, ReadTarget, SetLimit, ReadLimit, SetTarget, SetProcesses, SetSessions
  <2>2. CASE ReadProfile(c) \/ WriteProfile(c) \/ Assign(c) \/ CountAccount(c) \/ MakeAccount(c) \/ Grant(c)
    BY <2>2 DEF ReadProfile, WriteProfile, Assign, CountAccount, MakeAccount, Grant
  <2>3. CASE NameFiles(c) \/ AddFile(c) \/ MakeProbeTable(c) \/ PurgeTable(c)
    BY <2>3 DEF NameFiles, AddFile, MakeProbeTable, PurgeTable
  <2>4. CASE LogonTrigger(c) \/ DropTrigger(c) \/ FindSession(c) \/ TouchSession(c) \/ InstanceFails(c)
    BY <2>4 DEF LogonTrigger, DropTrigger, FindSession, TouchSession, InstanceFails
  <2> QED BY <1>7, <2>1, <2>2, <2>3, <2>4 DEF InstanceStep
<1> QED BY <1>1, <1>2, <1>3, <1>4, <1>5, <1>6, <1>7

\* In a behaviour of another group no call compiles.
ServerDependentsInv == IF group = "sequence" THEN DependentsInv ELSE pc \in [Calls -> OtherSteps]

\* A call that compiled the invalid dependents of the sequence it made, and met no other call, left
\* none of the sequence's own schema invalid that it does not name among the errors, and none of
\* another that it does not name at all, whichever statements failed and whatever applications used.
THEOREM DependentsAreNamed == Spec => DependentsValidOrNamed
<1> DEFINE Named(c) == EndsAlone(c) /\ At(c, "seqCompile") /\ pc'[c] = "done" =>
                       invalid \subseteq errors[c] \cup (recompiled[c] \cap {"granted"})
<1>1. Init => ServerDependentsInv
  <2> SUFFICES ASSUME Init PROVE ServerDependentsInv
    OBVIOUS
  <2>1. pc = [c \in Calls |-> "idle"]
    BY DEF Init, CallInit
  <2>2. /\ invalid = IF grantee THEN {} ELSE {"granted"}
        /\ work = [c \in Calls |-> {}] /\ errors = [c \in Calls |-> {}]
        /\ recompiled = [c \in Calls |-> {}] /\ "exists" \in DOMAIN seq
    BY DEF Init, SeqInit
  <2>3. Open = {}
    BY <2>1 DEF Open, Ended
  <2>4. DependentsInv
    BY <2>1, <2>2, <2>3 DEF DependentsInv, SeqMeets, CompileCovers, Dependents, Ended
  <2> QED BY <2>1, <2>4 DEF ServerDependentsInv, OtherSteps, CloneSteps
<1>2. ServerDependentsInv /\ [Next]_serverVars => ServerDependentsInv'
  <2> SUFFICES ASSUME ServerDependentsInv, [Next]_serverVars PROVE ServerDependentsInv'
    OBVIOUS
  <2>1. CASE group = "sequence" /\ SeqNext /\ UNCHANGED group
    BY <2>1, DependentsStep DEF ServerDependentsInv
  <2>2. CASE /\ group # "sequence" /\ UNCHANGED group
             /\ \/ SyncNext \/ DailyNext \/ MigNext \/ CloneNext
                \/ Reuse \/ \E c \in Calls : InstanceStart(c) \/ InstanceStep(c)
    BY <2>2, OthersStayAway DEF ServerDependentsInv
  <2>3. CASE UNCHANGED serverVars
    <3>1. UNCHANGED <<group, pc, met, seq, invalid, work, errors, recompiled>>
      BY <2>3 DEF serverVars, calls, history, seqVars, sequence, seqLocals
    <3>2. Open' = Open
      BY <3>1 DEF Open
    <3> QED BY <3>1, <3>2 DEF ServerDependentsInv, DependentsInv, SeqMeets, CompileCovers, Answered
  <2> QED BY <2>1, <2>2, <2>3 DEF Next
<1>3. ServerDependentsInv /\ [Next]_serverVars => [\A c \in Calls : Named(c)]_<<seqVars, calls>>
  <2> SUFFICES ASSUME ServerDependentsInv, [Next]_serverVars, ~UNCHANGED <<seqVars, calls>>,
                      NEW c \in Calls, EndsAlone(c), At(c, "seqCompile"), pc'[c] = "done"
               PROVE  invalid \subseteq errors[c] \cup (recompiled[c] \cap {"granted"})
    OBVIOUS
  <2>1. group = "sequence" /\ SeqNext
    <3>1. CASE group = "sequence"
      BY <3>1 DEF Next, serverVars
    <3>2. CASE group # "sequence"
      <4>1. "seqCompile" \notin OtherSteps
        BY DEF OtherSteps, InstanceSteps, DailySteps, CheckSteps, CloneSteps, LogSteps, Ended
      <4> QED BY <3>2, <4>1 DEF ServerDependentsInv, At
    <3> QED BY <3>1, <3>2
  <2>2. met[c] = {} /\ pc[c] = "seqCompile" /\ pc'[c] = "done" /\ DependentsInv
    BY <2>1 DEF EndsAlone, At, ServerDependentsInv
  <2>3. pc \in [Calls -> SeqSteps \cup Ended] /\ CompileCovers(c)
    BY <2>2 DEF DependentsInv, SeqMeets
  <2>4. Compile(c) /\ work[c] = {}
    <3>1. ASSUME NEW d \in Calls, NEW s, pc' = [pc EXCEPT ![d] = s] PROVE d = c /\ s = "done"
      BY <2>2, <2>3, <3>1
    <3>2. CASE Draw \/ \E d \in Dependents : Use(d)
      BY <2>2, <3>2 DEF Draw, Use, calls
    <3>3. PICK d \in Calls :
            \/ SeqStart(d) \/ ReadLast(d) \/ ReadDdl(d) \/ DropSequence(d) \/ CreateSequence(d)
            \/ ListInvalid(d) \/ Compile(d) \/ SeqFails(d)
      BY <2>1, <3>2, <2>2 DEF SeqNext, Draw, Use, calls
    <3>4. CASE Compile(d)
      BY <2>2, <3>1, <3>4 DEF Compile, Go
    <3>5. CASE SeqFails(d)
      BY <2>2, <3>1, <3>5 DEF SeqFails, Strike
    <3>6. CASE SeqStart(d) \/ ReadLast(d) \/ ReadDdl(d) \/ DropSequence(d) \/ CreateSequence(d) \/ ListInvalid(d)
      BY <2>2, <3>1, <3>6 DEF SeqStart, ReadLast, ReadDdl, DropSequence, CreateSequence, ListInvalid,
        Begin, Go
    <3> QED BY <3>3, <3>4, <3>5, <3>6
  <2> QED BY <2>2, <2>3, <2>4 DEF CompileCovers, Answered
<1> QED BY <1>1, <1>2, <1>3, PTL DEF Spec, DependentsValidOrNamed
-----------------------------------------------------------------------------
(* The sum over a set of files.  The library defines it by recursion over  *)
(* the subsets; least elements take the place of an induction.             *)

\* A set with 0 that is closed under the successor holds every natural number.
LEMMA AllNaturals ==
  ASSUME NEW T \in SUBSET Nat, 0 \in T, \A n \in T : n + 1 \in T
  PROVE  T = Nat
<1> SUFFICES ASSUME Nat \ T # {} PROVE FALSE
  OBVIOUS
<1>1. PICK x \in Nat \ T : \A y \in Nat \ T : ~(<<y, x>> \in OpToRel(<, Nat))
  BY NatLessThanWellFounded, WFMin
<1>2. x # 0 /\ x - 1 \in Nat
  OBVIOUS
<1>3. x - 1 \notin T
  <2>1. x - 1 \in T => (x - 1) + 1 \in T
    OBVIOUS
  <2> QED BY <2>1
<1>4. <<x - 1, x>> \in OpToRel(<, Nat)
  <2>1. <<x - 1, x>> \in Nat \X Nat /\ <<x - 1, x>>[1] < <<x - 1, x>>[2]
    BY <1>2
  <2> QED BY <2>1, Zenon DEF OpToRel
<1> QED BY <1>1, <1>2, <1>3, <1>4, Zenon

\* The GiB of the files of S; the file the fold takes first from s; g adds the files of each set of D.
SumGib(S) == MapThenSumSet(LAMBDA f : f.gib, S)
OneOf(s) == CHOOSE x \in s : TRUE
Adds(D, g) == g = [s \in D |-> IF s = {} THEN 0 ELSE OneOf(s).gib + g[s \ {OneOf(s)}]]

\* The library's sum is the value of the adding function it chooses.
LEMMA SumDef == ASSUME NEW S PROVE SumGib(S) = (CHOOSE g : Adds(SUBSET S, g))[S]
BY DEF SumGib, MapThenSumSet, MapThenFoldSet, Adds, OneOf

\* The subsets of S with at most n members.
Sized(S, n) == {s \in SUBSET S : Cardinality(s) <= n}

\* What an adding function gives for one set.
LEMMA AddsAt ==
  ASSUME NEW D, NEW g, Adds(D, g), NEW s \in D
  PROVE  IF s = {} THEN g[s] = 0 ELSE OneOf(s) \in s /\ g[s] = OneOf(s).gib + g[s \ {OneOf(s)}]
BY DEF Adds, OneOf

\* A finite set without one of its members has one member less.
LEMMA OneLess ==
  ASSUME NEW S, IsFiniteSet(S), NEW s \in SUBSET S, NEW x \in s
  PROVE  /\ Cardinality(s) \in Nat \ {0} /\ Cardinality(s \ {x}) = Cardinality(s) - 1
         /\ s \ {x} \in SUBSET S
<1>1. IsFiniteSet(s)
  BY FS_Subset
<1>2. Cardinality(s \ {x}) = Cardinality(s) - 1 /\ Cardinality(s) \in Nat /\ Cardinality(s \ {x}) \in Nat
  BY <1>1, FS_RemoveElement, FS_CardinalityType, FS_Subset
<1> QED BY <1>2

\* Sized, for its largest and its smallest bound, and from a bound to the next.
LEMMA SizedAll == ASSUME NEW S, IsFiniteSet(S) PROVE Sized(S, Cardinality(S)) = SUBSET S
BY FS_Subset DEF Sized

LEMMA SizedNone == ASSUME NEW S, IsFiniteSet(S) PROVE Sized(S, 0) = {{}}
<1>1. \A s \in SUBSET S : s # {} => Cardinality(s) \in Nat \ {0}
  BY OneLess
<1>2. Cardinality({}) = 0
  BY FS_EmptySet
<1> QED BY <1>1, <1>2 DEF Sized

LEMMA SizedMore ==
  ASSUME NEW S, IsFiniteSet(S), NEW n \in Nat, NEW s \in Sized(S, n + 1), s # {}
  PROVE  /\ s \in SUBSET S /\ OneOf(s) \in s
         /\ \A x \in s : s \ {x} \in Sized(S, n)
<1>1. s \in SUBSET S /\ OneOf(s) \in s
  BY DEF Sized, OneOf
<1>2. ASSUME NEW x \in s PROVE s \ {x} \in Sized(S, n)
  <2>1. Cardinality(s) \in Nat \ {0} /\ Cardinality(s \ {x}) = Cardinality(s) - 1 /\ s \ {x} \in SUBSET S
    BY <1>1, OneLess
  <2> QED BY <2>1 DEF Sized
<1> QED BY <1>1, <1>2

\* There is an adding function on the subsets of a finite set, so that the library's choice is one.
LEMMA FoldExists ==
  ASSUME NEW S, IsFiniteSet(S)
  PROVE  \E g : Adds(SUBSET S, g)
<1> DEFINE T == {n \in Nat : \E g : Adds(Sized(S, n), g)}
<1>1. 0 \in T
  <2> DEFINE g == [s \in Sized(S, 0) |-> 0]
  <2>1. \A s \in Sized(S, 0) : s = {}
    BY SizedNone
  <2>2. g = [s \in Sized(S, 0) |-> IF s = {} THEN 0 ELSE OneOf(s).gib + g[s \ {OneOf(s)}]]
    BY <2>1
  <2> HIDE DEF g
  <2> QED BY <2>2 DEF Adds
<1>2. ASSUME NEW n \in T PROVE n + 1 \in T
  <2>1. PICK g : Adds(Sized(S, n), g)
    OBVIOUS
  <2> DEFINE h == [s \in Sized(S, n + 1) |-> IF s = {} THEN 0 ELSE OneOf(s).gib + g[s \ {OneOf(s)}]]
  <2>2. \A s \in Sized(S, n) : s \in Sized(S, n + 1) /\ h[s] = g[s]
    <3>1. \A s \in Sized(S, n) : s \in Sized(S, n + 1)
      BY FS_CardinalityType, FS_Subset DEF Sized
    <3>2. ASSUME NEW s \in Sized(S, n) PROVE h[s] = g[s]
      <4>1. IF s = {} THEN g[s] = 0 ELSE g[s] = OneOf(s).gib + g[s \ {OneOf(s)}]
        BY <2>1, AddsAt
      <4> QED BY <3>1, <4>1
    <3> QED BY <3>1, <3>2
  <2>3. \A s \in Sized(S, n + 1) : s # {} => s \ {OneOf(s)} \in Sized(S, n)
    BY SizedMore
  <2>4. h = [s \in Sized(S, n + 1) |-> IF s = {} THEN 0 ELSE OneOf(s).gib + h[s \ {OneOf(s)}]]
    BY <2>2, <2>3
  <2>5. n + 1 \in Nat
    OBVIOUS
  <2> HIDE DEF h
  <2>6. Adds(Sized(S, n + 1), h)
    BY <2>4 DEF Adds
  <2> QED BY <2>5, <2>6
<1>3. T = Nat
  <2> HIDE DEF T
  <2>1. T \in SUBSET Nat
    BY DEF T
  <2> QED BY <1>1, <1>2, <2>1, AllNaturals
<1>4. Cardinality(S) \in T
  BY <1>3, FS_CardinalityType
<1> QED BY <1>4, SizedAll

\* An adding function may take any member first: the order of the files does not matter.
LEMMA FoldOne ==
  ASSUME NEW S, IsFiniteSet(S), \A x \in S : x.gib \in Nat, NEW g, Adds(SUBSET S, g)
  PROVE  \A s \in SUBSET S : g[s] \in Nat /\ \A x \in s : g[s] = x.gib + g[s \ {x}]
<1> DEFINE Right(s) == g[s] \in Nat /\ \A x \in s : g[s] = x.gib + g[s \ {x}]
           T == {n \in Nat : \A s \in Sized(S, n) : Right(s)}
<1>0. Right({})
  <2>1. {} \in SUBSET S
    OBVIOUS
  <2>2. g[{}] = 0
    BY <2>1, AddsAt
  <2> QED BY <2>2
<1>1. 0 \in T
  <2>1. Sized(S, 0) = {{}}
    BY SizedNone
  <2> HIDE DEF Right
  <2> QED BY <1>0, <2>1
<1>2. ASSUME NEW n \in T PROVE n + 1 \in T
  <2> HIDE DEF Right
  <2> SUFFICES ASSUME NEW s \in Sized(S, n + 1), s # {} PROVE Right(s)
    BY <1>0
  <2>0. n \in Nat /\ \A u \in Sized(S, n) : Right(u)
    OBVIOUS
  <2> USE DEF Right
  <2> HIDE DEF T
  <2>1. s \in SUBSET S /\ \A x \in s : s \ {x} \in Sized(S, n)
    BY <2>0, SizedMore
  <2> DEFINE y == OneOf(s)
  <2>2. y \in s /\ g[s] = y.gib + g[s \ {y}]
    <3>1. Adds(SUBSET S, g) /\ s \in SUBSET S
      BY <2>1
    <3>2. IF s = {} THEN g[s] = 0 ELSE OneOf(s) \in s /\ g[s] = OneOf(s).gib + g[s \ {OneOf(s)}]
      BY <3>1, AddsAt, SMTT(30)
    <3> QED BY <3>2
  <2>3. \A x \in s : Right(s \ {x})
    BY <2>0, <2>1
  <2> HIDE DEF y
  <2>4. ASSUME NEW x \in s, x # y PROVE g[s] = x.gib + g[s \ {x}]
    <3>1. g[s \ {y}] = x.gib + g[(s \ {y}) \ {x}]
      BY <2>2, <2>3, <2>4
    <3>2. g[s \ {x}] = y.gib + g[(s \ {x}) \ {y}]
      BY <2>2, <2>3, <2>4
    <3>3. (s \ {x}) \ {y} = (s \ {y}) \ {x}
      OBVIOUS
    <3>4. x.gib \in Nat /\ y.gib \in Nat
      BY <2>1, <2>2
    <3>5. g[(s \ {y}) \ {x}] \in Nat
      <4>1. (s \ {y}) \ {x} \in Sized(S, n)
        <5>1. s \ {y} \in Sized(S, n) /\ s \ {y} \in SUBSET S /\ x \in s \ {y}
          BY <2>1, <2>2, <2>4
        <5>2. Cardinality((s \ {y}) \ {x}) = Cardinality(s \ {y}) - 1 /\ (s \ {y}) \ {x} \in SUBSET S
              /\ Cardinality(s \ {y}) \in Nat
          BY <5>1, OneLess
        <5> QED BY <2>0, <5>1, <5>2 DEF Sized
      <4> QED BY <2>0, <4>1
    <3>6. g[s \ {x}] = y.gib + g[(s \ {y}) \ {x}]
      BY <3>2, <3>3
    <3>7. g[s] = y.gib + (x.gib + g[(s \ {y}) \ {x}])
      BY <2>2, <3>1
    <3> DEFINE v == x.gib
               w == y.gib
               z == g[(s \ {y}) \ {x}]
    <3>8. v \in Nat /\ w \in Nat /\ z \in Nat /\ g[s \ {x}] = w + z /\ g[s] = w + (v + z)
      BY <3>4, <3>5, <3>6, <3>7
    <3> HIDE DEF v, w, z
    <3>9. g[s] = v + g[s \ {x}]
      BY <3>8
    <3> QED BY <3>9 DEF v
  <2>5. g[s] \in Nat
    <3>1. g[s \ {y}] \in Nat /\ y.gib \in Nat
      BY <2>1, <2>2, <2>3
    <3> QED BY <2>2, <3>1
  <2> QED BY <2>2, <2>4, <2>5
<1>3. T = Nat
  <2> HIDE DEF T
  <2>1. T \in SUBSET Nat
    BY DEF T
  <2> QED BY <1>1, <1>2, <2>1, AllNaturals
<1>4. Cardinality(S) \in T
  BY <1>3, FS_CardinalityType
<1> QED BY <1>4, SizedAll

\* An adding function on the subsets of S.
Sums(S, g) == Adds(SUBSET S, g)

\* Two adding functions agree where both are defined.
LEMMA FoldSame ==
  ASSUME NEW S, IsFiniteSet(S), NEW R, R \subseteq S, NEW g, Sums(S, g), NEW h, Sums(R, h)
  PROVE  g[R] = h[R]
<1> USE DEF Sums
<1> DEFINE Same(s) == g[s] = h[s]
           T == {n \in Nat : \A s \in Sized(R, n) : Same(s)}
<1>0. IsFiniteSet(R)
  BY FS_Subset
<1>1. Same({})
  <2>1. {} \in SUBSET R /\ {} \in SUBSET S
    OBVIOUS
  <2>2. Adds(SUBSET S, g) /\ Adds(SUBSET R, h)
    OBVIOUS
  <2>3. g[{}] = 0
    BY <2>1, <2>2, AddsAt
  <2>4. h[{}] = 0
    BY <2>1, <2>2, AddsAt
  <2> QED BY <2>3, <2>4
<1>2. 0 \in T
  <2> HIDE DEF Same
  <2> QED BY <1>0, <1>1, SizedNone
<1>3. ASSUME NEW n \in T PROVE n + 1 \in T
  <2> HIDE DEF Same
  <2>a. n + 1 \in Nat
    OBVIOUS
  <2> SUFFICES ASSUME NEW s \in Sized(R, n + 1), s # {} PROVE Same(s)
    BY <1>1, <2>a, Zenon
  <2>0. \A u \in Sized(R, n) : Same(u)
    OBVIOUS
  <2> USE DEF Same
  <2>1. s \in SUBSET R /\ s \in SUBSET S
    BY DEF Sized
  <2>2. OneOf(s) \in s /\ g[s] = OneOf(s).gib + g[s \ {OneOf(s)}] /\ h[s] = OneOf(s).gib + h[s \ {OneOf(s)}]
    <3>1. Adds(SUBSET S, g) /\ Adds(SUBSET R, h)
      OBVIOUS
    <3>2. IF s = {} THEN g[s] = 0 ELSE OneOf(s) \in s /\ g[s] = OneOf(s).gib + g[s \ {OneOf(s)}]
      BY <2>1, <3>1, AddsAt, SMTT(30)
    <3>3. IF s = {} THEN h[s] = 0 ELSE OneOf(s) \in s /\ h[s] = OneOf(s).gib + h[s \ {OneOf(s)}]
      BY <2>1, <3>1, AddsAt, SMTT(30)
    <3> QED BY <3>2, <3>3
  <2>3. s \ {OneOf(s)} \in Sized(R, n)
    BY <1>0, SizedMore
  <2> QED BY <2>0, <2>2, <2>3
<1>4. T = Nat
  <2> HIDE DEF T
  <2>1. T \in SUBSET Nat
    BY DEF T
  <2> QED BY <1>2, <1>3, <2>1, AllNaturals
<1>5. Cardinality(R) \in T
  BY <1>0, <1>4, FS_CardinalityType
<1> QED BY <1>0, <1>5, SizedAll

\* No files have 0 GiB, and a file more adds its own.
LEMMA SumEmpty == SumGib({}) = 0
<1>1. \E g : Adds(SUBSET {}, g)
  BY FoldExists, FS_EmptySet
<1> QED BY <1>1, SumDef, AddsAt

LEMMA SumAdd ==
  ASSUME NEW S, IsFiniteSet(S), \A x \in S : x.gib \in Nat, NEW f, f \notin S, f.gib \in Nat
  PROVE  SumGib(S) \in Nat /\ SumGib(S \cup {f}) = f.gib + SumGib(S)
<1> DEFINE R == S \cup {f}
           g == CHOOSE g : Adds(SUBSET R, g)
           h == CHOOSE h : Adds(SUBSET S, h)
<1>1. IsFiniteSet(R)
  BY FS_AddElement
<1>2. Adds(SUBSET R, g) /\ Adds(SUBSET S, h)
  BY <1>1, FoldExists
<1>3. SumGib(S) = h[S] /\ SumGib(R) = g[R]
  BY SumDef
<1> HIDE DEF g, h
<1>4. g[S] = h[S]
  <2>1. S \in SUBSET R /\ S \in SUBSET S
    OBVIOUS
  <2> HIDE DEF R
  <2>2. Sums(R, g) /\ Sums(S, h) /\ S \subseteq R
    BY <1>2, <2>1 DEF Sums
  <2> QED BY <1>1, <2>2, FoldSame, Zenon
<1>5. g[R] = f.gib + g[R \ {f}]
  <2>1. f \in R /\ R \in SUBSET R /\ \A x \in R : x.gib \in Nat
    OBVIOUS
  <2> HIDE DEF R
  <2> QED BY <1>1, <1>2, <2>1, FoldOne
<1>6. h[S] \in Nat
  <2>1. S \in SUBSET S
    OBVIOUS
  <2> QED BY <1>2, <2>1, FoldOne
<1>7. R \ {f} = S
  OBVIOUS
<1> QED BY <1>3, <1>4, <1>5, <1>6, <1>7
-----------------------------------------------------------------------------
(* What the administration tools answer (InstanceTools). *)

InstanceCalls ==
  /\ pc \in [Calls -> InstanceSteps \cup Ended] /\ req \in [Calls -> Arguments]
  /\ met \in [Calls -> SUBSET Calls] /\ struck = [c \in Calls |-> struck[c]]
  /\ left \in [Calls -> Nat] /\ got \in [Calls -> Int]

InstanceData ==
  /\ pga \in [target : Nat, limit : Nat]
  /\ spfile \in [processes : Nat, sessions : Nat]
  /\ profile \in [limit : Nat, assigned : BOOLEAN]
  /\ account = [exists |-> account.exists, pass |-> account.pass, locked |-> account.locked, privs |-> account.privs]
  /\ space = [layout |-> space.layout, files |-> space.files]
  /\ IsFiniteSet(space.files) /\ \A f \in space.files : f.gib \in Nat
  /\ probes \subseteq Seconds
  /\ session = [serial |-> session.serial, traced |-> session.traced]

\* Calls that are open together have met.
InstanceMeets ==
  /\ \A c \in Calls : pc[c] = "idle" => met[c] = {}
  /\ \A a, b \in Open : a # b => b \in met[a]

\* The statements of each tool.
ToolAt(c) ==
  LET k == req[c].kind IN
  /\ pc[c] = "setBoth" => k = "pgaBoth"
  /\ pc[c] \in {"readTarget", "setLimit"} => k = "pgaLimit"
  /\ pc[c] = "readLimit" => k = "pgaTarget"
  /\ pc[c] = "setTarget" => k \in {"pgaBoth", "pgaTarget"}
  /\ pc[c] \in {"setProcesses", "setSessions"} => k = "connLimits"
  /\ pc[c] \in {"readProfile", "writeProfile", "assign"} => k = "userLimit"
  /\ pc[c] \in {"countAccount", "makeAccount", "grant"} => k = "readonly"
  /\ pc[c] = "grant" => left[c] \in 1..Privileges(req[c])
  /\ pc[c] \in {"nameFiles", "addFile"} => k = "expand"
  /\ pc[c] \in {"makeTable", "purgeTable"} => k = "compression"
  /\ pc[c] \in {"logonTrigger", "dropTrigger"} => k = "logonTrace"
  /\ pc[c] = "dropTrigger" => ~req[c].wide
  /\ pc[c] \in {"findSession", "touchSession"} => k \in {"kill", "sessionTrace"}

\* What a call has still to add and what it has added are together what it was asked for.
FilesAt(c) ==
  /\ pc[c] \in {"idle", "nameFiles"} => FilesOf(c) = {}
  /\ pc[c] = "addFile" => req[c].n = left[c] + SumGib(FilesOf(c))

\* What the statements before have changed is still so, for a call that is alone.
DoneSoFar(c) ==
  c \in Open /\ met[c] = {} =>
    /\ pc[c] = "setTarget" /\ req[c].kind = "pgaBoth" => pga.limit = req[c].m
    /\ pc[c] = "setSessions" => spfile.processes = req[c].n
    /\ pc[c] = "assign" => profile.limit = req[c].n
    /\ pc[c] = "grant" =>
         /\ account.exists /\ ~account.locked /\ account.pass = c
         /\ 1..(Privileges(req[c]) - left[c]) \subseteq account.privs

InstanceInv ==
  /\ InstanceCalls /\ InstanceData /\ InstanceMeets
  /\ \A c \in Calls : ToolAt(c) /\ FilesAt(c) /\ DoneSoFar(c)

\* What an answer of call c says (AnsweredIsDone), in the state after it.
Done(c) ==
  LET r == req[c] IN
  /\ r.kind = "pgaBoth" => pga' = [target |-> r.n, limit |-> r.m]
  /\ r.kind = "connLimits" => spfile' = [processes |-> r.n, sessions |-> r.n]
  /\ r.kind = "userLimit" => profile' = [limit |-> r.n, assigned |-> TRUE]
  /\ r.kind = "readonly" =>
       /\ account'.exists /\ ~account'.locked /\ account'.pass = c
       /\ 1..Privileges(r) \subseteq account'.privs
  /\ r.kind = "expand" => r.n = SumGib({f \in space'.files : f.by = c})
  /\ r.kind = "compression" => got'[c] \notin probes'
  /\ r.kind = "logonTrace" => trigger' = r.wide
  /\ r.kind = "kill" => r.n \in killed'
  /\ r.kind = "sessionTrace" => session' = [serial |-> r.n, traced |-> r.wide]

Answers(c) == met[c] = {} /\ pc'[c] = "done" => Done(c)

\* Call c goes on to statement s: what it left of others stays, since a call that
\* is alone sees no step of another.
LEMMA CallGoesOn ==
  ASSUME InstanceInv, NEW c \in Calls, pc[c] \in InstanceSteps,
         NEW s \in (InstanceSteps \cup Ended) \ {"idle"}, pc' = [pc EXCEPT ![c] = s],
         UNCHANGED <<req, met>>, UNCHANGED struck \/ struck' = [struck EXCEPT ![c] = "failed"],
         left' \in [Calls -> Nat], got' \in [Calls -> Int], InstanceData',
         \A d \in Calls : d # c => left'[d] = left[d] /\ FilesOf(d)' = FilesOf(d),
         ToolAt(c)', FilesAt(c)', DoneSoFar(c)'
  PROVE  InstanceInv'
<1>0. c \in Open /\ Open' \subseteq Open /\ \A d \in Calls : d # c => pc'[d] = pc[d]
  BY DEF Open, InstanceInv, InstanceCalls, InstanceSteps, Ended
<1>1. InstanceCalls' /\ InstanceMeets'
  <2>1. InstanceCalls'
    BY <1>0 DEF InstanceInv, InstanceCalls
  <2>2. InstanceMeets'
    BY <1>0 DEF InstanceInv, InstanceCalls, InstanceMeets
  <2> QED BY <2>1, <2>2
<1>2. ASSUME NEW d \in Calls, d # c PROVE ToolAt(d)' /\ FilesAt(d)' /\ DoneSoFar(d)'
  <2>1. ToolAt(d) /\ FilesAt(d)
    BY DEF InstanceInv
  <2>2. pc'[d] = pc[d] /\ left'[d] = left[d] /\ FilesOf(d)' = FilesOf(d) /\ req' = req
    BY <1>0, <1>2
  <2>3. ToolAt(d)'
    BY <2>1, <2>2 DEF ToolAt, Privileges
  <2>4. FilesAt(d)'
    BY <2>1, <2>2 DEF FilesAt
  <2>5. DoneSoFar(d)'
    BY <1>0, <1>2 DEF DoneSoFar, InstanceInv, InstanceMeets
  <2> QED BY <2>3, <2>4, <2>5
<1> QED BY <1>1, <1>2 DEF InstanceInv

\* set_saved_pga_parameters, set_saved_pga_aggregate_limit, set_saved_pga_aggregate_target.
LEMMA PgaAnswers ==
  ASSUME InstanceInv, NEW c \in Calls,
         SetBoth(c) \/ ReadTarget(c) \/ SetLimit(c) \/ ReadLimit(c) \/ SetTarget(c)
  PROVE  InstanceInv' /\ Answers(c)
<1> USE DEF Go, At, history, params, objects, instLocals, instVars
<1>0. /\ InstanceCalls /\ InstanceData /\ ToolAt(c) /\ FilesAt(c) /\ DoneSoFar(c)
      /\ req[c] \in Arguments /\ req[c].n \in Nat /\ req[c].m \in Nat
  BY DEF InstanceInv, InstanceCalls, Arguments
<1>1. /\ pc[c] \in {"setBoth", "readTarget", "setLimit", "readLimit", "setTarget"}
      /\ UNCHANGED <<req, met, struck, left, got, spfile, profile, account, space, probes, session>>
      /\ pga' \in [target : Nat, limit : Nat]
      /\ \E s \in {"setLimit", "setTarget", "done", "raised"} : pc' = [pc EXCEPT ![c] = s]
  <2>1. CASE SetBoth(c)
    BY <1>0, <2>1 DEF SetBoth, InstanceData
  <2>2. CASE ReadTarget(c)
    BY <1>0, <2>2 DEF ReadTarget, InstanceData
  <2>3. CASE SetLimit(c)
    BY <1>0, <2>3 DEF SetLimit, InstanceData
  <2>4. CASE ReadLimit(c)
    BY <1>0, <2>4 DEF ReadLimit, InstanceData
  <2>5. CASE SetTarget(c)
    BY <1>0, <2>5 DEF SetTarget, InstanceData
  <2> QED BY <2>1, <2>2, <2>3, <2>4, <2>5
<1>2. PICK s \in {"setLimit", "setTarget", "done", "raised"} : pc' = [pc EXCEPT ![c] = s]
  BY <1>1
<1>3. pc'[c] = s /\ c \in Open
  BY <1>0, <1>1, <1>2 DEF InstanceCalls, Open, Ended
<1>4. ToolAt(c)' /\ DoneSoFar(c)' /\ Answers(c)
  <2> USE <1>0, <1>1, <1>3 DEF ToolAt, DoneSoFar, Answers, Done
  <2>1. CASE SetBoth(c)
    <3>1. s = "setTarget" /\ pga'.limit = req[c].m /\ req[c].kind = "pgaBoth"
      BY <1>2, <2>1 DEF SetBoth, InstanceData, InstanceCalls
    <3> QED BY <3>1
  <2>2. CASE ReadTarget(c)
    <3>1. s \in {"raised", "setLimit"} /\ req[c].kind = "pgaLimit"
      BY <1>2, <2>2 DEF ReadTarget, InstanceCalls
    <3> QED BY <3>1
  <2>3. CASE SetLimit(c)
    <3>1. s = "done" /\ req[c].kind = "pgaLimit"
      BY <1>2, <2>3 DEF SetLimit, InstanceCalls
    <3> QED BY <3>1
  <2>4. CASE ReadLimit(c)
    <3>1. s \in {"raised", "setTarget"} /\ req[c].kind = "pgaTarget"
      BY <1>2, <2>4 DEF ReadLimit, InstanceCalls
    <3> QED BY <3>1
  <2>5. CASE SetTarget(c)
    <3>1. s = "done" /\ req[c].kind \in {"pgaBoth", "pgaTarget"} /\ pc[c] = "setTarget"
      BY <1>2, <2>5 DEF SetTarget, InstanceCalls
    <3>2. pga' = [target |-> req[c].n, limit |-> pga.limit]
      BY <2>5 DEF SetTarget, InstanceData
    <3> QED BY <3>1, <3>2
  <2> QED BY <2>1, <2>2, <2>3, <2>4, <2>5
<1>5. FilesAt(c)' /\ \A d \in Calls : FilesOf(d)' = FilesOf(d)
  BY <1>1, <1>3 DEF FilesAt, FilesOf
<1>6. InstanceData' /\ left' \in [Calls -> Nat] /\ got' \in [Calls -> Int]
  BY <1>0, <1>1 DEF InstanceData, InstanceCalls
<1>7. pc[c] \in InstanceSteps /\ s \in (InstanceSteps \cup Ended) \ {"idle"}
  BY <1>1 DEF InstanceSteps, Ended
<1>8. InstanceInv'
  BY <1>1, <1>2, <1>4, <1>5, <1>6, <1>7, CallGoesOn
<1> QED BY <1>4, <1>8

\* set_saved_database_connection_limits and set_saved_user_connection_limit.
LEMMA LimitAnswers ==
  ASSUME InstanceInv, NEW c \in Calls,
         SetProcesses(c) \/ SetSessions(c) \/ ReadProfile(c) \/ WriteProfile(c) \/ Assign(c)
  PROVE  InstanceInv' /\ Answers(c)
<1> USE DEF Go, At, history, params, objects, instLocals, instVars
<1>0. /\ InstanceCalls /\ InstanceData /\ ToolAt(c) /\ FilesAt(c) /\ DoneSoFar(c)
      /\ req[c] \in Arguments /\ req[c].n \in Nat
  BY DEF InstanceInv, InstanceCalls, Arguments
<1>1. /\ pc[c] \in {"setProcesses", "setSessions", "readProfile", "writeProfile", "assign"}
      /\ UNCHANGED <<req, met, struck, left, pga, account, space, probes, session>>
      /\ got' \in [Calls -> Int]
      /\ spfile' \in [processes : Nat, sessions : Nat] /\ profile' \in [limit : Nat, assigned : BOOLEAN]
      /\ \E s \in {"setSessions", "writeProfile", "assign", "done", "raised"} : pc' = [pc EXCEPT ![c] = s]
  <2> USE <1>0 DEF InstanceData, InstanceCalls
  <2>1. CASE SetProcesses(c)
    BY <2>1 DEF SetProcesses
  <2>2. CASE SetSessions(c)
    BY <2>2 DEF SetSessions
  <2>3. CASE ReadProfile(c)
    BY <2>3 DEF ReadProfile
  <2>4. CASE WriteProfile(c)
    BY <2>4 DEF WriteProfile
  <2>5. CASE Assign(c)
    BY <2>5 DEF Assign
  <2> QED BY <2>1, <2>2, <2>3, <2>4, <2>5
<1>2. PICK s \in {"setSessions", "writeProfile", "assign", "done", "raised"} : pc' = [pc EXCEPT ![c] = s]
  BY <1>1
<1>3. pc'[c] = s /\ c \in Open
  BY <1>0, <1>1, <1>2 DEF InstanceCalls, Open, Ended
<1>4. ToolAt(c)' /\ DoneSoFar(c)' /\ Answers(c)
  <2> USE <1>0, <1>1, <1>3 DEF ToolAt, DoneSoFar, Answers, Done
  <2>1. CASE SetProcesses(c)
    <3>1. s = "setSessions" /\ spfile'.processes = req[c].n /\ req[c].kind = "connLimits"
      BY <1>2, <2>1 DEF SetProcesses, InstanceData, InstanceCalls
    <3> QED BY <3>1
  <2>2. CASE SetSessions(c)
    <3>1. s = "done" /\ req[c].kind = "connLimits" /\ pc[c] = "setSessions"
      BY <1>2, <2>2 DEF SetSessions, InstanceCalls
    <3>2. spfile' = [processes |-> spfile.processes, sessions |-> req[c].n]
      BY <2>2 DEF SetSessions, InstanceData
    <3> QED BY <3>1, <3>2
  <2>3. CASE ReadProfile(c)
    <3>1. s = "writeProfile" /\ req[c].kind = "userLimit"
      BY <1>2, <2>3 DEF ReadProfile, InstanceCalls
    <3> QED BY <3>1
  <2>4. CASE WriteProfile(c)
    <3>1. /\ s \in {"raised", "assign"} /\ req[c].kind = "userLimit"
          /\ s = "assign" => profile'.limit = req[c].n
      BY <1>2, <2>4 DEF WriteProfile, InstanceData, InstanceCalls
    <3> QED BY <3>1
  <2>5. CASE Assign(c)
    <3>1. s = "done" /\ req[c].kind = "userLimit" /\ pc[c] = "assign"
      BY <1>2, <2>5 DEF Assign, InstanceCalls
    <3>2. profile' = [limit |-> profile.limit, assigned |-> TRUE]
      BY <2>5 DEF Assign, InstanceData
    <3> QED BY <3>1, <3>2
  <2> QED BY <2>1, <2>2, <2>3, <2>4, <2>5
<1>5. FilesAt(c)' /\ \A d \in Calls : FilesOf(d)' = FilesOf(d)
  BY <1>1, <1>3 DEF FilesAt, FilesOf
<1>6. InstanceData' /\ left' \in [Calls -> Nat]
  BY <1>0, <1>1 DEF InstanceData, InstanceCalls
<1>7. pc[c] \in InstanceSteps /\ s \in (InstanceSteps \cup Ended) \ {"idle"}
  BY <1>1 DEF InstanceSteps, Ended
<1>8. InstanceInv'
  BY <1>1, <1>2, <1>4, <1>5, <1>6, <1>7, CallGoesOn
<1> QED BY <1>4, <1>8

\* create_readonly_user.
LEMMA AccountAnswers ==
  ASSUME InstanceInv, NEW c \in Calls, CountAccount(c) \/ MakeAccount(c) \/ Grant(c)
  PROVE  InstanceInv' /\ Answers(c)
<1> USE DEF Go, At, history, params, objects, instLocals, instVars
<1>0. /\ InstanceCalls /\ InstanceData /\ ToolAt(c) /\ FilesAt(c) /\ DoneSoFar(c)
      /\ req[c] \in Arguments /\ Privileges(req[c]) \in Nat \ {0}
  BY DEF InstanceInv, InstanceCalls, Privileges
<1>1. /\ pc[c] \in {"countAccount", "makeAccount", "grant"}
      /\ UNCHANGED <<req, met, struck, pga, spfile, profile, space, probes, session>>
      /\ got' \in [Calls -> Int] /\ left' \in [Calls -> Nat]
      /\ \A d \in Calls : d # c => left'[d] = left[d]
      /\ account' = [exists |-> account'.exists, pass |-> account'.pass, locked |-> account'.locked,
                     privs |-> account'.privs]
      /\ \E s \in {"makeAccount", "grant", "done", "raised"} : pc' = [pc EXCEPT ![c] = s]
  <2> USE <1>0 DEF InstanceData, InstanceCalls
  <2>1. CASE CountAccount(c)
    BY <2>1 DEF CountAccount
  <2>2. CASE MakeAccount(c)
    <3>1. CASE got[c] = 0 /\ account.exists
      BY <2>2, <3>1 DEF MakeAccount
    <3>2. CASE ~(got[c] = 0 /\ account.exists)
      <4>1. /\ pc[c] = "makeAccount" /\ pc' = [pc EXCEPT ![c] = "grant"]
            /\ left' = [left EXCEPT ![c] = Privileges(req[c])]
            /\ UNCHANGED <<req, met, struck, pga, spfile, profile, space, probes, session, got>>
            /\ account' = [account EXCEPT !.exists = TRUE, !.pass = c, !.locked = FALSE]
        BY <2>2, <3>2 DEF MakeAccount
      <4>2. account' = [exists |-> TRUE, pass |-> c, locked |-> FALSE, privs |-> account.privs]
        BY <4>1
      <4> QED BY <4>1, <4>2
    <3> QED BY <3>1, <3>2
  <2>3. CASE Grant(c)
    <3>1. left[c] \in Nat \ {0} /\ left' = [left EXCEPT ![c] = left[c] - 1]
      BY <2>3 DEF Grant, ToolAt
    <3>2. left[c] - 1 \in Nat
      BY <3>1
    <3>3. left' \in [Calls -> Nat] /\ \A d \in Calls : d # c => left'[d] = left[d]
      BY <3>1, <3>2
    <3> QED BY <2>3, <3>3 DEF Grant
  <2> QED BY <2>1, <2>2, <2>3
<1>2. PICK s \in {"makeAccount", "grant", "done", "raised"} : pc' = [pc EXCEPT ![c] = s]
  BY <1>1
<1>3. pc'[c] = s /\ c \in Open
  BY <1>0, <1>1, <1>2 DEF InstanceCalls, Open, Ended
<1>4. ToolAt(c)' /\ DoneSoFar(c)' /\ Answers(c)
  <2>1. CASE CountAccount(c)
    <3>1. s = "makeAccount" /\ req[c].kind = "readonly"
      BY <1>0, <1>2, <1>3, <2>1 DEF CountAccount, InstanceCalls, ToolAt
    <3> QED BY <1>1, <1>3, <3>1 DEF ToolAt, DoneSoFar, Answers
  <2>2. CASE MakeAccount(c)
    <3>1. /\ s \in {"raised", "grant"} /\ req[c].kind = "readonly"
          /\ s = "grant" =>
               /\ left'[c] = Privileges(req[c])
               /\ account'.exists /\ ~account'.locked /\ account'.pass = c
      BY <1>0, <1>2, <1>3, <2>2 DEF MakeAccount, InstanceCalls, InstanceData, ToolAt
    <3>2. 1..(Privileges(req[c]) - Privileges(req[c])) = {}
      BY <1>0
    <3>3. Privileges(req[c]) \in 1..Privileges(req[c])
      BY <1>0
    <3>4. Privileges(req[c])' = Privileges(req[c])
      BY <1>1 DEF Privileges
    <3> QED BY <1>1, <1>3, <3>1, <3>2, <3>3, <3>4 DEF ToolAt, DoneSoFar, Answers
  <2>3. CASE Grant(c)
    <3> DEFINE p == Privileges(req[c])
               l == left[c]
    <3>1. /\ req[c].kind = "readonly" /\ l \in 1..p /\ p \in Nat
          /\ s = IF l = 1 THEN "done" ELSE "grant"
          /\ left'[c] = l - 1
          /\ account' = [account EXCEPT !.privs = account.privs \cup {p - l + 1}]
      BY <1>0, <1>2, <1>3, <2>3 DEF Grant, InstanceCalls, ToolAt
    <3>2. /\ account'.exists = account.exists /\ account'.locked = account.locked
          /\ account'.pass = account.pass /\ account'.privs = account.privs \cup {p - l + 1}
      BY <1>0, <3>1 DEF InstanceData
    <3>3. Privileges(req[c])' = p /\ pc[c] = "grant"
      BY <1>1, <2>3 DEF Privileges, Grant
    <3>4. 1..(p - (l - 1)) = 1..(p - l) \cup {p - l + 1}
      <4> HIDE DEF p, l
      <4> QED BY <3>1
    <3>5. met[c] = {} =>
            /\ account'.exists /\ ~account'.locked /\ account'.pass = c
            /\ 1..(p - left'[c]) \subseteq account'.privs
      BY <1>0, <1>3, <3>1, <3>2, <3>3, <3>4 DEF DoneSoFar
    <3> HIDE DEF p, l
    <3>6. s = "grant" => left'[c] \in 1..p
      BY <3>1
    <3>7. s = "done" => p - left'[c] = p
      BY <3>1
    <3> QED BY <1>1, <1>3, <3>1, <3>3, <3>5, <3>6, <3>7 DEF ToolAt, DoneSoFar, Answers, Done, p
  <2> QED BY <2>1, <2>2, <2>3
<1>5. FilesAt(c)' /\ \A d \in Calls : FilesOf(d)' = FilesOf(d)
  BY <1>1, <1>3 DEF FilesAt, FilesOf
<1>6. InstanceData'
  BY <1>0, <1>1 DEF InstanceData
<1>7. pc[c] \in InstanceSteps /\ s \in (InstanceSteps \cup Ended) \ {"idle"}
  BY <1>1 DEF InstanceSteps, Ended
<1>8. InstanceInv'
  BY <1>1, <1>2, <1>4, <1>5, <1>6, <1>7, CallGoesOn
<1> QED BY <1>4, <1>8

\* expand_saved_tablespace: the second in the names of the files.
LEMMA NameFilesAnswers ==
  ASSUME InstanceInv, NEW c \in Calls, NameFiles(c) PROVE InstanceInv' /\ Answers(c)
<1> USE DEF Go, At, history, params, objects, instLocals, instVars
<1>0. /\ InstanceCalls /\ InstanceData /\ ToolAt(c) /\ FilesAt(c) /\ req[c] \in Arguments
      /\ req[c].n \in Nat
  BY DEF InstanceInv, InstanceCalls, Arguments
<1>1. /\ pc[c] = "nameFiles" /\ pc' = [pc EXCEPT ![c] = "addFile"]
      /\ UNCHANGED <<req, met, struck, pga, spfile, profile, account, space, probes, session>>
      /\ left' = [left EXCEPT ![c] = req[c].n] /\ \E n \in Seconds : got' = [got EXCEPT ![c] = n]
  BY DEF NameFiles
<1>2. left' \in [Calls -> Nat] /\ got' \in [Calls -> Int] /\ pc'[c] = "addFile"
      /\ \A d \in Calls : d # c => left'[d] = left[d]
  BY <1>0, <1>1 DEF InstanceCalls, Seconds
<1>3. \A d \in Calls : FilesOf(d)' = FilesOf(d)
  BY <1>1 DEF FilesOf
<1>4. FilesOf(c) = {} /\ left'[c] = req[c].n /\ req[c].kind = "expand"
  BY <1>0, <1>1 DEF FilesAt, InstanceCalls, ToolAt
<1>6. FilesAt(c)'
  <2>1. SumGib(FilesOf(c)') = 0
    BY <1>3, <1>4, SumEmpty
  <2>2. req'[c].n = left'[c] + SumGib(FilesOf(c)')
    BY <1>0, <1>1, <1>4, <2>1
  <2> QED BY <1>2, <2>2 DEF FilesAt
<1>7. ToolAt(c)' /\ DoneSoFar(c)' /\ Answers(c)
  BY <1>1, <1>2, <1>4 DEF ToolAt, DoneSoFar, Answers
<1>8. InstanceData'
  BY <1>0, <1>1 DEF InstanceData
<1>9. pc[c] \in InstanceSteps /\ "addFile" \in (InstanceSteps \cup Ended) \ {"idle"}
  BY <1>1 DEF InstanceSteps
<1> QED BY <1>1, <1>2, <1>3, <1>6, <1>7, <1>8, <1>9, CallGoesOn

\* A file is no larger than what is left, and has a size.
LEMMA FileSize ==
  ASSUME NEW l \in Nat PROVE Min({l, MaxFileGib}) \in Nat /\ Min({l, MaxFileGib}) <= l
<1> DEFINE blocks == MaxFileBlocks \div BlocksPerGib - 1
<1>1. BlocksPerGib \in Nat \ {0} /\ MaxFileBlocks \in Nat
  BY InstanceAssumption DEF MaxFileBlocks
<1>2. blocks \in Int
  BY <1>1
<1> HIDE DEF blocks
<1>3. Max({1, blocks}) \in {1, blocks} /\ Max({1, blocks}) >= 1
  <2>1. \E x \in {1, blocks} : \A y \in {1, blocks} : x >= y
    BY <1>2
  <2> QED BY <2>1 DEF Max
<1>4. MaxFileGib \in Nat
  BY <1>2, <1>3 DEF MaxFileGib, blocks
<1>5. {l, MaxFileGib} \in SUBSET Nat /\ {l, MaxFileGib} # {} /\ l \in {l, MaxFileGib}
  BY <1>4
<1>6. /\ Min({l, MaxFileGib}) \in {l, MaxFileGib}
      /\ \A y \in {l, MaxFileGib} : Min({l, MaxFileGib}) <= y
  BY <1>5, MinOfNaturals
<1> QED BY <1>5, <1>6

LEMMA AddFileAnswers ==
  ASSUME InstanceInv, NEW c \in Calls, AddFile(c) PROVE InstanceInv' /\ Answers(c)
<1> USE DEF Go, At, history, params, objects, instLocals, instVars
<1> DEFINE gib == Min({left[c], MaxFileGib})
           file == [name |-> FileName(c), gib |-> gib, by |-> c]
<1>0. /\ InstanceCalls /\ InstanceData /\ ToolAt(c) /\ FilesAt(c) /\ req[c] \in Arguments
      /\ left[c] \in Nat /\ req[c].n \in Nat
  BY DEF InstanceInv, InstanceCalls, Arguments
<1>1. /\ pc[c] = "addFile" /\ req[c].kind = "expand"
      /\ UNCHANGED <<req, met, struck, pga, spfile, profile, account, probes, session, got>>
  BY <1>0 DEF AddFile, ToolAt
<1>2. gib \in Nat /\ gib <= left[c]
  BY <1>0, FileSize
<1> HIDE DEF gib
<1>3. \/ /\ pc' = [pc EXCEPT ![c] = "raised"] /\ UNCHANGED <<space, left>>
      \/ /\ \A f \in space.files : f.name # FileName(c)
         /\ space' = [space EXCEPT !.files = space.files \cup {file}]
         /\ left' = [left EXCEPT ![c] = left[c] - gib]
         /\ pc' = [pc EXCEPT ![c] = IF left[c] = gib THEN "done" ELSE "addFile"]
  BY DEF AddFile, gib
<1>4. pc[c] \in InstanceSteps /\ "raised" \in (InstanceSteps \cup Ended) \ {"idle"}
  BY <1>1 DEF InstanceSteps, Ended
<1>5. CASE pc' = [pc EXCEPT ![c] = "raised"] /\ UNCHANGED <<space, left>>
  <2>1. pc'[c] = "raised" /\ \A d \in Calls : FilesOf(d)' = FilesOf(d)
    BY <1>0, <1>5 DEF InstanceCalls, FilesOf
  <2>2. ToolAt(c)' /\ DoneSoFar(c)' /\ FilesAt(c)' /\ Answers(c)
    BY <2>1 DEF ToolAt, DoneSoFar, FilesAt, Answers
  <2>3. InstanceData' /\ left' \in [Calls -> Nat] /\ got' \in [Calls -> Int]
    BY <1>0, <1>1, <1>5 DEF InstanceData, InstanceCalls
  <2>4. InstanceInv'
    BY <1>1, <1>4, <1>5, <2>1, <2>2, <2>3, CallGoesOn
  <2> QED BY <2>2, <2>4
<1>6. CASE /\ \A f \in space.files : f.name # FileName(c)
           /\ space' = [space EXCEPT !.files = space.files \cup {file}]
           /\ left' = [left EXCEPT ![c] = left[c] - gib]
           /\ pc' = [pc EXCEPT ![c] = IF left[c] = gib THEN "done" ELSE "addFile"]
  <2> DEFINE s == IF left[c] = gib THEN "done" ELSE "addFile"
  <2>1. file.name = FileName(c) /\ file.gib = gib /\ file.by = c
    OBVIOUS
  <2> HIDE DEF file
  <2>2. file \notin space.files
    BY <1>6, <2>1
  <2>3. space'.files = space.files \cup {file} /\ space' = [layout |-> space'.layout, files |-> space'.files]
    BY <1>0, <1>6 DEF InstanceData
  <2>4. FilesOf(c)' = FilesOf(c) \cup {file} /\ file \notin FilesOf(c)
    BY <2>1, <2>2, <2>3 DEF FilesOf
  <2>5. \A d \in Calls : d # c => FilesOf(d)' = FilesOf(d)
    BY <2>1, <2>3 DEF FilesOf
  <2>6. IsFiniteSet(FilesOf(c)) /\ \A x \in FilesOf(c) : x.gib \in Nat
    BY <1>0, FS_Subset DEF InstanceData, FilesOf
  <2>7. SumGib(FilesOf(c)) \in Nat /\ SumGib(FilesOf(c)') = gib + SumGib(FilesOf(c))
    BY <1>2, <2>1, <2>4, <2>6, SumAdd
  <2>8. req[c].n = left[c] + SumGib(FilesOf(c))
    BY <1>0, <1>1 DEF FilesAt
  <2>9. left[c] - gib \in Nat
    BY <1>0, <1>2
  <2>10. /\ left' \in [Calls -> Nat] /\ got' \in [Calls -> Int] /\ left'[c] = left[c] - gib /\ pc'[c] = s
         /\ \A d \in Calls : d # c => left'[d] = left[d]
    BY <1>0, <1>1, <1>6, <2>9 DEF InstanceCalls
  <2>11. req[c].n = left'[c] + SumGib(FilesOf(c)')
    BY <1>0, <1>2, <2>7, <2>8, <2>10
  <2>12. FilesAt(c)'
    BY <1>1, <2>10, <2>11 DEF FilesAt
  <2>13. InstanceData'
    <3>1. IsFiniteSet(space'.files) /\ \A f \in space'.files : f.gib \in Nat
      BY <1>0, <1>2, <2>1, <2>3, FS_AddElement DEF InstanceData
    <3> QED BY <1>0, <1>1, <2>3, <3>1 DEF InstanceData
  <2>14. ToolAt(c)' /\ DoneSoFar(c)'
    BY <1>1, <2>10 DEF ToolAt, DoneSoFar
  <2>15. s = "done" => req[c].n = SumGib(FilesOf(c)')
    BY <1>0, <1>2, <2>7, <2>10, <2>11
  <2>16. Answers(c)
    <3>1. FilesOf(c)' = {f \in space'.files : f.by = c}
      BY DEF FilesOf
    <3> QED BY <1>1, <2>10, <2>15, <3>1 DEF Answers, Done
  <2>17. s \in (InstanceSteps \cup Ended) \ {"idle"}
    BY DEF InstanceSteps, Ended
  <2>18. InstanceInv'
    BY <1>1, <1>4, <1>6, <2>5, <2>10, <2>12, <2>13, <2>14, <2>17, CallGoesOn
  <2> QED BY <2>16, <2>18
<1> QED BY <1>3, <1>5, <1>6

\* test_saved_table_compression, set_saved_all_users_login_trace, kill_saved_oracle_session and
\* set_saved_oracle_session_trace.
LEMMA ObjectAnswers ==
  ASSUME InstanceInv, NEW c \in Calls,
         \/ MakeProbeTable(c) \/ PurgeTable(c) \/ LogonTrigger(c) \/ DropTrigger(c)
         \/ FindSession(c) \/ TouchSession(c)
  PROVE  InstanceInv' /\ Answers(c)
<1> USE DEF Go, At, history, params, objects, instLocals, instVars
<1>0. InstanceCalls /\ InstanceData /\ ToolAt(c) /\ FilesAt(c) /\ req[c] \in Arguments
  BY DEF InstanceInv, InstanceCalls
<1>1. /\ pc[c] \in {"makeTable", "purgeTable", "logonTrigger", "dropTrigger", "findSession", "touchSession"}
      /\ UNCHANGED <<req, met, struck, left, pga, spfile, profile, account, space>>
      /\ got' \in [Calls -> Int] /\ probes' \subseteq Seconds
      /\ session' = [serial |-> session'.serial, traced |-> session'.traced]
      /\ \E s \in {"purgeTable", "dropTrigger", "touchSession", "done", "raised"} : pc' = [pc EXCEPT ![c] = s]
  <2> USE <1>0 DEF InstanceData, InstanceCalls
  <2>1. CASE MakeProbeTable(c)
    BY <2>1 DEF MakeProbeTable, Seconds
  <2>2. CASE PurgeTable(c)
    BY <2>2 DEF PurgeTable
  <2>3. CASE LogonTrigger(c) \/ DropTrigger(c)
    BY <2>3 DEF LogonTrigger, DropTrigger
  <2>4. CASE FindSession(c)
    BY <2>4 DEF FindSession
  <2>5. CASE TouchSession(c)
    <3>1. Touched(c) => session' = [serial |-> session'.serial, traced |-> session'.traced]
      BY DEF Touched
    <3> QED BY <2>5, <3>1 DEF TouchSession
  <2> QED BY <2>1, <2>2, <2>3, <2>4, <2>5
<1>2. PICK s \in {"purgeTable", "dropTrigger", "touchSession", "done", "raised"} : pc' = [pc EXCEPT ![c] = s]
  BY <1>1
<1>3. pc'[c] = s
  BY <1>0, <1>2 DEF InstanceCalls
<1>4. ToolAt(c)' /\ Answers(c)
  <2> USE <1>0, <1>1, <1>3 DEF ToolAt, Answers, Done
  <2>1. CASE MakeProbeTable(c)
    <3>1. /\ s \in {"purgeTable", "done"} /\ req[c].kind = "compression"
          /\ s = "done" => got'[c] = -1
      BY <1>2, <2>1 DEF MakeProbeTable, InstanceCalls
    <3>2. -1 \notin probes'
      BY DEF Seconds
    <3> QED BY <3>1, <3>2
  <2>2. CASE PurgeTable(c)
    <3>1. s = "done" /\ req[c].kind = "compression" /\ got'[c] \notin probes'
      BY <1>2, <2>2 DEF PurgeTable, InstanceCalls
    <3> QED BY <3>1
  <2>3. CASE LogonTrigger(c)
    <3>1. /\ req[c].kind = "logonTrace" /\ req[c].wide \in BOOLEAN
          /\ s \in {"done", "dropTrigger", "raised"} /\ (s = "dropTrigger" => ~req[c].wide)
          /\ s = "done" => req[c].wide /\ trigger' = TRUE
      BY <1>2, <2>3 DEF LogonTrigger, InstanceCalls, Arguments
    <3> QED BY <3>1
  <2>4. CASE DropTrigger(c)
    <3>1. req[c].kind = "logonTrace" /\ req[c].wide = FALSE /\ trigger' = FALSE /\ s \in {"done", "raised"}
      BY <1>2, <2>4 DEF DropTrigger, InstanceCalls, Arguments
    <3> QED BY <3>1
  <2>5. CASE FindSession(c)
    <3>1. s \in {"touchSession", "raised"} /\ req[c].kind \in {"kill", "sessionTrace"}
      BY <1>2, <2>5 DEF FindSession, InstanceCalls
    <3> QED BY <3>1
  <2>6. CASE TouchSession(c)
    <3>1. req[c].kind \in {"kill", "sessionTrace"} /\ s \in {"done", "raised"}
      BY <1>2, <2>6 DEF TouchSession, InstanceCalls
    <3>2. s = "done" => session.serial = req[c].n /\ Touched(c)
      BY <1>2, <2>6 DEF TouchSession, InstanceCalls
    <3>3. s = "done" /\ req[c].kind = "kill" => req[c].n \in killed'
      BY <3>2 DEF Touched
    <3>4. s = "done" /\ req[c].kind = "sessionTrace" => session' = [serial |-> req[c].n, traced |-> req[c].wide]
      BY <3>2 DEF Touched, InstanceData
    <3> QED BY <3>1, <3>3, <3>4
  <2> QED BY <2>1, <2>2, <2>3, <2>4, <2>5, <2>6
<1>5. FilesAt(c)' /\ DoneSoFar(c)' /\ \A d \in Calls : FilesOf(d)' = FilesOf(d)
  BY <1>1, <1>3 DEF FilesAt, FilesOf, DoneSoFar
<1>6. InstanceData' /\ left' \in [Calls -> Nat]
  BY <1>0, <1>1 DEF InstanceData, InstanceCalls
<1>7. pc[c] \in InstanceSteps /\ s \in (InstanceSteps \cup Ended) \ {"idle"}
  BY <1>1 DEF InstanceSteps, Ended
<1>8. InstanceInv'
  BY <1>1, <1>2, <1>4, <1>5, <1>6, <1>7, CallGoesOn
<1> QED BY <1>4, <1>8

\* A statement fails.
LEMMA InstanceFailsKeeps ==
  ASSUME InstanceInv, NEW c \in Calls, InstanceFails(c) PROVE InstanceInv' /\ struck'[c] = "failed"
<1>0. InstanceCalls /\ InstanceData
  BY DEF InstanceInv
<1>1. /\ pc[c] \in InstanceSteps
      /\ UNCHANGED <<req, met, left, pga, spfile, profile, account, space, probes, session>>
      /\ struck' = [struck EXCEPT ![c] = "failed"]
      /\ got' = [got EXCEPT ![c] = IF At(c, "makeTable") THEN -1 ELSE got[c]]
      /\ \E s \in {"done", "raised"} : pc' = [pc EXCEPT ![c] = s]
  BY DEF InstanceFails, Strike, params, objects
<1>2. PICK s \in {"done", "raised"} : pc' = [pc EXCEPT ![c] = s]
  BY <1>1
<1>3. pc'[c] = s /\ got' \in [Calls -> Int]
  BY <1>0, <1>1, <1>2 DEF InstanceCalls
<1>4. ToolAt(c)' /\ FilesAt(c)' /\ DoneSoFar(c)' /\ \A d \in Calls : FilesOf(d)' = FilesOf(d)
  BY <1>1, <1>3 DEF ToolAt, FilesAt, DoneSoFar, FilesOf
<1>5. InstanceData' /\ left' \in [Calls -> Nat]
  BY <1>0, <1>1 DEF InstanceData, InstanceCalls
<1>6. s \in (InstanceSteps \cup Ended) \ {"idle"}
  BY DEF Ended, InstanceSteps
<1>7. InstanceInv'
  BY <1>1, <1>2, <1>3, <1>4, <1>5, <1>6, CallGoesOn
<1> QED BY <1>0, <1>1, <1>7 DEF InstanceCalls

\* A call begins: it meets those that are open.
LEMMA InstanceBegins ==
  ASSUME InstanceInv, NEW c \in Calls, InstanceStart(c)
  PROVE  InstanceInv' /\ \A d \in Open : pc'[d] = pc[d]
<1>0. InstanceCalls /\ InstanceData /\ InstanceMeets /\ ToolAt(c) /\ FilesAt(c)
  BY DEF InstanceInv
<1>1. PICK r \in Request : Takes(r) /\ Begin(c, r, FirstOf(r.kind), FALSE)
  BY DEF InstanceStart
<1>2. /\ pc[c] = "idle" /\ req' = [req EXCEPT ![c] = r] /\ pc' = [pc EXCEPT ![c] = FirstOf(r.kind)]
      /\ met' = [d \in Calls |-> IF d = c THEN Open
                                 ELSE IF d \in Open THEN met[d] \cup {c} ELSE met[d]]
      /\ UNCHANGED <<struck, left, got, pga, spfile, profile, account, space, probes, session>>
  BY <1>1 DEF Begin, At, InstanceStart, instVars, params, objects, instLocals
<1>3. r \in Arguments /\ r.kind \in InstanceTools
  BY <1>1, InstanceAssumption DEF Request, Arguments, Takes
<1> DEFINE s == FirstOf(r.kind)
<1>4. /\ s \in {"setBoth", "readTarget", "readLimit", "setProcesses", "readProfile", "countAccount",
                "nameFiles", "makeTable", "logonTrigger", "findSession"}
      /\ s = "setBoth" => r.kind = "pgaBoth"
      /\ s = "readTarget" => r.kind = "pgaLimit"
      /\ s = "readLimit" => r.kind = "pgaTarget"
      /\ s = "setProcesses" => r.kind = "connLimits"
      /\ s = "readProfile" => r.kind = "userLimit"
      /\ s = "countAccount" => r.kind = "readonly"
      /\ s = "nameFiles" => r.kind = "expand"
      /\ s = "makeTable" => r.kind = "compression"
      /\ s = "logonTrigger" => r.kind = "logonTrace"
      /\ s = "findSession" => r.kind \in {"kill", "sessionTrace"}
  BY <1>3 DEF FirstOf, InstanceTools
<1> HIDE DEF s
<1>5. /\ pc'[c] = s /\ req'[c] = r /\ \A d \in Calls : d # c => pc'[d] = pc[d] /\ req'[d] = req[d]
      /\ c \notin Open
  BY <1>0, <1>2 DEF InstanceCalls, Open, Ended, s
<1>6. InstanceCalls' /\ InstanceData'
  <2>1. s \in InstanceSteps /\ Open \subseteq Calls
    BY <1>4 DEF InstanceSteps, Open
  <2>2. met' \in [Calls -> SUBSET Calls]
    BY <1>0, <1>2, <2>1 DEF InstanceCalls
  <2> QED BY <1>0, <1>2, <1>3, <2>1, <2>2 DEF InstanceCalls, InstanceData, s
<1>7. InstanceMeets'
  <2>1. Open' \subseteq Open \cup {c}
    BY <1>5 DEF Open
  <2>2. \A d \in Calls : pc'[d] = "idle" => met'[d] = {}
    BY <1>0, <1>2, <1>4, <1>5 DEF InstanceMeets, Open, Ended
  <2>3. ASSUME NEW a \in Open', NEW b \in Open', a # b PROVE b \in met'[a]
    <3>1. a \in Calls /\ b \in Calls
      BY DEF Open
    <3> QED BY <1>0, <1>2, <1>5, <2>1, <2>3, <3>1 DEF InstanceMeets
  <2> QED BY <2>2, <2>3 DEF InstanceMeets
<1>8. ToolAt(c)' /\ FilesAt(c)' /\ DoneSoFar(c)'
  <2>1. FilesOf(c)' = {}
    BY <1>0, <1>2 DEF FilesAt, FilesOf
  <2>2. ToolAt(c)'
    <3> USE <1>4, <1>5 DEF ToolAt
    <3>1. CASE s \in {"setBoth", "readTarget", "readLimit", "setProcesses"}
      BY <3>1
    <3>2. CASE s \in {"readProfile", "countAccount", "nameFiles"}
      BY <3>2
    <3>3. CASE s \in {"makeTable", "logonTrigger", "findSession"}
      BY <3>3
    <3> QED BY <3>1, <3>2, <3>3
  <2>3. FilesAt(c)' /\ DoneSoFar(c)'
    BY <1>4, <1>5, <2>1 DEF FilesAt, DoneSoFar
  <2> QED BY <2>2, <2>3
<1>9. ASSUME NEW d \in Calls, d # c PROVE ToolAt(d)' /\ FilesAt(d)' /\ DoneSoFar(d)'
  <2>1. ToolAt(d) /\ FilesAt(d)
    BY DEF InstanceInv
  <2>2. ToolAt(d)' /\ FilesAt(d)'
    BY <1>2, <1>5, <1>9, <2>1 DEF ToolAt, FilesAt, FilesOf, Privileges
  <2>3. d \in Open' => met'[d] # {}
    BY <1>2, <1>5, <1>9 DEF Open
  <2> QED BY <2>2, <2>3 DEF DoneSoFar
<1>10. \A d \in Open : pc'[d] = pc[d]
  BY <1>5 DEF Open
<1> QED BY <1>6, <1>7, <1>8, <1>9, <1>10 DEF InstanceInv

\* A step of the tools: the invariant is kept, and a call that ends answers what is so.
LEMMA InstanceStepAnswers ==
  ASSUME InstanceInv, NEW c \in Calls, InstanceStep(c)
  PROVE  /\ InstanceInv' /\ (struck'[c] = "no" => Answers(c))
         /\ \A d \in Calls : d # c => pc'[d] = pc[d]
<1>1. InstanceInv' /\ (struck'[c] = "no" => Answers(c))
  BY PgaAnswers, LimitAnswers, AccountAnswers, NameFilesAnswers, AddFileAnswers, ObjectAnswers,
     InstanceFailsKeeps DEF InstanceStep
<1>2. \A d \in Calls : d # c => pc'[d] = pc[d]
  <2> USE DEF InstanceInv, InstanceCalls, Go, Strike
  <2>1. CASE SetBoth(c) \/ ReadTarget(c) \/ SetLimit(c) \/ ReadLimit(c) \/ SetTarget(c)
             \/ SetProcesses(c) \/ SetSessions(c)
    BY <2>1 DEF SetBoth, ReadTarget, SetLimit, ReadLimit, SetTarget, SetProcesses, SetSessions
  <2>2. CASE ReadProfile(c) \/ WriteProfile(c) \/ Assign(c) \/ CountAccount(c) \/ MakeAccount(c) \/ Grant(c)
    BY <2>2 DEF ReadProfile, WriteProfile, Assign, CountAccount, MakeAccount, Grant
  <2>3. CASE NameFiles(c) \/ AddFile(c) \/ MakeProbeTable(c) \/ PurgeTable(c)
    BY <2>3 DEF NameFiles, AddFile, MakeProbeTable, PurgeTable
  <2>4. CASE LogonTrigger(c) \/ DropTrigger(c) \/ FindSession(c) \/ TouchSession(c) \/ InstanceFails(c)
    BY <2>4 DEF LogonTrigger, DropTrigger, FindSession, TouchSession, InstanceFails
  <2> QED BY <2>1, <2>2, <2>3, <2>4 DEF InstanceStep
<1> QED BY <1>1, <1>2


\* In a behaviour of another group no call is of these tools.
NotOfInstance == req = [c \in Calls |-> req[c]] /\ \A c \in Calls : req[c].kind \notin InstanceTools
ServerInstanceInv == IF group = "instance" THEN InstanceInv ELSE NotOfInstance

\* A call of the other groups takes arguments of its own tools.
LEMMA OthersAskElse ==
  ASSUME NotOfInstance, SeqNext \/ SyncNext \/ DailyNext \/ MigNext \/ CloneNext
  PROVE  NotOfInstance'
<1> DEFINE Asks(c, r) == req' = [req EXCEPT ![c] = r] /\ r.kind \notin InstanceTools
           Same == req' = req
<1>1. ASSUME NEW c \in Calls, SeqStart(c) \/ SyncStart(c) \/ DailyStart(c) \/ MigStart(c) \/ CloneStart(c)
      PROVE  \E r : Asks(c, r)
  <2>1. CASE SeqStart(c)
    <3>1. Asks(c, [kind |-> "recreate"])
      BY <2>1 DEF SeqStart, Begin, InstanceTools
    <3> QED BY <3>1
  <2>2. CASE SyncStart(c)
    <3>1. PICK p \in Procs, x \in BOOLEAN, y \in BOOLEAN : req' = [req EXCEPT ![c] = [kind |-> "sync", proc |-> p, confirmed |-> x, trigger |-> y]]
      BY <2>2 DEF SyncStart, Begin
    <3>2. Asks(c, [kind |-> "sync", proc |-> p, confirmed |-> x, trigger |-> y])
      BY <3>1 DEF InstanceTools
    <3> QED BY <3>2
  <2>3. CASE DailyStart(c)
    <3>1. PICK x : req' = [req EXCEPT ![c] = [kind |-> "daily", channel |-> x]]
      BY <2>3 DEF DailyStart, Begin
    <3>2. Asks(c, [kind |-> "daily", channel |-> x])
      BY <3>1 DEF InstanceTools
    <3> QED BY <3>2
  <2>4. CASE MigStart(c)
    <3>1. PICK k \in MigrationTools, key \in Keys, overwrite \in BOOLEAN, remove \in {{}} \cup {{n} : n \in Nodes} :
            Begin(c, [kind |-> k, key |-> key, overwrite |-> overwrite, remove |-> remove],
                  IF k = "restore" THEN "readFile" ELSE "backup", FALSE)
      BY <2>4, Zenon DEF MigStart
    <3>2. Asks(c, [kind |-> k, key |-> key, overwrite |-> overwrite, remove |-> remove])
      BY <3>1 DEF Begin, InstanceTools, MigrationTools
    <3> QED BY <3>2
  <2>5. CASE CloneStart(c)
    <3>1. Asks(c, [kind |-> "cloneTime"])
      BY <2>5 DEF CloneStart, Begin, InstanceTools
    <3> QED BY <3>1
  <2> HIDE DEF Asks
  <2> QED BY <1>1, <2>1, <2>2, <2>3, <2>4, <2>5
<1>2. Same \/ \E c \in Calls : \E r : Asks(c, r)
  <2> HIDE DEF Asks
  <2> USE DEF Go, Strike
  <2>1. CASE SeqNext
    <3>1. CASE Draw \/ \E d \in Dependents : Use(d)
      BY <3>1 DEF Draw, Use, calls
    <3>2. ASSUME NEW c \in Calls,
                 ReadLast(c) \/ ReadDdl(c) \/ DropSequence(c) \/ CreateSequence(c) \/ ListInvalid(c)
                 \/ Compile(c) \/ SeqFails(c)
          PROVE  Same
      BY <3>2 DEF ReadLast, ReadDdl, DropSequence, CreateSequence, ListInvalid, Compile, SeqFails, calls, history
    <3> QED BY <1>1, <2>1, <3>1, <3>2 DEF SeqNext
  <2>2. CASE SyncNext
    <3>1. ASSUME NEW c \in Calls,
                 Count(c) \/ Merge(c) \/ Replace(c) \/ Status(c) \/ CompileTrigger(c) \/ SyncFails(c)
          PROVE  Same
      BY <3>1 DEF Count, Merge, Replace, Status, CompileTrigger, SyncFails, calls, history
    <3> QED BY <1>1, <2>2, <3>1 DEF SyncNext
  <2>3. CASE DailyNext
    <3>1. ASSUME NEW c \in Calls,
                 \/ \E check \in ToSet(Checks) : Check(c, check)
                 \/ CheckFails(c) \/ Report(c) \/ OpenDm(c) \/ Format(c) \/ Post(c)
          PROVE  Same
      BY <3>1 DEF Check, CheckFails, Report, OpenDm, Format, Post, calls, history
    <3> QED BY <1>1, <2>3, <3>1 DEF DailyNext
  <2>4. CASE MigNext
    <3>1. ASSUME NEW c \in Calls, Backup(c) \/ NothingToBackUp(c) \/ ReadFile(c) \/ Write(c) \/ MigFails(c) PROVE Same
      BY <3>1 DEF Backup, NothingToBackUp, ReadFile, Write, MigFails, calls, history
    <3> QED BY <1>1, <2>4, <3>1 DEF MigNext
  <2>5. CASE CloneNext
    <3>1. CASE Tick \/ SwitchLog \/ Snapshot \/ Start \/ \E f \in DataFiles : Checkpoint(f)
      BY <3>1 DEF Tick, SwitchLog, Snapshot, Start, Checkpoint, calls
    <3>2. ASSUME NEW c \in Calls, \/ ReadStartup(c) \/ ReadHeaders(c) \/ ReadEarlier(c)
                                    \/ ReadSpanning(c) \/ ReadLater(c) \/ CloneFails(c)
                 PROVE  Same
      BY <3>2 DEF ReadStartup, ReadHeaders, ReadEarlier, ReadSpanning, ReadLater, CloneFails, calls, history
    <3> QED BY <1>1, <2>5, <3>1, <3>2 DEF CloneNext
  <2> QED BY <2>1, <2>2, <2>3, <2>4, <2>5
<1> QED BY <1>2 DEF NotOfInstance

\* The SID of the session goes to another session: nothing the calls have done changes.
LEMMA ReuseKeeps == InstanceInv /\ Reuse => InstanceInv' /\ pc' = pc
<1> SUFFICES ASSUME InstanceInv, Reuse PROVE InstanceInv' /\ pc' = pc
  OBVIOUS
<1>1. UNCHANGED <<req, pc, met, struck, left, got, pga, spfile, profile, account, space, probes>>
  BY DEF Reuse, calls, history, params, instLocals
<1>2. session' = [serial |-> session'.serial, traced |-> session'.traced]
  BY DEF Reuse
<1>3. InstanceCalls' /\ InstanceData'
  BY <1>1, <1>2 DEF InstanceInv, InstanceCalls, InstanceData
<1>4. InstanceMeets'
  BY <1>1 DEF InstanceInv, InstanceMeets, Open
<1>5. ASSUME NEW c \in Calls PROVE ToolAt(c)' /\ FilesAt(c)' /\ DoneSoFar(c)'
  <2>1. ToolAt(c) /\ FilesAt(c) /\ DoneSoFar(c) /\ FilesOf(c)' = FilesOf(c)
    BY <1>1 DEF InstanceInv, FilesOf
  <2> QED BY <1>1, <2>1 DEF ToolAt, FilesAt, DoneSoFar, Open, Privileges
<1> QED BY <1>1, <1>3, <1>4, <1>5 DEF InstanceInv

\* What an administration tool that met no other call answers is so: the parameters, the profile,
\* the account, the files, the trigger and the session are as its arguments say, and the probe table
\* is gone, also when a call before it had stopped half way (AnsweredIsDone).
THEOREM AnswersAreDone == Spec => AnsweredIsDone
<1> DEFINE Told(c) == EndsAlone(c) /\ struck'[c] = "no" /\ pc'[c] = "done" => Done(c)
<1>1. Init => ServerInstanceInv
  <2> SUFFICES ASSUME Init PROVE ServerInstanceInv
    OBVIOUS
  <2>1. /\ pc = [c \in Calls |-> "idle"] /\ met = [c \in Calls |-> {}] /\ struck = [c \in Calls |-> "no"]
        /\ req = [c \in Calls |-> NoRequest(group)]
    BY DEF Init, CallInit
  <2>2. CASE group = "instance"
    <3>1. NoRequest(group) \in Arguments
      BY <2>2 DEF NoRequest, Arguments
    <3>2. InstanceCalls /\ InstanceMeets
      BY <2>1, <3>1 DEF InstanceCalls, InstanceMeets, Open, Ended, Init, InstanceInit
    <3>3. space.files = {} /\ IsFiniteSet({})
      BY FS_EmptySet DEF Init, InstanceInit
    <3>4. InstanceData
      <4>1. Min(PgaGibs) \in Nat /\ 2 * Min(PgaGibs) \in Nat
        BY InstanceAssumption, MinOfNaturals
      <4> QED BY <3>3, <4>1 DEF InstanceData, Init, InstanceInit
    <3>5. \A c \in Calls : ToolAt(c) /\ FilesAt(c) /\ DoneSoFar(c)
      BY <2>1, <3>3 DEF ToolAt, FilesAt, FilesOf, DoneSoFar, Open, Ended
    <3> QED BY <2>2, <3>2, <3>4, <3>5 DEF ServerInstanceInv, InstanceInv
  <2>3. CASE group # "instance"
    <3>1. NoRequest(group).kind = "none"
      BY DEF NoRequest
    <3> QED BY <2>1, <2>3, <3>1 DEF ServerInstanceInv, NotOfInstance, InstanceTools
  <2> QED BY <2>2, <2>3
<1>2. ServerInstanceInv /\ [Next]_serverVars => ServerInstanceInv'
  <2> SUFFICES ASSUME ServerInstanceInv, [Next]_serverVars PROVE ServerInstanceInv'
    OBVIOUS
  <2>1. CASE /\ group = "instance" /\ UNCHANGED group
             /\ Reuse \/ \E c \in Calls : InstanceStart(c) \/ InstanceStep(c)
    BY <2>1, ReuseKeeps, InstanceBegins, InstanceStepAnswers DEF ServerInstanceInv
  <2>2. CASE /\ group # "instance" /\ UNCHANGED group
             /\ SeqNext \/ SyncNext \/ DailyNext \/ MigNext \/ CloneNext
    BY <2>2, OthersAskElse DEF ServerInstanceInv
  <2>3. CASE UNCHANGED serverVars
    <3>1. /\ UNCHANGED <<group, req, pc, met, struck, left, got, pga, spfile, profile, account, space,
                         probes, session>>
      BY <2>3 DEF serverVars, calls, history, instVars, params, objects, instLocals
    <3>2. InstanceInv => InstanceCalls' /\ InstanceData' /\ InstanceMeets'
      BY <3>1 DEF InstanceInv, InstanceCalls, InstanceData, InstanceMeets, Open
    <3>3. ASSUME NEW c \in Calls, InstanceInv PROVE ToolAt(c)' /\ FilesAt(c)' /\ DoneSoFar(c)'
      <4>1. ToolAt(c) /\ FilesAt(c) /\ DoneSoFar(c) /\ FilesOf(c)' = FilesOf(c)
        BY <3>1, <3>3 DEF InstanceInv, FilesOf
      <4> QED BY <3>1, <4>1 DEF ToolAt, FilesAt, DoneSoFar, Open, Privileges
    <3> QED BY <3>1, <3>2, <3>3 DEF ServerInstanceInv, NotOfInstance, InstanceInv
  <2> QED BY <2>1, <2>2, <2>3 DEF Next
<1>3. ServerInstanceInv /\ [Next]_serverVars => [\A c \in Calls : Told(c)]_<<instVars, calls>>
  <2> SUFFICES ASSUME ServerInstanceInv, [Next]_serverVars, ~UNCHANGED <<instVars, calls>>,
                      NEW c \in Calls, EndsAlone(c), struck'[c] = "no", pc'[c] = "done"
               PROVE  Done(c)
    OBVIOUS
  <2>1. c \in Open /\ pc'[c] # pc[c] /\ met[c] = {}
    BY DEF EndsAlone, Open, Ended
  <2>2. CASE group = "instance"
    <3>1. InstanceInv /\ (Reuse \/ \E d \in Calls : InstanceStart(d) \/ InstanceStep(d))
      BY <2>2 DEF Next, serverVars, ServerInstanceInv
    <3>2. PICK d \in Calls : InstanceStep(d)
      BY <2>1, <3>1, ReuseKeeps, InstanceBegins
    <3>3. d = c
      BY <2>1, <3>1, <3>2, InstanceStepAnswers
    <3> QED BY <2>1, <3>1, <3>2, <3>3, InstanceStepAnswers DEF Answers
  <2>3. CASE group # "instance"
    <3>1. req[c].kind \notin InstanceTools
      BY <2>3 DEF ServerInstanceInv, NotOfInstance
    <3> QED BY <3>1 DEF Done, InstanceTools
  <2> QED BY <2>2, <2>3
<1>4. (\A c \in Calls : Told(c)) =>
        \A c \in Calls : EndsAlone(c) /\ struck'[c] = "no" /\ pc'[c] = "done" =>
          LET r == req[c] IN
          /\ r.kind = "pgaBoth" => pga' = [target |-> r.n, limit |-> r.m]
          /\ r.kind = "connLimits" => spfile' = [processes |-> r.n, sessions |-> r.n]
          /\ r.kind = "userLimit" => profile' = [limit |-> r.n, assigned |-> TRUE]
          /\ r.kind = "readonly" =>
               /\ account'.exists /\ ~account'.locked /\ account'.pass = c
               /\ 1..Privileges(r) \subseteq account'.privs
          /\ r.kind = "expand" =>
               r.n = MapThenSumSet(LAMBDA f : f.gib, {f \in space'.files : f.by = c})
          /\ r.kind = "compression" => got'[c] \notin probes'
          /\ r.kind = "logonTrace" => trigger' = r.wide
          /\ r.kind = "kill" => r.n \in killed'
          /\ r.kind = "sessionTrace" => session' = [serial |-> r.n, traced |-> r.wide]
  BY DEF Done, SumGib
<1> QED BY <1>1, <1>2, <1>3, <1>4, PTL DEF Spec, AnsweredIsDone

-----------------------------------------------------------------------------
(* Functions defined by recursion over 0..N, in place of an induction over sequences. *)

\* f begins with b and goes on by F, which gives a value for a position and the value before it.
Recurs(N, b, F, f) == f[0] = b /\ \A n \in 1..N : f[n] = F[<<n, f[n - 1]>>]

\* There is such a function.
LEMMA RecursionExists ==
  ASSUME NEW N \in Nat, NEW V, NEW b \in V, NEW F, \A n \in 1..N, v \in V : F[<<n, v>>] \in V
  PROVE  \E f \in [0..N -> V] : Recurs(N, b, F, f)
<1> DEFINE T == {k \in Nat : k <= N => \E f \in [0..k -> V] : Recurs(k, b, F, f)}
<1>1. 0 \in T
  <2>1. [n \in 0..0 |-> b] \in [0..0 -> V] /\ Recurs(0, b, F, [n \in 0..0 |-> b])
    BY DEF Recurs
  <2> QED BY <2>1
<1>2. ASSUME NEW k \in T PROVE k + 1 \in T
  <2> SUFFICES ASSUME k + 1 <= N PROVE \E f \in [0..k + 1 -> V] : Recurs(k + 1, b, F, f)
    OBVIOUS
  <2>1. PICK f \in [0..k -> V] : Recurs(k, b, F, f)
    OBVIOUS
  <2> DEFINE g == [n \in 0..k + 1 |-> IF n = k + 1 THEN F[<<k + 1, f[k]>>] ELSE f[n]]
  <2>2. g \in [0..k + 1 -> V]
    <3>1. F[<<k + 1, f[k]>>] \in V
      OBVIOUS
    <3> QED BY <3>1
  <2>3. Recurs(k + 1, b, F, g)
    <3>1. f[0] = b /\ \A n \in 1..k : f[n] = F[<<n, f[n - 1]>>]
      BY <2>1 DEF Recurs
    <3>2. g[0] = b
      BY <3>1
    <3>3. ASSUME NEW n \in 1..k PROVE g[n] = F[<<n, g[n - 1]>>]
      <4>1. g[n] = f[n] /\ g[n - 1] = f[n - 1]
        OBVIOUS
      <4> QED BY <3>1, <4>1
    <3>4. g[k + 1] = F[<<k + 1, g[(k + 1) - 1]>>]
      <4>1. (k + 1) - 1 = k /\ k # k + 1 /\ k \in 0..k + 1 /\ k + 1 \in 0..k + 1
        OBVIOUS
      <4>2. g[k] = f[k] /\ g[k + 1] = F[<<k + 1, f[k]>>]
        BY <4>1
      <4> QED BY <4>1, <4>2
    <3>5. ASSUME NEW n \in 1..k + 1 PROVE g[n] = F[<<n, g[n - 1]>>]
      <4> HIDE DEF g
      <4>1. n \in 1..k \/ n = k + 1
        OBVIOUS
      <4> QED BY <3>3, <3>4, <4>1
    <3> HIDE DEF g
    <3> QED BY <3>2, <3>5 DEF Recurs
  <2> QED BY <2>2, <2>3
<1>3. T = Nat
  <2> HIDE DEF T
  <2>1. T \in SUBSET Nat
    BY DEF T
  <2> QED BY <1>1, <1>2, <2>1, AllNaturals
<1> QED BY <1>3

\* What FlattenSeq chooses.
Flattens(s, f) == f = [i \in 1..Len(s) |-> IF i = 1 THEN s[i] ELSE f[i - 1] \o s[i]]

\* FlattenSeq by the function its definition chooses.
LEMMA FlattenDef ==
  ASSUME NEW s, Len(s) # 0
  PROVE  FlattenSeq(s) = (CHOOSE f : Flattens(s, f))[Len(s)]
BY DEF FlattenSeq, Flattens

\* The flattened sequence, part by part.
LEMMA FlattenFold ==
  ASSUME NEW L, NEW s \in Seq(Seq(L)), Len(s) # 0
  PROVE  \E f \in [1..Len(s) -> Seq(L)] :
           /\ f[1] = s[1] /\ \A i \in 2..Len(s) : f[i] = f[i - 1] \o s[i]
           /\ FlattenSeq(s) = f[Len(s)]
<1>1. Len(s) \in Nat \ {0} /\ \A i \in 1..Len(s) : s[i] \in Seq(L)
  OBVIOUS
<1> DEFINE F == [x \in (1..Len(s)) \X Seq(L) |-> x[2] \o s[x[1]]]
<1>2. \A n \in 1..Len(s), v \in Seq(L) : F[<<n, v>>] = v \o s[n] /\ v \o s[n] \in Seq(L)
  <2> TAKE n \in 1..Len(s), v \in Seq(L)
  <2>1. <<n, v>> \in (1..Len(s)) \X Seq(L)
    OBVIOUS
  <2>2. F[<<n, v>>] = v \o s[n]
    BY <2>1
  <2>3. s[n] \in Seq(L)
    BY <1>1
  <2>4. v \o s[n] \in Seq(L)
    BY <2>3
  <2> QED BY <2>2, <2>4
<1>3. PICK f \in [0..Len(s) -> Seq(L)] : Recurs(Len(s), <<>>, F, f)
  <2> HIDE DEF F
  <2>1. <<>> \in Seq(L)
    OBVIOUS
  <2> QED BY <1>1, <1>2, <2>1, RecursionExists
<1> DEFINE g == [i \in 1..Len(s) |-> f[i]]
<1>4. g \in [1..Len(s) -> Seq(L)] /\ g[1] = s[1] /\ \A i \in 2..Len(s) : g[i] = g[i - 1] \o s[i]
  <2> HIDE DEF F
  <2>1. \A i \in 1..Len(s) : f[i] = f[i - 1] \o s[i]
    <3> TAKE i \in 1..Len(s)
    <3>1. i - 1 \in 0..Len(s)
      BY <1>1
    <3>2. f[i] = F[<<i, f[i - 1]>>] /\ f[i - 1] \in Seq(L)
      BY <1>3, <3>1 DEF Recurs
    <3> QED BY <1>2, <3>2
  <2>2. f[1] = s[1]
    <3>1. f[0] = <<>>
      BY <1>3 DEF Recurs
    <3>2. 1 \in 1..Len(s) /\ 1 - 1 = 0 /\ s[1] \in Seq(L)
      BY <1>1
    <3>3. f[1] = <<>> \o s[1]
      BY <2>1, <3>1, <3>2
    <3> QED BY <3>2, <3>3
  <2>3. g \in [1..Len(s) -> Seq(L)]
    OBVIOUS
  <2>4. ASSUME NEW i \in 2..Len(s) PROVE g[i] = g[i - 1] \o s[i]
    <3>1. i \in 1..Len(s) /\ i - 1 \in 1..Len(s)
      BY <1>1
    <3>2. g[i] = f[i] /\ g[i - 1] = f[i - 1]
      BY <3>1
    <3> QED BY <2>1, <3>1, <3>2
  <2>5. g[1] = f[1]
    BY <1>1
  <2> QED BY <2>2, <2>3, <2>4, <2>5
<1> HIDE DEF g
<1>5. Flattens(s, g)
  <2>1. \A i \in 1..Len(s) : g[i] = IF i = 1 THEN s[i] ELSE g[i - 1] \o s[i]
    <3> TAKE i \in 1..Len(s)
    <3>1. i = 1 \/ i \in 2..Len(s)
      BY <1>1
    <3> QED BY <1>4, <3>1
  <2>2. g = [i \in 1..Len(s) |-> g[i]]
    BY <1>4
  <2> QED BY <2>1, <2>2 DEF Flattens
<1>6. PICK h : Flattens(s, h) /\ FlattenSeq(s) = h[Len(s)]
  BY <1>5, FlattenDef
<1>7. h \in [1..Len(s) -> Seq(L)] /\ h[1] = s[1] /\ \A i \in 2..Len(s) : h[i] = h[i - 1] \o s[i]
  <2>1. h = [i \in 1..Len(s) |-> IF i = 1 THEN s[i] ELSE h[i - 1] \o s[i]]
    BY <1>6 DEF Flattens
  <2> DEFINE T == {k \in Nat : k \in 1..Len(s) => h[k] \in Seq(L)}
  <2>2. 0 \in T
    OBVIOUS
  <2>3. ASSUME NEW k \in T PROVE k + 1 \in T
    <3>1. CASE k = 0
      BY <1>1, <2>1, <3>1
    <3>2. CASE k # 0 /\ k + 1 \in 1..Len(s)
      <4>1. h[k] \in Seq(L) /\ s[k + 1] \in Seq(L)
        BY <1>1, <3>2
      <4>2. (k + 1) - 1 = k /\ k + 1 # 1
        BY <3>2
      <4>3. h[k + 1] = IF k + 1 = 1 THEN s[k + 1] ELSE h[(k + 1) - 1] \o s[k + 1]
        BY <2>1, <3>2
      <4>4. h[k] \o s[k + 1] \in Seq(L)
        BY <4>1
      <4>5. h[k + 1] \in Seq(L)
        BY <4>2, <4>3, <4>4
      <4> QED BY <4>5
    <3> QED BY <3>1, <3>2
  <2>4. T = Nat
    <3> HIDE DEF T
    <3>1. T \in SUBSET Nat
      BY DEF T
    <3> QED BY <2>2, <2>3, <3>1, AllNaturals
  <2>5. \A i \in 1..Len(s) : h[i] \in Seq(L)
    <3> TAKE i \in 1..Len(s)
    <3> HIDE DEF T
    <3>1. i \in T
      BY <1>1, <2>4
    <3> QED BY <3>1 DEF T
  <2>6. h = [i \in 1..Len(s) |-> h[i]]
    BY <2>1
  <2>7. h[1] = s[1] /\ \A i \in 2..Len(s) : h[i] = h[i - 1] \o s[i]
    <3>1. h[1] = s[1]
      BY <1>1, <2>1
    <3>2. ASSUME NEW i \in 2..Len(s) PROVE h[i] = h[i - 1] \o s[i]
      <4>1. i \in 1..Len(s) /\ i # 1
        BY <1>1
      <4> QED BY <2>1, <4>1
    <3> QED BY <3>1, <3>2
  <2> QED BY <2>5, <2>6, <2>7
<1> QED BY <1>6, <1>7

-----------------------------------------------------------------------------
(* The lines of one procedure in a text (PackageSync). *)

TextLines ==
  [kind : {"head", "rest", "package", "init", "end"}, of : Procs \cup {"local", "package"},
   db : {"source", "target"}]

\* What LinesOf chooses: f lists the lines of p, up to each position.
Lists(t, p, f) ==
  f = [n \in 0..Len(t) |->
        IF n = 0 THEN <<>> ELSE IF t[n].of = p THEN Append(f[n - 1], t[n]) ELSE f[n - 1]]
ListsOn(t, p, f) ==
  f[0] = <<>> /\ \A n \in 1..Len(t) : f[n] = IF t[n].of = p THEN Append(f[n - 1], t[n]) ELSE f[n - 1]

\* LinesOf by the function its definition chooses.
LEMMA LinesDef == ASSUME NEW t, NEW p PROVE LinesOf(t, p) = (CHOOSE f : Lists(t, p, f))[Len(t)]
BY DEF LinesOf, Lists

\* LinesOf is the last value of every such list.
LEMMA LinesAre ==
  ASSUME NEW t \in Seq(TextLines), NEW p, NEW f \in [0..Len(t) -> Seq(TextLines)], ListsOn(t, p, f)
  PROVE  LinesOf(t, p) = f[Len(t)]
<1>1. Len(t) \in Nat
  OBVIOUS
<1>2. Lists(t, p, f)
  <2>1. \A n \in 0..Len(t) : f[n] = IF n = 0 THEN <<>> ELSE IF t[n].of = p THEN Append(f[n - 1], t[n]) ELSE f[n - 1]
    <3> TAKE n \in 0..Len(t)
    <3>1. n = 0 \/ (n # 0 /\ n \in 1..Len(t))
      BY <1>1
    <3> QED BY <3>1 DEF ListsOn
  <2>2. f = [n \in 0..Len(t) |-> f[n]]
    OBVIOUS
  <2> QED BY <2>1, <2>2 DEF Lists
<1>3. PICK h : Lists(t, p, h) /\ LinesOf(t, p) = h[Len(t)]
  BY <1>2, LinesDef
<1> DEFINE T == {k \in Nat : k <= Len(t) => h[k] = f[k]}
<1>4. 0 \in T
  BY <1>1, <1>3 DEF Lists, ListsOn
<1>5. ASSUME NEW k \in T PROVE k + 1 \in T
  <2> SUFFICES ASSUME k + 1 <= Len(t) PROVE h[k + 1] = f[k + 1]
    OBVIOUS
  <2>1. k + 1 \in 1..Len(t) /\ k + 1 \in 0..Len(t) /\ k + 1 # 0 /\ (k + 1) - 1 = k /\ h[k] = f[k]
    BY <1>1
  <2>2. h[k + 1] = IF k + 1 = 0 THEN <<>> ELSE IF t[k + 1].of = p THEN Append(h[(k + 1) - 1], t[k + 1]) ELSE h[(k + 1) - 1]
    <3> HIDE DEF T
    <3> QED BY <1>3, <2>1 DEF Lists
  <2>3. f[k + 1] = IF t[k + 1].of = p THEN Append(f[(k + 1) - 1], t[k + 1]) ELSE f[(k + 1) - 1]
    BY <2>1 DEF ListsOn
  <2> QED BY <2>1, <2>2, <2>3
<1>6. T = Nat
  <2> HIDE DEF T
  <2>1. T \in SUBSET Nat
    BY DEF T
  <2> QED BY <1>4, <1>5, <2>1, AllNaturals
<1>7. Len(t) \in T
  <2> HIDE DEF T
  <2> QED BY <1>1, <1>6
<1> QED BY <1>1, <1>3, <1>7

\* There is such a list.
LEMMA LinesFold ==
  ASSUME NEW t \in Seq(TextLines), NEW p
  PROVE  \E f \in [0..Len(t) -> Seq(TextLines)] : ListsOn(t, p, f) /\ LinesOf(t, p) = f[Len(t)]
<1>1. Len(t) \in Nat /\ \A n \in 1..Len(t) : t[n] \in TextLines
  OBVIOUS
<1> DEFINE F == [x \in (1..Len(t)) \X Seq(TextLines) |->
                   IF t[x[1]].of = p THEN Append(x[2], t[x[1]]) ELSE x[2]]
<1>2. ASSUME NEW n \in 1..Len(t), NEW v \in Seq(TextLines)
      PROVE  F[<<n, v>>] = (IF t[n].of = p THEN Append(v, t[n]) ELSE v) /\ F[<<n, v>>] \in Seq(TextLines)
  <2>1. <<n, v>> \in (1..Len(t)) \X Seq(TextLines)
    OBVIOUS
  <2>2. F[<<n, v>>] = IF t[n].of = p THEN Append(v, t[n]) ELSE v
    BY <2>1
  <2>3. t[n] \in TextLines
    BY <1>1
  <2>4. Append(v, t[n]) \in Seq(TextLines)
    BY <2>3
  <2> QED BY <2>2, <2>4
<1> HIDE DEF F
<1>3. PICK f \in [0..Len(t) -> Seq(TextLines)] : Recurs(Len(t), <<>>, F, f)
  <2>1. <<>> \in Seq(TextLines)
    OBVIOUS
  <2>2. \A n \in 1..Len(t), v \in Seq(TextLines) : F[<<n, v>>] \in Seq(TextLines)
    BY <1>2
  <2> QED BY <1>1, <2>1, <2>2, RecursionExists
<1>4. ListsOn(t, p, f)
  <2>1. f[0] = <<>>
    BY <1>3 DEF Recurs
  <2>2. ASSUME NEW n \in 1..Len(t)
        PROVE  f[n] = IF t[n].of = p THEN Append(f[n - 1], t[n]) ELSE f[n - 1]
    <3>1. n - 1 \in 0..Len(t)
      BY <1>1
    <3>2. f[n - 1] \in Seq(TextLines) /\ f[n] = F[<<n, f[n - 1]>>]
      BY <1>3, <3>1 DEF Recurs
    <3> QED BY <1>2, <3>2
  <2> QED BY <2>1, <2>2 DEF ListsOn
<1> QED BY <1>4, LinesAre

\* The lines of p in a text are a text.
LEMMA LinesType == ASSUME NEW t \in Seq(TextLines), NEW p PROVE LinesOf(t, p) \in Seq(TextLines)
<1>1. PICK f \in [0..Len(t) -> Seq(TextLines)] : LinesOf(t, p) = f[Len(t)]
  BY LinesFold
<1> QED BY <1>1

\* A text without a line of p.
LEMMA LinesNone ==
  ASSUME NEW t \in Seq(TextLines), NEW p, \A i \in 1..Len(t) : t[i].of # p
  PROVE  LinesOf(t, p) = <<>>
<1> DEFINE f == [n \in 0..Len(t) |-> <<>>]
<1>1. Len(t) \in Nat
  OBVIOUS
<1>2. f \in [0..Len(t) -> Seq(TextLines)] /\ f[Len(t)] = <<>>
  BY <1>1
<1>3. ListsOn(t, p, f)
  BY <1>1 DEF ListsOn
<1> HIDE DEF f
<1> QED BY <1>2, <1>3, LinesAre

\* Appending to the second of two sequences.
LEMMA AppendCat ==
  ASSUME NEW L, NEW a \in Seq(L), NEW b \in Seq(L), NEW x \in L
  PROVE  a \o Append(b, x) = Append(a \o b, x)
<1>1. <<x>> \in Seq(L) /\ Append(b, x) = b \o <<x>>
  BY AppendIsConcat
<1>2. a \o b \in Seq(L)
  OBVIOUS
<1>3. Append(a \o b, x) = (a \o b) \o <<x>>
  BY <1>2, AppendIsConcat
<1> QED BY <1>1, <1>3, ConcatAssociative

\* The lines of p in a text that is followed by another.
LEMMA LinesCat ==
  ASSUME NEW t \in Seq(TextLines), NEW u \in Seq(TextLines), NEW p
  PROVE  LinesOf(t \o u, p) = LinesOf(t, p) \o LinesOf(u, p)
<1>1. PICK f \in [0..Len(t) -> Seq(TextLines)] : ListsOn(t, p, f) /\ LinesOf(t, p) = f[Len(t)]
  BY LinesFold
<1>2. PICK g \in [0..Len(u) -> Seq(TextLines)] : ListsOn(u, p, g) /\ LinesOf(u, p) = g[Len(u)]
  BY LinesFold
<1> DEFINE w == t \o u
           h == [n \in 0..Len(w) |-> IF n <= Len(t) THEN f[n] ELSE f[Len(t)] \o g[n - Len(t)]]
<1>3. Len(t) \in Nat /\ Len(u) \in Nat /\ w \in Seq(TextLines) /\ Len(w) = Len(t) + Len(u)
  OBVIOUS
<1>11. f[Len(t)] \in Seq(TextLines)
  BY <1>3
<1>4. \A n \in 1..Len(w) : w[n] = IF n <= Len(t) THEN t[n] ELSE u[n - Len(t)]
  OBVIOUS
<1>5. h \in [0..Len(w) -> Seq(TextLines)]
  <2> SUFFICES ASSUME NEW n \in 0..Len(w)
               PROVE  (IF n <= Len(t) THEN f[n] ELSE f[Len(t)] \o g[n - Len(t)]) \in Seq(TextLines)
    OBVIOUS
  <2>1. CASE n <= Len(t)
    <3>1. n \in 0..Len(t)
      BY <1>3, <2>1
    <3>2. f[n] \in Seq(TextLines)
      BY <3>1
    <3> QED BY <2>1, <3>2
  <2>2. CASE ~(n <= Len(t))
    <3>1. f[Len(t)] \in Seq(TextLines) /\ n - Len(t) \in 0..Len(u)
      BY <1>3, <2>2
    <3>2. g[n - Len(t)] \in Seq(TextLines)
      BY <3>1
    <3> QED BY <2>2, <3>1, <3>2
  <2> QED BY <2>1, <2>2
<1>6. \A n \in 0..Len(t) : h[n] = f[n]
  BY <1>3
<1>7. \A n \in 0..Len(u) : h[Len(t) + n] = f[Len(t)] \o g[n]
  <2> TAKE n \in 0..Len(u)
  <2>1. f[Len(t)] \in Seq(TextLines)
    BY <1>3
  <2>2. CASE n = 0
    <3>1. g[0] = <<>>
      BY <1>2 DEF ListsOn
    <3>2. h[Len(t) + n] = f[Len(t)]
      BY <1>3, <2>2
    <3> QED BY <2>1, <2>2, <3>1, <3>2
  <2>3. CASE n # 0
    <3>1. Len(t) + n \in 0..Len(w) /\ ~(Len(t) + n <= Len(t)) /\ (Len(t) + n) - Len(t) = n
      BY <1>3, <2>3
    <3> QED BY <3>1
  <2> QED BY <2>2, <2>3
<1> HIDE DEF h
<1>8. ListsOn(w, p, h)
  <2>1. h[0] = <<>>
    BY <1>1, <1>3, <1>6 DEF ListsOn
  <2>2. ASSUME NEW n \in 1..Len(w), n <= Len(t)
        PROVE  h[n] = IF w[n].of = p THEN Append(h[n - 1], w[n]) ELSE h[n - 1]
    <3>1. n \in 1..Len(t) /\ n \in 0..Len(t) /\ n - 1 \in 0..Len(t)
      BY <1>3, <2>2
    <3>2. f[n] = IF t[n].of = p THEN Append(f[n - 1], t[n]) ELSE f[n - 1]
      BY <1>1, <3>1 DEF ListsOn
    <3>3. w[n] = t[n]
      BY <1>4, <2>2
    <3>4. h[n] = f[n] /\ h[n - 1] = f[n - 1]
      BY <1>6, <3>1
    <3> HIDE DEF w
    <3> QED BY <3>2, <3>3, <3>4
  <2>3. ASSUME NEW n \in 1..Len(w), ~(n <= Len(t))
        PROVE  h[n] = IF w[n].of = p THEN Append(h[n - 1], w[n]) ELSE h[n - 1]
    <3> DEFINE m == n - Len(t)
    <3>1. m \in 1..Len(u) /\ m \in 0..Len(u) /\ m - 1 \in 0..Len(u) /\ n = Len(t) + m /\ n - 1 = Len(t) + (m - 1)
      BY <1>3, <2>3
    <3>2. g[m] = IF u[m].of = p THEN Append(g[m - 1], u[m]) ELSE g[m - 1]
      BY <1>2, <3>1 DEF ListsOn
    <3>3. w[n] = u[m]
      BY <1>4, <2>3
    <3>4. h[n] = f[Len(t)] \o g[m] /\ h[n - 1] = f[Len(t)] \o g[m - 1]
      BY <1>7, <3>1
    <3> HIDE DEF w, m
    <3>5. f[Len(t)] \in Seq(TextLines) /\ g[m - 1] \in Seq(TextLines)
      <4>1. f[Len(t)] \in Seq(TextLines)
        BY <1>11
      <4>2. g[m - 1] \in Seq(TextLines)
        BY <3>1
      <4> QED BY <4>1, <4>2
    <3>6. u[m] \in TextLines
      BY <3>1, ElementOfSeq
    <3>7. f[Len(t)] \o Append(g[m - 1], u[m]) = Append(f[Len(t)] \o g[m - 1], u[m])
      <4>1. \A a \in Seq(TextLines), b \in Seq(TextLines), x \in TextLines :
              a \o Append(b, x) = Append(a \o b, x)
        BY AppendCat
      <4> QED BY <3>5, <3>6, <4>1
    <3> QED BY <3>2, <3>3, <3>4, <3>7
  <2> QED BY <2>1, <2>2, <2>3 DEF ListsOn
<1>9. LinesOf(w, p) = h[Len(w)]
  <2> HIDE DEF w
  <2> QED BY <1>3, <1>5, <1>8, LinesAre
<1>10. h[Len(w)] = f[Len(t)] \o g[Len(u)]
  BY <1>3, <1>7
<1> QED BY <1>1, <1>2, <1>9, <1>10

-----------------------------------------------------------------------------
(* Spans of a text without local procedures, and what replacing one leaves. *)

\* A text without local procedures, in which the rest of a procedure follows its header.
Shaped(t) ==
  /\ t \in Seq(TextLines)
  /\ \A i \in 1..Len(t) :
       /\ t[i].of # "local"
       /\ t[i].of \in Procs <=> t[i].kind \in {"head", "rest"}
       /\ t[i].kind = "rest" => i > 1 /\ t[i - 1].kind = "head" /\ t[i - 1].of = t[i].of

\* A piece that does not begin with the rest of a procedure is such a text.
LEMMA ShapedCut ==
  ASSUME NEW t, Shaped(t), NEW a \in 1..Len(t) + 1, NEW b \in a - 1..Len(t),
         a <= Len(t) => t[a].kind # "rest"
  PROVE  /\ Shaped(SubSeq(t, a, b)) /\ Len(SubSeq(t, a, b)) = b - a + 1
         /\ \A i \in 1..b - a + 1 : SubSeq(t, a, b)[i] = t[a + i - 1]
<1> DEFINE u == SubSeq(t, a, b)
<1>1. t \in Seq(TextLines) /\ Len(t) \in Nat /\ a \in Int /\ b \in Int
  BY DEF Shaped
<1>2. u \in Seq(TextLines) /\ Len(u) = b - a + 1 /\ \A i \in 1..b - a + 1 : u[i] = t[a + i - 1]
  <2>1. \A i \in a..b : t[i] \in TextLines
    BY <1>1
  <2>2. /\ SubSeq(t, a, b) \in Seq(TextLines)
        /\ Len(SubSeq(t, a, b)) = IF a <= b THEN b - a + 1 ELSE 0
        /\ \A i \in 1..b - a + 1 : SubSeq(t, a, b)[i] = t[a + i - 1]
    BY <1>1, <2>1, SubSeqProperties
  <2> QED BY <1>1, <2>2
<1> HIDE DEF u
<1>3. ASSUME NEW i \in 1..Len(u)
      PROVE  /\ u[i].of # "local"
             /\ u[i].of \in Procs <=> u[i].kind \in {"head", "rest"}
             /\ u[i].kind = "rest" => i > 1 /\ u[i - 1].kind = "head" /\ u[i - 1].of = u[i].of
  <2>1. u[i] = t[a + i - 1] /\ a + i - 1 \in 1..Len(t) /\ (i > 1 => u[i - 1] = t[(a + i - 1) - 1])
    <3>1. i \in Int /\ 1 <= i /\ i <= b - a + 1 /\ i \in 1..b - a + 1
      BY <1>1, <1>2
    <3>2. a + (i - 1) - 1 = (a + i - 1) - 1
      BY <1>1, <3>1
    <3>3. ASSUME i > 1 PROVE i - 1 \in 1..b - a + 1
      BY <1>1, <3>1, <3>3
    <3>4. u[i] = t[a + i - 1]
      BY <1>2, <3>1
    <3>5. a + i - 1 \in 1..Len(t)
      BY <1>1, <3>1
    <3>6. ASSUME i > 1 PROVE u[i - 1] = t[(a + i - 1) - 1]
      <4>1. u[i - 1] = t[a + (i - 1) - 1]
        BY <1>2, <3>3, <3>6
      <4> QED BY <3>2, <4>1
    <3> QED BY <3>4, <3>5, <3>6
  <2>2. i = 1 => u[i].kind # "rest"
    BY <1>1, <1>2, <2>1
  <2>3. i = 1 \/ i > 1
    BY <1>1, <1>2
  <2> QED BY <2>1, <2>2, <2>3 DEF Shaped
<1> QED BY <1>2, <1>3 DEF Shaped, u

\* Two such texts after each other.
LEMMA ShapedCat == ASSUME NEW t, NEW u, Shaped(t), Shaped(u) PROVE Shaped(t \o u)
<1>1. t \in Seq(TextLines) /\ u \in Seq(TextLines) /\ Len(t) \in Nat /\ Len(u) \in Nat
  BY DEF Shaped
<1> DEFINE w == t \o u
<1>2. w \in Seq(TextLines) /\ Len(w) = Len(t) + Len(u)
  BY <1>1
<1>3. \A i \in 1..Len(w) : w[i] = IF i <= Len(t) THEN t[i] ELSE u[i - Len(t)]
  BY <1>1
<1> HIDE DEF w
<1>4. ASSUME NEW i \in 1..Len(w)
      PROVE  /\ w[i].of # "local"
             /\ w[i].of \in Procs <=> w[i].kind \in {"head", "rest"}
             /\ w[i].kind = "rest" => i > 1 /\ w[i - 1].kind = "head" /\ w[i - 1].of = w[i].of
  <2>1. CASE i <= Len(t)
    <3>1. i \in 1..Len(t) /\ w[i] = t[i] /\ (i > 1 => w[i - 1] = t[i - 1])
      BY <1>1, <1>2, <1>3, <2>1
    <3> QED BY <3>1 DEF Shaped
  <2>2. CASE ~(i <= Len(t))
    <3> DEFINE j == i - Len(t)
    <3>1. j \in 1..Len(u) /\ w[i] = u[j] /\ (j > 1 => i > 1 /\ w[i - 1] = u[j - 1])
      BY <1>1, <1>2, <1>3, <2>2
    <3> HIDE DEF j
    <3> QED BY <3>1 DEF Shaped
  <2> QED BY <2>1, <2>2
<1> QED BY <1>2, <1>4 DEF Shaped, w

\* The span of a procedure: it begins with a header, ends before one or with the text, and holds
\* every line of the procedure and none of another one.
LEMMA SpanFacts ==
  ASSUME NEW t, Shaped(t), NEW p \in Procs, HasSpan(t, p)
  PROVE  /\ Min(Wanted(t, p)) \in 1..Len(t) /\ SpanEnd(t, p) \in Min(Wanted(t, p)) + 1..Len(t) + 1
         /\ t[Min(Wanted(t, p))].kind = "head"
         /\ SpanEnd(t, p) <= Len(t) => t[SpanEnd(t, p)].kind = "head"
         /\ \A i \in 1..Len(t) :
              /\ i < Min(Wanted(t, p)) \/ i >= SpanEnd(t, p) => t[i].of # p
              /\ i >= Min(Wanted(t, p)) /\ i < SpanEnd(t, p) => t[i].of = p \/ t[i].of \notin Procs
<1> DEFINE W == Wanted(t, p)
           following == {i \in Headers(t) : i > Max(W)}
           e == SpanEnd(t, p)
<1>1. t \in Seq(TextLines) /\ Len(t) \in Nat /\ DOMAIN t = 1..Len(t)
  BY DEF Shaped
<1>2. Headers(t) = {i \in 1..Len(t) : t[i].kind = "head"} /\ W = {i \in Headers(t) : t[i].of = p}
  BY <1>1 DEF Headers, Wanted
<1>3. W \in SUBSET Nat /\ W # {} /\ \A y \in W : y <= Len(t)
  <2>1. W # {}
    BY DEF HasSpan
  <2> HIDE DEF W
  <2> QED BY <1>1, <1>2, <2>1
<1>4. Min(W) \in W /\ Max(W) \in W /\ \A y \in W : Min(W) <= y /\ y <= Max(W)
  <2> HIDE DEF W
  <2> QED BY <1>1, <1>3, MinOfNaturals, MaxOfNaturals
<1>5. \A i \in Headers(t) \ W : i < Min(W) \/ i > Max(W)
  BY DEF HasSpan
<1>6. e = IF following = {} THEN Len(t) + 1 ELSE Min(following)
  BY DEF SpanEnd
<1> HIDE DEF W, e
<1>7. following # {} => Min(following) \in following /\ \A y \in following : Min(following) <= y
  <2>1. following \in SUBSET Nat
    BY <1>1, <1>2
  <2> HIDE DEF following
  <2> QED BY <2>1, MinOfNaturals
<1>8. /\ e > Max(W) /\ e \in 1..Len(t) + 1 /\ (e <= Len(t) => e \in Headers(t))
      /\ \A i \in Headers(t) : i > Max(W) => i >= e
  <2>1. CASE following = {}
    BY <1>1, <1>2, <1>3, <1>4, <1>6, <2>1
  <2>2. CASE following # {}
    <3>1. e \in following /\ \A y \in following : e <= y
      BY <1>6, <1>7, <2>2
    <3> QED BY <1>1, <1>2, <1>4, <3>1
  <2> QED BY <2>1, <2>2
<1> HIDE DEF following
<1>9. Min(W) \in 1..Len(t) /\ Max(W) \in 1..Len(t) /\ e \in Min(W) + 1..Len(t) + 1 /\ Min(W) <= Max(W)
  BY <1>1, <1>2, <1>4, <1>8
<1>10. \A i \in 1..Len(t) :
         /\ t[i].of \in Procs <=> t[i].kind \in {"head", "rest"}
         /\ t[i].kind = "rest" => i > 1 /\ t[i - 1].kind = "head" /\ t[i - 1].of = t[i].of
  BY DEF Shaped
<1>11. ASSUME NEW i \in 1..Len(t), t[i].of = p PROVE i >= Min(W) /\ i < e
  <2>1. CASE t[i].kind = "head"
    <3>1. i \in W
      BY <1>2, <1>11, <2>1
    <3> QED BY <1>1, <1>4, <1>8, <1>9, <3>1
  <2>2. CASE t[i].kind = "rest"
    <3>1. i - 1 \in W /\ i > 1
      BY <1>1, <1>2, <1>10, <1>11, <2>2
    <3>2. i # e
      BY <1>2, <1>8, <2>2
    <3> QED BY <1>1, <1>4, <1>8, <1>9, <3>1, <3>2
  <2> QED BY <1>10, <1>11, <2>1, <2>2
<1>12. ASSUME NEW i \in Headers(t), i >= Min(W), i < e PROVE i \in W
  <2> SUFFICES ASSUME i \notin W PROVE FALSE
    OBVIOUS
  <2>1. i > Max(W)
    <3>1. i < Min(W) \/ i > Max(W)
      BY <1>5
    <3> QED BY <1>2, <1>9, <1>12, <3>1
  <2> QED BY <1>2, <1>8, <1>9, <1>12, <2>1
<1>13. ASSUME NEW i \in 1..Len(t), i >= Min(W), i < e, t[i].of \in Procs PROVE t[i].of = p
  <2>1. CASE t[i].kind = "head"
    BY <1>2, <1>12, <1>13, <2>1
  <2>2. CASE t[i].kind = "rest"
    <3>1. i > 1 /\ t[i - 1].kind = "head" /\ t[i - 1].of = t[i].of
      BY <1>10, <2>2
    <3>2. i # Min(W)
      BY <1>2, <1>4, <2>2
    <3>3. i - 1 \in Headers(t) /\ i - 1 >= Min(W) /\ i - 1 < e
      BY <1>1, <1>2, <1>9, <1>13, <3>1, <3>2
    <3>4. i - 1 \in W
      BY <1>12, <3>3
    <3> QED BY <1>2, <3>1, <3>4
  <2> QED BY <1>10, <1>13, <2>1, <2>2
<1>14. t[Min(W)].kind = "head" /\ (e <= Len(t) => t[e].kind = "head")
  BY <1>2, <1>4, <1>8
<1>15. \A i \in 1..Len(t) : i < Min(W) \/ i >= e => t[i].of # p
  BY <1>1, <1>9, <1>11
<1> QED BY <1>9, <1>13, <1>14, <1>15 DEF W, e

\* Before and after the span there is no line of p, in it no line of another procedure.
LEMMA SpanCut ==
  ASSUME NEW t, Shaped(t), NEW p \in Procs, HasSpan(t, p)
  PROVE  LET a == Min(Wanted(t, p))
             e == SpanEnd(t, p)
             x == SubSeq(t, 1, a - 1)
             y == SubSeq(t, a, e - 1)
             z == SubSeq(t, e, Len(t)) IN
         /\ Shaped(x) /\ Shaped(y) /\ Shaped(z)
         /\ t = (x \o y) \o z
         /\ LinesOf(x, p) = <<>> /\ LinesOf(z, p) = <<>>
         /\ \A q \in Procs \ {p} : LinesOf(y, q) = <<>>
<1> DEFINE a == Min(Wanted(t, p))
           e == SpanEnd(t, p)
           x == SubSeq(t, 1, a - 1)
           y == SubSeq(t, a, e - 1)
           z == SubSeq(t, e, Len(t))
<1>1. t \in Seq(TextLines) /\ Len(t) \in Nat
  BY DEF Shaped
<1>2. /\ a \in 1..Len(t) /\ e \in a + 1..Len(t) + 1
      /\ t[a].kind = "head" /\ (e <= Len(t) => t[e].kind = "head")
      /\ \A i \in 1..Len(t) :
           /\ i < a \/ i >= e => t[i].of # p
           /\ i >= a /\ i < e => t[i].of = p \/ t[i].of \notin Procs
  BY SpanFacts
<1> HIDE DEF a, e
<1>3. Shaped(x) /\ Len(x) = a - 1 /\ \A i \in 1..a - 1 : x[i] = t[i]
  <2>1. 1 <= Len(t) => t[1].kind # "rest"
    BY <1>1 DEF Shaped
  <2>2. 1 \in 1..Len(t) + 1 /\ a - 1 \in 1 - 1..Len(t)
    BY <1>1, <1>2
  <2>3. Shaped(x) /\ Len(x) = (a - 1) - 1 + 1 /\ \A i \in 1..(a - 1) - 1 + 1 : x[i] = t[1 + i - 1]
    BY <2>1, <2>2, ShapedCut
  <2> HIDE DEF x
  <2> QED BY <1>2, <2>3
<1>4. Shaped(y) /\ Len(y) = e - a /\ \A i \in 1..e - a : y[i] = t[a + i - 1]
  <2>1. a \in 1..Len(t) + 1 /\ e - 1 \in a - 1..Len(t) /\ t[a].kind # "rest"
    BY <1>1, <1>2
  <2>2. Shaped(y) /\ Len(y) = (e - 1) - a + 1 /\ \A i \in 1..(e - 1) - a + 1 : y[i] = t[a + i - 1]
    BY <2>1, ShapedCut
  <2>3. (e - 1) - a + 1 = e - a
    BY <1>2
  <2> HIDE DEF y
  <2> QED BY <2>2, <2>3
<1>5. Shaped(z) /\ Len(z) = Len(t) - e + 1 /\ \A i \in 1..Len(t) - e + 1 : z[i] = t[e + i - 1]
  <2>1. e \in 1..Len(t) + 1 /\ Len(t) \in e - 1..Len(t) /\ (e <= Len(t) => t[e].kind # "rest")
    BY <1>1, <1>2
  <2> HIDE DEF z
  <2> QED BY <2>1, ShapedCut DEF z
<1>6. t = (x \o y) \o z
  <2>1. SubSeq(t, 1, a - 1) \o SubSeq(t, (a - 1) + 1, e - 1) = SubSeq(t, 1, e - 1)
    <3>1. 1 \in 1..Len(t) + 1 /\ a - 1 \in 1 - 1..Len(t) /\ e - 1 \in a - 1..Len(t)
      BY <1>1, <1>2
    <3> QED BY <1>1, <3>1, ConcatAdjacentSubSeq
  <2>2. SubSeq(t, 1, e - 1) \o SubSeq(t, (e - 1) + 1, Len(t)) = SubSeq(t, 1, Len(t))
    <3>1. 1 \in 1..Len(t) + 1 /\ e - 1 \in 1 - 1..Len(t) /\ Len(t) \in e - 1..Len(t)
      BY <1>1, <1>2
    <3> QED BY <1>1, <3>1, ConcatAdjacentSubSeq
  <2>3. (a - 1) + 1 = a /\ (e - 1) + 1 = e
    BY <1>2
  <2>4. SubSeq(t, 1, Len(t)) = t
    BY <1>1, SubSeqFull
  <2> QED BY <2>1, <2>2, <2>3, <2>4
<1> HIDE DEF x, y, z
<1>7. LinesOf(x, p) = <<>>
  <2>1. \A i \in 1..Len(x) : x[i].of # p
    BY <1>1, <1>2, <1>3
  <2> QED BY <1>3, <2>1, LinesNone DEF Shaped
<1>8. LinesOf(z, p) = <<>>
  <2>1. \A i \in 1..Len(z) : z[i].of # p
    <3> TAKE i \in 1..Len(z)
    <3>1. z[i] = t[e + i - 1] /\ e + i - 1 \in 1..Len(t) /\ e + i - 1 >= e
      BY <1>1, <1>2, <1>5
    <3> QED BY <1>2, <3>1
  <2> QED BY <1>5, <2>1, LinesNone DEF Shaped
<1>9. ASSUME NEW q \in Procs \ {p} PROVE LinesOf(y, q) = <<>>
  <2>1. \A i \in 1..Len(y) : y[i].of # q
    <3> TAKE i \in 1..Len(y)
    <3>1. y[i] = t[a + i - 1] /\ a + i - 1 \in 1..Len(t) /\ a + i - 1 >= a /\ a + i - 1 < e
      BY <1>1, <1>2, <1>4
    <3>2. t[a + i - 1].of = p \/ t[a + i - 1].of \notin Procs
      BY <1>2, <3>1
    <3> QED BY <3>1, <3>2
  <2> QED BY <1>4, <2>1, LinesNone DEF Shaped
<1> QED BY <1>3, <1>4, <1>5, <1>6, <1>7, <1>8, <1>9 DEF a, e, x, y, z

\* The lines of a procedure in a text of three pieces.
LEMMA LinesOfThree ==
  ASSUME NEW x, NEW y, NEW z, Shaped(x), Shaped(y), Shaped(z), NEW p
  PROVE  /\ Shaped((x \o y) \o z)
         /\ LinesOf((x \o y) \o z, p) = (LinesOf(x, p) \o LinesOf(y, p)) \o LinesOf(z, p)
<1>1. Shaped(x \o y) /\ Shaped((x \o y) \o z)
  BY ShapedCat
<1>2. x \in Seq(TextLines) /\ y \in Seq(TextLines) /\ z \in Seq(TextLines) /\ x \o y \in Seq(TextLines)
  BY <1>1 DEF Shaped
<1>3. LinesOf((x \o y) \o z, p) = LinesOf(x \o y, p) \o LinesOf(z, p)
  <2>1. \A t \in Seq(TextLines), u \in Seq(TextLines) : LinesOf(t \o u, p) = LinesOf(t, p) \o LinesOf(u, p)
    BY LinesCat
  <2> QED BY <1>2, <2>1, Zenon
<1>4. LinesOf(x \o y, p) = LinesOf(x, p) \o LinesOf(y, p)
  BY <1>2, LinesCat
<1> QED BY <1>1, <1>3, <1>4

\* A merged text has the source's lines of the procedure and the target's of every other one.
LEMMA MergedFacts ==
  ASSUME NEW t, NEW s, Shaped(t), Shaped(s), NEW p \in Procs, HasSpan(t, p), HasSpan(s, p)
  PROVE  /\ Shaped(Merged(t, s, p))
         /\ LinesOf(Merged(t, s, p), p) = LinesOf(s, p)
         /\ \A q \in Procs \ {p} : LinesOf(Merged(t, s, p), q) = LinesOf(t, q)
<1> DEFINE x == SubSeq(t, 1, Min(Wanted(t, p)) - 1)
           y == SubSeq(t, Min(Wanted(t, p)), SpanEnd(t, p) - 1)
           z == SubSeq(t, SpanEnd(t, p), Len(t))
           u == SubSeq(s, 1, Min(Wanted(s, p)) - 1)
           v == SubSeq(s, Min(Wanted(s, p)), SpanEnd(s, p) - 1)
           w == SubSeq(s, SpanEnd(s, p), Len(s))
           m == Merged(t, s, p)
<1>1. /\ Shaped(x) /\ Shaped(y) /\ Shaped(z) /\ t = (x \o y) \o z
      /\ LinesOf(x, p) = <<>> /\ LinesOf(z, p) = <<>> /\ \A q \in Procs \ {p} : LinesOf(y, q) = <<>>
  BY SpanCut
<1>2. /\ Shaped(u) /\ Shaped(v) /\ Shaped(w) /\ s = (u \o v) \o w
      /\ LinesOf(u, p) = <<>> /\ LinesOf(w, p) = <<>> /\ \A q \in Procs \ {p} : LinesOf(v, q) = <<>>
  BY SpanCut
<1>3. m = (x \o v) \o z
  BY DEF Merged
<1> HIDE DEF x, y, z, u, v, w, m
<1>4. \A q : /\ LinesOf(x, q) \in Seq(TextLines) /\ LinesOf(y, q) \in Seq(TextLines) /\ LinesOf(z, q) \in Seq(TextLines)
             /\ LinesOf(v, q) \in Seq(TextLines)
  BY <1>1, <1>2, LinesType DEF Shaped
<1>8. \A q : /\ LinesOf(m, q) = (LinesOf(x, q) \o LinesOf(v, q)) \o LinesOf(z, q)
             /\ LinesOf(s, q) = (LinesOf(u, q) \o LinesOf(v, q)) \o LinesOf(w, q)
             /\ LinesOf(t, q) = (LinesOf(x, q) \o LinesOf(y, q)) \o LinesOf(z, q)
  <2> TAKE q
  <2>1. LinesOf((x \o v) \o z, q) = (LinesOf(x, q) \o LinesOf(v, q)) \o LinesOf(z, q)
    BY <1>1, <1>2, LinesOfThree
  <2>2. LinesOf((u \o v) \o w, q) = (LinesOf(u, q) \o LinesOf(v, q)) \o LinesOf(w, q)
    BY <1>2, LinesOfThree
  <2>3. LinesOf((x \o y) \o z, q) = (LinesOf(x, q) \o LinesOf(y, q)) \o LinesOf(z, q)
    BY <1>1, LinesOfThree
  <2> QED BY <1>1, <1>2, <1>3, <2>1, <2>2, <2>3
<1>5. Shaped(m)
  BY <1>1, <1>2, <1>3, LinesOfThree
<1>6. LinesOf(m, p) = LinesOf(s, p)
  <2>1. LinesOf(m, p) = (<<>> \o LinesOf(v, p)) \o <<>>
    <3>1. LinesOf(m, p) = (LinesOf(x, p) \o LinesOf(v, p)) \o LinesOf(z, p)
      BY <1>8
    <3> QED BY <1>1, <3>1
  <2>2. LinesOf(s, p) = (<<>> \o LinesOf(v, p)) \o <<>>
    <3>1. LinesOf(s, p) = (LinesOf(u, p) \o LinesOf(v, p)) \o LinesOf(w, p)
      BY <1>8
    <3> QED BY <1>2, <3>1
  <2> QED BY <2>1, <2>2
<1>7. ASSUME NEW q \in Procs \ {p} PROVE LinesOf(m, q) = LinesOf(t, q)
  <2>1. LinesOf(v, q) = <<>> /\ LinesOf(y, q) = <<>>
    BY <1>1, <1>2
  <2>2. LinesOf(m, q) = (LinesOf(x, q) \o LinesOf(v, q)) \o LinesOf(z, q)
    BY <1>8
  <2>3. LinesOf(t, q) = (LinesOf(x, q) \o LinesOf(y, q)) \o LinesOf(z, q)
    BY <1>8
  <2> QED BY <2>1, <2>2, <2>3
<1> QED BY <1>5, <1>6, <1>7 DEF m

-----------------------------------------------------------------------------
(* The texts there are at first: shaped, or with a local procedure. *)

SomeLocal(t) == \E i \in 1..Len(t) : t[i].of = "local"
FirstTexts == {t \in Seq(TextLines) : Shaped(t) \/ SomeLocal(t)}

\* Two such texts after each other.
LEMMA FirstCat == ASSUME NEW t \in FirstTexts, NEW u \in FirstTexts PROVE t \o u \in FirstTexts
<1>1. t \in Seq(TextLines) /\ u \in Seq(TextLines) /\ t \o u \in Seq(TextLines)
  BY DEF FirstTexts
<1>2. CASE Shaped(t) /\ Shaped(u)
  BY <1>1, <1>2, ShapedCat DEF FirstTexts
<1>3. CASE SomeLocal(t)
  <2>1. PICK i \in 1..Len(t) : t[i].of = "local"
    BY <1>3 DEF SomeLocal
  <2>2. i \in 1..Len(t \o u) /\ (t \o u)[i] = t[i]
    BY <1>1
  <2>3. SomeLocal(t \o u)
    BY <2>1, <2>2 DEF SomeLocal
  <2> QED BY <1>1, <2>3 DEF FirstTexts
<1>4. CASE SomeLocal(u)
  <2>1. PICK i \in 1..Len(u) : u[i].of = "local"
    BY <1>4 DEF SomeLocal
  <2>2. Len(t) + i \in 1..Len(t \o u) /\ (t \o u)[Len(t) + i] = u[i]
    BY <1>1
  <2>3. SomeLocal(t \o u)
    BY <2>1, <2>2 DEF SomeLocal
  <2> QED BY <1>1, <2>3 DEF FirstTexts
<1> QED BY <1>2, <1>3, <1>4 DEF FirstTexts

\* And any number of them.
LEMMA FirstFlatten ==
  ASSUME NEW s \in Seq(Seq(TextLines)), Len(s) # 0, \A i \in 1..Len(s) : s[i] \in FirstTexts
  PROVE  FlattenSeq(s) \in FirstTexts
<1>1. Len(s) \in Nat \ {0}
  OBVIOUS
<1>2. PICK f \in [1..Len(s) -> Seq(TextLines)] :
         /\ f[1] = s[1] /\ \A i \in 2..Len(s) : f[i] = f[i - 1] \o s[i]
         /\ FlattenSeq(s) = f[Len(s)]
  BY FlattenFold
<1> DEFINE T == {k \in Nat : k \in 1..Len(s) => f[k] \in FirstTexts}
<1>3. 0 \in T
  OBVIOUS
<1>4. ASSUME NEW k \in T PROVE k + 1 \in T
  <2> SUFFICES ASSUME k + 1 \in 1..Len(s) PROVE f[k + 1] \in FirstTexts
    OBVIOUS
  <2>1. CASE k = 0
    BY <1>2, <2>1
  <2>2. CASE k # 0
    <3>1. k + 1 \in 2..Len(s) /\ (k + 1) - 1 = k /\ f[k] \in FirstTexts /\ s[k + 1] \in FirstTexts
      BY <1>1, <2>2
    <3>2. f[k + 1] = f[(k + 1) - 1] \o s[k + 1]
      BY <1>2, <3>1
    <3> QED BY <3>1, <3>2, FirstCat
  <2> QED BY <2>1, <2>2
<1>5. T = Nat
  <2> HIDE DEF T
  <2>1. T \in SUBSET Nat
    BY DEF T
  <2> QED BY <1>3, <1>4, <2>1, AllNaturals
<1>6. Len(s) \in T
  <2> HIDE DEF T
  <2> QED BY <1>1, <1>5
<1> QED BY <1>1, <1>2, <1>6

\* A single line that opens no procedure, or opens one of the package's own.
LEMMA FirstLine ==
  ASSUME NEW l \in TextLines, l.of # "local", l.kind # "rest", l.of \in Procs <=> l.kind = "head"
  PROVE  <<l>> \in FirstTexts
<1>1. <<l>> \in Seq(TextLines) /\ Len(<<l>>) = 1 /\ <<l>>[1] = l
  OBVIOUS
<1>2. Shaped(<<l>>)
  BY <1>1 DEF Shaped
<1> QED BY <1>1, <1>2 DEF FirstTexts

\* The text of one procedure.
LEMMA FirstPiece ==
  ASSUME NEW part \in Parts, NEW p \in Procs, NEW local \in BOOLEAN, NEW db \in {"source", "target"}
  PROVE  Piece(part, p, local, db) \in FirstTexts
<1> DEFINE head == Line("head", p, db)
           rest == Line("rest", p, db)
           lhead == Line("head", "local", db)
           lrest == Line("rest", "local", db)
<1>1. head \in TextLines /\ rest \in TextLines /\ lhead \in TextLines /\ lrest \in TextLines
  BY DEF Line, TextLines, Procs
<1>2. /\ head.kind = "head" /\ head.of = p /\ rest.kind = "rest" /\ rest.of = p
      /\ lhead.of = "local"
  BY DEF Line
<1> HIDE DEF head, rest, lhead, lrest
<1>3. CASE part = "PACKAGE"
  <2>1. Piece(part, p, local, db) = <<head>> \o <<>>
    BY <1>3 DEF Piece, head
  <2>2. <<head>> \in FirstTexts
    BY <1>1, <1>2, FirstLine DEF Procs
  <2> QED BY <1>1, <2>1, <2>2
<1>4. CASE part # "PACKAGE" /\ local /\ p = "P"
  <2>1. Piece(part, p, local, db) = <<head>> \o (<<lhead, lrest>> \o <<rest>>)
    BY <1>4 DEF Piece, head, rest, lhead, lrest
  <2> DEFINE v == <<lhead, lrest>> \o <<rest>>
  <2>2. <<lhead, lrest>> \in Seq(TextLines) /\ Len(<<lhead, lrest>>) = 2 /\ <<lhead, lrest>>[1] = lhead
        /\ <<rest>> \in Seq(TextLines) /\ Len(<<rest>>) = 1
    BY <1>1
  <2>3. v \in Seq(TextLines) /\ Len(v) = 3 /\ v[1] = lhead
    BY <2>2
  <2> HIDE DEF v
  <2>4. v \in FirstTexts
    BY <1>2, <2>3 DEF FirstTexts, SomeLocal
  <2>5. <<head>> \in FirstTexts
    BY <1>1, <1>2, FirstLine DEF Procs
  <2> QED BY <2>1, <2>4, <2>5, FirstCat DEF v
<1>5. CASE part # "PACKAGE" /\ ~(local /\ p = "P")
  <2>1. Piece(part, p, local, db) = <<head>> \o (<<>> \o <<rest>>)
    BY <1>5 DEF Piece, head, rest
  <2>2. <<>> \o <<rest>> = <<rest>>
    BY <1>1
  <2> DEFINE u == <<head>> \o <<rest>>
  <2>3. u \in Seq(TextLines) /\ Len(u) = 2 /\ u[1] = head /\ u[2] = rest
    <3>1. <<head>> \in Seq(TextLines) /\ Len(<<head>>) = 1 /\ <<head>>[1] = head
          /\ <<rest>> \in Seq(TextLines) /\ Len(<<rest>>) = 1 /\ <<rest>>[1] = rest
      BY <1>1
    <3> QED BY <3>1
  <2> HIDE DEF u
  <2>5. ASSUME NEW i \in 1..Len(u)
        PROVE  /\ u[i].of # "local"
               /\ u[i].of \in Procs <=> u[i].kind \in {"head", "rest"}
               /\ u[i].kind = "rest" => i > 1 /\ u[i - 1].kind = "head" /\ u[i - 1].of = u[i].of
    <3>1. i = 1 \/ i = 2
      BY <2>3
    <3>2. p # "local"
      BY DEF Procs
    <3> QED BY <1>2, <2>3, <3>1, <3>2
  <2>6. Shaped(u)
    BY <2>3, <2>5 DEF Shaped
  <2> QED BY <2>1, <2>2, <2>3, <2>6 DEF FirstTexts, u
<1> QED BY <1>3, <1>4, <1>5

\* The text of a part.
LEMMA FirstText ==
  ASSUME NEW part \in Parts, NEW order \in Orders, NEW local \in BOOLEAN, NEW init \in BOOLEAN,
         NEW db \in {"source", "target"}
  PROVE  Package(order, local, init, db)[part] \in FirstTexts
<1> DEFINE pieces == [i \in DOMAIN order |-> Piece(part, order[i], local, db)]
           top == <<Line("package", "package", db)>>
           mid == IF init /\ part = "PACKAGE BODY" THEN <<Line("init", "package", db)>> ELSE <<>>
           end == <<Line("end", "package", db)>>
<1>1. order \in Seq(Procs) /\ order # <<>> /\ Len(order) \in Nat \ {0} /\ DOMAIN order = 1..Len(order)
  <2>1. order \in Seq(Procs) /\ order # <<>>
    BY SyncAssumption
  <2> QED BY <2>1
<1>2. pieces \in Seq(Seq(TextLines)) /\ Len(pieces) = Len(order) /\ \A i \in 1..Len(pieces) : pieces[i] \in FirstTexts
  <2>1. \A i \in 1..Len(order) : Piece(part, order[i], local, db) \in FirstTexts
    BY <1>1, FirstPiece
  <2>2. \A i \in 1..Len(order) : Piece(part, order[i], local, db) \in Seq(TextLines)
    BY <2>1 DEF FirstTexts
  <2>3. pieces \in [1..Len(order) -> Seq(TextLines)]
    BY <1>1, <2>2
  <2>4. pieces \in Seq(Seq(TextLines)) /\ Len(pieces) = Len(order)
    BY <1>1, <2>3
  <2> QED BY <1>1, <2>1, <2>4
<1> HIDE DEF pieces
<1>3. FlattenSeq(pieces) \in FirstTexts
  BY <1>1, <1>2, FirstFlatten
<1>4. top \in FirstTexts /\ end \in FirstTexts /\ <<Line("init", "package", db)>> \in FirstTexts
  <2>1. \A k \in {"package", "init", "end"} : Line(k, "package", db) \in TextLines
    BY DEF Line, TextLines
  <2>2. \A k \in {"package", "init", "end"} :
          /\ Line(k, "package", db).of # "local" /\ Line(k, "package", db).kind # "rest"
          /\ Line(k, "package", db).of \notin Procs /\ Line(k, "package", db).kind # "head"
    BY DEF Line, Procs
  <2>3. \A k \in {"package", "init", "end"} : <<Line(k, "package", db)>> \in FirstTexts
    BY <2>1, <2>2, FirstLine
  <2> QED BY <2>3
<1>5. mid \in FirstTexts
  <2>1. <<>> \in FirstTexts
    BY DEF FirstTexts, Shaped
  <2> QED BY <1>4, <2>1
<1>6. TextOf(part, order, local, init, db) = ((top \o FlattenSeq(pieces)) \o mid) \o end
  BY DEF TextOf, pieces
<1> HIDE DEF top, mid, end
<1>7. TextOf(part, order, local, init, db) \in FirstTexts
  <2>1. top \o FlattenSeq(pieces) \in FirstTexts
    BY <1>3, <1>4, FirstCat
  <2>2. (top \o FlattenSeq(pieces)) \o mid \in FirstTexts
    BY <1>5, <2>1, FirstCat
  <2>3. ((top \o FlattenSeq(pieces)) \o mid) \o end \in FirstTexts
    BY <1>4, <2>2, FirstCat
  <2> QED BY <1>6, <2>3
<1> QED BY <1>7 DEF Package

-----------------------------------------------------------------------------
(* The invariant of the package tool (PackageSync), for packages without local procedures. *)

SyncSteps == {"count", "merge", "replace", "status", "trigger"}

\* The calls and the texts keep their types.
SyncType ==
  /\ pc \in [Calls -> SyncSteps \cup Ended]
  /\ req = [c \in Calls |-> req[c]] /\ \A c \in Calls : pc[c] # "idle" => req[c].proc \in Procs
  /\ met \in [Calls -> SUBSET Calls]
  /\ text \in [Calls -> [part : Parts, lines : Seq(TextLines)]]
  /\ answer \in [Calls -> {"none", "not_confirmed", "synced", "synced_with_errors"}]
  /\ target \in [Parts -> Seq(TextLines)]

\* No text on either database has a local procedure.
TextsShaped == \A part \in Parts : Shaped(source[part]) /\ Shaped(first[part]) /\ Shaped(target[part])
\* Calls that are open together have met.
SyncMeets == \A c, d \in Open : c = d \/ d \in met[c]
\* Only a call that is done, or has the trigger left, said "synced".
AnswerAt(c) == answer[c] = "synced" => pc[c] \in {"trigger", "done"}

\* t, for that part, has the source's overloads of p; those, or the ones there were at first.
FromSource(part, t, p) == LinesOf(t, p) = LinesOf(source[part], p)
FromEither(part, t, p) == FromSource(part, t, p) \/ LinesOf(t, p) = LinesOf(first[part], p)

\* The target's overloads of a procedure were never mixed.
TargetWhole == \A part \in Parts, p \in Procs : FromEither(part, target[part], p)
\* The text c is about to write has the source's overloads of its procedure.
WritesAt(c) ==
  pc[c] = "replace" =>
    /\ Shaped(text[c].lines)
    /\ FromSource(text[c].part, text[c].lines, req[c].proc)
    /\ \A p \in Procs : FromEither(text[c].part, text[c].lines, p)

\* The parts that c has written.
Copied(c) ==
  IF pc[c] \in {"status", "trigger"} \/ answer[c] = "synced" THEN Parts
  ELSE IF pc[c] \in {"merge", "replace"} /\ text[c].part = "PACKAGE BODY" THEN {"PACKAGE"} ELSE {}
\* They stay as a call that met no other wrote them.
CopiedAt(c) == met[c] = {} => \A part \in Copied(c) : FromSource(part, target[part], req[c].proc)
\* Also by calls that began after it ended.
KeepsAt(c) ==
  met[c] = {} /\ answer[c] = "synced" =>
    \A d \in Calls : pc[d] = "replace" => FromSource(text[d].part, text[d].lines, req[c].proc)

SyncInv ==
  /\ SyncType /\ TextsShaped /\ SyncMeets /\ TargetWhole
  /\ \A c \in Calls : AnswerAt(c) /\ WritesAt(c) /\ CopiedAt(c) /\ KeepsAt(c)

\* The package tool's initial states satisfy the invariant.
LEMMA SyncInitInv == ASSUME Init, ~HasLocals PROVE SyncInv
<1>1. /\ pc = [c \in Calls |-> "idle"] /\ req = [c \in Calls |-> NoRequest(group)]
      /\ met = [c \in Calls |-> {}] /\ SyncInit
  BY DEF Init, CallInit
<1>2. /\ first = target
      /\ text = [c \in Calls |-> [part |-> "PACKAGE", lines |-> <<>>]] /\ answer = [c \in Calls |-> "none"]
  BY <1>1 DEF SyncInit
<1>3. ASSUME NEW part \in Parts PROVE source[part] \in FirstTexts /\ target[part] \in FirstTexts
  <2>1. PICK order \in Orders, local \in BOOLEAN, init \in BOOLEAN :
          source = Package(order, local, init, "source")
    BY <1>1 DEF SyncInit
  <2>2. PICK order2 \in Orders, local2 \in BOOLEAN, init2 \in BOOLEAN :
          target = Package(order2, local2, init2, "target")
    BY <1>1 DEF SyncInit
  <2> QED BY <2>1, <2>2, FirstText
<1>4. ASSUME NEW part \in Parts PROVE Shaped(source[part]) /\ Shaped(target[part])
  <2>1. source[part] \in Seq(TextLines) /\ target[part] \in Seq(TextLines)
    BY <1>3 DEF FirstTexts
  <2>2. ~SomeLocal(source[part]) /\ ~SomeLocal(target[part])
    BY <1>2, <2>1 DEF HasLocals, SomeLocal
  <2> QED BY <1>3, <2>2 DEF FirstTexts
<1>5. TextsShaped
  BY <1>2, <1>4 DEF TextsShaped
<1>6. target \in [Parts -> Seq(TextLines)]
  <2>1. PICK order \in Orders, local \in BOOLEAN, init \in BOOLEAN :
          target = Package(order, local, init, "target")
    BY <1>1 DEF SyncInit
  <2>2. target = [part \in Parts |-> target[part]]
    BY <2>1 DEF Package
  <2> QED BY <1>3, <2>2 DEF FirstTexts
<1>7. SyncType
  <2>1. <<>> \in Seq(TextLines) /\ "PACKAGE" \in Parts
    BY DEF Parts
  <2>2. req = [c \in Calls |-> req[c]]
    BY <1>1
  <2> QED BY <1>1, <1>2, <1>6, <2>1, <2>2 DEF SyncType, Ended
<1>8. SyncMeets
  BY <1>1 DEF SyncMeets, Open, Ended
<1>9. TargetWhole
  BY <1>2 DEF TargetWhole, FromEither
<1>10. ASSUME NEW c \in Calls PROVE AnswerAt(c) /\ WritesAt(c) /\ CopiedAt(c) /\ KeepsAt(c)
  BY <1>1, <1>2 DEF AnswerAt, WritesAt, CopiedAt, Copied, KeepsAt
<1> QED BY <1>5, <1>7, <1>8, <1>9, <1>10 DEF SyncInv

\* What a step of c leaves of the others' part of the invariant, while the target stays.
LEMMA SyncOthers ==
  ASSUME SyncInv, NEW d \in Calls, UNCHANGED <<texts, req, met>>,
         pc'[d] = pc[d], text'[d] = text[d], answer'[d] = answer[d]
  PROVE  AnswerAt(d)' /\ WritesAt(d)' /\ CopiedAt(d)'
BY DEF SyncInv, texts, AnswerAt, WritesAt, CopiedAt, Copied, FromSource, FromEither

\* No call is open beside one that met none.
LEMMA SyncAlone ==
  ASSUME SyncInv, NEW c \in Open, met[c] = {}, NEW d \in Calls, d # c
  PROVE  d \notin Open
BY DEF SyncInv, SyncMeets

\* A step of c that leaves the target alone and makes no text.
LEMMA SyncFrame ==
  ASSUME SyncInv, NEW c \in Calls, pc[c] \in SyncSteps,
         NEW s \in (SyncSteps \cup {"done", "raised"}) \ {"replace"}, pc' = [pc EXCEPT ![c] = s],
         UNCHANGED <<texts, req, met>>,
         text' \in [Calls -> [part : Parts, lines : Seq(TextLines)]],
         answer' \in [Calls -> {"none", "not_confirmed", "synced", "synced_with_errors"}],
         \A d \in Calls \ {c} : text'[d] = text[d] /\ answer'[d] = answer[d],
         AnswerAt(c)', CopiedAt(c)',
         answer'[c] = "synced" => answer[c] = "synced" \/ pc[c] = "status"
  PROVE  SyncInv'
<1>1. pc \in [Calls -> SyncSteps \cup Ended]
  BY DEF SyncInv, SyncType
<1>2. pc'[c] = s /\ \A d \in Calls \ {c} : pc'[d] = pc[d]
  BY <1>1
<1>3. SyncType'
  <2>1. pc' \in [Calls -> SyncSteps \cup Ended]
    BY <1>1 DEF Ended
  <2>2. \A d \in Calls : pc'[d] # "idle" => req'[d].proc \in Procs
    <3>1. pc[c] # "idle"
      BY DEF SyncSteps
    <3> QED BY <1>2, <3>1 DEF SyncInv, SyncType
  <2> QED BY <2>1, <2>2 DEF SyncInv, SyncType, texts
<1>4. TextsShaped' /\ TargetWhole'
  BY DEF SyncInv, TextsShaped, TargetWhole, texts, FromEither, FromSource
<1>5. Open' \subseteq Open
  <2>1. c \in Open
    BY DEF Open, SyncSteps, Ended
  <2> QED BY <1>2, <2>1 DEF Open
<1>6. SyncMeets'
  BY <1>5 DEF SyncInv, SyncMeets
<1>7. WritesAt(c)'
  BY <1>2 DEF WritesAt
<1>8. ASSUME NEW d \in Calls \ {c} PROVE AnswerAt(d)' /\ WritesAt(d)' /\ CopiedAt(d)'
  BY <1>2, SyncOthers
<1>9. ASSUME NEW d \in Calls PROVE KeepsAt(d)'
  <2> SUFFICES ASSUME met[d] = {}, answer'[d] = "synced", NEW e \in Calls, pc'[e] = "replace"
               PROVE  FromSource(text[e].part, text[e].lines, req[d].proc) /\ text'[e] = text[e]
    BY DEF KeepsAt, FromSource, texts
  <2>1. e # c /\ pc[e] = "replace" /\ text'[e] = text[e] /\ e \in Open
    BY <1>2 DEF Open, Ended
  <2>2. CASE answer[d] = "synced"
    BY <2>1, <2>2 DEF SyncInv, KeepsAt
  <2>3. CASE answer[d] # "synced"
    <3>1. d = c /\ pc[c] = "status" /\ c \in Open
      BY <2>3 DEF Open, SyncSteps, Ended
    <3> QED BY <2>1, <3>1, SyncAlone
  <2> QED BY <2>2, <2>3
<1> QED BY <1>3, <1>4, <1>6, <1>7, <1>8, <1>9 DEF SyncInv

\* The steps that leave the target alone and make no text.
LEMMA SyncQuietSteps ==
  ASSUME SyncInv, NEW c \in Calls,
         \/ Merge(c) /\ pc'[c] = "raised"
         \/ Count(c) \/ Status(c) \/ CompileTrigger(c) \/ SyncFails(c)
  PROVE  SyncInv'
<1>1. /\ text \in [Calls -> [part : Parts, lines : Seq(TextLines)]]
      /\ answer \in [Calls -> {"none", "not_confirmed", "synced", "synced_with_errors"}]
      /\ pc \in [Calls -> SyncSteps \cup Ended] /\ "PACKAGE" \in Parts
  BY DEF SyncInv, SyncType, Parts
<1>2. AnswerAt(c) /\ CopiedAt(c)
  BY DEF SyncInv
<1>3. CASE Count(c)
  <2>1. /\ pc[c] = "count" /\ UNCHANGED <<texts, req, met>>
        /\ answer' = [answer EXCEPT ![c] = IF req[c].confirmed THEN @ ELSE "not_confirmed"]
        /\ text' = [text EXCEPT ![c].part = "PACKAGE"]
        /\ pc' = [pc EXCEPT ![c] = IF req[c].confirmed THEN "merge" ELSE "done"]
    BY <1>3 DEF Count, At, Go, history
  <2>2. /\ answer'[c] # "synced" /\ text'[c].part = "PACKAGE" /\ pc'[c] \in {"merge", "done"}
        /\ answer[c] # "synced"
    BY <1>1, <1>2, <2>1 DEF AnswerAt
  <2>3. AnswerAt(c)' /\ CopiedAt(c)'
    BY <2>2 DEF AnswerAt, CopiedAt, Copied
  <2>4. text' \in [Calls -> [part : Parts, lines : Seq(TextLines)]] /\ \A d \in Calls \ {c} : text'[d] = text[d]
    BY <1>1, <2>1
  <2>5. /\ answer' \in [Calls -> {"none", "not_confirmed", "synced", "synced_with_errors"}]
        /\ \A d \in Calls \ {c} : answer'[d] = answer[d]
    BY <1>1, <2>1
  <2>6. CASE req[c].confirmed
    BY <2>1, <2>2, <2>3, <2>4, <2>5, <2>6, SyncFrame DEF SyncSteps
  <2>7. CASE ~req[c].confirmed
    BY <2>1, <2>2, <2>3, <2>4, <2>5, <2>7, SyncFrame DEF SyncSteps
  <2> QED BY <2>6, <2>7
<1>4. CASE Merge(c) /\ pc'[c] = "raised"
  <2>1. /\ pc[c] = "merge" /\ UNCHANGED <<texts, req, met, text, answer>>
        /\ pc' = [pc EXCEPT ![c] = "raised"]
    <3>1. pc[c] = "merge" /\ UNCHANGED <<texts, req, met, answer>>
      BY <1>4 DEF Merge, At, Go, history
    <3>2. \/ pc' = [pc EXCEPT ![c] = "replace"]
          \/ pc' = [pc EXCEPT ![c] = "raised"] /\ UNCHANGED text
      BY <1>4 DEF Merge, Go
    <3> QED BY <1>1, <1>4, <3>1, <3>2
  <2>2. answer[c] # "synced"
    BY <1>2, <2>1 DEF AnswerAt
  <2>3. AnswerAt(c)' /\ CopiedAt(c)'
    BY <1>1, <2>1, <2>2 DEF AnswerAt, CopiedAt, Copied
  <2> QED BY <1>1, <2>1, <2>2, <2>3, SyncFrame DEF SyncSteps
<1>5. CASE Status(c)
  <2>1. /\ pc[c] = "status" /\ UNCHANGED <<texts, req, met, text>>
        /\ answer' = [answer EXCEPT ![c] = IF Valid(target) THEN "synced" ELSE "synced_with_errors"]
        /\ pc' = [pc EXCEPT ![c] = IF req[c].trigger THEN "trigger" ELSE "done"]
    BY <1>5 DEF Status, At, Go, history
  <2>2. pc'[c] \in {"trigger", "done"} /\ target' = target /\ source' = source
    BY <1>1, <2>1 DEF texts
  <2>3. AnswerAt(c)'
    BY <2>2 DEF AnswerAt
  <2>4. CopiedAt(c)'
    <3>1. Copied(c) = Parts
      BY <2>1 DEF Copied
    <3>2. Copied(c)' \subseteq Parts
      BY DEF Copied, Parts
    <3> QED BY <1>2, <2>1, <2>2, <3>1, <3>2 DEF CopiedAt, FromSource
  <2>5. /\ answer' \in [Calls -> {"none", "not_confirmed", "synced", "synced_with_errors"}]
        /\ \A d \in Calls \ {c} : answer'[d] = answer[d]
    BY <1>1, <2>1
  <2>6. \E s \in {"trigger", "done"} : pc' = [pc EXCEPT ![c] = s]
    BY <2>1
  <2> QED BY <1>1, <2>1, <2>3, <2>4, <2>5, <2>6, SyncFrame DEF SyncSteps
<1>6. CASE CompileTrigger(c)
  <2>1. /\ pc[c] = "trigger" /\ UNCHANGED <<texts, req, met, text>>
        /\ answer' = [answer EXCEPT ![c] = IF Valid(target) THEN @ ELSE "synced_with_errors"]
        /\ pc' = [pc EXCEPT ![c] = "done"]
    BY <1>6 DEF CompileTrigger, At, Go, history
  <2>2. pc'[c] = "done" /\ target' = target /\ source' = source /\ (answer'[c] = "synced" => answer[c] = "synced")
    BY <1>1, <2>1 DEF texts
  <2>3. AnswerAt(c)'
    BY <2>2 DEF AnswerAt
  <2>4. CopiedAt(c)'
    <3>1. Copied(c) = Parts
      BY <2>1 DEF Copied
    <3>2. Copied(c)' \subseteq Parts
      BY DEF Copied, Parts
    <3> QED BY <1>2, <2>1, <2>2, <3>1, <3>2 DEF CopiedAt, FromSource
  <2>5. /\ answer' \in [Calls -> {"none", "not_confirmed", "synced", "synced_with_errors"}]
        /\ \A d \in Calls \ {c} : answer'[d] = answer[d]
    BY <1>1, <2>1
  <2> QED BY <1>1, <2>1, <2>2, <2>3, <2>4, <2>5, SyncFrame DEF SyncSteps
<1>7. CASE SyncFails(c)
  <2>1. /\ pc[c] \in SyncSteps /\ UNCHANGED <<texts, req, met, text>>
        /\ answer' = [answer EXCEPT ![c] = "none"] /\ pc' = [pc EXCEPT ![c] = "raised"]
    BY <1>7 DEF SyncFails, Strike, SyncSteps
  <2>2. pc'[c] = "raised" /\ answer'[c] = "none"
    BY <1>1, <2>1
  <2>3. AnswerAt(c)' /\ CopiedAt(c)'
    BY <2>2 DEF AnswerAt, CopiedAt, Copied
  <2>4. /\ answer' \in [Calls -> {"none", "not_confirmed", "synced", "synced_with_errors"}]
        /\ \A d \in Calls \ {c} : answer'[d] = answer[d]
    BY <1>1, <2>1
  <2> QED BY <1>1, <2>1, <2>2, <2>3, <2>4, SyncFrame DEF SyncSteps
<1> QED BY <1>3, <1>4, <1>5, <1>6, <1>7

\* A call begins beside those that are open.
LEMMA SyncStartStep == ASSUME SyncInv, NEW c \in Calls, SyncStart(c) PROVE SyncInv'
<1>1. PICK p \in Procs, confirmed \in BOOLEAN, withTrigger \in BOOLEAN :
        Begin(c, [kind |-> "sync", proc |-> p, confirmed |-> confirmed, trigger |-> withTrigger], "count", FALSE)
  BY DEF SyncStart
<1>2. UNCHANGED <<texts, text, answer>>
  BY DEF SyncStart, syncVars, syncLocals
<1>3. /\ pc \in [Calls -> SyncSteps \cup Ended] /\ req = [d \in Calls |-> req[d]]
      /\ met \in [Calls -> SUBSET Calls]
  BY DEF SyncInv, SyncType
<1>4. /\ pc[c] = "idle" /\ pc' = [pc EXCEPT ![c] = "count"]
      /\ req' = [req EXCEPT ![c] = [kind |-> "sync", proc |-> p, confirmed |-> confirmed, trigger |-> withTrigger]]
      /\ met' = [d \in Calls |-> IF d = c THEN Open ELSE IF d \in Open THEN met[d] \cup {c} ELSE met[d]]
  BY <1>1 DEF Begin, At
<1>5. /\ pc'[c] = "count" /\ req'[c].proc = p /\ met'[c] = Open
      /\ \A d \in Calls \ {c} : /\ pc'[d] = pc[d] /\ req'[d] = req[d]
                                /\ met'[d] = IF d \in Open THEN met[d] \cup {c} ELSE met[d]
  BY <1>3, <1>4
<1>6. SyncType'
  <2>1. pc' \in [Calls -> SyncSteps \cup Ended]
    BY <1>3, <1>4 DEF SyncSteps
  <2>2. req' = [d \in Calls |-> req'[d]]
    BY <1>3, <1>4
  <2>3. \A d \in Calls : pc'[d] # "idle" => req'[d].proc \in Procs
    BY <1>5 DEF SyncInv, SyncType
  <2>4. met' \in [Calls -> SUBSET Calls]
    BY <1>3, <1>4 DEF Open
  <2> QED BY <1>2, <2>1, <2>2, <2>3, <2>4 DEF SyncInv, SyncType, texts
<1>7. TextsShaped' /\ TargetWhole'
  BY <1>2 DEF SyncInv, TextsShaped, TargetWhole, texts, FromEither, FromSource
<1>8. SyncMeets'
  <2> SUFFICES ASSUME NEW d \in Open', NEW e \in Open' PROVE d = e \/ e \in met'[d]
    BY DEF SyncMeets
  <2>1. d \in Calls /\ e \in Calls
    BY DEF Open
  <2>2. d # c => d \in Open
    BY <1>5, <2>1 DEF Open
  <2>3. e # c => e \in Open
    BY <1>5, <2>1 DEF Open
  <2>4. CASE d = c \/ e = c
    BY <1>5, <2>1, <2>2, <2>3, <2>4
  <2>5. CASE d # c /\ e # c
    BY <1>5, <2>1, <2>2, <2>3, <2>5 DEF SyncInv, SyncMeets
  <2> QED BY <2>4, <2>5
<1>9. ASSUME NEW d \in Calls PROVE AnswerAt(d)' /\ WritesAt(d)' /\ CopiedAt(d)' /\ KeepsAt(d)'
  <2>1. CASE d = c
    <3>1. answer[c] # "synced"
      BY <1>4 DEF SyncInv, AnswerAt
    <3> QED BY <1>2, <1>5, <2>1, <3>1 DEF AnswerAt, WritesAt, CopiedAt, Copied, KeepsAt
  <2>2. CASE d # c
    <3>1. pc'[d] = pc[d] /\ req'[d] = req[d] /\ (met'[d] = {} => met[d] = {})
      BY <1>5, <2>2
    <3>2. \A e \in Calls : pc'[e] = "replace" => pc[e] = "replace"
      BY <1>5
    <3>3. AnswerAt(d) /\ WritesAt(d) /\ CopiedAt(d) /\ KeepsAt(d)
      BY DEF SyncInv
    <3>4. AnswerAt(d)' /\ WritesAt(d)'
      BY <1>2, <3>1, <3>3 DEF AnswerAt, WritesAt, texts, FromSource, FromEither
    <3>5. CopiedAt(d)'
      BY <1>2, <3>1, <3>3 DEF CopiedAt, Copied, texts, FromSource
    <3>6. KeepsAt(d)'
      BY <1>2, <3>1, <3>2, <3>3 DEF KeepsAt, texts, FromSource
    <3> QED BY <3>4, <3>5, <3>6
  <2> QED BY <2>1, <2>2
<1> QED BY <1>6, <1>7, <1>8, <1>9 DEF SyncInv

\* A call reads both texts and merges them.
LEMMA SyncMergeStep == ASSUME SyncInv, NEW c \in Calls, Merge(c), pc'[c] # "raised" PROVE SyncInv'
<1> DEFINE part == text[c].part
           p == req[c].proc
           m == Merged(target[part], source[part], p)
<1>1. /\ pc \in [Calls -> SyncSteps \cup Ended] /\ part \in Parts
      /\ text \in [Calls -> [part : Parts, lines : Seq(TextLines)]]
  BY DEF SyncInv, SyncType
<1>2. /\ pc[c] = "merge" /\ UNCHANGED <<texts, req, met, answer>>
      /\ HasSpan(target[part], p) /\ HasSpan(source[part], p)
      /\ text' = [text EXCEPT ![c].lines = m] /\ pc' = [pc EXCEPT ![c] = "replace"]
  <2>1. pc[c] = "merge" /\ UNCHANGED <<texts, answer>>
    BY DEF Merge, At
  <2>2. CASE HasSpan(target[part], p) /\ HasSpan(source[part], p)
    BY <2>1, <2>2 DEF Merge, Go, history
  <2>3. CASE ~(HasSpan(target[part], p) /\ HasSpan(source[part], p))
    <3>1. pc' = [pc EXCEPT ![c] = "raised"]
      BY <2>3 DEF Merge, Go
    <3> QED BY <1>1, <3>1
  <2> QED BY <2>2, <2>3
<1>3. p \in Procs
  BY <1>2 DEF SyncInv, SyncType
<1>4. Shaped(target[part]) /\ Shaped(source[part])
  BY <1>1 DEF SyncInv, TextsShaped
<1>5. /\ Shaped(m) /\ LinesOf(m, p) = LinesOf(source[part], p)
      /\ \A q \in Procs \ {p} : LinesOf(m, q) = LinesOf(target[part], q)
  BY <1>2, <1>3, <1>4, MergedFacts
<1> HIDE DEF m, part, p
<1>6. /\ pc'[c] = "replace" /\ text'[c].part = part /\ text'[c].lines = m
      /\ \A d \in Calls \ {c} : pc'[d] = pc[d] /\ text'[d] = text[d]
  BY <1>1, <1>2 DEF part
<1>7. SyncType'
  <2>1. m \in Seq(TextLines)
    BY <1>5 DEF Shaped
  <2>2. text' \in [Calls -> [part : Parts, lines : Seq(TextLines)]]
    BY <1>1, <1>2, <2>1
  <2>3. pc' \in [Calls -> SyncSteps \cup Ended]
    BY <1>1, <1>2 DEF SyncSteps
  <2>4. \A d \in Calls : pc'[d] # "idle" => req'[d].proc \in Procs
    BY <1>2, <1>6 DEF SyncInv, SyncType
  <2> QED BY <1>2, <2>2, <2>3, <2>4 DEF SyncInv, SyncType, texts
<1>8. TextsShaped' /\ TargetWhole'
  BY <1>2 DEF SyncInv, TextsShaped, TargetWhole, texts, FromEither, FromSource
<1>9. SyncMeets'
  <2>1. Open' = Open
    BY <1>2, <1>6 DEF Open, Ended
  <2> QED BY <1>2, <2>1 DEF SyncInv, SyncMeets
<1>10. \A q \in Procs : FromSource(part, target[part], q) => FromSource(part, m, q)
  BY <1>5 DEF FromSource
<1>11. AnswerAt(c)' /\ WritesAt(c)' /\ CopiedAt(c)'
  <2>1. answer[c] # "synced" /\ answer' = answer
    BY <1>2 DEF SyncInv, AnswerAt
  <2>2. \A q \in Procs : FromEither(part, m, q)
    BY <1>1, <1>5 DEF SyncInv, TargetWhole, FromEither, FromSource
  <2>3. req'[c].proc = p
    BY <1>2 DEF p
  <2>4. WritesAt(c)'
    BY <1>2, <1>5, <1>6, <2>2, <2>3 DEF WritesAt, texts, FromEither, FromSource
  <2>5. Copied(c)' = Copied(c)
    BY <1>2, <1>6, <2>1 DEF Copied, part
  <2>6. CopiedAt(c)'
    BY <1>2, <2>5 DEF SyncInv, CopiedAt, texts, FromSource
  <2> QED BY <1>6, <2>1, <2>4, <2>6 DEF AnswerAt
<1>12. ASSUME NEW d \in Calls \ {c} PROVE AnswerAt(d)' /\ WritesAt(d)' /\ CopiedAt(d)'
  BY <1>2, <1>6, SyncOthers
<1>13. ASSUME NEW d \in Calls PROVE KeepsAt(d)'
  <2> SUFFICES ASSUME met[d] = {}, answer[d] = "synced", NEW e \in Calls, pc'[e] = "replace"
               PROVE  FromSource(text'[e].part, text'[e].lines, req[d].proc)
    BY <1>2 DEF KeepsAt, FromSource, texts
  <2>1. CASE e # c
    BY <1>6, <2>1 DEF SyncInv, KeepsAt
  <2>2. CASE e = c
    <3>1. Copied(d) = Parts
      BY DEF Copied
    <3>2. FromSource(part, target[part], req[d].proc)
      BY <1>1, <3>1 DEF SyncInv, CopiedAt
    <3>3. req[d].proc \in Procs
      BY DEF SyncInv, SyncType, AnswerAt
    <3> QED BY <1>6, <1>10, <2>2, <3>2, <3>3
  <2> QED BY <2>1, <2>2
<1> QED BY <1>7, <1>8, <1>9, <1>11, <1>12, <1>13 DEF SyncInv

\* A call replaces a part of the target's package.
LEMMA SyncReplaceStep == ASSUME SyncInv, NEW c \in Calls, Replace(c) PROVE SyncInv'
<1> DEFINE part == text[c].part
           m == text[c].lines
           p == req[c].proc
<1>1. /\ pc \in [Calls -> SyncSteps \cup Ended] /\ part \in Parts /\ m \in Seq(TextLines)
      /\ text \in [Calls -> [part : Parts, lines : Seq(TextLines)]] /\ target \in [Parts -> Seq(TextLines)]
  BY DEF SyncInv, SyncType
<1>2. /\ pc[c] = "replace" /\ UNCHANGED <<source, first, req, met, answer>>
      /\ target' = [target EXCEPT ![part] = m]
      /\ text' = [text EXCEPT ![c] = [part |-> "PACKAGE BODY", lines |-> <<>>]]
      /\ pc' = [pc EXCEPT ![c] = IF part = "PACKAGE" THEN "merge" ELSE "status"]
  BY DEF Replace, At, Go, history
<1>3. Shaped(m) /\ FromSource(part, m, p) /\ \A q \in Procs : FromEither(part, m, q)
  BY <1>2 DEF SyncInv, WritesAt
<1>4. c \in Open /\ answer[c] # "synced"
  BY <1>2 DEF SyncInv, AnswerAt, Open, Ended
<1> HIDE DEF part, m, p
<1>5. /\ pc'[c] = (IF part = "PACKAGE" THEN "merge" ELSE "status") /\ text'[c].part = "PACKAGE BODY"
      /\ \A d \in Calls \ {c} : pc'[d] = pc[d] /\ text'[d] = text[d]
      /\ \A x \in Parts : target'[x] = IF x = part THEN m ELSE target[x]
  BY <1>1, <1>2
<1>6. SyncType'
  <2>1. text' \in [Calls -> [part : Parts, lines : Seq(TextLines)]]
    <3>1. [part |-> "PACKAGE BODY", lines |-> <<>>] \in [part : Parts, lines : Seq(TextLines)]
      BY DEF Parts
    <3> QED BY <1>1, <1>2, <3>1
  <2>2. target' \in [Parts -> Seq(TextLines)]
    BY <1>1, <1>2
  <2>3. pc' \in [Calls -> SyncSteps \cup Ended]
    BY <1>1, <1>2 DEF SyncSteps
  <2>4. \A d \in Calls : pc'[d] # "idle" => req'[d].proc \in Procs
    BY <1>2, <1>5 DEF SyncInv, SyncType
  <2> QED BY <1>2, <2>1, <2>2, <2>3, <2>4 DEF SyncInv, SyncType
<1>7. TextsShaped'
  <2> SUFFICES ASSUME NEW x \in Parts PROVE Shaped(source'[x]) /\ Shaped(first'[x]) /\ Shaped(target'[x])
    BY DEF TextsShaped
  <2>1. Shaped(source[x]) /\ Shaped(first[x]) /\ Shaped(target[x])
    BY DEF SyncInv, TextsShaped
  <2>2. source' = source /\ first' = first /\ target'[x] = IF x = part THEN m ELSE target[x]
    BY <1>2, <1>5
  <2> QED BY <1>3, <2>1, <2>2
<1>8. TargetWhole'
  <2> SUFFICES ASSUME NEW x \in Parts, NEW q \in Procs PROVE FromEither(x, target[x], q)'
    BY DEF TargetWhole
  <2>1. CASE x = part
    BY <1>2, <1>3, <1>5, <2>1 DEF FromEither, FromSource
  <2>2. CASE x # part
    <3>1. FromEither(x, target[x], q) /\ target'[x] = target[x]
      BY <1>5, <2>2 DEF SyncInv, TargetWhole
    <3> QED BY <1>2, <3>1 DEF FromEither, FromSource
  <2> QED BY <2>1, <2>2
<1>13. pc'[c] \in {"merge", "status"}
  BY <1>5
<1>9. SyncMeets'
  <2>1. Open' = Open
    BY <1>2, <1>5, <1>13 DEF Open, Ended
  <2> QED BY <1>2, <2>1 DEF SyncInv, SyncMeets
<1>10. AnswerAt(c)' /\ WritesAt(c)' /\ KeepsAt(c)'
  <2>1. pc'[c] # "replace" /\ answer'[c] # "synced"
    BY <1>2, <1>4, <1>13
  <2> QED BY <2>1 DEF AnswerAt, WritesAt, KeepsAt
<1>11. CopiedAt(c)'
  <2> SUFFICES ASSUME met[c] = {}, NEW x \in Copied(c)' PROVE FromSource(x, target'[x], p)
    BY <1>2 DEF CopiedAt, FromSource, p
  <2>1. x \in Parts
    BY DEF Copied, Parts
  <2>2. CASE x = part
    BY <1>3, <1>5, <2>1, <2>2
  <2>3. CASE x # part
    <3>1. part = "PACKAGE BODY" /\ x = "PACKAGE"
      BY <1>1, <1>2, <1>4, <1>5, <2>1, <2>3 DEF Copied, Parts
    <3>2. x \in Copied(c)
      BY <1>2, <1>4, <3>1 DEF Copied, part
    <3>3. FromSource(x, target[x], p)
      BY <3>2 DEF SyncInv, CopiedAt, p
    <3> QED BY <1>5, <2>1, <2>3, <3>3
  <2> QED BY <2>2, <2>3
<1>12. ASSUME NEW d \in Calls \ {c} PROVE AnswerAt(d)' /\ WritesAt(d)' /\ CopiedAt(d)' /\ KeepsAt(d)'
  <2>1. AnswerAt(d)' /\ WritesAt(d)'
    <3>1. AnswerAt(d) /\ WritesAt(d) /\ pc'[d] = pc[d] /\ text'[d] = text[d]
      BY <1>5 DEF SyncInv
    <3> QED BY <1>2, <3>1 DEF AnswerAt, WritesAt, FromEither, FromSource
  <2>2. KeepsAt(d)'
    <3>1. \A e \in Calls : pc'[e] = "replace" => pc[e] = "replace" /\ text'[e] = text[e]
      BY <1>5
    <3> QED BY <1>2, <3>1 DEF SyncInv, KeepsAt, FromSource
  <2>3. CopiedAt(d)'
    <3> SUFFICES ASSUME met[d] = {}, NEW x \in Copied(d) PROVE FromSource(x, target'[x], req[d].proc)
      <4>1. Copied(d)' = Copied(d)
        BY <1>2, <1>5 DEF Copied
      <4> QED BY <1>2, <4>1 DEF CopiedAt, FromSource
    <3>1. answer[d] = "synced"
      <4> SUFFICES ASSUME answer[d] # "synced" PROVE FALSE
        OBVIOUS
      <4>1. d \in Open
        BY DEF Copied, Open, Ended
      <4> QED BY <1>4, <4>1, SyncAlone
    <3>2. FromSource(part, m, req[d].proc)
      BY <1>2, <3>1 DEF SyncInv, KeepsAt, part, m
    <3>3. FromSource(x, target[x], req[d].proc) /\ x \in Parts
      BY <3>1 DEF SyncInv, CopiedAt, Copied
    <3> QED BY <1>5, <3>2, <3>3
  <2> QED BY <2>1, <2>2, <2>3
<1> QED BY <1>6, <1>7, <1>8, <1>9, <1>10, <1>11, <1>12 DEF SyncInv

\* A step of the package tool keeps its invariant.
LEMMA SyncStep == ASSUME SyncInv, SyncNext PROVE SyncInv'
<1>1. PICK c \in Calls :
        \/ SyncStart(c) \/ Count(c) \/ Merge(c) \/ Replace(c) \/ Status(c) \/ CompileTrigger(c)
        \/ SyncFails(c)
  BY DEF SyncNext
<1>2. CASE Merge(c)
  <2>1. CASE pc'[c] = "raised"
    BY <1>2, <2>1, SyncQuietSteps
  <2>2. CASE pc'[c] # "raised"
    BY <1>2, <2>2, SyncMergeStep
  <2> QED BY <2>1, <2>2
<1>3. CASE Count(c) \/ Status(c) \/ CompileTrigger(c) \/ SyncFails(c)
  <2>1. CASE Count(c)
    BY <2>1, SyncQuietSteps
  <2>2. CASE Status(c)
    BY <2>2, SyncQuietSteps
  <2>3. CASE CompileTrigger(c)
    BY <2>3, SyncQuietSteps
  <2>4. CASE SyncFails(c)
    BY <2>4, SyncQuietSteps
  <2> QED BY <1>3, <2>1, <2>2, <2>3, <2>4
<1>4. CASE SyncStart(c)
  BY <1>4, SyncStartStep
<1>5. CASE Replace(c)
  BY <1>5, SyncReplaceStep
<1> QED BY <1>1, <1>2, <1>3, <1>4, <1>5

\* In a behaviour of another group no call of this tool answers.
ServerSyncInv ==
  IF group = "sync" THEN ~HasLocals => SyncInv ELSE answer = [c \in Calls |-> "none"]

\* What a call copied alone, it copied for good: with both parts of the target's package it has
\* the source's overloads of its procedure, and the other procedure as it was or as another call
\* copied it.
THEOREM SyncedPackagesStay == Spec => []SyncedStays
<1>1. Init => ServerSyncInv
  BY SyncInitInv DEF ServerSyncInv, Init, SyncInit
<1>2. ServerSyncInv /\ [Next]_serverVars => ServerSyncInv'
  <2> SUFFICES ASSUME ServerSyncInv, [Next]_serverVars PROVE ServerSyncInv'
    OBVIOUS
  <2>1. CASE group = "sync" /\ SyncNext /\ UNCHANGED group
    <3>1. UNCHANGED <<source, first>>
      BY <2>1 DEF SyncNext, SyncStart, Count, Merge, Replace, Status, CompileTrigger, SyncFails,
                  syncVars, texts
    <3>2. HasLocals' = HasLocals
      BY <3>1 DEF HasLocals
    <3> QED BY <2>1, <3>2, SyncStep DEF ServerSyncInv
  <2>2. CASE group # "sync" /\ UNCHANGED <<group, syncVars>>
    BY <2>2 DEF ServerSyncInv, syncVars, syncLocals
  <2>3. CASE UNCHANGED serverVars
    <3>1. UNCHANGED <<group, pc, req, met, text, answer, source, target, first>>
      BY <2>3 DEF serverVars, syncVars, syncLocals, texts, calls, history
    <3>2. HasLocals' = HasLocals
      BY <3>1 DEF HasLocals
    <3>3. SyncInv => SyncInv'
      BY <3>1 DEF SyncInv, SyncType, TextsShaped, SyncMeets, Open, TargetWhole, AnswerAt, WritesAt, CopiedAt,
                  Copied, KeepsAt, FromEither, FromSource
    <3> QED BY <3>1, <3>2, <3>3 DEF ServerSyncInv
  <2> QED BY <2>1, <2>2, <2>3 DEF Next
<1>3. ServerSyncInv => SyncedStays
  <2> SUFFICES ASSUME ServerSyncInv, NEW c \in Calls, answer[c] = "synced", met[c] = {}, ~HasLocals,
                      NEW part \in Parts, NEW p \in Procs
               PROVE  \/ LinesOf(target[part], p) = LinesOf(source[part], p)
                      \/ p # req[c].proc /\ LinesOf(target[part], p) = LinesOf(first[part], p)
    BY DEF SyncedStays
  <2>1. SyncInv
    BY DEF ServerSyncInv
  <2>2. Copied(c) = Parts
    BY DEF Copied
  <2>3. FromSource(part, target[part], req[c].proc)
    BY <2>1, <2>2 DEF SyncInv, CopiedAt
  <2>4. FromEither(part, target[part], p)
    BY <2>1 DEF SyncInv, TargetWhole
  <2> QED BY <2>3, <2>4 DEF FromEither, FromSource
<1> QED BY <1>1, <1>2, <1>3, PTL DEF Spec

-----------------------------------------------------------------------------
(* What the messages of the daily check carry (DailyRoutine). *)

\* The members of sequences that are put together.
LEMMA ToSetFacts ==
  ASSUME NEW L, NEW a \in Seq(L), NEW b \in Seq(L), NEW x \in L
  PROVE  /\ ToSet(a \o b) = ToSet(a) \cup ToSet(b)
         /\ ToSet(Append(a, x)) = ToSet(a) \cup {x}
         /\ ToSet(a) \subseteq L
<1>1. DOMAIN a = 1..Len(a) /\ DOMAIN b = 1..Len(b) /\ Len(a) \in Nat /\ Len(b) \in Nat
  OBVIOUS
<1>2. /\ a \o b \in Seq(L) /\ DOMAIN (a \o b) = 1..Len(a) + Len(b)
      /\ \A i \in 1..Len(a) + Len(b) : (a \o b)[i] = IF i <= Len(a) THEN a[i] ELSE b[i - Len(a)]
  OBVIOUS
<1>3. ToSet(a \o b) \subseteq ToSet(a) \cup ToSet(b)
  <2> SUFFICES ASSUME NEW i \in 1..Len(a) + Len(b) PROVE (a \o b)[i] \in ToSet(a) \cup ToSet(b)
    BY <1>2 DEF ToSet
  <2>1. CASE i <= Len(a)
    BY <1>1, <1>2, <2>1 DEF ToSet
  <2>2. CASE ~(i <= Len(a))
    <3>1. i - Len(a) \in DOMAIN b /\ (a \o b)[i] = b[i - Len(a)]
      BY <1>1, <1>2, <2>2
    <3> QED BY <3>1 DEF ToSet
  <2> QED BY <2>1, <2>2
<1>4. ToSet(a) \subseteq ToSet(a \o b)
  <2> SUFFICES ASSUME NEW i \in 1..Len(a) PROVE a[i] \in ToSet(a \o b)
    BY <1>1 DEF ToSet
  <2>1. i \in DOMAIN (a \o b) /\ (a \o b)[i] = a[i]
    BY <1>1, <1>2
  <2> QED BY <2>1 DEF ToSet
<1>5. ToSet(b) \subseteq ToSet(a \o b)
  <2> SUFFICES ASSUME NEW i \in 1..Len(b) PROVE b[i] \in ToSet(a \o b)
    BY <1>1 DEF ToSet
  <2>1. Len(a) + i \in DOMAIN (a \o b) /\ (a \o b)[Len(a) + i] = b[i]
    BY <1>1, <1>2
  <2> QED BY <2>1 DEF ToSet
<1>6. ToSet(Append(a, x)) = ToSet(a) \cup {x}
  <2>1. DOMAIN Append(a, x) = 1..Len(a) + 1 /\ Append(a, x)[Len(a) + 1] = x
        /\ \A i \in 1..Len(a) : Append(a, x)[i] = a[i]
    BY <1>1
  <2>2. \A i \in 1..Len(a) + 1 : i \in 1..Len(a) \/ i = Len(a) + 1
    BY <1>1
  <2>3. \A i \in 1..Len(a) : i \in 1..Len(a) + 1
    BY <1>1
  <2>4. Len(a) + 1 \in 1..Len(a) + 1
    BY <1>1
  <2> QED BY <1>1, <2>1, <2>2, <2>3, <2>4 DEF ToSet
<1>7. ToSet(a) \subseteq L
  BY <1>1 DEF ToSet
<1> QED BY <1>3, <1>4, <1>5, <1>6, <1>7

\* The union of some sets and one more.
LEMMA UnionAdd == ASSUME NEW A, NEW x PROVE UNION (A \cup {x}) = (UNION A) \cup x
<1>1. \A y : y \in UNION (A \cup {x}) <=> \E z \in A \cup {x} : y \in z
  OBVIOUS
<1>2. \A y : y \in UNION A <=> \E z \in A : y \in z
  OBVIOUS
<1>3. \A y : y \in UNION (A \cup {x}) <=> y \in (UNION A) \cup x
  BY <1>1, <1>2
<1> QED BY <1>3

\* A flattened sequence holds what its parts hold.
LEMMA FlattenHolds ==
  ASSUME NEW L, NEW s \in Seq(Seq(L)), NEW k \in 1..Len(s)
  PROVE  FlattenSeq(s) \in Seq(L) /\ ToSet(s[k]) \subseteq ToSet(FlattenSeq(s))
<1>1. Len(s) \in Nat \ {0} /\ \A i \in 1..Len(s) : s[i] \in Seq(L)
  OBVIOUS
<1>2. PICK f \in [1..Len(s) -> Seq(L)] :
         /\ f[1] = s[1] /\ \A i \in 2..Len(s) : f[i] = f[i - 1] \o s[i]
         /\ FlattenSeq(s) = f[Len(s)]
  BY <1>1, FlattenFold
<1> DEFINE T == {n \in Nat : n \in k..Len(s) => ToSet(s[k]) \subseteq ToSet(f[n])}
<1>3. 0 \in T
  OBVIOUS
<1>4. ASSUME NEW n \in T PROVE n + 1 \in T
  <2> SUFFICES ASSUME n + 1 \in k..Len(s) PROVE ToSet(s[k]) \subseteq ToSet(f[n + 1])
    OBVIOUS
  <2>1. CASE n = 0
    <3>1. k = 1
      BY <2>1
    <3> QED BY <1>2, <2>1, <3>1
  <2>2. CASE n # 0
    <3>1. n + 1 \in 2..Len(s) /\ n \in 1..Len(s) /\ (n + 1) - 1 = n /\ n + 1 \in 1..Len(s)
      BY <1>1, <2>2
    <3>2. f[n + 1] = f[(n + 1) - 1] \o s[n + 1]
      BY <1>2, <3>1
    <3>3. f[n] \in Seq(L) /\ s[n + 1] \in Seq(L)
      BY <1>1, <3>1
    <3>4. f[n + 1] = f[n] \o s[n + 1]
      BY <3>1, <3>2
    <3>5. ToSet(f[n + 1]) = ToSet(f[n]) \cup ToSet(s[n + 1])
      <4>1. \A a \in Seq(L), b \in Seq(L) : ToSet(a \o b) = ToSet(a) \cup ToSet(b)
        <5> SUFFICES ASSUME NEW a \in Seq(L), NEW b \in Seq(L) PROVE ToSet(a \o b) = ToSet(a) \cup ToSet(b)
          OBVIOUS
        <5>1. CASE L = {}
          <6>1. a = <<>> /\ b = <<>> /\ a \o b = <<>>
            BY <5>1
          <6> QED BY <6>1
        <5>2. CASE L # {}
          BY <5>2, ToSetFacts
        <5> QED BY <5>1, <5>2
      <4> QED BY <3>3, <3>4, <4>1
    <3>6. CASE n + 1 = k
      BY <3>5, <3>6
    <3>7. CASE n + 1 # k
      <4>1. n \in k..Len(s)
        BY <1>1, <3>7
      <4> QED BY <3>5, <4>1
    <3> QED BY <3>6, <3>7
  <2> QED BY <2>1, <2>2
<1>5. T = Nat
  <2> HIDE DEF T
  <2>1. T \in SUBSET Nat
    BY DEF T
  <2> QED BY <1>3, <1>4, <2>1, AllNaturals
<1>6. Len(s) \in T /\ Len(s) \in k..Len(s)
  <2> HIDE DEF T
  <2> QED BY <1>1, <1>5
<1>7. f[Len(s)] \in Seq(L)
  <2>1. Len(s) \in 1..Len(s)
    BY <1>1
  <2> QED BY <2>1
<1> QED BY <1>2, <1>6, <1>7

ProblemType == [target : {"es", "other"}, kind : Kinds]
LineType == [size : Nat, problems : SUBSET ProblemType]
PackType == [done : Seq(SUBSET ProblemType), current : SUBSET ProblemType, used : Nat]
\* The problems in the messages that are done and in the one that is being filled.
Carried(acc) == (UNION ToSet(acc.done)) \cup acc.current

\* A line that is packed is carried, and so is what was before it.
LEMMA PackCarries ==
  ASSUME NEW acc \in PackType, NEW line \in LineType
  PROVE  Pack(acc, line) \in PackType /\ Carried(Pack(acc, line)) = Carried(acc) \cup line.problems
<1>1. acc.done \in Seq(SUBSET ProblemType) /\ acc.current \in SUBSET ProblemType /\ acc.used \in Nat
      /\ line.size \in Nat /\ line.problems \in SUBSET ProblemType
  BY DEF PackType, LineType
<1>2. CASE acc.used > 0 /\ acc.used + line.size > Capacity
  <2>1. Pack(acc, line) = [done |-> Append(acc.done, acc.current), current |-> line.problems, used |-> line.size]
    BY <1>2 DEF Pack
  <2>2. Append(acc.done, acc.current) \in Seq(SUBSET ProblemType)
    BY <1>1
  <2>3. ToSet(Append(acc.done, acc.current)) = ToSet(acc.done) \cup {acc.current}
    BY <1>1, ToSetFacts
  <2>4. Pack(acc, line) \in PackType
    BY <1>1, <2>1, <2>2 DEF PackType
  <2>5. Carried(Pack(acc, line)) = (UNION (ToSet(acc.done) \cup {acc.current})) \cup line.problems
    BY <2>1, <2>3 DEF Carried
  <2>6. (UNION (ToSet(acc.done) \cup {acc.current})) = (UNION ToSet(acc.done)) \cup acc.current
    BY UnionAdd
  <2>7. Carried(acc) = (UNION ToSet(acc.done)) \cup acc.current
    BY DEF Carried
  <2> QED BY <2>4, <2>5, <2>6, <2>7
<1>3. CASE ~(acc.used > 0 /\ acc.used + line.size > Capacity)
  <2>1. Pack(acc, line) = [acc EXCEPT !.current = @ \cup line.problems, !.used = @ + line.size]
    BY <1>3 DEF Pack
  <2>2. Pack(acc, line) = [done |-> acc.done, current |-> acc.current \cup line.problems, used |-> acc.used + line.size]
    BY <2>1 DEF PackType
  <2>3. Pack(acc, line) \in PackType
    BY <1>1, <2>2 DEF PackType
  <2>4. Carried(Pack(acc, line)) = (UNION ToSet(acc.done)) \cup (acc.current \cup line.problems)
    BY <2>2 DEF Carried
  <2>5. Carried(acc) = (UNION ToSet(acc.done)) \cup acc.current
    BY DEF Carried
  <2>6. (UNION ToSet(acc.done)) \cup (acc.current \cup line.problems)
          = ((UNION ToSet(acc.done)) \cup acc.current) \cup line.problems
    OBVIOUS
  <2> QED BY <2>3, <2>4, <2>5, <2>6
<1> QED BY <1>2, <1>3

\* What Chunks chooses.
Packs(lines, f) ==
  f = [n \in 0..Len(lines) |->
         IF n = 0 THEN [done |-> <<>>, current |-> {}, used |-> 0] ELSE Pack(f[n - 1], lines[n])]
Ending(f, n) == Append(f[n].done, f[n].current)

\* Chunks by the function its definition chooses.
LEMMA ChunksDef == ASSUME NEW lines PROVE Chunks(lines) = Ending(CHOOSE f : Packs(lines, f), Len(lines))
BY DEF Chunks, Packs, Ending

\* The messages carry every line, however many they are.
LEMMA ChunksCarry ==
  ASSUME NEW lines \in Seq(LineType)
  PROVE  /\ Chunks(lines) \in Seq(SUBSET ProblemType) /\ Chunks(lines) # <<>>
         /\ \A n \in 1..Len(lines) : lines[n].problems \subseteq UNION ToSet(Chunks(lines))
<1> DEFINE none == [done |-> <<>>, current |-> {}, used |-> 0]
<1>1. Len(lines) \in Nat /\ \A n \in 1..Len(lines) : lines[n] \in LineType
  OBVIOUS
<1>2. none \in PackType
  BY DEF PackType
<1> DEFINE F == [x \in (1..Len(lines)) \X PackType |-> Pack(x[2], lines[x[1]])]
<1>3. \A n \in 1..Len(lines), v \in PackType : F[<<n, v>>] = Pack(v, lines[n]) /\ F[<<n, v>>] \in PackType
  <2> TAKE n \in 1..Len(lines), v \in PackType
  <2>1. <<n, v>> \in (1..Len(lines)) \X PackType
    OBVIOUS
  <2>2. F[<<n, v>>] = Pack(v, lines[n])
    BY <2>1
  <2>3. Pack(v, lines[n]) \in PackType
    BY <1>1, PackCarries
  <2> QED BY <2>2, <2>3
<1> HIDE DEF none, F
<1>4. PICK g \in [0..Len(lines) -> PackType] : Recurs(Len(lines), none, F, g)
  BY <1>1, <1>2, <1>3, RecursionExists
<1>5. Packs(lines, g)
  <2>1. \A n \in 0..Len(lines) : g[n] = IF n = 0 THEN none ELSE Pack(g[n - 1], lines[n])
    <3> TAKE n \in 0..Len(lines)
    <3>1. CASE n = 0
      BY <1>4, <3>1 DEF Recurs
    <3>2. CASE n # 0
      <4>1. n \in 1..Len(lines) /\ n - 1 \in 0..Len(lines)
        BY <1>1, <3>2
      <4>2. g[n - 1] \in PackType /\ g[n] = F[<<n, g[n - 1]>>]
        BY <1>4, <4>1 DEF Recurs
      <4> QED BY <1>3, <3>2, <4>1, <4>2
    <3> QED BY <3>1, <3>2
  <2>2. g = [n \in 0..Len(lines) |-> g[n]]
    OBVIOUS
  <2> QED BY <2>1, <2>2 DEF Packs, none
<1>6. PICK f : Packs(lines, f) /\ Chunks(lines) = Ending(f, Len(lines))
  BY <1>5, ChunksDef
<1>7. \A n \in 0..Len(lines) : f[n] = IF n = 0 THEN none ELSE Pack(f[n - 1], lines[n])
  BY <1>6 DEF Packs, none
<1> DEFINE T == {k \in Nat : k <= Len(lines) =>
                    f[k] \in PackType /\ \A n \in 1..k : lines[n].problems \subseteq Carried(f[k])}
<1>8. 0 \in T
  BY <1>1, <1>2, <1>7
<1>9. ASSUME NEW k \in T PROVE k + 1 \in T
  <2> SUFFICES ASSUME k + 1 <= Len(lines)
               PROVE  f[k + 1] \in PackType /\ \A n \in 1..k + 1 : lines[n].problems \subseteq Carried(f[k + 1])
    OBVIOUS
  <2>1. /\ f[k] \in PackType /\ \A n \in 1..k : lines[n].problems \subseteq Carried(f[k])
        /\ k + 1 \in 1..Len(lines) /\ k + 1 \in 0..Len(lines) /\ k + 1 # 0 /\ (k + 1) - 1 = k
    BY <1>1
  <2>2. f[k + 1] = Pack(f[k], lines[k + 1])
    BY <1>7, <2>1
  <2>3. f[k + 1] \in PackType /\ Carried(f[k + 1]) = Carried(f[k]) \cup lines[k + 1].problems
    <3>1. lines[k + 1] \in LineType
      BY <1>1, <2>1
    <3> QED BY <2>1, <2>2, <3>1, PackCarries
  <2>4. ASSUME NEW n \in 1..k + 1 PROVE lines[n].problems \subseteq Carried(f[k + 1])
    <3>1. n \in 1..k \/ n = k + 1
      OBVIOUS
    <3> QED BY <2>1, <2>3, <3>1
  <2> QED BY <2>3, <2>4
<1>10. T = Nat
  <2> HIDE DEF T
  <2>1. T \in SUBSET Nat
    BY DEF T
  <2> QED BY <1>8, <1>9, <2>1, AllNaturals
<1>11. Len(lines) \in T
  <2> HIDE DEF T
  <2> QED BY <1>1, <1>10
<1> DEFINE e == f[Len(lines)]
<1>12. e \in PackType /\ \A n \in 1..Len(lines) : lines[n].problems \subseteq Carried(e)
  BY <1>1, <1>11
<1>13. Chunks(lines) = Append(e.done, e.current)
  BY <1>6 DEF Ending
<1> HIDE DEF e
<1>14. e.done \in Seq(SUBSET ProblemType) /\ e.current \in SUBSET ProblemType
  BY <1>12 DEF PackType
<1>15. ToSet(Append(e.done, e.current)) = ToSet(e.done) \cup {e.current}
  BY <1>14, ToSetFacts
<1>16. UNION ToSet(Chunks(lines)) = Carried(e)
  <2>1. (UNION (ToSet(e.done) \cup {e.current})) = (UNION ToSet(e.done)) \cup e.current
    BY UnionAdd
  <2> QED BY <1>13, <1>15, <2>1 DEF Carried
<1>17. Append(e.done, e.current) \in Seq(SUBSET ProblemType) /\ Append(e.done, e.current) # <<>>
  BY <1>14, AppendProperties
<1> QED BY <1>12, <1>13, <1>16, <1>17

\* The problems of a target's result, and the lines that name them.
LEMMA ProblemsOf ==
  ASSUME NEW i \in ItemType
  PROVE  /\ DOMAIN i.problems = 1..Len(i.problems) /\ Len(i.problems) \in Nat
         /\ \A n \in 1..Len(i.problems) :
              /\ Of(i)[n] \in ProblemType /\ Of(i)[n].target = i.target /\ Of(i)[n].kind = i.problems[n]
              /\ i.problems[n] \in Kinds
         /\ ToSet(Of(i)) = {Of(i)[n] : n \in 1..Len(i.problems)}
<1>1. i.problems \in Seq(Kinds) /\ i.target \in {"es", "other"}
  BY DEF ItemType
<1>2. DOMAIN i.problems = 1..Len(i.problems) /\ Len(i.problems) \in Nat
      /\ \A n \in 1..Len(i.problems) : i.problems[n] \in Kinds
  BY <1>1
<1>3. \A n \in 1..Len(i.problems) : Of(i)[n] = [target |-> i.target, kind |-> i.problems[n]]
  BY <1>2 DEF Of, Problem
<1>4. DOMAIN Of(i) = 1..Len(i.problems)
  BY <1>2 DEF Of
<1>5. ASSUME NEW n \in 1..Len(i.problems)
      PROVE  /\ Of(i)[n] \in ProblemType /\ Of(i)[n].target = i.target /\ Of(i)[n].kind = i.problems[n]
             /\ i.problems[n] \in Kinds
  <2>1. i.problems[n] \in Kinds /\ Of(i)[n] = [target |-> i.target, kind |-> i.problems[n]]
    BY <1>2, <1>3
  <2>2. [target |-> i.target, kind |-> i.problems[n]] \in ProblemType
    BY <1>1, <2>1 DEF ProblemType
  <2> QED BY <2>1, <2>2
<1>6. ToSet(Of(i)) = {Of(i)[n] : n \in 1..Len(i.problems)}
  BY <1>4 DEF ToSet
<1> QED BY <1>2, <1>5, <1>6

\* The detailed lines of a target name every problem of it.
LEMMA DetailedCarries ==
  ASSUME NEW i \in ItemType
  PROVE  /\ Detailed(i) \in Seq(LineType)
         /\ \A n \in 1..Len(i.problems) : \E l \in ToSet(Detailed(i)) : Of(i)[n] \in l.problems
<1>1. /\ DOMAIN i.problems = 1..Len(i.problems) /\ Len(i.problems) \in Nat
      /\ \A n \in 1..Len(i.problems) : Of(i)[n] \in ProblemType
  BY ProblemsOf
<1>2. CASE i.problems = <<>>
  <2>1. Detailed(i) = <<>> /\ Len(i.problems) = 0
    BY <1>2 DEF Detailed
  <2> QED BY <2>1
<1>3. CASE i.problems # <<>>
  <2> DEFINE top == <<TextLine(1, {})>>
             rows == [n \in DOMAIN i.problems |-> TextLine(Detail, {Of(i)[n]})]
  <2>1. Detailed(i) = top \o rows
    BY <1>3 DEF Detailed
  <2>2. top \in Seq(LineType)
    <3>1. TextLine(1, {}) \in LineType
      BY DEF TextLine, LineType
    <3> QED BY <3>1
  <2>3. rows \in Seq(LineType) /\ DOMAIN rows = 1..Len(i.problems)
        /\ \A n \in 1..Len(i.problems) : rows[n] = TextLine(Detail, {Of(i)[n]})
    <3>1. \A n \in 1..Len(i.problems) : TextLine(Detail, {Of(i)[n]}) \in LineType
      BY <1>1, DailyAssumption DEF TextLine, LineType
    <3>2. rows \in [1..Len(i.problems) -> LineType]
      BY <1>1, <3>1
    <3> QED BY <1>1, <3>2
  <2> HIDE DEF top, rows
  <2>4. LineType # {}
    <3>1. TextLine(1, {}) \in LineType
      BY DEF TextLine, LineType
    <3> QED BY <3>1
  <2>5. ToSet(top \o rows) = ToSet(top) \cup ToSet(rows)
    BY <2>2, <2>3, <2>4, ToSetFacts
  <2>6. ASSUME NEW n \in 1..Len(i.problems) PROVE \E l \in ToSet(Detailed(i)) : Of(i)[n] \in l.problems
    <3>1. rows[n] \in ToSet(rows) /\ rows[n] = TextLine(Detail, {Of(i)[n]})
      BY <2>3 DEF ToSet
    <3>2. rows[n].problems = {Of(i)[n]}
      BY <3>1 DEF TextLine
    <3> QED BY <2>1, <2>5, <3>1, <3>2
  <2>7. top \o rows \in Seq(LineType)
    BY <2>2, <2>3
  <2> QED BY <2>1, <2>6, <2>7
<1> QED BY <1>2, <1>3

\* The compact line of a target names the problems that are kept.
LEMMA CompactedCarries ==
  ASSUME NEW i \in ItemType
  PROVE  /\ Compacted(i) \in Seq(LineType) /\ Kept(i) \subseteq 1..Len(i.problems)
         /\ \A n \in Kept(i) : \E l \in ToSet(Compacted(i)) : Of(i)[n] \in l.problems
<1>1. /\ DOMAIN i.problems = 1..Len(i.problems) /\ Len(i.problems) \in Nat
      /\ \A n \in 1..Len(i.problems) : Of(i)[n] \in ProblemType
  BY ProblemsOf
<1>2. Kept(i) \subseteq 1..Len(i.problems)
  BY <1>1 DEF Kept
<1>3. CASE i.problems = <<>>
  <2>1. Compacted(i) = <<>> /\ Len(i.problems) = 0
    BY <1>3 DEF Compacted
  <2> QED BY <1>2, <2>1
<1>4. CASE i.problems # <<>>
  <2> DEFINE all == {Of(i)[n] : n \in Kept(i)}
             row == TextLine(1 + Cardinality(Kept(i)), all)
  <2>1. Compacted(i) = <<row>>
    BY <1>4 DEF Compacted
  <2>2. Cardinality(Kept(i)) \in Nat
    <3>1. IsFiniteSet(1..Len(i.problems))
      BY <1>1, FS_Interval
    <3> QED BY <1>2, <3>1, FS_Subset, FS_CardinalityType
  <2>3. all \in SUBSET ProblemType
    BY <1>1, <1>2
  <2>4. row \in LineType /\ row.problems = all
    BY <2>2, <2>3 DEF TextLine, LineType
  <2> HIDE DEF row
  <2>5. <<row>> \in Seq(LineType) /\ ToSet(<<row>>) = {row}
    BY <2>4 DEF ToSet
  <2> QED BY <1>2, <2>1, <2>4, <2>5
<1> QED BY <1>3, <1>4

\* Lines after the summary, target by target, are all carried.
LEMMA LinesCarried ==
  ASSUME NEW N \in Nat, NEW rows \in [1..N -> Seq(LineType)]
  PROVE  LET lines == Summary \o FlattenSeq(rows) IN
         /\ lines \in Seq(LineType)
         /\ \A k \in 1..N : \A l \in ToSet(rows[k]) : l.problems \subseteq UNION ToSet(Chunks(lines))
<1> DEFINE lines == Summary \o FlattenSeq(rows)
<1>1. rows \in Seq(Seq(LineType)) /\ Len(rows) = N
  OBVIOUS
<1>2. Summary \in Seq(LineType)
  <2>1. TextLine(1, {}) \in LineType
    BY DEF TextLine, LineType
  <2> QED BY <2>1 DEF Summary
<1>3. LineType # {}
  <2>1. TextLine(1, {}) \in LineType
    BY DEF TextLine, LineType
  <2> QED BY <2>1
<1>4. FlattenSeq(rows) \in Seq(LineType)
  <2>1. CASE N = 0
    <3>1. FlattenSeq(rows) = rows /\ rows = <<>>
      BY <1>1, <2>1 DEF FlattenSeq
    <3> QED BY <3>1
  <2>2. CASE N # 0
    <3>1. 1 \in 1..Len(rows)
      BY <1>1, <2>2
    <3> QED BY <1>1, <3>1, FlattenHolds
  <2> QED BY <2>1, <2>2
<1>5. lines \in Seq(LineType)
  BY <1>2, <1>4
<1>6. ASSUME NEW k \in 1..N, NEW l \in ToSet(rows[k]) PROVE l.problems \subseteq UNION ToSet(Chunks(lines))
  <2>1. ToSet(rows[k]) \subseteq ToSet(FlattenSeq(rows))
    BY <1>1, FlattenHolds
  <2>2. ToSet(lines) = ToSet(Summary) \cup ToSet(FlattenSeq(rows))
    BY <1>2, <1>3, <1>4, ToSetFacts
  <2>3. l \in ToSet(lines)
    BY <2>1, <2>2
  <2> HIDE DEF lines
  <2>4. PICK n \in 1..Len(lines) : l = lines[n]
    BY <1>5, <2>3 DEF ToSet
  <2> QED BY <1>5, <2>4, ChunksCarry
<1> QED BY <1>5, <1>6

\* The messages carry all that the compact form keeps, in whichever form they are.
LEMMA MessagesCarry ==
  ASSUME NEW its \in Seq(ItemType)
  PROVE  /\ Messages(its) \in Seq(SUBSET ProblemType) /\ Messages(its) # <<>>
         /\ \A k \in 1..Len(its) : \A n \in Kept(its[k]) : Of(its[k])[n] \in UNION ToSet(Messages(its))
<1>1. Len(its) \in Nat /\ DOMAIN its = 1..Len(its) /\ \A k \in 1..Len(its) : its[k] \in ItemType
  OBVIOUS
<1> DEFINE full == [k \in DOMAIN its |-> Detailed(its[k])]
           short == [k \in DOMAIN its |-> Compacted(its[k])]
<1>2. full \in [1..Len(its) -> Seq(LineType)] /\ short \in [1..Len(its) -> Seq(LineType)]
  BY <1>1, DetailedCarries, CompactedCarries
<1>3. DetailedLines(its) = Summary \o FlattenSeq(full) /\ CompactLines(its) = Summary \o FlattenSeq(short)
  BY DEF DetailedLines, CompactLines
<1>4. \A k \in 1..Len(its) : full[k] = Detailed(its[k]) /\ short[k] = Compacted(its[k])
  BY <1>1
<1> HIDE DEF full, short
<1>5. /\ DetailedLines(its) \in Seq(LineType)
      /\ \A k \in 1..Len(its) : \A l \in ToSet(full[k]) : l.problems \subseteq UNION ToSet(Chunks(DetailedLines(its)))
  BY <1>1, <1>2, <1>3, LinesCarried
<1>6. /\ CompactLines(its) \in Seq(LineType)
      /\ \A k \in 1..Len(its) : \A l \in ToSet(short[k]) : l.problems \subseteq UNION ToSet(Chunks(CompactLines(its)))
  BY <1>1, <1>2, <1>3, LinesCarried
<1>7. ASSUME NEW k \in 1..Len(its), NEW n \in Kept(its[k])
      PROVE  /\ Of(its[k])[n] \in UNION ToSet(Chunks(DetailedLines(its)))
             /\ Of(its[k])[n] \in UNION ToSet(Chunks(CompactLines(its)))
  <2>1. n \in 1..Len(its[k].problems)
    BY <1>1, CompactedCarries
  <2>2. PICK l \in ToSet(full[k]) : Of(its[k])[n] \in l.problems
    BY <1>1, <1>4, <2>1, DetailedCarries
  <2>3. PICK m \in ToSet(short[k]) : Of(its[k])[n] \in m.problems
    BY <1>1, <1>4, CompactedCarries
  <2>4. Of(its[k])[n] \in UNION ToSet(Chunks(DetailedLines(its)))
    BY <1>5, <2>2
  <2>5. Of(its[k])[n] \in UNION ToSet(Chunks(CompactLines(its)))
    BY <1>6, <2>3
  <2> QED BY <2>4, <2>5
<1>8. /\ Chunks(DetailedLines(its)) \in Seq(SUBSET ProblemType) /\ Chunks(DetailedLines(its)) # <<>>
      /\ Chunks(CompactLines(its)) \in Seq(SUBSET ProblemType) /\ Chunks(CompactLines(its)) # <<>>
  BY <1>5, <1>6, ChunksCarry
<1>9. Messages(its) = Chunks(DetailedLines(its)) \/ Messages(its) = Chunks(CompactLines(its))
  BY DEF Messages
<1>10. CASE Messages(its) = Chunks(DetailedLines(its))
  BY <1>7, <1>8, <1>10
<1>11. CASE Messages(its) = Chunks(CompactLines(its))
  BY <1>7, <1>8, <1>11
<1> QED BY <1>9, <1>10, <1>11

\* Four kinds of refresh alerts: as a set of problems of one target, no more than four.
LEMMA RefreshFinite ==
  ASSUME NEW S \in SUBSET ProblemType, NEW t
  PROVE  LET r == {p \in S : IsRefresh(p) /\ p.target = t} IN
         IsFiniteSet(r) /\ Cardinality(r) \in Nat /\ (r # {} => Cardinality(r) >= 1)
<1> DEFINE r == {p \in S : IsRefresh(p) /\ p.target = t}
           P(k) == [target |-> t, kind |-> k]
           all == (({P("stuck")} \cup {P("breach")}) \cup {P("error")}) \cup {P("notRun")}
<1>1. r \subseteq all
  <2> SUFFICES ASSUME NEW p \in r PROVE p \in all
    OBVIOUS
  <2>1. p \in ProblemType /\ p.target = t /\ p.kind \in {"stuck", "breach", "error", "notRun"}
    BY DEF IsRefresh
  <2>2. p = [target |-> p.target, kind |-> p.kind]
    BY <2>1 DEF ProblemType
  <2> QED BY <2>1, <2>2
<1>2. IsFiniteSet(all)
  <2> HIDE DEF P
  <2>1. \A k : IsFiniteSet({P(k)})
    BY FS_Singleton
  <2> QED BY <2>1, FS_Union
<1> HIDE DEF r, all
<1>3. IsFiniteSet(r)
  BY <1>1, <1>2, FS_Subset
<1>4. Cardinality(r) \in Nat /\ (Cardinality(r) = 0 <=> r = {})
  BY <1>3, FS_CardinalityType, FS_EmptySet
<1> QED BY <1>3, <1>4 DEF r

\* A target's refresh alerts never hold an error beside the alert that nothing ran.
Single(s) == ~("error" \in ToSet(s) /\ "notRun" \in ToSet(s))

\* Messages whose lines could be formatted report every target in full, but for what the compact
\* form may cut.
LEMMA MessagesWhole ==
  ASSUME NEW its \in Seq(ItemType), Formats(its), NEW k \in 1..Len(its), Single(its[k].problems)
  PROVE  LET sent == UNION ToSet(Messages(its)) IN
         /\ \A p \in ToSet(Of(its[k])) : p \in sent \/ IsRefresh(p)
         /\ Cardinality({p \in sent : IsRefresh(p) /\ p.target = its[k].target})
              >= Min({CompactRefresh, Cardinality({p \in ToSet(Of(its[k])) : IsRefresh(p)})})
<1> DEFINE i == its[k]
           sent == UNION ToSet(Messages(its))
           told == {p \in sent : IsRefresh(p) /\ p.target = i.target}
           refresh == {p \in ToSet(Of(i)) : IsRefresh(p)}
           at == {n \in 1..Len(i.problems) : IsRefresh(Of(i)[n])}
<1>1. i \in ItemType /\ DOMAIN its = 1..Len(its)
  OBVIOUS
<1> HIDE DEF i
<1>2. /\ DOMAIN i.problems = 1..Len(i.problems) /\ Len(i.problems) \in Nat
      /\ \A n \in 1..Len(i.problems) :
           /\ Of(i)[n] \in ProblemType /\ Of(i)[n].target = i.target /\ Of(i)[n].kind = i.problems[n]
           /\ i.problems[n] \in Kinds
      /\ ToSet(Of(i)) = {Of(i)[n] : n \in 1..Len(i.problems)}
  BY <1>1, ProblemsOf
<1>3. \A n \in Kept(i) : Of(i)[n] \in sent
  BY MessagesCarry DEF i
<1>4. \A p \in ToSet(Of(i)) : p \in sent \/ IsRefresh(p)
  <2> SUFFICES ASSUME NEW n \in 1..Len(i.problems), ~IsRefresh(Of(i)[n]) PROVE Of(i)[n] \in sent
    BY <1>2
  <2>1. n \in Kept(i)
    BY <1>2 DEF Kept
  <2> QED BY <1>3, <2>1
<1>5. sent \in SUBSET ProblemType
  <2>1. Messages(its) \in Seq(SUBSET ProblemType)
    BY MessagesCarry
  <2>2. ToSet(Messages(its)) \subseteq SUBSET ProblemType
    BY <2>1 DEF ToSet
  <2> QED BY <2>2
<1> HIDE DEF sent
<1>6. Cardinality(told) \in Nat /\ (told # {} => Cardinality(told) >= 1)
  BY <1>5, RefreshFinite
<1>7. CASE at = {}
  <2>1. refresh = {}
    BY <1>2, <1>7
  <2>2. Cardinality(refresh) = 0
    BY <2>1, FS_EmptySet
  <2>3. Min({CompactRefresh, Cardinality(refresh)}) <= 0
    <3>1. {CompactRefresh, Cardinality(refresh)} \in SUBSET Nat
      BY <2>2 DEF CompactRefresh
    <3> QED BY <2>2, <3>1, MinOfNaturals
  <2>4. Min({CompactRefresh, Cardinality(refresh)}) \in Nat
    <3>1. {CompactRefresh, Cardinality(refresh)} \in SUBSET Nat /\ {CompactRefresh, Cardinality(refresh)} # {}
      BY <2>2 DEF CompactRefresh
    <3> QED BY <3>1, MinOfNaturals
  <2>5. Cardinality(told) >= Min({CompactRefresh, Cardinality(refresh)})
    BY <1>6, <2>3, <2>4
  <2> QED BY <1>4, <2>5 DEF i, sent
<1>8. CASE at # {}
  <2> DEFINE m == Min(at)
             q == Of(i)[m]
  <2>1. m \in at /\ \A n \in at : m <= n
    <3>1. at \in SUBSET Nat
      BY <1>2
    <3> HIDE DEF at
    <3> QED BY <1>8, <3>1, MinOfNaturals
  <2> HIDE DEF m
  <2>2. m \in Kept(i)
    <3>1. {j \in 1..m : IsRefresh(Of(i)[j])} = {m}
      <4>1. \A j \in 1..m : IsRefresh(Of(i)[j]) => j \in at
        BY <1>2, <2>1
      <4> QED BY <1>2, <2>1, <4>1
    <3>2. Cardinality({m}) = 1
      BY FS_Singleton
    <3>3. Cardinality({j \in 1..m : IsRefresh(Of(i)[j])}) <= CompactRefresh
      BY <3>1, <3>2 DEF CompactRefresh
    <3>4. m \in DOMAIN i.problems
      BY <1>2, <2>1
    <3> QED BY <3>3, <3>4 DEF Kept
  <2>3. q \in told
    BY <1>2, <1>3, <2>1, <2>2
  <2>4. ASSUME NEW n \in at PROVE i.problems[n] \in {"error", "notRun"}
    <3>1. i.problems[n] \in {"stuck", "breach", "error", "notRun"}
      BY <1>2 DEF IsRefresh
    <3>2. i.problems[n] \notin {"stuck", "breach"}
      BY <1>1, <1>2 DEF Formats, i
    <3> QED BY <3>1, <3>2
  <2>5. \A n \in at : i.problems[n] = i.problems[m]
    <3>1. \A n \in at : i.problems[n] \in ToSet(i.problems)
      BY <1>2 DEF ToSet
    <3>2. Single(i.problems)
      BY DEF i
    <3> HIDE DEF at
    <3> QED BY <2>1, <2>4, <3>1, <3>2 DEF Single
  <2>6. refresh = {q}
    <3>1. \A n \in at : Of(i)[n] = q
      <4>1. \A n \in 1..Len(i.problems) : Of(i)[n] = [target |-> i.target, kind |-> i.problems[n]]
        BY <1>2 DEF ProblemType
      <4> QED BY <2>1, <2>5, <4>1
    <3> QED BY <1>2, <2>1, <3>1
  <2>7. Cardinality(refresh) = 1
    BY <2>6, FS_Singleton
  <2>8. Min({CompactRefresh, Cardinality(refresh)}) <= 1
    <3>1. {CompactRefresh, Cardinality(refresh)} \in SUBSET Nat
      BY <2>7 DEF CompactRefresh
    <3> QED BY <2>7, <3>1, MinOfNaturals
  <2>9. Min({CompactRefresh, Cardinality(refresh)}) \in Nat
    <3>1. {CompactRefresh, Cardinality(refresh)} \in SUBSET Nat /\ {CompactRefresh, Cardinality(refresh)} # {}
      BY <2>7 DEF CompactRefresh
    <3> QED BY <3>1, MinOfNaturals
  <2>10. Cardinality(told) >= Min({CompactRefresh, Cardinality(refresh)})
    <3>1. told # {}
      BY <2>3
    <3> HIDE DEF told
    <3> QED BY <1>6, <2>8, <2>9, <3>1
  <2> QED BY <1>4, <2>10 DEF i, sent
<1> QED BY <1>7, <1>8

-----------------------------------------------------------------------------
(* The invariant of the daily check's delivery (DailyRoutine). *)

\* A call's messages, sent and to be sent, and its outcome keep their types.
DeliveryType ==
  /\ outbox \in [Calls -> Seq(SUBSET ProblemType)]
  /\ posted \in [Calls -> Seq(SUBSET ProblemType)]
  /\ outcome \in [Calls -> {"none", "delivered", "undelivered"}]

\* Before the check of the refresh nothing was found of it.
FoundAt(c) ==
  /\ Single(found[c])
  /\ pc[c] \in {"idle", "backup", "log", "refresh"} => "error" \notin ToSet(found[c]) /\ "notRun" \notin ToSet(found[c])
ResultsAt(c) == \A n \in 1..Len(items[c]) : Single(items[c][n].problems)

\* What is posted, with what is left to post, is the message.
PostedAt(c) ==
  /\ outcome[c] = "delivered" => pc[c] = "done" /\ posted[c] = Messages(items[c]) /\ Formats(items[c])
  /\ pc[c] \in CheckSteps \cup {"idle", "report", "openDm", "format"} => posted[c] = <<>>
  /\ pc[c] = "post" => outbox[c] # <<>> /\ posted[c] \o outbox[c] = Messages(items[c]) /\ Formats(items[c])

DeliveryInv == DeliveryType /\ \A c \in Calls : FoundAt(c) /\ ResultsAt(c) /\ PostedAt(c)

\* The alerts of the refresh: either that nothing ran, or what failed.
LEMMA RefreshAlertsAreSingle ==
  ASSUME NEW r \in [stuck : Nat, breach : Nat, errors : Nat, ran : BOOLEAN]
  PROVE  Single(RefreshAlerts(r))
<1> DEFINE R == {"stuck", "breach", "error"}
           stuck == [i \in 1..r.stuck |-> "stuck"]
           breach == [i \in 1..r.breach |-> "breach"]
           failing == [i \in 1..r.errors |-> "error"]
           all == stuck \o breach \o failing
           kept == Min({Len(all), MaxAlerts})
<1>1. r.stuck \in Nat /\ r.breach \in Nat /\ r.errors \in Nat
  OBVIOUS
<1>2. all \in Seq(R)
  <2>1. \A n \in Nat, s \in R : [i \in 1..n |-> s] \in Seq(R)
    BY SMT
  <2>2. stuck \in Seq(R)
    BY <1>1, <2>1
  <2>3. breach \in Seq(R)
    BY <1>1, <2>1
  <2>4. failing \in Seq(R)
    BY <1>1, <2>1
  <2>5. \A s, t \in Seq(R) : s \o t \in Seq(R)
    BY ConcatProperties
  <2> QED BY <2>2, <2>3, <2>4, <2>5
<1>3. RefreshAlerts(r) = IF all = <<>> /\ ~r.ran THEN <<"notRun">> ELSE SubSeq(all, 1, kept)
  BY DEF RefreshAlerts
<1> HIDE DEF all
<1>4. Len(all) \in Nat /\ all \in [1..Len(all) -> R]
  BY <1>2, LenProperties
<1>5. kept \in Nat /\ kept <= Len(all)
  <2>1. {Len(all), MaxAlerts} \subseteq Nat /\ {Len(all), MaxAlerts} # {}
    BY <1>4 DEF MaxAlerts
  <2> QED BY <2>1, <1>4, MinOfNaturals
<1> HIDE DEF kept
<1>6. SubSeq(all, 1, kept) \in Seq(R)
  <2>1. \A i \in 1..kept : all[i] \in R
    BY <1>4, <1>5
  <2> QED BY <1>5, <2>1, SubSeqProperties
<1>7. Single(SubSeq(all, 1, kept))
  <2>1. ToSet(SubSeq(all, 1, kept)) \subseteq R
    BY <1>6, LenProperties DEF ToSet
  <2> QED BY <2>1 DEF Single
<1>8. Single(<<"notRun">>)
  <2>1. ToSet(<<"notRun">>) = {"notRun"}
    BY DEF ToSet
  <2> QED BY <2>1 DEF Single
<1> QED BY <1>3, <1>7, <1>8

\* What one check adds to the alerts of a target.
LEMMA AlertsAreSingle ==
  ASSUME DailyType, NEW t \in {"es", "other"}, NEW check \in CheckSteps
  PROVE  /\ Single(AlertsOf(t, check))
         /\ check # "refresh" =>
              "error" \notin ToSet(AlertsOf(t, check)) /\ "notRun" \notin ToSet(AlertsOf(t, check))
<1>1. truth.refresh \in [stuck : Nat, breach : Nat, errors : Nat, ran : BOOLEAN]
  BY DailyAssumption DEF DailyType
<1>2. Single(RefreshAlerts(truth.refresh))
  BY <1>1, RefreshAlertsAreSingle
<1>3. ToSet(<<>>) = {} /\ ToSet(<<check>>) = {check}
  BY DEF ToSet
<1>4. check \notin {"error", "notRun"}
  BY DEF CheckSteps
<1> QED BY <1>2, <1>3, <1>4 DEF AlertsOf, Single

\* A step of one call leaves the delivery of the others as it was.
LEMMA OneCallDelivers ==
  ASSUME DeliveryInv, NEW c \in Calls, DeliveryType',
         \A d \in Calls \ {c} : /\ items'[d] = items[d] /\ found'[d] = found[d] /\ pc'[d] = pc[d]
                                /\ outbox'[d] = outbox[d] /\ posted'[d] = posted[d] /\ outcome'[d] = outcome[d],
         FoundAt(c)', ResultsAt(c)', PostedAt(c)'
  PROVE  DeliveryInv'
<1>1. ASSUME NEW d \in Calls \ {c} PROVE FoundAt(d)' /\ ResultsAt(d)' /\ PostedAt(d)'
  <2>1. FoundAt(d) /\ ResultsAt(d) /\ PostedAt(d)
    BY DEF DeliveryInv
  <2>2. Single(found[d])' = Single(found[d])
    OBVIOUS
  <2>3. FoundAt(d)'
    BY <2>1, <2>2 DEF FoundAt
  <2>4. ResultsAt(d)'
    BY <2>1 DEF ResultsAt
  <2>5. Messages(items[d])' = Messages(items[d]) /\ Formats(items[d])' = Formats(items[d])
    OBVIOUS
  <2>6. PostedAt(d)'
    BY <2>1, <2>5 DEF PostedAt
  <2> QED BY <2>3, <2>4, <2>6
<1> QED BY <1>1 DEF DeliveryInv

\* Alerts that are added to those of a target.
LEMMA AlertsDeliver ==
  ASSUME DailyInv, DeliveryInv, NEW c \in Calls, NEW check \in {"backup", "log", "refresh"}, pc[c] = check,
         pc' = [pc EXCEPT ![c] = NextCheck(check)], NEW alerts \in Seq(Kinds),
         found' = [found EXCEPT ![c] = @ \o alerts],
         UNCHANGED <<items, outbox, posted, outcome>>, Single(alerts),
         check # "refresh" => "error" \notin ToSet(alerts) /\ "notRun" \notin ToSet(alerts)
  PROVE  DeliveryInv'
<1>1. found[c] \in Seq(Kinds) /\ found \in [Calls -> Seq(Kinds)] /\ pc \in [Calls -> DailySteps]
  BY DEF DailyInv, DailyType
<1>2. FoundAt(c) /\ ResultsAt(c) /\ PostedAt(c)
  BY DEF DeliveryInv
<1>3. found'[c] = found[c] \o alerts /\ pc'[c] = NextCheck(check)
  BY <1>1
<1>4. ToSet(found'[c]) = ToSet(found[c]) \cup ToSet(alerts)
  <2>1. "log" \in Kinds
    BY DEF Kinds, Troubles
  <2> QED BY <1>1, <1>3, <2>1, ToSetFacts
<1>5. NextCheck(check) = IF check = "backup" THEN "log" ELSE IF check = "log" THEN "refresh" ELSE "space"
  BY ChecksInOrder
<1>6. FoundAt(c)'
  <2>1. "error" \notin ToSet(found[c]) /\ "notRun" \notin ToSet(found[c])
    BY <1>2 DEF FoundAt
  <2> QED BY <1>3, <1>4, <1>5, <2>1 DEF FoundAt, Single
<1>7. ResultsAt(c)'
  BY <1>2 DEF ResultsAt
<1>8. PostedAt(c)'
  BY <1>2, <1>3, <1>5 DEF PostedAt, CheckSteps
<1>9. \A d \in Calls \ {c} : found'[d] = found[d] /\ pc'[d] = pc[d]
  BY <1>1
<1>10. DeliveryType'
  BY DEF DeliveryInv, DeliveryType
<1> QED BY <1>6, <1>7, <1>8, <1>9, <1>10, OneCallDelivers

\* The result of a target.
LEMMA ResultDelivers ==
  ASSUME DailyInv, DeliveryInv, NEW c \in Calls, pc[c] \in CheckSteps, NEW item \in ItemType,
         pc' = [pc EXCEPT ![c] = NextTarget(c)],
         items' = [items EXCEPT ![c] = Append(@, item)], found' = [found EXCEPT ![c] = <<>>],
         UNCHANGED <<outbox, posted, outcome>>, Single(item.problems)
  PROVE  DeliveryInv'
<1>1. /\ items[c] \in Seq(ItemType) /\ items \in [Calls -> Seq(ItemType)]
      /\ found \in [Calls -> Seq(Kinds)] /\ pc \in [Calls -> DailySteps]
  BY DEF DailyInv, DailyType
<1>2. FoundAt(c) /\ ResultsAt(c) /\ PostedAt(c)
  BY DEF DeliveryInv
<1>3. items'[c] = Append(items[c], item) /\ found'[c] = <<>> /\ pc'[c] = NextTarget(c)
  BY <1>1
<1>4. NextTarget(c) \in {"report", "backup"}
  BY AtATarget
<1>5. FoundAt(c)'
  <2>1. ToSet(<<>>) = {}
    BY DEF ToSet
  <2> QED BY <1>3, <2>1 DEF FoundAt, Single
<1>6. ResultsAt(c)'
  <2>1. /\ Len(Append(items[c], item)) = Len(items[c]) + 1 /\ Len(items[c]) \in Nat
        /\ Append(items[c], item)[Len(items[c]) + 1] = item
        /\ \A n \in 1..Len(items[c]) : Append(items[c], item)[n] = items[c][n]
    BY <1>1, AppendProperties, LenProperties
  <2>2. \A n \in 1..Len(items[c]) + 1 : n \in 1..Len(items[c]) \/ n = Len(items[c]) + 1
    BY <2>1
  <2>3. \A n \in 1..Len(items'[c]) : Single(items'[c][n].problems)
    BY <1>2, <1>3, <2>1, <2>2 DEF ResultsAt
  <2> QED BY <2>3 DEF ResultsAt
<1>7. PostedAt(c)'
  BY <1>2, <1>3, <1>4 DEF PostedAt, CheckSteps
<1>8. \A d \in Calls \ {c} : items'[d] = items[d] /\ found'[d] = found[d] /\ pc'[d] = pc[d]
  BY <1>1
<1>9. DeliveryType'
  BY DEF DeliveryInv, DeliveryType
<1> QED BY <1>5, <1>6, <1>7, <1>8, <1>9, OneCallDelivers

\* A step that posts nothing and decides nothing.
LEMMA QuietDelivers ==
  ASSUME DailyInv, DeliveryInv, NEW c \in Calls, NEW s \in {"backup", "openDm", "format", "done", "raised"},
         pc[c] \in {"idle", "report", "openDm"}, s = "backup" => pc[c] = "idle",
         pc' = [pc EXCEPT ![c] = s], UNCHANGED <<items, found, outbox, posted, outcome>>
  PROVE  DeliveryInv'
<1>1. pc \in [Calls -> DailySteps] /\ pc'[c] = s /\ \A d \in Calls \ {c} : pc'[d] = pc[d]
  BY DEF DailyInv, DailyType
<1>2. FoundAt(c) /\ ResultsAt(c) /\ PostedAt(c)
  BY DEF DeliveryInv
<1>3. FoundAt(c)'
  BY <1>1, <1>2 DEF FoundAt
<1>4. ResultsAt(c)'
  BY <1>2 DEF ResultsAt
<1>5. PostedAt(c)'
  BY <1>1, <1>2 DEF PostedAt, CheckSteps
<1>6. DeliveryType'
  BY DEF DeliveryInv, DeliveryType
<1> QED BY <1>1, <1>3, <1>4, <1>5, <1>6, OneCallDelivers

\* A check of a target.
LEMMA CheckDelivers ==
  ASSUME DailyInv, DeliveryInv, NEW c \in Calls, NEW check \in CheckSteps, Check(c, check)
  PROVE  DeliveryInv'
<1> DEFINE alerts == AlertsOf(TargetOf(c), check)
           all == found[c] \o alerts
<1>1. pc[c] = check /\ UNCHANGED <<outbox, posted, outcome>>
  BY DEF Check, At
<1>2. TargetOf(c) \in {"es", "other"} /\ found[c] \in Seq(Kinds)
  BY <1>1, AtATarget DEF DailyInv, DailyType
<1>3. /\ alerts \in Seq(Kinds) /\ Single(alerts)
      /\ check # "refresh" => "error" \notin ToSet(alerts) /\ "notRun" \notin ToSet(alerts)
  BY <1>2, AlertsTell, AlertsAreSingle DEF DailyInv
<1>4. CASE check = "space"
  <2>1. /\ items' = [items EXCEPT ![c] = Append(@, Item(c, all))] /\ found' = [found EXCEPT ![c] = <<>>]
        /\ pc' = [pc EXCEPT ![c] = NextTarget(c)]
    BY <1>4 DEF Check, Go
  <2>2. all \in Seq(Kinds)
    BY <1>2, <1>3, ConcatProperties
  <2>3. ToSet(all) = ToSet(found[c]) \cup ToSet(alerts)
    <3>1. "log" \in Kinds
      BY DEF Kinds, Troubles
    <3> HIDE DEF alerts
    <3> QED BY <1>2, <1>3, <3>1, ToSetFacts
  <2>4. Single(found[c])
    BY DEF DeliveryInv, FoundAt
  <2> HIDE DEF alerts, all
  <2>5. Item(c, all) \in ItemType /\ Item(c, all).problems = all
    BY <1>2, <2>2 DEF Item, ItemType
  <2>6. Single(all)
    BY <1>3, <1>4, <2>3, <2>4 DEF Single
  <2>7. Single(Item(c, all).problems)
    BY <2>5, <2>6
  <2> QED BY <1>1, <2>1, <2>5, <2>7, ResultDelivers
<1>5. CASE check # "space"
  <2>1. found' = [found EXCEPT ![c] = found[c] \o alerts] /\ items' = items
        /\ pc' = [pc EXCEPT ![c] = NextCheck(check)] /\ check \in {"backup", "log", "refresh"}
    BY <1>5 DEF Check, Go, CheckSteps
  <2> HIDE DEF alerts
  <2> QED BY <1>1, <1>3, <2>1, AlertsDeliver
<1> QED BY <1>4, <1>5

\* A check that fails.
LEMMA CheckFailsDelivers == ASSUME DailyInv, DeliveryInv, NEW c \in Calls, CheckFails(c) PROVE DeliveryInv'
<1>0. pc[c] \in CheckSteps /\ UNCHANGED <<outbox, posted, outcome>>
  BY ChecksInOrder DEF CheckFails
<1>1. TargetOf(c) \in {"es", "other"} /\ found[c] \in Seq(Kinds)
  BY <1>0, AtATarget DEF DailyInv, DailyType
<1>2. CASE /\ items' = [items EXCEPT ![c] = Append(@, [target |-> TargetOf(c), status |-> "failed",
                                                        problems |-> <<"unreachable">>])]
           /\ found' = [found EXCEPT ![c] = <<>>]
           /\ Strike(c, "failed", NextTarget(c)) /\ UNCHANGED unread
  <2>1. <<"unreachable">> \in Seq(Kinds)
    <3>1. "unreachable" \in Kinds
      BY DEF Kinds
    <3> QED BY <3>1, OneAlert
  <2>2. PICK item \in ItemType :
          item.problems = <<"unreachable">> /\ items' = [items EXCEPT ![c] = Append(@, item)]
    BY <1>1, <1>2, <2>1 DEF ItemType
  <2>3. Single(item.problems)
    <3>1. ToSet(<<"unreachable">>) = {"unreachable"}
      BY DEF ToSet
    <3> QED BY <2>2, <3>1 DEF Single
  <2> QED BY <1>0, <1>2, <2>2, <2>3, ResultDelivers DEF Strike
<1>3. CASE /\ At(c, "log") /\ found' = [found EXCEPT ![c] = Append(@, "log")]
           /\ Strike(c, "failed", "refresh") /\ UNCHANGED <<items, unread>>
  <2>1. "log" \in Kinds
    BY DEF Kinds, Troubles
  <2>2. <<"log">> \in Seq(Kinds) /\ Append(found[c], "log") = found[c] \o <<"log">>
    BY <1>1, <2>1, OneAlert, AppendIsConcat
  <2>3. found' = [found EXCEPT ![c] = found[c] \o <<"log">>]
    BY <1>3, <2>2
  <2>4. ToSet(<<"log">>) = {"log"}
    BY DEF ToSet
  <2>5. Single(<<"log">>)
    BY <2>4 DEF Single
  <2>6. pc[c] = "log" /\ pc' = [pc EXCEPT ![c] = NextCheck("log")]
    BY <1>3, ChecksInOrder DEF At, Strike
  <2> QED BY <1>0, <1>3, <2>2, <2>3, <2>4, <2>5, <2>6, AlertsDeliver
<1>4. CASE /\ At(c, "refresh") /\ TargetOf(c) = "es"
           /\ found' = [found EXCEPT ![c] = @ \o RefreshAlerts([truth.refresh EXCEPT !.breach = 0])]
           /\ unread' = unread \cup {c} /\ Strike(c, "backlog", "space") /\ UNCHANGED items
  <2> DEFINE alerts == RefreshAlerts([truth.refresh EXCEPT !.breach = 0])
  <2>1. [truth.refresh EXCEPT !.breach = 0] \in [stuck : Nat, breach : Nat, errors : Nat, ran : BOOLEAN]
    BY DailyAssumption DEF DailyInv, DailyType
  <2>2. alerts \in Seq(Kinds) /\ Single(alerts)
    BY <2>1, RefreshAlertsAreListed, RefreshAlertsAreSingle
  <2>3. found' = [found EXCEPT ![c] = found[c] \o alerts]
    BY <1>4
  <2> HIDE DEF alerts
  <2>4. pc[c] = "refresh" /\ pc' = [pc EXCEPT ![c] = NextCheck("refresh")]
    BY <1>4, ChecksInOrder DEF At, Strike
  <2> QED BY <1>0, <1>4, <2>2, <2>3, <2>4, AlertsDeliver
<1> QED BY <1>2, <1>3, <1>4 DEF CheckFails

\* The messages of a call are made.
LEMMA FormatDelivers == ASSUME DailyInv, DeliveryInv, NEW c \in Calls, Format(c) PROVE DeliveryInv'
<1>1. pc[c] = "format" /\ UNCHANGED <<items, found, posted>>
  BY DEF Format, At
<1>2. /\ pc \in [Calls -> DailySteps] /\ items[c] \in Seq(ItemType) /\ DeliveryType
      /\ FoundAt(c) /\ ResultsAt(c) /\ PostedAt(c)
  BY DEF DailyInv, DailyType, DeliveryInv
<1>3. posted[c] = <<>> /\ outcome[c] # "delivered"
  BY <1>1, <1>2 DEF PostedAt
<1>4. ResultsAt(c)'
  BY <1>1, <1>2 DEF ResultsAt
<1>5. CASE /\ Formats(items[c]) /\ outbox' = [outbox EXCEPT ![c] = Messages(items[c])]
           /\ pc' = [pc EXCEPT ![c] = "post"] /\ UNCHANGED outcome
  <2>1. Messages(items[c]) \in Seq(SUBSET ProblemType) /\ Messages(items[c]) # <<>>
    BY <1>2, MessagesCarry
  <2>2. DeliveryType' /\ outbox'[c] = Messages(items[c]) /\ pc'[c] = "post"
        /\ \A d \in Calls \ {c} : outbox'[d] = outbox[d] /\ pc'[d] = pc[d]
    BY <1>1, <1>2, <1>5, <2>1 DEF DeliveryType
  <2>3. <<>> \o Messages(items[c]) = Messages(items[c])
    BY <2>1, ConcatEmptySeq
  <2>4. PostedAt(c)'
    BY <1>1, <1>3, <1>5, <2>1, <2>2, <2>3 DEF PostedAt, CheckSteps
  <2>5. FoundAt(c)'
    BY <1>1, <1>2, <2>2 DEF FoundAt
  <2> QED BY <1>1, <1>4, <1>5, <2>2, <2>4, <2>5, OneCallDelivers
<1>6. CASE outcome' = [outcome EXCEPT ![c] = "undelivered"] /\ pc' = [pc EXCEPT ![c] = "done"] /\ UNCHANGED outbox
  <2>1. DeliveryType' /\ outcome'[c] = "undelivered" /\ pc'[c] = "done"
        /\ \A d \in Calls \ {c} : outcome'[d] = outcome[d] /\ pc'[d] = pc[d]
    BY <1>1, <1>2, <1>6 DEF DeliveryType
  <2>2. PostedAt(c)'
    BY <2>1 DEF PostedAt, CheckSteps
  <2>3. FoundAt(c)'
    BY <1>1, <1>2, <2>1 DEF FoundAt
  <2> QED BY <1>1, <1>4, <1>6, <2>1, <2>2, <2>3, OneCallDelivers
<1> QED BY <1>5, <1>6 DEF Format, Go

\* What is posted and what is left remain the message.
LEMMA OneMore ==
  ASSUME NEW S, NEW sent \in Seq(S), NEW rest \in Seq(S), rest # <<>>
  PROVE  /\ Append(sent, Head(rest)) \in Seq(S) /\ Tail(rest) \in Seq(S)
         /\ Append(sent, Head(rest)) \o Tail(rest) = sent \o rest
         /\ Len(rest) = 1 => Append(sent, Head(rest)) = sent \o rest
         /\ Len(rest) # 1 => Tail(rest) # <<>>
<1> DEFINE more == Append(sent, Head(rest))
<1>1. Len(sent) \in Nat /\ Len(rest) \in Nat \ {0} /\ Head(rest) = rest[1] /\ rest[1] \in S
  <2>1. Len(sent) \in Nat /\ Len(rest) \in Nat /\ Len(rest) # 0 /\ Head(rest) = rest[1]
    OBVIOUS
  <2> QED BY <2>1, ElementOfSeq
<1>2. /\ more \in Seq(S) /\ Len(more) = Len(sent) + 1 /\ more[Len(sent) + 1] = rest[1]
      /\ \A i \in 1..Len(sent) : more[i] = sent[i]
  BY <1>1, AppendProperties
<1>3. /\ Tail(rest) \in Seq(S) /\ Len(Tail(rest)) = Len(rest) - 1
      /\ \A i \in 1..Len(rest) - 1 : Tail(rest)[i] = rest[i + 1]
  BY <1>1, HeadTailProperties
<1>4. /\ sent \o rest \in Seq(S) /\ Len(sent \o rest) = Len(sent) + Len(rest)
      /\ \A i \in 1..Len(sent) + Len(rest) : (sent \o rest)[i] = IF i <= Len(sent) THEN sent[i] ELSE rest[i - Len(sent)]
  BY ConcatProperties
<1> HIDE DEF more
<1>5. /\ more \o Tail(rest) \in Seq(S) /\ Len(more \o Tail(rest)) = Len(sent) + Len(rest)
      /\ \A i \in 1..Len(sent) + Len(rest) :
           (more \o Tail(rest))[i] = IF i <= Len(sent) + 1 THEN more[i] ELSE Tail(rest)[i - (Len(sent) + 1)]
  <2>1. Len(more) + Len(Tail(rest)) = Len(sent) + Len(rest)
    BY <1>1, <1>2, <1>3
  <2>2. /\ more \o Tail(rest) \in Seq(S) /\ Len(more \o Tail(rest)) = Len(more) + Len(Tail(rest))
        /\ \A i \in 1..Len(more) + Len(Tail(rest)) :
             (more \o Tail(rest))[i] = IF i <= Len(more) THEN more[i] ELSE Tail(rest)[i - Len(more)]
    BY <1>2, <1>3, ConcatProperties
  <2> QED BY <1>2, <2>1, <2>2
<1>6. more \o Tail(rest) = sent \o rest
  <2>1. ASSUME NEW i \in 1..Len(sent) + Len(rest) PROVE (more \o Tail(rest))[i] = (sent \o rest)[i]
    <3>1. CASE i <= Len(sent)
      BY <1>1, <1>2, <1>4, <1>5, <3>1
    <3>2. CASE i = Len(sent) + 1
      BY <1>1, <1>2, <1>4, <1>5, <3>2
    <3>3. CASE i > Len(sent) + 1
      <4>1. i - (Len(sent) + 1) \in 1..Len(rest) - 1 /\ (i - (Len(sent) + 1)) + 1 = i - Len(sent)
        BY <1>1, <3>3
      <4>2. Tail(rest)[i - (Len(sent) + 1)] = rest[i - Len(sent)]
        BY <1>3, <4>1
      <4> QED BY <1>1, <1>4, <1>5, <3>3, <4>2
    <3>4. i <= Len(sent) \/ i = Len(sent) + 1 \/ i > Len(sent) + 1
      BY <1>1
    <3> QED BY <3>1, <3>2, <3>3, <3>4
  <2> QED BY <1>4, <1>5, <2>1, SeqEqual
<1>7. ASSUME Len(rest) = 1 PROVE more = sent \o rest
  <2>1. Len(more) = Len(sent \o rest)
    BY <1>2, <1>4, <1>7
  <2>2. ASSUME NEW i \in 1..Len(more) PROVE more[i] = (sent \o rest)[i]
    <3>1. i \in 1..Len(sent) \/ i = Len(sent) + 1
      BY <1>1, <1>2
    <3> QED BY <1>1, <1>2, <1>4, <1>7, <3>1
  <2> QED BY <1>2, <1>4, <2>1, <2>2, SeqEqual
<1>8. Len(rest) # 1 => Tail(rest) # <<>>
  <2>1. Tail(rest) = <<>> => Len(Tail(rest)) = 0
    BY EmptySeq
  <2> QED BY <1>1, <1>3, <2>1
<1> QED BY <1>2, <1>3, <1>6, <1>7, <1>8 DEF more

\* A message is sent, or refused, or sent without an answer.
LEMMA PostDelivers == ASSUME DailyInv, DeliveryInv, NEW c \in Calls, Post(c) PROVE DeliveryInv'
<1>1. pc[c] = "post" /\ UNCHANGED <<items, found>>
  BY DEF Post, At
<1>2. /\ pc \in [Calls -> DailySteps] /\ DeliveryType /\ FoundAt(c) /\ ResultsAt(c) /\ PostedAt(c)
      /\ posted[c] \in Seq(SUBSET ProblemType) /\ outbox[c] \in Seq(SUBSET ProblemType)
  BY DEF DailyInv, DailyType, DeliveryInv, DeliveryType
<1>3. outbox[c] # <<>> /\ posted[c] \o outbox[c] = Messages(items[c]) /\ Formats(items[c])
      /\ outcome[c] # "delivered"
  BY <1>1, <1>2 DEF PostedAt
<1> DEFINE more == Append(posted[c], Head(outbox[c]))
<1>4. /\ more \in Seq(SUBSET ProblemType) /\ Tail(outbox[c]) \in Seq(SUBSET ProblemType)
      /\ more \o Tail(outbox[c]) = Messages(items[c])
      /\ Len(outbox[c]) = 1 => more = Messages(items[c])
      /\ Len(outbox[c]) # 1 => Tail(outbox[c]) # <<>>
  <2> DEFINE S == SUBSET ProblemType
  <2>1. posted[c] \in Seq(S) /\ outbox[c] \in Seq(S) /\ outbox[c] # <<>>
    BY <1>2, <1>3
  <2> HIDE DEF S
  <2>2. /\ more \in Seq(S) /\ Tail(outbox[c]) \in Seq(S)
        /\ more \o Tail(outbox[c]) = posted[c] \o outbox[c]
        /\ Len(outbox[c]) = 1 => more = posted[c] \o outbox[c]
        /\ Len(outbox[c]) # 1 => Tail(outbox[c]) # <<>>
    BY <2>1, OneMore
  <2> QED BY <1>3, <2>2 DEF S
<1>5. ResultsAt(c)'
  BY <1>1, <1>2 DEF ResultsAt
<1>6. ASSUME NEW s \in {"post", "done"}, pc' = [pc EXCEPT ![c] = s] PROVE FoundAt(c)'
  BY <1>1, <1>2, <1>6 DEF FoundAt
<1> HIDE DEF more
<1>7. CASE /\ posted' = [posted EXCEPT ![c] = more] /\ outbox' = [outbox EXCEPT ![c] = Tail(@)]
           /\ IF Len(outbox[c]) = 1
              THEN outcome' = [outcome EXCEPT ![c] = "delivered"] /\ Go(c, "done")
              ELSE UNCHANGED outcome /\ Go(c, "post")
  <2>1. CASE Len(outbox[c]) = 1
    <3>1. outcome' = [outcome EXCEPT ![c] = "delivered"] /\ pc' = [pc EXCEPT ![c] = "done"]
      BY <1>7, <2>1 DEF Go
    <3>2. /\ DeliveryType' /\ outcome'[c] = "delivered" /\ pc'[c] = "done" /\ posted'[c] = Messages(items[c])
          /\ \A d \in Calls \ {c} : /\ outcome'[d] = outcome[d] /\ pc'[d] = pc[d]
                                    /\ outbox'[d] = outbox[d] /\ posted'[d] = posted[d]
      BY <1>2, <1>4, <1>7, <2>1, <3>1 DEF DeliveryType
    <3>3. PostedAt(c)'
      BY <1>1, <1>3, <3>2 DEF PostedAt, CheckSteps
    <3> QED BY <1>1, <1>5, <1>6, <3>1, <3>2, <3>3, OneCallDelivers
  <2>2. CASE Len(outbox[c]) # 1
    <3>1. outcome' = outcome /\ pc' = [pc EXCEPT ![c] = "post"]
      BY <1>7, <2>2 DEF Go
    <3>2. /\ DeliveryType' /\ pc'[c] = "post" /\ posted'[c] = more /\ outbox'[c] = Tail(outbox[c])
          /\ \A d \in Calls \ {c} : pc'[d] = pc[d] /\ outbox'[d] = outbox[d] /\ posted'[d] = posted[d]
      BY <1>2, <1>4, <1>7, <3>1 DEF DeliveryType
    <3>3. PostedAt(c)'
      BY <1>1, <1>3, <1>4, <2>2, <3>1, <3>2 DEF PostedAt, CheckSteps
    <3> QED BY <1>1, <1>5, <1>6, <3>1, <3>2, <3>3, OneCallDelivers
  <2> QED BY <2>1, <2>2
<1>8. ASSUME NEW lost \in BOOLEAN,
             posted' = IF lost THEN [posted EXCEPT ![c] = more] ELSE posted,
             outcome' = [outcome EXCEPT ![c] = "undelivered"],
             pc' = [pc EXCEPT ![c] = "done"], outbox' = outbox
      PROVE  DeliveryInv'
  <2>1. posted' \in [Calls -> Seq(SUBSET ProblemType)] /\ \A d \in Calls \ {c} : posted'[d] = posted[d]
    BY <1>2, <1>4, <1>8 DEF DeliveryType
  <2>2. /\ DeliveryType' /\ outcome'[c] = "undelivered" /\ pc'[c] = "done"
        /\ \A d \in Calls \ {c} : outcome'[d] = outcome[d] /\ pc'[d] = pc[d]
    BY <1>2, <1>8, <2>1 DEF DeliveryType
  <2>3. PostedAt(c)'
    BY <2>2 DEF PostedAt, CheckSteps
  <2> QED BY <1>1, <1>5, <1>6, <1>8, <2>1, <2>2, <2>3, OneCallDelivers
<1> QED BY <1>7, <1>8 DEF Post, Strike, more

\* The steps of a daily check keep its delivery whole.
LEMMA DeliveryStep == ASSUME DailyInv, DeliveryInv, DailyNext PROVE DeliveryInv'
<1>1. PICK c \in Calls :
        \/ DailyStart(c) \/ \E check \in ToSet(Checks) : Check(c, check)
        \/ CheckFails(c) \/ Report(c) \/ OpenDm(c) \/ Format(c) \/ Post(c)
  BY DEF DailyNext
<1>2. CASE DailyStart(c)
  BY <1>2, QuietDelivers DEF DailyStart, Begin, At, dailyVars, dailyLocals
<1>3. CASE \E check \in ToSet(Checks) : Check(c, check)
  BY <1>3, CheckDelivers, ChecksInOrder
<1>4. CASE CheckFails(c)
  BY <1>4, CheckFailsDelivers
<1>5. CASE Report(c)
  BY <1>5, QuietDelivers DEF Report, Go, Strike, At, dailyVars, dailyLocals
<1>6. CASE OpenDm(c)
  BY <1>6, QuietDelivers DEF OpenDm, Go, Strike, At, dailyVars, dailyLocals
<1>7. CASE Format(c)
  BY <1>7, FormatDelivers
<1>8. CASE Post(c)
  BY <1>8, PostDelivers
<1> QED BY <1>1, <1>2, <1>3, <1>4, <1>5, <1>6, <1>7, <1>8

\* In a behaviour of another group nothing is delivered.
ServerDeliveryInv ==
  IF group = "daily" THEN DailyInv /\ DeliveryInv ELSE outcome = [c \in Calls |-> "none"]

\* A report the daily check calls delivered names every problem it found, but for the refresh alerts
\* the compact form cuts to two: for any number of calls, of failures and of lines in a message.
THEOREM DeliveredReportsAreWhole == Spec => []DeliveredIsWhole
<1>1. Init => ServerDeliveryInv
  <2> SUFFICES ASSUME Init PROVE ServerDeliveryInv
    OBVIOUS
  <2>1. /\ items = [c \in Calls |-> <<>>] /\ found = [c \in Calls |-> <<>>] /\ outbox = [c \in Calls |-> <<>>]
        /\ posted = [c \in Calls |-> <<>>] /\ outcome = [c \in Calls |-> "none"] /\ pc = [c \in Calls |-> "idle"]
        /\ truth \in [es : SUBSET Troubles, other : SUBSET Troubles, refresh : RefreshCases]
    BY DEF Init, DailyInit, CallInit, Troubles
  <2>2. /\ <<>> \in Seq(ItemType) /\ <<>> \in Seq(Kinds) /\ Len(<<>>) = 0 /\ ToSet(<<>>) = {}
        /\ <<>> \in Seq(SUBSET ProblemType)
    BY EmptySeq DEF ToSet
  <2>3. DailyType
    BY <2>1, <2>2 DEF DailyType, DailySteps, Ended
  <2>4. DailyInv
    BY <2>1, <2>2, <2>3 DEF DailyInv, NothingMissed, OkItem, CheckSteps
  <2>5. DeliveryType
    BY <2>1, <2>2 DEF DeliveryType
  <2>6. \A c \in Calls : FoundAt(c) /\ ResultsAt(c) /\ PostedAt(c)
    BY <2>1, <2>2 DEF FoundAt, ResultsAt, PostedAt, Single, CheckSteps
  <2> QED BY <2>1, <2>4, <2>5, <2>6 DEF ServerDeliveryInv, DeliveryInv
<1>2. ServerDeliveryInv /\ [Next]_serverVars => ServerDeliveryInv'
  <2> SUFFICES ASSUME ServerDeliveryInv, [Next]_serverVars PROVE ServerDeliveryInv'
    OBVIOUS
  <2>1. CASE group = "daily" /\ DailyNext /\ UNCHANGED group
    BY <2>1, DailyStep, DeliveryStep DEF ServerDeliveryInv
  <2>2. CASE group # "daily" /\ UNCHANGED <<group, dailyVars>>
    BY <2>2 DEF ServerDeliveryInv, dailyVars, dailyLocals
  <2>3. CASE UNCHANGED serverVars
    <3>1. UNCHANGED <<group, pc, truth, items, found, unread, outbox, posted, outcome>>
      BY <2>3 DEF serverVars, dailyVars, dailyLocals, calls
    <3>2. \A c \in Calls : TargetOf(c)' = TargetOf(c)
      BY <3>1 DEF TargetOf
    <3>3. RefreshAlerts(truth.refresh)' = RefreshAlerts(truth.refresh)
      BY <3>1
    <3>4. DailyInv => DailyInv'
      BY <3>1, <3>2, <3>3 DEF DailyInv, DailyType, NothingMissed, OkItem
    <3>5. \A c \in Calls : /\ Single(found[c])' = Single(found[c]) /\ Messages(items[c])' = Messages(items[c])
                           /\ Formats(items[c])' = Formats(items[c])
      BY <3>1
    <3>6. DeliveryInv => DeliveryInv'
      BY <3>1, <3>5 DEF DeliveryInv, DeliveryType, FoundAt, ResultsAt, PostedAt
    <3> QED BY <3>1, <3>4, <3>6 DEF ServerDeliveryInv
  <2> QED BY <2>1, <2>2, <2>3 DEF Next
<1>3. ServerDeliveryInv => DeliveredIsWhole
  <2> SUFFICES ASSUME ServerDeliveryInv, NEW c \in Calls, outcome[c] = "delivered", NEW n \in DOMAIN items[c]
               PROVE  LET sent == UNION ToSet(posted[c]) IN
                      /\ \A p \in ToSet(Of(items[c][n])) : p \in sent \/ IsRefresh(p)
                      /\ Cardinality({p \in sent : IsRefresh(p) /\ p.target = items[c][n].target})
                           >= Min({CompactRefresh, Cardinality({p \in ToSet(Of(items[c][n])) : IsRefresh(p)})})
    BY DEF DeliveredIsWhole
  <2>1. items[c] \in Seq(ItemType) /\ ResultsAt(c) /\ posted[c] = Messages(items[c]) /\ Formats(items[c])
    BY DEF ServerDeliveryInv, DailyInv, DailyType, DeliveryInv, PostedAt
  <2>2. n \in 1..Len(items[c]) /\ Single(items[c][n].problems)
    BY <2>1, LenProperties DEF ResultsAt
  <2> QED BY <2>1, <2>2, MessagesWhole
<1> QED BY <1>1, <1>2, <1>3, PTL DEF Spec
=============================================================================
