--------------------------- MODULE MigrationProofs ---------------------------
(***************************************************************************)
(* Proofs about the tools of the mRemoteNG connection file                 *)
(* (ConnectionMigration), for any number of calls, nodes and bookmarks:    *)
(* its passwords open with its key, and nothing it held is lost.  They are *)
(* theorems of the server, whose other groups leave the file alone.        *)
(***************************************************************************)
EXTENDS ServerTools, TLAPS

MigSteps == {"idle", "backup", "readFile", "write", "done", "raised"}
Requests == [kind : MigrationTools, key : Keys, overwrite : BOOLEAN, remove : SUBSET Nodes]

MigType ==
  /\ pc \in [Calls -> MigSteps]
  /\ connFile \in {NoFile, Broken} \cup Content
  /\ content \in [Calls -> Content] /\ base \in [Calls -> Content]
  /\ req \in [Calls -> Requests \cup {NoRequest("migration")}]
  /\ \A c \in Calls : pc[c] # "idle" => req[c] \in Requests

Readable(f) == \A n \in Passwords(f) : f.nodes[n] = IF f.marker = "none" THEN Default ELSE f.marker
\* The call is a migrate that found a file with a password of its own.
Remarked(c) == req[c].kind = "migrate" /\ base[c].marker \notin {Default, "none"}
SomeRemarked == \E c \in Calls : Remarked(c)

\* A call's base is the empty file until it has read; from then on its content is what it will write.
ReadableInv ==
  /\ MigType
  /\ \A c \in Calls : pc[c] \in {"idle", "readFile"} => base[c] = Empty
  /\ \A c \in Calls : pc[c] = "backup" /\ req[c].kind # "restore" => base[c] = Empty
  /\ connFile \in Content => Readable(connFile) \/ SomeRemarked
  /\ \A c \in Calls : Readable(content[c]) \/ SomeRemarked

-----------------------------------------------------------------------------
\* What the tools make of a content is a content; the markers tell the three kinds of file apart.
LEMMA FileTypes ==
  /\ Empty \in Content /\ Readable(Empty)
  /\ \A f \in Content : f # NoFile /\ f # Broken
  /\ NoFile # Broken
<1>1. Empty \in Content /\ Readable(Empty)
  BY DEF Empty, Content, Readable, Passwords, Keys
<1>2. \A f \in Content : f.marker \in Keys \cup {"none"}
  BY DEF Content
<1>3. NoFile.marker = "missing" /\ Broken.marker = "broken"
  BY DEF NoFile, Broken
<1> QED BY <1>1, <1>2, <1>3 DEF Keys, Default

LEMMA ChangeTypes ==
  ASSUME NEW f \in Content, NEW r \in Requests
  PROVE  /\ Migrated(f, r) \in Content /\ Reencrypt(f, r.key) \in Content
         /\ \A stored \in SUBSET Nodes : Restored(f, r.key, stored) \in Content
<1> USE DEF Content, Requests, Keys, Default
<1>1. Migrated(f, r) \in Content
  BY DEF Migrated
<1>2. Reencrypt(f, r.key) \in Content
  BY DEF Reencrypt, Passwords
<1>3. \A stored \in SUBSET Nodes : Restored(f, r.key, stored) \in Content
  BY DEF Restored
<1> QED BY <1>1, <1>2, <1>3

\* set_mremoteng_file_password leaves one key.
LEMMA ReencryptReadable ==
  ASSUME NEW f \in Content, NEW key \in Keys PROVE Readable(Reencrypt(f, key))
BY DEF Readable, Reencrypt, Passwords, Content, Keys, Default

\* restore adds passwords under the file's key.
LEMMA RestoredReadable ==
  ASSUME NEW f \in Content, Readable(f), f.marker \in Keys, NEW stored \in SUBSET Nodes
  PROVE  Readable(Restored(f, f.marker, stored))
BY DEF Readable, Restored, Passwords, Content, Keys, Default

\* migrate marks the file with the default key, and adds no password.
LEMMA MigratedReadable ==
  ASSUME NEW f \in Content, Readable(f), f.marker \in {Default, "none"}, NEW r \in Requests
  PROVE  Readable(Migrated(f, r))
BY DEF Readable, Migrated, Passwords, Content, Keys, Default

LEMMA ReadableInit ==
  ASSUME MigInit, CallInit(NoRequest("migration"), FALSE) PROVE ReadableInv
<1>1. connFile = NoFile \/ (connFile \in Content /\ Readable(connFile))
  BY DEF MigInit, Readable
<1>2. content = [c \in Calls |-> Empty] /\ base = [c \in Calls |-> Empty]
  BY DEF MigInit
<1>3. pc = [c \in Calls |-> "idle"] /\ req = [c \in Calls |-> NoRequest("migration")]
  BY DEF CallInit
<1> HIDE DEF NoRequest
<1> QED BY <1>1, <1>2, <1>3, FileTypes DEF ReadableInv, MigType, MigSteps

\* What was remarked stays so: a call keeps its request and, having read, its base.
LEMMA RemarkedStays ==
  ASSUME ReadableInv, MigNext PROVE SomeRemarked => SomeRemarked'
<1> SUFFICES ASSUME NEW d \in Calls, Remarked(d) PROVE SomeRemarked'
  BY DEF SomeRemarked
<1>1. pc[d] \notin {"idle", "readFile"} /\ ~(pc[d] = "backup" /\ req[d].kind # "restore")
  BY DEF ReadableInv, Remarked, Empty
<1>2. PICK c \in Calls : MigStart(c) \/ Backup(c) \/ NothingToBackUp(c) \/ ReadFile(c)
                            \/ Write(c) \/ MigFails(c)
  BY DEF MigNext
<1>3. CASE MigStart(c)
  <2>1. c # d
    BY <1>1, <1>3 DEF MigStart, Begin, At
  <2>2. req'[d] = req[d] /\ base' = base
    BY <1>3, <2>1 DEF MigStart, Begin, migVars, migLocals
  <2> QED BY <2>2 DEF SomeRemarked, Remarked
<1>4. CASE ReadFile(c)
  <2>1. c # d
    BY <1>1, <1>4 DEF ReadFile, At
  <2>2. req' = req /\ base'[d] = base[d]
    BY <1>4, <2>1 DEF ReadFile, Prepare, Go, migLocals, ReadableInv, MigType
  <2> QED BY <2>2 DEF SomeRemarked, Remarked
<1>6. CASE NothingToBackUp(c)
  <2>1. req' = req /\ base'[d] = base[d]
    BY <1>1, <1>6 DEF NothingToBackUp, Prepare, At, Go, migLocals, ReadableInv, MigType
  <2> QED BY <2>1 DEF SomeRemarked, Remarked
<1>5. CASE Backup(c) \/ Write(c) \/ MigFails(c)
  <2>1. UNCHANGED <<req, base>>
    BY <1>5 DEF Backup, Write, MigFails, Go, Strike, migVars, migLocals
  <2> QED BY <2>1 DEF SomeRemarked, Remarked
<1> QED BY <1>2, <1>3, <1>4, <1>5, <1>6

\* What ReadFile computes is readable, or a call has remarked a file.
LEMMA ReadFileReadable ==
  ASSUME ReadableInv, NEW c \in Calls, ReadFile(c)
  PROVE  /\ content' \in [Calls -> Content] /\ base' \in [Calls -> Content]
         /\ \/ pc' = [pc EXCEPT ![c] = "raised"] /\ UNCHANGED <<content, base>>
            \/ \E s \in {"write", "backup"} :
                pc' = [pc EXCEPT ![c] = s] /\ (s = "backup" => req[c].kind = "restore")
         /\ Readable(content'[c]) \/ SomeRemarked'
         /\ \A d \in Calls \ {c} : content'[d] = content[d] /\ base'[d] = base[d]
<1> DEFINE r == req[c]
           f == connFile
           Becomes(g) == Prepare(c, f, g) /\ Go(c, IF r.kind = "restore" THEN "backup" ELSE "write")
           refused == \/ f \in {NoFile, Broken}
                      \/ r.kind = "restore" /\ f.marker # r.key
                      \/ r.kind = "setPassword" /\ \E n \in Passwords(f) : f.nodes[n] \notin {Default, r.key}
<1>1. /\ content \in [Calls -> Content] /\ base \in [Calls -> Content] /\ pc \in [Calls -> MigSteps]
      /\ r \in Requests /\ (Readable(content[c]) \/ SomeRemarked)
      /\ connFile \in {NoFile, Broken} \cup Content
  BY DEF ReadFile, At, ReadableInv, MigType
<1>2. SomeRemarked => SomeRemarked'
  BY RemarkedStays DEF MigNext
<1>3. CASE refused
  <2>1. pc' = [pc EXCEPT ![c] = "raised"] /\ UNCHANGED <<content, base>>
    BY <1>3 DEF ReadFile, Go, migLocals
  <2> QED BY <1>1, <1>2, <2>1
<1>4. CASE ~refused
  <2>1. f \in Content
    BY <1>1, <1>4, FileTypes
  <2>2. Readable(f) \/ SomeRemarked
    BY <2>1, <1>1, FileTypes DEF ReadableInv
  <2>3. \/ r.kind = "migrate" /\ Becomes(Migrated(f, r))
        \/ r.kind = "setPassword" /\ Becomes(Reencrypt(f, r.key))
        \/ r.kind = "restore" /\ r.key = f.marker /\ \E stored \in SUBSET Nodes : Becomes(Restored(f, r.key, stored))
    BY <1>4 DEF ReadFile
  <2>4. PICK g \in Content :
          /\ Becomes(g)
          /\ Readable(g) \/ SomeRemarked \/ (r.kind = "migrate" /\ f.marker \notin {Default, "none"})
    <3>1. CASE r.kind = "migrate" /\ Becomes(Migrated(f, r))
      BY <3>1, <1>1, <2>1, <2>2, ChangeTypes, MigratedReadable
    <3>2. CASE r.kind = "setPassword" /\ Becomes(Reencrypt(f, r.key))
      BY <3>2, <1>1, <2>1, ChangeTypes, ReencryptReadable DEF Requests
    <3>3. CASE r.kind = "restore" /\ r.key = f.marker /\ \E stored \in SUBSET Nodes : Becomes(Restored(f, r.key, stored))
      <4>1. PICK stored \in SUBSET Nodes : Becomes(Restored(f, r.key, stored))
        BY <3>3
      <4>2. f.marker \in Keys
        BY <3>3, <1>1 DEF Requests
      <4>3. Restored(f, r.key, stored) \in Content
        BY <1>1, <2>1, ChangeTypes
      <4>4. Readable(f) => Readable(Restored(f, r.key, stored))
        BY <2>1, <3>3, <4>2, RestoredReadable
      <4> QED BY <2>2, <4>1, <4>3, <4>4
    <3> QED BY <2>3, <3>1, <3>2, <3>3
  <2>5. /\ content' = [content EXCEPT ![c] = g] /\ base' = [base EXCEPT ![c] = f]
        /\ pc' = [pc EXCEPT ![c] = IF r.kind = "restore" THEN "backup" ELSE "write"] /\ req' = req
    BY <2>4 DEF Prepare, Go
  <2> HIDE DEF f, r
  <2>6. Readable(content'[c]) \/ SomeRemarked'
    <3>1. content'[c] = g /\ base'[c] = f
      BY <2>5, <1>1
    <3>2. r.kind = "migrate" /\ f.marker \notin {Default, "none"} => SomeRemarked'
      BY <2>5, <3>1 DEF SomeRemarked, Remarked, r
    <3> QED BY <1>2, <2>4, <3>1, <3>2
  <2>7. content' \in [Calls -> Content] /\ base' \in [Calls -> Content]
        /\ \A d \in Calls \ {c} : content'[d] = content[d] /\ base'[d] = base[d]
    BY <2>1, <2>5, <1>1
  <2>8. \E s \in {"write", "backup"} : pc' = [pc EXCEPT ![c] = s] /\ (s = "backup" => req[c].kind = "restore")
    BY <2>5 DEF r
  <2> QED BY <2>6, <2>7, <2>8
<1> QED BY <1>3, <1>4

\* Every step keeps the passwords readable.
LEMMA ReadableStep == ASSUME ReadableInv, MigNext PROVE ReadableInv'
<1>0. SomeRemarked => SomeRemarked'
  BY RemarkedStays
<1>00. /\ pc \in [Calls -> MigSteps] /\ connFile \in {NoFile, Broken} \cup Content
       /\ content \in [Calls -> Content] /\ base \in [Calls -> Content]
       /\ req \in [Calls -> Requests \cup {NoRequest("migration")}]
       /\ \A d \in Calls : pc[d] # "idle" => req[d] \in Requests
       /\ \A d \in Calls : pc[d] \in {"idle", "readFile"} => base[d] = Empty
       /\ \A d \in Calls : pc[d] = "backup" /\ req[d].kind # "restore" => base[d] = Empty
       /\ connFile \in Content => Readable(connFile) \/ SomeRemarked
       /\ \A d \in Calls : Readable(content[d]) \/ SomeRemarked
  BY DEF ReadableInv, MigType
<1>1. PICK c \in Calls : MigStart(c) \/ Backup(c) \/ NothingToBackUp(c) \/ ReadFile(c)
                            \/ Write(c) \/ MigFails(c)
  BY DEF MigNext
<1>2. CASE MigStart(c)
  <2>1. PICK q \in Requests : Begin(c, q, IF q.kind = "restore" THEN "readFile" ELSE "backup", FALSE)
    <3>1. PICK k \in MigrationTools, key \in Keys, overwrite \in BOOLEAN,
               remove \in {{}} \cup {{n} : n \in Nodes} :
            Begin(c, [kind |-> k, key |-> key, overwrite |-> overwrite, remove |-> remove],
                  IF k = "restore" THEN "readFile" ELSE "backup", FALSE)
      BY <1>2 DEF MigStart
    <3>2. [kind |-> k, key |-> key, overwrite |-> overwrite, remove |-> remove] \in Requests
      BY DEF Requests
    <3> QED BY <3>1, <3>2
  <2>2. /\ pc[c] = "idle" /\ pc' = [pc EXCEPT ![c] = IF q.kind = "restore" THEN "readFile" ELSE "backup"]
        /\ req' = [req EXCEPT ![c] = q] /\ UNCHANGED <<connFile, content, base>>
    BY <1>2, <2>1 DEF MigStart, Begin, At, migVars, files, migLocals
  <2>3. \A d \in Calls \ {c} : pc'[d] = pc[d] /\ req'[d] = req[d]
    BY <1>00, <2>2
  <2>4. pc'[c] \in {"readFile", "backup"} /\ base'[c] = Empty /\ pc' \in [Calls -> MigSteps]
    BY <1>00, <2>2 DEF MigSteps
  <2>5. /\ req' \in [Calls -> Requests \cup {NoRequest("migration")}]
        /\ \A d \in Calls : pc'[d] # "idle" => req'[d] \in Requests
    BY <2>1, <2>2, <2>3, <1>00
  <2> QED BY <1>0, <1>00, <2>2, <2>3, <2>4, <2>5 DEF ReadableInv, MigType
<1>3. CASE Backup(c)
  <2>1. /\ pc[c] = "backup" /\ UNCHANGED <<req, connFile, content, base>>
        /\ \E s \in {"write", "readFile"} :
             /\ pc' = [pc EXCEPT ![c] = s] /\ (s = "readFile" => req[c].kind # "restore")
    BY <1>3 DEF Backup, AfterBackup, At, Go, migLocals
  <2> QED BY <1>0, <1>00, <2>1 DEF ReadableInv, MigType, MigSteps
<1>4. CASE ReadFile(c)
  <2>1. UNCHANGED <<req, connFile>> /\ pc[c] = "readFile"
    BY <1>4 DEF ReadFile, At, Go, files
  <2>2. /\ content' \in [Calls -> Content] /\ base' \in [Calls -> Content]
        /\ \/ pc' = [pc EXCEPT ![c] = "raised"] /\ UNCHANGED <<content, base>>
           \/ \E s \in {"write", "backup"} :
                pc' = [pc EXCEPT ![c] = s] /\ (s = "backup" => req[c].kind = "restore")
        /\ Readable(content'[c]) \/ SomeRemarked'
        /\ \A d \in Calls \ {c} : content'[d] = content[d] /\ base'[d] = base[d]
    BY <1>4, ReadFileReadable
  <2>3. PICK s \in {"raised", "write", "backup"} :
          /\ pc' = [pc EXCEPT ![c] = s] /\ (s = "backup" => req[c].kind = "restore")
          /\ s = "raised" => base' = base
    BY <2>2
  <2>4. MigType' /\ (\A d \in Calls \ {c} : pc'[d] = pc[d]) /\ pc'[c] = s
    BY <1>00, <2>1, <2>2, <2>3 DEF MigType, MigSteps
  <2>6. /\ \A d \in Calls : pc'[d] \in {"idle", "readFile"} => base'[d] = Empty
        /\ \A d \in Calls : pc'[d] = "backup" /\ req'[d].kind # "restore" => base'[d] = Empty
    <3> SUFFICES ASSUME NEW d \in Calls
                 PROVE /\ pc'[d] \in {"idle", "readFile"} => base'[d] = Empty
                       /\ pc'[d] = "backup" /\ req'[d].kind # "restore" => base'[d] = Empty
      OBVIOUS
    <3>1. CASE d = c
      BY <3>1, <2>1, <2>3, <2>4
    <3>2. CASE d # c
      BY <3>2, <1>00, <2>1, <2>2, <2>4
    <3> QED BY <3>1, <3>2
  <2>5. /\ connFile' \in Content => Readable(connFile') \/ SomeRemarked'
        /\ \A d \in Calls : Readable(content'[d]) \/ SomeRemarked'
    BY <1>0, <1>00, <2>1, <2>2
  <2> QED BY <1>00, <2>1, <2>4, <2>5, <2>6 DEF ReadableInv
<1>5. CASE Write(c)
  <2>1. /\ pc[c] = "write" /\ UNCHANGED <<req, content, base>>
        /\ \/ connFile' = content[c] /\ pc' = [pc EXCEPT ![c] = "done"]
           \/ connFile' = Broken /\ pc' = [pc EXCEPT ![c] = "raised"]
    BY <1>5 DEF Write, At, Go, Strike, migLocals
  <2> QED BY <1>0, <1>00, <2>1, FileTypes DEF ReadableInv, MigType, MigSteps
<1>6. CASE MigFails(c)
  <2>1. /\ pc[c] # "idle" /\ pc' = [pc EXCEPT ![c] = "raised"]
        /\ UNCHANGED <<req, connFile, content, base>>
    BY <1>6 DEF MigFails, Strike, migVars, files, migLocals
  <2> QED BY <1>0, <1>00, <2>1 DEF ReadableInv, MigType, MigSteps
<1>7. CASE NothingToBackUp(c)
  <2>1. pc[c] = "backup" /\ UNCHANGED <<req, connFile>>
    BY <1>7 DEF NothingToBackUp, At, Go, files
  <2>2. CASE /\ req[c].kind # "migrate" /\ pc' = [pc EXCEPT ![c] = "raised"] /\ UNCHANGED <<content, base>>
    BY <1>0, <1>00, <2>1, <2>2 DEF ReadableInv, MigType, MigSteps
  <2>3. CASE /\ pc' = [pc EXCEPT ![c] = "write"] /\ base' = [base EXCEPT ![c] = Empty]
             /\ content' = [content EXCEPT ![c] = Migrated(Empty, req[c])]
    <3>1. Migrated(Empty, req[c]) \in Content /\ Readable(Migrated(Empty, req[c]))
      <4>1. req[c] \in Requests /\ Empty.marker \in {Default, "none"}
        BY <1>00, <2>1 DEF Empty
      <4> QED BY <4>1, FileTypes, ChangeTypes, MigratedReadable
    <3>2. MigType'
      BY <1>00, <2>1, <2>3, <3>1, FileTypes DEF MigType, MigSteps
    <3>3. \A d \in Calls : Readable(content'[d]) \/ SomeRemarked'
      BY <1>0, <1>00, <2>3, <3>1
    <3>4. \A d \in Calls : pc'[d] = (IF d = c THEN "write" ELSE pc[d]) /\ base'[d] = (IF d = c THEN Empty ELSE base[d])
      BY <1>00, <2>3
    <3> QED BY <1>0, <1>00, <2>1, <3>2, <3>3, <3>4 DEF ReadableInv
  <2> QED BY <1>7, <2>2, <2>3 DEF NothingToBackUp, Prepare, Go, migLocals
<1> QED BY <1>1, <1>2, <1>3, <1>4, <1>5, <1>6, <1>7

-----------------------------------------------------------------------------
\* In a behaviour of another group the file stays as it was.
FileInv == IF group = "migration" THEN ReadableInv ELSE connFile \in Content => Readable(connFile)

\* Every password of the connection file opens with the key of the file, whatever tools ran, in
\* whatever order or overlap, unless a migrate found a file with a password of its own.
THEOREM PasswordsOpen == Spec => []PasswordsReadable
<1>1. Init => FileInv
  BY ReadableInit, FileTypes DEF Init, CallInit, FileInv, MigInit, Readable
<1>2. FileInv /\ [Next]_serverVars => FileInv'
  <2> SUFFICES ASSUME FileInv, [Next]_serverVars PROVE FileInv'
    OBVIOUS
  <2>1. CASE group = "migration" /\ MigNext /\ UNCHANGED group
    BY <2>1, ReadableStep DEF FileInv
  <2>2. CASE group # "migration" /\ UNCHANGED <<group, migVars>>
    BY <2>2 DEF FileInv, migVars, files, Readable, Passwords
  <2>3. CASE UNCHANGED serverVars
    BY <2>3 DEF serverVars, FileInv, calls, migVars, files, migLocals, ReadableInv, MigType,
      Readable, Passwords, SomeRemarked, Remarked
  <2> QED BY <2>1, <2>2, <2>3 DEF Next
<1>3. FileInv => PasswordsReadable
  BY DEF FileInv, ReadableInv, PasswordsReadable, Readable, SomeRemarked, Remarked
<1> QED BY <1>1, <1>2, <1>3, PTL DEF Spec
-----------------------------------------------------------------------------
InABackup(f) == \E i \in DOMAIN backups : backups[i] = f
Disturbed == collided \/ \E c \in Calls : met[c] # {}
\* The call has made its backup and is going to write.
BackedUp(c) == pc[c] = "write" \/ (pc[c] = "readFile" /\ req[c].kind # "restore")

\* Until calls meet or backups collide, a call that is about to write has a copy of the file.
VersionsInv ==
  /\ backups \in Seq(Content \cup {Broken}) /\ NoFile \notin held
  /\ met \in [Calls -> SUBSET Calls]
  /\ \A c \in Calls : pc[c] = "idle" => met[c] = {}
  /\ \A c, d \in Open : c # d => d \in met[c]
  /\ Disturbed \/ \A f \in held : f = connFile \/ InABackup(f)
  /\ Disturbed \/ \A c \in Calls : BackedUp(c) => connFile = NoFile \/ InABackup(connFile)

LEMMA VersionsInit ==
  ASSUME MigInit, CallInit(NoRequest("migration"), FALSE) PROVE VersionsInv
<1>1. pc = [c \in Calls |-> "idle"] /\ met = [c \in Calls |-> {}]
  BY DEF CallInit
<1>2. backups = <<>> /\ held = {connFile} \ {NoFile}
  BY DEF MigInit
<1> QED BY <1>1, <1>2 DEF VersionsInv, Open, Ended, BackedUp

\* What met says grows with every call that begins, and calls that are open together have met.
LEMMA MetGrows ==
  ASSUME VersionsInv, NEW c \in Calls, NEW r, NEW s \in MigSteps \ Ended, Begin(c, r, s, FALSE),
         pc \in [Calls -> MigSteps]
  PROVE  /\ met' \in [Calls -> SUBSET Calls]
         /\ \A d \in Calls : pc'[d] = "idle" => met'[d] = {}
         /\ \A d, e \in Open' : d # e => e \in met'[d]
         /\ (\E d \in Calls : met[d] # {}) => \E d \in Calls : met'[d] # {}
<1>1. /\ pc[c] = "idle" /\ pc' = [pc EXCEPT ![c] = s]
      /\ met' = [d \in Calls |-> IF d = c THEN Open ELSE IF d \in Open THEN met[d] \cup {c} ELSE met[d]]
      /\ met \in [Calls -> SUBSET Calls] /\ met[c] = {}
      /\ \A d \in Calls : pc[d] = "idle" => met[d] = {}
      /\ \A d, e \in Open : d # e => e \in met[d]
  BY DEF Begin, At, VersionsInv
<1>2. Open \subseteq Calls /\ c \notin Open /\ Open' = Open \cup {c}
  BY <1>1 DEF Open, Ended, MigSteps
<1>3. \A d \in Calls : met[d] \subseteq met'[d]
  BY <1>1
<1>4. \A d \in Calls : pc'[d] = "idle" => d # c /\ d \notin Open /\ pc[d] = "idle"
  BY <1>1 DEF Open, Ended, MigSteps
<1>5. \A d, e \in Open' : d # e => e \in met'[d]
  BY <1>1, <1>2
<1> QED BY <1>1, <1>2, <1>3, <1>4, <1>5

\* A step that keeps the history of meetings and opens no call keeps what is said of it.
LEMMA MetStays ==
  ASSUME VersionsInv, NEW c \in Calls, NEW s \in MigSteps \ {"idle"}, pc \in [Calls -> MigSteps],
         c \in Open, pc' = [pc EXCEPT ![c] = s], UNCHANGED met
  PROVE  /\ met' \in [Calls -> SUBSET Calls]
         /\ \A d \in Calls : pc'[d] = "idle" => met'[d] = {}
         /\ \A d, e \in Open' : d # e => e \in met'[d]
<1>1. Open' \subseteq Open
  BY DEF Open
<1>2. \A d \in Calls : pc'[d] = "idle" => pc[d] = "idle"
  OBVIOUS
<1> QED BY <1>1, <1>2 DEF VersionsInv

\* Every step keeps the copies.
LEMMA VersionsStep == ASSUME ReadableInv, VersionsInv, MigNext PROVE VersionsInv'
<1>0. /\ pc \in [Calls -> MigSteps] /\ connFile \in {NoFile, Broken} \cup Content
      /\ content \in [Calls -> Content] /\ req \in [Calls -> Requests \cup {NoRequest("migration")}]
  BY DEF ReadableInv, MigType
<1>00. /\ backups \in Seq(Content \cup {Broken}) /\ NoFile \notin held
       /\ Disturbed \/ \A f \in held : f = connFile \/ InABackup(f)
       /\ Disturbed \/ \A d \in Calls : BackedUp(d) => connFile = NoFile \/ InABackup(connFile)
  BY DEF VersionsInv
<1>1. PICK c \in Calls : MigStart(c) \/ Backup(c) \/ NothingToBackUp(c) \/ ReadFile(c)
                            \/ Write(c) \/ MigFails(c)
  BY DEF MigNext
<1>2. CASE MigStart(c)
  <2>1. PICK r : Begin(c, r, IF r.kind = "restore" THEN "readFile" ELSE "backup", FALSE)
    <3>1. PICK k \in MigrationTools, key \in Keys, overwrite \in BOOLEAN,
               remove \in {{}} \cup {{n} : n \in Nodes} :
            Begin(c, [kind |-> k, key |-> key, overwrite |-> overwrite, remove |-> remove],
                  IF k = "restore" THEN "readFile" ELSE "backup", FALSE)
      BY <1>2 DEF MigStart
    <3>2. [kind |-> k, key |-> key, overwrite |-> overwrite, remove |-> remove].kind = k
      OBVIOUS
    <3> QED BY <3>1, <3>2
  <2>2. PICK s \in {"readFile", "backup"} :
          Begin(c, r, s, FALSE) /\ (s = "readFile" => r.kind = "restore")
    BY <2>1
  <2>3. /\ met' \in [Calls -> SUBSET Calls]
        /\ \A d \in Calls : pc'[d] = "idle" => met'[d] = {}
        /\ \A d, e \in Open' : d # e => e \in met'[d]
        /\ (\E d \in Calls : met[d] # {}) => \E d \in Calls : met'[d] # {}
    BY <2>2, <1>0, MetGrows DEF MigSteps, Ended
  <2>4. UNCHANGED <<connFile, backups, held, collided>>
    BY <1>2 DEF MigStart, migVars, files
  <2>5. \A d \in Calls : BackedUp(d)' => BackedUp(d)
    <3>1. pc' = [pc EXCEPT ![c] = s] /\ req' = [req EXCEPT ![c] = r]
      BY <2>2 DEF Begin
    <3>2. ~BackedUp(c)'
      BY <3>1, <2>2, <1>0 DEF BackedUp
    <3>3. \A d \in Calls \ {c} : pc'[d] = pc[d] /\ req'[d] = req[d]
      BY <3>1, <1>0
    <3> QED BY <3>2, <3>3 DEF BackedUp
  <2>6. Disturbed => Disturbed'
    BY <2>3, <2>4 DEF Disturbed
  <2> QED BY <1>00, <2>3, <2>4, <2>5, <2>6 DEF VersionsInv, InABackup
<1>3. CASE Backup(c)
  <2>1. PICK s \in {"write", "readFile"} :
          pc[c] = "backup" /\ pc' = [pc EXCEPT ![c] = s] /\ UNCHANGED <<req, met, connFile, held>>
    BY <1>3 DEF Backup, AfterBackup, At, Go, history
  <2>2. /\ met' \in [Calls -> SUBSET Calls]
        /\ \A d \in Calls : pc'[d] = "idle" => met'[d] = {}
        /\ \A d, e \in Open' : d # e => e \in met'[d]
    BY <2>1, <1>0, MetStays DEF MigSteps, Open, Ended
  <2>4. CASE connFile # NoFile /\ backups' = Append(backups, connFile) /\ UNCHANGED collided
    <3>1. connFile \in Content \cup {Broken}
      BY <2>4, <1>0
    <3>2. backups' \in Seq(Content \cup {Broken})
      BY <3>1, <2>4, <1>00
    <3>3. InABackup(connFile)'
      <4>1. Len(backups) + 1 \in DOMAIN backups' /\ backups'[Len(backups) + 1] = connFile
        BY <3>1, <2>4, <1>00
      <4> QED BY <4>1, <2>1 DEF InABackup
    <3>4. \A f : InABackup(f) => \E i \in DOMAIN backups' : backups'[i] = f
      <4>1. \A i \in DOMAIN backups : i \in DOMAIN backups' /\ backups'[i] = backups[i]
        BY <3>1, <2>4, <1>00
      <4> QED BY <4>1 DEF InABackup
    <3>5. Disturbed' = Disturbed
      BY <2>1, <2>4 DEF Disturbed
    <3> QED BY <1>00, <2>1, <2>2, <3>2, <3>3, <3>4, <3>5 DEF VersionsInv, InABackup
  <2>5. CASE /\ connFile # NoFile /\ backups # <<>>
             /\ backups' = [backups EXCEPT ![Len(backups)] = connFile] /\ collided' = TRUE
    <3>1. connFile \in Content \cup {Broken}
      BY <2>5, <1>0
    <3>2. backups' \in Seq(Content \cup {Broken})
      BY <3>1, <2>5, <1>00
    <3>3. Disturbed'
      BY <2>5 DEF Disturbed
    <3> QED BY <1>00, <2>1, <2>2, <3>2, <3>3 DEF VersionsInv
  <2> QED BY <1>3, <2>4, <2>5 DEF Backup
<1>7. CASE NothingToBackUp(c)
  <2>1. PICK s \in {"raised", "write"} :
          /\ pc[c] = "backup" /\ pc' = [pc EXCEPT ![c] = s] /\ connFile = NoFile
          /\ UNCHANGED <<req, met, connFile, backups, held, collided>>
    BY <1>7 DEF NothingToBackUp, At, Go, history, files
  <2>2. /\ met' \in [Calls -> SUBSET Calls]
        /\ \A d \in Calls : pc'[d] = "idle" => met'[d] = {}
        /\ \A d, e \in Open' : d # e => e \in met'[d]
    BY <2>1, <1>0, MetStays DEF MigSteps, Open, Ended
  <2> QED BY <1>00, <2>1, <2>2 DEF VersionsInv, Disturbed, InABackup
<1>4. CASE ReadFile(c)
  <2>1. PICK s \in {"raised", "write", "backup"} :
          /\ pc[c] = "readFile" /\ pc' = [pc EXCEPT ![c] = s]
          /\ s = "write" => req[c].kind # "restore"
          /\ UNCHANGED <<req, met, connFile, backups, held, collided>>
    BY <1>4 DEF ReadFile, At, Go, history, files
  <2>2. /\ met' \in [Calls -> SUBSET Calls]
        /\ \A d \in Calls : pc'[d] = "idle" => met'[d] = {}
        /\ \A d, e \in Open' : d # e => e \in met'[d]
    BY <2>1, <1>0, MetStays DEF MigSteps, Open, Ended
  <2>3. \A d \in Calls : BackedUp(d)' => BackedUp(d)
    BY <2>1, <1>0 DEF BackedUp
  <2> QED BY <1>00, <2>1, <2>2, <2>3 DEF VersionsInv, Disturbed, InABackup
<1>5. CASE Write(c)
  <2>1. PICK s \in {"done", "raised"} :
          /\ pc[c] = "write" /\ pc' = [pc EXCEPT ![c] = s] /\ UNCHANGED <<req, met, backups, collided>>
          /\ \/ connFile' = content[c] /\ held' = held \cup {content[c]}
             \/ connFile' = Broken /\ held' = held
    BY <1>5 DEF Write, At, Go, Strike, history
  <2>2. /\ met' \in [Calls -> SUBSET Calls]
        /\ \A d \in Calls : pc'[d] = "idle" => met'[d] = {}
        /\ \A d, e \in Open' : d # e => e \in met'[d]
    BY <2>1, <1>0, MetStays DEF MigSteps, Open, Ended
  <2>3. NoFile \notin held'
    BY <2>1, <1>0, <1>00, FileTypes
  <2>4. Disturbed' = Disturbed /\ \A f : InABackup(f)' = InABackup(f)
    BY <2>1 DEF Disturbed, InABackup
  <2>5. Disturbed \/ \A f \in held : InABackup(f)
    BY <2>1, <1>00 DEF BackedUp
  <2>6. Disturbed \/ \A d \in Calls : ~BackedUp(d)'
    <3> SUFFICES ASSUME NEW d \in Calls, BackedUp(d)' PROVE Disturbed
      OBVIOUS
    <3>1. d # c /\ BackedUp(d)
      BY <2>1, <1>0 DEF BackedUp
    <3>2. c \in Open /\ d \in Open
      BY <3>1, <2>1, <1>0 DEF Open, Ended, BackedUp
    <3> QED BY <3>1, <3>2 DEF VersionsInv, Disturbed
  <2>7. Disturbed \/ \A f \in held' : f = connFile' \/ \E i \in DOMAIN backups' : backups'[i] = f
    BY <2>1, <2>5 DEF InABackup
  <2> QED BY <1>00, <2>1, <2>2, <2>3, <2>4, <2>6, <2>7 DEF VersionsInv, InABackup
<1>6. CASE MigFails(c)
  <2>1. /\ pc[c] \in {"backup", "readFile"} /\ pc' = [pc EXCEPT ![c] = "raised"]
        /\ UNCHANGED <<req, met, connFile, backups, held, collided>>
    BY <1>6 DEF MigFails, Strike, migVars, files
  <2>2. /\ met' \in [Calls -> SUBSET Calls]
        /\ \A d \in Calls : pc'[d] = "idle" => met'[d] = {}
        /\ \A d, e \in Open' : d # e => e \in met'[d]
    BY <2>1, <1>0, MetStays DEF MigSteps, Open, Ended
  <2>3. \A d \in Calls : BackedUp(d)' => BackedUp(d)
    BY <2>1, <1>0 DEF BackedUp
  <2> QED BY <1>00, <2>1, <2>2, <2>3 DEF VersionsInv, Disturbed, InABackup
<1> QED BY <1>1, <1>2, <1>3, <1>4, <1>5, <1>6, <1>7

\* In a behaviour of another group what the file held is what it holds.
HeldInv ==
  IF group = "migration" THEN ReadableInv /\ VersionsInv ELSE \A f \in held : f = connFile

\* Nothing the connection file ever held is lost, however often and wherever its tools fail, unless
\* calls met or two backups had one second.
THEOREM NothingIsLost == Spec => []VersionsKept
<1>1. Init => HeldInv
  BY ReadableInit, VersionsInit DEF Init, CallInit, HeldInv, MigInit
<1>2. HeldInv /\ [Next]_serverVars => HeldInv'
  <2> SUFFICES ASSUME HeldInv, [Next]_serverVars PROVE HeldInv'
    OBVIOUS
  <2>1. CASE group = "migration" /\ MigNext /\ UNCHANGED group
    BY <2>1, ReadableStep, VersionsStep DEF HeldInv
  <2>2. CASE group # "migration" /\ UNCHANGED <<group, migVars>>
    BY <2>2 DEF HeldInv, migVars, files
  <2>3. CASE UNCHANGED serverVars
    BY <2>3 DEF serverVars, HeldInv, calls, history, migVars, files, migLocals, ReadableInv, MigType,
      Readable, Passwords, SomeRemarked, Remarked, VersionsInv, Disturbed, BackedUp, InABackup, Open
  <2> QED BY <2>1, <2>2, <2>3 DEF Next
<1>3. HeldInv => VersionsKept
  BY DEF HeldInv, VersionsInv, VersionsKept, Disturbed, InABackup
<1> QED BY <1>1, <1>2, <1>3, PTL DEF Spec
=============================================================================
